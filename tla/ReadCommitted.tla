---------------------------- MODULE ReadCommitted ----------------------------
(***************************************************************************)
(* The part of PostgreSQL the API relies on, as the code uses it: every    *)
(* prisma.$transaction(...) is an interactive transaction at the default   *)
(* isolation level READ COMMITTED, and every other prisma call is a        *)
(* transaction of one statement.                                           *)
(*                                                                         *)
(* A table column is three functions over the row ids:                     *)
(*   row   the committed values, which every other transaction reads,      *)
(*   new   the values its lock holder has written and not yet committed,   *)
(*   lock  the request whose open transaction has written the row, or Free.*)
(* An UPDATE waits until the row is unlocked or its own, then re-evaluates *)
(* its WHERE clause on the value it finds; a row whose visible value fails *)
(* the clause is skipped without waiting.                                  *)
(***************************************************************************)
CONSTANT Free

\* What a statement of request r reads in row x.
Visible(row, new, lock, x, r) == IF lock[x] = r THEN new[x] ELSE row[x]

\* An UPDATE of row x by r need not wait.
Lockable(lock, x, r) == lock[x] \in {r, Free}

\* The committed values after COMMIT of r.
AfterCommit(row, new, lock, r) ==
    [x \in DOMAIN row |-> IF lock[x] = r THEN new[x] ELSE row[x]]

\* The pending values after ROLLBACK of r.
AfterRollback(row, new, lock, r) ==
    [x \in DOMAIN row |-> IF lock[x] = r THEN row[x] ELSE new[x]]

\* The locks once r's transaction has ended.
Released(lock, r) == [x \in DOMAIN lock |-> IF lock[x] = r THEN Free ELSE lock[x]]
==============================================================================
