------------------------------- MODULE Journal -------------------------------
(***************************************************************************)
(* What the ledger of a group promises, and nothing about how: it only     *)
(* grows, by whole operations that appear together with their effect on    *)
(* the balances.  A contribution is passed on in full once for each rule,  *)
(* its reversal leaves none of its rows standing, and a row that reverses  *)
(* another one undoes exactly that one.                                    *)
(***************************************************************************)
EXTENDS Integers, Sequences, Functions

CONSTANTS
    Vaults,
    Contributions,
    Contributed,        \* amount of a contribution
    NoContribution,
    Most                \* the most rules a contribution can find

VARIABLES rows, balance, contribution

vars == <<rows, balance, contribution>>

Init ==
    /\ rows = <<>>
    /\ balance = [x \in Vaults |-> 0]
    /\ contribution = [c \in Contributions |-> "NONE"]

\* The rows that a step adds.
Booked == SubSeq(rows', Len(rows) + 1, Len(rows'))

Effect(row) == IF row.direction = "CREDIT" THEN row.amount ELSE -row.amount

\* The row undoes an earlier one.
Undoes(row) ==
    /\ row.reverses \in DOMAIN rows
    /\ LET original == rows[row.reverses]
       IN  /\ row.vault = original.vault /\ row.source = original.source
           /\ Effect(row) = -Effect(original)

Book ==
    /\ SubSeq(rows', 1, Len(rows)) = rows
    /\ balance' = [x \in Vaults |->
                     balance[x] + SumFunction([i \in DOMAIN Booked |->
                                     IF Booked[i].vault = x THEN Effect(Booked[i]) ELSE 0])]
    /\ \A row \in Range(Booked) : row.vault \in Vaults /\ (row.reverses # 0 => Undoes(row))

\* A withdrawal, an entry of a project, or the reversal of one.
Move ==
    /\ \A row \in Range(Booked) : row.source = NoContribution
    /\ UNCHANGED contribution

\* Contribution c arrives, and its amount with it, once for each of n rules.
Record(c) ==
    /\ contribution[c] = "NONE"
    /\ \A row \in Range(Booked) : row.source = c /\ row.reverses = 0 /\ row.direction = "CREDIT"
    /\ \E n \in 0..Most :
          SumFunction([i \in DOMAIN Booked |-> Booked[i].amount]) = n * Contributed[c]
    /\ contribution' = [contribution EXCEPT ![c] = "RECORDED"]

\* The rows of contribution c that stand.
Standing(c) == {i \in DOMAIN rows : /\ rows[i].source = c /\ rows[i].reverses = 0
                                    /\ \A j \in DOMAIN rows : rows[j].reverses # i}

\* Contribution c is taken back, and all that stands of it with it.
Cancel(c) ==
    /\ contribution[c] # "NONE"
    /\ \A row \in Range(Booked) : row.source = c /\ row.reverses # 0
    /\ \A i \in Standing(c) : \E row \in Range(Booked) : row.reverses = i
    /\ contribution' = [contribution EXCEPT ![c] = "REVERSED"]

Next == Book /\ (Move \/ \E c \in Contributions : Record(c) \/ Cancel(c))

Spec == Init /\ [][Next]_vars
==============================================================================
