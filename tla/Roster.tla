-------------------------------- MODULE Roster --------------------------------
(***************************************************************************)
(* What a group promises about its members, and nothing about how: a user  *)
(* comes in at most once at a time, in a row of their own, and leaving a   *)
(* row is final.                                                           *)
(***************************************************************************)
CONSTANTS Members, Users, Nothing

VARIABLE roster     \* member -> Nothing, then <<user, TRUE>>, then <<user, FALSE>>

vars == <<roster>>

Init == roster = [m \in Members |-> Nothing]

\* User u, who is not in, comes in as m.
Join(m, u) ==
    /\ roster[m] = Nothing
    /\ \A n \in Members : roster[n] # <<u, TRUE>>
    /\ roster' = [roster EXCEPT ![m] = <<u, TRUE>>]

\* m leaves or is removed.
Depart(m) ==
    \E u \in Users :
        /\ roster[m] = <<u, TRUE>>
        /\ roster' = [roster EXCEPT ![m] = <<u, FALSE>>]

Next == \E m \in Members : Depart(m) \/ \E u \in Users : Join(m, u)

Spec == Init /\ [][Next]_vars
==============================================================================
