------------------------------ MODULE Credential ------------------------------
(***************************************************************************)
(* What the API promises about the refresh token of a device, and nothing  *)
(* about how: at most one token is good at a time, a newer token of the    *)
(* same session replaces it for good, and a session that has ended is      *)
(* never good again: the device has to sign in.                            *)
(***************************************************************************)
EXTENDS Naturals

CONSTANTS Devices, Ids, Numbers, Nothing

VARIABLES
    good,       \* device -> the session and the number of its good token, or Nothing
    opened      \* the sessions the devices have ever signed in to

vars == <<good, opened>>

Init == good = [d \in Devices |-> Nothing] /\ opened = {}

\* Device d gets a token of a new session.
SignIn(d) ==
    \E s \in Ids \ opened, n \in Numbers :
        /\ good' = [good EXCEPT ![d] = [sid |-> s, n |-> n]]
        /\ opened \cup {s} \subseteq opened'

\* A newer token replaces the good one of d.
Renew(d) ==
    /\ good[d] # Nothing
    /\ \E n \in Numbers : n > good[d].n /\ good' = [good EXCEPT ![d].n = n]
    /\ UNCHANGED opened

\* The session of d is revoked.
End(d) ==
    /\ good[d] # Nothing
    /\ good' = [good EXCEPT ![d] = Nothing]
    /\ UNCHANGED opened

Next == \E d \in Devices : SignIn(d) \/ Renew(d) \/ End(d)

Spec == Init /\ [][Next]_vars
===============================================================================
