------------------------------ MODULE MCAccounts ------------------------------
(* Accounts on a few addresses, provider accounts, requests and codes. *)
EXTENDS Accounts, TLC
CONSTANTS ada, bob, profile1, profile2

\* Both provider accounts know ada's address; only the first vouches for it.
KnownAs == [p \in {profile1, profile2} |-> ada]

\* Requests and the digits of codes are interchangeable.
Symmetry == Permutations(Requests) \cup Permutations(Digits)
=============================================================================
