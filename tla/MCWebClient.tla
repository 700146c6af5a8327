----------------------------- MODULE MCWebClient ------------------------------
(* Instances of WebClient for TLC: the slots of the calls are interchangeable *)
EXTENDS WebClient, TLC

Symmetry == Permutations(Calls)

===============================================================================
