------------------------------ MODULE MCSessions ------------------------------
(* Sessions on a few browsers, requests, codes and sessions. *)
EXTENDS Sessions, TLC

\* Requests and codes are interchangeable.
Symmetry == Permutations(Requests) \cup Permutations(Codes)
=============================================================================
