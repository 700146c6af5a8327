------------------------------ MODULE MCProjects ------------------------------
(* Instances of Projects for TLC. *)
EXTENDS ProjectsInvariant, TLC

CONSTANTS r1, r2, r3, m1, m2, p1, p2, v1, v2, v3, main, works

\* One project with two vote ids: concurrent resolutions, retries and reopenings.
OneSubject == v1 :> p1 @@ v2 :> p1
OneSource == p1 :> main
OnePayout == p1 :> works
OneBudget == p1 :> 1

\* A third vote id, so that two reopened votes can be open at once.
ThreeSubject == v1 :> p1 @@ v2 :> p1 @@ v3 :> p1

LowestBalance == -1

Symmetry == Permutations(Requests)
OneSymmetry == Permutations(Requests) \cup Permutations(Votes)
=============================================================================
