-------------------------- MODULE MCProjectsLiveness --------------------------
(* An instance of ProjectsLiveness for TLC. *)
EXTENDS ProjectsLiveness, TLC

CONSTANTS r1, r2, m1, p1, v1, v2, main, works

LiveSubject == v1 :> p1 @@ v2 :> p1
LiveSource == p1 :> main
LivePayout == p1 :> NoVault
LiveBudget == p1 :> 1
=============================================================================
