----------------------------- MODULE MCMembership -----------------------------
(* Instances of Membership for TLC. *)
EXTENDS Membership, TLC

CONSTANTS r1, r2, i1, i2, founder, v1, ada, bob, cleo

Symmetry == Permutations(Requests) \cup Permutations(Invites) \cup Permutations(Invited)
==============================================================================
