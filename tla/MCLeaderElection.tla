-------------------------- MODULE MCLeaderElection --------------------------
(* Small instances of LeaderElection. *)
EXTENDS LeaderElection, TLC

CONSTANTS n1, n2, n3, p1, p2, p3, p4

Symmetric == Permutations(Instances) \cup Permutations(Sessions)
=============================================================================
