-------------------------- MODULE MCLeaderElection --------------------------
(* LeaderElection with two replicas and a clock long enough for a takeover. *)
EXTENDS LeaderElection, TLC

Symmetry == Permutations(Replicas)



=============================================================================
