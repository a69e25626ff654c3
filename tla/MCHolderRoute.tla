---------------------------- MODULE MCHolderRoute ----------------------------
(* HolderRoute with two replicas and a clock long enough for the lease to   *)
(* pass to the other replica and back.                                      *)
EXTENDS HolderRoute, TLC

Symmetry == Permutations(Replicas)

=============================================================================
