-------------------------- MODULE MCRevisionLease --------------------------
(* RevisionLease with two processes and clocks that disagree by more than the skew. *)
EXTENDS RevisionLease, TLC

Symmetry == Permutations(Procs)

=============================================================================
