------------------------- MODULE MCEnrollmentStore -------------------------
(* EnrollmentStore with one enrolling name and one reserved name. *)
EXTENDS EnrollmentStore, TLC

Symmetry == Permutations(Tokens) \cup Permutations(Requests) \cup Permutations(Minters) \cup Permutations(Keys)
=============================================================================
