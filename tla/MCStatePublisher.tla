--------------------------- MODULE MCStatePublisher ---------------------------
(* StatePublisher with two provider states. *)
EXTENDS StatePublisher

=============================================================================
