------------------------- MODULE MCDeletionRequest -------------------------
(* Small instances of DeletionRequest for TLC. *)
EXTENDS DeletionRequest, TLC

Symmetry == Permutations(Posts)
=============================================================================
