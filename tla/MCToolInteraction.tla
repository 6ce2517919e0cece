------------------------- MODULE MCToolInteraction -------------------------
(* Small instances of ToolInteraction for TLC. *)
EXTENDS ToolInteraction, TLC

(* Controllers are only compared. *)
Symmetry == Permutations(Controllers)

=============================================================================
