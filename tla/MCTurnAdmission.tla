--------------------------- MODULE MCTurnAdmission ---------------------------
(* Small instances of TurnAdmission for TLC. *)
EXTENDS TurnAdmission, TLC

(* Intents are only compared, and a rival stays a rival. *)
IntentSymmetry == Permutations(Intents \ Rivals)

=============================================================================
