-------------------------- MODULE MCSessionKernel --------------------------
(* Small instances of SessionKernel for TLC. *)
EXTENDS SessionKernel, TLC

(* Hosts, requests, items and continuations are interchangeable: the model  *)
(* only compares them.                                                      *)
Symmetry ==
    Permutations(Hosts) \cup Permutations(Commands) \cup
    Permutations(Items) \cup Permutations(Continuations)

=============================================================================
