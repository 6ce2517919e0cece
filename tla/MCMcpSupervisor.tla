----------------------------- MODULE MCMcpSupervisor -----------------------------
(* Instances of McpSupervisor for TLC.                                                     *)
EXTENDS McpSupervisor

(* Two configurations with the same semantics and different runtimes, one with other       *)
(* semantics, and the server switched off.                                                 *)
First == [sem |-> 1, run |-> 1, on |-> TRUE]
AllConfigs == {First, [sem |-> 1, run |-> 2, on |-> TRUE], [sem |-> 2, run |-> 1, on |-> TRUE],
               [sem |-> 1, run |-> 1, on |-> FALSE]}
OnePreview == {1}

==================================================================================
