--------------------------- MODULE MCScheduledTasks ---------------------------
(* Small instances of ScheduledTasks for TLC. *)
EXTENDS ScheduledTasks, FiniteSets, TLC

(* Every tick, and once at the second tick. *)
TwoRules == {[kind |-> "interval", at |-> 1], [kind |-> "once", at |-> 2]}

(* Plans and kernels are only compared. *)
Identities == Permutations(Tasks) \cup Permutations(Kernels)

(* Two bounds for one run: the timers of all kernels, started at the first  *)
(* tick or after it has missed the second, with one plan that no command    *)
(* runs; and one kernel, started at the first tick, with all plans and      *)
(* commands, up to the second tick and item.                                *)
OnlyTimers ==
    /\ \A t, u \in Tasks : task[t].status # "ABSENT" /\ task[u].status # "ABSENT" => t = u
    /\ \A c \in Commands : request[c] = NoRequest
    /\ \A k \in Kernels : started[k] # 2
OneKernel ==
    /\ now <= 2 /\ Cardinality(items) <= 1
    /\ \A k, l \in Kernels : Up(k) /\ Up(l) => k = l
    /\ \A k \in Kernels : started[k] <= 1
Bounded == OnlyTimers \/ OneKernel

=============================================================================
