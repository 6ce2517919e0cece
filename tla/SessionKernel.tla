---------------------------- MODULE SessionKernel ----------------------------
(***************************************************************************)
(* The canonical store of one Pulsara session, as the PostgreSQL           *)
(* repository of conversation_kernel/_repository keeps it: the writer      *)
(* lease, the turns, the prompt queue and the Plan workflow.  Several host *)
(* processes share the store.  Every writer transaction locks the session  *)
(* row, so each one is an atomic step here; what a host read before a      *)
(* transaction (its writer guard, a provider input cut, a queue candidate) *)
(* is state of that host and may be stale when the host uses it.           *)
(*                                                                         *)
(* A turn is named by what started it: the command of a direct request,    *)
(* the queue item (build_queued_root_turn_identity derives the turn id     *)
(* from the item id) or the prepared Plan continuation.                    *)
(***************************************************************************)
EXTENDS Naturals, FiniteSets

CONSTANTS
    Hosts,          \* host processes (writer_owner_id)
    None,           \* no host, no turn, no candidate
    Commands,       \* direct requests (command_id)
    Items,          \* prompt_queue_items (id)
    Continuations,  \* prepared Plan continuation turns
    Capacity,       \* STAGE2_LIMITS.pending_prompt_hard_items
    MaxGeneration,  \* bound: writer generations explored
    MaxWorkflows,   \* bound: Plan workflows entered
    MaxRevision,    \* bound: revision of a Plan workflow that may still ask
    Origins,        \* bound: origins of queued input explored
    Batches         \* bound: tool batches a message may open

ASSUME BoundsAssumption ==
    /\ {Capacity, MaxGeneration, MaxWorkflows, MaxRevision} \subseteq Nat
    /\ Origins \subseteq {"HUMAN", "SCHEDULED_TASK", "CELL_OUTPUT"}
    /\ Batches \subseteq {"TOOLS", "PLAN"}

ASSUME IdentitiesAssumption ==
    /\ Commands \cap Items = {}
    /\ Commands \cap Continuations = {}
    /\ Items \cap Continuations = {}
    /\ None \notin Hosts \cup Commands \cup Items \cup Continuations

VARIABLES
    lifecycle,      \* sessions.lifecycle, or "DELETED" once the row is gone
    generation,     \* sessions.writer_generation
    owner,          \* sessions.writer_lease_owner_id
    leaseLive,      \* writer_lease_expires_at > clock_timestamp()
    turn,           \* turns rows
    calls,          \* turn: the tool calls that have no tool_results row yet
    attempt,        \* turn: its tool_execution_attempts rows
    item,           \* prompt_queue_items rows
    queueSeq,       \* sessions.latest_prompt_queue_sequence
    workflow,       \* the latest plan_workflows row
    interactions,   \* the OPEN plan_interactions rows
    guard,          \* host: the generation of the HostWriterGuard it holds
    cut,            \* host: the turn of its PreparedProviderInputCut
    head            \* host: its PreparedQueuedRootTurnAdmission

sessionVars == <<lifecycle, generation, owner, leaseLive>>
toolVars    == <<calls, attempt>>
queueVars   == <<item, queueSeq>>
planVars    == <<workflow, interactions>>
hostVars    == <<guard, cut, head>>
vars == <<sessionVars, turn, toolVars, queueVars, planVars, hostVars>>

-----------------------------------------------------------------------------
(* Types                                                                   *)

Turns == Commands \cup Items \cup Continuations

TurnStatus == {"ABSENT", "RUNNING", "COMPLETED", "INTERRUPTED"}
TerminalReason == {"NONE", "COMPLETED", "HOST_TAKEOVER", "STOPPED",
                   "PROVIDER_INPUT_PLAN_CONFLICT",
                   "PROVIDER_INPUT_RESOURCE_EXHAUSTED", "PLAN_FORCE_EXIT"}

(* FrozenRunPermissionSnapshot, up to the requested mode, which no guard    *)
(* of the repository distinguishes.                                         *)
Permission == [overlay : {"NONE", "PLAN_READ_ONLY"}, ordinal : Nat, revision : Nat]

(* A turns row.  `generation` is a history field: the writer generation     *)
(* that admitted the turn.                                                  *)
TurnRow == [status : TurnStatus, reason : TerminalReason, perm : Permission,
            handoff : Nat, generation : Nat]

(* The open calls of a turn's latest assistant message are one Plan batch   *)
(* or one ordinary batch; an attempt is open until its result is accepted.  *)
CallState == {"NONE", "TOOLS", "PLAN"}
AttemptState == {"NONE", "OPEN", "SETTLED"}

ItemStatus == {"ABSENT", "PENDING", "CONSUMED", "CANCELLED", "REJECTED"}
ItemRow == [status : ItemStatus, mode : {"NEW_TURN", "STEER_ACTIVE_TURN"},
            origin : {"HUMAN", "SCHEDULED_TASK", "CELL_OUTPUT"},
            target : Turns \cup {None}, seq : Nat,
            perm : Permission, handoff : Nat]

WorkflowStatus ==
    {"NONE", "ACTIVE", "EXITED", "APPROVED", "CANCELLED", "FORCE_EXITED"}
Interaction == [kind : {"QUESTION", "DRAFT_REVIEW"}, origin : Turns,
                ordinal : Nat, revision : Nat]

(* A prepared queue head; `refused` once its consumption raised a conflict. *)
Candidate == [item : Items, perm : Permission, handoff : Nat, refused : BOOLEAN]

NoPermission == [overlay |-> "NONE", ordinal |-> 0, revision |-> 0]
AbsentTurn == [status |-> "ABSENT", reason |-> "NONE", perm |-> NoPermission,
               handoff |-> 0, generation |-> 0]
AbsentItem == [status |-> "ABSENT", mode |-> "NEW_TURN", origin |-> "HUMAN",
               target |-> None, seq |-> 0, perm |-> NoPermission, handoff |-> 0]

(* The type invariant: every variable holds a row of its table.             *)
TypeOK ==
    /\ lifecycle \in {"OPEN", "ARCHIVED", "DELETED"}
    /\ generation \in Nat
    /\ owner \in Hosts \cup {None}
    /\ leaseLive \in BOOLEAN
    /\ turn \in [Turns -> TurnRow]
    /\ calls \in [Turns -> CallState]
    /\ attempt \in [Turns -> AttemptState]
    /\ item \in [Items -> ItemRow]
    /\ queueSeq \in Nat
    /\ workflow \in [ordinal : Nat, status : WorkflowStatus, revision : Nat]
    /\ interactions \subseteq Interaction
    /\ guard \in [Hosts -> Nat]
    /\ cut \in [Hosts -> Turns \cup {None}]
    /\ head \in [Hosts -> Candidate \cup {None}]

-----------------------------------------------------------------------------
(* What the transactions read                                              *)

RunningTurns == {t \in Turns : turn[t].status = "RUNNING"}

(* _require_writer: the session is OPEN and the guard names the current     *)
(* generation, the lease owner and an unexpired lease.                      *)
Writer(h) ==
    /\ lifecycle = "OPEN"
    /\ guard[h] = generation
    /\ owner = h
    /\ leaseLive

NoLiveWriter == owner = None \/ ~leaseLive

Pending(i) == item[i].status = "PENDING"
PendingNewTurn(i) == Pending(i) /\ item[i].mode = "NEW_TURN"
PendingSteers(T) ==
    {i \in Items : /\ Pending(i)
                   /\ item[i].mode = "STEER_ACTIVE_TURN"
                   /\ item[i].target \in T}

(* Mutation: the newest waiting prompt is taken first. *)
IsNewest(i) ==
    /\ PendingNewTurn(i)
    /\ \A j \in Items : PendingNewTurn(j) => item[i].seq >= item[j].seq

(* The FIFO head of the NEW_TURN lane, and of the steer lane of one turn.   *)
IsHead(i) ==
    /\ PendingNewTurn(i)
    /\ \A j \in Items : PendingNewTurn(j) => item[i].seq <= item[j].seq
IsLaneHead(i, t) ==
    /\ i \in PendingSteers({t})
    /\ \A j \in PendingSteers({t}) : item[i].seq <= item[j].seq

(* _require_prompt_queue_capacity *)
HasCapacity == Cardinality({i \in Items : Pending(i)}) < Capacity

PlanActive == workflow.status = "ACTIVE"

PlanPermission(ordinal, revision) ==
    [overlay |-> "PLAN_READ_ONLY", ordinal |-> ordinal, revision |-> revision]
OpenPermission(ordinal) ==
    [overlay |-> "NONE", ordinal |-> ordinal, revision |-> 0]

(* _freeze_root_permission_snapshot *)
FrozenPermission ==
    IF PlanActive
    THEN PlanPermission(workflow.ordinal, workflow.revision)
    ELSE OpenPermission(workflow.ordinal)

(* Mutation: a handoff that a turn has taken counts as free. *)
HandoffIgnoringTurns ==
    IF /\ workflow.status \in {"CANCELLED", "FORCE_EXITED"}
       /\ \A i \in Items : item[i].handoff # workflow.ordinal
    THEN workflow.ordinal
    ELSE 0

(* _eligible_plan_handoff: the latest workflow was cancelled or forced out  *)
(* and no turn and no queue item carries its handoff yet (0 is no handoff). *)
EligibleHandoff ==
    IF /\ workflow.status \in {"CANCELLED", "FORCE_EXITED"}
       /\ \A t \in Turns : turn[t].handoff # workflow.ordinal
       /\ \A i \in Items : item[i].handoff # workflow.ordinal
    THEN workflow.ordinal
    ELSE 0

(* _queue_delivery_permission and _queue_delivery_handoff: a scheduled item *)
(* keeps what its enqueue froze, the others are judged at delivery.         *)
DeliveryPermission(i) ==
    IF item[i].origin = "SCHEDULED_TASK" THEN item[i].perm ELSE FrozenPermission
DeliveryHandoff(i) ==
    CASE item[i].origin = "CELL_OUTPUT"    -> 0
      [] item[i].origin = "SCHEDULED_TASK" -> item[i].handoff
      [] OTHER                             -> EligibleHandoff

(* A scheduled item whose Plan context is no longer the one it was accepted *)
(* under.                                                                   *)
PlanContextChanged(i) ==
    /\ item[i].origin = "SCHEDULED_TASK"
    /\ \/ item[i].perm.ordinal # workflow.ordinal
       \/ item[i].perm.overlay = "NONE" /\ PlanActive
       \/ item[i].perm.overlay = "PLAN_READ_ONLY" /\ ~PlanActive

-----------------------------------------------------------------------------
(* What the transactions write                                             *)

NewTurn(perm, handoff) ==
    [status |-> "RUNNING", reason |-> "NONE", perm |-> perm,
     handoff |-> handoff, generation |-> generation]

Completed(row) == [row EXCEPT !.status = "COMPLETED", !.reason = "COMPLETED"]

(* Mutation: a status that turns rows do not have. *)
CancelTurns(T, reason) ==
    [t \in Turns |->
        IF t \in T \cap RunningTurns
        THEN [turn[t] EXCEPT !.status = "CANCELLED", !.reason = reason]
        ELSE turn[t]]

(* turns: the RUNNING rows of T become INTERRUPTED with this reason. *)
InterruptTurns(T, reason) ==
    [t \in Turns |->
        IF t \in T \cap RunningTurns
        THEN [turn[t] EXCEPT !.status = "INTERRUPTED", !.reason = reason]
        ELSE turn[t]]

(* prompt_queue_items: the rows of S reach this terminal status. *)
SettleItems(S, status) ==
    [i \in Items |-> IF i \in S THEN [item[i] EXCEPT !.status = status] ELSE item[i]]

(* _reject_terminal_prompt_steer_heads, with `running` the RUNNING turns:   *)
(* every PENDING steer whose exact target is not RUNNING is REJECTED.       *)
RejectTerminalSteers(running) ==
    SettleItems(PendingSteers(Turns \ running), "REJECTED")

(* OPEN interactions left once the questions, or everything, of the turns   *)
(* in T is ABORTED.                                                         *)
AbortQuestions(T) ==
    {x \in interactions : ~(x.kind = "QUESTION" /\ x.origin \in T)}
AbortInteractions(T) == {x \in interactions : x.origin \notin T}

(* The process of host session h is gone: nothing it held is used again.    *)
ForgetHost(h) ==
    /\ guard' = [guard EXCEPT ![h] = 0]
    /\ cut' = [cut EXCEPT ![h] = None]
    /\ head' = [head EXCEPT ![h] = None]

-----------------------------------------------------------------------------
(* Writer lease and session lifecycle: authority.py, deletion.py, archive.py *)

(* A new session: acquire_host_writer(NEW) by some host. *)
Init ==
    /\ lifecycle = "OPEN"
    /\ generation = 1
    /\ leaseLive = TRUE
    /\ \E h \in Hosts :
          /\ owner = h
          /\ guard = [g \in Hosts |-> IF g = h THEN 1 ELSE 0]
    /\ turn = [t \in Turns |-> AbsentTurn]
    /\ calls = [t \in Turns |-> "NONE"]
    /\ attempt = [t \in Turns |-> "NONE"]
    /\ item = [i \in Items |-> AbsentItem]
    /\ queueSeq = 0
    /\ workflow = [ordinal |-> 0, status |-> "NONE", revision |-> 0]
    /\ interactions = {}
    /\ cut = [h \in Hosts |-> None]
    /\ head = [h \in Hosts |-> None]

(* Mutation: the takeover forgets _interrupt_prior_generation. *)
AcquireKeepingTurns(h) ==
    /\ lifecycle = "OPEN"
    /\ generation < MaxGeneration
    /\ guard[h] = 0
    /\ owner = h => ~leaseLive
    /\ generation' = generation + 1
    /\ owner' = h
    /\ leaseLive' = TRUE
    /\ guard' = [guard EXCEPT ![h] = generation + 1]
    /\ UNCHANGED <<turn, item, interactions, lifecycle, toolVars, queueSeq, workflow, cut, head>>

(* acquire_host_writer by a host session that is not the live owner (every  *)
(* open draws a fresh owner id): the EXISTING intent takes over even a live *)
(* lease, RESTORE and SCHEDULED only a dead one.  The takeover and          *)
(* _interrupt_prior_generation are one transaction.  The same-owner branch  *)
(* and renew_host_writer only move the expiry.                              *)
AcquireHostWriter(h) ==
    /\ lifecycle = "OPEN"
    /\ generation < MaxGeneration
    /\ guard[h] = 0
    /\ owner = h => ~leaseLive
    /\ generation' = generation + 1
    /\ owner' = h
    /\ leaseLive' = TRUE
    /\ guard' = [guard EXCEPT ![h] = generation + 1]
    /\ turn' = InterruptTurns(Turns, "HOST_TAKEOVER")
    /\ interactions' = AbortQuestions(RunningTurns)
    /\ item' = SettleItems(PendingSteers(RunningTurns), "REJECTED")
    /\ UNCHANGED <<lifecycle, toolVars, queueSeq, workflow, cut, head>>

(* The clock passes writer_lease_expires_at before a renewal. *)
LeaseExpires ==
    /\ leaseLive
    /\ leaseLive' = FALSE
    /\ UNCHANGED <<lifecycle, generation, owner, turn, toolVars, queueVars,
                   planVars, hostVars>>

(* A host process dies, or closes on StaleHostWriter, without a store write. *)
HostStops(h) ==
    /\ guard[h] # 0
    /\ ForgetHost(h)
    /\ UNCHANGED <<sessionVars, turn, toolVars, queueVars, planVars>>

(* release_host_writer: clears the lease only of the exact owner and        *)
(* generation.                                                              *)
ReleaseHostWriter(h) ==
    /\ guard[h] = generation
    /\ owner = h
    /\ owner' = None
    /\ leaseLive' = FALSE
    /\ ForgetHost(h)
    /\ UNCHANGED <<lifecycle, generation, turn, toolVars, queueVars, planVars>>

(* The closed_writer check of archive_session and delete_session; c is the  *)
(* host session just closed by this process, None when there is none.       *)
ClosedWriter(c) ==
    IF c = None
    THEN NoLiveWriter
    ELSE guard[c] = generation /\ owner \in {None, c}

ForgetClosed(c) == IF c = None THEN UNCHANGED hostVars ELSE ForgetHost(c)

(* IDLE_SESSION_SQL *)
SessionIdle ==
    /\ RunningTurns = {}
    /\ \A i \in Items : ~Pending(i)
    /\ ~PlanActive
    /\ interactions = {}
    /\ \A t \in Turns : attempt[t] # "OPEN"

(* Mutation: open tool attempts and Plans do not count as unfinished. *)
ArchiveQuietSession(c) ==
    /\ lifecycle = "OPEN"
    /\ ClosedWriter(c)
    /\ RunningTurns = {}
    /\ \A i \in Items : ~Pending(i)
    /\ lifecycle' = "ARCHIVED"
    /\ owner' = None
    /\ leaseLive' = FALSE
    /\ ForgetClosed(c)
    /\ UNCHANGED <<generation, turn, toolVars, queueVars, planVars>>

ArchiveSession(c) ==
    /\ lifecycle = "OPEN"
    /\ ClosedWriter(c)
    /\ SessionIdle
    /\ lifecycle' = "ARCHIVED"
    /\ owner' = None
    /\ leaseLive' = FALSE
    /\ ForgetClosed(c)
    /\ UNCHANGED <<generation, turn, toolVars, queueVars, planVars>>

UnarchiveSession ==
    /\ lifecycle = "ARCHIVED"
    /\ lifecycle' = "OPEN"
    /\ UNCHANGED <<generation, owner, leaseLive, turn, toolVars, queueVars,
                   planVars, hostVars>>

(* delete_session: the row and, by cascade, every row of the session.       *)
DeleteSession(c) ==
    /\ lifecycle # "DELETED"
    /\ ClosedWriter(c)
    /\ lifecycle' = "DELETED"
    /\ owner' = None
    /\ leaseLive' = FALSE
    /\ turn' = [t \in Turns |-> AbsentTurn]
    /\ calls' = [t \in Turns |-> "NONE"]
    /\ attempt' = [t \in Turns |-> "NONE"]
    /\ item' = [i \in Items |-> AbsentItem]
    /\ workflow' = [ordinal |-> 0, status |-> "NONE", revision |-> 0]
    /\ interactions' = {}
    /\ ForgetClosed(c)
    /\ UNCHANGED <<generation, queueSeq>>

-----------------------------------------------------------------------------
(* Admission and the prompt queue: conversation.py, prompts.py             *)

(* Mutation: a turn that runs already does not refuse the request. *)
AcceptBesideRunning(h, c) ==
    /\ Writer(h)
    /\ turn[c].status = "ABSENT"
    /\ interactions = {}
    /\ turn' = [turn EXCEPT ![c] = NewTurn(FrozenPermission, EligibleHandoff)]
    /\ UNCHANGED <<sessionVars, toolVars, queueVars, planVars, hostVars>>

(* accept_root_turn_intent: permission and handoff are judged inside the    *)
(* transaction that creates the turn.  A replayed command finds its turn.   *)
AcceptRootTurnIntent(h, c) ==
    /\ Writer(h)
    /\ turn[c].status = "ABSENT"
    /\ interactions = {}
    /\ RunningTurns = {}
    /\ turn' = [turn EXCEPT ![c] = NewTurn(FrozenPermission, EligibleHandoff)]
    /\ UNCHANGED <<sessionVars, toolVars, queueVars, planVars, hostVars>>

(* Insert a queue row with the next latest_prompt_queue_sequence. *)
InsertItem(i, mode, origin, target, perm, handoff) ==
    /\ origin \in Origins
    /\ item[i].status = "ABSENT"
    /\ queueSeq' = queueSeq + 1
    /\ item' = [item EXCEPT ![i] =
                   [status |-> "PENDING", mode |-> mode, origin |-> origin,
                    target |-> target, seq |-> queueSeq + 1,
                    perm |-> perm, handoff |-> handoff]]

QueueOnly == UNCHANGED <<sessionVars, turn, toolVars, planVars, hostVars>>

(* enqueue_prompt of a human message: a later turn, or a steer of the       *)
(* RUNNING turn the user named.                                             *)
EnqueuePrompt(h, i) ==
    /\ Writer(h)
    /\ HasCapacity
    /\ InsertItem(i, "NEW_TURN", "HUMAN", None, NoPermission, 0)
    /\ QueueOnly

EnqueueSteer(h, i, t) ==
    /\ Writer(h)
    /\ HasCapacity
    /\ t \in RunningTurns
    /\ InsertItem(i, "STEER_ACTIVE_TURN", "HUMAN", t, NoPermission, 0)
    /\ QueueOnly

(* enqueue_prompt of a scheduled input: it steers the RUNNING turn if there *)
(* is one, else waits for a turn of its own with the permission and the     *)
(* handoff frozen now.                                                      *)
EnqueueScheduled(h, i) ==
    /\ Writer(h)
    /\ HasCapacity
    /\ \/ /\ RunningTurns = {}
          /\ InsertItem(i, "NEW_TURN", "SCHEDULED_TASK", None,
                        FrozenPermission, EligibleHandoff)
       \/ \E t \in RunningTurns :
             InsertItem(i, "STEER_ACTIVE_TURN", "SCHEDULED_TASK", t, NoPermission, 0)
    /\ QueueOnly

(* enqueue_cell_output of some exec_cell attempt, with the same routing.    *)
EnqueueCellOutput(h, i) ==
    /\ Writer(h)
    /\ \E t \in Turns : attempt[t] # "NONE"
    /\ HasCapacity
    /\ \/ /\ RunningTurns = {}
          /\ InsertItem(i, "NEW_TURN", "CELL_OUTPUT", None, NoPermission, 0)
       \/ \E t \in RunningTurns :
             InsertItem(i, "STEER_ACTIVE_TURN", "CELL_OUTPUT", t, NoPermission, 0)
    /\ QueueOnly

(* Mutation: the status CAS of the cancellation is dropped. *)
CancelAnyPrompt(h, i) ==
    /\ Writer(h)
    /\ item[i].status # "ABSENT"
    /\ item' = SettleItems({i}, "CANCELLED")
    /\ UNCHANGED queueSeq
    /\ QueueOnly

(* cancel_prompt; the cancel branch of apply_queued_prompt_action is its    *)
(* NEW_TURN case.                                                           *)
CancelPrompt(h, i) ==
    /\ Writer(h)
    /\ Pending(i)
    /\ item' = SettleItems({i}, "CANCELLED")
    /\ UNCHANGED queueSeq
    /\ QueueOnly

(* The redirect branch of apply_queued_prompt_action: a waiting human       *)
(* message is cancelled and re-queued as a steer j of the RUNNING turn t,   *)
(* outside the capacity check.                                              *)
RedirectQueuedPrompt(h, i, j, t) ==
    /\ Writer(h)
    /\ PendingNewTurn(i)
    /\ item[i].origin = "HUMAN"
    /\ t \in RunningTurns
    /\ item[j].status = "ABSENT"
    /\ queueSeq' = queueSeq + 1
    /\ item' = [item EXCEPT
                  ![i].status = "CANCELLED",
                  ![j] = [status |-> "PENDING", mode |-> "STEER_ACTIVE_TURN",
                          origin |-> "HUMAN", target |-> t, seq |-> queueSeq + 1,
                          perm |-> NoPermission, handoff |-> 0]]
    /\ QueueOnly

-----------------------------------------------------------------------------
(* Delivery of the queue head: the host's _prompt_delivery_loop            *)

(* prepare_prompt_head_consumption: a read without the writer lock, so the  *)
(* candidate may be stale when it is consumed.                              *)
PreparePromptHead(h) ==
    /\ guard[h] # 0
    /\ head[h] = None
    /\ RunningTurns = {}
    /\ interactions = {}
    /\ \E i \in Items :
          /\ IsHead(i)
          /\ head' = [head EXCEPT ![h] =
                        [item |-> i, perm |-> DeliveryPermission(i),
                         handoff |-> DeliveryHandoff(i), refused |-> FALSE]]
    /\ UNCHANGED <<sessionVars, turn, toolVars, queueVars, planVars, guard, cut>>

(* consume_prepared_prompt_head returns None: a turn runs, the lane is      *)
(* empty, or an interaction is open.  Its sweep of terminal steers commits. *)
ConsumeFindsNoWork(h) ==
    /\ \/ RunningTurns # {}
       \/ ~\E i \in Items : PendingNewTurn(i)
       \/ IsHead(head[h].item) /\ interactions # {}
    /\ item' = RejectTerminalSteers(RunningTurns)
    /\ head' = [head EXCEPT ![h] = None]
    /\ UNCHANGED turn

(* Mutation: a refused candidate is tried again unchanged. *)
ConflictsAreRetried(h) ==
    /\ RunningTurns = {}
    /\ \/ \E i \in Items : IsHead(i) /\ i # head[h].item
       \/ /\ IsHead(head[h].item)
          /\ interactions = {}
          /\ ~PlanContextChanged(head[h].item)
          /\ \/ DeliveryHandoff(head[h].item) # head[h].handoff
             \/ DeliveryPermission(head[h].item) # head[h].perm
    /\ head' = [head EXCEPT ![h].refused = FALSE]
    /\ UNCHANGED <<turn, item>>

(* ... raises a conflict and rolls back: another head, another handoff or   *)
(* another permission than the candidate froze.                             *)
ConsumeConflicts(h) ==
    /\ RunningTurns = {}
    /\ \/ \E i \in Items : IsHead(i) /\ i # head[h].item
       \/ /\ IsHead(head[h].item)
          /\ interactions = {}
          /\ ~PlanContextChanged(head[h].item)
          /\ \/ DeliveryHandoff(head[h].item) # head[h].handoff
             \/ DeliveryPermission(head[h].item) # head[h].perm
    /\ head' = [head EXCEPT ![h].refused = TRUE]
    /\ UNCHANGED <<turn, item>>

(* ... rejects a scheduled item whose Plan context changed.                 *)
ConsumeRejectsScheduled(h) ==
    /\ RunningTurns = {}
    /\ IsHead(head[h].item)
    /\ interactions = {}
    /\ PlanContextChanged(head[h].item)
    /\ item' = SettleItems(PendingSteers(Turns) \cup {head[h].item}, "REJECTED")
    /\ head' = [head EXCEPT ![h] = None]
    /\ UNCHANGED turn

(* ... starts the turn of the item and marks the item CONSUMED.             *)
ConsumeStartsTurn(h) ==
    LET i == head[h].item IN
    /\ RunningTurns = {}
    /\ IsHead(i)
    /\ interactions = {}
    /\ ~PlanContextChanged(i)
    /\ DeliveryHandoff(i) = head[h].handoff
    /\ DeliveryPermission(i) = head[h].perm
    /\ turn' = [turn EXCEPT ![i] = NewTurn(head[h].perm, head[h].handoff)]
    /\ item' = [RejectTerminalSteers({}) EXCEPT ![i].status = "CONSUMED"]
    /\ head' = [head EXCEPT ![h] = None]

ConsumePreparedPromptHead(h) ==
    /\ Writer(h)
    /\ head[h] # None
    /\ ~head[h].refused
    /\ \/ ConsumeFindsNoWork(h)
       \/ ConsumeConflicts(h)
       \/ ConsumeRejectsScheduled(h)
       \/ ConsumeStartsTurn(h)
    /\ UNCHANGED <<sessionVars, toolVars, queueSeq, planVars, guard, cut>>

(* _reject_prepared_prompt_head_before_delivery: a hook blocked the prompt, *)
(* its model is unavailable, or its consumption was refused; only a head    *)
(* that is still pending is rejected.                                       *)
RejectPreparedPromptHead(h) ==
    /\ Writer(h)
    /\ head[h] # None
    /\ item' = IF IsHead(head[h].item)
                THEN SettleItems({head[h].item}, "REJECTED") ELSE item
    /\ head' = [head EXCEPT ![h] = None]
    /\ UNCHANGED <<sessionVars, turn, toolVars, queueSeq, planVars, guard, cut>>

-----------------------------------------------------------------------------
(* The running turn: conversation.py, tools.py, prompts.py                 *)

(* _require_provider_safe_turn_in_transaction *)
ProviderSafe(t) == t \in RunningTurns /\ calls[t] = "NONE"

(* prepare_provider_input_cut at a provider safe point. *)
PrepareProviderInputCut(h, t) ==
    /\ Writer(h)
    /\ ProviderSafe(t)
    /\ cut' = [cut EXCEPT ![h] = t]
    /\ UNCHANGED <<sessionVars, turn, toolVars, queueVars, planVars, guard, head>>

(* Mutation: the turn of the cut is not checked again. *)
CommitUnderStaleCut(h, opened, complete) ==
    LET t == cut[h] IN
    /\ Writer(h)
    /\ t # None
    /\ opened # "NONE" => ~complete
    /\ turn' = IF complete /\ PendingSteers({t}) = {}
               THEN [turn EXCEPT ![t] = Completed(@)] ELSE turn
    /\ calls' = [calls EXCEPT ![t] = opened]
    /\ cut' = [cut EXCEPT ![h] = None]
    /\ UNCHANGED <<sessionVars, attempt, queueVars, planVars, guard, head>>

(* Mutation: completion ignores steers that came in meanwhile. *)
CommitOvertakesSteer(h, opened, complete) ==
    LET t == cut[h] IN
    /\ Writer(h)
    /\ t # None
    /\ t \in RunningTurns
    /\ opened # "NONE" => ~complete
    /\ turn' = IF complete
               THEN [turn EXCEPT ![t] = Completed(@)] ELSE turn
    /\ calls' = [calls EXCEPT ![t] = opened]
    /\ cut' = [cut EXCEPT ![h] = None]
    /\ UNCHANGED <<sessionVars, attempt, queueVars, planVars, guard, head>>

(* commit_assistant_message under the cut the model call was made from: the *)
(* message may open tool calls, and one that asks to complete the turn does *)
(* so only if no steer is pending at settlement.                            *)
CommitAssistantMessage(h, opened, complete) ==
    LET t == cut[h] IN
    /\ Writer(h)
    /\ t # None
    /\ t \in RunningTurns
    /\ opened # "NONE" => ~complete
    /\ turn' = IF complete /\ PendingSteers({t}) = {}
               THEN [turn EXCEPT ![t] = Completed(@)] ELSE turn
    /\ calls' = [calls EXCEPT ![t] = opened]
    /\ cut' = [cut EXCEPT ![h] = None]
    /\ UNCHANGED <<sessionVars, attempt, queueVars, planVars, guard, head>>

AcceptToolAttempt(h, t) ==
    /\ Writer(h)
    /\ t \in RunningTurns
    /\ calls[t] = "TOOLS"
    /\ attempt' = [attempt EXCEPT ![t] = "OPEN"]
    /\ UNCHANGED <<sessionVars, turn, calls, queueVars, planVars, hostVars>>

(* accept_tool_result, from the process that ran the call.  The turn may be *)
(* terminal by then: a late result is still accepted.                       *)
AcceptToolResult(h, t) ==
    /\ Writer(h)
    /\ turn[t].generation = guard[h]
    /\ calls[t] = "TOOLS"
    /\ calls' = [calls EXCEPT ![t] = "NONE"]
    /\ attempt' = [attempt EXCEPT ![t] = IF @ = "OPEN" THEN "SETTLED" ELSE @]
    /\ UNCHANGED <<sessionVars, turn, queueVars, planVars, hostVars>>

(* A RUNNING turn ends before its answer; its interactions in `left` stay   *)
(* OPEN and every steer of a terminal turn is rejected.                     *)
EndTurn(h, t, reason, left) ==
    /\ Writer(h)
    /\ t \in RunningTurns
    /\ turn' = InterruptTurns({t}, reason)
    /\ interactions' = left
    /\ item' = RejectTerminalSteers(RunningTurns \ {t})
    /\ UNCHANGED <<sessionVars, toolVars, queueSeq, workflow, hostVars>>

(* Mutation: the question of the turn stays OPEN. *)
InterruptKeepingQuestion(h, t) == EndTurn(h, t, "STOPPED", interactions)

(* interrupt_turn *)
InterruptTurn(h, t) == EndTurn(h, t, "STOPPED", AbortQuestions({t}))

(* interrupt_prepared_steer_plan_conflict *)
InterruptSteerPlanConflict(h, t) ==
    EndTurn(h, t, "PROVIDER_INPUT_PLAN_CONFLICT", AbortInteractions({t}))

(* reject_prepared_prompt_steer_resource_exhaustion: the lane head does not *)
(* fit; it is rejected and takes its turn with it.                          *)
RejectSteerResourceExhaustion(h, t) ==
    /\ \E i \in Items : IsLaneHead(i, t)
    /\ EndTurn(h, t, "PROVIDER_INPUT_RESOURCE_EXHAUSTED", AbortInteractions({t}))

(* consume_prepared_prompt_steer: the lane head enters the context at a     *)
(* provider safe point.                                                     *)
ConsumePreparedPromptSteer(h, i, t) ==
    /\ Writer(h)
    /\ ProviderSafe(t)
    /\ IsLaneHead(i, t)
    /\ item' = SettleItems({i}, "CONSUMED")
    /\ UNCHANGED queueSeq
    /\ QueueOnly

-----------------------------------------------------------------------------
(* The Plan workflow: plans.py                                             *)

(* accept_plan_tool_batch holds a batch of the RUNNING turn t whose Plan    *)
(* control has not been settled.                                            *)
PlanBatch(h, t) ==
    /\ Writer(h)
    /\ t \in RunningTurns
    /\ calls[t] = "PLAN"
    /\ \A x \in interactions : x.origin # t

CloseCalls(t) == calls' = [calls EXCEPT ![t] = "NONE"]

(* _consume_plan_terminal_inputs *)
DrainSteers(t) == item' = SettleItems(PendingSteers({t}), "CONSUMED")

Workflow(ordinal, status, revision) ==
    [ordinal |-> ordinal, status |-> status, revision |-> revision]

(* The workflow in this status at its next revision. *)
AdvanceWorkflow(status) ==
    workflow' = Workflow(workflow.ordinal, status, workflow.revision + 1)

(* The batch only yields results: an ENTER while a Plan is active, or a     *)
(* rejected control.                                                        *)
PlanBatchResultsOnly(h, t) ==
    /\ PlanBatch(h, t)
    /\ CloseCalls(t)
    /\ UNCHANGED <<sessionVars, turn, attempt, queueVars, planVars, hostVars>>

(* The origin completes and its continuation c runs, in one transaction.    *)
HandOverTo(t, c, perm) ==
    /\ turn[c].status = "ABSENT"
    /\ turn' = [turn EXCEPT ![t] = Completed(@), ![c] = NewTurn(perm, 0)]
    /\ DrainSteers(t)
    /\ CloseCalls(t)

PlanEnterBatch(h, t, c) ==
    /\ PlanBatch(h, t)
    /\ ~PlanActive
    /\ workflow.ordinal < MaxWorkflows
    /\ workflow' = Workflow(workflow.ordinal + 1, "ACTIVE", 1)
    /\ HandOverTo(t, c, PlanPermission(workflow.ordinal + 1, 1))
    /\ UNCHANGED <<sessionVars, attempt, queueSeq, interactions, hostVars>>

PlanExitBatch(h, t, c) ==
    /\ PlanBatch(h, t)
    /\ PlanActive
    /\ AdvanceWorkflow("EXITED")
    /\ HandOverTo(t, c, OpenPermission(workflow.ordinal))
    /\ UNCHANGED <<sessionVars, attempt, queueSeq, interactions, hostVars>>

(* _advance_plan_workflow_for_interaction and _insert_plan_interaction *)
OpenInteraction(kind, t) ==
    /\ PlanActive
    /\ workflow.revision < MaxRevision
    /\ AdvanceWorkflow("ACTIVE")
    /\ interactions' = interactions \cup
          {[kind |-> kind, origin |-> t, ordinal |-> workflow.ordinal,
            revision |-> workflow.revision + 1]}

(* A question keeps its turn RUNNING and its call open. *)
PlanQuestionBatch(h, t) ==
    /\ PlanBatch(h, t)
    /\ OpenInteraction("QUESTION", t)
    /\ UNCHANGED <<sessionVars, turn, toolVars, queueVars, hostVars>>

(* A draft completes its turn; the review waits for the user. *)
PlanDraftBatch(h, t) ==
    /\ PlanBatch(h, t)
    /\ OpenInteraction("DRAFT_REVIEW", t)
    /\ turn' = [turn EXCEPT ![t] = Completed(@)]
    /\ DrainSteers(t)
    /\ CloseCalls(t)
    /\ UNCHANGED <<sessionVars, attempt, queueSeq, hostVars>>

(* The interaction the user saw is OPEN and its workflow has not moved on.  *)
Answerable(x, kind) ==
    /\ x \in interactions
    /\ x.kind = kind
    /\ PlanActive
    /\ workflow.ordinal = x.ordinal
    /\ workflow.revision = x.revision

ResolvePlanQuestion(h, x) ==
    /\ Writer(h)
    /\ Answerable(x, "QUESTION")
    /\ x.origin \in RunningTurns
    /\ interactions' = interactions \ {x}
    /\ AdvanceWorkflow("ACTIVE")
    /\ CloseCalls(x.origin)
    /\ UNCHANGED <<sessionVars, turn, attempt, queueVars, hostVars>>

(* resolve_plan_draft_review does not look for a RUNNING turn. *)
ApprovePlanDraft(h, x, c) ==
    /\ Writer(h)
    /\ Answerable(x, "DRAFT_REVIEW")
    /\ turn[c].status = "ABSENT"
    /\ interactions' = interactions \ {x}
    /\ AdvanceWorkflow("APPROVED")
    /\ turn' = [turn EXCEPT ![c] = NewTurn(OpenPermission(x.ordinal), 0)]
    /\ UNCHANGED <<sessionVars, toolVars, queueVars, hostVars>>

(* A revision may come from a waiting human message, which it cancels.      *)
RevisePlanDraft(h, x, c, source) ==
    /\ Writer(h)
    /\ Answerable(x, "DRAFT_REVIEW")
    /\ turn[c].status = "ABSENT"
    /\ source # None => PendingNewTurn(source) /\ item[source].origin = "HUMAN"
    /\ interactions' = interactions \ {x}
    /\ AdvanceWorkflow("ACTIVE")
    /\ turn' = [turn EXCEPT
                  ![c] = NewTurn(PlanPermission(x.ordinal, x.revision + 1), 0)]
    /\ item' = SettleItems({source}, "CANCELLED")
    /\ UNCHANGED <<sessionVars, toolVars, queueSeq, hostVars>>

CancelPlanDraft(h, x) ==
    /\ Writer(h)
    /\ Answerable(x, "DRAFT_REVIEW")
    /\ interactions' = interactions \ {x}
    /\ AdvanceWorkflow("CANCELLED")
    /\ UNCHANGED <<sessionVars, turn, toolVars, queueVars, hostVars>>

EnterPlanByUser(h) ==
    /\ Writer(h)
    /\ RunningTurns = {}
    /\ interactions = {}
    /\ ~PlanActive
    /\ workflow.ordinal < MaxWorkflows
    /\ workflow' = Workflow(workflow.ordinal + 1, "ACTIVE", 1)
    /\ UNCHANGED <<sessionVars, turn, toolVars, queueVars, interactions, hostVars>>

(* exit_plan_by_user(CANCEL_PLAN) *)
CancelPlan(h) ==
    /\ Writer(h)
    /\ PlanActive
    /\ RunningTurns = {}
    /\ interactions = {}
    /\ AdvanceWorkflow("CANCELLED")
    /\ UNCHANGED <<sessionVars, turn, toolVars, queueVars, interactions, hostVars>>

OfOtherWorkflows == {x \in interactions : x.ordinal # workflow.ordinal}

(* prepare_force_plan_exit, phase one: the turn of the workflow is          *)
(* interrupted and its interaction aborted; the steers of the turn are not  *)
(* touched.                                                                 *)
PrepareForcePlanExit(h) ==
    /\ Writer(h)
    /\ PlanActive
    /\ \A t \in RunningTurns :
          /\ turn[t].perm.overlay = "PLAN_READ_ONLY"
          /\ turn[t].perm.ordinal = workflow.ordinal
    /\ turn' = InterruptTurns(Turns, "PLAN_FORCE_EXIT")
    /\ interactions' = OfOtherWorkflows
    /\ UNCHANGED <<sessionVars, toolVars, queueVars, workflow, hostVars>>

(* Mutation: phase two does not wait for the turn. *)
ForceExitUnderRunningTurn(h) ==
    /\ Writer(h)
    /\ PlanActive
    /\ interactions' = OfOtherWorkflows
    /\ AdvanceWorkflow("FORCE_EXITED")
    /\ UNCHANGED <<sessionVars, turn, toolVars, queueVars, hostVars>>

(* exit_plan_by_user(FORCE_EXIT_PLAN), phase two, after the physical turn   *)
(* has stopped.                                                             *)
ForceExitPlan(h) ==
    /\ Writer(h)
    /\ PlanActive
    /\ RunningTurns = {}
    /\ interactions' = OfOtherWorkflows
    /\ AdvanceWorkflow("FORCE_EXITED")
    /\ UNCHANGED <<sessionVars, turn, toolVars, queueVars, hostVars>>

-----------------------------------------------------------------------------
LifecycleNext ==
    \/ LeaseExpires
    \/ UnarchiveSession
    \/ \E h \in Hosts : AcquireHostWriter(h) \/ HostStops(h) \/ ReleaseHostWriter(h)
    \/ \E c \in Hosts \cup {None} : ArchiveSession(c) \/ DeleteSession(c)

QueueNext(h) ==
    \/ \E c \in Commands : AcceptRootTurnIntent(h, c)
    \/ \E i \in Items :
          \/ EnqueuePrompt(h, i)
          \/ EnqueueScheduled(h, i)
          \/ EnqueueCellOutput(h, i)
          \/ CancelPrompt(h, i)
          \/ \E t \in Turns : EnqueueSteer(h, i, t)
          \/ \E j \in Items, t \in Turns : RedirectQueuedPrompt(h, i, j, t)
    \/ PreparePromptHead(h)
    \/ ConsumePreparedPromptHead(h)
    \/ RejectPreparedPromptHead(h)

RunnerNext(h) ==
    \/ \E opened \in Batches \cup {"NONE"}, complete \in BOOLEAN :
          CommitAssistantMessage(h, opened, complete)
    \/ \E t \in Turns :
          \/ PrepareProviderInputCut(h, t)
          \/ AcceptToolAttempt(h, t)
          \/ AcceptToolResult(h, t)
          \/ InterruptTurn(h, t)
          \/ InterruptSteerPlanConflict(h, t)
          \/ RejectSteerResourceExhaustion(h, t)
          \/ \E i \in Items : ConsumePreparedPromptSteer(h, i, t)

PlanNext(h) ==
    \/ \E t \in Turns :
          \/ PlanBatchResultsOnly(h, t)
          \/ PlanQuestionBatch(h, t)
          \/ PlanDraftBatch(h, t)
          \/ \E c \in Continuations : PlanEnterBatch(h, t, c) \/ PlanExitBatch(h, t, c)
    \/ \E x \in interactions :
          \/ ResolvePlanQuestion(h, x)
          \/ CancelPlanDraft(h, x)
          \/ \E c \in Continuations :
                \/ ApprovePlanDraft(h, x, c)
                \/ \E source \in Items \cup {None} : RevisePlanDraft(h, x, c, source)
    \/ EnterPlanByUser(h)
    \/ CancelPlan(h)
    \/ PrepareForcePlanExit(h)
    \/ ForceExitPlan(h)

Next ==
    \/ LifecycleNext
    \/ \E h \in Hosts : QueueNext(h) \/ RunnerNext(h) \/ PlanNext(h)

Spec == Init /\ [][Next]_vars

(* The delivery loop of a live host keeps running: it prepares the head,    *)
(* consumes a candidate it holds and settles one that was refused.          *)
SettleRefusedHead(h) == head[h] # None /\ head[h].refused /\ RejectPreparedPromptHead(h)

DeliveryFairness ==
    \A h \in Hosts :
        /\ WF_vars(PreparePromptHead(h))
        /\ WF_vars(ConsumePreparedPromptHead(h))
        /\ WF_vars(SettleRefusedHead(h))

FairSpec == Spec /\ DeliveryFairness

-----------------------------------------------------------------------------
(* Safety                                                                  *)

(* One execution slot: no interleaving of direct requests, queue delivery,  *)
(* Plan continuations and draft decisions starts a second RUNNING turn,     *)
(* although resolve_plan_draft_review never looks for one.  The partial     *)
(* unique index on RUNNING turns is never what refuses a transaction.       *)
OneRunningTurn == \A s, t \in RunningTurns : s = t

(* A RUNNING turn was admitted by the current writer generation: a takeover *)
(* leaves no turn of an earlier host running.                               *)
RunningTurnIsCurrentGeneration ==
    \A t \in RunningTurns : turn[t].generation = generation

(* The permission frozen at admission stays right for as long as the turn   *)
(* runs: read-only under the active Plan, and only then.                    *)
RunningPermissionMatchesPlan ==
    \A t \in RunningTurns :
        /\ turn[t].perm.ordinal = workflow.ordinal
        /\ turn[t].perm.overlay = IF PlanActive THEN "PLAN_READ_ONLY" ELSE "NONE"

(* An OPEN Plan interaction blocks every admission, so it must stay         *)
(* answerable: there is only one, at the current revision of the active     *)
(* workflow; a question has its turn waiting on the open call, and a draft  *)
(* review has the execution slot free for its continuation.                 *)
OpenInteractionIsAnswerable ==
    /\ \A x, y \in interactions : x = y
    /\ \A x \in interactions :
          /\ Answerable(x, x.kind)
          /\ x.kind = "QUESTION" => x.origin \in RunningTurns /\ calls[x.origin] = "PLAN"
          /\ x.kind = "DRAFT_REVIEW" => RunningTurns = {}

(* A provider input cut of a RUNNING turn is held by the lease owner alone  *)
(* and no call of the turn is open: no model answer is committed over an    *)
(* open batch or an open question, and none for another host.               *)
LiveCutIsExclusive ==
    \A h \in Hosts :
        cut[h] # None =>
            /\ lifecycle # "DELETED" => turn[cut[h]].status # "ABSENT"
            /\ cut[h] \in RunningTurns => owner = h /\ calls[cut[h]] = "NONE"

(* A steer accepted for a turn that COMPLETED was delivered to it, or the   *)
(* user withdrew it: completion never overtakes an accepted steer.          *)
CompletedTurnTookItsSteers ==
    \A i \in Items :
        /\ item[i].mode = "STEER_ACTIVE_TURN"
        /\ item[i].target # None
        /\ turn[item[i].target].status = "COMPLETED"
        => item[i].status \in {"CONSUMED", "CANCELLED"}

(* A PENDING steer has a RUNNING target, except after phase one of a forced *)
(* Plan exit.                                                               *)
PendingSteerHasLiveTarget ==
    \A i \in PendingSteers(Turns) :
        \/ item[i].target \in RunningTurns
        \/ turn[item[i].target].reason = "PLAN_FORCE_EXIT"

(* The handoff of a cancelled or forced Plan enters at most one turn.       *)
HandoffDeliveredOnce ==
    \A s, t \in Turns : turn[s].handoff = turn[t].handoff /\ turn[s].handoff # 0 => s = t

(* A queue item has a turn exactly when it was consumed for a new turn: no  *)
(* rejected or cancelled prompt runs, no consumed one is lost.              *)
QueueItemOwnsItsTurn ==
    \A i \in Items :
        turn[i].status # "ABSENT" <=> item[i].status = "CONSUMED" /\ item[i].mode = "NEW_TURN"

(* Steers: none that was accepted is overtaken or outlives its turn.        *)
SteerInv == CompletedTurnTookItsSteers /\ PendingSteerHasLiveTarget

(* Nothing is left unfinished in an archived session, whatever the closed   *)
(* host still had in flight.                                                *)
ArchivedSessionIsIdle == lifecycle = "ARCHIVED" => SessionIdle /\ owner = None

-----------------------------------------------------------------------------
(* Action properties                                                       *)

(* Within one lane (new turns, or the steers of one turn) no item is        *)
(* consumed while an earlier one stays PENDING.                             *)
DeliveryIsFifo ==
    [][\A i, j \in Items :
          /\ Pending(i) /\ item'[i].status = "CONSUMED"
          /\ Pending(j) /\ item[j].mode = item[i].mode
          /\ item[j].target = item[i].target /\ item[j].seq < item[i].seq
          => item'[j].status # "PENDING"]_vars

(* Terminal turns and queue items are final, until the session is deleted:  *)
(* a late commit, steer, cancellation or takeover changes neither.          *)
TerminalRowsAreFinal ==
    [][\/ lifecycle' = "DELETED"
       \/ /\ \A t \in Turns :
                turn[t].status \in {"COMPLETED", "INTERRUPTED"} => turn'[t] = turn[t]
          /\ \A i \in Items :
                item[i].status \notin {"ABSENT", "PENDING"} => item'[i] = item[i]]_vars

-----------------------------------------------------------------------------
(* Liveness, under DeliveryFairness                                        *)

HasWriter == \E h \in Hosts : Writer(h)
Deliverable == HasWriter /\ RunningTurns = {} /\ interactions = {}

(* The delivery loop never goes quiet on a prompt it could deliver: stale   *)
(* candidates and refusals are worked off.                                  *)
DeliverablePromptIsSettled ==
    \A i \in Items : PendingNewTurn(i) /\ Deliverable ~> ~PendingNewTurn(i) \/ ~Deliverable

-----------------------------------------------------------------------------
(* The abstract specification                                              *)

(* Where a request is: its turn tells, and before there is one, its queue   *)
(* item (project_request_execution).  A steer is not a request of its own.  *)
Phase(t) ==
    CASE turn[t].status = "RUNNING" -> "RUNNING"
      [] turn[t].status \in {"COMPLETED", "INTERRUPTED"} -> "ENDED"
      [] OTHER ->
            IF t \in Items /\ item[t].mode = "NEW_TURN"
            THEN CASE item[t].status = "PENDING" -> "WAITING"
                   [] item[t].status \in {"CANCELLED", "REJECTED"} -> "DROPPED"
                   [] OTHER -> "UNSEEN"
            ELSE "UNSEEN"

Slot == INSTANCE ExecutionSlot WITH
            Requests <- Turns,
            phase <- [t \in Turns |-> Phase(t)],
            closed <- lifecycle = "DELETED"

(* The store implements the execution slot: every transaction is one step   *)
(* of it or leaves every request where it is.                               *)
ImplementsExecutionSlot == Slot!SlotSpec

=============================================================================
