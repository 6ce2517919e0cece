------------------------- MODULE SessionKernelProofs -------------------------
(* Theorems about SessionKernel for every value of its constants. *)
EXTENDS SessionKernel, TLAPS

-----------------------------------------------------------------------------
(* What the helpers of the transactions return                             *)

(* Interrupting turns keeps every row a turns row. *)
LEMMA InterruptTurnsType ==
    ASSUME TypeOK, NEW T, NEW reason \in TerminalReason
    PROVE  InterruptTurns(T, reason) \in [Turns -> TurnRow]
BY DEF TypeOK, InterruptTurns, RunningTurns, TurnRow, TurnStatus

(* Only the RUNNING rows of T change, and they end. *)
LEMMA InterruptedRows ==
    ASSUME TypeOK, NEW T, NEW reason, turn' = InterruptTurns(T, reason)
    PROVE  \A t \in Turns :
               IF t \in T \cap RunningTurns
               THEN turn'[t].status = "INTERRUPTED" ELSE turn'[t] = turn[t]
BY DEF TypeOK, InterruptTurns, TurnRow

(* Settling queue items keeps every row a prompt_queue_items row. *)
LEMMA SettleItemsType ==
    ASSUME TypeOK, NEW S, NEW status \in ItemStatus
    PROVE  SettleItems(S, status) \in [Items -> ItemRow]
BY DEF TypeOK, SettleItems, ItemRow

(* A started turn is a turns row. *)
LEMMA NewTurnType ==
    ASSUME TypeOK, NEW perm \in Permission, NEW handoff \in Nat
    PROVE  NewTurn(perm, handoff) \in TurnRow
BY DEF TypeOK, NewTurn, TurnRow, TurnStatus, TerminalReason

(* The permissions and the handoff a transaction freezes have their types. *)
LEMMA FrozenTypes ==
    ASSUME TypeOK
    PROVE  /\ FrozenPermission \in Permission
           /\ EligibleHandoff \in Nat
           /\ NoPermission \in Permission
           /\ \A o, r \in Nat : PlanPermission(o, r) \in Permission
           /\ \A o \in Nat : OpenPermission(o) \in Permission
           /\ \A i \in Items : /\ DeliveryPermission(i) \in Permission
                               /\ DeliveryHandoff(i) \in Nat
<1>1. /\ workflow.ordinal \in Nat
      /\ workflow.revision \in Nat
  BY DEF TypeOK
<1>2. \A o, r \in Nat : PlanPermission(o, r) \in Permission
  BY DEF PlanPermission, Permission
<1>3. /\ \A o \in Nat : OpenPermission(o) \in Permission
      /\ NoPermission \in Permission
  BY DEF OpenPermission, NoPermission, Permission
<1>4. FrozenPermission \in Permission
  BY <1>1, <1>2, <1>3 DEF FrozenPermission
<1>5. EligibleHandoff \in Nat
  BY <1>1 DEF EligibleHandoff
<1>6. \A i \in Items : item[i].perm \in Permission /\ item[i].handoff \in Nat
  BY DEF TypeOK, ItemRow
<1>7. \A i \in Items : DeliveryPermission(i) \in Permission
  BY <1>4, <1>6 DEF DeliveryPermission
<1>8. \A i \in Items : DeliveryHandoff(i) \in Nat
  BY <1>5, <1>6 DEF DeliveryHandoff
<1> QED BY <1>2, <1>3, <1>4, <1>5, <1>7, <1>8

(* A completed turn is a turns row. *)
LEMMA CompletedType ==
    ASSUME NEW row \in TurnRow
    PROVE  Completed(row) \in TurnRow
BY DEF Completed, TurnRow, TurnStatus, TerminalReason

(* A host that forgets what it held keeps the types of the host state. *)
LEMMA ForgetHostType ==
    ASSUME TypeOK, NEW h, ForgetHost(h)
    PROVE  /\ guard' \in [Hosts -> Nat]
           /\ cut' \in [Hosts -> Turns \cup {None}]
           /\ head' \in [Hosts -> Candidate \cup {None}]
BY DEF TypeOK, ForgetHost

(* Closing the writer, or closing none, keeps the types of the host state. *)
LEMMA ForgetClosedType ==
    ASSUME TypeOK, NEW c, ForgetClosed(c)
    PROVE  /\ guard' \in [Hosts -> Nat]
           /\ cut' \in [Hosts -> Turns \cup {None}]
           /\ head' \in [Hosts -> Candidate \cup {None}]
<1>1. CASE c = None
  BY <1>1 DEF ForgetClosed, TypeOK, hostVars
<1>2. CASE c # None
  BY <1>2, ForgetHostType DEF ForgetClosed
<1> QED BY <1>1, <1>2

(* An inserted queue item is a queue row. *)
LEMMA InsertItemType ==
    ASSUME TypeOK, NEW i \in Items, NEW mode \in {"NEW_TURN", "STEER_ACTIVE_TURN"},
           NEW origin \in {"HUMAN", "SCHEDULED_TASK", "CELL_OUTPUT"},
           NEW target \in Turns \cup {None}, NEW perm \in Permission,
           NEW handoff \in Nat,
           InsertItem(i, mode, origin, target, perm, handoff)
    PROVE  item' \in [Items -> ItemRow] /\ queueSeq' \in Nat
<1> DEFINE row == [status |-> "PENDING", mode |-> mode, origin |-> origin,
                   target |-> target, seq |-> queueSeq + 1,
                   perm |-> perm, handoff |-> handoff]
<1>1. queueSeq + 1 \in Nat
  BY DEF TypeOK
<1>2. row \in ItemRow
  BY <1>1 DEF ItemRow, ItemStatus
<1>3. item' = [item EXCEPT ![i] = row] /\ queueSeq' = queueSeq + 1
  BY DEF InsertItem
<1> QED BY <1>1, <1>2, <1>3 DEF TypeOK

(* Initially every variable has its type. *)
LEMMA InitTypeOK == Init => TypeOK
BY DEF Init, TypeOK, AbsentTurn, AbsentItem, NoPermission, TurnRow, TurnStatus,
       TerminalReason, Permission, ItemRow, ItemStatus, WorkflowStatus,
       CallState, AttemptState

-----------------------------------------------------------------------------
(* Type correctness                                                        *)

(* The sweep of terminal steers yields queue rows. *)
LEMMA RejectTerminalSteersType ==
    ASSUME TypeOK, NEW running
    PROVE  RejectTerminalSteers(running) \in [Items -> ItemRow]
BY SettleItemsType DEF RejectTerminalSteers, ItemStatus

(* Lease and lifecycle transactions keep the types. *)
LEMMA LifecycleTypeOK == TypeOK /\ LifecycleNext => TypeOK'
<1> SUFFICES ASSUME TypeOK, LifecycleNext PROVE TypeOK'
  OBVIOUS
<1>1. CASE LeaseExpires
  BY <1>1 DEF LeaseExpires, TypeOK, toolVars, queueVars, planVars, hostVars
<1>2. CASE UnarchiveSession
  BY <1>2 DEF UnarchiveSession, TypeOK, toolVars, queueVars, planVars, hostVars
<1>3. ASSUME NEW h \in Hosts, AcquireHostWriter(h) PROVE TypeOK'
  <2>1. /\ turn' \in [Turns -> TurnRow]
        /\ item' \in [Items -> ItemRow]
    BY <1>3, InterruptTurnsType, SettleItemsType
       DEF AcquireHostWriter, TerminalReason, ItemStatus
  <2>2. interactions' \subseteq Interaction
    BY <1>3 DEF AcquireHostWriter, AbortQuestions, TypeOK
  <2> QED BY <1>3, <2>1, <2>2 DEF AcquireHostWriter, TypeOK, toolVars
<1>4. ASSUME NEW h \in Hosts, HostStops(h) PROVE TypeOK'
  <2>1. ForgetHost(h)
    BY <1>4 DEF HostStops
  <2> QED BY <1>4, <2>1, ForgetHostType
          DEF HostStops, TypeOK, sessionVars, toolVars, queueVars, planVars
<1>5. ASSUME NEW h \in Hosts, ReleaseHostWriter(h) PROVE TypeOK'
  <2>1. ForgetHost(h)
    BY <1>5 DEF ReleaseHostWriter
  <2> QED BY <1>5, <2>1, ForgetHostType
          DEF ReleaseHostWriter, TypeOK, toolVars, queueVars, planVars
<1>6. ASSUME NEW c \in Hosts \cup {None}, ArchiveSession(c) PROVE TypeOK'
  <2>1. ForgetClosed(c)
    BY <1>6 DEF ArchiveSession
  <2> QED BY <1>6, <2>1, ForgetClosedType
          DEF ArchiveSession, TypeOK, toolVars, queueVars, planVars
<1>7. ASSUME NEW c \in Hosts \cup {None}, DeleteSession(c) PROVE TypeOK'
  <2>1. ForgetClosed(c)
    BY <1>7 DEF DeleteSession
  <2>2. /\ turn' \in [Turns -> TurnRow]
        /\ item' \in [Items -> ItemRow]
    BY <1>7 DEF DeleteSession, AbsentTurn, AbsentItem, NoPermission, TurnRow,
       TurnStatus, TerminalReason, Permission, ItemRow, ItemStatus
  <2> QED BY <1>7, <2>1, <2>2, ForgetClosedType
          DEF DeleteSession, TypeOK, CallState, AttemptState, WorkflowStatus
<1> QED BY <1>1, <1>2, <1>3, <1>4, <1>5, <1>6, <1>7 DEF LifecycleNext

(* Admission, queue and delivery transactions keep the types. *)
LEMMA QueueTypeOK ==
    ASSUME TypeOK, NEW h \in Hosts, QueueNext(h) PROVE TypeOK'
<1> USE DEF Turns
<1>q. ASSUME QueueOnly, item' \in [Items -> ItemRow], queueSeq' \in Nat
      PROVE  TypeOK'
  BY <1>q DEF QueueOnly, TypeOK, sessionVars, toolVars, planVars, hostVars
<1>1. ASSUME NEW c \in Commands, AcceptRootTurnIntent(h, c) PROVE TypeOK'
  <2>1. turn' = [turn EXCEPT ![c] = NewTurn(FrozenPermission, EligibleHandoff)]
    BY <1>1 DEF AcceptRootTurnIntent
  <2>2. turn' \in [Turns -> TurnRow]
    BY <2>1, FrozenTypes, NewTurnType DEF TypeOK
  <2> QED BY <1>1, <2>2
          DEF AcceptRootTurnIntent, TypeOK, sessionVars, toolVars, queueVars,
              planVars, hostVars
<1>2. ASSUME NEW i \in Items, EnqueuePrompt(h, i) PROVE TypeOK'
  <2>1. /\ InsertItem(i, "NEW_TURN", "HUMAN", None, NoPermission, 0)
        /\ QueueOnly
    BY <1>2 DEF EnqueuePrompt
  <2> QED BY <2>1, <1>q, InsertItemType, FrozenTypes
<1>3. ASSUME NEW i \in Items, NEW t \in Turns, EnqueueSteer(h, i, t) PROVE TypeOK'
  <2>1. /\ InsertItem(i, "STEER_ACTIVE_TURN", "HUMAN", t, NoPermission, 0)
        /\ QueueOnly
    BY <1>3 DEF EnqueueSteer
  <2> QED BY <2>1, <1>q, InsertItemType, FrozenTypes
<1>4. ASSUME NEW i \in Items, EnqueueScheduled(h, i) PROVE TypeOK'
  <2>1. QueueOnly
    BY <1>4 DEF EnqueueScheduled
  <2>2. CASE InsertItem(i, "NEW_TURN", "SCHEDULED_TASK", None,
                        FrozenPermission, EligibleHandoff)
    BY <2>1, <2>2, <1>q, InsertItemType, FrozenTypes
  <2>3. CASE \E t \in RunningTurns :
               InsertItem(i, "STEER_ACTIVE_TURN", "SCHEDULED_TASK", t, NoPermission, 0)
    BY <2>1, <2>3, <1>q, InsertItemType, FrozenTypes DEF RunningTurns
  <2> QED BY <1>4, <2>2, <2>3 DEF EnqueueScheduled
<1>5. ASSUME NEW i \in Items, EnqueueCellOutput(h, i) PROVE TypeOK'
  <2>1. QueueOnly
    BY <1>5 DEF EnqueueCellOutput
  <2>2. CASE InsertItem(i, "NEW_TURN", "CELL_OUTPUT", None, NoPermission, 0)
    BY <2>1, <2>2, <1>q, InsertItemType, FrozenTypes
  <2>3. CASE \E t \in RunningTurns :
               InsertItem(i, "STEER_ACTIVE_TURN", "CELL_OUTPUT", t, NoPermission, 0)
    BY <2>1, <2>3, <1>q, InsertItemType, FrozenTypes DEF RunningTurns
  <2> QED BY <1>5, <2>2, <2>3 DEF EnqueueCellOutput
<1>6. ASSUME NEW i \in Items, CancelPrompt(h, i) PROVE TypeOK'
  BY <1>6, <1>q, SettleItemsType DEF CancelPrompt, ItemStatus, TypeOK
<1>7. ASSUME NEW i \in Items, NEW j \in Items, NEW t \in Turns,
             RedirectQueuedPrompt(h, i, j, t)
      PROVE  TypeOK'
  <2> DEFINE row == [status |-> "PENDING", mode |-> "STEER_ACTIVE_TURN",
                     origin |-> "HUMAN", target |-> t, seq |-> queueSeq + 1,
                     perm |-> NoPermission, handoff |-> 0]
             old == [item[i] EXCEPT !.status = "CANCELLED"]
  <2>1. /\ QueueOnly
        /\ queueSeq' = queueSeq + 1
        /\ item' = [item EXCEPT ![i].status = "CANCELLED", ![j] = row]
    BY <1>7 DEF RedirectQueuedPrompt
  <2>2. queueSeq + 1 \in Nat
    BY DEF TypeOK
  <2>3. row \in ItemRow
    BY <2>2, FrozenTypes DEF ItemRow, ItemStatus
  <2>4. old \in ItemRow
    BY DEF TypeOK, ItemRow, ItemStatus
  <2>5. item' = [[item EXCEPT ![i] = old] EXCEPT ![j] = row]
    BY <2>1
  <2>6. item' \in [Items -> ItemRow]
    BY <2>3, <2>4, <2>5 DEF TypeOK
  <2> QED BY <2>1, <2>2, <2>6, <1>q
<1>8. CASE PreparePromptHead(h)
  <2>1. PICK i \in Items :
           head' = [head EXCEPT ![h] =
                      [item |-> i, perm |-> DeliveryPermission(i),
                       handoff |-> DeliveryHandoff(i), refused |-> FALSE]]
    BY <1>8 DEF PreparePromptHead
  <2>2. [item |-> i, perm |-> DeliveryPermission(i),
         handoff |-> DeliveryHandoff(i), refused |-> FALSE] \in Candidate
    BY FrozenTypes DEF Candidate
  <2>3. head' \in [Hosts -> Candidate \cup {None}]
    BY <2>1, <2>2 DEF TypeOK
  <2> QED BY <1>8, <2>3
          DEF PreparePromptHead, TypeOK, sessionVars, toolVars, queueVars, planVars
<1>9. CASE ConsumePreparedPromptHead(h)
  <2> DEFINE i == head[h].item
  <2>1. head[h] \in Candidate
    BY <1>9 DEF ConsumePreparedPromptHead, TypeOK
  <2>2. i \in Items /\ head[h].perm \in Permission /\ head[h].handoff \in Nat
    BY <2>1 DEF Candidate
  <2>3. ASSUME turn' \in [Turns -> TurnRow], item' \in [Items -> ItemRow],
               head' \in [Hosts -> Candidate \cup {None}]
        PROVE  TypeOK'
    BY <1>9, <2>3 DEF ConsumePreparedPromptHead, TypeOK, sessionVars, toolVars, planVars
  <2>4. CASE ConsumeFindsNoWork(h)
    BY <2>3, <2>4, RejectTerminalSteersType DEF ConsumeFindsNoWork, TypeOK
  <2>5. CASE ConsumeConflicts(h)
    <3>1. [head[h] EXCEPT !.refused = TRUE] \in Candidate
      BY <2>1 DEF Candidate
    <3>2. head' = [head EXCEPT ![h] = [head[h] EXCEPT !.refused = TRUE]]
      BY <2>5 DEF ConsumeConflicts
    <3> QED BY <2>3, <2>5, <3>1, <3>2 DEF ConsumeConflicts, TypeOK
  <2>6. CASE ConsumeRejectsScheduled(h)
    BY <2>3, <2>6, SettleItemsType DEF ConsumeRejectsScheduled, ItemStatus, TypeOK
  <2>7. CASE ConsumeStartsTurn(h)
    <3> DEFINE swept == RejectTerminalSteers({})
    <3>1. swept \in [Items -> ItemRow]
      BY RejectTerminalSteersType
    <3>2. [swept[i] EXCEPT !.status = "CONSUMED"] \in ItemRow
      BY <2>2, <3>1 DEF ItemRow, ItemStatus
    <3>3. item' = [swept EXCEPT ![i] = [swept[i] EXCEPT !.status = "CONSUMED"]]
      BY <2>7 DEF ConsumeStartsTurn
    <3>4. item' \in [Items -> ItemRow]
      BY <3>1, <3>2, <3>3
    <3>5. turn' = [turn EXCEPT ![i] = NewTurn(head[h].perm, head[h].handoff)]
      BY <2>7 DEF ConsumeStartsTurn
    <3>6. turn' \in [Turns -> TurnRow]
      BY <2>2, <3>5, NewTurnType DEF TypeOK
    <3> QED BY <2>3, <2>7, <3>4, <3>6 DEF ConsumeStartsTurn, TypeOK
  <2> QED BY <1>9, <2>4, <2>5, <2>6, <2>7 DEF ConsumePreparedPromptHead
<1>10. CASE RejectPreparedPromptHead(h)
  <2>1. item' \in [Items -> ItemRow]
    BY <1>10, SettleItemsType DEF RejectPreparedPromptHead, ItemStatus, TypeOK
  <2> QED BY <1>10, <2>1
          DEF RejectPreparedPromptHead, TypeOK, sessionVars, toolVars, planVars
<1> QED BY <1>1, <1>2, <1>3, <1>4, <1>5, <1>6, <1>7, <1>8, <1>9, <1>10,
           QueueNext(h) DEF QueueNext

(* Transactions of the running turn keep the types. *)
LEMMA RunnerTypeOK ==
    ASSUME TypeOK, NEW h \in Hosts, RunnerNext(h) PROVE TypeOK'
<1>e. ASSUME NEW t, NEW reason \in TerminalReason, NEW left \in SUBSET Interaction,
             EndTurn(h, t, reason, left)
      PROVE  TypeOK'
  <2>1. turn' \in [Turns -> TurnRow] /\ item' \in [Items -> ItemRow]
    BY <1>e, InterruptTurnsType, RejectTerminalSteersType DEF EndTurn
  <2> QED BY <1>e, <2>1 DEF EndTurn, TypeOK, sessionVars, toolVars, hostVars
<1>i. /\ \A T : AbortQuestions(T) \in SUBSET Interaction
      /\ \A T : AbortInteractions(T) \in SUBSET Interaction
  BY DEF TypeOK, AbortQuestions, AbortInteractions
<1>1. ASSUME NEW opened \in Batches \cup {"NONE"}, NEW complete \in BOOLEAN,
             CommitAssistantMessage(h, opened, complete)
      PROVE  TypeOK'
  <2> DEFINE t == cut[h]
  <2>1. t \in Turns
    BY <1>1 DEF CommitAssistantMessage, TypeOK
  <2>2. opened \in CallState
    BY BoundsAssumption DEF CallState
  <2>3. turn' \in {turn, [turn EXCEPT ![t] = Completed(turn[t])]}
    BY <1>1 DEF CommitAssistantMessage
  <2>4. turn' \in [Turns -> TurnRow]
    BY <2>1, <2>3, CompletedType DEF TypeOK
  <2> QED BY <1>1, <2>1, <2>2, <2>4
          DEF CommitAssistantMessage, TypeOK, sessionVars, queueVars, planVars
<1>2. ASSUME NEW t \in Turns, PrepareProviderInputCut(h, t) PROVE TypeOK'
  BY <1>2 DEF PrepareProviderInputCut, TypeOK, sessionVars, toolVars, queueVars, planVars
<1>3. ASSUME NEW t \in Turns, AcceptToolAttempt(h, t) PROVE TypeOK'
  BY <1>3 DEF AcceptToolAttempt, TypeOK, AttemptState, sessionVars, queueVars,
              planVars, hostVars
<1>4. ASSUME NEW t \in Turns, AcceptToolResult(h, t) PROVE TypeOK'
  BY <1>4 DEF AcceptToolResult, TypeOK, AttemptState, CallState, sessionVars,
              queueVars, planVars, hostVars
<1>5. ASSUME NEW t \in Turns, InterruptTurn(h, t) PROVE TypeOK'
  BY <1>5, <1>e, <1>i DEF InterruptTurn, TerminalReason
<1>6. ASSUME NEW t \in Turns, InterruptSteerPlanConflict(h, t) PROVE TypeOK'
  BY <1>6, <1>e, <1>i DEF InterruptSteerPlanConflict, TerminalReason
<1>7. ASSUME NEW t \in Turns, RejectSteerResourceExhaustion(h, t) PROVE TypeOK'
  BY <1>7, <1>e, <1>i DEF RejectSteerResourceExhaustion, TerminalReason
<1>8. ASSUME NEW t \in Turns, NEW i \in Items, ConsumePreparedPromptSteer(h, i, t)
      PROVE  TypeOK'
  <2>1. item' \in [Items -> ItemRow]
    BY <1>8, SettleItemsType DEF ConsumePreparedPromptSteer, ItemStatus
  <2> QED BY <1>8, <2>1 DEF ConsumePreparedPromptSteer, QueueOnly, TypeOK,
             sessionVars, toolVars, planVars, hostVars
<1> QED BY <1>1, <1>2, <1>3, <1>4, <1>5, <1>6, <1>7, <1>8, RunnerNext(h) DEF RunnerNext

(* Plan transactions keep the types. *)
LEMMA PlanTypeOK ==
    ASSUME TypeOK, NEW h \in Hosts, PlanNext(h) PROVE TypeOK'
<1> DEFINE Workflows == [ordinal : Nat, status : WorkflowStatus, revision : Nat]
<1>a. /\ workflow.ordinal \in Nat
      /\ workflow.revision \in Nat
      /\ workflow.ordinal + 1 \in Nat
      /\ workflow.revision + 1 \in Nat
  BY DEF TypeOK
<1>w. \A status \in WorkflowStatus : AdvanceWorkflow(status) => workflow' \in Workflows
  BY <1>a DEF AdvanceWorkflow, Workflow
<1>n. Workflow(workflow.ordinal + 1, "ACTIVE", 1) \in Workflows
  BY <1>a DEF Workflow, WorkflowStatus
<1>d. \A t : DrainSteers(t) => item' \in [Items -> ItemRow]
  BY SettleItemsType DEF DrainSteers, ItemStatus
<1>c. \A t \in Turns : CloseCalls(t) => calls' \in [Turns -> CallState]
  BY DEF CloseCalls, TypeOK, CallState
<1>h. ASSUME NEW t \in Turns, NEW c \in Continuations, NEW perm \in Permission,
             HandOverTo(t, c, perm)
      PROVE  /\ turn' \in [Turns -> TurnRow]
             /\ item' \in [Items -> ItemRow]
             /\ calls' \in [Turns -> CallState]
  <2>1. turn' = [[turn EXCEPT ![t] = Completed(turn[t])] EXCEPT ![c] = NewTurn(perm, 0)]
    BY <1>h DEF HandOverTo
  <2>2. Completed(turn[t]) \in TurnRow /\ NewTurn(perm, 0) \in TurnRow
    BY CompletedType, NewTurnType DEF TypeOK
  <2>3. turn' \in [Turns -> TurnRow]
    BY <2>1, <2>2 DEF TypeOK
  <2> QED BY <1>h, <2>3, <1>d, <1>c DEF HandOverTo
<1>o. ASSUME NEW kind \in {"QUESTION", "DRAFT_REVIEW"}, NEW t \in Turns,
             OpenInteraction(kind, t)
      PROVE  workflow' \in Workflows /\ interactions' \subseteq Interaction
  <2>1. [kind |-> kind, origin |-> t, ordinal |-> workflow.ordinal,
         revision |-> workflow.revision + 1] \in Interaction
    BY <1>a DEF Interaction
  <2>2. workflow' \in Workflows
    BY <1>o, <1>w DEF OpenInteraction, WorkflowStatus
  <2> QED BY <1>o, <2>1, <2>2 DEF OpenInteraction, TypeOK
<1>x. \A x \in interactions : x.ordinal \in Nat /\ x.revision + 1 \in Nat
  BY DEF TypeOK, Interaction
<1>s. ASSUME NEW c \in Continuations, NEW perm \in Permission,
             turn' = [turn EXCEPT ![c] = NewTurn(perm, 0)]
      PROVE  turn' \in [Turns -> TurnRow]
  BY <1>s, NewTurnType DEF TypeOK, Turns
<1> USE DEF sessionVars, toolVars, queueVars, planVars, hostVars
<1> HIDE DEF Workflows
<1>1. ASSUME NEW t \in Turns, PlanBatchResultsOnly(h, t) PROVE TypeOK'
  BY <1>1, <1>c DEF PlanBatchResultsOnly, TypeOK
<1>2. ASSUME NEW t \in Turns, PlanQuestionBatch(h, t) PROVE TypeOK'
  BY <1>2, <1>o DEF PlanQuestionBatch, TypeOK, Workflows
<1>3. ASSUME NEW t \in Turns, PlanDraftBatch(h, t) PROVE TypeOK'
  <2>1. turn' = [turn EXCEPT ![t] = Completed(turn[t])]
    BY <1>3 DEF PlanDraftBatch
  <2>2. turn' \in [Turns -> TurnRow]
    BY <2>1, CompletedType DEF TypeOK
  <2> QED BY <1>3, <2>2, <1>o, <1>d, <1>c DEF PlanDraftBatch, TypeOK, Workflows
<1>4. ASSUME NEW t \in Turns, NEW c \in Continuations, PlanEnterBatch(h, t, c)
      PROVE  TypeOK'
  <2>1. HandOverTo(t, c, PlanPermission(workflow.ordinal + 1, 1))
    BY <1>4 DEF PlanEnterBatch
  <2>2. PlanPermission(workflow.ordinal + 1, 1) \in Permission
    BY <1>a, FrozenTypes
  <2> QED BY <1>4, <2>1, <2>2, <1>h, <1>n DEF PlanEnterBatch, TypeOK, Workflows
<1>5. ASSUME NEW t \in Turns, NEW c \in Continuations, PlanExitBatch(h, t, c)
      PROVE  TypeOK'
  <2>1. HandOverTo(t, c, OpenPermission(workflow.ordinal)) /\ AdvanceWorkflow("EXITED")
    BY <1>5 DEF PlanExitBatch
  <2>2. OpenPermission(workflow.ordinal) \in Permission
    BY <1>a, FrozenTypes
  <2>3. workflow' \in Workflows
    BY <2>1, <1>w DEF WorkflowStatus
  <2> QED BY <1>5, <2>1, <2>2, <2>3, <1>h DEF PlanExitBatch, TypeOK, Workflows
<1>6. ASSUME NEW x \in interactions, ResolvePlanQuestion(h, x) PROVE TypeOK'
  <2>1. workflow' \in Workflows /\ calls' \in [Turns -> CallState]
    BY <1>6, <1>w, <1>c DEF ResolvePlanQuestion, WorkflowStatus, RunningTurns
  <2> QED BY <1>6, <2>1 DEF ResolvePlanQuestion, TypeOK, Workflows
<1>7. ASSUME NEW x \in interactions, CancelPlanDraft(h, x) PROVE TypeOK'
  <2>1. workflow' \in Workflows
    BY <1>7, <1>w DEF CancelPlanDraft, WorkflowStatus
  <2> QED BY <1>7, <2>1 DEF CancelPlanDraft, TypeOK, Workflows
<1>8. ASSUME NEW x \in interactions, NEW c \in Continuations, ApprovePlanDraft(h, x, c)
      PROVE  TypeOK'
  <2>1. workflow' \in Workflows
    BY <1>8, <1>w DEF ApprovePlanDraft, WorkflowStatus
  <2>2. turn' \in [Turns -> TurnRow]
    BY <1>8, <1>x, <1>s, FrozenTypes DEF ApprovePlanDraft
  <2> QED BY <1>8, <2>1, <2>2 DEF ApprovePlanDraft, TypeOK, Workflows
<1>9. ASSUME NEW x \in interactions, NEW c \in Continuations,
             NEW source \in Items \cup {None}, RevisePlanDraft(h, x, c, source)
      PROVE  TypeOK'
  <2>1. workflow' \in Workflows
    BY <1>9, <1>w DEF RevisePlanDraft, WorkflowStatus
  <2>2. turn' \in [Turns -> TurnRow]
    BY <1>9, <1>x, <1>s, FrozenTypes DEF RevisePlanDraft
  <2>3. item' \in [Items -> ItemRow]
    BY <1>9, SettleItemsType DEF RevisePlanDraft, ItemStatus
  <2> QED BY <1>9, <2>1, <2>2, <2>3 DEF RevisePlanDraft, TypeOK, Workflows
<1>10. CASE EnterPlanByUser(h)
  BY <1>10, <1>n DEF EnterPlanByUser, TypeOK, Workflows
<1>11. CASE CancelPlan(h)
  <2>1. workflow' \in Workflows
    BY <1>11, <1>w DEF CancelPlan, WorkflowStatus
  <2> QED BY <1>11, <2>1 DEF CancelPlan, TypeOK, Workflows
<1>12. CASE PrepareForcePlanExit(h)
  <2>1. turn' \in [Turns -> TurnRow]
    BY <1>12, InterruptTurnsType DEF PrepareForcePlanExit, TerminalReason
  <2> QED BY <1>12, <2>1 DEF PrepareForcePlanExit, OfOtherWorkflows, TypeOK
<1>13. CASE ForceExitPlan(h)
  <2>1. workflow' \in Workflows
    BY <1>13, <1>w DEF ForceExitPlan, WorkflowStatus
  <2> QED BY <1>13, <2>1 DEF ForceExitPlan, OfOtherWorkflows, TypeOK, Workflows
<1> QED BY <1>1, <1>2, <1>3, <1>4, <1>5, <1>6, <1>7, <1>8, <1>9, <1>10, <1>11,
           <1>12, <1>13, PlanNext(h) DEF PlanNext

(* Every step of the store keeps the types. *)
LEMMA StepTypeOK == TypeOK /\ [Next]_vars => TypeOK'
<1>1. TypeOK /\ UNCHANGED vars => TypeOK'
  BY DEF TypeOK, vars, sessionVars, toolVars, queueVars, planVars, hostVars
<1> QED BY <1>1, LifecycleTypeOK, QueueTypeOK, RunnerTypeOK, PlanTypeOK DEF Next

(* Every reachable state of the store is well typed, for any number of      *)
(* hosts, requests, queue items, continuations and any bounds.              *)
THEOREM TypeCorrect == Spec => []TypeOK
BY InitTypeOK, StepTypeOK, PTL DEF Spec

-----------------------------------------------------------------------------
(* Queue items and their turns                                             *)

(* The item was consumed for a turn of its own, or the turn exists. *)
TookTurn(i) == item[i].status = "CONSUMED" /\ item[i].mode = "NEW_TURN"
HasTurn(i)  == turn[i].status # "ABSENT"

(* Interrupting turns neither creates nor removes one. *)
LEMMA InterruptKeepsTurns ==
    ASSUME TypeOK, NEW T, NEW reason, turn' = InterruptTurns(T, reason)
    PROVE  \A i \in Items : HasTurn(i)' <=> HasTurn(i)
BY DEF TypeOK, InterruptTurns, RunningTurns, HasTurn, TurnRow, Turns

(* Settling pending items takes no turn, if the items are steers or the     *)
(* settlement is not a consumption.                                         *)
LEMMA SettleTakesNoTurn ==
    ASSUME TypeOK, NEW S, NEW status, item' = SettleItems(S, status),
           \A i \in S \cap Items :
               Pending(i) /\ (status # "CONSUMED" \/ item[i].mode = "STEER_ACTIVE_TURN")
    PROVE  \A i \in Items : TookTurn(i)' <=> TookTurn(i)
BY DEF TypeOK, SettleItems, TookTurn, Pending, ItemRow

(* Inserting an item takes no turn. *)
LEMMA InsertTakesNoTurn ==
    ASSUME TypeOK, NEW i, NEW mode, NEW origin, NEW target, NEW perm, NEW handoff,
           InsertItem(i, mode, origin, target, perm, handoff)
    PROVE  \A j \in Items : TookTurn(j)' <=> TookTurn(j)
BY DEF TypeOK, InsertItem, TookTurn

(* A consumed NEW_TURN item and its turn are written by one transaction.    *)
LEMMA QueueItemStep ==
    ASSUME TypeOK, QueueItemOwnsItsTurn, [Next]_vars PROVE QueueItemOwnsItsTurn'
<1>f. ASSUME \A i \in Items : HasTurn(i)' <=> HasTurn(i),
             \A i \in Items : TookTurn(i)' <=> TookTurn(i)
      PROVE  QueueItemOwnsItsTurn'
  BY <1>f DEF QueueItemOwnsItsTurn, HasTurn, TookTurn
<1>s. \A T : \A i \in PendingSteers(T) : Pending(i) /\ item[i].mode = "STEER_ACTIVE_TURN"
  BY DEF PendingSteers
<1>u. /\ UNCHANGED turn => \A i \in Items : HasTurn(i)' <=> HasTurn(i)
      /\ UNCHANGED item => \A i \in Items : TookTurn(i)' <=> TookTurn(i)
  BY DEF HasTurn, TookTurn
<1>n. ASSUME NEW c \in Commands \cup Continuations, NEW row,
             turn' = [turn EXCEPT ![c] = row]
      PROVE  \A i \in Items : HasTurn(i)' <=> HasTurn(i)
  BY <1>n, IdentitiesAssumption DEF HasTurn, TypeOK
<1>c. ASSUME NEW t \in Turns, t \in RunningTurns,
             turn' = [turn EXCEPT ![t] = Completed(turn[t])]
      PROVE  \A i \in Items : HasTurn(i)' <=> HasTurn(i)
  BY <1>c DEF HasTurn, TypeOK, RunningTurns, Completed, TurnRow
<1>d. \A t : DrainSteers(t) => \A i \in Items : TookTurn(i)' <=> TookTurn(i)
  BY <1>s, SettleTakesNoTurn DEF DrainSteers
<1>r. \A R : item' = RejectTerminalSteers(R) => \A i \in Items : TookTurn(i)' <=> TookTurn(i)
  BY <1>s, SettleTakesNoTurn DEF RejectTerminalSteers
<1>h. ASSUME NEW t \in RunningTurns, NEW c \in Continuations, NEW perm, HandOverTo(t, c, perm)
      PROVE  QueueItemOwnsItsTurn'
  <2>1. turn' = [[turn EXCEPT ![t] = Completed(turn[t])] EXCEPT ![c] = NewTurn(perm, 0)]
    BY <1>h DEF HandOverTo
  <2>2. ASSUME NEW i \in Items PROVE HasTurn(i)' <=> HasTurn(i)
    <3>1. i # c /\ i \in Turns
      BY IdentitiesAssumption DEF Turns
    <3>2. turn'[i] = IF i = t THEN Completed(turn[t]) ELSE turn[i]
      BY <2>1, <3>1 DEF TypeOK
    <3>3. turn[t].status = "RUNNING" /\ Completed(turn[t]).status = "COMPLETED"
      BY DEF TypeOK, RunningTurns, Completed, TurnRow
    <3> QED BY <3>2, <3>3 DEF HasTurn
  <2> QED BY <1>h, <2>2, <1>d, <1>f DEF HandOverTo
<1>1. CASE LifecycleNext
  <2>1. ASSUME NEW h \in Hosts, AcquireHostWriter(h) PROVE QueueItemOwnsItsTurn'
    BY <2>1, <1>f, <1>s, InterruptKeepsTurns, SettleTakesNoTurn DEF AcquireHostWriter
  <2>2. ASSUME NEW c, DeleteSession(c) PROVE QueueItemOwnsItsTurn'
    BY <2>2 DEF DeleteSession, QueueItemOwnsItsTurn, AbsentTurn, AbsentItem, Turns
  <2>3. ASSUME UNCHANGED <<turn, item>> PROVE QueueItemOwnsItsTurn'
    BY <2>3, <1>f, <1>u
  <2> QED BY <1>1, <2>1, <2>2, <2>3
          DEF LifecycleNext, LeaseExpires, UnarchiveSession, HostStops,
              ReleaseHostWriter, ArchiveSession, queueVars
<1>2. ASSUME NEW h \in Hosts, QueueNext(h) PROVE QueueItemOwnsItsTurn'
  <2>q. ASSUME QueueOnly, \A i \in Items : TookTurn(i)' <=> TookTurn(i)
        PROVE  QueueItemOwnsItsTurn'
    BY <2>q, <1>f, <1>u DEF QueueOnly
  <2>1. ASSUME NEW c \in Commands, AcceptRootTurnIntent(h, c) PROVE QueueItemOwnsItsTurn'
    BY <2>1, <1>n, <1>f, <1>u DEF AcceptRootTurnIntent, queueVars
  <2>2. ASSUME NEW i \in Items, EnqueuePrompt(h, i) PROVE QueueItemOwnsItsTurn'
    BY <2>2, <2>q, InsertTakesNoTurn DEF EnqueuePrompt
  <2>3. ASSUME NEW i \in Items, NEW t \in Turns, EnqueueSteer(h, i, t)
        PROVE  QueueItemOwnsItsTurn'
    BY <2>3, <2>q, InsertTakesNoTurn DEF EnqueueSteer
  <2>4. ASSUME NEW i \in Items, EnqueueScheduled(h, i) PROVE QueueItemOwnsItsTurn'
    BY <2>4, <2>q, InsertTakesNoTurn DEF EnqueueScheduled
  <2>5. ASSUME NEW i \in Items, EnqueueCellOutput(h, i) PROVE QueueItemOwnsItsTurn'
    BY <2>5, <2>q, InsertTakesNoTurn DEF EnqueueCellOutput
  <2>6. ASSUME NEW i \in Items, CancelPrompt(h, i) PROVE QueueItemOwnsItsTurn'
    BY <2>6, <2>q, SettleTakesNoTurn DEF CancelPrompt
  <2>7. ASSUME NEW i \in Items, NEW j \in Items, NEW t \in Turns,
               RedirectQueuedPrompt(h, i, j, t)
        PROVE  QueueItemOwnsItsTurn'
    <3>1. \A k \in Items : TookTurn(k)' <=> TookTurn(k)
      BY <2>7 DEF RedirectQueuedPrompt, TookTurn, PendingNewTurn, Pending, TypeOK, ItemRow
    <3> QED BY <2>7, <3>1, <2>q DEF RedirectQueuedPrompt
  <2>8. CASE PreparePromptHead(h)
    BY <2>8, <1>f, <1>u DEF PreparePromptHead, queueVars
  <2>9. CASE ConsumePreparedPromptHead(h)
    <3> DEFINE i == head[h].item
    <3>i. i \in Items
      BY <2>9 DEF ConsumePreparedPromptHead, TypeOK, Candidate
    <3>1. CASE ConsumeFindsNoWork(h)
      BY <3>1, <1>r, <1>f, <1>u DEF ConsumeFindsNoWork
    <3>2. CASE ConsumeConflicts(h)
      BY <3>2, <1>f, <1>u DEF ConsumeConflicts
    <3>3. CASE ConsumeRejectsScheduled(h)
      <4>1. item' = SettleItems(PendingSteers(Turns) \cup {i}, "REJECTED")
        BY <3>3 DEF ConsumeRejectsScheduled
      <4>2. \A j \in PendingSteers(Turns) \cup {i} : Pending(j)
        BY <3>3, <1>s DEF ConsumeRejectsScheduled, IsHead, PendingNewTurn
      <4> QED BY <3>3, <4>1, <4>2, SettleTakesNoTurn, <1>f, <1>u
              DEF ConsumeRejectsScheduled
    <3>4. CASE ConsumeStartsTurn(h)
      <4> DEFINE swept == RejectTerminalSteers({})
      <4>1. /\ turn' = [turn EXCEPT ![i] = NewTurn(head[h].perm, head[h].handoff)]
            /\ item' = [swept EXCEPT ![i] = [swept[i] EXCEPT !.status = "CONSUMED"]]
            /\ Pending(i) /\ item[i].mode = "NEW_TURN"
        BY <3>4 DEF ConsumeStartsTurn, IsHead, PendingNewTurn
      <4>2. swept \in [Items -> ItemRow]
        BY RejectTerminalSteersType
      <4>3. swept[i] = item[i]
        BY <3>i, <4>1 DEF RejectTerminalSteers, SettleItems, PendingSteers
      <4>4. item'[i].status = "CONSUMED" /\ item'[i].mode = "NEW_TURN"
        BY <3>i, <4>1, <4>2, <4>3 DEF TypeOK, ItemRow
      <4>5. turn'[i].status = "RUNNING"
        BY <3>i, <4>1 DEF TypeOK, NewTurn, Turns
      <4>6. ASSUME NEW j \in Items, j # i
            PROVE  turn'[j] = turn[j] /\ (TookTurn(j)' <=> TookTurn(j))
        <5>1. turn'[j] = turn[j] /\ item'[j] = swept[j]
          BY <3>i, <4>1, <4>2, <4>6 DEF TypeOK, Turns
        <5>2. \/ swept[j] = item[j]
              \/ item[j].status = "PENDING" /\ swept[j].status = "REJECTED"
          <6>1. CASE j \in PendingSteers(Turns \ {})
            <7>1. swept[j] = [item[j] EXCEPT !.status = "REJECTED"]
              BY <6>1 DEF RejectTerminalSteers, SettleItems
            <7>2. swept[j].status = "REJECTED"
              BY <7>1 DEF TypeOK, ItemRow
            <7> QED BY <6>1, <7>2 DEF PendingSteers, Pending
          <6>2. CASE j \notin PendingSteers(Turns \ {})
            BY <6>2 DEF RejectTerminalSteers, SettleItems
          <6> QED BY <6>1, <6>2
        <5> QED BY <5>1, <5>2 DEF TookTurn
      <4> QED BY <4>4, <4>5, <4>6 DEF QueueItemOwnsItsTurn, TookTurn
    <3> QED BY <2>9, <3>1, <3>2, <3>3, <3>4 DEF ConsumePreparedPromptHead
  <2>10. CASE RejectPreparedPromptHead(h)
    BY <2>10, SettleTakesNoTurn, <1>f, <1>u
       DEF RejectPreparedPromptHead, IsHead, PendingNewTurn
  <2> QED BY <1>2, <2>1, <2>2, <2>3, <2>4, <2>5, <2>6, <2>7, <2>8, <2>9, <2>10
          DEF QueueNext
<1>3. ASSUME NEW h \in Hosts, RunnerNext(h) PROVE QueueItemOwnsItsTurn'
  <2>1. ASSUME NEW opened, NEW complete, CommitAssistantMessage(h, opened, complete)
        PROVE  QueueItemOwnsItsTurn'
    <3>1. turn' \in {turn, [turn EXCEPT ![cut[h]] = Completed(turn[cut[h]])]}
      BY <2>1 DEF CommitAssistantMessage
    <3>2. cut[h] \in RunningTurns /\ cut[h] \in Turns /\ UNCHANGED item
      BY <2>1 DEF CommitAssistantMessage, RunningTurns, queueVars
    <3> QED BY <3>1, <3>2, <1>c, <1>f, <1>u
  <2>2. ASSUME NEW t, NEW reason, NEW left, EndTurn(h, t, reason, left)
        PROVE  QueueItemOwnsItsTurn'
    BY <2>2, <1>r, <1>f, InterruptKeepsTurns DEF EndTurn
  <2>3. ASSUME NEW i, NEW t, ConsumePreparedPromptSteer(h, i, t)
        PROVE  QueueItemOwnsItsTurn'
    BY <2>3, <1>s, <1>f, <1>u, SettleTakesNoTurn
       DEF ConsumePreparedPromptSteer, IsLaneHead, QueueOnly
  <2>4. ASSUME UNCHANGED <<turn, item>> PROVE QueueItemOwnsItsTurn'
    BY <2>4, <1>f, <1>u
  <2> QED BY <1>3, <2>1, <2>2, <2>3, <2>4
          DEF RunnerNext, PrepareProviderInputCut, AcceptToolAttempt,
              AcceptToolResult, InterruptTurn, InterruptSteerPlanConflict,
              RejectSteerResourceExhaustion, queueVars
<1>4. ASSUME NEW h \in Hosts, PlanNext(h) PROVE QueueItemOwnsItsTurn'
  <2>1. ASSUME NEW t \in Turns, PlanDraftBatch(h, t) PROVE QueueItemOwnsItsTurn'
    BY <2>1, <1>c, <1>d, <1>f DEF PlanDraftBatch, PlanBatch
  <2>2. ASSUME NEW t \in Turns, NEW c \in Continuations,
               PlanEnterBatch(h, t, c) \/ PlanExitBatch(h, t, c)
        PROVE  QueueItemOwnsItsTurn'
    BY <2>2, <1>h DEF PlanEnterBatch, PlanExitBatch, PlanBatch
  <2>3. ASSUME NEW x, NEW c \in Continuations, ApprovePlanDraft(h, x, c)
        PROVE  QueueItemOwnsItsTurn'
    BY <2>3, <1>n, <1>f, <1>u DEF ApprovePlanDraft, queueVars
  <2>4. ASSUME NEW x, NEW c \in Continuations, NEW source \in Items \cup {None},
               RevisePlanDraft(h, x, c, source)
        PROVE  QueueItemOwnsItsTurn'
    <3>1. \A i \in Items : TookTurn(i)' <=> TookTurn(i)
      <4>1. item' = SettleItems({source}, "CANCELLED")
        BY <2>4 DEF RevisePlanDraft
      <4>2. \A i \in {source} \cap Items : Pending(i)
        BY <2>4, IdentitiesAssumption DEF RevisePlanDraft, PendingNewTurn
      <4> QED BY <4>1, <4>2, SettleTakesNoTurn
    <3> QED BY <2>4, <3>1, <1>n, <1>f DEF RevisePlanDraft
  <2>5. CASE PrepareForcePlanExit(h)
    BY <2>5, <1>f, <1>u, InterruptKeepsTurns DEF PrepareForcePlanExit, queueVars
  <2>6. ASSUME UNCHANGED <<turn, item>> PROVE QueueItemOwnsItsTurn'
    BY <2>6, <1>f, <1>u
  <2> QED BY <1>4, <2>1, <2>2, <2>3, <2>4, <2>5, <2>6
          DEF PlanNext, PlanBatchResultsOnly, PlanQuestionBatch, ResolvePlanQuestion,
              CancelPlanDraft, EnterPlanByUser, CancelPlan, ForceExitPlan, queueVars
<1>5. CASE UNCHANGED vars
  BY <1>5, <1>f, <1>u DEF vars, queueVars
<1> QED BY <1>1, <1>2, <1>3, <1>4, <1>5 DEF Next

(* No rejected or cancelled prompt ever runs and no consumed prompt is lost: *)
(* consume_prepared_prompt_head writes both rows or neither.                 *)
THEOREM QueueItemsOwnTheirTurns == Spec => []QueueItemOwnsItsTurn
<1>1. Init => TypeOK /\ QueueItemOwnsItsTurn
  BY InitTypeOK DEF Init, QueueItemOwnsItsTurn, AbsentTurn, AbsentItem, Turns
<1>2. TypeOK /\ QueueItemOwnsItsTurn /\ [Next]_vars => (TypeOK /\ QueueItemOwnsItsTurn)'
  BY StepTypeOK, QueueItemStep
<1> QED BY <1>1, <1>2, PTL DEF Spec

-----------------------------------------------------------------------------
(* The execution slot                                                      *)

(* None of the slot properties is inductive alone.  A draft decision starts *)
(* a turn without looking for a RUNNING one, so OneRunningTurn needs that a *)
(* draft review leaves the slot free; a question stays answerable because   *)
(* no commit closes its call, which is what LiveCutIsExclusive says of the  *)
(* cuts; and a cut is exclusive because a takeover ends every turn.         *)
SlotInv ==
    /\ TypeOK
    /\ OneRunningTurn
    /\ RunningTurnIsCurrentGeneration
    /\ RunningPermissionMatchesPlan
    /\ OpenInteractionIsAnswerable
    /\ LiveCutIsExclusive
    /\ QueueItemOwnsItsTurn

(* The state the slot properties read. *)
slotState == <<lifecycle, generation, owner, turn, calls, workflow, interactions, cut>>

(* A step that writes none of that state preserves them. *)
LEMMA SlotFrame ==
    ASSUME SlotInv, TypeOK', QueueItemOwnsItsTurn', UNCHANGED slotState PROVE SlotInv'
<1> USE DEF SlotInv, slotState, RunningTurns
<1>1. OneRunningTurn'
  BY DEF OneRunningTurn
<1>2. RunningTurnIsCurrentGeneration'
  BY DEF RunningTurnIsCurrentGeneration
<1>3. RunningPermissionMatchesPlan'
  BY DEF RunningPermissionMatchesPlan, PlanActive
<1>4. OpenInteractionIsAnswerable'
  BY DEF OpenInteractionIsAnswerable, Answerable, PlanActive
<1>5. LiveCutIsExclusive'
  BY DEF LiveCutIsExclusive
<1> QED BY <1>1, <1>2, <1>3, <1>4, <1>5

(* The same for a step that only forgets cuts, once nothing runs. *)
LEMMA SlotForget ==
    ASSUME SlotInv, TypeOK', QueueItemOwnsItsTurn', NEW h, ForgetClosed(h),
           UNCHANGED <<generation, turn, calls, workflow, interactions>>,
           lifecycle' # "DELETED" => lifecycle # "DELETED",
           \A g \in Hosts : g # h /\ owner = g => owner' = g \/ RunningTurns = {}
    PROVE  SlotInv'
<1> USE DEF SlotInv, RunningTurns
<1>1. OneRunningTurn'
  BY DEF OneRunningTurn
<1>2. RunningTurnIsCurrentGeneration'
  BY DEF RunningTurnIsCurrentGeneration
<1>3. RunningPermissionMatchesPlan'
  BY DEF RunningPermissionMatchesPlan, PlanActive
<1>4. OpenInteractionIsAnswerable'
  BY DEF OpenInteractionIsAnswerable, Answerable, PlanActive
<1>5. \A g \in Hosts : cut'[g] # None => cut'[g] = cut[g] /\ g # h
  BY IdentitiesAssumption DEF ForgetClosed, ForgetHost, hostVars, TypeOK
<1>6. LiveCutIsExclusive'
  BY <1>5 DEF LiveCutIsExclusive
<1> QED BY <1>1, <1>2, <1>3, <1>4, <1>6

(* Lease and lifecycle transactions.  The takeover is the interesting one:  *)
(* it ends every turn and the questions that wait on them.                  *)
LEMMA LifecycleSlotInv ==
    ASSUME SlotInv, LifecycleNext PROVE SlotInv'
<1>t. TypeOK' /\ QueueItemOwnsItsTurn'
  BY StepTypeOK, QueueItemStep, LifecycleNext DEF SlotInv, Next
<1>1. CASE LeaseExpires
  BY <1>1, <1>t, SlotFrame
     DEF LeaseExpires, slotState, toolVars, planVars, hostVars
<1>2. CASE UnarchiveSession
  <2>1. ForgetClosed(None)
    BY <1>2 DEF UnarchiveSession, ForgetClosed
  <2> QED BY <1>2, <2>1, <1>t, SlotForget DEF UnarchiveSession, toolVars, planVars
<1>3. ASSUME NEW h \in Hosts, AcquireHostWriter(h) PROVE SlotInv'
  <2> USE DEF SlotInv, TypeOK
  <2>1. turn' = InterruptTurns(Turns, "HOST_TAKEOVER")
    BY <1>3 DEF AcquireHostWriter
  <2>2. RunningTurns' = {}
    BY <2>1, InterruptedRows DEF RunningTurns
  <2>3. \A x \in interactions' : x \in interactions /\ x.kind = "DRAFT_REVIEW"
    <3> SUFFICES ASSUME NEW x \in interactions'
                 PROVE  x \in interactions /\ x.kind = "DRAFT_REVIEW"
      OBVIOUS
    <3>1. x \in interactions /\ (x.kind # "QUESTION" \/ x.origin \notin RunningTurns)
      BY <1>3 DEF AcquireHostWriter, AbortQuestions
    <3>2. x.kind = "QUESTION" => x.origin \in RunningTurns
      BY <3>1 DEF OpenInteractionIsAnswerable
    <3>3. x.kind \in {"QUESTION", "DRAFT_REVIEW"}
      BY <3>1 DEF Interaction
    <3> QED BY <3>1, <3>2, <3>3
  <2>4. OpenInteractionIsAnswerable'
    BY <1>3, <2>2, <2>3 DEF AcquireHostWriter, OpenInteractionIsAnswerable, Answerable,
       PlanActive
  <2>5. \A t \in Turns : turn[t].status # "ABSENT" => turn'[t].status # "ABSENT"
    BY <2>1 DEF InterruptTurns, RunningTurns, TurnRow
  <2>6. LiveCutIsExclusive'
    BY <1>3, <2>2, <2>5 DEF AcquireHostWriter, LiveCutIsExclusive
  <2> QED BY <1>t, <2>2, <2>4, <2>6
          DEF OneRunningTurn, RunningTurnIsCurrentGeneration, RunningPermissionMatchesPlan
<1>4. ASSUME NEW h \in Hosts, HostStops(h) PROVE SlotInv'
  <2>1. ForgetClosed(h)
    BY <1>4, IdentitiesAssumption DEF HostStops, ForgetClosed
  <2> QED BY <1>4, <2>1, <1>t, SlotForget DEF HostStops, sessionVars, toolVars, planVars
<1>5. ASSUME NEW h \in Hosts, ReleaseHostWriter(h) PROVE SlotInv'
  <2>1. ForgetClosed(h)
    BY <1>5, IdentitiesAssumption DEF ReleaseHostWriter, ForgetClosed
  <2> QED BY <1>5, <2>1, <1>t, SlotForget DEF ReleaseHostWriter, toolVars, planVars
<1>6. ASSUME NEW c \in Hosts \cup {None}, ArchiveSession(c) PROVE SlotInv'
  BY <1>6, <1>t, SlotForget DEF ArchiveSession, SessionIdle, toolVars, planVars
<1>7. ASSUME NEW c \in Hosts \cup {None}, DeleteSession(c) PROVE SlotInv'
  <2>1. RunningTurns' = {} /\ interactions' = {} /\ lifecycle' = "DELETED"
    BY <1>7 DEF DeleteSession, RunningTurns, AbsentTurn
  <2> QED BY <1>t, <2>1
          DEF SlotInv, OneRunningTurn, RunningTurnIsCurrentGeneration,
              RunningPermissionMatchesPlan, OpenInteractionIsAnswerable,
              LiveCutIsExclusive
<1> QED BY <1>1, <1>2, <1>3, <1>4, <1>5, <1>6, <1>7, LifecycleNext DEF LifecycleNext

(* A turn started in a free slot, while no interaction is open and under    *)
(* the permission the Plan asks for.                                        *)
LEMMA SlotStart ==
    ASSUME SlotInv, TypeOK', QueueItemOwnsItsTurn', NEW t \in Turns, NEW perm, NEW handoff,
           lifecycle # "DELETED", turn[t].status = "ABSENT", RunningTurns = {},
           turn' = [turn EXCEPT ![t] = NewTurn(perm, handoff)], interactions' = {},
           perm.ordinal = workflow'.ordinal,
           perm.overlay = IF PlanActive' THEN "PLAN_READ_ONLY" ELSE "NONE",
           UNCHANGED <<lifecycle, generation, owner, calls, cut>>
    PROVE  SlotInv'
<1> USE DEF SlotInv, TypeOK
<1>1. /\ RunningTurns' = {t}
      /\ turn'[t].generation = generation
      /\ turn'[t].perm = perm
      /\ \A s \in Turns : s # t => turn'[s] = turn[s]
  BY DEF RunningTurns, NewTurn
<1>2. OneRunningTurn' /\ RunningTurnIsCurrentGeneration' /\ OpenInteractionIsAnswerable'
  BY <1>1 DEF OneRunningTurn, RunningTurnIsCurrentGeneration, OpenInteractionIsAnswerable
<1>3. RunningPermissionMatchesPlan'
  BY <1>1 DEF RunningPermissionMatchesPlan
<1>4. \A h \in Hosts : cut[h] # None => cut[h] \in Turns /\ cut[h] # t
  BY DEF LiveCutIsExclusive
<1>5. LiveCutIsExclusive'
  BY <1>1, <1>4 DEF LiveCutIsExclusive
<1> QED BY <1>2, <1>3, <1>5

(* Admission, queue and delivery transactions. *)
LEMMA QueueSlotInv ==
    ASSUME SlotInv, NEW h \in Hosts, QueueNext(h) PROVE SlotInv'
<1>t. TypeOK' /\ QueueItemOwnsItsTurn'
  BY StepTypeOK, QueueItemStep, QueueNext(h) DEF SlotInv, Next
<1>q. ASSUME UNCHANGED <<sessionVars, turn, toolVars, planVars, cut>> PROVE SlotInv'
  BY <1>q, <1>t, SlotFrame DEF slotState, sessionVars, toolVars, planVars
<1>p. /\ FrozenPermission.ordinal = workflow.ordinal
      /\ FrozenPermission.overlay = IF PlanActive THEN "PLAN_READ_ONLY" ELSE "NONE"
  BY DEF FrozenPermission, PlanPermission, OpenPermission
<1>1. ASSUME NEW c \in Commands, AcceptRootTurnIntent(h, c) PROVE SlotInv'
  BY <1>1, <1>t, <1>p, SlotStart
     DEF AcceptRootTurnIntent, Writer, sessionVars, toolVars, planVars, hostVars,
         PlanActive, Turns
<1>2. ASSUME NEW i \in Items, EnqueuePrompt(h, i) PROVE SlotInv'
  BY <1>2, <1>q DEF EnqueuePrompt, QueueOnly, hostVars
<1>3. ASSUME NEW i \in Items, NEW t \in Turns, EnqueueSteer(h, i, t) PROVE SlotInv'
  BY <1>3, <1>q DEF EnqueueSteer, QueueOnly, hostVars
<1>4. ASSUME NEW i \in Items, EnqueueScheduled(h, i) PROVE SlotInv'
  BY <1>4, <1>q DEF EnqueueScheduled, QueueOnly, hostVars
<1>5. ASSUME NEW i \in Items, EnqueueCellOutput(h, i) PROVE SlotInv'
  BY <1>5, <1>q DEF EnqueueCellOutput, QueueOnly, hostVars
<1>6. ASSUME NEW i \in Items, CancelPrompt(h, i) PROVE SlotInv'
  BY <1>6, <1>q DEF CancelPrompt, QueueOnly, hostVars
<1>7. ASSUME NEW i \in Items, NEW j \in Items, NEW t \in Turns,
             RedirectQueuedPrompt(h, i, j, t)
      PROVE  SlotInv'
  BY <1>7, <1>q DEF RedirectQueuedPrompt, QueueOnly, hostVars
<1>8. CASE PreparePromptHead(h)
  BY <1>8, <1>q DEF PreparePromptHead
<1>9. CASE ConsumePreparedPromptHead(h)
  <2>1. CASE UNCHANGED turn
    BY <1>9, <2>1, <1>q DEF ConsumePreparedPromptHead
  <2>2. CASE ConsumeStartsTurn(h)
    <3> DEFINE i == head[h].item
    <3>1. i \in Items /\ i \in Turns
      BY <1>9 DEF ConsumePreparedPromptHead, SlotInv, TypeOK, Candidate, Turns
    <3>2. /\ head[h].perm.ordinal = workflow.ordinal
          /\ head[h].perm.overlay = IF PlanActive THEN "PLAN_READ_ONLY" ELSE "NONE"
      <4>1. CASE item[i].origin = "SCHEDULED_TASK"
        <5>1. item[i].perm.overlay \in {"NONE", "PLAN_READ_ONLY"}
          BY <3>1 DEF SlotInv, TypeOK, ItemRow, Permission
        <5> QED BY <2>2, <4>1, <5>1
                DEF ConsumeStartsTurn, PlanContextChanged, DeliveryPermission
      <4>2. CASE item[i].origin # "SCHEDULED_TASK"
        BY <2>2, <4>2, <1>p DEF ConsumeStartsTurn, DeliveryPermission
      <4> QED BY <4>1, <4>2
    <3>3. turn[i].status = "ABSENT"
      BY <2>2, <3>1 DEF ConsumeStartsTurn, IsHead, PendingNewTurn, Pending, SlotInv,
         QueueItemOwnsItsTurn
    <3> QED BY <1>9, <2>2, <3>1, <3>2, <3>3, <1>t, SlotStart
            DEF ConsumePreparedPromptHead, ConsumeStartsTurn, Writer, sessionVars,
                toolVars, planVars, PlanActive
  <2> QED BY <1>9, <2>1, <2>2
          DEF ConsumePreparedPromptHead, ConsumeFindsNoWork, ConsumeConflicts,
              ConsumeRejectsScheduled
<1>10. CASE RejectPreparedPromptHead(h)
  BY <1>10, <1>q DEF RejectPreparedPromptHead
<1> QED BY <1>1, <1>2, <1>3, <1>4, <1>5, <1>6, <1>7, <1>8, <1>9, <1>10,
           QueueNext(h) DEF QueueNext

(* A turn that ends leaves the slot free and no question of it open. *)
LEMMA SlotEnd ==
    ASSUME SlotInv, TypeOK', QueueItemOwnsItsTurn', NEW t \in RunningTurns,
           turn'[t].status \in {"COMPLETED", "INTERRUPTED"},
           \A s \in Turns : s # t => turn'[s] = turn[s],
           \A x \in interactions' :
               /\ x.kind = "DRAFT_REVIEW"
               /\ Answerable(x, x.kind)'
               /\ \A y \in interactions' : x = y,
           UNCHANGED <<lifecycle, generation, owner>>,
           \A g \in Hosts : cut'[g] \in {cut[g], None}
    PROVE  SlotInv'
<1> USE DEF SlotInv
<1>1. RunningTurns' = {}
  BY DEF RunningTurns, OneRunningTurn
<1>2. OpenInteractionIsAnswerable'
  BY <1>1 DEF OpenInteractionIsAnswerable
<1>3. \A s \in Turns : turn[s].status # "ABSENT" => turn'[s].status # "ABSENT"
  OBVIOUS
<1>4. LiveCutIsExclusive'
  BY <1>1, <1>3 DEF LiveCutIsExclusive, TypeOK
<1> QED BY <1>1, <1>2, <1>4
        DEF OneRunningTurn, RunningTurnIsCurrentGeneration, RunningPermissionMatchesPlan

(* While a turn runs, the only interaction that can be open is its question. *)
LEMMA OpenInteractionOfRunningTurn ==
    ASSUME SlotInv, NEW t \in RunningTurns
    PROVE  \A x \in interactions :
               x.kind = "QUESTION" /\ x.origin = t /\ calls[t] = "PLAN"
<1> SUFFICES ASSUME NEW x \in interactions
             PROVE  x.kind = "QUESTION" /\ x.origin = t /\ calls[t] = "PLAN"
  OBVIOUS
<1>1. x.kind \in {"QUESTION", "DRAFT_REVIEW"}
  BY DEF SlotInv, TypeOK, Interaction
<1>2. x.kind # "DRAFT_REVIEW"
  BY DEF SlotInv, OpenInteractionIsAnswerable
<1>3. x.origin \in RunningTurns /\ calls[x.origin] = "PLAN"
  BY <1>1, <1>2 DEF SlotInv, OpenInteractionIsAnswerable
<1>4. x.origin = t
  BY <1>3 DEF SlotInv, OneRunningTurn
<1> QED BY <1>1, <1>2, <1>3, <1>4

(* A step that closes or opens calls of the one RUNNING turn t, holding its *)
(* cut or its Plan batch, while no interaction is open.                     *)
LEMMA SlotCalls ==
    ASSUME SlotInv, TypeOK', QueueItemOwnsItsTurn', interactions' = {},
           UNCHANGED <<lifecycle, generation, owner, turn>>,
           workflow'.ordinal = workflow.ordinal, PlanActive' <=> PlanActive,
           \A g \in Hosts :
               /\ cut'[g] \in {cut[g], None}
               /\ cut'[g] \in RunningTurns => calls'[cut'[g]] \in {calls[cut[g]], "NONE"}
    PROVE  SlotInv'
<1> USE DEF SlotInv, RunningTurns
<1>1. OneRunningTurn' /\ RunningTurnIsCurrentGeneration' /\ RunningPermissionMatchesPlan'
  BY DEF OneRunningTurn, RunningTurnIsCurrentGeneration, RunningPermissionMatchesPlan
<1>2. OpenInteractionIsAnswerable'
  BY DEF OpenInteractionIsAnswerable
<1>3. LiveCutIsExclusive'
  BY DEF LiveCutIsExclusive, TypeOK
<1> QED BY <1>1, <1>2, <1>3

(* Transactions of the running turn. *)
LEMMA RunnerSlotInv ==
    ASSUME SlotInv, NEW h \in Hosts, RunnerNext(h) PROVE SlotInv'
<1>t. TypeOK' /\ QueueItemOwnsItsTurn'
  BY StepTypeOK, QueueItemStep, RunnerNext(h) DEF SlotInv, Next
<1>1. ASSUME NEW opened \in Batches \cup {"NONE"}, NEW complete \in BOOLEAN,
             CommitAssistantMessage(h, opened, complete)
      PROVE  SlotInv'
  <2> DEFINE t == cut[h]
  <2>1. t \in RunningTurns /\ t \in Turns /\ calls[t] = "NONE" /\ owner = h
    BY <1>1 DEF CommitAssistantMessage, SlotInv, LiveCutIsExclusive, RunningTurns, Writer
  <2>2. interactions = {} /\ interactions' = {}
    BY <1>1, <2>1, OpenInteractionOfRunningTurn DEF CommitAssistantMessage, planVars
  <2>3. \A g \in Hosts : cut'[g] = IF g = h THEN None ELSE cut[g]
    BY <1>1 DEF CommitAssistantMessage, SlotInv, TypeOK
  <2>4. CASE UNCHANGED turn
    <3>1. ASSUME NEW g \in Hosts, cut'[g] \in RunningTurns, cut'[g] # None PROVE FALSE
      <4>1. g # h /\ cut'[g] = cut[g]
        BY <2>3, <3>1
      <4> QED BY <2>1, <3>1, <4>1 DEF SlotInv, LiveCutIsExclusive
    <3>2. None \notin RunningTurns
      BY IdentitiesAssumption DEF RunningTurns, Turns
    <3> QED BY <1>1, <2>2, <2>3, <2>4, <3>1, <3>2, <1>t, SlotCalls
            DEF CommitAssistantMessage, sessionVars, planVars, PlanActive
  <2>5. CASE turn' = [turn EXCEPT ![t] = Completed(turn[t])]
    <3>1. turn'[t].status = "COMPLETED"
      BY <2>1, <2>5 DEF SlotInv, TypeOK, TurnRow, Completed
    <3>2. \A s \in Turns : s # t => turn'[s] = turn[s]
      BY <2>1, <2>5 DEF SlotInv, TypeOK
    <3> QED BY <1>1, <2>1, <2>2, <2>3, <3>1, <3>2, <1>t, SlotEnd
            DEF CommitAssistantMessage, sessionVars
  <2> QED BY <1>1, <2>4, <2>5 DEF CommitAssistantMessage
<1>2. ASSUME NEW t \in Turns, PrepareProviderInputCut(h, t) PROVE SlotInv'
  <2> USE DEF SlotInv, RunningTurns
  <2>1. /\ UNCHANGED <<lifecycle, generation, owner, turn, calls, workflow, interactions>>
        /\ owner = h /\ t \in RunningTurns /\ calls[t] = "NONE"
    BY <1>2 DEF PrepareProviderInputCut, ProviderSafe, Writer, sessionVars, toolVars, planVars
  <2>2. \A g \in Hosts : cut'[g] = IF g = h THEN t ELSE cut[g]
    BY <1>2 DEF PrepareProviderInputCut, TypeOK
  <2>3. OneRunningTurn' /\ RunningTurnIsCurrentGeneration' /\ RunningPermissionMatchesPlan'
    BY <2>1 DEF OneRunningTurn, RunningTurnIsCurrentGeneration,
       RunningPermissionMatchesPlan, PlanActive
  <2>4. OpenInteractionIsAnswerable'
    BY <2>1 DEF OpenInteractionIsAnswerable, Answerable, PlanActive
  <2>5. LiveCutIsExclusive'
    BY <2>1, <2>2 DEF LiveCutIsExclusive
  <2> QED BY <1>t, <2>3, <2>4, <2>5
<1>3. ASSUME NEW t \in Turns, AcceptToolAttempt(h, t) PROVE SlotInv'
  BY <1>3, <1>t, SlotFrame DEF AcceptToolAttempt, slotState, sessionVars, planVars, hostVars
<1>4. ASSUME NEW t \in Turns, AcceptToolResult(h, t) PROVE SlotInv'
  <2> USE DEF SlotInv, RunningTurns
  <2>1. /\ UNCHANGED <<lifecycle, generation, owner, turn, workflow, interactions, cut>>
        /\ calls[t] = "TOOLS"
    BY <1>4 DEF AcceptToolResult, sessionVars, planVars, hostVars
  <2>2. \A s \in Turns : calls'[s] = IF s = t THEN "NONE" ELSE calls[s]
    BY <1>4 DEF AcceptToolResult, TypeOK
  <2>3. OneRunningTurn' /\ RunningTurnIsCurrentGeneration' /\ RunningPermissionMatchesPlan'
    BY <2>1 DEF OneRunningTurn, RunningTurnIsCurrentGeneration,
       RunningPermissionMatchesPlan, PlanActive
  <2>4. OpenInteractionIsAnswerable'
    BY <2>1, <2>2 DEF OpenInteractionIsAnswerable, Answerable, PlanActive
  <2>5. LiveCutIsExclusive'
    BY <2>1, <2>2 DEF LiveCutIsExclusive, TypeOK
  <2> QED BY <1>t, <2>3, <2>4, <2>5
<1>e. ASSUME NEW t, NEW reason, NEW left, EndTurn(h, t, reason, left),
             left = AbortQuestions({t}) \/ left = AbortInteractions({t})
      PROVE  SlotInv'
  <2>1. t \in RunningTurns /\ t \in Turns
    BY <1>e DEF EndTurn, RunningTurns
  <2>2. interactions' = {}
    BY <1>e, <2>1, OpenInteractionOfRunningTurn DEF EndTurn, AbortQuestions, AbortInteractions
  <2>3. turn'[t].status = "INTERRUPTED" /\ \A s \in Turns : s # t => turn'[s] = turn[s]
    BY <1>e, <2>1, InterruptedRows DEF EndTurn, SlotInv
  <2> QED BY <1>e, <2>1, <2>2, <2>3, <1>t, SlotEnd DEF EndTurn, sessionVars, hostVars
<1>5. ASSUME NEW t \in Turns, InterruptTurn(h, t) PROVE SlotInv'
  BY <1>5, <1>e DEF InterruptTurn
<1>6. ASSUME NEW t \in Turns, InterruptSteerPlanConflict(h, t) PROVE SlotInv'
  BY <1>6, <1>e DEF InterruptSteerPlanConflict
<1>7. ASSUME NEW t \in Turns, RejectSteerResourceExhaustion(h, t) PROVE SlotInv'
  BY <1>7, <1>e DEF RejectSteerResourceExhaustion
<1>8. ASSUME NEW t \in Turns, NEW i \in Items, ConsumePreparedPromptSteer(h, i, t)
      PROVE  SlotInv'
  BY <1>8, <1>t, SlotFrame
     DEF ConsumePreparedPromptSteer, QueueOnly, slotState, sessionVars, toolVars,
         planVars, hostVars
<1> QED BY <1>1, <1>2, <1>3, <1>4, <1>5, <1>6, <1>7, <1>8, RunnerNext(h) DEF RunnerNext

(* Nothing runs, no turn starts and no interaction is left open. *)
LEMMA SlotIdle ==
    ASSUME SlotInv, TypeOK', QueueItemOwnsItsTurn', RunningTurns' = {}, interactions' = {},
           \A s \in Turns : turn[s].status # "ABSENT" => turn'[s].status # "ABSENT",
           UNCHANGED <<lifecycle, cut>>
    PROVE  SlotInv'
<1>1. LiveCutIsExclusive'
  BY DEF SlotInv, LiveCutIsExclusive, TypeOK
<1> QED BY <1>1 DEF SlotInv, OneRunningTurn, RunningTurnIsCurrentGeneration,
                    RunningPermissionMatchesPlan, OpenInteractionIsAnswerable

(* The continuation takes the slot over in the transaction that ends its    *)
(* origin.                                                                  *)
LEMMA SlotHandOver ==
    ASSUME SlotInv, TypeOK', QueueItemOwnsItsTurn', NEW t \in RunningTurns,
           NEW c \in Continuations, NEW perm, HandOverTo(t, c, perm),
           lifecycle # "DELETED", interactions' = {},
           perm.ordinal = workflow'.ordinal,
           perm.overlay = IF PlanActive' THEN "PLAN_READ_ONLY" ELSE "NONE",
           UNCHANGED <<lifecycle, generation, owner, cut>>
    PROVE  SlotInv'
<1> USE DEF SlotInv
<1>1. t \in Turns /\ c \in Turns /\ t # c /\ turn[c].status = "ABSENT"
  BY DEF HandOverTo, RunningTurns, Turns
<1>2. turn' = [[turn EXCEPT ![t] = Completed(turn[t])] EXCEPT ![c] = NewTurn(perm, 0)]
  BY DEF HandOverTo
<1>3. /\ turn'[t].status = "COMPLETED"
      /\ turn'[c] = NewTurn(perm, 0)
      /\ \A s \in Turns : s \notin {t, c} => turn'[s] = turn[s]
  BY <1>1, <1>2 DEF TypeOK, Completed, TurnRow
<1>4. /\ RunningTurns' = {c}
      /\ turn'[c].generation = generation
      /\ turn'[c].perm = perm
  <2>1. \A s \in Turns : s \notin {t, c} => turn[s].status # "RUNNING"
    BY DEF OneRunningTurn, RunningTurns
  <2>2. turn'[c].status = "RUNNING" /\ turn'[c].generation = generation /\ turn'[c].perm = perm
    BY <1>3 DEF NewTurn
  <2> QED BY <1>1, <1>3, <2>1, <2>2 DEF RunningTurns
<1>5. OneRunningTurn' /\ RunningTurnIsCurrentGeneration' /\ RunningPermissionMatchesPlan'
  BY <1>4 DEF OneRunningTurn, RunningTurnIsCurrentGeneration, RunningPermissionMatchesPlan
<1>6. OpenInteractionIsAnswerable'
  BY DEF OpenInteractionIsAnswerable
<1>7. \A g \in Hosts : cut[g] # None =>
          cut[g] \in Turns /\ cut[g] # c /\ turn[cut[g]].status # "ABSENT"
  BY <1>1 DEF LiveCutIsExclusive, TypeOK
<1>8. LiveCutIsExclusive'
  BY <1>3, <1>4, <1>7 DEF LiveCutIsExclusive
<1> QED BY <1>5, <1>6, <1>8

(* Plan transactions. *)
LEMMA PlanSlotInv ==
    ASSUME SlotInv, NEW h \in Hosts, PlanNext(h) PROVE SlotInv'
<1>t. TypeOK' /\ QueueItemOwnsItsTurn'
  BY StepTypeOK, QueueItemStep, PlanNext(h) DEF SlotInv, Next
<1>b. ASSUME NEW t \in Turns, PlanBatch(h, t)
      PROVE  interactions = {} /\ t \in RunningTurns /\ lifecycle # "DELETED"
  <2>1. t \in RunningTurns /\ \A x \in interactions : x.origin # t
    BY <1>b DEF PlanBatch
  <2>2. \A x \in interactions : x.origin = t
    BY <2>1, OpenInteractionOfRunningTurn
  <2> QED BY <1>b, <2>1, <2>2 DEF PlanBatch, Writer
<1>w. /\ workflow.ordinal \in Nat /\ workflow.revision \in Nat
      /\ \A status : AdvanceWorkflow(status) =>
             /\ workflow'.ordinal = workflow.ordinal
             /\ workflow'.status = status
             /\ workflow'.revision = workflow.revision + 1
  BY DEF AdvanceWorkflow, Workflow, SlotInv, TypeOK
<1>x. ASSUME NEW x \in interactions, NEW kind, Answerable(x, kind)
      PROVE  /\ interactions \ {x} = {}
             /\ x.ordinal = workflow.ordinal
             /\ kind = "DRAFT_REVIEW" => RunningTurns = {}
  BY <1>x DEF SlotInv, OpenInteractionIsAnswerable, Answerable
<1>p. /\ \A o, r : PlanPermission(o, r).ordinal = o
                   /\ PlanPermission(o, r).overlay = "PLAN_READ_ONLY"
      /\ \A o : OpenPermission(o).ordinal = o /\ OpenPermission(o).overlay = "NONE"
  BY DEF PlanPermission, OpenPermission
<1>i. ASSUME UNCHANGED <<turn, lifecycle, cut>>, RunningTurns = {}, interactions' = {}
      PROVE  SlotInv'
  BY <1>i, <1>t, SlotIdle DEF RunningTurns
<1>a. PlanActive' <=> workflow'.status = "ACTIVE"
  BY DEF PlanActive
<1> USE DEF sessionVars, hostVars
<1>1. ASSUME NEW t \in Turns, PlanBatchResultsOnly(h, t) PROVE SlotInv'
  <2>1. PlanBatch(h, t) /\ CloseCalls(t)
    BY <1>1 DEF PlanBatchResultsOnly
  <2>2. \A s \in Turns : calls'[s] \in {calls[s], "NONE"}
    BY <2>1 DEF CloseCalls, SlotInv, TypeOK
  <2>3. UNCHANGED <<lifecycle, generation, owner, turn, workflow, interactions, cut>>
    BY <1>1 DEF PlanBatchResultsOnly, planVars
  <2> QED BY <2>1, <2>2, <2>3, <1>b, <1>t, SlotCalls DEF PlanActive, RunningTurns
<1>o. ASSUME NEW t \in Turns, NEW kind, PlanBatch(h, t), OpenInteraction(kind, t)
      PROVE  /\ \A x, y \in interactions' : x = y
             /\ \A x \in interactions' :
                    x.kind = kind /\ x.origin = t /\ Answerable(x, x.kind)'
             /\ workflow'.ordinal = workflow.ordinal
             /\ PlanActive /\ PlanActive'
  <2> DEFINE new == [kind |-> kind, origin |-> t, ordinal |-> workflow.ordinal,
                     revision |-> workflow.revision + 1]
  <2>1. interactions' = {new} /\ AdvanceWorkflow("ACTIVE") /\ PlanActive
    BY <1>o, <1>b DEF OpenInteraction
  <2> QED BY <2>1, <1>w DEF Answerable, PlanActive
<1>2. ASSUME NEW t \in Turns, PlanQuestionBatch(h, t) PROVE SlotInv'
  <2> USE DEF SlotInv, RunningTurns
  <2>1. /\ PlanBatch(h, t) /\ OpenInteraction("QUESTION", t)
        /\ UNCHANGED <<lifecycle, generation, owner, turn, calls, cut>>
    BY <1>2 DEF PlanQuestionBatch, toolVars
  <2>2. OneRunningTurn' /\ RunningTurnIsCurrentGeneration'
    BY <2>1 DEF OneRunningTurn, RunningTurnIsCurrentGeneration
  <2>3. RunningPermissionMatchesPlan'
    BY <2>1, <1>o DEF RunningPermissionMatchesPlan
  <2>4. t \in RunningTurns /\ calls[t] = "PLAN"
    BY <2>1 DEF PlanBatch
  <2>5. OpenInteractionIsAnswerable'
    <3>1. \A x \in interactions' : x.kind = "QUESTION" /\ x.origin = t /\ Answerable(x, x.kind)'
      BY <2>1, <1>o
    <3>2. \A x, y \in interactions' : x = y
      BY <2>1, <1>o
    <3> QED BY <2>1, <2>4, <3>1, <3>2 DEF OpenInteractionIsAnswerable
  <2>6. LiveCutIsExclusive'
    BY <2>1 DEF LiveCutIsExclusive
  <2> QED BY <1>t, <2>2, <2>3, <2>5, <2>6
<1>3. ASSUME NEW t \in Turns, PlanDraftBatch(h, t) PROVE SlotInv'
  <2>1. /\ PlanBatch(h, t) /\ OpenInteraction("DRAFT_REVIEW", t)
        /\ turn' = [turn EXCEPT ![t] = Completed(turn[t])]
        /\ UNCHANGED <<lifecycle, generation, owner, cut>>
    BY <1>3 DEF PlanDraftBatch
  <2>2. /\ turn'[t].status = "COMPLETED"
        /\ \A s \in Turns : s # t => turn'[s] = turn[s]
    BY <2>1 DEF SlotInv, TypeOK, Completed, TurnRow
  <2>3. /\ \A x \in interactions' : x.kind = "DRAFT_REVIEW" /\ Answerable(x, x.kind)'
        /\ \A x, y \in interactions' : x = y
    BY <2>1, <1>o
  <2> QED BY <2>1, <2>2, <2>3, <1>b, <1>t, SlotEnd
<1>4. ASSUME NEW t \in Turns, NEW c \in Continuations, PlanEnterBatch(h, t, c)
      PROVE  SlotInv'
  <2>1. /\ PlanBatch(h, t)
        /\ HandOverTo(t, c, PlanPermission(workflow.ordinal + 1, 1))
        /\ workflow' = Workflow(workflow.ordinal + 1, "ACTIVE", 1)
        /\ UNCHANGED <<lifecycle, generation, owner, cut, interactions>>
    BY <1>4 DEF PlanEnterBatch
  <2>2. workflow'.ordinal = workflow.ordinal + 1 /\ PlanActive'
    BY <2>1, <1>a DEF Workflow
  <2> QED BY <2>1, <2>2, <1>b, <1>p, <1>t, SlotHandOver
<1>5. ASSUME NEW t \in Turns, NEW c \in Continuations, PlanExitBatch(h, t, c)
      PROVE  SlotInv'
  <2>1. /\ PlanBatch(h, t)
        /\ HandOverTo(t, c, OpenPermission(workflow.ordinal))
        /\ AdvanceWorkflow("EXITED")
        /\ UNCHANGED <<lifecycle, generation, owner, cut, interactions>>
    BY <1>5 DEF PlanExitBatch
  <2>2. workflow'.ordinal = workflow.ordinal /\ ~PlanActive'
    BY <2>1, <1>a, <1>w
  <2> QED BY <2>1, <2>2, <1>b, <1>p, <1>t, SlotHandOver
<1>6. ASSUME NEW x \in interactions, ResolvePlanQuestion(h, x) PROVE SlotInv'
  <2>1. /\ Answerable(x, "QUESTION") /\ x.origin \in Turns
        /\ interactions' = {} /\ AdvanceWorkflow("ACTIVE") /\ CloseCalls(x.origin)
        /\ UNCHANGED <<lifecycle, generation, owner, turn, cut>>
    BY <1>6, <1>x DEF ResolvePlanQuestion, RunningTurns
  <2>2. \A s \in Turns : calls'[s] \in {calls[s], "NONE"}
    BY <2>1 DEF CloseCalls, SlotInv, TypeOK
  <2>3. workflow'.ordinal = workflow.ordinal /\ PlanActive /\ PlanActive'
    BY <2>1, <1>a, <1>w DEF Answerable
  <2> QED BY <2>1, <2>2, <2>3, <1>t, SlotCalls DEF RunningTurns
<1>7. ASSUME NEW x \in interactions, CancelPlanDraft(h, x) PROVE SlotInv'
  BY <1>7, <1>x, <1>i DEF CancelPlanDraft
<1>s. ASSUME NEW x \in interactions, NEW c \in Continuations, NEW perm, NEW status,
             Writer(h), Answerable(x, "DRAFT_REVIEW"), turn[c].status = "ABSENT",
             interactions' = interactions \ {x}, AdvanceWorkflow(status),
             turn' = [turn EXCEPT ![c] = NewTurn(perm, 0)],
             perm.ordinal = x.ordinal,
             perm.overlay = IF status = "ACTIVE" THEN "PLAN_READ_ONLY" ELSE "NONE",
             UNCHANGED <<lifecycle, generation, owner, calls, cut>>
      PROVE  SlotInv'
  <2>1. /\ interactions' = {} /\ x.ordinal = workflow.ordinal /\ RunningTurns = {}
        /\ lifecycle # "DELETED" /\ c \in Turns
    BY <1>s, <1>x DEF Writer, Turns
  <2>2. workflow'.ordinal = workflow.ordinal /\ (PlanActive' <=> status = "ACTIVE")
    BY <1>s, <1>w, <1>a
  <2> QED BY <1>s, <2>1, <2>2, <1>t, SlotStart
<1>8. ASSUME NEW x \in interactions, NEW c \in Continuations, ApprovePlanDraft(h, x, c)
      PROVE  SlotInv'
  BY <1>8, <1>s, <1>p DEF ApprovePlanDraft, toolVars
<1>9. ASSUME NEW x \in interactions, NEW c \in Continuations,
             NEW source \in Items \cup {None}, RevisePlanDraft(h, x, c, source)
      PROVE  SlotInv'
  <2> DEFINE perm == PlanPermission(x.ordinal, x.revision + 1)
  <2>1. /\ Writer(h) /\ Answerable(x, "DRAFT_REVIEW") /\ turn[c].status = "ABSENT"
        /\ interactions' = interactions \ {x} /\ AdvanceWorkflow("ACTIVE")
        /\ turn' = [turn EXCEPT ![c] = NewTurn(perm, 0)]
        /\ UNCHANGED <<lifecycle, generation, owner, calls, cut>>
    BY <1>9 DEF RevisePlanDraft, toolVars
  <2>2. perm.ordinal = x.ordinal /\ perm.overlay = "PLAN_READ_ONLY"
    BY <1>p
  <2> HIDE DEF perm
  <2> QED BY <2>1, <2>2, <1>s
<1>10. CASE EnterPlanByUser(h)
  BY <1>10, <1>i DEF EnterPlanByUser
<1>11. CASE CancelPlan(h)
  BY <1>11, <1>i DEF CancelPlan
<1>y. OfOtherWorkflows = {}
  BY DEF OfOtherWorkflows, SlotInv, OpenInteractionIsAnswerable, Answerable
<1>12. CASE PrepareForcePlanExit(h)
  <2>1. /\ turn' = InterruptTurns(Turns, "PLAN_FORCE_EXIT") /\ interactions' = {}
        /\ UNCHANGED <<lifecycle, cut>>
    BY <1>12, <1>y DEF PrepareForcePlanExit
  <2>2. \A s \in Turns : IF s \in RunningTurns THEN turn'[s].status = "INTERRUPTED"
                         ELSE turn'[s] = turn[s]
    BY <2>1, InterruptedRows DEF SlotInv
  <2>3. RunningTurns' = {}
    BY <2>2 DEF RunningTurns
  <2> QED BY <2>1, <2>2, <2>3, <1>t, SlotIdle
<1>13. CASE ForceExitPlan(h)
  BY <1>13, <1>y, <1>i DEF ForceExitPlan
<1> QED BY <1>1, <1>2, <1>3, <1>4, <1>5, <1>6, <1>7, <1>8, <1>9, <1>10, <1>11,
           <1>12, <1>13, PlanNext(h) DEF PlanNext

(* Every step of the store preserves the slot invariant. *)
LEMMA SlotInvStep == SlotInv /\ [Next]_vars => SlotInv'
<1>1. ASSUME SlotInv, UNCHANGED vars PROVE SlotInv'
  <2>1. TypeOK' /\ QueueItemOwnsItsTurn' /\ UNCHANGED slotState
    BY <1>1, StepTypeOK, QueueItemStep
       DEF SlotInv, slotState, vars, sessionVars, toolVars, planVars, hostVars
  <2> QED BY <1>1, <2>1, SlotFrame
<1> QED BY <1>1, LifecycleSlotInv, QueueSlotInv, RunnerSlotInv, PlanSlotInv DEF Next

(* The slot invariant holds in every reachable state, for any number of     *)
(* hosts, requests, items and continuations.                                *)
THEOREM SlotInvariant == Spec => []SlotInv
<1>1. Init => SlotInv
  <2> SUFFICES ASSUME Init PROVE SlotInv
    OBVIOUS
  <2>1. RunningTurns = {} /\ interactions = {} /\ \A h \in Hosts : cut[h] = None
    BY DEF Init, RunningTurns, AbsentTurn
  <2>2. QueueItemOwnsItsTurn
    BY DEF Init, QueueItemOwnsItsTurn, AbsentTurn, AbsentItem, Turns
  <2> QED BY <2>1, <2>2, InitTypeOK
          DEF SlotInv, OneRunningTurn, RunningTurnIsCurrentGeneration,
              RunningPermissionMatchesPlan, OpenInteractionIsAnswerable,
              LiveCutIsExclusive
<1> QED BY <1>1, SlotInvStep, PTL DEF Spec

(* No interleaving of direct requests, queue delivery, Plan continuations   *)
(* and draft decisions starts a second turn.                                *)
THEOREM SlotIsExclusive == Spec => []OneRunningTurn
BY SlotInvariant, PTL DEF SlotInv

(* A takeover leaves no turn of an earlier writer generation running. *)
THEOREM TakeoverEndsTurns == Spec => []RunningTurnIsCurrentGeneration
BY SlotInvariant, PTL DEF SlotInv

(* The permission a turn froze at admission is right for as long as it runs. *)
THEOREM FrozenPermissionStaysRight == Spec => []RunningPermissionMatchesPlan
BY SlotInvariant, PTL DEF SlotInv

(* An open Plan interaction, which blocks every admission, can be answered. *)
THEOREM InteractionsStayAnswerable == Spec => []OpenInteractionIsAnswerable
BY SlotInvariant, PTL DEF SlotInv

(* A model answer is committed by the lease owner, and over no open call. *)
THEOREM CutsAreExclusive == Spec => []LiveCutIsExclusive
BY SlotInvariant, PTL DEF SlotInv


-----------------------------------------------------------------------------
(* The effects of a transaction on the rows                                 *)

Kept == UNCHANGED <<turn, item>>

Deleted ==
    /\ lifecycle # "DELETED"
    /\ lifecycle' = "DELETED"
    /\ turn' = [t \in Turns |-> AbsentTurn]
    /\ item' = [i \in Items |-> AbsentItem]

(* A new row: a prompt for a turn of its own, or a steer of a RUNNING turn. *)
NewRow(i) ==
    /\ item'[i].status = "PENDING"
    /\ \/ item'[i].mode = "NEW_TURN" /\ item'[i].target = None
       \/ item'[i].mode = "STEER_ACTIVE_TURN" /\ item'[i].target \in RunningTurns
    /\ item'[i].handoff \in {0, EligibleHandoff}

Inserted(i) ==
    /\ item[i].status = "ABSENT"
    /\ NewRow(i)
    /\ \A j \in Items : j # i => item'[j] = item[j]
    /\ UNCHANGED turn

Redirected(i, j) ==
    /\ PendingNewTurn(i)
    /\ item[j].status = "ABSENT"
    /\ item'[i] = [item[i] EXCEPT !.status = "CANCELLED"]
    /\ item'[j].mode = "STEER_ACTIVE_TURN"
    /\ NewRow(j)
    /\ item'[j].handoff = 0
    /\ \A k \in Items : k # i /\ k # j => item'[k] = item[k]
    /\ UNCHANGED turn

Settled(i) ==
    /\ Pending(i)
    /\ \/ item' = SettleItems({i}, "CANCELLED")
       \/ item[i].mode = "NEW_TURN" /\ item' = SettleItems({i}, "REJECTED")
       \/ (\E t \in Turns : IsLaneHead(i, t)) /\ item' = SettleItems({i}, "CONSUMED")
    /\ UNCHANGED turn

Swept == item' = RejectTerminalSteers(RunningTurns) /\ UNCHANGED turn

RejectedScheduled(i) ==
    /\ RunningTurns = {}
    /\ PendingNewTurn(i)
    /\ item' = SettleItems(PendingSteers(Turns) \cup {i}, "REJECTED")
    /\ UNCHANGED turn

(* The head of the queue is consumed by the turn that starts for it. *)
StartedFromQueue(i) ==
    /\ RunningTurns = {}
    /\ IsHead(i)
    /\ turn[i].status = "ABSENT"
    /\ \E perm \in Permission :
          turn' = [turn EXCEPT ![i] = NewTurn(perm, DeliveryHandoff(i))]
    /\ item'[i] = [item[i] EXCEPT !.status = "CONSUMED"]
    /\ \A j \in Items : j # i =>
          item'[j] = IF j \in PendingSteers(Turns)
                     THEN [item[j] EXCEPT !.status = "REJECTED"] ELSE item[j]

(* A turn of another kind starts; the message it came from is withdrawn. *)
Started(c) ==
    /\ RunningTurns = {}
    /\ turn[c].status = "ABSENT"
    /\ \E perm \in Permission, handoff \in {0, EligibleHandoff} :
          turn' = [turn EXCEPT ![c] = NewTurn(perm, handoff)]
    /\ \/ UNCHANGED item
       \/ \E i \in Items : PendingNewTurn(i) /\ item' = SettleItems({i}, "CANCELLED")

TakenOver ==
    /\ turn' = InterruptTurns(Turns, "HOST_TAKEOVER")
    /\ item' = SettleItems(PendingSteers(RunningTurns), "REJECTED")

ForceStopped ==
    turn' = InterruptTurns(Turns, "PLAN_FORCE_EXIT") /\ UNCHANGED item

Interrupted(t) ==
    /\ \E reason \in TerminalReason : turn' = InterruptTurns({t}, reason)
    /\ item' = RejectTerminalSteers(RunningTurns \ {t})

Finished(t) ==
    /\ turn' = [turn EXCEPT ![t] = Completed(turn[t])]
    /\ item' = SettleItems(PendingSteers({t}), "CONSUMED")

HandedOver(t, c) ==
    /\ turn[c].status = "ABSENT"
    /\ \E perm \in Permission :
          turn' = [turn EXCEPT ![t] = Completed(turn[t]), ![c] = NewTurn(perm, 0)]
    /\ item' = SettleItems(PendingSteers({t}), "CONSUMED")

RowStep ==
    \/ Deleted
    \/ Kept /\ (lifecycle' = "DELETED" <=> lifecycle = "DELETED")
    \/ /\ lifecycle = "OPEN"
       /\ UNCHANGED lifecycle
       /\ \/ \E i \in Items : \/ Inserted(i)
                              \/ Settled(i)
                              \/ RejectedScheduled(i)
                              \/ StartedFromQueue(i)
          \/ \E i, j \in Items : Redirected(i, j)
          \/ \E c \in Commands \cup Continuations : Started(c)
          \/ \E t \in RunningTurns : Interrupted(t) \/ Finished(t)
          \/ \E t \in RunningTurns, c \in Continuations : HandedOver(t, c)
          \/ Swept
          \/ TakenOver
          \/ ForceStopped

-----------------------------------------------------------------------------
(* Rows that a helper writes                                                *)

(* Settling a set of items writes their status and nothing else. *)
LEMMA SettledRows ==
    ASSUME TypeOK, NEW S, NEW status, item' = SettleItems(S, status)
    PROVE  /\ \A i \in Items : i \in S =>
                  /\ item'[i].status = status
                  /\ item'[i].mode = item[i].mode
                  /\ item'[i].target = item[i].target
                  /\ item'[i].handoff = item[i].handoff
           /\ \A i \in Items : i \notin S => item'[i] = item[i]
BY DEF TypeOK, SettleItems, ItemRow

(* Settling no item is no change. *)
LEMMA SettleNothing ==
    ASSUME TypeOK, NEW S, NEW status, S \cap Items = {}
    PROVE  SettleItems(S, status) = item
BY DEF TypeOK, SettleItems

(* An insertion writes one new row. *)
LEMMA InsertedRow ==
    ASSUME TypeOK, NEW i \in Items, NEW mode, NEW origin, NEW target, NEW perm,
           NEW handoff \in {0, EligibleHandoff},
           InsertItem(i, mode, origin, target, perm, handoff), UNCHANGED turn,
           \/ mode = "NEW_TURN" /\ target = None
           \/ mode = "STEER_ACTIVE_TURN" /\ target \in RunningTurns
    PROVE  Inserted(i)
BY DEF TypeOK, InsertItem, Inserted, NewRow

(* Admission, queue and delivery transactions. *)
LEMMA QueueRowStep ==
    ASSUME TypeOK, QueueItemOwnsItsTurn, NEW h \in Hosts, QueueNext(h) PROVE RowStep
<1>k. ASSUME Kept, UNCHANGED lifecycle PROVE RowStep
  BY <1>k DEF RowStep
<1>i. ASSUME NEW i \in Items, Writer(h), UNCHANGED lifecycle, Inserted(i) PROVE RowStep
  BY <1>i DEF RowStep, Writer
<1>1. ASSUME NEW c \in Commands, AcceptRootTurnIntent(h, c) PROVE RowStep
  <2>1. Started(c)
    BY <1>1, FrozenTypes DEF AcceptRootTurnIntent, Started, queueVars
  <2> QED BY <1>1, <2>1 DEF AcceptRootTurnIntent, RowStep, Writer, sessionVars
<1>2. ASSUME NEW i \in Items, EnqueuePrompt(h, i) PROVE RowStep
  BY <1>2, <1>i, InsertedRow DEF EnqueuePrompt, QueueOnly, sessionVars
<1>3. ASSUME NEW i \in Items, NEW t \in Turns, EnqueueSteer(h, i, t) PROVE RowStep
  BY <1>3, <1>i, InsertedRow DEF EnqueueSteer, QueueOnly, sessionVars
<1>4. ASSUME NEW i \in Items, EnqueueScheduled(h, i) PROVE RowStep
  BY <1>4, <1>i, InsertedRow DEF EnqueueScheduled, QueueOnly, sessionVars
<1>5. ASSUME NEW i \in Items, EnqueueCellOutput(h, i) PROVE RowStep
  BY <1>5, <1>i, InsertedRow DEF EnqueueCellOutput, QueueOnly, sessionVars
<1>6. ASSUME NEW i \in Items, CancelPrompt(h, i) PROVE RowStep
  BY <1>6 DEF CancelPrompt, QueueOnly, sessionVars, RowStep, Settled, Writer
<1>7. ASSUME NEW i \in Items, NEW j \in Items, NEW t \in Turns,
             RedirectQueuedPrompt(h, i, j, t)
      PROVE  RowStep
  <2>1. i # j
    BY <1>7 DEF RedirectQueuedPrompt, PendingNewTurn, Pending
  <2>2. Redirected(i, j)
    BY <1>7, <2>1 DEF RedirectQueuedPrompt, Redirected, NewRow, TypeOK, QueueOnly
  <2> QED BY <1>7, <2>2 DEF RedirectQueuedPrompt, RowStep, Writer, QueueOnly, sessionVars
<1>8. CASE PreparePromptHead(h)
  BY <1>8, <1>k DEF PreparePromptHead, Kept, queueVars, sessionVars
<1>9. CASE ConsumePreparedPromptHead(h)
  <2> DEFINE i == head[h].item
  <2>0. /\ lifecycle = "OPEN" /\ UNCHANGED lifecycle
        /\ i \in Items /\ i \in Turns /\ head[h].perm \in Permission
    BY <1>9 DEF ConsumePreparedPromptHead, Writer, sessionVars, TypeOK, Candidate, Turns
  <2>1. CASE ConsumeFindsNoWork(h)
    BY <2>0, <2>1 DEF ConsumeFindsNoWork, RowStep, Swept
  <2>2. CASE ConsumeConflicts(h)
    BY <2>0, <2>2, <1>k DEF ConsumeConflicts, Kept
  <2>3. CASE ConsumeRejectsScheduled(h)
    BY <2>0, <2>3 DEF ConsumeRejectsScheduled, RowStep, RejectedScheduled, IsHead
  <2>4. CASE ConsumeStartsTurn(h)
    <3> DEFINE swept == RejectTerminalSteers({})
    <3>1. /\ turn' = [turn EXCEPT ![i] = NewTurn(head[h].perm, DeliveryHandoff(i))]
          /\ item' = [swept EXCEPT ![i] = [swept[i] EXCEPT !.status = "CONSUMED"]]
          /\ IsHead(i) /\ RunningTurns = {}
      BY <2>4 DEF ConsumeStartsTurn
    <3>2. swept \in [Items -> ItemRow]
      BY RejectTerminalSteersType
    <3>3. \A j \in Items :
             swept[j] = IF j \in PendingSteers(Turns)
                        THEN [item[j] EXCEPT !.status = "REJECTED"] ELSE item[j]
      BY DEF RejectTerminalSteers, SettleItems
    <3>4. i \notin PendingSteers(Turns) /\ turn[i].status = "ABSENT"
      BY <2>0, <3>1 DEF IsHead, PendingNewTurn, Pending, PendingSteers, QueueItemOwnsItsTurn
    <3>5. swept[i] = item[i]
      BY <2>0, <3>3, <3>4
    <3>6. item'[i] = [item[i] EXCEPT !.status = "CONSUMED"]
      BY <2>0, <3>1, <3>2, <3>5
    <3>7. \A j \in Items : j # i => item'[j] = swept[j]
      BY <3>1, <3>2
    <3>8. StartedFromQueue(i)
      BY <2>0, <3>1, <3>3, <3>4, <3>6, <3>7 DEF StartedFromQueue
    <3> QED BY <2>0, <3>8 DEF RowStep
  <2> QED BY <1>9, <2>1, <2>2, <2>3, <2>4 DEF ConsumePreparedPromptHead
<1>10. CASE RejectPreparedPromptHead(h)
  <2> DEFINE i == head[h].item
  <2>0. /\ lifecycle = "OPEN" /\ UNCHANGED <<lifecycle, turn>>
        /\ i \in Items
        /\ item' = IF IsHead(i) THEN SettleItems({i}, "REJECTED") ELSE item
    BY <1>10 DEF RejectPreparedPromptHead, Writer, sessionVars, TypeOK, Candidate
  <2>1. CASE IsHead(i)
    BY <2>0, <2>1 DEF RowStep, Settled, IsHead, PendingNewTurn
  <2>2. CASE ~IsHead(i)
    BY <2>0, <2>2, <1>k DEF Kept
  <2> QED BY <2>1, <2>2
<1> QED BY <1>1, <1>2, <1>3, <1>4, <1>5, <1>6, <1>7, <1>8, <1>9, <1>10,
           QueueNext(h) DEF QueueNext

(* Transactions of the running turn. *)
LEMMA RunnerRowStep ==
    ASSUME TypeOK, NEW h \in Hosts, RunnerNext(h) PROVE RowStep
<1>k. ASSUME UNCHANGED <<sessionVars, turn, item>> PROVE RowStep
  BY <1>k DEF RowStep, Kept, sessionVars
<1>1. ASSUME NEW opened, NEW complete, CommitAssistantMessage(h, opened, complete)
      PROVE  RowStep
  <2> DEFINE t == cut[h]
  <2>0. /\ lifecycle = "OPEN" /\ UNCHANGED <<lifecycle, item>>
        /\ t \in RunningTurns
        /\ turn' = IF complete /\ PendingSteers({t}) = {}
                   THEN [turn EXCEPT ![t] = Completed(turn[t])] ELSE turn
    BY <1>1 DEF CommitAssistantMessage, Writer, sessionVars, queueVars
  <2>1. CASE complete /\ PendingSteers({t}) = {}
    <3>1. Finished(t)
      BY <2>0, <2>1, SettleNothing DEF Finished
    <3> QED BY <2>0, <3>1 DEF RowStep
  <2>2. CASE ~(complete /\ PendingSteers({t}) = {})
    BY <2>0, <2>2 DEF RowStep, Kept
  <2> QED BY <2>1, <2>2
<1>2. ASSUME NEW t \in Turns, NEW reason \in TerminalReason, NEW left,
             EndTurn(h, t, reason, left)
      PROVE  RowStep
  BY <1>2 DEF EndTurn, RowStep, Interrupted, Writer, sessionVars
<1>3. ASSUME NEW i \in Items, NEW t \in Turns, ConsumePreparedPromptSteer(h, i, t)
      PROVE  RowStep
  <2>1. Settled(i) /\ lifecycle = "OPEN" /\ UNCHANGED lifecycle
    BY <1>3 DEF ConsumePreparedPromptSteer, Settled, IsLaneHead, PendingSteers,
       QueueOnly, Writer, sessionVars
  <2> QED BY <2>1 DEF RowStep
<1>4. ASSUME NEW t \in Turns,
             \/ PrepareProviderInputCut(h, t)
             \/ AcceptToolAttempt(h, t)
             \/ AcceptToolResult(h, t)
      PROVE  RowStep
  BY <1>4, <1>k DEF PrepareProviderInputCut, AcceptToolAttempt, AcceptToolResult, queueVars
<1> QED BY <1>1, <1>2, <1>3, <1>4, RunnerNext(h)
        DEF RunnerNext, InterruptTurn, InterruptSteerPlanConflict,
            RejectSteerResourceExhaustion, TerminalReason

(* Transactions of the Plan workflow. *)
LEMMA PlanRowStep ==
    ASSUME SlotInv, NEW h \in Hosts, PlanNext(h) PROVE RowStep
<1> USE DEF SlotInv
<1>k. ASSUME UNCHANGED <<sessionVars, turn, item>> PROVE RowStep
  BY <1>k DEF RowStep, Kept, sessionVars
<1>o. workflow.ordinal \in Nat /\ workflow.revision \in Nat
  BY DEF TypeOK
<1>1. ASSUME NEW t \in Turns, PlanDraftBatch(h, t) PROVE RowStep
  <2>1. Finished(t) /\ t \in RunningTurns /\ lifecycle = "OPEN" /\ UNCHANGED lifecycle
    BY <1>1 DEF PlanDraftBatch, PlanBatch, Finished, DrainSteers, Writer, sessionVars
  <2> QED BY <2>1 DEF RowStep
<1>2. ASSUME NEW t \in Turns, NEW c \in Continuations,
             PlanEnterBatch(h, t, c) \/ PlanExitBatch(h, t, c)
      PROVE  RowStep
  <2>1. \E perm \in Permission : HandOverTo(t, c, perm)
    BY <1>2, <1>o, FrozenTypes DEF PlanEnterBatch, PlanExitBatch
  <2>2. t \in RunningTurns /\ lifecycle = "OPEN" /\ UNCHANGED lifecycle
    BY <1>2 DEF PlanEnterBatch, PlanExitBatch, PlanBatch, Writer, sessionVars
  <2>3. HandedOver(t, c)
    BY <2>1 DEF HandOverTo, HandedOver, DrainSteers
  <2> QED BY <2>2, <2>3 DEF RowStep
<1>3. ASSUME NEW x \in interactions, NEW c \in Continuations, ApprovePlanDraft(h, x, c)
      PROVE  RowStep
  <2>1. RunningTurns = {} /\ OpenPermission(x.ordinal) \in Permission
    BY <1>3, <1>o, FrozenTypes
       DEF ApprovePlanDraft, Answerable, OpenInteractionIsAnswerable
  <2>2. Started(c)
    BY <1>3, <2>1 DEF ApprovePlanDraft, Started, queueVars
  <2> QED BY <1>3, <2>2 DEF ApprovePlanDraft, RowStep, Writer, sessionVars
<1>4. ASSUME NEW x \in interactions, NEW c \in Continuations,
             NEW source \in Items \cup {None}, RevisePlanDraft(h, x, c, source)
      PROVE  RowStep
  <2>1. /\ RunningTurns = {}
        /\ PlanPermission(x.ordinal, x.revision + 1) \in Permission
    BY <1>4, <1>o, FrozenTypes
       DEF RevisePlanDraft, Answerable, OpenInteractionIsAnswerable
  <2>2. \/ UNCHANGED item
        \/ \E i \in Items : PendingNewTurn(i) /\ item' = SettleItems({i}, "CANCELLED")
    <3>1. CASE source = None
      BY <1>4, <3>1, SettleNothing, IdentitiesAssumption DEF RevisePlanDraft
    <3>2. CASE source # None
      BY <1>4, <3>2 DEF RevisePlanDraft
    <3> QED BY <3>1, <3>2
  <2>3. Started(c)
    BY <1>4, <2>1, <2>2 DEF RevisePlanDraft, Started
  <2> QED BY <1>4, <2>3 DEF RevisePlanDraft, RowStep, Writer, sessionVars
<1>5. CASE PrepareForcePlanExit(h)
  BY <1>5 DEF PrepareForcePlanExit, RowStep, ForceStopped, Writer, sessionVars, queueVars
<1>6. ASSUME \/ \E t \in Turns : PlanBatchResultsOnly(h, t) \/ PlanQuestionBatch(h, t)
             \/ \E x \in interactions : ResolvePlanQuestion(h, x) \/ CancelPlanDraft(h, x)
             \/ EnterPlanByUser(h) \/ CancelPlan(h) \/ ForceExitPlan(h)
      PROVE  RowStep
  BY <1>6, <1>k
     DEF PlanBatchResultsOnly, PlanQuestionBatch, ResolvePlanQuestion, CancelPlanDraft,
         EnterPlanByUser, CancelPlan, ForceExitPlan, queueVars
<1> QED BY <1>1, <1>2, <1>3, <1>4, <1>5, <1>6, PlanNext(h) DEF PlanNext

(* Every transaction has one of these effects. *)
LEMMA EveryRowStep == ASSUME SlotInv, [Next]_vars PROVE RowStep
<1>k. ASSUME UNCHANGED <<turn, item>>, lifecycle' = "DELETED" <=> lifecycle = "DELETED"
      PROVE  RowStep
  BY <1>k DEF RowStep, Kept
<1>1. CASE LifecycleNext
  <2>1. ASSUME NEW h \in Hosts, AcquireHostWriter(h) PROVE RowStep
    BY <2>1 DEF AcquireHostWriter, RowStep, TakenOver
  <2>2. ASSUME NEW c, DeleteSession(c) PROVE RowStep
    BY <2>2 DEF DeleteSession, RowStep, Deleted
  <2>3. ASSUME NEW h, HostStops(h) PROVE RowStep
    BY <2>3, <1>k DEF HostStops, sessionVars, queueVars
  <2>4. ASSUME NEW h, ReleaseHostWriter(h) PROVE RowStep
    BY <2>4, <1>k DEF ReleaseHostWriter, queueVars
  <2>5. ASSUME NEW c, ArchiveSession(c) PROVE RowStep
    BY <2>5, <1>k DEF ArchiveSession, queueVars
  <2>6. CASE LeaseExpires
    BY <2>6, <1>k DEF LeaseExpires, queueVars
  <2>7. CASE UnarchiveSession
    BY <2>7, <1>k DEF UnarchiveSession, queueVars
  <2> QED BY <1>1, <2>1, <2>2, <2>3, <2>4, <2>5, <2>6, <2>7 DEF LifecycleNext
<1>2. ASSUME NEW h \in Hosts, QueueNext(h) PROVE RowStep
  BY <1>2, QueueRowStep DEF SlotInv
<1>3. ASSUME NEW h \in Hosts, RunnerNext(h) PROVE RowStep
  BY <1>3, RunnerRowStep DEF SlotInv
<1>4. ASSUME NEW h \in Hosts, PlanNext(h) PROVE RowStep
  BY <1>4, PlanRowStep
<1>5. CASE UNCHANGED vars
  BY <1>5, <1>k DEF vars, sessionVars, queueVars
<1> QED BY <1>1, <1>2, <1>3, <1>4, <1>5 DEF Next

-----------------------------------------------------------------------------
(* Terminal rows are final                                                  *)

(* What a step may do to one turn: start it, end it, or leave it alone. *)
TurnMoves(t) ==
    \/ turn'[t] = turn[t]
    \/ /\ turn[t].status = "ABSENT"
       /\ turn'[t].status = "RUNNING"
       /\ turn'[t].handoff # 0 =>
              \/ turn'[t].handoff = EligibleHandoff
              \/ t \in Items /\ turn'[t].handoff = item[t].handoff
    \/ /\ turn[t].status = "RUNNING"
       /\ turn'[t].status \in {"COMPLETED", "INTERRUPTED"}
       /\ turn'[t].handoff = turn[t].handoff

(* What a step may do to one item: insert it, settle it while it is PENDING, *)
(* or leave it alone.                                                        *)
ItemMoves(i) ==
    \/ item'[i] = item[i]
    \/ item[i].status = "ABSENT" /\ NewRow(i)
    \/ /\ Pending(i)
       /\ item'[i].status \in {"CONSUMED", "CANCELLED", "REJECTED"}
       /\ item'[i].mode = item[i].mode
       /\ item'[i].target = item[i].target
       /\ item'[i].handoff = item[i].handoff

(* Settling PENDING items moves each of them or leaves it alone. *)
LEMMA SettleMoves ==
    ASSUME TypeOK, NEW S, NEW status \in {"CONSUMED", "CANCELLED", "REJECTED"},
           item' = SettleItems(S, status), \A i \in S \cap Items : Pending(i)
    PROVE  \A i \in Items : ItemMoves(i)
<1> SUFFICES ASSUME NEW i \in Items PROVE ItemMoves(i)
  OBVIOUS
<1>1. CASE i \in S
  BY <1>1, SettledRows DEF ItemMoves
<1>2. CASE i \notin S
  BY <1>2, SettledRows DEF ItemMoves
<1> QED BY <1>1, <1>2

(* Interrupting turns moves each of them or leaves it alone. *)
LEMMA InterruptMoves ==
    ASSUME TypeOK, NEW T, NEW reason, turn' = InterruptTurns(T, reason)
    PROVE  \A t \in Turns : TurnMoves(t)
BY DEF TypeOK, InterruptTurns, RunningTurns, TurnRow, TurnMoves

(* The handoff of a delivered item is none, its own or the eligible one. *)
LEMMA DeliveredHandoff ==
    ASSUME NEW i \in Items
    PROVE  DeliveryHandoff(i) \in {0, item[i].handoff, EligibleHandoff}
BY DEF DeliveryHandoff

(* Every step but a deletion moves each row this way. *)
LEMMA RowsMove ==
    ASSUME TypeOK, RowStep
    PROVE  \/ Deleted
           \/ /\ \A t \in Turns : TurnMoves(t)
              /\ \A i \in Items : ItemMoves(i)
<1> DEFINE Goal == /\ \A t \in Turns : TurnMoves(t)
                   /\ \A i \in Items : ItemMoves(i)
<1> SUFFICES Deleted \/ Goal
  OBVIOUS
<1>t. ASSUME UNCHANGED turn PROVE \A t \in Turns : TurnMoves(t)
  BY <1>t DEF TurnMoves
<1>i. ASSUME UNCHANGED item PROVE \A i \in Items : ItemMoves(i)
  BY <1>i DEF ItemMoves
<1>s. \A T : \A i \in PendingSteers(T) : Pending(i)
  BY DEF PendingSteers
<1>c. turn \in [Turns -> TurnRow]
  BY DEF TypeOK
<1>1. CASE Kept
  BY <1>1, <1>t, <1>i DEF Kept
<1>2. ASSUME NEW i \in Items, Inserted(i) PROVE Goal
  BY <1>2, <1>t DEF Inserted, ItemMoves
<1>3. ASSUME NEW i \in Items, Settled(i) PROVE Goal
  <2>1. \E status \in {"CONSUMED", "CANCELLED", "REJECTED"} : item' = SettleItems({i}, status)
    BY <1>3 DEF Settled
  <2> QED BY <1>3, <2>1, <1>t, SettleMoves DEF Settled
<1>4. ASSUME NEW i \in Items, RejectedScheduled(i) PROVE Goal
  BY <1>4, <1>t, <1>s, SettleMoves DEF RejectedScheduled, PendingNewTurn
<1>5. ASSUME NEW i \in Items, StartedFromQueue(i) PROVE Goal
  <2>1. i \in Turns
    BY DEF Turns
  <2>2. \A t \in Turns : TurnMoves(t)
    BY <1>5, <1>c, <2>1, DeliveredHandoff DEF StartedFromQueue, TurnMoves, NewTurn
  <2>3. \A j \in Items : ItemMoves(j)
    <3>1. \A j \in Items, s \in {"CONSUMED", "REJECTED"} :
             LET row == [item[j] EXCEPT !.status = s]
             IN  row.status = s /\ row.mode = item[j].mode
                 /\ row.target = item[j].target /\ row.handoff = item[j].handoff
      BY DEF TypeOK, ItemRow
    <3>2. Pending(i)
      BY <1>5 DEF StartedFromQueue, IsHead, PendingNewTurn
    <3>3. ItemMoves(i)
      BY <1>5, <3>1, <3>2 DEF StartedFromQueue, ItemMoves
    <3>4. ASSUME NEW j \in Items, j # i PROVE ItemMoves(j)
      BY <1>5, <1>s, <3>1, <3>4 DEF StartedFromQueue, ItemMoves
    <3> QED BY <3>3, <3>4
  <2> QED BY <2>2, <2>3
<1>6. ASSUME NEW i \in Items, NEW j \in Items, Redirected(i, j) PROVE Goal
  <2>1. i # j
    BY <1>6 DEF Redirected, PendingNewTurn, Pending
  <2>2. ItemMoves(i)
    BY <1>6 DEF Redirected, ItemMoves, PendingNewTurn, TypeOK, ItemRow
  <2>3. \A k \in Items : k # i => ItemMoves(k)
    BY <1>6, <2>1 DEF Redirected, ItemMoves
  <2> QED BY <1>6, <1>t, <2>2, <2>3 DEF Redirected
<1>7. ASSUME NEW c \in Commands \cup Continuations, Started(c) PROVE Goal
  <2>1. \A t \in Turns : TurnMoves(t)
    BY <1>7, <1>c DEF Started, TurnMoves, NewTurn, Turns
  <2>2. ASSUME NEW i \in Items, PendingNewTurn(i), item' = SettleItems({i}, "CANCELLED")
        PROVE  \A j \in Items : ItemMoves(j)
    BY <2>2, SettleMoves DEF PendingNewTurn
  <2>3. \A i \in Items : ItemMoves(i)
    BY <1>7, <1>i, <2>2 DEF Started
  <2> QED BY <2>1, <2>3
<1>8. ASSUME NEW t \in RunningTurns, Interrupted(t) PROVE Goal
  BY <1>8, <1>s, InterruptMoves, SettleMoves DEF Interrupted, RejectTerminalSteers
<1>9. ASSUME NEW t \in RunningTurns, Finished(t) PROVE Goal
  <2>1. \A s \in Turns : TurnMoves(s)
    BY <1>9, <1>c DEF Finished, TurnMoves, Completed, RunningTurns, TurnRow
  <2> QED BY <1>9, <1>s, <2>1, SettleMoves DEF Finished
<1>10. ASSUME NEW t \in RunningTurns, NEW c \in Continuations, HandedOver(t, c) PROVE Goal
  <2>1. t # c
    BY <1>10 DEF HandedOver, RunningTurns
  <2>2. PICK perm \in Permission :
           turn' = [turn EXCEPT ![t] = Completed(turn[t]), ![c] = NewTurn(perm, 0)]
    BY <1>10 DEF HandedOver
  <2>3. turn[c].status = "ABSENT" /\ turn[t].status = "RUNNING" /\ t \in Turns /\ c \in Turns
    BY <1>10 DEF HandedOver, RunningTurns, Turns
  <2>4. TurnMoves(t)
    BY <1>c, <2>1, <2>2, <2>3 DEF TurnMoves, Completed, TurnRow
  <2>5. TurnMoves(c)
    BY <1>c, <2>1, <2>2, <2>3 DEF TurnMoves, NewTurn
  <2>6. \A s \in Turns : s # t /\ s # c => TurnMoves(s)
    BY <1>c, <2>2 DEF TurnMoves
  <2> QED BY <1>10, <1>s, <2>4, <2>5, <2>6, SettleMoves DEF HandedOver
<1>11. CASE Swept
  BY <1>11, <1>t, <1>s, SettleMoves DEF Swept, RejectTerminalSteers
<1>12. CASE TakenOver
  BY <1>12, <1>s, InterruptMoves, SettleMoves DEF TakenOver
<1>13. CASE ForceStopped
  BY <1>13, <1>i, InterruptMoves DEF ForceStopped
<1> QED BY <1>1, <1>2, <1>3, <1>4, <1>5, <1>6, <1>7, <1>8, <1>9, <1>10, <1>11,
           <1>12, <1>13 DEF RowStep

(* Until the session is deleted no transaction touches a terminal turn or a *)
(* settled queue item: a late commit, steer, cancellation or takeover finds *)
(* its row refused.                                                         *)
THEOREM TerminalRowsStay == Spec => TerminalRowsAreFinal
<1> DEFINE Final ==
      \/ lifecycle' = "DELETED"
      \/ /\ \A t \in Turns :
               turn[t].status \in {"COMPLETED", "INTERRUPTED"} => turn'[t] = turn[t]
         /\ \A i \in Items :
               item[i].status \notin {"ABSENT", "PENDING"} => item'[i] = item[i]
<1>1. SlotInv /\ [Next]_vars => [Final]_vars
  <2> SUFFICES ASSUME SlotInv, [Next]_vars PROVE Final
    OBVIOUS
  <2>1. RowStep /\ TypeOK
    BY EveryRowStep DEF SlotInv
  <2> QED BY <2>1, RowsMove DEF Deleted, TurnMoves, ItemMoves, Pending
<1> QED BY <1>1, SlotInvariant, PTL DEF Spec, TerminalRowsAreFinal

-----------------------------------------------------------------------------
(* Delivery order                                                           *)

(* An item is consumed as the head of its lane, or with all of its lane. *)
LEMMA ConsumedInOrder ==
    ASSUME TypeOK, RowStep, NEW i \in Items, Pending(i), item'[i].status = "CONSUMED"
    PROVE  \/ IsHead(i)
           \/ \E t \in Turns : IsLaneHead(i, t)
           \/ \E t \in Turns : /\ i \in PendingSteers({t})
                              /\ item' = SettleItems(PendingSteers({t}), "CONSUMED")
<1> DEFINE Goal == \/ IsHead(i)
                   \/ \E t \in Turns : IsLaneHead(i, t)
                   \/ \E t \in Turns : /\ i \in PendingSteers({t})
                                      /\ item' = SettleItems(PendingSteers({t}), "CONSUMED")
<1> SUFFICES Goal
  OBVIOUS
<1>p. item[i].status = "PENDING" /\ item'[i] # item[i]
  BY DEF Pending
<1>n. \A S, status : item' = SettleItems(S, status) => i \in S /\ status = "CONSUMED"
  <2> SUFFICES ASSUME NEW S, NEW status, item' = SettleItems(S, status)
               PROVE  i \in S /\ status = "CONSUMED"
    OBVIOUS
  <2>1. CASE i \in S
    BY <1>p, <2>1, SettledRows
  <2>2. CASE i \notin S
    BY <1>p, <2>2, SettledRows
  <2> QED BY <2>1, <2>2
<1>1. CASE Deleted \/ Kept
  BY <1>1, <1>p DEF Deleted, Kept, AbsentItem
<1>2. ASSUME NEW k \in Items, Inserted(k) PROVE Goal
  BY <1>2, <1>p DEF Inserted, NewRow
<1>3. ASSUME NEW k \in Items, Settled(k) PROVE Goal
  <2>1. item' = SettleItems({k}, "CONSUMED") /\ k = i
    BY <1>3, <1>n DEF Settled
  <2>2. ~(item' = SettleItems({k}, "CANCELLED")) /\ ~(item' = SettleItems({k}, "REJECTED"))
    BY <1>n
  <2> QED BY <1>3, <2>1, <2>2 DEF Settled, IsLaneHead, PendingSteers, TypeOK, ItemRow
<1>4. ASSUME NEW k \in Items, RejectedScheduled(k) PROVE Goal
  BY <1>4, <1>n DEF RejectedScheduled
<1>5. ASSUME NEW k \in Items, StartedFromQueue(k) PROVE Goal
  <2>1. \A j \in Items : [item[j] EXCEPT !.status = "REJECTED"].status = "REJECTED"
    BY DEF TypeOK, ItemRow
  <2>2. CASE k = i
    BY <1>5, <2>2 DEF StartedFromQueue
  <2>3. CASE k # i
    <3>1. item'[i] = [item[i] EXCEPT !.status = "REJECTED"] \/ item'[i] = item[i]
      BY <1>5, <2>3 DEF StartedFromQueue
    <3> QED BY <1>p, <2>1, <3>1
  <2> QED BY <2>2, <2>3
<1>6. ASSUME NEW k \in Items, NEW j \in Items, Redirected(k, j) PROVE Goal
  <2>1. item'[k].status = "CANCELLED"
    BY <1>6 DEF Redirected, TypeOK, ItemRow
  <2>2. item'[j].status = "PENDING"
    BY <1>6 DEF Redirected, NewRow
  <2>3. i # k /\ i # j
    BY <2>1, <2>2
  <2> QED BY <1>6, <1>p, <2>3 DEF Redirected
<1>7. ASSUME NEW c, Started(c) PROVE Goal
  <2>1. \A k \in Items : ~(item' = SettleItems({k}, "CANCELLED"))
    BY <1>n
  <2> QED BY <1>7, <1>p, <2>1 DEF Started
<1>8. CASE \/ Swept
           \/ TakenOver
           \/ ForceStopped
           \/ \E t \in RunningTurns : Interrupted(t)
  <2>1. \A S : ~(item' = SettleItems(S, "REJECTED"))
    BY <1>n
  <2> QED BY <1>8, <1>p, <2>1
          DEF Swept, TakenOver, ForceStopped, Interrupted, RejectTerminalSteers
<1>9. ASSUME NEW t \in RunningTurns, item' = SettleItems(PendingSteers({t}), "CONSUMED")
      PROVE  Goal
  BY <1>9, <1>n DEF RunningTurns
<1> QED BY <1>1, <1>2, <1>3, <1>4, <1>5, <1>6, <1>7, <1>8, <1>9
        DEF RowStep, Finished, HandedOver

(* Draining a lane consumes every steer in it. *)
LEMMA LaneIsDrained ==
    ASSUME TypeOK, NEW t, item' = SettleItems(PendingSteers({t}), "CONSUMED"),
           NEW j \in Items, j \in PendingSteers({t})
    PROVE  item'[j].status = "CONSUMED"
BY SettledRows

(* consume_prepared_prompt_head and consume_prepared_prompt_steer take the   *)
(* head of their lane, and a Plan batch drains a steer lane as a whole: no   *)
(* accepted item is overtaken in its lane.                                   *)
THEOREM LanesAreFifo == Spec => DeliveryIsFifo
<1> DEFINE Fifo ==
      \A i, j \in Items :
          /\ Pending(i) /\ item'[i].status = "CONSUMED"
          /\ Pending(j) /\ item[j].mode = item[i].mode
          /\ item[j].target = item[i].target /\ item[j].seq < item[i].seq
          => item'[j].status # "PENDING"
<1>1. SlotInv /\ [Next]_vars => [Fifo]_vars
  <2> SUFFICES ASSUME SlotInv, [Next]_vars,
                      NEW i \in Items, NEW j \in Items,
                      Pending(i), item'[i].status = "CONSUMED",
                      Pending(j), item[j].mode = item[i].mode,
                      item[j].target = item[i].target, item[j].seq < item[i].seq
               PROVE  item'[j].status # "PENDING"
    OBVIOUS
  <2>1. RowStep /\ TypeOK
    BY EveryRowStep DEF SlotInv
  <2>2. item[i].seq \in Nat /\ item[j].seq \in Nat
    BY <2>1 DEF TypeOK, ItemRow
  <2>3. ~(item[i].seq <= item[j].seq)
    BY <2>2
  <2>4. ~IsHead(i)
    BY <2>3 DEF IsHead, PendingNewTurn
  <2>5. \A t \in Turns : i \in PendingSteers({t}) => j \in PendingSteers({t})
    BY DEF PendingSteers
  <2>6. \A t \in Turns : ~IsLaneHead(i, t)
    BY <2>3, <2>5 DEF IsLaneHead
  <2>7. PICK t \in Turns : /\ i \in PendingSteers({t})
                          /\ item' = SettleItems(PendingSteers({t}), "CONSUMED")
    BY <2>1, <2>4, <2>6, ConsumedInOrder
  <2>8. j \in PendingSteers({t})
    BY <2>5, <2>7
  <2>9. item'[j].status = "CONSUMED"
    BY <2>1, <2>7, <2>8, LaneIsDrained
  <2> QED BY <2>9
<1> QED BY <1>1, SlotInvariant, PTL DEF Spec, DeliveryIsFifo

-----------------------------------------------------------------------------
(* Steers                                                                   *)

(* A steer and its target turn move together, which is what makes SteerInv  *)
(* inductive: it is PENDING while the target runs, or after phase one of a   *)
(* forced Plan exit has stopped it; REJECTED when the target was             *)
(* interrupted; and for a completed target it was consumed or withdrawn.     *)
SteerOfTarget(row, target) ==
    \/ row.status \in {"CONSUMED", "CANCELLED"}
    \/ row.status = "REJECTED" /\ target.status = "INTERRUPTED"
    \/ row.status = "PENDING" /\ target.status = "RUNNING"
    \/ /\ row.status = "PENDING"
       /\ target.status = "INTERRUPTED"
       /\ target.reason = "PLAN_FORCE_EXIT"

IsSteer(i) == item[i].mode = "STEER_ACTIVE_TURN"

SteerRows ==
    \A i \in Items : IsSteer(i) =>
        item[i].target \in Turns /\ SteerOfTarget(item[i], turn[item[i].target])

(* The rows tell what SteerInv says. *)
LEMMA SteerRowsTell == ASSUME TypeOK, SteerRows PROVE SteerInv
<1>1. CompletedTurnTookItsSteers
  BY DEF SteerRows, CompletedTurnTookItsSteers, SteerOfTarget, IsSteer
<1>2. PendingSteerHasLiveTarget
  BY DEF SteerRows, PendingSteerHasLiveTarget, SteerOfTarget, PendingSteers, Pending,
         IsSteer, RunningTurns
<1> QED BY <1>1, <1>2 DEF SteerInv

(* A step that leaves a steer alone, and ends no turn but by interrupting   *)
(* it for a forced exit, or starts one, keeps the steer with its target.    *)
LEMMA SteerFrame ==
    ASSUME SteerRows, NEW i \in Items, IsSteer(i), item'[i] = item[i],
           LET t == item[i].target IN
               \/ turn'[t] = turn[t]
               \/ turn[t].status = "ABSENT"
               \/ turn'[t].status = "INTERRUPTED" /\ turn'[t].reason = "PLAN_FORCE_EXIT"
               \/ ~Pending(i) /\ turn'[t].status = "INTERRUPTED"
               \/ ~Pending(i) /\ turn[t].status = "RUNNING"
    PROVE  IsSteer(i)' /\ item'[i].target \in Turns
           /\ SteerOfTarget(item'[i], turn'[item'[i].target])
BY DEF SteerRows, SteerOfTarget, IsSteer, Pending

(* A step keeps every steer with its target. *)
LEMMA SteerRowsStep ==
    ASSUME TypeOK, SteerRows, RowStep PROVE SteerRows'
<1> DEFINE Keeps(i) == IsSteer(i)' => /\ item'[i].target \in Turns
                                      /\ SteerOfTarget(item'[i], turn'[item'[i].target])
<1> SUFFICES \A i \in Items : Keeps(i)
  BY DEF SteerRows, IsSteer
<1> USE DEF IsSteer
<1>f. ASSUME NEW i \in Items, item'[i] = item[i], UNCHANGED turn PROVE Keeps(i)
  BY <1>f, SteerFrame
<1>s. ASSUME NEW i \in Items, Pending(i), NEW status, status \in {"CONSUMED", "CANCELLED"},
             item'[i].status = status, item'[i].mode = item[i].mode,
             item'[i].target = item[i].target
      PROVE  Keeps(i)
  BY <1>s DEF SteerRows, SteerOfTarget
<1>r. ASSUME NEW i \in Items, item[i].mode = "STEER_ACTIVE_TURN", item'[i].status = "REJECTED", 
             item'[i].mode = item[i].mode, item'[i].target = item[i].target,
             turn'[item[i].target].status = "INTERRUPTED"
      PROVE  Keeps(i)
  BY <1>r DEF SteerRows, SteerOfTarget
<1>n. ASSUME NEW i \in Items, NewRow(i), UNCHANGED turn PROVE Keeps(i)
  BY <1>n DEF NewRow, SteerOfTarget, RunningTurns
<1>c. turn \in [Turns -> TurnRow]
  BY DEF TypeOK
<1>1. ASSUME Deleted PROVE \A i \in Items : Keeps(i)
  BY <1>1 DEF Deleted, AbsentItem
<1>2. ASSUME Kept PROVE \A i \in Items : Keeps(i)
  BY <1>2, <1>f DEF Kept
<1>3. ASSUME NEW k \in Items, Inserted(k) PROVE \A i \in Items : Keeps(i)
  BY <1>3, <1>f, <1>n DEF Inserted
<1>p. ASSUME NEW i \in Items, Pending(i), IsSteer(i)
      PROVE  /\ item[i].target \in Turns
             /\ turn[item[i].target].status \in {"RUNNING", "INTERRUPTED"}
  BY <1>p DEF SteerRows, SteerOfTarget, Pending
<1>4. ASSUME NEW k \in Items, Settled(k) PROVE \A i \in Items : Keeps(i)
  <2>1. UNCHANGED turn /\ Pending(k)
    BY <1>4 DEF Settled
  <2>2. ASSUME NEW status \in {"CONSUMED", "CANCELLED"}, item' = SettleItems({k}, status)
        PROVE  \A i \in Items : Keeps(i)
    <3>1. /\ \A i \in Items : i # k => item'[i] = item[i]
          /\ item'[k].status = status
          /\ item'[k].mode = item[k].mode
          /\ item'[k].target = item[k].target
      BY <2>2, SettledRows
    <3>2. Keeps(k)
      BY <2>1, <3>1, <1>s
    <3>3. \A i \in Items : i # k => Keeps(i)
      BY <2>1, <3>1, <1>f
    <3> QED BY <3>2, <3>3
  <2>3. ASSUME item' = SettleItems({k}, "REJECTED"), item[k].mode = "NEW_TURN"
        PROVE  \A i \in Items : Keeps(i)
    <3> \A i \in Items : i # k => item'[i] = item[i]
      BY <2>3, SettledRows
    <3>1. \A i \in Items : i # k => Keeps(i)
      BY <2>1, <1>f
    <3>2. item'[k].mode = "NEW_TURN"
      BY <2>3, SettledRows
    <3> QED BY <3>1, <3>2
  <2> QED BY <1>4, <2>2, <2>3 DEF Settled
<1>5. ASSUME NEW S, item' = SettleItems(S, "REJECTED"),
             \A i \in Items : IsSteer(i) =>
                 IF i \in S THEN turn'[item[i].target].status = "INTERRUPTED"
                 ELSE LET t == item[i].target IN
                         \/ turn'[t] = turn[t]
                         \/ turn[t].status = "ABSENT"
                         \/ /\ turn'[t].status = "INTERRUPTED"
                            /\ turn'[t].reason = "PLAN_FORCE_EXIT" \/ ~Pending(i)
      PROVE  \A i \in Items : Keeps(i)
  <2> SUFFICES ASSUME NEW i \in Items PROVE Keeps(i)
    OBVIOUS
  <2>1. CASE ~IsSteer(i)
    <3>1. item'[i].mode = item[i].mode
      BY <1>5, SettledRows
    <3> QED BY <2>1, <3>1
  <2>2. CASE IsSteer(i) /\ i \in S
    BY <1>5, <2>2, <1>r, SettledRows
  <2>3. CASE IsSteer(i) /\ i \notin S
    BY <1>5, <2>3, SettledRows, SteerFrame
  <2> QED BY <2>1, <2>2, <2>3
<1>6. ASSUME NEW k \in Items, RejectedScheduled(k) PROVE \A i \in Items : Keeps(i)
  <2>1. \A i \in Items : Pending(i) /\ IsSteer(i) =>
           turn[item[i].target].status = "INTERRUPTED"
    BY <1>6, <1>p DEF RejectedScheduled, RunningTurns
  <2> QED BY <1>6, <1>5, <2>1 DEF RejectedScheduled, PendingSteers, PendingNewTurn
<1>7. ASSUME NEW k \in Items, StartedFromQueue(k) PROVE \A i \in Items : Keeps(i)
  <2>1. \A t \in Turns : turn'[t] = turn[t] \/ turn[t].status = "ABSENT"
    BY <1>7, <1>c DEF StartedFromQueue
  <2>2. \A i \in Items : LET row == [item[i] EXCEPT !.status = "REJECTED"]
                       IN  row.status = "REJECTED" /\ row.mode = item[i].mode
                           /\ row.target = item[i].target
    BY DEF TypeOK, ItemRow
  <2>3. [item[k] EXCEPT !.status = "CONSUMED"].mode = "NEW_TURN"
    BY <1>7 DEF TypeOK, ItemRow, StartedFromQueue, IsHead, PendingNewTurn
  <2> SUFFICES ASSUME NEW i \in Items PROVE Keeps(i)
    OBVIOUS
  <2>4. CASE i = k
    BY <1>7, <2>3, <2>4 DEF StartedFromQueue
  <2>5. CASE i # k /\ i \in PendingSteers(Turns)
    <3>1. turn'[item[i].target].status = "INTERRUPTED"
      BY <1>7, <2>1, <2>5, <1>p DEF StartedFromQueue, RunningTurns, PendingSteers
    <3>2. item'[i] = [item[i] EXCEPT !.status = "REJECTED"]
      BY <1>7, <2>5 DEF StartedFromQueue
    <3> QED BY <2>2, <2>5, <3>1, <3>2, <1>r DEF PendingSteers
  <2>6. CASE i # k /\ i \notin PendingSteers(Turns)
    <3>1. item'[i] = item[i]
      BY <1>7, <2>6 DEF StartedFromQueue
    <3>2. IsSteer(i) => item[i].target \in Turns
      BY DEF SteerRows
    <3> QED BY <2>1, <3>1, <3>2, SteerFrame
  <2> QED BY <2>4, <2>5, <2>6
<1>8. ASSUME NEW k \in Items, NEW j \in Items, Redirected(k, j)
      PROVE  \A i \in Items : Keeps(i)
  <2>1. [item[k] EXCEPT !.status = "CANCELLED"].mode = "NEW_TURN"
    BY <1>8 DEF TypeOK, ItemRow, Redirected, PendingNewTurn
  <2>2. Keeps(k) /\ Keeps(j)
    BY <1>8, <2>1, <1>n DEF Redirected
  <2>3. \A i \in Items : i # k /\ i # j => Keeps(i)
    BY <1>8, <1>f DEF Redirected
  <2> QED BY <2>2, <2>3
<1>9. ASSUME NEW c \in Commands \cup Continuations, Started(c)
      PROVE  \A i \in Items : Keeps(i)
  <2>1. \A t \in Turns : turn'[t] = turn[t] \/ turn[t].status = "ABSENT"
    BY <1>9, <1>c DEF Started
  <2>2. ASSUME NEW i \in Items, item'[i] = item[i] PROVE Keeps(i)
    <3>1. IsSteer(i) => item[i].target \in Turns
      BY DEF SteerRows
    <3> QED BY <2>1, <2>2, <3>1, SteerFrame
  <2>3. ASSUME NEW k \in Items, PendingNewTurn(k), item' = SettleItems({k}, "CANCELLED")
        PROVE  \A i \in Items : Keeps(i)
    <3>1. /\ \A i \in Items : i # k => item'[i] = item[i]
          /\ item'[k].mode = "NEW_TURN"
      BY <2>3, SettledRows DEF PendingNewTurn
    <3>2. \A i \in Items : i # k => Keeps(i)
      BY <2>2, <3>1
    <3> QED BY <3>1, <3>2
  <2> QED BY <1>9, <2>2, <2>3 DEF Started
<1>10. ASSUME NEW t \in RunningTurns, Interrupted(t) PROVE \A i \in Items : Keeps(i)
  <2>1. \A s \in Turns : IF s = t THEN turn'[s].status = "INTERRUPTED"
                                 ELSE turn'[s] = turn[s]
    BY <1>10, InterruptedRows DEF Interrupted
  <2>2. t \in Turns /\ \A s \in Turns : s \in RunningTurns <=> turn[s].status = "RUNNING"
    BY DEF RunningTurns
  <2>3. \A i \in Items : IsSteer(i) => item[i].target \in Turns
    BY DEF SteerRows
  <2>4. \A i \in Items : i \in PendingSteers(Turns \ (RunningTurns \ {t})) <=>
           /\ Pending(i) /\ IsSteer(i) /\ item[i].target \in Turns
           /\ item[i].target \notin RunningTurns \/ item[i].target = t
    BY <2>2 DEF PendingSteers
  <2>5. \A i \in Items : i \in PendingSteers(Turns \ (RunningTurns \ {t})) =>
           turn'[item[i].target].status = "INTERRUPTED"
    BY <2>1, <2>2, <2>4, <1>p
  <2>6. \A i \in Items : IsSteer(i) /\ i \notin PendingSteers(Turns \ (RunningTurns \ {t})) =>
           \/ turn'[item[i].target] = turn[item[i].target]
           \/ turn'[item[i].target].status = "INTERRUPTED" /\ ~Pending(i)
    BY <2>1, <2>3, <2>4
  <2> QED BY <1>10, <1>5, <2>5, <2>6 DEF Interrupted, RejectTerminalSteers
<1>11. ASSUME NEW t \in RunningTurns, item' = SettleItems(PendingSteers({t}), "CONSUMED"),
              \A s \in Turns : s # t => turn'[s] = turn[s] \/ turn[s].status = "ABSENT"
       PROVE  \A i \in Items : Keeps(i)
  <2> SUFFICES ASSUME NEW i \in Items PROVE Keeps(i)
    OBVIOUS
  <2>1. CASE i \in PendingSteers({t})
    BY <1>11, <2>1, <1>s, SettledRows DEF PendingSteers
  <2>2. CASE i \notin PendingSteers({t})
    <3>1. item'[i] = item[i]
      BY <1>11, <2>2, SettledRows
    <3>2. IsSteer(i) => item[i].target \in Turns
      BY DEF SteerRows
    <3>3. IsSteer(i) /\ item[i].target = t => ~Pending(i) /\ turn[t].status = "RUNNING"
      BY <2>2 DEF PendingSteers, RunningTurns
    <3> QED BY <1>11, <3>1, <3>2, <3>3, SteerFrame
  <2> QED BY <2>1, <2>2
<1>12. ASSUME NEW t \in RunningTurns, Finished(t) PROVE \A i \in Items : Keeps(i)
  <2>1. \A s \in Turns : s # t => turn'[s] = turn[s]
    BY <1>12, <1>c DEF Finished
  <2> QED BY <1>12, <2>1, <1>11 DEF Finished
<1>13. ASSUME NEW t \in RunningTurns, NEW c \in Continuations, HandedOver(t, c)
       PROVE  \A i \in Items : Keeps(i)
  <2>1. \A s \in Turns : s # t => turn'[s] = turn[s] \/ turn[s].status = "ABSENT"
    BY <1>13, <1>c DEF HandedOver
  <2> QED BY <1>13, <2>1, <1>11 DEF HandedOver
<1>14. ASSUME Swept PROVE \A i \in Items : Keeps(i)
  <2>1. \A i \in Items : i \in PendingSteers(Turns \ RunningTurns) =>
           turn'[item[i].target].status = "INTERRUPTED"
    BY <1>14, <1>p DEF Swept, PendingSteers, RunningTurns
  <2> QED BY <1>14, <1>5, <2>1 DEF Swept, RejectTerminalSteers
<1>15. ASSUME TakenOver PROVE \A i \in Items : Keeps(i)
  <2>1. \A s \in Turns : IF s \in RunningTurns THEN turn'[s].status = "INTERRUPTED"
                                            ELSE turn'[s] = turn[s]
    BY <1>15, InterruptedRows DEF TakenOver
  <2>2. \A i \in Items : i \in PendingSteers(RunningTurns) =>
           turn'[item[i].target].status = "INTERRUPTED"
    BY <2>1 DEF PendingSteers, RunningTurns
  <2>3. \A i \in Items : IsSteer(i) => item[i].target \in Turns
    BY DEF SteerRows
  <2>4. \A i \in Items : IsSteer(i) /\ i \notin PendingSteers(RunningTurns) =>
           \/ turn'[item[i].target] = turn[item[i].target]
           \/ turn'[item[i].target].status = "INTERRUPTED" /\ ~Pending(i)
    BY <2>1, <2>3 DEF PendingSteers
  <2> QED BY <1>15, <1>5, <2>2, <2>4 DEF TakenOver
<1>16. ASSUME ForceStopped PROVE \A i \in Items : Keeps(i)
  <2>1. \A s \in Turns :
           \/ turn'[s] = turn[s]
           \/ turn'[s].status = "INTERRUPTED" /\ turn'[s].reason = "PLAN_FORCE_EXIT"
    BY <1>16 DEF ForceStopped, InterruptTurns, TypeOK, TurnRow
  <2>2. \A i \in Items : IsSteer(i) => item[i].target \in Turns
    BY DEF SteerRows
  <2> QED BY <1>16, <2>1, <2>2, SteerFrame DEF ForceStopped
<1> QED BY <1>1, <1>2, <1>3, <1>4, <1>6, <1>7, <1>8, <1>9, <1>10, <1>12, <1>13, <1>14,
           <1>15, <1>16 DEF RowStep

(* A steer accepted for a turn is delivered to it or withdrawn by the user   *)
(* before the turn completes, and only a forced Plan exit leaves one PENDING *)
(* behind an interrupted turn.                                               *)
THEOREM SteersAreNeverOvertaken == Spec => []SteerInv
<1> DEFINE Inv == SlotInv /\ SteerRows
<1>1. Init => SteerRows
  BY DEF Init, SteerRows, IsSteer, AbsentItem
<1>2. Inv /\ [Next]_vars => SteerRows'
  BY EveryRowStep, SteerRowsStep DEF SlotInv
<1>3. SlotInv /\ SteerRows => SteerInv
  BY SteerRowsTell DEF SlotInv
<1> QED BY <1>1, <1>2, <1>3, SlotInvariant, PTL DEF Spec

-----------------------------------------------------------------------------
(* The handoff of a Plan                                                    *)

(* No two turns and no two items carry the same handoff, and a turn that     *)
(* carries the handoff of an item is the turn of that item: a scheduled item *)
(* reserves the handoff at its enqueue and passes it on when it is delivered.*)
HandoffInv ==
    /\ HandoffDeliveredOnce
    /\ \A i, j \in Items : item[i].handoff = item[j].handoff /\ item[i].handoff # 0 => i = j
    /\ \A i \in Items, t \in Turns :
          item[i].handoff = turn[t].handoff /\ item[i].handoff # 0 => i = t

(* The eligible handoff is carried by nobody. *)
LEMMA EligibleIsFree ==
    ASSUME EligibleHandoff # 0
    PROVE  /\ \A t \in Turns : turn[t].handoff # EligibleHandoff
           /\ \A i \in Items : item[i].handoff # EligibleHandoff
BY DEF EligibleHandoff

(* A step that starts at most one turn with a handoff of its own, and        *)
(* inserts at most one item, keeps the handoffs apart.                       *)
LEMMA HandoffFrame ==
    ASSUME HandoffInv,
           NEW c \in Turns, NEW k \in Items,
           \A t \in Turns : t # c => turn'[t].handoff \in {0, turn[t].handoff},
           \A i \in Items : i # k => item'[i].handoff = item[i].handoff,
           \/ /\ item'[k].handoff = item[k].handoff
              /\ \/ turn'[c].handoff \in {0, turn[c].handoff, EligibleHandoff}
                 \/ c \in Items /\ turn'[c].handoff = item[c].handoff
           \/ /\ turn'[c].handoff = turn[c].handoff
              /\ item'[k].handoff \in {0, EligibleHandoff}
    PROVE  HandoffInv'
<1>1. ASSUME NEW s \in Turns, NEW t \in Turns, s # t,
             turn'[s].handoff = turn'[t].handoff, turn'[s].handoff # 0
      PROVE  FALSE
  BY <1>1, EligibleIsFree DEF HandoffInv, HandoffDeliveredOnce
<1>2. ASSUME NEW i \in Items, NEW j \in Items, i # j,
             item'[i].handoff = item'[j].handoff, item'[i].handoff # 0
      PROVE  FALSE
  BY <1>2, EligibleIsFree DEF HandoffInv
<1>3. ASSUME NEW i \in Items, NEW t \in Turns, i # t,
             item'[i].handoff = turn'[t].handoff, item'[i].handoff # 0
      PROVE  FALSE
  BY <1>3, EligibleIsFree DEF HandoffInv
<1> QED BY <1>1, <1>2, <1>3 DEF HandoffInv, HandoffDeliveredOnce

(* Every step keeps the handoffs apart. *)
LEMMA HandoffStep == ASSUME TypeOK, HandoffInv, RowStep PROVE HandoffInv'
<1>t. ASSUME \A t \in Turns : turn'[t].handoff \in {0, turn[t].handoff},
             \A i \in Items : item'[i].handoff = item[i].handoff
      PROVE  HandoffInv'
  BY <1>t DEF HandoffInv, HandoffDeliveredOnce
<1>c. turn \in [Turns -> TurnRow]
  BY DEF TypeOK
<1>s. \A S, status : item' = SettleItems(S, status) =>
         \A i \in Items : item'[i].handoff = item[i].handoff
  BY DEF TypeOK, SettleItems, ItemRow
<1>r. \A T, reason : turn' = InterruptTurns(T, reason) =>
         \A t \in Turns : turn'[t].handoff = turn[t].handoff
  BY DEF TypeOK, InterruptTurns, TurnRow
<1>1. CASE Deleted
  BY <1>1 DEF Deleted, AbsentItem, AbsentTurn, HandoffInv, HandoffDeliveredOnce
<1>2. CASE Kept
  BY <1>2, <1>t DEF Kept
<1>3. ASSUME NEW k \in Items, Inserted(k) PROVE HandoffInv'
  <2>1. k \in Turns
    BY DEF Turns
  <2> QED BY <1>3, <2>1, HandoffFrame DEF Inserted, NewRow
<1>4. ASSUME NEW k \in Items, Settled(k) \/ RejectedScheduled(k) PROVE HandoffInv'
  BY <1>4, <1>s, <1>t DEF Settled, RejectedScheduled
<1>5. ASSUME NEW k \in Items, StartedFromQueue(k) PROVE HandoffInv'
  <2>1. k \in Turns
    BY DEF Turns
  <2>2. \A i \in Items : /\ [item[i] EXCEPT !.status = "REJECTED"].handoff = item[i].handoff
                        /\ [item[i] EXCEPT !.status = "CONSUMED"].handoff = item[i].handoff
    BY DEF TypeOK, ItemRow
  <2>3. \A i \in Items : item'[i].handoff = item[i].handoff
    <3> SUFFICES ASSUME NEW i \in Items PROVE item'[i].handoff = item[i].handoff
      OBVIOUS
    <3>1. \/ item'[i] = [item[i] EXCEPT !.status = "REJECTED"]
          \/ item'[i] = [item[i] EXCEPT !.status = "CONSUMED"]
          \/ item'[i] = item[i]
      BY <1>5 DEF StartedFromQueue
    <3>2. CASE item'[i] = [item[i] EXCEPT !.status = "REJECTED"]
      BY <2>2, <3>2
    <3>3. CASE item'[i] = [item[i] EXCEPT !.status = "CONSUMED"]
      BY <2>2, <3>3
    <3>4. CASE item'[i] = item[i]
      BY <3>4
    <3> QED BY <3>1, <3>2, <3>3, <3>4
  <2>4. /\ \A t \in Turns : t # k => turn'[t].handoff = turn[t].handoff
        /\ turn'[k].handoff = DeliveryHandoff(k)
    BY <1>5, <1>c, <2>1 DEF StartedFromQueue, NewTurn
  <2>5. turn'[k].handoff \in {0, item[k].handoff, EligibleHandoff}
    BY <2>4, DeliveredHandoff
  <2> QED BY <2>1, <2>3, <2>4, <2>5, HandoffFrame
<1>6. ASSUME NEW i \in Items, NEW j \in Items, Redirected(i, j) PROVE HandoffInv'
  <2>1. item'[i].handoff = item[i].handoff
    BY <1>6 DEF Redirected, TypeOK, ItemRow
  <2>2. i # j /\ j \in Turns
    BY <1>6 DEF Redirected, PendingNewTurn, Pending, Turns
  <2>3. \A k \in Items : k # j => item'[k].handoff = item[k].handoff
    BY <1>6, <2>1 DEF Redirected
  <2>4. item'[j].handoff = 0 /\ UNCHANGED turn
    BY <1>6 DEF Redirected
  <2> QED BY <2>2, <2>3, <2>4, HandoffFrame
<1>7. ASSUME NEW c \in Commands \cup Continuations, Started(c) PROVE HandoffInv'
  <2>1. c \in Turns
    BY DEF Turns
  <2>2. \A i \in Items : item'[i].handoff = item[i].handoff
    BY <1>7, <1>s DEF Started
  <2>3. /\ \A t \in Turns : t # c => turn'[t].handoff = turn[t].handoff
        /\ turn'[c].handoff \in {0, EligibleHandoff}
    BY <1>7, <1>c, <2>1 DEF Started, NewTurn
  <2>4. CASE Items = {}
    BY <2>2, <2>3, <2>4, EligibleIsFree DEF HandoffInv, HandoffDeliveredOnce
  <2>5. ASSUME NEW k \in Items PROVE HandoffInv'
    BY <2>1, <2>2, <2>3, HandoffFrame
  <2> QED BY <2>4, <2>5
<1>8. CASE \E t \in RunningTurns : Interrupted(t)
  BY <1>8, <1>s, <1>r, <1>t DEF Interrupted, RejectTerminalSteers
<1>9. ASSUME NEW t \in RunningTurns, Finished(t) PROVE HandoffInv'
  <2>1. \A s \in Turns : turn'[s].handoff = turn[s].handoff
    BY <1>9, <1>c DEF Finished, Completed, TurnRow
  <2> QED BY <1>9, <2>1, <1>s, <1>t DEF Finished
<1>10. ASSUME NEW t \in RunningTurns, NEW c \in Continuations, HandedOver(t, c)
       PROVE  HandoffInv'
  <2>1. /\ Completed(turn[t]).handoff = turn[t].handoff
        /\ \A perm : NewTurn(perm, 0).handoff = 0
        /\ c \in Turns
    BY <1>c DEF Completed, NewTurn, TurnRow, RunningTurns, Turns
  <2>2. \A s \in Turns : turn'[s].handoff \in {0, turn[s].handoff}
    BY <1>10, <1>c, <2>1 DEF HandedOver
  <2> QED BY <1>10, <2>2, <1>s, <1>t DEF HandedOver
<1>11. CASE Swept \/ TakenOver \/ ForceStopped
  BY <1>11, <1>s, <1>r, <1>t DEF Swept, TakenOver, ForceStopped, RejectTerminalSteers
<1> QED BY <1>1, <1>2, <1>3, <1>4, <1>5, <1>6, <1>7, <1>8, <1>9, <1>10, <1>11 DEF RowStep

(* _eligible_plan_handoff gives the handoff of a cancelled or forced Plan to *)
(* one turn at most, whatever mix of direct requests, scheduled items and    *)
(* queued prompts asks for it.                                               *)
THEOREM HandoffsAreDeliveredOnce == Spec => []HandoffDeliveredOnce
<1> DEFINE Inv == SlotInv /\ HandoffInv
<1>1. Init => HandoffInv
  BY DEF Init, HandoffInv, HandoffDeliveredOnce, AbsentItem, AbsentTurn
<1>2. Inv /\ [Next]_vars => HandoffInv'
  BY EveryRowStep, HandoffStep DEF SlotInv
<1>3. HandoffInv => HandoffDeliveredOnce
  BY DEF HandoffInv
<1> QED BY <1>1, <1>2, <1>3, SlotInvariant, PTL DEF Spec

-----------------------------------------------------------------------------
(* An archived session                                                      *)

(* Only the writer of an OPEN session writes to the queue, its turns and its *)
(* Plan; a prepared head is the one thing a host may still read.             *)
LEMMA WritersFindOpenSession ==
    ASSUME NEW h \in Hosts, QueueNext(h) \/ RunnerNext(h) \/ PlanNext(h)
    PROVE  \/ lifecycle = "OPEN" /\ UNCHANGED lifecycle
           \/ UNCHANGED <<lifecycle, owner, turn, item, workflow, interactions, attempt>>
<1> DEFINE Goal == \/ lifecycle = "OPEN" /\ UNCHANGED lifecycle
                   \/ UNCHANGED <<lifecycle, owner, turn, item, workflow, interactions, attempt>>
<1> USE DEF Writer, sessionVars
<1>1. ASSUME NEW i \in Items,
             \/ EnqueuePrompt(h, i) \/ EnqueueScheduled(h, i) \/ EnqueueCellOutput(h, i)
             \/ CancelPrompt(h, i) \/ \E t \in Turns : EnqueueSteer(h, i, t)
             \/ \E j \in Items, t \in Turns : RedirectQueuedPrompt(h, i, j, t)
      PROVE  Goal
  BY <1>1 DEF EnqueuePrompt, EnqueueScheduled, EnqueueCellOutput, CancelPrompt,
              EnqueueSteer, RedirectQueuedPrompt, QueueOnly
<1>2. CASE PreparePromptHead(h)
  BY <1>2 DEF PreparePromptHead, queueVars, planVars, toolVars
<1>3. CASE QueueNext(h)
  BY <1>3, <1>1, <1>2
     DEF QueueNext, AcceptRootTurnIntent, ConsumePreparedPromptHead, RejectPreparedPromptHead
<1>4. CASE RunnerNext(h)
  BY <1>4 DEF RunnerNext, CommitAssistantMessage, PrepareProviderInputCut, AcceptToolAttempt,
              AcceptToolResult, InterruptTurn, InterruptSteerPlanConflict,
              RejectSteerResourceExhaustion, EndTurn, ConsumePreparedPromptSteer, QueueOnly
<1>5. ASSUME NEW t \in Turns, NEW c \in Continuations,
             \/ PlanBatchResultsOnly(h, t) \/ PlanQuestionBatch(h, t) \/ PlanDraftBatch(h, t)
             \/ PlanEnterBatch(h, t, c) \/ PlanExitBatch(h, t, c)
      PROVE  Goal
  BY <1>5 DEF PlanBatchResultsOnly, PlanQuestionBatch, PlanDraftBatch, PlanEnterBatch,
              PlanExitBatch, PlanBatch
<1>6. ASSUME NEW t \in Turns,
             PlanBatchResultsOnly(h, t) \/ PlanQuestionBatch(h, t) \/ PlanDraftBatch(h, t)
      PROVE  Goal
  BY <1>6 DEF PlanBatchResultsOnly, PlanQuestionBatch, PlanDraftBatch, PlanBatch
<1>7. ASSUME NEW x \in interactions,
             \/ ResolvePlanQuestion(h, x) \/ CancelPlanDraft(h, x)
             \/ \E c \in Continuations :
                   \/ ApprovePlanDraft(h, x, c)
                   \/ \E source \in Items \cup {None} : RevisePlanDraft(h, x, c, source)
      PROVE  Goal
  BY <1>7 DEF ResolvePlanQuestion, CancelPlanDraft, ApprovePlanDraft, RevisePlanDraft
<1>8. CASE EnterPlanByUser(h) \/ CancelPlan(h) \/ PrepareForcePlanExit(h) \/ ForceExitPlan(h)
  BY <1>8 DEF EnterPlanByUser, CancelPlan, PrepareForcePlanExit, ForceExitPlan
<1> QED BY <1>3, <1>4, <1>5, <1>6, <1>7, <1>8 DEF PlanNext

(* archive_session closes a session only when nothing in it is unfinished,   *)
(* and no host that still holds a guard, a cut or a candidate writes to it   *)
(* afterwards.                                                               *)
THEOREM ArchivedSessionsAreIdle == Spec => []ArchivedSessionIsIdle
<1>1. Init => ArchivedSessionIsIdle
  BY DEF Init, ArchivedSessionIsIdle
<1>2. ArchivedSessionIsIdle /\ [Next]_vars => ArchivedSessionIsIdle'
  <2> SUFFICES ASSUME ArchivedSessionIsIdle, [Next]_vars, lifecycle' = "ARCHIVED"
               PROVE  SessionIdle' /\ owner' = None
    BY DEF ArchivedSessionIsIdle
  <2> DEFINE rows == <<turn, item, workflow, interactions, attempt>>
  <2>f. ASSUME UNCHANGED rows, SessionIdle PROVE SessionIdle'
    BY <2>f DEF SessionIdle, RunningTurns, Pending, PlanActive
  <2>k. ASSUME UNCHANGED rows, UNCHANGED lifecycle, owner' \in {owner, None}
        PROVE  SessionIdle' /\ owner' = None
    BY <2>k, <2>f DEF ArchivedSessionIsIdle
  <2>1. ASSUME NEW h \in Hosts, QueueNext(h) \/ RunnerNext(h) \/ PlanNext(h)
        PROVE  SessionIdle' /\ owner' = None
    BY <2>1, <2>k, WritersFindOpenSession
  <2>2. ASSUME NEW c, ArchiveSession(c) PROVE SessionIdle' /\ owner' = None
    BY <2>2, <2>f DEF ArchiveSession, queueVars, planVars, toolVars
  <2>3. CASE LifecycleNext
    BY <2>2, <2>3, <2>k
       DEF LifecycleNext, LeaseExpires, UnarchiveSession, AcquireHostWriter, HostStops,
           ReleaseHostWriter, DeleteSession, sessionVars, queueVars, planVars, toolVars
  <2>4. CASE UNCHANGED vars
    BY <2>4, <2>k DEF vars, sessionVars, queueVars, planVars, toolVars
  <2> QED BY <2>1, <2>3, <2>4 DEF Next
<1> QED BY <1>1, <1>2, PTL DEF Spec

-----------------------------------------------------------------------------
(* The store implements the execution slot                                  *)

(* What the phase of a request is, case by case. *)
LEMMA PhaseOf ==
    ASSUME NEW t \in Turns
    PROVE  /\ turn[t].status = "RUNNING" <=> Phase(t) = "RUNNING"
           /\ turn[t].status \in {"COMPLETED", "INTERRUPTED"} => Phase(t) = "ENDED"
           /\ turn[t].status = "ABSENT" /\ t \notin Items => Phase(t) = "UNSEEN"
           /\ turn[t].status = "ABSENT" /\ t \in Items =>
                 /\ item[t].mode # "NEW_TURN" => Phase(t) = "UNSEEN"
                 /\ item[t].status = "ABSENT" => Phase(t) = "UNSEEN"
                 /\ PendingNewTurn(t) => Phase(t) = "WAITING"
                 /\ item[t].mode = "NEW_TURN" /\ item[t].status \in {"CANCELLED", "REJECTED"}
                       => Phase(t) = "DROPPED"
BY DEF Phase, PendingNewTurn, Pending

(* The same of the state after the step. *)
LEMMA NextPhaseOf ==
    ASSUME NEW t \in Turns
    PROVE  /\ turn'[t].status = "RUNNING" <=> Phase(t)' = "RUNNING"
           /\ turn'[t].status \in {"COMPLETED", "INTERRUPTED"} => Phase(t)' = "ENDED"
           /\ turn'[t].status = "ABSENT" /\ t \notin Items => Phase(t)' = "UNSEEN"
           /\ turn'[t].status = "ABSENT" /\ t \in Items =>
                 /\ item'[t].mode # "NEW_TURN" => Phase(t)' = "UNSEEN"
                 /\ item'[t].status = "ABSENT" => Phase(t)' = "UNSEEN"
                 /\ item'[t].mode = "NEW_TURN" /\ item'[t].status = "PENDING"
                       => Phase(t)' = "WAITING"
                 /\ item'[t].mode = "NEW_TURN" /\ item'[t].status \in {"CANCELLED", "REJECTED"}
                       => Phase(t)' = "DROPPED"
BY DEF Phase

(* A request whose turn keeps its status, and whose item keeps its status or *)
(* is a steer, stays where it is.                                            *)
LEMMA PhaseKept ==
    ASSUME NEW t \in Turns, turn'[t].status = turn[t].status,
           t \in Items =>
               \/ item'[t].status = item[t].status /\ item'[t].mode = item[t].mode
               \/ /\ item[t].status = "ABSENT" \/ item[t].mode = "STEER_ACTIVE_TURN"
                  /\ item'[t].mode = "STEER_ACTIVE_TURN"
    PROVE  Phase(t)' = Phase(t)
BY DEF Phase

Phases == [t \in Turns |-> Phase(t)]

(* A transaction that keeps every request in its phase is a stutter; one     *)
(* that moves a request is the step of the slot that moves it.               *)
LEMMA SlotMoves ==
    ASSUME UNCHANGED lifecycle, lifecycle = "OPEN",
           \/ \A t \in Turns : Phase(t)' = Phase(t)
           \/ \E r \in Turns :
                 /\ \A t \in Turns : t # r => Phase(t)' = Phase(t)
                 /\ \/ Phase(r) = "UNSEEN" /\ Phase(r)' = "WAITING"
                    \/ Phase(r) = "WAITING" /\ Phase(r)' = "DROPPED"
                    \/ Phase(r) = "RUNNING" /\ Phase(r)' = "ENDED"
                    \/ /\ Phase(r) \in {"UNSEEN", "WAITING"} /\ Phase(r)' = "RUNNING"
                       /\ \A t \in Turns : Phase(t) # "RUNNING"
           \/ \E r, s \in Turns :
                 /\ r # s
                 /\ \A t \in Turns : t # r /\ t # s => Phase(t)' = Phase(t)
                 /\ Phase(s) = "UNSEEN" /\ Phase(s)' = "RUNNING"
                 /\ \/ Phase(r) = "RUNNING" /\ Phase(r)' = "ENDED"
                    \/ /\ Phase(r) = "WAITING" /\ Phase(r)' = "DROPPED"
                       /\ \A t \in Turns : Phase(t) # "RUNNING"
    PROVE  [Slot!SlotNext]_(Slot!slotVars)
<1> DEFINE Step == [Slot!SlotNext]_(Slot!slotVars)
<1> USE DEF Slot!Move, Slot!Free
<1>c. ~(lifecycle = "DELETED") /\ (lifecycle' = "DELETED") = (lifecycle = "DELETED")
  OBVIOUS
<1>n. ASSUME \/ \E r \in Turns : Slot!Wait(r) \/ Slot!Drop(r) \/ Slot!Start(r) \/ Slot!End(r)
             \/ \E r, s \in Turns : Slot!Continue(r, s) \/ Slot!Convert(r, s)
      PROVE  Step
  BY <1>c, <1>n DEF Slot!SlotNext
<1>1. CASE \A t \in Turns : Phase(t)' = Phase(t)
  <2>1. Phases' = Phases
    BY <1>1 DEF Phases
  <2> QED BY <2>1, <1>c DEF Phases, Slot!slotVars
<1>2. ASSUME NEW r \in Turns, \A t \in Turns : t # r => Phase(t)' = Phase(t),
             \/ Phase(r) = "UNSEEN" /\ Phase(r)' = "WAITING"
             \/ Phase(r) = "WAITING" /\ Phase(r)' = "DROPPED"
             \/ Phase(r) = "RUNNING" /\ Phase(r)' = "ENDED"
             \/ /\ Phase(r) \in {"UNSEEN", "WAITING"} /\ Phase(r)' = "RUNNING"
                /\ \A t \in Turns : Phase(t) # "RUNNING"
      PROVE  Step
  <2>1. Phases' = [Phases EXCEPT ![r] = Phase(r)']
    BY <1>2 DEF Phases
  <2>2. Slot!Wait(r) \/ Slot!Drop(r) \/ Slot!Start(r) \/ Slot!End(r)
    BY <1>2, <1>c, <2>1 DEF Phases, Slot!Wait, Slot!Drop, Slot!Start, Slot!End
  <2> QED BY <1>n, <2>2
<1>3. ASSUME NEW r \in Turns, NEW s \in Turns, r # s,
             \A t \in Turns : t # r /\ t # s => Phase(t)' = Phase(t),
             Phase(s) = "UNSEEN" /\ Phase(s)' = "RUNNING",
             \/ Phase(r) = "RUNNING" /\ Phase(r)' = "ENDED"
             \/ /\ Phase(r) = "WAITING" /\ Phase(r)' = "DROPPED"
                /\ \A t \in Turns : Phase(t) # "RUNNING"
      PROVE  Step
  <2>1. Phases' = [Phases EXCEPT ![r] = Phase(r)', ![s] = "RUNNING"]
    BY <1>3 DEF Phases
  <2>2. Slot!Continue(r, s) \/ Slot!Convert(r, s)
    BY <1>3, <1>c, <2>1 DEF Phases, Slot!Continue, Slot!Convert
  <2> QED BY <1>n, <2>2
<1> QED BY <1>1, <1>2, <1>3

(* Settling items moves no request but those whose NEW_TURN item is settled. *)
LEMMA SettledPhases ==
    ASSUME TypeOK, NEW S, NEW status, item' = SettleItems(S, status),
           NEW t \in Turns, turn'[t].status = turn[t].status,
           t \in S \cap Items => item[t].mode = "STEER_ACTIVE_TURN"
    PROVE  Phase(t)' = Phase(t)
<1>1. CASE t \notin Items
  BY <1>1, PhaseKept
<1>2. CASE t \in Items /\ t \in S
  BY <1>2, SettledRows, PhaseKept
<1>3. CASE t \in Items /\ t \notin S
  <2>1. item'[t] = item[t]
    BY <1>3, SettledRows
  <2> QED BY <2>1, PhaseKept
<1> QED BY <1>1, <1>2, <1>3

(* A PENDING NEW_TURN item that is settled unconsumed is a dropped request. *)
LEMMA DroppedPhase ==
    ASSUME TypeOK, QueueItemOwnsItsTurn, NEW i \in Items, PendingNewTurn(i),
           turn'[i].status = turn[i].status,
           item'[i].mode = "NEW_TURN", item'[i].status \in {"CANCELLED", "REJECTED"}
    PROVE  i \in Turns /\ Phase(i) = "WAITING" /\ Phase(i)' = "DROPPED"
<1>1. i \in Turns /\ turn[i].status = "ABSENT"
  BY DEF QueueItemOwnsItsTurn, PendingNewTurn, Pending, Turns
<1> QED BY <1>1, PhaseOf, NextPhaseOf

(* Every transaction is a step of the execution slot, or a stutter. *)
LEMMA SlotStep ==
    ASSUME TypeOK, OneRunningTurn, QueueItemOwnsItsTurn, RowStep
    PROVE  [Slot!SlotNext]_(Slot!slotVars)
<1> DEFINE Step == [Slot!SlotNext]_(Slot!slotVars)
<1>c. turn \in [Turns -> TurnRow]
  BY DEF TypeOK
<1>i. \A i \in Items : i \in Turns
  BY DEF Turns
<1>s. \A T : \A i \in PendingSteers(T) \cap Items : item[i].mode = "STEER_ACTIVE_TURN"
  BY DEF PendingSteers
<1>f. RunningTurns = {} => \A t \in Turns : Phase(t) # "RUNNING"
  BY PhaseOf DEF RunningTurns
<1>r. \A t \in RunningTurns : t \in Turns /\ Phase(t) = "RUNNING"
  BY PhaseOf DEF RunningTurns
<1>1. CASE Deleted
  <2>1. \A t \in Turns : turn'[t].status = "ABSENT" /\ (t \in Items => item'[t].status = "ABSENT")
    BY <1>1 DEF Deleted, AbsentTurn, AbsentItem
  <2>2. Phases' = [t \in Turns |-> "UNSEEN"]
    BY <2>1, NextPhaseOf DEF Phases
  <2>3. Slot!Close /\ ~(lifecycle = "DELETED")
    BY <1>1, <2>2 DEF Slot!Close, Deleted, Phases
  <2> QED BY <2>3 DEF Slot!SlotNext
<1>2. CASE Kept /\ (lifecycle' = "DELETED" <=> lifecycle = "DELETED")
  <2>1. Phases' = Phases
    BY <1>2, PhaseKept DEF Phases, Kept
  <2>2. (lifecycle' = "DELETED") = (lifecycle = "DELETED")
    BY <1>2
  <2> QED BY <2>1, <2>2 DEF Phases, Slot!slotVars
<1> SUFFICES ASSUME lifecycle = "OPEN", UNCHANGED lifecycle, ~Deleted, ~Kept PROVE Step
  BY <1>1, <1>2 DEF RowStep
<1>k. ASSUME \A t \in Turns : Phase(t)' = Phase(t) PROVE Step
  BY <1>k, SlotMoves
<1>m. ASSUME NEW r \in Turns, \A t \in Turns : t # r => Phase(t)' = Phase(t),
             \/ Phase(r) = "UNSEEN" /\ Phase(r)' = "WAITING"
             \/ Phase(r) = "WAITING" /\ Phase(r)' = "DROPPED"
             \/ Phase(r) = "RUNNING" /\ Phase(r)' = "ENDED"
             \/ /\ Phase(r) \in {"UNSEEN", "WAITING"} /\ Phase(r)' = "RUNNING"
                /\ RunningTurns = {}
      PROVE  Step
  BY <1>m, <1>f, SlotMoves
<1>d. ASSUME NEW S, NEW status \in {"CANCELLED", "REJECTED"}, NEW i \in Items,
             PendingNewTurn(i), i \in S, UNCHANGED turn, item' = SettleItems(S, status),
             \A j \in S \cap Items : j # i => item[j].mode = "STEER_ACTIVE_TURN"
      PROVE  Step
  <2>1. \A t \in Turns : t # i => Phase(t)' = Phase(t)
    BY <1>d, SettledPhases
  <2>2. item'[i].mode = "NEW_TURN" /\ item'[i].status = status
    BY <1>d, SettledRows DEF PendingNewTurn
  <2>3. i \in Turns /\ Phase(i) = "WAITING" /\ Phase(i)' = "DROPPED"
    BY <1>d, <2>2, DroppedPhase
  <2> QED BY <2>1, <2>3, <1>m
<1>3. ASSUME NEW i \in Items, Inserted(i) PROVE Step
  <2>1. turn[i].status = "ABSENT" /\ UNCHANGED turn /\ i \in Turns
    BY <1>3, <1>i DEF Inserted, QueueItemOwnsItsTurn
  <2>2. \A t \in Turns : t # i => Phase(t)' = Phase(t)
    BY <1>3, <2>1, PhaseKept DEF Inserted
  <2>3. Phase(i) = "UNSEEN"
    BY <1>3, <2>1, PhaseOf DEF Inserted
  <2>4. Phase(i)' = "UNSEEN" \/ Phase(i)' = "WAITING"
    BY <1>3, <2>1, NextPhaseOf DEF Inserted, NewRow
  <2>5. CASE Phase(i)' = "UNSEEN"
    BY <2>2, <2>3, <2>5, <1>k
  <2>6. CASE Phase(i)' = "WAITING"
    BY <2>1, <2>2, <2>3, <2>6, <1>m
  <2> QED BY <2>4, <2>5, <2>6
<1>4. ASSUME NEW i \in Items, Settled(i) PROVE Step
  <2>1. Pending(i) /\ UNCHANGED turn
    BY <1>4 DEF Settled
  <2>2. PICK status \in {"CONSUMED", "CANCELLED", "REJECTED"} : item' = SettleItems({i}, status)
    BY <1>4 DEF Settled
  <2>3. CASE item[i].mode = "STEER_ACTIVE_TURN"
    <3>1. \A t \in Turns : Phase(t)' = Phase(t)
      BY <2>1, <2>2, <2>3, SettledPhases
    <3> QED BY <3>1, <1>k
  <2>4. CASE item[i].mode = "NEW_TURN"
    <3>1. item' = SettleItems({i}, "CANCELLED") \/ item' = SettleItems({i}, "REJECTED")
      BY <1>4, <2>4 DEF Settled, IsLaneHead, PendingSteers
    <3> QED BY <2>1, <2>4, <3>1, <1>d DEF PendingNewTurn
  <2> QED BY <2>3, <2>4 DEF TypeOK, ItemRow
<1>5. ASSUME NEW i \in Items, RejectedScheduled(i) PROVE Step
  BY <1>5, <1>s, <1>d DEF RejectedScheduled
<1>6. ASSUME NEW i \in Items, StartedFromQueue(i) PROVE Step
  <2>1. /\ turn[i].status = "ABSENT" /\ turn'[i].status = "RUNNING" /\ i \in Turns
        /\ \A t \in Turns : t # i => turn'[t] = turn[t]
    BY <1>6, <1>c, <1>i DEF StartedFromQueue, NewTurn
  <2>2. Phase(i) = "WAITING" /\ Phase(i)' = "RUNNING"
    BY <1>6, <2>1, PhaseOf, NextPhaseOf DEF StartedFromQueue, IsHead
  <2>3. ASSUME NEW t \in Turns, t # i PROVE Phase(t)' = Phase(t)
    <3>1. \A j \in Items : [item[j] EXCEPT !.status = "REJECTED"].mode = item[j].mode
      BY DEF TypeOK, ItemRow
    <3>2. CASE t \in PendingSteers(Turns)
      <4>1. t \in Items /\ item[t].mode = "STEER_ACTIVE_TURN"
        BY <3>2 DEF PendingSteers
      <4>2. item'[t] = [item[t] EXCEPT !.status = "REJECTED"]
        BY <1>6, <2>3, <3>2, <4>1 DEF StartedFromQueue
      <4> QED BY <2>1, <2>3, <3>1, <4>1, <4>2, PhaseKept
    <3>3. CASE t \notin PendingSteers(Turns)
      <4>1. t \in Items => item'[t] = item[t]
        BY <1>6, <2>3, <3>3 DEF StartedFromQueue
      <4> QED BY <2>1, <2>3, <4>1, PhaseKept
    <3> QED BY <3>2, <3>3
  <2> QED BY <1>6, <2>1, <2>2, <2>3, <1>m DEF StartedFromQueue
<1>7. ASSUME NEW i \in Items, NEW j \in Items, Redirected(i, j) PROVE Step
  <2>1. [item[i] EXCEPT !.status = "CANCELLED"].mode = item[i].mode
        /\ [item[i] EXCEPT !.status = "CANCELLED"].status = "CANCELLED"
    BY DEF TypeOK, ItemRow
  <2>2. i # j /\ UNCHANGED turn
    BY <1>7 DEF Redirected, PendingNewTurn, Pending
  <2>3. item'[i].mode = "NEW_TURN" /\ item'[i].status = "CANCELLED" /\ PendingNewTurn(i)
    BY <1>7, <2>1 DEF Redirected, PendingNewTurn
  <2>4. i \in Turns /\ Phase(i) = "WAITING" /\ Phase(i)' = "DROPPED"
    BY <2>2, <2>3, DroppedPhase
  <2>5. \A t \in Turns : t # i => Phase(t)' = Phase(t)
    BY <1>7, <2>2, PhaseKept DEF Redirected
  <2> QED BY <2>4, <2>5, <1>m
<1>8. ASSUME NEW c \in Commands \cup Continuations, Started(c) PROVE Step
  <2>1. c \in Turns /\ c \notin Items
    BY IdentitiesAssumption DEF Turns
  <2>2. /\ turn[c].status = "ABSENT" /\ turn'[c].status = "RUNNING"
        /\ \A t \in Turns : t # c => turn'[t] = turn[t]
        /\ RunningTurns = {}
    BY <1>8, <1>c, <2>1 DEF Started, NewTurn
  <2>3. Phase(c) = "UNSEEN" /\ Phase(c)' = "RUNNING"
    BY <2>1, <2>2, PhaseOf, NextPhaseOf
  <2>4. CASE UNCHANGED item
    <3>1. \A t \in Turns : t # c => Phase(t)' = Phase(t)
      BY <2>2, <2>4, PhaseKept
    <3> QED BY <2>1, <2>2, <2>3, <3>1, <1>m
  <2>5. ASSUME NEW i \in Items, PendingNewTurn(i), item' = SettleItems({i}, "CANCELLED")
        PROVE  Step
    <3>1. \A t \in Turns : t # i /\ t # c => Phase(t)' = Phase(t)
      BY <2>2, <2>5, SettledPhases
    <3>2. item'[i].mode = "NEW_TURN" /\ item'[i].status = "CANCELLED" /\ i # c
      BY <2>1, <2>5, SettledRows DEF PendingNewTurn
    <3>3. i \in Turns /\ Phase(i) = "WAITING" /\ Phase(i)' = "DROPPED"
      BY <2>2, <2>5, <3>2, <1>i, DroppedPhase
    <3> QED BY <1>f, <2>1, <2>2, <2>3, <3>1, <3>2, <3>3, SlotMoves
  <2> QED BY <1>8, <2>4, <2>5 DEF Started
<1>e. ASSUME NEW t \in RunningTurns, NEW S, NEW status, item' = SettleItems(S, status),
             \A i \in S \cap Items : item[i].mode = "STEER_ACTIVE_TURN",
             turn'[t].status \in {"COMPLETED", "INTERRUPTED"},
             \A s \in Turns : s # t => turn'[s] = turn[s]
      PROVE  Step
  <2>1. \A s \in Turns : s # t => Phase(s)' = Phase(s)
    BY <1>e, SettledPhases
  <2>2. t \in Turns /\ Phase(t) = "RUNNING" /\ Phase(t)' = "ENDED"
    BY <1>e, <1>r, NextPhaseOf
  <2> QED BY <2>1, <2>2, <1>m
<1>9. ASSUME NEW t \in RunningTurns, Interrupted(t) PROVE Step
  <2>1. turn'[t].status = "INTERRUPTED" /\ \A s \in Turns : s # t => turn'[s] = turn[s]
    BY <1>9, <1>r, InterruptedRows DEF Interrupted
  <2> QED BY <1>9, <2>1, <1>e, <1>s DEF Interrupted, RejectTerminalSteers
<1>10. ASSUME NEW t \in RunningTurns, Finished(t) PROVE Step
  <2>1. turn'[t].status = "COMPLETED" /\ \A s \in Turns : s # t => turn'[s] = turn[s]
    BY <1>10, <1>r, <1>c DEF Finished, Completed, TurnRow
  <2> QED BY <1>10, <2>1, <1>e, <1>s DEF Finished
<1>11. ASSUME NEW t \in RunningTurns, NEW c \in Continuations, HandedOver(t, c) PROVE Step
  <2>1. c \in Turns /\ c \notin Items /\ t \in Turns /\ t # c
    BY <1>11, IdentitiesAssumption DEF Turns, HandedOver, RunningTurns
  <2>2. /\ turn[c].status = "ABSENT"
        /\ turn'[c].status = "RUNNING"
        /\ turn'[t].status = "COMPLETED"
        /\ \A s \in Turns : s # t /\ s # c => turn'[s] = turn[s]
    <3>1. PICK perm : turn' = [turn EXCEPT ![t] = Completed(turn[t]), ![c] = NewTurn(perm, 0)]
      BY <1>11 DEF HandedOver
    <3>2. Completed(turn[t]).status = "COMPLETED" /\ NewTurn(perm, 0).status = "RUNNING"
      BY <1>c, <2>1 DEF Completed, NewTurn, TurnRow
    <3> QED BY <1>11, <1>c, <2>1, <3>1, <3>2 DEF HandedOver
  <2>3. Phase(c) = "UNSEEN" /\ Phase(c)' = "RUNNING"
    BY <2>1, <2>2, PhaseOf, NextPhaseOf
  <2>4. Phase(t) = "RUNNING" /\ Phase(t)' = "ENDED"
    BY <1>r, <2>1, <2>2, NextPhaseOf
  <2>5. \A s \in Turns : s # t /\ s # c => Phase(s)' = Phase(s)
    BY <1>11, <1>s, <2>2, SettledPhases DEF HandedOver
  <2> QED BY <2>1, <2>3, <2>4, <2>5, SlotMoves
<1>12. ASSUME Swept PROVE Step
  <2>1. \A t \in Turns : Phase(t)' = Phase(t)
    BY <1>12, <1>s, SettledPhases DEF Swept, RejectTerminalSteers
  <2> QED BY <2>1, <1>k
<1>13. ASSUME TakenOver \/ ForceStopped PROVE Step
  <2>1. PICK reason \in {"HOST_TAKEOVER", "PLAN_FORCE_EXIT"} :
           turn' = InterruptTurns(Turns, reason)
    BY <1>13 DEF TakenOver, ForceStopped
  <2>2. \A t \in Turns : IF t \in RunningTurns THEN turn'[t].status = "INTERRUPTED"
                                            ELSE turn'[t] = turn[t]
    BY <2>1, InterruptedRows
  <2>3. PICK S : /\ item' = SettleItems(S, "REJECTED")
                 /\ \A i \in S \cap Items : item[i].mode = "STEER_ACTIVE_TURN"
    <3>1. CASE TakenOver
      BY <3>1, <1>s DEF TakenOver
    <3>2. CASE ForceStopped
      <4>1. item' = SettleItems({}, "REJECTED")
        BY <3>2, SettleNothing DEF ForceStopped
      <4> QED BY <4>1
    <3> QED BY <1>13, <3>1, <3>2
  <2>4. CASE RunningTurns = {}
    <3>1. \A t \in Turns : Phase(t)' = Phase(t)
      BY <2>2, <2>3, <2>4, SettledPhases
    <3> QED BY <3>1, <1>k
  <2>5. ASSUME NEW t \in RunningTurns PROVE Step
    <3>1. \A s \in Turns : s # t => s \notin RunningTurns
      BY DEF OneRunningTurn
    <3>2. turn'[t].status = "INTERRUPTED" /\ \A s \in Turns : s # t => turn'[s] = turn[s]
      BY <1>r, <2>2, <3>1
    <3> QED BY <2>3, <3>2, <1>e
  <2> QED BY <2>4, <2>5
<1> QED BY <1>3, <1>4, <1>5, <1>6, <1>7, <1>8, <1>9, <1>10, <1>11, <1>12, <1>13 DEF RowStep

(* The store keeps the promise of the execution slot: a request waits or     *)
(* starts when the slot is free, runs alone, ends once, is dropped unrun or  *)
(* hands the slot to its Plan continuation, and nothing slips in between.    *)
THEOREM StoreImplementsSlot == Spec => ImplementsExecutionSlot
<1>1. Init => Slot!SlotInit
  <2> SUFFICES ASSUME Init PROVE Slot!SlotInit
    OBVIOUS
  <2>1. \A t \in Turns : Phase(t) = "UNSEEN"
    <3>1. \A t \in Turns : turn[t].status = "ABSENT" /\ (t \in Items => item[t].status = "ABSENT")
      BY DEF Init, AbsentTurn, AbsentItem
    <3> QED BY <3>1, PhaseOf
  <2>2. (lifecycle = "DELETED") = FALSE
    BY DEF Init
  <2> QED BY <2>1, <2>2 DEF Slot!SlotInit
<1>2. SlotInv /\ [Next]_vars => [Slot!SlotNext]_(Slot!slotVars)
  BY EveryRowStep, SlotStep DEF SlotInv
<1> QED BY <1>1, <1>2, SlotInvariant, PTL DEF Spec, ImplementsExecutionSlot, Slot!SlotSpec

=============================================================================
