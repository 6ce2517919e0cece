---------------------------- MODULE ScheduledTasks ----------------------------
(***************************************************************************)
(* The scheduled plans of one session: the rows that users and models       *)
(* manage, the timer loop of every kernel process, and the queue items a    *)
(* plan leaves behind.  A kernel carries a row it read from one transaction *)
(* to the next (retire, observe, submit, pause); meanwhile plans change,    *)
(* other kernels run the same loop, kernels stop and start again and the    *)
(* writer of the session changes hands.                                     *)
(*                                                                         *)
(* Every transaction locks the session row, so it is one step.  Time is     *)
(* counted in ticks of the database clock; time 0 stands for NULL.          *)
(***************************************************************************)
EXTENDS Naturals

CONSTANTS
    Kernels,      \* kernel processes, each with one ScheduledTaskService
    Tasks,        \* identities of plans
    Commands,     \* commands of run_now
    Tick,         \* marks an item of the timer
    Rules,        \* rules of plans that users may choose: [kind, at]
    None,
    Horizon,      \* the last instant a timestamp can hold
    MaxTime,      \* how far the clock runs
    MaxRevision   \* caps the revision of a plan

ASSUME ScheduleAssumption ==
    /\ Rules \subseteq [kind : {"once", "interval"}, at : 1 .. Horizon]
    /\ Horizon \in Nat /\ MaxTime \in 1 .. Horizon
    /\ MaxRevision \in Nat
    /\ Tick \notin Commands
    /\ None \notin Kernels

VARIABLES
    now,        \* clock_timestamp()
    task,       \* scheduled_tasks
    items,      \* prompt_queue_items with SCHEDULED_TASK origin
    running,    \* the session has a RUNNING turn
    writer,     \* kernel that holds a live writer lease
    started,    \* kernel: _run_started_at, 0 while it is down
    scan,       \* kernel: rows of list_scheduled_tasks still to visit
    step,       \* kernel: where it is with the row it visits
    cut,        \* kernel: that row, as it was read
    request,    \* command: the run_now request it stands for
    stopped     \* history. task: its revision after management last stopped it

kernelVars == <<started, scan, step, cut>>
vars == <<now, task, items, running, writer, kernelVars, request, stopped>>

Times == 0 .. Horizon
Steps == {"NONE", "EXPIRE", "RETIRE", "OBSERVE", "SUBMIT", "PAUSE"}
NoRule == [kind |-> "once", at |-> 0]
Plan(status, rule, due, rev) == [status |-> status, rule |-> rule, due |-> due, rev |-> rev]
Absent == Plan("ABSENT", NoRule, 0, 0)
NoCut == [task |-> None, status |-> "ABSENT", due |-> 0, rev |-> 0]
NoRequest == [task |-> None, rev |-> 0, at |-> 0]
Items == [cmd : Commands \cup {Tick}, task : Tasks, rev : 1 .. MaxRevision, due : Times,
          mode : {"NEW_TURN", "STEER"}, status : {"PENDING", "CONSUMED", "CANCELLED", "REJECTED"}]

(* The type invariant. *)
TypeOK ==
    /\ now \in 1 .. MaxTime
    /\ task \in [Tasks -> [status : {"ABSENT", "ACTIVE", "PAUSED", "DELETED"},
                           rule : Rules \cup {NoRule}, due : Times, rev : 0 .. MaxRevision]]
    /\ items \subseteq Items
    /\ running \in BOOLEAN
    /\ writer \in Kernels \cup {None}
    /\ started \in [Kernels -> Times]
    /\ step \in [Kernels -> Steps]
    /\ \A k \in Kernels : \A r \in scan[k] \cup {cut[k]} : r.task \in Tasks \cup {None} /\ r.due \in Times
    /\ \A c \in Commands : request[c].task \in Tasks \cup {None}
    /\ stopped \in [Tasks -> 0 .. MaxRevision]

-----------------------------------------------------------------------------
Exists(t) == task[t].status \in {"ACTIVE", "PAUSED"}
Up(k) == started[k] # 0

(* The occurrences of a rule: an interval is anchored at 0. *)
Occurs(rule, t) == IF rule.kind = "once" THEN t = rule.at ELSE t % rule.at = 0

(* next_occurrence: strictly after the instant, 0 when out of range. *)
NextOccurrence(rule, after) ==
    IF \E t \in Times : t > after /\ Occurs(rule, t)
    THEN CHOOSE t \in Times :
            /\ t > after /\ Occurs(rule, t)
            /\ \A u \in Times : u > after /\ Occurs(rule, u) => t <= u
    ELSE 0

(* _assert_single_active_task *)
NoOtherActive(t) == \A u \in Tasks \ {t} : task[u].status # "ACTIVE"

(* _scheduled_transaction: through the host of this kernel, or cold while   *)
(* nobody holds the writer.                                                 *)
CanManage(k) == Up(k) /\ writer \in {k, None}

(* _cancel_scheduled_pending_in_connection *)
CancelPending(t) ==
    {[i EXCEPT !.status = IF i.task = t /\ i.status = "PENDING" /\ i.mode = "NEW_TURN"
                          THEN "CANCELLED" ELSE @] : i \in items}

(* The row is written, within the bound on revisions. *)
Put(t, row) == row.rev <= MaxRevision /\ task' = [task EXCEPT ![t] = row]

(* The plan leaves the table; its identity is not used again. *)
Deleted(t) == Plan("DELETED", NoRule, 0, task[t].rev)

Paused(t) == Plan("PAUSED", task[t].rule, 0, task[t].rev + 1)

(* _retire_expired_paused_once_in_connection *)
IsExpiredOnce(t) ==
    /\ task[t].status = "PAUSED"
    /\ task[t].rule.kind = "once"
    /\ task[t].rule.at <= now

(* _delete_scheduled_task_in_connection *)
Delete(t) ==
    /\ Put(t, Deleted(t))
    /\ items' = CancelPending(t)

Init ==
    /\ now = 1
    /\ task = [t \in Tasks |-> Absent]
    /\ items = {}
    /\ running = FALSE
    /\ writer = None
    /\ started = [k \in Kernels |-> 0]
    /\ scan = [k \in Kernels |-> {}]
    /\ step = [k \in Kernels |-> "NONE"]
    /\ cut = [k \in Kernels |-> NoCut]
    /\ request = [c \in Commands |-> NoRequest]
    /\ stopped = [t \in Tasks |-> 0]

-----------------------------------------------------------------------------
(* Management, through any running kernel                                  *)

Manage == \E k \in Kernels : CanManage(k)

manageFrame == <<now, running, writer, kernelVars, request>>

CreateScheduledTask(t, rule, status) ==
    LET due == NextOccurrence(rule, now) IN
    /\ Manage
    /\ task[t].status = "ABSENT"
    /\ status = "ACTIVE" => NoOtherActive(t)
    /\ due # 0
    /\ Put(t, Plan(status, rule, IF status = "ACTIVE" THEN due ELSE 0, 1))
    /\ UNCHANGED <<items, stopped, manageFrame>>

(* An expired paused one-shot is deleted by whoever manages it. *)
ExpireManaged(t) ==
    /\ Manage
    /\ IsExpiredOnce(t)
    /\ Delete(t)
    /\ UNCHANGED <<stopped, manageFrame>>

(* mutate_scheduled_task *)
PauseScheduledTask(t) ==
    /\ Manage
    /\ Exists(t) /\ ~IsExpiredOnce(t)
    /\ items' = CancelPending(t)
    /\ IF task[t].status = "ACTIVE"
       THEN /\ Put(t, Paused(t))
            /\ stopped' = [stopped EXCEPT ![t] = task[t].rev + 1]
       ELSE UNCHANGED <<task, stopped>>
    /\ UNCHANGED manageFrame

DeleteScheduledTask(t) ==
    /\ Manage
    /\ Exists(t) /\ ~IsExpiredOnce(t)
    /\ Delete(t)
    /\ UNCHANGED <<stopped, manageFrame>>

ResumeScheduledTask(t) ==
    LET due == NextOccurrence(task[t].rule, now) IN
    /\ Manage
    /\ task[t].status = "PAUSED" /\ ~IsExpiredOnce(t)
    /\ due # 0
    /\ NoOtherActive(t)
    /\ Put(t, Plan("ACTIVE", task[t].rule, due, task[t].rev + 1))
    /\ UNCHANGED <<items, stopped, manageFrame>>

(* Only a changed rule moves the next run of an active plan. *)
UpdateScheduledTask(t, rule) ==
    LET due == NextOccurrence(rule, now)
        changed == rule # task[t].rule IN
    /\ Manage
    /\ Exists(t) /\ ~IsExpiredOnce(t)
    /\ changed /\ rule.kind = "once" => rule.at > now
    /\ changed /\ task[t].status = "ACTIVE" => due # 0
    /\ Put(t, Plan(task[t].status, rule,
                   IF changed /\ task[t].status = "ACTIVE" THEN due ELSE task[t].due,
                   task[t].rev + 1))
    /\ UNCHANGED <<items, stopped, manageFrame>>

(* switch_scheduled_task: one plan is paused and another starts, in one     *)
(* transaction.                                                             *)
SwitchScheduledTask(t, u, rule) ==
    LET due == NextOccurrence(rule, now) IN
    /\ Manage
    /\ t # u
    /\ task[t].status = "ACTIVE"
    /\ \/ task[u].status = "ABSENT"
       \/ task[u].status = "PAUSED" /\ ~IsExpiredOnce(u) /\ rule = task[u].rule
    /\ due # 0
    /\ task[t].rev < MaxRevision /\ task[u].rev < MaxRevision
    /\ items' = CancelPending(t)
    /\ task' = [task EXCEPT ![t] = Paused(t),
                            ![u] = Plan("ACTIVE", rule, due, task[u].rev + 1)]
    /\ stopped' = [stopped EXCEPT ![t] = task[t].rev + 1]
    /\ UNCHANGED manageFrame

-----------------------------------------------------------------------------
(* Acceptance of an input: _enqueue_prompt_in_connection                   *)

(* The rows of the same command or occurrence are already there. *)
IsTickItem(i, c) == i.cmd = Tick /\ i.task = c.task /\ i.rev = c.rev /\ i.due = c.due

NewItem(cmd, t, rev, due) ==
    [cmd |-> cmd, task |-> t, rev |-> rev, due |-> due,
     mode |-> IF running THEN "STEER" ELSE "NEW_TURN", status |-> "PENDING"]

(* Mutation: the next run is computed from the clock. *)
SettleFromNow(t, manual) ==
    LET due == NextOccurrence(task[t].rule, now) IN
    IF task[t].rule.kind = "once" THEN Deleted(t)
    ELSE IF manual THEN task[t]
    ELSE IF due # 0 THEN [task[t] EXCEPT !.due = due]
    ELSE Paused(t)

(* _settle_scheduled_acceptance_in_connection: a one-shot retires, a plan   *)
(* of the timer advances by exactly this occurrence.                        *)
Settle(t, manual) ==
    LET due == NextOccurrence(task[t].rule, task[t].due) IN
    IF task[t].rule.kind = "once" THEN Deleted(t)
    ELSE IF manual THEN task[t]
    ELSE IF due # 0 THEN [task[t] EXCEPT !.due = due]
    ELSE Paused(t)

(* Mutation: any due run of the plan will do. *)
TickCutIsDue(c) == task[c.task].status = "ACTIVE" /\ task[c.task].due <= now

(* _prepare_scheduled_dispatch_in_connection, for the timer *)
TickCutHolds(c) ==
    LET t == c.task IN
    /\ task[t].status = "ACTIVE"
    /\ task[t].rev = c.rev
    /\ task[t].due = c.due
    /\ c.due <= now

ManualCutHolds(r) == Exists(r.task) /\ task[r.task].rev = r.rev

-----------------------------------------------------------------------------
(* run_now                                                                 *)

(* It reads the plan and fixes the request. *)
RunNow(cmd, t) ==
    /\ \E k \in Kernels : Up(k)
    /\ request[cmd] = NoRequest
    /\ Exists(t) /\ ~IsExpiredOnce(t)
    /\ request' = [request EXCEPT ![cmd] = [task |-> t, rev |-> task[t].rev, at |-> now]]
    /\ UNCHANGED <<now, task, items, running, writer, kernelVars, stopped>>

(* The submission of a request, which its user may repeat. *)
SubmitManual(k, cmd) ==
    LET r == request[cmd] IN
    /\ writer = k /\ Up(k)
    /\ r # NoRequest
    /\ \A i \in items : i.cmd # cmd
    /\ ~IsExpiredOnce(r.task)
    /\ ManualCutHolds(r)
    /\ items' = items \cup {NewItem(cmd, r.task, r.rev, r.at)}
    /\ Put(r.task, Settle(r.task, TRUE))
    /\ UNCHANGED <<now, running, writer, kernelVars, request, stopped>>

-----------------------------------------------------------------------------
(* The timer of one kernel: tick and _dispatch                             *)

Goes(k, s) == step' = [step EXCEPT ![k] = s]

StartKernel(k) ==
    /\ ~Up(k)
    /\ started' = [started EXCEPT ![k] = now]
    /\ UNCHANGED <<now, task, items, running, writer, scan, step, cut, request, stopped>>

(* list_scheduled_tasks(due_only) *)
DueRows ==
    {[task |-> t, status |-> task[t].status, due |-> task[t].due, rev |-> task[t].rev] :
        t \in {u \in Tasks : \/ task[u].status = "ACTIVE" /\ task[u].due <= now
                             \/ IsExpiredOnce(u)}}

BeginPass(k) ==
    /\ Up(k)
    /\ step[k] = "NONE" /\ scan[k] = {}
    /\ DueRows # {}
    /\ scan' = [scan EXCEPT ![k] = DueRows]
    /\ UNCHANGED <<now, task, items, running, writer, started, step, cut, request, stopped>>

VisitRow(k) ==
    /\ step[k] = "NONE"
    /\ \E row \in scan[k] :
          /\ scan' = [scan EXCEPT ![k] = @ \ {row}]
          /\ cut' = [cut EXCEPT ![k] = row]
          /\ Goes(k, IF row.status = "PAUSED" THEN "EXPIRE"
                     ELSE IF row.due < started[k] THEN "RETIRE" ELSE "OBSERVE")
    /\ UNCHANGED <<now, task, items, running, writer, started, request, stopped>>

rowFrame == <<now, running, writer, started, scan, cut, request, stopped>>

(* retire_expired_paused_once *)
ExpireRow(k) ==
    LET t == cut[k].task IN
    /\ step[k] = "EXPIRE"
    /\ CanManage(k)
    /\ IF task[t].rev = cut[k].rev /\ IsExpiredOnce(t) THEN Delete(t) ELSE UNCHANGED <<task, items>>
    /\ Goes(k, "NONE")
    /\ UNCHANGED rowFrame

(* retire_missed_scheduled_due: what came before this run of the kernel is  *)
(* skipped.                                                                 *)
RetireMissed(k) ==
    LET t == cut[k].task
        due == NextOccurrence(task[t].rule, started[k]) IN
    /\ step[k] = "RETIRE"
    /\ CanManage(k)
    /\ IF task[t].status = "ACTIVE" /\ task[t].rev = cut[k].rev /\ task[t].due = cut[k].due
       THEN Put(t, IF task[t].rule.kind = "once" THEN Deleted(t)
                   ELSE IF due # 0 THEN [task[t] EXCEPT !.due = due]
                   ELSE Paused(t))
       ELSE UNCHANGED task
    /\ Goes(k, "NONE")
    /\ UNCHANGED <<items, rowFrame>>

(* observe_scheduled_due *)
ObserveDue(k) ==
    /\ step[k] = "OBSERVE"
    /\ CanManage(k)
    /\ Goes(k, IF TickCutHolds(cut[k]) THEN "SUBMIT" ELSE "NONE")
    /\ UNCHANGED <<task, items, rowFrame>>

(* _submit: the occurrence was accepted before, or is accepted now. *)
SubmitTick(k) ==
    LET c == cut[k] IN
    /\ step[k] = "SUBMIT"
    /\ writer = k
    /\ \/ \E i \in items : IsTickItem(i, c) /\ UNCHANGED <<task, items>>
       \/ /\ \A i \in items : ~IsTickItem(i, c)
          /\ TickCutHolds(c)
          /\ items' = items \cup {NewItem(Tick, c.task, c.rev, c.due)}
          /\ Put(c.task, Settle(c.task, FALSE))
    /\ Goes(k, "NONE")
    /\ UNCHANGED rowFrame

(* The host refuses for good (no model, blocked by a hook, no workspace). *)
SubmitRefused(k) ==
    /\ step[k] = "SUBMIT"
    /\ Goes(k, "PAUSE")
    /\ UNCHANGED <<task, items, rowFrame>>

(* _pause *)
PauseRow(k) ==
    LET t == cut[k].task IN
    /\ step[k] = "PAUSE"
    /\ CanManage(k)
    /\ IF TickCutHolds(cut[k]) THEN Put(t, Paused(t)) ELSE UNCHANGED task
    /\ Goes(k, "NONE")
    /\ UNCHANGED <<items, rowFrame>>

(* Any other failure, or an acknowledgement that was lost: the row waits    *)
(* for another pass.                                                        *)
RowFails(k) ==
    /\ step[k] # "NONE"
    /\ Goes(k, "NONE")
    /\ UNCHANGED <<task, items, rowFrame>>

-----------------------------------------------------------------------------
(* The environment                                                         *)

StopKernel(k) ==
    /\ Up(k)
    /\ started' = [started EXCEPT ![k] = 0]
    /\ scan' = [scan EXCEPT ![k] = {}]
    /\ step' = [step EXCEPT ![k] = "NONE"]
    /\ cut' = [cut EXCEPT ![k] = NoCut]
    /\ UNCHANGED <<now, task, items, running, writer, request, stopped>>

(* resume_scheduled_session, or a user who opens the session *)
OpenSession(k) ==
    /\ Up(k)
    /\ writer # k
    /\ writer' = k
    /\ UNCHANGED <<now, task, items, running, kernelVars, request, stopped>>

(* The session is closed, or the lease of its writer runs out. *)
WriterGone ==
    /\ writer # None
    /\ writer' = None
    /\ UNCHANGED <<now, task, items, running, kernelVars, request, stopped>>

ClockTicks ==
    /\ now < MaxTime
    /\ now' = now + 1
    /\ UNCHANGED <<task, items, running, writer, kernelVars, request, stopped>>

(* Queue delivery and the turns of the session, see SessionKernel. *)
ConsumeItem(i) ==
    /\ i.status = "PENDING"
    /\ writer # None
    /\ i.mode = "STEER" <=> running
    /\ running' = TRUE
    /\ items' = (items \ {i}) \cup {[i EXCEPT !.status = "CONSUMED"]}
    /\ UNCHANGED <<now, task, writer, kernelVars, request, stopped>>

TurnStarts ==
    /\ ~running /\ writer # None
    /\ running' = TRUE
    /\ UNCHANGED <<now, task, items, writer, kernelVars, request, stopped>>

TurnEnds ==
    /\ running
    /\ running' = FALSE
    /\ items' = {[i EXCEPT !.status = IF i.mode = "STEER" /\ i.status = "PENDING"
                                      THEN "REJECTED" ELSE @] : i \in items}
    /\ UNCHANGED <<now, task, writer, kernelVars, request, stopped>>

-----------------------------------------------------------------------------
Management ==
    \E t \in Tasks :
        \/ \E rule \in Rules, status \in {"ACTIVE", "PAUSED"} : CreateScheduledTask(t, rule, status)
        \/ ExpireManaged(t) \/ PauseScheduledTask(t) \/ DeleteScheduledTask(t) \/ ResumeScheduledTask(t)
        \/ \E rule \in Rules : UpdateScheduledTask(t, rule)
        \/ \E u \in Tasks, rule \in Rules : SwitchScheduledTask(t, u, rule)
        \/ \E cmd \in Commands : RunNow(cmd, t)

Row(k) == ExpireRow(k) \/ RetireMissed(k) \/ ObserveDue(k) \/ SubmitTick(k) \/ PauseRow(k)

Timer(k) ==
    \/ StartKernel(k) \/ BeginPass(k) \/ VisitRow(k)
    \/ Row(k) \/ SubmitRefused(k) \/ RowFails(k)

Environment ==
    \/ \E k \in Kernels : StopKernel(k) \/ OpenSession(k)
    \/ \E k \in Kernels, cmd \in Commands : SubmitManual(k, cmd)
    \/ WriterGone \/ ClockTicks \/ TurnStarts \/ TurnEnds
    \/ \E i \in items : ConsumeItem(i)

Next == Management \/ (\E k \in Kernels : Timer(k)) \/ Environment

Spec == Init /\ [][Next]_vars

-----------------------------------------------------------------------------
(* Safety                                                                  *)

(* A session has one active plan at most, however creations, resumptions    *)
(* and switches interleave with the timer.                                  *)
OneActivePlan ==
    \A t, u \in Tasks : task[t].status = "ACTIVE" /\ task[u].status = "ACTIVE" => t = u

(* An occurrence enters the queue once: not again by another kernel, after  *)
(* a lost acknowledgement, a restart, or an edit that changes the revision. *)
OccurrenceQueuedOnce ==
    \A i, j \in items :
        i.cmd = Tick /\ j.cmd = Tick /\ i.task = j.task /\ i.due = j.due => i = j

(* A plan never goes back in time: its next run lies after every occurrence *)
(* it has queued.                                                           *)
NextRunIsAhead ==
    \A t \in Tasks : task[t].status = "ACTIVE" =>
        \A i \in items : i.cmd = Tick /\ i.task = t => i.due < task[t].due

(* What a stopped plan had queued does not start a turn later, also when    *)
(* its submission was under way when the user stopped it.                   *)
StoppedPlanQueuesNothing ==
    \A i \in items :
        i.mode = "NEW_TURN" /\ i.status = "PENDING" => i.rev >= stopped[i.task]

(* The plans of a session: well formed, one active, none whose occurrences  *)
(* are queued twice or in the past, none that acts after it was stopped.    *)
PlanInv ==
    /\ TypeOK
    /\ OneActivePlan
    /\ OccurrenceQueuedOnce
    /\ NextRunIsAhead
    /\ StoppedPlanQueuesNothing

(* While nobody manages a plan its timer passes over an occurrence only     *)
(* after queueing it, unless the occurrence is not later than the start of  *)
(* a kernel.                                                                *)
OnlyEarlyOnesPassedOver(t) ==
    \A o \in task[t].due .. (task'[t].due - 1) :
        Occurs(task[t].rule, o) =>
            \/ \E k \in Kernels : Up(k) /\ o <= started[k]
            \/ \E i \in items' : i.cmd = Tick /\ i.task = t /\ i.due = o

Advances(t) ==
    /\ task[t].status = "ACTIVE" /\ task'[t].status = "ACTIVE"
    /\ task'[t].rev = task[t].rev

NoLiveOccurrenceSkipped ==
    [][\A t \in Tasks : Advances(t) => OnlyEarlyOnesPassedOver(t)]_vars

=============================================================================
