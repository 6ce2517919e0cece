----------------------------- MODULE Compaction -----------------------------
(***************************************************************************)
(* Context compaction of one session on one Host: a summary of the older   *)
(* history replaces it as the base of the provider input.  Three kinds of  *)
(* tasks ask for one: a manual command on an idle session, the ROOT turn   *)
(* that has outgrown its budget, and a writer whose input does not fit.    *)
(* All of them pass HostCompactionRuntimeOwner (one summary lane, a fence  *)
(* per scope, waiters of manual commands), take the safe-point handle,     *)
(* stream a summary, and hand the prepared snapshot to a settlement task   *)
(* that is drained whatever happens to its waiter.                         *)
(*                                                                         *)
(* Summaries, token counts and wire plans are left out: whether a plan     *)
(* fits is a choice.  The store keeps the facts an adoption is checked     *)
(* against: the head of the transcript, the binding revision, the latest   *)
(* turn and whether it runs, the pending NEW_TURN prompts and the command  *)
(* rows.  A context base is named by the revision that installed it.       *)
(***************************************************************************)
EXTENDS Naturals, FiniteSets, Sequences

CONSTANTS
    Commands,       \* manual compaction command ids
    Writers,        \* tasks that append entries under a write reservation
    Root,           \* the active ROOT task
    None,
    MaxHead,        \* bound on transcript entries
    MaxPrompts,     \* bound on prompts submitted
    MaxRevs,        \* bound on the revisions the turn and the writers adopt
    MaxReplans,     \* bound on restarts of one attempt with a smaller tail
    MaxFailures,    \* policy.maximum_consecutive_auto_failures
    MaxOutcomes,    \* outcomes kept for retries (256 in the code)
    MaxFaults,      \* bound on lost acknowledgements
    MaxStops,       \* bound on stop requests
    MaxCrashes,     \* bound on Host crashes
    MaxTroubles,    \* bound on faults, stops and crashes together
    Takeovers,      \* another Host may take the session over
    LockHeld,       \* the Host lock may be held across an await by another task
    SlowQuery       \* a caller's lookup of the row may be answered late

ASSUME CompactionAssumption ==
    /\ Root \notin Commands \cup Writers
    /\ Commands \cap Writers = {}
    /\ None \notin Commands \cup Writers \cup {Root}
    /\ {MaxHead, MaxPrompts, MaxRevs, MaxReplans, MaxFaults, MaxStops, MaxCrashes,
        MaxTroubles} \subseteq Nat
    /\ {MaxFailures, MaxOutcomes} \subseteq Nat \ {0}
    /\ {Takeovers, LockHeld, SlowQuery} \subseteq BOOLEAN

Tasks == Commands \cup Writers \cup {Root}

Phases == {"PREPARING", "STREAMING", "REPAIRING", "ADOPTION_PREPARED", "SETTLING"}

Results == {"none", "COMPACTED", "SUCCESSOR", "BLOCKED", "FAILED", "NOT_NEEDED",
            "HOOK_BLOCKED", "POST_FAILURE", "CANCELLED", "STALE"}

Settlements ==
    [owner : Tasks, base : Nat, head : Nat, empty : BOOLEAN,
     pc : {"confirm", "adopt", "reconfirm", "hooks", "status", "rotate", "done"},
     proceed : BOOLEAN, res : Results]

\* None is no task and no record, and the two other holders of a handle no tasks.
ASSUME NoneAssumption ==
    /\ None \notin [owner : Tasks, phase : Phases] \cup [cmd : Commands, started : BOOLEAN]
                   \cup Settlements
    /\ {"settlement", "successor"} \cap (Tasks \cup {None}) = {}

VARIABLES
    host,       \* "open", "closing", "joining" (owner closing), "closed"
    stale,      \* this Host lost the writer lease
    lane,       \* holder of _summary_lane
    fence,      \* _fenced_scopes: None or [owner, phase]
    writes,     \* _compaction_write_reservations
    pc,         \* program counter of every task
    cancel,     \* cancellation requested of a task and not yet delivered
    plan,       \* per task: the frozen cut of its attempt, and its restarts
    result,     \* per task: how its last attempt ended
    waiter,     \* _manual: the command whose request is pending, with started
    outcomes,   \* _manual_outcomes, oldest first
    asked,      \* commands a caller found without a row and has not yet admitted
    told,       \* per command: what this Host last told its caller
    ran,        \* per command: fences installed for it, over all restarts
    settle,     \* the settlement task: what it adopts, its pc and its result
    store,      \* canonical facts
    cont,       \* the continuity slot: kind and the base it stands on
    handle,     \* holder of the safe-point handle
    failures,   \* _auto_failures
    budget      \* faults, stops, crashes and prompts still allowed

owner == <<host, stale, lane, fence, writes>>
manual == <<waiter, outcomes, asked, told, ran>>
vars == <<host, stale, lane, fence, writes, pc, cancel, plan, result, waiter, outcomes,
          asked, told, ran, settle, store, cont, handle, failures, budget>>

\* pc values of an attempt between acquiring the lane and removing the fence.
Fenced == {"freeze", "plan", "stream", "repair", "fit", "join", "remove"}

Attempting == Fenced \cup {"lane", "install", "ended"}

Told == {"none", "COMPACTED", "FAILED", "BUSY", "NOT_NEEDED", "CANCELLED", "CLOSING",
         "UNAVAILABLE"}

\* The row of a command holds the digest of its source cut.
Cuts == [cmd : Commands, base : Nat, head : Nat, turn : Nat]

TypeOK ==
    /\ host \in {"open", "closing", "joining", "closed"}
    /\ stale \in BOOLEAN
    /\ lane \in Tasks \cup {None}
    /\ fence = None \/ fence \in [owner : Tasks, phase : Phases]
    /\ writes \subseteq Writers
    /\ pc \in [Tasks -> Attempting \cup {"off", "admit", "run", "model", "hold", "release",
                                         "check", "confirm", "accept", "request", "claim",
                                         "settle"}]
    /\ cancel \in [Tasks -> BOOLEAN]
    /\ plan \in [Tasks -> [base : Nat, head : Nat, turn : Nat, replans : 0..MaxReplans]]
    /\ result \in [Tasks -> Results]
    /\ waiter = None \/ waiter \in [cmd : Commands, started : BOOLEAN]
    /\ outcomes \in Seq([cmd : Commands, out : Told]) /\ Len(outcomes) <= MaxOutcomes
    /\ asked \subseteq Commands
    /\ told \in [Commands -> Told]
    /\ ran \in [Commands -> Nat]
    /\ settle = None \/ settle \in Settlements
    /\ store \in [head : 0..MaxHead, rev : Nat, by : Tasks \cup {None}, turn : Nat,
                  running : BOOLEAN, pending : Nat, rows : SUBSET Cuts,
                  adopted : SUBSET Commands]
    /\ cont \in [kind : {"EMPTY", "PENDING", "ABANDONED", "INSTALLED", "QUARANTINE", "CLOSED"},
                 base : Nat]
    /\ handle \in Tasks \cup {None, "settlement", "successor"}
    /\ failures \in 0..MaxFailures
    /\ budget \in [faults : Nat, stops : Nat, crashes : Nat, prompts : Nat]

NoPlan == [base |-> 0, head |-> 0, turn |-> 0, replans |-> 0]

Init ==
    /\ host = "open" /\ stale = FALSE
    /\ lane = None /\ fence = None /\ writes = {}
    /\ pc = [t \in Tasks |-> "off"] /\ cancel = [t \in Tasks |-> FALSE]
    /\ plan = [t \in Tasks |-> NoPlan] /\ result = [t \in Tasks |-> "none"]
    /\ waiter = None /\ outcomes = <<>> /\ asked = {}
    /\ told = [c \in Commands |-> "none"] /\ ran = [c \in Commands |-> 0]
    /\ settle = None
    /\ store = [head |-> 0, rev |-> 0, by |-> None, turn |-> 0, running |-> FALSE,
                pending |-> 0, rows |-> {}, adopted |-> {}]
    /\ cont = [kind |-> "EMPTY", base |-> 0]
    /\ handle = None /\ failures = 0
    /\ budget \in [faults : 0..MaxFaults, stops : 0..MaxStops, crashes : 0..MaxCrashes,
                   prompts : {MaxPrompts}]
    /\ budget.faults + budget.stops + budget.crashes = MaxTroubles

Goto(t, p) == pc' = [pc EXCEPT ![t] = p]

\* HostCompactionRuntimeOwner.has_active_work: a fence, or an owned or settling task.
HasActiveWork == fence # None \/ settle # None \/ \E c \in Commands : pc[c] # "off"

OwnerClosing == host \in {"joining", "closed"}

Append1 == store.head < MaxHead

-----------------------------------------------------------------------------
(* The ROOT turn and the prompt queue *)

\* A prompt is queued (accepted also while a compaction runs).
SubmitPrompt ==
    /\ host = "open" /\ ~stale /\ budget.prompts > 0
    /\ budget' = [budget EXCEPT !.prompts = @ - 1]
    /\ store' = [store EXCEPT !.pending = @ + 1]
    /\ UNCHANGED <<owner, manual, pc, cancel, plan, result, settle, cont, handle, failures>>

\* _prompt_delivery_loop: the last check under the Host lock, then the active
\* task is installed; the queue row is still pending.
MutDeliverUnchecked ==
    /\ store.pending > 0 /\ pc[Root] = "off" /\ host = "open"
    /\ fence = None
    /\ Goto(Root, "admit")
    /\ UNCHANGED <<owner, manual, cancel, plan, result, settle, store, cont, handle, failures,
                   budget>>

Deliver ==
    /\ store.pending > 0 /\ pc[Root] = "off" /\ host = "open"
    /\ fence = None /\ ~HasActiveWork
    /\ Goto(Root, "admit")
    /\ UNCHANGED <<owner, manual, cancel, plan, result, settle, store, cont, handle, failures,
                   budget>>

\* The task consumes the prompt: turn and first entry in one transaction.
StartTurn ==
    /\ pc[Root] = "admit" /\ ~cancel[Root] /\ ~stale /\ Append1
    /\ store' = [store EXCEPT !.pending = @ - 1, !.turn = @ + 1, !.running = TRUE,
                              !.head = @ + 1]
    /\ Goto(Root, "run")
    /\ UNCHANGED <<owner, manual, cancel, plan, result, settle, cont, handle, failures, budget>>

\* The ROOT task ends: completed, interrupted, failed, or before it started.
EndRoot ==
    /\ \/ pc[Root] = "run"
       \/ pc[Root] = "admit" /\ (cancel[Root] \/ stale)
    /\ store' = IF stale THEN store ELSE [store EXCEPT !.running = FALSE]
    /\ Goto(Root, "off")
    /\ cancel' = [cancel EXCEPT ![Root] = FALSE]
    /\ UNCHANGED <<owner, manual, plan, result, settle, cont, handle, failures, budget>>

\* A tool result of the running turn.
RootAppend ==
    /\ pc[Root] = "run" /\ ~cancel[Root] /\ ~stale /\ store.running /\ Append1
    /\ store' = [store EXCEPT !.head = @ + 1]
    /\ UNCHANGED <<owner, manual, pc, cancel, plan, result, settle, cont, handle, failures,
                   budget>>

\* The ordinary call: behind the writers' barrier, the input is frozen and
\* installed.  An installed slot is appended to, an Empty one starts cold.
RootDispatch ==
    /\ pc[Root] = "run" /\ ~cancel[Root] /\ ~stale /\ store.running
    /\ writes = {} /\ handle = None /\ cont.kind \in {"EMPTY", "INSTALLED"}
    /\ handle' = Root
    /\ cont' = IF cont.kind = "INSTALLED" THEN cont
               ELSE [kind |-> "INSTALLED", base |-> store.rev]
    /\ Goto(Root, "model")
    /\ UNCHANGED <<owner, manual, cancel, plan, result, settle, store, failures, budget>>

\* The answer is accepted (or the call is cut off) and the handle released.
RootAnswer ==
    /\ pc[Root] = "model"
    /\ handle' = None /\ Goto(Root, "run")
    /\ \/ Append1 /\ ~stale /\ store' = [store EXCEPT !.head = @ + 1]
       \/ store' = store
    /\ UNCHANGED <<owner, manual, cancel, plan, result, settle, cont, failures, budget>>

\* The turn has outgrown its input budget and the circuit is closed.
RootCompact ==
    /\ pc[Root] = "run" /\ ~cancel[Root] /\ writes = {} /\ failures < MaxFailures
    /\ store.rev < MaxRevs
    /\ Goto(Root, "lane")
    /\ UNCHANGED <<owner, manual, cancel, plan, result, settle, store, cont, handle, failures, budget>>

\* A stop of the turn.
StopTurn ==
    /\ budget.stops > 0 /\ host = "open"
    /\ pc[Root] # "off" /\ ~cancel[Root]
    /\ budget' = [budget EXCEPT !.stops = @ - 1]
    /\ cancel' = [cancel EXCEPT ![Root] = TRUE]
    /\ UNCHANGED <<owner, manual, pc, plan, result, settle, store, cont, handle, failures>>

-----------------------------------------------------------------------------
(* Writers: entries accepted from outside the ROOT task *)

\* _reserve_compaction_write_locked: refused while a fence is installed.
WriterReserve(w) ==
    /\ pc[w] = "off" /\ host = "open" /\ fence = None
    /\ writes' = writes \cup {w}
    /\ Goto(w, "hold")
    /\ UNCHANGED <<host, stale, lane, fence, manual, cancel, plan, result, settle, store, cont,
                   handle, failures, budget>>

\* The entry fits: frozen, admitted and published under one handle.  The
\* second disjunct is a refusal (no running turn, handle taken, lost lease).
WriterWrite(w) ==
    /\ pc[w] = "hold"
    /\ \/ /\ handle = None /\ ~stale /\ store.running /\ Append1
          /\ store' = [store EXCEPT !.head = @ + 1]
       \/ store' = store
    /\ Goto(w, "release")
    /\ UNCHANGED <<owner, manual, cancel, plan, result, settle, cont, handle, failures, budget>>

\* The entry does not fit: recover_pending_active_root_input.
WriterCompact(w) ==
    /\ pc[w] = "hold" /\ handle = None /\ ~stale /\ store.running /\ store.rev < MaxRevs
    /\ Goto(w, "lane")
    /\ UNCHANGED <<owner, manual, cancel, plan, result, settle, store, cont, handle, failures, budget>>

WriterRelease(w) ==
    /\ pc[w] = "release"
    /\ writes' = writes \ {w}
    /\ Goto(w, "off")
    /\ UNCHANGED <<host, stale, lane, fence, manual, cancel, plan, result, settle, store, cont,
                   handle, failures, budget>>

\* The attempt returned: a prospective input is published and its dispatch
\* abandoned (the slot is Empty on the adopted base); anything else fails.
WriterEnded(w) ==
    /\ pc[w] = "ended"
    /\ \/ /\ result[w] = "SUCCESSOR" /\ handle = "successor"
          /\ handle' = None
          /\ cont' = [kind |-> "EMPTY", base |-> store.rev]
          /\ store' = IF Append1 /\ ~stale /\ store.running
                      THEN [store EXCEPT !.head = @ + 1] ELSE store
          /\ UNCHANGED failures
       \/ /\ result[w] # "SUCCESSOR"
          /\ failures' = IF result[w] = "FAILED" /\ failures < MaxFailures
                         THEN failures + 1 ELSE failures
          /\ UNCHANGED <<handle, cont, store>>
    /\ result' = [result EXCEPT ![w] = "none"]
    /\ plan' = [plan EXCEPT ![w] = NoPlan]
    /\ Goto(w, "release")
    /\ UNCHANGED <<owner, manual, cancel, settle, budget>>

-----------------------------------------------------------------------------
(* Manual commands *)

Idle == /\ pc[Root] = "off" /\ writes = {} /\ ~HasActiveWork

OutcomeOf(c) == {outcomes[i].out : i \in {j \in 1..Len(outcomes) : outcomes[j].cmd = c}}

HasRow(c) == \E row \in store.rows : row.cmd = c

\* compact_context without a task of its own: a command with a row is only
\* looked up, a new one needs an idle session.
RequestCommand(c) ==
    /\ host = "open" /\ pc[c] = "off"
    /\ \/ /\ HasRow(c) /\ OutcomeOf(c) # {}
          /\ \E out \in OutcomeOf(c) : told' = [told EXCEPT ![c] = out]
          /\ UNCHANGED pc
       \/ /\ HasRow(c) /\ OutcomeOf(c) = {}
          /\ told' = [told EXCEPT ![c] = "UNAVAILABLE"]
          /\ UNCHANGED pc
       \/ /\ ~HasRow(c) /\ ~Idle
          /\ told' = [told EXCEPT ![c] = "BUSY"]
          /\ UNCHANGED pc
       \/ /\ ~HasRow(c) /\ Idle
          /\ Goto(c, "check") /\ told' = [told EXCEPT ![c] = "none"]
    /\ UNCHANGED <<owner, cancel, plan, result, waiter, outcomes, asked, ran, settle, store, cont,
                   handle, failures, budget>>

\* The same with a lookup answered late: "no row" is acted upon after the Host
\* lock is taken, whatever became of the command in between.
QuerySlowly(c) ==
    /\ SlowQuery /\ host = "open" /\ c \notin asked /\ ~HasRow(c)
    /\ asked' = asked \cup {c}
    /\ UNCHANGED <<owner, pc, cancel, plan, result, waiter, outcomes, told, ran, settle, store,
                   cont, handle, failures, budget>>

RequestLate(c) ==
    /\ c \in asked
    /\ asked' = asked \ {c}
    /\ \/ (host # "open" \/ pc[c] # "off") /\ UNCHANGED <<told, pc>>
       \/ /\ host = "open" /\ pc[c] = "off" /\ ~Idle
          /\ told' = [told EXCEPT ![c] = "BUSY"] /\ UNCHANGED pc
       \/ /\ host = "open" /\ pc[c] = "off" /\ Idle
          /\ Goto(c, "check") /\ told' = [told EXCEPT ![c] = "none"]
    /\ UNCHANGED <<owner, cancel, plan, result, waiter, outcomes, ran, settle, store, cont,
                   handle, failures, budget>>

\* The command task returns without a request to settle.
Return(c, out) ==
    /\ told' = [told EXCEPT ![c] = out]
    /\ cancel' = [cancel EXCEPT ![c] = FALSE]
    /\ Goto(c, "off")

StopWord == IF host = "open" THEN "CANCELLED" ELSE "CLOSING"

\* _prepare_idle_manual_compaction: the queue, the latest terminal turn and
\* the source cut are read; a cancellation ends the task here.
CommandCheck(c) ==
    /\ pc[c] = "check"
    /\ \/ cancel[c] /\ Return(c, StopWord) /\ UNCHANGED plan
       \/ ~cancel[c] /\ store.pending > 0 /\ Return(c, "BUSY") /\ UNCHANGED plan
       \/ /\ ~cancel[c] /\ store.pending = 0 /\ store.turn = 0
          /\ Return(c, "NOT_NEEDED") /\ UNCHANGED plan
       \/ ~cancel[c] /\ stale /\ Return(c, "FAILED") /\ UNCHANGED plan
       \/ /\ ~cancel[c] /\ ~stale /\ store.pending = 0 /\ store.turn > 0
          /\ plan' = [plan EXCEPT ![c] = [base |-> store.rev, head |-> store.head,
                                          turn |-> store.turn, replans |-> 0]]
          /\ Goto(c, "confirm") /\ UNCHANGED <<told, cancel>>
    /\ UNCHANGED <<owner, result, waiter, outcomes, asked, ran, settle, store, cont, handle, failures,
                   budget>>

\* The row this task would write.
Row(c) == [cmd |-> c, base |-> plan[c].base, head |-> plan[c].head, turn |-> plan[c].turn]

\* _settle_manual_compaction_command_worker: confirm before every write.
CommandConfirm(c) ==
    /\ pc[c] = "confirm"
    /\ \/ stale /\ Return(c, "FAILED")
       \/ ~stale /\ Row(c) \in store.rows /\ Goto(c, "request") /\ UNCHANGED <<told, cancel>>
       \/ ~stale /\ HasRow(c) /\ Row(c) \notin store.rows /\ Return(c, "FAILED")
       \/ /\ ~stale /\ ~HasRow(c)
          /\ (host # "open" \/ cancel[c])
          /\ Return(c, "FAILED")
       \/ /\ ~stale /\ ~HasRow(c) /\ host = "open" /\ ~cancel[c]
          /\ Goto(c, "accept") /\ UNCHANGED <<told, cancel>>
    /\ UNCHANGED <<owner, plan, result, waiter, outcomes, asked, ran, settle, store, cont, handle,
                   failures, budget>>

\* accept_manual_compaction_command: the row is written only if nothing waits
\* or runs and the target turn, the revision and the head are the ones read.
AcceptPrecondition(c) ==
    /\ store.pending = 0 /\ ~store.running
    /\ store.turn = plan[c].turn /\ store.rev = plan[c].base /\ store.head = plan[c].head

CommandAccept(c) ==
    /\ pc[c] = "accept"
    /\ \/ /\ ~stale /\ AcceptPrecondition(c)
          /\ store' = [store EXCEPT !.rows = @ \cup {Row(c)}]
          /\ Goto(c, "request") /\ UNCHANGED <<told, cancel, budget>>
       \/ /\ ~stale /\ AcceptPrecondition(c) /\ budget.faults > 0
          /\ budget' = [budget EXCEPT !.faults = @ - 1]
          /\ store' \in {store, [store EXCEPT !.rows = @ \cup {Row(c)}]}
          /\ Goto(c, "confirm") /\ UNCHANGED <<told, cancel>>
       \/ /\ ~stale /\ ~AcceptPrecondition(c)
          /\ Return(c, IF host # "open" \/ cancel[c] THEN "FAILED"
                       ELSE IF store.pending > 0 \/ store.running THEN "BUSY" ELSE "FAILED")
          /\ UNCHANGED <<store, budget>>
       \/ stale /\ Return(c, "FAILED") /\ UNCHANGED <<store, budget>>
    /\ UNCHANGED <<owner, plan, result, waiter, outcomes, asked, ran, settle, cont, handle, failures>>

\* request_manual: an outcome kept for the command is its answer, else a waiter
\* is registered, even when the task is being cancelled; that is raised after it.
CommandRequest(c) ==
    /\ pc[c] = "request"
    /\ IF OwnerClosing \/ (OutcomeOf(c) = {} /\ waiter # None)
       THEN Return(c, "FAILED") /\ UNCHANGED <<waiter, result>>
       ELSE /\ waiter' = IF OutcomeOf(c) = {} THEN [cmd |-> c, started |-> FALSE] ELSE waiter
            /\ UNCHANGED told
            /\ IF cancel[c] \/ host # "open"
               THEN /\ result' = [result EXCEPT ![c] = "CANCELLED"]
                    /\ cancel' = [cancel EXCEPT ![c] = FALSE]
                    /\ Goto(c, "settle")
               ELSE Goto(c, "claim") /\ UNCHANGED <<result, cancel>>
    /\ UNCHANGED <<owner, plan, outcomes, asked, ran, settle, store, cont, handle, failures, budget>>

\* claim_manual_execution: the future may be answered already, by the outcome
\* found or by the owner's close.
CommandClaim(c) ==
    /\ pc[c] = "claim"
    /\ \/ /\ waiter = None /\ OutcomeOf(c) = {}
          /\ Return(c, "CLOSING") /\ UNCHANGED waiter
       \/ /\ waiter = None
          /\ \E out \in OutcomeOf(c) : Return(c, out)
          /\ UNCHANGED waiter
       \/ /\ waiter # None
          /\ waiter' = [waiter EXCEPT !.started = TRUE]
          /\ Goto(c, "lane") /\ UNCHANGED <<told, cancel>>
    /\ UNCHANGED <<owner, plan, result, outcomes, asked, ran, settle, store, cont, handle, failures,
                   budget>>

\* compact_idle_turn returned: what the caller is told.
OutcomeWord(res) ==
    CASE res \in {"COMPACTED", "POST_FAILURE"} -> "COMPACTED"
      [] res = "CANCELLED" -> StopWord
      [] OTHER -> "FAILED"

CommandEnded(c) ==
    /\ pc[c] = "ended"
    /\ Goto(c, "settle")
    /\ UNCHANGED <<owner, manual, cancel, plan, result, settle, store, cont, handle, failures,
                   budget>>

\* settle_manual, drained: the outcome is kept for retries, oldest dropped.
CommandSettle(c) ==
    /\ pc[c] = "settle"
    /\ LET out == OutcomeWord(result[c])
           kept == Append(outcomes, [cmd |-> c, out |-> out])
       IN  /\ IF waiter # None /\ waiter.cmd = c
              THEN /\ waiter' = None
                   /\ outcomes' = IF Len(kept) > MaxOutcomes THEN Tail(kept) ELSE kept
              ELSE UNCHANGED <<waiter, outcomes>>
           /\ Return(c, out)
    /\ result' = [result EXCEPT ![c] = "none"]
    /\ plan' = [plan EXCEPT ![c] = NoPlan]
    /\ UNCHANGED <<owner, asked, ran, settle, store, cont, handle, failures, budget>>

\* stop_manual_compaction cancels the exact task.
StopCommand(c) ==
    /\ budget.stops > 0 /\ host = "open" /\ pc[c] # "off" /\ ~cancel[c]
    /\ budget' = [budget EXCEPT !.stops = @ - 1]
    /\ cancel' = [cancel EXCEPT ![c] = TRUE]
    /\ UNCHANGED <<owner, manual, pc, plan, result, settle, store, cont, handle, failures>>

-----------------------------------------------------------------------------
(* One attempt: run_fenced and the fenced operation *)

Phase(p) == [fence EXCEPT !.phase = p]

\* The attempt of t leaves the fenced operation with res; its handle is closed.
Leave(t, res) ==
    /\ result' = [result EXCEPT ![t] = res]
    /\ handle' = IF handle = t THEN None ELSE handle
    /\ Goto(t, "remove")

AcquireLane(t) ==
    /\ pc[t] = "lane" /\ lane = None
    /\ lane' = t
    /\ Goto(t, "install")
    /\ UNCHANGED <<host, stale, fence, writes, manual, cancel, plan, result, settle, store, cont,
                   handle, failures, budget>>

\* A cancellation while t waits for the lane, or for the Host lock.
CancelBeforeFence(t) ==
    /\ pc[t] \in {"lane", "install"} /\ cancel[t]
    /\ lane' = IF lane = t THEN None ELSE lane
    /\ result' = [result EXCEPT ![t] = "CANCELLED"]
    /\ cancel' = [cancel EXCEPT ![t] = FALSE]
    /\ Goto(t, "ended")
    /\ UNCHANGED <<host, stale, fence, writes, manual, plan, settle, store, cont, handle,
                   failures, budget>>

\* _install_compaction_fence under the Host lock: the session is recaptured.
\* A Plan transition in progress refuses it too (the second disjunct of Install).
MayFence(t) ==
    /\ host = "open" /\ fence = None
    /\ writes = (IF t \in Writers THEN {t} ELSE {})
    /\ t \in Commands => pc[Root] = "off"

Install(t) ==
    /\ pc[t] = "install"
    /\ \/ /\ MayFence(t)
          /\ fence' = [owner |-> t, phase |-> "PREPARING"]
          /\ ran' = IF t \in Commands THEN [ran EXCEPT ![t] = @ + 1] ELSE ran
          /\ Goto(t, "freeze")
          /\ UNCHANGED <<lane, result>>
       \/ /\ lane' = None
          /\ result' = [result EXCEPT ![t] = "FAILED"]
          /\ Goto(t, "ended")
          /\ UNCHANGED <<fence, ran>>
    /\ UNCHANGED <<host, stale, writes, waiter, outcomes, asked, told, cancel, plan, settle, store, cont,
                   handle, failures, budget>>

\* The target is in the state the branch needs: running, or latest and terminal.
TargetReady(t) ==
    IF t \in Commands THEN ~store.running /\ store.turn = plan[t].turn ELSE store.running

\* The safe-point handle and the source cut, in one repository read.
Freeze(t) ==
    /\ pc[t] = "freeze"
    /\ \/ /\ handle = None /\ ~stale /\ TargetReady(t) /\ cont.kind \in {"EMPTY", "INSTALLED"}
          /\ handle' = t
          /\ plan' = [plan EXCEPT ![t] = [base |-> store.rev, head |-> store.head,
                                          turn |-> store.turn, replans |-> plan[t].replans]]
          /\ Goto(t, "plan") /\ UNCHANGED result
       \/ stale /\ Leave(t, "STALE") /\ UNCHANGED plan
       \/ Leave(t, "FAILED") /\ UNCHANGED plan
    /\ UNCHANGED <<owner, manual, cancel, settle, store, cont, failures, budget>>

\* Below the trigger (never for a forced attempt), blocked by a PreCompact
\* hook (asked once per attempt), no executable prefix, or promoted.
Plan(t) ==
    /\ pc[t] = "plan"
    /\ \/ t = Root /\ Leave(t, "NOT_NEEDED") /\ UNCHANGED fence
       \/ plan[t].replans = 0 /\ Leave(t, "HOOK_BLOCKED") /\ UNCHANGED fence
       \/ Leave(t, "FAILED") /\ UNCHANGED fence
       \/ /\ fence' = Phase("STREAMING")
          /\ Goto(t, "stream") /\ UNCHANGED <<result, handle>>
    /\ UNCHANGED <<host, stale, lane, writes, manual, cancel, plan, settle, store, cont, failures,
                   budget>>

\* The summary call; one that asks for tools gets one repair.
Stream(t) ==
    /\ pc[t] \in {"stream", "repair"}
    /\ \/ /\ pc[t] = "stream"
          /\ fence' = Phase("REPAIRING")
          /\ Goto(t, "repair") /\ UNCHANGED <<result, handle>>
       \/ /\ fence' = Phase("ADOPTION_PREPARED")
          /\ Goto(t, "fit") /\ UNCHANGED <<result, handle>>
       \/ Leave(t, "FAILED") /\ UNCHANGED fence
    /\ UNCHANGED <<host, stale, lane, writes, manual, cancel, plan, settle, store, cont, failures,
                   budget>>

\* The successor is measured: restart with a smaller tail, give up, or settle.
Fit(t) ==
    /\ pc[t] = "fit"
    /\ \/ /\ plan[t].replans < MaxReplans
          /\ plan' = [plan EXCEPT ![t].replans = @ + 1]
          /\ fence' = Phase("PREPARING")
          /\ handle' = None
          /\ Goto(t, "freeze") /\ UNCHANGED <<result, settle, cont>>
       \/ t \notin Commands /\ Leave(t, "NOT_NEEDED") /\ UNCHANGED <<plan, fence, settle, cont>>
       \/ Leave(t, "FAILED") /\ UNCHANGED <<plan, fence, settle, cont>>
       \/ /\ fence' = Phase("SETTLING")
          /\ cont' = IF cont.kind = "EMPTY" THEN [cont EXCEPT !.kind = "PENDING"] ELSE cont
          /\ IF OwnerClosing
             THEN Leave(t, "FAILED") /\ UNCHANGED settle
             ELSE /\ settle' = [owner |-> t, base |-> plan[t].base, head |-> plan[t].head,
                                empty |-> cont.kind = "EMPTY", pc |-> "confirm",
                                proceed |-> TRUE, res |-> "none"]
                  /\ handle' = "settlement"
                  /\ Goto(t, "join") /\ UNCHANGED result
          /\ UNCHANGED plan
    /\ UNCHANGED <<host, stale, lane, writes, manual, cancel, store, failures, budget>>

\* A cancellation inside the fenced operation, before the settlement owns it.
CancelFenced(t) ==
    /\ pc[t] \in {"freeze", "plan", "stream", "repair", "fit"} /\ cancel[t]
    /\ Leave(t, "CANCELLED")
    /\ cancel' = [cancel EXCEPT ![t] = FALSE]
    /\ UNCHANGED <<owner, manual, plan, settle, store, cont, failures, budget>>

\* The slot after an adoption that nobody continues: Empty on the new base.
EmptyOnNewBase == [kind |-> "EMPTY", base |-> store.rev]

\* _join_compaction_settlement: a stopped waiter drains the settlement, closes
\* the successor it returned, and only then is cancelled.
MutJoinDropsSuccessor(t) ==
    /\ pc[t] = "join" /\ settle.pc = "done"
    /\ settle' = None
    /\ result' = [result EXCEPT ![t] = IF cancel[t] THEN "CANCELLED" ELSE settle.res]
    /\ cancel' = [cancel EXCEPT ![t] = FALSE]
    /\ Goto(t, "remove")
    /\ UNCHANGED <<owner, manual, plan, store, cont, handle, failures, budget>>

Join(t) ==
    /\ pc[t] = "join" /\ settle.pc = "done"
    /\ settle' = None
    /\ result' = [result EXCEPT ![t] = IF cancel[t] THEN "CANCELLED" ELSE settle.res]
    /\ IF cancel[t] /\ settle.res = "SUCCESSOR"
       THEN handle' = None /\ cont' = EmptyOnNewBase
       ELSE UNCHANGED <<handle, cont>>
    /\ cancel' = [cancel EXCEPT ![t] = FALSE]
    /\ Goto(t, "remove")
    /\ UNCHANGED <<owner, manual, plan, store, failures, budget>>

\* The finally of run_fenced: the fence goes under the Host lock, then the lane.
MutRemoveKeepsFence(t) ==
    /\ pc[t] = "remove"
    /\ fence' = (IF result[t] = "CANCELLED" THEN fence ELSE None) /\ lane' = None
    /\ Goto(t, "ended")
    /\ UNCHANGED <<host, stale, writes, manual, cancel, plan, result, settle, store, cont, handle,
                   failures, budget>>

Remove(t) ==
    /\ pc[t] = "remove"
    /\ fence' = None /\ lane' = None
    /\ Goto(t, "ended")
    /\ UNCHANGED <<host, stale, writes, manual, cancel, plan, result, settle, store, cont, handle,
                   failures, budget>>

\* The same await, cancelled while another task holds the Host lock across an
\* await of its own: the fence stays, and a returned result goes with it.
RemoveCancelled(t) ==
    /\ LockHeld /\ pc[t] = "remove" /\ cancel[t]
    /\ lane' = None
    /\ result' = [result EXCEPT ![t] = "CANCELLED"]
    /\ cancel' = [cancel EXCEPT ![t] = FALSE]
    /\ Goto(t, "ended")
    /\ UNCHANGED <<host, stale, fence, writes, manual, plan, settle, store, cont, handle,
                   failures, budget>>

\* The ROOT turn takes the result: a successor is its next call, a failure
\* counts against the circuit, an adoption without continuation ends the turn.
RootEnded ==
    /\ pc[Root] = "ended"
    /\ \/ /\ result[Root] = "SUCCESSOR"
          /\ handle' = Root
          /\ cont' = [kind |-> "INSTALLED", base |-> store.rev]
          /\ Goto(Root, "model") /\ UNCHANGED <<failures, store, cancel>>
       \/ /\ result[Root] \in {"FAILED", "NOT_NEEDED", "HOOK_BLOCKED"}
          /\ failures' = IF result[Root] = "FAILED" /\ failures < MaxFailures
                         THEN failures + 1 ELSE failures
          /\ Goto(Root, "run") /\ UNCHANGED <<handle, cont, store, cancel>>
       \/ /\ result[Root] \in {"BLOCKED", "POST_FAILURE", "COMPACTED", "CANCELLED", "STALE"}
          /\ store' = IF stale THEN store ELSE [store EXCEPT !.running = FALSE]
          /\ cancel' = [cancel EXCEPT ![Root] = FALSE]
          /\ Goto(Root, "off") /\ UNCHANGED <<handle, cont, failures>>
    /\ result' = [result EXCEPT ![Root] = "none"]
    /\ plan' = [plan EXCEPT ![Root] = NoPlan]
    /\ UNCHANGED <<owner, manual, settle, budget>>

-----------------------------------------------------------------------------
(* The settlement task: it is drained, never cancelled *)

\* confirm_context_snapshot_adoption
Confirmation ==
    IF store.rev = settle.base THEN "NONE"
    ELSE IF store.rev = settle.base + 1 /\ store.by = settle.owner THEN "FULL"
    ELSE "CONFLICT"

\* What a confirmation does to the slot.  FULL of an Empty source publishes
\* Empty on the new base and frees the handle; the other two end the attempt.
MutConfirmed(kind, next) ==
    \/ /\ kind = "FULL"
       /\ settle' = [settle EXCEPT !.pc = "hooks"]
       /\ UNCHANGED <<cont, handle>>
    \/ /\ kind = "NONE" /\ next # "none"
       /\ settle' = [settle EXCEPT !.pc = next]
       /\ UNCHANGED <<cont, handle>>
    \/ /\ kind = "CONFLICT" \/ (kind = "NONE" /\ next = "none")
       /\ settle' = [settle EXCEPT !.pc = "done", !.res = "FAILED"]
       /\ UNCHANGED cont
       /\ handle' = None

Confirmed(kind, next) ==
    \/ /\ kind = "FULL"
       /\ settle' = [settle EXCEPT !.pc = "hooks"]
       /\ IF settle.empty THEN cont' = [kind |-> "EMPTY", base |-> settle.base + 1]
                               /\ handle' = None
          ELSE UNCHANGED <<cont, handle>>
    \/ /\ kind = "NONE" /\ next # "none"
       /\ settle' = [settle EXCEPT !.pc = next]
       /\ UNCHANGED <<cont, handle>>
    \/ /\ kind = "CONFLICT" \/ (kind = "NONE" /\ next = "none")
       /\ settle' = [settle EXCEPT !.pc = "done", !.res = "FAILED"]
       /\ cont' = IF ~settle.empty THEN cont
                  ELSE [cont EXCEPT !.kind = IF kind = "NONE" THEN "EMPTY" ELSE "QUARANTINE"]
       /\ handle' = None

SettleConfirm ==
    /\ settle # None /\ settle.pc = "confirm"
    /\ Confirmed(Confirmation, "adopt")
    /\ UNCHANGED <<owner, manual, pc, cancel, plan, result, store, failures, budget>>

\* After a deterministic rejection the exact candidate is confirmed once more.
SettleReconfirm ==
    /\ settle # None /\ settle.pc = "reconfirm"
    /\ Confirmed(Confirmation, "none")
    /\ UNCHANGED <<owner, manual, pc, cancel, plan, result, store, failures, budget>>

\* That read is not repeated: when it raises the attempt has failed.  The dry
\* projection is closed, but a slot parked for the adoption stays
\* EMPTY_ADOPTION_PENDING without a settlement (ABANDONED).
ReconfirmRaises ==
    /\ settle # None /\ settle.pc = "reconfirm" /\ budget.faults > 0
    /\ budget' = [budget EXCEPT !.faults = @ - 1]
    /\ settle' = [settle EXCEPT !.pc = "done", !.res = "FAILED"]
    /\ cont' = IF settle.empty THEN [cont EXCEPT !.kind = "ABANDONED"] ELSE cont
    /\ handle' = None
    /\ UNCHANGED <<owner, manual, pc, cancel, plan, result, store, failures>>

\* _require_compaction_target: status, predecessor revision and safe head.
AdoptPrecondition ==
    /\ store.running = (settle.owner \notin Commands)
    /\ store.rev = settle.base /\ store.head = settle.head

\* Snapshot, binding revision, turn and event in one transaction.
Adopted ==
    [store EXCEPT !.rev = @ + 1, !.by = settle.owner,
                  !.adopted = @ \cup ({settle.owner} \cap Commands)]

SettleAdopt ==
    /\ settle # None /\ settle.pc = "adopt"
    /\ \/ /\ ~stale /\ AdoptPrecondition
          /\ store' = Adopted
          /\ Confirmed("FULL", "none")
          /\ UNCHANGED budget
       \/ /\ ~stale /\ AdoptPrecondition /\ budget.faults > 0
          /\ budget' = [budget EXCEPT !.faults = @ - 1]
          /\ store' \in {store, Adopted}
          /\ settle' = [settle EXCEPT !.pc = "confirm"]
          /\ UNCHANGED <<cont, handle>>
       \/ /\ ~stale /\ ~AdoptPrecondition
          /\ settle' = [settle EXCEPT !.pc = "reconfirm"]
          /\ UNCHANGED <<store, cont, handle, budget>>
       \/ /\ stale
          /\ settle' = [settle EXCEPT !.pc = "done", !.res = "STALE"]
          /\ handle' = None
          /\ UNCHANGED <<store, cont, budget>>
    /\ UNCHANGED <<owner, manual, pc, cancel, plan, result, failures>>

\* The settlement returns without a continuation: _retire_full_adoption_... for
\* an installed source (an Empty one was published with the confirmation).
Retire(res) ==
    /\ settle' = [settle EXCEPT !.pc = "done", !.res = res]
    /\ handle' = None
    /\ cont' = [kind |-> "EMPTY", base |-> settle.base + 1]

\* Boundary and PostCompact hook; the idle branch ends here.
SettleHooks ==
    /\ settle # None /\ settle.pc = "hooks"
    /\ \/ Retire("POST_FAILURE") /\ UNCHANGED failures
       \/ /\ settle.owner \in Commands
          /\ Retire("COMPACTED") /\ failures' = 0
       \/ /\ settle.owner \notin Commands
          /\ \E proceed \in BOOLEAN :
                settle' = [settle EXCEPT !.pc = "status", !.proceed = proceed]
          /\ UNCHANGED <<handle, cont, failures>>
    /\ UNCHANGED <<owner, manual, pc, cancel, plan, result, store, budget>>

\* The active branch reads the turn's status before it prepares a successor.
SettleStatus ==
    /\ settle # None /\ settle.pc = "status"
    /\ \/ ~store.running /\ Retire("COMPACTED") /\ failures' = 0
       \/ store.running /\ ~settle.proceed /\ Retire("BLOCKED") /\ failures' = 0
       \/ /\ store.running /\ settle.proceed
          /\ settle' = [settle EXCEPT !.pc = "rotate"]
          /\ UNCHANGED <<handle, cont, failures>>
    /\ UNCHANGED <<owner, manual, pc, cancel, plan, result, store, budget>>

\* The handle is rotated to the adopted base (or frozen anew for an Empty
\* source), the successor is validated and SessionStart asked.
SettleRotate ==
    /\ settle # None /\ settle.pc = "rotate"
    /\ \/ Retire("POST_FAILURE") /\ UNCHANGED failures
       \/ ~stale /\ store.running /\ Retire("BLOCKED") /\ failures' = 0
       \/ /\ ~stale /\ store.running /\ handle \in {None, "settlement"}
          /\ settle' = [settle EXCEPT !.pc = "done", !.res = "SUCCESSOR"]
          /\ handle' = "successor" /\ failures' = 0
          /\ UNCHANGED cont
    /\ UNCHANGED <<owner, manual, pc, cancel, plan, result, store, budget>>

-----------------------------------------------------------------------------
(* Host close, crash and takeover *)

\* _stop_close_admission: no new work, the active task is cancelled.
BeginClose ==
    /\ host = "open"
    /\ host' = "closing"
    /\ cancel' = [cancel EXCEPT ![Root] = @ \/ pc[Root] # "off"]
    /\ UNCHANGED <<stale, lane, fence, writes, manual, pc, plan, result, settle, store, cont,
                   handle, failures, budget>>

\* Host aclose reaches HostCompactionRuntimeOwner.aclose once the ROOT task and
\* the user-control tasks are joined: waiters are answered, tasks cancelled.
OwnerClose ==
    /\ host = "closing"
    /\ \A t \in Writers \cup {Root} : pc[t] = "off"
    /\ host' = "joining"
    /\ waiter' = None
    /\ cancel' = [t \in Tasks |-> cancel[t] \/ (t \in Commands /\ pc[t] # "off")]
    /\ UNCHANGED <<stale, lane, fence, writes, outcomes, asked, told, ran, pc, plan, result, settle,
                   store, cont, handle, failures, budget>>

\* The owner has joined its tasks and settlements, then the continuity owner closes.
CloseDone ==
    /\ host = "joining" /\ settle = None
    /\ \A t \in Tasks : pc[t] = "off"
    /\ host' = "closed"
    /\ cont' = [cont EXCEPT !.kind = "CLOSED"]
    /\ UNCHANGED <<stale, lane, fence, writes, manual, pc, cancel, plan, result, settle, store,
                   handle, failures, budget>>

\* The process dies, or a closed Host is opened again: the store remains, the
\* new Host interrupts the running turn.
Crash ==
    /\ budget.crashes > 0
    /\ budget' = [budget EXCEPT !.crashes = @ - 1]
    /\ host' = "open" /\ stale' = FALSE /\ lane' = None /\ fence' = None /\ writes' = {}
    /\ pc' = [t \in Tasks |-> "off"] /\ cancel' = [t \in Tasks |-> FALSE]
    /\ plan' = [t \in Tasks |-> NoPlan] /\ result' = [t \in Tasks |-> "none"]
    /\ waiter' = None /\ outcomes' = <<>> /\ asked' = {} /\ settle' = None
    /\ store' = [store EXCEPT !.running = FALSE]
    /\ cont' = [kind |-> "EMPTY", base |-> store.rev]
    /\ told' = [c \in Commands |-> "none"]
    /\ handle' = None /\ failures' = 0
    /\ UNCHANGED ran

\* Another Host takes the lease: the turn is interrupted and it may append and
\* adopt a base of its own.
Takeover ==
    /\ Takeovers /\ ~stale /\ host # "closed"
    /\ stale' = TRUE
    /\ \E rev \in {store.rev, store.rev + 1} :
          store' = [store EXCEPT !.running = FALSE, !.rev = rev,
                                 !.by = IF rev = store.rev THEN @ ELSE None]
    /\ UNCHANGED <<host, lane, fence, writes, manual, pc, cancel, plan, result, settle, cont,
                   handle, failures, budget>>

-----------------------------------------------------------------------------
Attempt(t) ==
    \/ AcquireLane(t) \/ CancelBeforeFence(t) \/ Install(t) \/ Freeze(t) \/ Plan(t) \/ Stream(t)
    \/ Fit(t) \/ CancelFenced(t) \/ Join(t) \/ Remove(t) \/ RemoveCancelled(t)

CommandStep(c) ==
    \/ CommandCheck(c) \/ CommandConfirm(c) \/ CommandAccept(c) \/ CommandRequest(c)
    \/ CommandClaim(c) \/ CommandEnded(c) \/ CommandSettle(c)

WriterStep(w) == WriterWrite(w) \/ WriterRelease(w) \/ WriterEnded(w)

RootStep == StartTurn \/ EndRoot \/ RootAnswer \/ RootEnded

Settlement ==
    \/ SettleConfirm \/ SettleReconfirm \/ ReconfirmRaises \/ SettleAdopt
    \/ SettleHooks \/ SettleStatus \/ SettleRotate

Next ==
    \/ \E t \in Tasks : Attempt(t)
    \/ \E c \in Commands : \/ RequestCommand(c) \/ QuerySlowly(c) \/ RequestLate(c)
                          \/ StopCommand(c) \/ CommandStep(c)
    \/ \E w \in Writers : WriterReserve(w) \/ WriterCompact(w) \/ WriterStep(w)
    \/ SubmitPrompt \/ Deliver \/ RootAppend \/ RootDispatch \/ RootCompact \/ StopTurn \/ RootStep
    \/ Settlement
    \/ BeginClose \/ OwnerClose \/ CloseDone \/ Crash \/ Takeover

Spec == Init /\ [][Next]_vars

(* asyncio.Lock is first come first served (the lane), a wake-up follows     *)
(* every release the delivery loop waits for, and started tasks run on.     *)
Fairness ==
    /\ \A t \in Tasks : WF_vars(Attempt(t)) /\ SF_vars(AcquireLane(t))
    /\ \A c \in Commands : WF_vars(CommandStep(c))
    /\ \A w \in Writers : WF_vars(WriterStep(w))
    /\ WF_vars(RootStep) /\ WF_vars(Settlement) /\ SF_vars(Deliver)
    /\ WF_vars(OwnerClose) /\ WF_vars(CloseDone)

FairSpec == Spec /\ Fairness

-----------------------------------------------------------------------------
(* Properties *)

(* While a fence is installed no write reservation but the one its own       *)
(* attempt came with is held (host.py, _install_compaction_fence and         *)
(* _reserve_compaction_write_locked).                                        *)
FenceExcludesWriters == fence # None => writes \subseteq {fence.owner}

(* The transcript a manual command accepted as its source does not grow      *)
(* until the command has ended: no prompt is delivered and no turn starts    *)
(* between the committed row and the adoption.                               *)
AcceptedCommandSourceStable ==
    \A c \in Commands :
        pc[c] \in Attempting \cup {"request", "claim"} /\ ~stale =>
            /\ store.head = plan[c].head /\ store.turn = plan[c].turn
            /\ ~store.running /\ pc[Root] = "off"

(* What a compaction summarises stands still while it is summarised, over    *)
(* the fence, the write reservations, the command's claim and the delivery   *)
(* loop, each of which is checked and taken in a step of its own.            *)
SourceInv == TypeOK /\ FenceExcludesWriters /\ AcceptedCommandSourceStable

(* A provider call of this Host, while it owns the session, is built on the  *)
(* context base the store currently binds: an adoption whose successor is    *)
(* not installed leaves no epoch of the old base behind.                     *)
ProviderCallOnAdoptedBase ==
    pc[Root] = "model" /\ ~stale => cont = [kind |-> "INSTALLED", base |-> store.rev]

(* On a Host that owns the session and is open the slot is usable whenever   *)
(* no settlement runs, unless the one read that confirms a rejected adoption *)
(* raised.                                                                   *)
SlotGivenBack ==
    settle = None /\ ~stale /\ ~OwnerClosing => cont.kind \in {"EMPTY", "INSTALLED", "ABANDONED"}

(* A slot abandoned like that serves nobody any more: no provider call and   *)
(* no attempt holds an input frozen from it.                                 *)
AbandonedSlotUnused == cont.kind = "ABANDONED" => handle = None /\ pc[Root] # "model"

(* An Empty slot parked for an adoption is given back by the settlement that *)
(* parked it, or abandoned for good.                                         *)
PendingSlotSettled == SlotGivenBack /\ AbandonedSlotUnused

(* A manual command is executed at most once, over retries by its caller,    *)
(* lost acknowledgements of its row and restarts of the Host.                *)
CommandRunsOnce == \A c \in Commands : ran[c] <= 1

(* What the caller of a manual command was told agrees with the store: a     *)
(* refusal or a failure adopted nothing, COMPACTED did.  Two exceptions: a   *)
(* Host that lost the lease may find its adoption superseded and report a    *)
(* conflict, and a stop that meets the settlement is told CANCELLED although *)
(* the settlement adopts (Join).                                             *)
AnswerIsTrue ==
    \A c \in Commands : pc[c] = "off" /\ ~stale =>
        /\ told[c] \in {"FAILED", "BUSY", "NOT_NEEDED"} => c \notin store.adopted
        /\ told[c] = "COMPACTED" => c \in store.adopted

(* An adoption is one fact for the store, for the continuation of the next   *)
(* provider call and for the caller of the command, also when the            *)
(* acknowledgement of its commit is lost, its waiter is cancelled or the     *)
(* process restarts.                                                         *)
AdoptionInv ==
    ProviderCallOnAdoptedBase /\ PendingSlotSettled /\ CommandRunsOnce /\ AnswerIsTrue

(* A fence belongs to a task that is still inside run_fenced, so its finally *)
(* will remove it.                                                           *)
FenceHasLiveOwner ==
    fence # None => /\ pc[fence.owner] \in Fenced
                    /\ lane = fence.owner

(* The safe-point handle always has somebody who will close it: the task     *)
(* that froze it, the settlement, or the waiter that holds the successor.    *)
HandleHasOwner ==
    /\ handle \in Tasks =>
          pc[handle] \in {"plan", "stream", "repair", "fit"} \cup {"model"}
    /\ handle = "settlement" => settle # None
    /\ handle = "successor" =>
          \/ settle # None /\ settle.res = "SUCCESSOR"
          \/ \E t \in Tasks : result[t] = "SUCCESSOR" /\ pc[t] \in {"remove", "ended"}

(* A closed Host holds nothing of a compaction: no settlement is left to     *)
(* write through an owner that is gone.                                      *)
ClosedIsQuiet ==
    host = "closed" => /\ settle = None /\ fence = None /\ lane = None
                       /\ handle = None /\ waiter = None

(* Nothing a compaction takes is left without a task that gives it back:     *)
(* neither the fence nor the safe-point handle, and nothing at all once the  *)
(* Host is closed.  With LockHeld the fence and the handle may be left       *)
(* behind (RemoveCancelled), so this is stated without it.                   *)
OwnershipInv ==
    ~LockHeld => FenceHasLiveOwner /\ HandleHasOwner /\ ClosedIsQuiet

(* A manual command that got past admission is answered, a pending prompt is *)
(* not held up for ever by compactions unless the Host is closed, and a      *)
(* close of the Host comes to its end whatever compaction was under way.     *)
CompactionProgress ==
    /\ \A c \in Commands : pc[c] = "check" ~> pc[c] = "off"
    /\ (store.pending > 0) ~> (pc[Root] # "off" \/ host # "open")
    /\ (host = "closing") ~> (host = "closed")
=============================================================================
