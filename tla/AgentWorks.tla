----------------------------- MODULE AgentWorks -----------------------------
(***************************************************************************)
(* Delegated works of one ROOT session: a batch of works is admitted into  *)
(* the queues of Agent sessions, a scheduler of the Host core resolves     *)
(* their dependencies, loads and retires the Agents' Host sessions, and    *)
(* every Host session delivers the head of its queue inside a shared       *)
(* execution capacity.  ROOT stops works and waits for them.               *)
(*                                                                         *)
(* Works are numbered in admission order, which is also the FIFO order of  *)
(* each Agent's queue.  Messages between Agents, titles, bodies, paging    *)
(* and unknown commit acknowledgements are not part of this module.        *)
(***************************************************************************)
EXTENDS Integers, FiniteSets, FiniteSetsExt

CONSTANTS Agents,      \* identities an admission may create
          MaxWorks,    \* bound: works ever admitted
          MaxBatch,    \* bound: works of one admission (16 in the code)
          MaxDeps,     \* bound: declared dependencies of a work
          Capacity,    \* DEFAULT_AGENT_EXECUTION_CAPACITY
          Events,      \* the faults and commands a run lets happen
          MaxEvents    \* bound: how many of them

ASSUME AgentWorksAssumption ==
  /\ MaxWorks \in Nat /\ MaxBatch \in Nat /\ MaxDeps \in Nat
  /\ Capacity \in Nat \ {0} /\ MaxEvents \in Nat
  /\ Events \subseteq {"stop", "close", "crash", "lost", "load_error",
                       "model_down", "model_reject", "hook_block", "hook_error",
                       "start_reject", "fail", "agent_wait", "wait", "age",
                       "other_work"}

Works == 1 .. MaxWorks
NoWork == 0

VARIABLES
  work,      \* prompt_queue_items of origin AGENT_INSTRUCTION with their turns
  row,       \* the Agents' sessions rows: absent, open, deleted
  idle,      \* sessions.idle_since by age: no, fresh, unload, delete
  root,      \* the ROOT Host: open, closing (suspended), closed
  host,      \* the Agents' Host sessions: none, live, gated, closing, lost
  wake,      \* Agents whose _queue_wake is set
  loop,      \* their _prompt_delivery_loop
  task,      \* their active ROOT task
  occupied,  \* AgentSessionRuntime._occupied
  sched,     \* the scheduler's round: where it is and on whom
  due,       \* a committed event is on its way to notify_changed
  stops,     \* running works a stop still has to signal
  asked,     \* works some stop was asked for
  waiter,    \* ROOT's wait_agent({works})
  spent      \* Events used up

vars == <<work, row, idle, root, host, wake, loop, task, occupied, sched, due,
          stops, asked, waiter, spent>>

Stopped == {"CANCELLED", "REJECTED", "DEP_FAILED", "INTERRUPTED", "USER_STOPPED"}
Terminal == Stopped \cup {"COMPLETED"}
Unsettled == {"PENDING", "RUNNING"}

NoneWork == [st |-> "none", agent |-> "none", deps |-> {}, src |-> {}]
NoTask == [pc |-> "none", w |-> NoWork, cause |-> "none"]
NoLoop == [pc |-> "none", w |-> NoWork]
IdleLoop == [pc |-> "idle", w |-> NoWork]
NextRound(todo) == [pc |-> "next", todo |-> todo, a |-> "none", del |-> FALSE]
NoWaiter == [pc |-> "none", works |-> {}, stale |-> FALSE]

TypeOK ==
  /\ work \in [Works -> [st : {"none"} \cup Unsettled \cup Terminal,
                         agent : Agents \cup {"none"},
                         deps : SUBSET Works, src : SUBSET Works]]
  /\ row \in [Agents -> {"absent", "open", "deleted"}]
  /\ idle \in [Agents -> {"no", "fresh", "unload", "delete"}]
  /\ root \in {"open", "closing", "closed"}
  /\ host \in [Agents -> {"none", "live", "gated", "closing", "lost"}]
  /\ wake \subseteq Agents
  /\ loop \in [Agents -> [pc : {"none", "idle", "scan", "check", "install", "dead"},
                          w : Works \cup {NoWork}]]
  /\ \A a \in Agents : (loop[a].w # NoWork) <=> (loop[a].pc \in {"check", "install"})
  /\ task \in [Agents -> [pc : {"none", "start", "run", "wait", "finish", "settle"},
                          w : Works \cup {NoWork},
                          cause : {"none", "user", "close"}]]
  /\ occupied \subseteq Agents
  /\ sched \in [pc : {"next", "read", "load", "mark", "retire", "check", "close",
                      "delete"},
                todo : SUBSET Agents, a : Agents \cup {"none"}, del : BOOLEAN]
  /\ due \in BOOLEAN
  /\ stops \subseteq Works /\ asked \subseteq Works
  /\ waiter \in [pc : {"none", "read", "sleep", "wait"}, works : SUBSET Works, stale : BOOLEAN]
  /\ spent \in 0 .. MaxEvents

Init ==
  /\ work = [w \in Works |-> NoneWork]
  /\ row = [a \in Agents |-> "absent"]
  /\ idle = [a \in Agents |-> "no"]
  /\ root = "open"
  /\ host = [a \in Agents |-> "none"]
  /\ wake = {}
  /\ loop = [a \in Agents |-> NoLoop]
  /\ task = [a \in Agents |-> NoTask]
  /\ occupied = {}
  /\ sched = NextRound({})
  /\ due = FALSE
  /\ stops = {} /\ asked = {}
  /\ waiter = NoWaiter
  /\ spent = 0

-----------------------------------------------------------------------------
(* The canonical works and what the code reads of them.                    *)

Happens(e) == e \in Events /\ spent < MaxEvents /\ spent' = spent + 1

InSt(wk, S) == {w \in Works : wk[w].st \in S}
Visible(w) == work[w].st # "none" /\ row[work[w].agent] = "open"
OfAgent(a, S) == {w \in InSt(work, S) : work[w].agent = a}

Busy(a) == OfAgent(a, Unsettled) # {}
Head(a) == IF OfAgent(a, {"PENDING"}) = {} THEN NoWork
           ELSE Min(OfAgent(a, {"PENDING"}))
HeadReady(a) == Head(a) # NoWork /\ work[Head(a)].deps = {}

(* prepare_prompt_head_consumption: the exact FIFO head, or nothing.       *)
Candidate(a) == IF OfAgent(a, {"RUNNING"}) = {} /\ HeadReady(a) THEN Head(a)
                ELSE NoWork

Live(a) == host[a] \in {"live", "gated"}

(* validate_agent_request_graph: what a work waits for, among the works    *)
(* not yet ended: its unfinished dependencies and its FIFO predecessor.    *)
Blockers(wk, w) ==
  {v \in InSt(wk, Unsettled) :
     v \in wk[w].deps \/ (wk[v].agent = wk[w].agent /\ v < w)}
HasCycle(wk, S) ==
  \E T \in SUBSET S : T # {} /\ \A w \in T : Blockers(wk, w) \cap T # {}

GraphRefused(wk) == HasCycle(wk, InSt(wk, Unsettled))

(* _resolve_agent_dependencies_in_connection: bodies of completed sources  *)
(* are filled in, and a work with a stopped or missing source is rejected, *)
(* with the works that wait for it, until nothing changes.                 *)
Lost(wk, d) == wk[d].st \in Stopped \/ row[wk[d].agent] = "deleted"
Survivors(wk) ==
  LET Pending == InSt(wk, {"PENDING"})
      Sound(T) == \A w \in T : \A d \in wk[w].deps :
                    ~Lost(wk, d) /\ (d \in Pending => d \in T)
  IN UNION {T \in SUBSET Pending : Sound(T)}

Resolved(wk) ==
  [w \in Works |->
     IF wk[w].st # "PENDING" THEN wk[w]
     ELSE IF w \in Survivors(wk)
          THEN [wk[w] EXCEPT !.deps = {d \in @ : wk[d].st # "COMPLETED"}]
          ELSE [wk[w] EXCEPT !.st = "DEP_FAILED", !.deps = {}]]

Ended(w, st) == [work EXCEPT ![w].st = st, ![w].deps = {}]

(* A transaction under a writer guard commits an event.  Its delivery is   *)
(* tracked while a wait could miss it: a later wait reads the change.      *)
Announce(changed) == due' = (due \/ (changed /\ waiter.pc # "none"))

(* notify_changed: a wait that captured its revision before sees a change. *)
Notified == [waiter EXCEPT !.stale = waiter.pc # "none"]

(* try_acquire and release.                                                *)
MayAcquire(a) == a \in occupied \/ Cardinality(occupied) < Capacity
Released(a) == occupied \ {a}

-----------------------------------------------------------------------------
(* ROOT's tools.                                                           *)

Retiring(a) == sched.a = a /\ sched.pc \in {"check", "close", "delete"}

(* A batch of the next works, each with its Agent and its dependencies.    *)
Batches ==
  LET next == Cardinality(InSt(work, {"none"}))
      first == MaxWorks - next + 1
  IN UNION {[first .. (first + k - 1) -> [agent : Agents, deps : SUBSET Works]] :
              k \in 1 .. Min({MaxBatch, next})}

(* request_admission waits out a retirement of any target; the transaction *)
(* refuses a deleted Agent and an unavailable prerequisite.                *)
Admissible(batch) ==
  LET ids == DOMAIN batch
  IN \A w \in ids :
       /\ ~Retiring(batch[w].agent)
       /\ row[batch[w].agent] # "deleted"
       /\ Cardinality(batch[w].deps) <= MaxDeps
       /\ \A d \in batch[w].deps : d \in ids \/ Visible(d)

AdmitRequests ==
  /\ root = "open"
  /\ InSt(work, {"none"}) # {}
  /\ \E batch \in Batches :
       LET ids == DOMAIN batch
           targets == {batch[w].agent : w \in ids}
           inputs(w) == {d \in batch[w].deps : d \in ids \/ work[d].st # "COMPLETED"}
           wk == [w \in Works |->
                    IF w \in ids
                    THEN [st |-> "PENDING", agent |-> batch[w].agent,
                          deps |-> inputs(w), src |-> batch[w].deps]
                    ELSE work[w]]
       IN /\ Admissible(batch)
          /\ ~GraphRefused(wk)
          /\ work' = Resolved(wk)
          /\ row' = [a \in Agents |-> IF a \in targets THEN "open" ELSE row[a]]
          /\ idle' = [a \in Agents |-> IF a \in targets THEN "no" ELSE idle[a]]
  /\ Announce(TRUE)
  /\ UNCHANGED <<root, host, wake, loop, task, occupied, sched, stops, asked,
                 waiter, spent>>

(* cancel_agent_requests: queued works of the target end at once, running  *)
(* ones are signalled afterwards, one by one.                              *)
StopTargets(a) == {OfAgent(a, Unsettled)} \cup {{w} : w \in OfAgent(a, Unsettled)}

StopRequests(a) ==
  /\ root = "open" /\ row[a] = "open"
  /\ Happens("stop")
  /\ \E target \in StopTargets(a) :
       LET pending == target \cap InSt(work, {"PENDING"})
           wk == [w \in Works |->
                    IF w \in pending
                    THEN [work[w] EXCEPT !.st = "CANCELLED", !.deps = {}]
                    ELSE work[w]]
       IN /\ target # {}
          /\ work' = Resolved(wk)
          /\ Announce(work' # work)
          /\ stops' = stops \cup (target \cap InSt(work, {"RUNNING"}))
          /\ asked' = asked \cup target
  /\ UNCHANGED <<row, idle, root, host, wake, loop, task, occupied, sched, waiter>>

(* The active work of a live Host is stopped only if it is this work.      *)
Signals(w) ==
  LET a == work[w].agent
  IN host[a] \in {"live", "gated"} /\ task[a].w = w /\ task[a].pc \in {"start", "run", "wait"}

StopActiveWork(w) ==
  /\ w \in stops
  /\ stops' = stops \ {w}
  /\ task' = IF Signals(w) /\ task[work[w].agent].cause = "none"
             THEN [task EXCEPT ![work[w].agent].cause = "user"] ELSE task
  /\ UNCHANGED <<work, row, idle, root, host, wake, loop, occupied, sched, due,
                 asked, waiter, spent>>

(* _wait_works: capture the revision, read the works, sleep until the      *)
(* revision moved.                                                         *)
WaitBegin ==
  /\ root = "open" /\ waiter.pc = "none"
  /\ Happens("wait")
  /\ \E T \in SUBSET {w \in Works : Visible(w)} :
       /\ T # {}
       /\ waiter' = [pc |-> "read", works |-> T, stale |-> FALSE]
  /\ UNCHANGED <<work, row, idle, root, host, wake, loop, task, occupied, sched,
                 due, stops, asked>>

WaitCheck ==
  /\ waiter.pc = "read"
  /\ waiter' = IF \E w \in waiter.works : Visible(w) /\ work[w].st \notin Terminal
               THEN [waiter EXCEPT !.pc = "sleep"] ELSE NoWaiter
  /\ UNCHANGED <<work, row, idle, root, host, wake, loop, task, occupied, sched,
                 due, stops, asked, spent>>

MutantSleep == [waiter EXCEPT !.pc = "wait", !.stale = FALSE]

(* The revision compared is the one captured before the works were read.   *)
Sleep == [waiter EXCEPT !.pc = "wait"]

WaitSleeps ==
  /\ waiter.pc = "sleep"
  /\ waiter' = Sleep
  /\ UNCHANGED <<work, row, idle, root, host, wake, loop, task, occupied, sched,
                 due, stops, asked, spent>>

WaitWakes ==
  /\ waiter.pc = "wait" /\ waiter.stale
  /\ waiter' = [waiter EXCEPT !.pc = "read", !.stale = FALSE]
  /\ UNCHANGED <<work, row, idle, root, host, wake, loop, task, occupied, sched,
                 due, stops, asked, spent>>

(* _deliver_committed_events: a wake hint after the commit.                *)
DeliverEvents ==
  /\ due
  /\ due' = FALSE
  /\ waiter' = Notified
  /\ UNCHANGED <<work, row, idle, root, host, wake, loop, task, occupied, sched,
                 stops, asked, spent>>

-----------------------------------------------------------------------------
(* AgentSessionRuntime._advance.  A wake or the 30 second timeout starts a *)
(* round over the Agents' rows.                                            *)

RoundBegins ==
  /\ sched.pc = "next" /\ sched.todo = {}
  /\ \E a \in Agents : row[a] = "open"
  /\ sched' = NextRound({a \in Agents : row[a] = "open"})
  /\ UNCHANGED <<work, row, idle, root, host, wake, loop, task, occupied, due,
                 stops, asked, waiter, spent>>

MutantSchedResolve(a) ==
  /\ sched.pc = "next" /\ a \in sched.todo
  /\ work' = IF Busy(a) THEN Resolved(work) ELSE work
  /\ sched' = [sched EXCEPT !.pc = "read", !.a = a, !.todo = @ \ {a}]
  /\ UNCHANGED <<row, idle, root, host, wake, loop, task, occupied, due, stops,
                 asked, waiter, spent>>

(* resolve_agent_dependencies has no writer guard: it commits no event.    *)
SchedResolve(a) ==
  /\ sched.pc = "next" /\ a \in sched.todo
  /\ work' = Resolved(work)
  /\ sched' = [sched EXCEPT !.pc = "read", !.a = a, !.todo = @ \ {a}]
  /\ UNCHANGED <<row, idle, root, host, wake, loop, task, occupied, due, stops,
                 asked, waiter, spent>>

Continue == NextRound(sched.todo)

MutantLoadable(a) == HeadReady(a)

(* A ready head, or a turn left running, asks for a Host session.         *)
Loadable(a) == HeadReady(a) \/ OfAgent(a, {"RUNNING"}) # {}

(* What one re-read of the Agent's state makes the scheduler do next.      *)
SchedRead ==
  LET a == sched.a
      mayLoad == /\ root = "open"
                 /\ Loadable(a)
                 /\ MayAcquire(a)
      goTo(pc, del) == [sched EXCEPT !.pc = pc, !.del = del]
  IN /\ sched.pc = "read"
     /\ \/ /\ Busy(a) /\ root = "open" /\ Live(a)
           /\ wake' = wake \cup {a}
           /\ sched' = Continue
           /\ UNCHANGED occupied
        \/ /\ Busy(a) /\ ~Live(a) /\ mayLoad
           /\ occupied' = occupied \cup {a}
           /\ sched' = goTo("load", FALSE)
           /\ UNCHANGED wake
        \/ /\ Busy(a) /\ ~(root = "open" /\ Live(a)) /\ ~(~Live(a) /\ mayLoad)
           /\ sched' = Continue
           /\ UNCHANGED <<wake, occupied>>
        \/ /\ ~Busy(a)
           /\ sched' = CASE idle[a] = "no" -> goTo("mark", FALSE)
                         [] idle[a] = "delete" -> goTo("retire", TRUE)
                         [] idle[a] = "unload" /\ Live(a) -> goTo("retire", FALSE)
                         [] OTHER -> Continue
           /\ UNCHANGED <<wake, occupied>>
     /\ UNCHANGED <<work, row, idle, root, host, loop, task, due, stops, asked,
                    waiter, spent>>

(* _load_agent_session: the new writer interrupts a turn its predecessor   *)
(* left running; registration refuses while the owning ROOT closes, and an *)
(* Agent whose old Host still stops cannot be opened.                      *)
SchedLoads ==
  LET a == sched.a
  IN /\ sched.pc = "load" /\ root = "open" /\ host[a] = "none"
     /\ work' = [w \in Works |-> IF w \in OfAgent(a, {"RUNNING"})
                                 THEN [work[w] EXCEPT !.st = "INTERRUPTED"]
                                 ELSE work[w]]
     /\ Announce(work' # work)
     /\ host' = [host EXCEPT ![a] = "live"]
     /\ loop' = [loop EXCEPT ![a] = IdleLoop]
     /\ wake' = wake \cup {a}
     /\ waiter' = Notified
     /\ sched' = Continue
     /\ UNCHANGED <<row, idle, root, task, occupied, stops, asked, spent>>

LoadFailed(occ) ==
  /\ sched.pc = "load"
  /\ \/ (root # "open" \/ host[sched.a] # "none") /\ UNCHANGED spent
     \/ root = "open" /\ host[sched.a] = "none" /\ Happens("load_error")
  /\ occupied' = occ
  /\ sched' = Continue
  /\ UNCHANGED <<work, row, idle, root, host, wake, loop, task, due, stops, asked,
                 waiter>>

MutantSchedLoadFails == LoadFailed(occupied)

SchedLoadFails == LoadFailed(Released(sched.a))

(* mark_agent_idle checks again, under the row lock, that nothing runs.    *)
Marked(a) == [idle EXCEPT ![a] = IF Busy(a) THEN "no"
                                 ELSE IF @ = "no" THEN "fresh" ELSE @]

SchedMarksIdle ==
  /\ sched.pc = "mark"
  /\ idle' = Marked(sched.a)
  /\ sched' = Continue
  /\ UNCHANGED <<work, row, root, host, wake, loop, task, occupied, due, stops,
                 asked, waiter, spent>>

(* _retire_idle_agent: the retirement is announced, a live Host is gated   *)
(* unless it works (background processes hold up only the retirement of a  *)
(* ROOT session), ...                                                      *)
RetireBegins ==
  LET a == sched.a
  IN /\ sched.pc = "retire"
     /\ \/ /\ Live(a) /\ task[a].pc # "none"
           /\ sched' = Continue
           /\ UNCHANGED host
        \/ /\ Live(a) /\ task[a].pc = "none"
           /\ host' = [host EXCEPT ![a] = "gated"]
           /\ sched' = [sched EXCEPT !.pc = "check"]
        \/ /\ ~Live(a)
           /\ sched' = [sched EXCEPT !.pc = "check"]
           /\ UNCHANGED host
     /\ UNCHANGED <<work, row, idle, root, wake, loop, task, occupied, due, stops,
                    asked, waiter, spent>>

StillIdle(a, del) ==
  ~Busy(a) /\ idle[a] \in (IF del THEN {"delete"} ELSE {"unload", "delete"})

(* ... the state is read again, and the gate is committed or reopened, ... *)
RetireChecks ==
  LET a == sched.a
      ok == StillIdle(a, sched.del)
  IN /\ sched.pc = "check"
     /\ host' = [host EXCEPT ![a] = IF @ # "gated" THEN @
                                    ELSE IF ok THEN "closing" ELSE "live"]
     /\ wake' = IF ~ok /\ host[a] = "gated" THEN wake \cup {a} ELSE wake
     /\ task' = IF ok /\ host[a] = "gated" /\ task[a].pc # "none"
                THEN [task EXCEPT ![a].cause = "close"] ELSE task
     /\ sched' = IF ok THEN [sched EXCEPT !.pc = "close"] ELSE Continue
     /\ UNCHANGED <<work, row, idle, root, loop, occupied, due, stops, asked,
                    waiter, spent>>

(* ... the Host is closed, and the row deleted if it is still idle.        *)
RetireCloses ==
  /\ sched.pc = "close" /\ host[sched.a] = "none"
  /\ sched' = IF sched.del THEN [sched EXCEPT !.pc = "delete"] ELSE Continue
  /\ UNCHANGED <<work, row, idle, root, host, wake, loop, task, occupied, due,
                 stops, asked, waiter, spent>>

DeleteAgent(ok) ==
  LET a == sched.a
  IN /\ sched.pc = "delete"
     /\ row' = IF ok THEN [row EXCEPT ![a] = "deleted"] ELSE row
     /\ idle' = IF ok THEN [idle EXCEPT ![a] = "no"] ELSE idle
     /\ sched' = Continue
     /\ UNCHANGED <<work, root, host, wake, loop, task, occupied, due, stops,
                    asked, waiter, spent>>

RetireDeletes == DeleteAgent(StillIdle(sched.a, TRUE))

(* Hours or days pass for an idle Agent (AGENT_UNLOAD_IDLE,                *)
(* AGENT_DELETE_IDLE).                                                     *)
(* They are long against the calls from the scheduler's resolution of the  *)
(* dependencies to the last reading of the Agent's state by its retirement.*)
AgeIdle(a) ==
  /\ Happens("age") /\ sched.pc \notin {"read", "retire", "check"}
  /\ row[a] = "open" /\ idle[a] \in {"fresh", "unload"}
  /\ \E age \in {"unload", "delete"} \ {idle[a]} : idle' = [idle EXCEPT ![a] = age]
  /\ UNCHANGED <<work, row, root, host, wake, loop, task, occupied, sched, due,
                 stops, asked, waiter>>

-----------------------------------------------------------------------------
(* _prompt_delivery_loop of an Agent's Host session.                       *)

LoopWakes(a) ==
  /\ Live(a) /\ loop[a].pc = "idle" /\ a \in wake
  /\ wake' = wake \ {a}
  /\ loop' = [loop EXCEPT ![a].pc = "scan"]
  /\ UNCHANGED <<work, row, idle, root, host, task, occupied, sched, due, stops,
                 asked, waiter, spent>>

(* The loop waits for the active task, reads the head and takes a slot.    *)
LoopScans(a) ==
  LET w == Candidate(a)
  IN /\ Live(a) /\ loop[a].pc = "scan" /\ task[a].pc = "none"
     /\ \/ /\ host[a] = "gated"
           /\ loop' = [loop EXCEPT ![a] = IdleLoop]
           /\ UNCHANGED occupied
        \/ /\ host[a] = "live" /\ w = NoWork
           /\ loop' = [loop EXCEPT ![a] = IdleLoop]
           /\ occupied' = Released(a)
        \/ /\ host[a] = "live" /\ w # NoWork /\ ~MayAcquire(a)
           /\ loop' = [loop EXCEPT ![a] = IdleLoop]
           /\ UNCHANGED occupied
        \/ /\ host[a] = "live" /\ w # NoWork /\ MayAcquire(a)
           /\ loop' = [loop EXCEPT ![a] = [pc |-> "check", w |-> w]]
           /\ occupied' = occupied \cup {a}
     /\ UNCHANGED <<work, row, idle, root, host, wake, task, sched, due, stops,
                    asked, waiter, spent>>

(* _reject_prepared_prompt_head_before_delivery: only the exact head that  *)
(* is still pending.                                                       *)
Rejectable(a, w) == work[w].st = "PENDING" /\ Head(a) = w

(* There is no catalog to freeze, or the check under the Host lock finds   *)
(* other work (a compaction, a new turn, the exit of a plan) that came     *)
(* after the loop last looked.                                             *)
NoCatalog(a) == loop[a].pc = "check" /\ Happens("model_down")
Overtaken(a) == loop[a].pc = "install" /\ Happens("other_work")

(* Either way the slot is given back and the head stays queued.            *)
LoopPutsBack(a) ==
  /\ Live(a)
  /\ NoCatalog(a) \/ Overtaken(a)
  /\ occupied' = Released(a)
  /\ wake' = wake \cup {a}
  /\ loop' = [loop EXCEPT ![a] = IdleLoop]
  /\ UNCHANGED <<work, row, idle, root, host, task, sched, due, stops, asked, waiter>>

(* The model binding no longer resolves: the head is rejected for good.    *)
LoopModelRejects(a) ==
  LET w == loop[a].w
  IN /\ Live(a) /\ loop[a].pc = "check"
     /\ Happens("model_reject")
     /\ occupied' = Released(a)
     /\ work' = IF Rejectable(a, w) THEN Ended(w, "REJECTED") ELSE work
     /\ Announce(Rejectable(a, w))
     /\ wake' = IF Rejectable(a, w) THEN wake \cup {a} ELSE wake
     /\ loop' = [loop EXCEPT ![a] = IF Rejectable(a, w)
                                    THEN [pc |-> "scan", w |-> NoWork] ELSE IdleLoop]
     /\ UNCHANGED <<row, idle, root, host, task, sched, stops, asked, waiter>>

(* _prepare_queued_prompt_hook: the hook lets the prompt pass, ...         *)
LoopHookPasses(a) ==
  /\ Live(a) /\ loop[a].pc = "check"
  /\ loop' = [loop EXCEPT ![a].pc = "install"]
  /\ UNCHANGED <<work, row, idle, root, host, wake, task, occupied, sched, due,
                 stops, asked, waiter, spent>>

(* ... blocks it, ...                                                      *)
LoopHookBlocks(a) ==
  LET w == loop[a].w
  IN /\ Live(a) /\ loop[a].pc = "check"
     /\ Happens("hook_block")
     /\ work' = IF Rejectable(a, w) THEN Ended(w, "REJECTED") ELSE work
     /\ Announce(Rejectable(a, w))
     /\ waiter' = Notified
     /\ wake' = wake \cup {a}
     /\ occupied' = Released(a)
     /\ loop' = [loop EXCEPT ![a] = [pc |-> "scan", w |-> NoWork]]
     /\ UNCHANGED <<row, idle, root, host, task, sched, stops, asked>>

(* ... or its dispatch or rejection raises, which nothing in the loop      *)
(* catches: the slot is given back and the delivery task is over.          *)
LoopHookRaises(a) ==
  /\ Live(a) /\ loop[a].pc = "check"
  /\ Happens("hook_error")
  /\ occupied' = Released(a)
  /\ loop' = [loop EXCEPT ![a] = [pc |-> "dead", w |-> NoWork]]
  /\ UNCHANGED <<work, row, idle, root, host, wake, task, sched, due, stops,
                 asked, waiter>>

(* The prepared head becomes the Host's one active task.                   *)
LoopInstalls(a) ==
  /\ Live(a) /\ loop[a].pc = "install"
  /\ task' = [task EXCEPT ![a] = [pc |-> "start", w |-> loop[a].w, cause |-> "none"]]
  /\ loop' = [loop EXCEPT ![a] = [pc |-> "scan", w |-> NoWork]]
  /\ UNCHANGED <<work, row, idle, root, host, wake, occupied, sched, due, stops,
                 asked, waiter, spent>>

(* Closing cancels the loop; a slot taken for no task is given back.       *)
LoopEnds(a) ==
  /\ host[a] \in {"closing", "lost"} /\ loop[a].pc # "none"
  /\ loop' = [loop EXCEPT ![a] = NoLoop]
  /\ occupied' = IF loop[a].pc \in {"check", "install"} THEN Released(a) ELSE occupied
  /\ UNCHANGED <<work, row, idle, root, host, wake, task, sched, due, stops, asked,
                 waiter, spent>>

-----------------------------------------------------------------------------
(* The active ROOT task of an Agent's Host session.                        *)

TaskTo(a, pc) == [task EXCEPT ![a].pc = pc]

(* _settle_queued_start and consume_prepared_prompt_head: the exact head   *)
(* becomes a running turn, unless it changed since it was prepared or the  *)
(* start is called off.                                                    *)
TaskStarts(a) ==
  LET w == task[a].w
      ok == Live(a) /\ task[a].cause = "none" /\ Candidate(a) = w
  IN /\ task[a].pc = "start"
     /\ work' = IF ok THEN [work EXCEPT ![w].st = "RUNNING"] ELSE work
     /\ Announce(ok)
     /\ task' = TaskTo(a, IF ok THEN "run" ELSE "finish")
     /\ UNCHANGED <<row, idle, root, host, wake, loop, occupied, sched, stops,
                    asked, waiter, spent>>

(* A start refused for good rejects the head instead of leaving it queued. *)
TaskStartRejected(a) ==
  LET w == task[a].w
      ok == Live(a) /\ task[a].cause = "none" /\ Rejectable(a, w)
  IN /\ task[a].pc = "start" /\ ok
     /\ Happens("start_reject")
     /\ work' = Ended(w, "REJECTED")
     /\ Announce(TRUE)
     /\ task' = TaskTo(a, "finish")
     /\ UNCHANGED <<row, idle, root, host, wake, loop, occupied, sched, stops,
                    asked, waiter>>

(* The runner commits the final answer; a stop may come too late for it.   *)
TaskCompletes(a) ==
  /\ task[a].pc = "run" /\ host[a] # "lost"
  /\ work' = Ended(task[a].w, "COMPLETED")
  /\ Announce(TRUE)
  /\ task' = TaskTo(a, "finish")
  /\ UNCHANGED <<row, idle, root, host, wake, loop, occupied, sched, stops, asked,
                 waiter, spent>>

(* _run_owned_root_task: a failed or cancelled chain interrupts its turn,  *)
(* with the cause of the cancellation as the reason.                       *)
TaskInterrupts(a) ==
  /\ task[a].pc \in {"run", "wait"} /\ host[a] # "lost"
  /\ \/ task[a].cause # "none" /\ UNCHANGED spent
     \/ task[a].cause = "none" /\ task[a].pc = "run" /\ Happens("fail")
  /\ work' = Ended(task[a].w, IF task[a].cause = "user" THEN "USER_STOPPED"
                              ELSE "INTERRUPTED")
  /\ Announce(TRUE)
  /\ task' = TaskTo(a, "finish")
  /\ UNCHANGED <<row, idle, root, host, wake, loop, occupied, sched, stops, asked,
                 waiter>>

(* A writer without its lease settles nothing: the takeover will.          *)
TaskStale(a) ==
  /\ task[a].pc \in {"run", "wait"} /\ host[a] = "lost"
  /\ task' = TaskTo(a, "finish")
  /\ UNCHANGED <<work, row, idle, root, host, wake, loop, occupied, sched, due,
                 stops, asked, waiter, spent>>

(* suspend_execution: an Agent that waits for others yields its slot, and  *)
(* takes one again before it goes on.                                      *)
TaskSuspends(a) ==
  /\ task[a].pc = "run"
  /\ Happens("agent_wait")
  /\ task' = TaskTo(a, "wait")
  /\ occupied' = Released(a)
  /\ UNCHANGED <<work, row, idle, root, host, wake, loop, sched, due, stops, asked,
                 waiter>>

TaskResumes(a) ==
  /\ task[a].pc = "wait" /\ task[a].cause = "none"
  /\ Cardinality(occupied) < Capacity
  /\ task' = TaskTo(a, "run")
  /\ occupied' = occupied \cup {a}
  /\ UNCHANGED <<work, row, idle, root, host, wake, loop, sched, due, stops, asked,
                 waiter, spent>>

(* _finish_owned_root_task: the slot first, ...                            *)
TaskReleases(a) ==
  /\ task[a].pc = "finish"
  /\ occupied' = Released(a)
  /\ task' = TaskTo(a, "settle")
  /\ UNCHANGED <<work, row, idle, root, host, wake, loop, sched, due, stops, asked,
                 waiter, spent>>

(* ... then the idle mark, the task's own retirement and the notification. *)
TaskSettles(a) ==
  /\ task[a].pc = "settle"
  /\ idle' = Marked(a)
  /\ task' = [task EXCEPT ![a] = NoTask]
  /\ waiter' = Notified
  /\ UNCHANGED <<work, row, root, host, wake, loop, occupied, sched, due, stops,
                 asked, spent>>

-----------------------------------------------------------------------------
(* Host sessions close, crash and reopen.                                  *)

Closing(S) ==
  /\ host' = [a \in Agents |-> IF a \in S /\ Live(a) THEN "closing" ELSE host[a]]
  /\ task' = [a \in Agents |->
                IF a \in S /\ Live(a) /\ task[a].pc # "none" /\ task[a].cause = "none"
                THEN [task[a] EXCEPT !.cause = "close"] ELSE task[a]]

(* _close_session_owner of ROOT: its Agents are suspended and closed.      *)
RootCloses ==
  /\ root = "open"
  /\ Happens("close")
  /\ root' = "closing"
  /\ Closing(Agents)
  /\ waiter' = NoWaiter /\ stops' = {}
  /\ UNCHANGED <<work, row, idle, wake, loop, occupied, sched, due, asked>>

RootClosed ==
  /\ root = "closing"
  /\ \A a \in Agents : host[a] = "none"
  /\ root' = "closed"
  /\ UNCHANGED <<work, row, idle, host, wake, loop, task, occupied, sched, due,
                 stops, asked, waiter, spent>>

RootReopens ==
  /\ root = "closed"
  /\ root' = "open"
  /\ UNCHANGED <<work, row, idle, host, wake, loop, task, occupied, sched, due,
                 stops, asked, waiter, spent>>

(* aclose returned: the loop and the task were joined; the slot and the    *)
(* writer lease are given back.                                            *)
HostClosed(a) ==
  /\ host[a] \in {"closing", "lost"}
  /\ loop[a].pc = "none" /\ task[a].pc = "none"
  /\ host' = [host EXCEPT ![a] = "none"]
  /\ wake' = wake \ {a}
  /\ occupied' = Released(a)
  /\ UNCHANGED <<work, row, idle, root, loop, task, sched, due, stops, asked,
                 waiter, spent>>

(* _close_unavailable_writer: the lease renewal failed.                    *)
WriterLost(a) ==
  /\ Live(a)
  /\ Happens("lost")
  /\ host' = [host EXCEPT ![a] = "lost"]
  /\ task' = IF task[a].pc # "none" /\ task[a].cause = "none"
             THEN [task EXCEPT ![a].cause = "close"] ELSE task
  /\ UNCHANGED <<work, row, idle, root, wake, loop, occupied, sched, due, stops,
                 asked, waiter>>

(* The process dies: only the rows are left.                               *)
Crash ==
  /\ Happens("crash")
  /\ root' = "closed"
  /\ host' = [a \in Agents |-> "none"]
  /\ wake' = {} /\ occupied' = {} /\ stops' = {}
  /\ loop' = [a \in Agents |-> NoLoop]
  /\ task' = [a \in Agents |-> NoTask]
  /\ sched' = NextRound({})
  /\ due' = FALSE
  /\ waiter' = NoWaiter
  /\ UNCHANGED <<work, row, idle, asked>>

-----------------------------------------------------------------------------
Scheduler ==
  \/ RoundBegins \/ SchedRead \/ SchedLoads \/ SchedLoadFails \/ SchedMarksIdle
  \/ RetireBegins \/ RetireChecks \/ RetireCloses \/ RetireDeletes
  \/ \E a \in Agents : SchedResolve(a)

Delivery(a) ==
  LoopWakes(a) \/ LoopScans(a) \/ LoopHookPasses(a) \/ LoopInstalls(a) \/ LoopEnds(a)

Execution(a) ==
  \/ TaskStarts(a) \/ TaskCompletes(a) \/ TaskInterrupts(a) \/ TaskStale(a)
  \/ TaskResumes(a) \/ TaskReleases(a) \/ TaskSettles(a) \/ HostClosed(a)

Waiting == WaitCheck \/ WaitSleeps \/ WaitWakes \/ DeliverEvents

Faults(a) ==
  \/ LoopPutsBack(a) \/ LoopModelRejects(a) \/ LoopHookBlocks(a) \/ LoopHookRaises(a)
  \/ TaskStartRejected(a) \/ TaskSuspends(a) \/ WriterLost(a) \/ StopRequests(a)
  \/ AgeIdle(a)

Next ==
  \/ Scheduler \/ Waiting \/ AdmitRequests \/ WaitBegin
  \/ \E a \in Agents : Delivery(a) \/ Execution(a) \/ Faults(a)
  \/ \E w \in Works : StopActiveWork(w)
  \/ RootCloses \/ RootClosed \/ RootReopens \/ Crash

Spec == Init /\ [][Next]_vars

(* The loop of the event loop runs every task that can take a step; model  *)
(* calls and tools of a turn end; a closing Host closes.  Nothing makes    *)
(* ROOT admit, stop, wait or close, nor a fault happen.                    *)
Fairness ==
  /\ WF_vars(Scheduler)
  /\ \A a \in Agents : WF_vars(Delivery(a)) /\ WF_vars(Execution(a))
  /\ WF_vars(Waiting)
  /\ \A w \in Works : WF_vars(StopActiveWork(w))

FairSpec == Spec /\ Fairness

-----------------------------------------------------------------------------
(* The admission check of validate_agent_request_graph is enough: at no    *)
(* later point do pending works wait for each other in a circle, through   *)
(* dependencies, queue positions or both.                                  *)
NoWaitingCycle == ~HasCycle(work, InSt(work, {"PENDING"}))

(* A work that ever ran had every dependency completed first, whatever was *)
(* stopped, deleted or lost while it was queued; and a work is given up    *)
(* for its dependencies only if one of them really did not succeed: the    *)
(* result of a completed source is not lost with the deletion of its idle  *)
(* Agent.                                                                  *)
DependenciesAreHonoured ==
  /\ \A w \in InSt(work, {"RUNNING", "COMPLETED", "INTERRUPTED", "USER_STOPPED"}) :
       \A d \in work[w].src : work[d].st = "COMPLETED"
  /\ \A w \in InSt(work, {"DEP_FAILED"}) : \E d \in work[w].src : work[d].st \in Stopped

(* Only works somebody asked to stop end as stopped by the user: a late    *)
(* signal does not hit the Agent's next work.                              *)
StopHitsOnlyItsWork == InSt(work, {"CANCELLED", "USER_STOPPED"}) \subseteq asked

(* The idle clock of an Agent never runs while it has work, so that its    *)
(* retirement can trust it.                                                *)
IdleAgentHasNoWork == \A a \in Agents : idle[a] # "no" => ~Busy(a)

(* What happens to a work is what its rows, its dependencies and its       *)
(* user's stops say, whoever of scheduler, delivery, turn and stop acted   *)
(* on an older reading.                                                    *)
WorkInv ==
  TypeOK /\ NoWaitingCycle /\ DependenciesAreHonoured /\ StopHitsOnlyItsWork
         /\ IdleAgentHasNoWork

(* A task that starts or runs owns a slot of the shared capacity, which is *)
(* never exceeded, and one Agent runs one work at a time.  The slot of a   *)
(* Host that lost its lease is exempt: a load that is refused because the  *)
(* old Host still stops releases it under the task (SchedLoadFails).       *)
ExecutionWithinCapacity ==
  /\ Cardinality(occupied) <= Capacity
  /\ \A a \in Agents :
       /\ task[a].pc \in {"start", "run"} /\ host[a] # "lost" => a \in occupied
       /\ Cardinality(OfAgent(a, {"RUNNING"})) <= 1

(* No slot is leaked: whoever holds one is about to use it or to give it   *)
(* back.                                                                   *)
SlotHasOwner ==
  \A a \in occupied :
    \/ sched.pc = "load" /\ sched.a = a
    \/ task[a].pc \in {"start", "run", "finish"}
    \/ loop[a].pc \in {"scan", "check", "install"}
    \/ loop[a].pc = "idle" /\ (a \in wake \/ host[a] = "gated")
    \/ host[a] \in {"closing", "lost"}

(* The slots of AgentSessionRuntime agree with the tasks, although loop,   *)
(* scheduler, task, suspension and close take and release the same key.    *)
SlotInv == ExecutionWithinCapacity /\ SlotHasOwner

(* A wait whose works have all ended does not sleep on: it was notified or *)
(* a notification is on its way, also when the works ended between its     *)
(* reading of them and its sleep.  Exempt is a work given up for its       *)
(* dependencies, also after its idle Agent was deleted: the scheduler does *)
(* that without an event or a notification (SchedResolve), and the wait    *)
(* has no timeout.                                                         *)
WaitIsWoken ==
  /\ waiter.pc \in {"sleep", "wait"}
  /\ \A w \in waiter.works : work[w].st \in Terminal \ {"DEP_FAILED"}
  => waiter.stale \/ due

(* An admitted work ends, as long as ROOT stays open: the Host that runs   *)
(* its Agent may crash, lose its lease, be unloaded or closed and loaded   *)
(* again, or be refused while the old one still stops.  The one exception  *)
(* is a delivery loop that an exception of the prompt hook ended: nothing  *)
(* restarts it while its Host lives (LoopHookRaises).                      *)
EveryWorkSettles ==
  \A w \in Works :
    (work[w].st \in Unsettled /\ root = "open")
      ~> (\/ work[w].st \in Terminal \/ root # "open"
          \/ \E a \in Agents : loop[a].pc = "dead")

=============================================================================
