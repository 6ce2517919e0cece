# Pulsara: a formal model of the session kernel

Pulsara is a desktop application in which one user works with a team of agents.
The Python package `src/src/pulsara_agent` (about 204 000 lines) runs the agents;
PostgreSQL holds the canonical state of every session; the React and Electron
front ends read projections of it and issue commands.  This directory holds TLA+
models of the parts whose correctness depends on order, staleness and failure,
the TLC runs that check them on small instances, and TLAPS proofs of what matters
most for instances of every size.

## 1. Inventory

Paths are relative to `src/src/pulsara_agent`; `ck` is `conversation_kernel`.

| Component | State | Operations | What is hard | What makes it correct |
|---|---|---|---|---|
| Writer lease, lifecycle (`ck/_repository/authority.py`, `deletion.py`, `archive.py`) | `sessions` row: lifecycle, writer generation, lease owner, expiry | acquire, renew, release, archive, unarchive, delete | several host processes; crashes; a takeover of a live lease; a guard that is stale when used | one writer; nothing of an earlier generation keeps running; an archived session is idle |
| Turns and messages (`kernel.py`, `conversation.py`) | `turns`, transcript entries, provider input cuts | accept a root turn, prepare a cut, commit a message, interrupt | an answer committed under a cut that is no longer true; a late commit | one RUNNING turn; terminal turns are final |
| Prompt queue (`prompts.py`, `ck/steer.py`, the delivery loop of `ck/host.py`) | `prompt_queue_items`, queue sequence, the host's prepared candidate | enqueue, steer, redirect, cancel, prepare, consume, reject | candidates are prepared outside the lock; steers race completion; capacity | FIFO per lane; a steer is delivered or settled; an item owns its turn; bounded; live |
| Plan workflow (`plans.py`) | `plan_workflows`, `plan_interactions` | enter, exit, question, draft, decide, forced exit in two phases | a decision starts a turn without looking for one; an open interaction shuts all admissions | permission matches the Plan; an open interaction is answerable; a handoff is delivered once |
| Tool attempts and results (`tools.py`) | `tool_execution_attempts`, `tool_results` | accept attempt, accept result | results after the turn ended or the host changed | a late result changes no terminal row |
| Turn admission (`ck/turn_admission.py`, `ck/io.py`) | shielded worker tasks, the acknowledgement of a write | accept, confirm, finalize, interrupt | lost acknowledgements, cancellation during a write | a cancelled admission leaves no running turn; success means the turn exists |
| Tool interactions (`ck/interaction.py`, `interaction_arbiter.py`) | one visible request, a bounded FIFO of dormant ones, the controller | request, publish, resolve, time out, detach, cancel, close | a decision racing a timeout or a close; lost acknowledgement of a committed decision | every request is settled once; one visible; a committed ALLOW is never reported as DENY |
| Host session (`ck/host.py`, 9 566 lines) | ROOT slot, fences, wakes, background tasks | open, run, deliver, close | close against admission; fences against the delivery loop | one physical root task; close joins everything |
| Runner and provider dispatch (`ck/runner.py`, `provider_dispatch.py`, `safe_point.py`) | the steps of one turn | compile, stream, commit, safe point | stream failures and retries, cancellation | each safe point drains steers first |
| Tool execution (`ck/tool_runtime.py`, `tool_execution.py`, `process_local_settlement.py`) | calls of a batch, permits, watchdogs | dispatch, settle, cancel | an effect whose result is unknown | each call gets one result |
| Compaction (`ck/compaction`) | lane, fence, safe-point handle, continuity slot, rows of manual commands | request, fence, freeze, stream, adopt, settle, close | entries written behind the cut; cancellation between fence and lane; lost adoption | nobody writes behind a fence; a command runs once on the source it accepted; no call on a replaced base |
| Subagents (`ck/subagents`, `_repository/subagents.py`) | works, dependencies, waits, execution slots, captured stops | dispatch, batch, wait, stop, run, settle | waits that form a cycle; a stop of work that has ended meanwhile; slots under load | no cycle of waits; a stop hits only its work; every work settles |
| MCP supervisor (`ck/mcp`) | attempts, slots, leases, candidates, surfaces of the tool port | connect, list, refresh, retire, dispatch, reload, close | relisting under calls in flight; a replaced connection that still drains | relisting excludes calls; a client always has an owner; only current leases admit |
| Scheduled tasks (`scheduling`, `_repository/scheduling.py`) | `scheduled_tasks`, queue items, the row each timer carries | create, edit, pause, switch, run now, list, retire, observe, submit | a row that is stale when it is submitted; two timers; restarts | one active plan; each occurrence queued once and none passed over |
| Background terminals (`terminal_process`) | processes, foreground decisions, launches, readers, the retirement worker | launch, adopt, abort, terminate, read, prune, release | abort racing adoption; release racing launches and readers | no live process outside the registry; a reported end has happened; a release ends |
| Live transport (`ck/live_bus.py`, live control, the terminal protocol gateway, the pages of the front end) | ring and generation of live events, revisions of the interaction, cursors of a page | offer, observe, snapshot, refresh, rebase | rings that forget; snapshots read besides; lost answers | no committed event missing; no hole in the live progress; stale work is noticed |
| Hooks, code mode, plugins, memory, retrieval, media, adapters, desktop services | configuration, caches, files | — | mostly I/O and data conversion | not modelled, see section 8 |

Components interact through the store (host, runner, Plan and queue code all call
`ConversationKernelRepository`), through asyncio tasks, futures and locks of one
host process (admission, interactions, tools, delivery loop), and through wakes:
the delivery loop re-reads the store whenever something may have become
deliverable.

## 2. Modules

| Module | Models |
|---|---|
| `SessionKernel` | the canonical store of one session and what host processes carry between two of its transactions |
| `ExecutionSlot` | the abstract promise: requests share one execution slot |
| `SessionKernelProofs` | theorems about `SessionKernel`: types, the execution slot, the Plan workflow, its rows and the refinement |
| `MCSessionKernel` | instances and symmetry for TLC |
| `ToolInteraction` | the interaction coordinator: requests of tools that wait for the user |
| `MCToolInteraction` | its instances |
| `TurnAdmission` | the admission coordinator: starting the turn of a direct request against a store that may fail |
| `MCTurnAdmission` | its instances |
| `CoordinatorProofs` | theorems about `ToolInteraction` and `TurnAdmission` |
| `AgentWorks` | delegated works: admission, dependencies, scheduling, delivery, capacity, stop and wait |
| `AgentWorksProofs` | theorems about `AgentWorks` |
| `MCAgentWorks` | its instances |
| `Compaction` | context compaction: manual commands, lane, fence, handle, adoption and its settlement |
| `CompactionProofs` | theorems about `Compaction` |
| `McpSupervisor` | MCP connections of a session: attempts, slots, catalogs, calls and close |
| `McpSupervisorProofs` | theorems about `McpSupervisor` |
| `MCMcpSupervisor` | its instances |
| `SessionObservation` | a page that follows a session: committed events, live bus, live control, gateway and browser |
| `SessionObservationProofs` | theorems about `SessionObservation` |
| `ProcessRegistry` | the terminal processes of one owner: launch, foreground decision, adoption, retirement, release |
| `ProcessRegistryProofs` | theorems about `ProcessRegistry` |
| `ScheduledTasks` | the plans of a session, the timer loops of the kernels and the inputs they queue |
| `ScheduledTasksProofs` | theorems about `ScheduledTasks` |
| `MCScheduledTasks` | its instances |

### SessionKernel: state and actions

Every writer transaction of the repository takes the session row `FOR UPDATE`
(`_writer_transaction`, `_require_writer`), so a transaction is one atomic
action.  Interleaving happens between transactions, and what a host read earlier
is a variable of that host:

| Variable | Code |
|---|---|
| `lifecycle`, `generation`, `owner`, `leaseLive` | the `sessions` row |
| `turn` | `turns`: status, terminal reason, frozen permission, Plan handoff; `generation` is a history field |
| `calls`, `attempt` | calls of the latest message without a `tool_results` row; `tool_execution_attempts` |
| `item`, `queueSeq` | `prompt_queue_items`, `latest_prompt_queue_sequence` |
| `workflow`, `interactions` | the latest `plan_workflows` row, the OPEN `plan_interactions` rows |
| `guard`, `cut`, `head` | per host: `HostWriterGuard`, `PreparedProviderInputCut`, `PreparedQueuedRootTurnAdmission` |

A turn is named by what started it, as in the code: a command, a queue item
(`build_queued_root_turn_identity` derives the turn id from the item id) or a
prepared continuation.  One action stands for one repository method; the branches
of `consume_prepared_prompt_head` are the four disjuncts of
`ConsumePreparedPromptHead`, and `accept_plan_tool_batch` is one action per kind
of batch.  `LeaseExpires` and `HostStops` are the environment.

Deliberate abstractions:

* The process-local gates of the host (`_plan_exit_fence`,
  `_external_new_turn_accepting`, the ROOT slot) are left out: the store has to be
  right for clients that call it in any order, and the host's own gates belong to
  the planned host module.
* An operation that raises and rolls back is a disabled action, unless its caller
  reacts to the failure with a change of state, as the delivery loop does
  (`ConsumeConflicts`, `SettleRefusedHead`).
* A lost acknowledgement is resolved by reading back the exact candidate, so at
  the level of the store it is a committed or an absent transaction.
* Payloads, entries, events, digests and timestamps have no effect on a guard and
  are left out.  The lease is compared with the database clock in some
  transactions and with a host clock in others; the model has one expiry event.
* `AGENT_INSTRUCTION` items, pending work dependencies, model-call bindings,
  `scheduled_tasks` rows and compaction are not in the state.

### ExecutionSlot

`Phase` reads off the store where a request is, as `project_request_execution`
does.  `ImplementsExecutionSlot` says that every transaction is a step of
`ExecutionSlot` or leaves every request where it is.  In particular a Plan
continuation inherits the slot in the transaction that ends its origin.

### ToolInteraction

`ck/interaction.py` runs on one event loop.  No body of `async with self._lock`
awaits, so a step of the model is everything a task does between two awaits; in
particular `_promote_next` is part of the step that calls it, and never a step of
its own.  `pending` is the visible request (`_pending`), `dormant` with `arrival`
the FIFO (`_dormant`), `waiter` the coroutine `_request`, `future` its future,
`phase` the resolution under way, `invalid` the invalidations that arrived during
it, `committed` the row in the store, `permits` the dispatch permits that
`InteractionAdmissionHooks` took.  `WriteEnds` is the transaction in its thread,
`DecisionAccepted`, `DecisionUnknown` and `DecisionNotAccepted` what
`_settle_decision` makes of its acknowledgement or of the confirming read.  A
deadline, a cancelled tool (`RequestCancelled`, `CellStopped`,
`CancelToolConfirmations`), a leaving controller and `Close` all use `Invalidate`,
which defers to a resolution under way.  The live view and its revision follow
`pending` and are compared for equality only; a command with a stale view is a
disabled action.  That a write whose client has exited has settled is assumed, as
the comment at `interaction.py:494` does.

### TurnAdmission

`worker` is the control point of `_accept_root_intent_worker`, which is shielded
from the cancellation of its caller; `caller` that of the ROOT task, first in
`accept_root_intent` and then in `_run_owned_root_task`; `stop` that of
`_interrupt_turn_worker`, which either of the first two may await.  A failing
confirming read (`ConfirmFails`) is asked again after the four physical errors of
`turn_admission.py:172`, and leaves the worker `UNCONFIRMED` after any other;
`_run_owned_root_task` then interrupts the turn until it is safe (`Owner...`).
`KernelSessionIO.run` returns only after the physical call has exited, so a call of
the store is one step that takes effect or not and whose outcome is learnt or not:
`WriteCommits` has one disjunct for each kind of acknowledgement.  `cause` and
`asked` are the two ways a stop is announced (`ActiveTurnCancellationIntent`, the
cancellation of the task); the code reads them at some awaits and not at others,
and so does the model.  `Rivals` are requests whose command identity already
belongs to another request: they meet the CONFLICT paths.  The store is reduced to
the status of the turns; what else an admission needs is in `SessionKernel`.

### AgentWorks

`work` holds the queue items of the Agents with the status of their turns; works are numbered in
admission order, which is the FIFO order of each queue, and `deps` are the dependencies whose
body is still missing (`src` those declared). `row` and `idle` are the Agents' session rows,
`root` the ROOT Host, `host`, `wake`, `loop` and `task` the Host session of each Agent with its
delivery loop and its active task, `occupied` the shared slots, `sched` the scheduler's round.
A transaction is one step, and so is what runs between two awaits. The fixpoint loop that
resolves dependencies is written as the largest set of pending works that can still succeed.
`due` is a committed event on its way to `notify_changed`, `waiter` ROOT's wait with its
captured revision. Actions of `Events` are commands and faults, at most `MaxEvents` of them.
One timing assumption: an idle hour does not pass between the scheduler's resolution of
dependencies and the last reading of the Agent's state by its retirement (`AgeIdle`).  Without
it the proof below fails, and TLC shows why: an Agent that turns old enough after its works'
results were copied may be deleted between the admission of a work that wants one more of them
and the next resolution, and that work is given up although its source completed.

### Compaction

A task (a manual command, the ROOT turn or a writer) waits for the summary lane, installs the fence
under the Host lock, freezes a cut of the transcript under the safe-point handle, streams a summary
and hands it to the settlement, which is drained whatever happens to the task. `store` holds the
facts an adoption is checked against: a context base is named by its revision. `plan` is the cut a
task froze, `cont` the slot of the provider input (Empty, Installed, parked for an adoption,
quarantined, abandoned by a confirming read that raised), `handle` the holder of the safe point. `cancel` is a cancellation requested and not
yet delivered: it is raised at the task's next await, and where that is decides what is cleaned up.
Whether a plan fits, a hook blocks or a stream fails is a choice. `LockHeld` lets another task hold
the Host lock across an await, as two Host operations do; `SlowQuery` lets the lookup of a
command's row be answered late.

### McpSupervisor

A slot is named by its server and the attempt generation that opened it. `srv` holds a
server's row in the supervisor's dictionaries (configuration, generations, current slot,
pending and installed candidate, retry, visible state), `attempts` the running `_connect`
tasks, `refresh` the relist task of each server, `slot` the fence and the client of every
connection, `leases` every unreleased lease, `closer` the tasks that close retired slots.
`surface` and `borrow` are the tool port's current and borrowed runtime generation, `call`
and `preview` the operations with the lanes they hold. An action is what runs between two
awaits. Two close tasks of the same slot are merged into one (the client's close is
idempotent), the text of a failure and delays are dropped. One timing assumption: an attempt
takes longer than the 10 ms for which a refresh coalesces notifications. Three history fields, which
no guard reads, name what section 5 describes: `lost` (connections a reload detached), `kept` (slots
whose leases outlive their configuration) and `fenced` (whether a refresh captured a fenced slot).

### SessionObservation

`log` counts committed events, `offers` everything offered to the live bus, `bus` its
generation, revision and ring, `control` the current interaction after each revision.
`work` is the version of todos and media ranges, which no stream carries: `OfferWork`
only announces a change.  `att` is the gateway's side of the observer attachment, `view`
the page with its cursors, `pc` and `frame` the request under way.  One poll is three
steps, because the batch of committed events is read in a thread (`ReadBatch`), live
streams afterwards (`Answer`, `AnswerOverflow`, `AnswerGap`) and the page applies the
answer later still, if it arrives (`Fail`).  Offers are numbered, also the lost ones, so
that a hole in what a page shows is visible to `LiveIsContiguous`.
Byte limits are counts; the sole event that exceeds a limit is `LargeEvents`.

### ProcessRegistry

`exec` is where the thread of a call is in `exec_with_yield`, `decision` its entry in
`_decision_attempts`, `launching` the reservations and `installed` the table
`_states`.  A step is one section of the registry lock or of the lock of a process.
`watcher` publishes the completion; `Joined` is a successful `_join_physical`.
`readers` are the open `reading()` scopes of an output: the call itself, a tool
(`Own`, which stands for poll, wait, write, log and terminate) and the release.
`worker` is the retirement thread: `STOPPING` is the moment after it found the
registry empty and before it has exited, in which `_ensure_retirement` must not
rely on it.  `release` walks through `release_owner_and_join`; with the fault
`RELEASE` it may run into the deadline of `release_owner` and be repeated.
`Shutdown` closes the registry and lists the owners in one section, and
`ShutdownReleases` marks the owner released in a later one: in between, a launch
is refused by `_closed` alone.  A registry without an owner only joins its worker.
The owner is active from the start: the tool runtime that makes the registry
activates it (`tool_runtime.py:746`), and no product code activates one again.
A reader that fails differs from one that returns in nothing the registry keeps:
`exec_with_yield` closes the call's own read before either decision is settled, so
`ReadResult` and `SettleReturned` stand for both.
`Faults` names what may go wrong, `Watched` the processes tools look at.

### ScheduledTasks

`task` is the table `scheduled_tasks`, `items` the queue rows of scheduled origin.
Every operation of `_repository/scheduling.py` locks the session row and is one
step.  The timer of a kernel is not: `scan`, `step` and `cut` hold the rows that
`tick` listed, where `_dispatch` is and the row as it was read, so everything can
happen between `observe_scheduled_due`, the submission and `_pause`.  A kernel
manages a plan through its own live host, or cold while nobody holds the writer
(`CanManage`).  The command identity of a timer input is derived from task,
revision and due time, which `IsTickItem` reflects; that the same occurrence under
another revision is not queued again is the property `OccurrenceQueuedOnce`.
`RowFails` stands for every failure, lost acknowledgements included: the loop may
always start another pass.  Time is the database clock in ticks; `Horizon` is the
last instant the calendar can express.

## 3. Runs

| Run | Question | Instance |
|---|---|---|
| `session_queue` | order, steers, capacity and late results around a crash, a lost lease, a cancellation or an archive; the refinement; liveness of the delivery loop | 1 host, 1 direct request, 2 items (human or output of a cell), capacity 2, tool batches; fairness |
| `session_plan` | the Plan workflow with permissions, handoffs, interactions and takeovers | 2 hosts, 2 generations, 1 direct request, 1 scheduled item, 1 continuation, 1 workflow with 2 revisions |
| `interaction` | one decision, one visible slot, one FIFO under every interruption; every request is answered, a closing host ends | an MCP confirmation from a cell and a form; 2 controllers; queue bound 2; fairness |
| `admission` | what is left behind by lost acknowledgements, unconfirmed writes, stops, failures and takeovers; a closing host gets its ROOT task back | 2 direct requests, one with a taken command identity; fairness |
| `agents` | works, slots and waits under any one disturbance | 2 Agents, 2 works, 1 slot, 1 event of 15 kinds; symmetry over Agents |
| `agents_progress` | progress after any one disturbance | 2 Agents, 2 works, 1 slot, 1 event of 14 kinds (all but ROOT's wait); fairness |
| `compaction` | a command, a turn and a writer compact, adopt, fail, are stopped, crash and lose the lease | 1 command, 1 writer, 2 prompts, and a fault (lost acknowledgement, raised confirming read), a stop or a crash besides any takeover |
| `compaction_progress` | answers, delivery, close, and owners of fence and handle | 1 command and the turn, 2 prompts, 1 replan, late lookups, a stop and a lost acknowledgement; fairness |
| `mcp` | connections, catalogs, calls and close under any one disturbance | 1 server, 4 configurations, 1 call, 1 preview, 3 generations, 1 event of 13 kinds beside the close, and a failed listing after it; fairness |
| `observation` | no silent loss, and a page catches up | 2 events, 1 of them too large; 3 offers, 4 of both together; ring of 1; 1 control revision, 1 change of work, 1 failure; main page or pane; fairness |
| `registry` | the table, the reports, and progress | 1 call, every fault; fairness |
| `scheduled` | one active plan, each occurrence once, none passed over | 2 kernels (started at the first or third tick) with 1 plan and 3 ticks, or 1 kernel with 2 plans, a manual command, 2 ticks and 2 items (state constraint `Bounded`); horizon 4; symmetry |

`interaction` has one request behind the visible one, so its queue is never full;
the proofs hold for every bound.  In `admission` two requests are the fewest where
one may find the other's turn running.

Two Agents and one slot are the smallest contention, and two works the smallest queue, batch and dependency. `MaxEvents` bounds commands and faults together; a refused load needs no event of its own, it follows a lost lease whose Host still stops.

One command, one writer and the turn are every pair that the fence and the lane order; with one
revision a second adoption meets a base that was replaced.

One server shows every interplay of attempt, relist, retry, reload, call and close; a second would only
share the host lane and the discovery reservation. `MaxEvents` counts disturbances; the close is free, and a listing, which only a disturbance starts,
may fail once more (`FollowUps`). The safety of the run is proved for any number of everything
(section 4); the run looks for what liveness one disturbance can break.

A ring of one overflows with the second offer; the third falls after the loss. With answers of one event every stream is behind for several polls.

Everything but the capacity and the restart of a stopping worker concerns one process and the threads around it. Two calls exceed what a run may take, so those two cases are exercised by no run; the theorems (section 4) cover them. Pruning by another call (`AdmissionPrunes`) may happen at any time.

Two revisions are an edit between two reads; with three ticks one occurrence is overdue while the next is due. The state constraint only cuts off instances that are larger in both respects.

Bounds.  `MaxGeneration`, `MaxWorkflows` and `MaxRevision` cap counters the code
lets grow; `Origins` and `Batches` select the inputs of a run.  Two generations are a
host and the one that took it over: every guard compares only "mine or a later one".
Two items are the fewest that have an order, and they fill the queue of capacity 2 (a
third enqueue is refused by the identities, not by the capacity; redirects go past it).
One continuation is a decision that hands the slot over; that this is a step of the abstract slot is left to the theorem.
Hosts, commands, items and continuations are only compared, so symmetry is sound;
it is not used for liveness.  Deadlock checking is off because a deleted session or a
closed host
really stops and because a finite set of request identities runs out.

Fairness.  Of the session runs only `session_queue` assumes any: weak
fairness of the three steps of
`_prompt_delivery_loop`.  The loop is a task of the host that level-reads the
store, is woken after every settlement, and rejects a candidate whose consumption
was refused (`_settle_queued_start`).  Nothing is assumed of users, models, tools
or other hosts.
`interaction` assumes that the clock passes every deadline, that a task
that can run does, and that a write, a confirming read and a form parse end:
`KernelSessionIO.run` bounds each with a deadline.  Nothing is assumed of the user
or of the controllers.  `admission` assumes strong fairness of the worker, of
the stop and of the settlement by the ROOT task, because they ask the store again and again (every 50 ms) and a store
that fails for ever is not what the property is about; weak fairness of the rest.
It does not assume that a missing workspace returns, nor that the run of a turn
that was handed over ends.

`FairSpec` of AgentWorks: weak fairness of the scheduler, of every loop and task, of the wait and of event delivery, all asyncio tasks that nothing else blocks; a turn's model calls and tools end. No fault, command or idle hour is assumed to happen.

`FairSpec` of Compaction: every task that can step steps; the lane is an asyncio.Lock, granted in
order of arrival (SF); the delivery loop polls every 50 ms and is woken by every removal of a fence,
so it does not miss a session that is idle again and again (SF). No fairness on requests, prompts,
stops, faults or crashes.

`LiveSpec` of McpSupervisor: every task runs on (weak). Lanes and the discovery reservation are FIFO semaphores, so whoever waits for one is served (strong fairness for relists, calls and previews); a turn ends, and the runner reaches another safe point.

`FairSpec` of SessionObservation: the page and the gateway keep polling and the owner of current work offers its notice (it does so in the same synchronous call). Host changes and failures are not fair, and bounded.

`FairSpec` of ProcessRegistry: threads run, a group that was sent SIGKILL dies, a reader returns, and the retirement worker, which wakes when a time to live is over, finds a process prunable again and again (strong fairness). Nothing is assumed of a process that nobody kills.

## 4. Proofs

`SessionKernelProofs` proves, for any sets of hosts, commands, items and
continuations and any bounds, under the two named assumptions of `SessionKernel`
(bounds are naturals; identities of different kinds are different):

* `TypeCorrect`: `Spec => []TypeOK`.
* `QueueItemsOwnTheirTurns`: an item has a turn exactly when it was consumed for a
  new turn.
* `SlotInvariant` and its consequences `SlotIsExclusive`, `TakeoverEndsTurns`,
  `FrozenPermissionStaysRight`, `InteractionsStayAnswerable`, `CutsAreExclusive`.

None of the slot properties is inductive alone.  `resolve_plan_draft_review`
starts a turn without looking for a running one, so `OneRunningTurn` needs the
last clause of `OpenInteractionIsAnswerable` (no turn runs while a draft is under
review).  That clause needs every admission to be shut by an open interaction,
and it needs that a Plan batch is unsettled only while no other interaction is
open.  A message commit rewrites the open calls of its turn, so the clause "a
question has its call open" needs `LiveCutIsExclusive`: nobody holds a cut of a
turn whose batch is open.  That again needs `RunningTurnIsCurrentGeneration`, for
otherwise a host that lost the lease could have left such a turn behind.
`RunningPermissionMatchesPlan` gives that a forced exit may interrupt exactly the
running turn.  The conjunction `SlotInv` is proved from these parts, most of which the
run `session_plan` checks: one lemma per group of actions, one step per
action, with shared lemmas for starting a turn, ending one, handing over, and
steps that leave the slot alone.

The second part of `SessionKernelProofs` proves what the run `session_queue` checks of safety, and `HandoffDeliveredOnce`.
Its base is `RowStep`: every transaction has one of a dozen effects on turns and items (a row is
inserted, a lane head is taken, steers are rejected, a turn ends, a continuation inherits, ...), each
stated with what its guards guarantee.  `TerminalRowsStay`, `LanesAreFifo` and `StoreImplementsSlot`
then follow by cases on the effect; the refinement needs `SlotInv` (a turn that starts finds the slot
free) and `QueueItemOwnsItsTurn` (the phase of an item is read from its turn as soon as it has one).
`SteersAreNeverOvertaken` needs `SteerRows`: a pending steer has a target that has started, a steer
of a completed turn is settled, and a pending steer on an ended turn is one left by a forced exit.
`HandoffsAreDeliveredOnce` needs `HandoffInv`: no two turns and no two items carry one handoff, and a
turn that carries the handoff of an item is the turn of that item.

`CoordinatorProofs` proves the three invariants of the run `interaction`, and five more, for
any sets of requests and controllers and any queue bound.  `InteractionInv` says of
each request that it is held, idle or answered consistently with its coroutine
(`Held`), that a resolution belongs to the visible request (`Resolution`), that
answer, invalidation and store agree (`Agreement`), and where its permit is
(`PermitHeld`); `QueueInv` adds the queue.  `AnswerAgreesWithStore` is not inductive
alone: it needs that nothing is committed for a request unless its resolution is
under way or its answer is set, and that an invalidation never sets the answer of a
request that resolves.  The lemmas about `Promote` say what one call does to every
request, since it may drop several before it shows one.  `OldestIsShown` has its own
invariant `OrderInv` (arrival numbers in the queue are distinct and never exceed the
counter).

The second part of `CoordinatorProofs` proves the safety properties of the run `admission`, and that an ended turn stays ended, for any
set of intents.  `AbandonedTurnIsEnded` speaks of ROOT tasks that have ended and of admissions that
have; to be inductive it has to be stated of every control point where a worker may
not leave a running turn (`SettledInv`), together with who is waiting for whom
(`JoinInv`: a ROOT task never ends before its worker, a stop belongs to exactly one
of them).  `UNCONFIRMED` is the one result after which a turn may still run.
`PublishedInv` follows a start from its commit to its publication.

`AgentWorksProofs` proves the safety properties of the run `agents` for any Agents, works, batches,
dependencies, capacity and events.  The inductive invariant `AgentInv` has one part per promise.
`Sound` speaks of any table of works: numbered in admission order, a queued work still misses exactly the
inputs that are not completed (`InputsMissing`), none of them belongs to a deleted Agent unless it failed
(`NoResultDeleted`), one running work per Agent, no circle.  Every transaction but an admission makes the
table evolve (`Evolves`: works go forward, and why); `SoundEvolves` proves once that evolution keeps `Sound`,
`ResolvingEvolves` that the resolution of dependencies, a largest fixed point, is an evolution, and
`JoinedIsSound` that a batch which passes the graph check adds no circle.  A deletion is safe because from
the scheduler's resolution to the deletion no queued work misses a result of that Agent (`Deleting`,
`ResultsTaken`), which needs that admissions wait for a retirement and that an idle Agent has no work
(`IdleInv`).  `HostsInv` says what a Host session that is gone has left; `HeldSlots` and `RunningWorks` give
each delivery and each running task its slot and its work; `StopsInv` follows a stop from its request to
the signal; `SlotHasOwner` and `WaitIsWoken` are inductive with these.  `UNCHANGED` lemmas, one per
variable, name the actions that touch it, so that a step lemma treats only those.

`CompactionProofs` proves the three invariants of the runs `compaction` and `compaction_progress` for
any commands, writers and bounds.  `CompactionInv` is inductive and has one part per owner: `Lanes`
(the lane and the fence belong to the task whose program counter says so, and no writer works behind
a fence), `Places` and `Roots` (where each kind of task can be, and what of the store that implies),
`Alone` (a command runs on an idle session and keeps the cut it read: this is what makes the source
stand still), `Handles`, `Successors` and `Settles` (the safe-point handle goes from the attempt to
the settlement to the successor and back, and is in one hand at each step), `Slot` (the base of the
provider slot is the base the store binds, or a settlement is about to make it so), `Unused` (an
abandoned slot has no handle) and `Closing`.
No part is inductive without the others: that the handle of an attempt is free to be handed over
needs `Lanes`, and that nobody replaces its frozen base meanwhile needs `Handles`.
`AdoptionIsOneFact` has a second invariant, `Once`, of what each command has done and was told, and
the hypothesis `SlowQuery = FALSE`: with late lookups `AnswerIsTrue` is false, as section 5 says.
`NoneAssumption` says that the model value `None` is no record of a fence, waiter or settlement, and
that the two holders of the handle that are no tasks differ from the tasks.

`McpSupervisorProofs` proves `ConnectionInv` and `CatalogInv`, for any servers, configurations, calls,
previews, lanes and bounds. `McpInv` is inductive: `Tasks` (an attempt has a generation of its own and
nobody else knows its slot), `Clients` (who may hold an open, closed or stuck client, and what its
fence is), `Tokens` (a lease keeps its slot open and registered, and a fenced slot has moved past all
its leases), `Owned` (each candidate holds a lease, the pending one the newer, and the current slot is
theirs), `Used` (a call or a preview has the lease it was admitted with), `Relists` (a drained, fenced
slot stays quiet) and `Ends` (how far a close is). That calls stay off a relisted slot needs `Tokens`:
a fence raises the slot's generation above every lease, so none admits until the relist makes a new
one. That no open client is lost needs `Tasks` and `Owned` together, because an attempt hands its slot
to the row in the step in which it stops knowing it. The attempt to prove these invariants refuted
their first form, in which they held only as far as the run reaches: see section 5.

`SessionObservationProofs` proves what the run `observation` checks of safety, for any sizes of rings and
batches and any number of changes and failures.  The invariant relates four holders of a position in the
streams.  The ring holds the latest offers, numbered without a hole (`BusInv`).  Whoever names a generation
and a revision, the page or an opening frame, holds progress that ends there, if the generation is still the
one of the bus (`Placed`); that is what lets an answer continue the page, since a subscription of an older
generation is compared before the ring is read.  An answer under way continues the cursors that the page has
(`EventsFrame`), which no host step can spoil, as the ring is copied into the answer.  A version of the work
that is not the current one is followed by a notice (`Learns`): due, in the offers behind the cursor, or lost
with its generation.  Every step of the host is a `HostMoves`, under which all of these persist.

`ProcessRegistryProofs` proves the safety properties of the run `registry` for any number of calls, any
capacity and any faults, which matters here since the run has one call.  Almost every step concerns one
process (`Same` says what the others keep), so the inductive invariant is stated per process.  A process
that was spawned is in the table, in a launch, or dead (`Held`), where a failed launch that could not be
joined is in the table again before its call gives up; an adopted process has its decision behind it
(`Decided`), so no abort can reach it; a removed one was joined or its call has ended (`Removed`), so no
rollback installs it again.  A release counts on three facts that no step undoes (`Onward`): what is
published stays published and joined, only a launch starts a process, and only a launch that ends changes
that it was aborted; hence after it has seen no launch, every live process is one it listed or an aborted
one (`ReleaseListed`).

`ScheduledTasksProofs` proves both properties of the run `scheduled` for any kernels, plans, commands,
rules and bounds; the calendar stays opaque but for `NextIsNext` (the least occurrence after an instant,
from the library's theorem on well-founded orders).  Its base is `Moves`: a step either restates inputs
or queues one; it never lowers a revision, moves the next run of an active plan only forward or past
`now`, and activates a plan alone.  `PlanInv` is not inductive: that a next run moved past `now` lies
after everything queued needs that no input of a timer is later than `now`, and that
`retire_missed_scheduled_due` moves forward needs that the row it carries was older than the start of
its kernel when it was read (`Carried`); that what is accepted after a stop is newer than it needs that
the recorded revision never exceeds the plan's.  `NothingIsSkipped` shows that only the acceptance of an
occurrence and its retirement move a next run without a new revision (`OthersDoNotAdvance`).

Every safety property of the runs is a theorem. Only model-checked are the liveness properties
(`DeliverablePromptIsSettled`, `RequestIsAnswered`, `CloseEnds`, `CloseJoinsAdmission`,
`CompactionProgress`, `EveryWorkSettles`, `McpProgress`, `PageCatchesUp`, `RegistryProgress`),
which are out of the prover's reach.

## 5. What the checks found

`prepare_force_plan_exit` (`ck/_repository/plans.py:1664`) interrupts the running
turn without rejecting its pending steers.  Every other early end does
(`_reject_terminal_prompt_steer_heads`).  `PendingSteerHasLiveTarget` names the
exception; with no later prompt in the NEW_TURN lane the steer stays PENDING,
keeps a place of the bounded queue and the session cannot be archived.  The
design document asks for a deterministic rejection
(`archived_docs/PULSARA_DURABILITY_SUBTRACTION_REASSESSMENT.zh.md:2418`).

Observations that contradict no document:

* A tool attempt whose host died never gets a result, so `IDLE_SESSION_SQL` keeps
  such a session from being archived.
* A scheduled item claims a Plan handoff when it is enqueued.  If it is cancelled
  or rejected it keeps the claim and the handoff reaches no turn.
* A human prompt whose candidate was prepared before a Plan change is rejected
  (`REQUEST_START_REJECTED`), not retried; the host's fences make this rare.
* A redirect skips the capacity check, which is harmless because it also cancels
  one pending item.
* A user stop that arrives while an admission waits for a missing workspace
  (`wait_available`) takes effect only when the workspace returns or the host
  closes; nothing is left running, the request just stays in its starting state.
* `_interrupt_turn_worker` retries on every exception, a closed I/O lane included;
  it relies on the host joining its root task before it closes the lane.
* The confirming read of an admission is repeated after four kinds of error only
  (`turn_admission.py:172`).  Any other, such as `PostgresSchemaError` or
  `KernelSessionIOClosed`, leaves `accept_root_intent` with the write possibly
  committed, so the coordinator alone does not keep its turns from being left
  running; `_run_owned_root_task` does, by interrupting the turn after every
  exception (`host.py:2466`).  `AbandonedTurnIsEnded` says both.
* **A silent rejection.** The scheduler resolves dependencies with `guard=None`, so a dependent
  work it rejects gets no event and nobody calls `notify_changed` (`ck/subagent.py:201`).  A ROOT
  that waits for that work sleeps for good, against "waits for exact assignments to end"
  (`bundled_skills/pulsara-code-mode/SKILL.md:95`).  `WaitIsWoken` exempts works that end as
  DEP_FAILED.
* **A dead delivery loop.** `_prepare_queued_prompt_hook` is awaited outside any handler of
  `_prompt_delivery_loop` (`ck/host.py:4210`): an error of the hook dispatch ends the loop of a
  live Host, and its works stay queued, although the comment at `ck/host.py:4455` wants no failure
  to "strand a pending request".  The loop's control point is then `dead`, which
  `EveryWorkSettles` exempts.
* **A slot given away.** While a Host without its lease closes, its task still runs.  The scheduler
  is refused the load and releases the slot of that task (`ck/subagent.py:227`), against
  "Capacity belongs to this exact task" (`ck/host.py:2482`).  `ExecutionWithinCapacity` exempts
  Hosts in state `lost`.
* **A fence left behind.** The `finally` of `run_fenced` awaits the Host lock
  (`ck/compaction/runtime.py:344`), which `read_context_usage` (`ck/host.py:1692`) and the change of
  the Agent capacity (`ck/host.py:5732`) hold across awaits.  A stop of the waiting task cancels the
  acquisition and the fence stays for the life of the Host, against
  `archived_docs/ROUND_9_2_HOOK_SUBSYSTEM_IMPLEMENTATION_SPEC.zh.md:1090` (cancellation releases
  lane and fence through the existing `finally`).  With `LockHeld` TRUE the model reaches such
  states, and `OwnershipInv` speaks of fences only where it is FALSE.
* **A successor left behind.** The same stop drops the successor an adoption returned, and with it
  the safe-point handle (`ck/compaction/coordinator.py:1796`); the comment at line 3431 guards one
  of the callers against it: "That exact owner must not disappear with the waiter".
* **Stopped but adopted.** `_join_compaction_settlement` (`coordinator.py:781`) drains the
  settlement and then raises the cancellation, so the command answers "The manual compaction was
  stopped." although its snapshot was adopted; line 1535 of the same document wants the waiter to see
  `COMPACTED`.  `AnswerIsTrue` claims nothing of a stopped answer.
* **A slot parked for good.** After a deterministic rejection the candidate is confirmed once more,
  outside the retry loop (`coordinator.py:4222-4226`): when that read raises, the error leaves
  `_complete_compaction_settlement` (4076-4078) without one of the three settlements, `close` of the
  dry projection releases only the handle (`ck/provider_dispatch.py:810-824`), and a slot that was
  Empty stays `EMPTY_ADOPTION_PENDING`.  `ck/input_continuity.py:955-959` refuses it to every later
  preparation, so that scope of the Host calls no provider and compacts nothing until the Host is
  closed and opened again.  The model has the step (`ReconfirmRaises`) and calls the slot `ABANDONED`;
  `PendingSlotSettled` says that every other way to end a settlement gives the slot back, and that
  nobody holds an input frozen from an abandoned one.
* **Told busy of what ran.** A retry whose lookup of the row is answered late (`SlowQuery`) can find
  the session busy after the first call of the same command has compacted, and is told `BUSY`.  The
  command still runs once; only with `SlowQuery` FALSE does `AnswerIsTrue` hold.
* **An old configuration admits calls.** A successful `_connect` does not withdraw the retry of an
  earlier failure; that retry opens a second slot beside the installed one and becomes `_slots[server]`.
  `reload_configs` fences only that one (`ck/mcp/supervisor.py:1612`), so leases on the installed slot
  stay current, against "no old generation may admit a fresh dispatch" (line 1615). The same holds of
  a retired slot whose runtime generation a turn has borrowed. `kept` of the model names these slots,
  and `CatalogInv` exempts them.
* **A retained slot is reopened under a new configuration.** After a reload of the runtime half the
  installed candidate stays, "without keeping old physical access" (line 1619). When its replacement
  is published and then fails, `_report_slot_failure` makes the old slot `_slots[server]` again
  (line 2073); the next refresh relists that slot, `complete_refresh` reopens it, and calls go to a
  process that runs with the old configuration. Also named by `kept`.
* **A detached connection.** After a reconnect published its slot and before the next safe point,
  `reload_configs` pops the installed candidate (line 1607) but closes only the slot in `_slots`; the
  comment at line 2259 names this loss for the neighbouring case. `lost` names it, `ConnectionInv`
  exempts it.
* **A listing beside calls.** `catalog_operation` drains "every pre-fence admission before listing"
  (line 472). A refresh that was armed for a successor and runs after that successor failed captures
  the installed slot, which is not fenced: calls are admitted while it is listed. The listing is then
  refused by `prepare_refresh_lease` (line 454) and reported as a failure of the healthy slot.
  `RelistingExcludesCalls` speaks of the listings of fenced slots (`fenced`).
* **A lost list change.** `notification` starts no refresh while the server's refresh task is not done
  (line 1817); when that task still lists a replaced slot it returns, and the new slot stays
  DIRTY_FENCED, although line 2257 says a dirty candidate "stays owned until its full relist".
* **Settlement before entry.** `_observe` reads committed events first and the live bus afterwards
  (`terminal_protocol/v3_gateway.py:570`).  An entry committed and settled in between has its settlement
  in this answer and its entry in the next; the page hides the draft meanwhile, although the comment at
  `frontend/lib/runtime-adapter.ts:4193` says "Keep already displayed bytes".  The page catches up with
  the next poll, which is what the run checks.
* **A pane keeps old work.** A pane that loses the answer of a refresh repeats its poll from the new
  cursor without reading current work again; it shows the old todos until the next notice.
  `FollowsWork` of the model exempts such a pane.
* **A release that does not wait.** `_install_spawned_process` leaves a launch whose decision was
  aborted out of `_states` and returns its reservation (`terminal_process/manager.py:766`), so
  `release_owner_and_join` may return while that process lives, against its docstring "never detaches an
  admitted process owner" (line 1187).  `ReleaseLeavesOnlyAborted` says that this is the only way.
* **The occurrence at the restart.** `retire_missed_scheduled_due` advances a plan strictly past the
  start of the kernel (`ck/_repository/scheduling.py:835`), so an occurrence at exactly that instant is
  skipped too, although the docstring (line 809) says "Skip only unaccepted occurrences preceding this
  kernel run" and the tick loop would deliver it.  `NoLiveOccurrenceSkipped` speaks of later ones.

## 6. Reading the mutants

Each property has a mutant: an operator next to the definition it replaces, marked
"Mutation", that changes it as a plausible bug would (a takeover that forgets
`_interrupt_prior_generation`, a completion that ignores steers, a capacity check
off by one).  TLC refutes the property under it.

## 7. Plan

1. `SessionKernel`, its refinement and the slot invariant (done).
2. The coordinators of one host: `ToolInteraction` and `TurnAdmission`, with `CoordinatorProofs` (done).
3. `Compaction`, `AgentWorks`, `McpSupervisor`, `SessionObservation`, `ProcessRegistry`,
   `ScheduledTasks`, checked (done).
4. The rows of the session: final rows, lanes, steers, handoffs, the archive, and the refinement
   (`SessionKernelProofs`, second part, done).
5. The plans and timers: `ScheduledTasksProofs`; the process table: `ProcessRegistryProofs`; the page:
   `SessionObservationProofs`; delegated works: `AgentWorksProofs`; compaction: `CompactionProofs` (done).
6. The connections of MCP servers: `McpSupervisorProofs` (done).

## 8. Not modelled, and why

* The host session (`ck/host.py`), the runner and the provider dispatch, and the execution of a tool
  batch: they drive the modelled components one after the other.  Their own hazard, the order in
  which a closing host joins its tasks, is assumed where a model needs it (`TurnAdmission`).
* Code mode cells and hooks: external programs; their effects on the session come in through the
  queue (`EnqueueCellOutput`), the interactions (`CellStopped`) and the compaction (a blocked plan).
* Desktop services, plugins, media, retrieval, settings: I/O and presentation.
* LLM adapters and the model-input compiler: conversions of data formats; what matters there is
  wire-level detail a small model cannot show.
* Session fork copies immutable rows in one transaction.  Queries are projections of the store; the
  one that matters to correctness, the request projection, is the refinement mapping.
