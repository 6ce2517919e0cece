---------------------------- MODULE ProcessRegistry ----------------------------
(***************************************************************************)
(* ProcessRegistry: the terminal processes of one owner.  The thread of a   *)
(* call launches a process and decides whether it stays in the foreground   *)
(* or is adopted in the background; meanwhile the decision may be aborted,  *)
(* the process may exit, expire or be killed, readers look at it, finished  *)
(* processes are retired by a worker thread, and the owner may be released. *)
(*                                                                         *)
(* A step is one critical section of the registry lock or of the process,   *)
(* or one thing the operating system does.  A process stands for its whole  *)
(* group; one call launches one process, so they share their name.          *)
(***************************************************************************)
EXTENDS Naturals, FiniteSets

CONSTANTS
    Calls,               \* calls of exec_with_yield, and their processes
    MaxLive,             \* max_live_processes
    Watched,             \* processes that tools read or terminate
    Faults               \* what may go wrong, of FaultKinds

(* A group cannot be spawned, its threads cannot be started, it takes       *)
(* longer to die than a join waits, a release runs into its deadline.       *)
FaultKinds == {"SPAWN", "THREADS", "JOIN", "RELEASE"}

ASSUME RegistryAssumption ==
    /\ IsFiniteSet(Calls) /\ Watched \subseteq Calls
    /\ MaxLive \in Nat \ {0} /\ Faults \subseteq FaultKinds

VARIABLES
    exec,        \* where the thread of a call is
    path,        \* why it terminates its process
    decision,    \* _decision_attempts, NONE before and after
    adoptable,   \* adoption_allowed
    toKill,      \* aborted decisions whose process is still to be terminated
    os,          \* the process group
    signalled,   \* groups that were sent SIGTERM and SIGKILL
    watcher,     \* the watcher thread: its end publishes the completion
    intent,      \* termination_intent
    final,       \* final_status
    adopted,     \* background_adopted
    installed,   \* _states
    launching,   \* _launching_by_owner
    readers,     \* who reads the output of a process
    readsClosed, \* _reads_closed
    user,        \* terminate_if_running of a process
    worker,      \* the retirement thread
    release,     \* where shutdown or release_owner is
    released,    \* the owner is in _released_owners
    closed,      \* _closed
    cut          \* the decisions and processes release_owner listed

callVars == <<exec, path>>
decisionVars == <<decision, adoptable, toKill>>
processVars == <<os, signalled, watcher, intent, final>>
tableVars == <<installed, launching, readsClosed>>
releaseVars == <<release, released, closed, cut>>
vars == <<callVars, decisionVars, processVars, adopted, tableVars, readers, user, worker, releaseVars>>

Launching == {"SPAWNING", "SPAWNED", "ENSURING", "JOINING", "WAITING", "DECIDING",
              "PUBLISH_FINISHED", "PUBLISH_BACKGROUND", "ROLLBACK", "ROLLBACK_JOIN", "KEEPING"}
Points == Launching \cup {"IDLE", "READING", "RETURNED", "ENDED", "FAILED", "QUARANTINED"}
Reasons == {"NONE", "KILLED", "TIMEOUT"}

(* The type invariant. *)
TypeOK ==
    /\ exec \in [Calls -> Points]
    /\ path \in [Calls -> {"NONE", "LIVE", "CLOSED", "ABORTED", "WATCHDOG", "UNADOPTED"}]
    /\ decision \in [Calls -> {"NONE", "PREPARING", "PROCESS_INSTALLED", "ABORT_REQUESTED", "RESULT_READY"}]
    /\ adoptable \in [Calls -> BOOLEAN] /\ adopted \in [Calls -> BOOLEAN]
    /\ os \in [Calls -> {"NONE", "ALIVE", "DEAD"}]
    /\ watcher \in [Calls -> {"NONE", "RUNNING", "FROZEN", "COMPLETED", "ENDED"}]
    /\ intent \in [Calls -> Reasons] /\ final \in [Calls -> Reasons \cup {"EXITED"}]
    /\ toKill \cup signalled \cup installed \cup launching \cup readsClosed \subseteq Calls
    /\ readers \in [Calls -> SUBSET {"call", "user", "release"}]
    /\ user \in [Calls -> {"NONE", "OWNED", "JOINING", "ALREADY", "COMPLETED", "INCOMPLETE"}]
    /\ worker \in {"NONE", "RUNNING", "STOPPING", "EXITED"}
    /\ release \in {"NONE", "CLOSING", "ABORTING", "LAUNCHES", "KILLING", "JOINING", "REMOVING",
                    "WORKER", "DONE", "TIMED_OUT"}
    /\ released \in BOOLEAN /\ closed \in BOOLEAN
    /\ cut \in [decisions : SUBSET Calls, processes : SUBSET Calls]

NothingCut == [decisions |-> {}, processes |-> {}]

(* The owner is activated once, by the tool runtime that makes the registry.*)
Init ==
    /\ exec = [p \in Calls |-> "IDLE"] /\ path = [p \in Calls |-> "NONE"]
    /\ decision = [p \in Calls |-> "NONE"] /\ adoptable = [p \in Calls |-> TRUE]
    /\ toKill = {}
    /\ os = [p \in Calls |-> "NONE"] /\ signalled = {}
    /\ watcher = [p \in Calls |-> "NONE"]
    /\ intent = [p \in Calls |-> "NONE"] /\ final = [p \in Calls |-> "NONE"]
    /\ adopted = [p \in Calls |-> FALSE]
    /\ installed = {} /\ launching = {} /\ readsClosed = {}
    /\ readers = [p \in Calls |-> {}]
    /\ user = [p \in Calls |-> "NONE"]
    /\ worker = "NONE"
    /\ release = "NONE" /\ released = FALSE /\ closed = FALSE
    /\ cut = NothingCut

-----------------------------------------------------------------------------
(* Processes                                                               *)

Completed(p) == watcher[p] \in {"COMPLETED", "ENDED"}

(* _join_physical succeeds: group, reader and watcher are gone. *)
Joined(p) == os[p] = "DEAD" /\ watcher[p] \in {"NONE", "ENDED"}

(* _freeze_final_outcome_locked *)
Outcome(p) == IF final[p] # "NONE" THEN final[p]
              ELSE IF intent[p] # "NONE" THEN intent[p] ELSE "EXITED"

(* _accept_termination_intent and _terminate_process_group *)
Terminate(ps, reason) ==
    /\ intent' = [p \in Calls |->
                    IF p \in ps /\ final[p] = "NONE" /\ os[p] = "ALIVE" /\ intent[p] = "NONE"
                    THEN reason ELSE intent[p]]
    /\ final' = [p \in Calls |->
                    IF p \in ps /\ final[p] = "NONE" /\ os[p] = "DEAD" THEN Outcome(p) ELSE final[p]]
    /\ signalled' = signalled \cup ps
    /\ UNCHANGED <<os, watcher>>

ProcessExits(p) ==
    /\ os[p] = "ALIVE"
    /\ os' = [os EXCEPT ![p] = "DEAD"]
    /\ UNCHANGED <<callVars, decisionVars, signalled, watcher, intent, final, adopted, tableVars,
                   readers, user, worker, releaseVars>>

watchFrame == <<callVars, decisionVars, os, signalled, intent, adopted, tableVars, readers, user,
                worker, releaseVars>>

(* _watch_process freezes the outcome, publishes the completion, and ends. *)
WatcherFreezes(p) ==
    /\ watcher[p] = "RUNNING" /\ os[p] = "DEAD"
    /\ watcher' = [watcher EXCEPT ![p] = "FROZEN"]
    /\ final' = [final EXCEPT ![p] = Outcome(p)]
    /\ UNCHANGED watchFrame

WatcherGoes(p) ==
    /\ \/ watcher[p] = "FROZEN" /\ watcher' = [watcher EXCEPT ![p] = "COMPLETED"]
       \/ watcher[p] = "COMPLETED" /\ watcher' = [watcher EXCEPT ![p] = "ENDED"]
    /\ UNCHANGED <<final, watchFrame>>

-----------------------------------------------------------------------------
(* The thread of a call: exec_with_yield                                   *)

(* Capacity is held by launches and by processes that have not completed. *)
Occupied == launching \cup {p \in installed : ~Completed(p)}

Admit(p) ==
    /\ exec[p] = "IDLE"
    /\ ~released /\ ~closed
    /\ Cardinality(Occupied) < MaxLive
    /\ exec' = [exec EXCEPT ![p] = "SPAWNING"]
    /\ launching' = launching \cup {p}
    /\ decision' = [decision EXCEPT ![p] = "PREPARING"]
    /\ UNCHANGED <<path, adoptable, toKill, processVars, adopted, installed, readsClosed, readers,
                   user, worker, releaseVars>>

(* _spawn *)
Spawn(p) ==
    /\ exec[p] = "SPAWNING"
    /\ exec' = [exec EXCEPT ![p] = "SPAWNED"]
    /\ os' = [os EXCEPT ![p] = "ALIVE"]
    /\ readers' = [readers EXCEPT ![p] = @ \cup {"call"}]
    /\ UNCHANGED <<path, decisionVars, signalled, watcher, intent, final, adopted, tableVars,
                   user, worker, releaseVars>>

SpawnFails(p) ==
    /\ "SPAWN" \in Faults
    /\ exec[p] = "SPAWNING"
    /\ exec' = [exec EXCEPT ![p] = "FAILED"]
    /\ launching' = launching \ {p}
    /\ decision' = [decision EXCEPT ![p] = "NONE"]
    /\ UNCHANGED <<path, adoptable, toKill, processVars, adopted, installed, readsClosed, readers,
                   user, worker, releaseVars>>

(* _install_spawned_process: publish the process unless its owner or its    *)
(* decision went away, start its threads, and give the reservation back     *)
(* unless the owner went away.                                              *)
Install(p) ==
    LET why == IF released \/ closed THEN "CLOSED"
               ELSE IF decision[p] = "ABORT_REQUESTED" THEN "ABORTED" ELSE "LIVE" IN
    /\ exec[p] = "SPAWNED"
    /\ path' = [path EXCEPT ![p] = why]
    /\ installed' = IF why = "LIVE" THEN installed \cup {p} ELSE installed
    /\ decision' = [decision EXCEPT ![p] = IF why = "LIVE" THEN "PROCESS_INSTALLED" ELSE @]
    /\ watcher' = [watcher EXCEPT ![p] = "RUNNING"]
    /\ launching' = IF why = "CLOSED" THEN launching ELSE launching \ {p}
    /\ exec' = [exec EXCEPT ![p] = "ENSURING"]
    /\ UNCHANGED <<adoptable, toKill, os, signalled, intent, final, adopted, readsClosed, readers,
                   user, worker, releaseVars>>

(* A thread cannot be started: the publication is rolled back later. *)
InstallFails(p) ==
    /\ "THREADS" \in Faults
    /\ exec[p] = "SPAWNED"
    /\ IF ~released /\ ~closed /\ decision[p] # "ABORT_REQUESTED"
       THEN /\ installed' = installed \cup {p}
            /\ decision' = [decision EXCEPT ![p] = "PROCESS_INSTALLED"]
       ELSE UNCHANGED <<installed, decision>>
    /\ exec' = [exec EXCEPT ![p] = "ROLLBACK"]
    /\ UNCHANGED <<path, adoptable, toKill, processVars, adopted, launching, readsClosed, readers,
                   user, worker, releaseVars>>

(* What a call does after _ensure_retirement: an aborted launch is          *)
(* terminated, one that is kept for the release fails, the others wait.     *)
Proceed(p) ==
    CASE exec[p] = "KEEPING" ->
            /\ exec' = [exec EXCEPT ![p] = "QUARANTINED"]
            /\ launching' = launching \ {p}
            /\ UNCHANGED processVars
      [] path[p] = "LIVE" ->
            exec' = [exec EXCEPT ![p] = "WAITING"] /\ UNCHANGED <<launching, processVars>>
      [] path[p] = "ABORTED" ->
            /\ exec' = [exec EXCEPT ![p] = "JOINING"]
            /\ Terminate({p}, "KILLED")
            /\ UNCHANGED launching
      [] OTHER ->
            /\ exec' = [exec EXCEPT ![p] = "JOINING"]
            /\ signalled' = signalled \cup {p}
            /\ UNCHANGED <<launching, os, watcher, intent, final>>

(* _ensure_retirement: a worker that stops is joined and replaced. *)
Ensure(p) ==
    /\ exec[p] \in {"ENSURING", "KEEPING"}
    /\ \/ /\ closed \/ installed \cup launching = {} \/ worker = "RUNNING"
          /\ Proceed(p)
          /\ UNCHANGED worker
       \/ /\ ~closed /\ installed \cup launching # {} /\ worker = "NONE"
          /\ worker' = "RUNNING"
          /\ Proceed(p)
       \/ /\ ~closed /\ installed \cup launching # {} /\ worker = "EXITED"
          /\ worker' = "NONE"
          /\ UNCHANGED <<exec, launching, processVars>>
    /\ UNCHANGED <<path, decisionVars, adopted, installed, readsClosed, readers, user, releaseVars>>

(* The worker cannot be started.  A launch rolls back, one that is kept     *)
(* for the release fails with this error instead of its own.                *)
EnsureFails(p) ==
    /\ "THREADS" \in Faults
    /\ exec[p] \in {"ENSURING", "KEEPING"}
    /\ ~closed /\ installed \cup launching # {} /\ worker = "NONE"
    /\ IF exec[p] = "KEEPING" THEN Proceed(p)
       ELSE exec' = [exec EXCEPT ![p] = "ROLLBACK"] /\ UNCHANGED <<launching, processVars>>
    /\ UNCHANGED <<path, decisionVars, adopted, installed, readsClosed, readers, user, worker,
                   releaseVars>>

(* The yield time is over, or the process has completed. *)
YieldOver(p) ==
    /\ exec[p] = "WAITING"
    /\ IF decision[p] = "ABORT_REQUESTED"
       THEN /\ exec' = [exec EXCEPT ![p] = "JOINING"]
            /\ path' = [path EXCEPT ![p] = "WATCHDOG"]
            /\ Terminate({p}, "KILLED")
       ELSE exec' = [exec EXCEPT ![p] = "DECIDING"] /\ UNCHANGED <<path, processVars>>
    /\ UNCHANGED <<decisionVars, adopted, tableVars, readers, user, worker, releaseVars>>

(* finalize_yield_decision *)
Decide(p) ==
    /\ exec[p] = "DECIDING"
    /\ exec' = [exec EXCEPT ![p] = IF Completed(p) THEN "PUBLISH_FINISHED" ELSE "PUBLISH_BACKGROUND"]
    /\ UNCHANGED <<path, decisionVars, processVars, adopted, tableVars, readers, user, worker, releaseVars>>

(* _mark_foreground_decision_result_ready *)
Publish(p) ==
    LET background == exec[p] = "PUBLISH_BACKGROUND"
        published == background /\ adoptable[p] /\ p \in installed /\ decision[p] # "ABORT_REQUESTED" IN
    /\ exec[p] \in {"PUBLISH_FINISHED", "PUBLISH_BACKGROUND"}
    /\ adopted' = [adopted EXCEPT ![p] = published]
    /\ decision' = [decision EXCEPT ![p] = "RESULT_READY"]
    /\ IF background /\ ~published
       THEN /\ exec' = [exec EXCEPT ![p] = "JOINING"]
            /\ path' = [path EXCEPT ![p] = "UNADOPTED"]
            /\ Terminate({p}, "KILLED")
       ELSE exec' = [exec EXCEPT ![p] = "READING"] /\ UNCHANGED <<path, processVars>>
    /\ UNCHANGED <<adoptable, toKill, tableVars, readers, user, worker, releaseVars>>

(* The call has joined the process it terminates. *)
CallJoins(p) ==
    /\ exec[p] = "JOINING"
    /\ Joined(p)
    /\ exec' = [exec EXCEPT ![p] = IF path[p] = "CLOSED" THEN "ROLLBACK" ELSE "READING"]
    /\ decision' = [decision EXCEPT ![p] =
                        IF path[p] \in {"ABORTED", "WATCHDOG"} THEN "RESULT_READY" ELSE @]
    /\ UNCHANGED <<path, adoptable, toKill, processVars, adopted, tableVars, readers, user, worker, releaseVars>>

(* The join takes too long; ProcessPhysicalJoinError. *)
CallJoinTimesOut(p) ==
    /\ "JOIN" \in Faults
    /\ exec[p] = "JOINING"
    /\ ~Joined(p)
    /\ exec' = [exec EXCEPT ![p] = "ROLLBACK"]
    /\ UNCHANGED <<path, decisionVars, processVars, adopted, tableVars, readers, user, worker, releaseVars>>

(* The launch failed after the spawn: the call stops reading and terminates *)
(* what it started.                                                         *)
Rollback(p) ==
    /\ exec[p] = "ROLLBACK"
    /\ exec' = [exec EXCEPT ![p] = "ROLLBACK_JOIN"]
    /\ readers' = [readers EXCEPT ![p] = @ \ {"call"}]
    /\ Terminate({p}, "KILLED")
    /\ UNCHANGED <<path, decisionVars, adopted, tableVars, user, worker, releaseVars>>

(* close_reads_if_idle *)
Idle(p) == readers[p] = {}

(* _settle_foreground_decision_locked, with the reads of a failed launch    *)
(* closed first.                                                            *)
Settle(p, drop) ==
    LET removed == p \in installed /\ Idle(p) /\ (drop \/ (~adoptable[p] /\ Completed(p))) IN
    /\ decision' = [decision EXCEPT ![p] = "NONE"]
    /\ installed' = IF removed THEN installed \ {p} ELSE installed
    /\ readsClosed' = IF removed THEN readsClosed \cup {p} ELSE readsClosed

(* Mutation: the reservation of a launch that was closed is not returned. *)
RollbackKeepsReservation(p) ==
    /\ exec[p] = "ROLLBACK_JOIN"
    /\ Joined(p)
    /\ exec' = [exec EXCEPT ![p] = "FAILED"]
    /\ watcher' = [watcher EXCEPT ![p] = "ENDED"]
    /\ Settle(p, TRUE)
    /\ UNCHANGED <<path, adoptable, toKill, os, signalled, intent, final, adopted, launching,
                   readers, user, worker, releaseVars>>

RollbackJoins(p) ==
    /\ exec[p] = "ROLLBACK_JOIN"
    /\ Joined(p)
    /\ exec' = [exec EXCEPT ![p] = "FAILED"]
    /\ watcher' = [watcher EXCEPT ![p] = "ENDED"]
    /\ Settle(p, TRUE)
    /\ launching' = launching \ {p}
    /\ UNCHANGED <<path, adoptable, toKill, os, signalled, intent, final, adopted, readers, user,
                   worker, releaseVars>>

(* Mutation: a failed launch that cannot be joined is forgotten. *)
RollbackForgets(p) ==
    /\ "JOIN" \in Faults
    /\ exec[p] = "ROLLBACK_JOIN"
    /\ ~Joined(p)
    /\ exec' = [exec EXCEPT ![p] = "QUARANTINED"]
    /\ decision' = [decision EXCEPT ![p] = "ABORT_REQUESTED"]
    /\ adoptable' = [adoptable EXCEPT ![p] = FALSE]
    /\ launching' = launching \ {p}
    /\ UNCHANGED <<path, toKill, processVars, adopted, installed, readsClosed, readers, user,
                   worker, releaseVars>>

(* A process that cannot be joined is kept for the release of its owner. *)
RollbackTimesOut(p) ==
    /\ "JOIN" \in Faults
    /\ exec[p] = "ROLLBACK_JOIN"
    /\ ~Joined(p)
    /\ exec' = [exec EXCEPT ![p] = "KEEPING"]
    /\ installed' = installed \cup {p}
    /\ decision' = [decision EXCEPT ![p] = "ABORT_REQUESTED"]
    /\ adoptable' = [adoptable EXCEPT ![p] = FALSE]
    /\ UNCHANGED <<path, toKill, processVars, adopted, launching, readsClosed, readers, user,
                   worker, releaseVars>>

(* The initial result is read, or the read fails; the execution stands.     *)
(* Either way the call ends its own read before its decision is settled.    *)
ReadResult(p) ==
    /\ exec[p] = "READING"
    /\ exec' = [exec EXCEPT ![p] = "RETURNED"]
    /\ readers' = [readers EXCEPT ![p] = @ \ {"call"}]
    /\ UNCHANGED <<path, decisionVars, processVars, adopted, tableVars, user, worker, releaseVars>>

(* TerminalManager.execute settles the decision of a call that returned,    *)
(* exec_with_yield that of a call whose read failed.                        *)
SettleReturned(p) ==
    /\ exec[p] = "RETURNED"
    /\ exec' = [exec EXCEPT ![p] = "ENDED"]
    /\ IF decision[p] = "NONE" THEN UNCHANGED <<decision, installed, readsClosed>>
       ELSE Settle(p, FALSE)
    /\ UNCHANGED <<path, adoptable, toKill, processVars, adopted, launching, readers, user, worker, releaseVars>>

-----------------------------------------------------------------------------
(* Other threads                                                           *)

(* The first part of _abort_foreground_decision, under the lock. *)
AbortDecisions(ps) ==
    LET open == {p \in ps : decision[p] \in {"PREPARING", "PROCESS_INSTALLED", "ABORT_REQUESTED"}} IN
    /\ decision' = [p \in Calls |-> IF p \in open THEN "ABORT_REQUESTED" ELSE decision[p]]
    /\ adoptable' = [p \in Calls |-> adoptable[p] /\ p \notin open]
    /\ toKill' = toKill \cup (open \cap installed)

(* The decision timer, or the cancellation of the tool call. *)
Abort(p) ==
    /\ decision[p] \in {"PREPARING", "PROCESS_INSTALLED"}
    /\ AbortDecisions({p})
    /\ UNCHANGED <<callVars, processVars, adopted, tableVars, readers, user, worker, releaseVars>>

(* Its second part, without the lock. *)
AbortKills(p) ==
    /\ p \in toKill
    /\ toKill' = toKill \ {p}
    /\ Terminate({p}, "KILLED")
    /\ UNCHANGED <<callVars, decision, adoptable, adopted, tableVars, readers, user, worker, releaseVars>>

(* The lifetime timer *)
Expire(p) ==
    /\ p \in installed
    /\ os[p] = "ALIVE" /\ watcher[p] = "RUNNING"
    /\ p \notin signalled
    /\ Terminate({p}, "TIMEOUT")
    /\ UNCHANGED <<callVars, decisionVars, adopted, tableVars, readers, user, worker, releaseVars>>

userFrame == <<callVars, decisionVars, adopted, tableVars, worker, releaseVars>>

(* _owned: poll, wait, write, log and terminate_if_running begin alike. *)
Own(p) ==
    /\ p \in Watched
    /\ user[p] = "NONE"
    /\ p \in installed /\ p \notin readsClosed
    /\ ~released /\ ~closed
    /\ user' = [user EXCEPT ![p] = "OWNED"]
    /\ readers' = [readers EXCEPT ![p] = @ \cup {"user"}]
    /\ UNCHANGED <<processVars, userFrame>>

Disown(p, report) ==
    /\ user' = [user EXCEPT ![p] = report]
    /\ readers' = [readers EXCEPT ![p] = @ \ {"user"}]

(* A read returns. *)
ReadEnds(p) ==
    /\ user[p] = "OWNED"
    /\ Disown(p, "NONE")
    /\ UNCHANGED <<processVars, userFrame>>

TerminateAlready(p) ==
    /\ user[p] = "OWNED"
    /\ final[p] # "NONE" /\ Completed(p)
    /\ Disown(p, "ALREADY")
    /\ UNCHANGED <<processVars, userFrame>>

TerminateIfRunning(p) ==
    /\ user[p] = "OWNED"
    /\ final[p] = "NONE" \/ ~Completed(p)
    /\ user' = [user EXCEPT ![p] = "JOINING"]
    /\ Terminate({p}, "KILLED")
    /\ UNCHANGED <<readers, userFrame>>

TerminateReports(p) ==
    /\ user[p] = "JOINING"
    /\ \/ Joined(p) /\ \E r \in {"ALREADY", "COMPLETED"} : Disown(p, r)
       \/ ~Joined(p) /\ "JOIN" \in Faults /\ Disown(p, "INCOMPLETE")
    /\ UNCHANGED <<processVars, userFrame>>

(* _try_prune and _mark_prunable: the conditions hold in the last section. *)
Prunable(p) == p \in installed /\ ~released /\ decision[p] = "NONE" /\ Joined(p) /\ Idle(p)

Prune(p) ==
    /\ Prunable(p)
    /\ installed' = installed \ {p}
    /\ readsClosed' = readsClosed \cup {p}
    /\ UNCHANGED <<callVars, decisionVars, processVars, adopted, launching, readers, user, worker, releaseVars>>

(* _retire_finished: the time to live of a finished process is over. *)
WorkerPrunes(p) == worker \in {"RUNNING", "STOPPING"} /\ Prune(p)

(* exec_with_yield prunes before it is admitted: any call does, of any      *)
(* owner of the registry, admitted or refused.                              *)
AdmissionPrunes(p) == Prune(p)

WorkerStops ==
    /\ \/ /\ worker = "RUNNING"
          /\ closed \/ installed \cup launching = {}
          /\ worker' = "STOPPING"
       \/ worker = "STOPPING" /\ worker' = "EXITED"
    /\ UNCHANGED <<callVars, decisionVars, processVars, adopted, tableVars, readers, user, releaseVars>>

-----------------------------------------------------------------------------
(* release_owner, release_owner_and_join and shutdown                      *)

releaseFrame == <<callVars, adopted, user>>

Releases ==
    /\ released' = TRUE
    /\ release' = "ABORTING"
    /\ cut' = [NothingCut EXCEPT !.decisions = {p \in Calls : decision[p] # "NONE"}]
    /\ UNCHANGED <<closed, decisionVars, processVars, tableVars, readers, worker, releaseFrame>>

(* release_owner of one owner, or again after its deadline passed. *)
BeginRelease == release \in {"NONE", "TIMED_OUT"} /\ Releases

(* shutdown closes the registry for every owner, then releases each owner   *)
(* it found there; it joins the worker in any case.                         *)
Shutdown ==
    LET present == installed \cup launching # {} \/ \E p \in Calls : decision[p] # "NONE" IN
    /\ release \in {"NONE", "TIMED_OUT"}
    /\ ~closed
    /\ closed' = TRUE
    /\ release' = IF present THEN "CLOSING" ELSE "WORKER"
    /\ cut' = NothingCut
    /\ UNCHANGED <<released, decisionVars, processVars, tableVars, readers, worker, releaseFrame>>

ShutdownReleases == release = "CLOSING" /\ Releases

ReleaseAborts ==
    /\ release = "ABORTING"
    /\ AbortDecisions(cut.decisions)
    /\ release' = "LAUNCHES"
    /\ UNCHANGED <<released, closed, cut, processVars, tableVars, readers, worker, releaseFrame>>

(* Mutation: launches under way are not waited for. *)
ReleaseSkipsLaunches ==
    /\ release = "LAUNCHES"
    /\ release' = "KILLING"
    /\ cut' = [cut EXCEPT !.processes = installed]
    /\ readers' = [p \in Calls |-> IF p \in installed THEN readers[p] \cup {"release"} ELSE readers[p]]
    /\ UNCHANGED <<released, closed, decisionVars, processVars, tableVars, worker, releaseFrame>>

(* Every launch has given its reservation back. *)
ReleaseListsProcesses ==
    /\ release = "LAUNCHES"
    /\ launching = {}
    /\ toKill \cap cut.decisions = {}
    /\ release' = "KILLING"
    /\ cut' = [cut EXCEPT !.processes = installed]
    /\ readers' = [p \in Calls |-> IF p \in installed THEN readers[p] \cup {"release"} ELSE readers[p]]
    /\ UNCHANGED <<released, closed, decisionVars, processVars, tableVars, worker, releaseFrame>>

ReleaseKills ==
    /\ release = "KILLING"
    /\ Terminate(cut.processes, "KILLED")
    /\ release' = "JOINING"
    /\ UNCHANGED <<released, closed, cut, decisionVars, tableVars, readers, worker, releaseFrame>>

DropReads == readers' = [p \in Calls |-> readers[p] \ {"release"}]

ReleaseJoins ==
    /\ release = "JOINING"
    /\ \A p \in cut.processes : Joined(p)
    /\ DropReads
    /\ release' = "REMOVING"
    /\ UNCHANGED <<released, closed, cut, decisionVars, processVars, tableVars, worker, releaseFrame>>

(* _remove_released_state waits for the readers of a process. *)
ReleaseRemoves(p) ==
    /\ release = "REMOVING"
    /\ p \in cut.processes \cap installed
    /\ Idle(p)
    /\ installed' = installed \ {p}
    /\ readsClosed' = readsClosed \cup {p}
    /\ UNCHANGED <<decisionVars, processVars, launching, readers, worker, releaseVars, releaseFrame>>

ReleaseSettles ==
    /\ release = "REMOVING"
    /\ cut.processes \cap installed = {}
    /\ decision' = [p \in Calls |->
                        IF p \in cut.decisions /\ decision[p] = "RESULT_READY" THEN "NONE" ELSE decision[p]]
    /\ release' = "WORKER"
    /\ UNCHANGED <<released, closed, cut, adoptable, toKill, processVars, tableVars, readers, worker, releaseFrame>>

(* _join_retirement, at the end of a release or of a shutdown *)
ReleaseJoinsWorker ==
    /\ release = "WORKER"
    /\ \/ /\ (~closed /\ installed \cup launching # {}) \/ worker = "NONE"
          /\ release' = "DONE" /\ UNCHANGED worker
       \/ /\ closed \/ installed \cup launching = {}
          /\ worker = "RUNNING"
          /\ worker' = "STOPPING" /\ UNCHANGED release
       \/ /\ worker = "EXITED"
          /\ worker' = "NONE" /\ release' = "DONE"
    /\ UNCHANGED <<released, closed, cut, decisionVars, processVars, tableVars, readers, releaseFrame>>

ReleaseTimesOut ==
    /\ "RELEASE" \in Faults
    /\ released
    /\ release \in {"LAUNCHES", "JOINING", "REMOVING", "WORKER"}
    /\ DropReads
    /\ release' = "TIMED_OUT"
    /\ UNCHANGED <<released, closed, cut, decisionVars, processVars, tableVars, worker, releaseFrame>>

-----------------------------------------------------------------------------
CallStep(p) ==
    \/ Spawn(p) \/ Install(p) \/ Ensure(p) \/ YieldOver(p) \/ Decide(p) \/ Publish(p)
    \/ CallJoins(p) \/ Rollback(p) \/ RollbackJoins(p)
    \/ ReadResult(p) \/ SettleReturned(p)

CallFails(p) ==
    SpawnFails(p) \/ InstallFails(p) \/ CallJoinTimesOut(p) \/ RollbackTimesOut(p) \/ EnsureFails(p)

UserStep(p) == ReadEnds(p) \/ TerminateAlready(p) \/ TerminateIfRunning(p) \/ TerminateReports(p)

ReleaseStep ==
    \/ ShutdownReleases \/ ReleaseAborts \/ ReleaseListsProcesses \/ ReleaseKills \/ ReleaseJoins
    \/ (\E p \in Calls : ReleaseRemoves(p)) \/ ReleaseSettles \/ ReleaseJoinsWorker

Next ==
    \/ \E p \in Calls :
          \/ Admit(p) \/ CallStep(p) \/ CallFails(p)
          \/ ProcessExits(p) \/ WatcherFreezes(p) \/ WatcherGoes(p)
          \/ Abort(p) \/ AbortKills(p) \/ Expire(p) \/ Own(p) \/ UserStep(p)
          \/ WorkerPrunes(p) \/ AdmissionPrunes(p)
    \/ WorkerStops
    \/ BeginRelease \/ Shutdown \/ ReleaseStep \/ ReleaseTimesOut

Spec == Init /\ [][Next]_vars

(* Threads run, a killed group dies and a reader returns; nothing is        *)
(* assumed of a process that nobody kills.                                  *)
Progress ==
    /\ \A p \in Calls :
          /\ WF_vars(CallStep(p)) /\ WF_vars(AbortKills(p)) /\ WF_vars(UserStep(p))
          /\ WF_vars(p \in signalled /\ ProcessExits(p))
          /\ WF_vars(WatcherFreezes(p)) /\ WF_vars(WatcherGoes(p))
          /\ SF_vars(WorkerPrunes(p))
    /\ WF_vars(WorkerStops) /\ WF_vars(ReleaseStep)

FairSpec == Spec /\ Progress

-----------------------------------------------------------------------------
(* Safety                                                                  *)

(* A live process is never an invisible effect: the registry holds it, or   *)
(* the call that launched it is still there to terminate it.                *)
NoInvisibleProcess ==
    \A p \in Calls : os[p] = "ALIVE" => p \in installed \/ exec[p] \in Launching

(* An aborted decision never ends in a background process.                  *)
AbortedIsNotAdopted == \A p \in Calls : adopted[p] => adoptable[p]

(* Nobody reads the output of a process that was removed.                   *)
RemovedIsUnread == \A p \in readsClosed : readers[p] = {} /\ p \notin installed

(* terminate_if_running reports an end that has happened.                   *)
ReportedEndIsTrue == \A p \in Calls : user[p] \in {"ALREADY", "COMPLETED"} => os[p] = "DEAD"

(* A released owner has no process left but those of aborted launches,      *)
(* which their calls still terminate.                                       *)
ReleaseLeavesOnlyAborted ==
    release = "DONE" => \A p \in Calls : os[p] = "ALIVE" => path[p] = "ABORTED"

(* The table of processes: well formed, no live process outside it, no      *)
(* aborted one adopted in it, nothing removed while it is read.             *)
TableInv ==
    /\ TypeOK
    /\ NoInvisibleProcess
    /\ AbortedIsNotAdopted
    /\ RemovedIsUnread

(* What callers are told: a reported end has happened, and a released owner *)
(* has no process but those that aborted launches still terminate.          *)
ReportInv == ReportedEndIsTrue /\ ReleaseLeavesOnlyAborted

-----------------------------------------------------------------------------
(* Liveness                                                                *)

(* A release or a shutdown ends, although it waits for launches, readers,   *)
(* processes and the worker, and calls wait for the worker too; or its      *)
(* deadline passes.                                                         *)
ReleaseEnds ==
    release \notin {"NONE", "DONE", "TIMED_OUT"} ~> release \in {"DONE", "TIMED_OUT"}

(* A finished process is retired, although the worker exits when it finds   *)
(* the registry empty, unless the release that takes over times out.        *)
FinishedIsRetired ==
    \A p \in Calls :
        p \in installed /\ os[p] = "DEAD" /\ exec[p] = "ENDED" ~>
            p \notin installed \/ release = "TIMED_OUT"

(* Neither a release nor the retirement of a process waits for ever.        *)
RegistryProgress == ReleaseEnds /\ FinishedIsRetired

=============================================================================
