------------------------ MODULE ProcessRegistryProofs ------------------------
(***************************************************************************)
(* Theorems about ProcessRegistry, for any number of calls, any capacity    *)
(* and any faults: no live process is out of reach, an aborted one is not   *)
(* adopted, nothing is removed while it is read, a reported end has         *)
(* happened, and a release that ended has left nothing behind but what      *)
(* aborted launches still terminate.                                        *)
(***************************************************************************)
EXTENDS ProcessRegistry, TLAPS

-----------------------------------------------------------------------------
(* The inductive invariant                                                  *)

(* Where a process may stand with respect to its call, its watcher and the  *)
(* registry.                                                                *)
Unborn(p) == exec[p] \in {"IDLE", "SPAWNING"}
Unpublished(p) == exec[p] \in {"IDLE", "SPAWNING", "SPAWNED"}

Held(p) ==
    /\ Unborn(p) => os[p] = "NONE"
    /\ Unpublished(p) => p \notin installed /\ p \notin readsClosed /\ watcher[p] = "NONE"
    /\ exec[p] \in {"SPAWNING", "SPAWNED"} => p \in launching
    /\ watcher[p] \in {"FROZEN", "COMPLETED", "ENDED"} => os[p] = "DEAD"
    /\ exec[p] = "PUBLISH_FINISHED" => Completed(p)
    /\ exec[p] = "KEEPING" => p \in installed \/ os[p] = "DEAD"
    /\ exec[p] \in {"WAITING", "DECIDING", "PUBLISH_FINISHED", "PUBLISH_BACKGROUND"} => path[p] = "LIVE"
    /\ os[p] = "ALIVE" => p \in installed \/ exec[p] \in Launching
    /\ os[p] = "ALIVE" => p \in installed \/ p \in launching \/ path[p] = "ABORTED"

Decided(p) ==
    adopted[p] => /\ adoptable[p]
                  /\ decision[p] \in {"RESULT_READY", "NONE"}
                  /\ exec[p] \in {"READING", "RETURNED", "ENDED"}

Removed(p) ==
    p \in readsClosed =>
        /\ readers[p] = {} /\ p \notin installed
        /\ Joined(p) \/ exec[p] = "ENDED"

Reported(p) == user[p] \in {"ALREADY", "COMPLETED"} => os[p] = "DEAD"

Listed == release \in {"KILLING", "JOINING", "REMOVING", "WORKER", "DONE"}
ReleaseListed ==
    /\ release # "NONE" => released \/ closed
    /\ Listed =>
          /\ launching = {}
          /\ \A p \in Calls : os[p] = "ALIVE" => p \in cut.processes \/ path[p] = "ABORTED"
          /\ \A p \in cut.processes : ~Unpublished(p)
    /\ release \in {"REMOVING", "WORKER", "DONE"} => \A p \in cut.processes : Joined(p)

RegistryIInv ==
    /\ TypeOK
    /\ \A p \in Calls : Held(p) /\ Decided(p) /\ Removed(p) /\ Reported(p)
    /\ ReleaseListed

-----------------------------------------------------------------------------
(* What a step does to one process                                          *)

Local(p) == Held(p) /\ Decided(p) /\ Removed(p) /\ Reported(p)

(* A process that the step does not concern. *)
Same(p) ==
    /\ exec'[p] = exec[p] /\ path'[p] = path[p] /\ decision'[p] = decision[p]
    /\ adoptable'[p] = adoptable[p] /\ adopted'[p] = adopted[p]
    /\ os'[p] = os[p] /\ watcher'[p] = watcher[p]
    /\ readers'[p] = readers[p] /\ user'[p] = user[p]
    /\ (p \in installed') = (p \in installed) /\ (p \in launching') = (p \in launching)
    /\ (p \in readsClosed') = (p \in readsClosed)

(* What a release counts on: a published process stays published and joined,*)
(* only a launch starts a process, and only a launch that ends changes what *)
(* was aborted.                                                             *)
Onward(p) ==
    /\ ~Unpublished(p) => ~Unpublished(p)' /\ (Joined(p) => Joined(p)')
    /\ os'[p] = "ALIVE" => os[p] = "ALIVE" \/ p \in launching
    /\ path[p] = "ABORTED" => path'[p] = "ABORTED" \/ p \in launching

LEMMA SameStays ==
    ASSUME NEW p \in Calls, Same(p)
    PROVE  Onward(p) /\ (Local(p) => Local(p)')
<1>1. Onward(p)
  BY DEF Same, Onward, Unpublished, Joined
<1>2. Held(p) => Held(p)'
  BY DEF Same, Held, Unborn, Unpublished, Completed
<1>3. Decided(p) => Decided(p)'
  BY DEF Same, Decided
<1>4. Removed(p) => Removed(p)'
  BY DEF Same, Removed, Joined
<1>5. Reported(p) => Reported(p)'
  BY DEF Same, Reported
<1> QED BY <1>1, <1>2, <1>3, <1>4, <1>5 DEF Local

(* Nothing that a release counts on is undone by such steps. *)
LEMMA ReleaseStays ==
    ASSUME TypeOK, ReleaseListed, \A p \in Calls : Onward(p), UNCHANGED releaseVars,
           launching' \subseteq launching \/ ~(released \/ closed)
    PROVE  ReleaseListed'
<1>1. /\ UNCHANGED <<release, released, closed, cut>> /\ Listed' = Listed
      /\ cut.processes \subseteq Calls
  BY DEF releaseVars, Listed, TypeOK
<1>2. release # "NONE" => released \/ closed
  BY DEF ReleaseListed
<1>3. SUFFICES ASSUME Listed
               PROVE  /\ launching' = {}
                      /\ \A p \in Calls : os'[p] = "ALIVE" => p \in cut.processes \/ path'[p] = "ABORTED"
                      /\ \A p \in cut.processes : ~Unpublished(p)'
                      /\ release \in {"REMOVING", "WORKER", "DONE"} =>
                             \A p \in cut.processes : Joined(p)'
  BY <1>1, <1>2 DEF ReleaseListed, Listed
<1>4. launching = {} /\ launching' = {}
  BY <1>2, <1>3 DEF ReleaseListed, Listed
<1>5. \A p \in Calls : os'[p] = "ALIVE" => p \in cut.processes \/ path'[p] = "ABORTED"
  BY <1>3, <1>4 DEF ReleaseListed, Onward
<1>6. \A p \in cut.processes : ~Unpublished(p) /\ ~Unpublished(p)' /\ (Joined(p) => Joined(p)')
  BY <1>1, <1>3 DEF ReleaseListed, Onward
<1> QED BY <1>4, <1>5, <1>6 DEF ReleaseListed

(* One process moves. *)
MovesOne(p) ==
    /\ TypeOK'
    /\ Local(p)' /\ Onward(p)
    /\ \A q \in Calls \ {p} : Same(q)
    /\ UNCHANGED releaseVars
    /\ launching' \subseteq launching \/ ~(released \/ closed)

LEMMA MoveKeeps ==
    ASSUME RegistryIInv, NEW p \in Calls, MovesOne(p)
    PROVE  RegistryIInv'
<1>1. TypeOK /\ ReleaseListed /\ \A q \in Calls : Local(q)
  BY DEF RegistryIInv, Local
<1>2. ASSUME NEW q \in Calls PROVE Onward(q) /\ Local(q)'
  BY <1>1, SameStays DEF MovesOne
<1>3. ReleaseListed'
  BY <1>1, <1>2, ReleaseStays DEF MovesOne
<1> QED BY <1>2, <1>3 DEF RegistryIInv, MovesOne, Local

-----------------------------------------------------------------------------
(* The steps of a call, its process, its watcher and its readers            *)

ProcessStep(p) ==
    \/ Admit(p) \/ CallStep(p) \/ CallFails(p)
    \/ ProcessExits(p) \/ WatcherFreezes(p) \/ WatcherGoes(p)
    \/ Abort(p) \/ AbortKills(p) \/ Expire(p) \/ Own(p) \/ UserStep(p)
    \/ Prune(p)

(* Types are kept. *)
LEMMA StepTypes ==
    ASSUME TypeOK, NEW p \in Calls, ProcessStep(p)
    PROVE  TypeOK'
<1>1. CASE Admit(p)
  BY <1>1 DEF Admit, Points, Launching, TypeOK, callVars, decisionVars, processVars, tableVars,
              releaseVars
<1>2. CASE Spawn(p)
  BY <1>2 DEF Spawn, Points, Launching, TypeOK, callVars, decisionVars, processVars, tableVars,
              releaseVars
<1>3. CASE SpawnFails(p)
  BY <1>3 DEF SpawnFails, Points, TypeOK, callVars, decisionVars, processVars, tableVars,
              releaseVars
<1>4. CASE Install(p)
  BY <1>4 DEF Install, Points, Launching, TypeOK, callVars, decisionVars, processVars, tableVars,
              releaseVars
<1>5. CASE InstallFails(p)
  BY <1>5 DEF InstallFails, Points, Launching, TypeOK, callVars, decisionVars, processVars,
              tableVars, releaseVars
<1>6. CASE Ensure(p)
  BY <1>6 DEF Ensure, Proceed, Terminate, Points, Launching, Reasons, Outcome, TypeOK, callVars,
              decisionVars, processVars, tableVars, releaseVars
<1>7. CASE YieldOver(p)
  BY <1>7 DEF YieldOver, Terminate, Points, Launching, Reasons, Outcome, TypeOK, callVars,
              decisionVars, processVars, tableVars, releaseVars
<1>8. CASE Decide(p)
  BY <1>8 DEF Decide, Points, Launching, TypeOK, callVars, decisionVars, processVars, tableVars,
              releaseVars
<1>9. CASE Publish(p)
  BY <1>9 DEF Publish, Terminate, Points, Launching, Reasons, Outcome, TypeOK, callVars,
              decisionVars, processVars, tableVars, releaseVars
<1>10. CASE CallJoins(p)
  BY <1>10 DEF CallJoins, Points, Launching, TypeOK, callVars, decisionVars, processVars,
              tableVars, releaseVars
<1>11. CASE CallJoinTimesOut(p)
  BY <1>11 DEF CallJoinTimesOut, Points, Launching, TypeOK, callVars, decisionVars, processVars,
              tableVars, releaseVars
<1>12. CASE Rollback(p)
  BY <1>12 DEF Rollback, Terminate, Points, Launching, Reasons, Outcome, TypeOK, callVars,
              decisionVars, processVars, tableVars, releaseVars
<1>13. CASE RollbackJoins(p)
  BY <1>13 DEF RollbackJoins, Settle, Idle, Points, TypeOK, callVars, decisionVars, processVars,
              tableVars, releaseVars
<1>14. CASE RollbackTimesOut(p)
  BY <1>14 DEF RollbackTimesOut, Points, Launching, TypeOK, callVars, decisionVars, processVars,
              tableVars, releaseVars
<1>15. CASE ReadResult(p)
  BY <1>15 DEF ReadResult, Points, TypeOK, callVars, decisionVars, processVars, tableVars,
              releaseVars
<1>16. CASE EnsureFails(p)
  BY <1>16 DEF EnsureFails, Proceed, Terminate, Outcome, Reasons, Points, Launching, TypeOK,
              callVars, decisionVars, processVars, tableVars, releaseVars
<1>17. CASE SettleReturned(p)
  BY <1>17 DEF SettleReturned, Settle, Idle, Points, TypeOK, callVars, decisionVars, processVars,
              tableVars, releaseVars
<1>18. CASE ProcessExits(p)
  BY <1>18 DEF ProcessExits, TypeOK, callVars, decisionVars, processVars, tableVars, releaseVars
<1>19. CASE WatcherFreezes(p)
  BY <1>19 DEF WatcherFreezes, watchFrame, Outcome, Reasons, TypeOK, callVars, decisionVars,
              processVars, tableVars, releaseVars
<1>20. CASE WatcherGoes(p)
  BY <1>20 DEF WatcherGoes, watchFrame, TypeOK, callVars, decisionVars, processVars, tableVars,
              releaseVars
<1>21. CASE Abort(p)
  BY <1>21 DEF Abort, AbortDecisions, TypeOK, callVars, decisionVars, processVars, tableVars,
              releaseVars
<1>22. CASE AbortKills(p)
  BY <1>22 DEF AbortKills, Terminate, Outcome, Reasons, TypeOK, callVars, decisionVars,
              processVars, tableVars, releaseVars
<1>23. CASE Expire(p)
  BY <1>23 DEF Expire, Terminate, Outcome, Reasons, TypeOK, callVars, decisionVars, processVars,
              tableVars, releaseVars
<1>24. CASE Own(p)
  BY <1>24 DEF Own, userFrame, TypeOK, callVars, decisionVars, processVars, tableVars, releaseVars
<1>25. CASE ReadEnds(p)
  BY <1>25 DEF ReadEnds, Disown, userFrame, TypeOK, callVars, decisionVars, processVars,
              tableVars, releaseVars
<1>26. CASE TerminateAlready(p)
  BY <1>26 DEF TerminateAlready, Disown, userFrame, TypeOK, callVars, decisionVars, processVars,
              tableVars, releaseVars
<1>27. CASE TerminateIfRunning(p)
  BY <1>27 DEF TerminateIfRunning, Terminate, userFrame, Outcome, Reasons, TypeOK, callVars,
              decisionVars, processVars, tableVars, releaseVars
<1>28. CASE TerminateReports(p)
  BY <1>28 DEF TerminateReports, Disown, userFrame, TypeOK, callVars, decisionVars, processVars,
              tableVars, releaseVars
<1>29. CASE Prune(p)
  BY <1>29 DEF Prune, Prunable, Idle, TypeOK, callVars, decisionVars, processVars, tableVars,
              releaseVars
<1> QED BY <1>1, <1>2, <1>3, <1>4, <1>5, <1>6, <1>7, <1>8, <1>9, <1>10, <1>11, <1>12, <1>13,
              <1>14, <1>15, <1>16, <1>17, <1>18, <1>19, <1>20, <1>21, <1>22, <1>23, <1>24, <1>25,
              <1>26, <1>27, <1>28, <1>29 DEF ProcessStep, CallStep, CallFails, UserStep

(* One step concerns one process. *)
LEMMA StepFrame ==
    ASSUME TypeOK, NEW p \in Calls, ProcessStep(p)
    PROVE  (\A q \in Calls \ {p} : Same(q)) /\ UNCHANGED releaseVars
<1>1. CASE Admit(p)
  BY <1>1 DEF Admit, Points, Launching, Same, TypeOK, callVars, decisionVars, processVars,
              tableVars, releaseVars
<1>2. CASE Spawn(p)
  BY <1>2 DEF Spawn, Points, Launching, Same, TypeOK, callVars, decisionVars, processVars,
              tableVars, releaseVars
<1>3. CASE SpawnFails(p)
  BY <1>3 DEF SpawnFails, Points, Same, TypeOK, callVars, decisionVars, processVars, tableVars,
              releaseVars
<1>4. CASE Install(p)
  BY <1>4 DEF Install, Points, Launching, Same, TypeOK, callVars, decisionVars, processVars,
              tableVars, releaseVars
<1>5. CASE InstallFails(p)
  BY <1>5 DEF InstallFails, Points, Launching, Same, TypeOK, callVars, decisionVars, processVars,
              tableVars, releaseVars
<1>6. CASE Ensure(p)
  BY <1>6 DEF Ensure, Proceed, Terminate, Points, Launching, Reasons, Outcome, Same, TypeOK,
              callVars, decisionVars, processVars, tableVars, releaseVars
<1>7. CASE YieldOver(p)
  BY <1>7 DEF YieldOver, Terminate, Points, Launching, Reasons, Outcome, Same, TypeOK, callVars,
              decisionVars, processVars, tableVars, releaseVars
<1>8. CASE Decide(p)
  BY <1>8 DEF Decide, Points, Launching, Same, TypeOK, callVars, decisionVars, processVars,
              tableVars, releaseVars
<1>9. CASE Publish(p)
  BY <1>9 DEF Publish, Terminate, Points, Launching, Reasons, Outcome, Same, TypeOK, callVars,
              decisionVars, processVars, tableVars, releaseVars
<1>10. CASE CallJoins(p)
  BY <1>10 DEF CallJoins, Points, Launching, Same, TypeOK, callVars, decisionVars, processVars,
              tableVars, releaseVars
<1>11. CASE CallJoinTimesOut(p)
  BY <1>11 DEF CallJoinTimesOut, Points, Launching, Same, TypeOK, callVars, decisionVars,
              processVars, tableVars, releaseVars
<1>12. CASE Rollback(p)
  BY <1>12 DEF Rollback, Terminate, Points, Launching, Reasons, Outcome, Same, TypeOK, callVars,
              decisionVars, processVars, tableVars, releaseVars
<1>13. CASE RollbackJoins(p)
  BY <1>13 DEF RollbackJoins, Settle, Idle, Points, Same, TypeOK, callVars, decisionVars,
              processVars, tableVars, releaseVars
<1>14. CASE RollbackTimesOut(p)
  BY <1>14 DEF RollbackTimesOut, Points, Launching, Same, TypeOK, callVars, decisionVars,
              processVars, tableVars, releaseVars
<1>15. CASE ReadResult(p)
  BY <1>15 DEF ReadResult, Points, Same, TypeOK, callVars, decisionVars, processVars, tableVars,
              releaseVars
<1>16. CASE EnsureFails(p)
  BY <1>16 DEF EnsureFails, Proceed, Terminate, Outcome, Reasons, Points, Launching, Same,
              TypeOK, callVars, decisionVars, processVars, tableVars, releaseVars
<1>17. CASE SettleReturned(p)
  BY <1>17 DEF SettleReturned, Settle, Idle, Points, Same, TypeOK, callVars, decisionVars,
              processVars, tableVars, releaseVars
<1>18. CASE ProcessExits(p)
  BY <1>18 DEF ProcessExits, Same, TypeOK, callVars, decisionVars, processVars, tableVars,
              releaseVars
<1>19. CASE WatcherFreezes(p)
  BY <1>19 DEF WatcherFreezes, watchFrame, Outcome, Reasons, Same, TypeOK, callVars, decisionVars,
              processVars, tableVars, releaseVars
<1>20. CASE WatcherGoes(p)
  BY <1>20 DEF WatcherGoes, watchFrame, Same, TypeOK, callVars, decisionVars, processVars,
              tableVars, releaseVars
<1>21. CASE Abort(p)
  BY <1>21 DEF Abort, AbortDecisions, Same, TypeOK, callVars, decisionVars, processVars,
              tableVars, releaseVars
<1>22. CASE AbortKills(p)
  BY <1>22 DEF AbortKills, Terminate, Outcome, Reasons, Same, TypeOK, callVars, decisionVars,
              processVars, tableVars, releaseVars
<1>23. CASE Expire(p)
  BY <1>23 DEF Expire, Terminate, Outcome, Reasons, Same, TypeOK, callVars, decisionVars,
              processVars, tableVars, releaseVars
<1>24. CASE Own(p)
  BY <1>24 DEF Own, userFrame, Same, TypeOK, callVars, decisionVars, processVars, tableVars,
              releaseVars
<1>25. CASE ReadEnds(p)
  BY <1>25 DEF ReadEnds, Disown, userFrame, Same, TypeOK, callVars, decisionVars, processVars,
              tableVars, releaseVars
<1>26. CASE TerminateAlready(p)
  BY <1>26 DEF TerminateAlready, Disown, userFrame, Same, TypeOK, callVars, decisionVars,
              processVars, tableVars, releaseVars
<1>27. CASE TerminateIfRunning(p)
  BY <1>27 DEF TerminateIfRunning, Terminate, userFrame, Outcome, Reasons, Same, TypeOK, callVars,
              decisionVars, processVars, tableVars, releaseVars
<1>28. CASE TerminateReports(p)
  BY <1>28 DEF TerminateReports, Disown, userFrame, Same, TypeOK, callVars, decisionVars,
              processVars, tableVars, releaseVars
<1>29. CASE Prune(p)
  BY <1>29 DEF Prune, Prunable, Idle, Same, TypeOK, callVars, decisionVars, processVars,
              tableVars, releaseVars
<1> QED BY <1>1, <1>2, <1>3, <1>4, <1>5, <1>6, <1>7, <1>8, <1>9, <1>10, <1>11, <1>12, <1>13,
              <1>14, <1>15, <1>16, <1>17, <1>18, <1>19, <1>20, <1>21, <1>22, <1>23, <1>24, <1>25,
              <1>26, <1>27, <1>28, <1>29 DEF ProcessStep, CallStep, CallFails, UserStep

(* Only an owner that is not released launches, in an open registry. *)
LEMMA StepLaunches ==
    ASSUME TypeOK, NEW p \in Calls, ProcessStep(p)
    PROVE  launching' \subseteq launching \/ ~(released \/ closed)
<1>1. CASE Admit(p)
  BY <1>1 DEF Admit, Points, Launching, callVars, decisionVars, processVars, tableVars,
              releaseVars
<1>2. CASE Spawn(p)
  BY <1>2 DEF Spawn, Points, Launching, callVars, decisionVars, processVars, tableVars,
              releaseVars
<1>3. CASE SpawnFails(p)
  BY <1>3 DEF SpawnFails, Points, callVars, decisionVars, processVars, tableVars, releaseVars
<1>4. CASE Install(p)
  BY <1>4 DEF Install, Points, Launching, callVars, decisionVars, processVars, tableVars,
              releaseVars
<1>5. CASE InstallFails(p)
  BY <1>5 DEF InstallFails, Points, Launching, callVars, decisionVars, processVars, tableVars,
              releaseVars
<1>6. CASE Ensure(p)
  BY <1>6 DEF Ensure, Proceed, Terminate, Points, Launching, Reasons, Outcome, callVars,
              decisionVars, processVars, tableVars, releaseVars
<1>7. CASE YieldOver(p)
  BY <1>7 DEF YieldOver, Terminate, Points, Launching, Reasons, Outcome, callVars, decisionVars,
              processVars, tableVars, releaseVars
<1>8. CASE Decide(p)
  BY <1>8 DEF Decide, Points, Launching, callVars, decisionVars, processVars, tableVars,
              releaseVars
<1>9. CASE Publish(p)
  BY <1>9 DEF Publish, Terminate, Points, Launching, Reasons, Outcome, callVars, decisionVars,
              processVars, tableVars, releaseVars
<1>10. CASE CallJoins(p)
  BY <1>10 DEF CallJoins, Points, Launching, callVars, decisionVars, processVars, tableVars,
              releaseVars
<1>11. CASE CallJoinTimesOut(p)
  BY <1>11 DEF CallJoinTimesOut, Points, Launching, callVars, decisionVars, processVars,
              tableVars, releaseVars
<1>12. CASE Rollback(p)
  BY <1>12 DEF Rollback, Terminate, Points, Launching, Reasons, Outcome, callVars, decisionVars,
              processVars, tableVars, releaseVars
<1>13. CASE RollbackJoins(p)
  BY <1>13 DEF RollbackJoins, Settle, Idle, Points, callVars, decisionVars, processVars,
              tableVars, releaseVars
<1>14. CASE RollbackTimesOut(p)
  BY <1>14 DEF RollbackTimesOut, Points, Launching, callVars, decisionVars, processVars,
              tableVars, releaseVars
<1>15. CASE ReadResult(p)
  BY <1>15 DEF ReadResult, Points, callVars, decisionVars, processVars, tableVars, releaseVars
<1>16. CASE EnsureFails(p)
  BY <1>16 DEF EnsureFails, Proceed, Terminate, Outcome, Reasons, Points, Launching, callVars,
              decisionVars, processVars, tableVars, releaseVars
<1>17. CASE SettleReturned(p)
  BY <1>17 DEF SettleReturned, Settle, Idle, Points, callVars, decisionVars, processVars,
              tableVars, releaseVars
<1>18. CASE ProcessExits(p)
  BY <1>18 DEF ProcessExits, callVars, decisionVars, processVars, tableVars, releaseVars
<1>19. CASE WatcherFreezes(p)
  BY <1>19 DEF WatcherFreezes, watchFrame, Outcome, Reasons, callVars, decisionVars, processVars,
              tableVars, releaseVars
<1>20. CASE WatcherGoes(p)
  BY <1>20 DEF WatcherGoes, watchFrame, callVars, decisionVars, processVars, tableVars,
              releaseVars
<1>21. CASE Abort(p)
  BY <1>21 DEF Abort, AbortDecisions, callVars, decisionVars, processVars, tableVars, releaseVars
<1>22. CASE AbortKills(p)
  BY <1>22 DEF AbortKills, Terminate, Outcome, Reasons, callVars, decisionVars, processVars,
              tableVars, releaseVars
<1>23. CASE Expire(p)
  BY <1>23 DEF Expire, Terminate, Outcome, Reasons, callVars, decisionVars, processVars,
              tableVars, releaseVars
<1>24. CASE Own(p)
  BY <1>24 DEF Own, userFrame, callVars, decisionVars, processVars, tableVars, releaseVars
<1>25. CASE ReadEnds(p)
  BY <1>25 DEF ReadEnds, Disown, userFrame, callVars, decisionVars, processVars, tableVars,
              releaseVars
<1>26. CASE TerminateAlready(p)
  BY <1>26 DEF TerminateAlready, Disown, userFrame, callVars, decisionVars, processVars,
              tableVars, releaseVars
<1>27. CASE TerminateIfRunning(p)
  BY <1>27 DEF TerminateIfRunning, Terminate, userFrame, Outcome, Reasons, callVars, decisionVars,
              processVars, tableVars, releaseVars
<1>28. CASE TerminateReports(p)
  BY <1>28 DEF TerminateReports, Disown, userFrame, callVars, decisionVars, processVars,
              tableVars, releaseVars
<1>29. CASE Prune(p)
  BY <1>29 DEF Prune, Prunable, Idle, callVars, decisionVars, processVars, tableVars, releaseVars
<1> QED BY <1>1, <1>2, <1>3, <1>4, <1>5, <1>6, <1>7, <1>8, <1>9, <1>10, <1>11, <1>12, <1>13,
              <1>14, <1>15, <1>16, <1>17, <1>18, <1>19, <1>20, <1>21, <1>22, <1>23, <1>24, <1>25,
              <1>26, <1>27, <1>28, <1>29 DEF ProcessStep, CallStep, CallFails, UserStep

(* The process itself. *)
LEMMA StepLocal ==
    ASSUME TypeOK, NEW p \in Calls, Local(p), ProcessStep(p)
    PROVE  Local(p)' /\ Onward(p)
<1>1. CASE Admit(p)
  BY <1>1 DEF Admit, Points, Launching, TypeOK, Local, Held, Decided, Removed, Reported, Onward,
              Unborn, Unpublished, Joined, Completed, callVars, decisionVars, processVars,
              tableVars, releaseVars
<1>2. CASE Spawn(p)
  BY <1>2 DEF Spawn, Points, Launching, TypeOK, Local, Held, Decided, Removed, Reported, Onward,
              Unborn, Unpublished, Joined, Completed, callVars, decisionVars, processVars,
              tableVars, releaseVars
<1>3. CASE SpawnFails(p)
  BY <1>3 DEF SpawnFails, Points, TypeOK, Local, Held, Decided, Removed, Reported, Onward, Unborn,
              Unpublished, Joined, Completed, Launching, callVars, decisionVars, processVars,
              tableVars, releaseVars
<1>4. CASE Install(p)
  BY <1>4 DEF Install, Points, Launching, TypeOK, Local, Held, Decided, Removed, Reported, Onward,
              Unborn, Unpublished, Joined, Completed, callVars, decisionVars, processVars,
              tableVars, releaseVars
<1>5. CASE InstallFails(p)
  BY <1>5 DEF InstallFails, Points, Launching, TypeOK, Local, Held, Decided, Removed, Reported,
              Onward, Unborn, Unpublished, Joined, Completed, callVars, decisionVars, processVars,
              tableVars, releaseVars
<1>6. CASE Ensure(p)
  BY <1>6 DEF Ensure, Proceed, Terminate, Points, Launching, Reasons, Outcome, TypeOK, Local,
              Held, Decided, Removed, Reported, Onward, Unborn, Unpublished, Joined, Completed,
              callVars, decisionVars, processVars, tableVars, releaseVars
<1>7. CASE YieldOver(p)
  BY <1>7 DEF YieldOver, Terminate, Points, Launching, Reasons, Outcome, TypeOK, Local, Held,
              Decided, Removed, Reported, Onward, Unborn, Unpublished, Joined, Completed,
              callVars, decisionVars, processVars, tableVars, releaseVars
<1>8. CASE Decide(p)
  BY <1>8 DEF Decide, Points, Launching, TypeOK, Local, Held, Decided, Removed, Reported, Onward,
              Unborn, Unpublished, Joined, Completed, callVars, decisionVars, processVars,
              tableVars, releaseVars
<1>9. CASE Publish(p)
  BY <1>9 DEF Publish, Terminate, Points, Launching, Reasons, Outcome, TypeOK, Local, Held,
              Decided, Removed, Reported, Onward, Unborn, Unpublished, Joined, Completed,
              callVars, decisionVars, processVars, tableVars, releaseVars
<1>10. CASE CallJoins(p)
  BY <1>10 DEF CallJoins, Points, Launching, TypeOK, Local, Held, Decided, Removed, Reported,
              Onward, Unborn, Unpublished, Joined, Completed, callVars, decisionVars, processVars,
              tableVars, releaseVars
<1>11. CASE CallJoinTimesOut(p)
  BY <1>11 DEF CallJoinTimesOut, Points, Launching, TypeOK, Local, Held, Decided, Removed,
              Reported, Onward, Unborn, Unpublished, Joined, Completed, callVars, decisionVars,
              processVars, tableVars, releaseVars
<1>12. CASE Rollback(p)
  BY <1>12 DEF Rollback, Terminate, Points, Launching, Reasons, Outcome, TypeOK, Local, Held,
              Decided, Removed, Reported, Onward, Unborn, Unpublished, Joined, Completed,
              callVars, decisionVars, processVars, tableVars, releaseVars
<1>13. CASE RollbackJoins(p)
  BY <1>13 DEF RollbackJoins, Settle, Idle, Points, TypeOK, Local, Held, Decided, Removed,
              Reported, Onward, Unborn, Unpublished, Joined, Completed, Launching, callVars,
              decisionVars, processVars, tableVars, releaseVars
<1>14. CASE RollbackTimesOut(p)
  BY <1>14 DEF RollbackTimesOut, Points, Launching, TypeOK, Local, Held, Decided, Removed,
              Reported, Onward, Unborn, Unpublished, Joined, Completed, callVars, decisionVars,
              processVars, tableVars, releaseVars
<1>15. CASE ReadResult(p)
  BY <1>15 DEF ReadResult, Points, TypeOK, Local, Held, Decided, Removed, Reported, Onward,
              Unborn, Unpublished, Joined, Completed, Launching, callVars, decisionVars,
              processVars, tableVars, releaseVars
<1>16. CASE EnsureFails(p)
  BY <1>16 DEF EnsureFails, Proceed, Terminate, Outcome, Reasons, Points, Launching, TypeOK,
              Local, Held, Decided, Removed, Reported, Onward, Unborn, Unpublished, Joined,
              Completed, callVars, decisionVars, processVars, tableVars, releaseVars
<1>17. CASE SettleReturned(p)
  BY <1>17 DEF SettleReturned, Settle, Idle, Points, TypeOK, Local, Held, Decided, Removed,
              Reported, Onward, Unborn, Unpublished, Joined, Completed, Launching, callVars,
              decisionVars, processVars, tableVars, releaseVars
<1>18. CASE ProcessExits(p)
  BY <1>18 DEF ProcessExits, TypeOK, Local, Held, Decided, Removed, Reported, Onward, Unborn,
              Unpublished, Joined, Completed, Launching, callVars, decisionVars, processVars,
              tableVars, releaseVars
<1>19. CASE WatcherFreezes(p)
  BY <1>19 DEF WatcherFreezes, watchFrame, Outcome, Reasons, TypeOK, Local, Held, Decided,
              Removed, Reported, Onward, Unborn, Unpublished, Joined, Completed, Launching,
              callVars, decisionVars, processVars, tableVars, releaseVars
<1>20. CASE WatcherGoes(p)
  BY <1>20 DEF WatcherGoes, watchFrame, TypeOK, Local, Held, Decided, Removed, Reported, Onward,
              Unborn, Unpublished, Joined, Completed, Launching, callVars, decisionVars,
              processVars, tableVars, releaseVars
<1>21. CASE Abort(p)
  BY <1>21 DEF Abort, AbortDecisions, TypeOK, Local, Held, Decided, Removed, Reported, Onward,
              Unborn, Unpublished, Joined, Completed, Launching, callVars, decisionVars,
              processVars, tableVars, releaseVars
<1>22. CASE AbortKills(p)
  BY <1>22 DEF AbortKills, Terminate, Outcome, Reasons, TypeOK, Local, Held, Decided, Removed,
              Reported, Onward, Unborn, Unpublished, Joined, Completed, Launching, callVars,
              decisionVars, processVars, tableVars, releaseVars
<1>23. CASE Expire(p)
  BY <1>23 DEF Expire, Terminate, Outcome, Reasons, TypeOK, Local, Held, Decided, Removed,
              Reported, Onward, Unborn, Unpublished, Joined, Completed, Launching, callVars,
              decisionVars, processVars, tableVars, releaseVars
<1>24. CASE Own(p)
  BY <1>24 DEF Own, userFrame, TypeOK, Local, Held, Decided, Removed, Reported, Onward, Unborn,
              Unpublished, Joined, Completed, Launching, callVars, decisionVars, processVars,
              tableVars, releaseVars
<1>25. CASE ReadEnds(p)
  BY <1>25 DEF ReadEnds, Disown, userFrame, TypeOK, Local, Held, Decided, Removed, Reported,
              Onward, Unborn, Unpublished, Joined, Completed, Launching, callVars, decisionVars,
              processVars, tableVars, releaseVars
<1>26. CASE TerminateAlready(p)
  BY <1>26 DEF TerminateAlready, Disown, userFrame, TypeOK, Local, Held, Decided, Removed,
              Reported, Onward, Unborn, Unpublished, Joined, Completed, Launching, callVars,
              decisionVars, processVars, tableVars, releaseVars
<1>27. CASE TerminateIfRunning(p)
  BY <1>27 DEF TerminateIfRunning, Terminate, userFrame, Outcome, Reasons, TypeOK, Local, Held,
              Decided, Removed, Reported, Onward, Unborn, Unpublished, Joined, Completed,
              Launching, callVars, decisionVars, processVars, tableVars, releaseVars
<1>28. CASE TerminateReports(p)
  BY <1>28 DEF TerminateReports, Disown, userFrame, TypeOK, Local, Held, Decided, Removed,
              Reported, Onward, Unborn, Unpublished, Joined, Completed, Launching, callVars,
              decisionVars, processVars, tableVars, releaseVars
<1>29. CASE Prune(p)
  BY <1>29 DEF Prune, Prunable, Idle, TypeOK, Local, Held, Decided, Removed, Reported, Onward,
              Unborn, Unpublished, Joined, Completed, Launching, callVars, decisionVars,
              processVars, tableVars, releaseVars
<1> QED BY <1>1, <1>2, <1>3, <1>4, <1>5, <1>6, <1>7, <1>8, <1>9, <1>10, <1>11, <1>12, <1>13,
              <1>14, <1>15, <1>16, <1>17, <1>18, <1>19, <1>20, <1>21, <1>22, <1>23, <1>24, <1>25,
              <1>26, <1>27, <1>28, <1>29 DEF ProcessStep, CallStep, CallFails, UserStep

LEMMA StepMovesOne ==
    ASSUME RegistryIInv, NEW p \in Calls, ProcessStep(p)
    PROVE  RegistryIInv'
<1>1. TypeOK /\ Local(p)
  BY DEF RegistryIInv, Local
<1>2. MovesOne(p)
  BY <1>1, StepTypes, StepFrame, StepLaunches, StepLocal DEF MovesOne
<1> QED BY <1>2, MoveKeeps

-----------------------------------------------------------------------------
(* The worker and the release of the owner                                  *)

(* Nothing but the worker, or the release, moves. *)
LEMMA QuietKeeps ==
    ASSUME RegistryIInv, TypeOK',
           UNCHANGED <<exec, path, decisionVars, processVars, adopted, tableVars, readers, user>>,
           ReleaseListed'
    PROVE  RegistryIInv'
<1>1. ASSUME NEW p \in Calls PROVE Same(p) /\ Local(p)
  BY DEF RegistryIInv, Local, Same, decisionVars, processVars, tableVars
<1>2. ASSUME NEW p \in Calls PROVE Local(p)'
  BY <1>1, SameStays
<1> QED BY <1>2 DEF RegistryIInv, Local

(* The types in every step of the release, and of the worker. *)
LEMMA ReleaseTypes ==
    ASSUME TypeOK,
           \/ WorkerStops \/ BeginRelease \/ Shutdown
           \/ ReleaseStep \/ ReleaseTimesOut
    PROVE  TypeOK'
<1> USE DEF TypeOK
<1>1. CASE WorkerStops
  BY <1>1 DEF WorkerStops, callVars, decisionVars, processVars, tableVars, releaseVars
<1>2. CASE BeginRelease \/ ShutdownReleases
  <2>1. cut' = [decisions |-> {p \in Calls : decision[p] # "NONE"}, processes |-> {}]
    BY <1>2 DEF BeginRelease, ShutdownReleases, Releases, NothingCut
  <2>2. release' = "ABORTING" /\ released' \in BOOLEAN
    BY <1>2 DEF BeginRelease, ShutdownReleases, Releases
  <2>3. cut' \in [decisions : SUBSET Calls, processes : SUBSET Calls]
    BY <2>1
  <2>4. UNCHANGED <<closed, decisionVars, processVars, tableVars, readers, worker, releaseFrame>>
    BY <1>2 DEF BeginRelease, ShutdownReleases, Releases
  <2> QED BY <2>2, <2>3, <2>4 DEF callVars, decisionVars, processVars, tableVars, releaseFrame
<1>11. CASE Shutdown
  BY <1>11 DEF Shutdown, NothingCut, callVars, decisionVars, processVars, tableVars, releaseFrame
<1>3. CASE ReleaseAborts
  BY <1>3 DEF ReleaseAborts, AbortDecisions, callVars, processVars, tableVars, releaseFrame
<1>4. CASE ReleaseListsProcesses
  <2>1. cut' = [decisions |-> cut.decisions, processes |-> installed]
    BY <1>4 DEF ReleaseListsProcesses
  <2> QED BY <1>4, <2>1 DEF ReleaseListsProcesses, callVars, decisionVars, processVars, tableVars, releaseFrame
<1>5. CASE ReleaseKills
  BY <1>5 DEF ReleaseKills, Terminate, Outcome, Reasons, callVars, decisionVars, tableVars, releaseFrame
<1>6. CASE ReleaseJoins
  BY <1>6 DEF ReleaseJoins, DropReads, callVars, decisionVars, processVars, tableVars, releaseFrame
<1>7. CASE \E p \in Calls : ReleaseRemoves(p)
  BY <1>7 DEF ReleaseRemoves, callVars, decisionVars, processVars, releaseVars, releaseFrame
<1>8. CASE ReleaseSettles
  BY <1>8 DEF ReleaseSettles, callVars, processVars, tableVars, releaseFrame
<1>9. CASE ReleaseJoinsWorker
  BY <1>9 DEF ReleaseJoinsWorker, callVars, decisionVars, processVars, tableVars, releaseFrame
<1>10. CASE ReleaseTimesOut
  BY <1>10 DEF ReleaseTimesOut, DropReads, callVars, decisionVars, processVars, tableVars, releaseFrame
<1> QED BY <1>1, <1>2, <1>3, <1>4, <1>5, <1>6, <1>7, <1>8, <1>9, <1>10, <1>11 DEF ReleaseStep

(* What concerns one process when the release moves: its decision is        *)
(* aborted or settled, a read of the release begins or ends, or it leaves   *)
(* the table.                                                               *)
LEMMA ReleaseLocal ==
    ASSUME RegistryIInv, NEW p \in Calls,
           \/ ReleaseAborts \/ ReleaseListsProcesses \/ ReleaseKills \/ ReleaseJoins
           \/ (\E q \in Calls : ReleaseRemoves(q)) \/ ReleaseSettles \/ ReleaseTimesOut
    PROVE  Local(p)' /\ Onward(p)
<1>1. TypeOK /\ Local(p)
  BY DEF RegistryIInv, Local
<1> USE DEF Local, Held, Decided, Removed, Reported, Onward, Unborn, Unpublished, Joined, Completed
<1>2. CASE ReleaseAborts
  BY <1>1, <1>2 DEF ReleaseAborts, AbortDecisions, TypeOK, callVars, processVars, tableVars, releaseFrame
<1>3. CASE ReleaseListsProcesses
  BY <1>1, <1>3 DEF ReleaseListsProcesses, TypeOK, callVars, decisionVars, processVars, tableVars, releaseFrame
<1>4. CASE ReleaseKills
  BY <1>1, <1>4 DEF ReleaseKills, Terminate, callVars, decisionVars, tableVars, releaseFrame
<1>5. CASE ReleaseJoins \/ ReleaseTimesOut
  BY <1>1, <1>5 DEF ReleaseJoins, ReleaseTimesOut, DropReads, TypeOK, callVars, decisionVars,
                    processVars, tableVars, releaseFrame
<1>6. CASE \E q \in Calls : ReleaseRemoves(q)
  <2>1. PICK q \in Calls : ReleaseRemoves(q)
    BY <1>6
  <2>2. release = "REMOVING" /\ q \in cut.processes /\ readers[q] = {}
    BY <2>1 DEF ReleaseRemoves, Idle
  <2>3. Joined(q) /\ ~Unpublished(q)
    BY <2>2 DEF RegistryIInv, ReleaseListed, Listed
  <2> QED BY <1>1, <2>1, <2>2, <2>3 DEF ReleaseRemoves, TypeOK, callVars, decisionVars, processVars,
                                        releaseFrame
<1>7. CASE ReleaseSettles
  BY <1>1, <1>7 DEF ReleaseSettles, TypeOK, callVars, processVars, tableVars, releaseFrame
<1> QED BY <1>2, <1>3, <1>4, <1>5, <1>6, <1>7

(* Every process is listed that is not aborted, and listed processes are    *)
(* joined before any is removed.                                            *)
LEMMA ReleaseProgresses ==
    ASSUME RegistryIInv,
           \/ WorkerStops \/ BeginRelease \/ Shutdown
           \/ ReleaseStep \/ ReleaseTimesOut
    PROVE  ReleaseListed'
<1>1. /\ TypeOK /\ ReleaseListed /\ \A p \in Calls : Held(p)
  BY DEF RegistryIInv
<1>2. CASE WorkerStops
  BY <1>1, <1>2 DEF WorkerStops, ReleaseListed, Listed, Unpublished, Joined, callVars, processVars,
                    tableVars, releaseVars
<1>3. CASE BeginRelease \/ ShutdownReleases
  BY <1>3 DEF BeginRelease, ShutdownReleases, Releases, ReleaseListed, Listed
<1>12. CASE Shutdown
  <2>1. /\ release' \in {"CLOSING", "WORKER"} /\ closed' /\ cut'.processes = {}
        /\ release' = "WORKER" => installed = {} /\ launching = {}
        /\ UNCHANGED <<os, path, launching>>
    BY <1>12 DEF Shutdown, NothingCut, callVars, processVars, tableVars, releaseFrame
  <2>2. \A p \in Calls : os[p] = "ALIVE" => p \in installed \/ p \in launching \/ path[p] = "ABORTED"
    BY <1>1 DEF Held
  <2> QED BY <2>1, <2>2 DEF ReleaseListed, Listed
<1>4. CASE ReleaseAborts
  BY <1>1, <1>4 DEF ReleaseAborts, ReleaseListed, Listed
<1>5. CASE ReleaseListsProcesses
  <2>1. /\ release = "LAUNCHES" /\ release' = "KILLING" /\ launching = {} /\ launching' = {}
        /\ cut'.processes = installed /\ UNCHANGED <<os, path, exec, released, closed>>
    BY <1>1, <1>5 DEF ReleaseListsProcesses, TypeOK, processVars, tableVars, callVars, releaseFrame
  <2>2. \A p \in Calls : os[p] = "ALIVE" => p \in installed \/ path[p] = "ABORTED"
    BY <1>1, <2>1 DEF Held
  <2>3. \A p \in installed : ~Unpublished(p)
    BY <1>1 DEF Held, TypeOK
  <2> QED BY <1>1, <2>1, <2>2, <2>3 DEF ReleaseListed, Listed, Unpublished
<1>6. CASE ReleaseKills
  BY <1>1, <1>6 DEF ReleaseKills, Terminate, ReleaseListed, Listed, Unpublished, callVars, tableVars,
                    releaseFrame
<1>7. CASE ReleaseJoins
  BY <1>1, <1>7 DEF ReleaseJoins, ReleaseListed, Listed, Unpublished, Joined, callVars, processVars,
                    tableVars, releaseFrame
<1>8. CASE \E p \in Calls : ReleaseRemoves(p)
  BY <1>1, <1>8 DEF ReleaseRemoves, ReleaseListed, Listed, Unpublished, Joined, callVars, processVars,
                    releaseVars, releaseFrame
<1>9. CASE ReleaseSettles
  BY <1>1, <1>9 DEF ReleaseSettles, ReleaseListed, Listed, Unpublished, Joined, callVars, processVars,
                    tableVars, releaseFrame
<1>10. CASE ReleaseJoinsWorker
  BY <1>1, <1>10 DEF ReleaseJoinsWorker, ReleaseListed, Listed, Unpublished, Joined, callVars,
                     processVars, tableVars, releaseFrame
<1>11. CASE ReleaseTimesOut
  BY <1>1, <1>11 DEF ReleaseTimesOut, ReleaseListed, Listed
<1> QED BY <1>2, <1>3, <1>4, <1>5, <1>6, <1>7, <1>8, <1>9, <1>10, <1>11, <1>12 DEF ReleaseStep

LEMMA RegistryInvKept ==
    ASSUME RegistryIInv, [Next]_vars
    PROVE  RegistryIInv'
<1>1. CASE UNCHANGED vars
  <2>1. TypeOK' /\ ReleaseListed'
    BY <1>1 DEF RegistryIInv, TypeOK, ReleaseListed, Listed, Unpublished, Joined, vars, callVars,
                decisionVars, processVars, tableVars, releaseVars
  <2> QED BY <1>1, <2>1, QuietKeeps DEF vars, callVars, decisionVars, processVars, tableVars
<1>2. CASE \E p \in Calls : ProcessStep(p)
  BY <1>2, StepMovesOne
<1>3. CASE WorkerStops \/ BeginRelease \/ Shutdown \/ ShutdownReleases \/ ReleaseJoinsWorker
  <2>1. UNCHANGED <<exec, path, decisionVars, processVars, adopted, tableVars, readers, user>>
    BY <1>3 DEF WorkerStops, BeginRelease, Shutdown, ShutdownReleases, Releases, ReleaseJoinsWorker,
                callVars, releaseFrame
  <2>2. TypeOK' /\ ReleaseListed'
    BY <1>3, ReleaseTypes, ReleaseProgresses DEF RegistryIInv, ReleaseStep
  <2> QED BY <2>1, <2>2, QuietKeeps
<1>4. CASE \/ ReleaseAborts \/ ReleaseListsProcesses \/ ReleaseKills \/ ReleaseJoins
           \/ (\E p \in Calls : ReleaseRemoves(p)) \/ ReleaseSettles \/ ReleaseTimesOut
  <2>1. TypeOK' /\ ReleaseListed'
    BY <1>4, ReleaseTypes, ReleaseProgresses DEF RegistryIInv, ReleaseStep
  <2>2. \A p \in Calls : Local(p)'
    BY <1>4, ReleaseLocal
  <2> QED BY <2>1, <2>2 DEF RegistryIInv, Local
<1> QED BY <1>1, <1>2, <1>3, <1>4 DEF Next, ProcessStep, ReleaseStep, WorkerPrunes, AdmissionPrunes

LEMMA RegistryInvStarts ==
    ASSUME Init
    PROVE  RegistryIInv
<1>1. TypeOK
  BY DEF Init, NothingCut, TypeOK, Points, Reasons
<1>2. \A p \in Calls : Held(p) /\ Decided(p) /\ Removed(p) /\ Reported(p)
  BY DEF Init, Held, Unborn, Unpublished, Decided, Removed, Reported
<1>3. ReleaseListed
  BY DEF Init, NothingCut, ReleaseListed, Listed
<1> QED BY <1>1, <1>2, <1>3 DEF RegistryIInv

LEMMA RegistryAlways == Spec => []RegistryIInv
<1>1. RegistryIInv /\ [Next]_vars => RegistryIInv'
  BY RegistryInvKept
<1> QED BY <1>1, RegistryInvStarts, PTL DEF Spec

-----------------------------------------------------------------------------
(* The theorems                                                             *)

(* No live process is out of the reach of the registry and of its call, no  *)
(* aborted decision leaves a background process, and no process is removed  *)
(* while its output is read.                                                *)
THEOREM TableIsSound == Spec => []TableInv
<1>1. RegistryIInv => TableInv
  BY DEF RegistryIInv, TableInv, NoInvisibleProcess, AbortedIsNotAdopted, RemovedIsUnread, Held,
         Decided, Removed, TypeOK
<1> QED BY <1>1, RegistryAlways, PTL

(* An end that terminate_if_running reports has happened, and a release     *)
(* that ended leaves no live process but those of aborted launches.         *)
THEOREM ReportsAreTrue == Spec => []ReportInv
<1>1. RegistryIInv => ReportedEndIsTrue
  BY DEF RegistryIInv, ReportedEndIsTrue, Reported
<1>2. RegistryIInv => ReleaseLeavesOnlyAborted
  BY DEF RegistryIInv, ReleaseLeavesOnlyAborted, ReleaseListed, Listed, Joined
<1> QED BY <1>1, <1>2, RegistryAlways, PTL DEF ReportInv

=============================================================================
