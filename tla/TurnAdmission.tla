---------------------------- MODULE TurnAdmission ----------------------------
(***************************************************************************)
(* TurnAdmissionCoordinator: one host starts the turns of direct requests.  *)
(* A worker, shielded from the cancellation of its caller, writes the turn, *)
(* confirms a write whose acknowledgement is lost, repeats one that is      *)
(* confirmed absent, checks and publishes the start, and ends the turn when *)
(* it cannot be handed over.  The ROOT task of the host that owns the       *)
(* request ends its turn once more before it gives the slot back, because a *)
(* confirming read may raise with the turn committed.  Meanwhile the user   *)
(* stops the request, the host closes, the lease runs out, another host     *)
(* takes over, the workspace disappears and any call of the store may fail. *)
(*                                                                         *)
(* KernelSessionIO.run returns only after the physical call has exited, so  *)
(* a call of the store is one step: it takes effect or not, and its caller  *)
(* learns the outcome or not.                                               *)
(***************************************************************************)
EXTENDS Naturals

CONSTANTS
    Intents,      \* prepared intents of direct requests
    Rivals        \* those whose command identity names another request

ASSUME IntentsAssumption == Rivals \subseteq Intents

VARIABLES
    lease,      \* of this host: held, expired, or taken by another host
    gate,       \* WorkspaceExecutionGate
    row,        \* intent: status of its turns row
    worker,     \* intent: where _accept_root_intent_worker is, or its result
    error,      \* intent: original_error
    stop,       \* intent: where _interrupt_turn_worker is
    caller,     \* intent: where its ROOT task is: in accept_root_intent, past
                \* its end, or in the settlement of _run_owned_root_task
    cause,      \* intent: ActiveTurnCancellationIntent.cause
    asked,      \* intents whose cancellation_requested is set
    active      \* intents whose ROOT work activation is published

storeVars == <<lease, row>>
callerVars == <<worker, error, stop, caller>>
stopVars == <<cause, asked>>
admissionVars == <<storeVars, gate, callerVars, stopVars, active>>

Terminal == {"COMPLETED", "INTERRUPTED"}
Ended == {"RETURNED", "CANCELLED", "RAISED"}
Settling == {"INTERRUPTING", "READING"}

(* The type invariant. *)
AdmissionTypeOK ==
    /\ lease \in {"HELD", "EXPIRED", "TAKEN"}
    /\ gate \in {"AVAILABLE", "MISSING", "CLOSING"}
    /\ row \in [Intents -> {"ABSENT", "RUNNING"} \cup Terminal]
    /\ worker \in [Intents -> {"NEW", "START", "WRITING", "CONFIRMING", "WAITING", "CHECKING",
                               "READING", "FINALIZING", "ENDING",
                               "FULL", "NONE", "FAILED", "UNCONFIRMED", "CANCELLED"}]
    /\ error \in [Intents -> {"NONE", "PHYSICAL", "LOGICAL"}]
    /\ stop \in [Intents -> {"IDLE", "WRITING", "READING"}]
    /\ caller \in [Intents -> {"NEW", "AWAITING", "ENDING", "DONE"} \cup Ended \cup Settling]
    /\ cause \in [Intents -> {"NONE", "USER_REQUEST", "HOST_SESSION_CLOSE"}]
    /\ asked \subseteq Intents
    /\ active \subseteq Intents

-----------------------------------------------------------------------------
Busy(i) == caller[i] \in {"AWAITING", "ENDING"}
Stopped(i) == i \in asked \/ cause[i] # "NONE"
HostCloses == gate = "CLOSING"

WorkerGoes(i, pc) == worker' = [worker EXCEPT ![i] = pc]

(* A step of the worker alone. *)
WorkerStep(i, from, to) ==
    /\ worker[i] = from
    /\ WorkerGoes(i, to)
    /\ UNCHANGED <<lease, gate, stop, caller, stopVars>>

(* The worker has to end the turn before it raises. *)
WorkerEnds(i, from) ==
    /\ worker[i] = from
    /\ WorkerGoes(i, "ENDING")
    /\ stop' = [stop EXCEPT ![i] = "WRITING"]
    /\ UNCHANGED <<lease, gate, caller, stopVars>>

(* A replayed command finds the turn of its first admission. *)
AdmissionInit ==
    /\ lease = "HELD"
    /\ gate \in {"AVAILABLE", "MISSING"}
    /\ row \in [Intents -> {"ABSENT"} \cup Terminal]
    /\ \A i \in Rivals : row[i] = "ABSENT"
    /\ worker = [i \in Intents |-> "NEW"]
    /\ error = [i \in Intents |-> "NONE"]
    /\ stop = [i \in Intents |-> "IDLE"]
    /\ caller = [i \in Intents |-> "NEW"]
    /\ cause = [i \in Intents |-> "NONE"]
    /\ asked = {}
    /\ active = {}

(* accept_root_intent, from the free ROOT slot of the host. *)
AcceptRootIntent(i) ==
    /\ caller[i] = "NEW"
    /\ gate = "AVAILABLE"
    /\ \A j \in Intents : caller[j] \in {"NEW", "DONE"}
    /\ caller' = [caller EXCEPT ![i] = "AWAITING"]
    /\ WorkerGoes(i, "START")
    /\ UNCHANGED <<storeVars, gate, error, stop, stopVars, active>>

-----------------------------------------------------------------------------
(* _accept_root_intent_worker                                              *)

BeginWrite(i) ==
    /\ WorkerStep(i, "START", IF Stopped(i) THEN "NONE" ELSE "WRITING")
    /\ UNCHANGED <<row, error, active>>

(* accept_root_turn_intent finds the rows of the same command. *)
WriteFindsTurn(i) ==
    /\ lease = "HELD"
    /\ row[i] # "ABSENT"
    /\ WorkerStep(i, "WRITING", "CHECKING")
    /\ UNCHANGED <<row, error, active>>

(* It inserts the turn, and the acknowledgement may be lost. *)
WriteCommits(i) ==
    /\ lease = "HELD"
    /\ i \notin Rivals
    /\ row[i] = "ABSENT"
    /\ \A j \in Intents : row[j] # "RUNNING"
    /\ row' = [row EXCEPT ![i] = "RUNNING"]
    /\ \/ WorkerStep(i, "WRITING", "CHECKING") /\ UNCHANGED error
       \/ /\ WorkerStep(i, "WRITING", "CONFIRMING")
          /\ error' = [error EXCEPT ![i] = "PHYSICAL"]
    /\ UNCHANGED active

(* It is rejected, or fails: only a physical error may be written again. *)
WriteFails(i) ==
    /\ WorkerStep(i, "WRITING", "CONFIRMING")
    /\ \E kind \in {"PHYSICAL", "LOGICAL"} : error' = [error EXCEPT ![i] = kind]
    /\ UNCHANGED <<row, active>>

(* StaleHostWriter, from any call that requires the writer. *)
WorkerIsStale(i) ==
    /\ lease # "HELD"
    /\ worker[i] \in {"WRITING", "CONFIRMING", "CHECKING"}
    /\ WorkerStep(i, worker[i], "FAILED")
    /\ UNCHANGED <<row, error, active>>

(* confirm_root_turn_intent answers FULL. *)
ConfirmedFull(i) ==
    /\ lease = "HELD"
    /\ row[i] # "ABSENT"
    /\ WorkerStep(i, "CONFIRMING", "CHECKING")
    /\ UNCHANGED <<row, error, active>>

ConfirmedConflict(i) ==
    /\ lease = "HELD"
    /\ i \in Rivals
    /\ WorkerStep(i, "CONFIRMING", "FAILED")
    /\ UNCHANGED <<row, error, active>>

(* It answers NONE: only a physical failure permits another write. *)
ConfirmedNone(i) ==
    /\ lease = "HELD"
    /\ i \notin Rivals
    /\ row[i] = "ABSENT"
    /\ WorkerStep(i, "CONFIRMING",
           IF Stopped(i) THEN "NONE" ELSE IF error[i] = "LOGICAL" THEN "FAILED" ELSE "WAITING")
    /\ UNCHANGED <<row, error, active>>

(* It fails.  After a physical error the worker sleeps and asks again; any  *)
(* other error, such as a closing KernelSessionIO or a provider that was    *)
(* invalidated, leaves the worker, whatever the write had done.             *)
ConfirmFails(i) ==
    /\ \/ WorkerStep(i, "CONFIRMING", "CONFIRMING")
       \/ WorkerStep(i, "CONFIRMING", "UNCONFIRMED")
    /\ UNCHANGED <<row, error, active>>

(* Mutation: the wait looks for the workspace alone. *)
WaitForWorkspaceOnly(i) ==
    /\ gate = "AVAILABLE"
    /\ WorkerStep(i, "WAITING", "START")
    /\ error' = [error EXCEPT ![i] = "NONE"]
    /\ UNCHANGED <<row, active>>

(* wait_available *)
WorkspaceWaited(i) ==
    /\ \/ /\ gate = "AVAILABLE"
          /\ WorkerStep(i, "WAITING", "START")
          /\ error' = [error EXCEPT ![i] = "NONE"]
       \/ gate = "CLOSING" /\ WorkerStep(i, "WAITING", "CANCELLED") /\ UNCHANGED error
    /\ UNCHANGED <<row, active>>

-----------------------------------------------------------------------------
(* _finalize_current_start and _finalize_root_work                         *)

(* require_provider_safe_turn *)
StartChecked(i) ==
    /\ lease = "HELD"
    /\ WorkerStep(i, "CHECKING", IF row[i] = "RUNNING" THEN "FINALIZING" ELSE "READING")
    /\ UNCHANGED <<row, error, active>>

CheckFails(i) ==
    /\ WorkerEnds(i, "CHECKING")
    /\ UNCHANGED <<row, error, active>>

(* read_turn_status finds a terminal winner, which is not published. *)
TerminalWinnerRead(i) ==
    /\ row[i] \in Terminal
    /\ WorkerStep(i, "READING", "FULL")
    /\ UNCHANGED <<row, error, active>>

ReadFails(i) ==
    /\ WorkerEnds(i, "READING")
    /\ UNCHANGED <<row, error, active>>

(* Mutation: the start is handed over although it was not published. *)
FinalizedUnpublished(i) ==
    /\ WorkerStep(i, "FINALIZING", "FULL")
    /\ UNCHANGED <<row, error, active>>

(* The finalizer of the host publishes the activation. *)
Finalized(i) ==
    /\ WorkerStep(i, "FINALIZING", "FULL")
    /\ active' = active \cup {i}
    /\ UNCHANGED <<row, error>>

FinalizerFails(i) ==
    /\ WorkerEnds(i, "FINALIZING")
    /\ UNCHANGED <<row, error, active>>

-----------------------------------------------------------------------------
(* accept_root_intent, when the worker has ended                           *)

(* A stop that came too late for the worker ends the started turn. *)
CallerStops(i) ==
    /\ caller[i] = "AWAITING"
    /\ \/ /\ Stopped(i)
          /\ worker[i] = "FULL"
          /\ caller' = [caller EXCEPT ![i] = "ENDING"]
          /\ stop' = [stop EXCEPT ![i] = "WRITING"]
       \/ /\ worker[i] \in {"NONE", "CANCELLED"}
          /\ caller' = [caller EXCEPT ![i] = "CANCELLED"]
          /\ UNCHANGED stop
    /\ UNCHANGED <<storeVars, gate, worker, error, stopVars, active>>

CallerReturns(i) ==
    /\ caller[i] = "AWAITING"
    /\ ~Stopped(i)
    /\ worker[i] = "FULL"
    /\ caller' = [caller EXCEPT ![i] = "RETURNED"]
    /\ UNCHANGED <<storeVars, gate, worker, error, stop, stopVars, active>>

CallerRaises(i) ==
    /\ caller[i] = "AWAITING"
    /\ worker[i] \in {"FAILED", "UNCONFIRMED"}
    /\ caller' = [caller EXCEPT ![i] = "RAISED"]
    /\ UNCHANGED <<storeVars, gate, worker, error, stop, stopVars, active>>

-----------------------------------------------------------------------------
(* _interrupt_turn_worker, called by the worker or by its caller            *)

StopDone(i) ==
    /\ stop' = [stop EXCEPT ![i] = "IDLE"]
    /\ IF worker[i] = "ENDING"
       THEN WorkerGoes(i, "FAILED") /\ UNCHANGED caller
       ELSE caller' = [caller EXCEPT ![i] = "CANCELLED"] /\ UNCHANGED worker

(* interrupt_turn commits. *)
StopCommits(i) ==
    /\ stop[i] = "WRITING"
    /\ lease = "HELD"
    /\ row[i] = "RUNNING"
    /\ row' = [row EXCEPT ![i] = "INTERRUPTED"]
    /\ \/ StopDone(i)
       \/ stop' = [stop EXCEPT ![i] = "READING"] /\ UNCHANGED <<worker, caller>>
    /\ UNCHANGED <<lease, gate, error, stopVars, active>>

(* It raises StaleHostWriter: the next writer ends the turn. *)
StopIsStale(i) ==
    /\ stop[i] = "WRITING"
    /\ lease # "HELD"
    /\ StopDone(i)
    /\ UNCHANGED <<storeVars, gate, error, stopVars, active>>

(* Mutation: a failed write counts as done. *)
StopWriteIsEnough(i) ==
    /\ stop[i] = "WRITING"
    /\ StopDone(i)
    /\ UNCHANGED <<storeVars, gate, error, stopVars, active>>

(* It changes nothing, or fails: read_turn_terminal_outcome decides. *)
StopFails(i) ==
    /\ stop[i] = "WRITING"
    /\ stop' = [stop EXCEPT ![i] = "READING"]
    /\ UNCHANGED <<storeVars, gate, worker, error, caller, stopVars, active>>

StopConfirmed(i) ==
    /\ stop[i] = "READING"
    /\ row[i] # "RUNNING"
    /\ StopDone(i)
    /\ UNCHANGED <<storeVars, gate, error, stopVars, active>>

StopRepeated(i) ==
    /\ stop[i] = "READING"
    /\ stop' = [stop EXCEPT ![i] = "WRITING"]
    /\ UNCHANGED <<storeVars, gate, worker, error, caller, stopVars, active>>

-----------------------------------------------------------------------------
(* _run_owned_root_task, around accept_root_intent and the run of the turn  *)

(* A step of the ROOT task after accept_root_intent. *)
OwnerStep(i, from, to) ==
    /\ caller[i] = from
    /\ caller' = [caller EXCEPT ![i] = to]
    /\ UNCHANGED <<lease, gate, worker, error, stop, stopVars, active>>

(* The task ends and gives the slot back; what it knew goes with it. *)
OwnerEnds(i, from) ==
    /\ caller[i] = from
    /\ caller' = [caller EXCEPT ![i] = "DONE"]
    /\ WorkerGoes(i, "NEW")
    /\ error' = [error EXCEPT ![i] = "NONE"]
    /\ cause' = [cause EXCEPT ![i] = "NONE"]
    /\ asked' = asked \ {i}
    /\ UNCHANGED <<storeVars, gate, stop, active>>

(* Mutation: what an admission raises is taken for proof that no turn runs. *)
OwnerTrustsError(i) == OwnerEnds(i, "CANCELLED") \/ OwnerEnds(i, "RAISED")

(* The admission raised: the task ends the turn whatever it knows of it. *)
OwnerSettles(i) ==
    /\ \/ OwnerStep(i, "CANCELLED", "INTERRUPTING")
       \/ OwnerStep(i, "RAISED", "INTERRUPTING")
    /\ UNCHANGED row

(* The run of the turn raises, or returns when the turn has ended. *)
RunRaises(i) == OwnerStep(i, "RETURNED", "INTERRUPTING") /\ UNCHANGED row
RunReturns(i) == row[i] # "RUNNING" /\ OwnerEnds(i, "RETURNED")

(* _interrupt_queued_admission_until_safe: interrupt_turn, whose answer is   *)
(* not used, and read_turn_status.                                          *)
OwnerInterrupts(i) ==
    /\ lease = "HELD"
    /\ row[i] = "RUNNING"
    /\ OwnerStep(i, "INTERRUPTING", "READING")
    /\ row' = [row EXCEPT ![i] = "INTERRUPTED"]

OwnerIsStale(i) == lease # "HELD" /\ OwnerEnds(i, "INTERRUPTING")

OwnerReadsEnd(i) == row[i] # "RUNNING" /\ OwnerEnds(i, "READING")

(* interrupt_turn fails or finds nothing to end; read_turn_status fails or   *)
(* finds the turn running.                                                  *)
OwnerRetries(i) ==
    /\ \/ OwnerStep(i, "INTERRUPTING", "READING")
       \/ OwnerStep(i, "READING", "INTERRUPTING")
    /\ UNCHANGED row

-----------------------------------------------------------------------------
(* The host and its environment                                            *)

(* The user stops the request: its cause is installed, and where its task   *)
(* is the active one that is cancelled.                                     *)
StopRequested(i) ==
    /\ Busy(i)
    /\ cause[i] = "NONE"
    /\ cause' = [cause EXCEPT ![i] = "USER_REQUEST"]
    /\ asked' \in {asked, asked \cup {i}}
    /\ UNCHANGED <<storeVars, gate, callerVars, active>>

(* The task of the caller is cancelled. *)
CallerCancelled(i) ==
    /\ caller[i] = "AWAITING"
    /\ i \notin asked
    /\ asked' = asked \cup {i}
    /\ UNCHANGED <<storeVars, gate, callerVars, cause, active>>

(* aclose: the causes, the cancellation where the task is the active one and *)
(* the gate, before its first await.                                        *)
CloseHost ==
    /\ ~HostCloses
    /\ gate' = "CLOSING"
    /\ cause' = [i \in Intents |->
                    IF Busy(i) /\ cause[i] = "NONE" THEN "HOST_SESSION_CLOSE" ELSE cause[i]]
    /\ asked' \in {asked, asked \cup {i \in Intents : Busy(i)}}
    /\ UNCHANGED <<storeVars, callerVars, active>>

WorkspaceChanges ==
    /\ ~HostCloses
    /\ gate' \in {"AVAILABLE", "MISSING"} \ {gate}
    /\ UNCHANGED <<storeVars, callerVars, stopVars, active>>

LeaseExpires ==
    /\ lease = "HELD"
    /\ lease' = "EXPIRED"
    /\ UNCHANGED <<row, gate, callerVars, stopVars, active>>

(* Another host acquires the writer and ends what ran. *)
TakenOver ==
    /\ lease # "TAKEN"
    /\ lease' = "TAKEN"
    /\ row' = [i \in Intents |-> IF row[i] = "RUNNING" THEN "INTERRUPTED" ELSE row[i]]
    /\ UNCHANGED <<gate, callerVars, stopVars, active>>

(* Another operation of the host, such as a forced Plan exit, ends the turn; *)
(* the runner completes one it was handed.                                  *)
TurnEnds(i) ==
    /\ lease = "HELD"
    /\ row[i] = "RUNNING"
    /\ \/ row' = [row EXCEPT ![i] = "INTERRUPTED"]
       \/ caller[i] = "RETURNED" /\ row' = [row EXCEPT ![i] = "COMPLETED"]
    /\ UNCHANGED <<lease, gate, callerVars, stopVars, active>>

-----------------------------------------------------------------------------
Worker(i) ==
    \/ BeginWrite(i)
    \/ WriteFindsTurn(i) \/ WriteCommits(i) \/ WriteFails(i) \/ WorkerIsStale(i)
    \/ ConfirmedFull(i) \/ ConfirmedConflict(i) \/ ConfirmedNone(i)
    \/ WorkspaceWaited(i)
    \/ StartChecked(i) \/ CheckFails(i)
    \/ TerminalWinnerRead(i) \/ ReadFails(i)
    \/ Finalized(i) \/ FinalizerFails(i)

Caller(i) == CallerStops(i) \/ CallerReturns(i) \/ CallerRaises(i)

StopAnswered(i) == StopCommits(i) \/ StopIsStale(i) \/ StopConfirmed(i)
StopRetried(i) == StopFails(i) \/ StopRepeated(i)

OwnerAnswered(i) == OwnerInterrupts(i) \/ OwnerIsStale(i) \/ OwnerReadsEnd(i)
OwnerRuns(i) == RunRaises(i) \/ RunReturns(i)
Owner(i) == OwnerSettles(i) \/ OwnerAnswered(i) \/ OwnerRetries(i) \/ OwnerRuns(i)

Environment ==
    \/ CloseHost \/ WorkspaceChanges \/ LeaseExpires \/ TakenOver
    \/ \E i \in Intents : StopRequested(i) \/ CallerCancelled(i) \/ TurnEnds(i)

AdmissionNext ==
    \/ \E i \in Intents :
          \/ AcceptRootIntent(i)
          \/ Worker(i) \/ ConfirmFails(i)
          \/ Caller(i)
          \/ StopAnswered(i) \/ StopRetried(i)
          \/ Owner(i)
    \/ Environment

AdmissionSpec == AdmissionInit /\ [][AdmissionNext]_admissionVars

(* Every bounded call ends, tasks that can run do, and a store that is asked *)
(* again and again does not fail for ever.  Nothing makes a failure happen, *)
(* and nothing makes the run of a turn end.                                 *)
AdmissionProgress ==
    \A i \in Intents :
        /\ SF_admissionVars(Worker(i) \/ StopAnswered(i) \/ OwnerAnswered(i))
        /\ WF_admissionVars(Caller(i) \/ StopRetried(i) \/ OwnerSettles(i) \/ OwnerRetries(i))

FairAdmissionSpec == AdmissionSpec /\ AdmissionProgress

-----------------------------------------------------------------------------
(* Safety                                                                  *)

(* When the ROOT task of a request has ended, this host leaves no turn of   *)
(* it running while it is the writer: not after a lost acknowledgement, a   *)
(* stop at any moment, a failure after the commit or a confirming read that *)
(* raised.  Otherwise the slot of the session would be taken by a turn that *)
(* nobody runs.  accept_root_intent itself keeps that promise for every end *)
(* but one: only an admission whose confirming read raised leaves a turn to *)
(* the task that owns it.                                                   *)
AbandonedTurnIsEnded ==
    \A i \in Intents :
        row[i] = "RUNNING" /\ lease = "HELD" =>
            /\ caller[i] # "DONE"
            /\ caller[i] \in {"CANCELLED", "RAISED"} => worker[i] = "UNCONFIRMED"

(* What is handed to the runner exists, and if it can still run it was      *)
(* published.                                                               *)
ReturnedTurnIsPublished ==
    \A i \in Intents :
        caller[i] = "RETURNED" =>
            /\ row[i] # "ABSENT"
            /\ row[i] = "RUNNING" => i \in active

(* A write that is repeated, or a command that is replayed, never revives a *)
(* turn that has ended.                                                     *)
EndedTurnStaysEnded ==
    [][\A i \in Intents : row[i] \in Terminal => row'[i] = row[i]]_admissionVars

-----------------------------------------------------------------------------
(* Liveness, under AdmissionProgress                                       *)

(* The ROOT task of a closing host comes back from every admission, also    *)
(* from one that waits for a workspace that never returns: the turn was     *)
(* handed to the runner, or the task has ended.                             *)
CloseJoinsAdmission ==
    \A i \in Intents :
        (HostCloses /\ caller[i] # "NEW") ~> caller[i] \in {"NEW", "RETURNED", "DONE"}

=============================================================================
