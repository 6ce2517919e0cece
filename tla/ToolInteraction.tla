--------------------------- MODULE ToolInteraction ---------------------------
(***************************************************************************)
(* KernelInteractionCoordinator: the requests of running tools that wait   *)
(* for the user.  One request is shown to the controller, the others wait  *)
(* in a bounded FIFO.  A confirmation is decided by a committed write whose *)
(* acknowledgement may be lost; a capability form is parsed and handed     *)
(* over.  Meanwhile the deadline may pass, the tool may be cancelled, the  *)
(* controller may leave and the host may close.                            *)
(*                                                                         *)
(* No body of `async with self._lock` awaits, so the lock never suspends a *)
(* task: a step here is everything a task does between two awaits.  In     *)
(* particular _promote_next runs to its end within the step that calls it. *)
(***************************************************************************)
EXTENDS Naturals, FiniteSets

CONSTANTS
    Requests,      \* requests of running tools
    Forms,         \* those that ask for a capability form
    Hooked,        \* confirmations with InteractionAdmissionHooks (MCP)
    Celled,        \* requests made from a code cell, which may be stopped
    Controllers,   \* attachments that may control the session
    None,
    MaxQueued      \* MAXIMUM_DORMANT_INTERACTION_CANDIDATES

ASSUME RequestsAssumption ==
    /\ Forms \subseteq Requests
    /\ Hooked \subseteq Requests \ Forms
    /\ Celled \subseteq Requests
    /\ None \notin Requests \cup Controllers
    /\ MaxQueued \in Nat

VARIABLES
    closer,       \* aclose: not called, joining a settlement, or done
    controller,   \* _controller_id
    pending,      \* _pending, which is always the one shown
    dormant,      \* _dormant, the requests that wait to be shown
    arrival,      \* request: its place in the order of _dormant
    arrived,      \* how many requests have been appended
    waiter,       \* request: where _request is, or what it gave its caller
    future,       \* request: the result of its future
    phase,        \* request: the step of its resolution (resolving)
    choice,       \* request: the decision being resolved, by which controller
    invalid,      \* resolving requests with an invalidation
    late,         \* requests whose deadline has passed
    committed,    \* request: its row of interaction_decisions
    permits       \* requests that hold the dispatch permit of their hooks

ownerVars == <<closer, controller>>
queueVars == <<pending, dormant>>
orderVars == <<arrival, arrived>>
callVars  == <<phase, choice, invalid>>
vars == <<ownerVars, queueVars, orderVars, waiter, future, callVars, late, committed, permits>>

Answers == {"ALLOW", "DENY", "SUBMIT", "CANCEL", "REFUSED", "UNKNOWN"}
Phases == {"IDLE", "WRITING", "ACKED", "LOST", "PARSING"}
Choices == [decision : {"NONE", "ALLOW", "DENY", "SUBMIT"}, by : Controllers \cup {None}]
NoChoice == [decision |-> "NONE", by |-> None]

(* The type invariant. *)
TypeOK ==
    /\ closer \in {"OPEN", "JOINING", "CLOSED"}
    /\ controller \in Controllers \cup {None}
    /\ pending \in Requests \cup {None}
    /\ dormant \subseteq Requests
    /\ arrival \in [Requests -> Nat]
    /\ arrived \in Nat
    /\ waiter \in [Requests -> {"NEW", "WAITING", "JOINING", "CANCELLED"} \cup Answers]
    /\ future \in [Requests -> {"NONE"} \cup Answers]
    /\ phase \in [Requests -> Phases]
    /\ choice \in [Requests -> Choices]
    /\ invalid \subseteq Requests
    /\ late \subseteq Requests
    /\ committed \in [Requests -> {"NONE", "ALLOW", "DENY"}]
    /\ permits \subseteq Hooked

-----------------------------------------------------------------------------
Queued == (IF pending = None THEN {} ELSE {pending}) \cup dormant
Resolving(c) == phase[c] # "IDLE"
Closed == closer # "OPEN"

(* has_controller, for the given controller *)
HasController(a) == ~Closed /\ a # None

(* Futures are set once. *)
Answered(f, S, answer) ==
    [c \in Requests |-> IF c \in S /\ f[c] = "NONE" THEN answer ELSE f[c]]

(* _promote_next by a task that has a controller: of the requests in D the  *)
(* first that is in time and whose before_publish does not raise is shown;  *)
(* the ones before it are refused.                                          *)
Publish(D, order, f, kept) ==
    \E rejected \in SUBSET Hooked :
        LET fit == D \ (late \cup rejected) IN
        \/ /\ fit = {}
           /\ pending' = None
           /\ dormant' = {}
           /\ future' = Answered(f, D, "REFUSED")
           /\ permits' = kept \ D
        \/ \E c \in fit :
              LET passed == {d \in D : order[d] < order[c]} IN
              /\ \A d \in fit : order[c] <= order[d]
              /\ pending' = c
              /\ dormant' = D \ (passed \cup {c})
              /\ future' = Answered(f, passed, "REFUSED")
              /\ permits' = (kept \ passed) \cup ({c} \cap Hooked)

(* The end of a step: p, D, f and kept are pending, dormant, the futures    *)
(* and the permits so far; `shown` says whether _promote_next may show one. *)
Promote(p, D, order, f, kept, shown) ==
    IF shown /\ p = None
    THEN Publish(D, order, f, kept)
    ELSE /\ pending' = p
         /\ dormant' = D
         /\ future' = f
         /\ permits' = kept

(* _invalidate_locked and _discard_hooks for the requests in S: the one     *)
(* that resolves is only marked, the others leave with a local denial.      *)
Invalidate(S, shown) ==
    LET marked == {c \in S \cap Queued : Resolving(c)}
        gone   == (S \cap Queued) \ marked
    IN  /\ invalid' = invalid \cup marked
        /\ Promote(IF pending \in gone THEN None ELSE pending, dormant \ gone, arrival,
                   Answered(future, gone, "REFUSED"), permits \ gone, shown)
        /\ UNCHANGED orderVars

EndResolution(c) ==
    /\ phase' = [phase EXCEPT ![c] = "IDLE"]
    /\ choice' = [choice EXCEPT ![c] = NoChoice]

(* The resolution of the shown request c ends with this answer. *)
CloseShown(c, answer, kept, shown) ==
    /\ EndResolution(c)
    /\ invalid' = invalid \ {c}
    /\ Promote(None, dormant, arrival, Answered(future, {c}, answer), kept, shown)
    /\ UNCHANGED orderVars

-----------------------------------------------------------------------------
Init ==
    /\ closer = "OPEN"
    /\ controller = None
    /\ pending = None
    /\ dormant = {}
    /\ arrival = [c \in Requests |-> 0]
    /\ arrived = 0
    /\ waiter = [c \in Requests |-> "NEW"]
    /\ future = [c \in Requests |-> "NONE"]
    /\ phase = [c \in Requests |-> "IDLE"]
    /\ choice = [c \in Requests |-> NoChoice]
    /\ invalid = {}
    /\ late = {}
    /\ committed = [c \in Requests |-> "NONE"]
    /\ permits = {}

AttachController(a) ==
    /\ ~Closed
    /\ controller = None
    /\ controller' = a
    /\ Promote(pending, dormant, arrival, future, permits, TRUE)
    /\ UNCHANGED <<closer, orderVars, waiter, callVars, late, committed>>

(* controller_detached: forms end with their controller, confirmations      *)
(* stay for the next one.                                                   *)
ControllerDetached(a) ==
    /\ controller = a
    /\ controller' = None
    /\ Invalidate(Forms, FALSE)
    /\ UNCHANGED <<closer, waiter, phase, choice, late, committed>>

(* _request, up to its first wait. *)
RequestRefused(c) ==
    /\ waiter[c] = "NEW"
    /\ \/ Closed
       \/ c \in Forms /\ controller = None
       \/ c \in Celled
       \/ Cardinality(Queued) >= MaxQueued
    /\ future' = Answered(future, {c}, "REFUSED")
    /\ waiter' = [waiter EXCEPT ![c] = "REFUSED"]
    /\ UNCHANGED <<ownerVars, queueVars, orderVars, callVars, late, committed, permits>>

RequestQueued(c) ==
    /\ waiter[c] = "NEW"
    /\ ~Closed
    /\ c \in Forms => controller # None
    /\ Cardinality(Queued) < MaxQueued
    /\ waiter' = [waiter EXCEPT ![c] = "WAITING"]
    /\ arrived' = arrived + 1
    /\ arrival' = [arrival EXCEPT ![c] = arrived + 1]
    /\ Promote(pending, dormant \cup {c}, arrival', future, permits, HasController(controller))
    /\ UNCHANGED <<ownerVars, callVars, late, committed>>

(* The clock passes deadline_monotonic. *)
DeadlinePasses(c) ==
    /\ waiter[c] \in {"WAITING", "JOINING"}
    /\ c \notin late
    /\ late' = late \cup {c}
    /\ UNCHANGED <<ownerVars, queueVars, orderVars, waiter, future, callVars, committed, permits>>

(* Mutation: the rest of the queue is not promoted. *)
AbortWithoutPromotion(c) ==
    /\ c \in Queued \ invalid
    /\ Invalidate({c}, FALSE)
    /\ UNCHANGED <<ownerVars, phase, choice, late, committed>>

(* _abort_candidate *)
AbortCandidate(c) ==
    /\ c \in Queued \ invalid
    /\ Invalidate({c}, HasController(controller))
    /\ UNCHANGED <<ownerVars, phase, choice, late, committed>>

(* The waiter's timeout fires, or its cell is stopped: it aborts its        *)
(* request and goes on waiting for the future.                              *)
RequestExpires(c) ==
    /\ waiter[c] = "WAITING"
    /\ c \in late
    /\ AbortCandidate(c)
    /\ UNCHANGED waiter

CellStopped(c) ==
    /\ waiter[c] = "WAITING"
    /\ c \in Celled
    /\ AbortCandidate(c)
    /\ UNCHANGED waiter

(* The task of the tool is cancelled.  It aborts its request; the waiter of *)
(* a confirmation joins a settlement that is under way, and gives up the    *)
(* permit of one that has ended.                                            *)
RequestCancelled(c) ==
    /\ waiter[c] = "WAITING"
    /\ waiter' = [waiter EXCEPT ![c] =
                     IF Resolving(c) /\ c \notin Forms THEN "JOINING" ELSE "CANCELLED"]
    /\ \/ AbortCandidate(c)
       \/ /\ c \notin Queued \ invalid
          /\ permits' = IF c \in Queued THEN permits ELSE permits \ {c}
          /\ UNCHANGED <<ownerVars, queueVars, orderVars, future, callVars, late, committed>>

(* Mutation: a cancelled waiter keeps the permit of a committed ALLOW. *)
JoinKeepingPermit(c) ==
    /\ waiter[c] = "JOINING"
    /\ future[c] # "NONE"
    /\ waiter' = [waiter EXCEPT ![c] = "CANCELLED"]
    /\ UNCHANGED <<ownerVars, queueVars, orderVars, future, callVars, late, committed, permits>>

(* The cancelled waiter has joined and gives up the permit. *)
WaiterJoined(c) ==
    /\ waiter[c] = "JOINING"
    /\ future[c] # "NONE"
    /\ waiter' = [waiter EXCEPT ![c] = "CANCELLED"]
    /\ permits' = permits \ {c}
    /\ UNCHANGED <<ownerVars, queueVars, orderVars, future, callVars, late, committed>>

WaiterReturns(c) ==
    /\ waiter[c] = "WAITING"
    /\ future[c] # "NONE"
    /\ waiter' = [waiter EXCEPT ![c] = future[c]]
    /\ UNCHANGED <<ownerVars, queueVars, orderVars, future, callVars, late, committed, permits>>

-----------------------------------------------------------------------------
(* resolve_tool_interaction: the current controller answers what it sees.   *)
ResolveToolInteraction(a, c, decision) ==
    /\ ~Closed
    /\ controller = a
    /\ pending = c
    /\ c \notin Forms
    /\ ~Resolving(c)
    /\ c \notin invalid \cup late
    /\ phase' = [phase EXCEPT ![c] = "WRITING"]
    /\ choice' = [choice EXCEPT ![c] = [decision |-> decision, by |-> a]]
    /\ UNCHANGED <<ownerVars, queueVars, orderVars, waiter, future, invalid, late, committed, permits>>

(* accept_tool_interaction_decision in the I/O thread: it commits or not,   *)
(* and either way the acknowledgement may be lost.                          *)
WriteEnds(c) ==
    /\ phase[c] = "WRITING"
    /\ \/ /\ committed' = [committed EXCEPT ![c] = choice[c].decision]
          /\ \E next \in {"ACKED", "LOST"} : phase' = [phase EXCEPT ![c] = next]
       \/ /\ phase' = [phase EXCEPT ![c] = "LOST"]
          /\ UNCHANGED committed
    /\ UNCHANGED <<ownerVars, queueVars, orderVars, waiter, future, choice, invalid, late, permits>>

(* _settle_decision with the committed decision, acknowledged or read back. *)
DecisionAccepted(c) ==
    /\ \/ phase[c] = "ACKED"
       \/ phase[c] = "LOST" /\ committed[c] # "NONE"
    /\ pending = c
    /\ CloseShown(c, committed[c],
                  IF committed[c] = "DENY" THEN permits \ {c} ELSE permits,
                  HasController(controller))
    /\ UNCHANGED <<ownerVars, waiter, late, committed>>

(* Mutation: a lost acknowledgement is taken for a refusal. *)
UnknownIsRefused(c) ==
    /\ phase[c] = "LOST"
    /\ pending = c
    /\ CloseShown(c, "REFUSED", permits \ {c}, HasController(controller))
    /\ UNCHANGED <<ownerVars, waiter, late, committed>>

(* The confirming read fails as well. *)
DecisionUnknown(c) ==
    /\ phase[c] = "LOST"
    /\ pending = c
    /\ CloseShown(c, "UNKNOWN", permits \ {c}, HasController(controller))
    /\ UNCHANGED <<ownerVars, waiter, late, committed>>

(* Mutation: an invalidation that came in meanwhile is forgotten. *)
NotAcceptedStaysOpen(c) ==
    /\ phase[c] = "LOST"
    /\ committed[c] = "NONE"
    /\ EndResolution(c)
    /\ UNCHANGED <<invalid, queueVars, orderVars, future, permits>>
    /\ UNCHANGED <<ownerVars, waiter, late, committed>>

(* Mutation: a write that was not accepted is repeated until it is. *)
WriteIsRepeated(c) ==
    /\ phase[c] = "LOST"
    /\ committed[c] = "NONE"
    /\ phase' = [phase EXCEPT ![c] = "WRITING"]
    /\ UNCHANGED <<choice, invalid, queueVars, orderVars, future, permits>>
    /\ UNCHANGED <<ownerVars, waiter, late, committed>>

(* The read finds no decision: the request stays open for another answer,   *)
(* unless it was invalidated meanwhile (_invalidation).                     *)
DecisionNotAccepted(c) ==
    /\ phase[c] = "LOST"
    /\ committed[c] = "NONE"
    /\ IF c \in invalid \cup late \/ Closed
       THEN CloseShown(c, "REFUSED", permits \ {c}, HasController(controller))
       ELSE /\ EndResolution(c)
            /\ UNCHANGED <<invalid, queueVars, orderVars, future, permits>>
    /\ UNCHANGED <<ownerVars, waiter, late, committed>>

(* resolve_capability_form *)
CancelForm(a, c) ==
    /\ HasController(a)
    /\ controller = a
    /\ pending = c
    /\ c \in Forms
    /\ ~Resolving(c)
    /\ CloseShown(c, "CANCEL", permits, TRUE)
    /\ UNCHANGED <<ownerVars, waiter, late, committed>>

SubmitForm(a, c) ==
    /\ HasController(a)
    /\ controller = a
    /\ pending = c
    /\ c \in Forms
    /\ ~Resolving(c)
    /\ phase' = [phase EXCEPT ![c] = "PARSING"]
    /\ choice' = [choice EXCEPT ![c] = [decision |-> "SUBMIT", by |-> a]]
    /\ UNCHANGED <<ownerVars, queueVars, orderVars, waiter, future, invalid, late, committed, permits>>

(* prepare_submission returns: the input is handed over unless the request  *)
(* was invalidated or its controller is no longer the current one.          *)
FormParsed(c) ==
    /\ phase[c] = "PARSING"
    /\ pending = c
    /\ CloseShown(c,
           IF c \in invalid \/ ~HasController(controller) \/ controller # choice[c].by
           THEN "CANCEL" ELSE "SUBMIT",
           permits, HasController(controller))
    /\ UNCHANGED <<ownerVars, waiter, late, committed>>

(* prepare_submission raises, or the submitting client goes away. *)
FormParseFails(c) ==
    /\ phase[c] = "PARSING"
    /\ IF c \in invalid
       THEN CloseShown(c, "REFUSED", permits, HasController(controller))
       ELSE /\ EndResolution(c)
            /\ UNCHANGED <<invalid, queueVars, orderVars, future, permits>>
    /\ UNCHANGED <<ownerVars, waiter, late, committed>>

-----------------------------------------------------------------------------
(* cancel_tool_confirmations: the configuration of MCP servers changed.     *)
CancelToolConfirmations ==
    /\ \E S \in SUBSET (Hooked \cap Queued) :
          S # {} /\ Invalidate(S, HasController(controller))
    /\ UNCHANGED <<ownerVars, waiter, phase, choice, late, committed>>

(* aclose and the first round of _abort_all *)
Close ==
    /\ closer = "OPEN"
    /\ closer' = IF \E c \in Queued : Resolving(c) THEN "JOINING" ELSE "CLOSED"
    /\ controller' = None
    /\ Invalidate(Queued, FALSE)
    /\ UNCHANGED <<waiter, phase, choice, late, committed>>

(* settlement_changed: the next round of _abort_all finds nothing resolving. *)
CloseJoined ==
    /\ closer = "JOINING"
    /\ \A c \in Queued : ~Resolving(c)
    /\ closer' = "CLOSED"
    /\ Invalidate(Queued, FALSE)
    /\ UNCHANGED <<controller, waiter, phase, choice, late, committed>>

-----------------------------------------------------------------------------
Settle(c) ==
    \/ WriteEnds(c)
    \/ DecisionAccepted(c)
    \/ DecisionUnknown(c)
    \/ DecisionNotAccepted(c)
    \/ FormParsed(c)
    \/ FormParseFails(c)

Wait(c) ==
    \/ RequestExpires(c)
    \/ WaiterReturns(c)
    \/ WaiterJoined(c)

Control(a) ==
    \/ AttachController(a)
    \/ ControllerDetached(a)
    \/ \E c \in Requests :
          \/ \E decision \in {"ALLOW", "DENY"} : ResolveToolInteraction(a, c, decision)
          \/ CancelForm(a, c)
          \/ SubmitForm(a, c)

Next ==
    \/ \E a \in Controllers : Control(a)
    \/ \E c \in Requests :
          \/ RequestRefused(c)
          \/ RequestQueued(c)
          \/ DeadlinePasses(c)
          \/ CellStopped(c)
          \/ RequestCancelled(c)
          \/ Wait(c)
          \/ Settle(c)
    \/ CancelToolConfirmations
    \/ Close
    \/ CloseJoined

Spec == Init /\ [][Next]_vars

(* The clock runs, a task that can run does, and every read and write of    *)
(* the I/O lane and every parse ends.                                       *)
Progress ==
    /\ \A c \in Requests :
          /\ WF_vars(DeadlinePasses(c))
          /\ WF_vars(Settle(c))
          /\ WF_vars(Wait(c))
    /\ WF_vars(CloseJoined)

FairSpec == Spec /\ Progress

-----------------------------------------------------------------------------
(* Safety                                                                  *)

(* A request that resolves keeps the shown slot until its settlement:       *)
(* otherwise _settle_decision would raise on a changed owner and leave the  *)
(* waiter and a closing host waiting for ever.                              *)
ResolvingKeepsItsSlot == \A c \in Requests : Resolving(c) => pending = c

(* Nobody waits for a future that no one will set: a waiting request is     *)
(* shown or queued, and those have no answer yet.                           *)
WaitingRequestIsHeld ==
    \A c \in Requests :
        /\ waiter[c] \in {"WAITING", "JOINING"} /\ future[c] = "NONE" => c \in Queued
        /\ c \in Queued => future[c] = "NONE"

(* What a tool is told agrees with the committed decision: a committed      *)
(* ALLOW is never reported as a denial, by a timeout, a cancellation, a     *)
(* leaving controller or a closing host, and nothing is allowed that was    *)
(* not committed.                                                           *)
AnswerAgreesWithStore ==
    \A c \in Requests :
        /\ future[c] \in {"ALLOW", "DENY"} => committed[c] = future[c]
        /\ future[c] \in {"REFUSED", "SUBMIT", "CANCEL"} => committed[c] = "NONE"

(* An MCP dispatch permit is held exactly by the request that is shown and  *)
(* by one that was allowed: every other end of a request gives it back.     *)
PermitFollowsDecision ==
    \A c \in Hooked :
        c \in permits <=>
            \/ pending = c
            \/ future[c] = "ALLOW" /\ waiter[c] \in {"WAITING", "JOINING", "ALLOW"}

(* Under a controller the queue never stalls: a request waits only behind   *)
(* one that is shown.                                                       *)
HeadIsShown == HasController(controller) /\ pending = None => dormant = {}

(* The queue is fair: no request is shown before one that asked earlier and *)
(* still waits, although the ones in between may expire, be cancelled or    *)
(* fail their admission.                                                    *)
OldestIsShown == pending # None => \A d \in dormant : arrival[pending] < arrival[d]

(* When aclose returns, no request is shown or queued and no decision is    *)
(* still being written.                                                     *)
ClosedHostIsQuiet ==
    closer = "CLOSED" => Queued = {} /\ \A c \in Requests : ~Resolving(c)

-----------------------------------------------------------------------------
(* Liveness, under Progress                                                *)

(* Every request of a tool is answered, though nobody need attach or        *)
(* decide.                                                                  *)
RequestIsAnswered ==
    \A c \in Requests :
        waiter[c] \in {"WAITING", "JOINING"} ~> waiter[c] \notin {"WAITING", "JOINING"}

(* A closing host ends. *)
CloseEnds == closer = "JOINING" ~> closer = "CLOSED"

=============================================================================
