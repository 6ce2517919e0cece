-------------------------- MODULE SessionObservation --------------------------
(***************************************************************************)
(* SessionObservation: how a page follows a running session.  Three streams *)
(* leave the host: committed events (durable), the live bus (a ring that    *)
(* forgets and whose generation may be replaced) and live control (the      *)
(* current interaction, with a ring of its own).  The gateway joins them    *)
(* into one long poll; the page applies an answer and moves its cursors.    *)
(* Current work (todos, media) is never sent: a live notice tells the page  *)
(* to read it again.                                                        *)
(*                                                                         *)
(* Offers to the bus are numbered from 1, also those it loses.              *)
(***************************************************************************)
EXTENDS Naturals, Sequences, FiniteSets

CONSTANTS
    MaxLog,        \* committed events
    LargeEvents,   \* those that exceed maximum_bytes of an observation
    MaxBatch,      \* maximum_events of an observation
    MaxOffers,     \* offers to the live bus
    MaxTotal,      \* committed events and offers together
    MaxRing,       \* live_ring_hard_events
    MaxControl,    \* changes of the current interaction
    MaxControlRing,\* live_control_hard_events
    MaxWork,       \* changes of the current work
    Interactions,  \* identities of interactions
    MaxFailures    \* requests that fail or whose answer is lost

ASSUME ObservationAssumption ==
    /\ {MaxLog, MaxOffers, MaxTotal, MaxControl, MaxWork, MaxFailures} \subseteq Nat
    /\ {MaxBatch, MaxRing, MaxControlRing} \subseteq Nat \ {0}
    /\ LargeEvents \subseteq 1..MaxLog

VARIABLES
    log,       \* latest_event_sequence of the session
    offers,    \* what was offered to the bus: DELTA, WORK or SETTLED
    bus,       \* the bus: generation, revision and ring of offer numbers
    control,   \* the current interaction after each revision of live control
    work,      \* version of the current work
    notify,    \* the work changed and its notice is still to be offered
    closed,    \* bus and live control are closed
    att,       \* the observer attachment of the gateway
    view,      \* what the page shows, and its cursors
    pc,        \* what the page is doing
    frame,     \* the answer under way
    failures,  \* requests that failed so far
    reopens    \* a failed page reopens (the main page) or tries again (a pane)

hostVars == <<log, offers, bus, control, work, notify, closed>>
pageVars == <<view, pc, frame, failures, reopens>>
vars == <<hostVars, att, pageVars>>

Seen == {"IDLE", "OBSERVING", "BATCHED", "ANSWERED", "REFRESHING", "REFRESHED", "REBASING", "REBASED"}
Opening == {"HELLO", "OPENING"}

NoFrame == [kind |-> "NONE"]

(* A new page object. *)
EmptyView == [entries |-> {}, seq |-> 0, live |-> <<>>, gen |-> 0, rev |-> 0,
              interaction |-> "NONE", crev |-> 0, work |-> 0]

(* The type invariant. *)
TypeOK ==
    /\ log \in 0..MaxLog
    /\ offers \in Seq({"DELTA", "WORK", "SETTLED"}) /\ Len(offers) <= MaxOffers
    /\ bus.gen \in Nat /\ bus.rev \in 0..Len(offers) /\ Len(bus.ring) <= MaxRing /\ Len(bus.ring) <= bus.rev
    /\ control \in Seq(Interactions \cup {"NONE"}) /\ Len(control) <= MaxControl
    /\ work \in 0..MaxWork /\ notify \in BOOLEAN /\ closed \in BOOLEAN
    /\ att \in [sub : 0..bus.gen, epoch : 0..bus.gen]
    /\ pc \in Seen \cup Opening
    /\ view.entries \subseteq 1..log /\ view.seq <= log
    /\ view.crev <= Len(control) /\ view.work <= work
    /\ failures \in 0..MaxFailures /\ reopens \in BOOLEAN

Init ==
    /\ log = 0 /\ offers = <<>> /\ control = <<>> /\ work = 0
    /\ bus = [gen |-> 1, rev |-> 0, ring |-> <<>>]
    /\ notify = FALSE /\ closed = FALSE
    /\ att = [sub |-> 0, epoch |-> 0]
    /\ view = EmptyView /\ pc = "HELLO" /\ frame = NoFrame /\ failures = 0
    /\ reopens \in BOOLEAN

-----------------------------------------------------------------------------
(* The host                                                                *)

Least(a, b) == IF a < b THEN a ELSE b

(* The bounds keep room for a notice that is due. *)
Due == IF notify THEN 1 ELSE 0
RoomForOffer == Len(offers) + Due < MaxOffers /\ log + Len(offers) + Due < MaxTotal

Commit ==
    /\ log < MaxLog /\ log + Len(offers) + Due < MaxTotal
    /\ log' = log + 1
    /\ UNCHANGED <<offers, bus, control, work, notify, closed, att, pageVars>>

(* _trim_ring: the oldest go first. *)
Trim(ring) == IF Len(ring) > MaxRing THEN Tail(ring) ELSE ring

(* offer_nowait, offer_settlement_nowait *)
Offer(kind) ==
    /\ ~closed
    /\ offers' = Append(offers, kind)
    /\ bus' = [bus EXCEPT !.rev = @ + 1, !.ring = Trim(Append(@, Len(offers) + 1))]
    /\ UNCHANGED <<log, control, work, closed, att, pageVars>>

(* _invalidate_generation_nowait: an offer is too large or was lost before. *)
OfferLost(kind) ==
    /\ ~closed
    /\ offers' = Append(offers, kind)
    /\ bus' = [gen |-> bus.gen + 1, rev |-> 0, ring |-> <<>>]
    /\ UNCHANGED <<log, control, work, closed, att, pageVars>>

OfferDelta ==
    /\ RoomForOffer
    /\ Offer("DELTA") \/ OfferLost("DELTA")
    /\ UNCHANGED notify

Settlements(n) == Cardinality({m \in 1..n : offers[m] = "SETTLED"})

(* The runner commits an assistant entry, then offers its settlement: the   *)
(* n-th settlement is the one of the n-th entry.                            *)
OfferSettlement ==
    /\ Settlements(Len(offers)) < log
    /\ RoomForOffer
    /\ Offer("SETTLED") \/ OfferLost("SETTLED")
    /\ UNCHANGED notify

(* The owner of the current work changes it, then offers the notice. *)
ChangeWork ==
    /\ work < MaxWork /\ ~notify /\ RoomForOffer
    /\ work' = work + 1
    /\ notify' = TRUE
    /\ UNCHANGED <<log, offers, bus, control, closed, att, pageVars>>

(* _offer_current_work_snapshot *)
OfferWork ==
    /\ notify
    /\ notify' = FALSE
    /\ Offer("WORK") \/ OfferLost("WORK")

Current == IF control = <<>> THEN "NONE" ELSE control[Len(control)]

(* install_interaction, close_interaction *)
ChangeInteraction(i) ==
    /\ Len(control) < MaxControl /\ ~closed
    /\ i # Current
    /\ control' = Append(control, i)
    /\ UNCHANGED <<log, offers, bus, work, notify, closed, att, pageVars>>

HostCloses ==
    /\ ~closed /\ ~notify
    /\ closed' = TRUE
    /\ bus' = [bus EXCEPT !.ring = <<>>]
    /\ UNCHANGED <<log, offers, control, work, notify, att, pageVars>>

-----------------------------------------------------------------------------
(* Opening a page                                                          *)

RevisionOf(i) == bus.rev - Len(bus.ring) + i

(* The offers of the ring after a revision, as far as one answer reaches.   *)
After(rev) ==
    LET first == rev - (bus.rev - Len(bus.ring)) IN
    SubSeq(bus.ring, first + 1, Least(Len(bus.ring), first + MaxBatch))

(* HELLO subscribes to the bus with a snapshot, a suffix of its ring. *)
Hello ==
    /\ pc = "HELLO" /\ ~closed
    /\ att' = [sub |-> bus.gen, epoch |-> bus.gen]
    /\ \E n \in 0..Len(bus.ring) :
          frame' = [kind |-> "OPEN", gen |-> bus.gen, rev |-> bus.rev,
                    live |-> SubSeq(bus.ring, n + 1, Len(bus.ring)),
                    seq |-> 0, committed |-> FALSE, crev |-> 0, interaction |-> "NONE", work |-> 0, controlled |-> FALSE]
    /\ pc' = "OPENING"
    /\ UNCHANGED <<hostVars, view, failures, reopens>>

(* The canonical snapshot and the live control snapshot overlap. *)
OpenSnapshot ==
    /\ pc = "OPENING" /\ ~frame.committed
    /\ frame' = [frame EXCEPT !.committed = TRUE, !.seq = log]
    /\ UNCHANGED <<hostVars, att, view, pc, failures, reopens>>

OpenControl ==
    /\ pc = "OPENING" /\ ~frame.controlled /\ ~closed
    /\ frame' = [frame EXCEPT !.controlled = TRUE, !.crev = Len(control), !.interaction = Current, !.work = work]
    /\ UNCHANGED <<hostVars, att, view, pc, failures, reopens>>

(* Mutation: the current work is read before the bus is subscribed to. *)
OpenWithEarlierWork ==
    /\ pc = "OPENING" /\ frame.committed /\ frame.controlled
    /\ \E w \in 0..frame.work :
          view' = [entries |-> 1..frame.seq, seq |-> frame.seq,
                   live |-> frame.live, gen |-> frame.gen, rev |-> frame.rev,
                   interaction |-> frame.interaction, crev |-> frame.crev, work |-> w]
    /\ pc' = "IDLE" /\ frame' = NoFrame
    /\ UNCHANGED <<hostVars, att, failures, reopens>>

(* The constructor of the page *)
Open ==
    /\ pc = "OPENING" /\ frame.committed /\ frame.controlled
    /\ view' = [entries |-> 1..frame.seq, seq |-> frame.seq,
                live |-> frame.live, gen |-> frame.gen, rev |-> frame.rev,
                interaction |-> frame.interaction, crev |-> frame.crev, work |-> frame.work]
    /\ pc' = "IDLE" /\ frame' = NoFrame
    /\ UNCHANGED <<hostVars, att, failures, reopens>>

-----------------------------------------------------------------------------
(* One observation                                                         *)

Request ==
    /\ pc = "IDLE"
    /\ pc' = "OBSERVING"
    /\ UNCHANGED <<hostVars, att, view, frame, failures, reopens>>

(* observe_committed: the batch ends before a large event. *)
Through(seq) ==
    LET last == Least(log, seq + MaxBatch)
        stop == {n \in (seq + 1)..last : n \in LargeEvents} IN
    IF stop = {} THEN last ELSE (CHOOSE n \in stop : \A m \in stop : n <= m) - 1

TooLarge(seq) == seq < log /\ seq + 1 \in LargeEvents

ReadBatch ==
    /\ pc = "OBSERVING"
    /\ pc' = "BATCHED"
    /\ frame' = [kind |-> "BATCH", through |-> Through(view.seq), gap |-> TooLarge(view.seq)]
    /\ UNCHANGED <<hostVars, att, view, failures, reopens>>

(* Mutation: the generation of the subscription is not compared. *)
LiveGapByRevision == view.rev > bus.rev \/ view.rev + 1 < RevisionOf(1)

(* LiveAgentEventBus.observe *)
LiveGap ==
    \/ att.sub # bus.gen
    \/ view.rev > bus.rev \/ view.rev + 1 < RevisionOf(1)

(* SessionLiveControlOwner.observe *)
ControlGap == view.crev + MaxControlRing < Len(control)

Silent == ~frame.gap /\ frame.through = view.seq /\ view.rev = bus.rev /\ view.crev = Len(control)

(* Nothing to tell yet: the gateway sleeps and reads again. *)
Wait ==
    /\ pc = "BATCHED" /\ ~closed
    /\ view.gen = att.epoch /\ ~LiveGap /\ ~ControlGap /\ Silent
    /\ pc' = "OBSERVING" /\ frame' = NoFrame
    /\ UNCHANGED <<hostVars, att, view, failures, reopens>>

(* A gap of any other kind than LIVE_RING_OVERFLOW ends the connection. *)
AnswerGap ==
    /\ pc = "BATCHED"
    /\ \/ closed
       \/ view.gen # att.epoch
       \/ frame.gap
       \/ ~LiveGap /\ ControlGap
    /\ pc' = "HELLO" /\ view' = EmptyView /\ frame' = NoFrame
    /\ att' = [sub |-> 0, epoch |-> 0]
    /\ UNCHANGED <<hostVars, failures, reopens>>

(* LIVE_RING_OVERFLOW: the gateway subscribes anew and says so. *)
AnswerOverflow ==
    /\ pc = "BATCHED" /\ ~closed
    /\ view.gen = att.epoch /\ ~frame.gap /\ LiveGap
    /\ att' = [sub |-> bus.gen, epoch |-> bus.gen]
    /\ frame' = [kind |-> "OVERFLOW", through |-> frame.through, gen |-> bus.gen, rev |-> bus.rev]
    /\ pc' = "ANSWERED"
    /\ UNCHANGED <<hostVars, view, failures, reopens>>

Answer ==
    /\ pc = "BATCHED" /\ ~closed
    /\ view.gen = att.epoch /\ ~frame.gap /\ ~LiveGap /\ ~ControlGap
    /\ LET delivered == After(view.rev)
           crev == Least(Len(control), view.crev + MaxBatch) IN
       frame' = [kind |-> "EVENTS", through |-> frame.through, live |-> delivered,
                 rev |-> view.rev + Len(delivered),
                 crev |-> crev, interaction |-> IF crev = view.crev THEN view.interaction ELSE control[crev]]
    /\ pc' = "ANSWERED"
    /\ UNCHANGED <<hostVars, att, view, failures, reopens>>

(* observeNext applies the answer and moves the cursors. *)
ApplyEvents ==
    /\ pc = "ANSWERED" /\ frame.kind = "EVENTS"
    /\ view' = [view EXCEPT !.entries = @ \cup (view.seq + 1)..frame.through, !.seq = frame.through,
                            !.live = @ \o frame.live, !.rev = frame.rev,
                            !.interaction = frame.interaction, !.crev = frame.crev]
    /\ pc' = IF \E i \in 1..Len(frame.live) : offers[frame.live[i]] = "WORK" THEN "REFRESHING" ELSE "IDLE"
    /\ frame' = NoFrame
    /\ UNCHANGED <<hostVars, att, failures, reopens>>

(* Mutation: temporary progress survives the gap. *)
ApplyOverflowKeepingDrafts ==
    /\ pc = "ANSWERED" /\ frame.kind = "OVERFLOW"
    /\ view' = [view EXCEPT !.entries = @ \cup (view.seq + 1)..frame.through, !.seq = frame.through,
                            !.gen = frame.gen, !.rev = frame.rev]
    /\ pc' = "REBASING" /\ frame' = NoFrame
    /\ UNCHANGED <<hostVars, att, failures, reopens>>

(* Drafts and temporary results are dropped, committed events are kept. *)
ApplyOverflow ==
    /\ pc = "ANSWERED" /\ frame.kind = "OVERFLOW"
    /\ view' = [view EXCEPT !.entries = @ \cup (view.seq + 1)..frame.through, !.seq = frame.through,
                            !.live = <<>>, !.gen = frame.gen, !.rev = frame.rev]
    /\ pc' = "REBASING" /\ frame' = NoFrame
    /\ UNCHANGED <<hostVars, att, failures, reopens>>

(* The live control snapshot, read after the answer was applied. *)
ReadControl ==
    /\ pc \in {"REFRESHING", "REBASING"} /\ ~closed
    /\ frame' = [kind |-> "CONTROL", crev |-> Len(control), interaction |-> Current, work |-> work]
    /\ pc' = IF pc = "REFRESHING" THEN "REFRESHED" ELSE "REBASED"
    /\ UNCHANGED <<hostVars, att, view, failures, reopens>>

(* A refresh takes only the current work; interaction and cursor stay.      *)
Refresh ==
    /\ pc = "REFRESHED"
    /\ view' = [view EXCEPT !.work = frame.work]
    /\ pc' = "IDLE" /\ frame' = NoFrame
    /\ UNCHANGED <<hostVars, att, failures, reopens>>

(* After a gap the whole snapshot is adopted. *)
Rebase ==
    /\ pc = "REBASED"
    /\ view' = [view EXCEPT !.work = frame.work, !.crev = frame.crev, !.interaction = frame.interaction]
    /\ pc' = "IDLE" /\ frame' = NoFrame
    /\ UNCHANGED <<hostVars, att, failures, reopens>>

(* A snapshot read besides may be ahead; the cursor of the observation      *)
(* stays.                                                                   *)
ReadSnapshot ==
    /\ pc = "IDLE" /\ view.entries # 1..log
    /\ view' = [view EXCEPT !.entries = 1..log]
    /\ UNCHANGED <<hostVars, att, pc, frame, failures, reopens>>

(* A request fails, or its answer is lost.  The main page opens anew; the   *)
(* pane of an agent tries again with the cursors it has.                    *)
Fail ==
    /\ pc \notin {"IDLE", "HELLO"}
    /\ failures < MaxFailures
    /\ failures' = failures + 1
    /\ frame' = NoFrame
    /\ IF reopens \/ pc = "OPENING"
       THEN pc' = "HELLO" /\ view' = EmptyView /\ att' = [sub |-> 0, epoch |-> 0]
       ELSE pc' = "IDLE" /\ UNCHANGED <<view, att>>
    /\ UNCHANGED <<hostVars, reopens>>

-----------------------------------------------------------------------------
PageStep ==
    \/ Hello \/ OpenSnapshot \/ OpenControl \/ Open
    \/ Request \/ ReadBatch \/ AnswerGap \/ AnswerOverflow \/ Answer
    \/ ApplyEvents \/ ApplyOverflow \/ ReadControl \/ Refresh \/ Rebase

Next ==
    \/ Commit \/ OfferDelta \/ OfferSettlement \/ ChangeWork \/ OfferWork
    \/ (\E i \in Interactions \cup {"NONE"} : ChangeInteraction(i)) \/ HostCloses
    \/ PageStep \/ Wait \/ ReadSnapshot \/ Fail

Spec == Init /\ [][Next]_vars

(* The page and the gateway run, and the owner of the work, which does not  *)
(* suspend in between, offers its notice.  A host may stop changing.        *)
FairSpec == Spec /\ WF_vars(PageStep) /\ WF_vars(OfferWork)

-----------------------------------------------------------------------------
(* Safety                                                                  *)

(* Every committed event up to the cursor is on the page, whatever gaps,    *)
(* lost answers and reopenings it went through.                             *)
CommittedIsComplete == pc \in Seen => 1..view.seq \subseteq view.entries

(* The live progress a page shows has no hole: a loss in the ring or in     *)
(* the generation is always told, and then the progress starts anew.        *)
LiveIsContiguous ==
    \A i \in 1..(Len(view.live) - 1) : view.live[i + 1] = view.live[i] + 1

(* The interaction on the page is the one of the cursor, although two       *)
(* different reads move them.                                               *)
InteractionMatchesCursor ==
    pc \in Seen => view.interaction = IF view.crev = 0 THEN "NONE" ELSE control[view.crev]

(* A page that shows old work will learn of it: a notice is ahead of its    *)
(* cursor, or the loss of one will be told as a gap.  (A pane that has lost *)
(* the answer to a refresh moved its cursor before, and is told no more.)   *)
FollowsWork == reopens \/ failures = 0
StaleWorkIsNoticed ==
    /\ pc \in {"IDLE", "OBSERVING", "BATCHED", "ANSWERED"}
    /\ FollowsWork /\ ~closed /\ view.work # work
    =>
        \/ notify
        \/ view.gen # bus.gen
        \/ \E n \in (Len(offers) - (bus.rev - view.rev) + 1)..Len(offers) : offers[n] = "WORK"

(* What the page shows is what the host told: well formed, no committed     *)
(* event missing, no hole in the live progress, and the right interaction.  *)
PageInv ==
    /\ TypeOK
    /\ CommittedIsComplete
    /\ LiveIsContiguous
    /\ InteractionMatchesCursor

-----------------------------------------------------------------------------
(* Liveness                                                                *)

UpToDate ==
    /\ pc \in Seen
    /\ view.entries = 1..log /\ view.seq = log
    /\ view.interaction = Current /\ (FollowsWork => view.work = work)
    /\ view.gen = bus.gen /\ view.rev = bus.rev

(* Once the host is quiet the page shows everything.                        *)
PageCatchesUp == <>[](UpToDate \/ closed)

=============================================================================
