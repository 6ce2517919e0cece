----------------------- MODULE SessionObservationProofs -----------------------
(***************************************************************************)
(* Theorems about SessionObservation, for any sizes of the rings, batches   *)
(* and bounds: the page misses no committed event, shows live progress      *)
(* without a hole and the interaction of its cursor, and learns of every    *)
(* change of the current work.                                              *)
(***************************************************************************)
EXTENDS SessionObservation, SequenceTheorems, WellFoundedInduction, TLAPS

-----------------------------------------------------------------------------
(* The inductive invariant                                                  *)

(* The number of the offer that a revision of the current generation is. *)
Pos(rev) == Len(offers) - (bus.rev - rev)

(* Progress without a hole. *)
Contiguous(live) == \A i \in 1..(Len(live) - 1) : live[i + 1] = live[i] + 1

(* The ring holds the latest offers. *)
BusInv ==
    /\ bus \in [gen : Nat, rev : Nat, ring : Seq(Nat)]
    /\ bus.gen >= 1 /\ bus.rev <= Len(offers)
    /\ Len(bus.ring) <= bus.rev /\ Len(bus.ring) <= MaxRing
    /\ \A i \in 1..Len(bus.ring) : bus.ring[i] = Len(offers) - Len(bus.ring) + i

HostInv ==
    /\ log \in 0..MaxLog
    /\ offers \in Seq({"DELTA", "WORK", "SETTLED"}) /\ Len(offers) <= MaxOffers
    /\ control \in Seq(Interactions \cup {"NONE"}) /\ Len(control) <= MaxControl
    /\ work \in 0..MaxWork /\ notify \in BOOLEAN /\ closed \in BOOLEAN
    /\ notify => Len(offers) < MaxOffers /\ log + Len(offers) < MaxTotal
    /\ failures \in 0..MaxFailures /\ reopens \in BOOLEAN
    /\ pc \in Seen \cup Opening
    /\ att \in [sub : Nat, epoch : Nat] /\ att.sub = att.epoch /\ att.sub <= bus.gen

(* A generation, a revision and the progress up to it, as the bus gave them.*)
Placed(gen, rev, live) ==
    /\ gen \in 0..bus.gen /\ rev \in Nat /\ live \in Seq(Nat) /\ Contiguous(live)
    /\ gen = bus.gen => /\ rev <= bus.rev
                        /\ live # <<>> => live[Len(live)] = Pos(rev)

(* The interaction that a revision of live control left behind. *)
Shows(crev, interaction) ==
    /\ crev \in 0..Len(control)
    /\ interaction = IF crev = 0 THEN "NONE" ELSE control[crev]

(* Whoever holds this version of the work, at this place, learns of others. *)
Learns(version, gen, rev) ==
    version # work =>
        \/ notify
        \/ gen # bus.gen
        \/ \E n \in (Pos(rev) + 1)..Len(offers) : offers[n] = "WORK"

Views == [entries : SUBSET Nat, seq : Nat, live : Seq(Nat), gen : Nat, rev : Nat,
          interaction : Interactions \cup {"NONE"}, crev : Nat, work : Nat]

ViewInv ==
    /\ view \in Views
    /\ view.entries \subseteq 1..log /\ view.seq <= log /\ view.work <= work
    /\ 1..view.seq \subseteq view.entries
    /\ Placed(view.gen, view.rev, view.live)
    /\ Shows(view.crev, view.interaction)
    /\ pc \in {"IDLE", "OBSERVING", "BATCHED", "ANSWERED"} /\ FollowsWork =>
           Learns(view.work, view.gen, view.rev)

Opens == [kind : {"OPEN"}, gen : Nat, rev : Nat, live : Seq(Nat), seq : Nat, committed : BOOLEAN,
          crev : Nat, interaction : Interactions \cup {"NONE"}, work : Nat, controlled : BOOLEAN]

OpenFrame ==
    /\ frame \in Opens
    /\ Placed(frame.gen, frame.rev, frame.live)
    /\ frame.seq <= log
    /\ Shows(frame.crev, frame.interaction)
    /\ frame.work <= work
    /\ frame.controlled => Learns(frame.work, frame.gen, frame.rev)

BatchFrame ==
    frame.kind = "BATCH" /\ frame.gap \in BOOLEAN /\ frame.through \in view.seq..log

(* The progress of an answer continues what the page shows. *)
EventsFrame ==
    /\ frame.through \in view.seq..log
    /\ frame.live \in Seq(Nat) /\ Contiguous(frame.live)
    /\ frame.live # <<>> /\ view.live # <<>> => frame.live[1] = view.live[Len(view.live)] + 1
    /\ frame.rev = view.rev + Len(frame.live)
    /\ Shows(frame.crev, frame.interaction)
    /\ \A i \in 1..Len(frame.live) : frame.live[i] \in 1..Len(offers)
    /\ view.gen = bus.gen =>
           /\ frame.rev <= bus.rev
           /\ \A i \in 1..Len(frame.live) : frame.live[i] = Pos(view.rev) + i

OverflowFrame == frame.through \in view.seq..log /\ Placed(frame.gen, frame.rev, <<>>)

ControlFrame ==
    /\ Shows(frame.crev, frame.interaction)
    /\ frame.work \in 0..work
    /\ FollowsWork => Learns(frame.work, view.gen, view.rev)

FrameInv ==
    /\ pc = "OPENING" => OpenFrame
    /\ pc = "BATCHED" => BatchFrame
    /\ pc = "ANSWERED" => /\ frame.kind \in {"EVENTS", "OVERFLOW"}
                          /\ frame.kind = "EVENTS" => EventsFrame
                          /\ frame.kind = "OVERFLOW" => OverflowFrame
    /\ pc \in {"REFRESHED", "REBASED"} => ControlFrame

ObservationInv == BusInv /\ HostInv /\ ViewInv /\ FrameInv

-----------------------------------------------------------------------------
(* Sequences                                                                *)

(* A set of numbers that is not empty has a least element. *)
LEMMA LeastExists ==
    ASSUME NEW S \in SUBSET Nat, S # {}
    PROVE  \E m \in S : \A n \in S : m <= n
<1> DEFINE Less == {ss \in Nat \X Nat : ss[1] < ss[2]}
<1>1. IsWellFoundedOn(Less, Nat)
  BY NatLessThanWellFounded, Zenon DEF OpToRel
<1>2. \E m \in S : \A n \in S : ~(<<n, m>> \in Less)
  <2> HIDE DEF Less
  <2> QED BY <1>1, WFMin
<1>3. ASSUME NEW m \in S, NEW n \in S, ~(<<n, m>> \in Less)
      PROVE  m <= n
  <2>1. m \in Nat /\ n \in Nat
    OBVIOUS
  <2> QED BY <1>3, <2>1
<1> QED BY <1>2, <1>3

(* A batch lies between its cursor and the end of the log. *)
LEMMA BatchIsInLog ==
    ASSUME log \in Nat, NEW seq \in Nat, seq <= log
    PROVE  Through(seq) \in seq..log
<1> DEFINE last == Least(log, seq + MaxBatch)
           stop == {n \in (seq + 1)..last : n \in LargeEvents}
<1>1. last \in seq..log
  BY ObservationAssumption DEF Least
<1>2. CASE stop = {}
  BY <1>1, <1>2 DEF Through
<1>3. CASE stop # {}
  <2>1. stop \in SUBSET Nat /\ stop \subseteq (seq + 1)..last
    BY <1>1
  <2>2. \E n \in stop : \A m \in stop : n <= m
    BY <1>3, <2>1, LeastExists
  <2>3. (CHOOSE n \in stop : \A m \in stop : n <= m) \in stop
    BY <2>2
  <2>4. Through(seq) = (CHOOSE n \in stop : \A m \in stop : n <= m) - 1
    BY <1>3 DEF Through
  <2> DEFINE first == CHOOSE n \in stop : \A m \in stop : n <= m
  <2>5. first \in (seq + 1)..last /\ Through(seq) = first - 1
    BY <2>1, <2>3, <2>4
  <2> HIDE DEF first, last
  <2> QED BY <1>1, <2>5
<1> QED BY <1>2, <1>3

(* A new offer joins the ring, whose oldest may leave. *)
LEMMA OfferJoinsRing ==
    ASSUME BusInv, HostInv, NEW kind \in {"DELTA", "WORK", "SETTLED"},
           offers' = Append(offers, kind),
           bus' = [bus EXCEPT !.rev = @ + 1, !.ring = Trim(Append(@, Len(offers) + 1))]
    PROVE  BusInv' /\ bus'.gen = bus.gen /\ bus'.rev = bus.rev + 1
<1> DEFINE grown == Append(bus.ring, Len(offers) + 1)
<1>1. /\ Len(offers) \in Nat /\ Len(offers') = Len(offers) + 1
      /\ bus \in [gen : Nat, rev : Nat, ring : Seq(Nat)] /\ bus.ring \in Seq(Nat) /\ Len(bus.ring) \in Nat
  BY AppendProperties, LenProperties DEF HostInv, BusInv
<1>2. /\ grown \in Seq(Nat) /\ grown # <<>> /\ Len(grown) = Len(bus.ring) + 1
      /\ \A i \in 1..Len(grown) : grown[i] = Len(offers') - Len(grown) + i
  <2>1. /\ grown \in Seq(Nat) /\ grown # <<>> /\ Len(grown) = Len(bus.ring) + 1
        /\ \A i \in 1..Len(bus.ring) : grown[i] = bus.ring[i]
        /\ grown[Len(bus.ring) + 1] = Len(offers) + 1
    BY <1>1, AppendProperties
  <2>2. \A i \in 1..Len(bus.ring) : bus.ring[i] = Len(offers) - Len(bus.ring) + i
    BY DEF BusInv
  <2> HIDE DEF grown
  <2>3. ASSUME NEW i \in 1..Len(grown) PROVE grown[i] = Len(offers') - Len(grown) + i
    <3>1. CASE i \in 1..Len(bus.ring)
      <4>1. grown[i] = bus.ring[i] /\ bus.ring[i] = Len(offers) - Len(bus.ring) + i
        BY <2>1, <2>2, <3>1
      <4> QED BY <1>1, <2>1, <4>1
    <3>2. CASE i = Len(bus.ring) + 1
      BY <1>1, <2>1, <3>2
    <3> QED BY <1>1, <2>1, <3>1, <3>2
  <2> QED BY <2>1, <2>3
<1>3. /\ Trim(grown) \in Seq(Nat) /\ Len(Trim(grown)) <= MaxRing /\ Len(Trim(grown)) <= bus.rev + 1
      /\ \A i \in 1..Len(Trim(grown)) : Trim(grown)[i] = Len(offers') - Len(Trim(grown)) + i
  <2>0. Len(bus.ring) <= bus.rev /\ Len(bus.ring) <= MaxRing /\ bus.rev \in Nat /\ MaxRing \in Nat
    BY ObservationAssumption DEF BusInv
  <2>1. CASE Len(grown) > MaxRing
    <3> DEFINE rest == Tail(grown)
    <3>1. /\ Trim(grown) = rest /\ rest \in Seq(Nat) /\ Len(rest) = Len(grown) - 1
          /\ \A i \in 1..Len(rest) : rest[i] = grown[i + 1]
      BY <1>2, <2>1, HeadTailProperties DEF Trim
    <3> HIDE DEF grown, rest
    <3>2. Len(grown) \in Nat /\ Len(rest) \in Nat
      BY <1>1, <1>2, <3>1, LenProperties
    <3>3. ASSUME NEW i \in 1..Len(rest) PROVE rest[i] = Len(offers') - Len(rest) + i
      <4>1. rest[i] = grown[i + 1] /\ i + 1 \in 1..Len(grown)
        BY <3>1, <3>2
      <4>2. grown[i + 1] = Len(offers') - Len(grown) + (i + 1)
        BY <1>2, <4>1
      <4> QED BY <1>1, <3>1, <3>2, <4>1, <4>2
    <3>4. Len(rest) <= MaxRing /\ Len(rest) <= bus.rev + 1
      BY <1>1, <1>2, <2>0, <3>1
    <3> QED BY <3>1, <3>3, <3>4
  <2>2. CASE ~(Len(grown) > MaxRing)
    <3>1. Trim(grown) = grown
      BY <2>2 DEF Trim
    <3> HIDE DEF grown
    <3>2. Len(grown) <= MaxRing /\ Len(grown) <= bus.rev + 1
      BY <1>1, <1>2, <2>0, <2>2
    <3> QED BY <1>2, <3>1, <3>2
  <2> QED BY <2>1, <2>2
<1>4. bus'.gen = bus.gen /\ bus'.rev = bus.rev + 1 /\ bus'.ring = Trim(grown)
  BY <1>1
<1>5. bus' \in [gen : Nat, rev : Nat, ring : Seq(Nat)]
  <2>1. bus.rev + 1 \in Nat
    BY <1>1
  <2> HIDE DEF grown
  <2> QED BY <1>1, <1>3, <2>1 DEF grown
<1>6. bus.gen >= 1 /\ bus.rev + 1 <= Len(offers')
  BY <1>1 DEF BusInv
<1> HIDE DEF grown
<1> QED BY <1>3, <1>4, <1>5, <1>6 DEF BusInv

-----------------------------------------------------------------------------
(* What the host may do to a page                                           *)

(* The log, the work, the offers and the interactions grow; a generation of *)
(* the bus keeps the places of its offers; a change of the work is told.    *)
HostMoves ==
    /\ HostInv' /\ BusInv'
    /\ UNCHANGED <<att, pageVars>>
    /\ log' >= log /\ work' >= work /\ bus'.gen >= bus.gen
    /\ Len(offers') >= Len(offers)
    /\ \A n \in 1..Len(offers) : offers'[n] = offers[n]
    /\ bus'.gen = bus.gen => /\ bus'.rev >= bus.rev
                             /\ Len(offers') - bus'.rev = Len(offers) - bus.rev
    /\ Len(control') >= Len(control)
    /\ \A n \in 1..Len(control) : control'[n] = control[n]
    /\ work' # work => notify'
    /\ notify => \/ notify'
                 \/ bus'.gen # bus.gen
                 \/ Len(offers') = Len(offers) + 1 /\ offers'[Len(offers) + 1] = "WORK"

(* Sizes, revisions and versions are natural numbers. *)
LEMMA HostFacts ==
    ASSUME HostInv, BusInv
    PROVE  /\ Len(offers) \in Nat /\ Len(control) \in Nat /\ log \in Nat /\ work \in Nat
           /\ bus.gen \in Nat /\ bus.rev \in Nat /\ bus.ring \in Seq(Nat) /\ Len(bus.ring) \in Nat
BY LenProperties, ObservationAssumption DEF HostInv, BusInv

(* Progress without a hole, taken from the ring. *)
IsPart(part, first, last) ==
    /\ part \in Seq(Nat) /\ Contiguous(part) /\ Len(part) = last - first
    /\ \A i \in 1..Len(part) : part[i] = Len(offers) - Len(bus.ring) + first + i

(* A part of the ring is progress without a hole. *)
LEMMA RingPart ==
    ASSUME HostInv, BusInv, NEW first \in 0..Len(bus.ring), NEW last \in first..Len(bus.ring)
    PROVE  IsPart(SubSeq(bus.ring, first + 1, last), first, last)
<1> DEFINE part == SubSeq(bus.ring, first + 1, last)
           base == Len(offers) - Len(bus.ring)
<1>1. /\ bus.ring \in Seq(Nat) /\ Len(bus.ring) \in Nat /\ Len(offers) \in Nat /\ base \in Int
      /\ first \in Nat /\ last \in Nat /\ first <= last /\ last <= Len(bus.ring)
  <2>1. bus.ring \in Seq(Nat) /\ Len(bus.ring) \in Nat /\ Len(offers) \in Nat
    BY HostFacts
  <2> QED BY <2>1
<1>2. \A i \in 1..Len(bus.ring) : bus.ring[i] = base + i
  BY DEF BusInv
<1>3. \A i \in (first + 1)..last : bus.ring[i] \in Nat
  BY <1>1, ElementOfSeq
<1>4. /\ part \in Seq(Nat)
      /\ Len(part) = IF first + 1 <= last THEN last - (first + 1) + 1 ELSE 0
      /\ \A i \in 1..(last - (first + 1) + 1) : part[i] = bus.ring[(first + 1) + i - 1]
  BY <1>3, SubSeqProperties
<1> HIDE DEF part, base
<1>5. Len(part) = last - first
  BY <1>1, <1>4
<1>6. ASSUME NEW i \in 1..Len(part)
      PROVE  part[i] = base + first + i
  <2>1. i \in 1..(last - (first + 1) + 1) /\ first + i \in 1..Len(bus.ring) /\ (first + 1) + i - 1 = first + i
    BY <1>1, <1>5
  <2>2. part[i] = bus.ring[first + i]
    BY <1>4, <2>1
  <2>3. bus.ring[first + i] = base + (first + i)
    BY <1>2, <2>1
  <2> QED BY <1>1, <2>2, <2>3
<1>7. ASSUME NEW i \in 1..(Len(part) - 1) PROVE part[i + 1] = part[i] + 1
  <2>1. i \in 1..Len(part) /\ i + 1 \in 1..Len(part) /\ i \in Int
    BY <1>1, <1>5
  <2>2. part[i] = base + first + i /\ part[i + 1] = base + first + (i + 1)
    BY <1>6, <2>1
  <2> QED BY <1>1, <2>1, <2>2
<1> QED BY <1>4, <1>5, <1>6, <1>7 DEF IsPart, Contiguous, part, base

(* An offer reaches the ring, or a new generation begins. *)
LEMMA OfferKeeps ==
    ASSUME HostInv, BusInv, NEW kind \in {"DELTA", "WORK", "SETTLED"}, Offer(kind) \/ OfferLost(kind)
    PROVE  /\ BusInv'
           /\ offers' \in Seq({"DELTA", "WORK", "SETTLED"}) /\ Len(offers') = Len(offers) + 1
           /\ \A n \in 1..Len(offers) : offers'[n] = offers[n]
           /\ offers'[Len(offers) + 1] = kind
           /\ bus'.gen >= bus.gen
           /\ bus'.gen = bus.gen => bus'.rev = bus.rev + 1
           /\ UNCHANGED <<log, control, work, closed, att, pageVars>>
<1>1. /\ offers' = Append(offers, kind) /\ offers \in Seq({"DELTA", "WORK", "SETTLED"})
      /\ UNCHANGED <<log, control, work, closed, att, pageVars>>
  BY DEF Offer, OfferLost, HostInv
<1>2. /\ offers' \in Seq({"DELTA", "WORK", "SETTLED"}) /\ Len(offers') = Len(offers) + 1
      /\ \A n \in 1..Len(offers) : offers'[n] = offers[n]
      /\ offers'[Len(offers) + 1] = kind
  BY <1>1, AppendProperties
<1>3. CASE Offer(kind)
  <2>1. bus' = [bus EXCEPT !.rev = @ + 1, !.ring = Trim(Append(@, Len(offers) + 1))]
    BY <1>3 DEF Offer
  <2>2. BusInv' /\ bus'.gen = bus.gen /\ bus'.rev = bus.rev + 1
    BY <1>1, <2>1, OfferJoinsRing
  <2> QED BY <1>1, <1>2, <2>2, HostFacts
<1>4. CASE OfferLost(kind)
  <2>1. bus' = [gen |-> bus.gen + 1, rev |-> 0, ring |-> <<>>] /\ bus.gen \in Nat /\ bus.gen >= 1
    BY <1>4 DEF OfferLost, BusInv
  <2>2. Len(offers') \in Nat /\ <<>> \in Seq(Nat) /\ Len(<<>>) = 0 /\ MaxRing \in Nat
    BY <1>2, LenProperties, ObservationAssumption
  <2>3. BusInv'
    BY <2>1, <2>2 DEF BusInv
  <2> QED BY <1>1, <1>2, <2>1, <2>3
<1> QED BY <1>3, <1>4

(* An offer is a move of the host. *)
LEMMA OfferMoves ==
    ASSUME HostInv, BusInv, OfferDelta \/ OfferSettlement \/ OfferWork
    PROVE  HostMoves
<1>1. PICK kind \in {"DELTA", "WORK", "SETTLED"} :
          /\ Offer(kind) \/ OfferLost(kind)
          /\ \/ kind = "WORK" /\ notify /\ notify' = FALSE
             \/ RoomForOffer /\ UNCHANGED notify
  BY DEF OfferDelta, OfferSettlement, OfferWork
<1>2. /\ BusInv'
      /\ offers' \in Seq({"DELTA", "WORK", "SETTLED"}) /\ Len(offers') = Len(offers) + 1
      /\ \A n \in 1..Len(offers) : offers'[n] = offers[n]
      /\ offers'[Len(offers) + 1] = kind
      /\ bus'.gen >= bus.gen
      /\ bus'.gen = bus.gen => bus'.rev = bus.rev + 1
      /\ UNCHANGED <<log, control, work, closed, att, pageVars>>
  BY <1>1, OfferKeeps
<1>3. /\ Len(offers) \in Nat /\ Len(control) \in Nat /\ log \in Nat /\ work \in Nat /\ bus.rev \in Nat
      /\ bus.gen \in Nat /\ bus'.gen \in Nat /\ {MaxOffers, MaxTotal} \subseteq Nat
  BY <1>2, HostFacts, ObservationAssumption DEF BusInv
<1>4. /\ notify' \in BOOLEAN
      /\ Len(offers') <= MaxOffers
      /\ notify' => Len(offers') < MaxOffers /\ log + Len(offers') < MaxTotal
  <2>1. CASE kind = "WORK" /\ notify /\ notify' = FALSE
    <3>1. notify' = FALSE /\ Len(offers) < MaxOffers
      BY <2>1, Zenon DEF HostInv
    <3>2. Len(offers') <= MaxOffers
      <4>1. Len(offers') = Len(offers) + 1
        BY <1>2
      <4> QED BY <1>3, <3>1, <4>1
    <3> QED BY <3>1, <3>2
  <2>2. CASE RoomForOffer /\ UNCHANGED notify
    <3>1. notify' = notify /\ notify \in BOOLEAN /\ Len(offers) < MaxOffers
      BY <1>3, <2>2 DEF HostInv, RoomForOffer, Due
    <3>2. notify = TRUE => Len(offers) + 1 < MaxOffers /\ log + Len(offers) + 1 < MaxTotal
      BY <2>2 DEF RoomForOffer, Due
    <3>3. Len(offers') <= MaxOffers
      <4>1. Len(offers') = Len(offers) + 1
        BY <1>2
      <4> QED BY <1>3, <3>1, <4>1
    <3>4. notify = TRUE => Len(offers') < MaxOffers /\ log + Len(offers') < MaxTotal
      <4>1. Len(offers') = Len(offers) + 1
        BY <1>2
      <4> QED BY <1>3, <3>2, <4>1
    <3>5. CASE notify = TRUE
      BY <3>1, <3>3, <3>4, <3>5
    <3>6. CASE notify = FALSE
      BY <3>1, <3>3, <3>6
    <3> QED BY <3>1, <3>5, <3>6
  <2> QED BY <1>1, <2>1, <2>2
<1>5. HostInv'
  BY <1>2, <1>3, <1>4 DEF HostInv, pageVars
<1>6. notify => notify' \/ offers'[Len(offers) + 1] = "WORK"
  BY <1>1, <1>2
<1>7. /\ work' = work /\ log' = log /\ control' = control /\ Len(offers') = Len(offers) + 1
      /\ bus'.gen = bus.gen => bus'.rev = bus.rev + 1
  BY <1>2
<1>8. /\ log' >= log /\ work' >= work /\ Len(offers') >= Len(offers)
      /\ bus'.gen = bus.gen => /\ bus'.rev >= bus.rev
                               /\ Len(offers') - bus'.rev = Len(offers) - bus.rev
  BY <1>3, <1>7
<1>9. Len(control') >= Len(control) /\ \A n \in 1..Len(control) : control'[n] = control[n]
  BY <1>3, <1>7
<1> QED BY <1>2, <1>5, <1>6, <1>7, <1>8, <1>9, Zenon DEF HostMoves

(* So is every other step of the host. *)
LEMMA OtherHostMoves ==
    ASSUME HostInv, BusInv,
           Commit \/ ChangeWork \/ HostCloses \/ \E i \in Interactions \cup {"NONE"} : ChangeInteraction(i)
    PROVE  HostMoves
<1>1. /\ Len(offers) \in Nat /\ Len(control) \in Nat /\ log \in Nat /\ work \in Nat /\ bus.rev \in Nat
      /\ bus.gen \in Nat /\ Len(bus.ring) \in Nat
      /\ {MaxLog, MaxOffers, MaxTotal, MaxControl, MaxWork} \subseteq Nat
  BY HostFacts, ObservationAssumption
<1>2. CASE Commit
  <2>1. UNCHANGED <<offers, bus, control, work, notify, closed, att, pageVars>> /\ log' = log + 1 /\ log < MaxLog
    BY <1>2 DEF Commit
  <2>2. notify' => Len(offers') < MaxOffers /\ log' + Len(offers') < MaxTotal
    BY <1>1, <1>2, <2>1 DEF Commit, Due, HostInv
  <2>3. HostInv'
    BY <1>1, <2>1, <2>2 DEF HostInv, pageVars
  <2>4. BusInv'
    BY <2>1 DEF BusInv
  <2> QED BY <1>1, <2>1, <2>3, <2>4 DEF HostMoves
<1>3. CASE ChangeWork
  <2>1. /\ UNCHANGED <<log, offers, bus, control, closed, att, pageVars>>
        /\ work' = work + 1 /\ work < MaxWork /\ notify' = TRUE
        /\ Len(offers) < MaxOffers /\ log + Len(offers) < MaxTotal
    BY <1>1, <1>3 DEF ChangeWork, RoomForOffer, Due
  <2>2. HostInv'
    BY <1>1, <2>1 DEF HostInv, pageVars
  <2>3. BusInv'
    BY <2>1 DEF BusInv
  <2> QED BY <1>1, <2>1, <2>2, <2>3 DEF HostMoves
<1>4. CASE HostCloses
  <2>1. /\ UNCHANGED <<log, offers, control, work, notify, att, pageVars>>
        /\ closed' = TRUE /\ bus' = [bus EXCEPT !.ring = <<>>]
    BY <1>4 DEF HostCloses
  <2>2. HostInv' /\ bus'.gen = bus.gen /\ bus'.rev = bus.rev
    BY <2>1 DEF HostInv, pageVars, BusInv
  <2>3. BusInv'
    <3>1. <<>> \in Seq(Nat) /\ Len(<<>>) = 0 /\ MaxRing \in Nat
      BY EmptySeq, ObservationAssumption
    <3>2. bus' \in [gen : Nat, rev : Nat, ring : Seq(Nat)] /\ bus'.ring = <<>>
      BY <2>1, <3>1 DEF BusInv
    <3> QED BY <1>1, <2>1, <2>2, <3>1, <3>2 DEF BusInv
  <2> QED BY <1>1, <2>1, <2>2, <2>3 DEF HostMoves
<1>5. CASE \E i \in Interactions \cup {"NONE"} : ChangeInteraction(i)
  <2>1. PICK i \in Interactions \cup {"NONE"} :
            /\ control' = Append(control, i) /\ Len(control) < MaxControl
            /\ UNCHANGED <<log, offers, bus, work, notify, closed, att, pageVars>>
    BY <1>5 DEF ChangeInteraction
  <2>2. control \in Seq(Interactions \cup {"NONE"})
    BY DEF HostInv
  <2>3. /\ control' \in Seq(Interactions \cup {"NONE"}) /\ Len(control') = Len(control) + 1
        /\ \A n \in 1..Len(control) : control'[n] = control[n]
    BY <2>1, <2>2, AppendProperties
  <2>4. HostInv'
    BY <1>1, <2>1, <2>3 DEF HostInv, pageVars
  <2>5. BusInv'
    BY <2>1 DEF BusInv
  <2> QED BY <1>1, <2>1, <2>3, <2>4, <2>5 DEF HostMoves
<1> QED BY <1>2, <1>3, <1>4, <1>5

(* A place stays a place. *)
LEMMA PlaceStays ==
    ASSUME HostInv, BusInv, HostMoves, NEW gen, NEW rev, NEW live, Placed(gen, rev, live)
    PROVE  /\ gen \in 0..bus'.gen
           /\ gen = bus'.gen => /\ gen = bus.gen /\ rev <= bus'.rev
                                /\ live # <<>> => live[Len(live)] = Len(offers') - (bus'.rev - rev)
<1>1. /\ bus.gen \in Nat /\ bus'.gen \in Nat /\ bus'.gen >= bus.gen /\ bus.rev \in Nat /\ bus'.rev \in Nat
      /\ Len(offers) \in Nat /\ Len(offers') \in Nat
      /\ bus'.gen = bus.gen => bus'.rev >= bus.rev /\ Len(offers') - bus'.rev = Len(offers) - bus.rev
  <2>1. HostInv' /\ BusInv'
    BY DEF HostMoves
  <2>2. Len(offers') \in Nat /\ bus'.gen \in Nat /\ bus'.rev \in Nat
    BY <2>1, LenProperties DEF HostInv, BusInv
  <2> QED BY <2>2, HostFacts DEF HostMoves
<1>2. /\ gen \in 0..bus.gen /\ rev \in Nat
      /\ gen = bus.gen => rev <= bus.rev /\ (live # <<>> => live[Len(live)] = Len(offers) - (bus.rev - rev))
  BY DEF Placed, Pos
<1>3. gen \in 0..bus'.gen /\ (gen = bus'.gen => gen = bus.gen)
  BY <1>1, <1>2
<1>4. ASSUME gen = bus'.gen
      PROVE  rev <= bus'.rev /\ (live # <<>> => live[Len(live)] = Len(offers') - (bus'.rev - rev))
  <2>1. gen = bus.gen /\ bus'.gen = bus.gen
    BY <1>3, <1>4
  <2>2. /\ bus'.rev >= bus.rev /\ Len(offers') - bus'.rev = Len(offers) - bus.rev /\ rev <= bus.rev
        /\ live # <<>> => live[Len(live)] = Len(offers) - (bus.rev - rev)
    BY <1>1, <1>2, <2>1
  <2>3. Len(offers') - (bus'.rev - rev) = Len(offers) - (bus.rev - rev) /\ rev <= bus'.rev
    BY <1>1, <1>2, <2>2
  <2> QED BY <2>2, <2>3
<1> QED BY <1>3, <1>4

(* A version of the work stays one whose successor is told. *)
LEMMA NoticeStays ==
    ASSUME HostInv, BusInv, HostMoves, NEW version, NEW gen, NEW rev, NEW live,
           Placed(gen, rev, live), Learns(version, gen, rev)
    PROVE  version # work' =>
               \/ notify'
               \/ gen # bus'.gen
               \/ \E n \in (Len(offers') - (bus'.rev - rev) + 1)..Len(offers') : offers'[n] = "WORK"
<1> SUFFICES ASSUME version # work', ~notify', gen = bus'.gen
             PROVE  \E n \in (Len(offers') - (bus'.rev - rev) + 1)..Len(offers') : offers'[n] = "WORK"
  OBVIOUS
<1>1. gen = bus.gen /\ bus'.gen = bus.gen
  BY PlaceStays
<1>2. version # work
  BY Zenon DEF HostMoves
<1>3. /\ rev \in Nat /\ rev <= bus.rev /\ bus.rev \in Nat /\ bus'.rev \in Nat /\ bus.rev <= Len(offers)
      /\ Len(offers) \in Nat /\ Len(offers') \in Nat /\ Len(offers') >= Len(offers)
      /\ Len(offers') - bus'.rev = Len(offers) - bus.rev
  <2>1. HostInv' /\ BusInv'
    BY DEF HostMoves
  <2>2. Len(offers') \in Nat /\ bus'.rev \in Nat
    BY <2>1, LenProperties DEF HostInv, BusInv
  <2>3. bus.rev <= Len(offers)
    BY DEF BusInv
  <2> QED BY <1>1, <2>2, <2>3, HostFacts DEF HostMoves, Placed
<1>4. Len(offers') - (bus'.rev - rev) = Pos(rev) /\ Pos(rev) \in Nat /\ Pos(rev) <= Len(offers)
  <2>1. Pos(rev) = Len(offers) - (bus.rev - rev)
    BY DEF Pos
  <2>2. Len(offers') - (bus'.rev - rev) = Len(offers) - (bus.rev - rev)
    BY <1>3
  <2>3. Len(offers) - (bus.rev - rev) \in Nat /\ Len(offers) - (bus.rev - rev) <= Len(offers)
    BY <1>3
  <2> QED BY <2>1, <2>2, <2>3
<1>5. CASE notify
  <2>1. Len(offers') = Len(offers) + 1 /\ offers'[Len(offers) + 1] = "WORK"
    BY <1>1, <1>5, Zenon DEF HostMoves
  <2>2. Len(offers) + 1 \in (Len(offers') - (bus'.rev - rev) + 1)..Len(offers')
    BY <1>3, <1>4, <2>1
  <2> QED BY <2>1, <2>2
<1>6. CASE \E n \in (Pos(rev) + 1)..Len(offers) : offers[n] = "WORK"
  <2>1. PICK n \in (Pos(rev) + 1)..Len(offers) : offers[n] = "WORK"
    BY <1>6
  <2>2. n \in 1..Len(offers) /\ n \in (Len(offers') - (bus'.rev - rev) + 1)..Len(offers')
    BY <1>3, <1>4
  <2>3. offers'[n] = "WORK"
    BY <2>1, <2>2 DEF HostMoves
  <2> QED BY <2>2, <2>3
<1> QED BY <1>1, <1>2, <1>5, <1>6, Zenon DEF Learns

(* A revision of live control stays one. *)
LEMMA InteractionStays ==
    ASSUME HostInv, HostMoves, NEW crev, NEW interaction, Shows(crev, interaction)
    PROVE  /\ crev \in 0..Len(control')
           /\ interaction = IF crev = 0 THEN "NONE" ELSE control'[crev]
<1>1. Len(control) \in Nat /\ Len(control') \in Nat /\ Len(control') >= Len(control)
  <2>1. HostInv'
    BY DEF HostMoves
  <2>2. Len(control') \in Nat /\ Len(control) \in Nat
    BY <2>1, LenProperties DEF HostInv
  <2> QED BY <2>2 DEF HostMoves
<1>2. crev \in 0..Len(control) /\ interaction = IF crev = 0 THEN "NONE" ELSE control[crev]
  BY DEF Shows
<1>3. crev # 0 => control'[crev] = control[crev]
  BY <1>1, <1>2 DEF HostMoves
<1> QED BY <1>1, <1>2, <1>3

(* What the page holds is unaffected by the host. *)
LEMMA HostKeepsPage ==
    ASSUME ObservationInv, HostMoves
    PROVE  ObservationInv'
<1>1. HostInv /\ BusInv /\ ViewInv /\ FrameInv /\ HostInv' /\ BusInv'
  BY DEF ObservationInv, HostMoves
<1>2. view' = view /\ pc' = pc /\ frame' = frame /\ failures' = failures /\ reopens' = reopens
  BY DEF HostMoves, pageVars
<1>3. /\ log \in Nat /\ log' \in Nat /\ log' >= log /\ work \in Nat /\ work' \in Nat /\ work' >= work
      /\ Len(offers) \in Nat /\ Len(offers') \in Nat /\ Len(offers') >= Len(offers)
      /\ bus.rev \in Nat /\ bus'.rev \in Nat
  <2>1. /\ log' \in Nat /\ work' \in Nat /\ Len(offers') \in Nat /\ bus'.rev \in Nat
    BY <1>1, LenProperties, ObservationAssumption DEF HostInv, BusInv
  <2> QED BY <1>1, <2>1, HostFacts DEF HostMoves
<1>4. ViewInv'
  <2>1. Placed(view.gen, view.rev, view.live)'
    <3>1. Placed(view.gen, view.rev, view.live)
      BY <1>1 DEF ViewInv
    <3> QED BY <1>1, <1>2, <3>1, PlaceStays DEF Placed, Pos, Contiguous
  <2>2. Shows(view.crev, view.interaction)'
    <3>1. Shows(view.crev, view.interaction)
      BY <1>1 DEF ViewInv
    <3> QED BY <1>1, <1>2, <3>1, InteractionStays DEF Shows
  <2>3. ASSUME pc' \in {"IDLE", "OBSERVING", "BATCHED", "ANSWERED"}, FollowsWork'
        PROVE  Learns(view.work, view.gen, view.rev)'
    <3>1. Placed(view.gen, view.rev, view.live) /\ Learns(view.work, view.gen, view.rev)
      BY <1>1, <1>2, <2>3 DEF ViewInv, FollowsWork
    <3> QED BY <1>1, <1>2, <3>1, NoticeStays DEF Learns, Pos
  <2>4. view' \in Views /\ view'.entries \subseteq 1..log' /\ view'.seq <= log' /\ view'.work <= work'
        /\ 1..view'.seq \subseteq view'.entries
    <3>1. /\ view \in Views /\ view.entries \subseteq 1..log /\ view.seq <= log /\ view.work <= work
          /\ 1..view.seq \subseteq view.entries
      BY <1>1 DEF ViewInv
    <3>2. view.seq \in Nat /\ view.work \in Nat
      BY <3>1 DEF Views
    <3>3. view.seq <= log' /\ view.work <= work' /\ 1..log \subseteq 1..log'
      BY <1>3, <3>1, <3>2
    <3> QED BY <1>2, <3>1, <3>3
  <2> QED BY <2>1, <2>2, <2>3, <2>4 DEF ViewInv, Views
<1>5. FrameInv'
  <2>0. /\ view \in Views /\ Placed(view.gen, view.rev, view.live)
        /\ view.seq \in Nat /\ view.rev \in Nat /\ view.gen \in Nat
    BY <1>1 DEF ViewInv, Views
  <2>1. ASSUME pc' = "OPENING" PROVE OpenFrame'
    <3>1. OpenFrame
      BY <1>1, <1>2, <2>1 DEF FrameInv
    <3>2. Placed(frame.gen, frame.rev, frame.live)'
      <4>1. Placed(frame.gen, frame.rev, frame.live)
        BY <3>1 DEF OpenFrame
      <4> QED BY <1>1, <1>2, <4>1, PlaceStays DEF Placed, Pos, Contiguous
    <3>3. Shows(frame.crev, frame.interaction)'
      BY <1>1, <1>2, <3>1, InteractionStays DEF Shows, OpenFrame
    <3>4. ASSUME frame'.controlled PROVE Learns(frame.work, frame.gen, frame.rev)'
      <4>1. Placed(frame.gen, frame.rev, frame.live) /\ Learns(frame.work, frame.gen, frame.rev)
        BY <1>2, <3>1, <3>4 DEF OpenFrame
      <4> QED BY <1>1, <1>2, <4>1, NoticeStays DEF Learns, Pos
    <3>5. frame.seq \in Nat /\ frame.work \in Nat /\ frame.seq <= log /\ frame.work <= work
      BY <3>1 DEF OpenFrame, Opens
    <3>6. frame'.seq <= log' /\ frame'.work <= work'
      BY <1>2, <1>3, <3>5
    <3>7. frame' \in Opens
      BY <1>2, <3>1 DEF OpenFrame
    <3> QED BY <3>2, <3>3, <3>4, <3>6, <3>7 DEF OpenFrame, Opens
  <2>2. ASSUME pc' = "BATCHED" PROVE BatchFrame'
    BY <1>1, <1>2, <1>3, <2>0, <2>2 DEF FrameInv, BatchFrame
  <2>3. ASSUME pc' = "ANSWERED"
        PROVE  /\ frame'.kind \in {"EVENTS", "OVERFLOW"}
               /\ frame'.kind = "EVENTS" => EventsFrame'
               /\ frame'.kind = "OVERFLOW" => OverflowFrame'
    <3>1. /\ frame.kind \in {"EVENTS", "OVERFLOW"}
          /\ frame.kind = "EVENTS" => EventsFrame
          /\ frame.kind = "OVERFLOW" => OverflowFrame
      BY <1>1, <1>2, <2>3 DEF FrameInv
    <3>2. ASSUME EventsFrame PROVE EventsFrame'
      <4>1. Shows(frame.crev, frame.interaction)'
        BY <1>1, <1>2, <3>2, InteractionStays DEF Shows, EventsFrame
      <4>2. frame'.through \in view'.seq..log'
        BY <1>2, <1>3, <2>0, <3>2 DEF EventsFrame
      <4>3. \A i \in 1..Len(frame'.live) : frame'.live[i] \in 1..Len(offers')
        <5>1. \A i \in 1..Len(frame.live) : frame.live[i] \in 1..Len(offers)
          BY <3>2 DEF EventsFrame
        <5>2. 1..Len(offers) \subseteq 1..Len(offers')
          BY <1>3
        <5> QED BY <1>2, <5>1, <5>2
      <4>4. ASSUME view'.gen = bus'.gen
            PROVE  frame'.rev <= bus'.rev /\ \A i \in 1..Len(frame'.live) : frame'.live[i] = Len(offers') - (bus'.rev - view'.rev) + i
        <5>1. view.gen = bus.gen /\ bus'.gen = bus.gen
          BY <1>1, <1>2, <2>0, <4>4, PlaceStays
        <5>2. bus'.rev >= bus.rev /\ Len(offers') - bus'.rev = Len(offers) - bus.rev
          BY <5>1 DEF HostMoves
        <5>3. frame.rev <= bus.rev /\ \A i \in 1..Len(frame.live) : frame.live[i] = Len(offers) - (bus.rev - view.rev) + i
          BY <3>2, <5>1 DEF EventsFrame, Pos
        <5>4. Len(offers') - (bus'.rev - view.rev) = Len(offers) - (bus.rev - view.rev)
          <6>1. /\ Len(offers) \in Int /\ Len(offers') \in Int /\ bus.rev \in Int /\ bus'.rev \in Int
                /\ view.rev \in Int
            BY <1>3, <2>0
          <6> QED BY <5>2, <6>1
        <5>5. frame.rev \in Nat
          BY <2>0, <3>2, LenProperties DEF EventsFrame
        <5>6. frame.rev <= bus'.rev
          BY <1>3, <5>2, <5>3, <5>5
        <5> QED BY <1>2, <5>3, <5>4, <5>6
      <4>5. /\ frame'.live \in Seq(Nat) /\ Contiguous(frame'.live)
            /\ frame'.live # <<>> /\ view'.live # <<>> => frame'.live[1] = view'.live[Len(view'.live)] + 1
            /\ frame'.rev = view'.rev + Len(frame'.live)
        BY <1>2, <3>2 DEF EventsFrame
      <4> QED BY <4>1, <4>2, <4>3, <4>4, <4>5 DEF EventsFrame, Contiguous, Pos
    <3>3. ASSUME OverflowFrame PROVE OverflowFrame'
      <4>1. Placed(frame.gen, frame.rev, <<>>)
        BY <3>3 DEF OverflowFrame
      <4>2. Placed(frame.gen, frame.rev, <<>>)'
        BY <1>1, <1>2, <4>1, PlaceStays DEF Placed, Pos, Contiguous
      <4>3. frame'.through \in view'.seq..log'
        BY <1>2, <1>3, <2>0, <3>3 DEF OverflowFrame
      <4> QED BY <4>2, <4>3 DEF OverflowFrame
    <3> QED BY <1>2, <3>1, <3>2, <3>3
  <2>4. ASSUME pc' \in {"REFRESHED", "REBASED"} PROVE ControlFrame'
    <3>1. ControlFrame
      BY <1>1, <1>2, <2>4 DEF FrameInv
    <3>2. Shows(frame.crev, frame.interaction)'
      BY <1>1, <1>2, <3>1, InteractionStays DEF Shows, ControlFrame
    <3>3. frame'.work \in 0..work'
      BY <1>2, <1>3, <3>1 DEF ControlFrame
    <3>4. ASSUME FollowsWork' PROVE Learns(frame.work, view.gen, view.rev)'
      <4>1. Learns(frame.work, view.gen, view.rev)
        BY <1>2, <3>1, <3>4 DEF ControlFrame, FollowsWork
      <4> QED BY <1>1, <1>2, <2>0, <4>1, NoticeStays DEF Learns, Pos
    <3> QED BY <3>2, <3>3, <3>4 DEF ControlFrame
  <2> QED BY <2>1, <2>2, <2>3, <2>4 DEF FrameInv
<1> QED BY <1>1, <1>4, <1>5 DEF ObservationInv

-----------------------------------------------------------------------------
(* The steps of the page                                                    *)

(* A step of the page leaves the bus and the log alone. *)
LEMMA HostRests ==
    ASSUME HostInv, BusInv, UNCHANGED hostVars, pc' \in Seen \cup Opening,
           att' = att \/ att' = [sub |-> 0, epoch |-> 0] \/ att' = [sub |-> bus.gen, epoch |-> bus.gen],
           failures' \in 0..MaxFailures, reopens' = reopens
    PROVE  HostInv' /\ BusInv'
<1>1. /\ log' = log /\ offers' = offers /\ bus' = bus /\ control' = control /\ work' = work
      /\ notify' = notify /\ closed' = closed
  BY DEF hostVars
<1>2. BusInv'
  BY <1>1 DEF BusInv
<1>3. att' \in [sub : Nat, epoch : Nat] /\ att'.sub = att'.epoch /\ att'.sub <= bus'.gen
  <2>1. bus.gen \in Nat /\ bus.gen >= 1
    BY DEF BusInv
  <2>2. CASE att' = att
    BY <1>1, <2>2 DEF HostInv
  <2>3. CASE att' = [sub |-> 0, epoch |-> 0]
    BY <1>1, <2>1, <2>3
  <2>4. CASE att' = [sub |-> bus.gen, epoch |-> bus.gen]
    BY <1>1, <2>1, <2>4
  <2> QED BY <2>2, <2>3, <2>4
<1>4. HostInv'
  BY <1>1, <1>3 DEF HostInv
<1> QED BY <1>2, <1>4

(* The page keeps what it shows, and is told no less. *)
LEMMA ViewRests ==
    ASSUME ViewInv, UNCHANGED <<hostVars, view>>,
           pc' \in {"IDLE", "OBSERVING", "BATCHED", "ANSWERED"} /\ FollowsWork' =>
               pc \in {"IDLE", "OBSERVING", "BATCHED", "ANSWERED"} /\ FollowsWork
    PROVE  ViewInv'
<1>1. /\ log' = log /\ offers' = offers /\ bus' = bus /\ control' = control /\ work' = work
      /\ notify' = notify /\ view' = view
  BY DEF hostVars
<1>2. Placed(view.gen, view.rev, view.live)'
  BY <1>1 DEF ViewInv, Placed, Pos, Contiguous
<1>3. Shows(view.crev, view.interaction)'
  BY <1>1 DEF ViewInv, Shows
<1>4. ASSUME pc' \in {"IDLE", "OBSERVING", "BATCHED", "ANSWERED"}, FollowsWork'
      PROVE  Learns(view.work, view.gen, view.rev)'
  <2>1. Learns(view.work, view.gen, view.rev)
    BY <1>4 DEF ViewInv
  <2> QED BY <1>1, <2>1 DEF Learns, Pos
<1>5. /\ view' \in Views /\ view'.entries \subseteq 1..log' /\ view'.seq <= log' /\ view'.work <= work'
      /\ 1..view'.seq \subseteq view'.entries
  BY <1>1 DEF ViewInv
<1> QED BY <1>2, <1>3, <1>4, <1>5 DEF ViewInv, Views

(* A new page shows nothing. *)
LEMMA NewPage ==
    ASSUME HostInv, BusInv, UNCHANGED hostVars, view' = EmptyView, pc' = "HELLO"
    PROVE  ViewInv' /\ FrameInv'
<1>1. /\ log' = log /\ bus' = bus /\ control' = control /\ work' = work
  BY DEF hostVars
<1>2. /\ view'.entries = {} /\ view'.seq = 0 /\ view'.live = <<>> /\ view'.gen = 0 /\ view'.rev = 0
      /\ view'.interaction = "NONE" /\ view'.crev = 0 /\ view'.work = 0
  BY DEF EmptyView
<1>3. <<>> \in Seq(Nat) /\ Len(<<>>) = 0
  BY EmptySeq
<1>4. view' \in Views
  BY <1>3 DEF EmptyView, Views
<1>5. log \in Nat /\ work \in Nat /\ bus.gen \in Nat /\ bus.gen >= 1 /\ Len(control) \in Nat
  BY HostFacts DEF BusInv
<1>6. Placed(view.gen, view.rev, view.live)'
  <2>1. Contiguous(view.live)'
    BY <1>2, <1>3 DEF Contiguous
  <2> QED BY <1>1, <1>2, <1>3, <1>5, <2>1 DEF Placed
<1>7. Shows(view.crev, view.interaction)'
  BY <1>1, <1>2, <1>5 DEF Shows
<1>8. ViewInv'
  BY <1>1, <1>2, <1>4, <1>5, <1>6, <1>7 DEF ViewInv, Views
<1> QED BY <1>8 DEF FrameInv

(* The subscription and its snapshot belong to one generation. *)
LEMMA HelloKeeps ==
    ASSUME ObservationInv, Hello
    PROVE  ObservationInv'
<1>1. HostInv /\ BusInv /\ ViewInv
  BY DEF ObservationInv
<1>2. PICK n \in 0..Len(bus.ring) :
          frame' = [kind |-> "OPEN", gen |-> bus.gen, rev |-> bus.rev,
                    live |-> SubSeq(bus.ring, n + 1, Len(bus.ring)),
                    seq |-> 0, committed |-> FALSE, crev |-> 0, interaction |-> "NONE", work |-> 0, controlled |-> FALSE]
  BY DEF Hello
<1>3. UNCHANGED hostVars /\ view' = view /\ failures' = failures /\ reopens' = reopens /\ pc' = "OPENING"
  BY DEF Hello
<1>4. HostInv' /\ BusInv'
  <2>1. att' = [sub |-> bus.gen, epoch |-> bus.gen] /\ failures \in 0..MaxFailures
    BY <1>1 DEF Hello, HostInv
  <2> QED BY <1>1, <1>3, <2>1, HostRests DEF Opening
<1>5. ViewInv'
  BY <1>1, <1>3, ViewRests
<1> DEFINE live == SubSeq(bus.ring, n + 1, Len(bus.ring))
<1>6. /\ bus.gen \in Nat /\ bus.rev \in Nat /\ Len(bus.ring) \in Nat /\ Len(offers) \in Nat /\ log \in Nat
      /\ work \in Nat /\ Len(control) \in Nat /\ bus.ring \in Seq(Nat)
  BY <1>1, HostFacts
<1>7. /\ live \in Seq(Nat) /\ Contiguous(live)
      /\ Len(live) = Len(bus.ring) - n
      /\ \A i \in 1..Len(live) : live[i] = Len(offers) - Len(bus.ring) + n + i
  <2>1. Len(bus.ring) \in n..Len(bus.ring)
    BY <1>6
  <2>2. IsPart(live, n, Len(bus.ring))
    BY <1>1, <2>1, RingPart, Zenon
  <2> QED BY <2>2 DEF IsPart
<1>8. Placed(bus.gen, bus.rev, live)
  <2> HIDE DEF live
  <2>1. ASSUME live # <<>> PROVE live[Len(live)] = Pos(bus.rev)
    <3>1. Len(live) \in Nat /\ Len(live) # 0
      BY <1>7, <2>1, EmptySeq, LenProperties
    <3>2. Len(live) \in 1..Len(live)
      BY <3>1
    <3>5. live[Len(live)] = Len(offers) - Len(bus.ring) + n + Len(live)
      BY <1>7, <3>2
    <3>3. Pos(bus.rev) = Len(offers)
      BY <1>6 DEF Pos
    <3>4. Len(live) = Len(bus.ring) - n
      BY <1>7
    <3> QED BY <1>6, <3>5, <3>3, <3>4
  <2> QED BY <1>6, <1>7, <2>1 DEF Placed
<1>9. OpenFrame'
  <2> HIDE DEF live
  <2>1. /\ frame'.gen = bus.gen /\ frame'.rev = bus.rev /\ frame'.live = live /\ frame'.seq = 0
        /\ frame'.crev = 0 /\ frame'.interaction = "NONE" /\ frame'.work = 0 /\ frame'.controlled = FALSE
    BY <1>2 DEF live
  <2>2. frame' \in Opens
    BY <1>2, <1>6, <1>7 DEF Opens, live
  <2>3. log' = log /\ offers' = offers /\ bus' = bus /\ control' = control /\ work' = work
    BY <1>3 DEF hostVars
  <2>4. Placed(frame.gen, frame.rev, frame.live)'
    BY <1>8, <2>1, <2>3 DEF Placed, Pos, Contiguous
  <2>5. Shows(frame.crev, frame.interaction)'
    BY <1>6, <2>1, <2>3 DEF Shows
  <2>6. frame'.seq <= log' /\ frame'.work <= work'
    BY <1>6, <2>1, <2>3
  <2> QED BY <2>1, <2>2, <2>4, <2>5, <2>6 DEF OpenFrame, Opens
<1>10. FrameInv'
  BY <1>3, <1>9 DEF FrameInv
<1> QED BY <1>4, <1>5, <1>10 DEF ObservationInv

(* The committed events are read while the live control is. *)
LEMMA OpenSnapshotKeeps ==
    ASSUME ObservationInv, OpenSnapshot
    PROVE  ObservationInv'
<1>1. HostInv /\ BusInv /\ ViewInv /\ FrameInv
  BY DEF ObservationInv
<1>2. /\ UNCHANGED <<hostVars, att, view, pc, failures, reopens>> /\ pc = "OPENING"
      /\ frame' = [frame EXCEPT !.committed = TRUE, !.seq = log]
  BY DEF OpenSnapshot
<1>3. HostInv' /\ BusInv'
  BY <1>1, <1>2, HostRests DEF HostInv
<1>4. ViewInv'
  BY <1>1, <1>2, ViewRests
<1>5. OpenFrame
  BY <1>1, <1>2 DEF FrameInv
<1>6. log \in Nat /\ frame \in Opens
  BY <1>1, <1>5, HostFacts DEF OpenFrame
<1>7. /\ frame' \in Opens /\ frame'.seq = log
      /\ frame'.gen = frame.gen /\ frame'.rev = frame.rev /\ frame'.live = frame.live
      /\ frame'.crev = frame.crev /\ frame'.interaction = frame.interaction
      /\ frame'.work = frame.work /\ frame'.controlled = frame.controlled
  BY <1>2, <1>6 DEF Opens
<1>8. log' = log /\ offers' = offers /\ bus' = bus /\ control' = control /\ work' = work /\ notify' = notify
  BY <1>2 DEF hostVars
<1>9. OpenFrame'
  <2>1. Placed(frame.gen, frame.rev, frame.live)'
    BY <1>5, <1>7, <1>8 DEF OpenFrame, Placed, Pos, Contiguous
  <2>2. Shows(frame.crev, frame.interaction)'
    BY <1>5, <1>7, <1>8 DEF OpenFrame, Shows
  <2>3. frame'.controlled => Learns(frame.work, frame.gen, frame.rev)'
    BY <1>5, <1>7, <1>8 DEF OpenFrame, Learns, Pos
  <2>4. frame'.seq <= log' /\ frame'.work <= work'
    BY <1>5, <1>6, <1>7, <1>8 DEF OpenFrame
  <2> QED BY <1>7, <2>1, <2>2, <2>3, <2>4 DEF OpenFrame, Opens
<1>10. FrameInv'
  BY <1>2, <1>9 DEF FrameInv
<1> QED BY <1>3, <1>4, <1>10 DEF ObservationInv

(* The current interaction is the one of the latest revision. *)
LEMMA CurrentIsShown ==
    ASSUME HostInv
    PROVE  Shows(Len(control), Current) /\ Len(control) \in Nat /\ Current \in Interactions \cup {"NONE"}
<1>1. control \in Seq(Interactions \cup {"NONE"})
  BY DEF HostInv
<1>2. Len(control) \in Nat /\ (Len(control) = 0 <=> control = <<>>)
  BY <1>1, EmptySeq, LenProperties
<1>3. Shows(Len(control), Current)
  BY <1>2 DEF Shows, Current
<1>4. control # <<>> => control[Len(control)] \in Interactions \cup {"NONE"}
  BY <1>1, <1>2, ElementOfSeq
<1> QED BY <1>2, <1>3, <1>4 DEF Current

(* The interaction and the work are read after the subscription. *)
LEMMA OpenControlKeeps ==
    ASSUME ObservationInv, OpenControl
    PROVE  ObservationInv'
<1>1. HostInv /\ BusInv /\ ViewInv /\ FrameInv
  BY DEF ObservationInv
<1>2. /\ UNCHANGED <<hostVars, att, view, pc, failures, reopens>> /\ pc = "OPENING"
      /\ frame' = [frame EXCEPT !.controlled = TRUE, !.crev = Len(control), !.interaction = Current, !.work = work]
  BY DEF OpenControl
<1>3. HostInv' /\ BusInv'
  BY <1>1, <1>2, HostRests DEF HostInv
<1>4. ViewInv'
  BY <1>1, <1>2, ViewRests
<1>5. OpenFrame
  BY <1>1, <1>2 DEF FrameInv
<1>6. /\ work \in Nat /\ frame \in Opens
      /\ Shows(Len(control), Current) /\ Len(control) \in Nat /\ Current \in Interactions \cup {"NONE"}
  BY <1>1, <1>5, HostFacts, CurrentIsShown DEF OpenFrame
<1>7. /\ frame' \in Opens /\ frame'.seq = frame.seq
      /\ frame'.gen = frame.gen /\ frame'.rev = frame.rev /\ frame'.live = frame.live
      /\ frame'.crev = Len(control) /\ frame'.interaction = Current /\ frame'.work = work
  BY <1>2, <1>6 DEF Opens
<1>8. log' = log /\ offers' = offers /\ bus' = bus /\ control' = control /\ work' = work /\ notify' = notify
  BY <1>2 DEF hostVars
<1>9. OpenFrame'
  <2>1. Placed(frame.gen, frame.rev, frame.live)'
    BY <1>5, <1>7, <1>8 DEF OpenFrame, Placed, Pos, Contiguous
  <2>2. Shows(frame.crev, frame.interaction)'
    BY <1>6, <1>7, <1>8 DEF Shows
  <2>3. Learns(frame.work, frame.gen, frame.rev)'
    BY <1>7, <1>8 DEF Learns
  <2>4. frame'.seq <= log' /\ frame'.work <= work'
    BY <1>5, <1>6, <1>7, <1>8 DEF OpenFrame
  <2> QED BY <1>7, <2>1, <2>2, <2>3, <2>4 DEF OpenFrame, Opens
<1>10. FrameInv'
  BY <1>2, <1>9 DEF FrameInv
<1> QED BY <1>3, <1>4, <1>10 DEF ObservationInv

(* The page starts with what the three reads brought. *)
LEMMA OpenKeeps ==
    ASSUME ObservationInv, Open
    PROVE  ObservationInv'
<1>1. HostInv /\ BusInv /\ FrameInv
  BY DEF ObservationInv
<1>2. /\ UNCHANGED <<hostVars, att, failures, reopens>> /\ pc = "OPENING" /\ pc' = "IDLE" /\ frame.controlled
      /\ view' = [entries |-> 1..frame.seq, seq |-> frame.seq,
                  live |-> frame.live, gen |-> frame.gen, rev |-> frame.rev,
                  interaction |-> frame.interaction, crev |-> frame.crev, work |-> frame.work]
  BY DEF Open
<1>3. HostInv' /\ BusInv'
  BY <1>1, <1>2, HostRests DEF HostInv, Seen
<1>4. OpenFrame
  BY <1>1, <1>2 DEF FrameInv
<1>5. /\ view'.entries = 1..frame.seq /\ view'.seq = frame.seq
      /\ view'.live = frame.live /\ view'.gen = frame.gen /\ view'.rev = frame.rev
      /\ view'.interaction = frame.interaction /\ view'.crev = frame.crev /\ view'.work = frame.work
  BY <1>2
<1>6. frame \in Opens /\ frame.seq \in Nat /\ frame.work \in Nat /\ log \in Nat /\ work \in Nat
  BY <1>1, <1>4, HostFacts DEF OpenFrame, Opens
<1>7. view' \in Views
  BY <1>2, <1>6 DEF Views, Opens
<1>8. log' = log /\ offers' = offers /\ bus' = bus /\ control' = control /\ work' = work /\ notify' = notify
  BY <1>2 DEF hostVars
<1>9. ViewInv'
  <2>1. Placed(view.gen, view.rev, view.live)'
    BY <1>4, <1>5, <1>8 DEF OpenFrame, Placed, Pos, Contiguous
  <2>2. Shows(view.crev, view.interaction)'
    BY <1>4, <1>5, <1>8 DEF OpenFrame, Shows
  <2>3. Learns(view.work, view.gen, view.rev)'
    BY <1>2, <1>4, <1>5, <1>8 DEF OpenFrame, Learns, Pos
  <2>4. view'.entries \subseteq 1..log' /\ view'.seq <= log' /\ view'.work <= work' /\ 1..view'.seq \subseteq view'.entries
    BY <1>4, <1>5, <1>6, <1>8 DEF OpenFrame
  <2> QED BY <1>7, <2>1, <2>2, <2>3, <2>4 DEF ViewInv, Views
<1>10. FrameInv'
  BY <1>2 DEF FrameInv
<1> QED BY <1>3, <1>9, <1>10 DEF ObservationInv

(* The steps that change nothing of the page but what it is doing. *)
LEMMA RequestKeeps ==
    ASSUME ObservationInv, Request \/ Wait
    PROVE  ObservationInv'
<1>1. HostInv /\ BusInv /\ ViewInv
  BY DEF ObservationInv
<1>2. UNCHANGED <<hostVars, att, view, failures, reopens>> /\ pc \in {"IDLE", "BATCHED"} /\ pc' = "OBSERVING"
  BY DEF Request, Wait
<1>3. HostInv' /\ BusInv'
  BY <1>1, <1>2, HostRests DEF HostInv, Seen
<1>4. ViewInv'
  BY <1>1, <1>2, ViewRests DEF FollowsWork
<1>5. FrameInv'
  BY <1>2 DEF FrameInv
<1> QED BY <1>3, <1>4, <1>5 DEF ObservationInv

(* A batch continues the cursor of the page. *)
LEMMA ReadBatchKeeps ==
    ASSUME ObservationInv, ReadBatch
    PROVE  ObservationInv'
<1>1. HostInv /\ BusInv /\ ViewInv
  BY DEF ObservationInv
<1>2. /\ UNCHANGED <<hostVars, att, view, failures, reopens>> /\ pc = "OBSERVING" /\ pc' = "BATCHED"
      /\ frame' = [kind |-> "BATCH", through |-> Through(view.seq), gap |-> TooLarge(view.seq)]
  BY DEF ReadBatch
<1>3. HostInv' /\ BusInv'
  BY <1>1, <1>2, HostRests DEF HostInv, Seen
<1>4. ViewInv'
  BY <1>1, <1>2, ViewRests DEF FollowsWork
<1>5. BatchFrame'
  <2>1. view.seq \in Nat /\ view.seq <= log /\ log \in Nat
    BY <1>1, HostFacts DEF ViewInv, Views
  <2>2. Through(view.seq) \in view.seq..log
    BY <2>1, BatchIsInLog
  <2>3. TooLarge(view.seq) \in BOOLEAN
    BY DEF TooLarge
  <2>4. log' = log /\ view' = view
    BY <1>2 DEF hostVars
  <2> QED BY <1>2, <2>2, <2>3, <2>4 DEF BatchFrame
<1>6. FrameInv'
  BY <1>2, <1>5 DEF FrameInv
<1> QED BY <1>3, <1>4, <1>6 DEF ObservationInv

(* A gap ends the connection. *)
LEMMA AnswerGapKeeps ==
    ASSUME ObservationInv, AnswerGap
    PROVE  ObservationInv'
<1>1. HostInv /\ BusInv
  BY DEF ObservationInv
<1>2. /\ UNCHANGED <<hostVars, failures, reopens>> /\ pc' = "HELLO" /\ view' = EmptyView
      /\ att' = [sub |-> 0, epoch |-> 0]
  BY DEF AnswerGap
<1>3. HostInv' /\ BusInv'
  BY <1>1, <1>2, HostRests DEF HostInv, Opening
<1> QED BY <1>1, <1>2, <1>3, NewPage DEF ObservationInv

(* The new subscription starts at the end of the ring. *)
LEMMA AnswerOverflowKeeps ==
    ASSUME ObservationInv, AnswerOverflow
    PROVE  ObservationInv'
<1>1. HostInv /\ BusInv /\ ViewInv /\ FrameInv
  BY DEF ObservationInv
<1>2. /\ UNCHANGED <<hostVars, view, failures, reopens>> /\ pc = "BATCHED" /\ pc' = "ANSWERED"
      /\ att' = [sub |-> bus.gen, epoch |-> bus.gen]
      /\ frame' = [kind |-> "OVERFLOW", through |-> frame.through, gen |-> bus.gen, rev |-> bus.rev]
  BY DEF AnswerOverflow
<1>3. HostInv' /\ BusInv'
  BY <1>1, <1>2, HostRests DEF HostInv, Seen
<1>4. ViewInv'
  BY <1>1, <1>2, ViewRests DEF FollowsWork
<1>5. frame'.kind = "OVERFLOW" /\ frame'.through = frame.through /\ frame'.gen = bus.gen /\ frame'.rev = bus.rev
  BY <1>2
<1>6. log' = log /\ offers' = offers /\ bus' = bus /\ view' = view
  BY <1>2 DEF hostVars
<1>7. OverflowFrame'
  <2>1. frame.through \in view.seq..log
    BY <1>1, <1>2 DEF FrameInv, BatchFrame
  <2>2. Placed(bus.gen, bus.rev, <<>>)
    BY <1>1, HostFacts, EmptySeq DEF Placed, Contiguous
  <2>3. Placed(frame.gen, frame.rev, <<>>)'
    BY <1>5, <1>6, <2>2 DEF Placed, Contiguous
  <2> QED BY <1>5, <1>6, <2>1, <2>3 DEF OverflowFrame
<1>8. FrameInv'
  BY <1>2, <1>5, <1>7 DEF FrameInv
<1> QED BY <1>3, <1>4, <1>8 DEF ObservationInv

(* What an answer may tell: the ring reaches back to the cursor. *)
LEMMA DeliveredContinues ==
    ASSUME HostInv, BusInv, ViewInv, view.gen = att.epoch, ~LiveGap
    PROVE  /\ view.gen = bus.gen
           /\ After(view.rev) \in Seq(Nat) /\ Contiguous(After(view.rev))
           /\ view.rev + Len(After(view.rev)) <= bus.rev
           /\ \A i \in 1..Len(After(view.rev)) :
                  After(view.rev)[i] = Pos(view.rev) + i /\ After(view.rev)[i] \in 1..Len(offers)
<1>1. view.gen = bus.gen
  BY DEF HostInv, LiveGap
<1>2. /\ view.rev \in Nat /\ bus.rev \in Nat /\ Len(bus.ring) \in Nat /\ Len(offers) \in Nat /\ MaxBatch \in Nat
      /\ Len(bus.ring) <= bus.rev /\ bus.rev <= Len(offers)
  BY HostFacts, ObservationAssumption DEF ViewInv, Views, BusInv
<1>3. view.rev <= bus.rev /\ view.rev >= bus.rev - Len(bus.ring)
  BY <1>2 DEF LiveGap, RevisionOf
<1> DEFINE first == view.rev - (bus.rev - Len(bus.ring))
           last == Least(Len(bus.ring), first + MaxBatch)
<1>4. first \in 0..Len(bus.ring) /\ last \in first..Len(bus.ring)
  BY <1>2, <1>3 DEF Least
<1>5. After(view.rev) = SubSeq(bus.ring, first + 1, last)
  BY DEF After
<1>6. first = view.rev - (bus.rev - Len(bus.ring))
  OBVIOUS
<1> HIDE DEF first, last
<1>7. IsPart(SubSeq(bus.ring, first + 1, last), first, last)
  BY <1>4, RingPart, Zenon
<1> DEFINE part == After(view.rev)
<1>8. /\ part \in Seq(Nat) /\ Contiguous(part) /\ Len(part) = last - first
      /\ \A i \in 1..Len(part) : part[i] = Len(offers) - Len(bus.ring) + first + i
  BY <1>5, <1>7 DEF IsPart
<1> HIDE DEF part
<1>9. Len(part) \in Nat /\ view.rev + Len(part) <= bus.rev
  BY <1>2, <1>3, <1>4, <1>6, <1>8
<1>10. ASSUME NEW i \in 1..Len(part)
       PROVE  part[i] = Pos(view.rev) + i /\ part[i] \in 1..Len(offers)
  <2>1. part[i] = Len(offers) - Len(bus.ring) + first + i
    BY <1>8
  <2>2. Len(offers) - Len(bus.ring) + first + i = Len(offers) - (bus.rev - view.rev) + i
    BY <1>2, <1>6
  <2>3. Len(offers) - (bus.rev - view.rev) + i \in 1..Len(offers)
    BY <1>2, <1>3, <1>9
  <2> QED BY <2>1, <2>2, <2>3 DEF Pos
<1> QED BY <1>1, <1>8, <1>9, <1>10 DEF part

(* What an answer tells continues what the page shows. *)
LEMMA AnswerKeeps ==
    ASSUME ObservationInv, Answer
    PROVE  ObservationInv'
<1>1. HostInv /\ BusInv /\ ViewInv /\ FrameInv
  BY DEF ObservationInv
<1> DEFINE part == After(view.rev)
           crev == Least(Len(control), view.crev + MaxBatch)
           told == IF crev = view.crev THEN view.interaction ELSE control[crev]
<1>2. /\ UNCHANGED <<hostVars, att, view, failures, reopens>> /\ pc = "BATCHED" /\ pc' = "ANSWERED"
      /\ view.gen = att.epoch /\ ~LiveGap
      /\ frame' = [kind |-> "EVENTS", through |-> frame.through, live |-> part,
                   rev |-> view.rev + Len(part), crev |-> crev, interaction |-> told]
  BY DEF Answer
<1>3. HostInv' /\ BusInv'
  BY <1>1, <1>2, HostRests DEF HostInv, Seen
<1>4. ViewInv'
  BY <1>1, <1>2, ViewRests DEF FollowsWork
<1>5. /\ log' = log /\ offers' = offers /\ bus' = bus /\ control' = control /\ view' = view
  BY <1>2 DEF hostVars
<1>6. Shows(crev, told)
  <2>1. Shows(view.crev, view.interaction)
    BY <1>1 DEF ViewInv
  <2>2. Len(control) \in Nat /\ MaxBatch \in Nat /\ view.crev \in 0..Len(control)
    BY <1>1, <2>1, HostFacts, ObservationAssumption DEF Shows
  <2>3. crev \in view.crev..Len(control)
    BY <2>2 DEF Least
  <2> HIDE DEF crev
  <2> QED BY <2>1, <2>2, <2>3 DEF Shows
<1>7. /\ view.gen = bus.gen
      /\ part \in Seq(Nat) /\ Contiguous(part)
      /\ view.rev + Len(part) <= bus.rev
      /\ \A i \in 1..Len(part) : part[i] = Pos(view.rev) + i /\ part[i] \in 1..Len(offers)
  BY <1>1, <1>2, DeliveredContinues
<1> HIDE DEF part, crev, told
<1>8. /\ frame'.kind = "EVENTS" /\ frame'.through = frame.through /\ frame'.live = part
      /\ frame'.rev = view.rev + Len(part) /\ frame'.crev = crev /\ frame'.interaction = told
  BY <1>2
<1>9. ASSUME part # <<>>, view.live # <<>> PROVE part[1] = view.live[Len(view.live)] + 1
  <2>1. Len(part) \in Nat /\ Len(part) # 0
    BY <1>7, <1>9, EmptySeq, LenProperties
  <2>2. 1 \in 1..Len(part)
    BY <2>1
  <2>3. part[1] = Pos(view.rev) + 1
    BY <1>7, <2>2
  <2>4. view.live[Len(view.live)] = Pos(view.rev)
    BY <1>1, <1>7, <1>9 DEF ViewInv, Placed
  <2> QED BY <2>3, <2>4
<1>10. EventsFrame'
  <2>1. frame'.through \in view'.seq..log'
    BY <1>1, <1>2, <1>5, <1>8 DEF FrameInv, BatchFrame
  <2>2. /\ frame'.live \in Seq(Nat) /\ Contiguous(frame.live)'
        /\ frame'.live # <<>> /\ view'.live # <<>> => frame'.live[1] = view'.live[Len(view'.live)] + 1
        /\ frame'.rev = view'.rev + Len(frame'.live)
    BY <1>5, <1>7, <1>8, <1>9 DEF Contiguous
  <2>3. Shows(frame.crev, frame.interaction)'
    BY <1>5, <1>6, <1>8 DEF Shows
  <2>4. /\ \A i \in 1..Len(frame'.live) : frame'.live[i] \in 1..Len(offers')
        /\ frame'.rev <= bus'.rev
        /\ \A i \in 1..Len(frame'.live) : frame'.live[i] = Pos(view.rev)' + i
    BY <1>5, <1>7, <1>8 DEF Pos
  <2> QED BY <2>1, <2>2, <2>3, <2>4 DEF EventsFrame
<1>11. FrameInv'
  BY <1>2, <1>8, <1>10 DEF FrameInv
<1> QED BY <1>3, <1>4, <1>11 DEF ObservationInv

(* Two stretches of progress, the second of which continues the first. *)
LEMMA ProgressContinues ==
    ASSUME NEW s \in Seq(Nat), NEW t \in Seq(Nat), Contiguous(s), Contiguous(t),
           s # <<>> /\ t # <<>> => t[1] = s[Len(s)] + 1
    PROVE  /\ s \o t \in Seq(Nat) /\ Contiguous(s \o t)
           /\ t = <<>> => s \o t = s
           /\ t # <<>> => s \o t # <<>> /\ (s \o t)[Len(s \o t)] = t[Len(t)]
<1> DEFINE u == s \o t
<1>1. u \in Seq(Nat) /\ Len(u) = Len(s) + Len(t) /\ Len(s) \in Nat /\ Len(t) \in Nat
  BY ConcatProperties, LenProperties
<1>0. \A k \in 1..(Len(s) + Len(t)) : u[k] = IF k <= Len(s) THEN s[k] ELSE t[k - Len(s)]
  BY ConcatProperties
<1>2. t = <<>> => u = s
  BY ConcatEmptySeq
<1>3. (s = <<>> <=> Len(s) = 0) /\ (t = <<>> <=> Len(t) = 0) /\ (u = <<>> <=> Len(u) = 0)
  BY <1>1, EmptySeq
<1> HIDE DEF u
<1>7. ASSUME NEW k \in 1..Len(s) PROVE u[k] = s[k]
  <2>1. k \in 1..(Len(s) + Len(t)) /\ k <= Len(s)
    BY <1>1
  <2> QED BY <1>0, <2>1
<1>8. ASSUME NEW j \in 1..Len(t) PROVE u[Len(s) + j] = t[j]
  <2> DEFINE k == Len(s) + j
  <2>1. k \in 1..(Len(s) + Len(t))
    BY <1>1
  <2>2. ~(k <= Len(s))
    BY <1>1
  <2>3. k - Len(s) = j
    BY <1>1
  <2> HIDE DEF k
  <2>4. u[k] = t[k - Len(s)]
    BY <1>0, <2>1, <2>2
  <2> QED BY <2>3, <2>4 DEF k
<1>4. t # <<>> => u # <<>> /\ u[Len(u)] = t[Len(t)]
  <2> SUFFICES ASSUME t # <<>> PROVE u # <<>> /\ u[Len(u)] = t[Len(t)]
    OBVIOUS
  <2>1. Len(t) \in 1..Len(t) /\ Len(u) \in Int /\ Len(u) = Len(s) + Len(t) /\ Len(u) # 0
    BY <1>1, <1>3
  <2>2. u[Len(u)] = t[Len(t)]
    BY <1>8, <2>1
  <2> QED BY <1>3, <2>1, <2>2
<1>5. ASSUME NEW i \in 1..(Len(u) - 1) PROVE u[i + 1] = u[i] + 1
  <2>0. i \in Nat /\ i >= 1 /\ i + 1 <= Len(s) + Len(t)
    BY <1>1
  <2>1. CASE i + 1 <= Len(s)
    <3>1. i \in 1..Len(s) /\ i + 1 \in 1..Len(s) /\ i \in 1..(Len(s) - 1)
      BY <1>1, <2>0, <2>1
    <3>2. u[i] = s[i] /\ u[i + 1] = s[i + 1]
      BY <1>7, <3>1
    <3> QED BY <3>1, <3>2 DEF Contiguous
  <2>2. CASE i = Len(s)
    <3>1. /\ i \in 1..Len(s) /\ 1 \in 1..Len(t) /\ i + 1 = Len(s) + 1 /\ i + 1 \in Int
          /\ Len(s) # 0 /\ Len(t) # 0
      BY <1>1, <2>0, <2>2
    <3>2. u[i] = s[i] /\ u[i + 1] = t[1]
      BY <1>7, <1>8, <3>1
    <3>3. t[1] = s[Len(s)] + 1
      BY <1>3, <3>1
    <3> QED BY <2>2, <3>2, <3>3
  <2>3. CASE i > Len(s)
    <3> DEFINE j == i - Len(s)
    <3>0. Len(s) + Len(t) \in Nat /\ i + 1 <= Len(s) + Len(t) /\ i > Len(s) /\ i \in Nat /\ Len(s) \in Nat /\ Len(t) \in Nat
      BY <1>1, <2>0, <2>3
    <3>1. j \in 1..(Len(t) - 1) /\ j \in 1..Len(t) /\ j + 1 \in 1..Len(t)
      BY <3>0
    <3>5. i = Len(s) + j /\ i + 1 = Len(s) + (j + 1)
      BY <3>0
    <3> HIDE DEF j
    <3>2. u[i] = t[j]
      BY <1>8, <3>1, <3>5
    <3>3. u[i + 1] = t[j + 1]
      BY <1>8, <3>1, <3>5
    <3>4. t[j + 1] = t[j] + 1
      BY <3>1 DEF Contiguous
    <3> QED BY <3>2, <3>3, <3>4
  <2> QED BY <1>1, <2>0, <2>1, <2>2, <2>3
<1>6. Contiguous(u)
  BY <1>5 DEF Contiguous
<1> QED BY <1>1, <1>2, <1>4, <1>6 DEF u

(* The committed events of an answer continue those of the page. *)
LEMMA EntriesGrow ==
    ASSUME HostInv, ViewInv, NEW through \in view.seq..log,
           NEW entries, entries = view.entries \cup (view.seq + 1)..through
    PROVE  entries \subseteq 1..log /\ through \in Nat /\ through <= log /\ 1..through \subseteq entries
<1>1. view.seq \in Nat /\ view.entries \subseteq 1..log /\ 1..view.seq \subseteq view.entries /\ log \in Nat
  <2>1. view.seq \in Nat
    BY DEF ViewInv, Views
  <2>2. log \in Nat
    BY ObservationAssumption DEF HostInv
  <2> QED BY <2>1, <2>2 DEF ViewInv
<1>2. through \in Nat /\ through <= log /\ (view.seq + 1)..through \subseteq 1..log
  BY <1>1
<1>3. ASSUME NEW n \in 1..through PROVE n \in entries
  <2>1. n \in 1..view.seq \/ n \in (view.seq + 1)..through
    BY <1>1, <1>2
  <2> QED BY <1>1, <2>1
<1> QED BY <1>1, <1>2, <1>3

(* The cursors move over what is applied; a notice is not passed unread. *)
LEMMA ApplyEventsKeeps ==
    ASSUME ObservationInv, ApplyEvents
    PROVE  ObservationInv'
<1>1. HostInv /\ BusInv /\ ViewInv /\ FrameInv
  BY DEF ObservationInv
<1>2. /\ UNCHANGED <<hostVars, att, failures, reopens>> /\ pc = "ANSWERED" /\ frame.kind = "EVENTS"
      /\ pc' = IF \E i \in 1..Len(frame.live) : offers[frame.live[i]] = "WORK" THEN "REFRESHING" ELSE "IDLE"
  BY DEF ApplyEvents
<1>3. HostInv' /\ BusInv'
  BY <1>1, <1>2, HostRests DEF HostInv, Seen
<1>4. EventsFrame /\ view \in Views
  BY <1>1, <1>2 DEF FrameInv, ViewInv
<1> DEFINE entries == view.entries \cup (view.seq + 1)..frame.through
           live == view.live \o frame.live
<1>5. /\ entries \subseteq 1..log /\ frame.through \in Nat /\ frame.through <= log
      /\ 1..frame.through \subseteq entries
  BY <1>1, <1>4, EntriesGrow DEF EventsFrame
<1>6. /\ live \in Seq(Nat) /\ Contiguous(live)
      /\ frame.live = <<>> => live = view.live
      /\ frame.live # <<>> => live # <<>> /\ live[Len(live)] = frame.live[Len(frame.live)]
  <2>1. view.live \in Seq(Nat) /\ Contiguous(view.live)
    BY <1>1 DEF ViewInv, Placed
  <2>2. /\ frame.live \in Seq(Nat) /\ Contiguous(frame.live)
        /\ view.live # <<>> /\ frame.live # <<>> => frame.live[1] = view.live[Len(view.live)] + 1
    BY <1>4 DEF EventsFrame
  <2> QED BY <2>1, <2>2, ProgressContinues
<1>7. /\ view.rev \in Nat /\ view.gen \in Nat /\ view.work \in Nat /\ bus.rev \in Nat /\ bus.gen \in Nat
      /\ Len(offers) \in Nat /\ Len(frame.live) \in Nat /\ frame.rev = view.rev + Len(frame.live)
      /\ frame.rev \in Nat /\ bus.rev <= Len(offers) /\ log \in Nat
  <2>1. Len(frame.live) \in Nat /\ frame.rev = view.rev + Len(frame.live)
    BY <1>4, LenProperties DEF EventsFrame
  <2>2. view.rev \in Nat /\ view.gen \in Nat /\ view.work \in Nat
    BY <1>4 DEF Views
  <2> QED BY <1>1, <2>1, <2>2, HostFacts DEF BusInv
<1>8. Shows(frame.crev, frame.interaction) /\ frame.crev \in Nat
      /\ frame.interaction \in Interactions \cup {"NONE"}
  <2>1. Shows(frame.crev, frame.interaction) /\ frame.crev \in 0..Len(control) /\ Len(control) \in Nat
    BY <1>1, <1>4, HostFacts DEF EventsFrame, Shows
  <2>2. frame.crev # 0 => control[frame.crev] \in Interactions \cup {"NONE"}
    BY <1>1, <2>1, ElementOfSeq DEF HostInv
  <2> QED BY <2>1, <2>2 DEF Shows
<1> HIDE DEF entries, live
<1>9. /\ view' \in Views
      /\ view'.entries = entries /\ view'.seq = frame.through /\ view'.live = live /\ view'.gen = view.gen
      /\ view'.rev = frame.rev /\ view'.interaction = frame.interaction /\ view'.crev = frame.crev
      /\ view'.work = view.work
  <2>1. view' = [view EXCEPT !.entries = entries, !.seq = frame.through, !.live = live, !.rev = frame.rev,
                             !.interaction = frame.interaction, !.crev = frame.crev]
    BY DEF ApplyEvents, entries, live
  <2>2. entries \in SUBSET Nat
    BY <1>5, <1>7
  <2> QED BY <1>4, <1>5, <1>6, <1>7, <1>8, <2>1, <2>2 DEF Views
<1>10. log' = log /\ offers' = offers /\ bus' = bus /\ control' = control /\ work' = work /\ notify' = notify
       /\ failures' = failures /\ reopens' = reopens
  BY <1>2 DEF hostVars
<1>11. ASSUME view.gen = bus.gen
       PROVE  /\ frame.rev <= bus.rev
              /\ \A i \in 1..Len(frame.live) : frame.live[i] = Pos(view.rev) + i
              /\ Pos(frame.rev) = Pos(view.rev) + Len(frame.live) /\ Pos(view.rev) \in Nat
  <2>1. /\ frame.rev <= bus.rev
        /\ \A i \in 1..Len(frame.live) : frame.live[i] = Pos(view.rev) + i
    BY <1>4, <1>11 DEF EventsFrame
  <2>2. Len(offers) - (bus.rev - frame.rev) = Len(offers) - (bus.rev - view.rev) + Len(frame.live)
    BY <1>7
  <2>3. Len(offers) - (bus.rev - view.rev) \in Nat
    BY <1>7
  <2> QED BY <2>1, <2>2, <2>3 DEF Pos
<1>12. Placed(view.gen, view.rev, view.live)'
  <2>1. view.gen \in 0..bus.gen
    BY <1>1 DEF ViewInv, Placed
  <2>2. ASSUME view.gen = bus.gen, live # <<>> PROVE live[Len(live)] = Pos(frame.rev)
    <3>1. CASE frame.live = <<>>
      <4>1. Len(frame.live) = 0
        BY <3>1, EmptySeq
      <4>2. frame.rev = view.rev
        BY <1>7, <4>1
      <4>3. live = view.live
        BY <1>6, <3>1
      <4> QED BY <1>1, <2>2, <4>2, <4>3 DEF ViewInv, Placed
    <3>2. CASE frame.live # <<>>
      <4>1. Len(frame.live) # 0
        BY <1>4, <3>2, EmptySeq DEF EventsFrame
      <4>2. Len(frame.live) \in 1..Len(frame.live)
        BY <1>7, <4>1
      <4>3. frame.live[Len(frame.live)] = Pos(view.rev) + Len(frame.live)
        BY <1>11, <2>2, <4>2
      <4> QED BY <1>6, <1>11, <2>2, <3>2, <4>3
    <3> QED BY <3>1, <3>2
  <2>3. Placed(view.gen, frame.rev, live)
    BY <1>6, <1>7, <1>11, <2>1, <2>2 DEF Placed
  <2> QED BY <1>9, <1>10, <2>3 DEF Placed, Pos, Contiguous
<1>13. Shows(view.crev, view.interaction)'
  BY <1>8, <1>9, <1>10 DEF Shows
<1>14. ASSUME pc' \in {"IDLE", "OBSERVING", "BATCHED", "ANSWERED"}, FollowsWork'
       PROVE  Learns(view.work, view.gen, view.rev)'
  <2>1. Learns(view.work, view.gen, view.rev)
    BY <1>1, <1>2, <1>10, <1>14 DEF ViewInv, FollowsWork
  <2>2. \A i \in 1..Len(frame.live) : offers[frame.live[i]] # "WORK"
    BY <1>2, <1>14
  <2>3. ASSUME view.gen = bus.gen, NEW n \in (Pos(view.rev) + 1)..Len(offers), offers[n] = "WORK"
        PROVE  n \in (Pos(frame.rev) + 1)..Len(offers)
    <3> DEFINE i == n - Pos(view.rev)
    <3>1. Pos(view.rev) \in Nat /\ n \in Nat /\ n >= Pos(view.rev) + 1 /\ n <= Len(offers)
      BY <1>7, <1>11, <2>3
    <3>2. i \in Nat /\ i >= 1 /\ n = Pos(view.rev) + i
      BY <3>1
    <3> HIDE DEF i
    <3>3. ~(i <= Len(frame.live))
      <4> SUFFICES ASSUME i <= Len(frame.live) PROVE FALSE
        OBVIOUS
      <4>1. i \in 1..Len(frame.live)
        BY <1>7, <3>2
      <4>2. frame.live[i] = n
        BY <1>11, <2>3, <3>2, <4>1
      <4> QED BY <2>2, <2>3, <4>1, <4>2
    <3>4. Pos(frame.rev) = Pos(view.rev) + Len(frame.live)
      BY <1>11, <2>3
    <3> QED BY <1>7, <3>1, <3>2, <3>3, <3>4
  <2>4. Learns(view.work, view.gen, frame.rev)
    BY <2>1, <2>3 DEF Learns
  <2> QED BY <1>9, <1>10, <2>4 DEF Learns, Pos
<1>15. ViewInv'
  <2>1. view.work <= work
    BY <1>1 DEF ViewInv
  <2> QED BY <1>5, <1>9, <1>10, <1>12, <1>13, <1>14, <2>1 DEF ViewInv, Views
<1>16. FrameInv'
  BY <1>2 DEF FrameInv
<1> QED BY <1>3, <1>15, <1>16 DEF ObservationInv

(* The progress starts anew, and the work is read again. *)
LEMMA ApplyOverflowKeeps ==
    ASSUME ObservationInv, ApplyOverflow
    PROVE  ObservationInv'
<1>1. HostInv /\ BusInv /\ ViewInv /\ FrameInv
  BY DEF ObservationInv
<1>2. UNCHANGED <<hostVars, att, failures, reopens>> /\ pc = "ANSWERED" /\ frame.kind = "OVERFLOW" /\ pc' = "REBASING"
  BY DEF ApplyOverflow
<1>3. HostInv' /\ BusInv'
  BY <1>1, <1>2, HostRests DEF HostInv, Seen
<1>4. OverflowFrame /\ view \in Views
  BY <1>1, <1>2 DEF FrameInv, ViewInv
<1> DEFINE entries == view.entries \cup (view.seq + 1)..frame.through
<1>5. /\ entries \subseteq 1..log /\ frame.through \in Nat /\ frame.through <= log
      /\ 1..frame.through \subseteq entries
  BY <1>1, <1>4, EntriesGrow DEF OverflowFrame
<1>6. /\ Placed(frame.gen, frame.rev, <<>>) /\ frame.rev \in Nat /\ frame.gen \in Nat /\ log \in Nat
      /\ <<>> \in Seq(Nat)
  BY <1>1, <1>4, HostFacts, EmptySeq DEF OverflowFrame, Placed
<1> HIDE DEF entries
<1>7. /\ view' \in Views
      /\ view'.entries = entries /\ view'.seq = frame.through /\ view'.live = <<>> /\ view'.gen = frame.gen
      /\ view'.rev = frame.rev /\ view'.interaction = view.interaction /\ view'.crev = view.crev
      /\ view'.work = view.work
  <2>1. view' = [view EXCEPT !.entries = entries, !.seq = frame.through,
                             !.live = <<>>, !.gen = frame.gen, !.rev = frame.rev]
    BY DEF ApplyOverflow, entries
  <2>2. entries \in SUBSET Nat
    BY <1>5, <1>6
  <2> QED BY <1>4, <1>5, <1>6, <2>1, <2>2 DEF Views
<1>8. log' = log /\ offers' = offers /\ bus' = bus /\ control' = control /\ work' = work
  BY <1>2 DEF hostVars
<1>9. Placed(view.gen, view.rev, view.live)'
  BY <1>6, <1>7, <1>8 DEF Placed, Pos, Contiguous
<1>10. Shows(view.crev, view.interaction)'
  BY <1>1, <1>7, <1>8 DEF ViewInv, Shows
<1>11. ViewInv'
  <2>1. view.work <= work
    BY <1>1 DEF ViewInv
  <2> QED BY <1>2, <1>5, <1>7, <1>8, <1>9, <1>10, <2>1 DEF ViewInv, Views
<1>12. FrameInv'
  BY <1>2 DEF FrameInv
<1> QED BY <1>3, <1>11, <1>12 DEF ObservationInv

(* A snapshot of live control is current when it is read. *)
LEMMA ReadControlKeeps ==
    ASSUME ObservationInv, ReadControl
    PROVE  ObservationInv'
<1>1. HostInv /\ BusInv /\ ViewInv
  BY DEF ObservationInv
<1>2. /\ UNCHANGED <<hostVars, att, view, failures, reopens>> /\ pc' \in {"REFRESHED", "REBASED"}
      /\ frame' = [kind |-> "CONTROL", crev |-> Len(control), interaction |-> Current, work |-> work]
  BY DEF ReadControl
<1>3. HostInv' /\ BusInv'
  BY <1>1, <1>2, HostRests DEF HostInv, Seen
<1>4. ViewInv'
  BY <1>1, <1>2, ViewRests
<1>5. control' = control /\ work' = work /\ work \in Nat
  BY <1>1, <1>2, HostFacts DEF hostVars
<1>6. ControlFrame'
  <2>1. frame'.crev = Len(control) /\ frame'.interaction = Current /\ frame'.work = work
    BY <1>2
  <2>2. Shows(frame.crev, frame.interaction)'
    BY <1>1, <1>5, <2>1, CurrentIsShown DEF Shows
  <2>3. Learns(frame.work, view.gen, view.rev)'
    BY <1>5, <2>1 DEF Learns
  <2> QED BY <1>5, <2>1, <2>2, <2>3 DEF ControlFrame
<1>7. FrameInv'
  BY <1>2, <1>6 DEF FrameInv
<1> QED BY <1>3, <1>4, <1>7 DEF ObservationInv

(* The snapshot of live control: the work alone, or all of it after a gap. *)
LEMMA AdoptKeeps ==
    ASSUME ObservationInv, Refresh \/ Rebase
    PROVE  ObservationInv'
<1>1. HostInv /\ BusInv /\ ViewInv /\ FrameInv
  BY DEF ObservationInv
<1>2. /\ UNCHANGED <<hostVars, att, failures, reopens>> /\ pc \in {"REFRESHED", "REBASED"} /\ pc' = "IDLE"
  BY DEF Refresh, Rebase
<1>3. HostInv' /\ BusInv'
  BY <1>1, <1>2, HostRests DEF HostInv, Seen
<1>4. ControlFrame /\ view \in Views
  BY <1>1, <1>2 DEF FrameInv, ViewInv
<1>5. frame.work \in 0..work /\ work \in Nat /\ frame.work \in Nat
  BY <1>1, <1>4, HostFacts DEF ControlFrame
<1>6. /\ Shows(frame.crev, frame.interaction) /\ frame.crev \in Nat
      /\ frame.interaction \in Interactions \cup {"NONE"}
  <2>1. Shows(frame.crev, frame.interaction) /\ frame.crev \in 0..Len(control) /\ Len(control) \in Nat
    BY <1>1, <1>4, HostFacts DEF ControlFrame, Shows
  <2>2. frame.crev # 0 => control[frame.crev] \in Interactions \cup {"NONE"}
    BY <1>1, <2>1, ElementOfSeq DEF HostInv
  <2> QED BY <2>1, <2>2 DEF Shows
<1>7. /\ view' \in Views
      /\ view'.entries = view.entries /\ view'.seq = view.seq /\ view'.live = view.live /\ view'.gen = view.gen
      /\ view'.rev = view.rev /\ view'.work = frame.work
      /\ \/ view'.crev = view.crev /\ view'.interaction = view.interaction
         \/ view'.crev = frame.crev /\ view'.interaction = frame.interaction
  <2>1. CASE Refresh
    <3>1. view' = [view EXCEPT !.work = frame.work]
      BY <2>1 DEF Refresh
    <3> QED BY <1>4, <1>5, <3>1 DEF Views
  <2>2. CASE Rebase
    <3>1. view' = [view EXCEPT !.work = frame.work, !.crev = frame.crev, !.interaction = frame.interaction]
      BY <2>2 DEF Rebase
    <3> QED BY <1>4, <1>5, <1>6, <3>1 DEF Views
  <2> QED BY <2>1, <2>2
<1>8. log' = log /\ offers' = offers /\ bus' = bus /\ control' = control /\ work' = work /\ notify' = notify
      /\ failures' = failures /\ reopens' = reopens
  BY <1>2 DEF hostVars
<1>9. Placed(view.gen, view.rev, view.live)'
  BY <1>1, <1>7, <1>8 DEF ViewInv, Placed, Pos, Contiguous
<1>10. Shows(view.crev, view.interaction)'
  <2>1. Shows(view.crev, view.interaction)
    BY <1>1 DEF ViewInv
  <2> QED BY <1>6, <1>7, <1>8, <2>1 DEF Shows
<1>11. FollowsWork' => Learns(view.work, view.gen, view.rev)'
  BY <1>4, <1>7, <1>8 DEF ControlFrame, Learns, Pos, FollowsWork
<1>12. ViewInv'
  BY <1>1, <1>5, <1>7, <1>8, <1>9, <1>10, <1>11 DEF ViewInv, Views
<1>13. FrameInv'
  BY <1>2 DEF FrameInv
<1> QED BY <1>3, <1>12, <1>13 DEF ObservationInv

(* The committed events may be ahead of the cursor. *)
LEMMA ReadSnapshotKeeps ==
    ASSUME ObservationInv, ReadSnapshot
    PROVE  ObservationInv'
<1>1. HostInv /\ BusInv /\ ViewInv
  BY DEF ObservationInv
<1>2. UNCHANGED <<hostVars, att, pc, frame, failures, reopens>> /\ pc = "IDLE" /\ view' = [view EXCEPT !.entries = 1..log]
  BY DEF ReadSnapshot
<1>3. HostInv' /\ BusInv'
  BY <1>1, <1>2, HostRests DEF HostInv
<1>4. view \in Views /\ view.seq \in Nat /\ view.seq <= log /\ log \in Nat
  BY <1>1, HostFacts DEF ViewInv, Views
<1>5. /\ view' \in Views
      /\ view'.entries = 1..log /\ view'.seq = view.seq /\ view'.live = view.live /\ view'.gen = view.gen
      /\ view'.rev = view.rev /\ view'.interaction = view.interaction /\ view'.crev = view.crev
      /\ view'.work = view.work
  <2>1. 1..log \in SUBSET Nat
    BY <1>4
  <2> QED BY <1>2, <1>4, <2>1 DEF Views
<1>6. log' = log /\ offers' = offers /\ bus' = bus /\ control' = control /\ work' = work /\ notify' = notify
  BY <1>2 DEF hostVars
<1>7. Placed(view.gen, view.rev, view.live)'
  BY <1>1, <1>5, <1>6 DEF ViewInv, Placed, Pos, Contiguous
<1>8. Shows(view.crev, view.interaction)'
  BY <1>1, <1>5, <1>6 DEF ViewInv, Shows
<1>9. FollowsWork' => Learns(view.work, view.gen, view.rev)'
  BY <1>1, <1>2, <1>5, <1>6 DEF ViewInv, Learns, Pos, FollowsWork
<1>10. ViewInv'
  BY <1>1, <1>4, <1>5, <1>6, <1>7, <1>8, <1>9 DEF ViewInv, Views
<1>11. FrameInv'
  BY <1>2 DEF FrameInv
<1> QED BY <1>3, <1>10, <1>11 DEF ObservationInv

(* The main page opens anew; the pane of an agent keeps what it has. *)
LEMMA FailKeeps ==
    ASSUME ObservationInv, Fail
    PROVE  ObservationInv'
<1>1. HostInv /\ BusInv /\ ViewInv
  BY DEF ObservationInv
<1>2. /\ UNCHANGED hostVars /\ reopens' = reopens /\ failures < MaxFailures /\ failures' = failures + 1
      /\ failures \in 0..MaxFailures /\ MaxFailures \in Nat
      /\ \/ pc' = "HELLO" /\ view' = EmptyView /\ att' = [sub |-> 0, epoch |-> 0]
         \/ pc' = "IDLE" /\ UNCHANGED <<view, att>> /\ ~reopens
  BY <1>1, ObservationAssumption DEF Fail, HostInv
<1>3. failures' \in 0..MaxFailures /\ failures' # 0
  BY <1>2
<1>4. HostInv' /\ BusInv'
  BY <1>1, <1>2, <1>3, HostRests DEF Seen, Opening
<1>5. CASE pc' = "HELLO" /\ view' = EmptyView
  <2>1. ViewInv' /\ FrameInv'
    BY <1>1, <1>2, <1>5, NewPage
  <2> QED BY <1>4, <2>1 DEF ObservationInv
<1>6. CASE pc' = "IDLE" /\ UNCHANGED view /\ ~reopens
  <2>1. ~FollowsWork'
    BY <1>2, <1>3, <1>6 DEF FollowsWork
  <2>2. ViewInv'
    BY <1>1, <1>2, <1>6, <2>1, ViewRests
  <2>3. FrameInv'
    BY <1>6 DEF FrameInv
  <2> QED BY <1>4, <2>2, <2>3 DEF ObservationInv
<1> QED BY <1>2, <1>5, <1>6

-----------------------------------------------------------------------------
(* The theorems                                                             *)

(* Nothing has happened yet, and a new page shows nothing. *)
LEMMA InitObservation ==
    ASSUME Init
    PROVE  ObservationInv
<1>1. /\ log = 0 /\ offers = <<>> /\ control = <<>> /\ work = 0 /\ notify = FALSE /\ closed = FALSE
      /\ bus = [gen |-> 1, rev |-> 0, ring |-> <<>>] /\ att = [sub |-> 0, epoch |-> 0]
      /\ view = EmptyView /\ pc = "HELLO" /\ failures = 0 /\ reopens \in BOOLEAN
  BY DEF Init
<1>2. /\ {MaxLog, MaxOffers, MaxTotal, MaxControl, MaxWork, MaxFailures, MaxRing} \subseteq Nat
      /\ <<>> \in Seq(Nat) /\ <<>> \in Seq({"DELTA", "WORK", "SETTLED"})
      /\ <<>> \in Seq(Interactions \cup {"NONE"}) /\ Len(<<>>) = 0
  BY ObservationAssumption, EmptySeq
<1>3. BusInv
  BY <1>1, <1>2 DEF BusInv
<1>4. HostInv
  <2>1. att \in [sub : Nat, epoch : Nat] /\ att.sub = att.epoch /\ att.sub <= bus.gen
    BY <1>1
  <2>2. /\ log \in 0..MaxLog /\ work \in 0..MaxWork /\ failures \in 0..MaxFailures
        /\ Len(offers) <= MaxOffers /\ Len(control) <= MaxControl
    BY <1>1, <1>2
  <2>3. /\ offers \in Seq({"DELTA", "WORK", "SETTLED"}) /\ control \in Seq(Interactions \cup {"NONE"})
        /\ pc \in Seen \cup Opening /\ notify \in BOOLEAN /\ closed \in BOOLEAN /\ ~notify
    BY <1>1, <1>2 DEF Opening
  <2> QED BY <1>1, <2>1, <2>2, <2>3, Zenon DEF HostInv
<1>5. /\ view.entries = {} /\ view.seq = 0 /\ view.live = <<>> /\ view.gen = 0 /\ view.rev = 0
      /\ view.interaction = "NONE" /\ view.crev = 0 /\ view.work = 0
  BY <1>1 DEF EmptyView
<1>6. view \in Views
  BY <1>1, <1>2 DEF EmptyView, Views
<1>7. Placed(view.gen, view.rev, view.live)
  BY <1>1, <1>2, <1>5 DEF Placed, Contiguous
<1>8. Shows(view.crev, view.interaction)
  BY <1>1, <1>2, <1>5 DEF Shows
<1>9. ViewInv
  BY <1>1, <1>5, <1>6, <1>7, <1>8 DEF ViewInv
<1>10. FrameInv
  BY <1>1 DEF FrameInv
<1> QED BY <1>3, <1>4, <1>9, <1>10 DEF ObservationInv

(* Every step of the host, the gateway and the page preserves it. *)
LEMMA NextObservation ==
    ASSUME ObservationInv, [Next]_vars
    PROVE  ObservationInv'
<1>1. CASE Next
  <2>1. HostInv /\ BusInv
    BY DEF ObservationInv
  <2>2. CASE OfferDelta \/ OfferSettlement \/ OfferWork
    BY <2>1, <2>2, OfferMoves, HostKeepsPage
  <2>3. CASE Commit \/ ChangeWork \/ HostCloses \/ \E i \in Interactions \cup {"NONE"} : ChangeInteraction(i)
    BY <2>1, <2>3, OtherHostMoves, HostKeepsPage
  <2>4. CASE PageStep
    BY <2>4, HelloKeeps, OpenSnapshotKeeps, OpenControlKeeps, OpenKeeps, RequestKeeps, ReadBatchKeeps,
       AnswerGapKeeps, AnswerOverflowKeeps, AnswerKeeps, ApplyEventsKeeps, ApplyOverflowKeeps,
       ReadControlKeeps, AdoptKeeps, Zenon DEF PageStep
  <2>5. CASE Wait \/ ReadSnapshot \/ Fail
    BY <2>5, RequestKeeps, ReadSnapshotKeeps, FailKeeps
  <2> QED BY <1>1, <2>2, <2>3, <2>4, <2>5, Zenon DEF Next
<1>2. CASE UNCHANGED vars
  <2>1. /\ log' = log /\ offers' = offers /\ bus' = bus /\ control' = control /\ work' = work
        /\ notify' = notify /\ closed' = closed /\ att' = att
        /\ view' = view /\ pc' = pc /\ frame' = frame /\ failures' = failures /\ reopens' = reopens
    BY <1>2 DEF vars, hostVars, pageVars
  <2>2. BusInv'
    BY <2>1 DEF ObservationInv, BusInv
  <2>3. HostInv'
    BY <2>1 DEF ObservationInv, HostInv
  <2>4. HostMoves
    BY <2>1, <2>2, <2>3, HostFacts DEF ObservationInv, HostMoves, pageVars
  <2> QED BY <2>4, HostKeepsPage
<1> QED BY <1>1, <1>2

(* What the bus, the gateway and the page hold fits together. *)
THEOREM ObservationIsSound == Spec => []ObservationInv
<1>1. Init => ObservationInv
  BY InitObservation
<1>2. ObservationInv /\ [Next]_vars => ObservationInv'
  BY NextObservation
<1> QED BY <1>1, <1>2, PTL DEF Spec

(* A page misses no committed event, its live progress has no hole, and it  *)
(* shows the interaction of its cursor: across gaps, replaced generations,  *)
(* lost answers and reopenings.                                             *)
THEOREM PagesShowWhatTheHostTold == Spec => []PageInv
<1>1. ObservationInv => PageInv
  <2> SUFFICES ASSUME ObservationInv PROVE PageInv
    OBVIOUS
  <2>1. HostInv /\ BusInv /\ ViewInv
    BY DEF ObservationInv
  <2>2. Shows(view.crev, view.interaction) /\ view.crev \in 0..Len(control) /\ Len(control) \in Nat
    BY <2>1, HostFacts DEF ViewInv, Shows
  <2>3. TypeOK
    <3>1. att \in [sub : 0..bus.gen, epoch : 0..bus.gen]
      BY <2>1, HostFacts DEF HostInv
    <3>2. bus.gen \in Nat /\ bus.rev \in 0..Len(offers) /\ Len(bus.ring) <= MaxRing /\ Len(bus.ring) <= bus.rev
      BY <2>1, HostFacts DEF BusInv
    <3>3. view.entries \subseteq 1..log /\ view.seq <= log /\ view.crev <= Len(control) /\ view.work <= work
      BY <2>1, <2>2 DEF ViewInv
    <3> QED BY <2>1, <3>1, <3>2, <3>3 DEF TypeOK, HostInv
  <2>4. CommittedIsComplete
    BY <2>1 DEF ViewInv, CommittedIsComplete
  <2>5. LiveIsContiguous
    BY <2>1 DEF ViewInv, Placed, Contiguous, LiveIsContiguous
  <2>6. InteractionMatchesCursor
    BY <2>2 DEF Shows, InteractionMatchesCursor
  <2> QED BY <2>3, <2>4, <2>5, <2>6 DEF PageInv
<1> QED BY <1>1, ObservationIsSound, PTL

(* A page that shows old work has a notice ahead of its cursor, or will be  *)
(* told that it lost one.                                                   *)
THEOREM StaleWorkIsAlwaysNoticed == Spec => []StaleWorkIsNoticed
<1>1. ObservationInv => StaleWorkIsNoticed
  <2> SUFFICES ASSUME ObservationInv,
                      pc \in {"IDLE", "OBSERVING", "BATCHED", "ANSWERED"}, FollowsWork, view.work # work
               PROVE  \/ notify
                      \/ view.gen # bus.gen
                      \/ \E n \in (Len(offers) - (bus.rev - view.rev) + 1)..Len(offers) : offers[n] = "WORK"
    BY DEF StaleWorkIsNoticed
  <2>1. Learns(view.work, view.gen, view.rev)
    BY DEF ObservationInv, ViewInv
  <2> QED BY <2>1 DEF Learns, Pos
<1> QED BY <1>1, ObservationIsSound, PTL

=============================================================================
