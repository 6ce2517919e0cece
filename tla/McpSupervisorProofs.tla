------------------------ MODULE McpSupervisorProofs ------------------------
(***************************************************************************)
(* Theorems about McpSupervisor, for any servers, configurations, calls,   *)
(* previews and bounds: no physical connection is lost or closed under a   *)
(* call, and only leases of the present configuration admit a dispatch.    *)
(***************************************************************************)
EXTENDS McpSupervisor, TLAPS

-----------------------------------------------------------------------------
(* The inductive invariant                                                  *)

(* Past the capture: the listing is about one slot. *)
Captured == {"drain", "lane", "reserve", "host", "list"}

Unleased(s, g) == \A l \in leases : ~(l.s = s /\ l.g = g)

(* Nothing but its attempt knows this slot. *)
Unseen(s, g) ==
    /\ g \notin {srv[s].cur, srv[s].pend.g, srv[s].inst.g, refresh[s].g}
    /\ Unleased(s, g)
    /\ closer[<<s, g>>] = "none"

(* An attempt has a generation of its own, and its slot to itself. *)
Tasks ==
    /\ \A a, b \in attempts : a.s = b.s /\ a.g = b.g => a = b
    /\ \A a \in attempts :
          /\ a.g <= srv[a.s].gen
          /\ Unseen(a.s, a.g)
          /\ a.pc \in {"reserve", "import"} => slot[<<a.s, a.g>>].client = "none"
          /\ a.pc \notin {"reserve", "import"} =>
                slot[<<a.s, a.g>>].client = "open" /\ slot[<<a.s, a.g>>].conf = a.conf
          /\ a.pc \in {"close_terminal", "close_retryable"} => slot[<<a.s, a.g>>].fence = "CLOSED"
    /\ \A s \in Servers, g \in Gens :
          /\ slot[<<s, g>>].client = "none" => Unseen(s, g)
          /\ g > srv[s].gen => slot[<<s, g>>].client = "none"

(* A client that is not closed is registered, a closed one is fenced for good. *)
Clients ==
    \A s \in Servers, g \in Gens :
        /\ slot[<<s, g>>].client \in {"open", "stuck"} => <<s, g>> \in allSlots
        /\ slot[<<s, g>>].client \in {"closed", "stuck"} => slot[<<s, g>>].fence = "CLOSED"
        /\ slot[<<s, g>>].accepting => slot[<<s, g>>].fence = "OPEN"
        /\ closer[<<s, g>>] = "closing" => slot[<<s, g>>].fence = "CLOSED" /\ Unleased(s, g)
        /\ Closed /\ <<s, g>> \in allSlots => slot[<<s, g>>].fence = "CLOSED"

(* A lease keeps its slot; a fenced slot has moved on from all of its leases. *)
Tokens ==
    \A l \in leases :
        /\ <<l.s, l.g>> \in allSlots
        /\ ~Closed => slot[<<l.s, l.g>>].client = "open"
        /\ l.gen <= slot[<<l.s, l.g>>].dirty
        /\ slot[<<l.s, l.g>>].fence = "DIRTY_FENCED" => l.gen < slot[<<l.s, l.g>>].dirty

(* The pending and the installed candidate hold a lease each, the pending one *)
(* the newer, and the server's current slot is the slot of the newer one.     *)
Owned ==
    \A s \in Servers :
        /\ \A cand \in {srv[s].pend, srv[s].inst} : cand # None =>
              /\ CandidateLease(s, cand) \in leases
              /\ slot[<<s, cand.g>>].fence = "OPEN" => slot[<<s, cand.g>>].accepting
        /\ srv[s].pend # None =>
              /\ srv[s].cur = srv[s].pend.g
              /\ srv[s].inst.g = srv[s].pend.g => srv[s].inst.gen < srv[s].pend.gen
        /\ ~Closed /\ srv[s].pend = None => srv[s].cur \in {0, srv[s].inst.g}
        /\ Closed => srv[s].pend = None /\ srv[s].inst = None
        /\ 0 \notin srv[s].lost

(* A call is admitted under a lease of the borrowed runtime generation, a    *)
(* preview under one of its own.                                             *)
CallLease(c) ==
    [s |-> call[c].s, g |-> call[c].g, gen |-> call[c].gen, kind |-> "runtime", n |-> borrow]
Used ==
    /\ \A c \in Calls : call[c] # Idle =>
          call[c].st \in Permit /\ borrow # 0 /\ CallLease(c) \in leases
    /\ \A p \in Previews : preview[p] # Idle =>
          preview[p].st \in {"wait", "lane", "op"} /\ PreviewLease(p) \in leases

(* Once drained, a fenced slot has no call and no preview on it. *)
Quiet(s, g) ==
    /\ \A c \in Calls : ~(call[c].st \in Permit /\ call[c].s = s /\ call[c].g = g)
    /\ \A p \in Previews : ~(preview[p].st = "op" /\ preview[p].s = s /\ preview[p].g = g)
Relists ==
    \A s \in Servers : refresh[s].pc \in Captured =>
        /\ refresh[s].g \in Gens /\ refresh[s].conf \in Configs
        /\ refresh[s].fenced =>
              /\ slot[<<s, refresh[s].g>>].fence # "OPEN"
              /\ refresh[s].pc # "drain" => Quiet(s, refresh[s].g)

(* How far the close of the supervisor is. *)
Ends ==
    /\ Closed => \A s \in Servers : refresh[s] = NoRefresh
    /\ phase \in {"drain", "retired", "done"} =>
          attempts = {} /\ \A s \in Servers, g \in Gens : slot[<<s, g>>].client # "open"
    /\ phase \in {"retired", "done"} =>
          leases = {} /\ allSlots = {sl \in Slots : slot[sl].client = "stuck"}

McpInv ==
    /\ TypeOK /\ Tasks /\ Clients /\ Tokens /\ Owned /\ Used /\ Relists /\ Ends
    /\ OpenClientHasOwner /\ CurrentLeaseHasCurrentConfig /\ ReadyHasCatalog

-----------------------------------------------------------------------------
(* Facts about the parts of the state                                       *)

AttemptPcs ==
    {"reserve", "import", "open", "discover", "close_terminal", "close_retryable"}

(* The fields of the supervisor's rows. *)
LEMMA RowFields ==
    ASSUME TypeOK, NEW s \in Servers
    PROVE  /\ srv[s] \in Rows
           /\ srv[s].conf \in Configs \cup {NoConfig} /\ srv[s].gen \in Gens
           /\ srv[s].rgen \in Nat /\ srv[s].task \in 0..MaxGen /\ srv[s].cur \in 0..MaxGen
           /\ srv[s].pend \in Candidates /\ srv[s].inst \in Candidates
           /\ srv[s].retry \in BOOLEAN /\ srv[s].st \in ServerStates
           /\ srv[s].lost \subseteq Gens /\ srv[s].kept \subseteq Gens
  BY DEF TypeOK, Rows

(* A candidate is None, or names a generation and a configuration. *)
LEMMA CandidateFields ==
    ASSUME NEW c \in Candidates
    PROVE  /\ c.g \in 0..MaxGen /\ c.gen \in Nat /\ c.conf \in Configs \cup {NoConfig}
           /\ c # None => c.g \in Gens /\ c.conf \in Configs
           /\ c = None => c.g = 0 /\ c.gen = 0
  BY McpBounds DEF Candidates, None, Gens

(* The fields of a slot have the types of SlotStates. *)
LEMMA SlotFields ==
    ASSUME TypeOK, NEW s \in Servers, NEW g \in Gens
    PROVE  /\ slot[<<s, g>>] \in SlotStates
           /\ slot[<<s, g>>].fence \in {"OPEN", "DIRTY_FENCED", "CLOSED"}
           /\ slot[<<s, g>>].dirty \in Nat /\ slot[<<s, g>>].accepting \in BOOLEAN
           /\ slot[<<s, g>>].client \in {"none", "open", "closed", "stuck"}
           /\ slot[<<s, g>>].conf \in Configs \cup {NoConfig}
           /\ closer[<<s, g>>] \in {"none", "drain", "closing"}
  BY DEF TypeOK, SlotStates, Slots

(* The fields of an attempt have the types of Attempts. *)
LEMMA AttemptFields ==
    ASSUME TypeOK, NEW a \in attempts
    PROVE  /\ a \in Attempts
           /\ a.s \in Servers /\ a.g \in Gens /\ a.rg \in Nat /\ a.conf \in Configs
           /\ a.cancel \in BOOLEAN /\ a.pc \in AttemptPcs
  BY DEF TypeOK, Attempts, AttemptPcs

(* The fields of a lease have the types of Leases. *)
LEMMA LeaseFields ==
    ASSUME TypeOK, NEW l \in leases
    PROVE  /\ l \in Leases
           /\ l.s \in Servers /\ l.g \in Gens /\ l.gen \in Nat
           /\ l.kind \in {"candidate", "runtime", "preview"} /\ l.n \in Nat \cup Previews
  BY DEF TypeOK, Leases

(* The fields of a refresh have the types of Refreshes. *)
LEMMA RefreshFields ==
    ASSUME TypeOK, NEW s \in Servers
    PROVE  /\ refresh[s] \in Refreshes
           /\ refresh[s].pc \in {"none", "sleep"} \cup Captured
           /\ refresh[s].g \in 0..MaxGen /\ refresh[s].at \in 0..MaxGen
           /\ refresh[s].rg \in Nat /\ refresh[s].dirty \in Nat
           /\ refresh[s].conf \in Configs \cup {NoConfig} /\ refresh[s].fenced \in BOOLEAN
  BY DEF TypeOK, Refreshes, Captured

(* A call that is not idle names a slot. *)
LEMMA CallFields ==
    ASSUME TypeOK, NEW c \in Calls, call[c] # Idle
    PROVE  /\ call[c].st \in {"wait", "lane", "op"} \cup Permit
           /\ call[c].s \in Servers /\ call[c].g \in Gens /\ call[c].gen \in Nat
  BY DEF TypeOK, Uses

(* A preview that is not idle names a slot. *)
LEMMA PreviewFields ==
    ASSUME TypeOK, NEW p \in Previews, preview[p] # Idle
    PROVE  /\ preview[p].st \in {"wait", "lane", "op"} \cup Permit
           /\ preview[p].s \in Servers /\ preview[p].g \in Gens /\ preview[p].gen \in Nat
  BY DEF TypeOK, Uses

(* An idle call or preview is in state "idle". *)
LEMMA IdleFields == Idle.st = "idle"
  BY DEF Idle

(* No refresh, and one that only sleeps, name no slot. *)
LEMMA NoRefreshFields ==
    /\ NoRefresh.pc = "none" /\ NoRefresh.g = 0 /\ NoRefresh \in Refreshes
    /\ [NoRefresh EXCEPT !.pc = "sleep"] \in Refreshes
    /\ [NoRefresh EXCEPT !.pc = "sleep"].pc = "sleep"
    /\ [NoRefresh EXCEPT !.pc = "sleep"].g = 0
  <1>1. 0 \in 0..MaxGen /\ 0 \in Nat
    BY McpBounds
  <1>2. NoRefresh \in Refreshes
    BY <1>1 DEF NoRefresh, Refreshes
  <1>3. NoRefresh.pc = "none" /\ NoRefresh.g = 0
    BY DEF NoRefresh
  <1>4. [NoRefresh EXCEPT !.pc = "sleep"] \in Refreshes
    BY <1>2 DEF Refreshes
  <1>5. [NoRefresh EXCEPT !.pc = "sleep"].pc = "sleep" /\ [NoRefresh EXCEPT !.pc = "sleep"].g = 0
    BY <1>2, <1>3 DEF Refreshes
  <1> QED BY <1>2, <1>3, <1>4, <1>5

(* LeasesOn(sl) = {} says that the slot is unleased. *)
LEMMA LeasesOnSlot ==
    ASSUME NEW s, NEW g PROVE LeasesOn(<<s, g>>) = {} <=> Unleased(s, g)
  BY DEF LeasesOn, Unleased

(* What the lease of a candidate says. *)
LEMMA CandidateLeaseFields ==
    ASSUME NEW s, NEW c
    PROVE  LET l == CandidateLease(s, c) IN
             l.s = s /\ l.g = c.g /\ l.gen = c.gen /\ l.kind = "candidate" /\ l.n = 0
  BY DEF CandidateLease

(* The lease of a candidate is a lease. *)
LEMMA CandidateLeaseTypes ==
    ASSUME NEW s \in Servers, NEW c \in Candidates, c # None
    PROVE  CandidateLease(s, c) \in Leases
  BY CandidateFields DEF CandidateLease, Leases

(* The two candidates of a server are different leases. *)
LEMMA LeasesApart ==
    ASSUME TypeOK, Owned, NEW s \in Servers, NEW t \in Servers,
           srv[s].pend # None, srv[t].inst # None
    PROVE  CandidateLease(s, srv[s].pend) # CandidateLease(t, srv[t].inst)
  <1>1. srv[s].pend.gen \in Nat /\ srv[s].inst.gen \in Nat
    BY RowFields, CandidateFields
  <1>2. SUFFICES ASSUME CandidateLease(s, srv[s].pend) = CandidateLease(t, srv[t].inst)
                 PROVE  FALSE
    OBVIOUS
  <1>3. s = t /\ srv[s].pend.g = srv[s].inst.g /\ srv[s].pend.gen = srv[s].inst.gen
    BY <1>2, CandidateLeaseFields
  <1>4. srv[s].inst.gen < srv[s].pend.gen
    BY <1>3 DEF Owned
  <1> QED BY <1>1, <1>3, <1>4

(* The slots after a change of one of them. *)
LEMMA OneSlot ==
    ASSUME TypeOK, NEW s \in Servers, NEW g \in Gens, NEW x,
           slot' = [slot EXCEPT ![<<s, g>>] = x]
    PROVE  \A t \in Servers, h \in Gens :
              slot'[<<t, h>>] = IF t = s /\ h = g THEN x ELSE slot[<<t, h>>]
  BY DEF TypeOK, Slots

(* An EXCEPT on srv changes the row of one server only. *)
LEMMA OneRow ==
    ASSUME TypeOK, NEW s \in Servers, NEW x, srv' = [srv EXCEPT ![s] = x]
    PROVE  \A t \in Servers : srv'[t] = IF t = s THEN x ELSE srv[t]
  BY DEF TypeOK

(* An EXCEPT on refresh changes the record of one server only. *)
LEMMA OneRefresh ==
    ASSUME TypeOK, NEW s \in Servers, NEW x, refresh' = [refresh EXCEPT ![s] = x]
    PROVE  \A t \in Servers : refresh'[t] = IF t = s THEN x ELSE refresh[t]
  BY DEF TypeOK

(* What the operations of a slot do to its fields. *)
LEMMA SlotOperations ==
    ASSUME NEW x \in SlotStates
    PROVE  /\ MarkDirty(x) \in SlotStates /\ BeginClose(x) \in SlotStates
           /\ BeginRetire(x) \in SlotStates /\ CompleteRefresh(x) \in SlotStates
           /\ MarkDirty(x).client = x.client /\ MarkDirty(x).conf = x.conf
           /\ MarkDirty(x).accepting => x.accepting /\ x.fence = "CLOSED"
           /\ MarkDirty(x).fence = (IF x.fence = "CLOSED" THEN "CLOSED" ELSE "DIRTY_FENCED")
           /\ MarkDirty(x).dirty = (IF x.fence = "CLOSED" THEN x.dirty ELSE x.dirty + 1)
           /\ BeginClose(x).client = x.client /\ BeginClose(x).conf = x.conf
           /\ BeginClose(x).dirty = x.dirty /\ BeginClose(x).fence = "CLOSED"
           /\ ~BeginClose(x).accepting
           /\ BeginRetire(x).client = x.client /\ BeginRetire(x).conf = x.conf
           /\ BeginRetire(x).dirty = x.dirty /\ BeginRetire(x).fence = x.fence
           /\ ~BeginRetire(x).accepting
           /\ CompleteRefresh(x).client = x.client /\ CompleteRefresh(x).conf = x.conf
           /\ CompleteRefresh(x).dirty = x.dirty /\ CompleteRefresh(x).fence = "OPEN"
           /\ CompleteRefresh(x).accepting
  <1>1. /\ BeginClose(x) \in SlotStates
        /\ BeginClose(x).client = x.client /\ BeginClose(x).conf = x.conf
        /\ BeginClose(x).dirty = x.dirty /\ BeginClose(x).fence = "CLOSED"
        /\ ~BeginClose(x).accepting
    BY DEF BeginClose, SlotStates
  <1>2. /\ BeginRetire(x) \in SlotStates
        /\ BeginRetire(x).client = x.client /\ BeginRetire(x).conf = x.conf
        /\ BeginRetire(x).dirty = x.dirty /\ BeginRetire(x).fence = x.fence
        /\ ~BeginRetire(x).accepting
    BY DEF BeginRetire, SlotStates
  <1>3. /\ CompleteRefresh(x) \in SlotStates
        /\ CompleteRefresh(x).client = x.client /\ CompleteRefresh(x).conf = x.conf
        /\ CompleteRefresh(x).dirty = x.dirty /\ CompleteRefresh(x).fence = "OPEN"
        /\ CompleteRefresh(x).accepting
    BY DEF CompleteRefresh, SlotStates
  <1>4. CASE x.fence = "CLOSED"
    BY <1>1, <1>2, <1>3, <1>4 DEF MarkDirty
  <1>5. CASE x.fence # "CLOSED"
    <2> DEFINE y == [x EXCEPT !.dirty = @ + 1, !.fence = "DIRTY_FENCED", !.accepting = FALSE]
    <2>1. /\ y.client = x.client /\ y.conf = x.conf /\ y.accepting = FALSE
          /\ y.fence = "DIRTY_FENCED" /\ y.dirty = x.dirty + 1
      BY DEF SlotStates
    <2>3. x.dirty + 1 \in Nat
      BY DEF SlotStates
    <2>4. y \in SlotStates
      BY <2>3 DEF SlotStates
    <2>2. MarkDirty(x) = y
      BY <1>5 DEF MarkDirty
    <2> HIDE DEF y
    <2> QED BY <1>1, <1>2, <1>3, <1>5, <2>1, <2>2, <2>4
  <1> QED BY <1>4, <1>5

-----------------------------------------------------------------------------
(* Steps that only fence slots and give leases back                         *)

(* y is the slot x after any of mark_dirty, begin_retire and begin_close. *)
FencedTo(x, y) ==
    /\ y.client = x.client /\ y.conf = x.conf
    /\ y.dirty >= x.dirty
    /\ y.fence = "OPEN" => x.fence = "OPEN" /\ y.dirty = x.dirty
    /\ y.fence = "DIRTY_FENCED" => x.fence = "DIRTY_FENCED" \/ y.dirty > x.dirty
    /\ x.fence = "CLOSED" => y.fence = "CLOSED"
    /\ y.accepting => x.accepting /\ y.fence = "OPEN"

SlotsFenced == \A s \in Servers, g \in Gens : FencedTo(slot[<<s, g>>], slot'[<<s, g>>])

(* No slot becomes another one. *)
SlotsStand ==
    \A s \in Servers, g \in Gens :
        /\ slot'[<<s, g>>].client = slot[<<s, g>>].client
        /\ slot'[<<s, g>>].conf = slot[<<s, g>>].conf
        /\ slot[<<s, g>>].fence = "CLOSED" => slot'[<<s, g>>].fence = "CLOSED"

NothingSeen == \A s \in Servers, g \in Gens : Unseen(s, g) => Unseen(s, g)'

(* A lease that is issued is a copy of one that is held. *)
Copies ==
    \A l \in leases' : \E k \in leases : k.s = l.s /\ k.g = l.g /\ k.gen = l.gen

(* Giving back leases makes no lease with a new slot or generation. *)
LEMMA FewerLeases == ASSUME leases' \subseteq leases PROVE Copies
  BY DEF Copies

(* A slot that is only fenced further keeps its client and its generation. *)
LEMMA FencedStand == SlotsFenced => SlotsStand
  BY DEF SlotsFenced, SlotsStand, FencedTo

(* Every slot operation but complete_refresh only fences further. *)
LEMMA FencedToSelf ==
    ASSUME NEW x \in SlotStates, x.accepting => x.fence = "OPEN"
    PROVE  /\ FencedTo(x, x) /\ FencedTo(x, MarkDirty(x))
           /\ FencedTo(x, BeginClose(x)) /\ FencedTo(x, BeginRetire(x))
  <1>1. x.dirty \in Nat
    BY DEF SlotStates
  <1>2. FencedTo(x, x)
    BY <1>1 DEF FencedTo
  <1>3. FencedTo(x, BeginClose(x))
    BY <1>1, SlotOperations DEF FencedTo
  <1>4. FencedTo(x, MarkDirty(x))
    BY <1>1, SlotOperations DEF FencedTo
  <1>5. FencedTo(x, BeginRetire(x))
    BY <1>1, SlotOperations DEF FencedTo
  <1> QED BY <1>2, <1>3, <1>4, <1>5

(* Slots that do not change are fenced no less. *)
LEMMA SlotsStay ==
    ASSUME TypeOK, Clients, UNCHANGED slot
    PROVE  SlotsFenced
  BY SlotFields, FencedToSelf DEF SlotsFenced, Clients

(* mark_dirty of one slot only fences, and keeps every client. *)
LEMMA OneMarkedDirty ==
    ASSUME TypeOK, Clients, NEW s \in Servers, NEW g \in Gens,
           slot' = [slot EXCEPT ![<<s, g>>] = MarkDirty(@)]
    PROVE  /\ slot' \in [Slots -> SlotStates]
           /\ SlotsFenced
           /\ slot'[<<s, g>>].fence # "OPEN"
           /\ \A t \in Servers, h \in Gens : t # s \/ h # g => slot'[<<t, h>>] = slot[<<t, h>>]
  <1>1. \A t \in Servers, h \in Gens :
           slot'[<<t, h>>] = IF t = s /\ h = g THEN MarkDirty(slot[<<t, h>>]) ELSE slot[<<t, h>>]
    BY DEF TypeOK, Slots
  <1>2. MarkDirty(slot[<<s, g>>]) \in SlotStates /\ slot'[<<s, g>>].fence # "OPEN"
    BY <1>1, SlotFields, SlotOperations
  <1>3. slot' \in [Slots -> SlotStates]
    BY <1>2 DEF TypeOK, Slots
  <1>4. ASSUME NEW t \in Servers, NEW h \in Gens
        PROVE  FencedTo(slot[<<t, h>>], slot'[<<t, h>>])
    <2>1. /\ slot[<<t, h>>] \in SlotStates
          /\ slot[<<t, h>>].accepting => slot[<<t, h>>].fence = "OPEN"
      BY SlotFields DEF Clients
    <2> QED BY <1>1, <2>1, FencedToSelf
  <1>5. SlotsFenced
    BY <1>4 DEF SlotsFenced
  <1> QED BY <1>1, <1>2, <1>3, <1>5

(* begin_close of some slots only fences, and keeps every client. *)
LEMMA SomeClosed ==
    ASSUME TypeOK, Clients, NEW some,
           slot' = [sl \in Slots |-> IF sl \in some THEN BeginClose(slot[sl]) ELSE slot[sl]]
    PROVE  /\ slot' \in [Slots -> SlotStates]
           /\ SlotsFenced
           /\ \A t \in Servers, h \in Gens :
                 slot'[<<t, h>>] = IF <<t, h>> \in some THEN BeginClose(slot[<<t, h>>])
                                   ELSE slot[<<t, h>>]
  <1>1. \A t \in Servers, h \in Gens :
           slot'[<<t, h>>] = IF <<t, h>> \in some THEN BeginClose(slot[<<t, h>>])
                             ELSE slot[<<t, h>>]
    BY DEF Slots
  <1>2. \A sl \in Slots : slot[sl] \in SlotStates
    BY DEF TypeOK
  <1>3. slot' \in [Slots -> SlotStates]
    BY <1>2, SlotOperations
  <1>4. ASSUME NEW t \in Servers, NEW h \in Gens
        PROVE  FencedTo(slot[<<t, h>>], slot'[<<t, h>>])
    <2>1. /\ slot[<<t, h>>] \in SlotStates
          /\ slot[<<t, h>>].accepting => slot[<<t, h>>].fence = "OPEN"
      BY SlotFields DEF Clients
    <2> QED BY <1>1, <2>1, FencedToSelf
  <1>5. SlotsFenced
    BY <1>4 DEF SlotsFenced
  <1> QED BY <1>1, <1>3, <1>5

(* b is what became of the attempt a, or an attempt that starts. *)
Follows(a, b) ==
    /\ b.s = a.s /\ b.g = a.g /\ b.conf = a.conf
    /\ b.pc \in {"reserve", "import"} <=> a.pc \in {"reserve", "import"}
    /\ b.pc \in {"close_terminal", "close_retryable"} =>
          \/ a.pc \in {"close_terminal", "close_retryable"}
          \/ slot'[<<a.s, a.g>>].fence = "CLOSED"
Starts(b) ==
    /\ b.s \in Servers /\ b.g \in Gens /\ b.pc = "reserve"
    /\ b.g > srv[b.s].gen /\ b.g <= srv'[b.s].gen
AttemptsFollow ==
    /\ \A b \in attempts' : Starts(b) \/ \E a \in attempts : Follows(a, b)
    /\ \A b, c \in attempts' : b.s = c.s /\ b.g = c.g => b = c

(* Attempts that continue, on slots that stand and that nobody sees, keep Tasks. *)
LEMMA TasksFollow ==
    ASSUME TypeOK, Tasks, SlotsStand, NothingSeen, AttemptsFollow,
           \A s \in Servers : srv'[s].gen \in Gens /\ srv'[s].gen >= srv[s].gen
    PROVE  Tasks'
  <1>1. \A a, b \in attempts' : a.s = b.s /\ a.g = b.g => a = b
    BY DEF AttemptsFollow
  <1>2. ASSUME NEW b \in attempts'
        PROVE  /\ b.g <= srv'[b.s].gen
               /\ Unseen(b.s, b.g)'
               /\ b.pc \in {"reserve", "import"} => slot'[<<b.s, b.g>>].client = "none"
               /\ b.pc \notin {"reserve", "import"} =>
                     slot'[<<b.s, b.g>>].client = "open" /\ slot'[<<b.s, b.g>>].conf = b.conf
               /\ b.pc \in {"close_terminal", "close_retryable"} =>
                     slot'[<<b.s, b.g>>].fence = "CLOSED"
    <2>1. CASE Starts(b)
      <3>1. slot[<<b.s, b.g>>].client = "none" /\ Unseen(b.s, b.g)
        BY <2>1 DEF Starts, Tasks
      <3> QED BY <2>1, <3>1 DEF Starts, NothingSeen, SlotsStand
    <2>2. ASSUME NEW a \in attempts, Follows(a, b) PROVE <1>2!2
      <3>1. /\ a.s \in Servers /\ a.g \in Gens /\ b.s = a.s /\ b.g = a.g /\ b.conf = a.conf
        BY <2>2, AttemptFields DEF Follows
      <3>2. b.g <= srv'[b.s].gen
        <4>1. a.g <= srv[a.s].gen /\ srv'[a.s].gen >= srv[a.s].gen /\ srv'[a.s].gen \in Gens
          BY <3>1 DEF Tasks
        <4>2. srv[a.s].gen \in Gens
          BY <3>1, RowFields
        <4> QED BY <3>1, <4>1, <4>2, McpBounds DEF Gens
      <3>3. Unseen(a.s, a.g)'
        BY <3>1 DEF Tasks, NothingSeen
      <3>4. /\ a.pc \in {"reserve", "import"} => slot'[<<a.s, a.g>>].client = "none"
            /\ a.pc \notin {"reserve", "import"} =>
                  slot'[<<a.s, a.g>>].client = "open" /\ slot'[<<a.s, a.g>>].conf = a.conf
            /\ a.pc \in {"close_terminal", "close_retryable"} =>
                  slot'[<<a.s, a.g>>].fence = "CLOSED"
        BY <3>1 DEF Tasks, SlotsStand
      <3> QED BY <2>2, <3>1, <3>2, <3>3, <3>4 DEF Follows
    <2> QED BY <2>1, <2>2 DEF AttemptsFollow
  <1>3. ASSUME NEW s \in Servers, NEW g \in Gens
        PROVE  /\ slot'[<<s, g>>].client = "none" => Unseen(s, g)'
               /\ g > srv'[s].gen => slot'[<<s, g>>].client = "none"
    <2>1. g > srv'[s].gen => g > srv[s].gen
      BY RowFields DEF Gens
    <2> QED BY <2>1 DEF Tasks, NothingSeen, SlotsStand
  <1> QED BY <1>1, <1>2, <1>3 DEF Tasks

(* Attempts that stay or end continue as they are. *)
LEMMA AttemptsStay == ASSUME Tasks, attempts' \subseteq attempts PROVE AttemptsFollow
  BY DEF Tasks, AttemptsFollow, Follows

(* Tasks holds on when no attempt changes. *)
LEMMA TasksKeep ==
    ASSUME TypeOK, Tasks, SlotsStand, NothingSeen, UNCHANGED attempts,
           \A s \in Servers : srv'[s].gen \in Gens /\ srv'[s].gen >= srv[s].gen
    PROVE  Tasks'
  BY AttemptsStay, TasksFollow

(* Clients holds on when slots are only fenced further. *)
LEMMA ClientsKeep ==
    ASSUME TypeOK, Clients, SlotsFenced, Copies, UNCHANGED allSlots,
           Closed' => Closed,
           \A s \in Servers, g \in Gens :
              closer'[<<s, g>>] = "closing" => closer[<<s, g>>] = "closing"
    PROVE  Clients'
  <1>1. SUFFICES ASSUME NEW s \in Servers, NEW g \in Gens
                 PROVE  /\ slot'[<<s, g>>].client \in {"open", "stuck"} => <<s, g>> \in allSlots
                        /\ slot'[<<s, g>>].client \in {"closed", "stuck"} =>
                              slot'[<<s, g>>].fence = "CLOSED"
                        /\ slot'[<<s, g>>].accepting => slot'[<<s, g>>].fence = "OPEN"
                        /\ closer'[<<s, g>>] = "closing" =>
                              slot'[<<s, g>>].fence = "CLOSED" /\ Unleased(s, g)'
                        /\ Closed' /\ <<s, g>> \in allSlots => slot'[<<s, g>>].fence = "CLOSED"
    BY DEF Clients
  <1>2. FencedTo(slot[<<s, g>>], slot'[<<s, g>>])
    BY DEF SlotsFenced
  <1>3. Unleased(s, g) => Unleased(s, g)'
    BY DEF Unleased, Copies
  <1> QED BY <1>2, <1>3 DEF Clients, FencedTo

(* Tokens holds on when slots are only fenced further and no lease is new. *)
LEMMA TokensKeep ==
    ASSUME TypeOK, Tokens, SlotsFenced, Copies, UNCHANGED allSlots,
           Closed => Closed', slot' \in [Slots -> SlotStates]
    PROVE  Tokens'
  <1>1. SUFFICES ASSUME NEW l \in leases'
                 PROVE  /\ <<l.s, l.g>> \in allSlots
                        /\ ~Closed' => slot'[<<l.s, l.g>>].client = "open"
                        /\ l.gen <= slot'[<<l.s, l.g>>].dirty
                        /\ slot'[<<l.s, l.g>>].fence = "DIRTY_FENCED" =>
                              l.gen < slot'[<<l.s, l.g>>].dirty
    BY DEF Tokens
  <1>2. PICK k \in leases : k.s = l.s /\ k.g = l.g /\ k.gen = l.gen
    BY <1>1 DEF Copies
  <1>5. k.s \in Servers /\ k.g \in Gens /\ k.gen \in Nat
    BY LeaseFields
  <1>3. slot[<<l.s, l.g>>].dirty \in Nat /\ slot'[<<l.s, l.g>>].dirty \in Nat
    BY <1>2, <1>5, SlotFields DEF Slots, SlotStates
  <1>4. FencedTo(slot[<<l.s, l.g>>], slot'[<<l.s, l.g>>])
    BY <1>2, <1>5 DEF SlotsFenced
  <1> QED BY <1>2, <1>3, <1>4, <1>5 DEF Tokens, FencedTo

(* No lease becomes current by a fence, so its configuration stays right. *)
LEMMA CurrentKeep ==
    ASSUME TypeOK, CurrentLeaseHasCurrentConfig, SlotsFenced, Copies,
           \A s \in Servers : srv'[s].conf = srv[s].conf /\ srv[s].kept \subseteq srv'[s].kept
    PROVE  CurrentLeaseHasCurrentConfig'
  <1>1. SUFFICES ASSUME NEW l \in leases', Current(l.s, l)', l.g \notin srv'[l.s].kept
                 PROVE  slot'[<<l.s, l.g>>].conf = srv'[l.s].conf
    BY DEF CurrentLeaseHasCurrentConfig
  <1>2. PICK k \in leases : k.s = l.s /\ k.g = l.g /\ k.gen = l.gen
    BY <1>1 DEF Copies
  <1>5. k.s \in Servers /\ k.g \in Gens
    BY LeaseFields
  <1>3. FencedTo(slot[<<k.s, k.g>>], slot'[<<k.s, k.g>>])
    BY <1>5 DEF SlotsFenced
  <1>4. Current(k.s, k)
    BY <1>1, <1>2, <1>3 DEF Current, FencedTo
  <1> QED BY <1>1, <1>2, <1>3, <1>4, <1>5 DEF CurrentLeaseHasCurrentConfig, FencedTo

(* Whoever holds a permit or a preview keeps the lease of it. *)
LEMMA UsedKeep ==
    ASSUME TypeOK, Used, UNCHANGED <<borrow, preview>>,
           \A l \in leases : l.kind # "candidate" => l \in leases',
           \A c \in Calls : call'[c] \in {Idle, call[c]}
    PROVE  Used'
  <1>1. ASSUME NEW c \in Calls, call'[c] # Idle
        PROVE  call'[c].st \in Permit /\ borrow' # 0 /\ CallLease(c)' \in leases'
    <2>1. call'[c] = call[c] /\ call[c] # Idle
      BY <1>1
    <2>2. call[c].st \in Permit /\ borrow # 0 /\ CallLease(c) \in leases
      BY <2>1 DEF Used
    <2>3. CallLease(c).kind = "runtime"
      BY DEF CallLease
    <2>4. CallLease(c)' = CallLease(c)
      BY <2>1 DEF CallLease
    <2> QED BY <2>1, <2>2, <2>3, <2>4
  <1>2. ASSUME NEW p \in Previews, preview'[p] # Idle
        PROVE  preview'[p].st \in {"wait", "lane", "op"} /\ PreviewLease(p)' \in leases'
    <2>1. preview[p].st \in {"wait", "lane", "op"} /\ PreviewLease(p) \in leases
      BY <1>2 DEF Used
    <2>2. PreviewLease(p).kind = "preview" /\ PreviewLease(p)' = PreviewLease(p)
      BY DEF PreviewLease
    <2> QED BY <2>1, <2>2
  <1> QED BY <1>1, <1>2 DEF Used

(* A listing stays alone on its slot when no call and no preview begins. *)
LEMMA RelistsKeep ==
    ASSUME TypeOK, Relists, SlotsFenced, UNCHANGED preview,
           \A c \in Calls : call'[c] \in {Idle, call[c]},
           \A s \in Servers : refresh'[s].pc \in Captured => refresh'[s] = refresh[s]
    PROVE  Relists'
  <1>1. \A s \in Servers, g \in Gens : Quiet(s, g) => Quiet(s, g)'
    BY IdleFields DEF Quiet, Permit
  <1>2. \A s \in Servers, g \in Gens : slot'[<<s, g>>].fence = "OPEN" => slot[<<s, g>>].fence = "OPEN"
    BY DEF SlotsFenced, FencedTo
  <1> QED BY <1>1, <1>2 DEF Relists

(* The progress of a close holds on when nothing reopens. *)
LEMMA EndsKeep ==
    ASSUME TypeOK, Ends, SlotsFenced, Copies, Closed /\ attempts = {} => attempts' = {},
           UNCHANGED <<allSlots, phase>>,
           \A s \in Servers : Closed => refresh'[s] = refresh[s]
    PROVE  Ends'
  <1>1. \A s \in Servers, g \in Gens : slot'[<<s, g>>].client = slot[<<s, g>>].client
    BY DEF SlotsFenced, FencedTo
  <1>2. \A sl \in Slots : slot'[sl].client = slot[sl].client
    BY <1>1 DEF Slots
  <1>3. Closed' = Closed
    BY DEF Closed
  <1>4. {sl \in Slots : slot'[sl].client = "stuck"} = {sl \in Slots : slot[sl].client = "stuck"}
    BY <1>2
  <1>5. phase \in {"retired", "done"} => leases' = {}
    BY DEF Ends, Copies
  <1>6. phase \in {"drain", "retired", "done"} => attempts' = {}
    BY DEF Ends, Closed
  <1> QED BY <1>1, <1>3, <1>4, <1>5, <1>6 DEF Ends

-----------------------------------------------------------------------------
(* The report of a failure                                                  *)

(* What a row keeps through everything but a reload. *)
RowKeeps(old, new) ==
    /\ new.conf = old.conf /\ new.kept = old.kept /\ new.lost = old.lost
    /\ new.gen >= old.gen

(* Each candidate of the row of s stays, or its slot g failed; the current  *)
(* slot is chosen among those that are left.                                *)
Withdraws(old, new, g) ==
    /\ new.inst = IF old.inst.g = g THEN None ELSE old.inst
    /\ new.pend = IF old.pend.g = g THEN None ELSE old.pend
    /\ new.cur = IF old.cur # g THEN old.cur
                 ELSE IF new.inst # None THEN new.inst.g ELSE new.pend.g
    /\ new.st = "READY" => new.pend # None \/ new.inst # None

(* What _report_slot_failure does to the row and the leases of its server. *)
LEMMA ReportEffects ==
    ASSUME McpInv, NEW s \in Servers, NEW g \in Gens, NEW retryable \in BOOLEAN, NEW given,
           ReportFailure(s, g, retryable, given)
    PROVE  /\ slot' = [slot EXCEPT ![<<s, g>>] = MarkDirty(@)]
           /\ \/ /\ Closed \/ g \notin {srv[s].cur, srv[s].inst.g, srv[s].pend.g}
                 /\ leases' = leases \ given
                 /\ UNCHANGED <<srv, closer, rebuild>>
              \/ /\ ~Closed /\ g \in {srv[s].cur, srv[s].inst.g, srv[s].pend.g}
                 /\ srv' \in [Servers -> Rows] /\ rebuild' \in BOOLEAN
                 /\ RowKeeps(srv[s], srv'[s]) /\ Withdraws(srv[s], srv'[s], g)
                 /\ \A t \in Servers : t # s => srv'[t] = srv[t]
                 /\ leases' = leases \ (given
                        \cup (IF srv[s].inst.g = g THEN {CandidateLease(s, srv[s].inst)} ELSE {})
                        \cup (IF srv[s].pend.g = g THEN {CandidateLease(s, srv[s].pend)} ELSE {}))
                 /\ closer' = StartClosers({<<s, g>>})
  <1> DEFINE old == srv[s]
             inst == IF old.inst # None /\ old.inst.g = g THEN None ELSE old.inst
             pend == IF old.pend # None /\ old.pend.g = g THEN None ELSE old.pend
             cur == IF old.cur # g THEN old.cur
                    ELSE IF inst # None THEN inst.g ELSE pend.g
             healthy == pend # None \/ (inst # None /\ Current(s, inst))
             row == [old EXCEPT !.inst = inst, !.pend = pend, !.cur = cur,
                       !.st = IF healthy THEN "READY"
                              ELSE IF retryable THEN "FAILED_RETRYABLE" ELSE "FAILED_TERMINAL",
                       !.retry = @ \/ retryable]
             concerned == g \in {old.cur, old.inst.g, old.pend.g}
  <1>1. /\ slot' = [slot EXCEPT ![<<s, g>>] = MarkDirty(@)]
        /\ IF Closed \/ ~concerned THEN leases' = leases \ given /\ UNCHANGED <<srv, closer, rebuild>>
           ELSE /\ srv' = [srv EXCEPT ![s] = row]
                /\ leases' = leases \ (given \cup (IF inst = None THEN OwnedBy(s, old.inst) ELSE {})
                                            \cup (IF pend = None THEN OwnedBy(s, old.pend) ELSE {}))
                /\ closer' = StartClosers({<<s, g>>})
                /\ rebuild' = (Rebuilt(old, row) \/ inst # old.inst)
    BY DEF ReportFailure
  <1>2. TypeOK
    BY DEF McpInv
  <1>3. /\ old \in Rows /\ old.inst \in Candidates /\ old.pend \in Candidates
        /\ old.cur \in 0..MaxGen
    BY <1>2, RowFields
  <1>4. /\ old.inst # None <=> old.inst.g # 0
        /\ old.pend # None <=> old.pend.g # 0
        /\ g # 0
    BY <1>3, CandidateFields DEF Gens
  <1>5. /\ inst = (IF old.inst.g = g THEN None ELSE old.inst)
        /\ pend = (IF old.pend.g = g THEN None ELSE old.pend)
    BY <1>4
  <1>6. inst \in Candidates /\ pend \in Candidates
    BY <1>3, <1>5 DEF Candidates
  <1>7. cur \in 0..MaxGen
    BY <1>3, <1>6, CandidateFields
  <1> HIDE DEF inst, pend, cur
  <1>8. CASE Closed \/ ~concerned
    BY <1>1, <1>8
  <1>9. CASE ~(Closed \/ ~concerned)
    <2>1. /\ row.inst = inst /\ row.pend = pend /\ row.cur = cur
          /\ row.conf = old.conf /\ row.kept = old.kept /\ row.lost = old.lost /\ row.gen = old.gen
          /\ row.st \in {"READY", "FAILED_RETRYABLE", "FAILED_TERMINAL"}
          /\ row.st = "READY" => healthy
      BY <1>3 DEF Rows
    <2>2. (IF healthy THEN "READY" ELSE IF retryable THEN "FAILED_RETRYABLE" ELSE "FAILED_TERMINAL")
             \in ServerStates
      BY DEF ServerStates
    <2>3. row \in Rows
      <3>1. (old.retry \/ retryable) \in BOOLEAN
        OBVIOUS
      <3> QED BY <1>3, <1>6, <1>7, <2>2, <3>1 DEF Rows
    <2> HIDE DEF row
    <2>4. srv' \in [Servers -> Rows] /\ srv'[s] = row /\ \A t \in Servers : t # s => srv'[t] = srv[t]
      BY <1>1, <1>2, <1>9, <2>3 DEF TypeOK
    <2>5. RowKeeps(srv[s], srv'[s])
      BY <1>2, <2>1, <2>4, RowFields DEF RowKeeps, Gens
    <2>6. Withdraws(srv[s], srv'[s], g)
      BY <1>5, <2>1, <2>4 DEF Withdraws, cur
    <2>7. rebuild' \in BOOLEAN
      BY <1>1, <1>9
    <2>8. leases' = leases \ (given
                        \cup (IF old.inst.g = g THEN {CandidateLease(s, old.inst)} ELSE {})
                        \cup (IF old.pend.g = g THEN {CandidateLease(s, old.pend)} ELSE {}))
      <3>1. (IF inst = None THEN OwnedBy(s, old.inst) ELSE {}) =
               (IF old.inst.g = g THEN {CandidateLease(s, old.inst)} ELSE {})
        BY <1>4, <1>5 DEF OwnedBy
      <3>2. (IF pend = None THEN OwnedBy(s, old.pend) ELSE {}) =
               (IF old.pend.g = g THEN {CandidateLease(s, old.pend)} ELSE {})
        BY <1>4, <1>5 DEF OwnedBy
      <3> QED BY <1>1, <1>9, <3>1, <3>2
    <2> QED BY <1>1, <1>9, <2>4, <2>5, <2>6, <2>7, <2>8
  <1> QED BY <1>8, <1>9

(* A reported failure keeps every part of the invariant but the two about   *)
(* the caller, which gives back the lease it was admitted with.             *)
LEMMA ReportKeeps ==
    ASSUME McpInv, NEW s \in Servers, NEW g \in Gens, NEW retryable \in BOOLEAN, NEW given,
           ReportFailure(s, g, retryable, given),
           \A l \in given : l.kind # "candidate",
           UNCHANGED <<attempts, allSlots, phase>>,
           \A t \in Servers : refresh'[t] \in {refresh[t], NoRefresh}
    PROVE  /\ srv' \in [Servers -> Rows] /\ slot' \in [Slots -> SlotStates]
           /\ leases' \subseteq leases /\ closer' \in [Slots -> {"none", "drain", "closing"}]
           /\ rebuild' \in BOOLEAN
           /\ \A l \in leases : l.kind # "candidate" /\ l \notin given => l \in leases'
           /\ SlotsFenced
           /\ Tasks' /\ Clients' /\ Tokens' /\ Owned' /\ Ends'
           /\ OpenClientHasOwner' /\ CurrentLeaseHasCurrentConfig' /\ ReadyHasCatalog'
  <1> USE DEF McpInv
  <1> DEFINE concerned == g \in {srv[s].cur, srv[s].inst.g, srv[s].pend.g}
  <1>1. /\ slot' = [slot EXCEPT ![<<s, g>>] = MarkDirty(@)]
        /\ \/ /\ Closed \/ ~concerned
              /\ leases' = leases \ given
              /\ UNCHANGED <<srv, closer, rebuild>>
           \/ /\ ~Closed /\ concerned
              /\ srv' \in [Servers -> Rows] /\ rebuild' \in BOOLEAN
              /\ RowKeeps(srv[s], srv'[s]) /\ Withdraws(srv[s], srv'[s], g)
              /\ \A t \in Servers : t # s => srv'[t] = srv[t]
              /\ leases' = leases \ (given
                     \cup (IF srv[s].inst.g = g THEN {CandidateLease(s, srv[s].inst)} ELSE {})
                     \cup (IF srv[s].pend.g = g THEN {CandidateLease(s, srv[s].pend)} ELSE {}))
              /\ closer' = StartClosers({<<s, g>>})
    BY ReportEffects
  <1>2. /\ slot' \in [Slots -> SlotStates] /\ SlotsFenced /\ slot'[<<s, g>>].fence # "OPEN"
        /\ \A t \in Servers, h \in Gens : t # s \/ h # g => slot'[<<t, h>>] = slot[<<t, h>>]
    BY <1>1, OneMarkedDirty
  <1>3. leases' \subseteq leases
    BY <1>1
  <1>4. \A l \in leases : l.kind # "candidate" /\ l \notin given => l \in leases'
    BY <1>1, CandidateLeaseFields
  <1>5. /\ closer' \in [Slots -> {"none", "drain", "closing"}]
        /\ \A t \in Servers, h \in Gens :
              /\ closer[<<t, h>>] # "none" => closer'[<<t, h>>] = closer[<<t, h>>]
              /\ closer'[<<t, h>>] = "closing" => closer[<<t, h>>] = "closing"
              /\ closer'[<<t, h>>] # "none" =>
                    closer[<<t, h>>] # "none" \/ (t = s /\ h = g /\ concerned)
              /\ ~Closed /\ concerned => closer'[<<s, g>>] # "none"
    <2>1. CASE UNCHANGED closer /\ (Closed \/ ~concerned)
      BY <2>1 DEF TypeOK
    <2>2. CASE closer' = StartClosers({<<s, g>>}) /\ concerned
      BY <2>2 DEF StartClosers, TypeOK, Slots
    <2> QED BY <1>1, <2>1, <2>2
  <1>6. /\ srv' \in [Servers -> Rows] /\ rebuild' \in BOOLEAN
        /\ \A t \in Servers : RowKeeps(srv[t], srv'[t])
    BY <1>1, RowFields DEF TypeOK, RowKeeps, Gens
  <1>7. \A t \in Servers :
           /\ srv'[t].inst \in {None, srv[t].inst} /\ srv'[t].pend \in {None, srv[t].pend}
           /\ srv'[t].cur \in {0, srv[t].cur, srv[t].inst.g, srv[t].pend.g}
    BY <1>1 DEF Withdraws, None
  <1>8. \A t \in Servers : refresh'[t].g \in {0, refresh[t].g}
    BY NoRefreshFields
  <1>9. NothingSeen
    <2>1. SUFFICES ASSUME NEW t \in Servers, NEW h \in Gens, Unseen(t, h)
                   PROVE  Unseen(t, h)'
      BY DEF NothingSeen
    <2>2. h # 0 /\ None.g = 0
      BY DEF Gens, None
    <2>3. h \notin {srv'[t].cur, srv'[t].pend.g, srv'[t].inst.g, refresh'[t].g}
      BY <1>7, <1>8, <2>1, <2>2 DEF Unseen
    <2>4. Unleased(t, h)'
      BY <1>3, <2>1 DEF Unseen, Unleased
    <2>5. closer'[<<t, h>>] = "none"
      BY <1>5, <2>1 DEF Unseen
    <2> QED BY <2>3, <2>4, <2>5 DEF Unseen
  <1>10. \A t \in Servers : srv'[t].gen \in Gens /\ srv'[t].gen >= srv[t].gen
    BY <1>6 DEF RowKeeps, Rows
  <1>11. Tasks'
    BY <1>2, <1>9, <1>10, FencedStand, TasksKeep
  <1>12. Closed' = Closed
    BY DEF Closed
  <1>13. Clients'
    BY <1>2, <1>3, <1>5, <1>12, FewerLeases, ClientsKeep
  <1>14. Tokens'
    BY <1>2, <1>3, <1>12, FewerLeases, TokensKeep
  <1>15. Ends'
    <2>1. \A t \in Servers : Closed => refresh'[t] = refresh[t]
      BY DEF Ends
    <2> QED BY <1>2, <1>3, <2>1, FewerLeases, EndsKeep
  <1>16. CurrentLeaseHasCurrentConfig'
    BY <1>2, <1>3, <1>6, FewerLeases, CurrentKeep DEF RowKeeps
  <1>17. ReadyHasCatalog'
    <2>1. \A t \in Servers : srv'[t] = srv[t] \/ (srv'[t].st = "READY" => srv'[t].pend # None \/ srv'[t].inst # None)
      BY <1>1 DEF Withdraws
    <2> QED BY <1>12, <2>1 DEF ReadyHasCatalog
  <1>18. OpenClientHasOwner'
    <2>1. SUFFICES ASSUME NEW t \in Servers, NEW h \in Gens, slot'[<<t, h>>].client = "open",
                          h \notin srv'[t].lost
                   PROVE  \/ Running(t, h)'
                          \/ h \in {srv'[t].cur, srv'[t].inst.g}
                          \/ closer'[<<t, h>>] # "none"
                          \/ phase' \notin {"open", "done"}
      BY DEF OpenClientHasOwner
    <2>2. slot[<<t, h>>].client = "open" /\ h \notin srv[t].lost
      BY <1>2, <1>6, <2>1 DEF SlotsFenced, FencedTo, RowKeeps
    <2>3. \/ Running(t, h) \/ h \in {srv[t].cur, srv[t].inst.g} \/ closer[<<t, h>>] # "none"
          \/ phase \notin {"open", "done"}
      BY <2>2 DEF OpenClientHasOwner
    <2>4. Running(t, h)' <=> Running(t, h)
      BY DEF Running
    <2>5. CASE h \in {srv[t].cur, srv[t].inst.g}
      <3>1. CASE UNCHANGED srv
        BY <2>5, <3>1
      <3>2. CASE ~Closed /\ concerned /\ t = s /\ h = g
        BY <1>5, <3>2
      <3>3. CASE Withdraws(srv[s], srv'[s], g) /\ t = s /\ h # g
        BY <2>5, <3>3 DEF Withdraws
      <3>4. CASE t # s
        BY <1>1, <2>5, <3>4
      <3> QED BY <1>1, <3>1, <3>2, <3>3, <3>4
    <2> QED BY <1>5, <2>3, <2>4, <2>5
  <1>19. Owned'
    <2>1. SUFFICES ASSUME NEW t \in Servers
                   PROVE  /\ \A cand \in {srv'[t].pend, srv'[t].inst} : cand # None =>
                                /\ CandidateLease(t, cand) \in leases'
                                /\ slot'[<<t, cand.g>>].fence = "OPEN" =>
                                      slot'[<<t, cand.g>>].accepting
                          /\ srv'[t].pend # None =>
                                /\ srv'[t].cur = srv'[t].pend.g
                                /\ srv'[t].inst.g = srv'[t].pend.g =>
                                      srv'[t].inst.gen < srv'[t].pend.gen
                          /\ ~Closed' /\ srv'[t].pend = None => srv'[t].cur \in {0, srv'[t].inst.g}
                          /\ Closed' => srv'[t].pend = None /\ srv'[t].inst = None
                          /\ 0 \notin srv'[t].lost
      BY DEF Owned, CandidateLease
    <2>2. /\ srv[t].pend \in Candidates /\ srv[t].inst \in Candidates
          /\ srv[t].pend # None => srv[t].pend.g \in Gens
          /\ srv[t].inst # None => srv[t].inst.g \in Gens
      BY RowFields, CandidateFields
    <2>3. None.g = 0 /\ g # 0
      BY DEF None, Gens
    <2>4. ASSUME NEW cand \in {srv'[t].pend, srv'[t].inst}, cand # None
          PROVE  /\ CandidateLease(t, cand) \in leases'
                 /\ slot'[<<t, cand.g>>].fence = "OPEN" => slot'[<<t, cand.g>>].accepting
      <3>1. cand \in {srv[t].pend, srv[t].inst} /\ cand.g \in Gens
        BY <1>7, <2>2, <2>4
      <3>2. CandidateLease(t, cand) \in leases /\ CandidateLease(t, cand) \notin given
        <4>1. CandidateLease(t, cand) \in leases
          BY <2>4, <3>1 DEF Owned
        <4>2. CandidateLease(t, cand).kind = "candidate"
          BY CandidateLeaseFields
        <4> QED BY <4>1, <4>2
      <3>3. slot[<<t, cand.g>>].fence = "OPEN" => slot[<<t, cand.g>>].accepting
        BY <2>4, <3>1 DEF Owned
      <3>4. ~Closed /\ concerned /\ t = s => cand.g # g
        BY <1>1, <2>3, <2>4, <3>1 DEF Withdraws
      <3>5. CandidateLease(t, cand) \in leases'
        <4>1. CASE leases' = leases \ given
          BY <3>2, <4>1
        <4>2. CASE t # s
          BY <1>1, <3>2, <4>2, CandidateLeaseFields
        <4>3. CASE ~Closed /\ concerned /\ t = s
          BY <1>1, <3>2, <3>4, <4>3, CandidateLeaseFields
        <4> QED BY <1>1, <4>1, <4>2, <4>3
      <3> QED BY <1>2, <3>1, <3>3, <3>5
    <2>5. CASE UNCHANGED srv \/ t # s
      <3>1. srv'[t] = srv[t]
        BY <1>1, <2>5
      <3> QED BY <1>12, <2>4, <3>1 DEF Owned
    <2>6. CASE ~Closed /\ t = s /\ Withdraws(srv[s], srv'[s], g) /\ RowKeeps(srv[s], srv'[s])
      <3>1. /\ srv[s].pend # None =>
                  /\ srv[s].cur = srv[s].pend.g
                  /\ srv[s].inst.g = srv[s].pend.g => srv[s].inst.gen < srv[s].pend.gen
            /\ srv[s].pend = None => srv[s].cur \in {0, srv[s].inst.g}
            /\ 0 \notin srv[s].lost
        BY <2>6 DEF Owned
      <3>2. srv'[s].pend # None => srv'[s].pend = srv[s].pend /\ srv[s].pend.g # g
        BY <2>6 DEF Withdraws
      <3>3. srv'[s].pend # None /\ srv'[s].inst.g = srv'[s].pend.g => srv'[s].inst = srv[s].inst
        BY <2>2, <2>3, <2>6, <3>2 DEF Withdraws, Gens
      <3>4. srv'[s].pend = None => srv'[s].cur \in {0, srv'[s].inst.g}
        BY <2>2, <2>3, <2>6, <3>1 DEF Withdraws
      <3> QED BY <1>12, <2>4, <2>6, <3>1, <3>2, <3>3, <3>4 DEF Withdraws, RowKeeps
    <2> QED BY <1>1, <2>5, <2>6
  <1> QED BY <1>2, <1>3, <1>4, <1>5, <1>6, <1>11, <1>13, <1>14, <1>15, <1>16, <1>17, <1>18, <1>19

-----------------------------------------------------------------------------
(* The tool port: borrows, calls and previews                               *)

(* A step of the port that gives back no candidate's lease. *)
LEMMA PortKeeps ==
    ASSUME McpInv,
           UNCHANGED <<srv, attempts, refresh, slot, allSlots, closer, rebuild, runtimeGen,
                       phase>>,
           leases' \subseteq Leases, Copies,
           \A l \in leases : l.kind = "candidate" => l \in leases',
           {surface', borrow', events'} \subseteq Nat,
           call' \in [Calls -> Uses], preview' \in [Previews -> Uses],
           Used', Relists'
    PROVE  McpInv'
  <1> USE DEF McpInv
  <1>1. SlotsFenced
    BY SlotsStay
  <1>2. NothingSeen
    BY DEF NothingSeen, Unseen, Unleased, Copies
  <1>3. Tasks'
    BY <1>1, <1>2, RowFields, FencedStand, TasksKeep DEF Gens
  <1>4. Closed' = Closed
    BY DEF Closed
  <1>5. Clients'
    BY <1>1, <1>4, ClientsKeep
  <1>6. Tokens'
    BY <1>1, <1>4, TokensKeep DEF TypeOK
  <1>7. Ends'
    BY <1>1, EndsKeep
  <1>8. CurrentLeaseHasCurrentConfig'
    BY <1>1, CurrentKeep
  <1>9. OpenClientHasOwner'
    BY DEF OpenClientHasOwner, Running
  <1>10. ReadyHasCatalog'
    BY <1>4 DEF ReadyHasCatalog
  <1>11. Owned'
    <2>1. \A s \in Servers : \A cand \in {srv[s].pend, srv[s].inst} :
             cand # None => CandidateLease(s, cand) \in leases'
      <3>1. SUFFICES ASSUME NEW s \in Servers, NEW cand \in {srv[s].pend, srv[s].inst}, cand # None
                     PROVE  CandidateLease(s, cand) \in leases'
        OBVIOUS
      <3>2. CandidateLease(s, cand) \in leases
        BY <3>1 DEF Owned
      <3> QED BY <3>2, CandidateLeaseFields
    <2> QED BY <1>4, <2>1 DEF Owned, CandidateLease
  <1>12. TypeOK'
    BY DEF TypeOK
  <1> QED BY <1>3, <1>5, <1>6, <1>7, <1>8, <1>9, <1>10, <1>11, <1>12

(* A turn that borrows the surface holds no call yet. *)
LEMMA BorrowSurfaceKeeps == McpInv /\ BorrowSurface => McpInv'
  <1> SUFFICES ASSUME McpInv, BorrowSurface PROVE McpInv'
    OBVIOUS
  <1> USE DEF McpInv
  <1>1. borrow = 0 /\ borrow' = surface /\ surface # 0
        /\ UNCHANGED <<srv, attempts, refresh, slot, allSlots, leases, closer, rebuild, runtimeGen,
                       surface, call, preview, phase, events>>
    BY DEF BorrowSurface
  <1>2. \A c \in Calls : call[c] = Idle
    BY <1>1 DEF Used
  <1>3. Used'
    BY <1>1, <1>2 DEF Used, PreviewLease
  <1>4. Relists'
    BY <1>1 DEF Relists, Quiet
  <1> QED BY <1>1, <1>3, <1>4, FewerLeases, PortKeeps DEF TypeOK

(* A borrow goes back after its calls; only the leases it alone held go. *)
LEMMA ReleaseBorrowKeeps == McpInv /\ ReleaseBorrow => McpInv'
  <1> SUFFICES ASSUME McpInv, ReleaseBorrow PROVE McpInv'
    OBVIOUS
  <1> USE DEF McpInv
  <1>1. borrow' = 0 /\ (\A c \in Calls : call[c] = Idle)
        /\ UNCHANGED <<srv, attempts, refresh, slot, allSlots, closer, rebuild, runtimeGen,
                       surface, call, preview, phase, events>>
        /\ leases' = (IF borrow = surface THEN leases ELSE leases \ Runtime(borrow))
    BY DEF ReleaseBorrow
  <1>2. leases' \subseteq leases /\ \A l \in leases : l.kind # "runtime" => l \in leases'
    BY <1>1 DEF Runtime
  <1>3. Used'
    <2>1. ASSUME NEW p \in Previews, preview[p] # Idle PROVE PreviewLease(p) \in leases'
      <3>1. PreviewLease(p) \in leases
        BY <2>1 DEF Used
      <3>2. PreviewLease(p).kind = "preview"
        BY DEF PreviewLease
      <3> QED BY <1>2, <3>1, <3>2
    <2> QED BY <1>1, <2>1 DEF Used, PreviewLease
  <1>4. Relists'
    BY <1>1 DEF Relists, Quiet
  <1>5. \A l \in leases : l.kind = "candidate" => l \in leases'
    BY <1>2
  <1> QED BY <1>1, <1>2, <1>3, <1>4, <1>5, FewerLeases, PortKeeps DEF TypeOK

(* The tool port of a closed host gives back the runtime generations. *)
LEMMA PortReleasesKeeps == McpInv /\ PortReleases => McpInv'
  <1> SUFFICES ASSUME McpInv, PortReleases PROVE McpInv'
    OBVIOUS
  <1> USE DEF McpInv
  <1>1. surface' = 0 /\ (\A c \in Calls : call[c] = Idle)
        /\ UNCHANGED <<srv, attempts, refresh, slot, allSlots, closer, rebuild, runtimeGen,
                       borrow, call, preview, phase, events>>
        /\ leases' = {l \in leases : l.kind # "runtime"}
    BY DEF PortReleases
  <1>2. leases' \subseteq leases /\ \A l \in leases : l.kind # "runtime" => l \in leases'
    BY <1>1
  <1>3. Used'
    <2>1. ASSUME NEW p \in Previews, preview[p] # Idle PROVE PreviewLease(p) \in leases'
      <3>1. PreviewLease(p) \in leases
        BY <2>1 DEF Used
      <3>2. PreviewLease(p).kind = "preview"
        BY DEF PreviewLease
      <3> QED BY <1>2, <3>1, <3>2
    <2> QED BY <1>1, <2>1 DEF Used, PreviewLease
  <1>4. Relists'
    BY <1>1 DEF Relists, Quiet
  <1>5. \A l \in leases : l.kind = "candidate" => l \in leases'
    BY <1>2
  <1> QED BY <1>1, <1>2, <1>3, <1>4, <1>5, FewerLeases, PortKeeps DEF TypeOK

(* A call moves on with its permit, or gives it up. *)
LEMMA CallMoves ==
    ASSUME McpInv, NEW c \in Calls, UNCHANGED callOnly,
           \/ call' = [call EXCEPT ![c] = Idle]
           \/ \E st \in Permit : call[c].st \in Permit /\ SetCall(c, st)
    PROVE  McpInv'
  <1> USE DEF McpInv
  <1>1. UNCHANGED <<srv, attempts, refresh, slot, allSlots, leases, closer, rebuild, runtimeGen,
                    surface, borrow, preview, phase, events>>
    BY DEF callOnly
  <1>2. /\ call' \in [Calls -> Uses]
        /\ \A d \in Calls : call'[d] # Idle =>
              /\ call[d] # Idle /\ call'[d].st \in Permit
              /\ call'[d].s = call[d].s /\ call'[d].g = call[d].g /\ call'[d].gen = call[d].gen
    <2>1. CASE call' = [call EXCEPT ![c] = Idle]
      BY <2>1 DEF TypeOK, Uses, Used
    <2>2. ASSUME NEW st \in Permit, call[c].st \in Permit, SetCall(c, st)
          PROVE  <1>2!1 /\ <1>2!2
      <3>1. call[c] # Idle
        BY <2>2, IdleFields DEF Permit
      <3>2. /\ call[c] \in [st : {"wait", "lane", "op"} \cup Permit, s : Servers, g : Gens, gen : Nat]
        BY <3>1 DEF TypeOK, Uses
      <3>3. [call[c] EXCEPT !.st = st] \in [st : {"wait", "lane", "op"} \cup Permit, s : Servers, g : Gens, gen : Nat]
        BY <2>2, <3>2
      <3>4. call' = [call EXCEPT ![c] = [call[c] EXCEPT !.st = st]]
        BY <2>2 DEF SetCall
      <3>5. call' \in [Calls -> Uses]
        BY <3>3, <3>4 DEF TypeOK, Uses
      <3>6. /\ [call[c] EXCEPT !.st = st].st = st /\ [call[c] EXCEPT !.st = st].s = call[c].s
            /\ [call[c] EXCEPT !.st = st].g = call[c].g /\ [call[c] EXCEPT !.st = st].gen = call[c].gen
        BY <3>2
      <3>7. \A d \in Calls : call'[d] = IF d = c THEN [call[c] EXCEPT !.st = st] ELSE call[d]
        BY <3>4 DEF TypeOK
      <3> QED BY <2>2, <3>1, <3>5, <3>6, <3>7 DEF Used
    <2> QED BY <2>1, <2>2
  <1>3. Used'
    <2>1. ASSUME NEW d \in Calls, call'[d] # Idle PROVE CallLease(d)' \in leases'
      <3>1. CallLease(d) \in leases
        BY <1>2, <2>1 DEF Used
      <3>2. CallLease(d)' = CallLease(d)
        BY <1>1, <1>2, <2>1 DEF CallLease
      <3> QED BY <1>1, <3>1, <3>2
    <2>2. \A d \in Calls : call'[d] # Idle => borrow # 0
      BY <1>2 DEF Used
    <2> QED BY <1>1, <1>2, <2>1, <2>2 DEF Used, PreviewLease
  <1>4. Relists'
    <2>1. \A s, g : Quiet(s, g) => Quiet(s, g)'
      <3>1. SUFFICES ASSUME NEW s, NEW g, Quiet(s, g), NEW d \in Calls,
                            call'[d].st \in Permit, call'[d].s = s, call'[d].g = g
                     PROVE  FALSE
        BY <1>1 DEF Quiet
      <3>2. call'[d] # Idle
        BY <3>1, IdleFields DEF Permit
      <3>3. call[d] # Idle /\ call[d].s = s /\ call[d].g = g
        BY <1>2, <3>1, <3>2
      <3>4. call[d].st \in Permit
        BY <3>3 DEF Used
      <3> QED BY <3>1, <3>3, <3>4 DEF Quiet
    <2> QED BY <1>1, <2>1 DEF Relists
  <1> QED BY <1>1, <1>2, <1>3, <1>4, FewerLeases, PortKeeps DEF TypeOK

(* A call moves from one permit state to the next, or ends. *)
LEMMA CallStepsKeep ==
    ASSUME McpInv, NEW c \in Calls,
           \/ MarkAttemptAccepted(c) \/ ReleaseDispatch(c) \/ CancelBeforeDispatch(c)
           \/ AcquireLane(c) \/ AcquireHostLane(c)
    PROVE  McpInv'
  <1>1. CASE MarkAttemptAccepted(c)
    BY <1>1, CallMoves DEF MarkAttemptAccepted, Permit
  <1>2. CASE ReleaseDispatch(c)
    BY <1>2, CallMoves DEF ReleaseDispatch
  <1>3. CASE CancelBeforeDispatch(c)
    BY <1>3, CallMoves DEF CancelBeforeDispatch
  <1>4. CASE AcquireLane(c)
    BY <1>4, CallMoves DEF AcquireLane, Permit
  <1>5. CASE AcquireHostLane(c)
    BY <1>5, CallMoves DEF AcquireHostLane, Permit
  <1> QED BY <1>1, <1>2, <1>3, <1>4, <1>5

(* A dispatch is admitted on an open slot only, where no listing is fenced. *)
LEMMA AdmitDispatchKeeps ==
    ASSUME McpInv, NEW c \in Calls, NEW l \in leases, AdmitDispatch(c, l)
    PROVE  McpInv'
  <1> USE DEF McpInv
  <1>1. /\ borrow # 0 /\ l.kind = "runtime" /\ l.n = borrow /\ Current(l.s, l)
        /\ call' = [call EXCEPT ![c] = [st |-> "ADMITTED", s |-> l.s, g |-> l.g, gen |-> l.gen]]
        /\ UNCHANGED <<srv, attempts, refresh, slot, allSlots, leases, closer, rebuild, runtimeGen,
                       surface, borrow, preview, phase, events>>
    BY DEF AdmitDispatch, Runtime, callOnly
  <1>2. l \in Leases /\ l.s \in Servers /\ l.g \in Gens /\ l.gen \in Nat
    BY LeaseFields
  <1> DEFINE held == [st |-> "ADMITTED", s |-> l.s, g |-> l.g, gen |-> l.gen]
  <1>3. /\ held \in Uses /\ held.s = l.s /\ held.g = l.g /\ held.gen = l.gen
        /\ held.st = "ADMITTED"
    BY <1>2 DEF Uses, Permit
  <1> HIDE DEF held
  <1>4. call' \in [Calls -> Uses] /\ \A d \in Calls : call'[d] = IF d = c THEN held ELSE call[d]
    BY <1>1, <1>3 DEF TypeOK, held
  <1>5. Used'
    <2>1. ASSUME NEW d \in Calls, call'[d] # Idle
          PROVE  call'[d].st \in Permit /\ CallLease(d)' \in leases'
      <3>1. CASE d = c
        <4>1. CallLease(d)' = [s |-> l.s, g |-> l.g, gen |-> l.gen, kind |-> "runtime", n |-> borrow]
          BY <1>1, <1>3, <1>4, <3>1 DEF CallLease
        <4>2. l = [s |-> l.s, g |-> l.g, gen |-> l.gen, kind |-> "runtime", n |-> borrow]
          BY <1>1, <1>2 DEF Leases
        <4> QED BY <1>1, <1>3, <1>4, <3>1, <4>1, <4>2 DEF Permit
      <3>2. CASE d # c
        <4>1. call'[d] = call[d] /\ CallLease(d)' = CallLease(d)
          BY <1>1, <1>4, <3>2 DEF CallLease
        <4> QED BY <1>1, <2>1, <4>1 DEF Used
      <3> QED BY <3>1, <3>2
    <2> QED BY <1>1, <2>1 DEF Used, PreviewLease
  <1>6. Relists'
    <2>1. ASSUME NEW s \in Servers, NEW g \in Gens, slot[<<s, g>>].fence # "OPEN", Quiet(s, g)
          PROVE  Quiet(s, g)'
      <3>1. ~(l.s = s /\ l.g = g)
        BY <1>1, <2>1 DEF Current
      <3> QED BY <1>1, <1>3, <1>4, <2>1, <3>1 DEF Quiet
    <2> QED BY <1>1, <2>1 DEF Relists
  <1> QED BY <1>1, <1>4, <1>5, <1>6, FewerLeases, PortKeeps DEF TypeOK

(* The count of the disturbances stays a number. *)
LEMMA Counted == ASSUME NEW e, Event(e), TypeOK PROVE events' \in Nat
  BY DEF Event, TypeOK

(* A failure is reported by a task that holds no lease of its own. *)
LEMMA FailureReported ==
    ASSUME McpInv, NEW s \in Servers, NEW g \in Gens, NEW retryable \in BOOLEAN,
           ReportFailure(s, g, retryable, {}),
           UNCHANGED <<attempts, allSlots, runtimeGen, surface, borrow, preview, phase>>,
           events' \in Nat,
           refresh' \in [Servers -> Refreshes],
           \A t \in Servers : refresh'[t] \in {refresh[t], NoRefresh},
           call' \in [Calls -> Uses],
           \A c \in Calls : call'[c] \in {Idle, call[c]}
    PROVE  McpInv'
  <1> USE DEF McpInv
  <1>1. /\ srv' \in [Servers -> Rows] /\ slot' \in [Slots -> SlotStates]
        /\ leases' \subseteq leases /\ closer' \in [Slots -> {"none", "drain", "closing"}]
        /\ rebuild' \in BOOLEAN
        /\ \A l \in leases : l.kind # "candidate" => l \in leases'
        /\ SlotsFenced
        /\ Tasks' /\ Clients' /\ Tokens' /\ Owned' /\ Ends'
        /\ OpenClientHasOwner' /\ CurrentLeaseHasCurrentConfig' /\ ReadyHasCatalog'
    BY ReportKeeps
  <1>2. Used'
    BY <1>1, UsedKeep
  <1>3. Relists'
    <2>1. \A t \in Servers : refresh'[t].pc \in Captured => refresh'[t] = refresh[t]
      BY NoRefreshFields DEF Captured
    <2> QED BY <1>1, <2>1, RelistsKeep
  <1>4. TypeOK'
    BY <1>1 DEF TypeOK
  <1> QED BY <1>1, <1>2, <1>3, <1>4

(* A broken transport fences the exact slot. *)
LEMMA TransportFailureKeeps ==
    ASSUME McpInv, NEW s \in Servers, NEW g \in Gens, TransportFailure(s, g)
    PROVE  McpInv'
  <1> USE DEF McpInv
  <1>1. \E r \in BOOLEAN : ReportFailure(s, g, r, {})
    BY DEF TransportFailure
  <1>2. events' \in Nat
    BY Counted DEF TransportFailure
  <1>3. UNCHANGED <<attempts, refresh, allSlots, runtimeGen, surface, borrow, call, preview, phase>>
    BY DEF TransportFailure, portVars
  <1> QED BY <1>1, <1>2, <1>3, FailureReported DEF TypeOK

(* A call returns, with an answer or with a failure of its slot. *)
LEMMA InvokeReturnsKeeps ==
    ASSUME McpInv, NEW c \in Calls, InvokeReturns(c)
    PROVE  McpInv'
  <1> USE DEF McpInv
  <1>1. /\ call[c].st = "LANE_ACQUIRED" /\ call' = [call EXCEPT ![c] = Idle]
        /\ UNCHANGED <<attempts, refresh, allSlots, runtimeGen, surface, borrow, preview, phase>>
    BY DEF InvokeReturns
  <1>2. call' \in [Calls -> Uses] /\ \A d \in Calls : call'[d] \in {Idle, call[d]}
    BY <1>1 DEF TypeOK, Uses
  <1>3. call[c].s \in Servers /\ call[c].g \in Gens
    BY <1>1, IdleFields, CallFields
  <1>4. CASE UNCHANGED <<srv, slot, leases, closer, rebuild, events>>
    BY <1>1, <1>4, CallMoves DEF callOnly
  <1>5. ASSUME NEW r \in BOOLEAN, ReportFailure(call[c].s, call[c].g, r, {}), events' \in Nat
        PROVE  McpInv'
    BY <1>1, <1>2, <1>3, <1>5, FailureReported DEF TypeOK
  <1>6. CASE Event("call_error") /\ ReportFailure(call[c].s, call[c].g, TRUE, {})
    BY <1>5, <1>6, Counted
  <1>7. CASE Event("call_conformance") /\ ReportFailure(call[c].s, call[c].g, FALSE, {})
    BY <1>5, <1>7, Counted
  <1> QED BY <1>4, <1>6, <1>7 DEF InvokeReturns

(* The newest candidate of a server has a lease on a slot of the present configuration. *)
LEMMA NewestFields ==
    ASSUME McpInv, NEW s \in Servers, Newest(s) # None
    PROVE  /\ Newest(s) \in {srv[s].pend, srv[s].inst}
           /\ Newest(s).g \in Gens /\ Newest(s).gen \in Nat
           /\ CandidateLease(s, Newest(s)) \in leases
  <1>1. Newest(s) \in {srv[s].pend, srv[s].inst}
    BY DEF Newest
  <1>2. Newest(s) \in Candidates
    BY <1>1, RowFields DEF McpInv
  <1> QED BY <1>1, <1>2, CandidateFields DEF McpInv, Owned

(* A preview leases the slot of the newest candidate, which is open. *)
LEMMA PreviewStartKeeps ==
    ASSUME McpInv, NEW p \in Previews, NEW s \in Servers, PreviewStart(p, s)
    PROVE  McpInv'
  <1> USE DEF McpInv
  <1> DEFINE held == [st |-> "wait", s |-> s, g |-> Newest(s).g, gen |-> Newest(s).gen]
             new == [s |-> s, g |-> held.g, gen |-> held.gen, kind |-> "preview", n |-> p]
  <1>1. /\ preview[p] = Idle /\ Newest(s) # None
        /\ preview' = [preview EXCEPT ![p] = held]
        /\ leases' = leases \cup {new}
        /\ UNCHANGED <<srv, attempts, refresh, allSlots, rebuild, runtimeGen, surface, borrow,
                       call, phase, slot, closer, events>>
    BY DEF PreviewStart, Previewable, previewOnly
  <1>2. /\ Newest(s).g \in Gens /\ Newest(s).gen \in Nat
        /\ CandidateLease(s, Newest(s)) \in leases
    BY <1>1, NewestFields
  <1>3. /\ held \in Uses /\ held.st = "wait" /\ held.s = s
        /\ held.g = Newest(s).g /\ held.gen = Newest(s).gen
    BY <1>2 DEF Uses
  <1> HIDE DEF held
  <1>4. /\ new \in Leases
        /\ new.s = s /\ new.g = Newest(s).g /\ new.gen = Newest(s).gen /\ new.kind = "preview"
    BY <1>2, <1>3 DEF Leases
  <1>5. Copies
    BY <1>1, <1>2, <1>4, CandidateLeaseFields DEF Copies
  <1>6. preview' \in [Previews -> Uses] /\ \A q \in Previews : preview'[q] = IF q = p THEN held ELSE preview[q]
    BY <1>1, <1>3 DEF TypeOK
  <1>7. Used'
    <2>1. ASSUME NEW q \in Previews, preview'[q] # Idle
          PROVE  preview'[q].st \in {"wait", "lane", "op"} /\ PreviewLease(q)' \in leases'
      <3>1. CASE q = p
        BY <1>1, <1>3, <1>6, <3>1 DEF PreviewLease
      <3>2. CASE q # p
        <4>1. PreviewLease(q)' = PreviewLease(q) /\ preview'[q] = preview[q]
          BY <1>6, <3>2 DEF PreviewLease
        <4> QED BY <1>1, <2>1, <4>1 DEF Used
      <3> QED BY <3>1, <3>2
    <2>2. \A c \in Calls : CallLease(c)' = CallLease(c)
      BY <1>1 DEF CallLease
    <2> QED BY <1>1, <2>1, <2>2 DEF Used
  <1>8. Relists'
    <2>1. \A t, g : Quiet(t, g) => Quiet(t, g)'
      BY <1>1, <1>3, <1>6 DEF Quiet
    <2> QED BY <1>1, <2>1 DEF Relists
  <1>9. leases' \subseteq Leases /\ \A l \in leases : l \in leases'
    BY <1>1, <1>4 DEF TypeOK
  <1> QED BY <1>1, <1>5, <1>6, <1>7, <1>8, <1>9, PortKeeps DEF TypeOK

(* A preview waits on, or ends and gives its lease back. *)
LEMMA PreviewEnds ==
    ASSUME TypeOK, Used, NEW p \in Previews, preview' = [preview EXCEPT ![p] = Idle],
           UNCHANGED <<call, borrow>>,
           \A l \in leases : l.kind # "candidate" /\ l # PreviewLease(p) => l \in leases'
    PROVE  /\ preview' \in [Previews -> Uses] /\ Used'
           /\ \A s, g : Quiet(s, g) => Quiet(s, g)'
  <1>1. /\ preview' \in [Previews -> Uses]
        /\ \A q \in Previews : preview'[q] = IF q = p THEN Idle ELSE preview[q]
    BY DEF TypeOK, Uses
  <1>2. ASSUME NEW q \in Previews, preview'[q] # Idle
        PROVE  preview'[q].st \in {"wait", "lane", "op"} /\ PreviewLease(q)' \in leases'
    <2>1. q # p /\ preview'[q] = preview[q]
      BY <1>1, <1>2
    <2>2. PreviewLease(q)' = PreviewLease(q) /\ PreviewLease(q).kind = "preview"
      BY <2>1 DEF PreviewLease
    <2>3. PreviewLease(q) # PreviewLease(p)
      BY <2>1 DEF PreviewLease
    <2> QED BY <1>2, <2>1, <2>2, <2>3 DEF Used
  <1>3. ASSUME NEW c \in Calls, call[c] # Idle PROVE CallLease(c)' \in leases'
    <2>1. CallLease(c)' = CallLease(c) /\ CallLease(c).kind = "runtime"
      BY DEF CallLease
    <2>2. PreviewLease(p).kind = "preview"
      BY DEF PreviewLease
    <2> QED BY <1>3, <2>1, <2>2 DEF Used
  <1>4. \A s, g : Quiet(s, g) => Quiet(s, g)'
    BY <1>1, IdleFields DEF Quiet
  <1> QED BY <1>1, <1>2, <1>3, <1>4 DEF Used

(* A preview that moves on keeps its slot and its lease. *)
LEMMA PreviewMoves ==
    ASSUME TypeOK, Used, NEW p \in Previews, NEW st \in {"wait", "lane", "op"}, preview[p] # Idle,
           preview' = [preview EXCEPT ![p].st = st], UNCHANGED <<call, borrow, leases>>
    PROVE  /\ preview' \in [Previews -> Uses] /\ Used'
           /\ \A q \in Previews : q # p => preview'[q] = preview[q]
           /\ preview'[p].st = st /\ preview'[p].s = preview[p].s /\ preview'[p].g = preview[p].g
  <1> DEFINE held == [preview[p] EXCEPT !.st = st]
             Held == [st : {"wait", "lane", "op"} \cup Permit, s : Servers, g : Gens, gen : Nat]
  <1>1. preview[p] \in Held
    BY DEF TypeOK, Uses
  <1>2. /\ held \in Held /\ held.st = st /\ held.s = preview[p].s /\ held.g = preview[p].g
        /\ held.gen = preview[p].gen
    BY <1>1
  <1>3. preview' = [preview EXCEPT ![p] = held]
    OBVIOUS
  <1> HIDE DEF held
  <1>4. /\ preview' \in [Previews -> Uses]
        /\ \A q \in Previews : preview'[q] = IF q = p THEN held ELSE preview[q]
    BY <1>2, <1>3 DEF TypeOK, Uses
  <1>5. ASSUME NEW q \in Previews, preview'[q] # Idle
        PROVE  preview'[q].st \in {"wait", "lane", "op"} /\ PreviewLease(q)' \in leases'
    <2>1. preview[q] # Idle
      BY <1>4, <1>5
    <2>2. PreviewLease(q)' = PreviewLease(q)
      BY <1>2, <1>4 DEF PreviewLease
    <2>3. preview'[q].st \in {"wait", "lane", "op"}
      BY <1>2, <1>4, <2>1 DEF Used
    <2> QED BY <2>1, <2>2, <2>3 DEF Used
  <1>6. \A c \in Calls : CallLease(c)' = CallLease(c)
    BY DEF CallLease
  <1> QED BY <1>2, <1>4, <1>5, <1>6 DEF Used

(* A preview takes the lane of its slot. *)
LEMMA PreviewLaneKeeps ==
    ASSUME McpInv, NEW p \in Previews, PreviewLane(p)
    PROVE  McpInv'
  <1> USE DEF McpInv
  <1>1. /\ preview[p].st = "wait" /\ preview' = [preview EXCEPT ![p].st = "lane"]
        /\ UNCHANGED <<srv, attempts, refresh, allSlots, rebuild, runtimeGen, surface, borrow,
                       call, phase, slot, closer, leases, events>>
    BY DEF PreviewLane, previewOnly
  <1>2. preview[p] # Idle
    BY <1>1, IdleFields
  <1>3. /\ preview' \in [Previews -> Uses] /\ Used'
        /\ \A q \in Previews : q # p => preview'[q] = preview[q]
        /\ preview'[p].st = "lane"
    BY <1>1, <1>2, PreviewMoves
  <1>4. \A s, g : Quiet(s, g) => Quiet(s, g)'
    BY <1>1, <1>3 DEF Quiet
  <1>5. Relists'
    BY <1>1, <1>4 DEF Relists
  <1> QED BY <1>1, <1>3, <1>5, FewerLeases, PortKeeps DEF TypeOK

(* A preview asks its peer on an open slot only, where no listing is fenced. *)
LEMMA PreviewHostLaneKeeps ==
    ASSUME McpInv, NEW p \in Previews, PreviewHostLane(p)
    PROVE  McpInv'
  <1> USE DEF McpInv
  <1>1. /\ preview[p].st = "lane"
        /\ UNCHANGED <<srv, attempts, refresh, allSlots, rebuild, runtimeGen, surface, borrow,
                       call, phase, slot, closer, events>>
        /\ \/ /\ StillChosen(p)
              /\ preview' = [preview EXCEPT ![p].st = "op"]
              /\ UNCHANGED leases
           \/ EndPreview(p)
    BY DEF PreviewHostLane, previewOnly
  <1>2. preview[p] # Idle
    BY <1>1, IdleFields
  <1>3. CASE StillChosen(p) /\ preview' = [preview EXCEPT ![p].st = "op"] /\ UNCHANGED leases
    <2>1. /\ preview' \in [Previews -> Uses] /\ Used'
          /\ \A q \in Previews : q # p => preview'[q] = preview[q]
          /\ preview'[p].s = preview[p].s /\ preview'[p].g = preview[p].g
      BY <1>1, <1>2, <1>3, PreviewMoves
    <2>2. slot[<<preview[p].s, preview[p].g>>].fence = "OPEN"
      BY <1>3 DEF StillChosen, Previewable, Current
    <2>3. \A s, g : slot[<<s, g>>].fence # "OPEN" /\ Quiet(s, g) => Quiet(s, g)'
      BY <1>1, <2>1, <2>2 DEF Quiet
    <2>4. Relists'
      BY <1>1, <2>3 DEF Relists
    <2> QED BY <1>1, <1>3, <2>1, <2>4, FewerLeases, PortKeeps DEF TypeOK
  <1>4. CASE EndPreview(p)
    <2>1. preview' = [preview EXCEPT ![p] = Idle] /\ leases' = leases \ {PreviewLease(p)}
      BY <1>4 DEF EndPreview
    <2>2. /\ preview' \in [Previews -> Uses] /\ Used'
          /\ \A s, g : Quiet(s, g) => Quiet(s, g)'
      BY <1>1, <2>1, PreviewEnds
    <2>3. Relists'
      BY <1>1, <2>2 DEF Relists
    <2>4. PreviewLease(p).kind = "preview"
      BY DEF PreviewLease
    <2> QED BY <1>1, <2>1, <2>2, <2>3, <2>4, FewerLeases, PortKeeps DEF TypeOK
  <1> QED BY <1>1, <1>3, <1>4

(* A preview returns, with an answer or with a failure of its slot. *)
LEMMA PreviewReturnsKeeps ==
    ASSUME McpInv, NEW p \in Previews, PreviewReturns(p)
    PROVE  McpInv'
  <1> USE DEF McpInv
  <1>1. /\ preview[p].st = "op" /\ preview' = [preview EXCEPT ![p] = Idle]
        /\ UNCHANGED <<attempts, refresh, allSlots, runtimeGen, surface, borrow, call, phase>>
    BY DEF PreviewReturns
  <1>2. preview[p].s \in Servers /\ preview[p].g \in Gens
    BY <1>1, IdleFields, PreviewFields
  <1>3. PreviewLease(p).kind = "preview"
    BY DEF PreviewLease
  <1>4. CASE leases' = leases \ {PreviewLease(p)} /\ UNCHANGED <<srv, slot, closer, rebuild, events>>
    <2>1. /\ preview' \in [Previews -> Uses] /\ Used'
          /\ \A s, g : Quiet(s, g) => Quiet(s, g)'
      BY <1>1, <1>4, PreviewEnds
    <2>2. Relists'
      BY <1>1, <1>4, <2>1 DEF Relists
    <2> QED BY <1>1, <1>3, <1>4, <2>1, <2>2, FewerLeases, PortKeeps DEF TypeOK
  <1>5. ASSUME NEW r \in BOOLEAN, ReportFailure(preview[p].s, preview[p].g, r, {PreviewLease(p)}),
               events' \in Nat
        PROVE  McpInv'
    <2>1. /\ srv' \in [Servers -> Rows] /\ slot' \in [Slots -> SlotStates]
          /\ leases' \subseteq leases /\ closer' \in [Slots -> {"none", "drain", "closing"}]
          /\ rebuild' \in BOOLEAN
          /\ \A l \in leases : l.kind # "candidate" /\ l # PreviewLease(p) => l \in leases'
          /\ SlotsFenced
          /\ Tasks' /\ Clients' /\ Tokens' /\ Owned' /\ Ends'
          /\ OpenClientHasOwner' /\ CurrentLeaseHasCurrentConfig' /\ ReadyHasCatalog'
      BY <1>1, <1>2, <1>3, <1>5, ReportKeeps
    <2>2. /\ preview' \in [Previews -> Uses] /\ Used'
          /\ \A s, g : Quiet(s, g) => Quiet(s, g)'
      BY <1>1, <2>1, PreviewEnds
    <2>3. Relists'
      BY <1>1, <2>1, <2>2 DEF Relists, SlotsFenced, FencedTo
    <2>4. TypeOK'
      BY <1>1, <1>5, <2>1, <2>2 DEF TypeOK
    <2> QED BY <2>1, <2>2, <2>3, <2>4
  <1>6. CASE Event("call_error") /\ ReportFailure(preview[p].s, preview[p].g, TRUE, {PreviewLease(p)})
    BY <1>5, <1>6, Counted
  <1>7. CASE Event("call_conformance")
             /\ ReportFailure(preview[p].s, preview[p].g, FALSE, {PreviewLease(p)})
    BY <1>5, <1>7, Counted
  <1> QED BY <1>4, <1>6, <1>7 DEF PreviewReturns

-----------------------------------------------------------------------------
(* Notifications and relists                                                *)

SameRow(old, new) ==
    /\ RowKeeps(old, new)
    /\ new.cur = old.cur /\ new.pend = old.pend /\ new.inst = old.inst
    /\ new.st = "READY" => old.st = "READY" \/ new.pend # None \/ new.inst # None

(* A step that fences at most, and leaves the candidates and their leases.  *)
LEMMA SupervisorKeeps ==
    ASSUME McpInv, TypeOK', SlotsFenced,
           \A s \in Servers, g \in Gens :
              slot'[<<s, g>>].fence = "OPEN" /\ slot[<<s, g>>].accepting =>
                 slot'[<<s, g>>].accepting,
           UNCHANGED <<allSlots, leases, closer, borrow, call, preview, phase>>,
           AttemptsFollow, Closed /\ attempts = {} => attempts' = {},
           \A s \in Servers, g \in Gens :
              Running(s, g) /\ slot'[<<s, g>>].client = "open" => Running(s, g)',
           \A s \in Servers :
              /\ SameRow(srv[s], srv'[s])
              /\ refresh'[s].g \in {0, srv[s].cur, refresh[s].g}
              /\ Closed => refresh'[s] = refresh[s],
           Relists'
    PROVE  McpInv'
  <1> USE DEF McpInv
  <1>1. NothingSeen
    <2>1. SUFFICES ASSUME NEW s \in Servers, NEW g \in Gens, Unseen(s, g) PROVE Unseen(s, g)'
      BY DEF NothingSeen
    <2>2. g \notin {srv'[s].cur, srv'[s].pend.g, srv'[s].inst.g, refresh'[s].g}
      BY <2>1 DEF Unseen, SameRow, Gens
    <2> QED BY <2>1, <2>2 DEF Unseen, Unleased
  <1>2. Tasks'
    <2>1. \A s \in Servers : srv'[s].gen \in Gens /\ srv'[s].gen >= srv[s].gen
      BY DEF TypeOK, Rows, SameRow, RowKeeps
    <2> QED BY <1>1, <2>1, FencedStand, TasksFollow
  <1>3. Copies /\ Closed' = Closed
    BY DEF Copies, Closed
  <1>4. Clients'
    BY <1>3, ClientsKeep
  <1>5. Tokens'
    BY <1>3, TokensKeep DEF TypeOK
  <1>6. Ends'
    BY <1>3, EndsKeep
  <1>7. CurrentLeaseHasCurrentConfig'
    BY <1>3, CurrentKeep DEF SameRow, RowKeeps
  <1>8. Used'
    BY UsedKeep
  <1>9. OpenClientHasOwner'
    BY DEF OpenClientHasOwner, SlotsFenced, FencedTo, SameRow, RowKeeps
  <1>10. ReadyHasCatalog'
    BY <1>3 DEF ReadyHasCatalog, SameRow
  <1>11. Owned'
    <2>1. SUFFICES ASSUME NEW s \in Servers
                   PROVE  /\ \A cand \in {srv[s].pend, srv[s].inst} : cand # None =>
                                (slot'[<<s, cand.g>>].fence = "OPEN" =>
                                      slot'[<<s, cand.g>>].accepting)
      BY <1>3 DEF Owned, SameRow, RowKeeps, CandidateLease
    <2>2. SUFFICES ASSUME NEW cand \in {srv[s].pend, srv[s].inst}, cand # None,
                          slot'[<<s, cand.g>>].fence = "OPEN"
                   PROVE  slot'[<<s, cand.g>>].accepting
      OBVIOUS
    <2>3. cand.g \in Gens
      BY <2>2, RowFields, CandidateFields
    <2>4. slot[<<s, cand.g>>].fence = "OPEN"
      BY <2>2, <2>3 DEF SlotsFenced, FencedTo
    <2>5. slot[<<s, cand.g>>].accepting
      BY <2>2, <2>4 DEF Owned
    <2> QED BY <2>2, <2>3, <2>5
  <1> QED BY <1>2, <1>4, <1>5, <1>6, <1>7, <1>8, <1>9, <1>10, <1>11

(* Which attempts run depends on the attempts only. *)
LEMMA AttemptsRun ==
    ASSUME UNCHANGED attempts PROVE \A s, g : Running(s, g) => Running(s, g)'
  BY DEF Running

(* A row agrees with itself. *)
LEMMA SameRowSelf ==
    ASSUME TypeOK, NEW s \in Servers, NEW n \in Nat
    PROVE  /\ SameRow(srv[s], srv[s])
           /\ [srv[s] EXCEPT !.rgen = n] \in Rows
           /\ SameRow(srv[s], [srv[s] EXCEPT !.rgen = n])
  <1>1. srv[s] \in Rows
    BY RowFields
  <1> QED BY <1>1 DEF SameRow, RowKeeps, Rows, Gens

(* A slot that was fenced, with the relist it asks for, or none. *)
LEMMA NotifiedKeeps ==
    ASSUME McpInv, NEW s \in Servers, NEW g \in Gens,
           slot' = [slot EXCEPT ![<<s, g>>] = MarkDirty(@)],
           srv' \in {srv, [srv EXCEPT ![s].rgen = @ + 1]},
           refresh' \in {refresh, [refresh EXCEPT ![s] = [NoRefresh EXCEPT !.pc = "sleep"]]},
           Closed => UNCHANGED refresh,
           events' \in Nat,
           UNCHANGED <<attempts, allSlots, leases, closer, rebuild, runtimeGen, portVars, phase>>
    PROVE  McpInv'
  <1> USE DEF McpInv
  <1>1. /\ slot' \in [Slots -> SlotStates] /\ SlotsFenced
        /\ slot'[<<s, g>>].fence # "OPEN"
        /\ \A t \in Servers, h \in Gens : t # s \/ h # g => slot'[<<t, h>>] = slot[<<t, h>>]
    BY OneMarkedDirty
  <1>2. srv' \in [Servers -> Rows] /\ \A t \in Servers : SameRow(srv[t], srv'[t])
    <2>1. CASE srv' = srv
      BY <2>1, SameRowSelf DEF TypeOK
    <2>2. CASE srv' = [srv EXCEPT ![s].rgen = @ + 1]
      <3>1. srv[s].rgen + 1 \in Nat
        BY RowFields
      <3>2. srv' = [srv EXCEPT ![s] = [srv[s] EXCEPT !.rgen = srv[s].rgen + 1]]
        BY <2>2
      <3>3. \A t \in Servers : srv'[t] = IF t = s THEN [srv[s] EXCEPT !.rgen = srv[s].rgen + 1] ELSE srv[t]
        BY <3>2 DEF TypeOK
      <3>4. [srv[s] EXCEPT !.rgen = srv[s].rgen + 1] \in Rows
             /\ SameRow(srv[s], [srv[s] EXCEPT !.rgen = srv[s].rgen + 1])
        BY <3>1, SameRowSelf
      <3>5. srv' \in [Servers -> Rows]
        BY <3>2, <3>4 DEF TypeOK
      <3> QED BY <3>3, <3>4, <3>5, SameRowSelf
    <2> QED BY <2>1, <2>2
  <1>3. /\ refresh' \in [Servers -> Refreshes]
        /\ \A t \in Servers :
              /\ refresh'[t].g \in {0, refresh[t].g}
              /\ refresh'[t].pc \in Captured => refresh'[t] = refresh[t]
    BY NoRefreshFields DEF TypeOK, Captured
  <1>4. UNCHANGED <<surface, borrow, call, preview>>
    BY DEF portVars
  <1>5. Relists'
    BY <1>1, <1>3, <1>4, RelistsKeep
  <1>6. TypeOK'
    BY <1>1, <1>2, <1>3, <1>4 DEF TypeOK
  <1> QED BY <1>1, <1>2, <1>3, <1>4, <1>5, <1>6, AttemptsStay, AttemptsRun, SupervisorKeeps

(* A changed list fences the slot and arms a refresh. *)
LEMMA ListChangedKeeps ==
    ASSUME McpInv, NEW s \in Servers, NEW g \in Gens, ListChanged(s, g)
    PROVE  McpInv'
  <1>1. events' \in Nat
    BY Counted DEF ListChanged, McpInv
  <1>2. /\ slot' = [slot EXCEPT ![<<s, g>>] = MarkDirty(@)]
        /\ srv' \in {srv, [srv EXCEPT ![s].rgen = @ + 1]}
        /\ refresh' \in {refresh, [refresh EXCEPT ![s] = [NoRefresh EXCEPT !.pc = "sleep"]]}
        /\ Closed => UNCHANGED refresh
        /\ UNCHANGED <<attempts, allSlots, leases, closer, rebuild, runtimeGen, portVars, phase>>
    BY DEF ListChanged
  <1> QED BY <1>1, <1>2, NotifiedKeeps

(* A periodic refresh fences the current slot and arms a refresh. *)
LEMMA PeriodicRefreshKeeps ==
    ASSUME McpInv, NEW s \in Servers, PeriodicRefresh(s)
    PROVE  McpInv'
  <1>1. events' \in Nat
    BY Counted DEF PeriodicRefresh, McpInv
  <1>2. srv[s].cur \in Gens
    BY RowFields DEF PeriodicRefresh, McpInv, Gens
  <1>3. /\ slot' = [slot EXCEPT ![<<s, srv[s].cur>>] = MarkDirty(@)]
        /\ srv' = [srv EXCEPT ![s].rgen = @ + 1]
        /\ refresh' \in {refresh, [refresh EXCEPT ![s] = [NoRefresh EXCEPT !.pc = "sleep"]]}
        /\ ~Closed
        /\ UNCHANGED <<attempts, allSlots, leases, closer, rebuild, runtimeGen, portVars, phase>>
    BY DEF PeriodicRefresh
  <1> QED BY <1>1, <1>2, <1>3, NotifiedKeeps

(* A refresh moves on by itself: only its own record changes. *)
LEMMA RefreshMoves ==
    ASSUME McpInv, NEW s \in Servers, UNCHANGED refreshOnly, NEW r \in Refreshes,
           refresh' = [refresh EXCEPT ![s] = r],
           r.g \in {0, srv[s].cur, refresh[s].g}, ~Closed,
           r.pc \in Captured =>
              /\ r.g \in Gens /\ r.conf \in Configs
              /\ r.fenced => slot[<<s, r.g>>].fence # "OPEN"
                             /\ (r.pc # "drain" => Quiet(s, r.g))
    PROVE  McpInv'
  <1> USE DEF McpInv
  <1>1. UNCHANGED <<srv, attempts, slot, allSlots, leases, closer, rebuild, runtimeGen, surface,
                    borrow, call, preview, phase, events>>
    BY DEF refreshOnly, portVars
  <1>2. refresh' \in [Servers -> Refreshes] /\ \A t \in Servers : refresh'[t] = IF t = s THEN r ELSE refresh[t]
    BY DEF TypeOK
  <1>3. SlotsFenced
    BY <1>1, SlotsStay
  <1>4. \A t, g : Quiet(t, g)' <=> Quiet(t, g)
    BY <1>1 DEF Quiet
  <1>5. Relists'
    BY <1>1, <1>2, <1>4 DEF Relists
  <1>6. TypeOK'
    BY <1>1, <1>2 DEF TypeOK
  <1>7. \A t \in Servers : SameRow(srv[t], srv'[t])
    BY <1>1, SameRowSelf
  <1> QED BY <1>1, <1>2, <1>3, <1>5, <1>6, <1>7, AttemptsStay, AttemptsRun,
     SupervisorKeeps

(* The next step of a listing. *)
LEMMA RefreshAdvances ==
    ASSUME McpInv, NEW s \in Servers, UNCHANGED refreshOnly, refresh[s].pc \in Captured,
           NEW pc \in Captured \ {"drain"}, SetRefresh(s, pc),
           refresh[s].pc = "drain" => Quiet(s, refresh[s].g)
    PROVE  McpInv'
  <1> DEFINE r == [refresh[s] EXCEPT !.pc = pc]
  <1>1. refresh[s] \in Refreshes /\ TypeOK /\ Relists
    BY RefreshFields DEF McpInv
  <1>2. /\ r \in Refreshes /\ r.pc = pc /\ r.g = refresh[s].g /\ r.conf = refresh[s].conf
        /\ r.fenced = refresh[s].fenced
    BY <1>1 DEF Refreshes, Captured
  <1>3. refresh' = [refresh EXCEPT ![s] = r]
    BY DEF SetRefresh
  <1> HIDE DEF r
  <1>4. ~Closed
    BY NoRefreshFields DEF McpInv, Ends, Captured
  <1>5. /\ r.g \in Gens /\ r.conf \in Configs
        /\ r.fenced => slot[<<s, r.g>>].fence # "OPEN" /\ Quiet(s, r.g)
    BY <1>1, <1>2 DEF Relists
  <1> QED BY <1>2, <1>3, <1>4, <1>5, RefreshMoves

(* A refresh captures the current slot, drains it and takes its permits. *)
LEMMA RefreshStepsKeep ==
    ASSUME McpInv, NEW s \in Servers,
           RefreshCapture(s) \/ RefreshDrain(s) \/ RefreshLane(s) \/ RefreshReserve(s)
    PROVE  McpInv'
  <1>1. TypeOK /\ Relists /\ Ends
    BY DEF McpInv
  <1>2. CASE RefreshDrain(s)
    <2>1. Quiet(s, refresh[s].g)
      BY <1>2 DEF RefreshDrain, Drained, PermitsOn, OperationsOn, Quiet
    <2> QED BY <1>2, <2>1, RefreshAdvances DEF RefreshDrain, Captured
  <1>3. CASE RefreshLane(s)
    BY <1>3, RefreshAdvances DEF RefreshLane, Captured
  <1>4. CASE RefreshReserve(s)
    BY <1>4, RefreshAdvances DEF RefreshReserve, Captured
  <1>5. CASE RefreshCapture(s)
    <2> DEFINE row == srv[s]
               r == [pc |-> "drain", g |-> row.cur, at |-> row.gen, rg |-> row.rgen,
                     dirty |-> slot[<<s, row.cur>>].dirty, conf |-> row.conf,
                     fenced |-> slot[<<s, row.cur>>].fence # "OPEN"]
    <2>1. /\ refresh[s].pc = "sleep" /\ UNCHANGED refreshOnly
          /\ IF Closed \/ row.cur = 0 \/ ~row.conf.on \/ slot[<<s, row.cur>>].fence = "CLOSED"
               THEN refresh' = [refresh EXCEPT ![s] = NoRefresh]
               ELSE refresh' = [refresh EXCEPT ![s] = r]
      BY <1>5 DEF RefreshCapture, StopRefresh
    <2>2. ~Closed
      BY <1>1, <2>1, NoRefreshFields DEF Ends
    <2>3. CASE refresh' = [refresh EXCEPT ![s] = NoRefresh]
      BY <2>1, <2>2, <2>3, NoRefreshFields, RefreshMoves DEF Captured
    <2>4. CASE row.cur # 0 /\ row.conf.on /\ refresh' = [refresh EXCEPT ![s] = r]
      <3>1. /\ row.cur \in Gens /\ row.gen \in 0..MaxGen /\ row.rgen \in Nat
            /\ row.conf \in Configs /\ row.conf \in Configs \cup {NoConfig}
        BY <1>1, <2>4, RowFields DEF Gens, NoConfig
      <3>2. slot[<<s, row.cur>>].dirty \in Nat
        BY <1>1, <3>1, SlotFields
      <3>3. (slot[<<s, row.cur>>].fence # "OPEN") \in BOOLEAN
        OBVIOUS
      <3>4. row.cur \in 0..MaxGen
        BY <3>1 DEF Gens
      <3>5. /\ r \in Refreshes /\ r.pc = "drain" /\ r.g = row.cur /\ r.conf = row.conf
            /\ r.fenced = (slot[<<s, row.cur>>].fence # "OPEN")
        BY <3>1, <3>2, <3>3, <3>4 DEF Refreshes
      <3> HIDE DEF r
      <3> QED BY <2>1, <2>2, <2>4, <3>1, <3>5, RefreshMoves
    <2> QED BY <2>1, <2>3, <2>4
  <1> QED BY <1>2, <1>3, <1>4, <1>5

(* StopRefresh ends the refresh of one server only. *)
LEMMA RefreshStops ==
    ASSUME TypeOK, NEW s \in Servers, StopRefresh(s)
    PROVE  /\ refresh' \in [Servers -> Refreshes]
           /\ \A t \in Servers : refresh'[t] \in {refresh[t], NoRefresh}
           /\ refresh'[s] = NoRefresh
  BY NoRefreshFields DEF TypeOK, StopRefresh

(* A listing that failed is reported as a failure of its slot. *)
LEMMA RefreshFailKeeps ==
    ASSUME McpInv, NEW s \in Servers, RefreshFail(s)
    PROVE  McpInv'
  <1> USE DEF McpInv
  <1>1. /\ refresh[s].pc = "list" /\ StopRefresh(s)
        /\ UNCHANGED <<attempts, allSlots, runtimeGen, surface, borrow, call, preview, phase>>
    BY DEF RefreshFail, portVars
  <1>2. refresh[s].g \in Gens
    BY <1>1 DEF Relists, Captured
  <1>3. \E r \in BOOLEAN : ReportFailure(s, refresh[s].g, r, {})
    BY DEF RefreshFail
  <1>4. events' \in Nat
    BY Counted DEF RefreshFail
  <1> QED BY <1>1, <1>2, <1>3, <1>4, RefreshStops, FailureReported DEF TypeOK

(* A refresh begins to list, unless its slot was closed while it waited. *)
LEMMA RefreshHostLaneKeeps ==
    ASSUME McpInv, NEW s \in Servers, RefreshHostLane(s)
    PROVE  McpInv'
  <1> USE DEF McpInv
  <1>1. /\ refresh[s].pc = "host"
        /\ UNCHANGED <<attempts, allSlots, runtimeGen, portVars, phase, events>>
    BY DEF RefreshHostLane
  <1>2. refresh[s].g \in Gens
    BY <1>1 DEF Relists, Captured
  <1>3. CASE SetRefresh(s, "list") /\ UNCHANGED <<srv, slot, leases, closer, rebuild>>
    BY <1>1, <1>3, RefreshAdvances DEF refreshOnly, Captured
  <1>4. CASE StopRefresh(s) /\ ReportFailure(s, refresh[s].g, TRUE, {})
    BY <1>1, <1>2, <1>4, RefreshStops, FailureReported DEF TypeOK, portVars
  <1> QED BY <1>3, <1>4 DEF RefreshHostLane

(* A relist reopens the slot with a lease that no one had before, so that   *)
(* nothing that was admitted under the old list is admitted again.          *)
LEMMA RefreshReopens ==
    ASSUME McpInv, NEW s \in Servers, refresh[s].pc = "list", ~Closed,
           srv[s].cur = refresh[s].g, srv[s].conf = refresh[s].conf,
           slot[<<s, refresh[s].g>>].dirty = refresh[s].dirty,
           slot[<<s, refresh[s].g>>].fence = "DIRTY_FENCED",
           NEW cand, cand = [g |-> refresh[s].g, gen |-> refresh[s].dirty, conf |-> refresh[s].conf],
           NEW row, row = [srv[s] EXCEPT !.pend = cand, !.st = "READY",
                             !.kept = IF slot[<<s, refresh[s].g>>].conf = refresh[s].conf
                                        THEN @ ELSE @ \cup {refresh[s].g}],
           StopRefresh(s),
           slot' = [slot EXCEPT ![<<s, refresh[s].g>>] = CompleteRefresh(@)],
           srv' = [srv EXCEPT ![s] = row],
           rebuild' \in BOOLEAN,
           leases' = (leases \ OwnedBy(s, srv[s].pend)) \cup {CandidateLease(s, cand)},
           UNCHANGED <<closer, attempts, allSlots, runtimeGen, portVars, phase, events>>
    PROVE  McpInv'
  <1> USE DEF McpInv
  <1> DEFINE g == refresh[s].g
             old == srv[s]
             new == CandidateLease(s, cand)
  <1>1. g \in Gens /\ refresh[s].conf \in Configs /\ refresh[s].dirty \in Nat
    BY RefreshFields DEF Relists, Captured
  <1>2. /\ cand \in Candidates /\ cand # None
        /\ cand.g = g /\ cand.gen = refresh[s].dirty /\ cand.conf = refresh[s].conf
    BY <1>1 DEF Candidates, None, Gens
  <1>3. old \in Rows /\ old.kept \subseteq Gens
    BY RowFields
  <1>4. /\ row \in Rows /\ row.pend = cand /\ row.st = "READY" /\ row.conf = old.conf
        /\ row.cur = old.cur /\ row.inst = old.inst /\ row.lost = old.lost /\ row.gen = old.gen
        /\ old.kept \subseteq row.kept
        /\ slot[<<s, g>>].conf = refresh[s].conf \/ g \in row.kept
    <2>1. "READY" \in ServerStates
      BY DEF ServerStates
    <2>2. (IF slot[<<s, g>>].conf = refresh[s].conf THEN old.kept ELSE old.kept \cup {g}) \in SUBSET Gens
      BY <1>1, <1>3
    <2>3. row.kept = IF slot[<<s, g>>].conf = refresh[s].conf THEN old.kept ELSE old.kept \cup {g}
      BY <1>3 DEF Rows
    <2>4. row \in Rows
      BY <1>2, <1>3, <2>1, <2>2 DEF Rows
    <2>5. /\ row.pend = cand /\ row.st = "READY" /\ row.conf = old.conf
          /\ row.cur = old.cur /\ row.inst = old.inst /\ row.lost = old.lost /\ row.gen = old.gen
      BY <1>3 DEF Rows
    <2> QED BY <2>3, <2>4, <2>5
  <1>5. srv' \in [Servers -> Rows] /\ \A t \in Servers : srv'[t] = IF t = s THEN row ELSE srv[t]
    BY <1>4 DEF TypeOK
  <1>6. /\ refresh' \in [Servers -> Refreshes] /\ refresh'[s] = NoRefresh
        /\ \A t \in Servers : refresh'[t] \in {refresh[t], NoRefresh}
    BY RefreshStops
  <1>7. \A t \in Servers, h \in Gens :
           slot'[<<t, h>>] = IF t = s /\ h = g THEN CompleteRefresh(slot[<<t, h>>]) ELSE slot[<<t, h>>]
    BY <1>1 DEF TypeOK, Slots
  <1>8. slot[<<s, g>>] \in SlotStates
    BY <1>1, SlotFields
  <1>9. /\ slot'[<<s, g>>] \in SlotStates /\ slot'[<<s, g>>].fence = "OPEN"
        /\ slot'[<<s, g>>].accepting /\ slot'[<<s, g>>].dirty = refresh[s].dirty
        /\ slot'[<<s, g>>].client = slot[<<s, g>>].client
        /\ slot'[<<s, g>>].conf = slot[<<s, g>>].conf
    BY <1>1, <1>7, <1>8, SlotOperations
  <1>10. slot' \in [Slots -> SlotStates]
    BY <1>1, <1>8, SlotOperations DEF TypeOK, Slots
  <1>11. SlotsStand
    BY <1>7, <1>9 DEF SlotsStand
  <1>12. slot[<<s, g>>].client = "open" /\ <<s, g>> \in allSlots
    <2>1. ~Unseen(s, g)
      BY DEF Unseen
    <2>2. slot[<<s, g>>].client # "none"
      BY <1>1, <2>1 DEF Tasks
    <2> QED BY <1>1, <2>2, SlotFields DEF Clients
  <1>13. /\ new \in Leases /\ new.s = s /\ new.g = g /\ new.gen = refresh[s].dirty
         /\ new.kind = "candidate"
    BY <1>2, CandidateLeaseFields, CandidateLeaseTypes
  <1>14. /\ leases' \subseteq leases \cup {new} /\ new \in leases'
         /\ \A l \in leases : l.kind # "candidate" => l \in leases'
    BY CandidateLeaseFields DEF OwnedBy
  <1>15. /\ UNCHANGED <<surface, borrow, call, preview>> /\ Closed' = Closed
         /\ phase = "open" /\ phase' = "open"
    BY DEF portVars, Closed
  <1>16. \A t \in Servers, h \in Gens : t # s \/ h # g => (Unleased(t, h) => Unleased(t, h)')
    BY <1>13, <1>14 DEF Unleased
  <1> HIDE DEF g, old, new
  <1>17. NothingSeen
    <2>1. SUFFICES ASSUME NEW t \in Servers, NEW h \in Gens, Unseen(t, h) PROVE Unseen(t, h)'
      BY DEF NothingSeen
    <2>2. t # s \/ h # g
      BY <2>1 DEF Unseen, g
    <2>3. Unleased(t, h)'
      BY <1>16, <2>1, <2>2 DEF Unseen
    <2>4. h # 0
      BY DEF Gens
    <2>5. h \notin {srv'[t].cur, srv'[t].pend.g, srv'[t].inst.g, refresh'[t].g}
      BY <1>2, <1>4, <1>5, <1>6, <2>1, <2>2, <2>4, NoRefreshFields DEF Unseen, old
    <2> QED BY <2>1, <2>3, <2>5 DEF Unseen
  <1>18. Tasks'
    BY <1>4, <1>5, <1>11, <1>17, RowFields, TasksKeep DEF old, Gens
  <1>19. Clients'
    <2>1. SUFFICES ASSUME NEW t \in Servers, NEW h \in Gens
                   PROVE  /\ slot'[<<t, h>>].client \in {"open", "stuck"} => <<t, h>> \in allSlots
                          /\ slot'[<<t, h>>].client \in {"closed", "stuck"} =>
                                slot'[<<t, h>>].fence = "CLOSED"
                          /\ slot'[<<t, h>>].accepting => slot'[<<t, h>>].fence = "OPEN"
                          /\ closer'[<<t, h>>] = "closing" =>
                                slot'[<<t, h>>].fence = "CLOSED" /\ Unleased(t, h)'
      BY <1>15 DEF Clients
    <2>2. CASE t = s /\ h = g
      <3>1. closer[<<s, g>>] # "closing"
        BY <1>1, <2>2 DEF Clients, g
      <3> QED BY <1>9, <1>12, <2>2, <3>1
    <2>3. CASE t # s \/ h # g
      BY <1>7, <1>16, <2>3 DEF Clients
    <2> QED BY <2>2, <2>3
  <1>20. Tokens'
    <2>1. SUFFICES ASSUME NEW l \in leases'
                   PROVE  /\ <<l.s, l.g>> \in allSlots
                          /\ slot'[<<l.s, l.g>>].client = "open"
                          /\ l.gen <= slot'[<<l.s, l.g>>].dirty
                          /\ slot'[<<l.s, l.g>>].fence = "DIRTY_FENCED" =>
                                l.gen < slot'[<<l.s, l.g>>].dirty
      BY <1>15 DEF Tokens
    <2>2. CASE l = new
      BY <1>1, <1>9, <1>12, <1>13, <2>2
    <2>3. CASE l \in leases
      <3>1. l.s \in Servers /\ l.g \in Gens /\ l.gen \in Nat
        BY <2>3, LeaseFields
      <3>2. CASE l.s = s /\ l.g = g
        BY <1>1, <1>9, <1>12, <2>3, <3>1, <3>2 DEF Tokens, g
      <3>3. CASE l.s # s \/ l.g # g
        BY <1>7, <2>3, <3>1, <3>3 DEF Tokens
      <3> QED BY <3>2, <3>3
    <2> QED BY <1>14, <2>2, <2>3
  <1>21. CurrentLeaseHasCurrentConfig'
    <2>1. SUFFICES ASSUME NEW l \in leases', Current(l.s, l)', l.g \notin srv'[l.s].kept
                   PROVE  slot'[<<l.s, l.g>>].conf = srv'[l.s].conf
      BY DEF CurrentLeaseHasCurrentConfig
    <2>2. CASE l = new
      BY <1>4, <1>5, <1>9, <1>13, <2>1, <2>2 DEF g, old
    <2>3. CASE l \in leases
      <3>1. l.s \in Servers /\ l.g \in Gens /\ l.gen \in Nat
        BY <2>3, LeaseFields
      <3>2. CASE l.s = s /\ l.g = g
        <4>1. l.gen < refresh[s].dirty
          BY <2>3, <3>2 DEF Tokens, g
        <4> QED BY <1>1, <1>9, <2>1, <3>1, <3>2, <4>1 DEF Current
      <3>3. CASE l.s # s \/ l.g # g
        <4>1. Current(l.s, l)
          BY <1>7, <2>1, <3>1, <3>3 DEF Current
        <4> QED BY <1>4, <1>5, <1>7, <2>1, <2>3, <3>1, <3>3, <4>1 DEF CurrentLeaseHasCurrentConfig, old
      <3> QED BY <3>2, <3>3
    <2> QED BY <1>14, <2>2, <2>3
  <1>22. Owned'
    <2>1. SUFFICES ASSUME NEW t \in Servers
                   PROVE  /\ \A c \in {srv'[t].pend, srv'[t].inst} : c # None =>
                                /\ CandidateLease(t, c) \in leases'
                                /\ slot'[<<t, c.g>>].fence = "OPEN" => slot'[<<t, c.g>>].accepting
                          /\ srv'[t].pend # None =>
                                /\ srv'[t].cur = srv'[t].pend.g
                                /\ srv'[t].inst.g = srv'[t].pend.g =>
                                      srv'[t].inst.gen < srv'[t].pend.gen
                          /\ srv'[t].pend = None => srv'[t].cur \in {0, srv'[t].inst.g}
                          /\ 0 \notin srv'[t].lost
      BY <1>15 DEF Owned, CandidateLease
    <2>2. ASSUME NEW c \in {srv[t].pend, srv[t].inst}, c # None,
                 t # s \/ c = srv[t].inst
          PROVE  /\ CandidateLease(t, c) \in leases'
                 /\ slot'[<<t, c.g>>].fence = "OPEN" => slot'[<<t, c.g>>].accepting
      <3>1. CandidateLease(t, c) \in leases
        BY <2>2 DEF Owned
      <3>2. CandidateLease(t, c) \notin OwnedBy(s, srv[s].pend)
        BY <2>2, LeasesApart, CandidateLeaseFields DEF OwnedBy
      <3>3. c.g \in Gens
        BY <2>2, RowFields, CandidateFields
      <3>4. slot[<<t, c.g>>].fence = "OPEN" => slot[<<t, c.g>>].accepting
        BY <2>2 DEF Owned
      <3> QED BY <1>7, <1>9, <3>1, <3>2, <3>3, <3>4
    <2>3. CASE t # s
      BY <1>5, <1>15, <2>2, <2>3 DEF Owned
    <2>4. CASE t = s
      <3>1. srv'[s] = row /\ row.inst = srv[s].inst /\ row.lost = srv[s].lost /\ row.cur = srv[s].cur
        BY <1>4, <1>5 DEF old
      <3>2. row.inst.g = g /\ row.inst # None => row.inst.gen < cand.gen
        <4>1. SUFFICES ASSUME srv[s].inst.g = g, srv[s].inst # None
                       PROVE  srv[s].inst.gen < cand.gen
          BY <3>1
        <4>2. CandidateLease(s, srv[s].inst) \in leases
          BY <4>1 DEF Owned
        <4> QED BY <1>2, <4>1, <4>2, CandidateLeaseFields DEF Tokens, g
      <3>3. row.inst.g = g => row.inst # None
        BY <1>1 DEF None, Gens
      <3>4. CandidateLease(s, cand) \in leases' /\ slot'[<<s, cand.g>>].accepting
        BY <1>2, <1>9, <1>14 DEF new
      <3>5. 0 \notin row.lost
        BY <3>1 DEF Owned
      <3>6. row.pend = cand /\ row.cur = g
        BY <1>4 DEF old, g
      <3>7. ASSUME NEW c \in {row.pend, row.inst}, c # None
            PROVE  /\ CandidateLease(s, c) \in leases'
                   /\ slot'[<<s, c.g>>].fence = "OPEN" => slot'[<<s, c.g>>].accepting
        <4>1. CASE c = cand
          BY <3>4, <4>1
        <4>2. CASE c = srv[s].inst
          BY <2>2, <2>4, <3>7, <4>2
        <4> QED BY <3>1, <3>6, <3>7, <4>1, <4>2
      <3>8. srv'[t].pend = cand /\ srv'[t].inst = row.inst /\ srv'[t].cur = g /\ srv'[t].lost = row.lost
        BY <2>4, <3>1, <3>6
      <3>9. \A c \in {srv'[t].pend, srv'[t].inst} : c # None =>
               /\ CandidateLease(t, c) \in leases'
               /\ slot'[<<t, c.g>>].fence = "OPEN" => slot'[<<t, c.g>>].accepting
        BY <2>4, <3>6, <3>7, <3>8
      <3> HIDE DEF McpInv
      <3> QED BY <1>2, <3>2, <3>3, <3>5, <3>8, <3>9
    <2> QED BY <2>3, <2>4
  <1>23. Used'
    BY <1>14, <1>15, UsedKeep
  <1>24. Relists'
    <2>1. SUFFICES ASSUME NEW t \in Servers, refresh'[t].pc \in Captured
                   PROVE  /\ refresh'[t].g \in Gens /\ refresh'[t].conf \in Configs
                          /\ refresh'[t].fenced =>
                                /\ slot'[<<t, refresh'[t].g>>].fence # "OPEN"
                                /\ refresh'[t].pc # "drain" => Quiet(t, refresh[t].g)'
      BY DEF Relists
    <2>2. t # s /\ refresh'[t] = refresh[t]
      BY <1>6, <2>1, NoRefreshFields DEF Captured
    <2>3. Quiet(t, refresh[t].g)' <=> Quiet(t, refresh[t].g)
      BY <1>15, <2>2 DEF Quiet
    <2> QED BY <1>7, <2>1, <2>2, <2>3 DEF Relists
  <1>25. Ends'
    BY <1>15 DEF Ends, Closed
  <1>26. OpenClientHasOwner'
    <2>1. \A t, h : Running(t, h)' = Running(t, h)
      BY DEF Running
    <2> QED BY <1>4, <1>5, <1>11, <1>15, <2>1, SMTT(30) DEF OpenClientHasOwner, SlotsStand, old
  <1>27. ReadyHasCatalog'
    BY <1>2, <1>4, <1>5, <1>15 DEF ReadyHasCatalog
  <1>28. TypeOK'
    BY <1>5, <1>6, <1>10, <1>13, <1>14, <1>15 DEF TypeOK
  <1> QED BY <1>18, <1>19, <1>20, <1>21, <1>22, <1>23, <1>24, <1>25, <1>26, <1>27, <1>28

(* A listing that came back is dropped, repeated, refused or reopens its slot. *)
LEMMA RefreshListedKeeps ==
    ASSUME McpInv, NEW s \in Servers, RefreshListed(s)
    PROVE  McpInv'
  <1> USE DEF McpInv
  <1> DEFINE r == refresh[s]
             old == srv[s]
             cand == [g |-> r.g, gen |-> r.dirty, conf |-> r.conf]
             row == [old EXCEPT !.pend = cand, !.st = "READY",
                       !.kept = IF slot[<<s, r.g>>].conf = r.conf THEN @ ELSE @ \cup {r.g}]
             mine == ~Closed /\ old.cur = r.g /\ old.conf = r.conf /\ old.gen = r.at
                       /\ slot[<<s, r.g>>].fence # "CLOSED"
             fresh == old.rgen = r.rg /\ slot[<<s, r.g>>].dirty = r.dirty
  <1>1. /\ r.pc = "list"
        /\ UNCHANGED <<attempts, allSlots, runtimeGen, portVars, phase, events>>
        /\ IF mine /\ ~fresh THEN SetRefresh(s, "sleep") ELSE StopRefresh(s)
        /\ \/ /\ ~mine \/ ~fresh
              /\ UNCHANGED <<srv, slot, leases, closer, rebuild>>
           \/ /\ mine /\ fresh
              /\ IF slot[<<s, r.g>>].fence # "DIRTY_FENCED" THEN ReportFailure(s, r.g, TRUE, {})
                 ELSE /\ slot' = [slot EXCEPT ![<<s, r.g>>] = CompleteRefresh(@)]
                      /\ srv' = [srv EXCEPT ![s] = row]
                      /\ rebuild' = Rebuilt(old, row)
                      /\ leases' = (leases \ OwnedBy(s, old.pend)) \cup {CandidateLease(s, cand)}
                      /\ UNCHANGED closer
    BY DEF RefreshListed
  <1> HIDE DEF mine, fresh
  <1>2. r.g \in Gens /\ ~Closed
    BY <1>1, NoRefreshFields DEF Relists, Ends, Captured
  <1>3. r \in Refreshes
    BY RefreshFields
  <1>4. CASE (~mine \/ ~fresh) /\ UNCHANGED <<srv, slot, leases, closer, rebuild>>
    <2>1. UNCHANGED refreshOnly
      BY <1>1, <1>4 DEF refreshOnly
    <2>2. CASE StopRefresh(s)
      BY <1>2, <2>1, <2>2, NoRefreshFields, RefreshMoves DEF StopRefresh, Captured
    <2>3. CASE SetRefresh(s, "sleep")
      <3> DEFINE next == [r EXCEPT !.pc = "sleep"]
      <3>1. next \in Refreshes /\ next.pc = "sleep" /\ next.g = refresh[s].g
        BY <1>3 DEF Refreshes
      <3>2. refresh' = [refresh EXCEPT ![s] = next]
        BY <2>3 DEF SetRefresh
      <3> HIDE DEF next
      <3> QED BY <1>2, <2>1, <3>1, <3>2, RefreshMoves DEF Captured
    <2> QED BY <1>1, <2>2, <2>3
  <1>5. CASE StopRefresh(s) /\ ReportFailure(s, r.g, TRUE, {})
    BY <1>1, <1>2, <1>5, RefreshStops, FailureReported DEF TypeOK, portVars
  <1>6. CASE /\ mine /\ fresh /\ slot[<<s, r.g>>].fence = "DIRTY_FENCED"
             /\ slot' = [slot EXCEPT ![<<s, r.g>>] = CompleteRefresh(@)]
             /\ srv' = [srv EXCEPT ![s] = row]
             /\ rebuild' = Rebuilt(old, row)
             /\ leases' = (leases \ OwnedBy(s, old.pend)) \cup {CandidateLease(s, cand)}
             /\ UNCHANGED closer
    <2>1. old.cur = r.g /\ old.conf = r.conf /\ slot[<<s, r.g>>].dirty = r.dirty
      BY <1>6 DEF mine, fresh
    <2>2. Rebuilt(old, row) \in BOOLEAN
      BY DEF Rebuilt, TypeOK
    <2>3. StopRefresh(s)
      BY <1>1, <1>6
    <2> QED BY <1>1, <1>2, <1>6, <2>1, <2>2, <2>3, RefreshReopens
  <1> QED BY <1>1, <1>4, <1>5, <1>6

-----------------------------------------------------------------------------
(* Attempts                                                                 *)

(* An attempt that moves to another program counter. *)
LEMMA AttemptMoves ==
    ASSUME McpInv, NEW a \in attempts, NEW pc \in AttemptPcs, Move(a, pc),
           pc \in {"reserve", "import"} <=> a.pc \in {"reserve", "import"},
           pc \in {"close_terminal", "close_retryable"} => slot'[<<a.s, a.g>>].fence = "CLOSED"
    PROVE  /\ attempts' \subseteq Attempts
           /\ AttemptsFollow
           /\ ~(Closed /\ attempts = {})
           /\ \A s, g : Running(s, g) => Running(s, g)'
  <1> DEFINE b == [a EXCEPT !.pc = pc]
  <1>1. a \in Attempts /\ TypeOK /\ Tasks
    BY AttemptFields DEF McpInv
  <1>2. b \in Attempts /\ b.s = a.s /\ b.g = a.g /\ b.conf = a.conf /\ b.pc = pc
    BY <1>1 DEF Attempts, AttemptPcs
  <1>3. attempts' = (attempts \ {a}) \cup {b}
    BY DEF Move
  <1> HIDE DEF b
  <1>4. attempts' \subseteq Attempts
    BY <1>1, <1>2, <1>3 DEF TypeOK
  <1>5. Follows(a, b)
    BY <1>2 DEF Follows
  <1>6. \A c \in attempts : Follows(c, c)
    BY DEF Follows
  <1>7. \A c, d \in attempts' : c.s = d.s /\ c.g = d.g => c = d
    BY <1>1, <1>2, <1>3 DEF Tasks
  <1>8. AttemptsFollow
    BY <1>3, <1>5, <1>6, <1>7 DEF AttemptsFollow
  <1>9. \A s, g : Running(s, g) => Running(s, g)'
    BY <1>2, <1>3 DEF Running
  <1> QED BY <1>4, <1>8, <1>9

(* An attempt gets the discovery reservation. *)
LEMMA ConnectReserveKeeps ==
    ASSUME McpInv, NEW a \in attempts, ConnectReserve(a)
    PROVE  McpInv'
  <1> USE DEF McpInv
  <1>1. /\ a.pc = "reserve" /\ Move(a, "import")
        /\ UNCHANGED <<srv, refresh, slot, allSlots, leases, closer, rebuild, runtimeGen,
                       surface, borrow, call, preview, phase, events>>
    BY DEF ConnectReserve, portVars
  <1>2. /\ attempts' \subseteq Attempts /\ AttemptsFollow /\ ~(Closed /\ attempts = {})
        /\ \A s, g : Running(s, g) => Running(s, g)'
    BY <1>1, AttemptMoves DEF AttemptPcs
  <1>3. SlotsFenced
    BY <1>1, SlotsStay
  <1>4. TypeOK'
    BY <1>1, <1>2 DEF TypeOK
  <1>5. Relists'
    BY <1>1 DEF Relists, Quiet
  <1>6. \A s \in Servers : SameRow(srv[s], srv'[s])
    BY <1>1, SameRowSelf
  <1> QED BY <1>1, <1>2, <1>3, <1>4, <1>5, <1>6, SupervisorKeeps

(* The row that a failed attempt leaves. *)
LEMMA FailedRowKeeps ==
    ASSUME TypeOK, NEW s \in Servers, NEW a, NEW terminal \in BOOLEAN
    PROVE  FailedRow(srv[s], a, terminal) \in Rows /\ SameRow(srv[s], FailedRow(srv[s], a, terminal))
  <1> DEFINE old == srv[s]
             st == IF Retained(old) THEN "READY"
                   ELSE IF terminal THEN "FAILED_TERMINAL" ELSE "FAILED_RETRYABLE"
             row == [old EXCEPT !.st = st, !.retry = @ \/ ~terminal]
  <1>1. old \in Rows /\ old.retry \in BOOLEAN
    BY RowFields
  <1>2. st \in ServerStates /\ (st = "READY" => old.inst # None)
    BY DEF ServerStates, Retained
  <1>3. (old.retry \/ ~terminal) \in BOOLEAN
    OBVIOUS
  <1> HIDE DEF st
  <1>4. row \in Rows
    BY <1>1, <1>2, <1>3 DEF Rows
  <1>5. SameRow(old, row)
    BY <1>1, <1>2 DEF SameRow, RowKeeps, Rows, Gens
  <1>6. FailedRow(old, a, terminal) \in {old, row}
    BY DEF FailedRow, st
  <1> QED BY <1>1, <1>4, <1>5, <1>6, SameRowSelf

(* A new row of one server that agrees with the old one on what it owns. *)
LEMMA OneRowKeeps ==
    ASSUME TypeOK, NEW s \in Servers, NEW row \in Rows, SameRow(srv[s], row),
           srv' = [srv EXCEPT ![s] = row]
    PROVE  srv' \in [Servers -> Rows] /\ \A t \in Servers : SameRow(srv[t], srv'[t])
  <1>1. \A t \in Servers : srv'[t] = IF t = s THEN row ELSE srv[t]
    BY DEF TypeOK
  <1> QED BY <1>1, SameRowSelf DEF TypeOK

(* _surface_rebuild_required stays a Boolean. *)
LEMMA RebuiltTypes == ASSUME TypeOK, NEW x, NEW y PROVE Rebuilt(x, y) \in BOOLEAN
  BY DEF Rebuilt, TypeOK

(* An attempt that ends before its slot exists settles its row. *)
LEMMA EndWithoutSlotKeeps ==
    ASSUME McpInv, NEW a \in attempts, NEW terminal \in BOOLEAN, EndWithoutSlot(a, terminal),
           a.pc \in {"reserve", "import"}, events' \in Nat
    PROVE  McpInv'
  <1> USE DEF McpInv
  <1>1. /\ attempts' = attempts \ {a}
        /\ srv' = [srv EXCEPT ![a.s] = FailedRow(srv[a.s], a, terminal)]
        /\ rebuild' = Rebuilt(srv[a.s], FailedRow(srv[a.s], a, terminal))
        /\ UNCHANGED <<refresh, slot, allSlots, leases, closer, runtimeGen, surface, borrow, call,
                       preview, phase>>
    BY DEF EndWithoutSlot, portVars
  <1>2. a.s \in Servers /\ a.g \in Gens
    BY AttemptFields
  <1>3. srv' \in [Servers -> Rows] /\ \A t \in Servers : SameRow(srv[t], srv'[t])
    BY <1>1, <1>2, FailedRowKeeps, OneRowKeeps
  <1>4. AttemptsFollow
    BY <1>1, AttemptsStay
  <1>5. slot[<<a.s, a.g>>].client = "none"
    BY DEF Tasks
  <1>6. \A s \in Servers, g \in Gens :
           Running(s, g) /\ slot'[<<s, g>>].client = "open" => Running(s, g)'
    BY <1>1, <1>5 DEF Running
  <1>7. SlotsFenced
    BY <1>1, SlotsStay
  <1>8. TypeOK'
    BY <1>1, <1>3, RebuiltTypes DEF TypeOK
  <1>9. Relists'
    BY <1>1 DEF Relists, Quiet
  <1>10. Closed /\ attempts = {} => attempts' = {}
    BY <1>1
  <1> QED BY <1>1, <1>3, <1>4, <1>6, <1>7, <1>8, <1>9, <1>10, SupervisorKeeps

(* An attempt that fails with a client fences the slot it alone knows. *)
LEMMA EndWithSlotKeeps ==
    ASSUME McpInv, NEW a \in attempts, NEW terminal \in BOOLEAN, EndWithSlot(a, terminal),
           a.pc \in {"open", "discover"}, events' \in Nat
    PROVE  McpInv'
  <1> USE DEF McpInv
  <1> DEFINE pc == IF terminal THEN "close_terminal" ELSE "close_retryable"
  <1>1. /\ Move(a, pc) /\ slot' = [slot EXCEPT ![<<a.s, a.g>>] = BeginClose(@)]
        /\ UNCHANGED <<srv, refresh, allSlots, leases, closer, rebuild, runtimeGen, surface,
                       borrow, call, preview, phase>>
    BY DEF EndWithSlot, portVars
  <1>2. a.s \in Servers /\ a.g \in Gens
    BY AttemptFields
  <1>3. \A sl \in Slots : slot'[sl] = IF sl \in {<<a.s, a.g>>} THEN BeginClose(slot[sl]) ELSE slot[sl]
    BY <1>1, <1>2 DEF TypeOK
  <1>4. slot' = [sl \in Slots |-> IF sl \in {<<a.s, a.g>>} THEN BeginClose(slot[sl]) ELSE slot[sl]]
    BY <1>1, <1>3 DEF TypeOK
  <1>5. /\ slot' \in [Slots -> SlotStates] /\ SlotsFenced
        /\ \A t \in Servers, h \in Gens :
              slot'[<<t, h>>] = IF <<t, h>> \in {<<a.s, a.g>>} THEN BeginClose(slot[<<t, h>>])
                                ELSE slot[<<t, h>>]
    BY <1>4, SomeClosed
  <1>6. slot'[<<a.s, a.g>>].fence = "CLOSED"
    BY <1>2, <1>5, SlotFields, SlotOperations
  <1>7. /\ attempts' \subseteq Attempts /\ AttemptsFollow /\ ~(Closed /\ attempts = {})
        /\ \A s, g : Running(s, g) => Running(s, g)'
    BY <1>1, <1>6, AttemptMoves DEF AttemptPcs
  <1>8. \A s \in Servers, g \in Gens :
           slot'[<<s, g>>].fence = "OPEN" /\ slot[<<s, g>>].accepting => slot'[<<s, g>>].accepting
    BY <1>5, <1>6
  <1>9. TypeOK'
    BY <1>1, <1>5, <1>7 DEF TypeOK
  <1>10. Relists'
    BY <1>1, <1>5, RelistsKeep
  <1>11. \A s \in Servers : SameRow(srv[s], srv'[s])
    BY <1>1, SameRowSelf
  <1> QED BY <1>1, <1>5, <1>7, <1>8, <1>9, <1>10, <1>11, SupervisorKeeps

(* An attempt that is cancelled or fails, before or after its slot exists. *)
LEMMA ConnectFailKeeps ==
    ASSUME McpInv, NEW a \in attempts, ConnectFail(a)
    PROVE  McpInv'
  <1>1. TypeOK /\ events \in Nat
    BY DEF McpInv, TypeOK
  <1>2. CASE a.pc \in {"reserve", "import"} /\ EndWithoutSlot(a, FALSE) /\ UNCHANGED events
    BY <1>1, <1>2, EndWithoutSlotKeeps
  <1>3. CASE a.pc \in {"open", "discover"} /\ EndWithSlot(a, FALSE) /\ UNCHANGED events
    BY <1>1, <1>3, EndWithSlotKeeps
  <1>4. CASE a.pc \in {"open", "discover"} /\ Event("connect_error") /\ EndWithSlot(a, FALSE)
    BY <1>1, <1>4, Counted, EndWithSlotKeeps
  <1>5. CASE a.pc = "discover" /\ Event("catalog_error") /\ EndWithSlot(a, TRUE)
    BY <1>1, <1>5, Counted, EndWithSlotKeeps
  <1> QED BY <1>2, <1>3, <1>4, <1>5 DEF ConnectFail

(* An attempt whose client is open goes on to discover, or is stale. *)
LEMMA ConnectOpenedKeeps ==
    ASSUME McpInv, NEW a \in attempts, ConnectOpened(a)
    PROVE  McpInv'
  <1> USE DEF McpInv
  <1> DEFINE old == srv[a.s]
             row == [old EXCEPT !.st = IF Retained(old) THEN @ ELSE "DISCOVERING"]
  <1>1. /\ a.pc = "open" /\ UNCHANGED events
        /\ IF Stale(a) THEN EndWithSlot(a, FALSE)
           ELSE /\ srv' = [srv EXCEPT ![a.s] = row]
                /\ rebuild' = Rebuilt(old, row)
                /\ Move(a, "discover")
                /\ UNCHANGED <<refresh, slot, allSlots, leases, closer, runtimeGen, surface,
                               borrow, call, preview, phase>>
    BY DEF ConnectOpened, portVars
  <1>2. CASE Stale(a)
    BY <1>1, <1>2, EndWithSlotKeeps DEF TypeOK
  <1>3. CASE ~Stale(a)
    <2>1. a.s \in Servers /\ old \in Rows
      BY AttemptFields, RowFields
    <2>2. row \in Rows /\ SameRow(old, row)
      <3>1. (IF Retained(old) THEN old.st ELSE "DISCOVERING") \in ServerStates
        BY <2>1 DEF Rows, ServerStates
      <3>2. row \in Rows
        BY <2>1, <3>1 DEF Rows
      <3>3. SameRow(old, row)
        BY <2>1 DEF SameRow, RowKeeps, Rows, Gens
      <3> QED BY <3>2, <3>3
    <2> HIDE DEF row
    <2>3. srv' \in [Servers -> Rows] /\ \A t \in Servers : SameRow(srv[t], srv'[t])
      BY <1>1, <1>3, <2>1, <2>2, OneRowKeeps
    <2>4. /\ attempts' \subseteq Attempts /\ AttemptsFollow /\ ~(Closed /\ attempts = {})
          /\ \A s, g : Running(s, g) => Running(s, g)'
      BY <1>1, <1>3, AttemptMoves DEF AttemptPcs
    <2>5. SlotsFenced
      BY <1>1, <1>3, SlotsStay
    <2>6. TypeOK'
      BY <1>1, <1>3, <2>3, <2>4, RebuiltTypes DEF TypeOK
    <2>7. Relists'
      BY <1>1, <1>3 DEF Relists, Quiet
    <2> QED BY <1>1, <1>3, <2>3, <2>4, <2>5, <2>6, <2>7, SupervisorKeeps
  <1> QED BY <1>2, <1>3

(* The slot of an attempt begins: nothing knew it before. *)
LEMMA ConnectCreateKeeps ==
    ASSUME McpInv, NEW a \in attempts, ConnectCreate(a)
    PROVE  McpInv'
  <1> USE DEF McpInv
  <1>1. a.pc = "import" /\ UNCHANGED events
    BY DEF ConnectCreate
  <1>2. CASE Stale(a) /\ EndWithoutSlot(a, FALSE)
    BY <1>1, <1>2, EndWithoutSlotKeeps DEF TypeOK
  <1>3. CASE /\ ~Stale(a)
             /\ slot' = [slot EXCEPT ![<<a.s, a.g>>] = NewSlot(a.conf)]
             /\ allSlots' = allSlots \cup {<<a.s, a.g>>}
             /\ Move(a, "open")
             /\ UNCHANGED <<srv, refresh, leases, closer, rebuild, runtimeGen, portVars, phase>>
    <2> DEFINE b == [a EXCEPT !.pc = "open"]
    <2>1. /\ a \in Attempts /\ a.s \in Servers /\ a.g \in Gens /\ a.conf \in Configs
          /\ ~Closed /\ Closed' = Closed
      BY <1>3, AttemptFields DEF Stale, Closed
    <2>2. b \in Attempts /\ b.s = a.s /\ b.g = a.g /\ b.conf = a.conf /\ b.pc = "open"
      BY <2>1 DEF Attempts
    <2>3. attempts' = (attempts \ {a}) \cup {b}
      BY <1>3 DEF Move
    <2> HIDE DEF b
    <2>4. /\ NewSlot(a.conf) \in SlotStates
          /\ NewSlot(a.conf).client = "open" /\ NewSlot(a.conf).conf = a.conf
          /\ NewSlot(a.conf).fence = "OPEN" /\ NewSlot(a.conf).accepting
      BY <2>1 DEF NewSlot, SlotStates
    <2>5. \A t \in Servers, h \in Gens :
             slot'[<<t, h>>] = IF t = a.s /\ h = a.g THEN NewSlot(a.conf) ELSE slot[<<t, h>>]
      BY <1>3, <2>1 DEF TypeOK, Slots
    <2>6. slot' \in [Slots -> SlotStates]
      BY <1>3, <2>1, <2>4 DEF TypeOK, Slots
    <2>7. UNCHANGED <<surface, borrow, call, preview>>
      BY <1>3 DEF portVars
    <2>8. Unseen(a.s, a.g) /\ slot[<<a.s, a.g>>].client = "none"
      BY <1>1 DEF Tasks
    <2>9. /\ \A t \in Servers, h \in Gens : Unseen(t, h)' <=> Unseen(t, h)
          /\ \A t \in Servers, h \in Gens : Unleased(t, h)' <=> Unleased(t, h)
      BY <1>3 DEF Unseen, Unleased
    <2>10. \A l \in leases : l.s \in Servers /\ l.g \in Gens /\ (l.s # a.s \/ l.g # a.g)
      BY <2>8, LeaseFields DEF Unseen, Unleased
    <2>11. Tasks'
      <3>1. \A c, d \in attempts' : c.s = d.s /\ c.g = d.g => c = d
        BY <2>2, <2>3 DEF Tasks
      <3>2. ASSUME NEW c \in attempts'
            PROVE  /\ c.g <= srv'[c.s].gen
                   /\ Unseen(c.s, c.g)'
                   /\ c.pc \in {"reserve", "import"} => slot'[<<c.s, c.g>>].client = "none"
                   /\ c.pc \notin {"reserve", "import"} =>
                         slot'[<<c.s, c.g>>].client = "open" /\ slot'[<<c.s, c.g>>].conf = c.conf
                   /\ c.pc \in {"close_terminal", "close_retryable"} =>
                         slot'[<<c.s, c.g>>].fence = "CLOSED"
        <4>1. CASE c = b
          BY <1>3, <2>1, <2>2, <2>4, <2>5, <2>8, <2>9, <4>1 DEF Tasks
        <4>2. CASE c \in attempts /\ c # a
          <5>1. c.s # a.s \/ c.g # a.g
            BY <4>2 DEF Tasks
          <5>2. c.s \in Servers /\ c.g \in Gens
            BY <4>2, AttemptFields
          <5> QED BY <1>3, <2>5, <2>9, <4>2, <5>1, <5>2 DEF Tasks
        <4> QED BY <2>3, <4>1, <4>2
      <3>3. ASSUME NEW t \in Servers, NEW h \in Gens
            PROVE  /\ slot'[<<t, h>>].client = "none" => Unseen(t, h)'
                   /\ h > srv'[t].gen => slot'[<<t, h>>].client = "none"
        <4>1. CASE t = a.s /\ h = a.g
          <5>1. h <= srv[t].gen /\ srv[t].gen \in Gens
            BY <4>1, RowFields DEF Tasks
          <5> QED BY <1>3, <2>4, <2>5, <4>1, <5>1 DEF Gens
        <4>2. CASE t # a.s \/ h # a.g
          BY <1>3, <2>5, <2>9, <4>2 DEF Tasks
        <4> QED BY <4>1, <4>2
      <3> QED BY <3>1, <3>2, <3>3 DEF Tasks
    <2>12. Clients'
      <3>1. closer[<<a.s, a.g>>] = "none"
        BY <2>8 DEF Unseen
      <3>2. SUFFICES ASSUME NEW t \in Servers, NEW h \in Gens
                     PROVE  /\ slot'[<<t, h>>].client \in {"open", "stuck"} => <<t, h>> \in allSlots'
                            /\ slot'[<<t, h>>].client \in {"closed", "stuck"} =>
                                  slot'[<<t, h>>].fence = "CLOSED"
                            /\ slot'[<<t, h>>].accepting => slot'[<<t, h>>].fence = "OPEN"
                            /\ closer'[<<t, h>>] = "closing" =>
                                  slot'[<<t, h>>].fence = "CLOSED" /\ Unleased(t, h)'
        BY <2>1 DEF Clients
      <3>3. CASE t = a.s /\ h = a.g
        BY <1>3, <2>1, <2>4, <2>5, <3>1, <3>3
      <3>4. CASE t # a.s \/ h # a.g
        BY <1>3, <2>5, <2>9, <3>4 DEF Clients
      <3> QED BY <3>3, <3>4
    <2>13. Tokens'
      <3>1. SUFFICES ASSUME NEW l \in leases
                     PROVE  /\ <<l.s, l.g>> \in allSlots'
                            /\ slot'[<<l.s, l.g>>].client = "open"
                            /\ l.gen <= slot'[<<l.s, l.g>>].dirty
                            /\ slot'[<<l.s, l.g>>].fence = "DIRTY_FENCED" =>
                                  l.gen < slot'[<<l.s, l.g>>].dirty
        BY <1>3, <2>1 DEF Tokens
      <3>2. slot'[<<l.s, l.g>>] = slot[<<l.s, l.g>>]
        BY <2>5, <2>10
      <3> QED BY <1>3, <2>1, <3>2 DEF Tokens
    <2>14. Owned'
      <3>1. \A s \in Servers : \A cand \in {srv[s].pend, srv[s].inst} : cand # None =>
               cand.g \in Gens /\ (s # a.s \/ cand.g # a.g)
        BY <2>8, RowFields, CandidateFields DEF Unseen
      <3>2. ASSUME NEW s \in Servers, NEW cand \in {srv[s].pend, srv[s].inst}, cand # None
            PROVE  /\ CandidateLease(s, cand) \in leases
                   /\ slot'[<<s, cand.g>>].fence = "OPEN" => slot'[<<s, cand.g>>].accepting
        <4>1. slot'[<<s, cand.g>>] = slot[<<s, cand.g>>]
          BY <2>5, <3>1, <3>2
        <4> QED BY <3>2, <4>1 DEF Owned
      <3> QED BY <1>3, <2>1, <3>2 DEF Owned, CandidateLease
    <2>15. Used'
      BY <1>3, <2>7 DEF Used, CallLease, PreviewLease
    <2>16. Relists'
      <3>1. \A s \in Servers : refresh[s].pc \in Captured => s # a.s \/ refresh[s].g # a.g
        BY <2>8 DEF Unseen
      <3>2. \A s, g : Quiet(s, g)' <=> Quiet(s, g)
        BY <2>7 DEF Quiet
      <3> QED BY <1>3, <2>5, <3>1, <3>2 DEF Relists
    <2>17. Ends'
      BY <1>3, <2>1 DEF Ends, Closed
    <2>18. OpenClientHasOwner'
      <3>1. \A s, g : Running(s, g)' <=> Running(s, g)
        BY <2>2, <2>3 DEF Running
      <3>2. Running(a.s, a.g)
        BY DEF Running
      <3> QED BY <1>3, <2>5, <3>1, <3>2 DEF OpenClientHasOwner
    <2>19. CurrentLeaseHasCurrentConfig'
      <3>1. \A l \in leases : Current(l.s, l)' <=> Current(l.s, l)
        BY <2>5, <2>10 DEF Current
      <3> QED BY <1>3, <2>5, <2>10, <3>1 DEF CurrentLeaseHasCurrentConfig
    <2>20. ReadyHasCatalog'
      BY <1>3, <2>1 DEF ReadyHasCatalog
    <2>21. TypeOK'
      BY <1>1, <1>3, <2>1, <2>2, <2>3, <2>6, <2>7 DEF TypeOK, Slots
    <2> QED BY <2>11, <2>12, <2>13, <2>14, <2>15, <2>16, <2>17, <2>18, <2>19, <2>20, <2>21
  <1> QED BY <1>2, <1>3 DEF ConnectCreate

(* A slot whose client ends is a slot. *)
LEMMA ClientTypes ==
    ASSUME TypeOK, NEW s \in Servers, NEW g \in Gens,
           NEW x \in {"none", "open", "closed", "stuck"}
    PROVE  [slot EXCEPT ![<<s, g>>].client = x] \in [Slots -> SlotStates]
  <1>1. slot \in [Slots -> SlotStates] /\ slot[<<s, g>>] \in SlotStates
    BY SlotFields DEF TypeOK
  <1>2. [slot[<<s, g>>] EXCEPT !.client = x] \in SlotStates
    BY <1>1 DEF SlotStates
  <1> QED BY <1>1, <1>2

(* The client of a fenced slot without leases goes away, or its close raised. *)
LEMMA ClientEnds ==
    ASSUME McpInv, TypeOK', NEW s \in Servers, NEW g \in Gens,
           slot[<<s, g>>].fence = "CLOSED", Unleased(s, g), slot[<<s, g>>].client # "none",
           \/ /\ slot[<<s, g>>].client # "stuck"
              /\ slot' = [slot EXCEPT ![<<s, g>>].client = "closed"]
              /\ allSlots' = allSlots \ {<<s, g>>}
           \/ /\ slot[<<s, g>>].client \in {"open", "stuck"}
              /\ slot' = [slot EXCEPT ![<<s, g>>].client = "stuck"]
              /\ UNCHANGED allSlots,
           attempts' \subseteq attempts,
           \A a \in attempts' : a.s # s \/ a.g # g,
           \A t \in Servers, h \in Gens :
              (t # s \/ h # g) /\ Running(t, h) => Running(t, h)',
           \A t \in Servers :
              /\ RowKeeps(srv[t], srv'[t])
              /\ srv'[t].pend = srv[t].pend /\ srv'[t].inst = srv[t].inst
              /\ srv'[t].cur = srv[t].cur \/ (t = s /\ srv[t].cur = g /\ srv'[t].cur = 0)
              /\ srv'[t].st = "READY" =>
                    srv[t].st = "READY" \/ srv[t].pend # None \/ srv[t].inst # None,
           closer'[<<s, g>>] \in {"none", closer[<<s, g>>]},
           \A t \in Servers, h \in Gens :
              t # s \/ h # g => closer'[<<t, h>>] = closer[<<t, h>>],
           UNCHANGED <<refresh, leases, borrow, call, preview, phase>>
    PROVE  McpInv'
  <1> USE DEF McpInv
  <1>0. PICK x \in {"closed", "stuck"} :
           /\ slot' = [slot EXCEPT ![<<s, g>>].client = x]
           /\ x = "closed" => slot[<<s, g>>].client # "stuck" /\ allSlots' = allSlots \ {<<s, g>>}
           /\ x = "stuck" => slot[<<s, g>>].client \in {"open", "stuck"} /\ allSlots' = allSlots
    OBVIOUS
  <1>1. \A t \in Servers, h \in Gens : t # s \/ h # g => slot'[<<t, h>>] = slot[<<t, h>>]
    BY <1>0 DEF TypeOK, Slots
  <1>2. /\ slot'[<<s, g>>].client = x /\ slot'[<<s, g>>].fence = "CLOSED"
        /\ slot'[<<s, g>>].conf = slot[<<s, g>>].conf
        /\ slot'[<<s, g>>].dirty = slot[<<s, g>>].dirty
        /\ slot'[<<s, g>>].accepting = slot[<<s, g>>].accepting
    <2>1. slot[<<s, g>>] \in SlotStates
      BY SlotFields
    <2>2. slot'[<<s, g>>] = [slot[<<s, g>>] EXCEPT !.client = x]
      BY <1>0 DEF TypeOK, Slots
    <2> QED BY <2>1, <2>2 DEF SlotStates
  <1>3. Closed' = Closed /\ (\A t, h : Unleased(t, h)' <=> Unleased(t, h))
    BY DEF Closed, Unleased
  <1>4. NothingSeen
    <2>1. SUFFICES ASSUME NEW t \in Servers, NEW h \in Gens, Unseen(t, h) PROVE Unseen(t, h)'
      BY DEF NothingSeen
    <2>2. h \notin {srv'[t].cur, srv'[t].pend.g, srv'[t].inst.g, refresh'[t].g}
      BY <2>1 DEF Unseen, Gens
    <2>3. closer'[<<t, h>>] = "none"
      BY <2>1 DEF Unseen
    <2> QED BY <1>3, <2>1, <2>2, <2>3 DEF Unseen
  <1>5. Tasks'
    <2>1. \A a, b \in attempts' : a.s = b.s /\ a.g = b.g => a = b
      BY DEF Tasks
    <2>2. ASSUME NEW a \in attempts'
          PROVE  /\ a.g <= srv'[a.s].gen
                 /\ Unseen(a.s, a.g)'
                 /\ a.pc \in {"reserve", "import"} => slot'[<<a.s, a.g>>].client = "none"
                 /\ a.pc \notin {"reserve", "import"} =>
                       slot'[<<a.s, a.g>>].client = "open" /\ slot'[<<a.s, a.g>>].conf = a.conf
                 /\ a.pc \in {"close_terminal", "close_retryable"} =>
                       slot'[<<a.s, a.g>>].fence = "CLOSED"
      <3>1. a \in attempts /\ a.s \in Servers /\ a.g \in Gens /\ (a.s # s \/ a.g # g)
        BY AttemptFields
      <3>2. slot'[<<a.s, a.g>>] = slot[<<a.s, a.g>>] /\ Unseen(a.s, a.g)'
        BY <1>1, <1>4, <3>1 DEF Tasks, NothingSeen
      <3>3. a.g <= srv'[a.s].gen
        <4>1. a.g <= srv[a.s].gen /\ srv[a.s].gen \in Gens /\ srv'[a.s].gen \in Gens
          BY <3>1, RowFields DEF Tasks, TypeOK, Rows
        <4>2. srv'[a.s].gen >= srv[a.s].gen
          BY <3>1 DEF RowKeeps
        <4> QED BY <3>1, <4>1, <4>2 DEF Gens
      <3> QED BY <3>1, <3>2, <3>3 DEF Tasks
    <2>3. ASSUME NEW t \in Servers, NEW h \in Gens
          PROVE  /\ slot'[<<t, h>>].client = "none" => Unseen(t, h)'
                 /\ h > srv'[t].gen => slot'[<<t, h>>].client = "none"
      <3>1. h > srv'[t].gen => h > srv[t].gen
        BY RowFields DEF RowKeeps, TypeOK, Rows, Gens
      <3>2. CASE t = s /\ h = g
        BY <1>2, <3>1, <3>2 DEF Tasks
      <3>3. CASE t # s \/ h # g
        BY <1>1, <1>4, <3>1, <3>3 DEF Tasks, NothingSeen
      <3> QED BY <3>2, <3>3
    <2> QED BY <2>1, <2>2, <2>3 DEF Tasks
  <1>6. Clients'
    <2>1. SUFFICES ASSUME NEW t \in Servers, NEW h \in Gens
                   PROVE  /\ slot'[<<t, h>>].client \in {"open", "stuck"} => <<t, h>> \in allSlots'
                          /\ slot'[<<t, h>>].client \in {"closed", "stuck"} =>
                                slot'[<<t, h>>].fence = "CLOSED"
                          /\ slot'[<<t, h>>].accepting => slot'[<<t, h>>].fence = "OPEN"
                          /\ closer'[<<t, h>>] = "closing" =>
                                slot'[<<t, h>>].fence = "CLOSED" /\ Unleased(t, h)'
                          /\ Closed' /\ <<t, h>> \in allSlots' => slot'[<<t, h>>].fence = "CLOSED"
      BY DEF Clients
    <2>2. CASE t = s /\ h = g
      <3>1. ~slot[<<s, g>>].accepting
        BY DEF Clients
      <3>2. x = "stuck" => <<s, g>> \in allSlots'
        BY <1>0 DEF Clients
      <3> QED BY <1>2, <1>3, <2>2, <3>1, <3>2
    <2>3. CASE t # s \/ h # g
      <3>1. <<t, h>> \in allSlots' <=> <<t, h>> \in allSlots
        BY <1>0, <2>3
      <3> QED BY <1>1, <1>3, <2>3, <3>1 DEF Clients
    <2> QED BY <2>2, <2>3
  <1>7. \A l \in leases : l.s \in Servers /\ l.g \in Gens /\ (l.s # s \/ l.g # g)
    BY LeaseFields DEF Unleased
  <1>8. Tokens'
    <2>1. SUFFICES ASSUME NEW l \in leases
                   PROVE  /\ <<l.s, l.g>> \in allSlots'
                          /\ ~Closed => slot'[<<l.s, l.g>>].client = "open"
                          /\ l.gen <= slot'[<<l.s, l.g>>].dirty
                          /\ slot'[<<l.s, l.g>>].fence = "DIRTY_FENCED" =>
                                l.gen < slot'[<<l.s, l.g>>].dirty
      BY <1>3 DEF Tokens
    <2>2. slot'[<<l.s, l.g>>] = slot[<<l.s, l.g>>] /\ <<l.s, l.g>> # <<s, g>>
      BY <1>1, <1>7
    <2> QED BY <1>0, <2>2 DEF Tokens
  <1>9. Owned'
    <2>1. SUFFICES ASSUME NEW t \in Servers
                   PROVE  /\ \A c \in {srv'[t].pend, srv'[t].inst} : c # None =>
                                /\ CandidateLease(t, c) \in leases'
                                /\ slot'[<<t, c.g>>].fence = "OPEN" => slot'[<<t, c.g>>].accepting
                          /\ srv'[t].pend # None =>
                                /\ srv'[t].cur = srv'[t].pend.g
                                /\ srv'[t].inst.g = srv'[t].pend.g =>
                                      srv'[t].inst.gen < srv'[t].pend.gen
                          /\ ~Closed /\ srv'[t].pend = None => srv'[t].cur \in {0, srv'[t].inst.g}
                          /\ Closed => srv'[t].pend = None /\ srv'[t].inst = None
                          /\ 0 \notin srv'[t].lost
      BY <1>3 DEF Owned, CandidateLease
    <2>2. ASSUME NEW c \in {srv[t].pend, srv[t].inst}, c # None
          PROVE  /\ CandidateLease(t, c) \in leases
                 /\ slot'[<<t, c.g>>].fence = "OPEN" => slot'[<<t, c.g>>].accepting
                 /\ t # s \/ c.g # g
      <3>1. CandidateLease(t, c) \in leases
        BY <2>2 DEF Owned
      <3>2. c.g \in Gens /\ (t # s \/ c.g # g)
        BY <1>7, <3>1, CandidateLeaseFields
      <3>3. slot[<<t, c.g>>].fence = "OPEN" => slot[<<t, c.g>>].accepting
        BY <2>2 DEF Owned
      <3>4. slot'[<<t, c.g>>] = slot[<<t, c.g>>]
        BY <1>1, <3>2
      <3> QED BY <3>1, <3>2, <3>3, <3>4
    <2>3. srv[t].pend # None => srv'[t].cur = srv[t].pend.g
      BY <2>2 DEF Owned
    <2>4. ~Closed /\ srv[t].pend = None => srv'[t].cur \in {0, srv[t].inst.g}
      BY DEF Owned
    <2>5. /\ srv[t].pend # None /\ srv[t].inst.g = srv[t].pend.g => srv[t].inst.gen < srv[t].pend.gen
          /\ Closed => srv[t].pend = None /\ srv[t].inst = None
          /\ 0 \notin srv'[t].lost
      BY DEF Owned, RowKeeps
    <2> HIDE DEF McpInv
    <2> QED BY <2>2, <2>3, <2>4, <2>5
  <1>10. Used'
    BY DEF Used, CallLease, PreviewLease
  <1>11. Relists'
    <2>1. \A t, h : Quiet(t, h)' <=> Quiet(t, h)
      BY DEF Quiet
    <2>2. \A t \in Servers, h \in Gens : slot'[<<t, h>>].fence = slot[<<t, h>>].fence
      BY <1>1, <1>2
    <2> QED BY <2>1, <2>2 DEF Relists
  <1>12. Ends'
    <2>1. \A t \in Servers, h \in Gens : slot'[<<t, h>>].client = "open" => slot[<<t, h>>].client = "open"
      BY <1>1, <1>2
    <2>2. ASSUME phase \in {"retired", "done"}
          PROVE  allSlots' = {sl \in Slots : slot'[sl].client = "stuck"}
      <3>1. allSlots = {sl \in Slots : slot[sl].client = "stuck"} /\ slot[<<s, g>>].client # "open"
        BY <2>2 DEF Ends
      <3>2. \A sl \in Slots : sl # <<s, g>> => slot'[sl] = slot[sl]
        BY <1>1 DEF Slots
      <3>3. <<s, g>> \in Slots
        BY DEF Slots
      <3>4. CASE x = "closed"
        BY <1>0, <1>2, <3>1, <3>2, <3>3, <3>4
      <3>5. CASE x = "stuck"
        BY <1>0, <1>2, <3>1, <3>2, <3>3, <3>5
      <3> QED BY <3>4, <3>5
    <2> QED BY <1>3, <2>1, <2>2 DEF Ends
  <1>13. OpenClientHasOwner'
    BY <1>1, <1>2 DEF OpenClientHasOwner, RowKeeps
  <1>14. CurrentLeaseHasCurrentConfig'
    <2>1. \A l \in leases : Current(l.s, l)' <=> Current(l.s, l)
      BY <1>1, <1>7 DEF Current
    <2> QED BY <1>1, <1>7, <2>1 DEF CurrentLeaseHasCurrentConfig, RowKeeps
  <1>15. ReadyHasCatalog'
    BY <1>3 DEF ReadyHasCatalog
  <1> QED BY <1>5, <1>6, <1>8, <1>9, <1>10, <1>11, <1>12, <1>13, <1>14, <1>15

(* The failed attempt closed its client, or could not. *)
LEMMA ConnectClosedKeeps ==
    ASSUME McpInv, NEW a \in attempts, ConnectClosed(a)
    PROVE  McpInv'
  <1> USE DEF McpInv
  <1> DEFINE row == FailedRow(srv[a.s], a, a.pc = "close_terminal")
  <1>1. /\ a.pc \in {"close_terminal", "close_retryable"} /\ attempts' = attempts \ {a}
        /\ UNCHANGED <<refresh, leases, closer, runtimeGen, surface, borrow, call, preview, phase>>
        /\ \/ /\ slot' = [slot EXCEPT ![<<a.s, a.g>>].client = "closed"]
              /\ allSlots' = allSlots \ {<<a.s, a.g>>}
              /\ srv' = [srv EXCEPT ![a.s] = row] /\ rebuild' = Rebuilt(srv[a.s], row)
              /\ UNCHANGED events
           \/ /\ Event("close_error")
              /\ slot' = [slot EXCEPT ![<<a.s, a.g>>].client = "stuck"]
              /\ UNCHANGED <<allSlots, srv, rebuild>>
    BY DEF ConnectClosed, portVars
  <1>2. a.s \in Servers /\ a.g \in Gens
    BY AttemptFields
  <1>3. /\ slot[<<a.s, a.g>>].client = "open" /\ slot[<<a.s, a.g>>].fence = "CLOSED"
        /\ Unleased(a.s, a.g) /\ closer[<<a.s, a.g>>] = "none"
    BY <1>1 DEF Tasks, Unseen
  <1>4. \A b \in attempts' : b.s # a.s \/ b.g # a.g
    BY <1>1 DEF Tasks
  <1>5. \A t \in Servers, h \in Gens : (t # a.s \/ h # a.g) /\ Running(t, h) => Running(t, h)'
    BY <1>1 DEF Running
  <1>6. row \in Rows /\ SameRow(srv[a.s], row)
    BY <1>2, FailedRowKeeps
  <1> HIDE DEF row
  <1>7. srv' \in [Servers -> Rows] /\ \A t \in Servers : SameRow(srv[t], srv'[t])
    <2>1. CASE srv' = srv
      BY <2>1, SameRowSelf DEF TypeOK
    <2>2. CASE srv' = [srv EXCEPT ![a.s] = row]
      BY <1>2, <1>6, <2>2, OneRowKeeps
    <2> QED BY <1>1, <2>1, <2>2
  <1>8. slot' \in [Slots -> SlotStates]
    <2>1. /\ [slot EXCEPT ![<<a.s, a.g>>].client = "closed"] \in [Slots -> SlotStates]
          /\ [slot EXCEPT ![<<a.s, a.g>>].client = "stuck"] \in [Slots -> SlotStates]
      BY <1>2, ClientTypes
    <2> QED BY <1>1, <2>1
  <1>9. rebuild' \in BOOLEAN /\ events' \in Nat
    BY <1>1, RebuiltTypes, Counted DEF TypeOK
  <1>10. TypeOK'
    BY <1>1, <1>7, <1>8, <1>9 DEF TypeOK
  <1>11. \A t \in Servers :
           /\ RowKeeps(srv[t], srv'[t])
           /\ srv'[t].pend = srv[t].pend /\ srv'[t].inst = srv[t].inst
           /\ srv'[t].cur = srv[t].cur
           /\ srv'[t].st = "READY" =>
                 srv[t].st = "READY" \/ srv[t].pend # None \/ srv[t].inst # None
    BY <1>7 DEF SameRow
  <1>12. \/ /\ slot[<<a.s, a.g>>].client # "stuck"
            /\ slot' = [slot EXCEPT ![<<a.s, a.g>>].client = "closed"]
            /\ allSlots' = allSlots \ {<<a.s, a.g>>}
         \/ /\ slot[<<a.s, a.g>>].client \in {"open", "stuck"}
            /\ slot' = [slot EXCEPT ![<<a.s, a.g>>].client = "stuck"]
            /\ UNCHANGED allSlots
    BY <1>1, <1>3
  <1>13. /\ slot[<<a.s, a.g>>].client # "none" /\ attempts' \subseteq attempts
         /\ UNCHANGED <<refresh, leases, closer, borrow, call, preview, phase>>
    BY <1>1, <1>3
  <1> HIDE DEF McpInv
  <1> QED BY <1>2, <1>3, <1>4, <1>5, <1>10, <1>11, <1>12, <1>13, ClientEnds

(* The closer of a retired slot closed its client, or could not. *)
LEMMA RetireClosedKeeps ==
    ASSUME McpInv, NEW s \in Servers, NEW g \in Gens, RetireClosed(<<s, g>>)
    PROVE  McpInv'
  <1> USE DEF McpInv
  <1> DEFINE row == [srv[s] EXCEPT !.cur = IF @ = g THEN 0 ELSE @]
  <1>1. /\ closer[<<s, g>>] = "closing" /\ closer' = [closer EXCEPT ![<<s, g>>] = "none"]
        /\ UNCHANGED <<attempts, refresh, leases, rebuild, runtimeGen, surface, borrow, call,
                       preview, phase>>
        /\ \/ /\ slot[<<s, g>>].client # "stuck"
              /\ slot' = [slot EXCEPT ![<<s, g>>].client = "closed"]
              /\ allSlots' = allSlots \ {<<s, g>>}
              /\ srv' = [srv EXCEPT ![s] = row]
              /\ UNCHANGED events
           \/ /\ slot[<<s, g>>].client = "open" /\ Event("close_error")
              /\ slot' = [slot EXCEPT ![<<s, g>>].client = "stuck"]
              /\ UNCHANGED <<allSlots, srv>>
           \/ /\ slot[<<s, g>>].client = "stuck"
              /\ UNCHANGED <<slot, allSlots, srv, events>>
    BY DEF RetireClosed, portVars
  <1>2. slot[<<s, g>>].fence = "CLOSED" /\ Unleased(s, g)
    BY <1>1 DEF Clients
  <1>3. slot[<<s, g>>].client # "none"
    BY <1>1 DEF Tasks, Unseen
  <1>4. \A a \in attempts' : a.s # s \/ a.g # g
    BY <1>1 DEF Tasks, Unseen
  <1>5. \A t \in Servers, h \in Gens : Running(t, h) => Running(t, h)'
    BY <1>1 DEF Running
  <1>6. closer' \in [Slots -> {"none", "drain", "closing"}]
        /\ closer'[<<s, g>>] = "none"
        /\ \A t \in Servers, h \in Gens : t # s \/ h # g => closer'[<<t, h>>] = closer[<<t, h>>]
    BY <1>1 DEF TypeOK, Slots
  <1>7. slot' \in [Slots -> SlotStates]
    <2>1. /\ [slot EXCEPT ![<<s, g>>].client = "closed"] \in [Slots -> SlotStates]
          /\ [slot EXCEPT ![<<s, g>>].client = "stuck"] \in [Slots -> SlotStates]
      BY ClientTypes
    <2> QED BY <1>1, <2>1 DEF TypeOK
  <1>8. events' \in Nat
    BY <1>1, Counted DEF TypeOK
  <1>9. /\ srv' \in [Servers -> Rows]
        /\ \A t \in Servers :
              /\ RowKeeps(srv[t], srv'[t])
              /\ srv'[t].pend = srv[t].pend /\ srv'[t].inst = srv[t].inst
              /\ srv'[t].cur = srv[t].cur \/ (t = s /\ srv[t].cur = g /\ srv'[t].cur = 0)
              /\ srv'[t].st = srv[t].st
    <2>1. \A t \in Servers : RowKeeps(srv[t], srv[t])
      BY RowFields DEF RowKeeps, Gens
    <2>2. CASE srv' = srv
      BY <2>1, <2>2 DEF TypeOK
    <2>3. CASE srv' = [srv EXCEPT ![s] = row]
      <3>1. srv[s] \in Rows /\ 0 \in 0..MaxGen
        BY RowFields, McpBounds
      <3>2. /\ row \in Rows /\ row.pend = srv[s].pend /\ row.inst = srv[s].inst /\ row.st = srv[s].st
            /\ row.cur = srv[s].cur \/ (srv[s].cur = g /\ row.cur = 0)
            /\ RowKeeps(srv[s], row)
        BY <3>1 DEF Rows, RowKeeps, Gens
      <3> HIDE DEF row
      <3>3. \A t \in Servers : srv'[t] = IF t = s THEN row ELSE srv[t]
        BY <2>3, OneRow
      <3> QED BY <2>1, <2>3, <3>2, <3>3 DEF TypeOK
    <2> QED BY <1>1, <2>2, <2>3
  <1> HIDE DEF row
  <1>10. slot' = [slot EXCEPT ![<<s, g>>].client = "stuck"] \/ slot[<<s, g>>].client # "stuck"
    <2>1. CASE slot[<<s, g>>].client = "stuck"
      <3>1. slot[<<s, g>>] \in SlotStates
        BY SlotFields
      <3>2. [slot[<<s, g>>] EXCEPT !.client = "stuck"] = slot[<<s, g>>]
        BY <2>1, <3>1 DEF SlotStates
      <3>3. UNCHANGED slot
        BY <1>1, <2>1
      <3> QED BY <3>2, <3>3 DEF TypeOK
    <2> QED BY <2>1
  <1>11. TypeOK'
    BY <1>1, <1>6, <1>7, <1>8, <1>9 DEF TypeOK
  <1>12. \/ /\ slot[<<s, g>>].client # "stuck"
            /\ slot' = [slot EXCEPT ![<<s, g>>].client = "closed"]
            /\ allSlots' = allSlots \ {<<s, g>>}
         \/ /\ slot[<<s, g>>].client \in {"open", "stuck"}
            /\ slot' = [slot EXCEPT ![<<s, g>>].client = "stuck"]
            /\ UNCHANGED allSlots
    BY <1>1, <1>10
  <1>13. /\ attempts' \subseteq attempts
         /\ UNCHANGED <<refresh, leases, borrow, call, preview, phase>>
    BY <1>1
  <1>14. \A t \in Servers, h \in Gens :
            (t # s \/ h # g) /\ Running(t, h) => Running(t, h)'
    BY <1>5
  <1>15. \A t \in Servers :
            /\ RowKeeps(srv[t], srv'[t])
            /\ srv'[t].pend = srv[t].pend /\ srv'[t].inst = srv[t].inst
            /\ srv'[t].cur = srv[t].cur \/ (t = s /\ srv[t].cur = g /\ srv'[t].cur = 0)
            /\ srv'[t].st = "READY" =>
                  srv[t].st = "READY" \/ srv[t].pend # None \/ srv[t].inst # None
    BY <1>9
  <1>16. closer'[<<s, g>>] \in {"none", closer[<<s, g>>]}
    BY <1>6
  <1>17. \A t \in Servers, h \in Gens : t # s \/ h # g => closer'[<<t, h>>] = closer[<<t, h>>]
    BY <1>6
  <1> HIDE DEF McpInv
  <1> QED BY <1>2, <1>3, <1>4, <1>11, <1>12, <1>13, <1>14, <1>15, <1>16, <1>17, ClientEnds, ZenonT(60)
(* A retired slot without leases, permits or operations is fenced for good. *)
LEMMA RetireDrainedKeeps ==
    ASSUME McpInv, NEW s \in Servers, NEW g \in Gens, RetireDrained(<<s, g>>)
    PROVE  McpInv'
  <1> USE DEF McpInv
  <1>1. /\ closer[<<s, g>>] = "drain" /\ LeasesOn(<<s, g>>) = {}
        /\ closer' = [closer EXCEPT ![<<s, g>>] = "closing"]
        /\ slot' = [slot EXCEPT ![<<s, g>>] = BeginClose(@)]
        /\ UNCHANGED <<srv, attempts, refresh, allSlots, leases, rebuild, runtimeGen, surface,
                       borrow, call, preview, phase, events>>
    BY DEF RetireDrained, portVars
  <1>2. slot' = [sl \in Slots |-> IF sl \in {<<s, g>>} THEN BeginClose(slot[sl]) ELSE slot[sl]]
    <2>1. \A sl \in Slots : slot'[sl] = IF sl \in {<<s, g>>} THEN BeginClose(slot[sl]) ELSE slot[sl]
      BY <1>1 DEF TypeOK
    <2> QED BY <1>1, <2>1 DEF TypeOK
  <1>3. /\ slot' \in [Slots -> SlotStates] /\ SlotsFenced
        /\ \A t \in Servers, h \in Gens :
              slot'[<<t, h>>] = IF <<t, h>> \in {<<s, g>>} THEN BeginClose(slot[<<t, h>>])
                                ELSE slot[<<t, h>>]
    BY <1>2, SomeClosed
  <1>4. slot'[<<s, g>>].fence = "CLOSED" /\ Unleased(s, g)
    BY <1>1, <1>3, SlotFields, SlotOperations, LeasesOnSlot
  <1>5. /\ closer' \in [Slots -> {"none", "drain", "closing"}]
        /\ \A t \in Servers, h \in Gens :
              closer'[<<t, h>>] = IF t = s /\ h = g THEN "closing" ELSE closer[<<t, h>>]
    BY <1>1 DEF TypeOK, Slots
  <1>6. /\ NothingSeen /\ Closed' = Closed /\ Copies
        /\ \A t, h : Unleased(t, h)' <=> Unleased(t, h)
    BY <1>1, <1>5 DEF NothingSeen, Unseen, Unleased, Closed, Copies
  <1>7. Tasks'
    BY <1>1, <1>3, <1>6, RowFields, FencedStand, TasksKeep DEF Gens
  <1>8. Clients'
    <2>1. SUFFICES ASSUME NEW t \in Servers, NEW h \in Gens
                   PROVE  /\ slot'[<<t, h>>].client \in {"open", "stuck"} => <<t, h>> \in allSlots'
                          /\ slot'[<<t, h>>].client \in {"closed", "stuck"} =>
                                slot'[<<t, h>>].fence = "CLOSED"
                          /\ slot'[<<t, h>>].accepting => slot'[<<t, h>>].fence = "OPEN"
                          /\ closer'[<<t, h>>] = "closing" =>
                                slot'[<<t, h>>].fence = "CLOSED" /\ Unleased(t, h)'
                          /\ Closed' /\ <<t, h>> \in allSlots' => slot'[<<t, h>>].fence = "CLOSED"
      BY DEF Clients
    <2>2. FencedTo(slot[<<t, h>>], slot'[<<t, h>>])
      BY <1>3 DEF SlotsFenced
    <2> QED BY <1>1, <1>4, <1>5, <1>6, <2>2 DEF Clients, FencedTo
  <1>9. Tokens'
    BY <1>1, <1>3, <1>6, TokensKeep
  <1>10. CurrentLeaseHasCurrentConfig'
    BY <1>1, <1>3, <1>6, CurrentKeep
  <1>11. Owned'
    <2>1. SUFFICES ASSUME NEW t \in Servers, NEW c \in {srv[t].pend, srv[t].inst}, c # None
                   PROVE  slot'[<<t, c.g>>].fence = "OPEN" => slot'[<<t, c.g>>].accepting
      BY <1>1, <1>6 DEF Owned, CandidateLease
    <2>2. c.g \in Gens
      BY <2>1, RowFields, CandidateFields
    <2>3. slot[<<t, c.g>>].fence = "OPEN" => slot[<<t, c.g>>].accepting
      BY <2>1 DEF Owned
    <2> QED BY <1>3, <1>4, <2>2, <2>3
  <1>12. Used'
    BY <1>1 DEF Used, CallLease, PreviewLease
  <1>13. Relists'
    BY <1>1, <1>3, RelistsKeep
  <1>14. Ends'
    BY <1>1, <1>3, <1>6, EndsKeep
  <1>15. OpenClientHasOwner'
    <2>1. \A t, h : Running(t, h)' <=> Running(t, h)
      BY <1>1 DEF Running
    <2> QED BY <1>1, <1>3, <1>5, <2>1 DEF OpenClientHasOwner, SlotsFenced, FencedTo
  <1>16. ReadyHasCatalog'
    BY <1>1, <1>6 DEF ReadyHasCatalog
  <1>17. TypeOK'
    BY <1>1, <1>3, <1>5 DEF TypeOK
  <1> QED BY <1>7, <1>8, <1>9, <1>10, <1>11, <1>12, <1>13, <1>14, <1>15, <1>16, <1>17

-----------------------------------------------------------------------------
(* Retry and reconnect                                                      *)

(* _start_connect changes the generation, the task and the state of a row. *)
LEMMA StartRowFields ==
    ASSUME NEW row \in Rows, row.gen < MaxGen
    PROVE  /\ StartRow(row) \in Rows /\ StartRow(row).gen = row.gen + 1
           /\ StartRow(row).conf = row.conf /\ StartRow(row).rgen = row.rgen
           /\ StartRow(row).cur = row.cur /\ StartRow(row).pend = row.pend
           /\ StartRow(row).inst = row.inst
           /\ StartRow(row).lost = row.lost /\ StartRow(row).kept = row.kept
           /\ StartRow(row).st = "READY" => row.st = "READY" /\ Retained(row)
           /\ row.gen + 1 \in Gens
  <1> DEFINE st == IF Retained(row) THEN row.st ELSE "CONNECTING"
  <1>1. /\ row.gen \in 1..MaxGen /\ row.st \in ServerStates /\ MaxGen \in Nat
    BY McpBounds DEF Rows, Gens
  <1>2. row.gen + 1 \in Gens /\ row.gen + 1 \in 0..MaxGen
    BY <1>1 DEF Gens
  <1>3. st \in ServerStates /\ (st = "READY" => row.st = "READY" /\ Retained(row))
    BY <1>1 DEF ServerStates
  <1>4. StartRow(row) = [row EXCEPT !.gen = row.gen + 1, !.task = row.gen + 1, !.st = st]
    BY DEF StartRow, Rows
  <1> HIDE DEF st
  <1>5. StartRow(row) \in Rows
    BY <1>2, <1>3, <1>4 DEF Rows
  <1> QED BY <1>2, <1>3, <1>4, <1>5 DEF Rows

(* The attempt that _start_connect makes. *)
LEMMA NewAttemptFields ==
    ASSUME NEW s \in Servers, NEW row \in Rows, row.gen < MaxGen, row.conf.on
    PROVE  LET a == NewAttempt(s, row) IN
              /\ a \in Attempts /\ a.s = s /\ a.g = row.gen + 1
              /\ a.pc = "reserve" /\ a.conf = row.conf
  <1>1. row.conf \in Configs
    BY DEF Rows, NoConfig
  <1>2. row.gen + 1 \in Gens
    BY McpBounds DEF Rows, Gens
  <1> QED BY <1>1, <1>2 DEF NewAttempt, Attempts, Rows

(* One server's attempts, cancelled or not, and perhaps a new one. *)
StartsOne(s, row, left) ==
    \/ /\ srv' = [srv EXCEPT ![s] = row] /\ attempts' = left
    \/ /\ row.gen < MaxGen /\ row.conf.on
       /\ srv' = [srv EXCEPT ![s] = StartRow(row)]
       /\ attempts' = left \cup {NewAttempt(s, row)}

Continues(left) ==
    /\ left \subseteq Attempts
    /\ \A b \in left : \E a \in attempts : Follows(a, b)
    /\ \A b, c \in left : b.s = c.s /\ b.g = c.g => b = c
    /\ \A a \in attempts : \E b \in left : b.s = a.s /\ b.g = a.g

(* At most one attempt starts, with a generation nobody has. *)
LEMMA StartFollows ==
    ASSUME TypeOK, Tasks, NEW s \in Servers, NEW row \in Rows, NEW left, Continues(left),
           StartsOne(s, row, left), row.gen >= srv[s].gen
    PROVE  /\ srv' \in [Servers -> Rows] /\ attempts' \subseteq Attempts /\ AttemptsFollow
           /\ \A t, h : Running(t, h) => Running(t, h)'
           /\ srv'[s] = row \/ (row.gen < MaxGen /\ srv'[s] = StartRow(row))
           /\ \A t \in Servers : t # s => srv'[t] = srv[t]
           /\ srv'[s].gen >= row.gen
  <1>1. row.gen \in Gens /\ srv[s].gen \in Gens
    BY RowFields DEF Rows
  <1>2. CASE srv' = [srv EXCEPT ![s] = row] /\ attempts' = left
    <2>1. srv' \in [Servers -> Rows] /\ srv'[s] = row /\ \A t \in Servers : t # s => srv'[t] = srv[t]
      BY <1>2 DEF TypeOK
    <2>2. attempts' \subseteq Attempts /\ AttemptsFollow
      BY <1>2 DEF Continues, AttemptsFollow
    <2>3. \A t, h : Running(t, h) => Running(t, h)'
      BY <1>2 DEF Continues, Running
    <2> QED BY <1>1, <2>1, <2>2, <2>3 DEF Gens
  <1>3. CASE /\ row.gen < MaxGen /\ row.conf.on
             /\ srv' = [srv EXCEPT ![s] = StartRow(row)]
             /\ attempts' = left \cup {NewAttempt(s, row)}
    <2> DEFINE new == NewAttempt(s, row)
    <2>1. /\ StartRow(row) \in Rows /\ StartRow(row).gen = row.gen + 1 /\ row.gen + 1 \in Gens
      BY <1>3, StartRowFields
    <2>2. srv' \in [Servers -> Rows] /\ srv'[s] = StartRow(row)
          /\ \A t \in Servers : t # s => srv'[t] = srv[t]
      BY <1>3, <2>1 DEF TypeOK
    <2>3. new \in Attempts /\ new.s = s /\ new.g = row.gen + 1 /\ new.pc = "reserve"
      BY <1>3, NewAttemptFields
    <2> HIDE DEF new
    <2>4. attempts' = left \cup {new}
      BY <1>3 DEF new
    <2>5. Starts(new)
      BY <1>1, <2>1, <2>2, <2>3 DEF Starts, Gens
    <2>6. \A b \in left : b.s = s => b.g # new.g
      <3>1. SUFFICES ASSUME NEW b \in left, b.s = s PROVE b.g # row.gen + 1
        BY <2>3
      <3>2. PICK a \in attempts : a.s = s /\ a.g = b.g
        BY <3>1 DEF Continues, Follows
      <3>3. a.g \in Gens /\ a.g <= srv[s].gen
        BY <3>2, AttemptFields DEF Tasks
      <3> QED BY <1>1, <3>2, <3>3 DEF Gens
    <2>7. \A b, c \in attempts' : b.s = c.s /\ b.g = c.g => b = c
      BY <2>3, <2>4, <2>6 DEF Continues
    <2>8. AttemptsFollow
      BY <2>4, <2>5, <2>7 DEF Continues, AttemptsFollow
    <2>9. attempts' \subseteq Attempts
      BY <2>3, <2>4 DEF Continues
    <2>10. \A t, h : Running(t, h) => Running(t, h)'
      BY <2>4 DEF Continues, Running
    <2> QED BY <1>1, <1>3, <2>1, <2>2, <2>8, <2>9, <2>10 DEF Gens
  <1> QED BY <1>2, <1>3 DEF StartsOne

(* A start that fences one slot at most, and withdraws nothing. *)
LEMMA StartKeeps ==
    ASSUME McpInv, ~Closed, NEW s \in Servers, NEW row \in Rows, SameRow(srv[s], row),
           NEW left, Continues(left), StartsOne(s, row, left),
           slot' \in [Slots -> SlotStates], SlotsFenced,
           \A t \in Servers, h \in Gens :
              slot'[<<t, h>>].fence = "OPEN" /\ slot[<<t, h>>].accepting =>
                 slot'[<<t, h>>].accepting,
           UNCHANGED <<refresh, allSlots, leases, closer, runtimeGen, portVars, phase>>,
           rebuild' \in BOOLEAN, events' \in Nat
    PROVE  McpInv'
  <1> USE DEF McpInv
  <1>1. row.gen >= srv[s].gen
    BY DEF SameRow, RowKeeps
  <1>2. /\ srv' \in [Servers -> Rows] /\ attempts' \subseteq Attempts /\ AttemptsFollow
        /\ \A t, h : Running(t, h) => Running(t, h)'
        /\ srv'[s] = row \/ (row.gen < MaxGen /\ srv'[s] = StartRow(row))
        /\ \A t \in Servers : t # s => srv'[t] = srv[t]
    BY <1>1, StartFollows
  <1>3. SameRow(srv[s], srv'[s])
    <2>1. CASE srv'[s] = row
      BY <2>1
    <2>2. CASE row.gen < MaxGen /\ srv'[s] = StartRow(row)
      <3>1. /\ StartRow(row).gen = row.gen + 1
            /\ StartRow(row).conf = row.conf
            /\ StartRow(row).cur = row.cur /\ StartRow(row).pend = row.pend
            /\ StartRow(row).inst = row.inst
            /\ StartRow(row).lost = row.lost /\ StartRow(row).kept = row.kept
            /\ StartRow(row).st = "READY" => row.st = "READY"
        BY <2>2, StartRowFields
      <3>2. row.gen \in Gens /\ srv[s].gen \in Gens
        BY RowFields DEF Rows
      <3> QED BY <2>2, <3>1, <3>2 DEF SameRow, RowKeeps, Gens
    <2> QED BY <1>2, <2>1, <2>2
  <1>4. \A t \in Servers : SameRow(srv[t], srv'[t])
    BY <1>2, <1>3, SameRowSelf
  <1>5. UNCHANGED <<surface, borrow, call, preview>>
    BY DEF portVars
  <1>6. TypeOK'
    BY <1>2, <1>5 DEF TypeOK
  <1>7. Relists'
    BY <1>5, RelistsKeep
  <1> QED BY <1>2, <1>4, <1>5, <1>6, <1>7, SupervisorKeeps

(* The attempts continue as they are. *)
LEMMA AttemptsContinue == ASSUME TypeOK, Tasks PROVE Continues(attempts)
  BY DEF TypeOK, Tasks, Continues, Follows

(* A cancelled attempt continues with what it holds. *)
LEMMA CancelContinues ==
    ASSUME TypeOK, Tasks, NEW busy \in SUBSET attempts
    PROVE  Continues((attempts \ busy) \cup {[a EXCEPT !.cancel = TRUE] : a \in busy})
  <1> DEFINE left == (attempts \ busy) \cup {[a EXCEPT !.cancel = TRUE] : a \in busy}
  <1>1. \A a \in attempts : LET b == [a EXCEPT !.cancel = TRUE] IN
           b \in Attempts /\ b.s = a.s /\ b.g = a.g /\ b.conf = a.conf /\ b.pc = a.pc
    BY AttemptFields DEF Attempts
  <1>2. \A a \in attempts : Follows(a, a) /\ Follows(a, [a EXCEPT !.cancel = TRUE])
    BY <1>1 DEF Follows
  <1>3. left \subseteq Attempts
    BY <1>1 DEF TypeOK
  <1>4. \A b \in left : \E a \in attempts :
           Follows(a, b) /\ b = IF a \in busy THEN [a EXCEPT !.cancel = TRUE] ELSE a
    BY <1>2
  <1>5. ASSUME NEW b \in left, NEW c \in left, b.s = c.s, b.g = c.g PROVE b = c
    <2>1. PICK x \in attempts : Follows(x, b) /\ b = IF x \in busy THEN [x EXCEPT !.cancel = TRUE] ELSE x
      BY <1>4
    <2>2. PICK y \in attempts : Follows(y, c) /\ c = IF y \in busy THEN [y EXCEPT !.cancel = TRUE] ELSE y
      BY <1>4
    <2>3. x.s = b.s /\ x.g = b.g /\ y.s = c.s /\ y.g = c.g
      BY <2>1, <2>2 DEF Follows
    <2>4. x = y
      BY <1>5, <2>3 DEF Tasks
    <2> QED BY <2>1, <2>2, <2>4
  <1>6. \A a \in attempts : \E b \in left : b.s = a.s /\ b.g = a.g
    <2>1. SUFFICES ASSUME NEW a \in attempts PROVE \E b \in left : b.s = a.s /\ b.g = a.g
      OBVIOUS
    <2>2. CASE a \in busy
      BY <1>1, <2>2
    <2>3. CASE a \notin busy
      BY <2>3
    <2> QED BY <2>2, <2>3
  <1> HIDE DEF left
  <1>7. Continues(left)
    BY <1>3, <1>4, <1>5, <1>6 DEF Continues
  <1> QED BY <1>7 DEF left

(* The row of a server whose attempt is about to be replaced. *)
LEMMA TriedRow ==
    ASSUME NEW old \in Rows
    PROVE  /\ LET row == [old EXCEPT !.retry = FALSE] IN
                 row \in Rows /\ SameRow(old, row) /\ row.gen = old.gen
           /\ \A idle \in BOOLEAN : old.gen + 2 <= MaxGen =>
                 LET row == [old EXCEPT !.retry = FALSE,
                               !.gen = IF idle THEN @ ELSE @ + 1,
                               !.task = IF idle THEN @ ELSE 0]
                 IN  row \in Rows /\ SameRow(old, row) /\ row.gen < MaxGen
  <1>1. LET row == [old EXCEPT !.retry = FALSE] IN
           row \in Rows /\ SameRow(old, row) /\ row.gen = old.gen
    <2> DEFINE row == [old EXCEPT !.retry = FALSE]
    <2>1. row \in Rows
      BY DEF Rows
    <2>2. old.gen >= old.gen
      BY DEF Rows, Gens
    <2>3. SameRow(old, row) /\ row.gen = old.gen
      BY <2>2 DEF SameRow, RowKeeps, Rows
    <2> QED BY <2>1, <2>3
  <1>2. ASSUME NEW idle \in BOOLEAN, old.gen + 2 <= MaxGen
        PROVE  LET row == [old EXCEPT !.retry = FALSE,
                             !.gen = IF idle THEN @ ELSE @ + 1,
                             !.task = IF idle THEN @ ELSE 0]
               IN  row \in Rows /\ SameRow(old, row) /\ row.gen < MaxGen
    <2> DEFINE gen == IF idle THEN old.gen ELSE old.gen + 1
               task == IF idle THEN old.task ELSE 0
               row == [old EXCEPT !.retry = FALSE, !.gen = gen, !.task = task]
    <2>1. old.gen \in 1..MaxGen /\ old.task \in 0..MaxGen /\ MaxGen \in Nat
      BY McpBounds DEF Rows, Gens
    <2>2. gen \in Gens /\ gen < MaxGen /\ gen >= old.gen /\ task \in 0..MaxGen
      BY <1>2, <2>1 DEF Gens
    <2> HIDE DEF gen, task
    <2>3. row \in Rows /\ row.gen = gen
      BY <2>2 DEF Rows
    <2>4. SameRow(old, row)
      BY <2>2 DEF SameRow, RowKeeps, Rows
    <2> QED BY <2>2, <2>3, <2>4 DEF gen, task
  <1> QED BY <1>1, <1>2

(* A retry starts an attempt when none runs. *)
LEMMA RetryAfterKeeps ==
    ASSUME McpInv, NEW s \in Servers, RetryAfter(s)
    PROVE  McpInv'
  <1> USE DEF McpInv
  <1> DEFINE row == [srv[s] EXCEPT !.retry = FALSE]
  <1>1. /\ srv[s].retry /\ srv[s].gen < MaxGen
        /\ IF MayStart(s, row, Running(s, row.task))
             THEN /\ srv' = [srv EXCEPT ![s] = StartRow(row)]
                  /\ attempts' = attempts \cup {NewAttempt(s, row)}
                  /\ rebuild' = Rebuilt(row, StartRow(row))
             ELSE /\ srv' = [srv EXCEPT ![s] = row]
                  /\ UNCHANGED <<attempts, rebuild>>
        /\ UNCHANGED <<refresh, slot, allSlots, leases, closer, runtimeGen, portVars, phase, events>>
    BY DEF RetryAfter
  <1>2. /\ row \in Rows /\ SameRow(srv[s], row) /\ row.gen = srv[s].gen
    BY RowFields, TriedRow
  <1> HIDE DEF row
  <1>3. rebuild' \in BOOLEAN
    BY <1>1, RebuiltTypes DEF TypeOK
  <1>4. StartsOne(s, row, attempts)
    BY <1>1, <1>2 DEF StartsOne, MayStart
  <1>5. SlotsFenced /\ slot' \in [Slots -> SlotStates] /\ events' \in Nat
    BY <1>1, SlotsStay DEF TypeOK
  <1>6. CASE ~Closed
    BY <1>1, <1>2, <1>3, <1>4, <1>5, <1>6, AttemptsContinue, StartKeeps
  <1>7. CASE Closed
    <2>1. /\ srv' = [srv EXCEPT ![s] = row]
          /\ UNCHANGED <<attempts, rebuild>>
          /\ UNCHANGED <<surface, borrow, call, preview>>
      BY <1>1, <1>7 DEF MayStart, portVars
    <2>2. srv' \in [Servers -> Rows] /\ \A t \in Servers : SameRow(srv[t], srv'[t])
      BY <1>2, <2>1, OneRowKeeps
    <2>3. TypeOK'
      BY <1>1, <2>1, <2>2 DEF TypeOK
    <2>4. Relists'
      BY <1>1, <2>1 DEF Relists, Quiet
    <2> QED BY <1>1, <1>5, <2>1, <2>2, <2>3, <2>4, AttemptsStay, AttemptsRun, SupervisorKeeps
  <1> QED BY <1>6, <1>7

(* A reconnect fences the current slot and replaces the attempt in flight. *)
LEMMA ReconnectKeeps ==
    ASSUME McpInv, NEW s \in Servers, Reconnect(s)
    PROVE  McpInv'
  <1> USE DEF McpInv
  <1> DEFINE old == srv[s]
             busy == {a \in attempts : a.s = s /\ a.g = old.task}
             row == [old EXCEPT !.retry = FALSE,
                       !.gen = IF busy = {} THEN @ ELSE @ + 1,
                       !.task = IF busy = {} THEN @ ELSE 0]
             left == (attempts \ busy) \cup {[a EXCEPT !.cancel = TRUE] : a \in busy}
  <1>1. /\ ~Closed /\ old.gen + 2 <= MaxGen /\ Event("reconnect")
        /\ slot' = IF old.cur = 0 THEN slot ELSE [slot EXCEPT ![<<s, old.cur>>] = MarkDirty(@)]
        /\ IF row.conf.on
             THEN /\ srv' = [srv EXCEPT ![s] = StartRow(row)]
                  /\ attempts' = left \cup {NewAttempt(s, row)}
                  /\ rebuild' = Rebuilt(row, StartRow(row))
             ELSE /\ srv' = [srv EXCEPT ![s] = row]
                  /\ attempts' = left
                  /\ UNCHANGED rebuild
        /\ UNCHANGED <<refresh, allSlots, leases, closer, runtimeGen, portVars, phase>>
    BY DEF Reconnect
  <1>2. row \in Rows /\ SameRow(old, row) /\ row.gen < MaxGen
    <2>1. old \in Rows /\ old.gen \in Gens /\ old.gen + 2 <= MaxGen
      BY <1>1, RowFields
    <2> QED BY <2>1, TriedRow
  <1>3. Continues(left)
    BY CancelContinues
  <1> HIDE DEF row, left
  <1>4. StartsOne(s, row, left)
    BY <1>1, <1>2 DEF StartsOne
  <1>5. rebuild' \in BOOLEAN /\ events' \in Nat
    BY <1>1, RebuiltTypes, Counted DEF TypeOK
  <1>6. /\ slot' \in [Slots -> SlotStates] /\ SlotsFenced
        /\ \A t \in Servers, h \in Gens :
              slot'[<<t, h>>].fence = "OPEN" /\ slot[<<t, h>>].accepting =>
                 slot'[<<t, h>>].accepting
    <2>1. CASE old.cur = 0
      BY <1>1, <2>1, SlotsStay DEF TypeOK
    <2>2. CASE old.cur # 0
      <3>1. old.cur \in Gens
        BY <2>2, RowFields DEF Gens
      <3>2. slot' = [slot EXCEPT ![<<s, old.cur>>] = MarkDirty(@)]
        BY <1>1, <2>2
      <3>3. /\ slot' \in [Slots -> SlotStates] /\ SlotsFenced
            /\ slot'[<<s, old.cur>>].fence # "OPEN"
            /\ \A t \in Servers, h \in Gens : t # s \/ h # old.cur => slot'[<<t, h>>] = slot[<<t, h>>]
        BY <3>1, <3>2, OneMarkedDirty
      <3> QED BY <3>3
    <2> QED BY <2>1, <2>2
  <1> QED BY <1>1, <1>2, <1>3, <1>4, <1>5, <1>6, StartKeeps

-----------------------------------------------------------------------------
(* Publication, reload and installation                                     *)

(* Slots changed by fencing operations only are fenced further. *)
LEMMA FencedSlots ==
    ASSUME TypeOK, Clients, NEW x, slot' = [sl \in Slots |-> x[sl]],
           \A sl \in Slots :
              x[sl] \in {slot[sl], MarkDirty(slot[sl]), BeginClose(slot[sl]), BeginRetire(slot[sl])}
    PROVE  slot' \in [Slots -> SlotStates] /\ SlotsFenced
  <1>1. \A sl \in Slots : slot[sl] \in SlotStates
    BY DEF TypeOK
  <1>2. \A sl \in Slots : x[sl] \in SlotStates
    BY <1>1, SlotOperations
  <1>3. ASSUME NEW t \in Servers, NEW h \in Gens PROVE FencedTo(slot[<<t, h>>], slot'[<<t, h>>])
    <2>1. <<t, h>> \in Slots /\ slot'[<<t, h>>] = x[<<t, h>>]
      BY DEF Slots
    <2>2. slot[<<t, h>>] \in SlotStates /\ (slot[<<t, h>>].accepting => slot[<<t, h>>].fence = "OPEN")
      BY <1>1, <2>1 DEF Clients
    <2> QED BY <2>1, <2>2, FencedToSelf
  <1> QED BY <1>2, <1>3 DEF SlotsFenced

(* StartClosers starts closers for the given slots and stops none. *)
LEMMA SomeClosers ==
    ASSUME TypeOK, NEW some, closer' = StartClosers(some)
    PROVE  /\ closer' \in [Slots -> {"none", "drain", "closing"}]
           /\ \A t \in Servers, h \in Gens :
                 /\ closer[<<t, h>>] # "none" => closer'[<<t, h>>] = closer[<<t, h>>]
                 /\ closer'[<<t, h>>] = "closing" => closer[<<t, h>>] = "closing"
                 /\ closer'[<<t, h>>] # "none" => closer[<<t, h>>] # "none" \/ <<t, h>> \in some
                 /\ <<t, h>> \in some => closer'[<<t, h>>] # "none"
  BY DEF StartClosers, TypeOK, Slots

(* begin_close drops only calls that were admitted and not accepted. *)
LEMMA SomeDropped ==
    ASSUME TypeOK, NEW some, call' = DropAdmitted(some)
    PROVE  call' \in [Calls -> Uses] /\ \A c \in Calls : call'[c] \in {Idle, call[c]}
  BY DEF DropAdmitted, TypeOK, Uses

(* The leases of a published candidate, the loser's taken back. *)
LEMMA ConnectPublishKeeps ==
    ASSUME McpInv, NEW a \in attempts, ConnectPublish(a)
    PROVE  McpInv'
  <1> USE DEF McpInv
  <1> DEFINE s == a.s
             g == a.g
             old == srv[s]
             cand == [g |-> g, gen |-> 0, conf |-> a.conf]
             row == [old EXCEPT !.cur = g, !.pend = cand, !.st = "READY"]
             loser == IF old.pend = None THEN {} ELSE {<<s, old.pend.g>>}
             new == CandidateLease(s, cand)
  <1>1. /\ a.pc = "discover" /\ UNCHANGED events
        /\ IF Stale(a) \/ ~slot[<<s, g>>].accepting \/ old.conf # a.conf THEN EndWithSlot(a, FALSE)
           ELSE /\ srv' = [srv EXCEPT ![s] = row]
                /\ rebuild' = Rebuilt(old, row)
                /\ leases' = (leases \ OwnedBy(s, old.pend)) \cup {new}
                /\ slot' = [sl \in Slots |-> IF sl \in loser THEN BeginClose(slot[sl]) ELSE slot[sl]]
                /\ call' = DropAdmitted(loser)
                /\ closer' = StartClosers(loser)
                /\ attempts' = attempts \ {a}
                /\ UNCHANGED <<refresh, allSlots, runtimeGen, surface, borrow, preview, phase>>
    BY DEF ConnectPublish
  <1>2. CASE EndWithSlot(a, FALSE)
    BY <1>1, <1>2, EndWithSlotKeeps DEF TypeOK
  <1>3. CASE ~(Stale(a) \/ ~slot[<<s, g>>].accepting \/ old.conf # a.conf)
    <2>1. /\ srv' = [srv EXCEPT ![s] = row]
          /\ rebuild' = Rebuilt(old, row)
          /\ leases' = (leases \ OwnedBy(s, old.pend)) \cup {new}
          /\ slot' = [sl \in Slots |-> IF sl \in loser THEN BeginClose(slot[sl]) ELSE slot[sl]]
          /\ call' = DropAdmitted(loser) /\ closer' = StartClosers(loser)
          /\ attempts' = attempts \ {a}
          /\ UNCHANGED <<refresh, allSlots, runtimeGen, surface, borrow, preview, phase>>
      BY <1>1, <1>3
    <2>2. /\ s \in Servers /\ g \in Gens /\ a.conf \in Configs
          /\ phase = "open" /\ ~Closed /\ Closed' = Closed
      BY <1>3, <2>1, AttemptFields DEF Stale, Closed
    <2>3. /\ slot[<<s, g>>].accepting /\ slot[<<s, g>>].fence = "OPEN"
          /\ slot[<<s, g>>].client = "open" /\ slot[<<s, g>>].conf = a.conf
          /\ <<s, g>> \in allSlots /\ old.conf = a.conf /\ Unseen(s, g)
          /\ slot[<<s, g>>].dirty \in Nat
      BY <1>1, <1>3, <2>2, SlotFields DEF Tasks, Clients
    <2>4. old \in Rows
      BY <2>2, RowFields
    <2>5. cand \in Candidates /\ cand # None /\ cand.g = g /\ cand.gen = 0
      BY <2>2 DEF Candidates, None, Gens
    <2>6. /\ row \in Rows /\ row.pend = cand /\ row.cur = g /\ row.st = "READY"
          /\ row.inst = old.inst /\ row.conf = old.conf /\ row.gen = old.gen
          /\ row.lost = old.lost /\ row.kept = old.kept
      <3>1. "READY" \in ServerStates /\ g \in 0..MaxGen
        BY <2>2 DEF ServerStates, Gens
      <3> QED BY <2>4, <2>5, <3>1 DEF Rows
    <2>7. /\ new \in Leases /\ new.s = s /\ new.g = g /\ new.gen = 0 /\ new.kind = "candidate"
      BY <2>2, <2>5, CandidateLeaseFields, CandidateLeaseTypes
    <2>8. /\ srv' \in [Servers -> Rows] /\ srv'[s] = row
          /\ \A t \in Servers : t # s => srv'[t] = srv[t]
      BY <2>1, <2>2, <2>6 DEF TypeOK
    <2>9. /\ leases' \subseteq leases \cup {new} /\ new \in leases'
          /\ \A l \in leases : l.kind # "candidate" => l \in leases'
      BY <2>1, CandidateLeaseFields DEF OwnedBy
    <2>10. /\ old.pend # None => old.pend.g \in Gens /\ old.pend.g # g
           /\ old.cur # g /\ old.inst.g # g /\ refresh[s].g # g
      BY <2>2, <2>3, RowFields, CandidateFields DEF Unseen
    <2>11. <<s, g>> \notin loser /\ \A t, h : <<t, h>> \in loser => t = s /\ h = old.pend.g /\ old.pend # None
      BY <2>10
    <2>12. /\ slot' \in [Slots -> SlotStates] /\ SlotsFenced
           /\ \A t \in Servers, h \in Gens :
                 slot'[<<t, h>>] = IF <<t, h>> \in loser THEN BeginClose(slot[<<t, h>>])
                                   ELSE slot[<<t, h>>]
      <3> HIDE DEF loser
      <3> QED BY <2>1, SomeClosed
    <2>13. slot'[<<s, g>>] = slot[<<s, g>>]
      BY <2>2, <2>11, <2>12
    <2>14. \A t \in Servers, h \in Gens : <<t, h>> \in loser => slot'[<<t, h>>].fence = "CLOSED"
      BY <2>12, SlotFields, SlotOperations
    <2>15. /\ closer' \in [Slots -> {"none", "drain", "closing"}]
           /\ \A t \in Servers, h \in Gens :
                 /\ closer[<<t, h>>] # "none" => closer'[<<t, h>>] = closer[<<t, h>>]
                 /\ closer'[<<t, h>>] = "closing" => closer[<<t, h>>] = "closing"
                 /\ closer'[<<t, h>>] # "none" => closer[<<t, h>>] # "none" \/ <<t, h>> \in loser
                 /\ <<t, h>> \in loser => closer'[<<t, h>>] # "none"
      BY <2>1, SomeClosers
    <2>16. call' \in [Calls -> Uses] /\ \A c \in Calls : call'[c] \in {Idle, call[c]}
      BY <2>1, SomeDropped
    <2>17. \A t \in Servers, h \in Gens : t # s \/ h # g => (Unleased(t, h) => Unleased(t, h)')
      BY <2>7, <2>9 DEF Unleased
    <2>18. \A t \in Servers, h \in Gens : FencedTo(slot[<<t, h>>], slot'[<<t, h>>])
      BY <2>12 DEF SlotsFenced
    <2> HIDE DEF g, s, old, cand, row, loser, new
    <2>19. ASSUME NEW t \in Servers, NEW h \in Gens, t # s \/ h # g, Unseen(t, h) PROVE Unseen(t, h)'
      <3>1. Unleased(t, h)'
        BY <2>17, <2>19 DEF Unseen
      <3>2. h \notin {srv'[t].cur, srv'[t].pend.g, srv'[t].inst.g, refresh'[t].g}
        BY <2>1, <2>5, <2>6, <2>8, <2>19 DEF Unseen, old
      <3>3. closer'[<<t, h>>] = "none"
        BY <2>11, <2>15, <2>19 DEF Unseen, old
      <3> QED BY <3>1, <3>2, <3>3 DEF Unseen
    <2>20. \A t \in Servers : srv'[t].gen = srv[t].gen /\ srv'[t].conf = srv[t].conf
                              /\ srv'[t].lost = srv[t].lost /\ srv'[t].kept = srv[t].kept
                              /\ srv'[t].inst = srv[t].inst
      BY <2>6, <2>8 DEF old
    <2>21. Tasks'
      <3>1. \A b, c \in attempts' : b.s = c.s /\ b.g = c.g => b = c
        BY <2>1 DEF Tasks
      <3>2. ASSUME NEW b \in attempts'
            PROVE  /\ b.g <= srv'[b.s].gen
                   /\ Unseen(b.s, b.g)'
                   /\ b.pc \in {"reserve", "import"} => slot'[<<b.s, b.g>>].client = "none"
                   /\ b.pc \notin {"reserve", "import"} =>
                         slot'[<<b.s, b.g>>].client = "open" /\ slot'[<<b.s, b.g>>].conf = b.conf
                   /\ b.pc \in {"close_terminal", "close_retryable"} =>
                         slot'[<<b.s, b.g>>].fence = "CLOSED"
        <4>1. b \in attempts /\ (b.s # s \/ b.g # g) /\ b.s \in Servers /\ b.g \in Gens
          BY <2>1, AttemptFields DEF Tasks, s, g
        <4> QED BY <2>18, <2>19, <2>20, <4>1 DEF Tasks, FencedTo
      <3>3. ASSUME NEW t \in Servers, NEW h \in Gens
            PROVE  /\ slot'[<<t, h>>].client = "none" => Unseen(t, h)'
                   /\ h > srv'[t].gen => slot'[<<t, h>>].client = "none"
        <4>1. slot'[<<t, h>>].client = slot[<<t, h>>].client
          BY <2>18 DEF FencedTo
        <4>2. slot[<<t, h>>].client = "none" => Unseen(t, h)'
          BY <2>3, <2>19 DEF Tasks
        <4> QED BY <2>20, <4>1, <4>2 DEF Tasks
      <3> QED BY <3>1, <3>2, <3>3 DEF Tasks
    <2>22. Clients'
      <3>1. SUFFICES ASSUME NEW t \in Servers, NEW h \in Gens
                     PROVE  /\ slot'[<<t, h>>].client \in {"open", "stuck"} => <<t, h>> \in allSlots
                            /\ slot'[<<t, h>>].client \in {"closed", "stuck"} =>
                                  slot'[<<t, h>>].fence = "CLOSED"
                            /\ slot'[<<t, h>>].accepting => slot'[<<t, h>>].fence = "OPEN"
                            /\ closer'[<<t, h>>] = "closing" =>
                                  slot'[<<t, h>>].fence = "CLOSED" /\ Unleased(t, h)'
        BY <2>1, <2>2 DEF Clients
      <3>2. closer'[<<t, h>>] = "closing" => closer[<<t, h>>] = "closing" /\ (t # s \/ h # g)
        BY <2>3, <2>15 DEF Clients
      <3> QED BY <2>17, <2>18, <3>2 DEF Clients, FencedTo
    <2>23. Tokens'
      <3>1. SUFFICES ASSUME NEW l \in leases'
                     PROVE  /\ <<l.s, l.g>> \in allSlots
                            /\ slot'[<<l.s, l.g>>].client = "open"
                            /\ l.gen <= slot'[<<l.s, l.g>>].dirty
                            /\ slot'[<<l.s, l.g>>].fence = "DIRTY_FENCED" =>
                                  l.gen < slot'[<<l.s, l.g>>].dirty
        BY <2>1, <2>2 DEF Tokens
      <3>2. CASE l = new
        BY <2>3, <2>7, <2>13, <3>2
      <3>3. CASE l \in leases
        <4>1. l.s \in Servers /\ l.g \in Gens /\ l.gen \in Nat
          BY <3>3, LeaseFields
        <4>2. slot[<<l.s, l.g>>].dirty \in Nat /\ slot'[<<l.s, l.g>>].dirty \in Nat
          BY <2>12, <4>1, SlotFields DEF Slots, SlotStates
        <4> QED BY <2>2, <2>18, <3>3, <4>1, <4>2 DEF Tokens, FencedTo
      <3> QED BY <2>9, <3>2, <3>3
    <2>24. CurrentLeaseHasCurrentConfig'
      <3>1. SUFFICES ASSUME NEW l \in leases', Current(l.s, l)', l.g \notin srv'[l.s].kept
                     PROVE  slot'[<<l.s, l.g>>].conf = srv'[l.s].conf
        BY DEF CurrentLeaseHasCurrentConfig
      <3>2. CASE l = new
        BY <2>2, <2>3, <2>7, <2>13, <2>20, <3>2 DEF old
      <3>3. CASE l \in leases
        <4>1. l.s \in Servers /\ l.g \in Gens
          BY <3>3, LeaseFields
        <4>2. FencedTo(slot[<<l.s, l.g>>], slot'[<<l.s, l.g>>])
          BY <2>18, <4>1
        <4>3. Current(l.s, l)
          BY <3>1, <4>2 DEF Current, FencedTo
        <4> QED BY <2>20, <3>1, <3>3, <4>1, <4>2, <4>3 DEF CurrentLeaseHasCurrentConfig, FencedTo
      <3> QED BY <2>9, <3>2, <3>3
    <2>25. Owned'
      <3>1. SUFFICES ASSUME NEW t \in Servers
                     PROVE  /\ \A c \in {srv'[t].pend, srv'[t].inst} : c # None =>
                                  /\ CandidateLease(t, c) \in leases'
                                  /\ slot'[<<t, c.g>>].fence = "OPEN" => slot'[<<t, c.g>>].accepting
                            /\ srv'[t].pend # None =>
                                  /\ srv'[t].cur = srv'[t].pend.g
                                  /\ srv'[t].inst.g = srv'[t].pend.g =>
                                        srv'[t].inst.gen < srv'[t].pend.gen
                            /\ srv'[t].pend = None => srv'[t].cur \in {0, srv'[t].inst.g}
                            /\ 0 \notin srv'[t].lost
        BY <2>2 DEF Owned, CandidateLease
      <3>2. ASSUME NEW c \in {srv[t].pend, srv[t].inst}, c # None,
                   t # s \/ c = srv[t].inst
            PROVE  /\ CandidateLease(t, c) \in leases'
                   /\ slot'[<<t, c.g>>].fence = "OPEN" => slot'[<<t, c.g>>].accepting
        <4>1. CandidateLease(t, c) \in leases
          BY <3>2 DEF Owned
        <4>2. CandidateLease(t, c) \notin OwnedBy(s, srv[s].pend)
          BY <2>2, <3>2, LeasesApart, CandidateLeaseFields DEF OwnedBy
        <4>3. c.g \in Gens
          BY <3>2, RowFields, CandidateFields
        <4>4. slot[<<t, c.g>>].fence = "OPEN" => slot[<<t, c.g>>].accepting
          BY <3>2 DEF Owned
        <4> QED BY <2>1, <2>12, <2>14, <4>1, <4>2, <4>3, <4>4 DEF old
      <3>3. CASE t # s
        BY <2>2, <2>8, <3>2, <3>3 DEF Owned
      <3>4. CASE t = s
        <4>1. /\ srv'[t].pend = cand /\ srv'[t].cur = g /\ srv'[t].inst = srv[t].inst
              /\ srv'[t].lost = srv[t].lost /\ srv[t].inst.g # g
          BY <2>6, <2>8, <2>10, <3>4 DEF old
        <4>2. /\ CandidateLease(t, cand) \in leases'
              /\ slot'[<<t, cand.g>>].accepting
          BY <2>3, <2>5, <2>9, <2>13, <3>4 DEF new
        <4>3. ASSUME NEW c \in {cand, srv[t].inst}, c # None
              PROVE  /\ CandidateLease(t, c) \in leases'
                     /\ slot'[<<t, c.g>>].fence = "OPEN" => slot'[<<t, c.g>>].accepting
          BY <3>2, <4>2, <4>3
        <4>4. 0 \notin srv[t].lost
          BY DEF Owned
        <4> HIDE DEF McpInv
        <4> QED BY <2>5, <4>1, <4>3, <4>4
      <3> QED BY <3>3, <3>4
    <2>26. Used'
      BY <2>1, <2>9, <2>16, UsedKeep
    <2>27. Relists'
      BY <2>1, <2>12, <2>16, RelistsKeep
    <2>28. Ends'
      BY <2>1, <2>2 DEF Ends, Closed
    <2>29. OpenClientHasOwner'
      <3>1. SUFFICES ASSUME NEW t \in Servers, NEW h \in Gens, slot'[<<t, h>>].client = "open",
                            h \notin srv'[t].lost
                     PROVE  \/ Running(t, h)'
                            \/ h \in {srv'[t].cur, srv'[t].inst.g}
                            \/ closer'[<<t, h>>] # "none"
        BY DEF OpenClientHasOwner
      <3>2. slot[<<t, h>>].client = "open" /\ h \notin srv[t].lost
        BY <2>18, <2>20, <3>1 DEF FencedTo
      <3>3. CASE t = s /\ h = g
        BY <2>6, <2>8, <3>3
      <3>4. CASE t # s \/ h # g
        <4>1. Running(t, h) => Running(t, h)'
          BY <2>1, <3>4 DEF Running, s, g
        <4>2. h \in {srv[t].cur, srv[t].inst.g} =>
                 h \in {srv'[t].cur, srv'[t].inst.g} \/ closer'[<<t, h>>] # "none"
          <5>1. CASE t # s
            BY <2>8, <5>1
          <5>2. CASE t = s /\ h = srv[t].inst.g
            BY <2>20, <5>2
          <5>3. CASE t = s /\ h = srv[t].cur /\ h # srv[t].inst.g
            <6>1. srv[s].pend # None /\ srv[s].pend.g = h
              <7>1. Owned /\ s \in Servers /\ h \in Gens /\ h # 0 /\ ~Closed
                BY <2>2 DEF Gens
              <7> HIDE DEF McpInv
              <7> QED BY <5>3, <7>1 DEF Owned
            <6> QED BY <2>15, <5>3, <6>1 DEF loser, old
          <5> QED BY <5>1, <5>2, <5>3
        <4> QED BY <2>2, <2>15, <3>2, <4>1, <4>2 DEF OpenClientHasOwner
      <3> QED BY <3>3, <3>4
    <2>30. ReadyHasCatalog'
      BY <2>2, <2>5, <2>6, <2>8 DEF ReadyHasCatalog
    <2>31. TypeOK'
      <3>1. rebuild' \in BOOLEAN /\ leases' \subseteq Leases /\ attempts' \subseteq Attempts
        BY <2>1, <2>7, <2>9, RebuiltTypes DEF TypeOK
      <3> QED BY <1>1, <2>1, <2>8, <2>12, <2>15, <2>16, <3>1 DEF TypeOK
    <2> QED BY <2>21, <2>22, <2>23, <2>24, <2>25, <2>26, <2>27, <2>28, <2>29, <2>30, <2>31
  <1> QED BY <1>1, <1>2, <1>3

(* A reload fences the current slot and gives up the catalogs that the new  *)
(* configuration no longer shows.                                           *)
LEMMA ReloadConfigsKeeps ==
    ASSUME McpInv, NEW s \in Servers, NEW conf \in Configs \cup {NoConfig}, ReloadConfigs(s, conf)
    PROVE  McpInv'
  <1> USE DEF McpInv
  <1> DEFINE old == srv[s]
             retain == old.conf.on /\ conf.on /\ old.conf.sem = conf.sem
             row == [old EXCEPT !.conf = conf, !.gen = @ + 1, !.rgen = @ + 1, !.task = 0,
                       !.cur = 0, !.pend = None, !.inst = IF retain THEN @ ELSE None,
                       !.retry = FALSE,
                       !.lost = IF retain THEN @ ELSE @ \cup ({old.inst.g} \ {0, old.cur}),
                       !.kept = @ \cup {g \in Gens \ {old.cur} :
                                           \E l \in LeasesOn(<<s, g>>) : Current(s, l)},
                       !.st = IF retain THEN @ ELSE IF conf.on THEN "CONNECTING" ELSE "DISABLED"]
             stopped == {[a EXCEPT !.cancel = TRUE] : a \in {b \in attempts : b.s = s /\ b.g = old.task}}
             left == {a \in attempts : ~(a.s = s /\ a.g = old.task)} \cup stopped
             retired == IF old.cur = 0 THEN {} ELSE {<<s, old.cur>>}
  <1>1. /\ ~Closed /\ old.gen + 2 <= MaxGen /\ Event("reload")
        /\ slot' = [sl \in Slots |-> IF sl \in retired THEN MarkDirty(slot[sl]) ELSE slot[sl]]
        /\ closer' = StartClosers(retired)
        /\ leases' = leases \ (OwnedBy(s, old.pend) \cup IF retain THEN {} ELSE OwnedBy(s, old.inst))
        /\ StopRefresh(s)
        /\ rebuild' = (~retain \/ Rebuilt(row, StartRow(row)))
        /\ IF conf.on
             THEN /\ srv' = [srv EXCEPT ![s] = StartRow(row)]
                  /\ attempts' = left \cup {NewAttempt(s, row)}
             ELSE /\ srv' = [srv EXCEPT ![s] = row]
                  /\ attempts' = left
        /\ UNCHANGED <<allSlots, runtimeGen, portVars, phase>>
    BY DEF ReloadConfigs
  <1>2. /\ UNCHANGED <<surface, borrow, call, preview>>
        /\ phase = "open" /\ Closed' = Closed
    BY <1>1 DEF portVars, Closed
  <1>3. /\ old \in Rows /\ old.gen \in Gens /\ old.inst \in Candidates /\ old.pend \in Candidates
        /\ old.cur \in 0..MaxGen /\ MaxGen \in Nat
    BY RowFields, McpBounds
  <1>4. retain \in BOOLEAN /\ rebuild' \in BOOLEAN /\ events' \in Nat
    <2>1. Rebuilt(row, StartRow(row)) \in BOOLEAN
      BY RebuiltTypes
    <2>2. events' \in Nat
      BY <1>1, Counted
    <2> QED BY <1>1, <2>1, <2>2
  <1>5. Continues(left)
    <2> DEFINE busy == {b \in attempts : b.s = s /\ b.g = old.task}
    <2>1. left = (attempts \ busy) \cup {[a EXCEPT !.cancel = TRUE] : a \in busy}
      OBVIOUS
    <2> HIDE DEF busy, left
    <2>2. busy \subseteq attempts
      BY DEF busy
    <2> QED BY <2>1, <2>2, CancelContinues
  <1> HIDE DEF retain, stopped, left
  <1>6. /\ row \in Rows /\ row.gen = old.gen + 1 /\ row.gen < MaxGen /\ row.conf = conf
        /\ row.cur = 0 /\ row.pend = None /\ row.inst = (IF retain THEN old.inst ELSE None)
        /\ row.lost = (IF retain THEN old.lost ELSE old.lost \cup ({old.inst.g} \ {0, old.cur}))
        /\ row.kept = old.kept \cup {g \in Gens \ {old.cur} :
                                        \E l \in LeasesOn(<<s, g>>) : Current(s, l)}
        /\ row.st = (IF retain THEN old.st ELSE IF conf.on THEN "CONNECTING" ELSE "DISABLED")
    <2>1. old.gen + 1 \in Gens /\ old.gen + 1 < MaxGen
      <3>1. old.gen \in 1..MaxGen /\ old.gen + 2 <= MaxGen /\ MaxGen \in Nat
        BY <1>1, <1>3 DEF Gens
      <3> HIDE DEF McpInv, old
      <3> QED BY <3>1 DEF Gens
    <2>2. old.rgen + 1 \in Nat /\ 0 \in 0..MaxGen /\ None \in Candidates
      BY <1>3 DEF Rows, Candidates
    <2>3. (IF retain THEN old.inst ELSE None) \in Candidates
      BY <1>3, <2>2
    <2>4. old.inst.g \in 0..MaxGen
      BY <1>3, CandidateFields
    <2>5. (IF retain THEN old.lost ELSE old.lost \cup ({old.inst.g} \ {0, old.cur})) \in SUBSET Gens
      BY <1>3, <2>4 DEF Rows, Gens
    <2>6. (old.kept \cup {g \in Gens \ {old.cur} : \E l \in LeasesOn(<<s, g>>) : Current(s, l)})
             \in SUBSET Gens
      BY <1>3 DEF Rows
    <2>7. (IF retain THEN old.st ELSE IF conf.on THEN "CONNECTING" ELSE "DISABLED") \in ServerStates
      BY <1>3 DEF Rows, ServerStates
    <2> HIDE DEF McpInv
    <2>8. row \in Rows
      BY <1>3, <2>1, <2>2, <2>3, <2>5, <2>6, <2>7, ZenonT(60) DEF Rows
    <2> QED BY <1>3, <2>1, <2>8, ZenonT(60) DEF Rows
  <1> HIDE DEF row
  <1>7. StartsOne(s, row, left)
    <2>1. conf.on => row.conf.on
      BY <1>6
    <2> QED BY <1>1, <1>6, <2>1 DEF StartsOne
  <1>8. /\ srv' \in [Servers -> Rows] /\ attempts' \subseteq Attempts /\ AttemptsFollow
        /\ \A t, h : Running(t, h) => Running(t, h)'
        /\ srv'[s] = row \/ srv'[s] = StartRow(row)
        /\ \A t \in Servers : t # s => srv'[t] = srv[t]
        /\ srv'[s].gen >= row.gen
    <2>1. row.gen >= srv[s].gen
      BY <1>3, <1>6 DEF Gens
    <2> QED BY <1>5, <1>6, <1>7, <2>1, StartFollows
  <1>9. /\ srv'[s].conf = row.conf /\ srv'[s].cur = row.cur /\ srv'[s].pend = row.pend
        /\ srv'[s].inst = row.inst /\ srv'[s].lost = row.lost /\ srv'[s].kept = row.kept
    BY <1>6, <1>8, StartRowFields
  <1>10. /\ old.cur # 0 => old.cur \in Gens
         /\ \A t, h : <<t, h>> \in retired <=> t = s /\ h = old.cur /\ old.cur # 0
    BY <1>3 DEF Gens
  <1> HIDE DEF retired
  <1>11. /\ slot' \in [Slots -> SlotStates] /\ SlotsFenced
         /\ \A t \in Servers, h \in Gens :
               slot'[<<t, h>>] = IF <<t, h>> \in retired THEN MarkDirty(slot[<<t, h>>])
                                 ELSE slot[<<t, h>>]
    <2> DEFINE x == [sl \in Slots |-> IF sl \in retired THEN MarkDirty(slot[sl]) ELSE slot[sl]]
    <2>1. \A sl \in Slots :
             x[sl] \in {slot[sl], MarkDirty(slot[sl]), BeginClose(slot[sl]), BeginRetire(slot[sl])}
      OBVIOUS
    <2>2. slot' = [sl \in Slots |-> x[sl]]
      BY <1>1
    <2>3. \A t \in Servers, h \in Gens :
             x[<<t, h>>] = IF <<t, h>> \in retired THEN MarkDirty(slot[<<t, h>>]) ELSE slot[<<t, h>>]
      BY DEF Slots
    <2>4. \A t \in Servers, h \in Gens : slot'[<<t, h>>] = x[<<t, h>>]
      BY <2>2 DEF Slots
    <2> HIDE DEF x
    <2> QED BY <2>1, <2>2, <2>3, <2>4, FencedSlots
  <1>12. \A t \in Servers, h \in Gens : <<t, h>> \in retired => slot'[<<t, h>>].fence # "OPEN"
    BY <1>11, SlotFields, SlotOperations
  <1>13. /\ closer' \in [Slots -> {"none", "drain", "closing"}]
         /\ \A t \in Servers, h \in Gens :
               /\ closer[<<t, h>>] # "none" => closer'[<<t, h>>] = closer[<<t, h>>]
               /\ closer'[<<t, h>>] = "closing" => closer[<<t, h>>] = "closing"
               /\ closer'[<<t, h>>] # "none" => closer[<<t, h>>] # "none" \/ <<t, h>> \in retired
               /\ <<t, h>> \in retired => closer'[<<t, h>>] # "none"
    BY <1>1, SomeClosers
  <1>14. /\ refresh' \in [Servers -> Refreshes] /\ refresh'[s] = NoRefresh
         /\ \A t \in Servers : refresh'[t] \in {refresh[t], NoRefresh}
    BY <1>1, RefreshStops
  <1>15. /\ leases' \subseteq leases /\ Copies
         /\ \A l \in leases : l.kind # "candidate" => l \in leases'
         /\ \A l \in leases : l.s # s => l \in leases'
    BY <1>1, FewerLeases, CandidateLeaseFields DEF OwnedBy
  <1> HIDE DEF old
  <1>16. NothingSeen
    <2>1. SUFFICES ASSUME NEW t \in Servers, NEW h \in Gens, Unseen(t, h) PROVE Unseen(t, h)'
      BY DEF NothingSeen
    <2>2. h # 0 /\ NoRefresh.g = 0 /\ None.g = 0
      BY NoRefreshFields DEF Gens, None
    <2>3. h \notin {srv'[t].cur, srv'[t].pend.g, srv'[t].inst.g, refresh'[t].g}
      BY <1>6, <1>8, <1>9, <1>14, <2>1, <2>2 DEF Unseen, old
    <2>4. closer'[<<t, h>>] = "none" /\ Unleased(t, h)'
      BY <1>10, <1>13, <1>15, <2>1 DEF Unseen, Unleased, old
    <2> QED BY <2>3, <2>4 DEF Unseen
  <1>17. \A t \in Servers : srv'[t].gen \in Gens /\ srv'[t].gen >= srv[t].gen
    <2>1. \A t \in Servers : srv'[t].gen \in Gens /\ srv[t].gen \in Gens
      BY <1>8, RowFields DEF Rows
    <2>2. srv'[s].gen >= srv[s].gen
      BY <1>3, <1>6, <1>8, <2>1 DEF Gens, old
    <2> QED BY <1>8, <2>1, <2>2 DEF Gens
  <1>18. Tasks'
    BY <1>8, <1>11, <1>16, <1>17, FencedStand, TasksFollow
  <1>19. Clients'
    BY <1>1, <1>2, <1>11, <1>13, <1>15, ClientsKeep
  <1>20. Tokens'
    BY <1>1, <1>2, <1>11, <1>15, TokensKeep
  <1>21. Ends'
    BY <1>2 DEF Ends, Closed
  <1>22. Used'
    BY <1>2, <1>15, UsedKeep
  <1>23. Relists'
    <2>1. \A t \in Servers : refresh'[t].pc \in Captured => refresh'[t] = refresh[t]
      BY <1>14, NoRefreshFields DEF Captured
    <2> QED BY <1>2, <1>11, <2>1, RelistsKeep
  <1>24. CurrentLeaseHasCurrentConfig'
    <2>1. SUFFICES ASSUME NEW l \in leases', Current(l.s, l)', l.g \notin srv'[l.s].kept
                   PROVE  slot'[<<l.s, l.g>>].conf = srv'[l.s].conf
      BY DEF CurrentLeaseHasCurrentConfig
    <2>2. l \in leases /\ l.s \in Servers /\ l.g \in Gens
      BY <1>15, LeaseFields
    <2>3. FencedTo(slot[<<l.s, l.g>>], slot'[<<l.s, l.g>>])
      BY <1>11, <2>2 DEF SlotsFenced
    <2>4. Current(l.s, l)
      BY <2>1, <2>3 DEF Current, FencedTo
    <2>5. CASE l.s = s
      <3>1. l.g # old.cur
        BY <1>10, <1>12, <2>1, <2>2, <2>5 DEF Current, Gens
      <3>2. l \in LeasesOn(<<s, l.g>>) /\ Current(s, l)
        BY <2>2, <2>4, <2>5 DEF LeasesOn
      <3>3. l.g \in row.kept
        BY <1>6, <2>2, <3>1, <3>2
      <3> QED BY <1>9, <2>1, <2>5, <3>3
    <2>6. CASE l.s # s
      BY <1>8, <2>1, <2>2, <2>3, <2>4, <2>6 DEF CurrentLeaseHasCurrentConfig, FencedTo
    <2> QED BY <2>5, <2>6
  <1>25. Owned'
    <2>1. SUFFICES ASSUME NEW t \in Servers
                   PROVE  /\ \A c \in {srv'[t].pend, srv'[t].inst} : c # None =>
                                /\ CandidateLease(t, c) \in leases'
                                /\ slot'[<<t, c.g>>].fence = "OPEN" => slot'[<<t, c.g>>].accepting
                          /\ srv'[t].pend # None =>
                                /\ srv'[t].cur = srv'[t].pend.g
                                /\ srv'[t].inst.g = srv'[t].pend.g =>
                                      srv'[t].inst.gen < srv'[t].pend.gen
                          /\ srv'[t].pend = None => srv'[t].cur \in {0, srv'[t].inst.g}
                          /\ 0 \notin srv'[t].lost
      BY <1>1, <1>2 DEF Owned, CandidateLease
    <2>2. ASSUME NEW c \in {srv[t].pend, srv[t].inst}, c # None,
                 t # s \/ (c = srv[t].inst /\ retain)
          PROVE  /\ CandidateLease(t, c) \in leases'
                 /\ slot'[<<t, c.g>>].fence = "OPEN" => slot'[<<t, c.g>>].accepting
      <3>1. CandidateLease(t, c) \in leases
        BY <2>2 DEF Owned
      <3>2. CandidateLease(t, c) \in leases'
        <4>1. CASE t # s
          BY <1>15, <3>1, <4>1, CandidateLeaseFields
        <4>2. CASE t = s /\ c = srv[t].inst /\ retain
          <5>1. CandidateLease(t, c) \notin OwnedBy(s, srv[s].pend)
            BY <2>2, <4>2, LeasesApart DEF OwnedBy
          <5> QED BY <1>1, <3>1, <4>2, <5>1 DEF old
        <4> QED BY <2>2, <4>1, <4>2
      <3>3. c.g \in Gens
        BY <2>2, RowFields, CandidateFields
      <3>4. slot[<<t, c.g>>].fence = "OPEN" => slot[<<t, c.g>>].accepting
        BY <2>2 DEF Owned
      <3> QED BY <1>11, <1>12, <3>2, <3>3, <3>4
    <2>3. CASE t # s
      BY <1>1, <1>8, <2>2, <2>3 DEF Owned
    <2>4. CASE t = s
      <3>1. srv'[t].pend = None /\ srv'[t].cur = 0 /\ srv'[t].inst \in {None, srv[t].inst}
            /\ (srv'[t].inst # None => retain)
        BY <1>6, <1>9, <2>4 DEF old
      <3>2. 0 \notin srv'[t].lost
        BY <1>6, <1>9, <2>4 DEF Owned, old
      <3>3. ASSUME NEW c \in {srv'[t].pend, srv'[t].inst}, c # None
            PROVE  /\ CandidateLease(t, c) \in leases'
                   /\ slot'[<<t, c.g>>].fence = "OPEN" => slot'[<<t, c.g>>].accepting
        BY <2>2, <3>1, <3>3
      <3> HIDE DEF McpInv
      <3> QED BY <3>1, <3>2, <3>3
    <2> QED BY <2>3, <2>4
  <1>26. OpenClientHasOwner'
    <2>1. SUFFICES ASSUME NEW t \in Servers, NEW h \in Gens, slot'[<<t, h>>].client = "open",
                          h \notin srv'[t].lost
                   PROVE  \/ Running(t, h)'
                          \/ h \in {srv'[t].cur, srv'[t].inst.g}
                          \/ closer'[<<t, h>>] # "none"
      BY DEF OpenClientHasOwner
    <2>2. slot[<<t, h>>].client = "open"
      BY <1>11, <2>1 DEF SlotsFenced, FencedTo
    <2>3. h \notin srv[t].lost
      BY <1>6, <1>8, <1>9, <2>1 DEF old
    <2>4. Running(t, h) \/ h \in {srv[t].cur, srv[t].inst.g} \/ closer[<<t, h>>] # "none"
      BY <1>2, <2>2, <2>3 DEF OpenClientHasOwner
    <2>5. CASE t # s
      BY <1>8, <1>13, <2>4, <2>5
    <2>6. CASE t = s
      <3>1. h = srv[t].cur => closer'[<<t, h>>] # "none"
        BY <1>10, <1>13, <2>6 DEF old, Gens
      <3>2. h = srv[t].inst.g /\ h # srv[t].cur => h = srv'[t].inst.g
        BY <1>6, <1>9, <2>1, <2>6 DEF old, Gens
      <3> QED BY <1>8, <1>13, <2>4, <3>1, <3>2
    <2> QED BY <2>5, <2>6
  <1>27. ReadyHasCatalog'
    <2>1. SUFFICES ASSUME NEW t \in Servers, srv'[t].st = "READY"
                   PROVE  srv'[t].pend # None \/ srv'[t].inst # None
      BY DEF ReadyHasCatalog
    <2>2. CASE t # s
      BY <1>1, <1>8, <2>1, <2>2 DEF ReadyHasCatalog
    <2>3. CASE t = s /\ ~conf.on
      <3>1. ~retain /\ row.st = "DISABLED"
        BY <1>6, <2>3 DEF retain
      <3>2. srv'[s] = row
        BY <1>1, <2>3 DEF TypeOK
      <3> QED BY <2>1, <2>3, <3>1, <3>2
    <2>4. CASE t = s /\ conf.on
      <3>1. srv'[s] = StartRow(row)
        BY <1>1, <2>4 DEF TypeOK
      <3>2. Retained(row)
        BY <1>6, <2>1, <2>4, <3>1, StartRowFields
      <3>3. srv'[s].inst # None
        BY <1>9, <3>2 DEF Retained
      <3> QED BY <2>4, <3>3
    <2> QED BY <2>2, <2>3, <2>4
  <1>28. TypeOK'
    BY <1>1, <1>2, <1>4, <1>8, <1>11, <1>13, <1>14, <1>15 DEF TypeOK
  <1> QED BY <1>18, <1>19, <1>20, <1>21, <1>22, <1>23, <1>24, <1>25, <1>26, <1>27, <1>28

(* An installation moves candidates, with copies of their leases. *)
LEMMA InstallPendingKeeps == McpInv /\ InstallPending => McpInv'
  <1> SUFFICES ASSUME McpInv, InstallPending PROVE McpInv'
    OBVIOUS
  <1> USE DEF McpInv
  <1> DEFINE n == runtimeGen + 1
             owners == {s \in Servers : NextInstalled(s) # None}
             Issued(s) == [s |-> s, g |-> NextInstalled(s).g, gen |-> NextInstalled(s).gen,
                           kind |-> "runtime", n |-> n]
             given == UNION {OwnedBy(s, srv[s].inst) : s \in Replaced}
             freed == IF borrow = surface THEN {} ELSE Runtime(surface)
             Row(s) == [srv[s] EXCEPT !.inst = NextInstalled(s),
                                      !.pend = IF s \in Accepted THEN None ELSE @]
  <1>1. /\ ~Closed
        /\ srv' = [s \in Servers |-> Row(s)]
        /\ rebuild' = FALSE /\ runtimeGen' = n /\ surface' = n
        /\ leases' = (leases \ (given \cup freed)) \cup {Issued(s) : s \in owners}
        /\ slot' = [sl \in Slots |-> IF sl \in Moved THEN BeginRetire(slot[sl]) ELSE slot[sl]]
        /\ closer' = StartClosers(Moved)
        /\ UNCHANGED <<attempts, refresh, allSlots, borrow, call, preview, phase, events>>
    BY DEF InstallPending
  <1>2. n \in Nat /\ phase = "open" /\ Closed' = Closed
    <2>1. runtimeGen \in Nat
      BY DEF TypeOK
    <2>2. n \in Nat
      BY <2>1
    <2>3. ~Closed /\ UNCHANGED phase
      BY <1>1
    <2> HIDE DEF McpInv, n, owners, Issued, given, freed, Row
    <2> QED BY <2>2, <2>3 DEF Closed
  <1>3. \A s \in Servers :
           /\ NextInstalled(s) \in {srv[s].pend, srv[s].inst} /\ NextInstalled(s) \in Candidates
           /\ s \in Accepted => srv[s].pend # None /\ NextInstalled(s) = srv[s].pend
           /\ s \notin Accepted => NextInstalled(s) = srv[s].inst
    BY RowFields DEF NextInstalled, Accepted
  <1>4. \A s \in Servers :
           /\ Row(s) \in Rows /\ Row(s).inst = NextInstalled(s)
           /\ Row(s).pend = (IF s \in Accepted THEN None ELSE srv[s].pend)
           /\ Row(s).gen = srv[s].gen /\ Row(s).conf = srv[s].conf /\ Row(s).cur = srv[s].cur
           /\ Row(s).lost = srv[s].lost /\ Row(s).kept = srv[s].kept /\ Row(s).st = srv[s].st
    <2>1. SUFFICES ASSUME NEW s \in Servers PROVE <1>4!(s)
      OBVIOUS
    <2>2. /\ srv[s] \in Rows /\ NextInstalled(s) \in Candidates
          /\ (IF s \in Accepted THEN None ELSE srv[s].pend) \in Candidates
      BY <1>3, RowFields DEF Candidates
    <2> HIDE DEF McpInv
    <2> QED BY <2>2 DEF Rows
  <1> HIDE DEF Row
  <1>5. /\ srv' \in [Servers -> Rows]
        /\ \A s \in Servers :
           /\ srv'[s].inst = NextInstalled(s)
           /\ srv'[s].pend = (IF s \in Accepted THEN None ELSE srv[s].pend)
           /\ srv'[s].gen = srv[s].gen /\ srv'[s].conf = srv[s].conf /\ srv'[s].cur = srv[s].cur
           /\ srv'[s].lost = srv[s].lost /\ srv'[s].kept = srv[s].kept /\ srv'[s].st = srv[s].st
    BY <1>1, <1>4
  <1>6. ASSUME NEW t, NEW h, <<t, h>> \in Moved
        PROVE  /\ t \in Servers /\ t \in Accepted /\ h = srv[t].inst.g /\ srv[t].inst # None
               /\ h # srv[t].pend.g
    BY <1>6 DEF Moved, Replaced, Accepted
  <1>7. /\ slot' \in [Slots -> SlotStates] /\ SlotsFenced
        /\ \A t \in Servers, h \in Gens :
              slot'[<<t, h>>] = IF <<t, h>> \in Moved THEN BeginRetire(slot[<<t, h>>])
                                ELSE slot[<<t, h>>]
    <2> DEFINE x == [sl \in Slots |-> IF sl \in Moved THEN BeginRetire(slot[sl]) ELSE slot[sl]]
    <2>1. \A sl \in Slots :
             x[sl] \in {slot[sl], MarkDirty(slot[sl]), BeginClose(slot[sl]), BeginRetire(slot[sl])}
      OBVIOUS
    <2>2. slot' = [sl \in Slots |-> x[sl]]
      BY <1>1
    <2>3. \A t \in Servers, h \in Gens :
             x[<<t, h>>] = IF <<t, h>> \in Moved THEN BeginRetire(slot[<<t, h>>]) ELSE slot[<<t, h>>]
      BY DEF Slots
    <2>4. \A t \in Servers, h \in Gens : slot'[<<t, h>>] = x[<<t, h>>]
      BY <2>2 DEF Slots
    <2> HIDE DEF x
    <2> QED BY <2>1, <2>2, <2>3, <2>4, FencedSlots
  <1>8. /\ closer' \in [Slots -> {"none", "drain", "closing"}]
        /\ \A t \in Servers, h \in Gens :
              /\ closer[<<t, h>>] # "none" => closer'[<<t, h>>] = closer[<<t, h>>]
              /\ closer'[<<t, h>>] = "closing" => closer[<<t, h>>] = "closing"
              /\ closer'[<<t, h>>] # "none" => closer[<<t, h>>] # "none" \/ <<t, h>> \in Moved
              /\ <<t, h>> \in Moved => closer'[<<t, h>>] # "none"
    BY <1>1, SomeClosers
  <1>9. \A s \in owners :
           /\ CandidateLease(s, NextInstalled(s)) \in leases
           /\ Issued(s) \in Leases /\ Issued(s).s = s /\ Issued(s).g = NextInstalled(s).g
           /\ Issued(s).gen = NextInstalled(s).gen
    <2>1. SUFFICES ASSUME NEW s \in Servers, NextInstalled(s) # None PROVE <1>9!(s)
      OBVIOUS
    <2>2. CandidateLease(s, NextInstalled(s)) \in leases
      BY <1>3, <2>1 DEF Owned
    <2>3. NextInstalled(s).g \in Gens /\ NextInstalled(s).gen \in Nat
      BY <1>3, <2>1, CandidateFields
    <2> QED BY <1>2, <2>2, <2>3 DEF Leases
  <1> HIDE DEF Issued, owners, n
  <1>10. Copies
    <2>1. SUFFICES ASSUME NEW l \in leases' PROVE \E k \in leases : k.s = l.s /\ k.g = l.g /\ k.gen = l.gen
      BY DEF Copies
    <2>2. CASE l \in leases
      BY <2>2
    <2>3. CASE l \notin leases
      <3>1. PICK s \in owners : l = Issued(s)
        BY <1>1, <2>3
      <3> QED BY <1>9, <3>1, CandidateLeaseFields
    <2> QED BY <2>2, <2>3
  <1>11. leases' \subseteq Leases
    BY <1>1, <1>9 DEF TypeOK
  <1>12. ASSUME NEW l \in leases, l.kind # "candidate", l.kind # "runtime" \/ l.n = borrow
         PROVE  l \in leases'
    <2>1. l \notin given
      BY <1>12, CandidateLeaseFields DEF OwnedBy
    <2>2. l \notin freed
      BY <1>12 DEF Runtime
    <2> QED BY <1>1, <2>1, <2>2
  <1>13. ASSUME NEW s \in Servers, NEW c \in {srv'[s].pend, srv'[s].inst}, c # None
         PROVE  /\ CandidateLease(s, c) \in leases'
                /\ slot'[<<s, c.g>>].fence = "OPEN" => slot'[<<s, c.g>>].accepting
    <2>1. c \in {srv[s].pend, srv[s].inst} /\ (s \in Accepted => c = srv[s].pend)
      BY <1>3, <1>5, <1>13
    <2>2. CandidateLease(s, c) \in leases
      BY <1>13, <2>1 DEF Owned
    <2>3. CandidateLease(s, c) \notin given
      <3>1. SUFFICES ASSUME NEW t \in Replaced, CandidateLease(s, c) \in OwnedBy(t, srv[t].inst)
                     PROVE  FALSE
        OBVIOUS
      <3>2. /\ t \in Servers /\ t \in Accepted /\ srv[t].inst # None
            /\ CandidateLease(s, c) = CandidateLease(t, srv[t].inst)
        BY <3>1 DEF Replaced, Accepted, OwnedBy
      <3>3. s = t
        BY <3>2, CandidateLeaseFields
      <3> QED BY <1>13, <2>1, <3>2, <3>3, LeasesApart
    <2>4. CandidateLease(s, c) \notin freed
      BY CandidateLeaseFields DEF Runtime
    <2>5. <<s, c.g>> \notin Moved
      <3>1. SUFFICES ASSUME <<s, c.g>> \in Moved PROVE FALSE
        OBVIOUS
      <3> QED BY <1>6, <2>1, <3>1
    <2>6. c.g \in Gens
      BY <1>13, <2>1, RowFields, CandidateFields
    <2>7. slot[<<s, c.g>>].fence = "OPEN" => slot[<<s, c.g>>].accepting
      BY <1>13, <2>1 DEF Owned
    <2> QED BY <1>1, <1>7, <2>2, <2>3, <2>4, <2>5, <2>6, <2>7
  <1> HIDE DEF given, freed
  <1>14. NothingSeen
    <2>1. SUFFICES ASSUME NEW t \in Servers, NEW h \in Gens, Unseen(t, h) PROVE Unseen(t, h)'
      BY DEF NothingSeen
    <2>2. h # 0 /\ None.g = 0
      BY DEF Gens, None
    <2>3. h \notin {srv'[t].cur, srv'[t].pend.g, srv'[t].inst.g, refresh'[t].g}
      BY <1>1, <1>3, <1>5, <2>1, <2>2 DEF Unseen
    <2>4. Unleased(t, h)'
      BY <1>10, <2>1 DEF Unseen, Unleased, Copies
    <2>5. closer'[<<t, h>>] = "none"
      BY <1>6, <1>8, <2>1 DEF Unseen
    <2> QED BY <2>3, <2>4, <2>5 DEF Unseen
  <1>15. Tasks'
    BY <1>1, <1>5, <1>7, <1>14, RowFields, FencedStand, TasksKeep DEF Gens
  <1>16. Clients'
    BY <1>1, <1>2, <1>7, <1>8, <1>10, ClientsKeep
  <1>17. Tokens'
    BY <1>1, <1>2, <1>7, <1>10, TokensKeep
  <1>18. Ends'
    BY <1>2 DEF Ends, Closed
  <1>19. CurrentLeaseHasCurrentConfig'
    BY <1>5, <1>7, <1>10, CurrentKeep
  <1>20. Relists'
    BY <1>1, <1>7, RelistsKeep
  <1>21. Used'
    <2>1. ASSUME NEW c \in Calls, call[c] # Idle
          PROVE  call[c].st \in Permit /\ borrow # 0 /\ CallLease(c) \in leases'
      <3>1. call[c].st \in Permit /\ borrow # 0 /\ CallLease(c) \in leases
        BY <2>1 DEF Used
      <3>2. CallLease(c).kind = "runtime" /\ CallLease(c).n = borrow
        BY DEF CallLease
      <3> QED BY <1>12, <3>1, <3>2
    <2>2. ASSUME NEW p \in Previews, preview[p] # Idle
          PROVE  preview[p].st \in {"wait", "lane", "op"} /\ PreviewLease(p) \in leases'
      <3>1. preview[p].st \in {"wait", "lane", "op"} /\ PreviewLease(p) \in leases
        BY <2>2 DEF Used
      <3>2. PreviewLease(p).kind = "preview"
        BY DEF PreviewLease
      <3> QED BY <1>12, <3>1, <3>2
    <2> QED BY <1>1, <2>1, <2>2 DEF Used, CallLease, PreviewLease
  <1>22. Owned'
    <2>1. SUFFICES ASSUME NEW t \in Servers
                   PROVE  /\ srv'[t].pend # None =>
                                /\ srv'[t].cur = srv'[t].pend.g
                                /\ srv'[t].inst.g = srv'[t].pend.g =>
                                      srv'[t].inst.gen < srv'[t].pend.gen
                          /\ srv'[t].pend = None => srv'[t].cur \in {0, srv'[t].inst.g}
                          /\ 0 \notin srv'[t].lost
      BY <1>1, <1>2, <1>13 DEF Owned, CandidateLease
    <2>2. CASE t \in Accepted
      <3>1. /\ srv'[t].pend = None /\ srv'[t].inst = srv[t].pend /\ srv'[t].cur = srv[t].cur
            /\ srv[t].pend # None /\ srv'[t].lost = srv[t].lost
        BY <1>3, <1>5, <2>2
      <3>2. srv[t].cur = srv[t].pend.g /\ 0 \notin srv[t].lost
        BY <3>1 DEF Owned
      <3> HIDE DEF McpInv
      <3> QED BY <3>1, <3>2
    <2>3. CASE t \notin Accepted
      <3>1. /\ srv'[t].pend = srv[t].pend /\ srv'[t].inst = srv[t].inst /\ srv'[t].cur = srv[t].cur
            /\ srv'[t].lost = srv[t].lost
        BY <1>3, <1>5, <2>3
      <3> QED BY <1>1, <3>1, ZenonT(60) DEF Owned
    <2> QED BY <2>2, <2>3
  <1>23. OpenClientHasOwner'
    <2>1. SUFFICES ASSUME NEW t \in Servers, NEW h \in Gens, slot'[<<t, h>>].client = "open",
                          h \notin srv'[t].lost
                   PROVE  \/ Running(t, h)'
                          \/ h \in {srv'[t].cur, srv'[t].inst.g}
                          \/ closer'[<<t, h>>] # "none"
      BY DEF OpenClientHasOwner
    <2>2. slot[<<t, h>>].client = "open" /\ h \notin srv[t].lost
      BY <1>5, <1>7, <2>1 DEF SlotsFenced, FencedTo
    <2>3. Running(t, h) \/ h \in {srv[t].cur, srv[t].inst.g} \/ closer[<<t, h>>] # "none"
      BY <1>2, <2>2 DEF OpenClientHasOwner
    <2>4. Running(t, h) => Running(t, h)'
      BY <1>1 DEF Running
    <2>5. h = srv[t].inst.g => h = srv'[t].inst.g \/ closer'[<<t, h>>] # "none"
      <3>1. SUFFICES ASSUME h = srv[t].inst.g, h # srv'[t].inst.g PROVE closer'[<<t, h>>] # "none"
        OBVIOUS
      <3>2. t \in Accepted /\ srv[t].inst # None /\ srv'[t].inst = srv[t].pend
        BY <1>3, <1>5, <3>1 DEF None, Gens
      <3>3. <<t, h>> \in Moved
        BY <3>1, <3>2 DEF Moved, Replaced
      <3> QED BY <1>8, <3>3
    <2> QED BY <1>5, <1>8, <2>3, <2>4, <2>5
  <1>24. ReadyHasCatalog'
    BY <1>1, <1>2, <1>3, <1>5 DEF ReadyHasCatalog
  <1>25. TypeOK'
    BY <1>1, <1>2, <1>5, <1>7, <1>8, <1>11 DEF TypeOK
  <1> QED BY <1>13, <1>15, <1>16, <1>17, <1>18, <1>19, <1>20, <1>21, <1>22, <1>23, <1>24, <1>25

-----------------------------------------------------------------------------
(* Close                                                                    *)

(* A close fences every registered slot and takes back the candidates. *)
LEMMA CloseBeginsKeeps == McpInv /\ CloseBegins => McpInv'
  <1> SUFFICES ASSUME McpInv, CloseBegins PROVE McpInv'
    OBVIOUS
  <1> USE DEF McpInv
  <1> DEFINE Row(s) == [srv[s] EXCEPT !.pend = None, !.inst = None, !.retry = FALSE]
  <1>1. /\ phase = "open" /\ phase' = "tasks"
        /\ slot' = [sl \in Slots |-> IF sl \in allSlots THEN BeginClose(slot[sl]) ELSE slot[sl]]
        /\ call' = DropAdmitted(allSlots)
        /\ leases' = {l \in leases : l.kind # "candidate"}
        /\ srv' = [s \in Servers |-> Row(s)]
        /\ attempts' = {[a EXCEPT !.cancel = TRUE] : a \in attempts}
        /\ refresh' = [s \in Servers |-> NoRefresh]
        /\ UNCHANGED <<allSlots, closer, rebuild, runtimeGen, surface, borrow, preview, events>>
    BY DEF CloseBegins
  <1>2. ~Closed /\ Closed'
    BY <1>1 DEF Closed
  <1>3. \A s \in Servers :
           /\ Row(s) \in Rows /\ Row(s).gen = srv[s].gen /\ Row(s).cur = srv[s].cur
           /\ Row(s).pend = None /\ Row(s).inst = None /\ Row(s).conf = srv[s].conf
           /\ Row(s).lost = srv[s].lost /\ Row(s).kept = srv[s].kept
    <2>1. \A s \in Servers : srv[s] \in Rows /\ None \in Candidates
      BY RowFields DEF Candidates
    <2> HIDE DEF McpInv
    <2> QED BY <2>1 DEF Rows
  <1> HIDE DEF Row
  <1>4. /\ srv' \in [Servers -> Rows]
        /\ \A s \in Servers :
           /\ srv'[s].gen = srv[s].gen /\ srv'[s].cur = srv[s].cur
           /\ srv'[s].pend = None /\ srv'[s].inst = None /\ srv'[s].conf = srv[s].conf
           /\ srv'[s].lost = srv[s].lost /\ srv'[s].kept = srv[s].kept
    BY <1>1, <1>3
  <1>5. /\ slot' \in [Slots -> SlotStates] /\ SlotsFenced
        /\ \A t \in Servers, h \in Gens :
              slot'[<<t, h>>] = IF <<t, h>> \in allSlots THEN BeginClose(slot[<<t, h>>])
                                ELSE slot[<<t, h>>]
    BY <1>1, SomeClosed
  <1>6. call' \in [Calls -> Uses] /\ \A c \in Calls : call'[c] \in {Idle, call[c]}
    BY <1>1, SomeDropped
  <1>7. leases' \subseteq leases /\ Copies /\ \A l \in leases : l.kind # "candidate" => l \in leases'
    BY <1>1, FewerLeases
  <1>8. refresh' \in [Servers -> Refreshes]
        /\ \A s \in Servers : refresh'[s] = NoRefresh /\ NoRefresh.g = 0 /\ NoRefresh.pc \notin Captured
    BY <1>1, NoRefreshFields DEF Captured
  <1>9. attempts' \subseteq Attempts /\ AttemptsFollow
    <2> DEFINE left == (attempts \ attempts) \cup {[a EXCEPT !.cancel = TRUE] : a \in attempts}
    <2>1. Continues(left)
      BY CancelContinues
    <2>2. attempts' = left
      BY <1>1
    <2> HIDE DEF left
    <2> QED BY <2>1, <2>2 DEF Continues, AttemptsFollow
  <1>10. NothingSeen
    <2>1. SUFFICES ASSUME NEW t \in Servers, NEW h \in Gens, Unseen(t, h) PROVE Unseen(t, h)'
      BY DEF NothingSeen
    <2>2. h \notin {srv'[t].cur, srv'[t].pend.g, srv'[t].inst.g, refresh'[t].g}
      BY <1>4, <1>8, <2>1 DEF Unseen, None, Gens
    <2> QED BY <1>1, <1>7, <2>1, <2>2 DEF Unseen, Unleased
  <1>11. Tasks'
    <2>1. \A s \in Servers : srv'[s].gen \in Gens /\ srv'[s].gen >= srv[s].gen
      BY <1>4, RowFields DEF Gens
    <2> QED BY <1>5, <1>9, <1>10, <2>1, FencedStand, TasksFollow
  <1>12. Clients'
    <2>1. SUFFICES ASSUME NEW t \in Servers, NEW h \in Gens
                   PROVE  /\ slot'[<<t, h>>].client \in {"open", "stuck"} => <<t, h>> \in allSlots
                          /\ slot'[<<t, h>>].client \in {"closed", "stuck"} =>
                                slot'[<<t, h>>].fence = "CLOSED"
                          /\ slot'[<<t, h>>].accepting => slot'[<<t, h>>].fence = "OPEN"
                          /\ closer[<<t, h>>] = "closing" =>
                                slot'[<<t, h>>].fence = "CLOSED" /\ Unleased(t, h)'
                          /\ <<t, h>> \in allSlots => slot'[<<t, h>>].fence = "CLOSED"
      BY <1>1 DEF Clients
    <2>2. FencedTo(slot[<<t, h>>], slot'[<<t, h>>])
      BY <1>5 DEF SlotsFenced
    <2>3. <<t, h>> \in allSlots => slot'[<<t, h>>].fence = "CLOSED"
      BY <1>5, SlotFields, SlotOperations
    <2>4. Unleased(t, h) => Unleased(t, h)'
      BY <1>7 DEF Unleased
    <2> QED BY <2>2, <2>3, <2>4 DEF Clients, FencedTo
  <1>13. Tokens'
    BY <1>1, <1>2, <1>5, <1>7, TokensKeep
  <1>14. Owned'
    <2>1. \A s \in Servers : 0 \notin srv'[s].lost
      BY <1>4 DEF Owned
    <2> HIDE DEF McpInv
    <2> QED BY <1>2, <1>4, <2>1 DEF Owned
  <1>15. Used'
    BY <1>1, <1>6, <1>7, UsedKeep
  <1>16. Relists'
    BY <1>8 DEF Relists
  <1>17. Ends'
    BY <1>1, <1>8 DEF Ends
  <1>18. OpenClientHasOwner'
    BY <1>1 DEF OpenClientHasOwner
  <1>19. CurrentLeaseHasCurrentConfig'
    BY <1>4, <1>5, <1>7, CurrentKeep
  <1>20. ReadyHasCatalog'
    BY <1>2 DEF ReadyHasCatalog
  <1>21. TypeOK'
    BY <1>1, <1>4, <1>5, <1>6, <1>7, <1>8, <1>9 DEF TypeOK
  <1> QED BY <1>11, <1>12, <1>13, <1>14, <1>15, <1>16, <1>17, <1>18, <1>19, <1>20, <1>21

(* What the later steps of a close leave as it is. *)
LEMMA ClosingKeeps ==
    ASSUME McpInv, Closed, Closed',
           UNCHANGED <<srv, attempts, refresh, leases, closer, rebuild, runtimeGen, surface,
                       borrow, call, preview>>,
           events' \in Nat,
           phase' \in {"tasks", "drain", "retired", "done"},
           slot' \in [Slots -> SlotStates],
           \A t \in Servers, h \in Gens :
              /\ slot'[<<t, h>>].fence = slot[<<t, h>>].fence
              /\ slot'[<<t, h>>].dirty = slot[<<t, h>>].dirty
              /\ slot'[<<t, h>>].accepting = slot[<<t, h>>].accepting
              /\ slot'[<<t, h>>].conf = slot[<<t, h>>].conf
              /\ slot'[<<t, h>>].client = "none" <=> slot[<<t, h>>].client = "none"
              /\ slot'[<<t, h>>].client \in {"open", "stuck"} => <<t, h>> \in allSlots'
              /\ slot'[<<t, h>>].client \in {"closed", "stuck"} => slot[<<t, h>>].fence = "CLOSED"
              /\ attempts # {} => slot'[<<t, h>>] = slot[<<t, h>>],
           allSlots' \subseteq allSlots,
           \A l \in leases : <<l.s, l.g>> \in allSlots',
           Ends', OpenClientHasOwner'
    PROVE  McpInv'
  <1> USE DEF McpInv
  <1>1. /\ \A t, h : Unseen(t, h)' <=> Unseen(t, h)
        /\ \A t, h : Unleased(t, h)' <=> Unleased(t, h)
        /\ \A t, h : Quiet(t, h)' <=> Quiet(t, h)
    BY DEF Unseen, Unleased, Quiet
  <1>2. Tasks'
    <2>1. ASSUME NEW a \in attempts
          PROVE  /\ a.pc \in {"reserve", "import"} => slot'[<<a.s, a.g>>].client = "none"
                 /\ a.pc \notin {"reserve", "import"} =>
                       slot'[<<a.s, a.g>>].client = "open" /\ slot'[<<a.s, a.g>>].conf = a.conf
                 /\ a.pc \in {"close_terminal", "close_retryable"} =>
                       slot'[<<a.s, a.g>>].fence = "CLOSED"
      <3>1. slot'[<<a.s, a.g>>] = slot[<<a.s, a.g>>]
        BY AttemptFields
      <3> QED BY <3>1 DEF Tasks
    <2> QED BY <1>1, <2>1 DEF Tasks
  <1>3. Clients'
    <2>1. SUFFICES ASSUME NEW t \in Servers, NEW h \in Gens
                   PROVE  /\ slot'[<<t, h>>].client \in {"open", "stuck"} => <<t, h>> \in allSlots'
                          /\ slot'[<<t, h>>].client \in {"closed", "stuck"} =>
                                slot'[<<t, h>>].fence = "CLOSED"
                          /\ slot'[<<t, h>>].accepting => slot'[<<t, h>>].fence = "OPEN"
                          /\ closer'[<<t, h>>] = "closing" =>
                                slot'[<<t, h>>].fence = "CLOSED" /\ Unleased(t, h)'
                          /\ <<t, h>> \in allSlots' => slot'[<<t, h>>].fence = "CLOSED"
      BY DEF Clients
    <2>3. Unleased(t, h)' <=> Unleased(t, h)
      BY <1>1
    <2>2. /\ slot[<<t, h>>].accepting => slot[<<t, h>>].fence = "OPEN"
          /\ closer[<<t, h>>] = "closing" => slot[<<t, h>>].fence = "CLOSED" /\ Unleased(t, h)
          /\ <<t, h>> \in allSlots => slot[<<t, h>>].fence = "CLOSED"
      BY DEF Clients
    <2> HIDE DEF McpInv
    <2> QED BY <2>3, <2>2
  <1>4. Tokens'
    <2>1. SUFFICES ASSUME NEW l \in leases
                   PROVE  /\ l.gen <= slot'[<<l.s, l.g>>].dirty
                          /\ slot'[<<l.s, l.g>>].fence = "DIRTY_FENCED" =>
                                l.gen < slot'[<<l.s, l.g>>].dirty
      BY DEF Tokens
    <2> QED BY LeaseFields DEF Tokens
  <1>5. Owned'
    BY DEF Owned
  <1>6. Used'
    BY DEF Used, CallLease, PreviewLease
  <1>7. Relists'
    BY <1>1 DEF Relists
  <1>8. CurrentLeaseHasCurrentConfig'
    <2>1. SUFFICES ASSUME NEW l \in leases, Current(l.s, l)', l.g \notin srv[l.s].kept
                   PROVE  slot'[<<l.s, l.g>>].conf = srv[l.s].conf
      BY DEF CurrentLeaseHasCurrentConfig
    <2>2. l.s \in Servers /\ l.g \in Gens
      BY LeaseFields
    <2>3. Current(l.s, l)
      BY <2>1, <2>2 DEF Current
    <2> QED BY <2>1, <2>2, <2>3 DEF CurrentLeaseHasCurrentConfig
  <1>9. ReadyHasCatalog'
    BY DEF ReadyHasCatalog
  <1>10. TypeOK'
    BY DEF TypeOK
  <1> QED BY <1>2, <1>3, <1>4, <1>5, <1>6, <1>7, <1>8, <1>9, <1>10

(* The transports are closed after every attempt joined. *)
LEMMA CloseTransportsKeeps == McpInv /\ CloseTransports => McpInv'
  <1> SUFFICES ASSUME McpInv, CloseTransports PROVE McpInv'
    OBVIOUS
  <1> USE DEF McpInv
  <1> DEFINE open == {sl \in allSlots : slot[sl].client = "open"}
  <1>1. PICK raised \in SUBSET open :
          /\ slot' = [sl \in Slots |->
                         IF sl \in allSlots /\ slot[sl].client = "open"
                           THEN [slot[sl] EXCEPT !.client =
                                   IF sl \in raised THEN "stuck" ELSE "closed"]
                           ELSE slot[sl]]
          /\ events' = events \/ Event("close_error")
    BY DEF CloseTransports
  <1>10. /\ phase = "tasks" /\ attempts = {} /\ phase' = "drain"
         /\ UNCHANGED <<srv, attempts, refresh, allSlots, leases, closer, rebuild, runtimeGen,
                        surface, borrow, call, preview>>
    BY DEF CloseTransports, portVars
  <1>11. events' \in Nat
    BY <1>1, Counted DEF TypeOK
  <1>2. Closed /\ Closed'
    BY <1>10 DEF Closed
  <1>3. \A t \in Servers, h \in Gens :
           slot'[<<t, h>>] = IF slot[<<t, h>>].client = "open"
                               THEN [slot[<<t, h>>] EXCEPT !.client =
                                       IF <<t, h>> \in raised THEN "stuck" ELSE "closed"]
                               ELSE slot[<<t, h>>]
    BY <1>1 DEF Slots, Clients
  <1>4. ASSUME NEW t \in Servers, NEW h \in Gens
        PROVE  /\ slot'[<<t, h>>] \in SlotStates
               /\ slot'[<<t, h>>].fence = slot[<<t, h>>].fence
               /\ slot'[<<t, h>>].dirty = slot[<<t, h>>].dirty
               /\ slot'[<<t, h>>].accepting = slot[<<t, h>>].accepting
               /\ slot'[<<t, h>>].conf = slot[<<t, h>>].conf
               /\ slot'[<<t, h>>].client \in
                     (IF slot[<<t, h>>].client = "open" THEN {"closed", "stuck"}
                      ELSE {slot[<<t, h>>].client})
    <2>1. slot[<<t, h>>] \in SlotStates
      BY SlotFields
    <2>2. slot'[<<t, h>>] = IF slot[<<t, h>>].client = "open"
                              THEN [slot[<<t, h>>] EXCEPT !.client =
                                      IF <<t, h>> \in raised THEN "stuck" ELSE "closed"]
                              ELSE slot[<<t, h>>]
      BY <1>3
    <2> HIDE DEF McpInv
    <2> QED BY <2>1, <2>2 DEF SlotStates
  <1>5. slot' \in [Slots -> SlotStates]
    <2>1. ASSUME NEW sl \in Slots PROVE slot'[sl] \in SlotStates
      <3>1. PICK t \in Servers, h \in Gens : sl = <<t, h>>
        BY DEF Slots
      <3>2. slot'[<<t, h>>] \in SlotStates
        BY <1>4
      <3> QED BY <3>1, <3>2
    <2> QED BY <1>1, <2>1
  <1>6. \A t \in Servers, h \in Gens :
           /\ slot'[<<t, h>>].client \in {"open", "stuck"} => <<t, h>> \in allSlots
           /\ slot'[<<t, h>>].client \in {"closed", "stuck"} => slot[<<t, h>>].fence = "CLOSED"
           /\ slot'[<<t, h>>].client = "none" <=> slot[<<t, h>>].client = "none"
    BY <1>2, <1>4 DEF Clients
  <1>7. Ends'
    <2>1. \A s \in Servers : refresh[s] = NoRefresh
      BY <1>2 DEF Ends
    <2>2. \A t \in Servers, h \in Gens : slot'[<<t, h>>].client # "open"
      BY <1>4
    <2> HIDE DEF McpInv
    <2> QED BY <1>10, <2>1, <2>2 DEF Ends
  <1>8. OpenClientHasOwner'
    BY <1>10 DEF OpenClientHasOwner
  <1>9. \A l \in leases : <<l.s, l.g>> \in allSlots
    BY DEF Tokens
  <1> HIDE DEF McpInv
  <1> QED BY <1>2, <1>4, <1>5, <1>6, <1>7, <1>8, <1>9, <1>10, <1>11, ClosingKeeps, ZenonT(60)

(* The registry is emptied once every lease and permit came back. *)
LEMMA CloseDrainedKeeps == McpInv /\ CloseDrained => McpInv'
  <1> SUFFICES ASSUME McpInv, CloseDrained PROVE McpInv'
    OBVIOUS
  <1> USE DEF McpInv
  <1>1. /\ phase = "drain" /\ phase' = "retired"
        /\ \A sl \in allSlots : LeasesOn(sl) = {}
        /\ allSlots' = {sl \in allSlots : slot[sl].client = "stuck"}
        /\ UNCHANGED <<srv, attempts, refresh, slot, leases, closer, rebuild, runtimeGen,
                       surface, borrow, call, preview, events>>
    BY DEF CloseDrained, portVars
  <1>2. Closed /\ Closed'
    BY <1>1 DEF Closed
  <1>3. leases = {}
    BY <1>1 DEF Tokens, LeasesOn
  <1>4. \A sl \in Slots : slot[sl].client = "stuck" => sl \in allSlots
    BY DEF Clients, Slots
  <1>5. allSlots' = {sl \in Slots : slot[sl].client = "stuck"}
    BY <1>1, <1>4 DEF TypeOK
  <1>6. Ends'
    BY <1>1, <1>2, <1>3, <1>5 DEF Ends, Closed
  <1>7. OpenClientHasOwner'
    BY <1>1 DEF OpenClientHasOwner
  <1>8. \A t \in Servers, h \in Gens :
           /\ slot[<<t, h>>].client \in {"open", "stuck"} => <<t, h>> \in allSlots'
           /\ slot[<<t, h>>].client \in {"closed", "stuck"} => slot[<<t, h>>].fence = "CLOSED"
    <2>1. \A t \in Servers, h \in Gens : slot[<<t, h>>].client # "open"
      BY <1>1 DEF Ends
    <2> QED BY <1>1, <2>1 DEF Clients
  <1>9. slot' \in [Slots -> SlotStates] /\ events' \in Nat
    BY <1>1 DEF TypeOK
  <1> QED BY <1>1, <1>2, <1>3, <1>6, <1>7, <1>8, <1>9, ClosingKeeps

(* The close is done once the closers of retired slots ended. *)
LEMMA CloseDoneKeeps == McpInv /\ CloseDone => McpInv'
  <1> SUFFICES ASSUME McpInv, CloseDone PROVE McpInv'
    OBVIOUS
  <1> USE DEF McpInv
  <1>1. /\ phase = "retired" /\ phase' = "done"
        /\ UNCHANGED <<srv, attempts, refresh, slot, allSlots, leases, closer, rebuild,
                       runtimeGen, surface, borrow, call, preview, events>>
    BY DEF CloseDone, portVars
  <1>2. Closed /\ Closed'
    BY <1>1 DEF Closed
  <1>3. Ends'
    BY <1>1 DEF Ends, Closed
  <1>4. OpenClientHasOwner'
    BY <1>1 DEF OpenClientHasOwner, Ends
  <1>5. \A t \in Servers, h \in Gens :
           /\ slot[<<t, h>>].client \in {"open", "stuck"} => <<t, h>> \in allSlots
           /\ slot[<<t, h>>].client \in {"closed", "stuck"} => slot[<<t, h>>].fence = "CLOSED"
    BY DEF Clients
  <1>6. slot' \in [Slots -> SlotStates] /\ events' \in Nat /\ \A l \in leases : <<l.s, l.g>> \in allSlots
    BY <1>1 DEF TypeOK, Tokens
  <1> QED BY <1>1, <1>2, <1>3, <1>4, <1>5, <1>6, ClosingKeeps

-----------------------------------------------------------------------------
(* The invariant holds from the start, through every step, and says what the *)
(* run checks.                                                               *)

(* The initial state is well typed. *)
LEMMA InitTypes == Init => TypeOK
  <1> SUFFICES ASSUME Init PROVE TypeOK
    OBVIOUS
  <1>1. FirstConfig \in Configs /\ 0 \in 0..MaxGen /\ 1 \in Gens /\ 1 \in 0..MaxGen
    BY McpBounds DEF Gens
  <1>2. None \in Candidates
    BY DEF Candidates
  <1>3. srv \in [Servers -> Rows]
    BY <1>1, <1>2 DEF Init, Rows, ServerStates
  <1>4. attempts \subseteq Attempts
    <2>1. ASSUME NEW s \in Servers
          PROVE  [s |-> s, g |-> 1, pc |-> "reserve", rg |-> 0, conf |-> FirstConfig,
                  cancel |-> FALSE] \in Attempts
      BY <1>1 DEF Attempts
    <2> QED BY <2>1 DEF Init
  <1>5. refresh \in [Servers -> Refreshes]
    BY NoRefreshFields DEF Init
  <1>6. slot \in [Slots -> SlotStates]
    BY DEF Init, SlotStates, NewSlot
  <1>7. call \in [Calls -> Uses] /\ preview \in [Previews -> Uses]
    BY DEF Init, Uses
  <1>8. closer \in [Slots -> {"none", "drain", "closing"}]
    BY DEF Init
  <1>9. allSlots \subseteq Slots /\ leases \subseteq Leases /\ rebuild \in BOOLEAN
    BY DEF Init
  <1>10. {runtimeGen, surface, borrow, events} \subseteq Nat
    BY DEF Init
  <1>11. phase \in {"open", "tasks", "drain", "retired", "done"}
    BY DEF Init
  <1> QED BY <1>3, <1>4, <1>5, <1>6, <1>7, <1>8, <1>9, <1>10, <1>11 DEF TypeOK

(* The initial state: one attempt for each server and no slot. *)
LEMMA InitHolds == Init => McpInv
  <1> SUFFICES ASSUME Init PROVE McpInv
    OBVIOUS
  <1>1. TypeOK
    BY InitTypes
  <1>2. /\ leases = {} /\ allSlots = {} /\ phase = "open" /\ borrow = 0
        /\ \A s \in Servers : /\ srv[s].cur = 0 /\ srv[s].pend = None /\ srv[s].inst = None
                              /\ srv[s].gen = 1 /\ srv[s].lost = {} /\ srv[s].st = "CONNECTING"
                              /\ refresh[s] = NoRefresh
        /\ \A s \in Servers, g \in Gens :
              closer[<<s, g>>] = "none" /\ slot[<<s, g>>].client = "none"
              /\ slot[<<s, g>>].fence = "OPEN"
        /\ \A c \in Calls : call[c] = Idle
        /\ \A p \in Previews : preview[p] = Idle
    BY DEF Init, Slots, NewSlot
  <1>3. ASSUME NEW a \in attempts
        PROVE  /\ a.s \in Servers /\ a.g = 1 /\ a.pc = "reserve"
               /\ a = [s |-> a.s, g |-> 1, pc |-> "reserve", rg |-> 0, conf |-> FirstConfig,
                       cancel |-> FALSE]
    <2>1. PICK s \in Servers :
              a = [s |-> s, g |-> 1, pc |-> "reserve", rg |-> 0, conf |-> FirstConfig,
                   cancel |-> FALSE]
      BY DEF Init
    <2>2. a.s = s
      BY <2>1
    <2> QED BY <2>1, <2>2
  <1>4. \A a, b \in attempts : a.s = b.s => a = b
    BY <1>3
  <1>5. ~Closed
    BY <1>2 DEF Closed
  <1>6. ASSUME NEW s \in Servers, NEW g \in Gens
        PROVE  Unseen(s, g)
    <2>1. None.g = 0 /\ NoRefresh.g = 0 /\ g # 0
      BY NoRefreshFields DEF None, Gens
    <2> QED BY <1>2, <2>1 DEF Unseen, Unleased
  <1>7. 1 \in Gens
    BY McpBounds DEF Gens
  <1>8. Tasks
    BY <1>2, <1>3, <1>4, <1>6, <1>7 DEF Tasks
  <1>9. Clients
    BY <1>2, <1>5 DEF Clients
  <1>10. Tokens /\ CurrentLeaseHasCurrentConfig
    BY <1>2 DEF Tokens, CurrentLeaseHasCurrentConfig
  <1>11. Owned
    BY <1>2, <1>5 DEF Owned
  <1>12. Used
    BY <1>2 DEF Used
  <1>13. Relists
    BY <1>2, NoRefreshFields DEF Relists, Captured
  <1>14. Ends
    BY <1>2, <1>5 DEF Ends
  <1>15. OpenClientHasOwner /\ ReadyHasCatalog
    BY <1>2 DEF OpenClientHasOwner, ReadyHasCatalog
  <1> QED BY <1>1, <1>8, <1>9, <1>10, <1>11, <1>12, <1>13, <1>14, <1>15 DEF McpInv

(* A stuttering step changes nothing the invariant reads. *)
LEMMA StutterKeeps == McpInv /\ UNCHANGED vars => McpInv'
  <1> SUFFICES ASSUME McpInv, UNCHANGED vars PROVE McpInv'
    OBVIOUS
  <1>1. UNCHANGED <<srv, attempts, refresh, slot, allSlots, leases, closer, rebuild, runtimeGen,
                    surface, borrow, call, preview, phase, events>>
    BY DEF vars
  <1> USE <1>1 DEF McpInv
  <1>2. TypeOK'
    BY DEF TypeOK
  <1>3. Tasks'
    BY DEF Tasks, Unseen, Unleased
  <1>4. Clients'
    BY DEF Clients, Unleased, Closed
  <1>5. Tokens'
    BY DEF Tokens, Closed
  <1>6. Owned'
    BY DEF Owned, Closed
  <1>7. Used'
    BY DEF Used, CallLease, PreviewLease
  <1>8. Relists'
    BY DEF Relists, Quiet
  <1>9. Ends'
    BY DEF Ends, Closed
  <1>10. OpenClientHasOwner'
    BY DEF OpenClientHasOwner, Running
  <1>11. CurrentLeaseHasCurrentConfig'
    BY DEF CurrentLeaseHasCurrentConfig, Current
  <1>12. ReadyHasCatalog'
    BY DEF ReadyHasCatalog, Closed
  <1> QED BY <1>2, <1>3, <1>4, <1>5, <1>6, <1>7, <1>8, <1>9, <1>10, <1>11, <1>12

(* A refresh, a retry or a reconnect of one server. *)
LEMMA ServerStepKeeps ==
    ASSUME McpInv, NEW s \in Servers,
           PeriodicRefresh(s) \/ Refresh(s) \/ RefreshFail(s) \/ RetryAfter(s) \/ Reconnect(s)
    PROVE  McpInv'
  BY PeriodicRefreshKeeps, RefreshStepsKeep, RefreshHostLaneKeeps, RefreshListedKeeps,
     RefreshFailKeeps, RetryAfterKeeps, ReconnectKeeps DEF Refresh

(* Every step keeps the invariant. *)
LEMMA NextKeeps == McpInv /\ [Next]_vars => McpInv'
  <1> SUFFICES ASSUME McpInv, [Next]_vars PROVE McpInv'
    OBVIOUS
  <1>1. CASE \E a \in attempts : Connect(a) \/ ConnectFail(a)
    BY <1>1, ConnectReserveKeeps, ConnectCreateKeeps, ConnectOpenedKeeps, ConnectPublishKeeps,
       ConnectClosedKeeps, ConnectFailKeeps DEF Connect
  <1>2. CASE \E s \in Servers, g \in Gens : ListChanged(s, g) \/ TransportFailure(s, g)
    BY <1>2, ListChangedKeeps, TransportFailureKeeps
  <1>3. CASE \E s \in Servers : PeriodicRefresh(s) \/ Refresh(s) \/ RefreshFail(s)
                                \/ RetryAfter(s) \/ Reconnect(s)
    BY <1>3, ServerStepKeeps
  <1>4. CASE \E s \in Servers, conf \in Configs \cup {NoConfig} : ReloadConfigs(s, conf)
    BY <1>4, ReloadConfigsKeeps
  <1>5. CASE \E sl \in Slots : RetireDrained(sl) \/ RetireClosed(sl)
    <2>1. PICK s \in Servers, g \in Gens : RetireDrained(<<s, g>>) \/ RetireClosed(<<s, g>>)
      BY <1>5 DEF Slots
    <2> QED BY <2>1, RetireDrainedKeeps, RetireClosedKeeps
  <1>6. CASE InstallPending \/ BorrowSurface \/ ReleaseBorrow
    BY <1>6, InstallPendingKeeps, BorrowSurfaceKeeps, ReleaseBorrowKeeps
  <1>7. CASE \E c \in Calls :
                \/ \E l \in leases : AdmitDispatch(c, l)
                \/ MarkAttemptAccepted(c) \/ ReleaseDispatch(c) \/ CancelBeforeDispatch(c)
                \/ CallStep(c)
    BY <1>7, AdmitDispatchKeeps, CallStepsKeep, InvokeReturnsKeeps DEF CallStep
  <1>8. CASE \E p \in Previews : PreviewStep(p) \/ \E s \in Servers : PreviewStart(p, s)
    BY <1>8, PreviewLaneKeeps, PreviewHostLaneKeeps, PreviewReturnsKeeps, PreviewStartKeeps
    DEF PreviewStep
  <1>9. CASE CloseBegins \/ CloseTransports \/ PortReleases \/ CloseDrained \/ CloseDone
    BY <1>9, CloseBeginsKeeps, CloseTransportsKeeps, PortReleasesKeeps, CloseDrainedKeeps,
       CloseDoneKeeps
  <1>10. CASE UNCHANGED vars
    BY <1>10, StutterKeeps
  <1> QED BY <1>1, <1>2, <1>3, <1>4, <1>5, <1>6, <1>7, <1>8, <1>9, <1>10 DEF Next

(* The inductive invariant: who owns a physical client, which leases live, what a *)
(* fence has excluded and how far a close is, for every overlap of attempts,      *)
(* refreshes, reloads, installations, calls and previews.                         *)
THEOREM McpInvariant == Spec => []McpInv
  BY InitHolds, NextKeeps, PTL DEF Spec

(* Relists is the exclusion the run checks. *)
LEMMA FencedListingIsAlone ==
    ASSUME McpInv PROVE RelistingExcludesCalls
  <1> SUFFICES ASSUME NEW s \in Servers, refresh[s].pc = "list", refresh[s].fenced
               PROVE  /\ PermitsOn(<<s, refresh[s].g>>) = {}
                      /\ OperationsOn(<<s, refresh[s].g>>) = {s}
    BY DEF RelistingExcludesCalls
  <1>1. Quiet(s, refresh[s].g)
    BY DEF McpInv, Relists, Captured
  <1>2. PermitsOn(<<s, refresh[s].g>>) = {}
    BY <1>1 DEF PermitsOn, Quiet
  <1>3. {c \in Calls : call[c].st = "LANE_ACQUIRED"
                         /\ <<call[c].s, call[c].g>> = <<s, refresh[s].g>>} = {}
    BY <1>1 DEF Quiet, Permit
  <1>4. {p \in Previews : preview[p].st = "op"
                            /\ <<preview[p].s, preview[p].g>> = <<s, refresh[s].g>>} = {}
    BY <1>1 DEF Quiet
  <1>5. {t \in Servers : refresh[t].pc = "list" /\ <<t, refresh[t].g>> = <<s, refresh[s].g>>} = {s}
    OBVIOUS
  <1> QED BY <1>2, <1>3, <1>4, <1>5 DEF OperationsOn

(* A call or preview has a lease, and a leased slot an open client. *)
LEMMA UsesKeepTheirClient ==
    ASSUME McpInv PROVE RetiredSlotDrainsFirst
  <1> SUFFICES ASSUME ~Closed
               PROVE  /\ \A c \in Calls : call[c].st \in Permit =>
                            slot[<<call[c].s, call[c].g>>].client = "open"
                      /\ \A p \in Previews : preview[p] # Idle =>
                            slot[<<preview[p].s, preview[p].g>>].client = "open"
    BY DEF RetiredSlotDrainsFirst
  <1>1. ASSUME NEW c \in Calls, call[c].st \in Permit
        PROVE  slot[<<call[c].s, call[c].g>>].client = "open"
    <2>1. call[c] # Idle
      BY <1>1, IdleFields DEF Permit
    <2>2. CallLease(c) \in leases /\ CallLease(c).s = call[c].s /\ CallLease(c).g = call[c].g
      BY <2>1 DEF McpInv, Used, CallLease
    <2> QED BY <2>2 DEF McpInv, Tokens
  <1>2. ASSUME NEW p \in Previews, preview[p] # Idle
        PROVE  slot[<<preview[p].s, preview[p].g>>].client = "open"
    <2>1. /\ PreviewLease(p) \in leases
          /\ PreviewLease(p).s = preview[p].s /\ PreviewLease(p).g = preview[p].g
      BY <1>2 DEF McpInv, Used, PreviewLease
    <2> QED BY <2>1 DEF McpInv, Tokens
  <1> QED BY <1>1, <1>2

(* A close that is done left nothing. *)
LEMMA CloseLeavesNothing ==
    ASSUME McpInv PROVE FinishedCloseOwnsNothing
  BY DEF McpInv, Ends, FinishedCloseOwnsNothing, Slots

(* An open slot of a candidate issues leases. *)
LEMMA CurrentCandidatesAccept ==
    ASSUME McpInv PROVE CurrentCandidateAccepts
  BY DEF McpInv, Owned, Current, CurrentCandidateAccepts

(* While a fenced slot is relisted nothing else is on it; no open client is without *)
(* somebody who will close it; no admitted call is on a slot whose transport is     *)
(* gone; and a finished close owns nothing.                                         *)
THEOREM PhysicalConnectionsAreKept == Spec => []ConnectionInv
  <1>1. McpInv => ConnectionInv
    BY FencedListingIsAlone, UsesKeepTheirClient, CloseLeavesNothing DEF ConnectionInv, McpInv
  <1> QED BY <1>1, McpInvariant, PTL

(* Only leases of the present configuration are current, a candidate that is        *)
(* current can be installed, and READY stands for a catalog.                        *)
THEOREM OnlyTheCurrentCatalogAdmits == Spec => []CatalogInv
  <1>1. McpInv => CatalogInv
    BY CurrentCandidatesAccept DEF CatalogInv, McpInv
  <1> QED BY <1>1, McpInvariant, PTL

=============================================================================
