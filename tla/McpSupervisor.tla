------------------------------ MODULE McpSupervisor ------------------------------
(* The MCP supervisor of one host session (conversation_kernel/mcp/supervisor.py) and the  *)
(* part of the tool port that holds its runtime generations (tool_runtime.py).             *)
(*                                                                                         *)
(* Every configured server has at most one connection attempt that counts, but several     *)
(* physical connections ("slots") can be alive at once: the one tools are dispatched on,   *)
(* a successor that waits to be installed at a safe point, and retired ones that drain     *)
(* their leases, dispatch permits and operations before their client is closed.  A slot is *)
(* named by its server and the attempt generation that opened it.                          *)
(*                                                                                         *)
(* An action is what runs between two awaits of the asyncio loop.  Attempts, refreshes,    *)
(* slot closers, tool calls and prompt previews are the tasks that interleave.             *)
EXTENDS Naturals, FiniteSets

CONSTANTS
  Servers,        \* server ids
  Calls,          \* concurrent MCP tool calls of the turn that holds the surface borrow
  Previews,       \* concurrent user prompt previews, as numbers
  Configs,        \* the configurations a reload may bring: records [sem, run, on]
  FirstConfig,    \* the configuration every server starts with
  LaneSize,       \* maximum_in_flight of a slot's lane
  HostLaneSize,   \* MAXIMUM_MCP_HOST_IN_FLIGHT
  Events,         \* the disturbances this instance explores
  MaxEvents,      \* bound: how many of them happen
  FollowUps,      \* disturbances that may happen once more, after the others
  MaxGen          \* bound: attempt generations of a server

ASSUME McpBounds ==
  /\ FirstConfig \in Configs /\ FirstConfig.on
  /\ LaneSize \in Nat \ {0} /\ HostLaneSize \in Nat \ {0}
  /\ MaxEvents \in Nat /\ MaxGen \in Nat \ {0}

VARIABLES
  srv,         \* the supervisor's dictionaries, one row for each server
  attempts,    \* _connection_tasks that are not done
  refresh,     \* _refresh_tasks, one record for each server
  slot,        \* McpConnectionSlot objects that were constructed
  allSlots,    \* _all_slots
  leases,      \* the unreleased McpSlotLease objects
  closer,      \* _slot_close_tasks: "none", "drain" or "closing" for each slot
  rebuild,     \* _surface_rebuild_required
  runtimeGen,  \* _runtime_generation
  surface,     \* the runtime generation _mcp_current of the tool port, 0 for none
  borrow,      \* the runtime generation the running turn borrowed, 0 for none
  call,        \* the tool calls and their dispatch permits
  preview,     \* the user prompt previews
  phase,       \* progress of the supervisor's close
  events       \* disturbances so far

(* History, read by no guard: srv[s].lost has the slots a reload dropped while another      *)
(* slot was current (nobody will close them), srv[s].kept those whose leases stay          *)
(* current although the configuration has changed, and refresh[s].fenced says whether the  *)
(* captured slot was fenced: one that takes the place of a failed successor is not.        *)
vars == <<srv, attempts, refresh, slot, allSlots, leases, closer, rebuild, runtimeGen,
          surface, borrow, call, preview, phase, events>>

Gens == 1..MaxGen
Slots == Servers \X Gens
NoConfig == [sem |-> 0, run |-> 0, on |-> FALSE]
None == [g |-> 0, gen |-> 0, conf |-> NoConfig]
Idle == [st |-> "idle", s |-> CHOOSE s \in Servers : TRUE, g |-> 0, gen |-> 0]
NoRefresh == [pc |-> "none", g |-> 0, at |-> 0, rg |-> 0, dirty |-> 0, conf |-> NoConfig,
              fenced |-> FALSE]

Closed == phase # "open"

------------------------------------------------------------------------------------------
(* McpConnectionSlot.                                                                      *)

NewSlot(conf) ==
  [fence |-> "OPEN", dirty |-> 0, accepting |-> TRUE, client |-> "open", conf |-> conf]

(* Mutant: only new leases are refused, those that exist keep admitting.                   *)
MarkDirtyForLeases(x) ==
  IF x.fence = "CLOSED" THEN x ELSE [x EXCEPT !.accepting = FALSE]

(* mark_dirty: nothing more is admitted until a relist of this very generation.            *)
MarkDirty(x) ==
  IF x.fence = "CLOSED" THEN x
  ELSE [x EXCEPT !.dirty = @ + 1, !.fence = "DIRTY_FENCED", !.accepting = FALSE]

(* complete_refresh *)
CompleteRefresh(x) == [x EXCEPT !.fence = "OPEN", !.accepting = TRUE]

BeginRetire(x) == [x EXCEPT !.accepting = FALSE]

BeginClose(x) == [x EXCEPT !.accepting = FALSE, !.fence = "CLOSED"]

(* lease_is_current of a lease, or of the lease a candidate owns.                          *)
Current(s, l) ==
  /\ slot[<<s, l.g>>].fence = "OPEN"
  /\ l.gen = slot[<<s, l.g>>].dirty

CandidateLease(s, cand) == [s |-> s, g |-> cand.g, gen |-> cand.gen, kind |-> "candidate", n |-> 0]
OwnedBy(s, cand) == IF cand = None THEN {} ELSE {CandidateLease(s, cand)}

Permit == {"ADMITTED", "ATTEMPT_ACCEPTED", "LANE", "LANE_ACQUIRED"}
PermitsOn(sl) == {c \in Calls : call[c].st \in Permit /\ <<call[c].s, call[c].g>> = sl}
OperationsOn(sl) ==
  {c \in Calls : call[c].st = "LANE_ACQUIRED" /\ <<call[c].s, call[c].g>> = sl}
    \cup {p \in Previews : preview[p].st = "op" /\ <<preview[p].s, preview[p].g>> = sl}
    \cup {s \in Servers : refresh[s].pc = "list" /\ <<s, refresh[s].g>> = sl}
LeasesOn(sl) == {l \in leases : <<l.s, l.g>> = sl}
Drained(sl) == PermitsOn(sl) = {} /\ OperationsOn(sl) = {}

(* Who holds the semaphores: a slot's lane, the host lane, the discovery reservation.      *)
LaneFree(sl) ==
  Cardinality({c \in Calls : call[c].st \in {"LANE", "LANE_ACQUIRED"}
                               /\ <<call[c].s, call[c].g>> = sl})
    + Cardinality({p \in Previews : preview[p].st \in {"lane", "op"}
                               /\ <<preview[p].s, preview[p].g>> = sl})
    + Cardinality({s \in Servers : refresh[s].pc \in {"reserve", "host", "list"}
                               /\ <<s, refresh[s].g>> = sl}) < LaneSize
HostLaneFree ==
  Cardinality({c \in Calls : call[c].st = "LANE_ACQUIRED"})
    + Cardinality({p \in Previews : preview[p].st = "op"})
    + Cardinality({s \in Servers : refresh[s].pc = "list"}) < HostLaneSize
ReservationFree ==
  /\ \A a \in attempts : a.pc \notin {"import", "open", "discover"}
  /\ \A s \in Servers : refresh[s].pc \notin {"host", "list"}

(* begin_close also releases the permits that were admitted and not yet accepted.          *)
DropAdmitted(slots) ==
  [c \in Calls |-> IF call[c].st = "ADMITTED" /\ <<call[c].s, call[c].g>> \in slots
                     THEN Idle ELSE call[c]]

StartClosers(slots) == [sl \in Slots |-> IF sl \in slots /\ closer[sl] = "none"
                                           THEN "drain" ELSE closer[sl]]

------------------------------------------------------------------------------------------
(* The supervisor's row of one server.                                                     *)

Running(s, g) == \E a \in attempts : a.s = s /\ a.g = g

(* _installed_semantic_surface_retained_locked *)
Retained(row) == row.inst # None /\ row.conf.on /\ row.inst.conf.sem = row.conf.sem

(* _set_catalog_state_locked: a visible change asks the next safe point for a new surface. *)
Rebuilt(old, new) == rebuild \/ (runtimeGen > 0 /\ old.st # new.st)

(* _start_connect: nothing while the current attempt runs, or without an enabled server.   *)
MayStart(s, row, running) == ~Closed /\ row.conf.on /\ ~running
StartRow(row) ==
  [row EXCEPT !.gen = @ + 1, !.task = row.gen + 1,
              !.st = IF Retained(row) THEN @ ELSE "CONNECTING"]
NewAttempt(s, row) ==
  [s |-> s, g |-> row.gen + 1, pc |-> "reserve", rg |-> row.rgen, conf |-> row.conf,
   cancel |-> FALSE]

(* What a failed attempt leaves in the row of its server, when it is still the current one.*)
FailedRow(row, a, terminal) ==
  IF Closed \/ row.gen # a.g THEN row
  ELSE [row EXCEPT !.st = IF Retained(row) THEN "READY"
                          ELSE IF terminal THEN "FAILED_TERMINAL" ELSE "FAILED_RETRYABLE",
                   !.retry = @ \/ ~terminal]

Init ==
  /\ srv = [s \in Servers |->
              [conf |-> FirstConfig, gen |-> 1, rgen |-> 0, task |-> 1, cur |-> 0,
               pend |-> None, inst |-> None, retry |-> FALSE, st |-> "CONNECTING",
               lost |-> {}, kept |-> {}]]
  /\ attempts = {[s |-> s, g |-> 1, pc |-> "reserve", rg |-> 0, conf |-> FirstConfig,
                  cancel |-> FALSE] : s \in Servers}
  /\ refresh = [s \in Servers |-> NoRefresh]
  /\ slot = [sl \in Slots |-> [NewSlot(NoConfig) EXCEPT !.client = "none"]]
  /\ allSlots = {}
  /\ leases = {}
  /\ closer = [sl \in Slots |-> "none"]
  /\ rebuild = FALSE
  /\ runtimeGen = 0
  /\ surface = 0
  /\ borrow = 0
  /\ call = [c \in Calls |-> Idle]
  /\ preview = [p \in Previews |-> Idle]
  /\ phase = "open"
  /\ events = 0

portVars == <<surface, borrow, call, preview>>

(* A disturbance of kind e, counted against the bound.                                     *)
Limit(e) == IF e \in FollowUps THEN MaxEvents + 1 ELSE MaxEvents
Event(e) == e \in Events /\ events < Limit(e) /\ events' = events + 1

------------------------------------------------------------------------------------------
(* _connect, one attempt.                                                                  *)

Move(a, pc) == attempts' = (attempts \ {a}) \cup {[a EXCEPT !.pc = pc]}

(* The shared memory reservation is taken before the SDK import.                           *)
ConnectReserve(a) ==
  /\ a.pc = "reserve" /\ ~a.cancel
  /\ ReservationFree
  /\ Move(a, "import")
  /\ UNCHANGED <<srv, refresh, slot, allSlots, leases, closer, rebuild, runtimeGen,
                 portVars, phase, events>>

Stale(a) ==
  \/ Closed
  \/ srv[a.s].gen # a.g
  \/ srv[a.s].rgen # a.rg

(* The attempt ends without a client: its row is settled at once.                          *)
EndWithoutSlot(a, terminal) ==
  LET row == FailedRow(srv[a.s], a, terminal) IN
  /\ attempts' = attempts \ {a}
  /\ srv' = [srv EXCEPT ![a.s] = row]
  /\ rebuild' = Rebuilt(srv[a.s], row)
  /\ UNCHANGED <<refresh, slot, allSlots, leases, closer, runtimeGen, portVars, phase>>

(* The attempt ends with a client: the slot is fenced and its physical close is awaited.   *)
EndWithSlot(a, terminal) ==
  /\ Move(a, IF terminal THEN "close_terminal" ELSE "close_retryable")
  /\ slot' = [slot EXCEPT ![<<a.s, a.g>>] = BeginClose(@)]
  /\ UNCHANGED <<srv, refresh, allSlots, leases, closer, rebuild, runtimeGen, portVars, phase>>

(* After the import the fence is checked and the slot registered without yielding.         *)
ConnectCreate(a) ==
  /\ a.pc = "import" /\ ~a.cancel
  /\ UNCHANGED events
  /\ IF Stale(a) THEN EndWithoutSlot(a, FALSE)
     ELSE /\ slot' = [slot EXCEPT ![<<a.s, a.g>>] = NewSlot(a.conf)]
          /\ allSlots' = allSlots \cup {<<a.s, a.g>>}
          /\ Move(a, "open")
          /\ UNCHANGED <<srv, refresh, leases, closer, rebuild, runtimeGen, portVars, phase>>

ConnectOpened(a) ==
  /\ a.pc = "open" /\ ~a.cancel
  /\ UNCHANGED events
  /\ IF Stale(a) THEN EndWithSlot(a, FALSE)
     ELSE LET row == [srv[a.s] EXCEPT !.st = IF Retained(srv[a.s]) THEN @ ELSE "DISCOVERING"] IN
          /\ srv' = [srv EXCEPT ![a.s] = row]
          /\ rebuild' = Rebuilt(srv[a.s], row)
          /\ Move(a, "discover")
          /\ UNCHANGED <<refresh, slot, allSlots, leases, closer, runtimeGen, portVars, phase>>

(* The catalog is complete: lease, candidate and publication happen without yielding.  A   *)
(* candidate that was still pending gives up its lease, and its slot if that is another.   *)
(* A timing assumption: an attempt (a process launch, a handshake and a discovery) takes   *)
(* longer than the 10 ms for which a refresh coalesces notifications before it captures.   *)
ConnectPublish(a) ==
  LET old == srv[a.s]
      cand == [g |-> a.g, gen |-> 0, conf |-> a.conf]
      row == [old EXCEPT !.cur = a.g, !.pend = cand, !.st = "READY"]
      loser == IF old.pend = None THEN {} ELSE {<<a.s, old.pend.g>>}
  IN
  /\ a.pc = "discover" /\ ~a.cancel /\ refresh[a.s].pc # "sleep"
  /\ UNCHANGED events
  /\ IF Stale(a) \/ ~slot[<<a.s, a.g>>].accepting \/ old.conf # a.conf THEN EndWithSlot(a, FALSE)
     ELSE /\ srv' = [srv EXCEPT ![a.s] = row]
          /\ rebuild' = Rebuilt(old, row)
          /\ leases' = (leases \ OwnedBy(a.s, old.pend)) \cup {CandidateLease(a.s, cand)}
          /\ slot' = [sl \in Slots |-> IF sl \in loser THEN BeginClose(slot[sl]) ELSE slot[sl]]
          /\ call' = DropAdmitted(loser)
          /\ closer' = StartClosers(loser)
          /\ attempts' = attempts \ {a}
          /\ UNCHANGED <<refresh, allSlots, runtimeGen, surface, borrow, preview, phase>>

(* An await of the attempt raises: its cancellation, or an error of the peer, a timeout, a *)
(* catalog that breaks a bound (terminal).                                                 *)
ConnectFail(a) ==
  \/ /\ a.pc \in {"reserve", "import"} /\ a.cancel
     /\ EndWithoutSlot(a, FALSE)
     /\ UNCHANGED events
  \/ /\ a.pc \in {"open", "discover"} /\ a.cancel
     /\ EndWithSlot(a, FALSE)
     /\ UNCHANGED events
  \/ /\ a.pc \in {"open", "discover"} /\ ~a.cancel
     /\ Event("connect_error")
     /\ EndWithSlot(a, FALSE)
  \/ /\ a.pc = "discover" /\ ~a.cancel
     /\ Event("catalog_error")
     /\ EndWithSlot(a, TRUE)

(* client.aclose() of the failed attempt returned; a cancellation cannot detach it.  When  *)
(* it raises, the slot stays registered and the row is left as it was.                     *)
ConnectClosed(a) ==
  LET row == FailedRow(srv[a.s], a, a.pc = "close_terminal") IN
  /\ a.pc \in {"close_terminal", "close_retryable"}
  /\ attempts' = attempts \ {a}
  /\ \/ /\ slot' = [slot EXCEPT ![<<a.s, a.g>>].client = "closed"]
        /\ allSlots' = allSlots \ {<<a.s, a.g>>}
        /\ srv' = [srv EXCEPT ![a.s] = row]
        /\ rebuild' = Rebuilt(srv[a.s], row)
        /\ UNCHANGED events
     \/ /\ Event("close_error")
        /\ slot' = [slot EXCEPT ![<<a.s, a.g>>].client = "stuck"]
        /\ UNCHANGED <<allSlots, srv, rebuild>>
  /\ UNCHANGED <<refresh, leases, closer, runtimeGen, portVars, phase>>

------------------------------------------------------------------------------------------
(* Notifications and failures of a slot.                                                   *)

(* report_transport_failure and _report_slot_failure: the exact slot is fenced; the public *)
(* state, the candidates and the retry change only when the slot is one of the row's own.  *)
(* The caller gives back the leases `given`.                                               *)
ReportFailure(s, g, retryable, given) ==
  LET old == srv[s]
      inst == IF old.inst # None /\ old.inst.g = g THEN None ELSE old.inst
      pend == IF old.pend # None /\ old.pend.g = g THEN None ELSE old.pend
      cur == IF old.cur # g THEN old.cur
             ELSE IF inst # None THEN inst.g ELSE pend.g
      healthy == pend # None \/ (inst # None /\ Current(s, inst))
      row == [old EXCEPT !.inst = inst, !.pend = pend, !.cur = cur,
                !.st = IF healthy THEN "READY"
                       ELSE IF retryable THEN "FAILED_RETRYABLE" ELSE "FAILED_TERMINAL",
                !.retry = @ \/ retryable]
      concerned == g \in {old.cur, old.inst.g, old.pend.g}
  IN
  /\ slot' = [slot EXCEPT ![<<s, g>>] = MarkDirty(@)]
  /\ IF Closed \/ ~concerned THEN leases' = leases \ given /\ UNCHANGED <<srv, closer, rebuild>>
     ELSE /\ srv' = [srv EXCEPT ![s] = row]
          /\ leases' = leases \ (given \cup (IF inst = None THEN OwnedBy(s, old.inst) ELSE {})
                                      \cup (IF pend = None THEN OwnedBy(s, old.pend) ELSE {}))
          /\ closer' = StartClosers({<<s, g>>})
          /\ rebuild' = (Rebuilt(old, row) \/ inst # old.inst)

(* The peer says that a list changed.  Only the slot of the current attempt is relisted.   *)
ListChanged(s, g) ==
  LET mine == ~Closed /\ srv[s].cur = g /\ srv[s].gen = g IN
  /\ slot[<<s, g>>].client = "open"
  /\ Event("list_changed")
  /\ slot' = [slot EXCEPT ![<<s, g>>] = MarkDirty(@)]
  /\ srv' = IF mine THEN [srv EXCEPT ![s].rgen = @ + 1] ELSE srv
  /\ refresh' = IF mine /\ refresh[s].pc = "none"
                  THEN [refresh EXCEPT ![s] = [NoRefresh EXCEPT !.pc = "sleep"]] ELSE refresh
  /\ UNCHANGED <<attempts, allSlots, leases, closer, rebuild, runtimeGen, portVars, phase>>

(* The transport breaks, or the peer breaks the protocol (not retryable).                  *)
TransportFailure(s, g) ==
  /\ slot[<<s, g>>].client = "open"
  /\ \/ Event("transport_failure") /\ ReportFailure(s, g, TRUE, {})
     \/ Event("protocol_failure") /\ ReportFailure(s, g, FALSE, {})
  /\ UNCHANGED <<attempts, refresh, allSlots, runtimeGen, portVars, phase>>

(* _periodic_refresh finds a slot it may relist.                                           *)
PeriodicRefresh(s) ==
  LET g == srv[s].cur IN
  /\ ~Closed /\ srv[s].conf.on /\ g # 0
  /\ slot[<<s, g>>].fence # "CLOSED"
  /\ Event("periodic")
  /\ slot' = [slot EXCEPT ![<<s, g>>] = MarkDirty(@)]
  /\ srv' = [srv EXCEPT ![s].rgen = @ + 1]
  /\ refresh' = IF refresh[s].pc = "none"
                  THEN [refresh EXCEPT ![s] = [NoRefresh EXCEPT !.pc = "sleep"]] ELSE refresh
  /\ UNCHANGED <<attempts, allSlots, leases, closer, rebuild, runtimeGen, portVars, phase>>

------------------------------------------------------------------------------------------
(* _refresh_after_dirty and catalog_operation.                                             *)

SetRefresh(s, pc) == refresh' = [refresh EXCEPT ![s].pc = pc]
StopRefresh(s) == refresh' = [refresh EXCEPT ![s] = NoRefresh]
refreshOnly == <<srv, attempts, slot, allSlots, leases, closer, rebuild, runtimeGen, portVars,
                 phase, events>>

(* The slot, the configuration and the three generations this listing is for.              *)
RefreshCapture(s) ==
  LET row == srv[s] IN
  /\ refresh[s].pc = "sleep"
  /\ IF Closed \/ row.cur = 0 \/ ~row.conf.on \/ slot[<<s, row.cur>>].fence = "CLOSED"
       THEN StopRefresh(s)
       ELSE refresh' = [refresh EXCEPT ![s] =
              [pc |-> "drain", g |-> row.cur, at |-> row.gen, rg |-> row.rgen,
               dirty |-> slot[<<s, row.cur>>].dirty, conf |-> row.conf,
               fenced |-> slot[<<s, row.cur>>].fence # "OPEN"]]
  /\ UNCHANGED refreshOnly

(* Mutant: the listing does not wait for the calls admitted before the fence.              *)
RefreshWithoutDrain(s) ==
  /\ refresh[s].pc = "drain"
  /\ SetRefresh(s, "lane")
  /\ UNCHANGED refreshOnly

(* Every call admitted before the fence leaves before the list is read; then the lane, the *)
(* discovery reservation and the host lane are taken, in this order.                       *)
RefreshDrain(s) ==
  /\ refresh[s].pc = "drain"
  /\ Drained(<<s, refresh[s].g>>)
  /\ SetRefresh(s, "lane")
  /\ UNCHANGED refreshOnly

RefreshLane(s) ==
  /\ refresh[s].pc = "lane"
  /\ LaneFree(<<s, refresh[s].g>>)
  /\ SetRefresh(s, "reserve")
  /\ UNCHANGED refreshOnly

RefreshReserve(s) ==
  /\ refresh[s].pc = "reserve"
  /\ ReservationFree
  /\ SetRefresh(s, "host")
  /\ UNCHANGED refreshOnly

RefreshHostLane(s) ==
  /\ refresh[s].pc = "host"
  /\ HostLaneFree
  /\ UNCHANGED <<attempts, allSlots, runtimeGen, portVars, phase, events>>
  /\ IF slot[<<s, refresh[s].g>>].fence = "CLOSED"
       THEN /\ StopRefresh(s)
            /\ ReportFailure(s, refresh[s].g, TRUE, {})
       ELSE /\ SetRefresh(s, "list")
            /\ UNCHANGED <<srv, slot, leases, closer, rebuild>>

(* The listing came back.  Somebody else owns the server now: drop it.  The slot became    *)
(* dirty again meanwhile: list again.  Otherwise the slot reopens for this generation; a   *)
(* slot that was not fenced at all refuses, and the refusal is reported as its failure.    *)
RefreshListed(s) ==
  LET r == refresh[s]
      old == srv[s]
      cand == [g |-> r.g, gen |-> r.dirty, conf |-> r.conf]
      row == [old EXCEPT !.pend = cand, !.st = "READY",
                !.kept = IF slot[<<s, r.g>>].conf = r.conf THEN @ ELSE @ \cup {r.g}]
      mine == ~Closed /\ old.cur = r.g /\ old.conf = r.conf /\ old.gen = r.at
                /\ slot[<<s, r.g>>].fence # "CLOSED"
      fresh == old.rgen = r.rg /\ slot[<<s, r.g>>].dirty = r.dirty
  IN
  /\ r.pc = "list"
  /\ UNCHANGED <<attempts, allSlots, runtimeGen, portVars, phase, events>>
  /\ IF mine /\ ~fresh THEN SetRefresh(s, "sleep") ELSE StopRefresh(s)
  /\ \/ /\ ~mine \/ ~fresh
        /\ UNCHANGED <<srv, slot, leases, closer, rebuild>>
     \/ /\ mine /\ fresh
        /\ IF slot[<<s, r.g>>].fence # "DIRTY_FENCED" THEN ReportFailure(s, r.g, TRUE, {})
           ELSE /\ slot' = [slot EXCEPT ![<<s, r.g>>] = CompleteRefresh(@)]
                /\ srv' = [srv EXCEPT ![s] = row]
                /\ rebuild' = Rebuilt(old, row)
                /\ leases' = (leases \ OwnedBy(s, old.pend)) \cup {CandidateLease(s, cand)}
                /\ UNCHANGED closer

RefreshFail(s) ==
  /\ refresh[s].pc = "list"
  /\ \/ Event("list_error") /\ ReportFailure(s, refresh[s].g, TRUE, {})
     \/ Event("catalog_error") /\ ReportFailure(s, refresh[s].g, FALSE, {})
  /\ StopRefresh(s)
  /\ UNCHANGED <<attempts, allSlots, runtimeGen, portVars, phase>>

------------------------------------------------------------------------------------------
(* Retry, reconnect, reload.                                                               *)

RetryAfter(s) ==
  LET row == [srv[s] EXCEPT !.retry = FALSE] IN
  /\ srv[s].retry /\ srv[s].gen < MaxGen
  /\ IF MayStart(s, row, Running(s, row.task))
       THEN /\ srv' = [srv EXCEPT ![s] = StartRow(row)]
            /\ attempts' = attempts \cup {NewAttempt(s, row)}
            /\ rebuild' = Rebuilt(row, StartRow(row))
       ELSE /\ srv' = [srv EXCEPT ![s] = row]
            /\ UNCHANGED <<attempts, rebuild>>
  /\ UNCHANGED <<refresh, slot, allSlots, leases, closer, runtimeGen, portVars, phase, events>>

(* reconnect: the slot is fenced at once, an attempt in flight is replaced.                *)
Reconnect(s) ==
  LET old == srv[s]
      busy == {a \in attempts : a.s = s /\ a.g = old.task}
      row == [old EXCEPT !.retry = FALSE,
                !.gen = IF busy = {} THEN @ ELSE @ + 1,
                !.task = IF busy = {} THEN @ ELSE 0]
      left == (attempts \ busy) \cup {[a EXCEPT !.cancel = TRUE] : a \in busy}
  IN
  /\ ~Closed /\ old.conf # NoConfig
  /\ old.gen + 2 <= MaxGen
  /\ Event("reconnect")
  /\ slot' = IF old.cur = 0 THEN slot ELSE [slot EXCEPT ![<<s, old.cur>>] = MarkDirty(@)]
  /\ IF row.conf.on
       THEN /\ srv' = [srv EXCEPT ![s] = StartRow(row)]
            /\ attempts' = left \cup {NewAttempt(s, row)}
            /\ rebuild' = Rebuilt(row, StartRow(row))
       ELSE /\ srv' = [srv EXCEPT ![s] = row]
            /\ attempts' = left
            /\ UNCHANGED rebuild
  /\ UNCHANGED <<refresh, allSlots, leases, closer, runtimeGen, portVars, phase>>

(* reload_configs with another configuration (or none) of one server.  A change of the     *)
(* runtime half alone keeps the installed catalog visible until its replacement is ready.  *)
ReloadConfigs(s, conf) ==
  LET old == srv[s]
      retain == old.conf.on /\ conf.on /\ old.conf.sem = conf.sem
      row == [old EXCEPT !.conf = conf, !.gen = @ + 1, !.rgen = @ + 1, !.task = 0,
                !.cur = 0, !.pend = None, !.inst = IF retain THEN @ ELSE None,
                !.retry = FALSE,
                !.lost = IF retain THEN @ ELSE @ \cup ({old.inst.g} \ {0, old.cur}),
                !.kept = @ \cup {g \in Gens \ {old.cur} :
                                    \E l \in LeasesOn(<<s, g>>) : Current(s, l)},
                !.st = IF retain THEN @ ELSE IF conf.on THEN "CONNECTING" ELSE "DISABLED"]
      stopped == {[a EXCEPT !.cancel = TRUE] : a \in {b \in attempts : b.s = s /\ b.g = old.task}}
      left == {a \in attempts : ~(a.s = s /\ a.g = old.task)} \cup stopped
      retired == IF old.cur = 0 THEN {} ELSE {<<s, old.cur>>}
  IN
  /\ ~Closed /\ conf # old.conf
  /\ old.gen + 2 <= MaxGen
  /\ Event("reload")
  /\ slot' = [sl \in Slots |-> IF sl \in retired THEN MarkDirty(slot[sl]) ELSE slot[sl]]
  /\ closer' = StartClosers(retired)
  /\ leases' = leases \ (OwnedBy(s, old.pend) \cup IF retain THEN {} ELSE OwnedBy(s, old.inst))
  /\ StopRefresh(s)
  /\ rebuild' = (~retain \/ Rebuilt(row, StartRow(row)))
  /\ IF conf.on
       THEN /\ srv' = [srv EXCEPT ![s] = StartRow(row)]
            /\ attempts' = left \cup {NewAttempt(s, row)}
       ELSE /\ srv' = [srv EXCEPT ![s] = row]
            /\ attempts' = left
  /\ UNCHANGED <<allSlots, runtimeGen, portVars, phase>>

(* _close_retired_slot: drain, fence, close the client.                                    *)
RetireDrained(sl) ==
  /\ closer[sl] = "drain"
  /\ LeasesOn(sl) = {} /\ Drained(sl)
  /\ closer' = [closer EXCEPT ![sl] = "closing"]
  /\ slot' = [slot EXCEPT ![sl] = BeginClose(@)]
  /\ UNCHANGED <<srv, attempts, refresh, allSlots, leases, rebuild, runtimeGen, portVars, phase,
                 events>>

RetireClosed(sl) ==
  LET row == [srv[sl[1]] EXCEPT !.cur = IF @ = sl[2] THEN 0 ELSE @] IN
  /\ closer[sl] = "closing"
  /\ closer' = [closer EXCEPT ![sl] = "none"]
  /\ \/ /\ slot[sl].client # "stuck"
        /\ slot' = [slot EXCEPT ![sl].client = "closed"]
        /\ allSlots' = allSlots \ {sl}
        /\ srv' = [srv EXCEPT ![sl[1]] = row]
        /\ UNCHANGED events
     \/ /\ slot[sl].client = "open" /\ Event("close_error")
        /\ slot' = [slot EXCEPT ![sl].client = "stuck"]
        /\ UNCHANGED <<allSlots, srv>>
     \/ /\ slot[sl].client = "stuck"
        /\ UNCHANGED <<slot, allSlots, srv, events>>
  /\ UNCHANGED <<attempts, refresh, leases, rebuild, runtimeGen, portVars, phase>>

------------------------------------------------------------------------------------------
(* The tool port: safe points, borrows and dispatch.                                       *)

Runtime(n) == {l \in leases : l.kind = "runtime" /\ l.n = n}

(* install_pending_at_safe_point and prepare_tool_surface_safe_point.  All candidates of   *)
(* the next surface must be current, or nothing is installed.                              *)
Accepted == {s \in Servers : /\ srv[s].pend # None
                             /\ srv[s].pend.conf = srv[s].conf
                             /\ Current(s, srv[s].pend)}
NextInstalled(s) == IF s \in Accepted THEN srv[s].pend ELSE srv[s].inst
Replaced == {s \in Accepted : srv[s].inst # None}
Moved == {<<s, srv[s].inst.g>> : s \in {t \in Replaced : srv[t].inst.g # srv[t].pend.g}}

InstallPending ==
  LET n == runtimeGen + 1
      owners == {s \in Servers : NextInstalled(s) # None}
      issued == {[s |-> s, g |-> NextInstalled(s).g, gen |-> NextInstalled(s).gen,
                  kind |-> "runtime", n |-> n] : s \in owners}
      given == UNION {OwnedBy(s, srv[s].inst) : s \in Replaced}
      freed == IF borrow = surface THEN {} ELSE Runtime(surface)
  IN
  /\ ~Closed
  /\ Accepted # {} \/ rebuild \/ runtimeGen = 0
  /\ \A s \in owners : Current(s, NextInstalled(s)) /\ slot[<<s, NextInstalled(s).g>>].accepting
  /\ srv' = [s \in Servers |-> [srv[s] EXCEPT !.inst = NextInstalled(s),
                                              !.pend = IF s \in Accepted THEN None ELSE @]]
  /\ rebuild' = FALSE
  /\ runtimeGen' = n
  /\ surface' = n
  /\ leases' = (leases \ (given \cup freed)) \cup issued
  /\ slot' = [sl \in Slots |-> IF sl \in Moved THEN BeginRetire(slot[sl]) ELSE slot[sl]]
  /\ closer' = StartClosers(Moved)
  /\ UNCHANGED <<attempts, refresh, allSlots, borrow, call, preview, phase, events>>

BorrowSurface ==
  /\ ~Closed /\ borrow = 0 /\ surface # 0
  /\ borrow' = surface
  /\ UNCHANGED <<srv, attempts, refresh, slot, allSlots, leases, closer, rebuild, runtimeGen,
                 surface, call, preview, phase, events>>

(* _release_surface_borrow, after the calls of the turn settled.                           *)
ReleaseBorrow ==
  /\ borrow # 0
  /\ \A c \in Calls : call[c] = Idle
  /\ borrow' = 0
  /\ leases' = IF borrow = surface THEN leases ELSE leases \ Runtime(borrow)
  /\ UNCHANGED <<srv, attempts, refresh, slot, allSlots, closer, rebuild, runtimeGen, surface,
                 call, preview, phase, events>>

callOnly == <<srv, attempts, refresh, slot, allSlots, leases, closer, rebuild, runtimeGen,
              surface, borrow, preview, phase, events>>
SetCall(c, st) == call' = [call EXCEPT ![c].st = st]

(* admit_dispatch with the lease of the borrowed runtime generation.                       *)
AdmitDispatch(c, l) ==
  /\ call[c] = Idle /\ borrow # 0 /\ l \in Runtime(borrow)
  /\ Current(l.s, l)
  /\ call' = [call EXCEPT ![c] = [st |-> "ADMITTED", s |-> l.s, g |-> l.g, gen |-> l.gen]]
  /\ UNCHANGED callOnly

(* The attempt is accepted, or the confirmation is refused and the permit released.        *)
MarkAttemptAccepted(c) ==
  /\ call[c].st = "ADMITTED"
  /\ SetCall(c, "ATTEMPT_ACCEPTED")
  /\ UNCHANGED callOnly

ReleaseDispatch(c) ==
  /\ call[c].st = "ADMITTED"
  /\ call' = [call EXCEPT ![c] = Idle]
  /\ UNCHANGED callOnly

(* acquire_operation: the server's lane first, then the host lane.                         *)
AcquireLane(c) ==
  /\ call[c].st = "ATTEMPT_ACCEPTED"
  /\ LaneFree(<<call[c].s, call[c].g>>)
  /\ SetCall(c, "LANE")
  /\ UNCHANGED callOnly

AcquireHostLane(c) ==
  /\ call[c].st = "LANE"
  /\ HostLaneFree
  /\ SetCall(c, "LANE_ACQUIRED")
  /\ UNCHANGED callOnly

(* A stopped turn or cell withdraws a call that waits for a lane; what it holds goes back. *)
CancelBeforeDispatch(c) ==
  /\ call[c].st \in {"ATTEMPT_ACCEPTED", "LANE"}
  /\ call' = [call EXCEPT ![c] = Idle]
  /\ UNCHANGED callOnly

(* invoke returns: with an answer, or with a failure that is reported for the exact slot.  *)
InvokeReturns(c) ==
  /\ call[c].st = "LANE_ACQUIRED"
  /\ call' = [call EXCEPT ![c] = Idle]
  /\ UNCHANGED <<attempts, refresh, allSlots, runtimeGen, surface, borrow, preview, phase>>
  /\ \/ UNCHANGED <<srv, slot, leases, closer, rebuild, events>>
     \/ Event("call_error") /\ ReportFailure(call[c].s, call[c].g, TRUE, {})
     \/ Event("call_conformance") /\ ReportFailure(call[c].s, call[c].g, FALSE, {})

(* preview_user_prompt, outside of any turn: the newest candidate of the server.           *)
Newest(s) == IF srv[s].pend # None THEN srv[s].pend ELSE srv[s].inst
Previewable(s) ==
  /\ ~Closed /\ srv[s].conf.on
  /\ Newest(s) # None /\ Newest(s).conf = srv[s].conf /\ Current(s, Newest(s))
PreviewLease(p) == [s |-> preview[p].s, g |-> preview[p].g, gen |-> preview[p].gen,
                    kind |-> "preview", n |-> p]
previewOnly == <<srv, attempts, refresh, allSlots, rebuild, runtimeGen, surface, borrow,
                 call, phase, slot, closer>>

PreviewStart(p, s) ==
  LET held == [st |-> "wait", s |-> s, g |-> Newest(s).g, gen |-> Newest(s).gen] IN
  /\ preview[p] = Idle
  /\ Previewable(s) /\ slot[<<s, Newest(s).g>>].accepting
  /\ preview' = [preview EXCEPT ![p] = held]
  /\ leases' = leases \cup {[s |-> s, g |-> held.g, gen |-> held.gen, kind |-> "preview", n |-> p]}
  /\ UNCHANGED <<previewOnly, events>>

PreviewLane(p) ==
  /\ preview[p].st = "wait"
  /\ LaneFree(<<preview[p].s, preview[p].g>>)
  /\ preview' = [preview EXCEPT ![p].st = "lane"]
  /\ UNCHANGED <<previewOnly, leases, events>>

EndPreview(p) ==
  /\ preview' = [preview EXCEPT ![p] = Idle]
  /\ leases' = leases \ {PreviewLease(p)}

(* Both lanes are held: the candidate must still be the one the user chose from.           *)
StillChosen(p) ==
  LET x == preview[p] IN
  /\ Previewable(x.s)
  /\ Newest(x.s).g = x.g /\ Newest(x.s).gen = x.gen

PreviewHostLane(p) ==
  /\ preview[p].st = "lane"
  /\ HostLaneFree
  /\ \/ /\ StillChosen(p)
        /\ preview' = [preview EXCEPT ![p].st = "op"]
        /\ UNCHANGED leases
     \/ ~StillChosen(p) /\ EndPreview(p)
  /\ UNCHANGED <<previewOnly, events>>

(* The peer answers, or its failure is reported for the exact slot.                        *)
PreviewReturns(p) ==
  /\ preview[p].st = "op"
  /\ preview' = [preview EXCEPT ![p] = Idle]
  /\ UNCHANGED <<attempts, refresh, allSlots, runtimeGen, surface, borrow, call, phase>>
  /\ \/ /\ leases' = leases \ {PreviewLease(p)}
        /\ UNCHANGED <<srv, slot, closer, rebuild, events>>
     \/ Event("call_error") /\ ReportFailure(preview[p].s, preview[p].g, TRUE, {PreviewLease(p)})
     \/ Event("call_conformance") /\ ReportFailure(preview[p].s, preview[p].g, FALSE, {PreviewLease(p)})

------------------------------------------------------------------------------------------
(* Close of the host session.                                                              *)

(* Mutant: the candidates keep their leases.                                               *)
CloseBeginsKeepingLeases ==
  /\ phase = "open"
  /\ "close" \in Events
  /\ phase' = "tasks"
  /\ slot' = [sl \in Slots |-> IF sl \in allSlots THEN BeginClose(slot[sl]) ELSE slot[sl]]
  /\ call' = DropAdmitted(allSlots)
  /\ srv' = [s \in Servers |-> [srv[s] EXCEPT !.pend = None, !.inst = None, !.retry = FALSE]]
  /\ attempts' = {[a EXCEPT !.cancel = TRUE] : a \in attempts}
  /\ refresh' = [s \in Servers |-> NoRefresh]
  /\ UNCHANGED <<allSlots, closer, rebuild, runtimeGen, surface, borrow, preview, leases, events>>

(* stop_admission, and aclose: _close captures what it owns and cancels every task.        *)
CloseBegins ==
  /\ phase = "open"
  /\ "close" \in Events
  /\ phase' = "tasks"
  /\ slot' = [sl \in Slots |-> IF sl \in allSlots THEN BeginClose(slot[sl]) ELSE slot[sl]]
  /\ call' = DropAdmitted(allSlots)
  /\ leases' = {l \in leases : l.kind # "candidate"}
  /\ srv' = [s \in Servers |-> [srv[s] EXCEPT !.pend = None, !.inst = None, !.retry = FALSE]]
  /\ attempts' = {[a EXCEPT !.cancel = TRUE] : a \in attempts}
  /\ refresh' = [s \in Servers |-> NoRefresh]
  /\ UNCHANGED <<allSlots, closer, rebuild, runtimeGen, surface, borrow, preview, events>>

(* The cancelled tasks joined; the transports are closed under whatever still runs.  The   *)
(* close of any of them may raise and leave its transport open.                            *)
CloseTransports ==
  /\ phase = "tasks" /\ attempts = {}
  /\ phase' = "drain"
  /\ \E raised \in SUBSET {sl \in allSlots : slot[sl].client = "open"} :
       /\ slot' = [sl \in Slots |->
                      IF sl \in allSlots /\ slot[sl].client = "open"
                        THEN [slot[sl] EXCEPT !.client = IF sl \in raised THEN "stuck" ELSE "closed"]
                        ELSE slot[sl]]
       /\ IF raised = {} THEN UNCHANGED events ELSE Event("close_error")
  /\ UNCHANGED <<srv, attempts, refresh, allSlots, leases, closer, rebuild, runtimeGen,
                 portVars>>

(* aclose of the tool port: the borrows are released, then every runtime generation.       *)
PortReleases ==
  /\ Closed /\ borrow = 0 /\ surface # 0
  /\ \A c \in Calls : call[c] = Idle
  /\ surface' = 0
  /\ leases' = {l \in leases : l.kind # "runtime"}
  /\ UNCHANGED <<srv, attempts, refresh, slot, allSlots, closer, rebuild, runtimeGen, borrow,
                 call, preview, phase, events>>

CloseDrained ==
  /\ phase = "drain"
  /\ \A sl \in allSlots : LeasesOn(sl) = {} /\ Drained(sl)
  /\ phase' = "retired"
  /\ allSlots' = {sl \in allSlots : slot[sl].client = "stuck"}
  /\ UNCHANGED <<srv, attempts, refresh, slot, leases, closer, rebuild, runtimeGen, portVars,
                 events>>

(* The closers of retired slots are joined, never cancelled.                               *)
CloseDone ==
  /\ phase = "retired"
  /\ \A sl \in Slots : closer[sl] = "none"
  /\ phase' = "done"
  /\ UNCHANGED <<srv, attempts, refresh, slot, allSlots, leases, closer, rebuild, runtimeGen,
                 portVars, events>>

------------------------------------------------------------------------------------------
Connect(a) ==
  \/ ConnectReserve(a) \/ ConnectCreate(a) \/ ConnectOpened(a) \/ ConnectPublish(a)
  \/ ConnectClosed(a)

Refresh(s) ==
  \/ RefreshCapture(s) \/ RefreshDrain(s) \/ RefreshLane(s) \/ RefreshReserve(s)
  \/ RefreshHostLane(s) \/ RefreshListed(s)

CallStep(c) == AcquireLane(c) \/ AcquireHostLane(c) \/ InvokeReturns(c)

PreviewStep(p) == PreviewLane(p) \/ PreviewHostLane(p) \/ PreviewReturns(p)

Next ==
  \/ \E a \in attempts : Connect(a) \/ ConnectFail(a)
  \/ \E s \in Servers, g \in Gens : ListChanged(s, g) \/ TransportFailure(s, g)
  \/ \E s \in Servers :
       PeriodicRefresh(s) \/ Refresh(s) \/ RefreshFail(s) \/ RetryAfter(s) \/ Reconnect(s)
  \/ \E s \in Servers, conf \in Configs \cup {NoConfig} : ReloadConfigs(s, conf)
  \/ \E sl \in Slots : RetireDrained(sl) \/ RetireClosed(sl)
  \/ InstallPending \/ BorrowSurface \/ ReleaseBorrow
  \/ \E c \in Calls :
       \/ \E l \in leases : AdmitDispatch(c, l)
       \/ MarkAttemptAccepted(c) \/ ReleaseDispatch(c) \/ CancelBeforeDispatch(c) \/ CallStep(c)
  \/ \E p \in Previews : PreviewStep(p) \/ \E s \in Servers : PreviewStart(p, s)
  \/ CloseBegins \/ CloseTransports \/ PortReleases \/ CloseDrained \/ CloseDone

Spec == Init /\ [][Next]_vars

(* Every task runs on; the waiters of a semaphore are served in order, so one that is      *)
(* overtaken again and again is served too.  A turn ends and the runner reaches another    *)
(* safe point.                                                                             *)
Progress ==
  /\ \A s \in Servers, g \in Gens :
       WF_vars(\E a \in {b \in attempts : b.s = s /\ b.g = g} :
                 Connect(a) \/ (a.cancel /\ ConnectFail(a)))
  /\ \A s \in Servers : SF_vars(Refresh(s)) /\ WF_vars(RetryAfter(s))
  /\ \A sl \in Slots : WF_vars(RetireDrained(sl) \/ RetireClosed(sl))
  /\ \A c \in Calls : SF_vars(CallStep(c)) /\ WF_vars(MarkAttemptAccepted(c))
  /\ \A p \in Previews : SF_vars(PreviewStep(p))
  /\ SF_vars(ReleaseBorrow) /\ WF_vars(InstallPending)
  /\ WF_vars(CloseTransports \/ PortReleases \/ CloseDrained \/ CloseDone)

LiveSpec == Spec /\ Progress

------------------------------------------------------------------------------------------
(* Properties.                                                                             *)

ServerStates == {"CONNECTING", "DISCOVERING", "READY", "FAILED_RETRYABLE", "FAILED_TERMINAL",
                 "DISABLED"}
Candidates == {None} \cup [g : Gens, gen : Nat, conf : Configs]

Rows == [conf : Configs \cup {NoConfig}, gen : Gens, rgen : Nat, task : 0..MaxGen,
         cur : 0..MaxGen, pend : Candidates, inst : Candidates, retry : BOOLEAN,
         st : ServerStates, lost : SUBSET Gens, kept : SUBSET Gens]
Attempts == [s : Servers, g : Gens, rg : Nat, conf : Configs, cancel : BOOLEAN,
             pc : {"reserve", "import", "open", "discover", "close_terminal",
                   "close_retryable"}]
Refreshes == [pc : {"none", "sleep", "drain", "lane", "reserve", "host", "list"},
              g : 0..MaxGen, at : 0..MaxGen, rg : Nat, dirty : Nat,
              conf : Configs \cup {NoConfig}, fenced : BOOLEAN]
SlotStates == [fence : {"OPEN", "DIRTY_FENCED", "CLOSED"}, dirty : Nat, accepting : BOOLEAN,
               client : {"none", "open", "closed", "stuck"}, conf : Configs \cup {NoConfig}]
Leases == [s : Servers, g : Gens, gen : Nat, kind : {"candidate", "runtime", "preview"},
           n : Nat \cup Previews]
Uses == {Idle} \cup [st : {"wait", "lane", "op"} \cup Permit, s : Servers, g : Gens, gen : Nat]

(* The shape of the supervisor's dictionaries, the slots and the permits.                  *)
TypeOK ==
  /\ srv \in [Servers -> Rows]
  /\ attempts \subseteq Attempts
  /\ refresh \in [Servers -> Refreshes]
  /\ slot \in [Slots -> SlotStates]
  /\ allSlots \subseteq Slots
  /\ leases \subseteq Leases
  /\ closer \in [Slots -> {"none", "drain", "closing"}]
  /\ rebuild \in BOOLEAN
  /\ {runtimeGen, surface, borrow, events} \subseteq Nat
  /\ call \in [Calls -> Uses]
  /\ preview \in [Previews -> Uses]
  /\ phase \in {"open", "tasks", "drain", "retired", "done"}

(* catalog_operation drains every call that was admitted before the fence, and the fence   *)
(* admits none after it: while a fenced slot is relisted (the SDK rewrites the schema      *)
(* cache its calls are validated with) no call and no other operation is anywhere on it.   *)
RelistingExcludesCalls ==
  \A s \in Servers :
    refresh[s].pc = "list" /\ refresh[s].fenced =>
      /\ PermitsOn(<<s, refresh[s].g>>) = {}
      /\ OperationsOn(<<s, refresh[s].g>>) = {s}

(* No connection is lost but by a reload that drops an installed slot beside the current   *)
(* one: an open client always has a task or a row of the supervisor that will close it,    *)
(* however attempts, failures, reloads and installations overlap.                          *)
OpenClientHasOwner ==
  \A s \in Servers, g \in Gens :
    slot[<<s, g>>].client = "open" /\ g \notin srv[s].lost =>
      \/ Running(s, g)
      \/ g \in {srv[s].cur, srv[s].inst.g}
      \/ closer[<<s, g>>] # "none"
      \/ phase \notin {"open", "done"}

(* A retired slot drains before its client is closed: while the supervisor is open, no     *)
(* admitted call, accepted or running, is on a slot whose transport is gone.               *)
RetiredSlotDrainsFirst ==
  ~Closed =>
    /\ \A c \in Calls : call[c].st \in Permit => slot[<<call[c].s, call[c].g>>].client = "open"
    /\ \A p \in Previews : preview[p] # Idle => slot[<<preview[p].s, preview[p].g>>].client = "open"

(* A close that has finished leaves no client, no attempt and no lease behind; a client    *)
(* whose close raised stays registered, so that the close is not reported complete.        *)
FinishedCloseOwnsNothing ==
  phase = "done" =>
    /\ attempts = {} /\ leases = {}
    /\ \A sl \in Slots : slot[sl].client # "open"
    /\ allSlots = {sl \in Slots : slot[sl].client = "stuck"}

(* The physical connections: well formed, relisted without calls, never without an owner,  *)
(* drained before they are closed, and gone after the close of the supervisor.             *)
ConnectionInv ==
  /\ TypeOK
  /\ RelistingExcludesCalls
  /\ OpenClientHasOwner
  /\ RetiredSlotDrainsFirst
  /\ FinishedCloseOwnsNothing

(* After a reload no lease of an earlier configuration admits a dispatch: a lease that is  *)
(* current belongs to a slot opened with the configuration the server has now, unless a    *)
(* reload left the slot unfenced or a relist reopened it for the new configuration.        *)
CurrentLeaseHasCurrentConfig ==
  \A l \in leases :
    Current(l.s, l) /\ l.g \notin srv[l.s].kept => slot[<<l.s, l.g>>].conf = srv[l.s].conf

(* An installation that begins cannot fail halfway: whatever is pending or installed and   *)
(* current is on a slot that still issues leases.                                          *)
CurrentCandidateAccepts ==
  \A s \in Servers : \A cand \in {srv[s].pend, srv[s].inst} :
    cand # None /\ Current(s, cand) => slot[<<s, cand.g>>].accepting

(* A server that is shown READY has a catalog to show: a failure never leaves the state of *)
(* the candidate it withdrew.                                                              *)
ReadyHasCatalog ==
  \A s \in Servers :
    ~Closed /\ srv[s].st = "READY" => srv[s].pend # None \/ srv[s].inst # None

(* What tools see: only leases of the present configuration admit a call, a current        *)
(* candidate can be installed, and READY stands for a catalog.                             *)
CatalogInv ==
  /\ CurrentLeaseHasCurrentConfig
  /\ CurrentCandidateAccepts
  /\ ReadyHasCatalog

(* Once the disturbances stop, an enabled server whose failures could be retried has an    *)
(* installed catalog that admits calls.                                                    *)
Usable(s) == srv[s].inst # None /\ Current(s, srv[s].inst)
ServerComesBack ==
  \A s \in Servers :
    []<>(Closed \/ ~srv[s].conf.on \/ srv[s].st = "FAILED_TERMINAL" \/ Usable(s))

(* The close of the supervisor always finishes: nobody waits for a lease, a permit or an   *)
(* operation that is never given back.                                                     *)
CloseFinishes == (phase = "tasks") ~> (phase = "done")

(* Whatever single disturbance hits it, a server becomes usable again and a close ends.    *)
McpProgress == ServerComesBack /\ CloseFinishes

==================================================================================
