--------------------------- MODULE AgentWorksProofs ---------------------------
(***************************************************************************)
(* Theorems about AgentWorks, for any Agents, works, batches, dependencies, *)
(* capacity and events: works keep what their dependencies, rows and stops  *)
(* say, slots follow the tasks, and no wait misses a change.                *)
(***************************************************************************)
EXTENDS AgentWorks, FiniteSetTheorems, WellFoundedInduction, TLAPS

-----------------------------------------------------------------------------
(* What the works promise, of any table wk of works and rows of Agents.     *)

WorkRecords ==
  [st : {"none"} \cup Unsettled \cup Terminal, agent : Agents \cup {"none"},
   deps : SUBSET Works, src : SUBSET Works]

WorkRows == [Works -> WorkRecords]

Admitted(wk) == {w \in Works : wk[w].st # "none"}

(* Works are numbered in admission order. *)
AdmittedInOrder(wk) == \E n \in 0 .. MaxWorks : InSt(wk, {"none"}) = (n + 1) .. MaxWorks

SourcesKnown(wk) ==
  \A w \in Admitted(wk) : wk[w].agent \in Agents /\ wk[w].src \subseteq Admitted(wk)

(* A queued work still misses the inputs that are not completed yet. *)
InputsMissing(wk) ==
  \A w \in InSt(wk, {"PENDING"}) :
    /\ wk[w].deps \subseteq wk[w].src
    /\ \A d \in wk[w].src \ wk[w].deps : wk[d].st = "COMPLETED"

(* A queued work waits for a deleted Agent only if that one failed it. *)
NoResultDeleted(wk, rows) ==
  \A w \in InSt(wk, {"PENDING"}) :
    \A d \in wk[w].deps : rows[wk[d].agent] = "deleted" => wk[d].st \in Stopped

Ran == {"RUNNING", "COMPLETED", "INTERRUPTED", "USER_STOPPED"}

Honoured(wk) ==
  /\ \A w \in InSt(wk, Ran) : \A d \in wk[w].src : wk[d].st = "COMPLETED"
  /\ \A w \in InSt(wk, {"DEP_FAILED"}) : \E d \in wk[w].src : wk[d].st \in Stopped

OneRunning(wk) ==
  \A v, w \in InSt(wk, {"RUNNING"}) : wk[v].agent = wk[w].agent => v = w

Acyclic(wk) == ~HasCycle(wk, InSt(wk, {"PENDING"}))

Sound(wk, rows) ==
  /\ wk \in WorkRows
  /\ AdmittedInOrder(wk) /\ SourcesKnown(wk)
  /\ InputsMissing(wk) /\ NoResultDeleted(wk, rows)
  /\ Honoured(wk) /\ OneRunning(wk) /\ Acyclic(wk)

(* How a work goes on in the transactions that admit none. *)
MayBecome(wk, wk2, w) ==
  \/ /\ wk[w].st = "PENDING" /\ wk2[w].st \in {"CANCELLED", "REJECTED"}
  \/ /\ wk[w].st = "PENDING" /\ wk2[w].st = "DEP_FAILED"
     /\ \E d \in wk[w].src : wk2[d].st \in Stopped
  \/ /\ wk[w].st = "PENDING" /\ wk2[w].st = "RUNNING" /\ wk[w].deps = {}
     /\ \A v \in Works \ {w} : wk2[v].st = "RUNNING" => wk[v].agent # wk[w].agent
  \/ wk[w].st = "RUNNING" /\ wk2[w].st \in {"COMPLETED", "INTERRUPTED", "USER_STOPPED"}

Evolves(wk, wk2) ==
  /\ wk2 \in WorkRows
  /\ \A w \in Works :
       /\ wk2[w].agent = wk[w].agent /\ wk2[w].src = wk[w].src
       /\ wk2[w].deps \subseteq wk[w].deps
       /\ wk2[w].st # wk[w].st => MayBecome(wk, wk2, w)
       /\ wk2[w].st = "PENDING" =>
            \A d \in wk[w].deps \ wk2[w].deps : wk[d].st = "COMPLETED"

-----------------------------------------------------------------------------
(* Numbers and cardinals                                                    *)

(* A set of numbers has a least one, which Min takes. *)
LEMMA MinIsLeast ==
    ASSUME NEW S \in SUBSET Nat, S # {}
    PROVE  Min(S) \in S /\ \A n \in S : Min(S) <= n
<1> DEFINE Less == {ss \in Nat \X Nat : ss[1] < ss[2]}
<1>1. IsWellFoundedOn(Less, Nat)
  BY NatLessThanWellFounded, Zenon DEF OpToRel
<1>2. \E m \in S : \A n \in S : ~(<<n, m>> \in Less)
  <2> HIDE DEF Less
  <2> QED BY <1>1, WFMin
<1>3. ASSUME NEW m \in S, NEW n \in S, ~(<<n, m>> \in Less)
      PROVE  m <= n
  <2>1. m \in Nat /\ n \in Nat
    OBVIOUS
  <2> QED BY <1>3, <2>1
<1>4. \E m \in S : \A n \in S : m <= n
  BY <1>2, <1>3
<1> QED BY <1>4 DEF Min

(* The head of a queue is one of the Agent's pending works. *)
LEMMA HeadIsPending ==
    ASSUME NEW a \in Agents, Head(a) # NoWork
    PROVE  Head(a) \in OfAgent(a, {"PENDING"})
<1>1. OfAgent(a, {"PENDING"}) # {} /\ Head(a) = Min(OfAgent(a, {"PENDING"}))
  BY DEF Head
<1>2. OfAgent(a, {"PENDING"}) \in SUBSET Nat
  BY DEF OfAgent, InSt, Works
<1> QED BY <1>1, <1>2, MinIsLeast

-----------------------------------------------------------------------------
(* Works evolve                                                             *)

(* A circle after a step that only ends waiting was there before. *)
LEMMA CyclesOnlyBreak ==
    ASSUME NEW wk, NEW wk2, NEW S, NEW S2, S2 \subseteq S, S2 \subseteq Works,
           \A w \in Works : /\ wk2[w].agent = wk[w].agent
                            /\ wk2[w].deps \subseteq wk[w].deps
                            /\ wk2[w].st \in Unsettled => wk[w].st \in Unsettled,
           HasCycle(wk2, S2)
    PROVE  HasCycle(wk, S)
<1>1. ASSUME NEW w \in Works PROVE Blockers(wk2, w) \subseteq Blockers(wk, w)
  BY DEF Blockers, InSt
<1>2. PICK T \in SUBSET S2 : T # {} /\ \A w \in T : Blockers(wk2, w) \cap T # {}
  BY DEF HasCycle
<1>3. \A w \in T : Blockers(wk, w) \cap T # {}
  BY <1>1, <1>2
<1> QED BY <1>2, <1>3 DEF HasCycle

(* Ended works stay as they ended, and no work returns to the queue. *)
LEMMA EvolutionIsForward ==
    ASSUME NEW wk, NEW wk2, wk \in WorkRows, Evolves(wk, wk2), NEW w \in Works
    PROVE  /\ (wk2[w].st = "none") <=> (wk[w].st = "none")
           /\ wk[w].st \in Terminal => wk2[w].st = wk[w].st
           /\ wk2[w].st = "PENDING" => wk[w].st = "PENDING"
           /\ wk2[w].st \in Unsettled => wk[w].st \in Unsettled
           /\ wk2[w].st = "COMPLETED" /\ wk[w].st # "COMPLETED" => wk[w].st = "RUNNING"
<1>1. wk2[w].st = wk[w].st \/ MayBecome(wk, wk2, w)
  BY DEF Evolves
<1>2. CASE wk2[w].st = wk[w].st
  BY <1>2
<1>3. CASE MayBecome(wk, wk2, w)
  BY <1>3 DEF MayBecome, Terminal, Stopped, Unsettled
<1> QED BY <1>1, <1>2, <1>3

(* The promises of the works survive every such step. *)
LEMMA SoundEvolves ==
    ASSUME NEW wk, NEW wk2, NEW rows, Sound(wk, rows), Evolves(wk, wk2)
    PROVE  Sound(wk2, rows)
<1> USE DEF Sound
<1>1. \A w \in Works :
        /\ wk2[w].agent = wk[w].agent /\ wk2[w].src = wk[w].src
        /\ wk2[w].deps \subseteq wk[w].deps
  BY DEF Evolves
<1>2. \A w \in Works :
        /\ (wk2[w].st = "none") <=> (wk[w].st = "none")
        /\ wk[w].st \in Terminal => wk2[w].st = wk[w].st
        /\ wk2[w].st = "PENDING" => wk[w].st = "PENDING"
        /\ wk2[w].st \in Unsettled => wk[w].st \in Unsettled
  BY EvolutionIsForward
<1>3. \A w \in Works : wk[w].deps \in SUBSET Works /\ wk[w].src \in SUBSET Works
  BY DEF WorkRows, WorkRecords
<1>4. \A d \in Works : /\ wk[d].st = "COMPLETED" => wk2[d].st = "COMPLETED"
                       /\ wk[d].st \in Stopped => wk2[d].st \in Stopped
  BY <1>2 DEF Terminal
<1>5. wk2 \in WorkRows
  BY DEF Evolves
<1>6. AdmittedInOrder(wk2)
  <2>1. InSt(wk2, {"none"}) = InSt(wk, {"none"})
    BY <1>2 DEF InSt
  <2> QED BY <2>1 DEF AdmittedInOrder
<1>7. SourcesKnown(wk2)
  <2>1. Admitted(wk2) = Admitted(wk)
    BY <1>2 DEF Admitted
  <2> QED BY <2>1, <1>1 DEF SourcesKnown, Admitted
<1>8. InputsMissing(wk2)
  <2> SUFFICES ASSUME NEW w \in Works, wk2[w].st = "PENDING"
               PROVE  /\ wk2[w].deps \subseteq wk2[w].src
                      /\ \A d \in wk2[w].src \ wk2[w].deps : wk2[d].st = "COMPLETED"
    BY DEF InputsMissing, InSt
  <2>1. /\ wk[w].deps \subseteq wk[w].src
        /\ \A d \in wk[w].src \ wk[w].deps : wk[d].st = "COMPLETED"
    BY <1>2 DEF InputsMissing, InSt
  <2>2. \A d \in wk[w].deps \ wk2[w].deps : wk[d].st = "COMPLETED"
    BY DEF Evolves
  <2> QED BY <1>1, <1>3, <1>4, <2>1, <2>2
<1>9. NoResultDeleted(wk2, rows)
  <2> SUFFICES ASSUME NEW w \in Works, wk2[w].st = "PENDING", NEW d \in wk2[w].deps,
                      rows[wk2[d].agent] = "deleted"
               PROVE  wk2[d].st \in Stopped
    BY DEF NoResultDeleted, InSt
  <2>1. d \in wk[w].deps /\ d \in Works
    BY <1>1, <1>3
  <2>2. rows[wk[d].agent] = "deleted" => wk[d].st \in Stopped
    BY <1>2, <2>1 DEF NoResultDeleted, InSt
  <2> QED BY <1>1, <1>4, <2>1, <2>2
<1>10. Honoured(wk2)
  <2>1. ASSUME NEW w \in Works, wk2[w].st \in Ran
        PROVE  \A d \in wk2[w].src : wk2[d].st = "COMPLETED"
    <3>1. CASE wk[w].st \in Ran
      BY <1>1, <1>3, <1>4, <3>1 DEF Honoured, InSt
    <3>2. CASE wk[w].st \notin Ran
      <4>1. wk[w].st = "PENDING" /\ wk[w].deps = {}
        BY <2>1, <3>2 DEF Evolves, MayBecome, Ran
      <4>2. \A d \in wk[w].src \ wk[w].deps : wk[d].st = "COMPLETED"
        BY <4>1 DEF InputsMissing, InSt
      <4> QED BY <1>1, <1>3, <1>4, <4>1, <4>2
    <3> QED BY <3>1, <3>2
  <2>2. ASSUME NEW w \in Works, wk2[w].st = "DEP_FAILED"
        PROVE  \E d \in wk2[w].src : wk2[d].st \in Stopped
    <3>1. CASE wk[w].st = "DEP_FAILED"
      <4>1. \E d \in wk[w].src : wk[d].st \in Stopped
        BY <3>1 DEF Honoured, InSt
      <4> QED BY <1>1, <1>3, <1>4, <4>1
    <3>2. CASE wk[w].st # "DEP_FAILED"
      BY <1>1, <2>2, <3>2 DEF Evolves, MayBecome
    <3> QED BY <3>1, <3>2
  <2> QED BY <2>1, <2>2 DEF Honoured, InSt
<1>11. OneRunning(wk2)
  <2> SUFFICES ASSUME NEW v \in Works, NEW w \in Works, v # w,
                      wk2[v].st = "RUNNING", wk2[w].st = "RUNNING"
               PROVE  wk2[v].agent # wk2[w].agent
    BY DEF OneRunning, InSt
  <2>1. CASE wk[v].st = "RUNNING" /\ wk[w].st = "RUNNING"
    BY <1>1, <2>1 DEF OneRunning, InSt
  <2>2. CASE wk[w].st # "RUNNING"
    BY <1>1, <2>2 DEF Evolves, MayBecome
  <2>3. CASE wk[v].st # "RUNNING"
    BY <1>1, <2>3 DEF Evolves, MayBecome
  <2> QED BY <2>1, <2>2, <2>3
<1>12. Acyclic(wk2)
  <2>1. InSt(wk2, {"PENDING"}) \subseteq InSt(wk, {"PENDING"})
    BY <1>2 DEF InSt
  <2>2. InSt(wk2, {"PENDING"}) \subseteq Works
    BY DEF InSt
  <2> QED BY <1>1, <1>2, <2>1, <2>2, CyclesOnlyBreak, Zenon DEF Acyclic
<1> QED BY <1>5, <1>6, <1>7, <1>8, <1>9, <1>10, <1>11, <1>12

(* Resolving the dependencies is such a step: a work is given up only with *)
(* a source that failed, and no completed source is still missing.         *)
LEMMA ResolvingEvolves ==
    ASSUME NEW wk, Sound(wk, row)
    PROVE  /\ Evolves(wk, Resolved(wk))
           /\ \A w \in Works :
                /\ Resolved(wk)[w].st # wk[w].st =>
                     wk[w].st = "PENDING" /\ Resolved(wk)[w].st = "DEP_FAILED"
                /\ Resolved(wk)[w].st = "PENDING" =>
                     \A d \in Resolved(wk)[w].deps : wk[d].st # "COMPLETED"
<1> DEFINE new == Resolved(wk)
           pending == InSt(wk, {"PENDING"})
           Lives(T) == \A w \in T : \A d \in wk[w].deps :
                         ~Lost(wk, d) /\ (d \in pending => d \in T)
           kept == Survivors(wk)
<1>1. kept = UNION {T \in SUBSET pending : Lives(T)}
  BY DEF Survivors
<1>2. \A w \in Works : wk[w] \in WorkRecords
  BY DEF Sound, WorkRows, WorkRecords
<1>3. ASSUME NEW w \in Works
      PROVE  new[w] = IF wk[w].st # "PENDING" THEN wk[w]
                      ELSE IF w \in kept
                           THEN [wk[w] EXCEPT !.deps = {d \in @ : wk[d].st # "COMPLETED"}]
                           ELSE [wk[w] EXCEPT !.st = "DEP_FAILED", !.deps = {}]
  BY <1>3 DEF Resolved
<1>4. ASSUME NEW w \in pending, w \notin kept
      PROVE  \E d \in wk[w].deps : Lost(wk, d) \/ (d \in pending /\ d \notin kept)
  <2> SUFFICES ASSUME \A d \in wk[w].deps : ~Lost(wk, d) /\ (d \in pending => d \in kept)
               PROVE  w \in kept
    BY <1>4
  <2> DEFINE more == kept \cup {w}
  <2>1. more \in SUBSET pending
    BY <1>1
  <2>2. ASSUME NEW v \in kept, NEW d \in wk[v].deps
        PROVE  ~Lost(wk, d) /\ (d \in pending => d \in kept)
    <3>1. PICK T \in SUBSET pending : Lives(T) /\ v \in T
      BY <1>1
    <3>2. ~Lost(wk, d) /\ (d \in pending => d \in T)
      BY <3>1
    <3>3. T \subseteq kept
      BY <1>1, <3>1
    <3> QED BY <3>2, <3>3
  <2>3. Lives(more)
    BY <2>2
  <2> QED BY <1>1, <2>1, <2>3
<1> HIDE DEF new, kept
<1>5. ASSUME NEW w \in pending, NEW d \in wk[w].deps, Lost(wk, d)
      PROVE  d \in Works /\ wk[d].st \in Stopped
  <2>1. w \in Works /\ d \in Works
    BY <1>2 DEF WorkRecords, InSt
  <2>2. row[wk[d].agent] = "deleted" => wk[d].st \in Stopped
    BY DEF Sound, NoResultDeleted
  <2> QED BY <1>5, <2>1, <2>2 DEF Lost
<1>6. ASSUME NEW w \in Works, wk[w].st = "PENDING"
      PROVE  /\ new[w].agent = wk[w].agent /\ new[w].src = wk[w].src
             /\ new[w].deps \in SUBSET wk[w].deps
             /\ w \in kept => /\ new[w].st = "PENDING"
                              /\ new[w].deps = {d \in wk[w].deps : wk[d].st # "COMPLETED"}
             /\ w \notin kept => new[w].st = "DEP_FAILED"
             /\ new[w] \in WorkRecords
  <2> DEFINE States == {"none"} \cup Unsettled \cup Terminal
             open == {d \in wk[w].deps : wk[d].st # "COMPLETED"}
             old == wk[w]
  <2>1. old \in [st : States, agent : Agents \cup {"none"}, deps : SUBSET Works, src : SUBSET Works]
    BY <1>2 DEF WorkRecords
  <2>2. open \in SUBSET old.deps /\ {} \in SUBSET old.deps /\ "DEP_FAILED" \in States
    BY DEF Terminal, Stopped
  <2>3. w \in kept => new[w] = [old EXCEPT !.deps = open]
    BY <1>3, <1>6
  <2>4. w \notin kept => new[w] = [old EXCEPT !.st = "DEP_FAILED", !.deps = {}]
    BY <1>3, <1>6
  <2>5. old.st = "PENDING"
    BY <1>6
  <2> HIDE DEF States, open, old
  <2>6. CASE w \in kept
    BY <2>1, <2>2, <2>3, <2>5, <2>6 DEF WorkRecords, open, old, States
  <2>7. CASE w \notin kept
    BY <2>1, <2>2, <2>4, <2>7 DEF WorkRecords, open, old, States
  <2> QED BY <2>6, <2>7
<1>7. \A w \in Works : wk[w].st # "PENDING" => new[w] = wk[w]
  BY <1>3
<1>8. new \in WorkRows
  <2>1. new = [w \in Works |-> new[w]]
    BY DEF new, Resolved
  <2>2. \A w \in Works : new[w] \in WorkRecords
    BY <1>2, <1>6, <1>7, Zenon
  <2> QED BY <2>1, <2>2, Zenon DEF WorkRows, WorkRecords
<1>9. ASSUME NEW w \in pending, w \notin kept
      PROVE  \E d \in wk[w].src : new[d].st \in Stopped
  <2>1. PICK d \in wk[w].deps : Lost(wk, d) \/ (d \in pending /\ d \notin kept)
    BY <1>4, <1>9
  <2>2. d \in wk[w].src
    BY DEF Sound, InputsMissing
  <2>3. CASE Lost(wk, d)
    <3>1. d \in Works /\ wk[d].st \in Stopped
      BY <1>5, <2>3
    <3>2. new[d] = wk[d]
      BY <1>7, <3>1 DEF Stopped
    <3> QED BY <2>2, <3>1, <3>2
  <2>4. CASE d \in pending /\ d \notin kept
    <3>1. d \in Works /\ wk[d].st = "PENDING"
      BY <2>4 DEF InSt
    <3>2. new[d].st = "DEP_FAILED"
      BY <1>6, <2>4, <3>1
    <3> QED BY <2>2, <3>2 DEF Stopped
  <2> QED BY <2>1, <2>3, <2>4
<1>10. ASSUME NEW w \in Works
       PROVE  /\ new[w].agent = wk[w].agent /\ new[w].src = wk[w].src
              /\ new[w].deps \subseteq wk[w].deps
              /\ new[w].st # wk[w].st => /\ MayBecome(wk, new, w)
                                        /\ wk[w].st = "PENDING" /\ new[w].st = "DEP_FAILED"
              /\ new[w].st = "PENDING" =>
                   /\ \A d \in wk[w].deps \ new[w].deps : wk[d].st = "COMPLETED"
                   /\ \A d \in new[w].deps : wk[d].st # "COMPLETED"
  <2>1. CASE wk[w].st # "PENDING"
    BY <1>7, <2>1
  <2>2. CASE wk[w].st = "PENDING" /\ w \in kept
    <3>1. /\ new[w].agent = wk[w].agent /\ new[w].src = wk[w].src
          /\ new[w].st = "PENDING"
          /\ new[w].deps = {d \in wk[w].deps : wk[d].st # "COMPLETED"}
      BY <1>6, <2>2
    <3>2. /\ new[w].deps \subseteq wk[w].deps
          /\ \A d \in wk[w].deps \ new[w].deps : wk[d].st = "COMPLETED"
          /\ \A d \in new[w].deps : wk[d].st # "COMPLETED"
      BY <3>1
    <3> QED BY <2>2, <3>1, <3>2
  <2>3. CASE wk[w].st = "PENDING" /\ w \notin kept
    <3>1. \E d \in wk[w].src : new[d].st \in Stopped
      BY <1>9, <2>3 DEF InSt
    <3>2. new[w].st = "DEP_FAILED" /\ new[w].deps \subseteq wk[w].deps
      BY <1>6, <2>3
    <3>3. new[w].agent = wk[w].agent /\ new[w].src = wk[w].src
      BY <1>6, <2>3
    <3>4. MayBecome(wk, new, w)
      BY <2>3, <3>1, <3>2 DEF MayBecome
    <3> QED BY <2>3, <3>2, <3>3, <3>4
  <2> QED BY <2>1, <2>2, <2>3
<1>11. Evolves(wk, new)
  BY <1>8, <1>10 DEF Evolves
<1> QED BY <1>10, <1>11 DEF new

-----------------------------------------------------------------------------
(* The inductive invariant                                                  *)

WorksInv == Sound(work, row)

(* A deletion that is under way finds no pending work that still has to     *)
(* take over a result of its Agent.                                         *)
Deleting(a) ==
  /\ sched.a = a /\ idle[a] = "delete"
  /\ \/ sched.pc = "read"
     \/ sched.del /\ sched.pc \in {"retire", "check", "close", "delete"}

ResultsTaken(a) ==
  \A w \in InSt(work, {"PENDING"}) : \A d \in work[w].deps :
    ~(work[d].agent = a /\ work[d].st = "COMPLETED")

IdleInv ==
  /\ IdleAgentHasNoWork
  /\ \A a \in Agents : Deleting(a) => ResultsTaken(a)
  /\ sched.pc \in {"close", "delete"} /\ sched.del => idle[sched.a] = "delete"
  /\ sched.pc = "delete" => sched.del

(* The Host sessions, where the scheduler relies on them. *)
HostsInv ==
  /\ root = "closed" => \A a \in Agents : host[a] = "none"
  /\ \A a \in Agents :
       /\ host[a] = "none" => loop[a].pc = "none" /\ task[a].pc = "none"
       /\ root = "open" /\ host[a] = "closing" => sched.pc = "close" /\ sched.a = a
  /\ sched.pc # "next" => sched.a \in Agents
  /\ sched.pc = "load" => host[sched.a] \in {"none", "lost"}

(* Whoever delivers or runs a work holds its slot. *)
HeldSlots ==
  \A a \in Agents :
    /\ loop[a].pc \in {"check", "install"} =>
         task[a].pc = "none" /\ (Live(a) => a \in occupied)
    /\ task[a].pc # "none" => task[a].w \in Works
    /\ task[a].pc \in {"start", "run"} /\ host[a] # "lost" => a \in occupied

(* The work of a running task is the Agent's running one. *)
RunningWorks ==
  \A a \in Agents :
    task[a].pc \in {"run", "wait"} =>
      work[task[a].w].st = "RUNNING" /\ work[task[a].w].agent = a

TasksInv == HeldSlots /\ RunningWorks

StopsInv ==
  /\ stops \subseteq asked /\ asked \subseteq Admitted(work)
  /\ StopHitsOnlyItsWork
  /\ \A a \in Agents : task[a].cause = "user" => task[a].w \in asked

SlotsInv ==
  /\ IsFiniteSet(occupied) /\ Cardinality(occupied) <= Capacity
  /\ SlotHasOwner

AgentInv ==
  /\ TypeOK /\ WorksInv /\ IdleInv /\ HostsInv /\ TasksInv /\ StopsInv /\ SlotsInv
  /\ WaitIsWoken

-----------------------------------------------------------------------------
(* Which steps touch what                                                   *)

(* The idle clocks.                                                          *)
LEMMA IdleFrame ==
    ASSUME Next
    PROVE  \/ UNCHANGED idle
           \/ AdmitRequests \/ SchedMarksIdle \/ RetireDeletes
           \/ (\E a \in Agents : TaskSettles(a) \/ AgeIdle(a))
<1>1. ASSUME Scheduler
      PROVE  SchedMarksIdle \/ RetireDeletes \/ UNCHANGED idle
  BY <1>1 DEF Scheduler, RoundBegins, SchedRead, SchedLoads, SchedLoadFails, RetireBegins,
     RetireChecks, RetireCloses, SchedResolve, LoadFailed
<1>2. ASSUME Waiting
      PROVE  UNCHANGED idle
  BY <1>2 DEF Waiting, WaitCheck, WaitSleeps, WaitWakes, DeliverEvents
<1>3. ASSUME NEW a \in Agents, Delivery(a)
      PROVE  UNCHANGED idle
  BY <1>3 DEF Delivery, LoopWakes, LoopScans, LoopHookPasses, LoopInstalls, LoopEnds
<1>4. ASSUME NEW a \in Agents, Execution(a)
      PROVE  TaskSettles(a) \/ UNCHANGED idle
  BY <1>4 DEF Execution, TaskStarts, TaskCompletes, TaskInterrupts, TaskStale, TaskResumes,
     TaskReleases, HostClosed
<1>5. ASSUME NEW a \in Agents, Faults(a)
      PROVE  AgeIdle(a) \/ UNCHANGED idle
  BY <1>5 DEF Faults, LoopPutsBack, NoCatalog, Overtaken,
       LoopModelRejects, LoopHookBlocks, LoopHookRaises,
     TaskStartRejected, TaskSuspends, WriterLost, StopRequests
<1>6. ASSUME WaitBegin \/ RootCloses \/ RootClosed \/ RootReopens \/ Crash
      PROVE  UNCHANGED idle
  BY <1>6 DEF WaitBegin, RootCloses, RootClosed, RootReopens, Crash
<1>7. ASSUME NEW w \in Works, StopActiveWork(w) PROVE UNCHANGED idle
  BY <1>7 DEF StopActiveWork
<1> QED BY <1>1, <1>2, <1>3, <1>4, <1>5, <1>6, <1>7 DEF Next

(* The round of the scheduler.                                               *)
LEMMA SchedFrame ==
    ASSUME Next
    PROVE  \/ UNCHANGED sched
           \/ RoundBegins \/ SchedRead \/ SchedLoads \/ SchedLoadFails
           \/ SchedMarksIdle \/ RetireBegins \/ RetireChecks \/ RetireCloses
           \/ RetireDeletes \/ Crash
           \/ (\E a \in Agents : SchedResolve(a))
<1>1. ASSUME Waiting
      PROVE  UNCHANGED sched
  BY <1>1 DEF Waiting, WaitCheck, WaitSleeps, WaitWakes, DeliverEvents
<1>2. ASSUME NEW a \in Agents, Delivery(a)
      PROVE  UNCHANGED sched
  BY <1>2 DEF Delivery, LoopWakes, LoopScans, LoopHookPasses, LoopInstalls, LoopEnds
<1>3. ASSUME NEW a \in Agents, Execution(a)
      PROVE  UNCHANGED sched
  BY <1>3 DEF Execution, TaskStarts, TaskCompletes, TaskInterrupts, TaskStale, TaskResumes,
     TaskReleases, TaskSettles, HostClosed
<1>4. ASSUME NEW a \in Agents, Faults(a)
      PROVE  UNCHANGED sched
  BY <1>4 DEF Faults, LoopPutsBack, NoCatalog, Overtaken,
       LoopModelRejects, LoopHookBlocks, LoopHookRaises,
     TaskStartRejected, TaskSuspends, WriterLost, StopRequests, AgeIdle
<1>5. ASSUME AdmitRequests \/ WaitBegin \/ RootCloses \/ RootClosed \/ RootReopens
      PROVE  UNCHANGED sched
  BY <1>5 DEF AdmitRequests, WaitBegin, RootCloses, RootClosed, RootReopens
<1>6. ASSUME NEW w \in Works, StopActiveWork(w) PROVE UNCHANGED sched
  BY <1>6 DEF StopActiveWork
<1> QED BY <1>1, <1>2, <1>3, <1>4, <1>5, <1>6 DEF Next, Scheduler

(* The ROOT Host.                                                            *)
LEMMA RootFrame ==
    ASSUME Next
    PROVE  \/ UNCHANGED root
           \/ RootCloses \/ RootClosed \/ RootReopens \/ Crash
<1>1. ASSUME Scheduler
      PROVE  UNCHANGED root
  BY <1>1 DEF Scheduler, RoundBegins, SchedRead, SchedLoads, SchedLoadFails, SchedMarksIdle,
     RetireBegins, RetireChecks, RetireCloses, RetireDeletes, SchedResolve, LoadFailed,
     DeleteAgent
<1>2. ASSUME Waiting
      PROVE  UNCHANGED root
  BY <1>2 DEF Waiting, WaitCheck, WaitSleeps, WaitWakes, DeliverEvents
<1>3. ASSUME NEW a \in Agents, Delivery(a)
      PROVE  UNCHANGED root
  BY <1>3 DEF Delivery, LoopWakes, LoopScans, LoopHookPasses, LoopInstalls, LoopEnds
<1>4. ASSUME NEW a \in Agents, Execution(a)
      PROVE  UNCHANGED root
  BY <1>4 DEF Execution, TaskStarts, TaskCompletes, TaskInterrupts, TaskStale, TaskResumes,
     TaskReleases, TaskSettles, HostClosed
<1>5. ASSUME NEW a \in Agents, Faults(a)
      PROVE  UNCHANGED root
  BY <1>5 DEF Faults, LoopPutsBack, NoCatalog, Overtaken,
       LoopModelRejects, LoopHookBlocks, LoopHookRaises,
     TaskStartRejected, TaskSuspends, WriterLost, StopRequests, AgeIdle
<1>6. ASSUME AdmitRequests \/ WaitBegin
      PROVE  UNCHANGED root
  BY <1>6 DEF AdmitRequests, WaitBegin
<1>7. ASSUME NEW w \in Works, StopActiveWork(w) PROVE UNCHANGED root
  BY <1>7 DEF StopActiveWork
<1> QED BY <1>1, <1>2, <1>3, <1>4, <1>5, <1>6, <1>7 DEF Next

(* The Host sessions.                                                        *)
LEMMA HostFrame ==
    ASSUME Next
    PROVE  \/ UNCHANGED host
           \/ SchedLoads \/ RetireBegins \/ RetireChecks \/ RootCloses
           \/ Crash
           \/ (\E a \in Agents : HostClosed(a) \/ WriterLost(a))
<1>1. ASSUME Scheduler
      PROVE  SchedLoads \/ RetireBegins \/ RetireChecks \/ UNCHANGED host
  BY <1>1 DEF Scheduler, RoundBegins, SchedRead, SchedLoadFails, SchedMarksIdle, RetireCloses,
     RetireDeletes, SchedResolve, LoadFailed, DeleteAgent
<1>2. ASSUME Waiting
      PROVE  UNCHANGED host
  BY <1>2 DEF Waiting, WaitCheck, WaitSleeps, WaitWakes, DeliverEvents
<1>3. ASSUME NEW a \in Agents, Delivery(a)
      PROVE  UNCHANGED host
  BY <1>3 DEF Delivery, LoopWakes, LoopScans, LoopHookPasses, LoopInstalls, LoopEnds
<1>4. ASSUME NEW a \in Agents, Execution(a)
      PROVE  HostClosed(a) \/ UNCHANGED host
  BY <1>4 DEF Execution, TaskStarts, TaskCompletes, TaskInterrupts, TaskStale, TaskResumes,
     TaskReleases, TaskSettles
<1>5. ASSUME NEW a \in Agents, Faults(a)
      PROVE  WriterLost(a) \/ UNCHANGED host
  BY <1>5 DEF Faults, LoopPutsBack, NoCatalog, Overtaken,
       LoopModelRejects, LoopHookBlocks, LoopHookRaises,
     TaskStartRejected, TaskSuspends, StopRequests, AgeIdle
<1>6. ASSUME AdmitRequests \/ WaitBegin \/ RootClosed \/ RootReopens
      PROVE  UNCHANGED host
  BY <1>6 DEF AdmitRequests, WaitBegin, RootClosed, RootReopens
<1>7. ASSUME NEW w \in Works, StopActiveWork(w) PROVE UNCHANGED host
  BY <1>7 DEF StopActiveWork
<1> QED BY <1>1, <1>2, <1>3, <1>4, <1>5, <1>6, <1>7 DEF Next

(* The delivery loops.                                                       *)
LEMMA LoopFrame ==
    ASSUME Next
    PROVE  \/ UNCHANGED loop
           \/ SchedLoads \/ Crash
           \/ (\E a \in Agents : LoopWakes(a) \/ LoopScans(a))
           \/ (\E a \in Agents : LoopHookPasses(a) \/ LoopInstalls(a))
           \/ (\E a \in Agents : LoopEnds(a) \/ LoopPutsBack(a))
           \/ (\E a \in Agents : LoopModelRejects(a) \/ LoopHookBlocks(a))
           \/ (\E a \in Agents : LoopHookRaises(a))
<1>1. ASSUME Scheduler
      PROVE  SchedLoads \/ UNCHANGED loop
  BY <1>1 DEF Scheduler, RoundBegins, SchedRead, SchedLoadFails, SchedMarksIdle, RetireBegins,
     RetireChecks, RetireCloses, RetireDeletes, SchedResolve, LoadFailed, DeleteAgent
<1>2. ASSUME Waiting
      PROVE  UNCHANGED loop
  BY <1>2 DEF Waiting, WaitCheck, WaitSleeps, WaitWakes, DeliverEvents
<1>3. ASSUME NEW a \in Agents, Execution(a)
      PROVE  UNCHANGED loop
  BY <1>3 DEF Execution, TaskStarts, TaskCompletes, TaskInterrupts, TaskStale, TaskResumes,
     TaskReleases, TaskSettles, HostClosed
<1>4. ASSUME NEW a \in Agents, Faults(a)
      PROVE  LoopPutsBack(a) \/ LoopModelRejects(a) \/ LoopHookBlocks(a) \/
             LoopHookRaises(a) \/ UNCHANGED loop
  BY <1>4 DEF Faults, TaskStartRejected, TaskSuspends, WriterLost, StopRequests, AgeIdle
<1>5. ASSUME AdmitRequests \/ WaitBegin \/ RootCloses \/ RootClosed \/ RootReopens
      PROVE  UNCHANGED loop
  BY <1>5 DEF AdmitRequests, WaitBegin, RootCloses, RootClosed, RootReopens
<1>6. ASSUME NEW w \in Works, StopActiveWork(w) PROVE UNCHANGED loop
  BY <1>6 DEF StopActiveWork
<1> QED BY <1>1, <1>2, <1>3, <1>4, <1>5, <1>6 DEF Next, Delivery

(* The active tasks.                                                         *)
LEMMA TaskFrame ==
    ASSUME Next
    PROVE  \/ UNCHANGED task
           \/ RetireChecks \/ RootCloses \/ Crash
           \/ (\E a \in Agents : LoopInstalls(a) \/ TaskStarts(a))
           \/ (\E a \in Agents : TaskCompletes(a) \/ TaskInterrupts(a))
           \/ (\E a \in Agents : TaskStale(a) \/ TaskResumes(a))
           \/ (\E a \in Agents : TaskReleases(a) \/ TaskSettles(a))
           \/ (\E a \in Agents : TaskStartRejected(a) \/ TaskSuspends(a) \/ WriterLost(a))
           \/ (\E w \in Works : StopActiveWork(w))
<1>1. ASSUME Scheduler
      PROVE  RetireChecks \/ UNCHANGED task
  BY <1>1 DEF Scheduler, RoundBegins, SchedRead, SchedLoads, SchedLoadFails, SchedMarksIdle,
     RetireBegins, RetireCloses, RetireDeletes, SchedResolve, LoadFailed, DeleteAgent
<1>2. ASSUME Waiting
      PROVE  UNCHANGED task
  BY <1>2 DEF Waiting, WaitCheck, WaitSleeps, WaitWakes, DeliverEvents
<1>3. ASSUME NEW a \in Agents, Delivery(a)
      PROVE  LoopInstalls(a) \/ UNCHANGED task
  BY <1>3 DEF Delivery, LoopWakes, LoopScans, LoopHookPasses, LoopEnds
<1>4. ASSUME NEW a \in Agents, Execution(a)
      PROVE  TaskStarts(a) \/ TaskCompletes(a) \/ TaskInterrupts(a) \/ TaskStale(a) \/
             TaskResumes(a) \/ TaskReleases(a) \/ TaskSettles(a) \/ UNCHANGED task
  BY <1>4 DEF Execution, HostClosed
<1>5. ASSUME NEW a \in Agents, Faults(a)
      PROVE  TaskStartRejected(a) \/ TaskSuspends(a) \/ WriterLost(a) \/ UNCHANGED task
  BY <1>5 DEF Faults, LoopPutsBack, NoCatalog, Overtaken,
       LoopModelRejects, LoopHookBlocks, LoopHookRaises,
     StopRequests, AgeIdle
<1>6. ASSUME AdmitRequests \/ WaitBegin \/ RootClosed \/ RootReopens
      PROVE  UNCHANGED task
  BY <1>6 DEF AdmitRequests, WaitBegin, RootClosed, RootReopens
<1> QED BY <1>1, <1>2, <1>3, <1>4, <1>5, <1>6 DEF Next

(* The slots.                                                                *)
LEMMA SlotFrame ==
    ASSUME Next
    PROVE  \/ UNCHANGED occupied
           \/ SchedRead \/ SchedLoadFails \/ Crash
           \/ (\E a \in Agents : LoopScans(a) \/ LoopEnds(a))
           \/ (\E a \in Agents : LoopPutsBack(a) \/ LoopModelRejects(a))
           \/ (\E a \in Agents : LoopHookBlocks(a) \/ LoopHookRaises(a))
           \/ (\E a \in Agents : TaskSuspends(a) \/ TaskResumes(a))
           \/ (\E a \in Agents : TaskReleases(a) \/ HostClosed(a))
<1>1. ASSUME Scheduler
      PROVE  SchedRead \/ SchedLoadFails \/ UNCHANGED occupied
  BY <1>1 DEF Scheduler, RoundBegins, SchedLoads, SchedMarksIdle, RetireBegins, RetireChecks,
     RetireCloses, RetireDeletes, SchedResolve, DeleteAgent
<1>2. ASSUME Waiting
      PROVE  UNCHANGED occupied
  BY <1>2 DEF Waiting, WaitCheck, WaitSleeps, WaitWakes, DeliverEvents
<1>3. ASSUME NEW a \in Agents, Delivery(a)
      PROVE  LoopScans(a) \/ LoopEnds(a) \/ UNCHANGED occupied
  BY <1>3 DEF Delivery, LoopWakes, LoopHookPasses, LoopInstalls
<1>4. ASSUME NEW a \in Agents, Execution(a)
      PROVE  TaskResumes(a) \/ TaskReleases(a) \/ HostClosed(a) \/ UNCHANGED occupied
  BY <1>4 DEF Execution, TaskStarts, TaskCompletes, TaskInterrupts, TaskStale, TaskSettles
<1>5. ASSUME NEW a \in Agents, Faults(a)
      PROVE  LoopPutsBack(a) \/ LoopModelRejects(a) \/ LoopHookBlocks(a) \/
             LoopHookRaises(a) \/ TaskSuspends(a) \/ UNCHANGED occupied
  BY <1>5 DEF Faults, TaskStartRejected, WriterLost, StopRequests, AgeIdle
<1>6. ASSUME AdmitRequests \/ WaitBegin \/ RootCloses \/ RootClosed \/ RootReopens
      PROVE  UNCHANGED occupied
  BY <1>6 DEF AdmitRequests, WaitBegin, RootCloses, RootClosed, RootReopens
<1>7. ASSUME NEW w \in Works, StopActiveWork(w) PROVE UNCHANGED occupied
  BY <1>7 DEF StopActiveWork
<1> QED BY <1>1, <1>2, <1>3, <1>4, <1>5, <1>6, <1>7 DEF Next

(* The wakes of the loops.                                                   *)
LEMMA WakeFrame ==
    ASSUME Next
    PROVE  \/ UNCHANGED wake
           \/ SchedRead \/ SchedLoads \/ RetireChecks \/ Crash
           \/ (\E a \in Agents : LoopWakes(a) \/ LoopPutsBack(a))
           \/ (\E a \in Agents : LoopModelRejects(a) \/ LoopHookBlocks(a))
           \/ (\E a \in Agents : HostClosed(a))
<1>1. ASSUME Scheduler
      PROVE  SchedRead \/ SchedLoads \/ RetireChecks \/ UNCHANGED wake
  BY <1>1 DEF Scheduler, RoundBegins, SchedLoadFails, SchedMarksIdle, RetireBegins,
       RetireCloses,
     RetireDeletes, SchedResolve, LoadFailed, DeleteAgent
<1>2. ASSUME Waiting
      PROVE  UNCHANGED wake
  BY <1>2 DEF Waiting, WaitCheck, WaitSleeps, WaitWakes, DeliverEvents
<1>3. ASSUME NEW a \in Agents, Delivery(a)
      PROVE  LoopWakes(a) \/ UNCHANGED wake
  BY <1>3 DEF Delivery, LoopScans, LoopHookPasses, LoopInstalls, LoopEnds
<1>4. ASSUME NEW a \in Agents, Execution(a)
      PROVE  HostClosed(a) \/ UNCHANGED wake
  BY <1>4 DEF Execution, TaskStarts, TaskCompletes, TaskInterrupts, TaskStale, TaskResumes,
     TaskReleases, TaskSettles
<1>5. ASSUME NEW a \in Agents, Faults(a)
      PROVE  LoopPutsBack(a) \/ LoopModelRejects(a) \/ LoopHookBlocks(a) \/ UNCHANGED wake
  BY <1>5 DEF Faults, LoopHookRaises, TaskStartRejected, TaskSuspends, WriterLost, StopRequests,
     AgeIdle
<1>6. ASSUME AdmitRequests \/ WaitBegin \/ RootCloses \/ RootClosed \/ RootReopens
      PROVE  UNCHANGED wake
  BY <1>6 DEF AdmitRequests, WaitBegin, RootCloses, RootClosed, RootReopens
<1>7. ASSUME NEW w \in Works, StopActiveWork(w) PROVE UNCHANGED wake
  BY <1>7 DEF StopActiveWork
<1> QED BY <1>1, <1>2, <1>3, <1>4, <1>5, <1>6, <1>7 DEF Next

(* The stops.                                                                *)
LEMMA StopFrame ==
    ASSUME Next
    PROVE  \/ UNCHANGED <<stops, asked>>
           \/ RootCloses \/ Crash
           \/ (\E a \in Agents : StopRequests(a))
           \/ (\E w \in Works : StopActiveWork(w))
<1>1. ASSUME Scheduler
      PROVE  UNCHANGED <<stops, asked>>
  BY <1>1 DEF Scheduler, RoundBegins, SchedRead, SchedLoads, SchedLoadFails, SchedMarksIdle,
     RetireBegins, RetireChecks, RetireCloses, RetireDeletes, SchedResolve, LoadFailed,
     DeleteAgent
<1>2. ASSUME Waiting
      PROVE  UNCHANGED <<stops, asked>>
  BY <1>2 DEF Waiting, WaitCheck, WaitSleeps, WaitWakes, DeliverEvents
<1>3. ASSUME NEW a \in Agents, Delivery(a)
      PROVE  UNCHANGED <<stops, asked>>
  BY <1>3 DEF Delivery, LoopWakes, LoopScans, LoopHookPasses, LoopInstalls, LoopEnds
<1>4. ASSUME NEW a \in Agents, Execution(a)
      PROVE  UNCHANGED <<stops, asked>>
  BY <1>4 DEF Execution, TaskStarts, TaskCompletes, TaskInterrupts, TaskStale, TaskResumes,
     TaskReleases, TaskSettles, HostClosed
<1>5. ASSUME NEW a \in Agents, Faults(a)
      PROVE  StopRequests(a) \/ UNCHANGED <<stops, asked>>
  BY <1>5 DEF Faults, LoopPutsBack, NoCatalog, Overtaken,
       LoopModelRejects, LoopHookBlocks, LoopHookRaises,
     TaskStartRejected, TaskSuspends, WriterLost, AgeIdle
<1>6. ASSUME AdmitRequests \/ WaitBegin \/ RootClosed \/ RootReopens
      PROVE  UNCHANGED <<stops, asked>>
  BY <1>6 DEF AdmitRequests, WaitBegin, RootClosed, RootReopens
<1> QED BY <1>1, <1>2, <1>3, <1>4, <1>5, <1>6 DEF Next

(* The works.                                                                *)
LEMMA WorkFrame ==
    ASSUME Next
    PROVE  \/ UNCHANGED work
           \/ AdmitRequests \/ SchedLoads
           \/ (\E a \in Agents : StopRequests(a) \/ SchedResolve(a))
           \/ (\E a \in Agents : LoopModelRejects(a) \/ LoopHookBlocks(a))
           \/ (\E a \in Agents : TaskStarts(a) \/ TaskStartRejected(a))
           \/ (\E a \in Agents : TaskCompletes(a) \/ TaskInterrupts(a))
<1>1. ASSUME Scheduler
      PROVE  SchedLoads \/ (\E a \in Agents : SchedResolve(a)) \/ UNCHANGED work
  BY <1>1 DEF Scheduler, RoundBegins, SchedRead, SchedLoadFails, SchedMarksIdle, RetireBegins,
     RetireChecks, RetireCloses, RetireDeletes, LoadFailed, DeleteAgent
<1>2. ASSUME Waiting
      PROVE  UNCHANGED work
  BY <1>2 DEF Waiting, WaitCheck, WaitSleeps, WaitWakes, DeliverEvents
<1>3. ASSUME NEW a \in Agents, Delivery(a)
      PROVE  UNCHANGED work
  BY <1>3 DEF Delivery, LoopWakes, LoopScans, LoopHookPasses, LoopInstalls, LoopEnds
<1>4. ASSUME NEW a \in Agents, Execution(a)
      PROVE  TaskStarts(a) \/ TaskCompletes(a) \/ TaskInterrupts(a) \/ UNCHANGED work
  BY <1>4 DEF Execution, TaskStale, TaskResumes, TaskReleases, TaskSettles, HostClosed
<1>5. ASSUME NEW a \in Agents, Faults(a)
      PROVE  LoopModelRejects(a) \/ LoopHookBlocks(a) \/ TaskStartRejected(a) \/
             StopRequests(a) \/ UNCHANGED work
  BY <1>5 DEF Faults, LoopPutsBack, NoCatalog, Overtaken, LoopHookRaises, TaskSuspends, WriterLost, AgeIdle
<1>6. ASSUME WaitBegin \/ RootCloses \/ RootClosed \/ RootReopens \/ Crash
      PROVE  UNCHANGED work
  BY <1>6 DEF WaitBegin, RootCloses, RootClosed, RootReopens, Crash
<1>7. ASSUME NEW w \in Works, StopActiveWork(w) PROVE UNCHANGED work
  BY <1>7 DEF StopActiveWork
<1> QED BY <1>1, <1>2, <1>3, <1>4, <1>5, <1>6, <1>7 DEF Next

(* The rows of the Agents. *)
LEMMA RowFrame ==
    ASSUME Next
    PROVE  UNCHANGED row \/ AdmitRequests \/ RetireDeletes
<1>1. ASSUME Scheduler
      PROVE  RetireDeletes \/ UNCHANGED row
  BY <1>1 DEF Scheduler, RoundBegins, SchedRead, SchedLoads, SchedLoadFails, SchedMarksIdle,
     RetireBegins, RetireChecks, RetireCloses, SchedResolve, LoadFailed
<1>2. ASSUME Waiting
      PROVE  UNCHANGED row
  BY <1>2 DEF Waiting, WaitCheck, WaitSleeps, WaitWakes, DeliverEvents
<1>3. ASSUME NEW a \in Agents, Delivery(a)
      PROVE  UNCHANGED row
  BY <1>3 DEF Delivery, LoopWakes, LoopScans, LoopHookPasses, LoopInstalls, LoopEnds
<1>4. ASSUME NEW a \in Agents, Execution(a)
      PROVE  UNCHANGED row
  BY <1>4 DEF Execution, TaskStarts, TaskCompletes, TaskInterrupts, TaskStale, TaskResumes,
     TaskReleases, TaskSettles, HostClosed
<1>5. ASSUME NEW a \in Agents, Faults(a)
      PROVE  UNCHANGED row
  BY <1>5 DEF Faults, LoopPutsBack, NoCatalog, Overtaken,
       LoopModelRejects, LoopHookBlocks, LoopHookRaises,
     TaskStartRejected, TaskSuspends, WriterLost, StopRequests, AgeIdle
<1>6. ASSUME WaitBegin \/ RootCloses \/ RootClosed \/ RootReopens \/ Crash
      PROVE  UNCHANGED row
  BY <1>6 DEF WaitBegin, RootCloses, RootClosed, RootReopens, Crash
<1>7. ASSUME NEW w \in Works, StopActiveWork(w) PROVE UNCHANGED row
  BY <1>7 DEF StopActiveWork
<1> QED BY <1>1, <1>2, <1>3, <1>4, <1>5, <1>6, <1>7 DEF Next

-----------------------------------------------------------------------------
(* Steps of the works                                                       *)

(* One work that changes alone. *)
LEMMA OneWorkEvolves ==
    ASSUME WorksInv, NEW w \in Works, NEW s \in Terminal, NEW ds \in SUBSET work[w].deps,
           NEW wk, wk = [work EXCEPT ![w].st = s, ![w].deps = ds],
           \/ work[w].st = "PENDING" /\ s \in {"CANCELLED", "REJECTED"}
           \/ work[w].st = "RUNNING" /\ s \in {"COMPLETED", "INTERRUPTED", "USER_STOPPED"}
    PROVE  Evolves(work, wk)
<1>1. work \in WorkRows
  BY DEF WorksInv, Sound
<1>2. work[w] \in WorkRecords
  BY <1>1 DEF WorkRows, WorkRecords
<1>3. wk[w] = [work[w] EXCEPT !.st = s, !.deps = ds] /\ \A v \in Works : v # w => wk[v] = work[v]
  BY <1>1 DEF WorkRows, WorkRecords
<1>4. wk[w].st = s /\ wk[w].deps = ds /\ wk[w].agent = work[w].agent /\ wk[w].src = work[w].src
  <2> DEFINE old == work[w]
             new == wk[w]
  <2>1. old \in WorkRecords
    BY <1>2
  <2>2. new = [old EXCEPT !.st = s, !.deps = ds]
    BY <1>3
  <2> HIDE DEF old, new
  <2>3. new.st = s /\ new.deps = ds /\ new.agent = old.agent /\ new.src = old.src
    BY <2>1, <2>2
  <2> QED BY <2>3 DEF old, new
<1>5. wk \in WorkRows
  <2>1. [work[w] EXCEPT !.st = s, !.deps = ds] \in WorkRecords
    BY <1>2 DEF WorkRecords
  <2> QED BY <1>1, <2>1 DEF WorkRows, WorkRecords
<1>6. MayBecome(work, wk, w)
  BY <1>4 DEF MayBecome
<1>7. wk[w].st # "PENDING"
  BY <1>4 DEF Terminal, Stopped
<1>8. ASSUME NEW v \in Works
      PROVE  /\ wk[v].agent = work[v].agent /\ wk[v].src = work[v].src
             /\ wk[v].deps \subseteq work[v].deps
             /\ wk[v].st # work[v].st => MayBecome(work, wk, v)
             /\ wk[v].st = "PENDING" =>
                  \A d \in work[v].deps \ wk[v].deps : work[d].st = "COMPLETED"
  <2>1. CASE v = w
    BY <1>4, <1>6, <1>7, <2>1
  <2>2. CASE v # w
    BY <1>3, <2>2
  <2> QED BY <2>1, <2>2
<1> QED BY <1>5, <1>8 DEF Evolves

(* Nothing changes. *)
LEMMA SameWorksEvolve == WorksInv => Evolves(work, work)
BY DEF WorksInv, Sound, Evolves

(* The exact head may be rejected. *)
LEMMA HeadEvolves ==
    ASSUME WorksInv, NEW a \in Agents, NEW w \in Works, Rejectable(a, w)
    PROVE  Evolves(work, Ended(w, "REJECTED"))
BY OneWorkEvolves DEF Rejectable, Ended, Terminal, Stopped

(* The works before the dependencies on stopped ones are resolved. *)
Unqueued(target) ==
  [w \in Works |-> IF w \in target \cap InSt(work, {"PENDING"})
                   THEN [work[w] EXCEPT !.st = "CANCELLED", !.deps = {}]
                   ELSE work[w]]

(* A stopped work and the works that waited for it. *)
LEMMA StopsEvolve ==
    ASSUME WorksInv, NEW target \in SUBSET Works, NEW wk, wk = Unqueued(target)
    PROVE  /\ Evolves(work, Resolved(wk))
           /\ \A w \in Works : \/ Resolved(wk)[w].st = work[w].st
                               \/ Resolved(wk)[w].st = "DEP_FAILED"
                               \/ Resolved(wk)[w].st = "CANCELLED" /\ w \in target
<1> DEFINE hit == target \cap InSt(work, {"PENDING"})
           new == Resolved(wk)
<1>1. \A w \in Works : work[w] \in WorkRecords
  BY DEF WorksInv, Sound, WorkRows, WorkRecords
<1>2. ASSUME NEW w \in hit
      PROVE  /\ w \in Works /\ work[w].st = "PENDING" /\ wk[w].st = "CANCELLED" /\ wk[w].deps = {}
             /\ wk[w].agent = work[w].agent /\ wk[w].src = work[w].src
             /\ wk[w] \in WorkRecords
  <2>1. w \in Works /\ work[w].st = "PENDING"
    BY DEF InSt
  <2>2. wk[w] = [work[w] EXCEPT !.st = "CANCELLED", !.deps = {}]
    BY <2>1 DEF Unqueued
  <2>3. work[w] \in WorkRecords /\ "CANCELLED" \in Terminal
    BY <1>1, <2>1 DEF Terminal, Stopped
  <2> QED BY <2>1, <2>2, <2>3 DEF WorkRecords
<1>3. \A w \in Works : w \notin hit => wk[w] = work[w]
  BY DEF Unqueued
<1>4. wk \in [Works -> WorkRecords]
  <2>1. \A w \in Works : wk[w] \in WorkRecords
    BY <1>1, <1>2, <1>3, Zenon
  <2>2. wk = [w \in Works |-> wk[w]]
    BY DEF Unqueued
  <2> HIDE DEF hit
  <2> QED BY <2>1, <2>2, Zenon
<1> HIDE DEF hit
<1>5. Evolves(work, wk)
  <2>1. ASSUME NEW w \in Works
        PROVE  /\ wk[w].agent = work[w].agent /\ wk[w].src = work[w].src
               /\ wk[w].deps \subseteq work[w].deps
               /\ wk[w].st # work[w].st => MayBecome(work, wk, w)
               /\ wk[w].st = "PENDING" =>
                    \A d \in work[w].deps \ wk[w].deps : work[d].st = "COMPLETED"
    <3>1. CASE w \in hit
      BY <1>2, <3>1 DEF MayBecome
    <3>2. CASE w \notin hit
      BY <1>3, <3>2
    <3> QED BY <3>1, <3>2
  <2>2. wk \in WorkRows
    BY <1>4 DEF WorkRows, WorkRecords
  <2> QED BY <2>1, <2>2 DEF Evolves
<1>6. Sound(wk, row)
  BY <1>5, SoundEvolves DEF WorksInv
<1>7. /\ Evolves(wk, new)
      /\ \A w \in Works : new[w].st # wk[w].st => wk[w].st = "PENDING" /\ new[w].st = "DEP_FAILED"
  BY <1>6, ResolvingEvolves
<1> HIDE DEF new
<1>8. ASSUME NEW w \in Works
      PROVE  /\ new[w].agent = work[w].agent /\ new[w].src = work[w].src
             /\ new[w].deps \subseteq work[w].deps
             /\ new[w].st # work[w].st => MayBecome(work, new, w)
             /\ new[w].st = "PENDING" =>
                  \A d \in work[w].deps \ new[w].deps : work[d].st = "COMPLETED"
  <2>1. /\ new[w].agent = wk[w].agent /\ new[w].src = wk[w].src
        /\ new[w].deps \subseteq wk[w].deps
        /\ new[w].st # wk[w].st => MayBecome(wk, new, w)
        /\ new[w].st = "PENDING" => \A d \in wk[w].deps \ new[w].deps : wk[d].st = "COMPLETED"
    BY <1>7 DEF Evolves
  <2>2. CASE w \in hit
    <3>1. new[w].st = "CANCELLED"
      BY <1>2, <1>7, <2>2
    <3> QED BY <1>2, <2>1, <2>2, <3>1 DEF MayBecome
  <2>3. CASE w \notin hit
    <3>1. wk[w] = work[w]
      BY <1>3, <2>3
    <3>2. new[w].st # work[w].st => MayBecome(work, new, w)
      BY <1>7, <2>1, <3>1 DEF MayBecome
    <3>3. \A d \in Works : wk[d].st = "COMPLETED" => work[d].st = "COMPLETED"
      BY <1>2, <1>3
    <3>4. work[w].deps \in SUBSET Works
      BY <1>1 DEF WorkRecords
    <3> QED BY <2>1, <3>1, <3>2, <3>3, <3>4
  <2> QED BY <2>2, <2>3
<1>9. new \in WorkRows
  BY <1>7 DEF Evolves
<1>10. Evolves(work, new)
  BY <1>8, <1>9 DEF Evolves
<1>11. ASSUME NEW w \in Works
       PROVE  \/ new[w].st = work[w].st \/ new[w].st = "DEP_FAILED"
              \/ new[w].st = "CANCELLED" /\ w \in target
  <2>1. w \in hit => w \in target
    BY DEF hit
  <2> QED BY <1>2, <1>3, <1>7, <2>1
<1> QED BY <1>10, <1>11 DEF new

(* A batch takes the next numbers. *)
LEMMA BatchIsNew ==
    ASSUME AdmittedInOrder(work), NEW batch \in Batches
    PROVE  \E n \in 0 .. MaxWorks : \E k \in 1 .. (MaxWorks - n) :
             /\ InSt(work, {"none"}) = (n + 1) .. MaxWorks
             /\ batch \in [(n + 1) .. (n + k) -> [agent : Agents, deps : SUBSET Works]]
<1> DEFINE next == Cardinality(InSt(work, {"none"}))
           Batch(i, j) == [i .. j -> [agent : Agents, deps : SUBSET Works]]
<1>1. MaxWorks \in Nat /\ MaxBatch \in Nat
  BY AgentWorksAssumption
<1>2. PICK n \in 0 .. MaxWorks : InSt(work, {"none"}) = (n + 1) .. MaxWorks
  BY DEF AdmittedInOrder
<1>3. next = MaxWorks - n
  <2>1. n \in Nat /\ n <= MaxWorks /\ n + 1 \in Int /\ MaxWorks \in Int
    BY <1>1, <1>2
  <2>2. Cardinality((n + 1) .. MaxWorks) =
          IF n + 1 > MaxWorks THEN 0 ELSE MaxWorks - (n + 1) + 1
    BY <2>1, FS_Interval, Zenon
  <2> HIDE DEF next
  <2>3. next = IF n + 1 > MaxWorks THEN 0 ELSE MaxWorks - (n + 1) + 1
    BY <1>2, <2>2 DEF next
  <2> QED BY <1>1, <2>1, <2>3
<1>4. next \in Nat /\ MaxWorks - next + 1 = n + 1
  <2> HIDE DEF next
  <2> QED BY <1>1, <1>2, <1>3
<1> HIDE DEF Batch
<1>5. PICK k \in 1 .. Min({MaxBatch, next}) :
        batch \in Batch(MaxWorks - next + 1, MaxWorks - next + 1 + k - 1)
  BY DEF Batches, Batch
<1>6. Min({MaxBatch, next}) \in Nat /\ Min({MaxBatch, next}) <= next
  <2>1. {MaxBatch, next} \in SUBSET Nat /\ {MaxBatch, next} # {} /\ next \in {MaxBatch, next}
    BY <1>1, <1>4
  <2>2. Min({MaxBatch, next}) \in {MaxBatch, next} /\ Min({MaxBatch, next}) <= next
    BY <2>1, MinIsLeast, Zenon
  <2> QED BY <2>1, <2>2, Zenon
<1> DEFINE m == Min({MaxBatch, next})
<1> HIDE DEF next, m
<1>7. k \in 1 .. (MaxWorks - n) /\ n + 1 + k - 1 = n + k
  BY <1>1, <1>2, <1>3, <1>5, <1>6 DEF m
<1>8. batch \in Batch(n + 1, n + k)
  BY <1>4, <1>5, <1>7
<1> QED BY <1>2, <1>7, <1>8 DEF Batch

(* The works before the resolution of the admitted batch. *)
Joined(batch) ==
  [w \in Works |->
     IF w \in DOMAIN batch
     THEN [st |-> "PENDING", agent |-> batch[w].agent,
           deps |-> {d \in batch[w].deps : d \in DOMAIN batch \/ work[d].st # "COMPLETED"},
           src |-> batch[w].deps]
     ELSE work[w]]

(* The batch joins the works without harm to any promise. *)
LEMMA JoinedIsSound ==
    ASSUME WorksInv, NEW batch \in Batches, Admissible(batch),
           ~GraphRefused(Joined(batch))
    PROVE  /\ Sound(Joined(batch), row)
           /\ \A w \in DOMAIN batch :
                w \in Works /\ work[w].st = "none" /\ batch[w].agent \in Agents
<1> DEFINE ids == DOMAIN batch
           wk == Joined(batch)
<1>0. PICK n \in 0 .. MaxWorks : \E k \in 1 .. (MaxWorks - n) :
             /\ InSt(work, {"none"}) = (n + 1) .. MaxWorks
             /\ batch \in [(n + 1) .. (n + k) -> [agent : Agents, deps : SUBSET Works]]
  BY BatchIsNew DEF WorksInv, Sound
<1>1. PICK k \in 1 .. (MaxWorks - n) :
             /\ InSt(work, {"none"}) = (n + 1) .. MaxWorks
             /\ batch \in [(n + 1) .. (n + k) -> [agent : Agents, deps : SUBSET Works]]
  BY <1>0
<1>2. ids = (n + 1) .. (n + k)
  BY <1>1
<1>3. MaxWorks \in Nat
  BY AgentWorksAssumption
<1>4. ids \subseteq (n + 1) .. MaxWorks
  <2> HIDE DEF ids
  <2> QED BY <1>2, <1>3
<1>5. ASSUME NEW w \in ids
      PROVE  /\ w \in Works /\ work[w].st = "none"
             /\ batch[w].agent \in Agents /\ batch[w].deps \in SUBSET Works
  <2>1. w \in InSt(work, {"none"})
    BY <1>1, <1>4
  <2>2. batch[w] \in [agent : Agents, deps : SUBSET Works]
    BY <1>1
  <2> QED BY <2>1, <2>2 DEF InSt
<1>6. \A w \in Works : work[w] \in WorkRecords
  BY DEF WorksInv, Sound, WorkRows, WorkRecords
<1>7. ASSUME NEW w \in ids
      PROVE  /\ wk[w].st = "PENDING" /\ wk[w].agent = batch[w].agent
             /\ wk[w].src = batch[w].deps
             /\ wk[w].deps = {d \in batch[w].deps : d \in ids \/ work[d].st # "COMPLETED"}
             /\ wk[w] \in WorkRecords
  <2>1. wk[w] = [st |-> "PENDING", agent |-> batch[w].agent,
                 deps |-> {d \in batch[w].deps : d \in ids \/ work[d].st # "COMPLETED"},
                 src |-> batch[w].deps]
    BY <1>5 DEF Joined
  <2>2. {d \in batch[w].deps : d \in ids \/ work[d].st # "COMPLETED"} \in SUBSET Works
    BY <1>5
  <2> HIDE DEF wk, ids
  <2> QED BY <1>5, <2>1, <2>2 DEF WorkRecords, Unsettled
<1>8. \A w \in Works : w \notin ids => wk[w] = work[w]
  BY DEF Joined
<1>9. wk \in WorkRows
  <2>1. \A w \in Works : wk[w] \in WorkRecords
    BY <1>6, <1>7, <1>8, Zenon
  <2>2. wk = [w \in Works |-> wk[w]]
    BY DEF Joined
  <2> HIDE DEF wk
  <2>3. wk \in [Works -> WorkRecords]
    BY <2>1, <2>2, Zenon
  <2> QED BY <2>3 DEF WorkRows, WorkRecords
<1> HIDE DEF wk
<1>10. ASSUME NEW w \in Works, w \notin ids, work[w].st # "none"
       PROVE  /\ wk[w] = work[w] /\ work[w].agent \in Agents
              /\ \A d \in work[w].src : d \in Works /\ d \notin ids /\ work[d].st # "none"
                                        /\ wk[d] = work[d]
  <2>1. work[w].agent \in Agents /\ work[w].src \subseteq Admitted(work)
    BY <1>10 DEF WorksInv, Sound, SourcesKnown, Admitted
  <2>2. \A d \in work[w].src : d \in Works /\ work[d].st # "none"
    BY <2>1 DEF Admitted
  <2> QED BY <1>5, <1>8, <1>10, <2>1, <2>2
<1>11. ASSUME NEW w \in ids, NEW d \in batch[w].deps
       PROVE  /\ d \in Works /\ wk[d].st # "none"
              /\ row[wk[d].agent] # "deleted"
              /\ d \notin ids => wk[d] = work[d]
  <2>1. d \in Works /\ row[batch[w].agent] # "deleted" /\ (d \in ids \/ Visible(d))
    BY <1>5 DEF Admissible
  <2>2. CASE d \in ids
    <3>1. row[batch[d].agent] # "deleted"
      BY <2>2 DEF Admissible
    <3> QED BY <1>7, <2>1, <2>2, <3>1
  <2>3. CASE d \notin ids
    BY <1>8, <2>1, <2>3 DEF Visible
  <2> QED BY <2>2, <2>3
<1>12. AdmittedInOrder(wk)
  <2>1. \A w \in Works : wk[w].st = "none" <=> w \in (n + 1) .. MaxWorks /\ w \notin ids
    <3>1. \A w \in Works : work[w].st = "none" <=> w \in (n + 1) .. MaxWorks
      BY <1>1 DEF InSt
    <3> QED BY <1>7, <1>8, <3>1
  <2>2. InSt(wk, {"none"}) = {w \in Works : w \in (n + 1) .. MaxWorks /\ w \notin ids}
    BY <2>1 DEF InSt
  <2>3. {w \in Works : w \in (n + 1) .. MaxWorks /\ w \notin ids} = (n + k + 1) .. MaxWorks
    <3> HIDE DEF ids
    <3> QED BY <1>1, <1>2, <1>3 DEF Works
  <2>4. n + k \in 0 .. MaxWorks
    BY <1>1, <1>3
  <2> QED BY <2>2, <2>3, <2>4 DEF AdmittedInOrder
<1> HIDE DEF ids
<1>13. SourcesKnown(wk)
  <2> SUFFICES ASSUME NEW w \in Works, wk[w].st # "none"
               PROVE  wk[w].agent \in Agents /\ wk[w].src \subseteq Admitted(wk)
    BY DEF SourcesKnown, Admitted
  <2>1. CASE w \in ids
    BY <1>5, <1>7, <1>11, <2>1 DEF Admitted
  <2>2. CASE w \notin ids
    <3>1. work[w].st # "none"
      BY <1>8, <2>2
    <3> QED BY <1>10, <2>2, <3>1 DEF Admitted
  <2> QED BY <2>1, <2>2
<1>14. InputsMissing(wk)
  <2> SUFFICES ASSUME NEW w \in Works, wk[w].st = "PENDING"
               PROVE  /\ wk[w].deps \subseteq wk[w].src
                      /\ \A d \in wk[w].src \ wk[w].deps : wk[d].st = "COMPLETED"
    BY DEF InputsMissing, InSt
  <2>1. CASE w \in ids
    BY <1>7, <1>11, <2>1
  <2>2. CASE w \notin ids
    <3>1. work[w].st = "PENDING"
      BY <1>8, <2>2
    <3>2. /\ work[w].deps \subseteq work[w].src
          /\ \A d \in work[w].src \ work[w].deps : work[d].st = "COMPLETED"
      BY <3>1 DEF WorksInv, Sound, InputsMissing, InSt
    <3> QED BY <1>10, <2>2, <3>1, <3>2
  <2> QED BY <2>1, <2>2
<1>15. NoResultDeleted(wk, row)
  <2> SUFFICES ASSUME NEW w \in Works, wk[w].st = "PENDING", NEW d \in wk[w].deps,
                      row[wk[d].agent] = "deleted"
               PROVE  wk[d].st \in Stopped
    BY DEF NoResultDeleted, InSt
  <2>1. CASE w \in ids
    BY <1>7, <1>11, <2>1
  <2>2. CASE w \notin ids
    <3>1. work[w].st = "PENDING" /\ d \in work[w].deps
      BY <1>8, <2>2
    <3>2. /\ d \in work[w].src
          /\ row[work[d].agent] = "deleted" => work[d].st \in Stopped
      BY <3>1 DEF WorksInv, Sound, InputsMissing, NoResultDeleted, InSt
    <3> QED BY <1>10, <2>2, <3>1, <3>2
  <2> QED BY <2>1, <2>2
<1>16. Honoured(wk)
  <2>1. ASSUME NEW w \in Works, wk[w].st \in Ran \cup {"DEP_FAILED"}
        PROVE  /\ w \notin ids /\ wk[w] = work[w]
               /\ \A d \in work[w].src : wk[d] = work[d]
    <3>1. w \notin ids
      BY <1>7, <2>1 DEF Ran
    <3>2. work[w].st # "none"
      BY <1>8, <2>1, <3>1 DEF Ran
    <3> QED BY <1>10, <3>1, <3>2
  <2>2. ASSUME NEW w \in Works, wk[w].st \in Ran
        PROVE  \A d \in wk[w].src : wk[d].st = "COMPLETED"
    <3>1. wk[w] = work[w] /\ \A d \in work[w].src : wk[d] = work[d]
      BY <2>1, <2>2
    <3>2. \A d \in work[w].src : work[d].st = "COMPLETED"
      BY <2>2, <3>1 DEF WorksInv, Sound, Honoured, InSt
    <3> QED BY <3>1, <3>2
  <2>3. ASSUME NEW w \in Works, wk[w].st = "DEP_FAILED"
        PROVE  \E d \in wk[w].src : wk[d].st \in Stopped
    <3>1. wk[w] = work[w] /\ \A d \in work[w].src : wk[d] = work[d]
      BY <2>1, <2>3
    <3>2. \E d \in work[w].src : work[d].st \in Stopped
      BY <2>3, <3>1 DEF WorksInv, Sound, Honoured, InSt
    <3> QED BY <3>1, <3>2
  <2> QED BY <2>2, <2>3 DEF Honoured, InSt
<1>17. OneRunning(wk)
  <2>1. \A w \in Works : wk[w].st = "RUNNING" => wk[w] = work[w]
    BY <1>7, <1>8
  <2> QED BY <2>1 DEF WorksInv, Sound, OneRunning, InSt
<1>18. Acyclic(wk)
  <2>1. InSt(wk, {"PENDING"}) \subseteq InSt(wk, Unsettled) /\ InSt(wk, {"PENDING"}) \subseteq Works
    BY DEF InSt, Unsettled
  <2>2. ~HasCycle(wk, InSt(wk, Unsettled))
    BY DEF GraphRefused, wk
  <2> QED BY <2>1, <2>2 DEF Acyclic, HasCycle
<1>19. Sound(wk, row)
  BY <1>9, <1>12, <1>13, <1>14, <1>15, <1>16, <1>17, <1>18 DEF Sound
<1> QED BY <1>5, <1>19 DEF wk, ids

(* What an admission changes. *)
LEMMA AdmissionAdds ==
    ASSUME TypeOK, WorksInv, AdmitRequests
    PROVE  /\ WorksInv'
           /\ \A w \in Works :
                /\ work[w].st \notin {"none", "PENDING"} => work'[w].st = work[w].st
                /\ work[w].st # "none" => work'[w].agent = work[w].agent
                /\ work[w].st = "PENDING" => work'[w].st \in {"PENDING", "DEP_FAILED"}
                /\ work[w].st = "none" =>
                     /\ work'[w].st \in {"none", "PENDING", "DEP_FAILED"}
                     /\ work'[w].st # "none" => /\ work'[w].agent \in Agents
                                                /\ ~Retiring(work'[w].agent)
                                                /\ idle'[work'[w].agent] = "no"
                /\ work'[w].st = "PENDING" =>
                     \A d \in work'[w].deps : work'[d].st # "COMPLETED"
           /\ \A a \in Agents : /\ row'[a] # row[a] => row'[a] = "open" /\ row[a] # "deleted"
                                /\ idle'[a] # idle[a] => idle'[a] = "no" /\ ~Retiring(a)
<1>1. PICK batch \in Batches :
        /\ Admissible(batch) /\ ~GraphRefused(Joined(batch))
        /\ work' = Resolved(Joined(batch))
        /\ row' = [a \in Agents |-> IF a \in {batch[w].agent : w \in DOMAIN batch}
                                    THEN "open" ELSE row[a]]
        /\ idle' = [a \in Agents |-> IF a \in {batch[w].agent : w \in DOMAIN batch}
                                     THEN "no" ELSE idle[a]]
  BY DEF AdmitRequests, Joined
<1> DEFINE wk == Joined(batch)
           ids == DOMAIN batch
<1>2. /\ Sound(wk, row)
      /\ \A w \in ids : w \in Works /\ work[w].st = "none" /\ batch[w].agent \in Agents
  BY <1>1, JoinedIsSound
<1>3. /\ Evolves(wk, work')
      /\ \A w \in Works :
           /\ work'[w].st # wk[w].st => wk[w].st = "PENDING" /\ work'[w].st = "DEP_FAILED"
           /\ work'[w].st = "PENDING" => \A d \in work'[w].deps : wk[d].st # "COMPLETED"
  BY <1>1, <1>2, ResolvingEvolves
<1>4. Sound(work', row)
  BY <1>2, <1>3, SoundEvolves
<1>5. /\ \A w \in Works : w \notin ids => wk[w] = work[w]
      /\ \A w \in ids : wk[w].st = "PENDING" /\ wk[w].agent = batch[w].agent
  BY <1>2 DEF Joined
<1>6. /\ row' = [a \in Agents |-> IF a \in {batch[w].agent : w \in ids} THEN "open" ELSE row[a]]
      /\ idle' = [a \in Agents |-> IF a \in {batch[w].agent : w \in ids} THEN "no" ELSE idle[a]]
      /\ \A w \in ids : ~Retiring(batch[w].agent) /\ row[batch[w].agent] # "deleted"
  BY <1>1 DEF Admissible
<1> HIDE DEF wk, ids
<1>7. \A a \in Agents : /\ row'[a] # row[a] => row'[a] = "open" /\ row[a] # "deleted"
                        /\ idle'[a] # idle[a] => idle'[a] = "no" /\ ~Retiring(a)
  BY <1>6
<1>8. WorksInv'
  <2>1. SourcesKnown(work') /\ InputsMissing(work') /\ NoResultDeleted(work', row) /\ work' \in WorkRows
    BY <1>4 DEF Sound
  <2>2. NoResultDeleted(work', row')
    <3> SUFFICES ASSUME NEW w \in Works, work'[w].st = "PENDING", NEW d \in work'[w].deps,
                        row'[work'[d].agent] = "deleted"
                 PROVE  work'[d].st \in Stopped
      BY DEF NoResultDeleted, InSt
    <3>1. d \in work'[w].src /\ work'[w].src \subseteq Admitted(work')
      BY <2>1 DEF SourcesKnown, InputsMissing, InSt, Admitted
    <3>2. work'[d].agent \in Agents
      BY <2>1, <3>1 DEF SourcesKnown, Admitted
    <3>3. row[work'[d].agent] = "deleted"
      BY <1>7, <3>2
    <3> QED BY <2>1, <3>3 DEF NoResultDeleted, InSt
  <2> QED BY <1>4, <2>2 DEF WorksInv, Sound
<1>9. ASSUME NEW w \in Works
      PROVE  /\ work[w].st \notin {"none", "PENDING"} => work'[w].st = work[w].st
             /\ work[w].st # "none" => work'[w].agent = work[w].agent
             /\ work[w].st = "PENDING" => work'[w].st \in {"PENDING", "DEP_FAILED"}
             /\ work[w].st = "none" =>
                  /\ work'[w].st \in {"none", "PENDING", "DEP_FAILED"}
                  /\ work'[w].st # "none" => /\ work'[w].agent \in Agents
                                             /\ ~Retiring(work'[w].agent)
                                             /\ idle'[work'[w].agent] = "no"
  <2>1. work'[w].agent = wk[w].agent
    BY <1>3 DEF Evolves
  <2>2. CASE w \in ids
    <3>1. work[w].st = "none" /\ wk[w].st = "PENDING" /\ work'[w].agent = batch[w].agent
          /\ batch[w].agent \in Agents
      BY <1>2, <1>5, <2>1, <2>2
    <3>2. idle'[batch[w].agent] = "no" /\ ~Retiring(batch[w].agent)
      BY <1>6, <2>2, <3>1
    <3> QED BY <1>3, <3>1, <3>2
  <2>3. CASE w \notin ids
    BY <1>3, <1>5, <2>1, <2>3
  <2> QED BY <2>2, <2>3
<1>10. ASSUME NEW w \in Works, work'[w].st = "PENDING", NEW d \in work'[w].deps
       PROVE  work'[d].st # "COMPLETED"
  <2>1. d \in Works
    BY <1>3 DEF Evolves, WorkRows, WorkRecords
  <2> QED BY <1>3, <1>10, <2>1
<1> QED BY <1>7, <1>8, <1>9, <1>10

(* The work a task starts is the ready head of an Agent that runs nothing. *)
LEMMA StartsReadyHead ==
    ASSUME AgentInv, NEW a \in Agents, NEW w \in Works, Candidate(a) = w
    PROVE  /\ work[w].st = "PENDING" /\ work[w].agent = a /\ work[w].deps = {}
           /\ OfAgent(a, {"RUNNING"}) = {}
<1>1. w # NoWork
  BY DEF Works, NoWork
<1>2. OfAgent(a, {"RUNNING"}) = {} /\ HeadReady(a) /\ w = Head(a)
  BY <1>1 DEF Candidate
<1>3. w \in OfAgent(a, {"PENDING"})
  BY <1>1, <1>2, HeadIsPending
<1> QED BY <1>2, <1>3 DEF HeadReady, OfAgent, InSt

(* Every transaction but an admission takes works forward. *)
LEMMA WorksEvolve ==
    ASSUME AgentInv, Next
    PROVE  AdmitRequests \/ Evolves(work, work')
<1> USE DEF AgentInv
<1>1. CASE work' = work
  BY <1>1, SameWorksEvolve
<1>2. ASSUME NEW a \in Agents, StopRequests(a)
      PROVE  Evolves(work, work')
  <2>1. PICK target \in StopTargets(a) : work' = Resolved(Unqueued(target))
    BY <1>2 DEF StopRequests, Unqueued
  <2>2. target \in SUBSET Works
    BY DEF StopTargets, OfAgent, InSt
  <2> QED BY <2>1, <2>2, StopsEvolve
<1>3. ASSUME NEW a \in Agents, SchedResolve(a)
      PROVE  Evolves(work, work')
  BY <1>3, ResolvingEvolves DEF SchedResolve, WorksInv
<1>4. CASE SchedLoads
  <2>1. \A w \in Works : work[w] \in WorkRecords
    BY DEF WorksInv, Sound, WorkRows, WorkRecords
  <2>2. work' = [w \in Works |-> IF w \in OfAgent(sched.a, {"RUNNING"})
                                 THEN [work[w] EXCEPT !.st = "INTERRUPTED"]
                                 ELSE work[w]]
    BY <1>4 DEF SchedLoads
  <2>3. ASSUME NEW w \in Works
        PROVE  /\ work'[w] \in WorkRecords
               /\ work'[w].agent = work[w].agent /\ work'[w].src = work[w].src
               /\ work'[w].deps = work[w].deps
               /\ work'[w].st # work[w].st =>
                    work[w].st = "RUNNING" /\ work'[w].st = "INTERRUPTED"
    <3>1. CASE w \in OfAgent(sched.a, {"RUNNING"})
      <4> DEFINE old == work[w]
                 new == work'[w]
      <4>1. new = [old EXCEPT !.st = "INTERRUPTED"] /\ old \in WorkRecords /\ old.st = "RUNNING"
        BY <2>1, <2>2, <3>1 DEF OfAgent, InSt
      <4> HIDE DEF old, new
      <4>2. /\ new \in WorkRecords /\ new.agent = old.agent /\ new.src = old.src
            /\ new.deps = old.deps /\ new.st = "INTERRUPTED"
        BY <4>1 DEF WorkRecords, Terminal, Stopped
      <4> QED BY <4>1, <4>2 DEF old, new
    <3>2. CASE w \notin OfAgent(sched.a, {"RUNNING"})
      BY <2>1, <2>2, <3>2
    <3> QED BY <3>1, <3>2
  <2>4. work' \in WorkRows
    <3>1. work' = [w \in Works |-> work'[w]]
      BY <2>2
    <3> QED BY <2>3, <3>1, Zenon DEF WorkRows, WorkRecords
  <2> QED BY <2>3, <2>4 DEF Evolves, MayBecome
<1>5. ASSUME NEW a \in Agents, LoopModelRejects(a) \/ LoopHookBlocks(a)
      PROVE  Evolves(work, work')
  <2>1. loop[a].w \in Works
    BY <1>5 DEF TypeOK, LoopModelRejects, LoopHookBlocks
  <2>2. work' = IF Rejectable(a, loop[a].w) THEN Ended(loop[a].w, "REJECTED") ELSE work
    BY <1>5 DEF LoopModelRejects, LoopHookBlocks
  <2> QED BY <2>1, <2>2, HeadEvolves, SameWorksEvolve
<1>6. ASSUME NEW a \in Agents, TaskStarts(a)
      PROVE  Evolves(work, work')
  <2>1. task[a].w \in Works
    BY <1>6 DEF TasksInv, HeldSlots, RunningWorks, TaskStarts
  <2> DEFINE w == task[a].w
  <2>2. CASE ~(Live(a) /\ task[a].cause = "none" /\ Candidate(a) = w)
    <3>1. work' = work
      BY <1>6, <2>2 DEF TaskStarts
    <3> QED BY <3>1, SameWorksEvolve
  <2>3. CASE Live(a) /\ task[a].cause = "none" /\ Candidate(a) = w
    <3>1. /\ work[w].st = "PENDING" /\ work[w].agent = a /\ work[w].deps = {}
          /\ OfAgent(a, {"RUNNING"}) = {}
      BY <2>1, <2>3, StartsReadyHead
    <3>2. work' = [work EXCEPT ![w].st = "RUNNING"]
      BY <1>6, <2>3 DEF TaskStarts
    <3> HIDE DEF w
    <3>3. work \in WorkRows
      BY DEF WorksInv, Sound
    <3>4. \A v \in Works : v # w => work'[v] = work[v]
      BY <3>2, <3>3 DEF WorkRows, WorkRecords
    <3>5. /\ work'[w].st = "RUNNING" /\ work'[w].agent = work[w].agent
          /\ work'[w].src = work[w].src /\ work'[w].deps = work[w].deps
      BY <2>1, <3>2, <3>3 DEF WorkRows, WorkRecords, w
    <3>6. work' \in WorkRows
      BY <2>1, <3>2, <3>3 DEF WorkRows, WorkRecords, w, Unsettled
    <3>7. \A v \in Works \ {w} : work'[v].st = "RUNNING" => work[v].agent # a
      BY <3>1, <3>4 DEF OfAgent, InSt
    <3>8. MayBecome(work, work', w)
      BY <3>1, <3>5, <3>7 DEF MayBecome
    <3> QED BY <3>4, <3>5, <3>6, <3>8 DEF Evolves
  <2> QED BY <2>2, <2>3
<1>7. ASSUME NEW a \in Agents, TaskStartRejected(a)
      PROVE  Evolves(work, work')
  <2>1. task[a].w \in Works
    BY <1>7 DEF TasksInv, HeldSlots, RunningWorks, TaskStartRejected
  <2>2. Rejectable(a, task[a].w) /\ work' = Ended(task[a].w, "REJECTED")
    BY <1>7 DEF TaskStartRejected
  <2> QED BY <2>1, <2>2, HeadEvolves
<1>8. ASSUME NEW a \in Agents, TaskCompletes(a) \/ TaskInterrupts(a)
      PROVE  Evolves(work, work')
  <2>1. task[a].w \in Works /\ work[task[a].w].st = "RUNNING"
    BY <1>8 DEF TasksInv, HeldSlots, RunningWorks, TaskCompletes, TaskInterrupts
  <2>2. PICK s \in {"COMPLETED", "INTERRUPTED", "USER_STOPPED"} : work' = Ended(task[a].w, s)
    BY <1>8 DEF TaskCompletes, TaskInterrupts
  <2> QED BY <2>1, <2>2, OneWorkEvolves DEF Ended, Terminal, Stopped
<1> QED BY <1>1, <1>2, <1>3, <1>4, <1>5, <1>6, <1>7, <1>8, WorkFrame

(* The rows follow. *)
LEMMA WorksInvStep ==
    ASSUME AgentInv, Next
    PROVE  WorksInv'
<1> USE DEF AgentInv
<1>1. CASE AdmitRequests
  BY <1>1, AdmissionAdds
<1>2. CASE RetireDeletes
  <2>1. work' = work /\ sched.pc = "delete" /\ sched.a \in Agents
    BY <1>2 DEF RetireDeletes, DeleteAgent, HostsInv
  <2>2. CASE ~StillIdle(sched.a, TRUE)
    BY <1>2, <2>1, <2>2 DEF RetireDeletes, DeleteAgent, WorksInv, Sound, NoResultDeleted
  <2>3. CASE StillIdle(sched.a, TRUE)
    <3>1. row' = [row EXCEPT ![sched.a] = "deleted"]
      BY <1>2, <2>3 DEF RetireDeletes, DeleteAgent
    <3>2. ~Busy(sched.a) /\ idle[sched.a] = "delete"
      BY <2>3 DEF StillIdle
    <3>3. ResultsTaken(sched.a)
      BY <2>1, <3>2, <1>2 DEF IdleInv, Deleting
    <3>4. \A w \in Works : work[w].agent = sched.a => work[w].st \notin Unsettled
      BY <3>2 DEF Busy, OfAgent, InSt
    <3>5. ASSUME NEW w \in Works, work[w].st = "PENDING", NEW d \in work[w].deps,
                 row'[work[d].agent] = "deleted"
          PROVE  work[d].st \in Stopped
      <4>1. d \in Works /\ work[d].st # "none" /\ work[d].agent \in Agents
        BY <3>5 DEF WorksInv, Sound, InputsMissing, SourcesKnown, Admitted, InSt
      <4>2. work[d].st \in Unsettled \cup Terminal
        BY <4>1 DEF WorksInv, Sound, WorkRows, WorkRecords
      <4>3. CASE work[d].agent = sched.a
        <5>1. work[d].st # "COMPLETED" /\ work[d].st \notin Unsettled
          BY <3>3, <3>4, <3>5, <4>1, <4>3 DEF ResultsTaken, InSt
        <5> QED BY <4>2, <5>1 DEF Terminal
      <4>4. CASE work[d].agent # sched.a
        <5>1. row[work[d].agent] = "deleted"
          BY <3>1, <3>5, <4>1, <4>4 DEF TypeOK
        <5> QED BY <3>5, <5>1 DEF WorksInv, Sound, NoResultDeleted, InSt
      <4> QED BY <4>3, <4>4
    <3>6. NoResultDeleted(work, row')
      BY <3>5 DEF NoResultDeleted, InSt
    <3> QED BY <2>1, <3>6 DEF WorksInv, Sound
  <2> QED BY <2>2, <2>3
<1>3. CASE Evolves(work, work') /\ row' = row
  BY <1>3, SoundEvolves DEF WorksInv
<1> QED BY <1>1, <1>2, <1>3, RowFrame, WorksEvolve

-----------------------------------------------------------------------------
(* Types                                                                    *)

LoopRows == [pc : {"none", "idle", "scan", "check", "install", "dead"}, w : Works \cup {NoWork}]
TaskRows == [pc : {"none", "start", "run", "wait", "finish", "settle"},
             w : Works \cup {NoWork}, cause : {"none", "user", "close"}]
SchedRows == [pc : {"next", "read", "load", "mark", "retire", "check", "close", "delete"},
              todo : SUBSET Agents, a : Agents \cup {"none"}, del : BOOLEAN]
LoopsOK ==
  /\ loop \in [Agents -> LoopRows]
  /\ \A a \in Agents : (loop[a].w # NoWork) <=> (loop[a].pc \in {"check", "install"})
TasksOK == task \in [Agents -> TaskRows]
SchedOK == sched \in SchedRows
RestOK ==
  /\ row \in [Agents -> {"absent", "open", "deleted"}]
  /\ idle \in [Agents -> {"no", "fresh", "unload", "delete"}]
  /\ root \in {"open", "closing", "closed"}
  /\ host \in [Agents -> {"none", "live", "gated", "closing", "lost"}]
  /\ wake \subseteq Agents /\ occupied \subseteq Agents /\ due \in BOOLEAN
WaitOK ==
  /\ waiter \in [pc : {"none", "read", "sleep", "wait"}, works : SUBSET Works, stale : BOOLEAN]
  /\ stops \subseteq Works /\ asked \subseteq Works /\ spent \in 0 .. MaxEvents

(* TypeOK in parts, now and after a step. *)
LEMMA TypeParts ==
    TypeOK <=> work \in WorkRows /\ LoopsOK /\ TasksOK /\ SchedOK /\ RestOK /\ WaitOK
BY DEF TypeOK, WorkRows, WorkRecords, LoopsOK, TasksOK, SchedOK, RestOK, WaitOK, LoopRows, TaskRows,
     SchedRows

(* The same after a step. *)
LEMMA TypePartsNext ==
    ASSUME work' \in WorkRows, LoopsOK', TasksOK', SchedOK', RestOK', WaitOK'
    PROVE  TypeOK'
BY DEF TypeOK, WorkRows, WorkRecords, LoopsOK, TasksOK, SchedOK, RestOK, WaitOK, LoopRows, TaskRows,
     SchedRows

(* One field of a task or of the scheduler changes. *)
LEMMA FieldsTyped ==
    ASSUME TasksOK, SchedOK, NEW a \in Agents
    PROVE  /\ \A p \in {"none", "start", "run", "wait", "finish", "settle"} :
                TaskTo(a, p) \in [Agents -> TaskRows]
           /\ \A c \in {"none", "user", "close"} :
                [task EXCEPT ![a].cause = c] \in [Agents -> TaskRows]
           /\ NextRound(sched.todo) \in SchedRows
           /\ \A p \in {"next", "read", "load", "mark", "retire", "check", "close", "delete"} :
                [sched EXCEPT !.pc = p] \in SchedRows
           /\ \A p \in {"load", "mark", "retire"}, b \in BOOLEAN :
                [sched EXCEPT !.pc = p, !.del = b] \in SchedRows
<1>1. \A p \in {"none", "start", "run", "wait", "finish", "settle"} :
                TaskTo(a, p) \in [Agents -> TaskRows]
  BY DEF TasksOK, TaskTo, TaskRows
<1>2. \A c \in {"none", "user", "close"} : [task EXCEPT ![a].cause = c] \in [Agents -> TaskRows]
  BY DEF TasksOK, TaskRows
<1>3. NextRound(sched.todo) \in SchedRows
  BY DEF SchedOK, SchedRows, NextRound
<1>4. \A p \in {"next", "read", "load", "mark", "retire", "check", "close", "delete"} :
                [sched EXCEPT !.pc = p] \in SchedRows
  BY DEF SchedOK, SchedRows
<1>5. \A p \in {"load", "mark", "retire"}, b \in BOOLEAN :
                [sched EXCEPT !.pc = p, !.del = b] \in SchedRows
  BY DEF SchedOK, SchedRows
<1> QED BY <1>1, <1>2, <1>3, <1>4, <1>5

(* Every step keeps the types. *)
LEMMA TypeStep ==
    ASSUME AgentInv, Next, WorksInv'
    PROVE  TypeOK'
<1>0. /\ work' \in WorkRows /\ LoopsOK /\ TasksOK /\ SchedOK /\ RestOK /\ WaitOK
      /\ MaxEvents \in Nat /\ (sched.pc # "next" => sched.a \in Agents)
  BY TypeParts, AgentWorksAssumption DEF AgentInv, WorksInv, Sound, HostsInv
<1> HIDE DEF WorkRows
<1>00. \A e : Happens(e) => spent' \in 0 .. MaxEvents
  BY <1>0 DEF WaitOK, Happens
<1>1. work' \in [Works -> [st : {"none"} \cup Unsettled \cup Terminal,
                          agent : Agents \cup {"none"},
                          deps : SUBSET Works, src : SUBSET Works]]
  BY <1>0 DEF WorkRows, WorkRecords
<1>2. TypeOK /\ MaxEvents \in Nat /\ (sched.pc # "next" => sched.a \in Agents)
  BY AgentWorksAssumption DEF AgentInv, HostsInv
<1>3. CASE RoundBegins
  BY <1>1, <1>2, <1>3 DEF TypeOK, RoundBegins, NextRound
<1>4. CASE SchedRead
  <2>0. \/ sched' = Continue
        \/ \E p \in {"load", "mark", "retire"}, b \in BOOLEAN :
             sched' = [sched EXCEPT !.pc = p, !.del = b]
    BY <1>4 DEF SchedRead
  <2>1. SchedOK'
    BY <1>0, <1>4, <2>0, FieldsTyped DEF SchedRead, SchedOK, Continue
  <2>2. RestOK'
    BY <1>0, <1>4, FieldsTyped DEF SchedRead, RestOK, Released, Announce, Happens
  <2>3. UNCHANGED <<loop, task, waiter, stops, asked, spent>>
    BY <1>4 DEF SchedRead
  <2>4. LoopsOK' /\ TasksOK' /\ WaitOK'
    BY <1>0, <2>3 DEF LoopsOK, TasksOK, WaitOK
  <2> QED BY <1>0, <2>1, <2>2, <2>4, TypePartsNext
<1>5. CASE SchedLoads
  <2>1. SchedOK'
    BY <1>0, <1>2, <1>5, FieldsTyped DEF SchedLoads, SchedOK, Continue
  <2>2. LoopsOK'
    BY <1>0, <1>5 DEF SchedLoads, LoopsOK, LoopRows, IdleLoop, NoWork
  <2>3. RestOK'
    BY <1>0, <1>2, <1>5 DEF SchedLoads, RestOK, Announce
  <2>4. WaitOK'
    BY <1>0, <1>5 DEF SchedLoads, WaitOK, Notified
  <2>5. TasksOK'
    BY <1>0, <1>5 DEF SchedLoads, TasksOK
  <2> QED BY <1>0, <2>1, <2>2, <2>3, <2>4, <2>5, TypePartsNext
<1>6. CASE SchedLoadFails
  BY <1>1, <1>2, <1>6 DEF TypeOK, SchedLoadFails, LoadFailed, Released, Continue, NextRound,
       Happens
<1>7. CASE SchedMarksIdle
  BY <1>1, <1>2, <1>7 DEF TypeOK, SchedMarksIdle, Marked, Continue, NextRound
<1>8. CASE RetireBegins
  <2>1. SchedOK'
    BY <1>0, <1>8, FieldsTyped DEF RetireBegins, SchedOK, SchedRows, NextRound, Continue
  <2>2. RestOK'
    BY <1>0, <1>8, FieldsTyped DEF RetireBegins, RestOK, Released, Announce, Happens
  <2>3. UNCHANGED <<loop, task, waiter, stops, asked, spent>>
    BY <1>8 DEF RetireBegins
  <2>4. LoopsOK' /\ TasksOK' /\ WaitOK'
    BY <1>0, <2>3 DEF LoopsOK, TasksOK, WaitOK
  <2> QED BY <1>0, <2>1, <2>2, <2>4, TypePartsNext
<1>9. CASE RetireChecks
  <2>1. SchedOK'
    BY <1>0, <1>9, FieldsTyped DEF RetireChecks, SchedOK, SchedRows, NextRound, Continue
  <2>2. RestOK'
    BY <1>0, <1>9, FieldsTyped DEF RetireChecks, RestOK, Released, Announce, Happens
  <2>3. TasksOK'
    BY <1>0, <1>9, FieldsTyped DEF RetireChecks, TasksOK, TaskRows, NoTask, NoWork
  <2>4. UNCHANGED <<loop, waiter, stops, asked, spent>>
    BY <1>9 DEF RetireChecks
  <2>5. LoopsOK' /\ WaitOK'
    BY <1>0, <2>4 DEF LoopsOK, WaitOK
  <2> QED BY <1>0, <2>1, <2>2, <2>3, <2>5, TypePartsNext
<1>10. CASE RetireCloses
  BY <1>1, <1>2, <1>10 DEF TypeOK, RetireCloses, Continue, NextRound
<1>11. CASE RetireDeletes
  BY <1>1, <1>2, <1>11 DEF TypeOK, RetireDeletes, DeleteAgent, Continue, NextRound
<1>12. CASE WaitCheck
  BY <1>1, <1>2, <1>12 DEF TypeOK, WaitCheck, NoWaiter
<1>13. CASE WaitSleeps
  BY <1>1, <1>2, <1>13 DEF TypeOK, WaitSleeps, Sleep
<1>14. CASE WaitWakes
  BY <1>1, <1>2, <1>14 DEF TypeOK, WaitWakes
<1>15. CASE DeliverEvents
  BY <1>1, <1>2, <1>15 DEF TypeOK, DeliverEvents, Notified
<1>16. CASE AdmitRequests
  <2>1. RestOK'
    BY <1>0, <1>16, FieldsTyped DEF AdmitRequests, RestOK, Released, Announce, Happens
  <2>2. UNCHANGED <<loop, task, sched, waiter, stops, asked, spent>>
    BY <1>16 DEF AdmitRequests
  <2>3. LoopsOK' /\ TasksOK' /\ SchedOK' /\ WaitOK'
    BY <1>0, <2>2 DEF LoopsOK, TasksOK, SchedOK, WaitOK
  <2> QED BY <1>0, <2>1, <2>3, TypePartsNext
<1>17. CASE WaitBegin
  BY <1>1, <1>2, <1>17 DEF TypeOK, WaitBegin, Happens
<1>18. CASE RootCloses
  BY <1>1, <1>2, <1>18 DEF TypeOK, RootCloses, Happens, Closing, NoWaiter
<1>19. CASE RootClosed
  BY <1>1, <1>2, <1>19 DEF TypeOK, RootClosed
<1>20. CASE RootReopens
  BY <1>1, <1>2, <1>20 DEF TypeOK, RootReopens
<1>21. CASE Crash
  <2>1. LoopsOK'
    BY <1>0, <1>21, FieldsTyped DEF Crash, LoopsOK, LoopRows, NoLoop, IdleLoop, NoWork
  <2>2. TasksOK'
    BY <1>0, <1>21, FieldsTyped DEF Crash, TasksOK, TaskRows, NoTask, NoWork
  <2>3. SchedOK'
    BY <1>0, <1>21, FieldsTyped DEF Crash, SchedOK, SchedRows, NextRound, Continue
  <2>4. RestOK'
    BY <1>0, <1>21, FieldsTyped DEF Crash, RestOK, Released, Announce, Happens
  <2>5. WaitOK'
    BY <1>0, <1>00, <1>21 DEF Crash, WaitOK, Notified, NoWaiter, Announce
  <2> QED BY <1>0, <2>1, <2>2, <2>3, <2>4, <2>5, TypePartsNext
<1>22. ASSUME NEW a \in Agents, SchedResolve(a) PROVE TypeOK'
  BY <1>1, <1>2, <1>22 DEF TypeOK, SchedResolve
<1>23. ASSUME NEW a \in Agents, LoopWakes(a) PROVE TypeOK'
  BY <1>1, <1>2, <1>23 DEF TypeOK, LoopWakes
<1>24. ASSUME NEW a \in Agents, LoopScans(a) PROVE TypeOK'
  <2>0. Candidate(a) # NoWork => Candidate(a) \in Works
    BY HeadIsPending DEF Candidate, HeadReady, OfAgent, InSt
  <2>1. LoopsOK'
    BY <1>0, <1>24, <2>0 DEF LoopScans, LoopsOK, LoopRows, NoLoop, IdleLoop, NoWork
  <2>2. RestOK'
    BY <1>0, <1>24, FieldsTyped DEF LoopScans, RestOK, Released, Announce, Happens
  <2>3. UNCHANGED <<task, sched, waiter, stops, asked, spent>>
    BY <1>24 DEF LoopScans
  <2>4. TasksOK' /\ SchedOK' /\ WaitOK'
    BY <1>0, <2>3 DEF TasksOK, SchedOK, WaitOK
  <2> QED BY <1>0, <2>1, <2>2, <2>4, TypePartsNext
<1>25. ASSUME NEW a \in Agents, LoopHookPasses(a) PROVE TypeOK'
  BY <1>1, <1>2, <1>25 DEF TypeOK, LoopHookPasses
<1>26. ASSUME NEW a \in Agents, LoopInstalls(a) PROVE TypeOK'
  BY <1>1, <1>2, <1>26 DEF TypeOK, LoopInstalls, NoWork
<1>27. ASSUME NEW a \in Agents, LoopEnds(a) PROVE TypeOK'
  BY <1>1, <1>2, <1>27 DEF TypeOK, LoopEnds, NoLoop, Released, NoWork
<1>28. ASSUME NEW a \in Agents, TaskStarts(a) PROVE TypeOK'
  <2>1. TasksOK'
    BY <1>0, <1>28, FieldsTyped DEF TaskStarts, TasksOK, TaskRows, NoTask, NoWork
  <2>2. RestOK'
    BY <1>0, <1>28, FieldsTyped DEF TaskStarts, RestOK, Released, Announce, Happens
  <2>3. UNCHANGED <<loop, sched, waiter, stops, asked, spent>>
    BY <1>28 DEF TaskStarts
  <2>4. LoopsOK' /\ SchedOK' /\ WaitOK'
    BY <1>0, <2>3 DEF LoopsOK, SchedOK, WaitOK
  <2> QED BY <1>0, <2>1, <2>2, <2>4, TypePartsNext
<1>29. ASSUME NEW a \in Agents, TaskCompletes(a) PROVE TypeOK'
  BY <1>1, <1>2, <1>29 DEF TypeOK, TaskCompletes, Announce, TaskTo
<1>30. ASSUME NEW a \in Agents, TaskInterrupts(a) PROVE TypeOK'
  <2>1. TasksOK'
    BY <1>0, <1>30, FieldsTyped DEF TaskInterrupts, TasksOK
  <2>2. RestOK'
    BY <1>0, <1>30 DEF TaskInterrupts, RestOK, Announce
  <2>3. UNCHANGED <<loop, sched, waiter, stops, asked>>
    BY <1>30 DEF TaskInterrupts
  <2>4. spent' \in 0 .. MaxEvents
    BY <1>0, <1>00, <1>30 DEF TaskInterrupts, WaitOK
  <2>5. LoopsOK' /\ SchedOK' /\ WaitOK'
    BY <1>0, <2>3, <2>4 DEF LoopsOK, SchedOK, WaitOK
  <2> QED BY <1>0, <2>1, <2>2, <2>5, TypePartsNext
<1>31. ASSUME NEW a \in Agents, TaskStale(a) PROVE TypeOK'
  <2>1. TasksOK'
    BY <1>0, <1>31, FieldsTyped DEF TaskStale, TasksOK, TaskRows, NoTask, NoWork
  <2>2. UNCHANGED <<loop, sched, row, idle, root, host, wake, occupied, due, waiter, stops, asked, spent>>
    BY <1>31 DEF TaskStale
  <2>3. LoopsOK' /\ SchedOK' /\ RestOK' /\ WaitOK'
    BY <1>0, <2>2 DEF LoopsOK, SchedOK, RestOK, WaitOK
  <2> QED BY <1>0, <2>1, <2>3, TypePartsNext
<1>32. ASSUME NEW a \in Agents, TaskResumes(a) PROVE TypeOK'
  <2>1. TasksOK'
    BY <1>0, <1>32, FieldsTyped DEF TaskResumes, TasksOK
  <2>2. RestOK'
    BY <1>0, <1>32 DEF TaskResumes, RestOK
  <2>3. UNCHANGED <<loop, sched, waiter, stops, asked, spent>>
    BY <1>32 DEF TaskResumes
  <2>4. LoopsOK' /\ SchedOK' /\ WaitOK'
    BY <1>0, <2>3 DEF LoopsOK, SchedOK, WaitOK
  <2> QED BY <1>0, <2>1, <2>2, <2>4, TypePartsNext
<1>33. ASSUME NEW a \in Agents, TaskReleases(a) PROVE TypeOK'
  <2>1. TasksOK'
    BY <1>0, <1>33, FieldsTyped DEF TaskReleases, TasksOK, TaskRows, NoTask, NoWork
  <2>2. RestOK'
    BY <1>0, <1>33, FieldsTyped DEF TaskReleases, RestOK, Released, Announce, Happens
  <2>3. UNCHANGED <<loop, sched, waiter, stops, asked, spent>>
    BY <1>33 DEF TaskReleases
  <2>4. LoopsOK' /\ SchedOK' /\ WaitOK'
    BY <1>0, <2>3 DEF LoopsOK, SchedOK, WaitOK
  <2> QED BY <1>0, <2>1, <2>2, <2>4, TypePartsNext
<1>34. ASSUME NEW a \in Agents, TaskSettles(a) PROVE TypeOK'
  <2>1. TasksOK'
    BY <1>0, <1>34 DEF TaskSettles, TasksOK, TaskRows, NoTask
  <2>2. RestOK'
    BY <1>0, <1>34 DEF TaskSettles, RestOK, Marked
  <2>3. WaitOK'
    BY <1>0, <1>34 DEF TaskSettles, WaitOK, Notified
  <2>4. UNCHANGED <<loop, sched>>
    BY <1>34 DEF TaskSettles
  <2>5. LoopsOK' /\ SchedOK'
    BY <1>0, <2>4 DEF LoopsOK, SchedOK
  <2> QED BY <1>0, <2>1, <2>2, <2>3, <2>5, TypePartsNext
<1>35. ASSUME NEW a \in Agents, HostClosed(a) PROVE TypeOK'
  BY <1>1, <1>2, <1>35 DEF TypeOK, HostClosed, Released
<1>36. ASSUME NEW a \in Agents, LoopPutsBack(a) PROVE TypeOK'
  BY <1>1, <1>2, <1>36 DEF TypeOK, LoopPutsBack, NoCatalog, Overtaken,
                          Happens, Released, IdleLoop, NoWork
<1>37. ASSUME NEW a \in Agents, LoopModelRejects(a) PROVE TypeOK'
  BY <1>1, <1>2, <1>37 DEF TypeOK, LoopModelRejects, Happens, Released, IdleLoop, Announce,
       NoWork
<1>38. ASSUME NEW a \in Agents, LoopHookBlocks(a) PROVE TypeOK'
  <2>1. LoopsOK'
    BY <1>0, <1>38, FieldsTyped DEF LoopHookBlocks, LoopsOK, LoopRows, NoLoop, IdleLoop, NoWork
  <2>2. RestOK'
    BY <1>0, <1>38, FieldsTyped DEF LoopHookBlocks, RestOK, Released, Announce, Happens
  <2>3. WaitOK'
    BY <1>0, <1>00, <1>38 DEF LoopHookBlocks, WaitOK, Notified, NoWaiter, Announce
  <2>4. UNCHANGED <<task, sched>>
    BY <1>38 DEF LoopHookBlocks
  <2>5. TasksOK' /\ SchedOK'
    BY <1>0, <2>4 DEF TasksOK, SchedOK
  <2> QED BY <1>0, <2>1, <2>2, <2>3, <2>5, TypePartsNext
<1>39. ASSUME NEW a \in Agents, LoopHookRaises(a) PROVE TypeOK'
  BY <1>1, <1>2, <1>39 DEF TypeOK, LoopHookRaises, Happens, Released, NoWork
<1>40. ASSUME NEW a \in Agents, TaskStartRejected(a) PROVE TypeOK'
  BY <1>1, <1>2, <1>40 DEF TypeOK, TaskStartRejected, Happens, Announce, TaskTo
<1>41. ASSUME NEW a \in Agents, TaskSuspends(a) PROVE TypeOK'
  <2>1. TasksOK'
    BY <1>0, <1>41, FieldsTyped DEF TaskSuspends, TasksOK, TaskRows, NoTask, NoWork
  <2>2. RestOK'
    BY <1>0, <1>41, FieldsTyped DEF TaskSuspends, RestOK, Released, Announce, Happens
  <2>3. WaitOK'
    BY <1>0, <1>00, <1>41 DEF TaskSuspends, WaitOK, Notified, NoWaiter, Announce
  <2>4. UNCHANGED <<loop, sched>>
    BY <1>41 DEF TaskSuspends
  <2>5. LoopsOK' /\ SchedOK'
    BY <1>0, <2>4 DEF LoopsOK, SchedOK
  <2> QED BY <1>0, <2>1, <2>2, <2>3, <2>5, TypePartsNext
<1>42. ASSUME NEW a \in Agents, WriterLost(a) PROVE TypeOK'
  BY <1>1, <1>2, <1>42 DEF TypeOK, WriterLost, Happens
<1>43. ASSUME NEW a \in Agents, StopRequests(a) PROVE TypeOK'
  <2>1. RestOK'
    BY <1>0, <1>43, FieldsTyped DEF StopRequests, RestOK, Released, Announce, Happens
  <2>2. WaitOK'
    BY <1>0, <1>00, <1>43 DEF StopRequests, StopTargets, OfAgent, InSt, WaitOK, Notified,
         NoWaiter, Announce
  <2>3. UNCHANGED <<loop, task, sched>>
    BY <1>43 DEF StopRequests
  <2>4. LoopsOK' /\ TasksOK' /\ SchedOK'
    BY <1>0, <2>3 DEF LoopsOK, TasksOK, SchedOK
  <2> QED BY <1>0, <2>1, <2>2, <2>4, TypePartsNext
<1>44. ASSUME NEW a \in Agents, AgeIdle(a) PROVE TypeOK'
  BY <1>1, <1>2, <1>44 DEF TypeOK, AgeIdle, Happens
<1>45. ASSUME NEW w \in Works, StopActiveWork(w) PROVE TypeOK'
  <2>1. TasksOK'
    BY <1>0, <1>45, FieldsTyped DEF StopActiveWork, TasksOK, TaskRows, NoTask, NoWork
  <2>2. WaitOK'
    BY <1>0, <1>00, <1>45 DEF StopActiveWork, WaitOK, Notified, NoWaiter, Announce
  <2>3. UNCHANGED <<loop, sched, row, idle, root, host, wake, occupied, due>>
    BY <1>45 DEF StopActiveWork
  <2>4. LoopsOK' /\ SchedOK' /\ RestOK'
    BY <1>0, <2>3 DEF LoopsOK, SchedOK, RestOK
  <2> QED BY <1>0, <2>1, <2>2, <2>4, TypePartsNext
<1> QED BY <1>3, <1>4, <1>5, <1>6, <1>7, <1>8, <1>9, <1>10, <1>11, <1>12, <1>13, <1>14,
     <1>15, <1>16, <1>17, <1>18, <1>19, <1>20, <1>21, <1>22, <1>23, <1>24, <1>25, <1>26,
     <1>27, <1>28, <1>29, <1>30, <1>31, <1>32, <1>33, <1>34, <1>35, <1>36, <1>37, <1>38,
     <1>39, <1>40, <1>41, <1>42, <1>43, <1>44, <1>45
    DEF Next, Scheduler, Waiting, Delivery, Execution, Faults

-----------------------------------------------------------------------------
(* Idle Agents                                                              *)

(* Works that go forward make no Agent busy and lose no result that an     *)
(* idle Agent still owes.                                                   *)
LEMMA IdleOutlivesWorks ==
    ASSUME AgentInv, Evolves(work, work'), idle' = idle
    PROVE  /\ IdleAgentHasNoWork'
           /\ \A a \in Agents : idle[a] = "delete" /\ ResultsTaken(a) => ResultsTaken(a)'
<1>1. work \in WorkRows /\ IdleAgentHasNoWork
  BY DEF AgentInv, WorksInv, Sound, IdleInv
<1>2. \A w \in Works :
        /\ work'[w].agent = work[w].agent
        /\ work'[w].deps \subseteq work[w].deps /\ work[w].deps \subseteq Works
        /\ work'[w].st = "PENDING" => work[w].st = "PENDING"
        /\ work'[w].st \in Unsettled => work[w].st \in Unsettled
        /\ work'[w].st = "COMPLETED" /\ work[w].st # "COMPLETED" => work[w].st \in Unsettled
  <2>1. \A w \in Works : work[w].deps \subseteq Works
    BY <1>1 DEF WorkRows, WorkRecords
  <2>2. \A w \in Works : work'[w].agent = work[w].agent /\ work'[w].deps \subseteq work[w].deps
    BY DEF Evolves
  <2>3. "RUNNING" \in Unsettled
    BY DEF Unsettled
  <2> QED BY <1>1, <2>1, <2>2, <2>3, EvolutionIsForward
<1>3. \A a \in Agents : Busy(a)' => Busy(a)
  BY <1>2 DEF Busy, OfAgent, InSt
<1>4. IdleAgentHasNoWork'
  BY <1>1, <1>3 DEF IdleAgentHasNoWork
<1>5. ASSUME NEW a \in Agents, idle[a] = "delete", ResultsTaken(a) PROVE ResultsTaken(a)'
  <2> SUFFICES ASSUME NEW w \in Works, work'[w].st = "PENDING", NEW d \in work'[w].deps,
                      work'[d].agent = a, work'[d].st = "COMPLETED"
               PROVE  FALSE
    BY DEF ResultsTaken, InSt
  <2>1. d \in Works /\ d \in work[w].deps /\ work[w].st = "PENDING"
    BY <1>2
  <2>2. work[d].agent = a /\ work[d].st # "COMPLETED"
    BY <1>2, <1>5, <2>1 DEF ResultsTaken, InSt
  <2>3. Busy(a)
    BY <1>2, <2>1, <2>2 DEF Busy, OfAgent, InSt
  <2> QED BY <1>1, <1>5, <2>3 DEF IdleAgentHasNoWork
<1> QED BY <1>4, <1>5

(* Idle Agents have no work, and a deletion under way takes no result.     *)
LEMMA IdleStep ==
    ASSUME AgentInv, Next
    PROVE  IdleInv'
<1>1. /\ TypeOK /\ IdleInv /\ HostsInv /\ WorksInv
      /\ work \in WorkRows
  BY DEF AgentInv, WorksInv, Sound
<1>2. ASSUME Evolves(work, work'), idle' = idle,
             \A a \in Agents : Deleting(a)' => Deleting(a),
             sched'.pc \in {"close", "delete"} /\ sched'.del => idle[sched'.a] = "delete",
             sched'.pc = "delete" => sched'.del
      PROVE  IdleInv'
  BY <1>1, <1>2, IdleOutlivesWorks DEF IdleInv, Deleting
<1>3. CASE AdmitRequests
  <2>1. sched' = sched
    BY <1>3 DEF AdmitRequests
  <2>2. ASSUME NEW a \in Agents, idle'[a] # "no", Busy(a)' PROVE FALSE
    <3>1. idle'[a] = idle[a]
      BY <1>1, <1>3, <2>2, AdmissionAdds
    <3>2. PICK w \in Works : work'[w].st \in Unsettled /\ work'[w].agent = a
      BY <2>2 DEF Busy, OfAgent, InSt
    <3>3. CASE work[w].st = "none"
      BY <1>1, <1>3, <2>2, <3>2, <3>3, AdmissionAdds DEF Unsettled
    <3>4. CASE work[w].st # "none"
      <4>1. work[w].agent = a /\ work[w].st \in Unsettled
        BY <1>1, <1>3, <3>2, <3>4, AdmissionAdds DEF Unsettled
      <4>2. Busy(a)
        BY <4>1 DEF Busy, OfAgent, InSt
      <4> QED BY <1>1, <2>2, <3>1, <4>2 DEF IdleInv, IdleAgentHasNoWork
    <3> QED BY <3>3, <3>4
  <2>3. \A a \in Agents : ResultsTaken(a)'
    BY <1>1, <1>3, AdmissionAdds DEF ResultsTaken, InSt
  <2>4. sched.pc \in {"close", "delete"} /\ sched.del => idle'[sched.a] = "delete"
    <3>1. sched.pc \in {"close", "delete"} => sched.a \in Agents /\ Retiring(sched.a)
      BY <1>1 DEF HostsInv, Retiring
    <3> QED BY <1>1, <1>3, <3>1, AdmissionAdds DEF IdleInv
  <2> QED BY <1>1, <2>1, <2>2, <2>3, <2>4 DEF IdleInv, IdleAgentHasNoWork
<1>4. ASSUME NEW a \in Agents, SchedResolve(a)
      PROVE  IdleInv'
  <2>1. Evolves(work, work') /\ idle' = idle /\ sched'.pc = "read"
    BY <1>1, <1>4, ResolvingEvolves DEF SchedResolve, WorksInv, TypeOK
  <2>2. ASSUME NEW b \in Agents PROVE ResultsTaken(b)'
    <3> SUFFICES ASSUME NEW w \in Works, work'[w].st = "PENDING", NEW d \in work'[w].deps,
                        work'[d].st = "COMPLETED"
                 PROVE  FALSE
      BY DEF ResultsTaken, InSt
    <3>1. work' = Resolved(work) /\ Sound(work, row) /\ d \in Works
      BY <1>1, <1>4, <2>1 DEF SchedResolve, WorksInv, Evolves, WorkRows, WorkRecords
    <3> QED BY <3>1, ResolvingEvolves
  <2> QED BY <2>1, <2>2, IdleOutlivesWorks DEF IdleInv
<1>5. CASE SchedMarksIdle
  BY <1>1, <1>5 DEF SchedMarksIdle, Marked, Continue, NextRound, IdleInv, IdleAgentHasNoWork,
     Deleting, HostsInv, TypeOK, Busy, OfAgent, InSt
<1>6. ASSUME NEW a \in Agents, TaskSettles(a)
      PROVE  IdleInv'
  <2>1. work' = work /\ sched' = sched /\ idle' = Marked(a)
    BY <1>6 DEF TaskSettles
  <2>2. \A b \in Agents : /\ idle'[b] = "delete" <=> idle[b] = "delete"
                          /\ idle'[b] # "no" => ~Busy(b)
    BY <1>1, <2>1 DEF IdleInv, IdleAgentHasNoWork, Marked, TypeOK
  <2>3. \A b \in Agents : Busy(b)' = Busy(b) /\ ResultsTaken(b)' = ResultsTaken(b)
    BY <2>1 DEF Busy, OfAgent, InSt, ResultsTaken
  <2>4. sched.pc # "next" => sched.a \in Agents
    BY <1>1 DEF HostsInv
  <2> QED BY <1>1, <2>1, <2>2, <2>3, <2>4 DEF IdleInv, IdleAgentHasNoWork, Deleting
<1>7. ASSUME NEW a \in Agents, AgeIdle(a)
      PROVE  IdleInv'
  <2>1. /\ work' = work /\ sched' = sched /\ sched.pc \notin {"read", "retire", "check"}
        /\ idle[a] \in {"fresh", "unload"} /\ \A b \in Agents : b # a => idle'[b] = idle[b]
    BY <1>1, <1>7 DEF AgeIdle, TypeOK
  <2>2. \A b \in Agents : Busy(b)' = Busy(b) /\ ResultsTaken(b)' = ResultsTaken(b)
    BY <2>1 DEF Busy, OfAgent, InSt, ResultsTaken
  <2>3. sched.pc \in {"close", "delete"} /\ sched.del => idle'[sched.a] = "delete" /\ sched.a # a
    BY <1>1, <2>1 DEF IdleInv, HostsInv
  <2>4. IdleAgentHasNoWork'
    BY <1>1, <2>1, <2>2 DEF IdleInv, IdleAgentHasNoWork
  <2>5. ASSUME NEW b \in Agents, Deleting(b)' PROVE ResultsTaken(b)
    <3>1. sched.pc \in {"close", "delete"} /\ sched.del /\ sched.a = b
      BY <2>1, <2>5 DEF Deleting
    <3> QED BY <1>1, <2>3, <3>1 DEF IdleInv, Deleting
  <2> QED BY <1>1, <2>1, <2>2, <2>3, <2>4, <2>5 DEF IdleInv
<1>8. CASE RetireDeletes
  <2>1. work' = work /\ sched'.pc = "next" /\ \A b \in Agents : idle'[b] \in {idle[b], "no"}
    BY <1>1, <1>8 DEF RetireDeletes, DeleteAgent, Continue, NextRound, TypeOK
  <2>2. \A b \in Agents : Busy(b)' = Busy(b)
    BY <2>1 DEF Busy, OfAgent, InSt
  <2> QED BY <1>1, <2>1, <2>2 DEF IdleInv, IdleAgentHasNoWork, Deleting
<1>9. CASE ~AdmitRequests /\ idle' = idle /\ (sched' = sched \/ sched'.pc = "next")
  BY <1>1, <1>2, <1>9, WorksEvolve DEF IdleInv, Deleting
<1>10. CASE SchedRead
  <2>1. work' = work /\ idle' = idle /\ sched.pc = "read"
    BY <1>10 DEF SchedRead
  <2>2. \/ sched' = Continue
        \/ \E p \in {"load", "mark", "retire"}, b \in BOOLEAN :
             sched' = [sched EXCEPT !.pc = p, !.del = b]
    BY <1>10 DEF SchedRead
  <2>3. sched'.pc = "next" \/ (sched'.pc \in {"load", "mark", "retire"} /\ sched'.a = sched.a)
    <3>1. SchedOK
      BY <1>1, TypeParts
    <3>2. CASE sched' = Continue
      BY <3>2 DEF Continue, NextRound
    <3>3. ASSUME NEW p \in {"load", "mark", "retire"}, NEW b \in BOOLEAN,
                 sched' = [sched EXCEPT !.pc = p, !.del = b]
          PROVE  sched'.pc = p /\ sched'.a = sched.a
      BY <3>1, <3>3 DEF SchedOK, SchedRows
    <3> QED BY <2>2, <3>2, <3>3
  <2>4. Evolves(work, work')
    BY <1>1, <2>1, SameWorksEvolve
  <2> QED BY <1>2, <2>1, <2>3, <2>4 DEF Deleting
<1>11. CASE RetireBegins
  BY <1>1, <1>2, <1>11, WorksEvolve, SameWorksEvolve DEF RetireBegins, Continue, NextRound,
       IdleInv, Deleting, TypeOK
<1>12. CASE RetireChecks
  BY <1>1, <1>2, <1>12, WorksEvolve, SameWorksEvolve DEF RetireChecks, StillIdle, Continue,
       NextRound, IdleInv, Deleting, TypeOK
<1>13. CASE RetireCloses
  BY <1>1, <1>2, <1>13, WorksEvolve, SameWorksEvolve DEF RetireCloses, Continue, NextRound,
       IdleInv, Deleting, TypeOK
<1>14. ASSUME RoundBegins \/ SchedLoads \/ SchedLoadFails \/ Crash
       PROVE  idle' = idle /\ sched'.pc = "next"
  BY <1>14 DEF RoundBegins, SchedLoads, SchedLoadFails, LoadFailed, Crash, Continue, NextRound
<1> QED BY <1>3, <1>4, <1>5, <1>6, <1>7, <1>8, <1>9, <1>10, <1>11, <1>12, <1>13, <1>14,
      IdleFrame, SchedFrame

-----------------------------------------------------------------------------
(* Host sessions                                                            *)

(* Host sessions, loops, tasks and the scheduler agree. *)
LEMMA HostsStep ==
    ASSUME AgentInv, Next
    PROVE  HostsInv'
<1>1. /\ HostsInv /\ LoopsOK /\ TasksOK /\ SchedOK /\ RestOK
      /\ host \in [Agents -> {"none", "live", "gated", "closing", "lost"}]
  BY TypeParts DEF AgentInv, RestOK
<1>2. ASSUME RoundBegins PROVE HostsInv'
  BY <1>1, <1>2 DEF HostsInv, LoopsOK, TasksOK, SchedOK, RestOK, RoundBegins, NextRound
<1>3. ASSUME SchedRead PROVE HostsInv'
  <2>1. UNCHANGED <<root, host, loop, task>> /\ sched.pc = "read" /\ sched.a \in Agents
    BY <1>1, <1>3 DEF SchedRead, HostsInv
  <2>2. ASSUME NEW p \in {"load", "mark", "retire"}, NEW b \in BOOLEAN,
               sched' = [sched EXCEPT !.pc = p, !.del = b]
        PROVE  sched'.pc = p /\ sched'.a = sched.a
    BY <1>1, <2>2 DEF SchedOK, SchedRows
  <2>3. CASE sched' = Continue
    BY <1>1, <2>1, <2>3 DEF HostsInv, Continue, NextRound
  <2>4. CASE sched' = [sched EXCEPT !.pc = "load", !.del = FALSE] /\ ~Live(sched.a) /\ root = "open"
    <3>1. host[sched.a] \in {"none", "lost"}
      BY <1>1, <2>1, <2>4 DEF HostsInv, Live
    <3> QED BY <1>1, <2>1, <2>2, <2>4, <3>1 DEF HostsInv
  <2>5. ASSUME NEW p \in {"mark", "retire"}, NEW b \in BOOLEAN,
               sched' = [sched EXCEPT !.pc = p, !.del = b]
        PROVE  HostsInv'
    BY <1>1, <2>1, <2>2, <2>5 DEF HostsInv
  <2>6. \/ sched' = Continue
        \/ sched' = [sched EXCEPT !.pc = "load", !.del = FALSE] /\ ~Live(sched.a) /\ root = "open"
        \/ \E p \in {"mark", "retire"}, b \in BOOLEAN : sched' = [sched EXCEPT !.pc = p, !.del = b]
    BY <1>3 DEF SchedRead
  <2> QED BY <2>3, <2>4, <2>5, <2>6
<1>4. ASSUME SchedLoads PROVE HostsInv'
  BY <1>1, <1>4 DEF HostsInv, LoopsOK, TasksOK, SchedOK, RestOK, SchedLoads, Continue,
       NextRound,
     IdleLoop
<1>5. ASSUME SchedLoadFails PROVE HostsInv'
  BY <1>1, <1>5 DEF HostsInv, LoopsOK, TasksOK, SchedOK, RestOK, SchedLoadFails, LoadFailed,
       Continue,
     NextRound, LoadFailed
<1>6. ASSUME SchedMarksIdle PROVE HostsInv'
  BY <1>1, <1>6 DEF HostsInv, LoopsOK, TasksOK, SchedOK, RestOK, SchedMarksIdle, Continue,
       NextRound
<1>7. ASSUME RetireBegins PROVE HostsInv'
  <2> DEFINE a == sched.a
  <2>1. UNCHANGED <<root, loop, task>> /\ sched.pc = "retire" /\ a \in Agents
    BY <1>1, <1>7 DEF RetireBegins, HostsInv
  <2>2. CASE sched' = Continue /\ host' = host
    BY <1>1, <2>1, <2>2 DEF HostsInv, Continue, NextRound
  <2>3. CASE /\ sched' = [sched EXCEPT !.pc = "check"]
             /\ host' = host \/ (Live(a) /\ host' = [host EXCEPT ![a] = "gated"])
    <3>1. sched'.pc = "check" /\ sched'.a = a
      BY <1>1, <2>3 DEF SchedOK, SchedRows
    <3>2. \A b \in Agents : host'[b] = host[b] \/ (host'[b] = "gated" /\ host[b] # "none")
      BY <1>1, <2>1, <2>3 DEF Live
    <3> HIDE DEF a
    <3> QED BY <1>1, <2>1, <3>1, <3>2 DEF HostsInv
  <2> QED BY <1>7, <2>2, <2>3 DEF RetireBegins
<1>8. ASSUME RetireChecks PROVE HostsInv'
  BY <1>1, <1>8 DEF HostsInv, LoopsOK, TasksOK, SchedOK, RestOK, RetireChecks, Continue,
       NextRound
<1>9. ASSUME RetireCloses PROVE HostsInv'
  BY <1>1, <1>9 DEF HostsInv, LoopsOK, TasksOK, SchedOK, RestOK, RetireCloses, Continue,
       NextRound
<1>10. ASSUME RetireDeletes PROVE HostsInv'
  BY <1>1, <1>10 DEF HostsInv, LoopsOK, TasksOK, SchedOK, RestOK, RetireDeletes,
       DeleteAgent, Continue,
     NextRound, DeleteAgent
<1>11. ASSUME NEW a \in Agents, SchedResolve(a) PROVE HostsInv'
  BY <1>1, <1>11 DEF HostsInv, LoopsOK, TasksOK, SchedOK, RestOK, SchedResolve
<1>12. ASSUME NEW a \in Agents, HostClosed(a) PROVE HostsInv'
  BY <1>1, <1>12 DEF HostsInv, LoopsOK, TasksOK, SchedOK, RestOK, HostClosed
<1>13. ASSUME NEW a \in Agents, WriterLost(a) PROVE HostsInv'
  BY <1>1, <1>13 DEF HostsInv, LoopsOK, TasksOK, SchedOK, RestOK, WriterLost, Live
<1>14. ASSUME RootCloses PROVE HostsInv'
  BY <1>1, <1>14 DEF HostsInv, LoopsOK, TasksOK, SchedOK, RestOK, RootCloses, Closing, Live
<1>15. ASSUME RootClosed PROVE HostsInv'
  BY <1>1, <1>15 DEF HostsInv, LoopsOK, TasksOK, SchedOK, RestOK, RootClosed
<1>16. ASSUME RootReopens PROVE HostsInv'
  BY <1>1, <1>16 DEF HostsInv, LoopsOK, TasksOK, SchedOK, RestOK, RootReopens
<1>17. ASSUME Crash PROVE HostsInv'
  BY <1>1, <1>17 DEF HostsInv, LoopsOK, TasksOK, SchedOK, RestOK, Crash, NextRound, NoLoop,
       NoTask
<1>18. ASSUME NEW a \in Agents, LoopWakes(a) PROVE HostsInv'
  BY <1>1, <1>18 DEF HostsInv, LoopsOK, TasksOK, SchedOK, RestOK, LoopWakes, Live
<1>19. ASSUME NEW a \in Agents, LoopScans(a) PROVE HostsInv'
  BY <1>1, <1>19 DEF HostsInv, LoopsOK, TasksOK, SchedOK, RestOK, LoopScans, Live
<1>20. ASSUME NEW a \in Agents, LoopHookPasses(a) PROVE HostsInv'
  BY <1>1, <1>20 DEF HostsInv, LoopsOK, TasksOK, SchedOK, RestOK, LoopHookPasses, Live
<1>21. ASSUME NEW a \in Agents, LoopInstalls(a) PROVE HostsInv'
  BY <1>1, <1>21 DEF HostsInv, LoopsOK, TasksOK, SchedOK, RestOK, LoopInstalls, Live
<1>22. ASSUME NEW a \in Agents, LoopEnds(a) PROVE HostsInv'
  BY <1>1, <1>22 DEF HostsInv, LoopsOK, TasksOK, SchedOK, RestOK, LoopEnds, NoLoop
<1>23. ASSUME NEW a \in Agents, LoopPutsBack(a) PROVE HostsInv'
  BY <1>1, <1>23 DEF HostsInv, LoopsOK, TasksOK, SchedOK, RestOK,
                          LoopPutsBack, NoCatalog, Overtaken, Live
<1>24. ASSUME NEW a \in Agents, LoopModelRejects(a) PROVE HostsInv'
  BY <1>1, <1>24 DEF HostsInv, LoopsOK, TasksOK, SchedOK, RestOK, LoopModelRejects, Live
<1>25. ASSUME NEW a \in Agents, LoopHookBlocks(a) PROVE HostsInv'
  BY <1>1, <1>25 DEF HostsInv, LoopsOK, TasksOK, SchedOK, RestOK, LoopHookBlocks, Live
<1>26. ASSUME NEW a \in Agents, LoopHookRaises(a) PROVE HostsInv'
  BY <1>1, <1>26 DEF HostsInv, LoopsOK, TasksOK, SchedOK, RestOK, LoopHookRaises, Live
<1>27. ASSUME NEW a \in Agents, TaskStarts(a) PROVE HostsInv'
  BY <1>1, <1>27 DEF HostsInv, LoopsOK, TasksOK, SchedOK, RestOK, TaskStarts, TaskTo
<1>28. ASSUME NEW a \in Agents, TaskCompletes(a) PROVE HostsInv'
  BY <1>1, <1>28 DEF HostsInv, LoopsOK, TasksOK, SchedOK, RestOK, TaskCompletes, TaskTo
<1>29. ASSUME NEW a \in Agents, TaskInterrupts(a) PROVE HostsInv'
  BY <1>1, <1>29 DEF HostsInv, LoopsOK, TasksOK, SchedOK, RestOK, TaskInterrupts, TaskTo
<1>30. ASSUME NEW a \in Agents, TaskStale(a) PROVE HostsInv'
  BY <1>1, <1>30 DEF HostsInv, LoopsOK, TasksOK, SchedOK, RestOK, TaskStale, TaskTo
<1>31. ASSUME NEW a \in Agents, TaskResumes(a) PROVE HostsInv'
  BY <1>1, <1>31 DEF HostsInv, LoopsOK, TasksOK, SchedOK, RestOK, TaskResumes, TaskTo
<1>32. ASSUME NEW a \in Agents, TaskReleases(a) PROVE HostsInv'
  BY <1>1, <1>32 DEF HostsInv, LoopsOK, TasksOK, SchedOK, RestOK, TaskReleases, TaskTo
<1>33. ASSUME NEW a \in Agents, TaskSettles(a) PROVE HostsInv'
  BY <1>1, <1>33 DEF HostsInv, LoopsOK, TasksOK, SchedOK, RestOK, TaskSettles, NoTask
<1>34. ASSUME NEW a \in Agents, TaskStartRejected(a) PROVE HostsInv'
  BY <1>1, <1>34 DEF HostsInv, LoopsOK, TasksOK, SchedOK, RestOK, TaskStartRejected, TaskTo
<1>35. ASSUME NEW a \in Agents, TaskSuspends(a) PROVE HostsInv'
  BY <1>1, <1>35 DEF HostsInv, LoopsOK, TasksOK, SchedOK, RestOK, TaskSuspends, TaskTo
<1>36. ASSUME NEW w \in Works, StopActiveWork(w) PROVE HostsInv'
  BY <1>1, <1>36 DEF HostsInv, LoopsOK, TasksOK, SchedOK, RestOK, StopActiveWork
<1>37. ASSUME UNCHANGED <<root, host, loop, task, sched>> PROVE HostsInv'
  BY <1>1, <1>37 DEF HostsInv
<1> QED BY <1>2, <1>3, <1>4, <1>5, <1>6, <1>7, <1>8, <1>9, <1>10, <1>11, <1>12, <1>13,
     <1>14, <1>15, <1>16, <1>17, <1>18, <1>19, <1>20, <1>21, <1>22, <1>23, <1>24, <1>25,
     <1>26, <1>27, <1>28, <1>29, <1>30, <1>31, <1>32, <1>33, <1>34, <1>35, <1>36, <1>37,
      SchedFrame, RootFrame, HostFrame, LoopFrame, TaskFrame

-----------------------------------------------------------------------------
(* Tasks                                                                    *)

(* Loops and tasks hold their slots. *)
LEMMA HeldSlotsStep ==
    ASSUME AgentInv, Next
    PROVE  HeldSlots'
<1>1. /\ HostsInv /\ HeldSlots /\ LoopsOK /\ TasksOK /\ NoWork \notin Works
      /\ host \in [Agents -> {"none", "live", "gated", "closing", "lost"}]
  BY TypeParts DEF AgentInv, TasksInv, RestOK, NoWork, Works
<1>2. ASSUME SchedRead PROVE HeldSlots'
  BY <1>1, <1>2 DEF HeldSlots, HostsInv, Live, LoopsOK, LoopRows, TasksOK, TaskRows, SchedRead,
     MayAcquire
<1>3. ASSUME SchedLoads PROVE HeldSlots'
  BY <1>1, <1>3 DEF HeldSlots, HostsInv, Live, LoopsOK, LoopRows, TasksOK, TaskRows, SchedLoads,
     IdleLoop
<1>4. ASSUME SchedLoadFails PROVE HeldSlots'
  BY <1>1, <1>4 DEF HeldSlots, HostsInv, Live, LoopsOK, LoopRows, TasksOK, TaskRows,
       SchedLoadFails,
     LoadFailed, Released, LoadFailed
<1>5. ASSUME RetireBegins PROVE HeldSlots'
  BY <1>1, <1>5 DEF HeldSlots, HostsInv, Live, LoopsOK, LoopRows, TasksOK, TaskRows,
       RetireBegins
<1>6. ASSUME RetireChecks PROVE HeldSlots'
  BY <1>1, <1>6 DEF HeldSlots, HostsInv, Live, LoopsOK, LoopRows, TasksOK, TaskRows,
       RetireChecks,
     StillIdle
<1>7. ASSUME NEW a \in Agents, LoopWakes(a) PROVE HeldSlots'
  BY <1>1, <1>7 DEF HeldSlots, HostsInv, Live, LoopsOK, LoopRows, TasksOK, TaskRows, LoopWakes
<1>8. ASSUME NEW a \in Agents, LoopScans(a) PROVE HeldSlots'
  BY <1>1, <1>8 DEF HeldSlots, HostsInv, Live, LoopsOK, LoopRows, TasksOK, TaskRows, LoopScans,
     IdleLoop, Released, MayAcquire
<1>9. ASSUME NEW a \in Agents, LoopHookPasses(a) PROVE HeldSlots'
  BY <1>1, <1>9 DEF HeldSlots, HostsInv, Live, LoopsOK, LoopRows, TasksOK, TaskRows,
       LoopHookPasses
<1>10. ASSUME NEW a \in Agents, LoopInstalls(a) PROVE HeldSlots'
  BY <1>1, <1>10 DEF HeldSlots, HostsInv, Live, LoopsOK, LoopRows, TasksOK, TaskRows,
       LoopInstalls
<1>11. ASSUME NEW a \in Agents, LoopEnds(a) PROVE HeldSlots'
  BY <1>1, <1>11 DEF HeldSlots, HostsInv, Live, LoopsOK, LoopRows, TasksOK, TaskRows,
       LoopEnds, NoLoop,
     Released
<1>12. ASSUME NEW a \in Agents, LoopPutsBack(a) PROVE HeldSlots'
  BY <1>1, <1>12 DEF HeldSlots, HostsInv, Live, LoopsOK, LoopRows, TasksOK, TaskRows,
       LoopPutsBack, NoCatalog, Overtaken,
     Released, IdleLoop
<1>13. ASSUME NEW a \in Agents, LoopModelRejects(a) PROVE HeldSlots'
  BY <1>1, <1>13 DEF HeldSlots, HostsInv, Live, LoopsOK, LoopRows, TasksOK, TaskRows,
       LoopModelRejects,
     Released, IdleLoop
<1>14. ASSUME NEW a \in Agents, LoopHookBlocks(a) PROVE HeldSlots'
  BY <1>1, <1>14 DEF HeldSlots, HostsInv, Live, LoopsOK, LoopRows, TasksOK, TaskRows,
       LoopHookBlocks,
     Released
<1>15. ASSUME NEW a \in Agents, LoopHookRaises(a) PROVE HeldSlots'
  BY <1>1, <1>15 DEF HeldSlots, HostsInv, Live, LoopsOK, LoopRows, TasksOK, TaskRows,
       LoopHookRaises,
     Released
<1>16. ASSUME NEW a \in Agents, TaskStarts(a) PROVE HeldSlots'
  BY <1>1, <1>16 DEF HeldSlots, HostsInv, Live, LoopsOK, LoopRows, TasksOK, TaskRows,
       TaskStarts, TaskTo
<1>17. ASSUME NEW a \in Agents, TaskCompletes(a) PROVE HeldSlots'
  BY <1>1, <1>17 DEF HeldSlots, HostsInv, Live, LoopsOK, LoopRows, TasksOK, TaskRows,
       TaskCompletes,
     TaskTo
<1>18. ASSUME NEW a \in Agents, TaskInterrupts(a) PROVE HeldSlots'
  BY <1>1, <1>18 DEF HeldSlots, HostsInv, Live, LoopsOK, LoopRows, TasksOK, TaskRows,
       TaskInterrupts,
     TaskTo
<1>19. ASSUME NEW a \in Agents, TaskStale(a) PROVE HeldSlots'
  BY <1>1, <1>19 DEF HeldSlots, HostsInv, Live, LoopsOK, LoopRows, TasksOK, TaskRows,
       TaskStale, TaskTo
<1>20. ASSUME NEW a \in Agents, TaskResumes(a) PROVE HeldSlots'
  BY <1>1, <1>20 DEF HeldSlots, HostsInv, Live, LoopsOK, LoopRows, TasksOK, TaskRows,
       TaskResumes, TaskTo
<1>21. ASSUME NEW a \in Agents, TaskReleases(a) PROVE HeldSlots'
  BY <1>1, <1>21 DEF HeldSlots, HostsInv, Live, LoopsOK, LoopRows, TasksOK, TaskRows,
       TaskReleases,
     TaskTo, Released
<1>22. ASSUME NEW a \in Agents, TaskSettles(a) PROVE HeldSlots'
  BY <1>1, <1>22 DEF HeldSlots, HostsInv, Live, LoopsOK, LoopRows, TasksOK, TaskRows,
       TaskSettles, NoTask
<1>23. ASSUME NEW a \in Agents, TaskStartRejected(a) PROVE HeldSlots'
  BY <1>1, <1>23 DEF HeldSlots, HostsInv, Live, LoopsOK, LoopRows, TasksOK, TaskRows,
       TaskStartRejected,
     TaskTo
<1>24. ASSUME NEW a \in Agents, TaskSuspends(a) PROVE HeldSlots'
  BY <1>1, <1>24 DEF HeldSlots, HostsInv, Live, LoopsOK, LoopRows, TasksOK, TaskRows,
       TaskSuspends,
     TaskTo, Released
<1>25. ASSUME NEW w \in Works, StopActiveWork(w) PROVE HeldSlots'
  BY <1>1, <1>25 DEF HeldSlots, HostsInv, Live, LoopsOK, LoopRows, TasksOK, TaskRows,
       StopActiveWork
<1>26. ASSUME NEW a \in Agents, HostClosed(a) PROVE HeldSlots'
  BY <1>1, <1>26 DEF HeldSlots, HostsInv, Live, LoopsOK, LoopRows, TasksOK, TaskRows,
       HostClosed,
     Released
<1>27. ASSUME NEW a \in Agents, WriterLost(a) PROVE HeldSlots'
  BY <1>1, <1>27 DEF HeldSlots, HostsInv, Live, LoopsOK, LoopRows, TasksOK, TaskRows, WriterLost
<1>28. ASSUME RootCloses PROVE HeldSlots'
  BY <1>1, <1>28 DEF HeldSlots, HostsInv, Live, LoopsOK, LoopRows, TasksOK, TaskRows,
       RootCloses, Closing
<1>29. ASSUME Crash PROVE HeldSlots'
  BY <1>1, <1>29 DEF HeldSlots, HostsInv, Live, LoopsOK, LoopRows, TasksOK, TaskRows, Crash,
       NoLoop,
     NoTask
<1>30. ASSUME UNCHANGED <<loop, task, host, occupied>> PROVE HeldSlots'
  BY <1>1, <1>30 DEF HeldSlots, Live
<1> QED BY <1>2, <1>3, <1>4, <1>5, <1>6, <1>7, <1>8, <1>9, <1>10, <1>11, <1>12, <1>13,
     <1>14, <1>15, <1>16, <1>17, <1>18, <1>19, <1>20, <1>21, <1>22, <1>23, <1>24, <1>25,
     <1>26, <1>27, <1>28, <1>29, <1>30,
      HostFrame, LoopFrame, TaskFrame, SlotFrame

(* A running work keeps running while others are admitted, resolved, stopped *)
(* in the queue or rejected.                                                *)
LEMMA RunningIsLeft ==
    ASSUME AgentInv, Next,
           \/ AdmitRequests
           \/ \E a \in Agents : \/ StopRequests(a) \/ SchedResolve(a) \/ LoopModelRejects(a)
                               \/ LoopHookBlocks(a) \/ TaskStartRejected(a) \/ TaskStarts(a),
           NEW w \in Works, work[w].st = "RUNNING"
    PROVE  work'[w].st = "RUNNING" /\ work'[w].agent = work[w].agent
<1>1. WorksInv /\ TypeOK /\ work \in WorkRows
  BY DEF AgentInv, WorksInv, Sound
<1>2. CASE AdmitRequests
  BY <1>1, <1>2, AdmissionAdds
<1>3. CASE ~AdmitRequests
  <2>1. Evolves(work, work')
    BY <1>3, WorksEvolve
  <2>2. work'[w].agent = work[w].agent
    BY <2>1 DEF Evolves
  <2>3. ASSUME NEW a \in Agents, StopRequests(a) PROVE work'[w].st = "RUNNING"
    <3>1. PICK target \in StopTargets(a) : work' = Resolved(Unqueued(target))
      BY <2>3 DEF StopRequests, Unqueued
    <3>2. target \in SUBSET Works
      BY DEF StopTargets, OfAgent, InSt
    <3>3. work'[w].st \in {work[w].st, "DEP_FAILED", "CANCELLED"}
      BY <1>1, <3>1, <3>2, StopsEvolve
    <3>4. work'[w].st # work[w].st => MayBecome(work, work', w)
      BY <2>1 DEF Evolves
    <3> QED BY <3>3, <3>4 DEF MayBecome
  <2>4. ASSUME NEW a \in Agents, SchedResolve(a) PROVE work'[w].st = "RUNNING"
    BY <1>1, <2>4, ResolvingEvolves DEF SchedResolve, WorksInv
  <2>5. ASSUME NEW a \in Agents, NEW v \in Works, Rejectable(a, v),
               work' = Ended(v, "REJECTED")
        PROVE  work'[w].st = "RUNNING"
    BY <1>1, <2>5 DEF Rejectable, Ended, WorkRows, WorkRecords
  <2>6. ASSUME NEW a \in Agents, LoopModelRejects(a) \/ LoopHookBlocks(a)
        PROVE  work'[w].st = "RUNNING"
    <3>1. loop[a].w \in Works
      BY <1>1, <2>6 DEF TypeOK, LoopModelRejects, LoopHookBlocks
    <3>2. work' = IF Rejectable(a, loop[a].w) THEN Ended(loop[a].w, "REJECTED") ELSE work
      BY <2>6 DEF LoopModelRejects, LoopHookBlocks
    <3> QED BY <2>5, <3>1, <3>2
  <2>7. ASSUME NEW a \in Agents, TaskStartRejected(a) PROVE work'[w].st = "RUNNING"
    <3>1. task[a].w \in Works
      BY <2>7 DEF AgentInv, TasksInv, HeldSlots, TaskStartRejected
    <3> QED BY <2>5, <2>7, <3>1 DEF TaskStartRejected
  <2>8. ASSUME NEW a \in Agents, TaskStarts(a) PROVE work'[w].st = "RUNNING"
    BY <1>1, <2>8 DEF TaskStarts, WorkRows, WorkRecords
  <2> QED BY <1>3, <2>2, <2>3, <2>4, <2>6, <2>7, <2>8
<1> QED BY <1>2, <1>3

(* A running task works on the running work of its Agent. *)
LEMMA RunningWorksStep ==
    ASSUME AgentInv, Next
    PROVE  RunningWorks'
<1>1. /\ HostsInv /\ HeldSlots /\ RunningWorks /\ TasksOK /\ work \in WorkRows
  BY TypeParts DEF AgentInv, TasksInv, WorksInv, Sound
<1>2. \A a \in Agents : task[a].pc \in {"run", "wait"} => task[a].w \in Works
  BY <1>1 DEF HeldSlots
<1>3. ASSUME \/ AdmitRequests
             \/ \E a \in Agents : \/ StopRequests(a) \/ SchedResolve(a) \/ LoopModelRejects(a)
                                 \/ LoopHookBlocks(a)
      PROVE  RunningWorks'
  <2>1. task' = task
    BY <1>3 DEF AdmitRequests, StopRequests, SchedResolve, LoopModelRejects, LoopHookBlocks
  <2> QED BY <1>1, <1>2, <1>3, <2>1, RunningIsLeft DEF RunningWorks
<1>4. ASSUME NEW a \in Agents, TaskStartRejected(a) PROVE RunningWorks'
  <2>1. \A b \in Agents : task'[b] = task[b] \/ task'[b].pc = "finish"
    BY <1>1, <1>4 DEF TaskStartRejected, TaskTo, TasksOK, TaskRows
  <2>2. \A b \in Agents : task'[b].pc \in {"run", "wait"} => task'[b] = task[b]
    BY <2>1
  <2> QED BY <1>1, <1>2, <1>4, <2>2, RunningIsLeft DEF RunningWorks
<1>5. ASSUME NEW a \in Agents, TaskStarts(a) PROVE RunningWorks'
  <2> DEFINE w == task[a].w
             ok == Live(a) /\ task[a].cause = "none" /\ Candidate(a) = w
  <2>1. w \in Works /\ task[a].pc = "start"
    BY <1>1, <1>5 DEF TaskStarts, HeldSlots
  <2>2. \A b \in Agents : b # a => task'[b] = task[b]
    BY <1>1, <1>5 DEF TaskStarts, TaskTo, TasksOK
  <2>3. task'[a].w = w /\ (task'[a].pc \in {"run", "wait"} => ok)
    BY <1>1, <1>5 DEF TaskStarts, TaskTo, TasksOK, TaskRows
  <2>4. ASSUME ok PROVE work'[w].st = "RUNNING" /\ work'[w].agent = a
    <3>1. work[w].agent = a
      BY <2>1, <2>4, StartsReadyHead
    <3>2. work' = [work EXCEPT ![w].st = "RUNNING"]
      BY <1>5, <2>4 DEF TaskStarts
    <3> HIDE DEF w
    <3> QED BY <1>1, <2>1, <3>1, <3>2 DEF WorkRows, WorkRecords, w
  <2> HIDE DEF w, ok
  <2>5. ASSUME NEW b \in Agents, b # a, task'[b].pc \in {"run", "wait"}
        PROVE  work'[task'[b].w].st = "RUNNING" /\ work'[task'[b].w].agent = b
    <3>1. /\ task'[b] = task[b] /\ task[b].w \in Works
          /\ work[task[b].w].st = "RUNNING" /\ work[task[b].w].agent = b
      BY <1>1, <1>2, <2>2, <2>5 DEF RunningWorks
    <3> QED BY <1>5, <3>1, RunningIsLeft
  <2> QED BY <2>3, <2>4, <2>5 DEF RunningWorks
<1>6. CASE SchedLoads
  <2>1. /\ task' = task /\ host[sched.a] = "none" /\ sched.a \in Agents
        /\ work' = [w \in Works |-> IF w \in OfAgent(sched.a, {"RUNNING"})
                                     THEN [work[w] EXCEPT !.st = "INTERRUPTED"]
                                     ELSE work[w]]
    BY <1>1, <1>6 DEF SchedLoads, HostsInv
  <2>2. task[sched.a].pc = "none"
    BY <1>1, <2>1 DEF HostsInv
  <2>3. \A w \in Works : work[w].agent # sched.a => work'[w] = work[w]
    BY <2>1 DEF OfAgent, InSt
  <2>4. ASSUME NEW b \in Agents, task[b].pc \in {"run", "wait"}
        PROVE  work'[task[b].w].st = "RUNNING" /\ work'[task[b].w].agent = b
    <3>1. b # sched.a /\ task[b].w \in Works
      BY <1>1, <1>2, <2>2, <2>4
    <3>2. work[task[b].w].st = "RUNNING" /\ work[task[b].w].agent = b
      BY <1>1, <2>4 DEF RunningWorks
    <3> QED BY <2>3, <3>1, <3>2
  <2> QED BY <2>1, <2>4 DEF RunningWorks
<1>7. ASSUME NEW a \in Agents, TaskCompletes(a) \/ TaskInterrupts(a) PROVE RunningWorks'
  <2>1. /\ task[a].pc \in {"run", "wait"} /\ task' = TaskTo(a, "finish")
        /\ \E s : work' = Ended(task[a].w, s)
    BY <1>7 DEF TaskCompletes, TaskInterrupts
  <2>2. task'[a].pc = "finish" /\ \A b \in Agents : b # a => task'[b] = task[b]
    BY <1>1, <2>1 DEF TaskTo, TasksOK, TaskRows
  <2>3. \A w \in Works : w # task[a].w => work'[w] = work[w]
    BY <1>1, <2>1 DEF Ended, WorkRows, WorkRecords
  <2>4. work[task[a].w].agent = a
    BY <1>1, <2>1 DEF RunningWorks
  <2>5. ASSUME NEW b \in Agents, task'[b].pc \in {"run", "wait"}
        PROVE  work'[task'[b].w].st = "RUNNING" /\ work'[task'[b].w].agent = b
    <3>1. b # a /\ task'[b] = task[b]
      BY <2>2, <2>5
    <3>2. /\ task[b].w \in Works
          /\ work[task[b].w].st = "RUNNING" /\ work[task[b].w].agent = b
      BY <1>1, <1>2, <2>5, <3>1 DEF RunningWorks
    <3>3. task[b].w # task[a].w
      BY <2>4, <3>1, <3>2
    <3> QED BY <2>3, <3>1, <3>2, <3>3
  <2> QED BY <2>5 DEF RunningWorks
<1>8. ASSUME work' = work,
             \A a \in Agents : task'[a].pc \in {"run", "wait"} =>
               task[a].pc \in {"run", "wait"} /\ task'[a].w = task[a].w
      PROVE  RunningWorks'
  BY <1>1, <1>8 DEF RunningWorks
<1>9. ASSUME RetireChecks PROVE RunningWorks'
  BY <1>1, <1>8, <1>9 DEF TasksOK, TaskRows, RetireChecks
<1>10. ASSUME NEW a \in Agents, LoopInstalls(a) PROVE RunningWorks'
  BY <1>1, <1>8, <1>10 DEF TasksOK, TaskRows, LoopInstalls
<1>11. ASSUME NEW a \in Agents, TaskStale(a) PROVE RunningWorks'
  BY <1>1, <1>8, <1>11 DEF TasksOK, TaskRows, TaskStale, TaskTo
<1>12. ASSUME NEW a \in Agents, TaskResumes(a) PROVE RunningWorks'
  BY <1>1, <1>8, <1>12 DEF TasksOK, TaskRows, TaskResumes, TaskTo
<1>13. ASSUME NEW a \in Agents, TaskReleases(a) PROVE RunningWorks'
  BY <1>1, <1>8, <1>13 DEF TasksOK, TaskRows, TaskReleases, TaskTo
<1>14. ASSUME NEW a \in Agents, TaskSettles(a) PROVE RunningWorks'
  BY <1>1, <1>8, <1>14 DEF TasksOK, TaskRows, TaskSettles, NoTask
<1>15. ASSUME NEW a \in Agents, TaskSuspends(a) PROVE RunningWorks'
  BY <1>1, <1>8, <1>15 DEF TasksOK, TaskRows, TaskSuspends, TaskTo
<1>16. ASSUME NEW a \in Agents, WriterLost(a) PROVE RunningWorks'
  BY <1>1, <1>8, <1>16 DEF TasksOK, TaskRows, WriterLost
<1>17. ASSUME NEW w \in Works, StopActiveWork(w) PROVE RunningWorks'
  BY <1>1, <1>8, <1>17 DEF TasksOK, TaskRows, StopActiveWork
<1>18. ASSUME RootCloses PROVE RunningWorks'
  BY <1>1, <1>8, <1>18 DEF TasksOK, TaskRows, RootCloses, Closing
<1>19. ASSUME Crash PROVE RunningWorks'
  BY <1>1, <1>8, <1>19 DEF TasksOK, TaskRows, Crash, NoTask
<1>20. ASSUME UNCHANGED <<task, work>> PROVE RunningWorks'
  BY <1>1, <1>20 DEF RunningWorks
<1> QED BY <1>3, <1>4, <1>5, <1>6, <1>7, <1>9, <1>10, <1>11, <1>12, <1>13, <1>14, <1>15,
     <1>16, <1>17, <1>18, <1>19, <1>20,
      TaskFrame, WorkFrame

-----------------------------------------------------------------------------
(* Stops                                                                    *)

(* A work that ends as stopped was asked to. *)
LEMMA OnlyAskedStop ==
    ASSUME AgentInv, Next, NEW u \in Works, work'[u].st \in {"CANCELLED", "USER_STOPPED"},
           work'[u].st # work[u].st
    PROVE  u \in asked'
<1>1. WorksInv /\ TypeOK /\ StopsInv /\ work \in WorkRows
  BY DEF AgentInv, WorksInv, Sound
<1>2. CASE AdmitRequests
  BY <1>1, <1>2, AdmissionAdds
<1>3. ASSUME NEW a \in Agents, StopRequests(a) PROVE u \in asked'
  <2>1. PICK target \in StopTargets(a) : /\ work' = Resolved(Unqueued(target))
                                         /\ asked' = asked \cup target
    BY <1>3 DEF StopRequests, Unqueued
  <2>2. target \in SUBSET Works
    BY DEF StopTargets, OfAgent, InSt
  <2>3. work'[u].st = work[u].st \/ work'[u].st = "DEP_FAILED" \/ u \in target
    BY <1>1, <2>1, <2>2, StopsEvolve
  <2> QED BY <2>1, <2>3
<1>4. ASSUME NEW a \in Agents, SchedResolve(a) PROVE u \in asked'
  BY <1>1, <1>4, ResolvingEvolves DEF SchedResolve, WorksInv
<1>5. CASE SchedLoads
  BY <1>1, <1>5 DEF SchedLoads, WorkRows, WorkRecords
<1>6. ASSUME NEW a \in Agents, NEW v \in Works, work' \in {work, Ended(v, "REJECTED")}
      PROVE  u \in asked'
  BY <1>1, <1>6 DEF Ended, WorkRows, WorkRecords
<1>7. ASSUME NEW a \in Agents, LoopModelRejects(a) \/ LoopHookBlocks(a) PROVE u \in asked'
  <2>1. loop[a].w \in Works
    BY <1>1, <1>7 DEF TypeOK, LoopModelRejects, LoopHookBlocks
  <2> QED BY <1>6, <1>7, <2>1 DEF LoopModelRejects, LoopHookBlocks
<1>8. ASSUME NEW a \in Agents, task[a].pc # "none" PROVE task[a].w \in Works
  BY <1>8 DEF AgentInv, TasksInv, HeldSlots
<1>9. ASSUME NEW a \in Agents, TaskStartRejected(a) PROVE u \in asked'
  BY <1>6, <1>8, <1>9 DEF TaskStartRejected
<1>10. ASSUME NEW a \in Agents, TaskStarts(a) PROVE u \in asked'
  BY <1>1, <1>8, <1>10 DEF TaskStarts, WorkRows, WorkRecords
<1>11. ASSUME NEW a \in Agents, TaskCompletes(a) PROVE u \in asked'
  BY <1>1, <1>8, <1>11 DEF TaskCompletes, Ended, WorkRows, WorkRecords
<1>12. ASSUME NEW a \in Agents, TaskInterrupts(a) PROVE u \in asked'
  <2> DEFINE s == IF task[a].cause = "user" THEN "USER_STOPPED" ELSE "INTERRUPTED"
  <2>1. task[a].w \in Works /\ work' = Ended(task[a].w, s) /\ asked' = asked
    BY <1>8, <1>12 DEF TaskInterrupts
  <2> HIDE DEF s
  <2>2. u = task[a].w /\ work'[u].st = s
    BY <1>1, <2>1 DEF Ended, WorkRows, WorkRecords
  <2>3. task[a].cause = "user"
    BY <2>2 DEF s
  <2> QED BY <1>1, <2>1, <2>2, <2>3 DEF StopsInv
<1> QED BY <1>2, <1>3, <1>4, <1>5, <1>7, <1>9, <1>10, <1>11, <1>12, WorkFrame

(* Stops reach the works they were asked for. *)
LEMMA StopsStep ==
    ASSUME AgentInv, Next
    PROVE  StopsInv'
<1>1. /\ WorksInv /\ TypeOK /\ StopsInv /\ TasksOK /\ work \in WorkRows
      /\ stops \subseteq Works /\ asked \subseteq Works
  BY TypeParts DEF AgentInv, WorksInv, Sound, WaitOK
<1>2. Admitted(work) \subseteq Admitted(work')
  <2>1. CASE AdmitRequests
    <3>1. ASSUME NEW w \in Works, work[w].st # "none" PROVE work'[w].st # "none"
      BY <1>1, <2>1, <3>1, AdmissionAdds
    <3> QED BY <3>1 DEF Admitted
  <2>2. CASE ~AdmitRequests
    BY <1>1, <2>2, WorksEvolve, EvolutionIsForward DEF Admitted
  <2> QED BY <2>1, <2>2
<1>3. /\ asked \subseteq asked'
      /\ asked' \subseteq Admitted(work') /\ stops' \subseteq asked'
  <2>1. ASSUME NEW a \in Agents, StopRequests(a)
        PROVE  /\ asked \subseteq asked'
               /\ asked' \subseteq asked \cup Admitted(work) /\ stops' \subseteq asked'
    <3>1. PICK target \in StopTargets(a) : /\ asked' = asked \cup target
                                           /\ stops' = stops \cup (target \cap InSt(work, {"RUNNING"}))
      BY <2>1 DEF StopRequests
    <3>2. target \subseteq Admitted(work)
      BY DEF StopTargets, OfAgent, InSt, Admitted, Unsettled
    <3> QED BY <1>1, <3>1, <3>2 DEF StopsInv
  <2>2. ASSUME NEW w \in Works, StopActiveWork(w)
        PROVE  asked' = asked /\ stops' \subseteq asked
    BY <1>1, <2>2 DEF StopActiveWork, StopsInv
  <2>3. ASSUME RootCloses \/ Crash
        PROVE  asked' = asked /\ stops' \subseteq asked
    BY <1>1, <2>3 DEF RootCloses, Crash, StopsInv
  <2>4. asked \subseteq Admitted(work) /\ stops \subseteq asked
    BY <1>1 DEF StopsInv
  <2> QED BY <1>2, <2>1, <2>2, <2>3, <2>4, StopFrame
<1>4. StopHitsOnlyItsWork'
  <2> SUFFICES ASSUME NEW u \in Works, work'[u].st \in {"CANCELLED", "USER_STOPPED"}
               PROVE  u \in asked'
    BY DEF StopHitsOnlyItsWork, InSt
  <2>1. CASE work'[u].st = work[u].st
    BY <1>1, <1>3, <2>1 DEF StopsInv, StopHitsOnlyItsWork, InSt
  <2> QED BY <2>1, OnlyAskedStop
<1>5. ASSUME NEW a \in Agents, task'[a].cause = "user"
      PROVE  task'[a].w \in asked'
  <2>1. task[a].cause = "user" => task[a].w \in asked'
    BY <1>1, <1>3 DEF StopsInv
  <2>2. ASSUME task'[a].w = task[a].w, task'[a].cause = task[a].cause PROVE task'[a].w \in asked'
    BY <1>5, <2>1, <2>2
  <2>3. ASSUME NEW w \in Works, StopActiveWork(w) PROVE task'[a].w \in asked'
    <3>1. w \in asked /\ work[w].agent \in Agents
      BY <1>1, <2>3 DEF StopActiveWork, StopsInv, WorksInv, Sound, SourcesKnown
    <3>2. CASE Signals(w) /\ task[work[w].agent].cause = "none" /\ a = work[w].agent
      <4>1. task[a].w = w /\ task' = [task EXCEPT ![a].cause = "user"]
        BY <2>3, <3>2 DEF StopActiveWork, Signals
      <4>2. task'[a].w = w
        BY <1>1, <4>1 DEF TasksOK, TaskRows
      <4> QED BY <1>3, <3>1, <4>2
    <3>3. CASE ~(Signals(w) /\ task[work[w].agent].cause = "none" /\ a = work[w].agent)
      <4>1. task'[a] = task[a]
        BY <1>1, <2>3, <3>1, <3>3 DEF StopActiveWork, TasksOK
      <4> QED BY <2>2, <4>1
    <3> QED BY <3>2, <3>3
  <2>4. ASSUME RetireChecks PROVE task'[a].w \in asked'
    BY <1>1, <1>5, <2>2, <2>4 DEF TasksOK, TaskRows, RetireChecks
  <2>5. ASSUME NEW b \in Agents, LoopInstalls(b) PROVE task'[a].w \in asked'
    BY <1>1, <1>5, <2>2, <2>5 DEF TasksOK, TaskRows, LoopInstalls
  <2>6. ASSUME NEW b \in Agents, TaskStarts(b) PROVE task'[a].w \in asked'
    BY <1>1, <1>5, <2>2, <2>6 DEF TasksOK, TaskRows, TaskStarts, TaskTo
  <2>7. ASSUME NEW b \in Agents, TaskCompletes(b) PROVE task'[a].w \in asked'
    BY <1>1, <1>5, <2>2, <2>7 DEF TasksOK, TaskRows, TaskCompletes, TaskTo
  <2>8. ASSUME NEW b \in Agents, TaskInterrupts(b) PROVE task'[a].w \in asked'
    BY <1>1, <1>5, <2>2, <2>8 DEF TasksOK, TaskRows, TaskInterrupts, TaskTo
  <2>9. ASSUME NEW b \in Agents, TaskStale(b) PROVE task'[a].w \in asked'
    BY <1>1, <1>5, <2>2, <2>9 DEF TasksOK, TaskRows, TaskStale, TaskTo
  <2>10. ASSUME NEW b \in Agents, TaskResumes(b) PROVE task'[a].w \in asked'
    BY <1>1, <1>5, <2>2, <2>10 DEF TasksOK, TaskRows, TaskResumes, TaskTo
  <2>11. ASSUME NEW b \in Agents, TaskReleases(b) PROVE task'[a].w \in asked'
    BY <1>1, <1>5, <2>2, <2>11 DEF TasksOK, TaskRows, TaskReleases, TaskTo
  <2>12. ASSUME NEW b \in Agents, TaskSettles(b) PROVE task'[a].w \in asked'
    BY <1>1, <1>5, <2>2, <2>12 DEF TasksOK, TaskRows, TaskSettles, NoTask
  <2>13. ASSUME NEW b \in Agents, TaskStartRejected(b) PROVE task'[a].w \in asked'
    BY <1>1, <1>5, <2>2, <2>13 DEF TasksOK, TaskRows, TaskStartRejected, TaskTo
  <2>14. ASSUME NEW b \in Agents, TaskSuspends(b) PROVE task'[a].w \in asked'
    BY <1>1, <1>5, <2>2, <2>14 DEF TasksOK, TaskRows, TaskSuspends, TaskTo
  <2>15. ASSUME NEW b \in Agents, WriterLost(b) PROVE task'[a].w \in asked'
    BY <1>1, <1>5, <2>2, <2>15 DEF TasksOK, TaskRows, WriterLost
  <2>16. ASSUME RootCloses PROVE task'[a].w \in asked'
    BY <1>1, <1>5, <2>2, <2>16 DEF TasksOK, TaskRows, RootCloses, Closing
  <2>17. ASSUME Crash PROVE task'[a].w \in asked'
    BY <1>1, <1>5, <2>2, <2>17 DEF TasksOK, TaskRows, Crash, NoTask
  <2> QED BY <2>2, <2>3, <2>4, <2>5, <2>6, <2>7, <2>8, <2>9, <2>10, <2>11, <2>12, <2>13,
       <2>14, <2>15, <2>16, <2>17, TaskFrame
<1> QED BY <1>3, <1>4, <1>5 DEF StopsInv

-----------------------------------------------------------------------------
(* Slots                                                                    *)

(* The slots taken are never more than there are. *)
LEMMA SlotCountStep ==
    ASSUME AgentInv, Next
    PROVE  IsFiniteSet(occupied)' /\ (Cardinality(occupied) <= Capacity)'
<1>1. /\ IsFiniteSet(occupied) /\ Cardinality(occupied) <= Capacity
      /\ Cardinality(occupied) \in Nat /\ Capacity \in Nat
  BY FS_CardinalityType, AgentWorksAssumption DEF AgentInv, SlotsInv
<1>2. ASSUME NEW a, MayAcquire(a), occupied' = occupied \cup {a}
      PROVE  IsFiniteSet(occupied') /\ Cardinality(occupied') <= Capacity
  <2>1. /\ IsFiniteSet(occupied')
        /\ Cardinality(occupied') = IF a \in occupied THEN Cardinality(occupied)
                                    ELSE Cardinality(occupied) + 1
    BY <1>1, <1>2, FS_AddElement
  <2> QED BY <1>1, <1>2, <2>1 DEF MayAcquire
<1>3. ASSUME occupied' \subseteq occupied
      PROVE  IsFiniteSet(occupied') /\ Cardinality(occupied') <= Capacity
  <2>1. /\ IsFiniteSet(occupied') /\ Cardinality(occupied') <= Cardinality(occupied)
        /\ Cardinality(occupied') \in Nat
    BY <1>1, <1>3, FS_Subset, FS_CardinalityType
  <2> QED BY <1>1, <2>1
<1>4. ASSUME SchedRead
      PROVE  occupied' \subseteq occupied
             \/ (MayAcquire(sched.a) /\ occupied' = occupied \cup {sched.a})
  BY <1>4 DEF SchedRead
<1>5. ASSUME NEW a \in Agents, LoopScans(a)
      PROVE  occupied' \subseteq occupied \/ (MayAcquire(a) /\ occupied' = occupied \cup {a})
  BY <1>5 DEF LoopScans, Released
<1>6. ASSUME NEW a \in Agents, TaskResumes(a)
      PROVE  MayAcquire(a) /\ occupied' = occupied \cup {a}
  BY <1>6 DEF TaskResumes, MayAcquire
<1>7. ASSUME SchedLoadFails \/ Crash
      PROVE  occupied' \subseteq occupied
  BY <1>7 DEF SchedLoadFails, LoadFailed, Released, Crash
<1>8. ASSUME NEW a \in Agents, \/ LoopEnds(a) \/ LoopPutsBack(a) \/ LoopModelRejects(a)
                               \/ LoopHookBlocks(a) \/ LoopHookRaises(a) \/ TaskSuspends(a)
                               \/ TaskReleases(a) \/ HostClosed(a)
      PROVE  occupied' \subseteq occupied
  BY <1>8 DEF LoopEnds, LoopPutsBack, NoCatalog, Overtaken,
       LoopModelRejects, LoopHookBlocks, LoopHookRaises,
     TaskSuspends, TaskReleases, HostClosed, Released
<1>9. \/ occupied' \subseteq occupied
      \/ \E a : MayAcquire(a) /\ occupied' = occupied \cup {a}
  BY <1>4, <1>5, <1>6, <1>7, <1>8, SlotFrame
<1> QED BY <1>2, <1>3, <1>9

(* Every slot is used, or about to be used or given back. *)
LEMMA SlotOwnersStep ==
    ASSUME AgentInv, Next
    PROVE  SlotHasOwner'
<1>1. /\ HostsInv /\ HeldSlots /\ SlotHasOwner /\ LoopsOK /\ TasksOK /\ SchedOK
      /\ host \in [Agents -> {"none", "live", "gated", "closing", "lost"}]
      /\ occupied \subseteq Agents
  BY TypeParts DEF AgentInv, TasksInv, SlotsInv, RestOK
<1>2. ASSUME RoundBegins PROVE SlotHasOwner'
  BY <1>1, <1>2 DEF SlotHasOwner, HostsInv, LoopsOK, LoopRows, TasksOK, TaskRows,
       RoundBegins, NextRound
<1>3. ASSUME SchedRead PROVE SlotHasOwner'
  <2>1. UNCHANGED <<host, loop, task>> /\ sched.pc = "read" /\ wake \subseteq wake'
    BY <1>3 DEF SchedRead
  <2>2. CASE occupied' = occupied
    BY <1>1, <2>1, <2>2 DEF SlotHasOwner
  <2>3. CASE occupied' = occupied \cup {sched.a} /\ sched' = [sched EXCEPT !.pc = "load", !.del = FALSE]
    <3>1. sched'.pc = "load" /\ sched'.a = sched.a
      BY <1>1, <2>3 DEF SchedOK, SchedRows
    <3> QED BY <1>1, <2>1, <2>3, <3>1 DEF SlotHasOwner
  <2> QED BY <1>3, <2>2, <2>3 DEF SchedRead
<1>4. ASSUME SchedLoads PROVE SlotHasOwner'
  BY <1>1, <1>4 DEF SlotHasOwner, HostsInv, LoopsOK, LoopRows, TasksOK, TaskRows,
       SchedLoads, Continue,
     NextRound, IdleLoop
<1>5. ASSUME SchedLoadFails PROVE SlotHasOwner'
  BY <1>1, <1>5 DEF SlotHasOwner, HostsInv, LoopsOK, LoopRows, TasksOK, TaskRows,
       SchedLoadFails,
     LoadFailed, Released, Continue, NextRound, LoadFailed
<1>6. ASSUME SchedMarksIdle PROVE SlotHasOwner'
  BY <1>1, <1>6 DEF SlotHasOwner, HostsInv, LoopsOK, LoopRows, TasksOK, TaskRows,
       SchedMarksIdle,
     Continue, NextRound
<1>7. ASSUME RetireBegins PROVE SlotHasOwner'
  BY <1>1, <1>7 DEF SlotHasOwner, HostsInv, LoopsOK, LoopRows, TasksOK, TaskRows, RetireBegins,
     Continue, NextRound, Live
<1>8. ASSUME RetireChecks PROVE SlotHasOwner'
  BY <1>1, <1>8 DEF SlotHasOwner, HostsInv, LoopsOK, LoopRows, TasksOK, TaskRows, RetireChecks,
     Continue, NextRound
<1>9. ASSUME RetireCloses PROVE SlotHasOwner'
  BY <1>1, <1>9 DEF SlotHasOwner, HostsInv, LoopsOK, LoopRows, TasksOK, TaskRows, RetireCloses,
     Continue, NextRound
<1>10. ASSUME RetireDeletes PROVE SlotHasOwner'
  BY <1>1, <1>10 DEF SlotHasOwner, HostsInv, LoopsOK, LoopRows, TasksOK, TaskRows,
       RetireDeletes,
     DeleteAgent, Continue, NextRound, DeleteAgent
<1>11. ASSUME NEW a \in Agents, SchedResolve(a) PROVE SlotHasOwner'
  BY <1>1, <1>11 DEF SlotHasOwner, LoopsOK, LoopRows, TasksOK, TaskRows, SchedResolve
<1>12. ASSUME NEW a \in Agents, LoopWakes(a) PROVE SlotHasOwner'
  BY <1>1, <1>12 DEF SlotHasOwner, HostsInv, LoopsOK, LoopRows, TasksOK, TaskRows,
       LoopWakes, Live
<1>13. ASSUME NEW a \in Agents, LoopScans(a) PROVE SlotHasOwner'
  BY <1>1, <1>13 DEF SlotHasOwner, HostsInv, LoopsOK, LoopRows, TasksOK, TaskRows,
       LoopScans, IdleLoop,
     Released, MayAcquire, Live
<1>14. ASSUME NEW a \in Agents, LoopHookPasses(a) PROVE SlotHasOwner'
  BY <1>1, <1>14 DEF SlotHasOwner, HostsInv, LoopsOK, LoopRows, TasksOK, TaskRows,
       LoopHookPasses, Live
<1>15. ASSUME NEW a \in Agents, LoopInstalls(a) PROVE SlotHasOwner'
  BY <1>1, <1>15 DEF SlotHasOwner, HostsInv, LoopsOK, LoopRows, TasksOK, TaskRows,
       LoopInstalls, Live
<1>16. ASSUME NEW a \in Agents, LoopEnds(a) PROVE SlotHasOwner'
  BY <1>1, <1>16 DEF SlotHasOwner, HostsInv, LoopsOK, LoopRows, TasksOK, TaskRows, LoopEnds,
       NoLoop,
     Released
<1>17. ASSUME NEW a \in Agents, TaskStarts(a) PROVE SlotHasOwner'
  BY <1>1, <1>17 DEF SlotHasOwner, HostsInv, LoopsOK, LoopRows, TasksOK, TaskRows,
       TaskStarts, TaskTo
<1>18. ASSUME NEW a \in Agents, TaskCompletes(a) PROVE SlotHasOwner'
  BY <1>1, <1>18 DEF SlotHasOwner, HostsInv, LoopsOK, LoopRows, TasksOK, TaskRows,
       TaskCompletes, TaskTo
<1>19. ASSUME NEW a \in Agents, TaskInterrupts(a) PROVE SlotHasOwner'
  BY <1>1, <1>19 DEF SlotHasOwner, HostsInv, LoopsOK, LoopRows, TasksOK, TaskRows,
       TaskInterrupts, TaskTo
<1>20. ASSUME NEW a \in Agents, TaskStale(a) PROVE SlotHasOwner'
  BY <1>1, <1>20 DEF SlotHasOwner, HostsInv, LoopsOK, LoopRows, TasksOK, TaskRows,
       TaskStale, TaskTo
<1>21. ASSUME NEW a \in Agents, TaskResumes(a) PROVE SlotHasOwner'
  BY <1>1, <1>21 DEF SlotHasOwner, HostsInv, LoopsOK, LoopRows, TasksOK, TaskRows,
       TaskResumes, TaskTo
<1>22. ASSUME NEW a \in Agents, TaskReleases(a) PROVE SlotHasOwner'
  BY <1>1, <1>22 DEF SlotHasOwner, HostsInv, LoopsOK, LoopRows, TasksOK, TaskRows,
       TaskReleases, TaskTo,
     Released
<1>23. ASSUME NEW a \in Agents, TaskSettles(a) PROVE SlotHasOwner'
  BY <1>1, <1>23 DEF SlotHasOwner, HostsInv, LoopsOK, LoopRows, TasksOK, TaskRows,
       TaskSettles, NoTask
<1>24. ASSUME NEW a \in Agents, HostClosed(a) PROVE SlotHasOwner'
  BY <1>1, <1>24 DEF SlotHasOwner, HostsInv, LoopsOK, LoopRows, TasksOK, TaskRows,
       HostClosed, Released
<1>25. ASSUME NEW a \in Agents, LoopPutsBack(a) PROVE SlotHasOwner'
  BY <1>1, <1>25 DEF SlotHasOwner, HostsInv, LoopsOK, LoopRows, TasksOK, TaskRows,
       LoopPutsBack, NoCatalog, Overtaken,
     Released, IdleLoop, Live
<1>26. ASSUME NEW a \in Agents, LoopModelRejects(a) PROVE SlotHasOwner'
  BY <1>1, <1>26 DEF SlotHasOwner, HostsInv, LoopsOK, LoopRows, TasksOK, TaskRows,
       LoopModelRejects,
     Released, IdleLoop, Live
<1>27. ASSUME NEW a \in Agents, LoopHookBlocks(a) PROVE SlotHasOwner'
  BY <1>1, <1>27 DEF SlotHasOwner, HostsInv, LoopsOK, LoopRows, TasksOK, TaskRows,
       LoopHookBlocks,
     Released, Live
<1>28. ASSUME NEW a \in Agents, LoopHookRaises(a) PROVE SlotHasOwner'
  BY <1>1, <1>28 DEF SlotHasOwner, HostsInv, LoopsOK, LoopRows, TasksOK, TaskRows,
       LoopHookRaises,
     Released, Live
<1>29. ASSUME NEW a \in Agents, TaskStartRejected(a) PROVE SlotHasOwner'
  BY <1>1, <1>29 DEF SlotHasOwner, HostsInv, LoopsOK, LoopRows, TasksOK, TaskRows,
       TaskStartRejected,
     TaskTo
<1>30. ASSUME NEW a \in Agents, TaskSuspends(a) PROVE SlotHasOwner'
  BY <1>1, <1>30 DEF SlotHasOwner, HostsInv, LoopsOK, LoopRows, TasksOK, TaskRows,
       TaskSuspends, TaskTo,
     Released
<1>31. ASSUME NEW a \in Agents, WriterLost(a) PROVE SlotHasOwner'
  BY <1>1, <1>31 DEF SlotHasOwner, HostsInv, LoopsOK, LoopRows, TasksOK, TaskRows,
       WriterLost, Live
<1>32. ASSUME NEW w \in Works, StopActiveWork(w) PROVE SlotHasOwner'
  BY <1>1, <1>32 DEF SlotHasOwner, LoopsOK, LoopRows, TasksOK, TaskRows, StopActiveWork
<1>33. ASSUME RootCloses PROVE SlotHasOwner'
  BY <1>1, <1>33 DEF SlotHasOwner, HostsInv, LoopsOK, LoopRows, TasksOK, TaskRows,
       RootCloses, Closing,
     Live
<1>34. ASSUME Crash PROVE SlotHasOwner'
  BY <1>1, <1>34 DEF SlotHasOwner, LoopsOK, LoopRows, TasksOK, TaskRows, Crash
<1>35. ASSUME UNCHANGED <<occupied, sched, task, loop, wake, host>> PROVE SlotHasOwner'
  BY <1>1, <1>35 DEF SlotHasOwner
<1> QED BY <1>2, <1>3, <1>4, <1>5, <1>6, <1>7, <1>8, <1>9, <1>10, <1>11, <1>12, <1>13,
     <1>14, <1>15, <1>16, <1>17, <1>18, <1>19, <1>20, <1>21, <1>22, <1>23, <1>24, <1>25,
     <1>26, <1>27, <1>28, <1>29, <1>30, <1>31, <1>32, <1>33, <1>34, <1>35,
      SlotFrame, SchedFrame, TaskFrame, LoopFrame, WakeFrame, HostFrame

-----------------------------------------------------------------------------
(* Waits                                                                    *)

(* Every step but the scheduler's resolution that changes works commits an  *)
(* event, which is on its way if ROOT waits.                                *)
LEMMA ChangesAreAnnounced ==
    ASSUME AgentInv, Next, NEW w \in Works, work'[w].st # work[w].st,
           work'[w].st # "DEP_FAILED"
    PROVE  due' = (due \/ waiter.pc # "none")
<1>1. work' # work
  OBVIOUS
<1>2. ASSUME NEW a \in Agents, SchedResolve(a)
      PROVE  FALSE
  <2>1. work' = Resolved(work) /\ Sound(work, row)
    BY <1>2 DEF SchedResolve, AgentInv, WorksInv
  <2> QED BY <2>1, ResolvingEvolves
<1>3. CASE AdmitRequests \/ SchedLoads
  BY <1>1, <1>3 DEF AdmitRequests, SchedLoads, Announce
<1>4. ASSUME NEW a \in Agents, StopRequests(a)
      PROVE  due' = (due \/ waiter.pc # "none")
  BY <1>1, <1>4 DEF StopRequests, Announce
<1>5. ASSUME NEW a \in Agents, LoopModelRejects(a) \/ LoopHookBlocks(a)
      PROVE  due' = (due \/ waiter.pc # "none")
  BY <1>1, <1>5 DEF LoopModelRejects, LoopHookBlocks, Announce
<1>6. ASSUME NEW a \in Agents, \/ TaskStarts(a) \/ TaskStartRejected(a)
                               \/ TaskCompletes(a) \/ TaskInterrupts(a)
      PROVE  due' = (due \/ waiter.pc # "none")
  BY <1>1, <1>6 DEF TaskStarts, TaskStartRejected, TaskCompletes, TaskInterrupts, Announce
<1> QED BY <1>1, <1>2, <1>3, <1>4, <1>5, <1>6, WorkFrame

(* What happens to the wait. *)
LEMMA WaiterFrame ==
    ASSUME Next
    PROVE  \/ UNCHANGED waiter \/ waiter' = Notified \/ waiter' = NoWaiter
           \/ waiter'.pc = "read"
           \/ WaitCheck \/ WaitSleeps \/ WaitWakes
<1>1. ASSUME Scheduler
      PROVE  UNCHANGED waiter \/ waiter' = Notified
  BY <1>1 DEF Scheduler, RoundBegins, SchedRead, SchedLoads, SchedLoadFails, SchedMarksIdle,
     RetireBegins, RetireChecks, RetireCloses, RetireDeletes, SchedResolve, LoadFailed,
     DeleteAgent
<1>2. ASSUME DeliverEvents PROVE waiter' = Notified
  BY <1>2 DEF DeliverEvents
<1>3. ASSUME NEW a \in Agents, Delivery(a)
      PROVE  UNCHANGED waiter
  BY <1>3 DEF Delivery, LoopWakes, LoopScans, LoopHookPasses, LoopInstalls, LoopEnds
<1>4. ASSUME NEW a \in Agents, Execution(a)
      PROVE  UNCHANGED waiter \/ waiter' = Notified
  BY <1>4 DEF Execution, TaskStarts, TaskCompletes, TaskInterrupts, TaskStale, TaskResumes,
     TaskReleases, TaskSettles, HostClosed
<1>5. ASSUME NEW a \in Agents, Faults(a)
      PROVE  UNCHANGED waiter \/ waiter' = Notified
  BY <1>5 DEF Faults, LoopPutsBack, NoCatalog, Overtaken,
       LoopModelRejects, LoopHookBlocks, LoopHookRaises,
     TaskStartRejected, TaskSuspends, WriterLost, StopRequests, AgeIdle
<1>6. ASSUME AdmitRequests \/ RootClosed \/ RootReopens
      PROVE  UNCHANGED waiter
  BY <1>6 DEF AdmitRequests, RootClosed, RootReopens
<1>7. ASSUME NEW w \in Works, StopActiveWork(w) PROVE UNCHANGED waiter
  BY <1>7 DEF StopActiveWork
<1>8. ASSUME RootCloses \/ Crash PROVE waiter' = NoWaiter
  BY <1>8 DEF RootCloses, Crash
<1>9. ASSUME WaitBegin PROVE waiter'.pc = "read"
  BY <1>9 DEF WaitBegin
<1> QED BY <1>1, <1>2, <1>3, <1>4, <1>5, <1>6, <1>7, <1>8, <1>9 DEF Next, Waiting

(* An event on its way arrives, or the process dies. *)
LEMMA EventsArrive ==
    ASSUME Next, due, ~due'
    PROVE  DeliverEvents \/ Crash
<1>1. ASSUME Scheduler PROVE FALSE
  BY <1>1 DEF Scheduler, RoundBegins, SchedRead, SchedLoads, SchedLoadFails, SchedMarksIdle,
     RetireBegins, RetireChecks, RetireCloses, RetireDeletes, SchedResolve, LoadFailed,
     DeleteAgent, Announce
<1>2. ASSUME WaitCheck \/ WaitSleeps \/ WaitWakes PROVE FALSE
  BY <1>2 DEF WaitCheck, WaitSleeps, WaitWakes
<1>3. ASSUME NEW a \in Agents, Delivery(a) PROVE FALSE
  BY <1>3 DEF Delivery, LoopWakes, LoopScans, LoopHookPasses, LoopInstalls, LoopEnds
<1>4. ASSUME NEW a \in Agents, Execution(a) PROVE FALSE
  BY <1>4 DEF Execution, TaskStarts, TaskCompletes, TaskInterrupts, TaskStale, TaskResumes,
     TaskReleases, TaskSettles, HostClosed, Announce
<1>5. ASSUME NEW a \in Agents, Faults(a) PROVE FALSE
  BY <1>5 DEF Faults, LoopPutsBack, NoCatalog, Overtaken,
       LoopModelRejects, LoopHookBlocks, LoopHookRaises,
     TaskStartRejected, TaskSuspends, WriterLost, StopRequests, AgeIdle, Announce
<1>6. ASSUME AdmitRequests \/ RootClosed \/ RootReopens \/ RootCloses \/ WaitBegin PROVE FALSE
  BY <1>6 DEF AdmitRequests, RootClosed, RootReopens, RootCloses, WaitBegin, Announce
<1>7. ASSUME NEW w \in Works, StopActiveWork(w) PROVE FALSE
  BY <1>7 DEF StopActiveWork
<1> QED BY <1>1, <1>2, <1>3, <1>4, <1>5, <1>6, <1>7 DEF Next, Waiting

(* A wait that goes to sleep or sleeps has missed nothing. *)
LEMMA WaitStep ==
    ASSUME AgentInv, Next
    PROVE  WaitIsWoken'
<1> DEFINE Over == Terminal \ {"DEP_FAILED"}
<1>1. /\ WaitIsWoken
      /\ waiter \in [pc : {"none", "read", "sleep", "wait"}, works : SUBSET Works, stale : BOOLEAN]
  BY DEF AgentInv, TypeOK
<1> SUFFICES ASSUME waiter'.pc \in {"sleep", "wait"},
                    \A w \in waiter'.works : work'[w].st \in Over
             PROVE  waiter'.stale \/ due'
  BY DEF WaitIsWoken
<1>2. CASE waiter' = Notified
  BY <1>1, <1>2 DEF Notified
<1>3. CASE UNCHANGED waiter
  <2>1. CASE \A w \in waiter.works : work[w].st \in Over
    <3>1. waiter.stale \/ due
      BY <1>1, <1>3, <2>1 DEF WaitIsWoken
    <3>2. CASE DeliverEvents
      BY <1>2, <3>2 DEF DeliverEvents
    <3>3. CASE Crash
      BY <3>3 DEF Crash, NoWaiter
    <3>4. CASE ~DeliverEvents /\ ~Crash
      BY <1>3, <3>1, <3>4, EventsArrive
    <3> QED BY <3>2, <3>3, <3>4
  <2>2. CASE \E w \in waiter.works : work[w].st \notin Over
    <3>1. PICK w \in waiter.works : work[w].st \notin Over
      BY <2>2
    <3>2. w \in Works /\ work'[w].st # work[w].st /\ work'[w].st # "DEP_FAILED"
      BY <1>1, <1>3, <3>1
    <3>3. due' = (due \/ waiter.pc # "none")
      BY <3>2, ChangesAreAnnounced
    <3>4. waiter.pc # "none"
      BY <1>3
    <3> QED BY <3>3, <3>4
  <2> QED BY <2>1, <2>2
<1>4. CASE WaitCheck
  <2>1. work' = work
    BY <1>4 DEF WaitCheck
  <2>2. waiter' # NoWaiter
    BY DEF NoWaiter
  <2>3. /\ waiter' = [waiter EXCEPT !.pc = "sleep"]
        /\ \E w \in waiter.works : work[w].st \notin Terminal
    BY <1>4, <2>2 DEF WaitCheck
  <2>4. waiter'.works = waiter.works
    BY <1>1, <2>3
  <2> QED BY <2>1, <2>3, <2>4
<1>5. CASE WaitSleeps
  <2>1. work' = work /\ due' = due /\ waiter.pc = "sleep" /\ waiter' = [waiter EXCEPT !.pc = "wait"]
    BY <1>5 DEF WaitSleeps, Sleep
  <2>2. waiter'.works = waiter.works /\ waiter'.stale = waiter.stale
    BY <1>1, <2>1
  <2> QED BY <1>1, <2>1, <2>2 DEF WaitIsWoken
<1>6. CASE WaitWakes
  <2>1. waiter'.pc = "read"
    BY <1>1, <1>6 DEF WaitWakes
  <2> QED BY <2>1
<1>7. waiter'.pc # "read" /\ waiter' # NoWaiter
  BY DEF NoWaiter
<1> QED BY <1>2, <1>3, <1>4, <1>5, <1>6, <1>7, WaiterFrame

-----------------------------------------------------------------------------
(* The theorems                                                             *)

(* The first state: nothing was admitted. *)
LEMMA InitSound == Init => AgentInv
<1> SUFFICES ASSUME Init PROVE AgentInv
  OBVIOUS
<1> USE DEF Init
<1>0. MaxWorks \in Nat /\ MaxEvents \in Nat /\ Capacity \in Nat
  BY AgentWorksAssumption
<1>1. /\ work = [w \in Works |-> NoneWork]
      /\ \A w \in Works : work[w] = NoneWork
      /\ NoneWork.st = "none" /\ NoneWork.deps = {} /\ NoneWork.src = {}
  BY DEF NoneWork
<1>2. \A S : "none" \notin S => InSt(work, S) = {}
  BY <1>1 DEF InSt
<1>3. \A a, S : "none" \notin S => OfAgent(a, S) = {}
  BY <1>2 DEF OfAgent
<1>4. TypeOK
  <2>1. work \in WorkRows
    BY DEF WorkRows, WorkRecords, NoneWork
  <2>2. LoopsOK
    BY DEF LoopsOK, LoopRows, NoLoop
  <2>3. TasksOK
    BY DEF TasksOK, TaskRows, NoTask
  <2>4. SchedOK /\ RestOK
    BY DEF SchedOK, SchedRows, NextRound, RestOK
  <2>5. WaitOK
    BY <1>0 DEF WaitOK, NoWaiter
  <2> QED BY <2>1, <2>2, <2>3, <2>4, <2>5, TypeParts
<1>5. WorksInv
  <2>1. work \in WorkRows
    BY <1>4, TypeParts
  <2>2. AdmittedInOrder(work)
    <3>1. InSt(work, {"none"}) = (0 + 1) .. MaxWorks
      BY <1>1 DEF InSt, Works
    <3> QED BY <1>0, <3>1 DEF AdmittedInOrder
  <2>3. SourcesKnown(work)
    BY <1>1 DEF SourcesKnown, Admitted
  <2>4. InSt(work, {"PENDING"}) = {} /\ InSt(work, Ran) = {} /\ InSt(work, {"DEP_FAILED"}) = {}
        /\ InSt(work, {"RUNNING"}) = {}
    BY <1>2 DEF Ran
  <2>5. InputsMissing(work) /\ NoResultDeleted(work, row) /\ Honoured(work) /\ OneRunning(work)
    BY <2>4 DEF InputsMissing, NoResultDeleted, Honoured, OneRunning
  <2>6. Acyclic(work)
    BY <2>4 DEF Acyclic, HasCycle
  <2> QED BY <2>1, <2>2, <2>3, <2>5, <2>6 DEF WorksInv, Sound
<1>6. IdleInv
  BY <1>2 DEF IdleInv, IdleAgentHasNoWork, Deleting, NextRound
<1>7. HostsInv
  BY DEF HostsInv, NoLoop, NoTask, NextRound
<1>8. TasksInv
  BY DEF TasksInv, HeldSlots, RunningWorks, NoLoop, NoTask
<1>9. StopsInv
  BY <1>2 DEF StopsInv, StopHitsOnlyItsWork, NoTask
<1>10. SlotsInv
  BY <1>0, FS_EmptySet DEF SlotsInv, SlotHasOwner
<1>11. WaitIsWoken
  BY DEF WaitIsWoken, NoWaiter
<1> QED BY <1>4, <1>5, <1>6, <1>7, <1>8, <1>9, <1>10, <1>11 DEF AgentInv

(* Every step keeps the whole invariant. *)
LEMMA AgentStep == AgentInv /\ [Next]_vars => AgentInv'
<1> SUFFICES ASSUME AgentInv, [Next]_vars PROVE AgentInv'
  OBVIOUS
<1>1. CASE Next
  <2>1. WorksInv' /\ TypeOK'
    BY <1>1, WorksInvStep, TypeStep
  <2>2. IdleInv' /\ HostsInv'
    BY <1>1, IdleStep, HostsStep
  <2>3. TasksInv'
    BY <1>1, HeldSlotsStep, RunningWorksStep DEF TasksInv
  <2>4. StopsInv' /\ SlotsInv'
    BY <1>1, StopsStep, SlotCountStep, SlotOwnersStep DEF SlotsInv
  <2>5. WaitIsWoken'
    BY <1>1, WaitStep
  <2> QED BY <2>1, <2>2, <2>3, <2>4, <2>5 DEF AgentInv
<1>2. CASE UNCHANGED vars
  BY <1>2 DEF vars, AgentInv, TypeOK, WorksInv, IdleInv, IdleAgentHasNoWork, Busy, OfAgent,
       InSt,
     Deleting, ResultsTaken, HostsInv, TasksInv, HeldSlots, RunningWorks, Live, StopsInv,
     StopHitsOnlyItsWork, SlotsInv, SlotHasOwner, WaitIsWoken
<1> QED BY <1>1, <1>2

(* The inductive invariant holds in every state. *)
LEMMA AgentInvariant == Spec => []AgentInv
BY InitSound, AgentStep, PTL DEF Spec

(* One running work at most is one work at most by number. *)
LEMMA RunsOne ==
    ASSUME AgentInv, NEW a \in Agents
    PROVE  Cardinality(OfAgent(a, {"RUNNING"})) <= 1
<1>1. CASE OfAgent(a, {"RUNNING"}) = {}
  BY <1>1, FS_EmptySet
<1>2. CASE OfAgent(a, {"RUNNING"}) # {}
  <2>1. PICK w \in OfAgent(a, {"RUNNING"}) : TRUE
    BY <1>2
  <2>2. OfAgent(a, {"RUNNING"}) = {w}
    BY <2>1 DEF AgentInv, WorksInv, Sound, OneRunning, OfAgent
  <2> QED BY <2>2, FS_Singleton
<1> QED BY <1>1, <1>2

(* Whatever scheduler, delivery, turns, stops, retirements, lost leases and *)
(* crashes do on older readings, for any Agents, batches and dependencies:  *)
(* pending works never wait for each other in a circle, a work runs only    *)
(* with its dependencies completed and is given up only for one that did    *)
(* not succeed, a stop ends only works it was asked for, and an Agent with  *)
(* a running idle clock has no work.                                        *)
THEOREM WorksAreSettledSoundly == Spec => []WorkInv
<1>1. AgentInv => WorkInv
  BY DEF AgentInv, WorksInv, Sound, Acyclic, NoWaitingCycle, Honoured, Ran, StopsInv, IdleInv,
     DependenciesAreHonoured, WorkInv
<1> QED BY <1>1, AgentInvariant, PTL

(* For any capacity and any number of Agents: the shared capacity is never  *)
(* exceeded, a task that starts or runs under a valid lease holds a slot,   *)
(* an Agent runs one work at a time, and every taken slot has an owner that *)
(* is about to use it or to give it back.                                   *)
THEOREM SlotsFollowTasks == Spec => []SlotInv
<1>1. AgentInv => SlotInv
  BY RunsOne DEF AgentInv, SlotsInv, TasksInv, HeldSlots, ExecutionWithinCapacity, SlotInv
<1> QED BY <1>1, AgentInvariant, PTL

(* wait_agent sleeps only while one of its works still goes on or a         *)
(* notification reaches it, at whatever point the works end.                *)
THEOREM NoChangeIsMissed == Spec => []WaitIsWoken
<1>1. AgentInv => WaitIsWoken
  BY DEF AgentInv
<1> QED BY <1>1, AgentInvariant, PTL

=============================================================================
