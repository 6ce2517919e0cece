-------------------------- MODULE CompactionProofs --------------------------
(***************************************************************************)
(* Theorems about Compaction, for any commands, writers and bounds: the    *)
(* source of a summary stands still, an adoption is one fact for the       *)
(* store, the slot and the caller, and nothing is left without an owner.   *)
(***************************************************************************)
EXTENDS Compaction, SequenceTheorems, TLAPS

-----------------------------------------------------------------------------
(* The inductive invariant                                                  *)

(* Where an attempt holds the safe-point handle and a frozen cut. *)
Held == {"plan", "stream", "repair", "fit"}

(* The lane and the fence are where the program counters say. *)
Lanes ==
    /\ \A t \in Tasks : pc[t] \in Fenced \cup {"install"} <=> lane = t
    /\ \A t \in Tasks : pc[t] \in Fenced => fence # None /\ fence.owner = t
    /\ ~LockHeld => (fence # None => pc[fence.owner] \in Fenced)
    /\ FenceExcludesWriters

(* Each kind of task passes only through its own steps. *)
Places ==
    /\ pc[Root] \in Attempting \cup {"off", "admit", "run", "model"}
    /\ \A w \in Writers : pc[w] \in Attempting \cup {"off", "hold", "release"}
    /\ \A c \in Commands :
          pc[c] \in Attempting \cup {"off", "check", "confirm", "accept", "request", "claim",
                                     "settle"}
    /\ \A w \in Writers : pc[w] # "off" <=> w \in writes
    /\ \A t \in Tasks : result[t] # "none" => pc[t] \in {"remove", "ended", "settle"}

(* Only the ROOT task of a Host that owns the session keeps a turn running. *)
Roots ==
    /\ store.running => ~stale /\ pc[Root] \notin {"off", "admit"}
    /\ pc[Root] = "admit" => store.pending > 0

(* A command is alone on an idle session, and keeps the cut it has read. *)
Alone ==
    \A c \in Commands : pc[c] # "off" =>
        /\ pc[Root] = "off"
        /\ \A d \in Commands : pc[d] # "off" => d = c
        /\ pc[c] # "check" => plan[c].head = store.head /\ plan[c].turn = store.turn

(* The handle, the frozen base and the settlement follow the attempts. *)
Handles ==
    /\ \A t \in Tasks : pc[t] \in Held =>
          /\ handle = t /\ cont.kind \in {"EMPTY", "INSTALLED"}
          /\ ~stale => plan[t].base = store.rev
    /\ handle \in Tasks => pc[handle] \in Held \cup {"model"}
    /\ pc[Root] = "model" => handle = Root
    /\ \A t \in Tasks : pc[t] = "join" <=> settle # None /\ settle.owner = t
    /\ handle = "settlement" => settle # None /\ settle.pc # "done"
    /\ settle # None => handle \notin Tasks

(* A successor is in the hands of the settlement or of the task it returned to. *)
Successors ==
    /\ \A t \in Tasks : result[t] = "SUCCESSOR" =>
          /\ t \notin Commands /\ pc[t] \in {"remove", "ended"}
          /\ handle = "successor" /\ settle = None
          /\ \A u \in Tasks : result[u] = "SUCCESSOR" => u = t
    /\ settle # None /\ settle.res = "SUCCESSOR" =>
          settle.pc = "done" /\ handle = "successor" /\ settle.owner \notin Commands
    /\ ~LockHeld /\ handle = "successor" =>
          \/ settle # None /\ settle.res = "SUCCESSOR"
          \/ \E t \in Tasks : result[t] = "SUCCESSOR"

AdoptedResults == {"COMPACTED", "POST_FAILURE", "BLOCKED", "SUCCESSOR"}

(* What a settlement knows of the store at each of its steps, while this    *)
(* Host owns the session, and what it has made of the slot.                 *)
Settles ==
    settle # None =>
        /\ settle.pc # "done" => settle.res = "none"
        /\ settle.pc = "done" => settle.res \in AdoptedResults \cup {"FAILED", "STALE"}
        /\ settle.owner \in Commands =>
              settle.pc \notin {"status", "rotate"} /\ settle.res \notin {"BLOCKED", "SUCCESSOR"}
        /\ settle.pc \in {"confirm", "adopt", "reconfirm"} =>
              /\ cont.kind = (IF settle.empty THEN "PENDING" ELSE "INSTALLED")
              /\ handle = "settlement"
        /\ settle.pc \in {"hooks", "status", "rotate"} =>
              cont.kind = (IF settle.empty THEN "EMPTY" ELSE "INSTALLED")
        /\ ~stale =>
              /\ \/ store.rev = settle.base
                 \/ store.rev = settle.base + 1 /\ store.by = settle.owner
              /\ settle.pc \in {"adopt", "reconfirm"} => store.rev = settle.base
              /\ settle.pc \in {"hooks", "status", "rotate"} => store.rev = settle.base + 1
              /\ settle.pc = "done" =>
                    /\ settle.res # "STALE"
                    /\ cont.kind \in {"EMPTY", "INSTALLED", "ABANDONED"}
                    /\ settle.res \in AdoptedResults => store.rev = settle.base + 1
                    /\ settle.res = "FAILED" => store.rev = settle.base
                    /\ settle.res \in AdoptedResults \ {"SUCCESSOR"} => cont.kind = "EMPTY"
              /\ cont.kind = "INSTALLED" => cont.base = settle.base

(* An installed slot that nobody is replacing stands on the bound base. *)
Slot ==
    /\ pc[Root] = "model" /\ ~stale => cont.kind = "INSTALLED" /\ cont.base = store.rev
    /\ SlotGivenBack
    /\ ~stale /\ cont.kind = "INSTALLED" /\ settle = None /\ handle # "successor" =>
          cont.base = store.rev

(* Nobody holds an input frozen from an abandoned slot. *)
Unused == cont.kind = "ABANDONED" => handle = None

(* A closing owner has no waiter and no foreground work, a closed one no task. *)
Closing ==
    /\ OwnerClosing => waiter = None /\ \A t \in Writers \cup {Root} : pc[t] = "off"
    /\ host = "closed" => \A t \in Tasks : pc[t] = "off"

(* An answer, and a result, that agree with the store. *)
TrueOf(word, c) ==
    /\ word \in {"FAILED", "BUSY", "NOT_NEEDED"} => c \notin store.adopted
    /\ word = "COMPACTED" => c \in store.adopted

ResultIsTrue(res, c) ==
    /\ res \in {"COMPACTED", "POST_FAILURE"} => c \in store.adopted
    /\ res \notin {"COMPACTED", "POST_FAILURE", "CANCELLED"} => c \notin store.adopted

(* A command past its admission has a row, is fenced once at most, and its  *)
(* result, its kept outcome and its answer agree with the adoptions.        *)
OnceOf(c) ==
    /\ pc[c] \in Attempting \cup {"request", "claim", "settle"} => HasRow(c)
    /\ ran[c] <= 1
    /\ ran[c] = 1 => HasRow(c)
    /\ pc[c] \in {"check", "confirm", "accept", "request", "claim", "lane", "install"} =>
          ran[c] = 0
    /\ pc[c] \in Fenced => ran[c] = 1
    /\ c \in store.adopted => ran[c] = 1
    /\ ~stale =>
          /\ pc[c] \in {"freeze"} \cup Held => c \notin store.adopted
          /\ pc[c] = "join" => (c \in store.adopted <=> store.rev = settle.base + 1)
          /\ pc[c] \in {"remove", "ended", "settle"} => ResultIsTrue(result[c], c)
          /\ pc[c] = "off" => TrueOf(told[c], c)

OutcomeIsTrue(o) == HasRow(o.cmd) /\ pc[o.cmd] = "off" /\ (~stale => TrueOf(o.out, o.cmd))

Once ==
    /\ asked = {}
    /\ \A c \in Commands : OnceOf(c)
    /\ \A i \in 1 .. Len(outcomes) : OutcomeIsTrue(outcomes[i])

CompactionInv ==
    /\ TypeOK /\ Lanes /\ Places /\ Roots /\ Alone /\ Handles
    /\ Successors /\ Settles /\ Slot /\ Unused /\ Closing

-----------------------------------------------------------------------------
(* The records of the variables, by name. *)
PcPlaces == Attempting \cup {"off", "admit", "run", "model", "hold", "release", "check",
                             "confirm", "accept", "request", "claim", "settle"}

FenceRecords == [owner : Tasks, phase : Phases]

PlanRecords == [base : Nat, head : Nat, turn : Nat, replans : 0..MaxReplans]

WaiterRecords == [cmd : Commands, started : BOOLEAN]

OutcomeRecords == [cmd : Commands, out : Told]

StoreRecords == [head : 0..MaxHead, rev : Nat, by : Tasks \cup {None}, turn : Nat,
                 running : BOOLEAN, pending : Nat, rows : SUBSET Cuts,
                 adopted : SUBSET Commands]

ContRecords == [kind : {"EMPTY", "PENDING", "ABANDONED", "INSTALLED", "QUARANTINE", "CLOSED"},
                base : Nat]

BudgetRecords == [faults : Nat, stops : Nat, crashes : Nat, prompts : Nat]

(* TypeOK with the records named. *)
Types ==
    /\ host \in {"open", "closing", "joining", "closed"}
    /\ stale \in BOOLEAN
    /\ lane \in Tasks \cup {None}
    /\ fence \in FenceRecords \cup {None}
    /\ writes \subseteq Writers
    /\ pc \in [Tasks -> PcPlaces]
    /\ cancel \in [Tasks -> BOOLEAN]
    /\ plan \in [Tasks -> PlanRecords]
    /\ result \in [Tasks -> Results]
    /\ waiter \in WaiterRecords \cup {None}
    /\ outcomes \in Seq(OutcomeRecords) /\ Len(outcomes) <= MaxOutcomes
    /\ asked \subseteq Commands
    /\ told \in [Commands -> Told]
    /\ ran \in [Commands -> Nat]
    /\ settle \in Settlements \cup {None}
    /\ store \in StoreRecords
    /\ cont \in ContRecords
    /\ handle \in Tasks \cup {None, "settlement", "successor"}
    /\ failures \in 0..MaxFailures
    /\ budget \in BudgetRecords

(* TypeOK and Types are one statement. *)
LEMMA TypesNamed == TypeOK <=> Types
BY DEF TypeOK, Types, PcPlaces, FenceRecords, PlanRecords, WaiterRecords, OutcomeRecords,
       StoreRecords, ContRecords, BudgetRecords

(* The kinds of tasks are apart, and None is none of them. *)
LEMMA TasksApart ==
    /\ Root \in Tasks /\ Commands \subseteq Tasks /\ Writers \subseteq Tasks
    /\ \A t \in Tasks : t \in Commands \/ t \in Writers \/ t = Root
    /\ Root \notin Commands /\ Root \notin Writers
    /\ \A c \in Commands : c \notin Writers
    /\ None \notin Tasks
BY CompactionAssumption DEF Tasks

(* The other holders of a handle are no tasks. *)
LEMMA HoldersApart ==
    /\ "settlement" \notin Tasks /\ "successor" \notin Tasks
    /\ "settlement" # None /\ "successor" # None
BY NoneAssumption

(* A fence has an owner, keeps it through its phases, and is not None. *)
LEMMA FenceFields ==
    /\ None \notin FenceRecords
    /\ \A f \in FenceRecords : f.owner \in Tasks
    /\ \A f \in FenceRecords, p \in Phases :
          /\ [f EXCEPT !.phase = p] \in FenceRecords
          /\ [f EXCEPT !.phase = p].owner = f.owner
    /\ \A t \in Tasks, p \in Phases :
          /\ [owner |-> t, phase |-> p] \in FenceRecords
          /\ [owner |-> t, phase |-> p].owner = t
BY NoneAssumption DEF FenceRecords

(* What a settlement is made of. *)
LEMMA SettleFields ==
    ASSUME NEW s \in Settlements
    PROVE  /\ s # None
           /\ s.owner \in Tasks /\ s.base \in Nat /\ s.head \in Nat /\ s.empty \in BOOLEAN
           /\ s.res \in Results
<1>1. s # None
  BY NoneAssumption
<1>2. /\ s.owner \in Tasks /\ s.base \in Nat /\ s.head \in Nat /\ s.empty \in BOOLEAN
      /\ s.res \in Results
  BY DEF Settlements
<1> QED BY <1>1, <1>2

(* The settlement an attempt starts. *)
Settling(t) ==
    [owner |-> t, base |-> plan[t].base, head |-> plan[t].head, empty |-> cont.kind = "EMPTY",
     pc |-> "confirm", proceed |-> TRUE, res |-> "none"]

(* The settlement of an attempt starts with its plan, and waits for a first confirmation. *)
LEMMA SettlingFields ==
    ASSUME NEW t \in Tasks, plan \in [Tasks -> PlanRecords]
    PROVE  /\ Settling(t) \in Settlements /\ Settling(t) # None
           /\ Settling(t).owner = t /\ Settling(t).base = plan[t].base
           /\ Settling(t).empty = (cont.kind = "EMPTY")
           /\ Settling(t).pc = "confirm" /\ Settling(t).res = "none"
<1>1. plan[t].base \in Nat /\ plan[t].head \in Nat
  BY DEF PlanRecords
<1>2. /\ Settling(t) \in Settlements
      /\ Settling(t).owner = t /\ Settling(t).base = plan[t].base
      /\ Settling(t).empty = (cont.kind = "EMPTY")
      /\ Settling(t).pc = "confirm" /\ Settling(t).res = "none"
  BY <1>1 DEF Settling, Settlements, Results
<1> QED BY <1>2, SettleFields

(* What the transactions do to the store, field by field. *)
LEMMA StoreFields ==
    ASSUME NEW s \in StoreRecords
    PROVE  /\ s.head \in 0..MaxHead /\ s.rev \in Nat /\ s.by \in Tasks \cup {None}
           /\ s.turn \in Nat /\ s.running \in BOOLEAN /\ s.pending \in Nat
           /\ s.rows \subseteq Cuts /\ s.adopted \subseteq Commands
BY DEF StoreRecords

Appends == store' = [store EXCEPT !.head = @ + 1]

(* An appended entry moves the head and nothing else. *)
LEMMA AppendsFields ==
    ASSUME store \in StoreRecords, Append1, Appends
    PROVE  /\ store' \in StoreRecords
           /\ store'.head = store.head + 1 /\ store'.rev = store.rev /\ store'.by = store.by
           /\ store'.turn = store.turn /\ store'.running = store.running
           /\ store'.pending = store.pending /\ store'.rows = store.rows
           /\ store'.adopted = store.adopted
BY CompactionAssumption DEF StoreRecords, Append1, Appends

Halts == store' = [store EXCEPT !.running = FALSE]

(* The end of a turn leaves its entries, its bindings and its rows. *)
LEMMA HaltsFields ==
    ASSUME store \in StoreRecords, Halts
    PROVE  /\ store' \in StoreRecords
           /\ store'.head = store.head /\ store'.rev = store.rev /\ store'.by = store.by
           /\ store'.turn = store.turn /\ store'.running = FALSE
           /\ store'.pending = store.pending /\ store'.rows = store.rows
           /\ store'.adopted = store.adopted
BY DEF StoreRecords, Halts

(* A submitted prompt is one more pending prompt. *)
LEMMA SubmitFields ==
    ASSUME store \in StoreRecords, SubmitPrompt
    PROVE  /\ store' \in StoreRecords
           /\ store'.head = store.head /\ store'.rev = store.rev /\ store'.by = store.by
           /\ store'.turn = store.turn /\ store'.running = store.running
           /\ store'.pending = store.pending + 1 /\ store'.rows = store.rows
           /\ store'.adopted = store.adopted
BY DEF StoreRecords, SubmitPrompt

(* A started turn has consumed a prompt and appended its first entry. *)
LEMMA StartFields ==
    ASSUME store \in StoreRecords, store.pending > 0, StartTurn
    PROVE  /\ store' \in StoreRecords
           /\ store'.head = store.head + 1 /\ store'.rev = store.rev /\ store'.by = store.by
           /\ store'.turn = store.turn + 1 /\ store'.running = TRUE
           /\ store'.pending = store.pending - 1 /\ store'.rows = store.rows
           /\ store'.adopted = store.adopted
<1> DEFINE s1 == [store EXCEPT !.pending = @ - 1]
           s2 == [s1 EXCEPT !.turn = @ + 1]
           s3 == [s2 EXCEPT !.running = TRUE]
           s4 == [s3 EXCEPT !.head = @ + 1]
<1>0. store' = s4 /\ store.head < MaxHead
  BY DEF StartTurn, Append1
<1>1. /\ s1 \in StoreRecords /\ s1.pending = store.pending - 1
      /\ s1.head = store.head /\ s1.rev = store.rev /\ s1.by = store.by
      /\ s1.turn = store.turn /\ s1.rows = store.rows /\ s1.adopted = store.adopted
  BY DEF StoreRecords
<1> HIDE DEF s1
<1>2. /\ s2 \in StoreRecords /\ s2.pending = s1.pending
      /\ s2.head = s1.head /\ s2.rev = s1.rev /\ s2.by = s1.by
      /\ s2.turn = s1.turn + 1 /\ s2.rows = s1.rows /\ s2.adopted = s1.adopted
  BY <1>1 DEF StoreRecords
<1> HIDE DEF s2
<1>3. /\ s3 \in StoreRecords /\ s3.pending = s2.pending /\ s3.running = TRUE
      /\ s3.head = s2.head /\ s3.rev = s2.rev /\ s3.by = s2.by
      /\ s3.turn = s2.turn /\ s3.rows = s2.rows /\ s3.adopted = s2.adopted
  BY <1>2 DEF StoreRecords
<1> HIDE DEF s3
<1>4. /\ s3.head < MaxHead => s4 \in StoreRecords
      /\ s4.pending = s3.pending /\ s4.running = TRUE
      /\ s4.head = s3.head + 1 /\ s4.rev = s3.rev /\ s4.by = s3.by
      /\ s4.turn = s3.turn /\ s4.rows = s3.rows /\ s4.adopted = s3.adopted
  BY <1>3, CompactionAssumption DEF StoreRecords
<1> QED BY <1>0, <1>1, <1>2, <1>3, <1>4

(* The row of a command is the cut it has read. *)
LEMMA RowFields ==
    ASSUME store \in StoreRecords, plan \in [Tasks -> PlanRecords], NEW c \in Commands,
           store' = [store EXCEPT !.rows = @ \cup {Row(c)}]
    PROVE  /\ store' \in StoreRecords
           /\ store'.head = store.head /\ store'.rev = store.rev /\ store'.by = store.by
           /\ store'.turn = store.turn /\ store'.running = store.running
           /\ store'.pending = store.pending /\ store'.rows = store.rows \cup {Row(c)}
           /\ store'.adopted = store.adopted
           /\ Row(c).cmd = c
<1>1. Row(c) \in Cuts /\ Row(c).cmd = c
  BY TasksApart DEF Row, Cuts, PlanRecords
<1> QED BY <1>1 DEF StoreRecords

(* An adoption moves the binding by one revision and credits its command. *)
LEMMA AdoptedFields ==
    ASSUME store \in StoreRecords, settle \in Settlements, store' = Adopted
    PROVE  /\ store' \in StoreRecords
           /\ store'.head = store.head /\ store'.rev = store.rev + 1
           /\ store'.by = settle.owner
           /\ store'.turn = store.turn /\ store'.running = store.running
           /\ store'.pending = store.pending /\ store'.rows = store.rows
           /\ store'.adopted = store.adopted \cup ({settle.owner} \cap Commands)
<1> DEFINE s1 == [store EXCEPT !.rev = @ + 1]
           s2 == [s1 EXCEPT !.by = settle.owner]
           s3 == [s2 EXCEPT !.adopted = @ \cup ({settle.owner} \cap Commands)]
<1>a. store' = s3
  BY DEF Adopted
<1>b. settle.owner \in Tasks
  BY DEF Settlements
<1>0. store' = s3 /\ settle.owner \in Tasks
  BY <1>a, <1>b
<1>1. /\ s1 \in StoreRecords /\ s1.pending = store.pending /\ s1.running = store.running
      /\ s1.head = store.head /\ s1.rev = store.rev + 1
      /\ s1.turn = store.turn /\ s1.rows = store.rows /\ s1.adopted = store.adopted
  BY DEF StoreRecords
<1> HIDE DEF s1
<1>2. /\ s2 \in StoreRecords /\ s2.pending = s1.pending /\ s2.running = s1.running
      /\ s2.head = s1.head /\ s2.rev = s1.rev /\ s2.by = settle.owner
      /\ s2.turn = s1.turn /\ s2.rows = s1.rows /\ s2.adopted = s1.adopted
  BY <1>0, <1>1 DEF StoreRecords
<1> HIDE DEF s2
<1>3. /\ s3 \in StoreRecords /\ s3.pending = s2.pending /\ s3.running = s2.running
      /\ s3.head = s2.head /\ s3.rev = s2.rev /\ s3.by = s2.by
      /\ s3.turn = s2.turn /\ s3.rows = s2.rows
      /\ s3.adopted = s2.adopted \cup ({settle.owner} \cap Commands)
  BY <1>2 DEF StoreRecords
<1> QED BY <1>0, <1>1, <1>2, <1>3

(* What another Host may do to the store. *)
LEMMA TakeoverFields ==
    ASSUME store \in StoreRecords, Takeover
    PROVE  /\ store' \in StoreRecords
           /\ store'.head = store.head
           /\ store'.turn = store.turn /\ store'.running = FALSE
           /\ store'.pending = store.pending /\ store'.rows = store.rows
           /\ store'.adopted = store.adopted
<1>0. PICK rev \in {store.rev, store.rev + 1} :
         store' = [store EXCEPT !.running = FALSE, !.rev = rev,
                                !.by = IF rev = store.rev THEN @ ELSE None]
  BY DEF Takeover
<1> DEFINE s1 == [store EXCEPT !.running = FALSE]
           s2 == [s1 EXCEPT !.rev = rev]
           s3 == [s2 EXCEPT !.by = IF rev = store.rev THEN @ ELSE None]
<1>1. /\ s1 \in StoreRecords /\ s1.pending = store.pending /\ s1.running = FALSE
      /\ s1.head = store.head
      /\ s1.turn = store.turn /\ s1.rows = store.rows /\ s1.adopted = store.adopted
  BY DEF StoreRecords
<1>2. rev \in Nat
  BY <1>0 DEF StoreRecords
<1>3. store' = s3
  BY <1>0
<1> HIDE DEF s1
<1>4. /\ s2 \in StoreRecords /\ s2.pending = s1.pending /\ s2.running = s1.running
      /\ s2.head = s1.head
      /\ s2.turn = s1.turn /\ s2.rows = s1.rows /\ s2.adopted = s1.adopted
  BY <1>1, <1>2 DEF StoreRecords
<1> HIDE DEF s2
<1>5. /\ s3 \in StoreRecords /\ s3.pending = s2.pending /\ s3.running = s2.running
      /\ s3.head = s2.head
      /\ s3.turn = s2.turn /\ s3.rows = s2.rows /\ s3.adopted = s2.adopted
  BY <1>4 DEF StoreRecords
<1> QED BY <1>1, <1>3, <1>4, <1>5

(* A task goes from p on to one of Q, and only this task moves. *)
Moves(t, p, Q) == pc[t] = p /\ \E q \in Q : pc' = [pc EXCEPT ![t] = q]

(* The steps of an attempt. *)
LEMMA AttemptsMoves ==
    ASSUME NEW t \in Tasks
    PROVE  /\ AcquireLane(t) => Moves(t, "lane", {"install"})
           /\ CancelBeforeFence(t) => \E p \in {"lane", "install"} : Moves(t, p, {"ended"})
           /\ Install(t) => Moves(t, "install", {"freeze", "ended"})
           /\ Freeze(t) => Moves(t, "freeze", {"plan", "remove"})
           /\ Plan(t) => Moves(t, "plan", {"stream", "remove"})
           /\ Stream(t) => \E p \in {"stream", "repair"} : Moves(t, p, {"repair", "fit", "remove"})
           /\ Fit(t) => Moves(t, "fit", {"freeze", "join", "remove"})
           /\ CancelFenced(t) =>
                 \E p \in {"freeze", "plan", "stream", "repair", "fit"} : Moves(t, p, {"remove"})
           /\ Join(t) => Moves(t, "join", {"remove"})
           /\ Remove(t) => Moves(t, "remove", {"ended"})
           /\ RemoveCancelled(t) => Moves(t, "remove", {"ended"})
<1>1. AcquireLane(t) => Moves(t, "lane", {"install"})
  BY DEF AcquireLane, Goto, Moves
<1>2. CancelBeforeFence(t) => \E p \in {"lane", "install"} : Moves(t, p, {"ended"})
  BY DEF CancelBeforeFence, Goto, Moves
<1>3. Install(t) => Moves(t, "install", {"freeze", "ended"})
  BY DEF Install, Goto, Moves
<1>4. Freeze(t) => Moves(t, "freeze", {"plan", "remove"})
  BY DEF Freeze, Goto, Leave, Moves
<1>5. Plan(t) => Moves(t, "plan", {"stream", "remove"})
  BY DEF Plan, Goto, Leave, Moves
<1>6. Stream(t) => \E p \in {"stream", "repair"} : Moves(t, p, {"repair", "fit", "remove"})
  BY DEF Stream, Goto, Leave, Moves
<1>7. Fit(t) => Moves(t, "fit", {"freeze", "join", "remove"})
  BY DEF Fit, Goto, Leave, Moves
<1>8. CancelFenced(t) =>
         \E p \in {"freeze", "plan", "stream", "repair", "fit"} : Moves(t, p, {"remove"})
  BY DEF CancelFenced, Goto, Leave, Moves
<1>9. Join(t) => Moves(t, "join", {"remove"})
  BY DEF Join, Goto, Moves
<1>10. Remove(t) => Moves(t, "remove", {"ended"})
  BY DEF Remove, Goto, Moves
<1>11. RemoveCancelled(t) => Moves(t, "remove", {"ended"})
  BY DEF RemoveCancelled, Goto, Moves
<1> QED BY <1>1, <1>2, <1>3, <1>4, <1>5, <1>6, <1>7, <1>8, <1>9, <1>10, <1>11

(* The steps of a command outside its attempt. *)
LEMMA CommandMoves ==
    ASSUME NEW c \in Commands
    PROVE  /\ CommandCheck(c) => Moves(c, "check", {"off", "confirm"})
           /\ CommandConfirm(c) => Moves(c, "confirm", {"off", "request", "accept"})
           /\ CommandAccept(c) => Moves(c, "accept", {"off", "request", "confirm"})
           /\ CommandRequest(c) => Moves(c, "request", {"off", "settle", "claim"})
           /\ CommandClaim(c) => Moves(c, "claim", {"off", "lane"})
           /\ CommandEnded(c) => Moves(c, "ended", {"settle"})
           /\ CommandSettle(c) => Moves(c, "settle", {"off"})
<1>1. CommandCheck(c) => Moves(c, "check", {"off", "confirm"})
  BY DEF CommandCheck, Goto, Return, Moves
<1>2. CommandConfirm(c) => Moves(c, "confirm", {"off", "request", "accept"})
  BY DEF CommandConfirm, Goto, Return, Moves
<1>3. CommandAccept(c) => Moves(c, "accept", {"off", "request", "confirm"})
  BY DEF CommandAccept, Goto, Return, Moves
<1>4. CommandRequest(c) => Moves(c, "request", {"off", "settle", "claim"})
  BY DEF CommandRequest, Goto, Return, Moves
<1>5. CommandClaim(c) => Moves(c, "claim", {"off", "lane"})
  BY DEF CommandClaim, Goto, Return, Moves
<1>6. CommandEnded(c) => Moves(c, "ended", {"settle"})
  BY DEF CommandEnded, Goto, Moves
<1>7. CommandSettle(c) => Moves(c, "settle", {"off"})
  BY DEF CommandSettle, Goto, Return, Moves
<1> QED BY <1>1, <1>2, <1>3, <1>4, <1>5, <1>6, <1>7

(* The steps of a writer outside its attempt. *)
LEMMA WriterMoves ==
    ASSUME NEW w \in Writers
    PROVE  /\ WriterReserve(w) => Moves(w, "off", {"hold"})
           /\ WriterCompact(w) => Moves(w, "hold", {"lane"})
           /\ WriterWrite(w) => Moves(w, "hold", {"release"})
           /\ WriterRelease(w) => Moves(w, "release", {"off"})
           /\ WriterEnded(w) => Moves(w, "ended", {"release"})
<1>1. WriterReserve(w) => Moves(w, "off", {"hold"})
  BY DEF WriterReserve, Goto, Moves
<1>2. WriterCompact(w) => Moves(w, "hold", {"lane"})
  BY DEF WriterCompact, Goto, Moves
<1>3. WriterWrite(w) => Moves(w, "hold", {"release"})
  BY DEF WriterWrite, Goto, Moves
<1>4. WriterRelease(w) => Moves(w, "release", {"off"})
  BY DEF WriterRelease, Goto, Moves
<1>5. WriterEnded(w) => Moves(w, "ended", {"release"})
  BY DEF WriterEnded, Goto, Moves
<1> QED BY <1>1, <1>2, <1>3, <1>4, <1>5

(* The steps of the ROOT task outside its attempt. *)
LEMMA RootMoves ==
    /\ Deliver => Moves(Root, "off", {"admit"})
    /\ RootDispatch => Moves(Root, "run", {"model"})
    /\ RootCompact => Moves(Root, "run", {"lane"})
    /\ StartTurn => Moves(Root, "admit", {"run"})
    /\ EndRoot => \E p \in {"run", "admit"} : Moves(Root, p, {"off"})
    /\ RootAnswer => Moves(Root, "model", {"run"})
    /\ RootEnded => Moves(Root, "ended", {"model", "run", "off"})
<1>1. RootEnded => Moves(Root, "ended", {"model", "run", "off"})
  BY DEF RootEnded, Goto, Moves
<1> QED
  BY <1>1 DEF Deliver, RootDispatch, RootCompact, StartTurn, EndRoot, RootAnswer, Goto, Moves

(* A request either stays outside or enters the check of an idle session. *)
LEMMA RequestMoves ==
    ASSUME NEW c \in Commands
    PROVE  /\ RequestCommand(c) =>
                 UNCHANGED pc \/ (Moves(c, "off", {"check"}) /\ Idle /\ host = "open")
           /\ RequestLate(c) =>
                 UNCHANGED pc \/ (Moves(c, "off", {"check"}) /\ Idle /\ host = "open")
<1>1. ASSUME RequestCommand(c)
      PROVE  UNCHANGED pc \/ (Moves(c, "off", {"check"}) /\ Idle /\ host = "open")
  BY <1>1 DEF RequestCommand, Goto, Moves
<1>2. ASSUME RequestLate(c)
      PROVE  UNCHANGED pc \/ (Moves(c, "off", {"check"}) /\ Idle /\ host = "open")
  BY <1>2 DEF RequestLate, Goto, Moves
<1> QED BY <1>1, <1>2

(* What a step leaves alone in the store. *)
KeepsBinding == store'.rev = store.rev /\ store'.by = store.by
KeepsTurn == /\ store'.turn = store.turn /\ store'.running = store.running
             /\ store'.pending = store.pending
KeepsRows == store'.rows = store.rows /\ store'.adopted = store.adopted

(* An entry is appended, by a Host that owns the session, or nothing is. *)
MayAppend ==
    /\ store' \in StoreRecords
    /\ KeepsBinding /\ KeepsTurn /\ KeepsRows
    /\ store'.head = store.head \/ (store'.head = store.head + 1 /\ ~stale)

(* The steps that append: of ROOT, and of a writer while a turn runs. *)
LEMMA AppendEffects ==
    ASSUME store \in StoreRecords
    PROVE  /\ RootAppend => MayAppend
           /\ RootAnswer => MayAppend
           /\ \A w \in Writers :
                 WriterWrite(w) \/ WriterEnded(w) =>
                     MayAppend /\ (store'.head # store.head => store.running)
<1>1. CASE store' = store
  BY <1>1 DEF MayAppend, KeepsBinding, KeepsTurn, KeepsRows
<1>2. ASSUME Append1, Appends, ~stale PROVE MayAppend
  BY <1>2, AppendsFields DEF MayAppend, KeepsBinding, KeepsTurn, KeepsRows
<1>3. RootAppend => Append1 /\ Appends /\ ~stale
  BY DEF RootAppend, Appends
<1>4. RootAnswer => store' = store \/ (Append1 /\ Appends /\ ~stale)
  BY DEF RootAnswer, Appends
<1>5. ASSUME NEW w \in Writers, WriterWrite(w)
      PROVE  store' = store \/ (Append1 /\ Appends /\ ~stale /\ store.running)
  BY <1>5 DEF WriterWrite, Appends
<1>6. ASSUME NEW w \in Writers, WriterEnded(w)
      PROVE  store' = store \/ (Append1 /\ Appends /\ ~stale /\ store.running)
  BY <1>6 DEF WriterEnded, Appends
<1> QED BY <1>1, <1>2, <1>3, <1>4, <1>5, <1>6

(* The turn of a Host that owns the session ends, with its ROOT task. *)
MayHalt ==
    /\ store' \in StoreRecords
    /\ KeepsBinding /\ KeepsRows
    /\ store'.head = store.head /\ store'.turn = store.turn /\ store'.pending = store.pending
    /\ IF stale THEN store'.running = store.running ELSE store'.running = FALSE

(* The steps that end the turn of a Host that owns the session. *)
LEMMA HaltEffects ==
    ASSUME store \in StoreRecords
    PROVE  /\ EndRoot => MayHalt
           /\ RootEnded =>
                 \/ MayHalt
                 \/ store' = store /\ \E q \in {"model", "run"} : pc' = [pc EXCEPT ![Root] = q]
<1>1. ASSUME stale, store' = store PROVE MayHalt
  BY <1>1 DEF MayHalt, KeepsBinding, KeepsTurn, KeepsRows
<1>2. ASSUME Halts, ~stale PROVE MayHalt
  BY <1>2, HaltsFields DEF MayHalt, KeepsBinding, KeepsTurn, KeepsRows
<1>3. EndRoot => (stale /\ store' = store) \/ (~stale /\ Halts)
  BY DEF EndRoot, Halts
<1>4. RootEnded => \/ stale /\ store' = store
                   \/ ~stale /\ Halts
                   \/ store' = store /\ \E q \in {"model", "run"} : pc' = [pc EXCEPT ![Root] = q]
  BY DEF RootEnded, Halts, Goto
<1> QED BY <1>1, <1>2, <1>3, <1>4

(* The row of a command is written over the state the command has read. *)
MayAccept(c) ==
    /\ store' \in StoreRecords
    /\ KeepsBinding /\ KeepsTurn
    /\ store'.head = store.head /\ store'.adopted = store.adopted
    /\ \/ store'.rows = store.rows
       \/ store'.rows = store.rows \cup {Row(c)} /\ Row(c).cmd = c

(* Accepting a command writes at most its own row. *)
LEMMA AcceptEffects ==
    ASSUME store \in StoreRecords, plan \in [Tasks -> PlanRecords],
           NEW c \in Commands, CommandAccept(c)
    PROVE  MayAccept(c)
<1>1. CASE store' = store
  BY <1>1 DEF MayAccept, KeepsBinding, KeepsTurn
<1>2. CASE store' = [store EXCEPT !.rows = @ \cup {Row(c)}]
  BY <1>2, RowFields DEF MayAccept, KeepsBinding, KeepsTurn
<1> QED BY <1>1, <1>2 DEF CommandAccept

(* The binding moves on by one, over the revision and head the plan froze. *)
MayAdopt ==
    /\ store' \in StoreRecords
    /\ KeepsTurn /\ store'.head = store.head /\ store'.rows = store.rows
    /\ \/ KeepsBinding /\ store'.adopted = store.adopted
       \/ /\ ~stale /\ AdoptPrecondition
          /\ store'.rev = store.rev + 1 /\ store'.by = settle.owner
          /\ store'.adopted = store.adopted \cup ({settle.owner} \cap Commands)

(* The adoption changes the store only over the frozen precondition. *)
LEMMA AdoptEffects ==
    ASSUME store \in StoreRecords, settle \in Settlements \cup {None}, SettleAdopt
    PROVE  MayAdopt
<1>1. CASE store' = store
  BY <1>1 DEF MayAdopt, KeepsBinding, KeepsTurn
<1>2. settle \in Settlements
  BY DEF SettleAdopt
<1>3. CASE store' = Adopted /\ ~stale /\ AdoptPrecondition
  BY <1>2, <1>3, AdoptedFields DEF MayAdopt, KeepsTurn
<1> QED BY <1>1, <1>3 DEF SettleAdopt

(* What the settlement task does to its record, the slot and the handle. *)
SettleTo(p, r) ==
    /\ settle \in Settlements /\ settle' \in Settlements
    /\ settle'.pc = p /\ settle'.res = r
    /\ settle'.owner = settle.owner /\ settle'.base = settle.base
    /\ settle'.empty = settle.empty

ContTo(k, b) == cont' \in ContRecords /\ cont'.kind = k /\ cont'.base = b

(* A settlement goes on to its next step. *)
LEMMA SettleGoes ==
    ASSUME settle \in Settlements,
           NEW p \in {"confirm", "adopt", "reconfirm", "hooks", "status", "rotate"},
           settle' = [settle EXCEPT !.pc = p]
    PROVE  SettleTo(p, settle.res)
BY DEF Settlements, SettleTo

(* A settlement goes on to read the status, with the answer of the hook. *)
LEMMA SettleAsks ==
    ASSUME settle \in Settlements, NEW q \in BOOLEAN,
           settle' = [settle EXCEPT !.pc = "status", !.proceed = q]
    PROVE  SettleTo("status", settle.res)
BY DEF Settlements, SettleTo

(* A settlement ends with a result. *)
LEMMA SettleEnds ==
    ASSUME settle \in Settlements, NEW r \in Results,
           settle' = [settle EXCEPT !.pc = "done", !.res = r]
    PROVE  SettleTo("done", r)
<1> DEFINE s1 == [settle EXCEPT !.pc = "done"]
<1>1. /\ s1 \in Settlements /\ s1.pc = "done"
      /\ s1.owner = settle.owner /\ s1.base = settle.base /\ s1.empty = settle.empty
  BY DEF Settlements
<1>2. settle' = [s1 EXCEPT !.res = r]
  OBVIOUS
<1> HIDE DEF s1
<1> QED BY <1>1, <1>2 DEF Settlements, SettleTo

(* The slot is set to a base. *)
LEMMA ContSet ==
    ASSUME NEW k \in {"EMPTY", "INSTALLED"}, NEW b \in Nat, cont' = [kind |-> k, base |-> b]
    PROVE  ContTo(k, b)
BY DEF ContRecords, ContTo

(* The slot changes its kind and keeps its base. *)
LEMMA ContTurns ==
    ASSUME cont \in ContRecords, NEW k \in {"EMPTY", "PENDING", "ABANDONED", "QUARANTINE", "CLOSED"},
           cont' = [cont EXCEPT !.kind = k]
    PROVE  ContTo(k, cont.base)
BY DEF ContRecords, ContTo

Confirms(kind, next) ==
    \/ /\ kind = "FULL" /\ SettleTo("hooks", settle.res)
       /\ \/ settle.empty /\ ContTo("EMPTY", settle.base + 1) /\ handle' = None
          \/ ~settle.empty /\ UNCHANGED <<cont, handle>>
    \/ /\ kind = "NONE" /\ next # "none" /\ SettleTo(next, settle.res)
       /\ UNCHANGED <<cont, handle>>
    \/ /\ kind = "CONFLICT" \/ (kind = "NONE" /\ next = "none")
       /\ SettleTo("done", "FAILED") /\ handle' = None
       /\ \/ ~settle.empty /\ cont' = cont
          \/ settle.empty /\ kind = "NONE" /\ ContTo("EMPTY", cont.base)
          \/ settle.empty /\ kind = "CONFLICT" /\ ContTo("QUARANTINE", cont.base)

(* A confirmation, by what it does. *)
LEMMA ConfirmedEffects ==
    ASSUME settle \in Settlements, cont \in ContRecords,
           NEW kind, NEW next \in {"none", "adopt"}, Confirmed(kind, next)
    PROVE  Confirms(kind, next)
<1>0. settle.base \in Nat /\ settle.empty \in BOOLEAN /\ "FAILED" \in Results
  BY SettleFields DEF Results
<1>1. ASSUME kind = "FULL", settle' = [settle EXCEPT !.pc = "hooks"],
             IF settle.empty THEN cont' = [kind |-> "EMPTY", base |-> settle.base + 1]
                                  /\ handle' = None
             ELSE UNCHANGED <<cont, handle>>
      PROVE  Confirms(kind, next)
  <2>1. SettleTo("hooks", settle.res)
    BY <1>1, SettleGoes
  <2>2. settle.empty => ContTo("EMPTY", settle.base + 1)
    BY <1>0, <1>1, ContSet
  <2> QED BY <1>0, <1>1, <2>1, <2>2 DEF Confirms
<1>2. ASSUME kind = "NONE", next # "none", settle' = [settle EXCEPT !.pc = next],
             UNCHANGED <<cont, handle>>
      PROVE  Confirms(kind, next)
  <2>1. SettleTo(next, settle.res)
    BY <1>2, SettleGoes
  <2> QED BY <1>2, <2>1 DEF Confirms
<1>3. ASSUME kind = "CONFLICT" \/ (kind = "NONE" /\ next = "none"),
             settle' = [settle EXCEPT !.pc = "done", !.res = "FAILED"],
             cont' = IF ~settle.empty THEN cont
                     ELSE [cont EXCEPT !.kind = IF kind = "NONE" THEN "EMPTY" ELSE "QUARANTINE"],
             handle' = None
      PROVE  Confirms(kind, next)
  <2>1. SettleTo("done", "FAILED")
    BY <1>0, <1>3, SettleEnds
  <2>2. settle.empty => \/ kind = "NONE" /\ ContTo("EMPTY", cont.base)
                        \/ kind = "CONFLICT" /\ ContTo("QUARANTINE", cont.base)
    BY <1>3, ContTurns
  <2> QED BY <1>0, <1>3, <2>1, <2>2 DEF Confirms
<1> QED BY <1>1, <1>2, <1>3 DEF Confirmed

Retires(res) == SettleTo("done", res) /\ ContTo("EMPTY", settle.base + 1) /\ handle' = None

(* A retirement ends the settlement and leaves Empty on the adopted base. *)
LEMMA RetireEffects ==
    ASSUME settle \in Settlements, NEW res \in Results, Retire(res)
    PROVE  Retires(res)
<1>1. SettleTo("done", res)
  BY SettleEnds DEF Retire
<1>2. settle.base \in Nat
  BY SettleFields
<1>3. ContTo("EMPTY", settle.base + 1)
  BY <1>2, ContSet DEF Retire
<1> QED BY <1>1, <1>3 DEF Retires, Retire

(* The steps of the settlement task, by what they do. *)
Adopting ==
    \/ ~stale /\ AdoptPrecondition /\ store' = Adopted /\ Confirms("FULL", "none")
    \/ /\ ~stale /\ AdoptPrecondition /\ store' \in {store, Adopted}
       /\ SettleTo("confirm", settle.res) /\ UNCHANGED <<cont, handle>>
    \/ /\ ~stale /\ ~AdoptPrecondition /\ store' = store
       /\ SettleTo("reconfirm", settle.res) /\ UNCHANGED <<cont, handle>>
    \/ /\ stale /\ store' = store
       /\ SettleTo("done", "STALE") /\ handle' = None /\ cont' = cont

AfterHooks ==
    \/ Retires("POST_FAILURE")
    \/ settle.owner \in Commands /\ Retires("COMPACTED")
    \/ settle.owner \notin Commands /\ SettleTo("status", settle.res) /\ UNCHANGED <<cont, handle>>

AfterStatus ==
    \/ Retires("COMPACTED") \/ Retires("BLOCKED")
    \/ SettleTo("rotate", settle.res) /\ UNCHANGED <<cont, handle>>

AfterRotate ==
    \/ Retires("POST_FAILURE") \/ Retires("BLOCKED")
    \/ SettleTo("done", "SUCCESSOR") /\ handle' = "successor" /\ cont' = cont

Abandons ==
    /\ SettleTo("done", "FAILED") /\ handle' = None
    /\ \/ ~settle.empty /\ cont' = cont
       \/ settle.empty /\ ContTo("ABANDONED", cont.base)

(* Each step of the settlement task, by its program counter and its effect. *)
LEMMA SettlementEffects ==
    ASSUME settle \in Settlements \cup {None}, cont \in ContRecords
    PROVE  /\ SettleConfirm => settle.pc = "confirm" /\ Confirms(Confirmation, "adopt")
           /\ SettleReconfirm => settle.pc = "reconfirm" /\ Confirms(Confirmation, "none")
           /\ ReconfirmRaises => settle.pc = "reconfirm" /\ Abandons
           /\ SettleAdopt => settle.pc = "adopt" /\ Adopting
           /\ SettleHooks => settle.pc = "hooks" /\ AfterHooks
           /\ SettleStatus => settle.pc = "status" /\ AfterStatus
           /\ SettleRotate => settle.pc = "rotate" /\ AfterRotate
<1>0. {"POST_FAILURE", "COMPACTED", "BLOCKED", "SUCCESSOR", "STALE"} \subseteq Results
  BY DEF Results
<1>1. SettleConfirm => settle.pc = "confirm" /\ Confirms(Confirmation, "adopt")
  BY ConfirmedEffects DEF SettleConfirm
<1>2. SettleReconfirm => settle.pc = "reconfirm" /\ Confirms(Confirmation, "none")
  BY ConfirmedEffects DEF SettleReconfirm
<1>3. ASSUME SettleAdopt PROVE Adopting
  <2>1. settle \in Settlements
    BY <1>3 DEF SettleAdopt
  <2>2. CASE Confirmed("FULL", "none") /\ store' = Adopted /\ ~stale /\ AdoptPrecondition
    BY <2>1, <2>2, ConfirmedEffects DEF Adopting
  <2>3. settle' = [settle EXCEPT !.pc = "confirm"] => SettleTo("confirm", settle.res)
    BY <2>1, SettleGoes
  <2>4. settle' = [settle EXCEPT !.pc = "reconfirm"] => SettleTo("reconfirm", settle.res)
    BY <2>1, SettleGoes
  <2>5. settle' = [settle EXCEPT !.pc = "done", !.res = "STALE"] => SettleTo("done", "STALE")
    BY <1>0, <2>1, SettleEnds
  <2> QED BY <1>3, <2>2, <2>3, <2>4, <2>5 DEF SettleAdopt, Adopting
<1>4. ASSUME SettleHooks PROVE AfterHooks
  <2>1. settle \in Settlements
    BY <1>4 DEF SettleHooks
  <2>2. ASSUME NEW q \in BOOLEAN, settle' = [settle EXCEPT !.pc = "status", !.proceed = q]
        PROVE  SettleTo("status", settle.res)
    BY <2>1, <2>2, SettleAsks
  <2> QED BY <1>0, <1>4, <2>1, <2>2, RetireEffects DEF SettleHooks, AfterHooks
<1>5. ASSUME SettleStatus PROVE AfterStatus
  <2>1. settle \in Settlements
    BY <1>5 DEF SettleStatus
  <2>2. settle' = [settle EXCEPT !.pc = "rotate"] => SettleTo("rotate", settle.res)
    BY <2>1, SettleGoes
  <2> QED BY <1>0, <1>5, <2>1, <2>2, RetireEffects DEF SettleStatus, AfterStatus
<1>6. ASSUME SettleRotate PROVE AfterRotate
  <2>1. settle \in Settlements
    BY <1>6 DEF SettleRotate
  <2>2. settle' = [settle EXCEPT !.pc = "done", !.res = "SUCCESSOR"] =>
           SettleTo("done", "SUCCESSOR")
    BY <1>0, <2>1, SettleEnds
  <2> QED BY <1>0, <1>6, <2>1, <2>2, RetireEffects DEF SettleRotate, AfterRotate
<1>7. /\ SettleAdopt => settle.pc = "adopt"
      /\ SettleHooks => settle.pc = "hooks"
      /\ SettleStatus => settle.pc = "status"
      /\ SettleRotate => settle.pc = "rotate"
  BY DEF SettleAdopt, SettleHooks, SettleStatus, SettleRotate
<1>8. ASSUME ReconfirmRaises PROVE settle.pc = "reconfirm" /\ Abandons
  <2>1. settle \in Settlements
    BY <1>8 DEF ReconfirmRaises
  <2>2. SettleTo("done", "FAILED")
    BY <1>8, <2>1, SettleEnds DEF ReconfirmRaises, Results
  <2>3. settle.empty => ContTo("ABANDONED", cont.base)
    BY <1>8, ContTurns DEF ReconfirmRaises
  <2> QED BY <1>8, <2>2, <2>3 DEF ReconfirmRaises, Abandons
<1> QED BY <1>1, <1>2, <1>3, <1>4, <1>5, <1>6, <1>7, <1>8

(* Only one task is inside an attempt. *)
LEMMA OneFenced ==
    ASSUME Lanes, NEW t \in Tasks, NEW u \in Tasks,
           pc[t] \in Fenced \cup {"install"}, pc[u] \in Fenced \cup {"install"}
    PROVE  t = u
BY DEF Lanes

(* A settlement belongs to the one attempt that waits for it. *)
LEMMA SettlementAlone ==
    ASSUME Types, Lanes, Handles, settle # None
    PROVE  /\ settle \in Settlements /\ settle.owner \in Tasks /\ pc[settle.owner] = "join"
           /\ \A t \in Tasks : pc[t] \notin Held
           /\ handle \notin Tasks /\ pc[Root] # "model"
<1>1. settle \in Settlements /\ settle.owner \in Tasks
  BY SettleFields DEF Types
<1>2. pc[settle.owner] = "join"
  BY <1>1 DEF Handles
<1>3. ASSUME NEW t \in Tasks, pc[t] \in Held PROVE FALSE
  <2>1. t = settle.owner
    BY <1>1, <1>2, <1>3, OneFenced DEF Fenced, Held
  <2> QED BY <1>2, <1>3, <2>1 DEF Held
<1>4. handle \notin Tasks
  BY DEF Handles
<1>5. pc[Root] # "model"
  BY <1>4, TasksApart DEF Handles
<1> QED BY <1>1, <1>2, <1>3, <1>4, <1>5

(* Who holds the handle inside an attempt. *)
LEMMA HeldAlone ==
    ASSUME Types, Lanes, Handles, NEW t \in Tasks, pc[t] \in Held
    PROVE  /\ handle = t /\ settle = None /\ cont.kind \in {"EMPTY", "INSTALLED"}
           /\ \A u \in Tasks \ {t} : pc[u] \notin Fenced \cup {"install"}
           /\ pc[Root] # "model"
<1>1. handle = t /\ settle = None /\ cont.kind \in {"EMPTY", "INSTALLED"}
  BY DEF Handles
<1>2. \A u \in Tasks \ {t} : pc[u] \notin Fenced \cup {"install"}
  BY OneFenced DEF Fenced, Held
<1>3. pc[Root] # "model"
  BY <1>1, TasksApart DEF Handles, Held
<1> QED BY <1>1, <1>2, <1>3


(* The ordinary call is built while nothing settles. *)
LEMMA DispatchAlone ==
    ASSUME Types, Lanes, Places, Alone, Handles, RootDispatch
    PROVE  settle = None
<1>1. ASSUME settle # None PROVE FALSE
  <2>1. settle.owner \in Tasks /\ pc[settle.owner] = "join"
    BY <1>1, SettlementAlone
  <2>2. writes = {} /\ pc[Root] = "run"
    BY DEF RootDispatch
  <2>3. settle.owner \notin Writers
    BY <2>1, <2>2 DEF Places
  <2>4. settle.owner # Root
    BY <2>1, <2>2
  <2> QED BY <2>1, <2>2, <2>3, <2>4, TasksApart DEF Alone
<1> QED BY <1>1

(* An outcome that is kept is an answer, of the command it was kept for. *)
LEMMA OutcomeTypes ==
    ASSUME Types, NEW c \in Commands
    PROVE  /\ OutcomeOf(c) \subseteq Told
           /\ \A out \in OutcomeOf(c) :
                 \E i \in 1 .. Len(outcomes) : outcomes[i].cmd = c /\ outcomes[i].out = out
           /\ \A i \in 1 .. Len(outcomes) : outcomes[i] \in OutcomeRecords
<1>1. \A i \in 1 .. Len(outcomes) : outcomes[i] \in OutcomeRecords
  BY DEF Types
<1>2. \A o \in OutcomeRecords : o.cmd \in Commands /\ o.out \in Told
  BY DEF OutcomeRecords
<1> QED BY <1>1, <1>2 DEF OutcomeOf

(* The outcomes after a settled command: its own is the last, none is new else. *)
LEMMA KeptOutcomes ==
    ASSUME Types, NEW o \in OutcomeRecords,
           outcomes' = IF Len(Append(outcomes, o)) > MaxOutcomes
                       THEN Tail(Append(outcomes, o)) ELSE Append(outcomes, o)
    PROVE  /\ outcomes' \in Seq(OutcomeRecords) /\ Len(outcomes') <= MaxOutcomes
           /\ \A i \in 1 .. Len(outcomes') :
                 \/ outcomes'[i] = o
                 \/ \E j \in 1 .. Len(outcomes) : outcomes'[i] = outcomes[j]
<1> DEFINE kept == Append(outcomes, o)
<1>0. MaxOutcomes \in Nat /\ MaxOutcomes > 0
  BY CompactionAssumption
<1>1. outcomes \in Seq(OutcomeRecords) /\ Len(outcomes) \in Nat /\ Len(outcomes) <= MaxOutcomes
  BY DEF Types
<1>2. /\ kept \in Seq(OutcomeRecords) /\ Len(kept) = Len(outcomes) + 1
      /\ \A i \in 1 .. Len(outcomes) : kept[i] = outcomes[i]
      /\ kept[Len(outcomes) + 1] = o
  BY <1>1, AppendProperties
<1> HIDE DEF kept
<1>3. ASSUME NEW i \in 1 .. Len(kept)
      PROVE  kept[i] = o \/ \E j \in 1 .. Len(outcomes) : kept[i] = outcomes[j]
  <2>1. CASE i = Len(outcomes) + 1
    BY <1>2, <2>1
  <2>2. CASE i \in 1 .. Len(outcomes)
    BY <1>2, <2>2
  <2> QED BY <1>1, <1>2, <2>1, <2>2
<1>4. CASE outcomes' = kept /\ Len(kept) <= MaxOutcomes
  BY <1>2, <1>3, <1>4
<1>5. CASE outcomes' = Tail(kept)
  <2>1. kept # <<>>
    BY <1>1, <1>2
  <2>2. /\ Tail(kept) \in Seq(OutcomeRecords) /\ Len(Tail(kept)) = Len(kept) - 1
        /\ \A i \in 1 .. Len(Tail(kept)) : Tail(kept)[i] = kept[i + 1]
    BY <1>2, <2>1, HeadTailProperties
  <2>3. ASSUME NEW i \in 1 .. Len(Tail(kept))
        PROVE  \/ Tail(kept)[i] = o
               \/ \E j \in 1 .. Len(outcomes) : Tail(kept)[i] = outcomes[j]
    <3>1. i + 1 \in 1 .. Len(kept)
      BY <1>1, <1>2, <2>2
    <3> QED BY <1>3, <2>2, <3>1
  <2>4. Len(Tail(kept)) <= MaxOutcomes
    BY <1>0, <1>1, <1>2, <2>2
  <2>5. outcomes' \in Seq(OutcomeRecords) /\ Len(outcomes') <= MaxOutcomes
    BY <1>5, <2>2, <2>4
  <2>6. \A i \in 1 .. Len(outcomes') :
           \/ outcomes'[i] = o
           \/ \E j \in 1 .. Len(outcomes) : outcomes'[i] = outcomes[j]
    BY <1>5, <2>3, Zenon
  <2> QED BY <2>5, <2>6, Zenon
<1>6. (outcomes' = kept /\ Len(kept) <= MaxOutcomes) \/ outcomes' = Tail(kept)
  BY <1>0, <1>1, <1>2 DEF kept
<1> QED BY <1>4, <1>5, <1>6

(* The phases of a fence. *)
LEMMA FencePhases ==
    ASSUME fence \in FenceRecords \cup {None}, fence # None, NEW p \in Phases, fence' = Phase(p)
    PROVE  fence' \in FenceRecords
BY FenceFields DEF Phase

(* The cuts a plan is given. *)
LEMMA PlanFields ==
    ASSUME plan \in [Tasks -> PlanRecords], store \in StoreRecords, NEW t \in Tasks
    PROVE  /\ NoPlan \in PlanRecords
           /\ [base |-> store.rev, head |-> store.head, turn |-> store.turn, replans |-> 0]
                 \in PlanRecords
           /\ [base |-> store.rev, head |-> store.head, turn |-> store.turn,
               replans |-> plan[t].replans] \in PlanRecords
           /\ plan[t].replans < MaxReplans => [plan[t] EXCEPT !.replans = @ + 1] \in PlanRecords
<1>0. MaxReplans \in Nat /\ MaxHead \in Nat
  BY CompactionAssumption
<1>1. store.rev \in Nat /\ store.head \in Nat /\ store.turn \in Nat
  BY <1>0, StoreFields
<1>2. plan[t] \in PlanRecords /\ plan[t].replans \in 0..MaxReplans
  BY DEF PlanRecords
<1>3. plan[t].replans < MaxReplans => [plan[t] EXCEPT !.replans = @ + 1] \in PlanRecords
  <2> DEFINE p == plan[t]
  <2>1. p \in PlanRecords
    BY <1>2
  <2> HIDE DEF p
  <2>2. p.replans < MaxReplans => [p EXCEPT !.replans = @ + 1] \in PlanRecords
    BY <1>0, <2>1 DEF PlanRecords
  <2> QED BY <2>2 DEF p
<1>4. NoPlan \in PlanRecords
  BY <1>0 DEF NoPlan, PlanRecords
<1> QED BY <1>0, <1>1, <1>2, <1>3, <1>4 DEF PlanRecords

(* What may be taken from the budget. *)
LEMMA BudgetFields ==
    ASSUME budget \in BudgetRecords
    PROVE  /\ budget.faults > 0 => [budget EXCEPT !.faults = @ - 1] \in BudgetRecords
           /\ budget.stops > 0 => [budget EXCEPT !.stops = @ - 1] \in BudgetRecords
           /\ budget.crashes > 0 => [budget EXCEPT !.crashes = @ - 1] \in BudgetRecords
           /\ budget.prompts > 0 => [budget EXCEPT !.prompts = @ - 1] \in BudgetRecords
BY DEF BudgetRecords


-----------------------------------------------------------------------------
(* The steps, part by part                                                 *)

(* Every step keeps every variable a value of its type. *)
LEMMA TypesStep ==
    ASSUME Types, Lanes, Handles, Roots, Next
    PROVE  Types'
<1>1. ASSUME NEW t \in Tasks, AcquireLane(t) PROVE Types'
  <2>1. Moves(t, "lane", {"install"})
    BY <1>1, AttemptsMoves
  <2>2. pc' \in [Tasks -> PcPlaces]
    BY <2>1, TasksApart DEF Types, PcPlaces, Attempting, Fenced, Moves
  <2>3. UNCHANGED <<host, stale, fence, writes, cancel, plan, result, waiter, outcomes,
     asked, told, ran, settle, store, cont, handle, failures, budget>>
    BY <1>1 DEF AcquireLane, owner, manual
  <2>4. lane' \in Tasks \cup {None}
    BY <1>1, TasksApart DEF AcquireLane, Goto, Types
  <2> QED BY <2>2, <2>3, <2>4 DEF Types
<1>2. ASSUME NEW t \in Tasks, CancelBeforeFence(t) PROVE Types'
  <2>1. \E p \in {"lane", "install"} : Moves(t, p, {"ended"})
    BY <1>2, AttemptsMoves
  <2>2. pc' \in [Tasks -> PcPlaces]
    BY <2>1, TasksApart DEF Types, PcPlaces, Attempting, Fenced, Moves
  <2>3. UNCHANGED <<host, stale, fence, writes, plan, waiter, outcomes, asked, told,
     ran, settle, store, cont, handle, failures, budget>>
    BY <1>2 DEF CancelBeforeFence, owner, manual
  <2>4. lane' \in Tasks \cup {None}
    BY <1>2, TasksApart DEF CancelBeforeFence, Goto, Types
  <2>5. result' \in [Tasks -> Results]
    BY <1>2, TasksApart DEF CancelBeforeFence, Goto, Types, Results
  <2>6. cancel' \in [Tasks -> BOOLEAN]
    BY <1>2, TasksApart DEF CancelBeforeFence, Goto, Types
  <2> QED BY <2>2, <2>3, <2>4, <2>5, <2>6 DEF Types
<1>3. ASSUME NEW t \in Tasks, Install(t) PROVE Types'
  <2>1. Moves(t, "install", {"freeze", "ended"})
    BY <1>3, AttemptsMoves
  <2>2. pc' \in [Tasks -> PcPlaces]
    BY <2>1, TasksApart DEF Types, PcPlaces, Attempting, Fenced, Moves
  <2>3. UNCHANGED <<host, stale, writes, cancel, plan, waiter, outcomes, asked, told,
     settle, store, cont, handle, failures, budget>>
    BY <1>3 DEF Install, owner, manual
  <2>4. "PREPARING" \in Phases
    BY DEF Phases
  <2>5. fence' \in FenceRecords \cup {None}
    BY <1>3, <2>4, FenceFields DEF Install, Types
  <2>6. ran' \in [Commands -> Nat]
    BY <1>3, TasksApart DEF Install, Goto, MayFence, Types
  <2>7. lane' \in Tasks \cup {None}
    BY <1>3, TasksApart DEF Install, Goto, MayFence, Types
  <2>8. result' \in [Tasks -> Results]
    BY <1>3, TasksApart DEF Install, Goto, MayFence, Types, Results
  <2> QED BY <2>2, <2>3, <2>4, <2>5, <2>6, <2>7, <2>8 DEF Types
<1>4. ASSUME NEW t \in Tasks, Freeze(t) PROVE Types'
  <2>1. Moves(t, "freeze", {"plan", "remove"})
    BY <1>4, AttemptsMoves
  <2>2. pc' \in [Tasks -> PcPlaces]
    BY <2>1, TasksApart DEF Types, PcPlaces, Attempting, Fenced, Moves
  <2>3. UNCHANGED <<host, stale, lane, fence, writes, cancel, waiter, outcomes, asked,
     told, ran, settle, store, cont, failures, budget>>
    BY <1>4 DEF Freeze, owner, manual
  <2>4. handle' \in Tasks \cup {None, "settlement", "successor"}
    BY <1>4, TasksApart DEF Freeze, Goto, Leave, TargetReady, Types
  <2>5. [base |-> store.rev, head |-> store.head, turn |-> store.turn,
     replans |-> plan[t].replans] \in PlanRecords
    BY <1>4, PlanFields, TasksApart DEF Types
  <2>6. \/ plan' = plan
        \/ plan' = [plan EXCEPT ![t] = [base |-> store.rev, head |-> store.head,
           turn |-> store.turn, replans |-> plan[t].replans]]
    BY <1>4 DEF Freeze
  <2>7. plan' \in [Tasks -> PlanRecords]
    BY <2>5, <2>6 DEF Types
  <2>8. result' \in [Tasks -> Results]
    BY <1>4, TasksApart DEF Freeze, Goto, Leave, TargetReady, Types, Results
  <2> QED BY <2>2, <2>3, <2>4, <2>5, <2>6, <2>7, <2>8 DEF Types
<1>5. ASSUME NEW t \in Tasks, Plan(t) PROVE Types'
  <2>1. Moves(t, "plan", {"stream", "remove"})
    BY <1>5, AttemptsMoves
  <2>2. pc' \in [Tasks -> PcPlaces]
    BY <2>1, TasksApart DEF Types, PcPlaces, Attempting, Fenced, Moves
  <2>3. UNCHANGED <<host, stale, lane, writes, cancel, plan, waiter, outcomes, asked,
     told, ran, settle, store, cont, failures, budget>>
    BY <1>5 DEF Plan, owner, manual
  <2>4. pc[t] \in Fenced /\ fence # None
    BY <2>1, TasksApart DEF Moves, Fenced, Lanes
  <2>5. fence' \in FenceRecords \cup {None}
    BY <1>5, <2>4, FencePhases DEF Plan, Goto, Leave, Phase, Types, Phases
  <2>6. result' \in [Tasks -> Results]
    BY <1>5, TasksApart DEF Plan, Goto, Leave, Phase, Types, Results
  <2>7. handle' \in Tasks \cup {None, "settlement", "successor"}
    BY <1>5, TasksApart DEF Plan, Goto, Leave, Phase, Types
  <2> QED BY <2>2, <2>3, <2>4, <2>5, <2>6, <2>7 DEF Types
<1>6. ASSUME NEW t \in Tasks, Stream(t) PROVE Types'
  <2>1. \E p \in {"stream", "repair"} : Moves(t, p, {"repair", "fit", "remove"})
    BY <1>6, AttemptsMoves
  <2>2. pc' \in [Tasks -> PcPlaces]
    BY <2>1, TasksApart DEF Types, PcPlaces, Attempting, Fenced, Moves
  <2>3. UNCHANGED <<host, stale, lane, writes, cancel, plan, waiter, outcomes, asked,
     told, ran, settle, store, cont, failures, budget>>
    BY <1>6 DEF Stream, owner, manual
  <2>4. pc[t] \in Fenced /\ fence # None
    BY <2>1, TasksApart DEF Moves, Fenced, Lanes
  <2>5. fence' \in FenceRecords \cup {None}
    BY <1>6, <2>4, FencePhases DEF Stream, Goto, Leave, Phase, Types, Phases
  <2>6. result' \in [Tasks -> Results]
    BY <1>6, TasksApart DEF Stream, Goto, Leave, Phase, Types, Results
  <2>7. handle' \in Tasks \cup {None, "settlement", "successor"}
    BY <1>6, TasksApart DEF Stream, Goto, Leave, Phase, Types
  <2> QED BY <2>2, <2>3, <2>4, <2>5, <2>6, <2>7 DEF Types
<1>7. ASSUME NEW t \in Tasks, Fit(t) PROVE Types'
  <2>1. Moves(t, "fit", {"freeze", "join", "remove"})
    BY <1>7, AttemptsMoves
  <2>2. pc' \in [Tasks -> PcPlaces]
    BY <2>1, TasksApart DEF Types, PcPlaces, Attempting, Fenced, Moves
  <2>3. UNCHANGED <<host, stale, lane, writes, cancel, waiter, outcomes, asked, told,
     ran, store, failures, budget>>
    BY <1>7 DEF Fit, owner, manual
  <2>4. plan[t].replans < MaxReplans => [plan[t] EXCEPT !.replans = @ + 1] \in PlanRecords
    BY <1>7, PlanFields, TasksApart DEF Types
  <2>5. \/ plan' = plan
        \/ plan[t].replans < MaxReplans /\ plan' = [plan EXCEPT ![t].replans = @ + 1]
    BY <1>7 DEF Fit
  <2>6. plan' \in [Tasks -> PlanRecords]
    BY <2>4, <2>5 DEF Types
  <2>7. pc[t] \in Fenced /\ fence # None
    BY <2>1, TasksApart DEF Moves, Fenced, Lanes
  <2>8. fence' \in FenceRecords \cup {None}
    BY <1>7, <2>7, FencePhases DEF Fit, Goto, Leave, Phase, OwnerClosing, Types, Phases
  <2>9. handle' \in Tasks \cup {None, "settlement", "successor"}
    BY <1>7, TasksApart DEF Fit, Goto, Leave, Phase, OwnerClosing, Types
  <2>10. result' \in [Tasks -> Results]
    BY <1>7, TasksApart DEF Fit, Goto, Leave, Phase, OwnerClosing, Types, Results
  <2>11. settle' \in Settlements \cup {None}
    BY <1>7, SettlingFields DEF Fit, Settling, Types, Leave
  <2>12. cont' \in ContRecords
    BY <1>7, ContTurns DEF Fit, Leave, Types, ContTo
  <2> QED BY <2>2, <2>3, <2>4, <2>5, <2>6, <2>7, <2>8, <2>9, <2>10, <2>11,
     <2>12 DEF Types
<1>8. ASSUME NEW t \in Tasks, CancelFenced(t) PROVE Types'
  <2>1. \E p \in {"freeze", "plan", "stream", "repair", "fit"} : Moves(t, p, {"remove"})
    BY <1>8, AttemptsMoves
  <2>2. pc' \in [Tasks -> PcPlaces]
    BY <2>1, TasksApart DEF Types, PcPlaces, Attempting, Fenced, Moves
  <2>3. UNCHANGED <<host, stale, lane, fence, writes, plan, waiter, outcomes, asked,
     told, ran, settle, store, cont, failures, budget>>
    BY <1>8 DEF CancelFenced, owner, manual
  <2>4. "CANCELLED" \in Results
    BY DEF Results
  <2>5. result' \in [Tasks -> Results]
    BY <1>8, <2>4 DEF CancelFenced, Leave, Types
  <2>6. handle' \in Tasks \cup {None, "settlement", "successor"}
    BY <1>8, TasksApart DEF CancelFenced, Goto, Leave, Types
  <2>7. cancel' \in [Tasks -> BOOLEAN]
    BY <1>8, TasksApart DEF CancelFenced, Goto, Leave, Types
  <2> QED BY <2>2, <2>3, <2>4, <2>5, <2>6, <2>7 DEF Types
<1>9. ASSUME NEW t \in Tasks, Join(t) PROVE Types'
  <2>1. Moves(t, "join", {"remove"})
    BY <1>9, AttemptsMoves
  <2>2. pc' \in [Tasks -> PcPlaces]
    BY <2>1, TasksApart DEF Types, PcPlaces, Attempting, Fenced, Moves
  <2>3. UNCHANGED <<host, stale, lane, fence, writes, plan, waiter, outcomes, asked,
     told, ran, store, failures, budget>>
    BY <1>9 DEF Join, owner, manual
  <2>4. settle' \in Settlements \cup {None}
    BY <1>9, TasksApart DEF Join, Goto, EmptyOnNewBase, Types
  <2>5. settle # None
    BY <2>1, TasksApart DEF Moves, Handles
  <2>6. settle.res \in Results
    BY <2>5, SettleFields DEF Types
  <2>7. "CANCELLED" \in Results
    BY DEF Results
  <2>8. result' \in [Tasks -> Results]
    BY <1>9, <2>6, <2>7 DEF Join, Types
  <2>9. handle' \in Tasks \cup {None, "settlement", "successor"}
    BY <1>9, TasksApart DEF Join, Goto, EmptyOnNewBase, Types
  <2>10. cont' \in ContRecords
    BY <1>9, ContSet, StoreFields DEF Join, Types, ContTo, EmptyOnNewBase
  <2>11. cancel' \in [Tasks -> BOOLEAN]
    BY <1>9, TasksApart DEF Join, Goto, EmptyOnNewBase, Types
  <2> QED BY <2>2, <2>3, <2>4, <2>5, <2>6, <2>7, <2>8, <2>9, <2>10, <2>11 DEF Types
<1>10. ASSUME NEW t \in Tasks, Remove(t) PROVE Types'
  <2>1. Moves(t, "remove", {"ended"})
    BY <1>10, AttemptsMoves
  <2>2. pc' \in [Tasks -> PcPlaces]
    BY <2>1, TasksApart DEF Types, PcPlaces, Attempting, Fenced, Moves
  <2>3. UNCHANGED <<host, stale, writes, cancel, plan, result, waiter, outcomes, asked,
     told, ran, settle, store, cont, handle, failures, budget>>
    BY <1>10 DEF Remove, owner, manual
  <2>4. fence' \in FenceRecords \cup {None}
    BY <1>10, TasksApart, FenceFields DEF Remove, Goto, Types, Phases
  <2>5. lane' \in Tasks \cup {None}
    BY <1>10, TasksApart DEF Remove, Goto, Types
  <2> QED BY <2>2, <2>3, <2>4, <2>5 DEF Types
<1>11. ASSUME NEW t \in Tasks, RemoveCancelled(t) PROVE Types'
  <2>1. Moves(t, "remove", {"ended"})
    BY <1>11, AttemptsMoves
  <2>2. pc' \in [Tasks -> PcPlaces]
    BY <2>1, TasksApart DEF Types, PcPlaces, Attempting, Fenced, Moves
  <2>3. UNCHANGED <<host, stale, fence, writes, plan, waiter, outcomes, asked, told,
     ran, settle, store, cont, handle, failures, budget>>
    BY <1>11 DEF RemoveCancelled, owner, manual
  <2>4. lane' \in Tasks \cup {None}
    BY <1>11, TasksApart DEF RemoveCancelled, Goto, Types
  <2>5. result' \in [Tasks -> Results]
    BY <1>11, TasksApart DEF RemoveCancelled, Goto, Types, Results
  <2>6. cancel' \in [Tasks -> BOOLEAN]
    BY <1>11, TasksApart DEF RemoveCancelled, Goto, Types
  <2> QED BY <2>2, <2>3, <2>4, <2>5, <2>6 DEF Types
<1>12. ASSUME NEW c \in Commands, RequestCommand(c) PROVE Types'
  <2>1. UNCHANGED pc \/ (Moves(c, "off", {"check"}) /\ Idle /\ host = "open")
    BY <1>12, RequestMoves
  <2>2. pc' \in [Tasks -> PcPlaces]
    BY <2>1, TasksApart DEF Types, PcPlaces, Moves
  <2>3. UNCHANGED <<host, stale, lane, fence, writes, cancel, plan, result, waiter,
     outcomes, asked, ran, settle, store, cont, handle, failures, budget>>
    BY <1>12 DEF RequestCommand, owner, manual
  <2>4. OutcomeOf(c) \cup {"UNAVAILABLE", "BUSY", "none"} \subseteq Told
    BY OutcomeTypes DEF Told
  <2>5. told' = told \/ \E x \in Told : told' = [told EXCEPT ![c] = x]
    BY <1>12, <2>4 DEF RequestCommand
  <2>6. told' \in [Commands -> Told]
    BY <2>5 DEF Types
  <2> QED BY <2>2, <2>3, <2>4, <2>5, <2>6 DEF Types
<1>13. ASSUME NEW c \in Commands, QuerySlowly(c) PROVE Types'
  <2>1. UNCHANGED <<host, stale, lane, fence, writes, cancel, plan, result, waiter,
     outcomes, told, ran, settle, store, cont, handle, failures, budget, pc>>
    BY <1>13 DEF QuerySlowly, owner, manual
  <2>2. asked' \subseteq Commands
    BY <1>13, TasksApart DEF QuerySlowly, Types
  <2> QED BY <2>1, <2>2 DEF Types
<1>14. ASSUME NEW c \in Commands, RequestLate(c) PROVE Types'
  <2>1. UNCHANGED pc \/ (Moves(c, "off", {"check"}) /\ Idle /\ host = "open")
    BY <1>14, RequestMoves
  <2>2. pc' \in [Tasks -> PcPlaces]
    BY <2>1, TasksApart DEF Types, PcPlaces, Moves
  <2>3. UNCHANGED <<host, stale, lane, fence, writes, cancel, plan, result, waiter,
     outcomes, ran, settle, store, cont, handle, failures, budget>>
    BY <1>14 DEF RequestLate, owner, manual
  <2>4. asked' \subseteq Commands
    BY <1>14, TasksApart DEF RequestLate, Goto, Idle, HasActiveWork, Types
  <2>5. OutcomeOf(c) \cup {"UNAVAILABLE", "BUSY", "none"} \subseteq Told
    BY OutcomeTypes DEF Told
  <2>6. told' = told \/ \E x \in Told : told' = [told EXCEPT ![c] = x]
    BY <1>14, <2>5 DEF RequestLate
  <2>7. told' \in [Commands -> Told]
    BY <2>6 DEF Types
  <2> QED BY <2>2, <2>3, <2>4, <2>5, <2>6, <2>7 DEF Types
<1>15. ASSUME NEW c \in Commands, StopCommand(c) PROVE Types'
  <2>1. UNCHANGED <<host, stale, lane, fence, writes, plan, result, waiter, outcomes,
     asked, told, ran, settle, store, cont, handle, failures, pc>>
    BY <1>15 DEF StopCommand, owner, manual
  <2>2. budget' \in BudgetRecords
    BY <1>15, BudgetFields DEF StopCommand, Types
  <2>3. cancel' \in [Tasks -> BOOLEAN]
    BY <1>15, TasksApart DEF StopCommand, Types
  <2> QED BY <2>1, <2>2, <2>3 DEF Types
<1>16. ASSUME NEW c \in Commands, CommandCheck(c) PROVE Types'
  <2>1. Moves(c, "check", {"off", "confirm"})
    BY <1>16, CommandMoves
  <2>2. pc' \in [Tasks -> PcPlaces]
    BY <2>1, TasksApart DEF Types, PcPlaces, Attempting, Fenced, Moves
  <2>3. UNCHANGED <<host, stale, lane, fence, writes, result, waiter, outcomes, asked,
     ran, settle, store, cont, handle, failures, budget>>
    BY <1>16 DEF CommandCheck, owner, manual
  <2>4. {"CANCELLED", "CLOSING", "BUSY", "NOT_NEEDED", "FAILED"} \subseteq Told
    BY DEF Told
  <2>5. \/ told' = told
        \/ \E x \in {"CANCELLED", "CLOSING", "BUSY", "NOT_NEEDED", "FAILED"} :
              told' = [told EXCEPT ![c] = x]
    BY <1>16 DEF CommandCheck, Return, StopWord
  <2>6. told' \in [Commands -> Told]
    BY <2>4, <2>5 DEF Types
  <2>7. cancel' \in [Tasks -> BOOLEAN]
    BY <1>16, TasksApart DEF CommandCheck, Goto, Return, StopWord, Types
  <2>8. [base |-> store.rev, head |-> store.head, turn |-> store.turn,
     replans |-> 0] \in PlanRecords
    BY <1>16, PlanFields, TasksApart DEF Types
  <2>9. \/ plan' = plan
        \/ plan' = [plan EXCEPT ![c] = [base |-> store.rev, head |-> store.head,
           turn |-> store.turn, replans |-> 0]]
    BY <1>16 DEF CommandCheck
  <2>10. plan' \in [Tasks -> PlanRecords]
    BY <2>8, <2>9 DEF Types
  <2> QED BY <2>2, <2>3, <2>4, <2>5, <2>6, <2>7, <2>8, <2>9, <2>10 DEF Types
<1>17. ASSUME NEW c \in Commands, CommandConfirm(c) PROVE Types'
  <2>1. Moves(c, "confirm", {"off", "request", "accept"})
    BY <1>17, CommandMoves
  <2>2. pc' \in [Tasks -> PcPlaces]
    BY <2>1, TasksApart DEF Types, PcPlaces, Attempting, Fenced, Moves
  <2>3. UNCHANGED <<host, stale, lane, fence, writes, plan, result, waiter, outcomes,
     asked, ran, settle, store, cont, handle, failures, budget>>
    BY <1>17 DEF CommandConfirm, owner, manual
  <2>4. {"CANCELLED", "CLOSING", "BUSY", "NOT_NEEDED", "FAILED"} \subseteq Told
    BY DEF Told
  <2>5. \/ told' = told
        \/ \E x \in {"CANCELLED", "CLOSING", "BUSY", "NOT_NEEDED", "FAILED"} :
              told' = [told EXCEPT ![c] = x]
    BY <1>17 DEF CommandConfirm, Return, StopWord
  <2>6. told' \in [Commands -> Told]
    BY <2>4, <2>5 DEF Types
  <2>7. cancel' \in [Tasks -> BOOLEAN]
    BY <1>17, TasksApart DEF CommandConfirm, Goto, Return, Types
  <2> QED BY <2>2, <2>3, <2>4, <2>5, <2>6, <2>7 DEF Types
<1>18. ASSUME NEW c \in Commands, CommandAccept(c) PROVE Types'
  <2>1. Moves(c, "accept", {"off", "request", "confirm"})
    BY <1>18, CommandMoves
  <2>2. pc' \in [Tasks -> PcPlaces]
    BY <2>1, TasksApart DEF Types, PcPlaces, Attempting, Fenced, Moves
  <2>3. UNCHANGED <<host, stale, lane, fence, writes, plan, result, waiter, outcomes,
     asked, ran, settle, cont, handle, failures>>
    BY <1>18 DEF CommandAccept, owner, manual
  <2>4. told' \in [Commands -> Told]
    BY <1>18, TasksApart, OutcomeTypes DEF CommandAccept, Goto, Return, Types, Told,
       StopWord, OutcomeWord
  <2>5. cancel' \in [Tasks -> BOOLEAN]
    BY <1>18, TasksApart DEF CommandAccept, Goto, Return, Types
  <2>6. store' \in StoreRecords
    BY <1>18, AcceptEffects DEF Types, MayAccept
  <2>7. budget' \in BudgetRecords
    BY <1>18, BudgetFields DEF CommandAccept, Goto, Return, Types
  <2> QED BY <2>2, <2>3, <2>4, <2>5, <2>6, <2>7 DEF Types
<1>19. ASSUME NEW c \in Commands, CommandRequest(c) PROVE Types'
  <2>1. Moves(c, "request", {"off", "settle", "claim"})
    BY <1>19, CommandMoves
  <2>2. pc' \in [Tasks -> PcPlaces]
    BY <2>1, TasksApart DEF Types, PcPlaces, Attempting, Fenced, Moves
  <2>3. UNCHANGED <<host, stale, lane, fence, writes, plan, outcomes, asked, ran,
     settle, store, cont, handle, failures, budget>>
    BY <1>19 DEF CommandRequest, owner, manual
  <2>4. told' \in [Commands -> Told]
    BY <1>19, TasksApart, OutcomeTypes DEF CommandRequest, Goto, Return, OwnerClosing,
       Types, Told, StopWord, OutcomeWord
  <2>5. cancel' \in [Tasks -> BOOLEAN]
    BY <1>19, TasksApart DEF CommandRequest, Goto, Return, OwnerClosing, Types
  <2>6. [cmd |-> c, started |-> FALSE] \in WaiterRecords
    BY DEF WaiterRecords
  <2>7. waiter' \in WaiterRecords \cup {None}
    BY <1>19, <2>6 DEF CommandRequest, Types, Return
  <2>8. result' \in [Tasks -> Results]
    BY <1>19, TasksApart DEF CommandRequest, Goto, Return, OwnerClosing, Types, Results
  <2> QED BY <2>2, <2>3, <2>4, <2>5, <2>6, <2>7, <2>8 DEF Types
<1>20. ASSUME NEW c \in Commands, CommandClaim(c) PROVE Types'
  <2>1. Moves(c, "claim", {"off", "lane"})
    BY <1>20, CommandMoves
  <2>2. pc' \in [Tasks -> PcPlaces]
    BY <2>1, TasksApart DEF Types, PcPlaces, Attempting, Fenced, Moves
  <2>3. UNCHANGED <<host, stale, lane, fence, writes, plan, result, outcomes, asked,
     ran, settle, store, cont, handle, failures, budget>>
    BY <1>20 DEF CommandClaim, owner, manual
  <2>4. told' \in [Commands -> Told]
    BY <1>20, TasksApart, OutcomeTypes DEF CommandClaim, Goto, Return, Types, Told,
       StopWord, OutcomeWord
  <2>5. cancel' \in [Tasks -> BOOLEAN]
    BY <1>20, TasksApart DEF CommandClaim, Goto, Return, Types
  <2>6. \A x \in WaiterRecords : [x EXCEPT !.started = TRUE] \in WaiterRecords
    BY DEF WaiterRecords
  <2>7. waiter' \in WaiterRecords \cup {None}
    BY <1>20, <2>6 DEF CommandClaim, Types
  <2> QED BY <2>2, <2>3, <2>4, <2>5, <2>6, <2>7 DEF Types
<1>21. ASSUME NEW c \in Commands, CommandEnded(c) PROVE Types'
  <2>1. Moves(c, "ended", {"settle"})
    BY <1>21, CommandMoves
  <2>2. pc' \in [Tasks -> PcPlaces]
    BY <2>1, TasksApart DEF Types, PcPlaces, Attempting, Fenced, Moves
  <2>3. UNCHANGED <<host, stale, lane, fence, writes, cancel, plan, result, waiter,
     outcomes, asked, told, ran, settle, store, cont, handle, failures, budget>>
    BY <1>21 DEF CommandEnded, owner, manual
  <2> QED BY <2>2, <2>3 DEF Types
<1>22. ASSUME NEW c \in Commands, CommandSettle(c) PROVE Types'
  <2>1. Moves(c, "settle", {"off"})
    BY <1>22, CommandMoves
  <2>2. pc' \in [Tasks -> PcPlaces]
    BY <2>1, TasksApart DEF Types, PcPlaces, Attempting, Fenced, Moves
  <2>3. UNCHANGED <<host, stale, lane, fence, writes, asked, ran, settle, store, cont,
     handle, failures, budget>>
    BY <1>22 DEF CommandSettle, owner, manual
  <2>4. told' \in [Commands -> Told]
    BY <1>22, TasksApart, OutcomeTypes DEF CommandSettle, Goto, Return, Types, Told,
       StopWord, OutcomeWord
  <2>5. cancel' \in [Tasks -> BOOLEAN]
    BY <1>22, TasksApart DEF CommandSettle, Goto, Return, Types
  <2>6. waiter' \in WaiterRecords \cup {None}
    BY <1>22, TasksApart DEF CommandSettle, Goto, Return, Types, WaiterRecords
  <2>7. OutcomeWord(result[c]) \in Told
    BY DEF OutcomeWord, StopWord, Told
  <2>8. [cmd |-> c, out |-> OutcomeWord(result[c])] \in OutcomeRecords
    BY <2>7 DEF OutcomeRecords
  <2>9. \/ UNCHANGED outcomes
        \/ LET kept == Append(outcomes, [cmd |-> c, out |-> OutcomeWord(result[c])])
           IN  outcomes' = IF Len(kept) > MaxOutcomes THEN Tail(kept) ELSE kept
    BY <1>22 DEF CommandSettle
  <2>10. outcomes' \in Seq(OutcomeRecords) /\ Len(outcomes') <= MaxOutcomes
    BY <2>9, <2>8, KeptOutcomes DEF Types
  <2>11. result' \in [Tasks -> Results]
    BY <1>22, TasksApart DEF CommandSettle, Goto, Return, Types, Results
  <2>12. plan' \in [Tasks -> PlanRecords]
    BY <1>22, PlanFields, TasksApart DEF CommandSettle, Goto, Return, Types
  <2> QED BY <2>2, <2>3, <2>4, <2>5, <2>6, <2>7, <2>8, <2>9, <2>10, <2>11,
     <2>12 DEF Types
<1>23. ASSUME NEW w \in Writers, WriterReserve(w) PROVE Types'
  <2>1. Moves(w, "off", {"hold"})
    BY <1>23, WriterMoves
  <2>2. pc' \in [Tasks -> PcPlaces]
    BY <2>1, TasksApart DEF Types, PcPlaces, Attempting, Fenced, Moves
  <2>3. UNCHANGED <<host, stale, lane, fence, cancel, plan, result, waiter, outcomes,
     asked, told, ran, settle, store, cont, handle, failures, budget>>
    BY <1>23 DEF WriterReserve, owner, manual
  <2>4. writes' \subseteq Writers
    BY <1>23, TasksApart DEF WriterReserve, Goto, Types
  <2> QED BY <2>2, <2>3, <2>4 DEF Types
<1>24. ASSUME NEW w \in Writers, WriterCompact(w) PROVE Types'
  <2>1. Moves(w, "hold", {"lane"})
    BY <1>24, WriterMoves
  <2>2. pc' \in [Tasks -> PcPlaces]
    BY <2>1, TasksApart DEF Types, PcPlaces, Attempting, Fenced, Moves
  <2>3. UNCHANGED <<host, stale, lane, fence, writes, cancel, plan, result, waiter,
     outcomes, asked, told, ran, settle, store, cont, handle, failures, budget>>
    BY <1>24 DEF WriterCompact, owner, manual
  <2> QED BY <2>2, <2>3 DEF Types
<1>25. ASSUME NEW w \in Writers, WriterWrite(w) PROVE Types'
  <2>1. Moves(w, "hold", {"release"})
    BY <1>25, WriterMoves
  <2>2. pc' \in [Tasks -> PcPlaces]
    BY <2>1, TasksApart DEF Types, PcPlaces, Attempting, Fenced, Moves
  <2>3. UNCHANGED <<host, stale, lane, fence, writes, cancel, plan, result, waiter,
     outcomes, asked, told, ran, settle, cont, handle, failures, budget>>
    BY <1>25 DEF WriterWrite, owner, manual
  <2>4. store' \in StoreRecords
    BY <1>25, AppendEffects DEF Types, MayAppend
  <2> QED BY <2>2, <2>3, <2>4 DEF Types
<1>26. ASSUME NEW w \in Writers, WriterRelease(w) PROVE Types'
  <2>1. Moves(w, "release", {"off"})
    BY <1>26, WriterMoves
  <2>2. pc' \in [Tasks -> PcPlaces]
    BY <2>1, TasksApart DEF Types, PcPlaces, Attempting, Fenced, Moves
  <2>3. UNCHANGED <<host, stale, lane, fence, cancel, plan, result, waiter, outcomes,
     asked, told, ran, settle, store, cont, handle, failures, budget>>
    BY <1>26 DEF WriterRelease, owner, manual
  <2>4. writes' \subseteq Writers
    BY <1>26, TasksApart DEF WriterRelease, Goto, Types
  <2> QED BY <2>2, <2>3, <2>4 DEF Types
<1>27. ASSUME NEW w \in Writers, WriterEnded(w) PROVE Types'
  <2>1. Moves(w, "ended", {"release"})
    BY <1>27, WriterMoves
  <2>2. pc' \in [Tasks -> PcPlaces]
    BY <2>1, TasksApart DEF Types, PcPlaces, Attempting, Fenced, Moves
  <2>3. UNCHANGED <<host, stale, lane, fence, writes, cancel, waiter, outcomes, asked,
     told, ran, settle, budget>>
    BY <1>27 DEF WriterEnded, owner, manual
  <2>4. handle' \in Tasks \cup {None, "settlement", "successor"}
    BY <1>27, TasksApart DEF WriterEnded, Goto, Types
  <2>5. cont' \in ContRecords
    BY <1>27, ContSet, StoreFields DEF WriterEnded, Types, ContTo
  <2>6. store' \in StoreRecords
    BY <1>27, AppendEffects DEF Types, MayAppend
  <2>7. failures < MaxFailures => failures + 1 \in 0..MaxFailures
    BY CompactionAssumption DEF Types
  <2>8. failures' \in 0..MaxFailures
    BY <1>27, <2>7 DEF WriterEnded, Types
  <2>9. result' \in [Tasks -> Results]
    BY <1>27, TasksApart DEF WriterEnded, Goto, Types, Results
  <2>10. plan' \in [Tasks -> PlanRecords]
    BY <1>27, PlanFields, TasksApart DEF WriterEnded, Goto, Types
  <2> QED BY <2>2, <2>3, <2>4, <2>5, <2>6, <2>7, <2>8, <2>9, <2>10 DEF Types
<1>28. CASE SubmitPrompt
  <2>1. UNCHANGED <<host, stale, lane, fence, writes, cancel, plan, result, waiter,
     outcomes, asked, told, ran, settle, cont, handle, failures, pc>>
    BY <1>28 DEF SubmitPrompt, owner, manual
  <2>2. budget' \in BudgetRecords
    BY <1>28, BudgetFields DEF SubmitPrompt, Types
  <2>3. store' \in StoreRecords
    BY <1>28, SubmitFields DEF Types
  <2> QED BY <2>1, <2>2, <2>3 DEF Types
<1>29. CASE Deliver
  <2>1. Moves(Root, "off", {"admit"})
    BY <1>29, RootMoves
  <2>2. pc' \in [Tasks -> PcPlaces]
    BY <2>1, TasksApart DEF Types, PcPlaces, Attempting, Fenced, Moves
  <2>3. UNCHANGED <<host, stale, lane, fence, writes, cancel, plan, result, waiter,
     outcomes, asked, told, ran, settle, store, cont, handle, failures, budget>>
    BY <1>29 DEF Deliver, owner, manual
  <2> QED BY <2>2, <2>3 DEF Types
<1>30. CASE RootAppend
  <2>1. UNCHANGED <<host, stale, lane, fence, writes, cancel, plan, result, waiter,
     outcomes, asked, told, ran, settle, cont, handle, failures, budget, pc>>
    BY <1>30 DEF RootAppend, owner, manual
  <2>2. store' \in StoreRecords
    BY <1>30, AppendEffects DEF Types, MayAppend
  <2> QED BY <2>1, <2>2 DEF Types
<1>31. CASE RootDispatch
  <2>1. Moves(Root, "run", {"model"})
    BY <1>31, RootMoves
  <2>2. pc' \in [Tasks -> PcPlaces]
    BY <2>1, TasksApart DEF Types, PcPlaces, Attempting, Fenced, Moves
  <2>3. UNCHANGED <<host, stale, lane, fence, writes, cancel, plan, result, waiter,
     outcomes, asked, told, ran, settle, store, failures, budget>>
    BY <1>31 DEF RootDispatch, owner, manual
  <2>4. handle' \in Tasks \cup {None, "settlement", "successor"}
    BY <1>31, TasksApart DEF RootDispatch, Goto, Types
  <2>5. cont' \in ContRecords
    BY <1>31, ContSet, StoreFields DEF RootDispatch, Types, ContTo
  <2> QED BY <2>2, <2>3, <2>4, <2>5 DEF Types
<1>32. CASE RootCompact
  <2>1. Moves(Root, "run", {"lane"})
    BY <1>32, RootMoves
  <2>2. pc' \in [Tasks -> PcPlaces]
    BY <2>1, TasksApart DEF Types, PcPlaces, Attempting, Fenced, Moves
  <2>3. UNCHANGED <<host, stale, lane, fence, writes, cancel, plan, result, waiter,
     outcomes, asked, told, ran, settle, store, cont, handle, failures, budget>>
    BY <1>32 DEF RootCompact, owner, manual
  <2> QED BY <2>2, <2>3 DEF Types
<1>33. CASE StopTurn
  <2>1. UNCHANGED <<host, stale, lane, fence, writes, plan, result, waiter, outcomes,
     asked, told, ran, settle, store, cont, handle, failures, pc>>
    BY <1>33 DEF StopTurn, owner, manual
  <2>2. budget' \in BudgetRecords
    BY <1>33, BudgetFields DEF StopTurn, Types
  <2>3. cancel' \in [Tasks -> BOOLEAN]
    BY <1>33, TasksApart DEF StopTurn, Types
  <2> QED BY <2>1, <2>2, <2>3 DEF Types
<1>34. CASE StartTurn
  <2>1. Moves(Root, "admit", {"run"})
    BY <1>34, RootMoves
  <2>2. pc' \in [Tasks -> PcPlaces]
    BY <2>1, TasksApart DEF Types, PcPlaces, Attempting, Fenced, Moves
  <2>3. UNCHANGED <<host, stale, lane, fence, writes, cancel, plan, result, waiter,
     outcomes, asked, told, ran, settle, cont, handle, failures, budget>>
    BY <1>34 DEF StartTurn, owner, manual
  <2>4. store' \in StoreRecords
    BY <1>34, StartFields, Roots DEF Types, Roots, StartTurn
  <2> QED BY <2>2, <2>3, <2>4 DEF Types
<1>35. CASE EndRoot
  <2>1. \E p \in {"run", "admit"} : Moves(Root, p, {"off"})
    BY <1>35, RootMoves
  <2>2. pc' \in [Tasks -> PcPlaces]
    BY <2>1, TasksApart DEF Types, PcPlaces, Attempting, Fenced, Moves
  <2>3. UNCHANGED <<host, stale, lane, fence, writes, plan, result, waiter, outcomes,
     asked, told, ran, settle, cont, handle, failures, budget>>
    BY <1>35 DEF EndRoot, owner, manual
  <2>4. store' \in StoreRecords
    BY <1>35, HaltEffects DEF Types, MayHalt
  <2>5. cancel' \in [Tasks -> BOOLEAN]
    BY <1>35, TasksApart DEF EndRoot, Goto, Types
  <2> QED BY <2>2, <2>3, <2>4, <2>5 DEF Types
<1>36. CASE RootAnswer
  <2>1. Moves(Root, "model", {"run"})
    BY <1>36, RootMoves
  <2>2. pc' \in [Tasks -> PcPlaces]
    BY <2>1, TasksApart DEF Types, PcPlaces, Attempting, Fenced, Moves
  <2>3. UNCHANGED <<host, stale, lane, fence, writes, cancel, plan, result, waiter,
     outcomes, asked, told, ran, settle, cont, failures, budget>>
    BY <1>36 DEF RootAnswer, owner, manual
  <2>4. handle' \in Tasks \cup {None, "settlement", "successor"}
    BY <1>36, TasksApart DEF RootAnswer, Goto, Types
  <2>5. store' \in StoreRecords
    BY <1>36, AppendEffects DEF Types, MayAppend
  <2> QED BY <2>2, <2>3, <2>4, <2>5 DEF Types
<1>37. CASE RootEnded
  <2>1. Moves(Root, "ended", {"model", "run", "off"})
    BY <1>37, RootMoves
  <2>2. pc' \in [Tasks -> PcPlaces]
    BY <2>1, TasksApart DEF Types, PcPlaces, Attempting, Fenced, Moves
  <2>3. UNCHANGED <<host, stale, lane, fence, writes, waiter, outcomes, asked, told,
     ran, settle, budget>>
    BY <1>37 DEF RootEnded, owner, manual
  <2>4. handle' \in Tasks \cup {None, "settlement", "successor"}
    BY <1>37, TasksApart DEF RootEnded, Goto, Types
  <2>5. cont' \in ContRecords
    BY <1>37, ContSet, StoreFields DEF RootEnded, Types, ContTo
  <2>6. failures < MaxFailures => failures + 1 \in 0..MaxFailures
    BY CompactionAssumption DEF Types
  <2>7. failures' \in 0..MaxFailures
    BY <1>37, <2>6 DEF RootEnded, Types
  <2>8. store' \in StoreRecords
    BY <1>37, HaltEffects DEF Types, MayHalt
  <2>9. cancel' \in [Tasks -> BOOLEAN]
    BY <1>37, TasksApart DEF RootEnded, Goto, Types
  <2>10. result' \in [Tasks -> Results]
    BY <1>37, TasksApart DEF RootEnded, Goto, Types, Results
  <2>11. plan' \in [Tasks -> PlanRecords]
    BY <1>37, PlanFields, TasksApart DEF RootEnded, Goto, Types
  <2> QED BY <2>2, <2>3, <2>4, <2>5, <2>6, <2>7, <2>8, <2>9, <2>10, <2>11 DEF Types
<1>38. CASE SettleConfirm
  <2>1. UNCHANGED <<host, stale, lane, fence, writes, cancel, plan, result, waiter,
     outcomes, asked, told, ran, store, failures, budget, pc>>
    BY <1>38 DEF SettleConfirm, owner, manual
  <2>2. settle' \in Settlements \cup {None}
    BY <1>38, SettlementEffects DEF Types, SettleTo, ContTo, Confirms
  <2>3. cont' \in ContRecords
    BY <1>38, SettlementEffects DEF Types, SettleTo, ContTo, Confirms
  <2>4. handle' \in Tasks \cup {None, "settlement", "successor"}
    BY <1>38, SettlementEffects DEF Types, SettleTo, ContTo, Confirms
  <2> QED BY <2>1, <2>2, <2>3, <2>4 DEF Types
<1>39. CASE SettleReconfirm
  <2>1. UNCHANGED <<host, stale, lane, fence, writes, cancel, plan, result, waiter,
     outcomes, asked, told, ran, store, failures, budget, pc>>
    BY <1>39 DEF SettleReconfirm, owner, manual
  <2>2. settle' \in Settlements \cup {None}
    BY <1>39, SettlementEffects DEF Types, SettleTo, ContTo, Confirms
  <2>3. cont' \in ContRecords
    BY <1>39, SettlementEffects DEF Types, SettleTo, ContTo, Confirms
  <2>4. handle' \in Tasks \cup {None, "settlement", "successor"}
    BY <1>39, SettlementEffects DEF Types, SettleTo, ContTo, Confirms
  <2> QED BY <2>1, <2>2, <2>3, <2>4 DEF Types
<1>40. CASE SettleAdopt
  <2>1. UNCHANGED <<host, stale, lane, fence, writes, cancel, plan, result, waiter,
     outcomes, asked, told, ran, failures, pc>>
    BY <1>40 DEF SettleAdopt, owner, manual
  <2>2. settle' \in Settlements \cup {None}
    BY <1>40, SettlementEffects DEF Types, SettleTo, ContTo, Adopting, Confirms
  <2>3. cont' \in ContRecords
    BY <1>40, SettlementEffects DEF Types, SettleTo, ContTo, Adopting, Confirms
  <2>4. handle' \in Tasks \cup {None, "settlement", "successor"}
    BY <1>40, SettlementEffects DEF Types, SettleTo, ContTo, Adopting, Confirms
  <2>5. store' \in StoreRecords
    BY <1>40, AdoptEffects DEF Types, MayAdopt
  <2>6. budget' \in BudgetRecords
    BY <1>40, BudgetFields DEF SettleAdopt, Confirmed, Types
  <2> QED BY <2>1, <2>2, <2>3, <2>4, <2>5, <2>6 DEF Types
<1>41. CASE SettleHooks
  <2>1. UNCHANGED <<host, stale, lane, fence, writes, cancel, plan, result, waiter,
     outcomes, asked, told, ran, store, budget, pc>>
    BY <1>41 DEF SettleHooks, owner, manual
  <2>2. settle' \in Settlements \cup {None}
    BY <1>41, SettlementEffects DEF Types, SettleTo, ContTo, AfterHooks, Retires
  <2>3. handle' \in Tasks \cup {None, "settlement", "successor"}
    BY <1>41, SettlementEffects DEF Types, SettleTo, ContTo, AfterHooks, Retires
  <2>4. cont' \in ContRecords
    BY <1>41, SettlementEffects DEF Types, SettleTo, ContTo, AfterHooks, Retires
  <2>5. 0 \in 0..MaxFailures
    BY CompactionAssumption
  <2>6. failures' \in 0..MaxFailures
    BY <1>41, <2>5 DEF SettleHooks, Types
  <2> QED BY <2>1, <2>2, <2>3, <2>4, <2>5, <2>6 DEF Types
<1>42. CASE SettleStatus
  <2>1. UNCHANGED <<host, stale, lane, fence, writes, cancel, plan, result, waiter,
     outcomes, asked, told, ran, store, budget, pc>>
    BY <1>42 DEF SettleStatus, owner, manual
  <2>2. settle' \in Settlements \cup {None}
    BY <1>42, SettlementEffects DEF Types, SettleTo, ContTo, AfterStatus, Retires
  <2>3. handle' \in Tasks \cup {None, "settlement", "successor"}
    BY <1>42, SettlementEffects DEF Types, SettleTo, ContTo, AfterStatus, Retires
  <2>4. cont' \in ContRecords
    BY <1>42, SettlementEffects DEF Types, SettleTo, ContTo, AfterStatus, Retires
  <2>5. 0 \in 0..MaxFailures
    BY CompactionAssumption
  <2>6. failures' \in 0..MaxFailures
    BY <1>42, <2>5 DEF SettleStatus, Types
  <2> QED BY <2>1, <2>2, <2>3, <2>4, <2>5, <2>6 DEF Types
<1>43. CASE SettleRotate
  <2>1. UNCHANGED <<host, stale, lane, fence, writes, cancel, plan, result, waiter,
     outcomes, asked, told, ran, store, budget, pc>>
    BY <1>43 DEF SettleRotate, owner, manual
  <2>2. settle' \in Settlements \cup {None}
    BY <1>43, SettlementEffects DEF Types, SettleTo, ContTo, AfterRotate, Retires
  <2>3. handle' \in Tasks \cup {None, "settlement", "successor"}
    BY <1>43, SettlementEffects DEF Types, SettleTo, ContTo, AfterRotate, Retires
  <2>4. cont' \in ContRecords
    BY <1>43, SettlementEffects DEF Types, SettleTo, ContTo, AfterRotate, Retires
  <2>5. 0 \in 0..MaxFailures
    BY CompactionAssumption
  <2>6. failures' \in 0..MaxFailures
    BY <1>43, <2>5 DEF SettleRotate, Types
  <2> QED BY <2>1, <2>2, <2>3, <2>4, <2>5, <2>6 DEF Types
<1>44. CASE BeginClose
  <2>1. UNCHANGED <<stale, lane, fence, writes, plan, result, waiter, outcomes, asked,
     told, ran, settle, store, cont, handle, failures, budget, pc>>
    BY <1>44 DEF BeginClose, owner, manual
  <2>2. host' \in {"open", "closing", "joining", "closed"}
    BY <1>44, TasksApart DEF BeginClose, Types
  <2>3. cancel' \in [Tasks -> BOOLEAN]
    BY <1>44, TasksApart DEF BeginClose, Types
  <2> QED BY <2>1, <2>2, <2>3 DEF Types
<1>45. CASE OwnerClose
  <2>1. UNCHANGED <<stale, lane, fence, writes, plan, result, outcomes, asked, told,
     ran, settle, store, cont, handle, failures, budget, pc>>
    BY <1>45 DEF OwnerClose, owner, manual
  <2>2. host' \in {"open", "closing", "joining", "closed"}
    BY <1>45, TasksApart DEF OwnerClose, Types
  <2>3. waiter' \in WaiterRecords \cup {None}
    BY <1>45, TasksApart DEF OwnerClose, Types, WaiterRecords
  <2>4. cancel' \in [Tasks -> BOOLEAN]
    BY <1>45, TasksApart DEF OwnerClose, Types
  <2> QED BY <2>1, <2>2, <2>3, <2>4 DEF Types
<1>46. CASE CloseDone
  <2>1. UNCHANGED <<stale, lane, fence, writes, cancel, plan, result, waiter, outcomes,
     asked, told, ran, settle, store, handle, failures, budget, pc>>
    BY <1>46 DEF CloseDone, owner, manual
  <2>2. host' \in {"open", "closing", "joining", "closed"}
    BY <1>46, TasksApart DEF CloseDone, Types
  <2>3. cont' \in ContRecords
    BY <1>46, ContTurns DEF CloseDone, Leave, Types, ContTo
  <2> QED BY <2>1, <2>2, <2>3 DEF Types
<1>47. CASE Takeover
  <2>1. UNCHANGED <<host, lane, fence, writes, cancel, plan, result, waiter, outcomes,
     asked, told, ran, settle, cont, handle, failures, budget, pc>>
    BY <1>47 DEF Takeover, owner, manual
  <2>2. stale' \in BOOLEAN
    BY <1>47, TasksApart DEF Takeover, Types
  <2>3. store' \in StoreRecords
    BY <1>47, TakeoverFields DEF Types
  <2> QED BY <2>1, <2>2, <2>3 DEF Types
<1>48. CASE Crash
  <2>1. pc' \in [Tasks -> PcPlaces]
    BY <1>48 DEF Crash, PcPlaces
  <2>2. UNCHANGED <<ran>>
    BY <1>48 DEF Crash, manual
  <2>3. host' \in {"open", "closing", "joining", "closed"}
    BY <1>48, TasksApart DEF Crash, NoPlan, Types
  <2>4. stale' \in BOOLEAN
    BY <1>48, TasksApart DEF Crash, NoPlan, Types
  <2>5. lane' \in Tasks \cup {None}
    BY <1>48, TasksApart DEF Crash, NoPlan, Types
  <2>6. fence' \in FenceRecords \cup {None}
    BY <1>48, TasksApart, FenceFields DEF Crash, NoPlan, Types, Phases
  <2>7. writes' \subseteq Writers
    BY <1>48, TasksApart DEF Crash, NoPlan, Types
  <2>8. cancel' \in [Tasks -> BOOLEAN]
    BY <1>48, TasksApart DEF Crash, NoPlan, Types
  <2>9. plan' \in [Tasks -> PlanRecords]
    BY <1>48, PlanFields, TasksApart DEF Crash, NoPlan, Types
  <2>10. result' \in [Tasks -> Results]
    BY <1>48, TasksApart DEF Crash, NoPlan, Types, Results
  <2>11. waiter' \in WaiterRecords \cup {None}
    BY <1>48, TasksApart DEF Crash, NoPlan, Types, WaiterRecords
  <2>12. outcomes' \in Seq(OutcomeRecords) /\ Len(outcomes') <= MaxOutcomes
    BY <1>48, CompactionAssumption DEF Crash, NoPlan, Types
  <2>13. asked' \subseteq Commands
    BY <1>48, TasksApart DEF Crash, NoPlan, Types
  <2>14. settle' \in Settlements \cup {None}
    BY <1>48, TasksApart DEF Crash, NoPlan, Types
  <2>15. store' \in StoreRecords
    BY <1>48, HaltsFields DEF Crash, Halts, Types
  <2>16. cont' \in ContRecords
    BY <1>48, ContSet, StoreFields DEF Crash, Types, ContTo
  <2>17. told' \in [Commands -> Told]
    BY <1>48, TasksApart, OutcomeTypes DEF Crash, NoPlan, Types, Told, StopWord,
       OutcomeWord
  <2>18. handle' \in Tasks \cup {None, "settlement", "successor"}
    BY <1>48, TasksApart DEF Crash, NoPlan, Types
  <2>19. 0 \in 0..MaxFailures
    BY CompactionAssumption
  <2>20. failures' \in 0..MaxFailures
    BY <1>48, <2>19 DEF Crash, Types
  <2>21. budget' \in BudgetRecords
    BY <1>48, BudgetFields DEF Crash, NoPlan, Types
  <2> QED BY <2>1, <2>2, <2>3, <2>4, <2>5, <2>6, <2>7, <2>8, <2>9, <2>10, <2>11, <2>12,
     <2>13, <2>14, <2>15, <2>16, <2>17, <2>18, <2>19, <2>20, <2>21 DEF Types
<1>49. CASE ReconfirmRaises
  <2>1. UNCHANGED <<host, stale, lane, fence, writes, cancel, plan, result, waiter,
     outcomes, asked, told, ran, store, failures, pc>>
    BY <1>49 DEF ReconfirmRaises, owner, manual
  <2>2. settle' \in Settlements \cup {None}
    BY <1>49, SettlementEffects DEF Types, SettleTo, ContTo, Abandons
  <2>3. cont' \in ContRecords
    BY <1>49, SettlementEffects DEF Types, SettleTo, ContTo, Abandons
  <2>4. handle' \in Tasks \cup {None, "settlement", "successor"}
    BY <1>49, SettlementEffects DEF Types, SettleTo, ContTo, Abandons
  <2>5. budget' \in BudgetRecords
    BY <1>49, BudgetFields DEF ReconfirmRaises, Types
  <2> QED BY <2>1, <2>2, <2>3, <2>4, <2>5 DEF Types
<1> QED
  BY Next, <1>1, <1>2, <1>3, <1>4, <1>5, <1>6, <1>7, <1>8, <1>9, <1>10, <1>11, <1>12,
     <1>13, <1>14, <1>15, <1>16, <1>17, <1>18, <1>19, <1>20, <1>21, <1>22, <1>23, <1>24,
     <1>25, <1>26, <1>27, <1>28, <1>29, <1>30, <1>31, <1>32, <1>33, <1>34, <1>35, <1>36,
     <1>37, <1>38, <1>39, <1>40, <1>41, <1>42, <1>43, <1>44, <1>45, <1>46, <1>47, <1>48, <1>49
  DEF Next, Attempt, CommandStep, WriterStep, RootStep, Settlement

(* The lane and the fence follow every step. *)
LEMMA LanesStep ==
    ASSUME Types, Lanes, Places, Next
    PROVE  Lanes'
<1>1. ASSUME NEW t \in Tasks, AcquireLane(t) PROVE Lanes'
  <2>1. Moves(t, "lane", {"install"})
    BY <1>1, AttemptsMoves
  <2>2. UNCHANGED <<fence, writes>>
    BY <1>1 DEF AcquireLane, owner
  <2> QED BY <1>1, <2>1, <2>2, Types, Lanes, TasksApart DEF AcquireLane, Goto, Moves,
     Types, Lanes, FenceExcludesWriters, Fenced
<1>2. ASSUME NEW t \in Tasks, CancelBeforeFence(t) PROVE Lanes'
  <2>1. \E p \in {"lane", "install"} : Moves(t, p, {"ended"})
    BY <1>2, AttemptsMoves
  <2>2. UNCHANGED <<fence, writes>>
    BY <1>2 DEF CancelBeforeFence, owner
  <2> QED BY <1>2, <2>1, <2>2, Types, Lanes, TasksApart DEF CancelBeforeFence, Goto,
     Moves, Types, Lanes, FenceExcludesWriters, Fenced
<1>3. ASSUME NEW t \in Tasks, Install(t) PROVE Lanes'
  <2>1. CASE fence' = fence /\ lane' = None /\ pc' = [pc EXCEPT ![t] = "ended"]
    <3>1. writes' = writes /\ pc[t] = "install"
      BY <1>3 DEF Install
    <3> QED BY <2>1, <3>1, Types, Lanes, TasksApart
      DEF Types, Lanes, FenceExcludesWriters, Fenced
  <2>2. CASE fence' = [owner |-> t, phase |-> "PREPARING"]
    <3>1. fence' # None /\ fence'.owner = t
      BY <2>2, FenceFields DEF Phases
    <3>2. fence = None \/ fence' = fence
      BY <1>3 DEF Install, MayFence
    <3> QED BY <1>3, <2>1, <2>2, <3>1, <3>2, Types, Lanes, TasksApart
      DEF Install, MayFence, Goto, Types, Lanes, FenceExcludesWriters, Fenced
  <2> QED BY <1>3, <2>1, <2>2 DEF Install, Goto
<1>4. ASSUME NEW t \in Tasks, Freeze(t) PROVE Lanes'
  <2>1. Moves(t, "freeze", {"plan", "remove"})
    BY <1>4, AttemptsMoves
  <2>2. UNCHANGED <<lane, fence, writes>>
    BY <1>4 DEF Freeze, owner
  <2> QED BY <2>1, <2>2, Types, Lanes, TasksApart DEF Moves, Types, Lanes,
     FenceExcludesWriters, Fenced
<1>5. ASSUME NEW t \in Tasks, Plan(t) PROVE Lanes'
  <2>1. Moves(t, "plan", {"stream", "remove"})
    BY <1>5, AttemptsMoves
  <2>2. UNCHANGED <<lane, writes>>
    BY <1>5 DEF Plan, owner
  <2>3. fence \in FenceRecords /\ fence.owner = t
    BY <2>1 DEF Lanes, Types, Fenced, Moves
  <2>4. fence' = fence \/ \E p \in Phases : fence' = [fence EXCEPT !.phase = p]
    BY <1>5 DEF Plan, Leave, Phase, Phases
  <2>5. CASE fence' = fence
    BY <2>1, <2>2, <2>3, <2>5, TasksApart
    DEF Moves, Types, Lanes, FenceExcludesWriters, Fenced
  <2>6. ASSUME NEW p \in Phases, fence' = [fence EXCEPT !.phase = p] PROVE Lanes'
    <3>1. fence' # None /\ fence'.owner = fence.owner
      BY <2>3, <2>6, FenceFields
    <3> QED BY <2>1, <2>2, <2>3, <3>1, TasksApart
      DEF Moves, Types, Lanes, FenceExcludesWriters, Fenced
  <2> QED BY <2>4, <2>5, <2>6
<1>6. ASSUME NEW t \in Tasks, Stream(t) PROVE Lanes'
  <2>1. \E p \in {"stream", "repair"} : Moves(t, p, {"repair", "fit", "remove"})
    BY <1>6, AttemptsMoves
  <2>2. UNCHANGED <<lane, writes>>
    BY <1>6 DEF Stream, owner
  <2>3. fence \in FenceRecords /\ fence.owner = t
    BY <2>1 DEF Lanes, Types, Fenced, Moves
  <2>4. fence' = fence \/ \E p \in Phases : fence' = [fence EXCEPT !.phase = p]
    BY <1>6 DEF Stream, Leave, Phase, Phases
  <2>5. CASE fence' = fence
    BY <2>1, <2>2, <2>3, <2>5, TasksApart
    DEF Moves, Types, Lanes, FenceExcludesWriters, Fenced
  <2>6. ASSUME NEW p \in Phases, fence' = [fence EXCEPT !.phase = p] PROVE Lanes'
    <3>1. fence' # None /\ fence'.owner = fence.owner
      BY <2>3, <2>6, FenceFields
    <3> QED BY <2>1, <2>2, <2>3, <3>1, TasksApart
      DEF Moves, Types, Lanes, FenceExcludesWriters, Fenced
  <2> QED BY <2>4, <2>5, <2>6
<1>7. ASSUME NEW t \in Tasks, Fit(t) PROVE Lanes'
  <2>1. Moves(t, "fit", {"freeze", "join", "remove"})
    BY <1>7, AttemptsMoves
  <2>2. UNCHANGED <<lane, writes>>
    BY <1>7 DEF Fit, owner
  <2>3. fence \in FenceRecords /\ fence.owner = t
    BY <2>1 DEF Lanes, Types, Fenced, Moves
  <2>4. fence' = fence \/ \E p \in Phases : fence' = [fence EXCEPT !.phase = p]
    BY <1>7 DEF Fit, Leave, Phase, Phases
  <2>5. CASE fence' = fence
    BY <2>1, <2>2, <2>3, <2>5, TasksApart
    DEF Moves, Types, Lanes, FenceExcludesWriters, Fenced
  <2>6. ASSUME NEW p \in Phases, fence' = [fence EXCEPT !.phase = p] PROVE Lanes'
    <3>1. fence' # None /\ fence'.owner = fence.owner
      BY <2>3, <2>6, FenceFields
    <3> QED BY <2>1, <2>2, <2>3, <3>1, TasksApart
      DEF Moves, Types, Lanes, FenceExcludesWriters, Fenced
  <2> QED BY <2>4, <2>5, <2>6
<1>8. ASSUME NEW t \in Tasks, CancelFenced(t) PROVE Lanes'
  <2>1. \E p \in {"freeze", "plan", "stream", "repair", "fit"} : Moves(t, p, {"remove"})
    BY <1>8, AttemptsMoves
  <2>2. UNCHANGED <<lane, fence, writes>>
    BY <1>8 DEF CancelFenced, owner
  <2> QED BY <2>1, <2>2, Types, Lanes, TasksApart DEF Moves, Types, Lanes,
     FenceExcludesWriters, Fenced
<1>9. ASSUME NEW t \in Tasks, Join(t) PROVE Lanes'
  <2>1. Moves(t, "join", {"remove"})
    BY <1>9, AttemptsMoves
  <2>2. UNCHANGED <<lane, fence, writes>>
    BY <1>9 DEF Join, owner
  <2> QED BY <2>1, <2>2, Types, Lanes, TasksApart DEF Moves, Types, Lanes,
     FenceExcludesWriters, Fenced
<1>10. ASSUME NEW t \in Tasks, Remove(t) PROVE Lanes'
  <2>1. Moves(t, "remove", {"ended"})
    BY <1>10, AttemptsMoves
  <2>2. UNCHANGED <<writes>>
    BY <1>10 DEF Remove, owner
  <2> QED BY <1>10, <2>1, <2>2, Types, Lanes, TasksApart DEF Remove, Goto, Moves, Types,
     Lanes, FenceExcludesWriters, Fenced
<1>11. ASSUME NEW t \in Tasks, RemoveCancelled(t) PROVE Lanes'
  <2>1. Moves(t, "remove", {"ended"})
    BY <1>11, AttemptsMoves
  <2>2. UNCHANGED <<fence, writes>>
    BY <1>11 DEF RemoveCancelled, owner
  <2> QED BY <1>11, <2>1, <2>2, Types, Lanes, TasksApart DEF RemoveCancelled, Goto,
     Moves, Types, Lanes, FenceExcludesWriters, Fenced
<1>12. ASSUME NEW c \in Commands, RequestCommand(c) PROVE Lanes'
  <2>1. UNCHANGED pc \/ (Moves(c, "off", {"check"}) /\ Idle /\ host = "open")
    BY <1>12, RequestMoves
  <2>2. UNCHANGED <<lane, fence, writes>>
    BY <1>12 DEF RequestCommand, owner
  <2> QED BY <2>1, <2>2, Types, Lanes, TasksApart DEF Moves, Types, Lanes,
     FenceExcludesWriters, Fenced, Idle, HasActiveWork
<1>13. ASSUME NEW c \in Commands, RequestLate(c) PROVE Lanes'
  <2>1. UNCHANGED pc \/ (Moves(c, "off", {"check"}) /\ Idle /\ host = "open")
    BY <1>13, RequestMoves
  <2>2. UNCHANGED <<lane, fence, writes>>
    BY <1>13 DEF RequestLate, owner
  <2> QED BY <2>1, <2>2, Types, Lanes, TasksApart DEF Moves, Types, Lanes,
     FenceExcludesWriters, Fenced, Idle, HasActiveWork
<1>14. ASSUME NEW c \in Commands, CommandCheck(c) PROVE Lanes'
  <2>1. Moves(c, "check", {"off", "confirm"})
    BY <1>14, CommandMoves
  <2>2. UNCHANGED <<lane, fence, writes>>
    BY <1>14 DEF CommandCheck, owner
  <2> QED BY <2>1, <2>2, Types, Lanes, TasksApart DEF Moves, Types, Lanes,
     FenceExcludesWriters, Fenced
<1>15. ASSUME NEW c \in Commands, CommandConfirm(c) PROVE Lanes'
  <2>1. Moves(c, "confirm", {"off", "request", "accept"})
    BY <1>15, CommandMoves
  <2>2. UNCHANGED <<lane, fence, writes>>
    BY <1>15 DEF CommandConfirm, owner
  <2> QED BY <2>1, <2>2, Types, Lanes, TasksApart DEF Moves, Types, Lanes,
     FenceExcludesWriters, Fenced
<1>16. ASSUME NEW c \in Commands, CommandAccept(c) PROVE Lanes'
  <2>1. Moves(c, "accept", {"off", "request", "confirm"})
    BY <1>16, CommandMoves
  <2>2. UNCHANGED <<lane, fence, writes>>
    BY <1>16 DEF CommandAccept, owner
  <2> QED BY <2>1, <2>2, Types, Lanes, TasksApart DEF Moves, Types, Lanes,
     FenceExcludesWriters, Fenced
<1>17. ASSUME NEW c \in Commands, CommandRequest(c) PROVE Lanes'
  <2>1. Moves(c, "request", {"off", "settle", "claim"})
    BY <1>17, CommandMoves
  <2>2. UNCHANGED <<lane, fence, writes>>
    BY <1>17 DEF CommandRequest, owner
  <2> QED BY <2>1, <2>2, Types, Lanes, TasksApart DEF Moves, Types, Lanes,
     FenceExcludesWriters, Fenced
<1>18. ASSUME NEW c \in Commands, CommandClaim(c) PROVE Lanes'
  <2>1. Moves(c, "claim", {"off", "lane"})
    BY <1>18, CommandMoves
  <2>2. UNCHANGED <<lane, fence, writes>>
    BY <1>18 DEF CommandClaim, owner
  <2> QED BY <2>1, <2>2, Types, Lanes, TasksApart DEF Moves, Types, Lanes,
     FenceExcludesWriters, Fenced
<1>19. ASSUME NEW c \in Commands, CommandEnded(c) PROVE Lanes'
  <2>1. Moves(c, "ended", {"settle"})
    BY <1>19, CommandMoves
  <2>2. UNCHANGED <<lane, fence, writes>>
    BY <1>19 DEF CommandEnded, owner
  <2> QED BY <2>1, <2>2, Types, Lanes, TasksApart DEF Moves, Types, Lanes,
     FenceExcludesWriters, Fenced
<1>20. ASSUME NEW c \in Commands, CommandSettle(c) PROVE Lanes'
  <2>1. Moves(c, "settle", {"off"})
    BY <1>20, CommandMoves
  <2>2. UNCHANGED <<lane, fence, writes>>
    BY <1>20 DEF CommandSettle, owner
  <2> QED BY <2>1, <2>2, Types, Lanes, TasksApart DEF Moves, Types, Lanes,
     FenceExcludesWriters, Fenced
<1>21. ASSUME NEW w \in Writers, WriterReserve(w) PROVE Lanes'
  <2>1. Moves(w, "off", {"hold"})
    BY <1>21, WriterMoves
  <2>2. UNCHANGED <<lane, fence>>
    BY <1>21 DEF WriterReserve, owner
  <2> QED BY <1>21, <2>1, <2>2, Types, Lanes, TasksApart DEF WriterReserve, Goto, Moves,
     Types, Lanes, FenceExcludesWriters, Fenced
<1>22. ASSUME NEW w \in Writers, WriterCompact(w) PROVE Lanes'
  <2>1. Moves(w, "hold", {"lane"})
    BY <1>22, WriterMoves
  <2>2. UNCHANGED <<lane, fence, writes>>
    BY <1>22 DEF WriterCompact, owner
  <2> QED BY <2>1, <2>2, Types, Lanes, TasksApart DEF Moves, Types, Lanes,
     FenceExcludesWriters, Fenced
<1>23. ASSUME NEW w \in Writers, WriterWrite(w) PROVE Lanes'
  <2>1. Moves(w, "hold", {"release"})
    BY <1>23, WriterMoves
  <2>2. UNCHANGED <<lane, fence, writes>>
    BY <1>23 DEF WriterWrite, owner
  <2> QED BY <2>1, <2>2, Types, Lanes, TasksApart DEF Moves, Types, Lanes,
     FenceExcludesWriters, Fenced
<1>24. ASSUME NEW w \in Writers, WriterRelease(w) PROVE Lanes'
  <2>1. Moves(w, "release", {"off"})
    BY <1>24, WriterMoves
  <2>2. UNCHANGED <<lane, fence>>
    BY <1>24 DEF WriterRelease, owner
  <2> QED BY <1>24, <2>1, <2>2, Types, Lanes, TasksApart DEF WriterRelease, Goto, Moves,
     Types, Lanes, FenceExcludesWriters, Fenced
<1>25. ASSUME NEW w \in Writers, WriterEnded(w) PROVE Lanes'
  <2>1. Moves(w, "ended", {"release"})
    BY <1>25, WriterMoves
  <2>2. UNCHANGED <<lane, fence, writes>>
    BY <1>25 DEF WriterEnded, owner
  <2> QED BY <2>1, <2>2, Types, Lanes, TasksApart DEF Moves, Types, Lanes,
     FenceExcludesWriters, Fenced
<1>26. CASE Deliver
  <2>1. Moves(Root, "off", {"admit"})
    BY <1>26, RootMoves
  <2>2. UNCHANGED <<lane, fence, writes>>
    BY <1>26 DEF Deliver, owner
  <2> QED BY <2>1, <2>2, Types, Lanes, TasksApart DEF Moves, Types, Lanes,
     FenceExcludesWriters, Fenced
<1>27. CASE RootDispatch
  <2>1. Moves(Root, "run", {"model"})
    BY <1>27, RootMoves
  <2>2. UNCHANGED <<lane, fence, writes>>
    BY <1>27 DEF RootDispatch, owner
  <2> QED BY <2>1, <2>2, Types, Lanes, TasksApart DEF Moves, Types, Lanes,
     FenceExcludesWriters, Fenced
<1>28. CASE RootCompact
  <2>1. Moves(Root, "run", {"lane"})
    BY <1>28, RootMoves
  <2>2. UNCHANGED <<lane, fence, writes>>
    BY <1>28 DEF RootCompact, owner
  <2> QED BY <2>1, <2>2, Types, Lanes, TasksApart DEF Moves, Types, Lanes,
     FenceExcludesWriters, Fenced
<1>29. CASE StartTurn
  <2>1. Moves(Root, "admit", {"run"})
    BY <1>29, RootMoves
  <2>2. UNCHANGED <<lane, fence, writes>>
    BY <1>29 DEF StartTurn, owner
  <2> QED BY <2>1, <2>2, Types, Lanes, TasksApart DEF Moves, Types, Lanes,
     FenceExcludesWriters, Fenced
<1>30. CASE EndRoot
  <2>1. \E p \in {"run", "admit"} : Moves(Root, p, {"off"})
    BY <1>30, RootMoves
  <2>2. UNCHANGED <<lane, fence, writes>>
    BY <1>30 DEF EndRoot, owner
  <2> QED BY <2>1, <2>2, Types, Lanes, TasksApart DEF Moves, Types, Lanes,
     FenceExcludesWriters, Fenced
<1>31. CASE RootAnswer
  <2>1. Moves(Root, "model", {"run"})
    BY <1>31, RootMoves
  <2>2. UNCHANGED <<lane, fence, writes>>
    BY <1>31 DEF RootAnswer, owner
  <2> QED BY <2>1, <2>2, Types, Lanes, TasksApart DEF Moves, Types, Lanes,
     FenceExcludesWriters, Fenced
<1>32. CASE RootEnded
  <2>1. Moves(Root, "ended", {"model", "run", "off"})
    BY <1>32, RootMoves
  <2>2. UNCHANGED <<lane, fence, writes>>
    BY <1>32 DEF RootEnded, owner
  <2> QED BY <2>1, <2>2, Types, Lanes, TasksApart DEF Moves, Types, Lanes,
     FenceExcludesWriters, Fenced
<1>33. CASE Crash
  BY <1>33, Types, Lanes, TasksApart DEF Crash, NoPlan, Types, Lanes,
     FenceExcludesWriters, Fenced
<1>34. CASE \/ \E c \in Commands : QuerySlowly(c) \/ StopCommand(c)
            \/ SubmitPrompt \/ RootAppend \/ StopTurn \/ SettleConfirm
            \/ SettleReconfirm \/ ReconfirmRaises \/ SettleAdopt \/ SettleHooks \/ SettleStatus
            \/ SettleRotate \/ BeginClose \/ OwnerClose \/ CloseDone \/ Takeover
  <2>1. UNCHANGED <<lane, fence, writes, pc>>
    BY <1>34 DEF QuerySlowly, StopCommand, SubmitPrompt, RootAppend, StopTurn,
       SettleConfirm, SettleReconfirm, ReconfirmRaises, SettleAdopt, SettleHooks, SettleStatus,
       SettleRotate, BeginClose, OwnerClose, CloseDone, Takeover, owner
  <2> QED BY <2>1, Types, Lanes, TasksApart DEF Types, Lanes, FenceExcludesWriters,
     Fenced
<1> QED
  BY <1>1, <1>2, <1>3, <1>4, <1>5, <1>6, <1>7, <1>8, <1>9, <1>10, <1>11, <1>12, <1>13,
     <1>14, <1>15, <1>16, <1>17, <1>18, <1>19, <1>20, <1>21, <1>22, <1>23, <1>24, <1>25,
     <1>26, <1>27, <1>28, <1>29, <1>30, <1>31, <1>32, <1>33, <1>34
  DEF Next, Attempt, CommandStep, WriterStep, RootStep, Settlement

(* Every step leaves each task on its own path. *)
LEMMA PlacesStep ==
    ASSUME Types, Places, Next
    PROVE  Places'
<1>1. ASSUME NEW t \in Tasks, AcquireLane(t) PROVE Places'
  <2>1. Moves(t, "lane", {"install"})
    BY <1>1, AttemptsMoves
  <2>2. UNCHANGED <<writes, result>>
    BY <1>1 DEF AcquireLane, owner
  <2> QED BY <2>1, <2>2, Types, Places, TasksApart DEF Moves, Types, Places, Fenced,
     Attempting
<1>2. ASSUME NEW t \in Tasks, CancelBeforeFence(t) PROVE Places'
  <2>1. \E p \in {"lane", "install"} : Moves(t, p, {"ended"})
    BY <1>2, AttemptsMoves
  <2>2. UNCHANGED <<writes>>
    BY <1>2 DEF CancelBeforeFence, owner
  <2> QED BY <1>2, <2>1, <2>2, Types, Places, TasksApart DEF CancelBeforeFence, Goto,
     Moves, Types, Places, Fenced, Attempting
<1>3. ASSUME NEW t \in Tasks, Install(t) PROVE Places'
  <2>1. Moves(t, "install", {"freeze", "ended"})
    BY <1>3, AttemptsMoves
  <2>2. UNCHANGED <<writes>>
    BY <1>3 DEF Install, owner
  <2> QED BY <1>3, <2>1, <2>2, Types, Places, TasksApart DEF Install, Goto, MayFence,
     Moves, Types, Places, Fenced, Attempting
<1>4. ASSUME NEW t \in Tasks, Freeze(t) PROVE Places'
  <2>1. Moves(t, "freeze", {"plan", "remove"})
    BY <1>4, AttemptsMoves
  <2>2. UNCHANGED <<writes>>
    BY <1>4 DEF Freeze, owner
  <2> QED BY <1>4, <2>1, <2>2, Types, Places, TasksApart DEF Freeze, Goto, Leave,
     TargetReady, Moves, Types, Places, Fenced, Attempting
<1>5. ASSUME NEW t \in Tasks, Plan(t) PROVE Places'
  <2>1. Moves(t, "plan", {"stream", "remove"})
    BY <1>5, AttemptsMoves
  <2>2. UNCHANGED <<writes>>
    BY <1>5 DEF Plan, owner
  <2> QED BY <1>5, <2>1, <2>2, Types, Places, TasksApart DEF Plan, Goto, Leave, Phase,
     Moves, Types, Places, Fenced, Attempting
<1>6. ASSUME NEW t \in Tasks, Stream(t) PROVE Places'
  <2>1. \E p \in {"stream", "repair"} : Moves(t, p, {"repair", "fit", "remove"})
    BY <1>6, AttemptsMoves
  <2>2. UNCHANGED <<writes>>
    BY <1>6 DEF Stream, owner
  <2> QED BY <1>6, <2>1, <2>2, Types, Places, TasksApart DEF Stream, Goto, Leave, Phase,
     Moves, Types, Places, Fenced, Attempting
<1>7. ASSUME NEW t \in Tasks, Fit(t) PROVE Places'
  <2>1. Moves(t, "fit", {"freeze", "join", "remove"})
    BY <1>7, AttemptsMoves
  <2>2. UNCHANGED <<writes>>
    BY <1>7 DEF Fit, owner
  <2> QED BY <1>7, <2>1, <2>2, Types, Places, TasksApart DEF Fit, Goto, Leave, Phase,
     OwnerClosing, Moves, Types, Places, Fenced, Attempting
<1>8. ASSUME NEW t \in Tasks, CancelFenced(t) PROVE Places'
  <2>1. \E p \in {"freeze", "plan", "stream", "repair", "fit"} : Moves(t, p, {"remove"})
    BY <1>8, AttemptsMoves
  <2>2. UNCHANGED <<writes>>
    BY <1>8 DEF CancelFenced, owner
  <2> QED BY <1>8, <2>1, <2>2, Types, Places, TasksApart DEF CancelFenced, Goto, Leave,
     Moves, Types, Places, Fenced, Attempting
<1>9. ASSUME NEW t \in Tasks, Join(t) PROVE Places'
  <2>1. Moves(t, "join", {"remove"})
    BY <1>9, AttemptsMoves
  <2>2. UNCHANGED <<writes>>
    BY <1>9 DEF Join, owner
  <2> QED BY <1>9, <2>1, <2>2, Types, Places, TasksApart DEF Join, Goto, EmptyOnNewBase,
     Moves, Types, Places, Fenced, Attempting
<1>10. ASSUME NEW t \in Tasks, Remove(t) PROVE Places'
  <2>1. Moves(t, "remove", {"ended"})
    BY <1>10, AttemptsMoves
  <2>2. UNCHANGED <<writes, result>>
    BY <1>10 DEF Remove, owner
  <2> QED BY <2>1, <2>2, Types, Places, TasksApart DEF Moves, Types, Places, Fenced,
     Attempting
<1>11. ASSUME NEW t \in Tasks, RemoveCancelled(t) PROVE Places'
  <2>1. Moves(t, "remove", {"ended"})
    BY <1>11, AttemptsMoves
  <2>2. UNCHANGED <<writes>>
    BY <1>11 DEF RemoveCancelled, owner
  <2> QED BY <1>11, <2>1, <2>2, Types, Places, TasksApart DEF RemoveCancelled, Goto,
     Moves, Types, Places, Fenced, Attempting
<1>12. ASSUME NEW c \in Commands, RequestCommand(c) PROVE Places'
  <2>1. UNCHANGED pc \/ (Moves(c, "off", {"check"}) /\ Idle /\ host = "open")
    BY <1>12, RequestMoves
  <2>2. UNCHANGED <<writes, result>>
    BY <1>12 DEF RequestCommand, owner
  <2> QED BY <2>1, <2>2, Types, Places, TasksApart DEF Moves, Types, Places, Fenced,
     Attempting, Idle, HasActiveWork
<1>13. ASSUME NEW c \in Commands, RequestLate(c) PROVE Places'
  <2>1. UNCHANGED pc \/ (Moves(c, "off", {"check"}) /\ Idle /\ host = "open")
    BY <1>13, RequestMoves
  <2>2. UNCHANGED <<writes, result>>
    BY <1>13 DEF RequestLate, owner
  <2> QED BY <2>1, <2>2, Types, Places, TasksApart DEF Moves, Types, Places, Fenced,
     Attempting, Idle, HasActiveWork
<1>14. ASSUME NEW c \in Commands, CommandCheck(c) PROVE Places'
  <2>1. Moves(c, "check", {"off", "confirm"})
    BY <1>14, CommandMoves
  <2>2. UNCHANGED <<writes, result>>
    BY <1>14 DEF CommandCheck, owner
  <2> QED BY <2>1, <2>2, Types, Places, TasksApart DEF Moves, Types, Places, Fenced,
     Attempting
<1>15. ASSUME NEW c \in Commands, CommandConfirm(c) PROVE Places'
  <2>1. Moves(c, "confirm", {"off", "request", "accept"})
    BY <1>15, CommandMoves
  <2>2. UNCHANGED <<writes, result>>
    BY <1>15 DEF CommandConfirm, owner
  <2> QED BY <2>1, <2>2, Types, Places, TasksApart DEF Moves, Types, Places, Fenced,
     Attempting
<1>16. ASSUME NEW c \in Commands, CommandAccept(c) PROVE Places'
  <2>1. Moves(c, "accept", {"off", "request", "confirm"})
    BY <1>16, CommandMoves
  <2>2. UNCHANGED <<writes, result>>
    BY <1>16 DEF CommandAccept, owner
  <2> QED BY <2>1, <2>2, Types, Places, TasksApart DEF Moves, Types, Places, Fenced,
     Attempting
<1>17. ASSUME NEW c \in Commands, CommandRequest(c) PROVE Places'
  <2>1. Moves(c, "request", {"off", "settle", "claim"})
    BY <1>17, CommandMoves
  <2>2. UNCHANGED <<writes>>
    BY <1>17 DEF CommandRequest, owner
  <2> QED BY <1>17, <2>1, <2>2, Types, Places, TasksApart DEF CommandRequest, Goto,
     Return, OwnerClosing, Moves, Types, Places, Fenced, Attempting
<1>18. ASSUME NEW c \in Commands, CommandClaim(c) PROVE Places'
  <2>1. Moves(c, "claim", {"off", "lane"})
    BY <1>18, CommandMoves
  <2>2. UNCHANGED <<writes, result>>
    BY <1>18 DEF CommandClaim, owner
  <2> QED BY <2>1, <2>2, Types, Places, TasksApart DEF Moves, Types, Places, Fenced,
     Attempting
<1>19. ASSUME NEW c \in Commands, CommandEnded(c) PROVE Places'
  <2>1. Moves(c, "ended", {"settle"})
    BY <1>19, CommandMoves
  <2>2. UNCHANGED <<writes, result>>
    BY <1>19 DEF CommandEnded, owner
  <2> QED BY <2>1, <2>2, Types, Places, TasksApart DEF Moves, Types, Places, Fenced,
     Attempting
<1>20. ASSUME NEW c \in Commands, CommandSettle(c) PROVE Places'
  <2>1. Moves(c, "settle", {"off"})
    BY <1>20, CommandMoves
  <2>2. UNCHANGED <<writes>>
    BY <1>20 DEF CommandSettle, owner
  <2> QED BY <1>20, <2>1, <2>2, Types, Places, TasksApart DEF CommandSettle, Goto,
     Return, Moves, Types, Places, Fenced, Attempting
<1>21. ASSUME NEW w \in Writers, WriterReserve(w) PROVE Places'
  <2>1. Moves(w, "off", {"hold"})
    BY <1>21, WriterMoves
  <2>2. UNCHANGED <<result>>
    BY <1>21 DEF WriterReserve
  <2> QED BY <1>21, <2>1, <2>2, Types, Places, TasksApart DEF WriterReserve, Goto,
     Moves, Types, Places, Fenced, Attempting
<1>22. ASSUME NEW w \in Writers, WriterCompact(w) PROVE Places'
  <2>1. Moves(w, "hold", {"lane"})
    BY <1>22, WriterMoves
  <2>2. UNCHANGED <<writes, result>>
    BY <1>22 DEF WriterCompact, owner
  <2> QED BY <2>1, <2>2, Types, Places, TasksApart DEF Moves, Types, Places, Fenced,
     Attempting
<1>23. ASSUME NEW w \in Writers, WriterWrite(w) PROVE Places'
  <2>1. Moves(w, "hold", {"release"})
    BY <1>23, WriterMoves
  <2>2. UNCHANGED <<writes, result>>
    BY <1>23 DEF WriterWrite, owner
  <2> QED BY <2>1, <2>2, Types, Places, TasksApart DEF Moves, Types, Places, Fenced,
     Attempting
<1>24. ASSUME NEW w \in Writers, WriterRelease(w) PROVE Places'
  <2>1. Moves(w, "release", {"off"})
    BY <1>24, WriterMoves
  <2>2. UNCHANGED <<result>>
    BY <1>24 DEF WriterRelease
  <2> QED BY <1>24, <2>1, <2>2, Types, Places, TasksApart DEF WriterRelease, Goto,
     Moves, Types, Places, Fenced, Attempting
<1>25. ASSUME NEW w \in Writers, WriterEnded(w) PROVE Places'
  <2>1. Moves(w, "ended", {"release"})
    BY <1>25, WriterMoves
  <2>2. UNCHANGED <<writes>>
    BY <1>25 DEF WriterEnded, owner
  <2> QED BY <1>25, <2>1, <2>2, Types, Places, TasksApart DEF WriterEnded, Goto, Moves,
     Types, Places, Fenced, Attempting
<1>26. CASE Deliver
  <2>1. Moves(Root, "off", {"admit"})
    BY <1>26, RootMoves
  <2>2. UNCHANGED <<writes, result>>
    BY <1>26 DEF Deliver, owner
  <2> QED BY <2>1, <2>2, Types, Places, TasksApart DEF Moves, Types, Places, Fenced,
     Attempting
<1>27. CASE RootDispatch
  <2>1. Moves(Root, "run", {"model"})
    BY <1>27, RootMoves
  <2>2. UNCHANGED <<writes, result>>
    BY <1>27 DEF RootDispatch, owner
  <2> QED BY <2>1, <2>2, Types, Places, TasksApart DEF Moves, Types, Places, Fenced,
     Attempting
<1>28. CASE RootCompact
  <2>1. Moves(Root, "run", {"lane"})
    BY <1>28, RootMoves
  <2>2. UNCHANGED <<writes, result>>
    BY <1>28 DEF RootCompact, owner
  <2> QED BY <2>1, <2>2, Types, Places, TasksApart DEF Moves, Types, Places, Fenced,
     Attempting
<1>29. CASE StartTurn
  <2>1. Moves(Root, "admit", {"run"})
    BY <1>29, RootMoves
  <2>2. UNCHANGED <<writes, result>>
    BY <1>29 DEF StartTurn, owner
  <2> QED BY <2>1, <2>2, Types, Places, TasksApart DEF Moves, Types, Places, Fenced,
     Attempting
<1>30. CASE EndRoot
  <2>1. \E p \in {"run", "admit"} : Moves(Root, p, {"off"})
    BY <1>30, RootMoves
  <2>2. UNCHANGED <<writes, result>>
    BY <1>30 DEF EndRoot, owner
  <2> QED BY <2>1, <2>2, Types, Places, TasksApart DEF Moves, Types, Places, Fenced,
     Attempting
<1>31. CASE RootAnswer
  <2>1. Moves(Root, "model", {"run"})
    BY <1>31, RootMoves
  <2>2. UNCHANGED <<writes, result>>
    BY <1>31 DEF RootAnswer, owner
  <2> QED BY <2>1, <2>2, Types, Places, TasksApart DEF Moves, Types, Places, Fenced,
     Attempting
<1>32. CASE RootEnded
  <2>1. Moves(Root, "ended", {"model", "run", "off"})
    BY <1>32, RootMoves
  <2>2. UNCHANGED <<writes>>
    BY <1>32 DEF RootEnded, owner
  <2> QED BY <1>32, <2>1, <2>2, Types, Places, TasksApart DEF RootEnded, Goto, Moves,
     Types, Places, Fenced, Attempting
<1>33. CASE Crash
  BY <1>33, Types, Places, TasksApart DEF Crash, NoPlan, Types, Places, Fenced,
     Attempting
<1>34. CASE \/ \E c \in Commands : QuerySlowly(c) \/ StopCommand(c)
            \/ SubmitPrompt \/ RootAppend \/ StopTurn \/ SettleConfirm
            \/ SettleReconfirm \/ ReconfirmRaises \/ SettleAdopt \/ SettleHooks \/ SettleStatus
            \/ SettleRotate \/ BeginClose \/ OwnerClose \/ CloseDone \/ Takeover
  <2>1. UNCHANGED <<writes, result, pc>>
    BY <1>34 DEF QuerySlowly, StopCommand, SubmitPrompt, RootAppend, StopTurn,
       SettleConfirm, SettleReconfirm, ReconfirmRaises, SettleAdopt, SettleHooks, SettleStatus,
       SettleRotate, BeginClose, OwnerClose, CloseDone, Takeover, owner
  <2> QED BY <2>1, Types, Places, TasksApart DEF Types, Places, Fenced, Attempting
<1> QED
  BY <1>1, <1>2, <1>3, <1>4, <1>5, <1>6, <1>7, <1>8, <1>9, <1>10, <1>11, <1>12, <1>13,
     <1>14, <1>15, <1>16, <1>17, <1>18, <1>19, <1>20, <1>21, <1>22, <1>23, <1>24, <1>25,
     <1>26, <1>27, <1>28, <1>29, <1>30, <1>31, <1>32, <1>33, <1>34
  DEF Next, Attempt, CommandStep, WriterStep, RootStep, Settlement

(* A turn runs only under its ROOT task. *)
LEMMA RootsStep ==
    ASSUME Types, Roots, Places, Next
    PROVE  Roots'
<1>1. ASSUME NEW t \in Tasks, AcquireLane(t) PROVE Roots'
  <2>1. Moves(t, "lane", {"install"})
    BY <1>1, AttemptsMoves
  <2>2. UNCHANGED <<stale, store>>
    BY <1>1 DEF AcquireLane, owner
  <2> QED BY <2>1, <2>2, Types, Roots, Places, TasksApart DEF Moves, Types, Roots,
     Places, Fenced, Attempting
<1>2. ASSUME NEW t \in Tasks, CancelBeforeFence(t) PROVE Roots'
  <2>1. \E p \in {"lane", "install"} : Moves(t, p, {"ended"})
    BY <1>2, AttemptsMoves
  <2>2. UNCHANGED <<stale, store>>
    BY <1>2 DEF CancelBeforeFence, owner
  <2> QED BY <2>1, <2>2, Types, Roots, Places, TasksApart DEF Moves, Types, Roots,
     Places, Fenced, Attempting
<1>3. ASSUME NEW t \in Tasks, Install(t) PROVE Roots'
  <2>1. Moves(t, "install", {"freeze", "ended"})
    BY <1>3, AttemptsMoves
  <2>2. UNCHANGED <<stale, store>>
    BY <1>3 DEF Install, owner
  <2> QED BY <2>1, <2>2, Types, Roots, Places, TasksApart DEF Moves, Types, Roots,
     Places, Fenced, Attempting
<1>4. ASSUME NEW t \in Tasks, Freeze(t) PROVE Roots'
  <2>1. Moves(t, "freeze", {"plan", "remove"})
    BY <1>4, AttemptsMoves
  <2>2. UNCHANGED <<stale, store>>
    BY <1>4 DEF Freeze, owner
  <2> QED BY <2>1, <2>2, Types, Roots, Places, TasksApart DEF Moves, Types, Roots,
     Places, Fenced, Attempting
<1>5. ASSUME NEW t \in Tasks, Plan(t) PROVE Roots'
  <2>1. Moves(t, "plan", {"stream", "remove"})
    BY <1>5, AttemptsMoves
  <2>2. UNCHANGED <<stale, store>>
    BY <1>5 DEF Plan, owner
  <2> QED BY <2>1, <2>2, Types, Roots, Places, TasksApart DEF Moves, Types, Roots,
     Places, Fenced, Attempting
<1>6. ASSUME NEW t \in Tasks, Stream(t) PROVE Roots'
  <2>1. \E p \in {"stream", "repair"} : Moves(t, p, {"repair", "fit", "remove"})
    BY <1>6, AttemptsMoves
  <2>2. UNCHANGED <<stale, store>>
    BY <1>6 DEF Stream, owner
  <2> QED BY <2>1, <2>2, Types, Roots, Places, TasksApart DEF Moves, Types, Roots,
     Places, Fenced, Attempting
<1>7. ASSUME NEW t \in Tasks, Fit(t) PROVE Roots'
  <2>1. Moves(t, "fit", {"freeze", "join", "remove"})
    BY <1>7, AttemptsMoves
  <2>2. UNCHANGED <<stale, store>>
    BY <1>7 DEF Fit, owner
  <2> QED BY <2>1, <2>2, Types, Roots, Places, TasksApart DEF Moves, Types, Roots,
     Places, Fenced, Attempting
<1>8. ASSUME NEW t \in Tasks, CancelFenced(t) PROVE Roots'
  <2>1. \E p \in {"freeze", "plan", "stream", "repair", "fit"} : Moves(t, p, {"remove"})
    BY <1>8, AttemptsMoves
  <2>2. UNCHANGED <<stale, store>>
    BY <1>8 DEF CancelFenced, owner
  <2> QED BY <2>1, <2>2, Types, Roots, Places, TasksApart DEF Moves, Types, Roots,
     Places, Fenced, Attempting
<1>9. ASSUME NEW t \in Tasks, Join(t) PROVE Roots'
  <2>1. Moves(t, "join", {"remove"})
    BY <1>9, AttemptsMoves
  <2>2. UNCHANGED <<stale, store>>
    BY <1>9 DEF Join, owner
  <2> QED BY <2>1, <2>2, Types, Roots, Places, TasksApart DEF Moves, Types, Roots,
     Places, Fenced, Attempting
<1>10. ASSUME NEW t \in Tasks, Remove(t) PROVE Roots'
  <2>1. Moves(t, "remove", {"ended"})
    BY <1>10, AttemptsMoves
  <2>2. UNCHANGED <<stale, store>>
    BY <1>10 DEF Remove, owner
  <2> QED BY <2>1, <2>2, Types, Roots, Places, TasksApart DEF Moves, Types, Roots,
     Places, Fenced, Attempting
<1>11. ASSUME NEW t \in Tasks, RemoveCancelled(t) PROVE Roots'
  <2>1. Moves(t, "remove", {"ended"})
    BY <1>11, AttemptsMoves
  <2>2. UNCHANGED <<stale, store>>
    BY <1>11 DEF RemoveCancelled, owner
  <2> QED BY <2>1, <2>2, Types, Roots, Places, TasksApart DEF Moves, Types, Roots,
     Places, Fenced, Attempting
<1>12. ASSUME NEW c \in Commands, RequestCommand(c) PROVE Roots'
  <2>1. UNCHANGED pc \/ (Moves(c, "off", {"check"}) /\ Idle /\ host = "open")
    BY <1>12, RequestMoves
  <2>2. UNCHANGED <<stale, store>>
    BY <1>12 DEF RequestCommand, owner
  <2> QED BY <2>1, <2>2, Types, Roots, Places, TasksApart DEF Moves, Types, Roots,
     Places, Fenced, Attempting, Idle, HasActiveWork
<1>13. ASSUME NEW c \in Commands, RequestLate(c) PROVE Roots'
  <2>1. UNCHANGED pc \/ (Moves(c, "off", {"check"}) /\ Idle /\ host = "open")
    BY <1>13, RequestMoves
  <2>2. UNCHANGED <<stale, store>>
    BY <1>13 DEF RequestLate, owner
  <2> QED BY <2>1, <2>2, Types, Roots, Places, TasksApart DEF Moves, Types, Roots,
     Places, Fenced, Attempting, Idle, HasActiveWork
<1>14. ASSUME NEW c \in Commands, CommandCheck(c) PROVE Roots'
  <2>1. Moves(c, "check", {"off", "confirm"})
    BY <1>14, CommandMoves
  <2>2. UNCHANGED <<stale, store>>
    BY <1>14 DEF CommandCheck, owner
  <2> QED BY <2>1, <2>2, Types, Roots, Places, TasksApart DEF Moves, Types, Roots,
     Places, Fenced, Attempting
<1>15. ASSUME NEW c \in Commands, CommandConfirm(c) PROVE Roots'
  <2>1. Moves(c, "confirm", {"off", "request", "accept"})
    BY <1>15, CommandMoves
  <2>2. UNCHANGED <<stale, store>>
    BY <1>15 DEF CommandConfirm, owner
  <2> QED BY <2>1, <2>2, Types, Roots, Places, TasksApart DEF Moves, Types, Roots,
     Places, Fenced, Attempting
<1>16. ASSUME NEW c \in Commands, CommandAccept(c) PROVE Roots'
  <2>1. Moves(c, "accept", {"off", "request", "confirm"})
    BY <1>16, CommandMoves
  <2>2. UNCHANGED <<stale>>
    BY <1>16 DEF CommandAccept, owner
  <2>3. MayAccept(c)
    BY <1>16, AcceptEffects DEF Types
  <2> QED BY <2>1, <2>2, <2>3,  Types, Roots, Places, TasksApart DEF Types, Roots,
     Places, Attempting, Fenced, Moves, KeepsTurn, MayAccept
<1>17. ASSUME NEW c \in Commands, CommandRequest(c) PROVE Roots'
  <2>1. Moves(c, "request", {"off", "settle", "claim"})
    BY <1>17, CommandMoves
  <2>2. UNCHANGED <<stale, store>>
    BY <1>17 DEF CommandRequest, owner
  <2> QED BY <2>1, <2>2, Types, Roots, Places, TasksApart DEF Moves, Types, Roots,
     Places, Fenced, Attempting
<1>18. ASSUME NEW c \in Commands, CommandClaim(c) PROVE Roots'
  <2>1. Moves(c, "claim", {"off", "lane"})
    BY <1>18, CommandMoves
  <2>2. UNCHANGED <<stale, store>>
    BY <1>18 DEF CommandClaim, owner
  <2> QED BY <2>1, <2>2, Types, Roots, Places, TasksApart DEF Moves, Types, Roots,
     Places, Fenced, Attempting
<1>19. ASSUME NEW c \in Commands, CommandEnded(c) PROVE Roots'
  <2>1. Moves(c, "ended", {"settle"})
    BY <1>19, CommandMoves
  <2>2. UNCHANGED <<stale, store>>
    BY <1>19 DEF CommandEnded, owner
  <2> QED BY <2>1, <2>2, Types, Roots, Places, TasksApart DEF Moves, Types, Roots,
     Places, Fenced, Attempting
<1>20. ASSUME NEW c \in Commands, CommandSettle(c) PROVE Roots'
  <2>1. Moves(c, "settle", {"off"})
    BY <1>20, CommandMoves
  <2>2. UNCHANGED <<stale, store>>
    BY <1>20 DEF CommandSettle, owner
  <2> QED BY <2>1, <2>2, Types, Roots, Places, TasksApart DEF Moves, Types, Roots,
     Places, Fenced, Attempting
<1>21. ASSUME NEW w \in Writers, WriterReserve(w) PROVE Roots'
  <2>1. Moves(w, "off", {"hold"})
    BY <1>21, WriterMoves
  <2>2. UNCHANGED <<stale, store>>
    BY <1>21 DEF WriterReserve, owner
  <2> QED BY <2>1, <2>2, Types, Roots, Places, TasksApart DEF Moves, Types, Roots,
     Places, Fenced, Attempting
<1>22. ASSUME NEW w \in Writers, WriterCompact(w) PROVE Roots'
  <2>1. Moves(w, "hold", {"lane"})
    BY <1>22, WriterMoves
  <2>2. UNCHANGED <<stale, store>>
    BY <1>22 DEF WriterCompact, owner
  <2> QED BY <2>1, <2>2, Types, Roots, Places, TasksApart DEF Moves, Types, Roots,
     Places, Fenced, Attempting
<1>23. ASSUME NEW w \in Writers, WriterWrite(w) PROVE Roots'
  <2>1. Moves(w, "hold", {"release"})
    BY <1>23, WriterMoves
  <2>2. UNCHANGED <<stale>>
    BY <1>23 DEF WriterWrite, owner
  <2>3. MayAppend
    BY <1>23, AppendEffects DEF Types
  <2> QED BY <2>1, <2>2, <2>3,  Types, Roots, Places, TasksApart DEF Types, Roots,
     Places, Attempting, Fenced, Moves, KeepsTurn, MayAppend
<1>24. ASSUME NEW w \in Writers, WriterRelease(w) PROVE Roots'
  <2>1. Moves(w, "release", {"off"})
    BY <1>24, WriterMoves
  <2>2. UNCHANGED <<stale, store>>
    BY <1>24 DEF WriterRelease, owner
  <2> QED BY <2>1, <2>2, Types, Roots, Places, TasksApart DEF Moves, Types, Roots,
     Places, Fenced, Attempting
<1>25. ASSUME NEW w \in Writers, WriterEnded(w) PROVE Roots'
  <2>1. Moves(w, "ended", {"release"})
    BY <1>25, WriterMoves
  <2>2. UNCHANGED <<stale>>
    BY <1>25 DEF WriterEnded, owner
  <2>3. MayAppend
    BY <1>25, AppendEffects DEF Types
  <2> QED BY <2>1, <2>2, <2>3,  Types, Roots, Places, TasksApart DEF Types, Roots,
     Places, Attempting, Fenced, Moves, KeepsTurn, MayAppend
<1>26. CASE SubmitPrompt
  <2>2. UNCHANGED <<stale, pc>>
    BY <1>26 DEF SubmitPrompt, owner
  <2> QED BY <2>2, <1>26, SubmitFields, StoreFields, Types, Roots, Places DEF Types,
     Roots
<1>27. CASE Deliver
  <2>1. Moves(Root, "off", {"admit"})
    BY <1>27, RootMoves
  <2>2. UNCHANGED <<stale, store>>
    BY <1>27 DEF Deliver, owner
  <2>3. store.pending > 0
    BY <1>27 DEF Deliver
  <2> QED BY <2>1, <2>2, <2>3, Types, Roots, Places, TasksApart DEF Types, Roots, Moves
<1>28. CASE RootAppend
  <2>2. UNCHANGED <<stale, pc>>
    BY <1>28 DEF RootAppend, owner
  <2>3. MayAppend
    BY <1>28, AppendEffects DEF Types
  <2> QED BY <2>2, <2>3,  Types, Roots, Places, TasksApart DEF Types, Roots, Places,
     Attempting, Fenced, Moves, KeepsTurn, MayAppend
<1>29. CASE RootDispatch
  <2>1. Moves(Root, "run", {"model"})
    BY <1>29, RootMoves
  <2>2. UNCHANGED <<stale, store>>
    BY <1>29 DEF RootDispatch, owner
  <2> QED BY <2>1, <2>2, Types, Roots, Places, TasksApart DEF Moves, Types, Roots,
     Places, Fenced, Attempting
<1>30. CASE RootCompact
  <2>1. Moves(Root, "run", {"lane"})
    BY <1>30, RootMoves
  <2>2. UNCHANGED <<stale, store>>
    BY <1>30 DEF RootCompact, owner
  <2> QED BY <2>1, <2>2, Types, Roots, Places, TasksApart DEF Moves, Types, Roots,
     Places, Fenced, Attempting
<1>31. CASE StartTurn
  <2>1. Moves(Root, "admit", {"run"})
    BY <1>31, RootMoves
  <2>2. UNCHANGED <<stale>>
    BY <1>31 DEF StartTurn, owner
  <2>3. store.pending > 0 /\ ~stale
    BY <1>31, <2>1 DEF StartTurn, Roots, Moves
  <2> QED BY <1>31, <2>1, <2>2, <2>3, StartFields, TasksApart DEF Types, Roots, Moves
<1>32. CASE EndRoot
  <2>1. \E p \in {"run", "admit"} : Moves(Root, p, {"off"})
    BY <1>32, RootMoves
  <2>2. UNCHANGED <<stale>>
    BY <1>32 DEF EndRoot, owner
  <2>3. MayHalt
    BY <1>32, HaltEffects DEF Types
  <2> QED BY <2>1, <2>2, <2>3,  Types, Roots, Places, TasksApart DEF Types, Roots,
     Places, Attempting, Fenced, Moves, KeepsTurn, MayHalt
<1>33. CASE RootAnswer
  <2>1. Moves(Root, "model", {"run"})
    BY <1>33, RootMoves
  <2>2. UNCHANGED <<stale>>
    BY <1>33 DEF RootAnswer, owner
  <2>3. MayAppend
    BY <1>33, AppendEffects DEF Types
  <2> QED BY <2>1, <2>2, <2>3,  Types, Roots, Places, TasksApart DEF Types, Roots,
     Places, Attempting, Fenced, Moves, KeepsTurn, MayAppend
<1>34. CASE RootEnded
  <2>1. Moves(Root, "ended", {"model", "run", "off"})
    BY <1>34, RootMoves
  <2>2. UNCHANGED <<stale>>
    BY <1>34 DEF RootEnded, owner
  <2>3. CASE MayHalt
    BY <2>1, <2>2, <2>3, Types, Roots DEF MayHalt, Types, Roots, Moves
  <2>4. CASE store' = store /\ \E q \in {"model", "run"} : pc' = [pc EXCEPT ![Root] = q]
    BY <2>1, <2>2, <2>4, Types, Roots, TasksApart DEF Types, Roots, Moves
  <2> QED BY <1>34, <2>3, <2>4, HaltEffects DEF Types
<1>35. CASE SettleAdopt
  <2>2. UNCHANGED <<stale, pc>>
    BY <1>35 DEF SettleAdopt, owner
  <2>3. MayAdopt
    BY <1>35, AdoptEffects DEF Types
  <2> QED BY <2>2, <2>3,  Types, Roots, Places, TasksApart DEF Types, Roots, Places,
     Attempting, Fenced, Moves, KeepsTurn, MayAdopt
<1>36. CASE Takeover
  <2>2. UNCHANGED <<pc>>
    BY <1>36 DEF Takeover
  <2> QED BY <1>36, <2>2, TakeoverFields, Roots DEF Types, Roots
<1>37. CASE Crash
  BY <1>37, Types, Roots, Places, TasksApart DEF Crash, NoPlan, Types, Roots, Places,
     Fenced, Attempting
<1>38. CASE \/ \E c \in Commands : QuerySlowly(c) \/ StopCommand(c)
            \/ StopTurn \/ SettleConfirm \/ SettleReconfirm \/ ReconfirmRaises \/ SettleHooks
            \/ SettleStatus \/ SettleRotate \/ BeginClose \/ OwnerClose \/ CloseDone
  <2>1. UNCHANGED <<stale, store, pc>>
    BY <1>38 DEF QuerySlowly, StopCommand, StopTurn, SettleConfirm, SettleReconfirm, ReconfirmRaises,
       SettleHooks, SettleStatus, SettleRotate, BeginClose, OwnerClose, CloseDone,
       owner
  <2> QED BY <2>1, Types, Roots, Places, TasksApart DEF Types, Roots, Places, Fenced,
     Attempting
<1> QED
  BY <1>1, <1>2, <1>3, <1>4, <1>5, <1>6, <1>7, <1>8, <1>9, <1>10, <1>11, <1>12, <1>13,
     <1>14, <1>15, <1>16, <1>17, <1>18, <1>19, <1>20, <1>21, <1>22, <1>23, <1>24, <1>25,
     <1>26, <1>27, <1>28, <1>29, <1>30, <1>31, <1>32, <1>33, <1>34, <1>35, <1>36, <1>37,
     <1>38
  DEF Next, Attempt, CommandStep, WriterStep, RootStep, Settlement

(* Commands are admitted to an idle session only, and nothing else is until they end. *)
LEMMA AloneStep ==
    ASSUME Types, Roots, Places, Alone, Next
    PROVE  Alone'
<1>1. ASSUME NEW t \in Tasks, AcquireLane(t) PROVE Alone'
  <2>1. Moves(t, "lane", {"install"})
    BY <1>1, AttemptsMoves
  <2>2. UNCHANGED <<plan, store>>
    BY <1>1 DEF AcquireLane
  <2> QED BY <2>1, <2>2, Types, Roots, Places, Alone, TasksApart DEF Moves, Types,
     Roots, Places, Alone, Fenced, Attempting
<1>2. ASSUME NEW t \in Tasks, CancelBeforeFence(t) PROVE Alone'
  <2>1. \E p \in {"lane", "install"} : Moves(t, p, {"ended"})
    BY <1>2, AttemptsMoves
  <2>2. UNCHANGED <<plan, store>>
    BY <1>2 DEF CancelBeforeFence
  <2> QED BY <2>1, <2>2, Types, Roots, Places, Alone, TasksApart DEF Moves, Types,
     Roots, Places, Alone, Fenced, Attempting
<1>3. ASSUME NEW t \in Tasks, Install(t) PROVE Alone'
  <2>1. Moves(t, "install", {"freeze", "ended"})
    BY <1>3, AttemptsMoves
  <2>2. UNCHANGED <<plan, store>>
    BY <1>3 DEF Install
  <2> QED BY <2>1, <2>2, Types, Roots, Places, Alone, TasksApart DEF Moves, Types,
     Roots, Places, Alone, Fenced, Attempting
<1>4. ASSUME NEW t \in Tasks, Freeze(t) PROVE Alone'
  <2>1. Moves(t, "freeze", {"plan", "remove"})
    BY <1>4, AttemptsMoves
  <2>2. UNCHANGED <<store>>
    BY <1>4 DEF Freeze
  <2>3. plan' = plan \/ plan' = [plan EXCEPT ![t] = [base |-> store.rev,
     head |-> store.head, turn |-> store.turn, replans |-> plan[t].replans]]
    BY <1>4 DEF Freeze
  <2>4. plan'[t] = plan[t] \/ (plan'[t].head = store.head /\ plan'[t].turn = store.turn)
    BY <2>3, Types DEF Types
  <2>5. \A u \in Tasks \ {t} : plan'[u] = plan[u]
    BY <2>3 DEF Types
  <2> QED BY <2>1, <2>2, <2>4, <2>5, Types, Roots, Places, Alone, TasksApart DEF Types,
     Alone, Moves
<1>5. ASSUME NEW t \in Tasks, Plan(t) PROVE Alone'
  <2>1. Moves(t, "plan", {"stream", "remove"})
    BY <1>5, AttemptsMoves
  <2>2. UNCHANGED <<plan, store>>
    BY <1>5 DEF Plan
  <2> QED BY <2>1, <2>2, Types, Roots, Places, Alone, TasksApart DEF Moves, Types,
     Roots, Places, Alone, Fenced, Attempting
<1>6. ASSUME NEW t \in Tasks, Stream(t) PROVE Alone'
  <2>1. \E p \in {"stream", "repair"} : Moves(t, p, {"repair", "fit", "remove"})
    BY <1>6, AttemptsMoves
  <2>2. UNCHANGED <<plan, store>>
    BY <1>6 DEF Stream
  <2> QED BY <2>1, <2>2, Types, Roots, Places, Alone, TasksApart DEF Moves, Types,
     Roots, Places, Alone, Fenced, Attempting
<1>7. ASSUME NEW t \in Tasks, Fit(t) PROVE Alone'
  <2>1. Moves(t, "fit", {"freeze", "join", "remove"})
    BY <1>7, AttemptsMoves
  <2>2. UNCHANGED <<store>>
    BY <1>7 DEF Fit
  <2>3. plan' = plan \/ plan' = [plan EXCEPT ![t].replans = @ + 1]
    BY <1>7 DEF Fit, Leave
  <2>4. ASSUME NEW u \in Tasks
        PROVE  plan'[u].head = plan[u].head /\ plan'[u].turn = plan[u].turn
    <3>1. plan'[u] = plan[u] \/ plan'[u] = [plan[u] EXCEPT !.replans = @ + 1]
      BY <2>3 DEF Types
    <3>2. plan[u] \in PlanRecords
      BY DEF Types
    <3> QED BY <3>1, <3>2 DEF PlanRecords
  <2> QED BY <2>1, <2>2, <2>4, Types, Roots, Places, Alone, TasksApart DEF Types, Alone,
     Moves
<1>8. ASSUME NEW t \in Tasks, CancelFenced(t) PROVE Alone'
  <2>1. \E p \in {"freeze", "plan", "stream", "repair", "fit"} : Moves(t, p, {"remove"})
    BY <1>8, AttemptsMoves
  <2>2. UNCHANGED <<plan, store>>
    BY <1>8 DEF CancelFenced
  <2> QED BY <2>1, <2>2, Types, Roots, Places, Alone, TasksApart DEF Moves, Types,
     Roots, Places, Alone, Fenced, Attempting
<1>9. ASSUME NEW t \in Tasks, Join(t) PROVE Alone'
  <2>1. Moves(t, "join", {"remove"})
    BY <1>9, AttemptsMoves
  <2>2. UNCHANGED <<plan, store>>
    BY <1>9 DEF Join
  <2> QED BY <2>1, <2>2, Types, Roots, Places, Alone, TasksApart DEF Moves, Types,
     Roots, Places, Alone, Fenced, Attempting
<1>10. ASSUME NEW t \in Tasks, Remove(t) PROVE Alone'
  <2>1. Moves(t, "remove", {"ended"})
    BY <1>10, AttemptsMoves
  <2>2. UNCHANGED <<plan, store>>
    BY <1>10 DEF Remove
  <2> QED BY <2>1, <2>2, Types, Roots, Places, Alone, TasksApart DEF Moves, Types,
     Roots, Places, Alone, Fenced, Attempting
<1>11. ASSUME NEW t \in Tasks, RemoveCancelled(t) PROVE Alone'
  <2>1. Moves(t, "remove", {"ended"})
    BY <1>11, AttemptsMoves
  <2>2. UNCHANGED <<plan, store>>
    BY <1>11 DEF RemoveCancelled
  <2> QED BY <2>1, <2>2, Types, Roots, Places, Alone, TasksApart DEF Moves, Types,
     Roots, Places, Alone, Fenced, Attempting
<1>12. ASSUME NEW c \in Commands, RequestCommand(c) PROVE Alone'
  <2>1. UNCHANGED pc \/ (Moves(c, "off", {"check"}) /\ Idle /\ host = "open")
    BY <1>12, RequestMoves
  <2>2. UNCHANGED <<plan, store>>
    BY <1>12 DEF RequestCommand
  <2> QED BY <2>1, <2>2, Types, Roots, Places, Alone, TasksApart DEF Moves, Types,
     Roots, Places, Alone, Fenced, Attempting, Idle, HasActiveWork
<1>13. ASSUME NEW c \in Commands, RequestLate(c) PROVE Alone'
  <2>1. UNCHANGED pc \/ (Moves(c, "off", {"check"}) /\ Idle /\ host = "open")
    BY <1>13, RequestMoves
  <2>2. UNCHANGED <<plan, store>>
    BY <1>13 DEF RequestLate
  <2> QED BY <2>1, <2>2, Types, Roots, Places, Alone, TasksApart DEF Moves, Types,
     Roots, Places, Alone, Fenced, Attempting, Idle, HasActiveWork
<1>14. ASSUME NEW c \in Commands, CommandCheck(c) PROVE Alone'
  <2>1. Moves(c, "check", {"off", "confirm"})
    BY <1>14, CommandMoves
  <2>2. UNCHANGED <<store>>
    BY <1>14 DEF CommandCheck
  <2>3. (plan' = plan /\ pc'[c] = "off") \/ plan' = [plan EXCEPT ![c] = [base |-> store.rev,
     head |-> store.head, turn |-> store.turn, replans |-> 0]]
    BY <1>14, TasksApart DEF CommandCheck, Return, Goto, Types
  <2>4. pc'[c] = "off" \/ (plan'[c].head = store.head /\ plan'[c].turn = store.turn)
    BY <2>3, Types, TasksApart DEF Types
  <2>5. \A u \in Tasks \ {c} : plan'[u] = plan[u]
    BY <2>3 DEF Types
  <2> QED BY <2>1, <2>2, <2>4, <2>5, Types, Roots, Places, Alone, TasksApart DEF Types,
     Alone, Moves
<1>15. ASSUME NEW c \in Commands, CommandConfirm(c) PROVE Alone'
  <2>1. Moves(c, "confirm", {"off", "request", "accept"})
    BY <1>15, CommandMoves
  <2>2. UNCHANGED <<plan, store>>
    BY <1>15 DEF CommandConfirm
  <2> QED BY <2>1, <2>2, Types, Roots, Places, Alone, TasksApart DEF Moves, Types,
     Roots, Places, Alone, Fenced, Attempting
<1>16. ASSUME NEW c \in Commands, CommandAccept(c) PROVE Alone'
  <2>1. Moves(c, "accept", {"off", "request", "confirm"})
    BY <1>16, CommandMoves
  <2>2. UNCHANGED <<plan>>
    BY <1>16 DEF CommandAccept
  <2>3. MayAccept(c)
    BY <1>16, AcceptEffects DEF Types
  <2> QED BY <2>1, <2>2, <2>3, Types, Roots, Places, Alone, TasksApart DEF Types, Roots,
     Places, Alone, Moves, KeepsTurn, MayAccept, Attempting, Fenced
<1>17. ASSUME NEW c \in Commands, CommandRequest(c) PROVE Alone'
  <2>1. Moves(c, "request", {"off", "settle", "claim"})
    BY <1>17, CommandMoves
  <2>2. UNCHANGED <<plan, store>>
    BY <1>17 DEF CommandRequest
  <2> QED BY <2>1, <2>2, Types, Roots, Places, Alone, TasksApart DEF Moves, Types,
     Roots, Places, Alone, Fenced, Attempting
<1>18. ASSUME NEW c \in Commands, CommandClaim(c) PROVE Alone'
  <2>1. Moves(c, "claim", {"off", "lane"})
    BY <1>18, CommandMoves
  <2>2. UNCHANGED <<plan, store>>
    BY <1>18 DEF CommandClaim
  <2> QED BY <2>1, <2>2, Types, Roots, Places, Alone, TasksApart DEF Moves, Types,
     Roots, Places, Alone, Fenced, Attempting
<1>19. ASSUME NEW c \in Commands, CommandEnded(c) PROVE Alone'
  <2>1. Moves(c, "ended", {"settle"})
    BY <1>19, CommandMoves
  <2>2. UNCHANGED <<plan, store>>
    BY <1>19 DEF CommandEnded
  <2> QED BY <2>1, <2>2, Types, Roots, Places, Alone, TasksApart DEF Moves, Types,
     Roots, Places, Alone, Fenced, Attempting
<1>20. ASSUME NEW c \in Commands, CommandSettle(c) PROVE Alone'
  <2>1. Moves(c, "settle", {"off"})
    BY <1>20, CommandMoves
  <2>2. UNCHANGED <<store>>
    BY <1>20 DEF CommandSettle
  <2>3. plan' = [plan EXCEPT ![c] = NoPlan]
    BY <1>20 DEF CommandSettle
  <2> QED BY <2>1, <2>2, <2>3, Types, Roots, Places, Alone, TasksApart DEF Types, Alone,
     Moves
<1>21. ASSUME NEW w \in Writers, WriterReserve(w) PROVE Alone'
  <2>1. Moves(w, "off", {"hold"})
    BY <1>21, WriterMoves
  <2>2. UNCHANGED <<plan, store>>
    BY <1>21 DEF WriterReserve
  <2> QED BY <2>1, <2>2, Types, Roots, Places, Alone, TasksApart DEF Moves, Types,
     Roots, Places, Alone, Fenced, Attempting
<1>22. ASSUME NEW w \in Writers, WriterCompact(w) PROVE Alone'
  <2>1. Moves(w, "hold", {"lane"})
    BY <1>22, WriterMoves
  <2>2. UNCHANGED <<plan, store>>
    BY <1>22 DEF WriterCompact
  <2> QED BY <2>1, <2>2, Types, Roots, Places, Alone, TasksApart DEF Moves, Types,
     Roots, Places, Alone, Fenced, Attempting
<1>23. ASSUME NEW w \in Writers, WriterWrite(w) PROVE Alone'
  <2>1. Moves(w, "hold", {"release"})
    BY <1>23, WriterMoves
  <2>2. UNCHANGED <<plan>>
    BY <1>23 DEF WriterWrite
  <2>3. MayAppend /\ (store'.head # store.head => store.running)
    BY <1>23, AppendEffects DEF Types
  <2> QED BY <2>1, <2>2, <2>3, Types, Roots, Places, Alone, TasksApart DEF Types, Roots,
     Places, Alone, Moves, KeepsTurn, MayAppend, Attempting, Fenced
<1>24. ASSUME NEW w \in Writers, WriterRelease(w) PROVE Alone'
  <2>1. Moves(w, "release", {"off"})
    BY <1>24, WriterMoves
  <2>2. UNCHANGED <<plan, store>>
    BY <1>24 DEF WriterRelease
  <2> QED BY <2>1, <2>2, Types, Roots, Places, Alone, TasksApart DEF Moves, Types,
     Roots, Places, Alone, Fenced, Attempting
<1>25. ASSUME NEW w \in Writers, WriterEnded(w) PROVE Alone'
  <2>1. Moves(w, "ended", {"release"})
    BY <1>25, WriterMoves
  <2>2. MayAppend /\ (store'.head # store.head => store.running)
    BY <1>25, AppendEffects DEF Types
  <2>3. \A u \in Tasks \ {w} : plan'[u] = plan[u]
    BY <1>25 DEF WriterEnded, Types
  <2> QED BY <2>1, <2>2, <2>3, Types, Roots, Places, Alone, TasksApart DEF Types, Roots,
     Alone, Moves, MayAppend, KeepsTurn
<1>26. CASE SubmitPrompt
  <2>2. UNCHANGED <<plan, pc>>
    BY <1>26 DEF SubmitPrompt
  <2> QED BY <2>2, <1>26, SubmitFields, Alone DEF Types, Alone
<1>27. CASE Deliver
  <2>1. Moves(Root, "off", {"admit"})
    BY <1>27, RootMoves
  <2>2. UNCHANGED <<plan, store>>
    BY <1>27 DEF Deliver
  <2>3. ~HasActiveWork
    BY <1>27 DEF Deliver
  <2> QED BY <2>1, <2>2, <2>3, Types, Roots, Places, Alone, TasksApart DEF Types, Alone,
     Moves, HasActiveWork
<1>28. CASE RootAppend
  <2>2. UNCHANGED <<plan, pc>>
    BY <1>28 DEF RootAppend
  <2>3. MayAppend /\ pc[Root] # "off"
    BY <1>28, AppendEffects DEF Types, RootAppend
  <2> QED BY <2>2, <2>3, Alone DEF Alone, MayAppend
<1>29. CASE RootDispatch
  <2>1. Moves(Root, "run", {"model"})
    BY <1>29, RootMoves
  <2>2. UNCHANGED <<plan, store>>
    BY <1>29 DEF RootDispatch
  <2> QED BY <2>1, <2>2, Types, Roots, Places, Alone, TasksApart DEF Moves, Types,
     Roots, Places, Alone, Fenced, Attempting
<1>30. CASE RootCompact
  <2>1. Moves(Root, "run", {"lane"})
    BY <1>30, RootMoves
  <2>2. UNCHANGED <<plan, store>>
    BY <1>30 DEF RootCompact
  <2> QED BY <2>1, <2>2, Types, Roots, Places, Alone, TasksApart DEF Moves, Types,
     Roots, Places, Alone, Fenced, Attempting
<1>31. CASE StartTurn
  <2>1. Moves(Root, "admit", {"run"})
    BY <1>31, RootMoves
  <2>2. UNCHANGED <<plan>>
    BY <1>31 DEF StartTurn
  <2> QED BY <2>1, <2>2, Types, Roots, Places, Alone, TasksApart DEF Types, Alone, Moves
<1>32. CASE EndRoot
  <2>1. \E p \in {"run", "admit"} : Moves(Root, p, {"off"})
    BY <1>32, RootMoves
  <2>2. UNCHANGED <<plan>>
    BY <1>32 DEF EndRoot
  <2>3. MayHalt
    BY <1>32, HaltEffects DEF Types
  <2> QED BY <2>1, <2>2, <2>3, Types, Roots, Places, Alone, TasksApart DEF Types, Roots,
     Places, Alone, Moves, KeepsTurn, MayHalt, Attempting, Fenced
<1>33. CASE RootAnswer
  <2>1. Moves(Root, "model", {"run"})
    BY <1>33, RootMoves
  <2>2. UNCHANGED <<plan>>
    BY <1>33 DEF RootAnswer
  <2>3. MayAppend
    BY <1>33, AppendEffects DEF Types
  <2> QED BY <2>1, <2>2, <2>3, Types, Roots, Places, Alone, TasksApart DEF Types, Roots,
     Places, Alone, Moves, KeepsTurn, MayAppend, Attempting, Fenced
<1>34. CASE RootEnded
  <2>1. Moves(Root, "ended", {"model", "run", "off"})
    BY <1>34, RootMoves
  <2>2. \A c \in Commands : pc[c] = "off" /\ pc'[c] = "off"
    BY <2>1, Alone, TasksApart DEF Alone, Moves, Types
  <2> QED BY <2>2 DEF Alone
<1>35. CASE SettleAdopt
  <2>2. UNCHANGED <<plan, pc>>
    BY <1>35 DEF SettleAdopt
  <2>3. MayAdopt
    BY <1>35, AdoptEffects DEF Types
  <2> QED BY <2>2, <2>3, Types, Roots, Places, Alone, TasksApart DEF Types, Roots,
     Places, Alone, Moves, KeepsTurn, MayAdopt, Attempting, Fenced
<1>36. CASE Takeover
  <2>2. UNCHANGED <<plan, pc>>
    BY <1>36 DEF Takeover
  <2> QED BY <1>36, <2>2, TakeoverFields, Alone DEF Types, Alone
<1>37. CASE Crash
  BY <1>37, Types, Roots, Places, Alone, TasksApart DEF Crash, NoPlan, Types, Roots,
     Places, Alone, Fenced, Attempting
<1>38. CASE \/ \E c \in Commands : QuerySlowly(c) \/ StopCommand(c)
            \/ StopTurn \/ SettleConfirm \/ SettleReconfirm \/ ReconfirmRaises \/ SettleHooks
            \/ SettleStatus \/ SettleRotate \/ BeginClose \/ OwnerClose \/ CloseDone
  <2>1. UNCHANGED <<plan, store, pc>>
    BY <1>38 DEF QuerySlowly, StopCommand, StopTurn, SettleConfirm, SettleReconfirm, ReconfirmRaises,
       SettleHooks, SettleStatus, SettleRotate, BeginClose, OwnerClose, CloseDone
  <2> QED BY <2>1, Types, Roots, Places, Alone, TasksApart DEF Types, Roots, Places,
     Alone, Fenced, Attempting
<1> QED
  BY <1>1, <1>2, <1>3, <1>4, <1>5, <1>6, <1>7, <1>8, <1>9, <1>10, <1>11, <1>12, <1>13,
     <1>14, <1>15, <1>16, <1>17, <1>18, <1>19, <1>20, <1>21, <1>22, <1>23, <1>24, <1>25,
     <1>26, <1>27, <1>28, <1>29, <1>30, <1>31, <1>32, <1>33, <1>34, <1>35, <1>36, <1>37,
     <1>38
  DEF Next, Attempt, CommandStep, WriterStep, RootStep, Settlement

(* A closing owner is given no new work. *)
LEMMA ClosingStep ==
    ASSUME Types, Places, Closing, Next
    PROVE  Closing'
<1>1. ASSUME NEW t \in Tasks, AcquireLane(t) PROVE Closing'
  <2>1. Moves(t, "lane", {"install"})
    BY <1>1, AttemptsMoves
  <2>2. UNCHANGED <<host, waiter>>
    BY <1>1 DEF AcquireLane, owner, manual
  <2> QED BY <2>1, <2>2, Types, Places, Closing, TasksApart DEF Moves, Types, Places,
     Closing, OwnerClosing, Fenced, Attempting
<1>2. ASSUME NEW t \in Tasks, CancelBeforeFence(t) PROVE Closing'
  <2>1. \E p \in {"lane", "install"} : Moves(t, p, {"ended"})
    BY <1>2, AttemptsMoves
  <2>2. UNCHANGED <<host, waiter>>
    BY <1>2 DEF CancelBeforeFence, owner, manual
  <2> QED BY <2>1, <2>2, Types, Places, Closing, TasksApart DEF Moves, Types, Places,
     Closing, OwnerClosing, Fenced, Attempting
<1>3. ASSUME NEW t \in Tasks, Install(t) PROVE Closing'
  <2>1. Moves(t, "install", {"freeze", "ended"})
    BY <1>3, AttemptsMoves
  <2>2. UNCHANGED <<host, waiter>>
    BY <1>3 DEF Install, owner, manual
  <2> QED BY <2>1, <2>2, Types, Places, Closing, TasksApart DEF Moves, Types, Places,
     Closing, OwnerClosing, Fenced, Attempting
<1>4. ASSUME NEW t \in Tasks, Freeze(t) PROVE Closing'
  <2>1. Moves(t, "freeze", {"plan", "remove"})
    BY <1>4, AttemptsMoves
  <2>2. UNCHANGED <<host, waiter>>
    BY <1>4 DEF Freeze, owner, manual
  <2> QED BY <2>1, <2>2, Types, Places, Closing, TasksApart DEF Moves, Types, Places,
     Closing, OwnerClosing, Fenced, Attempting
<1>5. ASSUME NEW t \in Tasks, Plan(t) PROVE Closing'
  <2>1. Moves(t, "plan", {"stream", "remove"})
    BY <1>5, AttemptsMoves
  <2>2. UNCHANGED <<host, waiter>>
    BY <1>5 DEF Plan, owner, manual
  <2> QED BY <2>1, <2>2, Types, Places, Closing, TasksApart DEF Moves, Types, Places,
     Closing, OwnerClosing, Fenced, Attempting
<1>6. ASSUME NEW t \in Tasks, Stream(t) PROVE Closing'
  <2>1. \E p \in {"stream", "repair"} : Moves(t, p, {"repair", "fit", "remove"})
    BY <1>6, AttemptsMoves
  <2>2. UNCHANGED <<host, waiter>>
    BY <1>6 DEF Stream, owner, manual
  <2> QED BY <2>1, <2>2, Types, Places, Closing, TasksApart DEF Moves, Types, Places,
     Closing, OwnerClosing, Fenced, Attempting
<1>7. ASSUME NEW t \in Tasks, Fit(t) PROVE Closing'
  <2>1. Moves(t, "fit", {"freeze", "join", "remove"})
    BY <1>7, AttemptsMoves
  <2>2. UNCHANGED <<host, waiter>>
    BY <1>7 DEF Fit, owner, manual
  <2> QED BY <2>1, <2>2, Types, Places, Closing, TasksApart DEF Moves, Types, Places,
     Closing, OwnerClosing, Fenced, Attempting
<1>8. ASSUME NEW t \in Tasks, CancelFenced(t) PROVE Closing'
  <2>1. \E p \in {"freeze", "plan", "stream", "repair", "fit"} : Moves(t, p, {"remove"})
    BY <1>8, AttemptsMoves
  <2>2. UNCHANGED <<host, waiter>>
    BY <1>8 DEF CancelFenced, owner, manual
  <2> QED BY <2>1, <2>2, Types, Places, Closing, TasksApart DEF Moves, Types, Places,
     Closing, OwnerClosing, Fenced, Attempting
<1>9. ASSUME NEW t \in Tasks, Join(t) PROVE Closing'
  <2>1. Moves(t, "join", {"remove"})
    BY <1>9, AttemptsMoves
  <2>2. UNCHANGED <<host, waiter>>
    BY <1>9 DEF Join, owner, manual
  <2> QED BY <2>1, <2>2, Types, Places, Closing, TasksApart DEF Moves, Types, Places,
     Closing, OwnerClosing, Fenced, Attempting
<1>10. ASSUME NEW t \in Tasks, Remove(t) PROVE Closing'
  <2>1. Moves(t, "remove", {"ended"})
    BY <1>10, AttemptsMoves
  <2>2. UNCHANGED <<host, waiter>>
    BY <1>10 DEF Remove, owner, manual
  <2> QED BY <2>1, <2>2, Types, Places, Closing, TasksApart DEF Moves, Types, Places,
     Closing, OwnerClosing, Fenced, Attempting
<1>11. ASSUME NEW t \in Tasks, RemoveCancelled(t) PROVE Closing'
  <2>1. Moves(t, "remove", {"ended"})
    BY <1>11, AttemptsMoves
  <2>2. UNCHANGED <<host, waiter>>
    BY <1>11 DEF RemoveCancelled, owner, manual
  <2> QED BY <2>1, <2>2, Types, Places, Closing, TasksApart DEF Moves, Types, Places,
     Closing, OwnerClosing, Fenced, Attempting
<1>12. ASSUME NEW c \in Commands, RequestCommand(c) PROVE Closing'
  <2>1. UNCHANGED pc \/ (Moves(c, "off", {"check"}) /\ Idle /\ host = "open")
    BY <1>12, RequestMoves
  <2>2. UNCHANGED <<host, waiter>>
    BY <1>12 DEF RequestCommand, owner, manual
  <2> QED BY <2>1, <2>2, Types, Places, Closing, TasksApart DEF Moves, Types, Places,
     Closing, OwnerClosing, Fenced, Attempting, Idle, HasActiveWork
<1>13. ASSUME NEW c \in Commands, RequestLate(c) PROVE Closing'
  <2>1. UNCHANGED pc \/ (Moves(c, "off", {"check"}) /\ Idle /\ host = "open")
    BY <1>13, RequestMoves
  <2>2. UNCHANGED <<host, waiter>>
    BY <1>13 DEF RequestLate, owner, manual
  <2> QED BY <2>1, <2>2, Types, Places, Closing, TasksApart DEF Moves, Types, Places,
     Closing, OwnerClosing, Fenced, Attempting, Idle, HasActiveWork
<1>14. ASSUME NEW c \in Commands, CommandCheck(c) PROVE Closing'
  <2>1. Moves(c, "check", {"off", "confirm"})
    BY <1>14, CommandMoves
  <2>2. UNCHANGED <<host, waiter>>
    BY <1>14 DEF CommandCheck, owner, manual
  <2> QED BY <2>1, <2>2, Types, Places, Closing, TasksApart DEF Moves, Types, Places,
     Closing, OwnerClosing, Fenced, Attempting
<1>15. ASSUME NEW c \in Commands, CommandConfirm(c) PROVE Closing'
  <2>1. Moves(c, "confirm", {"off", "request", "accept"})
    BY <1>15, CommandMoves
  <2>2. UNCHANGED <<host, waiter>>
    BY <1>15 DEF CommandConfirm, owner, manual
  <2> QED BY <2>1, <2>2, Types, Places, Closing, TasksApart DEF Moves, Types, Places,
     Closing, OwnerClosing, Fenced, Attempting
<1>16. ASSUME NEW c \in Commands, CommandAccept(c) PROVE Closing'
  <2>1. Moves(c, "accept", {"off", "request", "confirm"})
    BY <1>16, CommandMoves
  <2>2. UNCHANGED <<host, waiter>>
    BY <1>16 DEF CommandAccept, owner, manual
  <2> QED BY <2>1, <2>2, Types, Places, Closing, TasksApart DEF Moves, Types, Places,
     Closing, OwnerClosing, Fenced, Attempting
<1>17. ASSUME NEW c \in Commands, CommandRequest(c) PROVE Closing'
  <2>1. Moves(c, "request", {"off", "settle", "claim"})
    BY <1>17, CommandMoves
  <2>2. UNCHANGED <<host>>
    BY <1>17 DEF CommandRequest, owner
  <2> QED BY <1>17, <2>1, <2>2, Types, Places, Closing, TasksApart DEF CommandRequest,
     Goto, Return, OwnerClosing, Moves, Types, Places, Closing, Fenced, Attempting
<1>18. ASSUME NEW c \in Commands, CommandClaim(c) PROVE Closing'
  <2>1. Moves(c, "claim", {"off", "lane"})
    BY <1>18, CommandMoves
  <2>2. UNCHANGED <<host>>
    BY <1>18 DEF CommandClaim, owner
  <2> QED BY <1>18, <2>1, <2>2, Types, Places, Closing, TasksApart DEF CommandClaim,
     Goto, Return, Moves, Types, Places, Closing, OwnerClosing, Fenced, Attempting
<1>19. ASSUME NEW c \in Commands, CommandEnded(c) PROVE Closing'
  <2>1. Moves(c, "ended", {"settle"})
    BY <1>19, CommandMoves
  <2>2. UNCHANGED <<host, waiter>>
    BY <1>19 DEF CommandEnded, owner, manual
  <2> QED BY <2>1, <2>2, Types, Places, Closing, TasksApart DEF Moves, Types, Places,
     Closing, OwnerClosing, Fenced, Attempting
<1>20. ASSUME NEW c \in Commands, CommandSettle(c) PROVE Closing'
  <2>1. Moves(c, "settle", {"off"})
    BY <1>20, CommandMoves
  <2>2. UNCHANGED <<host>>
    BY <1>20 DEF CommandSettle, owner
  <2> QED BY <1>20, <2>1, <2>2, Types, Places, Closing, TasksApart DEF CommandSettle,
     Goto, Return, Moves, Types, Places, Closing, OwnerClosing, Fenced, Attempting
<1>21. ASSUME NEW w \in Writers, WriterReserve(w) PROVE Closing'
  <2>1. Moves(w, "off", {"hold"})
    BY <1>21, WriterMoves
  <2>2. UNCHANGED <<host, waiter>>
    BY <1>21 DEF WriterReserve, owner, manual
  <2>3. host = "open"
    BY <1>21 DEF WriterReserve
  <2> QED BY <2>1, <2>2, <2>3, Closing DEF Closing, OwnerClosing
<1>22. ASSUME NEW w \in Writers, WriterCompact(w) PROVE Closing'
  <2>1. Moves(w, "hold", {"lane"})
    BY <1>22, WriterMoves
  <2>2. UNCHANGED <<host, waiter>>
    BY <1>22 DEF WriterCompact, owner, manual
  <2> QED BY <2>1, <2>2, Types, Places, Closing, TasksApart DEF Moves, Types, Places,
     Closing, OwnerClosing, Fenced, Attempting
<1>23. ASSUME NEW w \in Writers, WriterWrite(w) PROVE Closing'
  <2>1. Moves(w, "hold", {"release"})
    BY <1>23, WriterMoves
  <2>2. UNCHANGED <<host, waiter>>
    BY <1>23 DEF WriterWrite, owner, manual
  <2> QED BY <2>1, <2>2, Types, Places, Closing, TasksApart DEF Moves, Types, Places,
     Closing, OwnerClosing, Fenced, Attempting
<1>24. ASSUME NEW w \in Writers, WriterRelease(w) PROVE Closing'
  <2>1. Moves(w, "release", {"off"})
    BY <1>24, WriterMoves
  <2>2. UNCHANGED <<host, waiter>>
    BY <1>24 DEF WriterRelease, owner, manual
  <2> QED BY <2>1, <2>2, Types, Places, Closing, TasksApart DEF Moves, Types, Places,
     Closing, OwnerClosing, Fenced, Attempting
<1>25. ASSUME NEW w \in Writers, WriterEnded(w) PROVE Closing'
  <2>1. Moves(w, "ended", {"release"})
    BY <1>25, WriterMoves
  <2>2. UNCHANGED <<host, waiter>>
    BY <1>25 DEF WriterEnded, owner, manual
  <2> QED BY <2>1, <2>2, Types, Places, Closing, TasksApart DEF Moves, Types, Places,
     Closing, OwnerClosing, Fenced, Attempting
<1>26. CASE Deliver
  <2>1. Moves(Root, "off", {"admit"})
    BY <1>26, RootMoves
  <2>2. UNCHANGED <<host, waiter>>
    BY <1>26 DEF Deliver, owner, manual
  <2>3. host = "open"
    BY <1>26 DEF Deliver
  <2> QED BY <2>1, <2>2, <2>3, Closing DEF Closing, OwnerClosing
<1>27. CASE RootDispatch
  <2>1. Moves(Root, "run", {"model"})
    BY <1>27, RootMoves
  <2>2. UNCHANGED <<host, waiter>>
    BY <1>27 DEF RootDispatch, owner, manual
  <2> QED BY <2>1, <2>2, Types, Places, Closing, TasksApart DEF Moves, Types, Places,
     Closing, OwnerClosing, Fenced, Attempting
<1>28. CASE RootCompact
  <2>1. Moves(Root, "run", {"lane"})
    BY <1>28, RootMoves
  <2>2. UNCHANGED <<host, waiter>>
    BY <1>28 DEF RootCompact, owner, manual
  <2> QED BY <2>1, <2>2, Types, Places, Closing, TasksApart DEF Moves, Types, Places,
     Closing, OwnerClosing, Fenced, Attempting
<1>29. CASE StartTurn
  <2>1. Moves(Root, "admit", {"run"})
    BY <1>29, RootMoves
  <2>2. UNCHANGED <<host, waiter>>
    BY <1>29 DEF StartTurn, owner, manual
  <2> QED BY <2>1, <2>2, Types, Places, Closing, TasksApart DEF Moves, Types, Places,
     Closing, OwnerClosing, Fenced, Attempting
<1>30. CASE EndRoot
  <2>1. \E p \in {"run", "admit"} : Moves(Root, p, {"off"})
    BY <1>30, RootMoves
  <2>2. UNCHANGED <<host, waiter>>
    BY <1>30 DEF EndRoot, owner, manual
  <2> QED BY <2>1, <2>2, Types, Places, Closing, TasksApart DEF Moves, Types, Places,
     Closing, OwnerClosing, Fenced, Attempting
<1>31. CASE RootAnswer
  <2>1. Moves(Root, "model", {"run"})
    BY <1>31, RootMoves
  <2>2. UNCHANGED <<host, waiter>>
    BY <1>31 DEF RootAnswer, owner, manual
  <2> QED BY <2>1, <2>2, Types, Places, Closing, TasksApart DEF Moves, Types, Places,
     Closing, OwnerClosing, Fenced, Attempting
<1>32. CASE RootEnded
  <2>1. Moves(Root, "ended", {"model", "run", "off"})
    BY <1>32, RootMoves
  <2>2. UNCHANGED <<host, waiter>>
    BY <1>32 DEF RootEnded, owner, manual
  <2> QED BY <2>1, <2>2, Types, Places, Closing, TasksApart DEF Moves, Types, Places,
     Closing, OwnerClosing, Fenced, Attempting
<1>33. CASE BeginClose
  <2>2. UNCHANGED <<waiter, pc>>
    BY <1>33 DEF BeginClose, manual
  <2> QED BY <1>33, <2>2, Types, Places, Closing, TasksApart DEF BeginClose, Types,
     Places, Closing, OwnerClosing, Fenced, Attempting
<1>34. CASE OwnerClose
  <2>2. UNCHANGED <<pc>>
    BY <1>34 DEF OwnerClose
  <2> QED BY <1>34, <2>2, Types, Places, Closing, TasksApart DEF OwnerClose, Types,
     Places, Closing, OwnerClosing, Fenced, Attempting
<1>35. CASE CloseDone
  <2>2. UNCHANGED <<waiter, pc>>
    BY <1>35 DEF CloseDone, manual
  <2> QED BY <1>35, <2>2, Types, Places, Closing, TasksApart DEF CloseDone, Types,
     Places, Closing, OwnerClosing, Fenced, Attempting
<1>36. CASE Crash
  BY <1>36, Types, Places, Closing, TasksApart DEF Crash, NoPlan, Types, Places,
     Closing, OwnerClosing, Fenced, Attempting
<1>37. CASE \/ \E c \in Commands : QuerySlowly(c) \/ StopCommand(c)
            \/ SubmitPrompt \/ RootAppend \/ StopTurn \/ SettleConfirm
            \/ SettleReconfirm \/ ReconfirmRaises \/ SettleAdopt \/ SettleHooks \/ SettleStatus
            \/ SettleRotate \/ Takeover
  <2>1. UNCHANGED <<host, waiter, pc>>
    BY <1>37 DEF QuerySlowly, StopCommand, SubmitPrompt, RootAppend, StopTurn,
       SettleConfirm, SettleReconfirm, ReconfirmRaises, SettleAdopt, SettleHooks, SettleStatus,
       SettleRotate, Takeover, owner, manual
  <2> QED BY <2>1, Types, Places, Closing, TasksApart DEF Types, Places, Closing,
     OwnerClosing, Fenced, Attempting
<1> QED
  BY <1>1, <1>2, <1>3, <1>4, <1>5, <1>6, <1>7, <1>8, <1>9, <1>10, <1>11, <1>12, <1>13,
     <1>14, <1>15, <1>16, <1>17, <1>18, <1>19, <1>20, <1>21, <1>22, <1>23, <1>24, <1>25,
     <1>26, <1>27, <1>28, <1>29, <1>30, <1>31, <1>32, <1>33, <1>34, <1>35, <1>36, <1>37
  DEF Next, Attempt, CommandStep, WriterStep, RootStep, Settlement

(* The handle, the frozen base and the settlement follow every step. *)
LEMMA HandlesStep ==
    ASSUME Types, Lanes, Places, Roots, Alone, Handles, Successors, Next
    PROVE  Handles'
<1>1. ASSUME NEW t \in Tasks, AcquireLane(t) PROVE Handles'
  <2>1. Moves(t, "lane", {"install"})
    BY <1>1, AttemptsMoves
  <2>2. UNCHANGED <<handle, cont, plan, store, settle, stale>>
    BY <1>1 DEF AcquireLane, owner
  <2> QED BY <2>1, <2>2, Types, Lanes, Places, Handles, TasksApart,
     HoldersApart DEF Moves, Types, Places, Handles, Held, Fenced, Attempting
<1>2. ASSUME NEW t \in Tasks, CancelBeforeFence(t) PROVE Handles'
  <2>1. \E p \in {"lane", "install"} : Moves(t, p, {"ended"})
    BY <1>2, AttemptsMoves
  <2>2. UNCHANGED <<handle, cont, plan, store, settle, stale>>
    BY <1>2 DEF CancelBeforeFence, owner
  <2> QED BY <2>1, <2>2, Types, Lanes, Places, Handles, TasksApart,
     HoldersApart DEF Moves, Types, Places, Handles, Held, Fenced, Attempting
<1>3. ASSUME NEW t \in Tasks, Install(t) PROVE Handles'
  <2>1. Moves(t, "install", {"freeze", "ended"})
    BY <1>3, AttemptsMoves
  <2>2. UNCHANGED <<handle, cont, plan, store, settle, stale>>
    BY <1>3 DEF Install, owner
  <2> QED BY <2>1, <2>2, Types, Lanes, Places, Handles, TasksApart,
     HoldersApart DEF Moves, Types, Places, Handles, Held, Fenced, Attempting
<1>4. ASSUME NEW t \in Tasks, Freeze(t) PROVE Handles'
  <2>1. Moves(t, "freeze", {"plan", "remove"})
    BY <1>4, AttemptsMoves
  <2>2. UNCHANGED <<cont, store, settle, stale>>
    BY <1>4 DEF Freeze, owner
  <2>3. \A u \in Tasks \ {t} : pc[u] \notin Fenced \cup {"install"}
    BY <2>1, OneFenced DEF Moves, Fenced
  <2>4. handle # t
    BY <2>1, TasksApart DEF Handles, Moves, Held
  <2>5. \/ /\ pc'[t] = "plan" /\ handle = None /\ handle' = t /\ ~stale
           /\ cont.kind \in {"EMPTY", "INSTALLED"}
           /\ plan' = [plan EXCEPT ![t] = [base |-> store.rev, head |-> store.head,
                                           turn |-> store.turn,
                                              replans |-> plan[t].replans]]
        \/ pc'[t] = "remove" /\ handle' = handle /\ plan' = plan
    BY <1>4, <2>4 DEF Freeze, Leave, Goto, Types
  <2>6. pc'[t] = "plan" => plan'[t].base = store.rev
    BY <2>5 DEF Types
  <2>7. settle = None
    BY <2>1, <2>3, SettlementAlone DEF Moves, Fenced
  <2>8. pc'[t] = "plan" => pc[Root] # "model" /\ pc'[Root] # "model"
    BY <2>1, <2>5, TasksApart DEF Handles, Moves, Types
  <2> QED BY <2>1, <2>2, <2>3, <2>5, <2>6, <2>7, <2>8, Types, Lanes, Places, Handles,
     TasksApart, HoldersApart DEF Types, Places, Handles, Moves, Held, Fenced,
     Attempting
<1>5. ASSUME NEW t \in Tasks, Plan(t) PROVE Handles'
  <2>1. Moves(t, "plan", {"stream", "remove"})
    BY <1>5, AttemptsMoves
  <2>2. UNCHANGED <<cont, plan, store, settle, stale>>
    BY <1>5 DEF Plan, owner
  <2>3. pc[t] \in Held
    BY <2>1 DEF Moves, Held
  <2>4. /\ handle = t /\ settle = None
        /\ \A u \in Tasks \ {t} : pc[u] \notin Fenced \cup {"install"}
        /\ pc[Root] # "model"
    BY <2>3, HeldAlone
  <2>5. (pc'[t] = "remove" /\ handle' = None) \/ (pc'[t] \in Held /\ handle' = handle)
    BY <1>5, <2>3, <2>4 DEF Plan, Leave, Goto, Types, Held
  <2> QED BY <2>1, <2>2, <2>3, <2>4, <2>5, Types, Lanes, Places, Handles, TasksApart,
     HoldersApart DEF Types, Places, Handles, Moves, Held, Fenced, Attempting
<1>6. ASSUME NEW t \in Tasks, Stream(t) PROVE Handles'
  <2>1. \E p \in {"stream", "repair"} : Moves(t, p, {"repair", "fit", "remove"})
    BY <1>6, AttemptsMoves
  <2>2. UNCHANGED <<cont, plan, store, settle, stale>>
    BY <1>6 DEF Stream, owner
  <2>3. pc[t] \in Held
    BY <2>1 DEF Moves, Held
  <2>4. /\ handle = t /\ settle = None
        /\ \A u \in Tasks \ {t} : pc[u] \notin Fenced \cup {"install"}
        /\ pc[Root] # "model"
    BY <2>3, HeldAlone
  <2>5. (pc'[t] = "remove" /\ handle' = None) \/ (pc'[t] \in Held /\ handle' = handle)
    BY <1>6, <2>3, <2>4 DEF Stream, Leave, Goto, Types, Held
  <2> QED BY <2>1, <2>2, <2>3, <2>4, <2>5, Types, Lanes, Places, Handles, TasksApart,
     HoldersApart DEF Types, Places, Handles, Moves, Held, Fenced, Attempting
<1>7. ASSUME NEW t \in Tasks, Fit(t) PROVE Handles'
  <2>1. Moves(t, "fit", {"freeze", "join", "remove"})
    BY <1>7, AttemptsMoves
  <2>2. UNCHANGED <<store, stale>>
    BY <1>7 DEF Fit, owner
  <2>3. pc[t] \in Held
    BY <2>1 DEF Moves, Held
  <2>4. /\ handle = t /\ settle = None
        /\ \A u \in Tasks \ {t} : pc[u] \notin Fenced \cup {"install"}
        /\ pc[Root] # "model"
    BY <2>3, HeldAlone
  <2>5. \/ pc'[t] \in {"freeze", "remove"} /\ handle' = None /\ settle' = settle
        \/ pc'[t] = "join" /\ handle' = "settlement" /\ settle' = Settling(t)
    BY <1>7, <2>4 DEF Fit, Leave, Goto, Types, Settling
  <2>6. Settling(t) # None /\ Settling(t).owner = t /\ Settling(t).pc = "confirm"
    BY SettlingFields DEF Types
  <2> QED BY <2>1, <2>2, <2>3, <2>4, <2>5, <2>6, Types, Lanes, Places, Handles,
     TasksApart, HoldersApart DEF Types, Places, Handles, Moves, Held, Fenced,
     Attempting
<1>8. ASSUME NEW t \in Tasks, CancelFenced(t) PROVE Handles'
  <2>1. \E p \in {"freeze", "plan", "stream", "repair", "fit"} : Moves(t, p, {"remove"})
    BY <1>8, AttemptsMoves
  <2>2. UNCHANGED <<cont, plan, store, settle, stale>>
    BY <1>8 DEF CancelFenced, owner
  <2>3. handle' = IF handle = t THEN None ELSE handle
    BY <1>8 DEF CancelFenced, Leave
  <2>4. \A u \in Tasks \ {t} : pc[u] \notin Fenced \cup {"install"}
    BY <2>1, OneFenced DEF Moves, Fenced
  <2> QED BY <2>1, <2>2, <2>3, <2>4, Types, Lanes, Places, Handles, TasksApart,
     HoldersApart DEF Types, Places, Handles, Moves, Held, Fenced, Attempting
<1>9. ASSUME NEW t \in Tasks, Join(t) PROVE Handles'
  <2>1. Moves(t, "join", {"remove"})
    BY <1>9, AttemptsMoves
  <2>2. settle # None /\ settle.pc = "done" /\ settle' = None /\ UNCHANGED <<plan,
     store, stale>>
    BY <1>9, <2>1 DEF Join, Handles, Moves, owner
  <2>3. /\ settle.owner \in Tasks /\ pc[settle.owner] = "join"
        /\ \A u \in Tasks : pc[u] \notin Held
        /\ handle \notin Tasks /\ pc[Root] # "model"
    BY <2>2, SettlementAlone
  <2>4. handle' \in {handle, None} /\ handle # "settlement"
    BY <1>9, <2>2 DEF Join, Handles
  <2>5. settle.owner = t
    BY <2>1 DEF Handles, Moves
  <2> QED BY <2>1, <2>2, <2>3, <2>4, <2>5, Types, Lanes, Places, Handles, TasksApart,
     HoldersApart DEF Types, Places, Handles, Moves, Held, Fenced, Attempting
<1>10. ASSUME NEW t \in Tasks, Remove(t) PROVE Handles'
  <2>1. Moves(t, "remove", {"ended"})
    BY <1>10, AttemptsMoves
  <2>2. UNCHANGED <<handle, cont, plan, store, settle, stale>>
    BY <1>10 DEF Remove, owner
  <2> QED BY <2>1, <2>2, Types, Lanes, Places, Handles, TasksApart,
     HoldersApart DEF Moves, Types, Places, Handles, Held, Fenced, Attempting
<1>11. ASSUME NEW t \in Tasks, RemoveCancelled(t) PROVE Handles'
  <2>1. Moves(t, "remove", {"ended"})
    BY <1>11, AttemptsMoves
  <2>2. UNCHANGED <<handle, cont, plan, store, settle, stale>>
    BY <1>11 DEF RemoveCancelled, owner
  <2> QED BY <2>1, <2>2, Types, Lanes, Places, Handles, TasksApart,
     HoldersApart DEF Moves, Types, Places, Handles, Held, Fenced, Attempting
<1>12. ASSUME NEW c \in Commands, RequestCommand(c) PROVE Handles'
  <2>1. UNCHANGED pc \/ (Moves(c, "off", {"check"}) /\ Idle /\ host = "open")
    BY <1>12, RequestMoves
  <2>2. UNCHANGED <<handle, cont, plan, store, settle, stale>>
    BY <1>12 DEF RequestCommand, owner
  <2> QED BY <2>1, <2>2, Types, Lanes, Places, Handles, TasksApart,
     HoldersApart DEF Moves, Types, Places, Handles, Held, Fenced, Attempting, Idle,
     HasActiveWork
<1>13. ASSUME NEW c \in Commands, RequestLate(c) PROVE Handles'
  <2>1. UNCHANGED pc \/ (Moves(c, "off", {"check"}) /\ Idle /\ host = "open")
    BY <1>13, RequestMoves
  <2>2. UNCHANGED <<handle, cont, plan, store, settle, stale>>
    BY <1>13 DEF RequestLate, owner
  <2> QED BY <2>1, <2>2, Types, Lanes, Places, Handles, TasksApart,
     HoldersApart DEF Moves, Types, Places, Handles, Held, Fenced, Attempting, Idle,
     HasActiveWork
<1>14. ASSUME NEW c \in Commands, CommandCheck(c) PROVE Handles'
  <2>1. Moves(c, "check", {"off", "confirm"})
    BY <1>14, CommandMoves
  <2>2. UNCHANGED <<handle, cont, store, settle, stale>>
    BY <1>14 DEF CommandCheck, owner
  <2>3. \A u \in Tasks \ {c} : plan'[u] = plan[u]
    BY <1>14 DEF CommandCheck, Types
  <2> QED BY <2>1, <2>2, <2>3, Types, Lanes, Places, Handles, TasksApart,
     HoldersApart DEF Types, Places, Handles, Moves, Held, Fenced, Attempting
<1>15. ASSUME NEW c \in Commands, CommandConfirm(c) PROVE Handles'
  <2>1. Moves(c, "confirm", {"off", "request", "accept"})
    BY <1>15, CommandMoves
  <2>2. UNCHANGED <<handle, cont, plan, store, settle, stale>>
    BY <1>15 DEF CommandConfirm, owner
  <2> QED BY <2>1, <2>2, Types, Lanes, Places, Handles, TasksApart,
     HoldersApart DEF Moves, Types, Places, Handles, Held, Fenced, Attempting
<1>16. ASSUME NEW c \in Commands, CommandAccept(c) PROVE Handles'
  <2>1. Moves(c, "accept", {"off", "request", "confirm"})
    BY <1>16, CommandMoves
  <2>2. UNCHANGED <<handle, cont, plan, settle, stale>>
    BY <1>16 DEF CommandAccept, owner
  <2>3. store'.rev = store.rev
    BY <1>16, AcceptEffects DEF Types, MayAccept, KeepsBinding
  <2> QED BY <2>1, <2>2, <2>3, Types, Lanes, Places, Handles, TasksApart,
     HoldersApart DEF Types, Places, Handles, Moves, Held, Fenced, Attempting
<1>17. ASSUME NEW c \in Commands, CommandRequest(c) PROVE Handles'
  <2>1. Moves(c, "request", {"off", "settle", "claim"})
    BY <1>17, CommandMoves
  <2>2. UNCHANGED <<handle, cont, plan, store, settle, stale>>
    BY <1>17 DEF CommandRequest, owner
  <2> QED BY <2>1, <2>2, Types, Lanes, Places, Handles, TasksApart,
     HoldersApart DEF Moves, Types, Places, Handles, Held, Fenced, Attempting
<1>18. ASSUME NEW c \in Commands, CommandClaim(c) PROVE Handles'
  <2>1. Moves(c, "claim", {"off", "lane"})
    BY <1>18, CommandMoves
  <2>2. UNCHANGED <<handle, cont, plan, store, settle, stale>>
    BY <1>18 DEF CommandClaim, owner
  <2> QED BY <2>1, <2>2, Types, Lanes, Places, Handles, TasksApart,
     HoldersApart DEF Moves, Types, Places, Handles, Held, Fenced, Attempting
<1>19. ASSUME NEW c \in Commands, CommandEnded(c) PROVE Handles'
  <2>1. Moves(c, "ended", {"settle"})
    BY <1>19, CommandMoves
  <2>2. UNCHANGED <<handle, cont, plan, store, settle, stale>>
    BY <1>19 DEF CommandEnded, owner
  <2> QED BY <2>1, <2>2, Types, Lanes, Places, Handles, TasksApart,
     HoldersApart DEF Moves, Types, Places, Handles, Held, Fenced, Attempting
<1>20. ASSUME NEW c \in Commands, CommandSettle(c) PROVE Handles'
  <2>1. Moves(c, "settle", {"off"})
    BY <1>20, CommandMoves
  <2>2. UNCHANGED <<handle, cont, store, settle, stale>>
    BY <1>20 DEF CommandSettle, owner
  <2>3. \A u \in Tasks \ {c} : plan'[u] = plan[u]
    BY <1>20 DEF CommandSettle, Types
  <2> QED BY <2>1, <2>2, <2>3, Types, Lanes, Places, Handles, TasksApart,
     HoldersApart DEF Types, Places, Handles, Moves, Held, Fenced, Attempting
<1>21. ASSUME NEW w \in Writers, WriterReserve(w) PROVE Handles'
  <2>1. Moves(w, "off", {"hold"})
    BY <1>21, WriterMoves
  <2>2. UNCHANGED <<handle, cont, plan, store, settle, stale>>
    BY <1>21 DEF WriterReserve, owner
  <2> QED BY <2>1, <2>2, Types, Lanes, Places, Handles, TasksApart,
     HoldersApart DEF Moves, Types, Places, Handles, Held, Fenced, Attempting
<1>22. ASSUME NEW w \in Writers, WriterCompact(w) PROVE Handles'
  <2>1. Moves(w, "hold", {"lane"})
    BY <1>22, WriterMoves
  <2>2. UNCHANGED <<handle, cont, plan, store, settle, stale>>
    BY <1>22 DEF WriterCompact, owner
  <2> QED BY <2>1, <2>2, Types, Lanes, Places, Handles, TasksApart,
     HoldersApart DEF Moves, Types, Places, Handles, Held, Fenced, Attempting
<1>23. ASSUME NEW w \in Writers, WriterWrite(w) PROVE Handles'
  <2>1. Moves(w, "hold", {"release"})
    BY <1>23, WriterMoves
  <2>2. UNCHANGED <<handle, cont, plan, settle, stale>>
    BY <1>23 DEF WriterWrite, owner
  <2>3. store'.rev = store.rev
    BY <1>23, AppendEffects DEF Types, MayAppend, KeepsBinding
  <2> QED BY <2>1, <2>2, <2>3, Types, Lanes, Places, Handles, TasksApart,
     HoldersApart DEF Types, Places, Handles, Moves, Held, Fenced, Attempting
<1>24. ASSUME NEW w \in Writers, WriterRelease(w) PROVE Handles'
  <2>1. Moves(w, "release", {"off"})
    BY <1>24, WriterMoves
  <2>2. UNCHANGED <<handle, cont, plan, store, settle, stale>>
    BY <1>24 DEF WriterRelease, owner
  <2> QED BY <2>1, <2>2, Types, Lanes, Places, Handles, TasksApart,
     HoldersApart DEF Moves, Types, Places, Handles, Held, Fenced, Attempting
<1>25. ASSUME NEW w \in Writers, WriterEnded(w) PROVE Handles'
  <2>1. Moves(w, "ended", {"release"})
    BY <1>25, WriterMoves
  <2>2. UNCHANGED <<settle, stale>> /\ store'.rev = store.rev
    BY <1>25, AppendEffects DEF WriterEnded, owner, Types, MayAppend, KeepsBinding
  <2>3. \A u \in Tasks \ {w} : plan'[u] = plan[u]
    BY <1>25 DEF WriterEnded, Types
  <2>4. CASE handle = "successor" /\ handle' = None
    <3>1. \A t \in Tasks : pc[t] \notin Held
      BY <2>4, HoldersApart DEF Handles
    <3> QED BY <2>1, <2>2, <2>4, <3>1, Types, Lanes, Places, Handles, TasksApart,
       HoldersApart DEF Types, Places, Handles, Moves, Held, Fenced, Attempting
  <2>5. CASE UNCHANGED <<handle, cont>>
    BY <2>1, <2>2, <2>3, <2>5, Types, Lanes, Places, Handles, TasksApart,
       HoldersApart DEF Types, Places, Handles, Moves, Held, Fenced, Attempting
  <2> QED BY <1>25, <2>4, <2>5 DEF WriterEnded
<1>26. CASE SubmitPrompt
  <2>2. UNCHANGED <<handle, cont, plan, settle, stale, pc>>
    BY <1>26 DEF SubmitPrompt, owner
  <2>3. store'.rev = store.rev
    BY <1>26, SubmitFields DEF Types, KeepsTurn, KeepsBinding
  <2> QED BY <2>2, <2>3, Types, Lanes, Places, Handles, TasksApart,
     HoldersApart DEF Types, Places, Handles, Moves, Held, Fenced, Attempting
<1>27. CASE Deliver
  <2>1. Moves(Root, "off", {"admit"})
    BY <1>27, RootMoves
  <2>2. UNCHANGED <<handle, cont, plan, store, settle, stale>>
    BY <1>27 DEF Deliver, owner
  <2> QED BY <2>1, <2>2, Types, Lanes, Places, Handles, TasksApart,
     HoldersApart DEF Moves, Types, Places, Handles, Held, Fenced, Attempting
<1>28. CASE RootAppend
  <2>2. UNCHANGED <<handle, cont, plan, settle, stale, pc>>
    BY <1>28 DEF RootAppend, owner
  <2>3. store'.rev = store.rev
    BY <1>28, AppendEffects DEF Types, MayAppend, KeepsBinding
  <2> QED BY <2>2, <2>3, Types, Lanes, Places, Handles, TasksApart,
     HoldersApart DEF Types, Places, Handles, Moves, Held, Fenced, Attempting
<1>29. CASE RootDispatch
  <2>1. Moves(Root, "run", {"model"})
    BY <1>29, RootMoves
  <2>2. UNCHANGED <<plan, store, settle, stale>>
    BY <1>29 DEF RootDispatch, owner
  <2>3. handle = None /\ handle' = Root /\ writes = {}
    BY <1>29 DEF RootDispatch
  <2>4. settle = None
    <3>1. ASSUME settle # None PROVE FALSE
      <4>1. settle.owner \in Tasks /\ pc[settle.owner] = "join"
        BY <3>1, SettlementAlone
      <4>2. settle.owner \notin Writers
        BY <2>3, <4>1 DEF Places
      <4>3. settle.owner # Root
        BY <2>1, <4>1 DEF Moves
      <4> QED BY <2>1, <4>1, <4>2, <4>3, TasksApart DEF Alone, Moves
    <3> QED BY <3>1
  <2>5. \A t \in Tasks : pc[t] \notin Held
    BY <2>3, TasksApart DEF Handles
  <2> QED BY <2>1, <2>2, <2>3, <2>4, <2>5, Types, Lanes, Places, Handles, TasksApart,
     HoldersApart DEF Types, Places, Handles, Moves, Held, Fenced, Attempting
<1>30. CASE RootCompact
  <2>1. Moves(Root, "run", {"lane"})
    BY <1>30, RootMoves
  <2>2. UNCHANGED <<handle, cont, plan, store, settle, stale>>
    BY <1>30 DEF RootCompact, owner
  <2> QED BY <2>1, <2>2, Types, Lanes, Places, Handles, TasksApart,
     HoldersApart DEF Moves, Types, Places, Handles, Held, Fenced, Attempting
<1>31. CASE StartTurn
  <2>1. Moves(Root, "admit", {"run"})
    BY <1>31, RootMoves
  <2>2. UNCHANGED <<handle, cont, plan, settle, stale>>
    BY <1>31 DEF StartTurn, owner
  <2>3. store'.rev = store.rev
    BY <1>31, <2>1, StartFields DEF Types, Roots, Moves
  <2> QED BY <2>1, <2>2, <2>3, Types, Lanes, Places, Handles, TasksApart,
     HoldersApart DEF Types, Places, Handles, Moves, Held, Fenced, Attempting
<1>32. CASE EndRoot
  <2>1. \E p \in {"run", "admit"} : Moves(Root, p, {"off"})
    BY <1>32, RootMoves
  <2>2. UNCHANGED <<handle, cont, plan, settle, stale>>
    BY <1>32 DEF EndRoot, owner
  <2>3. store'.rev = store.rev
    BY <1>32, HaltEffects DEF Types, MayHalt, KeepsBinding
  <2> QED BY <2>1, <2>2, <2>3, Types, Lanes, Places, Handles, TasksApart,
     HoldersApart DEF Types, Places, Handles, Moves, Held, Fenced, Attempting
<1>33. CASE RootAnswer
  <2>1. Moves(Root, "model", {"run"})
    BY <1>33, RootMoves
  <2>2. UNCHANGED <<cont, plan, settle, stale>>
    BY <1>33 DEF RootAnswer, owner
  <2>3. store'.rev = store.rev
    BY <1>33, AppendEffects DEF Types, MayAppend, KeepsBinding
  <2>4. handle' = None
    BY <1>33 DEF RootAnswer
  <2> QED BY <2>1, <2>2, <2>4, <2>3, Types, Lanes, Places, Handles, TasksApart,
     HoldersApart DEF Types, Places, Handles, Moves, Held, Fenced, Attempting
<1>34. CASE RootEnded
  <2>1. Moves(Root, "ended", {"model", "run", "off"})
    BY <1>34, RootMoves
  <2>2. UNCHANGED <<settle, stale>> /\ store'.rev = store.rev
    BY <1>34, HaltEffects DEF RootEnded, owner, Types, MayHalt, KeepsBinding
  <2>3. CASE result[Root] = "SUCCESSOR"
    <3>1. handle' = Root /\ pc'[Root] = "model"
      BY <1>34, <2>3, TasksApart DEF RootEnded, Goto, Types
    <3>2. handle = "successor" /\ settle = None
      BY <2>3, TasksApart DEF Successors
    <3>3. \A t \in Tasks : pc[t] \notin Held
      BY <3>2, HoldersApart DEF Handles
    <3> QED BY <2>1, <2>2, <3>1, <3>2, <3>3, Types, Lanes, Places, Handles, TasksApart,
       HoldersApart DEF Types, Places, Handles, Moves, Held, Fenced, Attempting
  <2>4. CASE result[Root] # "SUCCESSOR"
    <3>1. UNCHANGED <<handle, cont>> /\ pc'[Root] \in {"run", "off"}
      BY <1>34, <2>4, TasksApart DEF RootEnded, Goto, Types
    <3>2. \A u \in Tasks \ {Root} : plan'[u] = plan[u]
      BY <1>34 DEF RootEnded, Types
    <3> QED BY <2>1, <2>2, <3>1, <3>2, Types, Lanes, Places, Handles, TasksApart,
       HoldersApart DEF Types, Places, Handles, Moves, Held, Fenced, Attempting
  <2> QED BY <2>3, <2>4
<1>35. CASE SettleConfirm
  <2>2. UNCHANGED <<plan, store, stale, pc>>
    BY <1>35 DEF SettleConfirm, owner
  <2>3. settle # None
    BY <1>35 DEF SettleConfirm
  <2>4. /\ settle \in Settlements /\ settle.owner \in Tasks
        /\ \A t \in Tasks : pc[t] \notin Held
        /\ handle \notin Tasks /\ pc[Root] # "model"
    BY <2>3, SettlementAlone
  <2>5. Confirms(Confirmation, "adopt")
    BY <1>35, SettlementEffects DEF Types
  <2>6. /\ settle' \in Settlements /\ settle'.owner = settle.owner
        /\ handle' \in {handle, None, "successor"}
        /\ settle'.pc = "done" => handle' \in {None, "successor"}
    BY <2>5 DEF SettleTo, Confirms
  <2>7. settle' # None
    BY <2>6, SettleFields
  <2> QED BY <2>2, <2>3, <2>4, <2>6, <2>7, Handles, TasksApart, HoldersApart DEF Handles
<1>36. CASE SettleReconfirm
  <2>2. UNCHANGED <<plan, store, stale, pc>>
    BY <1>36 DEF SettleReconfirm, owner
  <2>3. settle # None
    BY <1>36 DEF SettleReconfirm
  <2>4. /\ settle \in Settlements /\ settle.owner \in Tasks
        /\ \A t \in Tasks : pc[t] \notin Held
        /\ handle \notin Tasks /\ pc[Root] # "model"
    BY <2>3, SettlementAlone
  <2>5. Confirms(Confirmation, "none")
    BY <1>36, SettlementEffects DEF Types
  <2>6. /\ settle' \in Settlements /\ settle'.owner = settle.owner
        /\ handle' \in {handle, None, "successor"}
        /\ settle'.pc = "done" => handle' \in {None, "successor"}
    BY <2>5 DEF SettleTo, Confirms
  <2>7. settle' # None
    BY <2>6, SettleFields
  <2> QED BY <2>2, <2>3, <2>4, <2>6, <2>7, Handles, TasksApart, HoldersApart DEF Handles
<1>37. CASE SettleAdopt
  <2>2. UNCHANGED <<plan, stale, pc>>
    BY <1>37 DEF SettleAdopt, owner
  <2>3. settle # None
    BY <1>37 DEF SettleAdopt
  <2>4. /\ settle \in Settlements /\ settle.owner \in Tasks
        /\ \A t \in Tasks : pc[t] \notin Held
        /\ handle \notin Tasks /\ pc[Root] # "model"
    BY <2>3, SettlementAlone
  <2>5. Adopting
    BY <1>37, SettlementEffects DEF Types
  <2>6. /\ settle' \in Settlements /\ settle'.owner = settle.owner
        /\ handle' \in {handle, None, "successor"}
        /\ settle'.pc = "done" => handle' \in {None, "successor"}
    BY <2>5 DEF SettleTo, Adopting, Confirms
  <2>7. settle' # None
    BY <2>6, SettleFields
  <2> QED BY <2>2, <2>3, <2>4, <2>6, <2>7, Handles, TasksApart, HoldersApart DEF Handles
<1>38. CASE SettleHooks
  <2>2. UNCHANGED <<plan, store, stale, pc>>
    BY <1>38 DEF SettleHooks, owner
  <2>3. settle # None
    BY <1>38 DEF SettleHooks
  <2>4. /\ settle \in Settlements /\ settle.owner \in Tasks
        /\ \A t \in Tasks : pc[t] \notin Held
        /\ handle \notin Tasks /\ pc[Root] # "model"
    BY <2>3, SettlementAlone
  <2>5. AfterHooks
    BY <1>38, SettlementEffects DEF Types
  <2>6. /\ settle' \in Settlements /\ settle'.owner = settle.owner
        /\ handle' \in {handle, None, "successor"}
        /\ settle'.pc = "done" => handle' \in {None, "successor"}
    BY <2>5 DEF SettleTo, AfterHooks, Retires
  <2>7. settle' # None
    BY <2>6, SettleFields
  <2> QED BY <2>2, <2>3, <2>4, <2>6, <2>7, Handles, TasksApart, HoldersApart DEF Handles
<1>39. CASE SettleStatus
  <2>2. UNCHANGED <<plan, store, stale, pc>>
    BY <1>39 DEF SettleStatus, owner
  <2>3. settle # None
    BY <1>39 DEF SettleStatus
  <2>4. /\ settle \in Settlements /\ settle.owner \in Tasks
        /\ \A t \in Tasks : pc[t] \notin Held
        /\ handle \notin Tasks /\ pc[Root] # "model"
    BY <2>3, SettlementAlone
  <2>5. AfterStatus
    BY <1>39, SettlementEffects DEF Types
  <2>6. /\ settle' \in Settlements /\ settle'.owner = settle.owner
        /\ handle' \in {handle, None, "successor"}
        /\ settle'.pc = "done" => handle' \in {None, "successor"}
    BY <2>5 DEF SettleTo, AfterStatus, Retires
  <2>7. settle' # None
    BY <2>6, SettleFields
  <2> QED BY <2>2, <2>3, <2>4, <2>6, <2>7, Handles, TasksApart, HoldersApart DEF Handles
<1>40. CASE SettleRotate
  <2>2. UNCHANGED <<plan, store, stale, pc>>
    BY <1>40 DEF SettleRotate, owner
  <2>3. settle # None
    BY <1>40 DEF SettleRotate
  <2>4. /\ settle \in Settlements /\ settle.owner \in Tasks
        /\ \A t \in Tasks : pc[t] \notin Held
        /\ handle \notin Tasks /\ pc[Root] # "model"
    BY <2>3, SettlementAlone
  <2>5. AfterRotate
    BY <1>40, SettlementEffects DEF Types
  <2>6. /\ settle' \in Settlements /\ settle'.owner = settle.owner
        /\ handle' \in {handle, None, "successor"}
        /\ settle'.pc = "done" => handle' \in {None, "successor"}
    BY <2>5 DEF SettleTo, AfterRotate, Retires
  <2>7. settle' # None
    BY <2>6, SettleFields
  <2> QED BY <2>2, <2>3, <2>4, <2>6, <2>7, Handles, TasksApart, HoldersApart DEF Handles
<1>41. CASE CloseDone
  <2>2. UNCHANGED <<handle, plan, store, settle, stale, pc>>
    BY <1>41 DEF CloseDone, owner
  <2>3. \A t \in Tasks : pc[t] = "off"
    BY <1>41 DEF CloseDone
  <2> QED BY <2>2, <2>3, Types, Lanes, Places, Handles, TasksApart,
     HoldersApart DEF Types, Places, Handles, Moves, Held, Fenced, Attempting
<1>42. CASE Takeover
  <2>2. UNCHANGED <<handle, cont, plan, settle, pc>>
    BY <1>42 DEF Takeover
  <2>3. stale'
    BY <1>42 DEF Takeover
  <2> QED BY <2>2, <2>3, Types, Lanes, Places, Handles, TasksApart,
     HoldersApart DEF Types, Places, Handles, Moves, Held, Fenced, Attempting
<1>43. CASE Crash
  BY <1>43, Types, Lanes, Places, Handles, TasksApart, HoldersApart DEF Crash, NoPlan,
     Types, Places, Handles, Moves, Held, Fenced, Attempting
<1>44. CASE \/ \E c \in Commands : QuerySlowly(c) \/ StopCommand(c)
            \/ StopTurn \/ BeginClose \/ OwnerClose
  <2>1. UNCHANGED <<handle, cont, plan, store, settle, stale, pc>>
    BY <1>44 DEF QuerySlowly, StopCommand, StopTurn, BeginClose, OwnerClose, owner
  <2> QED BY <2>1, Types, Lanes, Places, Handles, TasksApart, HoldersApart DEF Types,
     Places, Handles, Moves, Held, Fenced, Attempting
<1>45. CASE ReconfirmRaises
  <2>2. UNCHANGED <<plan, store, stale, pc>>
    BY <1>45 DEF ReconfirmRaises, owner
  <2>3. settle # None
    BY <1>45 DEF ReconfirmRaises
  <2>4. /\ settle \in Settlements /\ settle.owner \in Tasks
        /\ \A t \in Tasks : pc[t] \notin Held
        /\ handle \notin Tasks /\ pc[Root] # "model"
    BY <2>3, SettlementAlone
  <2>5. Abandons
    BY <1>45, SettlementEffects DEF Types
  <2>6. /\ settle' \in Settlements /\ settle'.owner = settle.owner
        /\ handle' \in {handle, None, "successor"}
        /\ settle'.pc = "done" => handle' \in {None, "successor"}
    BY <2>5 DEF SettleTo, Abandons
  <2>7. settle' # None
    BY <2>6, SettleFields
  <2> QED BY <2>2, <2>3, <2>4, <2>6, <2>7, Handles, TasksApart, HoldersApart DEF Handles
<1> QED
  BY <1>1, <1>2, <1>3, <1>4, <1>5, <1>6, <1>7, <1>8, <1>9, <1>10, <1>11, <1>12, <1>13,
     <1>14, <1>15, <1>16, <1>17, <1>18, <1>19, <1>20, <1>21, <1>22, <1>23, <1>24, <1>25,
     <1>26, <1>27, <1>28, <1>29, <1>30, <1>31, <1>32, <1>33, <1>34, <1>35, <1>36, <1>37,
     <1>38, <1>39, <1>40, <1>41, <1>42, <1>43, <1>44, <1>45
  DEF Next, Attempt, CommandStep, WriterStep, RootStep, Settlement

(* A successor is handed on, used or closed, and never two at once. *)
LEMMA SuccessorsStep ==
    ASSUME Types, Lanes, Places, Handles, Successors, Settles, Next
    PROVE  Successors'
<1>1. ASSUME NEW t \in Tasks, AcquireLane(t) PROVE Successors'
  <2>1. Moves(t, "lane", {"install"})
    BY <1>1, AttemptsMoves
  <2>2. UNCHANGED <<handle, result, settle>>
    BY <1>1 DEF AcquireLane
  <2> QED BY <2>1, <2>2, Types, Places, Handles, Successors, TasksApart,
     HoldersApart DEF Moves, Types, Places, Successors
<1>2. ASSUME NEW t \in Tasks, CancelBeforeFence(t) PROVE Successors'
  <2>1. \E p \in {"lane", "install"} : Moves(t, p, {"ended"})
    BY <1>2, AttemptsMoves
  <2>2. UNCHANGED <<handle, settle>>
    BY <1>2 DEF CancelBeforeFence
  <2> QED BY <1>2, <2>1, <2>2, Types, Places, Handles, Successors, TasksApart,
     HoldersApart DEF CancelBeforeFence, Goto, Moves, Types, Places, Successors
<1>3. ASSUME NEW t \in Tasks, Install(t) PROVE Successors'
  <2>1. Moves(t, "install", {"freeze", "ended"})
    BY <1>3, AttemptsMoves
  <2>2. UNCHANGED <<handle, settle>>
    BY <1>3 DEF Install
  <2> QED BY <1>3, <2>1, <2>2, Types, Places, Handles, Successors, TasksApart,
     HoldersApart DEF Install, Goto, MayFence, Moves, Types, Places, Successors
<1>4. ASSUME NEW t \in Tasks, Freeze(t) PROVE Successors'
  <2>1. Moves(t, "freeze", {"plan", "remove"})
    BY <1>4, AttemptsMoves
  <2>2. UNCHANGED <<settle>>
    BY <1>4 DEF Freeze
  <2> QED BY <1>4, <2>1, <2>2, Types, Places, Handles, Successors, TasksApart,
     HoldersApart DEF Freeze, Goto, Leave, TargetReady, Moves, Types, Places,
     Successors
<1>5. ASSUME NEW t \in Tasks, Plan(t) PROVE Successors'
  <2>1. Moves(t, "plan", {"stream", "remove"})
    BY <1>5, AttemptsMoves
  <2>2. UNCHANGED <<settle>>
    BY <1>5 DEF Plan
  <2>3. pc[t] \in Held
    BY <2>1 DEF Moves, Held
  <2>4. handle = t
    BY <2>3 DEF Handles
  <2>5. \/ handle' = None /\ \E r \in Results \ {"SUCCESSOR"} : result' = [result EXCEPT ![t] = r]
        \/ UNCHANGED <<handle, result>>
    BY <1>5, <2>4 DEF Plan, Leave, Results
  <2> QED BY <2>1, <2>2, <2>3, <2>4, <2>5, Types, Places, Handles, Successors,
     TasksApart, HoldersApart DEF Types, Places, Successors, Moves, Held
<1>6. ASSUME NEW t \in Tasks, Stream(t) PROVE Successors'
  <2>1. \E p \in {"stream", "repair"} : Moves(t, p, {"repair", "fit", "remove"})
    BY <1>6, AttemptsMoves
  <2>2. UNCHANGED <<settle>>
    BY <1>6 DEF Stream
  <2>3. pc[t] \in Held
    BY <2>1 DEF Moves, Held
  <2>4. handle = t
    BY <2>3 DEF Handles
  <2>5. \/ handle' = None /\ \E r \in Results \ {"SUCCESSOR"} : result' = [result EXCEPT ![t] = r]
        \/ UNCHANGED <<handle, result>>
    BY <1>6, <2>4 DEF Stream, Leave, Results
  <2> QED BY <2>1, <2>2, <2>3, <2>4, <2>5, Types, Places, Handles, Successors,
     TasksApart, HoldersApart DEF Types, Places, Successors, Moves, Held
<1>7. ASSUME NEW t \in Tasks, Fit(t) PROVE Successors'
  <2>1. Moves(t, "fit", {"freeze", "join", "remove"})
    BY <1>7, AttemptsMoves
  <2>3. pc[t] \in Held
    BY <2>1 DEF Moves, Held
  <2>4. handle = t /\ settle = None
    BY <2>3, HeldAlone
  <2>5. \/ /\ handle' = None /\ settle' = settle
           /\ \/ result' = result
              \/ \E r \in Results \ {"SUCCESSOR"} : result' = [result EXCEPT ![t] = r]
        \/ handle' = "settlement" /\ result' = result /\ settle' = Settling(t)
    BY <1>7, <2>4 DEF Fit, Leave, Settling, Results
  <2>6. Settling(t).res = "none"
    BY SettlingFields DEF Types
  <2> QED BY <2>1, <2>3, <2>4, <2>5, <2>6, Types, Places, Handles, Successors,
     TasksApart, HoldersApart DEF Types, Places, Successors, Moves, Held
<1>8. ASSUME NEW t \in Tasks, CancelFenced(t) PROVE Successors'
  <2>1. \E p \in {"freeze", "plan", "stream", "repair", "fit"} : Moves(t, p, {"remove"})
    BY <1>8, AttemptsMoves
  <2>2. UNCHANGED <<settle>>
    BY <1>8 DEF CancelFenced
  <2> QED BY <1>8, <2>1, <2>2, Types, Places, Handles, Successors, TasksApart,
     HoldersApart DEF CancelFenced, Goto, Leave, Moves, Types, Places, Successors
<1>9. ASSUME NEW t \in Tasks, Join(t) PROVE Successors'
  <2>1. Moves(t, "join", {"remove"})
    BY <1>9, AttemptsMoves
  <2>2. settle # None /\ settle' = None /\ settle.owner = t
    BY <1>9, <2>1 DEF Join, Handles, Moves
  <2>3. \A u \in Tasks : result[u] # "SUCCESSOR"
    BY <2>2 DEF Successors
  <2>4. /\ \A u \in Tasks \ {t} : result'[u] = result[u]
        /\ result'[t] = "SUCCESSOR" => settle.res = "SUCCESSOR" /\ handle' = handle
        /\ settle.res = "SUCCESSOR" => result'[t] = "SUCCESSOR" \/ handle' = None
        /\ settle.res # "SUCCESSOR" => handle' = handle
    BY <1>9 DEF Join, Types
  <2> QED BY <2>1, <2>2, <2>3, <2>4, Types, Places, Handles, Successors, TasksApart,
     HoldersApart DEF Types, Places, Successors, Moves
<1>10. ASSUME NEW t \in Tasks, Remove(t) PROVE Successors'
  <2>1. Moves(t, "remove", {"ended"})
    BY <1>10, AttemptsMoves
  <2>2. UNCHANGED <<handle, result, settle>>
    BY <1>10 DEF Remove
  <2> QED BY <2>1, <2>2, Types, Places, Handles, Successors, TasksApart,
     HoldersApart DEF Moves, Types, Places, Successors
<1>11. ASSUME NEW t \in Tasks, RemoveCancelled(t) PROVE Successors'
  <2>1. Moves(t, "remove", {"ended"})
    BY <1>11, AttemptsMoves
  <2>2. UNCHANGED <<handle, settle>>
    BY <1>11 DEF RemoveCancelled
  <2> QED BY <1>11, <2>1, <2>2, Types, Places, Handles, Successors, TasksApart,
     HoldersApart DEF RemoveCancelled, Goto, Moves, Types, Places, Successors
<1>12. ASSUME NEW c \in Commands, RequestCommand(c) PROVE Successors'
  <2>1. UNCHANGED pc \/ (Moves(c, "off", {"check"}) /\ Idle /\ host = "open")
    BY <1>12, RequestMoves
  <2>2. UNCHANGED <<handle, result, settle>>
    BY <1>12 DEF RequestCommand
  <2> QED BY <2>1, <2>2, Types, Places, Handles, Successors, TasksApart,
     HoldersApart DEF Moves, Types, Places, Successors, Idle, HasActiveWork
<1>13. ASSUME NEW c \in Commands, RequestLate(c) PROVE Successors'
  <2>1. UNCHANGED pc \/ (Moves(c, "off", {"check"}) /\ Idle /\ host = "open")
    BY <1>13, RequestMoves
  <2>2. UNCHANGED <<handle, result, settle>>
    BY <1>13 DEF RequestLate
  <2> QED BY <2>1, <2>2, Types, Places, Handles, Successors, TasksApart,
     HoldersApart DEF Moves, Types, Places, Successors, Idle, HasActiveWork
<1>14. ASSUME NEW c \in Commands, CommandCheck(c) PROVE Successors'
  <2>1. Moves(c, "check", {"off", "confirm"})
    BY <1>14, CommandMoves
  <2>2. UNCHANGED <<handle, result, settle>>
    BY <1>14 DEF CommandCheck
  <2> QED BY <2>1, <2>2, Types, Places, Handles, Successors, TasksApart,
     HoldersApart DEF Moves, Types, Places, Successors
<1>15. ASSUME NEW c \in Commands, CommandConfirm(c) PROVE Successors'
  <2>1. Moves(c, "confirm", {"off", "request", "accept"})
    BY <1>15, CommandMoves
  <2>2. UNCHANGED <<handle, result, settle>>
    BY <1>15 DEF CommandConfirm
  <2> QED BY <2>1, <2>2, Types, Places, Handles, Successors, TasksApart,
     HoldersApart DEF Moves, Types, Places, Successors
<1>16. ASSUME NEW c \in Commands, CommandAccept(c) PROVE Successors'
  <2>1. Moves(c, "accept", {"off", "request", "confirm"})
    BY <1>16, CommandMoves
  <2>2. UNCHANGED <<handle, result, settle>>
    BY <1>16 DEF CommandAccept
  <2> QED BY <2>1, <2>2, Types, Places, Handles, Successors, TasksApart,
     HoldersApart DEF Moves, Types, Places, Successors
<1>17. ASSUME NEW c \in Commands, CommandRequest(c) PROVE Successors'
  <2>1. Moves(c, "request", {"off", "settle", "claim"})
    BY <1>17, CommandMoves
  <2>2. UNCHANGED <<handle, settle>>
    BY <1>17 DEF CommandRequest
  <2> QED BY <1>17, <2>1, <2>2, Types, Places, Handles, Successors, TasksApart,
     HoldersApart DEF CommandRequest, Goto, Return, OwnerClosing, Moves, Types, Places,
     Successors
<1>18. ASSUME NEW c \in Commands, CommandClaim(c) PROVE Successors'
  <2>1. Moves(c, "claim", {"off", "lane"})
    BY <1>18, CommandMoves
  <2>2. UNCHANGED <<handle, result, settle>>
    BY <1>18 DEF CommandClaim
  <2> QED BY <2>1, <2>2, Types, Places, Handles, Successors, TasksApart,
     HoldersApart DEF Moves, Types, Places, Successors
<1>19. ASSUME NEW c \in Commands, CommandEnded(c) PROVE Successors'
  <2>1. Moves(c, "ended", {"settle"})
    BY <1>19, CommandMoves
  <2>2. UNCHANGED <<handle, result, settle>>
    BY <1>19 DEF CommandEnded
  <2> QED BY <2>1, <2>2, Types, Places, Handles, Successors, TasksApart,
     HoldersApart DEF Moves, Types, Places, Successors
<1>20. ASSUME NEW c \in Commands, CommandSettle(c) PROVE Successors'
  <2>1. Moves(c, "settle", {"off"})
    BY <1>20, CommandMoves
  <2>2. UNCHANGED <<handle, settle>>
    BY <1>20 DEF CommandSettle
  <2> QED BY <1>20, <2>1, <2>2, Types, Places, Handles, Successors, TasksApart,
     HoldersApart DEF CommandSettle, Goto, Return, Moves, Types, Places, Successors
<1>21. ASSUME NEW w \in Writers, WriterReserve(w) PROVE Successors'
  <2>1. Moves(w, "off", {"hold"})
    BY <1>21, WriterMoves
  <2>2. UNCHANGED <<handle, result, settle>>
    BY <1>21 DEF WriterReserve
  <2> QED BY <2>1, <2>2, Types, Places, Handles, Successors, TasksApart,
     HoldersApart DEF Moves, Types, Places, Successors
<1>22. ASSUME NEW w \in Writers, WriterCompact(w) PROVE Successors'
  <2>1. Moves(w, "hold", {"lane"})
    BY <1>22, WriterMoves
  <2>2. UNCHANGED <<handle, result, settle>>
    BY <1>22 DEF WriterCompact
  <2> QED BY <2>1, <2>2, Types, Places, Handles, Successors, TasksApart,
     HoldersApart DEF Moves, Types, Places, Successors
<1>23. ASSUME NEW w \in Writers, WriterWrite(w) PROVE Successors'
  <2>1. Moves(w, "hold", {"release"})
    BY <1>23, WriterMoves
  <2>2. UNCHANGED <<handle, result, settle>>
    BY <1>23 DEF WriterWrite
  <2> QED BY <2>1, <2>2, Types, Places, Handles, Successors, TasksApart,
     HoldersApart DEF Moves, Types, Places, Successors
<1>24. ASSUME NEW w \in Writers, WriterRelease(w) PROVE Successors'
  <2>1. Moves(w, "release", {"off"})
    BY <1>24, WriterMoves
  <2>2. UNCHANGED <<handle, result, settle>>
    BY <1>24 DEF WriterRelease
  <2> QED BY <2>1, <2>2, Types, Places, Handles, Successors, TasksApart,
     HoldersApart DEF Moves, Types, Places, Successors
<1>25. ASSUME NEW w \in Writers, WriterEnded(w) PROVE Successors'
  <2>1. Moves(w, "ended", {"release"})
    BY <1>25, WriterMoves
  <2>2. UNCHANGED <<settle>>
    BY <1>25 DEF WriterEnded
  <2> QED BY <1>25, <2>1, <2>2, Types, Places, Handles, Successors, TasksApart,
     HoldersApart DEF WriterEnded, Goto, Moves, Types, Places, Successors
<1>26. CASE Deliver
  <2>1. Moves(Root, "off", {"admit"})
    BY <1>26, RootMoves
  <2>2. UNCHANGED <<handle, result, settle>>
    BY <1>26 DEF Deliver
  <2> QED BY <2>1, <2>2, Types, Places, Handles, Successors, TasksApart,
     HoldersApart DEF Moves, Types, Places, Successors
<1>27. CASE RootDispatch
  <2>1. Moves(Root, "run", {"model"})
    BY <1>27, RootMoves
  <2>2. UNCHANGED <<result, settle>>
    BY <1>27 DEF RootDispatch
  <2> QED BY <1>27, <2>1, <2>2, Types, Places, Handles, Successors, TasksApart,
     HoldersApart DEF RootDispatch, Goto, Moves, Types, Places, Successors
<1>28. CASE RootCompact
  <2>1. Moves(Root, "run", {"lane"})
    BY <1>28, RootMoves
  <2>2. UNCHANGED <<handle, result, settle>>
    BY <1>28 DEF RootCompact
  <2> QED BY <2>1, <2>2, Types, Places, Handles, Successors, TasksApart,
     HoldersApart DEF Moves, Types, Places, Successors
<1>29. CASE StartTurn
  <2>1. Moves(Root, "admit", {"run"})
    BY <1>29, RootMoves
  <2>2. UNCHANGED <<handle, result, settle>>
    BY <1>29 DEF StartTurn
  <2> QED BY <2>1, <2>2, Types, Places, Handles, Successors, TasksApart,
     HoldersApart DEF Moves, Types, Places, Successors
<1>30. CASE EndRoot
  <2>1. \E p \in {"run", "admit"} : Moves(Root, p, {"off"})
    BY <1>30, RootMoves
  <2>2. UNCHANGED <<handle, result, settle>>
    BY <1>30 DEF EndRoot
  <2> QED BY <2>1, <2>2, Types, Places, Handles, Successors, TasksApart,
     HoldersApart DEF Moves, Types, Places, Successors
<1>31. CASE RootAnswer
  <2>1. Moves(Root, "model", {"run"})
    BY <1>31, RootMoves
  <2>2. UNCHANGED <<result, settle>>
    BY <1>31 DEF RootAnswer
  <2>3. handle = Root /\ handle' = None
    BY <1>31 DEF RootAnswer, Handles
  <2> QED BY <2>1, <2>2, <2>3, Types, Places, Handles, Successors, TasksApart,
     HoldersApart DEF Types, Places, Successors, Moves
<1>32. CASE RootEnded
  <2>1. Moves(Root, "ended", {"model", "run", "off"})
    BY <1>32, RootMoves
  <2>2. UNCHANGED <<settle>>
    BY <1>32 DEF RootEnded
  <2> QED BY <1>32, <2>1, <2>2, Types, Places, Handles, Successors, TasksApart,
     HoldersApart DEF RootEnded, Goto, Moves, Types, Places, Successors
<1>33. CASE SettleConfirm
  <2>2. UNCHANGED <<result, pc>>
    BY <1>33 DEF SettleConfirm
  <2>3. settle # None /\ settle.pc # "done" /\ settle.res = "none"
    BY <1>33 DEF SettleConfirm, Settles
  <2>4. Confirms(Confirmation, "adopt")
    BY <1>33, SettlementEffects DEF Types
  <2>5. handle' \in {handle, None} /\ settle'.res # "SUCCESSOR"
    BY <2>3, <2>4 DEF SettleTo, Confirms
  <2> QED BY <2>2, <2>3, <2>5, HoldersApart DEF Successors
<1>34. CASE SettleReconfirm
  <2>2. UNCHANGED <<result, pc>>
    BY <1>34 DEF SettleReconfirm
  <2>3. settle # None /\ settle.pc # "done" /\ settle.res = "none"
    BY <1>34 DEF SettleReconfirm, Settles
  <2>4. Confirms(Confirmation, "none")
    BY <1>34, SettlementEffects DEF Types
  <2>5. handle' \in {handle, None} /\ settle'.res # "SUCCESSOR"
    BY <2>3, <2>4 DEF SettleTo, Confirms
  <2> QED BY <2>2, <2>3, <2>5, HoldersApart DEF Successors
<1>35. CASE SettleAdopt
  <2>2. UNCHANGED <<result, pc>>
    BY <1>35 DEF SettleAdopt
  <2>3. settle # None /\ settle.pc # "done" /\ settle.res = "none"
    BY <1>35 DEF SettleAdopt, Settles
  <2>4. Adopting
    BY <1>35, SettlementEffects DEF Types
  <2>5. handle' \in {handle, None} /\ settle'.res # "SUCCESSOR"
    BY <2>3, <2>4 DEF SettleTo, Adopting, Confirms
  <2> QED BY <2>2, <2>3, <2>5, HoldersApart DEF Successors
<1>36. CASE SettleHooks
  <2>2. UNCHANGED <<result, pc>>
    BY <1>36 DEF SettleHooks
  <2>3. settle # None /\ settle.pc # "done" /\ settle.res = "none"
    BY <1>36 DEF SettleHooks, Settles
  <2>4. AfterHooks
    BY <1>36, SettlementEffects DEF Types
  <2>5. handle' \in {handle, None} /\ settle'.res # "SUCCESSOR"
    BY <2>3, <2>4 DEF SettleTo, AfterHooks, Retires
  <2> QED BY <2>2, <2>3, <2>5, HoldersApart DEF Successors
<1>37. CASE SettleStatus
  <2>2. UNCHANGED <<result, pc>>
    BY <1>37 DEF SettleStatus
  <2>3. settle # None /\ settle.pc # "done" /\ settle.res = "none"
    BY <1>37 DEF SettleStatus, Settles
  <2>4. AfterStatus
    BY <1>37, SettlementEffects DEF Types
  <2>5. handle' \in {handle, None} /\ settle'.res # "SUCCESSOR"
    BY <2>3, <2>4 DEF SettleTo, AfterStatus, Retires
  <2> QED BY <2>2, <2>3, <2>5, HoldersApart DEF Successors
<1>38. CASE SettleRotate
  <2>2. UNCHANGED <<result, pc>>
    BY <1>38 DEF SettleRotate
  <2>3. settle # None /\ settle.pc = "rotate" /\ settle.owner \notin Commands
    BY <1>38 DEF SettleRotate, Settles
  <2>4. AfterRotate
    BY <1>38, SettlementEffects DEF Types
  <2>5. CASE handle' = None /\ settle'.res # "SUCCESSOR"
    BY <2>2, <2>3, <2>5, HoldersApart DEF Successors
  <2>6. CASE SettleTo("done", "SUCCESSOR") /\ handle' = "successor"
    BY <2>2, <2>3, <2>6, SettleFields DEF Successors, SettleTo
  <2> QED BY <2>4, <2>5, <2>6 DEF AfterRotate, Retires, SettleTo
<1>39. CASE Crash
  BY <1>39, Types, Places, Handles, Successors, TasksApart, HoldersApart DEF Crash,
     NoPlan, Types, Places, Successors, Moves
<1>40. CASE \/ \E c \in Commands : QuerySlowly(c) \/ StopCommand(c)
            \/ SubmitPrompt \/ RootAppend \/ StopTurn \/ BeginClose \/ OwnerClose
            \/ CloseDone \/ Takeover
  <2>1. UNCHANGED <<handle, result, settle, pc>>
    BY <1>40 DEF QuerySlowly, StopCommand, SubmitPrompt, RootAppend, StopTurn,
       BeginClose, OwnerClose, CloseDone, Takeover
  <2> QED BY <2>1, Types, Places, Handles, Successors, TasksApart,
     HoldersApart DEF Types, Places, Successors, Moves
<1>41. CASE ReconfirmRaises
  <2>2. UNCHANGED <<result, pc>>
    BY <1>41 DEF ReconfirmRaises
  <2>3. settle # None /\ settle.pc # "done" /\ settle.res = "none"
    BY <1>41 DEF ReconfirmRaises, Settles
  <2>4. Abandons
    BY <1>41, SettlementEffects DEF Types
  <2>5. handle' \in {handle, None} /\ settle'.res # "SUCCESSOR"
    BY <2>3, <2>4 DEF SettleTo, Abandons
  <2> QED BY <2>2, <2>3, <2>5, HoldersApart DEF Successors
<1> QED
  BY <1>1, <1>2, <1>3, <1>4, <1>5, <1>6, <1>7, <1>8, <1>9, <1>10, <1>11, <1>12, <1>13,
     <1>14, <1>15, <1>16, <1>17, <1>18, <1>19, <1>20, <1>21, <1>22, <1>23, <1>24, <1>25,
     <1>26, <1>27, <1>28, <1>29, <1>30, <1>31, <1>32, <1>33, <1>34, <1>35, <1>36, <1>37,
     <1>38, <1>39, <1>40, <1>41
  DEF Next, Attempt, CommandStep, WriterStep, RootStep, Settlement

(* The settlement knows where the store stands, and what it has made of the slot. *)
LEMMA SettlesStep ==
    ASSUME Types, Lanes, Places, Roots, Alone, Handles, Successors, Settles, Slot, Next
    PROVE  Settles'
<1>1. ASSUME NEW t \in Tasks, Freeze(t) PROVE Settles'
  <2>2. UNCHANGED <<settle, cont, stale, store>>
    BY <1>1 DEF Freeze, owner
  <2>3. settle = None
    <3>1. pc[t] = "freeze"
      BY <1>1 DEF Freeze
    <3>2. ASSUME settle # None PROVE FALSE
      BY <3>1, <3>2, SettlementAlone, OneFenced DEF Fenced
    <3> QED BY <3>2
  <2> QED BY <2>2, <2>3 DEF Settles
<1>2. ASSUME NEW t \in Tasks, Plan(t) PROVE Settles'
  <2>2. UNCHANGED <<settle, cont, stale, store>>
    BY <1>2 DEF Plan, owner
  <2>3. settle = None
    BY <1>2, HeldAlone DEF Plan, Held
  <2> QED BY <2>2, <2>3 DEF Settles
<1>3. ASSUME NEW t \in Tasks, Stream(t) PROVE Settles'
  <2>2. UNCHANGED <<settle, cont, stale, store>>
    BY <1>3 DEF Stream, owner
  <2>3. settle = None
    BY <1>3, HeldAlone DEF Stream, Held
  <2> QED BY <2>2, <2>3 DEF Settles
<1>4. ASSUME NEW t \in Tasks, Fit(t) PROVE Settles'
  <2>2. UNCHANGED <<stale, store>>
    BY <1>4 DEF Fit, owner
  <2>3. pc[t] \in Held
    BY <1>4 DEF Fit, Held
  <2>4. /\ handle = t /\ settle = None /\ cont.kind \in {"EMPTY", "INSTALLED"}
        /\ ~stale => plan[t].base = store.rev
    BY <2>3, HeldAlone DEF Handles
  <2>5. \/ settle' = settle
        \/ /\ handle' = "settlement" /\ settle' = Settling(t)
           /\ cont' = IF cont.kind = "EMPTY" THEN [cont EXCEPT !.kind = "PENDING"] ELSE cont
    BY <1>4, <2>4 DEF Fit, Settling
  <2>6. CASE settle' = settle
    BY <2>4, <2>6 DEF Settles
  <2>7. CASE /\ handle' = "settlement" /\ settle' = Settling(t)
             /\ cont' = IF cont.kind = "EMPTY" THEN [cont EXCEPT !.kind = "PENDING"] ELSE cont
    <3>1. /\ settle'.owner = t /\ settle'.base = plan[t].base
          /\ settle'.empty = (cont.kind = "EMPTY")
          /\ settle'.pc = "confirm" /\ settle'.res = "none"
      BY <2>7, SettlingFields DEF Types
    <3>2. cont'.kind = IF settle'.empty THEN "PENDING" ELSE "INSTALLED"
      BY <2>4, <2>7, <3>1, ContTurns DEF ContTo, Types
    <3>3. cont.kind = "INSTALLED" /\ ~stale => cont.base = store.rev
      BY <2>4, HoldersApart DEF Slot
    <3>4. cont'.kind = "INSTALLED" => cont' = cont
      BY <2>7, <3>1, <3>2
    <3> QED BY <2>2, <2>4, <2>7, <3>1, <3>2, <3>3, <3>4 DEF Settles
  <2> QED BY <2>5, <2>6, <2>7
<1>5. ASSUME NEW t \in Tasks, CancelFenced(t) PROVE Settles'
  <2>2. UNCHANGED <<settle, cont, stale, store>>
    BY <1>5 DEF CancelFenced, owner
  <2>3. settle = None
    <3>1. pc[t] \in {"freeze"} \cup Held
      BY <1>5 DEF CancelFenced, Held
    <3>2. ASSUME settle # None PROVE FALSE
      BY <3>1, <3>2, SettlementAlone, OneFenced DEF Fenced, Held
    <3> QED BY <3>2
  <2> QED BY <2>2, <2>3 DEF Settles
<1>6. ASSUME NEW t \in Tasks, Join(t) PROVE Settles'
  <2>1. settle' = None
    BY <1>6 DEF Join
  <2> QED BY <2>1 DEF Settles
<1>7. ASSUME NEW c \in Commands, CommandAccept(c) PROVE Settles'
  <2>2. UNCHANGED <<settle, cont, handle, stale>>
    BY <1>7 DEF CommandAccept, owner
  <2>3. KeepsBinding
    BY <1>7, AcceptEffects DEF Types, MayAccept
  <2> QED BY <2>2, <2>3, Settles DEF Settles, KeepsBinding
<1>8. ASSUME NEW w \in Writers, WriterWrite(w) PROVE Settles'
  <2>2. UNCHANGED <<settle, cont, handle, stale>>
    BY <1>8 DEF WriterWrite, owner
  <2>3. KeepsBinding
    BY <1>8, AppendEffects DEF Types, MayAppend
  <2> QED BY <2>2, <2>3, Settles DEF Settles, KeepsBinding
<1>9. ASSUME NEW w \in Writers, WriterEnded(w) PROVE Settles'
  <2>2. UNCHANGED <<settle, stale>>
    BY <1>9 DEF WriterEnded, owner
  <2>3. KeepsBinding
    BY <1>9, AppendEffects DEF Types, MayAppend, KeepsBinding
  <2>4. CASE settle = None
    BY <2>2, <2>4 DEF Settles
  <2>5. CASE UNCHANGED <<cont, handle>>
    BY <2>2, <2>3, <2>5, Settles DEF Settles, KeepsBinding
  <2>6. result[w] = "SUCCESSOR" => settle = None
    BY TasksApart DEF Successors
  <2> QED BY <1>9, <2>4, <2>5, <2>6 DEF WriterEnded
<1>10. CASE SubmitPrompt
  <2>2. UNCHANGED <<settle, cont, handle, stale>>
    BY <1>10 DEF SubmitPrompt, owner
  <2>3. KeepsBinding
    BY <1>10, SubmitFields DEF Types, KeepsBinding
  <2> QED BY <2>2, <2>3, Settles DEF Settles, KeepsBinding
<1>11. CASE RootAppend
  <2>2. UNCHANGED <<settle, cont, handle, stale>>
    BY <1>11 DEF RootAppend, owner
  <2>3. KeepsBinding
    BY <1>11, AppendEffects DEF Types, MayAppend
  <2> QED BY <2>2, <2>3, Settles DEF Settles, KeepsBinding
<1>12. CASE RootDispatch
  <2>2. UNCHANGED <<settle, stale, store>>
    BY <1>12 DEF RootDispatch, owner
  <2>3. settle = None
    BY <1>12, DispatchAlone
  <2> QED BY <2>2, <2>3 DEF Settles
<1>13. CASE StartTurn
  <2>2. UNCHANGED <<settle, cont, handle, stale>>
    BY <1>13 DEF StartTurn, owner
  <2>3. store.pending > 0
    BY <1>13 DEF StartTurn, Roots
  <2>4. KeepsBinding
    BY <1>13, <2>3, StartFields DEF Types, KeepsBinding
  <2> QED BY <2>2, <2>4, Settles DEF Settles, KeepsBinding
<1>14. CASE EndRoot
  <2>2. UNCHANGED <<settle, cont, handle, stale>>
    BY <1>14 DEF EndRoot, owner
  <2>3. KeepsBinding
    BY <1>14, HaltEffects DEF Types, MayHalt
  <2> QED BY <2>2, <2>3, Settles DEF Settles, KeepsBinding
<1>15. CASE RootAnswer
  <2>2. UNCHANGED <<settle, cont, stale>>
    BY <1>15 DEF RootAnswer, owner
  <2>3. settle = None
    BY <1>15, TasksApart DEF RootAnswer, Handles
  <2> QED BY <2>2, <2>3 DEF Settles
<1>16. CASE RootEnded
  <2>2. UNCHANGED <<settle, stale>>
    BY <1>16 DEF RootEnded, owner
  <2>3. KeepsBinding
    BY <1>16, HaltEffects DEF Types, MayHalt, KeepsBinding
  <2>4. CASE settle = None
    BY <2>2, <2>4 DEF Settles
  <2>5. CASE UNCHANGED <<cont, handle>>
    BY <2>2, <2>3, <2>5, Settles DEF Settles, KeepsBinding
  <2>6. result[Root] = "SUCCESSOR" => settle = None
    BY TasksApart DEF Successors
  <2> QED BY <1>16, <2>4, <2>5, <2>6 DEF RootEnded
<1>17. CASE SettleConfirm
  <2>2. UNCHANGED <<stale, store>>
    BY <1>17 DEF SettleConfirm, owner
  <2>3. settle \in Settlements
    BY <1>17 DEF Types, SettleConfirm
  <2>4. settle.base \in Nat /\ settle.empty \in BOOLEAN /\ store.rev \in Nat
    BY <2>3, SettleFields, StoreFields DEF Types
  <2>5. settle.pc = "confirm" /\ Confirms(Confirmation, "adopt")
    BY <1>17, SettlementEffects DEF Types
  <2> QED BY <2>2, <2>3, <2>4, <2>5, SettleFields, Settles DEF Settles, SettleTo,
     ContTo, AdoptedResults, Confirms, Confirmation
<1>18. CASE SettleReconfirm
  <2>2. UNCHANGED <<stale, store>>
    BY <1>18 DEF SettleReconfirm, owner
  <2>3. settle \in Settlements
    BY <1>18 DEF Types, SettleReconfirm
  <2>4. settle.base \in Nat /\ settle.empty \in BOOLEAN /\ store.rev \in Nat
    BY <2>3, SettleFields, StoreFields DEF Types
  <2>5. settle.pc = "reconfirm" /\ Confirms(Confirmation, "none")
    BY <1>18, SettlementEffects DEF Types
  <2> QED BY <2>2, <2>3, <2>4, <2>5, SettleFields, Settles DEF Settles, SettleTo,
     ContTo, AdoptedResults, Confirms, Confirmation
<1>19. CASE SettleAdopt
  <2>2. UNCHANGED <<stale>>
    BY <1>19 DEF SettleAdopt, owner
  <2>3. settle \in Settlements
    BY <1>19 DEF Types, SettleAdopt
  <2>4. settle.base \in Nat /\ settle.empty \in BOOLEAN /\ store.rev \in Nat
    BY <2>3, SettleFields, StoreFields DEF Types
  <2>5. settle.pc = "adopt" /\ Adopting
    BY <1>19, SettlementEffects DEF Types
  <2>6. store' = Adopted => store'.rev = store.rev + 1 /\ store'.by = settle.owner
    BY <2>3, AdoptedFields DEF Types
  <2>7. AdoptPrecondition => store.rev = settle.base
    BY DEF AdoptPrecondition
  <2> QED BY <2>2, <2>3, <2>4, <2>5, <2>6, <2>7, SettleFields, Settles
    DEF Settles, SettleTo, ContTo, AdoptedResults, Adopting, Confirms
<1>20. CASE SettleHooks
  <2>2. UNCHANGED <<stale, store>>
    BY <1>20 DEF SettleHooks, owner
  <2>3. settle \in Settlements
    BY <1>20 DEF Types, SettleHooks
  <2>4. settle.base \in Nat /\ settle.empty \in BOOLEAN /\ store.rev \in Nat
    BY <2>3, SettleFields, StoreFields DEF Types
  <2>5. settle.pc = "hooks" /\ AfterHooks
    BY <1>20, SettlementEffects DEF Types
  <2> QED BY <2>2, <2>3, <2>4, <2>5, SettleFields, Settles DEF Settles, SettleTo,
     ContTo, AdoptedResults, AfterHooks, Retires
<1>21. CASE SettleStatus
  <2>2. UNCHANGED <<stale, store>>
    BY <1>21 DEF SettleStatus, owner
  <2>3. settle \in Settlements
    BY <1>21 DEF Types, SettleStatus
  <2>4. settle.base \in Nat /\ settle.empty \in BOOLEAN /\ store.rev \in Nat
    BY <2>3, SettleFields, StoreFields DEF Types
  <2>5. settle.pc = "status" /\ AfterStatus
    BY <1>21, SettlementEffects DEF Types
  <2> QED BY <2>2, <2>3, <2>4, <2>5, SettleFields, Settles DEF Settles, SettleTo,
     ContTo, AdoptedResults, AfterStatus, Retires
<1>22. CASE SettleRotate
  <2>2. UNCHANGED <<stale, store>>
    BY <1>22 DEF SettleRotate, owner
  <2>3. settle \in Settlements
    BY <1>22 DEF Types, SettleRotate
  <2>4. settle.base \in Nat /\ settle.empty \in BOOLEAN /\ store.rev \in Nat
    BY <2>3, SettleFields, StoreFields DEF Types
  <2>5. settle.pc = "rotate" /\ AfterRotate
    BY <1>22, SettlementEffects DEF Types
  <2> QED BY <2>2, <2>3, <2>4, <2>5, SettleFields, Settles DEF Settles, SettleTo,
     ContTo, AdoptedResults, AfterRotate, Retires
<1>23. CASE CloseDone
  <2>2. UNCHANGED <<settle, handle, stale, store>>
    BY <1>23 DEF CloseDone, owner
  <2>3. settle = None
    BY <1>23 DEF CloseDone
  <2> QED BY <2>2, <2>3 DEF Settles
<1>24. CASE Takeover
  <2>2. UNCHANGED <<settle, cont, handle>>
    BY <1>24 DEF Takeover
  <2>3. stale'
    BY <1>24 DEF Takeover
  <2> QED BY <2>2, <2>3, Settles DEF Settles
<1>25. CASE Crash
  BY <1>25, Settles DEF Crash, NoPlan, Settles
<1>26. CASE \/ \E t \in Tasks : AcquireLane(t) \/ CancelBeforeFence(t) \/ Install(t)
                  \/ Remove(t) \/ RemoveCancelled(t)
            \/ \E c \in Commands : RequestCommand(c) \/ QuerySlowly(c) \/ RequestLate(c)
                  \/ StopCommand(c) \/ CommandCheck(c) \/ CommandConfirm(c)
                  \/ CommandRequest(c) \/ CommandClaim(c) \/ CommandEnded(c)
                  \/ CommandSettle(c)
            \/ \E w \in Writers : WriterReserve(w) \/ WriterCompact(w) \/ WriterRelease(w)
            \/ Deliver \/ RootCompact \/ StopTurn \/ BeginClose \/ OwnerClose
  <2>1. UNCHANGED <<settle, cont, handle, stale, store>>
    BY <1>26 DEF AcquireLane, CancelBeforeFence, Install, Remove, RemoveCancelled,
       RequestCommand, QuerySlowly, RequestLate, StopCommand, CommandCheck,
       CommandConfirm, CommandRequest, CommandClaim, CommandEnded, CommandSettle,
       WriterReserve, WriterCompact, WriterRelease, Deliver, RootCompact, StopTurn,
       BeginClose, OwnerClose, owner
  <2> QED BY <2>1, Settles DEF Settles
<1>27. CASE ReconfirmRaises
  <2>2. UNCHANGED <<stale, store>>
    BY <1>27 DEF ReconfirmRaises, owner
  <2>3. settle \in Settlements
    BY <1>27 DEF Types, ReconfirmRaises
  <2>4. settle.base \in Nat /\ settle.empty \in BOOLEAN /\ store.rev \in Nat
    BY <2>3, SettleFields, StoreFields DEF Types
  <2>5. settle.pc = "reconfirm" /\ Abandons
    BY <1>27, SettlementEffects DEF Types
  <2> QED BY <2>2, <2>3, <2>4, <2>5, SettleFields, Settles DEF Settles, SettleTo,
     ContTo, AdoptedResults, Abandons
<1> QED
  BY <1>1, <1>2, <1>3, <1>4, <1>5, <1>6, <1>7, <1>8, <1>9, <1>10, <1>11, <1>12, <1>13,
     <1>14, <1>15, <1>16, <1>17, <1>18, <1>19, <1>20, <1>21, <1>22, <1>23, <1>24, <1>25,
     <1>26, <1>27
  DEF Next, Attempt, CommandStep, WriterStep, RootStep, Settlement

(* A slot that nobody is replacing stands on the bound base. *)
LEMMA SlotStep ==
    ASSUME Types, Lanes, Places, Roots, Alone, Handles, Successors, Settles, Slot, Next
    PROVE  Slot'
<1>1. ASSUME NEW t \in Tasks, AcquireLane(t) PROVE Slot'
  <2>1. Moves(t, "lane", {"install"})
    BY <1>1, AttemptsMoves
  <2>2. UNCHANGED <<host, stale, store, cont, handle, settle>>
    BY <1>1 DEF AcquireLane, owner
  <2> QED BY <2>1, <2>2, Types, Slot, TasksApart, HoldersApart DEF Moves, Types, Slot,
     SlotGivenBack, OwnerClosing
<1>2. ASSUME NEW t \in Tasks, CancelBeforeFence(t) PROVE Slot'
  <2>1. \E p \in {"lane", "install"} : Moves(t, p, {"ended"})
    BY <1>2, AttemptsMoves
  <2>2. UNCHANGED <<host, stale, store, cont, handle, settle>>
    BY <1>2 DEF CancelBeforeFence, owner
  <2> QED BY <2>1, <2>2, Types, Slot, TasksApart, HoldersApart DEF Moves, Types, Slot,
     SlotGivenBack, OwnerClosing
<1>3. ASSUME NEW t \in Tasks, Install(t) PROVE Slot'
  <2>1. Moves(t, "install", {"freeze", "ended"})
    BY <1>3, AttemptsMoves
  <2>2. UNCHANGED <<host, stale, store, cont, handle, settle>>
    BY <1>3 DEF Install, owner
  <2> QED BY <2>1, <2>2, Types, Slot, TasksApart, HoldersApart DEF Moves, Types, Slot,
     SlotGivenBack, OwnerClosing
<1>4. ASSUME NEW t \in Tasks, Freeze(t) PROVE Slot'
  <2>1. Moves(t, "freeze", {"plan", "remove"})
    BY <1>4, AttemptsMoves
  <2>2. UNCHANGED <<host, stale, store, cont, settle>>
    BY <1>4 DEF Freeze, owner
  <2>3. handle # "successor" \/ handle' = handle
    BY <1>4, HoldersApart DEF Freeze, Leave
  <2> QED BY <2>1, <2>2, <2>3, Types, Slot, TasksApart, HoldersApart DEF Types, Slot,
     SlotGivenBack, OwnerClosing, Moves
<1>5. ASSUME NEW t \in Tasks, Plan(t) PROVE Slot'
  <2>1. Moves(t, "plan", {"stream", "remove"})
    BY <1>5, AttemptsMoves
  <2>2. UNCHANGED <<host, stale, store, cont, settle>>
    BY <1>5 DEF Plan, owner
  <2>3. pc[t] \in Held
    BY <2>1 DEF Moves, Held
  <2>4. handle = t /\ pc[Root] # "model"
    BY <2>3, HeldAlone
  <2> QED BY <2>1, <2>2, <2>4, Types, Slot, TasksApart, HoldersApart DEF Types, Slot,
     SlotGivenBack, OwnerClosing, Moves
<1>6. ASSUME NEW t \in Tasks, Stream(t) PROVE Slot'
  <2>1. \E p \in {"stream", "repair"} : Moves(t, p, {"repair", "fit", "remove"})
    BY <1>6, AttemptsMoves
  <2>2. UNCHANGED <<host, stale, store, cont, settle>>
    BY <1>6 DEF Stream, owner
  <2>3. pc[t] \in Held
    BY <2>1 DEF Moves, Held
  <2>4. handle = t /\ pc[Root] # "model"
    BY <2>3, HeldAlone
  <2> QED BY <2>1, <2>2, <2>4, Types, Slot, TasksApart, HoldersApart DEF Types, Slot,
     SlotGivenBack, OwnerClosing, Moves
<1>7. ASSUME NEW t \in Tasks, Fit(t) PROVE Slot'
  <2>1. Moves(t, "fit", {"freeze", "join", "remove"})
    BY <1>7, AttemptsMoves
  <2>2. UNCHANGED <<host, stale, store>>
    BY <1>7 DEF Fit, owner
  <2>3. pc[t] \in Held
    BY <2>1 DEF Moves, Held
  <2>4. handle = t /\ settle = None /\ pc[Root] # "model"
    BY <2>3, HeldAlone
  <2>5. CASE cont' = cont /\ settle' = settle
    BY <2>1, <2>2, <2>4, <2>5, Types, Slot, TasksApart, HoldersApart DEF Types, Slot,
       SlotGivenBack, OwnerClosing, Moves
  <2>6. CASE settle' = Settling(t)
    <3>1. settle' # None
      BY <2>6, SettlingFields DEF Types
    <3> QED BY <2>1, <2>2, <2>4, <3>1, Types, Slot, TasksApart, HoldersApart DEF Types,
       Slot, SlotGivenBack, OwnerClosing, Moves
  <2>7. CASE cont' = [cont EXCEPT !.kind = "PENDING"] /\ OwnerClosing
    <3>1. cont'.kind = "PENDING"
      BY <2>7, ContTurns DEF ContTo, Types
    <3> QED BY <2>1, <2>2, <2>4, <2>7, <3>1, Types, Slot, TasksApart,
       HoldersApart DEF Types, Slot, SlotGivenBack, OwnerClosing, Moves
  <2> QED BY <1>7, <2>5, <2>6, <2>7 DEF Fit, Settling
<1>8. ASSUME NEW t \in Tasks, CancelFenced(t) PROVE Slot'
  <2>1. \E p \in {"freeze", "plan", "stream", "repair", "fit"} : Moves(t, p, {"remove"})
    BY <1>8, AttemptsMoves
  <2>2. UNCHANGED <<host, stale, store, cont, settle>>
    BY <1>8 DEF CancelFenced, owner
  <2>3. handle' = IF handle = t THEN None ELSE handle
    BY <1>8 DEF CancelFenced, Leave
  <2> QED BY <2>1, <2>2, <2>3, Types, Slot, TasksApart, HoldersApart DEF Types, Slot,
     SlotGivenBack, OwnerClosing, Moves
<1>9. ASSUME NEW t \in Tasks, Join(t) PROVE Slot'
  <2>1. Moves(t, "join", {"remove"})
    BY <1>9, AttemptsMoves
  <2>2. UNCHANGED <<host, stale, store>>
    BY <1>9 DEF Join, owner
  <2>3. settle # None /\ settle.pc = "done" /\ settle' = None /\ store' = store
    BY <1>9, <2>1 DEF Join, Handles, Moves
  <2>4. pc[Root] # "model"
    BY <2>3, SettlementAlone
  <2>5. settle \in Settlements /\ store.rev \in Nat
    BY <2>3, StoreFields DEF Types
  <2>6. CASE cont' = EmptyOnNewBase
    <3>1. ContTo("EMPTY", store.rev)
      BY <2>5, <2>6, ContSet DEF EmptyOnNewBase
    <3> QED BY <2>1, <2>2, <2>4, <3>1, Types, Slot, TasksApart, HoldersApart DEF Types,
       Slot, SlotGivenBack, OwnerClosing, Moves, ContTo
  <2>7. CASE UNCHANGED <<handle, cont>>
    <3>1. ~stale => /\ cont.kind \in {"EMPTY", "INSTALLED", "ABANDONED"}
                    /\ cont.kind = "INSTALLED" =>
                          handle = "successor" \/ cont.base = store.rev
      BY <2>3, <2>5 DEF Settles, AdoptedResults, Successors
    <3> QED BY <2>1, <2>2, <2>3, <2>4, <2>7, <3>1, Types, Slot, TasksApart,
       HoldersApart DEF Types, Slot, SlotGivenBack, OwnerClosing, Moves
  <2> QED BY <1>9, <2>6, <2>7 DEF Join
<1>10. ASSUME NEW t \in Tasks, Remove(t) PROVE Slot'
  <2>1. Moves(t, "remove", {"ended"})
    BY <1>10, AttemptsMoves
  <2>2. UNCHANGED <<host, stale, store, cont, handle, settle>>
    BY <1>10 DEF Remove, owner
  <2> QED BY <2>1, <2>2, Types, Slot, TasksApart, HoldersApart DEF Moves, Types, Slot,
     SlotGivenBack, OwnerClosing
<1>11. ASSUME NEW t \in Tasks, RemoveCancelled(t) PROVE Slot'
  <2>1. Moves(t, "remove", {"ended"})
    BY <1>11, AttemptsMoves
  <2>2. UNCHANGED <<host, stale, store, cont, handle, settle>>
    BY <1>11 DEF RemoveCancelled, owner
  <2> QED BY <2>1, <2>2, Types, Slot, TasksApart, HoldersApart DEF Moves, Types, Slot,
     SlotGivenBack, OwnerClosing
<1>12. ASSUME NEW c \in Commands, RequestCommand(c) PROVE Slot'
  <2>1. UNCHANGED pc \/ (Moves(c, "off", {"check"}) /\ Idle /\ host = "open")
    BY <1>12, RequestMoves
  <2>2. UNCHANGED <<host, stale, store, cont, handle, settle>>
    BY <1>12 DEF RequestCommand, owner
  <2> QED BY <2>1, <2>2, Types, Slot, TasksApart, HoldersApart DEF Moves, Types, Slot,
     SlotGivenBack, OwnerClosing, Idle, HasActiveWork
<1>13. ASSUME NEW c \in Commands, RequestLate(c) PROVE Slot'
  <2>1. UNCHANGED pc \/ (Moves(c, "off", {"check"}) /\ Idle /\ host = "open")
    BY <1>13, RequestMoves
  <2>2. UNCHANGED <<host, stale, store, cont, handle, settle>>
    BY <1>13 DEF RequestLate, owner
  <2> QED BY <2>1, <2>2, Types, Slot, TasksApart, HoldersApart DEF Moves, Types, Slot,
     SlotGivenBack, OwnerClosing, Idle, HasActiveWork
<1>14. ASSUME NEW c \in Commands, CommandCheck(c) PROVE Slot'
  <2>1. Moves(c, "check", {"off", "confirm"})
    BY <1>14, CommandMoves
  <2>2. UNCHANGED <<host, stale, store, cont, handle, settle>>
    BY <1>14 DEF CommandCheck, owner
  <2> QED BY <2>1, <2>2, Types, Slot, TasksApart, HoldersApart DEF Moves, Types, Slot,
     SlotGivenBack, OwnerClosing
<1>15. ASSUME NEW c \in Commands, CommandConfirm(c) PROVE Slot'
  <2>1. Moves(c, "confirm", {"off", "request", "accept"})
    BY <1>15, CommandMoves
  <2>2. UNCHANGED <<host, stale, store, cont, handle, settle>>
    BY <1>15 DEF CommandConfirm, owner
  <2> QED BY <2>1, <2>2, Types, Slot, TasksApart, HoldersApart DEF Moves, Types, Slot,
     SlotGivenBack, OwnerClosing
<1>16. ASSUME NEW c \in Commands, CommandAccept(c) PROVE Slot'
  <2>1. Moves(c, "accept", {"off", "request", "confirm"})
    BY <1>16, CommandMoves
  <2>2. UNCHANGED <<host, stale, cont, handle, settle>>
    BY <1>16 DEF CommandAccept, owner
  <2>3. store'.rev = store.rev
    BY <1>16, AcceptEffects DEF Types, MayAccept, KeepsBinding
  <2> QED BY <2>1, <2>2, <2>3, Types, Slot, TasksApart, HoldersApart DEF Types, Slot,
     SlotGivenBack, OwnerClosing, Moves
<1>17. ASSUME NEW c \in Commands, CommandRequest(c) PROVE Slot'
  <2>1. Moves(c, "request", {"off", "settle", "claim"})
    BY <1>17, CommandMoves
  <2>2. UNCHANGED <<host, stale, store, cont, handle, settle>>
    BY <1>17 DEF CommandRequest, owner
  <2> QED BY <2>1, <2>2, Types, Slot, TasksApart, HoldersApart DEF Moves, Types, Slot,
     SlotGivenBack, OwnerClosing
<1>18. ASSUME NEW c \in Commands, CommandClaim(c) PROVE Slot'
  <2>1. Moves(c, "claim", {"off", "lane"})
    BY <1>18, CommandMoves
  <2>2. UNCHANGED <<host, stale, store, cont, handle, settle>>
    BY <1>18 DEF CommandClaim, owner
  <2> QED BY <2>1, <2>2, Types, Slot, TasksApart, HoldersApart DEF Moves, Types, Slot,
     SlotGivenBack, OwnerClosing
<1>19. ASSUME NEW c \in Commands, CommandEnded(c) PROVE Slot'
  <2>1. Moves(c, "ended", {"settle"})
    BY <1>19, CommandMoves
  <2>2. UNCHANGED <<host, stale, store, cont, handle, settle>>
    BY <1>19 DEF CommandEnded, owner
  <2> QED BY <2>1, <2>2, Types, Slot, TasksApart, HoldersApart DEF Moves, Types, Slot,
     SlotGivenBack, OwnerClosing
<1>20. ASSUME NEW c \in Commands, CommandSettle(c) PROVE Slot'
  <2>1. Moves(c, "settle", {"off"})
    BY <1>20, CommandMoves
  <2>2. UNCHANGED <<host, stale, store, cont, handle, settle>>
    BY <1>20 DEF CommandSettle, owner
  <2> QED BY <2>1, <2>2, Types, Slot, TasksApart, HoldersApart DEF Moves, Types, Slot,
     SlotGivenBack, OwnerClosing
<1>21. ASSUME NEW w \in Writers, WriterReserve(w) PROVE Slot'
  <2>1. Moves(w, "off", {"hold"})
    BY <1>21, WriterMoves
  <2>2. UNCHANGED <<host, stale, store, cont, handle, settle>>
    BY <1>21 DEF WriterReserve, owner
  <2> QED BY <2>1, <2>2, Types, Slot, TasksApart, HoldersApart DEF Moves, Types, Slot,
     SlotGivenBack, OwnerClosing
<1>22. ASSUME NEW w \in Writers, WriterCompact(w) PROVE Slot'
  <2>1. Moves(w, "hold", {"lane"})
    BY <1>22, WriterMoves
  <2>2. UNCHANGED <<host, stale, store, cont, handle, settle>>
    BY <1>22 DEF WriterCompact, owner
  <2> QED BY <2>1, <2>2, Types, Slot, TasksApart, HoldersApart DEF Moves, Types, Slot,
     SlotGivenBack, OwnerClosing
<1>23. ASSUME NEW w \in Writers, WriterWrite(w) PROVE Slot'
  <2>1. Moves(w, "hold", {"release"})
    BY <1>23, WriterMoves
  <2>2. UNCHANGED <<host, stale, cont, handle, settle>>
    BY <1>23 DEF WriterWrite, owner
  <2>3. store'.rev = store.rev
    BY <1>23, AppendEffects DEF Types, MayAppend, KeepsBinding
  <2> QED BY <2>1, <2>2, <2>3, Types, Slot, TasksApart, HoldersApart DEF Types, Slot,
     SlotGivenBack, OwnerClosing, Moves
<1>24. ASSUME NEW w \in Writers, WriterRelease(w) PROVE Slot'
  <2>1. Moves(w, "release", {"off"})
    BY <1>24, WriterMoves
  <2>2. UNCHANGED <<host, stale, store, cont, handle, settle>>
    BY <1>24 DEF WriterRelease, owner
  <2> QED BY <2>1, <2>2, Types, Slot, TasksApart, HoldersApart DEF Moves, Types, Slot,
     SlotGivenBack, OwnerClosing
<1>25. ASSUME NEW w \in Writers, WriterEnded(w) PROVE Slot'
  <2>1. Moves(w, "ended", {"release"})
    BY <1>25, WriterMoves
  <2>2. UNCHANGED <<host, stale, settle>>
    BY <1>25 DEF WriterEnded, owner
  <2>3. store'.rev = store.rev /\ store.rev \in Nat
    BY <1>25, AppendEffects, StoreFields DEF Types, MayAppend, KeepsBinding
  <2>4. CASE handle = "successor" /\ cont' = [kind |-> "EMPTY", base |-> store.rev]
    <3>1. ContTo("EMPTY", store.rev)
      BY <2>3, <2>4, ContSet
    <3>2. pc'[Root] # "model"
      BY <2>1, <2>4, TasksApart, HoldersApart DEF Moves, Handles, Types
    <3> QED BY <2>1, <2>2, <2>3, <3>1, <3>2, Types, Slot, TasksApart,
       HoldersApart DEF Types, Slot, SlotGivenBack, OwnerClosing, Moves, ContTo
  <2>5. CASE UNCHANGED <<handle, cont>>
    BY <2>1, <2>2, <2>3, <2>5, Types, Slot, TasksApart, HoldersApart DEF Types, Slot,
       SlotGivenBack, OwnerClosing, Moves
  <2> QED BY <1>25, <2>4, <2>5 DEF WriterEnded
<1>26. CASE SubmitPrompt
  <2>2. UNCHANGED <<host, stale, cont, handle, settle, pc>>
    BY <1>26 DEF SubmitPrompt, owner
  <2>3. store'.rev = store.rev
    BY <1>26, SubmitFields DEF Types, KeepsTurn, KeepsBinding
  <2> QED BY <2>2, <2>3, Types, Slot, TasksApart, HoldersApart DEF Types, Slot,
     SlotGivenBack, OwnerClosing, Moves
<1>27. CASE Deliver
  <2>1. Moves(Root, "off", {"admit"})
    BY <1>27, RootMoves
  <2>2. UNCHANGED <<host, stale, store, cont, handle, settle>>
    BY <1>27 DEF Deliver, owner
  <2> QED BY <2>1, <2>2, Types, Slot, TasksApart, HoldersApart DEF Moves, Types, Slot,
     SlotGivenBack, OwnerClosing
<1>28. CASE RootAppend
  <2>2. UNCHANGED <<host, stale, cont, handle, settle, pc>>
    BY <1>28 DEF RootAppend, owner
  <2>3. store'.rev = store.rev
    BY <1>28, AppendEffects DEF Types, MayAppend, KeepsBinding
  <2> QED BY <2>2, <2>3, Types, Slot, TasksApart, HoldersApart DEF Types, Slot,
     SlotGivenBack, OwnerClosing, Moves
<1>29. CASE RootDispatch
  <2>1. Moves(Root, "run", {"model"})
    BY <1>29, RootMoves
  <2>2. UNCHANGED <<host, stale, store, settle>>
    BY <1>29 DEF RootDispatch, owner
  <2>3. settle = None /\ store.rev \in Nat
    BY <1>29, DispatchAlone, StoreFields DEF Types
  <2>4. handle = None /\ handle' = Root
    BY <1>29 DEF RootDispatch
  <2>5. CASE cont.kind = "INSTALLED" /\ cont' = cont
    <3>1. ~stale => cont.base = store.rev
      BY <2>3, <2>4, <2>5, HoldersApart DEF Slot
    <3> QED BY <2>1, <2>2, <2>3, <2>4, <2>5, <3>1, Types, Slot, TasksApart,
       HoldersApart DEF Types, Slot, SlotGivenBack, OwnerClosing, Moves
  <2>6. CASE cont' = [kind |-> "INSTALLED", base |-> store.rev]
    <3>1. ContTo("INSTALLED", store.rev)
      BY <2>3, <2>6, ContSet
    <3> QED BY <2>1, <2>2, <2>3, <2>4, <2>6, <3>1, Types, Slot, TasksApart,
       HoldersApart DEF Types, Slot, SlotGivenBack, OwnerClosing, Moves, ContTo
  <2> QED BY <1>29, <2>5, <2>6 DEF RootDispatch
<1>30. CASE RootCompact
  <2>1. Moves(Root, "run", {"lane"})
    BY <1>30, RootMoves
  <2>2. UNCHANGED <<host, stale, store, cont, handle, settle>>
    BY <1>30 DEF RootCompact, owner
  <2> QED BY <2>1, <2>2, Types, Slot, TasksApart, HoldersApart DEF Moves, Types, Slot,
     SlotGivenBack, OwnerClosing
<1>31. CASE StartTurn
  <2>1. Moves(Root, "admit", {"run"})
    BY <1>31, RootMoves
  <2>2. UNCHANGED <<host, stale, cont, handle, settle>>
    BY <1>31 DEF StartTurn, owner
  <2>3. store.pending > 0
    BY <1>31, <2>1 DEF Moves, Roots
  <2>4. store'.rev = store.rev
    BY <1>31, <2>3, StartFields DEF Types
  <2> QED BY <2>1, <2>2, <2>4, Types, Slot, TasksApart, HoldersApart DEF Types, Slot,
     SlotGivenBack, OwnerClosing, Moves
<1>32. CASE EndRoot
  <2>1. \E p \in {"run", "admit"} : Moves(Root, p, {"off"})
    BY <1>32, RootMoves
  <2>2. UNCHANGED <<host, stale, cont, handle, settle>>
    BY <1>32 DEF EndRoot, owner
  <2>3. store'.rev = store.rev
    BY <1>32, HaltEffects DEF Types, MayHalt, KeepsBinding
  <2> QED BY <2>1, <2>2, <2>3, Types, Slot, TasksApart, HoldersApart DEF Types, Slot,
     SlotGivenBack, OwnerClosing, Moves
<1>33. CASE RootAnswer
  <2>1. Moves(Root, "model", {"run"})
    BY <1>33, RootMoves
  <2>2. UNCHANGED <<host, stale, cont, settle>>
    BY <1>33 DEF RootAnswer, owner
  <2>3. store'.rev = store.rev /\ handle = Root
    BY <1>33, AppendEffects DEF Types, MayAppend, KeepsBinding, RootAnswer, Handles
  <2> QED BY <2>1, <2>2, <2>3, Types, Slot, TasksApart, HoldersApart DEF Types, Slot,
     SlotGivenBack, OwnerClosing, Moves
<1>34. CASE RootEnded
  <2>1. Moves(Root, "ended", {"model", "run", "off"})
    BY <1>34, RootMoves
  <2>2. UNCHANGED <<host, stale, settle>>
    BY <1>34 DEF RootEnded, owner
  <2>3. store'.rev = store.rev /\ store.rev \in Nat
    BY <1>34, HaltEffects, StoreFields DEF Types, MayHalt, KeepsBinding
  <2>4. CASE cont' = [kind |-> "INSTALLED", base |-> store.rev]
    <3>1. ContTo("INSTALLED", store.rev)
      BY <2>3, <2>4, ContSet
    <3> QED BY <2>1, <2>2, <2>3, <2>4, <3>1, Types, Slot, TasksApart,
       HoldersApart DEF Types, Slot, SlotGivenBack, OwnerClosing, Moves, ContTo
  <2>5. CASE UNCHANGED <<handle, cont>> /\ pc'[Root] # "model"
    BY <2>1, <2>2, <2>3, <2>5, Types, Slot, TasksApart, HoldersApart DEF Types, Slot,
       SlotGivenBack, OwnerClosing, Moves
  <2> QED BY <1>34, <2>4, <2>5, TasksApart DEF RootEnded, Goto, Types
<1>35. CASE SettleConfirm
  <2>2. UNCHANGED <<host, stale, store, pc>>
    BY <1>35 DEF SettleConfirm, owner
  <2>3. settle # None
    BY <1>35 DEF SettleConfirm
  <2>4. pc[Root] # "model"
    BY <2>3, SettlementAlone
  <2>5. Confirms(Confirmation, "adopt")
    BY <1>35, SettlementEffects DEF Types
  <2>6. settle' \in Settlements
    BY <2>5 DEF SettleTo, Confirms
  <2>7. settle' # None
    BY <2>6, SettleFields
  <2> QED BY <2>2, <2>4, <2>7 DEF Slot, SlotGivenBack, OwnerClosing
<1>36. CASE SettleReconfirm
  <2>2. UNCHANGED <<host, stale, store, pc>>
    BY <1>36 DEF SettleReconfirm, owner
  <2>3. settle # None
    BY <1>36 DEF SettleReconfirm
  <2>4. pc[Root] # "model"
    BY <2>3, SettlementAlone
  <2>5. Confirms(Confirmation, "none")
    BY <1>36, SettlementEffects DEF Types
  <2>6. settle' \in Settlements
    BY <2>5 DEF SettleTo, Confirms
  <2>7. settle' # None
    BY <2>6, SettleFields
  <2> QED BY <2>2, <2>4, <2>7 DEF Slot, SlotGivenBack, OwnerClosing
<1>37. CASE SettleAdopt
  <2>2. UNCHANGED <<host, stale, pc>>
    BY <1>37 DEF SettleAdopt, owner
  <2>3. settle # None
    BY <1>37 DEF SettleAdopt
  <2>4. pc[Root] # "model"
    BY <2>3, SettlementAlone
  <2>5. Adopting
    BY <1>37, SettlementEffects DEF Types
  <2>6. settle' \in Settlements
    BY <2>5 DEF SettleTo, Adopting, Confirms
  <2>7. settle' # None
    BY <2>6, SettleFields
  <2> QED BY <2>2, <2>4, <2>7 DEF Slot, SlotGivenBack, OwnerClosing
<1>38. CASE SettleHooks
  <2>2. UNCHANGED <<host, stale, store, pc>>
    BY <1>38 DEF SettleHooks, owner
  <2>3. settle # None
    BY <1>38 DEF SettleHooks
  <2>4. pc[Root] # "model"
    BY <2>3, SettlementAlone
  <2>5. AfterHooks
    BY <1>38, SettlementEffects DEF Types
  <2>6. settle' \in Settlements
    BY <2>5 DEF SettleTo, AfterHooks, Retires
  <2>7. settle' # None
    BY <2>6, SettleFields
  <2> QED BY <2>2, <2>4, <2>7 DEF Slot, SlotGivenBack, OwnerClosing
<1>39. CASE SettleStatus
  <2>2. UNCHANGED <<host, stale, store, pc>>
    BY <1>39 DEF SettleStatus, owner
  <2>3. settle # None
    BY <1>39 DEF SettleStatus
  <2>4. pc[Root] # "model"
    BY <2>3, SettlementAlone
  <2>5. AfterStatus
    BY <1>39, SettlementEffects DEF Types
  <2>6. settle' \in Settlements
    BY <2>5 DEF SettleTo, AfterStatus, Retires
  <2>7. settle' # None
    BY <2>6, SettleFields
  <2> QED BY <2>2, <2>4, <2>7 DEF Slot, SlotGivenBack, OwnerClosing
<1>40. CASE SettleRotate
  <2>2. UNCHANGED <<host, stale, store, pc>>
    BY <1>40 DEF SettleRotate, owner
  <2>3. settle # None
    BY <1>40 DEF SettleRotate
  <2>4. pc[Root] # "model"
    BY <2>3, SettlementAlone
  <2>5. AfterRotate
    BY <1>40, SettlementEffects DEF Types
  <2>6. settle' \in Settlements
    BY <2>5 DEF SettleTo, AfterRotate, Retires
  <2>7. settle' # None
    BY <2>6, SettleFields
  <2> QED BY <2>2, <2>4, <2>7 DEF Slot, SlotGivenBack, OwnerClosing
<1>41. CASE BeginClose
  <2>2. UNCHANGED <<stale, store, cont, handle, settle, pc>>
    BY <1>41 DEF BeginClose, owner
  <2> QED BY <1>41, <2>2, Types, Slot, TasksApart, HoldersApart DEF BeginClose, Types,
     Slot, SlotGivenBack, OwnerClosing, Moves
<1>42. CASE OwnerClose
  <2>2. UNCHANGED <<stale, store, cont, handle, settle, pc>>
    BY <1>42 DEF OwnerClose, owner
  <2> QED BY <1>42, <2>2, Types, Slot, TasksApart, HoldersApart DEF OwnerClose, Types,
     Slot, SlotGivenBack, OwnerClosing, Moves
<1>43. CASE CloseDone
  <2>2. UNCHANGED <<stale, store, handle, settle, pc>>
    BY <1>43 DEF CloseDone, owner
  <2>3. host' = "closed" /\ pc[Root] = "off" /\ cont' = [cont EXCEPT !.kind = "CLOSED"]
    BY <1>43, TasksApart DEF CloseDone
  <2>4. cont'.kind = "CLOSED"
    BY <2>3, ContTurns DEF ContTo, Types
  <2> QED BY <2>2, <2>3, <2>4, Types, Slot, TasksApart, HoldersApart DEF Types, Slot,
     SlotGivenBack, OwnerClosing, Moves
<1>44. CASE Takeover
  <2>2. UNCHANGED <<host, cont, handle, settle, pc>>
    BY <1>44 DEF Takeover, owner
  <2>3. stale'
    BY <1>44 DEF Takeover
  <2> QED BY <2>2, <2>3, Types, Slot, TasksApart, HoldersApart DEF Types, Slot,
     SlotGivenBack, OwnerClosing, Moves
<1>45. CASE Crash
  <2>1. host' = "open" /\ handle' = None /\ pc'[Root] = "off"
    BY <1>45, TasksApart DEF Crash
  <2>2. cont' = [kind |-> "EMPTY", base |-> store.rev] /\ store.rev \in Nat
    BY <1>45, StoreFields DEF Crash, Types
  <2>3. ContTo("EMPTY", store.rev)
    BY <2>2, ContSet
  <2> QED BY <2>1, <2>3 DEF Slot, SlotGivenBack, ContTo
<1>46. CASE \/ \E c \in Commands : QuerySlowly(c) \/ StopCommand(c)
            \/ StopTurn
  <2>1. UNCHANGED <<host, stale, store, cont, handle, settle, pc>>
    BY <1>46 DEF QuerySlowly, StopCommand, StopTurn, owner
  <2> QED BY <2>1, Types, Slot, TasksApart, HoldersApart DEF Types, Slot,
     SlotGivenBack, OwnerClosing, Moves
<1>47. CASE ReconfirmRaises
  <2>2. UNCHANGED <<host, stale, store, pc>>
    BY <1>47 DEF ReconfirmRaises, owner
  <2>3. settle # None
    BY <1>47 DEF ReconfirmRaises
  <2>4. pc[Root] # "model"
    BY <2>3, SettlementAlone
  <2>5. Abandons
    BY <1>47, SettlementEffects DEF Types
  <2>6. settle' \in Settlements
    BY <2>5 DEF SettleTo, Abandons
  <2>7. settle' # None
    BY <2>6, SettleFields
  <2> QED BY <2>2, <2>4, <2>7 DEF Slot, SlotGivenBack, OwnerClosing
<1> QED
  BY <1>1, <1>2, <1>3, <1>4, <1>5, <1>6, <1>7, <1>8, <1>9, <1>10, <1>11, <1>12, <1>13,
     <1>14, <1>15, <1>16, <1>17, <1>18, <1>19, <1>20, <1>21, <1>22, <1>23, <1>24, <1>25,
     <1>26, <1>27, <1>28, <1>29, <1>30, <1>31, <1>32, <1>33, <1>34, <1>35, <1>36, <1>37,
     <1>38, <1>39, <1>40, <1>41, <1>42, <1>43, <1>44, <1>45, <1>46, <1>47
  DEF Next, Attempt, CommandStep, WriterStep, RootStep, Settlement

(* Nobody gets hold of an abandoned slot, and one in use is not abandoned. *)
LEMMA UnusedStep ==
    ASSUME Types, Lanes, Places, Handles, Successors, Settles, Unused, Next
    PROVE  Unused'
<1>1. ASSUME NEW t \in Tasks, Freeze(t) PROVE Unused'
  BY <1>1 DEF Freeze, Leave, Unused
<1>2. ASSUME NEW t \in Tasks, Plan(t) \/ Stream(t) PROVE Unused'
  <2>1. pc[t] \in Held /\ cont' = cont
    BY <1>2 DEF Plan, Stream, Held
  <2> QED BY <2>1 DEF Handles, Unused
<1>3. ASSUME NEW t \in Tasks, Fit(t) PROVE Unused'
  <2>1. pc[t] \in Held
    BY <1>3 DEF Fit, Held
  <2>2. cont.kind \in {"EMPTY", "INSTALLED"}
    BY <2>1 DEF Handles
  <2>3. cont' = [cont EXCEPT !.kind = "PENDING"] => cont'.kind = "PENDING"
    BY ContTurns DEF ContTo, Types
  <2> QED BY <1>3, <2>2, <2>3 DEF Fit, Unused
<1>4. ASSUME NEW t \in Tasks, CancelFenced(t) PROVE Unused'
  BY <1>4 DEF CancelFenced, Leave, Unused
<1>5. ASSUME NEW t \in Tasks, Join(t) PROVE Unused'
  BY <1>5 DEF Join, Unused
<1>6. ASSUME NEW w \in Writers, WriterEnded(w) PROVE Unused'
  BY <1>6 DEF WriterEnded, Unused
<1>7. CASE RootDispatch
  BY <1>7 DEF RootDispatch, Unused
<1>8. CASE RootAnswer
  BY <1>8 DEF RootAnswer, Unused
<1>9. CASE RootEnded
  <2>1. cont' = [kind |-> "INSTALLED", base |-> store.rev] => cont'.kind # "ABANDONED"
    OBVIOUS
  <2> QED BY <1>9, <2>1 DEF RootEnded, Unused
<1>10. CASE SettleConfirm
  <2>1. /\ settle.pc = "confirm" /\ Confirms(Confirmation, "adopt")
        /\ cont.kind # "ABANDONED"
    BY <1>10, SettlementEffects DEF SettleConfirm, Settles, Types
  <2> QED BY <2>1 DEF Confirms, ContTo, Unused
<1>11. CASE SettleReconfirm
  <2>1. /\ settle.pc = "reconfirm" /\ Confirms(Confirmation, "none")
        /\ cont.kind # "ABANDONED"
    BY <1>11, SettlementEffects DEF SettleReconfirm, Settles, Types
  <2> QED BY <2>1 DEF Confirms, ContTo, Unused
<1>12. CASE ReconfirmRaises
  BY <1>12 DEF ReconfirmRaises, Unused
<1>13. CASE SettleAdopt
  <2>1. /\ settle.pc = "adopt" /\ Adopting /\ cont.kind # "ABANDONED"
    BY <1>13, SettlementEffects DEF SettleAdopt, Settles, Types
  <2> QED BY <2>1 DEF Adopting, Confirms, ContTo, Unused
<1>14. CASE SettleHooks
  <2>1. /\ settle.pc = "hooks" /\ AfterHooks /\ cont.kind # "ABANDONED"
    BY <1>14, SettlementEffects DEF SettleHooks, Settles, Types
  <2> QED BY <2>1 DEF AfterHooks, Retires, ContTo, Unused
<1>15. CASE SettleStatus
  <2>1. /\ settle.pc = "status" /\ AfterStatus /\ cont.kind # "ABANDONED"
    BY <1>15, SettlementEffects DEF SettleStatus, Settles, Types
  <2> QED BY <2>1 DEF AfterStatus, Retires, ContTo, Unused
<1>16. CASE SettleRotate
  <2>1. /\ settle.pc = "rotate" /\ AfterRotate /\ cont.kind # "ABANDONED"
    BY <1>16, SettlementEffects DEF SettleRotate, Settles, Types
  <2> QED BY <2>1 DEF AfterRotate, Retires, ContTo, Unused
<1>17. CASE CloseDone
  <2>1. cont'.kind = "CLOSED"
    BY <1>17, ContTurns DEF CloseDone, ContTo, Types
  <2> QED BY <2>1 DEF Unused
<1>18. CASE Crash
  BY <1>18 DEF Crash, Unused
<1>19. CASE \/ \E t \in Tasks : AcquireLane(t) \/ CancelBeforeFence(t) \/ Install(t)
                  \/ Remove(t) \/ RemoveCancelled(t)
            \/ \E c \in Commands : RequestCommand(c) \/ QuerySlowly(c) \/ RequestLate(c)
                  \/ StopCommand(c) \/ CommandCheck(c) \/ CommandConfirm(c) \/ CommandAccept(c)
                  \/ CommandRequest(c) \/ CommandClaim(c) \/ CommandEnded(c)
                  \/ CommandSettle(c)
            \/ \E w \in Writers : WriterReserve(w) \/ WriterCompact(w) \/ WriterWrite(w)
                  \/ WriterRelease(w)
            \/ SubmitPrompt \/ Deliver \/ RootAppend \/ RootCompact \/ StartTurn \/ EndRoot
            \/ StopTurn \/ BeginClose \/ OwnerClose \/ Takeover
  <2>1. UNCHANGED <<cont, handle>>
    BY <1>19 DEF AcquireLane, CancelBeforeFence, Install, Remove, RemoveCancelled,
       RequestCommand, QuerySlowly, RequestLate, StopCommand, CommandCheck,
       CommandConfirm, CommandAccept, CommandRequest, CommandClaim, CommandEnded,
       CommandSettle, WriterReserve, WriterCompact, WriterWrite, WriterRelease,
       SubmitPrompt, Deliver, RootAppend, RootCompact, StartTurn, EndRoot, StopTurn,
       BeginClose, OwnerClose, Takeover
  <2> QED BY <2>1 DEF Unused
<1> QED
  BY <1>1, <1>2, <1>3, <1>4, <1>5, <1>6, <1>7, <1>8, <1>9, <1>10, <1>11, <1>12, <1>13,
     <1>14, <1>15, <1>16, <1>17, <1>18, <1>19
  DEF Next, Attempt, CommandStep, WriterStep, RootStep, Settlement

(* A step does nothing to what a command has done or was told. *)
Untouched(d) ==
    /\ pc'[d] = pc[d] /\ ran'[d] = ran[d] /\ result'[d] = result[d] /\ told'[d] = told[d]
    /\ d \in store'.adopted <=> d \in store.adopted
    /\ pc[d] = "join" /\ ~stale' => store'.rev = store.rev /\ settle'.base = settle.base

(* Rows are never deleted, and a lost lease is not won back. *)
Grows == store.rows \subseteq store'.rows /\ (stale => stale')

(* A row that is there stays there. *)
LEMMA RowsStay ==
    ASSUME Grows, NEW c
    PROVE  HasRow(c) => HasRow(c)'
BY DEF Grows, HasRow

(* A step of one task says nothing new of the other commands. *)
LEMMA OnceMoves ==
    ASSUME Types, Once, Grows, UNCHANGED <<asked, outcomes>>,
           NEW t \in Tasks, \A d \in Commands \ {t} : Untouched(d),
           t \in Commands =>
               /\ OnceOf(t)'
               /\ pc[t] = "off" /\ HasRow(t) =>
                     pc'[t] = "off" /\ (t \in store'.adopted <=> t \in store.adopted)
    PROVE  Once'
<1>1. \A d \in Commands : HasRow(d) => HasRow(d)'
  BY RowsStay
<1>2. ASSUME NEW d \in Commands \ {t} PROVE OnceOf(d)'
  <2>1. OnceOf(d) /\ Untouched(d)
    BY <1>2 DEF Once
  <2>2. ran[d] = 1 => HasRow(d)'
    BY <1>1, <2>1 DEF OnceOf
  <2>3. pc'[d] \in Attempting \cup {"request", "claim", "settle"} => HasRow(d)'
    BY <1>1, <2>1 DEF OnceOf, Untouched
  <2> QED BY <2>1, <2>2, <2>3 DEF OnceOf, Untouched, TrueOf, ResultIsTrue, Grows
<1>3. ASSUME NEW i \in 1 .. Len(outcomes) PROVE OutcomeIsTrue(outcomes[i])'
  <2>1. outcomes[i].cmd \in Commands
    <3>1. outcomes[i] \in OutcomeRecords
      BY DEF Types
    <3> QED BY <3>1 DEF OutcomeRecords
  <2> DEFINE d == outcomes[i].cmd
  <2>2. HasRow(d) /\ pc[d] = "off" /\ (~stale => TrueOf(outcomes[i].out, d))
    BY DEF Once, OutcomeIsTrue
  <2>3. pc'[d] = "off" /\ (d \in store'.adopted <=> d \in store.adopted)
    BY <2>1, <2>2 DEF Untouched
  <2>4. HasRow(d)'
    BY <1>1, <2>1, <2>2
  <2> QED BY <2>2, <2>3, <2>4 DEF OutcomeIsTrue, TrueOf, Grows
<1> QED BY <1>2, <1>3 DEF Once

(* A command without an answer of its own is not among the kept outcomes. *)
LEMMA NoOutcomeYet ==
    ASSUME Types, Once, NEW c \in Commands, pc[c] # "off"
    PROVE  OutcomeOf(c) = {}
BY DEF Once, OutcomeIsTrue, OutcomeOf

(* What a word tells and what the result says are the same fact. *)
LEMMA WordOfResult ==
    ASSUME NEW r, NEW c, ResultIsTrue(r, c)
    PROVE  TrueOf(OutcomeWord(r), c)
<1>1. OutcomeWord(r) = "COMPACTED" => r \in {"COMPACTED", "POST_FAILURE"}
  BY DEF OutcomeWord, StopWord
<1>2. OutcomeWord(r) \in {"FAILED", "BUSY", "NOT_NEEDED"} =>
         r \notin {"COMPACTED", "POST_FAILURE", "CANCELLED"}
  BY DEF OutcomeWord, StopWord
<1> QED BY <1>1, <1>2 DEF ResultIsTrue, TrueOf

(* A manual command runs once and its answer agrees with the store. *)
LEMMA OnceStep ==
    ASSUME SlowQuery = FALSE, Types, Lanes, Places, Roots, Alone, Handles, Successors,
       Settles, Slot,
           Once, Next
    PROVE  Once'
<1>1. ASSUME NEW t \in Tasks, AcquireLane(t) PROVE Once'
  <2>1. Moves(t, "lane", {"install"})
    BY <1>1, AttemptsMoves
  <2>2. UNCHANGED <<asked, ran, settle, store, result, told, outcomes, stale>>
    BY <1>1 DEF AcquireLane, owner, manual
  <2>3. \A d \in Commands \ {t} : Untouched(d)
    BY <2>1, <2>2, TasksApart DEF Untouched, Types, Moves
  <2>4. Grows
    BY <2>1, <2>2 DEF Grows
  <2>5. ASSUME t \in Commands PROVE OnceOf(t)'
    <3>1. OnceOf(t)
      BY <2>5 DEF Once
    <3>2. HasRow(t) => HasRow(t)'
      BY <2>4, RowsStay
    <3> QED BY <3>1, <3>2, <2>1, <2>2, <1>1, TasksApart DEF AcquireLane, Goto, OnceOf,
       TrueOf, ResultIsTrue, HasRow, Attempting, Fenced, Held, Moves, Types
  <2> QED BY <2>1, <2>2, <2>3, <2>4, <2>5, OnceMoves, TasksApart DEF Moves
<1>2. ASSUME NEW t \in Tasks, CancelBeforeFence(t) PROVE Once'
  <2>1. \E p \in {"lane", "install"} : Moves(t, p, {"ended"})
    BY <1>2, AttemptsMoves
  <2>2. UNCHANGED <<asked, ran, settle, store, told, outcomes, stale>>
    BY <1>2 DEF CancelBeforeFence, owner, manual
  <2>3. \A d \in Commands \ {t} : Untouched(d)
    BY <2>1, <2>2, <1>2, TasksApart DEF CancelBeforeFence, Goto, Untouched, Types, Moves
  <2>4. Grows
    BY <2>1, <2>2 DEF Grows
  <2>5. ASSUME t \in Commands PROVE OnceOf(t)'
    <3>1. OnceOf(t)
      BY <2>5 DEF Once
    <3>2. HasRow(t) => HasRow(t)'
      BY <2>4, RowsStay
    <3> QED BY <3>1, <3>2, <2>1, <2>2, <1>2, TasksApart DEF CancelBeforeFence, Goto,
       OnceOf, TrueOf, ResultIsTrue, HasRow, Attempting, Fenced, Held, Moves, Types
  <2> QED BY <2>1, <2>2, <2>3, <2>4, <2>5, OnceMoves, TasksApart DEF Moves
<1>3. ASSUME NEW t \in Tasks, Install(t) PROVE Once'
  <2>1. Moves(t, "install", {"freeze", "ended"})
    BY <1>3, AttemptsMoves
  <2>2. UNCHANGED <<asked, settle, store, told, outcomes, stale>>
    BY <1>3 DEF Install, owner, manual
  <2>3. \A d \in Commands \ {t} : Untouched(d)
    BY <2>1, <2>2, <1>3, TasksApart DEF Install, Goto, Untouched, Types, Moves
  <2>4. Grows
    BY <2>1, <2>2 DEF Grows
  <2>5. ASSUME t \in Commands PROVE OnceOf(t)'
    <3>1. OnceOf(t)
      BY <2>5 DEF Once
    <3>2. HasRow(t) => HasRow(t)'
      BY <2>4, RowsStay
    <3>3. HasRow(t)' /\ ran[t] = 0 /\ t \notin store.adopted
      BY <2>1, <2>2, <2>4, <3>1, <3>2 DEF OnceOf, Attempting, Moves
    <3>4. \/ pc'[t] = "freeze" /\ ran'[t] = 1
          \/ (pc'[t] = "ended" /\ ran'[t] = 0 /\ result'[t] = "FAILED")
      BY <2>5, <1>3, <3>3, TasksApart DEF Install, Goto, Types
    <3> QED BY <2>5, <3>1, <3>2, <3>3, <3>4, <2>1, <2>2 DEF OnceOf, TrueOf,
       ResultIsTrue, Attempting, Fenced, Held
  <2> QED BY <2>1, <2>2, <2>3, <2>4, <2>5, OnceMoves, TasksApart DEF Moves
<1>4. ASSUME NEW t \in Tasks, Freeze(t) PROVE Once'
  <2>1. Moves(t, "freeze", {"plan", "remove"})
    BY <1>4, AttemptsMoves
  <2>2. UNCHANGED <<asked, ran, settle, store, told, outcomes, stale>>
    BY <1>4 DEF Freeze, owner, manual
  <2>3. \A d \in Commands \ {t} : Untouched(d)
    BY <2>1, <2>2, <1>4, TasksApart DEF Freeze, Goto, Leave, Untouched, Types, Moves
  <2>4. Grows
    BY <2>1, <2>2 DEF Grows
  <2>5. ASSUME t \in Commands PROVE OnceOf(t)'
    <3>1. OnceOf(t)
      BY <2>5 DEF Once
    <3>2. HasRow(t) => HasRow(t)'
      BY <2>4, RowsStay
    <3> QED BY <3>1, <3>2, <2>1, <2>2, <1>4, TasksApart DEF Freeze, Goto, Leave,
       TargetReady, OnceOf, TrueOf, ResultIsTrue, HasRow, Attempting, Fenced, Held,
       Moves, Types
  <2> QED BY <2>1, <2>2, <2>3, <2>4, <2>5, OnceMoves, TasksApart DEF Moves
<1>5. ASSUME NEW t \in Tasks, Plan(t) PROVE Once'
  <2>1. Moves(t, "plan", {"stream", "remove"})
    BY <1>5, AttemptsMoves
  <2>2. UNCHANGED <<asked, ran, settle, store, told, outcomes, stale>>
    BY <1>5 DEF Plan, owner, manual
  <2>3. \A d \in Commands \ {t} : Untouched(d)
    BY <2>1, <2>2, <1>5, TasksApart DEF Plan, Goto, Leave, Untouched, Types, Moves
  <2>4. Grows
    BY <2>1, <2>2 DEF Grows
  <2>5. ASSUME t \in Commands PROVE OnceOf(t)'
    <3>1. OnceOf(t)
      BY <2>5 DEF Once
    <3>2. HasRow(t) => HasRow(t)'
      BY <2>4, RowsStay
    <3> QED BY <3>1, <3>2, <2>1, <2>2, <1>5, TasksApart DEF Plan, Goto, Leave, Phase,
       OnceOf, TrueOf, ResultIsTrue, HasRow, Attempting, Fenced, Held, Moves, Types
  <2> QED BY <2>1, <2>2, <2>3, <2>4, <2>5, OnceMoves, TasksApart DEF Moves
<1>6. ASSUME NEW t \in Tasks, Stream(t) PROVE Once'
  <2>1. \E p \in {"stream", "repair"} : Moves(t, p, {"repair", "fit", "remove"})
    BY <1>6, AttemptsMoves
  <2>2. UNCHANGED <<asked, ran, settle, store, told, outcomes, stale>>
    BY <1>6 DEF Stream, owner, manual
  <2>3. \A d \in Commands \ {t} : Untouched(d)
    BY <2>1, <2>2, <1>6, TasksApart DEF Stream, Goto, Leave, Untouched, Types, Moves
  <2>4. Grows
    BY <2>1, <2>2 DEF Grows
  <2>5. ASSUME t \in Commands PROVE OnceOf(t)'
    <3>1. OnceOf(t)
      BY <2>5 DEF Once
    <3>2. HasRow(t) => HasRow(t)'
      BY <2>4, RowsStay
    <3> QED BY <3>1, <3>2, <2>1, <2>2, <1>6, TasksApart DEF Stream, Goto, Leave, Phase,
       OnceOf, TrueOf, ResultIsTrue, HasRow, Attempting, Fenced, Held, Moves, Types
  <2> QED BY <2>1, <2>2, <2>3, <2>4, <2>5, OnceMoves, TasksApart DEF Moves
<1>7. ASSUME NEW t \in Tasks, Fit(t) PROVE Once'
  <2>1. Moves(t, "fit", {"freeze", "join", "remove"})
    BY <1>7, AttemptsMoves
  <2>2. UNCHANGED <<asked, ran, store, told, outcomes, stale>>
    BY <1>7 DEF Fit, owner, manual
  <2>3. \A d \in Commands \ {t} : pc[d] # "join"
    BY <2>1, OneFenced, TasksApart DEF Moves, Fenced
  <2>4. \A d \in Commands \ {t} : Untouched(d)
    BY <2>1, <2>2, <1>7, <2>3, TasksApart DEF Fit, Goto, Leave, Untouched, Types, Moves
  <2>5. Grows
    BY <2>1, <2>2, <2>3 DEF Grows
  <2>6. ASSUME t \in Commands PROVE OnceOf(t)'
    <3>1. OnceOf(t)
      BY <2>6 DEF Once
    <3>2. HasRow(t) => HasRow(t)'
      BY <2>5, RowsStay
    <3>3. HasRow(t)' /\ ran'[t] = 1
      BY <2>1, <2>2, <2>3, <2>5, <3>1, <3>2 DEF OnceOf, Attempting, Fenced, Moves
    <3>4. pc[t] \in Held
      BY <2>1 DEF Moves, Held
    <3>5. ~stale => t \notin store.adopted /\ plan[t].base = store.rev
      BY <3>1, <3>4 DEF OnceOf, Handles
    <3>6. \/ pc' = [pc EXCEPT ![t] = "freeze"]
          \/ /\ pc' = [pc EXCEPT ![t] = "remove"]
             /\ \E r \in {"NOT_NEEDED", "FAILED"} : result' = [result EXCEPT ![t] = r]
          \/ pc' = [pc EXCEPT ![t] = "join"] /\ settle' = Settling(t)
      BY <1>7 DEF Fit, Goto, Leave, Settling
    <3>7. \/ pc'[t] = "freeze"
          \/ pc'[t] = "remove" /\ result'[t] \in {"NOT_NEEDED", "FAILED"}
          \/ pc'[t] = "join" /\ settle' = Settling(t)
      BY <3>6, TasksApart DEF Types
    <3>8. settle' = Settling(t) => settle'.base = plan[t].base
      BY SettlingFields DEF Types
    <3>9. store.rev \in Nat
      BY StoreFields DEF Types
    <3> QED BY <2>6, <3>1, <3>2, <3>3, <3>4, <3>5, <3>6, <3>7, <3>8, <3>9, <2>1, <2>2,
       <2>3 DEF OnceOf, TrueOf, ResultIsTrue, Attempting, Fenced, Held
  <2> QED BY <2>1, <2>2, <2>3, <2>4, <2>5, <2>6, OnceMoves, TasksApart DEF Moves
<1>8. ASSUME NEW t \in Tasks, CancelFenced(t) PROVE Once'
  <2>1. \E p \in {"freeze", "plan", "stream", "repair", "fit"} : Moves(t, p, {"remove"})
    BY <1>8, AttemptsMoves
  <2>2. UNCHANGED <<asked, ran, settle, store, told, outcomes, stale>>
    BY <1>8 DEF CancelFenced, owner, manual
  <2>3. \A d \in Commands \ {t} : Untouched(d)
    BY <2>1, <2>2, <1>8, TasksApart DEF CancelFenced, Goto, Leave, Untouched, Types,
       Moves
  <2>4. Grows
    BY <2>1, <2>2 DEF Grows
  <2>5. ASSUME t \in Commands PROVE OnceOf(t)'
    <3>1. OnceOf(t)
      BY <2>5 DEF Once
    <3>2. HasRow(t) => HasRow(t)'
      BY <2>4, RowsStay
    <3> QED BY <3>1, <3>2, <2>1, <2>2, <1>8, TasksApart DEF CancelFenced, Goto, Leave,
       OnceOf, TrueOf, ResultIsTrue, HasRow, Attempting, Fenced, Held, Moves, Types
  <2> QED BY <2>1, <2>2, <2>3, <2>4, <2>5, OnceMoves, TasksApart DEF Moves
<1>9. ASSUME NEW t \in Tasks, Join(t) PROVE Once'
  <2>1. Moves(t, "join", {"remove"})
    BY <1>9, AttemptsMoves
  <2>2. UNCHANGED <<asked, ran, store, told, outcomes, stale>>
    BY <1>9 DEF Join, owner, manual
  <2>3. \A d \in Commands \ {t} : pc[d] # "join"
    BY <2>1, OneFenced, TasksApart DEF Moves, Fenced
  <2>4. \A d \in Commands \ {t} : Untouched(d)
    BY <2>1, <2>2, <1>9, <2>3, TasksApart DEF Join, Goto, Untouched, Types, Moves
  <2>5. Grows
    BY <2>1, <2>2, <2>3 DEF Grows
  <2>6. ASSUME t \in Commands PROVE OnceOf(t)'
    <3>1. OnceOf(t)
      BY <2>6 DEF Once
    <3>2. HasRow(t) => HasRow(t)'
      BY <2>5, RowsStay
    <3>3. settle \in Settlements /\ settle.owner = t
      BY <2>6, <2>1, TasksApart DEF Moves, Handles, Types
    <3>4. settle # None /\ settle.pc = "done"
      BY <1>9, <3>3, SettleFields DEF Join
    <3>5. settle.base \in Nat /\ store.rev \in Nat
      BY <3>3, SettleFields, StoreFields DEF Types
    <3>6. ~stale => (t \in store.adopted <=> store.rev = settle.base + 1)
      BY <2>1, <3>1 DEF OnceOf, Moves
    <3>7. /\ settle.res \in {"COMPACTED", "POST_FAILURE", "FAILED", "STALE"}
          /\ ~stale => /\ settle.res # "STALE"
                       /\ settle.res # "FAILED" => store.rev = settle.base + 1
                       /\ settle.res = "FAILED" => store.rev = settle.base
      BY <2>6, <3>3, <3>4 DEF Settles, AdoptedResults
    <3>8. ~stale => IF settle.res = "FAILED" THEN t \notin store.adopted ELSE t \in store.adopted
      BY <3>5, <3>6, <3>7
    <3>9. ~stale => ResultIsTrue(settle.res, t)
      BY <3>7, <3>8 DEF ResultIsTrue
    <3>10. pc'[t] = "remove" /\ result'[t] \in {settle.res, "CANCELLED"}
      BY <1>9, <2>1, TasksApart DEF Join, Goto, Types
    <3>11. HasRow(t)' /\ ran'[t] = 1
      BY <2>1, <2>2, <2>3, <2>5, <3>1, <3>2 DEF OnceOf, Attempting, Fenced, Moves
    <3> QED BY <2>6, <3>1, <3>2, <3>3, <3>4, <3>5, <3>6, <3>7, <3>8, <3>9, <3>10, <3>11,
       <2>1, <2>2, <2>3 DEF OnceOf, TrueOf, ResultIsTrue, Attempting, Fenced, Held
  <2> QED BY <2>1, <2>2, <2>3, <2>4, <2>5, <2>6, OnceMoves, TasksApart DEF Moves
<1>10. ASSUME NEW t \in Tasks, Remove(t) PROVE Once'
  <2>1. Moves(t, "remove", {"ended"})
    BY <1>10, AttemptsMoves
  <2>2. UNCHANGED <<asked, ran, settle, store, result, told, outcomes, stale>>
    BY <1>10 DEF Remove, owner, manual
  <2>3. \A d \in Commands \ {t} : Untouched(d)
    BY <2>1, <2>2, TasksApart DEF Untouched, Types, Moves
  <2>4. Grows
    BY <2>1, <2>2 DEF Grows
  <2>5. ASSUME t \in Commands PROVE OnceOf(t)'
    <3>1. OnceOf(t)
      BY <2>5 DEF Once
    <3>2. HasRow(t) => HasRow(t)'
      BY <2>4, RowsStay
    <3> QED BY <3>1, <3>2, <2>1, <2>2, <1>10, TasksApart DEF Remove, Goto, OnceOf,
       TrueOf, ResultIsTrue, HasRow, Attempting, Fenced, Held, Moves, Types
  <2> QED BY <2>1, <2>2, <2>3, <2>4, <2>5, OnceMoves, TasksApart DEF Moves
<1>11. ASSUME NEW t \in Tasks, RemoveCancelled(t) PROVE Once'
  <2>1. Moves(t, "remove", {"ended"})
    BY <1>11, AttemptsMoves
  <2>2. UNCHANGED <<asked, ran, settle, store, told, outcomes, stale>>
    BY <1>11 DEF RemoveCancelled, owner, manual
  <2>3. \A d \in Commands \ {t} : Untouched(d)
    BY <2>1, <2>2, <1>11, TasksApart DEF RemoveCancelled, Goto, Untouched, Types, Moves
  <2>4. Grows
    BY <2>1, <2>2 DEF Grows
  <2>5. ASSUME t \in Commands PROVE OnceOf(t)'
    <3>1. OnceOf(t)
      BY <2>5 DEF Once
    <3>2. HasRow(t) => HasRow(t)'
      BY <2>4, RowsStay
    <3> QED BY <3>1, <3>2, <2>1, <2>2, <1>11, TasksApart DEF RemoveCancelled, Goto,
       OnceOf, TrueOf, ResultIsTrue, HasRow, Attempting, Fenced, Held, Moves, Types
  <2> QED BY <2>1, <2>2, <2>3, <2>4, <2>5, OnceMoves, TasksApart DEF Moves
<1>12. ASSUME NEW c \in Commands, RequestCommand(c) PROVE Once'
  <2>1. UNCHANGED <<asked, ran, settle, store, result, outcomes, stale>>
    BY <1>12 DEF RequestCommand, owner
  <2>2. /\ pc[c] = "off"
        /\ \/ /\ pc' = pc /\ HasRow(c)
              /\ \E out \in OutcomeOf(c) \cup {"UNAVAILABLE"} : told' = [told EXCEPT ![c] = out]
           \/ pc' = pc /\ ~HasRow(c) /\ told' = [told EXCEPT ![c] = "BUSY"]
           \/ pc' = [pc EXCEPT ![c] = "check"] /\ ~HasRow(c) /\ told' = [told EXCEPT ![c] = "none"]
    BY <1>12 DEF RequestCommand, Goto
  <2>3. \A d \in Commands \ {c} : Untouched(d)
    BY <2>1, <2>2, TasksApart DEF Untouched, Types
  <2>4. Grows
    BY <2>1 DEF Grows
  <2>5. OnceOf(c)'
    <3>1. OnceOf(c)
      BY DEF Once
    <3>2. HasRow(c)' <=> HasRow(c)
      BY <2>1 DEF HasRow
    <3>3. CASE pc' = pc /\ HasRow(c)
      <4>1. PICK out \in OutcomeOf(c) \cup {"UNAVAILABLE"} : told' = [told EXCEPT ![c] = out]
        BY <2>2, <3>3, TasksApart DEF Types
      <4>2. told'[c] = out
        BY <4>1 DEF Types
      <4>3. ~stale => TrueOf(out, c)
        <5>1. CASE out = "UNAVAILABLE"
          BY <5>1 DEF TrueOf
        <5>2. CASE out \in OutcomeOf(c)
          <6>1. PICK i \in 1 .. Len(outcomes) : outcomes[i].cmd = c /\ outcomes[i].out = out
            BY <5>2, OutcomeTypes
          <6>2. OutcomeIsTrue(outcomes[i])
            BY DEF Once
          <6> QED BY <6>1, <6>2 DEF OutcomeIsTrue
        <5> QED BY <5>1, <5>2
      <4> QED BY <2>1, <2>2, <3>1, <3>2, <3>3, <4>2, <4>3 DEF OnceOf, TrueOf,
         Attempting, Fenced, Held
    <3>4. CASE ~HasRow(c)
      <4>1. ran[c] = 0 /\ c \notin store.adopted
        BY <3>1, <3>4, TasksApart DEF OnceOf, Types
      <4>2. \/ pc'[c] = "off" /\ told'[c] = "BUSY"
            \/ pc'[c] = "check" /\ told'[c] = "none"
        BY <2>2, <3>4, TasksApart DEF Types
      <4>3. ran'[c] = 0 /\ c \notin store'.adopted
        BY <2>1, <4>1
      <4> QED BY <4>2, <4>3 DEF OnceOf, TrueOf, Attempting, Fenced, Held
    <3> QED BY <2>2, <3>1, <3>3, <3>4
  <2>6. HasRow(c) => pc' = pc
    BY <2>2
  <2> QED BY <2>1, <2>2, <2>3, <2>4, <2>5, <2>6, OnceMoves, TasksApart
<1>13. ASSUME NEW c \in Commands, QuerySlowly(c) PROVE Once'
  BY <1>13 DEF QuerySlowly
<1>14. ASSUME NEW c \in Commands, RequestLate(c) PROVE Once'
  BY <1>14 DEF RequestLate, Once
<1>15. ASSUME NEW c \in Commands, StopCommand(c) PROVE Once'
  <2>1. UNCHANGED <<asked, ran, settle, store, result, told, outcomes, stale, pc>>
    BY <1>15 DEF StopCommand, owner, manual
  <2>2. \A d \in Commands \ {Root} : Untouched(d)
    BY <2>1 DEF Untouched
  <2>3. Grows
    BY <2>1 DEF Grows
  <2> QED BY <2>1, <2>2, <2>3, OnceMoves, TasksApart
<1>16. ASSUME NEW c \in Commands, CommandCheck(c) PROVE Once'
  <2>1. Moves(c, "check", {"off", "confirm"})
    BY <1>16, CommandMoves
  <2>2. UNCHANGED <<asked, ran, settle, store, result, outcomes, stale>>
    BY <1>16 DEF CommandCheck, owner, manual
  <2>3. \A d \in Commands \ {c} : Untouched(d)
    BY <2>1, <2>2, <1>16, TasksApart DEF CommandCheck, Goto, Return, Untouched, Types,
       Moves
  <2>4. Grows
    BY <2>1, <2>2 DEF Grows
  <2>5. OnceOf(c)'
    <3>1. OnceOf(c)
      BY DEF Once
    <3>2. HasRow(c) => HasRow(c)'
      BY <2>4, RowsStay
    <3>3. ran[c] = 0 /\ c \notin store.adopted
      BY <2>1, <3>1 DEF OnceOf, Moves
    <3>4. pc'[c] = "off" => told'[c] \notin {"COMPACTED"}
      BY <2>1, <1>16, NoOutcomeYet DEF Moves, Types, Goto, Return, StopWord,
         CommandCheck
    <3>5. pc'[c] \in {"off", "confirm"}
      BY <2>1, TasksApart DEF Moves, Types
    <3> QED BY <3>1, <3>2, <3>3, <3>4, <3>5, <2>1, <2>2 DEF OnceOf, TrueOf,
       ResultIsTrue, Attempting, Fenced, Held
  <2> QED BY <2>1, <2>2, <2>3, <2>4, <2>5, OnceMoves, TasksApart DEF Moves
<1>17. ASSUME NEW c \in Commands, CommandConfirm(c) PROVE Once'
  <2>1. Moves(c, "confirm", {"off", "request", "accept"})
    BY <1>17, CommandMoves
  <2>2. UNCHANGED <<asked, ran, settle, store, result, outcomes, stale>>
    BY <1>17 DEF CommandConfirm, owner, manual
  <2>3. \A d \in Commands \ {c} : Untouched(d)
    BY <2>1, <2>2, <1>17, TasksApart DEF CommandConfirm, Goto, Return, Untouched, Types,
       Moves
  <2>4. Grows
    BY <2>1, <2>2 DEF Grows
  <2>5. OnceOf(c)'
    <3>1. OnceOf(c)
      BY DEF Once
    <3>2. HasRow(c) => HasRow(c)'
      BY <2>4, RowsStay
    <3>3. ran[c] = 0 /\ c \notin store.adopted
      BY <2>1, <3>1 DEF OnceOf, Moves
    <3>4. pc'[c] = "off" => told'[c] \notin {"COMPACTED"}
      BY <2>1, <1>17, NoOutcomeYet DEF Moves, Types, Goto, Return, StopWord,
         CommandConfirm
    <3>5. pc'[c] = "request" => HasRow(c)
      BY <1>17, TasksApart DEF CommandConfirm, Goto, Return, Row, HasRow, Types
    <3>6. pc'[c] \in {"off", "request", "accept"}
      BY <2>1, TasksApart DEF Moves, Types
    <3> QED BY <3>1, <3>2, <3>3, <3>4, <3>5, <3>6, <2>1, <2>2 DEF OnceOf, TrueOf,
       ResultIsTrue, Attempting, Fenced, Held
  <2> QED BY <2>1, <2>2, <2>3, <2>4, <2>5, OnceMoves, TasksApart DEF Moves
<1>18. ASSUME NEW c \in Commands, CommandAccept(c) PROVE Once'
  <2>1. Moves(c, "accept", {"off", "request", "confirm"})
    BY <1>18, CommandMoves
  <2>2. UNCHANGED <<asked, ran, settle, result, outcomes, stale>>
    BY <1>18 DEF CommandAccept, owner, manual
  <2>3. KeepsBinding /\ store'.adopted = store.adopted /\ store.rows \subseteq store'.rows
    BY <1>18, AcceptEffects DEF Types, MayAccept
  <2>4. \A d \in Commands \ {c} : Untouched(d)
    BY <2>1, <2>2, <2>3, <1>18, TasksApart DEF CommandAccept, Goto, Return, Untouched,
       Types, Moves, KeepsBinding, KeepsRows
  <2>5. Grows
    BY <2>1, <2>2, <2>3 DEF Grows, KeepsRows
  <2>6. OnceOf(c)'
    <3>1. OnceOf(c)
      BY DEF Once
    <3>2. HasRow(c) => HasRow(c)'
      BY <2>5, RowsStay
    <3>3. ran[c] = 0 /\ c \notin store.adopted
      BY <2>1, <3>1 DEF OnceOf, Moves
    <3>4. pc'[c] = "off" => told'[c] \notin {"COMPACTED"}
      BY <2>1, <1>18, NoOutcomeYet DEF Moves, Types, Goto, Return, StopWord,
         CommandAccept
    <3>5. store' = [store EXCEPT !.rows = @ \cup {Row(c)}] => HasRow(c)'
      BY RowFields DEF Types, HasRow
    <3>6. pc'[c] = "request" => HasRow(c)'
      BY <1>18, <3>5, TasksApart DEF CommandAccept, Goto, Return, Types
    <3>7. pc'[c] \in {"off", "request", "confirm"}
      BY <2>1, TasksApart DEF Moves, Types
    <3> QED BY <3>1, <3>2, <3>3, <3>4, <3>5, <3>6, <3>7, <2>1, <2>2, <2>3 DEF OnceOf,
       TrueOf, ResultIsTrue, Attempting, Fenced, Held
  <2> QED BY <2>1, <2>2, <2>3, <2>4, <2>5, <2>6, OnceMoves, TasksApart DEF Moves
<1>19. ASSUME NEW c \in Commands, CommandRequest(c) PROVE Once'
  <2>1. Moves(c, "request", {"off", "settle", "claim"})
    BY <1>19, CommandMoves
  <2>2. UNCHANGED <<asked, ran, settle, store, outcomes, stale>>
    BY <1>19 DEF CommandRequest, owner, manual
  <2>3. \A d \in Commands \ {c} : Untouched(d)
    BY <2>1, <2>2, <1>19, TasksApart DEF CommandRequest, Goto, Return, Untouched, Types,
       Moves
  <2>4. Grows
    BY <2>1, <2>2 DEF Grows
  <2>5. OnceOf(c)'
    <3>1. OnceOf(c)
      BY DEF Once
    <3>2. HasRow(c) => HasRow(c)'
      BY <2>4, RowsStay
    <3>3. ran[c] = 0 /\ c \notin store.adopted
      BY <2>1, <3>1 DEF OnceOf, Moves
    <3>4. pc'[c] = "off" => told'[c] \notin {"COMPACTED"}
      BY <2>1, <1>19, NoOutcomeYet DEF Moves, Types, Goto, Return, StopWord,
         CommandRequest
    <3>5. HasRow(c)
      BY <2>1, <3>1 DEF OnceOf, Moves
    <3>6. pc'[c] = "settle" => result'[c] = "CANCELLED"
      BY <1>19, TasksApart DEF CommandRequest, Goto, Return, Types
    <3>7. pc'[c] \in {"off", "settle", "claim"}
      BY <2>1, TasksApart DEF Moves, Types
    <3> QED BY <3>1, <3>2, <3>3, <3>4, <3>5, <3>6, <3>7, <2>1, <2>2 DEF OnceOf, TrueOf,
       ResultIsTrue, Attempting, Fenced, Held
  <2> QED BY <2>1, <2>2, <2>3, <2>4, <2>5, OnceMoves, TasksApart DEF Moves
<1>20. ASSUME NEW c \in Commands, CommandClaim(c) PROVE Once'
  <2>1. Moves(c, "claim", {"off", "lane"})
    BY <1>20, CommandMoves
  <2>2. UNCHANGED <<asked, ran, settle, store, result, outcomes, stale>>
    BY <1>20 DEF CommandClaim, owner, manual
  <2>3. \A d \in Commands \ {c} : Untouched(d)
    BY <2>1, <2>2, <1>20, TasksApart DEF CommandClaim, Goto, Return, Untouched, Types,
       Moves
  <2>4. Grows
    BY <2>1, <2>2 DEF Grows
  <2>5. OnceOf(c)'
    <3>1. OnceOf(c)
      BY DEF Once
    <3>2. HasRow(c) => HasRow(c)'
      BY <2>4, RowsStay
    <3>3. ran[c] = 0 /\ c \notin store.adopted
      BY <2>1, <3>1 DEF OnceOf, Moves
    <3>4. pc'[c] = "off" => told'[c] \notin {"COMPACTED"}
      BY <2>1, <1>20, NoOutcomeYet DEF Moves, Types, Goto, Return, StopWord,
         CommandClaim
    <3>5. HasRow(c)
      BY <2>1, <3>1 DEF OnceOf, Moves
    <3>6. pc'[c] \in {"off", "lane"}
      BY <2>1, TasksApart DEF Moves, Types
    <3> QED BY <3>1, <3>2, <3>3, <3>4, <3>5, <3>6, <2>1, <2>2 DEF OnceOf, TrueOf,
       ResultIsTrue, Attempting, Fenced, Held
  <2> QED BY <2>1, <2>2, <2>3, <2>4, <2>5, OnceMoves, TasksApart DEF Moves
<1>21. ASSUME NEW c \in Commands, CommandEnded(c) PROVE Once'
  <2>1. Moves(c, "ended", {"settle"})
    BY <1>21, CommandMoves
  <2>2. UNCHANGED <<asked, ran, settle, store, result, told, outcomes, stale>>
    BY <1>21 DEF CommandEnded, owner, manual
  <2>3. \A d \in Commands \ {c} : Untouched(d)
    BY <2>1, <2>2, TasksApart DEF Untouched, Types, Moves
  <2>4. Grows
    BY <2>1, <2>2 DEF Grows
  <2>5. OnceOf(c)'
    <3>1. OnceOf(c)
      BY DEF Once
    <3>2. HasRow(c) => HasRow(c)'
      BY <2>4, RowsStay
    <3> QED BY <3>1, <3>2, <2>1, <2>2, <1>21, TasksApart DEF CommandEnded, Goto, OnceOf,
       TrueOf, ResultIsTrue, HasRow, Attempting, Fenced, Held, Moves, Types
  <2> QED BY <2>1, <2>2, <2>3, <2>4, <2>5, OnceMoves, TasksApart DEF Moves
<1>22. ASSUME NEW c \in Commands, CommandSettle(c) PROVE Once'
  <2>1. UNCHANGED <<asked, ran, settle, store, stale>>
    BY <1>22 DEF CommandSettle, owner
  <2> DEFINE out == OutcomeWord(result[c])
             o   == [cmd |-> c, out |-> out]
  <2>2. /\ pc[c] = "settle" /\ pc' = [pc EXCEPT ![c] = "off"]
        /\ told' = [told EXCEPT ![c] = out] /\ result' = [result EXCEPT ![c] = "none"]
    BY <1>22 DEF CommandSettle, Return, Goto
  <2>3. \/ UNCHANGED outcomes
        \/ outcomes' = IF Len(Append(outcomes, o)) > MaxOutcomes
                       THEN Tail(Append(outcomes, o)) ELSE Append(outcomes, o)
    BY <1>22 DEF CommandSettle
  <2>4. /\ pc'[c] = "off" /\ told'[c] = out
        /\ \A d \in Commands \ {c} :
              pc'[d] = pc[d] /\ told'[d] = told[d] /\ result'[d] = result[d]
    BY <2>2, TasksApart DEF Types
  <2>5. HasRow(c) /\ (~stale => TrueOf(out, c))
    <3>1. HasRow(c) /\ (~stale => ResultIsTrue(result[c], c))
      BY <2>2 DEF Once, OnceOf
    <3> QED BY <3>1, WordOfResult
  <2>6. o \in OutcomeRecords /\ o.cmd = c /\ o.out = out
    BY DEF OutcomeRecords, OutcomeWord, StopWord, Told
  <2> HIDE DEF out, o
  <2>7. \A d \in Commands : HasRow(d)' <=> HasRow(d)
    BY <2>1 DEF HasRow
  <2>8. ASSUME NEW d \in Commands PROVE OnceOf(d)'
    <3>1. OnceOf(d)
      BY DEF Once
    <3>2. CASE d = c
      BY <2>1, <2>2, <2>4, <2>5, <2>7, <3>1, <3>2 DEF OnceOf, TrueOf, Attempting,
         Fenced, Held
    <3>3. CASE d # c
      <4>1. /\ pc'[d] = pc[d] /\ told'[d] = told[d] /\ result'[d] = result[d]
            /\ HasRow(d)' <=> HasRow(d)
        BY <2>4, <2>7, <3>3
      <4> QED BY <2>1, <3>1, <4>1 DEF OnceOf, TrueOf, ResultIsTrue
    <3> QED BY <3>2, <3>3
  <2>9. ASSUME NEW x \in OutcomeRecords, x = o \/ OutcomeIsTrue(x)
        PROVE  HasRow(x.cmd)' /\ pc'[x.cmd] = "off" /\ (~stale' => TrueOf(x.out,
           x.cmd)')
    <3>1. x.cmd \in Commands
      BY DEF OutcomeRecords
    <3>2. HasRow(x.cmd) /\ (~stale => TrueOf(x.out, x.cmd))
      BY <2>5, <2>6, <2>9 DEF OutcomeIsTrue
    <3>3. pc'[x.cmd] = "off"
      BY <2>4, <2>6, <2>9, <3>1 DEF OutcomeIsTrue
    <3> QED BY <2>1, <2>7, <3>1, <3>2, <3>3 DEF TrueOf
  <2>10. ASSUME NEW i \in 1 .. Len(outcomes') PROVE OutcomeIsTrue(outcomes[i])'
    <3>1. outcomes'[i] = o \/ \E j \in 1 .. Len(outcomes) : outcomes'[i] = outcomes[j]
      BY <2>3, <2>6, KeptOutcomes
    <3>2. \A j \in 1 .. Len(outcomes) : outcomes[j] \in OutcomeRecords /\ OutcomeIsTrue(outcomes[j])
      BY OutcomeTypes DEF Once
    <3>3. PICK x \in OutcomeRecords : x = outcomes'[i] /\ (x = o \/ OutcomeIsTrue(x))
      BY <2>6, <3>1, <3>2
    <3> QED BY <2>9, <3>3 DEF OutcomeIsTrue
  <2> QED BY <2>1, <2>8, <2>10 DEF Once
<1>23. ASSUME NEW w \in Writers, WriterReserve(w) PROVE Once'
  <2>1. Moves(w, "off", {"hold"})
    BY <1>23, WriterMoves
  <2>2. UNCHANGED <<asked, ran, settle, store, result, told, outcomes, stale>>
    BY <1>23 DEF WriterReserve, owner, manual
  <2>3. \A d \in Commands \ {w} : Untouched(d)
    BY <2>1, <2>2, TasksApart DEF Untouched, Types, Moves
  <2>4. Grows
    BY <2>1, <2>2 DEF Grows
  <2> QED BY <2>1, <2>2, <2>3, <2>4, OnceMoves, TasksApart
<1>24. ASSUME NEW w \in Writers, WriterCompact(w) PROVE Once'
  <2>1. Moves(w, "hold", {"lane"})
    BY <1>24, WriterMoves
  <2>2. UNCHANGED <<asked, ran, settle, store, result, told, outcomes, stale>>
    BY <1>24 DEF WriterCompact, owner, manual
  <2>3. \A d \in Commands \ {w} : Untouched(d)
    BY <2>1, <2>2, TasksApart DEF Untouched, Types, Moves
  <2>4. Grows
    BY <2>1, <2>2 DEF Grows
  <2> QED BY <2>1, <2>2, <2>3, <2>4, OnceMoves, TasksApart
<1>25. ASSUME NEW w \in Writers, WriterWrite(w) PROVE Once'
  <2>1. Moves(w, "hold", {"release"})
    BY <1>25, WriterMoves
  <2>2. UNCHANGED <<asked, ran, settle, result, told, outcomes, stale>>
    BY <1>25 DEF WriterWrite, owner, manual
  <2>3. KeepsBinding /\ KeepsRows
    BY <1>25, AppendEffects DEF Types, MayAppend
  <2>4. \A d \in Commands \ {w} : Untouched(d)
    BY <2>1, <2>2, <2>3, TasksApart DEF Untouched, Types, Moves, KeepsBinding, KeepsRows
  <2>5. Grows
    BY <2>1, <2>2, <2>3 DEF Grows, KeepsRows
  <2> QED BY <2>1, <2>2, <2>3, <2>4, <2>5, OnceMoves, TasksApart
<1>26. ASSUME NEW w \in Writers, WriterRelease(w) PROVE Once'
  <2>1. Moves(w, "release", {"off"})
    BY <1>26, WriterMoves
  <2>2. UNCHANGED <<asked, ran, settle, store, result, told, outcomes, stale>>
    BY <1>26 DEF WriterRelease, owner, manual
  <2>3. \A d \in Commands \ {w} : Untouched(d)
    BY <2>1, <2>2, TasksApart DEF Untouched, Types, Moves
  <2>4. Grows
    BY <2>1, <2>2 DEF Grows
  <2> QED BY <2>1, <2>2, <2>3, <2>4, OnceMoves, TasksApart
<1>27. ASSUME NEW w \in Writers, WriterEnded(w) PROVE Once'
  <2>1. Moves(w, "ended", {"release"})
    BY <1>27, WriterMoves
  <2>2. UNCHANGED <<asked, ran, settle, told, outcomes, stale>>
    BY <1>27 DEF WriterEnded, owner, manual
  <2>3. KeepsBinding /\ KeepsRows
    BY <1>27, AppendEffects DEF Types, MayAppend
  <2>4. \A d \in Commands \ {w} : Untouched(d)
    BY <2>1, <2>2, <2>3, <1>27, TasksApart DEF WriterEnded, Goto, Untouched, Types,
       Moves, KeepsBinding, KeepsRows
  <2>5. Grows
    BY <2>1, <2>2, <2>3 DEF Grows, KeepsRows
  <2> QED BY <2>1, <2>2, <2>3, <2>4, <2>5, OnceMoves, TasksApart
<1>28. CASE SubmitPrompt
  <2>1. UNCHANGED <<asked, ran, settle, result, told, outcomes, stale, pc>>
    BY <1>28 DEF SubmitPrompt, owner, manual
  <2>2. KeepsBinding /\ KeepsRows
    BY <1>28, SubmitFields DEF Types, KeepsBinding, KeepsRows
  <2>3. \A d \in Commands \ {Root} : Untouched(d)
    BY <2>1, <2>2, TasksApart DEF Untouched, Types, KeepsBinding, KeepsRows
  <2>4. Grows
    BY <2>1, <2>2 DEF Grows, KeepsRows
  <2> QED BY <2>1, <2>2, <2>3, <2>4, OnceMoves, TasksApart
<1>29. CASE Deliver
  <2>1. Moves(Root, "off", {"admit"})
    BY <1>29, RootMoves
  <2>2. UNCHANGED <<asked, ran, settle, store, result, told, outcomes, stale>>
    BY <1>29 DEF Deliver, owner, manual
  <2>3. \A d \in Commands \ {Root} : Untouched(d)
    BY <2>1, <2>2, TasksApart DEF Untouched, Types, Moves
  <2>4. Grows
    BY <2>1, <2>2 DEF Grows
  <2> QED BY <2>1, <2>2, <2>3, <2>4, OnceMoves, TasksApart
<1>30. CASE RootAppend
  <2>1. UNCHANGED <<asked, ran, settle, result, told, outcomes, stale, pc>>
    BY <1>30 DEF RootAppend, owner, manual
  <2>2. KeepsBinding /\ KeepsRows
    BY <1>30, AppendEffects DEF Types, MayAppend
  <2>3. \A d \in Commands \ {Root} : Untouched(d)
    BY <2>1, <2>2, TasksApart DEF Untouched, Types, KeepsBinding, KeepsRows
  <2>4. Grows
    BY <2>1, <2>2 DEF Grows, KeepsRows
  <2> QED BY <2>1, <2>2, <2>3, <2>4, OnceMoves, TasksApart
<1>31. CASE RootDispatch
  <2>1. Moves(Root, "run", {"model"})
    BY <1>31, RootMoves
  <2>2. UNCHANGED <<asked, ran, settle, store, result, told, outcomes, stale>>
    BY <1>31 DEF RootDispatch, owner, manual
  <2>3. \A d \in Commands \ {Root} : Untouched(d)
    BY <2>1, <2>2, TasksApart DEF Untouched, Types, Moves
  <2>4. Grows
    BY <2>1, <2>2 DEF Grows
  <2> QED BY <2>1, <2>2, <2>3, <2>4, OnceMoves, TasksApart
<1>32. CASE RootCompact
  <2>1. Moves(Root, "run", {"lane"})
    BY <1>32, RootMoves
  <2>2. UNCHANGED <<asked, ran, settle, store, result, told, outcomes, stale>>
    BY <1>32 DEF RootCompact, owner, manual
  <2>3. \A d \in Commands \ {Root} : Untouched(d)
    BY <2>1, <2>2, TasksApart DEF Untouched, Types, Moves
  <2>4. Grows
    BY <2>1, <2>2 DEF Grows
  <2> QED BY <2>1, <2>2, <2>3, <2>4, OnceMoves, TasksApart
<1>33. CASE StopTurn
  <2>1. UNCHANGED <<asked, ran, settle, store, result, told, outcomes, stale, pc>>
    BY <1>33 DEF StopTurn, owner, manual
  <2>2. \A d \in Commands \ {Root} : Untouched(d)
    BY <2>1, TasksApart DEF Untouched, Types
  <2>3. Grows
    BY <2>1 DEF Grows
  <2> QED BY <2>1, <2>2, <2>3, OnceMoves, TasksApart
<1>34. CASE StartTurn
  <2>1. Moves(Root, "admit", {"run"})
    BY <1>34, RootMoves
  <2>2. UNCHANGED <<asked, ran, settle, result, told, outcomes, stale>>
    BY <1>34 DEF StartTurn, owner, manual
  <2>3. store.pending > 0
    BY <2>1, <1>34 DEF Moves, Roots
  <2>4. KeepsBinding /\ KeepsRows
    BY <1>34, StartFields, <2>3 DEF Types, KeepsBinding, KeepsRows
  <2>5. \A d \in Commands \ {Root} : Untouched(d)
    BY <2>1, <2>2, <2>3, <2>4, TasksApart DEF Untouched, Types, Moves, KeepsBinding,
       KeepsRows
  <2>6. Grows
    BY <2>1, <2>2, <2>3, <2>4 DEF Grows, KeepsRows
  <2> QED BY <2>1, <2>2, <2>3, <2>4, <2>5, <2>6, OnceMoves, TasksApart
<1>35. CASE EndRoot
  <2>1. \E p \in {"run", "admit"} : Moves(Root, p, {"off"})
    BY <1>35, RootMoves
  <2>2. UNCHANGED <<asked, ran, settle, result, told, outcomes, stale>>
    BY <1>35 DEF EndRoot, owner, manual
  <2>3. KeepsBinding /\ KeepsRows
    BY <1>35, HaltEffects DEF Types, MayHalt
  <2>4. \A d \in Commands \ {Root} : Untouched(d)
    BY <2>1, <2>2, <2>3, TasksApart DEF Untouched, Types, Moves, KeepsBinding, KeepsRows
  <2>5. Grows
    BY <2>1, <2>2, <2>3 DEF Grows, KeepsRows
  <2> QED BY <2>1, <2>2, <2>3, <2>4, <2>5, OnceMoves, TasksApart
<1>36. CASE RootAnswer
  <2>1. Moves(Root, "model", {"run"})
    BY <1>36, RootMoves
  <2>2. UNCHANGED <<asked, ran, settle, result, told, outcomes, stale>>
    BY <1>36 DEF RootAnswer, owner, manual
  <2>3. KeepsBinding /\ KeepsRows
    BY <1>36, AppendEffects DEF Types, MayAppend
  <2>4. \A d \in Commands \ {Root} : Untouched(d)
    BY <2>1, <2>2, <2>3, TasksApart DEF Untouched, Types, Moves, KeepsBinding, KeepsRows
  <2>5. Grows
    BY <2>1, <2>2, <2>3 DEF Grows, KeepsRows
  <2> QED BY <2>1, <2>2, <2>3, <2>4, <2>5, OnceMoves, TasksApart
<1>37. CASE RootEnded
  <2>1. Moves(Root, "ended", {"model", "run", "off"})
    BY <1>37, RootMoves
  <2>2. UNCHANGED <<asked, ran, settle, told, outcomes, stale>>
    BY <1>37 DEF RootEnded, owner, manual
  <2>3. KeepsBinding /\ KeepsRows
    BY <1>37, HaltEffects DEF Types, MayHalt, KeepsBinding, KeepsRows
  <2>4. \A d \in Commands \ {Root} : Untouched(d)
    BY <2>1, <2>2, <2>3, <1>37, TasksApart DEF RootEnded, Goto, Untouched, Types, Moves,
       KeepsBinding, KeepsRows
  <2>5. Grows
    BY <2>1, <2>2, <2>3 DEF Grows, KeepsRows
  <2> QED BY <2>1, <2>2, <2>3, <2>4, <2>5, OnceMoves, TasksApart
<1>38. CASE SettleConfirm
  <2>1. UNCHANGED <<asked, ran, store, result, told, outcomes, stale, pc>>
    BY <1>38 DEF SettleConfirm, owner, manual
  <2>2. Confirms(Confirmation, "adopt")
    BY <1>38, SettlementEffects DEF Types
  <2>3. settle'.base = settle.base
    BY <2>2 DEF SettleTo, Confirms
  <2>4. \A d \in Commands \ {Root} : Untouched(d)
    BY <2>1, <2>2, <2>3 DEF Untouched
  <2>5. Grows
    BY <2>1, <2>2, <2>3, <2>4 DEF Grows
  <2> QED BY <2>1, <2>2, <2>3, <2>4, <2>5, OnceMoves, TasksApart
<1>39. CASE SettleReconfirm
  <2>1. UNCHANGED <<asked, ran, store, result, told, outcomes, stale, pc>>
    BY <1>39 DEF SettleReconfirm, owner, manual
  <2>2. Confirms(Confirmation, "none")
    BY <1>39, SettlementEffects DEF Types
  <2>3. settle'.base = settle.base
    BY <2>2 DEF SettleTo, Confirms
  <2>4. \A d \in Commands \ {Root} : Untouched(d)
    BY <2>1, <2>2, <2>3 DEF Untouched
  <2>5. Grows
    BY <2>1, <2>2, <2>3, <2>4 DEF Grows
  <2> QED BY <2>1, <2>2, <2>3, <2>4, <2>5, OnceMoves, TasksApart
<1>40. CASE SettleAdopt
  <2>1. UNCHANGED <<asked, ran, result, told, outcomes, stale, pc>>
    BY <1>40 DEF SettleAdopt, owner, manual
  <2>2. Adopting
    BY <1>40, SettlementEffects DEF Types
  <2>3. settle'.base = settle.base
    BY <2>2 DEF SettleTo, Adopting, Confirms
  <2>4. MayAdopt
    BY <1>40, AdoptEffects DEF Types
  <2>5. settle # None /\ settle \in Settlements
    BY <1>40 DEF SettleAdopt, Types
  <2>6. PICK t \in Tasks : t = settle.owner
    BY <2>5, SettlementAlone
  <2>7. pc[t] = "join" /\ settle.base \in Nat /\ store.rev \in Nat
    BY <2>5, <2>6, SettlementAlone, SettleFields, StoreFields DEF Types
  <2>8. \A d \in Commands \ {t} : pc[d] # "join"
    BY <2>7, OneFenced, TasksApart DEF Fenced
  <2>9. \A d \in Commands \ {t} : Untouched(d)
    BY <2>1, <2>4, <2>6, <2>8 DEF Untouched, MayAdopt
  <2>10. Grows
    BY <2>1, <2>4 DEF Grows, MayAdopt
  <2>11. ASSUME t \in Commands PROVE OnceOf(t)'
    <3>1. OnceOf(t)
      BY <2>11 DEF Once
    <3>2. HasRow(t)' /\ ran[t] = 1
      BY <2>7, <2>10, <3>1, RowsStay DEF OnceOf, Attempting, Fenced
    <3>3. \/ KeepsBinding /\ store'.adopted = store.adopted
          \/ /\ ~stale /\ store.rev = settle.base /\ store'.rev = store.rev + 1
             /\ t \in store'.adopted
      BY <2>4, <2>6, <2>11 DEF MayAdopt, AdoptPrecondition
    <3>4. ~stale => (t \in store.adopted <=> store.rev = settle.base + 1)
      BY <2>7, <3>1 DEF OnceOf
    <3>5. ~stale => (t \in store'.adopted <=> store'.rev = settle'.base + 1)
      BY <2>3, <2>7, <3>3, <3>4 DEF KeepsBinding
    <3>6. pc'[t] = "join" /\ ran'[t] = 1 /\ stale' = stale
      BY <2>1, <2>7, <3>2
    <3> QED BY <3>2, <3>5, <3>6 DEF OnceOf, Attempting, Fenced, Held
  <2> QED BY <2>1, <2>7, <2>9, <2>10, <2>11, OnceMoves
<1>41. CASE SettleHooks
  <2>1. UNCHANGED <<asked, ran, store, result, told, outcomes, stale, pc>>
    BY <1>41 DEF SettleHooks, owner, manual
  <2>2. AfterHooks
    BY <1>41, SettlementEffects DEF Types
  <2>3. settle'.base = settle.base
    BY <2>2 DEF SettleTo, AfterHooks, Retires
  <2>4. \A d \in Commands \ {Root} : Untouched(d)
    BY <2>1, <2>2, <2>3 DEF Untouched
  <2>5. Grows
    BY <2>1, <2>2, <2>3, <2>4 DEF Grows
  <2> QED BY <2>1, <2>2, <2>3, <2>4, <2>5, OnceMoves, TasksApart
<1>42. CASE SettleStatus
  <2>1. UNCHANGED <<asked, ran, store, result, told, outcomes, stale, pc>>
    BY <1>42 DEF SettleStatus, owner, manual
  <2>2. AfterStatus
    BY <1>42, SettlementEffects DEF Types
  <2>3. settle'.base = settle.base
    BY <2>2 DEF SettleTo, AfterStatus, Retires
  <2>4. \A d \in Commands \ {Root} : Untouched(d)
    BY <2>1, <2>2, <2>3 DEF Untouched
  <2>5. Grows
    BY <2>1, <2>2, <2>3, <2>4 DEF Grows
  <2> QED BY <2>1, <2>2, <2>3, <2>4, <2>5, OnceMoves, TasksApart
<1>43. CASE SettleRotate
  <2>1. UNCHANGED <<asked, ran, store, result, told, outcomes, stale, pc>>
    BY <1>43 DEF SettleRotate, owner, manual
  <2>2. AfterRotate
    BY <1>43, SettlementEffects DEF Types
  <2>3. settle'.base = settle.base
    BY <2>2 DEF SettleTo, AfterRotate, Retires
  <2>4. \A d \in Commands \ {Root} : Untouched(d)
    BY <2>1, <2>2, <2>3 DEF Untouched
  <2>5. Grows
    BY <2>1, <2>2, <2>3, <2>4 DEF Grows
  <2> QED BY <2>1, <2>2, <2>3, <2>4, <2>5, OnceMoves, TasksApart
<1>44. CASE BeginClose
  <2>1. UNCHANGED <<asked, ran, settle, store, result, told, outcomes, stale, pc>>
    BY <1>44 DEF BeginClose, owner, manual
  <2>2. \A d \in Commands \ {Root} : Untouched(d)
    BY <2>1, TasksApart DEF Untouched, Types
  <2>3. Grows
    BY <2>1 DEF Grows
  <2> QED BY <2>1, <2>2, <2>3, OnceMoves, TasksApart
<1>45. CASE OwnerClose
  <2>1. UNCHANGED <<asked, ran, settle, store, result, told, outcomes, stale, pc>>
    BY <1>45 DEF OwnerClose, owner, manual
  <2>2. \A d \in Commands \ {Root} : Untouched(d)
    BY <2>1, TasksApart DEF Untouched, Types
  <2>3. Grows
    BY <2>1 DEF Grows
  <2> QED BY <2>1, <2>2, <2>3, OnceMoves, TasksApart
<1>46. CASE CloseDone
  <2>1. UNCHANGED <<asked, ran, settle, store, result, told, outcomes, stale, pc>>
    BY <1>46 DEF CloseDone, owner, manual
  <2>2. \A d \in Commands \ {Root} : Untouched(d)
    BY <2>1, TasksApart DEF Untouched, Types
  <2>3. Grows
    BY <2>1 DEF Grows
  <2> QED BY <2>1, <2>2, <2>3, OnceMoves, TasksApart
<1>47. CASE Takeover
  <2>1. UNCHANGED <<asked, ran, settle, result, told, outcomes, pc>>
    BY <1>47 DEF Takeover, manual
  <2>2. stale' /\ store'.rows = store.rows /\ store'.adopted = store.adopted
    BY <1>47, TakeoverFields DEF Types, Takeover
  <2>3. \A d \in Commands \ {Root} : Untouched(d)
    BY <2>1, <2>2, TasksApart DEF Untouched, Types, KeepsBinding, KeepsRows
  <2>4. Grows
    BY <2>1, <2>2 DEF Grows, KeepsRows
  <2> QED BY <2>1, <2>2, <2>3, <2>4, OnceMoves, TasksApart
<1>48. CASE Crash
  <2>1. /\ pc' = [t \in Tasks |-> "off"] /\ told' = [c \in Commands |-> "none"]
        /\ ran' = ran /\ outcomes' = <<>> /\ asked' = {}
    BY <1>48 DEF Crash
  <2>2. store'.rows = store.rows /\ store'.adopted = store.adopted
    BY <1>48, HaltsFields DEF Crash, Halts, Types
  <2>3. ASSUME NEW c \in Commands PROVE OnceOf(c)'
    <3>1. pc'[c] = "off" /\ told'[c] = "none" /\ ran'[c] = ran[c]
      BY <2>1, TasksApart
    <3>2. HasRow(c) => HasRow(c)'
      BY <2>2 DEF HasRow
    <3>3. /\ ran[c] <= 1 /\ (ran[c] = 1 => HasRow(c)) /\ (c \in store.adopted => ran[c] = 1)
      BY DEF Once, OnceOf
    <3> QED BY <2>2, <3>1, <3>2, <3>3 DEF OnceOf, TrueOf, Attempting, Fenced, Held
  <2>4. Len(outcomes') = 0
    BY <2>1
  <2> QED BY <2>1, <2>3, <2>4 DEF Once
<1>49. CASE ReconfirmRaises
  <2>1. UNCHANGED <<asked, ran, store, result, told, outcomes, stale, pc>>
    BY <1>49 DEF ReconfirmRaises, owner, manual
  <2>2. Abandons
    BY <1>49, SettlementEffects DEF Types
  <2>3. settle'.base = settle.base
    BY <2>2 DEF SettleTo, Abandons
  <2>4. \A d \in Commands \ {Root} : Untouched(d)
    BY <2>1, <2>2, <2>3 DEF Untouched
  <2>5. Grows
    BY <2>1, <2>2, <2>3, <2>4 DEF Grows
  <2> QED BY <2>1, <2>2, <2>3, <2>4, <2>5, OnceMoves, TasksApart
<1> QED
  BY <1>1, <1>2, <1>3, <1>4, <1>5, <1>6, <1>7, <1>8, <1>9, <1>10, <1>11, <1>12, <1>13,
     <1>14, <1>15, <1>16, <1>17, <1>18, <1>19, <1>20, <1>21, <1>22, <1>23, <1>24, <1>25,
     <1>26, <1>27, <1>28, <1>29, <1>30, <1>31, <1>32, <1>33, <1>34, <1>35, <1>36, <1>37,
     <1>38, <1>39, <1>40, <1>41, <1>42, <1>43, <1>44, <1>45, <1>46, <1>47, <1>48, <1>49
  DEF Next, Attempt, CommandStep, WriterStep, RootStep, Settlement

-----------------------------------------------------------------------------
(* The theorems                                                             *)

(* The parts of the invariant, with the types in their named form. *)
Parts ==
    /\ Types /\ Lanes /\ Places /\ Roots /\ Alone /\ Handles
    /\ Successors /\ Settles /\ Slot /\ Unused /\ Closing

(* The parts make up the invariant. *)
LEMMA PartsOfInv == CompactionInv <=> Parts
BY TypesNamed DEF CompactionInv, Parts

(* The parts hold of a Host that has just opened the session. *)
LEMMA PartsInit ==
    ASSUME Init
    PROVE  Parts /\ Once
<1>1. /\ pc = [t \in Tasks |-> "off"] /\ result = [t \in Tasks |-> "none"]
      /\ cancel = [t \in Tasks |-> FALSE] /\ plan = [t \in Tasks |-> NoPlan]
      /\ told = [c \in Commands |-> "none"] /\ ran = [c \in Commands |-> 0]
      /\ host = "open" /\ stale = FALSE /\ lane = None /\ fence = None /\ writes = {}
      /\ waiter = None /\ outcomes = <<>> /\ asked = {} /\ settle = None
      /\ cont = [kind |-> "EMPTY", base |-> 0] /\ handle = None /\ failures = 0
  BY DEF Init
<1>2. /\ store.rev = 0 /\ store.running = FALSE /\ store.pending = 0 /\ store.adopted = {}
      /\ cont.kind = "EMPTY" /\ cont.base = 0
  BY DEF Init
<1>3. Types
  <2>1. store \in StoreRecords
    BY CompactionAssumption DEF Init, StoreRecords
  <2>2. budget \in BudgetRecords
    BY CompactionAssumption DEF Init, BudgetRecords
  <2>3. NoPlan \in PlanRecords
    BY CompactionAssumption DEF NoPlan, PlanRecords
  <2>4. cont \in ContRecords /\ failures \in 0..MaxFailures
    BY <1>1, CompactionAssumption DEF ContRecords
  <2>5. outcomes \in Seq(OutcomeRecords) /\ Len(outcomes) <= MaxOutcomes
    BY <1>1, CompactionAssumption
  <2>6. pc \in [Tasks -> PcPlaces] /\ result \in [Tasks -> Results] /\ told \in [Commands -> Told]
    BY <1>1 DEF PcPlaces, Results, Told
  <2>7. /\ plan \in [Tasks -> PlanRecords] /\ cancel \in [Tasks -> BOOLEAN]
        /\ ran \in [Commands -> Nat]
    BY <1>1, <2>3
  <2> QED BY <1>1, <2>1, <2>2, <2>4, <2>5, <2>6, <2>7 DEF Types
<1>4. \A t \in Tasks : pc[t] = "off" /\ result[t] = "none"
  BY <1>1
<1>5. Lanes /\ Places /\ Roots
  BY <1>1, <1>2, <1>4, TasksApart
  DEF Lanes, Places, Roots, Fenced, Attempting, FenceExcludesWriters
<1>6. Alone /\ Handles /\ Successors
  BY <1>1, <1>4, TasksApart, HoldersApart DEF Alone, Handles, Successors, Held
<1>7. Settles /\ Slot /\ Unused /\ Closing
  BY <1>1, <1>2, <1>4, TasksApart
  DEF Settles, Slot, Unused, Closing, SlotGivenBack, OwnerClosing
<1>8. Once
  <2>1. Len(outcomes) = 0
    BY <1>1
  <2>2. ASSUME NEW c \in Commands PROVE OnceOf(c)
    <3>1. pc[c] = "off" /\ ran[c] = 0 /\ told[c] = "none" /\ c \notin store.adopted
      BY <1>1, <1>2, <1>4, TasksApart
    <3> QED BY <3>1 DEF OnceOf, TrueOf, Attempting, Fenced, Held
  <2> QED BY <1>1, <2>1, <2>2 DEF Once
<1> QED BY <1>3, <1>5, <1>6, <1>7, <1>8 DEF Parts

(* A step that changes nothing keeps every part. *)
LEMMA PartsStutter ==
    ASSUME Parts, UNCHANGED vars
    PROVE  Parts'
<1>1. /\ UNCHANGED <<host, stale, lane, fence, writes, pc, cancel, plan, result, waiter, outcomes>>
      /\ UNCHANGED <<asked, told, ran, settle, store, cont, handle, failures, budget>>
  BY DEF vars
<1>2. Types'
  BY <1>1 DEF Parts, Types
<1>3. Lanes' /\ Places' /\ Roots' /\ Alone'
  BY <1>1 DEF Parts, Lanes, Places, Roots, Alone, FenceExcludesWriters
<1>4. Handles' /\ Successors'
  BY <1>1 DEF Parts, Handles, Successors
<1>5. Settles'
  BY <1>1 DEF Parts, Settles
<1>6. Slot' /\ Unused' /\ Closing'
  BY <1>1 DEF Parts, Slot, Unused, Closing, SlotGivenBack, OwnerClosing
<1> QED BY <1>2, <1>3, <1>4, <1>5, <1>6 DEF Parts

(* So is what a command has done and was told. *)
LEMMA OnceStutter ==
    ASSUME Once, UNCHANGED vars
    PROVE  Once'
BY DEF vars, Once, OnceOf, OutcomeIsTrue, TrueOf, ResultIsTrue, HasRow

(* The invariant is inductive: over every interleaving of attempts, settlement, *)
(* commands, writers, turn, close, crash and takeover.                          *)
THEOREM CompactionInvariant == Spec => []CompactionInv
<1>1. Init => Parts
  BY PartsInit
<1>2. ASSUME Parts, Next PROVE Parts'
  <2> USE <1>2 DEF Parts
  <2>1. Types'
    BY TypesStep
  <2>2. Lanes' /\ Places'
    BY LanesStep, PlacesStep
  <2>3. Roots' /\ Alone'
    BY RootsStep, AloneStep
  <2>4. Handles' /\ Successors'
    BY HandlesStep, SuccessorsStep
  <2>5. Settles' /\ Slot' /\ Unused' /\ Closing'
    BY SettlesStep, SlotStep, UnusedStep, ClosingStep
  <2> QED BY <2>1, <2>2, <2>3, <2>4, <2>5
<1>3. Parts /\ [Next]_vars => Parts'
  BY <1>2, PartsStutter
<1>4. Spec => []Parts
  BY <1>1, <1>3, PTL DEF Spec
<1> QED BY <1>4, PartsOfInv, PTL

(* What a compaction summarises stands still while it is summarised: no write  *)
(* reservation but its own is held under a fence, and the transcript a command *)
(* was accepted for neither grows nor gains a turn until the command has ended *)
(* (host.py, the fence, the reservations and the claim).                       *)
THEOREM SourceStandsStill == Spec => []SourceInv
<1>1. ASSUME Parts, TypeOK PROVE SourceInv
  <2>1. FenceExcludesWriters
    BY <1>1 DEF Parts, Lanes
  <2>2. AcceptedCommandSourceStable
    <3>1. ASSUME NEW c \in Commands, pc[c] \in Attempting \cup {"request", "claim"}
          PROVE  /\ store.head = plan[c].head /\ store.turn = plan[c].turn
                 /\ ~store.running /\ pc[Root] = "off"
      <4>1. pc[c] # "off" /\ pc[c] # "check"
        BY <3>1 DEF Attempting, Fenced
      <4> QED BY <1>1, <4>1 DEF Parts, Alone, Roots
    <3> QED BY <3>1 DEF AcceptedCommandSourceStable
  <2> QED BY <1>1, <2>1, <2>2 DEF SourceInv
<1>2. CompactionInv => SourceInv
  BY <1>1, PartsOfInv DEF CompactionInv
<1> QED BY <1>2, CompactionInvariant, PTL

(* Nothing a compaction takes is left without a task that gives it back: the   *)
(* fence, the safe-point handle, and everything once the Host is closed.       *)
THEOREM NothingLeftBehind == Spec => []OwnershipInv
<1>1. ASSUME Parts, ~LockHeld PROVE FenceHasLiveOwner /\ HandleHasOwner /\ ClosedIsQuiet
  <2>0. Types /\ Lanes /\ Handles /\ Successors /\ Closing
    BY <1>1 DEF Parts
  <2>1. FenceHasLiveOwner
    <3>1. ASSUME fence # None PROVE pc[fence.owner] \in Fenced /\ lane = fence.owner
      <4>1. fence.owner \in Tasks
        BY <2>0, <3>1, FenceFields DEF Types
      <4> QED BY <1>1, <2>0, <3>1, <4>1 DEF Lanes
    <3> QED BY <3>1 DEF FenceHasLiveOwner
  <2>2. HandleHasOwner
    BY <1>1, <2>0 DEF HandleHasOwner, Handles, Successors, Held
  <2>3. ASSUME host = "closed"
        PROVE  settle = None /\ fence = None /\ lane = None /\ handle = None /\ waiter = None
    <3>1. \A t \in Tasks : pc[t] = "off"
      BY <2>0, <2>3 DEF Closing
    <3>2. waiter = None
      BY <2>0, <2>3 DEF Closing, OwnerClosing
    <3>3. settle = None
      BY <2>0, <3>1, SettlementAlone
    <3>4. fence = None
      <4>1. ASSUME fence # None PROVE FALSE
        <5>1. fence.owner \in Tasks /\ pc[fence.owner] \in Fenced
          BY <1>1, <2>0, <4>1, FenceFields DEF Types, Lanes
        <5> QED BY <3>1, <5>1 DEF Fenced
      <4> QED BY <4>1
    <3>5. lane = None
      BY <2>0, <3>1 DEF Types, Lanes, Fenced
    <3>6. handle \notin Tasks /\ handle # "settlement"
      BY <2>0, <3>1, <3>3 DEF Handles, Held
    <3>7. handle # "successor"
      BY <1>1, <2>0, <3>1, <3>3 DEF Successors
    <3> QED BY <2>0, <3>2, <3>3, <3>4, <3>5, <3>6, <3>7 DEF Types
  <2> QED BY <2>1, <2>2, <2>3 DEF ClosedIsQuiet
<1>2. CompactionInv => OwnershipInv
  BY <1>1, PartsOfInv DEF OwnershipInv
<1> QED BY <1>2, CompactionInvariant, PTL

(* While this Host owns the session its provider calls are built on the base    *)
(* the store binds; its slot is usable whenever no settlement runs, or abandoned *)
(* by a confirming read that raised and held by nobody (_settle_compaction_adop- *)
(* tion, coordinator.py:4217-4226).                                              *)
THEOREM CallsOnAdoptedBase == Spec => [](ProviderCallOnAdoptedBase /\ PendingSlotSettled)
<1>1. ASSUME Parts PROVE ProviderCallOnAdoptedBase /\ PendingSlotSettled
  <2>1. cont = [kind |-> cont.kind, base |-> cont.base]
    BY <1>1 DEF Parts, Types, ContRecords
  <2>2. ProviderCallOnAdoptedBase /\ SlotGivenBack
    BY <1>1, <2>1 DEF Parts, Slot, ProviderCallOnAdoptedBase
  <2>3. AbandonedSlotUnused
    BY <1>1, TasksApart DEF Parts, Unused, Handles, AbandonedSlotUnused
  <2> QED BY <2>2, <2>3 DEF PendingSlotSettled
<1> QED BY <1>1, PartsOfInv, CompactionInvariant, PTL

(* An adoption is one fact for the store, the next provider call and the caller *)
(* of the command: also with a lost acknowledgement, a cancelled waiter, or a   *)
(* restart in between.  A lookup of the row answered late is excluded: such a   *)
(* caller may be told BUSY of a command that has run in the meantime.           *)
THEOREM AdoptionIsOneFact ==
    ASSUME SlowQuery = FALSE
    PROVE  Spec => []AdoptionInv
<1>1. Init => Parts /\ Once
  BY PartsInit
<1>2. Parts /\ Once /\ [Next]_vars => Once'
  BY OnceStep, OnceStutter DEF Parts
<1>3. ASSUME Parts, Once PROVE CommandRunsOnce /\ AnswerIsTrue
  BY <1>3 DEF Once, OnceOf, TrueOf, CommandRunsOnce, AnswerIsTrue
<1>4. Parts /\ Once /\ ProviderCallOnAdoptedBase /\ PendingSlotSettled => AdoptionInv
  BY <1>3 DEF AdoptionInv
<1>5. Spec => []Parts
  BY CompactionInvariant, PartsOfInv, PTL
<1>6. Spec => []Once
  BY <1>1, <1>2, <1>5, PTL DEF Spec
<1> QED BY <1>4, <1>5, <1>6, CallsOnAdoptedBase, PTL

=============================================================================
