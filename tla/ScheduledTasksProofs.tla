------------------------ MODULE ScheduledTasksProofs ------------------------
(***************************************************************************)
(* Theorems about ScheduledTasks, for any kernels, plans, commands and      *)
(* rules and any bounds: one plan is active, an occurrence is queued once   *)
(* and not in the past, a stopped plan queues nothing, and no occurrence    *)
(* that falls into the run of a kernel is passed over.                      *)
(*                                                                         *)
(* The rules stay opaque: all that matters of the calendar is what          *)
(* NextIsNext says of NextOccurrence.                                       *)
(***************************************************************************)
EXTENDS ScheduledTasks, WellFoundedInduction, TLAPS

-----------------------------------------------------------------------------
(* The calendar                                                             *)

(* A set of numbers that is not empty has a least element. *)
LEMMA LeastExists ==
    ASSUME NEW S \in SUBSET Nat, S # {}
    PROVE  \E m \in S : \A n \in S : m <= n
<1> DEFINE Less == {ss \in Nat \X Nat : ss[1] < ss[2]}
<1>1. IsWellFoundedOn(Less, Nat)
  BY NatLessThanWellFounded, Zenon DEF OpToRel
<1>2. \E m \in S : \A n \in S : ~(<<n, m>> \in Less)
  <2> HIDE DEF Less
  <2> QED BY <1>1, WFMin
<1>3. ASSUME NEW m \in S, NEW n \in S, ~(<<n, m>> \in Less)
      PROVE  m <= n
  <2>1. m \in Nat /\ n \in Nat
    OBVIOUS
  <2> QED BY <1>3, <2>1
<1> QED BY <1>2, <1>3

(* next_occurrence: the occurrence found is later than the instant, and     *)
(* none lies between.                                                       *)
LEMMA NextIsNext ==
    ASSUME NEW rule, NEW after \in Int
    PROVE  /\ NextOccurrence(rule, after) \in Times
           /\ NextOccurrence(rule, after) # 0 =>
                 /\ NextOccurrence(rule, after) > after
                 /\ \A u \in Times : u > after /\ Occurs(rule, u) => NextOccurrence(rule, after) <= u
<1> DEFINE S == {t \in Times : t > after /\ Occurs(rule, t)}
<1>1. CASE S = {}
  <2>1. NextOccurrence(rule, after) = 0
    BY <1>1 DEF NextOccurrence
  <2> QED BY <2>1, ScheduleAssumption DEF Times
<1>2. CASE S # {}
  <2>1. S \in SUBSET Nat
    BY DEF Times
  <2>2. \E m \in S : \A n \in S : m <= n
    BY <1>2, <2>1, LeastExists
  <2>3. \E t \in Times : /\ t > after /\ Occurs(rule, t)
                         /\ \A u \in Times : u > after /\ Occurs(rule, u) => t <= u
    BY <2>2
  <2>4. NextOccurrence(rule, after) =
            CHOOSE t \in Times : /\ t > after /\ Occurs(rule, t)
                                 /\ \A u \in Times : u > after /\ Occurs(rule, u) => t <= u
    BY <2>3 DEF NextOccurrence
  <2> QED BY <2>3, <2>4
<1> QED BY <1>1, <1>2

-----------------------------------------------------------------------------
(* Types                                                                    *)

Row0 == [task : Tasks, status : {"ACTIVE", "PAUSED"}, due : Times, rev : 0 .. MaxRevision]
Requests == [task : Tasks, rev : 1 .. MaxRevision, at : Times]
Plans == [status : {"ABSENT", "ACTIVE", "PAUSED", "DELETED"},
          rule : Rules \cup {NoRule}, due : Times, rev : 0 .. MaxRevision]

(* The rows that timers and requests carry, and what a plan that exists has. *)
Types ==
    /\ TypeOK
    /\ scan \in [Kernels -> SUBSET Row0]
    /\ cut \in [Kernels -> Row0 \cup {NoCut}]
    /\ request \in [Commands -> Requests \cup {NoRequest}]
    /\ \A k \in Kernels : step[k] # "NONE" => cut[k] \in Row0
    /\ \A t \in Tasks : Exists(t) => task[t].rev >= 1
    /\ \A t \in Tasks : task[t].status = "ABSENT" => task[t] = Absent

(* The rows that timers carry to a transaction, and what the clock says of  *)
(* them and of the items of the timer.                                      *)
Carried ==
    /\ \A k \in Kernels : step[k] = "RETIRE" => Up(k) /\ cut[k].due < started[k]
    /\ \A i \in items : i.cmd = Tick => i.due <= now

(* The inductive invariant. *)
PlanIInv ==
    /\ Types
    /\ Carried
    /\ \A t \in Tasks : stopped[t] <= task[t].rev
    /\ PlanInv

-----------------------------------------------------------------------------
(* Types are kept                                                           *)

(* What a transaction puts. *)
IsRow(row) ==
    /\ row \in [status : {"ACTIVE", "PAUSED", "DELETED"}, rule : Rules \cup {NoRule},
                due : Times, rev : Nat]
    /\ row.status # "DELETED" => row.rev >= 1

(* The plans of Types. *)
PlanTypes ==
    /\ task \in [Tasks -> Plans]
    /\ \A t \in Tasks : Exists(t) => task[t].rev >= 1
    /\ \A t \in Tasks : task[t].status = "ABSENT" => task[t] = Absent

LEMMA PlanFields ==
    ASSUME Types, NEW t \in Tasks
    PROVE  /\ task[t] \in Plans /\ task[t].rule \in Rules \cup {NoRule}
           /\ task[t].due \in Times /\ task[t].due \in Int /\ task[t].rev \in Nat
           /\ now \in Int /\ now \in Times
           /\ Exists(t) => task[t].rev >= 1
           /\ task[t].status = "ABSENT" => task[t].rev = 0
<1>1. task[t] \in Plans
  BY DEF Types, TypeOK, Plans
<1>2. now \in 1 .. MaxTime
  BY DEF Types, TypeOK
<1>3. Exists(t) => task[t].rev >= 1
  BY DEF Types
<1>4. task[t].status = "ABSENT" => task[t].rev = 0
  BY DEF Types, Absent, Plan
<1> QED BY <1>1, <1>2, <1>3, <1>4, ScheduleAssumption DEF Plans, Times

(* A row that is put has the type of a plan. *)
LEMMA PutTypes ==
    ASSUME Types, NEW t \in Tasks, NEW row, Put(t, row), IsRow(row)
    PROVE  PlanTypes'
<1>1. task \in [Tasks -> Plans]
  BY DEF Types, TypeOK, Plans
<1>2. row \in Plans
  BY ScheduleAssumption DEF Put, Plans, IsRow
<1> QED BY <1>1, <1>2 DEF Put, Types, Exists, Absent, IsRow, PlanTypes

(* The rows that transactions put: of a deleted and of a paused plan, of a  *)
(* plan with another next run, and of a plan whose occurrence is accepted.  *)
LEMMA DeletedRow ==
    ASSUME Types, NEW t \in Tasks
    PROVE  IsRow(Deleted(t)) /\ Deleted(t).status = "DELETED" /\ Deleted(t).rev = task[t].rev
<1>1. NoRule \in Rules \cup {NoRule} /\ 0 \in Times
  BY ScheduleAssumption DEF Times
<1> QED BY <1>1, PlanFields DEF IsRow, Deleted, Plan

LEMMA PausedRow ==
    ASSUME Types, NEW t \in Tasks
    PROVE  IsRow(Paused(t)) /\ Paused(t).status = "PAUSED" /\ Paused(t).rev = task[t].rev + 1
<1>1. 0 \in Times
  BY ScheduleAssumption DEF Times
<1>2. task[t].rule \in Rules \cup {NoRule} /\ task[t].rev \in Nat
  BY PlanFields
<1> QED BY <1>1, <1>2 DEF IsRow, Paused, Plan

LEMMA DueRow ==
    ASSUME Types, NEW t \in Tasks, Exists(t), NEW due \in Times
    PROVE  LET row == [task[t] EXCEPT !.due = due] IN
           /\ IsRow(row) /\ row.due = due
           /\ row.status = task[t].status /\ row.rev = task[t].rev /\ row.rule = task[t].rule
<1>1. task[t] \in Plans /\ task[t].rule \in Rules \cup {NoRule} /\ task[t].rev \in Nat /\ task[t].rev >= 1
  BY PlanFields
<1>2. [task[t] EXCEPT !.due = due] =
          [status |-> task[t].status, rule |-> task[t].rule, due |-> due, rev |-> task[t].rev]
  BY <1>1 DEF Plans
<1> QED BY <1>1, <1>2 DEF IsRow, Exists

(* What becomes of a plan that exists when one of its occurrences is        *)
(* accepted: it retires, stays as it is, moves on to a later occurrence     *)
(* with none between, or pauses.                                            *)
LEMMA SettleCases ==
    ASSUME Types, NEW t \in Tasks, Exists(t), NEW manual \in BOOLEAN
    PROVE  LET row == Settle(t, manual) IN
           /\ IsRow(row) /\ row.rev >= task[t].rev
           /\ row.status = "ACTIVE" =>
                 /\ task[t].status = "ACTIVE" /\ row.rev = task[t].rev
                 /\ \/ manual /\ row = task[t]
                    \/ /\ ~manual /\ row.due > task[t].due
                       /\ \A u \in Times : u > task[t].due /\ Occurs(task[t].rule, u) => row.due <= u
<1> DEFINE due == NextOccurrence(task[t].rule, task[t].due)
           row == Settle(t, manual)
<1>1. /\ task[t] \in Plans /\ task[t].due \in Int /\ task[t].rev \in Nat
      /\ task[t].rule \in Rules \cup {NoRule} /\ task[t].due \in Times /\ task[t].rev >= 1
  BY PlanFields
<1>2. CASE task[t].rule.kind = "once"
  <2>1. row = Deleted(t)
    BY <1>2 DEF Settle
  <2> QED BY <2>1, DeletedRow, <1>1
<1>3. CASE task[t].rule.kind # "once" /\ manual
  <2>1. row = task[t]
    BY <1>3 DEF Settle
  <2>2. task[t].status \in {"ACTIVE", "PAUSED"}
    BY DEF Exists
  <2>3. IsRow(task[t])
    BY <1>1, <2>2 DEF IsRow, Plans
  <2> QED BY <2>1, <2>3, <1>1, <1>3
<1>4. CASE task[t].rule.kind # "once" /\ ~manual /\ due # 0
  <2>1. row = [task[t] EXCEPT !.due = due]
    BY <1>4 DEF Settle
  <2>2. /\ due \in Times /\ due > task[t].due
        /\ \A u \in Times : u > task[t].due /\ Occurs(task[t].rule, u) => due <= u
    BY <1>1, <1>4, NextIsNext
  <2>3. IsRow(row) /\ row.due = due /\ row.status = task[t].status /\ row.rev = task[t].rev
    BY <2>1, <2>2, DueRow
  <2> HIDE DEF due, row
  <2>4. row.rev >= task[t].rev
    BY <2>3, <1>1
  <2> QED BY <1>4, <2>2, <2>3, <2>4 DEF row
<1>5. CASE task[t].rule.kind # "once" /\ ~manual /\ due = 0
  <2>1. row = Paused(t)
    BY <1>5 DEF Settle
  <2> QED BY <2>1, PausedRow, <1>1
<1> QED BY <1>2, <1>3, <1>4, <1>5

-----------------------------------------------------------------------------
(* What a step does to the plans                                            *)

(* A revision does not fall; the next run of an active plan does not move   *)
(* back, or lies after now; a plan becomes active alone.                    *)
Later(t) == task'[t].rev >= task[t].rev
Ahead(t) ==
    task'[t].status = "ACTIVE" =>
        \/ task[t].status = "ACTIVE" /\ task'[t].due >= task[t].due
        \/ task'[t].due > now
Alone(t) ==
    task'[t].status = "ACTIVE" /\ task[t].status # "ACTIVE" =>
        \A u \in Tasks \ {t} : task'[u].status # "ACTIVE"
PlanMoves == PlanTypes' /\ \A t \in Tasks : Later(t) /\ Ahead(t) /\ Alone(t)

LEMMA KeptPlans ==
    ASSUME Types, UNCHANGED task
    PROVE  PlanMoves
<1>1. PlanTypes'
  BY DEF Types, TypeOK, PlanTypes, Plans, Exists
<1>2. \A t \in Tasks : task[t].rev \in Int /\ task[t].due \in Int
  BY PlanFields
<1> QED BY <1>1, <1>2 DEF PlanMoves, Later, Ahead, Alone

LEMMA PutMoves ==
    ASSUME Types, NEW t \in Tasks, NEW row, Put(t, row), IsRow(row),
           row.rev >= task[t].rev,
           row.status = "ACTIVE" =>
               /\ task[t].status = "ACTIVE" \/ NoOtherActive(t)
               /\ \/ task[t].status = "ACTIVE" /\ row.due >= task[t].due
                  \/ row.due > now
    PROVE  PlanMoves
<1>1. PlanTypes'
  BY PutTypes
<1>2. \A u \in Tasks : task[u].rev \in Int /\ task[u].due \in Int
  BY PlanFields
<1>3. task'[t] = row /\ \A u \in Tasks \ {t} : task'[u] = task[u]
  BY DEF Put, Types, TypeOK
<1>4. Later(t) /\ Ahead(t)
  BY <1>3 DEF Later, Ahead
<1>5. Alone(t)
  BY <1>3 DEF Alone, NoOtherActive
<1>6. ASSUME NEW u \in Tasks \ {t} PROVE Later(u) /\ Ahead(u) /\ Alone(u)
  BY <1>2, <1>3, <1>6 DEF Later, Ahead, Alone
<1> QED BY <1>1, <1>4, <1>5, <1>6 DEF PlanMoves

(* A rule that users may choose is a rule. *)
LEMMA ChosenDue ==
    ASSUME Types, NEW rule, NextOccurrence(rule, now) # 0
    PROVE  NextOccurrence(rule, now) \in Times /\ NextOccurrence(rule, now) > now
<1>1. now \in Int
  BY ScheduleAssumption DEF Types, TypeOK
<1> QED BY <1>1, NextIsNext

LEMMA CreatePlans ==
    ASSUME Types, NEW t \in Tasks, NEW rule \in Rules, NEW status \in {"ACTIVE", "PAUSED"},
           CreateScheduledTask(t, rule, status)
    PROVE  PlanMoves
<1> DEFINE due == NextOccurrence(rule, now)
           row == Plan(status, rule, IF status = "ACTIVE" THEN due ELSE 0, 1)
<1>1. /\ task[t].status = "ABSENT" /\ due # 0 /\ Put(t, row)
      /\ status = "ACTIVE" => NoOtherActive(t)
  BY DEF CreateScheduledTask
<1>2. due \in Times /\ due > now /\ 0 \in Times
  BY <1>1, ChosenDue, ScheduleAssumption DEF Times
<1>3. task[t].rev = 0
  BY <1>1, PlanFields
<1>4. IsRow(row) /\ row.rev = 1 /\ row.status = status /\ (status = "ACTIVE" => row.due = due)
  <2> HIDE DEF due
  <2> QED BY <1>2 DEF IsRow, Plan
<1> HIDE DEF due, row
<1> QED BY <1>1, <1>2, <1>3, <1>4, PutMoves

LEMMA DeletePlans ==
    ASSUME Types, NEW t \in Tasks, Put(t, Deleted(t))
    PROVE  PlanMoves
<1>1. task[t].rev \in Int
  BY PlanFields
<1> QED BY <1>1, DeletedRow, PutMoves

LEMMA PausePlans ==
    ASSUME Types, NEW t \in Tasks, Put(t, Paused(t))
    PROVE  PlanMoves
<1>1. task[t].rev \in Int
  BY PlanFields
<1> QED BY <1>1, PausedRow, PutMoves

LEMMA ResumePlans ==
    ASSUME Types, NEW t \in Tasks, ResumeScheduledTask(t)
    PROVE  PlanMoves
<1> DEFINE due == NextOccurrence(task[t].rule, now)
           row == Plan("ACTIVE", task[t].rule, due, task[t].rev + 1)
<1>1. due # 0 /\ Put(t, row) /\ NoOtherActive(t)
  BY DEF ResumeScheduledTask
<1>2. due \in Times /\ due > now
  BY <1>1, ChosenDue
<1>3. task[t].rev \in Nat /\ task[t].rule \in Rules \cup {NoRule}
  BY PlanFields
<1>4. IsRow(row) /\ row.rev = task[t].rev + 1 /\ row.due = due
  <2> HIDE DEF due
  <2> QED BY <1>2, <1>3 DEF IsRow, Plan
<1> HIDE DEF due, row
<1> QED BY <1>1, <1>2, <1>3, <1>4, PutMoves

LEMMA UpdatePlans ==
    ASSUME Types, NEW t \in Tasks, NEW rule \in Rules, UpdateScheduledTask(t, rule)
    PROVE  PlanMoves
<1> DEFINE due == NextOccurrence(rule, now)
           moved == rule # task[t].rule /\ task[t].status = "ACTIVE"
           row == Plan(task[t].status, rule, IF moved THEN due ELSE task[t].due, task[t].rev + 1)
<1>1. Put(t, row) /\ Exists(t) /\ (moved => due # 0)
  BY DEF UpdateScheduledTask
<1>2. moved => due \in Times /\ due > now
  BY <1>1, ChosenDue
<1>3. task[t].rev \in Nat /\ task[t].due \in Times /\ task[t].due \in Int
  BY PlanFields
<1>4. /\ IsRow(row) /\ row.rev = task[t].rev + 1 /\ row.status = task[t].status
      /\ row.due = IF moved THEN due ELSE task[t].due
  <2> HIDE DEF due, moved
  <2> QED BY <1>1, <1>2, <1>3 DEF IsRow, Plan, Exists
<1>5. row.status = "ACTIVE" =>
          \/ task[t].status = "ACTIVE" /\ row.due >= task[t].due
          \/ row.due > now
  <2> HIDE DEF due, row, moved
  <2> QED BY <1>2, <1>3, <1>4
<1> HIDE DEF due, row, moved
<1> QED BY <1>1, <1>3, <1>4, <1>5, PutMoves

LEMMA SettlePlans ==
    ASSUME Types, NEW t \in Tasks, Exists(t), NEW manual \in BOOLEAN, Put(t, Settle(t, manual))
    PROVE  PlanMoves
<1>1. task[t].due \in Int
  BY PlanFields
<1>2. IsRow(Settle(t, manual)) /\ Settle(t, manual).rev >= task[t].rev
  BY SettleCases
<1>3. Settle(t, manual).status = "ACTIVE" =>
          task[t].status = "ACTIVE" /\ Settle(t, manual).due >= task[t].due
  <2>1. SUFFICES ASSUME Settle(t, manual).status = "ACTIVE"
                 PROVE  task[t].status = "ACTIVE" /\ Settle(t, manual).due >= task[t].due
    OBVIOUS
  <2>2. Settle(t, manual).due \in Int
    BY <1>2 DEF IsRow, Times
  <2> QED BY <1>1, <2>1, <2>2, SettleCases
<1> QED BY <1>2, <1>3, PutMoves

LEMMA RetirePlans ==
    ASSUME Types, NEW k \in Kernels, RetireMissed(k),
           step[k] = "RETIRE" => Up(k) /\ cut[k].due < started[k]
    PROVE  /\ PlanMoves
           /\ \A t \in Tasks : task[t].status = "ACTIVE" /\ task'[t].status = "ACTIVE" /\ task'[t] # task[t] =>
                 /\ t = cut[k].task
                 /\ \A u \in Times : u > started[k] /\ Occurs(task[t].rule, u) => task'[t].due <= u
<1> DEFINE t == cut[k].task
           due == NextOccurrence(task[t].rule, started[k])
<1>1. step[k] = "RETIRE" /\ cut[k] \in Row0 /\ t \in Tasks /\ started[k] \in Nat /\ cut[k].due < started[k]
  BY DEF RetireMissed, Types, TypeOK, Row0, Times
<1>2. CASE UNCHANGED task
  BY <1>2, KeptPlans
<1>3. CASE Put(t, Deleted(t))
  <2>1. PlanMoves
    BY <1>1, <1>3, DeletePlans
  <2>2. task'[t].status = "DELETED" /\ \A u \in Tasks \ {t} : task'[u] = task[u]
    BY <1>1, <1>3, DeletedRow DEF Put, Types, TypeOK
  <2> QED BY <2>1, <2>2
<1>4. CASE Put(t, Paused(t))
  <2>1. PlanMoves
    BY <1>1, <1>4, PausePlans
  <2>2. task'[t].status = "PAUSED" /\ \A u \in Tasks \ {t} : task'[u] = task[u]
    BY <1>1, <1>4, PausedRow DEF Put, Types, TypeOK
  <2> QED BY <2>1, <2>2
<1>5. CASE /\ task[t].status = "ACTIVE" /\ task[t].due = cut[k].due
           /\ due # 0 /\ Put(t, [task[t] EXCEPT !.due = due])
  <2> DEFINE row == [task[t] EXCEPT !.due = due]
  <2>1. /\ due \in Times /\ due > started[k]
        /\ \A u \in Times : u > started[k] /\ Occurs(task[t].rule, u) => due <= u
    BY <1>1, <1>5, NextIsNext
  <2>2. IsRow(row) /\ row.due = due /\ row.status = task[t].status /\ row.rev = task[t].rev
    BY <1>1, <1>5, <2>1, DueRow DEF Exists
  <2>3. task[t].rev \in Int /\ task[t].due \in Int
    BY <1>1, PlanFields
  <2>4. due >= task[t].due
    BY <1>1, <1>5, <2>1, <2>3 DEF Times
  <2>5. PlanMoves
    <3>1. Put(t, row) /\ task[t].status = "ACTIVE"
      BY <1>5
    <3>2. row.rev >= task[t].rev /\ row.due >= task[t].due
      BY <2>2, <2>3, <2>4
    <3> HIDE DEF row, due
    <3> QED BY <1>1, <2>2, <3>1, <3>2, PutMoves
  <2>6. task'[t] = row /\ \A u \in Tasks \ {t} : task'[u] = task[u]
    BY <1>1, <1>5 DEF Put, Types, TypeOK
  <2> QED BY <2>1, <2>2, <2>5, <2>6
<1> QED BY <1>2, <1>3, <1>4, <1>5 DEF RetireMissed

LEMMA SwitchPlans ==
    ASSUME Types, OneActivePlan, NEW t \in Tasks, NEW u \in Tasks, NEW rule \in Rules,
           SwitchScheduledTask(t, u, rule)
    PROVE  PlanMoves /\ task'[t].rev = task[t].rev + 1 /\ task'[u].status = "ACTIVE"
<1> DEFINE due == NextOccurrence(rule, now)
           row == Plan("ACTIVE", rule, due, task[u].rev + 1)
<1>1. /\ t # u /\ task[t].status = "ACTIVE" /\ due # 0
      /\ task[t].rev < MaxRevision /\ task[u].rev < MaxRevision
      /\ task' = [task EXCEPT ![t] = Paused(t), ![u] = row]
  BY DEF SwitchScheduledTask
<1>2. due \in Times /\ due > now
  BY <1>1, ChosenDue
<1>3. /\ task[t].rev \in Nat /\ task[u].rev \in Nat
      /\ \A v \in Tasks : task[v].rev \in Int /\ task[v].due \in Int
  BY PlanFields
<1>4. IsRow(row) /\ row.rev = task[u].rev + 1 /\ row.due = due /\ row.status = "ACTIVE"
  <2> HIDE DEF due
  <2> QED BY <1>2, <1>3 DEF IsRow, Plan
<1>5. IsRow(Paused(t)) /\ Paused(t).status = "PAUSED" /\ Paused(t).rev = task[t].rev + 1
  BY PausedRow
<1>6. /\ task' \in [Tasks -> UNION {{task[v] : v \in Tasks}, {Paused(t), row}}]
      /\ task'[t] = Paused(t) /\ task'[u] = row
      /\ \A v \in Tasks \ {t, u} : task'[v] = task[v]
  <2> HIDE DEF row
  <2> QED BY <1>1 DEF Types, TypeOK
<1>7. row \in Plans /\ Paused(t) \in Plans
  BY <1>1, <1>3, <1>4, <1>5, ScheduleAssumption DEF IsRow, Plans
<1>8. PlanTypes'
  <2>1. task \in [Tasks -> Plans]
    BY DEF Types, TypeOK, Plans
  <2>2. task' \in [Tasks -> Plans]
    <3> HIDE DEF row
    <3> QED BY <1>6, <1>7, <2>1
  <2> HIDE DEF row
  <2>3. ASSUME NEW v \in Tasks
        PROVE  /\ Exists(v)' => task'[v].rev >= 1
               /\ task'[v].status = "ABSENT" => task'[v] = Absent
    BY <1>4, <1>5, <1>6 DEF Types, Exists, IsRow
  <2> QED BY <2>2, <2>3 DEF PlanTypes, Exists
<1>9. ASSUME NEW v \in Tasks PROVE Later(v) /\ Ahead(v)
  <2> HIDE DEF row, due
  <2> QED BY <1>2, <1>3, <1>4, <1>5, <1>6 DEF Later, Ahead
<1>10. ASSUME NEW v \in Tasks PROVE Alone(v)
  <2> HIDE DEF row, due
  <2> QED BY <1>1, <1>4, <1>5, <1>6 DEF Alone, OneActivePlan
<1> QED BY <1>4, <1>5, <1>6, <1>8, <1>9, <1>10 DEF PlanMoves

-----------------------------------------------------------------------------
(* What a step does to the inputs                                           *)

Statuses == {"PENDING", "CONSUMED", "CANCELLED", "REJECTED"}

(* Inputs change their status only, and never back to PENDING; or one       *)
(* pending input of a plan is queued, which its timer leaves behind.        *)
Restated ==
    \E f \in [items -> Statuses] :
        /\ items' = {[i EXCEPT !.status = f[i]] : i \in items}
        /\ \A i \in items : f[i] = "PENDING" => i.status = "PENDING"
Submitted ==
    \E i \in Items :
        /\ items' = items \cup {i}
        /\ i.rev = task[i.task].rev
        /\ UNCHANGED stopped
        /\ i.cmd = Tick =>
              /\ i.due = task[i.task].due /\ i.due <= now
              /\ task[i.task].status = "ACTIVE"
              /\ task'[i.task].status = "ACTIVE" => task'[i.task].due > i.due

(* A plan that is stopped has no input waiting to start a turn. *)
StopMoves ==
    /\ stopped' \in [Tasks -> 0 .. MaxRevision]
    /\ \A t \in Tasks :
          \/ stopped'[t] = stopped[t]
          \/ /\ stopped'[t] = task'[t].rev
             /\ Restated
             /\ \A i \in items' : ~(i.task = t /\ i.mode = "NEW_TURN" /\ i.status = "PENDING")

Moves == PlanMoves /\ (Restated \/ Submitted) /\ StopMoves

(* An input whose status changes keeps everything else. *)
LEMMA RestatedItem ==
    ASSUME NEW i \in Items, NEW s \in Statuses
    PROVE  LET j == [i EXCEPT !.status = s] IN
           /\ j \in Items /\ j.status = s
           /\ j.cmd = i.cmd /\ j.task = i.task /\ j.rev = i.rev /\ j.due = i.due /\ j.mode = i.mode
BY DEF Items, Statuses

LEMMA KeptItems ==
    ASSUME Types, UNCHANGED items
    PROVE  Restated
<1> DEFINE f == [i \in items |-> i.status]
<1>1. ASSUME NEW i \in items PROVE f[i] \in Statuses /\ [i EXCEPT !.status = f[i]] = i
  BY DEF Types, TypeOK, Items, Statuses
<1>2. f \in [items -> Statuses]
  BY <1>1
<1>3. items' = {[i EXCEPT !.status = f[i]] : i \in items}
  BY <1>1
<1> QED BY <1>1, <1>2, <1>3 DEF Restated

LEMMA CancelledItems ==
    ASSUME Types, NEW t \in Tasks, items' = CancelPending(t)
    PROVE  /\ Restated
           /\ \A i \in items' : ~(i.task = t /\ i.mode = "NEW_TURN" /\ i.status = "PENDING")
<1> DEFINE f == [i \in items |-> IF i.task = t /\ i.status = "PENDING" /\ i.mode = "NEW_TURN"
                                 THEN "CANCELLED" ELSE i.status]
<1>1. f \in [items -> Statuses]
  BY DEF Types, TypeOK, Items, Statuses
<1>2. items' = {[i EXCEPT !.status = f[i]] : i \in items}
  BY DEF CancelPending
<1>3. \A i \in items : f[i] = "PENDING" => i.status = "PENDING"
  OBVIOUS
<1>4. Restated
  <2> HIDE DEF f
  <2> QED BY <1>1, <1>2, <1>3 DEF Restated
<1>5. ASSUME NEW i \in items
      PROVE  LET j == [i EXCEPT !.status = f[i]] IN
             ~(j.task = t /\ j.mode = "NEW_TURN" /\ j.status = "PENDING")
  <2>1. i \in Items /\ f[i] \in Statuses
    BY <1>1 DEF Types, TypeOK
  <2>2. /\ [i EXCEPT !.status = f[i]].status = f[i]
        /\ [i EXCEPT !.status = f[i]].task = i.task /\ [i EXCEPT !.status = f[i]].mode = i.mode
    BY <2>1, RestatedItem
  <2> QED BY <2>2
<1> QED BY <1>2, <1>4, <1>5

LEMMA ConsumedItems ==
    ASSUME Types, NEW i \in items, ConsumeItem(i)
    PROVE  Restated
<1> DEFINE f == [j \in items |-> IF j = i THEN "CONSUMED" ELSE j.status]
<1>1. f \in [items -> Statuses]
  BY DEF Types, TypeOK, Items, Statuses
<1>2. ASSUME NEW j \in items, j # i PROVE [j EXCEPT !.status = f[j]] = j
  BY <1>2 DEF Types, TypeOK, Items
<1>3. items' = {[j EXCEPT !.status = f[j]] : j \in items}
  <2>1. items' = (items \ {i}) \cup {[i EXCEPT !.status = "CONSUMED"]}
    BY DEF ConsumeItem
  <2>2. [i EXCEPT !.status = f[i]] = [i EXCEPT !.status = "CONSUMED"]
    OBVIOUS
  <2> QED BY <1>2, <2>1, <2>2
<1>4. \A j \in items : f[j] = "PENDING" => j.status = "PENDING"
  OBVIOUS
<1> HIDE DEF f
<1> QED BY <1>1, <1>3, <1>4 DEF Restated

LEMMA RejectedItems ==
    ASSUME Types, TurnEnds
    PROVE  Restated
<1> DEFINE f == [i \in items |-> IF i.mode = "STEER" /\ i.status = "PENDING" THEN "REJECTED" ELSE i.status]
<1>1. f \in [items -> Statuses]
  BY DEF Types, TypeOK, Items, Statuses
<1>2. items' = {[i EXCEPT !.status = f[i]] : i \in items}
  BY DEF TurnEnds
<1>3. \A i \in items : f[i] = "PENDING" => i.status = "PENDING"
  OBVIOUS
<1> HIDE DEF f
<1> QED BY <1>1, <1>2, <1>3 DEF Restated

-----------------------------------------------------------------------------
(* Every step makes one of these moves                                      *)

LEMMA StillStopped ==
    ASSUME Types, UNCHANGED stopped
    PROVE  StopMoves
BY DEF Types, TypeOK, StopMoves

(* A plan that management stops: its revision is written down. *)
LEMMA NowStopped ==
    ASSUME Types, PlanMoves, NEW t \in Tasks, items' = CancelPending(t),
           stopped' = [stopped EXCEPT ![t] = task[t].rev + 1],
           task'[t].rev = task[t].rev + 1
    PROVE  StopMoves
<1>1. task'[t].rev \in 0 .. MaxRevision
  BY DEF PlanMoves, PlanTypes, Plans
<1>2. stopped \in [Tasks -> 0 .. MaxRevision]
  BY DEF Types, TypeOK
<1> QED BY <1>1, <1>2, CancelledItems DEF StopMoves

LEMMA ManagementMoves ==
    ASSUME Types, OneActivePlan, Management
    PROVE  Moves
<1>1. PICK t \in Tasks :
        \/ \E rule \in Rules, status \in {"ACTIVE", "PAUSED"} : CreateScheduledTask(t, rule, status)
        \/ ExpireManaged(t) \/ PauseScheduledTask(t) \/ DeleteScheduledTask(t) \/ ResumeScheduledTask(t)
        \/ \E rule \in Rules : UpdateScheduledTask(t, rule)
        \/ \E u \in Tasks, rule \in Rules : SwitchScheduledTask(t, u, rule)
        \/ \E cmd \in Commands : RunNow(cmd, t)
  BY Zenon DEF Management
<1>2. CASE \E rule \in Rules, status \in {"ACTIVE", "PAUSED"} : CreateScheduledTask(t, rule, status)
  <2>1. PICK rule \in Rules, status \in {"ACTIVE", "PAUSED"} : CreateScheduledTask(t, rule, status)
    BY <1>2
  <2>2. UNCHANGED <<items, stopped>>
    BY <2>1 DEF CreateScheduledTask
  <2> QED BY <2>1, <2>2, CreatePlans, KeptItems, StillStopped DEF Moves
<1>3. CASE ExpireManaged(t)
  <2>1. Put(t, Deleted(t)) /\ items' = CancelPending(t) /\ UNCHANGED stopped
    BY <1>3 DEF ExpireManaged, Delete
  <2> QED BY <2>1, DeletePlans, CancelledItems, StillStopped DEF Moves
<1>4. CASE PauseScheduledTask(t)
  <2>1. items' = CancelPending(t)
    BY <1>4 DEF PauseScheduledTask
  <2>2. CASE task[t].status = "ACTIVE"
    <3>1. Put(t, Paused(t)) /\ stopped' = [stopped EXCEPT ![t] = task[t].rev + 1]
      BY <1>4, <2>2 DEF PauseScheduledTask
    <3>2. task'[t].rev = task[t].rev + 1
      BY <3>1, PausedRow DEF Put, Types, TypeOK
    <3> QED BY <2>1, <3>1, <3>2, PausePlans, CancelledItems, NowStopped DEF Moves
  <2>3. CASE task[t].status # "ACTIVE"
    <3>1. UNCHANGED <<task, stopped>>
      BY <1>4, <2>3 DEF PauseScheduledTask
    <3> QED BY <2>1, <3>1, KeptPlans, CancelledItems, StillStopped DEF Moves
  <2> QED BY <2>2, <2>3
<1>5. CASE DeleteScheduledTask(t)
  <2>1. Put(t, Deleted(t)) /\ items' = CancelPending(t) /\ UNCHANGED stopped
    BY <1>5 DEF DeleteScheduledTask, Delete
  <2> QED BY <2>1, DeletePlans, CancelledItems, StillStopped DEF Moves
<1>6. CASE ResumeScheduledTask(t)
  <2>1. UNCHANGED <<items, stopped>>
    BY <1>6 DEF ResumeScheduledTask
  <2> QED BY <1>6, <2>1, ResumePlans, KeptItems, StillStopped DEF Moves
<1>7. CASE \E rule \in Rules : UpdateScheduledTask(t, rule)
  <2>1. PICK rule \in Rules : UpdateScheduledTask(t, rule)
    BY <1>7
  <2>2. UNCHANGED <<items, stopped>>
    BY <2>1 DEF UpdateScheduledTask
  <2> QED BY <2>1, <2>2, UpdatePlans, KeptItems, StillStopped DEF Moves
<1>8. CASE \E u \in Tasks, rule \in Rules : SwitchScheduledTask(t, u, rule)
  <2>1. PICK u \in Tasks, rule \in Rules : SwitchScheduledTask(t, u, rule)
    BY <1>8
  <2>2. items' = CancelPending(t) /\ stopped' = [stopped EXCEPT ![t] = task[t].rev + 1]
    BY <2>1 DEF SwitchScheduledTask
  <2>3. PlanMoves /\ task'[t].rev = task[t].rev + 1
    BY <2>1, SwitchPlans
  <2> QED BY <2>2, <2>3, CancelledItems, NowStopped DEF Moves
<1>9. CASE \E cmd \in Commands : RunNow(cmd, t)
  <2>1. UNCHANGED <<task, items, stopped>>
    BY <1>9 DEF RunNow
  <2> QED BY <2>1, KeptPlans, KeptItems, StillStopped DEF Moves
<1> QED BY <1>1, <1>2, <1>3, <1>4, <1>5, <1>6, <1>7, <1>8, <1>9

(* The acceptance of an input by a command or a timer. *)
LEMMA AcceptMoves ==
    ASSUME Types, NEW cmd \in Commands \cup {Tick}, NEW t \in Tasks, NEW rev, NEW due \in Times,
           Exists(t), rev = task[t].rev,
           items' = items \cup {NewItem(cmd, t, rev, due)},
           Put(t, Settle(t, cmd # Tick)), UNCHANGED stopped,
           cmd = Tick => task[t].status = "ACTIVE" /\ task[t].due = due /\ due <= now
    PROVE  Moves
<1> DEFINE i == NewItem(cmd, t, rev, due)
<1>1. PlanMoves
  BY SettlePlans
<1>2. rev \in 1 .. MaxRevision
  <2>1. task[t] \in Plans /\ task[t].rev >= 1 /\ task[t].rev \in Nat
    BY PlanFields
  <2> QED BY <2>1, ScheduleAssumption DEF Plans
<1>3. i \in Items /\ i.cmd = cmd /\ i.task = t /\ i.rev = rev /\ i.due = due
  BY <1>2 DEF NewItem, Items
<1>4. ASSUME cmd = Tick, task'[t].status = "ACTIVE"
      PROVE  task'[t].due > due
  <2>1. task'[t] = Settle(t, FALSE)
    BY <1>4 DEF Put, Types, TypeOK
  <2> QED BY <1>4, <2>1, SettleCases
<1>5. Submitted
  <2> HIDE DEF i
  <2>1. items' = items \cup {i}
    BY DEF i
  <2> QED BY <1>3, <1>4, <2>1 DEF Submitted
<1> QED BY <1>1, <1>5, StillStopped DEF Moves

LEMMA TickMoves ==
    ASSUME Types, NEW k \in Kernels, SubmitTick(k)
    PROVE  Moves
<1> DEFINE c == cut[k]
<1>1. step[k] = "SUBMIT"
  BY DEF SubmitTick
<1>2. c \in Row0 /\ UNCHANGED stopped
  BY <1>1 DEF Types, SubmitTick, rowFrame
<1>3. CASE UNCHANGED <<task, items>>
  BY <1>2, <1>3, KeptPlans, KeptItems, StillStopped DEF Moves
<1>4. CASE /\ TickCutHolds(c)
           /\ items' = items \cup {NewItem(Tick, c.task, c.rev, c.due)}
           /\ Put(c.task, Settle(c.task, FALSE))
  <2>1. /\ c.task \in Tasks /\ c.due \in Times
        /\ task[c.task].status = "ACTIVE" /\ task[c.task].rev = c.rev
        /\ task[c.task].due = c.due /\ c.due <= now
    BY <1>2, <1>4 DEF TickCutHolds, Row0
  <2>2. Exists(c.task) /\ (Tick # Tick) = FALSE
    BY <2>1 DEF Exists
  <2> QED BY <1>2, <1>4, <2>1, <2>2, AcceptMoves
<1> QED BY <1>3, <1>4 DEF SubmitTick

LEMMA ManualMoves ==
    ASSUME Types, NEW k \in Kernels, NEW cmd \in Commands, SubmitManual(k, cmd)
    PROVE  Moves
<1> DEFINE r == request[cmd]
<1>1. /\ r # NoRequest /\ ManualCutHolds(r) /\ UNCHANGED stopped
      /\ items' = items \cup {NewItem(cmd, r.task, r.rev, r.at)}
      /\ Put(r.task, Settle(r.task, TRUE))
  BY DEF SubmitManual
<1>2. r.task \in Tasks /\ r.at \in Times
  BY <1>1 DEF Types, Requests
<1>3. cmd # Tick /\ (cmd # Tick) = TRUE
  BY ScheduleAssumption
<1> QED BY <1>1, <1>2, <1>3, AcceptMoves DEF ManualCutHolds

(* The timers, given that a kernel retires only what precedes its start. *)
LEMMA TimerMoves ==
    ASSUME Types, Carried, NEW k \in Kernels, Timer(k)
    PROVE  Moves
<1>1. CASE StartKernel(k) \/ BeginPass(k) \/ VisitRow(k) \/ ObserveDue(k) \/ SubmitRefused(k) \/ RowFails(k)
  <2>1. UNCHANGED <<task, items, stopped>>
    BY <1>1 DEF StartKernel, BeginPass, VisitRow, ObserveDue, SubmitRefused, RowFails, rowFrame
  <2> QED BY <2>1, KeptPlans, KeptItems, StillStopped DEF Moves
<1>2. CASE ExpireRow(k)
  <2>1. step[k] = "EXPIRE" /\ UNCHANGED stopped
    BY <1>2 DEF ExpireRow, rowFrame
  <2>2. cut[k].task \in Tasks
    BY <2>1 DEF Types, Row0
  <2>3. CASE UNCHANGED <<task, items>>
    BY <2>1, <2>3, KeptPlans, KeptItems, StillStopped DEF Moves
  <2>4. CASE Put(cut[k].task, Deleted(cut[k].task)) /\ items' = CancelPending(cut[k].task)
    BY <2>1, <2>2, <2>4, DeletePlans, CancelledItems, StillStopped DEF Moves
  <2> QED BY <1>2, <2>3, <2>4 DEF ExpireRow, Delete
<1>3. CASE RetireMissed(k)
  <2>1. UNCHANGED <<items, stopped>>
    BY <1>3 DEF RetireMissed, rowFrame
  <2>2. step[k] = "RETIRE" => Up(k) /\ cut[k].due < started[k]
    BY DEF Carried
  <2> QED BY <1>3, <2>1, <2>2, RetirePlans, KeptItems, StillStopped DEF Moves
<1>4. CASE SubmitTick(k)
  BY <1>4, TickMoves
<1>5. CASE PauseRow(k)
  <2>1. step[k] = "PAUSE" /\ UNCHANGED <<items, stopped>>
    BY <1>5 DEF PauseRow, rowFrame
  <2>2. cut[k].task \in Tasks
    BY <2>1 DEF Types, Row0
  <2>3. Put(cut[k].task, Paused(cut[k].task)) \/ UNCHANGED task
    BY <1>5 DEF PauseRow
  <2> QED BY <2>1, <2>2, <2>3, PausePlans, KeptPlans, KeptItems, StillStopped DEF Moves
<1> QED BY <1>1, <1>2, <1>3, <1>4, <1>5 DEF Timer, Row

LEMMA EnvironmentMoves ==
    ASSUME Types, Environment
    PROVE  Moves
<1>1. CASE \E k \in Kernels : StopKernel(k) \/ OpenSession(k)
  <2>1. UNCHANGED <<task, items, stopped>>
    BY <1>1 DEF StopKernel, OpenSession
  <2> QED BY <2>1, KeptPlans, KeptItems, StillStopped DEF Moves
<1>2. CASE \E k \in Kernels, cmd \in Commands : SubmitManual(k, cmd)
  BY <1>2, ManualMoves
<1>3. CASE WriterGone \/ ClockTicks \/ TurnStarts
  <2>1. UNCHANGED <<task, items, stopped>>
    BY <1>3 DEF WriterGone, ClockTicks, TurnStarts
  <2> QED BY <2>1, KeptPlans, KeptItems, StillStopped DEF Moves
<1>4. CASE TurnEnds
  <2>1. UNCHANGED <<task, stopped>>
    BY <1>4 DEF TurnEnds
  <2> QED BY <1>4, <2>1, KeptPlans, RejectedItems, StillStopped DEF Moves
<1>5. CASE \E i \in items : ConsumeItem(i)
  <2>1. UNCHANGED <<task, stopped>>
    BY <1>5 DEF ConsumeItem
  <2> QED BY <1>5, <2>1, KeptPlans, ConsumedItems, StillStopped DEF Moves
<1> QED BY <1>1, <1>2, <1>3, <1>4, <1>5 DEF Environment

LEMMA StepMoves ==
    ASSUME Types, Carried, OneActivePlan, [Next]_vars
    PROVE  Moves
<1>1. CASE UNCHANGED vars
  BY <1>1, KeptPlans, KeptItems, StillStopped DEF Moves, vars
<1>2. CASE Management
  BY <1>2, ManagementMoves
<1>3. CASE \E k \in Kernels : Timer(k)
  BY <1>3, TimerMoves
<1>4. CASE Environment
  BY <1>4, EnvironmentMoves
<1> QED BY <1>1, <1>2, <1>3, <1>4 DEF Next

-----------------------------------------------------------------------------
(* The types are kept                                                       *)

(* What Types and Carried say of the timers, the requests and the clock. *)
TimerTypes ==
    /\ now \in 1 .. MaxTime
    /\ running \in BOOLEAN
    /\ writer \in Kernels \cup {None}
    /\ started \in [Kernels -> Times]
    /\ step \in [Kernels -> Steps]
    /\ scan \in [Kernels -> SUBSET Row0]
    /\ cut \in [Kernels -> Row0 \cup {NoCut}]
    /\ request \in [Commands -> Requests \cup {NoRequest}]
    /\ \A k \in Kernels : step[k] # "NONE" => cut[k] \in Row0
    /\ \A k \in Kernels : step[k] = "RETIRE" => Up(k) /\ cut[k].due < started[k]

(* They make up Types, with the types of the plans and of the inputs. *)
LEMMA TypesSplit ==
    ASSUME PlanTypes', TimerTypes', items' \subseteq Items, stopped' \in [Tasks -> 0 .. MaxRevision]
    PROVE  Types'
<1>1. NoCut.task = None /\ NoCut.due \in Times /\ NoRequest.task = None
  BY ScheduleAssumption DEF NoCut, NoRequest, Times
<1>2. ASSUME NEW k \in Kernels, NEW r \in scan'[k] \cup {cut'[k]}
      PROVE  r.task \in Tasks \cup {None} /\ r.due \in Times
  <2>1. r \in Row0 \cup {NoCut}
    BY <1>2 DEF TimerTypes
  <2> QED BY <1>1, <2>1 DEF Row0
<1>3. ASSUME NEW c \in Commands PROVE request'[c].task \in Tasks \cup {None}
  BY <1>1 DEF TimerTypes, Requests
<1>4. TypeOK'
  BY <1>2, <1>3 DEF TypeOK, PlanTypes, TimerTypes, Plans
<1> QED BY <1>4 DEF Types, PlanTypes, TimerTypes, Exists

LEMMA TypesParts ==
    ASSUME Types, Carried
    PROVE  TimerTypes
BY DEF Types, TypeOK, Carried, TimerTypes

(* The rows of a pass are rows of plans. *)
LEMMA DueRowTypes ==
    ASSUME Types
    PROVE  DueRows \subseteq Row0
<1>1. ASSUME NEW t \in Tasks, task[t].status \in {"ACTIVE", "PAUSED"}
      PROVE  [task |-> t, status |-> task[t].status, due |-> task[t].due, rev |-> task[t].rev] \in Row0
  BY <1>1 DEF Types, TypeOK, Row0
<1>2. ASSUME NEW t \in Tasks, task[t].status = "ACTIVE" \/ IsExpiredOnce(t)
      PROVE  task[t].status \in {"ACTIVE", "PAUSED"}
  BY <1>2 DEF IsExpiredOnce
<1> QED BY <1>1, <1>2 DEF DueRows

LEMMA RunNowTypes ==
    ASSUME Types, TimerTypes, NEW t \in Tasks, NEW cmd \in Commands, RunNow(cmd, t)
    PROVE  TimerTypes'
<1>1. /\ Exists(t)
      /\ request' = [request EXCEPT ![cmd] = [task |-> t, rev |-> task[t].rev, at |-> now]]
      /\ UNCHANGED <<now, running, writer, started, scan, step, cut>>
  BY DEF RunNow, kernelVars
<1>2. task[t] \in Plans /\ task[t].rev >= 1 /\ task[t].rev \in Nat /\ now \in Times
  BY <1>1, PlanFields
<1>3. [task |-> t, rev |-> task[t].rev, at |-> now] \in Requests
  BY <1>2, ScheduleAssumption DEF Requests, Plans
<1>4. request' \in [Commands -> Requests \cup {NoRequest}]
  BY <1>1, <1>3 DEF TimerTypes
<1> QED BY <1>1, <1>4 DEF TimerTypes, Up

LEMMA TimerTypesKept ==
    ASSUME Types, TimerTypes, [Next]_vars
    PROVE  TimerTypes'
<1>1. CASE UNCHANGED <<now, running, writer, kernelVars, request>>
  BY <1>1 DEF TimerTypes, kernelVars, Up
<1>2. CASE Management
  <2>1. ASSUME NEW t \in Tasks, NEW cmd \in Commands, RunNow(cmd, t) PROVE TimerTypes'
    BY <2>1, RunNowTypes
  <2>2. (\E t \in Tasks, cmd \in Commands : RunNow(cmd, t)) \/ UNCHANGED manageFrame
    BY <1>2 DEF Management, CreateScheduledTask, ExpireManaged, PauseScheduledTask,
                DeleteScheduledTask, ResumeScheduledTask, UpdateScheduledTask, SwitchScheduledTask
  <2> QED BY <1>1, <2>1, <2>2 DEF manageFrame
<1>3. ASSUME NEW k \in Kernels, Timer(k) PROVE TimerTypes'
  <2>1. CASE StartKernel(k)
    <3>1. /\ started' = [started EXCEPT ![k] = now] /\ ~Up(k)
          /\ UNCHANGED <<now, running, writer, scan, step, cut, request>>
      BY <2>1 DEF StartKernel
    <3>2. now \in Times
      BY ScheduleAssumption DEF TimerTypes, Times
    <3> QED BY <3>1, <3>2 DEF TimerTypes, Up
  <2>2. CASE BeginPass(k)
    <3>1. /\ scan' = [scan EXCEPT ![k] = DueRows]
          /\ UNCHANGED <<now, running, writer, started, step, cut, request>>
      BY <2>2 DEF BeginPass
    <3> QED BY <3>1, DueRowTypes DEF TimerTypes, Up
  <2>3. CASE VisitRow(k)
    <3>1. PICK row \in scan[k] :
              /\ scan' = [scan EXCEPT ![k] = @ \ {row}]
              /\ cut' = [cut EXCEPT ![k] = row]
              /\ step' = [step EXCEPT ![k] = IF row.status = "PAUSED" THEN "EXPIRE"
                                             ELSE IF row.due < started[k] THEN "RETIRE" ELSE "OBSERVE"]
      BY <2>3 DEF VisitRow, Goes
    <3>2. UNCHANGED <<now, running, writer, started, request>>
      BY <2>3 DEF VisitRow
    <3>3. row \in Row0 /\ row.due \in Nat /\ started[k] \in Nat
      BY DEF TimerTypes, Row0, Times
    <3>4. step' \in [Kernels -> Steps] /\ cut' \in [Kernels -> Row0 \cup {NoCut}]
      BY <3>1, <3>3 DEF TimerTypes, Steps
    <3>5. scan' \in [Kernels -> SUBSET Row0]
      BY <3>1 DEF TimerTypes
    <3>6. /\ cut'[k] = row
          /\ step'[k] = "RETIRE" => row.due < started[k]
          /\ \A l \in Kernels \ {k} : cut'[l] = cut[l] /\ step'[l] = step[l]
      BY <3>1 DEF TimerTypes
    <3>7. step'[k] = "RETIRE" => started[k] # 0
      BY <3>3, <3>6
    <3> QED BY <3>2, <3>3, <3>4, <3>5, <3>6, <3>7 DEF TimerTypes, Up
  <2>4. CASE Row(k) \/ SubmitRefused(k) \/ RowFails(k)
    <3>1. PICK s \in {"NONE", "SUBMIT", "PAUSE"} : step' = [step EXCEPT ![k] = s]
      BY <2>4 DEF Row, ExpireRow, RetireMissed, ObserveDue, SubmitTick, PauseRow, SubmitRefused,
                  RowFails, Goes
    <3>2. UNCHANGED rowFrame
      BY <2>4 DEF Row, ExpireRow, RetireMissed, ObserveDue, SubmitTick, PauseRow, SubmitRefused, RowFails
    <3>3. step[k] # "NONE"
      BY <2>4 DEF Row, ExpireRow, RetireMissed, ObserveDue, SubmitTick, PauseRow, SubmitRefused, RowFails
    <3> QED BY <3>1, <3>2, <3>3 DEF TimerTypes, rowFrame, Steps, Up
  <2> QED BY <1>3, <2>1, <2>2, <2>3, <2>4 DEF Timer
<1>4. CASE Environment
  <2>1. ASSUME NEW k \in Kernels, StopKernel(k) PROVE TimerTypes'
    <3>1. /\ started' = [started EXCEPT ![k] = 0] /\ scan' = [scan EXCEPT ![k] = {}]
          /\ step' = [step EXCEPT ![k] = "NONE"] /\ cut' = [cut EXCEPT ![k] = NoCut]
          /\ UNCHANGED <<now, running, writer, request>>
      BY <2>1 DEF StopKernel
    <3>2. 0 \in Times
      BY ScheduleAssumption DEF Times
    <3> QED BY <3>1, <3>2 DEF TimerTypes, Steps, Up
  <2>2. ASSUME NEW k \in Kernels, OpenSession(k) PROVE TimerTypes'
    BY <2>2 DEF OpenSession, TimerTypes, kernelVars, Up
  <2>3. CASE WriterGone
    BY <2>3 DEF WriterGone, TimerTypes, kernelVars, Up
  <2>4. CASE ClockTicks
    <3>1. now' \in 1 .. MaxTime
      BY <2>4, ScheduleAssumption DEF ClockTicks, TimerTypes
    <3> QED BY <2>4, <3>1 DEF ClockTicks, TimerTypes, kernelVars, Up
  <2>5. CASE TurnStarts \/ TurnEnds \/ \E i \in items : ConsumeItem(i)
    BY <2>5 DEF TurnStarts, TurnEnds, ConsumeItem, TimerTypes, kernelVars, Up
  <2>6. ASSUME NEW k \in Kernels, NEW cmd \in Commands, SubmitManual(k, cmd) PROVE TimerTypes'
    BY <1>1, <2>6 DEF SubmitManual
  <2> QED BY <1>4, <2>1, <2>2, <2>3, <2>4, <2>5, <2>6 DEF Environment
<1> QED BY <1>1, <1>2, <1>3, <1>4 DEF Next, vars

LEMMA ClockRuns ==
    ASSUME Types, [Next]_vars
    PROVE  now' >= now
<1>1. now \in Int
  BY ScheduleAssumption DEF Types, TypeOK
<1>2. now' = now \/ now' = now + 1
  BY DEF Next, vars, Management, CreateScheduledTask, ExpireManaged, PauseScheduledTask,
         DeleteScheduledTask, ResumeScheduledTask, UpdateScheduledTask, SwitchScheduledTask, RunNow,
         manageFrame, Timer, StartKernel, BeginPass, VisitRow, Row, ExpireRow, RetireMissed,
         ObserveDue, SubmitTick, PauseRow, SubmitRefused, RowFails, rowFrame, Environment,
         StopKernel, OpenSession, SubmitManual, WriterGone, ClockTicks, TurnStarts, TurnEnds, ConsumeItem
<1> QED BY <1>1, <1>2

-----------------------------------------------------------------------------
(* The properties are kept by every move                                    *)

(* Where an input of the next state comes from. *)
LEMMA ItemOrigin ==
    ASSUME Types, Restated, NEW i \in items'
    PROVE  /\ i \in Items
           /\ \E j \in items : /\ i.cmd = j.cmd /\ i.task = j.task /\ i.rev = j.rev
                               /\ i.due = j.due /\ i.mode = j.mode
                               /\ i.status = "PENDING" => j.status = "PENDING"
<1>1. PICK f \in [items -> Statuses] :
          /\ items' = {[j EXCEPT !.status = f[j]] : j \in items}
          /\ \A j \in items : f[j] = "PENDING" => j.status = "PENDING"
  BY DEF Restated
<1>2. PICK j \in items : i = [j EXCEPT !.status = f[j]]
  BY <1>1
<1>3. j \in Items /\ f[j] \in Statuses
  BY <1>1 DEF Types, TypeOK
<1>4. /\ i \in Items /\ i.status = f[j]
      /\ i.cmd = j.cmd /\ i.task = j.task /\ i.rev = j.rev /\ i.due = j.due /\ i.mode = j.mode
  BY <1>2, <1>3, RestatedItem
<1> QED BY <1>1, <1>4

(* Inputs that differ keep differing: the status is all that changes. *)
LEMMA RestatedUnique ==
    ASSUME Types, Restated, OccurrenceQueuedOnce
    PROVE  OccurrenceQueuedOnce'
<1>1. PICK f \in [items -> Statuses] : items' = {[j EXCEPT !.status = f[j]] : j \in items}
  BY DEF Restated
<1>2. ASSUME NEW a \in items', NEW b \in items',
             a.cmd = Tick, b.cmd = Tick, a.task = b.task, a.due = b.due
      PROVE  a = b
  <2>1. PICK i \in items : a = [i EXCEPT !.status = f[i]]
    BY <1>1
  <2>2. PICK j \in items : b = [j EXCEPT !.status = f[j]]
    BY <1>1
  <2>3. /\ i \in Items /\ f[i] \in Statuses
        /\ j \in Items /\ f[j] \in Statuses
    BY <1>1 DEF Types, TypeOK
  <2>4. /\ a.cmd = i.cmd /\ a.task = i.task /\ a.due = i.due
        /\ b.cmd = j.cmd /\ b.task = j.task /\ b.due = j.due
    BY <2>1, <2>2, <2>3, RestatedItem
  <2>5. i = j
    BY <1>2, <2>4 DEF OccurrenceQueuedOnce
  <2> QED BY <2>1, <2>2, <2>5
<1> QED BY <1>2 DEF OccurrenceQueuedOnce

(* A next run that moved lies after everything its timer has queued. *)
LEMMA AheadOfQueued ==
    ASSUME Types, Carried, NextRunIsAhead, PlanMoves, NEW t \in Tasks, task'[t].status = "ACTIVE",
           NEW i \in items, i.cmd = Tick, i.task = t
    PROVE  i.due < task'[t].due
<1>1. i.due \in Int /\ now \in Int /\ task[t].due \in Int /\ task'[t].due \in Int
  <2>1. i.due \in Times
    BY DEF Types, TypeOK, Items
  <2>2. task'[t].due \in Times
    BY DEF PlanMoves, PlanTypes, Plans
  <2> QED BY <2>1, <2>2, PlanFields DEF Times
<1>2. i.due <= now
  BY DEF Carried
<1>3. CASE task'[t].due > now
  BY <1>1, <1>2, <1>3
<1>4. CASE task[t].status = "ACTIVE" /\ task'[t].due >= task[t].due
  <2>1. i.due < task[t].due
    BY <1>4 DEF NextRunIsAhead
  <2> QED BY <1>1, <1>4, <2>1
<1> QED BY <1>3, <1>4 DEF PlanMoves, Ahead

LEMMA PlanInvKept ==
    ASSUME PlanIInv, [Next]_vars
    PROVE  PlanIInv'
<1>1. Types /\ Carried /\ PlanInv /\ \A t \in Tasks : stopped[t] <= task[t].rev
  BY DEF PlanIInv
<1>2. Moves
  BY <1>1, StepMoves DEF PlanInv
<1>3. TimerTypes'
  BY <1>1, TypesParts, TimerTypesKept
<1>4. PlanTypes' /\ stopped' \in [Tasks -> 0 .. MaxRevision]
  BY <1>2 DEF Moves, PlanMoves, StopMoves
<1>5. items' \subseteq Items
  <2>1. CASE Restated
    BY <1>1, <2>1, ItemOrigin
  <2>2. CASE Submitted
    BY <1>1, <2>2 DEF Submitted, Types, TypeOK
  <2> QED BY <1>2, <2>1, <2>2 DEF Moves
<1>6. Types'
  BY <1>3, <1>4, <1>5, TypesSplit
<1>7. Carried'
  <2>1. \A i \in items : i.cmd = Tick => i.due \in Int /\ i.due <= now
    BY <1>1 DEF Carried, Types, TypeOK, Items, Times
  <2>2. now \in Int /\ now' \in Int /\ now' >= now
    BY <1>1, <1>6, ClockRuns, ScheduleAssumption DEF Types, TypeOK
  <2>3. \A i \in items' : i.cmd = Tick => i.due <= now'
    <3>1. CASE Restated
      BY <1>1, <2>1, <2>2, <3>1, ItemOrigin
    <3>2. CASE Submitted
      <4>1. PICK i \in Items : items' = items \cup {i} /\ (i.cmd = Tick => i.due <= now)
        BY <3>2 DEF Submitted
      <4>2. i.due \in Int
        BY DEF Items, Times
      <4> QED BY <2>1, <2>2, <4>1, <4>2
    <3> QED BY <1>2, <3>1, <3>2 DEF Moves
  <2> QED BY <1>3, <2>3 DEF Carried, TimerTypes
<1>8. \A t \in Tasks : stopped'[t] <= task'[t].rev
  <2>1. ASSUME NEW t \in Tasks PROVE stopped'[t] <= task'[t].rev
    <3>1. /\ task[t].rev \in Int /\ task'[t].rev \in Int /\ stopped[t] \in Int /\ stopped'[t] \in Int
          /\ stopped[t] <= task[t].rev
      BY <1>1, <1>4, PlanFields DEF Types, TypeOK, PlanTypes, Plans
    <3>2. task'[t].rev >= task[t].rev
      BY <1>2 DEF Moves, PlanMoves, Later
    <3> QED BY <1>2, <3>1, <3>2 DEF Moves, StopMoves
  <2> QED BY <2>1
<1>9. OneActivePlan'
  BY <1>1, <1>2 DEF PlanInv, OneActivePlan, Moves, PlanMoves, Alone
<1>10. NextRunIsAhead'
  <2>1. ASSUME NEW t \in Tasks, task'[t].status = "ACTIVE", NEW i \in items', i.cmd = Tick, i.task = t
        PROVE  i.due < task'[t].due
    <3>1. CASE Restated
      <4>1. PICK j \in items : i.cmd = j.cmd /\ i.task = j.task /\ i.due = j.due
        BY <1>1, <3>1, ItemOrigin
      <4> QED BY <1>1, <1>2, <2>1, <4>1, AheadOfQueued DEF PlanInv, Moves
    <3>2. CASE Submitted
      <4>1. PICK new \in Items :
                /\ items' = items \cup {new}
                /\ new.cmd = Tick => (task'[new.task].status = "ACTIVE" => task'[new.task].due > new.due)
        BY <3>2 DEF Submitted
      <4>2. CASE i = new
        <5>1. task'[t].due > i.due
          BY <2>1, <4>1, <4>2
        <5>2. task'[t].due \in Int /\ i.due \in Int
          BY <1>4, <4>2 DEF PlanTypes, Plans, Items, Times
        <5> QED BY <5>1, <5>2
      <4>3. CASE i \in items
        BY <1>1, <1>2, <2>1, <4>3, AheadOfQueued DEF PlanInv, Moves
      <4> QED BY <4>1, <4>2, <4>3
    <3> QED BY <1>2, <3>1, <3>2 DEF Moves
  <2> QED BY <2>1 DEF NextRunIsAhead
<1>11. OccurrenceQueuedOnce'
  <2>1. CASE Restated
    BY <1>1, <2>1, RestatedUnique DEF PlanInv
  <2>2. CASE Submitted
    <3>1. PICK new \in Items :
              /\ items' = items \cup {new}
              /\ new.cmd = Tick => new.due = task[new.task].due /\ task[new.task].status = "ACTIVE"
      BY <2>2 DEF Submitted
    <3>2. ASSUME NEW i \in items, i.cmd = Tick, new.cmd = Tick, i.task = new.task PROVE i.due # new.due
      <4>1. i.due < task[new.task].due /\ new.due = task[new.task].due /\ new.task \in Tasks
        BY <1>1, <3>1, <3>2 DEF PlanInv, NextRunIsAhead, Items
      <4>2. i.due \in Int /\ new.due \in Int
        BY <1>1 DEF Types, TypeOK, Items, Times
      <4> QED BY <4>1, <4>2
    <3> QED BY <1>1, <3>1, <3>2 DEF PlanInv, OccurrenceQueuedOnce
  <2> QED BY <1>2, <2>1, <2>2 DEF Moves
<1>12. StoppedPlanQueuesNothing'
  <2>1. ASSUME NEW i \in items', i.mode = "NEW_TURN", i.status = "PENDING"
        PROVE  i.rev >= stopped'[i.task]
    <3>1. CASE Restated
      <4>1. PICK j \in items : /\ i.task = j.task /\ i.rev = j.rev /\ i.mode = j.mode
                               /\ j.status = "PENDING"
        BY <1>1, <2>1, <3>1, ItemOrigin
      <4>2. i.rev >= stopped[i.task]
        BY <1>1, <2>1, <4>1 DEF PlanInv, StoppedPlanQueuesNothing
      <4>3. i.task \in Tasks
        BY <1>1, <4>1 DEF Types, TypeOK, Items
      <4>4. stopped'[i.task] = stopped[i.task]
        BY <1>2, <2>1, <4>3 DEF Moves, StopMoves
      <4> QED BY <4>2, <4>4
    <3>2. CASE Submitted
      <4>1. PICK new \in Items : /\ items' = items \cup {new} /\ new.rev = task[new.task].rev
                                 /\ UNCHANGED stopped
        BY <3>2 DEF Submitted
      <4>2. CASE i = new
        <5>1. i.task \in Tasks /\ i.rev = task[i.task].rev /\ i.rev \in Int
          BY <4>1, <4>2 DEF Items
        <5>2. stopped[i.task] <= task[i.task].rev /\ stopped[i.task] \in Int
          BY <1>1, <5>1 DEF Types, TypeOK
        <5> QED BY <4>1, <5>1, <5>2
      <4>3. CASE i \in items
        BY <1>1, <2>1, <4>1, <4>3 DEF PlanInv, StoppedPlanQueuesNothing
      <4> QED BY <4>1, <4>2, <4>3
    <3> QED BY <1>2, <3>1, <3>2 DEF Moves
  <2> QED BY <2>1 DEF StoppedPlanQueuesNothing
<1>13. PlanInv'
  BY <1>6, <1>9, <1>10, <1>11, <1>12 DEF PlanInv, Types
<1> QED BY <1>6, <1>7, <1>8, <1>13 DEF PlanIInv

LEMMA PlanInvStarts ==
    ASSUME Init
    PROVE  PlanIInv
<1>1. 0 \in Times /\ 1 \in 1 .. MaxTime /\ 0 \in 0 .. MaxRevision
  BY ScheduleAssumption DEF Times
<1>2. TypeOK
  <2>1. task \in [Tasks -> [status : {"ABSENT", "ACTIVE", "PAUSED", "DELETED"},
                           rule : Rules \cup {NoRule}, due : Times, rev : 0 .. MaxRevision]]
    BY <1>1 DEF Init, Absent, Plan
  <2>2. \A k \in Kernels : \A r \in scan[k] \cup {cut[k]} : r.task \in Tasks \cup {None} /\ r.due \in Times
    BY <1>1 DEF Init, NoCut
  <2>3. \A c \in Commands : request[c].task \in Tasks \cup {None}
    BY DEF Init, NoRequest
  <2>4. started \in [Kernels -> Times] /\ step \in [Kernels -> Steps] /\ stopped \in [Tasks -> 0 .. MaxRevision]
    BY <1>1 DEF Init, Steps
  <2> QED BY <1>1, <2>1, <2>2, <2>3, <2>4 DEF Init, TypeOK
<1>3. Types
  BY <1>2 DEF Init, Types, Absent, Plan, Exists
<1>4. Carried /\ \A t \in Tasks : stopped[t] <= task[t].rev
  BY DEF Init, Carried, Absent, Plan
<1>5. OneActivePlan /\ OccurrenceQueuedOnce /\ NextRunIsAhead /\ StoppedPlanQueuesNothing
  BY DEF Init, OneActivePlan, OccurrenceQueuedOnce, NextRunIsAhead, StoppedPlanQueuesNothing, Absent, Plan
<1> QED BY <1>2, <1>3, <1>4, <1>5 DEF PlanIInv, PlanInv

(* One plan of a session is active, an occurrence is queued once and not in *)
(* the past, and a plan that was stopped starts no turn, whatever the       *)
(* timers of the kernels carry from one transaction to the next.            *)
THEOREM PlansAreSound == Spec => []PlanInv
<1>1. Init => PlanIInv
  BY PlanInvStarts
<1>2. PlanIInv /\ [Next]_vars => PlanIInv'
  BY PlanInvKept
<1>3. PlanIInv => PlanInv
  BY DEF PlanIInv
<1> QED BY <1>1, <1>2, <1>3, PTL DEF Spec

-----------------------------------------------------------------------------
(* No occurrence is passed over                                             *)

(* A plan that advances was accepted or retired; nothing else moves its     *)
(* next run without a new revision.                                         *)
LEMMA OthersDoNotAdvance ==
    ASSUME Types, [Next]_vars, NEW t \in Tasks, Advances(t), task'[t].due # task[t].due
    PROVE  \E k \in Kernels : RetireMissed(k) \/ SubmitTick(k)
<1>1. ASSUME NEW u \in Tasks, NEW row, Put(u, row) PROVE u = t /\ task'[t] = row
  BY <1>1 DEF Put, Types, TypeOK
<1>2. task'[t].rev = task[t].rev /\ task[t].rev \in Nat /\ task[t].status = "ACTIVE" /\ task'[t].status = "ACTIVE"
  BY PlanFields DEF Advances
<1>3. ASSUME NEW u \in Tasks, Put(u, Deleted(u)) PROVE FALSE
  BY <1>1, <1>2, <1>3, DeletedRow
<1>4. ASSUME NEW u \in Tasks, Put(u, Paused(u)) PROVE FALSE
  BY <1>1, <1>2, <1>4, PausedRow
<1>5. ~UNCHANGED task
  OBVIOUS
<1>6. ~Management
  <2>1. ASSUME NEW u \in Tasks, NEW rule \in Rules, NEW status \in {"ACTIVE", "PAUSED"},
               CreateScheduledTask(u, rule, status)
        PROVE  FALSE
    BY <1>1, <1>2, <2>1 DEF CreateScheduledTask
  <2>2. ASSUME NEW u \in Tasks, ExpireManaged(u) \/ DeleteScheduledTask(u) PROVE FALSE
    BY <1>3, <2>2 DEF ExpireManaged, DeleteScheduledTask, Delete
  <2>3. ASSUME NEW u \in Tasks, PauseScheduledTask(u) PROVE FALSE
    BY <1>4, <1>5, <2>3 DEF PauseScheduledTask
  <2>4. ASSUME NEW u \in Tasks, ResumeScheduledTask(u) PROVE FALSE
    BY <1>1, <1>2, <2>4 DEF ResumeScheduledTask
  <2>5. ASSUME NEW u \in Tasks, NEW rule \in Rules, UpdateScheduledTask(u, rule) PROVE FALSE
    BY <1>1, <1>2, <2>5 DEF UpdateScheduledTask, Plan
  <2>6. ASSUME NEW u \in Tasks, NEW v \in Tasks, NEW rule \in Rules, SwitchScheduledTask(u, v, rule) PROVE FALSE
    <3>1. /\ u # v /\ task[u].status = "ACTIVE" /\ task[v].status \in {"ABSENT", "PAUSED"}
          /\ task' = [task EXCEPT ![u] = Paused(u),
                        ![v] = Plan("ACTIVE", rule, NextOccurrence(rule, now), task[v].rev + 1)]
      BY <2>6 DEF SwitchScheduledTask
    <3>2. task \in [Tasks -> UNION {{task[x] : x \in Tasks}}]
      BY DEF Types, TypeOK
    <3>3. CASE t = u
      BY <1>2, <3>1, <3>2, <3>3, PausedRow
    <3>4. CASE t = v
      BY <1>2, <3>1, <3>4
    <3>5. CASE t # u /\ t # v
      BY <3>1, <3>2, <3>5
    <3> QED BY <3>3, <3>4, <3>5
  <2>7. ASSUME NEW u \in Tasks, NEW cmd \in Commands, RunNow(cmd, u) PROVE FALSE
    BY <1>5, <2>7 DEF RunNow
  <2> QED BY <2>1, <2>2, <2>3, <2>4, <2>5, <2>6, <2>7 DEF Management
<1>7. ASSUME NEW k \in Kernels, Timer(k) PROVE RetireMissed(k) \/ SubmitTick(k)
  <2>1. ~(StartKernel(k) \/ BeginPass(k) \/ VisitRow(k) \/ ObserveDue(k) \/ SubmitRefused(k) \/ RowFails(k))
    BY <1>5 DEF StartKernel, BeginPass, VisitRow, ObserveDue, SubmitRefused, RowFails
  <2>2. ~ExpireRow(k)
    <3>1. ExpireRow(k) => cut[k].task \in Tasks
      BY DEF ExpireRow, Types, Row0
    <3> QED BY <1>3, <1>5, <3>1 DEF ExpireRow, Delete
  <2>3. ~PauseRow(k)
    <3>1. PauseRow(k) => cut[k].task \in Tasks
      BY DEF PauseRow, Types, Row0
    <3> QED BY <1>4, <1>5, <3>1 DEF PauseRow
  <2> QED BY <1>7, <2>1, <2>2, <2>3 DEF Timer, Row
<1>8. ~Environment
  <2>1. ASSUME NEW k \in Kernels, NEW cmd \in Commands, SubmitManual(k, cmd) PROVE FALSE
    <3> DEFINE r == request[cmd]
    <3>1. r # NoRequest /\ Exists(r.task) /\ Put(r.task, Settle(r.task, TRUE))
      BY <2>1 DEF SubmitManual, ManualCutHolds
    <3>2. r.task \in Tasks
      BY <3>1 DEF Types, Requests
    <3>3. r.task = t /\ task'[t] = Settle(t, TRUE)
      BY <1>1, <3>1, <3>2
    <3> QED BY <1>2, <3>1, <3>3, SettleCases
  <2>2. ~(\E k \in Kernels : StopKernel(k) \/ OpenSession(k))
    BY <1>5 DEF StopKernel, OpenSession
  <2>3. ~(WriterGone \/ ClockTicks \/ TurnStarts \/ TurnEnds \/ \E i \in items : ConsumeItem(i))
    BY <1>5 DEF WriterGone, ClockTicks, TurnStarts, TurnEnds, ConsumeItem
  <2> QED BY <2>1, <2>2, <2>3 DEF Environment
<1> QED BY <1>5, <1>6, <1>7, <1>8 DEF Next, vars

(* The two that do leave nothing behind that falls into the run of a kernel. *)
LEMMA AdvanceIsCovered ==
    ASSUME Types, Carried, [Next]_vars, NEW t \in Tasks, Advances(t)
    PROVE  OnlyEarlyOnesPassedOver(t)
<1>1. SUFFICES ASSUME NEW o \in task[t].due .. (task'[t].due - 1), Occurs(task[t].rule, o)
               PROVE  \/ \E k \in Kernels : Up(k) /\ o <= started[k]
                      \/ \E i \in items' : i.cmd = Tick /\ i.task = t /\ i.due = o
  BY DEF OnlyEarlyOnesPassedOver
<1>2. task[t].due \in Times /\ task[t].due \in Nat /\ task[t].status = "ACTIVE" /\ task'[t].status = "ACTIVE"
  BY PlanFields DEF Times, Advances
<1>3. CASE task'[t].due = task[t].due
  BY <1>1, <1>2, <1>3
<1>4. ASSUME NEW k \in Kernels, RetireMissed(k), task'[t].due # task[t].due
      PROVE  Up(k) /\ o <= started[k]
  <2>1. step[k] = "RETIRE" /\ Up(k) /\ started[k] \in Nat
    BY <1>4 DEF RetireMissed, Carried, Types, TypeOK, Times
  <2>2. PlanTypes' /\ \A u \in Times : u > started[k] /\ Occurs(task[t].rule, u) => task'[t].due <= u
    BY <1>2, <1>4, <2>1, RetirePlans DEF Carried, PlanMoves
  <2>3. task'[t].due \in Times
    BY <2>2 DEF PlanTypes, Plans
  <2>4. o \in Times /\ o \in Nat /\ task'[t].due \in Nat /\ ~(task'[t].due <= o)
    BY <1>1, <1>2, <2>3, ScheduleAssumption DEF Times
  <2> QED BY <1>1, <2>1, <2>2, <2>4
<1>5. ASSUME NEW k \in Kernels, SubmitTick(k), task'[t].due # task[t].due
      PROVE  \E i \in items' : i.cmd = Tick /\ i.task = t /\ i.due = o
  <2> DEFINE c == cut[k]
             new == NewItem(Tick, c.task, c.rev, c.due)
  <2>1. /\ TickCutHolds(c) /\ items' = items \cup {new}
        /\ Put(c.task, Settle(c.task, FALSE))
    BY <1>5 DEF SubmitTick
  <2>2. c.task = t /\ task'[t] = Settle(t, FALSE)
    BY <1>5, <2>1 DEF Put, Types, TypeOK
  <2>3. new.cmd = Tick /\ new.task = t /\ new.due = task[t].due
    BY <2>1, <2>2 DEF NewItem, TickCutHolds
  <2>4. /\ IsRow(Settle(t, FALSE))
        /\ \A u \in Times : u > task[t].due /\ Occurs(task[t].rule, u) => task'[t].due <= u
    BY <1>2, <2>2, SettleCases DEF Exists
  <2>5. task'[t].due \in Times
    BY <2>2, <2>4 DEF IsRow
  <2>6. o \in Times /\ o \in Nat /\ task'[t].due \in Nat /\ ~(task'[t].due <= o) /\ o >= task[t].due
    BY <1>1, <1>2, <2>5, ScheduleAssumption DEF Times
  <2>7. ~(o > task[t].due)
    BY <1>1, <2>4, <2>6
  <2>8. o = task[t].due
    BY <1>2, <2>6, <2>7
  <2> HIDE DEF new
  <2> QED BY <2>1, <2>3, <2>8
<1> QED BY <1>3, <1>4, <1>5, OthersDoNotAdvance

(* No occurrence that falls into the run of a kernel is passed over: while  *)
(* nobody manages the plan, its next run moves past an occurrence only      *)
(* after queueing it.                                                       *)
THEOREM NothingIsSkipped == Spec => NoLiveOccurrenceSkipped
<1>1. Init => PlanIInv
  BY PlanInvStarts
<1>2. PlanIInv /\ [Next]_vars => PlanIInv'
  BY PlanInvKept
<1>3. PlanIInv /\ [Next]_vars => \A t \in Tasks : Advances(t) => OnlyEarlyOnesPassedOver(t)
  BY AdvanceIsCovered DEF PlanIInv
<1>4. PlanIInv /\ [Next]_vars => [\A t \in Tasks : Advances(t) => OnlyEarlyOnesPassedOver(t)]_vars
  BY <1>3
<1> QED BY <1>1, <1>2, <1>4, PTL DEF Spec, NoLiveOccurrenceSkipped

=============================================================================
