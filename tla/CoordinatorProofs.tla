-------------------------- MODULE CoordinatorProofs --------------------------
(***************************************************************************)
(* Theorems about the two coordinators of a host, ToolInteraction and      *)
(* TurnAdmission, for every value of their constants.                      *)
(***************************************************************************)
EXTENDS ToolInteraction, TurnAdmission, TLAPS

-----------------------------------------------------------------------------
(* ToolInteraction: the inductive invariant                                *)

(* A request is held from its arrival until its answer. *)
Held(c) ==
    /\ waiter[c] = "NEW" => c \notin Queued /\ future[c] = "NONE" /\ committed[c] = "NONE"
    /\ c \in Queued => future[c] = "NONE"
    /\ c \in Queued \ Forms => waiter[c] \in {"WAITING", "JOINING"}
    /\ waiter[c] \in {"WAITING", "JOINING"} /\ future[c] = "NONE" => c \in Queued

(* The resolution of a request keeps the shown slot, and only the write of  *)
(* a confirmation commits.                                                  *)
Resolution(c) ==
    /\ Resolving(c) => pending = c
    /\ c \in invalid => Resolving(c)
    /\ phase[c] = "PARSING" => c \in Forms
    /\ phase[c] \in {"WRITING", "ACKED", "LOST"} => c \notin Forms
    /\ phase[c] = "WRITING" => /\ committed[c] = "NONE"
                               /\ choice[c].decision \in {"ALLOW", "DENY"}
    /\ phase[c] = "ACKED" => committed[c] # "NONE"

(* A committed decision is on its way to the waiter or has reached it. *)
Agreement(c) ==
    /\ committed[c] # "NONE" => c \notin Forms
    /\ committed[c] # "NONE" /\ c \in Queued => phase[c] \in {"ACKED", "LOST"}
    /\ future[c] \in {"ALLOW", "DENY"} => committed[c] = future[c]
    /\ future[c] \in {"REFUSED", "SUBMIT", "CANCEL"} => committed[c] = "NONE"

PermitHeld(c) ==
    c \in Hooked =>
        (c \in permits <=>
            \/ pending = c
            \/ future[c] = "ALLOW" /\ waiter[c] \in {"WAITING", "JOINING", "ALLOW"})

LocalInv(c) == Held(c) /\ Resolution(c) /\ Agreement(c) /\ PermitHeld(c)

RequestInv == \A c \in Requests : LocalInv(c)

QueueInv ==
    /\ pending \notin dormant
    /\ HeadIsShown
    /\ ClosedHostIsQuiet

InteractionInv == TypeOK /\ RequestInv /\ QueueInv

-----------------------------------------------------------------------------
(* What a step does to each request                                        *)

Futures == [Requests -> {"NONE"} \cup Answers]

(* Request d keeps its place, or moves from the queue into the shown slot. *)
Stays(d) ==
    /\ d \in Queued' <=> d \in Queued
    /\ pending = d => pending' = d
    /\ future'[d] = future[d]
    /\ d \in permits' <=> d \in permits \/ (d \in Hooked /\ pending' = d)

(* Request d, which was not being resolved, leaves with a local refusal. *)
Refused(d) ==
    /\ d \in Queued
    /\ ~Resolving(d)
    /\ d \notin Queued'
    /\ future'[d] = "REFUSED"
    /\ d \notin permits'

(* The queue variables have their types and the queue does not stall. *)
QueueOK ==
    /\ pending' \in Requests \cup {None}
    /\ dormant' \subseteq Requests
    /\ future' \in Futures
    /\ permits' \subseteq Hooked
    /\ pending' \notin dormant'

(* What _promote_next leaves of the shown request p and the queue D, given  *)
(* the futures f and the permits kept.                                      *)
Promoted(p, D, f, kept, shown) ==
    /\ QueueOK
    /\ shown /\ pending' = None => dormant' = {}
    /\ ~shown => pending' = p /\ dormant' = D
    /\ \A d \in Requests :
          \/ /\ d = p \/ d \in D
             /\ d \in Queued'
             /\ d = p => pending' = d
             /\ future'[d] = f[d]
             /\ d \in permits' <=>
                   d \in kept \/ (d \in Hooked /\ d # p /\ pending' = d)
          \/ /\ d \in D
             /\ d \notin Queued'
             /\ future'[d] = IF f[d] = "NONE" THEN "REFUSED" ELSE f[d]
             /\ d \notin permits'
          \/ /\ d # p /\ d \notin D
             /\ d \notin Queued'
             /\ future'[d] = f[d]
             /\ d \in permits' <=> d \in kept

(* Answering keeps the futures well typed. *)
LEMMA AnsweredType ==
    ASSUME NEW f \in Futures, NEW S, NEW answer \in Answers
    PROVE  /\ Answered(f, S, answer) \in Futures
           /\ \A d \in Requests :
                 Answered(f, S, answer)[d] =
                     IF d \in S /\ f[d] = "NONE" THEN answer ELSE f[d]
BY DEF Futures, Answered

(* _promote_next keeps the shown request; otherwise it shows one of D and   *)
(* refuses some of D.                                                       *)
LEMMA PromoteEffect ==
    ASSUME RequestsAssumption,
           NEW p \in Requests \cup {None}, NEW D \in SUBSET Requests, p \notin D,
           NEW order \in [Requests -> Nat], NEW f \in Futures,
           NEW kept \in SUBSET Hooked, NEW shown \in BOOLEAN,
           Promote(p, D, order, f, kept, shown)
    PROVE  Promoted(p, D, f, kept, shown)
<1>1. "REFUSED" \in Answers /\ None \notin Requests /\ Hooked \subseteq Requests
  BY DEF Answers, RequestsAssumption
<1>2. CASE ~(shown /\ p = None)
  BY <1>1, <1>2 DEF Promote, Promoted, QueueOK, Queued
<1>3. CASE shown /\ p = None
  <2>1. Publish(D, order, f, kept)
    BY <1>3 DEF Promote
  <2>2. PICK rejected \in SUBSET Hooked :
            LET fit == D \ (late \cup rejected) IN
            \/ /\ fit = {}
               /\ pending' = None
               /\ dormant' = {}
               /\ future' = Answered(f, D, "REFUSED")
               /\ permits' = kept \ D
            \/ \E c \in fit :
                  LET passed == {d \in D : order[d] < order[c]} IN
                  /\ \A d \in fit : order[c] <= order[d]
                  /\ pending' = c
                  /\ dormant' = D \ (passed \cup {c})
                  /\ future' = Answered(f, passed, "REFUSED")
                  /\ permits' = (kept \ passed) \cup ({c} \cap Hooked)
    BY <2>1 DEF Publish
  <2>3. CASE /\ pending' = None
             /\ dormant' = {}
             /\ future' = Answered(f, D, "REFUSED")
             /\ permits' = kept \ D
    <3>1. /\ future' \in Futures
          /\ \A d \in Requests :
                future'[d] = IF d \in D /\ f[d] = "NONE" THEN "REFUSED" ELSE f[d]
      BY <1>1, <2>3, AnsweredType
    <3>2. Queued' = {}
      BY <2>3 DEF Queued
    <3> QED
      BY <1>1, <1>3, <2>3, <3>1, <3>2 DEF Promoted, QueueOK
  <2>4. CASE \E c \in D :
                LET passed == {d \in D : order[d] < order[c]} IN
                /\ pending' = c
                /\ dormant' = D \ (passed \cup {c})
                /\ future' = Answered(f, passed, "REFUSED")
                /\ permits' = (kept \ passed) \cup ({c} \cap Hooked)
    <3>1. PICK c \in D :
              /\ pending' = c
              /\ dormant' = D \ ({d \in D : order[d] < order[c]} \cup {c})
              /\ future' = Answered(f, {d \in D : order[d] < order[c]}, "REFUSED")
              /\ permits' = (kept \ {d \in D : order[d] < order[c]}) \cup ({c} \cap Hooked)
      BY <2>4
    <3> DEFINE passed == {d \in D : order[d] < order[c]}
    <3>2. passed \subseteq D /\ c \notin passed
      OBVIOUS
    <3>3. /\ pending' = c
          /\ dormant' = D \ (passed \cup {c})
          /\ future' = Answered(f, passed, "REFUSED")
          /\ permits' = (kept \ passed) \cup ({c} \cap Hooked)
      BY <3>1
    <3> HIDE DEF passed
    <3>4. /\ future' \in Futures
          /\ \A d \in Requests :
                future'[d] = IF d \in passed /\ f[d] = "NONE" THEN "REFUSED" ELSE f[d]
      BY <1>1, <3>3, AnsweredType
    <3>5. Queued' = D \ passed
      BY <1>1, <3>2, <3>3 DEF Queued
    <3> QED
      BY <1>1, <1>3, <3>2, <3>3, <3>4, <3>5 DEF Promoted, QueueOK
  <2> QED
    BY <2>2, <2>3, <2>4
<1> QED
  BY <1>2, <1>3

(* Facts of the invariant that most steps use. *)
LEMMA QueueFacts ==
    ASSUME RequestsAssumption, InteractionInv
    PROVE  /\ pending \in Requests \cup {None}
           /\ dormant \subseteq Requests
           /\ pending \notin dormant
           /\ None \notin Requests
           /\ Hooked \subseteq Requests \ Forms
           /\ Queued = {d \in Requests : d = pending \/ d \in dormant}
           /\ future \in Futures
           /\ permits \subseteq Hooked
           /\ arrival \in [Requests -> Nat]
           /\ \A d \in Requests :
                 /\ d \in Queued => future[d] = "NONE"
                 /\ Resolving(d) => pending = d
BY DEF RequestsAssumption, InteractionInv, TypeOK, QueueInv, RequestInv, LocalInv,
       Held, Resolution, Queued, Futures

(* _invalidate_locked refuses what is not being resolved and only marks     *)
(* what is.                                                                 *)
LEMMA InvalidateEffect ==
    ASSUME RequestsAssumption, InteractionInv,
           NEW S, NEW shown \in BOOLEAN, Invalidate(S, shown)
    PROVE  /\ QueueOK
           /\ invalid' \subseteq Requests
           /\ arrival' = arrival /\ arrived' = arrived
           /\ shown /\ pending' = None => dormant' = {}
           /\ ~shown => Queued' = {d \in Queued : d \in S => Resolving(d)}
           /\ \A d \in Requests :
                 /\ d \in invalid' => d \in invalid \/ Resolving(d)
                 /\ Stays(d) \/ Refused(d)
                 /\ d \in S \cap Queued /\ ~Resolving(d) => Refused(d)
<1> DEFINE marked == {c \in S \cap Queued : Resolving(c)}
           gone == (S \cap Queued) \ marked
           p == IF pending \in gone THEN None ELSE pending
           D == dormant \ gone
           f == Answered(future, gone, "REFUSED")
           kept == permits \ gone
<1>1. /\ invalid' = invalid \cup marked
      /\ Promote(p, D, arrival, f, kept, shown)
      /\ arrival' = arrival /\ arrived' = arrived
  BY DEF Invalidate, orderVars
<1>2. /\ p \in Requests \cup {None}
      /\ D \in SUBSET Requests
      /\ p \notin D
      /\ kept \in SUBSET Hooked
      /\ arrival \in [Requests -> Nat]
      /\ \A d \in Requests : d \in gone <=> d \in S /\ d \in Queued /\ ~Resolving(d)
  BY QueueFacts
<1>3. /\ f \in Futures
      /\ \A d \in Requests :
            f[d] = IF d \in gone /\ future[d] = "NONE" THEN "REFUSED" ELSE future[d]
  BY QueueFacts, AnsweredType DEF Answers
<1>4. \A d \in Requests : (d = p \/ d \in D) <=> (d \in Queued /\ d \notin gone)
  BY QueueFacts
<1>5. invalid' \subseteq Requests
  BY <1>1, QueueFacts DEF InteractionInv, TypeOK
<1>6. \A d \in Requests : d \in invalid' => d \in invalid \/ Resolving(d)
  BY <1>1
<1>7. /\ \A d \in Requests : d = p => d = pending /\ d \notin gone
      /\ \A d \in Requests : d = pending /\ d \notin gone => d = p
      /\ \A d \in Requests : d \in kept <=> d \in permits /\ d \notin gone
  BY QueueFacts
<1> HIDE DEF marked, gone, p, D, f, kept
<1>8. Promoted(p, D, f, kept, shown)
  BY <1>1, <1>2, <1>3, PromoteEffect
<1>9. ASSUME NEW d \in Requests
      PROVE  /\ Stays(d) \/ Refused(d)
             /\ d \in S \cap Queued /\ ~Resolving(d) => Refused(d)
  <2>1. CASE d \in gone
    BY <1>2, <1>3, <1>4, <1>7, <1>8, <2>1, QueueFacts DEF Refused, Promoted
  <2>2. CASE d \notin gone /\ d \in Queued
    <3>1. /\ future[d] = "NONE"
          /\ f[d] = "NONE"
          /\ d \in D => ~Resolving(d)
      BY <1>2, <1>3, <1>4, <1>7, <2>2, QueueFacts
    <3>2. d = p \/ d \in D
      BY <1>4, <2>2
    <3>3. CASE d = p
      <4>1. d \notin D /\ d = pending
        BY <1>2, <1>7, <3>3
      <4>2. InteractionInv /\ d \in Hooked => d \in permits
        BY <4>1 DEF InteractionInv, RequestInv, LocalInv, PermitHeld
      <4> QED
        BY <1>2, <1>7, <1>8, <2>2, <3>1, <3>3, <4>1, <4>2 DEF Stays, Promoted
    <3>4. CASE d \in D /\ d # p
      BY <1>2, <1>7, <1>8, <2>2, <3>1, <3>4, QueueFacts DEF Stays, Refused, Promoted
    <3> QED
      BY <3>2, <3>3, <3>4
  <2>3. CASE d \notin Queued
    <3>1. d # p /\ d \notin D /\ d \notin gone
      BY <1>2, <1>4, <2>3
    <3>2. d # pending /\ pending' # d
      <4>1. d # None
        BY QueueFacts
      <4> QED
        BY <1>8, <2>3, <3>1, <4>1, QueueFacts DEF Queued, Promoted
    <3> QED
      BY <1>3, <1>7, <1>8, <2>3, <3>1, <3>2 DEF Stays, Promoted
  <2> QED
    BY <2>1, <2>2, <2>3
<1>10. ~shown => Queued' = {d \in Queued : d \in S => Resolving(d)}
  <2>1. SUFFICES ASSUME ~shown
                 PROVE  Queued' = {d \in Queued : d \in S => Resolving(d)}
    OBVIOUS
  <2>2. Queued' = {d \in Requests : d = p \/ d \in D}
    BY <1>2, <1>8, <2>1, QueueFacts DEF Queued, Promoted
  <2> QED
    BY <1>2, <1>4, <2>2, QueueFacts
<1> QED
  BY <1>1, <1>5, <1>6, <1>8, <1>9, <1>10 DEF Promoted

(* A request that the step before a promotion left alone stays or is refused. *)
LEMMA PromotedOthers ==
    ASSUME RequestsAssumption, InteractionInv,
           NEW p \in Requests \cup {None}, NEW D \in SUBSET Requests, p \notin D,
           NEW f, NEW kept, NEW shown, Promoted(p, D, f, kept, shown),
           NEW d \in Requests,
           d = p <=> d = pending,
           d \in D <=> d \in dormant,
           f[d] = future[d],
           d \in kept <=> d \in permits
    PROVE  Stays(d) \/ Refused(d)
<1>1. d \in Queued <=> d = p \/ d \in D
  BY QueueFacts
<1>2. d \in Queued => future[d] = "NONE"
  BY QueueFacts
<1>3. d \in D => ~Resolving(d)
  BY QueueFacts
<1>4. d = pending /\ d \in Hooked => d \in permits
  BY DEF InteractionInv, RequestInv, LocalInv, PermitHeld
<1>5. pending' = d => d \in Queued'
  BY QueueFacts DEF Queued
<1> QED
  BY <1>1, <1>2, <1>3, <1>4, <1>5, QueueFacts DEF Promoted, Stays, Refused

(* The end of a resolution answers the shown request and moves only others  *)
(* that were waiting.                                                       *)
LEMMA CloseShownEffect ==
    ASSUME RequestsAssumption, InteractionInv,
           NEW c \in Requests, pending = c, NEW answer \in Answers,
           NEW kept \in SUBSET Hooked, NEW shown \in BOOLEAN,
           \A d \in Requests \ {c} : d \in kept <=> d \in permits,
           CloseShown(c, answer, kept, shown)
    PROVE  /\ QueueOK
           /\ invalid' = invalid \ {c}
           /\ phase' = [phase EXCEPT ![c] = "IDLE"]
           /\ choice' = [choice EXCEPT ![c] = NoChoice]
           /\ arrival' = arrival /\ arrived' = arrived
           /\ shown /\ pending' = None => dormant' = {}
           /\ c \notin Queued' /\ pending' # c
           /\ future'[c] = answer
           /\ c \in permits' <=> c \in kept
           /\ \A d \in Requests \ {c} : Stays(d) \/ Refused(d)
           /\ ~shown => Queued' = Queued \ {c}
<1> DEFINE f == Answered(future, {c}, answer)
<1>1. /\ Promote(None, dormant, arrival, f, kept, shown)
      /\ invalid' = invalid \ {c}
      /\ phase' = [phase EXCEPT ![c] = "IDLE"]
      /\ choice' = [choice EXCEPT ![c] = NoChoice]
      /\ arrival' = arrival /\ arrived' = arrived
  BY DEF CloseShown, EndResolution, orderVars
<1>2. c \in Queued /\ future[c] = "NONE" /\ c \notin dormant /\ c # None
  BY QueueFacts
<1>3. /\ f \in Futures
      /\ f[c] = answer
      /\ \A d \in Requests \ {c} : f[d] = future[d]
  BY <1>2, QueueFacts, AnsweredType
<1>4. None \notin dormant /\ dormant \in SUBSET Requests /\ arrival \in [Requests -> Nat]
  BY QueueFacts
<1> HIDE DEF f
<1>5. Promoted(None, dormant, f, kept, shown)
  BY <1>1, <1>3, <1>4, PromoteEffect
<1>6. ASSUME NEW d \in Requests \ {c}
      PROVE  Stays(d) \/ Refused(d)
  <2>1. d # pending /\ d # None
    BY QueueFacts
  <2>2. f[d] = future[d] /\ (d \in kept <=> d \in permits)
    BY <1>3
  <2> QED
    BY <1>4, <1>5, <2>1, <2>2, PromotedOthers
<1>7. c \notin Queued' /\ future'[c] = answer /\ (c \in permits' <=> c \in kept)
  BY <1>2, <1>3, <1>5 DEF Promoted
<1>8. pending' # c
  BY <1>2, <1>7 DEF Queued
<1>9. ~shown => Queued' = Queued \ {c}
  BY <1>2, <1>5, QueueFacts DEF Promoted, Queued
<1> QED
  BY <1>1, <1>5, <1>6, <1>7, <1>8, <1>9 DEF Promoted

(* A request that stays or is refused keeps its part of the invariant when   *)
(* its call and its row are left alone.                                     *)
LEMMA OthersKeepInvariant ==
    ASSUME RequestsAssumption, InteractionInv, NEW d \in Requests,
           Stays(d) \/ Refused(d),
           waiter'[d] = waiter[d], phase'[d] = phase[d], choice'[d] = choice[d],
           committed'[d] = committed[d], d \in invalid' => Resolving(d)
    PROVE  LocalInv(d)'
<1>1. /\ LocalInv(d)
      /\ d # None
  BY QueueFacts DEF InteractionInv, RequestInv
<1>2. /\ pending = d => d \in Queued
      /\ pending' = d => d \in Queued'
  BY <1>1 DEF Queued
<1>3. CASE Stays(d)
  BY <1>1, <1>2, <1>3 DEF LocalInv, Held, Resolution, Agreement, PermitHeld, Stays, Resolving
<1>4. CASE Refused(d)
  BY <1>1, <1>2, <1>4 DEF LocalInv, Held, Resolution, Agreement, PermitHeld, Refused, Resolving
<1> QED
  BY <1>3, <1>4

-----------------------------------------------------------------------------
(* Every step keeps the invariant                                          *)

(* Steps that invalidate requests, all but the cancellation of a tool. *)
LEMMA InvalidatingStep ==
    ASSUME RequestsAssumption, InteractionInv,
           NEW S, NEW shown \in BOOLEAN, Invalidate(S, shown),
           UNCHANGED <<waiter, phase, choice, late, committed>>,
           closer' \in {"OPEN", "JOINING", "CLOSED"},
           controller' \in Controllers \cup {None},
           HasController(controller)' => shown,
           closer' = "CLOSED" =>
               closer = "CLOSED" \/ (~shown /\ S = Queued /\ \A d \in Queued : ~Resolving(d))
    PROVE  InteractionInv'
<1>1. RequestInv'
  <2>1. ASSUME NEW d \in Requests PROVE LocalInv(d)'
    <3>1. (Stays(d) \/ Refused(d)) /\ (d \in invalid' => d \in invalid \/ Resolving(d))
      BY InvalidateEffect
    <3>2. d \in invalid => Resolving(d)
      BY DEF InteractionInv, RequestInv, LocalInv, Resolution
    <3> QED
      BY <3>1, <3>2, OthersKeepInvariant
  <2> QED
    BY <2>1 DEF RequestInv
<1>2. TypeOK'
  BY InvalidateEffect DEF InteractionInv, TypeOK, QueueOK, Futures
<1>3. QueueInv'
  <2>1. pending' \notin dormant' /\ HeadIsShown'
    BY InvalidateEffect DEF QueueOK, HeadIsShown
  <2>2. ASSUME closer' = "CLOSED" PROVE Queued' = {} /\ \A d \in Requests : ~Resolving(d)'
    <3>1. \A d \in Queued : ~Resolving(d)
      BY <2>2, QueueFacts DEF InteractionInv, QueueInv, ClosedHostIsQuiet
    <3>2. \A d \in Requests : ~Resolving(d)
      BY <3>1, QueueFacts
    <3>3. CASE closer = "CLOSED"
      <4>1. Queued = {}
        BY <3>3 DEF InteractionInv, QueueInv, ClosedHostIsQuiet
      <4>2. \A d \in Requests : d \notin Queued'
        BY <4>1, InvalidateEffect DEF Stays, Refused
      <4>3. Queued' \subseteq Requests
        BY InvalidateEffect DEF QueueOK, Queued
      <4> QED
        BY <3>2, <4>2, <4>3 DEF Resolving
    <3>4. CASE closer # "CLOSED"
      BY <2>2, <3>1, <3>2, <3>4, InvalidateEffect DEF Resolving
    <3> QED
      BY <3>3, <3>4
  <2> QED
    BY <2>1, <2>2 DEF QueueInv, ClosedHostIsQuiet
<1> QED
  BY <1>1, <1>2, <1>3 DEF InteractionInv

(* Steps that end the resolution of the shown request. *)
LEMMA SettlingStep ==
    ASSUME RequestsAssumption, InteractionInv,
           NEW c \in Requests, pending = c, NEW answer \in Answers,
           NEW kept \in SUBSET Hooked,
           \A d \in Requests \ {c} : d \in kept <=> d \in permits,
           c \in Hooked => (c \in kept <=> answer = "ALLOW"),
           answer \in {"ALLOW", "DENY"} => committed[c] = answer,
           answer \in {"REFUSED", "SUBMIT", "CANCEL"} => committed[c] = "NONE",
           NEW shown \in BOOLEAN, shown = HasController(controller),
           CloseShown(c, answer, kept, shown),
           UNCHANGED <<ownerVars, waiter, late, committed>>
    PROVE  InteractionInv'
<1>1. c \in Queued /\ c # None /\ LocalInv(c)
  BY QueueFacts DEF InteractionInv, RequestInv
<1>2. phase' \in [Requests -> Phases] /\ choice' \in [Requests -> Choices]
  <2>1. /\ phase' = [phase EXCEPT ![c] = "IDLE"]
        /\ choice' = [choice EXCEPT ![c] = NoChoice]
    BY CloseShownEffect
  <2>2. NoChoice \in Choices /\ "IDLE" \in Phases
    BY DEF NoChoice, Choices, Phases
  <2> QED
    BY <2>1, <2>2 DEF InteractionInv, TypeOK
<1>3. TypeOK'
  BY <1>2, CloseShownEffect DEF InteractionInv, TypeOK, QueueOK, Futures, ownerVars
<1>4. LocalInv(c)'
  <2>1. phase'[c] = "IDLE" /\ c \notin invalid'
    BY CloseShownEffect DEF InteractionInv, TypeOK
  <2>2. /\ c \notin Queued' /\ pending' # c
        /\ future'[c] = answer
        /\ c \in permits' <=> c \in kept
    BY CloseShownEffect
  <2>3. answer # "NONE" /\ answer \in Answers
    BY DEF Answers
  <2>4. /\ waiter'[c] = waiter[c] /\ committed'[c] = committed[c]
        /\ waiter[c] # "NEW"
        /\ c \in Hooked => waiter[c] \in {"WAITING", "JOINING"}
        /\ committed[c] # "NONE" => c \notin Forms
    BY <1>1, QueueFacts DEF LocalInv, Held, Agreement
  <2> QED
    BY <2>1, <2>2, <2>3, <2>4 DEF LocalInv, Held, Resolution, Agreement, PermitHeld, Resolving
<1>5. ASSUME NEW d \in Requests \ {c} PROVE LocalInv(d)'
  <2>1. /\ Stays(d) \/ Refused(d)
        /\ phase'[d] = phase[d] /\ choice'[d] = choice[d]
        /\ d \in invalid' => d \in invalid
    BY CloseShownEffect DEF InteractionInv, TypeOK
  <2>2. d \in invalid => Resolving(d)
    BY DEF InteractionInv, RequestInv, LocalInv, Resolution
  <2> QED
    BY <2>1, <2>2, OthersKeepInvariant
<1>6. QueueInv'
  <2>1. closer # "CLOSED"
    BY <1>1 DEF InteractionInv, QueueInv, ClosedHostIsQuiet
  <2> QED
    BY <2>1, CloseShownEffect DEF QueueInv, QueueOK, HeadIsShown, HasController, Closed,
       ClosedHostIsQuiet, ownerVars
<1> QED
  BY <1>3, <1>4, <1>5, <1>6 DEF InteractionInv, RequestInv

(* Steps of one request that leave the queue and the other requests alone. *)
LEMMA CallStep ==
    ASSUME RequestsAssumption, InteractionInv, NEW c \in Requests,
           UNCHANGED <<ownerVars, queueVars, orderVars, late>>,
           TypeOK', LocalInv(c)',
           closer = "CLOSED" => ~Resolving(c)',
           \A d \in Requests \ {c} :
               /\ waiter'[d] = waiter[d] /\ future'[d] = future[d]
               /\ phase'[d] = phase[d] /\ choice'[d] = choice[d]
               /\ committed'[d] = committed[d]
               /\ d \in invalid' <=> d \in invalid
               /\ d \in permits' <=> d \in permits
    PROVE  InteractionInv'
<1>1. Queued' = Queued /\ pending' = pending
  BY DEF Queued, queueVars
<1>2. ASSUME NEW d \in Requests \ {c} PROVE LocalInv(d)'
  <2>1. /\ d \in Hooked /\ pending = d => d \in permits
        /\ d \in invalid => Resolving(d)
    BY DEF InteractionInv, RequestInv, LocalInv, PermitHeld, Resolution
  <2>2. Stays(d)
    BY <1>1, <2>1 DEF Stays
  <2> QED
    BY <2>1, <2>2, OthersKeepInvariant
<1>3. QueueInv'
  <2>1. closer = "CLOSED" => \A d \in Requests : ~Resolving(d)'
    BY DEF InteractionInv, QueueInv, ClosedHostIsQuiet, Resolving
  <2> QED
    BY <1>1, <2>1 DEF InteractionInv, QueueInv, HeadIsShown, HasController, Closed,
       ClosedHostIsQuiet, ownerVars, queueVars
<1> QED
  BY <1>2, <1>3 DEF InteractionInv, RequestInv

(* A controller attaches, and the queue may be promoted. *)
LEMMA AttachKeeps ==
    ASSUME RequestsAssumption, InteractionInv,
           NEW a \in Controllers, AttachController(a)
    PROVE  InteractionInv'
<1>1. Promoted(pending, dormant, future, permits, TRUE)
  BY QueueFacts, PromoteEffect DEF AttachController
<1>2. ASSUME NEW d \in Requests PROVE LocalInv(d)'
  <2>1. Stays(d) \/ Refused(d)
    BY <1>1, QueueFacts, PromotedOthers
  <2>2. d \in invalid => Resolving(d)
    BY DEF InteractionInv, RequestInv, LocalInv, Resolution
  <2> QED
    BY <2>1, <2>2, OthersKeepInvariant DEF AttachController, callVars
<1>3. TypeOK'
  BY <1>1 DEF InteractionInv, TypeOK, AttachController, callVars, orderVars, Promoted, QueueOK, Futures
<1>4. QueueInv'
  BY <1>1 DEF AttachController, Closed, Promoted, QueueOK, QueueInv, HeadIsShown, ClosedHostIsQuiet
<1> QED
  BY <1>2, <1>3, <1>4 DEF InteractionInv, RequestInv

(* A request enters the queue and may be shown at once. *)
LEMMA RequestQueuedKeeps ==
    ASSUME RequestsAssumption, InteractionInv, NEW c \in Requests, RequestQueued(c)
    PROVE  InteractionInv'
<1> DEFINE D == dormant \cup {c}
           shown == HasController(controller)
<1>1. /\ LocalInv(c)
      /\ c \notin Queued /\ c # None /\ future[c] = "NONE" /\ committed[c] = "NONE"
  BY QueueFacts DEF RequestQueued, InteractionInv, RequestInv, LocalInv, Held
<1>2. c \notin permits /\ c \notin invalid /\ ~Resolving(c) /\ c # pending /\ c \notin dormant
  BY <1>1, QueueFacts DEF LocalInv, PermitHeld, Resolution
<1>3. /\ waiter' = [waiter EXCEPT ![c] = "WAITING"]
      /\ arrival' \in [Requests -> Nat] /\ arrived' \in Nat
      /\ Promote(pending, D, arrival', future, permits, shown)
      /\ UNCHANGED <<ownerVars, callVars, late, committed>>
  BY DEF RequestQueued, InteractionInv, TypeOK
<1>4. D \in SUBSET Requests /\ pending \notin D /\ shown \in BOOLEAN
  BY <1>2, QueueFacts DEF HasController
<1>5. \A d \in Requests \ {c} : d \in D <=> d \in dormant
  OBVIOUS
<1>6. c \in D
  OBVIOUS
<1>7. shown = HasController(controller)
  OBVIOUS
<1> HIDE DEF D, shown
<1>8. Promoted(pending, D, future, permits, shown)
  BY <1>3, <1>4, QueueFacts, PromoteEffect
<1>9. ASSUME NEW d \in Requests \ {c} PROVE LocalInv(d)'
  <2>1. Stays(d) \/ Refused(d)
    BY <1>4, <1>5, <1>8, QueueFacts, PromotedOthers
  <2>2. d \in invalid => Resolving(d)
    BY DEF InteractionInv, RequestInv, LocalInv, Resolution
  <2>3. waiter'[d] = waiter[d]
    BY <1>3 DEF InteractionInv, TypeOK
  <2> QED
    BY <1>3, <2>1, <2>2, <2>3, OthersKeepInvariant DEF callVars
<1>10. LocalInv(c)'
  <2>1. \/ /\ c \in Queued'
           /\ future'[c] = "NONE"
           /\ c \in permits' <=> c \in Hooked /\ pending' = c
        \/ c \notin Queued' /\ future'[c] = "REFUSED" /\ c \notin permits'
    BY <1>1, <1>2, <1>6, <1>8 DEF Promoted
  <2>2. waiter'[c] = "WAITING" /\ phase'[c] = "IDLE" /\ committed'[c] = "NONE" /\ c \notin invalid'
    BY <1>1, <1>2, <1>3 DEF InteractionInv, TypeOK, callVars, Resolving
  <2>3. pending' = c => c \in Queued'
    BY <1>1 DEF Queued
  <2> QED
    BY <2>1, <2>2, <2>3 DEF LocalInv, Held, Resolution, Agreement, PermitHeld, Resolving
<1>11. TypeOK'
  BY <1>3, <1>8 DEF InteractionInv, TypeOK, ownerVars, callVars, Promoted, QueueOK, Futures
<1>12. QueueInv'
  <2>1. closer' # "CLOSED"
    BY <1>3 DEF RequestQueued, Closed, ownerVars
  <2> QED
    BY <1>3, <1>7, <1>8, <2>1 DEF Promoted, QueueOK, QueueInv, HeadIsShown, HasController, Closed,
       ClosedHostIsQuiet, ownerVars
<1> QED
  BY <1>9, <1>10, <1>11, <1>12 DEF InteractionInv, RequestInv

(* Controllers leaving, expiring and stopped requests, changed servers and   *)
(* closing hosts only invalidate.                                           *)
LEMMA InvalidationsKeep ==
    ASSUME RequestsAssumption, InteractionInv,
           \/ \E a \in Controllers : ControllerDetached(a)
           \/ \E c \in Requests : RequestExpires(c) \/ CellStopped(c)
           \/ CancelToolConfirmations
           \/ Close
           \/ CloseJoined
    PROVE  InteractionInv'
<1>1. /\ closer \in {"OPEN", "JOINING", "CLOSED"}
      /\ controller \in Controllers \cup {None}
      /\ HasController(controller) \in BOOLEAN
  BY DEF InteractionInv, TypeOK, HasController
<1>2. CASE \E a \in Controllers : ControllerDetached(a)
  <2>1. /\ Invalidate(Forms, FALSE)
        /\ controller' = None /\ closer' = closer
        /\ UNCHANGED <<waiter, phase, choice, late, committed>>
    BY <1>2 DEF ControllerDetached
  <2>2. ~HasController(controller)'
    BY <2>1 DEF HasController
  <2> QED
    BY <1>1, <2>1, <2>2, InvalidatingStep
<1>3. ASSUME NEW c \in Requests, RequestExpires(c) \/ CellStopped(c) PROVE InteractionInv'
  <2>1. /\ Invalidate({c}, HasController(controller))
        /\ controller' = controller /\ closer' = closer
        /\ UNCHANGED <<waiter, phase, choice, late, committed>>
    BY <1>3 DEF RequestExpires, CellStopped, AbortCandidate, ownerVars
  <2>2. HasController(controller)' => HasController(controller)
    BY <2>1 DEF HasController, Closed
  <2> QED
    BY <1>1, <2>1, <2>2, InvalidatingStep
<1>4. CASE CancelToolConfirmations
  <2>1. PICK S \in SUBSET (Hooked \cap Queued) : Invalidate(S, HasController(controller))
    BY <1>4 DEF CancelToolConfirmations
  <2>2. /\ controller' = controller /\ closer' = closer
        /\ UNCHANGED <<waiter, phase, choice, late, committed>>
    BY <1>4 DEF CancelToolConfirmations, ownerVars
  <2>3. HasController(controller)' => HasController(controller)
    BY <2>2 DEF HasController, Closed
  <2> QED
    BY <1>1, <2>1, <2>2, <2>3, InvalidatingStep
<1>5. CASE Close
  <2>1. /\ Invalidate(Queued, FALSE)
        /\ controller' = None
        /\ closer' \in {"OPEN", "JOINING", "CLOSED"}
        /\ closer' = "CLOSED" => \A d \in Queued : ~Resolving(d)
        /\ UNCHANGED <<waiter, phase, choice, late, committed>>
    BY <1>5 DEF Close
  <2>2. ~HasController(controller)'
    BY <2>1 DEF HasController
  <2> QED
    BY <1>1, <2>1, <2>2, InvalidatingStep
<1>6. CASE CloseJoined
  <2>1. /\ Invalidate(Queued, FALSE)
        /\ controller' = controller /\ closer' = "CLOSED"
        /\ \A d \in Queued : ~Resolving(d)
        /\ UNCHANGED <<waiter, phase, choice, late, committed>>
    BY <1>6 DEF CloseJoined
  <2>2. ~HasController(controller)'
    BY <2>1 DEF HasController, Closed
  <2> QED
    BY <1>1, <2>1, <2>2, InvalidatingStep
<1> QED
  BY <1>2, <1>3, <1>4, <1>5, <1>6

(* The steps of a resolution. *)
LEMMA ResolutionsKeep ==
    ASSUME RequestsAssumption, InteractionInv, NEW c \in Requests,
           \/ \E a \in Controllers :
                 \/ \E decision \in {"ALLOW", "DENY"} : ResolveToolInteraction(a, c, decision)
                 \/ CancelForm(a, c)
                 \/ SubmitForm(a, c)
           \/ Settle(c)
    PROVE  InteractionInv'
<1>1. /\ LocalInv(c) /\ TypeOK /\ c # None
      /\ permits \subseteq Hooked /\ Hooked \subseteq Requests \ Forms
      /\ HasController(controller) \in BOOLEAN
  BY QueueFacts DEF InteractionInv, RequestInv, HasController
<1>2. /\ Resolving(c) => pending = c
      /\ phase[c] = "LOST" \/ phase[c] = "ACKED" \/ phase[c] = "PARSING" => Resolving(c)
      /\ c \in Forms => committed[c] = "NONE" /\ c \notin Hooked
      /\ {"ALLOW", "DENY", "SUBMIT", "CANCEL", "REFUSED", "UNKNOWN"} \subseteq Answers
      /\ committed[c] \in {"NONE", "ALLOW", "DENY"}
  BY <1>1 DEF LocalInv, Resolution, Agreement, Resolving, Answers, TypeOK
<1>3. ASSUME NEW a \in Controllers, NEW decision \in {"ALLOW", "DENY"},
             ResolveToolInteraction(a, c, decision)
      PROVE  InteractionInv'
  <2>1. TypeOK'
    BY <1>1, <1>3 DEF ResolveToolInteraction, TypeOK, Phases, Choices, ownerVars, queueVars, orderVars
  <2>2. /\ phase'[c] = "WRITING" /\ choice'[c].decision = decision
        /\ committed'[c] = committed[c] /\ future'[c] = future[c] /\ waiter'[c] = waiter[c]
        /\ Queued' = Queued /\ pending' = pending /\ pending = c
        /\ permits' = permits /\ invalid' = invalid
        /\ c \notin Forms /\ c \in Queued /\ ~Resolving(c)
    BY <1>1, <1>3 DEF ResolveToolInteraction, TypeOK, queueVars, Queued
  <2>3. LocalInv(c)'
    BY <1>1, <2>2 DEF LocalInv, Held, Resolution, Agreement, PermitHeld, Resolving
  <2>4. \A d \in Requests \ {c} : phase'[d] = phase[d] /\ choice'[d] = choice[d]
    BY <1>1, <1>3 DEF ResolveToolInteraction, TypeOK
  <2> QED
    BY <1>3, <2>1, <2>3, <2>4, CallStep DEF ResolveToolInteraction, Closed
<1>4. ASSUME NEW a \in Controllers, CancelForm(a, c) PROVE InteractionInv'
  <2>1. /\ pending = c /\ c \in Forms
        /\ CloseShown(c, "CANCEL", permits, TRUE)
        /\ HasController(controller) = TRUE
        /\ UNCHANGED <<ownerVars, waiter, late, committed>>
    BY <1>4 DEF CancelForm, HasController
  <2> QED
    BY <1>1, <1>2, <2>1, SettlingStep
<1>5. ASSUME NEW a \in Controllers, SubmitForm(a, c) PROVE InteractionInv'
  <2>1. TypeOK'
    BY <1>1, <1>5 DEF SubmitForm, TypeOK, Phases, Choices, ownerVars, queueVars, orderVars
  <2>2. /\ phase'[c] = "PARSING"
        /\ committed'[c] = committed[c] /\ future'[c] = future[c] /\ waiter'[c] = waiter[c]
        /\ Queued' = Queued /\ pending' = pending /\ pending = c
        /\ permits' = permits /\ invalid' = invalid
        /\ c \in Forms /\ c \in Queued /\ ~Resolving(c)
    BY <1>1, <1>5 DEF SubmitForm, TypeOK, queueVars, Queued
  <2>3. LocalInv(c)'
    BY <1>1, <2>2 DEF LocalInv, Held, Resolution, Agreement, PermitHeld, Resolving
  <2>4. \A d \in Requests \ {c} : phase'[d] = phase[d] /\ choice'[d] = choice[d]
    BY <1>1, <1>5 DEF SubmitForm, TypeOK
  <2> QED
    BY <1>5, <2>1, <2>3, <2>4, CallStep DEF SubmitForm, HasController, Closed
<1>6. CASE WriteEnds(c)
  <2>1. /\ choice[c].decision \in {"ALLOW", "DENY"} /\ committed[c] = "NONE"
        /\ pending = c /\ c \notin Forms /\ c \in Queued /\ future[c] = "NONE"
    BY <1>1, <1>6 DEF WriteEnds, LocalInv, Resolution, Resolving, Held, Queued
  <2>2. /\ phase'[c] \in {"ACKED", "LOST"}
        /\ phase'[c] = "ACKED" => committed'[c] # "NONE"
        /\ committed' \in [Requests -> {"NONE", "ALLOW", "DENY"}]
        /\ phase' \in [Requests -> Phases]
        /\ \A d \in Requests \ {c} : phase'[d] = phase[d] /\ committed'[d] = committed[d]
    BY <1>1, <1>6, <2>1 DEF WriteEnds, TypeOK, Phases
  <2>3. TypeOK'
    BY <1>1, <1>6, <2>2 DEF WriteEnds, TypeOK, ownerVars, queueVars, orderVars
  <2>4. /\ Queued' = Queued /\ pending' = pending /\ permits' = permits
        /\ invalid' = invalid /\ future' = future /\ waiter' = waiter
    BY <1>6 DEF WriteEnds, Queued, queueVars
  <2>5. LocalInv(c)'
    BY <1>1, <2>1, <2>2, <2>4 DEF LocalInv, Held, Resolution, Agreement, PermitHeld, Resolving
  <2>6. closer # "CLOSED"
    BY <2>1 DEF InteractionInv, QueueInv, ClosedHostIsQuiet
  <2> QED
    BY <1>6, <2>2, <2>3, <2>5, <2>6, CallStep DEF WriteEnds
<1>7. CASE DecisionAccepted(c)
  <2>1. committed[c] \in {"ALLOW", "DENY"} /\ pending = c
    BY <1>1, <1>2, <1>7 DEF DecisionAccepted, LocalInv, Resolution
  <2> DEFINE kept == IF committed[c] = "DENY" THEN permits \ {c} ELSE permits
  <2>2. /\ CloseShown(c, committed[c], kept, HasController(controller))
        /\ UNCHANGED <<ownerVars, waiter, late, committed>>
    BY <1>7 DEF DecisionAccepted
  <2>3. /\ kept \in SUBSET Hooked
        /\ \A d \in Requests \ {c} : d \in kept <=> d \in permits
    BY <1>1
  <2>4. c \in Hooked => (c \in kept <=> committed[c] = "ALLOW")
    BY <1>1, <2>1 DEF LocalInv, PermitHeld
  <2> HIDE DEF kept
  <2> QED
    BY <1>1, <1>2, <2>1, <2>2, <2>3, <2>4, SettlingStep
<1>8. CASE DecisionUnknown(c)
  <2>1. /\ CloseShown(c, "UNKNOWN", permits \ {c}, HasController(controller))
        /\ UNCHANGED <<ownerVars, waiter, late, committed>>
        /\ pending = c
    BY <1>8 DEF DecisionUnknown
  <2> QED
    BY <1>1, <1>2, <2>1, SettlingStep
<1>9. ASSUME EndResolution(c),
             UNCHANGED <<invalid, queueVars, orderVars, future, permits>>,
             UNCHANGED <<ownerVars, waiter, late, committed>>,
             c \notin invalid, committed[c] = "NONE"
      PROVE  InteractionInv'
  <2>1. NoChoice \in Choices /\ "IDLE" \in Phases
    BY DEF NoChoice, Choices, Phases
  <2>2. TypeOK'
    BY <1>1, <1>9, <2>1 DEF EndResolution, TypeOK, ownerVars, queueVars, orderVars
  <2>3. /\ phase'[c] = "IDLE"
        /\ \A d \in Requests \ {c} : phase'[d] = phase[d] /\ choice'[d] = choice[d]
    BY <1>1, <1>9 DEF EndResolution, TypeOK
  <2>4. Queued' = Queued /\ pending' = pending
    BY <1>9 DEF Queued, queueVars
  <2>5. LocalInv(c)'
    BY <1>1, <1>9, <2>3, <2>4 DEF LocalInv, Held, Resolution, Agreement, PermitHeld, Resolving
  <2> QED
    BY <1>9, <2>2, <2>3, <2>5, CallStep DEF Resolving
<1>10. CASE DecisionNotAccepted(c)
  <2>1. CASE c \in invalid \cup late \/ Closed
    <3>1. /\ CloseShown(c, "REFUSED", permits \ {c}, HasController(controller))
          /\ UNCHANGED <<ownerVars, waiter, late, committed>>
          /\ pending = c /\ committed[c] = "NONE"
      BY <1>2, <1>10, <2>1 DEF DecisionNotAccepted
    <3> QED
      BY <1>1, <1>2, <3>1, SettlingStep
  <2>2. CASE ~(c \in invalid \cup late \/ Closed)
    BY <1>9, <1>10, <2>2 DEF DecisionNotAccepted
  <2> QED
    BY <2>1, <2>2
<1>11. CASE FormParsed(c)
  <2>1. PICK answer \in {"CANCEL", "SUBMIT"} :
            /\ CloseShown(c, answer, permits, HasController(controller))
            /\ UNCHANGED <<ownerVars, waiter, late, committed>>
            /\ pending = c /\ c \in Forms
    BY <1>1, <1>11 DEF FormParsed, LocalInv, Resolution
  <2> QED
    BY <1>1, <1>2, <2>1, SettlingStep
<1>12. CASE FormParseFails(c)
  <2>1. c \in Forms /\ pending = c
    BY <1>1, <1>2, <1>12 DEF FormParseFails, LocalInv, Resolution
  <2>2. CASE c \in invalid
    <3>1. /\ CloseShown(c, "REFUSED", permits, HasController(controller))
          /\ UNCHANGED <<ownerVars, waiter, late, committed>>
      BY <1>12, <2>2 DEF FormParseFails
    <3> QED
      BY <1>1, <1>2, <2>1, <3>1, SettlingStep
  <2>3. CASE c \notin invalid
    BY <1>2, <1>9, <1>12, <2>1, <2>3 DEF FormParseFails
  <2> QED
    BY <2>2, <2>3
<1> QED
  BY <1>3, <1>4, <1>5, <1>6, <1>7, <1>8, <1>10, <1>11, <1>12 DEF Settle

(* The steps of a waiter. *)
LEMMA WaitersKeep ==
    ASSUME RequestsAssumption, InteractionInv, NEW c \in Requests,
           \/ RequestRefused(c)
           \/ DeadlinePasses(c)
           \/ RequestCancelled(c)
           \/ WaiterJoined(c)
           \/ WaiterReturns(c)
    PROVE  InteractionInv'
<1>1. LocalInv(c) /\ TypeOK /\ c # None /\ (c \in Queued => future[c] = "NONE")
  BY QueueFacts DEF InteractionInv, RequestInv
<1>2. /\ pending = c => c \in Queued
      /\ {"REFUSED", "CANCELLED"} \subseteq {"NEW", "WAITING", "JOINING", "CANCELLED"} \cup Answers
      /\ closer = "CLOSED" => ~Resolving(c)
  BY <1>1 DEF Queued, Answers, InteractionInv, QueueInv, ClosedHostIsQuiet
<1>3. CASE RequestRefused(c)
  <2>1. /\ future' \in Futures
        /\ \A d \in Requests :
              future'[d] = IF d \in {c} /\ future[d] = "NONE" THEN "REFUSED" ELSE future[d]
    BY <1>1, <1>3, QueueFacts, AnsweredType DEF RequestRefused, Answers
  <2>2. /\ waiter[c] = "NEW" /\ waiter' = [waiter EXCEPT ![c] = "REFUSED"]
        /\ Queued' = Queued
        /\ UNCHANGED <<ownerVars, queueVars, orderVars, callVars, late, committed, permits>>
    BY <1>3 DEF RequestRefused, Queued, queueVars
  <2>3. TypeOK'
    BY <1>1, <1>2, <2>1, <2>2
       DEF TypeOK, Futures, ownerVars, queueVars, orderVars, callVars
  <2>4. waiter'[c] = "REFUSED" /\ \A d \in Requests \ {c} : waiter'[d] = waiter[d]
    BY <1>1, <2>2 DEF TypeOK
  <2>5. LocalInv(c)'
    BY <1>1, <1>2, <2>1, <2>2, <2>4
       DEF LocalInv, Held, Resolution, Agreement, PermitHeld, Resolving, queueVars, callVars
  <2> QED
    BY <1>2, <2>1, <2>2, <2>3, <2>4, <2>5, CallStep DEF callVars, Resolving
<1>4. CASE DeadlinePasses(c)
  <2>1. /\ late' \subseteq Requests
        /\ UNCHANGED <<closer, controller, pending, dormant, arrival, arrived, waiter, future,
                       phase, choice, invalid, committed, permits>>
    BY <1>1, <1>4 DEF DeadlinePasses, TypeOK, ownerVars, queueVars, orderVars, callVars
  <2>2. Queued' = Queued
    BY <2>1 DEF Queued
  <2>3. TypeOK'
    BY <1>1, <2>1 DEF TypeOK
  <2>4. RequestInv'
    BY <2>1, <2>2 DEF InteractionInv, RequestInv, LocalInv, Held, Resolution, Agreement,
       PermitHeld, Resolving
  <2>5. QueueInv'
    BY <2>1, <2>2 DEF InteractionInv, QueueInv, HeadIsShown, HasController, Closed,
       ClosedHostIsQuiet, Resolving
  <2> QED
    BY <2>3, <2>4, <2>5 DEF InteractionInv
<1>5. ASSUME waiter[c] \in {"WAITING", "JOINING"},
             NEW w \in {"JOINING", "CANCELLED"} \cup Answers,
             waiter' = [waiter EXCEPT ![c] = w],
             UNCHANGED <<ownerVars, queueVars, orderVars, future, callVars, late, committed>>,
             \/ w \in Answers /\ w = future[c] /\ permits' = permits
             \/ w = "JOINING" /\ permits' = permits
             \/ w = "CANCELLED" /\ c \in Queued \cap Forms /\ permits' = permits
             \/ w = "CANCELLED" /\ c \notin Queued /\ permits' = permits \ {c}
      PROVE  InteractionInv'
  <2>1. Queued' = Queued /\ pending' = pending
    BY <1>5 DEF Queued, queueVars
  <2>2. waiter'[c] = w /\ \A d \in Requests \ {c} : waiter'[d] = waiter[d]
    BY <1>1, <1>5 DEF TypeOK
  <2>3. TypeOK'
    BY <1>1, <1>5 DEF TypeOK, ownerVars, queueVars, orderVars, callVars
  <2>4. w # "NEW" /\ w # "WAITING" /\ w # "NONE"
    BY DEF Answers
  <2>5. UNCHANGED <<future, phase, choice, invalid, committed>>
    BY <1>5 DEF callVars
  <2>6. c \in Forms => c \notin Hooked
    BY DEF RequestsAssumption
  <2>7. /\ permits' \ {c} = permits \ {c}
        /\ w = "CANCELLED" /\ c \notin Forms => c \notin permits' /\ c \notin Queued
        /\ w \notin {"JOINING", "CANCELLED"} => w = future[c]
        /\ w # "CANCELLED" => permits' = permits
    BY <1>5 DEF Answers
  <2>8. LocalInv(c)'
    <3>1. Held(c)'
      BY <1>1, <1>5, <2>1, <2>2, <2>4, <2>5, <2>7 DEF LocalInv, Held
    <3>2. Resolution(c)' /\ Agreement(c)'
      BY <1>1, <2>1, <2>5 DEF LocalInv, Resolution, Agreement, Resolving
    <3>3. PermitHeld(c)'
      BY <1>1, <1>2, <1>5, <2>1, <2>2, <2>4, <2>5, <2>6, <2>7 DEF LocalInv, PermitHeld
    <3> QED
      BY <3>1, <3>2, <3>3 DEF LocalInv
  <2> QED
    BY <1>2, <1>5, <2>2, <2>3, <2>5, <2>7, <2>8, CallStep DEF Resolving
<1>6. CASE WaiterReturns(c)
  <2>1. future[c] \in Answers /\ waiter[c] = "WAITING"
    BY <1>1, <1>6 DEF WaiterReturns, TypeOK
  <2> QED
    BY <1>5, <1>6, <2>1 DEF WaiterReturns
<1>7. CASE WaiterJoined(c)
  BY <1>1, <1>5, <1>7 DEF WaiterJoined
<1>8. CASE RequestCancelled(c)
  <2> DEFINE w == IF Resolving(c) /\ c \notin Forms THEN "JOINING" ELSE "CANCELLED"
  <2>1. /\ waiter[c] = "WAITING" /\ waiter' = [waiter EXCEPT ![c] = w]
        /\ w \in {"JOINING", "CANCELLED"}
        /\ c \in invalid => Resolving(c)
        /\ Resolving(c) => c \in Queued
    BY <1>1, <1>2, <1>8 DEF RequestCancelled, LocalInv, Resolution
  <2>2. CASE /\ c \notin Queued \ invalid
             /\ permits' = IF c \in Queued THEN permits ELSE permits \ {c}
             /\ UNCHANGED <<ownerVars, queueVars, orderVars, future, callVars, late, committed>>
    <3>1. \/ w = "JOINING" /\ permits' = permits
          \/ w = "CANCELLED" /\ c \in Queued \cap Forms /\ permits' = permits
          \/ w = "CANCELLED" /\ c \notin Queued /\ permits' = permits \ {c}
      BY <2>1, <2>2
    <3> QED
      BY <1>5, <2>1, <2>2, <3>1
  <2>3. CASE AbortCandidate(c)
    <3>1. /\ c \in Queued
          /\ Invalidate({c}, HasController(controller))
          /\ HasController(controller) \in BOOLEAN
          /\ UNCHANGED <<ownerVars, phase, choice, late, committed>>
      BY <2>3 DEF AbortCandidate, HasController
    <3>2. waiter'[c] = w /\ \A d \in Requests \ {c} : waiter'[d] = waiter[d]
      BY <1>1, <2>1 DEF TypeOK
    <3>3. TypeOK'
      BY <1>1, <2>1, <3>1, InvalidateEffect DEF TypeOK, QueueOK, Futures, ownerVars
    <3>4. ASSUME NEW d \in Requests \ {c} PROVE LocalInv(d)'
      <4>1. (Stays(d) \/ Refused(d)) /\ (d \in invalid' => d \in invalid \/ Resolving(d))
        BY <3>1, InvalidateEffect
      <4>2. d \in invalid => Resolving(d)
        BY DEF InteractionInv, RequestInv, LocalInv, Resolution
      <4> QED
        BY <3>1, <3>2, <4>1, <4>2, OthersKeepInvariant
    <3>5. LocalInv(c)'
      <4>1. /\ Stays(c) \/ Refused(c)
            /\ ~Resolving(c) => Refused(c)
            /\ c \in invalid' => c \in invalid \/ Resolving(c)
        BY <3>1, InvalidateEffect
      <4>2. pending' = c => c \in Queued'
        BY <1>1 DEF Queued
      <4>3. c \in Hooked => c \notin Forms
        BY DEF RequestsAssumption
      <4>4. CASE Resolving(c)
        <5>1. Stays(c) /\ future[c] = "NONE" /\ pending = c /\ pending' = c
          BY <1>1, <4>1, <4>4 DEF Refused, Stays, LocalInv, Resolution, Held, Queued
        <5> QED
          BY <1>1, <2>1, <3>1, <3>2, <4>1, <4>2, <4>3, <4>4, <5>1
             DEF LocalInv, Held, Resolution, Agreement, PermitHeld, Stays, Resolving
      <4>5. CASE ~Resolving(c)
        <5>1. Refused(c) /\ w = "CANCELLED" /\ committed[c] = "NONE"
          BY <1>1, <3>1, <4>1, <4>5 DEF LocalInv, Agreement, Resolving
        <5> QED
          BY <1>1, <2>1, <3>1, <3>2, <4>1, <4>2, <4>5, <5>1
             DEF LocalInv, Held, Resolution, Agreement, PermitHeld, Refused, Resolving
      <4> QED
        BY <4>4, <4>5
    <3>6. QueueInv'
      <4>1. closer # "CLOSED"
        BY <3>1 DEF InteractionInv, QueueInv, ClosedHostIsQuiet
      <4> QED
        BY <3>1, <4>1, InvalidateEffect DEF QueueInv, QueueOK, HeadIsShown, HasController,
           Closed, ClosedHostIsQuiet, ownerVars
    <3> QED
      BY <3>3, <3>4, <3>5, <3>6 DEF InteractionInv, RequestInv
  <2> QED
    BY <1>8, <2>2, <2>3 DEF RequestCancelled
<1> QED
  BY <1>3, <1>4, <1>6, <1>7, <1>8

(* The invariant holds at the start. *)
LEMMA InitInv ==
    ASSUME RequestsAssumption, Init
    PROVE  InteractionInv
<1>1. Queued = {}
  BY DEF Init, Queued
<1>2. TypeOK
  BY DEF Init, TypeOK, Phases, Choices, NoChoice
<1>3. RequestInv
  BY <1>1 DEF Init, RequestInv, LocalInv, Held, Resolution, Agreement, PermitHeld, Resolving,
     RequestsAssumption
<1>4. QueueInv
  BY <1>1 DEF Init, QueueInv, HeadIsShown, ClosedHostIsQuiet
<1> QED
  BY <1>2, <1>3, <1>4 DEF InteractionInv

(* Every step keeps the invariant. *)
LEMMA NextInv ==
    ASSUME RequestsAssumption, InteractionInv, [Next]_vars
    PROVE  InteractionInv'
<1>1. CASE \E a \in Controllers : Control(a)
  BY <1>1, AttachKeeps, InvalidationsKeep, ResolutionsKeep DEF Control
<1>2. ASSUME NEW c \in Requests,
             \/ RequestRefused(c) \/ RequestQueued(c) \/ DeadlinePasses(c) \/ CellStopped(c)
             \/ RequestCancelled(c) \/ Wait(c) \/ Settle(c)
      PROVE  InteractionInv'
  BY <1>2, RequestQueuedKeeps, InvalidationsKeep, WaitersKeep, ResolutionsKeep DEF Wait
<1>3. CASE CancelToolConfirmations \/ Close \/ CloseJoined
  BY <1>3, InvalidationsKeep
<1>4. CASE UNCHANGED vars
  <2>1. UNCHANGED <<closer, controller, pending, dormant, arrival, arrived, waiter, future,
                    phase, choice, invalid, late, committed, permits>>
    BY <1>4 DEF vars, ownerVars, queueVars, orderVars, callVars
  <2>2. Queued' = Queued
    BY <2>1 DEF Queued
  <2> QED
    BY <2>1, <2>2 DEF InteractionInv, TypeOK, RequestInv, LocalInv, Held, Resolution, Agreement,
       PermitHeld, Resolving, QueueInv, HeadIsShown, HasController, Closed, ClosedHostIsQuiet
<1> QED
  BY <1>1, <1>2, <1>3, <1>4 DEF Next

-----------------------------------------------------------------------------
(* The theorems                                                            *)

(* The coordinator's bookkeeping of requests, resolutions, decisions and    *)
(* permits is inductive, for any number of requests and controllers.        *)
THEOREM InteractionInvariant == Spec => []InteractionInv
<1>1. Init => InteractionInv
  BY InitInv, RequestsAssumption
<1>2. InteractionInv /\ [Next]_vars => InteractionInv'
  BY NextInv, RequestsAssumption
<1> QED
  BY <1>1, <1>2, PTL DEF Spec

(* The state of the coordinator is well typed. *)
THEOREM InteractionTypes == Spec => []TypeOK
<1>1. InteractionInv => TypeOK
  BY DEF InteractionInv
<1> QED
  BY <1>1, InteractionInvariant, PTL

(* No timeout, cancellation, leaving controller or closing host takes the   *)
(* shown slot from a request that resolves.                                 *)
THEOREM ResolutionsKeepTheirSlot == Spec => []ResolvingKeepsItsSlot
<1>1. InteractionInv => ResolvingKeepsItsSlot
  BY DEF InteractionInv, RequestInv, LocalInv, Resolution, ResolvingKeepsItsSlot
<1> QED
  BY <1>1, InteractionInvariant, PTL

(* Every waiter waits for a future that somebody still holds. *)
THEOREM WaitersAreHeld == Spec => []WaitingRequestIsHeld
<1>1. InteractionInv => WaitingRequestIsHeld
  BY DEF InteractionInv, RequestInv, LocalInv, Held, WaitingRequestIsHeld
<1> QED
  BY <1>1, InteractionInvariant, PTL

(* What a tool is told agrees with the committed decision, although the     *)
(* acknowledgement of the commit may be lost.                               *)
THEOREM AnswersAgree == Spec => []AnswerAgreesWithStore
<1>1. InteractionInv => AnswerAgreesWithStore
  BY DEF InteractionInv, RequestInv, LocalInv, Agreement, AnswerAgreesWithStore
<1> QED
  BY <1>1, InteractionInvariant, PTL

(* Dispatch permits of MCP requests are neither leaked nor lost. *)
THEOREM PermitsFollow == Spec => []PermitFollowsDecision
<1>1. InteractionInv => PermitFollowsDecision
  BY RequestsAssumption
     DEF RequestsAssumption, InteractionInv, RequestInv, LocalInv, PermitHeld, PermitFollowsDecision
<1> QED
  BY <1>1, InteractionInvariant, PTL

(* Under a controller the queue does not stall. *)
THEOREM QueueDoesNotStall == Spec => []HeadIsShown
<1>1. InteractionInv => HeadIsShown
  BY DEF InteractionInv, QueueInv
<1> QED
  BY <1>1, InteractionInvariant, PTL

(* When aclose has returned nothing is open or being written. *)
THEOREM CloseIsQuiet == Spec => []ClosedHostIsQuiet
<1>1. InteractionInv => ClosedHostIsQuiet
  BY DEF InteractionInv, QueueInv
<1> QED
  BY <1>1, InteractionInvariant, PTL

-----------------------------------------------------------------------------
(* The order of the queue                                                  *)

(* Requests that are held have different places, up to the last one given. *)
OrderInv ==
    /\ OldestIsShown
    /\ \A d \in Queued : arrival[d] <= arrived
    /\ \A d, e \in Queued : d # e => arrival[d] # arrival[e]

(* _promote_next takes the oldest of what it leaves. *)
LEMMA PromoteOrder ==
    ASSUME NEW p, NEW D \in SUBSET Requests, NEW order \in [Requests -> Nat],
           NEW f, NEW kept, NEW shown, Promote(p, D, order, f, kept, shown)
    PROVE  /\ dormant' \subseteq D
           /\ pending' = p \/ pending' \in D \ dormant' \/ pending' = None
           /\ pending' # p /\ pending' # None => \A d \in dormant' : order[pending'] <= order[d]
           /\ pending' = p \/ p = None
<1>1. CASE ~(shown /\ p = None)
  BY <1>1 DEF Promote
<1>2. CASE shown /\ p = None
  <2>1. Publish(D, order, f, kept)
    BY <1>2 DEF Promote
  <2>2. \/ pending' = None /\ dormant' = {}
        \/ \E c \in D :
              /\ pending' = c
              /\ dormant' = D \ ({d \in D : order[d] < order[c]} \cup {c})
    BY <2>1 DEF Publish
  <2> QED
    BY <1>2, <2>2
<1> QED
  BY <1>1, <1>2

(* A step that only removes requests, and then promotes, keeps the order. *)
LEMMA OrderStep ==
    ASSUME RequestsAssumption, InteractionInv, OrderInv,
           NEW p \in {pending, None}, NEW D \in SUBSET dormant,
           NEW f, NEW kept, NEW shown, Promote(p, D, arrival, f, kept, shown),
           arrival' = arrival, arrived' = arrived
    PROVE  OrderInv'
<1>1. /\ D \in SUBSET Requests /\ arrival \in [Requests -> Nat]
      /\ dormant \subseteq Requests /\ pending \notin dormant /\ None \notin Requests
      /\ pending \in Requests \cup {None}
  BY QueueFacts
<1>2. /\ dormant' \subseteq D
      /\ pending' = p \/ pending' \in D \ dormant' \/ pending' = None
      /\ pending' # p /\ pending' # None => \A d \in dormant' : arrival[pending'] <= arrival[d]
  BY <1>1, PromoteOrder
<1>3. Queued' \subseteq Queued
  BY <1>1, <1>2 DEF Queued
<1>4. OldestIsShown'
  <2>1. SUFFICES ASSUME pending' # None, NEW d \in dormant'
                 PROVE  arrival[pending'] < arrival[d]
    BY DEF OldestIsShown
  <2>2. CASE pending' = pending
    BY <1>2, <2>1, <2>2 DEF OrderInv, OldestIsShown
  <2>3. CASE pending' # pending
    <3>1. /\ pending' \in D \ dormant'
          /\ arrival[pending'] <= arrival[d]
      BY <1>2, <2>1, <2>3
    <3>2. pending' \in Queued /\ d \in Queued /\ d # pending'
      BY <1>2, <2>1, <3>1 DEF Queued
    <3> QED
      BY <1>1, <1>2, <2>1, <3>1, <3>2 DEF OrderInv
  <2> QED
    BY <2>2, <2>3
<1> QED
  BY <1>3, <1>4 DEF OrderInv

(* Invalidation keeps the order. *)
LEMMA InvalidateOrder ==
    ASSUME RequestsAssumption, InteractionInv, OrderInv,
           NEW S, NEW shown, Invalidate(S, shown)
    PROVE  OrderInv'
<1> DEFINE gone == (S \cap Queued) \ {c \in S \cap Queued : Resolving(c)}
           p == IF pending \in gone THEN None ELSE pending
           D == dormant \ gone
           f == Answered(future, gone, "REFUSED")
           kept == permits \ gone
<1>1. Promote(p, D, arrival, f, kept, shown) /\ arrival' = arrival /\ arrived' = arrived
  BY DEF Invalidate, orderVars
<1>2. p \in {pending, None} /\ D \in SUBSET dormant
  OBVIOUS
<1> HIDE DEF p, D, f, kept
<1> QED
  BY <1>1, <1>2, OrderStep

(* The end of a resolution keeps the order. *)
LEMMA CloseShownOrder ==
    ASSUME RequestsAssumption, InteractionInv, OrderInv,
           NEW c, NEW answer, NEW kept, NEW shown, CloseShown(c, answer, kept, shown)
    PROVE  OrderInv'
<1> DEFINE f == Answered(future, {c}, answer)
<1>1. Promote(None, dormant, arrival, f, kept, shown) /\ arrival' = arrival /\ arrived' = arrived
  BY DEF CloseShown, orderVars
<1> HIDE DEF f
<1> QED
  BY <1>1, OrderStep

(* A new request takes the last place. *)
LEMMA RequestQueuedOrder ==
    ASSUME RequestsAssumption, InteractionInv, OrderInv,
           NEW c \in Requests, RequestQueued(c)
    PROVE  OrderInv'
<1>1. /\ dormant \subseteq Requests /\ pending \notin dormant /\ None \notin Requests
      /\ pending \in Requests \cup {None}
      /\ arrival \in [Requests -> Nat] /\ arrived \in Nat
  BY QueueFacts DEF InteractionInv, TypeOK
<1>2. c \notin Queued /\ c # None
  BY <1>1 DEF RequestQueued, InteractionInv, RequestInv, LocalInv, Held
<1>3. /\ arrived' = arrived + 1
      /\ arrival' = [arrival EXCEPT ![c] = arrived + 1]
      /\ Promote(pending, dormant \cup {c}, arrival', future, permits, HasController(controller))
  BY DEF RequestQueued
<1>4. arrival' \in [Requests -> Nat] /\ dormant \cup {c} \in SUBSET Requests
  BY <1>1, <1>3
<1>5. /\ dormant' \subseteq dormant \cup {c}
      /\ pending' = pending \/ pending' \in (dormant \cup {c}) \ dormant' \/ pending' = None
      /\ pending' # pending /\ pending' # None =>
            \A d \in dormant' : arrival'[pending'] <= arrival'[d]
      /\ pending' = pending \/ pending = None
  BY <1>3, <1>4, PromoteOrder
<1>6. Queued' \subseteq Queued \cup {c}
  BY <1>1, <1>5 DEF Queued
<1>7. Queued \subseteq Requests
  BY <1>1 DEF Queued
<1>8. /\ arrival'[c] = arrived + 1
      /\ \A d \in Queued : arrival'[d] = arrival[d] /\ arrival[d] \in Nat /\ arrival[d] <= arrived
  BY <1>1, <1>2, <1>3, <1>7 DEF OrderInv
<1>9. /\ \A d \in Queued' : arrival'[d] <= arrived'
      /\ \A d, e \in Queued' : d # e => arrival'[d] # arrival'[e]
  BY <1>1, <1>3, <1>6, <1>8 DEF OrderInv
<1>10. OldestIsShown'
  <2>1. SUFFICES ASSUME pending' # None, NEW d \in dormant'
                 PROVE  arrival'[pending'] < arrival'[d]
    BY DEF OldestIsShown
  <2>2. pending' \in Queued' /\ d \in Queued'
    BY <2>1 DEF Queued
  <2>3. CASE pending' = pending
    <3>1. pending \in Queued /\ pending # None
      BY <2>1, <2>3 DEF Queued
    <3>2. CASE d = c
      BY <1>1, <1>8, <3>1, <3>2, <2>3
    <3>3. CASE d \in dormant
      <4>1. arrival[pending] < arrival[d]
        BY <3>1, <3>3 DEF OrderInv, OldestIsShown
      <4>2. d \in Queued
        BY <3>3 DEF Queued
      <4> QED
        BY <1>8, <2>3, <3>1, <4>1, <4>2
    <3> QED
      BY <1>5, <2>1, <3>2, <3>3
  <2>4. CASE pending' # pending
    <3>1. arrival'[pending'] <= arrival'[d] /\ d # pending'
      BY <1>5, <2>1, <2>4
    <3>2. pending' \in Requests /\ d \in Requests
      BY <1>6, <1>7, <2>2
    <3> QED
      BY <1>4, <1>9, <2>2, <3>1, <3>2
  <2> QED
    BY <2>3, <2>4
<1> QED
  BY <1>9, <1>10 DEF OrderInv

(* Every step keeps the order. *)
LEMMA NextOrder ==
    ASSUME RequestsAssumption, InteractionInv, OrderInv, [Next]_vars
    PROVE  OrderInv'
<1>1. ASSUME UNCHANGED <<queueVars, orderVars>> PROVE OrderInv'
  <2>1. Queued' = Queued /\ UNCHANGED <<pending, dormant, arrival, arrived>>
    BY <1>1 DEF Queued, queueVars, orderVars
  <2> QED
    BY <2>1 DEF OrderInv, OldestIsShown
<1>2. ASSUME NEW a \in Controllers, Control(a) PROVE OrderInv'
  <2>1. CASE AttachController(a)
    BY <2>1, OrderStep DEF AttachController, orderVars
  <2>2. CASE ControllerDetached(a)
    BY <2>2, InvalidateOrder DEF ControllerDetached
  <2>3. ASSUME NEW c \in Requests, CancelForm(a, c) PROVE OrderInv'
    BY <2>3, CloseShownOrder DEF CancelForm
  <2>4. ASSUME NEW c \in Requests,
               \/ \E decision \in {"ALLOW", "DENY"} : ResolveToolInteraction(a, c, decision)
               \/ SubmitForm(a, c)
        PROVE  OrderInv'
    BY <1>1, <2>4 DEF ResolveToolInteraction, SubmitForm
  <2> QED
    BY <1>2, <2>1, <2>2, <2>3, <2>4 DEF Control
<1>3. ASSUME NEW c \in Requests, Settle(c) PROVE OrderInv'
  <2>1. CASE WriteEnds(c)
    BY <1>1, <2>1 DEF WriteEnds
  <2>2. CASE DecisionAccepted(c)
    BY <2>2, CloseShownOrder DEF DecisionAccepted
  <2>3. CASE DecisionUnknown(c)
    BY <2>3, CloseShownOrder DEF DecisionUnknown
  <2>4. CASE DecisionNotAccepted(c)
    <3>1. CASE c \in invalid \cup late \/ Closed
      BY <2>4, <3>1, CloseShownOrder DEF DecisionNotAccepted
    <3>2. CASE ~(c \in invalid \cup late \/ Closed)
      BY <1>1, <2>4, <3>2 DEF DecisionNotAccepted
    <3> QED
      BY <3>1, <3>2
  <2>5. CASE FormParsed(c)
    BY <2>5, CloseShownOrder DEF FormParsed
  <2>6. CASE FormParseFails(c)
    <3>1. CASE c \in invalid
      BY <2>6, <3>1, CloseShownOrder DEF FormParseFails
    <3>2. CASE c \notin invalid
      BY <1>1, <2>6, <3>2 DEF FormParseFails
    <3> QED
      BY <3>1, <3>2
  <2> QED
    BY <1>3, <2>1, <2>2, <2>3, <2>4, <2>5, <2>6 DEF Settle
<1>4. ASSUME NEW c \in Requests, AbortCandidate(c) PROVE OrderInv'
  BY <1>4, InvalidateOrder DEF AbortCandidate
<1>5. ASSUME NEW c \in Requests,
             \/ RequestRefused(c) \/ RequestQueued(c) \/ DeadlinePasses(c) \/ CellStopped(c)
             \/ RequestCancelled(c) \/ Wait(c)
      PROVE  OrderInv'
  <2>1. CASE RequestRefused(c) \/ DeadlinePasses(c) \/ WaiterReturns(c) \/ WaiterJoined(c)
    BY <1>1, <2>1 DEF RequestRefused, DeadlinePasses, WaiterReturns, WaiterJoined
  <2>2. CASE CellStopped(c) \/ RequestExpires(c)
    BY <1>4, <2>2 DEF CellStopped, RequestExpires
  <2>3. CASE RequestCancelled(c)
    BY <1>1, <1>4, <2>3 DEF RequestCancelled
  <2>4. CASE RequestQueued(c)
    BY <2>4, RequestQueuedOrder
  <2> QED
    BY <1>5, <2>1, <2>2, <2>3, <2>4 DEF Wait
<1>6. CASE CancelToolConfirmations \/ Close \/ CloseJoined
  BY <1>6, InvalidateOrder DEF CancelToolConfirmations, Close, CloseJoined
<1>7. CASE UNCHANGED vars
  BY <1>1, <1>7 DEF vars
<1> QED
  BY <1>2, <1>3, <1>5, <1>6, <1>7 DEF Next

(* Requests are shown in the order in which they asked. *)
THEOREM QueueIsFair == Spec => []OldestIsShown
<1>1. Init => OrderInv
  BY DEF Init, OrderInv, OldestIsShown, Queued
<1>2. InteractionInv /\ OrderInv /\ [Next]_vars => OrderInv'
  BY NextOrder, RequestsAssumption
<1>3. OrderInv => OldestIsShown
  BY DEF OrderInv
<1> QED
  BY <1>1, <1>2, <1>3, InteractionInvariant, PTL DEF Spec

-----------------------------------------------------------------------------
(* TurnAdmission: the inductive invariant                                  *)

(* Nothing of the turn is left to end, or another writer has to end it. *)
Settled(i) == row[i] = "RUNNING" => lease # "HELD"

(* A turn may run unattended in the store only between its write and the    *)
(* handover or the stop that follows.  Whoever reports failure has settled, *)
(* unless the confirming read raised, and then its ROOT task still has to.  *)
SettledInv ==
    \A i \in Intents :
        /\ worker[i] \in {"NEW", "START", "WRITING", "WAITING", "NONE", "CANCELLED", "FAILED"}
              => Settled(i)
        /\ caller[i] \in {"CANCELLED", "RAISED"} => Settled(i) \/ worker[i] = "UNCONFIRMED"
        /\ i \in Rivals => row[i] = "ABSENT"

(* The ROOT task outlives its worker, and a stop belongs to exactly one of  *)
(* them.                                                                    *)
JoinInv ==
    \A i \in Intents :
        /\ caller[i] \in {"NEW", "DONE"} => worker[i] = "NEW"
        /\ caller[i] \in {"CANCELLED", "RAISED"} \cup Settling =>
              worker[i] \in {"FULL", "NONE", "FAILED", "UNCONFIRMED", "CANCELLED"}
        /\ caller[i] \in {"ENDING", "RETURNED"} => worker[i] = "FULL"
        /\ stop[i] # "IDLE" <=> worker[i] = "ENDING" \/ caller[i] = "ENDING"

(* What is past its write exists, and what is FULL and runs was published. *)
PublishedInv ==
    \A i \in Intents :
        /\ worker[i] \in {"CHECKING", "READING", "FINALIZING", "ENDING", "FULL"} => row[i] # "ABSENT"
        /\ worker[i] = "FULL" /\ row[i] = "RUNNING" => i \in active

AdmissionInv == AdmissionTypeOK /\ SettledInv /\ JoinInv /\ PublishedInv

-----------------------------------------------------------------------------
(* The initial states satisfy the invariant. *)
LEMMA InitAdmission == AdmissionInit => AdmissionInv
BY IntentsAssumption DEF AdmissionInit, AdmissionInv, AdmissionTypeOK, SettledInv, JoinInv, PublishedInv, Settled, Terminal, Ended, Settling

(* Every step of a worker keeps the invariant: a write commits only in the   *)
(* hands of a worker that will confirm, publish or end it.                  *)
LEMMA WorkerKeeps ==
    ASSUME AdmissionInv, NEW i \in Intents, Worker(i) \/ ConfirmFails(i)
    PROVE  AdmissionInv'
<1> USE IntentsAssumption DEF AdmissionInv, AdmissionTypeOK, SettledInv, JoinInv, PublishedInv, Settled, Terminal, Ended, Settling,
        WorkerStep, WorkerEnds, WorkerGoes, storeVars, stopVars, Stopped
<1>1. CASE BeginWrite(i) BY <1>1 DEF BeginWrite
<1>2. CASE WriteFindsTurn(i) BY <1>2 DEF WriteFindsTurn
<1>3. CASE WriteCommits(i) BY <1>3 DEF WriteCommits
<1>4. CASE WriteFails(i) BY <1>4 DEF WriteFails
<1>5. CASE WorkerIsStale(i) BY <1>5 DEF WorkerIsStale
<1>6. CASE ConfirmedFull(i) BY <1>6 DEF ConfirmedFull
<1>7. CASE ConfirmedConflict(i) BY <1>7 DEF ConfirmedConflict
<1>8. CASE ConfirmedNone(i) BY <1>8 DEF ConfirmedNone
<1>9. CASE WorkspaceWaited(i) BY <1>9 DEF WorkspaceWaited
<1>10. CASE StartChecked(i) BY <1>10 DEF StartChecked
<1>11. CASE CheckFails(i) BY <1>11 DEF CheckFails
<1>12. CASE TerminalWinnerRead(i) BY <1>12 DEF TerminalWinnerRead
<1>13. CASE ReadFails(i) BY <1>13 DEF ReadFails
<1>14. CASE Finalized(i) BY <1>14 DEF Finalized
<1>15. CASE FinalizerFails(i) BY <1>15 DEF FinalizerFails
<1>16. CASE ConfirmFails(i) BY <1>16 DEF ConfirmFails
<1> HIDE DEF AdmissionInv
<1> QED BY <1>1, <1>2, <1>3, <1>4, <1>5, <1>6, <1>7, <1>8, <1>9, <1>10, <1>11, <1>12,
           <1>13, <1>14, <1>15, <1>16 DEF Worker

(* Every step of the caller and of its stop keeps the invariant: a stop is   *)
(* done only once the row is seen ended or the writer is stale.             *)
LEMMA CallerKeeps ==
    ASSUME AdmissionInv, NEW i \in Intents,
           AcceptRootIntent(i) \/ Caller(i) \/ StopAnswered(i) \/ StopRetried(i)
    PROVE  AdmissionInv'
<1> USE IntentsAssumption DEF AdmissionInv, AdmissionTypeOK, SettledInv, JoinInv, PublishedInv, Settled, Terminal, Ended, Settling,
        WorkerGoes, storeVars, stopVars, Stopped, StopDone
<1>1. CASE AcceptRootIntent(i) BY <1>1 DEF AcceptRootIntent
<1>2. CASE CallerStops(i) BY <1>2 DEF CallerStops
<1>3. CASE CallerReturns(i) BY <1>3 DEF CallerReturns
<1>4. CASE CallerRaises(i) BY <1>4 DEF CallerRaises
<1>5. CASE StopCommits(i) BY <1>5 DEF StopCommits
<1>6. CASE StopIsStale(i) BY <1>6 DEF StopIsStale
<1>7. CASE StopConfirmed(i) BY <1>7 DEF StopConfirmed
<1>8. CASE StopFails(i) BY <1>8 DEF StopFails
<1>9. CASE StopRepeated(i) BY <1>9 DEF StopRepeated
<1> HIDE DEF AdmissionInv
<1> QED BY <1>1, <1>2, <1>3, <1>4, <1>5, <1>6, <1>7, <1>8, <1>9 DEF Caller, StopAnswered, StopRetried

(* Every step of the ROOT task keeps the invariant: it gives the slot back   *)
(* only once the row is seen ended or the writer is stale.                  *)
LEMMA OwnerKeeps ==
    ASSUME AdmissionInv, NEW i \in Intents, Owner(i)
    PROVE  AdmissionInv'
<1> USE IntentsAssumption DEF AdmissionInv, AdmissionTypeOK, SettledInv, JoinInv, PublishedInv, Settled, Terminal, Ended, Settling,
        WorkerGoes, storeVars, stopVars, OwnerStep, OwnerEnds
<1>1. CASE OwnerSettles(i) BY <1>1 DEF OwnerSettles
<1>2. CASE OwnerInterrupts(i) BY <1>2 DEF OwnerInterrupts
<1>3. CASE OwnerIsStale(i) BY <1>3 DEF OwnerIsStale
<1>4. CASE OwnerReadsEnd(i) BY <1>4 DEF OwnerReadsEnd
<1>5. CASE OwnerRetries(i) BY <1>5 DEF OwnerRetries
<1>6. CASE RunRaises(i) BY <1>6 DEF RunRaises
<1>7. CASE RunReturns(i) BY <1>7 DEF RunReturns
<1> HIDE DEF AdmissionInv
<1> QED BY <1>1, <1>2, <1>3, <1>4, <1>5, <1>6, <1>7 DEF Owner, OwnerAnswered, OwnerRuns

(* Stops, closing, the workspace, the lease, a takeover and the end of a    *)
(* turn elsewhere keep the invariant.                                       *)
LEMMA EnvironmentKeeps ==
    ASSUME AdmissionInv, Environment
    PROVE  AdmissionInv'
<1> USE IntentsAssumption DEF AdmissionInv, AdmissionTypeOK, SettledInv, JoinInv, PublishedInv, Settled, Terminal, Ended, Settling,
        storeVars, callerVars, stopVars, HostCloses, Busy
<1>1. CASE CloseHost BY <1>1 DEF CloseHost
<1>2. CASE WorkspaceChanges BY <1>2 DEF WorkspaceChanges
<1>3. CASE LeaseExpires BY <1>3 DEF LeaseExpires
<1>4. CASE TakenOver BY <1>4 DEF TakenOver
<1>5. ASSUME NEW i \in Intents, StopRequested(i) PROVE AdmissionInv' BY <1>5 DEF StopRequested
<1>6. ASSUME NEW i \in Intents, CallerCancelled(i) PROVE AdmissionInv' BY <1>6 DEF CallerCancelled
<1>7. ASSUME NEW i \in Intents, TurnEnds(i) PROVE AdmissionInv' BY <1>7 DEF TurnEnds
<1> HIDE DEF AdmissionInv
<1> QED BY <1>1, <1>2, <1>3, <1>4, <1>5, <1>6, <1>7 DEF Environment

(* The invariant holds of every admission of every host: see the comments   *)
(* of its parts.                                                            *)
THEOREM AdmissionInvariant == AdmissionSpec => []AdmissionInv
<1>1. AdmissionInv /\ [AdmissionNext]_admissionVars => AdmissionInv'
  <2> SUFFICES ASSUME AdmissionInv, [AdmissionNext]_admissionVars PROVE AdmissionInv' OBVIOUS
  <2>1. CASE UNCHANGED admissionVars
    BY <2>1 DEF AdmissionInv, AdmissionTypeOK, SettledInv, JoinInv, PublishedInv, Settled, admissionVars, storeVars, callerVars, stopVars
  <2>2. CASE AdmissionNext BY <2>2, WorkerKeeps, CallerKeeps, OwnerKeeps, EnvironmentKeeps DEF AdmissionNext
  <2> QED BY <2>1, <2>2
<1> QED BY InitAdmission, <1>1, PTL DEF AdmissionSpec

(* Every reachable state is well typed. *)
THEOREM AdmissionTypes == AdmissionSpec => []AdmissionTypeOK
BY AdmissionInvariant, PTL DEF AdmissionInv

(* The ROOT task of a request leaves no turn running under this writer when *)
(* it ends, whatever was lost, stopped or failed; and an admission leaves    *)
(* it one to end only when its confirming read raised.                      *)
THEOREM AdmissionsLeaveNothing == AdmissionSpec => []AbandonedTurnIsEnded
<1>1. AdmissionInv => AbandonedTurnIsEnded
  BY DEF AdmissionInv, AdmissionTypeOK, SettledInv, JoinInv, Settled, AbandonedTurnIsEnded
<1> QED BY <1>1, AdmissionInvariant, PTL

(* What is handed to the runner exists and, while it runs, was published. *)
THEOREM ReturnedTurnsArePublished == AdmissionSpec => []ReturnedTurnIsPublished
<1>1. AdmissionInv => ReturnedTurnIsPublished
  BY DEF AdmissionInv, JoinInv, PublishedInv, ReturnedTurnIsPublished
<1> QED BY <1>1, AdmissionInvariant, PTL

(* No repeated write and no replayed command revives an ended turn. *)
THEOREM EndedTurnsStayEnded == AdmissionSpec => EndedTurnStaysEnded
<1> DEFINE Final == \A i \in Intents : row[i] \in Terminal => row'[i] = row[i]
<1>1. AdmissionInv /\ [AdmissionNext]_admissionVars => Final
  <2> SUFFICES ASSUME AdmissionInv, [AdmissionNext]_admissionVars, NEW j \in Intents, row[j] \in Terminal
               PROVE  row'[j] = row[j]
    OBVIOUS
  <2> USE DEF Terminal
  <2>1. CASE row' = row BY <2>1
  <2>2. ASSUME NEW i \in Intents, WriteCommits(i) PROVE row'[j] = row[j]
    BY <2>2 DEF WriteCommits, AdmissionInv, AdmissionTypeOK
  <2>3. ASSUME NEW i \in Intents, StopCommits(i) PROVE row'[j] = row[j]
    BY <2>3 DEF StopCommits, AdmissionInv, AdmissionTypeOK
  <2>4. ASSUME NEW i \in Intents, TurnEnds(i) PROVE row'[j] = row[j]
    BY <2>4 DEF TurnEnds, AdmissionInv, AdmissionTypeOK
  <2>5. CASE TakenOver BY <2>5 DEF TakenOver, AdmissionInv, AdmissionTypeOK
  <2>6. ASSUME NEW i \in Intents, OwnerInterrupts(i) PROVE row'[j] = row[j]
    BY <2>6 DEF OwnerInterrupts, AdmissionInv, AdmissionTypeOK
  <2>7. \/ row' = row \/ TakenOver
        \/ \E i \in Intents : WriteCommits(i) \/ StopCommits(i) \/ OwnerInterrupts(i) \/ TurnEnds(i)
    BY DEF AdmissionNext, admissionVars, storeVars, Worker, Caller, StopAnswered, StopRetried, Environment,
       AcceptRootIntent, BeginWrite, WriteFindsTurn, WriteFails, WorkerIsStale, ConfirmedFull,
       ConfirmedConflict, ConfirmedNone, ConfirmFails, WorkspaceWaited, StartChecked, CheckFails,
       TerminalWinnerRead, ReadFails, Finalized, FinalizerFails, CallerStops, CallerReturns,
       CallerRaises, StopIsStale, StopFails, StopConfirmed, StopRepeated, StopRequested,
       CallerCancelled, CloseHost, WorkspaceChanges, LeaseExpires, WorkerStep, WorkerEnds,
       Owner, OwnerAnswered, OwnerRuns, OwnerSettles, OwnerIsStale, OwnerReadsEnd, OwnerRetries,
       RunRaises, RunReturns, OwnerStep, OwnerEnds
  <2> QED BY <2>1, <2>2, <2>3, <2>4, <2>5, <2>6, <2>7
<1>2. AdmissionInv /\ [AdmissionNext]_admissionVars => [Final]_admissionVars
  BY <1>1
<1> QED BY <1>2, AdmissionInvariant, PTL DEF AdmissionSpec, EndedTurnStaysEnded

=============================================================================
