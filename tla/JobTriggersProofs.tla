-------------------------- MODULE JobTriggersProofs --------------------------
(***************************************************************************)
(* Proofs about the triggers of a job for any triggers, events, requests,  *)
(* schedulers, limit and schedule: no event is lost silently, the limit is *)
(* exceeded by less than the number of concurrent creators, and a cron     *)
(* slot fires at most once per scheduler and failure.                      *)
(***************************************************************************)
EXTENDS JobTriggers, TLAPS, FiniteSetTheorems

-----------------------------------------------------------------------------
(* Counting.                                                                *)

(* A part of a finite set counts no more than the set. *)
LEMMA Fewer ==
    ASSUME NEW S, IsFiniteSet(S), NEW A \in SUBSET S, NEW B \in SUBSET A
    PROVE  Cardinality(A) \in Nat /\ Cardinality(B) \in Nat /\ Cardinality(B) <= Cardinality(A)
<1>1. IsFiniteSet(A)
  BY FS_Subset
<1>2. IsFiniteSet(B) /\ Cardinality(B) <= Cardinality(A)
  BY <1>1, FS_Subset
<1> QED BY <1>1, <1>2, FS_CardinalityType

(* One member more counts one more at most. *)
LEMMA OneMore ==
    ASSUME NEW S, IsFiniteSet(S), NEW A \in SUBSET S, NEW s, NEW B \in SUBSET (A \cup {s})
    PROVE  Cardinality(A) \in Nat /\ Cardinality(B) \in Nat /\ Cardinality(B) <= Cardinality(A) + 1
<1>1. IsFiniteSet(A) /\ Cardinality(A) \in Nat
  BY FS_Subset, FS_CardinalityType
<1>2. IsFiniteSet(A \cup {s}) /\ Cardinality(A \cup {s}) <= Cardinality(A) + 1
  <2>1. /\ IsFiniteSet(A \cup {s})
        /\ Cardinality(A \cup {s}) \in {Cardinality(A), Cardinality(A) + 1}
    BY <1>1, FS_AddElement
  <2> QED BY <1>1, <2>1
<1>3. IsFiniteSet(B) /\ Cardinality(B) <= Cardinality(A \cup {s})
  BY <1>2, FS_Subset
<1>4. Cardinality(B) \in Nat /\ Cardinality(A \cup {s}) \in Nat
  BY <1>2, <1>3, FS_CardinalityType
<1> QED BY <1>1, <1>2, <1>3, <1>4

(* One member less counts one less at least. *)
LEMMA OneLess ==
    ASSUME NEW S, IsFiniteSet(S), NEW A \in SUBSET S, NEW s \in A, NEW B \in SUBSET (A \ {s})
    PROVE  Cardinality(A) \in Nat /\ Cardinality(B) \in Nat /\ Cardinality(B) + 1 <= Cardinality(A)
<1>1. IsFiniteSet(A) /\ Cardinality(A) \in Nat
  BY FS_Subset, FS_CardinalityType
<1>2. IsFiniteSet(A \ {s}) /\ Cardinality(A \ {s}) = Cardinality(A) - 1
  BY <1>1, FS_RemoveElement
<1>3. IsFiniteSet(B) /\ Cardinality(B) <= Cardinality(A \ {s})
  BY <1>2, FS_Subset
<1>4. Cardinality(B) \in Nat
  BY <1>3, FS_CardinalityType
<1> QED BY <1>1, <1>2, <1>3, <1>4

-----------------------------------------------------------------------------
(* The schedule.                                                            *)

(* Integer division by the period. *)
LEMMA Quotient ==
    ASSUME NEW x \in Nat, NEW y \in Nat \ {0}
    PROVE  (x \div y) \in Nat /\ (x \div y) * y <= x /\ x < (x \div y) * y + y
  BY SMT

(* The slot after a quotient. *)
LEMMA NextMultiple ==
    ASSUME NEW q \in Nat, NEW y \in Nat
    PROVE  (q + 1) * y = q * y + y /\ q * y \in Nat
  BY SMT

(* A larger factor makes a product that is larger by the other factor. *)
LEMMA ProductGap ==
    ASSUME NEW a \in Nat, NEW b \in Nat, NEW y \in Nat, a < b
    PROVE  a * y + y <= b * y
<1>1. PICK d \in Nat : b = a + 1 + d
  <2>1. b - a - 1 \in Nat /\ b = a + 1 + (b - a - 1)
    OBVIOUS
  <2> QED BY <2>1
<1>2. (a + 1 + d) * y = a * y + y + d * y /\ d * y \in Nat /\ a * y \in Nat
  BY SMT
<1> QED BY <1>1, <1>2

(* The next slot of a trigger lies after the present, within a period. *)
LEMMA NextSlotIsAhead ==
    ASSUME now \in 0 .. MaxTime
    PROVE  NextSlot \in Slots /\ now < NextSlot
<1> DEFINE q == now \div Period
<1>1. q \in Nat /\ q * Period <= now /\ now < q * Period + Period
  BY TriggerConstants, Quotient
<1>2. (q + 1) * Period = q * Period + Period /\ q * Period \in Nat
  BY <1>1, TriggerConstants, NextMultiple
<1>3. NextSlot = q * Period + Period
  BY <1>2 DEF NextSlot
<1> HIDE DEF q
<1> QED BY <1>1, <1>2, <1>3, TriggerConstants DEF Slots

(* As time passes the next slot does not come nearer to the start. *)
LEMMA NextSlotGrows ==
    ASSUME now \in Nat, now' = now + 1
    PROVE  NextSlot <= NextSlot' /\ NextSlot \in Nat /\ NextSlot' \in Nat
<1> DEFINE p == now \div Period
           q == now' \div Period
<1>1. p \in Nat /\ p * Period <= now
  BY TriggerConstants, Quotient
<1>2. now' \in Nat
  OBVIOUS
<1>3. q \in Nat /\ now' < q * Period + Period
  BY <1>2, TriggerConstants, Quotient
<1>4. NextSlot = p * Period + Period /\ p * Period \in Nat
  BY <1>1, TriggerConstants, NextMultiple DEF NextSlot
<1>5. NextSlot' = q * Period + Period /\ q * Period \in Nat
  BY <1>3, TriggerConstants, NextMultiple DEF NextSlot
<1> HIDE DEF p, q
<1>6. ~(q < p)
  <2> SUFFICES ASSUME q < p PROVE FALSE
    OBVIOUS
  <2>1. q * Period + Period <= p * Period
    BY <1>1, <1>3, TriggerConstants, ProductGap
  <2> QED BY <1>1, <1>3, <1>4, <1>5, <2>1, TriggerConstants
<1>7. p * Period <= q * Period
  <2>1. CASE p = q
    BY <2>1, <1>4
  <2>2. CASE p < q
    <3>1. p * Period + Period <= q * Period
      BY <1>1, <1>3, <2>2, TriggerConstants, ProductGap
    <3> QED BY <3>1, <1>4, <1>5, TriggerConstants
  <2> QED BY <1>1, <1>3, <1>6, <2>1, <2>2
<1> QED BY <1>4, <1>5, <1>7, TriggerConstants

-----------------------------------------------------------------------------
(* The places of the loops.                                                 *)

(* What a cron loop can become. *)
LEMMA CronPollers ==
    /\ CronIdle \in CronPoller /\ CronIdle.pc = "idle" /\ CronIdle.due = {}
    /\ \A due \in SUBSET (CronTriggers \X Slots) :
          /\ CronNext(due) \in CronPoller /\ CronNext(due).pc \in {"idle", "loop"}
          /\ CronNext(due).due = due
<1>1. 0 \in Slots
  BY TriggerConstants DEF Slots
<1>2. CronIdle \in CronPoller /\ CronIdle.pc = "idle" /\ CronIdle.due = {}
  BY <1>1 DEF CronIdle, CronPoller
<1>3. ASSUME NEW due \in SUBSET (CronTriggers \X Slots)
      PROVE  /\ CronNext(due) \in CronPoller /\ CronNext(due).pc \in {"idle", "loop"}
             /\ CronNext(due).due = due
  <2>1. CASE due = {}
    BY <1>2, <2>1 DEF CronNext
  <2>2. CASE due # {}
    <3>1. CronNext(due) = [CronIdle EXCEPT !.pc = "loop", !.due = due]
      BY <2>2 DEF CronNext
    <3> QED BY <1>1, <3>1 DEF CronPoller, CronIdle
  <2> QED BY <2>1, <2>2
<1> QED BY <1>2, <1>3

(* What an event loop can become. *)
LEMMA EventPollers ==
    /\ MatchIdle \in EventPoller /\ MatchIdle.pc = "idle"
    /\ \A events \in SUBSET Events, e \in Events, left \in SUBSET EventTriggers :
          /\ MatchNext(events, e, left) \in EventPoller
          /\ MatchNext(events, e, left).pc \in {"idle", "loop", "event"}
          /\ MatchNext(events, e, left).pc = "event" => MatchNext(events, e, left).event = e
<1>1. MatchIdle \in EventPoller /\ MatchIdle.pc = "idle"
  BY DEF MatchIdle, EventPoller
<1>2. ASSUME NEW events \in SUBSET Events, NEW e \in Events, NEW left \in SUBSET EventTriggers,
             NEW m, m = MatchNext(events, e, left)
      PROVE  /\ m \in EventPoller /\ m.pc \in {"idle", "loop", "event"}
             /\ m.pc = "event" => m.event = e
  <2>1. CASE left # {}
    <3>1. m = [MatchIdle EXCEPT !.pc = "event", !.events = events, !.event = e, !.left = left]
      BY <1>2, <2>1 DEF MatchNext
    <3> QED BY <3>1 DEF MatchIdle, EventPoller
  <2>2. CASE left = {} /\ events # {}
    <3>1. m = [MatchIdle EXCEPT !.pc = "loop", !.events = events]
      BY <1>2, <2>2 DEF MatchNext
    <3> QED BY <3>1 DEF MatchIdle, EventPoller
  <2>3. CASE left = {} /\ events = {}
    BY <1>1, <1>2, <2>3 DEF MatchNext
  <2> QED BY <2>1, <2>2, <2>3
<1> QED BY <1>1, <1>2

(* The types and the loops are in order at the start. *)
LEMMA TriggersInit == Init => TriggersInv /\ OvershootIsBounded
<1> SUFFICES ASSUME Init PROVE TriggersInv /\ OvershootIsBounded
  OBVIOUS
<1> USE TriggerConstants
<1>1. 0 \in 0 .. MaxTime /\ 0 \in 0 .. MaxFailures /\ Period \in Slots /\ 0 \in Slots
  BY DEF Slots
<1>2. TypeOK
  BY <1>1, CronPollers, EventPollers DEF Init, TypeOK
<1>3. LoopsFit /\ ConsumedEventStartedARun
  BY DEF Init, LoopsFit, CronFits, MatchFits, ConsumedEventStartedARun, CronIdle, MatchIdle
<1>4. NextIsNear
  <2>1. NextSlot \in Slots /\ now < NextSlot
    BY <1>1, NextSlotIsAhead DEF Init
  <2>2. 0 \div Period = 0
    BY SMT
  <2>3. NextSlot = Period
    BY <2>2 DEF NextSlot, Init
  <2> QED BY <2>3 DEF Init, NextIsNear
<1>5. SlotsAreCounted
  <2> SUFFICES ASSUME NEW t \in CronTriggers, NEW x \in Slots
               PROVE  fired[t][x] + Cardinality({s \in Schedulers : CanFire(s, t, x)})
                          <= Cardinality(Schedulers) + failures
    BY DEF SlotsAreCounted
  <2>1. fired[t][x] = 0 /\ failures = 0
    BY DEF Init
  <2>2. {s \in Schedulers : CanFire(s, t, x)} \in SUBSET Schedulers
    OBVIOUS
  <2> QED BY <2>1, <2>2, Fewer
<1>6. OvershootIsBounded
  <2>1. Deciding = 0
    <3>1. /\ {c \in Requests : request[c] = "checked"} = {}
          /\ {s \in Schedulers : cron[s].pc = "checked"} = {}
          /\ {s \in Schedulers : matcher[s].pc = "checked"} = {}
      <4>1. \A c \in Requests : request[c] # "checked"
        BY DEF Init
      <4>2. \A s \in Schedulers : cron[s].pc = "idle" /\ matcher[s].pc = "idle"
        <5>1. \A s \in Schedulers : cron[s] = CronIdle /\ matcher[s] = MatchIdle
          BY DEF Init
        <5> QED BY <5>1, CronPollers, EventPollers
      <4> QED BY <4>1, <4>2
    <3>2. /\ Cardinality({c \in Requests : request[c] = "checked"}) = 0
          /\ Cardinality({s \in Schedulers : cron[s].pc = "checked"}) = 0
          /\ Cardinality({s \in Schedulers : matcher[s].pc = "checked"}) = 0
      BY <3>1, FS_EmptySet, Zenon
    <3> QED BY <3>2 DEF Deciding
  <2>2. Creators \in Nat
    BY FS_CardinalityType DEF Creators
  <2> QED BY <2>1, <2>2 DEF Init, OvershootIsBounded
<1> QED BY <1>2, <1>3, <1>4, <1>5, <1>6 DEF TriggersInv

-----------------------------------------------------------------------------
(* What every step may do.                                                  *)

(* The requests keep their type; they and the runs are all they touch. *)
LEMMA RequestEffect ==
    ASSUME TypeOK, NEW c \in Requests, RequestStep(c)
    PROVE  /\ TypeOK' /\ failures <= failures'
           /\ UNCHANGED <<now, next, deleted, fired, event, started, cron, matcher>>
<1>1. CASE RequestCheck(c)
  BY <1>1 DEF RequestCheck, TypeOK
<1>2. CASE RequestCreate(c)
  BY <1>2 DEF RequestCreate, TypeOK
<1>3. CASE RequestFails(c)
  BY <1>3, TriggerConstants DEF RequestFails, Fail, TypeOK
<1>4. CASE RetryRun(c)
  BY <1>4 DEF RetryRun, TypeOK
<1> QED BY <1>1, <1>2, <1>3, <1>4 DEF RequestStep

(* The five steps of the cron loop of s: where it goes and what it changes.  *)
LEMMA CronEffect ==
    ASSUME TriggersInv, NEW s \in Schedulers, CronStep(s)
    PROVE  /\ TypeOK'
           /\ UNCHANGED <<now, deleted, extra, event, started, request, matcher>>
           /\ \E c \in CronPoller : cron' = [cron EXCEPT ![s] = c]
<1> USE DEF TriggersInv, TypeOK
<1>0. cron[s] \in CronPoller /\ CronFits(s)
  BY DEF LoopsFit
<1>typed. ASSUME NEW c \in CronPoller, cron' = [cron EXCEPT ![s] = c]
          PROVE  cron' \in [Schedulers -> CronPoller]
  BY <1>typed
<1>1. CASE CronPoll(s)
  <2> DEFINE due == {t \in CronTriggers : t \notin deleted /\ next[t] <= now}
             c == [cron[s] EXCEPT !.pc = "loop", !.due = {<<t, next[t]>> : t \in due}]
  <2>1. {<<t, next[t]>> : t \in due} \in SUBSET (CronTriggers \X Slots)
    OBVIOUS
  <2>2. c \in CronPoller
    BY <1>0, <2>1 DEF CronPoller
  <2>3. cron' = [cron EXCEPT ![s] = c]
    BY <1>1 DEF CronPoll
  <2> QED BY <1>1, <1>typed, <2>2, <2>3 DEF CronPoll
<1>2. ASSUME NEW t \in CronTriggers, NEW x \in Slots, CronCheck(s, t, x)
      PROVE  /\ TypeOK'
             /\ UNCHANGED <<now, deleted, extra, event, started, request, matcher>>
             /\ \E c \in CronPoller : cron' = [cron EXCEPT ![s] = c]
  <2> DEFINE left == cron[s].due \ {<<t, x>>}
             c == IF BelowLimit THEN [pc |-> "checked", due |-> left, trigger |-> t, slot |-> x]
                  ELSE CronNext(left)
  <2>1. left \in SUBSET (CronTriggers \X Slots)
    BY <1>0 DEF CronPoller
  <2>2. c \in CronPoller
    BY <2>1, CronPollers DEF CronPoller
  <2>3. cron' = [cron EXCEPT ![s] = c]
    BY <1>2 DEF CronCheck
  <2> QED BY <1>2, <1>typed, <2>2, <2>3 DEF CronCheck
<1>3. CASE CronCreate(s)
  <2>1. CASE cron[s].trigger \in deleted
    BY <1>3, <1>typed, <2>1, CronPollers DEF CronCreate
  <2>2. CASE cron[s].trigger \notin deleted
    <3>1. [cron[s] EXCEPT !.pc = "created"] \in CronPoller
      BY <1>0 DEF CronPoller
    <3>2. cron' = [cron EXCEPT ![s] = [cron[s] EXCEPT !.pc = "created"]]
      BY <1>3, <2>2 DEF CronCreate, CronGoto
    <3>3. cron[s].trigger \in CronTriggers /\ cron[s].slot \in Slots
      BY <1>0, <1>3 DEF CronCreate, CronFits, CronPoller
    <3>4. fired' \in [CronTriggers -> [Slots -> Nat]]
      <4>1. fired' = [fired EXCEPT ![cron[s].trigger][cron[s].slot] = @ + 1]
        BY <1>3, <2>2 DEF CronCreate
      <4>2. fired[cron[s].trigger] \in [Slots -> Nat]
        BY <3>3
      <4>3. [fired[cron[s].trigger] EXCEPT ![cron[s].slot] = @ + 1] \in [Slots -> Nat]
        BY <3>3, <4>2
      <4> QED BY <3>3, <4>1, <4>3
    <3>5. UNCHANGED <<now, next, deleted, extra, event, started, request, matcher, failures>>
          /\ active' = active + 1
      BY <1>3, <2>2 DEF CronCreate
    <3>6. cron' \in [Schedulers -> CronPoller]
      BY <1>typed, <3>1, <3>2
    <3>7. TypeOK'
      BY <3>4, <3>5, <3>6
    <3>8. UNCHANGED <<now, deleted, extra, event, started, request, matcher>>
      BY <3>5
    <3> QED BY <3>1, <3>2, <3>7, <3>8, Zenon
  <2> QED BY <2>1, <2>2
<1>4. CASE CronFired(s)
  <2>1. CronNext(cron[s].due) \in CronPoller
    BY <1>0, CronPollers DEF CronPoller
  <2>2. next' \in [CronTriggers -> Slots]
    BY <1>4, NextSlotIsAhead DEF CronFired
  <2> QED BY <1>4, <1>typed, <2>1, <2>2 DEF CronFired
<1>5. CASE CronFails(s)
  <2>1. cron' = [cron EXCEPT ![s] = CronIdle] /\ failures' \in 0 .. MaxFailures
    BY <1>5, TriggerConstants DEF CronFails, Fail
  <2> QED BY <1>5, <1>typed, <2>1, CronPollers DEF CronFails
<1> QED BY <1>1, <1>2, <1>3, <1>4, <1>5 DEF CronStep

(* Where the event loop of s goes is a place of such a loop. *)
MatchMoves(s, m) ==
    /\ m \in EventPoller /\ matcher' = [matcher EXCEPT ![s] = m]
    /\ m.pc \in {"event", "checked", "created"} => m.event \in Events
    /\ m.pc \in {"checked", "created"} => m.trigger \in EventTriggers
    /\ m.pc = "created" => started'[m.event] # {}

(* Each of the steps of the event loop moves it.                            *)
LEMMA EventMoves ==
    ASSUME TriggersInv, NEW s \in Schedulers, EventStep(s)
    PROVE  \E m : MatchMoves(s, m)
<1>0. matcher[s] \in EventPoller /\ MatchFits(s) /\ started \in [Events -> SUBSET EventTriggers]
  BY DEF TriggersInv, TypeOK, LoopsFit
<1>1. CASE EventPoll(s)
  <2> DEFINE pending == {e \in Events : event[e] = "pending"}
             m == [matcher[s] EXCEPT !.pc = "loop", !.events = pending]
  <2>1. m \in EventPoller /\ m.pc = "loop"
    BY <1>0 DEF EventPoller
  <2>2. matcher' = [matcher EXCEPT ![s] = m]
    BY <1>1 DEF EventPoll
  <2> HIDE DEF m
  <2> QED BY <2>1, <2>2 DEF MatchMoves
<1>2. ASSUME NEW e \in Events, EventPick(s, e)
      PROVE  \E m : MatchMoves(s, m)
  <2> DEFINE events == matcher[s].events \ {e}
             left == EventTriggers \ deleted
             m == MatchNext(events, e, left)
  <2>1. events \in SUBSET Events /\ left \in SUBSET EventTriggers
    BY <1>0 DEF EventPoller
  <2>2. matcher' = [matcher EXCEPT ![s] = m]
    BY <1>2 DEF EventPick
  <2> HIDE DEF events, left
  <2>3. m \in EventPoller /\ m.pc \in {"idle", "loop", "event"} /\ (m.pc = "event" => m.event = e)
    BY <2>1, EventPollers
  <2> HIDE DEF m
  <2> QED BY <2>2, <2>3 DEF MatchMoves
<1>3. ASSUME NEW t \in EventTriggers, EventCheck(s, t)
      PROVE  \E m : MatchMoves(s, m)
  <2> DEFINE e == matcher[s].event
             left == matcher[s].left \ {t}
             events == matcher[s].events
  <2>1. e \in Events /\ events \in SUBSET Events /\ left \in SUBSET EventTriggers
    BY <1>0, <1>3 DEF EventCheck, MatchFits, EventPoller
  <2>2. CASE BelowLimit
    <3> DEFINE m == [matcher[s] EXCEPT !.pc = "checked", !.left = left, !.trigger = t]
    <3>1. m \in EventPoller /\ m.pc = "checked" /\ m.event = e /\ m.trigger = t
      BY <1>0, <2>1 DEF EventPoller
    <3>2. matcher' = [matcher EXCEPT ![s] = m]
      BY <1>3, <2>2 DEF EventCheck, MatchTrigger
    <3> HIDE DEF m, e
    <3> QED BY <2>1, <3>1, <3>2 DEF MatchMoves
  <2>3. CASE ~BelowLimit
    <3> DEFINE m == MatchNext(events, e, left)
    <3>1. matcher' = [matcher EXCEPT ![s] = m]
      BY <1>3, <2>3 DEF EventCheck, MatchTrigger
    <3> HIDE DEF events, e, left
    <3>2. m \in EventPoller /\ m.pc \in {"idle", "loop", "event"} /\ (m.pc = "event" => m.event = e)
      BY <2>1, EventPollers
    <3> HIDE DEF m
    <3> QED BY <2>1, <3>1, <3>2 DEF MatchMoves
  <2> QED BY <2>2, <2>3
<1>4. CASE EventCreate(s)
  <2>1. CASE matcher[s].trigger \in deleted
    <3>1. matcher' = [matcher EXCEPT ![s] = MatchIdle]
      BY <1>4, <2>1 DEF EventCreate
    <3> QED BY <3>1, EventPollers DEF MatchMoves
  <2>2. CASE matcher[s].trigger \notin deleted
    <3> DEFINE m == [matcher[s] EXCEPT !.pc = "created"]
               e == matcher[s].event
               t == matcher[s].trigger
    <3>1. e \in Events /\ t \in EventTriggers
      BY <1>0, <1>4 DEF EventCreate, MatchFits
    <3>2. m \in EventPoller /\ m.pc = "created" /\ m.event = e /\ m.trigger = t
      BY <1>0 DEF EventPoller
    <3>3. /\ matcher' = [matcher EXCEPT ![s] = m]
          /\ started' = [started EXCEPT ![e] = @ \cup {t}]
      BY <1>4, <2>2 DEF EventCreate, MatchGoto
    <3> HIDE DEF m, e, t
    <3>4. started'[e] # {}
      BY <1>0, <3>1, <3>3
    <3> QED BY <3>1, <3>2, <3>3, <3>4 DEF MatchMoves
  <2> QED BY <2>1, <2>2
<1>5. CASE EventConsume(s)
  <2> DEFINE e == matcher[s].event
             events == matcher[s].events
             left == matcher[s].left
             m == MatchNext(events, e, left)
  <2>1. e \in Events /\ events \in SUBSET Events /\ left \in SUBSET EventTriggers
    BY <1>0, <1>5 DEF EventConsume, MatchFits, EventPoller
  <2>2. matcher' = [matcher EXCEPT ![s] = m]
    BY <1>5 DEF EventConsume
  <2> HIDE DEF events, left, e
  <2>3. m \in EventPoller /\ m.pc \in {"idle", "loop", "event"} /\ (m.pc = "event" => m.event = e)
    BY <2>1, EventPollers
  <2> HIDE DEF m
  <2> QED BY <2>1, <2>2, <2>3 DEF MatchMoves
<1>6. CASE EventFails(s)
  <2>1. matcher' = [matcher EXCEPT ![s] = MatchIdle]
    BY <1>6 DEF EventFails
  <2> QED BY <2>1, EventPollers DEF MatchMoves
<1> QED BY <1>1, <1>2, <1>3, <1>4, <1>5, <1>6 DEF EventStep

(* The tables under a step of the event loop: a created run is recorded, and *)
(* an event is marked only after one.                                       *)
LEMMA EventEffect ==
    ASSUME TriggersInv, NEW s \in Schedulers, EventStep(s)
    PROVE  /\ UNCHANGED <<now, next, deleted, fired, extra, request, cron>>
           /\ started' \in [Events -> SUBSET EventTriggers]
           /\ \A e \in Events : started[e] \subseteq started'[e]
           /\ event' \in [Events -> {"unborn", "pending", "consumed"}]
           /\ \A e \in Events : event'[e] = "consumed" => event[e] = "consumed" \/ started[e] # {}
           /\ active' \in {active, active + 1}
           /\ failures' \in 0 .. MaxFailures /\ failures <= failures'
<1>0. /\ MatchFits(s) /\ started \in [Events -> SUBSET EventTriggers]
      /\ event \in [Events -> {"unborn", "pending", "consumed"}]
      /\ failures \in 0 .. MaxFailures
  BY DEF TriggersInv, TypeOK, LoopsFit
<1>1. CASE EventPoll(s) \/ (\E e \in Events : EventPick(s, e)) \/ (\E t \in EventTriggers : EventCheck(s, t))
  <2>1. UNCHANGED <<now, next, deleted, fired, active, extra, event, started, request, cron, failures>>
    BY <1>1 DEF EventPoll, EventPick, EventCheck
  <2> QED BY <1>0, <2>1, TriggerConstants
<1>2. CASE EventCreate(s)
  <2>1. matcher[s].event \in Events /\ matcher[s].trigger \in EventTriggers
    BY <1>0, <1>2 DEF EventCreate, MatchFits
  <2>2. /\ UNCHANGED <<now, next, deleted, fired, extra, event, request, cron, failures>>
        /\ active' \in {active, active + 1}
        /\ started' \in {started, [started EXCEPT ![matcher[s].event] = @ \cup {matcher[s].trigger}]}
    BY <1>2 DEF EventCreate
  <2> QED BY <1>0, <2>1, <2>2, TriggerConstants
<1>3. CASE EventConsume(s)
  <2>1. matcher[s].event \in Events /\ started[matcher[s].event] # {}
    BY <1>0, <1>3 DEF EventConsume, MatchFits
  <2>2. /\ UNCHANGED <<now, next, deleted, fired, active, extra, started, request, cron, failures>>
        /\ event' = [event EXCEPT ![matcher[s].event] = "consumed"]
    BY <1>3 DEF EventConsume
  <2> QED BY <1>0, <2>1, <2>2, TriggerConstants
<1>4. CASE EventFails(s)
  BY <1>0, <1>4, TriggerConstants DEF EventFails, Fail
<1> QED BY <1>1, <1>2, <1>3, <1>4 DEF EventStep

-----------------------------------------------------------------------------
(* The slots of the cron triggers.                                          *)

(* A step of the cron loop of s keeps what the loop carries in order. *)
LEMMA CronFitsStep ==
    ASSUME TriggersInv, NEW s \in Schedulers, CronStep(s)
    PROVE  CronFits(s)'
<1>0. /\ cron \in [Schedulers -> CronPoller] /\ cron[s] \in CronPoller /\ CronFits(s)
      /\ next \in [CronTriggers -> Slots] /\ now \in Nat /\ now' = now
  BY TriggerConstants, CronEffect DEF TriggersInv, TypeOK, LoopsFit
<1>idle. ASSUME cron' = [cron EXCEPT ![s] = CronIdle] PROVE CronFits(s)'
  <2>1. cron'[s].pc = "idle" /\ cron'[s].due = {}
    BY <1>0, <1>idle, CronPollers
  <2> QED BY <2>1 DEF CronFits
<1>less. ASSUME NEW due \in SUBSET cron[s].due, cron' = [cron EXCEPT ![s] = CronNext(due)]
         PROVE  CronFits(s)'
  <2>1. due \in SUBSET (CronTriggers \X Slots)
    BY <1>0 DEF CronPoller
  <2>2. cron'[s].pc \in {"idle", "loop"} /\ cron'[s].due \subseteq cron[s].due
    BY <1>0, <1>less, <2>1, CronPollers
  <2> QED BY <1>0, <2>2 DEF CronFits
<1>1. CASE CronPoll(s)
  <2>1. /\ cron'[s].pc = "loop"
        /\ cron'[s].due = {<<t, next[t]>> : t \in {u \in CronTriggers : u \notin deleted /\ next[u] <= now}}
    BY <1>0, <1>1 DEF CronPoll, CronPoller
  <2>2. \A t \in CronTriggers, x \in Slots : <<t, x>> \in cron'[s].due => x = next[t] /\ x <= now
    BY <2>1
  <2> QED BY <1>0, <2>1, <2>2 DEF CronFits
<1>2. ASSUME NEW t \in CronTriggers, NEW x \in Slots, CronCheck(s, t, x)
      PROVE  CronFits(s)'
  <2>1. CASE BelowLimit
    <3>1. cron' = [cron EXCEPT ![s] = [pc |-> "checked", due |-> cron[s].due \ {<<t, x>>},
                                       trigger |-> t, slot |-> x]]
      BY <1>2, <2>1 DEF CronCheck
    <3>2. /\ cron'[s].pc = "checked" /\ cron'[s].due = cron[s].due \ {<<t, x>>}
          /\ cron'[s].trigger = t /\ cron'[s].slot = x /\ <<t, x>> \in cron[s].due
      BY <1>0, <1>2, <3>1 DEF CronCheck
    <3>3. x <= now /\ \A y \in Slots : <<t, y>> \in cron[s].due => x = y
      BY <1>0, <3>2 DEF CronFits
    <3> QED BY <1>0, <3>2, <3>3 DEF CronFits
  <2>2. CASE ~BelowLimit
    BY <1>2, <1>less, <2>2 DEF CronCheck
  <2> QED BY <2>1, <2>2
<1>3. CASE CronCreate(s)
  <2>1. CASE cron[s].trigger \in deleted
    BY <1>3, <1>idle, <2>1 DEF CronCreate
  <2>2. CASE cron[s].trigger \notin deleted
    <3>1. /\ cron[s].pc = "checked"
          /\ cron'[s].due = cron[s].due /\ cron'[s].trigger = cron[s].trigger
          /\ cron'[s].slot = cron[s].slot
      BY <1>0, <1>3, <2>2 DEF CronCreate, CronGoto, CronPoller
    <3> QED BY <1>0, <3>1 DEF CronFits
  <2> QED BY <2>1, <2>2
<1>4. CASE CronFired(s)
  BY <1>4, <1>less DEF CronFired
<1>5. CASE CronFails(s)
  BY <1>5, <1>idle DEF CronFails
<1> QED BY <1>1, <1>2, <1>3, <1>4, <1>5 DEF CronStep

(* A step of the cron loop sets next_trigger_at forward only. *)
LEMMA NextGoesOn ==
    ASSUME TriggersInv, NEW s \in Schedulers, CronStep(s)
    PROVE  NextIsNear' /\ \A t \in CronTriggers : next[t] <= next'[t]
<1>0. /\ next \in [CronTriggers -> Slots] /\ NextIsNear /\ now' = now
      /\ NextSlot \in Slots
  BY NextSlotIsAhead, CronEffect DEF TriggersInv, TypeOK
<1>1. NextSlot \in Nat /\ \A t \in CronTriggers : next[t] \in Nat /\ next[t] <= NextSlot
  <2>1. Slots \subseteq Nat
    BY TriggerConstants DEF Slots
  <2>2. NextSlot \in Nat /\ \A t \in CronTriggers : next[t] \in Nat
    BY <1>0, <2>1, Zenon
  <2> QED BY <1>0, <2>2 DEF NextIsNear
<1>2. CASE CronFired(s)
  <2>1. \A t \in CronTriggers : next'[t] = next[t] \/ next'[t] = NextSlot
    BY <1>0, <1>2 DEF CronFired
  <2>2. \A t \in CronTriggers : next'[t] <= NextSlot /\ next[t] <= next'[t]
    BY <1>1, <2>1
  <2>3. \A t \in CronTriggers : next'[t] <= NextSlot'
    BY <1>0, <2>2 DEF NextSlot
  <2> QED BY <2>2, <2>3 DEF NextIsNear
<1>3. CASE ~CronFired(s)
  <2>1. next' = next
    BY <1>3 DEF CronStep, CronPoll, CronCheck, CronCreate, CronFails
  <2>2. \A t \in CronTriggers : next[t] <= next'[t]
    BY <1>1, <2>1
  <2>3. \A t \in CronTriggers : next'[t] <= NextSlot'
    BY <1>0, <2>1 DEF NextIsNear, NextSlot
  <2> QED BY <2>2, <2>3 DEF NextIsNear
<1> QED BY <1>2, <1>3

(* While neither the trigger nor its next slot changes, only a scheduler    *)
(* that moves may gain or lose a run of the slot.                           *)
LEMMA OthersCanFire ==
    ASSUME NEW s \in Schedulers, NEW u \in Schedulers, u # s, NEW c,
           cron \in [Schedulers -> CronPoller], cron' = [cron EXCEPT ![s] = c],
           NEW t \in CronTriggers, NEW x \in Slots, deleted' = deleted, next'[t] = next[t]
    PROVE  CanFire(u, t, x)' <=> CanFire(u, t, x)
<1>1. cron'[u] = cron[u]
  OBVIOUS
<1> QED BY <1>1 DEF CanFire

(* Every step of a cron loop keeps the count: a run is created by a         *)
(* scheduler that could fire and now cannot, a slot is passed by one that   *)
(* has fired it, and a failure, which gives one scheduler another chance,   *)
(* is counted.                                                              *)
LEMMA CronCounts ==
    ASSUME TriggersInv, NEW s \in Schedulers, CronStep(s)
    PROVE  SlotsAreCounted'
<1> DEFINE C(t, x) == {u \in Schedulers : CanFire(u, t, x)}
<1>0. /\ cron \in [Schedulers -> CronPoller] /\ cron[s] \in CronPoller
      /\ \A u \in Schedulers : CronFits(u)
      /\ next \in [CronTriggers -> Slots] /\ now \in Nat /\ now' = now
      /\ fired \in [CronTriggers -> [Slots -> Nat]] /\ failures \in Nat
      /\ IsFiniteSet(Schedulers) /\ deleted' = deleted /\ Slots \subseteq Nat
  <2>1. Slots \subseteq Nat
    BY TriggerConstants DEF Slots
  <2>2. failures \in Nat /\ now \in Nat
    BY TriggerConstants DEF TriggersInv, TypeOK
  <2> QED BY <2>1, <2>2, TriggerConstants, CronEffect DEF TriggersInv, TypeOK, LoopsFit
<1>c. PICK c \in CronPoller : cron' = [cron EXCEPT ![s] = c]
  BY CronEffect
<1>n. Cardinality(Schedulers) \in Nat
  BY <1>0, FS_CardinalityType
<1>count. \A t \in CronTriggers, x \in Slots :
             fired[t][x] + Cardinality(C(t, x)) <= Cardinality(Schedulers) + failures
  BY DEF TriggersInv, SlotsAreCounted
<1> SUFFICES ASSUME NEW t \in CronTriggers, NEW x \in Slots
             PROVE  fired'[t][x] + Cardinality(C(t, x)') <= Cardinality(Schedulers) + failures'
  BY DEF SlotsAreCounted
<1>t. fired[t][x] \in Nat /\ C(t, x) \in SUBSET Schedulers /\ C(t, x)' \in SUBSET Schedulers
  BY <1>0
<1>fewer. ASSUME \A u \in Schedulers : CanFire(u, t, x)' => CanFire(u, t, x),
                 fired' = fired, failures' = failures
          PROVE  fired'[t][x] + Cardinality(C(t, x)') <= Cardinality(Schedulers) + failures'
  <2>1. C(t, x)' \in SUBSET C(t, x)
    BY <1>fewer
  <2>2. Cardinality(C(t, x)) \in Nat /\ Cardinality(C(t, x)') \in Nat
        /\ Cardinality(C(t, x)') <= Cardinality(C(t, x))
    BY <1>0, <1>t, <2>1, Fewer
  <2> HIDE DEF C
  <2> QED BY <1>count, <1>fewer, <1>n, <1>t, <1>0, <2>2
<1>1. CASE CronPoll(s)
  <2>1. next' = next /\ fired' = fired /\ failures' = failures /\ cron[s].pc = "idle"
    BY <1>1 DEF CronPoll
  <2>2. /\ cron'[s].pc = "loop"
        /\ cron'[s].due = {<<v, next[v]>> : v \in {w \in CronTriggers : w \notin deleted /\ next[w] <= now}}
    BY <1>0, <1>1 DEF CronPoll, CronPoller
  <2>3. <<t, x>> \in cron'[s].due => x = next[t]
    BY <2>2
  <2>4. CanFire(s, t, x)' => CanFire(s, t, x)
    BY <1>0, <2>1, <2>2, <2>3 DEF CanFire
  <2> QED BY <1>0, <1>c, <1>fewer, <2>1, <2>4, OthersCanFire
<1>2. ASSUME NEW v \in CronTriggers, NEW y \in Slots, CronCheck(s, v, y)
      PROVE  fired'[t][x] + Cardinality(C(t, x)') <= Cardinality(Schedulers) + failures'
  <2>1. next' = next /\ fired' = fired /\ failures' = failures /\ cron[s].pc = "loop"
    BY <1>2 DEF CronCheck
  <2>2. CanFire(s, t, x)' => CanFire(s, t, x)
    <3>1. CASE BelowLimit
      <4>1. /\ cron'[s].pc = "checked" /\ cron'[s].due = cron[s].due \ {<<v, y>>}
            /\ cron'[s].trigger = v /\ cron'[s].slot = y /\ <<v, y>> \in cron[s].due
        BY <1>0, <1>2, <3>1 DEF CronCheck
      <4> QED BY <1>0, <2>1, <4>1 DEF CanFire
    <3>2. CASE ~BelowLimit
      <4>1. cron[s].due \ {<<v, y>>} \in SUBSET (CronTriggers \X Slots)
        BY <1>0 DEF CronPoller
      <4>2. cron'[s].pc \in {"idle", "loop"} /\ cron'[s].due = cron[s].due \ {<<v, y>>}
        BY <1>0, <1>2, <3>2, <4>1, CronPollers DEF CronCheck
      <4> QED BY <1>0, <2>1, <4>2 DEF CanFire
    <3> QED BY <3>1, <3>2
  <2> QED BY <1>0, <1>c, <1>fewer, <2>1, <2>2, OthersCanFire
<1>3. CASE CronCreate(s)
  <2> DEFINE v == cron[s].trigger
             y == cron[s].slot
  <2>0. next' = next /\ failures' = failures /\ cron[s].pc = "checked"
        /\ v \in CronTriggers /\ y \in Slots
    BY <1>0, <1>3 DEF CronCreate, CronFits, CronPoller
  <2>1. CASE v \in deleted
    <3>1. fired' = fired /\ cron'[s] = CronIdle
      BY <1>0, <1>3, <2>1 DEF CronCreate
    <3>2. CanFire(s, t, x)' => CanFire(s, t, x)
      BY <1>0, <2>0, <3>1, CronPollers DEF CanFire
    <3> QED BY <1>0, <1>c, <1>fewer, <2>0, <3>1, <3>2, OthersCanFire
  <2>2. CASE v \notin deleted
    <3>1. /\ cron'[s].pc = "created" /\ cron'[s].due = cron[s].due
          /\ cron'[s].trigger = v /\ cron'[s].slot = y
      BY <1>0, <1>3, <2>2 DEF CronCreate, CronGoto, CronPoller
    <3>2. fired' = [fired EXCEPT ![v][y] = @ + 1]
      BY <1>3, <2>2 DEF CronCreate
    <3>3. \A z \in Slots : <<v, z>> \notin cron[s].due
      BY <1>0, <2>0 DEF CronFits
    <3> HIDE DEF v, y
    <3>4. CASE t = v /\ x = y
      <4>1. fired'[t][x] = fired[t][x] + 1
        BY <1>0, <2>0, <3>2, <3>4
      <4>2. CanFire(s, t, x) /\ ~CanFire(s, t, x)'
        BY <1>0, <2>0, <2>2, <3>1, <3>3, <3>4 DEF CanFire, v, y
      <4>3. C(t, x)' \in SUBSET (C(t, x) \ {s}) /\ s \in C(t, x)
        BY <1>0, <1>c, <2>0, <4>2, OthersCanFire
      <4>4. Cardinality(C(t, x)) \in Nat /\ Cardinality(C(t, x)') \in Nat
            /\ Cardinality(C(t, x)') + 1 <= Cardinality(C(t, x))
        BY <1>0, <1>t, <4>3, OneLess
      <4> HIDE DEF C
      <4> QED BY <1>count, <1>n, <1>t, <1>0, <2>0, <4>1, <4>4
    <3>5. CASE ~(t = v /\ x = y)
      <4>1. fired'[t][x] = fired[t][x]
        BY <1>0, <2>0, <3>2, <3>5
      <4>2. CanFire(s, t, x)' => CanFire(s, t, x)
        BY <1>0, <2>0, <3>1, <3>5 DEF CanFire, v, y
      <4>3. C(t, x)' \in SUBSET C(t, x)
        BY <1>0, <1>c, <2>0, <4>2, OthersCanFire
      <4>4. Cardinality(C(t, x)) \in Nat /\ Cardinality(C(t, x)') \in Nat
            /\ Cardinality(C(t, x)') <= Cardinality(C(t, x))
        BY <1>0, <1>t, <4>3, Fewer
      <4> HIDE DEF C
      <4> QED BY <1>count, <1>n, <1>t, <1>0, <2>0, <4>1, <4>4
    <3> QED BY <3>4, <3>5
  <2> QED BY <2>1, <2>2
<1>4. CASE CronFired(s)
  <2> DEFINE v == cron[s].trigger
             y == cron[s].slot
  <2>0. fired' = fired /\ failures' = failures /\ cron[s].pc = "created"
        /\ v \in CronTriggers /\ y <= now /\ \A z \in Slots : <<v, z>> \notin cron[s].due
    BY <1>0, <1>4 DEF CronFired, CronFits
  <2>1. cron'[s].pc \in {"idle", "loop"} /\ cron'[s].due = cron[s].due
    BY <1>0, <1>4, CronPollers DEF CronFired, CronPoller
  <2>2. CASE t # v \/ t \in deleted
    <3>1. next'[t] = next[t]
      BY <1>0, <1>4, <2>2 DEF CronFired
    <3>2. CanFire(s, t, x)' => CanFire(s, t, x)
      BY <1>0, <2>0, <2>1, <2>2, <3>1 DEF CanFire
    <3> QED BY <1>0, <1>c, <1>fewer, <2>0, <3>1, <3>2, OthersCanFire
  <2>3. CASE t = v /\ t \notin deleted
    <3>1. next'[t] = NextSlot /\ now < NextSlot /\ NextSlot \in Slots
      BY <1>0, <1>4, <2>3, NextSlotIsAhead DEF CronFired, TriggersInv, TypeOK
    <3>2. next[t] <= next'[t] /\ next'[t] \in Nat /\ next[t] \in Nat /\ y \in Nat /\ x \in Nat
      BY <1>0, <3>1, NextGoesOn DEF CronPoller
    <3> HIDE DEF v, y
    <3>3. CanFire(s, t, x)' => CanFire(s, t, x)
      BY <1>0, <2>0, <2>1, <2>3, <3>1, <3>2 DEF CanFire, v, y
    <3>4. ASSUME NEW u \in Schedulers, u # s, CanFire(u, t, x)'
          PROVE  CanFire(u, t, x)
      <4>1. cron'[u] = cron[u] /\ CronFits(u)
        BY <1>0, <1>c, <3>4
      <4>2. ~(cron[u].pc = "created" /\ cron[u].trigger = t /\ <<t, x>> \in cron[u].due)
        BY <4>1 DEF CronFits
      <4> QED BY <1>0, <3>2, <3>4, <4>1, <4>2 DEF CanFire
    <3> QED BY <1>fewer, <2>0, <3>3, <3>4
  <2> QED BY <2>2, <2>3
<1>5. CASE CronFails(s)
  <2>1. next' = next /\ fired' = fired /\ failures' = failures + 1
    BY <1>5 DEF CronFails, Fail
  <2>2. C(t, x)' \in SUBSET (C(t, x) \cup {s})
    BY <1>0, <1>c, <2>1, OthersCanFire
  <2>3. Cardinality(C(t, x)) \in Nat /\ Cardinality(C(t, x)') \in Nat
        /\ Cardinality(C(t, x)') <= Cardinality(C(t, x)) + 1
    BY <1>0, <1>t, <2>2, OneMore
  <2> HIDE DEF C
  <2> QED BY <1>count, <1>n, <1>t, <1>0, <2>1, <2>3
<1> QED BY <1>1, <1>2, <1>3, <1>4, <1>5 DEF CronStep

-----------------------------------------------------------------------------
(* The invariant.                                                           *)

(* Steps that leave the schedule, the cron loops and the fired slots alone  *)
(* leave the count alone.                                                   *)
LEMMA CountStays ==
    ASSUME SlotsAreCounted, TypeOK, failures' \in Nat, failures <= failures',
           UNCHANGED <<next, deleted, fired, cron>>
    PROVE  SlotsAreCounted'
<1> SUFFICES ASSUME NEW t \in CronTriggers, NEW x \in Slots
             PROVE  fired'[t][x] + Cardinality({s \in Schedulers : CanFire(s, t, x)'})
                       <= Cardinality(Schedulers) + failures'
  BY DEF SlotsAreCounted
<1> DEFINE C == {s \in Schedulers : CanFire(s, t, x)}
           D == {s \in Schedulers : CanFire(s, t, x)'}
<1>1. \A s \in Schedulers : CanFire(s, t, x)' <=> CanFire(s, t, x)
  BY DEF CanFire
<1>2. D = C
  BY <1>1
<1>3. Cardinality(C) \in Nat /\ Cardinality(Schedulers) \in Nat
  BY TriggerConstants, FS_CardinalityType, Fewer
<1>4. fired[t][x] \in Nat /\ failures \in Nat /\ fired' = fired
  BY DEF TypeOK
<1>5. fired[t][x] + Cardinality(C) <= Cardinality(Schedulers) + failures
  BY DEF SlotsAreCounted
<1> HIDE DEF C, D
<1>6. fired'[t][x] + Cardinality(D) <= Cardinality(Schedulers) + failures'
  BY <1>2, <1>3, <1>4, <1>5
<1> QED BY <1>6 DEF D

(* Every step keeps TriggersInv.                                            *)
LEMMA TriggersInvStep == TriggersInv /\ [Next]_vars => TriggersInv'
<1> SUFFICES ASSUME TriggersInv, [Next]_vars PROVE TriggersInv'
  OBVIOUS
<1> USE TriggerConstants
<1>0. TypeOK /\ LoopsFit /\ ConsumedEventStartedARun /\ NextIsNear /\ SlotsAreCounted
      /\ failures \in Nat /\ now \in Nat
  BY DEF TriggersInv, TypeOK
\* steps that touch neither the loops nor what they rely on
<1>still. ASSUME TypeOK', failures <= failures',
                 UNCHANGED <<now, next, deleted, fired, event, started, cron, matcher>>
          PROVE  TriggersInv'
  <2>1. LoopsFit' /\ ConsumedEventStartedARun'
    BY <1>0, <1>still DEF LoopsFit, CronFits, MatchFits, ConsumedEventStartedARun
  <2>2. NextIsNear'
    BY <1>0, <1>still DEF NextIsNear, NextSlot
  <2>3. SlotsAreCounted'
    BY <1>0, <1>still, CountStays DEF TypeOK
  <2> QED BY <1>still, <2>1, <2>2, <2>3 DEF TriggersInv
<1>1. CASE Tick
  <2>1. /\ now' = now + 1 /\ now' \in 0 .. MaxTime
        /\ UNCHANGED <<next, deleted, fired, active, extra, event, started, request, cron, matcher, failures>>
    BY <1>1, <1>0 DEF Tick, TypeOK
  <2>2. TypeOK'
    BY <1>0, <2>1 DEF TypeOK
  <2>3. LoopsFit'
    <3>1. Slots \subseteq Nat /\ \A s \in Schedulers : cron[s].slot \in Slots
      BY <1>0 DEF Slots, TypeOK, CronPoller
    <3>2. \A x \in Nat : x <= now => x <= now'
      BY <1>0, <2>1
    <3>3. ASSUME NEW s \in Schedulers PROVE CronFits(s)' /\ MatchFits(s)'
      BY <1>0, <2>1, <3>1, <3>2 DEF LoopsFit, CronFits, MatchFits
    <3> QED BY <3>3 DEF LoopsFit
  <2>4. NextIsNear'
    <3>1. NextSlot <= NextSlot' /\ NextSlot \in Nat /\ NextSlot' \in Nat
      BY <1>0, <2>1, NextSlotGrows
    <3>2. \A t \in CronTriggers : next[t] \in Nat /\ next[t] <= NextSlot
      BY <1>0 DEF TypeOK, Slots, NextIsNear
    <3>3. \A t \in CronTriggers : next'[t] <= NextSlot'
      BY <2>1, <3>1, <3>2
    <3> QED BY <3>3 DEF NextIsNear
  <2>5. ConsumedEventStartedARun' /\ SlotsAreCounted'
    BY <1>0, <2>1, CountStays DEF ConsumedEventStartedARun
  <2> QED BY <2>2, <2>3, <2>4, <2>5 DEF TriggersInv
<1>2. CASE FinishRun
  <2>1. TypeOK' /\ UNCHANGED <<now, next, deleted, fired, event, started, cron, matcher, failures>>
    BY <1>0, <1>2 DEF FinishRun, TypeOK
  <2> QED BY <1>0, <1>still, <2>1
<1>3. ASSUME NEW c \in Requests, RequestStep(c) PROVE TriggersInv'
  BY <1>0, <1>3, <1>still, RequestEffect
<1>4. ASSUME NEW s \in Schedulers, CronStep(s) PROVE TriggersInv'
  <2>1. TypeOK' /\ NextIsNear' /\ SlotsAreCounted'
    BY <1>4, CronEffect, NextGoesOn, CronCounts
  <2>2. /\ UNCHANGED <<now, event, started, matcher>>
        /\ \A u \in Schedulers \ {s} : cron'[u] = cron[u]
    BY <1>0, <1>4, CronEffect DEF TypeOK
  <2>3. CronFits(s)'
    BY <1>4, CronFitsStep
  <2>4. LoopsFit'
    <3>1. \A u \in Schedulers : MatchFits(u)'
      BY <1>0, <2>2 DEF LoopsFit, MatchFits
    <3>2. \A u \in Schedulers \ {s} : CronFits(u)'
      BY <1>0, <2>2 DEF LoopsFit, CronFits
    <3> QED BY <2>3, <3>1, <3>2 DEF LoopsFit
  <2>5. ConsumedEventStartedARun'
    BY <1>0, <2>2 DEF ConsumedEventStartedARun
  <2> QED BY <2>1, <2>4, <2>5 DEF TriggersInv
<1>5. ASSUME NEW s \in Schedulers, EventStep(s) PROVE TriggersInv'
  <2>1. PICK m : MatchMoves(s, m)
    BY <1>5, EventMoves
  <2>2. /\ UNCHANGED <<now, next, deleted, fired, extra, request, cron>>
        /\ started' \in [Events -> SUBSET EventTriggers]
        /\ \A e \in Events : started[e] \subseteq started'[e]
        /\ event' \in [Events -> {"unborn", "pending", "consumed"}]
        /\ \A e \in Events : event'[e] = "consumed" => event[e] = "consumed" \/ started[e] # {}
        /\ active' \in {active, active + 1}
        /\ failures' \in 0 .. MaxFailures /\ failures <= failures'
    BY <1>5, EventEffect
  <2>3. matcher' \in [Schedulers -> EventPoller] /\ matcher'[s] = m
        /\ \A u \in Schedulers \ {s} : matcher'[u] = matcher[u]
    BY <1>0, <2>1 DEF MatchMoves, TypeOK
  <2>4. TypeOK'
    BY <1>0, <2>2, <2>3 DEF TypeOK
  <2>5. LoopsFit'
    <3>1. \A u \in Schedulers : CronFits(u)'
      BY <1>0, <2>2 DEF LoopsFit, CronFits
    <3>2. MatchFits(s)'
      BY <2>1, <2>3 DEF MatchMoves, MatchFits
    <3>3. \A u \in Schedulers \ {s} : MatchFits(u)'
      BY <1>0, <2>2, <2>3 DEF LoopsFit, MatchFits
    <3> QED BY <3>1, <3>2, <3>3 DEF LoopsFit
  <2>6. ConsumedEventStartedARun'
    BY <1>0, <2>2 DEF ConsumedEventStartedARun
  <2>7. NextIsNear' /\ SlotsAreCounted'
    BY <1>0, <2>2, CountStays DEF NextIsNear, NextSlot
  <2> QED BY <2>4, <2>5, <2>6, <2>7 DEF TriggersInv
<1>6. ASSUME NEW t \in CronTriggers \cup EventTriggers, DeleteTrigger(t) PROVE TriggersInv'
  <2>1. /\ deleted' = deleted \cup {t}
        /\ UNCHANGED <<now, next, fired, active, extra, event, started, request, cron, matcher, failures>>
    BY <1>6 DEF DeleteTrigger
  <2>2. TypeOK' /\ ConsumedEventStartedARun'
    BY <1>0, <2>1 DEF TypeOK, ConsumedEventStartedARun
  <2>3. LoopsFit' /\ NextIsNear'
    BY <1>0, <2>1 DEF LoopsFit, CronFits, MatchFits, NextIsNear, NextSlot
  <2>4. SlotsAreCounted'
    <3> SUFFICES ASSUME NEW v \in CronTriggers, NEW x \in Slots
                 PROVE  fired'[v][x] + Cardinality({s \in Schedulers : CanFire(s, v, x)'})
                           <= Cardinality(Schedulers) + failures'
      BY DEF SlotsAreCounted
    <3>1. {s \in Schedulers : CanFire(s, v, x)'} \in SUBSET {s \in Schedulers : CanFire(s, v, x)}
      BY <2>1 DEF CanFire
    <3>2. /\ Cardinality({s \in Schedulers : CanFire(s, v, x)}) \in Nat
          /\ Cardinality({s \in Schedulers : CanFire(s, v, x)'}) \in Nat
          /\ Cardinality({s \in Schedulers : CanFire(s, v, x)'})
                <= Cardinality({s \in Schedulers : CanFire(s, v, x)})
      BY <3>1, Fewer
    <3>3. fired[v][x] \in Nat /\ Cardinality(Schedulers) \in Nat
      BY <1>0, FS_CardinalityType DEF TypeOK
    <3>4. fired[v][x] + Cardinality({s \in Schedulers : CanFire(s, v, x)})
             <= Cardinality(Schedulers) + failures
      BY <1>0 DEF SlotsAreCounted
    <3> QED BY <1>0, <2>1, <3>2, <3>3, <3>4
  <2> QED BY <2>2, <2>3, <2>4 DEF TriggersInv
<1>7. ASSUME NEW e \in Events, EmitEvent(e) PROVE TriggersInv'
  <2>1. /\ event' = [event EXCEPT ![e] = "pending"]
        /\ UNCHANGED <<now, next, deleted, fired, active, extra, started, request, cron, matcher, failures>>
    BY <1>7 DEF EmitEvent
  <2>2. TypeOK' /\ ConsumedEventStartedARun'
    BY <1>0, <2>1 DEF TypeOK, ConsumedEventStartedARun
  <2>3. LoopsFit' /\ NextIsNear'
    BY <1>0, <2>1 DEF LoopsFit, CronFits, MatchFits, NextIsNear, NextSlot
  <2>4. SlotsAreCounted'
    BY <1>0, <2>1, CountStays
  <2> QED BY <2>2, <2>3, <2>4 DEF TriggersInv
<1>8. CASE UNCHANGED vars
  <2>1. TypeOK' /\ UNCHANGED <<now, next, deleted, fired, event, started, cron, matcher, failures>>
    BY <1>0, <1>8 DEF vars, TypeOK
  <2> QED BY <1>0, <1>still, <2>1
<1> QED BY <1>1, <1>2, <1>3, <1>4, <1>5, <1>6, <1>7, <1>8 DEF Next

(* The tables and the loops' places fit, no event is marked consumed before *)
(* a trigger made a run for it, and every run of a cron slot is one         *)
(* scheduler's or one failure's (TriggersInv), at any time.                 *)
THEOREM TriggersAreConsistent == Spec => []TriggersInv
<1>1. Init => TriggersInv
  BY TriggersInit
<1> QED BY <1>1, TriggersInvStep, PTL DEF Spec

(* A cron slot makes at most one run per scheduler and failure              *)
(* (CronSlotRepeatsAreBounded).                                             *)
THEOREM CronSlotsRepeatOnlyByFailure == Spec => []CronSlotRepeatsAreBounded
<1>1. TriggersInv => CronSlotRepeatsAreBounded
  <2> SUFFICES ASSUME TriggersInv, NEW t \in CronTriggers, NEW x \in Slots
               PROVE  fired[t][x] <= Cardinality(Schedulers) + failures
    BY DEF CronSlotRepeatsAreBounded
  <2>1. Cardinality({s \in Schedulers : CanFire(s, t, x)}) \in Nat
    BY TriggerConstants, Fewer
  <2>2. Cardinality(Schedulers) \in Nat /\ fired[t][x] \in Nat /\ failures \in Nat
    BY TriggerConstants, FS_CardinalityType DEF TriggersInv, TypeOK
  <2>3. fired[t][x] + Cardinality({s \in Schedulers : CanFire(s, t, x)})
           <= Cardinality(Schedulers) + failures
    BY DEF TriggersInv, SlotsAreCounted
  <2> QED BY <2>1, <2>2, <2>3
<1> QED BY <1>1, TriggersAreConsistent, PTL

-----------------------------------------------------------------------------
(* The limit.                                                               *)

(* The tasks between the count and the INSERT. *)
DecidingRequests == {c \in Requests : request[c] = "checked"}
DecidingCrons == {s \in Schedulers : cron[s].pc = "checked"}
DecidingMatchers == {s \in Schedulers : matcher[s].pc = "checked"}

(* They are counted, and there are no more of them than tasks. *)
LEMMA DecidingIsCounted ==
    /\ Cardinality(DecidingRequests) \in Nat /\ Cardinality(DecidingCrons) \in Nat
    /\ Cardinality(DecidingMatchers) \in Nat
    /\ Deciding = Cardinality(DecidingRequests) + Cardinality(DecidingCrons)
                    + Cardinality(DecidingMatchers)
    /\ Creators \in Nat /\ Deciding \in Nat /\ Deciding <= Creators
<1> USE TriggerConstants
<1>1. /\ DecidingRequests \in SUBSET Requests /\ DecidingCrons \in SUBSET Schedulers
      /\ DecidingMatchers \in SUBSET Schedulers
  BY DEF DecidingRequests, DecidingCrons, DecidingMatchers
<1>2. /\ Cardinality(DecidingRequests) \in Nat /\ Cardinality(Requests) \in Nat
      /\ Cardinality(DecidingRequests) <= Cardinality(Requests)
  BY <1>1, Fewer
<1>3. /\ Cardinality(DecidingCrons) \in Nat /\ Cardinality(Schedulers) \in Nat
      /\ Cardinality(DecidingCrons) <= Cardinality(Schedulers)
  BY <1>1, Fewer
<1>4. /\ Cardinality(DecidingMatchers) \in Nat
      /\ Cardinality(DecidingMatchers) <= Cardinality(Schedulers)
  BY <1>1, Fewer
<1>5. Deciding = Cardinality(DecidingRequests) + Cardinality(DecidingCrons)
                   + Cardinality(DecidingMatchers)
  BY DEF Deciding, DecidingRequests, DecidingCrons, DecidingMatchers
<1> QED BY <1>2, <1>3, <1>4, <1>5 DEF Creators

(* The same of the next state. *)
LEMMA DecidingIsCountedNext ==
    /\ Cardinality(DecidingRequests') \in Nat /\ Cardinality(DecidingCrons') \in Nat
    /\ Cardinality(DecidingMatchers') \in Nat
    /\ Deciding' = Cardinality(DecidingRequests') + Cardinality(DecidingCrons')
                     + Cardinality(DecidingMatchers')
    /\ Deciding' \in Nat /\ Deciding' <= Creators
<1> USE TriggerConstants
<1>1. /\ DecidingRequests' \in SUBSET Requests /\ DecidingCrons' \in SUBSET Schedulers
      /\ DecidingMatchers' \in SUBSET Schedulers
  BY DEF DecidingRequests, DecidingCrons, DecidingMatchers
<1>2. /\ Cardinality(DecidingRequests') \in Nat /\ Cardinality(Requests) \in Nat
      /\ Cardinality(DecidingRequests') <= Cardinality(Requests)
  BY <1>1, Fewer
<1>3. /\ Cardinality(DecidingCrons') \in Nat /\ Cardinality(Schedulers) \in Nat
      /\ Cardinality(DecidingCrons') <= Cardinality(Schedulers)
  BY <1>1, Fewer
<1>4. /\ Cardinality(DecidingMatchers') \in Nat
      /\ Cardinality(DecidingMatchers') <= Cardinality(Schedulers)
  BY <1>1, Fewer
<1>5. Deciding' = Cardinality(DecidingRequests') + Cardinality(DecidingCrons')
                    + Cardinality(DecidingMatchers')
  BY DEF Deciding, DecidingRequests, DecidingCrons, DecidingMatchers
<1> QED BY <1>2, <1>3, <1>4, <1>5 DEF Creators

(* A step by which nobody decides anew and a run is created only by a task  *)
(* that had decided keeps the bound.                                        *)
LEMMA NobodyDecides ==
    ASSUME OvershootIsBounded, active \in Nat, active' \in Nat,
           DecidingRequests' \subseteq DecidingRequests, DecidingCrons' \subseteq DecidingCrons,
           DecidingMatchers' \subseteq DecidingMatchers,
           \/ active' <= active
           \/ /\ active' = active + 1
              /\ \/ DecidingRequests' # DecidingRequests \/ DecidingCrons' # DecidingCrons
                 \/ DecidingMatchers' # DecidingMatchers
    PROVE  OvershootIsBounded'
<1> USE TriggerConstants
<1>1. /\ DecidingRequests \in SUBSET Requests /\ DecidingCrons \in SUBSET Schedulers
      /\ DecidingMatchers \in SUBSET Schedulers
  BY DEF DecidingRequests, DecidingCrons, DecidingMatchers
<1>2. /\ Cardinality(DecidingRequests') <= Cardinality(DecidingRequests)
      /\ Cardinality(DecidingCrons') <= Cardinality(DecidingCrons)
      /\ Cardinality(DecidingMatchers') <= Cardinality(DecidingMatchers)
  BY <1>1, Fewer
<1>lost. ASSUME NEW S, IsFiniteSet(S), NEW A \in SUBSET S, NEW B \in SUBSET A, B # A
         PROVE  Cardinality(B) + 1 <= Cardinality(A)
  <2>1. PICK a \in A : a \notin B
    BY <1>lost
  <2>2. B \in SUBSET (A \ {a})
    BY <2>1
  <2> QED BY <1>lost, <2>2, OneLess
<1>3. /\ DecidingRequests' # DecidingRequests =>
             Cardinality(DecidingRequests') + 1 <= Cardinality(DecidingRequests)
      /\ DecidingCrons' # DecidingCrons =>
             Cardinality(DecidingCrons') + 1 <= Cardinality(DecidingCrons)
      /\ DecidingMatchers' # DecidingMatchers =>
             Cardinality(DecidingMatchers') + 1 <= Cardinality(DecidingMatchers)
  BY <1>1, <1>lost
<1>4. active' + Deciding' <= active + Deciding
  <2>1. CASE active' <= active
    BY <2>1, <1>2, DecidingIsCounted, DecidingIsCountedNext
  <2>2. CASE active' = active + 1
    BY <2>2, <1>2, <1>3, DecidingIsCounted, DecidingIsCountedNext
  <2> QED BY <2>1, <2>2
<1>5. Creators' = Creators
  BY DEF Creators
<1> QED BY <1>4, <1>5, DecidingIsCounted, DecidingIsCountedNext DEF OvershootIsBounded

(* A step that counts fewer runs than the limit and creates none keeps the  *)
(* bound, whoever decides by it.                                            *)
LEMMA CheckedBelowLimit ==
    ASSUME BelowLimit, active \in Nat, extra \in Nat, active' = active
    PROVE  OvershootIsBounded'
<1>1. active' <= MaxConcurrency - 1 /\ active' \in Nat
  BY TriggerConstants DEF BelowLimit
<1>2. Creators' = Creators /\ Creators \in Nat
  BY DecidingIsCounted DEF Creators
<1> QED BY <1>1, <1>2, TriggerConstants, DecidingIsCountedNext DEF OvershootIsBounded

(* Every step keeps the overshoot of the limit within its bound.            *)
LEMMA OvershootStep ==
    ASSUME TriggersInv, OvershootIsBounded, [Next]_vars
    PROVE  OvershootIsBounded'
<1>0. /\ TypeOK /\ active \in Nat /\ extra \in Nat
      /\ request \in [Requests -> {"waiting", "checked", "done"}]
      /\ cron \in [Schedulers -> CronPoller] /\ matcher \in [Schedulers -> EventPoller]
  BY DEF TriggersInv, TypeOK
<1>t. active' \in Nat
  BY TriggersInvStep DEF TriggersInv, TypeOK
\* the sets that stay
<1>request. request' = request => DecidingRequests' = DecidingRequests
  BY DEF DecidingRequests
<1>cron. cron' = cron => DecidingCrons' = DecidingCrons
  BY DEF DecidingCrons
<1>matcher. matcher' = matcher => DecidingMatchers' = DecidingMatchers
  BY DEF DecidingMatchers
\* a task that goes anywhere else leaves its set
<1>leaves. /\ \A c \in Requests : request' = [request EXCEPT ![c] = "done"] =>
                 DecidingRequests' = DecidingRequests \ {c}
           /\ \A s \in Schedulers, c \in CronPoller :
                 cron' = [cron EXCEPT ![s] = c] /\ c.pc # "checked" =>
                     DecidingCrons' = DecidingCrons \ {s}
           /\ \A s \in Schedulers, m \in EventPoller :
                 matcher' = [matcher EXCEPT ![s] = m] /\ m.pc # "checked" =>
                     DecidingMatchers' = DecidingMatchers \ {s}
  BY <1>0 DEF DecidingRequests, DecidingCrons, DecidingMatchers
<1>1. CASE Tick
  BY <1>1, <1>0, <1>t, <1>request, <1>cron, <1>matcher, NobodyDecides DEF Tick
<1>2. CASE FinishRun
  <2>1. active' <= active /\ UNCHANGED <<request, cron, matcher>>
    BY <1>0, <1>2 DEF FinishRun
  <2> QED BY <2>1, <1>0, <1>t, <1>request, <1>cron, <1>matcher, NobodyDecides
<1>3. ASSUME NEW c \in Requests, RequestStep(c) PROVE OvershootIsBounded'
  <2>0. DecidingCrons' = DecidingCrons /\ DecidingMatchers' = DecidingMatchers
    BY <1>0, <1>3, <1>cron, <1>matcher, RequestEffect
  <2>1. CASE RequestCheck(c)
    <3>1. active' = active
      BY <2>1 DEF RequestCheck
    <3>2. CASE BelowLimit
      BY <1>0, <3>1, <3>2, CheckedBelowLimit
    <3>3. CASE ~BelowLimit
      <4>1. request' = [request EXCEPT ![c] = "done"]
        BY <2>1, <3>3 DEF RequestCheck
      <4>2. DecidingRequests' \subseteq DecidingRequests
        BY <1>leaves, <4>1
      <4> QED BY <1>0, <1>t, <2>0, <3>1, <4>2, NobodyDecides
    <3> QED BY <3>2, <3>3
  <2>2. CASE RequestCreate(c)
    <3>1. active' = active + 1 /\ request' = [request EXCEPT ![c] = "done"] /\ request[c] = "checked"
      BY <2>2 DEF RequestCreate
    <3>2. DecidingRequests' = DecidingRequests \ {c} /\ c \in DecidingRequests
      BY <1>leaves, <3>1 DEF DecidingRequests
    <3>3. DecidingRequests' \subseteq DecidingRequests /\ DecidingRequests' # DecidingRequests
      BY <3>2
    <3> QED BY <1>0, <1>t, <2>0, <3>1, <3>3, NobodyDecides
  <2>3. CASE RequestFails(c) \/ RetryRun(c)
    <3>1. active' = active /\ request' = [request EXCEPT ![c] = "done"]
      BY <2>3 DEF RequestFails, RetryRun
    <3>2. DecidingRequests' \subseteq DecidingRequests
      BY <1>leaves, <3>1
    <3> QED BY <1>0, <1>t, <2>0, <3>1, <3>2, NobodyDecides
  <2> QED BY <1>3, <2>1, <2>2, <2>3 DEF RequestStep
<1>4. ASSUME NEW s \in Schedulers, CronStep(s) PROVE OvershootIsBounded'
  <2>0. DecidingRequests' = DecidingRequests /\ DecidingMatchers' = DecidingMatchers
    BY <1>4, <1>request, <1>matcher, CronEffect
  <2>1. PICK c \in CronPoller : cron' = [cron EXCEPT ![s] = c]
    BY <1>4, CronEffect
  <2>2. c = cron'[s]
    BY <1>0, <2>1
  <2>3. CASE active' = active /\ c.pc # "checked"
    <3>1. DecidingCrons' \subseteq DecidingCrons
      BY <1>leaves, <2>1, <2>3
    <3> QED BY <1>0, <1>t, <2>0, <2>3, <3>1, NobodyDecides
  <2>4. CASE active' = active + 1 /\ c.pc # "checked" /\ cron[s].pc = "checked"
    <3>1. DecidingCrons' \subseteq DecidingCrons /\ DecidingCrons' # DecidingCrons
      BY <1>leaves, <2>1, <2>4 DEF DecidingCrons
    <3> QED BY <1>0, <1>t, <2>0, <2>4, <3>1, NobodyDecides
  <2>5. CASE active' = active /\ BelowLimit
    BY <1>0, <2>5, CheckedBelowLimit
  <2>6. CASE CronPoll(s)
    <3>1. active' = active /\ cron'[s].pc = "loop"
      BY <1>0, <2>6 DEF CronPoll, CronPoller
    <3> QED BY <2>2, <2>3, <3>1
  <2>7. ASSUME NEW t \in CronTriggers, NEW x \in Slots, CronCheck(s, t, x), ~BelowLimit
        PROVE  OvershootIsBounded'
    <3>1. active' = active /\ cron'[s] = CronNext(cron[s].due \ {<<t, x>>})
      BY <1>0, <2>7 DEF CronCheck
    <3>2. cron[s].due \ {<<t, x>>} \in SUBSET (CronTriggers \X Slots)
      BY <1>0 DEF CronPoller
    <3>3. CronNext(cron[s].due \ {<<t, x>>}).pc \in {"idle", "loop"}
      BY <3>2, CronPollers
    <3> QED BY <2>2, <2>3, <3>1, <3>3
  <2>8. CASE CronCreate(s)
    <3>1. CASE cron[s].trigger \in deleted
      <4>1. active' = active /\ cron'[s] = CronIdle
        BY <1>0, <2>8, <3>1 DEF CronCreate
      <4> QED BY <2>2, <2>3, <4>1, CronPollers
    <3>2. CASE cron[s].trigger \notin deleted
      <4>1. active' = active + 1 /\ cron[s].pc = "checked" /\ cron'[s].pc = "created"
        BY <1>0, <2>8, <3>2 DEF CronCreate, CronGoto, CronPoller
      <4> QED BY <2>2, <2>4, <4>1
    <3> QED BY <3>1, <3>2
  <2>9. CASE CronFired(s)
    <3>1. active' = active /\ cron'[s] = CronNext(cron[s].due)
      BY <1>0, <2>9 DEF CronFired
    <3>2. cron[s].due \in SUBSET (CronTriggers \X Slots)
      BY <1>0 DEF CronPoller
    <3>3. CronNext(cron[s].due).pc \in {"idle", "loop"}
      BY <3>2, CronPollers
    <3> QED BY <2>2, <2>3, <3>1, <3>3
  <2>10. CASE CronFails(s)
    <3>1. active' = active /\ cron'[s] = CronIdle
      BY <1>0, <2>10 DEF CronFails
    <3> QED BY <2>2, <2>3, <3>1, CronPollers
  <2>11. ASSUME NEW t \in CronTriggers, NEW x \in Slots, CronCheck(s, t, x)
         PROVE  OvershootIsBounded'
    BY <2>5, <2>7, <2>11 DEF CronCheck
  <2> QED BY <1>4, <2>6, <2>8, <2>9, <2>10, <2>11 DEF CronStep
<1>5. ASSUME NEW s \in Schedulers, EventStep(s) PROVE OvershootIsBounded'
  <2>0. DecidingRequests' = DecidingRequests /\ DecidingCrons' = DecidingCrons
    BY <1>5, <1>request, <1>cron, EventEffect
  <2>1. PICK m : MatchMoves(s, m)
    BY <1>5, EventMoves
  <2>2. m \in EventPoller /\ matcher' = [matcher EXCEPT ![s] = m] /\ m = matcher'[s]
    BY <1>0, <2>1 DEF MatchMoves
  <2>3. CASE active' = active /\ m.pc # "checked"
    <3>1. DecidingMatchers' \subseteq DecidingMatchers
      BY <1>leaves, <2>2, <2>3
    <3> QED BY <1>0, <1>t, <2>0, <2>3, <3>1, NobodyDecides
  <2>4. CASE active' = active + 1 /\ m.pc # "checked" /\ matcher[s].pc = "checked"
    <3>1. DecidingMatchers' \subseteq DecidingMatchers /\ DecidingMatchers' # DecidingMatchers
      BY <1>leaves, <2>2, <2>4 DEF DecidingMatchers
    <3> QED BY <1>0, <1>t, <2>0, <2>4, <3>1, NobodyDecides
  <2>5. CASE active' = active /\ BelowLimit
    BY <1>0, <2>5, CheckedBelowLimit
  <2>fits. matcher[s] \in EventPoller /\ MatchFits(s)
    BY <1>0 DEF TriggersInv, LoopsFit
  <2>6. CASE EventPoll(s)
    <3>1. active' = active /\ matcher'[s].pc = "loop"
      BY <1>0, <2>6, <2>fits DEF EventPoll, EventPoller
    <3> QED BY <2>2, <2>3, <3>1
  <2>7. ASSUME NEW e \in Events, EventPick(s, e) PROVE OvershootIsBounded'
    <3>1. active' = active
          /\ matcher'[s] = MatchNext(matcher[s].events \ {e}, e, EventTriggers \ deleted)
      BY <1>0, <2>7 DEF EventPick
    <3>2. matcher[s].events \ {e} \in SUBSET Events /\ EventTriggers \ deleted \in SUBSET EventTriggers
      BY <2>fits DEF EventPoller
    <3>3. matcher'[s].pc \in {"idle", "loop", "event"}
      BY <3>1, <3>2, EventPollers
    <3> QED BY <2>2, <2>3, <3>1, <3>3
  <2>8. ASSUME NEW t \in EventTriggers, EventCheck(s, t) PROVE OvershootIsBounded'
    <3>1. active' = active
      BY <2>8 DEF EventCheck
    <3>2. CASE ~BelowLimit
      <4>1. matcher'[s] = MatchNext(matcher[s].events, matcher[s].event, matcher[s].left \ {t})
        BY <1>0, <2>8, <3>2 DEF EventCheck, MatchTrigger
      <4>2. /\ matcher[s].events \in SUBSET Events /\ matcher[s].event \in Events
            /\ matcher[s].left \ {t} \in SUBSET EventTriggers
        BY <2>8, <2>fits DEF EventPoller, EventCheck, MatchFits
      <4>3. matcher'[s].pc \in {"idle", "loop", "event"}
        BY <4>1, <4>2, EventPollers
      <4> QED BY <2>2, <2>3, <3>1, <4>3
    <3> QED BY <2>5, <3>1, <3>2
  <2>9. CASE EventCreate(s)
    <3>1. CASE matcher[s].trigger \in deleted
      <4>1. active' = active /\ matcher'[s] = MatchIdle
        BY <1>0, <2>9, <3>1 DEF EventCreate
      <4> QED BY <2>2, <2>3, <4>1, EventPollers
    <3>2. CASE matcher[s].trigger \notin deleted
      <4>1. active' = active + 1 /\ matcher[s].pc = "checked" /\ matcher'[s].pc = "created"
        BY <1>0, <2>9, <2>fits, <3>2 DEF EventCreate, MatchGoto, EventPoller
      <4> QED BY <2>2, <2>4, <4>1
    <3> QED BY <3>1, <3>2
  <2>10. CASE EventConsume(s)
    <3>1. active' = active
          /\ matcher'[s] = MatchNext(matcher[s].events, matcher[s].event, matcher[s].left)
      BY <1>0, <2>10 DEF EventConsume
    <3>2. /\ matcher[s].events \in SUBSET Events /\ matcher[s].event \in Events
          /\ matcher[s].left \in SUBSET EventTriggers
      BY <2>10, <2>fits DEF EventPoller, EventConsume, MatchFits
    <3>3. matcher'[s].pc \in {"idle", "loop", "event"}
      BY <3>1, <3>2, EventPollers
    <3> QED BY <2>2, <2>3, <3>1, <3>3
  <2>11. CASE EventFails(s)
    <3>1. active' = active /\ matcher'[s] = MatchIdle
      BY <1>0, <2>11 DEF EventFails
    <3> QED BY <2>2, <2>3, <3>1, EventPollers
  <2> QED BY <1>5, <2>6, <2>7, <2>8, <2>9, <2>10, <2>11 DEF EventStep
<1>6. CASE \/ \E t \in CronTriggers \cup EventTriggers : DeleteTrigger(t)
           \/ \E e \in Events : EmitEvent(e)
           \/ UNCHANGED vars
  <2>1. active' = active /\ UNCHANGED <<request, cron, matcher>>
    BY <1>6 DEF DeleteTrigger, EmitEvent, vars
  <2> QED BY <2>1, <1>0, <1>t, <1>request, <1>cron, <1>matcher, NobodyDecides
<1> QED BY <1>1, <1>2, <1>3, <1>4, <1>5, <1>6 DEF Next

(* The checked paths exceed max_concurrency by less than the number of      *)
(* tasks that can stand between the count and the INSERT                    *)
(* (OvershootIsBounded).                                                    *)
THEOREM OvershootStaysBounded == Spec => []OvershootIsBounded
<1>1. Init => TriggersInv /\ OvershootIsBounded
  BY TriggersInit
<1>2. TriggersInv /\ OvershootIsBounded /\ [Next]_vars => OvershootIsBounded'
  BY OvershootStep
<1> QED BY <1>1, <1>2, TriggersInvStep, PTL DEF Spec
=============================================================================
