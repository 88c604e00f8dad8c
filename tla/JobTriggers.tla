------------------------------ MODULE JobTriggers ------------------------------
(***************************************************************************)
(* How runs of one job of crates/reactor-jobs come to be: the HTTP triggers*)
(* (manual_trigger, webhook_trigger), the cron loop (poll_cron_triggers)   *)
(* and the event loop (poll_events), each of which counts the active runs, *)
(* creates a run, enqueues it and then records that it did: four statements*)
(* on autocommit connections, with nothing held between two of them (the   *)
(* row locks of FOR UPDATE SKIP LOCKED end with the SELECT).               *)
(*                                                                         *)
(* Runs are counted, not named.  What happens to them later is JobRuns.    *)
(***************************************************************************)
EXTENDS Integers, FiniteSets

CONSTANTS
    CronTriggers,    \* cron triggers of the job
    EventTriggers,   \* event triggers of the job, all on the same topic
    Events,          \* events emitted on that topic
    Requests,        \* the HTTP requests that arrive: triggers and retries
    Schedulers,      \* processes that run the cron and event loops
    MaxConcurrency,  \* jobs.max_concurrency
    EventOrg,        \* the organization of the job and its events
    PolledOrg,       \* the organization whose events poll_events lists
    Period,          \* a cron schedule fires at the multiples of Period
    MaxTime,         \* bound on the clock
    MaxFailures      \* bound on the failed store calls and the crashes

ASSUME TriggerConstants ==
    /\ MaxConcurrency \in Nat \ {0}
    /\ Period \in Nat \ {0}
    /\ MaxTime \in Nat /\ MaxFailures \in Nat
    /\ IsFiniteSet(Requests) /\ IsFiniteSet(Schedulers)

VARIABLES
    now,      \* the clock
    next,     \* next[t]: next_trigger_at of a cron trigger
    deleted,  \* triggers that delete_trigger removed
    fired,    \* fired[t][x]: runs created for slot x of t
    active,   \* active runs that passed the concurrency check
    extra,    \* active runs that did not: retry_run, retry_dlq, woken again
    event,    \* event[e]: not emitted, pending or consumed
    started,  \* started[e]: the event triggers that made a run for e
    request,  \* request[c]: where an HTTP trigger is
    cron,     \* cron[s]: where the cron loop of s is
    matcher,  \* matcher[s]: where the event loop of s is
    failures  \* store calls that failed and processes that died so far

vars == <<now, next, deleted, fired, active, extra, event, started, request, cron, matcher,
          failures>>

Slots == 0 .. MaxTime + Period
None == "none"

CronIdle == [pc |-> "idle", due |-> {}, trigger |-> None, slot |-> 0]
MatchIdle == [pc |-> "idle", events |-> {}, event |-> None, left |-> {}, trigger |-> None]

CronPoller == [pc : {"idle", "loop", "checked", "created"},
               due : SUBSET (CronTriggers \X Slots),
               trigger : CronTriggers \cup {None}, slot : Slots]

EventPoller == [pc : {"idle", "loop", "event", "checked", "created"},
                events : SUBSET Events, event : Events \cup {None},
                left : SUBSET EventTriggers, trigger : EventTriggers \cup {None}]

TypeOK ==
    /\ now \in 0 .. MaxTime
    /\ next \in [CronTriggers -> Slots]
    /\ deleted \subseteq CronTriggers \cup EventTriggers
    /\ fired \in [CronTriggers -> [Slots -> Nat]]
    /\ active \in Nat /\ extra \in Nat
    /\ event \in [Events -> {"unborn", "pending", "consumed"}]
    /\ started \in [Events -> SUBSET EventTriggers]
    /\ request \in [Requests -> {"waiting", "checked", "done"}]
    /\ cron \in [Schedulers -> CronPoller] /\ matcher \in [Schedulers -> EventPoller]
    /\ failures \in 0 .. MaxFailures

Init ==
    /\ now = 0
    /\ next = [t \in CronTriggers |-> Period]
    /\ deleted = {}
    /\ fired = [t \in CronTriggers |-> [x \in Slots |-> 0]]
    /\ active = 0 /\ extra = 0
    /\ event = [e \in Events |-> "unborn"]
    /\ started = [e \in Events |-> {}]
    /\ request = [c \in Requests |-> "waiting"]
    /\ cron = [s \in Schedulers |-> CronIdle]
    /\ matcher = [s \in Schedulers |-> MatchIdle]
    /\ failures = 0

(* A store call fails or the process dies.                                 *)
Fail == failures < MaxFailures /\ failures' = failures + 1

Tick ==
    /\ now < MaxTime
    /\ now' = now + 1
    /\ UNCHANGED <<next, deleted, fired, active, extra, event, started, request, cron, matcher, failures>>

(* Mutant of BelowLimit: > for >=.                                         *)
AtOrBelowLimit == active + extra <= MaxConcurrency

(* count_active_runs(job) < max_concurrency                                *)
BelowLimit == active + extra < MaxConcurrency

(* A run that was counted ends, one way or another.  Nothing says that it  *)
(* does: JobRuns shows runs that stay pending or running for ever.         *)
FinishRun ==
    /\ \/ active > 0 /\ active' = active - 1 /\ UNCHANGED extra
       \/ extra > 0 /\ extra' = extra - 1 /\ UNCHANGED active
    /\ UNCHANGED <<now, next, deleted, fired, event, started, request, cron, matcher, failures>>

-------------------------------------------------------------------------------
(* manual_trigger and webhook_trigger: a request over the limit is answered*)
(* 429 and changes nothing.                                                *)

RequestCheck(c) ==
    /\ request[c] = "waiting"
    /\ request' = [request EXCEPT ![c] = IF BelowLimit THEN "checked" ELSE "done"]
    /\ UNCHANGED <<now, next, deleted, fired, active, extra, event, started, cron, matcher, failures>>

(* The INSERT, and the enqueue after it.                                   *)
RequestCreate(c) ==
    /\ request[c] = "checked"
    /\ active' = active + 1
    /\ request' = [request EXCEPT ![c] = "done"]
    /\ UNCHANGED <<now, next, deleted, fired, extra, event, started, cron, matcher, failures>>

(* An error before the INSERT ends the request.                            *)
RequestFails(c) ==
    /\ request[c] = "checked"
    /\ Fail
    /\ request' = [request EXCEPT ![c] = "done"]
    /\ UNCHANGED <<now, next, deleted, fired, active, extra, event, started, cron, matcher>>

(* retry_run and retry_dlq create a run without looking at the limit.      *)
RetryRun(c) ==
    /\ request[c] = "waiting"
    /\ extra' = extra + 1
    /\ request' = [request EXCEPT ![c] = "done"]
    /\ UNCHANGED <<now, next, deleted, fired, active, event, started, cron, matcher, failures>>

-------------------------------------------------------------------------------
(* poll_cron_triggers                                                      *)

(* The rest of the list, or the end of the poll.                           *)
CronNext(due) == IF due = {} THEN CronIdle ELSE [CronIdle EXCEPT !.pc = "loop", !.due = due]

CronGoto(s, pc) == cron' = [cron EXCEPT ![s].pc = pc]

CronPoll(s) ==
    /\ cron[s].pc = "idle"
    /\ LET due == {t \in CronTriggers : t \notin deleted /\ next[t] <= now}
       IN  /\ due # {}
           /\ cron' = [cron EXCEPT ![s].pc = "loop", ![s].due = {<<t, next[t]>> : t \in due}]
    /\ UNCHANGED <<now, next, deleted, fired, active, extra, event, started, request, matcher, failures>>

(* Mutant of CronCheck: a trigger skipped at the limit waits for its next  *)
(* slot.                                                                   *)
CronCheckSkips(s, t, x) ==
    /\ cron[s].pc = "loop"
    /\ <<t, x>> \in cron[s].due
    /\ LET left == cron[s].due \ {<<t, x>>}
       IN  IF BelowLimit
           THEN /\ cron' = [cron EXCEPT ![s] =
                       [pc |-> "checked", due |-> left, trigger |-> t, slot |-> x]]
                /\ UNCHANGED next
           ELSE /\ cron' = [cron EXCEPT ![s] = CronNext(left)]
                /\ next' = [next EXCEPT ![t] = (now \div Period + 1) * Period]
    /\ UNCHANGED <<now, deleted, fired, active, extra, event, started, request, matcher, failures>>

(* The next trigger of the list: at the limit it is skipped and stays due. *)
CronCheck(s, t, x) ==
    /\ cron[s].pc = "loop"
    /\ <<t, x>> \in cron[s].due
    /\ LET left == cron[s].due \ {<<t, x>>}
       IN  cron' = [cron EXCEPT ![s] =
              IF BelowLimit
              THEN [pc |-> "checked", due |-> left, trigger |-> t, slot |-> x]
              ELSE CronNext(left)]
    /\ UNCHANGED <<now, next, deleted, fired, active, extra, event, started, request, matcher, failures>>

(* create_run with the trigger's id: a trigger deleted since the list was  *)
(* read violates the foreign key, and the error leaves the whole poll.     *)
CronCreate(s) ==
    /\ cron[s].pc = "checked"
    /\ LET t == cron[s].trigger
           x == cron[s].slot
       IN  IF t \in deleted
           THEN cron' = [cron EXCEPT ![s] = CronIdle] /\ UNCHANGED <<active, fired, failures>>
           ELSE /\ active' = active + 1
                /\ fired' = [fired EXCEPT ![t][x] = @ + 1]
                /\ CronGoto(s, "created")
    /\ UNCHANGED <<now, next, deleted, extra, event, started, request, matcher, failures>>

(* schedule.upcoming(Utc).next(): the first slot after the present.        *)
NextSlot == (now \div Period + 1) * Period

(* Mutant of CronFired: next_trigger_at is left as it was.                 *)
CronFiredUnrecorded(s) ==
    /\ cron[s].pc = "created"
    /\ cron' = [cron EXCEPT ![s] = CronNext(cron[s].due)]
    /\ UNCHANGED <<now, next, deleted, fired, active, extra, event, started, request, matcher, failures>>

(* The enqueue (the queue is not here: see JobRuns), then                  *)
(* update_trigger_fired.                                                   *)
CronFired(s) ==
    /\ cron[s].pc = "created"
    /\ LET t == cron[s].trigger
       IN  next' = IF t \in deleted THEN next ELSE [next EXCEPT ![t] = NextSlot]
    /\ cron' = [cron EXCEPT ![s] = CronNext(cron[s].due)]
    /\ UNCHANGED <<now, deleted, fired, active, extra, event, started, request, matcher, failures>>

(* An error (?) or a crash at any statement ends the poll.                 *)
CronFails(s) ==
    /\ cron[s].pc # "idle"
    /\ Fail
    /\ cron' = [cron EXCEPT ![s] = CronIdle]
    /\ UNCHANGED <<now, next, deleted, fired, active, extra, event, started, request, matcher>>

DeleteTrigger(t) ==
    /\ t \notin deleted
    /\ deleted' = deleted \cup {t}
    /\ UNCHANGED <<now, next, fired, active, extra, event, started, request, cron, matcher, failures>>

-------------------------------------------------------------------------------
(* emit_event and poll_events                                              *)

EmitEvent(e) ==
    /\ event[e] = "unborn"
    /\ event' = [event EXCEPT ![e] = "pending"]
    /\ UNCHANGED <<now, next, deleted, fired, active, extra, started, request, cron, matcher, failures>>

(* What follows for the event e with the triggers left, then the events:   *)
(* the next trigger, the next event or the end of the poll.                *)
MatchNext(events, e, left) ==
    IF left # {} THEN [MatchIdle EXCEPT !.pc = "event", !.events = events, !.event = e, !.left = left]
    ELSE IF events # {} THEN [MatchIdle EXCEPT !.pc = "loop", !.events = events]
    ELSE MatchIdle

MatchGoto(s, pc) == matcher' = [matcher EXCEPT ![s].pc = pc]

EventPoll(s) ==
    /\ matcher[s].pc = "idle"
    /\ PolledOrg = EventOrg
    /\ LET pending == {e \in Events : event[e] = "pending"}
       IN  /\ pending # {}
           /\ matcher' = [matcher EXCEPT ![s].pc = "loop", ![s].events = pending]
    /\ UNCHANGED <<now, next, deleted, fired, active, extra, event, started, request, cron, failures>>

(* The next event of the list and the triggers on its topic.               *)
EventPick(s, e) ==
    /\ matcher[s].pc = "loop"
    /\ e \in matcher[s].events
    /\ matcher' = [matcher EXCEPT ![s] = MatchNext(@.events \ {e}, e, EventTriggers \ deleted)]
    /\ UNCHANGED <<now, next, deleted, fired, active, extra, event, started, request, cron, failures>>

(* The next trigger: at the limit it is skipped.                           *)
MatchTrigger(s, t) ==
    LET m == matcher[s] IN
    matcher' = [matcher EXCEPT ![s] =
        IF BelowLimit THEN [m EXCEPT !.pc = "checked", !.left = @ \ {t}, !.trigger = t]
                      ELSE MatchNext(m.events, m.event, m.left \ {t})]

(* Mutant of EventCheck: the event is marked when it is matched.           *)
EventCheckConsumes(s, t) ==
    /\ matcher[s].pc = "event"
    /\ t \in matcher[s].left
    /\ MatchTrigger(s, t)
    /\ event' = [event EXCEPT ![matcher[s].event] = "consumed"]
    /\ UNCHANGED <<now, next, deleted, fired, active, extra, started, request, cron, failures>>

EventCheck(s, t) ==
    /\ matcher[s].pc = "event"
    /\ t \in matcher[s].left
    /\ MatchTrigger(s, t)
    /\ UNCHANGED <<now, next, deleted, fired, active, extra, event, started, request, cron, failures>>

EventCreate(s) ==
    /\ matcher[s].pc = "checked"
    /\ LET t == matcher[s].trigger
       IN  IF t \in deleted
           THEN matcher' = [matcher EXCEPT ![s] = MatchIdle] /\ UNCHANGED <<active, started, failures>>
           ELSE /\ active' = active + 1
                /\ started' = [started EXCEPT ![matcher[s].event] = @ \cup {t}]
                /\ MatchGoto(s, "created")
    /\ UNCHANGED <<now, next, deleted, fired, extra, event, request, cron, failures>>

(* The enqueue, then consume_event, after each run.                        *)
EventConsume(s) ==
    /\ matcher[s].pc = "created"
    /\ event' = [event EXCEPT ![matcher[s].event] = "consumed"]
    /\ matcher' = [matcher EXCEPT ![s] = MatchNext(@.events, @.event, @.left)]
    /\ UNCHANGED <<now, next, deleted, fired, active, extra, started, request, cron, failures>>

EventFails(s) ==
    /\ matcher[s].pc # "idle"
    /\ Fail
    /\ matcher' = [matcher EXCEPT ![s] = MatchIdle]
    /\ UNCHANGED <<now, next, deleted, fired, active, extra, event, started, request, cron>>

-------------------------------------------------------------------------------

RequestStep(c) == RequestCheck(c) \/ RequestCreate(c) \/ RequestFails(c) \/ RetryRun(c)

CronStep(s) ==
    \/ CronPoll(s) \/ CronCreate(s) \/ CronFired(s) \/ CronFails(s)
    \/ \E t \in CronTriggers, x \in Slots : CronCheck(s, t, x)

EventStep(s) ==
    \/ EventPoll(s) \/ EventCreate(s) \/ EventConsume(s) \/ EventFails(s)
    \/ \E e \in Events : EventPick(s, e)
    \/ \E t \in EventTriggers : EventCheck(s, t)

Next ==
    \/ Tick \/ FinishRun
    \/ \E c \in Requests : RequestStep(c)
    \/ \E s \in Schedulers : CronStep(s) \/ EventStep(s)
    \/ \E t \in CronTriggers \cup EventTriggers : DeleteTrigger(t)
    \/ \E e \in Events : EmitEvent(e)

Spec == Init /\ [][Next]_vars

(* The loops poll for ever, a request that began ends, time passes.  Runs  *)
(* need not end, and nobody has to emit an event or delete a trigger.      *)
Fairness ==
    /\ WF_vars(Tick)
    /\ \A c \in Requests : WF_vars(RequestCreate(c) \/ RequestFails(c))
    /\ \A s \in Schedulers : WF_vars(CronStep(s)) /\ WF_vars(EventStep(s))

FairSpec == Spec /\ Fairness

-------------------------------------------------------------------------------
(* Properties.                                                             *)

\* the tasks that may be between the count and the INSERT, and those that are
Creators == Cardinality(Requests) + 2 * Cardinality(Schedulers)

Deciding ==
    Cardinality({c \in Requests : request[c] = "checked"})
      + Cardinality({s \in Schedulers : cron[s].pc = "checked"})
      + Cardinality({s \in Schedulers : matcher[s].pc = "checked"})

(* The count is stale when the run is created, but the runs that pass the  *)
(* check exceed max_concurrency by less than the number of concurrent      *)
(* creators, whatever retries and wake-ups add beside them.                *)
OvershootIsBounded == active + Deciding <= MaxConcurrency - 1 + Creators

(* An event is marked consumed only after some trigger made a run for it,  *)
(* whatever fails and however many schedulers poll: none is lost silently. *)
ConsumedEventStartedARun ==
    \A e \in Events : event[e] = "consumed" => started[e] # {}

(* What the loop of a scheduler carries: slots that were due, one of each  *)
(* trigger, and none of the trigger it is at.                              *)
CronFits(s) ==
    /\ \A t \in CronTriggers, x \in Slots : <<t, x>> \in cron[s].due =>
          x <= now /\ \A y \in Slots : <<t, y>> \in cron[s].due => x = y
    /\ cron[s].pc \in {"checked", "created"} =>
          /\ cron[s].trigger \in CronTriggers /\ cron[s].slot <= now
          /\ \A x \in Slots : <<cron[s].trigger, x>> \notin cron[s].due

\* The event and the trigger the event loop is at; a created run is recorded.
MatchFits(s) ==
    /\ matcher[s].pc \in {"event", "checked", "created"} => matcher[s].event \in Events
    /\ matcher[s].pc \in {"checked", "created"} => matcher[s].trigger \in EventTriggers
    /\ matcher[s].pc = "created" => started[matcher[s].event] # {}

LoopsFit == \A s \in Schedulers : CronFits(s) /\ MatchFits(s)

\* next_trigger_at never lies beyond the first slot after the present, so
\* update_trigger_fired never sets it back.
NextIsNear == \A t \in CronTriggers : next[t] <= NextSlot

\* Scheduler s may yet create a run for slot x of t: any that has not just
\* done so while the slot is still to come or due, and later only one that read
\* the slot before.
CanFire(s, t, x) ==
    /\ t \notin deleted
    /\ LET IsAt(pc) == cron[s].pc = pc /\ cron[s].trigger = t /\ cron[s].slot = x
       IN  IF next[t] <= x THEN ~IsAt("created") ELSE <<t, x>> \in cron[s].due \/ IsAt("checked")

\* The runs of a slot and those yet possible: one for each scheduler, and
\* one more for each failure.
SlotsAreCounted ==
    \A t \in CronTriggers, x \in Slots :
        fired[t][x] + Cardinality({s \in Schedulers : CanFire(s, t, x)})
            <= Cardinality(Schedulers) + failures

(* The tables and the loops' places fit, no event is lost, and the slots   *)
(* of a cron trigger are spent as they fire.                               *)
TriggersInv ==
    TypeOK /\ LoopsFit /\ ConsumedEventStartedARun /\ NextIsNear /\ SlotsAreCounted

(* One slot of a cron trigger starts at most one run per scheduler that    *)
(* polls and each poll that broke off: what poll_cron_triggers records in  *)
(* next_trigger_at stops the rest.                                         *)
CronSlotRepeatsAreBounded ==
    \A t \in CronTriggers, x \in Slots : fired[t][x] <= Cardinality(Schedulers) + failures

\* From some time on the job has fewer active runs than it may.
RoomForGood == <>[](active + extra < MaxConcurrency)

(* A due cron trigger is not forgotten: if the job is not held at its      *)
(* limit for ever, next_trigger_at moves on from a slot that came due, and *)
(* not without a run, of this slot or, where a slow poll passed over       *)
(* several, of an earlier one.  Being skipped at the limit, or listed by a *)
(* poll that broke off, does not lose it.                                  *)
DueCronFires ==
    RoomForGood => \A t \in CronTriggers, x \in Slots :
        t \notin deleted /\ next[t] = x /\ x <= now
            ~> t \in deleted \/ (next[t] > x /\ \E y \in Slots : y <= x /\ fired[t][y] > 0)

(* What the documents say.  TLC refutes each, with the configurations of   *)
(* README, section 7.                                                      *)

(* "FOR UPDATE SKIP LOCKED prevents duplicate trigger processing": one     *)
(* slot starts one run.                                                    *)
CronSlotOnce == \A t \in CronTriggers, x \in Slots : fired[t][x] <= 1

(* "scheduler polls: SELECT events WHERE consumed_at IS NULL": an emitted  *)
(* event with a trigger on its topic is consumed in the end, if the job is *)
(* not held at its limit for ever.                                         *)
EventsAreConsumed ==
    RoomForGood => \A e \in Events :
        event[e] = "pending" ~> event[e] = "consumed" \/ EventTriggers \subseteq deleted

(* "check concurrency limit (deny with 429 if exceeded)": the checked paths*)
(* keep within max_concurrency.                                            *)
WithinConcurrency == active <= MaxConcurrency

(* "for each matching trigger: create run": a consumed event that no loop  *)
(* is working on made a run for every trigger on its topic.                *)
EventReachesEveryTrigger ==
    \A e \in Events :
        event[e] = "consumed" /\ (\A s \in Schedulers : matcher[s].event # e)
            => EventTriggers \ deleted \subseteq started[e]
===============================================================================
