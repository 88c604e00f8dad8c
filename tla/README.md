# A verification project for Reactor Cloud

Reactor Cloud is a backend platform in Rust: auth, data, storage, functions,
jobs, sites, connect, analytics and AI behind one server, `reactor-server`,
with PostgreSQL as the store of nearly everything. This directory holds TLA+
models of the parts of it in which several processes, threads or retries meet
on shared state, the TLC runs that check them, and proofs for TLAPS.

- [1. The system](#1-the-system)
- [2. Modules and what they stand for](#2-modules-and-what-they-stand-for)
- [3. Runs](#3-runs)
- [4. Bounds](#4-bounds)
- [5. Fairness](#5-fairness)
- [6. Proofs](#6-proofs)
- [7. Where code and documentation disagree](#7-where-code-and-documentation-disagree)
- [8. Not modelled](#8-not-modelled)
- [9. Plan](#9-plan)

To repeat a check: `tlc -config CacheQueue.cfg MCCacheQueue`; to repeat a
proof: `tlapm CacheQueueProofs.tla`. `PROJECT.json` lists the runs, the source
lines behind each definition, the hazards and the theorems.

## 1. The system

### Parts, their state and their operations

| part | state | operations | what makes it correct |
|---|---|---|---|
| `reactor-cache` queue (`postgres.rs`) | table `_reactor_cache.queue`: row, `visible_at`, `attempt`, `receipt` | enqueue, dequeue, ack, nack | one taker per delivery; only the holder of its receipt settles it; nothing waits for ever |
| `reactor-cache` leader (`leader.rs`) + `compose/jobs.rs` | advisory lock of a PostgreSQL session, `held_locks` | try_acquire, drop of the guard, run_leader_task | one scheduler at a time; a standby takes over |
| `reactor-jobs` runs | rows `runs`, `dlq`; queue items; worker tasks; sleep loop | create, enqueue, execute_run, sleep, wake, cancel, retry, dead-letter retry and delete | one worker per run; attempts and dead letters agree; every run ends |
| `reactor-jobs` triggers | `triggers.next_trigger_at`, `events.consumed_at`, number of active runs | cron loop, event loop, HTTP and webhook triggers | one run per cron slot; no event lost; concurrency limit |
| `reactor-jobs` steps and state | rows `steps`; the replay cache an execution carries | create_step, update_step, request_sleep, ctx.step and ctx.sleep of the SDK | a completed step is not executed again, nor overwritten |
| `reactor-server` quota | token bucket per project, counters of functions, storage, bandwidth | check_request, try_acquire_function, record_storage_change, clear_tenant | the rate is bounded; slots are neither leaked nor given twice |
| `reactor-server` tenant cache | one adapter set per project, idle time | get or build, evict | one live adapter set per project |
| `reactor-auth` sessions | users, sessions, refresh tokens, mailed tokens, authorization codes | signup, login, refresh, logout, verification, password reset, code exchange, user deletion | rotation does not multiply tokens; one-time tokens work once; a dead session is not served |
| `reactor-auth` organizations | organizations, roles, memberships, invitations | create and delete, change or remove a member, invite, accept | an organization keeps an owner; an invitation joins once |
| `reactor-functions`, `reactor-sites` | deployments, the active one, runtime processes | deploy, activate, invoke, evict | an invocation sees one deployment |
| `reactor-storage` | rows of buckets, objects, uploads and parts; files of objects and parts | put, get, ranged get, delete, multipart upload, buckets | rows and files agree; no half-written object; acknowledged parts stay |
| `reactor-connect` | syncs, checkpoints, sink commits | pull, write, commit | no record is lost between checkpoint and sink |
| `reactor-gateway` | routes, the configuration pushed to Caddy | snapshot, push, retry | the pushed configuration catches up |
| `reactor-data` | migrations, realtime hub, query compiler | migrate, subscribe, query | migrations run once and in order |
| `reactor-analytics` | ingest buffer | ingest, flush | an accepted event is written |
| `reactor-cloud-api` | projects being provisioned | provision, compensate | no half-made project |
| `reactor-policy`, `reactor-vault`, `reactor-ops`, `reactor-ai`, `reactor-core`, CLI and SDKs | little or none | pure evaluation or I/O | |

### How the jobs parts interact

A trigger (HTTP request, cron loop, event loop, retry) inserts a row in `runs`
and then enqueues the run's id in the cache queue. A worker dequeues it, reads
the row, marks it running and calls the function over HTTP. While it runs the
function may call back (`/internal/.../sleep`, `/events`). The worker writes
the outcome and acks or nacks. A sleep loop sets due runs back to pending and
enqueues them; cron, event and sleep loops run in the instance that leads.
Every one of these statements goes to PostgreSQL on an autocommit connection:
nothing is held between two of them. This is where the hard behaviours come
from: interleavings of workers, loops, requests and the callbacks of functions;
checks that are stale when used; crashes, store errors and time-outs between
two statements; redelivery; row locks (`FOR UPDATE SKIP LOCKED`) that end with
their SELECT; and a lock whose lifetime is that of a pooled session.

### How the others do

The function that a job runs is written with `packages/jobs-sdk`: it gets the
completed steps in a header, skips those and reports the others to the internal
API. The worker and the function part when the worker gives up: the function goes
on, and its late reports meet the next execution.

`reactor-auth` and `reactor-storage` are HTTP handlers over PostgreSQL (and, for
storage, files). Apart from the rotation of a refresh token no handler holds a
transaction over two statements, so any two requests interleave at every store
call, and a request whose client goes away or whose store call fails stops between
two of them. Storage writes the file first and the row second, on two stores that
nothing ties together. Jobs, auth and storage share no tables.

In `reactor-server`, request handlers on several threads share lock-free
counters; there every load and every compare-exchange may be separated by the
steps of the others.

## 2. Modules and what they stand for

```
DeliveryQueue  what a queue promises          <-- CacheQueue implements it
                                              <-- JobRuns uses it as its queue
CacheQueue     reactor-cache/postgres.rs          MCCacheQueue, CacheQueueProofs
JobRuns        reactor-jobs runs, workers         MCJobRuns, JobRunsProofs
JobTriggers    reactor-jobs triggers, events      MCJobTriggers, JobTriggersProofs
LeaderElection leader.rs, run_leader_task         MCLeaderElection, CacheQueueProofs
TokenBucket    quota/bucket.rs                    MCQuota, TokenBucketProofs
QuotaService   quota/service.rs                   MCQuota, TokenBucketProofs
JobSteps       internal.rs, executor.rs, jobs-sdk MCJobSteps, JobStepsProofs
AuthSessions   reactor-auth sessions and tokens   MCAuthSessions, AuthSessionsProofs
AuthOrgs       reactor-auth organizations         MCAuthOrgs, AuthOrgsProofs
Storage        reactor-storage, file-system store MCStorage, StorageProofs
```

The proofs about two parts of one crate share a module: `CacheQueueProofs` is about
the queue and the leader of `reactor-cache`, `TokenBucketProofs` about both halves of
`quota/`. That is why LeaderElection and QuotaService name their specification
`LeaderSpec` and `QuotaSpec`, and a thread of QuotaService is a caller. `MCQuota` runs both halves of
`quota/` in turn: they share no state, so one moves while the other is as created.

**CacheQueue.** `rows` is the table, `locked[c]` the rows that the inner SELECT
of consumer c's dequeue has locked, `held[c]` the receipts c knows. A dequeue is
`DequeueSelect` (lock), then `DequeueCommit` (the UPDATE and its answer),
`DequeueAnswerLost` (the UPDATE commits, nobody learns the receipt) or
`DequeueAbort`. `Ack` and `Nack` match id and receipt as the WHERE clause does
and may be called with stale receipts. A consumer may crash and forget what it
holds. A receipt is a fresh uuid in the code; the pair of row and attempt names
the same delivery. The key-value operations of the file are not modelled.

**DeliveryQueue** is the abstract queue: an item is new, waiting, taken (by one
consumer or by nobody that knows) or gone. `CacheQueue!ImplementsDeliveryQueue`
is the refinement; `JobRuns` takes its queue steps from `DeliveryQueue`. It states
what the code keeps to: a taken item stays taken until its holder settles it. The
promise of `queue.rs:39`, that an unsettled item is visible again after its timeout, is
not in it, since the code does not keep it (section 7).

**JobRuns.** `run[r]` is status and attempt of a row, `slept[r]` the sleep steps
the run has recorded, `dlq` the dead letters. `worker[w].pc` walks through
`process_next_run` and `execute_run`: dequeue, load, mark running, call, record
the outcome, dead-letter, settle. A statement that commits may still go unanswered
(`Answered`): the worker then takes the error path of `process_next_run`. The two
statements of the sleep endpoint are `InsertSleep` and the update to sleeping; both
are made by a function a worker waits for (`FunctionSleeps`, `FunctionNaps`) or by
one nobody waits for any more (`OrphanSleeps`, `OrphanNaps`; `orphans` are these
executions by how far they came). Cancel and dead-letter retry are two
steps each, as in the code. `Faults` says which of crash, store error and queue
error may happen. The payload, error texts and time stamps are left out; a sleep
may be due at any time.

**JobTriggers.** Counts the runs instead of naming them: `active` are the active
runs that passed the concurrency check, `extra` those created without one
(`retry_run`, dead-letter retry). `cron[s]` and `matcher[s]` are the two loops of
scheduler s, split where state is read or written; the enqueue after an INSERT
changes nothing here and is part of the step that follows it. `fired[t][x]` is how
often slot x of trigger t made a run; `started[e]` which triggers made a run for
event e. `failures` counts the store calls that failed and the processes that died.

**JobSteps.** One run. `ex[e]` is an execution: the worker's `execute_run` together
with the function it calls, until `waits` turns false and they part (`GiveUp`).
`ex[e].n` is where the function is in its `Program`, a fixed sequence of steps and
sleeps; `cache` the replay cache it was handed. `step[n]` is the row of n, `done[n]`
how often the function of step n returned. A delivery that was dequeued is gone
unless the worker nacks it (`NackOrLose`), as CacheQueue says of the table; it also
nacks after a write that committed and was not answered (`DoneOrUnanswered`). `Faults`
says whether functions die and whether workers give up, stop or see errors. An
error thrown by ctx.step ends the function or is caught (`StepError`); those of
ctx.sleep are assumed not to be caught. `mishaps` remembers what the properties
make an exception for. `function.key` is the name under which the function looks
for the replay cache: the worker sends `step_cache`, the SDK reads `stepCache`
(section 7); with the latter every function that calls ctx.step ends at once
(`Breaks`), and all that the properties say of steps is about functions that read
what is sent.

**AuthSessions.** The five tables are sequences of rows in the order of their
creation; `req[r]` is where a request is between two store calls. `PasswordGrant`,
`VerifyPassword`, `CreateSession` and `IssueTokens` are a login; refresh is
`RotateRefreshToken` (one transaction, which also revokes on reuse), then
`RefreshFindSession` and `RefreshFindUser`. Passwords are numbers: the n-th the
user had. Hashes, claims, scopes, rate limits and the mail itself are left out.
`dead`, `late`, `cut`, `minted`, `applied` and `grants` are history for the
properties. `Drop` ends a request anywhere.

**AuthOrgs.** `org` is how far `create_org` came, `member[u]` the role of the row of
u, `invite` the invitations. An action that begins a request contains the check of
its route (`RequireAdmin`, `RequireOwner`), which is not repeated later. `overlap`
becomes true when memberships are written between another request's read and its
write; `cut` when a request ends early. Custom roles are left out: the three roles
of `create_org` are the ones the checks look at. `DeleteOrg` may fail although
nobody interferes: `memberships` restrict what `roles` cascades
(`migrations/002_orgs_roles.sql:45`), and which constraint PostgreSQL visits first
is not the program's choice.

**Storage.** One organization, one slug and one key, since a request touches no
other. `row` and `upload[u].row`, `.rows` are the tables, `blob`, `upload[u].dir`
and `.files` the files. `bucket` is the id behind the slug: handlers keep the id
they read, while files are named by the slug. The SHA-256 of a content is the
content. A part holds one unit, and a file being written in place holds `Torn`;
`put` and `complete` write beside the object and rename, one step. `mishaps` says
which overlaps and cuts happened; the properties name those they except. The etags
that a client sends to complete are not looked at by the file-system store, so they
are not in the model.

**LeaderElection.** `pool[i]` are the sessions of instance i's connection pool,
`lock` the session that owns the advisory lock, `orphaned` the sessions whose
client is gone and which the server still keeps. `try_acquire` sends its query to
whichever session the pool gives (`TryGranted`, `TryDenied`, `TryLost`); so does
the unlock that dropping the guard spawns (`Unlock`), which does nothing on the
wrong session. `Recycle` is the pool closing a session; `reaped` records that
this was ever the session with the lock.

**TokenBucket.** `refill`, `try_consume_n`, `available` and `retry_after`, one
step per atomic operation. The code's two factors of 1000 are the constants
`Scale` and `PerSecond`, so that rounding happens in small instances too. With
`Rate = 0` (a limit of zero requests per minute) `retry_after` divides by
zero and panics (`RetryAfterPanics`), so that refusal gives no advice. The
clock is `SystemTime` and may step back. The variables `latest`, `spent` and
`advice` serve the properties only.

**QuotaService.** `TenantQuotaState` objects behind the map `tenants`, for one
project. `Get` and `Create` are the two map operations of `get_or_create`;
callers (threads that serve a request) and guards keep the object they got. A reference into the map
(`record_storage_change`) blocks writers of the map (`MapIsFree`), as DashMap's
shard lock does. Every caller may upload and delete; the counter is unsigned and
wraps at `Modulus`. `raced` (history) are the objects of which one delete read the
counter while another was between its load and its subtraction.

Definitions whose comment says "mutant" are wrong variants of the action that
follows them. They are used by nothing here; substituting one for the original
must make a property fail, which shows that the property constrains the code.

## 3. Runs

| run | checks | shows |
|---|---|---|
| `queue_delivery` | QueueInv, ExclusiveDelivery, SettledByItsHolder, ImplementsDeliveryQueue, WaitingIsClaimed | no row has two takers, a stale ack or nack settles nothing, the table refines the abstract queue, a waiting row is claimed |
| `job_runs` | JobsInv, OneWorkerUnlessSlept, DlqAfterLastAttempt | two runs, or one that sleeps and two sleep loops that may wake it twice, with every outcome and fault: a run that never slept has one item and one worker at most, items and runs stay matched, and only runs that used their last attempt are dead-lettered |
| `triggers` | TriggersInv, OvershootIsBounded, CronSlotRepeatsAreBounded, DueCronFires | two schedulers, a failure anywhere: runs that passed the check exceed the limit by less than the number of concurrent creators; no event is consumed before it made a run; a slot makes at most one run per scheduler and failure; a trigger that was due and skipped fires later if the job does not stay at its limit |
| `leader` | LeaderInv, OneWhileLockKept, StandbyTakesOver | one scheduler until a pool closes the session with the lock; somebody leads again after disruptions |
| `quota` | BucketInv, RateIsBounded, RetryAfterUndisturbed, QuotaInv, StorageWrapsOnlyByRace | tokens within bounds, claims and advice fit the time that passed; no interval is paid out twice; `retry_after` suffices if nobody refills in between. Each object's counter equals its live guards, also after it left the map; with three deleting callers the storage counter wraps only where two deletes of one object overlapped between load and subtraction |
| `job_steps` | StepsInv, StepsRunOnce, CompletedStays | a step whose function returned is neither repeated nor reported failed, except after a lost report, overlapping executions or for a void step; only what was done is skipped |
| `auth_sessions` | SessionsInv, DeadSessionsAreNotServed, OneTimeTokensWorkOnce, OldPasswordOnlyByOverlap | rotation never multiplies tokens; a refresh gives no access token for a dead session (`issue_mfa_tokens` does not look at the session, and is not covered); mailed tokens and codes work once; a session opened with a replaced password survives a reset only if its login overlapped the reset (of sessions from a code obtained under the old password nothing is said) |
| `auth_orgs` | OrgsInv, OwnerLostOnlyByOverlap, InvitationJoinsOnce | the owner check holds against every sequence of requests, also cut ones, and fails only by overlap; an invitation that is spent has made a member, and one |
| `storage` | StorageInv, RowsMatchBlobs, ListedIsReadable, RangeIsOfOneVersion, AcknowledgedPartsAreKept, CompletesOnce | rows and files agree, except after the named overlaps and cuts; objects are whole; a ranged get is of one version unless the object was written between its two reads; parts are kept, and used once |

`auth_last_owner`, `queue_visible_again` and `job_sleep_passed` check one property each,
a sentence of the repository's documents or comments, and end with a counterexample.
So do the other configurations of section 7.

The properties that name exceptions (`overlap`, `put_cut`, `report`, ...) are as
strong as the code allows: each exception is needed, in that TLC finds a
counterexample without it, and the mutants show that what remains still binds.

`job_runs` and `triggers` are about what happens behind a queue name and an
organization that agree (`WorkerQueue = RunQueue`, `PolledOrg = EventOrg`): with the
names in the code the models would stop at the first step. `JobQueueName.cfg` and
`TriggerEventOrg.cfg` have the names of the code and show that. `job_steps` has functions with either name of the cache for the same reason.

Deadlock is not checked where the system may rest: no run left to do, a leader
that leads, no event to match, no request under way, no delivery left. `quota` checks it.

## 4. Bounds

Every bound is a constant and appears in a guard.

- *Queue*: two rows, two consumers, two queues, dequeue of one or two rows, two
  deliveries per row (`MaxAttempts`), clock up to 2 (`MaxTime`). A conflict needs
  two consumers and one row, a stale receipt needs a second delivery, SKIP LOCKED
  needs a second row to skip to.
- *Runs*: two runs, three items, two workers, two sleep loops, one dead letter, one
  sleep, two attempts. Three items are a run's own and one from each loop, or those of
  two runs and a retry. A run that asks to sleep is alone (`MCJobRuns!SleepsAlone`, in
  the guard of the run's next-state relation): with a second run beside it the
  instance is too large.
- *Triggers*: two schedulers, one HTTP creator, one cron and one event trigger, one
  event, one failure, clock up to 1 with a slot at each value. `MaxConcurrency = 1`
  makes every check a conflict; two schedulers and one failure are enough for a slot
  to fire three times.
- *Leader*: three instances, three sessions, pools of two, two disruptions
  (crash, shutdown, lost answer, failed unlock, closed session). Two suffice for
  "the leader dies and its successor's answer is lost".
- *Bucket*: two threads, two requests of capacity, three parts of a token per
  request, 1.5 earned per clock unit: rounding loses something at every odd
  interval. Clock up to 4, forwards and back.
- *Steps*: three executions (one that is given up and two that overlap after it), two
  attempts, three functions: void step then step, void step and sleep, step, sleep
  and step.
- *Sessions*: one user, two requests at a time, five requests in all
  (`MaxArrivals`), one change of password, three sessions, four refresh tokens, one
  mail, one code. A conflict takes two requests and what they need before: a
  sign-up or login, a mail and two that use it.
- *Organizations*: two users, every assignment of roles and of who has signed up at
  the start, two requests at a time, five in all, one invitation.
- *Storage*: two requests at a time, six in all, two buckets one after the other, one
  upload of up to two parts, bodies of none, one and two units: a range needs a
  second version that is shorter than its start.
- *Quota*: three callers that all acquire, upload and delete, limit 2, four objects, so
  that after one `clear_tenant` all three can create one; one byte at a time and a
  counter that wraps at 4.
- *Configurations of section 7*: the bounds of the passing run of the module, or less; what differs
  (faults, outcomes, names, triggers) is in the table there.

Symmetry is used in safety runs only, over sets whose members the model treats
alike.

## 5. Fairness

Fairness is given to the program's own steps and to what it relies on, never to
callers: nobody has to enqueue, cancel, retry, emit or restart.

- *Queue*: consumers poll for ever (the worker loop of `pool.rs`), hence fairness of
  the select from each queue and of the commit; strong, because locks of others
  disable them again and again, and because not every statement aborts. The clock
  advances.
- *Runs*: worker tasks and sleep loops are `loop`s without exit but shutdown; a
  handler that began to cancel, retry or enqueue continues (its future is polled).
  (Only the runs of section 7 use it.) The dequeue of an item is strongly fair: `ORDER BY visible_at` serves the oldest
  first, which the abstract queue does not say.
- *Triggers*: both loops tick for ever and requests that passed their check go on.
  Nothing makes a run end: the code leaves a retried run pending, a run after a
  transport error running, and both count as active. DueCronFires (and
  EventsAreConsumed) therefore suppose that the job is not held at its limit for ever
  (`RoomForGood`). Failures are bounded (`MaxFailures`): a loop whose store always
  fails does nothing.
- *Steps, auth, storage*: none. A request may be dropped at any point and nothing
  resumes it; what these modules say is safety.
- *Leader*: the task's steps, the exit of a process told to stop (30 seconds of
  drain at most) and PostgreSQL ending the sessions of dead clients.

## 6. Proofs

Proved with TLAPS for every value of the constants that the named assumptions
(`QueueConstants`, `LeaderConstants`, `BucketConstants`, `QuotaConstants`,
`JobConstants`, `TriggerConstants`, `StepConstants`, `AuthConstants`, `OrgConstants`,
`StorageConstants`) admit. They ask for numbers where the code has numbers, for finitely
many threads, schedulers, executions, users and requests, and for null values and
markers (no row, no session, a torn file) that are not members of the sets they stand
beside; `BucketConstants` also asks for a capacity of at least one token (the rate may be zero), and
`QuotaConstants` for a counter wider than what is ever added (2^64 in the code).

Every proof has the same shape: the invariant of the run is made inductive by the
parts below, one lemma per action (or per part of the state) shows that it is kept,
and the other properties follow from it. TLC checks each of these invariants on
its run.

- `CacheQueueProofs`: `QueueInvariant` (QueueInv), `Exclusive` (ExclusiveDelivery),
  `HolderSettlesDelivery` (SettledByItsHolder). Exclusive delivery alone is not
  inductive: that a dequeue makes a receipt nobody has needs to know that the
  receipts in memory are of attempts not later than the row's
  (`ReceiptsPast`) and that a row's receipt is its last attempt
  (`ReceiptIsLastAttempt`); `QueueInv` adds both.
  `Implements` (ImplementsDeliveryQueue) is the refinement: the phase and owner of
  an item are computed from its row and the receipts in memory, and each action is
  shown to be an abstract step or a stutter. It needs QueueInv before and after the
  step: that the current receipt of a row has one holder makes "taken by c" a
  function of the state, and a stale ack or a crash without the current receipt
  changes nothing abstract. It is about the safety part of DeliveryQueue, which has
  no fairness.

  For the leader: `LeaderInvariant` (LeaderInv), `OneScheduler` (OneWhileLockKept). One
  scheduler follows from "who leads owns the lock through its own pool" and "a session
  is in one pool". The induction needs two more facts: the owner of the lock is open
  (`LockIsOpen`), so that a fresh session never is the owner, and nobody who asks owns
  the lock already (`NoReentry`).
- `JobRunsProofs`: `JobsAreConsistent` (JobsInv), `OneWorkerForAnAwakeRun`
  (OneWorkerUnlessSlept), `DeadLettersAreSpent` (DlqAfterLastAttempt). That two
  workers never execute a run that did not sleep rests on the queue: a worker owns
  the item it works on (`WorkersOwnTheirItems`) and a run that never slept has one
  item at most (`OneItemUnlessSlept`), which in turn needs that a run which its
  creator, or the retry of a dead letter, is still to enqueue has none (`FreshRuns`).
  `SnapshotsAreOld` relates the attempt a worker read to the row it will write; the
  attempt limit and the dead letters follow from it. `RetriedEntryExists` is for the
  delete that ends a dead-letter retry: the entry it deletes once had a run.
- `JobTriggersProofs`: `TriggersAreConsistent` (TriggersInv), `CronSlotsRepeatOnlyByFailure`
  (CronSlotRepeatsAreBounded), `OvershootStaysBounded` (OvershootIsBounded). A bound on
  the runs of a slot is not inductive: a scheduler that listed the trigger earlier still
  holds the slot. `SlotsAreCounted` therefore counts the runs a slot made together with the
  schedulers that may yet make one (`CanFire`); each run uses up one of these, and only a poll
  that broke off before `update_trigger_fired` gives one back. That a slot once passed
  does not come again needs `NextIsNear`: what update_trigger_fired writes is never before
  what is there. `LoopsFit` types what a loop carries. The overshoot counts, beside the active
  runs, the tasks between their check and their insert as three finite sets; a task that
  finds room was not one of them, which gives the bound its "less than".
- `JobStepsProofs`: `StepsAreConsistent` (StepsInv), `CheckpointedStepsRunOnce`
  (StepsRunOnce), `CompletedStepsStay` (CompletedStays). `Follows` says for each execution what its position in the
  program implies: every step before it was done or its error caught. `Checkpointed` says that, outside the named mishaps, one execution is
  in the function at a time and what was done is completed in the table and in that
  execution's cache. `AttemptsAreCounted` bounds the attempts by the executions that are
  over, counted with the theorems on finite sets. Programs may be any sequences
  over any names.
- `TokenBucketProofs`: `BucketInvariant` (BucketInv), `RateBound` (RateIsBounded),
  `RetryAfterSuffices` (RetryAfterUndisturbed). Needs `SeenEnough` (a thread about to
  subtract has read a balance that covers it, and the compare-exchange makes that
  balance the current one), `ClaimsFit` and `AdviceFits`. RateIsBounded is about a sum:
  the balance, what was spent and what every thread has claimed and not yet added
  are together at most a full bucket and what was earned up to `last_refill`. The proof
  adds the claims up along an enumeration of the threads (partial sums, `Sums`) and
  shows that a step of one thread changes the total by the change of its own claim.

  For the quota service: `SlotsAreCounted` (QuotaInv), `StorageWrapsByRaceOnly`
  (StorageWrapsOnlyByRace). The counter of an object is the cardinality of a set, the callers
  whose guard is on it; `NoSlotMoves` covers every step that leaves these sets alone, and
  `IncrementTakes` and `DropGuardGivesBack` add and remove one member. The compare-exchange is
  what makes the increment safe: it succeeds only on the count that was seen below the
  limit (`InFlight`). StorageWrapsOnlyByRace holds for any callers: on an object without
  such a race at most one delete is between its load and its subtraction, and what it
  read and is about to subtract is still there (`DeletesFit`), since uploads only add.
- `AuthSessionsProofs`: `SessionsAreConsistent` (SessionsInv), `DeadSessionsAreRefused`
  (DeadSessionsAreNotServed), `OneTimeTokensAreSpent` (OneTimeTokensWorkOnce),
  `ReplacedPasswordsAreShutOut` (OldPasswordOnlyByOverlap). A request is checked
  against the tables it left behind at each store call: `RowsFit` ties the rows to
  one another, `RequestsFit` says what a request that is between two calls may rely
  on (its rows exist and are its user's, `Fits`; a session it saw dead is dead still,
  `StaysDead`; the password it verified is current unless a reset overlapped,
  `IsCurrent`). One-time tokens need `OneActsOnARow` (of the requests that found a
  row unused at most one got past the update that marks it); that nobody
  resets a password before the sign-up has sent its mail is `NewcomersHaveNoMail`. That
  rotation does not multiply tokens counts the unused tokens of a session with the
  theorems on finite sets.
- `AuthOrgsProofs`: `OrgsAreConsistent` (OrgsInv), `OwnersAreKept`
  (OwnerLostOnlyByOverlap), `InvitationsJoinOnce` (InvitationJoinsOnce). A request that
  counted the owners carries a decision; `DecisionsHold` says that it leaves an owner
  behind (`LeavesOwner`) for as long as nobody wrote memberships in between, which is
  what `overlap` records. `JoinedStay` says the same of an invitation that was joined and is
  not marked used yet: its user is a member, and whoever joins on it again finds
  that (`FindsMember`).

- `StorageProofs`: `StoreIsConsistent` (StorageInv), `RowsNameTheirBlobs` (RowsMatchBlobs),
  `ListedStaysReadable` (ListedIsReadable), `ObjectsStayWhole`, `RangesAreOfOneVersion`
  (RangeIsOfOneVersion), `AcknowledgedPartsStay` (AcknowledgedPartsAreKept), `UploadsCompleteOnce`
  (CompletesOnce). Each operation has a lemma that says what it does to the request, the
  rows and the files (`...Does`), and `StepFrame` gathers what a step of request r may do to
  state that others rely on. StorageInv says for every request what it finds when it goes
  on: a writer its file, row and bucket (`WriterFits`), a ranged get the version it read
  first (`ReaderFits`), a part its directory and file (`PartFits`), an upload its row
  (`InsertFits`, `BucketFits`), each unless the mishap that took it is on record.
  `PartsAreWhole` locates every half-written part at the request that writes it; `RowAgrees`
  and `MadeFits` carry RowsMatchBlobs and CompletesOnce over the steps in which row and
  file, or object and parts, differ. ListedIsReadable and AcknowledgedPartsAreKept are
  inductive once StorageInv is known; RangeIsOfOneVersion needs `ReaderFits` at the one
  step that can tear a range.

Every invariant and every action property of the passing runs has a theorem, and so has
the refinement. Only model-checked is liveness (WaitingIsClaimed,
DueCronFires, StandbyTakesOver): it depends on
fairness, whose meaning is ENABLED, which the prover does not reason about. The
disagreements of section 7 are counterexamples and have nothing to prove.

## 7. Where code and documentation disagree

Each has a configuration with which TLC finds a counterexample (under a fair
specification where the property is temporal). The first three are runs of the
project; the others are repeated with, for instance, `tlc -config JobRetry.cfg
MCJobRuns`.

| run or configuration | property | what happens | source |
|---|---|---|---|
| `auth_last_owner` | AuthOrgs!HasOwner | owners are counted in one statement and removed or demoted in a later one; two that leave at the same time both see two | `service.rs:816`, `:862`; `routes/members.rs:211` "Cannot remove the last owner." |
| `queue_visible_again` | CacheQueue!VisibleAgainAfterTimeout | dequeue asks for `receipt IS NULL`, so a delivery nobody settles stays invisible | `postgres.rs:95`; `queue.rs:39` "Items become invisible for the visibility timeout duration." |
| `job_sleep_passed` | JobSteps!SleepIsPassed | no fault: the row of a sleep is never completed, so the woken execution asks for it again, is refused and ends in an error | `internal.rs:235`; design `:870` "execution resumes after the sleep() call", `context.ts:71` |
| `StorageSize.cfg` | Storage!SizeIsOfTheObject | completing an upload with a list that leaves out a part records the length of all parts | `routes/multipart.rs:324`; `docs/reactor-storage.design.md:566` "Object size in bytes" |
| `StorageBucket.cfg` | Storage!BucketWithObjectsStays | a bucket that has objects is deleted without asking; its files stay, and a bucket created again under the slug serves them (Storage excepts what was written for a bucket that is gone as `stale_bucket`) | `routes/buckets.rs:360`; `docs/reactor-storage.design.md:331` "Fails with 409 if objects exist and cascade=false" |
| `AuthDeletedUser.cfg` | AuthSessions!DeletedUsersHaveNoSession | a login that found the user active stores its session after the revocation | `service.rs:539`; `:536` "Soft-delete a user and revoke all their sessions." |
| `JobQueueName.cfg` | JobRuns!EnqueuedIsDequeued | WorkerQueue and RunQueue as in the code: workers dequeue from `jobs:default`, producers enqueue to `jobs:{org_id}` | `worker/pool.rs:79`; design `:709` |
| `JobTransport.cfg` | JobRuns!RunningEnds | outcome "transport": the redelivered item is skipped because the run is running, and acked | `executor.rs:73`; `pool.rs:116` "Nack with delay for retry" |
| `JobRetry.cfg` | JobRuns!RetryIsExecuted | two attempts, no fault: a failed run is set to pending, its item acked, and nothing enqueues it again | `executor.rs:89`; design `:741` "enqueue with delay" |
| `JobDeadLetter.cfg` | JobRuns!FailedLandsInDlq | store errors: the insert of the dead letter fails after failed was written; the redelivery is skipped | `executor.rs:108`; design `:743-744` |
| `JobSleepOverwritten.cfg` | JobRuns!SleepIsNotOverwritten | outcome "sleep": the function answers 200 and the worker writes succeeded over sleeping | `executor.rs:78`; design `:866` |
| `JobStepAgain.cfg` | JobSteps!CompletedIsNotRunAgain | no fault: a step that returns nothing has no output in its row, so it is not in the replay cache | `executor.rs:41`; design `:857` |
| `TriggerEventOrg.cfg` | JobTriggers!EventsAreConsumed | PolledOrg as in the code: the loop polls the nil organization | `event.rs:40`; design `:763` |
| `TriggerTwoEvents.cfg` | JobTriggers!EventReachesEveryTrigger | two event triggers at the limit: the event is consumed after the first | `event.rs:101`; design `:767` |
| `TriggerLimit.cfg` | JobTriggers!WithinConcurrency | count and insert are two statements | `invoke.rs:60`; design `:699` |
| `TriggerSlotTwice.cfg` | JobTriggers!CronSlotOnce | two schedulers, no failure: the row locks end with the SELECT | `store/postgres.rs:212`; design `:909` |
| `LeaderTwice.cfg` | LeaderElection!AtMostOneScheduler | the pool closes the session that owns the lock while the scheduler runs | `leader.rs:66`; `compose/jobs.rs:139` |
| `TokenBucketRetry.cfg` | TokenBucket!RetryAfterIsEnough | a clock that only advances, nobody spends: each refill by another thread rounds down and forgets the rest | `bucket.rs:133`; `:111` |
| `QuotaStorage.cfg` | QuotaService!StorageNeverWraps | two deletes both subtract what one of them read | `service.rs:287`; `:74` |
| `QuotaFunctions.cfg` | QuotaService!FunctionsWithinLimit | Warm = FALSE: two first requests both insert a state, each with a count of its own | `service.rs:177`; `:18` |

One more that none of them shows: the worker sends the replay cache as `step_cache` and the
SDK looks in `stepCache` (`executor.rs:56`, design `:719`, `context.ts:209`). It is
about a name, which JobSteps takes as a parameter; `Breaks` is what follows from the
mismatch.

## 8. Not modelled

- `delete_job` and its cascade to runs; creating and editing jobs and triggers;
  job state and logs (single upserts and inserts).
- `reactor-auth`: API keys, platform operators and custom roles (single rows);
  signing keys (verification accepts every published key, and nothing modelled
  depends on which one signs); WebAuthn ceremonies, of which only the token issue at
  the end is in AuthSessions.
- `reactor-storage`: the S3 store, where the objects are S3's; policies; head and the
  listings, which only read; `expires_at` of uploads, which nothing acts on.
- Key-value operations and TTL clean-up of `reactor-cache`.
- `acquire`, `acquire_with_timeout` and `release` of the leader: no caller.
- Bandwidth counters and limit look-up of the quota service, `time_to_full`.
- Provider calls, HTTP routing, serialisation, encryption, formats, CLI and console:
  I/O or pure translation.
- The tenant cache, functions and sites, connect, gateway, data and analytics have
  state of their own (section 1) and are not modelled yet; they meet the modelled
  parts only through HTTP.

## 9. Plan

The safety of what is modelled is proved (section 6). What is left is more of the
system, in this order: the tenant cache (concurrent build, eviction of an
adapter in use), functions (activation of a deployment, the pool of processes),
connect (checkpoint and sink), gateway (push and retry), analytics (buffer and
flush).
