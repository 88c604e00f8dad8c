-------------------------------- MODULE JobRuns --------------------------------
(***************************************************************************)
(* The life of the runs of one job of crates/reactor-jobs: the rows of      *)
(* _reactor_jobs.runs and _reactor_jobs.dlq, the delivery queue of          *)
(* reactor-cache (as DeliveryQueue promises it), the worker pool with       *)
(* execute_run, the sleep wake-up loop, the internal sleep endpoint that    *)
(* the running function calls, and the admin operations cancel, retry and   *)
(* dead-letter retry.  Every SQL statement, queue call and HTTP exchange is *)
(* a step of its own: the code holds no transaction across two of them.     *)
(***************************************************************************)
EXTENDS Naturals, FiniteSets

CONSTANTS
    Runs,          \* run ids
    Items,         \* queue item ids
    Workers,       \* the tasks of the worker pools, over all processes
    Schedulers,    \* the processes that run the sleep loop
    Sleeps,        \* the names the job's code gives to its sleeps
    DlqIds,        \* dead-letter entry ids
    NoRun, NoItem, \* not a run, not an item
    MaxAttempts,   \* retry_max_attempts of the job
    WorkerQueue,   \* the queue name the workers dequeue from
    RunQueue,      \* the queue name the producers enqueue to, "jobs:{org_id}"
    Outcomes,      \* what the function may do: see Outcome
    Faults         \* what may fail: see Fault

Outcome == {"success", "error", "sleep", "transport"}
Fault == {"crash", "store", "queue"}

ASSUME JobConstants ==
    /\ MaxAttempts \in Nat \ {0}
    /\ NoRun \notin Runs
    /\ NoItem \notin Items
    /\ Outcomes \subseteq Outcome
    /\ Faults \subseteq Fault

VARIABLES
    run,        \* run[r]: the row of r, status and attempt
    slept,      \* slept[r]: the sleeps of r that have a row in steps
    dlq,        \* dlq[k]: the dead-letter entry k
    phase,      \* the delivery queue (DeliveryQueue)
    owner,
    data,       \* data[i]: the run id an item carries
    entering,   \* runs whose creator has still to enqueue them
    retrying,   \* <<r, k>>: retry_from_dlq inserted r, k is still to delete
    cancelling, \* runs a cancel_run call has checked and is about to write
    worker,     \* worker[w]: where w is in process_next_run
    sched,      \* sched[s]: where s is in poll_sleeping_runs
    orphans     \* orphans[pc]: the runs with a function execution that no
                \* worker waits for, in the call or in the middle of a sleep

vars == <<run, slept, dlq, phase, owner, data, entering, retrying, cancelling,
          worker, sched, orphans>>
qvars == <<phase, owner, data>>
apivars == <<entering, retrying, cancelling>>

Queue == INSTANCE DeliveryQueue WITH Consumers <- Workers

\* "unused": the id does not exist yet; "missing": an id without a row.
Status == {"unused", "missing", "pending", "running", "sleeping",
           "succeeded", "failed", "cancelled"}
Terminal == {"succeeded", "failed", "cancelled"}

\* where an execution of the function is: "napping" is between the two
\* statements of request_sleep
CallPC == {"calling", "napping"}

PC == {"idle", "load", "loaded", "running", "success", "failure", "dead", "ack", "nack"}
          \cup CallPC

Idle == [pc |-> "idle", item |-> NoItem, run |-> NoRun, attempt |-> 0]
Resting == [due |-> {}, woken |-> NoRun]
NoEntry == [state |-> "free", run |-> NoRun, attempt |-> 0]

TypeOK ==
    /\ run \in [Runs -> [status : Status, attempt : Nat]]
    /\ slept \in [Runs -> SUBSET Sleeps]
    /\ dlq \in [DlqIds -> [state : {"free", "live", "gone"},
                           run : Runs \cup {NoRun}, attempt : Nat]]
    /\ Queue!QTypeOK
    /\ data \in [Items -> Runs \cup {NoRun}]
    /\ entering \subseteq Runs
    /\ retrying \subseteq Runs \X DlqIds
    /\ cancelling \subseteq Runs
    /\ worker \in [Workers -> [pc : PC, item : Items \cup {NoItem},
                               run : Runs \cup {NoRun}, attempt : Nat]]
    /\ sched \in [Schedulers -> [due : SUBSET Runs, woken : Runs \cup {NoRun}]]
    /\ orphans \in [CallPC -> SUBSET Runs]

Init ==
    /\ run = [r \in Runs |-> [status |-> "unused", attempt |-> 0]]
    /\ slept = [r \in Runs |-> {}]
    /\ dlq = [k \in DlqIds |-> NoEntry]
    /\ Queue!QInit
    /\ data = [i \in Items |-> NoRun]
    /\ entering = {} /\ retrying = {} /\ cancelling = {}
    /\ worker = [w \in Workers |-> Idle]
    /\ sched = [s \in Schedulers |-> Resting]
    /\ orphans = [pc \in CallPC |-> {}]

(* UPDATE runs SET status = st WHERE id = r: whatever the status was. *)
SetStatus(r, st) ==
    run' = IF run[r].status = "missing" THEN run ELSE [run EXCEPT ![r].status = st]

(* cache.enqueue("jobs:{org_id}", r, None) *)
EnqueueRun(r) ==
    \E i \in Items : Queue!Put(i) /\ data' = [data EXCEPT ![i] = r]

-------------------------------------------------------------------------------
(* The callers that make runs: manual_trigger, webhook_trigger, retry_run,  *)
(* poll_cron_triggers and poll_events insert a row and then enqueue its id; *)
(* retry_dlq inserts from a dead-letter entry, deletes it, then enqueues.   *)

NewRow == [status |-> "pending", attempt |-> 1]

CreateRun(r) ==
    /\ run[r].status = "unused"
    /\ run' = [run EXCEPT ![r] = NewRow]
    /\ entering' = entering \cup {r}
    /\ UNCHANGED <<slept, dlq, qvars, retrying, cancelling, worker, sched, orphans>>

(* INSERT ... SELECT ... FROM dlq WHERE id = k inserts nothing when k is    *)
(* gone, and the call goes on with the id all the same.                     *)
RetryDlqInsert(r, k) ==
    /\ run[r].status = "unused"
    /\ dlq[k].state # "free"
    /\ run' = [run EXCEPT ![r] = IF dlq[k].state = "live" THEN NewRow
                                 ELSE [status |-> "missing", attempt |-> 0]]
    /\ retrying' = retrying \cup {<<r, k>>}
    /\ UNCHANGED <<slept, dlq, qvars, entering, cancelling, worker, sched, orphans>>

RetryDlqDelete(r, k) ==
    /\ <<r, k>> \in retrying
    /\ dlq' = [dlq EXCEPT ![k].state = "gone"]
    /\ retrying' = retrying \ {<<r, k>>}
    /\ entering' = entering \cup {r}
    /\ UNCHANGED <<run, slept, qvars, cancelling, worker, sched, orphans>>

DeleteDlq(k) ==
    /\ dlq[k].state = "live"
    /\ dlq' = [dlq EXCEPT ![k].state = "gone"]
    /\ UNCHANGED <<run, slept, qvars, apivars, worker, sched, orphans>>

(* Mutant of EnterQueue: the caller may enqueue twice.                      *)
EnterQueueAgain(r) ==
    /\ r \in entering
    /\ EnqueueRun(r)
    /\ UNCHANGED <<run, slept, dlq, apivars, worker, sched, orphans>>

EnterQueue(r) ==
    /\ r \in entering
    /\ EnqueueRun(r)
    /\ entering' = entering \ {r}
    /\ UNCHANGED <<run, slept, dlq, retrying, cancelling, worker, sched, orphans>>

(* The enqueue fails, or the caller's process dies before it. *)
CallerFails(r) ==
    /\ {"crash", "queue"} \cap Faults # {}
    /\ \/ r \in entering /\ entering' = entering \ {r} /\ UNCHANGED retrying
       \/ \E k \in DlqIds : /\ <<r, k>> \in retrying
                            /\ retrying' = retrying \ {<<r, k>>}
                            /\ UNCHANGED entering
    /\ UNCHANGED <<run, slept, dlq, qvars, cancelling, worker, sched, orphans>>

(* cancel_run reads the status, then writes it. *)
CancelCheck(r) ==
    /\ run[r].status \notin Terminal \cup {"unused", "missing"}
    /\ cancelling' = cancelling \cup {r}
    /\ UNCHANGED <<run, slept, dlq, qvars, entering, retrying, worker, sched, orphans>>

CancelWrite(r) ==
    /\ r \in cancelling
    /\ SetStatus(r, "cancelled")
    /\ cancelling' = cancelling \ {r}
    /\ UNCHANGED <<slept, dlq, qvars, entering, retrying, worker, sched, orphans>>

-------------------------------------------------------------------------------
(* A worker: process_next_run and the execute_run it calls.                 *)

At(w, pc) == worker[w].pc = pc
Goto(w, pc) == worker' = [worker EXCEPT ![w].pc = pc]

(* After a statement that committed: the caller sees the answer and goes on *)
(* to pc, or gets an error all the same and goes to err.                    *)
Answered(w, pc, err) == Goto(w, pc) \/ ("store" \in Faults /\ Goto(w, err))

(* The execution that w called goes on without a caller.                    *)
Orphaned(w) == [orphans EXCEPT ![worker[w].pc] = @ \cup {worker[w].run}]

(* dequeue(WorkerQueue, 1, ..) finds what the producers put in RunQueue     *)
(* only if the two names agree.                                             *)
Dequeue(w, i) ==
    /\ At(w, "idle")
    /\ WorkerQueue = RunQueue
    /\ Queue!Take(w, {i})
    /\ worker' = [worker EXCEPT ![w] =
                      [pc |-> "load", item |-> i, run |-> data[i], attempt |-> 0]]
    /\ UNCHANGED <<run, slept, dlq, data, apivars, sched, orphans>>

(* get_run: no row is an error, a status other than pending and sleeping    *)
(* ends the delivery; otherwise the row read here is used to the end.       *)
LoadRun(w) ==
    /\ At(w, "load")
    /\ LET r == run[worker[w].run]
       IN  CASE r.status = "missing" -> Goto(w, "nack")
             [] r.status \in {"pending", "sleeping"} ->
                    worker' = [worker EXCEPT ![w].pc = "loaded",
                                             ![w].attempt = r.attempt]
             [] OTHER -> Goto(w, "ack")
    /\ UNCHANGED <<run, slept, dlq, qvars, apivars, sched, orphans>>

MarkRunning(w) ==
    /\ At(w, "loaded")
    /\ SetStatus(worker[w].run, "running")
    /\ Answered(w, "running", "nack")
    /\ UNCHANGED <<slept, dlq, qvars, apivars, sched, orphans>>

(* Load the steps and the state, POST to the function. *)
Invoke(w) ==
    /\ At(w, "running")
    /\ Goto(w, "calling")
    /\ UNCHANGED <<run, slept, dlq, qvars, apivars, sched, orphans>>

(* The function answers 200 or not. *)
FunctionAnswers(w) ==
    /\ At(w, "calling")
    /\ \/ "success" \in Outcomes /\ Goto(w, "success")
       \/ "error" \in Outcomes /\ Goto(w, "failure")
    /\ UNCHANGED <<run, slept, dlq, qvars, apivars, sched, orphans>>

(* The timeout of the request or a broken connection: an Err of execute_run. *)
(* The function may go on without its caller.                               *)
TransportError(w) ==
    /\ worker[w].pc \in CallPC
    /\ "transport" \in Outcomes
    /\ Goto(w, "nack")
    /\ orphans' \in {orphans, Orphaned(w)}
    /\ UNCHANGED <<run, slept, dlq, qvars, apivars, sched>>

(* The first statement of POST /_internal/sleep: create_step for the sleep  *)
(* n of r.  A second row of the same name violates UNIQUE (run_id, name).   *)
InsertSleep(r, n) ==
    /\ n \notin slept[r]
    /\ slept' = [slept EXCEPT ![r] = @ \cup {n}]

(* ctx.sleep in the function: a refused or failed insert makes it throw,    *)
(* and the answer of the function is a 500.                                 *)
FunctionSleeps(w, n) ==
    /\ At(w, "calling")
    /\ "sleep" \in Outcomes
    /\ \/ InsertSleep(worker[w].run, n) /\ Answered(w, "napping", "failure")
       \/ /\ n \in slept[worker[w].run] \/ "store" \in Faults
          /\ Goto(w, "failure")
          /\ UNCHANGED slept
    /\ UNCHANGED <<run, dlq, qvars, apivars, sched, orphans>>

(* The second statement, set_run_sleeping.  Accepted, the sleep ends the    *)
(* execution with a 200.                                                    *)
FunctionNaps(w) ==
    /\ At(w, "napping")
    /\ \/ SetStatus(worker[w].run, "sleeping") /\ Answered(w, "success", "failure")
       \/ "store" \in Faults /\ Goto(w, "failure") /\ UNCHANGED run
    /\ UNCHANGED <<slept, dlq, qvars, apivars, sched, orphans>>

(* An execution nobody waits for: it asks to sleep, the request sets the    *)
(* status, or it ends (between the two statements, if the second fails).    *)
OrphanSleeps(r, n) ==
    /\ r \in orphans["calling"]
    /\ "sleep" \in Outcomes
    /\ InsertSleep(r, n)
    /\ orphans' = [pc \in CallPC |-> IF pc = "calling" THEN orphans[pc] \ {r}
                                                      ELSE orphans[pc] \cup {r}]
    /\ UNCHANGED <<run, dlq, qvars, apivars, worker, sched>>

OrphanNaps(r) ==
    /\ r \in orphans["napping"]
    /\ SetStatus(r, "sleeping")
    /\ orphans' = [orphans EXCEPT !["napping"] = @ \ {r}]
    /\ UNCHANGED <<slept, dlq, qvars, apivars, worker, sched>>

OrphanEnds(r) ==
    /\ \E pc \in CallPC : /\ r \in orphans[pc]
                          /\ pc = "napping" => {"crash", "store"} \cap Faults # {}
                          /\ orphans' = [orphans EXCEPT ![pc] = @ \ {r}]
    /\ UNCHANGED <<run, slept, dlq, qvars, apivars, worker, sched>>

RecordSuccess(w) ==
    /\ At(w, "success")
    /\ SetStatus(worker[w].run, "succeeded")
    /\ Answered(w, "ack", "nack")
    /\ UNCHANGED <<slept, dlq, qvars, apivars, sched, orphans>>

(* What follows a non-2xx answer: below the limit of attempts count one, at *)
(* it write failed and go on to the dead-letter queue.                      *)
FailureAt(w, limit) ==
    /\ At(w, "failure")
    /\ LET r == worker[w].run
       IN  \/ /\ worker[w].attempt < limit
              /\ run' = [run EXCEPT ![r].attempt = @ + 1, ![r].status = "pending"]
              /\ Answered(w, "ack", "nack")
           \/ /\ worker[w].attempt >= limit
              /\ SetStatus(r, "failed")
              /\ Answered(w, "dead", "nack")
    /\ UNCHANGED <<slept, dlq, qvars, apivars, sched, orphans>>

(* Mutants of RecordFailure: the limit one too low, one too high.           *)
RecordFailureEarly(w) == FailureAt(w, MaxAttempts - 1)

RecordFailureLate(w) == FailureAt(w, MaxAttempts + 1)

(* A non-2xx answer: with attempts left increment_run_attempt and done (the *)
(* item is acked, nothing is enqueued; nacked, if the increment's answer is *)
(* lost), otherwise failed and on to the dead-letter queue.                 *)
RecordFailure(w) == FailureAt(w, MaxAttempts)

(* move_to_dlq copies the row as it is now. *)
MoveToDlq(w) ==
    /\ At(w, "dead")
    /\ \E k \in DlqIds :
          /\ dlq[k].state = "free"
          /\ dlq' = [dlq EXCEPT ![k] = [state |-> "live", run |-> worker[w].run,
                                        attempt |-> run[worker[w].run].attempt]]
    /\ Answered(w, "ack", "nack")
    /\ UNCHANGED <<run, slept, qvars, apivars, sched, orphans>>

(* A store call of execute_run fails without an effect: the item is nacked. *)
(* (One that committed without its answer is the err of Answered.)          *)
StoreError(w) ==
    /\ "store" \in Faults
    /\ worker[w].pc \in {"load", "loaded", "running", "success", "failure", "dead"}
    /\ Goto(w, "nack")
    /\ UNCHANGED <<run, slept, dlq, qvars, apivars, sched, orphans>>

(* ack and nack; their errors are dropped (let _ =) and so is the receipt.  *)
Settle(w) ==
    /\ \/ At(w, "ack") /\ Queue!Done(w, worker[w].item)
       \/ At(w, "nack") /\ Queue!Return(w, worker[w].item)
       \/ /\ worker[w].pc \in {"ack", "nack"}
          /\ "queue" \in Faults
          /\ Queue!Forget(w, {worker[w].item})
    /\ worker' = [worker EXCEPT ![w] = Idle]
    /\ UNCHANGED <<run, slept, dlq, data, apivars, sched, orphans>>

(* The process dies, or shutdown makes select! drop process_next_run at an  *)
(* await: the item stays taken, a function that was called goes on.         *)
WorkerStops(w) ==
    /\ "crash" \in Faults
    /\ ~At(w, "idle")
    /\ Queue!Forget(w, {worker[w].item})
    /\ worker' = [worker EXCEPT ![w] = Idle]
    /\ orphans' = IF worker[w].pc \in CallPC THEN Orphaned(w) ELSE orphans
    /\ UNCHANGED <<run, slept, dlq, data, apivars, sched>>

-------------------------------------------------------------------------------
(* The sleep loop: list the due runs, then one by one set pending and       *)
(* enqueue.  The row locks of the SELECT end with it, and an error leaves   *)
(* the poll.                                                                *)

PollSleeping(s) ==
    /\ sched[s] = Resting
    /\ \E D \in SUBSET {r \in Runs : run[r].status = "sleeping"} :
          D # {} /\ sched' = [sched EXCEPT ![s].due = D]
    /\ UNCHANGED <<run, slept, dlq, qvars, apivars, worker, orphans>>

WakeRun(s, r) ==
    /\ sched[s].woken = NoRun
    /\ r \in sched[s].due
    /\ SetStatus(r, "pending")
    /\ sched' = [sched EXCEPT ![s] = [due |-> @.due \ {r}, woken |-> r]]
    /\ UNCHANGED <<slept, dlq, qvars, apivars, worker, orphans>>

WakeEnqueue(s) ==
    /\ sched[s].woken # NoRun
    /\ EnqueueRun(sched[s].woken)
    /\ sched' = [sched EXCEPT ![s].woken = NoRun]
    /\ UNCHANGED <<run, slept, dlq, apivars, worker, orphans>>

PollFails(s) ==
    /\ Faults # {}
    /\ sched[s] # Resting
    /\ sched' = [sched EXCEPT ![s] = Resting]
    /\ UNCHANGED <<run, slept, dlq, qvars, apivars, worker, orphans>>

-------------------------------------------------------------------------------

ApiStep(r) ==
    \/ CreateRun(r) \/ EnterQueue(r) \/ CallerFails(r)
    \/ CancelCheck(r) \/ CancelWrite(r)
    \/ \E k \in DlqIds : RetryDlqInsert(r, k) \/ RetryDlqDelete(r, k)

WorkerStep(w) ==
    \/ LoadRun(w) \/ MarkRunning(w) \/ Invoke(w)
    \/ FunctionAnswers(w) \/ TransportError(w)
    \/ (\E n \in Sleeps : FunctionSleeps(w, n)) \/ FunctionNaps(w)
    \/ RecordSuccess(w) \/ RecordFailure(w) \/ MoveToDlq(w) \/ Settle(w)

WakeStep(s) == PollSleeping(s) \/ (\E r \in Runs : WakeRun(s, r)) \/ WakeEnqueue(s)

OrphanStep(r) == (\E n \in Sleeps : OrphanSleeps(r, n)) \/ OrphanNaps(r) \/ OrphanEnds(r)

Next ==
    \/ \E r \in Runs : ApiStep(r) \/ OrphanStep(r)
    \/ \E k \in DlqIds : DeleteDlq(k)
    \/ \E w \in Workers, i \in Items : Dequeue(w, i)
    \/ \E w \in Workers : WorkerStep(w) \/ StoreError(w) \/ WorkerStops(w)
    \/ \E s \in Schedulers : WakeStep(s) \/ PollFails(s)

Spec == Init /\ [][Next]_vars

(* Workers and sleep loops poll for ever and every call they make returns   *)
(* (each HTTP request has a timeout); a handler that has begun goes on.     *)
(* A waiting item is taken in the end: dequeue serves the oldest visible_at *)
(* first, and CacheQueue is checked for it (WaitingIsClaimed).              *)
Fairness ==
    /\ \A i \in Items : SF_vars(\E w \in Workers : Dequeue(w, i))
    /\ \A w \in Workers : WF_vars(WorkerStep(w))
    /\ \A s \in Schedulers : WF_vars(WakeStep(s))
    /\ \A r \in Runs : WF_vars(EnterQueue(r)) /\ WF_vars(CancelWrite(r))
                       /\ \A k \in DlqIds : WF_vars(RetryDlqDelete(r, k))

FairSpec == Spec /\ Fairness

-------------------------------------------------------------------------------
(* Properties. *)

\* w is between the check of the status and its last write to the run
Executing(w) ==
    worker[w].pc \in {"loaded", "running", "success", "failure", "dead"} \cup CallPC

(* A delivered item stays the worker's own while it works on it, and it     *)
(* works on the run the item names.                                         *)
WorkersOwnTheirItems ==
    \A w \in Workers : ~At(w, "idle") =>
        /\ worker[w].item \in Items
        /\ phase[worker[w].item] = "taken"
        /\ owner[worker[w].item] = {w}
        /\ data[worker[w].item] = worker[w].run
        /\ worker[w].run \in Runs

(* A run that never asked to sleep is executed by at most one worker at a   *)
(* time: it has one queue item, and the item one taker.                     *)
OneWorkerUnlessSlept ==
    \A v, w \in Workers :
        v # w /\ ~At(v, "idle") /\ ~At(w, "idle") /\ worker[v].run = worker[w].run
            => slept[worker[v].run] # {}

(* Only a run that used its last attempt is dead-lettered, although the     *)
(* attempt compared was read before the function was called.                *)
DlqAfterLastAttempt ==
    \A k \in DlqIds : dlq[k].state # "free" => dlq[k].attempt >= MaxAttempts

(* No run is attempted more often than retry_max_attempts allows, unless a  *)
(* sleep put a second worker on it.                                         *)
AttemptsWithinLimit ==
    \A r \in Runs : run[r].attempt > MaxAttempts => slept[r] # {}

(* A run that never slept has one queue item at most, which its creator     *)
(* put, and no sleep loop knows of it.                                      *)
OneItemUnlessSlept ==
    \A r \in Runs : slept[r] = {} =>
        /\ \A i, j \in Items : data[i] = r /\ data[j] = r => i = j
        /\ \A s \in Schedulers : r \notin sched[s].due /\ sched[s].woken # r
        /\ run[r].status # "sleeping"

(* An id that is still to be enqueued has no item yet, and an unused id     *)
(* is nowhere.                                                              *)
FreshRuns ==
    \A r \in Runs :
        /\ \A k, l \in DlqIds : <<r, k>> \in retrying /\ <<r, l>> \in retrying => k = l
        /\ \A k \in DlqIds : <<r, k>> \in retrying => r \notin entering
        /\ r \in entering \/ (\E k \in DlqIds : <<r, k>> \in retrying)
              => run[r].status # "unused" /\ (slept[r] = {} => \A i \in Items : data[i] # r)
        /\ run[r].status = "unused" =>
              /\ slept[r] = {} /\ r \notin cancelling
              /\ \A pc \in CallPC : r \notin orphans[pc]
              /\ \A i \in Items : data[i] # r
        /\ run[r].status = "unused" => run[r].attempt = 0

(* retry_dlq deletes an entry that was there: its id was never free again.  *)
RetriedEntryExists ==
    \A r \in Runs, k \in DlqIds : <<r, k>> \in retrying => dlq[k].state # "free"

(* The queue is used as DeliveryQueue allows. *)
QueueShape ==
    \A i \in Items :
        /\ phase[i] = "new" <=> data[i] = NoRun
        /\ owner[i] # {} => phase[i] = "taken"

(* What a worker read of the run is still a lower bound of its attempts,    *)
(* and exact unless a sleep put a second worker on the run.                 *)
SnapshotsAreOld ==
    \A w \in Workers : Executing(w) =>
        /\ run[worker[w].run].status \notin {"unused", "missing"}
        /\ worker[w].attempt <= run[worker[w].run].attempt
        /\ slept[worker[w].run] = {} => worker[w].attempt = run[worker[w].run].attempt
        /\ At(w, "dead") => worker[w].attempt >= MaxAttempts

(* An execution between the two statements of request_sleep has left its    *)
(* step row.                                                                *)
NappersSlept ==
    /\ \A w \in Workers : At(w, "napping") => slept[worker[w].run] # {}
    /\ \A r \in orphans["napping"] : slept[r] # {}

JobsInv ==
    /\ TypeOK
    /\ WorkersOwnTheirItems
    /\ OneItemUnlessSlept
    /\ FreshRuns
    /\ RetriedEntryExists
    /\ QueueShape
    /\ SnapshotsAreOld
    /\ NappersSlept
    /\ DlqAfterLastAttempt
    /\ AttemptsWithinLimit

(* What the design document says of the runs.  TLC refutes each, with the   *)
(* configurations of README, section 7.                                     *)

(* "on function error: ... else: run.status = failed, move to DLQ": a       *)
(* failed run gets its dead-letter entry.                                   *)
FailedLandsInDlq ==
    \A r \in Runs : run[r].status = "failed" ~>
        (run[r].status # "failed" \/ \E k \in DlqIds : dlq[k].state # "free" /\ dlq[k].run = r)

(* "on function error: if attempt < max_attempts: ... enqueue with delay":  *)
(* a run put back to pending for its next attempt is executed again.        *)
RetryIsExecuted ==
    \A r \in Runs : run[r].status = "pending" /\ run[r].attempt > 1
                        ~> run[r].status # "pending"

(* "Nack with delay for retry" (pool.rs): a run whose invocation failed in  *)
(* transport is retried, so it does not stay running.                       *)
RunningEnds == \A r \in Runs : run[r].status = "running" ~> run[r].status # "running"

(* "When wakeup_at is reached: run.status changes from 'sleeping' to        *)
(* 'pending'": a sleeping run is not finished by the execution it left.     *)
SleepIsNotOverwritten ==
    [][\A r \in Runs : run[r].status = "sleeping"
            => run'[r].status \in {"sleeping", "pending", "running", "cancelled"}]_vars

(* "worker.dequeue("jobs:{org_id}")": what a producer enqueued is dequeued  *)
(* by a worker.                                                             *)
EnqueuedIsDequeued == \A i \in Items : phase[i] = "waiting" ~> phase[i] # "waiting"
===============================================================================
