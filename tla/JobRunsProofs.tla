----------------------------- MODULE JobRunsProofs -----------------------------
(***************************************************************************)
(* Proofs about JobRuns for every number of runs, queue items, workers,     *)
(* sleep loops, sleeps and dead-letter entries, every limit of attempts and *)
(* every set of outcomes and faults: JobsInv is inductive, and a run that   *)
(* never slept has one worker at most.                                      *)
(***************************************************************************)
EXTENDS JobRuns, TLAPS

RunRows == [Runs -> [status : Status, attempt : Nat]]
WorkerPlaces == [Workers -> [pc : PC, item : Items \cup {NoItem},
                             run : Runs \cup {NoRun}, attempt : Nat]]

-------------------------------------------------------------------------------
(* What the pieces that the actions are made of change.                     *)

(* UPDATE runs SET status: the one row, its status, unless it is missing.   *)
LEMMA StatusIsSet ==
  ASSUME TypeOK, NEW r \in Runs, NEW st \in Status, SetStatus(r, st)
  PROVE  /\ run' \in RunRows
         /\ \A q \in Runs : /\ run'[q].attempt = run[q].attempt
                            /\ q # r => run'[q].status = run[q].status
         /\ run'[r].status = IF run[r].status = "missing" THEN "missing" ELSE st
  BY DEF TypeOK, SetStatus, RunRows

(* A worker that goes on keeps its item, its run and what it read.          *)
LEMMA WorkerGoesOn ==
  ASSUME TypeOK, NEW w \in Workers, NEW pc \in PC, Goto(w, pc)
  PROVE  /\ worker' \in WorkerPlaces
         /\ \A v \in Workers : /\ worker'[v].item = worker[v].item
                               /\ worker'[v].run = worker[v].run
                               /\ worker'[v].attempt = worker[v].attempt
                               /\ worker'[v].pc = IF v = w THEN pc ELSE worker[v].pc
                               /\ v # w => worker'[v] = worker[v]
  BY DEF TypeOK, Goto, WorkerPlaces

(* get_run: the worker remembers the attempt it read.                       *)
LEMMA WorkerLoads ==
  ASSUME TypeOK, NEW w \in Workers, NEW a \in Nat,
         worker' = [worker EXCEPT ![w].pc = "loaded", ![w].attempt = a]
  PROVE  /\ worker' \in WorkerPlaces
         /\ \A v \in Workers : /\ worker'[v].item = worker[v].item
                               /\ worker'[v].run = worker[v].run
                               /\ v # w => worker'[v] = worker[v]
         /\ worker'[w].pc = "loaded" /\ worker'[w].attempt = a
<1> DEFINE loaded == [worker[w] EXCEPT !.pc = "loaded", !.attempt = a]
<1>1. worker' = [worker EXCEPT ![w] = loaded] /\ worker \in WorkerPlaces
  BY DEF TypeOK, WorkerPlaces
<1>2. /\ loaded \in [pc : PC, item : Items \cup {NoItem}, run : Runs \cup {NoRun}, attempt : Nat]
      /\ loaded.item = worker[w].item /\ loaded.run = worker[w].run
      /\ loaded.pc = "loaded" /\ loaded.attempt = a
  BY <1>1 DEF WorkerPlaces, PC
<1> HIDE DEF loaded
<1> QED BY <1>1, <1>2 DEF WorkerPlaces

(* increment_run_attempt.                                                   *)
LEMMA AttemptIsCounted ==
  ASSUME TypeOK, NEW r \in Runs,
         run' = [run EXCEPT ![r].attempt = @ + 1, ![r].status = "pending"]
  PROVE  /\ run' \in RunRows
         /\ \A q \in Runs : q # r => run'[q] = run[q]
         /\ run'[r].attempt = run[r].attempt + 1 /\ run'[r].status = "pending"
<1> DEFINE again == [run[r] EXCEPT !.attempt = run[r].attempt + 1, !.status = "pending"]
<1>1. run' = [run EXCEPT ![r] = again] /\ run \in RunRows
  BY DEF TypeOK, RunRows
<1>2. /\ again \in [status : Status, attempt : Nat]
      /\ again.attempt = run[r].attempt + 1 /\ again.status = "pending"
  BY <1>1 DEF RunRows, Status
<1> HIDE DEF again
<1> QED BY <1>1, <1>2 DEF RunRows

(* An enqueue fills an item that no run had.                                *)
LEMMA RunIsEnqueued ==
  ASSUME TypeOK, QueueShape, NEW r \in Runs, EnqueueRun(r)
  PROVE  \E i \in Items :
            /\ phase[i] = "new" /\ data[i] = NoRun
            /\ phase' \in [Items -> Queue!Phase] /\ owner' = owner
            /\ data' \in [Items -> Runs \cup {NoRun}]
            /\ \A j \in Items : /\ phase'[j] = IF j = i THEN "waiting" ELSE phase[j]
                                /\ data'[j] = IF j = i THEN r ELSE data[j]
  BY DEF TypeOK, QueueShape, EnqueueRun, Queue!Put, Queue!QTypeOK, Queue!Phase

(* create_step of a sleep leaves a row behind.                              *)
LEMMA SleepIsInserted ==
  ASSUME TypeOK, NEW r \in Runs, NEW n \in Sleeps, InsertSleep(r, n)
  PROVE  /\ slept' \in [Runs -> SUBSET Sleeps] /\ slept'[r] # {}
         /\ \A q \in Runs : q # r => slept'[q] = slept[q]
  BY DEF TypeOK, InsertSleep

(* The executions without a caller, after a step of w: the ones there were, *)
(* and the one that w called.                                               *)
OrphansGrow(w) ==
    /\ orphans' \in [CallPC -> SUBSET Runs]
    /\ \A pc \in CallPC : \A q \in orphans'[pc] :
          q \in orphans[pc] \/ (At(w, pc) /\ worker[w].run = q)

LEMMA OrphanIsLeft ==
  ASSUME TypeOK, NEW w \in Workers, worker[w].run \in Runs,
         orphans' = orphans \/ (worker[w].pc \in CallPC /\ orphans' = Orphaned(w))
  PROVE  OrphansGrow(w)
  BY DEF TypeOK, OrphansGrow, Orphaned, At

-------------------------------------------------------------------------------
(* What the parts of JobsInv depend on.                                     *)

(* The parts that a step keeps when it leaves their tables alone.           *)
LEMMA PartsThatStay ==
  ASSUME JobsInv
  PROVE  /\ UNCHANGED <<worker, phase, owner, data>> => WorkersOwnTheirItems'
         /\ UNCHANGED <<run, slept, data, sched>> => OneItemUnlessSlept'
         /\ UNCHANGED <<run, slept, data, entering, retrying, cancelling, orphans>> => FreshRuns'
         /\ UNCHANGED <<dlq, retrying>> => RetriedEntryExists'
         /\ UNCHANGED <<phase, owner, data>> => QueueShape'
         /\ UNCHANGED <<run, slept, worker>> => SnapshotsAreOld'
         /\ UNCHANGED <<slept, worker, orphans>> => NappersSlept'
         /\ UNCHANGED dlq => DlqAfterLastAttempt'
         /\ UNCHANGED <<run, slept>> => AttemptsWithinLimit'
<1> USE DEF JobsInv
<1>1. UNCHANGED <<worker, phase, owner, data>> => WorkersOwnTheirItems'
  BY DEF WorkersOwnTheirItems, At
<1>2. UNCHANGED <<run, slept, data, sched>> => OneItemUnlessSlept'
  BY DEF OneItemUnlessSlept
<1>3. UNCHANGED <<run, slept, data, entering, retrying, cancelling, orphans>> => FreshRuns'
  BY DEF FreshRuns
<1>4. UNCHANGED <<phase, owner, data>> => QueueShape'
  BY DEF QueueShape
<1>5. UNCHANGED <<run, slept, worker>> => SnapshotsAreOld'
  BY DEF SnapshotsAreOld, Executing, CallPC, At
<1>6. UNCHANGED dlq => DlqAfterLastAttempt'
  BY DEF DlqAfterLastAttempt
<1>7. UNCHANGED <<run, slept>> => AttemptsWithinLimit'
  BY DEF AttemptsWithinLimit
<1>8. UNCHANGED <<dlq, retrying>> => RetriedEntryExists'
  BY DEF RetriedEntryExists
<1>9. UNCHANGED <<slept, worker, orphans>> => NappersSlept'
  BY DEF NappersSlept, At
<1> QED BY <1>1, <1>2, <1>3, <1>4, <1>5, <1>6, <1>7, <1>8, <1>9

(* Nobody new is in the middle of a sleep, and no step row goes.            *)
LEMMA NappersStay ==
  ASSUME JobsInv,
         \A v \in Workers : At(v, "napping")' => At(v, "napping") /\ worker'[v].run = worker[v].run,
         \A q \in orphans'["napping"] :
             q \in orphans["napping"] \/ \E v \in Workers : At(v, "napping") /\ worker[v].run = q,
         \A q \in Runs : slept[q] # {} => slept'[q] # {}
  PROVE  NappersSlept'
<1>1. \A v \in Workers : At(v, "napping") => worker[v].run \in Runs /\ slept[worker[v].run] # {}
  BY DEF JobsInv, WorkersOwnTheirItems, NappersSlept, At
<1>2. \A q \in orphans["napping"] : q \in Runs /\ slept[q] # {}
  BY DEF JobsInv, TypeOK, NappersSlept, CallPC
<1> QED BY <1>1, <1>2 DEF NappersSlept

(* Two workers that are not idle have two items; when their run is the same *)
(* it has slept.                                                            *)
LEMMA WorkersShareOnlySleepers ==
  ASSUME JobsInv, NEW v \in Workers, NEW w \in Workers, v # w, ~At(v, "idle"), ~At(w, "idle"),
         worker[v].run = worker[w].run
  PROVE  slept[worker[v].run] # {}
<1>1. worker[v].item # worker[w].item
  BY DEF JobsInv, WorkersOwnTheirItems
<1> QED BY <1>1 DEF JobsInv, WorkersOwnTheirItems, OneItemUnlessSlept

(* A worker's move inside a delivery that leaves the run alone, to a place  *)
(* where it does not execute.                                               *)
LEMMA WorkerLeavesRun ==
  ASSUME JobsInv, NEW w \in Workers, ~At(w, "idle"), NEW pc \in {"ack", "nack"}, Goto(w, pc),
         UNCHANGED <<phase, owner, data>>
  PROVE  /\ WorkersOwnTheirItems'
         /\ UNCHANGED <<run, slept>> => SnapshotsAreOld'
<1>1. TypeOK /\ pc \in PC /\ pc # "idle"
  BY DEF JobsInv, PC
<1>2. WorkersOwnTheirItems'
  BY <1>1, WorkerGoesOn DEF JobsInv, WorkersOwnTheirItems, At
<1>3. UNCHANGED <<run, slept>> => SnapshotsAreOld'
  BY <1>1, WorkerGoesOn DEF JobsInv, SnapshotsAreOld, Executing, CallPC, At
<1> QED BY <1>2, <1>3
-------------------------------------------------------------------------------
(* The steps.                                                               *)

(* The table starts without runs and the queue without items.               *)
LEMMA JobsInvInit == Init => JobsInv
  BY JobConstants DEF Init, JobsInv, TypeOK, WorkersOwnTheirItems, OneItemUnlessSlept,
     FreshRuns, RetriedEntryExists, QueueShape, SnapshotsAreOld, NappersSlept,
     DlqAfterLastAttempt, AttemptsWithinLimit, Executing, CallPC, At, Idle, Resting, NoEntry, PC,
     CallPC, Status,
     Queue!QInit, Queue!QTypeOK, Queue!Phase

(* The callers that make and cancel runs keep JobsInv.                      *)
LEMMA CallersKeepJobsInv ==
  ASSUME JobsInv, NEW r \in Runs, ApiStep(r)
  PROVE  JobsInv'
<1> USE JobConstants DEF qvars, apivars
<1> TypeOK
  BY DEF JobsInv
<1>1. CASE CreateRun(r)
  <2>1. TypeOK'
    BY <1>1 DEF TypeOK, CreateRun, NewRow, Status, Queue!QTypeOK
  <2>2. OneItemUnlessSlept' /\ AttemptsWithinLimit'
    BY <1>1 DEF JobsInv, TypeOK, OneItemUnlessSlept, AttemptsWithinLimit, CreateRun, NewRow
  <2>3. SnapshotsAreOld'
    BY <1>1 DEF JobsInv, TypeOK, WorkersOwnTheirItems, FreshRuns, SnapshotsAreOld, Executing, CallPC, At,
       CreateRun, NewRow
  <2>4. FreshRuns'
    BY <1>1 DEF JobsInv, TypeOK, FreshRuns, CreateRun, NewRow
  <2> QED BY <1>1, <2>1, <2>2, <2>3, <2>4, PartsThatStay DEF JobsInv, CreateRun
<1>2. ASSUME NEW k \in DlqIds, RetryDlqInsert(r, k)
      PROVE  JobsInv'
  <2>1. TypeOK'
    BY <1>2 DEF TypeOK, RetryDlqInsert, NewRow, Status, Queue!QTypeOK
  <2>2. OneItemUnlessSlept' /\ AttemptsWithinLimit'
    BY <1>2 DEF JobsInv, TypeOK, OneItemUnlessSlept, AttemptsWithinLimit, RetryDlqInsert, NewRow
  <2>3. SnapshotsAreOld'
    BY <1>2 DEF JobsInv, TypeOK, WorkersOwnTheirItems, FreshRuns, SnapshotsAreOld, Executing, CallPC, At,
       RetryDlqInsert
  <2>4. FreshRuns'
    BY <1>2 DEF JobsInv, TypeOK, FreshRuns, RetryDlqInsert, NewRow
  <2>5. RetriedEntryExists'
    BY <1>2 DEF JobsInv, RetriedEntryExists, RetryDlqInsert
  <2> QED BY <1>2, <2>1, <2>2, <2>3, <2>4, <2>5, PartsThatStay DEF JobsInv, RetryDlqInsert
<1>3. ASSUME NEW k \in DlqIds, RetryDlqDelete(r, k)
      PROVE  JobsInv'
  <2>1. TypeOK'
    <3>1. dlq' \in [DlqIds -> [state : {"free", "live", "gone"},
                               run : Runs \cup {NoRun}, attempt : Nat]]
      BY <1>3 DEF TypeOK, RetryDlqDelete
    <3>2. retrying' \subseteq Runs \X DlqIds /\ entering' \subseteq Runs
      BY <1>3 DEF TypeOK, RetryDlqDelete
    <3> QED BY <1>3, <3>1, <3>2 DEF TypeOK, RetryDlqDelete, Queue!QTypeOK
  <2>2. DlqAfterLastAttempt' /\ RetriedEntryExists'
    BY <1>3 DEF JobsInv, TypeOK, DlqAfterLastAttempt, RetriedEntryExists, RetryDlqDelete
  <2>3. FreshRuns'
    BY <1>3 DEF JobsInv, TypeOK, FreshRuns, RetryDlqDelete
  <2> QED BY <1>3, <2>1, <2>2, <2>3, PartsThatStay DEF JobsInv, RetryDlqDelete
<1>4. CASE EnterQueue(r)
  <2>1. PICK i \in Items :
            /\ phase[i] = "new" /\ data[i] = NoRun
            /\ phase' \in [Items -> Queue!Phase] /\ owner' = owner
            /\ data' \in [Items -> Runs \cup {NoRun}]
            /\ \A j \in Items : /\ phase'[j] = IF j = i THEN "waiting" ELSE phase[j]
                                /\ data'[j] = IF j = i THEN r ELSE data[j]
    BY <1>4, RunIsEnqueued DEF JobsInv, EnterQueue
  <2>2. TypeOK'
    BY <1>4, <2>1 DEF TypeOK, EnterQueue, Queue!QTypeOK
  <2>3. WorkersOwnTheirItems' /\ QueueShape'
    BY <1>4, <2>1 DEF JobsInv, WorkersOwnTheirItems, QueueShape, EnterQueue, At
  <2>4. OneItemUnlessSlept'
    BY <1>4, <2>1 DEF JobsInv, OneItemUnlessSlept, FreshRuns, EnterQueue
  <2>5. FreshRuns'
    BY <1>4, <2>1 DEF JobsInv, FreshRuns, EnterQueue
  <2> QED BY <1>4, <2>2, <2>3, <2>4, <2>5, PartsThatStay DEF JobsInv, EnterQueue
<1>5. CASE CallerFails(r)
  <2>1. TypeOK'
    BY <1>5 DEF TypeOK, CallerFails, Queue!QTypeOK
  <2>2. FreshRuns' /\ RetriedEntryExists'
    <3>1. /\ entering' \subseteq entering /\ retrying' \subseteq retrying
          /\ UNCHANGED <<run, slept, dlq, data, cancelling, orphans>>
      BY <1>5 DEF CallerFails
    <3> QED BY <3>1 DEF JobsInv, FreshRuns, RetriedEntryExists
  <2> QED BY <1>5, <2>1, <2>2, PartsThatStay DEF JobsInv, CallerFails
<1>6. CASE CancelCheck(r)
  <2>1. TypeOK'
    BY <1>6 DEF TypeOK, CancelCheck, Queue!QTypeOK
  <2>2. FreshRuns'
    BY <1>6 DEF JobsInv, FreshRuns, CancelCheck
  <2> QED BY <1>6, <2>1, <2>2, PartsThatStay DEF JobsInv, CancelCheck
<1>7. CASE CancelWrite(r)
  <2>1. SetStatus(r, "cancelled") /\ "cancelled" \in Status /\ run[r].status # "unused"
    BY <1>7 DEF CancelWrite, Status, JobsInv, FreshRuns
  <2>2. TypeOK'
    BY <1>7, <2>1, StatusIsSet DEF TypeOK, CancelWrite, RunRows, Queue!QTypeOK
  <2>3. OneItemUnlessSlept' /\ AttemptsWithinLimit'
    BY <1>7, <2>1, StatusIsSet DEF JobsInv, OneItemUnlessSlept, AttemptsWithinLimit, CancelWrite
  <2>4. SnapshotsAreOld'
    BY <1>7, <2>1, StatusIsSet DEF JobsInv, WorkersOwnTheirItems, SnapshotsAreOld, Executing, CallPC, At,
       CancelWrite
  <2>5. FreshRuns'
    BY <1>7, <2>1, StatusIsSet DEF JobsInv, FreshRuns, CancelWrite
  <2> QED BY <1>7, <2>2, <2>3, <2>4, <2>5, PartsThatStay DEF JobsInv, CancelWrite
<1> QED BY <1>1, <1>2, <1>3, <1>4, <1>5, <1>6, <1>7 DEF ApiStep

(* The queue takes back the item of w, or only the receipt w had.           *)
QueueLetsGo(w) ==
    /\ phase' \in [Items -> Queue!Phase] /\ owner' \in [Items -> SUBSET Workers]
    /\ owner'[worker[w].item] = {} /\ phase'[worker[w].item] # "new"
    /\ \A i \in Items : i # worker[w].item => phase'[i] = phase[i] /\ owner'[i] = owner[i]

(* A worker that has done with its item, or loses it, keeps JobsInv.        *)
LEMMA WorkerRests ==
  ASSUME JobsInv, NEW w \in Workers, ~At(w, "idle"), QueueLetsGo(w),
         worker' = [worker EXCEPT ![w] = Idle], FreshRuns', OrphansGrow(w),
         UNCHANGED <<run, slept, dlq, data, apivars, sched>>
  PROVE  JobsInv'
<1> USE DEF apivars
<1>1. worker[w].run \in Runs /\ worker[w].item \in Items /\ data[worker[w].item] # NoRun
  BY JobConstants DEF JobsInv, WorkersOwnTheirItems
<1>2. TypeOK'
  BY <1>1 DEF JobsInv, TypeOK, QueueLetsGo, OrphansGrow, Queue!QTypeOK, Idle, PC
<1>3. \A v \in Workers : ~At(v, "idle")' =>
          v # w /\ worker'[v] = worker[v] /\ ~At(v, "idle") /\ worker[v].item # worker[w].item
  BY DEF JobsInv, TypeOK, WorkersOwnTheirItems, At, Idle
<1>4. WorkersOwnTheirItems'
  BY <1>3 DEF JobsInv, WorkersOwnTheirItems, QueueLetsGo
<1>5. QueueShape'
  BY <1>1 DEF JobsInv, QueueShape, QueueLetsGo
<1>6. SnapshotsAreOld'
  <2>1. \A v \in Workers : Executing(v)' => v # w /\ worker'[v] = worker[v] /\ Executing(v)
    BY <1>3 DEF Executing, CallPC, At
  <2> QED BY <2>1 DEF JobsInv, SnapshotsAreOld, At
<1>7. NappersSlept'
  BY <1>3, NappersStay DEF OrphansGrow, CallPC, At
<1> QED BY <1>2, <1>4, <1>5, <1>6, <1>7, PartsThatStay DEF JobsInv

(* A worker's step keeps JobsInv.                                           *)
LEMMA WorkersKeepJobsInv ==
  ASSUME JobsInv, NEW w \in Workers, WorkerStep(w) \/ StoreError(w)
  PROVE  JobsInv'
<1> USE JobConstants DEF qvars, apivars
<1> /\ TypeOK
    /\ {"loaded", "running", "calling", "napping", "success", "failure", "dead", "ack", "nack"}
          \subseteq PC
  BY DEF JobsInv, PC, CallPC
<1> DEFINE r == worker[w].run
<1>a. ~At(w, "idle") => /\ r \in Runs /\ data[worker[w].item] = r /\ worker[w].item \in Items
                        /\ run[r].status # "unused"
  BY DEF JobsInv, WorkersOwnTheirItems, FreshRuns
<1>b. Executing(w) => /\ ~At(w, "idle") /\ run[r].status \notin {"unused", "missing"}
                      /\ worker[w].attempt <= run[r].attempt
                      /\ slept[r] = {} => worker[w].attempt = run[r].attempt
                      /\ At(w, "dead") => worker[w].attempt >= MaxAttempts
  BY DEF JobsInv, SnapshotsAreOld, Executing, CallPC, At
<1>1. CASE LoadRun(w)
  <2>1. ~At(w, "idle")
    BY <1>1 DEF LoadRun, At
  <2>2. /\ worker' \in WorkerPlaces
        /\ \A v \in Workers : /\ worker'[v].item = worker[v].item
                              /\ worker'[v].run = worker[v].run
                              /\ v # w => worker'[v] = worker[v]
        /\ \/ worker'[w].pc \in {"ack", "nack"}
           \/ /\ worker'[w].pc = "loaded" /\ worker'[w].attempt = run[r].attempt
              /\ run[r].status \in {"pending", "sleeping"}
    <3>1. run[r].attempt \in Nat
      BY <1>a, <2>1 DEF TypeOK
    <3>2. ASSUME NEW pc \in {"ack", "nack"}, Goto(w, pc)
          PROVE  /\ worker' \in WorkerPlaces
                 /\ \A v \in Workers : /\ worker'[v].item = worker[v].item
                                       /\ worker'[v].run = worker[v].run
                                       /\ v # w => worker'[v] = worker[v]
                 /\ worker'[w].pc \in {"ack", "nack"}
      BY <3>2, WorkerGoesOn
    <3>3. \/ Goto(w, "ack") \/ Goto(w, "nack")
          \/ /\ worker' = [worker EXCEPT ![w].pc = "loaded", ![w].attempt = run[r].attempt]
             /\ run[r].status \in {"pending", "sleeping"}
      BY <1>1 DEF LoadRun
    <3> HIDE DEF r
    <3> QED BY <3>1, <3>2, <3>3, WorkerLoads
  <2>3. TypeOK'
    BY <1>1, <2>2 DEF TypeOK, WorkerPlaces, LoadRun, Queue!QTypeOK
  <2>4. WorkersOwnTheirItems'
    BY <1>1, <2>1, <2>2 DEF JobsInv, WorkersOwnTheirItems, LoadRun, At
  <2>5. SnapshotsAreOld'
    <3> SUFFICES ASSUME NEW v \in Workers, Executing(v)'
                 PROVE  /\ run[worker[v].run].status \notin {"unused", "missing"}
                        /\ worker'[v].attempt <= run[worker[v].run].attempt
                        /\ slept[worker[v].run] = {} =>
                               worker'[v].attempt = run[worker[v].run].attempt
                        /\ At(v, "dead")' => worker'[v].attempt >= MaxAttempts
      BY <1>1, <2>2 DEF SnapshotsAreOld, LoadRun
    <3>1. CASE v = w
      BY <1>a, <2>1, <2>2, <3>1 DEF Executing, CallPC, At, TypeOK
    <3>2. CASE v # w
      BY <2>2, <3>2 DEF JobsInv, SnapshotsAreOld, Executing, CallPC, At
    <3> QED BY <3>1, <3>2
  <2>6. NappersSlept'
    BY <1>1, <2>2, NappersStay DEF LoadRun, At
  <2> QED BY <1>1, <2>3, <2>4, <2>5, <2>6, PartsThatStay DEF JobsInv, LoadRun
(* A step to the next place of an execution, which leaves the rows alone.   *)
<1>2. ASSUME NEW pc \in {"calling", "success", "failure", "ack", "nack"}, Goto(w, pc),
             pc \in {"ack", "nack"} \/ Executing(w), ~At(w, "idle"),
             OrphansGrow(w), UNCHANGED <<run, slept, dlq, qvars, apivars, sched>>
      PROVE  JobsInv'
  <2>1. TypeOK'
    BY <1>2, <1>a, WorkerGoesOn DEF TypeOK, WorkerPlaces, OrphansGrow, Queue!QTypeOK
  <2>2. WorkersOwnTheirItems'
    BY <1>2, WorkerGoesOn DEF JobsInv, WorkersOwnTheirItems, At
  <2>3. SnapshotsAreOld'
    BY <1>2, WorkerGoesOn DEF JobsInv, SnapshotsAreOld, Executing, CallPC, At
  <2>4. FreshRuns'
    BY <1>2, <1>a DEF JobsInv, FreshRuns, OrphansGrow
  <2>5. NappersSlept'
    BY <1>2, WorkerGoesOn, NappersStay DEF OrphansGrow, CallPC, At
  <2> QED BY <1>2, <2>1, <2>2, <2>3, <2>4, <2>5, PartsThatStay DEF JobsInv
<1>3. CASE Invoke(w) \/ FunctionAnswers(w) \/ TransportError(w) \/ StoreError(w)
  <2>1. ~At(w, "idle")
    BY <1>3 DEF Invoke, FunctionAnswers, TransportError, StoreError, CallPC, At
  <2>2. OrphansGrow(w)
    BY <1>3, <1>a, <2>1, OrphanIsLeft
       DEF Invoke, FunctionAnswers, TransportError, StoreError
  <2> QED
    BY <1>2, <1>3, <2>1, <2>2 DEF Invoke, FunctionAnswers, TransportError, StoreError,
       Executing, CallPC, At
(* A step that writes the status of the run it executes.                    *)
<1>4. ASSUME NEW pc \in {"running", "success", "failure", "ack", "nack", "dead"}, Goto(w, pc),
             Executing(w),
             NEW st \in {"running", "succeeded", "failed", "sleeping"}, SetStatus(r, st),
             pc = "dead" => worker[w].attempt >= MaxAttempts,
             st = "sleeping" => slept[r] # {},
             UNCHANGED <<slept, dlq, qvars, apivars, sched, orphans>>
      PROVE  JobsInv'
  <2> st \in Status /\ pc \in PC /\ r \in Runs /\ run[r].status \notin {"unused", "missing"}
    BY <1>a, <1>b, <1>4 DEF Status
  <2> HIDE DEF r
  <2>1. TypeOK'
    BY <1>4, WorkerGoesOn, StatusIsSet DEF TypeOK, WorkerPlaces, RunRows, Queue!QTypeOK
  <2>2. WorkersOwnTheirItems'
    BY <1>4, WorkerGoesOn DEF JobsInv, WorkersOwnTheirItems, Executing, CallPC, At
  <2>3. OneItemUnlessSlept' /\ AttemptsWithinLimit'
    BY <1>4, StatusIsSet DEF JobsInv, OneItemUnlessSlept, AttemptsWithinLimit
  <2>4. FreshRuns'
    BY <1>4, StatusIsSet DEF JobsInv, FreshRuns
  <2>5. SnapshotsAreOld'
    BY <1>4, WorkerGoesOn, StatusIsSet DEF JobsInv, WorkersOwnTheirItems, SnapshotsAreOld, Executing, CallPC, At
  <2>6. NappersSlept'
    BY <1>4, WorkerGoesOn, NappersStay DEF At
  <2> QED BY <1>4, <2>1, <2>2, <2>3, <2>4, <2>5, <2>6, PartsThatStay DEF JobsInv
<1>5. CASE MarkRunning(w) \/ RecordSuccess(w)
  BY <1>4, <1>5 DEF MarkRunning, RecordSuccess, Answered, Executing, CallPC, At
(* Another attempt: the run goes back to pending, and nobody else had it.   *)
<1>6. ASSUME At(w, "failure"), worker[w].attempt < MaxAttempts,
             run' = [run EXCEPT ![r].attempt = @ + 1, ![r].status = "pending"],
             NEW pc \in {"ack", "nack"}, Goto(w, pc),
             UNCHANGED <<slept, dlq, qvars, apivars, sched, orphans>>
      PROVE  JobsInv'
  <2>1. /\ Executing(w) /\ ~At(w, "idle") /\ r \in Runs
        /\ run[r].attempt \in Nat /\ worker[w].attempt \in Nat
        /\ run[r].status \notin {"unused", "missing"}
    BY <1>6, <1>a, <1>b DEF Executing, CallPC, At, TypeOK
  <2> HIDE DEF r
  <2>2. /\ run' \in RunRows
        /\ \A q \in Runs : q # r => run'[q] = run[q]
        /\ run'[r].attempt = run[r].attempt + 1 /\ run'[r].status = "pending"
    BY <1>6, <2>1, AttemptIsCounted DEF r
  <2>3. TypeOK'
    BY <1>6, <2>2, WorkerGoesOn DEF TypeOK, WorkerPlaces, RunRows, Queue!QTypeOK
  <2>4. WorkersOwnTheirItems'
    BY <1>6, WorkerGoesOn DEF JobsInv, WorkersOwnTheirItems, At
  <2>5. OneItemUnlessSlept'
    BY <1>6, <2>2 DEF JobsInv, OneItemUnlessSlept
  <2>6. FreshRuns'
    BY <1>6, <2>1, <2>2 DEF JobsInv, FreshRuns
  <2>7. SnapshotsAreOld'
    <3>0. \A v \in Workers :
            /\ worker'[v].run = worker[v].run /\ worker'[v].attempt = worker[v].attempt
            /\ worker'[v].pc = IF v = w THEN pc ELSE worker[v].pc
      BY <1>6, WorkerGoesOn
    <3> SUFFICES ASSUME NEW v \in Workers, Executing(v)'
                 PROVE  /\ run'[worker[v].run].status \notin {"unused", "missing"}
                        /\ worker[v].attempt <= run'[worker[v].run].attempt
                        /\ slept[worker[v].run] = {} =>
                               worker[v].attempt = run'[worker[v].run].attempt
                        /\ At(v, "dead") => worker[v].attempt >= MaxAttempts
      BY <1>6, <3>0 DEF SnapshotsAreOld, Executing, CallPC, At
    <3>1. v # w /\ Executing(v) /\ ~At(v, "idle")
      BY <3>0 DEF Executing, CallPC, At
    <3>2. /\ run[worker[v].run].status \notin {"unused", "missing"}
          /\ worker[v].attempt <= run[worker[v].run].attempt
          /\ slept[worker[v].run] = {} => worker[v].attempt = run[worker[v].run].attempt
          /\ At(v, "dead") => worker[v].attempt >= MaxAttempts
          /\ worker[v].run \in Runs /\ worker[v].attempt \in Nat
      BY <3>1 DEF JobsInv, SnapshotsAreOld, WorkersOwnTheirItems, TypeOK
    <3>3. CASE worker[v].run = r
      <4>1. slept[r] # {}
        BY <2>1, <3>1, <3>3, WorkersShareOnlySleepers DEF r
      <4> QED BY <2>1, <2>2, <3>2, <3>3, <4>1
    <3>4. CASE worker[v].run # r
      BY <2>2, <3>2, <3>4
    <3> QED BY <3>3, <3>4
  <2>8. AttemptsWithinLimit'
    <3>1. slept[r] = {} => run'[r].attempt <= MaxAttempts
      BY <1>6, <1>b, <2>1, <2>2 DEF r
    <3> QED BY <1>6, <2>2, <3>1 DEF JobsInv, TypeOK, AttemptsWithinLimit
  <2>9. NappersSlept'
    BY <1>6, WorkerGoesOn, NappersStay DEF At
  <2> QED BY <1>6, <2>3, <2>4, <2>5, <2>6, <2>7, <2>8, <2>9, PartsThatStay DEF JobsInv
<1>7. CASE RecordFailure(w)
  <2>1. CASE worker[w].attempt < MaxAttempts
    BY <1>6, <1>7, <2>1 DEF RecordFailure, FailureAt, Answered, TypeOK
  <2>2. CASE worker[w].attempt >= MaxAttempts
    BY <1>4, <1>7, <2>2 DEF RecordFailure, FailureAt, Answered, Executing, CallPC, At, TypeOK
  <2> QED BY <2>1, <2>2 DEF TypeOK
<1>8. CASE MoveToDlq(w)
  <2>1. Executing(w) /\ ~At(w, "idle") /\ \E pc \in {"ack", "nack"} : Goto(w, pc)
    BY <1>8 DEF MoveToDlq, Answered, Executing, CallPC, At
  <2>2. r \in Runs /\ run[r].attempt \in Nat /\ run[r].attempt >= MaxAttempts
    <3>1. r \in Runs /\ run[r].attempt \in Nat /\ worker[w].attempt \in Nat
      BY <1>a, <2>1 DEF TypeOK
    <3>2. worker[w].attempt <= run[r].attempt /\ worker[w].attempt >= MaxAttempts
      BY <1>8, <1>b, <2>1 DEF MoveToDlq
    <3> QED BY <3>1, <3>2
  <2> HIDE DEF r
  <2>3. PICK k \in DlqIds : dlq' = [dlq EXCEPT ![k] = [state |-> "live", run |-> r,
                                                      attempt |-> run[r].attempt]]
    BY <1>8 DEF MoveToDlq, r
  <2>4. TypeOK'
    BY <1>8, <2>1, <2>2, <2>3, WorkerGoesOn DEF TypeOK, WorkerPlaces, MoveToDlq, Queue!QTypeOK
  <2>5. DlqAfterLastAttempt' /\ RetriedEntryExists'
    BY <1>8, <2>2, <2>3 DEF JobsInv, TypeOK, DlqAfterLastAttempt, RetriedEntryExists, MoveToDlq
  <2>6. WorkersOwnTheirItems' /\ SnapshotsAreOld'
    BY <1>8, <2>1, WorkerLeavesRun DEF MoveToDlq
  <2>7. NappersSlept'
    BY <1>8, <2>1, WorkerGoesOn, NappersStay DEF MoveToDlq, At
  <2> QED BY <1>8, <2>4, <2>5, <2>6, <2>7, PartsThatStay DEF JobsInv, MoveToDlq
<1>9. ASSUME NEW n \in Sleeps, FunctionSleeps(w, n)
      PROVE  JobsInv'
  <2>1. /\ Executing(w) /\ ~At(w, "idle") /\ r \in Runs /\ run[r].status # "unused"
        /\ UNCHANGED <<run, dlq, qvars, apivars, sched, orphans>>
    BY <1>9, <1>a DEF FunctionSleeps, Executing, CallPC, At
  <2>2. CASE UNCHANGED slept /\ Goto(w, "failure")
    <3>1. OrphansGrow(w)
      BY <2>1, OrphanIsLeft
    <3> QED BY <1>2, <2>1, <2>2, <3>1
  <2>3. ASSUME NEW pc \in {"napping", "failure"}, Goto(w, pc), InsertSleep(r, n)
        PROVE  JobsInv'
    <3> HIDE DEF r
    <3>1. TypeOK'
      BY <2>1, <2>3, WorkerGoesOn, SleepIsInserted DEF TypeOK, WorkerPlaces, Queue!QTypeOK
    <3>2. WorkersOwnTheirItems'
      BY <2>1, <2>3, WorkerGoesOn DEF JobsInv, WorkersOwnTheirItems, At
    <3>3. OneItemUnlessSlept' /\ AttemptsWithinLimit'
      BY <2>1, <2>3, SleepIsInserted DEF JobsInv, OneItemUnlessSlept, AttemptsWithinLimit
    <3>4. FreshRuns'
      BY <2>1, <2>3, SleepIsInserted DEF JobsInv, FreshRuns
    <3>5. SnapshotsAreOld'
      BY <2>1, <2>3, WorkerGoesOn, SleepIsInserted
         DEF JobsInv, WorkersOwnTheirItems, SnapshotsAreOld, Executing, CallPC, At
    <3>6. NappersSlept'
      <4>1. \A q \in Runs : slept[q] # {} => slept'[q] # {}
        BY <2>1, <2>3, SleepIsInserted
      <4>2. \A v \in Workers : At(v, "napping")' =>
               worker'[v].run = worker[v].run /\ (v = w \/ At(v, "napping"))
        BY <2>3, WorkerGoesOn DEF At
      <4>3. worker[w].run = r /\ slept'[r] # {}
        BY <2>1, <2>3, SleepIsInserted DEF r
      <4>4. \A v \in Workers : At(v, "napping") => worker[v].run \in Runs /\ slept[worker[v].run] # {}
        BY DEF JobsInv, WorkersOwnTheirItems, NappersSlept, At
      <4>5. \A q \in orphans["napping"] : q \in Runs /\ slept[q] # {}
        BY DEF JobsInv, TypeOK, NappersSlept, CallPC
      <4> QED BY <2>1, <4>1, <4>2, <4>3, <4>4, <4>5 DEF NappersSlept
    <3> QED BY <2>1, <3>1, <3>2, <3>3, <3>4, <3>5, <3>6, PartsThatStay DEF JobsInv
  <2> QED BY <1>9, <2>2, <2>3 DEF FunctionSleeps, Answered
<1>11. CASE FunctionNaps(w)
  <2>1. /\ Executing(w) /\ ~At(w, "idle") /\ r \in Runs /\ slept[r] # {}
        /\ UNCHANGED <<slept, dlq, qvars, apivars, sched, orphans>>
    BY <1>11, <1>a DEF FunctionNaps, Executing, CallPC, At, JobsInv, NappersSlept
  <2>2. CASE UNCHANGED run /\ Goto(w, "failure")
    <3>1. OrphansGrow(w)
      BY <2>1, OrphanIsLeft
    <3> QED BY <1>2, <2>1, <2>2, <3>1
  <2>3. CASE SetStatus(r, "sleeping") /\ Answered(w, "success", "failure")
    BY <1>4, <2>1, <2>3 DEF Answered
  <2> QED BY <1>11, <2>2, <2>3 DEF FunctionNaps
<1>10. CASE Settle(w)
  <2>1. /\ worker[w].pc \in {"ack", "nack"} /\ ~At(w, "idle") /\ worker' = [worker EXCEPT ![w] = Idle]
        /\ UNCHANGED <<run, slept, dlq, data, apivars, sched, orphans>>
    BY <1>10 DEF Settle, At
  <2>2. QueueLetsGo(w)
    <3> DEFINE i == worker[w].item
    <3>1. i \in Items /\ phase[i] = "taken" /\ Queue!QTypeOK
      BY <2>1 DEF JobsInv, WorkersOwnTheirItems, TypeOK
    <3>2. Queue!Done(w, i) \/ Queue!Return(w, i) \/ Queue!Forget(w, {i})
      BY <1>10 DEF Settle
    <3> HIDE DEF i
    <3>3. /\ phase' \in [Items -> Queue!Phase] /\ owner' \in [Items -> SUBSET Workers]
          /\ owner'[i] = {} /\ phase'[i] # "new"
          /\ \A j \in Items : j # i => phase'[j] = phase[j] /\ owner'[j] = owner[j]
      BY <3>1, <3>2 DEF Queue!Done, Queue!Return, Queue!Forget, Queue!QTypeOK, Queue!Phase
    <3> QED BY <3>3 DEF QueueLetsGo, i
  <2>3. FreshRuns'
    BY <2>1, PartsThatStay
  <2>4. OrphansGrow(w)
    BY <2>1, <1>a, OrphanIsLeft
  <2> QED BY <2>1, <2>2, <2>3, <2>4, WorkerRests
<1> QED BY <1>1, <1>3, <1>5, <1>7, <1>8, <1>9, <1>10, <1>11 DEF WorkerStep

(* A worker that is stopped keeps JobsInv.                                  *)
LEMMA StoppedWorkersKeepJobsInv ==
  ASSUME JobsInv, NEW w \in Workers, WorkerStops(w)
  PROVE  JobsInv'
<1>1. /\ ~At(w, "idle") /\ worker' = [worker EXCEPT ![w] = Idle]
      /\ UNCHANGED <<run, slept, dlq, data, apivars, sched>>
  BY DEF WorkerStops
<1>4. OrphansGrow(w) /\ worker[w].run \in Runs
  BY <1>1, OrphanIsLeft DEF WorkerStops, JobsInv, WorkersOwnTheirItems
<1>2. QueueLetsGo(w)
  BY DEF WorkerStops, QueueLetsGo, Queue!Forget, JobsInv, TypeOK, Queue!QTypeOK,
     WorkersOwnTheirItems
<1>3. FreshRuns'
  BY <1>1, <1>4 DEF JobsInv, WorkersOwnTheirItems, FreshRuns, OrphansGrow, apivars
<1> QED BY <1>1, <1>2, <1>3, <1>4, WorkerRests

(* An execution that nobody waits for keeps JobsInv.                        *)
LEMMA OrphansKeepJobsInv ==
  ASSUME JobsInv, NEW r \in Runs, OrphanStep(r)
  PROVE  JobsInv'
<1> USE DEF qvars, apivars
<1> TypeOK
  BY DEF JobsInv
<1>1. CASE OrphanEnds(r)
  <2>1. PICK p \in CallPC : orphans' = [orphans EXCEPT ![p] = @ \ {r}]
    BY <1>1 DEF OrphanEnds
  <2>2. /\ orphans' \in [CallPC -> SUBSET Runs]
        /\ \A pc \in CallPC : orphans'[pc] \subseteq orphans[pc]
        /\ UNCHANGED <<run, slept, dlq, qvars, apivars, worker, sched>>
    BY <1>1, <2>1 DEF OrphanEnds, TypeOK
  <2>3. TypeOK'
    BY <2>2 DEF TypeOK, Queue!QTypeOK
  <2>4. FreshRuns'
    BY <2>2 DEF JobsInv, FreshRuns
  <2>5. NappersSlept'
    BY <2>2, NappersStay DEF CallPC, At
  <2> QED BY <2>2, <2>3, <2>4, <2>5, PartsThatStay DEF JobsInv
<1>2. ASSUME NEW n \in Sleeps, OrphanSleeps(r, n)
      PROVE  JobsInv'
  <2>1. /\ run[r].status # "unused" /\ InsertSleep(r, n)
        /\ orphans' \in [CallPC -> SUBSET Runs]
        /\ \A pc \in CallPC : \A q \in orphans'[pc] : q \in orphans[pc] \/ q = r
        /\ UNCHANGED <<run, dlq, qvars, apivars, worker, sched>>
    BY <1>2 DEF OrphanSleeps, JobsInv, FreshRuns, TypeOK, CallPC
  <2>2. TypeOK'
    BY <2>1, SleepIsInserted DEF TypeOK, Queue!QTypeOK
  <2>3. OneItemUnlessSlept' /\ AttemptsWithinLimit'
    BY <2>1, SleepIsInserted DEF JobsInv, OneItemUnlessSlept, AttemptsWithinLimit
  <2>4. FreshRuns'
    BY <2>1, SleepIsInserted DEF JobsInv, FreshRuns
  <2>5. SnapshotsAreOld'
    BY <2>1, SleepIsInserted DEF JobsInv, WorkersOwnTheirItems, SnapshotsAreOld, Executing, CallPC, At
  <2>6. NappersSlept'
    <3>1. \A q \in Runs : slept[q] # {} \/ q = r => slept'[q] # {}
      BY <2>1, SleepIsInserted
    <3>2. \A v \in Workers : At(v, "napping") => worker[v].run \in Runs /\ slept[worker[v].run] # {}
      BY DEF JobsInv, WorkersOwnTheirItems, NappersSlept, At
    <3>3. \A q \in orphans["napping"] : q \in Runs /\ slept[q] # {}
      BY DEF JobsInv, TypeOK, NappersSlept, CallPC
    <3>4. \A q \in orphans'["napping"] : q \in orphans["napping"] \/ q = r
      BY <2>1 DEF CallPC
    <3> QED BY <2>1, <3>1, <3>2, <3>3, <3>4 DEF NappersSlept, At
  <2> QED BY <2>1, <2>2, <2>3, <2>4, <2>5, <2>6, PartsThatStay DEF JobsInv
<1>3. CASE OrphanNaps(r)
  <2>1. /\ SetStatus(r, "sleeping") /\ "sleeping" \in Status
        /\ run[r].status # "unused" /\ slept[r] # {}
        /\ orphans' \in [CallPC -> SUBSET Runs]
        /\ \A pc \in CallPC : orphans'[pc] \subseteq orphans[pc]
        /\ UNCHANGED <<slept, dlq, qvars, apivars, worker, sched>>
    BY <1>3 DEF OrphanNaps, JobsInv, FreshRuns, NappersSlept, TypeOK, CallPC, Status
  <2>2. TypeOK'
    BY <2>1, StatusIsSet DEF TypeOK, RunRows, Queue!QTypeOK
  <2>3. OneItemUnlessSlept' /\ AttemptsWithinLimit'
    BY <2>1, StatusIsSet DEF JobsInv, OneItemUnlessSlept, AttemptsWithinLimit
  <2>4. FreshRuns'
    BY <2>1, StatusIsSet DEF JobsInv, FreshRuns
  <2>5. SnapshotsAreOld'
    BY <2>1, StatusIsSet DEF JobsInv, WorkersOwnTheirItems, SnapshotsAreOld, Executing, CallPC, At
  <2>6. NappersSlept'
    BY <2>1, NappersStay DEF CallPC, At
  <2> QED BY <2>1, <2>2, <2>3, <2>4, <2>5, <2>6, PartsThatStay DEF JobsInv
<1> QED BY <1>1, <1>2, <1>3 DEF OrphanStep

(* A step of a sleep loop keeps JobsInv.                                    *)
LEMMA SleepLoopsKeepJobsInv ==
  ASSUME JobsInv, NEW s \in Schedulers, WakeStep(s) \/ PollFails(s)
  PROVE  JobsInv'
<1> USE JobConstants DEF qvars, apivars
<1> TypeOK
  BY DEF JobsInv
(* A run in the loop's hands has slept, so it is not an unused id.          *)
<1>a. \A r \in Runs : r \in sched[s].due \/ sched[s].woken = r =>
          slept[r] # {} /\ run[r].status # "unused"
  BY DEF JobsInv, OneItemUnlessSlept, FreshRuns
<1>1. CASE PollSleeping(s) \/ PollFails(s)
  <2>1. PICK D \in SUBSET Runs :
           /\ \A r \in D : run[r].status = "sleeping"
           /\ sched' = [sched EXCEPT ![s] = [due |-> D, woken |-> NoRun]]
    <3>1. \A D : [Resting EXCEPT !.due = D] = [due |-> D, woken |-> NoRun]
      BY DEF Resting
    <3>2. CASE PollSleeping(s)
      <4>1. PICK D \in SUBSET {r \in Runs : run[r].status = "sleeping"} :
               sched' = [sched EXCEPT ![s].due = D]
        BY <3>2 DEF PollSleeping
      <4>2. sched' = [sched EXCEPT ![s] = [Resting EXCEPT !.due = D]]
        BY <3>2, <4>1 DEF PollSleeping
      <4> QED BY <3>1, <4>1, <4>2
    <3>3. CASE PollFails(s)
      BY <3>3 DEF PollFails, Resting
    <3> QED BY <1>1, <3>2, <3>3
  <2>5. /\ sched' \in [Schedulers -> [due : SUBSET Runs, woken : Runs \cup {NoRun}]]
        /\ \A t \in Schedulers :
              /\ sched'[t].woken \in {sched[t].woken, NoRun}
              /\ \A r \in sched'[t].due : r \in sched[t].due \/ run[r].status = "sleeping"
    BY <2>1 DEF TypeOK
  <2>2. UNCHANGED <<run, slept, dlq, qvars, apivars, worker, orphans>>
    BY <1>1 DEF PollSleeping, PollFails
  <2>3. TypeOK'
    BY <2>5, <2>2 DEF TypeOK, Queue!QTypeOK
  <2>4. OneItemUnlessSlept'
    BY <2>5, <2>2 DEF JobsInv, OneItemUnlessSlept
  <2> QED BY <2>2, <2>3, <2>4, PartsThatStay DEF JobsInv
<1>2. ASSUME NEW r \in Runs, WakeRun(s, r)
      PROVE  JobsInv'
  <2>1. /\ SetStatus(r, "pending") /\ "pending" \in Status
        /\ slept[r] # {} /\ run[r].status # "unused"
        /\ sched' = [sched EXCEPT ![s] = [due |-> sched[s].due \ {r}, woken |-> r]]
        /\ UNCHANGED <<slept, dlq, qvars, apivars, worker, orphans>>
    BY <1>a, <1>2 DEF WakeRun, Status
  <2>2. TypeOK'
    BY <2>1, StatusIsSet DEF TypeOK, RunRows, Queue!QTypeOK
  <2>3. OneItemUnlessSlept' /\ AttemptsWithinLimit'
    BY <2>1, StatusIsSet DEF JobsInv, TypeOK, OneItemUnlessSlept, AttemptsWithinLimit
  <2>4. FreshRuns'
    BY <2>1, StatusIsSet DEF JobsInv, FreshRuns
  <2>5. SnapshotsAreOld'
    BY <2>1, StatusIsSet DEF JobsInv, WorkersOwnTheirItems, SnapshotsAreOld, Executing, CallPC, At
  <2> QED BY <2>1, <2>2, <2>3, <2>4, <2>5, PartsThatStay DEF JobsInv
<1>3. CASE WakeEnqueue(s)
  <2> DEFINE r == sched[s].woken
  <2>1. /\ r \in Runs /\ slept[r] # {} /\ run[r].status # "unused" /\ EnqueueRun(r)
        /\ UNCHANGED <<run, slept, dlq, apivars, worker, orphans>>
    BY <1>a, <1>3 DEF WakeEnqueue, TypeOK
  <2>9. /\ sched' \in [Schedulers -> [due : SUBSET Runs, woken : Runs \cup {NoRun}]]
        /\ \A t \in Schedulers : /\ sched'[t].due = sched[t].due
                                /\ sched'[t].woken \in {sched[t].woken, NoRun}
    BY <1>3 DEF WakeEnqueue, TypeOK
  <2> HIDE DEF r
  <2>2. PICK i \in Items :
            /\ phase[i] = "new" /\ data[i] = NoRun
            /\ phase' \in [Items -> Queue!Phase] /\ owner' = owner
            /\ data' \in [Items -> Runs \cup {NoRun}]
            /\ \A j \in Items : /\ phase'[j] = IF j = i THEN "waiting" ELSE phase[j]
                                /\ data'[j] = IF j = i THEN r ELSE data[j]
    BY <2>1, RunIsEnqueued DEF JobsInv
  <2>3. TypeOK'
    BY <2>1, <2>9, <2>2 DEF TypeOK, Queue!QTypeOK
  <2>4. WorkersOwnTheirItems' /\ QueueShape'
    <3>1. \A j \in Items : phase[j] # "new" => phase'[j] = phase[j] /\ data'[j] = data[j]
      BY <2>2
    <3>2. WorkersOwnTheirItems'
      BY <2>1, <2>2, <3>1 DEF JobsInv, WorkersOwnTheirItems, At
    <3>3. QueueShape'
      BY <2>1, <2>2 DEF JobsInv, QueueShape
    <3> QED BY <3>2, <3>3
  <2>5. OneItemUnlessSlept'
    BY <2>1, <2>9, <2>2 DEF JobsInv, OneItemUnlessSlept
  <2>6. FreshRuns'
    BY <2>1, <2>2 DEF JobsInv, FreshRuns
  <2> QED BY <2>1, <2>3, <2>4, <2>5, <2>6, PartsThatStay DEF JobsInv
<1> QED BY <1>1, <1>2, <1>3 DEF WakeStep

(* Every step keeps JobsInv.                                                *)
LEMMA JobsInvStep == JobsInv /\ [Next]_vars => JobsInv'
<1> SUFFICES ASSUME JobsInv, [Next]_vars PROVE JobsInv'
  OBVIOUS
<1> USE JobConstants DEF qvars, apivars
<1> TypeOK
  BY DEF JobsInv
<1>1. ASSUME NEW k \in DlqIds, DeleteDlq(k)
      PROVE  JobsInv'
  <2>1. TypeOK'
    BY <1>1 DEF TypeOK, DeleteDlq, Queue!QTypeOK
  <2>2. DlqAfterLastAttempt' /\ RetriedEntryExists'
    BY <1>1 DEF JobsInv, TypeOK, DlqAfterLastAttempt, RetriedEntryExists, DeleteDlq
  <2> QED BY <1>1, <2>1, <2>2, PartsThatStay DEF JobsInv, DeleteDlq
<1>2. ASSUME NEW w \in Workers, NEW i \in Items, Dequeue(w, i)
      PROVE  JobsInv'
  <2>1. /\ phase[i] = "waiting" /\ data[i] \in Runs
        /\ phase' \in [Items -> Queue!Phase] /\ owner' \in [Items -> SUBSET Workers]
        /\ phase'[i] = "taken" /\ owner'[i] = {w}
        /\ \A j \in Items : j # i => phase'[j] = phase[j] /\ owner'[j] = owner[j]
        /\ UNCHANGED <<run, slept, dlq, data, apivars, sched, orphans>>
    BY <1>2 DEF Dequeue, Queue!Take, Queue!TakeFor, Queue!QTypeOK, Queue!Phase,
       JobsInv, TypeOK, QueueShape
  <2>2. /\ worker' = [worker EXCEPT ![w] = [pc |-> "load", item |-> i, run |-> data[i],
                                            attempt |-> 0]]
        /\ At(w, "idle")
    BY <1>2 DEF Dequeue
  <2>3. TypeOK'
    BY <2>1, <2>2 DEF TypeOK, PC, Queue!QTypeOK
  <2>4. WorkersOwnTheirItems'
    BY <2>1, <2>2 DEF JobsInv, TypeOK, WorkersOwnTheirItems, At
  <2>5. QueueShape'
    BY <2>1 DEF JobsInv, QueueShape
  <2>6. SnapshotsAreOld'
    BY <2>1, <2>2 DEF JobsInv, TypeOK, SnapshotsAreOld, Executing, CallPC, At
  <2>7. NappersSlept'
    BY <2>1, <2>2, NappersStay DEF TypeOK, At
  <2> QED BY <2>1, <2>3, <2>4, <2>5, <2>6, <2>7, PartsThatStay DEF JobsInv
<1>3. CASE UNCHANGED vars
  <2>1. TypeOK'
    BY <1>3 DEF TypeOK, vars, Queue!QTypeOK
  <2> QED BY <1>3, <2>1, PartsThatStay DEF JobsInv, vars
<1> QED
  BY <1>1, <1>2, <1>3, CallersKeepJobsInv, OrphansKeepJobsInv, WorkersKeepJobsInv,
     StoppedWorkersKeepJobsInv, SleepLoopsKeepJobsInv DEF Next

-------------------------------------------------------------------------------

(* The rows of runs, steps and dead letters, the queue, the workers and the *)
(* sleep loops fit together in every reachable state.                       *)
THEOREM JobsAreConsistent == Spec => []JobsInv
  BY JobsInvInit, JobsInvStep, PTL DEF Spec

(* execute_run: a run that never slept is in the hands of one worker.       *)
THEOREM OneWorkerForAnAwakeRun == Spec => []OneWorkerUnlessSlept
<1>1. JobsInv => OneWorkerUnlessSlept
  BY WorkersShareOnlySleepers DEF OneWorkerUnlessSlept
<1> QED BY <1>1, JobsAreConsistent, PTL

(* move_to_dlq: an entry was made after the last attempt the job allows.    *)
THEOREM DeadLettersAreSpent == Spec => []DlqAfterLastAttempt
<1>1. JobsInv => DlqAfterLastAttempt
  BY DEF JobsInv
<1> QED BY <1>1, JobsAreConsistent, PTL
===============================================================================
