------------------------------- MODULE JobSteps --------------------------------
(***************************************************************************)
(* The replay of one run of crates/reactor-jobs: execute_run                *)
(* (src/worker/executor.rs) hands the outputs of completed steps to the     *)
(* function, ctx.step and ctx.sleep of packages/jobs-sdk (src/context.ts)   *)
(* skip what is in that cache and report the rest to the internal API       *)
(* (src/routes/internal.rs), which keeps it in _reactor_jobs.steps.          *)
(*                                                                          *)
(* An execution is the worker's call together with the function it calls:   *)
(* they part when the worker gives up.  The life of the run around it is    *)
(* JobRuns; here it is only what makes the function run again.              *)
(***************************************************************************)
EXTENDS Naturals, Sequences, FiniteSets

CONSTANTS
    Executions,    \* deliveries of the run, one after the other or overlapping
    Names,         \* of steps and sleeps
    Programs,      \* what a function may call, in order: sequences of names
    Sleeps,        \* the names that are sleeps
    Voids,         \* the steps whose function returns nothing, or null
    MaxAttempts,
    Faults         \* what may fail: see Fault

\* function: it is killed while it runs.
\* worker: it stops waiting, stops, or a statement of it fails.
Fault == {"function", "worker"}

ASSUME StepConstants ==
    /\ IsFiniteSet(Executions)
    /\ Programs \subseteq Seq(Names)
    /\ Sleeps \subseteq Names /\ Voids \subseteq Names \ Sleeps
    /\ MaxAttempts \in Nat \ {0}
    /\ Faults \subseteq Fault

Steps == Names \ Sleeps

\* The key of the replay cache in X-Reactor-Job-Context: the worker sends the
\* first (as the design does, docs/reactor-jobs.design.md:719), the SDK reads
\* the second.  A function reads one of them.
SentKey == "step_cache"
Keys == {SentKey, "stepCache"}

VARIABLES
    function,  \* the job's function: what it calls and the key it reads
    status,    \* of the run
    attempt,
    items,     \* deliveries of the run that wait in the queue
    step,      \* step[n]: the row of n in steps
    done,      \* done[n]: how often the function of step n returned
    ex,        \* ex[e]: where an execution is
    mishaps    \* see Mishaps

vars == <<function, status, attempt, items, step, done, ex, mishaps>>

\* No row; and rows by their status, with or without output_json.
NoStep == [status |-> "none", output |-> FALSE]

Places == {"unused", "loaded", "invoked", "calling", "found", "napping", "ran",
           "threw", "answered", "over"}

Program == function.program

\* n: the index in Program; cache: the steps in the replay cache;
\* waits: the worker still waits for the function.
Execution == [at : Places, n : 1 .. Len(Program) + 1, cache : SUBSET Steps,
              tried : Nat, ok : BOOLEAN, waits : BOOLEAN]

Unused == [at |-> "unused", n |-> 1, cache |-> {}, tried |-> 0, ok |-> FALSE, waits |-> TRUE]

\* overlap: two executions were in the function at once.
\* report: the answer to a PUT of a step got lost, or the PUT failed.
\* slept: a sleep was accepted.  caught: the function went on after an error.
Mishaps == {"overlap", "report", "slept", "caught"}

TypeOK ==
    /\ function \in [program : Programs, key : Keys]
    /\ status \in {"pending", "running", "sleeping", "succeeded", "failed"}
    /\ attempt \in Nat \ {0}
    /\ items \in Nat
    /\ step \in [Names -> [status : {"none", "running", "completed", "failed"}, output : BOOLEAN]]
    /\ \A n \in Names : step[n].output => step[n].status # "none" /\ n \notin Voids \cup Sleeps
    /\ done \in [Names -> Nat]
    /\ ex \in [Executions -> Execution]
    /\ mishaps \subseteq Mishaps

Init ==
    /\ function \in [program : Programs, key : Keys]
    /\ status = "pending" /\ attempt = 1
    /\ items = 1
    /\ step = [n \in Names |-> NoStep]
    /\ done = [n \in Names |-> 0]
    /\ ex = [e \in Executions |-> Unused]
    /\ mishaps = {}

-----------------------------------------------------------------------------
At(e, at) == ex[e].at = at

Goto(e, at) == ex' = [ex EXCEPT ![e].at = at]

InFunction(e) == ex[e].at \in {"calling", "found", "napping", "ran", "threw"}

Name(e) == Program[ex[e].n]

(* An item that was dequeued is out of the queue for good unless it is      *)
(* nacked: dequeue takes only items without a receipt.  The worker nacks    *)
(* where execute_run returns an error; the nack may fail, and a worker that *)
(* stops does not nack.                                                     *)
NackOrLose == "worker" \in Faults /\ items' \in {items, items + 1}

(* A statement is done and the item is acked, or the answer to it is lost   *)
(* and execute_run returns an error.                                        *)
DoneOrUnanswered == UNCHANGED items \/ NackOrLose

(* execute_run, up to the POST                                              *)

\* A delivery of a run that is not pending or sleeping is acked.
LoadRun(e) ==
    /\ At(e, "unused") /\ items > 0
    /\ items' = items - 1
    /\ ex' = [ex EXCEPT ![e].at = IF status \in {"pending", "sleeping"} THEN "loaded" ELSE "over",
                        ![e].tried = attempt]
    /\ UNCHANGED <<function, status, attempt, step, done, mishaps>>

MarkRunning(e) ==
    /\ At(e, "loaded")
    /\ status' = "running"
    /\ Goto(e, "invoked")
    /\ UNCHANGED <<function, attempt, items, step, done, mishaps>>

\* Mutant: the outputs are not looked at, only the names.
CachedByName == {n \in Names : step[n].status # "none"}

\* Mutant: nothing is replayed.
CachedNothing == {n \in Names : step[n].status = "failed" /\ step[n].output}

\* list_steps: the completed ones that have an output.
Cached == {n \in Names : step[n].status = "completed" /\ step[n].output}

Invoke(e) ==
    /\ At(e, "invoked")
    /\ ex' = [ex EXCEPT ![e].at = "calling", ![e].cache = Cached]
    /\ mishaps' = mishaps \cup {m \in {"overlap"} : \E f \in Executions : InFunction(f)}
    /\ UNCHANGED <<function, status, attempt, items, step, done>>

-----------------------------------------------------------------------------
(* The function: ctx.step and ctx.sleep                                     *)

Returns(e, ok) == ex' = [ex EXCEPT ![e].at = "answered", ![e].ok = ok]

\* What ctx.step throws ends the function with a 500, or the function catches
\* it and goes on.  It lets through what ctx.sleep throws.
StepError(e) ==
    \/ Returns(e, FALSE) /\ UNCHANGED mishaps
    \/ /\ ex' = [ex EXCEPT ![e].at = "calling", ![e].n = @ + 1]
       /\ mishaps' = mishaps \cup {"caught"}

\* The function is at a ctx.step or a ctx.sleep.
Calls(e) == At(e, "calling") /\ ex[e].n <= Len(Program)

\* `name in header.stepCache` throws when the header has no such key.
Breaks(e) ==
    /\ Calls(e) /\ function.key # SentKey
    /\ Returns(e, FALSE)
    /\ UNCHANGED <<function, status, attempt, items, step, done, mishaps>>

Skip(e) ==
    /\ Calls(e) /\ function.key = SentKey
    /\ Name(e) \in ex[e].cache
    /\ ex' = [ex EXCEPT ![e].n = @ + 1]
    /\ UNCHANGED <<function, status, attempt, items, step, done, mishaps>>

\* ctx.step on a miss: create_step looks for the row (or fails) ...
FindStep(e) ==
    /\ Calls(e) /\ function.key = SentKey
    /\ Name(e) \in Steps \ ex[e].cache
    /\ \/ step[Name(e)] # NoStep /\ Goto(e, "ran") /\ UNCHANGED mishaps
       \/ step[Name(e)] = NoStep /\ Goto(e, "found") /\ UNCHANGED mishaps
       \/ StepError(e)
    /\ UNCHANGED <<function, status, attempt, items, step, done>>

\* ... and inserts one.  UNIQUE (run_id, name) refuses a second: a 500, and
\* the StepError is thrown before the try.
InsertStep(e) ==
    /\ At(e, "found")
    /\ IF step[Name(e)] = NoStep
       THEN /\ step' = [step EXCEPT ![Name(e)].status = "running"]
            /\ Goto(e, "ran")
            /\ UNCHANGED mishaps
       ELSE StepError(e) /\ UNCHANGED step
    /\ UNCHANGED <<function, status, attempt, items, done>>

\* The step's function returns and its output is put: a void output is not in
\* the JSON, and COALESCE keeps the one of the row.
Complete(n) == [status |-> "completed", output |-> step[n].output \/ n \notin Voids]

RunStep(e) ==
    LET n == Name(e) IN
    /\ At(e, "ran")
    /\ done' = [done EXCEPT ![n] = @ + 1]
    /\ \/ /\ step' = [step EXCEPT ![n] = Complete(n)]
          /\ ex' = [ex EXCEPT ![e].at = "calling", ![e].n = @ + 1, ![e].cache = @ \cup {n}]
          /\ UNCHANGED mishaps
       \* the PUT fails, before or after it was done
       \/ /\ step' \in {step, [step EXCEPT ![n] = Complete(n)]}
          /\ Goto(e, "threw")
          /\ mishaps' = mishaps \cup {"report"}
    /\ UNCHANGED <<function, status, attempt, items>>

StepThrows(e) ==
    /\ At(e, "ran")
    /\ Goto(e, "threw")
    /\ UNCHANGED <<function, status, attempt, items, step, done, mishaps>>

\* The catch: whatever was thrown, the row is set to failed; that PUT may
\* itself fail.
ReportFailure(e) ==
    /\ At(e, "threw")
    /\ step' \in {step, [step EXCEPT ![Name(e)].status = "failed"]}
    /\ StepError(e)
    /\ UNCHANGED <<function, status, attempt, items, done>>

\* ctx.sleep: insert the row; a second insert is refused and the function
\* ends with a 500 ...
Sleep(e) ==
    LET n == Name(e) IN
    /\ Calls(e) /\ function.key = SentKey
    /\ n \in Sleeps \ ex[e].cache
    /\ IF step[n] = NoStep
       THEN step' = [step EXCEPT ![n].status = "running"] /\ Goto(e, "napping")
       ELSE Returns(e, FALSE) /\ UNCHANGED step
    /\ UNCHANGED <<function, status, attempt, items, done, mishaps>>

\* ... then set the run sleeping, whatever it is by now, and end with a 200.
SetSleeping(e) ==
    /\ At(e, "napping")
    /\ status' = "sleeping"
    /\ mishaps' = mishaps \cup {"slept"}
    /\ Returns(e, TRUE)
    /\ UNCHANGED <<function, attempt, items, step, done>>

FunctionEnds(e) ==
    /\ At(e, "calling") /\ ex[e].n > Len(Program)
    /\ Returns(e, TRUE)
    /\ UNCHANGED <<function, status, attempt, items, step, done, mishaps>>

\* The function is killed: reactor-functions answers with an error.
FunctionDies(e) ==
    /\ InFunction(e) /\ "function" \in Faults
    /\ Returns(e, FALSE)
    /\ UNCHANGED <<function, status, attempt, items, step, done, mishaps>>

-----------------------------------------------------------------------------
(* execute_run, from the answer on                                          *)

\* A timeout, a lost connection or the end of the worker: the function goes on.
GiveUp(e) ==
    /\ InFunction(e) /\ ex[e].waits
    /\ ex' = [ex EXCEPT ![e].waits = FALSE]
    /\ NackOrLose
    /\ UNCHANGED <<function, status, attempt, step, done, mishaps>>

RecordSuccess(e) ==
    /\ At(e, "answered") /\ ex[e].waits /\ ex[e].ok
    /\ status' = "succeeded"
    /\ Goto(e, "over")
    /\ DoneOrUnanswered
    /\ UNCHANGED <<function, attempt, step, done, mishaps>>

\* Attempts are compared as they were when the run was loaded.  After the last
\* one move_to_dlq follows, whose error is nacked too.
RecordFailure(e) ==
    /\ At(e, "answered") /\ ex[e].waits /\ ~ex[e].ok
    /\ IF ex[e].tried < MaxAttempts
       THEN attempt' = attempt + 1 /\ status' = "pending"
       ELSE status' = "failed" /\ UNCHANGED attempt
    /\ Goto(e, "over")
    /\ DoneOrUnanswered
    /\ UNCHANGED <<function, step, done, mishaps>>

\* Nobody waits for the answer.
Forgotten(e) ==
    /\ At(e, "answered") /\ ~ex[e].waits
    /\ Goto(e, "over")
    /\ UNCHANGED <<function, status, attempt, items, step, done, mishaps>>

\* A statement of execute_run fails, or the worker stops before it.
WorkerFails(e) ==
    /\ ex[e].at \in {"loaded", "invoked"} \/ (At(e, "answered") /\ ex[e].waits)
    /\ Goto(e, "over")
    /\ NackOrLose
    /\ UNCHANGED <<function, status, attempt, step, done, mishaps>>

\* poll_sleeping_runs: pending, then the enqueue, which may fail.
Wake ==
    /\ status = "sleeping"
    /\ status' = "pending"
    /\ items' \in {items, items + 1}
    /\ UNCHANGED <<function, attempt, step, done, ex, mishaps>>

Next ==
    \/ Wake
    \/ \E e \in Executions :
         \/ LoadRun(e) \/ MarkRunning(e) \/ Invoke(e)
         \/ Breaks(e) \/ Skip(e) \/ FindStep(e) \/ InsertStep(e)
         \/ RunStep(e) \/ StepThrows(e) \/ ReportFailure(e)
         \/ Sleep(e) \/ SetSleeping(e) \/ FunctionEnds(e) \/ FunctionDies(e)
         \/ GiveUp(e) \/ RecordSuccess(e) \/ RecordFailure(e) \/ Forgotten(e)
         \/ WorkerFails(e)

Spec == Init /\ [][Next]_vars

-----------------------------------------------------------------------------
\* "Checkpoint execution via steps": through any number of attempts, crashes,
\* time-outs and redeliveries a step whose function returned does not run
\* again, unless its completion was not reported, two executions overlapped
\* or it returns nothing.
StepsRunOnce ==
    \A n \in Steps : done[n] > 1 => n \in Voids \/ mishaps \cap {"report", "overlap"} # {}

\* A completed step does not turn failed again, whatever an execution that the
\* worker gave up on reports late, under the same exceptions.
CompletedStays ==
    [][\A n \in Steps :
        step[n].status = "completed" /\ step'[n].status # "completed"
            => n \in Voids \/ mishaps \cap {"report", "overlap"} # {}]_vars

\* A step is skipped only if its function returned in some execution: neither
\* a started nor a failed step is taken for a completed one.
SkippedOnlyIfDone ==
    /\ \A e \in Executions : \A n \in ex[e].cache : done[n] > 0
    /\ \A n \in Names : step[n].status = "completed" => done[n] > 0

\* A run that succeeded has done all its steps, or it slept (the answer of a
\* function that went to sleep is a success too), or it caught an error.
SucceededDidAll ==
    status = "succeeded" =>
        \/ mishaps \cap {"slept", "caught"} # {}
        \/ \A i \in DOMAIN Program : Program[i] \in Steps => done[Program[i]] > 0

\* Every attempt but the first was counted by an execution that is over, so a
\* run is tried no oftener than it was delivered.
Over == {e \in Executions : ex[e].at = "over"}

AttemptsAreCounted == attempt <= 1 + Cardinality(Over)

\* Where an execution is in its program: at a step it does not skip, and past
\* a step only if that was done or its error caught; an answer of 200 means the
\* end of the program or a sleep.
Follows(e) ==
    /\ ex[e].at \in {"found", "ran", "threw"} =>
           ex[e].n <= Len(Program) /\ Name(e) \in Steps \ ex[e].cache
    /\ \A i \in 1 .. ex[e].n - 1 :
           Program[i] \in Steps => "caught" \in mishaps \/ done[Program[i]] > 0
    /\ ex[e].ok => mishaps \cap {"slept", "caught"} # {} \/ ex[e].n > Len(Program)

ProgramsFollowed == \A e \in Executions : Follows(e)

\* Without those exceptions one execution is in the function at a time, and a
\* step that was done is a completed row with an output and in its cache.
Checkpointed ==
    mishaps \cap {"report", "overlap"} = {} =>
        /\ \A e, f \in Executions : InFunction(e) /\ InFunction(f) => e = f
        /\ \A n \in Steps \ Voids : done[n] > 0 =>
               /\ step[n] = [status |-> "completed", output |-> TRUE]
               /\ \A e \in Executions : InFunction(e) => n \in ex[e].cache

\* The rows and the executions fit, and a cached step and the steps of a run
\* that succeeded were done.
StepsInv ==
    /\ TypeOK
    /\ AttemptsAreCounted
    /\ SkippedOnlyIfDone /\ SucceededDidAll
    /\ ProgramsFollowed
    /\ Checkpointed /\ StepsRunOnce

\* "re-executing a completed step returns cached value" (the design's
\* checkpointing rules): a completed step's function does not run again.
CompletedIsNotRunAgain ==
    [][\A n \in Steps : step[n].status = "completed" => done'[n] = done[n]]_vars

\* "execution resumes after the sleep() call" (the design's durable sleep):
\* while nothing fails, an execution that comes to a ctx.sleep goes to sleep or
\* goes on; it does not end with an error there.
SleepIsPassed ==
    \A e \in Executions :
        /\ At(e, "answered") /\ ex[e].n <= Len(Program) /\ Name(e) \in Sleeps
        /\ function.key = SentKey
        => ex[e].ok
=============================================================================
