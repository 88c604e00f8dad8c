---------------------------- MODULE JobStepsProofs -----------------------------
(***************************************************************************)
(* Proofs about JobSteps for every program, every number of deliveries and  *)
(* any overlap of them: StepsInv is inductive, so what the replay promises  *)
(* holds of every run.                                                      *)
(***************************************************************************)
EXTENDS JobSteps, TLAPS, FiniteSetTheorems, SequenceTheorems

\* What an execution is allowed to change: itself, and nothing back.
Alone(e) ==
    /\ function' = function /\ mishaps \subseteq mishaps'
    /\ \A f \in Executions \ {e} : ex'[f] = ex[f]
    /\ \A n \in Names : done'[n] = done[n] \/ (n = Name(e) /\ At(e, "ran") /\ done'[n] = done[n] + 1)

(* The names of a program and where an execution stands in it.              *)
LEMMA InTheProgram ==
  ASSUME TypeOK, NEW e \in Executions
  PROVE  /\ Len(Program) \in Nat /\ DOMAIN Program = 1 .. Len(Program)
         /\ ex[e].n \in 1 .. Len(Program) + 1
         /\ \A i \in 1 .. Len(Program) : Program[i] \in Names
<1>1. Program \in Seq(Names)
  BY StepConstants DEF TypeOK, Program
<1> QED BY <1>1, LenProperties, ElementOfSeq DEF TypeOK, Execution

(* An execution that changes only where it is.                              *)
LEMMA Gone ==
  ASSUME TypeOK, NEW e \in Executions, NEW at \in Places, Goto(e, at), function' = function
  PROVE  /\ ex' \in [Executions -> Execution']
         /\ \A f \in Executions \ {e} : ex'[f] = ex[f]
         /\ ex'[e].at = at /\ ex'[e].n = ex[e].n /\ ex'[e].cache = ex[e].cache
         /\ ex'[e].ok = ex[e].ok /\ ex'[e].waits = ex[e].waits
<1>1. Execution' = Execution
  BY DEF Execution, Program
<1>2. [ex[e] EXCEPT !.at = at] \in Execution
  BY DEF TypeOK, Execution
<1> QED BY <1>1, <1>2 DEF TypeOK, Goto, Execution

(* An execution that answers.                                               *)
LEMMA Answered ==
  ASSUME TypeOK, NEW e \in Executions, NEW ok \in BOOLEAN, Returns(e, ok), function' = function
  PROVE  /\ ex' \in [Executions -> Execution']
         /\ \A f \in Executions \ {e} : ex'[f] = ex[f]
         /\ ex'[e].at = "answered" /\ ex'[e].n = ex[e].n /\ ex'[e].cache = ex[e].cache
         /\ ex'[e].ok = ok /\ ex'[e].waits = ex[e].waits
<1>1. Execution' = Execution
  BY DEF Execution, Program
<1>2. [ex[e] EXCEPT !.at = "answered", !.ok = ok] \in Execution
  BY DEF TypeOK, Execution, Places
<1>3. ex' = [ex EXCEPT ![e] = [ex[e] EXCEPT !.at = "answered", !.ok = ok]]
  BY DEF Returns, TypeOK
<1> QED BY <1>1, <1>2, <1>3 DEF TypeOK, Execution

(* An execution that goes on to its next call, with n cached on the way.    *)
LEMMA Advanced ==
  ASSUME TypeOK, NEW e \in Executions, ex[e].n <= Len(Program), NEW c \in SUBSET Steps,
         ex' = [ex EXCEPT ![e] = [ex[e] EXCEPT !.at = "calling", !.n = ex[e].n + 1, !.cache = c]],
         function' = function
  PROVE  /\ ex' \in [Executions -> Execution']
         /\ \A f \in Executions \ {e} : ex'[f] = ex[f]
         /\ ex'[e].at = "calling" /\ ex'[e].n = ex[e].n + 1 /\ ex'[e].cache = c
         /\ ex'[e].ok = ex[e].ok /\ ex'[e].waits = ex[e].waits
<1>1. Execution' = Execution
  BY DEF Execution, Program
<1>2. [ex[e] EXCEPT !.at = "calling", !.n = ex[e].n + 1, !.cache = c] \in Execution
  <2>1. ex[e] \in Execution /\ ex[e].n + 1 \in 1 .. Len(Program) + 1
    BY InTheProgram DEF TypeOK
  <2> QED BY <2>1 DEF Execution, Places
<1> QED BY <1>1, <1>2 DEF TypeOK, Execution

(* What ctx.step throws ends the function or is caught.                     *)
LEMMA Thrown ==
  ASSUME TypeOK, NEW e \in Executions, ex[e].n <= Len(Program), StepError(e), function' = function
  PROVE  /\ ex' \in [Executions -> Execution']
         /\ \A f \in Executions \ {e} : ex'[f] = ex[f]
         /\ mishaps \subseteq mishaps' /\ mishaps' \subseteq Mishaps
         /\ ex'[e].cache = ex[e].cache
         /\ \/ ex'[e].at = "answered" /\ ex'[e].n = ex[e].n /\ ~ex'[e].ok
            \/ /\ ex'[e].at = "calling" /\ ex'[e].n = ex[e].n + 1 /\ ex'[e].ok = ex[e].ok
               /\ "caught" \in mishaps'
<1>1. CASE Returns(e, FALSE) /\ UNCHANGED mishaps
  BY <1>1, Answered DEF TypeOK
<1>2. CASE /\ ex' = [ex EXCEPT ![e].at = "calling", ![e].n = @ + 1]
           /\ mishaps' = mishaps \cup {"caught"}
  <2>1. ex' = [ex EXCEPT ![e] = [ex[e] EXCEPT !.at = "calling", !.n = ex[e].n + 1, !.cache = ex[e].cache]]
    BY <1>2 DEF TypeOK, Execution
  <2>2. ex[e].cache \in SUBSET Steps
    BY DEF TypeOK, Execution
  <2> QED BY <1>2, <2>1, <2>2, Advanced DEF TypeOK, Mishaps
<1> QED BY <1>1, <1>2 DEF StepError

(* Every call an execution skips or completes.                              *)
LEMMA Calling ==
  ASSUME TypeOK, NEW e \in Executions
  PROVE  /\ Skip(e) =>
              /\ ex[e].n <= Len(Program) /\ Name(e) \in ex[e].cache /\ ex[e].at = "calling"
              /\ ex' = [ex EXCEPT ![e] = [ex[e] EXCEPT !.at = "calling", !.n = ex[e].n + 1,
                                                       !.cache = ex[e].cache]]
         /\ RunStep(e) => 
              \/ ex' = [ex EXCEPT ![e] = [ex[e] EXCEPT !.at = "calling", !.n = ex[e].n + 1,
                                                       !.cache = ex[e].cache \cup {Name(e)}]]
              \/ Goto(e, "threw") /\ mishaps' = mishaps \cup {"report"}
  BY DEF TypeOK, Execution, Skip, RunStep, Calls, At

(* What the steps of one execution have in common, for the parts of         *)
(* StepsInv that no exception weakens.                                      *)
LEMMA ExecutionsFollow ==
  ASSUME StepsInv, TypeOK', NEW e \in Executions, Alone(e), Follows(e)',
         \A n \in ex'[e].cache : done'[n] > 0,
         \A n \in Names : step'[n].status = "completed" =>
                             step[n].status = "completed" \/ done'[n] > 0,
         status' = "succeeded" => status = "succeeded" \/ ex[e].ok,
         At(e, "over") => ex'[e].at = "over",
         \/ attempt' = attempt
         \/ attempt' = attempt + 1 /\ ~At(e, "over") /\ ex'[e].at = "over"
  PROVE  /\ AttemptsAreCounted' /\ SkippedOnlyIfDone' /\ SucceededDidAll'
         /\ ProgramsFollowed'
<1> TypeOK
  BY DEF StepsInv
<1>1. /\ \A n \in Names : /\ done[n] \in Nat /\ done'[n] \in Nat
                          /\ done[n] > 0 => done'[n] > 0
      /\ Program' = Program
      /\ \A f \in Executions : ex[f].cache \subseteq Steps
  <2>1. \A n \in Names : done[n] \in Nat /\ done'[n] \in Nat
    BY DEF TypeOK
  <2>2. \A n \in Names : done[n] > 0 => done'[n] > 0
    BY <2>1 DEF Alone
  <2>3. \A f \in Executions : ex[f] \in Execution
    BY DEF TypeOK
  <2> QED BY <2>1, <2>2, <2>3 DEF Alone, Program, Execution
<1>2. /\ Len(Program) \in Nat /\ DOMAIN Program = 1 .. Len(Program)
      /\ \A f \in Executions : ex[f].n \in 1 .. Len(Program) + 1
      /\ \A i \in 1 .. Len(Program) : Program[i] \in Names
  BY InTheProgram
<1>3. AttemptsAreCounted'
  <2>1. /\ IsFiniteSet(Over) /\ IsFiniteSet(Over')
        /\ Cardinality(Over) \in Nat /\ Cardinality(Over') \in Nat
    BY StepConstants, FS_Subset, FS_CardinalityType DEF Over
  <2>2. Over \subseteq Over'
    BY DEF Over, At, Alone
  <2>3. CASE attempt' = attempt
    <3>1. Cardinality(Over) <= Cardinality(Over')
      BY <2>1, <2>2, FS_Subset
    <3> QED BY <2>1, <2>3, <3>1 DEF StepsInv, AttemptsAreCounted, TypeOK
  <2>4. CASE attempt' = attempt + 1 /\ ~At(e, "over") /\ ex'[e].at = "over"
    <3>1. e \notin Over /\ Over' = Over \cup {e}
      BY <2>2, <2>4 DEF Over, At, Alone
    <3>2. Cardinality(Over') = Cardinality(Over) + 1
      BY <2>1, <3>1, FS_AddElement
    <3> QED BY <2>1, <2>4, <3>2 DEF StepsInv, AttemptsAreCounted, TypeOK
  <2> QED BY <2>3, <2>4
<1>4. SkippedOnlyIfDone'
  <2>1. ASSUME NEW f \in Executions, NEW n \in ex'[f].cache PROVE done'[n] > 0
    <3>1. CASE f # e
      <4>1. n \in ex[f].cache /\ n \in Names
        BY <1>1, <2>1, <3>1 DEF Alone, Steps
      <4> QED BY <1>1, <4>1 DEF StepsInv, SkippedOnlyIfDone
    <3> QED BY <2>1, <3>1
  <2>2. ASSUME NEW n \in Names, step'[n].status = "completed" PROVE done'[n] > 0
    BY <1>1, <2>2 DEF StepsInv, SkippedOnlyIfDone
  <2> QED BY <2>1, <2>2 DEF SkippedOnlyIfDone
<1>5. SucceededDidAll'
  <2>1. SUFFICES ASSUME status' = "succeeded", mishaps' \cap {"slept", "caught"} = {},
                        NEW i \in 1 .. Len(Program), Program[i] \in Steps
                 PROVE  done'[Program[i]] > 0
    BY <1>1, <1>2 DEF SucceededDidAll
  <2>2. mishaps \cap {"slept", "caught"} = {}
    BY <2>1 DEF Alone
  <2>3. CASE status = "succeeded"
    BY <1>1, <1>2, <2>1, <2>2, <2>3 DEF StepsInv, SucceededDidAll, Steps
  <2>4. CASE ex[e].ok
    <3>1. /\ ex[e].n > Len(Program)
          /\ \A k \in 1 .. ex[e].n - 1 :
                Program[k] \in Steps => "caught" \in mishaps \/ done[Program[k]] > 0
      BY <2>2, <2>4 DEF StepsInv, ProgramsFollowed, Follows
    <3>2. i \in 1 .. ex[e].n - 1
      <4>1. ex[e].n \in 1 .. Len(Program) + 1
        BY <1>2
      <4> QED BY <1>2, <2>1, <3>1, <4>1
    <3> QED BY <1>1, <1>2, <2>1, <2>2, <3>1, <3>2
  <2> QED BY <2>1, <2>3, <2>4
<1>6. ProgramsFollowed'
  <2>1. ASSUME NEW f \in Executions, f # e PROVE Follows(f)'
    <3>1. Follows(f) /\ ex'[f] = ex[f] /\ mishaps \subseteq mishaps'
      BY <2>1 DEF StepsInv, ProgramsFollowed, Alone
    <3>2. \A i \in 1 .. ex[f].n - 1 : i \in 1 .. Len(Program)
      BY <1>2
    <3>3. \A i \in 1 .. ex[f].n - 1 : done[Program[i]] > 0 => done'[Program[i]] > 0
      BY <1>1, <1>2, <3>2
    <3> QED BY <1>1, <3>1, <3>3 DEF Follows, Name
  <2> QED BY <2>1 DEF ProgramsFollowed
<1> QED BY <1>3, <1>4, <1>5, <1>6


(* The same for the parts that the exceptions weaken: an execution enters   *)
(* the function with the outputs there are, and what it writes is the row   *)
(* of the step it is at, which was not in its cache.                        *)
LEMMA CheckpointsStay ==
  ASSUME StepsInv, NEW e \in Executions, Alone(e), done' \in [Names -> Nat],
         InFunction(e)' =>
            \/ InFunction(e) /\ ex[e].cache \subseteq ex'[e].cache
            \/ /\ (\E f \in Executions : InFunction(f)) => "overlap" \in mishaps'
               /\ Cached \subseteq ex'[e].cache
               /\ UNCHANGED <<step, done>>,
         \A n \in Steps \ Voids :
            \/ step'[n] = step[n] /\ done'[n] = done[n]
            \/ n = Name(e) /\ ex[e].at \in {"found", "threw"} /\ done'[n] = done[n]
            \/ /\ n = Name(e) /\ ex[e].at = "ran" /\ done'[n] = done[n] + 1
               /\ \/ "report" \in mishaps'
                  \/ /\ step'[n] = [status |-> "completed", output |-> TRUE]
                     /\ n \in ex'[e].cache
  PROVE  Checkpointed' /\ StepsRunOnce'
<1> SUFFICES ASSUME mishaps' \cap {"report", "overlap"} = {}
             PROVE  /\ \A f, g \in Executions : InFunction(f)' /\ InFunction(g)' => f = g
                    /\ \A n \in Steps \ Voids :
                          /\ done'[n] <= 1
                          /\ done'[n] > 0 =>
                                /\ step'[n] = [status |-> "completed", output |-> TRUE]
                                /\ \A f \in Executions : InFunction(f)' => n \in ex'[f].cache
  <2>1. \A n \in Names : done'[n] \in Nat
    OBVIOUS
  <2> QED BY <2>1 DEF Checkpointed, StepsRunOnce, Steps
<1>1. /\ mishaps \cap {"report", "overlap"} = {}
      /\ \A n \in Names : done[n] \in Nat
      /\ \A f \in Executions \ {e} : ex'[f] = ex[f] /\ (InFunction(f)' => InFunction(f))
  BY DEF Alone, StepsInv, TypeOK, InFunction
<1>2. /\ \A f, g \in Executions : InFunction(f) /\ InFunction(g) => f = g
      /\ \A n \in Steps \ Voids : done[n] > 0 =>
             /\ step[n] = [status |-> "completed", output |-> TRUE]
             /\ \A f \in Executions : InFunction(f) => n \in ex[f].cache
  BY <1>1 DEF StepsInv, Checkpointed
<1>3. \A n \in Steps \ Voids : done[n] <= 1
  BY <1>1 DEF StepsInv, StepsRunOnce, Steps
<1>4. ex[e].at \in {"found", "threw", "ran"} => InFunction(e) /\ Name(e) \notin ex[e].cache
  BY DEF StepsInv, ProgramsFollowed, Follows, InFunction
<1>5. \A f, g \in Executions : InFunction(f)' /\ InFunction(g)' => f = g
  <2>1. InFunction(e)' => InFunction(e) \/ \A f \in Executions : ~InFunction(f)
    OBVIOUS
  <2> QED BY <1>1, <1>2, <2>1
<1>6. ASSUME NEW n \in Steps \ Voids, done[n] > 0
      PROVE  /\ done'[n] = done[n] /\ step'[n] = [status |-> "completed", output |-> TRUE]
             /\ \A f \in Executions : InFunction(f)' => n \in ex'[f].cache
  <2>1. /\ step[n] = [status |-> "completed", output |-> TRUE] /\ n \in Cached
        /\ \A f \in Executions : InFunction(f) => n \in ex[f].cache
    BY <1>2, <1>6 DEF Cached, Steps
  <2>2. step'[n] = step[n] /\ done'[n] = done[n]
    BY <1>4, <2>1
  <2>3. InFunction(e)' => n \in ex'[e].cache
    BY <2>1
  <2> QED BY <1>1, <2>1, <2>2, <2>3
<1>7. ASSUME NEW n \in Steps \ Voids, ~(done[n] > 0), done'[n] > 0
      PROVE  /\ done'[n] <= 1 /\ step'[n] = [status |-> "completed", output |-> TRUE]
             /\ \A f \in Executions : InFunction(f)' => n \in ex'[f].cache
  <2>1. done[n] = 0
    BY <1>1, <1>7 DEF Steps
  <2>2. /\ n = Name(e) /\ ex[e].at = "ran" /\ done'[n] = done[n] + 1
        /\ step'[n] = [status |-> "completed", output |-> TRUE] /\ n \in ex'[e].cache
    BY <1>7, <2>1
  <2>3. \A f \in Executions : InFunction(f)' => f = e
    BY <1>1, <1>2, <1>4, <2>2
  <2> QED BY <2>1, <2>2, <2>3
<1>8. \A n \in Steps : done'[n] \in Nat
  BY DEF Steps
<1> QED BY <1>3, <1>5, <1>6, <1>7, <1>8

(* Both together, for a step that leaves the rows and what was done alone.  *)
LEMMA RowsStay ==
  ASSUME StepsInv, NEW e \in Executions, Alone(e), UNCHANGED <<step, done>>,
         ex' \in [Executions -> Execution'], mishaps' \subseteq Mishaps,
         items' \in Nat, status' \in {"pending", "running", "sleeping", "succeeded", "failed"},
         Follows(e)',
         ex'[e].cache \subseteq ex[e].cache \cup Cached,
         InFunction(e)' =>
            \/ InFunction(e) /\ ex[e].cache \subseteq ex'[e].cache
            \/ /\ (\E f \in Executions : InFunction(f)) => "overlap" \in mishaps'
               /\ Cached \subseteq ex'[e].cache,
         status' = "succeeded" => status = "succeeded" \/ ex[e].ok,
         At(e, "over") => ex'[e].at = "over",
         \/ attempt' = attempt
         \/ attempt' = attempt + 1 /\ ~At(e, "over") /\ ex'[e].at = "over"
  PROVE  StepsInv'
<1> TypeOK
  BY DEF StepsInv
<1>1. TypeOK'
  BY DEF TypeOK, Alone
<1>2. Checkpointed' /\ StepsRunOnce'
  BY CheckpointsStay DEF TypeOK
<1>3. \A n \in ex'[e].cache : done'[n] > 0
  BY DEF StepsInv, SkippedOnlyIfDone, Cached
<1>4. /\ AttemptsAreCounted' /\ SkippedOnlyIfDone' /\ SucceededDidAll'
      /\ ProgramsFollowed'
  BY <1>1, <1>3, ExecutionsFollow
<1> QED BY <1>1, <1>2, <1>4 DEF StepsInv

(* The worker's steps outside the function.                                 *)
LEMMA WorkersKeepStepsInv ==
  ASSUME StepsInv, NEW e \in Executions,
         \/ LoadRun(e) \/ MarkRunning(e) \/ Invoke(e) \/ GiveUp(e) \/ RecordSuccess(e)
         \/ RecordFailure(e) \/ Forgotten(e) \/ WorkerFails(e)
  PROVE  StepsInv'
<1> TypeOK /\ Follows(e) /\ ex[e] \in Execution /\ Execution' = Execution
  BY DEF StepsInv, ProgramsFollowed, TypeOK, Execution, Program, Steps, 
     LoadRun, MarkRunning, Invoke, GiveUp, RecordSuccess, RecordFailure, Forgotten, WorkerFails
<1>1. /\ UNCHANGED <<function, step, done>> /\ mishaps \subseteq mishaps' /\ mishaps' \subseteq Mishaps
      /\ items' \in Nat /\ status' \in {"pending", "running", "sleeping", "succeeded", "failed"}
      /\ ex' = [ex EXCEPT ![e] = ex'[e]] /\ ex'[e] \in Execution
      /\ ex'[e].n = ex[e].n /\ ex'[e].ok = ex[e].ok
      /\ ex'[e].at \notin {"found", "ran", "threw"} \/ (ex'[e].at = ex[e].at /\ ex'[e].cache = ex[e].cache)
      /\ InFunction(e)' => InFunction(e) \/ Invoke(e)
      /\ ex'[e].cache = ex[e].cache \/ (Invoke(e) /\ ex'[e].cache = Cached)
      /\ At(e, "over") => ex'[e].at = "over"
      /\ status' = "succeeded" => status = "succeeded" \/ ex[e].ok
      /\ \/ attempt' = attempt
         \/ attempt' = attempt + 1 /\ ~At(e, "over") /\ ex'[e].at = "over"
  <2>1. CASE LoadRun(e)
    <3>1. items' \in Nat
      BY <2>1 DEF LoadRun, TypeOK
    <3>2. PICK at \in {"loaded", "over"} : ex' = [ex EXCEPT ![e] = [ex[e] EXCEPT !.at = at, !.tried = attempt]]
      BY <2>1 DEF LoadRun, TypeOK
    <3>3. [ex[e] EXCEPT !.at = at, !.tried = attempt] \in Execution
      <4>1. at \in Places
        BY <3>2 DEF Places
      <4>2. attempt \in Nat
        BY DEF TypeOK
      <4> QED BY <4>1, <4>2 DEF Execution
    <3>4. /\ ex'[e] = [ex[e] EXCEPT !.at = at, !.tried = attempt]
          /\ ex' = [ex EXCEPT ![e] = ex'[e]] /\ ex[e].at = "unused"
          /\ UNCHANGED <<function, step, done, mishaps, status, attempt>>
      BY <2>1, <3>2 DEF LoadRun, At, TypeOK
    <3>5. /\ ex'[e].at = at /\ ex'[e].n = ex[e].n /\ ex'[e].ok = ex[e].ok
          /\ ex'[e].cache = ex[e].cache
      BY <3>4 DEF Execution
    <3>6. mishaps' \subseteq Mishaps /\ status' \in {"pending", "running", "sleeping", "succeeded", "failed"}
      BY <3>4 DEF TypeOK
    <3> QED BY <3>1, <3>2, <3>3, <3>4, <3>5, <3>6 DEF InFunction, At
  <2>2. CASE MarkRunning(e)
    BY <2>2 DEF MarkRunning, Goto, TypeOK, Execution, Places, InFunction, At
  <2>3. CASE Invoke(e)
    <3>1. Cached \in SUBSET Steps
      BY DEF Cached, TypeOK, Steps
    <3> QED BY <2>3, <3>1 DEF Invoke, TypeOK, Execution, Places, InFunction, At, Mishaps
  <2>4. CASE GiveUp(e)
    <3>1. items' \in Nat
      BY <2>4 DEF GiveUp, NackOrLose, TypeOK
    <3> QED BY <2>4, <3>1 DEF GiveUp, TypeOK, Execution, InFunction, At
  <2>5. CASE RecordSuccess(e)
    <3>1. items' \in Nat
      BY <2>5 DEF RecordSuccess, DoneOrUnanswered, NackOrLose, TypeOK
    <3> QED BY <2>5, <3>1 DEF RecordSuccess, Goto, TypeOK, Execution, Places, InFunction, At
  <2>6. CASE RecordFailure(e)
    <3>1. items' \in Nat
      BY <2>6 DEF RecordFailure, DoneOrUnanswered, NackOrLose, TypeOK
    <3> QED BY <2>6, <3>1 DEF RecordFailure, Goto, TypeOK, Execution, Places, InFunction, At
  <2>7. CASE Forgotten(e)
    BY <2>7 DEF Forgotten, Goto, TypeOK, Execution, Places, InFunction, At
  <2>8. CASE WorkerFails(e)
    <3>1. items' \in Nat
      BY <2>8 DEF WorkerFails, NackOrLose, TypeOK
    <3> QED BY <2>8, <3>1 DEF WorkerFails, Goto, TypeOK, Execution, Places, InFunction, At
  <2> QED BY <2>1, <2>2, <2>3, <2>4, <2>5, <2>6, <2>7, <2>8
<1>2. Alone(e) /\ ex' \in [Executions -> Execution']
  BY <1>1 DEF Alone, TypeOK
<1>3. Follows(e)'
  BY <1>1 DEF Follows, Name, Program
<1>4. InFunction(e)' =>
         \/ InFunction(e) /\ ex[e].cache \subseteq ex'[e].cache
         \/ /\ (\E f \in Executions : InFunction(f)) => "overlap" \in mishaps'
            /\ Cached \subseteq ex'[e].cache
  <2>1. CASE Invoke(e)
    <3>1. ex'[e].cache = Cached
      BY <2>1 DEF Invoke, TypeOK, Execution
    <3> QED BY <2>1, <3>1 DEF Invoke
  <2> QED BY <1>1, <2>1
<1> QED BY <1>1, <1>2, <1>3, <1>4, RowsStay

(* The steps of the function that report nothing about a step's output.     *)
LEMMA FunctionsKeepStepsInv ==
  ASSUME StepsInv, NEW e \in Executions,
         \/ Breaks(e) \/ Skip(e) \/ FindStep(e) \/ StepThrows(e) \/ SetSleeping(e)
         \/ FunctionEnds(e) \/ FunctionDies(e)
  PROVE  StepsInv'
<1> TypeOK /\ Follows(e) /\ ex[e] \in Execution /\ ex[e].cache \in SUBSET Steps
  BY DEF StepsInv, ProgramsFollowed, TypeOK, Execution
<1>1. /\ UNCHANGED <<function, attempt, items, step, done>> /\ Program' = Program
      /\ InFunction(e) /\ ~At(e, "over")
      /\ items' \in Nat /\ status' \in {"pending", "running", "sleeping", "succeeded", "failed"}
      /\ status' = "succeeded" => status = "succeeded"
      /\ mishaps \subseteq mishaps' /\ mishaps' \subseteq Mishaps
  BY DEF Breaks, Skip, FindStep, StepThrows, SetSleeping, FunctionEnds, FunctionDies, StepError,
     Calls, At, InFunction, Program, TypeOK, Mishaps
<1>2. ex[e].n \in 1 .. Len(Program) + 1 /\ Len(Program) \in Nat
  BY InTheProgram
(* It stays where it is in the program or answers.                          *)
<1>3. ASSUME ex' \in [Executions -> Execution'],
             \A f \in Executions \ {e} : ex'[f] = ex[f],
             ex'[e].cache = ex[e].cache, Follows(e)'
      PROVE  StepsInv'
  BY <1>1, <1>3, RowsStay DEF Alone
<1>4. ASSUME NEW ok \in BOOLEAN, Returns(e, ok),
             ok => mishaps' \cap {"slept", "caught"} # {} \/ ex[e].n > Len(Program)
      PROVE  StepsInv'
  <2>1. /\ ex' \in [Executions -> Execution']
        /\ \A f \in Executions \ {e} : ex'[f] = ex[f]
        /\ ex'[e].at = "answered" /\ ex'[e].n = ex[e].n /\ ex'[e].cache = ex[e].cache
        /\ ex'[e].ok = ok
    BY <1>1, <1>4, Answered
  <2>2. Follows(e)'
    BY <1>1, <1>4, <2>1 DEF Follows, Name
  <2> QED BY <1>3, <2>1, <2>2
<1>5. ASSUME NEW at \in {"found", "ran", "threw"}, Goto(e, at),
             ex[e].n <= Len(Program), Name(e) \in Steps \ ex[e].cache
      PROVE  StepsInv'
  <2>1. /\ ex' \in [Executions -> Execution']
        /\ \A f \in Executions \ {e} : ex'[f] = ex[f]
        /\ ex'[e].at = at /\ ex'[e].n = ex[e].n /\ ex'[e].cache = ex[e].cache
        /\ ex'[e].ok = ex[e].ok
    BY <1>1, <1>5, Gone DEF Places
  <2>2. Follows(e)'
    BY <1>1, <1>5, <2>1 DEF Follows, Name
  <2> QED BY <1>3, <2>1, <2>2
<1>6. ASSUME StepError(e), ex[e].n <= Len(Program), Name(e) \in Steps
      PROVE  StepsInv'
  <2>1. /\ ex' \in [Executions -> Execution']
        /\ \A f \in Executions \ {e} : ex'[f] = ex[f]
        /\ ex'[e].cache = ex[e].cache
        /\ \/ ex'[e].at = "answered" /\ ex'[e].n = ex[e].n /\ ~ex'[e].ok
           \/ /\ ex'[e].at = "calling" /\ ex'[e].n = ex[e].n + 1 /\ ex'[e].ok = ex[e].ok
              /\ "caught" \in mishaps'
    BY <1>1, <1>6, Thrown
  <2>2. Follows(e)'
    <3>1. \A i \in 1 .. ex[e].n : i \in 1 .. ex[e].n - 1 \/ i = ex[e].n
      BY <1>2
    <3> QED BY <1>1, <1>2, <1>6, <2>1, <3>1 DEF Follows, Name
  <2> QED BY <1>3, <2>1, <2>2
<1>7. CASE Breaks(e)
  BY <1>4, <1>7 DEF Breaks
<1>8. CASE Skip(e)
  <2>1. /\ ex[e].n <= Len(Program) /\ Name(e) \in ex[e].cache /\ ex[e].at = "calling"
        /\ ex' = [ex EXCEPT ![e] = [ex[e] EXCEPT !.at = "calling", !.n = ex[e].n + 1,
                                                 !.cache = ex[e].cache]]
    BY <1>8, Calling
  <2>2. /\ ex' \in [Executions -> Execution']
        /\ \A f \in Executions \ {e} : ex'[f] = ex[f]
        /\ ex'[e].at = "calling" /\ ex'[e].n = ex[e].n + 1 /\ ex'[e].cache = ex[e].cache
        /\ ex'[e].ok = ex[e].ok
    BY <1>1, <2>1, Advanced
  <2>3. done[Name(e)] > 0 /\ Name(e) \in Steps
    BY <2>1 DEF StepsInv, SkippedOnlyIfDone
  <2>4. Follows(e)'
    <3>1. \A i \in 1 .. ex[e].n : i \in 1 .. ex[e].n - 1 \/ i = ex[e].n
      BY <1>2
    <3> QED BY <1>1, <1>2, <2>1, <2>2, <2>3, <3>1 DEF Follows, Name
  <2> QED BY <1>3, <2>2, <2>4
<1>9. CASE FindStep(e)
  <2>1. ex[e].n <= Len(Program) /\ Name(e) \in Steps \ ex[e].cache
    BY <1>9 DEF FindStep, Calls
  <2> QED BY <1>5, <1>6, <1>9, <2>1 DEF FindStep
<1>10. CASE StepThrows(e)
  <2>1. ex[e].n <= Len(Program) /\ Name(e) \in Steps \ ex[e].cache
    BY <1>10 DEF StepThrows, At, Follows
  <2> QED BY <1>5, <1>10, <2>1 DEF StepThrows
<1>11. CASE SetSleeping(e)
  BY <1>4, <1>11 DEF SetSleeping
<1>12. CASE FunctionEnds(e)
  BY <1>4, <1>12 DEF FunctionEnds
<1>13. CASE FunctionDies(e)
  BY <1>4, <1>13 DEF FunctionDies
<1> QED BY <1>7, <1>8, <1>9, <1>10, <1>11, <1>12, <1>13

(* A row is written, of the step or the sleep the execution is at.          *)
LEMMA RowIsWritten ==
  ASSUME StepsInv, NEW e \in Executions, Alone(e), Follows(e)',
         NEW n \in Names, n = Name(e), NEW row \in [status : {"none", "running", "completed", "failed"},
                                                output : BOOLEAN],
         row.output => row.status # "none" /\ n \notin Voids \cup Sleeps,
         step' = [step EXCEPT ![n] = row], done' \in [Names -> Nat],
         row.status = "completed" => done'[n] > 0,
         UNCHANGED <<attempt, items, status>>, mishaps' \subseteq Mishaps,
         ex' \in [Executions -> Execution'],
         InFunction(e), ex[e].cache \subseteq ex'[e].cache,
         \A m \in ex'[e].cache : m \in ex[e].cache \/ done'[m] > 0,
         \/ n \in Sleeps /\ done' = done
         \/ ex[e].at \in {"found", "threw"} /\ done' = done
         \/ /\ ex[e].at = "ran" /\ done'[n] = done[n] + 1
            /\ \A m \in Names \ {n} : done'[m] = done[m]
            /\ \/ "report" \in mishaps'
               \/ n \in ex'[e].cache /\ (n \notin Voids => row = [status |-> "completed", output |-> TRUE])
  PROVE  StepsInv'
<1> TypeOK /\ step \in [Names -> [status : {"none", "running", "completed", "failed"}, output : BOOLEAN]]
  BY DEF StepsInv, TypeOK
<1>1. TypeOK'
  <2>1. step' \in [Names -> [status : {"none", "running", "completed", "failed"}, output : BOOLEAN]]
    OBVIOUS
  <2>2. \A m \in Names : step'[m].output => step'[m].status # "none" /\ m \notin Voids \cup Sleeps
    BY DEF TypeOK
  <2> QED BY <2>1, <2>2 DEF TypeOK, Alone
<1>2. \A m \in Names : m # n => step'[m] = step[m] /\ done'[m] = done[m]
  BY DEF Alone
<1>3. step'[n] = row
  OBVIOUS
<1>4. Checkpointed' /\ StepsRunOnce'
  <2>1. \A m \in Steps \ Voids :
            \/ step'[m] = step[m] /\ done'[m] = done[m]
            \/ m = Name(e) /\ ex[e].at \in {"found", "threw"} /\ done'[m] = done[m]
            \/ /\ m = Name(e) /\ ex[e].at = "ran" /\ done'[m] = done[m] + 1
               /\ \/ "report" \in mishaps'
                  \/ /\ step'[m] = [status |-> "completed", output |-> TRUE]
                     /\ m \in ex'[e].cache
    BY <1>2, <1>3 DEF Steps
  <2> QED BY <2>1, CheckpointsStay
<1>5. \A m \in ex'[e].cache : done'[m] > 0
  <2>1. \A m \in ex[e].cache : m \in Names /\ done[m] \in Nat /\ done[m] > 0
    BY DEF StepsInv, SkippedOnlyIfDone, TypeOK, Execution, Steps
  <2>2. \A m \in Names : done[m] > 0 => done'[m] > 0
    BY DEF Alone, TypeOK
  <2> QED BY <2>1, <2>2
<1>6. \A m \in Names : step'[m].status = "completed" => step[m].status = "completed" \/ done'[m] > 0
  BY <1>2, <1>3
<1>7. ~At(e, "over")
  BY DEF InFunction, At
<1>8. /\ AttemptsAreCounted' /\ SkippedOnlyIfDone' /\ SucceededDidAll'
      /\ ProgramsFollowed'
  BY <1>1, <1>5, <1>6, <1>7, ExecutionsFollow
<1> QED BY <1>1, <1>4, <1>8 DEF StepsInv

(* The steps of the function that write a row.                              *)
LEMMA ReportsKeepStepsInv ==
  ASSUME StepsInv, NEW e \in Executions,
         InsertStep(e) \/ RunStep(e) \/ ReportFailure(e) \/ Sleep(e)
  PROVE  StepsInv'
<1> TypeOK /\ Follows(e) /\ ex[e] \in Execution /\ ex[e].cache \in SUBSET Steps
  BY DEF StepsInv, ProgramsFollowed, TypeOK, Execution
<1> DEFINE n == Name(e)
           Rows == [status : {"none", "running", "completed", "failed"}, output : BOOLEAN]
<1>1. /\ UNCHANGED <<function, attempt, items, status>> /\ Program' = Program
      /\ InFunction(e) /\ ~At(e, "over")
  BY DEF InsertStep, RunStep, ReportFailure, Sleep, Calls, At, InFunction, Program
<1>2. /\ ex[e].n \in 1 .. Len(Program) + 1 /\ Len(Program) \in Nat
      /\ ex[e].n <= Len(Program) /\ n \in Names
  <2>1. ex[e].n <= Len(Program)
    BY DEF InsertStep, RunStep, ReportFailure, Sleep, Calls, At, Follows
  <2> QED BY <2>1, InTheProgram DEF Name
<1>3. /\ step \in [Names -> Rows] /\ done \in [Names -> Nat] /\ mishaps \subseteq Mishaps
      /\ \A m \in Names : step[m].output => step[m].status # "none" /\ m \notin Voids \cup Sleeps
  BY DEF TypeOK
<1>4. \A i \in 1 .. ex[e].n : i \in 1 .. ex[e].n - 1 \/ i = ex[e].n
  BY <1>2
<1>5. ASSUME StepError(e), n \in Steps, UNCHANGED done
      PROVE  /\ ex' \in [Executions -> Execution'] /\ Alone(e) /\ Follows(e)'
             /\ ex'[e].cache = ex[e].cache /\ mishaps' \subseteq Mishaps
             /\ InFunction(e)' => InFunction(e)
  <2>1. /\ ex' \in [Executions -> Execution']
        /\ \A f \in Executions \ {e} : ex'[f] = ex[f]
        /\ mishaps \subseteq mishaps' /\ mishaps' \subseteq Mishaps
        /\ ex'[e].cache = ex[e].cache
        /\ \/ ex'[e].at = "answered" /\ ex'[e].n = ex[e].n /\ ~ex'[e].ok
           \/ /\ ex'[e].at = "calling" /\ ex'[e].n = ex[e].n + 1 /\ ex'[e].ok = ex[e].ok
              /\ "caught" \in mishaps'
    BY <1>1, <1>2, <1>5, Thrown
  <2>2. Follows(e)'
    BY <1>1, <1>2, <1>4, <1>5, <2>1 DEF Follows, Name
  <2> QED BY <1>1, <1>5, <2>1, <2>2 DEF Alone
<1>6. ASSUME NEW at \in {"ran", "threw", "napping"}, Goto(e, at), mishaps \subseteq mishaps',
             at = "napping" \/ n \in Steps \ ex[e].cache,
             done' = done \/ (At(e, "ran") /\ done' = [done EXCEPT ![n] = done[n] + 1])
      PROVE  /\ ex' \in [Executions -> Execution'] /\ Alone(e) /\ Follows(e)'
             /\ ex'[e].cache = ex[e].cache
  <2>1. /\ ex' \in [Executions -> Execution']
        /\ \A f \in Executions \ {e} : ex'[f] = ex[f]
        /\ ex'[e].at = at /\ ex'[e].n = ex[e].n /\ ex'[e].cache = ex[e].cache
        /\ ex'[e].ok = ex[e].ok
    BY <1>1, <1>6, Gone DEF Places
  <2>2. Alone(e)
    BY <1>1, <1>3, <1>6, <2>1 DEF Alone
  <2>3. \A i \in 1 .. ex[e].n - 1 : done[Program[i]] > 0 => done'[Program[i]] > 0
    <3>1. \A i \in 1 .. ex[e].n - 1 : Program[i] \in Names
      BY <1>2, InTheProgram
    <3> QED BY <1>3, <1>6, <3>1
  <2>4. Follows(e)'
    BY <1>1, <1>2, <1>6, <2>1, <2>3 DEF Follows, Name
  <2> QED BY <2>1, <2>2, <2>4
<1>7. CASE InsertStep(e)
  <2>1. n \in Steps \ ex[e].cache /\ UNCHANGED done /\ ex[e].at = "found"
    BY <1>7 DEF InsertStep, At, Follows
  <2>2. CASE step[n] = NoStep
    <3>1. Goto(e, "ran") /\ step' = [step EXCEPT ![n] = [step[n] EXCEPT !.status = "running"]]
          /\ UNCHANGED mishaps
      BY <1>3, <1>7, <2>2 DEF InsertStep
    <3>2. /\ [step[n] EXCEPT !.status = "running"] \in Rows
          /\ [step[n] EXCEPT !.status = "running"].output = FALSE
          /\ [step[n] EXCEPT !.status = "running"].status = "running"
      <4>1. step[n].output = FALSE /\ step[n] \in Rows
        BY <1>2, <1>3, <2>2 DEF NoStep
      <4> QED BY <4>1
    <3>3. /\ ex' \in [Executions -> Execution'] /\ Alone(e) /\ Follows(e)'
          /\ ex'[e].cache = ex[e].cache
      <4>1. mishaps \subseteq mishaps' /\ done' = done
        BY <2>1, <3>1
      <4> QED BY <1>6, <2>1, <3>1, <4>1
    <3> QED BY <1>1, <1>2, <1>3, <2>1, <3>1, <3>2, <3>3, RowIsWritten
  <2>3. CASE step[n] # NoStep
    BY <1>1, <1>3, <1>5, <1>7, <2>1, <2>3, RowsStay DEF InsertStep, TypeOK
  <2> QED BY <2>2, <2>3
<1>8. CASE ReportFailure(e)
  <2>1. n \in Steps \ ex[e].cache /\ UNCHANGED done /\ ex[e].at = "threw" /\ StepError(e)
    BY <1>8 DEF ReportFailure, At, Follows
  <2>2. CASE step' = step
    BY <1>1, <1>3, <1>5, <2>1, <2>2, RowsStay DEF TypeOK
  <2>3. CASE step' = [step EXCEPT ![n] = [step[n] EXCEPT !.status = "failed"]]
    <3>1. /\ [step[n] EXCEPT !.status = "failed"] \in Rows
          /\ [step[n] EXCEPT !.status = "failed"].output = step[n].output
          /\ [step[n] EXCEPT !.status = "failed"].status = "failed"
      BY <1>2, <1>3
    <3> QED BY <1>1, <1>2, <1>3, <1>5, <2>1, <2>3, <3>1, RowIsWritten
  <2> QED BY <1>3, <1>8, <2>2, <2>3 DEF ReportFailure
<1>9. CASE Sleep(e)
  <2>1. n \in Sleeps \ ex[e].cache /\ UNCHANGED <<done, mishaps>>
    BY <1>9 DEF Sleep
  <2>2. CASE step[n] = NoStep
    <3>1. Goto(e, "napping") /\ step' = [step EXCEPT ![n] = [step[n] EXCEPT !.status = "running"]]
      BY <1>3, <1>9, <2>2 DEF Sleep
    <3>2. /\ [step[n] EXCEPT !.status = "running"] \in Rows
          /\ [step[n] EXCEPT !.status = "running"].output = FALSE
          /\ [step[n] EXCEPT !.status = "running"].status = "running"
      <4>1. step[n].output = FALSE /\ step[n] \in Rows
        BY <1>2, <1>3, <2>2 DEF NoStep
      <4> QED BY <4>1
    <3>3. /\ ex' \in [Executions -> Execution'] /\ Alone(e) /\ Follows(e)'
          /\ ex'[e].cache = ex[e].cache
      <4>1. mishaps \subseteq mishaps' /\ done' = done
        BY <2>1, <3>1
      <4> QED BY <1>6, <2>1, <3>1, <4>1
    <3> QED BY <1>1, <1>2, <1>3, <2>1, <3>1, <3>2, <3>3, RowIsWritten
  <2>3. CASE step[n] # NoStep
    <3>1. Returns(e, FALSE) /\ UNCHANGED step
      BY <1>9, <2>3 DEF Sleep
    <3>2. /\ ex' \in [Executions -> Execution']
          /\ \A f \in Executions \ {e} : ex'[f] = ex[f]
          /\ ex'[e].at = "answered" /\ ex'[e].n = ex[e].n /\ ex'[e].cache = ex[e].cache
          /\ ~ex'[e].ok
      BY <1>1, <3>1, Answered
    <3>3. Follows(e)'
      BY <1>1, <2>1, <3>2 DEF Follows
    <3> QED BY <1>1, <1>3, <2>1, <3>1, <3>2, <3>3, RowsStay DEF TypeOK, Alone
  <2> QED BY <2>2, <2>3
<1>10. CASE RunStep(e)
  <2> DEFINE row == Complete(n)
  <2>1. /\ n \in Steps \ ex[e].cache /\ ex[e].at = "ran" /\ At(e, "ran")
        /\ done' = [done EXCEPT ![n] = done[n] + 1]
    BY <1>10 DEF RunStep, At, Follows
  <2>2. /\ row \in Rows /\ row.status = "completed"
        /\ row.output => n \notin Voids \cup Sleeps
        /\ n \notin Voids => row = [status |-> "completed", output |-> TRUE]
    <3>1. step[n].output \in BOOLEAN /\ (step[n].output => n \notin Voids)
      BY <1>2, <1>3
    <3> QED BY <2>1, <3>1 DEF Complete, Steps
  <2>3. /\ done' \in [Names -> Nat] /\ done'[n] = done[n] + 1 /\ done'[n] > 0
        /\ \A m \in Names \ {n} : done'[m] = done[m]
    BY <1>2, <1>3, <2>1
  <2> HIDE DEF row
  <2>4. CASE ex' = [ex EXCEPT ![e] = [ex[e] EXCEPT !.at = "calling", !.n = ex[e].n + 1,
                                                   !.cache = ex[e].cache \cup {n}]]
             /\ mishaps' = mishaps /\ step' = [step EXCEPT ![n] = row]
    <3>1. /\ ex' \in [Executions -> Execution']
          /\ \A f \in Executions \ {e} : ex'[f] = ex[f]
          /\ ex'[e].at = "calling" /\ ex'[e].n = ex[e].n + 1 /\ ex'[e].cache = ex[e].cache \cup {n}
          /\ ex'[e].ok = ex[e].ok
      <4>1. ex[e].cache \cup {n} \in SUBSET Steps
        BY <2>1
      <4> QED BY <1>1, <1>2, <2>4, <4>1, Advanced
    <3>2. Alone(e)
      BY <1>1, <2>1, <2>3, <2>4, <3>1 DEF Alone
    <3>3. Follows(e)'
      <4>1. \A i \in 1 .. ex[e].n - 1 : done[Program[i]] > 0 => done'[Program[i]] > 0
        <5>1. \A i \in 1 .. ex[e].n - 1 : Program[i] \in Names
          BY <1>2, InTheProgram
        <5> QED BY <1>3, <2>3, <5>1
      <4> QED BY <1>1, <1>2, <1>4, <2>1, <2>3, <2>4, <3>1, <4>1 DEF Follows, Name
    <3> QED BY <1>1, <1>2, <1>3, <2>1, <2>2, <2>3, <2>4, <3>1, <3>2, <3>3, RowIsWritten
  <2>5. CASE Goto(e, "threw") /\ mishaps' = mishaps \cup {"report"}
             /\ step' \in {step, [step EXCEPT ![n] = row]}
    <3>1. /\ ex' \in [Executions -> Execution'] /\ Alone(e) /\ Follows(e)'
          /\ ex'[e].cache = ex[e].cache
      <4>1. /\ mishaps \subseteq mishaps'
            /\ At(e, "ran") /\ done' = [done EXCEPT ![n] = done[n] + 1]
        BY <2>1, <2>5
      <4> QED BY <1>6, <2>1, <2>5, <4>1
    <3>2. mishaps' \subseteq Mishaps
      BY <1>3, <2>5 DEF Mishaps
    <3>3. CASE step' = [step EXCEPT ![n] = row]
      BY <1>1, <1>2, <1>3, <2>1, <2>2, <2>3, <2>5, <3>1, <3>2, <3>3, RowIsWritten
    <3>4. CASE step' = step
      <4>1. step' = [step EXCEPT ![n] = step[n]] /\ step[n] \in Rows
        BY <1>2, <1>3, <3>4
      <4>2. step[n].output => step[n].status # "none" /\ n \notin Voids \cup Sleeps
        BY <1>2, <1>3
      <4> QED BY <1>1, <1>2, <1>3, <2>1, <2>3, <2>5, <3>1, <3>2, <4>1, <4>2, RowIsWritten
    <3> QED BY <2>5, <3>3, <3>4
  <2> QED BY <1>10, <2>4, <2>5, Calling DEF RunStep, row
<1> QED BY <1>7, <1>8, <1>9, <1>10

(* The first states.                                                        *)
LEMMA StepsInvInit == Init => StepsInv
<1> SUFFICES ASSUME Init PROVE StepsInv
  OBVIOUS
<1>1. Len(Program) \in Nat
  BY StepConstants, LenProperties DEF Init, Program
<1>2. Unused \in Execution
  BY <1>1 DEF Unused, Execution, Places
<1>3. TypeOK
  BY <1>2 DEF Init, TypeOK, NoStep
<1>4. \A e \in Executions : ex[e] = Unused /\ ~InFunction(e) /\ Follows(e)
  BY DEF Init, Unused, InFunction, Follows
<1>5. AttemptsAreCounted
  BY StepConstants, FS_Subset, FS_CardinalityType DEF Init, AttemptsAreCounted, Over
<1> QED BY <1>3, <1>4, <1>5 DEF Init, StepsInv, SkippedOnlyIfDone, SucceededDidAll, ProgramsFollowed,
       Checkpointed, StepsRunOnce, NoStep, Unused, Steps

(* Every step keeps the invariant.                                          *)
LEMMA StepsInvStep == StepsInv /\ [Next]_vars => StepsInv'
<1> SUFFICES ASSUME StepsInv, [Next]_vars PROVE StepsInv'
  OBVIOUS
<1> TypeOK
  BY DEF StepsInv
<1>1. ASSUME UNCHANGED <<function, attempt, step, done, ex, mishaps>>, items' \in Nat,
             status' \in {"pending", status}
      PROVE  StepsInv'
  <2>1. TypeOK'
    BY <1>1 DEF TypeOK, Execution, Program
  <2>2. AttemptsAreCounted' /\ SkippedOnlyIfDone' /\ SucceededDidAll'
    BY <1>1 DEF StepsInv, AttemptsAreCounted, Over, SkippedOnlyIfDone, SucceededDidAll, Program
  <2>3. ProgramsFollowed'
    BY <1>1 DEF StepsInv, ProgramsFollowed, Follows, Name, Program
  <2>4. Checkpointed' /\ StepsRunOnce'
    BY <1>1 DEF StepsInv, Checkpointed, InFunction, StepsRunOnce
  <2> QED BY <2>1, <2>2, <2>3, <2>4 DEF StepsInv
<1>2. CASE Wake
  <2>1. items' \in Nat
    BY <1>2 DEF Wake, TypeOK
  <2> QED BY <1>1, <1>2, <2>1 DEF Wake
<1>3. CASE UNCHANGED vars
  BY <1>1, <1>3 DEF vars, TypeOK
<1> QED BY <1>2, <1>3, WorkersKeepStepsInv, FunctionsKeepStepsInv, ReportsKeepStepsInv DEF Next

(* The rows, the executions and what was done fit at any time.              *)
THEOREM StepsAreConsistent == Spec => []StepsInv
<1> QED BY StepsInvInit, StepsInvStep, PTL DEF Spec

(* ctx.step: through any number of attempts, crashes and redeliveries a     *)
(* step runs once, but for the exceptions StepsRunOnce names.               *)
THEOREM CheckpointedStepsRunOnce == Spec => []StepsRunOnce
<1>1. StepsInv => StepsRunOnce
  BY DEF StepsInv
<1> QED BY <1>1, StepsAreConsistent, PTL

(* A late report: without the exceptions no execution is at a step that is  *)
(* completed, so none sets its row back to failed.                          *)
THEOREM CompletedStepsStay == Spec => CompletedStays
<1>1. ASSUME StepsInv, [Next]_vars
      PROVE  [\A n \in Steps :
                step[n].status = "completed" /\ step'[n].status # "completed"
                    => n \in Voids \/ mishaps \cap {"report", "overlap"} # {}]_vars
  <2> SUFFICES ASSUME Next, NEW n \in Steps \ Voids, mishaps \cap {"report", "overlap"} = {},
                      step[n].status = "completed", step'[n].status # "completed"
               PROVE  FALSE
    BY <1>1
  <2>1. n \in Names /\ n \notin Sleeps /\ step[n] # NoStep
    BY DEF Steps, NoStep
  <2>2. \A e \in Executions : InFunction(e) => n \in ex[e].cache
    BY <1>1, <2>1 DEF StepsInv, Checkpointed, SkippedOnlyIfDone
  <2>3. \A e \in Executions : ex[e].at \in {"found", "ran", "threw"} => n # Name(e)
    BY <1>1, <2>2 DEF StepsInv, ProgramsFollowed, Follows, InFunction
  <2>4. step \in [Names -> [status : {"none", "running", "completed", "failed"}, output : BOOLEAN]]
    BY <1>1 DEF StepsInv, TypeOK
  <2>5. ASSUME NEW e \in Executions, InsertStep(e) \/ RunStep(e) \/ ReportFailure(e) \/ Sleep(e)
        PROVE  step'[n] = step[n]
    BY <2>1, <2>3, <2>4, <2>5 DEF InsertStep, RunStep, ReportFailure, Sleep, At
  <2> QED BY <2>1, <2>5 DEF Next, Wake, LoadRun, MarkRunning, Invoke, Breaks, Skip, FindStep, StepThrows,
         SetSleeping, FunctionEnds, FunctionDies, GiveUp, RecordSuccess, RecordFailure, Forgotten,
         WorkerFails
<1> QED BY <1>1, StepsAreConsistent, PTL DEF Spec, CompletedStays
================================================================================
