----------------------------- MODULE TokenBucket -----------------------------
(***************************************************************************)
(* The request limiter of reactor-server: quota/bucket.rs, a lock-free      *)
(* token bucket that the threads serving one tenant share.  Each load and   *)
(* each compare-exchange of the two atomics tokens and last_refill is a     *)
(* step; compare_exchange_weak may fail without cause.                      *)
(*                                                                          *)
(* The code counts thousandths of a token and milliseconds; Scale and       *)
(* PerSecond are those two thousands, kept apart and small.                 *)
(***************************************************************************)
EXTENDS Integers, FiniteSets

CONSTANTS
    Threads,
    Capacity,       \* capacity, in scaled tokens
    Rate,           \* refill_rate, scaled tokens per second
    Scale,          \* the cost of one request, in scaled tokens
    PerSecond,      \* clock units in a second
    ClockStepsBack, \* may SystemTime step back
    MaxClock        \* bound on the clock

ASSUME BucketConstants ==
    /\ IsFiniteSet(Threads)
    /\ Capacity \in Nat /\ Rate \in Nat
    /\ Scale \in Nat \ {0} /\ PerSecond \in Nat \ {0}
    /\ Scale <= Capacity
    /\ ClockStepsBack \in BOOLEAN
    /\ MaxClock \in Nat

VARIABLES
    clock,        \* SystemTime, in clock units since the bucket was made
    latest,       \* the furthest the clock has been (for the properties)
    tokens,
    last_refill,
    thread,       \* thread[t]: where t is and what it has read
    spent,        \* scaled tokens consumed so far (for the properties)
    advice        \* advice[t]: the retry_after answer t still waits for

vars == <<clock, latest, tokens, last_refill, thread, spent, advice>>

PC == {"idle", "last", "claim", "load", "deposit", "take", "consume", "refused"}

Ops == {"try_consume", "available"}

Local == [pc : PC, op : Ops, now : Nat, last : Nat, add : Nat, current : Nat]

Idle == [pc |-> "idle", op |-> "available", now |-> 0, last |-> 0, add |-> 0, current |-> 0]

\* at, until: when the advice was given and when it says to retry;
\* refill and spent: what last_refill and spent were then
NoAdvice == [at |-> 0, until |-> -1, refill |-> 0, spent |-> 0]

TypeOK ==
    /\ clock \in Nat /\ latest \in Nat
    /\ tokens \in Nat /\ last_refill \in Nat /\ spent \in Nat
    /\ thread \in [Threads -> Local]
    /\ advice \in [Threads -> [at : Nat, until : Int, refill : Nat, spent : Nat]]

Init ==
    /\ clock = 0 /\ latest = 0
    /\ tokens = Capacity
    /\ last_refill = 0
    /\ thread = [t \in Threads |-> Idle]
    /\ spent = 0
    /\ advice = [t \in Threads |-> NoAdvice]

Tick ==
    /\ \/ clock < MaxClock /\ clock' = clock + 1
       \/ ClockStepsBack /\ clock > 0 /\ clock' = clock - 1
    /\ latest' = IF clock' > latest THEN clock' ELSE latest
    /\ UNCHANGED <<tokens, last_refill, thread, spent, advice>>

-----------------------------------------------------------------------------

At(t, pc) == thread[t].pc = pc

(* t goes on with the local state r. *)
Becomes(t, r) == thread' = [thread EXCEPT ![t] = r]

Return(t) == Becomes(t, Idle)

(* What follows refill(): try_consume_n goes on to take, available returns. *)
Refilled(t) ==
    IF thread[t].op = "try_consume"
    THEN Becomes(t, [Idle EXCEPT !.pc = "take", !.op = "try_consume"])
    ELSE Return(t)

(* try_consume or available is called; refill() reads the clock. *)
Call(t, op) ==
    /\ At(t, "idle")
    /\ Becomes(t, [thread[t] EXCEPT !.pc = "last", !.op = op, !.now = clock])
    /\ advice' = [advice EXCEPT ![t] = NoAdvice]
    /\ UNCHANGED <<clock, latest, tokens, last_refill, spent>>

Earned(from, to) == ((to - from) * Rate) \div PerSecond

(* last_refill.load: nothing to do unless some whole token part was earned. *)
ReadLast(t) ==
    /\ At(t, "last")
    /\ LET add == Earned(last_refill, thread[t].now)
       IN  IF thread[t].now <= last_refill \/ add = 0
           THEN Refilled(t)
           ELSE Becomes(t, [thread[t] EXCEPT !.pc = "claim", !.last = last_refill,
                                                 !.add = add])
    /\ UNCHANGED <<clock, latest, tokens, last_refill, spent, advice>>

(* A mutant of Claim: a store in place of the compare-exchange. *)
ClaimAnyway(t) ==
    /\ At(t, "claim")
    /\ last_refill' = thread[t].now
    /\ Becomes(t, [thread[t] EXCEPT !.pc = "load"])
    /\ UNCHANGED <<clock, latest, tokens, spent, advice>>

(* last_refill.compare_exchange(last, now): one thread earns the interval.  *)
Claim(t) ==
    /\ At(t, "claim")
    /\ IF last_refill = thread[t].last
       THEN /\ last_refill' = thread[t].now
            /\ Becomes(t, [thread[t] EXCEPT !.pc = "load"])
       ELSE /\ Refilled(t)
            /\ UNCHANGED last_refill
    /\ UNCHANGED <<clock, latest, tokens, spent, advice>>

LoadForDeposit(t) ==
    /\ At(t, "load")
    /\ Becomes(t, [thread[t] EXCEPT !.pc = "deposit", !.current = tokens])
    /\ UNCHANGED <<clock, latest, tokens, last_refill, spent, advice>>

Filled(current, add) ==
    IF current + add < Capacity THEN current + add ELSE Capacity

(* tokens.compare_exchange_weak in refill(): again from the load if it fails. *)
Deposit(t) ==
    /\ At(t, "deposit")
    /\ \/ /\ tokens = thread[t].current
          /\ tokens' = Filled(tokens, thread[t].add)
          /\ Refilled(t)
       \/ /\ Becomes(t, [thread[t] EXCEPT !.pc = "load"])
          /\ UNCHANGED tokens
    /\ UNCHANGED <<clock, latest, last_refill, spent, advice>>

(* A mutant of LoadForConsume: the balance is not looked at. *)
LoadUnchecked(t) ==
    /\ At(t, "take")
    /\ Becomes(t, [thread[t] EXCEPT !.pc = "consume", !.current = tokens])
    /\ UNCHANGED <<clock, latest, tokens, last_refill, spent, advice>>

LoadForConsume(t) ==
    /\ At(t, "take")
    /\ Becomes(t, [thread[t] EXCEPT !.pc = IF tokens < Scale THEN "refused" ELSE "consume",
                                    !.current = tokens])
    /\ UNCHANGED <<clock, latest, tokens, last_refill, spent, advice>>

(* tokens.compare_exchange_weak in try_consume_n. *)
Consume(t) ==
    /\ At(t, "consume")
    /\ \/ /\ tokens = thread[t].current
          /\ tokens' = tokens - Scale
          /\ spent' = spent + Scale
          /\ Return(t)
       \/ /\ Becomes(t, [thread[t] EXCEPT !.pc = "take"])
          /\ UNCHANGED <<tokens, spent>>
    /\ UNCHANGED <<clock, latest, last_refill, advice>>

(* A mutant of RetryAfter: the quotient is rounded down. *)
RetryAfterRoundedDown(current) ==
    IF current >= Scale THEN 0 ELSE (Scale - current) \div Rate

(* retry_after: seconds, rounded up, at least one. *)
RetryAfter(current) ==
    IF current >= Scale THEN 0
    ELSE LET secs == (Scale - current + Rate - 1) \div Rate
         IN  IF secs < 1 THEN 1 ELSE secs

\* retry_after divides by refill_rate, which is 0 for 0 requests per minute
RetryAfterPanics(current) == Rate = 0 /\ current < Scale

(* check_request answers RateLimited with retry_after(); the request dies   *)
(* without an answer when that panics.                                      *)
Refuse(t) ==
    /\ At(t, "refused")
    /\ advice' = IF RetryAfterPanics(tokens) THEN advice
                 ELSE [advice EXCEPT ![t] =
                          [at |-> clock, until |-> clock + RetryAfter(tokens) * PerSecond,
                           refill |-> last_refill, spent |-> spent]]
    /\ Return(t)
    /\ UNCHANGED <<clock, latest, tokens, last_refill, spent>>

-----------------------------------------------------------------------------

Step(t) ==
    \/ \E op \in Ops : Call(t, op)
    \/ ReadLast(t) \/ Claim(t) \/ LoadForDeposit(t) \/ Deposit(t)
    \/ LoadForConsume(t) \/ Consume(t) \/ Refuse(t)

Next == Tick \/ \E t \in Threads : Step(t)

Spec == Init /\ [][Next]_vars

-----------------------------------------------------------------------------

(* A thread about to consume saw enough tokens for it. *)
SeenEnough == \A t \in Threads : At(t, "consume") => thread[t].current >= Scale

(* The bucket never holds more than its capacity and never less than        *)
(* nothing, although deposits and consumption are a read and a later write. *)
BalanceInv == TypeOK /\ SeenEnough /\ tokens <= Capacity

\* last_refill and what a thread is about to claim end where the clock was.
ClaimsFit ==
    /\ clock <= latest /\ last_refill <= latest
    /\ \A t \in Threads :
        /\ thread[t].pc \in {"last", "claim"} => thread[t].now <= latest
        /\ At(t, "claim") => /\ thread[t].last < thread[t].now
                             /\ thread[t].add = Earned(thread[t].last, thread[t].now)

\* While nobody consumes a token the bucket holds no less than the advice
\* was computed from.
AdviceFits ==
    \A t \in Threads : advice[t] # NoAdvice =>
        /\ advice[t].spent <= spent
        /\ advice[t].spent = spent =>
              \E held \in 0 .. tokens :
                  /\ ~RetryAfterPanics(held)
                  /\ advice[t].until = advice[t].at + RetryAfter(held) * PerSecond

(* The balance, the intervals that threads claim and the advice they were   *)
(* given fit together at any time.                                          *)
BucketInv == BalanceInv /\ ClaimsFit /\ AdviceFits

(* Over any history the requests let through cost no more than one full     *)
(* bucket and what the elapsed time earned, however refills and consumption *)
(* interleave and wherever the clock steps: no interval is paid out twice.  *)
RateIsBounded ==
    spent * PerSecond <= Capacity * PerSecond + latest * Rate

\* the time of t's advice has come and nobody consumed a token since
AdviceDue(t) ==
    /\ advice[t] # NoAdvice
    /\ clock >= advice[t].until
    /\ spent = advice[t].spent

\* what a request finds after its refill, no other thread in between
Available == Filled(tokens, IF clock > last_refill THEN Earned(last_refill, clock) ELSE 0)

Quiet == \A t \in Threads : thread[t].pc \in {"idle", "last"}

(* retry_after is long enough as long as nobody refills the bucket on the   *)
(* way and the clock was not behind the last refill: the refused request    *)
(* finds its token.                                                         *)
RetryAfterUndisturbed ==
    \A t \in Threads :
        /\ AdviceDue(t) /\ Quiet
        /\ advice[t].refill = last_refill /\ advice[t].refill <= advice[t].at
        => Available >= Scale

(* "Get seconds until at least one token is available": the same, whoever   *)
(* else looks at the bucket meanwhile without taking from it.               *)
RetryAfterIsEnough ==
    \A t \in Threads : AdviceDue(t) /\ Quiet => Available >= Scale

=============================================================================
