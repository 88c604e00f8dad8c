-------------------------- MODULE TokenBucketProofs --------------------------
(***************************************************************************)
(* Proofs about the token bucket for any number of threads, any rate and    *)
(* any clock: its balance stays between zero and the capacity, no interval  *)
(* is paid out twice, and retry_after is long enough when undisturbed.      *)
(* Then about the other counters of a project, QuotaService.                *)
(***************************************************************************)
EXTENDS TokenBucket, QuotaService, TLAPS, FiniteSetTheorems

(* Integer division, and what of products the bounds below need.            *)
LEMMA Quotient ==
    ASSUME NEW x \in Nat, NEW y \in Nat \ {0}
    PROVE  (x \div y) \in Nat /\ (x \div y) * y <= x /\ x < (x \div y) * y + y
  BY SMT

(* A quotient is at least what fits into it. *)
LEMMA QuotientAtLeast ==
    ASSUME NEW x \in Nat, NEW y \in Nat \ {0}, NEW k \in Nat, k * y <= x
    PROVE  k <= x \div y
<1>1. (x \div y) \in Nat /\ x < (x \div y) * y + y
  BY Quotient
<1> QED BY <1>1, SMT

(* A product with a sum is a sum of products. *)
LEMMA Distributes ==
    ASSUME NEW a \in Nat, NEW b \in Nat, NEW c \in Nat
    PROVE  (a + b) * c = a * c + b * c /\ a * c \in Nat
  BY SMT

(* Sums compare as their parts do. *)
LEMMA SumsCompare ==
    ASSUME NEW a \in Nat, NEW b \in Nat, NEW c \in Nat, NEW d \in Nat, a <= c, b <= d
    PROVE  a + b <= c + d
  OBVIOUS

(* A product grows with its factor. *)
LEMMA ProductMonotone ==
    ASSUME NEW a \in Nat, NEW b \in Nat, NEW c \in Nat, a <= b
    PROVE  a * c <= b * c
  BY SMT

(* An interval that goes forward earns a natural number of scaled tokens. *)
LEMMA EarnedType ==
    ASSUME NEW a \in Nat, NEW b \in Nat, a < b
    PROVE  Earned(a, b) \in Nat
<1> DEFINE x == (b - a) * Rate
<1>1. b - a \in Nat
  OBVIOUS
<1>2. x \in Nat
  BY <1>1, BucketConstants
<1>3. \A y \in Nat : y \div PerSecond \in Nat
  BY BucketConstants
<1> QED BY <1>2, <1>3 DEF Earned

(* A deposit never leaves more than the capacity. *)
LEMMA FilledWithin ==
    ASSUME NEW current \in Nat, NEW add \in Nat
    PROVE  Filled(current, add) \in Nat /\ Filled(current, add) <= Capacity
  BY BucketConstants DEF Filled

(* retry_after answers a natural number of seconds. *)
LEMMA RetryAfterType ==
    ASSUME NEW current \in Nat, ~RetryAfterPanics(current)
    PROVE  RetryAfter(current) * PerSecond \in Nat
<1>1. CASE current >= Scale
  BY <1>1, BucketConstants DEF RetryAfter
<1>2. CASE ~ (current >= Scale)
  <2>r. Rate \in Nat \ {0}
    BY <1>2, BucketConstants DEF RetryAfterPanics
  <2>1. Scale - current + Rate - 1 \in Nat
    BY <1>2, <2>r, BucketConstants
  <2>2. \A y \in Nat : y \div Rate \in Nat
    BY <2>r
  <2>3. RetryAfter(current) \in Nat
    BY <1>2, <2>1, <2>2 DEF RetryAfter
  <2> QED BY <2>3, BucketConstants
<1> QED BY <1>1, <1>2

(* A thread that goes on with a well-formed local state, and does not go on *)
(* to consume unless it saw enough, keeps what the invariant says of it.    *)
LEMMA BecomesKeeps ==
    ASSUME BalanceInv, NEW t \in Threads, NEW r \in Local, Becomes(t, r),
           r.pc = "consume" => r.current >= Scale
    PROVE  thread' \in [Threads -> Local] /\ SeenEnough'
  BY DEF BalanceInv, TypeOK, SeenEnough, At, Becomes

(* The local state of a returned call. *)
LEMMA IdleIsLocal == Idle \in Local /\ Idle.pc = "idle"
  BY DEF Idle, Local, PC, Ops

(* Returning from refill() keeps the threads' records. *)
LEMMA RefilledKeeps ==
    ASSUME BalanceInv, NEW t \in Threads, Refilled(t)
    PROVE  thread' \in [Threads -> Local] /\ SeenEnough'
<1> DEFINE r == [Idle EXCEPT !.pc = "take", !.op = "try_consume"]
<1>1. r \in Local /\ r.pc = "take"
  BY DEF Idle, Local, PC, Ops
<1>2. CASE Becomes(t, r)
  BY <1>1, <1>2, BecomesKeeps
<1>3. CASE Return(t)
  BY <1>3, IdleIsLocal, BecomesKeeps DEF Return
<1> QED BY <1>2, <1>3 DEF Refilled

(* Every step of a thread and of the clock keeps the balance in its bounds. *)
LEMMA BalanceStep ==
    ASSUME BalanceInv, [Next]_vars
    PROVE  BalanceInv'
<1> USE BucketConstants
<1>1. CASE Tick
  BY <1>1 DEF Tick, BalanceInv, TypeOK, SeenEnough, At
<1>2. ASSUME NEW t \in Threads, NEW op \in Ops, Call(t, op)
      PROVE  BalanceInv'
  <2> DEFINE r == [thread[t] EXCEPT !.pc = "last", !.op = op, !.now = clock]
  <2>1. r \in Local /\ r.pc = "last"
    BY DEF BalanceInv, TypeOK, Local, PC
  <2>2. advice' \in [Threads -> [at : Nat, until : Int, refill : Nat, spent : Nat]]
    BY <1>2 DEF Call, NoAdvice, BalanceInv, TypeOK
  <2> QED BY <1>2, <2>1, <2>2, BecomesKeeps DEF Call, BalanceInv, TypeOK
<1>3. ASSUME NEW t \in Threads, ReadLast(t)
      PROVE  BalanceInv'
  <2> DEFINE add == Earned(last_refill, thread[t].now)
             r == [thread[t] EXCEPT !.pc = "claim", !.last = last_refill, !.add = add]
  <2>1. thread[t] \in Local /\ thread[t].now \in Nat /\ last_refill \in Nat
    BY DEF BalanceInv, TypeOK, Local
  <2>2. thread' \in [Threads -> Local] /\ SeenEnough'
    <3>1. CASE Refilled(t)
      BY <3>1, RefilledKeeps
    <3>2. CASE last_refill < thread[t].now /\ Becomes(t, r)
      <4>1. add \in Nat
        BY <2>1, <3>2, EarnedType
      <4>2. r \in Local /\ r.pc = "claim"
        BY <2>1, <4>1 DEF Local, PC
      <4> QED BY <3>2, <4>2, BecomesKeeps
    <3> QED BY <1>3, <2>1, <3>1, <3>2 DEF ReadLast
  <2> QED BY <1>3, <2>2 DEF ReadLast, BalanceInv, TypeOK
<1>4. ASSUME NEW t \in Threads, Claim(t)
      PROVE  BalanceInv'
  <2> DEFINE r == [thread[t] EXCEPT !.pc = "load"]
  <2>1. thread[t] \in Local /\ thread[t].now \in Nat
    BY DEF BalanceInv, TypeOK, Local
  <2>2. r \in Local /\ r.pc = "load"
    BY <2>1 DEF Local, PC
  <2>3. thread' \in [Threads -> Local] /\ SeenEnough'
    BY <1>4, <2>2, BecomesKeeps, RefilledKeeps DEF Claim
  <2> QED BY <1>4, <2>1, <2>3 DEF Claim, BalanceInv, TypeOK
<1>5. ASSUME NEW t \in Threads, LoadForDeposit(t)
      PROVE  BalanceInv'
  <2> DEFINE r == [thread[t] EXCEPT !.pc = "deposit", !.current = tokens]
  <2>1. r \in Local /\ r.pc = "deposit"
    BY DEF BalanceInv, TypeOK, Local, PC
  <2> QED BY <1>5, <2>1, BecomesKeeps DEF LoadForDeposit, BalanceInv, TypeOK
<1>6. ASSUME NEW t \in Threads, Deposit(t)
      PROVE  BalanceInv'
  <2> DEFINE r == [thread[t] EXCEPT !.pc = "load"]
  <2>1. thread[t] \in Local /\ thread[t].add \in Nat
    BY DEF BalanceInv, TypeOK, Local
  <2>2. r \in Local /\ r.pc = "load"
    BY <2>1 DEF Local, PC
  <2>3. CASE tokens' = Filled(tokens, thread[t].add) /\ Refilled(t)
    <3>1. tokens' \in Nat /\ tokens' <= Capacity
      BY <2>1, <2>3, FilledWithin DEF BalanceInv, TypeOK
    <3> QED BY <1>6, <2>3, <3>1, RefilledKeeps DEF Deposit, BalanceInv, TypeOK
  <2>4. CASE Becomes(t, r) /\ UNCHANGED tokens
    BY <1>6, <2>2, <2>4, BecomesKeeps DEF Deposit, BalanceInv, TypeOK
  <2> QED BY <1>6, <2>3, <2>4 DEF Deposit
<1>7. ASSUME NEW t \in Threads, LoadForConsume(t)
      PROVE  BalanceInv'
  <2>1. thread[t] \in Local /\ tokens \in Nat /\ Scale \in Nat
    BY BucketConstants DEF BalanceInv, TypeOK
  <2>2. CASE tokens < Scale
    <3> DEFINE r == [thread[t] EXCEPT !.pc = "refused", !.current = tokens]
    <3>1. r \in Local /\ r.pc = "refused"
      BY <2>1 DEF Local, PC
    <3>2. Becomes(t, r)
      BY <1>7, <2>2 DEF LoadForConsume
    <3> QED BY <1>7, <3>1, <3>2, BecomesKeeps DEF LoadForConsume, BalanceInv, TypeOK
  <2>3. CASE ~(tokens < Scale)
    <3> DEFINE r == [thread[t] EXCEPT !.pc = "consume", !.current = tokens]
    <3>1. r \in Local
      BY <2>1 DEF Local, PC
    <3>2. r.current >= Scale
      BY <2>1, <2>3 DEF Local
    <3>3. Becomes(t, r)
      BY <1>7, <2>3 DEF LoadForConsume
    <3> QED BY <1>7, <3>1, <3>2, <3>3, BecomesKeeps DEF LoadForConsume, BalanceInv, TypeOK
  <2> QED BY <2>2, <2>3
<1>8. ASSUME NEW t \in Threads, Consume(t)
      PROVE  BalanceInv'
  <2> DEFINE r == [thread[t] EXCEPT !.pc = "take"]
  <2>1. r \in Local /\ r.pc = "take"
    BY DEF BalanceInv, TypeOK, Local, PC
  <2>2. CASE /\ tokens = thread[t].current /\ tokens' = tokens - Scale
             /\ spent' = spent + Scale /\ Return(t)
    <3>1. tokens >= Scale
      BY <1>8, <2>2 DEF Consume, BalanceInv, SeenEnough
    <3>2. tokens' \in Nat /\ tokens' <= Capacity /\ spent' \in Nat
      BY <2>2, <3>1 DEF BalanceInv, TypeOK
    <3> QED
      BY <1>8, <2>2, <3>2, IdleIsLocal, BecomesKeeps DEF Consume, Return, BalanceInv, TypeOK
  <2>3. CASE Becomes(t, r) /\ UNCHANGED <<tokens, spent>>
    BY <1>8, <2>1, <2>3, BecomesKeeps DEF Consume, BalanceInv, TypeOK
  <2> QED BY <1>8, <2>2, <2>3 DEF Consume
<1>9. ASSUME NEW t \in Threads, Refuse(t)
      PROVE  BalanceInv'
  <2>1. ~RetryAfterPanics(tokens) => clock + RetryAfter(tokens) * PerSecond \in Int
    BY RetryAfterType DEF BalanceInv, TypeOK
  <2>2. advice' \in [Threads -> [at : Nat, until : Int, refill : Nat, spent : Nat]]
    <3>1. CASE RetryAfterPanics(tokens)
      BY <1>9, <3>1 DEF Refuse, BalanceInv, TypeOK
    <3>2. CASE ~RetryAfterPanics(tokens)
      BY <1>9, <2>1, <3>2 DEF Refuse, BalanceInv, TypeOK
    <3> QED BY <3>1, <3>2
  <2> QED
    BY <1>9, <2>2, IdleIsLocal, BecomesKeeps DEF Refuse, Return, BalanceInv, TypeOK
<1>10. CASE UNCHANGED vars
  BY <1>10 DEF vars, BalanceInv, TypeOK, SeenEnough, At
<1> QED
  BY <1>1, <1>2, <1>3, <1>4, <1>5, <1>6, <1>7, <1>8, <1>9, <1>10 DEF Next, Step

(* What a step does to the thread that takes it, and to nothing else.       *)
LEMMA ThreadsStep ==
    ASSUME BalanceInv, NEW t \in Threads, Step(t)
    PROVE  /\ \A u \in Threads \ {t} : thread'[u] = thread[u] /\ advice'[u] = advice[u]
           /\ UNCHANGED <<clock, latest>>
           /\ \/ UNCHANGED last_refill
              \/ last_refill = thread[t].last /\ last_refill' = thread[t].now /\ At(t, "claim")
<1>1. thread \in [Threads -> Local]
  BY DEF BalanceInv, TypeOK
<1>2. \A r : Becomes(t, r) => \A u \in Threads \ {t} : thread'[u] = thread[u]
  BY <1>1 DEF Becomes
<1>3. \A u \in Threads \ {t} : thread'[u] = thread[u]
  BY <1>2 DEF Step, Call, ReadLast, Claim, LoadForDeposit, Deposit, LoadForConsume, Consume, Refuse,
     Refilled, Return
<1>4. \A u \in Threads \ {t} : advice'[u] = advice[u]
  BY DEF Step, Call, ReadLast, Claim, LoadForDeposit, Deposit, LoadForConsume, Consume, Refuse,
     BalanceInv, TypeOK
<1>5. /\ UNCHANGED <<clock, latest>>
      /\ \/ UNCHANGED last_refill
         \/ last_refill = thread[t].last /\ last_refill' = thread[t].now /\ At(t, "claim")
  <2>1. CASE Claim(t)
    BY <2>1 DEF Claim
  <2> QED BY <2>1 DEF Step, Call, ReadLast, LoadForDeposit, Deposit, LoadForConsume, Consume, Refuse
<1> QED BY <1>3, <1>4, <1>5

(* What the thread itself goes on with.                                     *)
LEMMA RefilledTo ==
    ASSUME BalanceInv, NEW t \in Threads, Refilled(t)
    PROVE  thread'[t].pc \in {"idle", "take"}
<1>1. thread \in [Threads -> Local]
  BY DEF BalanceInv, TypeOK
<1>2. \A r : Becomes(t, r) => thread'[t] = r
  BY <1>1 DEF Becomes
<1>3. Idle.pc = "idle" /\ [Idle EXCEPT !.pc = "take", !.op = "try_consume"].pc = "take"
  BY DEF Idle
<1> QED BY <1>2, <1>3 DEF Refilled, Return

(* Only a thread that read last_refill is about to claim, and it claims     *)
(* what the interval from there to its own reading of the clock earned.     *)
LEMMA ClaimsFitStep ==
    ASSUME BucketInv, [Next]_vars, BalanceInv'
    PROVE  ClaimsFit'
<1> BalanceInv /\ ClaimsFit /\ clock \in Nat /\ clock' \in Nat /\ latest \in Nat /\ latest' \in Nat
    /\ last_refill \in Nat /\ last_refill' \in Nat /\ thread \in [Threads -> Local]
  BY DEF BucketInv, BalanceInv, TypeOK
<1>1. CASE Tick
  BY <1>1 DEF Tick, ClaimsFit, At, Local
<1>2. CASE UNCHANGED vars
  BY <1>2 DEF vars, ClaimsFit, At
<1>3. ASSUME NEW t \in Threads, Step(t)
      PROVE  ClaimsFit'
  <2>1. /\ \A u \in Threads \ {t} : thread'[u] = thread[u]
        /\ clock' = clock /\ latest' = latest /\ last_refill' <= latest
    BY <1>3, ThreadsStep DEF ClaimsFit, At
  <2>2. /\ thread'[t].pc \in {"last", "claim"} => thread'[t].now <= latest
        /\ thread'[t].pc = "claim" =>
              /\ thread'[t].last < thread'[t].now
              /\ thread'[t].add = Earned(thread'[t].last, thread'[t].now)
    <3>1. CASE \E op \in Ops : Call(t, op)
      BY <3>1 DEF Call, Becomes, Local, ClaimsFit
    <3>2. CASE ReadLast(t)
      <4>1. CASE Refilled(t)
        BY <4>1, RefilledTo
      <4>2. CASE /\ last_refill < thread[t].now
                 /\ Becomes(t, [thread[t] EXCEPT !.pc = "claim", !.last = last_refill,
                                                 !.add = Earned(last_refill, thread[t].now)])
        BY <3>2, <4>2 DEF ReadLast, Becomes, Local, ClaimsFit, At
      <4>3. thread[t].now \in Nat
        BY DEF Local
      <4> QED BY <3>2, <4>1, <4>2, <4>3 DEF ReadLast
    <3>3. CASE Claim(t) \/ Deposit(t)
      BY <3>3, RefilledTo DEF Claim, Deposit, Becomes, Local
    <3>4. CASE LoadForDeposit(t) \/ LoadForConsume(t) \/ Consume(t) \/ Refuse(t)
      <4>1. \A r : Becomes(t, r) => thread'[t] = r
        BY DEF Becomes
      <4>2. thread[t] \in Local
        OBVIOUS
      <4>3. CASE LoadForDeposit(t) \/ LoadForConsume(t)
        BY <4>1, <4>2, <4>3 DEF LoadForDeposit, LoadForConsume, Local
      <4>4. CASE Consume(t) \/ Refuse(t)
        BY <4>1, <4>2, <4>4 DEF Consume, Refuse, Return, Local, Idle
      <4> QED BY <3>4, <4>3, <4>4
    <3> QED BY <1>3, <3>1, <3>2, <3>3, <3>4 DEF Step
  <2> QED BY <2>1, <2>2 DEF ClaimsFit, At
<1> QED BY <1>1, <1>2, <1>3 DEF Next

(* Tokens are only added between two consumptions, so the advice a thread   *)
(* was given rests on no more tokens than there are.                        *)
LEMMA AdviceFitsStep ==
    ASSUME BucketInv, [Next]_vars, BalanceInv'
    PROVE  AdviceFits'
<1> /\ BalanceInv /\ AdviceFits /\ thread \in [Threads -> Local]
    /\ tokens \in Nat /\ tokens' \in Nat /\ spent \in Nat /\ spent' \in Nat
    /\ tokens <= Capacity
  BY DEF BucketInv, BalanceInv, TypeOK
<1>1. ASSUME (spent' = spent /\ tokens' >= tokens) \/ spent' > spent,
             NEW t \in Threads, advice'[t] = advice[t], advice[t] # NoAdvice
      PROVE  /\ advice'[t].spent <= spent'
             /\ advice'[t].spent = spent' =>
                   \E held \in 0 .. tokens' :
                       /\ ~RetryAfterPanics(held)
                       /\ advice'[t].until = advice'[t].at + RetryAfter(held) * PerSecond
  <2>1. advice[t].spent \in Nat /\ advice[t].spent <= spent
    BY <1>1 DEF BalanceInv, TypeOK, AdviceFits
  <2>2. CASE spent' > spent
    BY <1>1, <2>1, <2>2
  <2>3. CASE spent' = spent /\ tokens' >= tokens
    <3>1. 0 .. tokens \subseteq 0 .. tokens'
      BY <2>3
    <3> QED BY <1>1, <2>1, <2>3, <3>1 DEF AdviceFits
  <2> QED BY <1>1, <2>2, <2>3
<1>2. CASE Tick \/ UNCHANGED vars
  BY <1>1, <1>2 DEF Tick, vars, AdviceFits
<1>3. ASSUME NEW t \in Threads, Step(t)
      PROVE  AdviceFits'
  <2>1. (spent' = spent /\ tokens' >= tokens) \/ spent' > spent
    <3>1. CASE Deposit(t)
      <4>1. thread[t].add \in Nat
        BY DEF Local
      <4> QED BY <3>1, <4>1, BucketConstants DEF Deposit, Filled
    <3>2. CASE Consume(t)
      <4>1. CASE UNCHANGED <<tokens, spent>>
        BY <4>1
      <4>2. CASE spent' = spent + Scale
        BY <4>2, BucketConstants
      <4> QED BY <3>2, <4>1, <4>2 DEF Consume
    <3>3. CASE UNCHANGED <<tokens, spent>>
      BY <3>3
    <3>4. Deposit(t) \/ Consume(t) \/ UNCHANGED <<tokens, spent>>
      BY <1>3 DEF Step, Call, ReadLast, Claim, LoadForDeposit, LoadForConsume, Refuse
    <3> QED BY <3>1, <3>2, <3>3, <3>4
  <2>2. CASE advice'[t] = advice[t] \/ advice'[t] = NoAdvice
    BY <1>1, <1>3, <2>1, <2>2, ThreadsStep DEF AdviceFits
  <2>3. CASE Refuse(t) /\ ~RetryAfterPanics(tokens)
    <3>1. /\ advice'[t].spent = spent /\ spent' = spent /\ tokens' = tokens
          /\ advice'[t].until = advice'[t].at + RetryAfter(tokens) * PerSecond
      BY <2>3 DEF Refuse, BalanceInv, TypeOK
    <3>2. tokens \in 0 .. tokens'
      BY <3>1
    <3> QED BY <1>1, <1>3, <2>1, <2>3, <3>1, <3>2, ThreadsStep DEF AdviceFits
  <2>4. \/ Refuse(t) /\ ~RetryAfterPanics(tokens)
        \/ advice'[t] = advice[t] \/ advice'[t] = NoAdvice
    BY <1>3 DEF Step, Call, ReadLast, Claim, LoadForDeposit, Deposit, LoadForConsume, Consume,
       Refuse, BalanceInv, TypeOK
  <2> QED BY <2>2, <2>3, <2>4
<1> QED BY <1>2, <1>3 DEF Next

(* The invariant holds of the bucket as it starts.                          *)
LEMMA BucketInvInit == Init => BucketInv
<1> SUFFICES ASSUME Init PROVE BucketInv
  OBVIOUS
<1>1. BalanceInv
  BY BucketConstants DEF Init, BalanceInv, TypeOK, SeenEnough, At, Local, PC, Ops, Idle, NoAdvice
<1>2. ClaimsFit /\ AdviceFits
  BY DEF Init, ClaimsFit, AdviceFits, At, Idle
<1> QED BY <1>1, <1>2 DEF BucketInv

(* Every step keeps the invariant.                                          *)
LEMMA BucketInvStep == BucketInv /\ [Next]_vars => BucketInv'
<1> SUFFICES ASSUME BucketInv, [Next]_vars PROVE BucketInv'
  OBVIOUS
<1>1. BalanceInv'
  BY BalanceStep DEF BucketInv
<1> QED BY <1>1, ClaimsFitStep, AdviceFitsStep DEF BucketInv

(* quota/bucket.rs: the number of tokens never exceeds the capacity and     *)
(* never wraps below zero (tokens is unsigned), whatever threads share it.  *)
THEOREM BucketInvariant ==
    Spec => []BucketInv
<1> QED BY BucketInvInit, BucketInvStep, PTL DEF Spec

-----------------------------------------------------------------------------
(* The refused request finds its token.                                     *)

(* retry_after(held) seconds earn what held tokens lack.                    *)
LEMMA RetryEarnsEnough ==
    ASSUME NEW held \in Nat, held < Scale, ~RetryAfterPanics(held), NEW from \in Nat, NEW to \in Nat,
           to - from >= RetryAfter(held) * PerSecond
    PROVE  from < to /\ Earned(from, to) \in Nat /\ held + Earned(from, to) >= Scale
<1> DEFINE secs == RetryAfter(held)
<1>1. secs \in Nat \ {0} /\ secs * Rate >= Scale - held
  <2> DEFINE x == Scale - held + Rate - 1
  <2>1. x \in Nat /\ Rate \in Nat \ {0}
    BY BucketConstants DEF RetryAfterPanics
  <2>2. x \div Rate \in Nat /\ x < (x \div Rate) * Rate + Rate
    BY <2>1, Quotient
  <2>3. secs \in Nat \ {0} /\ secs >= x \div Rate
    BY <2>1, <2>2, BucketConstants DEF RetryAfter
  <2>4. secs * Rate >= (x \div Rate) * Rate /\ secs * Rate \in Nat /\ (x \div Rate) * Rate \in Nat
    BY <2>1, <2>2, <2>3, ProductMonotone, Distributes
  <2> QED BY <2>1, <2>2, <2>3, <2>4, BucketConstants
<1> HIDE DEF secs
<1> DEFINE d == to - from
<1>2. /\ secs * PerSecond \in Nat \ {0} /\ d \in Nat \ {0} /\ d >= secs * PerSecond
      /\ PerSecond \in Nat \ {0} /\ Rate \in Nat
  <2>1. secs * PerSecond \in Nat \ {0}
    BY <1>1, BucketConstants, SMT
  <2> QED BY <2>1, BucketConstants DEF secs
<1> HIDE DEF d
<1>3. (secs * PerSecond) * Rate <= d * Rate /\ d * Rate \in Nat
  BY <1>2, ProductMonotone, Distributes
<1>4. (secs * PerSecond) * Rate = (secs * Rate) * PerSecond /\ secs * Rate \in Nat
  BY <1>1, <1>2, SMT
<1>5. secs * Rate <= (d * Rate) \div PerSecond
  BY <1>2, <1>3, <1>4, QuotientAtLeast
<1>6. (d * Rate) \div PerSecond \in Nat
  BY <1>2, <1>3, Quotient
<1>7. Earned(from, to) = (d * Rate) \div PerSecond /\ from < to
  BY <1>2 DEF Earned, d
<1> QED BY <1>1, <1>4, <1>5, <1>6, <1>7, BucketConstants

(* retry_after, while nobody refills the bucket and no request is let       *)
(* through: after the seconds it names the request finds a token.           *)
THEOREM RetryAfterSuffices == Spec => []RetryAfterUndisturbed
<1>1. BucketInv => RetryAfterUndisturbed
  <2> SUFFICES ASSUME BucketInv, NEW t \in Threads, AdviceDue(t),
                      advice[t].refill = last_refill, advice[t].refill <= advice[t].at
               PROVE  Available >= Scale
    BY DEF RetryAfterUndisturbed
  <2> /\ TypeOK /\ tokens \in Nat /\ tokens <= Capacity /\ clock \in Nat /\ last_refill \in Nat
      /\ advice[t].at \in Nat
    BY DEF BucketInv, BalanceInv, TypeOK
  <2>1. PICK held \in 0 .. tokens :
           /\ ~RetryAfterPanics(held)
           /\ advice[t].until = advice[t].at + RetryAfter(held) * PerSecond
    BY DEF BucketInv, AdviceFits, AdviceDue
  <2> DEFINE earned == IF clock > last_refill THEN Earned(last_refill, clock) ELSE 0
  <2>2. earned \in Nat
    BY EarnedType
  <2>3. CASE tokens >= Scale
    BY <2>2, <2>3, BucketConstants DEF Available, Filled
  <2>4. CASE ~(tokens >= Scale)
    <3>1. RetryAfter(held) * PerSecond \in Nat
      BY <2>1, RetryAfterType
    <3>2. clock - last_refill >= RetryAfter(held) * PerSecond
      BY <2>1, <3>1 DEF AdviceDue
    <3>3. held + earned >= Scale
      BY <2>1, <2>4, <3>2, RetryEarnsEnough, BucketConstants
    <3> HIDE DEF earned
    <3>4. Filled(tokens, earned) >= Scale
      BY <2>1, <2>2, <3>3, BucketConstants DEF Filled
    <3> QED BY <3>4 DEF Available, earned
  <2> QED BY <2>3, <2>4
<1> QED BY <1>1, BucketInvariant, PTL

-----------------------------------------------------------------------------
(* No interval is paid out twice.                                           *)

\* What a thread has claimed and not deposited yet.
Owed(t) == IF thread[t].pc \in {"load", "deposit"} THEN thread[t].add ELSE 0

\* sum[i] is what the first i of the given debts come to, total all of them.
Sums(n, owed, sum, total) ==
    /\ owed \in [1 .. n -> Nat] /\ sum \in [0 .. n -> Nat]
    /\ sum[0] = 0 /\ sum[n] = total
    /\ \A i \in 1 .. n : sum[i] = sum[i - 1] + owed[i]
    /\ \A i, j \in 0 .. n : i <= j => sum[i] <= sum[j]

\* The tokens that were spent, that are in the bucket and that the threads,
\* in the given order, owe to it were there at the start or were earned up to
\* last_refill.
Accounted(n, order) ==
    \E owed, sum : \E total \in Nat, earned \in Nat :
        /\ \A i \in 1 .. n : owed[i] = Owed(order[i])
        /\ Sums(n, owed, sum, total)
        /\ spent + tokens + total <= Capacity + earned
        /\ earned * PerSecond <= last_refill * Rate

\* Only the debt at k changes, from a to b.
Changes(n, k, owed, owed1, a, b) ==
    /\ owed1 \in [1 .. n -> Nat]
    /\ \A i \in 1 .. n : IF i = k THEN owed[i] = a /\ owed1[i] = b ELSE owed1[i] = owed[i]

(* When what one thread owes changes, the sums change from it on.           *)
LEMMA SumsStep ==
    ASSUME NEW n \in Nat, NEW k \in 1 .. n, NEW a \in Nat, NEW b \in Nat, NEW total \in Nat,
           NEW owed, NEW owed1, NEW sum, Sums(n, owed, sum, total), Changes(n, k, owed, owed1, a, b)
    PROVE  total - a + b \in Nat /\ \E next : Sums(n, owed1, next, total - a + b)
<1> DEFINE next == [i \in 0 .. n |-> IF i < k THEN sum[i] ELSE sum[i] - a + b]
<1>1. /\ sum \in [0 .. n -> Nat] /\ sum[0] = 0 /\ sum[n] = total
      /\ \A i \in 1 .. n : sum[i] = sum[i - 1] + owed[i] /\ owed[i] \in Nat
      /\ \A i, j \in 0 .. n : i <= j => sum[i] <= sum[j]
  BY DEF Sums
<1>2. /\ k \in 0 .. n /\ k - 1 \in 0 .. n /\ n \in 0 .. n
      /\ \A i \in 1 .. n : i \in 0 .. n /\ i - 1 \in 0 .. n
      /\ \A i \in 1 .. n : i # k => owed1[i] = owed[i]
      /\ \A i \in 1 .. n : i = k => owed[i] = a /\ owed1[i] = b
  BY DEF Changes
<1>3. ASSUME NEW i \in 0 .. n, ~(i < k)
      PROVE  sum[i] \in Nat /\ sum[k - 1] \in Nat /\ sum[i] >= sum[k - 1] + a
  <2>1. sum[k] <= sum[i] /\ sum[i] \in Nat /\ sum[k - 1] \in Nat
    BY <1>1, <1>2, <1>3
  <2>2. sum[k] = sum[k - 1] + a
    BY <1>1, <1>2
  <2> QED BY <2>1, <2>2
<1>4. \A i \in 0 .. n : ~(i < k) => sum[i] - a + b \in Nat
  BY <1>3
<1>5. \A i \in 0 .. n : sum[i] \in Nat
  BY <1>1
<1>6. /\ next \in [0 .. n -> Nat]
      /\ \A i \in 0 .. n : i < k => next[i] = sum[i]
      /\ \A i \in 0 .. n : ~(i < k) => next[i] = sum[i] - a + b
  BY <1>4, <1>5
<1> HIDE DEF next
<1>7. next[0] = 0
  BY <1>1, <1>2, <1>6
<1>8. ASSUME NEW i \in 1 .. n
      PROVE  next[i] = next[i - 1] + owed1[i]
  <2>1. /\ sum[i] = sum[i - 1] + owed[i] /\ owed[i] \in Nat
        /\ sum[i - 1] \in Nat /\ sum[i] \in Nat /\ i \in 0 .. n /\ i - 1 \in 0 .. n
    BY <1>1, <1>2, <1>5
  <2>2. CASE i = k
    <3>1. i - 1 < k /\ ~(i < k) /\ owed1[i] = b /\ owed[i] = a
      BY <1>2, <2>2
    <3>2. next[i] = sum[i] - a + b /\ next[i - 1] = sum[i - 1]
      BY <1>6, <2>1, <3>1
    <3> QED BY <2>1, <3>1, <3>2
  <2>3. CASE i < k
    <3>1. next[i] = sum[i] /\ next[i - 1] = sum[i - 1] /\ owed1[i] = owed[i]
      BY <1>2, <1>6, <2>1, <2>3
    <3> QED BY <2>1, <3>1
  <2>4. CASE i > k
    <3>0. ~(i < k) /\ ~(i - 1 < k) /\ i # k
      BY <1>2, <2>4
    <3>1. next[i] = sum[i] - a + b /\ next[i - 1] = sum[i - 1] - a + b /\ owed1[i] = owed[i]
      BY <1>2, <1>6, <2>1, <3>0
    <3> QED BY <2>1, <3>1
  <2> QED BY <2>2, <2>3, <2>4
<1>9. ASSUME NEW i \in 0 .. n, NEW j \in 0 .. n, i <= j
      PROVE  next[i] <= next[j]
  <2>1. sum[i] <= sum[j] /\ sum[i] \in Nat /\ sum[j] \in Nat
    BY <1>1, <1>5, <1>9
  <2>2. CASE j < k
    BY <1>6, <1>9, <2>1, <2>2
  <2>3. CASE ~(i < k)
    <3>1. next[i] = sum[i] - a + b /\ next[j] = sum[j] - a + b
      BY <1>2, <1>6, <1>9, <2>3
    <3> QED BY <2>1, <3>1
  <2>4. CASE i < k /\ ~(j < k)
    <3>1. sum[i] <= sum[k - 1] /\ sum[k - 1] \in Nat /\ sum[j] >= sum[k - 1] + a
      BY <1>1, <1>2, <1>3, <2>4
    <3>2. next[i] = sum[i] /\ next[j] = sum[j] - a + b
      BY <1>6, <2>4
    <3>3. sum[i] <= sum[j] - a + b
      BY <2>1, <3>1
    <3> QED BY <3>2, <3>3
  <2> QED BY <2>2, <2>3, <2>4
<1>10. next[n] = total - a + b /\ total - a + b \in Nat
  BY <1>1, <1>2, <1>4, <1>6
<1>11. owed1 \in [1 .. n -> Nat]
  BY DEF Changes
<1>12. Sums(n, owed1, next, total - a + b)
  BY <1>6, <1>7, <1>8, <1>9, <1>10, <1>11 DEF Sums
<1> QED BY <1>10, <1>12

(* Of the steps only Claim and Deposit change what a thread owes.           *)
LEMMA OwedStep ==
    ASSUME BucketInv, NEW t \in Threads, Step(t)
    PROVE  /\ Owed(t) \in Nat /\ Owed(t)' \in Nat
           /\ \A u \in Threads \ {t} : Owed(u)' = Owed(u)
           /\ \/ /\ Owed(t)' = Owed(t) /\ last_refill' = last_refill
                 /\ spent' + tokens' <= spent + tokens
              \/ /\ Owed(t) = 0 /\ Owed(t)' = Earned(last_refill, last_refill')
                 /\ last_refill < last_refill' /\ UNCHANGED <<tokens, spent>>
              \/ /\ Owed(t)' = 0 /\ last_refill' = last_refill
                 /\ spent' = spent /\ tokens' <= tokens + Owed(t)
<1> /\ BalanceInv /\ ClaimsFit /\ thread \in [Threads -> Local] /\ thread[t] \in Local
    /\ tokens \in Nat /\ spent \in Nat
  BY DEF BucketInv, BalanceInv, TypeOK
<1>1. \A r : Becomes(t, r) => thread'[t] = r
  BY DEF Becomes
<1>2. Owed(t) \in Nat
  BY DEF Owed, Local
<1>3. \A u \in Threads \ {t} : Owed(u)' = Owed(u)
  BY ThreadsStep DEF Owed
<1>4. Refilled(t) => Owed(t)' = 0
  BY RefilledTo DEF Owed
<1>same. UNCHANGED <<tokens, spent>> => spent' + tokens' <= spent + tokens
  OBVIOUS
<1>5. CASE \E op \in Ops : Call(t, op)
  <2>1. Owed(t)' = Owed(t)
    BY <1>1, <1>5 DEF Call, At, Owed, Local
  <2> QED BY <1>2, <1>3, <1>5, <1>same, <2>1 DEF Call
<1>6. CASE ReadLast(t)
  <2>1. Owed(t)' = 0
    <3>1. ASSUME Becomes(t, [thread[t] EXCEPT !.pc = "claim", !.last = last_refill,
                                              !.add = Earned(last_refill, thread[t].now)])
          PROVE  Owed(t)' = 0
      BY <1>1, <3>1 DEF Owed, Local
    <3> QED BY <1>4, <1>6, <3>1 DEF ReadLast
  <2> QED BY <1>2, <1>3, <1>6, <2>1 DEF ReadLast, At, Owed
<1>7. CASE Claim(t)
  <2>1. CASE Refilled(t) /\ UNCHANGED last_refill
    BY <1>2, <1>3, <1>4, <1>7, <2>1 DEF Claim, At, Owed
  <2>2. CASE /\ last_refill = thread[t].last /\ last_refill' = thread[t].now
             /\ Becomes(t, [thread[t] EXCEPT !.pc = "load"])
    <3>1. Owed(t)' = thread[t].add /\ thread[t].add \in Nat
      BY <1>1, <2>2 DEF Owed, Local
    <3>2. /\ Owed(t) = 0 /\ thread[t].add = Earned(last_refill, last_refill')
          /\ last_refill < last_refill'
      BY <1>7, <2>2 DEF Claim, At, Owed, ClaimsFit
    <3> QED BY <1>2, <1>3, <1>7, <3>1, <3>2 DEF Claim
  <2> QED BY <1>7, <2>1, <2>2 DEF Claim
<1>8. CASE LoadForDeposit(t)
  <2>1. Owed(t)' = Owed(t)
    BY <1>1, <1>8 DEF LoadForDeposit, At, Owed, Local
  <2> QED BY <1>2, <1>3, <1>8, <2>1 DEF LoadForDeposit
<1>9. CASE Deposit(t)
  <2>1. CASE tokens' = Filled(tokens, thread[t].add) /\ Refilled(t)
    <3>1. Owed(t) = thread[t].add
      BY <1>9 DEF Deposit, At, Owed
    <3>2. tokens' <= tokens + Owed(t)
      BY <1>2, <2>1, <3>1, BucketConstants DEF Filled
    <3> QED BY <1>2, <1>3, <1>4, <1>9, <2>1, <3>2 DEF Deposit
  <2>2. CASE Becomes(t, [thread[t] EXCEPT !.pc = "load"]) /\ UNCHANGED tokens
    <3>1. Owed(t)' = Owed(t)
      BY <1>1, <1>9, <2>2 DEF Deposit, At, Owed, Local
    <3> QED BY <1>2, <1>3, <1>9, <2>2, <3>1 DEF Deposit
  <2> QED BY <1>9, <2>1, <2>2 DEF Deposit
<1>10. CASE LoadForConsume(t) \/ Refuse(t)
  <2>1. CASE LoadForConsume(t)
    <3>1. Owed(t)' = Owed(t)
      BY <1>1, <2>1 DEF LoadForConsume, At, Owed, Local
    <3> QED BY <1>2, <1>3, <1>same, <2>1, <3>1 DEF LoadForConsume
  <2>2. CASE Refuse(t)
    BY <1>1, <1>3, <2>2 DEF Refuse, Return, At, Owed, Idle
  <2> QED BY <1>10, <2>1, <2>2
<1>11. CASE Consume(t)
  <2>1. Owed(t)' = 0 /\ Owed(t) = 0
    BY <1>1, <1>11 DEF Consume, Return, At, Owed, Local, Idle
  <2>2. last_refill' = last_refill /\ spent' + tokens' = spent + tokens
    BY <1>11, BucketConstants DEF Consume
  <2> QED BY <1>3, <2>1, <2>2
<1> QED BY <1>5, <1>6, <1>7, <1>8, <1>9, <1>10, <1>11 DEF Step

(* What the interval up to a claim earned fits under the rate.              *)
LEMMA EarnedFits ==
    ASSUME NEW from \in Nat, NEW to \in Nat, from < to,
           NEW earned \in Nat, earned * PerSecond <= from * Rate
    PROVE  (earned + Earned(from, to)) * PerSecond <= to * Rate
<1>1. PICK d \in Nat : d = to - from
  OBVIOUS
<1>2. PerSecond \in Nat \ {0} /\ PerSecond \in Nat /\ Rate \in Nat
  BY BucketConstants
<1>3. d * Rate \in Nat /\ from * Rate \in Nat /\ to * Rate = from * Rate + d * Rate
  <2>1. to = from + d
    BY <1>1
  <2> QED BY <1>2, <2>1, Distributes
<1>4. PICK b \in Nat : b = (d * Rate) \div PerSecond /\ b * PerSecond <= d * Rate
  BY <1>2, <1>3, Quotient
<1>5. (earned + b) * PerSecond = earned * PerSecond + b * PerSecond
      /\ earned * PerSecond \in Nat /\ b * PerSecond \in Nat
  BY <1>2, Distributes
<1>6. (earned + b) * PerSecond <= to * Rate
  BY <1>3, <1>4, <1>5, SumsCompare
<1>7. b = Earned(from, to)
  BY <1>1, <1>4 DEF Earned
<1> QED BY <1>6, <1>7

(* A sum of naturals is one. *)
LEMMA SumIsNat ==
    ASSUME NEW x \in Nat, NEW y \in Nat
    PROVE  x + y \in Nat
  OBVIOUS

(* Adding the same to both sides keeps their order. *)
LEMMA AddBoth ==
    ASSUME NEW x \in Nat, NEW y \in Nat, NEW o \in Nat, x <= y
    PROVE  x + o <= y + o
  OBVIOUS

(* What moves from one part of a sum to another leaves the sum alone. *)
LEMMA Regroup ==
    ASSUME NEW s \in Nat, NEW k \in Nat, NEW k1 \in Nat, NEW o \in Nat, k1 <= k + o
    PROVE  s + k1 + 0 <= s + k + o
  OBVIOUS

(* A bound stays when a debt a becomes b and the rest covers the difference. *)
LEMMA CarryOver ==
    ASSUME NEW x \in Nat, NEW y \in Nat, NEW m \in Nat, NEW a \in Nat, NEW b \in Nat,
           NEW c \in Nat, NEW e \in Nat, y + m <= c, x + b <= y + a + e
    PROVE  x + (m - a + b) <= c + e
  OBVIOUS

(* What a step adds to the tokens spent, held and owed is earned by the     *)
(* interval it moves last_refill over.                                      *)
LEMMA GainStep ==
    ASSUME BucketInv, BucketInv', NEW t \in Threads, Step(t),
           NEW earned \in Nat, earned * PerSecond <= last_refill * Rate
    PROVE  \E e \in Nat :
              /\ spent' + tokens' + Owed(t)' <= spent + tokens + Owed(t) + e
              /\ (earned + e) * PerSecond <= last_refill' * Rate
<1>0. /\ tokens \in Nat /\ spent \in Nat /\ last_refill \in Nat
      /\ tokens' \in Nat /\ spent' \in Nat /\ last_refill' \in Nat
  BY DEF BucketInv, BalanceInv, TypeOK
<1>sums. spent + tokens \in Nat /\ spent' + tokens' \in Nat
  BY <1>0, SumIsNat, Zenon
<1>owed. Owed(t) \in Nat /\ Owed(t)' \in Nat
  BY OwedStep
<1>1. CASE /\ Owed(t) = 0 /\ Owed(t)' = Earned(last_refill, last_refill')
           /\ last_refill < last_refill' /\ UNCHANGED <<tokens, spent>>
  <2>1. (earned + Owed(t)') * PerSecond <= last_refill' * Rate
    BY <1>0, <1>owed, <1>1, EarnedFits
  <2>2. spent' + tokens' + Owed(t)' <= spent + tokens + Owed(t) + Owed(t)'
    BY <1>0, <1>owed, <1>1
  <2> QED BY <1>0, <1>owed, <2>1, <2>2
<1>2. CASE last_refill' = last_refill /\ spent' + tokens' + Owed(t)' <= spent + tokens + Owed(t)
  <2>1. spent' + tokens' + Owed(t)' <= spent + tokens + Owed(t) + 0
    BY <1>0, <1>owed, <1>2
  <2>2. (earned + 0) * PerSecond <= last_refill' * Rate
    BY <1>2
  <2> QED BY <2>1, <2>2
<1>3. ASSUME Owed(t)' = Owed(t), spent' + tokens' <= spent + tokens
      PROVE  spent' + tokens' + Owed(t)' <= spent + tokens + Owed(t)
  <2>1. spent' + tokens' + Owed(t) <= spent + tokens + Owed(t)
    BY <1>sums, <1>owed, <1>3, AddBoth, Zenon
  <2> QED BY <1>3, <2>1, Zenon
<1>4. ASSUME Owed(t)' = 0, spent' = spent, tokens' <= tokens + Owed(t)
      PROVE  spent' + tokens' + Owed(t)' <= spent + tokens + Owed(t)
  <2>1. spent + tokens' + 0 <= spent + tokens + Owed(t)
    BY <1>0, <1>owed, <1>4, Regroup, Zenon
  <2> QED BY <1>4, <2>1, Zenon
<1> QED BY <1>1, <1>2, <1>3, <1>4, OwedStep, Zenon

(* The account is kept by every step.                                       *)
LEMMA AccountedStep ==
    ASSUME NEW n \in Nat, NEW order \in [1 .. n -> Threads],
           \A u \in Threads : \E k \in 1 .. n : order[k] = u,
           \A i, j \in 1 .. n : order[i] = order[j] => i = j,
           BucketInv, [Next]_vars, BucketInv', Accounted(n, order)
    PROVE  Accounted(n, order)'
<1>0. /\ tokens \in Nat /\ spent \in Nat /\ last_refill \in Nat
      /\ tokens' \in Nat /\ spent' \in Nat /\ last_refill' \in Nat
      /\ thread \in [Threads -> Local] /\ Capacity \in Nat
  BY BucketConstants DEF BucketInv, BalanceInv, TypeOK
<1>1. PICK owed, sum : \E total \in Nat, earned \in Nat :
         /\ \A i \in 1 .. n : owed[i] = Owed(order[i])
         /\ Sums(n, owed, sum, total)
         /\ spent + tokens + total <= Capacity + earned
         /\ earned * PerSecond <= last_refill * Rate
  BY DEF Accounted
<1>2. PICK total \in Nat, earned \in Nat :
         /\ \A i \in 1 .. n : owed[i] = Owed(order[i])
         /\ Sums(n, owed, sum, total)
         /\ spent + tokens + total <= Capacity + earned
         /\ earned * PerSecond <= last_refill * Rate
  BY <1>1
<1>3. CASE Tick \/ UNCHANGED vars
  <2>1. \A u : Owed(u)' = Owed(u)
    BY <1>3 DEF Tick, vars, Owed
  <2>2. \A i \in 1 .. n : owed[i] = Owed(order[i])'
    BY <1>2, <2>1
  <2> QED BY <1>2, <1>3, <2>2 DEF Accounted, Tick, vars
<1>4. ASSUME NEW t \in Threads, Step(t)
      PROVE  Accounted(n, order)'
  <2>1. PICK k \in 1 .. n : order[k] = t
    OBVIOUS
  <2>2. \A u \in Threads : Owed(u)' \in Nat /\ (u # t => Owed(u)' = Owed(u))
    <3>1. \A u \in Threads : Owed(u) \in Nat
      BY <1>0 DEF Owed, Local
    <3> QED BY <1>4, <3>1, OwedStep
  <2>3. PICK owed1 \in [1 .. n -> Nat] : \A i \in 1 .. n : owed1[i] = Owed(order[i])'
    <3> DEFINE f == [i \in 1 .. n |-> Owed(order[i])']
    <3>1. f \in [1 .. n -> Nat] /\ \A i \in 1 .. n : f[i] = Owed(order[i])'
      BY <2>2
    <3> QED BY <3>1
  <2>4. PICK a \in Nat, b \in Nat :
            /\ \A i \in 1 .. n : i = k => owed[i] = a /\ owed1[i] = b
            /\ \E e \in Nat :
                  /\ spent' + tokens' + b <= spent + tokens + a + e
                  /\ (earned + e) * PerSecond <= last_refill' * Rate
    <3>1. owed[k] = Owed(t) /\ owed1[k] = Owed(t)' /\ owed[k] \in Nat /\ owed1[k] \in Nat
      BY <1>2, <2>1, <2>3 DEF Sums
    <3>2. \E e \in Nat :
             /\ spent' + tokens' + Owed(t)' <= spent + tokens + Owed(t) + e
             /\ (earned + e) * PerSecond <= last_refill' * Rate
      BY <1>2, <1>4, GainStep
    <3> QED BY <3>1, <3>2, Zenon
  <2>5. Changes(n, k, owed, owed1, a, b)
    BY <1>2, <2>1, <2>2, <2>3, <2>4 DEF Changes
  <2>6. PICK e \in Nat :
           /\ spent' + tokens' + b <= spent + tokens + a + e
           /\ (earned + e) * PerSecond <= last_refill' * Rate
    BY <2>4
  <2>7. total - a + b \in Nat /\ \E next : Sums(n, owed1, next, total - a + b)
    BY <1>2, <2>5, SumsStep
  <2>8. spent' + tokens' + (total - a + b) <= Capacity + (earned + e)
    <3>1. spent + tokens \in Nat /\ spent' + tokens' \in Nat /\ Capacity + earned \in Nat
      BY <1>0, SumIsNat, Zenon
    <3>2. spent' + tokens' + (total - a + b) <= (Capacity + earned) + e
      BY <1>2, <2>6, <3>1, CarryOver, Zenon
    <3>3. (Capacity + earned) + e = Capacity + (earned + e)
      BY <1>0
    <3> QED BY <3>2, <3>3, Zenon
  <2>9. earned + e \in Nat
    BY <2>6
  <2> QED BY <2>3, <2>7, <2>6, <2>8, <2>9 DEF Accounted
<1> QED BY <1>3, <1>4 DEF Next

(* quota/bucket.rs: over any history the requests let through cost no more  *)
(* than a full bucket and what the elapsed time earned.                     *)
THEOREM RateBound == Spec => []RateIsBounded
<1> DEFINE n == Cardinality(Threads)
<1> n \in Nat
  BY BucketConstants, FS_CardinalityType
<1>1. PICK order \in [1 .. n -> Threads] :
         /\ \A u \in Threads : \E k \in 1 .. n : order[k] = u
         /\ \A i, j \in 1 .. n : order[i] = order[j] => i = j
  <2>1. ExistsBijection(1 .. n, Threads)
    BY BucketConstants, FS_CardinalityType
  <2>2. PICK order \in Bijection(1 .. n, Threads) : TRUE
    BY <2>1 DEF ExistsBijection
  <2> QED BY <2>2 DEF Bijection, Injection, Surjection, IsInjective
<1> HIDE DEF n
<1>2. Init => Accounted(n, order)
  <2> SUFFICES ASSUME Init PROVE Accounted(n, order)
    OBVIOUS
  <2>1. \A i \in 1 .. n : Owed(order[i]) = 0
    BY DEF Init, Owed, Idle
  <2> DEFINE sum == [i \in 0 .. n |-> 0]
             owed == [i \in 1 .. n |-> 0]
  <2>2. Sums(n, owed, sum, 0) /\ \A i \in 1 .. n : owed[i] = Owed(order[i])
    BY <2>1 DEF Sums
  <2>3. spent + tokens + 0 <= Capacity + 0 /\ 0 * PerSecond <= last_refill * Rate
    BY BucketConstants DEF Init
  <2> HIDE DEF sum, owed
  <2> QED BY <2>2, <2>3 DEF Accounted
<1>3. BucketInv /\ [Next]_vars /\ BucketInv' /\ Accounted(n, order) => Accounted(n, order)'
  BY <1>1, AccountedStep
<1>4. BucketInv /\ Accounted(n, order) => RateIsBounded
  <2> SUFFICES ASSUME BucketInv, Accounted(n, order) PROVE RateIsBounded
    OBVIOUS
  <2>1. /\ tokens \in Nat /\ spent \in Nat /\ last_refill \in Nat /\ latest \in Nat
        /\ last_refill <= latest
        /\ PerSecond \in Nat /\ Rate \in Nat /\ Capacity \in Nat
    BY BucketConstants DEF BucketInv, BalanceInv, TypeOK, ClaimsFit
  <2>2. PICK total \in Nat, earned \in Nat :
           /\ spent + tokens + total <= Capacity + earned
           /\ earned * PerSecond <= last_refill * Rate
    BY DEF Accounted
  <2>4. spent <= Capacity + earned
    BY <2>1, <2>2
  <2>5. spent * PerSecond <= Capacity * PerSecond + earned * PerSecond
        /\ earned * PerSecond \in Nat /\ Capacity * PerSecond \in Nat /\ spent * PerSecond \in Nat
    <3>1. Capacity + earned \in Nat
      BY <2>1
    <3> QED BY <2>1, <2>4, <3>1, ProductMonotone, Distributes
  <2>6. last_refill * Rate <= latest * Rate /\ last_refill * Rate \in Nat /\ latest * Rate \in Nat
    BY <2>1, ProductMonotone, Distributes
  <2> QED BY <2>2, <2>5, <2>6 DEF RateIsBounded
<1> QED BY <1>2, <1>3, <1>4, BucketInvariant, PTL DEF Spec

-----------------------------------------------------------------------------
(***************************************************************************)
(* The object a token bucket is part of: the counters of QuotaService, for  *)
(* any callers, limit, sizes and bounds.                                    *)
(***************************************************************************)

(* Where a caller that is idle is. *)
LEMMA IdleIsACaller ==
    /\ IdleCaller \in CallerState /\ IdleCaller.pc = "idle"
    /\ IdleCaller.obj = NoObject /\ IdleCaller.seen = 0
  BY DEF IdleCaller, CallerState, QuotaPC, QuotaOps, NoObject

(* A caller goes to place n. *)
LEMMA CallerMoves ==
    ASSUME QuotaTypeOK, NEW t \in Callers, NEW n \in CallerState, CallerBecomes(t, n)
    PROVE  /\ caller' \in [Callers -> CallerState] /\ caller'[t] = n
           /\ \A s \in Callers : s # t => caller'[s] = caller[s]
  BY DEF QuotaTypeOK, CallerBecomes

(* A step that neither takes nor gives back a slot keeps the invariant: the *)
(* guards are the same, the object of the caller is one that was made.      *)
LEMMA NoSlotMoves ==
    ASSUME QuotaInv, NEW t \in Callers, NEW n \in CallerState, CallerBecomes(t, n),
           ~CallerAt(t, "running"), n.pc # "running",
           n.pc \in {"load", "cas", "subtract"} => n.obj \in 1 .. made',
           n.pc = "cas" => n.seen < Limit,
           functions' = functions, made' \in Nat, made <= made', made' <= MaxObjects,
           tenants' \in 0 .. made', storage' \in [Objects -> 0 .. Modulus - 1],
           added' = added, raced' \subseteq Objects
    PROVE  QuotaInv'
<1>1. /\ caller' \in [Callers -> CallerState] /\ caller'[t] = n
      /\ \A s \in Callers : s # t => caller'[s] = caller[s]
  BY CallerMoves DEF QuotaInv
<1>2. made \in Nat /\ MaxObjects \in Nat
  BY QuotaConstants DEF QuotaInv, QuotaTypeOK
<1>3. QuotaTypeOK'
  <2>1. tenants' \in Objects \cup {NoObject}
    BY <1>2 DEF Objects, NoObject
  <2> QED BY <1>1, <1>2, <2>1 DEF QuotaInv, QuotaTypeOK
<1>4. InFlight'
  <2>1. tenants' <= made'
    OBVIOUS
  <2>2. ASSUME NEW s \in Callers
        PROVE  /\ caller'[s].pc \in {"load", "cas", "running", "subtract"}
                      => caller'[s].obj \in 1 .. made'
               /\ caller'[s].pc = "cas" => caller'[s].seen < Limit
    <3>1. CASE s = t
      BY <1>1, <3>1
    <3>2. CASE s # t
      <4>1. /\ caller[s].pc \in {"load", "cas", "running", "subtract"}
                   => caller[s].obj \in 1 .. made
            /\ caller[s].pc = "cas" => caller[s].seen < Limit
        BY DEF QuotaInv, InFlight, CallerAt
      <4>2. 1 .. made \subseteq 1 .. made'
        BY <1>2
      <4> QED BY <1>1, <3>2, <4>1, <4>2
    <3> QED BY <3>1, <3>2
  <2> QED BY <2>1, <2>2 DEF InFlight, CallerAt
<1>5. \A o \in Objects : Guards(o)' = Guards(o)
  BY <1>1 DEF Guards, CallerAt
<1>6. SlotsMatchGuards'
  BY <1>5 DEF QuotaInv, SlotsMatchGuards
<1> QED BY <1>3, <1>4, <1>6 DEF QuotaInv

(* A step that changes no caller and no counter of functions. *)
LEMMA NoThreadMoves ==
    ASSUME QuotaInv, UNCHANGED <<made, functions, caller>>,
           tenants' \in 0 .. made, storage' \in [Objects -> 0 .. Modulus - 1],
           added' \in [Objects -> 0 .. MaxAdded], raced' = raced
    PROVE  QuotaInv'
<1>1. made \in Nat /\ made <= MaxObjects /\ MaxObjects \in Nat
  BY QuotaConstants DEF QuotaInv, QuotaTypeOK
<1>2. tenants' \in Objects \cup {NoObject}
  BY <1>1 DEF Objects, NoObject
<1>3. QuotaTypeOK' /\ InFlight'
  BY <1>1, <1>2 DEF QuotaInv, QuotaTypeOK, InFlight, CallerAt
<1>4. SlotsMatchGuards'
  BY DEF QuotaInv, SlotsMatchGuards, Guards, CallerAt
<1> QED BY <1>3, <1>4 DEF QuotaInv

(* The guards of an object are a finite set. *)
LEMMA GuardsAreFinite ==
    ASSUME NEW o PROVE IsFiniteSet(Guards(o))
  BY QuotaConstants, FS_Subset DEF Guards

(* compare_exchange_weak that succeeds takes a slot that was free. *)
LEMMA IncrementTakes ==
    ASSUME QuotaInv, NEW t \in Callers, CallerAt(t, "cas"),
           functions[caller[t].obj] = caller[t].seen,
           functions' = [functions EXCEPT ![caller[t].obj] = @ + 1],
           CallerBecomes(t, [caller[t] EXCEPT !.pc = "running"]),
           UNCHANGED <<tenants, made, storage, added, raced>>
    PROVE  QuotaInv'
<1> DEFINE n == [caller[t] EXCEPT !.pc = "running"]
<1>obj. PICK o : o = caller[t].obj
  OBVIOUS
<1>0. /\ QuotaTypeOK /\ caller[t] \in CallerState /\ functions \in [Objects -> Nat] /\ Limit \in Nat
      /\ o \in 1 .. made /\ caller[t].seen < Limit /\ made \in Nat /\ made <= MaxObjects
      /\ MaxObjects \in Nat
  BY <1>obj, QuotaConstants DEF QuotaInv, QuotaTypeOK, InFlight, CallerAt
<1>o. o \in Objects
  BY <1>0 DEF Objects
<1>1. n \in CallerState /\ n.pc = "running" /\ n.obj = o
  BY <1>0, <1>obj DEF CallerState, QuotaPC
<1>2. /\ caller' \in [Callers -> CallerState] /\ caller'[t] = n
      /\ \A s \in Callers : s # t => caller'[s] = caller[s]
  BY <1>0, <1>1, CallerMoves
<1> HIDE DEF n
<1>3. functions' \in [Objects -> Nat] /\ functions'[o] = functions[o] + 1
      /\ \A q \in Objects : q # o => functions'[q] = functions[q]
  BY <1>0, <1>o, <1>obj
<1>4. QuotaTypeOK'
  BY <1>2, <1>3 DEF QuotaInv, QuotaTypeOK
<1>5. InFlight'
  BY <1>0, <1>1, <1>2 DEF QuotaInv, InFlight, CallerAt
<1>6. SlotsMatchGuards'
  <2>1. ASSUME NEW q \in Objects, q # o
        PROVE  functions'[q] = Cardinality(Guards(q)') /\ functions'[q] <= Limit
    <3>1. Guards(q)' = Guards(q)
      BY <1>1, <1>2, <2>1 DEF Guards, CallerAt
    <3> QED BY <1>3, <2>1, <3>1 DEF QuotaInv, SlotsMatchGuards
  <2>2. functions'[o] = Cardinality(Guards(o)') /\ functions'[o] <= Limit
    <3>1. Guards(o)' = Guards(o) \cup {t} /\ t \notin Guards(o)
      BY <1>1, <1>2 DEF Guards, CallerAt
    <3>2. Cardinality(Guards(o) \cup {t}) = Cardinality(Guards(o)) + 1
      BY <3>1, GuardsAreFinite, FS_AddElement
    <3>3. functions[o] = Cardinality(Guards(o))
      BY <1>o DEF QuotaInv, SlotsMatchGuards
    <3>4. functions[o] \in Nat /\ functions[o] < Limit
      BY <1>0, <1>o, <1>obj
    <3> QED BY <1>0, <1>3, <3>1, <3>2, <3>3, <3>4
  <2> QED BY <2>1, <2>2 DEF SlotsMatchGuards
<1> QED BY <1>4, <1>5, <1>6 DEF QuotaInv

(* A guard that is dropped gives its slot back to the object it counts in.  *)
LEMMA DropGuardGivesBack ==
    ASSUME QuotaInv, NEW t \in Callers, DropGuard(t)
    PROVE  QuotaInv'
<1>obj. PICK o : o = caller[t].obj
  OBVIOUS
<1>0. /\ QuotaTypeOK /\ functions \in [Objects -> Nat] /\ Limit \in Nat
      /\ o \in 1 .. made /\ made \in Nat /\ made <= MaxObjects /\ MaxObjects \in Nat
      /\ CallerAt(t, "running") /\ CallerBecomes(t, IdleCaller)
      /\ UNCHANGED <<tenants, made, storage, added, raced>>
      /\ functions' = [functions EXCEPT ![o] = @ - 1]
  BY <1>obj, QuotaConstants DEF QuotaInv, QuotaTypeOK, InFlight, CallerAt, DropGuard
<1>o. o \in Objects
  BY <1>0 DEF Objects
<1>2. /\ caller' \in [Callers -> CallerState] /\ caller'[t] = IdleCaller
      /\ \A s \in Callers : s # t => caller'[s] = caller[s]
  BY <1>0, IdleIsACaller, CallerMoves
<1>g. /\ t \in Guards(o) /\ Guards(o)' = Guards(o) \ {t} /\ IsFiniteSet(Guards(o))
      /\ functions[o] = Cardinality(Guards(o)) /\ functions[o] <= Limit
  <2>1. t \in Guards(o)
    BY <1>0, <1>obj DEF Guards
  <2>2. Guards(o)' = Guards(o) \ {t}
    BY <1>2, <1>obj, IdleIsACaller DEF Guards, CallerAt
  <2> QED BY <1>o, <2>1, <2>2, GuardsAreFinite DEF QuotaInv, SlotsMatchGuards
<1>c. /\ Cardinality(Guards(o) \ {t}) = Cardinality(Guards(o)) - 1
      /\ Cardinality(Guards(o) \ {t}) \in Nat
  <2>1. IsFiniteSet(Guards(o) \ {t})
    BY <1>g, FS_Subset
  <2> QED BY <1>g, <2>1, FS_RemoveElement, FS_CardinalityType
<1>3. functions' \in [Objects -> Nat] /\ functions'[o] = functions[o] - 1
      /\ \A q \in Objects : q # o => functions'[q] = functions[q]
  BY <1>0, <1>o, <1>g, <1>c
<1>4. QuotaTypeOK'
  BY <1>0, <1>2, <1>3 DEF QuotaInv, QuotaTypeOK
<1>5. InFlight'
  BY <1>0, <1>2, IdleIsACaller DEF QuotaInv, InFlight, CallerAt
<1>6. SlotsMatchGuards'
  <2>1. ASSUME NEW q \in Objects, q # o
        PROVE  functions'[q] = Cardinality(Guards(q)') /\ functions'[q] <= Limit
    <3>1. Guards(q)' = Guards(q)
      BY <1>2, <1>obj, <2>1, IdleIsACaller DEF Guards, CallerAt
    <3> QED BY <1>3, <2>1, <3>1 DEF QuotaInv, SlotsMatchGuards
  <2>2. functions'[o] = Cardinality(Guards(o)') /\ functions'[o] <= Limit
    BY <1>0, <1>3, <1>g, <1>c
  <2> QED BY <2>1, <2>2 DEF SlotsMatchGuards
<1> QED BY <1>4, <1>5, <1>6 DEF QuotaInv

(* A counter modulo 2^64 is one. *)
LEMMA CounterWraps ==
    ASSUME NEW n \in Int PROVE n % Modulus \in 0 .. Modulus - 1
<1>1. Modulus \in Nat /\ Modulus > 0
  BY QuotaConstants
<1> QED BY <1>1

(* A counter below 2^64 is kept as it is. *)
LEMMA CounterKept ==
    ASSUME NEW n \in 0 .. Modulus - 1 PROVE n % Modulus = n
<1>1. Modulus \in Nat /\ Modulus > 0
  BY QuotaConstants
<1> QED BY <1>1

(* A new state has no guards. *)
LEMMA QuotaInvInit == QuotaInit => QuotaInv
<1> SUFFICES ASSUME QuotaInit PROVE QuotaInv
  OBVIOUS
<1>1. /\ MaxObjects \in Nat /\ MaxObjects >= 1 /\ Limit \in Nat /\ Modulus \in Nat /\ Modulus > 0
      /\ MaxAdded \in Nat
  BY QuotaConstants
<1>2. tenants \in {0, 1} /\ made = tenants
  BY DEF QuotaInit, NoObject
<1>3. \A t \in Callers : caller[t] = IdleCaller
  BY DEF QuotaInit
<1>4. QuotaTypeOK
  <2>1. tenants \in Objects \cup {NoObject} /\ made \in Nat /\ made <= MaxObjects
    BY <1>1, <1>2 DEF Objects, NoObject
  <2>2. functions \in [Objects -> Nat] /\ storage \in [Objects -> 0 .. Modulus - 1]
        /\ added \in [Objects -> 0 .. MaxAdded] /\ raced \subseteq Objects
    BY <1>1 DEF QuotaInit
  <2>3. caller \in [Callers -> CallerState]
    BY IdleIsACaller DEF QuotaInit
  <2> QED BY <2>1, <2>2, <2>3 DEF QuotaTypeOK
<1>5. InFlight
  BY <1>2, <1>3, IdleIsACaller DEF InFlight, CallerAt
<1>6. ASSUME NEW o \in Objects PROVE functions[o] = Cardinality(Guards(o)) /\ functions[o] <= Limit
  <2>1. Guards(o) = {}
    BY <1>3, IdleIsACaller DEF Guards, CallerAt
  <2>2. functions[o] = 0
    BY DEF QuotaInit
  <2> QED BY <1>1, <2>1, <2>2, FS_EmptySet
<1> QED BY <1>4, <1>5, <1>6 DEF QuotaInv, SlotsMatchGuards

(* The object in the map is one of those that were made, or none. *)
LEMMA QuotaBounds ==
    ASSUME QuotaInv
    PROVE  /\ QuotaTypeOK /\ made \in Nat /\ made <= MaxObjects /\ MaxObjects \in Nat
           /\ tenants <= made /\ tenants \in 0 .. MaxObjects
<1>1. QuotaTypeOK /\ InFlight
  BY DEF QuotaInv
<1>2. MaxObjects \in Nat
  BY QuotaConstants
<1>3. made \in Nat /\ made <= MaxObjects /\ tenants \in Objects \cup {NoObject}
  BY <1>1 DEF QuotaTypeOK
<1>4. tenants <= made
  BY <1>1 DEF InFlight
<1>5. Objects \cup {NoObject} = 0 .. MaxObjects
  BY <1>2 DEF Objects, NoObject
<1> QED BY <1>1, <1>2, <1>3, <1>4, <1>5

(* Every step of a caller of the quota service keeps the invariant. *)
LEMMA CallerKeeps ==
    ASSUME QuotaInv, NEW t \in Callers, QuotaStep(t)
    PROVE  QuotaInv'
<1>0. /\ QuotaTypeOK /\ caller[t] \in CallerState /\ made \in Nat
      /\ made <= MaxObjects /\ MaxObjects \in Nat
      /\ tenants \in 0 .. made /\ storage \in [Objects -> 0 .. Modulus - 1]
      /\ added \in [Objects -> 0 .. MaxAdded] /\ Modulus \in Nat /\ MaxAdded < Modulus
      /\ MaxAdded \in Nat /\ Sizes \subseteq Nat /\ raced \subseteq Objects
      /\ caller[t].pc \in {"load", "cas", "running", "subtract"} => caller[t].obj \in 1 .. made
  <2>1. QuotaTypeOK /\ made \in Nat /\ tenants <= made /\ tenants \in 0 .. MaxObjects
    BY QuotaBounds
  <2>2. tenants \in 0 .. made
    BY <2>1
  <2>3. caller[t].pc \in {"load", "cas", "running", "subtract"} => caller[t].obj \in 1 .. made
    BY DEF QuotaInv, InFlight
  <2> QED BY <2>1, <2>2, <2>3, QuotaConstants DEF QuotaTypeOK
<1>1. ASSUME NEW op \in QuotaOps, Start(t, op) PROVE QuotaInv'
  <2> DEFINE n == [IdleCaller EXCEPT !.pc = "get", !.op = op]
  <2>1. n \in CallerState /\ n.pc = "get"
    BY IdleIsACaller DEF CallerState, QuotaPC
  <2>2. /\ CallerAt(t, "idle") /\ CallerBecomes(t, n)
        /\ UNCHANGED <<tenants, made, functions, storage, added, raced>>
    BY <1>1 DEF Start
  <2> HIDE DEF n
  <2> QED BY <1>0, <2>1, <2>2, NoSlotMoves DEF CallerAt
\* an object from the map, or a new one
<1>goes. ASSUME NEW o \in 1 .. made', o \in Objects, Goes(t, o), ~CallerAt(t, "running"),
                functions' = functions, made' \in Nat, made <= made', made' <= MaxObjects,
                tenants' \in 0 .. made', UNCHANGED <<storage, added, raced>>
         PROVE  QuotaInv'
  <2> DEFINE n == [caller[t] EXCEPT !.pc = "load", !.obj = o]
  <2>1. n \in CallerState /\ n.pc = "load" /\ n.obj = o
    BY <1>0, <1>goes DEF CallerState, QuotaPC
  <2>2. CallerBecomes(t, n) \/ CallerBecomes(t, IdleCaller)
    BY <1>goes DEF Goes
  <2> HIDE DEF n
  <2>3. CASE CallerBecomes(t, n)
    BY <1>0, <1>goes, <2>1, <2>3, NoSlotMoves
  <2>4. CASE CallerBecomes(t, IdleCaller)
    BY <1>0, <1>goes, <2>4, IdleIsACaller, NoSlotMoves
  <2> QED BY <2>2, <2>3, <2>4
<1>2. CASE Get(t)
  <2>1. CallerAt(t, "get") /\ UNCHANGED <<tenants, made, functions, storage, added, raced>>
    BY <1>2 DEF Get
  <2>2. CASE tenants # NoObject
    <3>1. tenants \in 1 .. made' /\ tenants \in Objects /\ Goes(t, tenants)
      BY <1>0, <1>2, <2>1, <2>2 DEF Get, Objects, NoObject
    <3> QED BY <1>0, <1>goes, <2>1, <3>1 DEF CallerAt
  <2>3. CASE tenants = NoObject
    <3> DEFINE n == [caller[t] EXCEPT !.pc = "create"]
    <3>1. n \in CallerState /\ n.pc = "create"
      BY <1>0 DEF CallerState, QuotaPC
    <3>2. CallerBecomes(t, n)
      BY <1>2, <2>3 DEF Get
    <3> HIDE DEF n
    <3> QED BY <1>0, <2>1, <3>1, <3>2, NoSlotMoves DEF CallerAt
  <2> QED BY <2>2, <2>3
<1>3. CASE Create(t)
  <2>1. CallerAt(t, "create") /\ made' = made + 1 /\ tenants' = made' /\ made < MaxObjects
        /\ Goes(t, made') /\ UNCHANGED <<functions, storage, added, raced>>
    BY <1>3 DEF Create
  <2>2. made' \in 1 .. made' /\ made' \in Objects /\ made' \in Nat /\ tenants' \in 0 .. made'
    BY <1>0, <2>1 DEF Objects
  <2> QED BY <1>0, <1>goes, <2>1, <2>2 DEF CallerAt
<1>4. CASE Load(t)
  <2> DEFINE o == caller[t].obj
             n == [caller[t] EXCEPT !.pc = "cas", !.seen = functions[o]]
  <2>1. CallerAt(t, "load") /\ UNCHANGED <<tenants, made, functions, storage, added, raced>>
        /\ IF functions[o] >= Limit THEN CallerBecomes(t, IdleCaller) ELSE CallerBecomes(t, n)
    BY <1>4 DEF Load
  <2>2. o \in 1 .. made /\ o \in Objects
    BY <1>0, <2>1 DEF CallerAt, Objects
  <2>3. functions[o] \in Nat
    BY <1>0, <2>2 DEF QuotaTypeOK
  <2>4. n \in CallerState /\ n.pc = "cas" /\ n.obj = o /\ n.seen = functions[o]
    BY <1>0, <2>3 DEF CallerState, QuotaPC
  <2> HIDE DEF n
  <2>5. CASE functions[o] >= Limit
    BY <1>0, <2>1, <2>5, IdleIsACaller, NoSlotMoves DEF CallerAt
  <2>6. CASE ~(functions[o] >= Limit)
    <3>1. n.seen < Limit
      BY <2>3, <2>4, <2>6, QuotaConstants
    <3> QED BY <1>0, <2>1, <2>2, <2>4, <2>6, <3>1, NoSlotMoves DEF CallerAt
  <2> QED BY <2>5, <2>6
<1>5. CASE Increment(t)
  <2> DEFINE n == [caller[t] EXCEPT !.pc = "load"]
  <2>1. CallerAt(t, "cas") /\ UNCHANGED <<tenants, made, storage, added, raced>>
    BY <1>5 DEF Increment
  <2>2. CASE /\ functions[caller[t].obj] = caller[t].seen
             /\ functions' = [functions EXCEPT ![caller[t].obj] = @ + 1]
             /\ CallerBecomes(t, [caller[t] EXCEPT !.pc = "running"])
    BY <2>1, <2>2, IncrementTakes
  <2>3. CASE CallerBecomes(t, n) /\ UNCHANGED functions
    <3>1. n \in CallerState /\ n.pc = "load" /\ n.obj = caller[t].obj /\ n.obj \in 1 .. made
      BY <1>0, <2>1 DEF CallerState, QuotaPC, CallerAt
    <3> HIDE DEF n
    <3> QED BY <1>0, <2>1, <2>3, <3>1, NoSlotMoves DEF CallerAt
  <2> QED BY <1>5, <2>2, <2>3 DEF Increment
<1>6. CASE DropGuard(t)
  BY <1>6, DropGuardGivesBack
<1>7. ASSUME NEW size \in Sizes, RecordUpload(t, size) PROVE QuotaInv'
  <2>1. /\ tenants # NoObject /\ added[tenants] + size <= MaxAdded
        /\ storage' = [storage EXCEPT ![tenants] = (@ + size) % Modulus]
        /\ added' = [added EXCEPT ![tenants] = @ + size]
        /\ UNCHANGED <<tenants, made, functions, raced, caller>>
    BY <1>7 DEF RecordUpload
  <2>2. tenants \in Objects /\ size \in Nat
    BY <1>0, <2>1 DEF Objects, NoObject
  <2>3. (storage[tenants] + size) % Modulus \in 0 .. Modulus - 1
    BY <1>0, <2>2, CounterWraps
  <2>4. added[tenants] + size \in 0 .. MaxAdded
    BY <1>0, <2>1, <2>2
  <2> QED BY <1>0, <2>1, <2>2, <2>3, <2>4, NoThreadMoves
<1>8. ASSUME NEW size \in Sizes, LoadForDelete(t, size) PROVE QuotaInv'
  <2> DEFINE n == [IdleCaller EXCEPT !.pc = "subtract", !.obj = tenants,
                                     !.seen = Least(size, storage[tenants])]
  <2>1. CallerAt(t, "idle") /\ tenants # NoObject /\ CallerBecomes(t, n) /\ NotesRace
        /\ UNCHANGED <<tenants, made, functions, storage, added>>
    BY <1>8 DEF LoadForDelete
  <2>2. tenants \in 1 .. made /\ tenants \in Objects
    BY <1>0, <2>1 DEF Objects, NoObject
  <2>3. Least(size, storage[tenants]) \in Nat
    <3>1. size \in Nat
      BY <1>0
    <3>2. storage[tenants] \in Nat
      BY <1>0, <2>2
    <3> QED BY <3>1, <3>2 DEF Least
  <2>4. n \in CallerState /\ n.pc = "subtract" /\ n.obj = tenants
    BY <2>2, <2>3, IdleIsACaller DEF CallerState, QuotaPC
  <2>5. raced' \subseteq Objects
    BY <1>0, <2>1, <2>2 DEF NotesRace
  <2> HIDE DEF n
  <2> QED BY <1>0, <2>1, <2>2, <2>4, <2>5, NoSlotMoves DEF CallerAt
<1>9. CASE Subtract(t)
  <2>1. /\ CallerAt(t, "subtract") /\ CallerBecomes(t, IdleCaller)
        /\ UNCHANGED <<tenants, made, functions, added, raced>>
        /\ storage' = [storage EXCEPT ![caller[t].obj] = (@ - caller[t].seen) % Modulus]
    BY <1>9 DEF Subtract
  <2>2. caller[t].obj \in Objects /\ caller[t].seen \in Nat
    BY <1>0, <2>1 DEF CallerAt, Objects, CallerState
  <2>3. (storage[caller[t].obj] - caller[t].seen) % Modulus \in 0 .. Modulus - 1
    BY <1>0, <2>2, CounterWraps
  <2>4. storage' \in [Objects -> 0 .. Modulus - 1]
    BY <1>0, <2>1, <2>2, <2>3
  <2> QED BY <1>0, <2>1, <2>4, IdleIsACaller, NoSlotMoves DEF CallerAt
<1> QED BY <1>1, <1>2, <1>3, <1>4, <1>5, <1>6, <1>7, <1>8, <1>9 DEF QuotaStep

(* The invariant of the quota service, step by step. *)
LEMMA QuotaInvStep ==
    ASSUME QuotaInv, [QuotaNext]_quotaVars
    PROVE  QuotaInv'
<1>0. /\ made \in Nat /\ storage \in [Objects -> 0 .. Modulus - 1]
      /\ added \in [Objects -> 0 .. MaxAdded]
      /\ tenants \in 0 .. made
  BY DEF QuotaInv, QuotaTypeOK, InFlight, Objects, NoObject
<1>1. CASE UNCHANGED quotaVars
  BY <1>0, <1>1, NoThreadMoves DEF quotaVars
<1>2. CASE ClearTenant
  <2>1. tenants' = 0 /\ UNCHANGED <<made, functions, storage, added, raced, caller>>
    BY <1>2 DEF ClearTenant, NoObject
  <2> QED BY <1>0, <2>1, NoThreadMoves
<1>3. ASSUME NEW t \in Callers, QuotaStep(t) PROVE QuotaInv'
  BY <1>3, CallerKeeps
<1> QED BY <1>1, <1>2, <1>3 DEF QuotaNext

(* concurrent_functions of an object is the number of its live guards and   *)
(* within the limit, for any threads, limit and bounds, also when the       *)
(* object was replaced or cleared while functions ran.                      *)
THEOREM SlotsAreCounted == QuotaSpec => []QuotaInv
<1>1. QuotaInv /\ [QuotaNext]_quotaVars => QuotaInv'
  BY QuotaInvStep
<1> QED BY <1>1, QuotaInvInit, PTL DEF QuotaSpec

(* What a delete is about to subtract is there and nobody else subtracts,   *)
(* as long as no two deletes of the object have overlapped.                 *)
DeletesFit ==
    \A t \in Callers :
        CallerAt(t, "subtract") /\ caller[t].obj \notin raced =>
            /\ caller[t].seen <= storage[caller[t].obj]
            /\ \A u \in Callers :
                  CallerAt(u, "subtract") /\ caller[u].obj = caller[t].obj => u = t

(* No step makes the counter of an object wrap, or leaves a delete that     *)
(* would, unless deletes of the object have overlapped.                     *)
LEMMA StorageStep ==
    ASSUME QuotaInv, StorageWrapsOnlyByRace, DeletesFit, [QuotaNext]_quotaVars
    PROVE  StorageWrapsOnlyByRace' /\ DeletesFit'
<1>0. /\ QuotaTypeOK /\ made \in Nat /\ made <= MaxObjects /\ MaxObjects \in Nat
      /\ tenants \in 0 .. made /\ storage \in [Objects -> 0 .. Modulus - 1]
      /\ added \in [Objects -> 0 .. MaxAdded] /\ Modulus \in Nat /\ MaxAdded < Modulus
      /\ MaxAdded \in Nat /\ Sizes \subseteq Nat
      /\ \A t \in Callers : caller[t] \in CallerState
      /\ \A t \in Callers : CallerAt(t, "subtract") => caller[t].obj \in Objects
  <2>1. /\ QuotaTypeOK /\ made \in Nat /\ made <= MaxObjects
        /\ tenants <= made /\ tenants \in 0 .. MaxObjects
        /\ MaxObjects \in Nat
    BY QuotaBounds
  <2>2. tenants \in 0 .. made
    BY <2>1
  <2>3. \A t \in Callers : CallerAt(t, "subtract") => caller[t].obj \in 1 .. made
    BY DEF QuotaInv, InFlight, CallerAt
  <2>4. 1 .. made \subseteq Objects
    BY <2>1 DEF Objects
  <2>5. Modulus \in Nat /\ MaxAdded < Modulus /\ MaxAdded \in Nat /\ Sizes \subseteq Nat
    BY QuotaConstants
  <2>6. storage \in [Objects -> 0 .. Modulus - 1] /\ added \in [Objects -> 0 .. MaxAdded]
        /\ \A t \in Callers : caller[t] \in CallerState
    BY <2>1 DEF QuotaTypeOK
  <2> QED BY <2>1, <2>2, <2>3, <2>4, <2>5, <2>6
\* steps that leave the counters alone
<1>same. ASSUME UNCHANGED <<storage, added, raced>>, NEW t \in Callers,
                \A s \in Callers : s # t => caller'[s] = caller[s],
                CallerAt(t, "subtract")' => CallerAt(t, "subtract") /\ caller'[t] = caller[t]
         PROVE  StorageWrapsOnlyByRace' /\ DeletesFit'
  BY <1>same DEF StorageWrapsOnlyByRace, DeletesFit, CallerAt
\* the thread goes on, but not to a subtraction
<1>moves. ASSUME UNCHANGED <<storage, added, raced>>, NEW t \in Callers, NEW n \in CallerState,
                 CallerBecomes(t, n),
                 n.pc # "subtract"
          PROVE  StorageWrapsOnlyByRace' /\ DeletesFit'
  <2>1. caller'[t] = n /\ \A s \in Callers : s # t => caller'[s] = caller[s]
    BY <1>0, <1>moves, CallerMoves
  <2> QED BY <1>moves, <1>same, <2>1 DEF CallerAt
<1>1. CASE UNCHANGED quotaVars
  BY <1>1 DEF quotaVars, StorageWrapsOnlyByRace, DeletesFit, CallerAt
<1>2. CASE ClearTenant
  BY <1>2 DEF ClearTenant, StorageWrapsOnlyByRace, DeletesFit, CallerAt
<1>3. ASSUME NEW t \in Callers, QuotaStep(t) PROVE StorageWrapsOnlyByRace' /\ DeletesFit'
  <2>pc. ASSUME NEW pc \in QuotaPC
         PROVE  /\ [caller[t] EXCEPT !.pc = pc] \in CallerState
                /\ [caller[t] EXCEPT !.pc = pc].pc = pc
    BY <1>0 DEF CallerState
  <2>1. ASSUME NEW op \in QuotaOps, Start(t, op) PROVE StorageWrapsOnlyByRace' /\ DeletesFit'
    <3> DEFINE n == [IdleCaller EXCEPT !.pc = "get", !.op = op]
    <3>1. n \in CallerState /\ n.pc = "get"
      BY IdleIsACaller DEF CallerState, QuotaPC
    <3>2. CallerBecomes(t, n) /\ UNCHANGED <<storage, added, raced>>
      BY <2>1 DEF Start
    <3> HIDE DEF n
    <3> QED BY <1>moves, <3>1, <3>2
  <2>goes. ASSUME NEW o \in Objects, Goes(t, o), UNCHANGED <<storage, added, raced>>
           PROVE  StorageWrapsOnlyByRace' /\ DeletesFit'
    <3> DEFINE n == [caller[t] EXCEPT !.pc = "load", !.obj = o]
    <3>1. n \in CallerState /\ n.pc = "load"
      BY <1>0, <2>goes DEF CallerState, QuotaPC
    <3>2. CallerBecomes(t, n) \/ CallerBecomes(t, IdleCaller)
      BY <2>goes DEF Goes
    <3> HIDE DEF n
    <3> QED BY <1>moves, <2>goes, <3>1, <3>2, IdleIsACaller
  <2>2. CASE Get(t)
    <3>1. CASE tenants # NoObject
      <4>1. tenants \in Objects
        BY <1>0, <3>1 DEF Objects, NoObject
      <4> QED BY <2>2, <2>goes, <3>1, <4>1 DEF Get
    <3>2. CASE tenants = NoObject
      <4>1. CallerBecomes(t, [caller[t] EXCEPT !.pc = "create"]) /\ UNCHANGED <<storage, added, raced>>
        BY <2>2, <3>2 DEF Get
      <4>2. "create" \in QuotaPC
        BY DEF QuotaPC
      <4> QED BY <1>moves, <2>pc, <4>1, <4>2
    <3> QED BY <3>1, <3>2
  <2>3. CASE Create(t)
    <3>1. made' \in Objects /\ Goes(t, made') /\ UNCHANGED <<storage, added, raced>>
      BY <1>0, <2>3 DEF Create, Objects
    <3> QED BY <2>goes, <3>1
  <2>4. CASE Load(t)
    <3> DEFINE n == [caller[t] EXCEPT !.pc = "cas", !.seen = functions[caller[t].obj]]
    <3>1. /\ CallerAt(t, "load") /\ UNCHANGED <<storage, added, raced>>
          /\ (CallerBecomes(t, IdleCaller) \/ CallerBecomes(t, n))
      BY <2>4 DEF Load
    <3>2. caller[t].obj \in Objects
      BY <1>0, <3>1 DEF QuotaInv, InFlight, CallerAt, Objects
    <3>3. functions[caller[t].obj] \in Nat
      BY <1>0, <3>2 DEF QuotaTypeOK
    <3>4. n \in CallerState /\ n.pc = "cas"
      BY <1>0, <3>3 DEF CallerState, QuotaPC
    <3> HIDE DEF n
    <3> QED BY <1>moves, <3>1, <3>4, IdleIsACaller
  <2>5. CASE Increment(t)
    <3>1. /\ UNCHANGED <<storage, added, raced>>
          /\ \/ CallerBecomes(t, [caller[t] EXCEPT !.pc = "running"])
             \/ CallerBecomes(t, [caller[t] EXCEPT !.pc = "load"])
      BY <2>5 DEF Increment
    <3>2. "running" \in QuotaPC /\ "load" \in QuotaPC
      BY DEF QuotaPC
    <3> QED BY <1>moves, <2>pc, <3>1, <3>2
  <2>6. CASE DropGuard(t)
    BY <1>moves, <2>6, IdleIsACaller DEF DropGuard
  <2>7. ASSUME NEW size \in Sizes, RecordUpload(t, size) PROVE StorageWrapsOnlyByRace' /\ DeletesFit'
    <3>1. /\ tenants # NoObject /\ added[tenants] + size <= MaxAdded
          /\ storage' = [storage EXCEPT ![tenants] = (@ + size) % Modulus]
          /\ added' = [added EXCEPT ![tenants] = @ + size] /\ caller' = caller /\ raced' = raced
      BY <2>7 DEF RecordUpload
    <3>2. tenants \in Objects /\ size \in Nat
      BY <1>0, <3>1 DEF Objects, NoObject
    <3>3. /\ storage[tenants] \in Nat /\ added[tenants] \in Nat
          /\ storage[tenants] <= added[tenants] \/ tenants \in raced
      BY <1>0, <3>2 DEF StorageWrapsOnlyByRace
    <3>4. \A o \in Objects : o # tenants => storage'[o] = storage[o] /\ added'[o] = added[o]
      BY <1>0, <3>1, <3>2
    <3>5. tenants \notin raced => /\ storage'[tenants] = storage[tenants] + size
                                 /\ added'[tenants] = added[tenants] + size
      <4> SUFFICES ASSUME tenants \notin raced
                   PROVE  /\ storage'[tenants] = storage[tenants] + size
                          /\ added'[tenants] = added[tenants] + size
        OBVIOUS
      <4>1. storage[tenants] + size \in 0 .. Modulus - 1
        BY <1>0, <3>1, <3>2, <3>3
      <4>2. (storage[tenants] + size) % Modulus = storage[tenants] + size
        BY <4>1, CounterKept
      <4> QED BY <1>0, <3>1, <3>2, <4>2
    <3>6. StorageWrapsOnlyByRace'
      BY <3>1, <3>2, <3>3, <3>4, <3>5 DEF StorageWrapsOnlyByRace
    <3>7. ASSUME NEW s \in Callers, CallerAt(s, "subtract"), caller[s].obj \notin raced
          PROVE  caller[s].seen <= storage'[caller[s].obj]
      <4>1. /\ caller[s].obj \in Objects /\ caller[s].seen <= storage[caller[s].obj]
            /\ caller[s].seen \in Nat /\ storage[caller[s].obj] \in Nat
        BY <1>0, <3>7 DEF DeletesFit, CallerState
      <4> QED BY <3>2, <3>3, <3>4, <3>5, <3>7, <4>1
    <3> QED BY <3>1, <3>6, <3>7 DEF DeletesFit, CallerAt
  <2>8. ASSUME NEW size \in Sizes, LoadForDelete(t, size) PROVE StorageWrapsOnlyByRace' /\ DeletesFit'
    <3> DEFINE n == [IdleCaller EXCEPT !.pc = "subtract", !.obj = tenants,
                                       !.seen = Least(size, storage[tenants])]
    <3>1. /\ tenants # NoObject /\ CallerAt(t, "idle") /\ NotesRace
          /\ CallerBecomes(t, n) /\ UNCHANGED <<storage, added>>
      BY <2>8 DEF LoadForDelete
    <3>2. tenants \in Objects /\ size \in Nat
      BY <1>0, <3>1 DEF Objects, NoObject
    <3>3. Least(size, storage[tenants]) \in Nat /\ Least(size, storage[tenants]) <= storage[tenants]
      BY <1>0, <3>2 DEF Least
    <3>4. /\ n \in CallerState /\ n.pc = "subtract"
          /\ n.obj = tenants /\ n.seen = Least(size, storage[tenants])
      BY <3>2, <3>3, IdleIsACaller DEF CallerState, QuotaPC
    <3> HIDE DEF n
    <3>5. caller'[t] = n /\ \A s \in Callers : s # t => caller'[s] = caller[s]
      BY <1>0, <3>1, <3>4, CallerMoves
    <3>r. /\ raced \subseteq raced'
          /\ \A s \in Callers :
                CallerAt(s, "subtract") /\ caller[s].obj = tenants => tenants \in raced'
      BY <3>1 DEF NotesRace, Deleting
    \* whoever subtracts from an object that has not raced does so alone
    <3>6. ASSUME NEW s \in Callers, caller'[s].pc = "subtract", caller'[s].obj \notin raced'
          PROVE  /\ caller'[s].seen <= storage'[caller'[s].obj]
                 /\ \A u \in Callers :
                       caller'[u].pc = "subtract" /\ caller'[u].obj = caller'[s].obj => u = s
      <4>1. CASE s = t
        BY <3>1, <3>3, <3>4, <3>5, <3>6, <3>r, <4>1 DEF CallerAt
      <4>2. CASE s # t
        <5>1. /\ caller[s] = caller'[s] /\ CallerAt(s, "subtract") /\ caller[s].obj \notin raced
              /\ caller[s].obj # tenants
          BY <3>5, <3>6, <3>r, <4>2 DEF CallerAt
        <5>2. /\ caller[s].seen <= storage[caller[s].obj]
              /\ \A u \in Callers :
                    CallerAt(u, "subtract") /\ caller[u].obj = caller[s].obj => u = s
          BY <5>1 DEF DeletesFit
        <5> QED BY <3>1, <3>4, <3>5, <5>1, <5>2 DEF CallerAt
      <4> QED BY <4>1, <4>2
    <3>7. DeletesFit'
      BY <3>6 DEF DeletesFit, CallerAt
    <3> QED BY <3>1, <3>7, <3>r DEF StorageWrapsOnlyByRace
  <2>9. CASE Subtract(t)
    <3> DEFINE o == caller[t].obj
    <3>1. /\ CallerAt(t, "subtract") /\ CallerBecomes(t, IdleCaller) /\ UNCHANGED <<added, raced>>
          /\ storage' = [storage EXCEPT ![o] = (@ - caller[t].seen) % Modulus]
      BY <2>9 DEF Subtract
    <3>2. o \in Objects /\ caller[t].seen \in Nat /\ storage[o] \in 0 .. Modulus - 1
      BY <1>0, <3>1 DEF CallerState
    <3>3. \A q \in Objects : q # o => storage'[q] = storage[q]
      BY <1>0, <3>1, <3>2
    <3>4. o \notin raced => storage'[o] <= storage[o] /\ storage'[o] \in Nat
      <4> SUFFICES ASSUME o \notin raced PROVE storage'[o] <= storage[o] /\ storage'[o] \in Nat
        OBVIOUS
      <4>1. caller[t].seen <= storage[o]
        BY <3>1 DEF DeletesFit
      <4>2. /\ storage[o] - caller[t].seen \in 0 .. Modulus - 1
            /\ storage[o] - caller[t].seen <= storage[o]
        BY <1>0, <3>2, <4>1
      <4>3. (storage[o] - caller[t].seen) % Modulus = storage[o] - caller[t].seen
        BY <4>2, CounterKept
      <4>4. storage'[o] = storage[o] - caller[t].seen
        BY <1>0, <3>1, <3>2, <4>3
      <4> QED BY <4>2, <4>4
    <3>5. StorageWrapsOnlyByRace'
      <4>1. storage'[o] <= added[o] \/ o \in raced
        <5>1. added[o] \in Nat /\ (storage[o] <= added[o] \/ o \in raced)
          BY <1>0, <3>2 DEF StorageWrapsOnlyByRace
        <5> QED BY <3>2, <3>4, <5>1
      <4> QED BY <3>1, <3>3, <4>1 DEF StorageWrapsOnlyByRace
    <3>7. caller'[t] = IdleCaller /\ \A s \in Callers : s # t => caller'[s] = caller[s]
      BY <1>0, <3>1, IdleIsACaller, CallerMoves
    <3>8. ASSUME NEW s \in Callers, caller'[s].pc = "subtract", caller'[s].obj \notin raced
          PROVE  /\ caller'[s].seen <= storage'[caller'[s].obj]
                 /\ \A u \in Callers :
                       caller'[u].pc = "subtract" /\ caller'[u].obj = caller'[s].obj => u = s
      <4>1. s # t /\ caller[s] = caller'[s] /\ CallerAt(s, "subtract")
        BY <3>7, <3>8, IdleIsACaller DEF CallerAt
      <4>2. /\ caller[s].seen <= storage[caller[s].obj] /\ caller[s].obj \in Objects
            /\ \A u \in Callers :
                  CallerAt(u, "subtract") /\ caller[u].obj = caller[s].obj => u = s
        BY <1>0, <3>8, <4>1 DEF DeletesFit
      <4>3. caller[s].obj # o
        BY <3>1, <4>1, <4>2
      <4> QED BY <3>3, <3>7, <4>1, <4>2, <4>3, IdleIsACaller DEF CallerAt
    <3>9. DeletesFit'
      BY <3>1, <3>8 DEF DeletesFit, CallerAt
    <3> QED BY <3>5, <3>9
  <2> QED BY <1>3, <2>1, <2>2, <2>3, <2>4, <2>5, <2>6, <2>7, <2>8, <2>9 DEF QuotaStep
<1> QED BY <1>1, <1>2, <1>3 DEF QuotaNext

(* storage_used_bytes of an object exceeds what was added to it, as it does *)
(* when it wraps, only after two deletes overlapped between the load and    *)
(* the fetch_sub of record_storage_change; for any threads that upload,     *)
(* delete and clear.  That overlap is the only gap of the cut to what is    *)
(* there.                                                                   *)
THEOREM StorageWrapsByRaceOnly == QuotaSpec => []StorageWrapsOnlyByRace
<1>1. QuotaInit => StorageWrapsOnlyByRace /\ DeletesFit
  BY IdleIsACaller DEF QuotaInit, StorageWrapsOnlyByRace, DeletesFit, CallerAt
<1>2. QuotaInv /\ StorageWrapsOnlyByRace /\ DeletesFit /\ [QuotaNext]_quotaVars
        => StorageWrapsOnlyByRace' /\ DeletesFit'
  BY StorageStep
<1> QED BY <1>1, <1>2, SlotsAreCounted, PTL DEF QuotaSpec
=============================================================================
