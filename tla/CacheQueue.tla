------------------------------ MODULE CacheQueue ------------------------------
(***************************************************************************)
(* The delivery queue of crates/reactor-cache: the table                    *)
(* _reactor_cache.queue and the four QueueOperations of PostgresBackend     *)
(* (enqueue, dequeue, ack, nack) as clients of several processes call them. *)
(*                                                                          *)
(* A dequeue is one SQL statement, but not one step: the inner SELECT takes *)
(* row locks (FOR UPDATE SKIP LOCKED), the outer UPDATE writes the receipt  *)
(* and the answer then travels back to the caller.  The model keeps the     *)
(* locks, the commit, the abort and the lost answer apart.  The other       *)
(* operations are single-row statements and are one step each.              *)
(*                                                                          *)
(* A receipt is "<fresh uuid>-<row id>": the pair <<item, attempt>> names   *)
(* the same thing, because every dequeue of a row increments its attempt.   *)
(***************************************************************************)
EXTENDS Integers, FiniteSets, FiniteSetsExt

CONSTANTS
    Items,              \* row ids (Uuid::now_v7: never reused)
    Queues,             \* queue names
    Consumers,          \* tasks that call dequeue / ack / nack
    Counts,             \* the "count" arguments of dequeue
    Delays,             \* the delays of enqueue and nack, 0 for None
    VisibilityTimeout,  \* the visibility_timeout argument of dequeue
    MaxTime,            \* bound on the clock
    MaxAttempts         \* bound on the deliveries of one row

ASSUME QueueConstants ==
    /\ Counts \subseteq Nat \ {0}
    /\ Delays \subseteq Nat
    /\ VisibilityTimeout \in Nat
    /\ MaxTime \in Nat
    /\ MaxAttempts \in Nat \ {0}
    /\ IsFiniteSet(Items)
    /\ "none" \notin Queues

VARIABLES
    now,      \* the database clock, now()
    rows,     \* the table: rows[i] is a Row or NoRow
    locked,   \* locked[c]: the rows c's dequeue has selected FOR UPDATE
    held,     \* held[c]: the receipts c has been handed and still remembers
    used      \* the row ids that were ever inserted

vars == <<now, rows, locked, held, used>>

NULL == 0     \* receipt IS NULL
NoRow == [queue |-> "none", visible_at |-> 0, attempt |-> 0, receipt |-> NULL]

Row == [queue : Queues, visible_at : Nat, attempt : Nat, receipt : Nat]

Receipt == Items \X (Nat \ {0})

Present(i) == rows[i] # NoRow

TypeOK ==
    /\ now \in Nat
    /\ rows \in [Items -> Row \cup {NoRow}]
    /\ locked \in [Consumers -> SUBSET Items]
    /\ held \in [Consumers -> SUBSET Receipt]
    /\ used \subseteq Items

Init ==
    /\ now = 0
    /\ rows = [i \in Items |-> NoRow]
    /\ locked = [c \in Consumers |-> {}]
    /\ held = [c \in Consumers |-> {}]
    /\ used = {}

-------------------------------------------------------------------------------

(* INSERT INTO queue (id, queue_name, data, visible_at, attempt). *)
Enqueue(i, q, d) ==
    /\ i \notin used
    /\ now + d <= MaxTime
    /\ rows' = [rows EXCEPT ![i] = [queue |-> q, visible_at |-> now + d,
                                    attempt |-> 0, receipt |-> NULL]]
    /\ used' = used \cup {i}
    /\ UNCHANGED <<now, locked, held>>

(* Mutants of Selectable: FOR UPDATE without SKIP LOCKED's exclusion; only  *)
(* rows that were never delivered.                                          *)
SelectableLockedToo(q) ==
    {i \in Items : Present(i) /\ rows[i].queue = q /\ rows[i].visible_at <= now
                   /\ rows[i].receipt = NULL}

SelectableOnce(q) ==
    {i \in Items : Present(i) /\ rows[i].queue = q /\ rows[i].visible_at <= now
                   /\ rows[i].receipt = NULL /\ rows[i].attempt = 0
                   /\ \A c \in Consumers : i \notin locked[c]}

(* The rows the inner SELECT of dequeue may return: visible, without a      *)
(* receipt, and not locked by another statement (SKIP LOCKED).              *)
Selectable(q) ==
    {i \in Items : /\ Present(i)
                   /\ rows[i].queue = q
                   /\ rows[i].visible_at <= now
                   /\ rows[i].receipt = NULL
                   /\ \A c \in Consumers : i \notin locked[c]}

(* ORDER BY visible_at LIMIT n over the selectable rows: n of them, none    *)
(* younger than one left out.                                               *)
Oldest(S, n) ==
    {T \in SUBSET S :
        /\ Cardinality(T) = Min({n, Cardinality(S)})
        /\ \A i \in T, j \in S \ T : rows[i].visible_at <= rows[j].visible_at}

(* The CTE "dequeued" of a dequeue call: select the rows and lock them. An  *)
(* empty selection is a dequeue that returns no item and changes nothing.   *)
DequeueSelect(c, q, n) ==
    /\ locked[c] = {}
    /\ \E T \in Oldest(Selectable(q), n) :
          /\ T # {}
          /\ locked' = [locked EXCEPT ![c] = T]
    /\ UNCHANGED <<now, rows, held, used>>

(* Mutant of Claimed: the timeout is subtracted.                            *)
ClaimedBackwards(c) ==
    [i \in Items |->
        IF i \in locked[c]
        THEN [rows[i] EXCEPT !.receipt = rows[i].attempt + 1,
                             !.visible_at = now - VisibilityTimeout,
                             !.attempt = @ + 1]
        ELSE rows[i]]

(* The UPDATE of a dequeue call and its commit: the rows get the receipt,   *)
(* a visible_at one visibility timeout ahead and one more attempt.  (The    *)
(* statement's now() is its start; the model reads the clock at the commit, *)
(* and nothing reads the visible_at of a row that has a receipt.)           *)
Claimed(c) ==
    [i \in Items |->
        IF i \in locked[c]
        THEN [rows[i] EXCEPT !.receipt = rows[i].attempt + 1,
                             !.visible_at = now + VisibilityTimeout,
                             !.attempt = @ + 1]
        ELSE rows[i]]

(* The caller gets the items with their receipts. *)
DequeueCommit(c) ==
    /\ locked[c] # {}
    /\ rows' = Claimed(c)
    /\ held' = [held EXCEPT ![c] = @ \cup {<<i, rows[i].attempt + 1>> : i \in locked[c]}]
    /\ locked' = [locked EXCEPT ![c] = {}]
    /\ UNCHANGED <<now, used>>

(* The statement commits, the caller never sees the answer (connection      *)
(* lost, or the calling future dropped by a select! at shutdown).           *)
DequeueAnswerLost(c) ==
    /\ locked[c] # {}
    /\ rows' = Claimed(c)
    /\ locked' = [locked EXCEPT ![c] = {}]
    /\ UNCHANGED <<now, held, used>>

(* The statement fails before it commits: its locks go, nothing is written. *)
DequeueAbort(c) ==
    /\ locked[c] # {}
    /\ locked' = [locked EXCEPT ![c] = {}]
    /\ UNCHANGED <<now, rows, held, used>>

(* Mutant of Matches: the receipt is compared by its row id only, so a      *)
(* receipt of an earlier delivery still matches.                            *)
MatchesById(r) == {i \in Items : Present(i) /\ rows[i].receipt # NULL /\ i = r[1]}

(* The rows a WHERE receipt = $1 matches: ack and nack on a receipt that is *)
(* not current match none and return InvalidReceipt.                        *)
Matches(r) == {i \in Items : Present(i) /\ rows[i].receipt # NULL /\ <<i, rows[i].receipt>> = r}

(* DELETE FROM queue WHERE receipt = $1.  The caller forgets the receipt,   *)
(* or keeps it and may call again (it did not see the answer).              *)
Ack(c, r) ==
    /\ r \in held[c]
    /\ rows' = [i \in Items |-> IF i \in Matches(r) THEN NoRow ELSE rows[i]]
    /\ \E keep \in BOOLEAN : held' = [held EXCEPT ![c] = IF keep THEN @ ELSE @ \ {r}]
    /\ UNCHANGED <<now, locked, used>>

(* UPDATE queue SET receipt = NULL, visible_at = now + delay WHERE receipt = $1. *)
Nack(c, r, d) ==
    /\ r \in held[c]
    /\ now + d <= MaxTime
    /\ r[2] < MaxAttempts
    /\ rows' = [i \in Items |->
                   IF i \in Matches(r)
                   THEN [rows[i] EXCEPT !.receipt = NULL, !.visible_at = now + d]
                   ELSE rows[i]]
    /\ \E keep \in BOOLEAN : held' = [held EXCEPT ![c] = IF keep THEN @ ELSE @ \ {r}]
    /\ UNCHANGED <<now, locked, used>>

(* The process of a consumer dies and restarts: what it held in memory is   *)
(* gone, a statement in flight is rolled back, the table stays.             *)
Crash(c) ==
    /\ held[c] # {} \/ locked[c] # {}
    /\ held' = [held EXCEPT ![c] = {}]
    /\ locked' = [locked EXCEPT ![c] = {}]
    /\ UNCHANGED <<now, rows, used>>

Tick ==
    /\ now < MaxTime
    /\ now' = now + 1
    /\ UNCHANGED <<rows, locked, held, used>>

SelectFrom(c, q) == \E n \in Counts : DequeueSelect(c, q, n)

Answer(c) == \E r \in held[c] : Ack(c, r) \/ \E d \in Delays : Nack(c, r, d)

Next ==
    \/ \E i \in Items, q \in Queues, d \in Delays : Enqueue(i, q, d)
    \/ \E c \in Consumers :
          \/ \E q \in Queues : SelectFrom(c, q)
          \/ DequeueCommit(c)
          \/ DequeueAnswerLost(c)
          \/ DequeueAbort(c)
          \/ Answer(c)
          \/ Crash(c)
    \/ Tick

Spec == Init /\ [][Next]_vars

(* The polling loops of the consumers never end (worker/pool.rs, run_worker) *)
(* and each consumer polls every queue of the model again and again, so a    *)
(* select that stays possible is made and, unless every attempt fails, one   *)
(* commits.  Nothing forces an answer: a consumer may crash for good.        *)
Fairness ==
    /\ WF_vars(Tick)
    /\ \A c \in Consumers :
          /\ \A q \in Queues : SF_vars(SelectFrom(c, q))
          /\ SF_vars(DequeueCommit(c))

FairSpec == Spec /\ Fairness

-------------------------------------------------------------------------------
(* The abstraction of the table to DeliveryQueue. *)

CurrentReceipt(i) == <<i, rows[i].receipt>>

Claimers(i) == {c \in Consumers : rows[i].receipt # NULL /\ CurrentReceipt(i) \in held[c]}

PhaseOf(i) ==
    CASE i \notin used                            -> "new"
      [] i \in used /\ ~Present(i)                -> "gone"
      [] i \in used /\ Present(i) /\ rows[i].receipt = NULL -> "waiting"
      [] OTHER                                    -> "taken"

DQ == INSTANCE DeliveryQueue WITH
        phase <- [i \in Items |-> PhaseOf(i)],
        owner <- [i \in Items |-> Claimers(i)]

(* The PostgreSQL backend implements the queue the trait promises: an item  *)
(* waits, is taken by one caller, and is removed or returned only by that   *)
(* caller's ack or nack, whatever stale receipts others still use.          *)
ImplementsDeliveryQueue == DQ!QSpec

(* A row's current receipt is in at most one consumer's hands, and a row    *)
(* that a dequeue has locked is in nobody's: no item is delivered twice at  *)
(* the same time (FOR UPDATE SKIP LOCKED and receipt IS NULL).              *)
ExclusiveDelivery ==
    \A i \in Items :
        /\ \A c, d \in Claimers(i) : c = d
        /\ \A c, d \in Consumers : i \in locked[c] /\ i \in locked[d] => c = d
        /\ \A c \in Consumers : i \in locked[c] => Present(i) /\ rows[i].receipt = NULL

(* A receipt names one delivery: the receipts in memory are of rows that    *)
(* were inserted and of attempts not later than the row's own.              *)
ReceiptsPast ==
    \A c \in Consumers : \A r \in held[c] :
        r[1] \in used /\ (Present(r[1]) => r[2] <= rows[r[1]].attempt)

(* A claimed row carries the receipt of its last attempt.                   *)
ReceiptIsLastAttempt ==
    \A i \in Items :
        /\ Present(i) => i \in used /\ rows[i].receipt \in {NULL, rows[i].attempt}
        /\ ~Present(i) => rows[i].receipt = NULL

QueueInv == TypeOK /\ ExclusiveDelivery /\ ReceiptsPast /\ ReceiptIsLastAttempt

(* A delivery is settled, the row removed or made to wait again, only by    *)
(* the caller that holds its current receipt: the receipt it forgets, if it *)
(* forgets one, is that one.  An ack or nack with the receipt of an earlier *)
(* delivery settles nobody else's, not even one whose own receipt was lost  *)
(* on the way (WHERE receipt = $1; no row is InvalidReceipt).               *)
SettledByItsHolder ==
    [][\A i \in Items : rows[i].receipt # NULL /\ rows'[i].receipt = NULL =>
          \E c \in Claimers(i) :
              held' \in {held, [held EXCEPT ![c] = @ \ {CurrentReceipt(i)}]}]_vars

(* Whatever crashes, aborts and lost answers happen, an item that waits in  *)
(* the queue is claimed in the end: none is stranded before its delivery.   *)
WaitingIsClaimed ==
    \A i \in Items : PhaseOf(i) = "waiting" ~> PhaseOf(i) # "waiting"

(* What the documentation of QueueOperations::dequeue says ("Items become   *)
(* invisible for the visibility timeout duration"): a row whose visible_at  *)
(* has passed can be selected again, so an unsettled delivery lapses.  The  *)
(* code also asks for receipt IS NULL (postgres.rs:95).                     *)
VisibleAgainAfterTimeout ==
    \A i \in Items :
        Present(i) /\ rows[i].visible_at <= now /\ (\A c \in Consumers : i \notin locked[c])
            => i \in Selectable(rows[i].queue)
===============================================================================
