--------------------------- MODULE CacheQueueProofs ---------------------------
(***************************************************************************)
(* Proofs about CacheQueue for every set of items, queues and consumers and *)
(* every delay, count and bound: the inductive invariant QueueInv, the two  *)
(* delivery properties and the refinement of DeliveryQueue.  Then about the *)
(* leader election of the same crate, LeaderElection.                       *)
(***************************************************************************)
EXTENDS CacheQueue, LeaderElection, TLAPS

(* The table starts empty, with nothing locked and nothing held.            *)
LEMMA QueueInvInit == Init => QueueInv
  BY QueueConstants DEF Init, QueueInv, TypeOK, ExclusiveDelivery, ReceiptsPast,
     ReceiptIsLastAttempt, Claimers, CurrentReceipt, Present, NoRow, NULL, Row, Receipt

(* Only unlocked, visible rows without a receipt are ever selected.         *)
LEMMA SelectedRows ==
  ASSUME NEW q, NEW n, NEW T \in Oldest(Selectable(q), n), NEW i \in T
  PROVE  /\ i \in Items /\ Present(i) /\ rows[i].receipt = NULL
         /\ \A c \in Consumers : i \notin locked[c]
  BY DEF Oldest, Selectable

(* No row of the table is NoRow.                                            *)
LEMMA RowsAreNotNoRow ==
  ASSUME NEW row \in Row PROVE row # NoRow
<1>1. row.queue \in Queues
  BY DEF Row
<1>2. NoRow.queue = "none"
  BY DEF NoRow
<1> QED
  BY <1>1, <1>2, QueueConstants

(* The SET clause of dequeue: what a claimed row looks like.                *)
LEMMA ClaimedRow ==
  ASSUME NEW row \in Row, NEW t \in Nat, NEW v \in Nat
  PROVE  LET new == [row EXCEPT !.receipt = t, !.visible_at = v, !.attempt = t]
         IN  new \in Row /\ new.receipt = t /\ new.attempt = t
  BY DEF Row

(* The SET clause of nack: what a returned row looks like.                  *)
LEMMA ReturnedRow ==
  ASSUME NEW row \in Row, NEW v \in Nat
  PROVE  LET new == [row EXCEPT !.receipt = NULL, !.visible_at = v]
         IN  new \in Row /\ new.receipt = NULL /\ new.attempt = row.attempt
  BY DEF Row, NULL

(* Every step of the queue keeps QueueInv.                                  *)
LEMMA QueueInvStep == QueueInv /\ [Next]_vars => QueueInv'
<1> SUFFICES ASSUME QueueInv, [Next]_vars PROVE QueueInv'
  OBVIOUS
<1> USE QueueConstants
<1>1. ASSUME NEW i \in Items, NEW q \in Queues, NEW d \in Delays, Enqueue(i, q, d)
      PROVE  QueueInv'
  BY <1>1 DEF QueueInv, TypeOK, ExclusiveDelivery, ReceiptsPast,
     ReceiptIsLastAttempt, Claimers, CurrentReceipt, Present, NoRow, NULL, Row, Receipt, Enqueue
<1>2. ASSUME NEW c \in Consumers, NEW q \in Queues, NEW n \in Counts, DequeueSelect(c, q, n)
      PROVE  QueueInv'
  <2>1. PICK T \in Oldest(Selectable(q), n) : locked' = [locked EXCEPT ![c] = T]
    BY <1>2 DEF DequeueSelect
  <2>2. \A i \in T : /\ i \in Items /\ Present(i) /\ rows[i].receipt = NULL
                     /\ \A e \in Consumers : i \notin locked[e]
    BY SelectedRows
  <2> QED
    BY <1>2, <2>1, <2>2 DEF QueueInv, TypeOK, ExclusiveDelivery, ReceiptsPast,
       ReceiptIsLastAttempt, Claimers, CurrentReceipt, Present, DequeueSelect
<1>3. ASSUME NEW c \in Consumers, locked[c] # {}, rows' = Claimed(c),
             locked' = [locked EXCEPT ![c] = {}], UNCHANGED <<now, used>>,
             \/ held' = [held EXCEPT ![c] = @ \cup {<<i, rows[i].attempt + 1>> : i \in locked[c]}]
             \/ held' = held
      PROVE  QueueInv'
  <2> USE DEF Present, NULL
  <2>1. \A i \in Items : rows'[i] = IF i \in locked[c]
                          THEN [rows[i] EXCEPT !.receipt = rows[i].attempt + 1,
                                               !.visible_at = now + VisibilityTimeout,
                                               !.attempt = @ + 1]
                          ELSE rows[i]
    BY <1>3 DEF Claimed
  <2>2. \A i \in locked[c] : /\ i \in Items /\ i \in used /\ rows[i] \in Row
                             /\ rows[i].attempt \in Nat /\ rows[i].receipt = NULL
                             /\ \A e \in Consumers : e # c => i \notin locked[e]
    BY DEF QueueInv, TypeOK, ExclusiveDelivery, ReceiptIsLastAttempt, Row
  <2>3. \A i \in locked[c] : /\ rows'[i].receipt = rows[i].attempt + 1
                             /\ rows'[i].attempt = rows[i].attempt + 1
                             /\ rows'[i] \in Row
                             /\ Present(i)'
    <3> SUFFICES ASSUME NEW i \in locked[c]
                 PROVE  /\ rows'[i].receipt = rows[i].attempt + 1
                        /\ rows'[i].attempt = rows[i].attempt + 1
                        /\ rows'[i] \in Row
                        /\ Present(i)'
      OBVIOUS
    <3> DEFINE t == rows[i].attempt + 1
               v == now + VisibilityTimeout
    <3>1. t \in Nat /\ v \in Nat /\ rows[i] \in Row
      BY <2>2 DEF QueueInv, TypeOK
    <3>2. rows'[i] = [rows[i] EXCEPT !.receipt = t, !.visible_at = v, !.attempt = t]
      BY <2>1, <2>2
    <3> HIDE DEF t, v
    <3>3. rows'[i] \in Row /\ rows'[i].receipt = t /\ rows'[i].attempt = t
      <4> DEFINE new == [rows[i] EXCEPT !.receipt = t, !.visible_at = v, !.attempt = t]
      <4>1. new \in Row /\ new.receipt = t /\ new.attempt = t
        BY <3>1, ClaimedRow
      <4> QED
        BY <3>2, <4>1
    <3> QED
      <4>1. rows'[i] # NoRow
        BY <3>3, RowsAreNotNoRow
      <4> QED
        BY <3>3, <4>1 DEF t
  <2>4. \A i \in Items : i \notin locked[c] => rows'[i] = rows[i]
    BY <2>1
  <2>5. \A e \in Consumers : \A r \in held'[e] :
           \/ r \in held[e]
           \/ e = c /\ \E i \in locked[c] : r = <<i, rows[i].attempt + 1>>
    <3> DEFINE new == {<<i, rows[i].attempt + 1>> : i \in locked[c]}
    <3>1. \A r \in new : \E i \in locked[c] : r = <<i, rows[i].attempt + 1>>
      OBVIOUS
    <3>2. held' = held \/ held' = [held EXCEPT ![c] = @ \cup new]
      BY <1>3
    <3>3. held \in [Consumers -> SUBSET Receipt]
      BY DEF QueueInv, TypeOK
    <3> HIDE DEF new
    <3>4. \A e \in Consumers : \A r \in held'[e] : r \in held[e] \/ (e = c /\ r \in new)
      BY <3>2, <3>3
    <3> QED
      BY <3>1, <3>4
  <2>6. TypeOK'
    <3>1. rows' \in [Items -> Row \cup {NoRow}]
      BY <1>3, <2>3, <2>4 DEF QueueInv, TypeOK, Claimed
    <3>2. held' \in [Consumers -> SUBSET Receipt]
      <4>1. {<<i, rows[i].attempt + 1>> : i \in locked[c]} \subseteq Receipt
        BY <2>2 DEF Receipt
      <4> QED
        BY <1>3, <4>1 DEF QueueInv, TypeOK
    <3> QED
      BY <1>3, <3>1, <3>2 DEF QueueInv, TypeOK
  <2>7. ReceiptIsLastAttempt'
    BY <1>3, <2>2, <2>3, <2>4 DEF QueueInv, ReceiptIsLastAttempt
  <2>8. ReceiptsPast'
    <3> SUFFICES ASSUME NEW e \in Consumers, NEW r \in held'[e]
                 PROVE  r[1] \in used' /\ (Present(r[1])' => r[2] <= rows'[r[1]].attempt)
      BY DEF ReceiptsPast
    <3>1. CASE r \in held[e]
      <4>1. r[1] \in Items /\ r[2] \in Nat /\ r[1] \in used
            /\ (Present(r[1]) => r[2] <= rows[r[1]].attempt)
        BY <3>1 DEF QueueInv, TypeOK, ReceiptsPast, Receipt
      <4>2. CASE r[1] \in locked[c]
        BY <1>3, <4>1, <4>2, <2>2, <2>3 DEF QueueInv, ExclusiveDelivery
      <4>3. CASE r[1] \notin locked[c]
        BY <1>3, <4>1, <4>3, <2>4
      <4> QED
        BY <4>2, <4>3
    <3>2. CASE \E i \in locked[c] : r = <<i, rows[i].attempt + 1>>
      BY <1>3, <3>2, <2>2, <2>3
    <3> QED
      BY <3>1, <3>2, <2>5
  <2>9. ExclusiveDelivery'
    <3> SUFFICES ASSUME NEW i \in Items
                 PROVE  /\ \A b, d \in Claimers(i)' : b = d
                        /\ \A b, d \in Consumers : i \in locked'[b] /\ i \in locked'[d] => b = d
                        /\ \A b \in Consumers : i \in locked'[b] =>
                               Present(i)' /\ rows'[i].receipt = NULL
      BY DEF ExclusiveDelivery
    <3>1. \A b \in Consumers : i \in locked'[b] => i \in locked[b] /\ b # c
      BY <1>3 DEF QueueInv, TypeOK
    <3>2. CASE i \in locked[c]
      <4>1. \A b \in Claimers(i)' : b = c
        <5> SUFFICES ASSUME NEW b \in Consumers, <<i, rows[i].attempt + 1>> \in held[b]
                     PROVE  FALSE
          BY <2>3, <2>5, <3>2 DEF Claimers, CurrentReceipt
        <5> QED
          BY <2>2, <3>2 DEF QueueInv, ReceiptsPast, ExclusiveDelivery
      <4> QED
        BY <4>1, <3>1, <3>2, <2>2
    <3>3. CASE i \notin locked[c]
      <4>1. \A b \in Claimers(i)' : b \in Claimers(i)
        BY <2>2, <2>4, <2>5, <3>3 DEF Claimers, CurrentReceipt
      <4> QED
        BY <4>1, <3>1, <3>3, <2>4 DEF QueueInv, ExclusiveDelivery
    <3> QED
      BY <3>2, <3>3
  <2> QED
    BY <2>6, <2>7, <2>8, <2>9 DEF QueueInv
<1>4. ASSUME NEW c \in Consumers, DequeueAbort(c) PROVE QueueInv'
  BY <1>4 DEF QueueInv, TypeOK, ExclusiveDelivery, ReceiptsPast,
     ReceiptIsLastAttempt, Claimers, CurrentReceipt, Present, DequeueAbort
<1>5. ASSUME NEW c \in Consumers, NEW r \in held[c], Ack(c, r) PROVE QueueInv'
  BY <1>5 DEF QueueInv, TypeOK, ExclusiveDelivery, ReceiptsPast, Matches,
     ReceiptIsLastAttempt, Claimers, CurrentReceipt, Present, NoRow, NULL, Row, Receipt, Ack
<1>6. ASSUME NEW c \in Consumers, NEW r \in held[c], NEW d \in Delays, Nack(c, r, d)
      PROVE  QueueInv'
  <2> USE DEF Present, NULL
  <2>1. \A e \in Consumers : held'[e] \subseteq held[e]
    BY <1>6 DEF QueueInv, TypeOK, Nack
  <2>2. \A i \in Items : \/ rows'[i] = rows[i]
                         \/ /\ Present(i)
                            /\ rows[i].receipt # NULL
                            /\ rows'[i] = [rows[i] EXCEPT !.receipt = NULL, !.visible_at = now + d]
    BY <1>6 DEF Nack, Matches
  <2>3. \A i \in Items : /\ rows'[i] \in Row \cup {NoRow}
                         /\ rows'[i].attempt = rows[i].attempt
                         /\ rows'[i].receipt \in {NULL, rows[i].receipt}
                         /\ Present(i)' <=> Present(i)
    <3> SUFFICES ASSUME NEW i \in Items, rows'[i] # rows[i]
                 PROVE  /\ rows'[i] \in Row
                        /\ rows'[i].attempt = rows[i].attempt
                        /\ rows'[i].receipt = NULL
                        /\ Present(i)' /\ Present(i)
      BY DEF QueueInv, TypeOK
    <3>1. rows[i] \in Row /\ rows'[i] = [rows[i] EXCEPT !.receipt = 0, !.visible_at = now + d]
      BY <2>2 DEF QueueInv, TypeOK
    <3>2. now + d \in Nat
      BY DEF QueueInv, TypeOK
    <3> QED
      <4> DEFINE new == [rows[i] EXCEPT !.receipt = NULL, !.visible_at = now + d]
      <4>1. new \in Row /\ new.receipt = NULL /\ new.attempt = rows[i].attempt
        BY <3>1, <3>2, ReturnedRow
      <4>2. new # NoRow /\ rows[i] # NoRow
        BY <3>1, <4>1, RowsAreNotNoRow
      <4> QED
        BY <3>1, <4>1, <4>2
  <2>4. TypeOK'
    <3>1. rows' \in [Items -> Row \cup {NoRow}]
      BY <1>6, <2>3 DEF Nack
    <3>2. held' \in [Consumers -> SUBSET Receipt]
      BY <1>6 DEF QueueInv, TypeOK, Nack
    <3> QED
      BY <1>6, <3>1, <3>2 DEF QueueInv, TypeOK, Nack
  <2>5. ReceiptIsLastAttempt'
    <3>1. used' = used
      BY <1>6 DEF Nack
    <3> QED
      BY <3>1, <2>3 DEF QueueInv, ReceiptIsLastAttempt
  <2>6. ReceiptsPast'
    BY <1>6, <2>1, <2>3 DEF QueueInv, TypeOK, Receipt, ReceiptsPast, Nack
  <2>7. ExclusiveDelivery'
    <3>1. locked' = locked
      BY <1>6 DEF Nack
    <3>2. \A i \in Items : Claimers(i)' \subseteq Claimers(i)
      BY <2>1, <2>3 DEF Claimers, CurrentReceipt
    <3> QED
      BY <3>1, <3>2, <2>3 DEF QueueInv, ExclusiveDelivery
  <2> QED
    BY <2>4, <2>5, <2>6, <2>7 DEF QueueInv
<1>7. ASSUME NEW c \in Consumers, Crash(c) PROVE QueueInv'
  BY <1>7 DEF QueueInv, TypeOK, ExclusiveDelivery, ReceiptsPast,
     ReceiptIsLastAttempt, Claimers, CurrentReceipt, Present, Crash
<1>8. CASE Tick
  BY <1>8 DEF QueueInv, TypeOK, ExclusiveDelivery, ReceiptsPast,
     ReceiptIsLastAttempt, Claimers, CurrentReceipt, Present, Tick
<1>9. CASE UNCHANGED vars
  BY <1>9 DEF QueueInv, TypeOK, ExclusiveDelivery, ReceiptsPast,
     ReceiptIsLastAttempt, Claimers, CurrentReceipt, Present, vars
<1> QED
  BY <1>1, <1>2, <1>3, <1>4, <1>5, <1>6, <1>7, <1>8, <1>9
     DEF Next, SelectFrom, DequeueCommit, DequeueAnswerLost, Answer

(* QueueInv holds in every reachable state of the queue.                    *)
THEOREM QueueInvariant == Spec => []QueueInv
  BY QueueInvInit, QueueInvStep, PTL DEF Spec

(* No item is ever delivered to two consumers at the same time.             *)
THEOREM Exclusive == Spec => []ExclusiveDelivery
<1>1. QueueInv => ExclusiveDelivery
  BY DEF QueueInv
<1> QED
  BY <1>1, QueueInvariant, PTL

(* An ack or nack that changes a claimed row is by the consumer that holds  *)
(* the row's receipt, and that receipt is the one it may forget.            *)
LEMMA AnswersMatch ==
  ASSUME QueueInv, NEW i \in Items, NEW c \in Consumers, NEW r \in held[c], i \in Matches(r),
         \E keep \in BOOLEAN : held' = [held EXCEPT ![c] = IF keep THEN @ ELSE @ \ {r}]
  PROVE  \E d \in Claimers(i) :
            held' \in {held, [held EXCEPT ![d] = @ \ {CurrentReceipt(i)}]}
<1>1. r = CurrentReceipt(i) /\ c \in Claimers(i)
  BY DEF Matches, Claimers, CurrentReceipt
<1>2. held' = held \/ held' = [held EXCEPT ![c] = @ \ {r}]
  BY DEF QueueInv, TypeOK
<1> QED
  BY <1>1, <1>2

(* What a step that settles a delivery is.                                  *)
LEMMA SettledRowsWereHeld ==
  QueueInv /\ [Next]_vars =>
    \A i \in Items : rows[i].receipt # NULL /\ rows'[i].receipt = NULL =>
        \E c \in Claimers(i) :
            held' \in {held, [held EXCEPT ![c] = @ \ {CurrentReceipt(i)}]}
<1> SUFFICES ASSUME QueueInv, [Next]_vars, NEW i \in Items,
                    rows[i].receipt # NULL, rows'[i].receipt = NULL
             PROVE  \E c \in Claimers(i) :
                        held' \in {held, [held EXCEPT ![c] = @ \ {CurrentReceipt(i)}]}
  OBVIOUS
<1>1. Present(i) /\ i \in used
  BY DEF QueueInv, ReceiptIsLastAttempt
<1>2. \A c \in Consumers : i \notin locked[c]
  BY DEF QueueInv, ExclusiveDelivery
<1>3. ASSUME NEW j \in Items, NEW q \in Queues, NEW d \in Delays, Enqueue(j, q, d)
      PROVE  FALSE
  BY <1>1, <1>3 DEF Enqueue, QueueInv, TypeOK
<1>4. ASSUME NEW c \in Consumers, rows' = Claimed(c) PROVE FALSE
  BY <1>2, <1>4 DEF Claimed
<1>5. ASSUME NEW c \in Consumers, NEW r \in held[c],
             Ack(c, r) \/ \E d \in Delays : Nack(c, r, d)
      PROVE  \E d \in Claimers(i) :
                held' \in {held, [held EXCEPT ![d] = @ \ {CurrentReceipt(i)}]}
  <2>1. i \in Matches(r)
    BY <1>5 DEF Ack, Nack
  <2>2. \E keep \in BOOLEAN : held' = [held EXCEPT ![c] = IF keep THEN @ ELSE @ \ {r}]
    BY <1>5 DEF Ack, Nack
  <2> QED
    BY <2>1, <2>2, AnswersMatch
<1>6. ASSUME rows' = rows PROVE FALSE
  BY <1>6
<1> QED
  BY <1>3, <1>4, <1>5, <1>6 DEF Next, SelectFrom, DequeueSelect, DequeueCommit,
     DequeueAnswerLost, DequeueAbort, Answer, Crash, Tick, vars

(* Only the holder of the current receipt settles a delivery; a stale       *)
(* receipt settles nobody's.                                                *)
THEOREM HolderSettlesDelivery == Spec => SettledByItsHolder
<1>1. QueueInv /\ [Next]_vars =>
        [\A i \in Items : rows[i].receipt # NULL /\ rows'[i].receipt = NULL =>
            \E c \in Claimers(i) :
                held' \in {held, [held EXCEPT ![c] = @ \ {CurrentReceipt(i)}]}]_vars
  BY SettledRowsWereHeld
<1> QED
  BY <1>1, QueueInvariant, PTL DEF Spec, SettledByItsHolder

-------------------------------------------------------------------------------
(* The refinement: what each step of the table does to the phases and the   *)
(* owners of DeliveryQueue.                                                 *)

(* The phase of an item, from its row.                                      *)
LEMMA Phases ==
  ASSUME QueueInv, NEW i \in Items
  PROVE  /\ PhaseOf(i) = "new" <=> i \notin used
         /\ PhaseOf(i) = "gone" <=> i \in used /\ ~Present(i)
         /\ PhaseOf(i) = "waiting" <=> Present(i) /\ rows[i].receipt = NULL
         /\ PhaseOf(i) = "taken" <=> rows[i].receipt # NULL
         /\ PhaseOf(i) \in {"new", "gone", "waiting", "taken"}
         /\ Claimers(i) # {} => PhaseOf(i) = "taken"
  BY DEF QueueInv, ReceiptIsLastAttempt, PhaseOf, Claimers

(* A step that changes neither a row nor a receipt in memory.               *)
LEMMA StutterStep ==
  ASSUME UNCHANGED <<rows, used, held>>
  PROVE  UNCHANGED DQ!qvars
  BY DEF DQ!qvars, PhaseOf, Claimers, CurrentReceipt, Present

(* enqueue puts its item.                                                   *)
LEMMA EnqueuePuts ==
  ASSUME QueueInv, QueueInv', NEW i \in Items, NEW q \in Queues, NEW d \in Delays, Enqueue(i, q, d)
  PROVE  DQ!Put(i)
<1>1. PhaseOf(i) = "new" /\ Claimers(i) = {}
  BY Phases DEF Enqueue
<1>2. rows'[i].receipt = NULL /\ rows'[i].queue = q
  BY DEF Enqueue, QueueInv, TypeOK
<1>3. Present(i)'
  BY <1>2, QueueConstants DEF Present, NoRow
<1>4. PhaseOf(i)' = "waiting" /\ Claimers(i)' = {}
  BY <1>2, <1>3 DEF PhaseOf, Claimers, Enqueue
<1>5. \A j \in Items : j # i => PhaseOf(j)' = PhaseOf(j) /\ Claimers(j)' = Claimers(j)
  BY DEF Enqueue, QueueInv, TypeOK, PhaseOf, Claimers, CurrentReceipt, Present
<1> QED BY <1>1, <1>4, <1>5 DEF DQ!Put

(* dequeue takes what it locked, for its caller or unseen.                  *)
LEMMA DequeueTakes ==
  ASSUME QueueInv, QueueInv', NEW c \in Consumers, DequeueCommit(c) \/ DequeueAnswerLost(c)
  PROVE  \/ DQ!Take(c, locked[c])
         \/ DQ!TakeUnseen(locked[c])
<1> USE DEF NULL
<1>1. \A i \in locked[c] : /\ i \in Items /\ i \in used /\ Present(i) /\ rows[i].receipt = NULL
                           /\ PhaseOf(i) = "waiting" /\ rows[i].attempt \in Nat
  BY Phases DEF QueueInv, TypeOK, ExclusiveDelivery, ReceiptIsLastAttempt, Row, Present
<1>2. \A i \in Items : i \notin locked[c] => rows'[i] = rows[i]
  BY DEF DequeueCommit, DequeueAnswerLost, Claimed
<1>3. \A i \in locked[c] : rows'[i].receipt = rows[i].attempt + 1
  BY <1>1 DEF DequeueCommit, DequeueAnswerLost, Claimed, QueueInv, TypeOK, Row, Present
<1>4. \A i \in locked[c] : PhaseOf(i)' = "taken"
  <2>1. \A i \in locked[c] : i \in Items /\ rows'[i].receipt # NULL
    BY <1>1, <1>3
  <2>2. \A i \in Items : rows'[i].receipt # NULL => Present(i)' /\ i \in used'
    BY DEF QueueInv, ReceiptIsLastAttempt
  <2> QED BY <2>1, <2>2 DEF PhaseOf
<1>5. \A i \in locked[c] : \A b \in Consumers : <<i, rows[i].attempt + 1>> \notin held[b]
  <2> SUFFICES ASSUME NEW i \in locked[c], NEW b \in Consumers,
                      <<i, rows[i].attempt + 1>> \in held[b]
               PROVE  FALSE
    OBVIOUS
  <2>1. rows[i].attempt + 1 <= rows[i].attempt
    BY <1>1 DEF QueueInv, ReceiptsPast
  <2> QED BY <1>1, <2>1
<1>6. \A j \in Items : j \notin locked[c] => PhaseOf(j)' = PhaseOf(j)
  BY <1>2 DEF PhaseOf, Present, DequeueCommit, DequeueAnswerLost
<1>7. CASE DequeueCommit(c)
  <2>1. \A i \in locked[c] : c \in Claimers(i)'
    BY <1>1, <1>3, <1>7 DEF DequeueCommit, Claimers, CurrentReceipt, QueueInv, TypeOK
  <2>2. \A i \in locked[c] : Claimers(i)' = {c}
    BY <1>1, <2>1 DEF QueueInv, ExclusiveDelivery
  <2>3. \A j \in Items : j \notin locked[c] => Claimers(j)' = Claimers(j)
    BY <1>2, <1>7 DEF DequeueCommit, Claimers, CurrentReceipt, QueueInv, TypeOK
  <2> QED BY <1>1, <1>4, <1>6, <1>7, <2>2, <2>3 DEF DQ!Take, DQ!TakeFor, DequeueCommit
<1>8. CASE DequeueAnswerLost(c)
  <2>1. \A i \in locked[c] : Claimers(i)' = {}
    BY <1>3, <1>5, <1>8 DEF DequeueAnswerLost, Claimers, CurrentReceipt
  <2>2. \A j \in Items : j \notin locked[c] => Claimers(j)' = Claimers(j)
    BY <1>2, <1>8 DEF DequeueAnswerLost, Claimers, CurrentReceipt
  <2> QED BY <1>1, <1>4, <1>6, <1>8, <2>1, <2>2 DEF DQ!TakeUnseen, DQ!TakeFor, DequeueAnswerLost
<1> QED BY <1>7, <1>8

(* A receipt that a caller uses, and may keep.                              *)
LEMMA UsedReceipt ==
  ASSUME QueueInv, NEW c \in Consumers, NEW r \in held[c], UNCHANGED used,
         \E keep \in BOOLEAN : held' = [held EXCEPT ![c] = IF keep THEN @ ELSE @ \ {r}]
  PROVE  /\ \A i \in Items : rows'[i] = rows[i] /\ <<i, rows[i].receipt>> # r =>
               PhaseOf(i)' = PhaseOf(i) /\ Claimers(i)' = Claimers(i)
         /\ \A i \in Matches(r) : /\ i \in Items /\ r = <<i, rows[i].receipt>>
                                  /\ PhaseOf(i) = "taken" /\ Claimers(i) = {c}
<1>1. ASSUME NEW i \in Items, rows'[i] = rows[i], <<i, rows[i].receipt>> # r
      PROVE  PhaseOf(i)' = PhaseOf(i) /\ Claimers(i)' = Claimers(i)
  <2>1. PhaseOf(i)' = PhaseOf(i)
    BY <1>1 DEF PhaseOf, Present
  <2>2. \A b \in Consumers : <<i, rows[i].receipt>> \in held'[b]
          <=> <<i, rows[i].receipt>> \in held[b]
    BY <1>1 DEF QueueInv, TypeOK
  <2>3. Claimers(i)' = Claimers(i)
    BY <1>1, <2>2 DEF Claimers, CurrentReceipt
  <2> QED BY <2>1, <2>3
<1>2. ASSUME NEW i \in Matches(r)
      PROVE  /\ i \in Items /\ r = <<i, rows[i].receipt>>
             /\ PhaseOf(i) = "taken" /\ Claimers(i) = {c}
  <2>1. i \in Items /\ r = <<i, rows[i].receipt>> /\ rows[i].receipt # NULL
    BY DEF Matches
  <2>2. c \in Claimers(i)
    BY <2>1 DEF Claimers, CurrentReceipt
  <2>3. Claimers(i) = {c}
    BY <2>1, <2>2 DEF QueueInv, ExclusiveDelivery
  <2> QED BY <2>1, <2>3, Phases
<1> QED BY <1>1, <1>2

(* ack ends the delivery of its receipt, or changes nothing.                *)
LEMMA AckEnds ==
  ASSUME QueueInv, QueueInv', NEW c \in Consumers, NEW r \in held[c], Ack(c, r)
  PROVE  UNCHANGED DQ!qvars \/ \E i \in Items : DQ!Done(c, i)
<1>1. /\ \A i \in Items : rows'[i] = rows[i] /\ <<i, rows[i].receipt>> # r =>
            PhaseOf(i)' = PhaseOf(i) /\ Claimers(i)' = Claimers(i)
      /\ \A i \in Matches(r) : /\ i \in Items /\ r = <<i, rows[i].receipt>>
                               /\ PhaseOf(i) = "taken" /\ Claimers(i) = {c}
  BY UsedReceipt DEF Ack
<1>2. \A i \in Items : rows'[i] = IF i \in Matches(r) THEN NoRow ELSE rows[i]
  BY DEF Ack
<1>3. \A i \in Items : i \notin Matches(r) => PhaseOf(i)' = PhaseOf(i) /\ Claimers(i)' = Claimers(i)
  <2> SUFFICES ASSUME NEW i \in Items, i \notin Matches(r)
               PROVE  PhaseOf(i)' = PhaseOf(i) /\ Claimers(i)' = Claimers(i)
    OBVIOUS
  <2>1. CASE <<i, rows[i].receipt>> # r
    BY <1>1, <1>2, <2>1
  <2>2. CASE <<i, rows[i].receipt>> = r
    <3>1. rows[i].receipt = NULL
      BY <2>2 DEF Matches, QueueInv, ReceiptIsLastAttempt
    <3>2. PhaseOf(i)' = PhaseOf(i)
      BY <1>2 DEF PhaseOf, Present, Ack
    <3>3. Claimers(i)' = {} /\ Claimers(i) = {}
      BY <1>2, <3>1 DEF Claimers
    <3> QED BY <3>2, <3>3
  <2> QED BY <2>1, <2>2
<1>4. CASE Matches(r) = {}
  BY <1>3, <1>4 DEF DQ!qvars
<1>5. ASSUME NEW i \in Matches(r) PROVE DQ!Done(c, i)
  <2>1. i \in Items /\ PhaseOf(i) = "taken" /\ Claimers(i) = {c}
    BY <1>1
  <2>2. \A j \in Items : j # i => PhaseOf(j)' = PhaseOf(j) /\ Claimers(j)' = Claimers(j)
    <3>1. \A j \in Items : j # i => j \notin Matches(r)
      BY <1>1
    <3> QED BY <1>3, <3>1
  <2>3. PhaseOf(i)' = "gone" /\ Claimers(i)' = {}
    <3>1. i \in used
      BY <2>1, Phases DEF QueueInv, ReceiptIsLastAttempt, NULL
    <3>2. rows'[i] = NoRow
      BY <1>2, <2>1
    <3> QED BY <3>1, <3>2 DEF Ack, PhaseOf, Claimers, Present, NoRow, NULL
  <2> QED BY <2>1, <2>2, <2>3 DEF DQ!Done
<1> QED BY <1>1, <1>4, <1>5

(* nack gives the item of its receipt back, or changes nothing.             *)
LEMMA NackReturns ==
  ASSUME QueueInv, QueueInv', NEW c \in Consumers, NEW r \in held[c],
         NEW d \in Delays, Nack(c, r, d)
  PROVE  UNCHANGED DQ!qvars \/ \E i \in Items : DQ!Return(c, i)
<1>1. /\ \A i \in Items : rows'[i] = rows[i] /\ <<i, rows[i].receipt>> # r =>
            PhaseOf(i)' = PhaseOf(i) /\ Claimers(i)' = Claimers(i)
      /\ \A i \in Matches(r) : /\ i \in Items /\ r = <<i, rows[i].receipt>>
                               /\ PhaseOf(i) = "taken" /\ Claimers(i) = {c}
  BY UsedReceipt DEF Nack
<1>2. \A i \in Items : rows'[i] = IF i \in Matches(r)
                                  THEN [rows[i] EXCEPT !.receipt = NULL, !.visible_at = now + d]
                                  ELSE rows[i]
  BY DEF Nack
<1>3. \A i \in Items : i \notin Matches(r) => PhaseOf(i)' = PhaseOf(i) /\ Claimers(i)' = Claimers(i)
  <2> SUFFICES ASSUME NEW i \in Items, i \notin Matches(r)
               PROVE  PhaseOf(i)' = PhaseOf(i) /\ Claimers(i)' = Claimers(i)
    OBVIOUS
  <2>1. CASE <<i, rows[i].receipt>> # r
    BY <1>1, <1>2, <2>1
  <2>2. CASE <<i, rows[i].receipt>> = r
    <3>1. rows[i].receipt = NULL
      BY <2>2 DEF Matches, QueueInv, ReceiptIsLastAttempt
    <3>2. PhaseOf(i)' = PhaseOf(i)
      BY <1>2 DEF PhaseOf, Present, Nack
    <3>3. Claimers(i)' = {} /\ Claimers(i) = {}
      BY <1>2, <3>1 DEF Claimers
    <3> QED BY <3>2, <3>3
  <2> QED BY <2>1, <2>2
<1>4. CASE Matches(r) = {}
  BY <1>3, <1>4 DEF DQ!qvars
<1>5. ASSUME NEW i \in Matches(r) PROVE DQ!Return(c, i)
  <2>1. i \in Items /\ PhaseOf(i) = "taken" /\ Claimers(i) = {c}
    BY <1>1
  <2>2. \A j \in Items : j # i => PhaseOf(j)' = PhaseOf(j) /\ Claimers(j)' = Claimers(j)
    <3>1. \A j \in Items : j # i => j \notin Matches(r)
      BY <1>1
    <3> QED BY <1>3, <3>1
  <2>3. PhaseOf(i)' = "waiting" /\ Claimers(i)' = {}
    <3>1. i \in used /\ rows[i] \in Row
      BY <2>1, Phases DEF QueueInv, TypeOK, ReceiptIsLastAttempt, NULL, NoRow
    <3>2. rows'[i] \in Row /\ rows'[i].receipt = NULL
      <4>1. now + d \in Nat
        BY QueueConstants DEF QueueInv, TypeOK
      <4>2. rows'[i] = [rows[i] EXCEPT !.receipt = NULL, !.visible_at = now + d]
        BY <1>2, <2>1
      <4> QED BY <3>1, <4>1, <4>2, ReturnedRow
    <3>3. Present(i)'
      BY <3>2, RowsAreNotNoRow DEF Present
    <3> QED BY <3>1, <3>2, <3>3 DEF Nack, PhaseOf, Claimers
  <2> QED BY <2>1, <2>2, <2>3 DEF DQ!Return
<1> QED BY <1>1, <1>4, <1>5

(* A crash forgets the current receipts of its consumer.                    *)
LEMMA CrashForgets ==
  ASSUME QueueInv, NEW c \in Consumers, Crash(c)
  PROVE  DQ!Forget(c, {i \in Items : c \in Claimers(i)})
<1>1. \A i \in Items : PhaseOf(i)' = PhaseOf(i)
  BY DEF Crash, PhaseOf, Present
<1>2. \A i \in Items : Claimers(i)' = Claimers(i) \ {c}
  BY DEF Crash, Claimers, CurrentReceipt, QueueInv, TypeOK
<1>3. \A i \in Items : c \in Claimers(i) => Claimers(i) = {c}
  BY DEF QueueInv, ExclusiveDelivery
<1>4. \A i \in Items : Claimers(i)' = IF c \in Claimers(i) THEN {} ELSE Claimers(i)
  BY <1>2, <1>3
<1> QED BY <1>1, <1>3, <1>4 DEF DQ!Forget

(* Every step of the table is a step of the abstract queue, or none.        *)
LEMMA QueueSteps == QueueInv /\ QueueInv' /\ [Next]_vars => [DQ!QNext]_(DQ!qvars)
<1> SUFFICES ASSUME QueueInv, QueueInv', [Next]_vars PROVE DQ!QNext \/ UNCHANGED DQ!qvars
  OBVIOUS
<1>1. ASSUME NEW i \in Items, NEW q \in Queues, NEW d \in Delays, Enqueue(i, q, d)
      PROVE  DQ!QNext
  BY <1>1, EnqueuePuts DEF DQ!QNext
<1>2. ASSUME NEW c \in Consumers, DequeueCommit(c) \/ DequeueAnswerLost(c) PROVE DQ!QNext
  <2>1. locked[c] \in SUBSET Items
    BY DEF QueueInv, TypeOK
  <2> QED BY <1>2, <2>1, DequeueTakes DEF DQ!QNext
<1>3. ASSUME NEW c \in Consumers, NEW r \in held[c], Ack(c, r)
      PROVE  DQ!QNext \/ UNCHANGED DQ!qvars
  BY <1>3, AckEnds DEF DQ!QNext
<1>4. ASSUME NEW c \in Consumers, NEW r \in held[c], NEW d \in Delays, Nack(c, r, d)
      PROVE  DQ!QNext \/ UNCHANGED DQ!qvars
  BY <1>4, NackReturns DEF DQ!QNext
<1>5. ASSUME NEW c \in Consumers, Crash(c) PROVE DQ!QNext
  <2>1. {i \in Items : c \in Claimers(i)} \in SUBSET Items
    OBVIOUS
  <2> QED BY <1>5, <2>1, CrashForgets DEF DQ!QNext
<1>6. ASSUME \/ \E c \in Consumers : DequeueAbort(c) \/ \E q \in Queues : SelectFrom(c, q)
             \/ Tick
             \/ UNCHANGED vars
      PROVE  UNCHANGED DQ!qvars
  BY <1>6, StutterStep DEF DequeueAbort, SelectFrom, DequeueSelect, Tick, vars
<1> QED BY <1>1, <1>2, <1>3, <1>4, <1>5, <1>6 DEF Next, Answer

(* The PostgreSQL backend implements the queue that QueueOperations         *)
(* promises: its table, with aborted statements, lost answers, stale        *)
(* receipts and crashes, shows its callers the steps of DeliveryQueue only. *)
THEOREM Implements == Spec => ImplementsDeliveryQueue
<1>1. Init => DQ!QInit
  BY DEF Init, DQ!QInit, PhaseOf, Claimers, NULL, NoRow
<1> QED BY <1>1, QueueSteps, QueueInvariant, PTL DEF Spec, ImplementsDeliveryQueue, DQ!QSpec

-----------------------------------------------------------------------------
(***************************************************************************)
(* The other service of reactor-cache, PgAdvisoryLeader: run_leader_task    *)
(* elects at most one scheduler, for any number of instances, sessions and  *)
(* disruptions, until a pool closes the session that owns the lock while    *)
(* its process runs.                                                        *)
(***************************************************************************)

(* A session the pool hands to an instance is in no other pool and alive. *)
LEMMA AcquirableIsOwn ==
    ASSUME LeaderInv, NEW i \in Instances, NEW s \in Sessions, Acquirable(i, s)
    PROVE  /\ s \notin orphaned
           /\ \A j \in Instances : j # i => s \notin pool[j]
  BY DEF LeaderInv, PoolsDisjoint, Acquirable

(* Freeing a session that belongs to nobody but i leaves the lock of every  *)
(* other instance alone: the lock is in one pool at most.                   *)
LEMMA LockInOnePool ==
    ASSUME LeaderInv, NEW i \in Instances, NEW j \in Instances,
           lock \in pool[i], lock \in pool[j]
    PROVE  i = j
  BY DEF LeaderInv, PoolsDisjoint

(* The initial states of run_leader_task satisfy the invariant. *)
LEMMA LeaderInvInit ==
    LeaderInit => LeaderInv
<1> SUFFICES ASSUME LeaderInit PROVE LeaderInv
  OBVIOUS
<1>1. reaped \in BOOLEAN
  BY Zenon DEF LeaderInit
<1>2. LeaderTypeOK
  BY <1>1 DEF LeaderInit, LeaderTypeOK, Locations
<1>3. PoolsDisjoint /\ LockIsOpen /\ LeaderOwnsLock /\ HeldWhileLeading
  BY DEF LeaderInit, PoolsDisjoint, LockIsOpen, LeaderOwnsLock, HeldWhileLeading
<1>4. NoReentry
  BY DEF LeaderInit, NoReentry
<1> QED BY <1>2, <1>3, <1>4 DEF LeaderInv

(* The steps of run_leader_task and of PgAdvisoryLeader keep the invariant. *)
LEMMA TaskKeepsInv ==
    ASSUME LeaderInv, NEW i \in Instances, TaskStep(i)
    PROVE  LeaderInv'
<1> USE LeaderConstants DEF LeaderInv, LeaderTypeOK, Locations, Goto
<1>1. CASE LeaveLoop(i)
  BY <1>1 DEF LeaveLoop, PoolsDisjoint, LockIsOpen, LeaderOwnsLock,
          NoReentry, HeldWhileLeading
<1>2. CASE Retry(i)
  BY <1>2 DEF Retry, PoolsDisjoint, LockIsOpen, LeaderOwnsLock,
          NoReentry, HeldWhileLeading
<1>3. CASE Lead(i)
  BY <1>3 DEF Lead, PoolsDisjoint, LockIsOpen, LeaderOwnsLock,
          NoReentry, HeldWhileLeading
<1>4. CASE DropGuard(i)
  BY <1>4 DEF DropGuard, PoolsDisjoint, LockIsOpen, LeaderOwnsLock,
          NoReentry, HeldWhileLeading
<1>5. CASE ForgetLock(i)
  BY <1>5 DEF ForgetLock, PoolsDisjoint, LockIsOpen, LeaderOwnsLock,
          NoReentry, HeldWhileLeading
<1>6. CASE UnlockFails(i)
  BY <1>6 DEF UnlockFails, Disrupted, PoolsDisjoint, LockIsOpen, LeaderOwnsLock,
          NoReentry, HeldWhileLeading
<1>7. ASSUME NEW s \in Sessions, TryGranted(i, s)
      PROVE  LeaderInv'
  <2>1. s \notin orphaned /\ \A j \in Instances : j # i => s \notin pool[j]
    BY <1>7, AcquirableIsOwn DEF TryGranted
  <2>2. LeaderTypeOK'
    BY <1>7 DEF TryGranted
  <2>3. PoolsDisjoint' /\ LockIsOpen'
    BY <1>7, <2>1 DEF TryGranted, PoolsDisjoint, LockIsOpen
  <2>4. LeaderOwnsLock' /\ NoReentry' /\ HeldWhileLeading'
    BY <1>7, <2>1 DEF TryGranted, LeaderOwnsLock, NoReentry, HeldWhileLeading
  <2> QED BY <2>2, <2>3, <2>4
<1>8. ASSUME NEW s \in Sessions, TryDenied(i, s)
      PROVE  LeaderInv'
  <2>1. s \notin orphaned /\ \A j \in Instances : j # i => s \notin pool[j]
    BY <1>8, AcquirableIsOwn DEF TryDenied
  <2>2. LeaderTypeOK'
    BY <1>8 DEF TryDenied
  <2>3. PoolsDisjoint' /\ LockIsOpen'
    BY <1>8, <2>1 DEF TryDenied, PoolsDisjoint, LockIsOpen
  <2>4. lock # s
    BY <1>8 DEF TryDenied, Acquirable, LockIsOpen, NoReentry
  <2>5. LeaderOwnsLock' /\ NoReentry' /\ HeldWhileLeading'
    BY <1>8, <2>1, <2>4 DEF TryDenied, LeaderOwnsLock, NoReentry, HeldWhileLeading
  <2> QED BY <2>2, <2>3, <2>5
<1>9. ASSUME NEW s \in Sessions, TryLost(i, s)
      PROVE  LeaderInv'
  <2>1. s \notin orphaned /\ \A j \in Instances : j # i => s \notin pool[j]
    BY <1>9, AcquirableIsOwn DEF TryLost
  <2>2. LeaderTypeOK'
    BY <1>9 DEF TryLost, Disrupted
  <2>3. PoolsDisjoint' /\ LockIsOpen'
    BY <1>9, <2>1 DEF TryLost, PoolsDisjoint, LockIsOpen
  <2>4. LeaderOwnsLock' /\ NoReentry' /\ HeldWhileLeading'
    BY <1>9, <2>1 DEF TryLost, LeaderOwnsLock, NoReentry, HeldWhileLeading
  <2> QED BY <2>2, <2>3, <2>4
<1>10. ASSUME NEW s \in Sessions, Unlock(i, s)
       PROVE  LeaderInv'
  <2>1. s \notin orphaned /\ \A j \in Instances : j # i => s \notin pool[j]
    BY <1>10, AcquirableIsOwn DEF Unlock
  <2>2. LeaderTypeOK'
    BY <1>10 DEF Unlock
  <2>3. PoolsDisjoint' /\ LockIsOpen'
    BY <1>10, <2>1 DEF Unlock, PoolsDisjoint, LockIsOpen
  <2>4. LeaderOwnsLock' /\ NoReentry' /\ HeldWhileLeading'
    BY <1>10, <2>1 DEF Unlock, LeaderOwnsLock, NoReentry, HeldWhileLeading
  <2> QED BY <2>2, <2>3, <2>4
<1> QED
  BY <1>1, <1>2, <1>3, <1>4, <1>5, <1>6, <1>7, <1>8, <1>9, <1>10 DEF TaskStep

(* So do signals, exits, crashes and restarts of the process, and its pool  *)
(* when it closes a session.                                                *)
LEMMA ProcessKeepsInv ==
    ASSUME LeaderInv, NEW i \in Instances, ProcessStep(i)
    PROVE  LeaderInv'
<1> USE LeaderConstants DEF LeaderInv, LeaderTypeOK, Locations, Goto
<1>1. CASE Shutdown(i)
  BY <1>1 DEF Shutdown, Disrupted, PoolsDisjoint, LockIsOpen, LeaderOwnsLock,
          NoReentry, HeldWhileLeading
<1>2. CASE Restart(i)
  BY <1>2 DEF Restart, PoolsDisjoint, LockIsOpen, LeaderOwnsLock,
          NoReentry, HeldWhileLeading
<1>3. ASSUME ProcessEnds(i), disruptions' \in Nat
      PROVE  LeaderInv'
  <2>1. LeaderTypeOK'
    BY <1>3 DEF ProcessEnds
  <2>2. PoolsDisjoint'
    BY <1>3 DEF ProcessEnds, PoolsDisjoint
  <2>3. LockIsOpen'
    BY <1>3 DEF ProcessEnds, LockIsOpen
  <2>4. LeaderOwnsLock' /\ NoReentry' /\ HeldWhileLeading'
    BY <1>3 DEF ProcessEnds, LeaderOwnsLock, NoReentry, HeldWhileLeading
  <2> QED BY <2>1, <2>2, <2>3, <2>4
<1>4. CASE Exit(i)
  BY <1>3, <1>4 DEF Exit
<1>5. CASE CrashInstance(i)
  BY <1>3, <1>5 DEF CrashInstance, Disrupted
<1>6. ASSUME NEW s \in Sessions, Recycle(i, s)
      PROVE  LeaderInv'
  <2>1. LeaderTypeOK' /\ PoolsDisjoint'
    BY <1>6 DEF Recycle, Disrupted, PoolsDisjoint
  <2>2. LockIsOpen' /\ NoReentry' /\ HeldWhileLeading'
    BY <1>6 DEF Recycle, LockIsOpen, NoReentry, HeldWhileLeading
  <2>3. LeaderOwnsLock'
    BY <1>6 DEF Recycle, LeaderOwnsLock
  <2> QED BY <2>1, <2>2, <2>3
<1> QED
  BY <1>1, <1>2, <1>4, <1>5, <1>6 DEF ProcessStep

(* PostgreSQL frees the lock of a dead session only: its client had no pool *)
(* left, so nobody who leads loses the lock.                                *)
LEMMA SessionEndKeepsInv ==
    ASSUME LeaderInv, NEW s \in Sessions, SessionEnds(s)
    PROVE  LeaderInv'
<1> USE LeaderConstants DEF LeaderInv, LeaderTypeOK, Locations, SessionEnds
<1>1. \A j \in Instances : s \notin pool[j]
  BY DEF PoolsDisjoint
<1>2. LeaderTypeOK' /\ HeldWhileLeading'
  BY DEF HeldWhileLeading
<1>3. PoolsDisjoint' /\ LockIsOpen'
  BY DEF PoolsDisjoint, LockIsOpen
<1>4. LeaderOwnsLock' /\ NoReentry'
  BY <1>1 DEF LeaderOwnsLock, NoReentry
<1> QED BY <1>2, <1>3, <1>4

(* LeaderInv is an invariant of run_leader_task, for any instances, pools,  *)
(* sessions and disruptions.                                                *)
THEOREM LeaderInvariant ==
    LeaderSpec => []LeaderInv
<1>1. LeaderInit => LeaderInv
  BY LeaderInvInit
<1>2. LeaderInv /\ [LeaderNext]_leaderVars => LeaderInv'
  <2> SUFFICES ASSUME LeaderInv, [LeaderNext]_leaderVars PROVE LeaderInv'
    OBVIOUS
  <2>1. CASE LeaderNext
    BY <2>1, TaskKeepsInv, ProcessKeepsInv, SessionEndKeepsInv DEF LeaderNext
  <2>2. CASE UNCHANGED leaderVars
    BY <2>2 DEF leaderVars, LeaderInv, LeaderTypeOK, PoolsDisjoint, LockIsOpen,
            LeaderOwnsLock, NoReentry, HeldWhileLeading
  <2> QED BY <2>1, <2>2
<1> QED BY <1>1, <1>2, PTL DEF LeaderSpec

(* "Only one instance will run the scheduler at a time" (run_leader_task),  *)
(* until a pool closes the session that owns the lock: the lock is in the   *)
(* pool of each instance that leads, and in one pool at most.               *)
THEOREM OneScheduler ==
    LeaderSpec => []OneWhileLockKept
<1>1. LeaderInv => OneWhileLockKept
  <2> SUFFICES ASSUME LeaderInv, ~reaped, NEW i \in Instances, NEW j \in Instances,
                      pc[i] = "leading", pc[j] = "leading"
               PROVE  i = j
    BY DEF OneWhileLockKept, AtMostOneScheduler
  <2>1. lock \in pool[i] /\ lock \in pool[j]
    BY DEF LeaderInv, LeaderOwnsLock
  <2> QED BY <2>1, LockInOnePool
<1>2. LeaderSpec => []LeaderInv
  BY LeaderInvariant
<1> QED BY <1>1, <1>2, PTL
=============================================================================
