----------------------------- MODULE DeliveryQueue -----------------------------
(***************************************************************************)
(* What the QueueOperations trait of crates/reactor-cache promises its      *)
(* callers, without the table, the clock or the receipts: an item is put    *)
(* once, waits, is taken by one consumer at a time, and leaves the queue    *)
(* or goes back to waiting only by the answer of the consumer that has it.  *)
(* CacheQueue (the PostgreSQL backend) is shown to implement it, and        *)
(* JobRuns is built on it.  It leaves out one promise of the trait, which   *)
(* the backend does not keep: that an item becomes visible again when its   *)
(* visibility timeout has passed (queue.rs:39, CacheQueue's                 *)
(* VisibleAgainAfterTimeout).                                               *)
(***************************************************************************)
CONSTANTS
    Items,       \* every item that may be put
    Consumers    \* every task that takes items

VARIABLES
    phase,   \* phase[i]: where item i is
    owner    \* owner[i]: the consumer that has the receipt of i: at most one

qvars == <<phase, owner>>

Phase == {"new", "waiting", "taken", "gone"}

QTypeOK ==
    /\ phase \in [Items -> Phase]
    /\ owner \in [Items -> SUBSET Consumers]

QInit ==
    /\ phase = [i \in Items |-> "new"]
    /\ owner = [i \in Items |-> {}]

(* enqueue *)
Put(i) ==
    /\ phase[i] = "new"
    /\ phase' = [phase EXCEPT ![i] = "waiting"]
    /\ UNCHANGED owner

(* dequeue: the items of S, none of which anybody has, go to the callers W, *)
(* {c} or, when the answer is lost, nobody.                                 *)
TakeFor(S, W) ==
    /\ S # {}
    /\ \A i \in S : phase[i] = "waiting"
    /\ phase' = [i \in Items |-> IF i \in S THEN "taken" ELSE phase[i]]
    /\ owner' = [i \in Items |-> IF i \in S THEN W ELSE owner[i]]

Take(c, S) == TakeFor(S, {c})

TakeUnseen(S) == TakeFor(S, {})

(* ack by the consumer that has the item *)
Done(c, i) ==
    /\ phase[i] = "taken"
    /\ owner[i] = {c}
    /\ phase' = [phase EXCEPT ![i] = "gone"]
    /\ owner' = [owner EXCEPT ![i] = {}]

(* nack by the consumer that has the item *)
Return(c, i) ==
    /\ phase[i] = "taken"
    /\ owner[i] = {c}
    /\ phase' = [phase EXCEPT ![i] = "waiting"]
    /\ owner' = [owner EXCEPT ![i] = {}]

(* a consumer dies, or drops a receipt it could still have used *)
Forget(c, S) ==
    /\ \A i \in S : owner[i] = {c}
    /\ owner' = [i \in Items |-> IF i \in S THEN {} ELSE owner[i]]
    /\ UNCHANGED phase

QNext ==
    \/ \E i \in Items : Put(i)
    \/ \E S \in SUBSET Items : TakeUnseen(S) \/ \E c \in Consumers : Take(c, S) \/ Forget(c, S)
    \/ \E c \in Consumers, i \in Items : Done(c, i) \/ Return(c, i)

QSpec == QInit /\ [][QNext]_qvars

(* At most one consumer has an item, and only an item that is taken.        *)
AtMostOneOwner ==
    \A i \in Items :
        /\ owner[i] # {} => phase[i] = "taken"
        /\ \A c, d \in owner[i] : c = d
===============================================================================
