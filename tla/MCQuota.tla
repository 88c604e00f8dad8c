-------------------------------- MODULE MCQuota --------------------------------
(* Small instances of the two halves of quota/, TokenBucket and             *)
(* QuotaService.  They share no state, so that one of them moves while the  *)
(* other stays as it was created leaves out no behaviour of either.         *)
EXTENDS TokenBucket, QuotaService, TLC

CONSTANTS t1, t2, c1, c2, c3

\* Threads and callers are interchangeable.
Symmetric == Permutations(Threads) \cup Permutations(Callers)

VARIABLE half    \* the half that moves

BucketMoves == half = "bucket" /\ Next /\ UNCHANGED <<quotaVars, half>>

CallersMove == half = "service" /\ QuotaNext /\ UNCHANGED <<vars, half>>

QuotasInit == Init /\ QuotaInit /\ half \in {"bucket", "service"}

QuotasNext == BucketMoves \/ CallersMove

QuotasSpec == QuotasInit /\ [][QuotasNext]_<<vars, quotaVars, half>>
================================================================================
