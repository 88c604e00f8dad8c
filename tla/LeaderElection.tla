--------------------------- MODULE LeaderElection ---------------------------
(***************************************************************************)
(* Leader election of the jobs scheduler: run_leader_task of reactor-server *)
(* over PgAdvisoryLeader of reactor-cache, for one task name.               *)
(*                                                                          *)
(* A PostgreSQL advisory lock belongs to the SESSION that took it.          *)
(* PgAdvisoryLeader sends each of its queries to the pool, so the session   *)
(* that locks, the session that unlocks and the sessions the pool closes    *)
(* are unrelated.  The model keeps the sessions of each instance's pool,    *)
(* the sessions whose client is gone but which the server has not closed,   *)
(* and the session that owns the lock.                                      *)
(*                                                                          *)
(* The lock is reentrant in PostgreSQL.  A second grant to one session is   *)
(* never asked for (invariant NoReentry), so a holder needs no depth.       *)
(***************************************************************************)
EXTENDS Naturals, FiniteSets

CONSTANTS
    Instances,          \* processes that run reactor-server
    Sessions,           \* PostgreSQL sessions
    NoSession,
    PoolMax,            \* pool_max of the database configuration
    MaxDisruptions      \* bound on shutdowns, crashes and lost connections

ASSUME LeaderConstants ==
    /\ NoSession \notin Sessions
    /\ MaxDisruptions \in Nat
    /\ PoolMax \in Nat \ {0}

VARIABLES
    pc,           \* pc[i]: where i's run_leader_task is
    shutdown,     \* shutdown[i]: the watch channel of i
    held_locks,   \* held_locks[i]: does i's map hold the task name
    pool,         \* pool[i]: the sessions of i's PgPool
    orphaned,     \* sessions without a client that the server still keeps
    lock,         \* the session that owns the advisory lock, or NoSession
    reaped,       \* has a pool ever closed the session that owned the lock
    disruptions

leaderVars == <<pc, shutdown, held_locks, pool, orphaned, lock, reaped, disruptions>>

(* "try": at the top of the loop; "wait": in the select between attempts;   *)
(* "got": the server granted the lock; "leading": the scheduler runs;       *)
(* "dropped": the guard was dropped; "removed": held_locks is cleared and   *)
(* the unlock is to be sent; "done": the task returned; "off": no process.  *)
Locations == {"try", "wait", "got", "leading", "dropped", "removed", "done", "off"}

LeaderTypeOK ==
    /\ pc \in [Instances -> Locations]
    /\ shutdown \in [Instances -> BOOLEAN]
    /\ held_locks \in [Instances -> BOOLEAN]
    /\ pool \in [Instances -> SUBSET Sessions]
    /\ orphaned \subseteq Sessions
    /\ lock \in Sessions \cup {NoSession}
    /\ reaped \in BOOLEAN
    /\ disruptions \in Nat

LeaderInit ==
    /\ pc = [i \in Instances |-> "try"]
    /\ shutdown = [i \in Instances |-> FALSE]
    /\ held_locks = [i \in Instances |-> FALSE]
    /\ pool = [i \in Instances |-> {}]
    /\ orphaned = {}
    /\ lock = NoSession
    /\ reaped = FALSE
    /\ disruptions = 0

-----------------------------------------------------------------------------

(* The pool hands out one of its idle sessions, or opens a new one while it *)
(* has fewer than pool_max.                                                 *)
Acquirable(i, s) ==
    \/ s \in pool[i]
    \/ /\ Cardinality(pool[i]) < PoolMax
       /\ s \notin orphaned
       /\ \A j \in Instances : s \notin pool[j]

Disrupted ==
    /\ disruptions < MaxDisruptions
    /\ disruptions' = disruptions + 1

Goto(i, l) == pc' = [pc EXCEPT ![i] = l]

(* The loop finds the shutdown flag set, at its top or in the select. *)
LeaveLoop(i) ==
    /\ pc[i] \in {"try", "wait"}
    /\ shutdown[i]
    /\ Goto(i, "done")
    /\ UNCHANGED <<shutdown, held_locks, pool, orphaned, lock, reaped, disruptions>>

(* pg_try_advisory_lock answers true. *)
TryGranted(i, s) ==
    /\ pc[i] = "try"
    /\ Acquirable(i, s)
    /\ lock = NoSession
    /\ lock' = s
    /\ pool' = [pool EXCEPT ![i] = @ \cup {s}]
    /\ Goto(i, "got")
    /\ UNCHANGED <<shutdown, held_locks, orphaned, reaped, disruptions>>

(* A mutant of TryDenied: the task gives up instead of retrying. *)
TryDeniedGivesUp(i, s) ==
    /\ pc[i] = "try"
    /\ Acquirable(i, s)
    /\ lock # NoSession
    /\ pool' = [pool EXCEPT ![i] = @ \cup {s}]
    /\ Goto(i, "done")
    /\ UNCHANGED <<shutdown, held_locks, orphaned, lock, reaped, disruptions>>

(* pg_try_advisory_lock answers false: AcquisitionFailed, retry later. *)
TryDenied(i, s) ==
    /\ pc[i] = "try"
    /\ Acquirable(i, s)
    /\ lock # NoSession
    /\ pool' = [pool EXCEPT ![i] = @ \cup {s}]
    /\ Goto(i, "wait")
    /\ UNCHANGED <<shutdown, held_locks, orphaned, lock, reaped, disruptions>>

(* A mutant of TryLost: the session of a failed query stays in the pool.    *)
TryLostKeepsSession(i, s) ==
    /\ pc[i] = "try"
    /\ Acquirable(i, s)
    /\ Disrupted
    /\ lock' \in IF lock = NoSession THEN {NoSession, s} ELSE {lock}
    /\ pool' = [pool EXCEPT ![i] = @ \cup {s}]
    /\ Goto(i, "wait")
    /\ UNCHANGED <<shutdown, held_locks, orphaned, reaped>>

(* The connection breaks during the query: LeaderError::Connection.  The    *)
(* server may have granted the lock to the session nobody reads from.       *)
TryLost(i, s) ==
    /\ pc[i] = "try"
    /\ Acquirable(i, s)
    /\ Disrupted
    /\ lock' \in IF lock = NoSession THEN {NoSession, s} ELSE {lock}
    /\ pool' = [pool EXCEPT ![i] = @ \ {s}]
    /\ orphaned' = orphaned \cup {s}
    /\ Goto(i, "wait")
    /\ UNCHANGED <<shutdown, held_locks, reaped>>

(* The five seconds between two attempts are over. *)
Retry(i) ==
    /\ pc[i] = "wait"
    /\ Goto(i, "try")
    /\ UNCHANGED <<shutdown, held_locks, pool, orphaned, lock, reaped, disruptions>>

(* A mutant of Lead: Ok(_) in place of Ok(_guard), which drops the guard    *)
(* and unlocks before the scheduler starts.                                 *)
LeadWithoutGuard(i) ==
    /\ pc[i] = "got"
    /\ lock' = NoSession
    /\ Goto(i, "leading")
    /\ UNCHANGED <<shutdown, held_locks, pool, orphaned, reaped, disruptions>>

(* held_locks.insert, the guard is built and start_scheduler is awaited. *)
Lead(i) ==
    /\ pc[i] = "got"
    /\ held_locks' = [held_locks EXCEPT ![i] = TRUE]
    /\ Goto(i, "leading")
    /\ UNCHANGED <<shutdown, pool, orphaned, lock, reaped, disruptions>>

(* start_scheduler returns after the shutdown signal; the guard is dropped, *)
(* which only spawns the release.                                           *)
DropGuard(i) ==
    /\ pc[i] = "leading"
    /\ shutdown[i]
    /\ Goto(i, "dropped")
    /\ UNCHANGED <<shutdown, held_locks, pool, orphaned, lock, reaped, disruptions>>

(* held_locks.remove in the spawned task. *)
ForgetLock(i) ==
    /\ pc[i] = "dropped"
    /\ held_locks' = [held_locks EXCEPT ![i] = FALSE]
    /\ Goto(i, "removed")
    /\ UNCHANGED <<shutdown, pool, orphaned, lock, reaped, disruptions>>

(* pg_advisory_unlock on whichever session the pool gives: it frees the     *)
(* lock only if that session took it, and the answer is ignored.            *)
Unlock(i, s) ==
    /\ pc[i] = "removed"
    /\ Acquirable(i, s)
    /\ lock' = IF lock = s THEN NoSession ELSE lock
    /\ pool' = [pool EXCEPT ![i] = @ \cup {s}]
    /\ Goto(i, "done")
    /\ UNCHANGED <<shutdown, held_locks, orphaned, reaped, disruptions>>

(* The unlock query fails and its error is discarded. *)
UnlockFails(i) ==
    /\ pc[i] = "removed"
    /\ Disrupted
    /\ Goto(i, "done")
    /\ UNCHANGED <<shutdown, held_locks, pool, orphaned, lock, reaped>>

-----------------------------------------------------------------------------

(* SIGTERM: the shutdown channel is set. *)
Shutdown(i) ==
    /\ pc[i] # "off"
    /\ ~shutdown[i]
    /\ Disrupted
    /\ shutdown' = [shutdown EXCEPT ![i] = TRUE]
    /\ UNCHANGED <<pc, held_locks, pool, orphaned, lock, reaped>>

ProcessEnds(i) ==
    /\ pc[i] # "off"
    /\ Goto(i, "off")
    /\ shutdown' = [shutdown EXCEPT ![i] = FALSE]
    /\ held_locks' = [held_locks EXCEPT ![i] = FALSE]
    /\ orphaned' = orphaned \cup pool[i]
    /\ pool' = [pool EXCEPT ![i] = {}]
    /\ UNCHANGED <<lock, reaped>>

(* The server returns once its tasks have drained or 30 seconds have passed. *)
Exit(i) == shutdown[i] /\ ProcessEnds(i) /\ UNCHANGED disruptions

CrashInstance(i) == ProcessEnds(i) /\ Disrupted

Restart(i) ==
    /\ pc[i] = "off"
    /\ Goto(i, "try")
    /\ UNCHANGED <<shutdown, held_locks, pool, orphaned, lock, reaped, disruptions>>

(* PostgreSQL notices that a client is gone and ends its session. *)
SessionEnds(s) ==
    /\ s \in orphaned
    /\ orphaned' = orphaned \ {s}
    /\ lock' = IF lock = s THEN NoSession ELSE lock
    /\ UNCHANGED <<pc, shutdown, held_locks, pool, reaped, disruptions>>

(* The pool reaps an idle or old session, or its connection breaks, while   *)
(* the process runs on.                                                     *)
Recycle(i, s) ==
    /\ s \in pool[i]
    /\ Disrupted
    /\ pool' = [pool EXCEPT ![i] = @ \ {s}]
    /\ lock' = IF lock = s THEN NoSession ELSE lock
    /\ reaped' = (reaped \/ lock = s)
    /\ UNCHANGED <<pc, shutdown, held_locks, orphaned>>

-----------------------------------------------------------------------------

TaskStep(i) ==
    \/ LeaveLoop(i) \/ Retry(i) \/ Lead(i) \/ DropGuard(i) \/ ForgetLock(i)
    \/ UnlockFails(i)
    \/ \E s \in Sessions : \/ TryGranted(i, s) \/ TryDenied(i, s)
                           \/ TryLost(i, s) \/ Unlock(i, s)

ProcessStep(i) ==
    \/ Shutdown(i) \/ Exit(i) \/ CrashInstance(i) \/ Restart(i)
    \/ \E s \in Sessions : Recycle(i, s)

LeaderNext ==
    \/ \E i \in Instances : TaskStep(i) \/ ProcessStep(i)
    \/ \E s \in Sessions : SessionEnds(s)

LeaderSpec == LeaderInit /\ [][LeaderNext]_leaderVars

(* The task runs, an exiting process ends, PostgreSQL ends dead sessions.   *)
LeaderFairSpec ==
    /\ LeaderSpec
    /\ \A i \in Instances : WF_leaderVars(TaskStep(i)) /\ WF_leaderVars(Exit(i))
    /\ \A s \in Sessions : WF_leaderVars(SessionEnds(s))

-----------------------------------------------------------------------------

(* No session is in two pools or both pooled and orphaned. *)
PoolsDisjoint ==
    /\ \A i, j \in Instances : i # j => pool[i] \cap pool[j] = {}
    /\ \A i \in Instances : pool[i] \cap orphaned = {}

(* A session that owns the lock still exists. *)
LockIsOpen ==
    lock = NoSession \/ lock \in orphaned \/ \E i \in Instances : lock \in pool[i]

(* An instance past its grant and before its unlock owns the lock, unless a *)
(* pool closed the session under it.                                        *)
LeaderOwnsLock ==
    \/ reaped
    \/ \A i \in Instances :
          pc[i] \in {"got", "leading", "dropped", "removed"} => lock \in pool[i]

(* An instance that asks for the lock does not own it through another of    *)
(* its own sessions: no grant is ever a reentrant one.                      *)
NoReentry ==
    \A i \in Instances : pc[i] \in {"try", "wait", "off"} => lock \notin pool[i]

(* is_leader answers true exactly while the guard lives or is being dropped. *)
HeldWhileLeading ==
    \A i \in Instances : held_locks[i] <=> pc[i] \in {"leading", "dropped"}

(* Until a pool closes the session that owns the lock, whoever believes to  *)
(* lead owns the lock through a session of its own pool, whatever crashes,  *)
(* failed queries, shutdowns and unlocks on the wrong session happened.     *)
LeaderInv ==
    /\ LeaderTypeOK /\ PoolsDisjoint /\ LockIsOpen
    /\ LeaderOwnsLock /\ NoReentry /\ HeldWhileLeading

(* jobs.rs, run_leader_task: "Only one instance will run the scheduler at a *)
(* time."                                                                   *)
AtMostOneScheduler ==
    \A i, j \in Instances : pc[i] = "leading" /\ pc[j] = "leading" => i = j

(* The same until a pool closes the session that owns the lock: no crash,   *)
(* restart, lost answer or stray unlock leads to two schedulers.            *)
OneWhileLockKept == reaped \/ AtMostOneScheduler

\* i's process runs and was not told to stop
Up(i) == pc[i] # "off" /\ ~shutdown[i]

(* While an instance is up the jobs do not stay without a scheduler: after  *)
(* a crash of the leader, a shutdown whose unlock ran on the wrong session  *)
(* or a grant whose answer was lost, somebody leads again.                  *)
StandbyTakesOver ==
    \A i \in Instances : Up(i) ~> (~Up(i) \/ \E j \in Instances : pc[j] = "leading")

=============================================================================
