----------------------------- MODULE QuotaService -----------------------------
(***************************************************************************)
(* The per-tenant counters of reactor-server: quota/service.rs, for one     *)
(* project (projects share nothing but the map).  A TenantQuotaState is an  *)
(* object behind an Arc: the map `tenants` names the current one, a caller  *)
(* and a FunctionGuard keep the one they were given.                        *)
(*                                                                          *)
(* A map operation and an operation on an atomic are a step each;           *)
(* compare_exchange_weak may fail without cause.  The token bucket inside   *)
(* the object is the module TokenBucket.                                    *)
(***************************************************************************)
EXTENDS Integers, FiniteSets

CONSTANTS
    Callers,      \* the threads that serve requests of the project
    Limit,        \* limits.concurrent_functions
    Sizes,        \* what one upload or delete changes the storage by
    Modulus,      \* 2^64: the counter is unsigned
    Warm,         \* does the project's state exist from the start
    Clears,       \* is clear_tenant called
    MaxObjects,   \* bound: objects ever created, room for one per caller left at a clear
    MaxAdded      \* bound: bytes added to one object

ASSUME QuotaConstants ==
    /\ IsFiniteSet(Callers)
    /\ Limit \in Nat /\ Sizes \subseteq Nat \ {0}
    /\ MaxObjects \in Nat \ {0} /\ MaxAdded \in Nat
    /\ Modulus \in Nat /\ Modulus > MaxAdded
    /\ Warm \in BOOLEAN /\ Clears \in BOOLEAN

Objects == 1 .. MaxObjects

NoObject == 0

VARIABLES
    tenants,    \* the project's entry of the map, or NoObject
    made,       \* objects created so far: 1 .. made
    functions,  \* functions[o]: concurrent_functions of o
    storage,    \* storage[o]: storage_used_bytes of o
    added,      \* added[o]: all the bytes ever added to o (for the properties)
    raced,      \* the objects two deletes overlapped on (for the properties)
    caller      \* caller[t]: where t is, its object and what it has read

quotaVars == <<tenants, made, functions, storage, added, raced, caller>>

\* get_or_create's callers: try_acquire_function, and the three checks
QuotaOps == {"acquire", "check"}

QuotaPC == {"idle", "get", "create", "load", "cas", "running", "subtract"}

CallerState == [pc : QuotaPC, op : QuotaOps, obj : Objects \cup {NoObject}, seen : Nat]

IdleCaller == [pc |-> "idle", op |-> "check", obj |-> NoObject, seen |-> 0]

QuotaTypeOK ==
    /\ tenants \in Objects \cup {NoObject}
    /\ made \in Nat /\ made <= MaxObjects
    /\ functions \in [Objects -> Nat]
    /\ storage \in [Objects -> 0 .. Modulus - 1]
    /\ added \in [Objects -> 0 .. MaxAdded]
    /\ raced \subseteq Objects
    /\ caller \in [Callers -> CallerState]

QuotaInit ==
    /\ tenants = (IF Warm THEN 1 ELSE NoObject)
    /\ made = tenants
    /\ functions = [o \in Objects |-> 0]
    /\ storage = [o \in Objects |-> 0]
    /\ added = [o \in Objects |-> 0]
    /\ raced = {}
    /\ caller = [t \in Callers |-> IdleCaller]

-----------------------------------------------------------------------------

CallerAt(t, pc) == caller[t].pc = pc

CallerBecomes(t, r) == caller' = [caller EXCEPT ![t] = r]

\* t holds a reference into the map, which blocks whoever writes to it
Reading(t) == CallerAt(t, "subtract")

MapIsFree == \A t \in Callers : ~Reading(t)

Start(t, op) ==
    /\ CallerAt(t, "idle")
    /\ CallerBecomes(t, [IdleCaller EXCEPT !.pc = "get", !.op = op])
    /\ UNCHANGED <<tenants, made, functions, storage, added, raced>>

(* t has its object o: a check reads a counter and returns. *)
Goes(t, o) ==
    IF caller[t].op = "acquire"
    THEN CallerBecomes(t, [caller[t] EXCEPT !.pc = "load", !.obj = o])
    ELSE CallerBecomes(t, IdleCaller)

(* get_or_create: tenants.get. *)
Get(t) ==
    /\ CallerAt(t, "get")
    /\ IF tenants # NoObject
       THEN Goes(t, tenants)
       ELSE CallerBecomes(t, [caller[t] EXCEPT !.pc = "create"])
    /\ UNCHANGED <<tenants, made, functions, storage, added, raced>>

(* get_or_create: tenants.insert, whatever the entry is by now. *)
Create(t) ==
    /\ CallerAt(t, "create")
    /\ MapIsFree
    /\ made < MaxObjects
    /\ made' = made + 1
    /\ tenants' = made'
    /\ Goes(t, made')
    /\ UNCHANGED <<functions, storage, added, raced>>

(* try_acquire_function: the count is read; None at the limit. *)
Load(t) ==
    /\ CallerAt(t, "load")
    /\ LET current == functions[caller[t].obj]
       IN  IF current >= Limit
           THEN CallerBecomes(t, IdleCaller)
           ELSE CallerBecomes(t, [caller[t] EXCEPT !.pc = "cas", !.seen = current])
    /\ UNCHANGED <<tenants, made, functions, storage, added, raced>>

(* A mutant of Increment: a store in place of the compare-exchange. *)
IncrementAnyway(t) ==
    /\ CallerAt(t, "cas")
    /\ functions' = [functions EXCEPT ![caller[t].obj] = caller[t].seen + 1]
    /\ CallerBecomes(t, [caller[t] EXCEPT !.pc = "running"])
    /\ UNCHANGED <<tenants, made, storage, added, raced>>

(* compare_exchange_weak: the caller owns a FunctionGuard, or tries again. *)
Increment(t) ==
    /\ CallerAt(t, "cas")
    /\ LET o == caller[t].obj
       IN  \/ /\ functions[o] = caller[t].seen
              /\ functions' = [functions EXCEPT ![o] = @ + 1]
              /\ CallerBecomes(t, [caller[t] EXCEPT !.pc = "running"])
           \/ /\ CallerBecomes(t, [caller[t] EXCEPT !.pc = "load"])
              /\ UNCHANGED functions
    /\ UNCHANGED <<tenants, made, storage, added, raced>>

(* The FunctionGuard is dropped; its object may have left the map. *)
DropGuard(t) ==
    /\ CallerAt(t, "running")
    /\ functions' = [functions EXCEPT ![caller[t].obj] = @ - 1]
    /\ CallerBecomes(t, IdleCaller)
    /\ UNCHANGED <<tenants, made, storage, added, raced>>

(* record_storage_change with delta_bytes >= 0; nothing without an entry. *)
RecordUpload(t, size) ==
    /\ CallerAt(t, "idle") /\ tenants # NoObject
    /\ added[tenants] + size <= MaxAdded
    /\ storage' = [storage EXCEPT ![tenants] = (@ + size) % Modulus]
    /\ added' = [added EXCEPT ![tenants] = @ + size]
    /\ UNCHANGED <<tenants, made, functions, raced, caller>>

Least(a, b) == IF a < b THEN a ELSE b

\* the callers between the load and the fetch_sub of a delete from o
Deleting(o) == {t \in Callers : CallerAt(t, "subtract") /\ caller[t].obj = o}

\* a delete from the current object begins: does it overlap with another
NotesRace == raced' = raced \cup {o \in {tenants} : Deleting(o) # {}}

(* A mutant of LoadForDelete: the amount is not cut to what is there. *)
LoadForDeleteUncut(t, size) ==
    /\ CallerAt(t, "idle") /\ tenants # NoObject
    /\ CallerBecomes(t, [IdleCaller EXCEPT !.pc = "subtract", !.obj = tenants, !.seen = size])
    /\ NotesRace
    /\ UNCHANGED <<tenants, made, functions, storage, added>>

(* record_storage_change with delta_bytes < 0: abs_delta.min(load) ... *)
LoadForDelete(t, size) ==
    /\ CallerAt(t, "idle") /\ tenants # NoObject
    /\ CallerBecomes(t, [IdleCaller EXCEPT !.pc = "subtract", !.obj = tenants,
                               !.seen = Least(size, storage[tenants])])
    /\ NotesRace
    /\ UNCHANGED <<tenants, made, functions, storage, added>>

(* ... and the fetch_sub, which wraps. *)
Subtract(t) ==
    /\ CallerAt(t, "subtract")
    /\ storage' = [storage EXCEPT ![caller[t].obj] = (@ - caller[t].seen) % Modulus]
    /\ CallerBecomes(t, IdleCaller)
    /\ UNCHANGED <<tenants, made, functions, added, raced>>

(* clear_tenant: guards of the old object live on. *)
ClearTenant ==
    /\ Clears /\ made + Cardinality(Callers) <= MaxObjects
    /\ MapIsFree
    /\ tenants # NoObject
    /\ tenants' = NoObject
    /\ UNCHANGED <<made, functions, storage, added, raced, caller>>

-----------------------------------------------------------------------------

QuotaStep(t) ==
    \/ \E op \in QuotaOps : Start(t, op)
    \/ Get(t) \/ Create(t) \/ Load(t) \/ Increment(t) \/ DropGuard(t)
    \/ \E size \in Sizes : RecordUpload(t, size) \/ LoadForDelete(t, size)
    \/ Subtract(t)

QuotaNext == ClearTenant \/ \E t \in Callers : QuotaStep(t)

QuotaSpec == QuotaInit /\ [][QuotaNext]_quotaVars

-----------------------------------------------------------------------------

\* the callers whose FunctionGuard is on o
Guards(o) == {t \in Callers : CallerAt(t, "running") /\ caller[t].obj = o}

(* A caller in the middle of an acquire has an object and saw room in it;   *)
(* the map never names an object that was not made.                         *)
InFlight ==
    /\ tenants <= made
    /\ \A t \in Callers :
          /\ caller[t].pc \in {"load", "cas", "running", "subtract"} => caller[t].obj \in 1 .. made
          /\ CallerAt(t, "cas") => caller[t].seen < Limit

(* The counter of an object is exactly the number of its live guards and    *)
(* stays within the limit, also when the object was replaced or cleared     *)
(* while functions ran: no slot is leaked and none is given twice.          *)
SlotsMatchGuards ==
    \A o \in Objects : functions[o] = Cardinality(Guards(o)) /\ functions[o] <= Limit

QuotaInv == QuotaTypeOK /\ InFlight /\ SlotsMatchGuards

(* "Maximum concurrent function invocations": the limit holds for the       *)
(* project, not only for each object created for it.                        *)
FunctionsWithinLimit == Cardinality({t \in Callers : CallerAt(t, "running")}) <= Limit

(* "Current storage usage in bytes": the usage never exceeds all that was   *)
(* ever added, which it does once a subtraction wraps.                      *)
StorageNeverWraps == \A o \in Objects : storage[o] <= added[o]

(* Cutting abs_delta to what is there keeps the usage from wrapping through *)
(* any uploads, deletes larger than the usage, clears and replaced objects: *)
(* only two deletes of one object that overlap between the load and the     *)
(* fetch_sub can make it wrap.                                              *)
StorageWrapsOnlyByRace == \A o \in Objects : storage[o] <= added[o] \/ o \in raced

=============================================================================
