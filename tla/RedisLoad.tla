------------------------------ MODULE RedisLoad ------------------------------
(***************************************************************************)
(* cache/redis.go: RedisStore.GetOrSet for one key.  Callers of a process  *)
(* that miss share one load (singleflight); loads of several processes     *)
(* agree by a lock in Redis with a time to live, which its holder renews.  *)
(* Meanwhile the application changes the datum that the fetcher reads and  *)
(* invalidates or overwrites the cached value.                             *)
(*                                                                         *)
(* Every call to Redis is a step, because others run in between.  A token  *)
(* names the load that drew it: lock = p is the token of p's current load, *)
(* Orphan one whose load is gone.  The calls of a load use the context of  *)
(* the caller that started it, its leader; only the release has its own.   *)
(***************************************************************************)
EXTENDS Integers

CONSTANTS
    Processes,    \* processes with a RedisStore
    Calls,        \* calls of GetOrSet
    ProcessOf,    \* [Calls -> Processes]
    Free,         \* nobody holds the load lock
    Orphan,       \* the lock of a load that ended without releasing it
    MaxFaults,    \* bound: failed calls, crashes, stalls of a renewal
    MaxCancels,   \* bound: canceled contexts
    MaxUpdates    \* bound: changes of the datum

ASSUME ProcessAssumption ==
    /\ ProcessOf \in [Calls -> Processes]
    /\ Free \notin Processes /\ Orphan \notin Processes /\ Free # Orphan
ASSUME BoundsAssumption == {MaxFaults, MaxCancels, MaxUpdates} \subseteq Nat

\* No value; the versions of the datum start at 1.
None == 0

VARIABLES
    source,         \* version of the datum
    dirty,          \* the datum changed, and its invalidation has not returned
    value,          \* Redis: version under the key, or None
    lock,           \* Redis: whose token is under the load-lock key
    renewing,       \* processes whose renewal goroutine runs
    load,           \* [Processes -> stage of the load in progress]
    leader,         \* [Processes -> calls whose context the load uses, at most one]
    result,         \* [Processes -> version the load will return, None for an error]
    call,           \* [Calls -> where the call is]
    answer,         \* [Calls -> version the call returned]
    canceled,       \* calls whose context is canceled
    lapsed,         \* history: loads that lost the lock after they acquired or verified it
    floor,          \* history: [Calls -> version whose invalidation had returned at its first Get]
    crossed,        \* history: versions a load carried across an invalidation
    faults, cancels \* history: bounded by MaxFaults and MaxCancels

redis  == <<value, lock>>
data   == <<source, dirty, crossed>>
loads  == <<load, leader, result>>
calls  == <<call, answer, floor>>
vars   == <<data, redis, renewing, loads, calls, canceled, lapsed, faults, cancels>>

Init ==
    /\ source = 1
    /\ dirty = FALSE
    /\ value = None
    /\ lock = Free
    /\ renewing = {}
    /\ load = [p \in Processes |-> "none"]
    /\ leader = [p \in Processes |-> {}]
    /\ result = [p \in Processes |-> None]
    /\ call = [c \in Calls |-> "new"]
    /\ answer = [c \in Calls |-> None]
    /\ canceled = {}
    /\ lapsed = {}
    /\ floor = [c \in Calls |-> None]
    /\ crossed = {}
    /\ faults = 0
    /\ cancels = 0

Fault ==
    /\ faults < MaxFaults
    /\ faults' = faults + 1

\* The version whose invalidation has returned.
Settled == IF dirty THEN source - 1 ELSE source

-----------------------------------------------------------------------------
(* GetOrSet, in the goroutine of the caller.                               *)

\* The first Get; one that fails is like a call not made.
Look(c) ==
    /\ call[c] = "new"
    /\ floor' = [floor EXCEPT ![c] = Settled]
    /\ answer' = [answer EXCEPT ![c] = value]
    /\ call' = [call EXCEPT ![c] = IF value = None THEN "missed" ELSE "answered"]
    /\ UNCHANGED <<data, redis, renewing, loads, canceled, lapsed, faults, cancels>>

\* DoChan: join the load of the process, or start one.
Join(c) ==
    /\ call[c] = "missed"
    /\ call' = [call EXCEPT ![c] = "waiting"]
    /\ IF load[ProcessOf[c]] = "none"
       THEN /\ load' = [load EXCEPT ![ProcessOf[c]] = "checking"]
            /\ leader' = [leader EXCEPT ![ProcessOf[c]] = {c}]
            /\ UNCHANGED result
       ELSE UNCHANGED loads
    /\ UNCHANGED <<data, redis, renewing, answer, floor, canceled, lapsed, faults, cancels>>

\* The context ends the wait; the load goes on.
LeaveCanceled(c) ==
    /\ c \in canceled
    /\ call[c] = "waiting"
    /\ call' = [call EXCEPT ![c] = "failed"]
    /\ UNCHANGED <<data, redis, renewing, loads, answer, floor, canceled, lapsed, faults, cancels>>

Cancel(c) ==
    /\ call[c] \in {"missed", "waiting"}
    /\ c \notin canceled
    /\ cancels < MaxCancels
    /\ cancels' = cancels + 1
    /\ canceled' = canceled \cup {c}
    /\ UNCHANGED <<data, redis, renewing, loads, calls, lapsed, faults>>

-----------------------------------------------------------------------------
(* getOrSetDistributed and fetchWithLoadLock, in the goroutine of the load. *)

Goto(p, next) == load' = [load EXCEPT ![p] = next]

\* The context of the load is alive.
Alive(p) == leader[p] \cap canceled = {}

Waiters(p) == {c \in Calls : call[c] = "waiting" /\ ProcessOf[c] = p}

\* The load returns v, or an error, to every call that waits for it.
Return(p, v) ==
    /\ Goto(p, "none")
    /\ leader' = [leader EXCEPT ![p] = {}]
    /\ result' = [result EXCEPT ![p] = None]
    /\ call' = [c \in Calls |-> IF c \notin Waiters(p) THEN call[c]
                                ELSE IF v = None THEN "failed" ELSE "answered"]
    /\ answer' = [c \in Calls |-> IF c \in Waiters(p) THEN v ELSE answer[c]]
    /\ UNCHANGED floor

\* Get at the head of the loop.
Check(p) ==
    /\ load[p] = "checking"
    /\ Alive(p)
    /\ IF value = None
       THEN Goto(p, "acquiring") /\ UNCHANGED <<leader, result, calls>>
       ELSE Return(p, value)
    /\ UNCHANGED <<data, redis, renewing, canceled, lapsed, faults, cancels>>

\* SET NX with a new token; the holder starts to renew it, the others wait for
\* LoadPoll and check again.
Acquire(p) ==
    /\ load[p] = "acquiring"
    /\ Alive(p)
    /\ IF lock = Free
       THEN /\ lock' = p
            /\ renewing' = renewing \cup {p}
            /\ lapsed' = lapsed \ {p}
            /\ Goto(p, "rechecking")
       ELSE Goto(p, "checking") /\ UNCHANGED <<lock, renewing, lapsed>>
    /\ UNCHANGED <<data, value, leader, result, calls, canceled, faults, cancels>>

\* A call before the lock is acquired fails, or the wait is canceled.  SET NX
\* may have set the lock all the same.
LoadFails(p) ==
    /\ load[p] \in {"checking", "acquiring"}
    /\ \/ /\ ~Alive(p)
          /\ UNCHANGED <<lock, faults>>
       \/ /\ Fault
          /\ \/ UNCHANGED lock
             \/ load[p] = "acquiring" /\ lock = Free /\ lock' = Orphan
    /\ Return(p, None)
    /\ UNCHANGED <<data, value, renewing, canceled, lapsed, cancels>>

\* The load is over but for the deferred release, and returns v.
Finish(p, v) ==
    /\ Goto(p, "releasing")
    /\ result' = [result EXCEPT ![p] = v]
    /\ UNCHANGED <<leader, calls>>

\* Get again, with the lock.
Recheck(p) ==
    /\ load[p] = "rechecking"
    /\ Alive(p)
    /\ IF value = None
       THEN Goto(p, "fetching") /\ UNCHANGED <<leader, result, calls>>
       ELSE Finish(p, value)
    /\ UNCHANGED <<data, redis, renewing, canceled, lapsed, faults, cancels>>

\* The fetcher, which knows nothing of the context, reads the datum.
Fetch(p) ==
    /\ load[p] = "fetching"
    /\ Goto(p, "verifying")
    /\ result' = [result EXCEPT ![p] = source]
    /\ UNCHANGED <<data, redis, renewing, leader, calls, canceled, lapsed, faults, cancels>>

\* Mutant: the lock is not compared with the token.
OwnsAny(p) == TRUE

Owns(p) == lock = p

\* setIfLoadLockOwner asks first and stores afterwards.
Verify(p) ==
    /\ load[p] = "verifying"
    /\ Alive(p)
    /\ IF Owns(p)
       THEN Goto(p, "storing") /\ lapsed' = lapsed \ {p}
       ELSE Goto(p, "rereading") /\ UNCHANGED lapsed
    /\ UNCHANGED <<data, redis, renewing, leader, result, calls, canceled, faults, cancels>>

Store(p) ==
    /\ load[p] = "storing"
    /\ Alive(p)
    /\ value' = result[p]
    /\ Finish(p, result[p])
    /\ UNCHANGED <<data, lock, renewing, canceled, lapsed, faults, cancels>>

\* The lock is lost: the value of the load that has it now, or an error.
Reread(p) ==
    /\ load[p] = "rereading"
    /\ Finish(p, IF Alive(p) THEN value ELSE None)
    /\ UNCHANGED <<data, redis, renewing, canceled, lapsed, faults, cancels>>

\* A call of the holder or the fetcher fails; SET may have stored the value.
HolderFails(p) ==
    /\ load[p] \in {"rechecking", "fetching", "verifying", "storing", "rereading"}
    /\ \/ /\ ~Alive(p) /\ load[p] # "fetching"
          /\ UNCHANGED <<value, faults>>
       \/ /\ Fault
          /\ \/ UNCHANGED value
             \/ load[p] = "storing" /\ value' = result[p]
    /\ Finish(p, None)
    /\ UNCHANGED <<data, lock, renewing, canceled, lapsed, cancels>>

\* Mutants: the lock is left to its time to live; somebody else's is deleted.
ReleasedLate(p) == UNCHANGED lock
ReleasedBlindly(p) == lock' = Free

\* redisCompareDelete.
Released(p) == lock' = IF lock = p THEN Free ELSE lock

\* Whatever else happened to it, a token ends with its load.
Abandoned(p) == lock' = IF lock = p THEN Orphan ELSE lock

\* The renewal is stopped first, then the lock is given back, or is not.
Release(p) ==
    /\ load[p] = "releasing"
    /\ renewing' = renewing \ {p}
    /\ \/ Released(p) /\ UNCHANGED faults
       \/ Fault /\ Abandoned(p)
    /\ Return(p, result[p])
    /\ UNCHANGED <<data, value, canceled, lapsed, cancels>>

\* The process dies with its calls.
Crash(p) ==
    /\ load[p] # "none"
    /\ Fault
    /\ Abandoned(p)
    /\ renewing' = renewing \ {p}
    /\ Return(p, None)
    /\ UNCHANGED <<data, value, canceled, lapsed, cancels>>

-----------------------------------------------------------------------------
(* Time and the application.                                               *)

\* The renewal ends with the context of the leader, or with a failed call.
RenewalStops(p) ==
    /\ p \in renewing
    /\ \/ ~Alive(p) /\ UNCHANGED faults
       \/ Fault
    /\ renewing' = renewing \ {p}
    /\ UNCHANGED <<data, redis, loads, calls, canceled, lapsed, cancels>>

\* Mutant: the lock is set without a time to live.
NeverExpires == FALSE

\* The lock has a time to live, which a renewal keeps from running out.
Expires == lock # Free /\ lock \notin renewing

LockExpires ==
    /\ Expires
    /\ lock' = Free
    /\ lapsed' = lapsed \cup ({lock} \cap Processes)
    /\ UNCHANGED <<data, value, renewing, loads, calls, canceled, faults, cancels>>

\* The process stalls for longer than the lock lives; its next renewal finds
\* the token gone and stops.
RenewalLate(p) ==
    /\ p \in renewing
    /\ lock = p
    /\ Fault
    /\ lock' = Free
    /\ lapsed' = lapsed \cup {p}
    /\ renewing' = renewing \ {p}
    /\ UNCHANGED <<data, value, loads, calls, canceled, cancels>>

ValueExpires ==
    /\ value # None
    /\ value' = None
    /\ UNCHANGED <<data, lock, renewing, loads, calls, canceled, lapsed, faults, cancels>>

Update ==
    /\ ~dirty
    /\ source <= MaxUpdates
    /\ source' = source + 1
    /\ dirty' = TRUE
    /\ UNCHANGED <<redis, renewing, loads, calls, canceled, lapsed, crossed, faults, cancels>>

\* Mutant: UNLINK of the key without the prefix of the store.
UnlinkOther == UNCHANGED value

\* UNLINK, for Delete and for InvalidatePrefix.
Unlink == value' = None

\* The application follows its change up with Delete or with Set.
Invalidate ==
    /\ dirty
    /\ dirty' = FALSE
    /\ \/ Unlink
       \/ value' = source
    /\ crossed' = crossed \cup ({result[p] : p \in Processes} \ {None, source})
    /\ UNCHANGED <<source, lock, renewing, loads, calls, canceled, lapsed, faults, cancels>>

LoadStep(p) ==
    \/ Check(p) \/ Acquire(p) \/ LoadFails(p)
    \/ Recheck(p) \/ Fetch(p) \/ Verify(p) \/ Store(p) \/ Reread(p)
    \/ HolderFails(p) \/ Release(p)

Next ==
    \/ \E c \in Calls :
        \/ Look(c) \/ Join(c) \/ LeaveCanceled(c) \/ Cancel(c)
    \/ \E p \in Processes :
        \/ Check(p) \/ Acquire(p) \/ LoadFails(p)
        \/ Recheck(p) \/ Fetch(p) \/ Verify(p) \/ Store(p) \/ Reread(p)
        \/ HolderFails(p) \/ Release(p)
        \/ Crash(p) \/ RenewalStops(p) \/ RenewalLate(p)
    \/ LockExpires \/ ValueExpires \/ Update \/ Invalidate

\* Goroutines run, Redis and the fetcher answer, and the time to live of a lock
\* that nobody renews runs out.
Fairness ==
    /\ \A p \in Processes : WF_vars(LoadStep(p))
    /\ WF_vars(LockExpires)

Spec == Init /\ [][Next]_vars /\ Fairness

-----------------------------------------------------------------------------
(* Properties.                                                             *)

\* The load has drawn a token and not given it up.
Holding(p) ==
    load[p] \in {"rechecking", "fetching", "verifying", "storing", "rereading", "releasing"}

\* The variables keep their types; a lock that names a load is that load's, and
\* only such a load renews.
TypeOK ==
    /\ source \in 1..(MaxUpdates + 1)
    /\ dirty \in BOOLEAN
    /\ value \in 0..source
    /\ lock \in Processes \cup {Free, Orphan}
    /\ lock \in Processes => Holding(lock)
    /\ renewing \subseteq {p \in Processes : Holding(p)}
    /\ load \in [Processes -> {"none", "checking", "acquiring", "rechecking",
                    "fetching", "verifying", "storing", "rereading", "releasing"}]
    /\ leader \in [Processes -> SUBSET Calls]
    /\ result \in [Processes -> 0..source]
    /\ call \in [Calls -> {"new", "missed", "waiting", "answered", "failed"}]
    /\ answer \in [Calls -> 0..source]
    /\ canceled \subseteq Calls
    /\ lapsed \subseteq Processes
    /\ floor \in [Calls -> 0..source]
    /\ crossed \subseteq 1..source
    /\ faults \in 0..MaxFaults
    /\ cancels \in 0..MaxCancels

\* Two processes fetch at once only when one of them lost its lock while it did:
\* no late release, failed call or crash lets a second load in.
OneFetcher ==
    \A p, q \in Processes :
        load[p] = "fetching" /\ load[q] = "fetching" => p = q \/ p \in lapsed \/ q \in lapsed

\* A cached version is replaced by an older one only by a load that lost its
\* lock between the check and the store of setIfLoadLockOwner, or that fetched
\* before the application's own Set.
NoBackwardsStore ==
    [][value' # None /\ value' < value =>
        \/ value' \in crossed
        \/ \E p \in lapsed : load[p] = "storing" /\ load'[p] = "releasing"]_vars

\* A call that looks after an invalidation returned gets an older version only
\* if a load had read that version before and was still out: no other path, of
\* the shared loads, the lock or the second reads, brings one back.
StaleReadsExplained ==
    \A c \in Calls : call[c] = "answered" /\ answer[c] < floor[c] => answer[c] \in crossed

\* Every load ends, and with it the wait of its calls, also when loads before it
\* failed, died with the lock or lost it.
LoadsEnd == \A p \in Processes : load[p] # "none" ~> load[p] = "none"
=============================================================================
