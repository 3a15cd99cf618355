----------------------------- MODULE RateLimit ------------------------------
(***************************************************************************)
(* RateLimit of middleware/ratelimit.go: a token bucket per client address, *)
(* cleaned when idle and evicted when there are too many.  A request reads *)
(* the clock before it takes the mutex, so buckets see readings out of     *)
(* order.  Tokens are whole: the rate is one that gives whole tokens a tick.*)
(***************************************************************************)
EXTENDS Integers, FiniteSets, FiniteSetsExt

CONSTANTS
    LimitedRequests,                             \* requests
    ClientOf,                                    \* [LimitedRequests -> remoteIP]
    Rate, Capacity, CleanupInterval, MaxClients, \* RateLimiterConfig
    MaxLimitTime,                                \* bound: ticks of the clock
    NoBucket                                     \* a client without a bucket

ASSUME LimitAssumption ==
    /\ IsFiniteSet(LimitedRequests) /\ {Rate, CleanupInterval, MaxClients, MaxLimitTime} \subseteq Nat /\ Capacity \in Nat \ {0}
    /\ NoBucket \notin [tokens : Int, at : Nat]

VARIABLES
    clock,         \* the time
    readAt,        \* [LimitedRequests -> its reading of the clock]
    passage,       \* [LimitedRequests -> "new", "timed", "passed", "refused"]
    buckets,       \* [clients -> bucket]
    lastCleanup,   \* time of the last cleanup
    forgotten,     \* history: clients evicted for room, late after a cleanup, or
                   \* cleaned up after their readings went back
    reordered      \* history: clients whose bucket saw readings out of order

limitVars == <<clock, readAt, passage, buckets, lastCleanup, forgotten, reordered>>

Clients == {ClientOf[r] : r \in LimitedRequests}

LimitInit ==
    /\ clock = 0
    /\ readAt = [r \in LimitedRequests |-> 0]
    /\ passage = [r \in LimitedRequests |-> "new"]
    /\ buckets = [c \in Clients |-> NoBucket]
    /\ lastCleanup = 0
    /\ forgotten = {}
    /\ reordered = {}

LimitTick ==
    /\ clock < MaxLimitTime
    /\ clock' = clock + 1
    /\ UNCHANGED <<readAt, passage, buckets, lastCleanup, forgotten, reordered>>

ReadClock(r) ==
    /\ passage[r] = "new"
    /\ readAt' = [readAt EXCEPT ![r] = clock]
    /\ passage' = [passage EXCEPT ![r] = "timed"]
    /\ UNCHANGED <<clock, buckets, lastCleanup, forgotten, reordered>>

Bucket(tokens, at) == [tokens |-> tokens, at |-> at]

\* removeInactiveBuckets, at most once an interval.
Cleaned(now) ==
    [c \in Clients |->
        IF /\ now - lastCleanup >= CleanupInterval
           /\ buckets[c] # NoBucket
           /\ now - buckets[c].at > CleanupInterval
        THEN NoBucket
        ELSE buckets[c]]

Removed(now) == {c \in Clients : buckets[c] # NoBucket /\ Cleaned(now)[c] = NoBucket}

\* removeOldestBucket may choose any of the oldest: the map has no order.
Oldest(kept) ==
    {c \in Clients : kept[c] # NoBucket
        /\ \A d \in Clients : kept[d] # NoBucket => kept[d].at >= kept[c].at}

CountBuckets(kept) == Cardinality({c \in Clients : kept[c] # NoBucket})

\* Mutant: the tokens are not capped.
RefilledWithoutCap(bucket, now) == bucket.tokens + (now - bucket.at) * Rate

Refilled(bucket, now) == Min({bucket.tokens + (now - bucket.at) * Rate, Capacity})

Pass(r, result) == passage' = [passage EXCEPT ![r] = result]

\* The request of a client without a bucket passes; the oldest bucket makes room.
FirstRequest(r) ==
    /\ passage[r] = "timed"
    /\ LET now == readAt[r]
           kept == Cleaned(now)
       IN  /\ kept[ClientOf[r]] = NoBucket
           /\ \E gone \in SUBSET Oldest(kept) :
                /\ Cardinality(gone) = IF CountBuckets(kept) >= MaxClients THEN 1 ELSE 0
                /\ buckets' = [c \in Clients |->
                      IF c = ClientOf[r] THEN Bucket(Capacity - 1, now)
                      ELSE IF c \in gone THEN NoBucket ELSE kept[c]]
                /\ forgotten' = forgotten \cup gone \cup (Removed(now) \cap reordered)
                                \cup (IF now < lastCleanup THEN {ClientOf[r]} ELSE {})
           /\ lastCleanup' = IF now - lastCleanup >= CleanupInterval THEN now ELSE lastCleanup
    /\ Pass(r, "passed")
    /\ UNCHANGED <<clock, readAt, reordered>>

\* The bucket is refilled for the time since its last request, and gives a token.
NextRequest(r) ==
    /\ passage[r] = "timed"
    /\ LET now == readAt[r]
           kept == Cleaned(now)
           bucket == kept[ClientOf[r]]
           tokens == Refilled(bucket, now)
       IN  /\ bucket # NoBucket
           /\ Pass(r, IF tokens >= 1 THEN "passed" ELSE "refused")
           /\ buckets' = [kept EXCEPT ![ClientOf[r]] =
                             Bucket(IF tokens >= 1 THEN tokens - 1 ELSE tokens, now)]
           /\ reordered' = IF now < bucket.at THEN reordered \cup {ClientOf[r]} ELSE reordered
           /\ forgotten' = forgotten \cup (Removed(now) \cap reordered)
           /\ lastCleanup' = IF now - lastCleanup >= CleanupInterval THEN now ELSE lastCleanup
    /\ UNCHANGED <<clock, readAt>>

LimitNext == LimitTick \/ \E r \in LimitedRequests : ReadClock(r) \/ FirstRequest(r) \/ NextRequest(r)

-----------------------------------------------------------------------------
Passed(c, from, to) ==
    Cardinality({r \in LimitedRequests :
        ClientOf[r] = c /\ passage[r] = "passed" /\ from <= readAt[r] /\ readAt[r] <= to})

\* The clients that have an answer.
Answered == {ClientOf[r] : r \in {q \in LimitedRequests : passage[q] \in {"passed", "refused"}}}

\* A bucket that is removed when idle would be full.
ForgetsFullBuckets == CleanupInterval * Rate >= Capacity

\* In any interval a client whose bucket was not forgotten passes at most its
\* capacity and what the rate adds, however its requests interleave; and it is
\* refused only at that limit, unless its requests overtook each other.  A
\* bucket is forgotten for room, by a cleanup between a request's reading of the
\* clock and its lock, or idle as it seems after a late reading took it back.
RateBound ==
    ForgetsFullBuckets => \A c \in Answered \ forgotten :
        /\ \A from, to \in 0 .. MaxLimitTime :
              from <= to => Passed(c, from, to) <= Capacity + Rate * (to - from)
        /\ \A r \in LimitedRequests :
              ClientOf[r] = c /\ passage[r] = "refused" /\ c \notin reordered =>
                  \E from \in 0 .. readAt[r] :
                      Passed(c, from, readAt[r]) + 1 > Capacity + Rate * (readAt[r] - from)
=============================================================================
