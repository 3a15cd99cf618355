--------------------------- MODULE RedisLoadProofs ---------------------------
(***************************************************************************)
(* Safety of RedisLoad for any processes, calls and bounds: who may fetch, *)
(* when the cache goes back to an older version, and where a stale read    *)
(* comes from.                                                             *)
(***************************************************************************)
EXTENDS RedisLoad, TLAPS

-----------------------------------------------------------------------------
(* The inductive invariant, in named parts.                                *)

\* A load that drew a token has the lock unless it lapsed.
HolderOrLapsed == \A p \in Processes : Holding(p) /\ p \notin lapsed => lock = p

\* Versions older than the last invalidation were carried across one: in the
\* cache and in the loads.
CacheSettled == value # None /\ value < Settled => value \in crossed
LoadsSettled ==
    \A p \in Processes : result[p] # None /\ result[p] < Settled => result[p] \in crossed

\* An answer is a version, and no call has seen the future.
AnswersShaped ==
    \A c \in Calls : floor[c] <= Settled /\ (call[c] = "answered" => answer[c] # None)

\* The owner of the lock read the datum after everybody else who may still
\* store, and after everything in the cache.
OwnerNewest ==
    \A p \in Processes :
        lock = p /\ load[p] \in {"verifying", "storing"} =>
            /\ result[p] # None
            /\ value <= result[p] \/ result[p] \in crossed
            /\ \A q \in Processes : load[q] = "storing" => result[q] <= result[p]

Invariant ==
    /\ TypeOK
    /\ HolderOrLapsed
    /\ CacheSettled
    /\ LoadsSettled
    /\ AnswersShaped
    /\ OwnerNewest
    /\ StaleReadsExplained

-----------------------------------------------------------------------------
(* What steps have in common.                                              *)

\* Nothing that bears on versions and the lock moves.
LEMMA VersionsKept ==
    ASSUME Invariant, UNCHANGED <<source, dirty, value, lock, load, result, lapsed, crossed>>
    PROVE  HolderOrLapsed' /\ CacheSettled' /\ LoadsSettled' /\ OwnerNewest'
BY DEF Invariant, HolderOrLapsed, CacheSettled, LoadsSettled, OwnerNewest, Holding, Settled

\* Calls stay as they are, and so does what they may return.
LEMMA CallsKept ==
    ASSUME Invariant, UNCHANGED <<source, dirty, call, answer, floor>>, crossed \subseteq crossed'
    PROVE  AnswersShaped' /\ StaleReadsExplained'
BY DEF Invariant, AnswersShaped, StaleReadsExplained, Settled

\* Settled is a version.
LEMMA SettledType == TypeOK => Settled \in Nat /\ Settled <= source
BY BoundsAssumption DEF TypeOK, Settled

\* A load ends and answers its calls with a version that is new enough, or with
\* an error.
LEMMA ReturnKeeps ==
    ASSUME Invariant, NEW p \in Processes, NEW v \in 0..source, Return(p, v),
           v # None /\ v < Settled => v \in crossed,
           UNCHANGED data
    PROVE  /\ load' = [load EXCEPT ![p] = "none"]
           /\ leader' \in [Processes -> SUBSET Calls]
           /\ result' = [result EXCEPT ![p] = None] /\ result' \in [Processes -> 0..source]
           /\ call' \in [Calls -> {"new", "missed", "waiting", "answered", "failed"}]
           /\ answer' \in [Calls -> 0..source] /\ floor' = floor
           /\ AnswersShaped' /\ StaleReadsExplained'
<1> USE DEF Invariant
<1>1. /\ load' = [load EXCEPT ![p] = "none"]
      /\ leader' = [leader EXCEPT ![p] = {}]
      /\ result' = [result EXCEPT ![p] = None]
      /\ call' = [c \in Calls |-> IF c \notin Waiters(p) THEN call[c]
                                  ELSE IF v = None THEN "failed" ELSE "answered"]
      /\ answer' = [c \in Calls |-> IF c \in Waiters(p) THEN v ELSE answer[c]]
      /\ floor' = floor
      /\ UNCHANGED <<source, dirty, crossed>>
    BY DEF Return, Goto, data
<1>2. 0 \in 0..source
    BY BoundsAssumption DEF TypeOK
<1>3. leader' \in [Processes -> SUBSET Calls] /\ result' \in [Processes -> 0..source]
    BY <1>1, <1>2 DEF TypeOK, None
<1>4. call' \in [Calls -> {"new", "missed", "waiting", "answered", "failed"}]
    BY <1>1 DEF TypeOK
<1>5. answer' \in [Calls -> 0..source]
    BY <1>1 DEF TypeOK
<1>6. Settled' = Settled
    BY <1>1 DEF Settled
<1>7. AnswersShaped'
    BY <1>1, <1>6 DEF AnswersShaped
<1>8. StaleReadsExplained'
    <2> SUFFICES ASSUME NEW c \in Calls, call'[c] = "answered", answer'[c] < floor[c]
                 PROVE  answer'[c] \in crossed
        BY <1>1 DEF StaleReadsExplained
    <2>1. CASE c \in Waiters(p)
        <3>1. answer'[c] = v /\ v # None
            BY <1>1, <2>1
        <3>2. floor[c] <= Settled /\ floor[c] \in Nat /\ v \in Nat /\ Settled \in Nat
            BY SettledType DEF AnswersShaped, TypeOK
        <3>3. v < Settled
            BY <3>1, <3>2
        <3> QED
            BY <3>1, <3>3
    <2>2. CASE c \notin Waiters(p)
        BY <1>1, <2>2 DEF StaleReadsExplained
    <2> QED
        BY <2>1, <2>2
<1> QED
    BY <1>1, <1>3, <1>4, <1>5, <1>7, <1>8

-----------------------------------------------------------------------------
(* The steps.                                                              *)

LEMMA InitInvariant == Init => Invariant
<1> SUFFICES ASSUME Init PROVE Invariant
    OBVIOUS
<1> USE DEF Init, None
<1>1. TypeOK
    <2>1. source \in 1..(MaxUpdates + 1) /\ faults \in 0..MaxFaults /\ cancels \in 0..MaxCancels
        BY BoundsAssumption
    <2>2. lock \in Processes \cup {Free, Orphan} /\ lock \notin Processes
        BY ProcessAssumption
    <2>3. leader \in [Processes -> SUBSET Calls] /\ result \in [Processes -> 0..source]
        OBVIOUS
    <2>4. value \in 0..source /\ answer \in [Calls -> 0..source] /\ floor \in [Calls -> 0..source]
        OBVIOUS
    <2>5. load \in [Processes -> {"none", "checking", "acquiring", "rechecking",
                    "fetching", "verifying", "storing", "rereading", "releasing"}]
        OBVIOUS
    <2>6. call \in [Calls -> {"new", "missed", "waiting", "answered", "failed"}]
        OBVIOUS
    <2>7. dirty \in BOOLEAN /\ canceled \subseteq Calls /\ lapsed \subseteq Processes
        OBVIOUS
    <2>8. crossed \subseteq 1..source /\ renewing \subseteq {p \in Processes : Holding(p)}
        OBVIOUS
    <2> HIDE DEF Init
    <2> QED
        BY <2>1, <2>2, <2>3, <2>4, <2>5, <2>6, <2>7, <2>8 DEF TypeOK
<1>2. HolderOrLapsed /\ CacheSettled /\ LoadsSettled
    BY DEF HolderOrLapsed, Holding, CacheSettled, LoadsSettled
<1>3. AnswersShaped /\ StaleReadsExplained
    BY DEF AnswersShaped, StaleReadsExplained, Settled
<1>4. OwnerNewest
    BY DEF OwnerNewest
<1> QED
    BY <1>1, <1>2, <1>3, <1>4 DEF Invariant

\* A call looks into the cache, joins a load, leaves, or is canceled.
LEMMA CallStep ==
    ASSUME Invariant, NEW c \in Calls, Look(c) \/ Join(c) \/ LeaveCanceled(c) \/ Cancel(c)
    PROVE  Invariant'
<1> USE DEF Invariant
<1>1. UNCHANGED <<source, dirty, crossed, value, lock, renewing, result, lapsed, faults>>
    BY DEF Look, Join, LeaveCanceled, Cancel, data, redis, loads
<1>2. Settled' = Settled
    BY <1>1 DEF Settled
<1>3. CASE Look(c)
    <2>1. /\ floor' = [floor EXCEPT ![c] = Settled]
          /\ answer' = [answer EXCEPT ![c] = value]
          /\ call' = [call EXCEPT ![c] = IF value = None THEN "missed" ELSE "answered"]
          /\ UNCHANGED <<load, leader, canceled, cancels>>
        BY <1>3 DEF Look, loads
    <2>2. Settled \in 0..source
        BY SettledType
    <2>3. TypeOK'
        BY <1>1, <2>1, <2>2 DEF TypeOK, Holding
    <2>4. AnswersShaped'
        BY <1>1, <1>2, <2>1, <2>2 DEF AnswersShaped, TypeOK
    <2>5. StaleReadsExplained'
        BY <1>1, <2>1 DEF StaleReadsExplained, CacheSettled, TypeOK
    <2> QED
        BY <1>1, <2>1, <2>3, <2>4, <2>5, VersionsKept
<1>4. CASE Join(c)
    <2>1. /\ call' = [call EXCEPT ![c] = "waiting"]
          /\ UNCHANGED <<answer, floor, canceled, cancels>>
        BY <1>4 DEF Join
    <2>2. ProcessOf[c] \in Processes
        BY ProcessAssumption
    <2>3. /\ leader' \in [Processes -> SUBSET Calls]
          /\ \/ UNCHANGED load
             \/ /\ load[ProcessOf[c]] = "none"
                /\ load' = [load EXCEPT ![ProcessOf[c]] = "checking"]
        BY <1>4, <2>2 DEF Join, TypeOK, loads
    <2>4. /\ load' \in [Processes -> {"none", "checking", "acquiring", "rechecking",
                    "fetching", "verifying", "storing", "rereading", "releasing"}]
          /\ \A p \in Processes : Holding(p)' <=> Holding(p)
          /\ \A p \in Processes : \A x \in {"verifying", "storing"} : load'[p] = x <=> load[p] = x
        BY <2>2, <2>3 DEF TypeOK, Holding
    <2>5. TypeOK'
        BY <1>1, <2>1, <2>3, <2>4 DEF TypeOK, Holding
    <2>6. AnswersShaped' /\ StaleReadsExplained'
        BY <1>1, <1>2, <2>1 DEF AnswersShaped, StaleReadsExplained, TypeOK
    <2>7. HolderOrLapsed' /\ CacheSettled' /\ LoadsSettled'
        BY <1>1, <1>2, <2>4 DEF HolderOrLapsed, CacheSettled, LoadsSettled
    <2>8. OwnerNewest'
        BY <1>1, <2>4 DEF OwnerNewest
    <2> QED
        BY <2>5, <2>6, <2>7, <2>8
<1>5. CASE LeaveCanceled(c) \/ Cancel(c)
    <2>1. /\ call' \in [Calls -> {"new", "missed", "waiting", "answered", "failed"}]
          /\ \A d \in Calls : call'[d] = "answered" => call[d] = "answered"
          /\ UNCHANGED <<load, leader, answer, floor>>
        BY <1>5 DEF LeaveCanceled, Cancel, loads, calls, TypeOK
    <2>2. canceled' \subseteq Calls
        BY <1>5 DEF LeaveCanceled, Cancel, TypeOK
    <2>3. cancels' \in 0..MaxCancels
        BY <1>5, BoundsAssumption DEF LeaveCanceled, Cancel, TypeOK
    <2>4. TypeOK'
        BY <1>1, <2>1, <2>2, <2>3 DEF TypeOK, Holding
    <2>5. AnswersShaped' /\ StaleReadsExplained'
        BY <1>1, <1>2, <2>1 DEF AnswersShaped, StaleReadsExplained
    <2> QED
        BY <1>1, <2>1, <2>4, <2>5, VersionsKept
<1> QED
    BY <1>3, <1>4, <1>5

\* A load that holds no token sees the cache or the lock, or fails.
LEMMA SeekStep ==
    ASSUME Invariant, NEW p \in Processes, Check(p) \/ Acquire(p) \/ LoadFails(p)
    PROVE  Invariant'
<1> USE DEF Invariant
<1>1. UNCHANGED <<source, dirty, crossed, value, canceled, cancels>>
    BY DEF Check, Acquire, LoadFails, data, redis
<1>2. Settled' = Settled
    BY <1>1 DEF Settled
<1>3. ~Holding(p)
    BY DEF Check, Acquire, LoadFails, Holding
<1>4. ASSUME NEW v \in 0..source, Return(p, v), v # None /\ v < Settled => v \in crossed,
             UNCHANGED <<renewing, lapsed>>, faults' \in 0..MaxFaults,
             lock' = lock \/ (lock = Free /\ lock' = Orphan)
      PROVE  Invariant'
    <2>1. /\ load' = [load EXCEPT ![p] = "none"]
          /\ leader' \in [Processes -> SUBSET Calls]
          /\ result' = [result EXCEPT ![p] = None] /\ result' \in [Processes -> 0..source]
          /\ call' \in [Calls -> {"new", "missed", "waiting", "answered", "failed"}]
          /\ answer' \in [Calls -> 0..source] /\ floor' = floor
          /\ AnswersShaped' /\ StaleReadsExplained'
        BY <1>1, <1>4, ReturnKeeps DEF data
    <2>2. \A q \in Processes : Holding(q)' <=> Holding(q)
        BY <1>3, <2>1 DEF Holding, TypeOK
    <2>3. /\ lock' \in Processes \cup {Free, Orphan}
          /\ \A q \in Processes : lock' = q => lock = q
        BY <1>4, ProcessAssumption DEF TypeOK
    <2>4. lock' \in Processes => Holding(lock)'
        <3>1. lock' \in Processes => lock' = lock
            BY <2>3
        <3> QED
            BY <2>2, <3>1 DEF TypeOK, Holding
    <2>5. TypeOK'
        BY <1>1, <1>4, <2>1, <2>2, <2>3, <2>4 DEF TypeOK
    <2>6. HolderOrLapsed'
        <3>1. \A q \in Processes : Holding(q) /\ q \notin lapsed => lock = q
            BY DEF HolderOrLapsed
        <3> QED
            BY <1>4, <2>2, <3>1, ProcessAssumption DEF HolderOrLapsed
    <2>7. CacheSettled' /\ LoadsSettled'
        BY <1>1, <1>2, <2>1 DEF CacheSettled, LoadsSettled, TypeOK
    <2>8. OwnerNewest'
        BY <1>1, <2>1, <2>3 DEF OwnerNewest, TypeOK
    <2> QED
        BY <2>1, <2>5, <2>6, <2>7, <2>8
<1>5. CASE Check(p)
    <2>1. CASE value = None
        <3>1. /\ load' = [load EXCEPT ![p] = "acquiring"] /\ load[p] = "checking"
              /\ UNCHANGED <<lock, renewing, leader, result, call, answer, floor, lapsed, faults>>
            BY <1>5, <2>1 DEF Check, Goto, redis, calls
        <3>2. \A q \in Processes : Holding(q)' <=> Holding(q)
            BY <3>1 DEF Holding, TypeOK
        <3>3. TypeOK'
            BY <1>1, <3>1, <3>2 DEF TypeOK
        <3>4. HolderOrLapsed' /\ CacheSettled' /\ LoadsSettled'
            BY <1>1, <1>2, <3>1, <3>2 DEF HolderOrLapsed, CacheSettled, LoadsSettled
        <3>5. OwnerNewest'
            BY <1>1, <3>1 DEF OwnerNewest, TypeOK
        <3> QED
            BY <1>1, <3>1, <3>3, <3>4, <3>5, CallsKept
    <2>2. CASE value # None
        <3>1. Return(p, value) /\ value \in 0..source /\ faults' \in 0..MaxFaults
            BY <1>5, <2>2 DEF Check, TypeOK
        <3>2. UNCHANGED <<lock, renewing, lapsed>>
            BY <1>5 DEF Check, redis
        <3> QED
            BY <1>4, <3>1, <3>2 DEF CacheSettled
    <2> QED
        BY <2>1, <2>2
<1>6. CASE Acquire(p)
    <2>1. load[p] = "acquiring" /\ UNCHANGED <<leader, result, call, answer, floor, faults>>
        BY <1>6 DEF Acquire, calls
    <2>2. CASE lock = Free
        <3>1. /\ lock' = p
              /\ renewing' = renewing \cup {p}
              /\ lapsed' = lapsed \ {p}
              /\ load' = [load EXCEPT ![p] = "rechecking"]
            BY <1>6, <2>2 DEF Acquire, Goto
        <3>2. /\ \A q \in Processes \ {p} : load'[q] = load[q]
              /\ load'[p] = "rechecking"
            BY <3>1 DEF TypeOK
        <3>3. Holding(p)' /\ \A q \in Processes \ {p} : Holding(q)' <=> Holding(q)
            BY <3>2 DEF Holding
        <3>4. \A q \in Processes \ {p} : Holding(q) => q \in lapsed
            BY <2>2, ProcessAssumption DEF HolderOrLapsed
        <3>5. TypeOK'
            BY <1>1, <2>1, <3>1, <3>3 DEF TypeOK
        <3>6. HolderOrLapsed'
            BY <3>1, <3>3, <3>4 DEF HolderOrLapsed
        <3>7. CacheSettled' /\ LoadsSettled'
            BY <1>1, <1>2, <2>1 DEF CacheSettled, LoadsSettled
        <3>8. OwnerNewest'
            BY <3>1, <3>2 DEF OwnerNewest
        <3> QED
            BY <1>1, <2>1, <3>5, <3>6, <3>7, <3>8, CallsKept
    <2>3. CASE lock # Free
        <3>1. load' = [load EXCEPT ![p] = "checking"] /\ UNCHANGED <<lock, renewing, lapsed>>
            BY <1>6, <2>3 DEF Acquire, Goto
        <3>2. \A q \in Processes : Holding(q)' <=> Holding(q)
            BY <2>1, <3>1 DEF Holding, TypeOK
        <3>3. TypeOK'
            BY <1>1, <2>1, <3>1, <3>2 DEF TypeOK
        <3>4. HolderOrLapsed' /\ CacheSettled' /\ LoadsSettled'
            BY <1>1, <1>2, <2>1, <3>1, <3>2 DEF HolderOrLapsed, CacheSettled, LoadsSettled
        <3>5. OwnerNewest'
            BY <1>1, <2>1, <3>1 DEF OwnerNewest, TypeOK
        <3> QED
            BY <1>1, <2>1, <3>3, <3>4, <3>5, CallsKept
    <2> QED
        BY <2>2, <2>3
<1>7. CASE LoadFails(p)
    <2>1. Return(p, None) /\ UNCHANGED <<renewing, lapsed>>
        BY <1>7 DEF LoadFails
    <2>2. lock' = lock \/ (lock = Free /\ lock' = Orphan)
        BY <1>7 DEF LoadFails
    <2>3. None \in 0..source /\ faults' \in 0..MaxFaults
        BY <1>7, BoundsAssumption DEF LoadFails, Fault, TypeOK, None
    <2> QED
        BY <1>4, <2>1, <2>2, <2>3
<1> QED
    BY <1>5, <1>6, <1>7

\* The load of a holder moves on; its lock, its renewal and the calls do not.
LEMMA HolderMoves ==
    ASSUME Invariant, NEW p \in Processes, Holding(p),
           NEW next \in {"fetching", "verifying", "storing", "rereading", "releasing"},
           load' = [load EXCEPT ![p] = next],
           NEW v \in 0..source, result' = [result EXCEPT ![p] = v],
           v # None /\ v < Settled => v \in crossed,
           value' \in 0..source,
           value' # None /\ value' < Settled => value' \in crossed,
           lapsed' \subseteq lapsed, lapsed \ {p} \subseteq lapsed',
           p \in lapsed \ lapsed' => lock = p,
           faults' \in 0..MaxFaults,
           UNCHANGED <<data, lock, renewing, leader, calls, canceled, cancels>>
    PROVE  /\ TypeOK' /\ HolderOrLapsed' /\ CacheSettled' /\ LoadsSettled'
           /\ AnswersShaped' /\ StaleReadsExplained'
<1> USE DEF Invariant
<1>1. UNCHANGED <<source, dirty, crossed, call, answer, floor>> /\ Settled' = Settled
    BY DEF data, calls, Settled
<1>2. \A q \in Processes : Holding(q)' <=> Holding(q)
    BY DEF Holding, TypeOK
<1>3. load' \in [Processes -> {"none", "checking", "acquiring", "rechecking",
                    "fetching", "verifying", "storing", "rereading", "releasing"}]
    BY DEF TypeOK
<1>4. TypeOK'
    BY <1>1, <1>2, <1>3 DEF TypeOK
<1>5. HolderOrLapsed'
    BY <1>2 DEF HolderOrLapsed
<1>6. CacheSettled' /\ LoadsSettled'
    BY <1>1 DEF CacheSettled, LoadsSettled, TypeOK
<1>7. AnswersShaped' /\ StaleReadsExplained'
    BY <1>1, CallsKept
<1> QED
    BY <1>4, <1>5, <1>6, <1>7

\* A holder that does not store, and does not pass the check, leaves the newest
\* owner alone.
LEMMA HolderLooks ==
    ASSUME Invariant, NEW p \in Processes,
           NEW next \in {"fetching", "rereading", "releasing"},
           load' = [load EXCEPT ![p] = next],
           NEW v \in 0..source, result' = [result EXCEPT ![p] = v],
           UNCHANGED <<source, crossed, value, lock>>
    PROVE  OwnerNewest'
<1>1. \A q \in Processes : load'[q] \in {"verifying", "storing"} =>
            q # p /\ load'[q] = load[q] /\ result'[q] = result[q]
    BY DEF Invariant, TypeOK
<1> QED
    BY <1>1 DEF Invariant, OwnerNewest

\* The fetcher reads the newest version there is.
LEMMA FetchStep ==
    ASSUME Invariant, NEW p \in Processes, Fetch(p)
    PROVE  Invariant'
<1> USE DEF Invariant
<1>1. /\ load[p] = "fetching"
      /\ load' = [load EXCEPT ![p] = "verifying"]
      /\ result' = [result EXCEPT ![p] = source]
      /\ UNCHANGED <<data, value, lock, renewing, leader, calls, canceled, lapsed, faults, cancels>>
    BY DEF Fetch, Goto, redis
<1>2. source \in 0..source /\ source # None /\ ~(source < Settled)
    BY SettledType, BoundsAssumption DEF TypeOK, None
<1>3. value' \in 0..source /\ (value' # None /\ value' < Settled => value' \in crossed)
    BY <1>1 DEF TypeOK, CacheSettled
<1>4. Holding(p) /\ faults' \in 0..MaxFaults
    BY <1>1 DEF Holding, TypeOK
<1>5. /\ TypeOK' /\ HolderOrLapsed' /\ CacheSettled' /\ LoadsSettled'
      /\ AnswersShaped' /\ StaleReadsExplained'
    BY <1>1, <1>2, <1>3, <1>4, HolderMoves
<1>6. OwnerNewest'
    <2> SUFFICES ASSUME NEW o \in Processes, lock = o, load'[o] \in {"verifying", "storing"}
                 PROVE  /\ result'[o] # None
                        /\ value <= result'[o] \/ result'[o] \in crossed
                        /\ \A q \in Processes : load'[q] = "storing" => result'[q] <= result'[o]
        BY <1>1 DEF OwnerNewest, data
    <2>1. \A q \in Processes : load'[q] = "storing" =>
                load[q] = "storing" /\ result'[q] = result[q] /\ result[q] <= source
        BY <1>1 DEF TypeOK
    <2>2. CASE o = p
        BY <1>1, <1>2, <2>1, <2>2 DEF TypeOK
    <2>3. CASE o # p
        <3>1. load'[o] = load[o] /\ result'[o] = result[o]
            BY <1>1, <2>3 DEF TypeOK
        <3> QED
            BY <2>1, <3>1 DEF OwnerNewest
    <2> QED
        BY <2>2, <2>3
<1> QED
    BY <1>5, <1>6

\* Only the owner of the lock passes the check.
LEMMA VerifyStep ==
    ASSUME Invariant, NEW p \in Processes, Verify(p)
    PROVE  Invariant'
<1> USE DEF Invariant
<1>1. /\ load[p] = "verifying"
      /\ UNCHANGED <<data, value, lock, renewing, leader, result, calls, canceled, faults, cancels>>
    BY DEF Verify, redis
<1>2. result' = [result EXCEPT ![p] = result[p]] /\ result[p] \in 0..source
      /\ (result[p] # None /\ result[p] < Settled => result[p] \in crossed)
    BY <1>1 DEF TypeOK, LoadsSettled
<1>3. value' \in 0..source /\ (value' # None /\ value' < Settled => value' \in crossed)
    BY <1>1 DEF TypeOK, CacheSettled
<1>4. Holding(p) /\ faults' \in 0..MaxFaults
    BY <1>1 DEF Holding, TypeOK
<1>5. CASE lock = p
    <2>1. load' = [load EXCEPT ![p] = "storing"] /\ lapsed' = lapsed \ {p}
        BY <1>5 DEF Verify, Owns, Goto
    <2>2. /\ TypeOK' /\ HolderOrLapsed' /\ CacheSettled' /\ LoadsSettled'
          /\ AnswersShaped' /\ StaleReadsExplained'
        BY <1>1, <1>2, <1>3, <1>4, <1>5, <2>1, HolderMoves
    <2>3. OwnerNewest'
        <3>1. \A q \in Processes : load'[q] = "storing" => q = p \/ load[q] = "storing"
            BY <2>1 DEF TypeOK
        <3>2. result[p] \in Nat
            BY <1>2
        <3>3. /\ result[p] # None
              /\ value <= result[p] \/ result[p] \in crossed
              /\ \A q \in Processes : load[q] = "storing" => result[q] <= result[p]
            BY <1>1, <1>5 DEF OwnerNewest
        <3> QED
            BY <1>1, <1>5, <3>1, <3>2, <3>3 DEF OwnerNewest, data
    <2> QED
        BY <2>2, <2>3
<1>6. CASE lock # p
    <2>1. load' = [load EXCEPT ![p] = "rereading"] /\ lapsed' = lapsed
        BY <1>6 DEF Verify, Owns, Goto
    <2>2. /\ TypeOK' /\ HolderOrLapsed' /\ CacheSettled' /\ LoadsSettled'
          /\ AnswersShaped' /\ StaleReadsExplained'
        BY <1>1, <1>2, <1>3, <1>4, <2>1, HolderMoves
    <2>3. OwnerNewest'
        BY <1>1, <1>2, <2>1, HolderLooks DEF data
    <2> QED
        BY <2>2, <2>3
<1> QED
    BY <1>5, <1>6

\* The store, and the failures of a holder, with or without it.
LEMMA StoreStep ==
    ASSUME Invariant, NEW p \in Processes, Store(p) \/ HolderFails(p)
    PROVE  Invariant'
<1> USE DEF Invariant
<1>1. /\ load' = [load EXCEPT ![p] = "releasing"]
      /\ UNCHANGED <<data, lock, renewing, leader, calls, canceled, lapsed, cancels>>
    BY DEF Store, HolderFails, Finish, Goto, calls
<1>2. PICK v \in {result[p], None} : result' = [result EXCEPT ![p] = v]
    BY DEF Store, HolderFails, Finish
<1>3. v \in 0..source /\ (v # None /\ v < Settled => v \in crossed)
    BY BoundsAssumption DEF TypeOK, LoadsSettled, None
<1>4. value' = value \/ (load[p] = "storing" /\ value' = result[p])
    BY DEF Store, HolderFails
<1>5. value' \in 0..source /\ (value' # None /\ value' < Settled => value' \in crossed)
    BY <1>4 DEF TypeOK, CacheSettled, LoadsSettled
<1>6. Holding(p)
    BY DEF Store, HolderFails, Holding
<1>7. faults' \in 0..MaxFaults
    BY BoundsAssumption DEF Store, HolderFails, Fault, TypeOK
<1>8. /\ TypeOK' /\ HolderOrLapsed' /\ CacheSettled' /\ LoadsSettled'
      /\ AnswersShaped' /\ StaleReadsExplained'
    BY <1>1, <1>2, <1>3, <1>5, <1>6, <1>7, HolderMoves
<1>9. CASE value' = value
    BY <1>1, <1>2, <1>3, <1>8, <1>9, HolderLooks DEF data
<1>10. CASE load[p] = "storing" /\ value' = result[p]
    <2>1. \A q \in Processes : load'[q] \in {"verifying", "storing"} =>
                q # p /\ load'[q] = load[q] /\ result'[q] = result[q]
        BY <1>1, <1>2 DEF TypeOK
    <2>2. OwnerNewest'
        BY <1>1, <1>10, <2>1 DEF OwnerNewest, data
    <2> QED
        BY <1>8, <2>2
<1> QED
    BY <1>4, <1>9, <1>10

\* The second Get, and what a loser of the lock reads.
LEMMA ReadStep ==
    ASSUME Invariant, NEW p \in Processes, Recheck(p) \/ Reread(p)
    PROVE  Invariant'
<1> USE DEF Invariant
<1>1. UNCHANGED <<data, value, lock, renewing, leader, calls, canceled, lapsed, faults, cancels>>
    BY DEF Recheck, Reread, Finish, redis, loads, calls
<1>2. PICK v \in {result[p], value, None}, next \in {"fetching", "releasing"} :
            load' = [load EXCEPT ![p] = next] /\ result' = [result EXCEPT ![p] = v]
    BY DEF Recheck, Reread, Finish, Goto, TypeOK
<1>3. v \in 0..source /\ (v # None /\ v < Settled => v \in crossed)
    BY BoundsAssumption DEF TypeOK, CacheSettled, LoadsSettled, None
<1>4. value' \in 0..source /\ (value' # None /\ value' < Settled => value' \in crossed)
    BY <1>1 DEF TypeOK, CacheSettled
<1>5. Holding(p) /\ faults' \in 0..MaxFaults
    BY <1>1 DEF Recheck, Reread, Holding, TypeOK
<1>6. /\ TypeOK' /\ HolderOrLapsed' /\ CacheSettled' /\ LoadsSettled'
      /\ AnswersShaped' /\ StaleReadsExplained'
    BY <1>1, <1>2, <1>3, <1>4, <1>5, HolderMoves
<1>7. OwnerNewest'
    BY <1>1, <1>2, <1>3, <1>5, HolderLooks DEF data
<1> QED
    BY <1>6, <1>7

\* The release, and the death of a process: the load is over, and its token with it.
LEMMA EndStep ==
    ASSUME Invariant, NEW p \in Processes, Release(p) \/ Crash(p)
    PROVE  Invariant'
<1> USE DEF Invariant
<1>1. /\ renewing' = renewing \ {p}
      /\ lock' = lock \/ lock' = Free \/ lock' = Orphan
      /\ lock' # p
      /\ lock # p => lock' = lock
      /\ UNCHANGED <<source, dirty, crossed, value, canceled, lapsed, cancels>>
    BY ProcessAssumption DEF Release, Crash, Released, Abandoned, data
<1>2. PICK v \in {result[p], None} : Return(p, v)
    BY DEF Release, Crash
<1>3. v \in 0..source /\ (v # None /\ v < Settled => v \in crossed)
    BY BoundsAssumption DEF TypeOK, LoadsSettled, None
<1>4. /\ load' = [load EXCEPT ![p] = "none"]
      /\ leader' \in [Processes -> SUBSET Calls]
      /\ result' = [result EXCEPT ![p] = None] /\ result' \in [Processes -> 0..source]
      /\ call' \in [Calls -> {"new", "missed", "waiting", "answered", "failed"}]
      /\ answer' \in [Calls -> 0..source] /\ floor' = floor
      /\ AnswersShaped' /\ StaleReadsExplained'
    BY <1>1, <1>2, <1>3, ReturnKeeps DEF data
<1>5. faults' \in 0..MaxFaults
    BY BoundsAssumption DEF Release, Crash, Fault, TypeOK
<1>6. ~Holding(p)' /\ \A q \in Processes \ {p} : Holding(q)' <=> Holding(q)
    BY <1>4 DEF Holding, TypeOK
<1>7. \A q \in Processes : lock' = q => lock = q /\ q # p
    BY <1>1, ProcessAssumption DEF TypeOK
<1>8. TypeOK'
    <2>1. lock' \in Processes \cup {Free, Orphan} /\ (lock' \in Processes => Holding(lock)')
        <3>1. lock' \in Processes => Holding(lock) /\ lock' = lock /\ lock # p
            BY <1>7 DEF TypeOK
        <3>2. lock' \in Processes \cup {Free, Orphan}
            BY <1>1 DEF TypeOK
        <3> QED
            BY <1>4, <3>1, <3>2 DEF Holding, TypeOK
    <2>2. load' \in [Processes -> {"none", "checking", "acquiring", "rechecking",
                    "fetching", "verifying", "storing", "rereading", "releasing"}]
        BY <1>4 DEF TypeOK
    <2>3. renewing' \subseteq {q \in Processes : Holding(q)'}
        BY <1>1, <1>6 DEF TypeOK
    <2> QED
        BY <1>1, <1>4, <1>5, <2>1, <2>2, <2>3 DEF TypeOK
<1>9. HolderOrLapsed'
    BY <1>1, <1>6 DEF HolderOrLapsed
<1>10. CacheSettled' /\ LoadsSettled'
    <2>1. Settled' = Settled
        BY <1>1 DEF Settled
    <2> QED
        BY <1>1, <1>4, <2>1 DEF CacheSettled, LoadsSettled, TypeOK
<1>11. OwnerNewest'
    <2>1. \A q \in Processes : load'[q] \in {"verifying", "storing"} =>
                q # p /\ load'[q] = load[q] /\ result'[q] = result[q]
        BY <1>4 DEF TypeOK
    <2> QED
        BY <1>1, <1>7, <2>1 DEF OwnerNewest
<1> QED
    BY <1>4, <1>8, <1>9, <1>10, <1>11

\* The lock runs out, or its renewal stops.
LEMMA LeaseStep ==
    ASSUME Invariant,
           \/ LockExpires
           \/ \E p \in Processes : RenewalStops(p) \/ RenewalLate(p)
    PROVE  Invariant'
<1> USE DEF Invariant
<1>1. /\ UNCHANGED <<source, dirty, crossed, value, load, leader, result, call, answer, floor,
                     canceled, cancels>>
      /\ renewing' \subseteq renewing
    BY DEF LockExpires, RenewalStops, RenewalLate, data, redis, loads, calls
<1>2. \/ UNCHANGED <<lock, lapsed>>
      \/ lock' = Free /\ lapsed' = lapsed \cup ({lock} \cap Processes)
    BY DEF LockExpires, RenewalStops, RenewalLate, redis
<1>3. faults' \in 0..MaxFaults
    BY BoundsAssumption DEF LockExpires, RenewalStops, RenewalLate, Fault, TypeOK
<1>4. \A q \in Processes : Holding(q)' <=> Holding(q)
    BY <1>1 DEF Holding
<1>5. \A q \in Processes : lock' = q => lock = q
    BY <1>2, ProcessAssumption
<1>6. TypeOK'
    <2>1. /\ lock' \in Processes \cup {Free, Orphan}
          /\ lock' \in Processes => Holding(lock)'
          /\ lapsed' \subseteq Processes
        BY <1>1, <1>2, <1>5 DEF TypeOK, Holding
    <2> QED
        BY <1>1, <1>3, <1>4, <2>1 DEF TypeOK
<1>7. HolderOrLapsed'
    BY <1>2, <1>4 DEF HolderOrLapsed
<1>8. CacheSettled' /\ LoadsSettled'
    BY <1>1 DEF CacheSettled, LoadsSettled, Settled
<1>9. OwnerNewest'
    BY <1>1, <1>5 DEF OwnerNewest
<1> QED
    BY <1>1, <1>6, <1>7, <1>8, <1>9, CallsKept

\* The value runs out, or the application changes the datum and invalidates it.
LEMMA WorldStep ==
    ASSUME Invariant, ValueExpires \/ Update \/ Invalidate
    PROVE  Invariant'
<1> USE DEF Invariant
<1>1. UNCHANGED <<lock, renewing, load, leader, result, call, answer, floor, canceled, lapsed,
                  faults, cancels>>
    BY DEF ValueExpires, Update, Invalidate, redis, loads, calls
<1>2. source' \in 1..(MaxUpdates + 1) /\ source <= source' /\ source \in Nat
    BY <1>1, BoundsAssumption DEF ValueExpires, Update, Invalidate, TypeOK, data
<1>3. dirty' \in BOOLEAN
    BY DEF ValueExpires, Update, Invalidate, TypeOK, data
<1>4. Settled' \in Nat /\ Settled \in Nat /\ Settled <= Settled'
    <2>1. Settled \in Nat /\ Settled <= source
        BY SettledType
    <2>2. CASE Update
        BY <1>2, <2>1, <2>2 DEF Update, Settled
    <2>3. CASE Invalidate
        <3>1. source' = source /\ ~dirty'
            BY <2>3 DEF Invalidate
        <3> QED
            BY <1>2, <2>1, <3>1 DEF Settled
    <2>4. CASE ValueExpires
        BY <2>1, <2>4 DEF ValueExpires, data, Settled
    <2> QED
        BY <2>2, <2>3, <2>4
<1>5. crossed \subseteq crossed'
    BY DEF ValueExpires, Update, Invalidate, data
<1>6. value' = None \/ value' = value \/ (value' = source /\ dirty')
        \/ (value' = source /\ Invalidate)
    BY DEF ValueExpires, Update, Invalidate, Unlink, redis
<1>7. crossed' \subseteq 1..source
    <2>1. crossed \subseteq 1..source
        BY DEF TypeOK
    <2>2. CASE Invalidate
        <3>1. {result[p] : p \in Processes} \ {None, source} \subseteq 1..source
            BY <1>2 DEF TypeOK, None
        <3> QED
            BY <2>1, <2>2, <3>1 DEF Invalidate
    <2> QED
        BY <2>1, <2>2 DEF ValueExpires, Update, data
<1>8. TypeOK'
    <2>1. value' \in 0..source'
        BY <1>2, <1>6 DEF TypeOK, None
    <2>2. lock' \in Processes => Holding(lock)'
        BY <1>1 DEF TypeOK, Holding
    <2>3. renewing' \subseteq {p \in Processes : Holding(p)'}
        BY <1>1 DEF TypeOK, Holding
    <2>4. /\ result' \in [Processes -> 0..source']
          /\ answer' \in [Calls -> 0..source']
          /\ floor' \in [Calls -> 0..source']
          /\ crossed' \subseteq 1..source'
        <3>1. 0..source \subseteq 0..source' /\ 1..source \subseteq 1..source'
            BY <1>2
        <3> QED
            BY <1>1, <1>7, <3>1 DEF TypeOK
    <2> QED
        BY <1>1, <1>2, <1>3, <2>1, <2>2, <2>3, <2>4 DEF TypeOK
<1>9. HolderOrLapsed'
    BY <1>1 DEF HolderOrLapsed, Holding
<1>10. AnswersShaped' /\ StaleReadsExplained'
    BY <1>1, <1>4, <1>5 DEF AnswersShaped, StaleReadsExplained, TypeOK
<1>11. CASE ValueExpires \/ Update
    <2>1. /\ value' = None \/ value' = value
          /\ crossed' = crossed /\ Settled' = Settled
        <3>1. CASE Update
            <4>1. source' = source + 1 /\ dirty' /\ ~dirty /\ value' = value /\ crossed' = crossed
                BY <3>1 DEF Update, redis
            <4> QED
                BY <1>2, <4>1 DEF Settled
        <3>2. CASE ValueExpires
            BY <3>2 DEF ValueExpires, data, Settled
        <3> QED
            BY <1>11, <3>1, <3>2
    <2>2. CacheSettled' /\ LoadsSettled'
        BY <1>1, <2>1 DEF CacheSettled, LoadsSettled
    <2>3. OwnerNewest'
        BY <1>1, <2>1 DEF OwnerNewest, TypeOK, None
    <2> QED
        BY <1>8, <1>9, <1>10, <2>2, <2>3
<1>12. CASE Invalidate
    <2>1. /\ value' = None \/ value' = source
          /\ crossed' = crossed \cup ({result[p] : p \in Processes} \ {None, source})
          /\ source' = source /\ Settled' = source
        BY <1>12 DEF Invalidate, Unlink, Settled
    <2>2. \A p \in Processes :
                /\ result[p] \in 0..source
                /\ result[p] # None /\ result[p] # source => result[p] \in crossed'
        BY <2>1 DEF TypeOK
    <2>3. CacheSettled'
        BY <2>1, <1>2 DEF CacheSettled
    <2>4. LoadsSettled'
        BY <1>1, <1>2, <2>1, <2>2 DEF LoadsSettled
    <2>5. OwnerNewest'
        <3>1. \A p \in Processes : result[p] # None =>
                    value' <= result[p] \/ result[p] \in crossed'
            BY <1>2, <2>1, <2>2 DEF None
        <3> QED
            BY <1>1, <3>1 DEF OwnerNewest
    <2> QED
        BY <1>8, <1>9, <1>10, <2>3, <2>4, <2>5
<1> QED
    BY <1>11, <1>12

LEMMA NextInvariant == Invariant /\ [Next]_vars => Invariant'
<1> SUFFICES ASSUME Invariant, [Next]_vars PROVE Invariant'
    OBVIOUS
<1>1. CASE UNCHANGED vars
    <2>1. UNCHANGED <<source, dirty, crossed, value, lock, renewing, load, leader, result,
                      call, answer, floor, canceled, lapsed, faults, cancels>>
        BY <1>1 DEF vars, data, redis, loads, calls
    <2>2. TypeOK'
        BY <2>1 DEF Invariant, TypeOK, Holding
    <2> QED
        BY <2>1, <2>2, VersionsKept, CallsKept DEF Invariant
<1>2. CASE \E c \in Calls : Look(c) \/ Join(c) \/ LeaveCanceled(c) \/ Cancel(c)
    BY <1>2, CallStep
<1>3. ASSUME NEW p \in Processes,
             \/ Check(p) \/ Acquire(p) \/ LoadFails(p)
             \/ Recheck(p) \/ Fetch(p) \/ Verify(p) \/ Store(p) \/ Reread(p)
             \/ HolderFails(p) \/ Release(p)
             \/ Crash(p) \/ RenewalStops(p) \/ RenewalLate(p)
      PROVE  Invariant'
    <2>1. CASE Check(p) \/ Acquire(p) \/ LoadFails(p)
        BY <2>1, SeekStep
    <2>2. CASE Recheck(p) \/ Reread(p)
        BY <2>2, ReadStep
    <2>3. CASE Fetch(p)
        BY <2>3, FetchStep
    <2>4. CASE Verify(p)
        BY <2>4, VerifyStep
    <2>5. CASE Store(p) \/ HolderFails(p)
        BY <2>5, StoreStep
    <2>6. CASE Release(p) \/ Crash(p)
        BY <2>6, EndStep
    <2>7. CASE RenewalStops(p) \/ RenewalLate(p)
        BY <2>7, LeaseStep
    <2> QED
        BY <1>3, <2>1, <2>2, <2>3, <2>4, <2>5, <2>6, <2>7
<1>4. CASE LockExpires
    BY <1>4, LeaseStep
<1>5. CASE ValueExpires \/ Update \/ Invalidate
    BY <1>5, WorldStep
<1> QED
    BY <1>1, <1>2, <1>3, <1>4, <1>5 DEF Next

-----------------------------------------------------------------------------
(* What follows.                                                           *)

\* The invariant holds in every state, whatever expires, fails or crashes.
THEOREM SafetyInvariant == Spec => []Invariant
BY InitInvariant, NextInvariant, PTL DEF Spec

\* The lock of a load is never left to a load that does not hold it, and
\* versions stay within those there have been.
THEOREM TypeCorrect == Spec => []TypeOK
<1>1. Invariant => TypeOK
    BY DEF Invariant
<1> QED
    BY <1>1, SafetyInvariant, PTL

\* The load lock of GetOrSet excludes: of two processes that fetch at once, one
\* lost its lock to the time to live.
THEOREM FetchersExclude == Spec => []OneFetcher
<1>1. Invariant => OneFetcher
    BY DEF Invariant, HolderOrLapsed, Holding, OneFetcher
<1> QED
    BY <1>1, SafetyInvariant, PTL

\* A stale answer of GetOrSet always goes back to a load that read the datum
\* before an invalidation and was still out when it came.
THEOREM StaleReads == Spec => []StaleReadsExplained
<1>1. Invariant => StaleReadsExplained
    BY DEF Invariant
<1> QED
    BY <1>1, SafetyInvariant, PTL

\* setIfLoadLockOwner stores forwards, but for a lock that runs out between its
\* two calls to Redis and for the application's own Set.
THEOREM StoresForward == Spec => NoBackwardsStore
<1> DEFINE Forward ==
        value' # None /\ value' < value =>
            \/ value' \in crossed
            \/ \E p \in lapsed : load[p] = "storing" /\ load'[p] = "releasing"
<1>1. ASSUME Invariant, [Next]_vars
      PROVE  [Forward]_vars
    <2>1. CASE UNCHANGED vars
        BY <2>1
    <2>2. CASE value' = value
        BY <1>1, <2>2 DEF Invariant, TypeOK
    <2>3. CASE ValueExpires
        BY <2>3 DEF ValueExpires
    <2>4. CASE Invalidate
        BY <1>1, <2>4 DEF Invalidate, Unlink, Invariant, TypeOK
    <2>5. ASSUME NEW p \in Processes, Store(p) \/ HolderFails(p), value' # value
          PROVE  Forward
        <3>1. load[p] = "storing" /\ value' = result[p] /\ load' = [load EXCEPT ![p] = "releasing"]
            BY <2>5 DEF Store, HolderFails, Finish, Goto
        <3>2. load'[p] = "releasing"
            BY <1>1, <3>1 DEF Invariant, TypeOK
        <3>3. CASE p \in lapsed
            BY <3>1, <3>2, <3>3
        <3>4. CASE p \notin lapsed
            <4>1. lock = p
                BY <1>1, <3>1, <3>4 DEF Invariant, HolderOrLapsed, Holding
            <4>2. value <= result[p] \/ result[p] \in crossed
                BY <1>1, <3>1, <4>1 DEF Invariant, OwnerNewest
            <4>3. value \in Nat /\ result[p] \in Nat
                BY <1>1 DEF Invariant, TypeOK
            <4> QED
                BY <3>1, <4>2, <4>3
        <3> QED
            BY <3>3, <3>4
    <2>6. ASSUME NEW p \in Processes,
                 \/ Check(p) \/ Acquire(p) \/ LoadFails(p)
                 \/ Recheck(p) \/ Fetch(p) \/ Verify(p) \/ Reread(p) \/ Release(p)
                 \/ Crash(p) \/ RenewalStops(p) \/ RenewalLate(p)
          PROVE  value' = value
        BY <2>6 DEF Check, Acquire, LoadFails, Recheck, Fetch, Verify, Reread, Release, Crash,
                    RenewalStops, RenewalLate, redis
    <2>7. ASSUME NEW c \in Calls, Look(c) \/ Join(c) \/ LeaveCanceled(c) \/ Cancel(c)
          PROVE  value' = value
        BY <2>7 DEF Look, Join, LeaveCanceled, Cancel, redis
    <2>8. CASE LockExpires \/ Update
        BY <2>2, <2>8 DEF LockExpires, Update, redis
    <2> QED
        BY <1>1, <2>1, <2>2, <2>3, <2>4, <2>5, <2>6, <2>7, <2>8 DEF Next
<1> QED
    BY <1>1, SafetyInvariant, PTL DEF Spec, NoBackwardsStore
=============================================================================
