---------------------------- MODULE TwoLevelCache ----------------------------
(***************************************************************************)
(* cache/cache.go and cache/bounded.go: MultiLevelStore in one process,    *)
(* with a BoundedMemoryStore as its L1 over an L2 that other processes     *)
(* share.  The application keeps the cache in step with a datum per key:   *)
(* it changes the datum and then calls Set or Delete.                      *)
(*                                                                         *)
(* Each level guards itself, so one call on a level is one step; nothing   *)
(* guards the two calls a MultiLevelStore makes, and everybody's steps     *)
(* mix.  A value is the version of the datum it was made from.             *)
(***************************************************************************)
EXTENDS Integers, Sequences

CONSTANTS
    Callers,      \* goroutines that use the store
    Keys,
    KeyOf,        \* [Callers -> Keys]: the key that a caller works on
    Uses,         \* [Callers -> SUBSET Operations]: what a caller calls
    Shared,       \* keys that other processes write too
    Nobody,       \* the caller that started a load has left
    MaxEntries,   \* maxEntries of L1
    MaxUpdates,   \* bound: [Keys -> changes of the datum]
    MaxFaults     \* bound: failed calls of L2 or of a fetcher, and callers that leave

Operations == {"Get", "GetOrSet", "Set", "Delete"}

ASSUME CallerAssumption ==
    /\ KeyOf \in [Callers -> Keys]
    /\ Uses \in [Callers -> SUBSET Operations]
    /\ Shared \subseteq Keys
    /\ Nobody \notin Callers
ASSUME BoundsAssumption ==
    MaxEntries \in Nat \ {0} /\ MaxUpdates \in [Keys -> Nat] /\ MaxFaults \in Nat

\* No value; the versions of a datum start at 1.
None == 0

VARIABLES
    source,     \* [Keys -> version of the datum]
    l2,         \* [Keys -> version in L2, or None]
    l1,         \* [Keys -> version in L1, or None]
    order,      \* L1: its keys, oldest first (keysOrder)
    expired,    \* L1: keys whose entry has run out, but is still there
    op,         \* [Callers -> what the caller called]
    stage,      \* [Callers -> and where that is]
    val,        \* [Callers -> the version it carries, and then its answer]
    load,       \* [Keys -> stage of the load in progress]
    carried,    \* [Keys -> version that the load carries]
    leader,     \* [Keys -> caller whose context the load uses]
    l2load,     \* [Keys -> stage of L2's own load in progress]
    fetched,    \* [Keys -> version that L2's load has fetched]
    faults,     \* history: bounded by MaxFaults
    settled,    \* history: [Keys -> newest version whose Set or Delete returned]
    floor,      \* history: [Callers -> settled when the call began]
    newest,     \* history: [Keys -> newest version there has been in L2]
    crossed     \* history: [Keys -> versions carried while somebody else changed the key]

level1 == <<l1, order, expired>>
level2 == <<l2, newest>>
calls  == <<op, stage, val, floor>>
inL2   == <<l2load, fetched>>
loads  == <<load, carried, leader, inL2>>
vars   == <<source, level1, level2, calls, loads, faults, settled, crossed>>

Init ==
    /\ source = [k \in Keys |-> 1]
    /\ l2 = [k \in Keys |-> None]
    /\ l1 = [k \in Keys |-> None]
    /\ order = <<>>
    /\ expired = {}
    /\ op = [c \in Callers |-> "none"]
    /\ stage = [c \in Callers |-> "idle"]
    /\ val = [c \in Callers |-> None]
    /\ load = [k \in Keys |-> "none"]
    /\ carried = [k \in Keys |-> None]
    /\ leader = [k \in Keys |-> Nobody]
    /\ l2load = [k \in Keys |-> "none"]
    /\ fetched = [k \in Keys |-> None]
    /\ faults = 0
    /\ settled = [k \in Keys |-> None]
    /\ floor = [c \in Callers |-> None]
    /\ newest = [k \in Keys |-> None]
    /\ crossed = [k \in Keys |-> {}]

Fault ==
    /\ faults < MaxFaults
    /\ faults' = faults + 1

-----------------------------------------------------------------------------
(* L1, a BoundedMemoryStore.                                               *)

\* keysOrder.Remove: a key that is not there changes nothing.
Without(k) ==
    LET at == CHOOSE i \in DOMAIN order : order[i] = k
    IN  IF \E i \in DOMAIN order : order[i] = k
        THEN SubSeq(order, 1, at - 1) \o SubSeq(order, at + 1, Len(order))
        ELSE order

\* getWithTTL.
Hit(k) == l1[k] # None /\ k \notin expired

\* evictOneLocked: the first entry that ran out, or else the oldest.
Victim ==
    LET gone == {i \in DOMAIN order : order[i] \in expired}
    IN  IF gone = {} THEN Head(order)
        ELSE order[CHOOSE i \in gone : \A j \in gone : i <= j]

\* Set: an entry that is there keeps its place.
PutL1(k, v) ==
    IF l1[k] # None
    THEN /\ l1' = [l1 EXCEPT ![k] = v]
         /\ expired' = expired \ {k}
         /\ UNCHANGED order
    ELSE IF Len(order) < MaxEntries
    THEN /\ l1' = [l1 EXCEPT ![k] = v]
         /\ order' = Append(order, k)
         /\ UNCHANGED expired
    ELSE /\ l1' = [l1 EXCEPT ![Victim] = None, ![k] = v]
         /\ order' = Append(Without(Victim), k)
         /\ expired' = expired \ {Victim}

\* Delete and deleteLocked.
DropL1(k) ==
    /\ l1' = [l1 EXCEPT ![k] = None]
    /\ order' = Without(k)
    /\ expired' = expired \ {k}

ExpireL1(k) ==
    /\ Hit(k)
    /\ expired' = expired \cup {k}
    /\ UNCHANGED <<source, l1, order, level2, calls, loads, faults, settled>>

-----------------------------------------------------------------------------
(* L2, any Store; its values run out too.                                  *)

PutL2(k, v) ==
    /\ l2' = [l2 EXCEPT ![k] = v]
    /\ newest' = [newest EXCEPT ![k] = IF v > newest[k] THEN v ELSE newest[k]]

\* A call that changes L2 fails, before or after it took effect.
PutL2Fails(k, v) == Fault /\ (PutL2(k, v) \/ UNCHANGED level2)

ExpireL2(k) ==
    /\ l2[k] # None
    /\ PutL2(k, None)
    /\ UNCHANGED <<source, level1, calls, loads, faults, settled>>

\* Another process changes the datum and L2; this one hears nothing of it.
OtherWrites(k) ==
    /\ k \in Shared
    /\ source[k] <= MaxUpdates[k]
    /\ source' = [source EXCEPT ![k] = source[k] + 1]
    /\ \/ PutL2(k, source[k] + 1)
       \/ PutL2(k, None)
    /\ UNCHANGED <<level1, calls, loads, faults, settled>>

-----------------------------------------------------------------------------
(* Calls.                                                                  *)

\* The call of c returns.
Done(c) ==
    /\ op' = [op EXCEPT ![c] = "none"]
    /\ stage' = [stage EXCEPT ![c] = "idle"]
    /\ val' = [val EXCEPT ![c] = None]
    /\ floor' = [floor EXCEPT ![c] = None]

\* The call of c goes on with v.
Goto(c, next, v) ==
    /\ stage' = [stage EXCEPT ![c] = next]
    /\ val' = [val EXCEPT ![c] = v]
    /\ UNCHANGED <<op, floor>>

\* Mutant: a hit in L1 is written back to L2.
OnHitWriteBack(k) == PutL2(k, l1[k])

\* A hit in L1 leaves L2 alone.
OnHit(k) == UNCHANGED level2

\* Get and GetOrSet look into L1 first.
Lookup(c, o) ==
    LET k == KeyOf[c] IN
    /\ stage[c] = "idle" /\ o \in Uses[c]
    /\ op' = [op EXCEPT ![c] = o]
    /\ floor' = [floor EXCEPT ![c] = settled[k]]
    /\ IF Hit(k)
       THEN /\ stage' = [stage EXCEPT ![c] = "answered"]
            /\ val' = [val EXCEPT ![c] = l1[k]]
            /\ OnHit(k)
       ELSE /\ stage' = [stage EXCEPT ![c] = "readingL2"]
            /\ UNCHANGED <<val, level2>>
    /\ UNCHANGED <<source, level1, loads, faults, settled>>

\* A value that L2 has on its last moment, or without a time to live, is
\* returned and not copied.
ReadL2(c) ==
    LET k == KeyOf[c] IN
    /\ stage[c] = "readingL2"
    /\ \/ /\ l2[k] # None
          /\ \E next \in {"backfilling", "answered"} : Goto(c, next, l2[k])
          /\ UNCHANGED faults
       \/ /\ l2[k] = None
          /\ IF op[c] = "Get" THEN Done(c) ELSE Goto(c, "missed", None)
          /\ UNCHANGED faults
       \/ Fault /\ Done(c)
    /\ UNCHANGED <<source, level1, level2, loads, settled>>

Backfill(c) ==
    /\ stage[c] = "backfilling"
    /\ PutL1(KeyOf[c], val[c])
    /\ Goto(c, "answered", val[c])
    /\ UNCHANGED <<source, level2, loads, faults, settled>>

Return(c) ==
    /\ stage[c] = "answered"
    /\ Done(c)
    /\ UNCHANGED <<source, level1, level2, loads, faults, settled>>

\* DoChan: join the load of the key, or start one.
Join(c) ==
    LET k == KeyOf[c] IN
    /\ stage[c] = "missed"
    /\ Goto(c, "waiting", None)
    /\ IF load[k] = "none"
       THEN /\ load' = [load EXCEPT ![k] = "looking"]
            /\ leader' = [leader EXCEPT ![k] = c]
            /\ UNCHANGED <<carried, inL2>>
       ELSE UNCHANGED loads
    /\ UNCHANGED <<source, level1, level2, faults, settled>>

\* The context of c ends, and c does not wait any longer; the load goes on,
\* with that context if c started it.
Leave(c) ==
    LET k == KeyOf[c] IN
    /\ stage[c] = "waiting"
    /\ Fault
    /\ Done(c)
    /\ leader' = IF leader[k] = c THEN [leader EXCEPT ![k] = Nobody] ELSE leader
    /\ UNCHANGED <<source, level1, level2, load, carried, inL2, settled>>

-----------------------------------------------------------------------------
(* The load of GetOrSet.                                                   *)

LoadGoto(k, next, v) ==
    /\ load' = [load EXCEPT ![k] = next]
    /\ carried' = [carried EXCEPT ![k] = v]
    /\ UNCHANGED <<leader, calls>>

Waiters(k) == {c \in Callers : stage[c] = "waiting" /\ KeyOf[c] = k}

\* The load returns v to all who wait for it, or an error.
LoadReturn(k, v) ==
    /\ load' = [load EXCEPT ![k] = "none"]
    /\ carried' = [carried EXCEPT ![k] = None]
    /\ leader' = [leader EXCEPT ![k] = Nobody]
    /\ LET W == Waiters(k)
           failed == v = None
       IN  /\ stage' = [c \in Callers |-> IF c \notin W THEN stage[c]
                                          ELSE IF failed THEN "idle" ELSE "answered"]
           /\ op' = [c \in Callers |-> IF c \in W /\ failed THEN "none" ELSE op[c]]
           /\ val' = [c \in Callers |-> IF c \in W THEN v ELSE val[c]]
           /\ floor' = [c \in Callers |-> IF c \in W /\ failed THEN None ELSE floor[c]]

\* The context of the load is alive.
Alive(k) == leader[k] # Nobody

\* With a context that ended a read fails, and so does waiting for L2's load;
\* a read of L2 may fail anyhow.
LoadFails(k) ==
    /\ \/ /\ ~Alive(k)
          /\ load[k] \in {"looking", "readingL2", "asking", "loadingL2"}
          /\ UNCHANGED faults
       \/ load[k] \in {"readingL2", "asking"} /\ Fault
    /\ LoadReturn(k, None)
    /\ UNCHANGED <<source, level1, level2, inL2, settled>>

\* Get again, both levels.
LoadLook(k) ==
    /\ load[k] = "looking"
    /\ Alive(k)
    /\ IF Hit(k) THEN LoadReturn(k, l1[k]) ELSE LoadGoto(k, "readingL2", None)
    /\ UNCHANGED <<source, level1, level2, inL2, faults, settled>>

LoadReadL2(k) ==
    /\ load[k] = "readingL2"
    /\ Alive(k)
    /\ \/ l2[k] # None /\ LoadGoto(k, "backfilling", l2[k])
       \/ l2[k] # None /\ LoadReturn(k, l2[k])
       \/ l2[k] = None /\ LoadGoto(k, "asking", None)
    /\ UNCHANGED <<source, level1, level2, inL2, faults, settled>>

\* GetOrSet of L2: look again, then join the load that L2 has, or start one.
LoadAsk(k) ==
    /\ load[k] = "asking"
    /\ Alive(k)
    /\ \/ /\ l2[k] # None
          /\ LoadGoto(k, "filling", l2[k])
          /\ UNCHANGED l2load
       \/ /\ l2[k] = None
          /\ LoadGoto(k, "loadingL2", None)
          /\ l2load' = IF l2load[k] = "none" THEN [l2load EXCEPT ![k] = "fetching"] ELSE l2load
    /\ UNCHANGED <<source, level1, level2, fetched, faults, settled>>

\* L2's load goes on when all who waited for it have left.
L2Fetch(k) ==
    /\ l2load[k] = "fetching"
    /\ l2load' = [l2load EXCEPT ![k] = "storing"]
    /\ fetched' = [fetched EXCEPT ![k] = source[k]]
    /\ UNCHANGED <<source, level1, level2, calls, load, carried, leader, faults, settled>>

L2LoadEnds(k) ==
    /\ l2load' = [l2load EXCEPT ![k] = "none"]
    /\ fetched' = [fetched EXCEPT ![k] = None]

L2LoadFails(k) ==
    /\ \/ l2load[k] = "fetching" /\ Fault /\ UNCHANGED level2
       \/ l2load[k] = "storing" /\ PutL2Fails(k, fetched[k])
    /\ L2LoadEnds(k)
    /\ IF load[k] = "loadingL2"
       THEN LoadReturn(k, None)
       ELSE UNCHANGED <<calls, load, carried, leader>>
    /\ UNCHANGED <<source, level1, settled>>

L2Store(k) ==
    /\ l2load[k] = "storing"
    /\ PutL2(k, fetched[k])
    /\ L2LoadEnds(k)
    /\ IF load[k] = "loadingL2"
       THEN LoadGoto(k, "filling", fetched[k])
       ELSE UNCHANGED <<calls, load, carried, leader>>
    /\ UNCHANGED <<source, level1, faults, settled>>

\* The value, of L2 or of the fetcher, goes into L1.
LoadFill(k) ==
    /\ load[k] \in {"backfilling", "filling"}
    /\ PutL1(k, carried[k])
    /\ LoadReturn(k, carried[k])
    /\ UNCHANGED <<source, level2, inL2, faults, settled>>

-----------------------------------------------------------------------------
(* The application changes the datum, then the cache.                      *)

\* Mutant: L1 before L2.
FirstL1(o) == IF o = "Set" THEN "settingL1" ELSE "droppingL1"

\* Set begins with L2, Delete with L1; InvalidatePrefix is Delete for one key
\* after the other, level by level.
First(o) == IF o = "Set" THEN "settingL2" ELSE "droppingL1"

Write(c, o) ==
    LET k == KeyOf[c] IN
    /\ stage[c] = "idle" /\ o \in Uses[c]
    /\ source[k] <= MaxUpdates[k]
    /\ source' = [source EXCEPT ![k] = source[k] + 1]
    /\ op' = [op EXCEPT ![c] = o]
    /\ stage' = [stage EXCEPT ![c] = First(o)]
    /\ val' = [val EXCEPT ![c] = source[k] + 1]
    /\ UNCHANGED <<level1, level2, loads, faults, settled, floor>>

\* The Set or Delete of c has returned without an error.
Settle(c) ==
    /\ settled' = [settled EXCEPT ![KeyOf[c]] =
                      IF val[c] > settled[KeyOf[c]] THEN val[c] ELSE settled[KeyOf[c]]]
    /\ Done(c)

SetL2(c) ==
    /\ stage[c] = "settingL2"
    /\ \/ PutL2(KeyOf[c], val[c]) /\ Goto(c, "settingL1", val[c]) /\ UNCHANGED faults
       \/ PutL2Fails(KeyOf[c], val[c]) /\ Done(c)
    /\ UNCHANGED <<source, level1, loads, settled>>

SetL1(c) ==
    /\ stage[c] = "settingL1"
    /\ PutL1(KeyOf[c], val[c])
    /\ Settle(c)
    /\ UNCHANGED <<source, level2, loads, faults>>

DeleteL1(c) ==
    /\ stage[c] = "droppingL1"
    /\ DropL1(KeyOf[c])
    /\ Goto(c, "droppingL2", val[c])
    /\ UNCHANGED <<source, level2, loads, faults, settled>>

\* Mutant: L2 keeps the value.
RemoveNothing(k) == UNCHANGED level2

Remove(k) == PutL2(k, None)

DeleteL2(c) ==
    /\ stage[c] = "droppingL2"
    /\ \/ Remove(KeyOf[c]) /\ Settle(c) /\ UNCHANGED faults
       \/ PutL2Fails(KeyOf[c], None) /\ Done(c) /\ UNCHANGED settled
    /\ UNCHANGED <<source, level1, loads>>

-----------------------------------------------------------------------------

CallStep(c) ==
    \/ ReadL2(c) \/ Backfill(c) \/ Return(c) \/ Join(c)
    \/ SetL2(c) \/ SetL1(c) \/ DeleteL1(c) \/ DeleteL2(c)

LoadStep(k) ==
    LoadFails(k) \/ LoadLook(k) \/ LoadReadL2(k) \/ LoadAsk(k) \/ LoadFill(k)

L2LoadStep(k) == L2Fetch(k) \/ L2LoadFails(k) \/ L2Store(k)

Step ==
    \/ \E c \in Callers :
        \/ Lookup(c, "Get") \/ Lookup(c, "GetOrSet")
        \/ Write(c, "Set") \/ Write(c, "Delete")
        \/ ReadL2(c) \/ Backfill(c) \/ Return(c) \/ Join(c) \/ Leave(c)
        \/ SetL2(c) \/ SetL1(c) \/ DeleteL1(c) \/ DeleteL2(c)
    \/ \E k \in Keys :
        \/ LoadFails(k) \/ LoadLook(k) \/ LoadReadL2(k) \/ LoadAsk(k) \/ LoadFill(k)
        \/ L2Fetch(k) \/ L2LoadFails(k) \/ L2Store(k)
        \/ ExpireL1(k) \/ ExpireL2(k) \/ OtherWrites(k)

\* c is between the two halves of a Set or Delete of k, or about to begin them.
Writing(c, k) == KeyOf[c] = k /\ op[c] \in {"Set", "Delete"}

\* Versions that a load, or a caller that is not the only writer, carries.
Crossing(k) ==
    {val[c] : c \in {d \in Callers : KeyOf[d] = k /\ \E w \in Callers \ {d} : Writing(w, k)}}
      \cup {v \in {carried[k], fetched[k]} : \E w \in Callers : Writing(w, k)}

Watch == crossed' = [k \in Keys |-> crossed[k] \cup (Crossing(k)' \ {None})]

Next == Step /\ Watch

\* Goroutines run, L2 and fetchers answer, times to live run out.
Fairness ==
    /\ \A c \in Callers : WF_vars(CallStep(c) /\ Watch)
    /\ \A k \in Keys :
        /\ WF_vars(LoadStep(k) /\ Watch)
        /\ WF_vars(L2LoadStep(k) /\ Watch)
        /\ WF_vars(ExpireL1(k) /\ Watch)
        /\ WF_vars(ExpireL2(k) /\ Watch)

Spec == Init /\ [][Next]_vars /\ Fairness

-----------------------------------------------------------------------------
(* Properties.                                                             *)

Types ==
    /\ source \in [Keys -> Nat \ {0}]
    /\ l2 \in [Keys -> Nat]
    /\ l1 \in [Keys -> Nat]
    /\ expired \subseteq {k \in Keys : l1[k] # None}
    /\ op \in [Callers -> Operations \cup {"none"}]
    /\ stage \in [Callers -> {"idle", "readingL2", "backfilling", "answered", "missed",
                     "waiting", "settingL2", "settingL1", "droppingL1", "droppingL2"}]
    /\ val \in [Callers -> Nat]
    /\ load \in [Keys -> {"none", "looking", "readingL2", "backfilling", "asking",
                    "loadingL2", "filling"}]
    /\ carried \in [Keys -> Nat]
    /\ l2load \in [Keys -> {"none", "fetching", "storing"}]
    /\ fetched \in [Keys -> Nat]
    /\ leader \in [Keys -> Callers \cup {Nobody}]
    /\ faults \in 0..MaxFaults
    /\ settled \in [Keys -> Nat]
    /\ floor \in [Callers -> Nat]
    /\ newest \in [Keys -> Nat]
    /\ crossed \in [Keys -> SUBSET Nat]

\* keysOrder lists the entries of L1, each once and at most MaxEntries.
Listed ==
    /\ order \in Seq(Keys)
    /\ Len(order) <= MaxEntries
    /\ \A i, j \in DOMAIN order : order[i] = order[j] => i = j
    /\ {order[i] : i \in DOMAIN order} = {k \in Keys : l1[k] # None}

\* The variables keep their types, and L1 is bounded and in order.
TypeOK == Types /\ Listed

\* L1 never has a version that L2, the authoritative level, has not had: what
\* fails in L2 does not show in L1 alone, whoever writes or loads beside it.
L2First == \A k \in Keys : l1[k] <= newest[k]

\* A call gets a version older than a Set or Delete that returned before it
\* began only if somebody carried that version, between a read and a write or
\* between the two levels, while the key was changed.
StaleReadsExplained ==
    \A c \in Callers :
        stage[c] = "answered" /\ val[c] < floor[c] => val[c] \in crossed[KeyOf[c]]

\* When the datum is left alone both levels end up without any old version, for
\* none goes from L1 back to L2.
Converges ==
    <>[](\A k \in Keys :
            /\ l1[k] \in {None, source[k]} \/ k \in expired
            /\ l2[k] \in {None, source[k]})
=============================================================================
