------------------------- MODULE TwoLevelCacheProofs -------------------------
(***************************************************************************)
(* What TwoLevelCache promises for any callers, keys and bounds: L1 never  *)
(* runs ahead of L2, and where a stale read comes from.                    *)
(***************************************************************************)
EXTENDS TwoLevelCache, FiniteSetTheorems, SequenceTheorems, TLAPS

-----------------------------------------------------------------------------
(* The inductive invariant, in named parts.                                *)

Writer(c) == op[c] \in {"Set", "Delete"}

\* Only a Set or Delete is between its halves.
WritersWrite ==
    \A c \in Callers :
        stage[c] \in {"settingL2", "settingL1", "droppingL1", "droppingL2"} => Writer(c)

\* No version is from the future.
Past ==
    /\ \A k \in Keys :
        /\ settled[k] <= source[k] /\ newest[k] <= source[k]
        /\ carried[k] <= source[k] /\ fetched[k] <= source[k]
    /\ \A c \in Callers : val[c] <= source[KeyOf[c]] /\ floor[c] <= settled[KeyOf[c]]

\* Whoever is about to hand on a version has one.
Holding == {"backfilling", "answered", "settingL2", "settingL1", "droppingL1", "droppingL2"}
Filling == {"backfilling", "filling"}
Carrying ==
    /\ \A c \in Callers : stage[c] \in Holding => val[c] # None
    /\ \A k \in Keys :
        /\ load[k] \in Filling => carried[k] # None
        /\ l2load[k] = "storing" => fetched[k] # None

\* What L2 has had covers what L1 has and will get.
Covered ==
    /\ \A k \in Keys :
        /\ l2[k] <= newest[k] /\ l1[k] <= newest[k]
        /\ load[k] \in Filling => carried[k] <= newest[k]
    /\ \A c \in Callers :
        stage[c] \in {"backfilling", "settingL1"} => val[c] <= newest[KeyOf[c]]

\* v may be under k: it is as new as the last change, or crossed one.
Fine(k, v) == v = None \/ v >= settled[k] \/ v \in crossed[k]

AllFine ==
    /\ \A k \in Keys :
        Fine(k, l1[k]) /\ Fine(k, l2[k]) /\ Fine(k, carried[k]) /\ Fine(k, fetched[k])
    /\ \A c \in Callers : Fine(KeyOf[c], val[c])

\* What others carry while c writes is on record.
Recorded ==
    \A c \in Callers :
        Writer(c) =>
            /\ {carried[KeyOf[c]], fetched[KeyOf[c]]} \subseteq crossed[KeyOf[c]] \cup {None}
            /\ \A d \in Callers \ {c} :
                KeyOf[d] = KeyOf[c] => val[d] \in crossed[KeyOf[c]] \cup {None}

\* The level that c has changed already has its version, a newer one, none, or
\* one that was on its way.
HalfDone ==
    \A c \in Callers :
        LET k == KeyOf[c] IN
        /\ stage[c] = "settingL1" => l2[k] = None \/ l2[k] >= val[c] \/ l2[k] \in crossed[k]
        /\ stage[c] = "droppingL2" => l1[k] = None \/ l1[k] >= val[c] \/ l1[k] \in crossed[k]

Invariant ==
    /\ Types
    /\ WritersWrite
    /\ Carrying
    /\ Past
    /\ Covered
    /\ AllFine
    /\ Recorded
    /\ HalfDone

-----------------------------------------------------------------------------
(* Where versions go in a step that does not end a Set or Delete.          *)

WriteStages == {"settingL2", "settingL1", "droppingL1", "droppingL2"}

SourceFlow == \A k \in Keys : source'[k] >= source[k]

\* A level gets a version from a load or a caller of the key, or from the datum.
LevelsFlow ==
    \A k \in Keys :
        /\ newest'[k] >= newest[k] /\ l2'[k] <= newest'[k]
        /\ newest'[k] \in {newest[k], l2'[k]}
        /\ \/ l2'[k] \in {None, l2[k], fetched[k], source'[k]}
           \/ \E d \in Callers : KeyOf[d] = k /\ stage[d] = "settingL2" /\ l2'[k] = val[d]
        /\ \/ l1'[k] \in {None, l1[k]}
           \/ load[k] \in Filling /\ l1'[k] = carried[k]
           \/ \E d \in Callers : KeyOf[d] = k /\ stage[d] = "backfilling" /\ l1'[k] = val[d]

\* A load gets one from L2 or L2's load, and that from the datum.
LoadsFlow ==
    \A k \in Keys :
        /\ carried'[k] \in {None, carried[k], l2[k], fetched[k]}
        /\ fetched'[k] \in {None, fetched[k], source[k]}
        /\ load'[k] \in Filling =>
             carried'[k] = l2'[k] \/ (load[k] \in Filling /\ carried'[k] = carried[k])
        /\ load'[k] \in Filling =>
             carried'[k] # None \/ (load[k] \in Filling /\ carried'[k] = carried[k])
        /\ l2load'[k] = "storing" =>
             fetched'[k] # None \/ (l2load[k] = "storing" /\ fetched'[k] = fetched[k])

\* A caller gets one from a level, from the load, or from the datum it changes.
CallsFlow ==
    \A c \in Callers :
        LET k == KeyOf[c] IN
        /\ val'[c] \in {None, val[c], l1[k], l2[k], carried[k], source'[k]}
        /\ floor'[c] \in {None, floor[c], settled[k]}
        /\ stage'[c] \in WriteStages =>
             op'[c] \in {"Set", "Delete"} \/ (stage[c] \in WriteStages /\ op'[c] = op[c])
        /\ stage'[c] \in Holding =>
             val'[c] # None \/ (stage[c] \in Holding /\ val'[c] = val[c])
        /\ stage'[c] = "backfilling" =>
             val'[c] = l2[k] \/ (stage[c] = "backfilling" /\ val'[c] = val[c])
        /\ stage'[c] = "settingL1" =>
             val'[c] = val[c] /\ (stage[c] = "settingL1" \/ l2'[k] = val[c])
        /\ stage'[c] = "droppingL2" =>
             val'[c] = val[c] /\ (stage[c] = "droppingL2" \/ l1'[k] = None)

Flow == SourceFlow /\ LevelsFlow /\ LoadsFlow /\ CallsFlow

\* Types without crossed, which every step sees to in the same way.
OtherTypes ==
    /\ source \in [Keys -> Nat \ {0}]
    /\ l2 \in [Keys -> Nat]
    /\ l1 \in [Keys -> Nat]
    /\ expired \subseteq {k \in Keys : l1[k] # None}
    /\ op \in [Callers -> Operations \cup {"none"}]
    /\ stage \in [Callers -> {"idle", "readingL2", "backfilling", "answered", "missed",
                     "waiting", "settingL2", "settingL1", "droppingL1", "droppingL2"}]
    /\ val \in [Callers -> Nat]
    /\ load \in [Keys -> {"none", "looking", "readingL2", "backfilling", "asking",
                    "loadingL2", "filling"}]
    /\ carried \in [Keys -> Nat]
    /\ l2load \in [Keys -> {"none", "fetching", "storing"}]
    /\ fetched \in [Keys -> Nat]
    /\ leader \in [Keys -> Callers \cup {Nobody}]
    /\ faults \in 0..MaxFaults
    /\ settled \in [Keys -> Nat]
    /\ floor \in [Callers -> Nat]
    /\ newest \in [Keys -> Nat]

\* What is carried across a change is recorded, and the record grows.
LEMMA Watching ==
    ASSUME Types, OtherTypes', Watch
    PROVE  Types' /\ Recorded' /\ \A k \in Keys : crossed[k] \subseteq crossed'[k]
<1>1. crossed' = [k \in Keys |-> crossed[k] \cup (Crossing(k)' \ {None})]
    BY DEF Watch
<1>2. \A k \in Keys : Crossing(k)' \subseteq Nat
    BY CallerAssumption DEF OtherTypes, Crossing
<1>3. crossed' \in [Keys -> SUBSET Nat]
    BY <1>1, <1>2 DEF Types
<1>4. Types'
    BY <1>3 DEF OtherTypes, Types
<1>5. ASSUME NEW c \in Callers, Writer(c)'
      PROVE  /\ {carried'[KeyOf[c]], fetched'[KeyOf[c]]} \subseteq crossed'[KeyOf[c]] \cup {None}
             /\ \A d \in Callers \ {c} :
                    KeyOf[d] = KeyOf[c] => val'[d] \in crossed'[KeyOf[c]] \cup {None}
    <2>1. KeyOf[c] \in Keys /\ Writing(c, KeyOf[c])'
        BY <1>5, CallerAssumption DEF Writer, Writing
    <2>2. {carried'[KeyOf[c]], fetched'[KeyOf[c]]} \subseteq Crossing(KeyOf[c])'
        BY <2>1 DEF Crossing
    <2>3. \A d \in Callers \ {c} : KeyOf[d] = KeyOf[c] => val'[d] \in Crossing(KeyOf[c])'
        BY <2>1 DEF Crossing
    <2> QED
        BY <1>1, <2>1, <2>2, <2>3
<1>6. Recorded'
    BY <1>5 DEF Recorded
<1>7. \A k \in Keys : crossed[k] \subseteq crossed'[k]
    BY <1>1
<1> QED
    BY <1>4, <1>6, <1>7

\* A step in which versions flow as they should keeps the invariant.
LEMMA FlowKeeps ==
    ASSUME Invariant, OtherTypes', Watch, Flow, settled' = settled
    PROVE  Invariant'
<1> USE DEF Invariant
<1>1. Types' /\ Recorded' /\ \A k \in Keys : crossed[k] \subseteq crossed'[k]
    BY Watching
<1>2. \A c \in Callers : KeyOf[c] \in Keys
    BY CallerAssumption
<1>3. /\ \A k \in Keys : {source[k], source'[k], l1[k], l2[k], l1'[k], l2'[k], carried[k],
                           carried'[k], fetched[k], fetched'[k], newest[k], newest'[k], settled[k]} \subseteq Nat
      /\ \A c \in Callers : {val[c], val'[c], floor[c], floor'[c]} \subseteq Nat
    BY <1>1 DEF Types
<1>4. WritersWrite'
    BY DEF WritersWrite, Writer, Flow, CallsFlow, WriteStages
<1>9. Carrying'
    BY DEF Carrying, Flow, LoadsFlow, CallsFlow
<1>5. Past'
    <2>1. ASSUME NEW k \in Keys
          PROVE  /\ settled[k] <= source'[k] /\ newest'[k] <= source'[k]
                 /\ carried'[k] <= source'[k] /\ fetched'[k] <= source'[k]
        <3>1. source[k] <= source'[k] /\ settled[k] <= source[k] /\ newest[k] <= source[k]
              /\ carried[k] <= source[k] /\ fetched[k] <= source[k] /\ l2[k] <= newest[k]
            BY DEF Past, Covered, Flow, SourceFlow
        <3>2. \A d \in Callers : KeyOf[d] = k => val[d] <= source[k]
            BY DEF Past
        <3>3. l2'[k] <= source'[k]
            BY <1>3, <3>1, <3>2 DEF Flow, LevelsFlow, None
        <3>4. newest'[k] \in {newest[k], l2'[k]} /\ carried'[k] \in {None, carried[k], l2[k], fetched[k]}
              /\ fetched'[k] \in {None, fetched[k], source[k]}
            BY DEF Flow, LevelsFlow, LoadsFlow
        <3> QED
            BY <1>3, <3>1, <3>3, <3>4 DEF None
    <2>2. ASSUME NEW c \in Callers
          PROVE  val'[c] <= source'[KeyOf[c]] /\ floor'[c] <= settled[KeyOf[c]]
        <3> DEFINE k == KeyOf[c]
        <3>1. /\ source[k] <= source'[k] /\ newest[k] <= source[k] /\ carried[k] <= source[k]
              /\ l2[k] <= newest[k] /\ l1[k] <= newest[k]
              /\ val[c] <= source[k] /\ floor[c] <= settled[k]
            BY <1>2 DEF Past, Covered, Flow, SourceFlow
        <3>2. /\ val'[c] \in {None, val[c], l1[k], l2[k], carried[k], source'[k]}
              /\ floor'[c] \in {None, floor[c], settled[k]}
            BY DEF Flow, CallsFlow
        <3> QED
            BY <1>2, <1>3, <3>1, <3>2 DEF None
    <2> QED
        BY <2>1, <2>2 DEF Past
<1>6. Covered'
    <2>1. ASSUME NEW k \in Keys
          PROVE  /\ l2'[k] <= newest'[k] /\ l1'[k] <= newest'[k]
                 /\ load'[k] \in Filling => carried'[k] <= newest'[k]
        <3>1. /\ newest[k] <= newest'[k] /\ l2'[k] <= newest'[k] /\ l1[k] <= newest[k]
              /\ load[k] \in Filling => carried[k] <= newest[k]
            BY DEF Flow, LevelsFlow, Covered
        <3>2. \A d \in Callers : KeyOf[d] = k /\ stage[d] = "backfilling" => val[d] <= newest[k]
            BY DEF Covered
        <3>3. l1'[k] <= newest'[k]
            BY <1>3, <3>1, <3>2 DEF Flow, LevelsFlow, None
        <3>4. load'[k] \in Filling =>
                carried'[k] = l2'[k] \/ (load[k] \in Filling /\ carried'[k] = carried[k])
            BY DEF Flow, LoadsFlow
        <3> QED
            BY <1>3, <3>1, <3>3, <3>4
    <2>2. ASSUME NEW c \in Callers, stage'[c] \in {"backfilling", "settingL1"}
          PROVE  val'[c] <= newest'[KeyOf[c]]
        <3> DEFINE k == KeyOf[c]
        <3>1. /\ newest[k] <= newest'[k] /\ l2'[k] <= newest'[k] /\ l2[k] <= newest[k]
              /\ stage[c] \in {"backfilling", "settingL1"} => val[c] <= newest[k]
            BY <1>2 DEF Flow, LevelsFlow, Covered
        <3>2. \/ val'[c] \in {l2[k], l2'[k]}
              \/ stage[c] \in {"backfilling", "settingL1"} /\ val'[c] = val[c]
            BY <2>2 DEF Flow, CallsFlow
        <3> QED
            BY <1>2, <1>3, <3>1, <3>2
    <2> QED
        BY <2>1, <2>2 DEF Covered
<1>7. AllFine'
    <2>1. ASSUME NEW k \in Keys
          PROVE  /\ Fine(k, None) /\ Fine(k, source[k]) /\ Fine(k, source'[k])
                 /\ Fine(k, l1[k]) /\ Fine(k, l2[k])
                 /\ Fine(k, carried[k]) /\ Fine(k, fetched[k])
                 /\ \A c \in Callers : KeyOf[c] = k => Fine(k, val[c])
                 /\ \A v : Fine(k, v) => Fine(k, v)'
        <3>1. source[k] >= settled[k] /\ source'[k] >= settled[k]
            BY <1>3 DEF Past, Flow, SourceFlow
        <3> QED
            BY <1>1, <3>1 DEF Fine, AllFine
    <2>2. ASSUME NEW k \in Keys
          PROVE  /\ Fine(k, l1[k])' /\ Fine(k, l2[k])'
                 /\ Fine(k, carried[k])' /\ Fine(k, fetched[k])'
        <3>1. Fine(k, l1'[k]) /\ Fine(k, l2'[k])
            BY <2>1 DEF Flow, LevelsFlow
        <3>2. Fine(k, carried'[k]) /\ Fine(k, fetched'[k])
            BY <2>1 DEF Flow, LoadsFlow
        <3> QED
            BY <2>1, <3>1, <3>2
    <2>3. ASSUME NEW c \in Callers
          PROVE  Fine(KeyOf[c], val[c])'
        <3>1. Fine(KeyOf[c], val'[c])
            BY <1>2, <2>1 DEF Flow, CallsFlow
        <3> QED
            BY <1>2, <2>1, <3>1
    <2> QED
        BY <2>2, <2>3 DEF AllFine
<1>8. HalfDone'
    <2> SUFFICES ASSUME NEW c \in Callers, NEW k \in Keys, k = KeyOf[c]
                 PROVE  /\ stage'[c] = "settingL1" =>
                            l2'[k] = None \/ l2'[k] >= val'[c] \/ l2'[k] \in crossed'[k]
                        /\ stage'[c] = "droppingL2" =>
                            l1'[k] = None \/ l1'[k] >= val'[c] \/ l1'[k] \in crossed'[k]
        BY <1>2 DEF HalfDone
    <2>1. stage[c] \in {"settingL1", "droppingL2"} =>
            /\ {carried[k], fetched[k]} \subseteq crossed[k] \cup {None}
            /\ \A d \in Callers \ {c} : KeyOf[d] = k => val[d] \in crossed[k] \cup {None}
        BY DEF WritersWrite, Recorded
    <2>2. source'[k] >= val[c]
        BY <1>2, <1>3 DEF Past, Flow, SourceFlow
    <2>3. ASSUME stage'[c] = "settingL1"
          PROVE  l2'[k] = None \/ l2'[k] >= val'[c] \/ l2'[k] \in crossed'[k]
        <3>1. val'[c] = val[c] /\ (stage[c] = "settingL1" \/ l2'[k] = val[c])
            BY <2>3 DEF Flow, CallsFlow
        <3>2. CASE l2'[k] = val[c]
            BY <1>3, <3>1, <3>2
        <3>3. CASE stage[c] = "settingL1"
            <4>1. l2[k] = None \/ l2[k] >= val[c] \/ l2[k] \in crossed[k]
                BY <3>3 DEF HalfDone
            <4>2. \/ l2'[k] \in {None, l2[k], fetched[k], source'[k]}
                  \/ \E d \in Callers \ {c} : KeyOf[d] = k /\ l2'[k] = val[d]
                BY <3>3 DEF Flow, LevelsFlow
            <4> QED
                BY <1>1, <2>1, <2>2, <3>1, <3>3, <4>1, <4>2
        <3> QED
            BY <3>1, <3>2, <3>3
    <2>4. ASSUME stage'[c] = "droppingL2"
          PROVE  l1'[k] = None \/ l1'[k] >= val'[c] \/ l1'[k] \in crossed'[k]
        <3>1. val'[c] = val[c] /\ (stage[c] = "droppingL2" \/ l1'[k] = None)
            BY <2>4 DEF Flow, CallsFlow
        <3>2. CASE stage[c] = "droppingL2"
            <4>1. l1[k] = None \/ l1[k] >= val[c] \/ l1[k] \in crossed[k]
                BY <3>2 DEF HalfDone
            <4>2. \/ l1'[k] \in {None, l1[k], carried[k]}
                  \/ \E d \in Callers \ {c} : KeyOf[d] = k /\ l1'[k] = val[d]
                BY <3>2 DEF Flow, LevelsFlow
            <4> QED
                BY <1>1, <2>1, <3>1, <3>2, <4>1, <4>2
        <3> QED
            BY <3>1, <3>2
    <2> QED
        BY <2>3, <2>4
<1> QED
    BY <1>1, <1>4, <1>5, <1>6, <1>7, <1>8, <1>9

-----------------------------------------------------------------------------
(* What the parts of a step do, key by key and caller by caller.           *)

LEMMA PutL1Facts ==
    ASSUME Types, NEW k \in Keys, NEW v \in Nat \ {None}, PutL1(k, v)
    PROVE  /\ l1' \in [Keys -> Nat]
           /\ l1'[k] = v
           /\ \A j \in Keys \ {k} : l1'[j] \in {None, l1[j]}
           /\ expired' \subseteq {j \in Keys : l1'[j] # None}
<1>1. None \in Nat
    BY DEF None
<1>2. CASE l1' = [l1 EXCEPT ![k] = v] /\ expired' \subseteq expired
    BY <1>1, <1>2 DEF Types
<1>3. CASE l1' = [l1 EXCEPT ![Victim] = None, ![k] = v] /\ expired' = expired \ {Victim}
    BY <1>1, <1>3 DEF Types
<1> QED
    BY <1>2, <1>3 DEF PutL1

LEMMA PutL2Facts ==
    ASSUME Types, NEW k \in Keys, NEW v \in Nat, PutL2(k, v)
    PROVE  /\ l2' \in [Keys -> Nat] /\ newest' \in [Keys -> Nat]
           /\ l2'[k] = v
           /\ newest'[k] \in {newest[k], v} /\ newest'[k] >= newest[k] /\ v <= newest'[k]
           /\ \A j \in Keys \ {k} : l2'[j] = l2[j] /\ newest'[j] = newest[j]
BY DEF PutL2, Types

\* The call of c returns.
LEMMA DoneFacts ==
    ASSUME Types, NEW c \in Callers, Done(c)
    PROVE  /\ op' \in [Callers -> Operations \cup {"none"}]
           /\ stage' \in [Callers -> {"idle", "readingL2", "backfilling", "answered", "missed",
                     "waiting", "settingL2", "settingL1", "droppingL1", "droppingL2"}]
           /\ val' \in [Callers -> Nat] /\ floor' \in [Callers -> Nat]
           /\ stage'[c] = "idle" /\ val'[c] = None /\ floor'[c] = None
           /\ \A d \in Callers \ {c} :
                /\ op'[d] = op[d] /\ stage'[d] = stage[d]
                /\ val'[d] = val[d] /\ floor'[d] = floor[d]
BY DEF Done, Types, None

\* The load of k returns v, or an error, to those who wait.
LEMMA LoadReturnFacts ==
    ASSUME Types, NEW k \in Keys, NEW v \in Nat, LoadReturn(k, v)
    PROVE  /\ load' \in [Keys -> {"none", "looking", "readingL2", "backfilling", "asking",
                    "loadingL2", "filling"}]
           /\ carried' \in [Keys -> Nat] /\ leader' \in [Keys -> Callers \cup {Nobody}]
           /\ op' \in [Callers -> Operations \cup {"none"}]
           /\ stage' \in [Callers -> {"idle", "readingL2", "backfilling", "answered", "missed",
                     "waiting", "settingL2", "settingL1", "droppingL1", "droppingL2"}]
           /\ val' \in [Callers -> Nat] /\ floor' \in [Callers -> Nat]
           /\ load'[k] = "none" /\ carried'[k] = None
           /\ \A j \in Keys \ {k} : load'[j] = load[j] /\ carried'[j] = carried[j]
           /\ \A c \in Callers :
                \/ /\ op'[c] = op[c] /\ stage'[c] = stage[c]
                   /\ val'[c] = val[c] /\ floor'[c] = floor[c]
                \/ /\ KeyOf[c] = k /\ stage'[c] \in {"idle", "answered"}
                   /\ val'[c] = v /\ floor'[c] \in {None, floor[c]}
                   /\ stage'[c] = "answered" => v # None
<1> DEFINE W == Waiters(k)
           failed == v = None
<1>1. /\ load' = [load EXCEPT ![k] = "none"]
      /\ carried' = [carried EXCEPT ![k] = None]
      /\ leader' = [leader EXCEPT ![k] = Nobody]
      /\ stage' = [c \in Callers |-> IF c \notin W THEN stage[c]
                                     ELSE IF failed THEN "idle" ELSE "answered"]
      /\ op' = [c \in Callers |-> IF c \in W /\ failed THEN "none" ELSE op[c]]
      /\ val' = [c \in Callers |-> IF c \in W THEN v ELSE val[c]]
      /\ floor' = [c \in Callers |-> IF c \in W /\ failed THEN None ELSE floor[c]]
    BY DEF LoadReturn
<1>2. \A c \in W : KeyOf[c] = k
    BY DEF Waiters
<1> HIDE DEF W
<1>3. /\ load' \in [Keys -> {"none", "looking", "readingL2", "backfilling", "asking",
                    "loadingL2", "filling"}]
      /\ carried' \in [Keys -> Nat] /\ leader' \in [Keys -> Callers \cup {Nobody}]
    BY <1>1 DEF Types, None
<1>4. /\ op' \in [Callers -> Operations \cup {"none"}]
      /\ stage' \in [Callers -> {"idle", "readingL2", "backfilling", "answered", "missed",
                     "waiting", "settingL2", "settingL1", "droppingL1", "droppingL2"}]
    BY <1>1 DEF Types
<1>5. val' \in [Callers -> Nat] /\ floor' \in [Callers -> Nat]
    BY <1>1 DEF Types, None
<1>6. /\ load'[k] = "none" /\ carried'[k] = None
      /\ \A j \in Keys \ {k} : load'[j] = load[j] /\ carried'[j] = carried[j]
    BY <1>1 DEF Types
<1>7. \A c \in Callers :
        \/ /\ op'[c] = op[c] /\ stage'[c] = stage[c]
           /\ val'[c] = val[c] /\ floor'[c] = floor[c]
        \/ /\ KeyOf[c] = k /\ stage'[c] \in {"idle", "answered"}
           /\ val'[c] = v /\ floor'[c] \in {None, floor[c]}
           /\ stage'[c] = "answered" => v # None
    BY <1>1, <1>2
<1> QED
    BY <1>3, <1>4, <1>5, <1>6, <1>7

\* The counter of faults.
LEMMA FaultsCount ==
    ASSUME Types, UNCHANGED faults \/ Fault
    PROVE  faults' \in 0..MaxFaults
BY BoundsAssumption DEF Types, Fault

\* Levels, loads and callers that a step leaves alone.
LEMMA LevelsStay ==
    ASSUME Invariant, UNCHANGED <<l1, l2, newest>>
    PROVE  LevelsFlow
BY DEF Invariant, Types, Covered, LevelsFlow

LEMMA LoadsStay ==
    ASSUME UNCHANGED <<load, carried, l2load, fetched>>
    PROVE  LoadsFlow
BY DEF LoadsFlow

LEMMA CallsStay ==
    ASSUME UNCHANGED <<op, stage, val, floor>>
    PROVE  CallsFlow
BY DEF CallsFlow

LEMMA SourceStays ==
    ASSUME Invariant, UNCHANGED source
    PROVE  SourceFlow
BY DEF Invariant, Types, SourceFlow

\* A call moves on, or returns.
LEMMA CallMoves ==
    ASSUME Types, NEW c \in Callers, NEW next, NEW v,
           \A d \in Callers \ {c} :
                /\ op'[d] = op[d] /\ stage'[d] = stage[d]
                /\ val'[d] = val[d] /\ floor'[d] = floor[d],
           stage'[c] = next, val'[c] = v, floor'[c] \in {None, floor[c], settled[KeyOf[c]]},
           next \in WriteStages =>
                op'[c] \in {"Set", "Delete"} \/ (stage[c] \in WriteStages /\ op'[c] = op[c]),
           v \in {None, val[c], l1[KeyOf[c]], l2[KeyOf[c]], carried[KeyOf[c]], source'[KeyOf[c]]},
           next \in Holding => v # None \/ (stage[c] \in Holding /\ v = val[c]),
           next = "backfilling" => v = l2[KeyOf[c]],
           next = "settingL1" => v = val[c] /\ l2'[KeyOf[c]] = val[c],
           next = "droppingL2" => v = val[c] /\ l1'[KeyOf[c]] = None
    PROVE  CallsFlow
BY DEF CallsFlow
-----------------------------------------------------------------------------
(* The steps that do not end a Set or Delete.                              *)

Quiet == OtherTypes' /\ Flow /\ settled' = settled

\* Reads of the levels by a caller.
LEMMA LookupFlows ==
    ASSUME Invariant, NEW c \in Callers, NEW o \in {"Get", "GetOrSet"}, Lookup(c, o)
    PROVE  Quiet
<1> USE DEF Invariant
<1> DEFINE k == KeyOf[c]
<1>1. k \in Keys
    BY CallerAssumption
<1>2. /\ op' = [op EXCEPT ![c] = o]
      /\ floor' = [floor EXCEPT ![c] = settled[k]]
      /\ UNCHANGED <<source, l1, order, expired, level2, load, carried, leader, l2load, fetched, faults, settled>>
    BY DEF Lookup, OnHit, level1, loads, inL2
<1>3. PICK next \in {"answered", "readingL2"}, v \in {val[c], l1[k]} :
            /\ stage' = [stage EXCEPT ![c] = next] /\ val' = [val EXCEPT ![c] = v]
            /\ next = "answered" => v # None
    <2>1. CASE Hit(k)
        BY <2>1 DEF Lookup, Hit
    <2>2. CASE ~Hit(k)
        <3>1. stage' = [stage EXCEPT ![c] = "readingL2"] /\ val' = [val EXCEPT ![c] = val[c]]
            BY <2>2 DEF Lookup, Types
        <3> QED
            BY <3>1
    <2> QED
        BY <2>1, <2>2
<1>4. v \in Nat
    BY <1>1 DEF Types
<1>5. OtherTypes'
    BY <1>1, <1>2, <1>3, <1>4 DEF Types, OtherTypes, Operations, level2
<1>6. CallsFlow
    <2>1. \A d \in Callers \ {c} :
            /\ op'[d] = op[d] /\ stage'[d] = stage[d]
            /\ val'[d] = val[d] /\ floor'[d] = floor[d]
        BY <1>2, <1>3 DEF Types
    <2>2. stage'[c] = next /\ val'[c] = v /\ floor'[c] = settled[k]
        BY <1>2, <1>3 DEF Types
    <2> QED
        BY <1>3, <2>1, <2>2, CallMoves DEF WriteStages, Holding
<1> QED
    BY <1>2, <1>5, <1>6, LevelsStay, LoadsStay, SourceStays DEF Quiet, Flow, level2

LEMMA ReadL2Flows ==
    ASSUME Invariant, NEW c \in Callers, ReadL2(c)
    PROVE  Quiet
<1> USE DEF Invariant
<1> DEFINE k == KeyOf[c]
<1>1. k \in Keys
    BY CallerAssumption
<1>2. UNCHANGED <<source, l1, order, expired, level2, load, carried, leader, l2load, fetched, settled>>
    BY DEF ReadL2, level1, loads, inL2
<1>3. faults' \in 0..MaxFaults
    BY FaultsCount DEF ReadL2
<1>4. CASE Done(c)
    <2>1. OtherTypes'
        BY <1>2, <1>3, <1>4, DoneFacts DEF Types, OtherTypes, level2
    <2>2. CallsFlow
        BY <1>4, DoneFacts, CallMoves DEF WriteStages, Holding
    <2> QED
        BY <1>2, <2>1, <2>2, LevelsStay, LoadsStay, SourceStays DEF Quiet, Flow, level2
<1>5. ASSUME NEW next \in {"backfilling", "answered", "missed"}, NEW v \in {None, l2[k]},
             Goto(c, next, v),
             next = "backfilling" => v = l2[k], next # "missed" => v # None
      PROVE  Quiet
    <2>1. /\ stage' = [stage EXCEPT ![c] = next] /\ val' = [val EXCEPT ![c] = v]
          /\ UNCHANGED <<op, floor>>
        BY <1>5 DEF Goto
    <2>2. v \in Nat
        BY <1>1 DEF Types, None
    <2>3. OtherTypes'
        BY <1>2, <1>3, <2>1, <2>2 DEF Types, OtherTypes, level2
    <2>4. /\ stage'[c] = next /\ val'[c] = v /\ floor'[c] = floor[c]
          /\ \A d \in Callers \ {c} :
                /\ op'[d] = op[d] /\ stage'[d] = stage[d]
                /\ val'[d] = val[d] /\ floor'[d] = floor[d]
        BY <2>1 DEF Types
    <2>5. CallsFlow
        BY <1>5, <2>4, CallMoves DEF WriteStages, Holding
    <2> QED
        BY <1>2, <2>3, <2>5, LevelsStay, LoadsStay, SourceStays DEF Quiet, Flow, level2
<1> QED
    BY <1>4, <1>5 DEF ReadL2

LEMMA BackfillFlows ==
    ASSUME Invariant, NEW c \in Callers, Backfill(c)
    PROVE  Quiet
<1> USE DEF Invariant
<1> DEFINE k == KeyOf[c]
<1>1. k \in Keys /\ val[c] \in Nat \ {None}
    BY CallerAssumption DEF Types, Carrying, Holding, Backfill
<1>2. /\ stage[c] = "backfilling" /\ PutL1(k, val[c])
      /\ stage' = [stage EXCEPT ![c] = "answered"] /\ val' = [val EXCEPT ![c] = val[c]]
      /\ UNCHANGED <<source, l2, newest, op, floor, load, carried, leader, l2load, fetched, faults, settled>>
    BY DEF Backfill, Goto, level2, loads, inL2
<1>3. OtherTypes'
    BY <1>1, <1>2, PutL1Facts DEF Types, OtherTypes
<1>4. LevelsFlow
    <2>1. l1'[k] = val[c] /\ \A j \in Keys \ {k} : l1'[j] \in {None, l1[j]}
        BY <1>1, <1>2, PutL1Facts
    <2> QED
        BY <1>2, <2>1 DEF LevelsFlow, Covered, Types
<1>5. /\ stage'[c] = "answered" /\ val'[c] = val[c] /\ floor'[c] = floor[c]
      /\ \A d \in Callers \ {c} :
            /\ op'[d] = op[d] /\ stage'[d] = stage[d]
            /\ val'[d] = val[d] /\ floor'[d] = floor[d]
    BY <1>2 DEF Types
<1>6. CallsFlow
    BY <1>2, <1>5, CallMoves DEF WriteStages, Holding
<1> QED
    BY <1>2, <1>3, <1>4, <1>6, LoadsStay, SourceStays DEF Quiet, Flow

\* A call returns, joins a load, or leaves it.
LEMMA WaitFlows ==
    ASSUME Invariant, NEW c \in Callers, Return(c) \/ Join(c) \/ Leave(c)
    PROVE  Quiet
<1> USE DEF Invariant
<1>1. KeyOf[c] \in Keys
    BY CallerAssumption
<1>2. UNCHANGED <<source, l1, order, expired, level2, carried, l2load, fetched, settled>>
    BY DEF Return, Join, Leave, level1, loads, inL2
<1>3. faults' \in 0..MaxFaults
    BY FaultsCount DEF Return, Join, Leave
<1>4. /\ load' = load \/ load' = [load EXCEPT ![KeyOf[c]] = "looking"]
      /\ leader' \in [Keys -> Callers \cup {Nobody}]
    BY <1>1 DEF Return, Join, Leave, Types, loads, inL2
<1>5. /\ load' \in [Keys -> {"none", "looking", "readingL2", "backfilling", "asking",
                    "loadingL2", "filling"}]
      /\ \A k \in Keys : load'[k] \in Filling => load[k] \in Filling
    BY <1>4 DEF Types, Filling
<1>6. LoadsFlow
    BY <1>2, <1>5 DEF LoadsFlow
<1>7. CASE Done(c)
    <2>1. OtherTypes'
        BY <1>2, <1>3, <1>4, <1>5, <1>7, DoneFacts DEF Types, OtherTypes, level2
    <2>2. CallsFlow
        BY <1>7, DoneFacts, CallMoves DEF WriteStages, Holding
    <2> QED
        BY <1>2, <1>6, <2>1, <2>2, LevelsStay, SourceStays DEF Quiet, Flow, level2
<1>8. CASE Goto(c, "waiting", None)
    <2>1. /\ stage' = [stage EXCEPT ![c] = "waiting"] /\ val' = [val EXCEPT ![c] = None]
          /\ UNCHANGED <<op, floor>>
        BY <1>8 DEF Goto
    <2>2. OtherTypes'
        BY <1>2, <1>3, <1>4, <1>5, <2>1 DEF Types, OtherTypes, level2, None
    <2>3. /\ stage'[c] = "waiting" /\ val'[c] = None /\ floor'[c] = floor[c]
          /\ \A d \in Callers \ {c} :
                /\ op'[d] = op[d] /\ stage'[d] = stage[d]
                /\ val'[d] = val[d] /\ floor'[d] = floor[d]
        BY <2>1 DEF Types
    <2>4. CallsFlow
        BY <2>3, CallMoves DEF WriteStages, Holding
    <2> QED
        BY <1>2, <1>6, <2>2, <2>4, LevelsStay, SourceStays DEF Quiet, Flow, level2
<1> QED
    BY <1>7, <1>8 DEF Return, Join, Leave

\* L2 gets a version from the load, a Set or the datum, or loses its own.
LEMMA PutL2Flows ==
    ASSUME Invariant, NEW k \in Keys, NEW v \in Nat, PutL2(k, v), UNCHANGED l1,
           \/ v \in {None, fetched[k], source'[k]}
           \/ \E d \in Callers : KeyOf[d] = k /\ stage[d] = "settingL2" /\ v = val[d]
    PROVE  LevelsFlow
<1>1. /\ l2'[k] = v
      /\ newest'[k] \in {newest[k], v} /\ newest'[k] >= newest[k] /\ v <= newest'[k]
      /\ \A j \in Keys \ {k} : l2'[j] = l2[j] /\ newest'[j] = newest[j]
    BY PutL2Facts DEF Invariant
<1>2. \A j \in Keys : l2[j] <= newest[j] /\ newest[j] >= newest[j]
    BY DEF Invariant, Types, Covered
<1> QED
    BY <1>1, <1>2 DEF LevelsFlow

\* A change of the datum, and the call that tells the cache.
LEMMA WriteFlows ==
    ASSUME Invariant, NEW c \in Callers, NEW o \in {"Set", "Delete"}, Write(c, o)
    PROVE  Quiet
<1> USE DEF Invariant
<1> DEFINE k == KeyOf[c]
<1>1. k \in Keys
    BY CallerAssumption
<1>2. PICK next \in {"settingL2", "droppingL1"} : next = First(o)
    BY DEF First
<1>3. /\ source' = [source EXCEPT ![k] = source[k] + 1]
      /\ op' = [op EXCEPT ![c] = o]
      /\ stage' = [stage EXCEPT ![c] = next]
      /\ val' = [val EXCEPT ![c] = source[k] + 1]
      /\ UNCHANGED <<l1, order, expired, l2, newest, load, carried, leader, l2load, fetched, faults, settled, floor>>
    BY <1>2 DEF Write, level1, level2, loads, inL2
<1>4. source[k] + 1 \in Nat \ {0}
    BY <1>1 DEF Types
<1>5. OtherTypes'
    BY <1>1, <1>3, <1>4 DEF Types, OtherTypes, Operations
<1>6. source'[k] = source[k] + 1 /\ SourceFlow
    BY <1>1, <1>3 DEF SourceFlow, Types
<1>7. /\ op'[c] = o /\ stage'[c] = next /\ val'[c] = source[k] + 1 /\ floor'[c] = floor[c]
      /\ \A d \in Callers \ {c} :
            /\ op'[d] = op[d] /\ stage'[d] = stage[d]
            /\ val'[d] = val[d] /\ floor'[d] = floor[d]
    BY <1>3 DEF Types
<1>8. CallsFlow
    BY <1>4, <1>6, <1>7, CallMoves DEF WriteStages, Holding, None
<1> QED
    BY <1>3, <1>5, <1>6, <1>8, LevelsStay, LoadsStay DEF Quiet, Flow

LEMMA SetL2Flows ==
    ASSUME Invariant, NEW c \in Callers, SetL2(c)
    PROVE  Quiet
<1> USE DEF Invariant
<1> DEFINE k == KeyOf[c]
<1>1. k \in Keys /\ val[c] \in Nat
    BY CallerAssumption DEF Types
<1>2. stage[c] = "settingL2" /\ UNCHANGED <<source, l1, order, expired, load, carried, leader, l2load, fetched, settled>>
    BY DEF SetL2, level1, loads, inL2
<1>3. faults' \in 0..MaxFaults
    BY FaultsCount DEF SetL2, PutL2Fails
<1>4. PutL2(k, val[c]) \/ UNCHANGED <<l2, newest>>
    BY DEF SetL2, PutL2Fails, level2
<1>5. l2' \in [Keys -> Nat] /\ newest' \in [Keys -> Nat]
    BY <1>1, <1>4, PutL2Facts DEF Types
<1>6. LevelsFlow
    BY <1>1, <1>2, <1>4, PutL2Flows, LevelsStay
<1>7. CASE Done(c)
    <2>1. OtherTypes'
        BY <1>2, <1>3, <1>5, <1>7, DoneFacts DEF Types, OtherTypes
    <2>2. CallsFlow
        BY <1>7, DoneFacts, CallMoves DEF WriteStages, Holding
    <2> QED
        BY <1>2, <1>6, <2>1, <2>2, LoadsStay, SourceStays DEF Quiet, Flow
<1>8. CASE PutL2(k, val[c]) /\ Goto(c, "settingL1", val[c])
    <2>1. /\ stage' = [stage EXCEPT ![c] = "settingL1"] /\ val' = [val EXCEPT ![c] = val[c]]
          /\ UNCHANGED <<op, floor>>
        BY <1>8 DEF Goto
    <2>2. OtherTypes'
        BY <1>1, <1>2, <1>3, <1>5, <2>1 DEF Types, OtherTypes
    <2>3. /\ stage'[c] = "settingL1" /\ val'[c] = val[c] /\ floor'[c] = floor[c] /\ op'[c] = op[c]
          /\ \A d \in Callers \ {c} :
                /\ op'[d] = op[d] /\ stage'[d] = stage[d]
                /\ val'[d] = val[d] /\ floor'[d] = floor[d]
        BY <2>1 DEF Types
    <2>4. l2'[k] = val[c]
        BY <1>1, <1>8, PutL2Facts
    <2>5. CallsFlow
        BY <1>2, <2>3, <2>4, CallMoves DEF WriteStages, Holding
    <2> QED
        BY <1>2, <1>6, <2>2, <2>5, LoadsStay, SourceStays DEF Quiet, Flow
<1> QED
    BY <1>7, <1>8 DEF SetL2

LEMMA DeleteL1Flows ==
    ASSUME Invariant, NEW c \in Callers, DeleteL1(c)
    PROVE  Quiet
<1> USE DEF Invariant
<1> DEFINE k == KeyOf[c]
<1>1. k \in Keys /\ val[c] \in Nat
    BY CallerAssumption DEF Types
<1>2. /\ stage[c] = "droppingL1"
      /\ l1' = [l1 EXCEPT ![k] = None] /\ expired' = expired \ {k}
      /\ stage' = [stage EXCEPT ![c] = "droppingL2"] /\ val' = [val EXCEPT ![c] = val[c]]
      /\ UNCHANGED <<source, l2, newest, op, floor, load, carried, leader, l2load, fetched, faults, settled>>
    BY DEF DeleteL1, DropL1, Goto, level2, loads, inL2
<1>3. OtherTypes'
    BY <1>1, <1>2 DEF Types, OtherTypes, None
<1>4. LevelsFlow
    BY <1>1, <1>2 DEF LevelsFlow, Covered, Types
<1>5. /\ stage'[c] = "droppingL2" /\ val'[c] = val[c] /\ floor'[c] = floor[c] /\ op'[c] = op[c]
      /\ \A d \in Callers \ {c} :
            /\ op'[d] = op[d] /\ stage'[d] = stage[d]
            /\ val'[d] = val[d] /\ floor'[d] = floor[d]
    BY <1>2 DEF Types
<1>6. l1'[k] = None
    BY <1>1, <1>2 DEF Types
<1>7. CallsFlow
    BY <1>2, <1>5, <1>6, CallMoves DEF WriteStages, Holding
<1> QED
    BY <1>2, <1>3, <1>4, <1>7, LoadsStay, SourceStays DEF Quiet, Flow

\* The second half of a Delete fails.
LEMMA DeleteL2FailsFlows ==
    ASSUME Invariant, NEW c \in Callers, PutL2Fails(KeyOf[c], None), Done(c),
           UNCHANGED <<source, level1, loads, settled>>
    PROVE  Quiet
<1> USE DEF Invariant
<1> DEFINE k == KeyOf[c]
<1>1. k \in Keys /\ None \in Nat
    BY CallerAssumption DEF None
<1>2. PutL2(k, None) \/ UNCHANGED <<l2, newest>>
    BY DEF PutL2Fails, level2
<1>3. UNCHANGED <<l1, order, expired, load, carried, leader, l2load, fetched>>
    BY DEF level1, loads, inL2
<1>4. l2' \in [Keys -> Nat] /\ newest' \in [Keys -> Nat] /\ faults' \in 0..MaxFaults
    BY <1>1, <1>2, PutL2Facts, FaultsCount DEF Types, PutL2Fails
<1>5. LevelsFlow
    BY <1>1, <1>2, <1>3, PutL2Flows, LevelsStay
<1>6. OtherTypes'
    BY <1>3, <1>4, DoneFacts DEF Types, OtherTypes
<1>7. CallsFlow
    BY DoneFacts, CallMoves DEF WriteStages, Holding
<1> QED
    BY <1>3, <1>5, <1>6, <1>7, LoadsStay, SourceStays DEF Quiet, Flow

\* The types of what loads and callers keep.
LoadTypes ==
    /\ load \in [Keys -> {"none", "looking", "readingL2", "backfilling", "asking",
                    "loadingL2", "filling"}]
    /\ carried \in [Keys -> Nat]
    /\ leader \in [Keys -> Callers \cup {Nobody}]

\* What LoadsFlow says of the load, L2's own aside.
OuterFlow ==
    \A k \in Keys :
        /\ carried'[k] \in {None, carried[k], l2[k], fetched[k]}
        /\ load'[k] \in Filling =>
             /\ carried'[k] = l2'[k] \/ (load[k] \in Filling /\ carried'[k] = carried[k])
             /\ carried'[k] # None \/ (load[k] \in Filling /\ carried'[k] = carried[k])

CallTypes ==
    /\ op \in [Callers -> Operations \cup {"none"}]
    /\ stage \in [Callers -> {"idle", "readingL2", "backfilling", "answered", "missed",
                     "waiting", "settingL2", "settingL1", "droppingL1", "droppingL2"}]
    /\ val \in [Callers -> Nat]
    /\ floor \in [Callers -> Nat]

\* The load of a key returns a version of the key, or an error.
LEMMA LoadReturnFlows ==
    ASSUME Invariant, NEW k \in Keys, NEW v \in {None, l1[k], l2[k], carried[k]}, LoadReturn(k, v)
    PROVE  LoadTypes' /\ CallTypes' /\ OuterFlow /\ CallsFlow
<1> USE DEF Invariant
<1>1. v \in Nat
    BY DEF Types, None
<1>2. LoadTypes' /\ CallTypes'
    BY <1>1, LoadReturnFacts DEF LoadTypes, CallTypes
<1>3. OuterFlow
    BY <1>1, LoadReturnFacts DEF OuterFlow, Filling
<1>4. CallsFlow
    <2> SUFFICES ASSUME NEW c \in Callers, NEW j \in Keys, j = KeyOf[c]
                 PROVE  /\ val'[c] \in {None, val[c], l1[j], l2[j], carried[j], source'[j]}
                        /\ floor'[c] \in {None, floor[c], settled[j]}
                        /\ stage'[c] \in WriteStages =>
                             op'[c] \in {"Set", "Delete"} \/ (stage[c] \in WriteStages /\ op'[c] = op[c])
                        /\ stage'[c] \in Holding =>
                             val'[c] # None \/ (stage[c] \in Holding /\ val'[c] = val[c])
                        /\ stage'[c] = "backfilling" =>
                             val'[c] = l2[j] \/ (stage[c] = "backfilling" /\ val'[c] = val[c])
                        /\ stage'[c] = "settingL1" =>
                             val'[c] = val[c] /\ (stage[c] = "settingL1" \/ l2'[j] = val[c])
                        /\ stage'[c] = "droppingL2" =>
                             val'[c] = val[c] /\ (stage[c] = "droppingL2" \/ l1'[j] = None)
        BY CallerAssumption DEF CallsFlow
    <2>1. \/ /\ op'[c] = op[c] /\ stage'[c] = stage[c]
             /\ val'[c] = val[c] /\ floor'[c] = floor[c]
          \/ /\ j = k /\ stage'[c] \in {"idle", "answered"}
             /\ val'[c] = v /\ floor'[c] \in {None, floor[c]}
             /\ stage'[c] = "answered" => v # None
        BY <1>1, LoadReturnFacts
    <2> QED
        BY <2>1 DEF WriteStages, Holding
<1> QED
    BY <1>2, <1>3, <1>4

\* The load of a key goes on.
LEMMA LoadGotoFlows ==
    ASSUME Invariant, NEW k \in Keys,
           NEW next \in {"readingL2", "backfilling", "asking", "loadingL2", "filling"},
           NEW v \in {None, carried[k], l2[k], fetched[k]}, LoadGoto(k, next, v),
           next \in Filling => v = l2'[k] /\ v # None
    PROVE  LoadTypes' /\ CallTypes' /\ OuterFlow /\ CallsFlow
<1> USE DEF Invariant
<1>1. v \in Nat
    BY DEF Types, None
<1>2. /\ load' = [load EXCEPT ![k] = next] /\ carried' = [carried EXCEPT ![k] = v]
      /\ UNCHANGED <<leader, op, stage, val, floor>>
    BY DEF LoadGoto, calls
<1>3. LoadTypes' /\ CallTypes'
    BY <1>1, <1>2 DEF LoadTypes, CallTypes, Types
<1>4. /\ load'[k] = next /\ carried'[k] = v
      /\ \A j \in Keys \ {k} : load'[j] = load[j] /\ carried'[j] = carried[j]
    BY <1>2 DEF Types
<1>5. OuterFlow
    BY <1>4 DEF OuterFlow
<1> QED
    BY <1>2, <1>3, <1>5, CallsStay

\* The steps of a load that leave the levels alone.
LEMMA LoadReadsFlow ==
    ASSUME Invariant, NEW k \in Keys,
           LoadFails(k) \/ LoadLook(k) \/ LoadReadL2(k) \/ LoadAsk(k)
    PROVE  Quiet
<1> USE DEF Invariant
<1>1. UNCHANGED <<source, l1, l2, newest, order, expired, fetched, settled>>
    BY DEF LoadFails, LoadLook, LoadReadL2, LoadAsk, level1, level2, inL2
<1>2. faults' \in 0..MaxFaults
    BY FaultsCount DEF LoadFails, LoadLook, LoadReadL2, LoadAsk
<1>3. \/ l2load' = l2load
      \/ l2load' = [l2load EXCEPT ![k] = "fetching"]
    BY DEF LoadFails, LoadLook, LoadReadL2, LoadAsk, inL2
<1>4. /\ l2load' \in [Keys -> {"none", "fetching", "storing"}]
      /\ \A j \in Keys : l2load'[j] = "storing" => l2load[j] = "storing"
    BY <1>3 DEF Types
<1>5. \/ \E v \in {None, l1[k], l2[k], carried[k]} : LoadReturn(k, v)
      \/ \E v \in {None, carried[k], l2[k], fetched[k]} :
            \E next \in {"readingL2", "backfilling", "asking", "loadingL2", "filling"} :
                LoadGoto(k, next, v) /\ (next \in Filling => v = l2[k] /\ v # None)
    <2>1. CASE LoadFails(k)
        BY <2>1 DEF LoadFails
    <2>2. CASE LoadLook(k)
        <3>1. LoadReturn(k, l1[k]) \/ LoadGoto(k, "readingL2", None)
            BY <2>2 DEF LoadLook
        <3> QED
            BY <3>1 DEF Filling
    <2>3. CASE LoadReadL2(k)
        <3>1. \/ l2[k] # None /\ LoadGoto(k, "backfilling", l2[k])
              \/ LoadReturn(k, l2[k])
              \/ LoadGoto(k, "asking", None)
            BY <2>3 DEF LoadReadL2
        <3> QED
            BY <3>1 DEF Filling
    <2>4. CASE LoadAsk(k)
        <3>1. \/ l2[k] # None /\ LoadGoto(k, "filling", l2[k])
              \/ LoadGoto(k, "loadingL2", None)
            BY <2>4 DEF LoadAsk
        <3> QED
            BY <3>1 DEF Filling
    <2> QED
        BY <2>1, <2>2, <2>3, <2>4
<1>6. LoadTypes' /\ CallTypes' /\ OuterFlow /\ CallsFlow
    BY <1>1, <1>5, LoadReturnFlows, LoadGotoFlows
<1>7. LoadsFlow
    BY <1>1, <1>4, <1>6 DEF LoadsFlow, OuterFlow
<1>8. OtherTypes'
    BY <1>1, <1>2, <1>4, <1>6 DEF Types, OtherTypes, LoadTypes, CallTypes
<1> QED
    BY <1>1, <1>6, <1>7, <1>8, LevelsStay, SourceStays DEF Quiet, Flow

\* The steps of L2's own load.
LEMMA L2FetchFlows ==
    ASSUME Invariant, NEW k \in Keys, L2Fetch(k)
    PROVE  Quiet
<1> USE DEF Invariant
<1>1. /\ l2load' = [l2load EXCEPT ![k] = "storing"] /\ fetched' = [fetched EXCEPT ![k] = source[k]]
      /\ UNCHANGED <<source, l1, order, expired, l2, newest, op, stage, val, floor,
                     load, carried, leader, faults, settled>>
    BY DEF L2Fetch, level1, level2, calls
<1>2. source[k] \in Nat /\ source[k] # None
    BY DEF Types, None
<1>3. OtherTypes'
    BY <1>1, <1>2 DEF Types, OtherTypes
<1>4. LoadsFlow
    BY <1>1, <1>2 DEF LoadsFlow, Types
<1> QED
    BY <1>1, <1>3, <1>4, LevelsStay, CallsStay, SourceStays DEF Quiet, Flow

LEMMA L2LoadEndsFlows ==
    ASSUME Invariant, NEW k \in Keys, L2Store(k) \/ L2LoadFails(k)
    PROVE  Quiet
<1> USE DEF Invariant
<1> DEFINE v == fetched[k]
<1>1. v \in Nat /\ (l2load[k] = "storing" => v # None)
    BY DEF Types, Carrying
<1>2. UNCHANGED <<source, l1, order, expired, settled>>
    BY DEF L2Store, L2LoadFails, level1
<1>3. faults' \in 0..MaxFaults
    BY FaultsCount DEF L2Store, L2LoadFails, PutL2Fails
<1>4. PutL2(k, v) \/ UNCHANGED <<l2, newest>>
    BY DEF L2Store, L2LoadFails, PutL2Fails, level2
<1>5. l2' \in [Keys -> Nat] /\ newest' \in [Keys -> Nat]
    BY <1>1, <1>4, PutL2Facts DEF Types
<1>6. LevelsFlow
    BY <1>1, <1>2, <1>4, PutL2Flows, LevelsStay
<1>7. l2load' = [l2load EXCEPT ![k] = "none"] /\ fetched' = [fetched EXCEPT ![k] = None]
    BY DEF L2Store, L2LoadFails, L2LoadEnds
<1>8. LoadTypes' /\ CallTypes' /\ OuterFlow /\ CallsFlow
    <2>1. CASE UNCHANGED <<calls, load, carried, leader>>
        <3>1. UNCHANGED <<op, stage, val, floor>>
            BY <2>1 DEF calls
        <3> QED
            BY <2>1, <3>1, CallsStay DEF LoadTypes, CallTypes, Types, OuterFlow
    <2>2. CASE L2Store(k) /\ LoadGoto(k, "filling", v)
        <3>1. l2'[k] = v /\ v # None
            BY <1>1, <2>2, PutL2Facts DEF L2Store
        <3> QED
            BY <1>1, <2>2, <3>1, LoadGotoFlows
    <2>3. CASE LoadReturn(k, None)
        BY <2>3, LoadReturnFlows
    <2> QED
        BY <2>1, <2>2, <2>3 DEF L2Store, L2LoadFails
<1>9. l2load' \in [Keys -> {"none", "fetching", "storing"}] /\ fetched' \in [Keys -> Nat]
    BY <1>7 DEF Types, None
<1>10. LoadsFlow
    BY <1>7, <1>8 DEF LoadsFlow, OuterFlow, Types
<1>11. OtherTypes'
    BY <1>2, <1>3, <1>5, <1>8, <1>9 DEF Types, OtherTypes, LoadTypes, CallTypes
<1> QED
    BY <1>2, <1>6, <1>8, <1>10, <1>11, SourceStays DEF Quiet, Flow

LEMMA LoadFillFlows ==
    ASSUME Invariant, NEW k \in Keys, LoadFill(k)
    PROVE  Quiet
<1> USE DEF Invariant
<1> DEFINE v == carried[k]
<1>1. v \in Nat \ {None} /\ load[k] \in Filling
    BY DEF Types, Carrying, LoadFill, Filling
<1>2. PutL1(k, v) /\ LoadReturn(k, v) /\ UNCHANGED <<source, l2, newest, l2load, fetched, faults, settled>>
    BY DEF LoadFill, level2, inL2
<1>3. /\ l1' \in [Keys -> Nat] /\ expired' \subseteq {j \in Keys : l1'[j] # None}
      /\ l1'[k] = v /\ \A j \in Keys \ {k} : l1'[j] \in {None, l1[j]}
    BY <1>1, <1>2, PutL1Facts
<1>4. LevelsFlow
    BY <1>1, <1>2, <1>3 DEF LevelsFlow, Covered, Types
<1>5. LoadTypes' /\ CallTypes' /\ LoadsFlow /\ CallsFlow
    BY <1>2, LoadReturnFlows DEF LoadsFlow, OuterFlow
<1>6. OtherTypes'
    BY <1>2, <1>3, <1>5 DEF Types, OtherTypes, LoadTypes, CallTypes
<1> QED
    BY <1>2, <1>4, <1>5, <1>6, SourceStays DEF Quiet, Flow

\* Time, and other processes.
LEMMA OutsideFlows ==
    ASSUME Invariant, NEW k \in Keys, ExpireL1(k) \/ ExpireL2(k) \/ OtherWrites(k)
    PROVE  Quiet
<1> USE DEF Invariant
<1>1. UNCHANGED <<l1, op, stage, val, floor, load, carried, leader, l2load, fetched, faults, settled>>
    BY DEF ExpireL1, ExpireL2, OtherWrites, level1, calls, loads, inL2
<1>2. LoadsFlow /\ CallsFlow
    BY <1>1, LoadsStay, CallsStay
<1>3. source' = source \/ source' = [source EXCEPT ![k] = source[k] + 1]
    BY DEF ExpireL1, ExpireL2, OtherWrites
<1>4. source' \in [Keys -> Nat \ {0}] /\ SourceFlow
    BY <1>3 DEF Types, SourceFlow
<1>5. expired' \subseteq {j \in Keys : l1[j] # None}
    BY DEF ExpireL1, ExpireL2, OtherWrites, level1, Hit, Types
<1>6. \/ UNCHANGED <<l2, newest>>
      \/ \E v \in {None, source'[k]} : PutL2(k, v)
    <2>1. CASE ExpireL1(k)
        BY <2>1 DEF ExpireL1, level2
    <2>2. CASE ExpireL2(k)
        BY <2>2 DEF ExpireL2
    <2>3. CASE OtherWrites(k)
        <3>1. source'[k] = source[k] + 1
            BY <2>3 DEF OtherWrites, Types
        <3> QED
            BY <2>3, <3>1 DEF OtherWrites
    <2> QED
        BY <2>1, <2>2, <2>3
<1>7. LevelsFlow /\ l2' \in [Keys -> Nat] /\ newest' \in [Keys -> Nat]
    <2>1. CASE UNCHANGED <<l2, newest>>
        BY <1>1, <2>1, LevelsStay DEF Types
    <2>2. ASSUME NEW v \in {None, source'[k]}, PutL2(k, v)
          PROVE  LevelsFlow /\ l2' \in [Keys -> Nat] /\ newest' \in [Keys -> Nat]
        <3>1. v \in Nat
            BY <1>4 DEF None
        <3> QED
            BY <1>1, <2>2, <3>1, PutL2Flows, PutL2Facts
    <2> QED
        BY <1>6, <2>1, <2>2
<1>8. OtherTypes'
    BY <1>1, <1>4, <1>5, <1>7 DEF Types, OtherTypes
<1> QED
    BY <1>1, <1>2, <1>4, <1>7, <1>8 DEF Quiet, Flow

-----------------------------------------------------------------------------
(* The steps that end a Set or Delete without an error: settled moves.     *)

\* The second half of a Set puts the version into L1.
SetHalf(c) ==
    /\ stage[c] = "settingL1"
    /\ l2' = l2 /\ newest' = newest
    /\ l1'[KeyOf[c]] = val[c]
    /\ \A j \in Keys \ {KeyOf[c]} : l1'[j] \in {None, l1[j]}

\* The second half of a Delete empties L2.
DeleteHalf(c) ==
    /\ stage[c] = "droppingL2"
    /\ l1' = l1 /\ newest' = newest
    /\ l2'[KeyOf[c]] = None
    /\ \A j \in Keys \ {KeyOf[c]} : l2'[j] = l2[j]

\* Whatever is older than the version that settles now crossed it.
LEMMA SettlingKeeps ==
    ASSUME Invariant, OtherTypes', Watch, NEW c \in Callers, Settle(c),
           SetHalf(c) \/ DeleteHalf(c), UNCHANGED <<source, load, carried, l2load, fetched>>
    PROVE  Invariant'
<1> USE DEF Invariant
<1> DEFINE k == KeyOf[c]
<1>1. Types' /\ Recorded' /\ \A j \in Keys : crossed[j] \subseteq crossed'[j]
    BY Watching
<1>2. k \in Keys /\ \A d \in Callers : KeyOf[d] \in Keys
    BY CallerAssumption
<1>3. /\ \A j \in Keys : {source[j], l1[j], l2[j], l1'[j], l2'[j], carried[j], fetched[j],
                           newest[j], settled[j], settled'[j]} \subseteq Nat
      /\ \A d \in Callers : {val[d], floor[d]} \subseteq Nat
    BY <1>1 DEF Types
<1>4. /\ stage'[c] = "idle" /\ val'[c] = None /\ floor'[c] = None
      /\ \A d \in Callers \ {c} :
            /\ op'[d] = op[d] /\ stage'[d] = stage[d]
            /\ val'[d] = val[d] /\ floor'[d] = floor[d]
    BY DoneFacts DEF Settle
<1>5. /\ settled'[k] = IF val[c] > settled[k] THEN val[c] ELSE settled[k]
      /\ \A j \in Keys \ {k} : settled'[j] = settled[j]
    BY <1>2 DEF Settle, Types
<1>6. newest' = newest /\ UNCHANGED <<source, load, carried, l2load, fetched>>
    BY DEF SetHalf, DeleteHalf
<1>7. Writer(c) /\ val[c] # None
    BY DEF WritersWrite, SetHalf, DeleteHalf, Carrying, Holding
<1>8. WritersWrite'
    BY <1>4 DEF WritersWrite, Writer
<1>9. Carrying'
    BY <1>4, <1>6 DEF Carrying, Holding
<1>10. \A j \in Keys : settled[j] <= settled'[j] /\ settled'[j] <= source[j]
    BY <1>2, <1>3, <1>5 DEF Past
<1>11. Past'
    <2>1. \A d \in Callers : val'[d] <= source[KeyOf[d]] /\ floor'[d] <= settled'[KeyOf[d]]
        BY <1>2, <1>3, <1>4, <1>10 DEF Past, None
    <2> QED
        BY <1>6, <1>10, <2>1 DEF Past
<1>12. Covered'
    <2>1. \A j \in Keys : l2'[j] <= newest[j] /\ l1'[j] <= newest[j]
        BY <1>2, <1>3 DEF Covered, SetHalf, DeleteHalf, None, Types
    <2> QED
        BY <1>4, <1>6, <2>1 DEF Covered
<1>13. /\ {carried[k], fetched[k]} \subseteq crossed[k] \cup {None}
       /\ \A d \in Callers \ {c} : KeyOf[d] = k => val[d] \in crossed[k] \cup {None}
    BY <1>7 DEF Recorded
<1>14. AllFine'
    <2>1. ASSUME NEW v \in Nat, Fine(k, v), v >= val[c] \/ v \in crossed[k] \/ v = None
          PROVE  v = None \/ v >= settled'[k] \/ v \in crossed'[k]
        BY <1>1, <1>2, <1>5, <2>1 DEF Fine
    <2>2. Fine(k, val[c]) /\ Fine(k, l1[k]) /\ Fine(k, l2[k])
        BY <1>2 DEF AllFine
    <2>3. ASSUME NEW v \in {l1'[k], l2'[k]}
          PROVE  v = None \/ v >= settled'[k] \/ v \in crossed'[k]
        <3>1. CASE SetHalf(c)
            <4>1. v \in {val[c], l2[k]}
                BY <2>3, <3>1 DEF SetHalf
            <4>2. l2[k] = None \/ l2[k] >= val[c] \/ l2[k] \in crossed[k]
                BY <3>1 DEF SetHalf, HalfDone
            <4> QED
                BY <1>2, <1>3, <2>1, <2>2, <4>1, <4>2
        <3>2. CASE DeleteHalf(c)
            <4>1. v \in {None, l1[k]}
                BY <2>3, <3>2 DEF DeleteHalf
            <4>2. l1[k] = None \/ l1[k] >= val[c] \/ l1[k] \in crossed[k]
                BY <3>2 DEF DeleteHalf, HalfDone
            <4> QED
                BY <1>2, <1>3, <2>1, <2>2, <4>1, <4>2
        <3> QED
            BY <3>1, <3>2
    <2>4. ASSUME NEW j \in Keys, NEW v, v \in {l1'[j], l2'[j], carried[j], fetched[j]}
          PROVE  v = None \/ v >= settled'[j] \/ v \in crossed'[j]
        <3>1. CASE j = k
            BY <1>1, <1>13, <2>3, <2>4, <3>1
        <3>2. CASE j # k
            <4>1. v \in {None, l1[j], l2[j], carried[j], fetched[j]}
                BY <2>4, <3>2 DEF SetHalf, DeleteHalf
            <4> QED
                BY <1>1, <1>5, <3>2, <4>1 DEF AllFine, Fine
        <3> QED
            BY <3>1, <3>2
    <2>5. ASSUME NEW d \in Callers
          PROVE  \/ val'[d] = None \/ val'[d] >= settled'[KeyOf[d]]
                 \/ val'[d] \in crossed'[KeyOf[d]]
        <3>1. CASE d = c
            BY <1>4, <3>1
        <3>2. CASE d # c /\ KeyOf[d] = k
            BY <1>1, <1>2, <1>4, <1>13, <3>2
        <3>3. CASE d # c /\ KeyOf[d] # k
            BY <1>1, <1>2, <1>4, <1>5, <3>3 DEF AllFine, Fine
        <3> QED
            BY <3>1, <3>2, <3>3
    <2> QED
        BY <1>6, <2>4, <2>5 DEF AllFine, Fine
<1>15. HalfDone'
    <2> SUFFICES ASSUME NEW d \in Callers \ {c}, NEW j \in Keys, j = KeyOf[d]
                 PROVE  /\ stage[d] = "settingL1" =>
                            l2'[j] = None \/ l2'[j] >= val[d] \/ l2'[j] \in crossed'[j]
                        /\ stage[d] = "droppingL2" =>
                            l1'[j] = None \/ l1'[j] >= val[d] \/ l1'[j] \in crossed'[j]
        BY <1>2, <1>4 DEF HalfDone
    <2>1. l2'[j] \in {None, l2[j]} /\ (l1'[j] \in {None, l1[j]} \/ (j = k /\ l1'[j] = val[c]))
        BY DEF SetHalf, DeleteHalf
    <2>2. stage[d] = "droppingL2" /\ j = k => val[c] \in crossed[j] \cup {None}
        BY DEF WritersWrite, Recorded
    <2> QED
        BY <1>1, <2>1, <2>2 DEF HalfDone
<1> QED
    BY <1>1, <1>8, <1>9, <1>11, <1>12, <1>14, <1>15

LEMMA SetL1Keeps ==
    ASSUME Invariant, Watch, NEW c \in Callers, SetL1(c)
    PROVE  Invariant'
<1> USE DEF Invariant
<1> DEFINE k == KeyOf[c]
<1>1. k \in Keys /\ val[c] \in Nat \ {None}
    BY CallerAssumption DEF Types, Carrying, Holding, SetL1
<1>2. /\ stage[c] = "settingL1" /\ PutL1(k, val[c]) /\ Settle(c)
      /\ UNCHANGED <<source, l2, newest, load, carried, leader, l2load, fetched, faults>>
    BY DEF SetL1, level2, loads, inL2
<1>3. settled' \in [Keys -> Nat]
    BY <1>1, <1>2 DEF Settle, Types
<1>4. /\ l1' \in [Keys -> Nat] /\ expired' \subseteq {j \in Keys : l1'[j] # None}
      /\ l1'[k] = val[c] /\ \A j \in Keys \ {k} : l1'[j] \in {None, l1[j]}
    BY <1>1, <1>2, PutL1Facts
<1>5. OtherTypes'
    BY <1>2, <1>3, <1>4, DoneFacts DEF Settle, Types, OtherTypes
<1>6. SetHalf(c)
    BY <1>2, <1>4 DEF SetHalf
<1> QED
    BY <1>2, <1>5, <1>6, SettlingKeeps

LEMMA DeleteL2Keeps ==
    ASSUME Invariant, Watch, NEW c \in Callers, stage[c] = "droppingL2",
           Remove(KeyOf[c]), Settle(c), UNCHANGED <<source, level1, loads, faults>>
    PROVE  Invariant'
<1> USE DEF Invariant
<1> DEFINE k == KeyOf[c]
<1>1. k \in Keys /\ None \in Nat
    BY CallerAssumption DEF None
<1>2. PutL2(k, None) /\ UNCHANGED <<l1, order, expired, load, carried, leader, l2load, fetched>>
    BY DEF Remove, level1, loads, inL2
<1>3. settled' \in [Keys -> Nat]
    BY <1>1 DEF Settle, Types
<1>4. /\ l2' \in [Keys -> Nat] /\ newest' \in [Keys -> Nat]
      /\ l2'[k] = None /\ \A j \in Keys \ {k} : l2'[j] = l2[j]
    BY <1>1, <1>2, PutL2Facts
<1>5. newest' = newest
    <2>1. newest[k] \in Nat
        BY <1>1 DEF Types
    <2>2. (IF None > newest[k] THEN None ELSE newest[k]) = newest[k]
        BY <2>1 DEF None
    <2>3. newest' = [newest EXCEPT ![k] = newest[k]]
        BY <1>2, <2>2 DEF PutL2
    <2> QED
        BY <2>3 DEF Types
<1>6. OtherTypes'
    BY <1>2, <1>3, <1>4, DoneFacts DEF Settle, Types, OtherTypes
<1>7. DeleteHalf(c)
    BY <1>2, <1>4, <1>5 DEF DeleteHalf
<1> QED
    BY <1>2, <1>6, <1>7, SettlingKeeps

-----------------------------------------------------------------------------
(* The list of L1's keys.                                                  *)

\* o lists the keys of present, each once, and no more than n.
Lists(o, present, n) ==
    /\ o \in Seq(Keys)
    /\ Len(o) <= n
    /\ \A i, j \in 1..Len(o) : o[i] = o[j] => i = j
    /\ {o[i] : i \in 1..Len(o)} = present

Present == {k \in Keys : l1[k] # None}

LEMMA ListedLists == Listed <=> Lists(order, Present, MaxEntries)
<1>1. order \in Seq(Keys) => DOMAIN order = 1..Len(order)
    OBVIOUS
<1> QED
    BY <1>1 DEF Listed, Lists, Present

LEMMA ListsListed == Lists(order', Present', MaxEntries) => Listed'
<1>1. order' \in Seq(Keys) => DOMAIN order' = 1..Len(order')
    OBVIOUS
<1> QED
    BY <1>1 DEF Listed, Lists, Present

\* To take the element at a place out of a list.
LEMMA TakeOut ==
    ASSUME NEW n \in Nat, NEW o, NEW present, Lists(o, present, n), NEW at \in 1..Len(o)
    PROVE  Lists(SubSeq(o, 1, at - 1) \o SubSeq(o, at + 1, Len(o)), present \ {o[at]}, n - 1)
<1> DEFINE t == SubSeq(o, 1, at - 1) \o SubSeq(o, at + 1, Len(o))
           a == SubSeq(o, 1, at - 1)
           b == SubSeq(o, at + 1, Len(o))
           m == Len(o) - 1
<1>1. o \in Seq(Keys) /\ Len(o) \in Nat /\ m \in Nat /\ at \in Nat
    BY DEF Lists
<1>2. a \in Seq(Keys) /\ Len(a) = at - 1 /\ \A j \in 1..at - 1 : a[j] = o[j]
    BY <1>1, SubSeqProperties
<1>3. b \in Seq(Keys) /\ Len(b) = Len(o) - at /\ \A j \in 1..Len(o) - at : b[j] = o[at + j]
    BY <1>1, SubSeqProperties
<1> HIDE DEF a, b
<1>4. /\ a \o b \in Seq(Keys)
      /\ Len(a \o b) = Len(a) + Len(b)
      /\ \A j \in 1..Len(a) + Len(b) :
            (a \o b)[j] = IF j <= Len(a) THEN a[j] ELSE b[j - Len(a)]
    BY <1>2, <1>3, ConcatProperties
<1>5. t = a \o b
    BY DEF a, b
<1> HIDE DEF t
<1>6. t \in Seq(Keys) /\ Len(t) = m
    BY <1>1, <1>2, <1>3, <1>4, <1>5
<1>7. \A j \in 1..m : t[j] = IF j < at THEN o[j] ELSE o[j + 1]
    <2> SUFFICES ASSUME NEW j \in 1..m PROVE t[j] = IF j < at THEN o[j] ELSE o[j + 1]
        OBVIOUS
    <2>1. CASE j < at
        BY <1>1, <1>2, <1>3, <1>4, <1>5, <2>1
    <2>2. CASE ~(j < at)
        <3>1. j - Len(a) \in 1..Len(o) - at /\ ~(j <= Len(a)) /\ at + (j - Len(a)) = j + 1
            BY <1>1, <1>2, <2>2
        <3> QED
            BY <1>1, <1>2, <1>3, <1>4, <1>5, <2>2, <3>1
    <2> QED
        BY <2>1, <2>2
<1> DEFINE old(j) == IF j < at THEN j ELSE j + 1
<1>8. \A j \in 1..m : old(j) \in 1..Len(o) /\ old(j) # at /\ t[j] = o[old(j)]
    BY <1>1, <1>7
<1>9. \A i, j \in 1..m : old(i) = old(j) => i = j
    BY <1>1
<1>10. \A i, j \in 1..Len(o) : o[i] = o[j] => i = j
    BY DEF Lists
<1>11. \A i \in 1..Len(o) : o[i] \in present
    BY DEF Lists
<1> HIDE DEF old, m
<1>12. \A i, j \in 1..m : t[i] = t[j] => i = j
    BY <1>8, <1>9, <1>10
<1>13. \A j \in 1..m : t[j] \in present \ {o[at]}
    BY <1>8, <1>10, <1>11
<1> USE DEF m
<1>14. ASSUME NEW k \in present \ {o[at]} PROVE \E j \in 1..m : t[j] = k
    <2>1. PICK i \in 1..Len(o) : o[i] = k
        BY DEF Lists
    <2>2. CASE i < at
        BY <1>1, <1>7, <2>1, <2>2
    <2>3. CASE i > at
        <3>1. i - 1 \in 1..m /\ ~(i - 1 < at) /\ (i - 1) + 1 = i
            BY <1>1, <2>3
        <3> QED
            BY <1>7, <2>1, <3>1
    <2> QED
        BY <1>1, <2>1, <2>2, <2>3
<1>15. {t[j] : j \in 1..m} = present \ {o[at]}
    BY <1>13, <1>14
<1>16. Lists(t, present \ {o[at]}, n - 1)
    BY <1>1, <1>6, <1>12, <1>15 DEF Lists
<1> QED
    BY <1>16 DEF t

\* To add a new key at the end.
LEMMA AddTo ==
    ASSUME NEW n \in Nat, NEW o, NEW present, Lists(o, present, n),
           NEW k \in Keys \ present
    PROVE  Lists(Append(o, k), present \cup {k}, n + 1)
<1> DEFINE t == Append(o, k)
           m == Len(o) + 1
<1>1. o \in Seq(Keys) /\ Len(o) \in Nat /\ m \in Nat
    BY DEF Lists
<1>2. t \in Seq(Keys) /\ Len(t) = m /\ t[m] = k /\ \A j \in 1..Len(o) : t[j] = o[j]
    BY <1>1
<1> HIDE DEF t
<1>3. \A j \in 1..Len(o) : t[j] \in present /\ t[j] # k
    BY <1>2 DEF Lists
<1>4. \A j \in 1..m : j \in 1..Len(o) \/ j = m
    BY <1>1
<1>5. \A i, j \in 1..m : t[i] = t[j] => i = j
    BY <1>2, <1>3, <1>4 DEF Lists
<1>6. {t[j] : j \in 1..m} = present \cup {k}
    <2>1. \A j \in 1..m : t[j] \in present \cup {k}
        BY <1>2, <1>3, <1>4
    <2>2. \A p \in present : \E j \in 1..Len(o) : t[j] = p
        BY <1>2 DEF Lists
    <2>3. 1..Len(o) \subseteq 1..m /\ m \in 1..m
        BY <1>1
    <2> QED
        BY <1>2, <2>1, <2>2, <2>3
<1>7. Lists(t, present \cup {k}, n + 1)
    BY <1>1, <1>2, <1>5, <1>6 DEF Lists
<1> QED
    BY <1>7 DEF t

\* What evictOneLocked and Delete take out of the list.
LEMMA WithoutLists ==
    ASSUME Listed, NEW k \in Keys
    PROVE  /\ Lists(Without(k), Present \ {k}, MaxEntries)
           /\ k \in Present => Lists(Without(k), Present \ {k}, MaxEntries - 1)
<1> DEFINE at == CHOOSE i \in DOMAIN order : order[i] = k
<1>1. Lists(order, Present, MaxEntries) /\ MaxEntries \in Nat
    BY ListedLists, BoundsAssumption
<1>2. DOMAIN order = 1..Len(order)
    BY <1>1 DEF Lists
<1>3. CASE k \in Present
    <2>1. \E i \in DOMAIN order : order[i] = k
        BY <1>1, <1>2, <1>3 DEF Lists
    <2>2. at \in 1..Len(order) /\ order[at] = k
        BY <2>1, <1>2
    <2>3. Without(k) = SubSeq(order, 1, at - 1) \o SubSeq(order, at + 1, Len(order))
        BY <2>1 DEF Without
    <2> HIDE DEF at
    <2>4. Lists(Without(k), Present \ {k}, MaxEntries - 1)
        BY <1>1, <2>2, <2>3, TakeOut
    <2>5. Lists(Without(k), Present \ {k}, MaxEntries)
        BY <1>1, <2>4 DEF Lists
    <2> QED
        BY <2>4, <2>5
<1>4. CASE k \notin Present
    <2>1. ~ \E i \in DOMAIN order : order[i] = k
        BY <1>1, <1>2, <1>4 DEF Lists
    <2>2. Without(k) = order
        BY <2>1 DEF Without
    <2>3. Present \ {k} = Present
        BY <1>4
    <2> QED
        BY <1>1, <1>4, <2>2, <2>3
<1> QED
    BY <1>3, <1>4

\* A set of numbers has a least one: the shortest of the intervals 1..i.
LEMMA LeastExists ==
    ASSUME NEW T \in SUBSET Nat, T # {}
    PROVE  \E i \in T : \A j \in T : i <= j
<1> DEFINE Below == {1..i : i \in T}
           R == StrictSubsetOrdering(Nat)
<1>1. Below # {} /\ Below \subseteq FiniteSubsetsOf(Nat)
    <2>1. \A i \in T : IsFiniteSet(1..i) /\ 1..i \subseteq Nat
        BY FS_Interval
    <2> QED
        BY <2>1 DEF FiniteSubsetsOf
<1>2. IsWellFoundedOn(R, FiniteSubsetsOf(Nat))
    BY FS_StrictSubsetOrderingWellFounded
<1>3. \E x \in Below : \A y \in Below : ~ (<<y, x>> \in R)
    <2> HIDE DEF Below, R
    <2> QED
        BY <1>1, <1>2, WFMin, Zenon
<1>4. PICK i \in T : \A j \in T : ~ (<<1..j, 1..i>> \in R)
    BY <1>3
<1>5. ASSUME NEW j \in T, j < i PROVE FALSE
    <2>1. 1..j \subseteq 1..i /\ i \in 1..i /\ i \notin 1..j /\ 1..i \subseteq Nat
        BY <1>5
    <2> QED
        BY <1>4, <2>1 DEF StrictSubsetOrdering
<1> QED
    BY <1>5

\* evictOneLocked finds an entry.
LEMMA VictimPresent ==
    ASSUME Listed, Len(order) > 0
    PROVE  Victim \in Present
<1> DEFINE gone == {i \in DOMAIN order : order[i] \in expired}
<1>1. order \in Seq(Keys) /\ DOMAIN order = 1..Len(order)
        /\ {order[i] : i \in 1..Len(order)} = Present
    BY ListedLists DEF Lists
<1>2. \A i \in 1..Len(order) : order[i] \in Present
    BY <1>1
<1>3. CASE gone = {}
    <2>1. Victim = order[1] /\ 1 \in 1..Len(order)
        BY <1>1, <1>3 DEF Victim
    <2> QED
        BY <1>2, <2>1
<1>4. CASE gone # {}
    <2>1. gone \subseteq 1..Len(order) /\ gone \subseteq Nat
        BY <1>1
    <2>2. \E i \in gone : \A j \in gone : i <= j
        <3>1. PICK i0 \in gone : TRUE
            BY <1>4
        <3> QED
            BY <2>1, <1>4, LeastExists
    <2>3. (CHOOSE i \in gone : \A j \in gone : i <= j) \in 1..Len(order)
        BY <2>1, <2>2
    <2>4. Victim = order[CHOOSE i \in gone : \A j \in gone : i <= j]
        BY <1>4 DEF Victim
    <2> QED
        BY <1>2, <2>3, <2>4
<1> QED
    BY <1>3, <1>4

LEMMA PutL1Lists ==
    ASSUME Types, Listed, NEW k \in Keys, NEW v \in Nat \ {None}, PutL1(k, v)
    PROVE  Listed'
<1>1. Lists(order, Present, MaxEntries) /\ MaxEntries \in Nat \ {0}
    BY ListedLists, BoundsAssumption
<1>2. l1 \in [Keys -> Nat] /\ v # None
    BY DEF Types
<1>3. SUFFICES Lists(order', Present', MaxEntries)
    BY ListsListed
<1>4. CASE l1[k] # None
    <2>1. order' = order /\ Present' = Present
        BY <1>2, <1>4 DEF PutL1, Present
    <2> QED
        BY <1>1, <2>1
<1>5. CASE l1[k] = None /\ Len(order) < MaxEntries
    <2>1. order' = Append(order, k) /\ Present' = Present \cup {k} /\ k \notin Present
        BY <1>2, <1>5 DEF PutL1, Present
    <2>2. Lists(order, Present, MaxEntries - 1) /\ MaxEntries - 1 \in Nat
        BY <1>1, <1>5 DEF Lists
    <2>3. Lists(order', Present', (MaxEntries - 1) + 1)
        BY <2>1, <2>2, AddTo
    <2> QED
        BY <1>1, <2>3
<1>6. CASE l1[k] = None /\ ~(Len(order) < MaxEntries)
    <2>1. Len(order) > 0
        BY <1>1, <1>6 DEF Lists
    <2>2. Victim \in Present /\ Victim \in Keys
        BY <2>1, VictimPresent DEF Present
    <2>3. Lists(Without(Victim), Present \ {Victim}, MaxEntries - 1) /\ MaxEntries - 1 \in Nat
        BY <1>1, <2>2, WithoutLists
    <2>4. order' = Append(Without(Victim), k)
            /\ l1' = [l1 EXCEPT ![Victim] = None, ![k] = v]
        BY <1>6 DEF PutL1
    <2>5. k \notin Present
        BY <1>6 DEF Present
    <2>6. Present' = (Present \ {Victim}) \cup {k}
        BY <1>2, <2>2, <2>4, <2>5 DEF Present
    <2>7. Lists(order', Present', (MaxEntries - 1) + 1)
        BY <2>3, <2>4, <2>5, <2>6, AddTo
    <2> QED
        BY <1>1, <2>7
<1> QED
    BY <1>4, <1>5, <1>6

LEMMA DropL1Lists ==
    ASSUME Types, Listed, NEW k \in Keys, DropL1(k)
    PROVE  Listed'
<1>1. Lists(Without(k), Present \ {k}, MaxEntries)
    BY WithoutLists
<1>2. order' = Without(k) /\ Present' = Present \ {k}
    BY DEF DropL1, Present, Types
<1> QED
    BY <1>1, <1>2, ListsListed

LEMMA StayListed ==
    ASSUME Listed, UNCHANGED <<l1, order>>
    PROVE  Listed'
BY DEF Listed

-----------------------------------------------------------------------------
(* The theorems.                                                           *)

LEMMA InitInvariant == Init => Invariant
<1> SUFFICES ASSUME Init PROVE Invariant
    OBVIOUS
<1> USE DEF Init, None
<1>1. Types
    BY BoundsAssumption DEF Types
<1>2. \A c \in Callers : KeyOf[c] \in Keys
    BY CallerAssumption
<1>3. WritersWrite /\ Carrying
    BY DEF WritersWrite, Carrying, Holding, Filling
<1>4. Past /\ Covered
    BY <1>2 DEF Past, Covered
<1>5. AllFine
    BY <1>2 DEF AllFine, Fine
<1>6. Recorded /\ HalfDone
    BY <1>2 DEF Recorded, Writer, HalfDone
<1> QED
    BY <1>1, <1>3, <1>4, <1>5, <1>6 DEF Invariant

\* One step per action: all but two only let versions flow.
LEMMA NextInvariant == Invariant /\ [Next]_vars => Invariant'
<1> SUFFICES ASSUME Invariant, [Next]_vars PROVE Invariant'
    OBVIOUS
<1>1. CASE UNCHANGED vars
    BY <1>1 DEF vars, level1, level2, calls, loads, inL2, Invariant, Types, WritersWrite, Writer,
                Carrying, Past, Covered, AllFine, Fine, Recorded, HalfDone
<1>2. CASE Next
    <2>1. Step /\ Watch
        BY <1>2 DEF Next
    <2>2. ASSUME Quiet PROVE Invariant'
        BY <2>1, <2>2, FlowKeeps DEF Quiet
    <2>3. ASSUME NEW c \in Callers,
                 Lookup(c, "Get") \/ Lookup(c, "GetOrSet") \/ ReadL2(c) \/ Backfill(c)
          PROVE  Invariant'
        BY <2>2, <2>3, LookupFlows, ReadL2Flows, BackfillFlows
    <2>4. ASSUME NEW c \in Callers, Return(c) \/ Join(c) \/ Leave(c)
          PROVE  Invariant'
        BY <2>2, <2>4, WaitFlows
    <2>5. ASSUME NEW c \in Callers,
                 Write(c, "Set") \/ Write(c, "Delete") \/ SetL2(c) \/ DeleteL1(c)
          PROVE  Invariant'
        BY <2>2, <2>5, WriteFlows, SetL2Flows, DeleteL1Flows
    <2>6. ASSUME NEW c \in Callers, SetL1(c)
          PROVE  Invariant'
        BY <2>1, <2>6, SetL1Keeps
    <2>7. ASSUME NEW c \in Callers, DeleteL2(c)
          PROVE  Invariant'
        <3>1. stage[c] = "droppingL2" /\ UNCHANGED <<source, level1, loads>>
            BY <2>7 DEF DeleteL2
        <3>2. CASE Remove(KeyOf[c]) /\ Settle(c) /\ UNCHANGED faults
            BY <2>1, <3>1, <3>2, DeleteL2Keeps
        <3>3. CASE PutL2Fails(KeyOf[c], None) /\ Done(c) /\ UNCHANGED settled
            BY <2>2, <3>1, <3>3, DeleteL2FailsFlows
        <3> QED
            BY <2>7, <3>2, <3>3 DEF DeleteL2
    <2>8. ASSUME NEW k \in Keys,
                 LoadFails(k) \/ LoadLook(k) \/ LoadReadL2(k) \/ LoadAsk(k) \/ LoadFill(k)
          PROVE  Invariant'
        BY <2>2, <2>8, LoadReadsFlow, LoadFillFlows
    <2>9. ASSUME NEW k \in Keys, L2Fetch(k) \/ L2LoadFails(k) \/ L2Store(k)
          PROVE  Invariant'
        BY <2>2, <2>9, L2FetchFlows, L2LoadEndsFlows
    <2>10. ASSUME NEW k \in Keys, ExpireL1(k) \/ ExpireL2(k) \/ OtherWrites(k)
           PROVE  Invariant'
        BY <2>2, <2>10, OutsideFlows
    <2> QED
        BY <2>1, <2>3, <2>4, <2>5, <2>6, <2>7, <2>8, <2>9, <2>10 DEF Step
<1> QED
    BY <1>1, <1>2

LEMMA NextListed == Invariant /\ Listed /\ [Next]_vars => Listed'
<1> SUFFICES ASSUME Invariant, Listed, [Next]_vars PROVE Listed'
    OBVIOUS
<1>1. CASE UNCHANGED vars
    BY <1>1, StayListed DEF vars, level1
<1>2. CASE Next
    <2>1. Step /\ Types
        BY <1>2 DEF Next, Invariant
    <2>2. ASSUME NEW c \in Callers,
                 Lookup(c, "Get") \/ Lookup(c, "GetOrSet") \/ ReadL2(c)
                   \/ Return(c) \/ Join(c) \/ Leave(c)
          PROVE  Listed'
        BY <2>2, StayListed DEF level1, Lookup, ReadL2, Return, Join, Leave
    <2>3. ASSUME NEW c \in Callers,
                 Write(c, "Set") \/ Write(c, "Delete") \/ SetL2(c) \/ DeleteL2(c)
          PROVE  Listed'
        BY <2>3, StayListed DEF level1, Write, SetL2, DeleteL2
    <2>4. ASSUME NEW c \in Callers, Backfill(c) \/ SetL1(c)
          PROVE  Listed'
        <3>1. stage[c] \in Holding /\ PutL1(KeyOf[c], val[c])
            BY <2>4 DEF Backfill, SetL1, Holding
        <3>2. val[c] \in Nat \ {None} /\ KeyOf[c] \in Keys
            BY <2>1, <3>1, CallerAssumption DEF Types, Invariant, Carrying
        <3> QED
            BY <2>1, <3>1, <3>2, PutL1Lists
    <2>5. ASSUME NEW c \in Callers, DeleteL1(c)
          PROVE  Listed'
        BY <2>1, <2>5, CallerAssumption, DropL1Lists DEF DeleteL1
    <2>6. ASSUME NEW k \in Keys, LoadFill(k)
          PROVE  Listed'
        <3>1. load[k] \in Filling /\ PutL1(k, carried[k])
            BY <2>6 DEF LoadFill, Filling
        <3>2. carried[k] \in Nat \ {None}
            BY <2>1, <3>1 DEF Types, Invariant, Carrying
        <3> QED
            BY <2>1, <3>1, <3>2, PutL1Lists
    <2>7. ASSUME NEW k \in Keys,
                 LoadFails(k) \/ LoadLook(k) \/ LoadReadL2(k) \/ LoadAsk(k)
          PROVE  Listed'
        BY <2>7, StayListed DEF level1, LoadFails, LoadLook, LoadReadL2, LoadAsk
    <2>8. ASSUME NEW k \in Keys,
                 L2Fetch(k) \/ L2LoadFails(k) \/ L2Store(k)
                   \/ ExpireL1(k) \/ ExpireL2(k) \/ OtherWrites(k)
          PROVE  Listed'
        BY <2>8, StayListed
           DEF level1, L2Fetch, L2LoadFails, L2Store, ExpireL1, ExpireL2, OtherWrites
    <2> QED
        BY <2>1, <2>2, <2>3, <2>4, <2>5, <2>6, <2>7, <2>8 DEF Step
<1> QED
    BY <1>1, <1>2

\* In every state that calls, loads, failures, evictions and other processes
\* lead to, versions lie only where the parts of the invariant say.
THEOREM SafetyInvariant == Spec => []Invariant
BY InitInvariant, NextInvariant, PTL DEF Spec

\* The variables keep their types, and L1 lists its entries, each once and no
\* more than MaxEntries, through every eviction, expiry, Set and Delete.
THEOREM TypeCorrect == Spec => []TypeOK
<1>1. Init => Listed
    <2>1. ASSUME Init PROVE order = <<>> /\ Present = {}
        BY <2>1 DEF Init, Present
    <2> QED
        BY <2>1, BoundsAssumption DEF Listed, Present
<1>2. Init => Invariant /\ Listed
    BY <1>1, InitInvariant
<1>3. Invariant /\ Listed /\ [Next]_vars => (Invariant /\ Listed)'
    BY NextInvariant, NextListed
<1>4. Invariant /\ Listed => TypeOK
    BY DEF Invariant, TypeOK
<1> QED
    BY <1>2, <1>3, <1>4, PTL DEF Spec

\* L1 never has a version that L2 has not had: the order of Set, L2 first, and
\* the loads and copies beside it, keep the authoritative level ahead.
THEOREM L2Authoritative == Spec => []L2First
<1>1. Invariant => L2First
    BY DEF Invariant, Covered, L2First
<1> QED
    BY <1>1, SafetyInvariant, PTL

\* A call that gets a version older than a Set or Delete that returned before
\* it began got one that crossed a change: Get and GetOrSet have no other way
\* to a stale answer, however many callers write at once.
THEOREM StaleReads == Spec => []StaleReadsExplained
<1>1. Invariant => StaleReadsExplained
    <2> SUFFICES ASSUME Invariant, NEW c \in Callers, NEW k \in Keys, k = KeyOf[c],
                        stage[c] = "answered", val[c] < floor[c]
                 PROVE  val[c] \in crossed[k]
        BY CallerAssumption DEF StaleReadsExplained
    <2>1. val[c] # None /\ floor[c] <= settled[k]
        BY DEF Invariant, Carrying, Holding, Past
    <2>2. val[c] \in Nat /\ floor[c] \in Nat /\ settled[k] \in Nat
        BY DEF Invariant, Types
    <2>3. Fine(k, val[c])
        BY DEF Invariant, AllFine
    <2> QED
        BY <2>1, <2>2, <2>3 DEF Fine
<1> QED
    BY <1>1, SafetyInvariant, PTL
=============================================================================
