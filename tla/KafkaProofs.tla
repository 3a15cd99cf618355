----------------------------- MODULE KafkaProofs -----------------------------
(***************************************************************************)
(* Safety of Kafka for any consumers, partitions, log lengths and limits:  *)
(* a committed offset covers settled records only, but for those a second  *)
(* Run passed over, and never moves back.                                  *)
(*                                                                         *)
(* Neither is inductive: a commit says something of all records below one  *)
(* offset, while the step looks at one record.  What carries the proof is  *)
(* that the owner of a partition accounts for everything it polled.        *)
(***************************************************************************)
EXTENDS Kafka, SequenceTheorems, TLAPS

-----------------------------------------------------------------------------
(* The inductive invariant, in named parts.                                *)

\* The records a consumer works on were polled by it, and those of a partition
\* come in order.
BatchOrdered ==
    \A c \in Consumers : \A i \in DOMAIN batch[c] :
        /\ batch[c][i][2] <= position[c][batch[c][i][1]]
        /\ \A j \in DOMAIN batch[c] :
            i < j /\ batch[c][i][1] = batch[c][j][1] => batch[c][i][2] < batch[c][j][2]

\* While it owns the partition, what it works on is not committed yet.
BatchAhead ==
    \A c \in Consumers : \A i \in DOMAIN batch[c] :
        owner[batch[c][i][1]] = c => committed[batch[c][i][1]] < batch[c][i][2]

\* The owner of a partition has polled at least what is committed.
OwnerAhead ==
    \A c \in Consumers, p \in Partitions : owner[p] = c => committed[p] <= position[c][p]

\* A record that waits for its commit is settled.
HeadSettled == \A c \in Consumers : phase[c] = "committing" => Settled(batch[c][1])

\* Whatever the owner of a partition polled is settled, was skipped, or is in
\* its batch, unless Run has just dropped the batch.
PolledAccounted ==
    \A c \in Consumers, r \in Records :
        /\ owner[r[1]] = c
        /\ phase[c] # "returned"
        /\ r[2] <= position[c][r[1]]
        => \/ Settled(r)
           \/ r \in skipped
           \/ \E i \in DOMAIN batch[c] : batch[c][i] = r

Invariant ==
    /\ TypeOK
    /\ BatchOrdered
    /\ BatchAhead
    /\ OwnerAhead
    /\ HeadSettled
    /\ PolledAccounted
    /\ LossExplained

-----------------------------------------------------------------------------
(* Data.                                                                   *)

\* A record is a partition and an offset of its log.
LEMMA RecordShape ==
    /\ \A r \in Records : r[1] \in Partitions /\ r[2] \in 1..LogEnd[r[1]] /\ r = <<r[1], r[2]>>
    /\ \A p \in Partitions : \A o \in 1..LogEnd[p] : <<p, o>> \in Records
    /\ \A p \in Partitions : LogEnd[p] \in Nat
BY ConfigAssumption DEF Records

\* The batch of a poll: n records of one partition, then m of another.
Polled(c, p, q, n, m) == NextRecords(c, p, n) \o NextRecords(c, q, m)

\* They are records, in this order.
LEMMA PolledRecords ==
    ASSUME TypeOK, NEW c \in Consumers, NEW p \in Partitions, NEW q \in Partitions,
           NEW n \in Nat, NEW m \in Nat,
           position[c][p] + n <= LogEnd[p], position[c][q] + m <= LogEnd[q]
    PROVE  /\ Polled(c, p, q, n, m) \in Seq(Records)
           /\ Len(Polled(c, p, q, n, m)) = n + m
           /\ DOMAIN Polled(c, p, q, n, m) = 1..(n + m)
           /\ \A i \in 1..n : Polled(c, p, q, n, m)[i] = <<p, position[c][p] + i>>
           /\ \A i \in (n + 1)..(n + m) :
                Polled(c, p, q, n, m)[i] = <<q, position[c][q] + (i - n)>>
<1> DEFINE polled == Polled(c, p, q, n, m)
           S == NextRecords(c, p, n)
           T == NextRecords(c, q, m)
<1>1. position[c][p] \in Nat /\ position[c][q] \in Nat
    BY DEF TypeOK
<1>2. S \in [1..n -> Records] /\ \A i \in 1..n : S[i] = <<p, position[c][p] + i>>
    <2>1. \A i \in 1..n : <<p, position[c][p] + i>> \in Records
        <3> SUFFICES ASSUME NEW i \in 1..n PROVE <<p, position[c][p] + i>> \in Records
            OBVIOUS
        <3>1. position[c][p] + i \in 1..LogEnd[p]
            BY <1>1, RecordShape
        <3> QED
            BY <3>1, RecordShape
    <2> QED
        BY <2>1 DEF NextRecords
<1>3. T \in [1..m -> Records] /\ \A i \in 1..m : T[i] = <<q, position[c][q] + i>>
    <2>1. \A i \in 1..m : <<q, position[c][q] + i>> \in Records
        <3> SUFFICES ASSUME NEW i \in 1..m PROVE <<q, position[c][q] + i>> \in Records
            OBVIOUS
        <3>1. position[c][q] + i \in 1..LogEnd[q]
            BY <1>1, RecordShape
        <3> QED
            BY <3>1, RecordShape
    <2> QED
        BY <2>1 DEF NextRecords
<1>4. S \in Seq(Records) /\ Len(S) = n
    BY <1>2, SeqDef
<1>5. T \in Seq(Records) /\ Len(T) = m
    BY <1>3, SeqDef
<1> HIDE DEF S, T
<1>6. /\ S \o T \in Seq(Records)
      /\ Len(S \o T) = n + m
      /\ \A i \in 1..(n + m) : (S \o T)[i] = IF i <= n THEN S[i] ELSE T[i - n]
    BY <1>4, <1>5, ConcatProperties
<1>7. polled = S \o T
    BY DEF S, T, Polled
<1> HIDE DEF polled
<1>8. \A i \in 1..n : polled[i] = <<p, position[c][p] + i>>
    BY <1>2, <1>6, <1>7
<1>9. \A i \in (n + 1)..(n + m) : polled[i] = <<q, position[c][q] + (i - n)>>
    <2> SUFFICES ASSUME NEW i \in (n + 1)..(n + m)
                 PROVE  polled[i] = <<q, position[c][q] + (i - n)>>
        OBVIOUS
    <2>1. polled[i] = T[i - n] /\ i - n \in 1..m
        BY <1>6, <1>7
    <2> QED
        BY <2>1, <1>3
<1> QED
    BY <1>6, <1>7, <1>8, <1>9, LenProperties DEF polled

\* The first record of a batch and the rest.
LEMMA HeadAndRest ==
    ASSUME NEW b \in Seq(Records), b # <<>>
    PROVE  /\ Head(b) = b[1] /\ 1 \in DOMAIN b /\ b[1] \in Records
           /\ Tail(b) \in Seq(Records)
           /\ \A i \in DOMAIN Tail(b) : i + 1 \in DOMAIN b /\ Tail(b)[i] = b[i + 1]
           /\ \A i \in DOMAIN b : i # 1 => i - 1 \in DOMAIN Tail(b) /\ Tail(b)[i - 1] = b[i]
           /\ Tail(b) = <<>> <=> ~(Len(b) > 1)
<1>1. Len(b) \in Nat \ {0} /\ DOMAIN b = 1..Len(b)
    BY EmptySeq, LenProperties
<1>2. Tail(b) \in Seq(Records) /\ Len(Tail(b)) = Len(b) - 1
      /\ \A i \in 1..Len(Tail(b)) : Tail(b)[i] = b[i + 1]
    BY HeadTailProperties
<1>3. DOMAIN Tail(b) = 1..(Len(b) - 1)
    BY <1>2, LenProperties
<1>4. Head(b) = b[1] /\ b[1] \in Records
    BY <1>1, ElementOfSeq
<1>5. Tail(b) = <<>> <=> ~(Len(b) > 1)
    <2>1. Tail(b) = <<>> => Len(b) - 1 = 0
        BY <1>2, EmptySeq
    <2>2. Tail(b) # <<>> => Len(b) - 1 \in Nat \ {0}
        BY <1>2, EmptySeq
    <2> QED
        BY <1>1, <2>1, <2>2
<1>6. 1 \in DOMAIN b
    BY <1>1
<1>7. \A i \in DOMAIN Tail(b) : i + 1 \in DOMAIN b /\ Tail(b)[i] = b[i + 1]
    BY <1>1, <1>2, <1>3
<1>8. \A i \in DOMAIN b : i # 1 => i - 1 \in DOMAIN Tail(b) /\ Tail(b)[i - 1] = b[i]
    <2> SUFFICES ASSUME NEW i \in DOMAIN b, i # 1
                 PROVE  i - 1 \in DOMAIN Tail(b) /\ Tail(b)[i - 1] = b[i]
        OBVIOUS
    <2>1. i - 1 \in 1..(Len(b) - 1) /\ (i - 1) + 1 = i
        BY <1>1
    <2> QED
        BY <1>2, <1>3, <2>1
<1> QED
    BY <1>2, <1>4, <1>5, <1>6, <1>7, <1>8

-----------------------------------------------------------------------------
(* What steps have in common.                                              *)

\* Cursors: a step that moves none of them.
LEMMA CursorsKept ==
    ASSUME BatchOrdered, BatchAhead, OwnerAhead, UNCHANGED <<committed, owner, position, batch>>
    PROVE  BatchOrdered' /\ BatchAhead' /\ OwnerAhead'
BY DEF BatchOrdered, BatchAhead, OwnerAhead

\* A step that commits nothing and forgets nothing about records.
LEMMA LossKept ==
    ASSUME LossExplained, UNCHANGED committed,
           handled \subseteq handled', dead \subseteq dead', skipped \subseteq skipped'
    PROVE  LossExplained'
BY DEF LossExplained, Settled

\* The same for what the owners polled, as long as no Run starts again.
LEMMA AccountKept ==
    ASSUME PolledAccounted, UNCHANGED <<owner, position, batch>>,
           handled \subseteq handled', dead \subseteq dead', skipped \subseteq skipped',
           \A d \in Consumers : phase[d] = "returned" => phase'[d] = "returned"
    PROVE  PolledAccounted'
BY DEF PolledAccounted, Settled

\* A consumer that is not processing has no batch, the others have one.
LEMMA BatchWhileProcessing ==
    ASSUME TypeOK, NEW c \in Consumers
    PROVE  /\ batch[c] \in Seq(Records)
           /\ ~Processing(c) => batch[c] = <<>> /\ DOMAIN batch[c] = {}
           /\ Processing(c) => batch[c] # <<>>
<1>1. batch[c] \in Seq(Records) /\ (Processing(c) <=> batch[c] # <<>>)
    BY DEF TypeOK
<1>2. batch[c] = <<>> => DOMAIN batch[c] = {}
    BY <1>1, EmptySeq, LenProperties
<1> QED
    BY <1>1, <1>2

\* Partitions that lose their owner: nobody gains one.
LEMMA OwnersShrink ==
    ASSUME TypeOK, NEW c \in Consumers,
           owner' = [p \in Partitions |-> IF owner[p] = c THEN Nobody ELSE owner[p]]
    PROVE  /\ owner' \in [Partitions -> Consumers \cup {Nobody}]
           /\ \A p \in Partitions : \A d \in Consumers :
                owner'[p] = d => owner[p] = d /\ d # c
BY NobodyAssumption DEF TypeOK

-----------------------------------------------------------------------------
(* The steps.                                                              *)

LEMMA InitInvariant == Init => Invariant
<1> SUFFICES ASSUME Init PROVE Invariant
    OBVIOUS
<1>1. \A c \in Consumers : batch[c] = <<>> /\ DOMAIN batch[c] = {} /\ phase[c] = "down"
    BY DEF Init
<1>2. \A p \in Partitions : committed[p] = 0 /\ owner[p] = Nobody
    BY DEF Init
<1>3. TypeOK
    <2>1. batch \in [Consumers -> Seq(Records)]
        BY EmptySeq DEF Init
    <2>2. \A c \in Consumers : Processing(c) <=> batch[c] # <<>>
        BY <1>1 DEF Processing
    <2>3. /\ committed \in [Partitions -> Nat]
          /\ position \in [Consumers -> [Partitions -> Nat]]
          /\ \A c \in Consumers, p \in Partitions :
                committed[p] <= LogEnd[p] /\ position[c][p] <= LogEnd[p]
        BY RecordShape DEF Init
    <2>4. attempt \in [Consumers -> 0..MaxHandlerRetries] /\ faults \in 0..MaxFaults
        BY ConfigAssumption DEF Init
    <2> QED
        BY <2>1, <2>2, <2>3, <2>4 DEF Init, TypeOK
<1>4. BatchOrdered /\ BatchAhead
    BY <1>1 DEF BatchOrdered, BatchAhead
<1>5. OwnerAhead /\ PolledAccounted
    BY <1>2, RecordShape, NobodyAssumption DEF OwnerAhead, PolledAccounted
<1>6. HeadSettled
    BY <1>1 DEF HeadSettled
<1>7. LossExplained
    BY <1>2, RecordShape DEF LossExplained
<1> QED
    BY <1>3, <1>4, <1>5, <1>6, <1>7 DEF Invariant

\* A client joins.
LEMMA OpenStep ==
    ASSUME Invariant, NEW c \in Consumers, Open(c)
    PROVE  Invariant'
<1> USE DEF Invariant
<1>1. phase' = [phase EXCEPT ![c] = "polling"] /\ phase[c] = "down"
    BY DEF Open, Goto
<1>2. UNCHANGED <<committed, owner, position, batch, attempt, handled, dead, skipped, faults>>
    BY DEF Open, broker, world
<1>3. TypeOK'
    BY <1>1, <1>2 DEF TypeOK, Processing
<1>4. HeadSettled'
    BY <1>1, <1>2 DEF HeadSettled, Settled, TypeOK
<1>5. PolledAccounted'
    BY <1>1, <1>2, AccountKept DEF TypeOK
<1> QED
    BY <1>2, <1>3, <1>4, <1>5, CursorsKept, LossKept

\* A partition gets a new owner, which starts at the committed offset.
LEMMA AssignStep ==
    ASSUME Invariant, NEW c \in Consumers, NEW p \in Partitions,
           AssignFree(c, p) \/ Rebalance(c, p)
    PROVE  Invariant'
<1> USE DEF Invariant
<1>1. /\ phase[c] # "down" /\ ~Processing(c)
      /\ owner' = [owner EXCEPT ![p] = c]
      /\ position' = [position EXCEPT ![c][p] = committed[p]]
      /\ UNCHANGED <<committed, phase, batch, attempt, handled, dead, skipped>>
    BY DEF AssignFree, Rebalance, Assign, StartOffset
<1>2. faults' \in 0..MaxFaults
    BY ConfigAssumption DEF AssignFree, Rebalance, Fault, TypeOK
<1>3. TypeOK'
    BY <1>1, <1>2 DEF TypeOK, Processing
<1>4. DOMAIN batch[c] = {}
    BY <1>1, BatchWhileProcessing
<1>5. \A d \in Consumers \ {c} : position'[d] = position[d]
    BY <1>1 DEF TypeOK
<1>6. \A q \in Partitions \ {p} : owner'[q] = owner[q] /\ position'[c][q] = position[c][q]
    BY <1>1 DEF TypeOK
<1>7. owner'[p] = c /\ position'[c][p] = committed[p]
    BY <1>1 DEF TypeOK
<1>8. BatchOrdered'
    BY <1>1, <1>4, <1>5 DEF BatchOrdered
<1>9. BatchAhead'
    <2> SUFFICES ASSUME NEW d \in Consumers, NEW i \in DOMAIN batch[d],
                        owner'[batch[d][i][1]] = d
                 PROVE  committed[batch[d][i][1]] < batch[d][i][2]
        BY <1>1 DEF BatchAhead
    <2>1. d # c
        BY <1>4
    <2>2. batch[d][i] \in Records
        BY BatchWhileProcessing, ElementOfSeq, LenProperties
    <2>3. owner[batch[d][i][1]] = d
        BY <1>6, <1>7, <2>1, <2>2, RecordShape
    <2> QED
        BY <2>3 DEF BatchAhead
<1>10. OwnerAhead'
    <2> SUFFICES ASSUME NEW d \in Consumers, NEW q \in Partitions, owner'[q] = d
                 PROVE  committed[q] <= position'[d][q]
        BY <1>1 DEF OwnerAhead
    <2>1. CASE q = p
        BY <1>7, <2>1 DEF TypeOK
    <2>2. CASE q # p
        BY <1>5, <1>6, <2>2 DEF OwnerAhead
    <2> QED
        BY <2>1, <2>2
<1>11. HeadSettled'
    BY <1>1 DEF HeadSettled, Settled
<1>12. PolledAccounted'
    <2> SUFFICES ASSUME NEW d \in Consumers, NEW r \in Records, owner'[r[1]] = d,
                        phase[d] # "returned", r[2] <= position'[d][r[1]]
                 PROVE  Settled(r) \/ r \in skipped \/ \E i \in DOMAIN batch[d] : batch[d][i] = r
        BY <1>1 DEF PolledAccounted, Settled
    <2>1. r[1] \in Partitions
        BY RecordShape
    <2>2. CASE r[1] = p
        <3>1. r[2] <= committed[r[1]]
            BY <1>7, <2>2
        <3> QED
            BY <3>1 DEF LossExplained
    <2>3. CASE r[1] # p
        <3>1. owner[r[1]] = d /\ r[2] <= position[d][r[1]]
            BY <1>5, <1>6, <2>1, <2>3
        <3> QED
            BY <3>1 DEF PolledAccounted
    <2> QED
        BY <2>2, <2>3
<1>13. LossExplained'
    BY <1>1, LossKept
<1> QED
    BY <1>3, <1>8, <1>9, <1>10, <1>11, <1>12, <1>13

\* The group throws a consumer out while it works on its batch.
LEMMA EvictStep ==
    ASSUME Invariant, NEW c \in Consumers, Evict(c)
    PROVE  Invariant'
<1> USE DEF Invariant
<1>1. /\ owner' = [p \in Partitions |-> IF owner[p] = c THEN Nobody ELSE owner[p]]
      /\ UNCHANGED <<committed, position, phase, batch, attempt, handled, dead, skipped>>
    BY DEF Evict
<1>2. faults' \in 0..MaxFaults
    BY ConfigAssumption DEF Evict, Fault, TypeOK
<1>3. /\ owner' \in [Partitions -> Consumers \cup {Nobody}]
      /\ \A p \in Partitions : \A d \in Consumers : owner'[p] = d => owner[p] = d /\ d # c
    BY <1>1, OwnersShrink
<1>4. TypeOK'
    BY <1>1, <1>2, <1>3 DEF TypeOK, Processing
<1>5. BatchOrdered' /\ HeadSettled'
    BY <1>1 DEF BatchOrdered, HeadSettled, Settled
<1>6. BatchAhead'
    <2> SUFFICES ASSUME NEW d \in Consumers, NEW i \in DOMAIN batch[d],
                        owner'[batch[d][i][1]] = d
                 PROVE  committed[batch[d][i][1]] < batch[d][i][2]
        BY <1>1 DEF BatchAhead
    <2>1. batch[d][i] \in Records
        BY BatchWhileProcessing, ElementOfSeq, LenProperties
    <2>2. owner[batch[d][i][1]] = d
        BY <1>3, <2>1, RecordShape
    <2> QED
        BY <2>2 DEF BatchAhead
<1>7. OwnerAhead'
    BY <1>1, <1>3 DEF OwnerAhead
<1>8. PolledAccounted'
    BY <1>1, <1>3, RecordShape DEF PolledAccounted, Settled
<1>9. LossExplained'
    BY <1>1, LossKept
<1> QED
    BY <1>4, <1>5, <1>6, <1>7, <1>8, <1>9

\* The client is closed, or the process dies.
LEMMA GoneStep ==
    ASSUME Invariant, NEW c \in Consumers, Close(c) \/ Crash(c)
    PROVE  Invariant'
<1> USE DEF Invariant
<1>1. /\ phase' = [phase EXCEPT ![c] = "down"]
      /\ owner' = [p \in Partitions |-> IF owner[p] = c THEN Nobody ELSE owner[p]]
      /\ position' = [position EXCEPT ![c] = [p \in Partitions |-> 0]]
      /\ batch' = [batch EXCEPT ![c] = <<>>]
      /\ attempt' = [attempt EXCEPT ![c] = 0]
      /\ UNCHANGED <<committed, handled, dead, skipped>>
    BY DEF Close, Crash, Gone, Goto, world
<1>2. faults' \in 0..MaxFaults
    BY ConfigAssumption DEF Close, Crash, Fault, TypeOK, world
<1>3. /\ owner' \in [Partitions -> Consumers \cup {Nobody}]
      /\ \A p \in Partitions : \A d \in Consumers : owner'[p] = d => owner[p] = d /\ d # c
    BY <1>1, OwnersShrink
<1>4. /\ \A d \in Consumers \ {c} :
            batch'[d] = batch[d] /\ position'[d] = position[d] /\ phase'[d] = phase[d]
      /\ batch'[c] = <<>> /\ phase'[c] = "down"
    BY <1>1 DEF TypeOK
<1>5. TypeOK'
    <2>1. position' \in [Consumers -> [Partitions -> Nat]]
          /\ \A d \in Consumers, p \in Partitions :
                committed'[p] <= LogEnd[p] /\ position'[d][p] <= LogEnd[p]
        BY <1>1, RecordShape DEF TypeOK
    <2>2. batch' \in [Consumers -> Seq(Records)]
        BY <1>1, EmptySeq DEF TypeOK
    <2>3. \A d \in Consumers : Processing(d)' <=> batch'[d] # <<>>
        BY <1>4 DEF TypeOK, Processing
    <2>4. attempt' \in [Consumers -> 0..MaxHandlerRetries]
        BY <1>1, ConfigAssumption DEF TypeOK
    <2> QED
        BY <1>1, <1>2, <1>3, <2>1, <2>2, <2>3, <2>4 DEF TypeOK
<1>6. DOMAIN batch'[c] = {}
    BY <1>4, EmptySeq, LenProperties
<1>7. BatchOrdered'
    BY <1>4, <1>6 DEF BatchOrdered
<1>8. BatchAhead'
    <2> SUFFICES ASSUME NEW d \in Consumers, NEW i \in DOMAIN batch'[d],
                        owner'[batch'[d][i][1]] = d
                 PROVE  committed[batch'[d][i][1]] < batch'[d][i][2]
        BY <1>1 DEF BatchAhead
    <2>1. d # c /\ batch'[d] = batch[d] /\ i \in DOMAIN batch[d]
        BY <1>4, <1>6
    <2>2. batch[d][i] \in Records
        BY <2>1, BatchWhileProcessing, ElementOfSeq, LenProperties
    <2>3. owner[batch[d][i][1]] = d
        BY <1>3, <2>1, <2>2, RecordShape
    <2> QED
        BY <2>1, <2>3 DEF BatchAhead
<1>9. OwnerAhead'
    BY <1>1, <1>3, <1>4 DEF OwnerAhead
<1>10. HeadSettled'
    BY <1>1, <1>4 DEF HeadSettled, Settled
<1>11. PolledAccounted'
    <2> SUFFICES ASSUME NEW d \in Consumers, NEW r \in Records, owner'[r[1]] = d,
                        phase'[d] # "returned", r[2] <= position'[d][r[1]]
                 PROVE  Settled(r) \/ r \in skipped \/ \E i \in DOMAIN batch'[d] : batch'[d][i] = r
        BY <1>1 DEF PolledAccounted, Settled
    <2>1. owner[r[1]] = d /\ d # c
        BY <1>3, RecordShape
    <2> QED
        BY <1>4, <2>1 DEF PolledAccounted
<1>12. LossExplained'
    BY <1>1, LossKept
<1> QED
    BY <1>5, <1>7, <1>8, <1>9, <1>10, <1>11, <1>12

\* Run starts again on a consumer: what its last Run dropped is skipped.
LEMMA RerunStep ==
    ASSUME Invariant, NEW c \in Consumers, Rerun(c)
    PROVE  Invariant'
<1> USE DEF Invariant
<1>1. /\ phase[c] = "returned" /\ phase' = [phase EXCEPT ![c] = "polling"]
      /\ UNCHANGED <<committed, owner, position, batch, attempt, handled, dead, faults>>
    BY DEF Rerun, Goto, broker
<1>2. skipped' = skipped \cup
        {r \in Records : /\ r[1] \in Owned(c)
                         /\ committed[r[1]] < r[2] /\ r[2] <= position[c][r[1]]}
    BY DEF Rerun
<1>3. skipped \subseteq skipped' /\ skipped' \subseteq Records
    BY <1>2 DEF TypeOK
<1>4. TypeOK'
    BY <1>1, <1>3 DEF TypeOK, Processing
<1>5. BatchOrdered' /\ BatchAhead' /\ OwnerAhead'
    BY <1>1, CursorsKept
<1>6. HeadSettled'
    BY <1>1 DEF HeadSettled, Settled, TypeOK
<1>7. LossExplained'
    BY <1>1, <1>3, LossKept
<1>8. PolledAccounted'
    <2> SUFFICES ASSUME NEW d \in Consumers, NEW r \in Records, owner[r[1]] = d,
                        phase'[d] # "returned", r[2] <= position[d][r[1]]
                 PROVE  Settled(r) \/ r \in skipped' \/ \E i \in DOMAIN batch[d] : batch[d][i] = r
        BY <1>1 DEF PolledAccounted, Settled
    <2>1. CASE d # c
        BY <1>1, <1>3, <2>1 DEF PolledAccounted, TypeOK
    <2>2. CASE d = c /\ r[2] <= committed[r[1]]
        BY <1>3, <2>2 DEF LossExplained
    <2>3. CASE d = c /\ committed[r[1]] < r[2]
        <3>1. r[1] \in Owned(c)
            BY <2>3, RecordShape DEF Owned
        <3> QED
            BY <1>2, <2>3, <3>1
    <2>4. r[2] <= committed[r[1]] \/ committed[r[1]] < r[2]
        BY RecordShape DEF TypeOK
    <2> QED
        BY <2>1, <2>2, <2>3, <2>4
<1> QED
    BY <1>4, <1>5, <1>6, <1>7, <1>8

\* The poll fails, and may have moved a position.
LEMMA PollErrorStep ==
    ASSUME Invariant, NEW c \in Consumers, PollError(c)
    PROVE  Invariant'
<1> USE DEF Invariant
<1>1. /\ phase[c] = "polling" /\ phase' = [phase EXCEPT ![c] = "returned"]
      /\ UNCHANGED <<committed, owner, batch, attempt, handled, dead, skipped>>
    BY DEF PollError, Goto, broker
<1>2. faults' \in 0..MaxFaults
    BY ConfigAssumption DEF PollError, Fault, TypeOK
<1>3. /\ position' \in [Consumers -> [Partitions -> Nat]]
      /\ \A d \in Consumers, p \in Partitions :
            position[d][p] <= position'[d][p] /\ position'[d][p] <= LogEnd[p]
      /\ \A d \in Consumers \ {c} : position'[d] = position[d]
    <2>1. CASE UNCHANGED position
        BY <2>1 DEF TypeOK
    <2>2. CASE \E p \in Fetchable(c) : position' = [position EXCEPT ![c][p] = @ + 1]
        <3>1. PICK p \in Partitions : /\ position[c][p] < LogEnd[p]
                                      /\ position' = [position EXCEPT ![c][p] = @ + 1]
            BY <2>2 DEF Fetchable, Owned
        <3> QED
            BY <3>1, RecordShape DEF TypeOK
    <2> QED
        BY <2>1, <2>2 DEF PollError
<1>4. TypeOK'
    BY <1>1, <1>2, <1>3 DEF TypeOK, Processing
<1>5. \A d \in Consumers : \A i \in DOMAIN batch[d] : batch[d][i] \in Records
    BY BatchWhileProcessing, ElementOfSeq, LenProperties
<1>6. BatchOrdered'
    <2> SUFFICES ASSUME NEW d \in Consumers, NEW i \in DOMAIN batch[d]
                 PROVE  batch[d][i][2] <= position'[d][batch[d][i][1]]
        BY <1>1 DEF BatchOrdered
    <2>1. batch[d][i][2] <= position[d][batch[d][i][1]]
        BY DEF BatchOrdered
    <2> QED
        BY <1>3, <1>5, <2>1, RecordShape DEF TypeOK
<1>7. BatchAhead'
    BY <1>1 DEF BatchAhead
<1>8. OwnerAhead'
    <2> SUFFICES ASSUME NEW d \in Consumers, NEW p \in Partitions, owner[p] = d
                 PROVE  committed[p] <= position'[d][p]
        BY <1>1 DEF OwnerAhead
    <2>1. committed[p] <= position[d][p]
        BY DEF OwnerAhead
    <2> QED
        BY <1>3, <2>1 DEF TypeOK
<1>9. HeadSettled'
    BY <1>1 DEF HeadSettled, Settled, TypeOK
<1>10. PolledAccounted'
    <2>1. \A d \in Consumers : phase'[d] # "returned" => d # c /\ phase[d] # "returned"
        BY <1>1 DEF TypeOK
    <2> QED
        BY <1>1, <1>3, <2>1 DEF PolledAccounted, Settled
<1>11. LossExplained'
    BY <1>1, LossKept
<1> QED
    BY <1>4, <1>6, <1>7, <1>8, <1>9, <1>10, <1>11

\* A record is handled, fails, or goes to the dead-letter topic.
LEMMA HandleStep ==
    ASSUME Invariant, NEW c \in Consumers,
           HandlerSucceeds(c) \/ HandlerFails(c) \/ DeadLetter(c)
    PROVE  Invariant'
<1> USE DEF Invariant
<1>1. UNCHANGED <<committed, owner, position, batch, skipped, faults>>
    BY DEF HandlerSucceeds, HandlerFails, DeadLetter, broker
<1>2. batch[c] \in Seq(Records) /\ batch[c] # <<>>
    BY BatchWhileProcessing DEF HandlerSucceeds, HandlerFails, DeadLetter, Processing
<1>3. Head(batch[c]) = batch[c][1] /\ batch[c][1] \in Records
    BY <1>2, HeadAndRest
<1>4. /\ handled \subseteq handled' /\ handled' \subseteq Records
      /\ dead \subseteq dead' /\ dead' \subseteq Records
    BY <1>3 DEF HandlerSucceeds, HandlerFails, DeadLetter, TypeOK
<1>5. \E next \in {"handling", "deadLettering", "committing"} :
            phase' = [phase EXCEPT ![c] = next]
    BY DEF HandlerSucceeds, HandlerFails, DeadLetter, Goto, TypeOK
<1>6. phase[c] \in {"handling", "deadLettering"}
    BY DEF HandlerSucceeds, HandlerFails, DeadLetter
<1>7. attempt' \in [Consumers -> 0..MaxHandlerRetries]
    <2>1. CASE UNCHANGED attempt
        BY <2>1 DEF TypeOK
    <2>2. CASE attempt[c] < MaxHandlerRetries /\ attempt' = [attempt EXCEPT ![c] = @ + 1]
        BY <2>2, ConfigAssumption DEF TypeOK
    <2>3. attempt[c] \in Int /\ MaxHandlerRetries \in Int
        BY ConfigAssumption DEF TypeOK
    <2> QED
        BY <2>1, <2>2, <2>3 DEF HandlerSucceeds, HandlerFails, DeadLetter, OutOfRetries
<1>8. \A d \in Consumers : Processing(d)' <=> Processing(d)
    BY <1>5, <1>6 DEF Processing, TypeOK
<1>9. TypeOK'
    <2>1. phase' \in [Consumers ->
                    {"down", "polling", "handling", "deadLettering", "committing", "returned"}]
        BY <1>5 DEF TypeOK
    <2> QED
        BY <1>1, <1>4, <1>7, <1>8, <2>1 DEF TypeOK
<1>10. BatchOrdered' /\ BatchAhead' /\ OwnerAhead'
    BY <1>1, CursorsKept
<1>11. HeadSettled'
    <2> SUFFICES ASSUME NEW d \in Consumers, phase'[d] = "committing"
                 PROVE  Settled(batch[d][1])'
        BY <1>1 DEF HeadSettled
    <2>1. CASE d # c
        <3>1. phase[d] = "committing"
            BY <1>5, <2>1 DEF TypeOK
        <3> QED
            BY <1>1, <1>4, <3>1 DEF HeadSettled, Settled
    <2>2. CASE d = c
        <3>1. HandlerSucceeds(c) \/ DeadLetter(c)
            BY <2>2 DEF HandlerFails, Goto, TypeOK
        <3> QED
            BY <1>1, <1>3, <2>2, <3>1 DEF HandlerSucceeds, DeadLetter, Settled
    <2> QED
        BY <2>1, <2>2
<1>12. PolledAccounted'
    <2>1. \A d \in Consumers : phase[d] = "returned" => phase'[d] = "returned"
        BY <1>5, <1>6 DEF TypeOK
    <2> QED
        BY <1>1, <1>4, <2>1, AccountKept
<1>13. LossExplained'
    BY <1>1, <1>4, LossKept
<1> QED
    BY <1>9, <1>10, <1>11, <1>12, <1>13

\* Everything the owner polled below the head of its batch is settled or was
\* skipped: the rest of its partition in the batch lies above the head.
LEMMA BelowHead ==
    ASSUME Invariant, NEW c \in Consumers, phase[c] = "committing", MayCommit(c),
           NEW r \in Records, r[1] = Head(batch[c])[1], r[2] <= UpTo(c)
    PROVE  Settled(r) \/ r \in skipped
<1> USE DEF Invariant
<1>1. batch[c] \in Seq(Records) /\ batch[c] # <<>>
    BY BatchWhileProcessing DEF Processing
<1>2. Head(batch[c]) = batch[c][1] /\ 1 \in DOMAIN batch[c] /\ batch[c][1] \in Records
    BY <1>1, HeadAndRest
<1>3. CASE r[2] = batch[c][1][2]
    <2>1. r = batch[c][1]
        BY <1>2, <1>3, RecordShape
    <2> QED
        BY <2>1 DEF HeadSettled
<1>4. CASE r[2] < batch[c][1][2]
    <2>1. batch[c][1][2] <= position[c][batch[c][1][1]]
        BY <1>2 DEF BatchOrdered
    <2>2. r[2] \in Nat /\ batch[c][1][2] \in Nat /\ position[c][batch[c][1][1]] \in Nat
        BY <1>2, RecordShape DEF TypeOK
    <2>3. r[2] <= position[c][r[1]] /\ owner[r[1]] = c
        BY <1>2, <1>4, <2>1, <2>2 DEF MayCommit
    <2>4. \A i \in DOMAIN batch[c] : batch[c][i] # r
        <3> SUFFICES ASSUME NEW i \in DOMAIN batch[c], batch[c][i] = r PROVE FALSE
            OBVIOUS
        <3>1. i \in Nat \ {0} /\ i # 1
            BY <1>1, <1>4, <2>2, LenProperties
        <3>2. 1 < i
            BY <3>1
        <3>3. batch[c][1][2] < batch[c][i][2]
            BY <1>2, <3>2 DEF BatchOrdered
        <3> QED
            BY <1>4, <2>2, <3>3
    <2> QED
        BY <2>3, <2>4 DEF PolledAccounted
<1>5. r[2] \in Nat /\ batch[c][1][2] \in Nat /\ r[2] <= batch[c][1][2]
    BY <1>2, RecordShape DEF UpTo
<1> QED
    BY <1>3, <1>4, <1>5

\* What a step may do to the committed offsets while c works on its batch: they
\* advance, cover settled records, and stay behind every batch but for the head
\* of c's.
Advanced(c) ==
    /\ committed' \in [Partitions -> Nat]
    /\ \A p \in Partitions : committed[p] <= committed'[p] /\ committed'[p] <= LogEnd[p]
    /\ OwnerAhead'
    /\ LossExplained'
    /\ \A d \in Consumers : \A i \in DOMAIN batch[d] :
        (d = c => i # 1) /\ owner[batch[d][i][1]] = d
        => committed'[batch[d][i][1]] < batch[d][i][2]

\* A step that commits nothing and forgets nothing.
LEMMA NothingCommitted ==
    ASSUME Invariant, NEW c \in Consumers, UNCHANGED <<committed, owner, position, skipped>>,
           handled \subseteq handled', dead \subseteq dead'
    PROVE  Advanced(c)
<1> USE DEF Invariant
<1>1. LossExplained'
    BY LossKept
<1>2. OwnerAhead'
    BY DEF OwnerAhead
<1>3. committed' \in [Partitions -> Nat]
      /\ \A p \in Partitions : committed[p] <= committed'[p] /\ committed'[p] <= LogEnd[p]
    <2>1. Consumers # {}
        OBVIOUS
    <2> QED
        BY <2>1 DEF TypeOK
<1>4. \A d \in Consumers : \A i \in DOMAIN batch[d] :
        owner[batch[d][i][1]] = d => committed'[batch[d][i][1]] < batch[d][i][2]
    BY DEF BatchAhead
<1> QED
    BY <1>1, <1>2, <1>3, <1>4 DEF Advanced

\* The commit of the first record of a batch.
LEMMA HeadCommitted ==
    ASSUME Invariant, NEW c \in Consumers, phase[c] = "committing", MayCommit(c),
           committed' = [committed EXCEPT ![Head(batch[c])[1]] = UpTo(c)],
           UNCHANGED <<owner, position, handled, dead, skipped>>
    PROVE  Advanced(c)
<1> USE DEF Invariant
<1>1. batch[c] \in Seq(Records) /\ batch[c] # <<>>
    BY BatchWhileProcessing DEF Processing
<1>2. Head(batch[c]) = batch[c][1] /\ 1 \in DOMAIN batch[c] /\ batch[c][1] \in Records
    BY <1>1, HeadAndRest
<1> DEFINE h == batch[c][1]
<1>3. h[1] \in Partitions /\ h[2] \in Nat /\ h[2] <= LogEnd[h[1]] /\ owner[h[1]] = c
    BY <1>2, RecordShape DEF MayCommit
<1>4. h[2] <= position[c][h[1]] /\ committed[h[1]] < h[2]
    BY <1>2, <1>3 DEF BatchOrdered, BatchAhead
<1>5. committed' = [committed EXCEPT ![h[1]] = h[2]]
    BY <1>2 DEF UpTo
<1>6. \A d \in Consumers : \A i \in DOMAIN batch[d] : batch[d][i] \in Records
    BY BatchWhileProcessing, ElementOfSeq, LenProperties
<1> HIDE DEF h
<1>7. committed'[h[1]] = h[2] /\ \A p \in Partitions \ {h[1]} : committed'[p] = committed[p]
    BY <1>3, <1>5 DEF TypeOK
<1>8. committed' \in [Partitions -> Nat]
    BY <1>3, <1>5 DEF TypeOK
<1>9. \A p \in Partitions : committed[p] <= committed'[p] /\ committed'[p] <= LogEnd[p]
    <2> SUFFICES ASSUME NEW p \in Partitions
                 PROVE  committed[p] <= committed'[p] /\ committed'[p] <= LogEnd[p]
        OBVIOUS
    <2>1. committed[p] \in Nat /\ committed[p] <= LogEnd[p]
        BY DEF TypeOK
    <2> QED
        BY <1>3, <1>4, <1>7, <2>1
<1>10. OwnerAhead'
    <2> SUFFICES ASSUME NEW d \in Consumers, NEW p \in Partitions, owner[p] = d
                 PROVE  committed'[p] <= position[d][p]
        BY DEF OwnerAhead
    <2>1. CASE p = h[1]
        BY <1>3, <1>4, <1>7, <2>1
    <2>2. CASE p # h[1]
        BY <1>7, <2>2 DEF OwnerAhead
    <2> QED
        BY <2>1, <2>2
<1>11. LossExplained'
    <2> SUFFICES ASSUME NEW r \in Records, r[2] <= committed'[r[1]]
                 PROVE  Settled(r) \/ r \in skipped
        BY DEF LossExplained, Settled
    <2>1. CASE r[1] = h[1]
        BY <1>2, <1>7, <2>1, BelowHead DEF UpTo, h
    <2>2. CASE r[1] # h[1]
        <3>1. r[2] <= committed[r[1]]
            BY <1>7, <2>2, RecordShape
        <3> QED
            BY <3>1 DEF LossExplained
    <2> QED
        BY <2>1, <2>2
<1>12. ASSUME NEW d \in Consumers, NEW i \in DOMAIN batch[d], d = c => i # 1,
              owner[batch[d][i][1]] = d
       PROVE  committed'[batch[d][i][1]] < batch[d][i][2]
    <2>1. batch[d][i][1] \in Partitions
        BY <1>6, RecordShape
    <2>2. CASE batch[d][i][1] = h[1]
        <3>1. d = c /\ i # 1
            BY <1>3, <1>12, <2>2
        <3>2. i \in Nat /\ 1 < i
            BY <1>1, <3>1, LenProperties
        <3>3. h[2] < batch[c][i][2]
            BY <1>2, <1>12, <2>2, <3>1, <3>2 DEF BatchOrdered, h
        <3> QED
            BY <1>7, <2>2, <3>1, <3>3
    <2>3. CASE batch[d][i][1] # h[1]
        BY <1>7, <1>12, <2>1, <2>3 DEF BatchAhead
    <2> QED
        BY <2>2, <2>3
<1> QED
    BY <1>8, <1>9, <1>10, <1>11, <1>12 DEF Advanced

\* Commit, and each way a commit or a dead-letter call can fail.
LEMMA WorkAdvances ==
    ASSUME Invariant, NEW c \in Consumers, Commit(c) \/ CommitError(c) \/ DeadLetterError(c)
    PROVE  Advanced(c)
<1>1. CASE Commit(c)
    BY <1>1, HeadCommitted DEF Commit, world
<1>2. CASE CommitError(c)
    <2>1. CASE UNCHANGED committed
        BY <1>2, <2>1, NothingCommitted DEF CommitError
    <2>2. CASE MayCommit(c) /\ committed' = [committed EXCEPT ![Head(batch[c])[1]] = UpTo(c)]
        BY <1>2, <2>2, HeadCommitted DEF CommitError
    <2> QED
        BY <1>2, <2>1, <2>2 DEF CommitError
<1>3. CASE DeadLetterError(c)
    BY <1>3, NothingCommitted DEF DeadLetterError, broker
<1> QED
    BY <1>1, <1>2, <1>3

\* Run gives up: the rest of its batch is dropped.
LEMMA DropStep ==
    ASSUME Invariant, NEW c \in Consumers, CommitError(c) \/ DeadLetterError(c)
    PROVE  Invariant'
<1> USE DEF Invariant
<1>1. Advanced(c)
    BY WorkAdvances
<1>2. /\ phase' = [phase EXCEPT ![c] = "returned"]
      /\ batch' = [batch EXCEPT ![c] = <<>>]
      /\ attempt' = [attempt EXCEPT ![c] = 0]
      /\ UNCHANGED <<owner, position, handled, skipped>>
    BY DEF CommitError, DeadLetterError, Return, Goto, broker
<1>3. dead \subseteq dead' /\ dead' \subseteq Records
    <2>1. batch[c] \in Seq(Records) /\ batch[c] # <<>>
        BY BatchWhileProcessing DEF CommitError, DeadLetterError, Processing
    <2>2. Head(batch[c]) \in Records
        BY <2>1, HeadAndRest
    <2> QED
        BY <2>2 DEF CommitError, DeadLetterError, TypeOK
<1>4. faults' \in 0..MaxFaults
    BY ConfigAssumption DEF CommitError, DeadLetterError, Fault, TypeOK
<1>5. /\ \A d \in Consumers \ {c} : batch'[d] = batch[d] /\ phase'[d] = phase[d]
      /\ batch'[c] = <<>> /\ phase'[c] = "returned"
    BY <1>2 DEF TypeOK
<1>6. DOMAIN batch'[c] = {}
    BY <1>5, EmptySeq, LenProperties
<1>7. TypeOK'
    <2>1. \A d \in Consumers, p \in Partitions :
                committed'[p] <= LogEnd[p] /\ position'[d][p] <= LogEnd[p]
        BY <1>1, <1>2 DEF Advanced, TypeOK
    <2>2. batch' \in [Consumers -> Seq(Records)]
        BY <1>2, EmptySeq DEF TypeOK
    <2>3. \A d \in Consumers : Processing(d)' <=> batch'[d] # <<>>
        BY <1>5 DEF TypeOK, Processing
    <2>4. attempt' \in [Consumers -> 0..MaxHandlerRetries]
        BY <1>2, ConfigAssumption DEF TypeOK
    <2>5. committed' \in [Partitions -> Nat]
        BY <1>1 DEF Advanced
    <2> QED
        BY <1>2, <1>3, <1>4, <2>1, <2>2, <2>3, <2>4, <2>5 DEF TypeOK
<1>8. BatchOrdered'
    BY <1>2, <1>5, <1>6 DEF BatchOrdered
<1>9. BatchAhead'
    <2> SUFFICES ASSUME NEW d \in Consumers, NEW i \in DOMAIN batch'[d],
                        owner[batch'[d][i][1]] = d
                 PROVE  committed'[batch'[d][i][1]] < batch'[d][i][2]
        BY <1>2 DEF BatchAhead
    <2>1. d # c /\ batch'[d] = batch[d] /\ i \in DOMAIN batch[d]
        BY <1>5, <1>6
    <2> QED
        BY <1>1, <2>1 DEF Advanced
<1>10. OwnerAhead' /\ LossExplained'
    BY <1>1 DEF Advanced
<1>11. HeadSettled'
    BY <1>2, <1>3, <1>5 DEF HeadSettled, Settled
<1>12. PolledAccounted'
    <2> SUFFICES ASSUME NEW d \in Consumers, NEW r \in Records, owner[r[1]] = d,
                        phase'[d] # "returned", r[2] <= position[d][r[1]]
                 PROVE  Settled(r)' \/ r \in skipped \/ \E i \in DOMAIN batch'[d] : batch'[d][i] = r
        BY <1>2 DEF PolledAccounted
    <2>1. d # c /\ batch'[d] = batch[d] /\ phase[d] # "returned"
        BY <1>5
    <2>2. Settled(r) => Settled(r)'
        BY <1>2, <1>3 DEF Settled
    <2> QED
        BY <2>1, <2>2 DEF PolledAccounted
<1> QED
    BY <1>7, <1>8, <1>9, <1>10, <1>11, <1>12

\* A commit goes on to the next record of the batch, or to the next poll.
LEMMA CommitStep ==
    ASSUME Invariant, NEW c \in Consumers, Commit(c)
    PROVE  Invariant'
<1> USE DEF Invariant
<1>1. Advanced(c)
    BY WorkAdvances
<1>2. /\ phase[c] = "committing" /\ MayCommit(c)
      /\ phase' = [phase EXCEPT ![c] = IF Len(batch[c]) > 1 THEN "handling" ELSE "polling"]
      /\ batch' = [batch EXCEPT ![c] = Tail(@)]
      /\ attempt' = [attempt EXCEPT ![c] = 0]
      /\ UNCHANGED <<owner, position, handled, dead, skipped, faults>>
    BY DEF Commit, Goto, world
<1>3. batch[c] \in Seq(Records) /\ batch[c] # <<>>
    BY <1>2, BatchWhileProcessing DEF Processing
<1>4. /\ \A d \in Consumers \ {c} : batch'[d] = batch[d] /\ phase'[d] = phase[d]
      /\ batch'[c] = Tail(batch[c])
      /\ phase'[c] = IF Len(batch[c]) > 1 THEN "handling" ELSE "polling"
    BY <1>2 DEF TypeOK
<1>5. /\ Tail(batch[c]) \in Seq(Records)
      /\ 1 \in DOMAIN batch[c]
      /\ \A i \in DOMAIN Tail(batch[c]) :
            i + 1 \in DOMAIN batch[c] /\ Tail(batch[c])[i] = batch[c][i + 1]
      /\ \A i \in DOMAIN batch[c] :
            i # 1 => i - 1 \in DOMAIN Tail(batch[c]) /\ Tail(batch[c])[i - 1] = batch[c][i]
      /\ Tail(batch[c]) = <<>> <=> ~(Len(batch[c]) > 1)
    BY <1>3, HeadAndRest
<1>6. \A i \in DOMAIN Tail(batch[c]) : i \in Nat \ {0}
    BY <1>5, LenProperties
<1>7. TypeOK'
    <2>1. \A d \in Consumers, p \in Partitions :
                committed'[p] <= LogEnd[p] /\ position'[d][p] <= LogEnd[p]
        BY <1>1, <1>2 DEF Advanced, TypeOK
    <2>2. batch' \in [Consumers -> Seq(Records)]
        BY <1>2, <1>5 DEF TypeOK
    <2>3. \A d \in Consumers : Processing(d)' <=> batch'[d] # <<>>
        BY <1>4, <1>5 DEF TypeOK, Processing
    <2>4. attempt' \in [Consumers -> 0..MaxHandlerRetries]
        BY <1>2, ConfigAssumption DEF TypeOK
    <2>5. committed' \in [Partitions -> Nat]
        BY <1>1 DEF Advanced
    <2> QED
        BY <1>2, <2>1, <2>2, <2>3, <2>4, <2>5 DEF TypeOK
<1>8. BatchOrdered'
    <2> SUFFICES ASSUME NEW d \in Consumers, NEW i \in DOMAIN batch'[d]
                 PROVE  /\ batch'[d][i][2] <= position[d][batch'[d][i][1]]
                        /\ \A j \in DOMAIN batch'[d] :
                            i < j /\ batch'[d][i][1] = batch'[d][j][1]
                            => batch'[d][i][2] < batch'[d][j][2]
        BY <1>2 DEF BatchOrdered
    <2>1. CASE d # c
        BY <1>4, <2>1 DEF BatchOrdered
    <2>2. CASE d = c
        <3>1. i + 1 \in DOMAIN batch[c] /\ batch'[d][i] = batch[c][i + 1]
            BY <1>4, <1>5, <2>2
        <3>2. batch[c][i + 1][2] <= position[c][batch[c][i + 1][1]]
            BY <3>1 DEF BatchOrdered
        <3>3. ASSUME NEW j \in DOMAIN batch'[d], i < j, batch'[d][i][1] = batch'[d][j][1]
              PROVE  batch'[d][i][2] < batch'[d][j][2]
            <4>1. j + 1 \in DOMAIN batch[c] /\ batch'[d][j] = batch[c][j + 1]
                BY <1>4, <1>5, <2>2
            <4>2. i \in Nat /\ j \in Nat
                <5>1. i \in DOMAIN Tail(batch[c]) /\ j \in DOMAIN Tail(batch[c])
                    BY <1>4, <2>2
                <5> QED
                    BY <1>6, <5>1
            <4>3. i + 1 < j + 1
                BY <3>3, <4>2
            <4> QED
                BY <3>1, <3>3, <4>1, <4>3 DEF BatchOrdered
        <3> QED
            BY <2>2, <3>1, <3>2, <3>3
    <2> QED
        BY <2>1, <2>2
<1>9. BatchAhead'
    <2> SUFFICES ASSUME NEW d \in Consumers, NEW i \in DOMAIN batch'[d],
                        owner[batch'[d][i][1]] = d
                 PROVE  committed'[batch'[d][i][1]] < batch'[d][i][2]
        BY <1>2 DEF BatchAhead
    <2>1. CASE d # c
        BY <1>1, <1>4, <2>1 DEF Advanced
    <2>2. CASE d = c
        <3>1. i \in DOMAIN Tail(batch[c])
            BY <1>4, <2>2
        <3>2. i \in Nat \ {0}
            BY <1>6, <3>1
        <3>3. i + 1 # 1
            BY <3>2
        <3>4. i + 1 \in DOMAIN batch[c] /\ batch'[d][i] = batch[c][i + 1]
            BY <1>4, <1>5, <2>2, <3>1
        <3> QED
            BY <1>1, <2>2, <3>3, <3>4 DEF Advanced
    <2> QED
        BY <2>1, <2>2
<1>10. OwnerAhead' /\ LossExplained'
    BY <1>1 DEF Advanced
<1>11. HeadSettled'
    BY <1>2, <1>4 DEF HeadSettled, Settled
<1>12. PolledAccounted'
    <2> SUFFICES ASSUME NEW d \in Consumers, NEW r \in Records, owner[r[1]] = d,
                        phase'[d] # "returned", r[2] <= position[d][r[1]]
                 PROVE  Settled(r) \/ r \in skipped \/ \E i \in DOMAIN batch'[d] : batch'[d][i] = r
        BY <1>2 DEF PolledAccounted, Settled
    <2>1. CASE d # c
        BY <1>4, <2>1 DEF PolledAccounted
    <2>2. CASE d = c
        <3>1. Settled(r) \/ r \in skipped \/ \E i \in DOMAIN batch[c] : batch[c][i] = r
            BY <1>2, <2>2 DEF PolledAccounted
        <3>2. ASSUME NEW i \in DOMAIN batch[c], batch[c][i] = r
              PROVE  Settled(r) \/ \E j \in DOMAIN batch'[c] : batch'[c][j] = r
            <4>1. CASE i = 1
                BY <1>2, <3>2, <4>1 DEF HeadSettled
            <4>2. CASE i # 1
                BY <1>4, <1>5, <3>2, <4>2
            <4> QED
                BY <4>1, <4>2
        <3> QED
            BY <2>2, <3>1, <3>2
    <2> QED
        BY <2>1, <2>2
<1> QED
    BY <1>7, <1>8, <1>9, <1>10, <1>11, <1>12

\* A poll hands out the next records of one partition, or of two.
LEMMA PollStep ==
    ASSUME Invariant, NEW c \in Consumers, Poll(c)
    PROVE  Invariant'
<1> USE DEF Invariant
<1>1. PICK p \in Fetchable(c), q \in Fetchable(c), n \in 1..MaxPollRecords,
           m \in 0..MaxPollRecords :
        /\ n + m <= MaxPollRecords
        /\ p = q => m = 0
        /\ position[c][p] + n <= LogEnd[p]
        /\ position[c][q] + m <= LogEnd[q]
        /\ batch' = [batch EXCEPT ![c] = NextRecords(c, p, n) \o NextRecords(c, q, m)]
        /\ position' = [position EXCEPT ![c] = [x \in Partitions |->
                position[c][x] + (IF x = p THEN n ELSE 0) + (IF x = q THEN m ELSE 0)]]
    BY DEF Poll
<1>2. /\ phase[c] = "polling" /\ phase' = [phase EXCEPT ![c] = "handling"]
      /\ attempt' = [attempt EXCEPT ![c] = 0]
      /\ skipped' = skipped \ {batch'[c][i] : i \in DOMAIN batch'[c]}
      /\ UNCHANGED <<committed, owner, handled, dead, faults>>
    BY DEF Poll, Goto, broker
<1>3. p \in Partitions /\ q \in Partitions /\ n \in Nat \ {0} /\ m \in Nat
      /\ owner[p] = c /\ owner[q] = c
    BY ConfigAssumption DEF Fetchable, Owned
<1> DEFINE polled == Polled(c, p, q, n, m)
<1>4. /\ polled \in Seq(Records) /\ Len(polled) = n + m /\ DOMAIN polled = 1..(n + m)
      /\ \A i \in 1..n : polled[i] = <<p, position[c][p] + i>>
      /\ \A i \in (n + 1)..(n + m) : polled[i] = <<q, position[c][q] + (i - n)>>
    <2>1. TypeOK
        OBVIOUS
    <2>2. n \in Nat /\ m \in Nat /\ p \in Partitions /\ q \in Partitions
        BY <1>3
    <2>3. position[c][p] + n <= LogEnd[p] /\ position[c][q] + m <= LogEnd[q]
        BY <1>1
    <2> HIDE DEF Invariant
    <2> QED
        BY <2>1, <2>2, <2>3, PolledRecords
<1>5. /\ batch' = [batch EXCEPT ![c] = polled]
      /\ batch'[c] = polled /\ phase'[c] = "handling"
      /\ \A d \in Consumers \ {c} :
            batch'[d] = batch[d] /\ phase'[d] = phase[d]
    BY <1>1, <1>2 DEF TypeOK, Polled
<1> HIDE DEF polled
<1>6. /\ position' \in [Consumers -> [Partitions -> Nat]]
      /\ \A d \in Consumers \ {c} : position'[d] = position[d]
      /\ position'[c][p] = position[c][p] + n
      /\ q # p => position'[c][q] = position[c][q] + m
      /\ \A x \in Partitions \ {p, q} : position'[c][x] = position[c][x]
    <2> DEFINE moved == [x \in Partitions |->
                position[c][x] + (IF x = p THEN n ELSE 0) + (IF x = q THEN m ELSE 0)]
    <2>1. \A x \in Partitions : position[c][x] \in Nat
        BY DEF TypeOK
    <2>2. moved \in [Partitions -> Nat]
        BY <1>3, <2>1
    <2>3. q # p => moved[p] = position[c][p] + n /\ moved[q] = position[c][q] + m
        BY <1>3, <2>1
    <2>4. q = p => moved[p] = position[c][p] + n
        BY <1>1, <1>3, <2>1
    <2>5. \A x \in Partitions \ {p, q} : moved[x] = position[c][x]
        BY <1>3, <2>1
    <2>6. position' = [position EXCEPT ![c] = moved]
        BY <1>1
    <2> HIDE DEF moved
    <2>7. /\ position' \in [Consumers -> [Partitions -> Nat]] /\ position'[c] = moved
          /\ \A d \in Consumers \ {c} : position'[d] = position[d]
        BY <2>2, <2>6 DEF TypeOK
    <2> QED
        BY <2>3, <2>4, <2>5, <2>7
<1>7. position[c][p] \in Nat /\ position[c][q] \in Nat
    BY <1>3 DEF TypeOK
<1>8. \A x \in Partitions : position[c][x] <= position'[c][x] /\ position'[c][x] <= LogEnd[x]
    <2> SUFFICES ASSUME NEW x \in Partitions
                 PROVE  position[c][x] <= position'[c][x] /\ position'[c][x] <= LogEnd[x]
        OBVIOUS
    <2>1. position[c][x] \in Nat /\ position[c][x] <= LogEnd[x]
        BY DEF TypeOK
    <2>2. CASE x = p
        BY <1>1, <1>3, <1>6, <1>7, <2>2
    <2>3. CASE x = q /\ q # p
        BY <1>1, <1>3, <1>6, <1>7, <2>3
    <2>4. CASE x # p /\ x # q
        BY <1>6, <2>1, <2>4
    <2> QED
        BY <2>2, <2>3, <2>4
<1>9. \A i \in DOMAIN polled :
        \/ i \in 1..n /\ polled[i] = <<p, position[c][p] + i>>
        \/ /\ i \in (n + 1)..(n + m) /\ q # p
           /\ polled[i] = <<q, position[c][q] + (i - n)>>
    <2> SUFFICES ASSUME NEW i \in 1..(n + m), i \notin 1..n
                 PROVE  i \in (n + 1)..(n + m) /\ q # p
        BY <1>4
    <2>1. i \in (n + 1)..(n + m) /\ m # 0
        BY <1>3
    <2> QED
        BY <1>1, <2>1
<1>10. TypeOK'
    <2>1. polled # <<>>
        BY <1>3, <1>4, EmptySeq
    <2>2. batch' \in [Consumers -> Seq(Records)]
        BY <1>4, <1>5 DEF TypeOK
    <2>3. \A d \in Consumers : Processing(d)' <=> batch'[d] # <<>>
        BY <1>5, <2>1 DEF TypeOK, Processing
    <2>4. attempt' \in [Consumers -> 0..MaxHandlerRetries]
        BY <1>2, ConfigAssumption DEF TypeOK
    <2>5. \A d \in Consumers, x \in Partitions :
                committed'[x] <= LogEnd[x] /\ position'[d][x] <= LogEnd[x]
        BY <1>2, <1>6, <1>8 DEF TypeOK
    <2>6. skipped' \subseteq Records
        BY <1>2 DEF TypeOK
    <2> QED
        BY <1>2, <1>6, <2>2, <2>3, <2>4, <2>5, <2>6 DEF TypeOK
<1>11. BatchOrdered'
    <2> SUFFICES ASSUME NEW d \in Consumers, NEW i \in DOMAIN batch'[d]
                 PROVE  /\ batch'[d][i][2] <= position'[d][batch'[d][i][1]]
                        /\ \A j \in DOMAIN batch'[d] :
                            i < j /\ batch'[d][i][1] = batch'[d][j][1]
                            => batch'[d][i][2] < batch'[d][j][2]
        BY DEF BatchOrdered
    <2>1. CASE d # c
        BY <1>5, <1>6, <2>1 DEF BatchOrdered
    <2>2. CASE d = c
        <3>1. i \in DOMAIN polled /\ batch'[d][i] = polled[i]
            BY <1>5, <2>2
        <3>2. polled[i][2] <= position'[c][polled[i][1]]
            BY <1>3, <1>6, <1>7, <1>9, <3>1
        <3>3. ASSUME NEW j \in DOMAIN polled, i < j, polled[i][1] = polled[j][1]
              PROVE  polled[i][2] < polled[j][2]
            BY <1>3, <1>7, <1>9, <3>1, <3>3
        <3> QED
            BY <1>5, <2>2, <3>1, <3>2, <3>3
    <2> QED
        BY <2>1, <2>2
<1>12. BatchAhead'
    <2> SUFFICES ASSUME NEW d \in Consumers, NEW i \in DOMAIN batch'[d],
                        owner[batch'[d][i][1]] = d
                 PROVE  committed[batch'[d][i][1]] < batch'[d][i][2]
        BY <1>2 DEF BatchAhead
    <2>1. CASE d # c
        BY <1>5, <2>1 DEF BatchAhead
    <2>2. CASE d = c
        <3>1. committed[p] \in Nat /\ committed[p] <= position[c][p]
            BY <1>3 DEF OwnerAhead, TypeOK
        <3>2. committed[q] \in Nat /\ committed[q] <= position[c][q]
            BY <1>3 DEF OwnerAhead, TypeOK
        <3>3. i \in DOMAIN polled /\ batch'[d][i] = polled[i]
            BY <1>5, <2>2
        <3>4. committed[polled[i][1]] < polled[i][2]
            BY <1>3, <1>7, <1>9, <3>1, <3>2, <3>3
        <3> QED
            BY <3>3, <3>4
    <2> QED
        BY <2>1, <2>2
<1>13. OwnerAhead'
    <2> SUFFICES ASSUME NEW d \in Consumers, NEW x \in Partitions, owner[x] = d
                 PROVE  committed[x] <= position'[d][x]
        BY <1>2 DEF OwnerAhead
    <2>1. committed[x] \in Nat /\ position[d][x] \in Nat /\ committed[x] <= position[d][x]
        BY DEF OwnerAhead, TypeOK
    <2>2. position[d][x] <= position'[d][x] /\ position'[d][x] \in Nat
        BY <1>5, <1>6, <1>8, <2>1
    <2> QED
        BY <2>1, <2>2
<1>14. HeadSettled'
    BY <1>2, <1>5 DEF HeadSettled, Settled
<1>15. LossExplained'
    <2> SUFFICES ASSUME NEW r \in Records, r[2] <= committed[r[1]]
                 PROVE  Settled(r) \/ r \in skipped'
        BY <1>2 DEF LossExplained, Settled
    <2>1. Settled(r) \/ r \in skipped
        BY DEF LossExplained
    <2>2. \A i \in DOMAIN polled : polled[i] # r
        <3> SUFFICES ASSUME NEW i \in DOMAIN polled, polled[i] = r PROVE FALSE
            OBVIOUS
        <3>1. committed[r[1]] \in Nat /\ committed[r[1]] < r[2] /\ r[2] \in Nat
            <4>1. owner[r[1]] = c
                BY <1>3, <1>9
            <4>2. owner'[batch'[c][i][1]] = c /\ i \in DOMAIN batch'[c] /\ batch'[c][i] = r
                BY <1>2, <1>5, <4>1
            <4> QED
                BY <1>2, <1>12, <4>2, RecordShape DEF BatchAhead, TypeOK
        <3> QED
            BY <3>1
    <2> QED
        BY <1>2, <1>5, <2>1, <2>2
<1>16. PolledAccounted'
    <2> SUFFICES ASSUME NEW d \in Consumers, NEW r \in Records, owner[r[1]] = d,
                        phase'[d] # "returned", r[2] <= position'[d][r[1]]
                 PROVE  \/ Settled(r)
                        \/ r \in skipped'
                        \/ \E i \in DOMAIN batch'[d] : batch'[d][i] = r
        BY <1>2 DEF PolledAccounted, Settled
    <2>1. r[1] \in Partitions /\ r[2] \in Nat /\ r = <<r[1], r[2]>>
        BY RecordShape
    <2>2. CASE d # c
        \* Records of another owner's partition are not polled here.
        <3>1. Settled(r) \/ r \in skipped \/ \E i \in DOMAIN batch'[d] : batch'[d][i] = r
            BY <1>5, <1>6, <2>2 DEF PolledAccounted
        <3>2. \A i \in DOMAIN polled : polled[i] # r
            BY <1>3, <1>9, <2>2
        <3> QED
            BY <1>2, <1>5, <3>1, <3>2
    <2>3. CASE d = c /\ r[2] <= position[c][r[1]]
        <3>1. DOMAIN batch[c] = {} /\ phase[c] # "returned"
            BY <1>2, BatchWhileProcessing DEF Processing
        <3>2. Settled(r) \/ r \in skipped
            BY <2>3, <3>1 DEF PolledAccounted
        <3> QED
            BY <1>2, <1>5, <2>3, <3>2
    <2>4. CASE d = c /\ position[c][r[1]] < r[2]
        <3>1. CASE r[1] = p
            <4> DEFINE i == r[2] - position[c][p]
            <4>1. i \in 1..n /\ position[c][p] + i = r[2]
                BY <1>3, <1>6, <1>7, <2>1, <2>4, <3>1
            <4>2. i \in DOMAIN polled
                BY <1>3, <1>4, <4>1
            <4>3. polled[i] = r
                BY <1>4, <2>1, <3>1, <4>1
            <4> HIDE DEF i
            <4> QED
                BY <1>5, <2>4, <4>2, <4>3
        <3>2. CASE r[1] = q /\ q # p
            <4> DEFINE i == (r[2] - position[c][q]) + n
            <4>1. i \in (n + 1)..(n + m) /\ position[c][q] + (i - n) = r[2]
                BY <1>3, <1>6, <1>7, <2>1, <2>4, <3>2
            <4>2. i \in DOMAIN polled
                BY <1>3, <1>4, <4>1
            <4>3. polled[i] = r
                BY <1>4, <2>1, <3>2, <4>1
            <4> HIDE DEF i
            <4> QED
                BY <1>5, <2>4, <4>2, <4>3
        <3>3. CASE r[1] # p /\ r[1] # q
            <4>1. position'[c][r[1]] = position[c][r[1]] /\ position[c][r[1]] \in Nat
                BY <1>6, <2>1, <3>3 DEF TypeOK
            <4> QED
                BY <2>1, <2>4, <4>1
        <3> QED
            BY <3>1, <3>2, <3>3
    <2>5. position[c][r[1]] \in Nat
        BY <2>1 DEF TypeOK
    <2> QED
        BY <2>1, <2>2, <2>3, <2>4, <2>5
<1> QED
    BY <1>10, <1>11, <1>12, <1>13, <1>14, <1>15, <1>16

-----------------------------------------------------------------------------
(* The theorems.                                                           *)

\* Every step of the group keeps the invariant.
LEMMA NextInvariant == Invariant /\ [Next]_vars => Invariant'
<1> SUFFICES ASSUME Invariant, [Next]_vars PROVE Invariant'
    OBVIOUS
<1>1. CASE UNCHANGED vars
    <2>1. TypeOK'
        BY <1>1 DEF vars, broker, world, Invariant, TypeOK, Processing
    <2>2. BatchOrdered' /\ BatchAhead' /\ OwnerAhead'
        BY <1>1, CursorsKept DEF vars, broker, world, Invariant
    <2>3. HeadSettled' /\ PolledAccounted' /\ LossExplained'
        BY <1>1 DEF vars, broker, world, Invariant, HeadSettled, PolledAccounted,
                    LossExplained, Settled
    <2> QED
        BY <2>1, <2>2, <2>3 DEF Invariant
<1>2. ASSUME NEW c \in Consumers,
             \/ Open(c) \/ Evict(c) \/ Close(c) \/ Crash(c) \/ Rerun(c)
             \/ \E p \in Partitions : AssignFree(c, p) \/ Rebalance(c, p)
             \/ Poll(c) \/ PollNothing(c) \/ PollError(c)
             \/ HandlerSucceeds(c) \/ HandlerFails(c)
             \/ DeadLetter(c) \/ DeadLetterError(c)
             \/ Commit(c) \/ CommitError(c)
      PROVE  Invariant'
    <2>1. CASE Open(c)
        BY <2>1, OpenStep
    <2>2. CASE Evict(c)
        BY <2>2, EvictStep
    <2>3. CASE Close(c) \/ Crash(c)
        BY <2>3, GoneStep
    <2>4. CASE Rerun(c)
        BY <2>4, RerunStep
    <2>5. CASE \E p \in Partitions : AssignFree(c, p) \/ Rebalance(c, p)
        BY <2>5, AssignStep
    <2>6. CASE Poll(c)
        BY <2>6, PollStep
    <2>7. CASE PollNothing(c)
        BY <1>1, <2>7 DEF PollNothing
    <2>8. CASE PollError(c)
        BY <2>8, PollErrorStep
    <2>9. CASE HandlerSucceeds(c) \/ HandlerFails(c) \/ DeadLetter(c)
        BY <2>9, HandleStep
    <2>10. CASE CommitError(c) \/ DeadLetterError(c)
        BY <2>10, DropStep
    <2>11. CASE Commit(c)
        BY <2>11, CommitStep
    <2> QED
        BY <1>2, <2>1, <2>2, <2>3, <2>4, <2>5, <2>6, <2>7, <2>8, <2>9, <2>10, <2>11
<1> QED
    BY <1>1, <1>2 DEF Next

\* The invariant holds in every state of a group of consumers.
THEOREM SafetyInvariant == Spec => []Invariant
BY InitInvariant, NextInvariant, PTL DEF Spec

\* Positions and commits stay within the logs, and a consumer has records of a
\* poll exactly while Run processes them.
THEOREM TypeCorrect == Spec => []TypeOK
<1>1. Invariant => TypeOK
    BY DEF Invariant
<1> QED
    BY <1>1, SafetyInvariant, PTL

\* KafkaConsumer.Run loses no record to a crash, an eviction, a rebalance or a
\* lost call: what is committed was handled or dead-lettered, unless a second
\* Run on a failed consumer passed over it.
THEOREM LossesExplained == Spec => []LossExplained
<1>1. Invariant => LossExplained
    BY DEF Invariant
<1> QED
    BY <1>1, SafetyInvariant, PTL

\* Committing record by record never moves a committed offset back, whichever
\* consumers think they own the partition.
THEOREM CommitsAdvance == Spec => CommitsOnlyAdvance
<1>1. ASSUME Invariant, [Next]_vars
      PROVE  [\A p \in Partitions : committed'[p] >= committed[p]]_vars
    <2>1. CASE UNCHANGED vars
        BY <2>1
    <2>2. CASE UNCHANGED committed
        BY <1>1, <2>2 DEF Invariant, TypeOK
    <2>3. ASSUME NEW c \in Consumers, Commit(c) \/ CommitError(c)
          PROVE  \A p \in Partitions : committed'[p] >= committed[p]
        <3>1. Advanced(c)
            BY <1>1, <2>3, WorkAdvances
        <3> QED
            BY <1>1, <3>1 DEF Advanced, Invariant, TypeOK
    <2>4. ASSUME NEW c \in Consumers,
                 \/ Open(c) \/ Evict(c) \/ Close(c) \/ Crash(c) \/ Rerun(c)
                 \/ \E p \in Partitions : AssignFree(c, p) \/ Rebalance(c, p)
                 \/ Poll(c) \/ PollError(c)
                 \/ HandlerSucceeds(c) \/ HandlerFails(c)
                 \/ DeadLetter(c) \/ DeadLetterError(c)
          PROVE  UNCHANGED committed
        BY <2>4 DEF Open, Evict, Close, Crash, Rerun, AssignFree, Rebalance, Assign, Poll,
                    PollError, HandlerSucceeds, HandlerFails, DeadLetter, DeadLetterError,
                    broker
    <2> QED
        BY <1>1, <2>1, <2>2, <2>3, <2>4 DEF Next, PollNothing
<1> QED
    BY <1>1, SafetyInvariant, PTL DEF Spec, CommitsOnlyAdvance
=============================================================================
