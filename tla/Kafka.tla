-------------------------------- MODULE Kafka --------------------------------
(***************************************************************************)
(* queue/kafka.go: the consumers of one group.  Run polls a batch, gives   *)
(* every record to the handler with retries, sends what keeps failing to   *)
(* the dead-letter topic, and commits record by record; the first failure  *)
(* ends Run.                                                               *)
(*                                                                         *)
(* The broker and the franz-go client are external and modelled by what    *)
(* the options of NewKafkaConsumer ask of them: offsets are committed only *)
(* explicitly, a consumer starts at the committed offset of a partition    *)
(* when it is assigned (or at the start), continues from the last record   *)
(* polled while it stays open, a rebalance waits from a poll until         *)
(* AllowRebalance, and a commit of a consumer that was thrown out of the   *)
(* group is refused.                                                       *)
(***************************************************************************)
EXTENDS Integers, Sequences, FiniteSets

CONSTANTS
    Consumers,           \* processes with a KafkaConsumer of the group
    Partitions,
    LogEnd,              \* [Partitions -> number of records that wait in it]
    MaxPollRecords,      \* KafkaConsumerConfig.MaxPollRecords
    MaxHandlerRetries,   \* KafkaConsumerConfig.MaxHandlerRetries
    MaxFaults,           \* bound: failed calls, crashes, evictions, moved partitions
    Nobody               \* a partition without an owner

ASSUME ConfigAssumption ==
    /\ MaxPollRecords \in Nat \ {0}
    /\ MaxHandlerRetries \in Nat \ {0}
    /\ LogEnd \in [Partitions -> Nat]
    /\ MaxFaults \in Nat
ASSUME NobodyAssumption == Nobody \notin Consumers

Records == UNION {{p} \X (1..LogEnd[p]) : p \in Partitions}

VARIABLES
    committed,   \* broker: [Partitions -> last committed record, 0 for none]
    owner,       \* broker: [Partitions -> member the partition is assigned to]
    position,    \* client: [Consumers -> [Partitions -> last record polled]]
    phase,       \* [Consumers -> where Run is]
    batch,       \* [Consumers -> records of the poll that are left]
    attempt,     \* [Consumers -> attempt of processRecord]
    handled,     \* records for which the handler returned nil
    dead,        \* records the dead-letter topic holds
    skipped,     \* history: records passed over by a second Run, not polled since
    faults       \* history: faults so far, bounded by MaxFaults

broker == <<committed, owner>>
world  == <<handled, dead, skipped, faults>>
vars   == <<broker, position, phase, batch, attempt, world>>

Init ==
    /\ committed = [p \in Partitions |-> 0]
    /\ owner = [p \in Partitions |-> Nobody]
    /\ position = [c \in Consumers |-> [p \in Partitions |-> 0]]
    /\ phase = [c \in Consumers |-> "down"]
    /\ batch = [c \in Consumers |-> <<>>]
    /\ attempt = [c \in Consumers |-> 0]
    /\ handled = {}
    /\ dead = {}
    /\ skipped = {}
    /\ faults = 0

Fault ==
    /\ faults < MaxFaults
    /\ faults' = faults + 1

Goto(c, next) == phase' = [phase EXCEPT ![c] = next]

-----------------------------------------------------------------------------
(* The group.                                                              *)

Owned(c) == {p \in Partitions : owner[p] = c}

\* Between a poll that returned records and AllowRebalance.
Processing(c) == phase[c] \in {"handling", "deadLettering", "committing"}

\* NewKafkaConsumer: a client joins, without partitions.
Open(c) ==
    /\ phase[c] = "down"
    /\ Goto(c, "polling")
    /\ UNCHANGED <<broker, position, batch, attempt, world>>

\* Mutant: a partition nobody committed yet starts at its end.
StartAtEnd(p) == IF committed[p] = 0 THEN LogEnd[p] ELSE committed[p]

\* The committed offset, or AtStart.
StartOffset(p) == committed[p]

\* c gets a partition and starts at its committed offset.
Assign(c, p) ==
    /\ phase[c] # "down"
    /\ ~Processing(c)
    /\ owner' = [owner EXCEPT ![p] = c]
    /\ position' = [position EXCEPT ![c][p] = StartOffset(p)]
    /\ UNCHANGED <<committed, phase, batch, attempt, handled, dead, skipped>>

AssignFree(c, p) ==
    /\ owner[p] = Nobody
    /\ Assign(c, p)
    /\ UNCHANGED faults

\* A rebalance takes the partition from another member, which must be outside
\* its poll.
Rebalance(c, p) ==
    /\ owner[p] \in Consumers \ {c}
    /\ ~Processing(owner[p])
    /\ Assign(c, p)
    /\ Fault

\* The handler takes so long that the group goes on without the consumer.
Evict(c) ==
    /\ Processing(c)
    /\ Owned(c) # {}
    /\ Fault
    /\ owner' = [p \in Partitions |-> IF owner[p] = c THEN Nobody ELSE owner[p]]
    /\ UNCHANGED <<committed, position, phase, batch, attempt, handled, dead, skipped>>

\* The client is gone: its partitions are free.
Gone(c) ==
    /\ Goto(c, "down")
    /\ owner' = [p \in Partitions |-> IF owner[p] = c THEN Nobody ELSE owner[p]]
    /\ position' = [position EXCEPT ![c] = [p \in Partitions |-> 0]]
    /\ batch' = [batch EXCEPT ![c] = <<>>]
    /\ attempt' = [attempt EXCEPT ![c] = 0]

\* Run has returned; the application closes the consumer.
Close(c) ==
    /\ phase[c] = "returned"
    /\ Gone(c)
    /\ UNCHANGED <<committed, world>>

\* The process dies, or is told to stop: a canceled context ends every call.
Crash(c) ==
    /\ phase[c] # "down"
    /\ Fault
    /\ Gone(c)
    /\ UNCHANGED <<committed, handled, dead, skipped>>

\* Run is called again on the consumer it failed on: the client goes on after
\* the records it polled before, those the failed Run dropped included.
Rerun(c) ==
    /\ phase[c] = "returned"
    /\ Goto(c, "polling")
    /\ skipped' = skipped \cup
        {r \in Records : /\ r[1] \in Owned(c)
                         /\ committed[r[1]] < r[2] /\ r[2] <= position[c][r[1]]}
    /\ UNCHANGED <<broker, position, batch, attempt, handled, dead, faults>>

-----------------------------------------------------------------------------
(* KafkaConsumer.Run.                                                      *)

Fetchable(c) == {p \in Owned(c) : position[c][p] < LogEnd[p]}

\* The next n records of a partition.
NextRecords(c, p, n) == [i \in 1..n |-> <<p, position[c][p] + i>>]

\* PollRecords: records of one partition, then perhaps of a second one.
Poll(c) ==
    /\ phase[c] = "polling"
    /\ \E p, q \in Fetchable(c), n \in 1..MaxPollRecords, m \in 0..MaxPollRecords :
        /\ n + m <= MaxPollRecords
        /\ p = q => m = 0
        /\ position[c][p] + n <= LogEnd[p]
        /\ position[c][q] + m <= LogEnd[q]
        /\ batch' = [batch EXCEPT ![c] = NextRecords(c, p, n) \o NextRecords(c, q, m)]
        /\ position' = [position EXCEPT ![c] = [x \in Partitions |->
                @[x] + (IF x = p THEN n ELSE 0) + (IF x = q THEN m ELSE 0)]]
    /\ skipped' = skipped \ {batch'[c][i] : i \in DOMAIN batch'[c]}
    /\ attempt' = [attempt EXCEPT ![c] = 0]
    /\ Goto(c, "handling")
    /\ UNCHANGED <<broker, handled, dead, faults>>

\* PollRecords blocks until there is something to hand out.
PollNothing(c) ==
    /\ phase[c] = "polling"
    /\ Fetchable(c) = {}
    /\ UNCHANGED vars

\* The poll comes with an error: Run returns it and drops what was polled.
PollError(c) ==
    /\ phase[c] = "polling"
    /\ Fault
    /\ \/ UNCHANGED position
       \/ \E p \in Fetchable(c) : position' = [position EXCEPT ![c][p] = @ + 1]
    /\ Goto(c, "returned")
    /\ UNCHANGED <<broker, batch, attempt, handled, dead, skipped>>

\* Run returns an error after AllowRebalance; the rest of the batch is dropped.
Return(c) ==
    /\ Goto(c, "returned")
    /\ batch' = [batch EXCEPT ![c] = <<>>]
    /\ attempt' = [attempt EXCEPT ![c] = 0]

HandlerSucceeds(c) ==
    /\ phase[c] = "handling"
    /\ handled' = handled \cup {Head(batch[c])}
    /\ Goto(c, "committing")
    /\ UNCHANGED <<broker, position, batch, attempt, dead, skipped, faults>>

\* Mutant: one retry more than configured.
OutOfRetriesLate(n) == n > MaxHandlerRetries

OutOfRetries(n) == n >= MaxHandlerRetries

\* processRecord: try again after a delay, or give the record up.
HandlerFails(c) ==
    /\ phase[c] = "handling"
    /\ IF OutOfRetries(attempt[c])
       THEN Goto(c, "deadLettering") /\ UNCHANGED attempt
       ELSE attempt' = [attempt EXCEPT ![c] = @ + 1] /\ UNCHANGED phase
    /\ UNCHANGED <<broker, position, batch, handled, dead, skipped, faults>>

\* The dead-letter topic acknowledged the record.
DeadLetter(c) ==
    /\ phase[c] = "deadLettering"
    /\ dead' = dead \cup {Head(batch[c])}
    /\ Goto(c, "committing")
    /\ UNCHANGED <<broker, position, batch, attempt, handled, skipped, faults>>

\* ProduceSync fails, with or without the record in the topic.
DeadLetterError(c) ==
    /\ phase[c] = "deadLettering"
    /\ Fault
    /\ \/ dead' = dead \cup {Head(batch[c])}
       \/ UNCHANGED dead
    /\ Return(c)
    /\ UNCHANGED <<broker, position, handled, skipped>>

\* Mutant: the commit covers everything polled, as an automatic one would.
UpToPolled(c) == position[c][Head(batch[c])[1]]

\* CommitRecords commits the offset of the one record it is given.
UpTo(c) == Head(batch[c])[2]

\* Mutant: a consumer that was thrown out may still commit.
MayAlwaysCommit(c) == TRUE

MayCommit(c) == owner[Head(batch[c])[1]] = c

Commit(c) ==
    /\ phase[c] = "committing"
    /\ MayCommit(c)
    /\ committed' = [committed EXCEPT ![Head(batch[c])[1]] = UpTo(c)]
    /\ batch' = [batch EXCEPT ![c] = Tail(@)]
    /\ attempt' = [attempt EXCEPT ![c] = 0]
    /\ Goto(c, IF Len(batch[c]) > 1 THEN "handling" ELSE "polling")
    /\ UNCHANGED <<owner, position, world>>

\* The commit is refused, or lost on the way there or back.
CommitError(c) ==
    /\ phase[c] = "committing"
    /\ \/ ~MayCommit(c) /\ UNCHANGED <<committed, faults>>
       \/ /\ MayCommit(c)
          /\ Fault
          /\ \/ UNCHANGED committed
             \/ committed' = [committed EXCEPT ![Head(batch[c])[1]] = UpTo(c)]
    /\ Return(c)
    /\ UNCHANGED <<owner, position, handled, dead, skipped>>

Work(c) ==
    \/ Poll(c) \/ HandlerSucceeds(c) \/ HandlerFails(c)
    \/ DeadLetter(c) \/ DeadLetterError(c)
    \/ Commit(c) \/ CommitError(c)

Next ==
    \E c \in Consumers :
        \/ Open(c) \/ Evict(c) \/ Close(c) \/ Crash(c) \/ Rerun(c)
        \/ \E p \in Partitions : AssignFree(c, p) \/ Rebalance(c, p)
        \/ Poll(c) \/ PollNothing(c) \/ PollError(c)
        \/ HandlerSucceeds(c) \/ HandlerFails(c)
        \/ DeadLetter(c) \/ DeadLetterError(c)
        \/ Commit(c) \/ CommitError(c)

\* Consumers work, are restarted when Run returns, and the coordinator hands
\* out a partition that has no owner.
Fairness ==
    /\ \A c \in Consumers : WF_vars(Work(c)) /\ WF_vars(Open(c)) /\ WF_vars(Close(c))
    /\ \A p \in Partitions : WF_vars(\E c \in Consumers : AssignFree(c, p))

Spec == Init /\ [][Next]_vars /\ Fairness

-----------------------------------------------------------------------------
(* Properties.                                                             *)

Settled(r) == r \in handled \/ r \in dead

TypeOK ==
    /\ committed \in [Partitions -> Nat]
    /\ owner \in [Partitions -> Consumers \cup {Nobody}]
    /\ position \in [Consumers -> [Partitions -> Nat]]
    /\ \A c \in Consumers, p \in Partitions :
        committed[p] <= LogEnd[p] /\ position[c][p] <= LogEnd[p]
    /\ phase \in [Consumers ->
                    {"down", "polling", "handling", "deadLettering", "committing", "returned"}]
    /\ batch \in [Consumers -> Seq(Records)]
    /\ \A c \in Consumers : Processing(c) <=> batch[c] # <<>>
    /\ attempt \in [Consumers -> 0..MaxHandlerRetries]
    /\ handled \subseteq Records
    /\ dead \subseteq Records
    /\ skipped \subseteq Records
    /\ faults \in 0..MaxFaults

\* No committed offset covers a record that nobody handled and the dead-letter
\* topic does not hold, through crashes, evictions and lost calls; only a
\* second Run on a consumer whose first Run failed leaves such a record behind.
LossExplained ==
    \A r \in Records : r[2] <= committed[r[1]] => Settled(r) \/ r \in skipped

\* docs/adr/0005-events-and-delivery.md:8-9: "Delivery is treated as at least
\* once", here without the exception of LossExplained.
AtLeastOnce ==
    \A r \in Records : r[2] <= committed[r[1]] => Settled(r)

\* The committed offset never moves back: a consumer that lost its partition
\* while it was processing does not undo the progress of the new owner.
CommitsOnlyAdvance == [][\A p \in Partitions : committed'[p] >= committed[p]]_vars

\* Every record is handled or dead-lettered, and committed, in the end, but for
\* those a second Run passed over.
EverythingSettled ==
    <>[](\A r \in Records : r[2] <= committed[r[1]] \/ r \in skipped)
=============================================================================
