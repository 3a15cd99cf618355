---------------------------- MODULE Identifiers -----------------------------
(***************************************************************************)
(* id/id.go: Snowflake, ULID and UUID v7 identifiers.  A generator holds its*)
(* mutex for a whole call; what it depends on is the clock, which may step *)
(* back, and for Snowflake the node number, which processes draw at random.*)
(***************************************************************************)
EXTENDS Naturals, Sequences

CONSTANTS
    Processes,      \* processes with a default Snowflake node
    NodeNumbers,    \* 0 .. snowflakeMaxNode
    MaxSequence,    \* snowflakeMaxSequence, and 0x0fff of UUID v7
    Entropies,      \* the 48 random bits of a ULID
    MaxMs,          \* bound: milliseconds of the clock
    MaxIssued,      \* bound: identifiers of a kind
    MaxStepsBack    \* bound: corrections of the clock

ASSUME IdsAssumption ==
    /\ MaxSequence \in Nat /\ Entropies \subseteq Nat
    /\ Processes \cap {"ulid", "uuidv7"} = {}

VARIABLES
    wallClock,    \* time.Now().UnixMilli()
    stepsBack,    \* times the clock was set back
    node,         \* [Processes -> nodeID]
    lastMs,       \* [generators -> millisecond of its last identifier]
    sequence,     \* [generators -> its sequence, or the ULID entropy]
    issued        \* [kinds -> the identifiers issued, in order]

idVars == <<wallClock, stepsBack, node, lastMs, sequence, issued>>

Kinds == {"snowflake", "ulid", "uuidv7"}

Generators == Processes \cup {"ulid", "uuidv7"}

IdsInit ==
    /\ wallClock = 1
    /\ stepsBack = 0
    /\ node \in [Processes -> NodeNumbers]
    /\ lastMs = [g \in Generators |-> 0]
    /\ sequence = [g \in Generators |-> 0]
    /\ issued = [k \in Kinds |-> <<>>]

Tick ==
    /\ wallClock < MaxMs
    /\ wallClock' = wallClock + 1
    /\ UNCHANGED <<stepsBack, node, lastMs, sequence, issued>>

StepBack ==
    /\ stepsBack < MaxStepsBack
    /\ wallClock > 1
    /\ wallClock' = wallClock - 1
    /\ stepsBack' = stepsBack + 1
    /\ UNCHANGED <<node, lastMs, sequence, issued>>

\* The kinds share nothing but the clock: a behaviour is bounded to one of them.
Issue(kind, generator, ms, seq, source) ==
    /\ \A other \in Kinds \ {kind} : issued[other] = <<>>
    /\ Len(issued[kind]) < MaxIssued
    /\ lastMs' = [lastMs EXCEPT ![generator] = ms]
    /\ sequence' = [sequence EXCEPT ![generator] = seq]
    /\ issued' = [issued EXCEPT ![kind] = Append(@, [ms |-> ms, seq |-> seq, source |-> source, by |-> generator])]
    /\ UNCHANGED <<wallClock, stepsBack, node>>

\* Mutant: the sequence wraps and the millisecond is not waited for.
WrapsAround(p) == [now |-> TRUE, seq |-> IF wallClock = lastMs[p] THEN (sequence[p] + 1) % (MaxSequence + 1) ELSE 0]

\* Within a millisecond the sequence counts; when it overflows the generator
\* spins until a later millisecond.  An earlier millisecond starts anew.
SnowflakeSequence(p) ==
    IF wallClock # lastMs[p] THEN [now |-> TRUE, seq |-> 0]
    ELSE [now |-> sequence[p] < MaxSequence, seq |-> (sequence[p] + 1) % (MaxSequence + 1)]

\* The spin leaves the sequence at zero, which a later millisecond has too.
NextSnowflake(p) ==
    /\ SnowflakeSequence(p).now
    /\ Issue("snowflake", p, wallClock, SnowflakeSequence(p).seq, node[p])

NextULID ==
    \E entropy \in Entropies :
        Issue("ulid", "ulid", wallClock, IF wallClock = lastMs["ulid"] THEN sequence["ulid"] + 1 ELSE entropy, 0)

\* A UUID v7 stays at its last millisecond when the clock has not passed it.
NextUUIDv7 ==
    \/ /\ wallClock > lastMs["uuidv7"]
       /\ \E random \in 0 .. MaxSequence : Issue("uuidv7", "uuidv7", wallClock, random, 0)
    \/ /\ wallClock <= lastMs["uuidv7"]
       /\ sequence["uuidv7"] < MaxSequence
       /\ Issue("uuidv7", "uuidv7", lastMs["uuidv7"], sequence["uuidv7"] + 1, 0)

IdsNext == Tick \/ StepBack \/ (\E p \in Processes : NextSnowflake(p)) \/ NextULID \/ NextUUIDv7

IdsAlone == IdsInit /\ [][IdsNext]_idVars

-----------------------------------------------------------------------------
Same(a, b) == a.ms = b.ms /\ a.seq = b.seq /\ a.source = b.source

Before(a, b) == a.ms < b.ms \/ (a.ms = b.ms /\ a.seq < b.seq)

Pairs(kind) == {p \in (DOMAIN issued[kind]) \X (DOMAIN issued[kind]) : p[1] < p[2]}

\* The clock was set back under a generator: two of its identifiers, of those from
\* the ith to the jth, say so.
SetBack(ids, i, j) ==
    \E k, l \in i .. j : k < l /\ ids[k].by = ids[i].by /\ ids[l].by = ids[i].by /\ ids[k].ms > ids[l].ms

\* UUIDs v7 are issued in strictly increasing order whatever the clock does; the
\* ULIDs and the Snowflakes of one process are too, between any two of which the
\* generator did not see its clock go back, however often it did before and after;
\* Snowflakes of two processes meet only if they drew one node number.
IdsUnique ==
    /\ \A p \in Pairs("uuidv7") : Before(issued["uuidv7"][p[1]], issued["uuidv7"][p[2]])
    /\ \A kind \in {"ulid", "snowflake"} : \A p \in Pairs(kind) :
          LET a == issued[kind][p[1]]
              b == issued[kind][p[2]]
          IN  IF a.by = b.by THEN Before(a, b) \/ SetBack(issued[kind], p[1], p[2])
              ELSE Same(a, b) => node[a.by] = node[b.by]

\* What a SnowflakeNode is said to give: "unique 64-bit integer IDs" (id.go:77, 94),
\* whatever the clock does.
SnowflakesUnique ==
    \A p \in Pairs("snowflake") :
        LET a == issued["snowflake"][p[1]]
            b == issued["snowflake"][p[2]]
        IN  a.by = b.by => ~Same(a, b)
=============================================================================
