------------------------------ MODULE Records -------------------------------
(***************************************************************************)
(* ORM of dbcore/orm.go over Client of dbcore/client.go: callers save, load *)
(* and delete entities of one table, writes go to the primary pool and reads*)
(* to the replica, which follows later.  One call is one statement.         *)
(***************************************************************************)
EXTENDS Naturals, FiniteSets

CONSTANTS
    Callers,     \* goroutines, each with an entity
    MaxKey,      \* bound: keys given out
    MaxWrites    \* bound: statements that write

ASSUME RecordsAssumption == MaxKey \in Nat /\ MaxWrites \in Nat

\* How keys are given: by a database that reports them (SQLite), by one that
\* does not (PostgreSQL), or by the auto_id option of the field.
KeyPolicies == {"reported", "unreported", "auto_id"}

VARIABLES
    policy,      \* the KeyPolicy of the table
    rows,        \* [keys -> row of the primary]
    replica,     \* [keys -> row of the replica]
    lastKey,     \* the last key that was given out
    key,         \* [Callers -> primary key of its entity, 0 when zero]
    told,        \* [Callers -> the write its Save reported as done, 0 before]
    writes,      \* writes so far; a row holds the number of its last one
    deleted      \* history: keys deleted

recordVars == <<policy, rows, replica, lastKey, key, told, writes, deleted>>

PrimaryKeys == 1 .. MaxKey

RecordsInit ==
    /\ policy \in KeyPolicies
    /\ rows = [k \in PrimaryKeys |-> 0]
    /\ replica = rows
    /\ lastKey = 0
    /\ key = [c \in Callers |-> 0]
    /\ told = [c \in Callers |-> 0]
    /\ writes = 0
    /\ deleted = {}

\* Mutant: the key of an inserted row is not set in the entity.
KeyForgotten(c) == 0

\* The key Save leaves in a new entity: LastInsertId, which PostgreSQL does not have.
KeyOfInserted(c) == IF policy = "reported" THEN lastKey + 1 ELSE 0

Statement(c) == writes < MaxWrites /\ writes' = writes + 1 /\ told' = [told EXCEPT ![c] = writes + 1]

\* A zero key: the row is inserted.
SaveNew(c) ==
    /\ key[c] = 0
    /\ policy # "auto_id"
    /\ lastKey < MaxKey
    /\ Statement(c)
    /\ lastKey' = lastKey + 1
    /\ rows' = [rows EXCEPT ![lastKey + 1] = writes + 1]
    /\ key' = [key EXCEPT ![c] = KeyOfInserted(c)]
    /\ UNCHANGED <<policy, replica, deleted>>

\* The key is generated first; the entity is then not new, and is updated.
SaveGenerated(c) ==
    /\ key[c] = 0
    /\ policy = "auto_id"
    /\ lastKey < MaxKey
    /\ Statement(c)
    /\ lastKey' = lastKey + 1
    /\ key' = [key EXCEPT ![c] = lastKey + 1]
    /\ UNCHANGED <<policy, rows, replica, deleted>>

\* UPDATE; nobody looks at the number of rows it changed.
SaveExisting(c) ==
    /\ key[c] # 0
    /\ Statement(c)
    /\ rows' = [rows EXCEPT ![key[c]] = IF @ = 0 THEN 0 ELSE writes + 1]
    /\ UNCHANGED <<policy, replica, lastKey, key, deleted>>

\* FindByID reads the replica; sql.ErrNoRows leaves the entity alone.
FindByID(c, k) ==
    /\ replica[k] # 0
    /\ key' = [key EXCEPT ![c] = k]
    /\ told' = [told EXCEPT ![c] = 0]
    /\ UNCHANGED <<policy, rows, replica, lastKey, writes, deleted>>

Delete(c) ==
    /\ key[c] # 0
    /\ writes < MaxWrites
    /\ writes' = writes + 1
    /\ rows' = [rows EXCEPT ![key[c]] = 0]
    /\ deleted' = deleted \cup {key[c]}
    /\ told' = [told EXCEPT ![c] = 0]
    /\ UNCHANGED <<policy, replica, lastKey, key>>

Replicate ==
    /\ replica # rows
    /\ replica' = rows
    /\ UNCHANGED <<policy, rows, lastKey, key, told, writes, deleted>>

RecordsNext ==
    \/ \E c \in Callers : SaveNew(c) \/ SaveGenerated(c) \/ SaveExisting(c) \/ Delete(c)
    \/ \E c \in Callers, k \in PrimaryKeys : FindByID(c, k)
    \/ Replicate

RecordsAlone == RecordsInit /\ [][RecordsNext]_recordVars

-----------------------------------------------------------------------------
\* Where the database reports keys, what Save said it stored is the row of the
\* entity, or was overwritten or deleted, and a row that was deleted never
\* comes back; elsewhere Save says so of entities that it cannot find again
\* (their key stays zero), or that were never inserted (generated keys).
SaveTruth ==
    /\ policy = "reported" =>
          \A c \in Callers : told[c] # 0 => key[c] # 0 /\ (rows[key[c]] >= told[c] \/ key[c] \in deleted)
    /\ policy = "unreported" => \A c \in Callers : told[c] # 0 => key[c] = 0 \/ rows[key[c]] # 0 \/ key[c] \in deleted
    /\ policy = "auto_id" => \A k \in PrimaryKeys : rows[k] = 0
    /\ \A k \in deleted : rows[k] = 0

\* What Save is said to do: it "inserts a new record or updates an existing record
\* based on primary key" (orm.go:250), so that the entity it reported as saved has
\* its row, with this write or a later one, unless the row was deleted.
SaveStores ==
    \A c \in Callers : told[c] # 0 /\ key[c] # 0 => rows[key[c]] >= told[c] \/ key[c] \in deleted
=============================================================================
