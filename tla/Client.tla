------------------------------- MODULE Client -------------------------------
(***************************************************************************)
(* Client of dbcore/client.go over its pools of connections: transactions, *)
(* queries with a callback, single rows and parallel queries.  A context   *)
(* that ends gives up a wait, rolls its transaction back and closes its    *)
(* rows.  SQLiteClient of dbcore/sqlite.go does the same over one pool.    *)
(***************************************************************************)
EXTENDS Naturals, FiniteSets, Integers, Sequences

CONSTANTS
    Calls,         \* calls of Client, each with a context of its own
    QueryTasks,    \* the tasks of a ParallelQuery
    Configs,       \* [open |-> MaxOpenConnections, replica |-> there is a pool of its own for reads]
    MaxEnds,       \* bound: contexts that end
    MaxLostCommits \* bound: replies of COMMIT that are lost

\* database/sql reads a limit of 0 as none; the names of the other uses are no task's.
ASSUME PoolsAssumption ==
    /\ Configs \subseteq [open : Nat \ {0}, replica : BOOLEAN]
    /\ QueryTasks \cap {"tx", "rows", "nested"} = {}

VARIABLES
    config,    \* that of the client
    closed,    \* Client.Close was called
    dbCall,    \* [Calls -> what it does and where it is]
    held,      \* the connections in use: [call, use]; use is "tx", "rows", "nested" or a task
    committed, \* calls whose transaction the database committed
    ended,     \* calls whose context ended
    lost       \* calls whose COMMIT was not answered

poolVars == <<config, closed, dbCall, held, committed, ended, lost>>

\* How a callback behaves: it may query the client it was called by, and a
\* QueryRow may be given none, or one that does not scan.
Callbacks == {"ok", "fails", "panics", "queries", "ignores"}
IdleCall == [kind |-> "none", at |-> "idle", callback |-> "ok", result |-> [t \in QueryTasks |-> "none"], outcome |-> "none"]

PoolsInit ==
    /\ config \in Configs
    /\ closed = FALSE
    /\ dbCall = [c \in Calls |-> IdleCall]
    /\ held = {} /\ committed = {} /\ ended = {} /\ lost = {}

\* Transactions are the primary's, and all the rest but them reads.
PoolOf(use) == IF use = "tx" \/ ~config.replica THEN "primary" ELSE "replica"
Taken(pool) == {h \in held : PoolOf(h.use) = pool}
HasFree(use) == Cardinality(Taken(PoolOf(use))) < config.open

Hold(c, use) == [call |-> c, use |-> use]
IsRefused(c) == closed \/ c \in ended
CallTo(c, to) == [dbCall EXCEPT ![c].at = to]
Returns(c, outcome) == [dbCall EXCEPT ![c].at = "over", ![c].outcome = outcome]

StartCall(c, kind, callback) ==
    /\ dbCall[c] = IdleCall
    /\ callback = "ignores" => kind = "QueryRow"
    /\ callback = "queries" => kind # "QueryRow"
    /\ kind = "ParallelQuery" => callback = "ok"
    /\ dbCall' = [dbCall EXCEPT ![c] = [IdleCall EXCEPT !.kind = kind, !.callback = callback,
                                             !.at = IF kind = "ParallelQuery" THEN "tasks" ELSE "waiting"]]
    /\ UNCHANGED <<config, closed, held, committed, ended, lost>>

UseOf(c) == IF dbCall[c].kind = "InTx" THEN "tx" ELSE "rows"

\* BeginTx, or a query, takes a connection and the callback has its turn ...
Acquire(c) ==
    /\ dbCall[c].at = "waiting" /\ ~IsRefused(c) /\ HasFree(UseOf(c))
    /\ held' = held \cup {Hold(c, UseOf(c))}
    /\ dbCall' = CallTo(c, "callback")
    /\ UNCHANGED <<config, closed, committed, ended, lost>>

\* ... or the wait ends with the context or the pool.
GiveUpWait(c) ==
    /\ dbCall[c].at = "waiting" /\ IsRefused(c)
    /\ dbCall' = Returns(c, "error")
    /\ UNCHANGED <<config, closed, held, committed, ended, lost>>

\* The callback runs a query of its own through the client.
Nest(c) ==
    /\ dbCall[c].at = "callback" /\ dbCall[c].callback = "queries"
    /\ ~IsRefused(c) /\ HasFree("nested")
    /\ held' = held \cup {Hold(c, "nested")}
    /\ dbCall' = CallTo(c, "nested")
    /\ UNCHANGED <<config, closed, committed, ended, lost>>

NestedDone(c) ==
    /\ dbCall[c].at = "nested"
    /\ held' = held \ {Hold(c, "nested")}
    /\ dbCall' = [dbCall EXCEPT ![c].at = "callback", ![c].callback = "ok"]
    /\ UNCHANGED <<config, closed, committed, ended, lost>>

NestedGivesUp(c) ==
    /\ dbCall[c].at = "callback" /\ dbCall[c].callback = "queries" /\ IsRefused(c)
    /\ dbCall' = [dbCall EXCEPT ![c].callback = "fails"]
    /\ UNCHANGED <<config, closed, held, committed, ended, lost>>

\* Mutant: a callback that fails keeps its transaction.
KeepsFailed(c) == dbCall[c].kind # "InTx"

\* An error rolls back; a panic passes by the Rollback of InTx but not the
\* deferred Close of Query, and a row that nobody scans keeps its connection.
GivesBack(c) ==
    CASE dbCall[c].kind = "InTx" -> dbCall[c].callback = "fails"
      [] dbCall[c].kind = "Query" -> TRUE
      [] OTHER -> dbCall[c].callback \in {"ok", "fails"}

\* A callback's transaction is committed in a step of its own; a context that has
\* ended has closed the rows under it.
CallbackReturns(c) ==
    /\ dbCall[c].at = "callback" /\ dbCall[c].callback # "queries"
    /\ held' = IF GivesBack(c) THEN held \ {Hold(c, UseOf(c))} ELSE held
    /\ dbCall' = CASE dbCall[c].callback = "ok" /\ dbCall[c].kind = "InTx" -> CallTo(c, "commit")
                 [] dbCall[c].callback = "panics" -> Returns(c, "panic")
                 [] dbCall[c].callback = "ignores" -> Returns(c, "nil")
                 [] OTHER -> Returns(c, IF dbCall[c].callback = "ok" /\ c \notin ended THEN "nil" ELSE "error")
    /\ UNCHANGED <<config, closed, committed, ended, lost>>

\* COMMIT succeeds, is refused (also because the context's end rolled the
\* transaction back), or is done but not answered.
CommitTx(c) ==
    /\ dbCall[c].at = "commit"
    /\ \/ c \notin ended /\ committed' = committed \cup {c} /\ dbCall' = Returns(c, "nil") /\ UNCHANGED lost
       \/ dbCall' = Returns(c, "error") /\ UNCHANGED <<committed, lost>>
       \/ /\ c \notin ended /\ Cardinality(lost) < MaxLostCommits
          /\ committed' = committed \cup {c} /\ lost' = lost \cup {c} /\ dbCall' = Returns(c, "error")
    /\ held' = held \ {Hold(c, "tx")}
    /\ UNCHANGED <<config, closed, ended>>

\* A goroutine of ParallelQuery.
TaskAcquires(c, t) ==
    /\ dbCall[c].at = "tasks" /\ dbCall[c].result[t] = "none" /\ Hold(c, t) \notin held
    /\ ~IsRefused(c) /\ HasFree(t)
    /\ held' = held \cup {Hold(c, t)}
    /\ UNCHANGED <<config, closed, dbCall, committed, ended, lost>>

TaskEnds(c, t, result) ==
    /\ dbCall[c].at = "tasks" /\ dbCall[c].result[t] = "none"
    /\ IF Hold(c, t) \in held THEN c \in ended => result = "error" ELSE IsRefused(c) /\ result = "error"
    /\ dbCall' = [dbCall EXCEPT ![c].result[t] = result]
    /\ held' = held \ {Hold(c, t)}
    /\ UNCHANGED <<config, closed, committed, ended, lost>>

\* ParallelQuery waits for every goroutine and returns one of their errors.
Join(c) ==
    /\ dbCall[c].at = "tasks" /\ \A t \in QueryTasks : dbCall[c].result[t] # "none"
    /\ dbCall' = Returns(c, IF \E t \in QueryTasks : dbCall[c].result[t] = "error" THEN "error" ELSE "nil")
    /\ UNCHANGED <<config, closed, held, committed, ended, lost>>

\* The end of a context takes back the transaction and the rows it was given to,
\* those a panic or a row left behind among them.
ContextEnds(c) ==
    /\ dbCall[c] # IdleCall /\ c \notin ended /\ Cardinality(ended) < MaxEnds
    /\ ended' = ended \cup {c}
    /\ held' = {h \in held : h.call # c \/ h.use \in QueryTasks \cup {"nested"}}
    /\ UNCHANGED <<config, closed, dbCall, committed, lost>>

\* Waits are refused, and connections in use stay so until they are given back.
Close ==
    /\ ~closed
    /\ closed' = TRUE
    /\ UNCHANGED <<config, dbCall, held, committed, ended, lost>>

CallMoves(c) ==
    \/ Acquire(c) \/ GiveUpWait(c) \/ Nest(c) \/ NestedDone(c) \/ NestedGivesUp(c) \/ CallbackReturns(c) \/ CommitTx(c) \/ Join(c)
    \/ \E t \in QueryTasks : TaskAcquires(c, t) \/ \E result \in {"ok", "error"} : TaskEnds(c, t, result)

PoolsNext ==
    \/ Close
    \/ \E c \in Calls :
          \/ \E kind \in {"InTx", "Query", "QueryRow", "ParallelQuery"}, callback \in Callbacks : StartCall(c, kind, callback)
          \/ CallMoves(c) \/ ContextEnds(c)

-----------------------------------------------------------------------------
\* A transaction is committed if InTx returned nil, and otherwise only if the
\* answer to its COMMIT was lost: never when its callback failed or panicked.
CommittedAsTold == \A c \in Calls :
    /\ dbCall[c].kind = "InTx" /\ dbCall[c].outcome = "nil" => c \in committed
    /\ c \in committed /\ dbCall[c].outcome # "nil" => c \in lost /\ dbCall[c].outcome = "error"

\* A call that is over has its connections back, unless its transaction's
\* callback panicked or nobody scanned its row, and its context goes on.
Leaked(c) ==
    /\ dbCall[c].at = "over" /\ c \notin ended
    /\ \/ dbCall[c].callback = "panics" /\ dbCall[c].kind = "InTx"
       \/ dbCall[c].kind = "QueryRow" /\ dbCall[c].callback \in {"panics", "ignores"}

NoLeak == \A h \in held : dbCall[h.call].at = "over" => Leaked(h.call)

\* Nobody waits for ever while their context goes on, unless each connection of
\* a pool is leaked or held by a callback that waits for one more itself.
WaitsInside(c) == dbCall[c].at = "callback" /\ dbCall[c].callback = "queries"
WaitsFor(c, use) == ~IsRefused(c) /\ ~HasFree(use)
Stuck(c) ==
    \/ dbCall[c].at = "waiting" /\ WaitsFor(c, UseOf(c))
    \/ WaitsInside(c) /\ WaitsFor(c, "nested")
    \/ /\ dbCall[c].at = "tasks" /\ \E t \in QueryTasks : dbCall[c].result[t] = "none"
       /\ \A t \in QueryTasks : dbCall[c].result[t] = "none" => Hold(c, t) \notin held /\ WaitsFor(c, t)

StarvedOnlyByNesting ==
    (\A c \in Calls : dbCall[c].at \in {"idle", "over"} \/ Stuck(c)) /\ (\E c \in Calls : Stuck(c)) =>
        \E pool \in {"primary", "replica"} :
            /\ Cardinality(Taken(pool)) = config.open
            /\ \A h \in Taken(pool) : Leaked(h.call) \/ WaitsInside(h.call)

PoolsHonest == CommittedAsTold /\ NoLeak /\ StarvedOnlyByNesting

-----------------------------------------------------------------------------
(***************************************************************************)
(* AutoMigrate of dbcore/migrate.go: processes of several releases start at *)
(* once and apply their migrations, each in one transaction that takes a    *)
(* lock, reads the history, and runs and records what the history lacks.    *)
(* Schema changes are transactional.                                        *)
(***************************************************************************)

CONSTANTS
    Starters,       \* processes that call AutoMigrate
    ReleaseOf,      \* [Starters -> the migrations it was built with]
    MaxErrors,      \* bound: statements that fail and processes that die
    Unlocked        \* nobody holds the migration lock

Elements(seq) == {seq[i] : i \in DOMAIN seq}

\* A migration is [id, version, sql]; the checksum stands for the SQL.
ASSUME MigrationsAssumption ==
    /\ Unlocked \notin Starters
    /\ \A s \in Starters : \A m \in Elements(ReleaseOf[s]) : m.version \in Int

VARIABLES
    history,       \* gpp_migrations: the migrations recorded
    schema,        \* the SQL that was run, in order of commit
    lock,          \* the starter whose transaction holds the lock
    seen,          \* [Starters -> the history its transaction read]
    ran,           \* [Starters -> the migrations its transaction has run]
    migration,     \* [Starters -> what AutoMigrate does or returned]
    errors         \* errors so far

migrationVars == <<history, schema, lock, seen, ran, migration, errors>>

MigrationsInit ==
    /\ history = {}
    /\ schema = <<>>
    /\ lock = Unlocked
    /\ seen = [s \in Starters |-> {}]
    /\ ran = [s \in Starters |-> <<>>]
    /\ migration = [s \in Starters |-> "new"]
    /\ errors = 0

\* prepareMigrations: identifiers and versions are given once each.
ValidRelease(release) ==
    \A i, j \in DOMAIN release : i # j =>
        release[i].id # release[j].id /\ release[i].version # release[j].version

Reject(s) ==
    /\ migration[s] = "new"
    /\ ~ValidRelease(ReleaseOf[s])
    /\ migration' = [migration EXCEPT ![s] = "invalid"]
    /\ UNCHANGED <<history, schema, lock, seen, ran, errors>>

\* The transaction takes the lock before it reads the history.
BeginTx(s) ==
    /\ migration[s] = "new"
    /\ ValidRelease(ReleaseOf[s])
    /\ lock = Unlocked
    /\ lock' = s
    /\ seen' = [seen EXCEPT ![s] = history]
    /\ migration' = [migration EXCEPT ![s] = "applies"]
    /\ UNCHANGED <<history, schema, ran, errors>>

Known(s) == seen[s] \cup Elements(ran[s])

\* Mutant: a migration is known by its identifier alone.
NeverChanged(s) == FALSE

\* An applied migration of this release has another checksum in the history.
Changed(s) ==
    \E m \in Elements(ReleaseOf[s]), known \in seen[s] : m.id = known.id /\ m.sql # known.sql

\* The migrations left to apply, the lowest version first.
Unapplied(s) == {m \in Elements(ReleaseOf[s]) : \A known \in Known(s) : known.id # m.id}

NextUnapplied(s, m) == m \in Unapplied(s) /\ \A other \in Unapplied(s) : m.version <= other.version

\* The history has the version under another identifier: the record is refused.
Refused(s, m) == \E known \in Known(s) : known.version = m.version

Apply(s, m) ==
    /\ migration[s] = "applies"
    /\ ~Changed(s)
    /\ NextUnapplied(s, m)
    /\ ~Refused(s, m)
    /\ ran' = [ran EXCEPT ![s] = Append(@, m)]
    /\ UNCHANGED <<history, schema, lock, seen, migration, errors>>

Rollback(s, why) ==
    /\ migration' = [migration EXCEPT ![s] = why]
    /\ ran' = [ran EXCEPT ![s] = <<>>]
    /\ lock' = Unlocked
    /\ UNCHANGED <<history, schema, seen>>

\* Migrations before the changed one in version order run first, and are rolled back.
Conflict(s) ==
    /\ migration[s] = "applies"
    /\ \/ Changed(s) /\ Rollback(s, "checksum changed")
       \/ ~Changed(s) /\ (\E m \in Unapplied(s) : NextUnapplied(s, m) /\ Refused(s, m)) /\ Rollback(s, "version taken")
    /\ UNCHANGED errors

\* A statement or the commit fails, or the process dies; it is started again.
Fails(s) ==
    /\ migration[s] = "applies"
    /\ errors < MaxErrors
    /\ errors' = errors + 1
    /\ Rollback(s, "new")

Commit(s) ==
    /\ migration[s] = "applies"
    /\ ~Changed(s)
    /\ Unapplied(s) = {}
    /\ history' = history \cup Elements(ran[s])
    /\ schema' = schema \o ran[s]
    /\ lock' = Unlocked
    /\ migration' = [migration EXCEPT ![s] = "migrated"]
    /\ UNCHANGED <<seen, ran, errors>>

MigrationsNext ==
    \E s \in Starters :
        \/ Reject(s)
        \/ BeginTx(s)
        \/ \E m \in Unapplied(s) : Apply(s, m)
        \/ Conflict(s)
        \/ Fails(s)
        \/ Commit(s)

-----------------------------------------------------------------------------
\* Whatever starts together or again, each migration runs once and is recorded
\* with the SQL that ran; a start that succeeded finds all its migrations in the
\* schema, with the SQL it was built with (AutoMigrate compares no versions: a
\* migration that moved in the list keeps the first one); one fails only where
\* its release contradicts the history; a version runs after a higher one only if
\* a release without it came first (dbcore/migrate.go:70-150).
MigratedOnce ==
    /\ \A i, j \in DOMAIN schema : i # j => schema[i].id # schema[j].id
    /\ Elements(schema) = history
    /\ \A s \in Starters :
          /\ migration[s] = "migrated" =>
                \A m \in Elements(ReleaseOf[s]) : \E known \in history : known.id = m.id /\ known.sql = m.sql
          /\ migration[s] \in {"checksum changed", "version taken"} =>
                \E m \in Elements(ReleaseOf[s]), known \in history :
                    m # known /\ (m.id = known.id \/ m.version = known.version)
    /\ \A i, j \in DOMAIN schema :
          i < j /\ schema[i].version > schema[j].version =>
              \E s \in Starters : schema[i] \in Elements(ReleaseOf[s]) /\ schema[j] \notin Elements(ReleaseOf[s])
=============================================================================
