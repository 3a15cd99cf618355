----------------------------- MODULE Pagination -----------------------------
(***************************************************************************)
(* Repository.PaginateCursor of dbcore/repository.go: a client walks a table*)
(* by a cursor column while rows come and go.  A page holds the rows past   *)
(* the cursor in the order of the column, and the value of its last row is *)
(* the next cursor.                                                        *)
(***************************************************************************)
EXTENDS Integers, FiniteSets, FiniteSetsExt, Naturals

CONSTANTS
    Rows,          \* rows there may be
    ValuesOf,      \* the assignments [Rows -> value of the cursor column] to try
    Limit,         \* rows of a page
    MaxChanges,    \* bound: rows inserted and deleted during the walk
    MaxPages       \* bound: pages of the walk

ASSUME PaginationAssumption ==
    /\ IsFiniteSet(Rows) /\ ValuesOf \subseteq [Rows -> Int]
    /\ Limit \in Nat \ {0} /\ MaxPages \in Nat \ {0}

VARIABLES
    column,     \* [Rows -> value of the cursor column]
    tagged,     \* the column's db tag is its name alone, so that the value is found
    table,      \* rows in the table
    stable,     \* history: rows in the table since the walk began
    cursor,     \* the value the next page starts after, at most one
    visited,    \* [Rows -> times a page primaryHad the row]
    pages,      \* pages so far
    walk,       \* "more" (HasMore) or "end"
    changes     \* changes so far

pageVars == <<column, tagged, table, stable, cursor, visited, pages, walk, changes>>

PagesInit ==
    /\ column \in ValuesOf
    /\ tagged \in BOOLEAN
    /\ table \in SUBSET Rows
    /\ stable = table
    /\ cursor = {}
    /\ visited = [r \in Rows |-> 0]
    /\ pages = 0
    /\ walk = "more"
    /\ changes = 0

\* A cursor that prints as "0" starts from the beginning, as none does.
Past == {r \in table : \A value \in cursor \ {0} : column[r] > value}

\* Mutant: the page goes on from its first row.
FirstValue(items) == IF items = {} THEN {} ELSE {Min({column[r] : r \in items})}

\* The cursor a page gives: the value of its last row.
NextCursor(items) == IF tagged /\ items # {} THEN {Max({column[r] : r \in items})} ELSE {}

\* The first rows by the column; equal ones in any order.
FirstRows(items) ==
    /\ Cardinality(items) = Min({Limit, Cardinality(Past)})
    /\ \A r \in items, other \in Past \ items : column[r] <= column[other]

NextPage ==
    /\ walk = "more"
    /\ pages < MaxPages
    /\ pages' = pages + 1
    /\ \E items \in SUBSET Past :
         /\ FirstRows(items)
         /\ visited' = [r \in Rows |-> visited[r] + (IF r \in items THEN 1 ELSE 0)]
         /\ cursor' = NextCursor(items)
    /\ walk' = IF Cardinality(Past) > Limit THEN "more" ELSE "end"
    /\ UNCHANGED <<column, tagged, table, stable, changes>>

Change(r) ==
    /\ walk = "more"
    /\ changes < MaxChanges
    /\ changes' = changes + 1
    /\ table' = IF r \in table THEN table \ {r} ELSE table \cup {r}
    /\ stable' = stable \ {r}
    /\ UNCHANGED <<column, tagged, cursor, visited, pages, walk>>

PagesNext == NextPage \/ \E r \in Rows : Change(r)

-----------------------------------------------------------------------------
\* The walk starts anew at a page that ends at the value 0, or always when the
\* cursor column's value is not found.
Restarts == ~tagged \/ 0 \in {column[r] : r \in Rows}

\* A walk that ended has visited every row that was there throughout, except
\* those that share their value with another; no row that stayed is visited
\* twice, and the pages are as many as the rows need, unless the walk restarts.
PagesExact ==
    /\ walk = "end" =>
          \A r \in stable : visited[r] = 0 => \E other \in Rows \ {r} : visited[other] > 0 /\ column[other] = column[r]
    /\ ~Restarts =>
          /\ \A r \in stable : visited[r] <= 1
          /\ pages = MaxPages => walk = "end" \/ Limit * MaxPages < Cardinality(Rows)

-----------------------------------------------------------------------------
(***************************************************************************)
(* MaterializePagination and PaginateSession of dbcore/ephemeral.go: the    *)
(* rows of a query are copied into a table of their own, a session of the   *)
(* process names it for a time to live, and a goroutine that sleeps until  *)
(* then drops it.  The tables are in the database, the sessions and their  *)
(* goroutines in the process.                                              *)
(***************************************************************************)

CONSTANTS
    EphemeralSessions, \* calls of MaterializePagination
    MaxEphemeral,      \* maxEphemeralSessions
    MaxMishaps         \* bound: statements that fail, and process deaths

ASSUME EphemeralAssumption == MaxEphemeral \in Nat

VARIABLES
    materializing, \* [EphemeralSessions -> where the call, then its cleanup, is]
    tables,        \* tables in the database
    filled,        \* tables whose rows are committed
    sessions,      \* EphemeralManager.sessions
    outOfTime,     \* sessions past ExpiresAt
    replicated,    \* [EphemeralSessions -> what the replica has of its table]
    page,          \* [EphemeralSessions -> what a PaginateSession found, "none" before]
    primaryHad,          \* history: [EphemeralSessions -> what the primary had of its table then]
    mishaps,       \* errors and deaths so far
    orphans        \* history: tables whose CREATE took effect and failed, whose drop
                   \* failed, or whose process died

pageOfVars == <<page, primaryHad>>
ephemeralVars == <<materializing, tables, filled, sessions, outOfTime, replicated, pageOfVars, mishaps, orphans>>

EphemeralInit ==
    /\ materializing = [s \in EphemeralSessions |-> "new"]
    /\ tables = {}
    /\ filled = {}
    /\ sessions = {}
    /\ outOfTime = {}
    /\ replicated = [s \in EphemeralSessions |-> "none"]
    /\ page = [s \in EphemeralSessions |-> "none"]
    /\ primaryHad = [s \in EphemeralSessions |-> "none"]
    /\ mishaps = 0
    /\ orphans = {}

SessionTo(s, where) == materializing' = [materializing EXCEPT ![s] = where]

HasCapacity == Cardinality(sessions) < MaxEphemeral

Mishap == mishaps < MaxMishaps /\ mishaps' = mishaps + 1

\* hasCapacity, then the table.
Create(s) ==
    /\ materializing[s] = "new"
    /\ IF HasCapacity
       THEN tables' = tables \cup {s} /\ SessionTo(s, "populate")
       ELSE tables' = tables /\ SessionTo(s, "failed")
    /\ UNCHANGED <<filled, sessions, outOfTime, replicated, pageOfVars, mishaps, orphans>>

\* Exec returns an error, of a CREATE that took effect or did not; the call ends
\* before it has deferred the cleanup.
CreateFails(s) ==
    /\ materializing[s] = "new" /\ HasCapacity
    /\ Mishap
    /\ \/ UNCHANGED <<tables, orphans>>
       \/ tables' = tables \cup {s} /\ orphans' = orphans \cup {s}
    /\ SessionTo(s, "failed")
    /\ UNCHANGED <<filled, sessions, outOfTime, replicated, pageOfVars>>

\* The rows are read, and inserted in one transaction.
Populate(s) ==
    /\ materializing[s] = "populate"
    /\ filled' = filled \cup {s}
    /\ SessionTo(s, "register")
    /\ UNCHANGED <<tables, sessions, outOfTime, replicated, pageOfVars, mishaps, orphans>>

\* The query fails, or gives more than a table may hold; or the transaction
\* fails, whose commit may have taken effect.
PopulateFails(s) ==
    /\ materializing[s] = "populate"
    /\ Mishap
    /\ filled' \in {filled, filled \cup {s}}
    /\ SessionTo(s, "cleanup")
    /\ UNCHANGED <<tables, sessions, outOfTime, replicated, pageOfVars, orphans>>

\* Mutant: the capacity is not asked again.
AlwaysAdds == TRUE

\* add asks for the capacity again, under the mutex.
Adds == HasCapacity

RegisterSession(s) ==
    /\ materializing[s] = "register"
    /\ IF Adds
       THEN sessions' = sessions \cup {s} /\ SessionTo(s, "open")
       ELSE sessions' = sessions /\ SessionTo(s, "cleanup")
    /\ UNCHANGED <<tables, filled, outOfTime, replicated, pageOfVars, mishaps, orphans>>

ExpireSession(s) ==
    /\ materializing[s] = "open"
    /\ outOfTime' = outOfTime \cup {s}
    /\ SessionTo(s, "cleanup")
    /\ UNCHANGED <<tables, filled, sessions, replicated, pageOfVars, mishaps, orphans>>

\* cleanupEphemeralTable: the drop may fail, which is only logged.
Drop(s) ==
    /\ materializing[s] = "cleanup"
    /\ SessionTo(s, "forget")
    /\ \/ tables' = tables \ {s} /\ filled' = filled \ {s} /\ UNCHANGED <<mishaps, orphans>>
       \/ /\ Mishap
          /\ orphans' = orphans \cup {s}
          /\ UNCHANGED <<tables, filled>>
    /\ UNCHANGED <<sessions, outOfTime, replicated, pageOfVars>>

Forget(s) ==
    /\ materializing[s] = "forget"
    /\ sessions' = sessions \ {s}
    /\ SessionTo(s, "closed")
    /\ UNCHANGED <<tables, filled, outOfTime, replicated, pageOfVars, mishaps, orphans>>

\* What the primary has of the table of s.
Kept(s) == IF s \in filled THEN "rows" ELSE IF s \in tables THEN "table" ELSE "none"

Replicated(s) ==
    /\ replicated[s] # Kept(s)
    /\ replicated' = [replicated EXCEPT ![s] = Kept(s)]
    /\ UNCHANGED <<materializing, tables, filled, sessions, outOfTime, pageOfVars, mishaps, orphans>>

\* PaginateSession looks the session up, then queries its table, at the replica.
LookUpSession(s) ==
    /\ page[s] = "none"
    /\ page' = [page EXCEPT ![s] = IF s \in sessions /\ s \notin outOfTime THEN "query" ELSE "not found"]
    /\ UNCHANGED <<materializing, tables, filled, sessions, outOfTime, replicated, primaryHad, mishaps, orphans>>

QueryPage(s) ==
    /\ page[s] = "query"
    /\ page' = [page EXCEPT ![s] = CASE replicated[s] = "rows" -> "rows"
                                     [] replicated[s] = "table" -> "empty"
                                     [] OTHER -> "error"]
    /\ primaryHad' = [primaryHad EXCEPT ![s] = Kept(s)]
    /\ UNCHANGED <<materializing, tables, filled, sessions, outOfTime, replicated, mishaps, orphans>>

\* The process dies: the calls, the sessions and the goroutines are gone.
Die ==
    /\ Mishap
    /\ materializing' = [s \in EphemeralSessions |-> IF materializing[s] = "new" THEN "new" ELSE "closed"]
    /\ sessions' = {}
    /\ orphans' = orphans \cup tables
    /\ page' = [s \in EphemeralSessions |-> "none"]
    /\ UNCHANGED <<tables, filled, outOfTime, replicated, primaryHad>>

EphemeralNext ==
    \/ \E s \in EphemeralSessions :
         \/ Create(s) \/ CreateFails(s) \/ Populate(s) \/ PopulateFails(s) \/ RegisterSession(s)
         \/ ExpireSession(s) \/ Drop(s) \/ Forget(s)
         \/ LookUpSession(s) \/ QueryPage(s) \/ Replicated(s)
    \/ Die

-----------------------------------------------------------------------------
\* The sessions keep their bound, and a session in time names a table with all
\* its rows. A page of a session that was in time when it was looked up has the
\* rows, unless the replica lagged behind the primary, or the session ran out
\* before the query. A table outlives its call and its session only where its
\* CREATE failed after it took effect, its drop failed, or the process died:
\* nothing looks for such a table again.
EphemeralTables ==
    /\ Cardinality(sessions) <= MaxEphemeral
    /\ \A s \in sessions : s \in outOfTime \/ s \in filled
    /\ \A s \in EphemeralSessions : page[s] \in {"empty", "error"} => primaryHad[s] = "rows" \/ s \in outOfTime
    /\ \A s \in tables : materializing[s] \in {"populate", "register", "open", "cleanup"} \/ s \in orphans
=============================================================================
