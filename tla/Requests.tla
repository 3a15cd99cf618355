------------------------------ MODULE Requests ------------------------------
(***************************************************************************)
(* One engine serves requests through a chain of handlers: ServeHTTP of    *)
(* gpp.go, Next and Abort of context.go, RunWithTimeout of                 *)
(* context_timeout.go, the default error handler, and the Recovery, Timeout*)
(* and Singleflight middlewares.  A middleware calls Next, so a chain is a *)
(* stack: a thread goes down to the handler at position i and comes up     *)
(* with the error that position returned.  Timeout runs the rest of the    *)
(* chain in a second goroutine (the child) on a copy of the context with a *)
(* buffered response; threads interleave at every handler.                 *)
(*                                                                         *)
(* A response is its status class and the request whose handler wrote its  *)
(* body.  The first status wins (net/http, bufferedResponse and            *)
(* responseRecorder ignore a second one).                                  *)
(***************************************************************************)
EXTENDS Naturals, Sequences, FiniteSets

CONSTANTS
    Reqs,       \* requests
    KeyOf,      \* [Reqs -> singleflightKey]
    Chains,     \* handler chains an application may have registered
    Outcomes,   \* what handlers may do, of AllOutcomes
    MaxGone,    \* bound: clients that leave
    None        \* no response, no leader; not a request

\* A handler writes a response that may be shared ("ok"), one that may not
\* (Set-Cookie, private, no-store, Vary, too large: "private"), aborts with a
\* 4xx it wrote ("refused"), returns an error before or after it began to
\* write ("error", "partial"), panics, or never returns ("hang").
AllOutcomes == {"ok", "private", "refused", "error", "partial", "panic", "hang"}

Handlers == {"Recovery", "Timeout", "Singleflight", "Handler"}

ResponseStatuses == {"ok", "refused", "failed", "timeout", "dropped"}

Responses == [status : ResponseStatuses, by : Reqs \cup {None}]

\* A chain ends in its one handler, and has at most one Timeout and one Singleflight.
ChainSound(c) ==
    /\ c \in Seq(Handlers) /\ Len(c) # 0
    /\ \A i \in DOMAIN c : c[i] = "Handler" <=> i = Len(c)
    /\ \A i, j \in DOMAIN c : c[i] = c[j] /\ c[i] \in {"Timeout", "Singleflight"} => i = j

ASSUME ChainsAssumption ==
    /\ \A c \in Chains : ChainSound(c)
    /\ Outcomes \subseteq AllOutcomes
    /\ None \notin Reqs /\ None \notin Responses

Roles == {"main", "child"}

VARIABLES
    chain,     \* the registered chain; the engine's own handlers are outside it
    pc,        \* [Reqs -> [Roles -> where the goroutine is, and its error]]
    aborted,   \* [Reqs -> [Roles -> Context.aborted]]
    wire,      \* [Reqs -> response that was started on the connection]
    buffer,    \* [Reqs -> response in the bufferedResponse of the child]
    flight,    \* [keys -> request that leads the flight, or None]
    call,      \* [Reqs -> "none", "open", "shareable", "closed"]: its singleflightCall
    outcome,   \* [Reqs -> what its handler did, "none" before]
    expired,   \* requests whose deadline passed
    gone,      \* requests whose client left
    crashed    \* a panic reached the top of a goroutine nobody recovers

requestsVars == <<chain, pc, aborted, wire, buffer, flight, call, outcome, expired, gone, crashed>>

Keys == {KeyOf[r] : r \in Reqs}

At(where, i, err) == [at |-> where, i |-> i, err |-> err]

Response(status, r) == [status |-> status, by |-> r]

RequestsInit ==
    /\ chain \in Chains
    /\ pc = [r \in Reqs |-> [role \in Roles |-> At("idle", 0, "none")]]
    /\ aborted = [r \in Reqs |-> [role \in Roles |-> FALSE]]
    /\ wire = [r \in Reqs |-> None]
    /\ buffer = [r \in Reqs |-> None]
    /\ flight = [k \in Keys |-> None]
    /\ call = [r \in Reqs |-> "none"]
    /\ outcome = [r \in Reqs |-> "none"]
    /\ expired = {}
    /\ gone = {}
    /\ crashed = FALSE

-----------------------------------------------------------------------------
Is(r, role, where) == pc[r][role].at = where /\ ~crashed

\* The handler at the position the thread has reached.
Here(r, role) == chain[pc[r][role].i]

Goto(r, role, where, i, err) == pc' = [pc EXCEPT ![r][role] = At(where, i, err)]

\* c.Next(): the rest of the chain.
CallNext(r, role) == Goto(r, role, "down", pc[r][role].i + 1, "none")

\* The handler that runs returns err to the Next that called it.
Return(r, role, err) == Goto(r, role, "up", pc[r][role].i - 1, err)

First(old, new) == IF old = None THEN new ELSE old

\* Mutant: the timed handler writes to the connection itself.
WriteThrough(r, role, response) ==
    /\ wire' = [wire EXCEPT ![r] = First(@, response)]
    /\ buffer' = buffer

\* Writing through c.Writer.
Write(r, role, response) ==
    /\ wire' = IF role = "main" THEN [wire EXCEPT ![r] = First(@, response)] ELSE wire
    /\ buffer' = IF role = "child" THEN [buffer EXCEPT ![r] = First(@, response)] ELSE buffer

Written(r, role) == IF role = "main" THEN wire[r] ELSE buffer[r]

\* The context of the request, or the one with the deadline, is done.
Canceled(r, role) == r \in gone \/ (role = "child" /\ r \in expired)

-----------------------------------------------------------------------------
\* ServeHTTP takes a context from the pool, resets it and calls Next.
Serve(r) ==
    /\ Is(r, "main", "idle")
    /\ Goto(r, "main", "down", 1, "none")
    /\ UNCHANGED <<chain, aborted, wire, buffer, flight, call, outcome, expired, gone, crashed>>

\* The client closes the connection: the request's context is canceled.
ClientLeaves(r) ==
    /\ ~crashed
    /\ r \notin gone
    /\ Cardinality(gone) < MaxGone
    /\ pc[r]["main"].at \notin {"idle", "end"}
    /\ gone' = gone \cup {r}
    /\ UNCHANGED <<chain, pc, aborted, wire, buffer, flight, call, outcome, expired, crashed>>

HasDeadline == \E i \in DOMAIN chain : chain[i] = "Timeout"

\* The application's handler, the last of the chain; it hangs only where a
\* deadline is registered.
Handle(r, role) ==
    /\ Is(r, role, "down")
    /\ Here(r, role) = "Handler"
    /\ \E o \in Outcomes :
         /\ o = "hang" => HasDeadline
         /\ outcome' = [outcome EXCEPT ![r] = o]
         /\ CASE o \in {"ok", "private"} -> Write(r, role, Response("ok", r)) /\ Return(r, role, "none")
              [] o = "refused" -> Write(r, role, Response("refused", r)) /\ Return(r, role, "none")
              [] o = "partial" -> Write(r, role, Response("ok", r)) /\ Return(r, role, "error")
              [] o = "error" -> UNCHANGED <<wire, buffer>> /\ Return(r, role, "error")
              [] o = "panic" -> UNCHANGED <<wire, buffer>> /\ Return(r, role, "panic")
              [] o = "hang" -> UNCHANGED <<wire, buffer>> /\ Goto(r, role, "stuck", 0, "none")
         /\ aborted' = [aborted EXCEPT ![r][role] = @ \/ o = "refused"]
    /\ UNCHANGED <<chain, flight, call, expired, gone, crashed>>

-----------------------------------------------------------------------------
(* Recovery.                                                               *)

EnterRecovery(r, role) ==
    /\ Is(r, role, "down")
    /\ Here(r, role) = "Recovery"
    /\ CallNext(r, role)
    /\ UNCHANGED <<chain, aborted, wire, buffer, flight, call, outcome, expired, gone, crashed>>

\* A panic below is answered with a problem and turned into an error.
LeaveRecovery(r, role) ==
    /\ Is(r, role, "up")
    /\ pc[r][role].i > 0
    /\ Here(r, role) = "Recovery"
    /\ IF pc[r][role].err = "panic"
       THEN /\ aborted' = [aborted EXCEPT ![r][role] = TRUE]
            /\ Write(r, role, Response("failed", r))
            /\ Return(r, role, "error")
       ELSE Return(r, role, pc[r][role].err) /\ UNCHANGED <<aborted, wire, buffer>>
    /\ UNCHANGED <<chain, flight, call, outcome, expired, gone, crashed>>

-----------------------------------------------------------------------------
(* Timeout: Context.RunWithTimeout.                                        *)

StartTimeout(r) ==
    /\ Is(r, "main", "down")
    /\ Here(r, "main") = "Timeout"
    /\ LET i == pc[r]["main"].i
       IN  pc' = [pc EXCEPT ![r]["main"] = At("waiting", i, "none"), ![r]["child"] = At("down", i + 1, "none")]
    /\ UNCHANGED <<chain, aborted, wire, buffer, flight, call, outcome, expired, gone, crashed>>

\* The child came back to the position of Timeout.
Ended(r) == pc[r]["child"].at = "up" /\ chain[pc[r]["child"].i] = "Timeout"

\* Mutant: the buffer is sent although the chain failed.
CommittedAlways(r, err) == First(buffer[r], Response("ok", None))

\* buffer.commit, only when the chain returned no error; without a status it sends 200.
Committed(r, err) == IF err = "none" THEN First(buffer[r], Response("ok", None)) ELSE None

\* The child sent its error first: its context is adopted.
AdoptChild(r) ==
    /\ Is(r, "main", "waiting")
    /\ Ended(r)
    /\ pc[r]["child"].err # "panic"
    /\ LET err == pc[r]["child"].err
       IN  /\ wire' = [wire EXCEPT ![r] = First(@, Committed(r, err))]
           /\ aborted' = [aborted EXCEPT ![r]["main"] = aborted[r]["child"]]
           /\ pc' = [pc EXCEPT ![r]["main"] = At("up", pc[r]["main"].i - 1, err), ![r]["child"] = At("end", 0, "none")]
    /\ UNCHANGED <<chain, buffer, flight, call, outcome, expired, gone, crashed>>

\* The deadline, or the client, came first.  The child goes on with a canceled context.
Deadline(r) ==
    /\ Is(r, "main", "waiting")
    /\ expired' = expired \cup {r}
    /\ Return(r, "main", "timeout")
    /\ UNCHANGED <<chain, aborted, wire, buffer, flight, call, outcome, gone, crashed>>

\* A child that nobody waits for ends: its error goes to a channel nobody reads.
AbandonedChildEnds(r) ==
    /\ Ended(r)
    /\ ~crashed
    /\ r \in expired
    /\ pc[r]["child"].err # "panic"
    /\ Goto(r, "child", "end", 0, "none")
    /\ UNCHANGED <<chain, aborted, wire, buffer, flight, call, outcome, expired, gone, crashed>>

\* The child's goroutine has no recover of its own: the process ends.
Crash(r) ==
    /\ Ended(r)
    /\ ~crashed
    /\ pc[r]["child"].err = "panic"
    /\ crashed' = TRUE
    /\ UNCHANGED <<chain, pc, aborted, wire, buffer, flight, call, outcome, expired, gone>>

-----------------------------------------------------------------------------
(* Singleflight.                                                           *)

\* The first request of a key becomes the leader.
Lead(r, role) ==
    /\ Is(r, role, "down")
    /\ Here(r, role) = "Singleflight"
    /\ flight[KeyOf[r]] = None
    /\ flight' = [flight EXCEPT ![KeyOf[r]] = r]
    /\ call' = [call EXCEPT ![r] = "open"]
    /\ CallNext(r, role)
    /\ UNCHANGED <<chain, aborted, wire, buffer, outcome, expired, gone, crashed>>

\* The others wait; err holds the leader they wait for.
Follow(r, role) ==
    /\ Is(r, role, "down")
    /\ Here(r, role) = "Singleflight"
    /\ flight[KeyOf[r]] # None
    /\ Goto(r, role, "following", pc[r][role].i, flight[KeyOf[r]])
    /\ UNCHANGED <<chain, aborted, wire, buffer, flight, call, outcome, expired, gone, crashed>>

\* Mutant: the error of the leader's chain is not looked at.
ShareableAnyway(r, role) == Written(r, role) \in {None, Response("ok", r)} /\ outcome[r] # "private"

\* singleflightResponseShareable: no error, a 2xx (the recorder's default), nothing private.
Shareable(r, role) ==
    /\ pc[r][role].err = "none"
    /\ Written(r, role) \in {None, Response("ok", r), Response("ok", None)}
    /\ outcome[r] # "private"

\* Mutant: the call stays in the map.
StaleFlight(r) == flight

\* What delete leaves of the map.
FlightsAfter(r) == [flight EXCEPT ![KeyOf[r]] = None]

\* Mutant: a panic passes the leader and leaves its call open.
ClosesUnlessPanic(r, role) == call[r] = "open" /\ pc[r][role].err # "panic"

\* The deferred function of the leader runs whatever happened below.
Closes(r, role) == call[r] = "open"

\* The leader takes its call out of the map and closes it in one step: who
\* comes between the two leads the next flight, as who comes after.
LeaveSingleflight(r, role) ==
    /\ Is(r, role, "up")
    /\ pc[r][role].i > 0
    /\ Here(r, role) = "Singleflight"
    /\ IF Closes(r, role)
       THEN /\ call' = [call EXCEPT ![r] = IF Shareable(r, role) THEN "shareable" ELSE "closed"]
            /\ flight' = FlightsAfter(r)
       ELSE UNCHANGED <<call, flight>>
    /\ Return(r, role, pc[r][role].err)
    /\ UNCHANGED <<chain, aborted, wire, buffer, outcome, expired, gone, crashed>>

\* The leader's call is closed: its response is replayed, or the rest of the chain runs.
Released(r, role) ==
    /\ Is(r, role, "following")
    /\ LET leader == pc[r][role].err
       IN  IF call[leader] = "shareable"
           THEN /\ Write(r, role, Response("ok", leader))
                /\ aborted' = [aborted EXCEPT ![r][role] = TRUE]
                /\ Return(r, role, "none")
           ELSE /\ call[leader] = "closed"
                /\ CallNext(r, role)
                /\ UNCHANGED <<aborted, wire, buffer>>
    /\ UNCHANGED <<chain, flight, call, outcome, expired, gone, crashed>>

\* Its own context ends first.
StopFollowing(r, role) ==
    /\ Is(r, role, "following")
    /\ Canceled(r, role)
    /\ Return(r, role, "canceled")
    /\ UNCHANGED <<chain, aborted, wire, buffer, flight, call, outcome, expired, gone, crashed>>

-----------------------------------------------------------------------------
Status(err) == IF err = "timeout" THEN "timeout" ELSE "failed"

\* defaultErrorHandler: nothing when the context is aborted or a response has started.
ErrorResponse(r) ==
    IF pc[r]["main"].err = "none" \/ aborted[r]["main"] \/ wire[r] # None
    THEN None
    ELSE Response(Status(pc[r]["main"].err), r)

\* ServeHTTP returns: net/http sends an empty 200 when nothing was written, and
\* drops the connection of a handler that panicked.
Finish(r) ==
    /\ Is(r, "main", "up")
    /\ pc[r]["main"].i = 0
    /\ LET nothing == IF pc[r]["main"].err = "panic" THEN Response("dropped", r) ELSE Response("ok", None)
           handled == IF pc[r]["main"].err = "panic" THEN None ELSE ErrorResponse(r)
       IN  wire' = [wire EXCEPT ![r] = First(First(@, handled), nothing)]
    /\ Goto(r, "main", "end", 0, "none")
    /\ UNCHANGED <<chain, aborted, buffer, flight, call, outcome, expired, gone, crashed>>

\* Everything a goroutine of the process does without an input from outside.
Work(r) ==
    \/ \E role \in Roles :
         \/ Handle(r, role)
         \/ EnterRecovery(r, role)
         \/ LeaveRecovery(r, role)
         \/ Lead(r, role)
         \/ Follow(r, role)
         \/ LeaveSingleflight(r, role)
         \/ Released(r, role)
         \/ StopFollowing(r, role)
    \/ StartTimeout(r)
    \/ AdoptChild(r)
    \/ AbandonedChildEnds(r)
    \/ Crash(r)
    \/ Finish(r)

RequestsNext == \E r \in Reqs : Serve(r) \/ Work(r) \/ Deadline(r) \/ ClientLeaves(r)

\* Goroutines run, and the timer of a deadline fires.
RequestsFairness == \A r \in Reqs : WF_requestsVars(Work(r)) /\ WF_requestsVars(Deadline(r))

RequestsSpec == RequestsInit /\ [][RequestsNext]_requestsVars /\ RequestsFairness

-----------------------------------------------------------------------------
(* Properties.                                                             *)

IsIdle(r) == pc[r]["main"].at = "idle"
IsEnded(r) == pc[r]["main"].at = "end"

\* A handler's panic never ends the process: what Recovery says it catches.
PanicsContained == ~crashed

\* A body comes from the request's own handler, or from the leader of a flight
\* with its key whose chain succeeded with a response that may be shared.
ResponsesAreOwn ==
    \A r \in Reqs : wire[r] # None =>
        \/ wire[r].by \in {r, None}
        \/ /\ KeyOf[wire[r].by] = KeyOf[r]
           /\ wire[r].status = "ok"
           /\ outcome[wire[r].by] = "ok"

\* The handlers that run for one key are one leader and requests that were let
\* go by a leader that could not share; nobody waits for a call out of the map.
OneFlight ==
    \A r \in Reqs :
        /\ call[r] = "open" <=> flight[KeyOf[r]] = r
        /\ \A role \in Roles : pc[r][role].at = "following" => call[pc[r][role].err] # "none"

\* Requests that share a flight get nothing but its leader's answer, and a key has
\* one flight (middleware/singleflight.go:37-82).
FlightsSound == ResponsesAreOwn /\ OneFlight

\* A request that failed before it wrote anything is answered as success only
\* after a panic, where Recovery below a Timeout wrote its answer into the buffer
\* that RunWithTimeout then dropped.
FailuresExplained ==
    \A r \in Reqs :
        IsEnded(r) /\ outcome[r] \in {"error", "panic"} /\ wire[r].status = "ok"
            => /\ outcome[r] = "panic"
               /\ \E i, j \in DOMAIN chain : i < j /\ chain[i] = "Timeout" /\ chain[j] = "Recovery"

\* The error contract: "Logging an error and returning success is prohibited"
\* (docs/adr/0003-error-contract.md:15).
FailuresNeverSucceed ==
    \A r \in Reqs : IsEnded(r) /\ outcome[r] \in {"error", "panic"} => wire[r].status # "ok"

\* A request whose deadline passed is answered with the timeout, whatever its
\* handler wrote before and writes while it goes on.
LateHandlersAreSilent ==
    \A r \in Reqs : IsEnded(r) /\ r \in expired => wire[r] = Response("timeout", r)

\* Every request that was started ends: followers are let go by leaders that
\* fail, panic, time out or cannot share, and a handler that never returns
\* does not hold a request that has a deadline.
EveryRequestEnds == \A r \in Reqs : ~IsIdle(r) ~> IsEnded(r)

-----------------------------------------------------------------------------
(***************************************************************************)
(* Whose values a Context holds (context.go, gpp.go). Contexts come from a *)
(* pool and are reset, not replaced: their map of keys goes with them. A   *)
(* timeout runs the rest of the chain on a child with a copy of the map,   *)
(* which the parent adopts when the child is in time; Async and AsyncTask  *)
(* give a background task the map itself.                                  *)
(***************************************************************************)

CONSTANTS
    Holders,    \* requests, and the values each stores under the one key
    MaxMaps,    \* bound: maps that are made
    Empty       \* the key is not there; no map

Maps == 1 .. MaxMaps

ASSUME ContextsAssumption == MaxMaps \in Nat /\ Empty \notin Maps

VARIABLES
    heap,       \* [Maps -> value under the key]
    made,       \* maps that were made
    pool,       \* maps of the contexts in Engine.pool
    phase,      \* [Holders -> "idle", "runs", "child", "ended", "panicked",
                \*  "late" (answered, its child runs on)]
    parent,     \* [Holders -> Context.keys of the request]
    child,      \* [Holders -> keys of the child of RunWithTimeout]
    task        \* [Holders -> keys of a background task, which runs as long as it likes]

contextVars == <<heap, made, pool, phase, parent, child, task>>

NoMap == [r \in Holders |-> Empty]

ContextsInit ==
    /\ heap = [m \in Maps |-> Empty]
    /\ made = 0
    /\ pool = {}
    /\ phase = [r \in Holders |-> "idle"]
    /\ parent = NoMap
    /\ child = NoMap
    /\ task = NoMap

InUse(r) == phase[r] \in {"runs", "child"}

\* The map that the code of the request uses.
KeysOf(r) == IF phase[r] = "child" THEN child[r] ELSE parent[r]

\* Mutant: what the context held before stays.
ResetNothing(m) == heap

Reset(m) == [heap EXCEPT ![m] = Empty]

\* ServeHTTP: the pool gives a context back or makes one.
PoolGet(r) ==
    /\ phase[r] = "idle"
    /\ \E m \in pool \cup ({made + 1} \cap Maps) :
          /\ heap' = Reset(m)
          /\ made' = IF m > made THEN m ELSE made
          /\ pool' = pool \ {m}
          /\ parent' = [parent EXCEPT ![r] = m]
    /\ phase' = [phase EXCEPT ![r] = "runs"]
    /\ UNCHANGED <<child, task>>

\* SetKey, by an authenticating middleware for one.
SetKey(r) ==
    /\ InUse(r)
    /\ heap' = [heap EXCEPT ![KeysOf(r)] = r]
    /\ UNCHANGED <<made, pool, phase, parent, child, task>>

DeleteKey(r) ==
    /\ InUse(r)
    /\ heap' = [heap EXCEPT ![KeysOf(r)] = Empty]
    /\ UNCHANGED <<made, pool, phase, parent, child, task>>

\* Async, AsyncTask
Async(r) ==
    /\ InUse(r) /\ task[r] = Empty
    /\ task' = [task EXCEPT ![r] = KeysOf(r)]
    /\ UNCHANGED <<heap, made, pool, phase, parent, child>>

StartChild(r) ==
    /\ phase[r] = "runs" /\ child[r] = Empty /\ made < MaxMaps
    /\ made' = made + 1
    /\ heap' = [heap EXCEPT ![made + 1] = heap[parent[r]]]
    /\ child' = [child EXCEPT ![r] = made + 1]
    /\ phase' = [phase EXCEPT ![r] = "child"]
    /\ UNCHANGED <<pool, parent, task>>

\* adoptTimeoutChild: the map of the parent is dropped, and the context takes
\* the child's to the pool.
Adopt(r) ==
    /\ phase[r] = "child"
    /\ parent' = [parent EXCEPT ![r] = child[r]]
    /\ phase' = [phase EXCEPT ![r] = "runs"]
    /\ UNCHANGED <<heap, made, pool, child, task>>

\* ServeHTTP puts the context back, also when the deadline left a child running.
PoolPut(r, to) ==
    /\ pool' = pool \cup {parent[r]}
    /\ phase' = [phase EXCEPT ![r] = to]
    /\ UNCHANGED <<heap, made, parent, child, task>>

End(r) == phase[r] = "runs" /\ PoolPut(r, "ended")
ChildLate(r) == phase[r] = "child" /\ PoolPut(r, "late")

\* A panic passes Put by.
Panic(r) ==
    /\ phase[r] = "runs"
    /\ phase' = [phase EXCEPT ![r] = "panicked"]
    /\ UNCHANGED <<heap, made, pool, parent, child, task>>

\* What the late child writes goes to its own map.
LateSet(r) ==
    /\ phase[r] = "late"
    /\ heap' = [heap EXCEPT ![child[r]] = r]
    /\ UNCHANGED <<made, pool, phase, parent, child, task>>

TaskSet(r) ==
    /\ task[r] # Empty
    /\ heap' = [heap EXCEPT ![task[r]] = r]
    /\ UNCHANGED <<made, pool, phase, parent, child, task>>

ContextsNext == \E r \in Holders :
    \/ PoolGet(r) \/ SetKey(r) \/ DeleteKey(r) \/ Async(r) \/ StartChild(r) \/ Adopt(r)
    \/ End(r) \/ ChildLate(r) \/ Panic(r) \/ LateSet(r) \/ TaskSet(r)

-----------------------------------------------------------------------------
Own(r, m) == heap[m] \in {r, Empty}

\* A background task holds the map of a context that went back to the pool.
Outlived(r) == task[r] # Empty /\ task[r] = parent[r] /\ phase[r] \in {"late", "ended"}

\* In the map is what the request stored, or what a background task stored that
\* outlived the context of another one.
Explained(r, m) == Own(r, m) \/ Outlived(heap[m])

\* What a handler, on the context or on a child, in time or late, and a background
\* task find was stored by their own request, whichever contexts the pool hands
\* out again; it is another request's only where that one left a background task,
\* which writes to the map that the pool gave to somebody else, and a task that was
\* left reads there what is not its own.
KeysAreOwn == \A r \in Holders :
    /\ InUse(r) => Explained(r, KeysOf(r))
    /\ phase[r] = "late" => Explained(r, child[r])
    /\ task[r] # Empty /\ ~Outlived(r) => Explained(r, task[r])

\* Contexts in use are not in the pool, and no two requests use one.
ContextsExclusive == \A r, q \in Holders :
    /\ InUse(r) => parent[r] \notin pool
    /\ r # q /\ InUse(r) /\ InUse(q) => {parent[r], child[r]} \cap {parent[q], child[q]} \subseteq {Empty}

\* A request reads what it stored, from contexts nobody else has, or what comes of
\* background tasks that outlived theirs (context.go:30-69, 631-658, gpp.go:176-213).
ContextsOwn == KeysAreOwn /\ ContextsExclusive

\* What a Context is said to be: "the request-scoped context" (context.go:30), so
\* that the code of a request finds no other request's values in it.
RequestScoped == \A r \in Holders : InUse(r) => Own(r, KeysOf(r))
=============================================================================
