----------------------------- MODULE MCServices -----------------------------
(***************************************************************************)
(* The components that keep state of their own and call no other modelled  *)
(* component, each on a small instance: a behaviour is one of one of them,  *)
(* named by part, while the others are at rest. The components with theorems*)
(* are extended, and have their own variables; the others are instances on *)
(* the slots v1 .. v4, of which those they do not need are Unused.         *)
(***************************************************************************)
EXTENDS Integers, TLC, Requests, Lifecycle, Workflows, PubSub, RedisClaims, Identifiers,
        Auth, Data

CONSTANTS n1, n2, n3, Null

VARIABLES part, v1, v2, v3, v4

-----------------------------------------------------------------------------
(* The components that are extended; what is a set or a number has its     *)
(* value in the configuration.                                             *)

\* Two requests for one key through four orders of middleware. Recovery outside
\* Timeout, which lets a panic end the process, is left to the configuration
\* MCServicesPanic.
OneKey == [r \in Reqs |-> n3]
OrdersOfMiddleware ==
    {<<"Recovery", "Singleflight", "Handler">>, <<"Singleflight", "Handler">>,
     <<"Timeout", "Recovery", "Singleflight", "Handler">>, <<"Singleflight", "Timeout", "Recovery", "Handler">>}
RecoveryOutside == {<<"Recovery", "Timeout", "Handler">>}

\* Releases that lack a migration, moved one to another version, changed the SQL
\* of one, gave a version to another one, or give a version twice.
M(id, version, sql) == [id |-> id, version |-> version, sql |-> sql]
Releases ==
    << <<M("a", 1, "x"), M("c", 3, "y")>>, <<M("c", 3, "y"), M("a", 4, "x"), M("b", 2, "z")>>,
       <<M("a", 1, "w")>>, <<M("a", 1, "x"), M("d", 3, "y")>>, <<M("a", 1, "x"), M("b", 1, "z")>> >>

\* Three requests of one client and one of another.
ThreeOfOne == [r \in LimitedRequests |-> IF r = 4 THEN n2 ELSE n1]

\* Columns with distinct values, with two that are equal, and with a zero.
Columns == {n1 :> 1 @@ n2 :> 2 @@ n3 :> 3, n1 :> 1 @@ n2 :> 2 @@ n3 :> 2, n1 :> 0 - 1 @@ n2 :> 0 @@ n3 :> 2}

\* One connection or two, and a pool of its own for reads.
PoolConfigs == {[open |-> 1, replica |-> FALSE], [open |-> 1, replica |-> TRUE], [open |-> 2, replica |-> FALSE]}

\* Messages of one letter each, up to a length that two digits of base 2 cannot say.
Letters == UNION {[1 .. n -> {letter}] : n \in 0 .. 5, letter \in {0, 1}}

-----------------------------------------------------------------------------
(* The components on the slots.                                            *)

\* Patterns that share prefixes, end in a parameter or go on after it, and differ
\* in the name of a parameter; paths with an empty segment among them.
RouterM == INSTANCE Router WITH
    Routes <- {<<"/">>, <<"/","a">>, <<"/","a","b">>, <<"/","a","/",":","x">>, <<"/","a","/",":","x","/","b">>,
               <<"/","a","/",":","x","/","a">>, <<"/","b","/","*","x">>, <<"/","a","/",":","y">>,
               <<"/","a","/","b">>, <<"/",":","x">>},
    Requests <- {<<"/">>, <<"/","a">>, <<"/","b">>, <<"/","a","b">>, <<"/","a","/">>, <<"/","a","/","b">>,
                 <<"/","a","/","b","/","b">>, <<"/","a","/","a","/","a">>, <<"/","b","/","a","/","a">>,
                 <<"/","a","/","/","b">>, <<"/","a","/","b","/">>, <<"/","b","/",".",".","/","a">>, <<"/","a","/",".">>},
    Mounts <- {<<"/">>, <<"/","a">>}, MaxRoutes <- 3, Nothing <- None,
    root <- v1, registered <- v2, middlewares <- v3, staticRoutes <- v4

\* Documents with a size, with two tags, with null and with no attribute at all.
D(s, t) == [size |-> s, tags |-> t]
F(f, o, v) == [field |-> f, op |-> o, value |-> v, mandatory |-> FALSE]
Scopes == {{}, {[field |-> "tags", op |-> "eq", value |-> 1, mandatory |-> TRUE]}}
FilterSets == {{}, {F("size", "gte", 2)}, {F("size", "lt", 10)}, {F("size", "between", <<0, 2>>)}, {F("size", "neq", 2)},
    {F("size", "exists", FALSE)}, {F("size", "in", {2, 10}), F("tags", "not_in", {2})}, {F("tags", "eq", 2)},
    {F("size", "eq", 10), F("size", "gt", 2), F("size", "lte", 10)}}
FacetsOf(modes) ==
    {[field |-> f, mode |-> m, limit |-> 1, sort |-> s, missing |-> TRUE] : f \in {"size", "tags"}, m \in modes, s \in {"count", "value"}}
Searches(filters, scopes, facets) ==
    {[query |-> IF c.sort = "value" THEN 1 ELSE Null, filters |-> f \cup scope, facet |-> c, limit |-> 1,
      sort |-> IF c.field = "tags" THEN Null ELSE IF c.sort = "value" THEN "asc" ELSE "desc"] :
        f \in filters, scope \in scopes, c \in facets}

SearchM == INSTANCE Search WITH Ids <- 1 .. 3, Documents <- {D(2, {1}), D(10, {1, 2}), D(Null, {2}), D(None, None)},
    Requests <- Searches(FilterSets, Scopes, FacetsOf({"conjunctive", "disjunctive"})),
    Walked <- Searches({{}, {F("size", "lt", 10)}}, {{}}, {c \in FacetsOf({"conjunctive"}) : c.sort = "count"}),
    MaxFilters <- 3, MaxChanges <- 1, Absent <- None, Null <- Null,
    documents <- v1, walk <- v2, changes <- v3

\* Values of up to four nodes: a struct with two fields; a struct, list or map
\* that may contain itself, directly or through a pointer; a leaf or a struct;
\* and a leaf that fails its rule, which is also what keys are.
Ref(n, p) == [node |-> n, pointer |-> p]
Node(kind, items, ok, empty) == [kind |-> kind, items |-> items, ok |-> ok, empty |-> empty]
Field(ref, rules) == [value |-> ref, rules |-> rules, skip |-> FALSE]
Skipped(ref) == [Field(ref, <<"check">>) EXCEPT !.skip = TRUE]
Item(ref) == [key |-> Ref(4, FALSE), value |-> ref]
RuleSets == {<<>>, <<"check">>, <<"omitempty", "check">>, <<"omitnil", "check", "dive", "check">>,
             <<"dive", "keys", "check", "endkeys", "omitempty">>}
Firsts ==
    {Node("struct", <<Field(a, rules), Field(b, <<"check">>)>>, TRUE, FALSE) :
        a \in {None, Ref(1, TRUE), Ref(2, TRUE), Ref(2, FALSE), Ref(3, FALSE)}, rules \in RuleSets, b \in {None, Ref(2, TRUE)}}
    \cup {Node("struct", <<Skipped(Ref(2, TRUE))>>, TRUE, FALSE)}
Seconds ==
    {Node("struct", <<Field(a, rules)>>, ok, FALSE) :
        a \in {None, Ref(1, TRUE), Ref(2, TRUE), Ref(3, FALSE)}, rules \in {<<>>, <<"check">>, <<"dive", "check">>}, ok \in BOOLEAN}
    \cup {Node(kind, items, TRUE, items = <<>>) : kind \in {"list", "map"},
        items \in {<<>>, <<Item(Ref(3, FALSE))>>, <<Item(Ref(2, FALSE))>>, <<Item(Ref(2, TRUE)), Item(Ref(3, FALSE))>>,
                   <<Item(None), Item(Ref(1, TRUE)), Item(Ref(3, FALSE))>>}}
Thirds == {Node("leaf", <<>>, ok, empty) : ok \in BOOLEAN, empty \in BOOLEAN}
          \cup {Node("struct", <<Field(Ref(4, FALSE), <<"check">>)>>, TRUE, FALSE)}

ValidationM == INSTANCE Validation WITH
    Values <- {<<a, b, c, Node("leaf", <<>>, FALSE, FALSE)>> : a \in Firsts, b \in Seconds, c \in Thirds},
    MaxDepth <- 2, MaxItems <- 2, MaxErrors <- 2, MaxFrames <- 5, Nil <- None,
    value <- v1, result <- v2

-----------------------------------------------------------------------------
engine == <<requestsVars, contextVars, lifecycleVars, healthVars>>
messaging == <<sagaVars, tasksVars, rabbitVars, claimsVars, idVars>>
signing == <<tokenVars, sessionVars>>
slots == <<v1, v2, v3, v4>>

servicesVars == <<part, engine, messaging, signing, dataVars, slots>>

Unused == 0
From3 == <<v3, v4>>

Off4 == v4 = Unused
Off3 == v3 = Unused /\ Off4
Off1 == v1 = Unused /\ v2 = Unused /\ Off3

\* A component begins, or is at rest in one of its initial states.
Starts(name, init, rests) == init /\ (IF part = name THEN TRUE ELSE rests)

EngineStarts ==
    /\ Starts("requests", RequestsInit, chain = CHOOSE c \in Chains : TRUE)
    /\ ContextsInit
    /\ Starts("lifecycle", LifecycleInit, onStart = <<>> /\ onStop = <<>>)
    /\ HealthInit
MessagingStarts ==
    /\ Starts("saga", SagaInit, steps = <<[execute |-> "ok", compensate |-> "ok"]>>)
    /\ TasksInit
    /\ Starts("rabbitmq", RabbitInit, routable = {})
    /\ ClaimsInit
    /\ Starts("identifiers", IdsInit, \A p \in Processes : node[p] = 0)
SigningStarts ==
    /\ Starts("tokens", TokensInit, maxTTL = 3 /\ \A p \in Managers : offset[p] = 0)
    /\ Starts("sessions", SessionsInit, \A u \in Users : jar[u] = Anonymous)
DataStarts ==
    /\ Starts("records", RecordsInit, policy = "reported")
    /\ MigrationsInit
    /\ Starts("accounts", AccountsInit, application = "Enable" /\ accounts = <<>>)
    /\ Starts("pools", PoolsInit, config = [open |-> 1, replica |-> FALSE])
    /\ Starts("pages", PagesInit, table = {} /\ tagged /\ column = n1 :> 1 @@ n2 :> 2 @@ n3 :> 3)
    /\ EphemeralInit
    /\ Starts("generators", GeneratorsInit, tree = [t \in Targets |-> None])
    /\ LimitInit
    /\ BusesInit
    /\ Starts("sketches", SketchesInit, \A item \in Items : fnv[item] = 0)
    /\ Starts("frames", FramesInit, serves)

Slotted == {"router", "search", "validation"}
Parts == Slotted \cup
    {"requests", "contexts", "lifecycle", "health", "saga", "tasks", "rabbitmq", "claims", "identifiers", "tokens", "sessions",
     "records", "migrations", "accounts", "pools", "pages", "ephemeral", "generators", "limit", "buses", "sketches", "frames"}

SlotsStart ==
    \/ part \notin Slotted /\ Off1
    \/ part = "router" /\ RouterM!Init
    \/ part = "search" /\ SearchM!Init /\ Off4
    \/ part = "validation" /\ ValidationM!Init /\ Off3

ServicesInit == part \in Parts /\ EngineStarts /\ MessagingStarts /\ SigningStarts /\ DataStarts /\ SlotsStart

EngineNext ==
    \/ part = "requests" /\ RequestsNext /\ UNCHANGED <<contextVars, lifecycleVars, healthVars>>
    \/ part = "contexts" /\ ContextsNext /\ UNCHANGED <<requestsVars, lifecycleVars, healthVars>>
    \/ part = "lifecycle" /\ LifecycleNext /\ UNCHANGED <<requestsVars, contextVars, healthVars>>
    \/ part = "health" /\ HealthNext /\ UNCHANGED <<requestsVars, contextVars, lifecycleVars>>

MessagingNext ==
    \/ part = "saga" /\ SagaNext /\ UNCHANGED <<tasksVars, rabbitVars, claimsVars, idVars>>
    \/ part = "tasks" /\ TasksNext /\ UNCHANGED <<sagaVars, rabbitVars, claimsVars, idVars>>
    \/ part = "rabbitmq" /\ RabbitNext /\ UNCHANGED <<sagaVars, tasksVars, claimsVars, idVars>>
    \/ part = "claims" /\ ClaimsNext /\ UNCHANGED <<sagaVars, tasksVars, rabbitVars, idVars>>
    \/ part = "identifiers" /\ IdsNext /\ UNCHANGED <<sagaVars, tasksVars, rabbitVars, claimsVars>>

SigningNext ==
    \/ part = "tokens" /\ TokensNext /\ UNCHANGED sessionVars
    \/ part = "sessions" /\ SessionsNext /\ UNCHANGED tokenVars

DataNext ==
    \/ part = "records" /\ RecordsNext
       /\ UNCHANGED <<migrationVars, accountVars, poolVars, pageVars, ephemeralVars, generatorVars, limitVars, busVars, sketchVars, frameVars>>
    \/ part = "migrations" /\ MigrationsNext
       /\ UNCHANGED <<recordVars, accountVars, poolVars, pageVars, ephemeralVars, generatorVars, limitVars, busVars, sketchVars, frameVars>>
    \/ part = "accounts" /\ AccountsNext
       /\ UNCHANGED <<recordVars, migrationVars, poolVars, pageVars, ephemeralVars, generatorVars, limitVars, busVars, sketchVars, frameVars>>
    \/ part = "pools" /\ PoolsNext
       /\ UNCHANGED <<recordVars, migrationVars, accountVars, pageVars, ephemeralVars, generatorVars, limitVars, busVars, sketchVars, frameVars>>
    \/ part = "pages" /\ PagesNext
       /\ UNCHANGED <<recordVars, migrationVars, accountVars, poolVars, ephemeralVars, generatorVars, limitVars, busVars, sketchVars, frameVars>>
    \/ part = "ephemeral" /\ EphemeralNext
       /\ UNCHANGED <<recordVars, migrationVars, accountVars, poolVars, pageVars, generatorVars, limitVars, busVars, sketchVars, frameVars>>
    \/ part = "generators" /\ GeneratorsNext
       /\ UNCHANGED <<recordVars, migrationVars, accountVars, poolVars, pageVars, ephemeralVars, limitVars, busVars, sketchVars, frameVars>>
    \/ part = "limit" /\ LimitNext
       /\ UNCHANGED <<recordVars, migrationVars, accountVars, poolVars, pageVars, ephemeralVars, generatorVars, busVars, sketchVars, frameVars>>
    \/ part = "buses" /\ BusesNext
       /\ UNCHANGED <<recordVars, migrationVars, accountVars, poolVars, pageVars, ephemeralVars, generatorVars, limitVars, sketchVars, frameVars>>
    \/ part = "sketches" /\ SketchesNext
       /\ UNCHANGED <<recordVars, migrationVars, accountVars, poolVars, pageVars, ephemeralVars, generatorVars, limitVars, busVars, frameVars>>
    \/ part = "frames" /\ FramesNext
       /\ UNCHANGED <<recordVars, migrationVars, accountVars, poolVars, pageVars, ephemeralVars, generatorVars, limitVars, busVars, sketchVars>>

SlotsNext ==
    \/ part = "router" /\ RouterM!Next
    \/ part = "search" /\ SearchM!Next /\ UNCHANGED v4
    \/ part = "validation" /\ ValidationM!Next /\ UNCHANGED From3

ServicesNext ==
    \/ EngineNext /\ UNCHANGED <<part, messaging, signing, dataVars, slots>>
    \/ MessagingNext /\ UNCHANGED <<part, engine, signing, dataVars, slots>>
    \/ SigningNext /\ UNCHANGED <<part, engine, messaging, dataVars, slots>>
    \/ DataNext /\ UNCHANGED <<part, engine, messaging, signing, slots>>
    \/ SlotsNext /\ UNCHANGED <<part, engine, messaging, signing, dataVars>>

\* Goroutines that can run do, and timers fire, for requests, for the program's main
\* and for a probe; the other parts promise nothing that must happen. No part can
\* run for ever, so which goroutine runs first needs no fairness.
Advances ==
    \/ part = "requests" /\ (\E r \in Reqs : Work(r) \/ Deadline(r)) /\ UNCHANGED <<lifecycleVars, healthVars>>
    \/ part = "lifecycle" /\ Main /\ UNCHANGED <<requestsVars, healthVars>>
    \/ part = "health" /\ (Answer \/ \E n \in Names : RunCheck(n) \/ CheckExpires(n)) /\ UNCHANGED <<requestsVars, lifecycleVars>>

\* What these steps change; ServicesNext leaves the rest alone.
moving == <<requestsVars, lifecycleVars, healthVars>>

ServicesSpec == ServicesInit /\ [][ServicesNext]_servicesVars /\ WF_moving(Advances)

\* One part alone, for what is said of it and does not hold.
RequestsAlone == part = "requests" /\ ServicesSpec
ContextsAlone == part = "contexts" /\ ServicesSpec
FramesAlone == part = "frames" /\ ServicesSpec

-----------------------------------------------------------------------------
(* What the extended components promise is stated in their modules.        *)

\* What has begun, and what is its end, of request r or of the one part.
Waits(r) ==
    \/ part = "requests" /\ ~IsIdle(r)
    \/ part = "lifecycle" /\ HasSignal
    \/ part = "health" /\ IsProbing
HasEnded(r) ==
    \/ part = "requests" /\ IsEnded(r)
    \/ part = "lifecycle" /\ IsOver
    \/ part = "health" /\ IsAnswered

\* Again and again all that has begun has ended, so that every request ends,
\* whatever its handler, the leader it follows and its client do; a program that
\* has the signal ends unless a hook blocks it; a probe answers whatever its
\* checks do (context_timeout.go:14-37, middleware/singleflight.go:44-82,
\* gpp.go:247-268, health/health.go:106-169).
WaitsEnd == []<>(\A r \in Reqs : Waits(r) => HasEnded(r))

\* What comes from outside is understood as it was meant: requests reach the
\* latest route that matches them, with its parameters, and carry values that no
\* field's tag refuses, however they are nested, shared or circular; the search
\* backends agree on what a client asks for, and a sketch counts all that it was
\* given (tree.go, gpp.go:176-203, router.go:63-190, validation.go:72-258,
\* search/memory.go, search/database.go, bloom/bloom.go:144-169).
EdgesExact ==
    /\ part = "router" => RouterM!RoutesExact
    /\ part = "validation" => ValidationM!ValidationExact /\ ValidationM!ConfigurationExplained
    /\ part = "search" => SearchM!SearchesTrue
    /\ part = "sketches" => EstimatesAddUp
=============================================================================
