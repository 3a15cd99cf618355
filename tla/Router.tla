------------------------------- MODULE Router -------------------------------
(***************************************************************************)
(* The radix tree of tree.go, which holds the routes of one method, and    *)
(* what ServeHTTP (gpp.go) and RouterGroup (router.go) do with it: routes  *)
(* are registered one by one with the middlewares their group has by then, *)
(* and a request that no route takes goes to the longest static mount. The *)
(* routes here are those of GET, in the engine's own group. Paths are      *)
(* sequences of characters, because the tree splits them there.            *)
(***************************************************************************)
EXTENDS Naturals, Sequences, FiniteSets, SequencesExt

CONSTANTS
    Routes,      \* patterns that may be registered
    Mounts,      \* paths that may be mounted by StaticFS
    Requests,    \* request paths to look up
    MaxRoutes,   \* bound: registrations
    Nothing      \* no handlers

VARIABLES
    root,          \* the tree
    registered,    \* the registrations: pattern and middlewares in force
    middlewares,   \* number of middlewares of the group
    staticRoutes   \* Engine.staticRoutes: mount and middlewares in force

routerVars == <<root, registered, middlewares, staticRoutes>>

Node(kind, path, handlers, wild, kids) ==
    [kind |-> kind, path |-> path, name |-> IF kind = "static" THEN <<>> ELSE Tail(path),
     handlers |-> handlers, wild |-> wild, kids |-> kids]

\* A child with its byte of indices; a wildcard child has none.
Kid(index, node) == [index |-> index, node |-> node]

Before(path, n) == SubSeq(path, 1, n)
After(path, n) == SubSeq(path, n + 1, Len(path))

\* Characters of path before the first of chars.
Up(path, chars) == CHOOSE n \in 0 .. Len(path) :
    /\ \A i \in 1 .. n : path[i] \notin chars
    /\ n = Len(path) \/ path[n + 1] \in chars

CommonPrefix(p, q) == CHOOSE n \in 0 .. Len(p) :
    /\ n <= Len(q) /\ Before(p, n) = Before(q, n)
    /\ n = Len(p) \/ n = Len(q) \/ p[n + 1] # q[n + 1]

Init ==
    /\ root = Node("static", <<>>, Nothing, FALSE, <<>>)
    /\ registered = <<>>
    /\ middlewares = 0
    /\ staticRoutes = <<>>

-----------------------------------------------------------------------------
\* Mutant: the part of a node that is split off loses its children.
TailWithoutKids(n, i) == [n EXCEPT !.path = After(n.path, i), !.kids = <<>>, !.wild = FALSE]

\* What is left of a node that is split.
TailOf(n, i) == [n EXCEPT !.path = After(n.path, i)]

Split(n, i) ==
    IF i = Len(n.path) THEN n
    ELSE Node("static", Before(n.path, i), Nothing, FALSE, <<Kid(n.path[i + 1], TailOf(n, i))>>)

RECURSIVE Insert(_, _, _)

\* The node of a path that starts with a wildcard: a segment, and what follows it.
WildNode(path, handlers) ==
    LET end == Up(path, {"/"})
        kind == IF path[1] = "*" THEN "catch all" ELSE "param"
    IN  IF end = Len(path) THEN Node(kind, path, handlers, FALSE, <<>>)
        ELSE Node(kind, Before(path, end), Nothing, FALSE,
                  <<Kid(Nothing, Insert(Node("static", <<>>, Nothing, FALSE, <<>>), After(path, end), handlers))>>)

StaticNode(path, handlers) ==
    LET n == Up(path, {":", "*"})
    IN  IF n = Len(path) THEN Node("static", path, handlers, FALSE, <<>>)
        ELSE Node("static", Before(path, n), Nothing, TRUE, <<Kid(Nothing, WildNode(After(path, n), handlers))>>)

\* insertChild: the first child goes on where there is a wildcard child, or
\* where a wildcard node has one child; then a child with the same first byte.
Insert(n, path, handlers) ==
    LET i == CommonPrefix(path, n.path)
        here == Split(n, i)
        rest == After(path, i)
        Into(k) == [here EXCEPT !.kids[k].node = Insert(@, rest, handlers)]
        Same == {k \in DOMAIN here.kids : rest # <<>> /\ here.kids[k].index = rest[1]}
    IN  CASE rest = <<>> -> [here EXCEPT !.handlers = handlers]
          [] rest # <<>> /\ (here.wild \/ (here.kind # "static" /\ rest[1] = "/" /\ Len(here.kids) = 1)) -> Into(1)
          [] OTHER ->
               IF Same # {} THEN Into(CHOOSE k \in Same : \A l \in Same : k <= l)
               ELSE IF rest[1] \in {":", "*"}
               THEN [here EXCEPT !.wild = TRUE, !.kids = Append(@, Kid(Nothing, WildNode(rest, handlers)))]
               ELSE [here EXCEPT !.kids = Append(@, Kid(rest[1], StaticNode(rest, handlers)))]

Found(handlers, params) == [handlers |-> handlers, params |-> params]

With(params, node, value) == IF node.name = <<>> THEN params ELSE Append(params, <<node.name, value>>)

\* getValue: the handlers of a path, and the parameters on the way. Where a
\* wildcard is to be, a static child that came first takes no path at all.
RECURSIVE Value(_, _, _)
Value(n, path, params) ==
    LET rest == After(path, Len(n.path))
        Same == {k \in DOMAIN n.kids : n.kids[k].index = rest[1]}
        first == n.kids[1].node
        end == Up(rest, {"/"})
        passed == With(params, first, Before(rest, end))
    IN  CASE path = n.path -> Found(n.handlers, params)
          [] ~IsPrefix(n.path, path) -> Found(Nothing, params)
          [] OTHER ->
               IF ~n.wild
               THEN IF Same = {} THEN Found(Nothing, params)
                    ELSE Value(n.kids[CHOOSE k \in Same : \A l \in Same : k <= l].node, rest, params)
               ELSE CASE first.kind = "catch all" -> Found(first.handlers, With(params, first, rest))
                      [] first.kind = "static" -> Found(Nothing, params)
                      [] first.kind = "param" ->
                           IF end = Len(rest) THEN Found(first.handlers, passed)
                           ELSE IF first.kids = <<>> THEN Found(Nothing, passed)
                           ELSE Value(first.kids[1].node, After(rest, end), passed)

-----------------------------------------------------------------------------
\* Handle: the chain holds the middlewares that the group has now; the same
\* pattern again replaces the handlers.
Handle(route) ==
    /\ Len(registered) < MaxRoutes
    /\ registered' = Append(registered, [route |-> route, middlewares |-> middlewares])
    /\ root' = Insert(root, route, registered'[Len(registered) + 1])
    /\ UNCHANGED <<middlewares, staticRoutes>>

Use ==
    /\ middlewares < 1
    /\ middlewares' = middlewares + 1
    /\ UNCHANGED <<root, registered, staticRoutes>>

\* addStaticRoute keeps the longest mount first.
StaticFS(mount) ==
    /\ \A other \in ToSet(staticRoutes) : other.mount # mount
    /\ staticRoutes' = SortSeq(Append(staticRoutes, [mount |-> mount, middlewares |-> middlewares]),
                               LAMBDA p, q : Len(p.mount) > Len(q.mount))
    /\ UNCHANGED <<root, registered, middlewares>>

Next == (\E route \in Routes : Handle(route)) \/ Use \/ \E mount \in Mounts : StaticFS(mount)

\* A segment of path is "." or "..".
HasDots(path) == \E i, n \in DOMAIN path :
    /\ i = 1 \/ path[i - 1] = "/"
    /\ n \in {i, i + 1} /\ \A k \in i .. n : path[k] = "."
    /\ n = Len(path) \/ path[n + 1] = "/"

\* staticRelativePath: a mount takes its own path and those below it, unless a
\* segment of what is below goes up or stays.
Takes(mount, path) ==
    /\ mount = <<"/">> \/ mount = path \/ IsPrefix(Append(mount, "/"), path)
    /\ ~HasDots(IF mount = <<"/">> THEN path ELSE After(path, Len(mount)))

\* matchStaticRoute: the first mount that takes the path.
MatchStatic(method, path) ==
    IF method \in {"GET", "HEAD"} THEN SelectSeq(staticRoutes, LAMBDA s : Takes(s.mount, path)) ELSE <<>>

\* The answer to a preflight request: the engine's middlewares of now, and a 204.
Preflight == [preflight |-> middlewares]

\* ServeHTTP: the route, else the mount; else OPTIONS of a path that another
\* method has is answered; else not found. Params may hold what an earlier
\* attempt has put there.
ServeHTTP(method, path) ==
    LET found == IF method = "GET" THEN Value(root, path, <<>>) ELSE Found(Nothing, <<>>)
        takers == MatchStatic(method, path)
        other == Value(root, path, found.params)
    IN  CASE found.handlers # Nothing -> found
          [] found.handlers = Nothing /\ takers # <<>> -> Found(Head(takers), found.params)
          [] found.handlers = Nothing /\ takers = <<>> ->
               IF method = "OPTIONS" /\ other.handlers # Nothing THEN Found(Preflight, other.params)
               ELSE Found(Nothing, found.params)

-----------------------------------------------------------------------------
\* The parameters with which a pattern takes a path, none or one sequence: a
\* :name takes a segment, a *name what is left, if there is anything.
RECURSIVE Match(_, _, _)
Match(route, path, params) ==
    CASE route = <<>> -> IF path = <<>> THEN {params} ELSE {}
      [] route # <<>> /\ path = <<>> -> {}
      [] OTHER ->
           LET name == Before(route, Up(route, {"/"}))
               end == Up(path, {"/"})
               Plus(value) == IF Len(name) = 1 THEN params ELSE Append(params, <<Tail(name), value>>)
           IN  CASE route[1] = ":" -> Match(After(route, Len(name)), After(path, end), Plus(Before(path, end)))
                 [] route[1] = "*" -> {Plus(path)}
                 [] OTHER -> IF route[1] = path[1] THEN Match(Tail(route), Tail(path), params) ELSE {}

\* Two patterns part at a wildcard of one of them, or within its name.
Conflict(p, q) ==
    LET n == CommonPrefix(p, q)
        Segment(path) == CHOOSE s \in 0 .. n : (s = 0 \/ path[s] = "/") /\ \A i \in s + 1 .. n : path[i] # "/"
        Wild(path) == Segment(path) < Len(path) /\ path[Segment(path) + 1] \in {":", "*"}
    IN  /\ p # q
        /\ \/ n < Len(p) /\ n < Len(q) /\ (p[n + 1] \in {":", "*"} \/ q[n + 1] \in {":", "*"})
           \/ Wild(p) /\ Wild(q) /\ \E path \in {p, q} : n < Len(path) /\ path[n + 1] # "/"

Takers(path) == {i \in DOMAIN registered : Match(registered[i].route, path, <<>>) # {}}

IsLatest(i) == \A j \in DOMAIN registered : registered[j].route = registered[i].route => j <= i

PartsFromNone(i) == \A j \in DOMAIN registered : ~Conflict(registered[i].route, registered[j].route)

\* In whatever order routes are registered, a request reaches nothing but the
\* latest registration of a pattern it matches, with that pattern's parameters
\* and the middlewares of that moment; the longest mount above its path; for
\* OPTIONS the engine's middlewares, where such a pattern is; or nothing. And it
\* does reach a pattern that parts from no other at a wildcard, whatever the
\* other patterns do, and a mount where no pattern takes it. Patterns that part
\* at a wildcard can lose their paths, to a mount or to not found.
RoutesExact ==
    \A method \in {"GET", "HEAD", "POST", "OPTIONS"}, path \in Requests :
        LET served == ServeHTTP(method, path)
            mounts == ToSet(MatchStatic(method, path))
            Reached(i) == IsLatest(i) /\ served.handlers = registered[i]
        IN  /\ \/ served.handlers = Nothing /\ mounts = {}
               \/ served.handlers \in mounts /\ \A s \in mounts : Len(s.mount) <= Len(served.handlers.mount)
               \/ method = "OPTIONS" /\ Takers(path) # {} /\ served.handlers = Preflight
               \/ /\ method = "GET"
                  /\ \E i \in Takers(path) : Reached(i) /\ served.params \in Match(registered[i].route, path, <<>>)
            /\ \A i \in Takers(path) : PartsFromNone(i) /\ IsLatest(i) =>
                  CASE method = "GET" -> Reached(i)
                    [] method = "OPTIONS" -> served.handlers = Preflight
                    [] OTHER -> TRUE
=============================================================================
