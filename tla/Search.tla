-------------------------------- MODULE Search --------------------------------
(***************************************************************************)
(* One resource of the search package over its two backends: the process's *)
(* own documents (memory.go) and a PostgreSQL table (database.go). Requests *)
(* filter, sort, count facets and page by offset; a scope adds filters that *)
(* no facet leaves out (resource.go). Documents have a size, an integer, and *)
(* tags, several words; words are small numbers.                           *)
(***************************************************************************)
EXTENDS Naturals, Sequences, FiniteSets, SequencesExt

CONSTANTS
    Ids,           \* document identifiers, naturals
    Documents,     \* what is indexed: [size |-> .., tags |-> ..]
    Requests,      \* requests of clients
    Walked,        \* those of which clients read every page
    MaxFilters,    \* search.MaxFilters
    MaxChanges,    \* bound: documents indexed or deleted
    Absent, Null   \* no such attribute or document; an attribute that is null

VARIABLES
    documents,     \* [Ids -> document or Absent]
    walk,          \* the client that reads the pages of a request
    changes        \* documents indexed and deleted

searchVars == <<documents, walk, changes>>

NoWalk == [at |-> "idle", request |-> Absent, backend |-> Absent, offset |-> 0, total |-> 0, seen |-> <<>>,
           kept |-> {}, met |-> {}]

Init ==
    /\ documents \in [Ids -> Documents \cup {Absent}]
    /\ walk = NoWalk
    /\ changes = 0

-----------------------------------------------------------------------------
Ranges == {"gt", "gte", "lt", "lte", "between"}

\* NormalizeRequest: tags have no range, and the scope counts as filters.
Normalizes(request) ==
    /\ Cardinality(request.filters) <= MaxFilters
    /\ \A f \in request.filters : f.op \in Ranges => f.field = "size"
    /\ request.limit > 0 /\ request.facet.limit > 0

InRange(op, v, x) ==
    \/ op = "gt" /\ v > x
    \/ op = "gte" /\ v >= x
    \/ op = "lt" /\ v < x
    \/ op = "lte" /\ v <= x
    \/ op = "between" /\ v >= x[1] /\ v <= x[2]

\* attributeValues
Values(d, field) ==
    IF d[field] \in {Absent, Null} THEN {} ELSE IF field = "size" THEN {d.size} ELSE d.tags

Equal(d, f) ==
    \/ f.op \in {"eq", "neq"} /\ f.value \in Values(d, f.field)
    \/ f.op \in {"in", "not_in"} /\ f.value \cap Values(d, f.field) # {}

\* matchFilter: a null is a zero.
MemoryMatches(d, f) ==
    \/ f.op = "exists" /\ (d[f.field] # Absent) = f.value
    \/ f.op \in {"eq", "in"} /\ Equal(d, f)
    \/ f.op \in {"neq", "not_in"} /\ ~Equal(d, f)
    \/ f.op \in Ranges /\ d[f.field] # Absent /\ InRange(f.op, IF d.size = Null THEN 0 ELSE d.size, f.value)

\* The condition that sqlBuilder writes; one that is null selects nothing.
DatabaseMatches(d, f) ==
    \/ f.op = "exists" /\ (d[f.field] # Absent) = f.value
    \/ f.op \in {"eq", "in"} /\ Equal(d, f)
    \/ f.op \in {"neq", "not_in"} /\ ~Equal(d, f)
    \/ f.op \in Ranges /\ d[f.field] \notin {Absent, Null} /\ InRange(f.op, d.size, f.value)

Matches(backend, d, f) == IF backend = "memory" THEN MemoryMatches(d, f) ELSE DatabaseMatches(d, f)

\* filterDocuments, where: the words asked for are among the tags.
Found(backend, query, filters) ==
    {i \in Ids : /\ documents[i] # Absent
                 /\ query = Null \/ query \in Values(documents[i], "tags")
                 /\ \A f \in filters : Matches(backend, documents[i], f)}

\* sortDocuments, orderBy: documents without a value come last in both directions.
Precedes(sort, i, j) ==
    LET a == Values(documents[i], "size")
        b == Values(documents[j], "size")
        less == \E x \in a, y \in b : IF sort = "asc" THEN x < y ELSE x > y
    IN  \/ sort # Null /\ (less \/ (a # {} /\ b = {}))
        \/ (sort = Null \/ a = b) /\ i < j

Hits(backend, request) ==
    SetToSortSeq(Found(backend, request.query, request.filters), LAMBDA i, j : Precedes(request.sort, i, j))

-----------------------------------------------------------------------------
\* Mutant: a facet leaves out the scope as well.
WithoutFieldAtAll(filters, field) == {f \in filters : f.field # field}

\* filtersWithoutField
WithoutField(filters, field) == {f \in filters : f.field # field \/ f.mandatory}

FacetFilters(request) ==
    IF request.facet.mode = "disjunctive" THEN WithoutField(request.filters, request.facet.field) ELSE request.filters

\* The documents of a bucket; those without a value are in the one of Null.
Bucket(backend, request, value) ==
    {i \in Found(backend, request.query, FacetFilters(request)) :
        LET values == Values(documents[i], request.facet.field)
        IN  IF value = Null THEN values = {} /\ request.facet.missing ELSE value \in values}

FacetValues(backend, request) ==
    {v \in {Null} \cup UNION {Values(documents[i], request.facet.field) : i \in {k \in Ids : documents[k] # Absent}} :
        Bucket(backend, request, v) # {}}

\* Values of one backend are in the order of numbers, with null a zero, those of
\* the other in the order of their text, with null at the end; two digits at most.
Rank(backend, v) ==
    IF backend = "memory" THEN (IF v = Null THEN 0 ELSE v)
    ELSE IF v = Null THEN 1000
    ELSE IF v < 10 THEN v * 100 ELSE (v \div 10) * 100 + 1 + (v % 10)

\* aggregateFacet, compileFacet: the buckets up to the limit.
Facet(backend, request) ==
    LET count(v) == Cardinality(Bucket(backend, request, v))
        before(v, w) == IF request.facet.sort = "count" /\ count(v) # count(w) THEN count(v) > count(w)
                        ELSE Rank(backend, v) < Rank(backend, w)
        ordered == SetToSortSeq(FacetValues(backend, request), before)
    IN  SubSeq(ordered, 1, IF Len(ordered) < request.facet.limit THEN Len(ordered) ELSE request.facet.limit)

\* The GraphQL field's argument includeMissing is no name that SearchRequest decodes.
DecodeGraphQL(request) == [request EXCEPT !.facet.missing = FALSE]

-----------------------------------------------------------------------------
\* What becomes of a walk that goes on while a document changes.
Meets(id, kinds) ==
    IF walk.at \in {"page", "hits"}
    THEN [walk EXCEPT !.met = @ \cup kinds \cup (IF walk.at = "hits" THEN {"between"} ELSE {}), !.kept = @ \ {id}]
    ELSE walk

Change(id, d, kinds) ==
    /\ changes < MaxChanges
    /\ documents' = [documents EXCEPT ![id] = d]
    /\ walk' = Meets(id, kinds)
    /\ changes' = changes + 1

Index(id, d) == documents[id] # d /\ Change(id, d, IF documents[id] = Absent THEN {"grew"} ELSE {"grew", "shrank"})

Delete(id) == documents[id] # Absent /\ Change(id, Absent, {"shrank"})

Begin(request, backend) ==
    /\ walk = NoWalk /\ Normalizes(request)
    /\ walk' = [NoWalk EXCEPT !.at = "page", !.request = request, !.backend = backend,
                              !.kept = Found(backend, request.query, request.filters)]
    /\ UNCHANGED <<documents, changes>>

\* A page, and the cursor if there is a next one; the offset 0 has no cursor.
Page(total) ==
    LET hits == Hits(walk.backend, walk.request)
        last == walk.offset + walk.request.limit
        to == IF last < Len(hits) THEN last ELSE Len(hits)
        items == SubSeq(hits, walk.offset + 1, to)
        next == walk.offset + Len(items)
    IN  walk' = [walk EXCEPT !.seen = @ \o items, !.offset = next, !.total = total,
                             !.at = IF next < total /\ next > 0 THEN "page" ELSE "ended"]

\* MemoryBackend.Search works on a snapshot ...
SearchMemory ==
    /\ walk.at = "page" /\ walk.backend = "memory"
    /\ Page(Len(Hits("memory", walk.request)))
    /\ UNCHANGED <<documents, changes>>

\* ... and DatabaseBackend.Search asks for the total first.
QueryCount ==
    /\ walk.at = "page" /\ walk.backend = "database"
    /\ walk' = [walk EXCEPT !.at = "hits", !.total = Len(Hits("database", walk.request))]
    /\ UNCHANGED <<documents, changes>>

QueryHits ==
    /\ walk.at = "hits"
    /\ Page(walk.total)
    /\ UNCHANGED <<documents, changes>>

Next ==
    \/ \E id \in Ids : Delete(id) \/ \E d \in Documents : Index(id, d)
    \/ \E request \in Walked, backend \in {"memory", "database"} : Begin(request, backend)
    \/ SearchMemory \/ QueryCount \/ QueryHits

-----------------------------------------------------------------------------
Backends == {"memory", "database"}
Asked == {request \in Requests : Normalizes(request)}
OnlyEqual(field, value) == [field |-> field, op |-> "eq", value |-> value, mandatory |-> FALSE]

\* The documents a range may find because they have a null.
NullInRange(request) == {i \in Ids : documents[i] # Absent /\ documents[i].size = Null
                                      /\ \E f \in request.filters : f.op \in Ranges}

\* Both backends find the same documents in the same order, and the same facets
\* where none is cut off, but for documents with a null in a filter by range.
BackendsAgree == \A request \in Asked :
    LET facet(backend) == Facet(backend, [request EXCEPT !.facet.limit = 100])
    IN  /\ SelectSeq(Hits("memory", request), LAMBDA i : i \notin NullInRange(request)) = Hits("database", request)
        /\ NullInRange(request) = {} =>
              \A v \in ToSet(facet("memory")) \cup ToSet(facet("database")) :
                  Bucket("memory", request, v) = Bucket("database", request, v)

\* A bucket counts what the client would find if it chose its value, beside the
\* filters that a conjunctive facet keeps, or instead of its own where the facet
\* is disjunctive; no bucket that was cut off has more than one that was kept.
FacetsTrue == \A request \in Asked, backend \in Backends :
    LET chosen(v) == {f \in request.filters : request.facet.mode = "conjunctive" \/ f.mandatory \/ f.field # request.facet.field}
                         \cup {OnlyEqual(request.facet.field, v)}
        kept == ToSet(Facet(backend, request))
    IN  /\ \A v \in kept \ {Null} : Bucket(backend, request, v) = Found(backend, request.query, chosen(v))
        /\ request.facet.sort = "count" => \A v \in kept, w \in FacetValues(backend, request) \ kept :
              Cardinality(Bucket(backend, request, v)) >= Cardinality(Bucket(backend, request, w))

\* Whatever else a request asks for, hits and facets are of documents in its scope.
ScopeHolds == \A request \in Asked, backend \in Backends :
    LET scoped == Found(backend, Null, {f \in request.filters : f.mandatory})
    IN  /\ Found(backend, request.query, request.filters) \subseteq scoped
        /\ \A v \in ToSet(Facet(backend, request)) : Bucket(backend, request, v) \subseteq scoped

\* A client that reads page after page sees no document twice unless one came,
\* and every document that was there and stayed as it was unless one went, or
\* one came between the two queries of a page.
WalksExact ==
    /\ "grew" \notin walk.met => IsInjective(walk.seen)
    /\ walk.at = "ended" /\ "shrank" \notin walk.met /\ ~({"grew", "between"} \subseteq walk.met) =>
           walk.kept \subseteq ToSet(walk.seen)
    /\ walk.at = "ended" /\ walk.met = {} => ToSet(walk.seen) = walk.kept /\ walk.total = Len(walk.seen)

\* Over GraphQL a request finds and counts the same, but never what is missing.
GraphQLAgrees == \A request \in Asked, backend \in Backends :
    /\ Hits(backend, DecodeGraphQL(request)) = Hits(backend, request)
    /\ \A v \in FacetValues(backend, DecodeGraphQL(request)) :
           v # Null /\ Bucket(backend, DecodeGraphQL(request), v) = Bucket(backend, request, v)

SearchesTrue == WalksExact /\ (walk = NoWalk => BackendsAgree /\ FacetsTrue /\ ScopeHolds /\ GraphQLAgrees)
=============================================================================
