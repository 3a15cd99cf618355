------------------------- MODULE IdempotencyProofs -------------------------
(***************************************************************************)
(* What Idempotency promises for any requests, keys, bodies, outcomes and  *)
(* bounds: the store stays within its bound, handlers of one key exclude   *)
(* each other, claims are settled, replays are true and every duplicate has*)
(* its cause on record.                                                    *)
(***************************************************************************)
EXTENDS Idempotency, FiniteSetTheorems, SequenceTheorems, TLAPS

-----------------------------------------------------------------------------
(* The inductive invariant, in named parts.                                *)

\* The response of r is in the store, ready to be replayed.
Remembers(r) ==
    /\ Live(KeyOf[r])
    /\ entries[KeyOf[r]].state = "complete"
    /\ entries[KeyOf[r]].response = r

\* r holds a claim that has not run out.
HoldsLiveClaim(r) == HoldsClaim(r) /\ ~entries[KeyOf[r]].expired

\* Only a handler that committed is completed.
CompletesSuccess == \A r \in Requests : phase[r] = "completing" => outcome[r] = "success"

\* A request between its claim and its answer holds that claim until it runs out.
ClaimsHeld == \A r \in Requests : Executing(r) => r \in overran \/ HoldsLiveClaim(r)

\* r was told that it committed, and nothing of it changes any more.
Settled(r) == phase[r] = "done" /\ outcome[r] = "success" /\ answer[r] = "success"

\* A pending entry is that of an executing request, a complete one the response
\* of a settled request.
Pending(k) ==
    LET owner == entries[k].owner
    IN  Executing(owner) /\ KeyOf[owner] = k /\ entries[k].print = PrintOf[owner]
Completed(k) ==
    LET response == entries[k].response
    IN  /\ response \in Requests /\ Settled(response)
        /\ KeyOf[response] = k /\ entries[k].print = PrintOf[response]
        /\ entries[k].expired => response \in forgotten
EntriesTrue ==
    \A k \in Keys : Has(k) =>
        /\ entries[k].state = "pending" => Pending(k)
        /\ entries[k].state = "complete" => Completed(k)

ReplaysSettled ==
    \A r \in Requests : replayed[r] # NoRequest =>
        /\ KeyOf[replayed[r]] = KeyOf[r] /\ PrintOf[replayed[r]] = PrintOf[r]
        /\ Settled(replayed[r])

\* Until its response is in the store, a committed request is about to complete;
\* after that the response stays there, but for a cause on record.
CommitsRemembered ==
    \A r \in Requests : Committed(r) =>
        r \in overran \cup forgotten \/ phase[r] = "completing" \/ Remembers(r)

Invariant ==
    /\ Types
    /\ CompletesSuccess
    /\ ClaimsHeld
    /\ EntriesTrue
    /\ ReplaysSettled
    /\ CommitsRemembered

-----------------------------------------------------------------------------
(* The store.                                                              *)

LEMMA KeysFinite == IsFiniteSet(Keys)
<1> DEFINE f == [r \in Requests |-> KeyOf[r]]
<1>1. f \in Surjection(Requests, Keys)
    BY DEF Surjection, Keys
<1> QED
    BY <1>1, RequestsAssumption, FS_Surjection

\* An entry is none of the values that stand for no entry or no response.
LEMMA Entries ==
    ASSUME Types, NEW k \in Keys
    PROVE  /\ Has(k) => entries[k] \in Entry
           /\ Has(k) => entries[k].state \in {"pending", "complete"}
           /\ Has(k) => entries[k].owner \in Requests
           /\ Has(k) => entries[k].expired \in BOOLEAN
BY DEF Types, Has, Entry

\* A set of numbers has a least one: the shortest of the intervals 1..i.
LEMMA LeastExists ==
    ASSUME NEW T \in SUBSET Nat, T # {}
    PROVE  \E i \in T : \A j \in T : i <= j
<1> DEFINE Below == {1..i : i \in T}
           R == StrictSubsetOrdering(Nat)
<1>1. Below # {} /\ Below \subseteq FiniteSubsetsOf(Nat)
    <2>1. \A i \in T : IsFiniteSet(1..i) /\ 1..i \subseteq Nat
        BY FS_Interval
    <2> QED
        BY <2>1 DEF FiniteSubsetsOf
<1>2. IsWellFoundedOn(R, FiniteSubsetsOf(Nat))
    BY FS_StrictSubsetOrderingWellFounded
<1>3. \E x \in Below : \A y \in Below : ~ (<<y, x>> \in R)
    <2> HIDE DEF Below, R
    <2> QED
        BY <1>1, <1>2, WFMin, Zenon
<1>4. PICK i \in T : \A j \in T : ~ (<<1..j, 1..i>> \in R)
    BY <1>3
<1>5. ASSUME NEW j \in T, j < i PROVE FALSE
    <2>1. 1..j \subseteq 1..i /\ i \in 1..i /\ i \notin 1..j /\ 1..i \subseteq Nat
        BY <1>5
    <2> QED
        BY <1>4, <2>1 DEF StrictSubsetOrdering
<1> QED
    BY <1>5


\* The places up to i.
UpTo(places, i) == {j \in places : j <= i}

LEMMA UpToFacts ==
    ASSUME NEW top \in Nat, NEW places, places \subseteq 1..top
    PROVE  /\ IsFiniteSet(places) /\ Cardinality(places) \in Nat
           /\ \A i : /\ UpTo(places, i) \subseteq places
                     /\ IsFiniteSet(UpTo(places, i))
                     /\ Cardinality(UpTo(places, i)) \in Nat
                     /\ Cardinality(UpTo(places, i)) <= Cardinality(places)
<1>1. IsFiniteSet(1..top)
    BY FS_Interval
<1>2. IsFiniteSet(places) /\ Cardinality(places) \in Nat
    BY <1>1, FS_Subset, FS_CardinalityType
<1>3. ASSUME NEW i
      PROVE  /\ UpTo(places, i) \subseteq places
             /\ IsFiniteSet(UpTo(places, i))
             /\ Cardinality(UpTo(places, i)) \in Nat
             /\ Cardinality(UpTo(places, i)) <= Cardinality(places)
    <2>1. UpTo(places, i) \subseteq places
        BY DEF UpTo
    <2> QED
        BY <2>1, <1>2, FS_Subset, FS_CardinalityType
<1> QED
    BY <1>2, <1>3

\* The n-th place of a set of places.
LEMMA PlaceExists ==
    ASSUME NEW top \in Nat, NEW places, places \subseteq 1..top,
           NEW n \in Nat \ {0}, n <= Cardinality(places)
    PROVE  \E i \in places : Cardinality(UpTo(places, i)) = n
<1> DEFINE reach == {i \in Nat : Cardinality(UpTo(places, i)) >= n}
<1>1. \A i : IsFiniteSet(UpTo(places, i)) /\ Cardinality(UpTo(places, i)) \in Nat
    BY UpToFacts
<1>2. \A j \in places : j \in Nat /\ 1 <= j /\ j <= top
    OBVIOUS
<1>3. UpTo(places, top) = places
    BY <1>2 DEF UpTo
<1>4. top \in reach
    BY <1>3
<1>5. \E i \in reach : \A j \in reach : i <= j
    <2>1. reach \in SUBSET Nat /\ reach # {}
        BY <1>4
    <2> HIDE DEF reach
    <2> QED
        BY <2>1, LeastExists
<1>6. PICK i \in Nat : Cardinality(UpTo(places, i)) >= n
                        /\ \A j \in Nat : Cardinality(UpTo(places, j)) >= n => i <= j
    BY <1>5
<1>7. i # 0
    <2>1. UpTo(places, 0) = {}
        <3>1. \A j \in places : ~(j <= 0)
            BY <1>2
        <3> QED
            BY <3>1 DEF UpTo
    <2>2. Cardinality(UpTo(places, 0)) = 0
        BY <2>1, FS_EmptySet
    <2> QED
        BY <1>6, <2>2
<1>8. i - 1 \in Nat /\ Cardinality(UpTo(places, i - 1)) < n
    <2>1. i - 1 \in Nat /\ ~(i <= i - 1)
        BY <1>7
    <2> QED
        BY <1>1, <1>6, <2>1
<1>9. i \in places
    <2> SUFFICES ASSUME i \notin places PROVE FALSE
        OBVIOUS
    <2>1. \A j \in places : j <= i <=> j <= i - 1
        BY <1>2
    <2>2. UpTo(places, i) = UpTo(places, i - 1)
        BY <2>1 DEF UpTo
    <2> QED
        BY <1>1, <1>6, <1>8, <2>2
<1>10. UpTo(places, i) = UpTo(places, i - 1) \cup {i} /\ i \notin UpTo(places, i - 1)
    <2>1. \A j \in places : j <= i <=> j <= i - 1 \/ j = i
        BY <1>2
    <2>2. i <= i /\ ~(i <= i - 1)
        OBVIOUS
    <2> QED
        BY <1>9, <2>1, <2>2 DEF UpTo
<1>11. Cardinality(UpTo(places, i)) = Cardinality(UpTo(places, i - 1)) + 1
    BY <1>1, <1>10, FS_AddElement
<1>12. Cardinality(UpTo(places, i)) = n
    BY <1>1, <1>6, <1>8, <1>11
<1> QED
    BY <1>9, <1>12

\* No two places are the n-th.
LEMMA PlaceUnique ==
    ASSUME NEW top \in Nat, NEW places, places \subseteq 1..top,
           NEW i \in places, NEW h \in places,
           Cardinality(UpTo(places, i)) = Cardinality(UpTo(places, h))
    PROVE  i = h
<1>1. ASSUME NEW a \in places, NEW b \in places, a < b
      PROVE  Cardinality(UpTo(places, a)) # Cardinality(UpTo(places, b))
    <2>1. a \in Nat /\ b \in Nat /\ \A j \in places : j \in Nat
        OBVIOUS
    <2>2. UpTo(places, a) \subseteq UpTo(places, b)
        <3>1. \A j \in places : j <= a => j <= b
            BY <1>1, <2>1
        <3> QED
            BY <3>1 DEF UpTo
    <2>3. b \in UpTo(places, b) /\ b \notin UpTo(places, a)
        BY <1>1, <2>1 DEF UpTo
    <2>4. IsFiniteSet(UpTo(places, b))
        BY UpToFacts
    <2>5. UpTo(places, a) # UpTo(places, b)
        BY <2>3
    <2> QED
        BY <2>2, <2>4, <2>5, FS_Subset
<1>2. i < h \/ h < i \/ i = h
    OBVIOUS
<1> QED
    BY <1>1, <1>2

\* A filtered list holds what it held of the keys that stay.
LEMMA FilteredFacts ==
    ASSUME order \in Seq(Keys), NEW kept
    PROVE  /\ Filtered(kept) \in Seq(Keys)
           /\ {Filtered(kept)[i] : i \in DOMAIN Filtered(kept)}
                = {order[i] : i \in DOMAIN order} \cap kept
<1> DEFINE places == {i \in DOMAIN order : order[i] \in kept}
           size == Cardinality(places)
           Place(n) == CHOOSE i \in places : Cardinality(UpTo(places, i)) = n
<1>1. DOMAIN order = 1..Len(order) /\ Len(order) \in Nat
    OBVIOUS
<1>2. places \subseteq 1..Len(order)
    BY <1>1
<1>3. \A i \in places : order[i] \in Keys \cap kept
    BY <1>1
<1>4. {order[i] : i \in DOMAIN order} \cap kept = {order[i] : i \in places}
    OBVIOUS
<1>5. Filtered(kept) = [n \in 1..size |-> order[Place(n)]]
    BY DEF Filtered, UpTo
<1> HIDE DEF places
<1>6. size \in Nat
    BY <1>1, <1>2, UpToFacts
<1>7. ASSUME NEW n \in 1..size
      PROVE  Place(n) \in places
    <2>1. n \in Nat \ {0} /\ n <= Cardinality(places)
        BY <1>6
    <2> HIDE DEF size
    <2>2. \E i \in places : Cardinality(UpTo(places, i)) = n
        BY <1>1, <1>2, <2>1, PlaceExists
    <2> QED
        BY <2>2
<1>8. ASSUME NEW i \in places
      PROVE  \E n \in 1..size : Place(n) = i
    <2> DEFINE n == Cardinality(UpTo(places, i))
    <2>1. n \in Nat /\ n <= size
        BY <1>1, <1>2, UpToFacts
    <2>2. n # 0
        <3>1. i \in UpTo(places, i)
            BY <1>1, <1>2 DEF UpTo
        <3>2. IsFiniteSet(UpTo(places, i))
            BY <1>1, <1>2, UpToFacts
        <3> QED
            BY <3>1, <3>2, FS_EmptySet
    <2>3. Place(n) \in places /\ Cardinality(UpTo(places, Place(n))) = n
        <3>1. \E h \in places : Cardinality(UpTo(places, h)) = n
            OBVIOUS
        <3> HIDE DEF n
        <3> QED
            BY <3>1
    <2>4. Place(n) = i
        <3> HIDE DEF Place
        <3> QED
            BY <1>1, <1>2, <2>3, PlaceUnique
    <2>5. n \in 1..size
        BY <1>6, <2>1, <2>2
    <2> HIDE DEF n
    <2> QED
        BY <2>4, <2>5
<1> HIDE DEF size, Place
<1>9. Filtered(kept) \in Seq(Keys) /\ DOMAIN Filtered(kept) = 1..size
    <2>1. \A n \in 1..size : order[Place(n)] \in Keys
        BY <1>3, <1>7
    <2>2. Filtered(kept) \in [1..size -> Keys]
        BY <1>5, <2>1
    <2> QED
        BY <1>6, <2>2
<1>10. \A k : (\E n \in 1..size : Filtered(kept)[n] = k) <=> (\E i \in places : order[i] = k)
    BY <1>5, <1>7, <1>8
<1>11. {Filtered(kept)[n] : n \in 1..size} = {order[i] : i \in places}
    BY <1>10
<1> QED
    BY <1>4, <1>9, <1>11

-----------------------------------------------------------------------------
(* What a Claim takes out of the map has run out, or is on record.         *)

Phases == {"new", "waiting", "running", "completing", "releasing", "done"}

\* What becomes of the entry of k.
Thins(k) ==
    \/ entries'[k] = entries[k]
    \/ /\ entries'[k] = NoEntry
       /\ Has(k) => \/ entries[k].expired
                    \/ entries[k].state = "complete" /\ entries[k].response \in forgotten'

LEMMA KeptThins ==
    ASSUME Types, NEW gone, entries' = Kept(gone),
           \A k \in gone : entries[k].state = "complete" /\ entries[k].response \in forgotten'
    PROVE  \A k \in Keys : Thins(k)
BY DEF Kept, Live, Thins, Has, Types

LEMMA PurgeThins ==
    ASSUME Types, Purge
    PROVE  \A k \in Keys : Thins(k)
BY KeptThins DEF Purge

\* Entries of an unchanged kind stay true, claims and responses stay where they are.
LEMMA StoreKeeps ==
    ASSUME Invariant, NEW r \in Requests, ~Executing(r), phase[r] # "done",
           phase' \in [Requests -> Phases], phase'[r] # "completing",
           outcome' = outcome, overran' = overran, forgotten \subseteq forgotten',
           \A s \in Requests \ {r} : phase'[s] = phase[s] /\ answer'[s] = answer[s]
    PROVE  /\ CompletesSuccess'
           /\ \A s \in Requests : Settled(s) => s # r /\ Settled(s)'
           /\ \A k \in Keys : Thins(k) /\ Has(k)' =>
                 /\ entries[k].state = "pending" => Pending(k)'
                 /\ entries[k].state = "complete" => Completed(k)'
           /\ \A s \in Requests \ {r} : Executing(s)' /\ Thins(KeyOf[s]) =>
                 s \in overran' \/ HoldsLiveClaim(s)'
           /\ \A s \in Requests : Committed(s)' /\ (Thins(KeyOf[s]) \/ ~Live(KeyOf[s])) =>
                 s \in overran' \cup forgotten' \/ phase'[s] = "completing" \/ Remembers(s)'
<1> USE DEF Invariant
<1>1. CompletesSuccess'
    BY DEF CompletesSuccess
<1>2. \A s \in Requests : Settled(s) => s # r /\ Settled(s)'
    BY DEF Settled
<1>3. ASSUME NEW k \in Keys, Thins(k), Has(k)'
      PROVE  /\ entries[k].state = "pending" => Pending(k)'
             /\ entries[k].state = "complete" => Completed(k)'
    <2>1. entries'[k] = entries[k] /\ Has(k)
        BY <1>3 DEF Thins, Has
    <2>2. ASSUME entries[k].state = "pending" PROVE Pending(k)'
        <3>1. Pending(k) /\ entries[k].owner \in Requests
            BY <2>1, <2>2, Entries DEF EntriesTrue
        <3>2. entries[k].owner # r
            BY <3>1 DEF Pending
        <3> QED
            BY <2>1, <3>1, <3>2 DEF Pending, Executing
    <2>3. ASSUME entries[k].state = "complete" PROVE Completed(k)'
        <3>1. Completed(k)
            BY <2>1, <2>3 DEF EntriesTrue
        <3> QED
            BY <1>2, <2>1, <3>1 DEF Completed
    <2> QED
        BY <2>2, <2>3
<1>4. ASSUME NEW s \in Requests \ {r}, Executing(s)', Thins(KeyOf[s])
      PROVE  s \in overran' \/ HoldsLiveClaim(s)'
    <2>1. Executing(s)
        BY <1>4 DEF Executing
    <2>2. CASE HoldsLiveClaim(s)
        <3>1. entries'[KeyOf[s]] = entries[KeyOf[s]]
            BY <1>4, <2>2 DEF HoldsLiveClaim, HoldsClaim, Thins
        <3> QED
            BY <2>2, <3>1 DEF HoldsLiveClaim, HoldsClaim, Has
    <2> QED
        BY <2>1, <2>2 DEF ClaimsHeld
<1>5. ASSUME NEW s \in Requests, Committed(s)', Thins(KeyOf[s]) \/ ~Live(KeyOf[s])
      PROVE  s \in overran' \cup forgotten' \/ phase'[s] = "completing" \/ Remembers(s)'
    <2>1. Committed(s)
        BY <1>5 DEF Committed
    <2>2. CASE s \in overran \cup forgotten
        BY <2>2
    <2>3. CASE phase[s] = "completing"
        BY <2>3 DEF Executing
    <2>4. CASE Remembers(s)
        <3>1. Live(KeyOf[s]) /\ entries[KeyOf[s]].response = s /\ Thins(KeyOf[s])
            BY <1>5, <2>4 DEF Remembers
        <3>2. CASE entries'[KeyOf[s]] = entries[KeyOf[s]]
            BY <2>4, <3>2 DEF Remembers, Live, Has
        <3>3. CASE s \in forgotten'
            BY <3>3
        <3> QED
            BY <3>1, <3>2, <3>3 DEF Thins, Live
    <2> QED
        BY <2>1, <2>2, <2>3, <2>4 DEF CommitsRemembered
<1> QED
    BY <1>1, <1>2, <1>3, <1>4, <1>5

-----------------------------------------------------------------------------
(* The claim loop.                                                         *)

\* A request that does not get the claim.
LEMMA NotAcquiredKeeps ==
    ASSUME Invariant, NEW r \in Requests,
           ClaimCanceled(r) \/ Reject(r) \/ Conflict(r) \/ Replay(r) \/ Wait(r)
    PROVE  Invariant'
<1> USE DEF Invariant
<1>1. KeyOf[r] \in Keys /\ \A s \in Requests : KeyOf[s] \in Keys
    BY DEF Keys
<1>2. /\ phase[r] \in {"new", "waiting"}
      /\ \E next \in {"waiting", "done"} : phase' = [phase EXCEPT ![r] = next]
      /\ UNCHANGED <<outcome, canceled, overran, forgotten, expiries>>
      /\ UNCHANGED entries \/ Purge
      /\ \A s \in Requests \ {r} : answer'[s] = answer[s]
      /\ answer' \in [Requests -> {"none", "success", "failure"}]
    BY DEF Types, ClaimCanceled, Reject, Conflict, Replay, Wait, Finish, TriesClaim
<1>3. \A k \in Keys : Thins(k)
    BY <1>2, PurgeThins DEF Thins
<1>4. ~Executing(r) /\ phase[r] # "done" /\ phase'[r] \in {"waiting", "done"} /\ ~Executing(r)'
    BY <1>2 DEF Executing, Types
<1>5. phase' \in [Requests -> Phases] /\ \A s \in Requests \ {r} : phase'[s] = phase[s]
    BY <1>2 DEF Types, Phases
<1>6. /\ CompletesSuccess'
      /\ \A s \in Requests : Settled(s) => s # r /\ Settled(s)'
      /\ \A k \in Keys : Has(k)' =>
            /\ entries[k].state = "pending" => Pending(k)'
            /\ entries[k].state = "complete" => Completed(k)'
      /\ \A s \in Requests \ {r} : Executing(s)' => s \in overran' \/ HoldsLiveClaim(s)'
      /\ \A s \in Requests : Committed(s)' =>
            s \in overran' \cup forgotten' \/ phase'[s] = "completing" \/ Remembers(s)'
    <2> HIDE DEF Invariant
    <2> QED
        BY <1>1, <1>2, <1>3, <1>4, <1>5, StoreKeeps
<1>7. EntriesTrue'
    BY <1>3, <1>6 DEF EntriesTrue, Thins, Has
<1>8. ClaimsHeld' /\ CommitsRemembered'
    BY <1>4, <1>6 DEF ClaimsHeld, CommitsRemembered
<1>9. ReplaysSettled'
    <2> DEFINE True(s) == /\ KeyOf[replayed[s]] = KeyOf[s] /\ PrintOf[replayed[s]] = PrintOf[s]
                          /\ Settled(replayed[s])
    <2>1. ASSUME NEW s \in Requests, replayed'[s] = replayed[s], replayed'[s] # NoRequest
          PROVE  True(s)'
        <3>1. replayed[s] \in Requests /\ True(s)
            BY <2>1 DEF Types, ReplaysSettled
        <3> QED
            BY <1>6, <2>1, <3>1 DEF Settled
    <2>2. CASE replayed' = replayed
        BY <2>1, <2>2 DEF ReplaysSettled
    <2>3. CASE Replay(r)
        <3>1. Completed(KeyOf[r]) /\ entries[KeyOf[r]].print = PrintOf[r]
                /\ replayed' = [replayed EXCEPT ![r] = entries[KeyOf[r]].response]
            BY <1>1, <2>3 DEF Replay, SamePrint, Live, EntriesTrue
        <3>2. replayed'[r] = entries[KeyOf[r]].response
            BY <3>1 DEF Types
        <3>3. True(r)'
            <4>1. PICK response \in Requests :
                    /\ response = entries[KeyOf[r]].response /\ Settled(response)
                    /\ KeyOf[response] = KeyOf[r] /\ PrintOf[response] = PrintOf[r]
                BY <3>1 DEF Completed
            <4>2. Settled(response)' /\ replayed'[r] = response
                BY <1>6, <3>2, <4>1
            <4> QED
                BY <4>1, <4>2 DEF Settled
        <3>4. \A s \in Requests \ {r} : replayed'[s] = replayed[s]
            BY <3>1 DEF Types
        <3> QED
            BY <2>1, <3>3, <3>4 DEF ReplaysSettled
    <2> QED
        BY <2>2, <2>3 DEF ClaimCanceled, Reject, Conflict, Wait
<1>10. Types'
    <2>1. entries' \in [Keys -> Entry \cup {NoEntry}]
        BY <1>2 DEF Types, Purge, Kept
    <2>2. replayed' \in [Requests -> Requests \cup {NoRequest}]
        <3>1. CASE Replay(r)
            <4>1. entries[KeyOf[r]] \in Entry
                BY <1>1, <3>1, Entries DEF Replay, Live
            <4> QED
                BY <3>1, <4>1 DEF Types, Entry, Replay
        <3> QED
            BY <3>1 DEF Types, ClaimCanceled, Reject, Conflict, Wait
    <2> QED
        BY <1>2, <1>5, <2>1, <2>2 DEF Types, Phases
<1> QED
    BY <1>6, <1>7, <1>8, <1>9, <1>10

\* A key that is free goes to r; a complete entry that makes room is on record.
LEMMA AcquireKeeps ==
    ASSUME Invariant, NEW r \in Requests, Acquire(r)
    PROVE  Invariant'
<1> USE DEF Invariant
<1> DEFINE claim == [owner |-> r, print |-> PrintOf[r], state |-> "pending",
                     response |-> NoRequest, expired |-> FALSE]
<1>1. KeyOf[r] \in Keys /\ \A s \in Requests : KeyOf[s] \in Keys
    BY DEF Keys
<1>2. PICK gone \in SUBSET LiveKeys :
        /\ entries' = [Kept(gone) EXCEPT ![KeyOf[r]] = claim]
        /\ forgotten' = forgotten \cup {entries[k].response : k \in {g \in gone : entries[g].state = "complete"}}
        /\ gone = {} \/ \E k \in gone : Evictable(k) /\ gone = {k}
    BY DEF Acquire
<1>3. /\ phase[r] \in {"new", "waiting"} /\ phase' = [phase EXCEPT ![r] = "running"]
      /\ UNCHANGED <<outcome, answer, replayed, canceled, overran, expiries>>
      /\ ~Live(KeyOf[r])
    BY DEF Acquire, TriesClaim
<1>4. \A k \in gone : k \in Keys /\ Has(k) /\ entries[k].state = "complete" /\ entries[k].response \in forgotten'
    BY <1>2 DEF LiveKeys, Live, Evictable, FirstWith
<1>5. \A k \in Keys \ {KeyOf[r]} : Thins(k)
    BY <1>2, <1>4 DEF Kept, Live, Thins, Has, Types
<1>6. entries'[KeyOf[r]] = claim /\ claim \in Entry /\ claim # NoEntry
    <2>1. claim \in Entry
        BY DEF Entry
    <2> QED
        BY <1>1, <1>2, <2>1, NoValuesAssumption DEF Kept
<1>7. Types'
    <2>1. entries' \in [Keys -> Entry \cup {NoEntry}]
        BY <1>2, <1>6 DEF Kept, Types
    <2>2. \A k \in gone : entries[k].response \in Requests
        BY <1>4 DEF EntriesTrue, Completed
    <2>3. forgotten' \subseteq Requests
        BY <1>2, <2>2 DEF Types
    <2> QED
        BY <1>3, <2>1, <2>3 DEF Types
<1>8. /\ ~Executing(r) /\ phase[r] # "done" /\ phase'[r] # "completing" /\ forgotten \subseteq forgotten'
      /\ phase' \in [Requests -> Phases] /\ \A s \in Requests \ {r} : phase'[s] = phase[s]
      /\ Executing(r)'
    BY <1>2, <1>3 DEF Executing, Types, Phases
<1>9. /\ CompletesSuccess'
      /\ \A s \in Requests : Settled(s) => s # r /\ Settled(s)'
      /\ \A k \in Keys : Thins(k) /\ Has(k)' =>
            /\ entries[k].state = "pending" => Pending(k)'
            /\ entries[k].state = "complete" => Completed(k)'
      /\ \A s \in Requests \ {r} : Executing(s)' /\ Thins(KeyOf[s]) => s \in overran' \/ HoldsLiveClaim(s)'
      /\ \A s \in Requests : Committed(s)' /\ (Thins(KeyOf[s]) \/ ~Live(KeyOf[s])) =>
            s \in overran' \cup forgotten' \/ phase'[s] = "completing" \/ Remembers(s)'
    <2> HIDE DEF Invariant
    <2> QED
        BY <1>3, <1>8, StoreKeeps
<1>10. EntriesTrue'
    <2>1. Has(KeyOf[r])' => /\ entries'[KeyOf[r]].state = "pending" => Pending(KeyOf[r])'
                            /\ entries'[KeyOf[r]].state # "complete"
        BY <1>6, <1>8 DEF Pending, Executing
    <2>2. \A k \in Keys \ {KeyOf[r]} : Has(k)' => entries'[k] = entries[k]
        BY <1>5 DEF Thins, Has
    <2> QED
        BY <1>5, <1>9, <2>1, <2>2 DEF EntriesTrue
<1>11. ClaimsHeld'
    <2>1. HoldsLiveClaim(r)'
        BY <1>6 DEF HoldsLiveClaim, HoldsClaim, Has
    <2>2. ASSUME NEW s \in Requests \ {r}, Executing(s)', KeyOf[s] = KeyOf[r]
          PROVE  s \in overran'
        <3>1. Executing(s) /\ ~HoldsLiveClaim(s)
            BY <1>3, <1>8, <2>2 DEF Executing, HoldsLiveClaim, HoldsClaim, Live
        <3> QED
            BY <1>3, <3>1 DEF ClaimsHeld
    <2> QED
        BY <1>1, <1>5, <1>9, <2>1, <2>2 DEF ClaimsHeld
<1>12. CommitsRemembered'
    BY <1>1, <1>3, <1>5, <1>9 DEF CommitsRemembered
<1>13. ReplaysSettled'
    <2>1. \A s \in Requests : replayed[s] # NoRequest => replayed[s] \in Requests
        BY DEF Types
    <2> QED
        BY <1>3, <1>9, <2>1 DEF ReplaysSettled, Settled
<1> QED
    BY <1>7, <1>9, <1>10, <1>11, <1>12, <1>13

-----------------------------------------------------------------------------
(* The handler and what follows it.                                        *)

\* A step of r that changes no entry and answers nobody, or r alone.
LEMMA HandlerReturnsKeeps ==
    ASSUME Invariant, NEW r \in Requests, HandlerReturns(r)
    PROVE  Invariant'
<1> USE DEF Invariant
<1>1. PICK result \in Outcomes :
        /\ outcome' = [outcome EXCEPT ![r] = result]
        /\ phase' = [phase EXCEPT ![r] = AfterHandler(result)]
        /\ forgotten' = IF result = "overflow" THEN forgotten \cup {r} ELSE forgotten
    BY DEF HandlerReturns
<1>2. phase[r] = "running" /\ UNCHANGED <<entries, order, answer, replayed, canceled, overran, expiries>>
    BY DEF HandlerReturns
<1>3. result \in AllOutcomes
    BY OutcomesAssumption
<1>4. Types'
    BY <1>1, <1>2, <1>3 DEF Types, AfterHandler
<1>5. /\ outcome'[r] = result /\ phase'[r] = AfterHandler(result) /\ Executing(r) /\ Executing(r)'
      /\ \A s \in Requests \ {r} : phase'[s] = phase[s] /\ outcome'[s] = outcome[s]
    BY <1>1, <1>2 DEF Types, Executing, AfterHandler
<1>6. CompletesSuccess'
    BY <1>5 DEF CompletesSuccess, AfterHandler
<1>7. \A s \in Requests : Settled(s) => Settled(s)'
    BY <1>2, <1>5 DEF Settled
<1>8. EntriesTrue'
    <2>1. ASSUME NEW k \in Keys, Pending(k), entries[k].owner \in Requests PROVE Pending(k)'
        BY <1>2, <1>5, <2>1 DEF Pending, Executing
    <2>2. ASSUME NEW k \in Keys, Completed(k) PROVE Completed(k)'
        BY <1>1, <1>2, <1>7, <2>2 DEF Completed
    <2> QED
        BY <1>2, <2>1, <2>2, Entries DEF EntriesTrue, Has
<1>9. ClaimsHeld'
    BY <1>2, <1>5 DEF ClaimsHeld, HoldsLiveClaim, HoldsClaim, Has, Executing
<1>10. ReplaysSettled'
    BY <1>2, <1>7 DEF ReplaysSettled, Types
<1>11. CommitsRemembered'
    <2>1. Committed(r)' => r \in forgotten' \/ phase'[r] = "completing"
        BY <1>1, <1>5 DEF Committed, AfterHandler
    <2> QED
        BY <1>1, <1>2, <1>5, <2>1 DEF CommitsRemembered, Committed, Remembers, Live, Has
<1> QED
    BY <1>4, <1>6, <1>8, <1>9, <1>10, <1>11

LEMMA CompleteKeeps ==
    ASSUME Invariant, NEW r \in Requests, Complete(r)
    PROVE  Invariant'
<1> USE DEF Invariant
<1>1. KeyOf[r] \in Keys /\ \A s \in Requests : KeyOf[s] \in Keys
    BY DEF Keys
<1>2. /\ phase[r] = "completing" /\ HoldsClaim(r)
      /\ entries' = [entries EXCEPT ![KeyOf[r]].state = "complete",
                                    ![KeyOf[r]].response = r,
                                    ![KeyOf[r]].expired = FALSE]
      /\ phase' = [phase EXCEPT ![r] = "done"] /\ answer' = [answer EXCEPT ![r] = "success"]
      /\ UNCHANGED <<order, outcome, replayed, canceled, overran, forgotten, expiries>>
    BY DEF Complete, Finish
<1>3. /\ entries[KeyOf[r]] \in Entry /\ entries[KeyOf[r]].owner = r
      /\ entries[KeyOf[r]].state = "pending" /\ entries[KeyOf[r]].print = PrintOf[r]
    BY <1>1, <1>2, Entries DEF HoldsClaim, EntriesTrue, Pending
<1>4. /\ entries'[KeyOf[r]] = [owner |-> r, print |-> PrintOf[r], state |-> "complete",
                               response |-> r, expired |-> FALSE]
      /\ entries'[KeyOf[r]] \in Entry
      /\ \A k \in Keys \ {KeyOf[r]} : entries'[k] = entries[k]
    BY <1>1, <1>2, <1>3 DEF Types, Entry
<1>5. Has(KeyOf[r])'
    BY <1>4, NoValuesAssumption DEF Has
<1>6. Types'
    <2>1. entries' \in [Keys -> Entry \cup {NoEntry}]
        BY <1>2, <1>4 DEF Types
    <2> QED
        BY <1>2, <2>1 DEF Types
<1>7. /\ phase'[r] = "done" /\ answer'[r] = "success" /\ outcome[r] = "success"
      /\ \A s \in Requests \ {r} : phase'[s] = phase[s] /\ answer'[s] = answer[s]
    BY <1>2 DEF Types, CompletesSuccess
<1>8. Settled(r)' /\ \A s \in Requests : Settled(s) => Settled(s)'
    BY <1>2, <1>7 DEF Settled
<1>9. CompletesSuccess'
    BY <1>2, <1>7 DEF CompletesSuccess
<1>10. EntriesTrue'
    <2>1. Completed(KeyOf[r])'
        BY <1>4, <1>8 DEF Completed
    <2>2. ASSUME NEW k \in Keys \ {KeyOf[r]}, Pending(k), entries[k].owner \in Requests PROVE Pending(k)'
        <3>1. entries[k].owner # r
            BY <2>2 DEF Pending
        <3> QED
            BY <1>4, <1>7, <2>2, <3>1 DEF Pending, Executing
    <2>3. ASSUME NEW k \in Keys \ {KeyOf[r]}, Completed(k) PROVE Completed(k)'
        <3>1. PICK s \in Requests : s = entries[k].response
            BY <2>3 DEF Completed
        <3>2. Settled(s)' /\ entries'[k] = entries[k]
            BY <1>4, <1>8, <2>3, <3>1 DEF Completed
        <3> HIDE DEF Invariant
        <3> QED
            BY <1>2, <2>3, <3>1, <3>2 DEF Completed
    <2> QED
        BY <1>4, <2>1, <2>2, <2>3, Entries DEF EntriesTrue, Has
<1>11. ClaimsHeld'
    <2>1. ASSUME NEW s \in Requests \ {r}, HoldsLiveClaim(s) PROVE HoldsLiveClaim(s)'
        <3>1. KeyOf[s] # KeyOf[r]
            BY <1>3, <2>1 DEF HoldsLiveClaim, HoldsClaim
        <3> QED
            BY <1>1, <1>4, <2>1, <3>1 DEF HoldsLiveClaim, HoldsClaim, Has
    <2> QED
        BY <1>2, <1>7, <2>1 DEF ClaimsHeld, Executing
<1>12. ReplaysSettled'
    BY <1>2, <1>8 DEF ReplaysSettled, Types
<1>13. CommitsRemembered'
    <2>1. Remembers(r)'
        BY <1>4, <1>5 DEF Remembers, Live
    <2>2. ASSUME NEW s \in Requests \ {r}, Remembers(s) PROVE Remembers(s)'
        <3>1. KeyOf[s] # KeyOf[r]
            BY <1>3, <2>2 DEF Remembers
        <3> QED
            BY <1>1, <1>4, <2>2, <3>1 DEF Remembers, Live, Has
    <2> QED
        BY <1>2, <1>7, <2>1, <2>2 DEF CommitsRemembered, Committed
<1> QED
    BY <1>6, <1>9, <1>10, <1>11, <1>12, <1>13

\* A claim that cannot be completed is lost to an expiry, or its client has gone.
LEMMA CompleteFailsKeeps ==
    ASSUME Invariant, NEW r \in Requests, CompleteFails(r)
    PROVE  Invariant'
<1> USE DEF Invariant
<1>1. /\ phase[r] = "completing" /\ (r \in canceled \/ ~HoldsClaim(r))
      /\ phase' = [phase EXCEPT ![r] = "releasing"]
      /\ forgotten' = IF r \in canceled THEN forgotten \cup {r} ELSE forgotten
      /\ UNCHANGED <<entries, order, outcome, answer, replayed, canceled, overran, expiries>>
    BY DEF CompleteFails
<1>2. Types'
    BY <1>1 DEF Types
<1>3. /\ phase'[r] = "releasing" /\ Executing(r) /\ Executing(r)'
      /\ \A s \in Requests \ {r} : phase'[s] = phase[s]
    BY <1>1 DEF Types, Executing
<1>4. CompletesSuccess'
    BY <1>1, <1>3 DEF CompletesSuccess
<1>5. \A s \in Requests : Settled(s) => Settled(s)'
    BY <1>1, <1>3 DEF Settled
<1>6. EntriesTrue'
    <2>1. ASSUME NEW k \in Keys, Pending(k), entries[k].owner \in Requests PROVE Pending(k)'
        BY <1>1, <1>3, <2>1 DEF Pending, Executing
    <2>2. ASSUME NEW k \in Keys, Completed(k) PROVE Completed(k)'
        BY <1>1, <1>5, <2>2 DEF Completed
    <2> QED
        BY <1>1, <2>1, <2>2, Entries DEF EntriesTrue, Has
<1>7. ClaimsHeld'
    BY <1>1, <1>3 DEF ClaimsHeld, HoldsLiveClaim, HoldsClaim, Has, Executing
<1>8. ReplaysSettled'
    BY <1>1, <1>5 DEF ReplaysSettled, Types
<1>9. CommitsRemembered'
    <2>1. r \in overran' \cup forgotten'
        BY <1>1, <1>3 DEF ClaimsHeld, HoldsLiveClaim
    <2> QED
        BY <1>1, <1>3, <2>1 DEF CommitsRemembered, Committed, Remembers, Live, Has
<1> QED
    BY <1>2, <1>4, <1>6, <1>7, <1>8, <1>9

\* Only the owner takes its pending entry out.
LEMMA ReleaseKeeps ==
    ASSUME Invariant, NEW r \in Requests, Release(r)
    PROVE  Invariant'
<1> USE DEF Invariant
<1>1. KeyOf[r] \in Keys /\ \A s \in Requests : KeyOf[s] \in Keys
    BY DEF Keys
<1>2. /\ phase[r] = "releasing"
      /\ \/ HoldsClaim(r) /\ entries' = [entries EXCEPT ![KeyOf[r]] = NoEntry]
         \/ ~HoldsClaim(r) /\ UNCHANGED entries
      /\ phase' = [phase EXCEPT ![r] = "done"] /\ answer' = [answer EXCEPT ![r] = StatusSent(outcome[r])]
      /\ UNCHANGED <<outcome, replayed, canceled, overran, forgotten, expiries>>
    BY DEF Release, Finish
<1>3. \A k \in Keys :
        \/ entries'[k] = entries[k]
        \/ entries'[k] = NoEntry /\ entries[k].state = "pending" /\ entries[k].owner = r
    <2>1. CASE HoldsClaim(r) /\ entries' = [entries EXCEPT ![KeyOf[r]] = NoEntry]
        <3>1. \A k \in Keys : entries'[k] = IF k = KeyOf[r] THEN NoEntry ELSE entries[k]
            BY <2>1 DEF Types
        <3> QED
            BY <2>1, <3>1 DEF HoldsClaim
    <2>2. CASE UNCHANGED entries
        BY <2>2
    <2> QED
        BY <1>2, <2>1, <2>2
<1>4. Types'
    BY <1>2 DEF Types, StatusSent
<1>5. /\ phase'[r] = "done"
      /\ \A s \in Requests \ {r} : phase'[s] = phase[s] /\ answer'[s] = answer[s]
    BY <1>2 DEF Types
<1>6. CompletesSuccess'
    BY <1>2, <1>5 DEF CompletesSuccess
<1>7. \A s \in Requests : Settled(s) => Settled(s)'
    BY <1>2, <1>5 DEF Settled
<1>8. EntriesTrue'
    <2>1. ASSUME NEW k \in Keys, Has(k)', Pending(k), entries[k].owner \in Requests, entries[k].state = "pending"
          PROVE  Pending(k)'
        <3>1. entries'[k] = entries[k]
            BY <1>3, <2>1 DEF Has
        <3>2. entries[k].owner # r
            BY <1>2, <2>1, <3>1 DEF Pending, HoldsClaim, Has, Types
        <3> QED
            BY <1>5, <2>1, <3>1, <3>2 DEF Pending, Executing
    <2>2. ASSUME NEW k \in Keys, Has(k)', Completed(k)
          PROVE  Completed(k)'
        BY <1>2, <1>3, <1>7, <2>2 DEF Completed, Has
    <2> QED
        BY <1>3, <2>1, <2>2, Entries DEF EntriesTrue, Has
<1>9. ClaimsHeld'
    <2>1. ASSUME NEW s \in Requests \ {r}, HoldsLiveClaim(s) PROVE HoldsLiveClaim(s)'
        BY <1>1, <1>3, <2>1 DEF HoldsLiveClaim, HoldsClaim, Has
    <2> QED
        BY <1>2, <1>5, <2>1 DEF ClaimsHeld, Executing
<1>10. ReplaysSettled'
    BY <1>2, <1>7 DEF ReplaysSettled, Types
<1>11. CommitsRemembered'
    <2>1. ASSUME NEW s \in Requests, Remembers(s) PROVE Remembers(s)'
        BY <1>1, <1>3, <2>1 DEF Remembers, Live, Has
    <2> QED
        BY <1>2, <1>5, <2>1 DEF CommitsRemembered, Committed
<1> QED
    BY <1>4, <1>6, <1>8, <1>9, <1>10, <1>11

-----------------------------------------------------------------------------
(* The environment.                                                        *)

LEMMA CancelKeeps ==
    ASSUME Invariant, NEW r \in Requests, Cancel(r)
    PROVE  Invariant'
<1>1. UNCHANGED <<entries, order, phase, outcome, answer, replayed, overran, forgotten, expiries>>
    BY DEF Cancel
<1>2. Types'
    BY DEF Cancel, Types, Invariant
<1> QED
    BY <1>1, <1>2 DEF Invariant, CompletesSuccess, ClaimsHeld, EntriesTrue, ReplaysSettled,
        CommitsRemembered, HoldsLiveClaim, HoldsClaim, Executing, Pending, Completed, Settled,
        Committed, Remembers, Live, Has

\* What runs out is on record: the owner of a claim, or the response.
LEMMA ExpireKeeps ==
    ASSUME Invariant, NEW k \in Keys, Expire(k)
    PROVE  Invariant'
<1> USE DEF Invariant
<1>1. /\ Has(k) /\ ~entries[k].expired
      /\ entries' = [entries EXCEPT ![k].expired = TRUE]
      /\ overran' = IF entries[k].state = "pending" THEN overran \cup {entries[k].owner} ELSE overran
      /\ forgotten' = IF entries[k].state = "complete" THEN forgotten \cup {entries[k].response} ELSE forgotten
      /\ expiries' = expiries + 1
      /\ UNCHANGED <<order, phase, outcome, answer, replayed, canceled>>
    BY DEF Expire, Live
<1>2. entries[k] \in Entry /\ entries[k].state \in {"pending", "complete"} /\ entries[k].owner \in Requests
    BY <1>1, Entries
<1>3. /\ entries'[k] = [entries[k] EXCEPT !.expired = TRUE] /\ entries'[k] \in Entry
      /\ \A j \in Keys \ {k} : entries'[j] = entries[j]
    BY <1>1, <1>2 DEF Types, Entry
<1>4. Has(k)' /\ \A j \in Keys : Has(j) <=> Has(j)'
    BY <1>1, <1>3, NoValuesAssumption DEF Has
<1>5. /\ entries'[k].owner = entries[k].owner /\ entries'[k].print = entries[k].print
      /\ entries'[k].state = entries[k].state /\ entries'[k].response = entries[k].response
      /\ entries'[k].expired = TRUE
    BY <1>2, <1>3 DEF Entry
<1>6. entries[k].state = "complete" => entries[k].response \in Requests
    BY <1>1 DEF EntriesTrue, Completed
<1>7. Types'
    <2>1. entries' \in [Keys -> Entry \cup {NoEntry}]
        BY <1>1, <1>3 DEF Types
    <2> QED
        BY <1>1, <1>2, <1>6, <2>1 DEF Types
<1>8. CompletesSuccess' /\ ReplaysSettled'
    BY <1>1 DEF CompletesSuccess, ReplaysSettled, Settled
<1>9. EntriesTrue'
    <2>1. ASSUME NEW j \in Keys, Pending(j) PROVE Pending(j)'
        BY <1>1, <1>3, <1>5, <2>1 DEF Pending, Executing
    <2>2. ASSUME NEW j \in Keys, Has(j), entries[j].state = "complete", Completed(j) PROVE Completed(j)'
        BY <1>1, <1>3, <1>5, <2>2 DEF Completed, Settled
    <2> QED
        BY <1>3, <1>4, <1>5, <2>1, <2>2 DEF EntriesTrue
<1>10. ClaimsHeld'
    <2>1. ASSUME NEW s \in Requests, HoldsLiveClaim(s) PROVE s \in overran' \/ HoldsLiveClaim(s)'
        <3>1. KeyOf[s] \in Keys
            BY DEF Keys
        <3> QED
            BY <1>1, <1>3, <1>4, <2>1, <3>1 DEF HoldsLiveClaim, HoldsClaim
    <2> QED
        BY <1>1, <2>1 DEF ClaimsHeld, Executing
<1>11. CommitsRemembered'
    <2>1. ASSUME NEW s \in Requests, Remembers(s) PROVE s \in forgotten' \/ Remembers(s)'
        <3>1. KeyOf[s] \in Keys
            BY DEF Keys
        <3> QED
            BY <1>1, <1>3, <1>4, <2>1, <3>1 DEF Remembers, Live
    <2> QED
        BY <1>1, <2>1 DEF CommitsRemembered, Committed
<1> QED
    BY <1>7, <1>8, <1>9, <1>10, <1>11

-----------------------------------------------------------------------------
(* The bound of the store.                                                 *)

Present == {k \in Keys : Has(k)}

\* The list follows a map that loses the keys outside kept.
LEMMA ListFollows ==
    ASSUME Types, Bounded, NEW kept, order' = Filtered(kept), Present' = Present \cap kept
    PROVE  Bounded'
<1>1. order \in Seq(Keys) /\ {order[i] : i \in DOMAIN order} = Present
    BY DEF Bounded, Present
<1>2. order' \in Seq(Keys) /\ {order'[i] : i \in DOMAIN order'} = Present'
    BY <1>1, FilteredFacts
<1>3. Cardinality(Present) <= MaxEntries
    BY DEF Bounded, Present
<1>4. IsFiniteSet(Present) /\ Present' \subseteq Present
    BY KeysFinite, FS_Subset DEF Present
<1>5. Cardinality(Present') <= Cardinality(Present) /\ Cardinality(Present) \in Nat /\ Cardinality(Present') \in Nat
    BY <1>4, FS_Subset, FS_CardinalityType
<1> QED
    BY <1>2, <1>3, <1>5, BoundsAssumption DEF Bounded, Present

LEMMA PurgeBounded ==
    ASSUME Types, Bounded, Purge
    PROVE  Bounded'
<1>1. order' = Filtered(LiveKeys)
    <2>1. LiveKeys \ {} = LiveKeys
        OBVIOUS
    <2> QED
        BY <2>1 DEF Purge, Listed
<1>2. \A k \in Keys : Has(k)' <=> Live(k)
    BY DEF Purge, Kept, Has, Live
<1>3. Present' = Present \cap LiveKeys
    BY <1>2 DEF Present, LiveKeys, Live
<1> QED
    BY <1>1, <1>3, ListFollows

\* A claim is appended once there is room for it.
LEMMA AcquireBounded ==
    ASSUME Types, Bounded, NEW r \in Requests, Acquire(r)
    PROVE  Bounded'
<1> DEFINE claim == [owner |-> r, print |-> PrintOf[r], state |-> "pending",
                     response |-> NoRequest, expired |-> FALSE]
<1>1. PICK gone \in SUBSET LiveKeys :
        /\ \/ Cardinality(LiveKeys) < MaxEntries /\ gone = {}
           \/ Cardinality(LiveKeys) >= MaxEntries /\ \E k \in gone : Evictable(k) /\ gone = {k}
        /\ entries' = [Kept(gone) EXCEPT ![KeyOf[r]] = claim]
        /\ order' = Append(Listed(gone), KeyOf[r])
    BY DEF Acquire
<1>2. KeyOf[r] \in Keys /\ KeyOf[r] \notin LiveKeys
    BY DEF Keys, Acquire, LiveKeys
<1>3. claim \in Entry
    BY DEF Entry
<1>4. \A k \in Keys : Has(k)' <=> k \in LiveKeys \ gone \/ k = KeyOf[r]
    <2>1. \A k \in Keys : entries'[k] = IF k = KeyOf[r] THEN claim
                                        ELSE IF Live(k) /\ k \notin gone THEN entries[k] ELSE NoEntry
        BY <1>1 DEF Kept
    <2> HIDE DEF claim
    <2> QED
        BY <1>3, <2>1, NoValuesAssumption DEF Has, Live, LiveKeys
<1>5. Present' = (LiveKeys \ gone) \cup {KeyOf[r]}
    BY <1>2, <1>4 DEF Present, LiveKeys
<1>6. LiveKeys \subseteq Present /\ IsFiniteSet(LiveKeys) /\ Cardinality(LiveKeys) \in Nat
      /\ Cardinality(LiveKeys) <= MaxEntries
    <2>1. LiveKeys \subseteq Present /\ IsFiniteSet(Present)
        BY KeysFinite, FS_Subset DEF LiveKeys, Present, Live
    <2>2. IsFiniteSet(LiveKeys) /\ Cardinality(LiveKeys) <= Cardinality(Present)
        BY <2>1, FS_Subset
    <2>3. Cardinality(Present) \in Nat /\ Cardinality(LiveKeys) \in Nat
        BY <2>1, <2>2, FS_CardinalityType
    <2> QED
        BY <2>1, <2>2, <2>3, BoundsAssumption DEF Bounded, Present
<1>7. IsFiniteSet(LiveKeys \ gone) /\ Cardinality(LiveKeys \ gone) \in Nat
      /\ Cardinality(LiveKeys \ gone) < MaxEntries
    <2>1. CASE Cardinality(LiveKeys) < MaxEntries /\ gone = {}
        <3>1. LiveKeys \ gone = LiveKeys
            BY <2>1
        <3> QED
            BY <1>6, <2>1, <3>1
    <2>2. CASE Cardinality(LiveKeys) >= MaxEntries /\ \E k \in gone : Evictable(k) /\ gone = {k}
        <3>1. PICK k \in LiveKeys : gone = {k}
            BY <2>2
        <3>2. IsFiniteSet(LiveKeys \ {k}) /\ Cardinality(LiveKeys \ {k}) = Cardinality(LiveKeys) - 1
            BY <1>6, <3>1, FS_RemoveElement
        <3>3. Cardinality(LiveKeys \ {k}) \in Nat
            BY <3>2, FS_CardinalityType
        <3> QED
            BY <1>6, <3>1, <3>2, <3>3, BoundsAssumption
    <2> QED
        BY <1>1, <2>1, <2>2
<1>8. IsFiniteSet(Present') /\ Cardinality(Present') <= MaxEntries
    <2>1. KeyOf[r] \notin LiveKeys \ gone
        BY <1>2
    <2>2. Cardinality((LiveKeys \ gone) \cup {KeyOf[r]}) = Cardinality(LiveKeys \ gone) + 1
          /\ IsFiniteSet((LiveKeys \ gone) \cup {KeyOf[r]})
        BY <1>7, <2>1, FS_AddElement
    <2> QED
        BY <1>5, <1>7, <2>2, BoundsAssumption
<1>9. Listed(gone) \in Seq(Keys) /\ {Listed(gone)[i] : i \in DOMAIN Listed(gone)} = LiveKeys \ gone
    <2>1. order \in Seq(Keys) /\ {order[i] : i \in DOMAIN order} = Present
        BY DEF Bounded, Present
    <2>2. Present \cap (LiveKeys \ gone) = LiveKeys \ gone
        BY <1>6
    <2> QED
        BY <2>1, <2>2, FilteredFacts DEF Listed
<1>10. order' \in Seq(Keys) /\ {order'[i] : i \in DOMAIN order'} = Present'
    <2> DEFINE list == Listed(gone)
    <2>1. order' = Append(list, KeyOf[r]) /\ list \in Seq(Keys)
        BY <1>1, <1>9
    <2> HIDE DEF list
    <2>2. /\ order' \in Seq(Keys) /\ DOMAIN order' = 1..(Len(list) + 1) /\ Len(list) \in Nat
          /\ DOMAIN list = 1..Len(list)
          /\ \A i \in 1..Len(list) : order'[i] = list[i]
          /\ order'[Len(list) + 1] = KeyOf[r]
        BY <1>2, <2>1
    <2>3. 1..(Len(list) + 1) = 1..Len(list) \cup {Len(list) + 1}
        BY <2>2
    <2>4. {order'[i] : i \in DOMAIN order'} = {list[i] : i \in DOMAIN list} \cup {KeyOf[r]}
        BY <2>2, <2>3
    <2> QED
        BY <1>5, <1>9, <2>2, <2>4 DEF list
<1> QED
    BY <1>8, <1>10 DEF Bounded, Present

LEMMA ReleaseBounded ==
    ASSUME Types, Bounded, NEW r \in Requests, Release(r)
    PROVE  Bounded'
<1>1. CASE HoldsClaim(r) /\ entries' = [entries EXCEPT ![KeyOf[r]] = NoEntry]
           /\ order' = Filtered(Keys \ {KeyOf[r]})
    <2>1. \A k \in Keys : entries'[k] = IF k = KeyOf[r] THEN NoEntry ELSE entries[k]
        BY <1>1 DEF Types
    <2>2. Present' = Present \cap (Keys \ {KeyOf[r]})
        BY <2>1 DEF Present, Has
    <2> QED
        BY <1>1, <2>2, ListFollows
<1>2. CASE UNCHANGED <<entries, order>>
    BY <1>2 DEF Bounded, Has
<1> QED
    BY <1>1, <1>2 DEF Release

LEMMA BoundedKept ==
    ASSUME Types, Bounded, [Next]_vars
    PROVE  Bounded'
<1> DEFINE Same == order' = order /\ \A k \in Keys : Has(k)' <=> Has(k)
<1>1. ASSUME Same PROVE Bounded'
    <2>1. Present' = Present
        BY <1>1 DEF Present
    <2> QED
        BY <1>1, <2>1 DEF Bounded, Present
<1>2. ASSUME NEW r \in Requests,
             ClaimCanceled(r) \/ HandlerReturns(r) \/ CompleteFails(r) \/ Cancel(r)
      PROVE  Same
    BY <1>2 DEF ClaimCanceled, HandlerReturns, CompleteFails, Cancel, Has
<1>3. ASSUME NEW r \in Requests, Acquire(r) PROVE Bounded'
    BY <1>3, AcquireBounded
<1>4. ASSUME NEW r \in Requests, Reject(r) \/ Conflict(r) \/ Replay(r) \/ Wait(r) PROVE Bounded'
    BY <1>4, PurgeBounded DEF Reject, Conflict, Replay, Wait
<1>5. ASSUME NEW r \in Requests, Complete(r) PROVE Same
    <2>1. KeyOf[r] \in Keys /\ entries[KeyOf[r]] \in Entry
        BY <1>5, Entries DEF Complete, HoldsClaim, Keys
    <2>2. entries'[KeyOf[r]] \in Entry /\ order' = order
          /\ \A k \in Keys \ {KeyOf[r]} : entries'[k] = entries[k]
        BY <1>5, <2>1 DEF Complete, Types, Entry
    <2> QED
        BY <2>1, <2>2, NoValuesAssumption DEF Has
<1>6. ASSUME NEW r \in Requests, Release(r) PROVE Bounded'
    BY <1>6, ReleaseBounded
<1>7. ASSUME NEW k \in Keys, Expire(k) PROVE Same
    <2>1. entries[k] \in Entry
        BY <1>7, Entries DEF Expire, Live
    <2>2. entries'[k] \in Entry /\ order' = order /\ \A j \in Keys \ {k} : entries'[j] = entries[j]
        BY <1>7, <2>1 DEF Expire, Types, Entry
    <2> QED
        BY <2>1, <2>2, NoValuesAssumption DEF Has
<1>8. ASSUME UNCHANGED vars PROVE Same
    BY <1>8 DEF vars, Has
<1> HIDE DEF Same
<1> QED
    BY <1>1, <1>2, <1>3, <1>4, <1>5, <1>6, <1>7, <1>8 DEF Next, AllAnswered

-----------------------------------------------------------------------------
(* The theorems.                                                           *)

LEMMA InitInvariant == Init => Invariant /\ Bounded
<1> SUFFICES ASSUME Init PROVE Invariant /\ Bounded
    OBVIOUS
<1>1. Invariant
    BY DEF Init, Invariant, Types, CompletesSuccess, ClaimsHeld, Executing, EntriesTrue, Has,
        ReplaysSettled, CommitsRemembered, Committed
<1>2. Present = {}
    BY DEF Init, Present, Has
<1>3. Cardinality(Present) = 0
    BY <1>2, FS_EmptySet
<1>4. order \in Seq(Keys) /\ {order[i] : i \in DOMAIN order} = {}
    BY DEF Init
<1> QED
    BY <1>1, <1>2, <1>3, <1>4, BoundsAssumption DEF Bounded, Present

LEMMA NextInvariant == Invariant /\ [Next]_vars => Invariant'
<1> SUFFICES ASSUME Invariant, [Next]_vars PROVE Invariant'
    OBVIOUS
<1>1. ASSUME NEW r \in Requests,
             ClaimCanceled(r) \/ Reject(r) \/ Conflict(r) \/ Replay(r) \/ Wait(r)
      PROVE  Invariant'
    BY <1>1, NotAcquiredKeeps
<1>2. ASSUME NEW r \in Requests, Acquire(r) PROVE Invariant'
    BY <1>2, AcquireKeeps
<1>3. ASSUME NEW r \in Requests, HandlerReturns(r) PROVE Invariant'
    BY <1>3, HandlerReturnsKeeps
<1>4. ASSUME NEW r \in Requests, Complete(r) PROVE Invariant'
    BY <1>4, CompleteKeeps
<1>5. ASSUME NEW r \in Requests, CompleteFails(r) PROVE Invariant'
    BY <1>5, CompleteFailsKeeps
<1>6. ASSUME NEW r \in Requests, Release(r) PROVE Invariant'
    BY <1>6, ReleaseKeeps
<1>7. ASSUME NEW r \in Requests, Cancel(r) PROVE Invariant'
    BY <1>7, CancelKeeps
<1>8. ASSUME NEW k \in Keys, Expire(k) PROVE Invariant'
    BY <1>8, ExpireKeeps
<1>9. ASSUME UNCHANGED vars PROVE Invariant'
    BY <1>9 DEF vars, Invariant, Types, CompletesSuccess, ClaimsHeld, EntriesTrue, ReplaysSettled,
        CommitsRemembered, HoldsLiveClaim, HoldsClaim, Executing, Pending, Completed, Settled,
        Committed, Remembers, Live, Has
<1> QED
    BY <1>1, <1>2, <1>3, <1>4, <1>5, <1>6, <1>7, <1>8, <1>9 DEF Next, AllAnswered

LEMMA Invariance == Spec => [](Invariant /\ Bounded)
<1>1. Invariant /\ Bounded /\ [Next]_vars => (Invariant /\ Bounded)'
    BY NextInvariant, BoundedKept DEF Invariant
<1> QED
    BY <1>1, InitInvariant, PTL DEF Spec

\* The variables have their types, the map never holds more than MaxEntries
\* entries, whatever expires and whoever is evicted, and the list holds the keys
\* of the map (Claim, Complete and Release of the store).
THEOREM TypeCorrect == Spec => []TypeOK
<1>1. Invariant /\ Bounded => TypeOK
    BY DEF Invariant, TypeOK
<1> QED
    BY <1>1, Invariance, PTL

\* Two handlers run for one key only when the claim of one of them expired under
\* it: the owner check of Complete and Release (IdempotencyMiddleware).
THEOREM HandlersExclude == Spec => []ExclusiveExecution
<1>1. Invariant => ExclusiveExecution
    <2> SUFFICES ASSUME Invariant, NEW r \in Requests, NEW other \in Requests,
                        r # other, KeyOf[r] = KeyOf[other], Executing(r), Executing(other)
                 PROVE  r \in overran \/ other \in overran
        BY DEF ExclusiveExecution
    <2>1. \A s \in {r, other} : s \in overran \/ entries[KeyOf[r]].owner = s
        BY DEF Invariant, ClaimsHeld, HoldsLiveClaim, HoldsClaim
    <2> QED
        BY <2>1
<1> QED
    BY <1>1, Invariance, PTL

\* A pending claim belongs to a request that is still going to settle it, after
\* an error, a panic or a canceled client too (the deferred release).
THEOREM ClaimsAreSettled == Spec => []NoOrphanClaim
<1>1. Invariant => NoOrphanClaim
    BY DEF Invariant, NoOrphanClaim, EntriesTrue, Pending
<1> QED
    BY <1>1, Invariance, PTL

\* A replayed response is that of a committed request for the same key and body
\* that was told so itself (the replay branch of IdempotencyMiddleware).
THEOREM ReplaysTrue == Spec => []ReplaysAreTrue
<1>1. Invariant => ReplaysAreTrue
    BY DEF Invariant, ReplaysAreTrue, ReplaysSettled, Settled
<1> QED
    BY <1>1, Invariance, PTL

\* Two requests commit one operation only when a claim ran out under its handler
\* or the store lost a response: too large, client gone, evicted or expired.
THEOREM DuplicatesHaveCause == Spec => []DuplicatesExplained
<1>1. Invariant => DuplicatesExplained
    <2> SUFFICES ASSUME Invariant, NEW r \in Requests, NEW other \in Requests, r # other,
                        KeyOf[r] = KeyOf[other], Committed(r), Committed(other),
                        r \notin overran \cup forgotten, other \notin overran \cup forgotten
                 PROVE  FALSE
        BY DEF DuplicatesExplained
    <2>1. \A s \in {r, other} : \/ Executing(s) /\ HoldsLiveClaim(s)
                                \/ Remembers(s)
        BY DEF Invariant, CommitsRemembered, ClaimsHeld, Executing
    <2>2. \A s \in {r, other} : \/ entries[KeyOf[r]].state = "pending" /\ entries[KeyOf[r]].owner = s
                                \/ entries[KeyOf[r]].state = "complete" /\ entries[KeyOf[r]].response = s
        BY <2>1 DEF HoldsLiveClaim, HoldsClaim, Remembers
    <2>3. (entries[KeyOf[r]].state = "pending") # (entries[KeyOf[r]].state = "complete")
        BY <2>2
    <2> QED
        BY <2>2, <2>3
<1> QED
    BY <1>1, Invariance, PTL

=============================================================================
