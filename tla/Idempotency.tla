---------------------------- MODULE Idempotency ----------------------------
(***************************************************************************)
(* middleware/idempotency.go over middleware/idempotency_store.go: requests*)
(* that carry an Idempotency-Key claim it in the process-local store, run  *)
(* the rest of the handler chain into a buffer, and store the response for *)
(* replay.  Requests interleave at every call on the store, which holds    *)
(* its mutex for the whole call.                                           *)
(*                                                                         *)
(* A request is identified with the random owner it draws, its key is the  *)
(* scoped digest, its print the fingerprint of the body.  Requests rejected*)
(* before the first claim (method, no key, sizes) touch nothing and are    *)
(* left out.  Time is abstracted to what removeExpiredLocked compares: an  *)
(* entry may become expired at any moment after it was written.            *)
(***************************************************************************)
EXTENDS Naturals, Sequences, FiniteSets

CONSTANTS
    Requests,      \* requests with an Idempotency-Key; retries are requests too
    KeyOf,         \* [Requests -> scopedIdempotencyKey]
    PrintOf,       \* [Requests -> idempotencyFingerprint]
    MaxEntries,    \* IdempotencyConfig.MaxEntries
    Outcomes,      \* what the handlers of this instance may do
    MaxCancels,    \* bound: requests whose client goes away
    MaxExpiries,   \* bound: entries that expire
    NoEntry,       \* a key that is not in the map
    NoRequest      \* a pending entry's response

Keys == {KeyOf[r] : r \in Requests}

\* Handlers commit and answer 2xx ("success"), the same with a body beyond
\* MaxResponseBytes ("overflow"), write a non-2xx response ("refused"), return
\* an error without writing ("error") or panic.
AllOutcomes == {"success", "overflow", "refused", "error", "panic"}

ASSUME RequestsAssumption == IsFiniteSet(Requests)
ASSUME OutcomesAssumption == Outcomes \subseteq AllOutcomes
ASSUME BoundsAssumption == MaxEntries \in Nat \ {0} /\ MaxCancels \in Nat /\ MaxExpiries \in Nat
VARIABLES
    entries,    \* [Keys -> entry of MemoryIdempotencyStore.entries]
    order,      \* MemoryIdempotencyStore.order: the keys, oldest entry first
    phase,      \* where each request is in the middleware
    outcome,    \* what the rest of the chain did, "none" before
    answer,     \* status the client gets: "none", "success" or "failure"
    replayed,   \* request whose stored response was replayed
    canceled,   \* requests whose context is canceled
    overran,    \* history: requests whose claim expired under their handler
    forgotten,  \* history: committed requests the store lost for a known cause
    expiries    \* history: entries that expired so far, bounded by MaxExpiries

vars == <<entries, order, phase, outcome, answer, replayed, canceled, overran, forgotten, expiries>>

Entry ==
    [owner: Requests, print: {PrintOf[r] : r \in Requests}, state: {"pending", "complete"},
     response: Requests \cup {NoRequest}, expired: BOOLEAN]

ASSUME NoValuesAssumption == NoRequest \notin Requests /\ NoEntry \notin Entry

-----------------------------------------------------------------------------
Init ==
    /\ entries = [k \in Keys |-> NoEntry]
    /\ order = <<>>
    /\ phase = [r \in Requests |-> "new"]
    /\ outcome = [r \in Requests |-> "none"]
    /\ answer = [r \in Requests |-> "none"]
    /\ replayed = [r \in Requests |-> NoRequest]
    /\ canceled = {}
    /\ overran = {}
    /\ forgotten = {}
    /\ expiries = 0

Finish(r, status) ==
    /\ phase' = [phase EXCEPT ![r] = "done"]
    /\ answer' = [answer EXCEPT ![r] = status]

-----------------------------------------------------------------------------
(* The store.                                                              *)

Has(k) == entries[k] # NoEntry

\* What removeExpiredLocked leaves.
Live(k) == Has(k) /\ ~entries[k].expired

LiveKeys == {k \in Keys : Live(k)}

\* k is the first key of the list that satisfies a test.
FirstWith(k, Test(_)) ==
    \E i \in DOMAIN order :
        /\ order[i] = k
        /\ Test(k)
        /\ \A j \in 1..(i - 1) : ~Test(order[j])

\* Mutant: the oldest entry makes room, pending or not.
EvictableAny(k) == FirstWith(k, Live)

\* evictCompletedLocked: the oldest of the complete entries.
Evictable(k) == FirstWith(k, LAMBDA key : Live(key) /\ entries[key].state = "complete")

\* Mutant: Release deletes the entry of the key, whoever owns it.
HoldsAnyClaim(r) == Has(KeyOf[r])

\* The condition of Complete and Release; neither looks at the expiry.
HoldsClaim(r) ==
    /\ Has(KeyOf[r])
    /\ entries[KeyOf[r]].state = "pending"
    /\ entries[KeyOf[r]].owner = r

\* A Claim purges the expired entries and drops those in gone.
Kept(gone) == [k \in Keys |-> IF Live(k) /\ k \notin gone THEN entries[k] ELSE NoEntry]

\* Mutant: the list keeps the keys that left the map.
ListedStill(gone) == order

\* What is left of the list when only the keys in kept stay.
Filtered(kept) ==
    LET places == {i \in DOMAIN order : order[i] \in kept}
        Place(n) == CHOOSE i \in places : Cardinality({j \in places : j <= i}) = n
    IN  [n \in 1..Cardinality(places) |-> order[Place(n)]]

Listed(gone) == Filtered(LiveKeys \ gone)

Purge == entries' = Kept({}) /\ order' = Listed({})

Committed(r) == outcome[r] \in {"success", "overflow"}

-----------------------------------------------------------------------------
(* The claim loop.                                                         *)

\* A canceled context: Claim returns its error, and so does the poll's wait.
ClaimCanceled(r) ==
    /\ phase[r] \in {"new", "waiting"}
    /\ r \in canceled
    /\ Finish(r, "failure")
    /\ UNCHANGED <<entries, order, outcome, replayed, canceled, overran, forgotten, expiries>>

\* Mutant: Claim is called once, in front of the loop.
TriesClaimOnce(r) == phase[r] = "new" /\ r \notin canceled

TriesClaim(r) == phase[r] \in {"new", "waiting"} /\ r \notin canceled

\* The key is free and there is room, or a complete entry to evict.
Acquire(r) ==
    /\ TriesClaim(r)
    /\ ~Live(KeyOf[r])
    /\ \E gone \in SUBSET LiveKeys :
        /\ \/ Cardinality(LiveKeys) < MaxEntries /\ gone = {}
           \/ Cardinality(LiveKeys) >= MaxEntries /\ \E k \in gone : Evictable(k) /\ gone = {k}
        /\ entries' =
            [Kept(gone) EXCEPT ![KeyOf[r]] =
                [owner |-> r, print |-> PrintOf[r], state |-> "pending",
                 response |-> NoRequest, expired |-> FALSE]]
        /\ order' = Append(Listed(gone), KeyOf[r])
        /\ forgotten' =
            forgotten \cup {entries[k].response : k \in {g \in gone : entries[g].state = "complete"}}
    /\ phase' = [phase EXCEPT ![r] = "running"]
    /\ UNCHANGED <<outcome, answer, replayed, canceled, overran, expiries>>

\* ErrIdempotencyStoreCapacity, answered 503.
Reject(r) ==
    /\ TriesClaim(r)
    /\ ~Live(KeyOf[r])
    /\ Cardinality(LiveKeys) >= MaxEntries
    /\ ~\E k \in LiveKeys : Evictable(k)
    /\ Purge
    /\ Finish(r, "failure")
    /\ UNCHANGED <<outcome, replayed, canceled, overran, forgotten, expiries>>

\* Mutant: the fingerprint is compared only while the claim is pending.
SamePrintIfPending(r) ==
    entries[KeyOf[r]].state = "pending" => entries[KeyOf[r]].print = PrintOf[r]

SamePrint(r) == entries[KeyOf[r]].print = PrintOf[r]

\* The key was used with another request: 409.
Conflict(r) ==
    /\ TriesClaim(r)
    /\ Live(KeyOf[r])
    /\ ~SamePrint(r)
    /\ Purge
    /\ Finish(r, "failure")
    /\ UNCHANGED <<outcome, replayed, canceled, overran, forgotten, expiries>>

Replay(r) ==
    /\ TriesClaim(r)
    /\ Live(KeyOf[r])
    /\ SamePrint(r)
    /\ entries[KeyOf[r]].state = "complete"
    /\ replayed' = [replayed EXCEPT ![r] = entries[KeyOf[r]].response]
    /\ Purge
    /\ Finish(r, "success")
    /\ UNCHANGED <<outcome, canceled, overran, forgotten, expiries>>

\* Another request holds the claim: wait PendingPoll and claim again.
Wait(r) ==
    /\ TriesClaim(r)
    /\ Live(KeyOf[r])
    /\ SamePrint(r)
    /\ entries[KeyOf[r]].state = "pending"
    /\ phase' = [phase EXCEPT ![r] = "waiting"]
    /\ Purge
    /\ UNCHANGED <<outcome, answer, replayed, canceled, overran, forgotten, expiries>>

Claim(r) == ClaimCanceled(r) \/ Acquire(r) \/ Reject(r) \/ Conflict(r) \/ Replay(r) \/ Wait(r)

-----------------------------------------------------------------------------
(* The rest of the chain, and what follows it.                             *)

\* Mutant: a panic leaves the middleware without the deferred release.
AfterHandlerNoDefer(result) ==
    CASE result = "success" -> "completing"
      [] result = "panic" -> "done"
      [] OTHER -> "releasing"

\* A 2xx response within the limit is completed, everything else released: at
\* once, or by the deferred function when the handler panicked.
AfterHandler(result) == IF result = "success" THEN "completing" ELSE "releasing"

\* c.Next returns or panics.  The handler's own effects are committed for good
\* when it answered 2xx.
HandlerReturns(r) ==
    /\ phase[r] = "running"
    /\ \E result \in Outcomes :
        /\ outcome' = [outcome EXCEPT ![r] = result]
        /\ phase' = [phase EXCEPT ![r] = AfterHandler(result)]
        /\ forgotten' = IF result = "overflow" THEN forgotten \cup {r} ELSE forgotten
    /\ UNCHANGED <<entries, order, answer, replayed, canceled, overran, expiries>>

\* Complete checks the request's context before the claim.
Complete(r) ==
    /\ phase[r] = "completing"
    /\ r \notin canceled
    /\ HoldsClaim(r)
    /\ entries' = [entries EXCEPT ![KeyOf[r]].state = "complete",
                                  ![KeyOf[r]].response = r,
                                  ![KeyOf[r]].expired = FALSE]
    /\ Finish(r, "success")
    /\ UNCHANGED <<order, outcome, replayed, canceled, overran, forgotten, expiries>>

\* Complete fails: the response is dropped and the claim released instead.
CompleteFails(r) ==
    /\ phase[r] = "completing"
    /\ r \in canceled \/ ~HoldsClaim(r)
    /\ phase' = [phase EXCEPT ![r] = "releasing"]
    /\ forgotten' = IF r \in canceled THEN forgotten \cup {r} ELSE forgotten
    /\ UNCHANGED <<entries, order, outcome, answer, replayed, canceled, overran, expiries>>

\* What the client gets for a request whose claim was released.  FlushResponse
\* writes the buffer's status, 200 when the handler wrote none, and the error
\* handler leaves a started response alone.  After a panic Recovery writes its
\* 500 into the buffer, which nobody flushes, so net/http sends 200.  Only a
\* failed Complete writes a 500 of its own.
StatusSent(result) == IF result \in {"success", "refused"} THEN "failure" ELSE "success"

\* releaseIdempotencyClaim, on a context of its own; a claim that is lost is
\* only reported.
Release(r) ==
    /\ phase[r] = "releasing"
    /\ \/ /\ HoldsClaim(r)
          /\ entries' = [entries EXCEPT ![KeyOf[r]] = NoEntry]
          /\ order' = Filtered(Keys \ {KeyOf[r]})
       \/ /\ ~HoldsClaim(r)
          /\ UNCHANGED <<entries, order>>
    /\ Finish(r, StatusSent(outcome[r]))
    /\ UNCHANGED <<outcome, replayed, canceled, overran, forgotten, expiries>>

-----------------------------------------------------------------------------
(* The environment.                                                        *)

\* The client goes away and net/http cancels the request's context.
Cancel(r) ==
    /\ phase[r] # "done"
    /\ r \notin canceled
    /\ Cardinality(canceled) < MaxCancels
    /\ canceled' = canceled \cup {r}
    /\ UNCHANGED <<entries, order, phase, outcome, answer, replayed, overran, forgotten, expiries>>

\* PendingTTL of a claim, or TTL of a response, has passed.
Expire(k) ==
    /\ Live(k)
    /\ expiries < MaxExpiries
    /\ expiries' = expiries + 1
    /\ entries' = [entries EXCEPT ![k].expired = TRUE]
    /\ overran' = IF entries[k].state = "pending" THEN overran \cup {entries[k].owner} ELSE overran
    /\ forgotten' = IF entries[k].state = "complete" THEN forgotten \cup {entries[k].response} ELSE forgotten
    /\ UNCHANGED <<order, phase, outcome, answer, replayed, canceled>>

\* Every request is answered; nothing is left to do.
AllAnswered == (\A r \in Requests : phase[r] = "done") /\ UNCHANGED vars

Next ==
    \/ \E r \in Requests :
        \/ ClaimCanceled(r) \/ Acquire(r) \/ Reject(r) \/ Conflict(r) \/ Replay(r) \/ Wait(r)
        \/ HandlerReturns(r) \/ Complete(r) \/ CompleteFails(r) \/ Release(r)
        \/ Cancel(r)
    \/ \E k \in Keys : Expire(k)
    \/ AllAnswered

\* A goroutine keeps running: it polls, its handler returns, it settles its
\* claim.  Neither expiry nor a canceled client is ever needed for progress.
Fairness ==
    \A r \in Requests :
        WF_vars(Claim(r) \/ HandlerReturns(r) \/ Complete(r) \/ CompleteFails(r) \/ Release(r))

Spec == Init /\ [][Next]_vars /\ Fairness

-----------------------------------------------------------------------------
(* Properties.                                                             *)

Executing(r) == phase[r] \in {"running", "completing", "releasing"}

Types ==
    /\ entries \in [Keys -> Entry \cup {NoEntry}]
    /\ phase \in [Requests -> {"new", "waiting", "running", "completing", "releasing", "done"}]
    /\ outcome \in [Requests -> AllOutcomes \cup {"none"}]
    /\ answer \in [Requests -> {"none", "success", "failure"}]
    /\ replayed \in [Requests -> Requests \cup {NoRequest}]
    /\ canceled \subseteq Requests
    /\ overran \subseteq Requests
    /\ forgotten \subseteq Requests
    /\ expiries \in Nat

\* The map is within its bound, and the list holds its keys.
Bounded ==
    /\ Cardinality({k \in Keys : Has(k)}) <= MaxEntries
    /\ order \in Seq(Keys)
    /\ {order[i] : i \in DOMAIN order} = {k \in Keys : Has(k)}

\* Types, and the store within its bound.
TypeOK == Types /\ Bounded

\* Two handlers run for one key only when the claim of one of them expired
\* under it: stale owners that complete or release later never open the door
\* to a third (the owner check of Complete and Release).
ExclusiveExecution ==
    \A r, other \in Requests :
        r # other /\ KeyOf[r] = KeyOf[other] /\ Executing(r) /\ Executing(other)
            => r \in overran \/ other \in overran

\* A pending claim always belongs to a request that will still settle it: an
\* error, a panic, a canceled client or a lost response never leaves a claim
\* behind for retries to wait on.
NoOrphanClaim ==
    \A k \in Keys : Has(k) /\ entries[k].state = "pending" => Executing(entries[k].owner)

\* A replayed response was produced for the same key and body by a request
\* that committed and was itself told so.
ReplaysAreTrue ==
    \A r \in Requests :
        replayed[r] # NoRequest =>
            /\ KeyOf[replayed[r]] = KeyOf[r]
            /\ PrintOf[replayed[r]] = PrintOf[r]
            /\ outcome[replayed[r]] = "success"
            /\ answer[replayed[r]] = "success"

\* An operation is committed twice only for a cause on record: its claim
\* expired while it ran, or the store lost its response (too large, client gone
\* at completion, evicted for room, TTL over).
DuplicatesExplained ==
    \A r, other \in Requests :
        r # other /\ KeyOf[r] = KeyOf[other] /\ Committed(r) /\ Committed(other)
            => {r, other} \cap (overran \cup forgotten) # {}

\* Every request is answered: followers of a claim never wait for ever.
EveryRequestAnswered == \A r \in Requests : <>(phase[r] = "done")

\* README.md:791: responses are cached "to prevent duplicate side-effects".
NoDuplicateSideEffect ==
    \A r, other \in Requests :
        r # other /\ KeyOf[r] = KeyOf[other] => ~(Committed(r) /\ Committed(other))

\* docs/adr/0003-error-contract.md:15: "Logging an error and returning success
\* is prohibited."
FailureIsNotSuccess ==
    \A r \in Requests : outcome[r] \in {"error", "panic"} => answer[r] # "success"
=============================================================================
