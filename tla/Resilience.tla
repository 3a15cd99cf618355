----------------------------- MODULE Resilience -----------------------------
(***************************************************************************)
(* resilience/resilience.go and resilience/retry.go, put together the way  *)
(* an application does: a request passes AdaptiveLimiter.Middleware, its   *)
(* handler runs Retry, and every attempt is a CircuitBreaker.Execute of a  *)
(* call to one downstream service.                                         *)
(*                                                                         *)
(* Execute looks at the breaker under its mutex, calls the downstream with *)
(* the mutex released, and records the result under the mutex again, so    *)
(* the breaker may have moved on while a call was out.  Only comparisons   *)
(* with FailureThreshold and ResetTimeout are kept of the counter and the  *)
(* clock: failures stops counting at the threshold, and elapsed says       *)
(* whether ResetTimeout has passed since lastStateChg.                     *)
(***************************************************************************)
EXTENDS Naturals, FiniteSets, FiniteSetTheorems, TLAPS

CONSTANTS
    Callers,            \* goroutines serving requests, one after the other
    MaxLimit,           \* AdaptiveLimiter.maxLimit
    MaxAttempts,        \* RetryConfig.MaxAttempts
    FailureThreshold,   \* CircuitBreakerConfig.FailureThreshold
    MaxOutages,         \* bound: times the downstream stops working
    MaxCancels          \* bound: requests whose context is canceled

ASSUME CallersAssumption == IsFiniteSet(Callers)
ASSUME ConfigAssumption ==
    {MaxLimit, MaxAttempts, FailureThreshold} \subseteq Nat \ {0}
ASSUME BoundsAssumption == MaxOutages \in Nat /\ MaxCancels \in Nat

VARIABLES
    state,      \* CircuitBreaker.state
    failures,   \* CircuitBreaker.failures, up to the threshold
    elapsed,    \* time.Since(lastStateChg) > ResetTimeout
    active,     \* AdaptiveLimiter.activeRequests
    phase,      \* [Callers -> where the caller's request is]
    attempt,    \* [Callers -> attempt of Retry]
    canceled,   \* callers whose request context is canceled
    trials,     \* history: callers whose call went out of a half-open breaker
    healthy,    \* whether the downstream works
    doomed,     \* callers whose call met an outage and may still fail
    outages,    \* outages so far, bounded by MaxOutages
    cancels     \* cancellations so far, bounded by MaxCancels

breaker == <<state, failures, elapsed>>
world   == <<healthy, outages, cancels>>
vars    == <<breaker, active, phase, attempt, canceled, trials, doomed, world>>

Init ==
    /\ state = "closed"
    /\ failures = 0
    /\ elapsed = TRUE
    /\ active = 0
    /\ phase = [c \in Callers |-> "idle"]
    /\ attempt = [c \in Callers |-> 0]
    /\ canceled = {}
    /\ trials = {}
    /\ healthy = TRUE
    /\ doomed = {}
    /\ outages = 0
    /\ cancels = 0

Goto(c, next) == phase' = [phase EXCEPT ![c] = next]

-----------------------------------------------------------------------------
(* AdaptiveLimiter.Middleware.                                             *)

\* Mutant: the limit is compared before the request is counted.
WithinBeforeAdding(count) == count - 1 <= MaxLimit

Within(count) == count <= MaxLimit

\* The atomic increment decides, and counts the request even when it is refused.
Arrive(c) ==
    /\ phase[c] = "idle"
    /\ active' = active + 1
    /\ IF Within(active + 1)
       THEN Goto(c, "trying") /\ attempt' = [attempt EXCEPT ![c] = 1]
       ELSE Goto(c, "leaving") /\ UNCHANGED attempt
    /\ UNCHANGED <<breaker, canceled, trials, doomed, world>>

\* The deferred decrement, after a result, a refusal or a panic.
Leave(c) ==
    /\ phase[c] = "leaving"
    /\ active' = active - 1
    /\ Goto(c, "idle")
    /\ attempt' = [attempt EXCEPT ![c] = 0]
    /\ canceled' = canceled \ {c}
    /\ UNCHANGED <<breaker, trials, doomed, world>>

-----------------------------------------------------------------------------
(* Retry.                                                                  *)

\* Mutant: the loop counter is not advanced.
RetryWithoutCounting(c) == Goto(c, "backoff") /\ UNCHANGED attempt

\* Mutant: one attempt more than configured.
LastAttemptLate(n) == n > MaxAttempts

LastAttempt(n) == n >= MaxAttempts

\* An attempt failed: wait for the next one, or give up with its error, which
\* the last attempt must and an error that is not Retryable may do earlier.
RetryOrGiveUp(c) ==
    \/ /\ ~LastAttempt(attempt[c])
       /\ Goto(c, "backoff")
       /\ attempt' = [attempt EXCEPT ![c] = @ + 1]
    \/ /\ Goto(c, "leaving")
       /\ UNCHANGED attempt

\* The jittered delay is over.
BackoffEnds(c) ==
    /\ phase[c] = "backoff"
    /\ Goto(c, "trying")
    /\ UNCHANGED <<breaker, active, attempt, canceled, trials, doomed, world>>

\* ctx.Done, looked at before an attempt and during the delay.
GiveUpCanceled(c) ==
    /\ phase[c] \in {"trying", "backoff"}
    /\ c \in canceled
    /\ Goto(c, "leaving")
    /\ UNCHANGED <<breaker, active, attempt, canceled, trials, doomed, world>>

-----------------------------------------------------------------------------
(* CircuitBreaker.Execute.                                                 *)

\* The first critical section lets the call out.
CallDownstream(c) ==
    /\ phase[c] = "trying"
    /\ c \notin canceled
    /\ \/ /\ state # "open"
          /\ UNCHANGED <<state, elapsed>>
       \/ /\ state = "open" /\ elapsed
          /\ state' = "halfOpen"
          /\ elapsed' = FALSE
    /\ trials' = IF state' = "halfOpen" THEN trials \cup {c} ELSE trials
    /\ doomed' = IF healthy THEN doomed ELSE doomed \cup {c}
    /\ Goto(c, "calling")
    /\ UNCHANGED <<failures, active, attempt, canceled, world>>

\* The breaker is open: an error like any other for Retry.
CallRejected(c) ==
    /\ phase[c] = "trying"
    /\ c \notin canceled
    /\ state = "open" /\ ~elapsed
    /\ RetryOrGiveUp(c)
    /\ UNCHANGED <<breaker, active, canceled, trials, doomed, world>>

\* The second critical section, for an error: the call met an outage, or its
\* context was canceled, which counts as well.
CallFails(c) ==
    /\ phase[c] = "calling"
    /\ c \in doomed \cup canceled
    /\ failures' = IF failures < FailureThreshold THEN failures + 1 ELSE failures
    /\ IF failures' >= FailureThreshold
       THEN state' = "open" /\ elapsed' = FALSE
       ELSE UNCHANGED <<state, elapsed>>
    /\ trials' = trials \ {c}
    /\ doomed' = doomed \ {c}
    /\ RetryOrGiveUp(c)
    /\ UNCHANGED <<active, canceled, world>>

\* Mutant: closing keeps the failures that opened the breaker.
CloseKeepingFailures == state' = "closed" /\ elapsed' = FALSE /\ UNCHANGED failures

Close == state' = "closed" /\ elapsed' = FALSE /\ failures' = 0

\* Mutant: a success is compared with the wrong state.
ClosesFromOpen == state = "open"

Closes == state = "halfOpen"

\* The second critical section, for a success: whoever returns first closes a
\* half-open breaker, even with a call that went out before it opened.
CallSucceeds(c) ==
    /\ phase[c] = "calling"
    /\ IF Closes THEN Close ELSE UNCHANGED breaker
    /\ trials' = trials \ {c}
    /\ doomed' = doomed \ {c}
    /\ Goto(c, "leaving")
    /\ UNCHANGED <<active, attempt, canceled, world>>

\* The call panics: no second critical section, Retry and the handler unwind.
CallPanics(c) ==
    /\ phase[c] = "calling"
    /\ c \in doomed
    /\ trials' = trials \ {c}
    /\ doomed' = doomed \ {c}
    /\ Goto(c, "leaving")
    /\ UNCHANGED <<breaker, active, attempt, canceled, world>>

-----------------------------------------------------------------------------
(* The environment.                                                        *)

ResetTimeoutPasses ==
    /\ ~elapsed
    /\ elapsed' = TRUE
    /\ UNCHANGED <<state, failures, active, phase, attempt, canceled, trials, doomed, world>>

Outage ==
    /\ healthy
    /\ outages < MaxOutages
    /\ healthy' = FALSE
    /\ outages' = outages + 1
    /\ doomed' = {c \in Callers : phase[c] = "calling"}
    /\ UNCHANGED <<breaker, active, phase, attempt, canceled, trials, cancels>>

Repair ==
    /\ ~healthy
    /\ healthy' = TRUE
    /\ UNCHANGED <<breaker, active, phase, attempt, canceled, trials, doomed, outages, cancels>>

Cancel(c) ==
    /\ phase[c] \in {"trying", "calling", "backoff"}
    /\ c \notin canceled
    /\ cancels < MaxCancels
    /\ canceled' = canceled \cup {c}
    /\ cancels' = cancels + 1
    /\ UNCHANGED <<breaker, active, phase, attempt, trials, doomed, healthy, outages>>

Next ==
    \/ \E c \in Callers :
        \/ Arrive(c) \/ Leave(c)
        \/ BackoffEnds(c) \/ GiveUpCanceled(c)
        \/ CallDownstream(c) \/ CallRejected(c)
        \/ CallFails(c) \/ CallSucceeds(c) \/ CallPanics(c)
        \/ Cancel(c)
    \/ ResetTimeoutPasses \/ Outage \/ Repair

\* Goroutines run, downstream calls return, timers fire.  Clients, outages and
\* repairs are free.
Fairness ==
    /\ \A c \in Callers :
        WF_vars(\/ Leave(c) \/ BackoffEnds(c) \/ GiveUpCanceled(c)
                \/ CallDownstream(c) \/ CallRejected(c)
                \/ CallFails(c) \/ CallSucceeds(c) \/ CallPanics(c))
    /\ WF_vars(ResetTimeoutPasses)

Spec == Init /\ [][Next]_vars /\ Fairness

-----------------------------------------------------------------------------
(* Properties.                                                             *)

\* Inside the limiter's count, and inside the limited handler.
Counted == {c \in Callers : phase[c] # "idle"}
Handling == {c \in Callers : phase[c] \in {"trying", "calling", "backoff"}}

TypeOK ==
    /\ state \in {"closed", "halfOpen", "open"}
    /\ failures \in 0..FailureThreshold
    /\ elapsed \in BOOLEAN
    /\ active \in Nat
    /\ phase \in [Callers -> {"idle", "trying", "calling", "backoff", "leaving"}]
    /\ attempt \in [Callers -> 0..MaxAttempts]
    /\ canceled \subseteq Counted
    /\ trials \cup doomed \subseteq {c \in Callers : phase[c] = "calling"}
    /\ healthy \in BOOLEAN
    /\ outages \in 0..MaxOutages
    /\ cancels \in 0..MaxCancels

\* The breaker is tripped exactly while it holds FailureThreshold failures, so
\* one failure re-opens a half-open breaker and a closed one has its whole
\* budget left, whatever order late calls return in.
TrippedByCount == state = "closed" <=> failures < FailureThreshold

\* The counter of the limiter is the number of requests inside it, refused ones
\* included, and never lets more than MaxLimit handlers run at once.
LimitHolds ==
    /\ active = Cardinality(Counted)
    /\ Cardinality(Handling) <= MaxLimit

\* A request ends: Retry gives up, whatever the breaker and the downstream do.
RequestsEnd == \A c \in Callers : phase[c] = "trying" ~> phase[c] = "idle"

\* Once the downstream stays up and requests keep being let in, the breaker
\* closes for good; calls that were out during the outage, or whose client left,
\* do not keep it open.
Recovers ==
    (<>[]healthy /\ []<><<\E c \in Callers : CallDownstream(c) \/ CallRejected(c)>>_vars)
        => <>[](state = "closed")

\* resilience/resilience.go:19: "StateHalfOpen permits a trial call after the
\* reset timeout."
SingleTrial == state = "halfOpen" => Cardinality(trials) <= 1

-----------------------------------------------------------------------------
(***************************************************************************)
(* Safety of Resilience for any number of callers and any configuration:   *)
(* the breaker is tripped exactly by its count, and the limiter counts the *)
(* requests inside it and bounds the handlers.  The three invariants are   *)
(* inductive together: the decrement of the limiter needs its count to     *)
(* stay a natural number, and its bound needs the count to be exact.       *)
(***************************************************************************)

Invariant == TypeOK /\ TrippedByCount /\ LimitHolds

\* Sets of callers are finite and have a size.
LEMMA CallersFinite ==
    ASSUME NEW S \in SUBSET Callers
    PROVE  IsFiniteSet(S) /\ Cardinality(S) \in Nat
BY FS_Subset, FS_CardinalityType, CallersAssumption

\* A step that neither adds callers to the limited handler nor changes who is
\* counted keeps the limit.
LEMMA LimitKept ==
    ASSUME LimitHolds, UNCHANGED active, Counted' = Counted, Handling' \subseteq Handling
    PROVE  LimitHolds'
<1>1. IsFiniteSet(Handling) /\ Handling \in SUBSET Callers
    BY CallersFinite DEF Handling
<1>2. Cardinality(Handling') <= Cardinality(Handling)
    BY <1>1, FS_Subset
<1>3. Cardinality(Handling') \in Nat /\ Cardinality(Handling) \in Nat
    BY <1>1, FS_Subset, FS_CardinalityType
<1> QED
    BY <1>2, <1>3, ConfigAssumption DEF LimitHolds

\* The initial state: nobody is inside, nothing has failed.
LEMMA InitInvariant == Init => Invariant
<1> SUFFICES ASSUME Init PROVE Invariant
    OBVIOUS
<1>1. Counted = {} /\ Handling = {}
    BY DEF Init, Counted, Handling
<1>2. TypeOK
    BY <1>1, ConfigAssumption, BoundsAssumption DEF Init, TypeOK
<1>3. TrippedByCount
    BY ConfigAssumption DEF Init, TrippedByCount
<1>4. LimitHolds
    BY <1>1, FS_EmptySet, ConfigAssumption DEF Init, LimitHolds
<1> QED
    BY <1>2, <1>3, <1>4 DEF Invariant

\* The increment: whoever gets in finds at most MaxLimit requests counted, its
\* own included, and the handlers are among those.
LEMMA ArriveStep ==
    ASSUME Invariant, NEW c \in Callers, Arrive(c)
    PROVE  Invariant'
<1> USE DEF Invariant
<1>1. TypeOK'
    BY ConfigAssumption DEF Arrive, Goto, Within, TypeOK, Counted, breaker, world
<1>2. TrippedByCount'
    BY DEF Arrive, TrippedByCount, breaker
<1>3. Counted' = Counted \cup {c} /\ c \notin Counted /\ Counted \in SUBSET Callers
    BY DEF Arrive, Goto, Within, TypeOK, Counted
<1>4. Cardinality(Counted') = active'
    BY <1>3, CallersFinite, FS_AddElement DEF Arrive, LimitHolds
<1>5. Handling' \subseteq Counted' /\ Counted' \in SUBSET Callers
    BY DEF Handling, Counted
<1>6. CASE Within(active + 1)
    <2>1. Cardinality(Handling') <= Cardinality(Counted')
        BY <1>5, CallersFinite, FS_Subset
    <2>2. active' <= MaxLimit
        BY <1>6 DEF Arrive, Within
    <2>3. Cardinality(Handling') \in Nat /\ Cardinality(Counted') \in Nat
        BY <1>5, CallersFinite
    <2> QED
        BY <1>1, <1>2, <1>4, <2>1, <2>2, <2>3, ConfigAssumption DEF LimitHolds
<1>7. CASE ~Within(active + 1)
    <2>1. Handling' = Handling
        BY <1>7 DEF Arrive, Goto, TypeOK, Handling
    <2> QED
        BY <1>1, <1>2, <1>4, <2>1 DEF LimitHolds
<1> QED
    BY <1>6, <1>7

\* The decrement takes one counted request away.
LEMMA LeaveStep ==
    ASSUME Invariant, NEW c \in Callers, Leave(c)
    PROVE  Invariant'
<1> USE DEF Invariant
<1>1. Counted' = Counted \ {c} /\ c \in Counted /\ Counted \in SUBSET Callers
    BY DEF Leave, Goto, TypeOK, Counted
<1>2. Cardinality(Counted') = active' /\ active' \in Nat
    <2>1. Cardinality(Counted') = Cardinality(Counted) - 1
        BY <1>1, CallersFinite, FS_RemoveElement
    <2>2. Cardinality(Counted') \in Nat
        BY <1>1, CallersFinite
    <2> QED
        BY <2>1, <2>2 DEF Leave, LimitHolds
<1>3. Handling' = Handling
    BY DEF Leave, Goto, TypeOK, Handling
<1>4. TypeOK'
    BY <1>1, <1>2, ConfigAssumption DEF Leave, Goto, TypeOK, breaker, world
<1>5. TrippedByCount'
    BY DEF Leave, TrippedByCount, breaker
<1> QED
    BY <1>2, <1>3, <1>4, <1>5 DEF LimitHolds

\* Retry moves a caller on, inside the limiter, within its attempts.
LEMMA RetryStep ==
    ASSUME TypeOK, NEW c \in Callers, phase[c] \in {"trying", "calling"}, RetryOrGiveUp(c)
    PROVE  /\ phase' \in [Callers -> {"idle", "trying", "calling", "backoff", "leaving"}]
           /\ attempt' \in [Callers -> 0..MaxAttempts]
           /\ Counted' = Counted /\ Handling' \subseteq Handling
           /\ phase'[c] # "calling" /\ \A d \in Callers \ {c} : phase'[d] = phase[d]
<1>1. attempt' \in [Callers -> 0..MaxAttempts]
    BY ConfigAssumption DEF RetryOrGiveUp, LastAttempt, TypeOK
<1>2. /\ phase' \in [Callers -> {"idle", "trying", "calling", "backoff", "leaving"}]
      /\ phase'[c] \in {"backoff", "leaving"} /\ \A d \in Callers \ {c} : phase'[d] = phase[d]
    BY DEF RetryOrGiveUp, Goto, TypeOK
<1>3. Counted' = Counted /\ Handling' \subseteq Handling
    BY <1>2 DEF Counted, Handling
<1> QED
    BY <1>1, <1>2, <1>3

\* The caller's own steps in Retry and Execute, and its cancellation.
LEMMA CallerStep ==
    ASSUME Invariant, NEW c \in Callers,
           \/ BackoffEnds(c) \/ GiveUpCanceled(c)
           \/ CallDownstream(c) \/ CallRejected(c)
           \/ CallFails(c) \/ CallSucceeds(c) \/ CallPanics(c)
           \/ Cancel(c)
    PROVE  Invariant'
<1> USE DEF Invariant
<1>1. CASE BackoffEnds(c)
    <2>1. Counted' = Counted /\ Handling' \subseteq Handling
        BY <1>1 DEF BackoffEnds, Goto, TypeOK, Counted, Handling
    <2>2. TypeOK'
        BY <1>1, <2>1 DEF BackoffEnds, Goto, TypeOK, breaker, world
    <2>3. TrippedByCount'
        BY <1>1 DEF BackoffEnds, TrippedByCount, breaker
    <2> QED
        BY <1>1, <2>1, <2>2, <2>3, LimitKept DEF BackoffEnds
<1>2. CASE GiveUpCanceled(c)
    <2>1. Counted' = Counted /\ Handling' \subseteq Handling
        BY <1>2 DEF GiveUpCanceled, Goto, TypeOK, Counted, Handling
    <2>2. TypeOK'
        BY <1>2, <2>1 DEF GiveUpCanceled, Goto, TypeOK, breaker, world
    <2>3. TrippedByCount'
        BY <1>2 DEF GiveUpCanceled, TrippedByCount, breaker
    <2> QED
        BY <1>2, <2>1, <2>2, <2>3, LimitKept DEF GiveUpCanceled
<1>3. CASE CallDownstream(c)
    <2>1. Counted' = Counted /\ Handling' \subseteq Handling
        BY <1>3 DEF CallDownstream, Goto, TypeOK, Counted, Handling
    <2>2. TypeOK'
        BY <1>3, <2>1 DEF CallDownstream, Goto, TypeOK, world
    <2>3. TrippedByCount'
        BY <1>3 DEF CallDownstream, TrippedByCount
    <2> QED
        BY <1>3, <2>1, <2>2, <2>3, LimitKept DEF CallDownstream
<1>4. CASE CallRejected(c)
    <2>1. /\ phase' \in [Callers -> {"idle", "trying", "calling", "backoff", "leaving"}]
          /\ attempt' \in [Callers -> 0..MaxAttempts]
          /\ Counted' = Counted /\ Handling' \subseteq Handling
          /\ phase'[c] # "calling" /\ \A d \in Callers \ {c} : phase'[d] = phase[d]
        BY <1>4, RetryStep DEF CallRejected
    <2>2. TypeOK'
        BY <1>4, <2>1 DEF CallRejected, TypeOK, breaker, world
    <2>3. TrippedByCount'
        BY <1>4 DEF CallRejected, TrippedByCount, breaker
    <2> QED
        BY <1>4, <2>1, <2>2, <2>3, LimitKept DEF CallRejected
<1>5. CASE CallFails(c)
    <2>1. /\ phase' \in [Callers -> {"idle", "trying", "calling", "backoff", "leaving"}]
          /\ attempt' \in [Callers -> 0..MaxAttempts]
          /\ Counted' = Counted /\ Handling' \subseteq Handling
          /\ phase'[c] # "calling" /\ \A d \in Callers \ {c} : phase'[d] = phase[d]
        BY <1>5, RetryStep DEF CallFails
    <2>2. failures' \in 0..FailureThreshold
        BY <1>5, ConfigAssumption DEF CallFails, TypeOK
    <2>3. TypeOK'
        BY <1>5, <2>1, <2>2 DEF CallFails, TypeOK, world
    <2>4. TrippedByCount'
        BY <1>5, <2>2, ConfigAssumption DEF CallFails, TrippedByCount, TypeOK
    <2> QED
        BY <1>5, <2>1, <2>3, <2>4, LimitKept DEF CallFails
<1>6. CASE CallSucceeds(c)
    <2>1. Counted' = Counted /\ Handling' \subseteq Handling
        BY <1>6 DEF CallSucceeds, Goto, TypeOK, Counted, Handling
    <2>2. TypeOK'
        <3>1. state' \in {"closed", "halfOpen", "open"} /\ failures' \in 0..FailureThreshold
              /\ elapsed' \in BOOLEAN
            <4>1. CASE Close
                <5>1. state' = "closed" /\ failures' = 0
                    BY <4>1 DEF Close
                <5>2. elapsed' \in BOOLEAN
                    BY <4>1 DEF Close
                <5>3. 0 \in 0..FailureThreshold
                    BY ConfigAssumption
                <5> QED
                    BY <5>1, <5>2, <5>3
            <4>2. CASE UNCHANGED breaker
                BY <4>2 DEF TypeOK, breaker
            <4> QED
                BY <1>6, <4>1, <4>2 DEF CallSucceeds
        <3>2. phase' \in [Callers -> {"idle", "trying", "calling", "backoff", "leaving"}]
            BY <1>6 DEF CallSucceeds, Goto, TypeOK
        <3>3. trials' \cup doomed' \subseteq {d \in Callers : phase'[d] = "calling"}
            BY <1>6 DEF CallSucceeds, Goto, TypeOK
        <3> QED
            BY <1>6, <2>1, <3>1, <3>2, <3>3 DEF CallSucceeds, TypeOK, world
    <2>3. TrippedByCount'
        BY <1>6, ConfigAssumption DEF CallSucceeds, Close, TrippedByCount, breaker
    <2> QED
        BY <1>6, <2>1, <2>2, <2>3, LimitKept DEF CallSucceeds
<1>7. CASE CallPanics(c)
    <2>1. Counted' = Counted /\ Handling' \subseteq Handling
        BY <1>7 DEF CallPanics, Goto, TypeOK, Counted, Handling
    <2>2. TypeOK'
        BY <1>7, <2>1 DEF CallPanics, Goto, TypeOK, breaker, world
    <2>3. TrippedByCount'
        BY <1>7 DEF CallPanics, TrippedByCount, breaker
    <2> QED
        BY <1>7, <2>1, <2>2, <2>3, LimitKept DEF CallPanics
<1>8. CASE Cancel(c)
    <2>1. Counted' = Counted /\ Handling' \subseteq Handling
        BY <1>8 DEF Cancel, Counted, Handling
    <2>2. TypeOK'
        BY <1>8, <2>1, BoundsAssumption DEF Cancel, TypeOK, breaker, Counted
    <2>3. TrippedByCount'
        BY <1>8 DEF Cancel, TrippedByCount, breaker
    <2> QED
        BY <1>8, <2>1, <2>2, <2>3, LimitKept DEF Cancel
<1> QED
    BY <1>1, <1>2, <1>3, <1>4, <1>5, <1>6, <1>7, <1>8

\* The clock and the downstream.
LEMMA WorldStep ==
    ASSUME Invariant, ResetTimeoutPasses \/ Outage \/ Repair \/ UNCHANGED vars
    PROVE  Invariant'
<1> USE DEF Invariant
<1>1. UNCHANGED <<state, failures, active, phase, attempt, canceled>>
    BY DEF ResetTimeoutPasses, Outage, Repair, vars, breaker, world
<1>2. Counted' = Counted /\ Handling' = Handling
    BY <1>1 DEF Counted, Handling
<1>3. TypeOK'
    <2>1. CASE ResetTimeoutPasses
        BY <1>1, <1>2, <2>1 DEF ResetTimeoutPasses, world, TypeOK
    <2>2. CASE Outage
        <3>1. outages' \in 0..MaxOutages
            BY <2>2, BoundsAssumption DEF Outage, TypeOK
        <3>2. healthy' \in BOOLEAN
            BY <2>2 DEF Outage
        <3>3. trials' \cup doomed' \subseteq {c \in Callers : phase'[c] = "calling"}
            BY <1>1, <2>2 DEF Outage, TypeOK
        <3> QED
            BY <1>1, <1>2, <2>2, <3>1, <3>2, <3>3 DEF Outage, breaker, TypeOK
    <2>3. CASE Repair
        BY <1>1, <1>2, <2>3 DEF Repair, breaker, TypeOK
    <2>4. CASE UNCHANGED vars
        BY <1>1, <1>2, <2>4 DEF vars, breaker, world, TypeOK
    <2> QED
        BY <2>1, <2>2, <2>3, <2>4
<1>4. TrippedByCount'
    BY <1>1 DEF TrippedByCount
<1> QED
    BY <1>1, <1>2, <1>3, <1>4, LimitKept

\* The invariant holds in every reachable state.
THEOREM SafetyInvariant == Spec => []Invariant
<1>1. Init => Invariant
    BY InitInvariant
<1>2. Invariant /\ [Next]_vars => Invariant'
    <2> SUFFICES ASSUME Invariant, [Next]_vars PROVE Invariant'
        OBVIOUS
    <2>1. ASSUME NEW c \in Callers, Arrive(c) PROVE Invariant'
        BY <2>1, ArriveStep
    <2>2. ASSUME NEW c \in Callers, Leave(c) PROVE Invariant'
        BY <2>2, LeaveStep
    <2>3. ASSUME NEW c \in Callers,
                 \/ BackoffEnds(c) \/ GiveUpCanceled(c)
                 \/ CallDownstream(c) \/ CallRejected(c)
                 \/ CallFails(c) \/ CallSucceeds(c) \/ CallPanics(c)
                 \/ Cancel(c)
          PROVE  Invariant'
        BY <2>3, CallerStep
    <2>4. CASE ResetTimeoutPasses \/ Outage \/ Repair \/ UNCHANGED vars
        BY <2>4, WorldStep
    <2> QED
        BY <2>1, <2>2, <2>3, <2>4 DEF Next
<1> QED
    BY <1>1, <1>2, PTL DEF Spec

\* Retry never counts beyond MaxAttempts, the limiter's count stays a natural
\* number, a cancellation ends with its request.
THEOREM TypeCorrect == Spec => []TypeOK
BY SafetyInvariant, PTL DEF Invariant

\* Whatever order late calls return in, the breaker is closed exactly while
\* fewer than FailureThreshold failures are counted.
THEOREM BreakerTripsByCount == Spec => []TrippedByCount
BY SafetyInvariant, PTL DEF Invariant

\* The limiter's counter is exact and at most MaxLimit handlers run.
THEOREM LimiterHolds == Spec => []LimitHolds
BY SafetyInvariant, PTL DEF Invariant
=============================================================================
