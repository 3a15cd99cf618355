------------------------------ MODULE Lifecycle ------------------------------
(***************************************************************************)
(* A program's life as the README and the examples write it: the container *)
(* of di/di.go runs its start hooks, whose error nobody looks at, Listen    *)
(* (gpp.go) serves until its server fails or a signal comes, and the stop  *)
(* hooks run when Listen has returned. ListenTLS differs in the transport. *)
(* And what a probe of the program is told meanwhile (health/health.go).    *)
(***************************************************************************)
EXTENDS Naturals, Sequences, FiniteSets

CONSTANTS
    Arrivals,    \* requests that may come
    MaxHooks     \* bound: hooks of a kind

ASSUME LifecycleAssumption == MaxHooks \in Nat

VARIABLES
    onStart, onStop,    \* Container.onStartHooks, onStopHooks: what each hook does
    program,            \* where main is; Listen is in "listening", "notified" and "draining"
    hook,               \* hooks that ran in this phase
    server,             \* the goroutine of ListenAndServe
    signalled,          \* a signal is in the channel
    listened,           \* what Listen returned
    handling            \* [Arrivals -> where its handler and its connection are]

lifecycleVars == <<onStart, onStop, program, hook, server, signalled, listened, handling>>

\* A hook may register another one, which needs the lock its caller reads under.
Hooks == UNION {[1 .. n -> {"ok", "fails", "registers"}] : n \in 0 .. MaxHooks}

LifecycleInit ==
    /\ onStart \in Hooks
    /\ onStop \in Hooks
    /\ program = "starting"
    /\ hook = 0
    /\ server = "off"
    /\ signalled = FALSE
    /\ listened = "none"
    /\ handling = [r \in Arrivals |-> "idle"]

\* A request is served; or a deadline answered it and left its handler behind;
\* or its handler took the connection over; or Close closed the connection
\* under its handler. The last three run on, and nobody waits for them.
Waited == {"served"}
Left == {"abandoned", "hijacked", "cut"}

\* The next hook of a phase, the phase after the last, and what an error does.
RunHooks(phase, hooks, next, server2) ==
    /\ program = phase
    /\ IF hook < Len(hooks) /\ hooks[hook + 1] # "fails"
       THEN IF hooks[hook + 1] = "ok" THEN hook' = hook + 1 /\ UNCHANGED <<program, server>>
            ELSE program' = "stuck" /\ UNCHANGED <<hook, server>>
       ELSE program' = next /\ hook' = 0 /\ server' = server2
    /\ UNCHANGED <<onStart, onStop, signalled, listened, handling>>

\* Start, and Listen up to its goroutine; a failed Start is as good as another.
Start == RunHooks("starting", onStart, "listening", "binding")

\* Stop, and the end of main: a hook that fails is the last one.
Stop == RunHooks("stopping", onStop, "exited", server)

Notify ==
    /\ program = "listening"
    /\ program' = "notified"
    /\ UNCHANGED <<onStart, onStop, hook, server, signalled, listened, handling>>

\* Before signal.Notify a signal ends the process.
Signal ==
    /\ program \in {"starting", "listening", "notified"} /\ ~signalled
    /\ signalled' = TRUE
    /\ program' = IF program = "notified" THEN program ELSE "killed"
    /\ UNCHANGED <<onStart, onStop, hook, server, listened, handling>>

ServerStep(from, to) ==
    /\ server = from /\ program \in {"listening", "notified"}
    /\ server' = to
    /\ UNCHANGED <<onStart, onStop, program, hook, signalled, listened, handling>>

ServerListens == ServerStep("binding", "accepting")
ServerFails == ServerStep("binding", "failed") \/ ServerStep("accepting", "failed")

ListenReturns(value) ==
    /\ program' = "stopping"
    /\ listened' = value
    /\ UNCHANGED <<onStart, onStop, hook, signalled>>

\* The handlers in flight go on.
ListenFails ==
    /\ program = "notified" /\ server = "failed"
    /\ ListenReturns("error")
    /\ UNCHANGED <<server, handling>>

\* Shutdown closes the listener; with both channels ready select takes either.
BeginShutdown ==
    /\ program = "notified" /\ signalled
    /\ program' = "draining"
    /\ server' = "closed"
    /\ UNCHANGED <<onStart, onStop, hook, signalled, listened, handling>>

\* Mutant: Shutdown does not wait.
DrainedAtOnce == TRUE

\* Shutdown waits for every connection it knows; one taken over is not among them.
Drained == \A r \in Arrivals : handling[r] \notin Waited

ShutdownEnds ==
    /\ program = "draining" /\ Drained
    /\ ListenReturns("nil")
    /\ UNCHANGED <<server, handling>>

\* Close closes the connections and waits for no handler.
ShutdownTimesOut ==
    /\ program = "draining" /\ ~Drained
    /\ handling' = [r \in Arrivals |-> IF handling[r] \in Waited THEN "cut" ELSE handling[r]]
    /\ ListenReturns("error")
    /\ UNCHANGED server

Moves(r, from, to) ==
    /\ handling[r] \in from /\ program \notin {"exited", "killed"}
    /\ handling' = [handling EXCEPT ![r] = to]
    /\ UNCHANGED <<onStart, onStop, program, hook, server, signalled, listened>>

Accept(r) == server = "accepting" /\ Moves(r, {"idle"}, "served")
HandlerEnds(r) == Moves(r, {"served"}, "answered")
Abandon(r) == Moves(r, {"served"}, "abandoned")
Hijack(r) == Moves(r, {"served"}, "hijacked")
Outlives(r) == Moves(r, Left, "ended")

Main == Start \/ Stop \/ Notify \/ ListenFails \/ BeginShutdown \/ ShutdownEnds \/ ShutdownTimesOut

LifecycleNext ==
    \/ Main \/ Signal \/ ServerListens \/ ServerFails
    \/ \E r \in Arrivals : Accept(r) \/ HandlerEnds(r) \/ Abandon(r) \/ Hijack(r) \/ Outlives(r)

-----------------------------------------------------------------------------
\* Stop hooks run, and the program ends, beside no handler that was not left by
\* a deadline, a hijack, a shutdown that timed out or a server that failed; a
\* nil from Listen means that every request it accepted was answered or taken over.
OrderlyShutdown ==
    /\ program \in {"stopping", "exited"} /\ (\E r \in Arrivals : handling[r] = "served") =>
           listened = "error" /\ server = "failed"
    /\ listened = "nil" => \A r \in Arrivals : handling[r] \notin Waited \cup {"cut"}
    /\ program = "killed" => listened = "none"
    /\ program = "stuck" => \E h \in {onStart, onStop} : \E i \in DOMAIN h : h[i] = "registers"

\* What main comes to from a signal on, unless a hook registered a hook.
HasSignal == signalled
IsOver == program \in {"exited", "killed", "stuck"}

-----------------------------------------------------------------------------
(* Health: Checker.Readiness of health/health.go.  A probe takes a snapshot *)
(* of the registered checks, runs each in a goroutine of its own under a    *)
(* deadline and collects one result of each.  Checks may fail, panic, be    *)
(* nil or never return, and others may be registered meanwhile.             *)

CONSTANTS
    Names,       \* names of checks
    Missing      \* no check, no result

CheckKinds == {"ok", "fails", "panics", "hangs"}

ASSUME HealthAssumption == Missing \notin CheckKinds \cup {"nil", "error", "UP", "DOWN"}

VARIABLES
    readinessChecks,    \* [Names -> what the registered check does, or Missing]
    checks,             \* the snapshot of the probe
    done,               \* what the function of a check sent: "ok", "error" or Missing
    late,               \* checks whose context ended
    results,            \* what runCheck sent
    status              \* the answer: "UP", "DOWN" or Missing

healthVars == <<readinessChecks, checks, done, late, results, status>>

Nowhere == [n \in Names |-> Missing]

HealthInit ==
    /\ readinessChecks = Nowhere
    /\ checks = Nowhere
    /\ done = Nowhere
    /\ late = {}
    /\ results = Nowhere
    /\ status = Missing

Probing == checks # Nowhere /\ status = Missing
Running(n) == Probing /\ checks[n] # Missing /\ results[n] = Missing

\* RegisterReadinessCheck rejects nil and names it has; AddReadinessCheck does neither.
Register(n, kind) ==
    /\ status = Missing /\ readinessChecks[n] = Missing
    /\ readinessChecks' = [readinessChecks EXCEPT ![n] = kind]
    /\ UNCHANGED <<checks, done, late, results, status>>

Add(n, kind) ==
    /\ status = Missing
    /\ readinessChecks' = [readinessChecks EXCEPT ![n] = kind]
    /\ UNCHANGED <<checks, done, late, results, status>>

\* Without a check the answer is "UP".
Probe ==
    /\ checks = Nowhere /\ status = Missing
    /\ checks' = readinessChecks
    /\ status' = IF readinessChecks = Nowhere THEN "UP" ELSE Missing
    /\ UNCHANGED <<readinessChecks, done, late, results>>

\* The function of a check returns; one that watches its context does when that
\* ends, and one that hangs never does.
CheckReturns(n) ==
    /\ Probing /\ checks[n] \in {"ok", "fails", "panics", "nil"} /\ done[n] = Missing
    /\ \E value \in (IF checks[n] = "ok" THEN {"ok"} ELSE {"error"})
                        \cup (IF n \in late THEN {"error"} ELSE {}) :
           done' = [done EXCEPT ![n] = value]
    /\ UNCHANGED <<readinessChecks, checks, late, results, status>>

\* The deadline of the check, or the client of the probe went away.
CheckExpires(n) ==
    /\ Running(n) /\ n \notin late
    /\ late' = late \cup {n}
    /\ UNCHANGED <<readinessChecks, checks, done, results, status>>

\* Mutant: a deadline is not an error.
OutcomesOfTheLate(n) == ({done[n]} \ {Missing}) \cup (IF n \in late THEN {"ok"} ELSE {})

\* What the select of runCheck may take.
CheckOutcomes(n) == ({done[n]} \ {Missing}) \cup (IF n \in late THEN {"error"} ELSE {})

RunCheck(n) ==
    /\ Running(n)
    /\ \E value \in CheckOutcomes(n) : results' = [results EXCEPT ![n] = value]
    /\ UNCHANGED <<readinessChecks, checks, done, late, status>>

Answer ==
    /\ Probing /\ \A n \in Names : checks[n] # Missing => results[n] # Missing
    /\ status' = IF \A n \in Names : results[n] # "error" THEN "UP" ELSE "DOWN"
    /\ UNCHANGED <<readinessChecks, checks, done, late, results>>

HealthNext ==
    \/ Probe \/ Answer
    \/ \E n \in Names :
          \/ \E kind \in CheckKinds : Register(n, kind)
          \/ \E kind \in CheckKinds \cup {"nil"} : Add(n, kind)
          \/ CheckReturns(n) \/ CheckExpires(n) \/ RunCheck(n)

-----------------------------------------------------------------------------
\* A probe that answers UP heard in time from every check there was when it
\* began, and each was well; one that answers DOWN has a check that was not, or
\* was late, on its list.
ReadinessTrue ==
    /\ status = "UP" => \A n \in Names : checks[n] # Missing => checks[n] = "ok" /\ done[n] = "ok"
    /\ status = "DOWN" => \E n \in Names : checks[n] \notin {Missing, "ok"} \/ n \in late

IsProbing == Probing
IsAnswered == status # Missing
=============================================================================
