----------------------------- MODULE Workflows ------------------------------
(***************************************************************************)
(* TaskTracker of queue/task_tracker.go: Dispatch registers a task under    *)
(* the reading of the clock and runs its function in a goroutine, again     *)
(* after each failure until the retries are used up; GetStatus copies the   *)
(* entry.  Every access to the map holds the mutex, the function runs       *)
(* outside it.                                                              *)
(***************************************************************************)
EXTENDS Naturals, Sequences, SequencesExt

CONSTANTS
    Dispatches,   \* calls of Dispatch
    MaxRetries,   \* the maxRetries they give
    NoTask,       \* no entry in the map
    Ticks         \* bound: readings of the clock, which may repeat or step back

ASSUME TasksAssumption == MaxRetries \in Nat /\ "none" \notin Ticks

VARIABLES
    taskId,     \* [Dispatches -> the identifier it was given, or "none"]
    entries,    \* [identifiers -> TaskInfo, or NoTask]
    attempt,    \* [Dispatches -> attempt of its goroutine]
    worker,     \* [Dispatches -> where its goroutine is]
    succeeded   \* the dispatches whose function returned nil

tasksVars == <<taskId, entries, attempt, worker, succeeded>>

TaskRetries == IF MaxRetries = 0 THEN 3 ELSE MaxRetries

Info(status, retries, failed) == [status |-> status, retries |-> retries, failed |-> failed]

TasksInit ==
    /\ taskId = [d \in Dispatches |-> "none"]
    /\ entries = [id \in Ticks |-> NoTask]
    /\ attempt = [d \in Dispatches |-> 0]
    /\ worker = [d \in Dispatches |-> "none"]
    /\ succeeded = {}

\* The entry of an earlier task with this identifier is replaced.
Dispatch(d) ==
    /\ worker[d] = "none"
    /\ \E id \in Ticks :
         /\ taskId' = [taskId EXCEPT ![d] = id]
         /\ entries' = [entries EXCEPT ![id] = Info("PENDING", 0, FALSE)]
    /\ worker' = [worker EXCEPT ![d] = "begin"]
    /\ UNCHANGED <<attempt, succeeded>>

Begin(d) ==
    /\ worker[d] = "begin"
    /\ entries' = [entries EXCEPT ![taskId[d]] =
           IF attempt[d] > 0
           THEN [@ EXCEPT !.status = "RETRYING", !.retries = attempt[d]]
           ELSE [@ EXCEPT !.status = "RUNNING"]]
    /\ worker' = [worker EXCEPT ![d] = "run"]
    /\ UNCHANGED <<taskId, attempt, succeeded>>

Succeed(d) ==
    /\ worker[d] = "run"
    /\ succeeded' = succeeded \cup {d}
    /\ worker' = [worker EXCEPT ![d] = "complete"]
    /\ UNCHANGED <<taskId, entries, attempt>>

Complete(d) ==
    /\ worker[d] = "complete"
    /\ entries' = [entries EXCEPT ![taskId[d]].status = "COMPLETED"]
    /\ worker' = [worker EXCEPT ![d] = "end"]
    /\ UNCHANGED <<taskId, attempt, succeeded>>

\* Mutant: one attempt less.
LastTooEarly(d) == attempt[d] + 1 >= TaskRetries

\* attempt <= maxRetries bounds the loop.
LastAttempt(d) == attempt[d] >= TaskRetries

\* The function returned an error or panicked: LastError, then the backoff.
Fail(d) ==
    /\ worker[d] = "run"
    /\ entries' = [entries EXCEPT ![taskId[d]].failed = TRUE]
    /\ IF LastAttempt(d)
       THEN worker' = [worker EXCEPT ![d] = "give up"] /\ UNCHANGED attempt
       ELSE worker' = [worker EXCEPT ![d] = "begin"] /\ attempt' = [attempt EXCEPT ![d] = @ + 1]
    /\ UNCHANGED <<taskId, succeeded>>

GiveUp(d) ==
    /\ worker[d] = "give up"
    /\ entries' = [entries EXCEPT ![taskId[d]].status = "FAILED"]
    /\ worker' = [worker EXCEPT ![d] = "end"]
    /\ UNCHANGED <<taskId, attempt, succeeded>>

TaskStep(d) == Begin(d) \/ Succeed(d) \/ Complete(d) \/ Fail(d) \/ GiveUp(d)

TasksNext == \E d \in Dispatches : Dispatch(d) \/ TaskStep(d)

-----------------------------------------------------------------------------
\* Another dispatch was given the same identifier.
Shared(d) == \E other \in Dispatches \ {d} : taskId[other] = taskId[d]

\* What GetStatus says of a task with an identifier of its own: completed when
\* its function returned nil, failed after every retry failed.  Two tasks of
\* one reading of the clock share an entry, which then says the one or the other.
TaskTruth ==
    \A d \in Dispatches : taskId[d] # "none" =>
        LET info == entries[taskId[d]]
        IN  \/ Shared(d)
            \/ /\ info.status = "COMPLETED" <=> (d \in succeeded /\ worker[d] = "end")
               /\ info.status = "FAILED" <=> (d \notin succeeded /\ worker[d] = "end")
               /\ info.status = "FAILED" => info.retries = TaskRetries /\ info.failed
               /\ info.failed => attempt[d] + (IF worker[d] \in {"give up", "end"} THEN 1 ELSE 0) > 0

-----------------------------------------------------------------------------
(***************************************************************************)
(* Coordinator.Execute of saga/saga.go: the steps run in order, and when    *)
(* one returns an error the steps before it are compensated in reverse.    *)
(* The saga lives in its process: an effect that is not undone stays.      *)
(***************************************************************************)

CONSTANT MaxSteps    \* bound: steps of a saga

ASSUME SagaAssumption == MaxSteps \in Nat

\* What the functions of a step do; "nil" is a function that was not given.
Steps == [execute : {"ok", "fails", "panics", "nil"}, compensate : {"ok", "fails", "panics", "nil"}]

VARIABLES
    steps,        \* Coordinator.steps
    executed,     \* number of steps whose Execute returned nil
    saga,         \* "runs", "compensates", "ok", "failed", "invalid", "panicked"
    effects,      \* steps whose effect is in place
    undoing,      \* the step compensateReverse comes to next
    undone,       \* steps compensated, in this order
    reported      \* steps whose failed compensation is joined to the error

sagaVars == <<steps, executed, saga, effects, undoing, undone, reported>>

SagaInit ==
    /\ steps \in UNION {[1 .. n -> Steps] : n \in 1 .. MaxSteps}
    /\ executed = 0
    /\ saga = "runs"
    /\ effects = {}
    /\ undoing = 0
    /\ undone = <<>>
    /\ reported = {}

Runs(what) == saga = "runs" /\ executed < Len(steps) /\ steps[executed + 1].execute = what

ExecuteStep ==
    /\ Runs("ok")
    /\ executed' = executed + 1
    /\ effects' = effects \cup {executed + 1}
    /\ UNCHANGED <<steps, saga, undoing, undone, reported>>

\* The steps that ran are compensated, the last one first.
StepFails ==
    /\ Runs("fails")
    /\ saga' = "compensates"
    /\ undoing' = executed
    /\ UNCHANGED <<steps, executed, effects, undone, reported>>

\* Returns at once: nothing is compensated.
NoExecute ==
    /\ Runs("nil")
    /\ saga' = "invalid"
    /\ UNCHANGED <<steps, executed, effects, undoing, undone, reported>>

\* No recover: the panic leaves Execute.
StepPanics ==
    /\ Runs("panics")
    /\ saga' = "panicked"
    /\ UNCHANGED <<steps, executed, effects, undoing, undone, reported>>

\* Mutant: compensation stops at the first that fails.
NextAfterFailure(i) == IF steps[i].compensate = "fails" THEN 0 ELSE i - 1

\* The step compensateReverse comes to after step i, whatever that returned.
NextToUndo(i) == i - 1

CompensateStep ==
    /\ saga = "compensates"
    /\ undoing > 0
    /\ steps[undoing].compensate # "panics"
    /\ undoing' = NextToUndo(undoing)
    /\ CASE steps[undoing].compensate = "ok" ->
              /\ effects' = effects \ {undoing}
              /\ undone' = Append(undone, undoing)
              /\ reported' = reported
         [] steps[undoing].compensate = "fails" ->
              reported' = reported \cup {undoing} /\ UNCHANGED <<effects, undone>>
         [] OTHER -> UNCHANGED <<effects, undone, reported>>
    /\ UNCHANGED <<steps, executed, saga>>

\* No recover here either: the steps before this one are not compensated.
CompensationPanics ==
    /\ saga = "compensates"
    /\ undoing > 0
    /\ steps[undoing].compensate = "panics"
    /\ saga' = "panicked"
    /\ UNCHANGED <<steps, executed, effects, undoing, undone, reported>>

SagaEnds ==
    /\ \/ saga = "runs" /\ executed = Len(steps) /\ saga' = "ok"
       \/ saga = "compensates" /\ undoing = 0 /\ saga' = "failed"
    /\ UNCHANGED <<steps, executed, effects, undoing, undone, reported>>

SagaNext ==
    \/ ExecuteStep
    \/ StepFails
    \/ NoExecute
    \/ StepPanics
    \/ CompensateStep
    \/ CompensationPanics
    \/ SagaEnds

-----------------------------------------------------------------------------
\* The tracker is at rest.
SagaAlone == SagaInit /\ TasksInit /\ [][SagaNext /\ UNCHANGED tasksVars]_<<sagaVars, tasksVars>>

-----------------------------------------------------------------------------
\* The effect of step i stays after its turn in compensateReverse.
Keeps(i) == steps[i].compensate = "nil" \/ (steps[i].compensate = "fails" /\ i \in reported)

\* A saga that completed leaves all effects in place. After a step that failed
\* there are none but those of steps that cannot be compensated, or whose failure
\* to compensate the error names; where a compensation panicked, it and the steps
\* before it are left as well; and where a step has no execute function, or
\* panicked, all that ran before it are. Steps are undone in the reverse of their
\* order (saga.go:39-77).
SagaCompensated ==
    /\ saga = "ok" => effects = DOMAIN steps
    /\ saga = "failed" => \A i \in effects : Keeps(i)
    /\ saga = "invalid" => effects = 1 .. executed
    /\ saga = "panicked" =>
          IF undoing = 0
          THEN effects = 1 .. executed
          ELSE /\ steps[undoing].compensate = "panics"
               /\ 1 .. undoing \subseteq effects
               /\ \A i \in effects : i <= undoing \/ Keeps(i)
    /\ \A i, j \in DOMAIN undone : i < j => undone[i] > undone[j]

\* What Execute is said to do: it "compensates completed steps in reverse order"
\* (saga.go:37), so that a saga that did not complete keeps the effect of no
\* completed step that can be compensated.
CompletedStepsCompensated ==
    saga \in {"failed", "invalid", "panicked"} => \A i \in effects : steps[i].compensate # "ok"
=============================================================================
