--------------------------- MODULE ServicesProofs ---------------------------
(***************************************************************************)
(* Proofs about the components of MCServices, for every value of their      *)
(* constants.  Each section is about one component, whose variables nothing *)
(* else uses: its behaviours begin with the component's Init and take the  *)
(* component's steps.                                                      *)
(***************************************************************************)
EXTENDS Integers, Sequences, RedisClaims, Workflows, Identifiers, PubSub, Lifecycle, Auth, Requests, FiniteSetTheorems, TLAPS

ClaimsSpec == ClaimsInit /\ [][ClaimsNext]_claimsVars

\* The command of a transaction that was watched, until its EXEC is answered.
Execs == {"exec complete", "exec release"}

Others == {"set nx", "read", "claimed", "complete", "release", "not completed", "done"}

\* What WATCH is for: an owner whose watched key nobody wrote still holds it.
WatchHolds == \A o \in Owners : step[o] \in Execs /\ o \notin dirty => Holds(o)

ClaimsInv ==
    /\ step \in [Owners -> Execs \cup Others]
    /\ dirty \subseteq Owners
    /\ WatchHolds

USE DEF ExecOf, PastOf, Execs, Others

\* A write makes every watching owner dirty.
LEMMA PutKeepsWatch ==
    ASSUME ClaimsInv, NEW value, Put(value), step' \in [Owners -> Execs \cup Others]
    PROVE  ClaimsInv'
BY DEF ClaimsInv, WatchHolds, Put

\* An owner goes where no EXEC awaits it, and the key stays.
LEMMA GotoKeepsWatch ==
    ASSUME ClaimsInv, NEW o \in Owners, NEW where \in Others,
           Sends(o, where), UNCHANGED <<record, dirty>>
    PROVE  ClaimsInv'
BY DEF ClaimsInv, WatchHolds, Sends, Holds, Record

LEMMA ExecOfCalls == \A what \in {"complete", "release"} : ExecOf[what] \in Execs
<1>1. ExecOf["complete"] = "exec complete" /\ ExecOf["release"] = "exec release" BY DEF ExecOf
<1> QED BY <1>1

LEMMA ClaimsInitially == ClaimsInit => ClaimsInv
BY DEF ClaimsInit, ClaimsInv, WatchHolds

\* Each command keeps what WATCH promises, and is a step of the atomic store or
\* none that it can see.
LEMMA ClaimsStep ==
    ASSUME ClaimsInv, [ClaimsNext]_claimsVars
    PROVE  ClaimsInv' /\ [Abstract!Next]_<<record, result>>
<1> DEFINE Sees == [Abstract!Next]_<<record, result>>
<1>1. ASSUME NEW o \in Owners, SetNX(o) PROVE ClaimsInv' /\ Sees
  <2>1. CASE record = NoRecord
    <3>1. Put(Record("pending", o)) /\ CallReturns(o, "acquired", "claimed")
      BY <1>1, <2>1 DEF SetNX
    <3>2. step' \in [Owners -> Execs \cup Others] BY <3>1 DEF CallReturns, Sends, ClaimsInv
    <3>3. ClaimsInv' BY <3>1, <3>2, PutKeepsWatch
    <3>4. Abstract!Claim(o)
      BY <2>1, <3>1 DEF CallReturns, Put, Record, Abstract!Claim, Abstract!Record,
            Abstract!Happened, Abstract!Returns
    <3> QED BY <3>3, <3>4 DEF Abstract!Next
  <2>2. CASE record # NoRecord
    <3>1. Sends(o, "read") /\ UNCHANGED <<record, dirty, result>>
      BY <1>1, <2>2 DEF SetNX
    <3>2. ClaimsInv' BY <3>1, GotoKeepsWatch
    <3> QED BY <3>1, <3>2
  <2> QED BY <2>1, <2>2
<1>2. ASSUME NEW o \in Owners, SetNXReplyLost(o) PROVE ClaimsInv' /\ Sees
  <2>1. record = NoRecord /\ Put(Record("pending", o)) /\ UNCHANGED <<result, step>>
    BY <1>2 DEF SetNXReplyLost
  <2>2. ClaimsInv' BY <2>1, PutKeepsWatch DEF ClaimsInv
  <2>3. Abstract!Claim(o)
    BY <2>1 DEF Put, Record, Abstract!Claim, Abstract!Record, Abstract!Happened
  <2> QED BY <2>2, <2>3 DEF Abstract!Next
<1>3. ASSUME NEW o \in Owners, NEW where \in Others, NEW next \in Others,
             Again(o, where, next), UNCHANGED <<record, dirty>>
      PROVE  ClaimsInv' /\ Sees
  <2>1. CASE Sends(o, where) /\ UNCHANGED result
    BY <1>3, <2>1, GotoKeepsWatch
  <2>2. CASE CallReturns(o, "error", next)
    <3>1. ClaimsInv' BY <1>3, <2>2, GotoKeepsWatch DEF CallReturns
    <3>2. Abstract!Fails(o)
      BY <1>3, <2>2 DEF CallReturns, Abstract!Fails, Abstract!Returns
    <3> QED BY <3>1, <3>2 DEF Abstract!Next
  <2> QED BY <1>3, <2>1, <2>2 DEF Again
<1>4. ASSUME NEW o \in Owners, ReadClaim(o) PROVE ClaimsInv' /\ Sees
  <2>1. CASE record = NoRecord
    BY <1>3, <1>4, <2>1 DEF ReadClaim
  <2>2. CASE record # NoRecord
    <3>1. CallReturns(o, record.state, "done") /\ UNCHANGED <<record, dirty>>
      BY <1>4, <2>2 DEF ReadClaim
    <3>2. ClaimsInv' BY <3>1, GotoKeepsWatch DEF CallReturns
    <3>3. Abstract!Claim(o)
      BY <2>2, <3>1 DEF CallReturns, Abstract!Claim, Abstract!Returns
    <3> QED BY <3>2, <3>3 DEF Abstract!Next
  <2> QED BY <2>1, <2>2
<1>5. ASSUME NEW o \in Owners, Settle(o) \/ ReleaseInstead(o) PROVE ClaimsInv' /\ Sees
  <2>1. PICK what \in {"complete", "release"} : Sends(o, what) /\ UNCHANGED <<record, result, dirty>>
    BY <1>5 DEF Settle, ReleaseInstead, Call
  <2> QED BY <2>1, GotoKeepsWatch
<1>6. ASSUME NEW o \in Owners, NEW what \in {"complete", "release"}, Watch(o, what) PROVE ClaimsInv' /\ Sees
  <2>1. CASE Holds(o)
    <3>1. Sends(o, ExecOf[what]) /\ dirty' = dirty \ {o} /\ UNCHANGED <<record, result>>
      BY <1>6, <2>1 DEF Watch
    <3>2. ExecOf[what] \in Execs BY ExecOfCalls
    <3>3. step' \in [Owners -> Execs \cup Others] /\ dirty' \subseteq Owners
      BY <3>1, <3>2 DEF ClaimsInv, Sends
    <3>4. ASSUME NEW p \in Owners, step'[p] \in Execs, p \notin dirty' PROVE record = Record("pending", p)
      <4>1. CASE p = o BY <2>1, <4>1 DEF Holds
      <4>2. CASE p # o
        <5>1. step[p] \in Execs /\ p \notin dirty
          BY <3>1, <3>2, <3>4, <4>2 DEF ClaimsInv, Sends
        <5> QED BY <5>1 DEF ClaimsInv, WatchHolds, Holds
      <4> QED BY <4>1, <4>2
    <3>5. ClaimsInv'
      BY <3>1, <3>3, <3>4 DEF ClaimsInv, WatchHolds, Holds, Record
    <3> QED BY <3>1, <3>5
  <2>2. CASE ~Holds(o)
    <3>1. After(o, what) \in Others BY DEF After
    <3>2. CASE record = NoRecord /\ CallReturns(o, "released", "done") /\ UNCHANGED <<record, dirty>>
      <4>1. ClaimsInv' BY <3>2, GotoKeepsWatch DEF CallReturns
      <4>2. Abstract!Release(o)
        BY <3>2 DEF CallReturns, Abstract!Release, Abstract!Returns
      <4> QED BY <4>1, <4>2 DEF Abstract!Next
    <3>3. CASE CallReturns(o, "lost", After(o, what)) /\ UNCHANGED <<record, dirty>>
      <4>1. ClaimsInv' BY <3>1, <3>3, GotoKeepsWatch DEF CallReturns
      <4>2. Abstract!Lost(o)
        BY <2>2, <3>3 DEF CallReturns, Holds, Record, Abstract!Record,
              Abstract!Lost, Abstract!Returns
      <4> QED BY <4>1, <4>2 DEF Abstract!Next
    <3> QED BY <1>6, <2>2, <3>2, <3>3 DEF Watch
  <2> QED BY <2>1, <2>2
<1>7. ASSUME NEW o \in Owners, NEW what \in {"complete", "release"}, Exec(o, what) PROVE ClaimsInv' /\ Sees
  <2>1. After(o, what) \in Others BY DEF After
  <2>2. CASE Aborts(o)
    <3>1. Again(o, what, After(o, what)) /\ UNCHANGED <<record, dirty>>
      BY <1>7, <2>2 DEF Exec
    <3> QED BY <1>3, <2>1, <3>1
  <2>3. CASE ~Aborts(o)
    <3>1. record = Record("pending", o)
      <4>1. step[o] \in Execs BY <1>7, ExecOfCalls DEF Exec
      <4> QED BY <2>3, <4>1 DEF Aborts, ClaimsInv, WatchHolds, Holds
    <3>2. /\ Put(IF what = "complete" THEN Record("complete", o) ELSE NoRecord)
          /\ \/ CallReturns(o, PastOf[what], "done")
             \/ CallReturns(o, "error", After(o, what))
      BY <1>7, <2>3 DEF Exec
    <3>3. step' \in [Owners -> Execs \cup Others] BY <2>1, <3>2 DEF CallReturns, Sends, ClaimsInv
    <3>4. ClaimsInv' BY <3>2, <3>3, PutKeepsWatch
    <3>5. Abstract!Complete(o) \/ Abstract!Release(o)
      BY <3>1, <3>2 DEF Put, CallReturns, Record, Abstract!Record, Abstract!Complete,
            Abstract!Release, Abstract!Happened, Abstract!Returns
    <3> QED BY <3>4, <3>5 DEF Abstract!Next
  <2> QED BY <2>2, <2>3
<1>8. ASSUME NEW o \in Owners, CommandFails(o) PROVE ClaimsInv' /\ Sees
  <2>1. /\ CallReturns(o, "error", After(o, step[o]))
        /\ \/ UNCHANGED <<record, dirty>>
           \/ record = NoRecord /\ Put(Record("pending", o))
    BY <1>8 DEF CommandFails
  <2>2. After(o, step[o]) \in Others BY DEF After
  <2>3. ClaimsInv'
    <3>1. step' \in [Owners -> Execs \cup Others] BY <2>1, <2>2 DEF CallReturns, Sends, ClaimsInv
    <3> QED BY <2>1, <2>2, <3>1, PutKeepsWatch, GotoKeepsWatch DEF CallReturns
  <2>4. Abstract!Fails(o) \/ Abstract!Claim(o)
    BY <2>1 DEF Put, CallReturns, Record, Abstract!Record, Abstract!Fails,
          Abstract!Claim, Abstract!Happened, Abstract!Returns
  <2> QED BY <2>3, <2>4 DEF Abstract!Next
<1>9. ASSUME Expire PROVE ClaimsInv' /\ Sees
  <2>1. record # NoRecord /\ Put(NoRecord) /\ UNCHANGED <<result, step>> BY <1>9 DEF Expire
  <2>2. ClaimsInv' BY <2>1, PutKeepsWatch DEF ClaimsInv
  <2> QED BY <2>1, <2>2 DEF Put, Abstract!Expire, Abstract!Next
<1>10. CASE UNCHANGED claimsVars
  BY <1>10 DEF claimsVars, ClaimsInv, WatchHolds, Holds, Record
<1> QED BY <1>1, <1>2, <1>4, <1>5, <1>6, <1>7, <1>8, <1>9, <1>10 DEF ClaimsNext

\* The optimistic transactions of the Redis store implement a store in which
\* Claim, Complete and Release each happen at once and only the owner of a pending
\* claim settles it (middleware/idempotency_redis.go:57-184), for any number of
\* owners, retries, expiries and lost replies.
THEOREM ClaimsRefined == ClaimsSpec => RedisImplementsClaimStore
<1>1. ClaimsInv /\ [ClaimsNext]_claimsVars => ClaimsInv' /\ [Abstract!Next]_<<record, result>>
  BY ClaimsStep
<1> QED BY <1>1, ClaimsInitially, PTL DEF ClaimsSpec, RedisImplementsClaimStore

HIDE DEF ExecOf, PastOf, Execs, Others

-----------------------------------------------------------------------------
SagaSpec == SagaInit /\ [][SagaNext]_sagaVars

SagaTypes ==
    /\ steps \in Seq(Steps)
    /\ executed \in 0 .. Len(steps)
    /\ saga \in {"runs", "compensates", "ok", "failed", "invalid", "panicked"}
    /\ undoing \in 0 .. executed
    /\ undone \in Seq(Nat)
    /\ effects \subseteq 1 .. executed

\* Until compensation begins every executed step is in effect.
Forward ==
    /\ saga \in {"runs", "ok", "invalid"} => undoing = 0 /\ (saga = "ok" => executed = Len(steps))
    /\ saga \in {"runs", "ok", "invalid", "panicked"} /\ undoing = 0 => effects = 1 .. executed
    /\ saga = "runs" => undone = <<>>

\* Steps above the one that is undone next are undone or keep their effect for a
\* reason; from that one down all are in effect.
Backward ==
    /\ saga \in {"compensates", "failed"} => \A i \in effects : i > undoing => Keeps(i)
    /\ saga = "compensates" => 1 .. undoing \subseteq effects
    /\ saga = "failed" => undoing = 0
    /\ saga = "panicked" /\ undoing > 0 =>
          /\ steps[undoing].compensate = "panics"
          /\ 1 .. undoing \subseteq effects
          /\ \A i \in effects : i > undoing => Keeps(i)
    /\ \A k \in DOMAIN undone : undone[k] > undoing

Reversed == \A i, j \in DOMAIN undone : i < j => undone[i] > undone[j]

SagaInv == SagaTypes /\ Forward /\ Backward /\ Reversed

LEMMA SagaInitially == SagaInit => SagaInv
<1> USE SagaAssumption
<1> SUFFICES ASSUME SagaInit PROVE SagaInv
  OBVIOUS
<1>1. PICK n \in 1 .. MaxSteps : steps \in [1 .. n -> Steps] BY DEF SagaInit
<1>2. steps \in Seq(Steps) BY <1>1
<1>3. Len(steps) \in Nat BY <1>2
<1>4. SagaTypes BY <1>2, <1>3 DEF SagaInit, SagaTypes
<1> QED BY <1>4 DEF SagaInit, SagaInv, Forward, Backward, Reversed

LEMMA SagaStep ==
    ASSUME SagaInv, [SagaNext]_sagaVars
    PROVE  SagaInv'
<1> USE DEF SagaInv, SagaTypes, Forward, Backward, Reversed, Keeps
<1>1. CASE ExecuteStep BY <1>1 DEF ExecuteStep, Runs
<1>2. CASE StepFails BY <1>2 DEF StepFails, Runs
<1>3. CASE NoExecute BY <1>3 DEF NoExecute, Runs
<1>4. CASE StepPanics BY <1>4 DEF StepPanics, Runs
<1>5. CASE CompensateStep
  <2>1. /\ saga = "compensates" /\ saga' = saga /\ steps' = steps /\ executed' = executed
        /\ undoing > 0 /\ undoing' = undoing - 1
    BY <1>5 DEF CompensateStep, NextToUndo
  <2>2. steps[undoing].compensate \in {"ok", "fails", "nil"}
    <3>1. steps[undoing] \in Steps BY <2>1
    <3>2. steps[undoing].compensate # "panics" BY <1>5 DEF CompensateStep
    <3> QED BY ONLY <3>1, <3>2 DEF Steps
  <2>3. CASE steps[undoing].compensate = "ok"
    <3>1. effects' = effects \ {undoing} /\ undone' = Append(undone, undoing) /\ reported' = reported
      BY <1>5, <2>3 DEF CompensateStep
    <3>2. SagaTypes'
      <4>1. undone' \in Seq(Nat) BY <2>1, <3>1
      <4>2. (effects \subseteq 1 .. executed)' BY <2>1, <3>1
      <4>3. (undoing \in 0 .. executed)' BY <2>1
      <4> QED BY <2>1, <4>1, <4>2, <4>3
    <3>3. (Forward /\ Backward)' BY <2>1, <3>1
    <3>4. Reversed' BY <2>1, <3>1
    <3> QED BY <3>2, <3>3, <3>4
  <2>4. CASE steps[undoing].compensate = "fails"
    <3>1. reported' = reported \cup {undoing} /\ UNCHANGED <<effects, undone>>
      BY <1>5, <2>4 DEF CompensateStep
    <3> QED BY <2>1, <2>4, <3>1
  <2>5. CASE steps[undoing].compensate = "nil"
    <3>1. UNCHANGED <<effects, undone, reported>>
      BY <1>5, <2>5 DEF CompensateStep
    <3> QED BY <2>1, <2>5, <3>1
  <2> QED BY <2>2, <2>3, <2>4, <2>5
<1>6. CASE CompensationPanics BY <1>6 DEF CompensationPanics
<1>7. CASE SagaEnds BY <1>7 DEF SagaEnds
<1>8. CASE UNCHANGED sagaVars BY <1>8 DEF sagaVars
<1> QED BY <1>1, <1>2, <1>3, <1>4, <1>5, <1>6, <1>7, <1>8 DEF SagaNext

\* A saga of any length that completed has all its effects; one whose step failed
\* has those of the steps that cannot be compensated or failed to be, undone in
\* the reverse of their order; and only a step without an execute function, or a
\* function that panics, in Execute or in a compensation, leaves others as well:
\* all that ran before it, or all up to it (saga/saga.go:39-77).
THEOREM SagasCompensated == SagaSpec => []SagaCompensated
<1>1. SagaInit => SagaInv BY SagaInitially
<1>2. SagaInv /\ [SagaNext]_sagaVars => SagaInv' BY SagaStep
<1>3. SagaInv => SagaCompensated
  BY DEF SagaInv, SagaTypes, Forward, Backward, Reversed, SagaCompensated
<1> QED BY <1>1, <1>2, <1>3, PTL DEF SagaSpec

-----------------------------------------------------------------------------
TasksSpec == TasksInit /\ [][TasksNext]_tasksVars

Statuses == {"PENDING", "RUNNING", "RETRYING", "COMPLETED", "FAILED"}

TaskInfos == [status : Statuses, retries : Nat, failed : BOOLEAN]

TasksTypes ==
    /\ taskId \in [Dispatches -> Ticks \cup {"none"}]
    /\ entries \in [Ticks -> TaskInfos \cup {NoTask}]
    /\ attempt \in [Dispatches -> Nat]
    /\ worker \in [Dispatches -> {"none", "begin", "run", "complete", "give up", "end"}]
    /\ succeeded \subseteq Dispatches

\* A task has its identifier from Dispatch on, and the identifier an entry.
Named(d) ==
    /\ worker[d] = "none" <=> taskId[d] = "none"
    /\ taskId[d] # "none" => entries[taskId[d]] \in TaskInfos

Alive(info) == info.status \in {"PENDING", "RUNNING", "RETRYING"}

\* What the entry of a task says at each point of its goroutine, unless another
\* dispatch writes the entry too.
Follows(d) ==
    LET info == entries[taskId[d]]
    IN  /\ worker[d] = "begin" => Alive(info) /\ d \notin succeeded
        /\ worker[d] = "run" =>
              Alive(info) /\ d \notin succeeded /\ (attempt[d] > 0 => info.retries = attempt[d])
        /\ worker[d] = "complete" => Alive(info) /\ d \in succeeded
        /\ worker[d] = "give up" => Alive(info) /\ d \notin succeeded /\ info.retries = TaskRetries /\ info.failed
        /\ worker[d] = "end" =>
              \/ d \in succeeded /\ info.status = "COMPLETED"
              \/ d \notin succeeded /\ info.status = "FAILED" /\ info.retries = TaskRetries /\ info.failed
        /\ worker[d] \in {"begin", "run", "complete"} /\ info.failed => attempt[d] > 0

TasksInv ==
    /\ TasksTypes
    /\ \A d \in Dispatches :
          /\ Named(d)
          /\ attempt[d] <= TaskRetries
          /\ worker[d] = "none" => attempt[d] = 0 /\ d \notin succeeded
          /\ taskId[d] # "none" /\ ~Shared(d) => Follows(d)

LEMMA RetriesPositive == TaskRetries \in Nat /\ TaskRetries > 0
BY TasksAssumption DEF TaskRetries

LEMMA TasksInitially == TasksInit => TasksInv
BY RetriesPositive DEF TasksInit, TasksInv, TasksTypes, Named

\* The steps of a goroutine: it changes the entry under its identifier, and of
\* the other tasks nothing but the entry they share with it.
LEMMA OthersFollow ==
    ASSUME TasksInv, TasksTypes', NEW d \in Dispatches, taskId' = taskId,
           \A e \in Dispatches \ {d} :
               attempt'[e] = attempt[e] /\ worker'[e] = worker[e] /\ (e \in succeeded' <=> e \in succeeded),
           \A id \in Ticks : id # taskId[d] => entries'[id] = entries[id],
           entries'[taskId[d]] \in TaskInfos, taskId[d] # "none", worker'[d] # "none",
           attempt'[d] <= TaskRetries, ~Shared(d) => Follows(d)'
    PROVE  TasksInv'
<1>1. ASSUME NEW e \in Dispatches, e # d
      PROVE  /\ Named(e)'
             /\ attempt'[e] <= TaskRetries
             /\ worker'[e] = "none" => attempt'[e] = 0 /\ e \notin succeeded'
             /\ taskId'[e] # "none" /\ ~Shared(e)' => Follows(e)'
  <2>1. Named(e)' BY <1>1 DEF TasksInv, TasksTypes, Named
  <2>2. taskId'[e] # "none" /\ ~Shared(e)' => Follows(e)'
    <3> SUFFICES ASSUME taskId[e] # "none", ~Shared(e)' PROVE Follows(e)'
      OBVIOUS
    <3>1. ~Shared(e) /\ taskId[e] # taskId[d] BY <1>1 DEF Shared
    <3>2. taskId[e] \in Ticks BY DEF TasksInv, TasksTypes
    <3>3. entries'[taskId[e]] = entries[taskId[e]] BY <3>1, <3>2
    <3>4. Follows(e) BY <3>1 DEF TasksInv
    <3> QED BY <1>1, <3>3, <3>4 DEF Follows
  <2> QED BY <1>1, <2>1, <2>2 DEF TasksInv
<1>2. Named(d)' /\ (taskId'[d] # "none" /\ ~Shared(d)' => Follows(d)')
  BY DEF Named, Shared
<1> QED BY <1>1, <1>2 DEF TasksInv

\* What a goroutine knows of its own entry when nobody shares it.
KnowsEntry(d) ==
    /\ taskId[d] \in Ticks /\ taskId[d] # "none" /\ entries[taskId[d]] \in TaskInfos
    /\ ~Shared(d) => Follows(d)
    /\ attempt[d] \in Nat /\ attempt[d] <= TaskRetries
    /\ TaskRetries \in Nat /\ TaskRetries > 0

LEMMA OwnEntry ==
    ASSUME TasksInv, NEW d \in Dispatches, worker[d] # "none"
    PROVE  KnowsEntry(d)
BY RetriesPositive, TasksAssumption DEF KnowsEntry, TasksInv, TasksTypes, Named

LEMMA TasksStep ==
    ASSUME TasksInv, [TasksNext]_tasksVars
    PROVE  TasksInv'
<1>1. ASSUME NEW d \in Dispatches, Dispatch(d) PROVE TasksInv'
  <2>1. PICK id \in Ticks :
          /\ worker[d] = "none"
          /\ taskId' = [taskId EXCEPT ![d] = id]
          /\ entries' = [entries EXCEPT ![id] = Info("PENDING", 0, FALSE)]
          /\ worker' = [worker EXCEPT ![d] = "begin"]
          /\ UNCHANGED <<attempt, succeeded>>
    BY <1>1 DEF Dispatch
  <2>2. Info("PENDING", 0, FALSE) \in TaskInfos BY DEF Info, TaskInfos, Statuses
  <2>3. TasksTypes' BY <2>1, <2>2 DEF TasksInv, TasksTypes
  <2>4. ASSUME NEW e \in Dispatches, e # d
        PROVE  /\ Named(e)'
               /\ attempt'[e] <= TaskRetries
               /\ worker'[e] = "none" => attempt'[e] = 0 /\ e \notin succeeded'
               /\ taskId'[e] # "none" /\ ~Shared(e)' => Follows(e)'
    <3>1. taskId'[e] = taskId[e] /\ worker'[e] = worker[e] BY <2>1, <2>4 DEF TasksInv, TasksTypes
    <3>2. Named(e)' BY <2>1, <2>2, <3>1 DEF TasksInv, TasksTypes, Named
    <3>3. ASSUME taskId[e] # "none", ~Shared(e)' PROVE Follows(e)'
      <4>1. taskId[e] # id BY <2>1, <2>4, <3>1, <3>3 DEF Shared, TasksInv, TasksTypes
      <4>2. ~Shared(e)
        <5> SUFFICES ASSUME NEW o \in Dispatches \ {e}, taskId[o] = taskId[e] PROVE FALSE
          BY DEF Shared
        <5>1. worker[o] # "none" BY <3>3 DEF TasksInv, Named
        <5>2. taskId'[o] = taskId[o] BY <2>1, <5>1 DEF TasksInv, TasksTypes
        <5> QED BY <3>1, <3>3, <5>2 DEF Shared
      <4>3. taskId[e] \in Ticks BY <3>3 DEF TasksInv, TasksTypes
      <4>4. entries'[taskId[e]] = entries[taskId[e]] BY <2>1, <4>1, <4>3 DEF TasksInv, TasksTypes
      <4>5. Follows(e) BY <3>3, <4>2 DEF TasksInv
      <4> QED BY <2>1, <3>1, <4>4, <4>5 DEF Follows
    <3> QED BY <2>1, <3>1, <3>2, <3>3 DEF TasksInv
  <2>5. taskId'[d] = id /\ worker'[d] = "begin" /\ entries'[id] = Info("PENDING", 0, FALSE)
    BY <2>1 DEF TasksInv, TasksTypes
  <2>6. Named(d)' BY <2>2, <2>5, TasksAssumption DEF Named
  <2>7. attempt'[d] = 0 /\ d \notin succeeded' BY <2>1 DEF TasksInv
  <2>8. Follows(d)' BY <2>5, <2>7 DEF Follows, Alive, Info
  <2> QED BY <2>3, <2>4, <2>5, <2>6, <2>7, <2>8, RetriesPositive DEF TasksInv
<1>2. ASSUME NEW d \in Dispatches, Begin(d) PROVE TasksInv'
  <2> DEFINE old == entries[taskId[d]]
             new == IF attempt[d] > 0
                    THEN [old EXCEPT !.status = "RETRYING", !.retries = attempt[d]]
                    ELSE [old EXCEPT !.status = "RUNNING"]
  <2>1. worker[d] = "begin" /\ entries' = [entries EXCEPT ![taskId[d]] = new]
        /\ worker' = [worker EXCEPT ![d] = "run"] /\ UNCHANGED <<taskId, attempt, succeeded>>
    BY <1>2 DEF Begin
  <2>2. KnowsEntry(d) BY <2>1, OwnEntry
  <2>3. new \in TaskInfos BY <2>2 DEF KnowsEntry, TaskInfos, Statuses
  <2>4. TasksTypes' BY <2>1, <2>3 DEF TasksInv, TasksTypes
  <2>5. worker'[d] = "run" /\ entries'[taskId[d]] = new
    BY <2>1, <2>2 DEF KnowsEntry, TasksInv, TasksTypes
  <2>6. /\ Alive(new) /\ (attempt[d] > 0 => new.retries = attempt[d])
        /\ new.failed = old.failed
    BY <2>2 DEF KnowsEntry, Alive, TaskInfos
  <2>7. ~Shared(d) => Follows(d)'
    BY <2>1, <2>2, <2>5, <2>6 DEF KnowsEntry, Follows
  <2>8. /\ \A e \in Dispatches \ {d} : worker'[e] = worker[e]
        /\ \A id \in Ticks : id # taskId[d] => entries'[id] = entries[id]
    BY <2>1 DEF TasksInv, TasksTypes
  <2> QED BY <2>1, <2>2, <2>3, <2>4, <2>5, <2>7, <2>8, OthersFollow DEF KnowsEntry
<1>3. ASSUME NEW d \in Dispatches, Succeed(d) PROVE TasksInv'
  <2>1. worker[d] = "run" /\ succeeded' = succeeded \cup {d}
        /\ worker' = [worker EXCEPT ![d] = "complete"] /\ UNCHANGED <<taskId, entries, attempt>>
    BY <1>3 DEF Succeed
  <2>2. KnowsEntry(d) BY <2>1, OwnEntry
  <2>4. TasksTypes' BY <2>1 DEF TasksInv, TasksTypes
  <2>5. worker'[d] = "complete" BY <2>1 DEF TasksInv, TasksTypes
  <2>7. ~Shared(d) => Follows(d)'
    BY <2>1, <2>2, <2>5 DEF KnowsEntry, Follows
  <2>8. \A e \in Dispatches \ {d} : worker'[e] = worker[e]
    BY <2>1 DEF TasksInv, TasksTypes
  <2> QED BY <2>1, <2>2, <2>4, <2>5, <2>7, <2>8, OthersFollow DEF KnowsEntry
<1>4. ASSUME NEW d \in Dispatches, Complete(d) PROVE TasksInv'
  <2> DEFINE new == [entries[taskId[d]] EXCEPT !.status = "COMPLETED"]
  <2>1. worker[d] = "complete" /\ entries' = [entries EXCEPT ![taskId[d]] = new]
        /\ worker' = [worker EXCEPT ![d] = "end"] /\ UNCHANGED <<taskId, attempt, succeeded>>
    BY <1>4 DEF Complete
  <2>2. KnowsEntry(d) BY <2>1, OwnEntry
  <2>3. new \in TaskInfos BY <2>2 DEF KnowsEntry, TaskInfos, Statuses
  <2>4. TasksTypes' BY <2>1, <2>3 DEF TasksInv, TasksTypes
  <2>5. worker'[d] = "end" /\ entries'[taskId[d]] = new
    BY <2>1, <2>2 DEF KnowsEntry, TasksInv, TasksTypes
  <2>6. new.status = "COMPLETED" /\ new.retries = entries[taskId[d]].retries /\ new.failed = entries[taskId[d]].failed
    BY <2>2 DEF KnowsEntry, TaskInfos
  <2>7. ~Shared(d) => Follows(d)'
    BY <2>1, <2>2, <2>5, <2>6 DEF KnowsEntry, Follows
  <2>8. /\ \A e \in Dispatches \ {d} : worker'[e] = worker[e]
        /\ \A id \in Ticks : id # taskId[d] => entries'[id] = entries[id]
    BY <2>1 DEF TasksInv, TasksTypes
  <2> QED BY <2>1, <2>2, <2>3, <2>4, <2>5, <2>7, <2>8, OthersFollow DEF KnowsEntry
<1>5. ASSUME NEW d \in Dispatches, GiveUp(d) PROVE TasksInv'
  <2> DEFINE new == [entries[taskId[d]] EXCEPT !.status = "FAILED"]
  <2>1. worker[d] = "give up" /\ entries' = [entries EXCEPT ![taskId[d]] = new]
        /\ worker' = [worker EXCEPT ![d] = "end"] /\ UNCHANGED <<taskId, attempt, succeeded>>
    BY <1>5 DEF GiveUp
  <2>2. KnowsEntry(d) BY <2>1, OwnEntry
  <2>3. new \in TaskInfos BY <2>2 DEF KnowsEntry, TaskInfos, Statuses
  <2>4. TasksTypes' BY <2>1, <2>3 DEF TasksInv, TasksTypes
  <2>5. worker'[d] = "end" /\ entries'[taskId[d]] = new
    BY <2>1, <2>2 DEF KnowsEntry, TasksInv, TasksTypes
  <2>6. new.status = "FAILED" /\ new.retries = entries[taskId[d]].retries /\ new.failed = entries[taskId[d]].failed
    BY <2>2 DEF KnowsEntry, TaskInfos
  <2>7. ~Shared(d) => Follows(d)'
    BY <2>1, <2>2, <2>5, <2>6 DEF KnowsEntry, Follows
  <2>8. /\ \A e \in Dispatches \ {d} : worker'[e] = worker[e]
        /\ \A id \in Ticks : id # taskId[d] => entries'[id] = entries[id]
    BY <2>1 DEF TasksInv, TasksTypes
  <2> QED BY <2>1, <2>2, <2>3, <2>4, <2>5, <2>7, <2>8, OthersFollow DEF KnowsEntry
<1>6. ASSUME NEW d \in Dispatches, Fail(d) PROVE TasksInv'
  <2> DEFINE new == [entries[taskId[d]] EXCEPT !.failed = TRUE]
  <2>1. /\ worker[d] = "run" /\ entries' = [entries EXCEPT ![taskId[d]] = new] /\ UNCHANGED <<taskId, succeeded>>
        /\ \/ attempt[d] >= TaskRetries /\ worker' = [worker EXCEPT ![d] = "give up"] /\ attempt' = attempt
           \/ /\ ~(attempt[d] >= TaskRetries) /\ worker' = [worker EXCEPT ![d] = "begin"]
              /\ attempt' = [attempt EXCEPT ![d] = @ + 1]
    BY <1>6 DEF Fail, LastAttempt
  <2>2. KnowsEntry(d) BY <2>1, OwnEntry
  <2>3. new \in TaskInfos BY <2>2 DEF KnowsEntry, TaskInfos, Statuses
  <2>4. TasksTypes'
    <3> HIDE DEF new
    <3>1. entries' \in [Ticks -> TaskInfos \cup {NoTask}]
      <4>1. entries' = [entries EXCEPT ![taskId[d]] = new] BY <2>1
      <4>2. entries \in [Ticks -> TaskInfos \cup {NoTask}] BY DEF TasksInv, TasksTypes
      <4> QED BY ONLY <4>1, <4>2, <2>3
    <3>2. attempt' \in [Dispatches -> Nat]
      <4>1. attempt' = attempt \/ attempt' = [attempt EXCEPT ![d] = @ + 1] BY <2>1
      <4>2. attempt \in [Dispatches -> Nat] BY DEF TasksInv, TasksTypes
      <4> QED BY ONLY <4>1, <4>2
    <3>3. worker' \in [Dispatches -> {"none", "begin", "run", "complete", "give up", "end"}]
      BY ONLY <2>1, TasksInv DEF TasksInv, TasksTypes
    <3> QED BY <2>1, <3>1, <3>2, <3>3 DEF TasksInv, TasksTypes
  <2>5. entries'[taskId[d]] = new
    BY <2>1, <2>2 DEF KnowsEntry, TasksInv, TasksTypes
  <2>6. new.status = entries[taskId[d]].status /\ new.retries = entries[taskId[d]].retries /\ new.failed
    BY <2>2 DEF KnowsEntry, TaskInfos
  <2>7. \/ worker'[d] = "give up" /\ attempt[d] = TaskRetries /\ attempt'[d] = attempt[d]
        \/ worker'[d] = "begin" /\ attempt'[d] = attempt[d] + 1 /\ attempt'[d] <= TaskRetries
    <3> HIDE DEF new
    <3>1. CASE attempt[d] >= TaskRetries /\ worker' = [worker EXCEPT ![d] = "give up"] /\ attempt' = attempt
      <4>1. worker'[d] = "give up" BY <3>1 DEF TasksInv, TasksTypes
      <4>2. attempt[d] >= TaskRetries /\ attempt'[d] = attempt[d] BY <3>1
      <4>3. attempt[d] = TaskRetries BY ONLY <2>2, <4>2 DEF KnowsEntry
      <4> QED BY ONLY <4>1, <4>2, <4>3
    <3>2. CASE /\ ~(attempt[d] >= TaskRetries) /\ worker' = [worker EXCEPT ![d] = "begin"]
               /\ attempt' = [attempt EXCEPT ![d] = @ + 1]
      <4>1. worker'[d] = "begin" /\ attempt'[d] = attempt[d] + 1 BY <3>2 DEF TasksInv, TasksTypes
      <4>2. attempt[d] + 1 <= TaskRetries BY ONLY <2>2, <3>2 DEF KnowsEntry
      <4> QED BY ONLY <4>1, <4>2
    <3> QED BY <2>1, <3>1, <3>2
  <2>8. ~Shared(d) => Follows(d)'
    <3>1. ASSUME ~Shared(d), worker'[d] = "give up", attempt[d] = TaskRetries PROVE Follows(d)'
      BY <2>1, <2>2, <2>5, <2>6, <3>1 DEF KnowsEntry, Follows, Alive
    <3>2. ASSUME ~Shared(d), worker'[d] = "begin", attempt'[d] = attempt[d] + 1 PROVE Follows(d)'
      <4> HIDE DEF new
      <4>1. attempt'[d] > 0 BY <2>2, <3>2 DEF KnowsEntry
      <4>2. Alive(new) /\ d \notin succeeded BY <2>1, <2>2, <2>6, <3>2 DEF KnowsEntry, Follows, Alive
      <4> QED BY <2>1, <2>5, <3>2, <4>1, <4>2 DEF Follows
    <3> QED BY <2>7, <3>1, <3>2
  <2>9. /\ \A e \in Dispatches \ {d} : worker'[e] = worker[e] /\ attempt'[e] = attempt[e]
        /\ \A id \in Ticks : id # taskId[d] => entries'[id] = entries[id]
    BY <2>1 DEF TasksInv, TasksTypes
  <2>10. worker'[d] # "none" /\ attempt'[d] <= TaskRetries BY <2>2, <2>7 DEF KnowsEntry
  <2> QED BY <2>1, <2>2, <2>3, <2>4, <2>5, <2>8, <2>9, <2>10, OthersFollow DEF KnowsEntry
<1>7. CASE UNCHANGED tasksVars
  BY <1>7 DEF tasksVars, TasksInv, TasksTypes, Named, Follows, Alive, Shared
<1> QED BY <1>1, <1>2, <1>3, <1>4, <1>5, <1>6, <1>7 DEF TasksNext, TaskStep

\* GetStatus tells the truth of every task that shares its entry with no other,
\* for any number of tasks and retries (queue/task_tracker.go:66-128).
THEOREM TasksTrue == TasksSpec => []TaskTruth
<1>1. TasksInit => TasksInv BY TasksInitially
<1>2. TasksInv /\ [TasksNext]_tasksVars => TasksInv' BY TasksStep
<1>3. TasksInv => TaskTruth
  <2> SUFFICES ASSUME TasksInv, NEW d \in Dispatches, taskId[d] # "none", ~Shared(d)
               PROVE  LET info == entries[taskId[d]]
                      IN  /\ info.status = "COMPLETED" <=> (d \in succeeded /\ worker[d] = "end")
                          /\ info.status = "FAILED" <=> (d \notin succeeded /\ worker[d] = "end")
                          /\ info.status = "FAILED" => info.retries = TaskRetries /\ info.failed
                          /\ info.failed => attempt[d] + (IF worker[d] \in {"give up", "end"} THEN 1 ELSE 0) > 0
    BY DEF TaskTruth
  <2>1. worker[d] \in {"none", "begin", "run", "complete", "give up", "end"} /\ worker[d] # "none" /\ KnowsEntry(d)
    BY OwnEntry DEF TasksInv, TasksTypes, Named
  <2>2. Follows(d) /\ entries[taskId[d]] \in TaskInfos /\ attempt[d] \in Nat BY <2>1 DEF KnowsEntry
  <2>3. CASE worker[d] \in {"begin", "run", "complete"}
    <3>1. Alive(entries[taskId[d]]) /\ (entries[taskId[d]].failed => attempt[d] > 0) BY <2>2, <2>3 DEF Follows
    <3>2. attempt[d] > 0 => attempt[d] + 0 > 0 BY <2>2
    <3> QED BY <2>3, <3>1, <3>2 DEF Alive
  <2>4. CASE worker[d] \in {"give up", "end"}
    <3>1. attempt[d] + 1 > 0 BY <2>2
    <3> QED BY <2>2, <2>4, <3>1 DEF Follows, Alive
  <2> QED BY <2>1, <2>3, <2>4
<1> QED BY <1>1, <1>2, <1>3, PTL DEF TasksSpec

-----------------------------------------------------------------------------
IdsSpec == IdsInit /\ [][IdsNext]_idVars

Identifier == [ms : Nat, seq : Nat, source : NodeNumbers \cup {0}, by : Generators]

IdsTypes ==
    /\ wallClock \in Nat \ {0}
    /\ stepsBack \in Nat
    /\ node \in [Processes -> NodeNumbers]
    /\ lastMs \in [Generators -> Nat]
    /\ sequence \in [Generators -> Nat]
    /\ issued \in [Kinds -> Seq(Identifier)]
    /\ \A p \in Processes : sequence[p] <= MaxSequence

\* An identifier is not after the last one of its generator.
Until(id, ms, seq) == id.ms < ms \/ (id.ms = ms /\ id.seq <= seq)

\* The identifiers of a generator increase, up to the last one, from any of them
\* to any other between which it did not see its clock go back; the last has the
\* millisecond the generator remembers.
Rises(ids, g, ms, seq) ==
    /\ \A i \in DOMAIN ids : ids[i].by = g =>
          /\ Until(ids[i], ms, seq) \/ SetBack(ids, i, Len(ids))
          /\ \E l \in i .. Len(ids) : ids[l].by = g /\ ids[l].ms = ms
    /\ \A i, j \in DOMAIN ids : i < j /\ ids[i].by = g /\ ids[j].by = g => Before(ids[i], ids[j]) \/ SetBack(ids, i, j)

Increasing(kind, g) == Rises(issued[kind], g, lastMs[g], sequence[g])

\* A generator of version 7 never goes back.
Level ==
    /\ \A i \in DOMAIN issued["uuidv7"] : issued["uuidv7"][i].ms <= lastMs["uuidv7"]
    /\ \A p \in Pairs("uuidv7") : issued["uuidv7"][p[1]].ms <= issued["uuidv7"][p[2]].ms

\* Whose identifiers there are.
Sourced ==
    /\ \A i \in DOMAIN issued["snowflake"] :
          LET id == issued["snowflake"][i] IN id.by \in Processes /\ id.source = node[id.by]
    /\ \A i \in DOMAIN issued["ulid"] : issued["ulid"][i].by = "ulid"
    /\ \A i \in DOMAIN issued["uuidv7"] : issued["uuidv7"][i].by = "uuidv7"

AllIncrease ==
    /\ Increasing("ulid", "ulid") /\ Increasing("uuidv7", "uuidv7")
    /\ \A p \in Processes : Increasing("snowflake", p)

IdsInv == IdsTypes /\ Sourced /\ AllIncrease /\ Level

LEMMA IdsInitially == IdsInit => IdsInv
<1> SUFFICES ASSUME IdsInit PROVE IdsInv
  OBVIOUS
<1>1. \A k \in Kinds : issued[k] = <<>> BY DEF IdsInit
<1>2. IdsTypes BY IdsAssumption DEF IdsInit, Generators, IdsTypes
<1>3. Sourced BY <1>1 DEF Sourced, Kinds
<1>4. \A k \in Kinds, g \in Generators : Increasing(k, g) BY <1>1 DEF Increasing, Rises
<1>5. Level BY <1>1 DEF Level, Pairs, Kinds
<1> QED BY <1>2, <1>3, <1>4, <1>5 DEF IdsInv, AllIncrease, Kinds, Generators

\* The generator goes forward, or its clock has gone back, and the identifier says so.
Forwards(g, ms, seq) == ms # lastMs[g] \/ seq > sequence[g]

LEMMA Issued ==
    ASSUME IdsTypes, NEW kind \in Kinds, NEW g \in Generators, NEW ms \in Nat, NEW seq \in Nat,
           NEW source \in NodeNumbers \cup {0}, Issue(kind, g, ms, seq, source), g \in Processes => seq <= MaxSequence
    PROVE  /\ IdsTypes' /\ UNCHANGED <<wallClock, stepsBack, node>>
           /\ lastMs'[g] = ms /\ sequence'[g] = seq
           /\ \A h \in Generators \ {g} : lastMs'[h] = lastMs[h] /\ sequence'[h] = sequence[h]
           /\ \A k \in Kinds \ {kind} : issued'[k] = issued[k]
           /\ issued'[kind] = Append(issued[kind], [ms |-> ms, seq |-> seq, source |-> source, by |-> g])
           /\ issued[kind] \in Seq(Identifier)
<1>1. [ms |-> ms, seq |-> seq, source |-> source, by |-> g] \in Identifier BY DEF Identifier
<1>2. /\ lastMs' = [lastMs EXCEPT ![g] = ms] /\ sequence' = [sequence EXCEPT ![g] = seq]
      /\ issued' = [issued EXCEPT ![kind] = Append(issued[kind], [ms |-> ms, seq |-> seq, source |-> source, by |-> g])]
      /\ UNCHANGED <<wallClock, stepsBack, node>>
  BY DEF Issue
<1>3. issued[kind] \in Seq(Identifier) BY DEF IdsTypes
<1>4. Append(issued[kind], [ms |-> ms, seq |-> seq, source |-> source, by |-> g]) \in Seq(Identifier) BY <1>1, <1>3
<1>5. IdsTypes' BY <1>2, <1>4 DEF IdsTypes
<1> QED BY <1>2, <1>3, <1>5 DEF IdsTypes

LEMMA AppendRises ==
    ASSUME NEW ids \in Seq(Identifier), NEW new \in Identifier, NEW g, NEW ms \in Nat, NEW seq \in Nat,
           NEW lastM \in Nat, NEW lastS \in Nat, Rises(ids, g, lastM, lastS),
           new.by = g => new.ms = ms /\ new.seq = seq,
           new.by # g => ms = lastM /\ seq = lastS,
           new.by = g => new.ms # lastM \/ new.seq > lastS
    PROVE  Rises(Append(ids, new), g, ms, seq)
<1> DEFINE all == Append(ids, new)
<1>1. /\ DOMAIN all = 1 .. Len(ids) + 1 /\ DOMAIN ids = 1 .. Len(ids) /\ Len(ids) \in Nat
      /\ \A i \in DOMAIN ids : all[i] = ids[i] /\ ids[i] \in Identifier
      /\ all[Len(ids) + 1] = new /\ Len(all) = Len(ids) + 1
  OBVIOUS
<1> HIDE DEF all
<1>2. \A i \in DOMAIN all : i \in DOMAIN ids \/ i = Len(ids) + 1 BY <1>1
<1>3. /\ \A i \in DOMAIN ids : ids[i].ms \in Nat /\ ids[i].seq \in Nat
      /\ new.ms \in Nat /\ new.seq \in Nat
  <2>1. \A id \in Identifier : id.ms \in Nat /\ id.seq \in Nat BY DEF Identifier
  <2> QED BY <1>1, <2>1
<1>4. ASSUME NEW i \in DOMAIN ids, NEW j \in DOMAIN ids, SetBack(ids, i, j), NEW n \in DOMAIN all, j <= n
      PROVE  SetBack(all, i, n)
  <2>1. PICK k \in i .. j, l \in i .. j : k < l /\ ids[k].by = ids[i].by /\ ids[l].by = ids[i].by /\ ids[k].ms > ids[l].ms
    BY <1>4 DEF SetBack
  <2>2. k \in DOMAIN ids /\ l \in DOMAIN ids /\ k \in i .. n /\ l \in i .. n BY <1>1, <1>4
  <2>3. all[k] = ids[k] /\ all[l] = ids[l] /\ all[i] = ids[i] BY <1>1, <2>2
  <2> QED BY <2>1, <2>2, <2>3 DEF SetBack
<1>5. ASSUME NEW i \in DOMAIN ids, ids[i].by = g, new.by = g
      PROVE  Before(ids[i], new) \/ SetBack(all, i, Len(ids) + 1)
  <2>1. ids[i].ms \in Nat /\ ids[i].seq \in Nat /\ new.ms \in Nat /\ new.seq \in Nat BY <1>3
  <2>2. CASE SetBack(ids, i, Len(ids))
    <3>1. Len(ids) \in DOMAIN ids /\ Len(ids) + 1 \in DOMAIN all /\ Len(ids) <= Len(ids) + 1 BY <1>1
    <3> QED BY <1>4, <2>2, <3>1
  <2>3. CASE ~ SetBack(ids, i, Len(ids)) /\ new.ms >= lastM
    <3>1. Until(ids[i], lastM, lastS) BY <1>5, <2>3 DEF Rises
    <3>2. new.ms # lastM \/ new.seq > lastS BY <1>5
    <3> QED BY <2>1, <2>3, <3>1, <3>2 DEF Until, Before
  <2>4. CASE new.ms < lastM
    <3>1. PICK l \in i .. Len(ids) : ids[l].by = g /\ ids[l].ms = lastM BY <1>5 DEF Rises
    <3>2. /\ l \in DOMAIN ids /\ l \in i .. Len(ids) + 1 /\ Len(ids) + 1 \in i .. Len(ids) + 1
          /\ l < Len(ids) + 1
      BY <1>1
    <3>3. all[l] = ids[l] /\ all[i] = ids[i] /\ all[Len(ids) + 1] = new BY <1>1, <3>2
    <3>4. all[l].by = all[i].by /\ all[Len(ids) + 1].by = all[i].by /\ all[l].ms > all[Len(ids) + 1].ms
      BY <1>5, <2>1, <2>4, <3>1, <3>3
    <3> QED BY <3>2, <3>4 DEF SetBack
  <2> QED BY <2>1, <2>2, <2>3, <2>4
<1>6. ASSUME NEW i \in DOMAIN all, all[i].by = g
      PROVE  /\ Until(all[i], ms, seq) \/ SetBack(all, i, Len(all))
             /\ \E l \in i .. Len(all) : all[l].by = g /\ all[l].ms = ms
  <2>1. CASE i = Len(ids) + 1
    <3>1. all[i] = new /\ new.by = g /\ i \in i .. Len(all) BY <1>1, <1>6, <2>1
    <3> QED BY <1>3, <3>1 DEF Until
  <2>2. CASE i \in DOMAIN ids
    <3>1. all[i] = ids[i] /\ ids[i].by = g BY <1>1, <1>6, <2>2
    <3>2. CASE new.by = g
      <4>1. Before(ids[i], new) \/ SetBack(all, i, Len(all)) BY <1>1, <1>5, <2>2, <3>1, <3>2
      <4>2. Before(ids[i], new) => Until(ids[i], ms, seq) BY <1>3, <2>2, <3>2 DEF Before, Until
      <4>3. Len(all) \in i .. Len(all) /\ all[Len(all)] = new BY <1>1, <2>2
      <4> QED BY <3>1, <3>2, <4>1, <4>2, <4>3
    <3>3. CASE new.by # g
      <4>1. ms = lastM /\ seq = lastS BY <3>3
      <4>2. PICK l \in i .. Len(ids) : ids[l].by = g /\ ids[l].ms = lastM BY <2>2, <3>1 DEF Rises
      <4>3. l \in DOMAIN ids /\ l \in i .. Len(all) BY <1>1, <2>2
      <4>4. all[l] = ids[l] BY <1>1, <4>3
      <4>5. Until(ids[i], ms, seq) \/ SetBack(ids, i, Len(ids)) BY <2>2, <3>1, <4>1 DEF Rises
      <4>6. SetBack(ids, i, Len(ids)) => SetBack(all, i, Len(all))
        <5>1. Len(ids) \in DOMAIN ids /\ Len(all) \in DOMAIN all /\ Len(ids) <= Len(all) BY <1>1, <2>2
        <5> QED BY <1>4, <2>2, <5>1
      <4> QED BY <3>1, <4>1, <4>2, <4>3, <4>4, <4>5, <4>6
    <3> QED BY <3>2, <3>3
  <2> QED BY <1>2, <2>1, <2>2
<1>7. ASSUME NEW i \in DOMAIN all, NEW j \in DOMAIN all, i < j, all[i].by = g, all[j].by = g
      PROVE  Before(all[i], all[j]) \/ SetBack(all, i, j)
  <2>1. i \in DOMAIN ids BY <1>1, <1>7
  <2>2. CASE j \in DOMAIN ids
    <3>1. all[i] = ids[i] /\ all[j] = ids[j] BY <1>1, <2>1, <2>2
    <3>2. Before(ids[i], ids[j]) \/ SetBack(ids, i, j) BY <1>7, <2>1, <2>2, <3>1 DEF Rises
    <3>3. j <= j BY <1>1, <2>2
    <3> QED BY <1>4, <2>1, <2>2, <3>1, <3>2, <3>3
  <2>3. CASE j = Len(ids) + 1
    <3>1. all[i] = ids[i] /\ all[j] = new BY <1>1, <2>1, <2>3
    <3> QED BY <1>5, <1>7, <2>1, <2>3, <3>1
  <2> QED BY <1>2, <2>2, <2>3
<1> QED BY <1>6, <1>7 DEF Rises, all

\* Issuing forwards keeps the generator increasing; the others stay as they are.
LEMMA StaysIncreasing ==
    ASSUME IdsTypes, NEW kind \in Kinds, NEW g \in Generators, NEW ms \in Nat, NEW seq \in Nat,
           NEW source \in NodeNumbers \cup {0}, Issue(kind, g, ms, seq, source), g \in Processes => seq <= MaxSequence,
           NEW k \in Kinds, NEW h \in Generators, Increasing(k, h),
           h = g /\ k = kind => Forwards(g, ms, seq), k = kind \/ h # g
    PROVE  Increasing(k, h)'
<1> DEFINE new == [ms |-> ms, seq |-> seq, source |-> source, by |-> g]
<1>1. /\ lastMs'[g] = ms /\ sequence'[g] = seq
      /\ h # g => lastMs'[h] = lastMs[h] /\ sequence'[h] = sequence[h]
  <2>1. lastMs' = [lastMs EXCEPT ![g] = ms] /\ sequence' = [sequence EXCEPT ![g] = seq] BY DEF Issue
  <2> QED BY <2>1 DEF IdsTypes
<1>2. lastMs[h] \in Nat /\ sequence[h] \in Nat BY DEF IdsTypes
<1>3. CASE k # kind
  <2>1. issued'[k] = issued[k] BY <1>3, Issued
  <2> QED BY <1>1, <1>3, <2>1 DEF Increasing
<1>4. CASE k = kind
  <2>1. issued'[k] = Append(issued[k], new) /\ issued[k] \in Seq(Identifier) BY <1>4, Issued
  <2>2. new \in Identifier /\ new.by = g /\ new.ms = ms /\ new.seq = seq BY DEF Identifier
  <2> HIDE DEF new
  <2>3. Rises(issued[k], h, lastMs[h], sequence[h]) BY DEF Increasing
  <2>4. lastMs'[h] \in Nat /\ sequence'[h] \in Nat BY <1>1, <1>2
  <2>5. new.by = h => new.ms = lastMs'[h] /\ new.seq = sequence'[h] BY <1>1, <2>2
  <2>6. new.by = h => new.ms # lastMs[h] \/ new.seq > sequence[h] BY <1>4, <2>2 DEF Forwards
  <2>7. new.by # h => lastMs'[h] = lastMs[h] /\ sequence'[h] = sequence[h] BY <1>1, <2>2
  <2>8. Rises(Append(issued[k], new), h, lastMs'[h], sequence'[h])
    BY <1>2, <2>1, <2>2, <2>3, <2>4, <2>5, <2>6, <2>7, AppendRises
  <2> QED BY <2>1, <2>8 DEF Increasing
<1> QED BY <1>3, <1>4

\* What a generator issues keeps all of them increasing.
LEMMA AllStayIncreasing ==
    ASSUME IdsTypes, AllIncrease, NEW kind \in Kinds, NEW g \in Generators, NEW ms \in Nat, NEW seq \in Nat,
           NEW source \in NodeNumbers \cup {0}, Issue(kind, g, ms, seq, source), Forwards(g, ms, seq),
           g \in Processes => seq <= MaxSequence, g \in Processes <=> kind = "snowflake",
           g \notin Processes => kind = g
    PROVE  AllIncrease'
<1>1. /\ {"ulid", "uuidv7"} \cup Processes = Generators
      /\ "ulid" \notin Processes /\ "uuidv7" \notin Processes
      /\ Kinds = {"snowflake", "ulid", "uuidv7"}
  BY IdsAssumption DEF Generators, Kinds
<1>2. \A k \in Kinds, h \in Generators : Increasing(k, h) /\ (k = kind \/ h # g) => Increasing(k, h)'
  BY StaysIncreasing
<1>3. Increasing("ulid", "ulid")' BY <1>1, <1>2 DEF AllIncrease
<1>4. Increasing("uuidv7", "uuidv7")' BY <1>1, <1>2 DEF AllIncrease
<1>5. \A p \in Processes : Increasing("snowflake", p)' BY <1>1, <1>2 DEF AllIncrease
<1> QED BY <1>3, <1>4, <1>5 DEF AllIncrease

LEMMA IdsStep ==
    ASSUME IdsInv, [IdsNext]_idVars
    PROVE  IdsInv'
<1>a. /\ {"ulid", "uuidv7"} \cup Processes = Generators
      /\ "ulid" \notin Processes /\ "uuidv7" \notin Processes
      /\ Kinds = {"snowflake", "ulid", "uuidv7"}
  BY IdsAssumption DEF Generators, Kinds
<1>b. IdsTypes /\ Sourced /\ AllIncrease /\ Level BY DEF IdsInv
<1>1. CASE Tick
  <2>1. wallClock' = wallClock + 1 /\ UNCHANGED <<stepsBack, node, lastMs, sequence, issued>>
    BY <1>1 DEF Tick
  <2>2. IdsTypes' BY <1>b, <2>1 DEF IdsTypes
  <2> QED BY <1>b, <2>1, <2>2 DEF IdsInv, Sourced, AllIncrease, Increasing, Level, Pairs
<1>2. CASE StepBack
  BY <1>b, <1>2 DEF StepBack, IdsInv, IdsTypes, Sourced, AllIncrease, Increasing, Level, Pairs
<1>3. ASSUME NEW p \in Processes, NextSnowflake(p) PROVE IdsInv'
  <2> DEFINE seq == SnowflakeSequence(p).seq
  <2>1. seq \in Nat /\ seq <= MaxSequence /\ Forwards(p, wallClock, seq)
    <3>1. CASE wallClock # lastMs[p]
      <4>1. seq = 0 BY <3>1 DEF SnowflakeSequence
      <4> QED BY <3>1, <4>1, IdsAssumption DEF Forwards
    <3>2. CASE wallClock = lastMs[p]
      <4>1. sequence[p] < MaxSequence /\ seq = (sequence[p] + 1) % (MaxSequence + 1)
        BY <1>3, <3>2 DEF NextSnowflake, SnowflakeSequence
      <4>2. sequence[p] \in Nat /\ MaxSequence \in Nat BY <1>a, <1>b, IdsAssumption DEF IdsTypes
      <4> HIDE DEF seq
      <4>3. seq = sequence[p] + 1 BY ONLY <4>1, <4>2
      <4> QED BY <3>2, <4>1, <4>2, <4>3 DEF Forwards
    <3> QED BY <3>1, <3>2
  <2>2. Issue("snowflake", p, wallClock, seq, node[p]) BY <1>3 DEF NextSnowflake
  <2> HIDE DEF seq
  <2>3. node[p] \in NodeNumbers \cup {0} /\ wallClock \in Nat /\ p \in Generators /\ "snowflake" \in Kinds
    BY <1>a, <1>b DEF IdsTypes
  <2> DEFINE new == [ms |-> wallClock, seq |-> seq, source |-> node[p], by |-> p]
  <2>4. /\ IdsTypes' /\ UNCHANGED <<wallClock, stepsBack, node>>
        /\ \A h \in Generators \ {p} : lastMs'[h] = lastMs[h]
        /\ \A k \in Kinds \ {"snowflake"} : issued'[k] = issued[k]
        /\ issued'["snowflake"] = Append(issued["snowflake"], new) /\ issued["snowflake"] \in Seq(Identifier)
    BY <1>b, <2>1, <2>2, <2>3, Issued
  <2>5. AllIncrease' BY <1>a, <1>b, <2>1, <2>2, <2>3, AllStayIncreasing
  <2>6. issued'["ulid"] = issued["ulid"] /\ issued'["uuidv7"] = issued["uuidv7"] /\ lastMs'["uuidv7"] = lastMs["uuidv7"]
    BY <1>a, <2>4
  <2>7. Sourced'
    <3>1. new.by = p /\ new.source = node[p] OBVIOUS
    <3> HIDE DEF new
    <3>2. \A i \in DOMAIN issued'["snowflake"] :
             issued'["snowflake"][i] = new \/ (i \in DOMAIN issued["snowflake"] /\ issued'["snowflake"][i] = issued["snowflake"][i])
      BY <2>4
    <3> QED BY <1>b, <2>4, <2>6, <3>1, <3>2 DEF Sourced
  <2>8. Level' BY <1>b, <2>6 DEF Level, Pairs
  <2> QED BY <2>4, <2>5, <2>7, <2>8 DEF IdsInv
<1>4. ASSUME NextULID PROVE IdsInv'
  <2>1. PICK seq \in Nat : Issue("ulid", "ulid", wallClock, seq, 0) /\ Forwards("ulid", wallClock, seq)
    <3>1. PICK entropy \in Entropies :
            Issue("ulid", "ulid", wallClock, IF wallClock = lastMs["ulid"] THEN sequence["ulid"] + 1 ELSE entropy, 0)
      BY <1>4 DEF NextULID
    <3> DEFINE s == IF wallClock = lastMs["ulid"] THEN sequence["ulid"] + 1 ELSE entropy
    <3>2. s \in Nat /\ Forwards("ulid", wallClock, s)
      BY <1>a, <1>b, IdsAssumption DEF IdsTypes, Forwards
    <3> QED BY <3>1, <3>2
  <2>2. 0 \in NodeNumbers \cup {0} /\ wallClock \in Nat /\ "ulid" \in Generators /\ "ulid" \in Kinds
    BY <1>a, <1>b DEF IdsTypes
  <2> DEFINE new == [ms |-> wallClock, seq |-> seq, source |-> 0, by |-> "ulid"]
  <2>3. /\ IdsTypes' /\ UNCHANGED <<wallClock, stepsBack, node>>
        /\ \A h \in Generators \ {"ulid"} : lastMs'[h] = lastMs[h]
        /\ \A k \in Kinds \ {"ulid"} : issued'[k] = issued[k]
        /\ issued'["ulid"] = Append(issued["ulid"], new) /\ issued["ulid"] \in Seq(Identifier)
    BY <1>a, <1>b, <2>1, <2>2, Issued
  <2>4. AllIncrease' BY <1>a, <1>b, <2>1, <2>2, AllStayIncreasing
  <2>5. /\ issued'["snowflake"] = issued["snowflake"] /\ issued'["uuidv7"] = issued["uuidv7"]
        /\ lastMs'["uuidv7"] = lastMs["uuidv7"]
    BY <1>a, <2>3
  <2>6. Sourced'
    <3>1. new.by = "ulid" OBVIOUS
    <3> HIDE DEF new
    <3>2. \A i \in DOMAIN issued'["ulid"] :
             issued'["ulid"][i] = new \/ (i \in DOMAIN issued["ulid"] /\ issued'["ulid"][i] = issued["ulid"][i])
      BY <2>3
    <3> QED BY <1>b, <2>3, <2>5, <3>1, <3>2 DEF Sourced
  <2>7. Level' BY <1>b, <2>5 DEF Level, Pairs
  <2> QED BY <2>3, <2>4, <2>6, <2>7 DEF IdsInv
<1>5. ASSUME NextUUIDv7 PROVE IdsInv'
  <2>1. PICK ms \in Nat, seq \in Nat :
          /\ Issue("uuidv7", "uuidv7", ms, seq, 0)
          /\ Forwards("uuidv7", ms, seq) /\ ms >= lastMs["uuidv7"]
    <3>1. CASE wallClock > lastMs["uuidv7"]
      <4>1. PICK random \in 0 .. MaxSequence : Issue("uuidv7", "uuidv7", wallClock, random, 0)
        BY <1>a, <1>b, <1>5, <3>1 DEF NextUUIDv7, IdsTypes
      <4>2. /\ random \in Nat /\ wallClock \in Nat /\ Forwards("uuidv7", wallClock, random)
            /\ wallClock >= lastMs["uuidv7"]
        BY <1>a, <1>b, <3>1, IdsAssumption DEF IdsTypes, Forwards
      <4> QED BY <4>1, <4>2
    <3>2. CASE ~(wallClock > lastMs["uuidv7"])
      <4>1. Issue("uuidv7", "uuidv7", lastMs["uuidv7"], sequence["uuidv7"] + 1, 0)
        BY <1>5, <3>2 DEF NextUUIDv7
      <4>2. lastMs["uuidv7"] \in Nat /\ sequence["uuidv7"] + 1 \in Nat
            /\ Forwards("uuidv7", lastMs["uuidv7"], sequence["uuidv7"] + 1)
        BY <1>a, <1>b DEF IdsTypes, Forwards
      <4>3. lastMs["uuidv7"] >= lastMs["uuidv7"] BY <4>2
      <4> QED BY <4>1, <4>2, <4>3
    <3> QED BY <3>1, <3>2
  <2>2. 0 \in NodeNumbers \cup {0} /\ "uuidv7" \in Generators /\ "uuidv7" \in Kinds
    BY <1>a
  <2> DEFINE new == [ms |-> ms, seq |-> seq, source |-> 0, by |-> "uuidv7"]
  <2>3. /\ IdsTypes' /\ UNCHANGED <<wallClock, stepsBack, node>> /\ lastMs'["uuidv7"] = ms
        /\ \A k \in Kinds \ {"uuidv7"} : issued'[k] = issued[k]
        /\ issued'["uuidv7"] = Append(issued["uuidv7"], new) /\ issued["uuidv7"] \in Seq(Identifier)
    BY <1>a, <1>b, <2>1, <2>2, Issued
  <2>4. AllIncrease' BY <1>a, <1>b, <2>1, <2>2, AllStayIncreasing
  <2>5. issued'["snowflake"] = issued["snowflake"] /\ issued'["ulid"] = issued["ulid"] BY <1>a, <2>3
  <2>6. new.by = "uuidv7" /\ new.ms = ms OBVIOUS
  <2> HIDE DEF new
  <2>7. /\ DOMAIN issued'["uuidv7"] = 1 .. Len(issued["uuidv7"]) + 1 /\ Len(issued["uuidv7"]) \in Nat
        /\ DOMAIN issued["uuidv7"] = 1 .. Len(issued["uuidv7"])
        /\ \A i \in DOMAIN issued["uuidv7"] : issued'["uuidv7"][i] = issued["uuidv7"][i]
        /\ issued'["uuidv7"][Len(issued["uuidv7"]) + 1] = new
    BY <2>3
  <2>8. Sourced' BY <1>b, <2>3, <2>5, <2>6, <2>7 DEF Sourced
  <2>9. Level'
    <3>1. \A i \in DOMAIN issued["uuidv7"] : issued["uuidv7"][i].ms \in Nat
      <4>1. \A i \in DOMAIN issued["uuidv7"] : issued["uuidv7"][i] \in Identifier BY <2>3
      <4> QED BY <4>1 DEF Identifier
    <3>2. ASSUME NEW i \in DOMAIN issued'["uuidv7"] PROVE issued'["uuidv7"][i].ms <= ms
      <4>1. lastMs["uuidv7"] \in Nat BY <1>a, <1>b DEF IdsTypes
      <4>2. CASE i \in DOMAIN issued["uuidv7"]
        <5>1. issued["uuidv7"][i].ms <= lastMs["uuidv7"] BY <1>b, <4>2 DEF Level
        <5> QED BY <2>1, <2>7, <3>1, <4>1, <4>2, <5>1
      <4>3. CASE i = Len(issued["uuidv7"]) + 1 BY <2>6, <2>7, <4>3
      <4> QED BY <2>7, <4>2, <4>3
    <3>3. ASSUME NEW i \in DOMAIN issued'["uuidv7"], NEW j \in DOMAIN issued'["uuidv7"], i < j
          PROVE  issued'["uuidv7"][i].ms <= issued'["uuidv7"][j].ms
      <4>1. i \in DOMAIN issued["uuidv7"] BY <2>7, <3>3
      <4>2. CASE j \in DOMAIN issued["uuidv7"]
        <5>1. <<i, j>> \in Pairs("uuidv7") BY <3>3, <4>1, <4>2 DEF Pairs
        <5>2. issued["uuidv7"][i].ms <= issued["uuidv7"][j].ms BY <1>b, <5>1 DEF Level
        <5> QED BY <2>7, <4>1, <4>2, <5>2
      <4>3. CASE j = Len(issued["uuidv7"]) + 1 BY <2>6, <2>7, <3>2, <4>3
      <4> QED BY <2>7, <4>2, <4>3
    <3> QED BY <2>3, <3>2, <3>3 DEF Level, Pairs
  <2> QED BY <2>3, <2>4, <2>8, <2>9 DEF IdsInv
<1>6. CASE UNCHANGED idVars
  BY <1>b, <1>6 DEF idVars, IdsInv, IdsTypes, Sourced, AllIncrease, Increasing, Level, Pairs
<1> QED BY <1>1, <1>2, <1>3, <1>4, <1>5, <1>6 DEF IdsNext

\* UUIDs of version 7 increase whatever the clock does; ULIDs, and Snowflakes of one
\* process, increase from any to any later one between which their generator did not
\* see its clock go back; and only a shared node number lets Snowflakes of two
\* processes meet; for any number of processes, identifiers and milliseconds (id/id.go).
THEOREM IdentifiersUnique == IdsSpec => []IdsUnique
<1>1. IdsInit => IdsInv BY IdsInitially
<1>2. IdsInv /\ [IdsNext]_idVars => IdsInv' BY IdsStep
<1>3. IdsInv => IdsUnique
  <2> SUFFICES ASSUME IdsInv PROVE IdsUnique
    OBVIOUS
  <2>1. ASSUME NEW p \in Pairs("uuidv7") PROVE Before(issued["uuidv7"][p[1]], issued["uuidv7"][p[2]])
    <3> DEFINE ids == issued["uuidv7"]
    <3>1. ids \in Seq(Identifier) BY DEF IdsInv, IdsTypes, Kinds
    <3>2. p[1] \in DOMAIN ids /\ p[2] \in DOMAIN ids /\ p[1] < p[2] BY DEF Pairs
    <3>3. Before(ids[p[1]], ids[p[2]]) \/ SetBack(ids, p[1], p[2])
      BY <3>2 DEF IdsInv, Sourced, AllIncrease, Increasing, Rises
    <3>4. ~ SetBack(ids, p[1], p[2])
      <4>1. ASSUME NEW k \in p[1] .. p[2], NEW l \in p[1] .. p[2], k < l PROVE ~(ids[k].ms > ids[l].ms)
        <5>1. k \in DOMAIN ids /\ l \in DOMAIN ids BY <3>1, <3>2, <4>1
        <5>2. ids[k].ms \in Nat /\ ids[l].ms \in Nat
          <6>1. ids[k] \in Identifier /\ ids[l] \in Identifier BY <3>1, <5>1
          <6> QED BY <6>1 DEF Identifier
        <5>3. <<k, l>> \in Pairs("uuidv7") BY <4>1, <5>1 DEF Pairs
        <5>4. ids[k].ms <= ids[l].ms BY <5>3 DEF IdsInv, Level
        <5> QED BY <5>2, <5>4
      <4> QED BY <4>1 DEF SetBack
    <3> QED BY <3>3, <3>4
  <2>2. ASSUME NEW kind \in {"ulid", "snowflake"}, NEW p \in Pairs(kind), NEW a, NEW b,
               a = issued[kind][p[1]], b = issued[kind][p[2]]
        PROVE  IF a.by = b.by THEN Before(a, b) \/ SetBack(issued[kind], p[1], p[2])
               ELSE Same(a, b) => node[a.by] = node[b.by]
    <3>1. p[1] \in DOMAIN issued[kind] /\ p[2] \in DOMAIN issued[kind] /\ p[1] < p[2] BY DEF Pairs
    <3>2. CASE kind = "ulid"
      BY <2>2, <3>1, <3>2 DEF IdsInv, Sourced, AllIncrease, Increasing, Rises
    <3>3. CASE kind = "snowflake"
      <4>1. a.by \in Processes /\ a.source = node[a.by] /\ b.by \in Processes /\ b.source = node[b.by]
        BY <2>2, <3>1, <3>3 DEF IdsInv, Sourced
      <4>2. ASSUME a.by = b.by PROVE Before(a, b) \/ SetBack(issued[kind], p[1], p[2])
        BY <2>2, <3>1, <3>3, <4>1, <4>2 DEF IdsInv, AllIncrease, Increasing, Rises
      <4>3. Same(a, b) => node[a.by] = node[b.by] BY <4>1 DEF Same
      <4> QED BY <4>2, <4>3
    <3> QED BY <3>2, <3>3
  <2> QED BY <2>1, <2>2 DEF IdsUnique
<1> QED BY <1>1, <1>2, <1>3, PTL DEF IdsSpec

-----------------------------------------------------------------------------
RabbitSpec == RabbitInit /\ [][RabbitNext]_rabbitVars

FrameKinds == {"return", "ack", "nack"}

RabbitTypes ==
    /\ routable \subseteq Messages
    /\ published \in [Messages -> {"new", "sent", "not sent", "ok", "nack", "unroutable", "timeout"}]
    /\ inbox \in Seq(Messages)
    /\ frames \in Seq(FrameKinds \X Messages)
    /\ returns = <<>> \/ \E n \in Messages : returns = <<n>>
    /\ confirms \in [Messages -> {"none", "ack", "nack"}]
    /\ channel = "open" \/ inbox = <<>>

\* publishMu lets one Publish wait for its confirmation.
Locked == \A m \in Messages : published[m] = "sent" <=> publishMu = m

\* The client may still read a frame.
Reading == channel = "open" \/ frames # <<>>

InInbox(m) == \E i \in 1 .. Len(inbox) : inbox[i] = m

Framed(m) == \E i \in 1 .. Len(frames) : frames[i][2] = m

\* What the broker has or says of a message is of one that was published and
\* whose confirmation nobody has seen.
Underway(m) ==
    /\ InInbox(m) \/ Framed(m) \/ (Reading /\ returns = <<m>>) => published[m] \in {"sent", "timeout"}
    /\ published[m] = "new" => confirms[m] = "none"
    /\ InInbox(m) => ~Framed(m) /\ confirms[m] = "none" /\ returns # <<m>>
    /\ \A i, j \in 1 .. Len(inbox) : inbox[i] = m /\ inbox[j] = m => i = j
    /\ confirms[m] # "none" => ~Framed(m) /\ ~InInbox(m)

\* The frames of a message are its confirmation, after its return if any.
Ordered(m) ==
    /\ \A i, j \in 1 .. Len(frames) :
          i < j /\ frames[i][2] = m /\ frames[j][2] = m => frames[i][1] = "return" /\ frames[j][1] = "ack"
    /\ \A i \in 1 .. Len(frames) : frames[i][1] = "return" /\ frames[i][2] = m => m \notin routable
    /\ returns = <<m>> =>
          /\ m \notin routable
          /\ Reading => confirms[m] # "nack"
          /\ \A i \in 1 .. Len(frames) : frames[i][2] = m => frames[i][1] = "ack"

\* The return of a message that waits is seen before its confirmation.
Warned(m) ==
    published[m] = "sent" /\ m \notin routable =>
        /\ confirms[m] = "ack" => returns # <<>>
        /\ \A i \in 1 .. Len(frames) : frames[i][1] = "ack" /\ frames[i][2] = m =>
              returns # <<>> \/ \E j \in 1 .. Len(frames) : frames[j][1] = "return" /\ frames[j][2] = m

\* The message that waits is the last one: nothing of another one follows it.
Latest(m) ==
    published[m] = "sent" =>
        /\ inbox = <<>> \/ inbox[Len(inbox)] = m
        /\ \A i, j \in 1 .. Len(frames) : i < j /\ frames[i][2] = m => frames[j][2] = m
        /\ returns = <<m>> => \A i \in 1 .. Len(frames) : frames[i][2] = m

\* What was confirmed is stored, and what was promised is true.
Honest(m) ==
    /\ /\ m \in routable
       /\ \/ \E i \in 1 .. Len(frames) : frames[i][1] = "ack" /\ frames[i][2] = m
          \/ confirms[m] = "ack"
          \/ published[m] \in {"ok", "unroutable"}
       => Stored(m)
    /\ published[m] = "ok" => m \in routable
    /\ published[m] = "unroutable" /\ m \in routable => channel # "open" \/ \E n \in Messages \ {m} : Orphaned(n)

\* A delivery is over only when it was handled or went back to the queue.
Handing ==
    /\ subscriber \in {"waits", "returned"} => delivery = Nobody
    /\ subscriber = "acks" => delivery \in handled

Told(m) == Underway(m) /\ Ordered(m) /\ Warned(m) /\ Latest(m) /\ Honest(m)

RabbitInv == RabbitTypes /\ Locked /\ Handing /\ \A m \in Messages : Told(m)

LEMMA TailIs ==
    ASSUME NEW S, NEW s \in Seq(S), s # <<>>
    PROVE  /\ Tail(s) \in Seq(S) /\ Len(s) \in Nat \ {0} /\ Len(Tail(s)) = Len(s) - 1
           /\ \A i \in 1 .. Len(Tail(s)) : Tail(s)[i] = s[i + 1] /\ i + 1 \in 1 .. Len(s)
           /\ Head(s) = s[1] /\ s[1] \in S
OBVIOUS

LEMMA AppendIs ==
    ASSUME NEW S, NEW s \in Seq(S), NEW e \in S
    PROVE  /\ Append(s, e) \in Seq(S) /\ Len(s) \in Nat /\ Len(Append(s, e)) = Len(s) + 1
           /\ \A i \in 1 .. Len(s) : Append(s, e)[i] = s[i]
           /\ Append(s, e)[Len(s) + 1] = e
OBVIOUS

LEMMA RabbitInitially == RabbitInit => RabbitInv
<1> SUFFICES ASSUME RabbitInit PROVE RabbitInv
  OBVIOUS
<1>1. Len(inbox) = 0 /\ Len(frames) = 0 BY DEF RabbitInit
<1>2. RabbitTypes BY DEF RabbitInit, RabbitTypes
<1>3. Locked /\ Handing BY RabbitAssumption DEF RabbitInit, Locked, Handing
<1>4. \A m \in Messages : ~InInbox(m) /\ ~Framed(m) /\ returns # <<m>> BY <1>1 DEF RabbitInit, InInbox, Framed
<1>5. channel = "open" /\ \A m \in Messages : published[m] = "new" /\ confirms[m] = "none" BY DEF RabbitInit
<1>6. \A m \in Messages : Underway(m) BY <1>1, <1>4, <1>5 DEF Underway
<1>7. \A m \in Messages : Ordered(m) BY <1>1, <1>4, <1>5 DEF Ordered
<1>8. \A m \in Messages : Warned(m) /\ Latest(m) BY <1>5 DEF Warned, Latest
<1>9. \A m \in Messages : Honest(m) BY <1>1, <1>4, <1>5 DEF Honest
<1> QED BY <1>2, <1>3, <1>6, <1>7, <1>8, <1>9 DEF RabbitInv, Told

\* The subscriber moves messages, and loses none.
LEMMA SubscriberStep ==
    ASSUME RabbitInv, Consume \/ SubscribeFails
    PROVE  RabbitInv'
<1>1. UNCHANGED <<channel, routable, published, publishMu, inbox, frames, returns, confirms>>
  BY DEF Consume, SubscribeFails, Deliver, HandlerSucceeds, Ack,
         Resubscribe, publishVars
<1>2. Handing' /\ \A m \in Messages : Stored(m) => Stored(m)'
  <2>1. CASE \E n \in Messages : Deliver(n)
    BY <2>1, RabbitAssumption DEF Deliver, RabbitInv, Handing, Stored
  <2>2. CASE HandlerSucceeds BY <2>2 DEF HandlerSucceeds, RabbitInv, Handing, Stored
  <2>3. CASE Ack BY <2>3 DEF Ack, RabbitInv, Handing, Stored
  <2>4. CASE Resubscribe BY <2>4 DEF Resubscribe, RabbitInv, Handing, Stored
  <2>5. CASE SubscribeFails
    BY <2>5, RabbitAssumption DEF SubscribeFails, RabbitInv, Handing, Stored
  <2> QED BY <2>1, <2>2, <2>3, <2>4, <2>5 DEF Consume
<1>3. RabbitTypes' /\ Locked' BY <1>1 DEF RabbitInv, RabbitTypes, Locked
<1>4. ASSUME NEW m \in Messages PROVE Told(m)'
  <2>1. Told(m) BY DEF RabbitInv
  <2>2. (Underway(m) /\ Ordered(m) /\ Warned(m) /\ Latest(m))'
    BY <1>1, <2>1 DEF Told, Underway, Ordered, Warned, Latest, InInbox, Framed, Reading
  <2>3. Honest(m)'
    <3>1. Honest(m) BY <2>1 DEF Told
    <3>2. Stored(m) => Stored(m)' BY <1>2
    <3> QED BY <1>1, <3>1, <3>2 DEF Honest, Orphaned
  <2> QED BY <2>2, <2>3 DEF Told
<1> QED BY <1>2, <1>3, <1>4 DEF RabbitInv

\* A Publish begins: its message is the only one that waits.
LEMMA PublishStep ==
    ASSUME RabbitInv, NEW k \in Messages, Publish(k)
    PROVE  RabbitInv'
<1>1. /\ channel = "open" /\ published[k] = "new" /\ publishMu = Nobody /\ publishMu' = k
      /\ published' = [published EXCEPT ![k] = "sent"]
      /\ inbox' = Append(inbox, k)
      /\ UNCHANGED <<channel, routable, frames, returns, confirms, queue, delivery, subscriber, handled, dropped, failures>>
  BY DEF Publish, subscriberVars
<1>2. RabbitTypes /\ Locked /\ Handing /\ Told(k) BY DEF RabbitInv
<1>3. published'[k] = "sent" /\ \A m \in Messages \ {k} : published'[m] = published[m] /\ published[m] # "sent"
  BY <1>1, <1>2, RabbitAssumption DEF RabbitTypes, Locked
<1>4. /\ inbox' \in Seq(Messages) /\ Len(inbox) \in Nat /\ Len(inbox') = Len(inbox) + 1
      /\ \A i \in 1 .. Len(inbox) : inbox'[i] = inbox[i]
      /\ inbox'[Len(inbox')] = k
  <2>1. inbox \in Seq(Messages) /\ inbox' = Append(inbox, k) BY <1>1, <1>2 DEF RabbitTypes
  <2> QED BY <2>1
<1>5. RabbitTypes' BY <1>1, <1>2, <1>4 DEF RabbitTypes
<1>6. Locked' BY <1>1, <1>2, <1>3, RabbitAssumption DEF Locked
<1>7. Handing' BY <1>1, <1>2 DEF Handing
<1>8. ~InInbox(k) /\ ~Framed(k) /\ returns # <<k>> /\ confirms[k] = "none" BY <1>1, <1>2 DEF Told, Underway, Reading
<1>9. Told(k)'
  <2>1. ~Framed(k)' BY <1>1, <1>8 DEF Framed
  <2>2. \A i \in 1 .. Len(inbox') : inbox'[i] = k => i = Len(inbox') BY <1>4, <1>8 DEF InInbox
  <2>3. Underway(k)' BY <1>1, <1>3, <1>8, <2>1, <2>2 DEF Underway
  <2>4. (Ordered(k) /\ Warned(k))' BY <1>1, <1>8, <2>1 DEF Ordered, Warned, Framed
  <2>5. Latest(k)' BY <1>1, <1>4, <1>8, <2>1 DEF Latest, Framed
  <2>6. Honest(k)' BY <1>1, <1>3, <1>8, <2>1 DEF Honest, Framed
  <2> QED BY <2>3, <2>4, <2>5, <2>6 DEF Told
<1>10. ASSUME NEW m \in Messages \ {k} PROVE Told(m)'
  <2>1. Told(m) BY DEF RabbitInv
  <2>2. InInbox(m)' <=> InInbox(m) BY <1>4, <1>10 DEF InInbox
  <2>3. Underway(m)'
    <3>1. \A i \in 1 .. Len(inbox') : inbox'[i] = m => i \in 1 .. Len(inbox) /\ inbox[i] = m BY <1>4, <1>10
    <3> QED BY <1>1, <1>3, <2>1, <2>2, <3>1 DEF Told, Underway, Framed, Reading
  <2>4. Ordered(m)' BY <1>1, <2>1 DEF Told, Ordered, Reading
  <2>5. (Warned(m) /\ Latest(m))' BY <1>3 DEF Warned, Latest
  <2>6. Honest(m)'
    <3>1. \A n \in Messages : Orphaned(n) => Orphaned(n)' BY <1>1, <1>3 DEF Orphaned
    <3> QED BY <1>1, <1>3, <2>1, <3>1 DEF Told, Honest, Stored
  <2> QED BY <2>3, <2>4, <2>5, <2>6 DEF Told
<1> QED BY <1>5, <1>6, <1>7, <1>9, <1>10 DEF RabbitInv

\* A Publish returns without a message that is sent, or with one that is forgotten.
LEMMA GiveUpStep ==
    ASSUME RabbitInv, NEW k \in Messages, PublishFails(k) \/ ConfirmTimeout(k)
    PROVE  RabbitInv'
<1>1. /\ UNCHANGED <<channel, routable, inbox, frames, returns, confirms, queue, delivery, subscriber, handled, dropped, failures>>
      /\ \/ published[k] = "new" /\ publishMu' = publishMu /\ published' = [published EXCEPT ![k] = "not sent"]
         \/ published[k] = "sent" /\ publishMu' = Nobody /\ published' = [published EXCEPT ![k] = "timeout"]
  BY DEF PublishFails, ConfirmTimeout, Returned, subscriberVars
<1>2. RabbitTypes /\ Locked /\ Handing BY DEF RabbitInv
<1>3. /\ \/ published[k] = "new" /\ published'[k] = "not sent"
         \/ published[k] = "sent" /\ published'[k] = "timeout"
      /\ \A m \in Messages \ {k} : published'[m] = published[m]
  BY <1>1, <1>2 DEF RabbitTypes
<1>4. RabbitTypes' BY <1>1, <1>2 DEF RabbitTypes
<1>5. Locked' BY <1>1, <1>2, <1>3, RabbitAssumption DEF Locked
<1>6. Handing' BY <1>1, <1>2 DEF Handing
<1>7. \A n \in Messages : Orphaned(n) => Orphaned(n)' BY <1>1, <1>3 DEF Orphaned
<1>8. ASSUME NEW m \in Messages PROVE Told(m)'
  <2>1. Told(m) BY DEF RabbitInv
  <2>2. InInbox(m)' = InInbox(m) /\ Framed(m)' = Framed(m) BY <1>1 DEF InInbox, Framed
  <2>3. \/ published'[m] = published[m] \/ (published[m] = "new" /\ published'[m] = "not sent")
        \/ (published[m] = "sent" /\ published'[m] = "timeout")
    BY <1>3
  <2>4. Underway(m)' BY <1>1, <2>1, <2>2, <2>3 DEF Told, Underway, Reading
  <2>5. (Ordered(m) /\ Warned(m) /\ Latest(m))' BY <1>1, <2>1, <2>3 DEF Told, Ordered, Warned, Latest, Reading
  <2>6. Honest(m)'
    <3>1. published'[m] \in {"ok", "unroutable"} => published[m] = published'[m] BY <2>3
    <3> QED BY <1>1, <1>7, <2>1, <3>1 DEF Told, Honest, Stored
  <2> QED BY <2>4, <2>5, <2>6 DEF Told
<1> QED BY <1>4, <1>5, <1>6, <1>8 DEF RabbitInv

\* The returned message in the slot of a Publish that is confirmed is its own,
\* or that of one that had given up.
LEMMA ConfirmedStep ==
    ASSUME RabbitInv, NEW k \in Messages, Confirmed(k)
    PROVE  RabbitInv'
<1>1. /\ published[k] = "sent" /\ confirms[k] \in {"ack", "nack"} /\ publishMu' = Nobody
      /\ published' = [published EXCEPT ![k] = Verdict(k)]
      /\ returns' = IF confirms[k] = "ack" THEN <<>> ELSE returns
      /\ UNCHANGED <<channel, routable, inbox, frames, confirms, queue, delivery, subscriber, handled, dropped, failures>>
  BY DEF Confirmed, Returned, subscriberVars
<1>2. RabbitTypes /\ Locked /\ Handing /\ Told(k) BY DEF RabbitInv
<1>3. \/ confirms[k] = "nack" /\ Verdict(k) = "nack" /\ returns' = returns
      \/ confirms[k] = "ack" /\ (returns # <<>> \/ channel # "open") /\ Verdict(k) = "unroutable" /\ returns' = <<>>
      \/ confirms[k] = "ack" /\ returns = <<>> /\ Verdict(k) = "ok" /\ returns' = <<>>
  <2>1. CASE confirms[k] = "nack"
    <3>1. Verdict(k) = "nack" BY <2>1 DEF Verdict
    <3>2. returns' = returns BY <1>1, <2>1
    <3> QED BY <2>1, <3>1, <3>2
  <2>2. CASE confirms[k] = "ack" /\ (returns # <<>> \/ channel # "open") BY <1>1, <2>2 DEF Verdict
  <2>3. CASE confirms[k] = "ack" /\ returns = <<>> /\ channel = "open"
    <3>1. Verdict(k) = "ok" BY <2>3 DEF Verdict
    <3> QED BY <1>1, <2>3, <3>1
  <2> QED BY <1>1, <2>1, <2>2, <2>3
<1>4. /\ published'[k] = Verdict(k) /\ published'[k] \in {"nack", "unroutable", "ok"}
      /\ \A m \in Messages \ {k} : published'[m] = published[m] /\ published[m] # "sent"
  BY <1>1, <1>2, <1>3 DEF RabbitTypes, Locked
<1>5. RabbitTypes' BY <1>1, <1>2, <1>3 DEF RabbitTypes
<1>6. Locked' BY <1>1, <1>2, <1>4, RabbitAssumption DEF Locked
<1>7. Handing' BY <1>1, <1>2 DEF Handing
<1>8. \A n \in Messages : Orphaned(n) => Orphaned(n)'
  BY <1>1, <1>4 DEF Orphaned
<1>9. ~InInbox(k) /\ ~Framed(k) /\ (Reading => returns' # <<k>>) BY <1>1, <1>2, <1>3 DEF Told, Underway, Ordered
<1>10. ASSUME NEW m \in Messages PROVE Told(m)'
  <2>1. Told(m) BY DEF RabbitInv
  <2>2. InInbox(m)' = InInbox(m) /\ Framed(m)' = Framed(m) BY <1>1 DEF InInbox, Framed
  <2>3. returns' = <<m>> => returns = <<m>> BY <1>3
  <2>4. Underway(m)' BY <1>1, <1>4, <1>9, <2>1, <2>2, <2>3 DEF Told, Underway, Reading
  <2>5. Ordered(m)' BY <1>1, <2>1, <2>3 DEF Told, Ordered, Reading
  <2>6. (Warned(m) /\ Latest(m))' BY <1>4 DEF Warned, Latest
  <2>7. CASE m # k BY <1>1, <1>4, <1>8, <2>1, <2>4, <2>5, <2>6, <2>7 DEF Told, Honest, Stored
  <2>8. CASE m = k
    <3>1. published'[m] = "ok" => m \in routable /\ confirms[m] = "ack"
      BY <1>1, <1>3, <1>4, <2>1, <2>8 DEF Told, Warned
    <3>2. ASSUME published'[m] = "unroutable", m \in routable, channel = "open" PROVE \E n \in Messages \ {m} : Orphaned(n)'
      <4>1. PICK n \in Messages : returns = <<n>> BY <1>2, <1>3, <1>4, <2>8, <3>2 DEF RabbitTypes
      <4>2. Told(n) /\ Reading BY <1>2, <3>2 DEF RabbitInv, Reading
      <4>3. n \notin routable /\ n # m BY <3>2, <4>1, <4>2 DEF Told, Ordered
      <4>4. published[n] = "timeout" BY <1>4, <2>8, <4>1, <4>2, <4>3 DEF Told, Underway
      <4> QED BY <1>8, <4>3, <4>4 DEF Orphaned
    <3>3. Honest(m)'
      <4>1. Honest(m) BY <2>1 DEF Told
      <4>2. Stored(m)' = Stored(m) BY <1>1 DEF Stored
      <4>3. published'[m] \in {"ok", "unroutable"} => confirms[m] = "ack" BY <1>3, <1>4, <2>8
      <4>4. published'[m] \in {"ok", "unroutable"} /\ m \in routable => Stored(m)' BY <4>1, <4>2, <4>3 DEF Honest
      <4> QED BY <1>1, <3>1, <3>2, <4>1, <4>2, <4>4 DEF Honest
    <3> QED BY <2>4, <2>5, <2>6, <3>3 DEF Told
  <2> QED BY <2>7, <2>8
<1> QED BY <1>5, <1>6, <1>7, <1>10 DEF RabbitInv

\* What the broker answers to the message it takes.
Answers(k) ==
    \/ /\ k \in routable /\ queue' = queue \cup {k} /\ Len(frames') = Len(frames) + 1
       /\ frames'[Len(frames) + 1][1] = "ack"
    \/ /\ k \notin routable /\ queue' = queue /\ Len(frames') = Len(frames) + 2
       /\ frames'[Len(frames) + 1][1] = "return" /\ frames'[Len(frames) + 2][1] = "ack"
    \/ queue' = queue /\ Len(frames') = Len(frames) + 1 /\ frames'[Len(frames) + 1][1] = "nack"

LEMMA BrokerAnswers ==
    ASSUME RabbitTypes, NEW k \in Messages, BrokerTakes(k)
    PROVE  /\ frames' \in Seq(FrameKinds \X Messages) /\ Len(frames) \in Nat
           /\ Len(frames') \in {Len(frames) + 1, Len(frames) + 2}
           /\ \A i \in 1 .. Len(frames) : frames'[i] = frames[i]
           /\ \A i \in 1 .. Len(frames') : i > Len(frames) => frames'[i][2] = k
           /\ Answers(k)
<1>1. frames \in Seq(FrameKinds \X Messages) BY DEF RabbitTypes
<1>2. \A kind \in FrameKinds : <<kind, k>> \in FrameKinds \X Messages /\ <<kind, k>>[1] = kind /\ <<kind, k>>[2] = k
  OBVIOUS
<1>3. "return" \in FrameKinds /\ "ack" \in FrameKinds /\ "nack" \in FrameKinds BY DEF FrameKinds
<1>4. CASE k \in routable /\ queue' = queue \cup {k} /\ frames' = Append(frames, <<"ack", k>>)
  <2>1. <<"ack", k>> \in FrameKinds \X Messages /\ <<"ack", k>>[1] = "ack" /\ <<"ack", k>>[2] = k BY <1>2, <1>3
  <2>2. /\ frames' \in Seq(FrameKinds \X Messages) /\ Len(frames) \in Nat /\ Len(frames') = Len(frames) + 1
        /\ \A i \in 1 .. Len(frames) : frames'[i] = frames[i]
        /\ frames'[Len(frames) + 1] = <<"ack", k>>
    BY <1>1, <1>4, <2>1
  <2> QED BY <1>4, <2>1, <2>2 DEF Answers
<1>5. CASE k \notin routable /\ queue' = queue /\ frames' = frames \o << <<"return", k>>, <<"ack", k>> >>
  <2>1. /\ <<"ack", k>> \in FrameKinds \X Messages /\ <<"ack", k>>[1] = "ack" /\ <<"ack", k>>[2] = k
        /\ <<"return", k>> \in FrameKinds \X Messages /\ <<"return", k>>[1] = "return" /\ <<"return", k>>[2] = k
    BY <1>2, <1>3
  <2>2. << <<"return", k>>, <<"ack", k>> >> \in Seq(FrameKinds \X Messages) BY <2>1
  <2>3. /\ frames' \in Seq(FrameKinds \X Messages) /\ Len(frames) \in Nat /\ Len(frames') = Len(frames) + 2
        /\ \A i \in 1 .. Len(frames) : frames'[i] = frames[i]
        /\ frames'[Len(frames) + 1] = <<"return", k>> /\ frames'[Len(frames) + 2] = <<"ack", k>>
    BY <1>1, <1>5, <2>2
  <2>4. \A i \in 1 .. Len(frames') : i > Len(frames) => i = Len(frames) + 1 \/ i = Len(frames) + 2 BY <2>3
  <2> QED BY <1>5, <2>1, <2>3, <2>4 DEF Answers
<1>6. CASE queue' = queue /\ frames' = Append(frames, <<"nack", k>>)
  <2>1. <<"nack", k>> \in FrameKinds \X Messages /\ <<"nack", k>>[1] = "nack" /\ <<"nack", k>>[2] = k BY <1>2, <1>3
  <2>2. /\ frames' \in Seq(FrameKinds \X Messages) /\ Len(frames) \in Nat /\ Len(frames') = Len(frames) + 1
        /\ \A i \in 1 .. Len(frames) : frames'[i] = frames[i]
        /\ frames'[Len(frames) + 1] = <<"nack", k>>
    BY <1>1, <1>6, <2>1
  <2> QED BY <1>6, <2>1, <2>2 DEF Answers
<1> QED BY <1>4, <1>5, <1>6 DEF BrokerTakes

LEMMA BrokerStep ==
    ASSUME RabbitInv, NEW k \in Messages, BrokerTakes(k)
    PROVE  RabbitInv'
<1>1. /\ inbox # <<>> /\ k = Head(inbox) /\ inbox' = Tail(inbox)
      /\ UNCHANGED <<channel, routable, published, publishMu, returns, confirms, delivery, subscriber, handled, dropped, failures>>
  BY DEF BrokerTakes, subscriberVars
<1>2. RabbitTypes /\ Locked /\ Handing /\ Told(k) BY DEF RabbitInv
<1>3. /\ inbox' \in Seq(Messages) /\ Len(inbox) \in Nat \ {0} /\ Len(inbox') = Len(inbox) - 1
      /\ \A i \in 1 .. Len(inbox') : inbox'[i] = inbox[i + 1] /\ i + 1 \in 1 .. Len(inbox)
      /\ inbox[1] = k /\ 1 \in 1 .. Len(inbox)
  <2>1. inbox \in Seq(Messages) BY <1>2 DEF RabbitTypes
  <2> QED BY <1>1, <2>1, TailIs
<1>4. /\ frames' \in Seq(FrameKinds \X Messages) /\ Len(frames) \in Nat
      /\ Len(frames') \in {Len(frames) + 1, Len(frames) + 2}
      /\ \A i \in 1 .. Len(frames) : frames'[i] = frames[i]
      /\ \A i \in 1 .. Len(frames') : i > Len(frames) => frames'[i][2] = k
      /\ Answers(k)
  BY <1>2, BrokerAnswers
<1>5. RabbitTypes' /\ Locked' /\ Handing' BY <1>1, <1>2, <1>3, <1>4 DEF RabbitTypes, Locked, Handing
<1>6. InInbox(k) /\ ~Framed(k) /\ confirms[k] = "none" /\ returns # <<k>> /\ published[k] \in {"sent", "timeout"}
  BY <1>2, <1>3 DEF InInbox, Told, Underway
<1>7. ~InInbox(k)'
  <2>1. \A i \in 1 .. Len(inbox) : inbox[i] = k => i = 1 BY <1>2, <1>3 DEF Told, Underway
  <2> QED BY <1>3, <2>1 DEF InInbox
<1>8. ASSUME NEW m \in Messages, published[m] = "sent" PROVE inbox' = <<>> \/ inbox'[Len(inbox')] = m
  <2>1. inbox[Len(inbox)] = m BY <1>1, <1>8 DEF RabbitInv, Told, Latest
  <2>2. CASE Len(inbox') = 0 BY <1>3, <2>2
  <2>3. CASE Len(inbox') # 0
    <3>1. Len(inbox') \in 1 .. Len(inbox') /\ Len(inbox') + 1 = Len(inbox) BY <1>3, <2>3
    <3> QED BY <1>3, <2>1, <3>1
  <2> QED BY <2>2, <2>3
<1>9. Told(k)'
  <2>1. \A i \in 1 .. Len(frames') : frames'[i][2] = k => i > Len(frames)
    BY <1>4, <1>6 DEF Framed
  <2>2. Underway(k)'
    <3>1. \A i \in 1 .. Len(inbox') : inbox'[i] # k BY <1>7 DEF InInbox
    <3> QED BY <1>1, <1>6, <1>7, <3>1 DEF Underway
  <2>3. ASSUME NEW i \in 1 .. Len(frames'), NEW j \in 1 .. Len(frames'), i < j, frames'[i][2] = k, frames'[j][2] = k
        PROVE  k \notin routable /\ frames'[i][1] = "return" /\ frames'[j][1] = "ack"
    <3>1. i = Len(frames) + 1 /\ j = Len(frames) + 2 /\ Len(frames') = Len(frames) + 2 BY <1>4, <2>1, <2>3
    <3> QED BY <1>4, <3>1 DEF Answers
  <2>4. ASSUME NEW i \in 1 .. Len(frames'), frames'[i][2] = k
        PROVE  /\ frames'[i][1] = "return" => k \notin routable
               /\ frames'[i][1] = "ack" =>
                     \/ k \in routable /\ k \in queue'
                     \/ k \notin routable /\ \E j \in 1 .. Len(frames') : frames'[j][1] = "return" /\ frames'[j][2] = k
    <3>1. CASE k \in routable /\ queue' = queue \cup {k} /\ Len(frames') = Len(frames) + 1 /\ frames'[Len(frames) + 1][1] = "ack"
      <4>1. i = Len(frames) + 1 BY <1>4, <2>1, <2>4, <3>1
      <4> QED BY <3>1, <4>1
    <3>2. CASE /\ k \notin routable /\ queue' = queue /\ Len(frames') = Len(frames) + 2
               /\ frames'[Len(frames) + 1][1] = "return" /\ frames'[Len(frames) + 2][1] = "ack"
      <4>1. Len(frames) + 1 \in 1 .. Len(frames') /\ Len(frames) + 1 > Len(frames)
        <5>1. Len(frames) \in Nat /\ Len(frames') = Len(frames) + 2 BY <1>4, <3>2
        <5> QED BY ONLY <5>1
      <4>2. frames'[Len(frames) + 1][2] = k BY <1>4, <4>1
      <4> QED BY <3>2, <4>1, <4>2
    <3>3. CASE queue' = queue /\ Len(frames') = Len(frames) + 1 /\ frames'[Len(frames) + 1][1] = "nack"
      <4>1. i = Len(frames) + 1 BY <1>4, <2>1, <2>4, <3>3
      <4> QED BY <3>3, <4>1
    <3> QED BY <1>4, <3>1, <3>2, <3>3 DEF Answers
  <2>5. Ordered(k)' BY <1>1, <1>6, <2>3, <2>4 DEF Ordered
  <2>6. Warned(k)' BY <1>1, <1>6, <2>4 DEF Warned
  <2>7. Latest(k)' BY <1>1, <1>4, <1>6, <1>8, <2>1 DEF Latest
  <2>8. Honest(k)'
    <3>1. published'[k] \notin {"ok", "unroutable"} /\ confirms'[k] = "none" BY <1>1, <1>6
    <3>2. k \in routable' => k \in routable BY <1>1
    <3> QED BY <2>4, <3>1, <3>2 DEF Honest, Stored
  <2> QED BY <2>2, <2>5, <2>6, <2>7, <2>8 DEF Told
<1>10. ASSUME NEW m \in Messages, m # k PROVE Told(m)'
  <2>1. Told(m) BY DEF RabbitInv
  <2>2. \A i \in 1 .. Len(frames') : frames'[i][2] = m => i \in 1 .. Len(frames) /\ frames'[i] = frames[i]
    BY <1>4, <1>10
  <2>3. \A i \in 1 .. Len(frames) : i \in 1 .. Len(frames') /\ frames'[i] = frames[i] BY <1>4
  <2>4. /\ Framed(m)' <=> Framed(m)
        /\ InInbox(m)' => InInbox(m)
    BY <1>3, <2>2, <2>3 DEF Framed, InInbox
  <2>5. Underway(m)'
    <3>1. \A i, j \in 1 .. Len(inbox) : inbox[i] = m /\ inbox[j] = m => i = j BY <2>1 DEF Told, Underway
    <3>2. ASSUME NEW i \in 1 .. Len(inbox'), NEW j \in 1 .. Len(inbox'), inbox'[i] = m, inbox'[j] = m PROVE i = j
      <4>1. i + 1 \in 1 .. Len(inbox) /\ inbox[i + 1] = m BY <1>3, <3>2
      <4>2. j + 1 \in 1 .. Len(inbox) /\ inbox[j + 1] = m BY <1>3, <3>2
      <4>3. i + 1 = j + 1 BY <3>1, <4>1, <4>2
      <4> QED BY <4>3
    <3> QED BY <1>1, <1>2, <2>1, <2>4, <3>2 DEF Told, Underway, Reading, RabbitTypes
  <2>6. Ordered(m)'
    <3>1. Reading BY <1>1, <1>2 DEF Reading, RabbitTypes
    <3> QED BY <1>1, <2>1, <2>2, <3>1 DEF Told, Ordered
  <2>7. Warned(m)' BY <1>1, <2>1, <2>2, <2>3 DEF Told, Warned
  <2>8. ASSUME published[m] = "sent" PROVE ~Framed(m) /\ returns # <<m>>
    <3>1. inbox[Len(inbox)] = m /\ Len(inbox) \in 1 .. Len(inbox) BY <1>1, <1>3, <2>1, <2>8 DEF Told, Latest
    <3>2. InInbox(m) BY <3>1 DEF InInbox
    <3> QED BY <2>1, <3>2 DEF Told, Underway
  <2>9. Latest(m)' BY <1>1, <1>8, <2>2, <2>8 DEF Latest, Framed
  <2>10. Honest(m)'
    <3>1. Honest(m) BY <2>1 DEF Told
    <3>2. queue' \in {queue, queue \cup {k}} BY <1>4 DEF Answers
    <3>3. Stored(m) => Stored(m)' BY <1>1, <3>2 DEF Stored
    <3> QED BY <1>1, <2>2, <3>1, <3>3 DEF Honest, Orphaned
  <2> QED BY <2>5, <2>6, <2>7, <2>9, <2>10 DEF Told
<1> QED BY <1>5, <1>9, <1>10 DEF RabbitInv

\* The client reads the frames in order, and stops at a return while the slot is
\* taken.
LEMMA ReadStep ==
    ASSUME RabbitInv, ReadFrame
    PROVE  RabbitInv'
<1> DEFINE k == frames[1][2]
           kind == frames[1][1]
<1>1. RabbitTypes /\ Locked /\ Handing BY DEF RabbitInv
<1>2. frames # <<>> /\ frames' = Tail(frames) BY DEF ReadFrame
<1>3. /\ frames' \in Seq(FrameKinds \X Messages) /\ Len(frames) \in Nat \ {0} /\ Len(frames') = Len(frames) - 1
      /\ \A i \in 1 .. Len(frames') : frames'[i] = frames[i + 1] /\ i + 1 \in 1 .. Len(frames)
      /\ Head(frames) = frames[1] /\ frames[1] \in FrameKinds \X Messages
  <2>1. frames \in Seq(FrameKinds \X Messages) BY <1>1 DEF RabbitTypes
  <2> QED BY <1>2, <2>1, TailIs
<1>4. k \in Messages /\ kind \in FrameKinds BY <1>3
<1>5. /\ UNCHANGED <<channel, routable, published, publishMu, inbox, queue, delivery, subscriber, handled, dropped, failures>>
      /\ \/ kind = "return" /\ returns = <<>> /\ returns' = <<k>> /\ confirms' = confirms
         \/ kind # "return" /\ confirms' = [confirms EXCEPT ![k] = kind] /\ returns' = returns
  BY <1>3 DEF ReadFrame, subscriberVars
<1>6. 1 \in 1 .. Len(frames) /\ \A i \in 1 .. Len(frames') : 1 < i + 1
  BY <1>3
<1> HIDE DEF k, kind
<1>7. frames[1][2] = k /\ frames[1][1] = kind BY DEF k, kind
<1>8. Framed(k) /\ Told(k) BY <1>4, <1>6, <1>7 DEF Framed, RabbitInv
<1>9. RabbitTypes' /\ Locked' /\ Handing'
  <2>1. confirms' \in [Messages -> {"none", "ack", "nack"}]
    BY <1>1, <1>4, <1>5 DEF RabbitTypes, FrameKinds
  <2>2. returns' = <<>> \/ \E n \in Messages : returns' = <<n>> BY <1>1, <1>4, <1>5 DEF RabbitTypes
  <2> QED BY <1>1, <1>3, <1>5, <2>1, <2>2 DEF RabbitTypes, Locked, Handing
<1>10. ASSUME NEW m \in Messages PROVE Told(m)'
  <2>1. Told(m) BY DEF RabbitInv
  <2>2. confirms'[m] = confirms[m] \/ (m = k /\ kind # "return" /\ confirms'[m] = kind)
    BY <1>1, <1>5 DEF RabbitTypes
  <2>3. returns' = returns \/ (kind = "return" /\ returns = <<>> /\ returns' = <<k>>) BY <1>5
  <2>4. InInbox(m)' = InInbox(m) BY <1>5 DEF InInbox
  <2>5. Framed(m)' => Framed(m) BY <1>3 DEF Framed
  \* The frames behind the one that is read.
  <2>6. \A i \in 1 .. Len(frames') : frames'[i][2] = k => kind = "return" /\ frames'[i][1] = "ack"
    <3> SUFFICES ASSUME NEW i \in 1 .. Len(frames'), frames'[i][2] = k PROVE kind = "return" /\ frames'[i][1] = "ack"
      OBVIOUS
    <3>1. i + 1 \in 1 .. Len(frames) /\ 1 < i + 1 /\ frames'[i] = frames[i + 1] BY <1>3, <1>6
    <3>2. \A h, j \in 1 .. Len(frames) :
             h < j /\ frames[h][2] = k /\ frames[j][2] = k => frames[h][1] = "return" /\ frames[j][1] = "ack"
      BY <1>8 DEF Told, Ordered
    <3>3. frames[i + 1][2] = k BY <3>1
    <3>4. frames[1][1] = "return" /\ frames[i + 1][1] = "ack" BY <1>6, <1>7, <3>1, <3>2, <3>3
    <3> QED BY <1>7, <3>1, <3>4
  <2>7. ASSUME m = k PROVE kind # "return" => ~Framed(m)' BY <2>6, <2>7 DEF Framed
  <2>8. Underway(m)'
    <3>1. confirms'[m] # "none" => ~Framed(m)' /\ ~InInbox(m)
      BY <1>8, <2>1, <2>2, <2>5, <2>7 DEF Told, Underway
    <3>2. returns' = <<m>> => returns = <<m>> \/ m = k BY <2>3
    <3>3. InInbox(m) => ~Framed(m)' /\ confirms'[m] = "none" /\ returns' # <<m>>
      <4> SUFFICES ASSUME InInbox(m) PROVE ~Framed(m)' /\ confirms'[m] = "none" /\ returns' # <<m>>
        OBVIOUS
      <4>1. ~Framed(m) /\ confirms[m] = "none" /\ returns # <<m>> /\ m # k BY <1>8, <2>1 DEF Told, Underway
      <4> QED BY <2>2, <2>5, <3>2, <4>1
    <3>4. InInbox(m) \/ Framed(m)' \/ returns' = <<m>> => published[m] \in {"sent", "timeout"}
      BY <1>2, <1>8, <2>1, <2>5, <3>2 DEF Told, Underway, Reading
    <3>5. published[m] = "new" => confirms'[m] = "none" BY <1>8, <2>1, <2>2 DEF Told, Underway
    <3> QED BY <1>5, <2>1, <2>4, <3>1, <3>3, <3>4, <3>5 DEF Told, Underway
  <2>9. Ordered(m)'
    <3>1. \A i, j \in 1 .. Len(frames') :
             i < j /\ frames'[i][2] = m /\ frames'[j][2] = m => frames'[i][1] = "return" /\ frames'[j][1] = "ack"
      <4> SUFFICES ASSUME NEW i \in 1 .. Len(frames'), NEW j \in 1 .. Len(frames'), i < j, frames'[i][2] = m, frames'[j][2] = m
                   PROVE  frames'[i][1] = "return" /\ frames'[j][1] = "ack"
        OBVIOUS
      <4>1. i + 1 \in 1 .. Len(frames) /\ j + 1 \in 1 .. Len(frames) /\ i + 1 < j + 1
            /\ frames'[i] = frames[i + 1] /\ frames'[j] = frames[j + 1]
        BY <1>3
      <4> QED BY <2>1, <4>1 DEF Told, Ordered
    <3>2. \A i \in 1 .. Len(frames') : frames'[i][1] = "return" /\ frames'[i][2] = m => m \notin routable
      BY <1>3, <2>1 DEF Told, Ordered
    <3>3. ASSUME returns' = <<m>>
          PROVE  /\ m \notin routable /\ confirms'[m] # "nack"
                 /\ \A i \in 1 .. Len(frames') : frames'[i][2] = m => frames'[i][1] = "ack"
      <4>1. CASE returns = <<m>>
        <5>1. /\ m \notin routable /\ confirms[m] # "nack"
              /\ \A i \in 1 .. Len(frames) : frames[i][2] = m => frames[i][1] = "ack"
          BY <1>2, <2>1, <4>1 DEF Told, Ordered, Reading
        <5>2. m = k => kind = "ack" BY <1>6, <1>7, <5>1
        <5>3. \A i \in 1 .. Len(frames') : frames'[i][2] = m => frames'[i][1] = "ack" BY <1>3, <5>1
        <5> QED BY <2>2, <5>1, <5>2, <5>3
      <4>2. CASE returns # <<m>>
        <5>1. m = k /\ kind = "return" BY <2>3, <3>3, <4>2
        <5>2. confirms[m] = "none" BY <1>8, <2>1, <5>1 DEF Told, Underway, RabbitTypes
        <5>3. m \notin routable BY <1>6, <1>7, <2>1, <5>1 DEF Told, Ordered
        <5> QED BY <2>2, <2>6, <5>1, <5>2, <5>3
      <4> QED BY <4>1, <4>2
    <3> QED BY <1>5, <3>1, <3>2, <3>3 DEF Ordered
  <2>10. Warned(m)'
    <3> SUFFICES ASSUME published[m] = "sent", m \notin routable
                 PROVE  /\ confirms'[m] = "ack" => returns' # <<>>
                        /\ \A i \in 1 .. Len(frames') : frames'[i][1] = "ack" /\ frames'[i][2] = m =>
                              returns' # <<>> \/ \E j \in 1 .. Len(frames') : frames'[j][1] = "return" /\ frames'[j][2] = m
      BY <1>5 DEF Warned
    <3>1. /\ confirms[m] = "ack" => returns # <<>>
          /\ \A i \in 1 .. Len(frames) : frames[i][1] = "ack" /\ frames[i][2] = m =>
                returns # <<>> \/ \E j \in 1 .. Len(frames) : frames[j][1] = "return" /\ frames[j][2] = m
      BY <2>1 DEF Told, Warned
    <3>2. returns # <<>> => returns' # <<>> BY <2>3
    <3>3. \A j \in 1 .. Len(frames) : j = 1 \/ (j - 1 \in 1 .. Len(frames') /\ frames'[j - 1] = frames[j])
      BY <1>3
    <3>4. confirms'[m] = "ack" => returns' # <<>>
      <4>1. CASE confirms'[m] = confirms[m] BY <3>1, <3>2, <4>1
      <4>2. CASE m = k /\ kind = "ack" /\ confirms'[m] = kind
        <5>1. ~\E j \in 1 .. Len(frames) : frames[j][1] = "return" /\ frames[j][2] = m
          BY <1>7, <2>6, <3>3, <4>2
        <5> QED BY <1>6, <1>7, <3>1, <3>2, <4>2, <5>1
      <4> QED BY <2>2, <4>1, <4>2
    <3>5. ASSUME NEW i \in 1 .. Len(frames'), frames'[i][1] = "ack", frames'[i][2] = m, returns' = <<>>
          PROVE  \E j \in 1 .. Len(frames') : frames'[j][1] = "return" /\ frames'[j][2] = m
      <4>1. i + 1 \in 1 .. Len(frames) /\ frames[i + 1][1] = "ack" /\ frames[i + 1][2] = m BY <1>3, <3>5
      <4>2. PICK j \in 1 .. Len(frames) : frames[j][1] = "return" /\ frames[j][2] = m BY <3>1, <3>2, <3>5, <4>1
      <4>3. j # 1 BY <1>7, <2>3, <3>5, <4>2, <1>5
      <4> QED BY <3>3, <4>2, <4>3
    <3> QED BY <3>4, <3>5
  <2>11. Latest(m)'
    <3> SUFFICES ASSUME published[m] = "sent"
                 PROVE  /\ \A i, j \in 1 .. Len(frames') : i < j /\ frames'[i][2] = m => frames'[j][2] = m
                        /\ returns' = <<m>> => \A i \in 1 .. Len(frames') : frames'[i][2] = m
      BY <1>5, <2>1 DEF Told, Latest
    <3>1. /\ \A i, j \in 1 .. Len(frames) : i < j /\ frames[i][2] = m => frames[j][2] = m
          /\ returns = <<m>> => \A i \in 1 .. Len(frames) : frames[i][2] = m
      BY <2>1 DEF Told, Latest
    <3>2. ASSUME NEW i \in 1 .. Len(frames'), NEW j \in 1 .. Len(frames'), i < j, frames'[i][2] = m
          PROVE  frames'[j][2] = m
      <4>1. i + 1 \in 1 .. Len(frames) /\ j + 1 \in 1 .. Len(frames) /\ i + 1 < j + 1
            /\ frames'[i] = frames[i + 1] /\ frames'[j] = frames[j + 1]
        BY <1>3, <3>2
      <4> QED BY <3>1, <3>2, <4>1
    <3>3. ASSUME returns' = <<m>>, NEW i \in 1 .. Len(frames') PROVE frames'[i][2] = m
      <4>1. i + 1 \in 1 .. Len(frames) /\ 1 < i + 1 /\ frames'[i] = frames[i + 1] BY <1>3, <1>6
      <4>2. returns = <<m>> \/ m = k BY <2>3, <3>3
      <4> QED BY <1>6, <1>7, <3>1, <4>1, <4>2
    <3> QED BY <3>2, <3>3
  <2>12. Honest(m)'
    <3>1. Honest(m) BY <2>1 DEF Told
    <3>2. Stored(m)' = Stored(m) BY <1>5 DEF Stored
    <3>3. /\ confirms'[m] = "ack" => confirms[m] = "ack" \/ \E i \in 1 .. Len(frames) : frames[i][1] = "ack" /\ frames[i][2] = m
          /\ (\E i \in 1 .. Len(frames') : frames'[i][1] = "ack" /\ frames'[i][2] = m) =>
                \E i \in 1 .. Len(frames) : frames[i][1] = "ack" /\ frames[i][2] = m
      BY <1>3, <1>6, <1>7, <2>2
    <3> QED BY <1>5, <3>1, <3>2, <3>3 DEF Honest, Orphaned
  <2> QED BY <2>8, <2>9, <2>10, <2>11, <2>12 DEF Told
<1> QED BY <1>9, <1>10 DEF RabbitInv

\* The channel is lost: nothing is said any more, unless the reader is stopped,
\* which then keeps what it holds.
LEMMA LostStep ==
    ASSUME RabbitInv, ChannelLost
    PROVE  RabbitInv'
<1>1. /\ channel' = "lost" /\ inbox' = <<>>
      /\ UNCHANGED <<routable, published, publishMu, returns, queue, delivery, subscriber, handled, dropped>>
      /\ \/ frames' = frames /\ confirms' = confirms
         \/ /\ frames' = <<>>
            /\ confirms' = [m \in Messages |->
                  IF published[m] = "sent" /\ confirms[m] = "none" THEN "nack" ELSE confirms[m]]
  BY DEF ChannelLost
<1>2. RabbitTypes BY DEF RabbitInv
<1>3. /\ \/ frames' = frames /\ \A m \in Messages : confirms'[m] = confirms[m]
         \/ frames' = <<>>
      /\ \A m \in Messages : confirms'[m] = confirms[m] \/ (published[m] = "sent" /\ confirms'[m] = "nack")
  BY <1>1
<1>4. confirms' \in [Messages -> {"none", "ack", "nack"}]
  <2>1. confirms \in [Messages -> {"none", "ack", "nack"}] BY <1>2 DEF RabbitTypes
  <2>2. [m \in Messages |-> IF published[m] = "sent" /\ confirms[m] = "none" THEN "nack" ELSE confirms[m]]
           \in [Messages -> {"none", "ack", "nack"}]
    BY <2>1
  <2> QED BY ONLY <1>1, <2>1, <2>2
<1>5. RabbitTypes'
  <2>1. inbox' \in Seq(Messages) BY <1>1
  <2>2. frames' \in Seq(FrameKinds \X Messages)
    <3>1. frames \in Seq(FrameKinds \X Messages) BY <1>2 DEF RabbitTypes
    <3>2. <<>> \in Seq(FrameKinds \X Messages) OBVIOUS
    <3> QED BY <1>3, <3>1, <3>2
  <2> QED BY <1>1, <1>2, <1>4, <2>1, <2>2 DEF RabbitTypes
<1>6. (Locked /\ Handing)' BY <1>1 DEF RabbitInv, Locked, Handing
<1>7. Len(inbox') = 0 BY <1>1
<1>8. Reading' => frames' = frames /\ frames # <<>> /\ Reading BY <1>1, <1>3 DEF Reading
<1>9. ASSUME NEW m \in Messages PROVE Told(m)'
  <2>1. Told(m) BY DEF RabbitInv
  <2>2. ~InInbox(m)' BY <1>7 DEF InInbox
  <2>3. frames' = frames \/ Len(frames') = 0 BY <1>3
  <2>4. Framed(m)' => Framed(m) /\ confirms'[m] = confirms[m] BY <1>3, <2>3 DEF Framed
  <2>5. Underway(m)'
    <3>1. published[m] = "new" => confirms'[m] = "none" BY <1>3, <2>1 DEF Told, Underway
    <3>2. Framed(m)' \/ (Reading' /\ returns' = <<m>>) => published[m] \in {"sent", "timeout"}
      BY <1>1, <1>8, <2>1, <2>4 DEF Told, Underway
    <3>3. confirms'[m] # "none" => ~Framed(m)' BY <2>1, <2>4 DEF Told, Underway
    <3> QED BY <1>1, <1>7, <2>2, <3>1, <3>2, <3>3 DEF Underway
  <2>6. Ordered(m)' BY <1>1, <1>3, <1>8, <2>1, <2>3 DEF Told, Ordered
  <2>7. (Warned(m) /\ Latest(m))' BY <1>1, <1>3, <1>7, <2>1, <2>3 DEF Told, Warned, Latest
  <2>8. Honest(m)' BY <1>1, <1>3, <2>1, <2>3 DEF Told, Honest, Stored, Orphaned
  <2> QED BY <2>5, <2>6, <2>7, <2>8 DEF Told
<1> QED BY <1>5, <1>6, <1>9 DEF RabbitInv

LEMMA RabbitStep ==
    ASSUME RabbitInv, [RabbitNext]_rabbitVars
    PROVE  RabbitInv'
<1>1. CASE UNCHANGED rabbitVars
  <2>1. (RabbitTypes /\ Locked /\ Handing)' BY <1>1 DEF rabbitVars, RabbitInv, RabbitTypes, Locked, Handing
  <2>2. ASSUME NEW m \in Messages PROVE Told(m)'
    <3>1. Told(m) BY DEF RabbitInv
    <3> QED BY <1>1, <3>1 DEF rabbitVars, Told, Underway, Ordered, Warned, Latest, Honest, Stored, InInbox, Framed,
              Orphaned, Reading
  <2> QED BY <2>1, <2>2 DEF RabbitInv
<1> QED BY <1>1, SubscriberStep, PublishStep, GiveUpStep, ConfirmedStep, BrokerStep, ReadStep, LostStep DEF RabbitNext

\* Publish over RabbitMQ returns nil only for a message that the queue holds, or
\* that was handled or rejected for its size; it calls a routed message unroutable,
\* which is then stored all the same, only once its channel is lost or after an
\* unroutable message whose Publish had given up, and the reader of the channel
\* stops only after such a message; for any messages and whatever the broker, the
\* subscriber, the deadlines and the connection do (pubsub/rabbitmq.go:85-134).
THEOREM PublishesTrue == RabbitSpec => []PublishTruth
<1>1. RabbitInit => RabbitInv BY RabbitInitially
<1>2. RabbitInv /\ [RabbitNext]_rabbitVars => RabbitInv' BY RabbitStep
<1>3. RabbitInv => PublishTruth
  <2> SUFFICES ASSUME RabbitInv, NEW m \in Messages
               PROVE  /\ published[m] = "ok" => m \in routable /\ Stored(m)
                      /\ published[m] = "unroutable" /\ m \in routable =>
                            Stored(m) /\ (channel # "open" \/ \E n \in Messages \ {m} : Orphaned(n))
                      /\ ReaderBlocked => \E n \in Messages : Orphaned(n) /\ returns = <<n>>
    BY DEF PublishTruth
  <2>1. Honest(m) BY DEF RabbitInv, Told
  <2>2. ASSUME ReaderBlocked PROVE \E n \in Messages : Orphaned(n) /\ returns = <<n>>
    <3>1. PICK n \in Messages : returns = <<n>> BY <2>2 DEF RabbitInv, RabbitTypes, ReaderBlocked
    <3>2. Told(n) BY DEF RabbitInv
    <3>3. frames[1][1] = "return" /\ 1 \in 1 .. Len(frames)
      <4>1. frames \in Seq(FrameKinds \X Messages) /\ frames # <<>> /\ Head(frames)[1] = "return"
        BY <2>2 DEF RabbitInv, RabbitTypes, ReaderBlocked
      <4>2. Head(frames) = frames[1] /\ 1 \in 1 .. Len(frames) BY <4>1
      <4> QED BY <4>1, <4>2
    <3>4. frames[1][2] # n BY <3>1, <3>2, <3>3 DEF Told, Ordered
    <3>5. published[n] # "sent" BY <3>1, <3>2, <3>3, <3>4 DEF Told, Latest
    <3>6. Reading BY <2>2 DEF ReaderBlocked, Reading
    <3> QED BY <3>1, <3>2, <3>5, <3>6 DEF Told, Underway, Ordered, Orphaned
  <2> QED BY <2>1, <2>2 DEF Honest
<1> QED BY <1>1, <1>2, <1>3, PTL DEF RabbitSpec


-----------------------------------------------------------------------------
(* Lifecycle: the life of a program.                                       *)

LifecycleSpec == LifecycleInit /\ [][LifecycleNext]_lifecycleVars

HookKinds == {"ok", "fails", "registers"}

Programs == {"starting", "listening", "notified", "draining", "stopping", "exited", "killed", "stuck"}

LifecycleTypes ==
    /\ onStart \in Seq(HookKinds)
    /\ onStop \in Seq(HookKinds)
    /\ program \in Programs
    /\ hook \in Nat
    /\ handling \in [Arrivals -> {"idle", "served", "answered", "abandoned", "hijacked", "cut", "ended"}]

\* Listen has no result until it returns, and what the server is then.
ListenResult ==
    /\ program \in {"starting", "listening", "notified", "draining", "killed"} => listened = "none"
    /\ program = "draining" => server = "closed"
    /\ program \in {"stopping", "exited"} => server \in {"failed", "closed"} /\ listened \in {"nil", "error"}
    /\ program \in {"stopping", "exited"} /\ server = "failed" => listened = "error"
    /\ listened = "nil" => server = "closed"

\* A server that was shut down, not one that failed, leaves no handler it serves.
ServedEnd ==
    /\ program \in {"stopping", "exited"} /\ server = "closed" => \A r \in Arrivals : handling[r] # "served"
    /\ listened = "nil" => \A r \in Arrivals : handling[r] # "served"
    /\ listened # "error" => \A r \in Arrivals : handling[r] # "cut"

StuckRegisters == program = "stuck" => \E h \in {onStart, onStop} : \E i \in DOMAIN h : h[i] = "registers"

LifecycleInv == LifecycleTypes /\ ListenResult /\ ServedEnd /\ StuckRegisters

LEMMA LifecycleInitially == LifecycleInit => LifecycleInv
<1> USE LifecycleAssumption
<1> SUFFICES ASSUME LifecycleInit PROVE LifecycleInv
  OBVIOUS
<1>1. ASSUME NEW h \in Hooks PROVE h \in Seq(HookKinds)
  <2>1. PICK n \in 0 .. MaxHooks : h \in [1 .. n -> HookKinds] BY <1>1 DEF Hooks, HookKinds
  <2> QED BY <2>1
<1> QED BY <1>1 DEF LifecycleInit, LifecycleInv, LifecycleTypes, ListenResult, ServedEnd, StuckRegisters, Programs

\* The hooks of a phase run, stop at one that fails, or block on one that registers.
LEMMA RunHooksMoves ==
    ASSUME NEW at, NEW hooks \in Seq(HookKinds), NEW next, NEW server2, hook \in Nat,
           RunHooks(at, hooks, next, server2)
    PROVE  /\ program = at /\ hook' \in Nat
           /\ UNCHANGED <<onStart, onStop, signalled, listened, handling>>
           /\ \/ UNCHANGED <<program, server>>
              \/ program' = "stuck" /\ server' = server /\ \E i \in DOMAIN hooks : hooks[i] = "registers"
              \/ program' = next /\ server' = server2
<1>1. CASE hook < Len(hooks) /\ hooks[hook + 1] # "fails"
  <2>1. hook + 1 \in DOMAIN hooks BY <1>1
  <2>2. hooks[hook + 1] \in HookKinds BY <2>1
  <2> QED BY <1>1, <2>1, <2>2 DEF RunHooks, HookKinds
<1>2. CASE ~(hook < Len(hooks) /\ hooks[hook + 1] # "fails")
  BY <1>2 DEF RunHooks
<1> QED BY <1>1, <1>2

LEMMA LifecycleStep ==
    ASSUME LifecycleInv, [LifecycleNext]_lifecycleVars
    PROVE  LifecycleInv'
<1> USE DEF Programs, Waited, Left
<1>1. CASE Start
  <2>1. RunHooks("starting", onStart, "listening", "binding") BY <1>1 DEF Start
  <2>2. onStart \in Seq(HookKinds) /\ hook \in Nat BY DEF LifecycleInv, LifecycleTypes
  <2> QED BY <2>1, <2>2, RunHooksMoves DEF LifecycleInv, LifecycleTypes, ListenResult, ServedEnd, StuckRegisters
<1>2. CASE Stop
  <2>1. RunHooks("stopping", onStop, "exited", server) BY <1>2 DEF Stop
  <2>2. onStop \in Seq(HookKinds) /\ hook \in Nat BY DEF LifecycleInv, LifecycleTypes
  <2> QED BY <2>1, <2>2, RunHooksMoves DEF LifecycleInv, LifecycleTypes, ListenResult, ServedEnd, StuckRegisters
<1>3. CASE Notify \/ Signal
  BY <1>3 DEF Notify, Signal, LifecycleInv, LifecycleTypes, ListenResult, ServedEnd, StuckRegisters
<1>4. CASE ServerListens \/ ServerFails
  BY <1>4 DEF ServerListens, ServerFails, ServerStep, LifecycleInv, LifecycleTypes,
        ListenResult, ServedEnd, StuckRegisters
<1>5. CASE ListenFails \/ BeginShutdown
  BY <1>5 DEF ListenFails, BeginShutdown, ListenReturns, LifecycleInv, LifecycleTypes,
        ListenResult, ServedEnd, StuckRegisters
<1>6. CASE ShutdownEnds
  BY <1>6 DEF ShutdownEnds, Drained, ListenReturns, LifecycleInv, LifecycleTypes,
        ListenResult, ServedEnd, StuckRegisters
<1>7. CASE ShutdownTimesOut
  BY <1>7 DEF ShutdownTimesOut, ListenReturns, LifecycleInv, LifecycleTypes,
        ListenResult, ServedEnd, StuckRegisters
<1>8. ASSUME NEW r \in Arrivals,
             Accept(r) \/ HandlerEnds(r) \/ Abandon(r) \/ Hijack(r) \/ Outlives(r)
      PROVE  LifecycleInv'
  BY <1>8 DEF Accept, HandlerEnds, Abandon, Hijack, Outlives,
        Moves, LifecycleInv, LifecycleTypes, ListenResult, ServedEnd, StuckRegisters
<1>9. CASE UNCHANGED lifecycleVars
  BY <1>9 DEF lifecycleVars, LifecycleInv, LifecycleTypes, ListenResult, ServedEnd, StuckRegisters
<1> QED BY <1>1, <1>2, <1>3, <1>4, <1>5, <1>6, <1>7, <1>8, <1>9 DEF LifecycleNext, Main

\* Stop hooks and the end of main run beside no handler that Listen promised to
\* wait for, and a nil from Listen means that every handling it accepted was
\* answered or taken over; for any requests and hooks (gpp.go:229-309,
\* di/di.go:46-68).
THEOREM ShutdownsOrderly == LifecycleSpec => []OrderlyShutdown
<1>1. LifecycleInit => LifecycleInv BY LifecycleInitially
<1>2. LifecycleInv /\ [LifecycleNext]_lifecycleVars => LifecycleInv' BY LifecycleStep
<1>3. LifecycleInv => OrderlyShutdown
  BY DEF LifecycleInv, LifecycleTypes, ListenResult, ServedEnd, StuckRegisters, OrderlyShutdown, Waited
<1> QED BY <1>1, <1>2, <1>3, PTL DEF LifecycleSpec

-----------------------------------------------------------------------------
(* Health: the answer of a probe.                                          *)

HealthSpec == HealthInit /\ [][HealthNext]_healthVars

AnyChecks == CheckKinds \cup {"nil"}

HealthTypes ==
    /\ readinessChecks \in [Names -> AnyChecks \cup {Missing}]
    /\ checks \in [Names -> AnyChecks \cup {Missing}]
    /\ done \in [Names -> {"ok", "error", Missing}]
    /\ results \in [Names -> {"ok", "error", Missing}]

\* What was heard of a check is of the snapshot, and was well only if the check was.
Heard(n) ==
    /\ checks[n] = Missing => done[n] = Missing /\ results[n] = Missing
    /\ done[n] = "ok" => checks[n] = "ok"
    /\ done[n] = "error" => checks[n] # "ok" \/ n \in late
    /\ results[n] = "ok" => done[n] = "ok"
    /\ results[n] = "error" => checks[n] # "ok" \/ n \in late

HealthInv == HealthTypes /\ (\A n \in Names : Heard(n)) /\ ReadinessTrue

LEMMA HealthStep ==
    ASSUME HealthInv, [HealthNext]_healthVars
    PROVE  HealthInv'
<1> USE HealthAssumption DEF AnyChecks, CheckKinds, Nowhere, Probing, Running
<1>1. ASSUME NEW n \in Names, NEW kind \in AnyChecks, Register(n, kind) \/ Add(n, kind)
      PROVE  HealthInv'
  BY <1>1 DEF Register, Add, HealthInv, HealthTypes, Heard, ReadinessTrue
<1>2. CASE Probe
  <2>1. \A n \in Names : checks[n] = Missing BY <1>2 DEF Probe
  <2>2. \A n \in Names : done[n] = Missing /\ results[n] = Missing BY <2>1 DEF HealthInv, Heard
  <2>3. status' = "UP" => \A n \in Names : checks'[n] = Missing BY <1>2 DEF Probe, HealthInv, HealthTypes
  <2>4. HealthTypes' BY <1>2 DEF Probe, HealthInv, HealthTypes
  <2>5. status' \in {"UP", Missing} BY <1>2 DEF Probe
  <2> QED BY <1>2, <2>2, <2>3, <2>4, <2>5 DEF Probe, HealthInv, HealthTypes, Heard, ReadinessTrue
<1>3. ASSUME NEW n \in Names, CheckReturns(n) PROVE HealthInv'
  <2>1. PICK value : /\ value \in (IF checks[n] = "ok" THEN {"ok"} ELSE {"error"}) \cup (IF n \in late THEN {"error"} ELSE {})
                     /\ done' = [done EXCEPT ![n] = value]
    BY <1>3 DEF CheckReturns
  <2>2. status = Missing /\ checks[n] # Missing /\ done[n] = Missing /\ UNCHANGED <<readinessChecks, checks, late, results, status>>
    BY <1>3 DEF CheckReturns
  <2>3. \A m \in Names : Heard(m)'
    <3> SUFFICES ASSUME NEW m \in Names PROVE Heard(m)' OBVIOUS
    <3>1. CASE m # n BY <2>1, <2>2, <3>1 DEF Heard, HealthInv, HealthTypes
    <3>2. CASE m = n BY <2>1, <2>2, <3>2 DEF Heard, HealthInv, HealthTypes
    <3> QED BY <3>1, <3>2
  <2>4. HealthTypes' BY <2>1, <2>2 DEF HealthInv, HealthTypes
  <2> QED BY <2>2, <2>3, <2>4 DEF HealthInv, ReadinessTrue
<1>4. ASSUME NEW n \in Names, CheckExpires(n) PROVE HealthInv'
  BY <1>4 DEF CheckExpires, HealthInv, HealthTypes, Heard, ReadinessTrue
<1>5. ASSUME NEW n \in Names, RunCheck(n) PROVE HealthInv'
  <2>1. PICK value \in CheckOutcomes(n) : results' = [results EXCEPT ![n] = value] BY <1>5 DEF RunCheck
  <2>2. status = Missing /\ checks[n] # Missing /\ UNCHANGED <<readinessChecks, checks, late, done, status>>
    BY <1>5 DEF RunCheck
  <2>3. value \in {"ok", "error"} /\ (value = "ok" => done[n] = "ok") /\ (value = "error" => done[n] = "error" \/ n \in late)
    BY <2>1 DEF CheckOutcomes, HealthInv, HealthTypes
  <2>4. \A m \in Names : Heard(m)'
    <3> SUFFICES ASSUME NEW m \in Names PROVE Heard(m)' OBVIOUS
    <3>1. CASE m # n BY <2>1, <2>2, <3>1 DEF Heard, HealthInv, HealthTypes
    <3>2. CASE m = n BY <2>1, <2>2, <2>3, <3>2 DEF Heard, HealthInv, HealthTypes
    <3> QED BY <3>1, <3>2
  <2>5. HealthTypes' BY <2>1, <2>2, <2>3 DEF HealthInv, HealthTypes
  <2> QED BY <2>2, <2>4, <2>5 DEF HealthInv, ReadinessTrue
<1>6. CASE Answer
  BY <1>6 DEF Answer, HealthInv, HealthTypes, Heard, ReadinessTrue
<1>7. CASE UNCHANGED healthVars
  BY <1>7 DEF healthVars, HealthInv, HealthTypes, Heard, ReadinessTrue
<1> QED BY <1>1, <1>2, <1>3, <1>4, <1>5, <1>6, <1>7 DEF HealthNext

\* A probe says UP only when it heard in time from every check it found, and each
\* was well, and DOWN only when one was not or was late; for any checks and
\* whatever is registered meanwhile (health/health.go:106-169).
THEOREM ProbesTrue == HealthSpec => []ReadinessTrue
<1>1. HealthInit => HealthInv
  BY HealthAssumption DEF HealthInit, Nowhere, HealthInv, HealthTypes, Heard, ReadinessTrue, AnyChecks, CheckKinds
<1>2. HealthInv /\ [HealthNext]_healthVars => HealthInv' BY HealthStep
<1>3. HealthInv => ReadinessTrue BY DEF HealthInv
<1> QED BY <1>1, <1>2, <1>3, PTL DEF HealthSpec


-----------------------------------------------------------------------------
(* Contexts: whose values a context holds.                                 *)

ContextsSpec == ContextsInit /\ [][ContextsNext]_contextVars

\* The maps a request, or the child it left behind, works on.
Held(r) ==
    (IF InUse(r) THEN {parent[r]} ELSE {}) \cup (IF phase[r] \in {"child", "late"} THEN {child[r]} ELSE {})

\* With the map of its background task, as long as that did not outlive the context.
Owned(r) == Held(r) \cup IF Outlived(r) THEN {} ELSE {task[r]} \ {Empty}

\* Requests whose background tasks write to maps that may be anybody's.
LeftTasks == {r \in Holders : Outlived(r)}

\* What the pool may hand out or make.
Free == pool \cup (Maps \ (1 .. made))

ContextsTypes ==
    /\ heap \in [Maps -> Holders \cup {Empty}]
    /\ made \in 0 .. MaxMaps
    /\ pool \subseteq 1 .. made
    /\ phase \in [Holders -> {"idle", "runs", "child", "ended", "panicked", "late"}]
    /\ parent \in [Holders -> Maps \cup {Empty}]
    /\ child \in [Holders -> Maps \cup {Empty}]
    /\ task \in [Holders -> Maps \cup {Empty}]

\* How far a request is with its maps.
Stage(r) ==
    /\ phase[r] = "idle" => child[r] = Empty /\ task[r] = Empty
    /\ phase[r] = "runs" => child[r] \in {Empty, parent[r]}
    /\ phase[r] = "child" => child[r] # parent[r]
    /\ Owned(r) \subseteq 1 .. made

\* No two requests own one map, and the pool has none of them; and what is in
\* them is their own, or was left.
OwnValues == \A r \in Holders :
    /\ Owned(r) \cap pool = {}
    /\ \A q \in Holders \ {r} : Owned(r) \cap Owned(q) = {}
    /\ \A m \in Owned(r) : heap[m] \in {r, Empty} \cup LeftTasks

ContextsInv ==
    /\ ContextsTypes
    /\ \A r \in Holders : Stage(r)
    /\ OwnValues

LEMMA ContextsInitially == ASSUME ContextsInit PROVE ContextsInv
<1> USE ContextsAssumption DEF ContextsInit, NoMap, Maps
<1>1. ContextsTypes BY DEF ContextsTypes
<1>2. \A r \in Holders : Owned(r) = {} BY DEF Owned, Held, InUse
<1> QED BY <1>1, <1>2 DEF ContextsInv, Stage, OwnValues

\* A step of one request that takes for itself what is free, gives back what was
\* its own and writes its own values keeps the maps apart.
LEMMA MapsStayApart ==
    ASSUME ContextsInv, ContextsTypes', NEW r \in Holders, Stage(r)', made' >= made,
           \A q \in Holders \ {r} : /\ phase'[q] = phase[q] /\ parent'[q] = parent[q]
                                    /\ child'[q] = child[q] /\ task'[q] = task[q],
           Outlived(r) => Outlived(r)',
           Owned(r)' \subseteq Owned(r) \cup Free, pool' \subseteq pool \cup Owned(r), Owned(r)' \cap pool' = {},
           \A m \in Owned(r)' : heap'[m] \in {r, Empty} \cup LeftTasks',
           \A q \in Holders \ {r} : \A m \in Owned(q) : heap'[m] = heap[m] \/ heap'[m] \in LeftTasks'
    PROVE  ContextsInv'
<1>1. \A q \in Holders \ {r} : Owned(q)' = Owned(q) /\ (Outlived(q)' <=> Outlived(q))
  BY DEF Held, Owned, InUse, Outlived
<1>2. LeftTasks \subseteq LeftTasks' BY <1>1 DEF LeftTasks
<1>3. \A q \in Holders : Stage(q)'
  <2>1. ASSUME NEW q \in Holders, q # r PROVE Stage(q)'
    <3>1. Stage(q) BY DEF ContextsInv
    <3>2. made \in Nat /\ made' \in Nat BY ContextsAssumption DEF ContextsInv, ContextsTypes
    <3>3. Owned(q)' \subseteq 1 .. made' BY <1>1, <2>1, <3>1, <3>2 DEF Stage
    <3> QED BY <2>1, <3>1, <3>3 DEF Stage
  <2> QED BY <2>1
<1>4. \A q \in Holders : Owned(q) \cap Free = {}
  BY DEF ContextsInv, OwnValues, Free, Stage
<1>5. \A q \in Holders \ {r} : Owned(q)' \cap pool' = {} BY <1>1 DEF ContextsInv, OwnValues
<1>6. \A q, p \in Holders : q # p => Owned(q)' \cap Owned(p)' = {} BY <1>1, <1>4 DEF ContextsInv, OwnValues
<1>7. \A q \in Holders \ {r} : \A m \in Owned(q)' : heap'[m] \in {q, Empty} \cup LeftTasks'
  <2>1. ASSUME NEW q \in Holders \ {r}, NEW m \in Owned(q) PROVE heap'[m] \in {q, Empty} \cup LeftTasks'
    <3>1. heap[m] \in {q, Empty} \cup LeftTasks BY DEF ContextsInv, OwnValues
    <3>2. heap'[m] = heap[m] \/ heap'[m] \in LeftTasks' OBVIOUS
    <3> QED BY <1>2, <3>1, <3>2
  <2> QED BY <1>1, <2>1
<1>8. OwnValues' BY <1>5, <1>6, <1>7 DEF OwnValues
<1> QED BY <1>3, <1>8 DEF ContextsInv

\* What an action of one request leaves alone.
OthersKeep(r) ==
    \A q \in Holders \ {r} : /\ phase'[q] = phase[q] /\ parent'[q] = parent[q]
                             /\ child'[q] = child[q] /\ task'[q] = task[q]

\* A context that goes out of the pool is empty, and nobody's.
LEMMA PoolGetKeeps ==
    ASSUME ContextsInv, NEW r \in Holders, PoolGet(r)
    PROVE  ContextsInv'
<1> USE ContextsAssumption DEF Maps
<1>1. ContextsTypes /\ Stage(r) BY DEF ContextsInv
<1>2. PICK m \in pool \cup ({made + 1} \cap Maps) :
          /\ heap' = Reset(m)
          /\ made' = IF m > made THEN m ELSE made
          /\ pool' = pool \ {m}
          /\ parent' = [parent EXCEPT ![r] = m]
          /\ phase' = [phase EXCEPT ![r] = "runs"]
          /\ UNCHANGED <<child, task>>
  BY DEF PoolGet
<1>3. phase[r] = "idle" /\ child[r] = Empty /\ task[r] = Empty BY <1>1 DEF PoolGet, Stage
<1>4. m \in 1 .. MaxMaps /\ m \in Free /\ made \in Nat /\ made' \in 0 .. MaxMaps /\ made' >= made /\ m <= made'
  BY <1>1, <1>2 DEF ContextsTypes, Free
<1>5. pool' \subseteq 1 .. made'
  <2>1. ASSUME NEW x \in pool PROVE x \in 1 .. made' BY <1>1, <1>4 DEF ContextsTypes
  <2> QED BY <1>2, <2>1
<1>6. ContextsTypes' BY <1>1, <1>2, <1>4, <1>5 DEF ContextsTypes, Reset
<1>7. /\ phase'[r] = "runs" /\ parent'[r] = m /\ child'[r] = Empty /\ task'[r] = Empty
      /\ heap'[m] = Empty /\ \A x \in Maps \ {m} : heap'[x] = heap[x]
  BY <1>1, <1>2, <1>3, <1>4 DEF ContextsTypes, Reset
<1>8. Owned(r)' = {m} BY <1>3, <1>7 DEF Held, Owned, InUse
<1>9. Stage(r)' BY <1>4, <1>7, <1>8 DEF Stage
<1>10. OthersKeep(r) BY <1>1, <1>2 DEF OthersKeep, ContextsTypes
<1>11. \A q \in Holders \ {r} : \A x \in Owned(q) : heap'[x] = heap[x]
  <2>1. ASSUME NEW q \in Holders \ {r}, NEW x \in Owned(q) PROVE heap'[x] = heap[x]
    <3>1. Owned(q) \subseteq 1 .. made BY DEF ContextsInv, Stage
    <3>2. x \notin pool /\ x \in 1 .. made BY <3>1 DEF ContextsInv, OwnValues
    <3>3. x \in Maps /\ x # m BY <1>1, <1>2, <3>2 DEF ContextsTypes
    <3> QED BY <1>7, <3>3
  <2> QED BY <2>1
<1>12. ~Outlived(r) BY <1>3 DEF Outlived
<1>13. Owned(r)' \subseteq Owned(r) \cup Free /\ pool' \subseteq pool \cup Owned(r)
       /\ Owned(r)' \cap pool' = {} /\ \A x \in Owned(r)' : heap'[x] \in {r, Empty}
  BY <1>2, <1>4, <1>7, <1>8
<1> QED BY <1>4, <1>6, <1>9, <1>10, <1>11, <1>12, <1>13, MapsStayApart DEF OthersKeep

\* What a request, a child it left or its background task writes is its own, and
\* what a task that outlived its context writes is left.
LEMMA WriteKeeps ==
    ASSUME ContextsInv, NEW r \in Holders, NEW m \in Maps, m \in Owned(r) \/ Outlived(r), NEW value \in {r, Empty},
           Outlived(r) => value = r \/ m \in Owned(r),
           heap' = [heap EXCEPT ![m] = value], UNCHANGED <<made, pool, phase, parent, child, task>>
    PROVE  ContextsInv'
<1> USE ContextsAssumption
<1>1. ContextsTypes /\ Stage(r) BY DEF ContextsInv
<1>2. ContextsTypes' BY <1>1 DEF ContextsTypes
<1>3. Owned(r)' = Owned(r) /\ (Outlived(r)' <=> Outlived(r)) /\ Stage(r)'
  BY <1>1 DEF Held, Owned, InUse, Outlived, Stage
<1>4. LeftTasks' = LeftTasks BY DEF LeftTasks, Outlived
<1>5. Owned(r) \cap pool' = {} BY DEF ContextsInv, OwnValues
<1>6. \A q \in Holders : Owned(q) \subseteq Maps BY <1>1 DEF ContextsInv, Stage, ContextsTypes, Maps
<1>7. \A x \in Maps : heap'[x] = IF x = m THEN value ELSE heap[x] BY <1>1 DEF ContextsTypes
<1>8. \A x \in Owned(r) : heap'[x] \in {r, Empty} \cup LeftTasks BY <1>6, <1>7 DEF ContextsInv, OwnValues
<1>9. \A q \in Holders \ {r} : \A x \in Owned(q) : heap'[x] = heap[x] \/ heap'[x] \in LeftTasks
  <2>1. CASE m \in Owned(r)
    <3>1. \A q \in Holders \ {r} : m \notin Owned(q) BY <2>1 DEF ContextsInv, OwnValues
    <3> QED BY <1>6, <1>7, <3>1
  <2>2. CASE m \notin Owned(r)
    <3>1. value \in LeftTasks BY <2>2 DEF LeftTasks
    <3> QED BY <1>6, <1>7, <3>1
  <2> QED BY <2>1, <2>2
<1>10. made' >= made BY <1>1 DEF ContextsTypes
<1> QED BY <1>2, <1>3, <1>4, <1>5, <1>8, <1>9, <1>10, MapsStayApart

\* The steps that make, adopt, give back or leave a map.
LEMMA AsyncKeeps ==
    ASSUME ContextsInv, NEW r \in Holders, Async(r)
    PROVE  ContextsInv'
<1> USE ContextsAssumption
<1>1. ContextsTypes /\ Stage(r) BY DEF ContextsInv
<1>2. /\ InUse(r) /\ task[r] = Empty /\ task' = [task EXCEPT ![r] = KeysOf(r)]
      /\ UNCHANGED <<heap, made, pool, phase, parent, child>>
  BY DEF Async
<1>3. KeysOf(r) \in Held(r) BY <1>2 DEF Held, KeysOf, InUse
<1>4. KeysOf(r) \in Maps BY <1>1, <1>3 DEF Stage, Owned, ContextsTypes, Maps
<1>5. ContextsTypes' BY <1>1, <1>2, <1>4 DEF ContextsTypes
<1>6. task'[r] = KeysOf(r) BY <1>1, <1>2 DEF ContextsTypes
<1>7. Held(r)' = Held(r) /\ ~Outlived(r) /\ ~Outlived(r)' BY <1>2 DEF Held, InUse, Outlived
<1>8. Owned(r)' = Held(r) /\ Owned(r) = Held(r) BY <1>2, <1>3, <1>4, <1>6, <1>7, ContextsAssumption DEF Owned
<1>9. Stage(r)' /\ LeftTasks' = LeftTasks
  <2>1. Stage(r)' BY <1>1, <1>2, <1>8 DEF Stage, InUse
  <2>2. \A q \in Holders : Outlived(q)' <=> Outlived(q) BY <1>1, <1>2, <1>7 DEF Outlived, ContextsTypes
  <2> QED BY <2>1, <2>2 DEF LeftTasks
<1>10. OthersKeep(r) BY <1>1, <1>2 DEF OthersKeep, ContextsTypes
<1>11. /\ Owned(r)' \cap pool' = {}
       /\ \A m \in Owned(r)' : heap'[m] \in {r, Empty} \cup LeftTasks'
  BY <1>2, <1>8, <1>9 DEF ContextsInv, OwnValues
<1>12. made' >= made BY <1>1, <1>2 DEF ContextsTypes
<1>13. Owned(r)' \subseteq Owned(r) \cup Free /\ pool' \subseteq pool \cup Owned(r)
  BY <1>2, <1>8
<1> QED BY <1>2, <1>5, <1>7, <1>9, <1>10, <1>11, <1>12, <1>13, MapsStayApart DEF OthersKeep

LEMMA StartChildKeeps ==
    ASSUME ContextsInv, NEW r \in Holders, StartChild(r)
    PROVE  ContextsInv'
<1> USE ContextsAssumption
<1> DEFINE new == made + 1
<1>1. ContextsTypes /\ Stage(r) BY DEF ContextsInv
<1>2. /\ phase[r] = "runs" /\ child[r] = Empty /\ made < MaxMaps /\ made' = new
      /\ heap' = [heap EXCEPT ![new] = heap[parent[r]]]
      /\ child' = [child EXCEPT ![r] = new]
      /\ phase' = [phase EXCEPT ![r] = "child"]
      /\ UNCHANGED <<pool, parent, task>>
  BY DEF StartChild
<1>3. parent[r] \in 1 .. made BY <1>1, <1>2 DEF Stage, Owned, Held, InUse
<1>4. made \in Nat /\ new \in Maps /\ new \notin 1 .. made /\ parent[r] \in Maps /\ new # parent[r] /\ new \in Free
      /\ made' \in 0 .. MaxMaps /\ made' >= made
  BY <1>1, <1>2, <1>3 DEF ContextsTypes, Maps, Free
<1>5. pool' \subseteq 1 .. made' BY <1>1, <1>2, <1>4 DEF ContextsTypes
<1>6. ContextsTypes' BY <1>1, <1>2, <1>4, <1>5 DEF ContextsTypes
<1>7. /\ phase'[r] = "child" /\ parent'[r] = parent[r] /\ child'[r] = new /\ task'[r] = task[r]
      /\ heap'[new] = heap[parent[r]] /\ \A x \in Maps \ {new} : heap'[x] = heap[x]
  BY <1>1, <1>2, <1>4 DEF ContextsTypes
<1>8. Held(r)' = {parent[r], new} /\ Held(r) = {parent[r]} /\ ~Outlived(r) /\ ~Outlived(r)'
  BY <1>2, <1>7 DEF Held, InUse, Outlived
<1>9. Owned(r)' = Owned(r) \cup {new} BY <1>7, <1>8 DEF Owned
<1>10. Stage(r)'
  <2>1. Owned(r)' \subseteq 1 .. made'
    <3>1. Owned(r) \subseteq 1 .. made BY <1>1 DEF Stage
    <3> QED BY <1>2, <1>4, <1>9, <3>1
  <2> QED BY <1>4, <1>7, <2>1 DEF Stage
<1>11. OthersKeep(r) BY <1>1, <1>2 DEF OthersKeep, ContextsTypes
<1>12. new \notin pool /\ \A q \in Holders : new \notin Owned(q) /\ Owned(q) \subseteq Maps
  BY <1>1, <1>4 DEF ContextsTypes, ContextsInv, Stage, Maps
<1>13. LeftTasks \subseteq LeftTasks'
  <2>1. \A q \in Holders : Outlived(q) => Outlived(q)' BY <1>8, <1>11 DEF Outlived, OthersKeep
  <2> QED BY <2>1 DEF LeftTasks
<1>14. Owned(r)' \cap pool' = {} BY <1>2, <1>9, <1>12 DEF ContextsInv, OwnValues
<1>15. \A m \in Owned(r)' : heap'[m] \in {r, Empty} \cup LeftTasks'
  <2>1. heap[parent[r]] \in {r, Empty} \cup LeftTasks BY <1>8 DEF ContextsInv, OwnValues, Owned
  <2>2. \A m \in Owned(r) : heap'[m] = heap[m] /\ heap[m] \in {r, Empty} \cup LeftTasks
    BY <1>7, <1>12 DEF ContextsInv, OwnValues
  <2> QED BY <1>7, <1>9, <1>13, <2>1, <2>2
<1>16. \A q \in Holders \ {r} : \A m \in Owned(q) : heap'[m] = heap[m] BY <1>7, <1>12
<1>17. Owned(r)' \subseteq Owned(r) \cup Free /\ pool' \subseteq pool \cup Owned(r)
  BY <1>2, <1>4, <1>9
<1> QED BY <1>4, <1>6, <1>8, <1>10, <1>11, <1>14, <1>15, <1>16, <1>17, MapsStayApart DEF OthersKeep

LEMMA AdoptKeeps ==
    ASSUME ContextsInv, NEW r \in Holders, Adopt(r)
    PROVE  ContextsInv'
<1> USE ContextsAssumption
<1>1. ContextsTypes /\ Stage(r) BY DEF ContextsInv
<1>2. /\ phase[r] = "child" /\ parent' = [parent EXCEPT ![r] = child[r]] /\ phase' = [phase EXCEPT ![r] = "runs"]
      /\ UNCHANGED <<heap, made, pool, child, task>>
  BY DEF Adopt
<1>3. phase'[r] = "runs" /\ parent'[r] = child[r] /\ child'[r] = child[r] /\ task'[r] = task[r]
  BY <1>1, <1>2 DEF ContextsTypes
<1>4. ContextsTypes' BY <1>1, <1>2 DEF ContextsTypes
<1>5. Held(r)' = {child[r]} /\ child[r] \in Held(r) /\ ~Outlived(r) /\ ~Outlived(r)'
  BY <1>2, <1>3 DEF Held, InUse, Outlived
<1>6. Owned(r)' \subseteq Owned(r) BY <1>3, <1>5 DEF Owned
<1>7. Stage(r)' BY <1>1, <1>2, <1>3, <1>6 DEF Stage
<1>8. OthersKeep(r) BY <1>1, <1>2 DEF OthersKeep, ContextsTypes
<1>9. LeftTasks' = LeftTasks
  <2>1. \A q \in Holders : Outlived(q)' <=> Outlived(q) BY <1>5, <1>8 DEF Outlived, OthersKeep
  <2> QED BY <2>1 DEF LeftTasks
<1>10. /\ Owned(r)' \cap pool' = {}
       /\ \A m \in Owned(r)' : heap'[m] \in {r, Empty} \cup LeftTasks'
  BY <1>2, <1>6, <1>9 DEF ContextsInv, OwnValues
<1>11. made' >= made BY <1>1, <1>2 DEF ContextsTypes
<1> QED BY <1>2, <1>4, <1>5, <1>6, <1>7, <1>8, <1>10, <1>11, MapsStayApart DEF OthersKeep

\* A context goes back with the map nobody of the request works on any more.
LEMMA PoolPutKeeps ==
    ASSUME ContextsInv, NEW r \in Holders, End(r) \/ ChildLate(r)
    PROVE  ContextsInv'
<1> USE ContextsAssumption
<1>1. ContextsTypes /\ Stage(r) BY DEF ContextsInv
<1>2. PICK to \in {"ended", "late"} :
          /\ to = "ended" => phase[r] = "runs"
          /\ to = "late" => phase[r] = "child"
          /\ PoolPut(r, to)
  BY DEF End, ChildLate
<1>3. pool' = pool \cup {parent[r]} /\ phase' = [phase EXCEPT ![r] = to] /\ UNCHANGED <<heap, made, parent, child, task>>
  BY <1>2 DEF PoolPut
<1>4. phase'[r] = to BY <1>1, <1>3 DEF ContextsTypes
<1>5. parent[r] \in Held(r) /\ parent[r] \in 1 .. made BY <1>1, <1>2 DEF Held, InUse, Stage, Owned
<1>6. ContextsTypes' BY <1>1, <1>2, <1>3, <1>5 DEF ContextsTypes
<1>7. Held(r)' \subseteq Held(r) \ {parent[r]}
  <2>1. CASE to = "ended" BY <1>3, <1>4, <2>1 DEF Held, InUse
  <2>2. CASE to = "late"
    <3>1. Held(r)' = {child[r]} /\ child[r] # parent[r] /\ child[r] \in Held(r)
      BY <1>1, <1>2, <1>3, <1>4, <2>2 DEF Held, InUse, Stage
    <3> QED BY <3>1
  <2> QED BY <2>1, <2>2
<1>8. ~Outlived(r) BY <1>2 DEF Outlived
<1>9. Owned(r)' \subseteq Owned(r) BY <1>3, <1>7, <1>8 DEF Owned
<1>10. Stage(r)' BY <1>1, <1>2, <1>3, <1>4, <1>9 DEF Stage
<1>11. OthersKeep(r) BY <1>1, <1>3 DEF OthersKeep, ContextsTypes
<1>12. parent[r] \notin Owned(r)'
  <2>1. ~Outlived(r)' /\ task[r] # Empty => task[r] # parent[r] BY <1>2, <1>3, <1>4 DEF Outlived
  <2>2. CASE Outlived(r)' BY <1>7, <2>2 DEF Owned
  <2>3. CASE ~Outlived(r)' BY <1>3, <1>7, <2>1, <2>3 DEF Owned
  <2> QED BY <2>2, <2>3
<1>13. LeftTasks \subseteq LeftTasks'
  <2>1. \A q \in Holders : Outlived(q) => Outlived(q)' BY <1>8, <1>11 DEF Outlived, OthersKeep
  <2> QED BY <2>1 DEF LeftTasks
<1>14. Owned(r)' \cap pool' = {} BY <1>3, <1>9, <1>12 DEF ContextsInv, OwnValues
<1>15. \A m \in Owned(r)' : heap'[m] \in {r, Empty} \cup LeftTasks'
  BY <1>3, <1>9, <1>13 DEF ContextsInv, OwnValues
<1>16. made' >= made BY <1>1, <1>3 DEF ContextsTypes
<1>17. pool' \subseteq pool \cup Owned(r) BY <1>3, <1>5 DEF Owned
<1> QED BY <1>3, <1>6, <1>8, <1>9, <1>10, <1>11, <1>14, <1>15, <1>16, <1>17, MapsStayApart DEF OthersKeep

LEMMA PanicKeeps ==
    ASSUME ContextsInv, NEW r \in Holders, Panic(r)
    PROVE  ContextsInv'
<1> USE ContextsAssumption
<1>1. ContextsTypes /\ Stage(r) BY DEF ContextsInv
<1>2. phase[r] = "runs" /\ phase' = [phase EXCEPT ![r] = "panicked"] /\ UNCHANGED <<heap, made, pool, parent, child, task>>
  BY DEF Panic
<1>3. phase'[r] = "panicked" BY <1>1, <1>2 DEF ContextsTypes
<1>4. ContextsTypes' BY <1>1, <1>2 DEF ContextsTypes
<1>5. Held(r)' = {} /\ ~Outlived(r) /\ ~Outlived(r)' BY <1>2, <1>3 DEF Held, InUse, Outlived
<1>6. Owned(r)' \subseteq Owned(r) BY <1>2, <1>5 DEF Owned
<1>7. Stage(r)' BY <1>1, <1>2, <1>3, <1>6 DEF Stage
<1>8. OthersKeep(r) BY <1>1, <1>2 DEF OthersKeep, ContextsTypes
<1>9. LeftTasks' = LeftTasks
  <2>1. \A q \in Holders : Outlived(q)' <=> Outlived(q) BY <1>5, <1>8 DEF Outlived, OthersKeep
  <2> QED BY <2>1 DEF LeftTasks
<1>10. /\ Owned(r)' \cap pool' = {}
       /\ \A m \in Owned(r)' : heap'[m] \in {r, Empty} \cup LeftTasks'
  BY <1>2, <1>6, <1>9 DEF ContextsInv, OwnValues
<1>11. made' >= made BY <1>1, <1>2 DEF ContextsTypes
<1> QED BY <1>2, <1>4, <1>5, <1>6, <1>7, <1>8, <1>10, <1>11, MapsStayApart DEF OthersKeep

LEMMA ContextsStep == ASSUME ContextsInv, [ContextsNext]_contextVars PROVE ContextsInv'
<1>1. CASE UNCHANGED contextVars
  <2>1. heap' = heap /\ made' = made /\ pool' = pool /\ phase' = phase /\ parent' = parent /\ child' = child /\ task' = task
    BY <1>1 DEF contextVars
  <2>2. \A r \in Holders : Owned(r)' = Owned(r) /\ (Outlived(r)' <=> Outlived(r))
    BY <2>1 DEF Held, Owned, InUse, Outlived
  <2>3. ContextsTypes' BY <2>1 DEF ContextsInv, ContextsTypes
  <2>4. \A r \in Holders : Stage(r)' BY <2>1, <2>2 DEF ContextsInv, Stage
  <2>5. LeftTasks' = LeftTasks BY <2>2 DEF LeftTasks
  <2>6. OwnValues' BY <2>1, <2>2, <2>5 DEF ContextsInv, OwnValues
  <2> QED BY <2>3, <2>4, <2>6 DEF ContextsInv
<1>2. ASSUME NEW r \in Holders,
             \/ PoolGet(r) \/ SetKey(r) \/ DeleteKey(r) \/ Async(r) \/ StartChild(r) \/ Adopt(r)
             \/ End(r) \/ ChildLate(r) \/ Panic(r) \/ LateSet(r) \/ TaskSet(r)
      PROVE  ContextsInv'
  <2>1. CASE PoolGet(r) BY <2>1, PoolGetKeeps
  <2>2. CASE SetKey(r) \/ DeleteKey(r)
    <3>1. KeysOf(r) \in Owned(r) BY <2>2 DEF SetKey, DeleteKey, KeysOf, Owned, Held, InUse
    <3>2. KeysOf(r) \in Maps BY <3>1, ContextsAssumption DEF ContextsInv, ContextsTypes, Stage, Maps
    <3> QED BY <2>2, <3>1, <3>2, WriteKeeps DEF SetKey, DeleteKey
  <2>3. CASE Async(r) BY <2>3, AsyncKeeps
  <2>4. CASE StartChild(r) BY <2>4, StartChildKeeps
  <2>5. CASE Adopt(r) BY <2>5, AdoptKeeps
  <2>6. CASE End(r) \/ ChildLate(r) BY <2>6, PoolPutKeeps
  <2>7. CASE Panic(r) BY <2>7, PanicKeeps
  <2>8. CASE LateSet(r)
    <3>1. child[r] \in Owned(r) BY <2>8 DEF LateSet, Owned, Held
    <3>2. child[r] \in Maps BY <3>1, ContextsAssumption DEF ContextsInv, ContextsTypes, Stage, Maps
    <3> QED BY <2>8, <3>1, <3>2, WriteKeeps DEF LateSet
  <2>9. CASE TaskSet(r)
    <3>1. task[r] \in Owned(r) \/ Outlived(r) BY <2>9 DEF TaskSet, Owned
    <3>2. task[r] \in Maps BY <2>9 DEF TaskSet, ContextsInv, ContextsTypes
    <3> QED BY <2>9, <3>1, <3>2, WriteKeeps DEF TaskSet
  <2> QED BY <1>2, <2>1, <2>2, <2>3, <2>4, <2>5, <2>6, <2>7, <2>8, <2>9
<1> QED BY <1>1, <1>2 DEF ContextsNext

\* For any number of requests and of maps the pool may hold, contexts in use are
\* nobody else's, and what a request or its background task finds in its own was
\* stored by itself, or by a request whose background task outlived its context,
\* or by others where that task is its own (context.go:30-69, 631-658, gpp.go:176-213).
THEOREM ContextsAreOwn == ContextsSpec => []ContextsOwn
<1>1. ContextsInit => ContextsInv BY ContextsInitially
<1>2. ContextsInv /\ [ContextsNext]_contextVars => ContextsInv' BY ContextsStep
<1>3. ContextsInv => ContextsOwn
  <2> SUFFICES ASSUME ContextsInv PROVE ContextsOwn OBVIOUS
  <2>1. KeysAreOwn
    <3> SUFFICES ASSUME NEW r \in Holders
                 PROVE  /\ InUse(r) => Explained(r, KeysOf(r))
                        /\ phase[r] = "late" => Explained(r, child[r])
                        /\ task[r] # Empty /\ ~Outlived(r) => Explained(r, task[r])
      BY DEF KeysAreOwn
    <3>1. \A m \in Owned(r) : Explained(r, m) BY DEF ContextsInv, OwnValues, Explained, Own, LeftTasks
    <3> QED BY <3>1 DEF Owned, Held, KeysOf, InUse
  <2>2. ContextsExclusive
    <3>1. \A r \in Holders : InUse(r) => parent[r] \notin pool BY DEF ContextsInv, OwnValues, Owned, Held
    <3>2. \A r \in Holders : InUse(r) => {parent[r], child[r]} \subseteq Held(r) \cup {Empty}
      BY DEF ContextsInv, Stage, Held, InUse
    <3>3. \A r, q \in Holders : r # q /\ InUse(r) /\ InUse(q) => {parent[r], child[r]} \cap {parent[q], child[q]} \subseteq {Empty}
      BY <3>2 DEF ContextsInv, OwnValues, Owned
    <3> QED BY <3>1, <3>3 DEF ContextsExclusive
  <2> QED BY <2>1, <2>2 DEF ContextsOwn
<1> QED BY <1>1, <1>2, <1>3, PTL DEF ContextsSpec


-----------------------------------------------------------------------------
(* Tokens: who accepts them, and for how long.                             *)

TokensSpec == TokensInit /\ [][TokensNext]_tokenVars

TokensTypes ==
    /\ time \in Int
    /\ offset \in [Managers -> Int]
    /\ maxTTL \in Int
    /\ release \in [Managers -> 1 .. 4]

\* The reading of the issuer's clock.
IssuedAt(t) == t.at + offset[t.by]

\* What a token says follows from who issued it, when and for how long.
Genuine(t) ==
    /\ t.format \in {"jwt", "legacy"}
    /\ t.by \in Managers /\ t.at \in Int /\ t.ttl \in Int /\ t.at <= time
    /\ t.claims.iat = Unix(IssuedAt(t)) /\ t.claims.nbf = t.claims.iat
    /\ t.claims.exp = Unix(IssuedAt(t) + t.ttl)
    /\ t.claims.kid \in {1, 2}
    /\ t.format = "jwt" => t.ttl >= Second /\ t.ttl <= maxTTL

\* Key 2 is used once everybody knows it, key 1 dropped once nothing needs it.
KeyKept(t) ==
    /\ t.claims.kid = 2 => \A q \in Managers : release[q] >= 2
    /\ t.claims.kid = 1 /\ (\E p \in Managers : release[p] = 4) =>
          \A q \in Managers : Now(q) >= t.claims.exp * Second + ClockSkew

TokensInv ==
    /\ TokensTypes
    /\ \A t \in tokens : Genuine(t) /\ KeyKept(t)
    /\ \A p, q \in Managers : release[p] <= release[q] + 1

\* What cutting a time off to seconds loses.
LEMMA WholeSeconds ==
    \A t \in Int : Unix(t) \in Int /\ Unix(t) * Second <= t /\ t <= Unix(t) * Second + 1
BY DEF Unix, Second

\* Cut off, a lifetime of no more than MaxTTL is none, when one of them is whole.
LEMMA WholeLifetimes ==
    ASSUME NEW x \in Int, NEW ttl \in Int, NEW longest \in Int, ttl <= longest, ttl % Second = 0 \/ longest % Second = 0
    PROVE  Unix(x + ttl) - Unix(x) <= Unix(longest)
BY DEF Unix, Second

LEMMA TokensInitially == ASSUME TokensInit PROVE TokensInv
<1>1. release = [p \in Managers |-> 1] /\ tokens = {} BY DEF TokensInit
<1>2. time \in Int /\ maxTTL \in Int BY TokensAssumption DEF TokensInit, Second
<1>3. offset \in [Managers -> Int] BY TokensAssumption DEF TokensInit
<1>4. release \in [Managers -> 1 .. 4] BY <1>1
<1>5. \A p, q \in Managers : release[p] <= release[q] + 1 BY <1>1
<1> QED BY <1>1, <1>2, <1>3, <1>4, <1>5 DEF TokensInv, TokensTypes

\* A process signs with the key of its release.
LEMMA SignedWith ==
    ASSUME NEW n \in 1 .. 4
    PROVE  /\ ActiveKeyID[n] = IF n <= 2 THEN 1 ELSE 2
           /\ \A k \in {1, 2} : k \in SigningKeys[n] <=> (k = 1 => n <= 3) /\ (k = 2 => n >= 2)
<1>1. n = 1 \/ n = 2 \/ n = 3 \/ n = 4 OBVIOUS
<1> QED BY <1>1 DEF ActiveKeyID, SigningKeys

LEMMA IssueKeeps ==
    ASSUME TokensInv, NEW p \in Managers, NEW ttl \in 1 .. MaxTime, NEW format \in {"jwt", "legacy"},
           format = "jwt" => ttl >= Second /\ ttl <= maxTTL,
           tokens' = tokens \cup {[format |-> format, claims |-> Claims(p, ttl), by |-> p, at |-> time, ttl |-> ttl]},
           UNCHANGED <<time, offset, maxTTL, release>>
    PROVE  TokensInv'
<1> DEFINE new == [format |-> format, claims |-> Claims(p, ttl), by |-> p, at |-> time, ttl |-> ttl]
<1>1. TokensTypes /\ TokensTypes' BY DEF TokensInv, TokensTypes
<1>2. release[p] \in 1 .. 4 BY <1>1 DEF TokensTypes
<1>3. /\ new.format = format /\ new.by = p /\ new.at = time /\ new.ttl = ttl
      /\ new.claims.iat = Unix(Now(p)) /\ new.claims.nbf = Unix(Now(p)) /\ new.claims.exp = Unix(Now(p) + ttl)
      /\ new.claims.kid = ActiveKeyID[release[p]]
  BY DEF Claims
<1>4. new.claims.kid = (IF release[p] <= 2 THEN 1 ELSE 2) BY <1>2, <1>3, SignedWith
<1>5. tokens' = tokens \cup {new} OBVIOUS
<1> HIDE DEF new
<1>6. ttl \in Int
  <2>1. MaxTime \in Int /\ ttl \in 1 .. MaxTime BY TokensAssumption
  <2> HIDE DEF TokensInv
  <2> QED BY <2>1
<1>7. ASSUME NEW t, t = new PROVE Genuine(t)' /\ KeyKept(t)'
  <2>1. Genuine(t)' BY <1>1, <1>3, <1>4, <1>6, <1>7 DEF Genuine, IssuedAt, Now, TokensTypes
  <2>2. \A q \in Managers : release[q] \in 1 .. 4 /\ release[q] <= release[p] + 1 /\ release[p] <= release[q] + 1
    BY <1>1 DEF TokensInv, TokensTypes
  <2>3. t.claims.kid = 2 => \A q \in Managers : release[q] >= 2 BY <1>2, <1>4, <1>7, <2>2
  <2>4. t.claims.kid = 1 => \A q \in Managers : release[q] # 4
    <3>1. release[p] > 2 => t.claims.kid # 1 BY <1>2, <1>4, <1>7
    <3>2. release[p] <= 2 => \A q \in Managers : release[q] # 4 BY <1>2, <2>2
    <3> QED BY <1>2, <3>1, <3>2
  <2>5. release' = release OBVIOUS
  <2>6. KeyKept(t)' BY <2>3, <2>4, <2>5 DEF KeyKept
  <2> QED BY <2>1, <2>6
<1>8. \A t \in tokens : Genuine(t)' /\ KeyKept(t)'
  <2>1. time' = time /\ offset' = offset /\ maxTTL' = maxTTL /\ release' = release OBVIOUS
  <2>2. \A t \in tokens : Genuine(t) /\ KeyKept(t) BY DEF TokensInv
  <2> TAKE t \in tokens
  <2>3. Genuine(t)' BY <2>1, <2>2 DEF Genuine, IssuedAt
  <2>4. KeyKept(t)' BY <2>1, <2>2 DEF KeyKept, Now
  <2> QED BY <2>3, <2>4
<1>9. \A r, q \in Managers : release'[r] <= release'[q] + 1 BY DEF TokensInv
<1>10. \A t \in tokens' : Genuine(t)' /\ KeyKept(t)' BY <1>5, <1>7, <1>8
<1> QED BY <1>1, <1>9, <1>10 DEF TokensInv

LEMMA UpgradeKeeps ==
    ASSUME TokensInv, NEW p \in Managers, Upgrade(p)
    PROVE  TokensInv'
<1>1. TokensTypes BY DEF TokensInv
<1>2. /\ release[p] < 4 /\ \A q \in Managers : release[q] >= release[p]
      /\ release[p] = 3 => \A t \in tokens, q \in Managers : t.claims.kid = 1 => Now(q) >= t.claims.exp * Second + ClockSkew
      /\ release' = [release EXCEPT ![p] = release[p] + 1]
      /\ UNCHANGED <<time, offset, maxTTL, tokens>>
  BY DEF Upgrade
<1>3. release'[p] = release[p] + 1 /\ release[p] \in 1 .. 3 /\ \A q \in Managers \ {p} : release'[q] = release[q]
  BY <1>1, <1>2 DEF TokensTypes
<1>4. TokensTypes' BY <1>1, <1>2, <1>3 DEF TokensTypes
<1>5. \A q \in Managers : release[q] \in 1 .. 4 /\ release[q] <= release[p] + 1 /\ release[p] <= release[q]
  BY <1>1, <1>2 DEF TokensInv, TokensTypes
<1>6. \A q, r \in Managers : release'[q] <= release'[r] + 1
  <2> SUFFICES ASSUME NEW q \in Managers, NEW r \in Managers PROVE release'[q] <= release'[r] + 1 OBVIOUS
  <2>1. release'[q] <= release[p] + 1 /\ release'[q] \in Int BY <1>3, <1>5
  <2>2. release'[r] >= release[p] /\ release'[r] \in Int BY <1>3, <1>5
  <2> QED BY <1>3, <2>1, <2>2
<1>7. ASSUME NEW t \in tokens PROVE Genuine(t)' /\ KeyKept(t)'
  <2>1. Genuine(t) /\ KeyKept(t) BY DEF TokensInv
  <2>2. Genuine(t)' BY <1>2, <2>1 DEF Genuine, IssuedAt
  <2>3. t.claims.kid = 2 => \A q \in Managers : release'[q] >= 2
    <3>1. \A q \in Managers : release'[q] >= release[q] BY <1>3, <1>5
    <3>2. \A q \in Managers : release'[q] \in Int BY <1>3, <1>5
    <3> QED BY <1>5, <2>1, <3>1, <3>2 DEF KeyKept
  <2>4. ASSUME t.claims.kid = 1, NEW r \in Managers, release'[r] = 4, NEW q \in Managers
        PROVE  Now(q)' >= t.claims.exp * Second + ClockSkew
    <3>1. Now(q)' = Now(q) BY <1>2 DEF Now
    <3>2. CASE release[r] = 4 BY <2>1, <2>4, <3>1, <3>2 DEF KeyKept
    <3>3. CASE release[r] # 4
      <4>1. r = p /\ release[p] = 3 BY <1>3, <2>4, <3>3
      <4> QED BY <1>2, <2>4, <3>1, <4>1
    <3> QED BY <3>2, <3>3
  <2>5. KeyKept(t)' BY <1>2, <2>3, <2>4 DEF KeyKept
  <2> QED BY <2>2, <2>5
<1> QED BY <1>2, <1>4, <1>6, <1>7 DEF TokensInv

LEMMA ClockTickKeeps == ASSUME TokensInv, ClockTick PROVE TokensInv'
<1>1. time' = time + 1 /\ UNCHANGED <<offset, maxTTL, release, tokens>> BY DEF ClockTick
<1>2. TokensTypes /\ TokensTypes' BY <1>1 DEF TokensInv, TokensTypes
<1>3. ASSUME NEW t \in tokens PROVE Genuine(t)' /\ KeyKept(t)'
  <2>1. Genuine(t) /\ KeyKept(t) BY DEF TokensInv
  <2>2. Genuine(t)' BY <1>1, <1>2, <2>1 DEF Genuine, IssuedAt, TokensTypes
  <2>3. \A q \in Managers : Now(q)' = Now(q) + 1 /\ Now(q) \in Int BY <1>1, <1>2 DEF Now, TokensTypes
  <2>4. t.claims.exp * Second + ClockSkew \in Int
    <3>1. IssuedAt(t) + t.ttl \in Int BY <1>2, <2>1 DEF Genuine, IssuedAt, TokensTypes
    <3>2. t.claims.exp \in Int BY <2>1, <3>1, WholeSeconds DEF Genuine
    <3> QED BY <3>2, TokensAssumption DEF Second
  <2>5. KeyKept(t)' BY <1>1, <2>1, <2>3, <2>4 DEF KeyKept
  <2> QED BY <2>2, <2>5
<1> QED BY <1>1, <1>2, <1>3 DEF TokensInv

LEMMA TokensStep == ASSUME TokensInv, [TokensNext]_tokenVars PROVE TokensInv'
<1>1. CASE UNCHANGED tokenVars BY <1>1 DEF TokensInv, TokensTypes, Genuine, KeyKept, IssuedAt, Now, tokenVars
<1>2. ASSUME NEW p \in Managers, NEW ttl \in 1 .. MaxTime, IssueUser(p, ttl) PROVE TokensInv'
  BY <1>2, IssueKeeps DEF IssueUser
<1>3. ASSUME NEW ttl \in 1 .. MaxTime, OldToken(ttl) PROVE TokensInv'
  BY <1>3, IssueKeeps DEF OldToken
<1>4. CASE TokensNext BY <1>2, <1>3, <1>4, ClockTickKeeps, UpgradeKeeps DEF TokensNext
<1> QED BY <1>1, <1>4

\* What a process makes of a token depends on the clock that it was issued at.
LEMMA Honoured ==
    ASSUME TokensInv, NEW p \in Managers, NEW t \in tokens
    PROVE  LET age == time - t.at + (offset[p] - offset[t.by])
           IN  /\ Accepted(p, t) => age < t.ttl + ClockSkew
               /\ /\ t.format = "jwt" /\ -(offset[p] - offset[t.by]) <= ClockSkew
                  /\ t.ttl % Second = 0 \/ maxTTL % Second = 0
                  /\ age + 1 < t.ttl + ClockSkew
                  => Accepted(p, t)
               /\ t.format = "legacy" /\ Accepted(p, t) => Now(p) < AcceptUntil /\ age < t.ttl
<1> DEFINE x == IssuedAt(t)
           reading == Now(p)
           iat == t.claims.iat
           exp == t.claims.exp
           ttl == t.ttl
<1>1. TokensTypes /\ Genuine(t) /\ KeyKept(t) BY DEF TokensInv
<1>2. x \in Int /\ reading \in Int /\ ttl \in Int /\ x + ttl \in Int /\ maxTTL \in Int /\ ClockSkew \in Nat
  BY <1>1, TokensAssumption DEF TokensTypes, Genuine, IssuedAt, Now
<1>3. time - t.at + (offset[p] - offset[t.by]) = reading - x BY <1>1 DEF TokensTypes, Genuine, IssuedAt, Now
<1>4. iat = Unix(x) /\ t.claims.nbf = iat /\ exp = Unix(x + ttl) BY <1>1 DEF Genuine
<1>5. iat \in Int /\ iat * 2 <= x /\ x <= iat * 2 + 1 BY <1>2, <1>4, WholeSeconds DEF Second
<1>6. exp \in Int /\ exp * 2 <= x + ttl /\ x + ttl <= exp * 2 + 1 BY <1>2, <1>4, WholeSeconds DEF Second
<1>7. t.format = "jwt" => ttl >= 2 /\ ttl <= maxTTL BY <1>1 DEF Genuine, Second
<1>8. offset[p] - offset[t.by] <= reading - x /\ offset[p] - offset[t.by] \in Int BY <1>1, <1>3 DEF TokensTypes, Genuine
<1>9. t.claims.kid \in {1, 2} /\ release[p] \in 1 .. 4 BY <1>1 DEF Genuine, TokensTypes
<1>10. /\ t.claims.kid = 2 => release[p] >= 2
       /\ t.claims.kid = 1 /\ release[p] = 4 => reading >= exp * 2 + ClockSkew
  BY <1>1 DEF KeyKept, Second
<1>11. Accepted(p, t) => reading < exp * 2 + ClockSkew /\ (t.format = "legacy" => reading < AcceptUntil /\ reading < exp * 2)
  BY <1>2, <1>6 DEF Accepted, VerifyJWT, VerifyLegacy, ValidClaims, Second
<1>12. ASSUME t.format = "jwt", -(offset[p] - offset[t.by]) <= ClockSkew, ttl % Second = 0 \/ maxTTL % Second = 0,
              reading - x + 1 < ttl + ClockSkew
       PROVE  Accepted(p, t)
  <2>1. exp - iat <= Unix(maxTTL) BY <1>2, <1>4, <1>7, <1>12, WholeLifetimes
  <2>2. reading < exp * 2 + ClockSkew BY <1>2, <1>6, <1>12
  <2>3. iat * 2 <= reading + ClockSkew BY <1>2, <1>5, <1>8, <1>12
  <2>4. exp - iat > 0 BY <1>2, <1>5, <1>6, <1>7, <1>12
  <2>5. iat >= iat /\ reading + ClockSkew >= iat * 2 BY <1>2, <1>5, <2>3
  <2>6. t.claims.kid \in SigningKeys[release[p]]
    <3>1. t.claims.kid = 1 => release[p] <= 3
      <4>1. ~(reading >= exp * 2 + ClockSkew) BY <1>2, <1>6, <2>2
      <4> QED BY <1>9, <1>10, <4>1
    <3> QED BY <1>9, <1>10, <3>1, SignedWith
  <2>7. ValidClaims(p, t.claims) BY <1>4, <2>1, <2>2, <2>3, <2>4, <2>5 DEF ValidClaims, Second
  <2> QED BY <1>12, <2>6, <2>7 DEF Accepted, VerifyJWT
<1> HIDE DEF x, reading, iat, exp
<1>13. Accepted(p, t) => reading - x < ttl + ClockSkew /\ (t.format = "legacy" => reading < AcceptUntil /\ reading - x < ttl)
  BY <1>2, <1>6, <1>11
<1> QED BY <1>3, <1>12, <1>13 DEF reading

\* For any clocks, lifetimes and skew: a process accepts the tokens of every
\* process, throughout the replacement of a key, as long as their lifetime says
\* by its own clock, and never longer (auth/token.go:170-490).
THEOREM TokensAreHonoured == TokensSpec => []TokensHonoured
<1>1. TokensInit => TokensInv BY TokensInitially
<1>2. TokensInv /\ [TokensNext]_tokenVars => TokensInv' BY TokensStep
<1>3. TokensInv => TokensHonoured BY Honoured DEF TokensHonoured
<1> QED BY <1>1, <1>2, <1>3, PTL DEF TokensSpec

-----------------------------------------------------------------------------
(* Sessions: whose they are, and until when.                               *)

SessionsSpec == SessionsInit /\ [][SessionsNext]_sessionVars

SessionRecords == [user : Users, expiresAt : Int]

VisitStates ==
    {"idle", "creating", "inserting", "revoking", "reading", "checking", "authenticated", "refused", "ended"}

VisitRecords ==
    [at : VisitStates, user : Users \cup {Anonymous}, cookie : SessionIDs \cup {Anonymous}, dead : BOOLEAN,
     bearer : Users \cup {Anonymous}, chain : Guards \cup {"none"}, found : SessionRecords \cup {Anonymous},
     identity : Users \cup {Anonymous}]

SessionsTypes ==
    /\ now \in Int
    /\ store \in [SessionIDs -> SessionRecords \cup {Anonymous}]
    /\ revoked \subseteq SessionIDs
    /\ jar \in [Users -> SessionIDs \cup {Anonymous}]
    /\ visit \in [Visits -> VisitRecords]

\* What is behind a cookie, if anything, is of the user that has it.
OwnedBy(i, user) == i # Anonymous /\ store[i] # Anonymous => store[i].user = user

\* A request that came after the end of its session never finds it alive.
Faithful(r) ==
    /\ visit[r].at # "idle" => visit[r].user \in Users
    /\ OwnedBy(visit[r].cookie, visit[r].user)
    /\ visit[r].found # Anonymous => visit[r].found.user = visit[r].user
    /\ visit[r].dead =>
          /\ visit[r].cookie # Anonymous => ~Live(store[visit[r].cookie])
          /\ ~Live(visit[r].found)
    /\ visit[r].at = "authenticated" =>
          visit[r].identity \in {visit[r].bearer, Anonymous} \cup (IF visit[r].dead THEN {} ELSE {visit[r].user})

SessionsStored == {i \in SessionIDs : store[i] # Anonymous}

SessionsInv ==
    /\ SessionsTypes
    /\ Cardinality(SessionsStored) <= MaxSessions
    /\ \A i \in revoked : store[i] = Anonymous
    /\ \A u \in Users : OwnedBy(jar[u], u)
    /\ \A r \in Visits : Faithful(r)

LEMMA SessionsInitially == ASSUME SessionsInit PROVE SessionsInv
<1> USE SessionsAssumption
<1>1. PICK logged \in {<<>>} \cup (SessionIDs \X Users) :
          /\ store = [i \in SessionIDs |->
                IF logged # <<>> /\ i = logged[1] THEN [user |-> logged[2], expiresAt |-> 1 + TTL] ELSE Anonymous]
          /\ jar = [u \in Users |-> IF logged # <<>> /\ u = logged[2] THEN logged[1] ELSE Anonymous]
  BY DEF SessionsInit
<1>2. now = 1 /\ revoked = {} /\ visit = [r \in Visits |-> Idle] BY DEF SessionsInit
<1>3. CASE logged = <<>>
  <2>1. store = [i \in SessionIDs |-> Anonymous] /\ jar = [u \in Users |-> Anonymous] BY <1>1, <1>3
  <2>2. SessionsTypes BY <1>2, <2>1 DEF SessionsTypes, VisitRecords, VisitStates, Idle
  <2>3. SessionsStored = {} BY <2>1 DEF SessionsStored
  <2>4. Cardinality(SessionsStored) <= MaxSessions BY <2>3, FS_EmptySet
  <2>5. \A u \in Users : OwnedBy(jar[u], u) BY <2>1 DEF OwnedBy
  <2>6. \A r \in Visits : Faithful(r) BY <1>2 DEF Faithful, OwnedBy, Idle, Live
  <2> QED BY <1>2, <2>2, <2>4, <2>5, <2>6 DEF SessionsInv
<1>4. CASE logged # <<>>
  <2>1. logged \in SessionIDs \X Users BY <1>4
  <2>2. PICK i \in SessionIDs, u \in Users : logged = <<i, u>> BY <2>1
  <2>3. /\ store = [j \in SessionIDs |-> IF j = i THEN [user |-> u, expiresAt |-> 1 + TTL] ELSE Anonymous]
        /\ jar = [w \in Users |-> IF w = u THEN i ELSE Anonymous]
    BY <1>1, <1>4, <2>2
  <2>4. SessionsTypes
    <3>1. [user |-> u, expiresAt |-> 1 + TTL] \in SessionRecords BY DEF SessionRecords
    <3> QED BY <1>2, <2>3, <3>1 DEF SessionsTypes, VisitRecords, VisitStates, Idle
  <2>5. Cardinality(SessionsStored) <= MaxSessions
    <3>1. SessionsStored \subseteq {i} BY <2>3 DEF SessionsStored
    <3>2. Cardinality({i}) = 1 /\ IsFiniteSet({i}) BY FS_Singleton
    <3>3. Cardinality(SessionsStored) <= 1 /\ Cardinality(SessionsStored) \in Nat BY <3>1, <3>2, FS_Subset, FS_CardinalityType
    <3> QED BY <3>3
  <2>6. \A w \in Users : OwnedBy(jar[w], w) BY <2>3 DEF OwnedBy
  <2>7. \A r \in Visits : Faithful(r) BY <1>2 DEF Faithful, OwnedBy, Idle, Live
  <2> QED BY <1>2, <2>4, <2>5, <2>6, <2>7 DEF SessionsInv
<1> QED BY <1>3, <1>4

\* A session that goes, or time that passes, takes nothing from a visit.
LEMMA FaithfulKept ==
    ASSUME SessionsTypes, SessionsTypes', NEW r \in Visits, Faithful(r), now' >= now,
           visit'[r] = visit[r] \/ (\E to \in VisitStates \ {"idle", "authenticated"} :
                                       visit[r].at # "idle" /\ visit'[r] = [visit[r] EXCEPT !.at = to]),
           visit[r].cookie # Anonymous => store'[visit[r].cookie] \in {store[visit[r].cookie], Anonymous}
    PROVE  Faithful(r)'
<1>1. visit[r] \in VisitRecords BY DEF SessionsTypes
<1>2. /\ visit'[r].user = visit[r].user /\ visit'[r].cookie = visit[r].cookie /\ visit'[r].dead = visit[r].dead
      /\ visit'[r].bearer = visit[r].bearer /\ visit'[r].found = visit[r].found /\ visit'[r].identity = visit[r].identity
  BY <1>1 DEF VisitRecords
<1>3. (visit'[r].at # "idle" => visit[r].at # "idle") /\ (visit'[r].at = "authenticated" => visit[r].at = "authenticated")
  BY <1>1 DEF VisitRecords
<1>4. OwnedBy(visit[r].cookie, visit[r].user)' BY <1>2 DEF Faithful, OwnedBy
<1>5. ASSUME NEW entry \in SessionRecords \cup {Anonymous}, ~Live(entry) PROVE ~Live(entry)'
  <2>1. CASE entry = Anonymous BY <2>1 DEF Live
  <2>2. CASE entry # Anonymous
    <3>1. entry.expiresAt \in Int BY <2>2 DEF SessionRecords
    <3>2. now \in Int /\ now' \in Int BY DEF SessionsTypes
    <3> QED BY <1>5, <2>2, <3>1, <3>2 DEF Live
  <2> QED BY <2>1, <2>2
<1>6. visit[r].dead => ~Live(visit[r].found)' BY <1>1, <1>5 DEF Faithful, VisitRecords
<1>7. ASSUME visit[r].dead, visit[r].cookie # Anonymous PROVE ~Live(store[visit[r].cookie])'
  <2>1. visit[r].cookie \in SessionIDs BY <1>1, <1>7 DEF VisitRecords
  <2>2. store[visit[r].cookie] \in SessionRecords \cup {Anonymous} /\ ~Live(store[visit[r].cookie])
    BY <1>7, <2>1 DEF Faithful, SessionsTypes
  <2>3. CASE store'[visit[r].cookie] = Anonymous BY <1>2, <2>3 DEF Live
  <2>4. CASE store'[visit[r].cookie] = store[visit[r].cookie] BY <1>2, <1>5, <2>2, <2>4
  <2> QED BY <1>7, <2>3, <2>4
<1> QED BY <1>2, <1>3, <1>4, <1>6, <1>7 DEF Faithful

\* Sessions that only go keep every promise but that of the visits.
LEMMA SessionsGo ==
    ASSUME SessionsInv, SessionsTypes', jar' = jar, now' >= now,
           \A i \in SessionIDs : store'[i] \in {store[i], Anonymous},
           \A i \in revoked' \ revoked : store'[i] = Anonymous,
           \A r \in Visits : Faithful(r)'
    PROVE  SessionsInv'
<1>1. SessionsStored' \subseteq SessionsStored BY DEF SessionsStored
<1>2. SessionsStored \subseteq SessionIDs BY DEF SessionsStored
<1>3. IsFiniteSet(SessionsStored) BY <1>2, FS_Subset, SessionsAssumption
<1>4. Cardinality(SessionsStored') <= Cardinality(SessionsStored) /\ IsFiniteSet(SessionsStored') BY <1>1, <1>3, FS_Subset
<1>5. Cardinality(SessionsStored') \in Nat /\ Cardinality(SessionsStored) \in Nat BY <1>3, <1>4, FS_CardinalityType
<1>6. Cardinality(SessionsStored') <= MaxSessions BY <1>4, <1>5, SessionsAssumption DEF SessionsInv
<1>7. \A i \in revoked' : store'[i] = Anonymous BY DEF SessionsInv, SessionsTypes
<1>8. \A u \in Users : OwnedBy(jar[u], u)' BY DEF SessionsInv, SessionsTypes, OwnedBy
<1> QED BY <1>6, <1>7, <1>8 DEF SessionsInv

LEMMA TimeKeepsSessions == ASSUME SessionsInv, TimePasses PROVE SessionsInv'
<1>1. now' = now + 1 /\ UNCHANGED <<store, revoked, jar, visit>> BY DEF TimePasses
<1>2. SessionsTypes /\ SessionsTypes' BY <1>1 DEF SessionsInv, SessionsTypes
<1>3. now' >= now BY <1>1, <1>2 DEF SessionsTypes
<1>4. \A r \in Visits : Faithful(r)' BY <1>1, <1>2, <1>3, FaithfulKept DEF SessionsInv
<1> QED BY <1>1, <1>2, <1>3, <1>4, SessionsGo

LEMMA ArriveKeeps ==
    ASSUME SessionsInv, NEW r \in Visits, NEW to \in {"creating", "revoking", "reading"},
           NEW user \in Users, NEW bearer \in Users \cup {Anonymous}, NEW guards \in Guards \cup {"none"},
           Arrive(r, to, user, bearer, guards)
    PROVE  SessionsInv'
<1> DEFINE came == [Idle EXCEPT !.at = to, !.user = user, !.cookie = jar[user], !.bearer = bearer, !.chain = guards,
                        !.dead = jar[user] = Anonymous \/ jar[user] \in revoked \/ ~Live(store[jar[user]])]
<1>1. visit' = [visit EXCEPT ![r] = came] /\ UNCHANGED <<now, store, revoked, jar>> BY DEF Arrive
<1>2. SessionsTypes /\ jar[user] \in SessionIDs \cup {Anonymous} BY DEF SessionsInv, SessionsTypes
<1>3. /\ came.at = to /\ came.user = user /\ came.cookie = jar[user] /\ came.bearer = bearer /\ came.chain = guards
      /\ came.dead = (jar[user] = Anonymous \/ jar[user] \in revoked \/ ~Live(store[jar[user]]))
      /\ came.found = Anonymous /\ came.identity = Anonymous
  BY DEF Idle
<1>4. came \in VisitRecords BY <1>2 DEF VisitRecords, VisitStates, Idle
<1> HIDE DEF came
<1>5. SessionsTypes' BY <1>1, <1>2, <1>4 DEF SessionsTypes
<1>6. visit'[r] = came /\ \A q \in Visits \ {r} : visit'[q] = visit[q] BY <1>1, <1>2 DEF SessionsTypes
<1>7. now' >= now BY <1>1, <1>2 DEF SessionsTypes
<1>8. ASSUME NEW q \in Visits \ {r} PROVE Faithful(q)' BY <1>1, <1>2, <1>5, <1>6, <1>7, FaithfulKept DEF SessionsInv
<1>9. Faithful(r)'
  <2>1. OwnedBy(jar[user], user) BY DEF SessionsInv
  <2>2. OwnedBy(visit[r].cookie, visit[r].user)' BY <1>1, <1>3, <1>6, <2>1 DEF OwnedBy
  <2>3. ~Live(visit[r].found)' BY <1>3, <1>6 DEF Live
  <2>4. ASSUME came.dead, came.cookie # Anonymous PROVE ~Live(store[visit[r].cookie])'
    <3>1. CASE jar[user] \in revoked BY <1>1, <1>3, <1>6, <3>1 DEF SessionsInv, Live
    <3>2. CASE ~Live(store[jar[user]]) BY <1>1, <1>3, <1>6, <3>2 DEF Live
    <3> QED BY <1>3, <2>4, <3>1, <3>2
  <2>5. visit'[r].user \in Users /\ visit'[r].at # "authenticated" /\ visit'[r].found = Anonymous BY <1>3, <1>6
  <2> QED BY <1>6, <2>2, <2>3, <2>4, <2>5 DEF Faithful
<1> QED BY <1>1, <1>5, <1>7, <1>8, <1>9, SessionsGo

\* The steps that revoke the cookie of a visit.
LEMMA RevokeKeeps ==
    ASSUME SessionsInv, NEW r \in Visits, NEW to \in {"inserting", "ended"},
           visit[r].at \in {"creating", "revoking"}, store' = Rotated(r),
           revoked' = revoked \cup ({visit[r].cookie} \ {Anonymous}), Reaches(r, to), UNCHANGED <<now, jar>>
    PROVE  SessionsInv'
<1>1. SessionsTypes /\ visit[r] \in VisitRecords BY DEF SessionsInv, SessionsTypes
<1>2. visit[r].cookie \in SessionIDs \cup {Anonymous} BY <1>1 DEF VisitRecords
<1>3. visit' = [visit EXCEPT ![r] = [visit[r] EXCEPT !.at = to]] BY DEF Reaches
<1>4. [visit[r] EXCEPT !.at = to] \in VisitRecords BY <1>1 DEF VisitRecords, VisitStates
<1>5. /\ store' \in [SessionIDs -> SessionRecords \cup {Anonymous}]
      /\ \A i \in SessionIDs : store'[i] \in {store[i], Anonymous}
      /\ visit[r].cookie # Anonymous => store'[visit[r].cookie] = Anonymous
  <2>1. CASE visit[r].cookie = Anonymous BY <1>1, <2>1 DEF Rotated, SessionsTypes
  <2>2. CASE visit[r].cookie # Anonymous
    <3>1. store' = [store EXCEPT ![visit[r].cookie] = Anonymous] BY <2>2 DEF Rotated
    <3> QED BY <1>1, <1>2, <2>2, <3>1 DEF SessionsTypes
  <2> QED BY <2>1, <2>2
<1>6. SessionsTypes' BY <1>1, <1>2, <1>3, <1>4, <1>5 DEF SessionsTypes
<1>7. visit'[r] = [visit[r] EXCEPT !.at = to] /\ \A q \in Visits \ {r} : visit'[q] = visit[q]
  BY <1>1, <1>3 DEF SessionsTypes
<1>8. now' >= now BY <1>1 DEF SessionsTypes
<1>9. ASSUME NEW q \in Visits PROVE Faithful(q)'
  <2>1. visit[q] \in VisitRecords BY <1>1 DEF SessionsTypes
  <2>2. visit[q].cookie \in SessionIDs \cup {Anonymous} BY <2>1 DEF VisitRecords
  <2>3. visit[q].cookie # Anonymous => store'[visit[q].cookie] \in {store[visit[q].cookie], Anonymous} BY <1>5, <2>2
  <2>4. to \in VisitStates \ {"idle", "authenticated"} /\ visit[r].at # "idle" BY DEF VisitStates
  <2> QED BY <1>1, <1>6, <1>7, <1>8, <2>3, <2>4, FaithfulKept DEF SessionsInv
<1>10. \A i \in revoked' \ revoked : store'[i] = Anonymous BY <1>2, <1>5
<1> QED BY <1>5, <1>6, <1>8, <1>9, <1>10, SessionsGo

LEMMA NoRoomKeeps == ASSUME SessionsInv, NEW r \in Visits, NoRoom(r) PROVE SessionsInv'
<1>1. /\ visit[r].at = "inserting" /\ store' = Purged /\ visit' = [visit EXCEPT ![r] = [visit[r] EXCEPT !.at = "ended"]]
      /\ UNCHANGED <<now, revoked, jar>>
  BY DEF NoRoom, Reaches
<1>2. SessionsTypes /\ visit[r] \in VisitRecords BY DEF SessionsInv, SessionsTypes
<1>3. [visit[r] EXCEPT !.at = "ended"] \in VisitRecords BY <1>2 DEF VisitRecords, VisitStates
<1>4. \A i \in SessionIDs : store'[i] \in {store[i], Anonymous} BY <1>1 DEF Purged
<1>5. store' \in [SessionIDs -> SessionRecords \cup {Anonymous}] BY <1>1, <1>2 DEF Purged, SessionsTypes
<1>6. SessionsTypes' BY <1>1, <1>2, <1>3, <1>5 DEF SessionsTypes
<1>7. visit'[r] = [visit[r] EXCEPT !.at = "ended"] /\ \A q \in Visits \ {r} : visit'[q] = visit[q]
  BY <1>1, <1>2 DEF SessionsTypes
<1>8. now' >= now BY <1>1, <1>2 DEF SessionsTypes
<1>9. ASSUME NEW q \in Visits PROVE Faithful(q)'
  <2>1. visit[q] \in VisitRecords BY <1>2 DEF SessionsTypes
  <2>2. visit[q].cookie # Anonymous => store'[visit[q].cookie] \in {store[visit[q].cookie], Anonymous}
    BY <1>4, <2>1 DEF VisitRecords
  <2>3. "ended" \in VisitStates \ {"idle", "authenticated"} /\ visit[r].at # "idle" BY <1>1 DEF VisitStates
  <2> QED BY <1>2, <1>6, <1>7, <1>8, <2>2, <2>3, FaithfulKept DEF SessionsInv
<1> QED BY <1>1, <1>4, <1>6, <1>8, <1>9, SessionsGo

\* A new session is under an identifier that nothing else refers to.
LEMMA InsertKeeps ==
    ASSUME SessionsInv, NEW r \in Visits, NEW i \in SessionIDs, Insert(r, i)
    PROVE  SessionsInv'
<1> DEFINE user == visit[r].user
           entry == [user |-> user, expiresAt |-> now + TTL]
<1>1. SessionsTypes /\ visit[r] \in VisitRecords BY DEF SessionsInv, SessionsTypes
<1>2. /\ visit[r].at = "inserting" /\ Room /\ store[i] = Anonymous /\ i \notin revoked
      /\ (\A u \in Users : jar[u] # i) /\ \A q \in Visits : visit[q].cookie # i
      /\ store' = [Purged EXCEPT ![i] = entry]
      /\ jar' = [jar EXCEPT ![user] = i]
      /\ visit' = [visit EXCEPT ![r] = [visit[r] EXCEPT !.at = "ended"]]
      /\ UNCHANGED <<now, revoked>>
  BY DEF Insert, Reaches
<1>3. user \in Users BY <1>2 DEF SessionsInv, Faithful
<1>4. entry \in SessionRecords BY <1>1, <1>3, SessionsAssumption DEF SessionRecords, SessionsTypes
<1>5. entry.user = user OBVIOUS
<1> HIDE DEF entry
<1>6. Purged \in [SessionIDs -> SessionRecords \cup {Anonymous}] /\ \A j \in SessionIDs : Purged[j] \in {store[j], Anonymous}
  BY <1>1 DEF Purged, SessionsTypes
<1>7. store' \in [SessionIDs -> SessionRecords \cup {Anonymous}] /\ store'[i] = entry BY <1>2, <1>4, <1>6
<1>8. \A j \in SessionIDs \ {i} : store'[j] = Purged[j] /\ store'[j] \in {store[j], Anonymous} BY <1>2, <1>6
<1>9. [visit[r] EXCEPT !.at = "ended"] \in VisitRecords BY <1>1 DEF VisitRecords, VisitStates
<1>10. jar' \in [Users -> SessionIDs \cup {Anonymous}] /\ jar'[user] = i /\ \A u \in Users \ {user} : jar'[u] = jar[u]
  BY <1>1, <1>2, <1>3 DEF SessionsTypes
<1>11. visit' \in [Visits -> VisitRecords] /\ visit'[r] = [visit[r] EXCEPT !.at = "ended"]
       /\ \A q \in Visits \ {r} : visit'[q] = visit[q]
  BY <1>1, <1>2, <1>9 DEF SessionsTypes
<1>12. SessionsTypes' BY <1>1, <1>2, <1>7, <1>10, <1>11 DEF SessionsTypes
<1>13. now' >= now BY <1>1, <1>2 DEF SessionsTypes
<1>14. ASSUME NEW q \in Visits PROVE Faithful(q)'
  <2>1. visit[q] \in VisitRecords BY <1>1 DEF SessionsTypes
  <2>2. visit[q].cookie # Anonymous => store'[visit[q].cookie] \in {store[visit[q].cookie], Anonymous}
    BY <1>2, <1>8, <2>1 DEF VisitRecords
  <2>3. "ended" \in VisitStates \ {"idle", "authenticated"} /\ visit[r].at # "idle" BY <1>2 DEF VisitStates
  <2> QED BY <1>1, <1>11, <1>12, <1>13, <2>2, <2>3, FaithfulKept DEF SessionsInv
<1>15. \A u \in Users : OwnedBy(jar[u], u)'
  <2> SUFFICES ASSUME NEW u \in Users PROVE OwnedBy(jar[u], u)' OBVIOUS
  <2>1. CASE u = user BY <1>5, <1>7, <1>10, <2>1 DEF OwnedBy
  <2>2. CASE u # user
    <3>1. jar'[u] = jar[u] /\ jar[u] # i /\ OwnedBy(jar[u], u) BY <1>2, <1>10, <2>2 DEF SessionsInv
    <3>2. jar[u] \in SessionIDs \cup {Anonymous} BY <1>1 DEF SessionsTypes
    <3> QED BY <1>8, <3>1, <3>2 DEF OwnedBy
  <2> QED BY <2>1, <2>2
<1>16. \A j \in revoked' : store'[j] = Anonymous BY <1>1, <1>2, <1>8 DEF SessionsInv, SessionsTypes
<1>17. Cardinality(SessionsStored') <= MaxSessions
  <2> DEFINE living == {j \in SessionIDs : Live(store[j])}
  <2>1. SessionsStored' \subseteq living \cup {i}
    <3> SUFFICES ASSUME NEW j \in SessionIDs \ {i}, store'[j] # Anonymous PROVE Live(store[j]) BY DEF SessionsStored
    <3>1. Purged[j] # Anonymous BY <1>8
    <3> QED BY <3>1 DEF Purged
  <2>2. IsFiniteSet(living) BY FS_Subset, SessionsAssumption
  <2>3. Cardinality(living) < MaxSessions BY <1>2 DEF Room
  <2>4. IsFiniteSet(living \cup {i}) /\ Cardinality(living \cup {i}) <= Cardinality(living) + 1
    <3>1. Cardinality(living) \in Nat BY <2>2, FS_CardinalityType
    <3> HIDE DEF living
    <3>2. /\ IsFiniteSet(living \cup {i})
          /\ Cardinality(living \cup {i}) = IF i \in living THEN Cardinality(living) ELSE Cardinality(living) + 1
      BY <2>2, FS_AddElement
    <3> QED BY <3>1, <3>2
  <2>5. Cardinality(SessionsStored') <= Cardinality(living \cup {i}) /\ IsFiniteSet(SessionsStored') BY <2>1, <2>4, FS_Subset
  <2>6. Cardinality(SessionsStored') \in Nat /\ Cardinality(living \cup {i}) \in Nat /\ Cardinality(living) \in Nat
    BY <2>2, <2>4, <2>5, FS_CardinalityType
  <2> HIDE DEF living
  <2> QED BY <2>3, <2>4, <2>5, <2>6, SessionsAssumption
<1> QED BY <1>12, <1>14, <1>15, <1>16, <1>17 DEF SessionsInv

LEMMA ReadRecordKeeps == ASSUME SessionsInv, NEW r \in Visits, ReadRecord(r) PROVE SessionsInv'
<1> DEFINE cookie == visit[r].cookie
           found == IF cookie = Anonymous THEN Anonymous ELSE store[cookie]
           read == [visit[r] EXCEPT !.at = "checking", !.found = found]
<1>1. SessionsTypes /\ visit[r] \in VisitRecords BY DEF SessionsInv, SessionsTypes
<1>2. visit[r].at = "reading" /\ visit' = [visit EXCEPT ![r] = read] /\ UNCHANGED <<now, store, revoked, jar>>
  BY DEF ReadRecord
<1>3. found \in SessionRecords \cup {Anonymous} BY <1>1 DEF VisitRecords, SessionsTypes
<1>4. read \in VisitRecords BY <1>1, <1>3 DEF VisitRecords, VisitStates
<1>5. /\ read.at = "checking" /\ read.user = visit[r].user /\ read.cookie = cookie /\ read.dead = visit[r].dead
      /\ read.found = found
  BY <1>1 DEF VisitRecords
<1> HIDE DEF read
<1>6. SessionsTypes' BY <1>1, <1>2, <1>4 DEF SessionsTypes
<1>7. visit'[r] = read /\ \A q \in Visits \ {r} : visit'[q] = visit[q] BY <1>1, <1>2 DEF SessionsTypes
<1>8. now' >= now BY <1>1, <1>2 DEF SessionsTypes
<1>9. ASSUME NEW q \in Visits \ {r} PROVE Faithful(q)' BY <1>1, <1>2, <1>6, <1>7, <1>8, FaithfulKept DEF SessionsInv
<1>10. Faithful(r)'
  <2>1. Faithful(r) BY DEF SessionsInv
  <2>2. visit[r].user \in Users /\ OwnedBy(cookie, visit[r].user) BY <1>2, <2>1 DEF Faithful
  <2>3. OwnedBy(visit[r].cookie, visit[r].user)' BY <1>2, <1>5, <1>7, <2>2 DEF OwnedBy
  <2>4. found # Anonymous => found.user = visit[r].user BY <2>2 DEF OwnedBy
  <2>5. ASSUME visit[r].dead PROVE (cookie # Anonymous => ~Live(store[cookie])) /\ ~Live(found)
    BY <2>1, <2>5 DEF Faithful, Live
  <2>6. visit'[r].dead => (visit'[r].cookie # Anonymous => ~Live(store[visit[r].cookie])') /\ ~Live(visit[r].found)'
    <3> HIDE DEF found, cookie
    <3> QED BY <1>2, <1>5, <1>7, <2>5 DEF Live
  <2> HIDE DEF found, cookie
  <2>7. visit'[r].at = "checking" /\ visit'[r].user \in Users /\ (visit'[r].found # Anonymous => visit'[r].found.user = visit'[r].user)
    BY <1>5, <1>7, <2>2, <2>4
  <2> QED BY <2>3, <2>6, <2>7 DEF Faithful
<1> QED BY <1>2, <1>6, <1>8, <1>9, <1>10, SessionsGo

\* Who is let in is found alive now, and so was when it came, or has a token.
LEMMA AuthenticateKeeps == ASSUME SessionsInv, NEW r \in Visits, Authenticate(r) PROVE SessionsInv'
<1> DEFINE found == visit[r].found
           session == IF Live(found) THEN found.user ELSE Anonymous
           stale == found # Anonymous /\ ~Live(found) /\ visit[r].chain # "OptionalAuthenticate"
           refuses == Identity(r, session) = Anonymous /\ visit[r].chain # "OptionalAuthenticate"
           who == Identity(r, session)
           installed == [[visit[r] EXCEPT !.identity = who] EXCEPT !.at = "authenticated"]
           refused == [visit[r] EXCEPT !.at = "refused"]
<1>1. SessionsTypes /\ visit[r] \in VisitRecords BY DEF SessionsInv, SessionsTypes
<1>2. /\ visit[r].at = "checking" /\ UNCHANGED <<now, revoked, jar>>
      /\ store' = IF stale THEN Rotated(r) ELSE store
      /\ IF refuses THEN Reaches(r, "refused") ELSE visit' = Installed(r, who)
  BY DEF Authenticate
<1>3. Faithful(r) /\ visit[r].user \in Users BY <1>2 DEF SessionsInv, Faithful
<1>4. session \in {Anonymous} \cup (IF visit[r].dead THEN {} ELSE {visit[r].user})
  BY <1>3 DEF Faithful, Live
<1>5. who \in {visit[r].bearer, Anonymous} \cup (IF visit[r].dead THEN {} ELSE {visit[r].user})
  <2> HIDE DEF session
  <2> QED BY <1>4 DEF Identity
<1> HIDE DEF who
<1>6. /\ store' \in [SessionIDs -> SessionRecords \cup {Anonymous}]
      /\ \A i \in SessionIDs : store'[i] \in {store[i], Anonymous}
  <2> HIDE DEF stale
  <2>1. visit[r].cookie \in SessionIDs \cup {Anonymous} BY <1>1 DEF VisitRecords
  <2>2. Rotated(r) \in [SessionIDs -> SessionRecords \cup {Anonymous}]
    BY <1>1, <2>1 DEF Rotated, SessionsTypes
  <2>3. \A i \in SessionIDs : Rotated(r)[i] \in {store[i], Anonymous} BY <1>1, <2>1 DEF Rotated, SessionsTypes
  <2> QED BY <1>1, <1>2, <2>2, <2>3 DEF SessionsTypes
<1>7. visit' = [visit EXCEPT ![r] = refused] \/ visit' = [visit EXCEPT ![r] = installed]
  BY <1>1, <1>2 DEF Reaches, Installed, SessionsTypes
<1>8. who \in Users \cup {Anonymous} BY <1>1, <1>3, <1>5 DEF VisitRecords
<1>9. refused \in VisitRecords /\ installed \in VisitRecords BY <1>1, <1>8 DEF VisitRecords, VisitStates
<1>10. /\ installed.at = "authenticated" /\ installed.identity = who /\ installed.user = visit[r].user
       /\ installed.bearer = visit[r].bearer /\ installed.cookie = visit[r].cookie /\ installed.found = found
       /\ installed.dead = visit[r].dead
  BY <1>1 DEF VisitRecords
<1>11. SessionsTypes' BY <1>1, <1>2, <1>6, <1>7, <1>9 DEF SessionsTypes
<1> HIDE DEF installed, session, stale, refuses
<1>12. now' >= now BY <1>1, <1>2 DEF SessionsTypes
<1>13. \A q \in Visits : visit[q].cookie # Anonymous => store'[visit[q].cookie] \in {store[visit[q].cookie], Anonymous}
  <2> SUFFICES ASSUME NEW q \in Visits, visit[q].cookie # Anonymous
               PROVE  store'[visit[q].cookie] \in {store[visit[q].cookie], Anonymous}
    OBVIOUS
  <2>1. visit[q] \in VisitRecords BY <1>1 DEF SessionsTypes
  <2> QED BY <1>6, <2>1 DEF VisitRecords
<1>14. ASSUME NEW q \in Visits \ {r} PROVE Faithful(q)'
  <2>1. visit'[q] = visit[q] BY <1>1, <1>7 DEF SessionsTypes
  <2> QED BY <1>1, <1>11, <1>12, <1>13, <2>1, FaithfulKept DEF SessionsInv
<1>15. CASE visit' = [visit EXCEPT ![r] = refused]
  <2>1. visit'[r] = [visit[r] EXCEPT !.at = "refused"] BY <1>1, <1>15 DEF SessionsTypes
  <2>2. "refused" \in VisitStates \ {"idle", "authenticated"} /\ visit[r].at # "idle" BY <1>2 DEF VisitStates
  <2>3. Faithful(r)' BY <1>1, <1>3, <1>11, <1>12, <1>13, <2>1, <2>2, FaithfulKept
  <2> QED BY <1>2, <1>6, <1>11, <1>12, <1>14, <2>3, SessionsGo
<1>16. CASE visit' = [visit EXCEPT ![r] = installed]
  <2>1. visit'[r] = installed BY <1>1, <1>16 DEF SessionsTypes
  <2>2. /\ OwnedBy(visit[r].cookie, visit[r].user)'
        /\ visit'[r].found # Anonymous => visit'[r].found.user = visit'[r].user
    <3>1. visit[r].cookie \in SessionIDs \cup {Anonymous} BY <1>1 DEF VisitRecords
    <3>2. visit[r].cookie # Anonymous => store'[visit[r].cookie] \in {store[visit[r].cookie], Anonymous} BY <1>13
    <3> QED BY <1>3, <1>10, <2>1, <3>1, <3>2 DEF OwnedBy, Faithful
  <2>3. ASSUME visit'[r].dead
        PROVE  (visit'[r].cookie # Anonymous => ~Live(store[visit[r].cookie])') /\ ~Live(visit[r].found)'
    <3>1. visit[r].dead BY <1>10, <2>1, <2>3
    <3>2. ~Live(found) BY <1>3, <3>1 DEF Faithful
    <3>3. visit[r].cookie # Anonymous => ~Live(store[visit[r].cookie]) BY <1>3, <3>1 DEF Faithful
    <3>4. visit[r].cookie # Anonymous => store'[visit[r].cookie] \in {store[visit[r].cookie], Anonymous} BY <1>13
    <3> QED BY <1>2, <1>10, <2>1, <3>2, <3>3, <3>4 DEF Live
  <2>4. Faithful(r)' BY <1>3, <1>5, <1>10, <2>1, <2>2, <2>3 DEF Faithful
  <2> QED BY <1>2, <1>6, <1>11, <1>12, <1>14, <2>4, SessionsGo
<1> QED BY <1>7, <1>15, <1>16

LEMMA SessionsStep == ASSUME SessionsInv, [SessionsNext]_sessionVars PROVE SessionsInv'
<1>1. CASE UNCHANGED sessionVars
  <2>1. now' = now /\ store' = store /\ revoked' = revoked /\ jar' = jar /\ visit' = visit BY <1>1 DEF sessionVars
  <2>2. SessionsTypes' BY <2>1 DEF SessionsInv, SessionsTypes
  <2>3. \A r \in Visits : Faithful(r)' BY <2>1 DEF SessionsInv, Faithful, OwnedBy, Live
  <2>4. now' >= now BY <2>1 DEF SessionsInv, SessionsTypes
  <2> QED BY <2>1, <2>2, <2>3, <2>4, SessionsGo
<1>2. ASSUME NEW r \in Visits, NEW user \in Users,
             \/ Login(r, user) \/ Logout(r, user)
             \/ \E bearer \in Users \cup {Anonymous}, guards \in Guards : Page(r, user, bearer, guards)
      PROVE  SessionsInv'
  BY <1>2, ArriveKeeps DEF Login, Logout, Page
<1>3. ASSUME NEW r \in Visits, RevokePresented(r) \/ RevokeSession(r) PROVE SessionsInv'
  BY <1>3, RevokeKeeps DEF RevokePresented, RevokeSession
<1> QED BY <1>1, <1>2, <1>3, TimeKeepsSessions, NoRoomKeeps, InsertKeeps, ReadRecordKeeps, AuthenticateKeeps DEF SessionsNext

\* For any users, identifiers and limits: there are never more sessions than
\* MaxSessions, none that a logout, a login or its lifetime ended is used, and a
\* request is nobody but the user of its cookie or of its token, whatever runs
\* beside it (auth/session.go:98-260, auth/identity.go, auth/token.go).
THEOREM SessionsAreSound == SessionsSpec => []SessionsSound
<1>1. SessionsInit => SessionsInv BY SessionsInitially
<1>2. SessionsInv /\ [SessionsNext]_sessionVars => SessionsInv' BY SessionsStep
<1>3. SessionsInv => SessionsSound BY DEF SessionsInv, SessionsSound, Faithful, SessionsStored
<1> QED BY <1>1, <1>2, <1>3, PTL DEF SessionsSpec

-----------------------------------------------------------------------------
(* Requests: whose body a response is, and what a failure is answered with. *)
(* The inductive invariant, in named parts.                                *)

Places == {"idle", "down", "up", "waiting", "following", "stuck", "end"}

Errs == {"none", "error", "panic", "timeout", "canceled"}

Types ==
    /\ chain \in Chains
    /\ pc \in [Reqs -> [Roles -> [at : Places, i : Int, err : Errs \cup Reqs]]]
    /\ aborted \in [Reqs -> [Roles -> BOOLEAN]]
    /\ wire \in [Reqs -> Responses \cup {None}]
    /\ buffer \in [Reqs -> Responses \cup {None}]
    /\ flight \in [Keys -> Reqs \cup {None}]
    /\ call \in [Reqs -> {"none", "open", "shareable", "closed"}]
    /\ outcome \in [Reqs -> AllOutcomes \cup {"none"}]
    /\ expired \subseteq Reqs

Thread(r, role) == pc[r][role]

\* A thread is at a position of the chain, and follows a request of its key.
Placed(r, role) ==
    /\ Thread(r, role).at \in {"down", "following", "waiting"} => Thread(r, role).i \in 1..Len(chain)
    /\ Thread(r, role).at = "up" => Thread(r, role).i \in 0..(Len(chain) - 1) /\ Thread(r, role).err \in Errs
    /\ Thread(r, role).at = "following" =>
         /\ Here(r, role) = "Singleflight"
         /\ Thread(r, role).err \in Reqs /\ KeyOf[Thread(r, role).err] = KeyOf[r]

\* The child stays below the Timeout that started it.
Below(r) ==
    Thread(r, "child").at \in {"down", "following", "up"} =>
        \E t \in DOMAIN chain :
            /\ chain[t] = "Timeout"
            /\ t <= Thread(r, "child").i
            /\ Thread(r, "child").at = "down" => t < Thread(r, "child").i

\* The child runs while main waits for it, or after the deadline.
Paired(r) ==
    /\ Thread(r, "child").at # "idle" => Thread(r, "main").at \in {"waiting", "up", "end"}
    /\ Thread(r, "child").at \notin {"idle", "end"} => Thread(r, "main").at = "waiting" \/ r \in expired
    /\ Thread(r, "child").at # "waiting"

\* The handler runs once, where both threads go no further down.
Once(r) ==
    outcome[r] # "none" => /\ Thread(r, "main").at \notin {"idle", "down", "following"}
                           /\ Thread(r, "child").at \notin {"down", "following"}

\* Nothing is written on the way down.
Untouched(r) ==
    /\ Thread(r, "main").at \in {"idle", "down", "following", "waiting"} => wire[r] = None /\ ~aborted[r]["main"]
    /\ Thread(r, "child").at \in {"idle", "down", "following"} => buffer[r] = None /\ ~aborted[r]["child"]
    /\ Thread(r, "main").at = "end" => wire[r] # None

\* A leader is below its Singleflight, or on its way up, and never follows.
Leading(r, role) ==
    call[r] # "none" =>
        /\ Thread(r, "main").at # "idle" /\ Thread(r, role).at # "following"
        /\ Thread(r, role).at = "down" => \A s \in DOMAIN chain : chain[s] = "Singleflight" => s < Thread(r, role).i

\* A chain that returns no error ran its handler, or replays another's response.
Returning(r, role) ==
    Thread(r, role).at = "up" /\ Thread(r, role).err = "none" =>
        /\ \/ outcome[r] \in {"ok", "private"}
           \/ outcome[r] = "refused" /\ Written(r, role) = Response("refused", r)
           \/ call[r] # "open"
        /\ role = "main" => Thread(r, "child").at \in {"idle", "end"}

Sharing(r) == call[r] = "shareable" => outcome[r] = "ok"

\* After the deadline main takes the timeout up and answers it.
Late(r) ==
    r \in expired =>
        /\ Thread(r, "main").at \in {"up", "end"} /\ ~aborted[r]["main"]
        /\ Thread(r, "main").at = "up" => Thread(r, "main").err = "timeout" /\ wire[r] = None
        /\ Thread(r, "main").at = "end" => wire[r] = Response("timeout", r)

\* Where Recovery answers into a buffer that RunWithTimeout drops.
Excused == \E i, j \in DOMAIN chain : i < j /\ chain[i] = "Timeout" /\ chain[j] = "Recovery"

Failed(r) == outcome[r] = "error" \/ (outcome[r] = "panic" /\ ~Excused)

\* The error of a failed handler goes up, and nothing was answered before it.
FailedMain(r) ==
    /\ Thread(r, "main").at = "up" => Thread(r, "main").err # "none"
    /\ outcome[r] = "error" => ~aborted[r]["main"] /\ (Thread(r, "main").at = "up" => Thread(r, "main").err # "panic")
    /\ aborted[r]["main"] => wire[r] # None
    /\ wire[r] # None => wire[r].status # "ok"
FailedChild(r) ==
    /\ Thread(r, "child").at = "up" => Thread(r, "child").err # "none"
    /\ outcome[r] = "error" /\ Thread(r, "child").at = "up" => Thread(r, "child").err # "panic"
    /\ ~aborted[r]["child"]
Failing(r) == Failed(r) => FailedMain(r) /\ FailedChild(r)

Local(r) ==
    /\ Placed(r, "main") /\ Placed(r, "child")
    /\ Below(r)
    /\ Paired(r)
    /\ Once(r)
    /\ Untouched(r)
    /\ Leading(r, "main") /\ Leading(r, "child")
    /\ Returning(r, "main") /\ Returning(r, "child")
    /\ Sharing(r)
    /\ Late(r)
    /\ Failing(r)

\* A response is the request's own, or that of a leader that shares it.
OwnKey(r, response) ==
    \/ response = None
    \/ response.by \in {r, None}
    \/ /\ response.by \in Reqs /\ KeyOf[response.by] = KeyOf[r]
       /\ response.status = "ok" /\ call[response.by] = "shareable"

Answered == \A r \in Reqs : OwnKey(r, wire[r]) /\ OwnKey(r, buffer[r])

FlightsOfKey == \A k \in Keys : flight[k] # None => KeyOf[flight[k]] = k

RequestsInvariant ==
    /\ Types
    /\ \A r \in Reqs : Local(r)
    /\ FlightsOfKey /\ OneFlight
    /\ Answered

-----------------------------------------------------------------------------
(* Requests: moves and writes.                                             *)

LEMMA GotoFacts ==
    ASSUME Types, NEW r \in Reqs, NEW role \in Roles, NEW where, NEW i, NEW err,
           Goto(r, role, where, i, err)
    PROVE  /\ Thread(r, role)'.at = where /\ Thread(r, role)'.i = i /\ Thread(r, role)'.err = err
           /\ \A other \in Roles \ {role} : Thread(r, other)' = Thread(r, other)
           /\ \A s \in Reqs \ {r} : pc'[s] = pc[s]
           /\ where \in Places /\ i \in Int /\ err \in Errs \cup Reqs =>
                pc' \in [Reqs -> [Roles -> [at : Places, i : Int, err : Errs \cup Reqs]]]
BY DEF Goto, At, Types, Thread

LEMMA ThreadTypes ==
    ASSUME Types, NEW r \in Reqs, NEW role \in Roles
    PROVE  Thread(r, role) \in [at : Places, i : Int, err : Errs \cup Reqs]
BY DEF Types, Thread

LEMMA WriteFacts ==
    ASSUME Types, NEW r \in Reqs, NEW role \in Roles, NEW response \in Responses,
           Write(r, role, response)
    PROVE  /\ Written(r, role)' = First(Written(r, role), response)
           /\ Written(r, role)' # None
           /\ \A other \in Roles \ {role} : Written(r, other)' = Written(r, other)
           /\ \A s \in Reqs \ {r} : wire'[s] = wire[s] /\ buffer'[s] = buffer[s]
           /\ wire' \in [Reqs -> Responses \cup {None}] /\ buffer' \in [Reqs -> Responses \cup {None}]
BY ChainsAssumption DEF Write, Written, First, Types, Roles

LEMMA Handed ==
    ASSUME Types
    PROVE  /\ chain \in Seq(Handlers) /\ DOMAIN chain = 1..Len(chain) /\ Len(chain) \in Nat \ {0}
           /\ \A i \in DOMAIN chain : chain[i] = "Handler" <=> i = Len(chain)
           /\ \A i, j \in DOMAIN chain : chain[i] = chain[j] /\ chain[i] = "Singleflight" => i = j
BY ChainsAssumption DEF Types, ChainSound

\* A step leaves alone what it does not touch.
LEMMA OtherRequestsKeep ==
    ASSUME NEW s \in Reqs, Local(s), chain' = chain, pc'[s] = pc[s], aborted'[s] = aborted[s],
           wire'[s] = wire[s], buffer'[s] = buffer[s], call'[s] = call[s], outcome'[s] = outcome[s],
           s \in expired' <=> s \in expired
    PROVE  Local(s)'
BY DEF Local, Placed, Below, Paired, Once, Untouched, Leading, Returning, Sharing, Late, Failing,
    Failed, FailedMain, FailedChild, Excused, Thread, Here, Written

-----------------------------------------------------------------------------
(* Requests: each step of r keeps what is local to r.                      *)

\* A child that moves by one position stays below its Timeout.
LEMMA BelowMoves ==
    ASSUME Types, NEW r \in Reqs, Placed(r, "child"), Below(r), chain' = chain,
           Thread(r, "child").at \in {"down", "following", "up"},
           \/ Thread(r, "child")'.i = Thread(r, "child").i + 1
           \/ /\ chain[Thread(r, "child").i] # "Timeout"
              /\ Thread(r, "child")'.i \in {Thread(r, "child").i, Thread(r, "child").i - 1}
              /\ Thread(r, "child")'.at # "down"
    PROVE  Below(r)'
<1> DEFINE i == Thread(r, "child").i
<1>1. PICK t \in DOMAIN chain :
        chain[t] = "Timeout" /\ t <= i /\ (Thread(r, "child").at = "down" => t < i)
    BY DEF Below
<1>2. t \in Int /\ i \in Int
    BY <1>1, Handed, ThreadTypes DEF Roles
<1>3. t <= Thread(r, "child")'.i /\ (Thread(r, "child")'.at = "down" => t < Thread(r, "child")'.i)
    <2>1. CASE Thread(r, "child")'.i = i + 1
        BY <1>1, <1>2, <2>1
    <2>2. CASE chain[i] # "Timeout"
        <3>1. t < i
            BY <1>1, <1>2, <2>2
        <3> QED
            BY <1>2, <3>1
    <2> QED
        BY <2>1, <2>2
<1> QED
    BY <1>1, <1>3 DEF Below

\* Nor does it matter to it what main does.
LEMMA BelowStays ==
    ASSUME NEW r \in Reqs, Below(r), chain' = chain, Thread(r, "child")' = Thread(r, "child")
    PROVE  Below(r)'
BY DEF Below, Thread

LEMMA ServeLocal ==
    ASSUME Types, NEW r \in Reqs, Local(r), Serve(r)
    PROVE  Local(r)'
<1>1. /\ Thread(r, "main").at = "idle"
      /\ Thread(r, "main")'.at = "down" /\ Thread(r, "main")'.i = 1 /\ Thread(r, "main")'.err = "none"
      /\ Thread(r, "child")' = Thread(r, "child")
    BY GotoFacts DEF Serve, Is, Roles, Thread
<1>2. UNCHANGED <<chain, aborted, wire, buffer, call, outcome, expired>>
    BY DEF Serve
<1>3. chain \in Seq(Handlers) /\ Len(chain) \in Nat \ {0} /\ DOMAIN chain = 1..Len(chain)
    BY Handed
<1> QED
    BY <1>1, <1>2, <1>3 DEF Local, Placed, Below, Paired, Once, Untouched, Leading, Returning, Sharing, Late, Failing,
    Failed, FailedMain, FailedChild, Excused, Here, Written

LEMMA EnterRecoveryLocal ==
    ASSUME Types, NEW r \in Reqs, NEW role \in Roles, Local(r), EnterRecovery(r, role)
    PROVE  Local(r)'
<1>1. /\ Thread(r, role).at = "down" /\ Here(r, role) = "Recovery"
      /\ Thread(r, role)'.at = "down" /\ Thread(r, role)'.i = Thread(r, role).i + 1
      /\ Thread(r, role)'.err = "none"
      /\ \A other \in Roles \ {role} : Thread(r, other)' = Thread(r, other)
    BY GotoFacts DEF EnterRecovery, Is, CallNext, Thread
<1>2. UNCHANGED <<chain, aborted, wire, buffer, call, outcome, expired>>
    BY DEF EnterRecovery
<1>3. /\ Len(chain) \in Nat \ {0} /\ DOMAIN chain = 1..Len(chain)
      /\ chain[Len(chain)] = "Handler"
    BY Handed
<1>4. Below(r)'
    BY <1>1, <1>2, BelowMoves, BelowStays DEF Roles, Local
<1>5. CASE role = "main"
    <2>1. Placed(r, "main")'
        BY <1>1, <1>2, <1>3, <1>4, <1>5, SMTT(30) DEF Roles, Local, Placed, Paired, Here, Thread
    <2>2. Placed(r, "child")'
        BY <1>1, <1>2, <1>3, <1>4, <1>5, SMTT(30) DEF Roles, Local, Placed, Paired, Here, Thread
    <2>3. Paired(r)' /\ Once(r)'
        BY <1>1, <1>2, <1>3, <1>4, <1>5 DEF Roles, Local, Placed, Paired, Once, Here, Thread
    <2>4. Untouched(r)' /\ Late(r)'
        BY <1>1, <1>2, <1>3, <1>4, <1>5 DEF Roles, Local, Placed, Paired, Once, Untouched, Late, Here, Written, Thread
    <2>5. Leading(r, "main")' /\ Leading(r, "child")' /\ Sharing(r)'
        BY <1>1, <1>2, <1>3, <1>4, <1>5 DEF Roles, Local, Placed, Paired, Once, Leading, Sharing, Here, Thread
    <2>6. Returning(r, "main")' /\ Returning(r, "child")'
        BY <1>1, <1>2, <1>3, <1>4, <1>5 DEF Roles, Local, Placed, Paired, Once, Leading, Returning, Here, Written, Thread
    <2>7. Failing(r)'
        BY <1>1, <1>2, <1>3, <1>4, <1>5 DEF Roles, Local, Placed, Paired, Once, Late, Failing, Failed, FailedMain, FailedChild, Excused, Here, Written,
            Thread
    <2> QED
        BY <1>1, <1>2, <1>3, <1>4, <1>5, <2>1, <2>2, <2>3, <2>4, <2>5, <2>6, <2>7 DEF Local
<1>6. CASE role = "child"
    <2>1. Placed(r, "main")'
        BY <1>1, <1>2, <1>3, <1>4, <1>6, SMTT(30) DEF Roles, Local, Placed, Paired, Here, Thread
    <2>2. Placed(r, "child")'
        BY <1>1, <1>2, <1>3, <1>4, <1>6, SMTT(30) DEF Roles, Local, Placed, Paired, Here, Thread
    <2>3. Paired(r)' /\ Once(r)'
        BY <1>1, <1>2, <1>3, <1>4, <1>6 DEF Roles, Local, Placed, Paired, Once, Here, Thread
    <2>4. Untouched(r)' /\ Late(r)'
        BY <1>1, <1>2, <1>3, <1>4, <1>6 DEF Roles, Local, Placed, Paired, Once, Untouched, Late, Here, Written, Thread
    <2>5. Leading(r, "main")' /\ Leading(r, "child")' /\ Sharing(r)'
        BY <1>1, <1>2, <1>3, <1>4, <1>6 DEF Roles, Local, Placed, Paired, Once, Leading, Sharing, Here, Thread
    <2>6. Returning(r, "main")' /\ Returning(r, "child")'
        BY <1>1, <1>2, <1>3, <1>4, <1>6 DEF Roles, Local, Placed, Paired, Once, Leading, Returning, Here, Written, Thread
    <2>7. Failing(r)'
        BY <1>1, <1>2, <1>3, <1>4, <1>6 DEF Roles, Local, Placed, Paired, Once, Late, Failing, Failed, FailedMain, FailedChild, Excused, Here, Written,
            Thread
    <2> QED
        BY <1>1, <1>2, <1>3, <1>4, <1>6, <2>1, <2>2, <2>3, <2>4, <2>5, <2>6, <2>7 DEF Local
<1> QED
    BY <1>5, <1>6 DEF Roles

LEMMA LeadLocal ==
    ASSUME Types, NEW r \in Reqs, NEW role \in Roles, Local(r), Lead(r, role)
    PROVE  Local(r)' /\ call[r] = "none"
<1>1. /\ Thread(r, role).at = "down" /\ Here(r, role) = "Singleflight"
      /\ Thread(r, role)'.at = "down" /\ Thread(r, role)'.i = Thread(r, role).i + 1
      /\ Thread(r, role)'.err = "none"
      /\ \A other \in Roles \ {role} : Thread(r, other)' = Thread(r, other)
    BY GotoFacts DEF Lead, Is, CallNext, Thread
<1>2. UNCHANGED <<chain, aborted, wire, buffer, outcome, expired>> /\ call'[r] = "open"
    BY DEF Lead, Types
<1>3. /\ Len(chain) \in Nat \ {0} /\ DOMAIN chain = 1..Len(chain)
      /\ chain[Len(chain)] = "Handler"
      /\ Thread(r, role).i \in 1..Len(chain)
    BY <1>1, Handed DEF Roles, Local, Placed
<1>4. Below(r)'
    BY <1>1, <1>2, BelowMoves, BelowStays DEF Roles, Local
<1>5. \A s \in DOMAIN chain : chain[s] = "Singleflight" => s < Thread(r, role)'.i
    <2>1. \A s \in DOMAIN chain : chain[s] = "Singleflight" => s = Thread(r, role).i
        BY <1>1, <1>3, Handed DEF Here, Thread
    <2> QED
        BY <1>1, <1>3, <2>1
<1>6. call[r] = "none"
    BY <1>1, <1>3 DEF Local, Leading, Roles, Here, Thread
<1>7. CASE role = "main"
    <2>1. Placed(r, "main")'
        BY <1>1, <1>2, <1>3, <1>4, <1>5, <1>6, <1>7, SMTT(30) DEF Roles, Local, Placed, Paired, Here, Thread
    <2>2. Placed(r, "child")'
        BY <1>1, <1>2, <1>3, <1>4, <1>5, <1>6, <1>7, SMTT(30) DEF Roles, Local, Placed, Paired, Here, Thread
    <2>3. Paired(r)' /\ Once(r)'
        BY <1>1, <1>2, <1>3, <1>4, <1>5, <1>6, <1>7 DEF Roles, Local, Placed, Paired, Once, Here, Thread
    <2>4. Untouched(r)' /\ Late(r)'
        BY <1>1, <1>2, <1>3, <1>4, <1>5, <1>6, <1>7 DEF Roles, Local, Placed, Paired, Once, Untouched, Late, Here, Written, Thread
    <2>5. Leading(r, "main")' /\ Leading(r, "child")' /\ Sharing(r)'
        BY <1>1, <1>2, <1>3, <1>4, <1>5, <1>6, <1>7 DEF Roles, Local, Placed, Paired, Once, Leading, Sharing, Here, Thread
    <2>6. Returning(r, "main")' /\ Returning(r, "child")'
        BY <1>1, <1>2, <1>3, <1>4, <1>5, <1>6, <1>7 DEF Roles, Local, Placed, Paired, Once, Leading, Returning, Here, Written, Thread
    <2>7. Failing(r)'
        BY <1>1, <1>2, <1>3, <1>4, <1>5, <1>6, <1>7 DEF Roles, Local, Placed, Paired, Once, Late, Failing, Failed, FailedMain, FailedChild, Excused, Here, Written,
            Thread
    <2> QED
        BY <1>1, <1>2, <1>3, <1>4, <1>5, <1>6, <1>7, <2>1, <2>2, <2>3, <2>4, <2>5, <2>6, <2>7 DEF Local
<1>8. CASE role = "child"
    <2>1. Placed(r, "main")'
        BY <1>1, <1>2, <1>3, <1>4, <1>5, <1>6, <1>8, SMTT(30) DEF Roles, Local, Placed, Paired, Here, Thread
    <2>2. Placed(r, "child")'
        BY <1>1, <1>2, <1>3, <1>4, <1>5, <1>6, <1>8, SMTT(30) DEF Roles, Local, Placed, Paired, Here, Thread
    <2>3. Paired(r)' /\ Once(r)'
        BY <1>1, <1>2, <1>3, <1>4, <1>5, <1>6, <1>8 DEF Roles, Local, Placed, Paired, Once, Here, Thread
    <2>4. Untouched(r)' /\ Late(r)'
        BY <1>1, <1>2, <1>3, <1>4, <1>5, <1>6, <1>8 DEF Roles, Local, Placed, Paired, Once, Untouched, Late, Here, Written, Thread
    <2>5. Leading(r, "main")' /\ Leading(r, "child")' /\ Sharing(r)'
        BY <1>1, <1>2, <1>3, <1>4, <1>5, <1>6, <1>8 DEF Roles, Local, Placed, Paired, Once, Leading, Sharing, Here, Thread
    <2>6. Returning(r, "main")' /\ Returning(r, "child")'
        BY <1>1, <1>2, <1>3, <1>4, <1>5, <1>6, <1>8 DEF Roles, Local, Placed, Paired, Once, Leading, Returning, Here, Written, Thread
    <2>7. Failing(r)'
        BY <1>1, <1>2, <1>3, <1>4, <1>5, <1>6, <1>8 DEF Roles, Local, Placed, Paired, Once, Late, Failing, Failed, FailedMain, FailedChild, Excused, Here, Written,
            Thread
    <2> QED
        BY <1>1, <1>2, <1>3, <1>4, <1>5, <1>6, <1>8, <2>1, <2>2, <2>3, <2>4, <2>5, <2>6, <2>7 DEF Local
<1> QED
    BY <1>6, <1>7, <1>8 DEF Roles

LEMMA FollowLocal ==
    ASSUME Types, FlightsOfKey, NEW r \in Reqs, NEW role \in Roles, Local(r), Follow(r, role)
    PROVE  Local(r)'
<1>1. /\ Thread(r, role).at = "down" /\ Here(r, role) = "Singleflight"
      /\ Thread(r, role)'.at = "following" /\ Thread(r, role)'.i = Thread(r, role).i
      /\ Thread(r, role)'.err = flight[KeyOf[r]]
      /\ \A other \in Roles \ {role} : Thread(r, other)' = Thread(r, other)
    BY GotoFacts DEF Follow, Is, Thread
<1>2. UNCHANGED <<chain, aborted, wire, buffer, call, outcome, expired>>
    BY DEF Follow
<1>3. /\ Len(chain) \in Nat \ {0} /\ DOMAIN chain = 1..Len(chain)
      /\ Thread(r, role).i \in 1..Len(chain)
    BY <1>1, Handed DEF Roles, Local, Placed
<1>4. Below(r)'
    BY <1>1, <1>2, BelowMoves, BelowStays DEF Roles, Local, Here, Thread
<1>5. flight[KeyOf[r]] \in Reqs /\ KeyOf[flight[KeyOf[r]]] = KeyOf[r]
    BY DEF Follow, FlightsOfKey, Keys, Types
<1>6. call[r] = "none"
    BY <1>1, <1>3 DEF Local, Leading, Roles, Here, Thread
<1>7. CASE role = "main"
    <2>1. Placed(r, "main")'
        BY <1>1, <1>2, <1>3, <1>4, <1>5, <1>6, <1>7, SMTT(30) DEF Roles, Local, Placed, Paired, Here, Thread
    <2>2. Placed(r, "child")'
        BY <1>1, <1>2, <1>3, <1>4, <1>5, <1>6, <1>7, SMTT(30) DEF Roles, Local, Placed, Paired, Here, Thread
    <2>3. Paired(r)' /\ Once(r)'
        BY <1>1, <1>2, <1>3, <1>4, <1>5, <1>6, <1>7 DEF Roles, Local, Placed, Paired, Once, Here, Thread
    <2>4. Untouched(r)' /\ Late(r)'
        BY <1>1, <1>2, <1>3, <1>4, <1>5, <1>6, <1>7 DEF Roles, Local, Placed, Paired, Once, Untouched, Late, Here, Written, Thread
    <2>5. Leading(r, "main")' /\ Leading(r, "child")' /\ Sharing(r)'
        BY <1>1, <1>2, <1>3, <1>4, <1>5, <1>6, <1>7 DEF Roles, Local, Placed, Paired, Once, Leading, Sharing, Here, Thread
    <2>6. Returning(r, "main")' /\ Returning(r, "child")'
        BY <1>1, <1>2, <1>3, <1>4, <1>5, <1>6, <1>7 DEF Roles, Local, Placed, Paired, Once, Leading, Returning, Here, Written, Thread
    <2>7. Failing(r)'
        BY <1>1, <1>2, <1>3, <1>4, <1>5, <1>6, <1>7 DEF Roles, Local, Placed, Paired, Once, Late, Failing, Failed, FailedMain, FailedChild, Excused, Here, Written,
            Thread
    <2> QED
        BY <1>1, <1>2, <1>3, <1>4, <1>5, <1>6, <1>7, <2>1, <2>2, <2>3, <2>4, <2>5, <2>6, <2>7 DEF Local
<1>8. CASE role = "child"
    <2>1. Placed(r, "main")'
        BY <1>1, <1>2, <1>3, <1>4, <1>5, <1>6, <1>8, SMTT(30) DEF Roles, Local, Placed, Paired, Here, Thread
    <2>2. Placed(r, "child")'
        BY <1>1, <1>2, <1>3, <1>4, <1>5, <1>6, <1>8, SMTT(30) DEF Roles, Local, Placed, Paired, Here, Thread
    <2>3. Paired(r)' /\ Once(r)'
        BY <1>1, <1>2, <1>3, <1>4, <1>5, <1>6, <1>8 DEF Roles, Local, Placed, Paired, Once, Here, Thread
    <2>4. Untouched(r)' /\ Late(r)'
        BY <1>1, <1>2, <1>3, <1>4, <1>5, <1>6, <1>8 DEF Roles, Local, Placed, Paired, Once, Untouched, Late, Here, Written, Thread
    <2>5. Leading(r, "main")' /\ Leading(r, "child")' /\ Sharing(r)'
        BY <1>1, <1>2, <1>3, <1>4, <1>5, <1>6, <1>8 DEF Roles, Local, Placed, Paired, Once, Leading, Sharing, Here, Thread
    <2>6. Returning(r, "main")' /\ Returning(r, "child")'
        BY <1>1, <1>2, <1>3, <1>4, <1>5, <1>6, <1>8 DEF Roles, Local, Placed, Paired, Once, Leading, Returning, Here, Written, Thread
    <2>7. Failing(r)'
        BY <1>1, <1>2, <1>3, <1>4, <1>5, <1>6, <1>8 DEF Roles, Local, Placed, Paired, Once, Late, Failing, Failed, FailedMain, FailedChild, Excused, Here, Written,
            Thread
    <2> QED
        BY <1>1, <1>2, <1>3, <1>4, <1>5, <1>6, <1>8, <2>1, <2>2, <2>3, <2>4, <2>5, <2>6, <2>7 DEF Local
<1> QED
    BY <1>7, <1>8 DEF Roles

LEMMA StopFollowingLocal ==
    ASSUME Types, NEW r \in Reqs, NEW role \in Roles, Local(r), StopFollowing(r, role)
    PROVE  Local(r)'
<1>1. /\ Thread(r, role).at = "following"
      /\ Thread(r, role)'.at = "up" /\ Thread(r, role)'.i = Thread(r, role).i - 1
      /\ Thread(r, role)'.err = "canceled"
      /\ \A other \in Roles \ {role} : Thread(r, other)' = Thread(r, other)
    BY GotoFacts DEF StopFollowing, Is, Return, Thread
<1>2. UNCHANGED <<chain, aborted, wire, buffer, call, outcome, expired>>
    BY DEF StopFollowing
<1>3. /\ Len(chain) \in Nat \ {0} /\ DOMAIN chain = 1..Len(chain)
      /\ Thread(r, role).i \in 1..Len(chain)
      /\ Here(r, role) = "Singleflight" /\ "canceled" \in Errs
    BY <1>1, Handed DEF Roles, Local, Placed, Errs
<1>4. Below(r)'
    BY <1>1, <1>2, <1>3, BelowMoves, BelowStays DEF Roles, Local, Here, Thread
<1>5. CASE role = "main"
    <2>1. Placed(r, "main")'
        BY <1>1, <1>2, <1>3, <1>4, <1>5, SMTT(30) DEF Roles, Local, Placed, Paired, Here, Thread
    <2>2. Placed(r, "child")'
        BY <1>1, <1>2, <1>3, <1>4, <1>5, SMTT(30) DEF Roles, Local, Placed, Paired, Here, Thread
    <2>3. Paired(r)' /\ Once(r)'
        BY <1>1, <1>2, <1>3, <1>4, <1>5 DEF Roles, Local, Placed, Paired, Once, Here, Thread
    <2>4. Untouched(r)' /\ Late(r)'
        BY <1>1, <1>2, <1>3, <1>4, <1>5 DEF Roles, Local, Placed, Paired, Once, Untouched, Late, Here, Written, Thread
    <2>5. Leading(r, "main")' /\ Leading(r, "child")' /\ Sharing(r)'
        BY <1>1, <1>2, <1>3, <1>4, <1>5 DEF Roles, Local, Placed, Paired, Once, Leading, Sharing, Here, Thread
    <2>6. Returning(r, "main")' /\ Returning(r, "child")'
        BY <1>1, <1>2, <1>3, <1>4, <1>5 DEF Roles, Local, Placed, Paired, Once, Leading, Returning, Here, Written, Thread
    <2>7. Failing(r)'
        BY <1>1, <1>2, <1>3, <1>4, <1>5 DEF Roles, Local, Placed, Paired, Once, Late, Failing, Failed, FailedMain, FailedChild, Excused, Here, Written,
            Thread
    <2> QED
        BY <1>1, <1>2, <1>3, <1>4, <1>5, <2>1, <2>2, <2>3, <2>4, <2>5, <2>6, <2>7 DEF Local
<1>6. CASE role = "child"
    <2>1. Placed(r, "main")'
        BY <1>1, <1>2, <1>3, <1>4, <1>6, SMTT(30) DEF Roles, Local, Placed, Paired, Here, Thread
    <2>2. Placed(r, "child")'
        BY <1>1, <1>2, <1>3, <1>4, <1>6, SMTT(30) DEF Roles, Local, Placed, Paired, Here, Thread
    <2>3. Paired(r)' /\ Once(r)'
        BY <1>1, <1>2, <1>3, <1>4, <1>6 DEF Roles, Local, Placed, Paired, Once, Here, Thread
    <2>4. Untouched(r)' /\ Late(r)'
        BY <1>1, <1>2, <1>3, <1>4, <1>6 DEF Roles, Local, Placed, Paired, Once, Untouched, Late, Here, Written, Thread
    <2>5. Leading(r, "main")' /\ Leading(r, "child")' /\ Sharing(r)'
        BY <1>1, <1>2, <1>3, <1>4, <1>6 DEF Roles, Local, Placed, Paired, Once, Leading, Sharing, Here, Thread
    <2>6. Returning(r, "main")' /\ Returning(r, "child")'
        BY <1>1, <1>2, <1>3, <1>4, <1>6 DEF Roles, Local, Placed, Paired, Once, Leading, Returning, Here, Written, Thread
    <2>7. Failing(r)'
        BY <1>1, <1>2, <1>3, <1>4, <1>6 DEF Roles, Local, Placed, Paired, Once, Late, Failing, Failed, FailedMain, FailedChild, Excused, Here, Written,
            Thread
    <2> QED
        BY <1>1, <1>2, <1>3, <1>4, <1>6, <2>1, <2>2, <2>3, <2>4, <2>5, <2>6, <2>7 DEF Local
<1> QED
    BY <1>5, <1>6 DEF Roles

LEMMA LeaveSingleflightLocal ==
    ASSUME Types, NEW r \in Reqs, NEW role \in Roles, Local(r), LeaveSingleflight(r, role)
    PROVE  Local(r)'
<1>1. /\ Thread(r, role).at = "up" /\ Thread(r, role).i > 0 /\ Here(r, role) = "Singleflight"
      /\ Thread(r, role)'.at = "up" /\ Thread(r, role)'.i = Thread(r, role).i - 1
      /\ Thread(r, role)'.err = Thread(r, role).err
      /\ \A other \in Roles \ {role} : Thread(r, other)' = Thread(r, other)
    BY GotoFacts DEF LeaveSingleflight, Is, Return, Thread
<1>2. /\ UNCHANGED <<chain, aborted, wire, buffer, outcome, expired>>
      /\ call'[r] = IF Closes(r, role) THEN IF Shareable(r, role) THEN "shareable" ELSE "closed" ELSE call[r]
    BY DEF LeaveSingleflight, Types
<1>3. /\ Len(chain) \in Nat \ {0} /\ DOMAIN chain = 1..Len(chain)
      /\ Thread(r, role).i \in 0..(Len(chain) - 1) /\ Thread(r, role).err \in Errs
    BY <1>1, Handed DEF Roles, Local, Placed
<1>4. Below(r)'
    BY <1>1, <1>2, <1>3, BelowMoves, BelowStays DEF Roles, Local, Here, Thread
<1>5. Closes(r, role) /\ Shareable(r, role) => outcome[r] = "ok"
    <2> SUFFICES ASSUME Closes(r, role), Shareable(r, role) PROVE outcome[r] = "ok"
        OBVIOUS
    <2>1. Thread(r, role).err = "none" /\ Returning(r, role)
        BY DEF Shareable, Thread, Local, Roles
    <2>2. Written(r, role) # Response("refused", r)
        BY ChainsAssumption DEF Shareable, Response, Responses, ResponseStatuses
    <2> QED
        BY <1>1, <2>1, <2>2 DEF Closes, Shareable, Returning
<1>6. (call'[r] = "none" <=> call[r] = "none") /\ (call'[r] = "open" => call[r] = "open")
      /\ (call'[r] = "shareable" => outcome[r] = "ok")
    BY <1>2, <1>5 DEF Closes, Local, Sharing
<1>7. CASE role = "main"
    <2>1. Placed(r, "main")'
        BY <1>1, <1>2, <1>3, <1>4, <1>6, <1>7, SMTT(30) DEF Roles, Local, Placed, Paired, Here, Thread
    <2>2. Placed(r, "child")'
        BY <1>1, <1>2, <1>3, <1>4, <1>6, <1>7, SMTT(30) DEF Roles, Local, Placed, Paired, Here, Thread
    <2>3. Paired(r)' /\ Once(r)'
        BY <1>1, <1>2, <1>3, <1>4, <1>6, <1>7 DEF Roles, Local, Placed, Paired, Once, Here, Thread
    <2>4. Untouched(r)' /\ Late(r)'
        BY <1>1, <1>2, <1>3, <1>4, <1>6, <1>7 DEF Roles, Local, Placed, Paired, Once, Untouched, Late, Here, Written, Thread
    <2>5. Leading(r, "main")' /\ Leading(r, "child")' /\ Sharing(r)'
        BY <1>1, <1>2, <1>3, <1>4, <1>6, <1>7 DEF Roles, Local, Placed, Paired, Once, Leading, Sharing, Here, Thread
    <2>6. Returning(r, "main")' /\ Returning(r, "child")'
        BY <1>1, <1>2, <1>3, <1>4, <1>6, <1>7 DEF Roles, Local, Placed, Paired, Once, Leading, Returning, Here, Written, Thread
    <2>7. Failing(r)'
        BY <1>1, <1>2, <1>3, <1>4, <1>6, <1>7 DEF Roles, Local, Placed, Paired, Once, Late, Failing, Failed, FailedMain, FailedChild, Excused, Here, Written,
            Thread
    <2> QED
        BY <1>1, <1>2, <1>3, <1>4, <1>6, <1>7, <2>1, <2>2, <2>3, <2>4, <2>5, <2>6, <2>7 DEF Local
<1>8. CASE role = "child"
    <2>1. Placed(r, "main")'
        BY <1>1, <1>2, <1>3, <1>4, <1>6, <1>8, SMTT(30) DEF Roles, Local, Placed, Paired, Here, Thread
    <2>2. Placed(r, "child")'
        BY <1>1, <1>2, <1>3, <1>4, <1>6, <1>8, SMTT(30) DEF Roles, Local, Placed, Paired, Here, Thread
    <2>3. Paired(r)' /\ Once(r)'
        BY <1>1, <1>2, <1>3, <1>4, <1>6, <1>8 DEF Roles, Local, Placed, Paired, Once, Here, Thread
    <2>4. Untouched(r)' /\ Late(r)'
        BY <1>1, <1>2, <1>3, <1>4, <1>6, <1>8 DEF Roles, Local, Placed, Paired, Once, Untouched, Late, Here, Written, Thread
    <2>5. Leading(r, "main")' /\ Leading(r, "child")' /\ Sharing(r)'
        BY <1>1, <1>2, <1>3, <1>4, <1>6, <1>8 DEF Roles, Local, Placed, Paired, Once, Leading, Sharing, Here, Thread
    <2>6. Returning(r, "main")' /\ Returning(r, "child")'
        BY <1>1, <1>2, <1>3, <1>4, <1>6, <1>8 DEF Roles, Local, Placed, Paired, Once, Leading, Returning, Here, Written, Thread
    <2>7. Failing(r)'
        BY <1>1, <1>2, <1>3, <1>4, <1>6, <1>8 DEF Roles, Local, Placed, Paired, Once, Late, Failing, Failed, FailedMain, FailedChild, Excused, Here, Written,
            Thread
    <2> QED
        BY <1>1, <1>2, <1>3, <1>4, <1>6, <1>8, <2>1, <2>2, <2>3, <2>4, <2>5, <2>6, <2>7 DEF Local
<1> QED
    BY <1>7, <1>8 DEF Roles

LEMMA StartTimeoutLocal ==
    ASSUME Types, NEW r \in Reqs, Local(r), StartTimeout(r)
    PROVE  Local(r)'
<1>1. /\ Thread(r, "main").at = "down" /\ Here(r, "main") = "Timeout"
      /\ Thread(r, "main")' = At("waiting", Thread(r, "main").i, "none")
      /\ Thread(r, "child")' = At("down", Thread(r, "main").i + 1, "none")
    BY DEF StartTimeout, Is, Types, Roles, Thread
<1>2. UNCHANGED <<chain, aborted, wire, buffer, call, outcome, expired>>
    BY DEF StartTimeout
<1>3. /\ Len(chain) \in Nat \ {0} /\ DOMAIN chain = 1..Len(chain) /\ chain[Len(chain)] = "Handler"
      /\ Thread(r, "main").i \in 1..Len(chain)
    BY <1>1, Handed DEF Roles, Local, Placed
<1>4. Below(r)'
    BY <1>1, <1>2, <1>3 DEF Below, At, Here, Thread
<1>5. Placed(r, "main")' /\ Placed(r, "child")' /\ Paired(r)'
    BY <1>1, <1>2, <1>3 DEF Local, Placed, Paired, At, Here, Thread
<1> QED
    BY <1>1, <1>2, <1>3, <1>4, <1>5 DEF At, Local, Once, Untouched, Leading, Returning, Paired,
        Sharing, Late, Failing, Failed, FailedMain, FailedChild, Excused, Here, Written, Thread

\* The child's error and response become main's.
LEMMA AdoptChildLocal ==
    ASSUME Types, NEW r \in Reqs, Local(r), AdoptChild(r)
    PROVE  Local(r)'
<1> DEFINE err == Thread(r, "child").err
<1>1. /\ Thread(r, "main").at = "waiting" /\ Thread(r, "child").at = "up" /\ err # "panic"
      /\ Thread(r, "main")' = At("up", Thread(r, "main").i - 1, err)
      /\ Thread(r, "child")' = At("end", 0, "none")
    BY DEF AdoptChild, Is, Types, Roles, Thread, Ended
<1>2. /\ UNCHANGED <<chain, buffer, call, outcome, expired>>
      /\ wire'[r] = First(wire[r], Committed(r, err))
      /\ aborted'[r]["main"] = aborted[r]["child"] /\ aborted'[r]["child"] = aborted[r]["child"]
    BY DEF AdoptChild, Types, Roles, Thread
<1>3. /\ Len(chain) \in Nat \ {0} /\ DOMAIN chain = 1..Len(chain)
      /\ Thread(r, "main").i \in 1..Len(chain) /\ err \in Errs
    BY <1>1, Handed DEF Roles, Local, Placed
<1>4. wire[r] = None /\ wire'[r] = Committed(r, err) /\ r \notin expired
    BY <1>1, <1>2 DEF Local, Untouched, First, Late
<1>5. Below(r)' /\ Placed(r, "main")' /\ Placed(r, "child")' /\ Paired(r)' /\ Once(r)' /\ Sharing(r)' /\ Late(r)'
    BY <1>1, <1>2, <1>3, <1>4 DEF Below, Local, Placed, Paired, Once, Sharing, Late, At, Here, Thread
<1>6. Untouched(r)' /\ Leading(r, "main")' /\ Leading(r, "child")'
    BY <1>1, <1>2 DEF Local, Untouched, Leading, At, Thread
<1>7. Returning(r, "main")' /\ Returning(r, "child")'
    <2>1. err = "none" /\ outcome[r] = "refused" /\ buffer[r] = Response("refused", r) =>
            wire'[r] = Response("refused", r)
        <3>1. Response("refused", r) # None
            BY ChainsAssumption DEF Response, Responses, ResponseStatuses
        <3> QED
            BY <1>4, <3>1 DEF Committed, First
    <2> QED
        BY <1>1, <1>2, <2>1 DEF Local, Returning, At, Written, Thread
<1>8. Failing(r)'
    <2> SUFFICES ASSUME Failed(r) PROVE FailedMain(r)' /\ FailedChild(r)'
        BY <1>2 DEF Failing, Failed, Excused
    <2>1. err # "none" /\ wire'[r] = None /\ FailedChild(r)
        BY <1>1, <1>4 DEF Local, Failing, FailedChild, Committed
    <2> QED
        BY <1>1, <1>2, <2>1 DEF FailedMain, FailedChild, At, Thread
<1> QED
    BY <1>5, <1>6, <1>7, <1>8 DEF Local

LEMMA DeadlineLocal ==
    ASSUME Types, NEW r \in Reqs, Local(r), Deadline(r)
    PROVE  Local(r)'
<1>1. /\ Thread(r, "main").at = "waiting"
      /\ Thread(r, "main")'.at = "up" /\ Thread(r, "main")'.i = Thread(r, "main").i - 1
      /\ Thread(r, "main")'.err = "timeout" /\ Thread(r, "child")' = Thread(r, "child")
    BY GotoFacts DEF Deadline, Is, Return, Thread, Roles
<1>2. UNCHANGED <<chain, aborted, wire, buffer, call, outcome>> /\ expired' = expired \cup {r}
    BY DEF Deadline
<1>3. /\ Len(chain) \in Nat \ {0} /\ DOMAIN chain = 1..Len(chain)
      /\ Thread(r, "main").i \in 1..Len(chain) /\ "timeout" \in Errs
    BY <1>1, Handed DEF Roles, Local, Placed, Errs
<1>4. Below(r)'
    BY <1>1, <1>2, BelowStays DEF Local
<1> QED
    <2>1. Placed(r, "main")'
        BY <1>1, <1>2, <1>3, <1>4, SMTT(30) DEF Roles, Local, Placed, Paired, Here, Thread
    <2>2. Placed(r, "child")'
        BY <1>1, <1>2, <1>3, <1>4, SMTT(30) DEF Roles, Local, Placed, Paired, Here, Thread
    <2>3. Paired(r)' /\ Once(r)'
        BY <1>1, <1>2, <1>3, <1>4 DEF Roles, Local, Placed, Paired, Once, Here, Thread
    <2>4. Untouched(r)' /\ Late(r)'
        BY <1>1, <1>2, <1>3, <1>4 DEF Roles, Local, Placed, Paired, Once, Untouched, Late, Here, Written, Thread
    <2>5. Leading(r, "main")' /\ Leading(r, "child")' /\ Sharing(r)'
        BY <1>1, <1>2, <1>3, <1>4 DEF Roles, Local, Placed, Paired, Once, Leading, Sharing, Here, Thread
    <2>6. Returning(r, "main")' /\ Returning(r, "child")'
        BY <1>1, <1>2, <1>3, <1>4 DEF Roles, Local, Placed, Paired, Once, Leading, Returning, Here, Written, Thread
    <2>7. Failing(r)'
        BY <1>1, <1>2, <1>3, <1>4 DEF Roles, Local, Placed, Paired, Once, Late, Failing, Failed, FailedMain, FailedChild, Excused, Here, Written,
            Thread
    <2> QED
        BY <1>1, <1>2, <1>3, <1>4, <2>1, <2>2, <2>3, <2>4, <2>5, <2>6, <2>7 DEF Local

LEMMA AbandonedChildEndsLocal ==
    ASSUME Types, NEW r \in Reqs, Local(r), AbandonedChildEnds(r)
    PROVE  Local(r)'
<1>1. /\ Thread(r, "child").at = "up" /\ r \in expired
      /\ Thread(r, "child")'.at = "end" /\ Thread(r, "main")' = Thread(r, "main")
    BY GotoFacts DEF AbandonedChildEnds, Ended, Thread, Roles
<1>2. UNCHANGED <<chain, aborted, wire, buffer, call, outcome, expired>>
    BY DEF AbandonedChildEnds
<1>3. Below(r)'
    BY <1>1 DEF Below
<1> QED
    BY <1>1, <1>2, <1>3 DEF Local, Placed, Paired, Once, Untouched, Leading, Returning,
        Sharing, Late, Failing, Failed, FailedMain, FailedChild, Excused, Here, Written, Thread

\* The end of main: what nobody answered is answered now.
LEMMA FinishLocal ==
    ASSUME Types, NEW r \in Reqs, Local(r), Finish(r)
    PROVE  Local(r)'
<1> DEFINE err == Thread(r, "main").err
           nothing == IF err = "panic" THEN Response("dropped", r) ELSE Response("ok", None)
           sent == IF err = "panic" THEN None ELSE ErrorResponse(r)
<1>1. /\ Thread(r, "main").at = "up"
      /\ Thread(r, "main")'.at = "end" /\ Thread(r, "child")' = Thread(r, "child")
    BY GotoFacts DEF Finish, Is, Thread, Roles
<1>2. /\ UNCHANGED <<chain, aborted, buffer, call, outcome, expired>>
      /\ wire'[r] = First(First(wire[r], sent), nothing)
    BY DEF Finish, Types, Thread
<1>3. \A code : Response(code, r).status = code /\ Response(code, None).status = code
    BY DEF Response
<1>4. \A code \in ResponseStatuses : Response(code, r) # None /\ Response(code, None) # None
    BY ChainsAssumption DEF Response, Responses
<1>5. wire'[r] # None
    BY <1>2, <1>4 DEF First, ResponseStatuses
<1>6. Below(r)'
    BY <1>1, <1>2, BelowStays DEF Local
<1>7. Late(r)'
    <2> SUFFICES ASSUME r \in expired PROVE wire'[r] = Response("timeout", r)
        BY <1>1, <1>2 DEF Local, Late
    <2>1. err = "timeout" /\ wire[r] = None /\ ~aborted[r]["main"]
        BY <1>1 DEF Local, Late
    <2>2. sent = Response("timeout", r)
        BY <2>1 DEF ErrorResponse, Status, Thread
    <2> QED
        BY <1>2, <1>4, <2>1, <2>2 DEF First, ResponseStatuses
<1>8. Failing(r)'
    <2> SUFFICES ASSUME Failed(r) PROVE FailedMain(r)' /\ FailedChild(r)'
        BY <1>2 DEF Failing, Failed, Excused
    <2>1. FailedMain(r) /\ FailedChild(r) /\ err # "none"
        BY <1>1 DEF Local, Failing, FailedMain
    <2>2. wire'[r].status # "ok"
        <3>1. CASE wire[r] # None
            BY <1>2, <2>1, <3>1 DEF First, FailedMain
        <3>2. CASE wire[r] = None /\ err = "panic"
            BY <1>2, <1>3, <1>4, <3>2 DEF First
        <3>3. CASE wire[r] = None /\ err # "panic"
            <4>1. sent = Response(Status(err), r)
                BY <2>1, <3>3 DEF ErrorResponse, FailedMain, Thread
            <4> QED
                BY <1>2, <1>3, <1>4, <3>3, <4>1 DEF First, Status, ResponseStatuses
        <3> QED
            BY <3>1, <3>2, <3>3
    <2> QED
        BY <1>1, <1>2, <1>5, <2>1, <2>2 DEF FailedMain, FailedChild, Thread
<1> HIDE DEF err, nothing, sent
<1> QED
    BY <1>1, <1>2, <1>5, <1>6, <1>7, <1>8 DEF Local, Placed, Paired, Once, Untouched, Leading,
        Returning, Sharing, Here, Written, Thread

LEMMA LeaveRecoveryLocal ==
    ASSUME Types, NEW r \in Reqs, NEW role \in Roles, Local(r), LeaveRecovery(r, role)
    PROVE  Local(r)'
<1> DEFINE err == Thread(r, role).err
<1>1. /\ Thread(r, role).at = "up" /\ Thread(r, role).i > 0 /\ Here(r, role) = "Recovery"
      /\ Thread(r, role)'.at = "up" /\ Thread(r, role)'.i = Thread(r, role).i - 1
      /\ Thread(r, role)'.err = IF err = "panic" THEN "error" ELSE err
      /\ \A other \in Roles \ {role} : Thread(r, other)' = Thread(r, other)
    BY GotoFacts DEF LeaveRecovery, Is, Return, Thread
<1>2. UNCHANGED <<chain, call, outcome, expired>>
    BY DEF LeaveRecovery
<1>3. /\ Len(chain) \in Nat \ {0} /\ DOMAIN chain = 1..Len(chain)
      /\ Thread(r, role).i \in 0..(Len(chain) - 1) /\ err \in Errs /\ "error" \in Errs
    BY <1>1, Handed DEF Roles, Local, Placed, Errs
<1>4. Below(r)'
    BY <1>1, <1>2, <1>3, BelowMoves, BelowStays DEF Roles, Local, Here, Thread
<1>5. CASE err # "panic"
    <2>1. UNCHANGED <<aborted, wire, buffer>>
        BY <1>5 DEF LeaveRecovery, Thread
    <2>2. CASE role = "main"
        <3>1. Placed(r, "main")'
            BY <1>1, <1>2, <1>3, <1>4, <1>5, <2>1, <2>2, SMTT(30) DEF Roles, Local, Placed, Paired, Here, Thread
        <3>2. Placed(r, "child")'
            BY <1>1, <1>2, <1>3, <1>4, <1>5, <2>1, <2>2, SMTT(30) DEF Roles, Local, Placed, Paired, Here, Thread
        <3>3. Paired(r)' /\ Once(r)'
            BY <1>1, <1>2, <1>3, <1>4, <1>5, <2>1, <2>2 DEF Roles, Local, Placed, Paired, Once, Here, Thread
        <3>4. Untouched(r)' /\ Late(r)'
            BY <1>1, <1>2, <1>3, <1>4, <1>5, <2>1, <2>2 DEF Roles, Local, Placed, Paired, Once, Untouched, Late, Here, Written, Thread
        <3>5. Leading(r, "main")' /\ Leading(r, "child")' /\ Sharing(r)'
            BY <1>1, <1>2, <1>3, <1>4, <1>5, <2>1, <2>2 DEF Roles, Local, Placed, Paired, Once, Leading, Sharing, Here, Thread
        <3>6. Returning(r, "main")' /\ Returning(r, "child")'
            BY <1>1, <1>2, <1>3, <1>4, <1>5, <2>1, <2>2 DEF Roles, Local, Placed, Paired, Once, Leading, Returning, Here, Written, Thread
        <3>7. Failing(r)'
            BY <1>1, <1>2, <1>3, <1>4, <1>5, <2>1, <2>2 DEF Roles, Local, Placed, Paired, Once, Late, Failing, Failed, FailedMain, FailedChild, Excused, Here, Written,
                Thread
        <3> QED
            BY <1>1, <1>2, <1>3, <1>4, <1>5, <2>1, <2>2, <3>1, <3>2, <3>3, <3>4, <3>5, <3>6, <3>7 DEF Local
    <2>3. CASE role = "child"
        <3>1. Placed(r, "main")'
            BY <1>1, <1>2, <1>3, <1>4, <1>5, <2>1, <2>3, SMTT(30) DEF Roles, Local, Placed, Paired, Here, Thread
        <3>2. Placed(r, "child")'
            BY <1>1, <1>2, <1>3, <1>4, <1>5, <2>1, <2>3, SMTT(30) DEF Roles, Local, Placed, Paired, Here, Thread
        <3>3. Paired(r)' /\ Once(r)'
            BY <1>1, <1>2, <1>3, <1>4, <1>5, <2>1, <2>3 DEF Roles, Local, Placed, Paired, Once, Here, Thread
        <3>4. Untouched(r)' /\ Late(r)'
            BY <1>1, <1>2, <1>3, <1>4, <1>5, <2>1, <2>3 DEF Roles, Local, Placed, Paired, Once, Untouched, Late, Here, Written, Thread
        <3>5. Leading(r, "main")' /\ Leading(r, "child")' /\ Sharing(r)'
            BY <1>1, <1>2, <1>3, <1>4, <1>5, <2>1, <2>3 DEF Roles, Local, Placed, Paired, Once, Leading, Sharing, Here, Thread
        <3>6. Returning(r, "main")' /\ Returning(r, "child")'
            BY <1>1, <1>2, <1>3, <1>4, <1>5, <2>1, <2>3 DEF Roles, Local, Placed, Paired, Once, Leading, Returning, Here, Written, Thread
        <3>7. Failing(r)'
            BY <1>1, <1>2, <1>3, <1>4, <1>5, <2>1, <2>3 DEF Roles, Local, Placed, Paired, Once, Late, Failing, Failed, FailedMain, FailedChild, Excused, Here, Written,
                Thread
        <3> QED
            BY <1>1, <1>2, <1>3, <1>4, <1>5, <2>1, <2>3, <3>1, <3>2, <3>3, <3>4, <3>5, <3>6, <3>7 DEF Local
    <2> QED
        BY <2>2, <2>3 DEF Roles
<1>6. CASE err = "panic"
    <2>1. /\ Response("failed", r) \in Responses /\ Response("failed", r).status = "failed"
          /\ Write(r, role, Response("failed", r))
          /\ aborted'[r][role] /\ \A other \in Roles \ {role} : aborted'[r][other] = aborted[r][other]
        BY <1>6 DEF LeaveRecovery, Thread, Response, Responses, ResponseStatuses, Types
    <2>2. /\ Written(r, role)' = First(Written(r, role), Response("failed", r)) /\ Written(r, role)' # None
          /\ \A other \in Roles \ {role} : Written(r, other)' = Written(r, other)
        BY <2>1, WriteFacts
    <2>3. CASE role = "main"
        <3>1. r \notin expired
            BY <1>1, <1>6, <2>3 DEF Local, Late
        <3>2. wire'[r] # None /\ (wire'[r] = wire[r] \/ (wire[r] = None /\ wire'[r].status = "failed"))
              /\ buffer'[r] = buffer[r]
            <4>1. wire'[r] = First(wire[r], Response("failed", r)) /\ wire'[r] # None
                BY <2>2, <2>3 DEF Written
            <4>2. buffer'[r] = buffer[r]
                BY <2>2, <2>3 DEF Written, Roles
            <4> QED
                BY <2>1, <4>1, <4>2 DEF First
        <3>3. Failing(r)'
            BY <1>1, <1>2, <1>6, <2>1, <2>3, <3>2 DEF Local, Failing, Failed, Excused, FailedMain, FailedChild, Roles
        <3>4. Untouched(r)' /\ Late(r)'
            BY <1>1, <1>2, <2>1, <2>3, <3>1, <3>2 DEF Local, Untouched, Late, Roles
        <3>5. Placed(r, "main")' /\ Placed(r, "child")'
            BY <1>1, <1>2, <1>3, <1>4, <1>6, <2>3, <3>2, SMTT(30) DEF Roles, Local, Placed, Paired, Here, Thread
        <3>6. Paired(r)' /\ Once(r)'
            BY <1>1, <1>2, <1>3, <1>4, <1>6, <2>3, <3>2 DEF Roles, Local, Placed, Paired, Once, Here, Thread
        <3>7. Leading(r, "main")' /\ Leading(r, "child")' /\ Sharing(r)'
            BY <1>1, <1>2, <1>3, <1>4, <1>6, <2>3, <3>2 DEF Roles, Local, Placed, Paired, Once, Leading, Sharing, Here, Thread
        <3>8. Returning(r, "main")' /\ Returning(r, "child")'
            BY <1>1, <1>2, <1>3, <1>4, <1>6, <2>3, <3>2 DEF Roles, Local, Placed, Paired, Once, Leading, Returning, Here, Written, Thread
        <3> QED
            BY <1>1, <1>2, <1>3, <1>4, <1>6, <2>3, <3>2, <3>3, <3>4, <3>5, <3>6, <3>7, <3>8 DEF Local
    <2>4. CASE role = "child"
        <3>1. wire'[r] = wire[r]
            BY <2>2, <2>4 DEF Written, Roles
        <3>2. Excused
            <4>1. PICK t \in DOMAIN chain : chain[t] = "Timeout" /\ t <= Thread(r, "child").i
                BY <1>1, <2>4 DEF Local, Below
            <4>2. t < Thread(r, "child").i /\ chain[Thread(r, "child").i] = "Recovery"
                BY <1>1, <1>3, <2>4, <4>1 DEF Here, Thread
            <4> QED
                BY <1>3, <2>4, <4>1, <4>2 DEF Excused
        <3>3. ~Failed(r)
            BY <1>1, <1>6, <2>4, <3>2 DEF Local, Failing, Failed, FailedChild
        <3>4. Failing(r)' /\ Untouched(r)' /\ Late(r)'
            BY <1>1, <1>2, <2>1, <2>4, <3>1, <3>3 DEF Local, Failing, Failed, Excused, Untouched, Late, Roles
        <3>5. Placed(r, "main")' /\ Placed(r, "child")'
            BY <1>1, <1>2, <1>3, <1>4, <1>6, <2>4, <3>1, SMTT(30) DEF Roles, Local, Placed, Paired, Here, Thread
        <3>6. Paired(r)' /\ Once(r)'
            BY <1>1, <1>2, <1>3, <1>4, <1>6, <2>4, <3>1 DEF Roles, Local, Placed, Paired, Once, Here, Thread
        <3>7. Leading(r, "main")' /\ Leading(r, "child")' /\ Sharing(r)'
            BY <1>1, <1>2, <1>3, <1>4, <1>6, <2>4, <3>1 DEF Roles, Local, Placed, Paired, Once, Leading, Sharing, Here, Thread
        <3>8. Returning(r, "main")' /\ Returning(r, "child")'
            BY <1>1, <1>2, <1>3, <1>4, <1>6, <2>4, <3>1 DEF Roles, Local, Placed, Paired, Once, Leading, Returning, Here, Written, Thread
        <3> QED
            BY <1>1, <1>2, <1>3, <1>4, <1>6, <2>4, <3>1, <3>4, <3>5, <3>6, <3>7, <3>8 DEF Local
    <2> QED
        BY <2>3, <2>4 DEF Roles
<1> QED
    BY <1>5, <1>6

\* The replay of a leader's response, or the way down.
LEMMA ReleasedLocal ==
    ASSUME Types, NEW r \in Reqs, NEW role \in Roles, Local(r), Released(r, role)
    PROVE  Local(r)'
<1> DEFINE leader == Thread(r, role).err
<1>1. /\ Thread(r, role).at = "following"
      /\ \A other \in Roles \ {role} : Thread(r, other)' = Thread(r, other)
    BY GotoFacts DEF Released, Is, Return, CallNext, Thread
<1>2. UNCHANGED <<chain, call, outcome, expired>>
    BY DEF Released
<1>3. /\ Len(chain) \in Nat \ {0} /\ DOMAIN chain = 1..Len(chain) /\ chain[Len(chain)] = "Handler"
      /\ Thread(r, role).i \in 1..Len(chain) /\ Here(r, role) = "Singleflight" /\ "none" \in Errs
      /\ leader \in Reqs
    BY <1>1, Handed DEF Roles, Local, Placed, Errs
<1>4. call[r] = "none" /\ outcome[r] = "none"
    BY <1>1 DEF Local, Leading, Once, Roles
<1>5. CASE call[leader] = "shareable"
    <2>1. /\ Response("ok", leader) \in Responses /\ Write(r, role, Response("ok", leader))
          /\ \A other \in Roles \ {role} : aborted'[r][other] = aborted[r][other]
          /\ Thread(r, role)'.at = "up" /\ Thread(r, role)'.i = Thread(r, role).i - 1
          /\ Thread(r, role)'.err = "none"
        BY <1>3, <1>5, GotoFacts DEF Released, Return, Thread, Response, Responses, ResponseStatuses, Types
    <2>2. /\ Written(r, role)' # None /\ \A other \in Roles \ {role} : Written(r, other)' = Written(r, other)
        BY <2>1, WriteFacts
    <2>3. Below(r)'
        BY <1>1, <1>2, <1>3, <2>1, BelowMoves, BelowStays DEF Roles, Local, Here, Thread
    <2>4. CASE role = "main"
        <3>1. Placed(r, "main")'
            BY <1>1, <1>2, <1>3, <1>4, <2>1, <2>2, <2>3, <2>4, SMTT(30) DEF Roles, Local, Placed, Paired, Here, Thread
        <3>2. Placed(r, "child")'
            BY <1>1, <1>2, <1>3, <1>4, <2>1, <2>2, <2>3, <2>4, SMTT(30) DEF Roles, Local, Placed, Paired, Here, Thread
        <3>3. Paired(r)' /\ Once(r)'
            BY <1>1, <1>2, <1>3, <1>4, <2>1, <2>2, <2>3, <2>4 DEF Roles, Local, Placed, Paired, Once, Here, Thread
        <3>4. Untouched(r)' /\ Late(r)'
            BY <1>1, <1>2, <1>3, <1>4, <2>1, <2>2, <2>3, <2>4 DEF Roles, Local, Placed, Paired, Once, Untouched, Late, Here, Written, Thread
        <3>5. Leading(r, "main")' /\ Leading(r, "child")' /\ Sharing(r)'
            BY <1>1, <1>2, <1>3, <1>4, <2>1, <2>2, <2>3, <2>4 DEF Roles, Local, Placed, Paired, Once, Leading, Sharing, Here, Thread
        <3>6. Returning(r, "main")' /\ Returning(r, "child")'
            BY <1>1, <1>2, <1>3, <1>4, <2>1, <2>2, <2>3, <2>4 DEF Roles, Local, Placed, Paired, Once, Leading, Returning, Here, Written, Thread
        <3>7. Failing(r)'
            BY <1>1, <1>2, <1>3, <1>4, <2>1, <2>2, <2>3, <2>4 DEF Roles, Local, Placed, Paired, Once, Late, Failing, Failed, FailedMain, FailedChild, Excused, Here, Written,
                Thread
        <3> QED
            BY <1>1, <1>2, <1>3, <1>4, <2>1, <2>2, <2>3, <2>4, <3>1, <3>2, <3>3, <3>4, <3>5, <3>6, <3>7 DEF Local
    <2>5. CASE role = "child"
        <3>1. Placed(r, "main")'
            BY <1>1, <1>2, <1>3, <1>4, <2>1, <2>2, <2>3, <2>5, SMTT(30) DEF Roles, Local, Placed, Paired, Here, Thread
        <3>2. Placed(r, "child")'
            BY <1>1, <1>2, <1>3, <1>4, <2>1, <2>2, <2>3, <2>5, SMTT(30) DEF Roles, Local, Placed, Paired, Here, Thread
        <3>3. Paired(r)' /\ Once(r)'
            BY <1>1, <1>2, <1>3, <1>4, <2>1, <2>2, <2>3, <2>5 DEF Roles, Local, Placed, Paired, Once, Here, Thread
        <3>4. Untouched(r)' /\ Late(r)'
            BY <1>1, <1>2, <1>3, <1>4, <2>1, <2>2, <2>3, <2>5 DEF Roles, Local, Placed, Paired, Once, Untouched, Late, Here, Written, Thread
        <3>5. Leading(r, "main")' /\ Leading(r, "child")' /\ Sharing(r)'
            BY <1>1, <1>2, <1>3, <1>4, <2>1, <2>2, <2>3, <2>5 DEF Roles, Local, Placed, Paired, Once, Leading, Sharing, Here, Thread
        <3>6. Returning(r, "main")' /\ Returning(r, "child")'
            BY <1>1, <1>2, <1>3, <1>4, <2>1, <2>2, <2>3, <2>5 DEF Roles, Local, Placed, Paired, Once, Leading, Returning, Here, Written, Thread
        <3>7. Failing(r)'
            BY <1>1, <1>2, <1>3, <1>4, <2>1, <2>2, <2>3, <2>5 DEF Roles, Local, Placed, Paired, Once, Late, Failing, Failed, FailedMain, FailedChild, Excused, Here, Written,
                Thread
        <3> QED
            BY <1>1, <1>2, <1>3, <1>4, <2>1, <2>2, <2>3, <2>5, <3>1, <3>2, <3>3, <3>4, <3>5, <3>6, <3>7 DEF Local
    <2> QED
        BY <2>4, <2>5 DEF Roles
<1>6. CASE call[leader] # "shareable"
    <2>1. /\ UNCHANGED <<aborted, wire, buffer>>
          /\ Thread(r, role)'.at = "down" /\ Thread(r, role)'.i = Thread(r, role).i + 1
        BY <1>6, GotoFacts DEF Released, CallNext, Thread
    <2>2. Below(r)'
        BY <1>1, <1>2, <2>1, BelowMoves, BelowStays DEF Roles, Local
    <2>3. CASE role = "main"
        <3>1. Placed(r, "main")'
            BY <1>1, <1>2, <1>3, <1>4, <2>1, <2>2, <2>3, SMTT(30) DEF Roles, Local, Placed, Paired, Here, Thread
        <3>2. Placed(r, "child")'
            BY <1>1, <1>2, <1>3, <1>4, <2>1, <2>2, <2>3, SMTT(30) DEF Roles, Local, Placed, Paired, Here, Thread
        <3>3. Paired(r)' /\ Once(r)'
            BY <1>1, <1>2, <1>3, <1>4, <2>1, <2>2, <2>3 DEF Roles, Local, Placed, Paired, Once, Here, Thread
        <3>4. Untouched(r)' /\ Late(r)'
            BY <1>1, <1>2, <1>3, <1>4, <2>1, <2>2, <2>3 DEF Roles, Local, Placed, Paired, Once, Untouched, Late, Here, Written, Thread
        <3>5. Leading(r, "main")' /\ Leading(r, "child")' /\ Sharing(r)'
            BY <1>1, <1>2, <1>3, <1>4, <2>1, <2>2, <2>3 DEF Roles, Local, Placed, Paired, Once, Leading, Sharing, Here, Thread
        <3>6. Returning(r, "main")' /\ Returning(r, "child")'
            BY <1>1, <1>2, <1>3, <1>4, <2>1, <2>2, <2>3 DEF Roles, Local, Placed, Paired, Once, Leading, Returning, Here, Written, Thread
        <3>7. Failing(r)'
            BY <1>1, <1>2, <1>3, <1>4, <2>1, <2>2, <2>3 DEF Roles, Local, Placed, Paired, Once, Late, Failing, Failed, FailedMain, FailedChild, Excused, Here, Written,
                Thread
        <3> QED
            BY <1>1, <1>2, <1>3, <1>4, <2>1, <2>2, <2>3, <3>1, <3>2, <3>3, <3>4, <3>5, <3>6, <3>7 DEF Local
    <2>4. CASE role = "child"
        <3>1. Placed(r, "main")'
            BY <1>1, <1>2, <1>3, <1>4, <2>1, <2>2, <2>4, SMTT(30) DEF Roles, Local, Placed, Paired, Here, Thread
        <3>2. Placed(r, "child")'
            BY <1>1, <1>2, <1>3, <1>4, <2>1, <2>2, <2>4, SMTT(30) DEF Roles, Local, Placed, Paired, Here, Thread
        <3>3. Paired(r)' /\ Once(r)'
            BY <1>1, <1>2, <1>3, <1>4, <2>1, <2>2, <2>4 DEF Roles, Local, Placed, Paired, Once, Here, Thread
        <3>4. Untouched(r)' /\ Late(r)'
            BY <1>1, <1>2, <1>3, <1>4, <2>1, <2>2, <2>4 DEF Roles, Local, Placed, Paired, Once, Untouched, Late, Here, Written, Thread
        <3>5. Leading(r, "main")' /\ Leading(r, "child")' /\ Sharing(r)'
            BY <1>1, <1>2, <1>3, <1>4, <2>1, <2>2, <2>4 DEF Roles, Local, Placed, Paired, Once, Leading, Sharing, Here, Thread
        <3>6. Returning(r, "main")' /\ Returning(r, "child")'
            BY <1>1, <1>2, <1>3, <1>4, <2>1, <2>2, <2>4 DEF Roles, Local, Placed, Paired, Once, Leading, Returning, Here, Written, Thread
        <3>7. Failing(r)'
            BY <1>1, <1>2, <1>3, <1>4, <2>1, <2>2, <2>4 DEF Roles, Local, Placed, Paired, Once, Late, Failing, Failed, FailedMain, FailedChild, Excused, Here, Written,
                Thread
        <3> QED
            BY <1>1, <1>2, <1>3, <1>4, <2>1, <2>2, <2>4, <3>1, <3>2, <3>3, <3>4, <3>5, <3>6, <3>7 DEF Local
    <2> QED
        BY <2>3, <2>4 DEF Roles
<1> QED
    BY <1>5, <1>6

\* What the handler wrote, and the error it returned.
WrittenBy(o, r) ==
    IF o \in {"ok", "private", "partial"} THEN Response("ok", r)
    ELSE IF o = "refused" THEN Response("refused", r) ELSE None
ReturnsFromServe(o) ==
    IF o \in {"error", "partial"} THEN "error" ELSE IF o = "panic" THEN "panic" ELSE "none"

Handled(r, role, o) ==
    /\ outcome' = [outcome EXCEPT ![r] = o]
    /\ Written(r, role)' = WrittenBy(o, r)
    /\ \A other \in Roles \ {role} : Written(r, other)' = Written(r, other)
    /\ \A s \in Reqs \ {r} : wire'[s] = wire[s] /\ buffer'[s] = buffer[s]
    /\ wire' \in [Reqs -> Responses \cup {None}] /\ buffer' \in [Reqs -> Responses \cup {None}]
    /\ aborted' = [aborted EXCEPT ![r][role] = aborted[r][role] \/ o = "refused"]
    /\ \/ /\ o # "hang"
          /\ Thread(r, role)'.at = "up" /\ Thread(r, role)'.i = Thread(r, role).i - 1
          /\ Thread(r, role)'.err = ReturnsFromServe(o)
       \/ o = "hang" /\ Thread(r, role)'.at = "stuck"
    /\ \A other \in Roles \ {role} : Thread(r, other)' = Thread(r, other)
    /\ \A s \in Reqs \ {r} : pc'[s] = pc[s]
    /\ pc' \in [Reqs -> [Roles -> [at : Places, i : Int, err : Errs \cup Reqs]]]

LEMMA HandleFacts ==
    ASSUME Types, NEW r \in Reqs, NEW role \in Roles, Local(r), Handle(r, role)
    PROVE  \E o \in AllOutcomes : Handled(r, role, o)
<1>1. PICK o \in Outcomes :
         /\ outcome' = [outcome EXCEPT ![r] = o]
         /\ CASE o \in {"ok", "private"} -> Write(r, role, Response("ok", r)) /\ Return(r, role, "none")
              [] o = "refused" -> Write(r, role, Response("refused", r)) /\ Return(r, role, "none")
              [] o = "partial" -> Write(r, role, Response("ok", r)) /\ Return(r, role, "error")
              [] o = "error" -> UNCHANGED <<wire, buffer>> /\ Return(r, role, "error")
              [] o = "panic" -> UNCHANGED <<wire, buffer>> /\ Return(r, role, "panic")
              [] o = "hang" -> UNCHANGED <<wire, buffer>> /\ Goto(r, role, "stuck", 0, "none")
         /\ aborted' = [aborted EXCEPT ![r][role] = aborted[r][role] \/ o = "refused"]
    BY DEF Handle
<1>2. o \in AllOutcomes
    BY ChainsAssumption
<1>3. Written(r, role) = None /\ Thread(r, role).i - 1 \in Int
    BY ThreadTypes DEF Local, Untouched, Handle, Is, Thread, Written, Roles
<1>4. /\ Written(r, role)' = WrittenBy(o, r)
      /\ \A other \in Roles \ {role} : Written(r, other)' = Written(r, other)
      /\ \A s \in Reqs \ {r} : wire'[s] = wire[s] /\ buffer'[s] = buffer[s]
      /\ wire' \in [Reqs -> Responses \cup {None}] /\ buffer' \in [Reqs -> Responses \cup {None}]
    <2>1. ASSUME NEW code \in {"ok", "refused"}, Write(r, role, Response(code, r))
          PROVE  /\ Written(r, role)' = Response(code, r)
                 /\ \A other \in Roles \ {role} : Written(r, other)' = Written(r, other)
                 /\ \A s \in Reqs \ {r} : wire'[s] = wire[s] /\ buffer'[s] = buffer[s]
                 /\ wire' \in [Reqs -> Responses \cup {None}] /\ buffer' \in [Reqs -> Responses \cup {None}]
        <3>1. Response(code, r) \in Responses
            BY DEF Response, Responses, ResponseStatuses
        <3> QED
            BY <1>3, <2>1, <3>1, WriteFacts DEF First
    <2>2. CASE o \in {"ok", "private", "partial"}
        BY <1>1, <2>1, <2>2 DEF WrittenBy
    <2>3. CASE o = "refused"
        BY <1>1, <2>1, <2>3 DEF WrittenBy
    <2>4. CASE o \in {"error", "panic", "hang"}
        BY <1>1, <1>3, <2>4 DEF WrittenBy, Written, Types
    <2> QED
        BY <1>2, <2>2, <2>3, <2>4 DEF AllOutcomes
<1>5. /\ \/ /\ o # "hang"
            /\ Thread(r, role)'.at = "up" /\ Thread(r, role)'.i = Thread(r, role).i - 1
            /\ Thread(r, role)'.err = ReturnsFromServe(o)
         \/ o = "hang" /\ Thread(r, role)'.at = "stuck"
      /\ \A other \in Roles \ {role} : Thread(r, other)' = Thread(r, other)
      /\ \A s \in Reqs \ {r} : pc'[s] = pc[s]
      /\ pc' \in [Reqs -> [Roles -> [at : Places, i : Int, err : Errs \cup Reqs]]]
    <2>1. CASE o # "hang"
        <3>1. Goto(r, role, "up", Thread(r, role).i - 1, ReturnsFromServe(o))
            BY <1>1, <1>2, <2>1 DEF AllOutcomes, Return, ReturnsFromServe, Thread
        <3>2. "up" \in Places /\ ReturnsFromServe(o) \in Errs
            BY DEF Places, Errs, ReturnsFromServe
        <3> QED
            BY <1>3, <2>1, <3>1, <3>2, GotoFacts
    <2>2. CASE o = "hang"
        <3>1. Goto(r, role, "stuck", 0, "none") /\ "stuck" \in Places /\ "none" \in Errs
            BY <1>1, <2>2 DEF Places, Errs
        <3> QED
            BY <2>2, <3>1, GotoFacts
    <2> QED
        BY <2>1, <2>2
<1> QED
    BY <1>1, <1>2, <1>4, <1>5 DEF Handled

LEMMA HandleLocal ==
    ASSUME Types, NEW r \in Reqs, NEW role \in Roles, Local(r), Handle(r, role)
    PROVE  Local(r)'
<1>0. PICK o \in AllOutcomes : Handled(r, role, o)
    BY HandleFacts
<1>1. /\ outcome' = [outcome EXCEPT ![r] = o]
      /\ Written(r, role)' = WrittenBy(o, r)
      /\ \A other \in Roles \ {role} : Written(r, other)' = Written(r, other)
      /\ aborted' = [aborted EXCEPT ![r][role] = aborted[r][role] \/ o = "refused"]
      /\ \/ /\ o # "hang"
            /\ Thread(r, role)'.at = "up" /\ Thread(r, role)'.i = Thread(r, role).i - 1
            /\ Thread(r, role)'.err = ReturnsFromServe(o)
         \/ o = "hang" /\ Thread(r, role)'.at = "stuck"
      /\ \A other \in Roles \ {role} : Thread(r, other)' = Thread(r, other)
    BY <1>0 DEF Handled
<1>2. UNCHANGED <<chain, call, expired>> /\ outcome'[r] = o
      /\ Thread(r, role).at = "down" /\ Here(r, role) = "Handler"
    BY <1>1 DEF Handle, Types, Is, Thread
<1>3. /\ Len(chain) \in Nat \ {0} /\ DOMAIN chain = 1..Len(chain) /\ Thread(r, role).i \in 1..Len(chain)
      /\ ReturnsFromServe(o) \in Errs
    BY <1>2, Handed DEF Roles, Local, Placed, Errs, ReturnsFromServe
<1>4. /\ aborted'[r][role] <=> o = "refused"
      /\ \A other \in Roles \ {role} : aborted'[r][other] = aborted[r][other]
    <2>1. ~aborted[r][role] /\ aborted[r] \in [Roles -> BOOLEAN]
        BY <1>2 DEF Types, Local, Untouched, Roles
    <2> QED
        BY <1>1, <2>1 DEF Types
<1>5. outcome[r] = "none" /\ call[r] # "shareable"
    BY <1>2 DEF Local, Once, Sharing, Roles
<1>6. Below(r)'
    BY <1>1, <1>2, BelowMoves, BelowStays DEF Roles, Local, Here, Thread, Below
<1>7. Placed(r, "main")' /\ Placed(r, "child")' /\ Paired(r)' /\ Once(r)' /\ Sharing(r)' /\ Late(r)'
      /\ Leading(r, "main")' /\ Leading(r, "child")' /\ Untouched(r)'
    <2>1. CASE role = "main"
        <3>1. Placed(r, "main")'
            BY <1>1, <1>2, <1>3, <1>4, <1>5, <2>1, SMTT(30) DEF Roles, Local, Placed, Paired, Here, Thread
        <3>2. Placed(r, "child")'
            BY <1>1, <1>2, <1>3, <1>4, <1>5, <2>1, SMTT(30) DEF Roles, Local, Placed, Paired, Here, Thread
        <3>3. Paired(r)' /\ Once(r)' /\ Sharing(r)'
            BY <1>1, <1>2, <1>3, <1>4, <1>5, <2>1 DEF Roles, Local, Paired, Once, Sharing, Here, Thread
        <3>4. Late(r)' /\ Untouched(r)'
            BY <1>1, <1>2, <1>3, <1>4, <1>5, <2>1 DEF Roles, Local, Paired, Once, Late, Untouched, Here, Written, Thread
        <3>5. Leading(r, "main")' /\ Leading(r, "child")'
            BY <1>1, <1>2, <1>3, <1>4, <1>5, <2>1 DEF Roles, Local, Paired, Once, Leading, Here, Thread
        <3> QED
            BY <3>1, <3>2, <3>3, <3>4, <3>5
    <2>2. CASE role = "child"
        <3>1. Placed(r, "main")'
            BY <1>1, <1>2, <1>3, <1>4, <1>5, <2>2, SMTT(30) DEF Roles, Local, Placed, Paired, Here, Thread
        <3>2. Placed(r, "child")'
            BY <1>1, <1>2, <1>3, <1>4, <1>5, <2>2, SMTT(30) DEF Roles, Local, Placed, Paired, Here, Thread
        <3>3. Paired(r)' /\ Once(r)' /\ Sharing(r)'
            BY <1>1, <1>2, <1>3, <1>4, <1>5, <2>2 DEF Roles, Local, Paired, Once, Sharing, Here, Thread
        <3>4. Late(r)' /\ Untouched(r)'
            BY <1>1, <1>2, <1>3, <1>4, <1>5, <2>2 DEF Roles, Local, Paired, Once, Late, Untouched, Here, Written, Thread
        <3>5. Leading(r, "main")' /\ Leading(r, "child")'
            BY <1>1, <1>2, <1>3, <1>4, <1>5, <2>2 DEF Roles, Local, Paired, Once, Leading, Here, Thread
        <3> QED
            BY <3>1, <3>2, <3>3, <3>4, <3>5
    <2> QED
        BY <2>1, <2>2 DEF Roles
<1>8. Returning(r, "main")' /\ Returning(r, "child")'
    <2>1. CASE role = "main"
        BY <1>1, <1>2, <1>4, <2>1 DEF Local, Paired, Returning, ReturnsFromServe, WrittenBy, Roles, Written, AllOutcomes, Thread
    <2>2. CASE role = "child"
        BY <1>1, <1>2, <1>4, <2>2 DEF Local, Paired, Late, Returning, ReturnsFromServe, WrittenBy, Roles, Written, AllOutcomes, Thread
    <2> QED
        BY <2>1, <2>2 DEF Roles
<1>9. Failing(r)'
    <2> SUFFICES ASSUME o = "error" \/ o = "panic"
                 PROVE  FailedMain(r)' /\ FailedChild(r)'
        BY <1>2 DEF Failing, Failed
    <2>1. CASE role = "main"
        BY <1>1, <1>2, <1>4, <2>1 DEF Local, Paired, Untouched, FailedMain, FailedChild, ReturnsFromServe, WrittenBy, Roles,
            Written, Thread
    <2>2. CASE role = "child"
        <3>1. FailedChild(r)'
            BY <1>1, <1>2, <1>4, <2>2 DEF FailedChild, ReturnsFromServe, Roles, Thread
        <3>2. /\ Thread(r, "main")' = Thread(r, "main") /\ wire'[r] = wire[r]
              /\ aborted'[r]["main"] = aborted[r]["main"]
            BY <1>1, <1>4, <2>2 DEF Written, Roles
        <3>3. Thread(r, "main").at = "waiting" \/ r \in expired
            BY <1>2, <2>2 DEF Local, Paired
        <3>4. CASE Thread(r, "main").at = "waiting"
            BY <3>1, <3>2, <3>4 DEF Local, Untouched, FailedMain
        <3>5. CASE r \in expired
            <4>1. Response("timeout", r).status = "timeout"
                BY DEF Response
            <4> QED
                BY <3>1, <3>2, <3>5, <4>1 DEF Local, Late, FailedMain
        <3> QED
            BY <3>1, <3>3, <3>4, <3>5
    <2> QED
        BY <2>1, <2>2 DEF Roles
<1> QED
    BY <1>6, <1>7, <1>8, <1>9 DEF Local

-----------------------------------------------------------------------------
(* Requests: what relates all of them.                                     *)

Step(r) == Serve(r) \/ Work(r) \/ Deadline(r) \/ ClientLeaves(r)

LEMMA StepLocal ==
    ASSUME Types, FlightsOfKey, NEW r \in Reqs, Local(r), Step(r)
    PROVE  Local(r)'
<1>1. CASE Crash(r) \/ ClientLeaves(r)
    BY <1>1, OtherRequestsKeep DEF Crash, ClientLeaves
<1>2. ASSUME NEW role \in Roles,
             \/ Handle(r, role) \/ EnterRecovery(r, role) \/ LeaveRecovery(r, role)
             \/ Lead(r, role) \/ Follow(r, role) \/ LeaveSingleflight(r, role)
             \/ Released(r, role) \/ StopFollowing(r, role)
      PROVE  Local(r)'
    BY <1>2, HandleLocal, EnterRecoveryLocal, LeaveRecoveryLocal, LeadLocal, FollowLocal,
        LeaveSingleflightLocal, ReleasedLocal, StopFollowingLocal
<1>3. CASE Serve(r) \/ StartTimeout(r) \/ AdoptChild(r) \/ Deadline(r) \/ AbandonedChildEnds(r) \/ Finish(r)
    BY <1>3, ServeLocal, StartTimeoutLocal, AdoptChildLocal, DeadlineLocal, AbandonedChildEndsLocal, FinishLocal
<1> QED
    BY <1>1, <1>2, <1>3 DEF Step, Work

\* Types, and a step of r is one of r alone.
PcType == [Reqs -> [Roles -> [at : Places, i : Int, err : Errs \cup Reqs]]]
OfOne(r) == \A s \in Reqs \ {r} : /\ pc'[s] = pc[s] /\ aborted'[s] = aborted[s]
                                  /\ wire'[s] = wire[s] /\ buffer'[s] = buffer[s]
                                  /\ call'[s] = call[s] /\ outcome'[s] = outcome[s]
                                  /\ s \in expired' <=> s \in expired

LEMMA MoveTypes ==
    ASSUME Types, NEW r \in Reqs, NEW role \in Roles, NEW where \in Places, NEW i \in Int, NEW err \in Errs \cup Reqs,
           Goto(r, role, where, i, err)
    PROVE  pc' \in PcType /\ \A s \in Reqs \ {r} : pc'[s] = pc[s]
BY GotoFacts DEF PcType

LEMMA Aborting ==
    ASSUME Types, NEW r \in Reqs, NEW role \in Roles,
           aborted' = aborted \/ aborted' = [aborted EXCEPT ![r][role] = TRUE]
    PROVE  /\ aborted' \in [Reqs -> [Roles -> BOOLEAN]]
           /\ \A s \in Reqs \ {r} : aborted'[s] = aborted[s]
<1>1. aborted \in [Reqs -> [Roles -> BOOLEAN]]
    BY DEF Types
<1>2. CASE aborted' = aborted
    BY <1>1, <1>2
<1>3. CASE aborted' = [aborted EXCEPT ![r][role] = TRUE]
    <2>1. [aborted[r] EXCEPT ![role] = TRUE] \in [Roles -> BOOLEAN]
        BY <1>1
    <2>2. aborted' = [aborted EXCEPT ![r] = [aborted[r] EXCEPT ![role] = TRUE]]
        BY <1>3
    <2> QED
        BY <1>1, <2>1, <2>2
<1> QED
    BY <1>2, <1>3

LEMMA ThreadStep ==
    ASSUME Types, NEW r \in Reqs, NEW role \in Roles, Local(r),
           \/ Handle(r, role) \/ EnterRecovery(r, role) \/ LeaveRecovery(r, role)
           \/ Lead(r, role) \/ Follow(r, role) \/ LeaveSingleflight(r, role)
           \/ Released(r, role) \/ StopFollowing(r, role)
    PROVE  Types' /\ OfOne(r)
<1> USE DEF Thread
<1>1. /\ Thread(r, role).i \in Int /\ Thread(r, role).err \in Errs \cup Reqs /\ KeyOf[r] \in Keys
      /\ {"none", "error", "panic", "canceled"} \subseteq Errs /\ {"down", "up", "following"} \subseteq Places
      /\ Thread(r, role).i + 1 \in Int /\ Thread(r, role).i - 1 \in Int
    BY ThreadTypes DEF Keys, Errs, Places
<1>2. Thread(r, role).at = "up" => Thread(r, role).err \in Errs
    BY DEF Local, Placed, Roles
<1>3. CASE Handle(r, role)
    <2>1. PICK o \in AllOutcomes : Handled(r, role, o)
        BY <1>3, HandleFacts
    <2>2. outcome' \in [Reqs -> AllOutcomes \cup {"none"}] /\ aborted' \in [Reqs -> [Roles -> BOOLEAN]]
        BY <2>1 DEF Handled, Types
    <2>3. \A s \in Reqs \ {r} : outcome'[s] = outcome[s] /\ aborted'[s] = aborted[s]
        BY <2>1 DEF Handled, Types
    <2> QED
        BY <1>3, <2>1, <2>2, <2>3 DEF Handled, Handle, Types, OfOne
<1>4. CASE EnterRecovery(r, role)
    BY <1>1, <1>4, MoveTypes DEF EnterRecovery, CallNext, Types, OfOne, PcType
<1>5. CASE LeaveRecovery(r, role)
    <2>1. Response("failed", r) \in Responses
        BY DEF Response, Responses, ResponseStatuses
    <2>2. /\ wire' \in [Reqs -> Responses \cup {None}] /\ buffer' \in [Reqs -> Responses \cup {None}]
          /\ \A s \in Reqs \ {r} : wire'[s] = wire[s] /\ buffer'[s] = buffer[s]
        BY <1>5, <2>1, WriteFacts DEF LeaveRecovery, Types
    <2>3. /\ aborted' \in [Reqs -> [Roles -> BOOLEAN]]
          /\ \A s \in Reqs \ {r} : aborted'[s] = aborted[s]
        <3>1. aborted' = aborted \/ aborted' = [aborted EXCEPT ![r][role] = TRUE]
            BY <1>5 DEF LeaveRecovery
        <3> QED
            BY <3>1, Aborting
    <2>4. pc' \in PcType /\ \A s \in Reqs \ {r} : pc'[s] = pc[s]
        BY <1>1, <1>5, MoveTypes DEF LeaveRecovery, Return
    <2> QED
        BY <1>5, <2>2, <2>3, <2>4 DEF LeaveRecovery, Types, OfOne, PcType
<1>6. CASE Lead(r, role)
    BY <1>1, <1>6, MoveTypes DEF Lead, CallNext, Types, OfOne, PcType
<1>7. CASE Follow(r, role)
    <2>1. flight[KeyOf[r]] \in Reqs
        BY <1>1, <1>7 DEF Follow, Types
    <2> QED
        BY <1>1, <1>7, <2>1, MoveTypes DEF Follow, Types, OfOne, PcType
<1>8. CASE LeaveSingleflight(r, role)
    <2>1. pc' \in PcType /\ \A s \in Reqs \ {r} : pc'[s] = pc[s]
        BY <1>1, <1>8, MoveTypes DEF LeaveSingleflight, Return
    <2>2. /\ call' \in [Reqs -> {"none", "open", "shareable", "closed"}] /\ flight' \in [Keys -> Reqs \cup {None}]
          /\ \A s \in Reqs \ {r} : call'[s] = call[s]
        BY <1>1, <1>8 DEF LeaveSingleflight, FlightsAfter, Types
    <2> QED
        BY <1>8, <2>1, <2>2 DEF LeaveSingleflight, Types, OfOne, PcType
<1>9. CASE Released(r, role)
    <2>1. pc' \in PcType /\ \A s \in Reqs \ {r} : pc'[s] = pc[s]
        BY <1>1, <1>9, MoveTypes DEF Released, Return, CallNext
    <2>2. Response("ok", pc[r][role].err) \in Responses
        BY <1>9 DEF Released, Is, Local, Placed, Roles, Response, Responses, ResponseStatuses
    <2>3. /\ wire' \in [Reqs -> Responses \cup {None}] /\ buffer' \in [Reqs -> Responses \cup {None}]
          /\ \A s \in Reqs \ {r} : wire'[s] = wire[s] /\ buffer'[s] = buffer[s]
        BY <1>9, <2>2, WriteFacts DEF Released, Types
    <2>4. /\ aborted' \in [Reqs -> [Roles -> BOOLEAN]]
          /\ \A s \in Reqs \ {r} : aborted'[s] = aborted[s]
        <3>1. aborted' = aborted \/ aborted' = [aborted EXCEPT ![r][role] = TRUE]
            BY <1>9 DEF Released
        <3> QED
            BY <3>1, Aborting
    <2> QED
        BY <1>9, <2>1, <2>3, <2>4 DEF Released, Types, OfOne, PcType
<1>10. CASE StopFollowing(r, role)
    BY <1>1, <1>10, MoveTypes DEF StopFollowing, Return, Types, OfOne, PcType
<1> QED
    BY <1>3, <1>4, <1>5, <1>6, <1>7, <1>8, <1>9, <1>10

LEMMA StepTypes ==
    ASSUME Types, NEW r \in Reqs, Local(r), Step(r)
    PROVE  Types' /\ OfOne(r)
<1> USE DEF Thread
<1>1. /\ {"main", "child"} = Roles /\ {"none", "timeout"} \subseteq Errs
      /\ {"down", "up", "end", "waiting"} \subseteq Places /\ 0 \in Int /\ 1 \in Int
      /\ Thread(r, "main").i \in Int /\ Thread(r, "child").err \in Errs \cup Reqs
      /\ Thread(r, "main").i + 1 \in Int /\ Thread(r, "main").i - 1 \in Int
    BY ThreadTypes DEF Roles, Errs, Places
<1>2. CASE Crash(r) \/ ClientLeaves(r)
    BY <1>2 DEF Crash, ClientLeaves, Types, OfOne
<1>3. CASE Serve(r)
    BY <1>1, <1>3, MoveTypes DEF Serve, Types, OfOne, PcType
<1>4. CASE StartTimeout(r)
    <2>1. pc' \in PcType /\ \A s \in Reqs \ {r} : pc'[s] = pc[s]
        BY <1>1, <1>4 DEF StartTimeout, Types, PcType, At
    <2> QED
        BY <1>4, <2>1 DEF StartTimeout, Types, OfOne, PcType
<1>5. CASE AdoptChild(r)
    <2>1. pc' \in PcType /\ \A s \in Reqs \ {r} : pc'[s] = pc[s]
        BY <1>1, <1>5 DEF AdoptChild, Types, PcType, At
    <2>2. Response("ok", None) \in Responses
        BY DEF Response, Responses, ResponseStatuses
    <2>3. wire' \in [Reqs -> Responses \cup {None}] /\ \A s \in Reqs \ {r} : wire'[s] = wire[s]
        BY <1>5, <2>2 DEF AdoptChild, Types, First, Committed
    <2>4. aborted' \in [Reqs -> [Roles -> BOOLEAN]] /\ \A s \in Reqs \ {r} : aborted'[s] = aborted[s]
        BY <1>1, <1>5 DEF AdoptChild, Types
    <2> QED
        BY <1>5, <2>1, <2>3, <2>4 DEF AdoptChild, Types, OfOne, PcType
<1>6. CASE Deadline(r)
    BY <1>1, <1>6, MoveTypes DEF Deadline, Return, Types, OfOne, PcType
<1>7. CASE AbandonedChildEnds(r)
    BY <1>1, <1>7, MoveTypes DEF AbandonedChildEnds, Types, OfOne, PcType
<1>8. CASE Finish(r)
    <2>1. pc' \in PcType /\ \A s \in Reqs \ {r} : pc'[s] = pc[s]
        BY <1>1, <1>8, MoveTypes DEF Finish
    <2>2. \A code \in ResponseStatuses : Response(code, r) \in Responses /\ Response(code, None) \in Responses
        BY DEF Response, Responses
    <2>3. wire' \in [Reqs -> Responses \cup {None}] /\ \A s \in Reqs \ {r} : wire'[s] = wire[s]
        BY <1>8, <2>2 DEF Finish, Types, First, ErrorResponse, Status, ResponseStatuses
    <2> QED
        BY <1>8, <2>1, <2>3 DEF Finish, Types, OfOne, PcType
<1>9. ASSUME NEW role \in Roles,
             \/ Handle(r, role) \/ EnterRecovery(r, role) \/ LeaveRecovery(r, role)
             \/ Lead(r, role) \/ Follow(r, role) \/ LeaveSingleflight(r, role)
             \/ Released(r, role) \/ StopFollowing(r, role)
      PROVE  Types' /\ OfOne(r)
    BY <1>9, ThreadStep
<1> QED
    BY <1>2, <1>3, <1>4, <1>5, <1>6, <1>7, <1>8, <1>9 DEF Step, Work

\* A leader's call goes from open to closed or shareable, and stays there.
LEMMA CallsAdvance ==
    ASSUME Types, NEW r \in Reqs, Local(r), Step(r)
    PROVE  \A s \in Reqs : /\ call[s] # "none" => call'[s] # "none"
                           /\ call[s] = "shareable" => call'[s] = "shareable"
<1>1. CASE \E role \in Roles : Lead(r, role)
    <2>1. PICK role \in Roles : Lead(r, role)
        BY <1>1
    <2>2. call[r] = "none"
        BY <2>1, LeadLocal
    <2> QED
        BY <2>1, <2>2 DEF Lead, Types
<1>2. CASE \E role \in Roles : LeaveSingleflight(r, role)
    BY <1>2 DEF LeaveSingleflight, Closes, Types
<1>3. CASE call' = call
    BY <1>3
<1> QED
    BY <1>1, <1>2, <1>3 DEF Step, Work, Serve, Handle, EnterRecovery, LeaveRecovery, Follow, Released, StopFollowing,
        StartTimeout, AdoptChild, AbandonedChildEnds, Crash, Finish, Deadline, ClientLeaves

LEMMA StepFlights ==
    ASSUME Types, \A s \in Reqs : Local(s), FlightsOfKey, OneFlight, NEW r \in Reqs, Step(r)
    PROVE  FlightsOfKey' /\ OneFlight'
<1> DEFINE Consistent == \A s \in Reqs : call[s] = "open" <=> flight[KeyOf[s]] = s
           Waiting == \A s \in Reqs, role \in Roles :
                         Thread(s, role).at = "following" => call[Thread(s, role).err] # "none"
<1>1. \A s \in Reqs : KeyOf[s] \in Keys
    BY DEF Keys
<1>2. Consistent /\ Waiting
    BY DEF OneFlight, Thread
<1>3. FlightsOfKey' /\ Consistent'
    <2>1. CASE \E role \in Roles : Lead(r, role)
        <3>1. PICK role \in Roles : Lead(r, role)
            BY <2>1
        <3>2. /\ flight[KeyOf[r]] = None /\ flight' = [flight EXCEPT ![KeyOf[r]] = r]
              /\ call' = [call EXCEPT ![r] = "open"]
            BY <3>1 DEF Lead
        <3>3. FlightsOfKey'
            BY <1>1, <3>2 DEF FlightsOfKey, Types
        <3> QED
            BY <1>1, <1>2, <3>2, <3>3, ChainsAssumption DEF Types
    <2>2. CASE \E role \in Roles : LeaveSingleflight(r, role)
        <3>1. PICK role \in Roles : LeaveSingleflight(r, role)
            BY <2>2
        <3>2. CASE Closes(r, role)
            <4>1. /\ flight[KeyOf[r]] = r /\ flight' = [flight EXCEPT ![KeyOf[r]] = None]
                  /\ call' = [call EXCEPT ![r] = IF Shareable(r, role) THEN "shareable" ELSE "closed"]
                BY <1>2, <3>1, <3>2 DEF LeaveSingleflight, Closes, FlightsAfter
            <4>2. FlightsOfKey'
                BY <1>1, <4>1 DEF FlightsOfKey, Types
            <4> QED
                BY <1>1, <1>2, <4>1, <4>2, ChainsAssumption DEF Types
        <3>3. CASE ~Closes(r, role)
            BY <1>2, <3>1, <3>3 DEF LeaveSingleflight, FlightsOfKey
        <3> QED
            BY <3>2, <3>3
    <2>3. CASE UNCHANGED <<call, flight>>
        BY <1>2, <2>3 DEF FlightsOfKey
    <2> QED
        BY <2>1, <2>2, <2>3 DEF Step, Work, Serve, Handle, EnterRecovery, LeaveRecovery, Follow, Released,
            StopFollowing, StartTimeout, AdoptChild, AbandonedChildEnds, Crash, Finish, Deadline, ClientLeaves
<1>4. Waiting'
    <2> SUFFICES ASSUME NEW s \in Reqs, NEW role \in Roles, Thread(s, role)'.at = "following"
                 PROVE  call'[Thread(s, role)'.err] # "none"
        BY DEF Thread
    <2>1. CASE Thread(s, role)' = Thread(s, role)
        <3>1. Thread(s, role).err \in Reqs
            BY <2>1 DEF Local, Placed, Roles
        <3> QED
            BY <1>2, <2>1, <3>1, CallsAdvance
    <2>2. CASE Thread(s, role)' # Thread(s, role)
        <3>1. s = r
            BY <2>2, StepTypes DEF OfOne, Thread
        <3>2. Follow(r, role)
            <4>1. ASSUME NEW other \in Roles,
                         \/ EnterRecovery(r, other) \/ LeaveRecovery(r, other) \/ Lead(r, other)
                         \/ LeaveSingleflight(r, other) \/ Released(r, other) \/ StopFollowing(r, other)
                  PROVE  FALSE
                <5>1. /\ Thread(r, other)'.at \in {"up", "down"}
                      /\ \A third \in Roles \ {other} : Thread(r, third)' = Thread(r, third)
                    BY <4>1, GotoFacts DEF EnterRecovery, LeaveRecovery, Lead, LeaveSingleflight, Released,
                        StopFollowing, CallNext, Return
                <5> QED
                    BY <2>2, <3>1, <5>1
            <4>2. ASSUME NEW other \in Roles, Handle(r, other) PROVE FALSE
                <5>1. PICK o \in AllOutcomes : Handled(r, other, o)
                    BY <4>2, HandleFacts
                <5> QED
                    BY <2>2, <3>1, <5>1 DEF Handled
            <4>3. ASSUME NEW other \in Roles, Follow(r, other) PROVE role = other
                <5>1. \A third \in Roles \ {other} : Thread(r, third)' = Thread(r, third)
                    BY <4>3, GotoFacts DEF Follow
                <5> QED
                    BY <2>2, <3>1, <5>1
            <4>4. CASE Serve(r) \/ Deadline(r) \/ AbandonedChildEnds(r) \/ Finish(r)
                <5>1. PICK other \in Roles :
                        /\ Thread(r, other)'.at \in {"up", "down", "end"}
                        /\ \A third \in Roles \ {other} : Thread(r, third)' = Thread(r, third)
                    <6>1. "main" \in Roles /\ "child" \in Roles
                        BY DEF Roles
                    <6> QED
                        BY <4>4, <6>1, GotoFacts DEF Serve, Deadline, AbandonedChildEnds, Finish, Return
                <5> QED
                    BY <2>2, <3>1, <5>1
            <4>5. CASE StartTimeout(r) \/ AdoptChild(r)
                BY <3>1, <4>5 DEF StartTimeout, AdoptChild, Types, Roles, Thread, At
            <4>6. CASE Crash(r) \/ ClientLeaves(r)
                BY <2>2, <3>1, <4>6 DEF Crash, ClientLeaves, Thread
            <4> QED
                BY <4>1, <4>2, <4>3, <4>4, <4>5, <4>6 DEF Step, Work
        <3>3. Thread(r, role)'.err = flight[KeyOf[r]] /\ flight[KeyOf[r]] # None /\ call' = call
            BY <3>2, GotoFacts DEF Follow
        <3>4. flight[KeyOf[r]] \in Reqs /\ KeyOf[flight[KeyOf[r]]] = KeyOf[r]
            BY <1>1, <3>3 DEF FlightsOfKey, Types
        <3>5. call[flight[KeyOf[r]]] = "open"
            BY <1>2, <3>4
        <3> QED
            BY <3>1, <3>3, <3>5
    <2> QED
        BY <2>1, <2>2
<1> QED
    BY <1>3, <1>4 DEF OneFlight, Thread

\* What a thread writes is the request's own, or its leader's.
LEMMA StepAnswers ==
    ASSUME Types, \A s \in Reqs : Local(s), Answered, NEW r \in Reqs, Step(r)
    PROVE  Answered'
<1>1. ASSUME NEW s \in Reqs, NEW response, OwnKey(s, response)
      PROVE  OwnKey(s, response)'
    BY <1>1, CallsAdvance DEF OwnKey
<1>2. \A s \in Reqs \ {r} : wire'[s] = wire[s] /\ buffer'[s] = buffer[s]
    BY StepTypes DEF OfOne
<1>3. \A s \in Reqs \ {r} : OwnKey(s, wire[s])' /\ OwnKey(s, buffer[s])'
    BY <1>1, <1>2 DEF Answered, OwnKey
<1>4. OwnKey(r, wire[r]) /\ OwnKey(r, buffer[r])
    BY DEF Answered
<1>5. \A code : OwnKey(r, Response(code, r))' /\ OwnKey(r, Response(code, None))' /\ OwnKey(r, None)'
    BY DEF OwnKey, Response
<1>6. OwnKey(r, wire[r])' /\ OwnKey(r, buffer[r])'
    <2>1. ASSUME NEW role \in Roles, NEW response, response \in Responses, OwnKey(r, response)',
                 Write(r, role, response)
          PROVE  OwnKey(r, wire[r])' /\ OwnKey(r, buffer[r])'
        <3>1. wire'[r] \in {wire[r], response} /\ buffer'[r] \in {buffer[r], response}
            BY <2>1 DEF Write, First, Types, Roles
        <3> QED
            BY <1>1, <1>4, <2>1, <3>1 DEF OwnKey
    <2>2. ASSUME UNCHANGED <<wire, buffer>>
          PROVE  OwnKey(r, wire[r])' /\ OwnKey(r, buffer[r])'
        BY <1>1, <1>4, <2>2 DEF OwnKey
    <2>3. \A code \in ResponseStatuses : \A s \in Reqs \cup {None} : Response(code, s) \in Responses
        BY DEF Response, Responses
    <2>4. ASSUME NEW role \in Roles, Handle(r, role) PROVE OwnKey(r, wire[r])' /\ OwnKey(r, buffer[r])'
        <3>1. PICK o \in AllOutcomes : Handled(r, role, o)
            BY <2>4, HandleFacts
        <3>2. OwnKey(r, WrittenBy(o, r))'
            BY <1>5 DEF WrittenBy
        <3>3. /\ wire'[r] \in {wire[r], WrittenBy(o, r)} /\ buffer'[r] \in {buffer[r], WrittenBy(o, r)}
            <4>1. /\ Written(r, role)' = WrittenBy(o, r)
                  /\ \A other \in Roles \ {role} : Written(r, other)' = Written(r, other)
                BY <3>1 DEF Handled
            <4>2. CASE role = "main"
                <5>1. wire'[r] = WrittenBy(o, r) /\ buffer'[r] = buffer[r]
                    BY <4>1, <4>2 DEF Written, Roles
                <5> QED
                    BY <5>1
            <4>3. CASE role = "child"
                <5>1. wire'[r] = wire[r] /\ buffer'[r] = WrittenBy(o, r)
                    BY <4>1, <4>3 DEF Written, Roles
                <5> QED
                    BY <5>1
            <4> QED
                BY <4>2, <4>3 DEF Roles
        <3> QED
            BY <1>1, <1>4, <3>2, <3>3 DEF OwnKey
    <2>5. ASSUME NEW role \in Roles, LeaveRecovery(r, role) PROVE OwnKey(r, wire[r])' /\ OwnKey(r, buffer[r])'
        BY <1>5, <2>1, <2>2, <2>3, <2>5 DEF LeaveRecovery, ResponseStatuses
    <2>6. ASSUME NEW role \in Roles, Released(r, role) PROVE OwnKey(r, wire[r])' /\ OwnKey(r, buffer[r])'
        <3>1. PICK leader \in Reqs : leader = Thread(r, role).err /\ KeyOf[leader] = KeyOf[r]
            BY <2>6 DEF Released, Is, Local, Placed, Roles, Thread
        <3>2. CASE call[leader] = "shareable"
            <4>1. Response("ok", leader) \in Responses /\ Write(r, role, Response("ok", leader))
                BY <2>3, <2>6, <3>1, <3>2 DEF Released, Thread, ResponseStatuses
            <4>2. OwnKey(r, Response("ok", leader))'
                BY <3>1, <3>2, CallsAdvance DEF OwnKey, Response
            <4> QED
                BY <2>1, <4>1, <4>2
        <3>3. CASE call[leader] # "shareable"
            BY <2>2, <2>6, <3>1, <3>3 DEF Released, Thread
        <3> QED
            BY <3>2, <3>3
    <2>7. CASE AdoptChild(r)
        <3>1. /\ wire'[r] \in {wire[r], buffer[r], Response("ok", None), None}
              /\ buffer'[r] = buffer[r]
            BY <2>7 DEF AdoptChild, Types, First, Committed
        <3> QED
            BY <1>1, <1>4, <1>5, <3>1 DEF OwnKey
    <2>8. CASE Finish(r)
        <3>1. /\ \/ wire'[r] \in {wire[r], None, Response("dropped", r), Response("ok", None)}
                 \/ \E code : wire'[r] = Response(code, r)
              /\ buffer'[r] = buffer[r]
            BY <2>8 DEF Finish, Types, First, ErrorResponse
        <3> QED
            BY <1>1, <1>4, <1>5, <3>1 DEF OwnKey
    <2> QED
        BY <2>2, <2>4, <2>5, <2>6, <2>7, <2>8 DEF Step, Work, Serve, EnterRecovery, Lead, Follow, LeaveSingleflight,
            StopFollowing, StartTimeout, AbandonedChildEnds, Crash, Deadline, ClientLeaves
<1> QED
    BY <1>2, <1>3, <1>6 DEF Answered, OwnKey

-----------------------------------------------------------------------------
(* Requests: the theorems.                                                 *)

LEMMA InitRequests == RequestsInit => RequestsInvariant
<1> SUFFICES ASSUME RequestsInit PROVE RequestsInvariant
    OBVIOUS
<1>1. \A r \in Reqs, role \in Roles : Thread(r, role) = [at |-> "idle", i |-> 0, err |-> "none"]
    BY DEF RequestsInit, At, Thread
<1>2. Types
    <2>1. [at |-> "idle", i |-> 0, err |-> "none"] \in [at : Places, i : Int, err : Errs \cup Reqs]
        BY DEF Places, Errs
    <2> QED
        BY <2>1 DEF RequestsInit, Types, At, Roles
<1>3. \A r \in Reqs : Local(r)
    BY <1>1 DEF RequestsInit, Local, Placed, Below, Paired, Once, Untouched, Leading, Returning, Sharing, Late, Failing,
        Failed, AllOutcomes, Roles
<1>4. FlightsOfKey /\ OneFlight
    BY <1>1, ChainsAssumption DEF RequestsInit, FlightsOfKey, OneFlight, Keys, Thread
<1>5. Answered
    BY DEF RequestsInit, Answered, OwnKey
<1> QED
    BY <1>2, <1>3, <1>4, <1>5 DEF RequestsInvariant

LEMMA NextInvariant == RequestsInvariant /\ [RequestsNext]_requestsVars => RequestsInvariant'
<1> SUFFICES ASSUME RequestsInvariant, [RequestsNext]_requestsVars PROVE RequestsInvariant'
    OBVIOUS
<1> USE DEF RequestsInvariant
<1>1. ASSUME NEW r \in Reqs, Step(r) PROVE RequestsInvariant'
    <2>1. Types' /\ OfOne(r)
        BY <1>1, StepTypes
    <2>2. Local(r)'
        BY <1>1, StepLocal
    <2>3. chain' = chain
        BY <1>1 DEF Step, Work, Serve, Handle, EnterRecovery, LeaveRecovery, Lead, Follow, LeaveSingleflight, Released,
            StopFollowing, StartTimeout, AdoptChild, AbandonedChildEnds, Crash, Finish, Deadline, ClientLeaves
    <2>4. \A s \in Reqs \ {r} : Local(s)'
        BY <2>1, <2>3, OtherRequestsKeep DEF OfOne
    <2>5. FlightsOfKey' /\ OneFlight'
        BY <1>1, StepFlights
    <2>6. Answered'
        BY <1>1, StepAnswers
    <2> QED
        BY <2>1, <2>2, <2>4, <2>5, <2>6
<1>2. ASSUME UNCHANGED requestsVars PROVE RequestsInvariant'
    <2>1. \A s \in Reqs : Local(s)'
        BY <1>2, OtherRequestsKeep DEF requestsVars
    <2>2. FlightsOfKey' /\ OneFlight' /\ Answered'
        BY <1>2 DEF requestsVars, FlightsOfKey, OneFlight, Answered, OwnKey
    <2>3. Types'
        BY <1>2 DEF requestsVars, Types
    <2> QED
        BY <2>1, <2>2, <2>3
<1> QED
    BY <1>1, <1>2 DEF RequestsNext, Step

LEMMA Invariance == RequestsSpec => []RequestsInvariant
BY InitRequests, NextInvariant, PTL DEF RequestsSpec

\* A body is that of the request's own handler, or of a leader with its key
\* whose chain succeeded with a response that may be shared; a key has at most
\* one leader with an open call, which is in the map, and no follower waits for a
\* request that never led (Singleflight, RunWithTimeout, ServeHTTP).
THEOREM FlightsAreSound == RequestsSpec => []FlightsSound
<1>1. RequestsInvariant => ResponsesAreOwn
    BY DEF RequestsInvariant, Answered, OwnKey, ResponsesAreOwn, Local, Sharing
<1>2. RequestsInvariant => OneFlight
    BY DEF RequestsInvariant
<1>3. RequestsInvariant => FlightsSound
    BY <1>1, <1>2 DEF FlightsSound
<1> QED
    BY <1>3, Invariance, PTL

\* An error or a panic of the handler is answered as success only where Recovery
\* below a Timeout wrote into the buffer that RunWithTimeout drops
\* (defaultErrorHandler, Recovery, ServeHTTP).
THEOREM FailuresAnswered == RequestsSpec => []FailuresExplained
<1>1. RequestsInvariant => FailuresExplained
    <2> SUFFICES ASSUME RequestsInvariant, NEW r \in Reqs, IsEnded(r), outcome[r] \in {"error", "panic"},
                        wire[r].status = "ok", ~(outcome[r] = "panic" /\ Excused)
                 PROVE  FALSE
        BY DEF FailuresExplained, Excused
    <2>1. Failed(r) /\ wire[r] # None
        BY DEF Failed, RequestsInvariant, Local, Untouched, IsEnded, Thread
    <2> QED
        BY <2>1 DEF RequestsInvariant, Local, Failing, FailedMain
<1> QED
    BY <1>1, Invariance, PTL

\* A request whose deadline passed is answered with the timeout, whatever its
\* handler goes on to write (RunWithTimeout, bufferedResponse).
THEOREM LateAreSilent == RequestsSpec => []LateHandlersAreSilent
<1>1. RequestsInvariant => LateHandlersAreSilent
    BY DEF RequestsInvariant, LateHandlersAreSilent, Local, Late, IsEnded, Thread
<1> QED
    BY <1>1, Invariance, PTL

\* The variables have their types: threads are at a place of ServeHTTP and its
\* middlewares, responses come from a request or from net/http.
THEOREM RequestsTyped == RequestsSpec => []Types
<1>1. RequestsInvariant => Types
    BY DEF RequestsInvariant
<1> QED
    BY <1>1, Invariance, PTL
=============================================================================
