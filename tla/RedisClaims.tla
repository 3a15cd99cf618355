---------------------------- MODULE RedisClaims -----------------------------
(***************************************************************************)
(* RedisIdempotencyStore of middleware/idempotency_redis.go, one key: Claim *)
(* is SET NX and a read, Complete and Release are optimistic transactions   *)
(* (WATCH and GET, then MULTI, SET or DEL, EXEC) retried while somebody     *)
(* else writes the key.  Owners are random and interleave at every command;*)
(* a reply may be lost, and the client sends a SET NX without a reply again.*)
(***************************************************************************)
EXTENDS Naturals

CONSTANTS
    Owners,        \* requests that claim the key
    Retries,       \* RedisIdempotencyConfig.TransactionRetries
    MaxExpiries,   \* bound: times the key runs out
    MaxLost,       \* bound: replies that are lost
    NoRecord       \* the key is absent

VARIABLES
    record,     \* what Redis holds
    result,     \* [Owners -> what the last call returned]
    step,       \* [Owners -> the command it sends next]
    tries,      \* [Owners -> iterations of the retry loop]
    dirty,      \* watching owners whose key was written since
    expiries,   \* times the key ran out
    lostReplies \* replies lost

claimsVars == <<record, result, step, tries, dirty, expiries, lostReplies>>

Record(state, owner) == [state |-> state, owner |-> owner]

ClaimsInit ==
    /\ record = NoRecord
    /\ result = [o \in Owners |-> "none"]
    /\ step = [o \in Owners |-> "set nx"]
    /\ tries = [o \in Owners |-> 0]
    /\ dirty = {}
    /\ expiries = 0
    /\ lostReplies = 0

\* The key is written: every transaction that watches it will fail.
Put(value) == record' = value /\ dirty' = Owners

Sends(o, where) == step' = [step EXCEPT ![o] = where]

\* A call returns; the middleware goes on at next.
CallReturns(o, what, next) == result' = [result EXCEPT ![o] = what] /\ Sends(o, next)

Call(o, where) == Sends(o, where) /\ tries' = [tries EXCEPT ![o] = 0]

\* Another iteration of a call, or the error of its retry limit.
Again(o, where, next) ==
    /\ tries' = [tries EXCEPT ![o] = @ + 1]
    /\ IF tries[o] + 1 < Retries THEN Sends(o, where) /\ UNCHANGED result ELSE CallReturns(o, "error", next)

SetNX(o) ==
    /\ step[o] = "set nx"
    /\ IF record = NoRecord
       THEN Put(Record("pending", o)) /\ CallReturns(o, "acquired", "claimed")
       ELSE Sends(o, "read") /\ UNCHANGED <<record, dirty, result>>
    /\ UNCHANGED <<tries, expiries, lostReplies>>

\* The key is set; the client, without the reply, sends the command again.
SetNXReplyLost(o) ==
    /\ step[o] = "set nx"
    /\ record = NoRecord
    /\ lostReplies < MaxLost
    /\ lostReplies' = lostReplies + 1
    /\ Put(Record("pending", o))
    /\ UNCHANGED <<result, step, tries, expiries>>

\* The state of the claim that is there; when it is gone by now, claim again.
ReadClaim(o) ==
    /\ step[o] = "read"
    /\ IF record = NoRecord
       THEN Again(o, "set nx", "done")
       ELSE CallReturns(o, record.state, "done") /\ UNCHANGED tries
    /\ UNCHANGED <<record, dirty, expiries, lostReplies>>

-----------------------------------------------------------------------------
\* The handler ended: the claim is completed, or released.
Settle(o) ==
    /\ step[o] = "claimed"
    /\ \E what \in {"complete", "release"} : Call(o, what)
    /\ UNCHANGED <<record, result, dirty, expiries, lostReplies>>

\* The middleware releases a claim it could not complete.
After(o, what) == IF what = "complete" THEN "not completed" ELSE "done"

ReleaseInstead(o) ==
    /\ step[o] = "not completed"
    /\ Call(o, "release")
    /\ UNCHANGED <<record, result, dirty, expiries, lostReplies>>

ExecOf == [complete |-> "exec complete", release |-> "exec release"]

PastOf == [complete |-> "completed", release |-> "released"]

Holds(o) == record = Record("pending", o)

\* WATCH and GET: what is written between the two fails the EXEC as well.
Watch(o, what) ==
    /\ step[o] = what
    /\ IF Holds(o)
       THEN Sends(o, ExecOf[what]) /\ dirty' = dirty \ {o} /\ UNCHANGED result
       ELSE /\ IF what = "release" /\ record = NoRecord
               THEN CallReturns(o, "released", "done")
               ELSE CallReturns(o, "lost", After(o, what))
            /\ UNCHANGED dirty
    /\ UNCHANGED <<record, tries, expiries, lostReplies>>

\* Mutant: the key is not watched.
NeverAborts(o) == FALSE

\* TxFailedErr: the key was written after WATCH.
Aborts(o) == o \in dirty

\* The transaction fails, or happens; its reply may be lost.
Exec(o, what) ==
    /\ step[o] = ExecOf[what]
    /\ IF Aborts(o)
       THEN Again(o, what, After(o, what)) /\ UNCHANGED <<record, dirty, lostReplies>>
       ELSE /\ Put(IF what = "complete" THEN Record("complete", o) ELSE NoRecord)
            /\ \/ CallReturns(o, PastOf[what], "done") /\ UNCHANGED lostReplies
               \/ /\ lostReplies < MaxLost
                  /\ lostReplies' = lostReplies + 1
                  /\ CallReturns(o, "error", After(o, what))
            /\ UNCHANGED tries
    /\ UNCHANGED expiries

\* A command fails, or its context is done: a claim may have been set all the same.
CommandFails(o) ==
    /\ step[o] \in {"set nx", "read", "complete", "release"}
    /\ lostReplies < MaxLost
    /\ lostReplies' = lostReplies + 1
    /\ \/ UNCHANGED <<record, dirty>>
       \/ step[o] = "set nx" /\ record = NoRecord /\ Put(Record("pending", o))
    /\ CallReturns(o, "error", After(o, step[o]))
    /\ UNCHANGED <<tries, expiries>>

\* The time to live of the key runs out.
Expire ==
    /\ record # NoRecord
    /\ expiries < MaxExpiries
    /\ expiries' = expiries + 1
    /\ Put(NoRecord)
    /\ UNCHANGED <<result, step, tries, lostReplies>>

ClaimsNext ==
    \/ \E o \in Owners :
         \/ SetNX(o)
         \/ SetNXReplyLost(o)
         \/ ReadClaim(o)
         \/ Settle(o)
         \/ ReleaseInstead(o)
         \/ CommandFails(o)
         \/ \E what \in {"complete", "release"} : Watch(o, what) \/ Exec(o, what)
    \/ Expire

-----------------------------------------------------------------------------
Abstract == INSTANCE ClaimStore

\* Every change of the key is a Claim, Complete or Release that happens at once
\* under the right of its owner, and every answer is true of the key at the
\* moment it is given.
RedisImplementsClaimStore == [][Abstract!Next]_<<record, result>>
=============================================================================
