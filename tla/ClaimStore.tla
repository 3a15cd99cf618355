----------------------------- MODULE ClaimStore -----------------------------
(***************************************************************************)
(* What IdempotencyStore (middleware/idempotency_store.go) promises of one  *)
(* key: Claim, Complete and Release each happen at once, and only the owner*)
(* of a pending claim completes or releases it.  A caller may also get an   *)
(* error and not know whether its call happened.                           *)
(***************************************************************************)
CONSTANTS Owners, NoRecord

VARIABLES
    record,    \* the record of the key, or NoRecord
    result     \* [Owners -> what the last call of the owner returned]

claimVars == <<record, result>>

Record(state, owner) == [state |-> state, owner |-> owner]

Init == record = NoRecord /\ result = [o \in Owners |-> "none"]

Returns(o, what) == result' = [result EXCEPT ![o] = what]

\* The call happened, and its caller may be told so or get an error.
Happened(o, what) == Returns(o, what) \/ Returns(o, "error") \/ UNCHANGED result

Claim(o) ==
    \/ record = NoRecord /\ record' = Record("pending", o) /\ Happened(o, "acquired")
    \/ record # NoRecord /\ Returns(o, record.state) /\ UNCHANGED record

Complete(o) == record = Record("pending", o) /\ record' = Record("complete", o) /\ Happened(o, "completed")

Release(o) ==
    \/ record = Record("pending", o) /\ record' = NoRecord /\ Happened(o, "released")
    \/ record = NoRecord /\ UNCHANGED record /\ Returns(o, "released")

Lost(o) == record # Record("pending", o) /\ UNCHANGED record /\ Returns(o, "lost")

Fails(o) == UNCHANGED record /\ Returns(o, "error")

Expire == record # NoRecord /\ record' = NoRecord /\ UNCHANGED result

Next == Expire \/ \E o \in Owners : Claim(o) \/ Complete(o) \/ Release(o) \/ Lost(o) \/ Fails(o)

Spec == Init /\ [][Next]_claimVars
=============================================================================
