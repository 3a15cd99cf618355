--------------------------- MODULE EventDelivery ---------------------------
(***************************************************************************)
(* What package queue promises of an event written through the outbox,     *)
(* with no rows, leases or workers in sight.  An event belongs to one      *)
(* business transaction.  Copies of it reach the broker only when that     *)
(* transaction has committed; it is settled once, as "published" only when *)
(* a copy exists; copies may keep arriving after that (at least once, and  *)
(* consumers deduplicate).                                                 *)
(***************************************************************************)
EXTENDS Naturals

CONSTANT Messages

VARIABLES
    tx,       \* [Messages -> the business transaction that wrote the event]
    copies,   \* [Messages -> number of copies the broker holds]
    outcome   \* [Messages -> "open", "published" or "failed"]

vars == <<tx, copies, outcome>>

Init ==
    /\ tx = [m \in Messages |-> "none"]
    /\ copies = [m \in Messages |-> 0]
    /\ outcome = [m \in Messages |-> "open"]

Begin(m) ==
    /\ tx[m] = "none"
    /\ tx' = [tx EXCEPT ![m] = "open"]
    /\ UNCHANGED <<copies, outcome>>

Finish(m, result) ==
    /\ tx[m] = "open"
    /\ tx' = [tx EXCEPT ![m] = result]
    /\ UNCHANGED <<copies, outcome>>

Copy(m) ==
    /\ tx[m] = "committed"
    /\ copies' = [copies EXCEPT ![m] = @ + 1]
    /\ UNCHANGED <<tx, outcome>>

Settle(m, result) ==
    /\ tx[m] = "committed"
    /\ outcome[m] = "open"
    /\ result = "published" => copies[m] > 0
    /\ outcome' = [outcome EXCEPT ![m] = result]
    /\ UNCHANGED <<tx, copies>>

Next ==
    \E m \in Messages :
        \/ Begin(m)
        \/ Finish(m, "committed")
        \/ Finish(m, "aborted")
        \/ Copy(m)
        \/ Settle(m, "published")
        \/ Settle(m, "failed")

\* The safety half of the promise: what every step must look like.
Safe == Init /\ [][Next]_vars

\* The whole promise: a committed event is not left open for ever.
Spec == Safe /\ \A m \in Messages : WF_vars(\E r \in {"published", "failed"} : Settle(m, r))
=============================================================================
