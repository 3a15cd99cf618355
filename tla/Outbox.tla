------------------------------- MODULE Outbox -------------------------------
(***************************************************************************)
(* queue/outbox.go: events stored in the table gpp_outbox by the business  *)
(* transaction that produced them, and workers (Outbox.Run in any number   *)
(* of processes) that claim batches of rows under a lease, publish them    *)
(* and settle each row with a transaction guarded by the claim's token.    *)
(*                                                                         *)
(* Time is abstracted to what the SQL compares: available_at <= now is     *)
(* "due", locked_until against now is "none", "held" or "expired".  The    *)
(* two flip at any moment, so clocks that run at different speeds in       *)
(* different processes are included.  Claim, and each settling UPDATE, is  *)
(* one database transaction and therefore one step; the broker call sits   *)
(* between them.                                                           *)
(***************************************************************************)
EXTENDS Naturals, FiniteSets

CONSTANTS
    Messages,      \* events, each written by one business transaction
    Workers,       \* processes in Outbox.Run
    BatchSize,     \* OutboxConfig.BatchSize
    MaxAttempts,   \* OutboxConfig.MaxAttempts
    MaxFaults,     \* bound: crashes, lost settling transactions, slow batches
    Tokens,        \* the 128-bit random claim tokens of newOutboxID
    NoToken,       \* lock_token IS NULL
    NoMessage      \* a worker that is not sending

ASSUME WorkersAssumption == IsFiniteSet(Workers)
ASSUME ConfigAssumption ==
    /\ BatchSize \in Nat \ {0}
    /\ MaxAttempts \in Nat \ {0}
    /\ MaxFaults \in Nat
ASSUME NoValueAssumption == NoMessage \notin Messages /\ NoToken \notin Tokens

VARIABLES
    tx,         \* [Messages -> the business transaction that calls Enqueue]
    age,        \* [Messages -> created_at, as a position in insertion order]
    attempts,   \* column attempts
    due,        \* [Messages -> available_at <= now]
    lease,      \* column locked_until: "none" (NULL), "held", "expired"
    token,      \* column lock_token
    published,  \* rows whose published_at is set
    failed,     \* rows whose failed_at is set
    phase,      \* [Workers -> "idle", "sending", "sent" or "refused"]
    mine,       \* [Workers -> token of the claim the worker is working on]
    batch,      \* [Workers -> claimed records it has not settled]
    seen,       \* [Workers -> attempts of the records, as read by the claim]
    current,    \* [Workers -> record whose broker call has returned]
    delivered,  \* broker: copies of each event it accepted
    expiries,   \* history: how many leases of each event ran out
    faults      \* history: faults so far, bounded by MaxFaults

rowVars    == <<attempts, due, lease, token, published, failed>>
workerVars == <<phase, mine, batch, seen, current>>
envVars    == <<delivered, expiries, faults>>
vars       == <<tx, age, rowVars, workerVars, envVars>>

-----------------------------------------------------------------------------
\* An empty table (its defaults: attempts 0, the rest NULL), every worker idle.
Init ==
    /\ tx = [m \in Messages |-> "none"]
    /\ age = [m \in Messages |-> 0]
    /\ attempts = [m \in Messages |-> 0]
    /\ due = [m \in Messages |-> FALSE]
    /\ lease = [m \in Messages |-> "none"]
    /\ token = [m \in Messages |-> NoToken]
    /\ published = {}
    /\ failed = {}
    /\ phase = [w \in Workers |-> "idle"]
    /\ mine = [w \in Workers |-> NoToken]
    /\ batch = [w \in Workers |-> {}]
    /\ seen = [w \in Workers |-> [m \in Messages |-> 0]]
    /\ current = [w \in Workers |-> NoMessage]
    /\ delivered = [m \in Messages |-> 0]
    /\ expiries = [m \in Messages |-> 0]
    /\ faults = 0

-----------------------------------------------------------------------------
(* The business transaction.                                               *)

\* The rows of the table, with those of transactions still open or aborted.
Inserted == {m \in Messages : tx[m] # "none"}

\* Enqueue inserts the row in the caller's transaction, due now or later.
Enqueue(m) ==
    /\ tx[m] = "none"
    /\ tx' = [tx EXCEPT ![m] = "open"]
    /\ age' = [age EXCEPT ![m] = Cardinality(Inserted)]
    /\ \E now \in BOOLEAN : due' = [due EXCEPT ![m] = now]
    /\ UNCHANGED <<attempts, lease, token, published, failed, workerVars, envVars>>

EndTransaction(m) ==
    /\ tx[m] = "open"
    /\ \E result \in {"committed", "aborted"} : tx' = [tx EXCEPT ![m] = result]
    /\ UNCHANGED <<age, rowVars, workerVars, envVars>>

-----------------------------------------------------------------------------
(* Claiming.                                                               *)

\* Mutant: the WHERE clause of the claim forgets the terminal columns.
ClaimableIgnoringPublished(m) ==
    /\ tx[m] = "committed"
    /\ m \notin failed
    /\ due[m]
    /\ lease[m] # "held"

\* Mutant: the claim does not look at locked_until.
ClaimableWhileHeld(m) ==
    /\ tx[m] = "committed"
    /\ m \notin published \cup failed
    /\ due[m]

\* Mutant: an expired lease is not taken over (locked_until IS NULL only).
ClaimableNeverTakenOver(m) ==
    /\ tx[m] = "committed"
    /\ m \notin published \cup failed
    /\ due[m]
    /\ lease[m] = "none"

\* The WHERE clause of both dialects.  A row another claim has locked is
\* skipped by PostgreSQL and waited for by SQLite: atomic claims show either.
Claimable(m) ==
    /\ tx[m] = "committed"
    /\ m \notin published \cup failed
    /\ due[m]
    /\ lease[m] # "held"

\* ORDER BY created_at LIMIT BatchSize.
Candidates ==
    {m \in Messages :
        /\ Claimable(m)
        /\ Cardinality({k \in Messages : Claimable(k) /\ age[k] < age[m]}) < BatchSize}

\* newOutboxID: the random token is one that no row and no worker holds.  One
\* nobody remembers any more is as good as one never drawn.
Unused == Tokens \ ({token[m] : m \in Messages} \cup {mine[w] : w \in Workers})

\* Outbox.claim: one transaction leases the candidates to a fresh token and
\* returns them with the attempts they had.
Claim(w) ==
    /\ phase[w] = "idle"
    /\ Candidates # {}
    /\ Unused # {}
    /\ LET fresh == CHOOSE t \in Unused : TRUE IN
        /\ token' = [m \in Messages |-> IF m \in Candidates THEN fresh ELSE token[m]]
        /\ mine' = [mine EXCEPT ![w] = fresh]
    /\ lease' = [m \in Messages |-> IF m \in Candidates THEN "held" ELSE lease[m]]
    /\ batch' = [batch EXCEPT ![w] = Candidates]
    /\ seen' = [seen EXCEPT ![w] = [m \in Messages |-> IF m \in Candidates THEN attempts[m] ELSE 0]]
    /\ phase' = [phase EXCEPT ![w] = "sending"]
    /\ UNCHANGED <<tx, age, attempts, due, published, failed, current, envVars>>

\* A poll that finds nothing to claim: PublishPending returns 0.
PollNothing(w) ==
    /\ phase[w] = "idle"
    /\ Candidates = {}
    /\ UNCHANGED vars

-----------------------------------------------------------------------------
(* Publishing a batch, one record after the other in the order RETURNING   *)
(* gave them, which SQL leaves open.                                       *)

\* publisher.Publish returned nil, or an error although the broker may hold a
\* copy all the same (a timeout after the write).
Publish(w) ==
    /\ phase[w] = "sending"
    /\ \E m \in batch[w] :
        /\ current' = [current EXCEPT ![w] = m]
        /\ \/ /\ phase' = [phase EXCEPT ![w] = "sent"]
              /\ delivered' = [delivered EXCEPT ![m] = @ + 1]
           \/ /\ phase' = [phase EXCEPT ![w] = "refused"]
              /\ \/ UNCHANGED delivered
                 \/ delivered' = [delivered EXCEPT ![m] = @ + 1]
    /\ UNCHANGED <<tx, age, rowVars, mine, batch, seen, expiries, faults>>

\* PublishPending returns: the claim's token and records are forgotten.
Return(w) ==
    /\ phase' = [phase EXCEPT ![w] = "idle"]
    /\ mine' = [mine EXCEPT ![w] = NoToken]
    /\ seen' = [seen EXCEPT ![w] = [m \in Messages |-> 0]]

\* The loop of PublishPending moves on, whatever became of the record.
NextRecord(w) ==
    /\ batch' = [batch EXCEPT ![w] = @ \ {current[w]}]
    /\ current' = [current EXCEPT ![w] = NoMessage]
    /\ IF batch[w] = {current[w]}
       THEN Return(w)
       ELSE phase' = [phase EXCEPT ![w] = "sending"] /\ UNCHANGED <<mine, seen>>

\* Mutant: the settling UPDATE is keyed by the id alone.
OwnsAnyRow(w, m) == TRUE

\* Outbox.update: the UPDATE affects one row only while the row still carries
\* the claim's token; otherwise it is rolled back, "claim ownership lost".
Owns(w, m) == token[m] = mine[w]

\* locked_until = NULL, lock_token = NULL, in every settling statement.
Release(m) ==
    /\ lease' = [lease EXCEPT ![m] = "none"]
    /\ token' = [token EXCEPT ![m] = NoToken]

MarkPublished(w) ==
    /\ phase[w] = "sent"
    /\ LET m == current[w] IN
        \/ /\ Owns(w, m)
           /\ published' = published \cup {m}
           /\ Release(m)
        \/ /\ ~Owns(w, m)
           /\ UNCHANGED <<published, lease, token>>
    /\ NextRecord(w)
    /\ UNCHANGED <<tx, age, attempts, due, failed, envVars>>

\* Mutant: the retry limit is compared before the attempt is counted.
MarkFailedOneTooMany(w) ==
    /\ phase[w] = "refused"
    /\ LET m == current[w]
           count == seen[w][m] + 1
       IN
        \/ /\ Owns(w, m)
           /\ attempts' = [attempts EXCEPT ![m] = count]
           /\ Release(m)
           /\ \/ /\ seen[w][m] >= MaxAttempts
                 /\ failed' = failed \cup {m}
                 /\ UNCHANGED due
              \/ /\ seen[w][m] < MaxAttempts
                 /\ due' = [due EXCEPT ![m] = FALSE]
                 /\ UNCHANGED failed
        \/ /\ ~Owns(w, m)
           /\ UNCHANGED <<attempts, due, failed, lease, token>>
    /\ NextRecord(w)
    /\ UNCHANGED <<tx, age, published, envVars>>

\* The count written back is the one the claim read, plus one.
MarkFailed(w) ==
    /\ phase[w] = "refused"
    /\ LET m == current[w]
           count == seen[w][m] + 1
       IN
        \/ /\ Owns(w, m)
           /\ attempts' = [attempts EXCEPT ![m] = count]
           /\ Release(m)
           /\ \/ /\ count >= MaxAttempts
                 /\ failed' = failed \cup {m}
                 /\ UNCHANGED due
              \/ /\ count < MaxAttempts
                 /\ due' = [due EXCEPT ![m] = FALSE]
                 /\ UNCHANGED failed
        \/ /\ ~Owns(w, m)
           /\ UNCHANGED <<attempts, due, failed, lease, token>>
    /\ NextRecord(w)
    /\ UNCHANGED <<tx, age, published, envVars>>

-----------------------------------------------------------------------------
(* Faults and the passing of time.                                         *)

Fault ==
    /\ faults < MaxFaults
    /\ faults' = faults + 1

\* The settling transaction fails (begin, exec or commit): the error is
\* collected, the row keeps its lease and the loop goes on.
SettleError(w) ==
    /\ phase[w] \in {"sent", "refused"}
    /\ Fault
    /\ NextRecord(w)
    /\ UNCHANGED <<tx, age, rowVars, delivered, expiries>>

\* The process dies, or its context is canceled so that every later call of
\* the batch fails; Run starts again with an empty batch.
Crash(w) ==
    /\ phase[w] # "idle"
    /\ Fault
    /\ Return(w)
    /\ batch' = [batch EXCEPT ![w] = {}]
    /\ current' = [current EXCEPT ![w] = NoMessage]
    /\ UNCHANGED <<tx, age, rowVars, delivered, expiries>>

HasHolder(m) == \E w \in Workers : m \in batch[w] /\ Owns(w, m)

Expire(m) ==
    /\ lease[m] = "held"
    /\ lease' = [lease EXCEPT ![m] = "expired"]
    /\ expiries' = [expiries EXCEPT ![m] = @ + 1]
    /\ UNCHANGED <<tx, age, attempts, due, token, published, failed, workerVars, delivered>>

\* The lease of a claim nobody works on any more runs out.
OrphanLeaseExpires(m) == ~HasHolder(m) /\ Expire(m) /\ UNCHANGED faults

\* The lease runs out under a worker that is still going through its batch.
SlowLeaseExpires(m) == HasHolder(m) /\ Expire(m) /\ Fault

\* available_at is reached; before the commit nobody looks at it.
BackoffElapses(m) ==
    /\ tx[m] = "committed"
    /\ ~due[m]
    /\ due' = [due EXCEPT ![m] = TRUE]
    /\ UNCHANGED <<tx, age, attempts, lease, token, published, failed, workerVars, envVars>>

-----------------------------------------------------------------------------
Next ==
    \/ \E m \in Messages : Enqueue(m) \/ EndTransaction(m)
    \/ \E w \in Workers :
        \/ Claim(w) \/ PollNothing(w) \/ Publish(w)
        \/ MarkPublished(w) \/ MarkFailed(w)
        \/ SettleError(w) \/ Crash(w)
    \/ \E m \in Messages : OrphanLeaseExpires(m) \/ SlowLeaseExpires(m) \/ BackoffElapses(m)

\* Run's ticker keeps every worker going, a broker call returns, time passes.
\* Business transactions, faults and slow batches are never forced to happen.
Fairness ==
    /\ \A w \in Workers : WF_vars(Claim(w) \/ Publish(w) \/ MarkPublished(w) \/ MarkFailed(w))
    /\ \A m \in Messages : WF_vars(OrphanLeaseExpires(m)) /\ WF_vars(BackoffElapses(m))

Spec == Init /\ [][Next]_vars /\ Fairness

-----------------------------------------------------------------------------
(* Properties.                                                             *)

TypeOK ==
    /\ tx \in [Messages -> {"none", "open", "committed", "aborted"}]
    /\ age \in [Messages -> Nat]
    /\ attempts \in [Messages -> 0..MaxAttempts]
    /\ due \in [Messages -> BOOLEAN]
    /\ lease \in [Messages -> {"none", "held", "expired"}]
    /\ token \in [Messages -> Tokens \cup {NoToken}]
    /\ published \subseteq Messages
    /\ failed \subseteq Messages
    /\ phase \in [Workers -> {"idle", "sending", "sent", "refused"}]
    /\ mine \in [Workers -> Tokens \cup {NoToken}]
    /\ batch \in [Workers -> SUBSET Messages]
    /\ seen \in [Workers -> [Messages -> Nat]]
    /\ current \in [Workers -> Messages \cup {NoMessage}]
    /\ delivered \in [Messages -> Nat]
    /\ expiries \in [Messages -> Nat]
    /\ faults \in Nat

\* The outcome of a row is unique and earned: no row is both published and
\* failed, a published one reached the broker, a failed one used up exactly
\* MaxAttempts.  Workers whose lease ran out must not disturb any of this.
OutcomeEarned ==
    /\ published \cap failed = {}
    /\ \A m \in published : delivered[m] > 0
    /\ \A m \in Messages : m \in failed <=> attempts[m] = MaxAttempts

\* Every copy beyond the first is paid for by a recorded failed attempt or by
\* a lease that ran out: no interleaving of workers duplicates for free.
DuplicatesExplained ==
    \A m \in Messages : delivered[m] <= 1 + attempts[m] + expiries[m]

\* A stale worker never takes a row backwards: the attempt counter, written
\* from a value read at claim time, grows one at a time and is frozen with the
\* outcome, and an outcome is never withdrawn.
RowsOnlyAdvance ==
    [][\A m \in Messages :
        /\ attempts'[m] \in {attempts[m], attempts[m] + 1}
        /\ m \in published \cup failed => attempts'[m] = attempts[m]
        /\ m \in published => m \in published'
        /\ m \in failed => m \in failed']_vars

\* The outbox implements the promise of EventDelivery, safety and progress.
Outcome ==
    [m \in Messages |->
        IF m \in published THEN "published" ELSE IF m \in failed THEN "failed" ELSE "open"]

Delivery == INSTANCE EventDelivery WITH copies <- delivered, outcome <- Outcome

ImplementsEventDelivery == Delivery!Spec
=============================================================================
