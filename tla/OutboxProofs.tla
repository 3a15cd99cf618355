---------------------------- MODULE OutboxProofs ----------------------------
(***************************************************************************)
(* Proofs about Outbox for every set of events, every finite set of        *)
(* workers and every batch size, retry limit and number of faults.         *)
(***************************************************************************)
EXTENDS Outbox, FiniteSetTheorems, TLAPS

-----------------------------------------------------------------------------
(* The inductive invariant, in named parts.                                *)

\* A worker is idle exactly when it works on no claim; the record whose
\* broker call returned is one of its batch and, if accepted, at the broker.
WorkerShape ==
    \A w \in Workers :
        /\ phase[w] = "idle" => batch[w] = {}
        /\ batch[w] # {} => mine[w] \in Tokens
        /\ phase[w] \in {"sent", "refused"} => current[w] \in batch[w]
        /\ phase[w] = "sent" => delivered[current[w]] > 0

\* No two workers work under the same token.
TokensDistinct ==
    \A v, w \in Workers : mine[v] = mine[w] /\ mine[v] \in Tokens => v = w

\* A row carries a token exactly while it carries a lease, and a settled row
\* carries neither.
RowShape ==
    \A m \in Messages :
        /\ token[m] = NoToken <=> lease[m] = "none"
        /\ m \in published \cup failed => lease[m] = "none"

\* What a worker read at claim time is still true of the rows it owns.
ClaimCurrent ==
    \A w \in Workers : \A m \in batch[w] : Owns(w, m) => seen[w][m] = attempts[m]

\* Only committed events are claimed, copied or settled.
OnlyCommitted ==
    \A m \in Messages :
        \/ \E w \in Workers : m \in batch[w]
        \/ delivered[m] > 0
        \/ m \in published \cup failed
        => tx[m] = "committed"

\* Only finitely many events have been written so far.
TableFinite == IsFiniteSet(Inserted)

RowInv ==
    /\ TypeOK
    /\ TableFinite
    /\ WorkerShape
    /\ TokensDistinct
    /\ RowShape
    /\ ClaimCurrent
    /\ OnlyCommitted
    /\ OutcomeEarned

-----------------------------------------------------------------------------
\* A worker that owns a row it works on has a real token, so the row is leased
\* and not settled, and there is room for one more attempt.
LEMMA OwnedRow ==
    ASSUME RowInv, NEW w \in Workers, NEW m \in batch[w], Owns(w, m)
    PROVE  /\ m \in Messages
           /\ lease[m] # "none"
           /\ m \notin published \cup failed
           /\ seen[w][m] = attempts[m]
           /\ attempts[m] < MaxAttempts
<1>1. m \in Messages /\ batch[w] # {}
  BY DEF RowInv, TypeOK
<1>2. token[m] # NoToken
  BY <1>1, NoValueAssumption DEF RowInv, WorkerShape, Owns
<1>3. lease[m] # "none" /\ m \notin published \cup failed
  BY <1>1, <1>2 DEF RowInv, RowShape
<1>4. seen[w][m] = attempts[m]
  BY DEF RowInv, ClaimCurrent
<1>5. attempts[m] \in 0..MaxAttempts /\ attempts[m] # MaxAttempts
  BY <1>1, <1>3 DEF RowInv, TypeOK, OutcomeEarned
<1> QED
  BY <1>1, <1>3, <1>4, <1>5, ConfigAssumption

LEMMA RowInvInit == Init => RowInv
<1> SUFFICES ASSUME Init PROVE RowInv
  OBVIOUS
<1> USE DEF Init
<1>1. TypeOK
  BY ConfigAssumption DEF TypeOK
<1>2. WorkerShape
  BY DEF WorkerShape
<1>3. TokensDistinct
  BY NoValueAssumption DEF TokensDistinct
<1>4. RowShape /\ ClaimCurrent /\ OnlyCommitted
  BY DEF RowShape, ClaimCurrent, OnlyCommitted
<1>5. OutcomeEarned
  BY ConfigAssumption DEF OutcomeEarned
<1>6. Inserted = {}
  BY DEF Inserted
<1>7. TableFinite
  BY <1>6, FS_EmptySet DEF TableFinite
<1> QED
  BY <1>1, <1>2, <1>3, <1>4, <1>5, <1>7 DEF RowInv

-----------------------------------------------------------------------------
(* What the steps shared by several actions do.                            *)

\* Leaving a claim, or one record of it, gives up records and tokens only.
LEMMA WorkerLeaves ==
    ASSUME RowInv, NEW w \in Workers,
           \/ NextRecord(w)
           \/ /\ Return(w)
              /\ batch' = [batch EXCEPT ![w] = {}]
              /\ current' = [current EXCEPT ![w] = NoMessage]
    PROVE  /\ phase' \in [Workers -> {"idle", "sending", "sent", "refused"}]
           /\ mine' \in [Workers -> Tokens \cup {NoToken}]
           /\ batch' \in [Workers -> SUBSET Messages]
           /\ seen' \in [Workers -> [Messages -> Nat]]
           /\ current' \in [Workers -> Messages \cup {NoMessage}]
           /\ TokensDistinct'
           /\ \A v \in Workers :
                /\ batch'[v] \subseteq batch[v]
                /\ batch'[v] # {} => mine'[v] = mine[v] /\ seen'[v] = seen[v]
                /\ phase'[v] \in {"sent", "refused"} => v # w
           /\ \A v \in Workers \ {w} :
                /\ phase'[v] = phase[v]
                /\ batch'[v] = batch[v]
                /\ mine'[v] = mine[v]
                /\ current'[v] = current[v]
           /\ current[w] \notin batch'[w]
           /\ phase'[w] = "idle" => batch'[w] = {}
<1> USE DEF NextRecord, Return
<1>1. TypeOK
  BY DEF RowInv
<1>2. /\ mine' \in [Workers -> Tokens \cup {NoToken}]
      /\ \A v \in Workers : mine'[v] \in {mine[v], NoToken}
      /\ \A v \in Workers \ {w} : mine'[v] = mine[v]
  BY <1>1 DEF TypeOK
<1>3. /\ batch' \in [Workers -> SUBSET Messages]
      /\ \A v \in Workers : batch'[v] \subseteq batch[v]
      /\ \A v \in Workers \ {w} : batch'[v] = batch[v]
      /\ current[w] \notin batch'[w]
  <2>1. PICK rest \in SUBSET batch[w] :
            batch' = [batch EXCEPT ![w] = rest] /\ current[w] \notin rest
    <3>1. CASE batch' = [batch EXCEPT ![w] = batch[w] \ {current[w]}]
      BY <3>1
    <3>2. CASE batch' = [batch EXCEPT ![w] = {}]
      BY <3>2
    <3> QED
      BY <3>1, <3>2
  <2> QED
    BY <1>1, <2>1 DEF TypeOK
<1>4. /\ current' \in [Workers -> Messages \cup {NoMessage}]
      /\ \A v \in Workers \ {w} : current'[v] = current[v]
  BY <1>1 DEF TypeOK
<1>5. /\ phase' \in [Workers -> {"idle", "sending", "sent", "refused"}]
      /\ phase'[w] \in {"idle", "sending"}
      /\ \A v \in Workers \ {w} : phase'[v] = phase[v]
  BY <1>1 DEF TypeOK
<1>6. seen' \in [Workers -> [Messages -> Nat]]
  <2>1. [m \in Messages |-> 0] \in [Messages -> Nat]
    OBVIOUS
  <2>2. seen' = seen \/ seen' = [seen EXCEPT ![w] = [m \in Messages |-> 0]]
    OBVIOUS
  <2> QED
    BY <1>1, <2>1, <2>2 DEF TypeOK
<1>7. /\ phase'[w] = "idle" => batch'[w] = {}
      /\ batch'[w] # {} => mine'[w] = mine[w] /\ seen'[w] = seen[w]
      /\ \A v \in Workers \ {w} : seen'[v] = seen[v]
  BY <1>1 DEF TypeOK
<1>8. TokensDistinct'
  BY <1>2, NoValueAssumption DEF RowInv, TokensDistinct
<1> QED
  BY <1>2, <1>3, <1>4, <1>5, <1>6, <1>7, <1>8

-----------------------------------------------------------------------------
(* One lemma for every action.                                             *)

LEMMA EnqueueInv ==
    ASSUME RowInv, NEW m \in Messages, Enqueue(m)
    PROVE  RowInv'
<1> USE DEF Enqueue, rowVars, workerVars, envVars
<1>1. Cardinality(Inserted) \in Nat
  BY FS_CardinalityType DEF RowInv, TableFinite
<1>2. TypeOK'
  BY <1>1 DEF RowInv, TypeOK
<1>3. Inserted' = Inserted \cup {m}
  BY DEF RowInv, TypeOK, Inserted
<1>4. TableFinite'
  BY <1>3, FS_AddElement DEF RowInv, TableFinite
<1>5. WorkerShape' /\ TokensDistinct' /\ RowShape' /\ ClaimCurrent' /\ OutcomeEarned'
  BY DEF RowInv, WorkerShape, TokensDistinct, RowShape, ClaimCurrent, OutcomeEarned, Owns
<1>6. OnlyCommitted'
  BY DEF RowInv, TypeOK, OnlyCommitted
<1> QED
  BY <1>2, <1>4, <1>5, <1>6 DEF RowInv

LEMMA EndTransactionInv ==
    ASSUME RowInv, NEW m \in Messages, EndTransaction(m)
    PROVE  RowInv'
<1> USE DEF EndTransaction, rowVars, workerVars, envVars
<1>1. TypeOK'
  BY DEF RowInv, TypeOK
<1>2. TableFinite'
  <2>1. Inserted' = Inserted
    BY DEF RowInv, TypeOK, Inserted
  <2> QED
    BY <2>1 DEF RowInv, TableFinite
<1>3. WorkerShape' /\ TokensDistinct' /\ RowShape' /\ ClaimCurrent' /\ OutcomeEarned'
  BY DEF RowInv, WorkerShape, TokensDistinct, RowShape, ClaimCurrent, OutcomeEarned, Owns
<1>4. OnlyCommitted'
  BY DEF RowInv, TypeOK, OnlyCommitted
<1> QED
  BY <1>1, <1>2, <1>3, <1>4 DEF RowInv

LEMMA ClaimInv ==
    ASSUME RowInv, NEW w \in Workers, Claim(w)
    PROVE  RowInv'
<1> USE DEF Claim, envVars
<1> DEFINE fresh == CHOOSE t \in Unused : TRUE
<1>1. TypeOK
  BY DEF RowInv
<1>2. /\ fresh \in Tokens
      /\ \A m \in Messages : token[m] # fresh
      /\ \A v \in Workers : mine[v] # fresh
  BY DEF Unused
<1>3. /\ Candidates \subseteq Messages
      /\ \A m \in Candidates :
            tx[m] = "committed" /\ m \notin published \cup failed /\ lease[m] # "held"
  BY DEF Candidates, Claimable
<1>4. /\ token' = [m \in Messages |-> IF m \in Candidates THEN fresh ELSE token[m]]
      /\ mine' = [mine EXCEPT ![w] = fresh]
      /\ lease' = [m \in Messages |-> IF m \in Candidates THEN "held" ELSE lease[m]]
  OBVIOUS
<1> HIDE DEF fresh
<1>5. TypeOK'
  <2>1. lease' \in [Messages -> {"none", "held", "expired"}]
    BY <1>1, <1>4 DEF TypeOK
  <2>2. token' \in [Messages -> Tokens \cup {NoToken}]
    BY <1>1, <1>2, <1>4 DEF TypeOK
  <2>5. mine' \in [Workers -> Tokens \cup {NoToken}]
    BY <1>1, <1>2, <1>4 DEF TypeOK
  <2>3. batch' \in [Workers -> SUBSET Messages] /\ phase' \in [Workers -> {"idle", "sending", "sent", "refused"}]
    BY <1>1, <1>3 DEF TypeOK
  <2>4. seen' \in [Workers -> [Messages -> Nat]]
    <3>1. [m \in Messages |-> IF m \in Candidates THEN attempts[m] ELSE 0] \in [Messages -> Nat]
      BY <1>1, ConfigAssumption DEF TypeOK
    <3> QED
      BY <1>1, <3>1 DEF TypeOK
  <2> QED
    BY <1>1, <2>1, <2>2, <2>3, <2>4, <2>5 DEF TypeOK
<1>6. TableFinite'
  BY DEF RowInv, TableFinite, Inserted
<1>7. WorkerShape'
  BY <1>1, <1>2, <1>4 DEF RowInv, TypeOK, WorkerShape
<1>8. TokensDistinct'
  <2>1. \A v \in Workers : mine'[v] = IF v = w THEN fresh ELSE mine[v]
    BY <1>1, <1>4 DEF TypeOK
  <2> QED
    BY <1>2, <2>1 DEF RowInv, TokensDistinct
<1>9. RowShape'
  <2>1. published' = published /\ failed' = failed
    OBVIOUS
  <2> HIDE DEF Claim
  <2> SUFFICES ASSUME NEW m \in Messages
               PROVE  /\ token'[m] = NoToken <=> lease'[m] = "none"
                      /\ m \in published \cup failed => lease'[m] = "none"
    BY <2>1 DEF RowShape
  <2>2. CASE m \in Candidates
    <3>1. token'[m] = fresh /\ lease'[m] = "held"
      BY <1>4, <2>2
    <3>2. fresh # NoToken
      BY <1>2, NoValueAssumption
    <3> QED
      BY <1>3, <2>2, <3>1, <3>2
  <2>3. CASE m \notin Candidates
    <3>1. token'[m] = token[m] /\ lease'[m] = lease[m]
      BY <1>4, <2>3
    <3> QED
      BY <3>1 DEF RowInv, RowShape
  <2> QED
    BY <2>2, <2>3
<1>10. ClaimCurrent'
  <2> SUFFICES ASSUME NEW v \in Workers, NEW m \in batch'[v], token'[m] = mine'[v]
               PROVE  seen'[v][m] = attempts'[m]
    BY DEF ClaimCurrent, Owns
  <2>1. CASE v = w
    BY <1>1, <1>3, <2>1 DEF TypeOK
  <2>2. CASE v # w
    <3>1. m \in batch[v] /\ m \in Messages /\ mine'[v] = mine[v] /\ seen'[v] = seen[v]
      BY <1>1, <1>4, <2>2 DEF TypeOK
    <3>2. token[m] = mine[v]
      BY <1>2, <1>4, <3>1
    <3> QED
      BY <3>1, <3>2 DEF RowInv, ClaimCurrent, Owns
  <2> QED
    BY <2>1, <2>2
<1>11. OnlyCommitted'
  BY <1>1, <1>3 DEF RowInv, TypeOK, OnlyCommitted
<1>12. OutcomeEarned'
  BY DEF RowInv, OutcomeEarned
<1> QED
  BY <1>5, <1>6, <1>7, <1>8, <1>9, <1>10, <1>11, <1>12 DEF RowInv

LEMMA PublishInv ==
    ASSUME RowInv, NEW w \in Workers, Publish(w)
    PROVE  RowInv'
<1> USE DEF Publish, rowVars
<1>1. TypeOK
  BY DEF RowInv
<1>2. PICK m \in batch[w] :
        /\ current' = [current EXCEPT ![w] = m]
        /\ \/ /\ phase' = [phase EXCEPT ![w] = "sent"]
              /\ delivered' = [delivered EXCEPT ![m] = @ + 1]
           \/ /\ phase' = [phase EXCEPT ![w] = "refused"]
              /\ \/ UNCHANGED delivered
                 \/ delivered' = [delivered EXCEPT ![m] = @ + 1]
  OBVIOUS
<1>3. m \in Messages
  BY <1>1 DEF TypeOK
<1>4. /\ delivered' \in [Messages -> Nat]
      /\ \A k \in Messages \ {m} : delivered'[k] = delivered[k]
      /\ delivered'[m] \in {delivered[m], delivered[m] + 1}
      /\ phase'[w] = "sent" => delivered'[m] = delivered[m] + 1
  <2>1. delivered' = delivered \/ delivered' = [delivered EXCEPT ![m] = delivered[m] + 1]
    BY <1>2
  <2>2. phase'[w] = "sent" => delivered' = [delivered EXCEPT ![m] = delivered[m] + 1]
    BY <1>1, <1>2 DEF TypeOK
  <2>3. delivered \in [Messages -> Nat]
    BY <1>1 DEF TypeOK
  <2>4. delivered'[m] \in {delivered[m], delivered[m] + 1} /\ delivered' \in [Messages -> Nat]
    BY <1>3, <2>1, <2>3
  <2> QED
    BY <1>3, <2>1, <2>2, <2>3, <2>4
<1>5. TypeOK'
  <2>1. current' \in [Workers -> Messages \cup {NoMessage}]
    BY <1>1, <1>2, <1>3 DEF TypeOK
  <2>2. phase' \in [Workers -> {"idle", "sending", "sent", "refused"}]
    BY <1>1, <1>2 DEF TypeOK
  <2> QED
    BY <1>1, <1>4, <2>1, <2>2 DEF TypeOK
<1>6. TableFinite'
  BY DEF RowInv, TableFinite, Inserted
<1>7. WorkerShape'
  <2>1. delivered'[m] = delivered[m] + 1 \/ phase'[w] # "sent"
    BY <1>4
  <2>2. \A k \in Messages : delivered[k] > 0 => delivered'[k] > 0
    BY <1>1, <1>4 DEF TypeOK
  <2>3. delivered'[m] = delivered[m] + 1 => delivered'[m] > 0
    BY <1>1, <1>3 DEF TypeOK
  <2> SUFFICES ASSUME NEW v \in Workers
               PROVE  /\ phase'[v] = "idle" => batch'[v] = {}
                      /\ batch'[v] # {} => mine'[v] \in Tokens
                      /\ phase'[v] \in {"sent", "refused"} => current'[v] \in batch'[v]
                      /\ phase'[v] = "sent" => delivered'[current'[v]] > 0
    BY DEF WorkerShape
  <2>4. CASE v = w
    BY <1>1, <1>2, <2>1, <2>3, <2>4 DEF RowInv, TypeOK, WorkerShape
  <2>5. CASE v # w
    BY <1>1, <1>2, <2>2, <2>5 DEF RowInv, TypeOK, WorkerShape
  <2> QED
    BY <2>4, <2>5
<1>8. TokensDistinct' /\ RowShape' /\ ClaimCurrent'
  BY DEF RowInv, TokensDistinct, RowShape, ClaimCurrent, Owns
<1>9. OnlyCommitted'
  BY <1>1, <1>3, <1>4 DEF RowInv, TypeOK, OnlyCommitted
<1>10. OutcomeEarned'
  <2>1. delivered \in [Messages -> Nat] /\ published \subseteq Messages
    BY <1>1 DEF TypeOK
  <2>2. \A k \in published : delivered'[k] > 0
    BY <1>3, <1>4, <2>1 DEF RowInv, OutcomeEarned
  <2> QED
    BY <2>2 DEF RowInv, OutcomeEarned
<1> QED
  BY <1>5, <1>6, <1>7, <1>8, <1>9, <1>10 DEF RowInv

LEMMA MarkPublishedInv ==
    ASSUME RowInv, NEW w \in Workers, MarkPublished(w)
    PROVE  RowInv'
<1> USE DEF MarkPublished, envVars
<1> DEFINE m == current[w]
<1>1. TypeOK
  BY DEF RowInv
<1>2. NextRecord(w) /\ m \in batch[w] /\ m \in Messages /\ delivered[m] > 0
  BY <1>1 DEF RowInv, TypeOK, WorkerShape
<1>3. /\ UNCHANGED <<tx, attempts, failed, delivered>>
      /\ \/ /\ Owns(w, m)
            /\ published' = published \cup {m}
            /\ lease' = [lease EXCEPT ![m] = "none"]
            /\ token' = [token EXCEPT ![m] = NoToken]
         \/ UNCHANGED <<published, lease, token>>
  BY DEF Release
<1> HIDE DEF m
<1>4. /\ published' \subseteq Messages
      /\ lease' \in [Messages -> {"none", "held", "expired"}]
      /\ token' \in [Messages -> Tokens \cup {NoToken}]
  <2>1. published' \subseteq Messages
    BY <1>1, <1>2, <1>3 DEF TypeOK
  <2>2. lease' \in [Messages -> {"none", "held", "expired"}]
    BY <1>1, <1>3 DEF TypeOK
  <2>3. token' \in [Messages -> Tokens \cup {NoToken}]
    BY <1>1, <1>3 DEF TypeOK
  <2> QED
    BY <2>1, <2>2, <2>3
<1>5. TypeOK'
  BY <1>1, <1>2, <1>3, <1>4, WorkerLeaves DEF TypeOK
<1>6. TableFinite'
  BY <1>3 DEF RowInv, TableFinite, Inserted
<1>7. WorkerShape'
  BY <1>2, <1>3, WorkerLeaves DEF RowInv, WorkerShape
<1>8. TokensDistinct'
  BY <1>2, WorkerLeaves
<1>9. RowShape'
  BY <1>1, <1>2, <1>3 DEF RowInv, TypeOK, RowShape
<1>10. ClaimCurrent'
  <2> SUFFICES ASSUME NEW v \in Workers, NEW k \in batch'[v], token'[k] = mine'[v]
               PROVE  seen'[v][k] = attempts'[k]
    BY DEF ClaimCurrent, Owns
  <2>1. k \in batch[v] /\ mine'[v] = mine[v] /\ seen'[v] = seen[v]
    BY <1>2, WorkerLeaves
  <2>2. mine[v] # NoToken /\ k \in Messages
    BY <1>1, <2>1, NoValueAssumption DEF RowInv, TypeOK, WorkerShape
  <2>3. token[k] = mine[v]
    BY <1>1, <1>3, <2>1, <2>2 DEF TypeOK
  <2> QED
    BY <1>3, <2>1, <2>3 DEF RowInv, ClaimCurrent, Owns
<1>11. OnlyCommitted'
  <2>1. tx[m] = "committed"
    BY <1>2 DEF RowInv, OnlyCommitted
  <2>2. \A v \in Workers : batch'[v] \subseteq batch[v]
    BY <1>2, WorkerLeaves
  <2> QED
    BY <1>3, <2>1, <2>2 DEF RowInv, OnlyCommitted
<1>12. OutcomeEarned'
  <2>1. Owns(w, m) => m \notin failed
    BY <1>2, OwnedRow
  <2> QED
    BY <1>2, <1>3, <2>1 DEF RowInv, OutcomeEarned
<1> QED
  BY <1>5, <1>6, <1>7, <1>8, <1>9, <1>10, <1>11, <1>12 DEF RowInv

LEMMA MarkFailedInv ==
    ASSUME RowInv, NEW w \in Workers, MarkFailed(w)
    PROVE  RowInv'
<1> USE DEF MarkFailed, envVars
<1> DEFINE m == current[w]
<1>1. TypeOK
  BY DEF RowInv
<1>2. NextRecord(w) /\ m \in batch[w] /\ m \in Messages
  BY <1>1 DEF RowInv, TypeOK, WorkerShape
<1>3. /\ UNCHANGED <<tx, published, delivered>>
      /\ \/ /\ Owns(w, m)
            /\ attempts' = [attempts EXCEPT ![m] = seen[w][m] + 1]
            /\ lease' = [lease EXCEPT ![m] = "none"]
            /\ token' = [token EXCEPT ![m] = NoToken]
            /\ \/ /\ seen[w][m] + 1 >= MaxAttempts
                  /\ failed' = failed \cup {m}
                  /\ UNCHANGED due
               \/ /\ seen[w][m] + 1 < MaxAttempts
                  /\ due' = [due EXCEPT ![m] = FALSE]
                  /\ UNCHANGED failed
         \/ UNCHANGED <<attempts, due, failed, lease, token>>
  BY DEF Release
<1> HIDE DEF m
<1>4. CASE UNCHANGED <<attempts, due, failed, lease, token>>
  <2>1. TypeOK'
    BY <1>1, <1>2, <1>4, WorkerLeaves DEF TypeOK
  <2>2. TableFinite'
    BY <1>3 DEF RowInv, TableFinite, Inserted
  <2>3. WorkerShape' /\ TokensDistinct'
    BY <1>2, <1>3, WorkerLeaves DEF RowInv, WorkerShape
  <2>4. RowShape' /\ OutcomeEarned'
    BY <1>3, <1>4 DEF RowInv, RowShape, OutcomeEarned
  <2>5. ClaimCurrent' /\ OnlyCommitted'
    BY <1>2, <1>3, <1>4, WorkerLeaves DEF RowInv, ClaimCurrent, OnlyCommitted, Owns
  <2> QED
    BY <2>1, <2>2, <2>3, <2>4, <2>5 DEF RowInv
<1>5. CASE Owns(w, m) /\ ~UNCHANGED <<attempts, due, failed, lease, token>>
  <2>1. /\ m \notin published \cup failed
        /\ seen[w][m] = attempts[m]
        /\ attempts[m] < MaxAttempts
    BY <1>2, <1>5, OwnedRow
  <2>2. /\ attempts' = [attempts EXCEPT ![m] = attempts[m] + 1]
        /\ lease' = [lease EXCEPT ![m] = "none"]
        /\ token' = [token EXCEPT ![m] = NoToken]
        /\ failed' = IF attempts[m] + 1 = MaxAttempts THEN failed \cup {m} ELSE failed
        /\ due' = due \/ due' = [due EXCEPT ![m] = FALSE]
    <3>1. attempts[m] \in Nat
      BY <1>1, <1>2, ConfigAssumption DEF TypeOK
    <3> QED
      BY <1>3, <1>5, <2>1, <3>1, ConfigAssumption
  <2>3. TypeOK'
    <3>1. attempts' \in [Messages -> 0..MaxAttempts]
      BY <1>1, <1>2, <2>1, <2>2, ConfigAssumption DEF TypeOK
    <3>2. failed' \subseteq Messages /\ due' \in [Messages -> BOOLEAN]
      BY <1>1, <1>2, <2>2 DEF TypeOK
    <3>3. lease' \in [Messages -> {"none", "held", "expired"}] /\ token' \in [Messages -> Tokens \cup {NoToken}]
      BY <1>1, <2>2 DEF TypeOK
    <3> QED
      BY <1>1, <1>2, <3>1, <3>2, <3>3, WorkerLeaves DEF TypeOK
  <2>4. TableFinite'
    BY <1>3 DEF RowInv, TableFinite, Inserted
  <2>5. WorkerShape' /\ TokensDistinct'
    BY <1>2, <1>3, WorkerLeaves DEF RowInv, WorkerShape
  <2>6. RowShape'
    BY <1>1, <1>2, <1>3, <2>2 DEF RowInv, TypeOK, RowShape
  <2>7. ClaimCurrent'
    <3> SUFFICES ASSUME NEW v \in Workers, NEW k \in batch'[v], token'[k] = mine'[v]
                 PROVE  seen'[v][k] = attempts'[k]
      BY DEF ClaimCurrent, Owns
    <3>1. k \in batch[v] /\ mine'[v] = mine[v] /\ seen'[v] = seen[v]
      BY <1>2, WorkerLeaves
    <3>2. mine[v] # NoToken /\ k \in Messages
      BY <1>1, <3>1, NoValueAssumption DEF RowInv, TypeOK, WorkerShape
    <3>3. k # m /\ token[k] = mine[v]
      BY <1>1, <1>2, <2>2, <3>1, <3>2 DEF TypeOK
    <3> QED
      BY <1>1, <2>2, <3>1, <3>2, <3>3 DEF RowInv, TypeOK, ClaimCurrent, Owns
  <2>8. OnlyCommitted'
    <3>1. tx[m] = "committed"
      BY <1>2 DEF RowInv, OnlyCommitted
    <3>2. \A v \in Workers : batch'[v] \subseteq batch[v]
      BY <1>2, WorkerLeaves
    <3> QED
      BY <1>3, <2>2, <3>1, <3>2 DEF RowInv, OnlyCommitted
  <2>9. OutcomeEarned'
    <3>1. \A k \in Messages : k \in failed' <=> attempts'[k] = MaxAttempts
      BY <1>1, <1>2, <2>1, <2>2 DEF RowInv, TypeOK, OutcomeEarned
    <3> QED
      BY <1>3, <2>1, <2>2, <3>1 DEF RowInv, OutcomeEarned
  <2> QED
    BY <2>3, <2>4, <2>5, <2>6, <2>7, <2>8, <2>9 DEF RowInv
<1> QED
  BY <1>3, <1>4, <1>5

LEMMA AbandonInv ==
    ASSUME RowInv, NEW w \in Workers, SettleError(w) \/ Crash(w)
    PROVE  RowInv'
<1>1. /\ UNCHANGED <<tx, age, rowVars, delivered, expiries>>
      /\ faults' = faults + 1
      /\ \/ NextRecord(w)
         \/ /\ Return(w)
            /\ batch' = [batch EXCEPT ![w] = {}]
            /\ current' = [current EXCEPT ![w] = NoMessage]
  BY DEF SettleError, Crash, Fault
<1> USE DEF rowVars
<1>2. TypeOK'
  <2>1. faults' \in Nat
    BY <1>1 DEF RowInv, TypeOK
  <2>2. UNCHANGED <<tx, age, attempts, due, lease, token, published, failed, delivered, expiries>>
    BY <1>1
  <2> QED
    BY <1>1, <2>1, <2>2, WorkerLeaves DEF RowInv, TypeOK
<1>3. TableFinite'
  BY <1>1 DEF RowInv, TableFinite, Inserted
<1>4. WorkerShape' /\ TokensDistinct'
  BY <1>1, WorkerLeaves DEF RowInv, WorkerShape
<1>5. RowShape' /\ OutcomeEarned'
  BY <1>1 DEF RowInv, RowShape, OutcomeEarned
<1>6. ClaimCurrent' /\ OnlyCommitted'
  BY <1>1, WorkerLeaves DEF RowInv, ClaimCurrent, OnlyCommitted, Owns
<1> QED
  BY <1>2, <1>3, <1>4, <1>5, <1>6 DEF RowInv

LEMMA TimeInv ==
    ASSUME RowInv, NEW m \in Messages,
           OrphanLeaseExpires(m) \/ SlowLeaseExpires(m) \/ BackoffElapses(m)
    PROVE  RowInv'
<1> USE DEF OrphanLeaseExpires, SlowLeaseExpires, Expire, Fault, BackoffElapses,
            workerVars, envVars
<1>1. TypeOK
  BY DEF RowInv
<1>2. /\ UNCHANGED <<tx, age, attempts, token, published, failed, workerVars, delivered>>
      /\ \/ lease[m] = "held" /\ lease' = [lease EXCEPT ![m] = "expired"]
         \/ UNCHANGED lease
  OBVIOUS
<1>3. lease' \in [Messages -> {"none", "held", "expired"}] /\ due' \in [Messages -> BOOLEAN]
  BY <1>1 DEF TypeOK
<1>4. expiries' \in [Messages -> Nat] /\ faults' \in Nat
  BY <1>1 DEF TypeOK
<1>5. TypeOK'
  BY <1>1, <1>2, <1>3, <1>4 DEF TypeOK
<1>6. TableFinite'
  BY <1>2 DEF RowInv, TableFinite, Inserted
<1>7. WorkerShape' /\ TokensDistinct' /\ ClaimCurrent' /\ OnlyCommitted' /\ OutcomeEarned'
  BY <1>2 DEF RowInv, WorkerShape, TokensDistinct, ClaimCurrent, OnlyCommitted, OutcomeEarned, Owns
<1>8. RowShape'
  BY <1>1, <1>2 DEF RowInv, TypeOK, RowShape
<1> QED
  BY <1>5, <1>6, <1>7, <1>8 DEF RowInv

LEMMA RowInvStep == RowInv /\ [Next]_vars => RowInv'
<1> SUFFICES ASSUME RowInv, [Next]_vars PROVE RowInv'
  OBVIOUS
<1>1. ASSUME NEW m \in Messages, Enqueue(m) \/ EndTransaction(m) PROVE RowInv'
  BY <1>1, EnqueueInv, EndTransactionInv
<1>2. ASSUME NEW w \in Workers, Claim(w) PROVE RowInv'
  BY <1>2, ClaimInv
<1>3. ASSUME NEW w \in Workers, Publish(w) PROVE RowInv'
  BY <1>3, PublishInv
<1>4. ASSUME NEW w \in Workers, MarkPublished(w) PROVE RowInv'
  BY <1>4, MarkPublishedInv
<1>5. ASSUME NEW w \in Workers, MarkFailed(w) PROVE RowInv'
  BY <1>5, MarkFailedInv
<1>6. ASSUME NEW w \in Workers, SettleError(w) \/ Crash(w) PROVE RowInv'
  BY <1>6, AbandonInv
<1>7. ASSUME NEW m \in Messages,
             OrphanLeaseExpires(m) \/ SlowLeaseExpires(m) \/ BackoffElapses(m)
      PROVE RowInv'
  BY <1>7, TimeInv
<1>8. ASSUME UNCHANGED vars PROVE RowInv'
  BY <1>8 DEF vars, rowVars, workerVars, envVars, RowInv, TypeOK, TableFinite, Inserted, WorkerShape,
      TokensDistinct, RowShape, ClaimCurrent, OnlyCommitted, OutcomeEarned, Owns
<1>9. ASSUME NEW w \in Workers, PollNothing(w) PROVE RowInv'
  BY <1>8, <1>9 DEF PollNothing
<1> QED
  BY <1>1, <1>2, <1>3, <1>4, <1>5, <1>6, <1>7, <1>8, <1>9 DEF Next

\* The inductive invariant holds in every reachable state of the outbox.
THEOREM RowInvariant == Spec => []RowInv
<1> QED
  BY RowInvInit, RowInvStep, PTL DEF Spec

\* Every variable keeps its type: in particular no row ever counts more than
\* MaxAttempts attempts.
THEOREM TypeCorrect == Spec => []TypeOK
<1>1. RowInv => TypeOK
  BY DEF RowInv
<1> QED
  BY <1>1, RowInvariant, PTL

\* However many workers race for the rows, an outcome is unique and earned:
\* "published" by a copy at the broker, "failed" by MaxAttempts attempts.
THEOREM OutcomesEarned == Spec => []OutcomeEarned
<1>1. RowInv => OutcomeEarned
  BY DEF RowInv
<1> QED
  BY <1>1, RowInvariant, PTL

-----------------------------------------------------------------------------
(* The steps seen from one row.                                            *)

\* Only MarkPublished and MarkFailed settle a row or count an attempt, one row
\* each, and only a row that the worker still owns.
LEMMA SettlingStep ==
    ASSUME RowInv, [Next]_vars
    PROVE  \/ UNCHANGED <<attempts, published, failed>>
           \/ \E m \in Messages :
                /\ m \notin published \cup failed
                /\ tx[m] = "committed"
                /\ UNCHANGED <<tx, delivered>>
                /\ \/ /\ published' = published \cup {m}
                      /\ delivered[m] > 0
                      /\ UNCHANGED <<attempts, failed>>
                   \/ /\ attempts' = [attempts EXCEPT ![m] = attempts[m] + 1]
                      /\ failed' \in {failed, failed \cup {m}}
                      /\ UNCHANGED published
<1> USE DEF rowVars, envVars
<1>1. ASSUME NEW w \in Workers, MarkPublished(w) \/ MarkFailed(w)
      PROVE  \/ UNCHANGED <<attempts, published, failed>>
             \/ \E m \in Messages :
                  /\ m \notin published \cup failed
                  /\ tx[m] = "committed"
                  /\ UNCHANGED <<tx, delivered>>
                  /\ \/ /\ published' = published \cup {m}
                        /\ delivered[m] > 0
                        /\ UNCHANGED <<attempts, failed>>
                     \/ /\ attempts' = [attempts EXCEPT ![m] = attempts[m] + 1]
                        /\ failed' \in {failed, failed \cup {m}}
                        /\ UNCHANGED published
  <2> DEFINE m == current[w]
  <2>1. m \in batch[w] /\ (MarkPublished(w) => delivered[m] > 0)
    BY <1>1 DEF RowInv, WorkerShape, MarkPublished, MarkFailed
  <2>2. m \in Messages /\ tx[m] = "committed"
    BY <2>1 DEF RowInv, TypeOK, OnlyCommitted
  <2>3. Owns(w, m) => m \notin published \cup failed /\ seen[w][m] = attempts[m]
    BY <2>1, OwnedRow
  <2>4. CASE MarkPublished(w)
    BY <2>1, <2>2, <2>3, <2>4 DEF MarkPublished
  <2>5. CASE MarkFailed(w)
    BY <2>2, <2>3, <2>5 DEF MarkFailed
  <2> QED
    BY <1>1, <2>4, <2>5
<1>2. ASSUME NEW m \in Messages, Enqueue(m) \/ EndTransaction(m)
      PROVE  UNCHANGED <<attempts, published, failed>>
  BY <1>2 DEF Enqueue, EndTransaction
<1>3. ASSUME NEW w \in Workers,
             Claim(w) \/ PollNothing(w) \/ Publish(w) \/ SettleError(w) \/ Crash(w)
      PROVE  UNCHANGED <<attempts, published, failed>>
  BY <1>3 DEF Claim, PollNothing, Publish, SettleError, Crash, vars
<1>4. ASSUME NEW m \in Messages,
             OrphanLeaseExpires(m) \/ SlowLeaseExpires(m) \/ BackoffElapses(m)
      PROVE  UNCHANGED <<attempts, published, failed>>
  BY <1>4 DEF OrphanLeaseExpires, SlowLeaseExpires, Expire, BackoffElapses
<1> QED
  BY <1>1, <1>2, <1>3, <1>4 DEF Next, vars

\* A stale worker never takes a row backwards.
THEOREM RowsAdvance == Spec => RowsOnlyAdvance
<1>1. RowInv /\ [Next]_vars =>
        [\A m \in Messages :
            /\ attempts'[m] \in {attempts[m], attempts[m] + 1}
            /\ m \in published \cup failed => attempts'[m] = attempts[m]
            /\ m \in published => m \in published'
            /\ m \in failed => m \in failed']_vars
  <2> SUFFICES ASSUME RowInv, [Next]_vars, NEW m \in Messages
               PROVE  /\ attempts'[m] \in {attempts[m], attempts[m] + 1}
                      /\ m \in published \cup failed => attempts'[m] = attempts[m]
                      /\ m \in published => m \in published'
                      /\ m \in failed => m \in failed'
    OBVIOUS
  <2>1. attempts \in [Messages -> 0..MaxAttempts]
    BY DEF RowInv, TypeOK
  <2> QED
    BY <2>1, SettlingStep
<1> QED
  BY <1>1, RowInvariant, PTL DEF Spec, RowsOnlyAdvance

-----------------------------------------------------------------------------
(* The outbox implements EventDelivery.                                    *)

LEMMA DeliveryInit == Init => Delivery!Init
  BY DEF Init, Delivery!Init, Outcome

\* Every step of the outbox is a step of EventDelivery or leaves what
\* EventDelivery speaks about alone.
LEMMA DeliveryStep == RowInv /\ [Next]_vars => [Delivery!Next]_(Delivery!vars)
<1> SUFFICES ASSUME RowInv, [Next]_vars
             PROVE  Delivery!Next \/ UNCHANGED <<tx, delivered, Outcome>>
  BY DEF Delivery!vars
<1> USE DEF rowVars, envVars
<1>1. TypeOK
  BY DEF RowInv
<1>2. ASSUME UNCHANGED <<published, failed>> PROVE UNCHANGED Outcome
  BY <1>2 DEF Outcome
<1>3. ASSUME NEW m \in Messages, Enqueue(m) PROVE Delivery!Begin(m)
  BY <1>2, <1>3 DEF Enqueue, Delivery!Begin
<1>4. ASSUME NEW m \in Messages, EndTransaction(m)
      PROVE Delivery!Finish(m, "committed") \/ Delivery!Finish(m, "aborted")
  BY <1>2, <1>4 DEF EndTransaction, Delivery!Finish
<1>5. ASSUME NEW w \in Workers, Publish(w)
      PROVE  \/ \E m \in Messages : Delivery!Copy(m)
             \/ UNCHANGED <<tx, delivered, Outcome>>
  <2>1. PICK m \in batch[w] : \/ delivered' = [delivered EXCEPT ![m] = @ + 1]
                              \/ UNCHANGED delivered
    BY <1>5 DEF Publish
  <2>2. m \in Messages /\ tx[m] = "committed"
    BY <1>1 DEF RowInv, TypeOK, OnlyCommitted
  <2> QED
    BY <1>2, <1>5, <2>1, <2>2 DEF Publish, Delivery!Copy
<1>6. ASSUME NEW w \in Workers, MarkPublished(w) \/ MarkFailed(w)
      PROVE  Delivery!Next \/ UNCHANGED <<tx, delivered, Outcome>>
  <2>1. UNCHANGED <<tx, delivered>>
    BY <1>6 DEF MarkPublished, MarkFailed
  <2>2. CASE UNCHANGED <<published, failed>>
    BY <1>2, <2>1, <2>2
  <2>3. ASSUME NEW m \in Messages, m \notin published \cup failed, tx[m] = "committed",
               \/ published' = published \cup {m} /\ delivered[m] > 0 /\ UNCHANGED failed
               \/ failed' = failed \cup {m} /\ UNCHANGED published
        PROVE  Delivery!Next
    <3>1. CASE published' = published \cup {m} /\ delivered[m] > 0 /\ UNCHANGED failed
      <4>1. Outcome' = [Outcome EXCEPT ![m] = "published"] /\ Outcome[m] = "open"
        BY <2>3, <3>1 DEF Outcome
      <4> QED
        BY <2>1, <2>3, <3>1, <4>1 DEF Delivery!Settle, Delivery!Next
    <3>2. CASE failed' = failed \cup {m} /\ UNCHANGED published
      <4>1. Outcome' = [Outcome EXCEPT ![m] = "failed"] /\ Outcome[m] = "open"
        BY <2>3, <3>2 DEF Outcome
      <4> QED
        BY <2>1, <2>3, <4>1 DEF Delivery!Settle, Delivery!Next
    <3> QED
      BY <2>3, <3>1, <3>2
  <2> QED
    BY <2>2, <2>3, SettlingStep
<1>7. ASSUME NEW w \in Workers, Claim(w) \/ PollNothing(w) \/ SettleError(w) \/ Crash(w)
      PROVE  UNCHANGED <<tx, delivered, Outcome>>
  BY <1>2, <1>7 DEF Claim, PollNothing, SettleError, Crash, vars
<1>8. ASSUME NEW m \in Messages,
             OrphanLeaseExpires(m) \/ SlowLeaseExpires(m) \/ BackoffElapses(m)
      PROVE  UNCHANGED <<tx, delivered, Outcome>>
  BY <1>2, <1>8 DEF OrphanLeaseExpires, SlowLeaseExpires, Expire, BackoffElapses
<1>9. ASSUME UNCHANGED vars PROVE UNCHANGED <<tx, delivered, Outcome>>
  BY <1>2, <1>9 DEF vars
<1> QED
  BY <1>3, <1>4, <1>5, <1>6, <1>7, <1>8, <1>9 DEF Next, Delivery!Next

\* The outbox keeps the safety half of EventDelivery's promise: copies only of
\* committed events, one outcome, and "published" only with a copy.
THEOREM ImplementsDeliverySafety == Spec => Delivery!Safe
<1> QED
  BY DeliveryInit, RowInvariant, DeliveryStep, PTL DEF Spec, Delivery!Safe

-----------------------------------------------------------------------------
(* Duplicates.  A claim may produce one copy of each record it has not sent *)
(* yet; a claim becomes possible again only after the last one was counted  *)
(* as a failed attempt or its lease ran out.                                *)

\* The workers that hold a record of the event which they have not sent.
Unsent(m) == {w \in Workers : m \in batch[w] /\ current[w] # m}

\* The one claim that neither an attempt nor an expiry accounts for yet.
OpenClaim(m) == IF lease[m] = "held" \/ m \in published THEN 1 ELSE 0

CopiesAccounted ==
    \A m \in Messages :
        delivered[m] + Cardinality(Unsent(m)) <= attempts[m] + expiries[m] + OpenClaim(m)

\* A record is current only after the broker call.
SendingShape == \A w \in Workers : phase[w] \in {"idle", "sending"} => current[w] = NoMessage

CopyInv == CopiesAccounted /\ SendingShape

LEMMA UnsentFinite ==
    ASSUME NEW m
    PROVE  IsFiniteSet(Unsent(m)) /\ Cardinality(Unsent(m)) \in Nat
<1>1. Unsent(m) \in SUBSET Workers
  BY DEF Unsent
<1>2. IsFiniteSet(Unsent(m))
  BY <1>1, WorkersAssumption, FS_Subset
<1> QED
  BY <1>2, FS_CardinalityType

LEMMA UnsentFinitePrimed ==
    ASSUME NEW m
    PROVE  IsFiniteSet(Unsent(m)') /\ Cardinality(Unsent(m)') \in Nat
<1>1. Unsent(m)' \in SUBSET Workers
  BY DEF Unsent
<1>2. IsFiniteSet(Unsent(m)')
  BY <1>1, WorkersAssumption, FS_Subset
<1> QED
  BY <1>2, FS_CardinalityType

\* A step that gives no worker a new record to send, sends nothing and loses no
\* account keeps the copies accounted for.
LEMMA AccountKept ==
    ASSUME TypeOK, TypeOK', CopiesAccounted, NEW m \in Messages,
           Unsent(m)' \subseteq Unsent(m), delivered'[m] = delivered[m],
           attempts[m] + expiries[m] + OpenClaim(m) <= attempts'[m] + expiries'[m] + OpenClaim(m)'
    PROVE  delivered'[m] + Cardinality(Unsent(m)') <= attempts'[m] + expiries'[m] + OpenClaim(m)'
<1>1. Cardinality(Unsent(m)') <= Cardinality(Unsent(m))
  BY UnsentFinite, FS_Subset
<1>2. Cardinality(Unsent(m)) \in Nat /\ Cardinality(Unsent(m)') \in Nat
  BY UnsentFinite, UnsentFinitePrimed
<1>3. /\ attempts[m] \in Nat /\ attempts'[m] \in Nat
      /\ expiries[m] \in Nat /\ expiries'[m] \in Nat
      /\ delivered[m] \in Nat
      /\ OpenClaim(m) \in Nat /\ OpenClaim(m)' \in Nat
  BY ConfigAssumption DEF TypeOK, OpenClaim
<1>4. delivered[m] + Cardinality(Unsent(m)) <= attempts[m] + expiries[m] + OpenClaim(m)
  BY DEF CopiesAccounted
<1> QED
  BY <1>1, <1>2, <1>3, <1>4

\* The account as a number, and the easy case in which its terms do not change.
LEMMA LedgerGrows ==
    ASSUME TypeOK, NEW m \in Messages
    PROVE  /\ attempts[m] \in Nat /\ expiries[m] \in Nat /\ OpenClaim(m) \in Nat
           /\ UNCHANGED <<attempts, expiries>> /\ OpenClaim(m)' = OpenClaim(m)
              => attempts[m] + expiries[m] + OpenClaim(m) <= attempts'[m] + expiries'[m] + OpenClaim(m)'
  BY ConfigAssumption DEF TypeOK, OpenClaim

LEMMA ClaimAccounted ==
    ASSUME RowInv, RowInv', CopyInv, NEW w \in Workers, Claim(w)
    PROVE  CopyInv'
<1> USE DEF Claim, envVars
<1>1. TypeOK /\ TypeOK'
  BY DEF RowInv
<1>2. batch[w] = {} /\ current[w] = NoMessage
  BY DEF RowInv, WorkerShape, CopyInv, SendingShape
<1>3. \A m \in Candidates : m \notin published /\ lease[m] # "held"
  BY DEF Candidates, Claimable
<1>4. SendingShape'
  BY <1>1, <1>2 DEF CopyInv, SendingShape, TypeOK
<1>5. ASSUME NEW m \in Messages
      PROVE  delivered'[m] + Cardinality(Unsent(m)') <= attempts'[m] + expiries'[m] + OpenClaim(m)'
  <2>1. CASE m \notin Candidates
    <3>1. Unsent(m)' = Unsent(m)
      BY <1>1, <1>2, <2>1 DEF Unsent, TypeOK
    <3>2. OpenClaim(m)' = OpenClaim(m)
      BY <2>1 DEF OpenClaim
    <3> QED
      BY <3>1, <3>2 DEF CopyInv, CopiesAccounted
  <2>2. CASE m \in Candidates
    <3>1. Unsent(m)' = Unsent(m) \cup {w} /\ w \notin Unsent(m)
      BY <1>1, <1>2, <2>2, NoValueAssumption DEF Unsent, TypeOK
    <3>2. Cardinality(Unsent(m)') = Cardinality(Unsent(m)) + 1
      BY <3>1, UnsentFinite, FS_AddElement
    <3>3. OpenClaim(m) = 0 /\ OpenClaim(m)' = 1
      BY <1>3, <2>2 DEF OpenClaim
    <3>4. delivered[m] \in Nat /\ attempts[m] \in Nat /\ expiries[m] \in Nat
      BY <1>1, ConfigAssumption DEF TypeOK
    <3>5. delivered[m] + Cardinality(Unsent(m)) <= attempts[m] + expiries[m] + OpenClaim(m)
      BY DEF CopyInv, CopiesAccounted
    <3> QED
      BY <3>2, <3>3, <3>4, <3>5, UnsentFinite
  <2> QED
    BY <2>1, <2>2
<1> QED
  BY <1>4, <1>5 DEF CopyInv, CopiesAccounted

LEMMA PublishAccounted ==
    ASSUME RowInv, RowInv', CopyInv, NEW w \in Workers, Publish(w)
    PROVE  CopyInv'
<1> USE DEF Publish, rowVars
<1>1. TypeOK /\ TypeOK'
  BY DEF RowInv
<1>2. PICK k \in batch[w] :
        /\ current' = [current EXCEPT ![w] = k]
        /\ phase' \in {[phase EXCEPT ![w] = "sent"], [phase EXCEPT ![w] = "refused"]}
        /\ delivered' \in {delivered, [delivered EXCEPT ![k] = @ + 1]}
  OBVIOUS
<1>3. k \in Messages /\ current[w] = NoMessage
  BY <1>1 DEF TypeOK, CopyInv, SendingShape
<1>4. SendingShape'
  BY <1>1, <1>2 DEF CopyInv, SendingShape, TypeOK
<1>5. ASSUME NEW m \in Messages
      PROVE  delivered'[m] + Cardinality(Unsent(m)') <= attempts'[m] + expiries'[m] + OpenClaim(m)'
  <2>1. OpenClaim(m)' = OpenClaim(m)
    BY DEF OpenClaim
  <2>2. CASE m # k
    <3>1. Unsent(m)' \subseteq Unsent(m) /\ delivered'[m] = delivered[m]
      BY <1>1, <1>2, <1>3, <2>2, NoValueAssumption DEF Unsent, TypeOK
    <3> QED
      BY <1>1, <2>1, <3>1, LedgerGrows, AccountKept DEF CopyInv
  <2>3. CASE m = k
    <3>1. Unsent(m)' = Unsent(m) \ {w} /\ w \in Unsent(m)
      BY <1>1, <1>2, <1>3, <2>3, NoValueAssumption DEF Unsent, TypeOK
    <3>2. Cardinality(Unsent(m)') = Cardinality(Unsent(m)) - 1
      BY <3>1, UnsentFinite, FS_RemoveElement
    <3>3. delivered'[m] <= delivered[m] + 1 /\ delivered[m] \in Nat /\ delivered'[m] \in Nat
      BY <1>1, <1>2, <2>3 DEF TypeOK
    <3>4. attempts[m] \in Nat /\ expiries[m] \in Nat /\ OpenClaim(m) \in Nat
      BY <1>1, ConfigAssumption DEF TypeOK, OpenClaim
    <3>5. delivered[m] + Cardinality(Unsent(m)) <= attempts[m] + expiries[m] + OpenClaim(m)
      BY DEF CopyInv, CopiesAccounted
    <3> QED
      BY <2>1, <3>2, <3>3, <3>4, <3>5, UnsentFinite
  <2> QED
    BY <2>2, <2>3
<1> QED
  BY <1>4, <1>5 DEF CopyInv, CopiesAccounted

\* Settling, giving up or crashing sends nothing; a settled row trades its
\* open claim for an attempt, or keeps it as published.
LEMMA LeaveAccounted ==
    ASSUME RowInv, RowInv', CopyInv, NEW w \in Workers,
           MarkPublished(w) \/ MarkFailed(w) \/ SettleError(w) \/ Crash(w)
    PROVE  CopyInv'
<1> USE DEF rowVars, envVars
<1>1. TypeOK /\ TypeOK'
  BY DEF RowInv
<1>2. /\ UNCHANGED <<delivered, expiries>>
      /\ \A v \in Workers \ {w} : batch'[v] = batch[v] /\ current'[v] = current[v] /\ phase'[v] = phase[v]
      /\ \A v \in Workers : batch'[v] \subseteq batch[v]
      /\ current[w] \notin batch'[w]
      /\ current'[w] = NoMessage
  <2>1. \/ NextRecord(w)
        \/ /\ Return(w)
           /\ batch' = [batch EXCEPT ![w] = {}]
           /\ current' = [current EXCEPT ![w] = NoMessage]
    BY DEF MarkPublished, MarkFailed, SettleError, Crash
  <2>2. current'[w] = NoMessage
    BY <1>1, <2>1 DEF NextRecord, TypeOK
  <2> QED
    BY <2>1, <2>2, WorkerLeaves DEF MarkPublished, MarkFailed, SettleError, Crash
<1>3. SendingShape'
  BY <1>2 DEF CopyInv, SendingShape
<1>4. ASSUME NEW m \in Messages
      PROVE  delivered'[m] + Cardinality(Unsent(m)') <= attempts'[m] + expiries'[m] + OpenClaim(m)'
  <2>1. Unsent(m)' \subseteq Unsent(m) /\ delivered'[m] = delivered[m]
    BY <1>2 DEF Unsent
  <2>2. attempts[m] + expiries[m] + OpenClaim(m) <= attempts'[m] + expiries'[m] + OpenClaim(m)'
    <3>1. \/ attempts'[m] = attempts[m] /\ OpenClaim(m)' = OpenClaim(m)
          \/ attempts'[m] = attempts[m] /\ OpenClaim(m)' = 1
          \/ attempts'[m] = attempts[m] + 1
      <4> DEFINE k == current[w]
      <4>1. CASE UNCHANGED <<attempts, lease, published>>
        BY <4>1 DEF OpenClaim
      <4>2. CASE MarkPublished(w) /\ Owns(w, k)
        <5>1. /\ UNCHANGED attempts
              /\ published' = published \cup {k}
              /\ lease' = [lease EXCEPT ![k] = "none"]
          BY <4>2, NoValueAssumption DEF MarkPublished, Release
        <5> QED
          BY <1>1, <5>1 DEF OpenClaim, TypeOK
      <4>3. CASE MarkFailed(w) /\ Owns(w, k)
        <5>1. k \in batch[w]
          BY <4>3 DEF RowInv, WorkerShape, MarkFailed
        <5>2. seen[w][k] = attempts[k]
          BY <4>3, <5>1, OwnedRow
        <5>3. /\ UNCHANGED published
              /\ attempts' = [attempts EXCEPT ![k] = attempts[k] + 1]
              /\ lease' = [lease EXCEPT ![k] = "none"]
          BY <4>3, <5>2 DEF MarkFailed, Release
        <5> QED
          BY <1>1, <5>3 DEF OpenClaim, TypeOK
      <4> QED
        BY <4>1, <4>2, <4>3 DEF MarkPublished, MarkFailed, SettleError, Crash
    <3>2. attempts[m] \in Nat /\ expiries[m] \in Nat /\ OpenClaim(m) \in {0, 1} /\ OpenClaim(m)' \in {0, 1}
      BY <1>1, LedgerGrows DEF OpenClaim
    <3> QED
      BY <1>2, <3>1, <3>2
  <2> QED
    BY <1>1, <2>1, <2>2, AccountKept DEF CopyInv
<1> QED
  BY <1>3, <1>4 DEF CopyInv, CopiesAccounted

\* An expiry takes over the open claim's place in the account.
LEMMA OtherAccounted ==
    ASSUME RowInv, RowInv', CopyInv,
           \/ \E m \in Messages :
                \/ Enqueue(m) \/ EndTransaction(m) \/ BackoffElapses(m)
                \/ OrphanLeaseExpires(m) \/ SlowLeaseExpires(m)
           \/ UNCHANGED vars
    PROVE  CopyInv'
<1> USE DEF rowVars, workerVars, envVars, Enqueue, EndTransaction, BackoffElapses, vars
<1>1. TypeOK /\ TypeOK'
  BY DEF RowInv
<1>2. UNCHANGED <<workerVars, attempts, published, delivered>>
  BY DEF OrphanLeaseExpires, SlowLeaseExpires, Expire
<1>3. SendingShape'
  BY <1>2 DEF CopyInv, SendingShape
<1>4. ASSUME NEW m \in Messages
      PROVE  delivered'[m] + Cardinality(Unsent(m)') <= attempts'[m] + expiries'[m] + OpenClaim(m)'
  <2>1. Unsent(m)' = Unsent(m)
    BY <1>2 DEF Unsent
  <2>2. \/ expiries'[m] = expiries[m] /\ OpenClaim(m)' = OpenClaim(m)
        \/ expiries'[m] = expiries[m] + 1 /\ OpenClaim(m) \in {0, 1} /\ OpenClaim(m)' \in {0, 1}
    <3>1. CASE UNCHANGED <<lease, expiries>>
      BY <1>2, <3>1 DEF OpenClaim
    <3>2. ASSUME NEW k \in Messages, Expire(k)
          PROVE  \/ expiries'[m] = expiries[m] /\ OpenClaim(m)' = OpenClaim(m)
                 \/ expiries'[m] = expiries[m] + 1 /\ OpenClaim(m) \in {0, 1} /\ OpenClaim(m)' \in {0, 1}
      <4>1. lease' = [lease EXCEPT ![k] = "expired"] /\ expiries' = [expiries EXCEPT ![k] = expiries[k] + 1]
        BY <3>2 DEF Expire
      <4> QED
        BY <1>1, <1>2, <4>1 DEF OpenClaim, TypeOK
    <3> QED
      BY <3>1, <3>2 DEF OrphanLeaseExpires, SlowLeaseExpires
  <2>3. attempts[m] \in Nat /\ expiries[m] \in Nat /\ OpenClaim(m) \in Nat
    BY <1>1, LedgerGrows
  <2>4. attempts[m] + expiries[m] + OpenClaim(m) <= attempts'[m] + expiries'[m] + OpenClaim(m)'
    BY <1>2, <2>2, <2>3
  <2> QED
    BY <1>1, <1>2, <2>1, <2>4, AccountKept DEF CopyInv
<1> QED
  BY <1>3, <1>4 DEF CopyInv, CopiesAccounted

LEMMA CopyInvInit == Init => CopyInv
<1> SUFFICES ASSUME Init PROVE CopyInv
  OBVIOUS
<1>1. ASSUME NEW m \in Messages
      PROVE  delivered[m] + Cardinality(Unsent(m)) <= attempts[m] + expiries[m] + OpenClaim(m)
  <2>1. Unsent(m) = {}
    BY DEF Init, Unsent
  <2> QED
    BY <2>1, FS_EmptySet DEF Init, OpenClaim
<1> QED
  BY <1>1 DEF Init, CopyInv, CopiesAccounted, SendingShape

LEMMA CopyInvStep == RowInv /\ RowInv' /\ CopyInv /\ [Next]_vars => CopyInv'
<1> SUFFICES ASSUME RowInv, RowInv', CopyInv, [Next]_vars PROVE CopyInv'
  OBVIOUS
<1>1. ASSUME NEW w \in Workers, PollNothing(w) PROVE CopyInv'
  BY <1>1, OtherAccounted DEF PollNothing
<1> QED
  BY <1>1, ClaimAccounted, PublishAccounted, LeaveAccounted, OtherAccounted DEF Next

\* No interleaving of workers, crashes and lease expiries duplicates for free:
\* each copy beyond the first is a counted attempt or an expired lease.
THEOREM DuplicatesAccounted == Spec => []DuplicatesExplained
<1>1. RowInv /\ CopyInv => DuplicatesExplained
  <2> SUFFICES ASSUME RowInv, CopyInv, NEW m \in Messages
               PROVE  delivered[m] <= 1 + attempts[m] + expiries[m]
    BY DEF DuplicatesExplained
  <2>1. delivered[m] + Cardinality(Unsent(m)) <= attempts[m] + expiries[m] + OpenClaim(m)
    BY DEF CopyInv, CopiesAccounted
  <2>2. OpenClaim(m) <= 1 /\ attempts[m] \in Nat /\ expiries[m] \in Nat /\ OpenClaim(m) \in Nat
    BY LedgerGrows DEF RowInv, OpenClaim
  <2>3. delivered[m] \in Nat
    BY DEF RowInv, TypeOK
  <2> QED
    BY <2>1, <2>2, <2>3, UnsentFinite
<1> QED
  BY <1>1, RowInvariant, CopyInvInit, CopyInvStep, PTL DEF Spec
=============================================================================
