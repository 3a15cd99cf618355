----------------------------- MODULE DataProofs -----------------------------
(***************************************************************************)
(* Proofs about the components of Data, for every value of their constants. *)
(* Each section is about one component, whose variables nothing else uses:  *)
(* its behaviours begin with the component's Init and take the component's  *)
(* steps.  The last theorem puts the components together.                   *)
(***************************************************************************)
EXTENDS Data, Integers, FiniteSetTheorems, WellFoundedInduction, TLAPS
-----------------------------------------------------------------------------
(* Extrema: what Max and Min of FiniteSetsExt return, by the least number   *)
(* of elements a counterexample could have.                                *)

LEMMA Least ==
    ASSUME NEW T \in SUBSET Nat, T # {}
    PROVE  \E n \in T : \A m \in T : n <= m
<1> DEFINE R == OpToRel(<, Nat)
<1>1. IsWellFoundedOn(R, Nat)
    BY NatLessThanWellFounded
<1>2. \A x, y \in Nat : <<x, y>> \in R <=> x < y
    BY DEF OpToRel
<1> HIDE DEF R
<1>3. PICK n \in T : \A m \in T : ~ (<<m, n>> \in R)
  <2>1. T \subseteq Nat
    OBVIOUS
  <2> QED
    BY ONLY <1>1, <2>1, T # {}, WFMin, Zenon
<1>4. ASSUME NEW m \in T PROVE n <= m
  <2>1. m \in Nat /\ n \in Nat
    OBVIOUS
  <2>2. ~(m < n)
    BY <1>2, <1>3, <2>1
  <2> QED
    BY <2>1, <2>2
<1> QED
    BY <1>4

\* A finite set of things with a value has one of the highest value.
HasHighest(f, B) == \E x \in B : \A y \in B : f[y] <= f[x]

LEMMA Highest ==
    ASSUME NEW D, NEW f \in [D -> Int], NEW S \in SUBSET D, IsFiniteSet(S), S # {}
    PROVE  HasHighest(f, S)
<1> DEFINE Bad(n) == \E B \in SUBSET D : IsFiniteSet(B) /\ B # {} /\ Cardinality(B) = n /\ ~HasHighest(f, B)
<1> DEFINE T == {n \in Nat : Bad(n)}
<1>1. SUFFICES ASSUME T # {} PROVE FALSE
  <2>1. Cardinality(S) \in Nat
    BY FS_CardinalityType
  <2> QED
    BY <2>1
<1>2. PICK n \in T : \A m \in T : n <= m
    BY <1>1, Least
<1>3. PICK B \in SUBSET D : IsFiniteSet(B) /\ B # {} /\ Cardinality(B) = n /\ ~HasHighest(f, B)
    BY <1>2
<1>4. PICK b \in B : TRUE
    BY <1>3
<1>5. IsFiniteSet(B \ {b}) /\ Cardinality(B \ {b}) = n - 1 /\ n \in Nat /\ n - 1 \in Nat
  <2>1. n \in Nat
    BY <1>3, FS_CardinalityType
  <2>2. IsFiniteSet(B \ {b}) /\ Cardinality(B \ {b}) = n - 1
    BY <1>3, <1>4, FS_RemoveElement
  <2>3. Cardinality(B \ {b}) \in Nat
    BY <2>2, FS_CardinalityType
  <2> QED
    BY <2>1, <2>2, <2>3
<1>6. n - 1 \notin T
    BY <1>2, <1>5
<1>7. ~Bad(n - 1)
    BY <1>5, <1>6
<1>8. CASE B \ {b} = {}
    BY <1>3, <1>4, <1>8 DEF HasHighest
<1>9. CASE B \ {b} # {}
  <2>1. HasHighest(f, B \ {b})
    BY <1>5, <1>7, <1>9
  <2>2. PICK x \in B \ {b} : \A y \in B \ {b} : f[y] <= f[x]
    BY <2>1 DEF HasHighest
  <2>3. f[x] \in Int /\ f[b] \in Int /\ \A y \in B : f[y] \in Int
    OBVIOUS
  <2>4. CASE f[x] <= f[b]
    BY <1>3, <1>4, <2>2, <2>3, <2>4 DEF HasHighest
  <2>5. CASE f[b] <= f[x]
    BY <1>3, <1>4, <2>2, <2>3, <2>5 DEF HasHighest
  <2> QED
    BY <2>3, <2>4, <2>5
<1> QED
    BY <1>8, <1>9

LEMMA MaxIs ==
    ASSUME NEW S \in SUBSET Int, NEW x \in S, \A y \in S : y <= x
    PROVE  Max(S) = x
<1>1. \E z \in S : \A y \in S : z >= y
    OBVIOUS
<1>2. Max(S) \in S /\ \A y \in S : Max(S) >= y
    BY <1>1 DEF Max
<1>3. Max(S) \in Int /\ x \in Int /\ Max(S) <= x /\ Max(S) >= x
    BY <1>2
<1> QED
    BY <1>3

LEMMA MaxHigh ==
    ASSUME NEW S \in SUBSET Int, IsFiniteSet(S), S # {}
    PROVE  Max(S) \in S /\ \A y \in S : y <= Max(S)
<1> DEFINE f == [x \in S |-> x]
<1>1. f \in [S -> Int]
    OBVIOUS
<1>2. HasHighest(f, S)
    BY <1>1, Highest
<1>3. PICK x \in S : \A y \in S : y <= x
    BY <1>2 DEF HasHighest
<1> QED
    BY <1>3, MaxIs

LEMMA DisjointUnion ==
    ASSUME NEW A, NEW B, IsFiniteSet(A), IsFiniteSet(B), A \cap B = {}
    PROVE  Cardinality(A \cup B) = Cardinality(A) + Cardinality(B)
<1>1. Cardinality(A) \in Nat /\ Cardinality(B) \in Nat /\ Cardinality(A \cap B) = 0
    BY FS_CardinalityType, FS_EmptySet
<1>2. Cardinality(A \cup B) = Cardinality(A) + Cardinality(B) - Cardinality(A \cap B)
    BY FS_Union
<1> QED
    BY <1>1, <1>2

LEMMA MaxOfTwo ==
    ASSUME NEW a \in Int, NEW b \in Int
    PROVE  Max({a, b}) \in {a, b} /\ Max({a, b}) >= a /\ Max({a, b}) >= b
<1>1. \E z \in {a, b} : \A y \in {a, b} : z >= y
    OBVIOUS
<1> QED
    BY <1>1 DEF Max

LEMMA MinOfTwo ==
    ASSUME NEW a \in Int, NEW b \in Int
    PROVE  Min({a, b}) = IF a <= b THEN a ELSE b
<1>1. \E z \in {a, b} : \A y \in {a, b} : z <= y
    OBVIOUS
<1>2. Min({a, b}) \in {a, b} /\ \A y \in {a, b} : Min({a, b}) <= y
    BY <1>1 DEF Min
<1> QED
    BY <1>2

-----------------------------------------------------------------------------
(* Records: what an entity says of its row.                                *)

RecordsSpec == RecordsInit /\ [][RecordsNext]_recordVars

RecordsTypes ==
    /\ policy \in KeyPolicies
    /\ rows \in [PrimaryKeys -> Nat]
    /\ replica \in [PrimaryKeys -> Nat]
    /\ lastKey \in 0 .. MaxKey
    /\ key \in [Callers -> 0 .. MaxKey]
    /\ told \in [Callers -> Nat]
    /\ writes \in Nat
    /\ deleted \subseteq PrimaryKeys

\* No row has a key that was not given out, none that was deleted is back, and
\* where Save inserts, a key that was given out has a row until it is deleted.
RowOf(k) ==
    /\ rows[k] <= writes
    /\ lastKey < k => rows[k] = 0 /\ replica[k] = 0 /\ k \notin deleted
    /\ k \in deleted => rows[k] = 0
    /\ policy # "auto_id" /\ k <= lastKey /\ rows[k] = 0 => k \in deleted
    /\ policy = "auto_id" => rows[k] = 0 /\ replica[k] = 0

\* A write that was reported is in the row, unless it is lost with it.
EntityOf(c) ==
    /\ key[c] <= lastKey
    /\ policy = "reported" /\ told[c] # 0 => key[c] # 0 /\ (rows[key[c]] >= told[c] \/ key[c] \in deleted)

RecordsInv == RecordsTypes /\ (\A k \in PrimaryKeys : RowOf(k)) /\ (\A c \in Callers : EntityOf(c))

LEMMA RecordsInitially == ASSUME RecordsInit PROVE RecordsInv
BY RecordsAssumption DEF RecordsInit, RecordsInv, RecordsTypes, RowOf, EntityOf, PrimaryKeys

\* A statement of one caller on one row leaves the others' entities true.
LEMMA StatementKeeps ==
    ASSUME RecordsInv, RecordsTypes', NEW c \in Callers, UNCHANGED policy,
           \A k \in PrimaryKeys : RowOf(k)', EntityOf(c)', lastKey' >= lastKey, deleted \subseteq deleted',
           \A d \in Callers \ {c} : key'[d] = key[d] /\ told'[d] = told[d],
           \A k \in PrimaryKeys : rows'[k] >= rows[k] \/ k \in deleted'
    PROVE  RecordsInv'
<1>1. ASSUME NEW d \in Callers \ {c} PROVE EntityOf(d)'
  <2>1. EntityOf(d) /\ key[d] \in 0 .. MaxKey /\ told[d] \in Nat BY DEF RecordsInv, RecordsTypes
  <2>2. key'[d] <= lastKey' BY <2>1, RecordsAssumption DEF RecordsInv, RecordsTypes, EntityOf
  <2>3. ASSUME policy = "reported", told[d] # 0 PROVE key[d] # 0 /\ (rows'[key[d]] >= told[d] \/ key[d] \in deleted')
    <3>1. key[d] \in PrimaryKeys /\ (rows[key[d]] >= told[d] \/ key[d] \in deleted)
      BY <2>1, <2>3, RecordsAssumption DEF EntityOf, PrimaryKeys
    <3>2. rows[key[d]] \in Nat /\ rows'[key[d]] \in Nat BY <3>1 DEF RecordsInv, RecordsTypes
    <3> QED BY <2>1, <3>1, <3>2 DEF PrimaryKeys
  <2> QED BY <2>2, <2>3 DEF EntityOf
<1> QED BY <1>1 DEF RecordsInv

LEMMA SaveNewKeeps ==
    ASSUME RecordsInv, NEW c \in Callers, SaveNew(c)
    PROVE  RecordsInv'
<1> DEFINE new == lastKey + 1
<1>1. RecordsTypes BY DEF RecordsInv
<1>2. /\ policy # "auto_id" /\ lastKey < MaxKey /\ lastKey' = new /\ writes' = writes + 1
      /\ told' = [told EXCEPT ![c] = writes + 1]
      /\ rows' = [rows EXCEPT ![new] = writes + 1]
      /\ key' = [key EXCEPT ![c] = KeyOfInserted(c)]
      /\ UNCHANGED <<policy, replica, deleted>>
  BY DEF SaveNew, Statement
<1>3. new \in PrimaryKeys /\ KeyOfInserted(c) \in {0, new} /\ (policy = "reported" => KeyOfInserted(c) = new)
      /\ lastKey' \in 0 .. MaxKey /\ writes + 1 \in Nat \ {0} /\ lastKey' >= lastKey
  BY <1>1, <1>2, RecordsAssumption DEF RecordsTypes, PrimaryKeys, KeyOfInserted
<1>4. RecordsTypes'
  <2>0. KeyOfInserted(c) \in 0 .. MaxKey BY <1>3, RecordsAssumption DEF PrimaryKeys
  <2>1. key' \in [Callers -> 0 .. MaxKey] BY <1>1, <1>2, <2>0 DEF RecordsTypes
  <2>2. rows' \in [PrimaryKeys -> Nat] /\ told' \in [Callers -> Nat] /\ writes' \in Nat BY <1>1, <1>2, <1>3 DEF RecordsTypes
  <2> QED BY <1>1, <1>2, <1>3, <2>1, <2>2 DEF RecordsTypes
<1>5. rows'[new] = writes + 1 /\ \A k \in PrimaryKeys \ {new} : rows'[k] = rows[k] BY <1>1, <1>2, <1>3 DEF RecordsTypes
<1>6. rows[new] = 0 /\ new \notin deleted
  <2>1. RowOf(new) /\ lastKey < new BY <1>1, <1>3, RecordsAssumption DEF RecordsInv, RecordsTypes
  <2> QED BY <2>1 DEF RowOf
<1>7. ASSUME NEW k \in PrimaryKeys PROVE RowOf(k)'
  <2>1. RowOf(k) /\ k \in Nat /\ rows[k] \in Nat /\ writes \in Nat /\ lastKey \in Nat
    BY <1>1, RecordsAssumption DEF RecordsInv, RecordsTypes, PrimaryKeys
  <2>2. CASE k = new BY <1>2, <1>3, <1>5, <1>6, <2>1, <2>2 DEF RowOf
  <2>3. CASE k # new BY <1>2, <1>5, <2>1, <2>3 DEF RowOf
  <2> QED BY <2>2, <2>3
<1>8. key'[c] = KeyOfInserted(c) /\ told'[c] = writes + 1 BY <1>1, <1>2 DEF RecordsTypes
<1>9. EntityOf(c)'
  <2>1. writes + 1 \in Nat /\ lastKey \in Nat BY <1>1, <1>3, RecordsAssumption DEF RecordsTypes
  <2>2. key'[c] <= lastKey' BY <1>2, <1>3, <1>8, <2>1
  <2> QED BY <1>2, <1>3, <1>5, <1>8, <2>1, <2>2 DEF EntityOf
<1>10. \A k \in PrimaryKeys : rows'[k] >= rows[k]
  <2>1. \A k \in PrimaryKeys : rows[k] \in Nat BY <1>1 DEF RecordsTypes
  <2> QED BY <1>3, <1>5, <1>6, <2>1
<1>11. \A d \in Callers \ {c} : key'[d] = key[d] /\ told'[d] = told[d] BY <1>1, <1>2 DEF RecordsTypes
<1> HIDE DEF new
<1> QED BY <1>2, <1>3, <1>4, <1>7, <1>9, <1>10, <1>11, StatementKeeps

LEMMA SaveGeneratedKeeps ==
    ASSUME RecordsInv, NEW c \in Callers, SaveGenerated(c)
    PROVE  RecordsInv'
<1>1. RecordsTypes BY DEF RecordsInv
<1>2. /\ policy = "auto_id" /\ lastKey < MaxKey /\ lastKey' = lastKey + 1 /\ writes' = writes + 1
      /\ told' = [told EXCEPT ![c] = writes + 1]
      /\ key' = [key EXCEPT ![c] = lastKey + 1]
      /\ UNCHANGED <<policy, rows, replica, deleted>>
  BY DEF SaveGenerated, Statement
<1>3. lastKey + 1 \in 0 .. MaxKey /\ lastKey \in Nat /\ writes \in Nat BY <1>1, <1>2, RecordsAssumption DEF RecordsTypes
<1>4. RecordsTypes'
  <2>1. key' \in [Callers -> 0 .. MaxKey] BY <1>1, <1>2, <1>3 DEF RecordsTypes
  <2> QED BY <1>1, <1>2, <1>3, <2>1 DEF RecordsTypes
<1>5. ASSUME NEW k \in PrimaryKeys PROVE RowOf(k)'
  <2>1. RowOf(k) /\ k \in Nat /\ rows[k] \in Nat BY <1>1, RecordsAssumption DEF RecordsInv, RecordsTypes, PrimaryKeys
  <2> QED BY <1>2, <1>3, <2>1 DEF RowOf
<1>6. key'[c] = lastKey + 1 BY <1>1, <1>2 DEF RecordsTypes
<1>7. EntityOf(c)' BY <1>2, <1>3, <1>6 DEF EntityOf
<1>8. \A d \in Callers \ {c} : key'[d] = key[d] /\ told'[d] = told[d] BY <1>1, <1>2 DEF RecordsTypes
<1>9. \A k \in PrimaryKeys : rows'[k] >= rows[k] BY <1>1, <1>2 DEF RecordsTypes
<1> QED BY <1>2, <1>3, <1>4, <1>5, <1>7, <1>8, <1>9, StatementKeeps

LEMMA SaveExistingKeeps ==
    ASSUME RecordsInv, NEW c \in Callers, SaveExisting(c)
    PROVE  RecordsInv'
<1> DEFINE own == key[c]
<1>1. RecordsTypes BY DEF RecordsInv
<1>2. /\ own # 0 /\ writes' = writes + 1 /\ told' = [told EXCEPT ![c] = writes + 1]
      /\ rows' = [rows EXCEPT ![own] = IF rows[own] = 0 THEN 0 ELSE writes + 1]
      /\ UNCHANGED <<policy, replica, lastKey, key, deleted>>
  BY DEF SaveExisting, Statement
<1>3. own \in PrimaryKeys /\ own <= lastKey /\ writes \in Nat /\ lastKey \in Nat
  BY <1>1, <1>2, RecordsAssumption DEF RecordsTypes, PrimaryKeys, RecordsInv, EntityOf
<1>4. RecordsTypes' BY <1>1, <1>2, <1>3 DEF RecordsTypes
<1>5. rows'[own] = (IF rows[own] = 0 THEN 0 ELSE writes + 1) /\ \A k \in PrimaryKeys \ {own} : rows'[k] = rows[k]
  BY <1>1, <1>2, <1>3 DEF RecordsTypes
<1>6. ASSUME NEW k \in PrimaryKeys PROVE RowOf(k)' /\ rows'[k] >= rows[k]
  <2>1. RowOf(k) /\ k \in Nat /\ rows[k] \in Nat BY <1>1, RecordsAssumption DEF RecordsInv, RecordsTypes, PrimaryKeys
  <2>2. CASE k = own BY <1>2, <1>3, <1>5, <2>1, <2>2 DEF RowOf
  <2>3. CASE k # own BY <1>2, <1>3, <1>5, <2>1, <2>3 DEF RowOf
  <2> QED BY <2>2, <2>3
<1>7. key'[c] = own /\ told'[c] = writes + 1 BY <1>1, <1>2 DEF RecordsTypes
<1>8. EntityOf(c)'
  <2>1. RowOf(own) /\ rows[own] \in Nat BY <1>1, <1>3 DEF RecordsInv, RecordsTypes
  <2>2. policy = "reported" /\ rows[own] = 0 => own \in deleted BY <1>3, <2>1 DEF RowOf
  <2> HIDE DEF own
  <2> QED BY <1>2, <1>3, <1>5, <1>7, <2>1, <2>2 DEF EntityOf
<1>9. \A d \in Callers \ {c} : key'[d] = key[d] /\ told'[d] = told[d] BY <1>1, <1>2 DEF RecordsTypes
<1> HIDE DEF own
<1> QED BY <1>2, <1>3, <1>4, <1>6, <1>8, <1>9, StatementKeeps

LEMMA FindByIDKeeps ==
    ASSUME RecordsInv, NEW c \in Callers, NEW k \in PrimaryKeys, FindByID(c, k)
    PROVE  RecordsInv'
<1>1. RecordsTypes BY DEF RecordsInv
<1>2. /\ replica[k] # 0 /\ key' = [key EXCEPT ![c] = k] /\ told' = [told EXCEPT ![c] = 0]
      /\ UNCHANGED <<policy, rows, replica, lastKey, writes, deleted>>
  BY DEF FindByID
<1>3. k <= lastKey /\ k \in 0 .. MaxKey BY <1>1, <1>2, RecordsAssumption DEF RecordsInv, RowOf, RecordsTypes, PrimaryKeys
<1>4. RecordsTypes' BY <1>1, <1>2, <1>3 DEF RecordsTypes
<1>5. \A j \in PrimaryKeys : RowOf(j)' BY <1>2 DEF RecordsInv, RowOf
<1>6. EntityOf(c)' BY <1>1, <1>2, <1>3 DEF EntityOf, RecordsTypes
<1>7. \A d \in Callers \ {c} : key'[d] = key[d] /\ told'[d] = told[d] BY <1>1, <1>2 DEF RecordsTypes
<1>8. \A j \in PrimaryKeys : rows'[j] >= rows[j] BY <1>1, <1>2 DEF RecordsTypes
<1>9. lastKey' >= lastKey BY <1>1, <1>2 DEF RecordsTypes
<1> QED BY <1>2, <1>4, <1>5, <1>6, <1>7, <1>8, <1>9, StatementKeeps

LEMMA DeleteKeeps ==
    ASSUME RecordsInv, NEW c \in Callers, Delete(c)
    PROVE  RecordsInv'
<1> DEFINE own == key[c]
<1>1. RecordsTypes BY DEF RecordsInv
<1>2. /\ own # 0 /\ writes' = writes + 1 /\ rows' = [rows EXCEPT ![own] = 0]
      /\ deleted' = deleted \cup {own} /\ told' = [told EXCEPT ![c] = 0]
      /\ UNCHANGED <<policy, replica, lastKey, key>>
  BY DEF Delete
<1>3. own \in PrimaryKeys /\ own <= lastKey /\ writes \in Nat /\ lastKey \in Nat
  BY <1>1, <1>2, RecordsAssumption DEF RecordsTypes, PrimaryKeys, RecordsInv, EntityOf
<1>4. RecordsTypes' BY <1>1, <1>2, <1>3 DEF RecordsTypes
<1>5. rows'[own] = 0 /\ \A k \in PrimaryKeys \ {own} : rows'[k] = rows[k] BY <1>1, <1>2, <1>3 DEF RecordsTypes
<1>6. ASSUME NEW k \in PrimaryKeys PROVE RowOf(k)' /\ (rows'[k] >= rows[k] \/ k \in deleted')
  <2>1. RowOf(k) /\ k \in Nat /\ rows[k] \in Nat BY <1>1, RecordsAssumption DEF RecordsInv, RecordsTypes, PrimaryKeys
  <2>2. CASE k = own BY <1>2, <1>3, <1>5, <2>1, <2>2 DEF RowOf
  <2>3. CASE k # own BY <1>2, <1>3, <1>5, <2>1, <2>3 DEF RowOf
  <2> QED BY <2>2, <2>3
<1>7. EntityOf(c)' BY <1>1, <1>2, <1>3 DEF EntityOf, RecordsTypes
<1>8. \A d \in Callers \ {c} : key'[d] = key[d] /\ told'[d] = told[d] BY <1>1, <1>2 DEF RecordsTypes
<1> HIDE DEF own
<1> QED BY <1>2, <1>3, <1>4, <1>6, <1>7, <1>8, StatementKeeps

LEMMA ReplicateKeeps == ASSUME RecordsInv, Replicate PROVE RecordsInv'
BY DEF RecordsInv, RecordsTypes, RowOf, EntityOf, Replicate

LEMMA RecordsStep == ASSUME RecordsInv, [RecordsNext]_recordVars PROVE RecordsInv'
<1>1. CASE UNCHANGED recordVars BY <1>1 DEF RecordsInv, RecordsTypes, RowOf, EntityOf, recordVars
<1>2. CASE RecordsNext
  BY <1>2, SaveNewKeeps, SaveGeneratedKeeps, SaveExistingKeeps, FindByIDKeeps, DeleteKeeps, ReplicateKeeps DEF RecordsNext
<1> QED BY <1>1, <1>2

\* For any number of callers, keys and writes: where the database reports keys,
\* what Save said it stored is the row of the entity, or was overwritten or
\* deleted; a row that was deleted never comes back; and a generated key is of a
\* row that was never inserted (dbcore/orm.go:269-352).
THEOREM SavesTrue == RecordsSpec => []SaveTruth
<1>1. RecordsInit => RecordsInv BY RecordsInitially
<1>2. RecordsInv /\ [RecordsNext]_recordVars => RecordsInv' BY RecordsStep
<1>3. RecordsInv => SaveTruth
  <2> SUFFICES ASSUME RecordsInv PROVE SaveTruth OBVIOUS
  <2>1. \A k \in PrimaryKeys : policy = "auto_id" => rows[k] = 0 BY DEF RecordsInv, RowOf
  <2>2. \A k \in deleted : rows[k] = 0 BY DEF RecordsInv, RecordsTypes, RowOf
  <2>3. \A c \in Callers : policy = "unreported" => key[c] = 0 \/ rows[key[c]] # 0 \/ key[c] \in deleted
    <3> SUFFICES ASSUME NEW c \in Callers, policy = "unreported", key[c] # 0 PROVE rows[key[c]] # 0 \/ key[c] \in deleted
      OBVIOUS
    <3>1. key[c] \in PrimaryKeys /\ key[c] <= lastKey BY RecordsAssumption DEF RecordsInv, RecordsTypes, EntityOf, PrimaryKeys
    <3> QED BY <3>1 DEF RecordsInv, RowOf
  <2> QED BY <2>1, <2>2, <2>3 DEF SaveTruth, RecordsInv, EntityOf
<1> QED BY <1>1, <1>2, <1>3, PTL DEF RecordsSpec

-----------------------------------------------------------------------------
(* Migrations: what the history and the schema say of each other.          *)

MigrationsSpec == MigrationsInit /\ [][MigrationsNext]_migrationVars

OfRelease(s) == Elements(ReleaseOf[s])

AllMigrations == UNION {OfRelease(s) : s \in Starters}

MigrationStates == {"new", "invalid", "applies", "migrated", "checksum changed", "version taken"}

MigrationsTypes ==
    /\ history \subseteq AllMigrations
    /\ schema \in Seq(AllMigrations)
    /\ lock \in Starters \cup {Unlocked}
    /\ seen \in [Starters -> SUBSET AllMigrations]
    /\ DOMAIN ran = Starters /\ ran = [s \in Starters |-> ran[s]]
    /\ \A s \in Starters : ran[s] \in Seq(OfRelease(s))
    /\ migration \in [Starters -> MigrationStates]

\* What the transaction of a starter has run so far: what the history lacks,
\* once each, in order of version, and none after what is left.
InOrder(s) ==
    /\ \A i \in DOMAIN ran[s] : \A known \in seen[s] : known.id # ran[s][i].id
    /\ \A i, j \in DOMAIN ran[s] : i < j => ran[s][i].id # ran[s][j].id /\ ran[s][i].version <= ran[s][j].version
    /\ \A i \in DOMAIN ran[s] : \A m \in Unapplied(s) : ran[s][i].version <= m.version

Transaction(s) ==
    /\ migration[s] = "new" => ran[s] = <<>>
    /\ migration[s] = "applies" => lock = s /\ seen[s] = history /\ ValidRelease(ReleaseOf[s]) /\ InOrder(s)

\* A migration was recorded by a starter that recorded all of its release.
Provenance ==
    \A x \in history : \E s \in Starters :
        x \in OfRelease(s) /\ \A m \in OfRelease(s) : \E known \in history : known.id = m.id

OnceEach == \A i, j \in DOMAIN schema : i # j => schema[i].id # schema[j].id

LateOnes ==
    \A i, j \in DOMAIN schema :
        i < j /\ schema[i].version > schema[j].version =>
            \E s \in Starters : schema[i] \in OfRelease(s) /\ schema[j] \notin OfRelease(s)

Result(s) ==
    /\ migration[s] = "migrated" =>
          \A m \in OfRelease(s) : \E known \in history : known.id = m.id /\ known.sql = m.sql
    /\ migration[s] \in {"checksum changed", "version taken"} =>
          \E m \in OfRelease(s), known \in history : m # known /\ (m.id = known.id \/ m.version = known.version)

MigrationsInv ==
    /\ MigrationsTypes
    /\ \A s \in Starters : Transaction(s) /\ Result(s)
    /\ Elements(schema) = history /\ OnceEach /\ LateOnes /\ Provenance

LEMMA EmptySequence == \A S : <<>> \in Seq(S)
OBVIOUS

LEMMA ElementsOfAppend ==
    ASSUME NEW S, NEW q \in Seq(S), NEW m \in S
    PROVE  Elements(Append(q, m)) = Elements(q) \cup {m}
<1>1. Append(q, m) \in Seq(S) /\ Len(Append(q, m)) = Len(q) + 1 /\ Len(q) \in Nat OBVIOUS
<1>2. \A i \in 1 .. Len(q) : Append(q, m)[i] = q[i] OBVIOUS
<1>3. Append(q, m)[Len(q) + 1] = m OBVIOUS
<1>4. DOMAIN Append(q, m) = 1 .. Len(q) + 1 /\ DOMAIN q = 1 .. Len(q) BY <1>1
<1>5. /\ \A i \in 1 .. Len(q) + 1 : i \in 1 .. Len(q) \/ i = Len(q) + 1
      /\ \A i \in 1 .. Len(q) : i \in 1 .. Len(q) + 1
      /\ Len(q) + 1 \in 1 .. Len(q) + 1
  BY <1>1
<1> QED BY <1>2, <1>3, <1>4, <1>5 DEF Elements

LEMMA ElementsOfConcat ==
    ASSUME NEW S, NEW q \in Seq(S), NEW r \in Seq(S)
    PROVE  /\ Elements(q \o r) = Elements(q) \cup Elements(r)
           /\ DOMAIN (q \o r) = 1 .. Len(q) + Len(r)
           /\ \A i \in DOMAIN q : i \in DOMAIN (q \o r) /\ (q \o r)[i] = q[i]
           /\ \A i \in DOMAIN (q \o r) : i \in DOMAIN q \/ (i - Len(q) \in DOMAIN r /\ (q \o r)[i] = r[i - Len(q)])
<1>1. Len(q) \in Nat /\ Len(r) \in Nat /\ DOMAIN q = 1 .. Len(q) /\ DOMAIN r = 1 .. Len(r)
      /\ DOMAIN (q \o r) = 1 .. Len(q) + Len(r)
  OBVIOUS
<1>2. \A i \in 1 .. Len(q) : (q \o r)[i] = q[i] OBVIOUS
<1>3. \A i \in 1 .. Len(q) + Len(r) : i \notin 1 .. Len(q) => (q \o r)[i] = r[i - Len(q)] /\ i - Len(q) \in 1 .. Len(r) OBVIOUS
<1>4. \A j \in 1 .. Len(r) : (q \o r)[Len(q) + j] = r[j] OBVIOUS
<1>5. \A i \in 1 .. Len(q) : i \in 1 .. Len(q) + Len(r) BY <1>1
<1>6. \A j \in 1 .. Len(r) : Len(q) + j \in 1 .. Len(q) + Len(r) BY <1>1
<1>7. Elements(q \o r) \subseteq Elements(q) \cup Elements(r) BY <1>1, <1>2, <1>3 DEF Elements
<1>8. Elements(q) \subseteq Elements(q \o r) BY <1>1, <1>2, <1>5 DEF Elements
<1>9. Elements(r) \subseteq Elements(q \o r) BY <1>1, <1>4, <1>6 DEF Elements
<1> QED BY <1>1, <1>2, <1>3, <1>5, <1>7, <1>8, <1>9

\* In a release an identifier or a version names one migration.
LEMMA ReleaseNames ==
    ASSUME NEW files, ValidRelease(files), NEW m \in Elements(files), NEW n \in Elements(files),
           m.id = n.id \/ m.version = n.version
    PROVE  m = n
<1>1. PICK i \in DOMAIN files : m = files[i] BY DEF Elements
<1>2. PICK j \in DOMAIN files : n = files[j] BY DEF Elements
<1> QED BY <1>1, <1>2 DEF ValidRelease

LEMMA MigrationsInitially == ASSUME MigrationsInit PROVE MigrationsInv
<1> USE DEF MigrationsInit
<1>1. <<>> \in Seq(AllMigrations) /\ DOMAIN <<>> = {} OBVIOUS
<1>2. \A s \in Starters : ran[s] = <<>> /\ ran[s] \in Seq(OfRelease(s)) OBVIOUS
<1>3. MigrationsTypes BY <1>1, <1>2 DEF MigrationsTypes, MigrationStates
<1>4. Elements(schema) = history BY <1>1 DEF Elements
<1> QED BY <1>1, <1>2, <1>3, <1>4 DEF MigrationsInv, Transaction, Result, OnceEach, LateOnes, Provenance

\* A starter that neither commits nor runs a statement changes itself alone.
LEMMA StarterKeeps ==
    ASSUME MigrationsInv, MigrationsTypes', NEW s \in Starters, UNCHANGED <<history, schema>>,
           \A t \in Starters \ {s} : migration'[t] = migration[t] /\ ran'[t] = ran[t] /\ seen'[t] = seen[t],
           \A t \in Starters \ {s} : migration[t] = "applies" => lock' = t,
           Transaction(s)', Result(s)'
    PROVE  MigrationsInv'
<1>1. ASSUME NEW t \in Starters \ {s} PROVE Transaction(t)' /\ Result(t)'
  <2>1. migration'[t] = migration[t] /\ ran'[t] = ran[t] /\ seen'[t] = seen[t] /\ history' = history OBVIOUS
  <2>2. InOrder(t)' <=> InOrder(t) BY <2>1 DEF InOrder, Unapplied, Known
  <2>3. Transaction(t) /\ Result(t) BY DEF MigrationsInv
  <2>4. Result(t)' BY <2>1, <2>3 DEF Result
  <2>5. Transaction(t)' BY <2>1, <2>2, <2>3 DEF Transaction
  <2> QED BY <2>4, <2>5
<1>2. Elements(schema)' = history' /\ OnceEach' /\ LateOnes' /\ Provenance'
  BY DEF MigrationsInv, OnceEach, LateOnes, Provenance, Elements
<1> QED BY <1>1, <1>2 DEF MigrationsInv

LEMMA BeginTxKeeps ==
    ASSUME MigrationsInv, NEW s \in Starters, BeginTx(s)
    PROVE  MigrationsInv'
<1>1. MigrationsTypes /\ Transaction(s) BY DEF MigrationsInv
<1>2. /\ migration[s] = "new" /\ ValidRelease(ReleaseOf[s]) /\ lock = Unlocked /\ lock' = s
      /\ seen' = [seen EXCEPT ![s] = history]
      /\ migration' = [migration EXCEPT ![s] = "applies"]
      /\ UNCHANGED <<history, schema, ran, errors>>
  BY DEF BeginTx
<1>3. MigrationsTypes' BY <1>1, <1>2 DEF MigrationsTypes, MigrationStates
<1>4. migration'[s] = "applies" /\ seen'[s] = history /\ ran'[s] = <<>> BY <1>1, <1>2 DEF MigrationsTypes, Transaction
<1>5. DOMAIN ran'[s] = {} BY <1>4
<1>6. Transaction(s)' BY <1>2, <1>4, <1>5 DEF Transaction, InOrder
<1>7. Result(s)' BY <1>4 DEF Result
<1>8. \A t \in Starters : migration[t] # "applies" BY <1>2, MigrationsAssumption DEF MigrationsInv, Transaction
<1>9. \A t \in Starters \ {s} : migration'[t] = migration[t] /\ ran'[t] = ran[t] /\ seen'[t] = seen[t]
  BY <1>1, <1>2 DEF MigrationsTypes
<1> QED BY <1>2, <1>3, <1>6, <1>7, <1>8, <1>9, StarterKeeps

LEMMA RejectKeeps ==
    ASSUME MigrationsInv, NEW s \in Starters, Reject(s)
    PROVE  MigrationsInv'
<1>1. MigrationsTypes BY DEF MigrationsInv
<1>2. migration[s] = "new" /\ migration' = [migration EXCEPT ![s] = "invalid"] /\ UNCHANGED <<history, schema, lock, seen, ran, errors>>
  BY DEF Reject
<1>3. MigrationsTypes' BY <1>1, <1>2 DEF MigrationsTypes, MigrationStates
<1>4. migration'[s] = "invalid" BY <1>1, <1>2 DEF MigrationsTypes
<1>5. Transaction(s)' /\ Result(s)' BY <1>4 DEF Transaction, Result
<1>6. \A t \in Starters \ {s} : migration'[t] = migration[t] /\ ran'[t] = ran[t] /\ seen'[t] = seen[t]
  BY <1>1, <1>2 DEF MigrationsTypes
<1>7. \A t \in Starters \ {s} : migration[t] = "applies" => lock' = t BY <1>2 DEF MigrationsInv, Transaction
<1> QED BY <1>2, <1>3, <1>5, <1>6, <1>7, StarterKeeps

LEMMA RollbackKeeps ==
    ASSUME MigrationsInv, NEW s \in Starters, migration[s] = "applies",
           NEW why \in {"new", "checksum changed", "version taken"}, Rollback(s, why),
           why # "new" => \E m \in OfRelease(s), known \in history : m # known /\ (m.id = known.id \/ m.version = known.version)
    PROVE  MigrationsInv'
<1>1. MigrationsTypes BY DEF MigrationsInv
<1>2. /\ migration' = [migration EXCEPT ![s] = why] /\ ran' = [ran EXCEPT ![s] = <<>>] /\ lock' = Unlocked
      /\ UNCHANGED <<history, schema, seen>>
  BY DEF Rollback
<1>3. DOMAIN ran' = Starters /\ ran'[s] = <<>> /\ \A t \in Starters \ {s} : ran'[t] = ran[t] BY <1>1, <1>2 DEF MigrationsTypes
<1>4. \A t \in Starters : ran'[t] \in Seq(OfRelease(t))
  <2>1. <<>> \in Seq(OfRelease(s)) BY EmptySequence
  <2> QED BY <1>1, <1>3, <2>1 DEF MigrationsTypes
<1>5. ran' = [t \in Starters |-> ran'[t]] BY <1>1, <1>2, <1>3 DEF MigrationsTypes
<1>6. MigrationsTypes' BY <1>1, <1>2, <1>3, <1>4, <1>5 DEF MigrationsTypes, MigrationStates
<1>7. migration'[s] = why BY <1>1, <1>2 DEF MigrationsTypes
<1>8. Transaction(s)' BY <1>3, <1>7 DEF Transaction
<1>9. Result(s)' BY <1>2, <1>7 DEF Result
<1>10. \A t \in Starters \ {s} : migration[t] # "applies" BY DEF MigrationsInv, Transaction
<1>11. \A t \in Starters \ {s} : migration'[t] = migration[t] /\ ran'[t] = ran[t] /\ seen'[t] = seen[t]
  BY <1>1, <1>2, <1>3 DEF MigrationsTypes
<1> QED BY <1>2, <1>6, <1>8, <1>9, <1>10, <1>11, StarterKeeps

\* A start fails only where its release contradicts the history.
LEMMA ConflictKeeps ==
    ASSUME MigrationsInv, NEW s \in Starters, Conflict(s)
    PROVE  MigrationsInv'
<1>1. migration[s] = "applies" /\ seen[s] = history /\ ValidRelease(ReleaseOf[s]) /\ ran[s] \in Seq(OfRelease(s))
  BY DEF Conflict, MigrationsInv, Transaction, MigrationsTypes
<1>2. CASE Changed(s) /\ Rollback(s, "checksum changed")
  <2>1. \E m \in OfRelease(s), known \in history : m.id = known.id /\ m.sql # known.sql
    BY <1>1, <1>2 DEF Changed, OfRelease
  <2> QED BY <1>1, <1>2, <2>1, RollbackKeeps
<1>3. CASE (\E m \in Unapplied(s) : NextUnapplied(s, m) /\ Refused(s, m)) /\ Rollback(s, "version taken")
  <2>1. PICK m \in Unapplied(s) : Refused(s, m) BY <1>3
  <2>2. PICK known \in Known(s) : known.version = m.version BY <2>1 DEF Refused
  <2>3. m \in OfRelease(s) /\ known.id # m.id BY <2>1, <2>2 DEF Unapplied, OfRelease
  <2>4. known \notin Elements(ran[s])
    <3>1. ASSUME known \in Elements(ran[s]) PROVE FALSE
      <4>1. known \in OfRelease(s) BY <1>1, <3>1 DEF Elements
      <4> QED BY <1>1, <2>2, <2>3, <4>1, ReleaseNames DEF OfRelease
    <3> QED BY <3>1
  <2>5. known \in history BY <1>1, <2>2, <2>4 DEF Known
  <2>6. m # known /\ m.version = known.version BY <2>2, <2>3
  <2> QED BY <1>1, <1>3, <2>3, <2>5, <2>6, RollbackKeeps
<1> QED BY <1>2, <1>3 DEF Conflict

LEMMA ApplyKeeps ==
    ASSUME MigrationsInv, NEW s \in Starters, NEW m \in Unapplied(s), Apply(s, m)
    PROVE  MigrationsInv'
<1>1. MigrationsTypes BY DEF MigrationsInv
<1>2. /\ migration[s] = "applies" /\ NextUnapplied(s, m)
      /\ ran' = [ran EXCEPT ![s] = Append(ran[s], m)]
      /\ UNCHANGED <<history, schema, lock, seen, migration, errors>>
  BY DEF Apply
<1>3. lock = s /\ seen[s] = history /\ ValidRelease(ReleaseOf[s]) /\ InOrder(s) BY <1>2 DEF MigrationsInv, Transaction
<1> DEFINE old == ran[s]
           longer == Append(old, m)
<1>4. m \in OfRelease(s) /\ old \in Seq(OfRelease(s)) /\ longer \in Seq(OfRelease(s)) BY <1>1 DEF Unapplied, OfRelease, MigrationsTypes
<1>5. ran'[s] = longer /\ DOMAIN ran' = Starters /\ \A t \in Starters \ {s} : ran'[t] = ran[t] BY <1>1, <1>2 DEF MigrationsTypes
<1>6. \A t \in Starters : ran'[t] \in Seq(OfRelease(t)) BY <1>1, <1>4, <1>5 DEF MigrationsTypes
<1>7. ran' = [t \in Starters |-> ran'[t]] BY <1>1, <1>2, <1>5 DEF MigrationsTypes
<1>8. MigrationsTypes' BY <1>1, <1>2, <1>5, <1>6, <1>7 DEF MigrationsTypes
<1>9. /\ Len(old) \in Nat /\ DOMAIN old = 1 .. Len(old) /\ DOMAIN longer = 1 .. Len(old) + 1
      /\ \A i \in DOMAIN old : longer[i] = old[i]
      /\ longer[Len(old) + 1] = m
  BY <1>4
<1>10. Elements(longer) = Elements(old) \cup {m} BY <1>4, ElementsOfAppend
<1> HIDE DEF old, longer
<1>11. /\ \A known \in Known(s) : known.id # m.id
       /\ \A other \in Unapplied(s) : m.version <= other.version
  BY <1>2 DEF NextUnapplied, Unapplied
<1>12. Unapplied(s)' \subseteq Unapplied(s)
  <2>1. Known(s) \subseteq Known(s)' BY <1>2, <1>5, <1>10 DEF Known, old
  <2> QED BY <2>1 DEF Unapplied
<1>13. InOrder(s)'
  <2>1. \A i \in DOMAIN old : /\ \A known \in seen[s] : known.id # old[i].id
                              /\ old[i].id # m.id
                              /\ old[i].version <= m.version
                              /\ \A other \in Unapplied(s) : old[i].version <= other.version
    <3>1. \A i \in DOMAIN old : old[i] \in Known(s) BY DEF Known, Elements, old
    <3> QED BY <1>3, <1>11, <3>1 DEF InOrder, old
  <2>2. \A i, j \in DOMAIN old : i < j => old[i].id # old[j].id /\ old[i].version <= old[j].version BY <1>3 DEF InOrder, old
  <2>3. \A known \in seen[s] : known.id # m.id BY <1>11 DEF Known
  <2>4. \A i \in DOMAIN longer : (i \in DOMAIN old /\ longer[i] = old[i]) \/ (i = Len(old) + 1 /\ longer[i] = m) BY <1>9
  <2>5. \A i \in DOMAIN longer : \A known \in seen[s] : known.id # longer[i].id BY <2>1, <2>3, <2>4
  <2>6. \A i, j \in DOMAIN longer : i < j => longer[i].id # longer[j].id /\ longer[i].version <= longer[j].version
    <3> SUFFICES ASSUME NEW i \in DOMAIN longer, NEW j \in DOMAIN longer, i < j
                 PROVE  longer[i].id # longer[j].id /\ longer[i].version <= longer[j].version
      OBVIOUS
    <3>1. i \in DOMAIN old /\ longer[i] = old[i] BY <1>9
    <3> QED BY <2>1, <2>2, <2>4, <3>1
  <2>7. \A i \in DOMAIN longer : \A other \in Unapplied(s) : longer[i].version <= other.version BY <1>11, <2>1, <2>4
  <2> QED BY <1>2, <1>5, <1>12, <2>5, <2>6, <2>7 DEF InOrder
<1>14. Transaction(s)' BY <1>2, <1>3, <1>13 DEF Transaction
<1>15. Result(s)' BY <1>2 DEF Result
<1>16. \A t \in Starters \ {s} : migration[t] # "applies" BY <1>2 DEF MigrationsInv, Transaction
<1> QED BY <1>2, <1>5, <1>8, <1>14, <1>15, <1>16, StarterKeeps

LEMMA CommitKeeps ==
    ASSUME MigrationsInv, NEW s \in Starters, Commit(s)
    PROVE  MigrationsInv'
<1>1. MigrationsTypes BY DEF MigrationsInv
<1>2. /\ migration[s] = "applies" /\ ~Changed(s) /\ Unapplied(s) = {}
      /\ history' = history \cup Elements(ran[s]) /\ schema' = schema \o ran[s] /\ lock' = Unlocked
      /\ migration' = [migration EXCEPT ![s] = "migrated"]
      /\ UNCHANGED <<seen, ran, errors>>
  BY DEF Commit
<1>3. seen[s] = history /\ ValidRelease(ReleaseOf[s]) /\ InOrder(s) BY <1>2 DEF MigrationsInv, Transaction
<1> DEFINE new == ran[s]
<1>4. new \in Seq(OfRelease(s)) /\ Elements(new) \subseteq OfRelease(s) /\ OfRelease(s) \subseteq AllMigrations
  BY <1>1 DEF MigrationsTypes, Elements, AllMigrations
<1>5. new \in Seq(AllMigrations) /\ schema \in Seq(AllMigrations) BY <1>1, <1>4 DEF MigrationsTypes
<1> DEFINE n == Len(schema)
<1>6. /\ Elements(schema') = Elements(schema) \cup Elements(new)
      /\ schema' \in Seq(AllMigrations)
      /\ n \in Nat
      /\ \A i \in DOMAIN schema' : i \in Nat
      /\ \A i \in DOMAIN schema' : \/ i \in DOMAIN schema /\ schema'[i] = schema[i]
                                   \/ i \notin DOMAIN schema /\ i > n /\ i - n \in DOMAIN new /\ schema'[i] = new[i - n]
      /\ \A i \in DOMAIN schema : i <= n
  <2>1. n \in Nat /\ DOMAIN schema = 1 .. n BY <1>5
  <2>2. \A i \in DOMAIN schema : schema'[i] = schema[i] BY <1>2, <1>5, ElementsOfConcat
  <2>3. DOMAIN schema' = 1 .. n + Len(new) /\ Len(new) \in Nat BY <1>2, <1>5, ElementsOfConcat
  <2>4. \A i \in DOMAIN schema' : i \in DOMAIN schema \/ (i - n \in DOMAIN new /\ schema'[i] = new[i - n])
    BY <1>2, <1>5, ElementsOfConcat
  <2>5. \A i \in DOMAIN schema' : i \notin DOMAIN schema => i > n BY <2>1, <2>3
  <2>6. Elements(schema') = Elements(schema) \cup Elements(new) /\ schema' \in Seq(AllMigrations)
    BY <1>2, <1>5, ElementsOfConcat
  <2> QED BY <2>1, <2>2, <2>3, <2>4, <2>5, <2>6
<1> HIDE DEF n, new
<1>7. migration'[s] = "migrated" /\ \A t \in Starters \ {s} : migration'[t] = migration[t] BY <1>1, <1>2 DEF MigrationsTypes
<1>8. MigrationsTypes'
  <2>1. history' \subseteq AllMigrations BY <1>1, <1>2, <1>4 DEF MigrationsTypes, new
  <2>2. migration' \in [Starters -> MigrationStates] BY <1>1, <1>2 DEF MigrationsTypes, MigrationStates
  <2> QED BY <1>1, <1>2, <1>6, <2>1, <2>2 DEF MigrationsTypes
<1>9. Elements(schema)' = history'
  <2>1. Elements(schema') = Elements(schema)' BY DEF Elements
  <2> QED BY <1>2, <1>6, <2>1 DEF MigrationsInv, new
<1>10. \A m \in OfRelease(s) : \E known \in history' : known.id = m.id /\ known.sql = m.sql
  <2> SUFFICES ASSUME NEW m \in OfRelease(s) PROVE \E known \in history' : known.id = m.id /\ known.sql = m.sql OBVIOUS
  <2>1. PICK known \in Known(s) : known.id = m.id BY <1>2 DEF Unapplied, OfRelease
  <2>2. CASE known \in seen[s] BY <1>2, <1>3, <2>1, <2>2 DEF Changed, OfRelease
  <2>3. CASE known \in Elements(ran[s])
    <3>1. known \in OfRelease(s) BY <1>4, <2>3 DEF new
    <3>2. known = m BY <1>3, <2>1, <3>1, ReleaseNames DEF OfRelease
    <3> QED BY <1>2, <2>3, <3>2
  <2> QED BY <2>1, <2>2, <2>3 DEF Known
<1>11. \A t \in Starters \ {s} : migration[t] # "applies" BY <1>2 DEF MigrationsInv, Transaction
<1>12. ASSUME NEW t \in Starters PROVE Transaction(t)' /\ Result(t)'
  <2>1. CASE t = s BY <1>7, <1>10, <2>1 DEF Transaction, Result
  <2>2. CASE t # s
    <3>1. migration'[t] = migration[t] /\ ran'[t] = ran[t] /\ migration[t] # "applies" BY <1>2, <1>7, <1>11, <2>2
    <3>2. Transaction(t) /\ Result(t) BY DEF MigrationsInv
    <3>3. history \subseteq history' BY <1>2
    <3>4. Result(t)' BY <3>1, <3>2, <3>3 DEF Result
    <3> QED BY <3>1, <3>2, <3>4 DEF Transaction
  <2> QED BY <2>1, <2>2
<1>13. \A j \in DOMAIN new : \A known \in history : known.id # new[j].id BY <1>3 DEF InOrder, new
<1>14. \A i \in DOMAIN schema : schema[i] \in history BY DEF MigrationsInv, Elements
<1>15. OnceEach'
  <2> SUFFICES ASSUME NEW i \in DOMAIN schema', NEW j \in DOMAIN schema', i < j PROVE schema'[i].id # schema'[j].id
    BY <1>6 DEF OnceEach
  <2>1. CASE i \in DOMAIN schema /\ j \in DOMAIN schema
    <3>1. i \in Nat /\ j \in Nat /\ i # j BY <1>6
    <3> QED BY <1>6, <2>1, <3>1 DEF MigrationsInv, OnceEach
  <2>2. CASE i \in DOMAIN schema /\ j \notin DOMAIN schema
    <3>1. schema'[i] \in history /\ \E k \in DOMAIN new : schema'[j] = new[k] BY <1>6, <1>14, <2>2
    <3> QED BY <1>13, <3>1
  <2>3. CASE i \notin DOMAIN schema
    <3>1. j \notin DOMAIN schema BY <1>6, <2>3
    <3>2. i - n \in DOMAIN new /\ j - n \in DOMAIN new /\ i - n < j - n BY <1>6, <2>3, <3>1
    <3>3. new[i - n].id # new[j - n].id BY <1>3, <3>2 DEF InOrder, new
    <3> QED BY <1>6, <2>3, <3>1, <3>3
  <2> QED BY <2>1, <2>2, <2>3
<1>16. Provenance'
  <2> SUFFICES ASSUME NEW x \in history'
               PROVE  \E t \in Starters : x \in OfRelease(t) /\ \A m \in OfRelease(t) : \E known \in history' : known.id = m.id
    BY DEF Provenance, OfRelease, Elements
  <2>1. CASE x \in history
    <3>1. history \subseteq history' BY <1>2
    <3> QED BY <2>1, <3>1 DEF MigrationsInv, Provenance
  <2>2. CASE x \in Elements(new) BY <1>4, <1>10, <2>2
  <2> QED BY <1>2, <2>1, <2>2 DEF new
<1>17. LateOnes'
  <2> SUFFICES ASSUME NEW i \in DOMAIN schema', NEW j \in DOMAIN schema', i < j, schema'[i].version > schema'[j].version
               PROVE  \E t \in Starters : schema'[i] \in OfRelease(t) /\ schema'[j] \notin OfRelease(t)
    BY DEF LateOnes, OfRelease, Elements
  <2>1. CASE i \in DOMAIN schema /\ j \in DOMAIN schema BY <1>6, <2>1 DEF MigrationsInv, LateOnes
  <2>2. CASE i \in DOMAIN schema /\ j \notin DOMAIN schema
    <3>1. PICK k \in DOMAIN new : schema'[j] = new[k] BY <1>6, <2>2
    <3>2. schema'[i] \in history BY <1>6, <1>14, <2>2
    <3>3. PICK t \in Starters : schema'[i] \in OfRelease(t) /\ \A m \in OfRelease(t) : \E known \in history : known.id = m.id
      BY <3>2 DEF MigrationsInv, Provenance
    <3>4. schema'[j] \notin OfRelease(t) BY <1>13, <3>1, <3>3
    <3> QED BY <3>3, <3>4
  <2>3. CASE i \notin DOMAIN schema
    <3>1. j \notin DOMAIN schema BY <1>6, <2>3
    <3>2. i - n \in DOMAIN new /\ j - n \in DOMAIN new /\ i - n < j - n BY <1>6, <2>3, <3>1
    <3>3. new[i - n].version <= new[j - n].version BY <1>3, <3>2 DEF InOrder, new
    <3>4. schema'[i] = new[i - n] /\ schema'[j] = new[j - n] BY <1>6, <2>3, <3>1
    <3>5. new[i - n].version \in Int /\ new[j - n].version \in Int
      <4>1. \A m \in OfRelease(s) : m.version \in Int BY MigrationsAssumption DEF OfRelease
      <4>2. new[i - n] \in Elements(new) /\ new[j - n] \in Elements(new) BY <3>2 DEF Elements
      <4> QED BY <1>4, <4>1, <4>2
    <3> QED BY <3>3, <3>4, <3>5
  <2> QED BY <2>1, <2>2, <2>3
<1> QED BY <1>8, <1>9, <1>12, <1>15, <1>16, <1>17 DEF MigrationsInv

LEMMA MigrationsStep == ASSUME MigrationsInv, [MigrationsNext]_migrationVars PROVE MigrationsInv'
<1>1. CASE UNCHANGED migrationVars
  <2>1. /\ history' = history /\ schema' = schema /\ lock' = lock /\ seen' = seen /\ ran' = ran /\ migration' = migration
    BY <1>1 DEF migrationVars
  <2>2. MigrationsTypes' BY <2>1 DEF MigrationsInv, MigrationsTypes
  <2>3. ASSUME NEW s \in Starters PROVE Transaction(s)' /\ Result(s)'
    <3>1. InOrder(s)' <=> InOrder(s) BY <2>1 DEF InOrder, Unapplied, Known
    <3>2. Transaction(s) /\ Result(s) BY DEF MigrationsInv
    <3>3. Result(s)' BY <2>1, <3>2 DEF Result
    <3> QED BY <2>1, <3>1, <3>2, <3>3 DEF Transaction
  <2> QED BY <2>1, <2>2, <2>3 DEF MigrationsInv, OnceEach, LateOnes, Provenance, Elements
<1>2. ASSUME NEW s \in Starters, Fails(s) PROVE MigrationsInv' BY <1>2, RollbackKeeps DEF Fails
<1>3. CASE MigrationsNext
  BY <1>2, <1>3, RejectKeeps, BeginTxKeeps, ApplyKeeps, ConflictKeeps, CommitKeeps DEF MigrationsNext
<1> QED BY <1>1, <1>3

\* For any starters and releases: each migration runs once and is recorded with
\* the SQL that ran, a start that succeeded has all of its release in the schema,
\* one fails only where its release contradicts the history, and a version runs
\* after a higher one only if a release without it came first
\* (dbcore/migrate.go:40-126).
THEOREM MigrationsRunOnce == MigrationsSpec => []MigratedOnce
<1>1. MigrationsInit => MigrationsInv BY MigrationsInitially
<1>2. MigrationsInv /\ [MigrationsNext]_migrationVars => MigrationsInv' BY MigrationsStep
<1>3. MigrationsInv => MigratedOnce
  BY DEF MigrationsInv, MigratedOnce, OnceEach, LateOnes, Result, OfRelease
<1> QED BY <1>1, <1>2, <1>3, PTL DEF MigrationsSpec

-----------------------------------------------------------------------------
(* Accounts: whose password a hash is of, and whom it lets in.             *)

AccountsSpec == AccountsInit /\ [][AccountsNext]_accountVars

Hashes == [format : Formats \cup {"missing"}, word : Words \cup {0}, salt : Int]

AccountRows == [hash : Hashes, word : Words \cup {0}]

AccountPlaces == {"idle", "finding", "inserting", "looking up", "verifying", "rehashing", "answered"}
AccountAnswers == {"none", "conflict", "error", "token", "created", "refused"}

AccountRequests ==
    [at : AccountPlaces, word : Words \cup {0}, policy : Policies, right : BOOLEAN, id : Int, read : Hashes,
     outcome : AccountAnswers]

AccountTypes ==
    /\ application \in {"Enable", "Application"}
    /\ accounts \in Seq(AccountRows) /\ accountReplica \in Seq(AccountRows)
    /\ hashes \in Int
    /\ request \in [Requests -> AccountRequests]

\* The rows of a table are of its owners' passwords, and the replica has none
\* that the primary does not have.
Current(entries) == \A i \in DOMAIN entries : entries[i].hash.word = entries[i].word
Tables == Current(accounts) /\ Current(accountReplica) /\ Len(accountReplica) <= Len(accounts)

\* A request knows when its password is right, and it finds the one of a hash it
\* read right while it was there; one that goes on has a hash of its password.
Knows(q) == q.at # "idle" /\ Right(q.word) => q.right
Reads(q) ==
    /\ q.at \in {"idle", "finding", "inserting", "looking up"} => q.read = NoHash
    /\ q.read # NoHash /\ q.read.word = q.word => q.right
    /\ q.at \in {"verifying", "rehashing"} => q.id \in 1 .. Len(accounts)
    /\ q.at = "rehashing" => q.read.word = q.word
Answers(q) ==
    /\ q.outcome # "none" => q.at = "answered"
    /\ q.outcome = "token" /\ q.read # NoHash => q.read.word = q.word
    /\ q.outcome = "refused" /\ q.read.format \in Policies => q.read.word # q.word

AccountInvariant ==
    /\ AccountTypes /\ Tables /\ OneAccount
    /\ \A r \in Requests : Knows(request[r]) /\ Reads(request[r]) /\ Answers(request[r])

LEMMA NoHashes == NoHash \in Hashes /\ NoHash.format \notin Policies
<1>1. NoHash \in Hashes
    BY DEF NoHash, Hashes
<1>2. "missing" \notin Policies
    BY AccountsAssumption
<1> QED
    BY <1>1, <1>2 DEF NoHash

LEMMA IdleTyped == IdleRequest \in AccountRequests
BY NoHashes, AccountsAssumption DEF IdleRequest, AccountRequests, AccountPlaces, AccountAnswers

LEMMA InitAccounts == AccountsInit => AccountInvariant
<1> SUFFICES ASSUME AccountsInit PROVE AccountInvariant
    OBVIOUS
<1> DEFINE row(format, word) == [hash |-> [format |-> format, word |-> word, salt |-> 1], word |-> word]
<1>1. \A r \in Requests : request[r] = IdleRequest
    BY DEF AccountsInit
<1>2. IdleRequest \in AccountRequests /\ request \in [Requests -> AccountRequests]
    BY IdleTyped DEF AccountsInit
<1>3. /\ accounts \in Seq(AccountRows) /\ accountReplica = accounts
      /\ Current(accounts) /\ Len(accounts) <= 1
  <2>1. accounts = <<>> \/ \E word \in Words, format \in Formats : accounts = <<row(format, word)>>
    <3>1. \A format \in (IF application = "Enable" THEN Policies ELSE Formats) : format \in Formats
      BY DEF Formats
    <3> QED
      BY <3>1 DEF AccountsInit
  <2>2. CASE accounts = <<>>
    BY <2>2 DEF AccountsInit, Current
  <2>3. ASSUME NEW word \in Words, NEW format \in Formats, accounts = <<row(format, word)>>
        PROVE  /\ accounts \in Seq(AccountRows) /\ accountReplica = accounts
               /\ Current(accounts) /\ Len(accounts) <= 1
    <3>1. row(format, word) \in AccountRows /\ row(format, word).hash.word = row(format, word).word
      BY DEF AccountRows, Hashes
    <3> HIDE DEF row
    <3> QED
      BY <2>3, <3>1 DEF AccountsInit, Current
  <2> QED
    BY <2>1, <2>2, <2>3
<1> QED
    BY <1>1, <1>2, <1>3
    DEF AccountsInit, AccountInvariant, AccountTypes, Tables, OneAccount, Knows, Reads, Answers, IdleRequest, NoHash

\* A request that a step leaves where it is, but may make right, keeps what is said
\* of it, where the passwords that became right are told.
LEMMA RequestKept ==
    ASSUME AccountInvariant, NEW r \in Requests, NEW q \in AccountRequests, Len(accounts') >= Len(accounts),
           Len(accounts) \in Int, Len(accounts') \in Int,
           q = request[r] \/ q = [request[r] EXCEPT !.right = TRUE],
           Right(q.word)' => Right(q.word) \/ q.right
    PROVE  Knows(q)' /\ Reads(q)' /\ Answers(q)
<1>1. request[r] \in AccountRequests /\ Knows(request[r]) /\ Reads(request[r]) /\ Answers(request[r])
    BY DEF AccountInvariant, AccountTypes
<1>2. /\ q.at = request[r].at /\ q.word = request[r].word /\ q.read = request[r].read /\ q.id = request[r].id
      /\ q.outcome = request[r].outcome /\ (request[r].right => q.right)
    BY <1>1 DEF AccountRequests
<1>3. Knows(q)'
    BY <1>1, <1>2 DEF Knows, Right
<1>4. Reads(q)'
  <2>1. 1 .. Len(accounts) \subseteq 1 .. Len(accounts')
    OBVIOUS
  <2> QED
    BY <1>1, <1>2, <2>1 DEF Reads
<1>5. Answers(q)
    BY <1>1, <1>2 DEF Answers
<1> QED
    BY <1>3, <1>4, <1>5
\* A step that changes one request, and no table.
LEMMA OneRequest ==
    ASSUME AccountInvariant, NEW r \in Requests, NEW q \in AccountRequests, request' = [request EXCEPT ![r] = q],
           UNCHANGED <<application, accounts, accountReplica, hashes>>, Knows(q), Reads(q), Answers(q)
    PROVE  AccountInvariant'
<1>1. AccountTypes'
    BY DEF AccountInvariant, AccountTypes
<1>2. Tables' /\ OneAccount'
    BY DEF AccountInvariant, Tables, Current, OneAccount, Unique
<1>3. ASSUME NEW p \in Requests PROVE (Knows(request[p]) /\ Reads(request[p]) /\ Answers(request[p]))'
  <2>1. CASE p = r
    <3>1. request'[p] = q
        BY <2>1 DEF AccountInvariant, AccountTypes
    <3>2. Knows(request[p])'
        BY <3>1 DEF Knows, Right
    <3>3. Reads(request[p])'
        BY <3>1 DEF Reads
    <3>4. Answers(request[p])'
        BY <3>1 DEF Answers
    <3> QED
        BY <3>2, <3>3, <3>4
  <2>2. CASE p # r
    <3>1. request'[p] = request[p]
        BY <2>2 DEF AccountInvariant, AccountTypes
    <3>2. Knows(request[p]) /\ Reads(request[p]) /\ Answers(request[p])
        BY DEF AccountInvariant
    <3>3. Knows(request[p])'
        BY <3>1, <3>2 DEF Knows, Right
    <3>4. Reads(request[p])'
        BY <3>1, <3>2 DEF Reads
    <3>5. Answers(request[p])'
        BY <3>1, <3>2 DEF Answers
    <3> QED
        BY <3>3, <3>4, <3>5
  <2> QED
    BY <2>1, <2>2
<1> QED
    BY <1>1, <1>2, <1>3 DEF AccountInvariant

\* The requests that the choice of a password makes right.
LEMMA ChosenRequests ==
    ASSUME AccountInvariant, NEW word
    PROVE  /\ Chosen(word) \in [Requests -> AccountRequests]
           /\ \A r \in Requests :
                 /\ Chosen(word)[r] \in {request[r], [request[r] EXCEPT !.right = TRUE]}
                 /\ Chosen(word)[r].word = request[r].word
                 /\ request[r].word = word => Chosen(word)[r].right
<1>1. \A r \in Requests : request[r] \in AccountRequests
    BY DEF AccountInvariant, AccountTypes
<1>2. \A r \in Requests : [request[r] EXCEPT !.right = TRUE] \in AccountRequests
    BY <1>1 DEF AccountRequests
<1>3. \A r \in Requests : [request[r] EXCEPT !.right = TRUE].right /\ [request[r] EXCEPT !.right = TRUE].word = request[r].word
    BY <1>1 DEF AccountRequests
<1> QED
    BY <1>1, <1>2, <1>3 DEF Chosen

\* What a request is when it comes.
AskedRight(place, word, rule) ==
    [IdleRequest EXCEPT !.at = place, !.word = word, !.policy = rule, !.right = TRUE]
AskedWrong(place, word, rule) ==
    [IdleRequest EXCEPT !.at = place, !.word = word, !.policy = rule, !.right = FALSE]

LEMMA AskedRightTyped ==
    ASSUME NEW place \in AccountPlaces, NEW word \in Words, NEW rule \in Policies
    PROVE  /\ AskedRight(place, word, rule) \in AccountRequests
           /\ AskedRight(place, word, rule).at = place
           /\ AskedRight(place, word, rule).word = word
           /\ AskedRight(place, word, rule).read = NoHash
           /\ AskedRight(place, word, rule).outcome = "none"
           /\ AskedRight(place, word, rule).right
<1>1. IdleRequest \in AccountRequests
    BY IdleTyped
<1>2. IdleRequest.read = NoHash /\ IdleRequest.outcome = "none"
    BY DEF IdleRequest
<1> QED
    BY <1>1, <1>2 DEF AskedRight, AccountRequests

LEMMA AskedWrongTyped ==
    ASSUME NEW place \in AccountPlaces, NEW word \in Words, NEW rule \in Policies
    PROVE  /\ AskedWrong(place, word, rule) \in AccountRequests
           /\ AskedWrong(place, word, rule).at = place
           /\ AskedWrong(place, word, rule).word = word
           /\ AskedWrong(place, word, rule).read = NoHash
           /\ AskedWrong(place, word, rule).outcome = "none"
<1>1. IdleRequest \in AccountRequests
    BY IdleTyped
<1>2. IdleRequest.read = NoHash /\ IdleRequest.outcome = "none"
    BY DEF IdleRequest
<1> QED
    BY <1>1, <1>2 DEF AskedWrong, AccountRequests

LEMMA AskedTyped ==
    ASSUME NEW place \in AccountPlaces, NEW word \in Words, NEW rule \in Policies,
           NEW q, q = AskedRight(place, word, rule) \/ q = AskedWrong(place, word, rule)
    PROVE  /\ q \in AccountRequests
           /\ q.at = place /\ q.word = word /\ q.read = NoHash /\ q.outcome = "none"
<1>1. CASE q = AskedRight(place, word, rule)
    BY <1>1, AskedRightTyped
<1>2. CASE q = AskedWrong(place, word, rule)
    BY <1>2, AskedWrongTyped
<1> QED
    BY <1>1, <1>2

AskPlaces == {"finding", "inserting", "looking up"}

LEMMA AskKeeps ==
    ASSUME AccountInvariant, NEW r \in Requests, NEW place \in AskPlaces,
           NEW word \in Words, NEW rule \in Policies, Ask(r, place, word, rule)
    PROVE  AccountInvariant'
<1>1. PICK q \in {AskedRight(place, word, rule), AskedWrong(place, word, rule)} :
             /\ Right(word) => q = AskedRight(place, word, rule)
             /\ request' = [request EXCEPT ![r] = q]
  <2>1. CASE Right(word) = TRUE
    BY <2>1, Zenon DEF Ask, AskedRight, AskedWrong
  <2>2. CASE Right(word) = FALSE
    BY <2>2, Zenon DEF Ask, AskedRight, AskedWrong
  <2> QED
    BY <2>1, <2>2 DEF Right
<1>2. place \in AccountPlaces
    BY DEF AskPlaces, AccountPlaces
<1>3. /\ q \in AccountRequests
      /\ q.at = place /\ q.word = word /\ q.read = NoHash /\ q.outcome = "none"
  <2>1. q = AskedRight(place, word, rule) \/ q = AskedWrong(place, word, rule)
    BY <1>1
  <2> QED
    BY <1>2, <2>1, AskedTyped
<1>6. Right(word) => q.right
  <2>1. AskedRight(place, word, rule).right
    BY <1>2, AskedRightTyped
  <2> QED
    BY <1>1, <2>1
<1>4. Knows(q) /\ Reads(q) /\ Answers(q)
    BY <1>3, <1>6 DEF AskPlaces, Knows, Reads, Answers
<1>5. UNCHANGED <<application, accounts, accountReplica, hashes>>
    BY DEF Ask
<1> QED
    BY <1>1, <1>3, <1>4, <1>5, OneRequest

\* A request that only goes on: to a place that claims nothing, or to an answer
\* that does not.
LEMMA Moves ==
    ASSUME AccountInvariant, NEW r \in Requests, request[r].at # "idle",
           NEW q, q \in {[request[r] EXCEPT !.at = "inserting"], [request[r] EXCEPT !.at = "answered", !.outcome = "conflict"],
                         [request[r] EXCEPT !.at = "answered", !.outcome = "error"]},
           q.at = "inserting" => request[r].at = "finding"
    PROVE  q \in AccountRequests /\ Knows(q) /\ Reads(q) /\ Answers(q)
<1>1. request[r] \in AccountRequests /\ Knows(request[r]) /\ Reads(request[r]) /\ Answers(request[r])
    BY DEF AccountInvariant, AccountTypes
<1>2. /\ q \in AccountRequests
      /\ q.word = request[r].word /\ q.read = request[r].read /\ q.right = request[r].right
      /\ q.at \in {"inserting", "answered"}
      /\ \/ q.at = "inserting" /\ q.outcome = request[r].outcome
         \/ q.at = "answered" /\ q.outcome \in {"conflict", "error"}
    BY <1>1 DEF AccountRequests, AccountPlaces, AccountAnswers
<1>3. Knows(q)
    BY <1>1, <1>2 DEF Knows
<1>4. Reads(q)
    BY <1>1, <1>2 DEF Reads
<1>5. Answers(q)
    BY <1>1, <1>2 DEF Answers
<1> QED
    BY <1>2, <1>3, <1>4, <1>5

LEMMA FindExistingKeeps ==
    ASSUME AccountInvariant, NEW r \in Requests, FindExisting(r)
    PROVE  AccountInvariant'
<1>1. PICK q \in {[request[r] EXCEPT !.at = "inserting"], [request[r] EXCEPT !.at = "answered", !.outcome = "conflict"]} :
          request' = [request EXCEPT ![r] = q]
    BY DEF FindExisting, AnswerWith, StepTo
<1>2. q.at = "inserting" => request[r].at = "finding"
    BY DEF FindExisting
<1>3. q \in AccountRequests /\ Knows(q) /\ Reads(q) /\ Answers(q)
    BY <1>1, <1>2, Moves DEF FindExisting
<1> QED
    BY <1>1, <1>3, OneRequest DEF FindExisting

LEMMA StatementFailsKeeps ==
    ASSUME AccountInvariant, NEW r \in Requests, StatementFails(r)
    PROVE  AccountInvariant'
<1> DEFINE q == [request[r] EXCEPT !.at = "answered", !.outcome = "error"]
<1>1. request' = [request EXCEPT ![r] = q] /\ request[r] \in AccountRequests
    BY DEF StatementFails, AnswerWith, AccountInvariant, AccountTypes
<1>2. q.at = "answered"
    BY <1>1 DEF AccountRequests
<1>3. q \in AccountRequests /\ Knows(q) /\ Reads(q) /\ Answers(q)
    BY <1>2, Moves DEF StatementFails
<1> QED
    BY <1>1, <1>3, OneRequest DEF StatementFails

\* A login that is refused before it has read a hash.
LEMMA RefusedUnread ==
    ASSUME AccountInvariant, NEW r \in Requests, request[r].at = "looking up",
           NEW q, q \in {[request[r] EXCEPT !.at = "answered", !.outcome = "refused"],
                         [request[r] EXCEPT !.at = "answered", !.outcome = "error"]}
    PROVE  q \in AccountRequests /\ Knows(q) /\ Reads(q) /\ Answers(q)
<1>1. request[r] \in AccountRequests /\ Knows(request[r]) /\ Reads(request[r]) /\ Answers(request[r])
    BY DEF AccountInvariant, AccountTypes
<1>2. /\ q \in AccountRequests /\ q.at = "answered" /\ q.outcome \in {"refused", "error"}
      /\ q.word = request[r].word /\ q.read = request[r].read /\ q.right = request[r].right
    BY <1>1 DEF AccountRequests, AccountPlaces, AccountAnswers
<1>3. q.read = NoHash /\ q.read.format \notin Policies
    BY <1>1, <1>2, NoHashes DEF Reads
<1> QED
    BY <1>1, <1>2, <1>3 DEF Knows, Reads, Answers

LEMMA LookUpFailsKeeps ==
    ASSUME AccountInvariant, NEW r \in Requests, LookUpFails(r)
    PROVE  AccountInvariant'
<1>1. PICK q \in {[request[r] EXCEPT !.at = "answered", !.outcome = "refused"],
                  [request[r] EXCEPT !.at = "answered", !.outcome = "error"]} : request' = [request EXCEPT ![r] = q]
    BY DEF LookUpFails, AnswerWith
<1>2. q \in AccountRequests /\ Knows(q) /\ Reads(q) /\ Answers(q)
    BY <1>1, RefusedUnread DEF LookUpFails
<1> QED
    BY <1>1, <1>2, OneRequest DEF LookUpFails
LEMMA LookUpAccountKeeps ==
    ASSUME AccountInvariant, NEW r \in Requests, LookUpAccount(r)
    PROVE  AccountInvariant'
<1>1. CASE accountReplica = <<>>
  <2> DEFINE q == [request[r] EXCEPT !.at = "answered", !.outcome = "refused"]
  <2>1. request' = [request EXCEPT ![r] = q]
    BY <1>1 DEF LookUpAccount, AnswerWith
  <2>2. q \in AccountRequests /\ Knows(q) /\ Reads(q) /\ Answers(q)
    BY RefusedUnread DEF LookUpAccount
  <2> QED
    BY <2>1, <2>2, OneRequest DEF LookUpAccount
<1>2. CASE accountReplica # <<>>
  <2>1. PICK i \in DOMAIN accountReplica :
            request' = [request EXCEPT ![r].at = "verifying", ![r].id = i, ![r].read = accountReplica[i].hash]
    BY <1>2 DEF LookUpAccount
  <2> DEFINE h == accountReplica[i].hash
             q == [request[r] EXCEPT !.at = "verifying", !.id = i, !.read = h]
  <2>2. accountReplica[i] \in AccountRows /\ i \in 1 .. Len(accounts) /\ h.word = accountReplica[i].word
    BY <2>1 DEF AccountInvariant, AccountTypes, Tables, Current
  <2>3. request[r] \in AccountRequests /\ Knows(request[r]) /\ Answers(request[r]) /\ request[r].at = "looking up"
    BY DEF AccountInvariant, AccountTypes, LookUpAccount
  <2>4. h \in Hashes
    BY <2>2 DEF AccountRows
  <2>5. request' = [request EXCEPT ![r] = q]
    BY <2>1
  <2> HIDE DEF h
  <2>6. /\ q \in AccountRequests
        /\ q.at = "verifying" /\ q.id = i /\ q.read = h /\ q.word = request[r].word /\ q.right = request[r].right
        /\ q.outcome = request[r].outcome
    <3>1. i \in Int /\ "verifying" \in AccountPlaces
        BY <2>1 DEF AccountInvariant, AccountTypes, AccountPlaces
    <3>2. [request[r] EXCEPT !.at = "verifying", !.id = i] \in AccountRequests
        BY <2>3, <3>1 DEF AccountRequests
    <3>3. q \in AccountRequests
        BY <2>3, <2>4, <3>1 DEF AccountRequests
    <3> QED
        BY <2>3, <3>3 DEF AccountRequests
  <2> HIDE DEF q
  <2>7. h.word = q.word => Right(q.word)
    BY <2>1, <2>2, <2>6 DEF Right
  <2>8. Knows(q) /\ Reads(q) /\ Answers(q)
    BY <2>2, <2>3, <2>6, <2>7 DEF Knows, Reads, Answers
  <2> QED
    BY <2>5, <2>6, <2>8, OneRequest DEF LookUpAccount
<1> QED
    BY <1>1, <1>2

\* What a comparison says of the hash.
Tells(result, word, hash) ==
    /\ result \in {"valid", "needs rehash", "invalid"}
    /\ result \in {"valid", "needs rehash"} => hash.word = word
    /\ result = "invalid" /\ hash.format \in Policies => hash.word # word

LEMMA VerifyTells ==
    ASSUME NEW word, NEW hash, NEW rule
    PROVE  Tells(Verify(word, hash, rule), word, hash)
<1>1. CASE hash.format \in Policies /\ hash.word = word
  <2>1. hash.format # "legacy"
    BY <1>1, AccountsAssumption
  <2> QED
    BY <1>1, <2>1 DEF Verify, Tells
<1>2. CASE ~(hash.format \in Policies /\ hash.word = word)
    BY <1>2 DEF Verify, Tells
<1> QED
    BY <1>1, <1>2

LEMMA VerifyPasswordTells ==
    ASSUME NEW word, NEW hash
    PROVE  Tells(VerifyPassword(word, hash), word, hash)
BY DEF VerifyPassword, Tells

LEMMA CheckPasswordKeeps ==
    ASSUME AccountInvariant, NEW r \in Requests, CheckPassword(r)
    PROVE  AccountInvariant'
<1>1. PICK result \in {Verify(request[r].word, request[r].read, request[r].policy),
                       VerifyPassword(request[r].word, request[r].read)} :
          request' = CASE result = "invalid" -> AnswerWith(r, "refused")
                       [] result = "valid" -> Token(r, request[r].id)
                       [] OTHER -> StepTo(r, "rehashing")
    BY DEF CheckPassword
<1>2. Tells(result, request[r].word, request[r].read)
    BY <1>1, VerifyTells, VerifyPasswordTells
<1>3. /\ request[r] \in AccountRequests /\ request[r].at = "verifying"
      /\ Knows(request[r]) /\ Reads(request[r]) /\ Answers(request[r])
    BY DEF AccountInvariant, AccountTypes, CheckPassword
<1>4. UNCHANGED <<application, accounts, accountReplica, hashes>>
    BY DEF CheckPassword
<1>5. CASE result = "invalid"
  <2> DEFINE q == [request[r] EXCEPT !.at = "answered", !.outcome = "refused"]
  <2>1. request' = [request EXCEPT ![r] = q]
    BY <1>1, <1>5 DEF AnswerWith
  <2>2. /\ q \in AccountRequests /\ q.at = "answered" /\ q.outcome = "refused"
        /\ q.read = request[r].read /\ q.word = request[r].word /\ q.right = request[r].right
    BY <1>3 DEF AccountRequests, AccountPlaces, AccountAnswers
  <2> HIDE DEF q
  <2>3. Knows(q) /\ Reads(q) /\ Answers(q)
    BY <1>2, <1>3, <1>5, <2>2 DEF Tells, Knows, Reads, Answers
  <2> QED
    BY <1>4, <2>1, <2>2, <2>3, OneRequest
<1>6. CASE result = "valid"
  <2> DEFINE q == [request[r] EXCEPT !.at = "answered", !.outcome = "token", !.id = request[r].id]
  <2>1. request' = [request EXCEPT ![r] = q]
    BY <1>1, <1>6 DEF Token
  <2>2. /\ q \in AccountRequests /\ q.at = "answered" /\ q.outcome = "token"
        /\ q.read = request[r].read /\ q.word = request[r].word /\ q.right = request[r].right
    BY <1>3 DEF AccountRequests, AccountPlaces, AccountAnswers
  <2> HIDE DEF q
  <2>3. Knows(q) /\ Reads(q) /\ Answers(q)
    BY <1>2, <1>3, <1>6, <2>2 DEF Tells, Knows, Reads, Answers
  <2> QED
    BY <1>4, <2>1, <2>2, <2>3, OneRequest
<1>7. CASE result = "needs rehash"
  <2> DEFINE q == [request[r] EXCEPT !.at = "rehashing"]
  <2>1. request' = [request EXCEPT ![r] = q]
    BY <1>1, <1>7 DEF StepTo
  <2>2. /\ q \in AccountRequests /\ q.at = "rehashing" /\ q.outcome = request[r].outcome /\ q.id = request[r].id
        /\ q.read = request[r].read /\ q.word = request[r].word /\ q.right = request[r].right
    BY <1>3 DEF AccountRequests, AccountPlaces, AccountAnswers
  <2> HIDE DEF q
  <2>3. Knows(q) /\ Reads(q) /\ Answers(q)
    BY <1>2, <1>3, <1>7, <2>2 DEF Tells, Knows, Reads, Answers
  <2> QED
    BY <1>4, <2>1, <2>2, <2>3, OneRequest
<1> QED
    BY <1>2, <1>5, <1>6, <1>7 DEF Tells

\* A step that gives the tables other rows: the requests keep what is said of them
\* if they were told of the password, and one that is answered may claim what it
\* has read.
Told(r, word) ==
    /\ request'[r] = request[r] \/ request'[r] = [request[r] EXCEPT !.right = TRUE]
    /\ request'[r].right \/ request[r].word # word \/ (Right(word)' => Right(word))

LEMMA RequestsKept ==
    ASSUME AccountInvariant, AccountTypes', Tables', OneAccount', Len(accounts') >= Len(accounts), NEW word,
           \A other : other # word /\ Right(other)' => Right(other),
           \A r \in Requests : Told(r, word) \/ (Knows(request[r]) /\ Reads(request[r]) /\ Answers(request[r]))'
    PROVE  AccountInvariant'
<1>1. Len(accounts) \in Int /\ Len(accounts') \in Int
    BY DEF AccountInvariant, AccountTypes
<1>2. ASSUME NEW r \in Requests, Told(r, word) PROVE (Knows(request[r]) /\ Reads(request[r]) /\ Answers(request[r]))'
  <2>1. PICK q : q = request'[r]
    OBVIOUS
  <2>2. q \in AccountRequests /\ q.word = request[r].word
    BY <1>2, <2>1 DEF Told, AccountInvariant, AccountTypes, AccountRequests
  <2>3. Right(q.word)' => Right(q.word) \/ q.right
    <3>1. PICK other : other = q.word
        OBVIOUS
    <3>2. CASE other = word
        BY <1>2, <2>1, <2>2, <3>1, <3>2 DEF Told
    <3>3. CASE other # word
        <4>1. Right(other)' => Right(other)
            BY <3>3
        <4> QED
            BY <3>1, <4>1
    <3> QED
        BY <3>2, <3>3
  <2>4. Knows(q)' /\ Reads(q)' /\ Answers(q)
    <3>1. q = request[r] \/ q = [request[r] EXCEPT !.right = TRUE]
        BY <1>2, <2>1 DEF Told
    <3> QED
        BY <1>1, <2>2, <2>3, <3>1, RequestKept
  <2> QED
    BY <2>1, <2>4 DEF Knows, Right, Reads, Answers
<1> QED
    BY <1>2 DEF AccountInvariant

LEMMA CopyingKeeps ==
    ASSUME AccountInvariant, ReplicateAccounts
    PROVE  AccountInvariant'
<1>1. AccountTypes' /\ Tables' /\ OneAccount' /\ Len(accounts') >= Len(accounts)
    BY DEF ReplicateAccounts, AccountInvariant, AccountTypes, Tables, Current, OneAccount, Unique
<1>2. ASSUME NEW other PROVE Right(other)' => Right(other)
    BY DEF ReplicateAccounts, Right
<1>3. ASSUME NEW r \in Requests PROVE Told(r, 0)
  <2>1. Right(0)' => Right(0)
    BY <1>2
  <2> QED
    BY <2>1 DEF ReplicateAccounts, Told
<1> QED
    BY <1>1, <1>2, <1>3, RequestsKept

\* What one statement does to a row: it leaves the password, or gives the row word.
\* The replica has the rows of before or of after.
WhatIsKnown(entries, word) == \E i \in DOMAIN entries : entries[i].word = word
RowAfter(before, after, k, word) ==
    \/ after[k].word = word /\ after[k].hash.word = word
    \/ k \in DOMAIN before /\ after[k].word = before[k].word /\ after[k].hash.word = before[k].hash.word

LEMMA RowsAfter ==
    ASSUME NEW before \in Seq(AccountRows), NEW after \in Seq(AccountRows), NEW word,
           Current(before), \A k \in DOMAIN after : RowAfter(before, after, k, word)
    PROVE  Current(after) /\ \A other : other # word /\ WhatIsKnown(after, other) => WhatIsKnown(before, other)
<1>1. Current(after)
    BY DEF Current, RowAfter
<1>2. ASSUME NEW other, other # word, WhatIsKnown(after, other)
      PROVE  WhatIsKnown(before, other)
    BY <1>2 DEF WhatIsKnown, RowAfter
<1> QED
    BY <1>1, <1>2

LEMMA TablesAfter ==
    ASSUME AccountInvariant, NEW word, accounts' \in Seq(AccountRows), accountReplica' \in {accountReplica, accounts'},
           Len(accounts') >= Len(accounts), \A k \in DOMAIN accounts' : RowAfter(accounts, accounts', k, word)
    PROVE  Tables' /\ \A other : other # word /\ Right(other)' => Right(other)
<1>1. /\ accounts \in Seq(AccountRows) /\ accountReplica \in Seq(AccountRows)
      /\ Current(accounts) /\ Current(accountReplica) /\ Len(accountReplica) <= Len(accounts)
      /\ Len(accountReplica) \in Int /\ Len(accounts) \in Int
    BY DEF AccountInvariant, AccountTypes, Tables
<1>2. PICK after \in Seq(AccountRows) : after = accounts'
    OBVIOUS
<1>3. Current(after) /\ \A other : other # word /\ WhatIsKnown(after, other) => WhatIsKnown(accounts, other)
    BY <1>1, <1>2, RowsAfter
<1>4. Current(accounts)' /\ \A other : other # word /\ WhatIsKnown(accounts, other)' => WhatIsKnown(accounts, other)
    BY <1>2, <1>3 DEF Current, WhatIsKnown
<1>5. CASE accountReplica' = accountReplica
  <2>1. Len(accountReplica') <= Len(accounts')
    BY <1>1, <1>2, <1>5
  <2>2. Current(accountReplica)' /\ \A other : WhatIsKnown(accountReplica, other)' => WhatIsKnown(accountReplica, other)
    BY <1>1, <1>5 DEF Current, WhatIsKnown
  <2>3. Tables'
    BY <1>4, <2>1, <2>2 DEF Tables
  <2>4. ASSUME NEW other, other # word, Right(other)'
        PROVE  Right(other)
    <3>1. WhatIsKnown(accounts, other)' \/ WhatIsKnown(accountReplica, other)'
        BY <2>4 DEF Right, WhatIsKnown
    <3>2. WhatIsKnown(accounts, other) \/ WhatIsKnown(accountReplica, other)
        BY <1>4, <2>2, <2>4, <3>1
    <3> QED
        BY <3>2 DEF Right, WhatIsKnown
  <2> QED
    BY <2>3, <2>4
<1>6. CASE accountReplica' = accounts'
  <2>1. Len(accountReplica') <= Len(accounts')
    BY <1>2, <1>6
  <2>2. Current(accountReplica)' /\ \A other : WhatIsKnown(accountReplica, other)' => WhatIsKnown(accounts, other)'
    BY <1>4, <1>6 DEF Current, WhatIsKnown
  <2>3. Tables'
    BY <1>4, <2>1, <2>2 DEF Tables
  <2>4. ASSUME NEW other, other # word, Right(other)'
        PROVE  Right(other)
    <3>1. WhatIsKnown(accounts, other)'
        BY <1>6, <2>4 DEF Right, WhatIsKnown
    <3>2. WhatIsKnown(accounts, other)
        BY <1>4, <2>4, <3>1
    <3> QED
        BY <3>2 DEF Right, WhatIsKnown
  <2> QED
    BY <2>3, <2>4
<1> QED
    BY <1>5, <1>6

LEMMA ChangePasswordKeeps ==
    ASSUME AccountInvariant, NEW i \in DOMAIN accounts, NEW word \in Words, ChangePassword(i, word)
    PROVE  AccountInvariant'
<1> DEFINE row == [hash |-> Hashed(word, DefaultPasswordConfig), word |-> word]
<1>1. row \in AccountRows /\ row.hash.word = word /\ row.word = word
    BY AccountsAssumption DEF AccountInvariant, AccountTypes, AccountRows, Hashes, Hashed, Formats
<1> HIDE DEF row
<1>2. accounts' = [accounts EXCEPT ![i] = row] /\ accountReplica' \in {accountReplica, accounts'}
    BY DEF ChangePassword, row
<1>3. /\ accounts \in Seq(AccountRows) /\ accounts' \in Seq(AccountRows) /\ Len(accounts') = Len(accounts)
      /\ \A k \in DOMAIN accounts : accounts'[k] = IF k = i THEN row ELSE accounts[k]
    BY <1>1, <1>2 DEF AccountInvariant, AccountTypes
<1>4. request' = Chosen(word) /\ UNCHANGED application /\ hashes' = hashes + 1
    BY DEF ChangePassword
<1>5. AccountTypes'
    BY <1>2, <1>3, <1>4, ChosenRequests DEF AccountInvariant, AccountTypes
<1>6. Tables' /\ \A other : other # word /\ Right(other)' => Right(other)
  <2>1. \A k \in DOMAIN accounts' : RowAfter(accounts, accounts', k, word)
    BY <1>1, <1>3 DEF RowAfter
  <2>2. Len(accounts') >= Len(accounts)
    BY <1>3
  <2> QED
    BY <1>2, <1>3, <2>1, <2>2, TablesAfter
<1>7. OneAccount'
    BY <1>3, <1>4 DEF AccountInvariant, OneAccount, Unique
<1>8. ASSUME NEW r \in Requests PROVE Told(r, word)
    BY <1>4, ChosenRequests DEF Told
<1>9. Len(accounts') >= Len(accounts)
    BY <1>3
<1> QED
    BY <1>5, <1>6, <1>7, <1>8, <1>9, RequestsKept

\* An account that is refused: nothing but the answer and the replica is new.
LEMMA InsertRefusedKeeps ==
    ASSUME AccountInvariant, NEW r \in Requests, request[r].at \in {"inserting", "rehashing"},
           request' = AnswerWith(r, "error"), accounts' = accounts, accountReplica' \in {accountReplica, accounts'},
           UNCHANGED application, hashes' = hashes + 1
    PROVE  AccountInvariant'
<1>0. PICK q : q = [request[r] EXCEPT !.at = "answered", !.outcome = "error"]
    OBVIOUS
<1>1. request' = [request EXCEPT ![r] = q] /\ request[r] \in AccountRequests
    BY <1>0 DEF AnswerWith, AccountInvariant, AccountTypes
<1>2. q.at = "answered" /\ q.word = request[r].word
    BY <1>0, <1>1 DEF AccountRequests
<1>3. q \in AccountRequests /\ Knows(q) /\ Reads(q) /\ Answers(q)
    BY <1>0, <1>2, Moves
<1>4. Len(accounts') >= Len(accounts) /\ accounts \in Seq(AccountRows)
    BY DEF AccountInvariant, AccountTypes
<1>5. \A k \in DOMAIN accounts' : RowAfter(accounts, accounts', k, 0)
    BY DEF RowAfter
<1>6. \A k \in DOMAIN accounts' : RowAfter(accounts, accounts', k, 1)
    BY DEF RowAfter
<1>7. Tables' /\ \A other : Right(other)' => Right(other)
  <2>1. Tables' /\ \A other : other # 0 /\ Right(other)' => Right(other)
    BY <1>4, <1>5, TablesAfter
  <2>2. \A other : other # 1 /\ Right(other)' => Right(other)
    BY <1>4, <1>6, TablesAfter
  <2>3. Right(0)' => Right(0)
    BY <2>2
  <2> QED
    BY <2>1, <2>3
<1>8. AccountTypes' /\ OneAccount'
    BY <1>1, <1>3 DEF AccountInvariant, AccountTypes, OneAccount, Unique
<1>9. ASSUME NEW p \in Requests
      PROVE  Told(p, 0) \/ (Knows(request[p]) /\ Reads(request[p]) /\ Answers(request[p]))'
  <2>1. CASE p = r
    <3>1. request'[p] = q
        BY <1>1, <2>1 DEF AccountInvariant, AccountTypes
    <3>2. Knows(q)'
        <4>1. PICK word : word = q.word
            OBVIOUS
        <4>2. Right(word)' => Right(word)
            BY <1>7
        <4> QED
            BY <1>3, <4>1, <4>2 DEF Knows
    <3>3. Reads(q)'
        BY <1>3, <1>4 DEF Reads
    <3> QED
        BY <1>3, <3>1, <3>2, <3>3 DEF Knows, Right, Reads, Answers
  <2>2. CASE p # r
    <3>1. request'[p] = request[p]
        BY <1>1, <2>2 DEF AccountInvariant, AccountTypes
    <3>2. Right(0)' => Right(0)
        BY <1>7
    <3> QED
        BY <3>1, <3>2 DEF Told
  <2> QED
    BY <2>1, <2>2
<1>10. \A other : other # 0 /\ Right(other)' => Right(other)
    BY <1>7
<1> QED
    BY <1>4, <1>7, <1>8, <1>9, <1>10, RequestsKept

LEMMA InsertAccountKeeps ==
    ASSUME AccountInvariant, NEW r \in Requests, InsertAccount(r)
    PROVE  AccountInvariant'
<1>1. /\ request[r] \in AccountRequests /\ request[r].at = "inserting"
      /\ Knows(request[r]) /\ Reads(request[r]) /\ Answers(request[r])
    BY DEF AccountInvariant, AccountTypes, InsertAccount
<1>2. accountReplica' \in {accountReplica, accounts'} /\ UNCHANGED application /\ hashes' = hashes + 1
    BY DEF InsertAccount
<1>3. CASE Unique /\ accounts # <<>>
    BY <1>1, <1>2, <1>3, InsertRefusedKeeps DEF InsertAccount
<1>4. CASE ~(Unique /\ accounts # <<>>)
  <2> DEFINE word == request[r].word
             row == [hash |-> Hashed(word, request[r].policy), word |-> word]
  <2>1. row \in AccountRows /\ row.hash.word = word /\ row.word = word
    BY <1>1 DEF AccountInvariant, AccountTypes, AccountRequests, AccountRows, Hashes, Hashed, Formats
  <2>2. /\ accounts' = Append(accounts, row)
        /\ request' = [Chosen(word) EXCEPT ![r].at = "answered", ![r].id = Len(accounts'),
                           ![r].outcome = IF application = "Enable" THEN "token" ELSE "created"]
    BY <1>4 DEF InsertAccount
  <2> HIDE DEF row, word
  <2>3. /\ accounts \in Seq(AccountRows) /\ accounts' \in Seq(AccountRows) /\ Len(accounts') = Len(accounts) + 1
        /\ Len(accounts) \in Nat /\ DOMAIN accounts' = 1 .. Len(accounts) + 1 /\ DOMAIN accounts = 1 .. Len(accounts)
        /\ \A k \in DOMAIN accounts : accounts'[k] = accounts[k]
        /\ accounts'[Len(accounts) + 1] = row
    BY <2>1, <2>2 DEF AccountInvariant, AccountTypes
  <2>4. /\ Chosen(word)[r] \in AccountRequests /\ Chosen(word) \in [Requests -> AccountRequests]
        /\ Chosen(word)[r].right /\ Chosen(word)[r].word = word
        /\ Chosen(word)[r].read = NoHash
    <3>1. Chosen(word)[r] \in {request[r], [request[r] EXCEPT !.right = TRUE]}
        BY ChosenRequests
    <3>2. Chosen(word)[r].read = request[r].read
        BY <1>1, <3>1 DEF AccountRequests
    <3> QED
        BY <1>1, <3>2, ChosenRequests DEF Reads, word
  <2>5. PICK n \in Int : n = Len(accounts')
    BY <2>3
  <2>6. PICK outcome \in {"token", "created"} :
            request' = [Chosen(word) EXCEPT ![r].at = "answered", ![r].id = n, ![r].outcome = outcome]
    BY <2>2, <2>5
  <2> DEFINE before == Chosen(word)
  <2>17. PICK q : q = [before[r] EXCEPT !.at = "answered", !.id = n, !.outcome = outcome]
    OBVIOUS
  <2>7. request' = [before EXCEPT ![r] = q]
    BY <2>4, <2>6, <2>17
  <2> HIDE DEF before
  <2>8. /\ q \in AccountRequests /\ q.right /\ q.read = NoHash /\ q.at = "answered" /\ q.outcome \in {"token", "created"}
    BY <2>4, <2>6, <2>17 DEF AccountRequests, AccountPlaces, AccountAnswers, before
  <2>9. AccountTypes'
    BY <1>2, <2>3, <2>4, <2>7, <2>8 DEF AccountInvariant, AccountTypes, before
  <2>10. \A k \in DOMAIN accounts' : RowAfter(accounts, accounts', k, word)
    <3> SUFFICES ASSUME NEW k \in DOMAIN accounts' PROVE RowAfter(accounts, accounts', k, word)
        OBVIOUS
    <3>1. CASE k = Len(accounts) + 1
        BY <2>1, <2>3, <3>1 DEF RowAfter
    <3>2. CASE k \in DOMAIN accounts
        BY <2>3, <3>2 DEF RowAfter
    <3> QED
        BY <2>3, <3>1, <3>2
  <2>11. Len(accounts') >= Len(accounts)
    BY <2>3
  <2>12. Tables' /\ \A other : other # word /\ Right(other)' => Right(other)
    <3>1. PICK w : w = word
        OBVIOUS
    <3>2. \A k \in DOMAIN accounts' : RowAfter(accounts, accounts', k, w)
        BY <2>10, <3>1
    <3>3. Tables' /\ \A other : other # w /\ Right(other)' => Right(other)
        BY <1>2, <2>3, <2>11, <3>2, TablesAfter
    <3> QED
        BY <3>1, <3>3
  <2>13. OneAccount'
    BY <1>2, <1>4, <2>3 DEF AccountInvariant, OneAccount, Unique
  <2>14. PICK w : w = word
    OBVIOUS
  <2>15. ASSUME NEW p \in Requests
         PROVE  Told(p, w) \/ (Knows(request[p]) /\ Reads(request[p]) /\ Answers(request[p]))'
    <3>1. CASE p = r
      <4>1. request'[p] = q
        BY <2>4, <2>7, <3>1 DEF before
      <4>2. Knows(q)' /\ Reads(q)' /\ Answers(q)
        BY <2>8 DEF Knows, Reads, Answers
      <4> QED
        BY <4>1, <4>2 DEF Knows, Right, Reads, Answers
    <3>2. CASE p # r
        <4>1. request'[p] = Chosen(word)[p]
            BY <2>4, <2>7, <3>2 DEF before
        <4>2. /\ Chosen(word)[p] \in {request[p], [request[p] EXCEPT !.right = TRUE]}
              /\ request[p].word = word => Chosen(word)[p].right
            BY ChosenRequests
        <4> QED
            BY <2>14, <4>1, <4>2 DEF Told
    <3> QED
        BY <3>1, <3>2
  <2>16. \A other : other # w /\ Right(other)' => Right(other)
    BY <2>12, <2>14
  <2> QED
    BY <2>9, <2>11, <2>12, <2>13, <2>15, <2>16, RequestsKept
<1> QED
    BY <1>3, <1>4

LEMMA ReplaceHashKeeps ==
    ASSUME AccountInvariant, NEW r \in Requests, ReplaceHash(r)
    PROVE  AccountInvariant'
<1>1. /\ request[r] \in AccountRequests /\ request[r].at = "rehashing"
      /\ Knows(request[r]) /\ Reads(request[r]) /\ Answers(request[r])
    BY DEF AccountInvariant, AccountTypes, ReplaceHash
<1>2. accountReplica' = accounts' /\ UNCHANGED application /\ hashes' = hashes + 1
    BY DEF ReplaceHash
<1>3. CASE ~Replaces(r)
  <2>1. accounts' = accounts /\ request' = AnswerWith(r, "error")
    BY <1>3 DEF ReplaceHash
  <2> QED
    BY <1>1, <1>2, <2>1, InsertRefusedKeeps
<1>4. CASE Replaces(r)
  <2> DEFINE hash == Hashed(request[r].word, request[r].policy)
             i == request[r].id
  <2>1. hash \in Hashes /\ hash.word = request[r].word
    BY <1>1 DEF AccountInvariant, AccountTypes, AccountRequests, Hashes, Hashed, Formats
  <2>2. accounts' = [accounts EXCEPT ![i].hash = hash]
    BY <1>4 DEF ReplaceHash
  <2>3. request' \in {Token(r, i), AnswerWith(r, "error")}
    BY <1>4 DEF ReplaceHash
  <2> HIDE DEF hash
  <2>18. accounts \in Seq(AccountRows) /\ Current(accounts)
    BY DEF AccountInvariant, AccountTypes, Tables
  <2>19. i \in DOMAIN accounts /\ i \in Int /\ request[r].read.word = request[r].word
    BY <1>1, <2>18 DEF AccountRequests, Reads
  <2>4. /\ accounts \in Seq(AccountRows) /\ i \in DOMAIN accounts /\ accounts[i] \in AccountRows
        /\ accounts[i].hash.word = accounts[i].word /\ accounts[i].hash.word = request[r].word /\ i \in Int
    <3>1. accounts[i] \in AccountRows /\ accounts[i].hash.word = accounts[i].word
        BY <2>18, <2>19 DEF Current
    <3>2. accounts[i].hash = request[r].read
        BY <1>4 DEF Replaces
    <3> QED
        BY <2>18, <2>19, <3>1, <3>2
  <2>5. PICK row \in AccountRows : row = [accounts[i] EXCEPT !.hash = hash]
    BY <2>1, <2>4 DEF AccountRows
  <2>6. row.hash = hash /\ row.word = accounts[i].word
    BY <2>4, <2>5 DEF AccountRows
  <2>7. accounts' = [accounts EXCEPT ![i] = row]
    BY <2>2, <2>5
  <2>8. /\ accounts' \in Seq(AccountRows) /\ Len(accounts') = Len(accounts) /\ Len(accounts) \in Int
        /\ DOMAIN accounts' = DOMAIN accounts
        /\ \A k \in DOMAIN accounts : accounts'[k] = IF k = i THEN row ELSE accounts[k]
    BY <2>4, <2>5, <2>7
  <2>9. \A word : \A k \in DOMAIN accounts' : RowAfter(accounts, accounts', k, word)
    BY <2>1, <2>4, <2>6, <2>8 DEF RowAfter
  <2>10. accountReplica' \in {accountReplica, accounts'} /\ Len(accounts') >= Len(accounts)
    BY <1>2, <2>8
  <2>11. Tables' /\ \A other : Right(other)' => Right(other)
    <3>1. \A k \in DOMAIN accounts' : RowAfter(accounts, accounts', k, 0)
        BY <2>9
    <3>2. \A k \in DOMAIN accounts' : RowAfter(accounts, accounts', k, 1)
        BY <2>9
    <3>3. Tables' /\ \A other : other # 0 /\ Right(other)' => Right(other)
        BY <2>8, <2>10, <3>1, TablesAfter
    <3>4. \A other : other # 1 /\ Right(other)' => Right(other)
        BY <2>8, <2>10, <3>2, TablesAfter
    <3>5. Right(0)' => Right(0)
        BY <3>4
    <3> QED
        BY <3>3, <3>5
  <2>12. PICK q \in {[request[r] EXCEPT !.at = "answered", !.outcome = "token", !.id = i],
                      [request[r] EXCEPT !.at = "answered", !.outcome = "error"]} : request' = [request EXCEPT ![r] = q]
    BY <2>3 DEF Token, AnswerWith
  <2>13. /\ q \in AccountRequests /\ q.at = "answered" /\ q.outcome \in {"token", "error"}
         /\ q.read = request[r].read /\ q.word = request[r].word /\ q.right = request[r].right
    BY <1>1, <2>4, <2>12 DEF AccountRequests, AccountPlaces, AccountAnswers
  <2>14. Knows(q) /\ Reads(q) /\ Answers(q)
    BY <1>1, <2>13 DEF Knows, Reads, Answers
  <2>15. AccountTypes'
    BY <1>2, <2>8, <2>12, <2>13 DEF AccountInvariant, AccountTypes
  <2>16. OneAccount'
    BY <1>2, <2>8 DEF AccountInvariant, OneAccount, Unique
  <2>17. ASSUME NEW p \in Requests
         PROVE  Told(p, 0) \/ (Knows(request[p]) /\ Reads(request[p]) /\ Answers(request[p]))'
    <3>1. CASE p = r
      <4>1. request'[p] = q
        BY <2>12, <3>1 DEF AccountInvariant, AccountTypes
      <4>2. Knows(q)'
        <5>1. PICK word : word = q.word
            OBVIOUS
        <5>2. Right(word)' => Right(word)
            BY <2>11
        <5> QED
            BY <2>14, <5>1, <5>2 DEF Knows
      <4>3. Reads(q)'
        BY <2>13, <2>14 DEF Reads
      <4> QED
        BY <2>14, <4>1, <4>2, <4>3 DEF Knows, Right, Reads, Answers
    <3>2. CASE p # r
      <4>1. request'[p] = request[p]
        BY <2>12, <3>2 DEF AccountInvariant, AccountTypes
      <4>2. Right(0)' => Right(0)
        BY <2>11
      <4> QED
        BY <4>1, <4>2 DEF Told
    <3> QED
        BY <3>1, <3>2
  <2>20. \A other : other # 0 /\ Right(other)' => Right(other)
    BY <2>11
  <2> QED
    BY <2>10, <2>11, <2>15, <2>16, <2>17, <2>20, RequestsKept
<1> QED
    BY <1>3, <1>4

LEMMA AccountsRest ==
    ASSUME AccountInvariant, UNCHANGED <<application, accounts, accountReplica, hashes, request>>
    PROVE  AccountInvariant'
BY DEF AccountInvariant, AccountTypes, Tables, Current, OneAccount, Unique, Knows, Right, Reads, Answers

LEMMA AccountsStep ==
    ASSUME AccountInvariant, [AccountsNext]_accountVars
    PROVE  AccountInvariant'
<1>1. CASE AccountTick \/ UNCHANGED accountVars
    BY <1>1, AccountsRest DEF AccountTick, accountVars
<1>2. CASE ReplicateAccounts
    BY <1>2, CopyingKeeps
<1>3. CASE \E word \in Words : \E i \in DOMAIN accounts : ChangePassword(i, word)
    BY <1>3, ChangePasswordKeeps
<1>4. CASE \E word \in Words : \E r \in Requests :
               AskRegistration(r, word) \/ \E rule \in Policies : AskLogin(r, word, rule)
  <2>1. PICK word \in Words, r \in Requests : AskRegistration(r, word) \/ \E rule \in Policies : AskLogin(r, word, rule)
    BY <1>4
  <2>2. CASE AskRegistration(r, word)
    <3>1. PICK place \in AskPlaces : Ask(r, place, word, DefaultPasswordConfig)
        BY <2>2 DEF AskRegistration, AskPlaces
    <3> QED
        BY <3>1, AccountsAssumption, AskKeeps
  <2>3. CASE \E rule \in Policies : AskLogin(r, word, rule)
    BY <2>3, AskKeeps DEF AskLogin, AskPlaces
  <2> QED
    BY <2>1, <2>2, <2>3
<1>5. CASE \E r \in Requests :
               \/ FindExisting(r) \/ InsertAccount(r) \/ LookUpAccount(r) \/ LookUpFails(r)
               \/ CheckPassword(r) \/ ReplaceHash(r) \/ StatementFails(r)
    BY <1>5, FindExistingKeeps, InsertAccountKeeps, LookUpAccountKeeps, LookUpFailsKeeps, CheckPasswordKeeps,
       ReplaceHashKeeps, StatementFailsKeeps
<1> QED
    BY <1>1, <1>2, <1>3, <1>4, <1>5 DEF AccountsNext

\* Whatever the configurations of the processes, the replica's delay and the order
\* of registrations, logins and changes of the password: a hash is of the password
\* its owner chose last, a token is given only for a password that was right, and
\* a unique column has one account at most (HashesCurrent, LoginsHonest, OneAccount).
THEOREM AccountsAreSound == AccountsSpec => []AccountsSound
<1>1. AccountInvariant => AccountsSound
    BY DEF AccountInvariant, Tables, Current, Reads, Answers, AccountsSound, HashesCurrent, LoginsHonest
<1> QED
    BY <1>1, InitAccounts, AccountsStep, PTL DEF AccountsSpec

-----------------------------------------------------------------------------
(* Pools: what a call holds while it goes on, and when it is over.         *)

PoolsSpec == PoolsInit /\ [][PoolsNext]_poolVars

CallKinds == {"none", "InTx", "Query", "QueryRow", "ParallelQuery"}
CallPlaces == {"idle", "waiting", "callback", "nested", "commit", "tasks", "over"}
CallOutcomes == {"none", "nil", "error", "panic"}

CallRecords ==
    [kind : CallKinds, at : CallPlaces, callback : Callbacks, result : [QueryTasks -> {"none", "ok", "error"}],
     outcome : CallOutcomes]

\* The connections in use, of which no pool has more than it may open.
HeldTyped ==
    /\ held \subseteq [call : Calls, use : {"tx", "rows", "nested"} \cup QueryTasks]
    /\ IsFiniteSet(held)
PoolsWithin == \A pool \in {"primary", "replica"} : Cardinality(Taken(pool)) <= config.open

\* What the callback of a call may be, and where a call of its kind gets.
Shape(q) ==
    /\ q.callback = "ignores" => q.kind = "QueryRow"
    /\ q.callback = "queries" => q.kind # "QueryRow"
    /\ q.at \in {"waiting", "callback", "nested"} => q.kind \in {"InTx", "Query", "QueryRow"}
    /\ q.at = "nested" => q.kind \in {"InTx", "Query"}
    /\ q.at = "commit" => q.kind = "InTx"
    /\ q.at = "tasks" => q.kind = "ParallelQuery"
    /\ q.at # "over" => q.outcome = "none"

\* What a transaction's call knows of the database.
Fate(c, q) ==
    /\ q.kind = "InTx" /\ q.outcome = "nil" => c \in committed
    /\ c \in committed => q.at = "over" /\ q.kind = "InTx" /\ (q.outcome = "nil" \/ (c \in lost /\ q.outcome = "error"))

\* Which calls hold a connection, and for what.
Holds(q, use) ==
    \/ use = "tx" /\ q.kind = "InTx" /\ (q.at \in {"callback", "nested", "commit"} \/ (q.at = "over" /\ q.callback = "panics"))
    \/ /\ use = "rows" /\ q.kind \in {"Query", "QueryRow"}
       /\ q.at \in {"callback", "nested"} \/ (q.at = "over" /\ q.kind = "QueryRow" /\ q.callback \in {"panics", "ignores"})
    \/ use = "nested" /\ q.at = "nested"
    \/ use \in QueryTasks /\ q.at = "tasks" /\ q.result[use] = "none"

HeldRightly == \A h \in held :
    /\ Holds(dbCall[h.call], h.use)
    /\ h.use \in {"tx", "rows"} => h.call \notin ended

PoolsInvariant ==
    /\ config \in Configs /\ dbCall \in [Calls -> CallRecords]
    /\ HeldTyped /\ PoolsWithin /\ HeldRightly
    /\ \A c \in Calls : Shape(dbCall[c]) /\ Fate(c, dbCall[c])

LEMMA IdleCallTyped == IdleCall \in CallRecords /\ Shape(IdleCall) /\ IdleCall.at = "idle" /\ IdleCall.outcome = "none"
BY DEF IdleCall, CallRecords, CallKinds, CallPlaces, CallOutcomes, Callbacks, Shape

LEMMA ConfigTyped == ASSUME config \in Configs PROVE config.open \in Nat
BY PoolsAssumption

LEMMA InitPools == PoolsInit => PoolsInvariant
<1> SUFFICES ASSUME PoolsInit PROVE PoolsInvariant
    OBVIOUS
<1>1. config.open \in Nat
    BY ConfigTyped DEF PoolsInit
<1>2. HeldTyped /\ HeldRightly
    BY FS_EmptySet DEF PoolsInit, HeldTyped, HeldRightly
<1>3. PoolsWithin
  <2>1. \A pool : Taken(pool) = {}
    BY DEF PoolsInit, Taken
  <2> QED
    BY <1>1, <2>1, FS_EmptySet DEF PoolsWithin
<1>4. \A c \in Calls : Shape(dbCall[c]) /\ Fate(c, dbCall[c])
    BY IdleCallTyped DEF PoolsInit, Fate
<1> QED
    BY <1>2, <1>3, <1>4, IdleCallTyped DEF PoolsInit, PoolsInvariant

\* Connections that are given back make no pool too large; nor does one that was free.
LEMMA GivenBack ==
    ASSUME PoolsInvariant, held' \subseteq held, UNCHANGED config
    PROVE  HeldTyped' /\ PoolsWithin'
<1>1. IsFiniteSet(held) /\ IsFiniteSet(held') /\ config.open \in Nat
    BY FS_Subset, ConfigTyped DEF PoolsInvariant, HeldTyped
<1>2. ASSUME NEW pool \in {"primary", "replica"} PROVE Cardinality(Taken(pool))' <= config.open
  <2>1. Taken(pool) \subseteq held /\ Taken(pool)' \subseteq Taken(pool)
    BY DEF Taken, PoolOf
  <2>2. PICK more, fewer : more = Taken(pool) /\ fewer = Taken(pool)'
    OBVIOUS
  <2>3. IsFiniteSet(more) /\ Cardinality(more) <= config.open /\ fewer \subseteq more
    BY <1>1, <2>1, <2>2, FS_Subset DEF PoolsInvariant, PoolsWithin
  <2>4. Cardinality(fewer) <= Cardinality(more) /\ Cardinality(fewer) \in Nat /\ Cardinality(more) \in Nat
    BY <2>3, FS_Subset, FS_CardinalityType
  <2> QED
    BY <1>1, <2>2, <2>3, <2>4
<1> QED
    BY <1>1, <1>2 DEF PoolsInvariant, HeldTyped, PoolsWithin

LEMMA TakenFree ==
    ASSUME PoolsInvariant, NEW c \in Calls, NEW use \in {"tx", "rows", "nested"} \cup QueryTasks, HasFree(use),
           held' = held \cup {Hold(c, use)}, UNCHANGED config
    PROVE  HeldTyped' /\ PoolsWithin'
<1>1. IsFiniteSet(held) /\ config.open \in Nat
    BY ConfigTyped DEF PoolsInvariant, HeldTyped
<1>2. IsFiniteSet(held')
    BY <1>1, FS_AddElement
<1>3. Hold(c, use) \in [call : Calls, use : {"tx", "rows", "nested"} \cup QueryTasks] /\ Hold(c, use).use = use
    BY DEF Hold
<1>4. ASSUME NEW pool \in {"primary", "replica"} PROVE Cardinality(Taken(pool))' <= config.open
  <2>1. PICK before, after : before = Taken(pool) /\ after = Taken(pool)'
    OBVIOUS
  <2>2. IsFiniteSet(before) /\ Cardinality(before) <= config.open /\ Cardinality(before) \in Nat
    BY <1>1, <2>1, FS_Subset, FS_CardinalityType DEF PoolsInvariant, PoolsWithin, Taken
  <2>3. CASE PoolOf(use) = pool
    <3>1. after = before \cup {Hold(c, use)}
        BY <1>3, <2>1, <2>3 DEF Taken, PoolOf
    <3>2. Cardinality(before) < config.open
        BY <2>1, <2>3 DEF HasFree
    <3>3. Cardinality(after) <= Cardinality(before) + 1 /\ Cardinality(after) \in Nat
      <4>1. PICK x : x = Hold(c, use)
        OBVIOUS
      <4>2. Cardinality(before \cup {x}) = IF x \in before THEN Cardinality(before) ELSE Cardinality(before) + 1
        BY <2>2, FS_AddElement
      <4> QED
        BY <2>2, <3>1, <4>1, <4>2
    <3> QED
        BY <1>1, <2>1, <2>2, <3>2, <3>3
  <2>4. CASE PoolOf(use) # pool
    <3>1. after = before
        BY <1>3, <2>1, <2>4 DEF Taken, PoolOf
    <3> QED
        BY <2>1, <2>2, <3>1
  <2> QED
    BY <2>3, <2>4
<1> QED
    BY <1>2, <1>3, <1>4 DEF PoolsInvariant, HeldTyped, PoolsWithin

\* A step that changes one call and the connections it holds.
LEMMA OneCall ==
    ASSUME PoolsInvariant, NEW c \in Calls, NEW q \in CallRecords, dbCall' = [dbCall EXCEPT ![c] = q],
           UNCHANGED <<config, ended>>, HeldTyped', PoolsWithin', Shape(q), Fate(c, q)',
           \A p \in Calls : p # c => (p \in committed' <=> p \in committed) /\ (p \in lost' <=> p \in lost),
           \A h \in held' : /\ h \in held \/ h.call = c
                            /\ h.call = c => Holds(q, h.use) /\ (h.use \in {"tx", "rows"} => c \notin ended)
    PROVE  PoolsInvariant'
<1>1. dbCall' \in [Calls -> CallRecords] /\ config' \in Configs
    BY DEF PoolsInvariant
<1>2. \A p \in Calls : dbCall'[p] = IF p = c THEN q ELSE dbCall[p]
    BY DEF PoolsInvariant
<1>3. ASSUME NEW p \in Calls PROVE Shape(dbCall[p])' /\ Fate(p, dbCall[p])'
  <2>1. CASE p = c
    BY <1>2, <2>1 DEF Shape, Fate
  <2>2. CASE p # c
    BY <1>2, <2>2 DEF PoolsInvariant, Shape, Fate
  <2> QED
    BY <2>1, <2>2
<1>4. ASSUME NEW h \in held' PROVE Holds(dbCall[h.call], h.use)' /\ (h.use \in {"tx", "rows"} => h.call \notin ended')
  <2>1. h.call \in Calls
    BY DEF HeldTyped
  <2>2. CASE h.call = c
    BY <1>2, <2>1, <2>2 DEF Holds
  <2>3. CASE h.call # c
    <3>1. Holds(dbCall[h.call], h.use) /\ (h.use \in {"tx", "rows"} => h.call \notin ended) /\ dbCall'[h.call] = dbCall[h.call]
        BY <1>2, <2>1, <2>3 DEF PoolsInvariant, HeldRightly
    <3> QED
        BY <3>1 DEF Holds
  <2> QED
    BY <2>2, <2>3
<1> QED
    BY <1>1, <1>3, <1>4 DEF PoolsInvariant, HeldRightly

\* What holds of a call and of each of its connections.
LEMMA CallKnown ==
    ASSUME PoolsInvariant, NEW c \in Calls
    PROVE  /\ dbCall[c] \in CallRecords /\ Shape(dbCall[c]) /\ Fate(c, dbCall[c])
           /\ \A h \in held : h.call = c => Holds(dbCall[c], h.use) /\ (h.use \in {"tx", "rows"} => c \notin ended)
BY DEF PoolsInvariant, HeldRightly

LEMMA StartCallKeeps ==
    ASSUME PoolsInvariant, NEW c \in Calls, NEW kind \in CallKinds \ {"none"}, NEW callback \in Callbacks,
           StartCall(c, kind, callback)
    PROVE  PoolsInvariant'
<1>1. PICK place \in {"tasks", "waiting"} :
          /\ dbCall' = [dbCall EXCEPT ![c] = [IdleCall EXCEPT !.kind = kind, !.callback = callback, !.at = place]]
          /\ place = "tasks" <=> kind = "ParallelQuery"
    BY DEF StartCall
<1>2. PICK q : q = [IdleCall EXCEPT !.kind = kind, !.callback = callback, !.at = place]
    OBVIOUS
<1>3. q \in CallRecords /\ q.kind = kind /\ q.callback = callback /\ q.at = place /\ q.outcome = "none"
    BY <1>2, IdleCallTyped DEF CallRecords, CallKinds, CallPlaces
<1>4. Shape(q)
    BY <1>1, <1>3 DEF Shape, StartCall, CallKinds
<1>5. dbCall[c].at = "idle" /\ Fate(c, dbCall[c]) /\ \A h \in held : h.call # c
    BY CallKnown, IdleCallTyped, PoolsAssumption DEF StartCall, Holds
<1>6. UNCHANGED <<config, held, committed, ended, lost>>
    BY DEF StartCall
<1>7. Fate(c, q)'
    BY <1>3, <1>5, <1>6 DEF Fate
<1>8. HeldTyped' /\ PoolsWithin'
    BY <1>6, GivenBack
<1> QED
    BY <1>1, <1>2, <1>3, <1>4, <1>5, <1>6, <1>7, <1>8, OneCall

\* A call that goes on with what it holds, or with less.
LEMMA CallGoesOn ==
    ASSUME PoolsInvariant, NEW c \in Calls, NEW q \in CallRecords, dbCall' = [dbCall EXCEPT ![c] = q],
           UNCHANGED <<config, committed, ended, lost>>, held' \subseteq held,
           Shape(q), dbCall[c].at # "over", q.kind = "InTx" => q.outcome # "nil",
           \A h \in held' : h.call = c => Holds(q, h.use)
    PROVE  PoolsInvariant'
<1>1. HeldTyped' /\ PoolsWithin'
    BY GivenBack
<1>2. Fate(c, q)'
    BY CallKnown DEF Fate
<1>3. \A h \in held' : h.call = c => (h.use \in {"tx", "rows"} => c \notin ended)
    BY CallKnown
<1> QED
    BY <1>1, <1>2, <1>3, OneCall

LEMMA UseKnown ==
    ASSUME PoolsInvariant, NEW c \in Calls, dbCall[c].at \in {"waiting", "callback", "nested"}
    PROVE  /\ UseOf(c) \in {"tx", "rows"}
           /\ dbCall[c].kind = "InTx" <=> UseOf(c) = "tx"
           /\ dbCall[c].kind \in {"Query", "QueryRow"} <=> UseOf(c) = "rows"
BY CallKnown DEF UseOf, Shape

LEMMA HoldFields ==
    ASSUME NEW c, NEW use
    PROVE  Hold(c, use).call = c /\ Hold(c, use).use = use
BY DEF Hold

LEMMA HoldWhole ==
    ASSUME PoolsInvariant, NEW h \in held
    PROVE  h = Hold(h.call, h.use) /\ h.call \in Calls
BY DEF PoolsInvariant, HeldTyped, Hold

\* The next place of a call.
LEMMA PlaceOf ==
    ASSUME PoolsInvariant, NEW c \in Calls, NEW place \in CallPlaces
    PROVE  LET q == [dbCall[c] EXCEPT !.at = place]
           IN  /\ q \in CallRecords /\ q.at = place /\ q.kind = dbCall[c].kind /\ q.callback = dbCall[c].callback
               /\ q.outcome = dbCall[c].outcome /\ q.result = dbCall[c].result
BY CallKnown DEF CallRecords

LEMMA ReturnOf ==
    ASSUME PoolsInvariant, NEW c \in Calls, NEW outcome \in CallOutcomes
    PROVE  LET q == [dbCall[c] EXCEPT !.at = "over", !.outcome = outcome]
           IN  /\ q \in CallRecords /\ q.at = "over" /\ q.kind = dbCall[c].kind /\ q.callback = dbCall[c].callback
               /\ q.outcome = outcome /\ q.result = dbCall[c].result
BY CallKnown DEF CallRecords, CallPlaces

LEMMA AcquireKeeps ==
    ASSUME PoolsInvariant, NEW c \in Calls, Acquire(c)
    PROVE  PoolsInvariant'
<1>1. PICK q : q = [dbCall[c] EXCEPT !.at = "callback"]
    OBVIOUS
<1>2. /\ q \in CallRecords /\ q.at = "callback" /\ q.kind = dbCall[c].kind /\ q.callback = dbCall[c].callback
      /\ q.outcome = dbCall[c].outcome
    BY <1>1, PlaceOf DEF CallPlaces
<1>3. dbCall[c].at = "waiting" /\ c \notin ended /\ UNCHANGED <<config, committed, ended, lost>>
    BY DEF Acquire, IsRefused
<1>4. dbCall' = [dbCall EXCEPT ![c] = q] /\ held' = held \cup {Hold(c, UseOf(c))}
    BY <1>1 DEF Acquire, CallTo
<1>5. Shape(q) /\ Fate(c, q)'
    BY <1>2, <1>3, CallKnown DEF Shape, Fate
<1>6. UseOf(c) \in {"tx", "rows"} /\ Holds(q, UseOf(c))
  <2>1. /\ UseOf(c) \in {"tx", "rows"}
        /\ dbCall[c].kind = "InTx" <=> UseOf(c) = "tx"
        /\ dbCall[c].kind \in {"Query", "QueryRow"} <=> UseOf(c) = "rows"
    BY <1>3, UseKnown
  <2> QED
    BY <1>2, <2>1 DEF Holds
<1>7. \A h \in held : h.call # c
    BY <1>3, CallKnown DEF Holds
<1>8. HeldTyped' /\ PoolsWithin'
    BY <1>4, <1>6, TakenFree DEF Acquire
<1>9. ASSUME NEW h \in held'
      PROVE  /\ h \in held \/ h.call = c
             /\ h.call = c => Holds(q, h.use) /\ (h.use \in {"tx", "rows"} => c \notin ended)
    BY <1>3, <1>4, <1>6, <1>7, HoldFields
<1> QED
    BY <1>2, <1>3, <1>4, <1>5, <1>8, <1>9, OneCall

LEMMA GiveUpWaitKeeps ==
    ASSUME PoolsInvariant, NEW c \in Calls, GiveUpWait(c)
    PROVE  PoolsInvariant'
<1>1. PICK q : q = [dbCall[c] EXCEPT !.at = "over", !.outcome = "error"]
    OBVIOUS
<1>2. q \in CallRecords /\ q.at = "over" /\ q.kind = dbCall[c].kind /\ q.callback = dbCall[c].callback /\ q.outcome = "error"
    BY <1>1, ReturnOf DEF CallOutcomes
<1>3. dbCall[c].at = "waiting" /\ UNCHANGED <<config, held, committed, ended, lost>> /\ dbCall' = [dbCall EXCEPT ![c] = q]
    BY <1>1 DEF GiveUpWait, Returns
<1>4. Shape(q) /\ \A h \in held : h.call # c
    BY <1>2, <1>3, CallKnown DEF Shape, Holds
<1> QED
    BY <1>2, <1>3, <1>4, CallGoesOn

LEMMA NestKeeps ==
    ASSUME PoolsInvariant, NEW c \in Calls, Nest(c)
    PROVE  PoolsInvariant'
<1>1. PICK q : q = [dbCall[c] EXCEPT !.at = "nested"]
    OBVIOUS
<1>2. /\ q \in CallRecords /\ q.at = "nested" /\ q.kind = dbCall[c].kind /\ q.callback = dbCall[c].callback
      /\ q.outcome = dbCall[c].outcome
    BY <1>1, PlaceOf DEF CallPlaces
<1>3. /\ dbCall[c].at = "callback" /\ dbCall[c].callback = "queries" /\ UNCHANGED <<config, committed, ended, lost>>
      /\ dbCall' = [dbCall EXCEPT ![c] = q] /\ held' = held \cup {Hold(c, "nested")}
    BY <1>1 DEF Nest, CallTo
<1>4. Shape(q) /\ Fate(c, q)'
    BY <1>2, <1>3, CallKnown DEF Shape, Fate
<1>5. HeldTyped' /\ PoolsWithin'
    BY <1>3, TakenFree DEF Nest
<1>6. ASSUME NEW h \in held'
      PROVE  /\ h \in held \/ h.call = c
             /\ h.call = c => Holds(q, h.use) /\ (h.use \in {"tx", "rows"} => c \notin ended)
  <2>1. CASE h \in held
    BY <1>2, <1>3, <2>1, CallKnown DEF Holds
  <2>2. CASE h = Hold(c, "nested")
    BY <1>2, <2>2, HoldFields DEF Holds
  <2> QED
    BY <1>3, <2>1, <2>2
<1> QED
    BY <1>2, <1>3, <1>4, <1>5, <1>6, OneCall

LEMMA NestedDoneKeeps ==
    ASSUME PoolsInvariant, NEW c \in Calls, NestedDone(c)
    PROVE  PoolsInvariant'
<1>1. PICK q : q = [dbCall[c] EXCEPT !.at = "callback", !.callback = "ok"]
    OBVIOUS
<1>2. /\ q \in CallRecords /\ q.at = "callback" /\ q.kind = dbCall[c].kind /\ q.callback = "ok"
      /\ q.outcome = dbCall[c].outcome
    BY <1>1, CallKnown DEF CallRecords, CallPlaces, Callbacks
<1>3. /\ dbCall[c].at = "nested" /\ UNCHANGED <<config, committed, ended, lost>>
      /\ dbCall' = [dbCall EXCEPT ![c] = q] /\ held' = held \ {Hold(c, "nested")}
    BY <1>1 DEF NestedDone
<1>4. Shape(q) /\ q.outcome = "none"
    BY <1>2, <1>3, CallKnown DEF Shape
<1>5. ASSUME NEW h \in held', h.call = c PROVE Holds(q, h.use)
  <2>1. h \in held /\ h.use # "nested" /\ Holds(dbCall[c], h.use)
    BY <1>3, <1>5, CallKnown, HoldWhole
  <2> QED
    BY <1>2, <1>3, <2>1 DEF Holds
<1> QED
    BY <1>2, <1>3, <1>4, <1>5, CallGoesOn

LEMMA NestedGivesUpKeeps ==
    ASSUME PoolsInvariant, NEW c \in Calls, NestedGivesUp(c)
    PROVE  PoolsInvariant'
<1>1. PICK q : q = [dbCall[c] EXCEPT !.callback = "fails"]
    OBVIOUS
<1>2. /\ q \in CallRecords /\ q.at = dbCall[c].at /\ q.kind = dbCall[c].kind /\ q.callback = "fails"
      /\ q.outcome = dbCall[c].outcome
    BY <1>1, CallKnown DEF CallRecords, Callbacks
<1>3. /\ dbCall[c].at = "callback" /\ UNCHANGED <<config, held, committed, ended, lost>>
      /\ dbCall' = [dbCall EXCEPT ![c] = q]
    BY <1>1 DEF NestedGivesUp
<1>4. Shape(q) /\ q.outcome = "none"
    BY <1>2, <1>3, CallKnown DEF Shape
<1>5. ASSUME NEW h \in held, h.call = c PROVE Holds(q, h.use)
  <2>1. Holds(dbCall[c], h.use)
    BY <1>5, CallKnown
  <2> QED
    BY <1>2, <1>3, <2>1 DEF Holds
<1> QED
    BY <1>2, <1>3, <1>4, <1>5, CallGoesOn

LEMMA CallbackReturnsKeeps ==
    ASSUME PoolsInvariant, NEW c \in Calls, CallbackReturns(c)
    PROVE  PoolsInvariant'
<1>1. /\ dbCall[c].at = "callback" /\ dbCall[c].callback # "queries" /\ UNCHANGED <<config, committed, ended, lost>>
      /\ held' = IF GivesBack(c) THEN held \ {Hold(c, UseOf(c))} ELSE held
    BY DEF CallbackReturns
<1>2. dbCall[c] \in CallRecords /\ Shape(dbCall[c]) /\ dbCall[c].kind \in {"InTx", "Query", "QueryRow"}
    BY <1>1, CallKnown DEF Shape
<1>3. ASSUME NEW h \in held, h.call = c PROVE h.use = UseOf(c) /\ h = Hold(c, UseOf(c))
    BY <1>1, <1>2, <1>3, CallKnown, HoldWhole DEF Holds, UseOf
<1>4. CASE dbCall[c].callback = "ok" /\ dbCall[c].kind = "InTx"
  <2>1. PICK q : q = [dbCall[c] EXCEPT !.at = "commit"]
    OBVIOUS
  <2>2. /\ q \in CallRecords /\ q.at = "commit" /\ q.kind = "InTx" /\ q.callback = "ok" /\ q.outcome = dbCall[c].outcome
    BY <1>4, <2>1, PlaceOf DEF CallPlaces
  <2>3. dbCall' = [dbCall EXCEPT ![c] = q]
    BY <1>4, <2>1 DEF CallbackReturns, CallTo
  <2>4. Shape(q) /\ q.outcome = "none" /\ held' \subseteq held
    BY <1>1, <1>2, <2>2 DEF Shape
  <2>5. \A h \in held' : h.call = c => Holds(q, h.use)
    <3>1. UseOf(c) = "tx"
        BY <1>4 DEF UseOf
    <3>2. Holds(q, "tx")
        BY <2>2 DEF Holds
    <3> QED
        BY <1>3, <2>4, <3>1, <3>2
  <2> QED
    BY <1>1, <2>2, <2>3, <2>4, <2>5, CallGoesOn
<1>5. CASE ~(dbCall[c].callback = "ok" /\ dbCall[c].kind = "InTx")
  <2>1. PICK outcome \in {"nil", "error", "panic"} :
            /\ dbCall' = [dbCall EXCEPT ![c].at = "over", ![c].outcome = outcome]
            /\ outcome = "nil" => dbCall[c].callback \in {"ok", "ignores"}
    BY <1>5 DEF CallbackReturns, Returns
  <2>2. PICK q : q = [dbCall[c] EXCEPT !.at = "over", !.outcome = outcome]
    OBVIOUS
  <2>3. q \in CallRecords /\ q.at = "over" /\ q.kind = dbCall[c].kind /\ q.callback = dbCall[c].callback /\ q.outcome = outcome
    <3>1. outcome \in CallOutcomes
        BY <2>1 DEF CallOutcomes
    <3> QED
        BY <2>2, <3>1, ReturnOf
  <2>4. dbCall' = [dbCall EXCEPT ![c] = q]
    BY <2>1, <2>2
  <2>5. Shape(q) /\ (q.kind = "InTx" => q.outcome # "nil")
    BY <1>2, <1>5, <2>1, <2>3 DEF Shape
  <2>6. ASSUME NEW h \in held', h.call = c PROVE Holds(q, h.use)
    <3>1. h \in held /\ h.use = UseOf(c) /\ ~GivesBack(c)
        BY <1>1, <1>3, <2>6
    <3>2. dbCall[c].callback \in Callbacks
        BY <1>2 DEF CallRecords
    <3>3. CASE dbCall[c].kind = "InTx"
      <4>1. dbCall[c].callback = "panics" /\ h.use = "tx"
        BY <1>1, <1>2, <1>5, <3>1, <3>2, <3>3 DEF UseOf, GivesBack, Callbacks, Shape
      <4> QED
        BY <2>3, <3>3, <4>1 DEF Holds
    <3>4. CASE dbCall[c].kind = "QueryRow"
      <4>1. dbCall[c].callback \in {"panics", "ignores"} /\ h.use = "rows"
        BY <1>1, <3>1, <3>2, <3>4 DEF UseOf, GivesBack, Callbacks
      <4> QED
        BY <2>3, <3>4, <4>1 DEF Holds
    <3>5. dbCall[c].kind # "Query"
        BY <3>1 DEF GivesBack
    <3> QED
        BY <1>2, <3>3, <3>4, <3>5
  <2>7. held' \subseteq held
    BY <1>1
  <2> QED
    BY <1>1, <2>3, <2>4, <2>5, <2>6, <2>7, CallGoesOn
<1> QED
    BY <1>4, <1>5

LEMMA CommitTxKeeps ==
    ASSUME PoolsInvariant, NEW c \in Calls, CommitTx(c)
    PROVE  PoolsInvariant'
<1>1. PICK outcome \in {"nil", "error"} :
          /\ dbCall' = [dbCall EXCEPT ![c].at = "over", ![c].outcome = outcome]
          /\ committed' \in {committed, committed \cup {c}} /\ lost' \in {lost, lost \cup {c}}
          /\ outcome = "nil" => c \in committed'
          /\ c \in committed' => outcome = "nil" \/ c \in lost' \/ c \in committed
    BY DEF CommitTx, Returns
<1>2. /\ dbCall[c].at = "commit" /\ held' = held \ {Hold(c, "tx")} /\ UNCHANGED <<config, ended>>
      /\ dbCall[c].kind = "InTx" /\ c \notin committed
    BY CallKnown DEF CommitTx, Shape, Fate
<1>3. PICK q : q = [dbCall[c] EXCEPT !.at = "over", !.outcome = outcome]
    OBVIOUS
<1>4. q \in CallRecords /\ q.at = "over" /\ q.kind = "InTx" /\ q.outcome = outcome /\ q.callback = dbCall[c].callback
  <2>1. outcome \in CallOutcomes
    BY DEF CallOutcomes
  <2>2. q \in CallRecords /\ q.at = "over" /\ q.kind = dbCall[c].kind /\ q.callback = dbCall[c].callback /\ q.outcome = outcome
    BY <1>3, <2>1, ReturnOf
  <2> QED
    BY <1>2, <2>2
<1>5. dbCall' = [dbCall EXCEPT ![c] = q]
    BY <1>1, <1>3
<1>6. Shape(q) /\ Fate(c, q)'
  <2>1. Shape(q)
    BY <1>2, <1>4, CallKnown DEF Shape
  <2>2. q.outcome = "nil" => c \in committed'
    BY <1>1, <1>4
  <2>3. c \in committed' => q.outcome = "nil" \/ (c \in lost' /\ q.outcome = "error")
    BY <1>1, <1>2, <1>4
  <2> QED
    BY <1>4, <2>1, <2>2, <2>3 DEF Fate
<1>7. \A h \in held' : h \in held /\ h.call # c
    BY <1>2, CallKnown, HoldWhole DEF Holds
<1>8. HeldTyped' /\ PoolsWithin'
    BY <1>2, GivenBack
<1>9. \A p \in Calls : p # c => (p \in committed' <=> p \in committed) /\ (p \in lost' <=> p \in lost)
    BY <1>1
<1> QED
    BY <1>2, <1>4, <1>5, <1>6, <1>7, <1>8, <1>9, OneCall

LEMMA TaskAcquiresKeeps ==
    ASSUME PoolsInvariant, NEW c \in Calls, NEW t \in QueryTasks, TaskAcquires(c, t)
    PROVE  PoolsInvariant'
<1>1. /\ dbCall[c].at = "tasks" /\ dbCall[c].result[t] = "none" /\ held' = held \cup {Hold(c, t)}
      /\ UNCHANGED <<config, dbCall, committed, ended, lost>>
    BY DEF TaskAcquires
<1>2. HeldTyped' /\ PoolsWithin'
    BY <1>1, TakenFree DEF TaskAcquires
<1>3. Holds(dbCall[c], t) /\ t \notin {"tx", "rows"}
    BY <1>1, PoolsAssumption DEF Holds
<1>4. HeldRightly'
  <2>1. ASSUME NEW h \in held' PROVE Holds(dbCall[h.call], h.use) /\ (h.use \in {"tx", "rows"} => h.call \notin ended)
    <3>1. CASE h \in held
        BY <3>1 DEF PoolsInvariant, HeldRightly
    <3>2. CASE h = Hold(c, t)
        BY <1>3, <3>2, HoldFields
    <3> QED
        BY <1>1, <3>1, <3>2
  <2> QED
    BY <1>1, <2>1 DEF HeldRightly, Holds
<1> QED
    BY <1>1, <1>2, <1>4 DEF PoolsInvariant, Shape, Fate

LEMMA TaskEndsKeeps ==
    ASSUME PoolsInvariant, NEW c \in Calls, NEW t \in QueryTasks, NEW result \in {"ok", "error"}, TaskEnds(c, t, result)
    PROVE  PoolsInvariant'
<1>1. dbCall[c].at = "tasks" /\ held' = held \ {Hold(c, t)} /\ UNCHANGED <<config, committed, ended, lost>>
    BY DEF TaskEnds
<1>2. PICK results : results = [dbCall[c].result EXCEPT ![t] = result]
    OBVIOUS
<1>3. PICK q : q = [dbCall[c] EXCEPT !.result = results]
    OBVIOUS
<1>4. dbCall[c] \in CallRecords /\ dbCall[c].result \in [QueryTasks -> {"none", "ok", "error"}]
    BY CallKnown DEF CallRecords
<1>5. results \in [QueryTasks -> {"none", "ok", "error"}] /\ \A u \in QueryTasks : u # t => results[u] = dbCall[c].result[u]
    BY <1>2, <1>4
<1>6. /\ q \in CallRecords /\ q.at = "tasks" /\ q.kind = dbCall[c].kind /\ q.callback = dbCall[c].callback
      /\ q.outcome = dbCall[c].outcome /\ q.result = results
    BY <1>1, <1>3, <1>4, <1>5 DEF CallRecords
<1>7. dbCall' = [dbCall EXCEPT ![c] = q]
    BY <1>2, <1>3 DEF TaskEnds
<1>8. Shape(q) /\ q.outcome = "none"
    BY <1>1, <1>6, CallKnown DEF Shape
<1>9. ASSUME NEW h \in held', h.call = c PROVE Holds(q, h.use)
  <2>1. h \in held /\ h.use # t /\ Holds(dbCall[c], h.use)
    BY <1>1, <1>9, CallKnown, HoldWhole
  <2> QED
    BY <1>1, <1>5, <1>6, <2>1 DEF Holds
<1> QED
    BY <1>1, <1>6, <1>7, <1>8, <1>9, CallGoesOn

LEMMA JoinKeeps ==
    ASSUME PoolsInvariant, NEW c \in Calls, Join(c)
    PROVE  PoolsInvariant'
<1>1. PICK outcome \in {"nil", "error"} : dbCall' = [dbCall EXCEPT ![c].at = "over", ![c].outcome = outcome]
    BY DEF Join, Returns
<1>2. PICK q : q = [dbCall[c] EXCEPT !.at = "over", !.outcome = outcome]
    OBVIOUS
<1>3. /\ q \in CallRecords /\ q.at = "over" /\ q.kind = dbCall[c].kind /\ q.callback = dbCall[c].callback
  <2>1. outcome \in CallOutcomes
    BY DEF CallOutcomes
  <2> QED
    BY <1>2, <2>1, ReturnOf
<1>4. /\ dbCall[c].at = "tasks" /\ UNCHANGED <<config, held, committed, ended, lost>>
      /\ \A t \in QueryTasks : dbCall[c].result[t] # "none"
    BY DEF Join
<1>5. Shape(q) /\ q.kind = "ParallelQuery"
    BY <1>3, <1>4, CallKnown DEF Shape
<1>6. \A h \in held : h.call # c
    BY <1>4, CallKnown DEF Holds
<1> QED
    BY <1>1, <1>2, <1>3, <1>4, <1>5, <1>6, CallGoesOn

LEMMA ContextEndsKeeps ==
    ASSUME PoolsInvariant, NEW c \in Calls, ContextEnds(c)
    PROVE  PoolsInvariant'
<1>1. /\ ended' = ended \cup {c} /\ UNCHANGED <<config, dbCall, committed, lost>>
      /\ held' = {h \in held : h.call # c \/ h.use \in QueryTasks \cup {"nested"}}
    BY DEF ContextEnds
<1>2. HeldTyped' /\ PoolsWithin'
    BY <1>1, GivenBack
<1>3. HeldRightly'
    BY <1>1, PoolsAssumption DEF PoolsInvariant, HeldRightly, Holds
<1> QED
    BY <1>1, <1>2, <1>3 DEF PoolsInvariant, Shape, Fate

LEMMA PoolsStep ==
    ASSUME PoolsInvariant, [PoolsNext]_poolVars
    PROVE  PoolsInvariant'
<1>1. CASE Close \/ UNCHANGED poolVars
  <2>1. UNCHANGED <<config, dbCall, held, committed, ended, lost>>
    BY <1>1 DEF Close, poolVars
  <2>2. HeldTyped' /\ PoolsWithin'
    BY <2>1, GivenBack
  <2> QED
    BY <2>1, <2>2 DEF PoolsInvariant, HeldRightly, Holds, Shape, Fate
<1>2. CASE \E c \in Calls, kind \in {"InTx", "Query", "QueryRow", "ParallelQuery"}, callback \in Callbacks : StartCall(c, kind, callback)
  <2>1. {"InTx", "Query", "QueryRow", "ParallelQuery"} = CallKinds \ {"none"}
    BY DEF CallKinds
  <2> QED
    BY <1>2, <2>1, StartCallKeeps
<1>3. CASE \E c \in Calls : CallMoves(c)
    BY <1>3, AcquireKeeps, GiveUpWaitKeeps, NestKeeps, NestedDoneKeeps, NestedGivesUpKeeps, CallbackReturnsKeeps,
       CommitTxKeeps, JoinKeeps, TaskAcquiresKeeps, TaskEndsKeeps DEF CallMoves
<1>4. CASE \E c \in Calls : ContextEnds(c)
    BY <1>4, ContextEndsKeeps
<1> QED
    BY <1>1, <1>2, <1>3, <1>4 DEF PoolsNext

LEMMA LeakedOnly == ASSUME PoolsInvariant PROVE NoLeak
<1> SUFFICES ASSUME NEW h \in held, dbCall[h.call].at = "over" PROVE Leaked(h.call)
    BY DEF NoLeak
<1>1. Holds(dbCall[h.call], h.use) /\ (h.use \in {"tx", "rows"} => h.call \notin ended)
    BY DEF PoolsInvariant, HeldRightly
<1> QED
    BY <1>1 DEF Holds, Leaked

LEMMA StarvedOnly == ASSUME PoolsInvariant PROVE StarvedOnlyByNesting
<1> SUFFICES ASSUME \A c \in Calls : dbCall[c].at \in {"idle", "over"} \/ Stuck(c), NEW c \in Calls, Stuck(c)
             PROVE  \E pool \in {"primary", "replica"} :
                        /\ Cardinality(Taken(pool)) = config.open
                        /\ \A h \in Taken(pool) : Leaked(h.call) \/ WaitsInside(h.call)
    BY DEF StarvedOnlyByNesting
<1>1. PICK use : ~HasFree(use)
    BY DEF Stuck, WaitsFor
<1>2. PICK pool \in {"primary", "replica"} : pool = PoolOf(use)
    BY DEF PoolOf
<1>3. Cardinality(Taken(pool)) = config.open
  <2>1. IsFiniteSet(Taken(pool))
    BY FS_Subset DEF PoolsInvariant, HeldTyped, Taken
  <2>2. Cardinality(Taken(pool)) \in Nat
    BY <2>1, FS_CardinalityType
  <2> QED
    BY <1>1, <1>2, <2>2, ConfigTyped DEF HasFree, PoolsInvariant, PoolsWithin
<1>4. ASSUME NEW h \in held PROVE Leaked(h.call) \/ WaitsInside(h.call)
  <2>1. h.call \in Calls /\ h = Hold(h.call, h.use) /\ Holds(dbCall[h.call], h.use)
    BY HoldWhole DEF PoolsInvariant, HeldRightly
  <2>2. CASE dbCall[h.call].at = "over"
    BY <2>2, LeakedOnly DEF NoLeak
  <2>3. CASE dbCall[h.call].at # "over"
    <3>1. Stuck(h.call)
        BY <2>1, <2>3 DEF Holds
    <3>2. dbCall[h.call].at # "waiting"
        BY <2>1 DEF Holds
    <3>3. dbCall[h.call].at # "tasks"
        BY <2>1, <3>1 DEF Holds, Stuck, WaitsInside
    <3> QED
        BY <3>1, <3>2, <3>3 DEF Stuck
  <2> QED
    BY <2>2, <2>3
<1> QED
    BY <1>3, <1>4 DEF Taken

\* Whatever calls, tasks and ends of contexts come: a transaction is committed as
\* its caller was told, a call that is over holds nothing but what a panic or an
\* unscanned row left behind, and only nested queries starve a pool
\* (CommittedAsTold, NoLeak, StarvedOnlyByNesting).
THEOREM PoolsKeepTheirWord == PoolsSpec => []PoolsHonest
<1>1. PoolsInvariant => PoolsHonest
    BY LeakedOnly, StarvedOnly DEF PoolsInvariant, Fate, PoolsHonest, CommittedAsTold
<1> QED
    BY <1>1, InitPools, PoolsStep, PTL DEF PoolsSpec

-----------------------------------------------------------------------------
(* Pagination: what a walk has visited, and what is still before it.       *)

PagesSpec == PagesInit /\ [][PagesNext]_pageVars

PageTypes ==
    /\ column \in [Rows -> Int] /\ table \subseteq Rows /\ stable \subseteq table
    /\ visited \in [Rows -> Nat] /\ pages \in Nat /\ walk \in {"more", "end"}
    /\ cursor = {} \/ \E r \in Rows : cursor = {column[r]}

Met(r) == visited[r] > 0 \/ \E other \in Rows \ {r} : visited[other] > 0 /\ column[other] = column[r]
Visited == {r \in Rows : visited[r] > 0}
Behind(r) == \E value \in cursor : column[r] <= value

\* A row that stayed is met, or it comes; and a walk that does not restart leaves
\* every row it visited behind it, Limit of them with each page.
Reaches == \A r \in stable : Met(r) \/ (walk = "more" /\ r \in Past)
LeavesBehind == ~Restarts =>
    /\ \A r \in Rows : visited[r] <= 1
    /\ walk = "more" => \A r \in Visited : Behind(r)
    /\ walk = "more" => Cardinality(Visited) = Limit * pages /\ (pages > 0 => Limit * pages < Cardinality(Rows))

PagesInvariant == PageTypes /\ Reaches /\ LeavesBehind

LEMMA InitPages == PagesInit => PagesInvariant
<1> SUFFICES ASSUME PagesInit PROVE PagesInvariant
    OBVIOUS
<1>1. PageTypes
    BY PaginationAssumption DEF PagesInit, PageTypes
<1>2. Past = table
    BY DEF PagesInit, Past
<1>3. Visited = {} /\ pages = 0 /\ Cardinality(Visited) = 0
    BY FS_EmptySet DEF PagesInit, Visited
<1>4. LeavesBehind
    BY <1>3, PaginationAssumption DEF PagesInit, LeavesBehind
<1>5. Reaches
    BY <1>2 DEF PagesInit, Reaches
<1> QED
    BY <1>1, <1>4, <1>5 DEF PagesInvariant

LEMMA ChangeKeeps ==
    ASSUME PagesInvariant, NEW r \in Rows, Change(r)
    PROVE  PagesInvariant'
<1>1. /\ table' = IF r \in table THEN table \ {r} ELSE table \cup {r}
      /\ stable' = stable \ {r} /\ walk = "more"
      /\ UNCHANGED <<column, tagged, cursor, visited, pages, walk>>
    BY DEF Change
<1>2. PageTypes'
    BY <1>1 DEF PagesInvariant, PageTypes
<1>3. Reaches'
    BY <1>1 DEF PagesInvariant, Reaches, Met, Past
<1>4. LeavesBehind'
    BY <1>1 DEF PagesInvariant, LeavesBehind, Restarts, Visited, Behind
<1> QED
    BY <1>2, <1>3, <1>4 DEF PagesInvariant

\* The page: its rows are the first of those past the cursor.
Page(items) ==
    /\ items \subseteq Past /\ FirstRows(items) /\ walk = "more"
    /\ visited' = [r \in Rows |-> visited[r] + (IF r \in items THEN 1 ELSE 0)]
    /\ cursor' = NextCursor(items)
    /\ pages' = pages + 1
    /\ walk' = IF Cardinality(Past) > Limit THEN "more" ELSE "end"
    /\ UNCHANGED <<column, tagged, table, stable, changes>>

LEMMA PastRows ==
    ASSUME PagesInvariant
    PROVE  /\ Past \subseteq table /\ Past \subseteq Rows /\ IsFiniteSet(Past) /\ Cardinality(Past) \in Nat
           /\ Cardinality(Past) <= Cardinality(Rows) /\ Cardinality(Rows) \in Nat
<1>1. Past \subseteq table /\ Past \subseteq Rows
    BY DEF Past, PagesInvariant, PageTypes
<1> QED
    BY <1>1, FS_Subset, FS_CardinalityType, PaginationAssumption

LEMMA PageRows ==
    ASSUME PagesInvariant, NEW items, Page(items)
    PROVE  /\ IsFiniteSet(items) /\ items \subseteq Rows
           /\ walk' = "more" => Cardinality(items) = Limit /\ Cardinality(Past) > Limit /\ items # {}
           /\ walk' = "end" => items = Past
           /\ walk' \in {"more", "end"}
<1>1. items \subseteq Past /\ Cardinality(items) = Min({Limit, Cardinality(Past)})
    BY DEF Page, FirstRows
<1>2. /\ IsFiniteSet(Past) /\ Past \subseteq Rows /\ Cardinality(Past) \in Nat /\ Limit \in Nat /\ Limit > 0
    BY PastRows, PaginationAssumption
<1>3. Cardinality(items) = IF Limit <= Cardinality(Past) THEN Limit ELSE Cardinality(Past)
    BY <1>1, <1>2, MinOfTwo
<1>4. IsFiniteSet(items) /\ (Cardinality(Past) = Cardinality(items) => Past = items)
    BY <1>1, <1>2, FS_Subset
<1>5. walk' = IF Cardinality(Past) > Limit THEN "more" ELSE "end"
    BY DEF Page
<1>6. items = {} => Cardinality(items) = 0
    BY FS_EmptySet
<1> QED
    BY <1>1, <1>2, <1>3, <1>4, <1>5, <1>6

\* The cursor it gives.
LEMMA PageCursor ==
    ASSUME PagesInvariant, NEW items, Page(items)
    PROVE  \/ cursor' = {} /\ (tagged => items = {})
           \/ \E last \in items : cursor' = {column[last]} /\ \A r \in items : column[r] <= column[last]
<1>1. IsFiniteSet(items) /\ items \subseteq Rows /\ column \in [Rows -> Int] /\ cursor' = NextCursor(items)
    BY PageRows DEF PagesInvariant, PageTypes, Page
<1>2. CASE tagged /\ items # {}
  <2>1. HasHighest(column, items)
    BY <1>1, <1>2, Highest
  <2>2. PICK last \in items : \A r \in items : column[r] <= column[last]
    BY <2>1 DEF HasHighest
  <2>3. Max({column[r] : r \in items}) = column[last]
    <3> DEFINE S == {column[r] : r \in items}
    <3>1. S \in SUBSET Int /\ column[last] \in S /\ \A y \in S : y <= column[last]
        BY <1>1, <2>2
    <3> QED
        BY <3>1, MaxIs
  <2> QED
    BY <1>1, <1>2, <2>2, <2>3 DEF NextCursor
<1>3. CASE ~(tagged /\ items # {})
    BY <1>1, <1>3 DEF NextCursor
<1> QED
    BY <1>2, <1>3

LEMMA PageReaches ==
    ASSUME PagesInvariant, NEW items, Page(items)
    PROVE  Reaches'
<1>1. /\ column \in [Rows -> Int] /\ visited \in [Rows -> Nat] /\ stable \subseteq table /\ table \subseteq Rows
      /\ UNCHANGED <<column, tagged, table, stable>>
      /\ visited' = [r \in Rows |-> visited[r] + (IF r \in items THEN 1 ELSE 0)]
    BY DEF PagesInvariant, PageTypes, Page
<1>2. items \subseteq Past /\ \A r \in items, other \in Past \ items : column[r] <= column[other]
    BY DEF Page, FirstRows
<1>3. \A r \in Rows : (visited[r] > 0 => visited'[r] > 0) /\ (r \in items => visited'[r] > 0)
    BY <1>1
<1>4. ASSUME NEW r \in stable PROVE Met(r)' \/ (walk' = "more" /\ r \in Past')
  <2>1. r \in Rows /\ r \in table
    BY <1>1
  <2>2. CASE Met(r)
    BY <1>1, <1>3, <2>1, <2>2 DEF Met
  <2>3. CASE r \in items
    BY <1>3, <2>1, <2>3 DEF Met
  <2>4. CASE r \in Past \ items
    <3>1. walk' = "more"
        BY <2>4, PageRows
    <3>2. CASE cursor' = {}
        BY <1>1, <2>1, <3>1, <3>2 DEF Past
    <3>3. CASE \E last \in items : cursor' = {column[last]} /\ \A x \in items : column[x] <= column[last]
      <4>1. PICK last \in items : cursor' = {column[last]}
        BY <3>3
      <4>2. last \in Rows /\ column[last] <= column[r] /\ column[last] \in Int /\ column[r] \in Int /\ last # r
        BY <1>1, <1>2, <2>1, <2>4, <4>1, PageRows
      <4>3. CASE column[last] = column[r]
        BY <1>1, <1>3, <4>1, <4>2, <4>3 DEF Met
      <4>4. CASE column[last] < column[r]
        BY <1>1, <2>1, <3>1, <4>1, <4>2, <4>4 DEF Past
      <4> QED
        BY <4>2, <4>3, <4>4
    <3> QED
        BY <3>2, <3>3, PageCursor
  <2> QED
    BY <2>2, <2>3, <2>4 DEF PagesInvariant, Reaches
<1> QED
    BY <1>1, <1>4 DEF Reaches

LEMMA PageLeavesBehind ==
    ASSUME PagesInvariant, NEW items, Page(items)
    PROVE  LeavesBehind'
<1> SUFFICES ASSUME ~Restarts
             PROVE  /\ \A r \in Rows : visited'[r] <= 1
                    /\ walk' = "more" => \A r \in Visited' : Behind(r)'
                    /\ walk' = "more" => Cardinality(Visited)' = Limit * pages' /\ (pages' > 0 => Limit * pages' < Cardinality(Rows))
  <2>1. Restarts' <=> Restarts
    BY DEF Page, Restarts
  <2> QED
    BY <2>1 DEF LeavesBehind
<1>1. /\ column \in [Rows -> Int] /\ visited \in [Rows -> Nat] /\ pages \in Nat /\ walk = "more"
      /\ UNCHANGED <<column, tagged, table, stable>> /\ pages' = pages + 1
      /\ visited' = [r \in Rows |-> visited[r] + (IF r \in items THEN 1 ELSE 0)]
      /\ items \subseteq Past /\ items \subseteq Rows /\ IsFiniteSet(items)
      /\ cursor = {} \/ \E r \in Rows : cursor = {column[r]}
    BY PageRows DEF PagesInvariant, PageTypes, Page
<1>2. tagged /\ \A r \in Rows : column[r] # 0
    BY DEF Restarts
<1>3. /\ \A r \in Rows : visited[r] <= 1
      /\ \A r \in Visited : Behind(r)
      /\ Cardinality(Visited) = Limit * pages
    BY <1>1 DEF PagesInvariant, LeavesBehind
<1>4. ASSUME NEW r \in Past PROVE ~Behind(r)
  <2>1. r \in Rows /\ \A value \in cursor \ {0} : column[r] > value
    BY PastRows DEF Past
  <2> QED
    BY <1>1, <1>2, <2>1 DEF Behind
<1>5. Visited \cap Past = {}
    BY <1>3, <1>4
<1>6. \A r \in Rows : r \in items => visited[r] = 0
    BY <1>1, <1>5 DEF Visited
<1>7. \A r \in Rows : visited'[r] <= 1
    BY <1>1, <1>3, <1>6
<1>8. Visited' = Visited \cup items
    BY <1>1 DEF Visited
<1>9. ASSUME walk' = "more" PROVE \A r \in Visited' : Behind(r)'
  <2>1. items # {}
    BY <1>9, PageRows
  <2>2. PICK last \in items : cursor' = {column[last]} /\ \A r \in items : column[r] <= column[last]
    BY <1>2, <2>1, PageCursor
  <2>3. ASSUME NEW r \in Visited' PROVE column[r] <= column[last]
    <3>1. CASE r \in items
        BY <2>2, <3>1
    <3>2. CASE r \in Visited
      <4>1. PICK value \in cursor : column[r] <= value
        BY <1>3, <3>2 DEF Behind
      <4>2. value # 0 /\ value \in Int
        BY <1>1, <1>2, <4>1
      <4>3. column[last] > value
        BY <1>1, <2>2, <4>1, <4>2 DEF Past
      <4> QED
        BY <1>1, <3>2, <4>1, <4>2, <4>3 DEF Visited
    <3> QED
        BY <1>8, <3>1, <3>2
  <2> QED
    BY <1>1, <2>2, <2>3 DEF Behind
<1>10. ASSUME walk' = "more"
       PROVE  Cardinality(Visited)' = Limit * pages' /\ Limit * pages' < Cardinality(Rows)
  <2>1. Cardinality(items) = Limit /\ Cardinality(Past) > Limit /\ Limit \in Nat
    BY <1>10, PageRows, PaginationAssumption
  <2>2. PICK old : old = Visited
    OBVIOUS
  <2>3. PICK past : past = Past
    OBVIOUS
  <2>4. old \subseteq Rows /\ IsFiniteSet(old) /\ Cardinality(old) = Limit * pages /\ Cardinality(old) \in Nat
    BY <1>3, <2>2, FS_Subset, FS_CardinalityType, PaginationAssumption DEF Visited
  <2>5. /\ past \subseteq Rows /\ IsFiniteSet(past) /\ Cardinality(past) \in Nat /\ items \subseteq past /\ old \cap past = {}
        /\ Cardinality(past) > Limit /\ Cardinality(Rows) \in Nat
    BY <1>1, <1>5, <2>1, <2>2, <2>3, PastRows
  <2>6. Limit * pages' = Limit * pages + Limit
    BY <1>1, <2>1
  <2>7. Cardinality(old \cup items) = Cardinality(old) + Limit
    <3>1. old \cap items = {}
        BY <2>5
    <3> QED
        BY <1>1, <2>1, <2>4, <3>1, DisjointUnion
  <2>8. Cardinality(old \cup past) = Cardinality(old) + Cardinality(past)
    BY <2>4, <2>5, DisjointUnion
  <2>9. Cardinality(old \cup past) <= Cardinality(Rows)
    BY <2>4, <2>5, FS_Subset, PaginationAssumption
  <2>10. Cardinality(Visited)' = Cardinality(old \cup items)
    BY <1>8, <2>2
  <2> QED
    BY <2>1, <2>4, <2>5, <2>6, <2>7, <2>8, <2>9, <2>10
<1> QED
    BY <1>7, <1>9, <1>10

LEMMA NextPageKeeps ==
    ASSUME PagesInvariant, NextPage
    PROVE  PagesInvariant'
<1>1. PICK items : Page(items)
    BY DEF NextPage, Page
<1>2. PageTypes'
  <2>1. cursor' = {} \/ \E r \in Rows : cursor' = {column'[r]}
    BY <1>1, PageCursor, PageRows DEF Page
  <2>2. visited' \in [Rows -> Nat] /\ walk' \in {"more", "end"} /\ pages' \in Nat
    BY <1>1 DEF Page, PagesInvariant, PageTypes
  <2> QED
    BY <1>1, <2>1, <2>2 DEF Page, PagesInvariant, PageTypes
<1> QED
    BY <1>1, <1>2, PageReaches, PageLeavesBehind DEF PagesInvariant

LEMMA PagesHold ==
    ASSUME PagesInvariant
    PROVE  PagesExact
<1>1. walk = "end" =>
          \A r \in stable : visited[r] = 0 => \E other \in Rows \ {r} : visited[other] > 0 /\ column[other] = column[r]
    BY DEF PagesInvariant, Reaches, Met
<1>2. ASSUME ~Restarts PROVE \A r \in stable : visited[r] <= 1
    BY <1>2 DEF PagesInvariant, PageTypes, LeavesBehind
<1>3. ASSUME ~Restarts, pages = MaxPages, walk # "end"
      PROVE  Limit * MaxPages < Cardinality(Rows)
    BY <1>3, PaginationAssumption DEF PagesInvariant, PageTypes, LeavesBehind
<1> QED
    BY <1>1, <1>2, <1>3 DEF PagesExact

\* Whatever rows come and go: a walk that ended has visited every row that stayed,
\* or one of the same value; without a restart it visits none twice and needs no
\* more pages than the rows fill (PagesExact).
THEOREM PagesAreExact == PagesSpec => []PagesExact
<1>1. ASSUME PagesInvariant, [PagesNext]_pageVars PROVE PagesInvariant'
  <2>1. CASE UNCHANGED pageVars
    BY <1>1, <2>1 DEF pageVars, PagesInvariant, PageTypes, Reaches, LeavesBehind, Met, Past, Visited, Behind, Restarts
  <2> QED
    BY <1>1, <2>1, NextPageKeeps, ChangeKeeps DEF PagesNext
<1> QED
    BY <1>1, InitPages, PagesHold, PTL DEF PagesSpec

-----------------------------------------------------------------------------
(* Ephemeral: the tables of sessions.                                      *)

EphemeralSpec == EphemeralInit /\ [][EphemeralNext]_ephemeralVars

EphemeralTypes ==
    /\ materializing \in [EphemeralSessions ->
           {"new", "populate", "register", "open", "cleanup", "forget", "closed", "failed"}]
    /\ page \in [EphemeralSessions -> {"none", "not found", "query", "rows", "empty", "error"}]
    /\ primaryHad \in [EphemeralSessions -> {"none", "table", "rows"}]
    /\ sessions \subseteq EphemeralSessions /\ IsFiniteSet(sessions)
    /\ tables \subseteq EphemeralSessions

\* What a session's place says of its rows, of its time and of its table.
Filled(s) == materializing[s] \in {"register", "open"} => s \in filled
InTime(s) == s \in sessions =>
    materializing[s] = "open" \/ (materializing[s] \in {"cleanup", "forget"} /\ s \in outOfTime)
Owned(s) == s \in tables => materializing[s] \in {"populate", "register", "open", "cleanup"} \/ s \in orphans

\* A query that found its session meets all of its rows at the primary, or comes late.
Meets(s) ==
    /\ page[s] = "query" => s \in outOfTime \/ (s \in filled /\ materializing[s] = "open")
    /\ page[s] \in {"empty", "error"} => s \in outOfTime \/ primaryHad[s] = "rows"

SessionsFit == Cardinality(sessions) <= MaxEphemeral

EphemeralInvariant ==
    /\ EphemeralTypes /\ SessionsFit
    /\ \A s \in EphemeralSessions : Filled(s) /\ InTime(s) /\ Owned(s) /\ Meets(s)

LEMMA InitEphemeral == EphemeralInit => EphemeralInvariant
<1> SUFFICES ASSUME EphemeralInit PROVE EphemeralInvariant
    OBVIOUS
<1>1. IsFiniteSet(sessions) /\ Cardinality(sessions) = 0
    BY FS_EmptySet DEF EphemeralInit
<1> QED
    BY <1>1, EphemeralAssumption
    DEF EphemeralInit, EphemeralInvariant, EphemeralTypes, SessionsFit, Filled, InTime, Owned, Meets

\* Calls and their cleanups, and pages, leave what is said of the others.
LEMMA EphemeralStep ==
    ASSUME EphemeralInvariant, [EphemeralNext]_ephemeralVars
    PROVE  EphemeralInvariant'
<1>1. ASSUME NEW s \in EphemeralSessions, Create(s) PROVE EphemeralInvariant'
  <2>1. CASE tables' = tables \cup {s} /\ SessionTo(s, "populate")
    BY <1>1, <2>1 DEF Create, SessionTo, pageOfVars, EphemeralInvariant, EphemeralTypes, SessionsFit, Filled, InTime, Owned, Meets
  <2>2. CASE tables' = tables /\ SessionTo(s, "failed")
    BY <1>1, <2>2 DEF Create, SessionTo, pageOfVars, EphemeralInvariant, EphemeralTypes, SessionsFit, Filled, InTime, Owned, Meets
  <2> QED
    BY <1>1, <2>1, <2>2 DEF Create
<1>13. ASSUME NEW s \in EphemeralSessions, CreateFails(s) PROVE EphemeralInvariant'
  <2>1. CASE UNCHANGED <<tables, orphans>>
    BY <1>13, <2>1 DEF CreateFails, SessionTo, pageOfVars, EphemeralInvariant, EphemeralTypes, SessionsFit, Filled, InTime, Owned, Meets
  <2>2. CASE tables' = tables \cup {s} /\ orphans' = orphans \cup {s}
    BY <1>13, <2>2 DEF CreateFails, SessionTo, pageOfVars, EphemeralInvariant, EphemeralTypes, SessionsFit, Filled, InTime, Owned, Meets
  <2> QED
    BY <1>13, <2>1, <2>2 DEF CreateFails
<1>2. ASSUME NEW s \in EphemeralSessions, Populate(s) PROVE EphemeralInvariant'
    BY <1>2
    DEF Populate, pageOfVars, SessionTo, EphemeralInvariant, EphemeralTypes, SessionsFit, Filled, InTime, Owned, Meets
<1>3. ASSUME NEW s \in EphemeralSessions, PopulateFails(s) PROVE EphemeralInvariant'
    BY <1>3
    DEF PopulateFails, pageOfVars, SessionTo, EphemeralInvariant, EphemeralTypes, SessionsFit, Filled, InTime, Owned, Meets
<1>4. ASSUME NEW s \in EphemeralSessions, RegisterSession(s) PROVE EphemeralInvariant'
  <2>1. IsFiniteSet(sessions \cup {s})
        /\ (Cardinality(sessions) < MaxEphemeral => Cardinality(sessions \cup {s}) <= MaxEphemeral)
    <3>1. IsFiniteSet(sessions \cup {s})
          /\ Cardinality(sessions \cup {s}) \in {Cardinality(sessions), Cardinality(sessions) + 1}
        BY FS_AddElement DEF EphemeralInvariant, EphemeralTypes
    <3>2. Cardinality(sessions) \in Nat
        BY FS_CardinalityType DEF EphemeralInvariant, EphemeralTypes
    <3> QED
        BY <3>1, <3>2, EphemeralAssumption
  <2>2. CASE sessions' = sessions \cup {s} /\ SessionTo(s, "open") /\ HasCapacity
    BY <1>4, <2>1, <2>2
    DEF RegisterSession, pageOfVars, HasCapacity, SessionTo, EphemeralInvariant, EphemeralTypes, SessionsFit, Filled, InTime, Owned, Meets
  <2>3. CASE sessions' = sessions /\ SessionTo(s, "cleanup")
    <3>1. page[s] = "query" => s \in outOfTime
      BY <1>4 DEF RegisterSession, EphemeralInvariant, Meets
    <3>2. s \notin sessions
      BY <1>4 DEF RegisterSession, EphemeralInvariant, InTime
    <3> QED
      BY <1>4, <2>3, <3>1, <3>2
      DEF RegisterSession, pageOfVars, SessionTo, EphemeralInvariant, EphemeralTypes, SessionsFit, Filled, InTime, Owned, Meets
  <2> QED
    BY <1>4, <2>2, <2>3 DEF RegisterSession, Adds
<1>5. ASSUME NEW s \in EphemeralSessions, ExpireSession(s) PROVE EphemeralInvariant'
    BY <1>5
    DEF ExpireSession, pageOfVars, SessionTo, EphemeralInvariant, EphemeralTypes, SessionsFit, Filled, InTime, Owned, Meets
<1>6. ASSUME NEW s \in EphemeralSessions, Drop(s) PROVE EphemeralInvariant'
    BY <1>6
    DEF Drop, pageOfVars, SessionTo, EphemeralInvariant, EphemeralTypes, SessionsFit, Filled, InTime, Owned, Meets
<1>7. ASSUME NEW s \in EphemeralSessions, Forget(s) PROVE EphemeralInvariant'
  <2>1. IsFiniteSet(sessions \ {s}) /\ Cardinality(sessions \ {s}) <= Cardinality(sessions)
        /\ Cardinality(sessions \ {s}) \in Nat /\ Cardinality(sessions) \in Nat
    BY FS_Subset, FS_CardinalityType DEF EphemeralInvariant, EphemeralTypes
  <2>2. Cardinality(sessions \ {s}) <= MaxEphemeral
    BY <2>1, EphemeralAssumption DEF EphemeralInvariant, SessionsFit
  <2> QED
    BY <1>7, <2>1, <2>2
    DEF Forget, pageOfVars, SessionTo, EphemeralInvariant, EphemeralTypes, SessionsFit, Filled, InTime, Owned, Meets
<1>8. ASSUME NEW s \in EphemeralSessions, LookUpSession(s) PROVE EphemeralInvariant'
    BY <1>8
    DEF LookUpSession, EphemeralInvariant, EphemeralTypes, SessionsFit, Filled, InTime, Owned, Meets
<1>9. ASSUME NEW s \in EphemeralSessions, QueryPage(s) PROVE EphemeralInvariant'
    BY <1>9
    DEF QueryPage, Kept, EphemeralInvariant, EphemeralTypes, SessionsFit, Filled, InTime, Owned, Meets
<1>12. ASSUME NEW s \in EphemeralSessions, Replicated(s) PROVE EphemeralInvariant'
    BY <1>12
    DEF Replicated, pageOfVars, EphemeralInvariant, EphemeralTypes, SessionsFit, Filled, InTime, Owned, Meets
<1>10. CASE Die
  <2>1. IsFiniteSet(sessions') /\ Cardinality(sessions') = 0
    BY <1>10, FS_EmptySet DEF Die
  <2>2. SessionsFit'
    BY <2>1, EphemeralAssumption DEF SessionsFit
  <2>3. EphemeralTypes'
    BY <1>10, <2>1 DEF Die, EphemeralInvariant, EphemeralTypes
  <2>4. ASSUME NEW s \in EphemeralSessions PROVE (Filled(s) /\ InTime(s) /\ Owned(s) /\ Meets(s))'
    BY <1>10 DEF Die, EphemeralInvariant, EphemeralTypes, Filled, InTime, Owned, Meets
  <2> QED
    BY <2>2, <2>3, <2>4 DEF EphemeralInvariant
<1>11. CASE UNCHANGED ephemeralVars
    BY <1>11
    DEF ephemeralVars, pageOfVars, EphemeralInvariant, EphemeralTypes, SessionsFit, Filled, InTime, Owned, Meets
<1> QED
    BY <1>1, <1>13, <1>2, <1>3, <1>4, <1>5, <1>6, <1>7, <1>8, <1>9, <1>12, <1>10, <1>11 DEF EphemeralNext

\* For any sessions and any bound on them, the sessions keep their bound and those
\* in time have all their rows at the primary; a page that was looked up in time
\* and has no rows met a replica that lagged, or a session that ran out before the
\* query; and a table outlives its session only after a CREATE that took effect
\* and failed, a drop that failed, or a process that died (dbcore/ephemeral.go).
THEOREM EphemeralTablesOwned == EphemeralSpec => []EphemeralTables
<1>1. EphemeralInvariant => EphemeralTables
    BY DEF EphemeralInvariant, EphemeralTypes, SessionsFit, Filled, InTime, Owned, Meets, EphemeralTables
<1> QED
    BY <1>1, InitEphemeral, EphemeralStep, PTL DEF EphemeralSpec

-----------------------------------------------------------------------------
(* Generators: what a command has found, and what it may publish.          *)

GeneratorsSpec == GeneratorsInit /\ [][GeneratorsNext]_generatorVars

Trees == [by : Commands \cup {Nothing}, version : Nat, files : [Files -> {"good", "bad"}]]
Places ==
    {"idle", "done", "failed", "crashed", "listing", "walking", "auditing", "checking", "making", "writing", "renaming", "cleaning"}

CommandRecords ==
    [at : Places, target : Targets \cup {Nothing}, remaining : SUBSET (Commands \cup Targets),
     opened : Commands \cup Targets \cup {Nothing}, migrations : BOOLEAN, maximum : Nat, version : Nat,
     read : Seq({"good", "bad"}), before : Nat, beside : SUBSET Commands]

GeneratorTypes ==
    /\ tree \in [Targets -> Trees \cup {Nothing}]
    /\ command \in [Commands -> CommandRecords]

ModuleAt(t) == t \in Targets /\ t.kind = "module" /\ tree[t] # Nothing

Publishing == {"checking", "making", "writing", "renaming"}
AllGood(read) == \A i \in DOMAIN read : read[i] = "good"

\* What a command that runs has found: the highest of the versions that it met, if
\* no other ran, and files that pass.
Found(q) ==
    /\ q.at # "idle" => q.target \in Targets
    /\ q.at = "listing" => q.opened = Nothing
    /\ q.at \in {"listing", "walking"} => q.target.kind = "module"
    /\ q.before = 0 \/ \E t \in Targets : ModuleAt(t) /\ tree[t].version = q.before
Walks(q) == q.at = "walking" =>
    /\ q.opened \in Targets => tree[q.opened] # Nothing /\ q.migrations = TRUE
    /\ q.beside = {} =>
          /\ q.opened \in Commands => There(q.opened)
          /\ \A t \in Targets : ModuleAt(t) => t \in q.remaining \/ tree[t].version <= q.maximum
Numbers(q) == q.at \in Publishing /\ q.target.kind = "module" /\ q.beside = {} => q.version > q.before
Passes(q) ==
    /\ q.at = "auditing" =>
          /\ q.target.kind = "service" /\ tree[Module(q.target.name)] # Nothing
          /\ AllGood(q.read) /\ Len(q.read) < Whole
    /\ q.at \in Publishing /\ q.target.kind = "service" => AllGood(q.read) /\ Len(q.read) = Whole
Fine(q) == Found(q) /\ Walks(q) /\ Numbers(q) /\ Passes(q)

\* A command that met no other is the only one that runs.
Alone == \A c \in RunningCommands : command[c].beside = {} => RunningCommands \subseteq {c}

GeneratorsInvariant ==
    /\ GeneratorTypes /\ Published /\ FreshVersions /\ Audited /\ Alone
    /\ \A c \in Commands : Fine(command[c])

LEMMA WholeIs == Whole = 2 /\ Files = {1, 2} /\ Files = 1 .. 2
<1>1. Files = {1, 2} /\ Files = 1 .. 2 /\ Files \in SUBSET Int /\ 2 \in Files /\ \A y \in Files : y <= 2
    BY DEF Files
<1>2. Max(Files) = 2
    BY <1>1, MaxIs
<1> QED
    BY <1>1, <1>2 DEF Whole

LEMMA NothingElse == Nothing \notin Commands /\ Nothing \notin Targets /\ Nothing \notin Trees /\ \A c \in Commands : c \notin Targets
BY GeneratorsAssumption DEF Trees

LEMMA ModuleIs == \A name \in ModuleNames : Module(name) \in Targets /\ Module(name).kind = "module" /\ Module(name).name = name
BY DEF Module, Targets

LEMMA TargetIs == \A t \in Targets :
    /\ t.kind \in {"module", "service", "app"}
    /\ t.kind \in {"module", "service"} => t.name \in ModuleNames
    /\ t.kind = "module" => t = Module(t.name)
BY DEF Module, Targets

LEMMA IdleFound ==
    /\ IdleCommand \in CommandRecords /\ Fine(IdleCommand) /\ IdleCommand.at = "idle"
    /\ IdleCommand.opened = Nothing /\ IdleCommand.remaining = {} /\ IdleCommand.read = <<>> /\ IdleCommand.before = 0
<1>1. FALSE \in BOOLEAN /\ <<>> \in Seq({"good", "bad"})
    OBVIOUS
<1>2. IdleCommand \in CommandRecords
    BY <1>1 DEF IdleCommand, CommandRecords, Places
<1>3. Fine(IdleCommand)
    BY DEF IdleCommand, Fine, Found, Walks, Numbers, Passes, Publishing
<1> QED
    BY <1>2, <1>3 DEF IdleCommand

LEMMA InitGenerators == GeneratorsInit => GeneratorsInvariant
<1> SUFFICES ASSUME GeneratorsInit PROVE GeneratorsInvariant
    OBVIOUS
<1>1. /\ tree \in [Targets -> Trees \cup {Nothing}]
      /\ \A t \in Targets : tree[t] # Nothing => tree[t].by = Nothing /\ t.kind = "module"
  <2>1. CASE tree = [t \in Targets |-> Nothing]
    BY <2>1
  <2>2. ASSUME NEW name \in ModuleNames, NEW files \in [Files -> {"good", "bad"}], NEW module,
               module = [by |-> Nothing, version |-> 1, files |-> files],
               tree = [t \in Targets |-> IF t = Module(name) THEN module ELSE Nothing]
        PROVE  /\ tree \in [Targets -> Trees \cup {Nothing}]
               /\ \A t \in Targets : tree[t] # Nothing => tree[t].by = Nothing /\ t.kind = "module"
    <3>1. module \in Trees /\ module.by = Nothing
      BY <2>2 DEF Trees
    <3> QED
      BY <2>2, <3>1, ModuleIs
  <2> QED
    BY <2>1, <2>2 DEF GeneratorsInit
<1>4. command = [c \in Commands |-> IdleCommand]
    BY DEF GeneratorsInit
<1>5. GeneratorTypes
    BY <1>1, <1>4, IdleFound DEF GeneratorTypes
<1>6. Published /\ FreshVersions /\ Audited
    BY <1>1, <1>4, IdleFound, NothingElse DEF Published, FreshVersions, Audited
<1>7. Alone
    BY <1>4, IdleFound DEF Alone, RunningCommands, EndedStates
<1> QED
    BY <1>4, <1>5, <1>6, <1>7, IdleFound DEF GeneratorsInvariant

\* A step of one command that publishes nothing.
LEMMA OneCommand ==
    ASSUME GeneratorsInvariant, NEW c \in RunningCommands, NEW q \in CommandRecords,
           command' = [command EXCEPT ![c] = q], tree' = tree,
           q.beside = command[c].beside, q.at # "done", Fine(q)'
    PROVE  GeneratorsInvariant'
<1>1. /\ c \in Commands /\ command[c].at \notin EndedStates /\ command \in [Commands -> CommandRecords]
      /\ command' \in [Commands -> CommandRecords]
      /\ \A d \in Commands : command'[d] = IF d = c THEN q ELSE command[d]
    BY DEF RunningCommands, GeneratorsInvariant, GeneratorTypes
<1>2. GeneratorTypes'
    BY <1>1 DEF GeneratorsInvariant, GeneratorTypes
<1>3. Published'
    BY <1>1 DEF GeneratorsInvariant, Published, EndedStates
<1>4. \A t \in Targets : tree[t] # Nothing => tree[t].by # c
    BY <1>1 DEF GeneratorsInvariant, Published, EndedStates
<1>5. FreshVersions' /\ Audited'
  <2>1. Audited'
    BY DEF GeneratorsInvariant, Audited
  <2>2. ASSUME NEW t \in Targets, t.kind = "module", tree[t] # Nothing
        PROVE  tree[t].by = Nothing \/ command'[tree[t].by].beside # {} \/ tree[t].version > command'[tree[t].by].before
    <3>1. tree[t].by \in Commands \cup {Nothing}
        BY <2>2 DEF GeneratorsInvariant, GeneratorTypes, Trees
    <3>2. CASE tree[t].by \in Commands
      <4>1. command'[tree[t].by] = command[tree[t].by]
        BY <1>1, <1>4, <2>2, <3>2
      <4> QED
        BY <2>2, <4>1 DEF GeneratorsInvariant, FreshVersions
    <3> QED
        BY <3>1, <3>2
  <2> QED
    BY <2>1, <2>2 DEF FreshVersions
<1>6. RunningCommands' \subseteq RunningCommands
    BY <1>1 DEF RunningCommands
<1>7. Alone'
    BY <1>1, <1>6 DEF GeneratorsInvariant, Alone
<1>8. ASSUME NEW d \in Commands PROVE Fine(command[d])'
  <2>1. CASE d = c
    BY <1>1, <2>1 DEF Fine, Found, Walks, Numbers, Passes
  <2>2. CASE d # c
    <3>1. command'[d] = command[d] /\ Fine(command[d])
        BY <1>1, <2>2 DEF GeneratorsInvariant
    <3>2. command[d].at = "walking" => command[d].beside # {}
      <4>1. d \in RunningCommands /\ command[d].beside = {} => FALSE
        BY <2>2 DEF GeneratorsInvariant, Alone
      <4> QED
        BY <4>1 DEF RunningCommands, EndedStates
    <3>3. Found(command[d])'
        BY <3>1 DEF Fine, Found, ModuleAt
    <3>4. Walks(command[d])'
        BY <3>1, <3>2 DEF Fine, Walks
    <3>5. Numbers(command[d])' /\ Passes(command[d])'
        BY <3>1 DEF Fine, Numbers, Passes
    <3> QED
        BY <3>3, <3>4, <3>5 DEF Fine
  <2> QED
    BY <2>1, <2>2
<1> QED
    BY <1>2, <1>3, <1>5, <1>7, <1>8 DEF GeneratorsInvariant

LEMMA CommandFound ==
    ASSUME GeneratorsInvariant, NEW c \in Commands
    PROVE  command[c] \in CommandRecords /\ Found(command[c]) /\ Walks(command[c]) /\ Numbers(command[c]) /\ Passes(command[c])
BY DEF GeneratorsInvariant, GeneratorTypes, Fine

\* A command that goes to another place with what it has found.
LEMMA GoesTo ==
    ASSUME GeneratorsInvariant, NEW c \in RunningCommands, NEW to \in Places \ {"done", "idle", "listing", "walking", "auditing"},
           command' = CommandTo(c, to), tree' = tree, to \in Publishing => command[c].at \in Publishing
    PROVE  GeneratorsInvariant'
<1>1. c \in Commands /\ command[c].at \notin EndedStates
    BY DEF RunningCommands
<1>2. /\ command[c] \in CommandRecords /\ Found(command[c]) /\ Numbers(command[c]) /\ Passes(command[c])
    BY <1>1, CommandFound
<1>3. PICK q : q = [command[c] EXCEPT !.at = to]
    OBVIOUS
<1>4. /\ q \in CommandRecords /\ q.at = to /\ q.target = command[c].target /\ q.read = command[c].read
      /\ q.version = command[c].version /\ q.before = command[c].before /\ q.beside = command[c].beside
    BY <1>2, <1>3 DEF CommandRecords
<1>5. command' = [command EXCEPT ![c] = q]
    BY <1>3 DEF CommandTo
<1>6. Found(q)'
    BY <1>1, <1>2, <1>4 DEF Found, ModuleAt, EndedStates
<1>7. Walks(q)' /\ Numbers(q)' /\ Passes(q)'
    BY <1>2, <1>4 DEF Walks, Numbers, Passes
<1> QED
    BY <1>4, <1>5, <1>6, <1>7, OneCommand DEF Fine

LEMMA Runs ==
    ASSUME NEW c \in Commands, command[c].at \notin {"idle", "done", "failed", "crashed"}
    PROVE  c \in RunningCommands
BY DEF RunningCommands, EndedStates

LEMMA CheckKeeps ==
    ASSUME GeneratorsInvariant, NEW c \in Commands, Check(c)
    PROVE  GeneratorsInvariant'
<1>1. PICK to \in {"failed", "making"} : command' = CommandTo(c, to)
    BY DEF Check
<1>2. to \in Places \ {"done", "idle", "listing", "walking", "auditing"} /\ command[c].at \in Publishing /\ tree' = tree
    BY DEF Places, Publishing, Check
<1>3. c \in RunningCommands
    BY Runs DEF Check
<1> QED
    BY <1>1, <1>2, <1>3, GoesTo

LEMMA MakeKeeps ==
    ASSUME GeneratorsInvariant, NEW c \in Commands, Make(c)
    PROVE  GeneratorsInvariant'
<1>1. "writing" \in Places \ {"done", "idle", "listing", "walking", "auditing"} /\ command[c].at \in Publishing
    BY DEF Places, Publishing, Make
<1>2. c \in RunningCommands
    BY Runs DEF Make
<1> QED
    BY <1>1, <1>2, GoesTo DEF Make

LEMMA WriteFileKeeps ==
    ASSUME GeneratorsInvariant, NEW c \in Commands, WriteFile(c)
    PROVE  GeneratorsInvariant'
<1>1. PICK to \in {"renaming", "writing"} : command' = CommandTo(c, to)
    BY DEF WriteFile
<1>2. to \in Places \ {"done", "idle", "listing", "walking", "auditing"} /\ command[c].at \in Publishing /\ tree' = tree
    BY DEF Places, Publishing, WriteFile
<1>3. c \in RunningCommands
    BY Runs DEF WriteFile
<1> QED
    BY <1>1, <1>2, <1>3, GoesTo

LEMMA FileCallFailsKeeps ==
    ASSUME GeneratorsInvariant, NEW c \in Commands, FileCallFails(c)
    PROVE  GeneratorsInvariant'
<1>1. PICK to \in {"cleaning", "failed"} : command' = CommandTo(c, to)
    BY DEF FileCallFails
<1>2. to \in Places \ {"done", "idle", "listing", "walking", "auditing"} /\ to \notin Publishing
    BY DEF Places, Publishing
<1> QED
    BY <1>1, <1>2, GoesTo DEF FileCallFails

LEMMA CleanKeeps ==
    ASSUME GeneratorsInvariant, NEW c \in Commands, Clean(c)
    PROVE  GeneratorsInvariant'
<1>1. "failed" \in Places \ {"done", "idle", "listing", "walking", "auditing"} /\ "failed" \notin Publishing
    BY DEF Places, Publishing
<1>2. c \in RunningCommands
    BY Runs DEF Clean
<1> QED
    BY <1>1, <1>2, GoesTo DEF Clean

LEMMA CommandCrashesKeeps ==
    ASSUME GeneratorsInvariant, NEW c \in Commands, CommandCrashes(c)
    PROVE  GeneratorsInvariant'
<1>1. "crashed" \in Places \ {"done", "idle", "listing", "walking", "auditing"} /\ "crashed" \notin Publishing
    BY DEF Places, Publishing
<1> QED
    BY <1>1, GoesTo DEF CommandCrashes

LEMMA ListKeeps ==
    ASSUME GeneratorsInvariant, NEW c \in Commands, List(c)
    PROVE  GeneratorsInvariant'
<1> DEFINE all == Temporaries \cup {t \in Targets : t.kind = "module" /\ tree[t] # Nothing}
<1>1. /\ command[c] \in CommandRecords /\ command[c].at = "listing" /\ c \in RunningCommands /\ Found(command[c]) /\ tree' = tree
    BY CommandFound, Runs DEF List
<1>2. PICK q : q = [command[c] EXCEPT !.at = "walking", !.remaining = all]
    OBVIOUS
<1>3. command' = [command EXCEPT ![c] = q]
    BY <1>2 DEF List, Set
<1>4. all \in SUBSET (Commands \cup Targets) /\ "walking" \in Places /\ \A t \in Targets : ModuleAt(t) => t \in all
    BY DEF Temporaries, Places, ModuleAt
<1> HIDE DEF all
<1>5. /\ q \in CommandRecords /\ q.at = "walking" /\ q.remaining = all /\ q.target = command[c].target
      /\ q.opened = command[c].opened /\ q.before = command[c].before /\ q.beside = command[c].beside
    BY <1>1, <1>2, <1>4 DEF CommandRecords
<1>6. q.opened = Nothing
    BY <1>1, <1>5 DEF Found
<1>7. Found(q)'
    BY <1>1, <1>5, <1>6 DEF Found, ModuleAt
<1>8. Walks(q)'
    BY <1>1, <1>4, <1>5, <1>6, NothingElse DEF Walks, ModuleAt
<1>9. Numbers(q)' /\ Passes(q)'
    BY <1>5 DEF Numbers, Passes, Publishing
<1> QED
    BY <1>1, <1>3, <1>5, <1>7, <1>8, <1>9, OneCommand DEF Fine

\* What a walk sees of a directory: it stays there while no other command runs.
LEMMA ThereStill ==
    ASSUME GeneratorsInvariant, NEW c \in Commands, NEW q \in CommandRecords, command' = [command EXCEPT ![c] = q],
           q.target = command[c].target, UNCHANGED <<tree, temporary>>
    PROVE  \A entry : There(entry)' <=> There(entry)
<1>1. \A d \in Commands : command'[d].target = command[d].target
    BY DEF GeneratorsInvariant, GeneratorTypes
<1>2. Temporaries' = Temporaries
    BY <1>1 DEF Temporaries
<1> QED
    BY <1>2 DEF There

LEMMA OpenEntryKeeps ==
    ASSUME GeneratorsInvariant, NEW c \in Commands, NEW entry \in Commands \cup Targets, OpenEntry(c, entry)
    PROVE  GeneratorsInvariant'
<1>1. /\ command[c] \in CommandRecords /\ command[c].at = "walking" /\ c \in RunningCommands /\ command[c].opened = Nothing
      /\ Found(command[c]) /\ Walks(command[c]) /\ UNCHANGED <<tree, temporary>>
    BY CommandFound, Runs DEF OpenEntry
<1>2. CASE There(entry) /\ (entry \in Commands => temporary[entry] > 0)
  <2>1. PICK whole \in BOOLEAN :
            /\ command' = [command EXCEPT ![c] = [command[c] EXCEPT !.opened = entry, !.migrations = whole]]
            /\ entry \notin Commands => whole = TRUE
    <3>1. CASE (entry \in Commands => temporary[entry] = Whole) = TRUE
        BY <1>2, <3>1, Zenon DEF OpenEntry, Set
    <3>2. CASE (entry \in Commands => temporary[entry] = Whole) = FALSE
        BY <1>2, <3>2, Zenon DEF OpenEntry, Set
    <3> QED
        BY <3>1, <3>2
  <2>2. PICK q : q = [command[c] EXCEPT !.opened = entry, !.migrations = whole]
    OBVIOUS
  <2>3. /\ q \in CommandRecords /\ q.at = "walking" /\ q.remaining = command[c].remaining /\ q.target = command[c].target
        /\ q.opened = entry /\ q.before = command[c].before /\ q.beside = command[c].beside /\ q.maximum = command[c].maximum
        /\ q.migrations = whole
    BY <1>1, <2>1, <2>2 DEF CommandRecords
  <2>4. command' = [command EXCEPT ![c] = q]
    BY <2>1, <2>2
  <2>5. There(entry)'
    BY <1>1, <1>2, <2>3, <2>4, ThereStill
  <2>6. Found(q)'
    BY <1>1, <2>3 DEF Found, ModuleAt
  <2>7. Walks(q)'
    <3>1. entry \in Targets => tree[entry] # Nothing /\ q.migrations = TRUE
        BY <1>2, <2>1, <2>3, NothingElse DEF There
    <3>2. q.beside = {} => \A t \in Targets : ModuleAt(t) => t \in q.remaining \/ tree[t].version <= q.maximum
        BY <1>1, <2>3 DEF Walks
    <3> QED
        BY <1>1, <2>3, <2>5, <3>1, <3>2 DEF Walks, ModuleAt
  <2>8. Numbers(q)' /\ Passes(q)'
    BY <2>3 DEF Numbers, Passes, Publishing
  <2> QED
    BY <1>1, <2>3, <2>4, <2>6, <2>7, <2>8, OneCommand DEF Fine
<1>3. CASE ~(There(entry) /\ (entry \in Commands => temporary[entry] > 0))
  <2>1. PICK q : q = [command[c] EXCEPT !.remaining = command[c].remaining \ {entry}]
    OBVIOUS
  <2>2. command' = [command EXCEPT ![c] = q]
    BY <1>3, <2>1 DEF OpenEntry, Set
  <2>3. /\ q \in CommandRecords /\ q.at = "walking" /\ q.remaining = command[c].remaining \ {entry}
        /\ q.target = command[c].target
        /\ q.opened = Nothing /\ q.before = command[c].before /\ q.beside = command[c].beside /\ q.maximum = command[c].maximum
    BY <1>1, <2>1 DEF CommandRecords
  <2>4. Found(q)'
    BY <1>1, <2>3 DEF Found, ModuleAt
  <2>5. Walks(q)'
    <3>1. ModuleAt(entry) => FALSE
        BY <1>3, NothingElse DEF ModuleAt, There
    <3>2. q.beside = {} => \A t \in Targets : ModuleAt(t) => t \in q.remaining \/ tree[t].version <= q.maximum
        BY <1>1, <2>3, <3>1 DEF Walks
    <3> QED
        BY <1>1, <2>3, <3>2, NothingElse DEF Walks, ModuleAt
  <2>6. Numbers(q)' /\ Passes(q)'
    BY <2>3 DEF Numbers, Passes, Publishing
  <2> QED
    BY <1>1, <2>2, <2>3, <2>4, <2>5, <2>6, OneCommand DEF Fine
<1> QED
    BY <1>2, <1>3

\* The number that a walk gives, when it has seen what there was.
LEMMA CountsKeeps ==
    ASSUME GeneratorsInvariant, NEW c \in Commands, command[c].at = "walking",
           command' = Set(c, Counts(c, command[c].maximum)), tree' = tree,
           command[c].beside = {} => command[c].remaining = {}
    PROVE  GeneratorsInvariant'
<1>1. command[c] \in CommandRecords /\ c \in RunningCommands /\ Found(command[c]) /\ Walks(command[c])
    BY CommandFound, Runs
<1>2. PICK q : q = Counts(c, command[c].maximum)
    OBVIOUS
<1>3. /\ q \in CommandRecords /\ q.at = "checking" /\ q.target = command[c].target
      /\ q.before = command[c].before /\ q.beside = command[c].beside /\ q.version = command[c].maximum + 1
  <2>1. PICK next \in Nat : next = command[c].maximum + 1
    BY <1>1 DEF CommandRecords
  <2>2. PICK none \in SUBSET (Commands \cup Targets) : none = {}
    OBVIOUS
  <2>3. q = [command[c] EXCEPT !.at = "checking", !.opened = Nothing, !.remaining = none, !.version = next]
    BY <1>2, <2>1, <2>2 DEF Counts, NextVersion
  <2>4. "checking" \in Places
    BY DEF Places
  <2> QED
    BY <1>1, <2>1, <2>3, <2>4 DEF CommandRecords
<1>4. command' = [command EXCEPT ![c] = q]
    BY <1>2 DEF Set
<1>5. command[c].target.kind = "module" /\ command[c].before \in Nat /\ command[c].maximum \in Nat
    BY <1>1 DEF Found, CommandRecords
<1>6. Found(q)' /\ Walks(q)'
    BY <1>1, <1>3 DEF Found, Walks, ModuleAt
<1>7. Numbers(q)'
  <2> SUFFICES ASSUME q.beside = {} PROVE q.version > q.before
    BY DEF Numbers
  <2>1. CASE q.before = 0
    BY <1>3, <1>5, <2>1
  <2>2. CASE \E t \in Targets : ModuleAt(t) /\ tree[t].version = q.before
    <3>1. PICK t \in Targets : ModuleAt(t) /\ tree[t].version = q.before
        BY <2>2
    <3>2. tree[t].version <= command[c].maximum
        BY <1>1, <1>3, <3>1 DEF Walks
    <3> QED
        BY <1>3, <1>5, <3>1, <3>2
  <2> QED
    BY <1>1, <1>3, <2>1, <2>2 DEF Found
<1>8. Passes(q)'
    BY <1>3, <1>5 DEF Passes
<1> QED
    BY <1>1, <1>3, <1>4, <1>6, <1>7, <1>8, OneCommand DEF Fine

LEMMA CountVersionsKeeps ==
    ASSUME GeneratorsInvariant, NEW c \in Commands, CountVersions(c)
    PROVE  GeneratorsInvariant'
BY CountsKeeps DEF CountVersions

LEMMA ReadKeeps ==
    ASSUME GeneratorsInvariant, NEW c \in Commands, Read(c)
    PROVE  GeneratorsInvariant'
<1>1. /\ command[c] \in CommandRecords /\ command[c].at = "walking" /\ c \in RunningCommands /\ command[c].opened # Nothing
      /\ Found(command[c]) /\ Walks(command[c]) /\ UNCHANGED <<tree, temporary>>
    BY CommandFound, Runs DEF Read
<1>2. PICK entry \in Commands \cup Targets : entry = command[c].opened
    BY <1>1 DEF CommandRecords
<1>3. PICK highest : highest = IF command[c].migrations THEN Max({command[c].maximum, VersionIn(entry)}) ELSE command[c].maximum
    OBVIOUS
<1>4. command' = Set(c, IF There(entry)
                        THEN [command[c] EXCEPT !.opened = Nothing, !.remaining = @ \ {entry}, !.maximum = highest]
                        ELSE Counts(c, command[c].maximum))
    BY <1>2, <1>3 DEF Read
<1>5. CASE There(entry)
  <2>1. command[c].maximum \in Nat /\ VersionIn(entry) \in Nat
    <3>1. CASE entry \in Commands
        BY <1>1, <3>1, CommandFound DEF VersionIn, CommandRecords
    <3>2. CASE entry \in Targets
        BY <1>1, <1>5, <3>2, NothingElse DEF VersionIn, There, GeneratorsInvariant, GeneratorTypes, Trees, CommandRecords
    <3> QED
        BY <1>1, <3>1, <3>2 DEF CommandRecords
  <2>2. highest \in Nat /\ highest >= command[c].maximum /\ (command[c].migrations = TRUE => highest >= VersionIn(entry))
    <3>1. /\ Max({command[c].maximum, VersionIn(entry)}) \in Nat
          /\ Max({command[c].maximum, VersionIn(entry)}) >= command[c].maximum
          /\ Max({command[c].maximum, VersionIn(entry)}) >= VersionIn(entry)
      <4>1. PICK a \in Nat, b \in Nat : a = command[c].maximum /\ b = VersionIn(entry)
        BY <2>1
      <4>2. a \in Int /\ b \in Int
        OBVIOUS
      <4>3. Max({a, b}) \in {a, b} /\ Max({a, b}) >= a /\ Max({a, b}) >= b
        BY <4>2, MaxOfTwo
      <4> QED
        BY <4>1, <4>3
    <3>2. CASE command[c].migrations = TRUE
        BY <1>3, <2>1, <3>1, <3>2
    <3>3. CASE command[c].migrations = FALSE
        BY <1>3, <2>1, <3>1, <3>3
    <3>4. command[c].migrations \in BOOLEAN
        BY <1>1 DEF CommandRecords
    <3> QED
        BY <3>2, <3>3, <3>4
  <2>3. PICK q : q = [command[c] EXCEPT !.opened = Nothing, !.remaining = command[c].remaining \ {entry}, !.maximum = highest]
    OBVIOUS
  <2>4. command' = [command EXCEPT ![c] = q]
    BY <1>4, <1>5, <2>3 DEF Set
  <2>5. /\ q \in CommandRecords /\ q.at = "walking" /\ q.remaining = command[c].remaining \ {entry}
        /\ q.target = command[c].target
        /\ q.opened = Nothing /\ q.before = command[c].before /\ q.beside = command[c].beside /\ q.maximum = highest
    BY <1>1, <2>2, <2>3 DEF CommandRecords
  <2>6. Found(q)'
    BY <1>1, <2>5 DEF Found, ModuleAt
  <2>7. Walks(q)'
    <3>1. ASSUME q.beside = {}, NEW t \in Targets, ModuleAt(t)
          PROVE  t \in q.remaining \/ tree[t].version <= q.maximum
      <4>1. tree[t].version \in Nat
        BY <3>1 DEF ModuleAt, GeneratorsInvariant, GeneratorTypes, Trees
      <4>2. CASE t = entry
        <5>1. VersionIn(entry) = tree[t].version /\ command[c].migrations = TRUE
            BY <1>1, <1>2, <4>2, NothingElse DEF VersionIn, Walks
        <5> QED
            BY <2>2, <2>5, <5>1
      <4>3. CASE t # entry
        <5>1. t \in command[c].remaining \/ tree[t].version <= command[c].maximum
            BY <1>1, <2>5, <3>1 DEF Walks
        <5> QED
            BY <2>1, <2>2, <2>5, <4>1, <4>3, <5>1
      <4> QED
        BY <4>2, <4>3
    <3> QED
        BY <1>1, <2>5, <3>1, NothingElse DEF Walks, ModuleAt
  <2>8. Numbers(q)' /\ Passes(q)'
    BY <2>5 DEF Numbers, Passes, Publishing
  <2> QED
    BY <1>1, <2>4, <2>5, <2>6, <2>7, <2>8, OneCommand DEF Fine
<1>6. CASE ~There(entry)
  <2>1. command[c].beside # {}
    <3>1. entry \in Targets => There(entry)
        BY <1>1, <1>2, NothingElse DEF Walks, There
    <3> QED
        BY <1>1, <1>2, <1>6, <3>1 DEF Walks
  <2> QED
    BY <1>1, <1>4, <1>6, <2>1, CountsKeeps
<1> QED
    BY <1>5, <1>6

LEMMA AuditKeeps ==
    ASSUME GeneratorsInvariant, NEW c \in Commands, Audit(c)
    PROVE  GeneratorsInvariant'
<1>1. /\ command[c] \in CommandRecords /\ command[c].at = "auditing" /\ c \in RunningCommands /\ tree' = tree
      /\ Found(command[c]) /\ Passes(command[c])
    BY CommandFound, Runs DEF Audit
<1> DEFINE module == Module(command[c].target.name)
<1>2. PICK file : file = tree[module].files[Len(command[c].read) + 1]
    OBVIOUS
<1>3. PICK read : read = Append(command[c].read, file)
    OBVIOUS
<1>4. /\ command[c].target \in Targets /\ command[c].target.kind = "service" /\ tree[module] # Nothing
      /\ AllGood(command[c].read) /\ Len(command[c].read) < Whole /\ command[c].read \in Seq({"good", "bad"})
    BY <1>1 DEF Found, Passes, CommandRecords
<1>5. file \in {"good", "bad"}
  <2>1. module \in Targets
    BY <1>4, TargetIs, ModuleIs
  <2>2. tree[module].files \in [Files -> {"good", "bad"}]
    BY <1>4, <2>1 DEF GeneratorsInvariant, GeneratorTypes, Trees
  <2>3. Len(command[c].read) + 1 \in Files
    BY <1>4, WholeIs
  <2> QED
    BY <1>2, <2>2, <2>3
<1>6. /\ read \in Seq({"good", "bad"}) /\ Len(read) = Len(command[c].read) + 1 /\ Len(read) <= Whole
      /\ file = "good" => AllGood(read)
    BY <1>3, <1>4, <1>5, WholeIs DEF AllGood
<1>7. PICK to : to = IF file = "bad" THEN "failed" ELSE IF Len(read) = Whole THEN "checking" ELSE "auditing"
    OBVIOUS
<1>8. PICK q : q = [command[c] EXCEPT !.read = read, !.at = to]
    OBVIOUS
<1>9. /\ to \in {"failed", "checking", "auditing"} /\ to \in Places
      /\ to # "failed" => AllGood(read)
      /\ to = "checking" => Len(read) = Whole
      /\ to = "auditing" => Len(read) < Whole
    BY <1>5, <1>6, <1>7, WholeIs DEF Places
<1>10. /\ q \in CommandRecords /\ q.at = to /\ q.target = command[c].target /\ q.read = read
       /\ q.before = command[c].before /\ q.beside = command[c].beside
    BY <1>1, <1>6, <1>8, <1>9 DEF CommandRecords
<1>11. command' = [command EXCEPT ![c] = q]
    BY <1>2, <1>3, <1>7, <1>8 DEF Audit, Set
<1>12. Found(q)'
    BY <1>1, <1>9, <1>10 DEF Found, ModuleAt
<1>13. Walks(q)' /\ Numbers(q)' /\ Passes(q)'
    BY <1>1, <1>4, <1>9, <1>10 DEF Walks, Numbers, Passes, Publishing
<1> QED
    BY <1>1, <1>9, <1>10, <1>11, <1>12, <1>13, OneCommand DEF Fine

\* What a command finds of the modules stays as long as none is taken away.
LEMMA OthersFine ==
    ASSUME GeneratorsInvariant, NEW d \in Commands, NEW q \in CommandRecords,
           q.at = command[d].at, q.target = command[d].target, q.opened = command[d].opened, q.remaining = command[d].remaining,
           q.migrations = command[d].migrations, q.maximum = command[d].maximum, q.version = command[d].version,
           q.read = command[d].read, q.before = command[d].before,
           q.beside = {} => command[d].beside = {} /\ command[d].at # "walking",
           \A t \in Targets : tree[t] # Nothing => tree'[t] # Nothing /\ tree'[t].version = tree[t].version
    PROVE  Fine(q)'
<1>1. Found(command[d]) /\ Walks(command[d]) /\ Numbers(command[d]) /\ Passes(command[d])
    BY CommandFound
<1>2. Found(q)'
  <2>1. q.before = 0 \/ \E t \in Targets : ModuleAt(t)' /\ tree'[t].version = q.before
    BY <1>1 DEF Found, ModuleAt
  <2> QED
    BY <1>1, <2>1 DEF Found, ModuleAt
<1>3. Walks(q)'
    BY <1>1 DEF Walks
<1>4. Numbers(q)'
    BY <1>1 DEF Numbers
<1>5. Passes(q)'
  <2>1. q.at = "auditing" => Module(q.target.name) \in Targets
    BY <1>1, TargetIs, ModuleIs DEF Passes, Found
  <2> QED
    BY <1>1, <2>1 DEF Passes
<1> QED
    BY <1>2, <1>3, <1>4, <1>5 DEF Fine

LEMMA RenameKeeps ==
    ASSUME GeneratorsInvariant, NEW c \in Commands, Rename(c)
    PROVE  GeneratorsInvariant'
<1>1. /\ command[c] \in CommandRecords /\ command[c].at = "renaming" /\ c \in RunningCommands
      /\ Found(command[c]) /\ Numbers(command[c]) /\ Passes(command[c])
    BY CommandFound, Runs DEF Rename
<1>2. CASE tree[command[c].target] # Nothing
  <2>1. "cleaning" \in Places \ {"done", "idle", "listing", "walking", "auditing"} /\ "cleaning" \notin Publishing
    BY DEF Places, Publishing
  <2>2. command' = CommandTo(c, "cleaning") /\ tree' = tree
    BY <1>2 DEF Rename
  <2> QED
    BY <1>1, <2>1, <2>2, GoesTo
<1>3. CASE tree[command[c].target] = Nothing
  <2>1. PICK target \in Targets : target = command[c].target
    BY <1>1 DEF Found
  <2>2. PICK q : q = [command[c] EXCEPT !.at = "done"]
    OBVIOUS
  <2>3. PICK made : made = [by |-> c, version |-> command[c].version, files |-> Generated(c)]
    OBVIOUS
  <2>4. command' = [command EXCEPT ![c] = q] /\ tree' = [tree EXCEPT ![target] = made] /\ tree[target] = Nothing
    BY <1>3, <2>1, <2>2, <2>3 DEF Rename, CommandTo
  <2>5. /\ q \in CommandRecords /\ q.at = "done" /\ q.target = target /\ q.read = command[c].read
        /\ q.version = command[c].version /\ q.before = command[c].before /\ q.beside = command[c].beside
    BY <1>1, <2>1, <2>2 DEF CommandRecords, Places
  <2>6. Generated(c) \in [Files -> {"good", "bad"}] /\ (target.kind = "service" => \A i \in Files : Generated(c)[i] = "good")
    <3>1. CASE target.kind = "service"
      <4>1. /\ command[c].read \in Seq({"good", "bad"}) /\ Len(command[c].read) = 2 /\ AllGood(command[c].read)
            /\ Generated(c) = command[c].read
        BY <1>1, <2>1, <3>1, WholeIs DEF CommandRecords, Passes, Publishing, Generated
      <4>2. DOMAIN command[c].read = Files
        BY <4>1, WholeIs
      <4> QED
        BY <4>1, <4>2 DEF AllGood
    <3>2. CASE target.kind # "service"
        BY <2>1, <3>2 DEF Generated
    <3> QED
        BY <3>1, <3>2
  <2>7. /\ made \in Trees /\ made.by = c /\ made.version = command[c].version /\ made # Nothing
        /\ target.kind = "service" => \A i \in Files : made.files[i] = "good"
    <3>1. made \in Trees /\ made.by = c /\ made.version = command[c].version
        BY <1>1, <2>3, <2>6 DEF Trees, CommandRecords
    <3>2. target.kind = "service" => \A i \in Files : made.files[i] = "good"
        BY <2>3, <2>6
    <3> QED
        BY <3>1, <3>2, NothingElse
  <2>8. /\ command \in [Commands -> CommandRecords] /\ tree \in [Targets -> Trees \cup {Nothing}]
        /\ \A d \in Commands : command'[d] = IF d = c THEN q ELSE command[d]
        /\ \A t \in Targets : tree'[t] = IF t = target THEN made ELSE tree[t]
    BY <2>4 DEF GeneratorsInvariant, GeneratorTypes
  <2>9. GeneratorTypes'
    BY <2>4, <2>5, <2>7, <2>8 DEF GeneratorTypes
  <2>10. \A t \in Targets : tree[t] # Nothing => tree[t].by # c
    BY <1>1 DEF GeneratorsInvariant, Published
  <2>11. Published'
    <3>1. ASSUME NEW d \in Commands
          PROVE  command'[d].at = "done" <=> \E t \in Targets : tree'[t] # Nothing /\ tree'[t].by = d
      <4>1. CASE d = c
        BY <2>5, <2>7, <2>8, <4>1
      <4>2. CASE d # c
        <5>1. command[d].at = "done" <=> \E t \in Targets : tree[t] # Nothing /\ tree[t].by = d
            BY DEF GeneratorsInvariant, Published
        <5>2. \A t \in Targets : (tree'[t] # Nothing /\ tree'[t].by = d) <=> (tree[t] # Nothing /\ tree[t].by = d)
            BY <2>4, <2>7, <2>8, <4>2
        <5> QED
            BY <2>8, <4>2, <5>1, <5>2
      <4> QED
        BY <4>1, <4>2
    <3> QED
        BY <3>1 DEF Published
  <2>12. FreshVersions'
    <3>1. ASSUME NEW t \in Targets, t.kind = "module", tree'[t] # Nothing
          PROVE  tree'[t].by = Nothing \/ command'[tree'[t].by].beside # {} \/ tree'[t].version > command'[tree'[t].by].before
      <4>1. CASE t = target
        <5>1. tree'[t].by = c /\ tree'[t].version = command[c].version /\ command'[c] = q
            BY <2>7, <2>8, <4>1
        <5>2. command[c].beside = {} => command[c].version > command[c].before
            BY <1>1, <2>1, <3>1, <4>1 DEF Numbers, Publishing
        <5> QED
            BY <2>5, <5>1, <5>2
      <4>2. CASE t # target
        <5>1. tree'[t] = tree[t] /\ tree[t].by \in Commands \cup {Nothing} /\ tree[t].by # c
            BY <2>8, <2>10, <3>1, <4>2 DEF Trees
        <5>2. tree[t].by = Nothing \/ command[tree[t].by].beside # {} \/ tree[t].version > command[tree[t].by].before
            BY <3>1, <5>1 DEF GeneratorsInvariant, FreshVersions
        <5> QED
            BY <2>8, <5>1, <5>2
      <4> QED
        BY <4>1, <4>2
    <3> QED
        BY <3>1 DEF FreshVersions
  <2>13. Audited'
    BY <2>7, <2>8 DEF GeneratorsInvariant, Audited
  <2>14. RunningCommands' = RunningCommands \ {c}
    BY <2>5, <2>8 DEF RunningCommands, EndedStates
  <2>15. Alone'
    <3>1. RunningCommands \subseteq Commands
        BY DEF RunningCommands
    <3>2. ASSUME NEW d \in RunningCommands', command'[d].beside = {} PROVE RunningCommands' \subseteq {d}
      <4>1. d \in RunningCommands /\ d \in Commands /\ d # c
        BY <2>14, <3>1, <3>2
      <4>2. command[d].beside = {}
        BY <2>8, <3>2, <4>1
      <4> QED
        BY <2>14, <4>1, <4>2 DEF GeneratorsInvariant, Alone
    <3> QED
        BY <3>2 DEF Alone
  <2>16. \A t \in Targets : tree[t] # Nothing => tree'[t] # Nothing /\ tree'[t].version = tree[t].version
    BY <2>4, <2>8
  <2>17. ASSUME NEW d \in Commands PROVE Fine(command[d])'
    <3>1. CASE d = c
      <4>1. Found(q)'
        <5>1. command[c].before = 0 \/ \E t \in Targets : ModuleAt(t)' /\ tree'[t].version = command[c].before
            BY <1>1, <2>16 DEF Found, ModuleAt
        <5> QED
            BY <2>1, <2>5, <5>1 DEF Found, ModuleAt
      <4>2. Walks(q)' /\ Numbers(q)' /\ Passes(q)'
        BY <2>5 DEF Walks, Numbers, Passes, Publishing
      <4> QED
        BY <2>8, <3>1, <4>1, <4>2 DEF Fine, Found, Walks, Numbers, Passes
    <3>2. CASE d # c
      <4>1. PICK r \in CommandRecords : r = command[d]
        BY <2>8
      <4>2. r.beside = {} => r.at # "walking"
        <5>1. d \in RunningCommands /\ command[d].beside = {} => FALSE
            BY <1>1, <3>2 DEF GeneratorsInvariant, Alone
        <5> QED
            BY <4>1, <5>1 DEF RunningCommands, EndedStates
      <4>3. Fine(r)'
        BY <2>16, <4>1, <4>2, OthersFine
      <4> QED
        BY <2>8, <3>2, <4>1, <4>3 DEF Fine, Found, Walks, Numbers, Passes
    <3> QED
        BY <3>1, <3>2
  <2> QED
    BY <2>9, <2>11, <2>12, <2>13, <2>15, <2>17 DEF GeneratorsInvariant
<1> QED
    BY <1>2, <1>3

\* The versions that are taken when a command begins.
LEMMA VersionsTaken ==
    ASSUME GeneratorTypes
    PROVE  /\ Max(Versions \cup {0}) \in Nat
           /\ Max(Versions \cup {0}) = 0 \/ \E t \in Targets : ModuleAt(t) /\ tree[t].version = Max(Versions \cup {0})
<1> DEFINE U == {t \in Targets : t.kind = "module" /\ tree[t] # Nothing}
<1>1. \A t \in U : tree[t].version \in Nat /\ t.name \in ModuleNames /\ ModuleAt(t)
    BY TargetIs DEF GeneratorTypes, Trees, ModuleAt
<1> DEFINE at == [name \in {t.name : t \in U} |-> tree[Module(name)].version]
<1>2. IsFiniteSet({t.name : t \in U})
    BY <1>1, GeneratorsAssumption, FS_Subset
<1>3. at \in [{t.name : t \in U} -> Versions]
    BY <1>1, TargetIs DEF Versions
<1>4. \A v \in Versions : \E name \in {t.name : t \in U} : at[name] = v
    BY <1>1, TargetIs DEF Versions
<1>5. IsFiniteSet(Versions)
  <2> HIDE DEF at, U
  <2>1. at \in Surjection({t.name : t \in U}, Versions)
    BY <1>3, <1>4 DEF Surjection
  <2> QED
    BY <1>2, <2>1, FS_Surjection
<1>6. Versions \cup {0} \in SUBSET Int /\ IsFiniteSet(Versions \cup {0}) /\ \A v \in Versions : v \in Nat
    BY <1>1, <1>5, FS_AddElement DEF Versions
<1>7. Max(Versions \cup {0}) \in Versions \cup {0}
    BY <1>6, MaxHigh
<1>8. \A v \in Versions : \E t \in Targets : ModuleAt(t) /\ tree[t].version = v
    BY <1>1 DEF Versions
<1>9. PICK v \in Versions \cup {0} : v = Max(Versions \cup {0})
    BY <1>7
<1>10. CASE v = 0
    BY <1>9, <1>10
<1>11. CASE v \in Versions
    BY <1>6, <1>8, <1>9, <1>11
<1> QED
    BY <1>9, <1>10, <1>11

LEMMA BeginCommandKeeps ==
    ASSUME GeneratorsInvariant, NEW c \in Commands, NEW target \in Targets, BeginCommand(c, target)
    PROVE  GeneratorsInvariant'
<1>1. command[c] = IdleCommand /\ tree' = tree /\ c \notin RunningCommands
    BY IdleFound DEF BeginCommand, RunningCommands, EndedStates
<1>2. PICK before \in Nat : /\ before = Max(Versions \cup {0})
                            /\ before = 0 \/ \E t \in Targets : ModuleAt(t) /\ tree[t].version = before
    BY VersionsTaken DEF GeneratorsInvariant
<1>3. PICK at : at = CASE target.kind = "module" -> "listing"
                       [] target.kind = "service" -> IF tree[Module(target.name)] = Nothing THEN "failed" ELSE "auditing"
                       [] OTHER -> "checking"
    OBVIOUS
<1>4. /\ at \in {"listing", "failed", "auditing", "checking"} /\ at \in Places
      /\ at = "listing" => target.kind = "module"
      /\ at = "auditing" => target.kind = "service" /\ tree[Module(target.name)] # Nothing
      /\ at = "checking" => target.kind # "module" /\ target.kind # "service"
  <2>1. CASE target.kind = "module"
    BY <1>3, <2>1 DEF Places
  <2>2. CASE target.kind = "service"
    BY <1>3, <2>2 DEF Places
  <2>3. CASE target.kind # "module" /\ target.kind # "service"
    BY <1>3, <2>3 DEF Places
  <2> QED
    BY <2>1, <2>2, <2>3
<1>5. PICK running \in SUBSET Commands : running = RunningCommands
    BY DEF RunningCommands
<1>6. PICK q : q = [IdleCommand EXCEPT !.target = target, !.before = before, !.beside = running, !.at = at]
    OBVIOUS
<1>7. /\ q \in CommandRecords /\ q.target = target /\ q.before = before /\ q.beside = RunningCommands /\ q.at = at
      /\ q.opened = Nothing /\ q.read = <<>>
    BY <1>2, <1>4, <1>5, <1>6, IdleFound DEF CommandRecords
<1>8. command' = [d \in Commands |->
          IF d = c THEN q ELSE IF d \in RunningCommands THEN [command[d] EXCEPT !.beside = @ \cup {c}] ELSE command[d]]
    BY <1>2, <1>3, <1>5, <1>6 DEF BeginCommand
<1>9. command \in [Commands -> CommandRecords] /\ tree \in [Targets -> Trees \cup {Nothing}] /\ command'[c] = q
    BY <1>8 DEF GeneratorsInvariant, GeneratorTypes
<1>10. ASSUME NEW d \in Commands, d # c
       PROVE  /\ command'[d] \in CommandRecords /\ command'[d].at = command[d].at
              /\ command'[d].target = command[d].target /\ command'[d].opened = command[d].opened
              /\ command'[d].remaining = command[d].remaining /\ command'[d].migrations = command[d].migrations
              /\ command'[d].maximum = command[d].maximum /\ command'[d].version = command[d].version
              /\ command'[d].read = command[d].read /\ command'[d].before = command[d].before
              /\ command'[d].beside = {} => command[d].beside = {} /\ d \notin RunningCommands
              /\ command[d].beside # {} => command'[d].beside # {}
              /\ d \notin RunningCommands => command'[d] = command[d]
  <2>1. command[d] \in CommandRecords
    BY <1>9
  <2>2. CASE d \in RunningCommands
    <3>1. PICK met \in SUBSET Commands : met = command[d].beside \cup {c}
        BY <2>1 DEF CommandRecords
    <3>2. command'[d] = [command[d] EXCEPT !.beside = met]
        BY <1>8, <1>10, <2>2, <3>1
    <3> QED
        BY <2>1, <2>2, <3>1, <3>2 DEF CommandRecords
  <2>3. CASE d \notin RunningCommands
    BY <1>8, <1>10, <2>1, <2>3
  <2> QED
    BY <2>2, <2>3
<1>11. GeneratorTypes'
  <2>1. command' \in [Commands -> CommandRecords]
    BY <1>7, <1>8, <1>9, <1>10
  <2> QED
    BY <1>1, <1>9, <2>1 DEF GeneratorTypes
<1>12. \A t \in Targets : tree[t] # Nothing => tree[t].by # c
    BY <1>1, IdleFound DEF GeneratorsInvariant, Published
<1>13. Published'
  <2>1. \A d \in Commands : command'[d].at = "done" <=> command[d].at = "done"
    BY <1>1, <1>4, <1>7, <1>9, <1>10, IdleFound
  <2> QED
    BY <1>1, <2>1 DEF GeneratorsInvariant, Published
<1>14. FreshVersions' /\ Audited'
  <2>1. ASSUME NEW t \in Targets, t.kind = "module", tree[t] # Nothing
        PROVE  tree[t].by = Nothing \/ command'[tree[t].by].beside # {} \/ tree[t].version > command'[tree[t].by].before
    <3>1. tree[t].by \in Commands \cup {Nothing} /\ tree[t].by # c
        BY <1>9, <1>12, <2>1 DEF Trees
    <3>2. tree[t].by = Nothing \/ command[tree[t].by].beside # {} \/ tree[t].version > command[tree[t].by].before
        BY <2>1 DEF GeneratorsInvariant, FreshVersions
    <3> QED
        BY <1>10, <3>1, <3>2
  <2> QED
    BY <1>1, <2>1 DEF GeneratorsInvariant, FreshVersions, Audited
<1>15. \A d \in Commands : d # c => (d \in RunningCommands' <=> d \in RunningCommands)
    BY <1>10 DEF RunningCommands
<1>16. Alone'
  <2>1. ASSUME NEW d \in RunningCommands', command'[d].beside = {} PROVE RunningCommands' \subseteq {d}
    <3>1. d \in Commands
        BY DEF RunningCommands
    <3>2. CASE d # c
        BY <1>10, <1>15, <2>1, <3>1, <3>2
    <3>3. CASE d = c
      <4>1. RunningCommands = {}
        BY <1>7, <1>9, <2>1, <3>3
      <4> QED
        BY <1>15, <3>3, <4>1 DEF RunningCommands
    <3> QED
        BY <3>2, <3>3
  <2> QED
    BY <2>1 DEF Alone
<1>17. ASSUME NEW d \in Commands PROVE Fine(command[d])'
  <2>1. CASE d = c
    <3>1. Found(q)'
        BY <1>1, <1>2, <1>4, <1>7 DEF Found, ModuleAt
    <3>2. Walks(q)' /\ Numbers(q)'
        BY <1>4, <1>7 DEF Walks, Numbers, Publishing
    <3>3. Passes(q)'
        BY <1>1, <1>4, <1>7, WholeIs DEF Passes, Publishing, AllGood
    <3> QED
        BY <1>9, <2>1, <3>1, <3>2, <3>3 DEF Fine, Found, Walks, Numbers, Passes
  <2>2. CASE d # c
    <3>1. PICK r \in CommandRecords : r = command'[d]
        BY <1>10, <2>2
    <3>2. r.beside = {} => command[d].beside = {} /\ command[d].at # "walking"
        BY <1>10, <2>2, <3>1 DEF RunningCommands, EndedStates
    <3>3. Fine(r)'
        BY <1>1, <1>10, <2>2, <3>1, <3>2, OthersFine
    <3> QED
        BY <3>1, <3>3 DEF Fine, Found, Walks, Numbers, Passes
  <2> QED
    BY <2>1, <2>2
<1> QED
    BY <1>11, <1>13, <1>14, <1>16, <1>17 DEF GeneratorsInvariant

LEMMA EditKeeps ==
    ASSUME GeneratorsInvariant, NEW name \in ModuleNames, NEW i \in Files, Edit(name, i)
    PROVE  GeneratorsInvariant'
<1>1. PICK m \in Targets : m = Module(name) /\ m.kind = "module" /\ tree[m] # Nothing
    BY ModuleIs DEF Edit
<1>2. tree \in [Targets -> Trees \cup {Nothing}] /\ tree[m] \in Trees /\ command' = command
    BY <1>1 DEF GeneratorsInvariant, GeneratorTypes, Edit
<1>3. PICK files \in [Files -> {"good", "bad"}] : tree' = [tree EXCEPT ![m] = [tree[m] EXCEPT !.files = files]]
  <2>1. PICK files : files = [tree[m].files EXCEPT ![i] = IF tree[m].files[i] = "good" THEN "bad" ELSE "good"]
    OBVIOUS
  <2>2. files \in [Files -> {"good", "bad"}]
    BY <1>2, <2>1 DEF Trees
  <2>3. tree' = [tree EXCEPT ![m] = [tree[m] EXCEPT !.files = files]]
    BY <1>1, <1>2, <2>1 DEF Edit, Trees
  <2> QED
    BY <2>2, <2>3
<1>4. PICK changed : changed = [tree[m] EXCEPT !.files = files]
    OBVIOUS
<1>5. changed \in Trees /\ changed.by = tree[m].by /\ changed.version = tree[m].version /\ changed # Nothing
    BY <1>2, <1>4, NothingElse DEF Trees
<1>6. tree' = [tree EXCEPT ![m] = changed] /\ \A t \in Targets : tree'[t] = IF t = m THEN changed ELSE tree[t]
    BY <1>2, <1>3, <1>4
<1>7. \A t \in Targets : /\ tree'[t] # Nothing <=> tree[t] # Nothing
                         /\ tree[t] # Nothing => tree'[t].by = tree[t].by /\ tree'[t].version = tree[t].version
    BY <1>1, <1>5, <1>6
<1>8. GeneratorTypes'
    BY <1>2, <1>5, <1>6 DEF GeneratorsInvariant, GeneratorTypes
<1>9. Published'
    BY <1>2, <1>7 DEF GeneratorsInvariant, Published
<1>10. FreshVersions'
    BY <1>2, <1>7 DEF GeneratorsInvariant, FreshVersions
<1>11. Audited'
    BY <1>1, <1>6 DEF GeneratorsInvariant, Audited
<1>12. Alone'
    BY <1>2 DEF GeneratorsInvariant, Alone, RunningCommands
<1>13. ASSUME NEW d \in Commands PROVE Fine(command[d])'
  <2>1. Found(command[d]) /\ Walks(command[d]) /\ Numbers(command[d]) /\ Passes(command[d])
    BY CommandFound
  <2>2. Found(command[d])'
    BY <1>2, <1>7, <2>1 DEF Found, ModuleAt
  <2>3. \A entry \in Commands : There(entry)' <=> There(entry)
    BY <1>2 DEF There, Temporaries, Edit
  <2>4. Walks(command[d])'
    BY <1>2, <1>7, <2>1, <2>3 DEF Walks, ModuleAt
  <2>5. Numbers(command[d])'
    BY <1>2, <2>1 DEF Numbers
  <2>6. command[d].at = "auditing" => Module(command[d].target.name) \in Targets
    BY <2>1, TargetIs, ModuleIs DEF Passes, Found
  <2>7. Passes(command[d])'
    BY <1>2, <1>7, <2>1, <2>6 DEF Passes
  <2> QED
    BY <2>2, <2>4, <2>5, <2>7 DEF Fine
<1> QED
    BY <1>8, <1>9, <1>10, <1>11, <1>12, <1>13 DEF GeneratorsInvariant

LEMMA GeneratorsStep == GeneratorsInvariant /\ [GeneratorsNext]_generatorVars => GeneratorsInvariant'
<1> SUFFICES ASSUME GeneratorsInvariant, [GeneratorsNext]_generatorVars PROVE GeneratorsInvariant'
    OBVIOUS
<1>1. ASSUME NEW c \in Commands, CommandSteps(c) PROVE GeneratorsInvariant'
    BY <1>1, ListKeeps, ReadKeeps, CountVersionsKeeps, AuditKeeps, CheckKeeps, MakeKeeps, WriteFileKeeps, RenameKeeps, CleanKeeps,
       OpenEntryKeeps DEF CommandSteps
<1>2. ASSUME NEW c \in Commands, FileCallFails(c) PROVE GeneratorsInvariant'
    BY <1>2, FileCallFailsKeeps, Runs DEF FileCallFails
<1>3. ASSUME NEW c \in Commands, CommandCrashes(c) PROVE GeneratorsInvariant'
    BY <1>3, CommandCrashesKeeps DEF CommandCrashes
<1>4. ASSUME NEW c \in Commands, NEW target \in Targets, BeginCommand(c, target) PROVE GeneratorsInvariant'
    BY <1>4, BeginCommandKeeps
<1>5. ASSUME NEW name \in ModuleNames, NEW i \in Files, Edit(name, i) PROVE GeneratorsInvariant'
    BY <1>5, EditKeeps
<1>6. CASE UNCHANGED generatorVars
    BY <1>6 DEF generatorVars, GeneratorsInvariant, GeneratorTypes, Published, FreshVersions, Audited, Alone, RunningCommands,
       Fine, Found, Walks, Numbers, Passes, ModuleAt, There, Temporaries
<1> QED
    BY <1>1, <1>2, <1>3, <1>4, <1>5, <1>6 DEF GeneratorsNext

\* What a generator publishes is whole, from one command, and audited; a module has
\* a version above those that were taken (cmd/gpp).
THEOREM GeneratorsPublish == GeneratorsSpec => []GeneratorsSound
<1>1. GeneratorsInvariant => GeneratorsSound
    BY DEF GeneratorsInvariant, GeneratorsSound
<1> QED
    BY <1>1, InitGenerators, GeneratorsStep, PTL DEF GeneratorsSpec

-----------------------------------------------------------------------------
(* RateLimit: what a client has passed against the tokens it has left.      *)

LimitSpec == LimitInit /\ [][LimitNext]_limitVars

BucketRecords == [tokens : Int, at : Nat]

LimitTypes ==
    /\ clock \in Nat /\ lastCleanup \in Nat
    /\ readAt \in [LimitedRequests -> Nat]
    /\ passage \in [LimitedRequests -> {"new", "timed", "passed", "refused"}]
    /\ buckets \in [Clients -> BucketRecords \cup {NoBucket}]

\* What the rate has added by a time.
Due(n) == n * Rate

\* A bucket is full at most, and not below empty while readings come in order.
BucketsHold == \A c \in Clients : buckets[c] # NoBucket =>
    buckets[c].tokens <= Capacity /\ (c \notin reordered => buckets[c].tokens >= 0)

\* What a client passed since a time was paid: from its bucket, or before the cleanup
\* that took the bucket away.
Charged(c) == \A from, to \in Nat : Passed(c, from, to) > 0 =>
    /\ buckets[c] = NoBucket => Passed(c, from, to) <= Due(lastCleanup) - Due(from)
    /\ buckets[c] # NoBucket => Passed(c, from, to) + buckets[c].tokens - Due(buckets[c].at) <= Capacity - Due(from)
Within(c) == \A from, to \in Nat : from <= to => Passed(c, from, to) <= Capacity + Due(to) - Due(from)

\* The tokens that are missing were spent since the bucket was full.
SpentFrom(c, tokens, from, at) == tokens >= Capacity + Due(at) - Due(from) - Passed(c, from, at)
Spent(c) == buckets[c] # NoBucket => \E from \in 0 .. buckets[c].at : SpentFrom(c, buckets[c].tokens, from, buckets[c].at)
AtLimit(c) == \A r \in LimitedRequests : ClientOf[r] = c /\ passage[r] = "refused" =>
    \E from \in 0 .. readAt[r] : Passed(c, from, readAt[r]) + 1 > Capacity + Due(readAt[r]) - Due(from)

LimitInvariant ==
    /\ LimitTypes /\ BucketsHold
    /\ ForgetsFullBuckets => \A c \in Clients \ forgotten : Charged(c) /\ Within(c)
    /\ \A c \in Clients \ reordered : Spent(c) /\ AtLimit(c)

LEMMA Dues == \A a, b \in Int :
    /\ Due(a) \in Int /\ (a <= b => Due(a) <= Due(b))
    /\ (a - b) * Rate = Due(a) - Due(b) /\ Rate * (a - b) = Due(a) - Due(b) /\ Due(a + b) = Due(a) + Due(b)
<1> SUFFICES ASSUME NEW a \in Int, NEW b \in Int
             PROVE  /\ Due(a) \in Int /\ (a <= b => Due(a) <= Due(b))
                    /\ (a - b) * Rate = Due(a) - Due(b) /\ Rate * (a - b) = Due(a) - Due(b) /\ Due(a + b) = Due(a) + Due(b)
    OBVIOUS
<1>1. Rate \in Nat
    BY LimitAssumption
<1>2. Due(a) \in Int /\ (a - b) * Rate = Due(a) - Due(b) /\ Rate * (a - b) = Due(a) - Due(b) /\ Due(a + b) = Due(a) + Due(b)
    BY <1>1 DEF Due
<1>3. a <= b => Due(a) <= Due(b)
    BY <1>1 DEF Due
<1> QED
    BY <1>2, <1>3

LEMMA DueIs == \A a \in Nat : a \in Int /\ Due(a) \in Int
BY Dues

PassedBy(c, from, to) ==
    {r \in LimitedRequests : ClientOf[r] = c /\ passage[r] = "passed" /\ from <= readAt[r] /\ readAt[r] <= to}

LEMMA PassedIs ==
    ASSUME NEW c, NEW from, NEW to
    PROVE  Passed(c, from, to) = Cardinality(PassedBy(c, from, to)) /\ IsFiniteSet(PassedBy(c, from, to)) /\ Passed(c, from, to) \in Nat
<1>1. IsFiniteSet(PassedBy(c, from, to))
    BY LimitAssumption, FS_Subset DEF PassedBy
<1> QED
    BY <1>1, FS_CardinalityType DEF Passed, PassedBy

\* A later end counts more.
LEMMA PassedLater ==
    ASSUME LimitTypes, NEW c, NEW from \in Nat, NEW to \in Nat, NEW later \in Nat, to <= later
    PROVE  Passed(c, from, to) <= Passed(c, from, later)
<1>1. PassedBy(c, from, to) \subseteq PassedBy(c, from, later)
    BY DEF PassedBy, LimitTypes
<1> QED
    BY <1>1, PassedIs, FS_Subset

LEMMA PassedAdds ==
    ASSUME LimitTypes, NEW r \in LimitedRequests, passage[r] = "timed", passage' = [passage EXCEPT ![r] = "passed"], readAt' = readAt
    PROVE  \A c, from, to :
               Passed(c, from, to)' = IF c = ClientOf[r] /\ from <= readAt[r] /\ readAt[r] <= to
                                      THEN Passed(c, from, to) + 1 ELSE Passed(c, from, to)
<1> TAKE c, from, to
<1>1. /\ PassedBy(c, from, to)' = IF c = ClientOf[r] /\ from <= readAt[r] /\ readAt[r] <= to
                                  THEN PassedBy(c, from, to) \cup {r} ELSE PassedBy(c, from, to)
      /\ r \notin PassedBy(c, from, to)
    BY DEF PassedBy, LimitTypes
<1>2. Passed(c, from, to)' = Cardinality(PassedBy(c, from, to)')
    BY DEF Passed, PassedBy
<1>3. Cardinality(PassedBy(c, from, to) \cup {r}) = Cardinality(PassedBy(c, from, to)) + 1
    BY <1>1, PassedIs, FS_AddElement
<1> QED
    BY <1>1, <1>2, <1>3, PassedIs

LEMMA PassedStays ==
    ASSUME LimitTypes, NEW r \in LimitedRequests, passage[r] \in {"new", "timed"},
           NEW result \in {"timed", "refused"}, passage' = [passage EXCEPT ![r] = result],
           \A q \in LimitedRequests : q # r => readAt'[q] = readAt[q]
    PROVE  \A c, from, to : Passed(c, from, to)' = Passed(c, from, to)
<1> TAKE c, from, to
<1>1. PassedBy(c, from, to)' = PassedBy(c, from, to)
    BY DEF PassedBy, LimitTypes
<1> QED
    BY <1>1, PassedIs DEF Passed, PassedBy

LEMMA InitLimit == LimitInit => LimitInvariant
<1> SUFFICES ASSUME LimitInit PROVE LimitInvariant
    OBVIOUS
<1>1. LimitTypes
    BY DEF LimitInit, LimitTypes
<1>2. \A c \in Clients : buckets[c] = NoBucket
    BY DEF LimitInit
<1>3. ASSUME NEW c, NEW from, NEW to PROVE Passed(c, from, to) = 0
  <2>1. PassedBy(c, from, to) = {}
    BY DEF PassedBy, LimitInit
  <2> QED
    BY <2>1, PassedIs, FS_EmptySet
<1>4. BucketsHold
    BY <1>2 DEF BucketsHold
<1>5. ASSUME NEW c \in Clients PROVE Charged(c) /\ Within(c) /\ Spent(c) /\ AtLimit(c)
  <2>1. Charged(c)
    BY <1>3 DEF Charged
  <2>2. Within(c)
    <3> SUFFICES ASSUME NEW from \in Nat, NEW to \in Nat, from <= to PROVE Passed(c, from, to) <= Capacity + Due(to) - Due(from)
        BY DEF Within
    <3>1. Due(from) \in Int /\ Due(to) \in Int /\ Due(from) <= Due(to)
        BY Dues
    <3>2. Passed(c, from, to) = 0 /\ Capacity \in Nat
        BY <1>3, LimitAssumption
    <3> QED
        BY <3>1, <3>2
  <2>3. Spent(c)
    BY <1>2 DEF Spent
  <2>4. AtLimit(c)
    BY DEF AtLimit, LimitInit
  <2> QED
    BY <2>1, <2>2, <2>3, <2>4
<1> QED
    BY <1>1, <1>4, <1>5 DEF LimitInvariant

LEMMA TickKeeps ==
    ASSUME LimitInvariant, LimitTick
    PROVE  LimitInvariant'
<1>1. UNCHANGED <<readAt, passage, buckets, lastCleanup, forgotten, reordered>> /\ clock' \in Nat
    BY DEF LimitInvariant, LimitTypes, LimitTick
<1>2. \A c, from, to : Passed(c, from, to)' = Passed(c, from, to)
    BY <1>1 DEF Passed
<1>3. LimitTypes' /\ BucketsHold'
    BY <1>1 DEF LimitInvariant, LimitTypes, BucketsHold
<1>4. ASSUME NEW c \in Clients
      PROVE  (Charged(c) => Charged(c)') /\ (Within(c) => Within(c)') /\ (Spent(c) => Spent(c)') /\ (AtLimit(c) => AtLimit(c)')
    BY <1>1, <1>2 DEF Charged, Within, Spent, SpentFrom, AtLimit
<1> QED
    BY <1>1, <1>3, <1>4 DEF LimitInvariant, ForgetsFullBuckets

LEMMA ReadClockKeeps ==
    ASSUME LimitInvariant, NEW r \in LimitedRequests, ReadClock(r)
    PROVE  LimitInvariant'
<1>1. /\ LimitTypes /\ passage[r] = "new" /\ passage' = [passage EXCEPT ![r] = "timed"] /\ readAt' = [readAt EXCEPT ![r] = clock]
      /\ UNCHANGED <<clock, buckets, lastCleanup, forgotten, reordered>>
    BY DEF LimitInvariant, ReadClock
<1>2. LimitTypes'
    BY <1>1 DEF LimitTypes
<1>3. \A q \in LimitedRequests : q # r => readAt'[q] = readAt[q]
    BY <1>1 DEF LimitTypes
<1>4. \A c, from, to : Passed(c, from, to)' = Passed(c, from, to)
    BY <1>1, <1>3, PassedStays
<1>5. BucketsHold'
    BY <1>1 DEF LimitInvariant, BucketsHold
<1>6. ASSUME NEW c \in Clients PROVE (Charged(c) => Charged(c)') /\ (Within(c) => Within(c)') /\ (Spent(c) => Spent(c)')
    BY <1>1, <1>4 DEF Charged, Within, Spent, SpentFrom
<1>7. ASSUME NEW c \in Clients, AtLimit(c) PROVE AtLimit(c)'
  <2>1. \A q \in LimitedRequests : passage'[q] = "refused" => passage[q] = "refused" /\ readAt'[q] = readAt[q]
    BY <1>1, <1>3 DEF LimitTypes
  <2> QED
    BY <1>4, <1>7, <2>1 DEF AtLimit
<1> QED
    BY <1>1, <1>2, <1>5, <1>6, <1>7 DEF LimitInvariant, ForgetsFullBuckets

\* A request that gets its answer: what a cleanup leaves, and the last cleanup by then.
CleanupAt(now) == IF now - lastCleanup >= CleanupInterval THEN now ELSE lastCleanup

LEMMA KeptIs ==
    ASSUME LimitTypes, NEW now \in Nat
    PROVE  /\ \A c \in Clients : Cleaned(now)[c] \in {NoBucket, buckets[c]}
           /\ CleanupAt(now) \in Nat /\ CleanupAt(now) >= lastCleanup
           /\ now >= lastCleanup => now >= CleanupAt(now)
BY LimitAssumption DEF LimitTypes, Cleaned, CleanupAt

\* What a client passed is paid after the cleanup, too: a bucket that is gone would be full.
ChargedBy(c, bucket, last) == \A from, to \in Nat : Passed(c, from, to) > 0 =>
    /\ bucket = NoBucket => Passed(c, from, to) <= Due(last) - Due(from)
    /\ bucket # NoBucket => Passed(c, from, to) + bucket.tokens - Due(bucket.at) <= Capacity - Due(from)

LEMMA CleanedCharged ==
    ASSUME LimitInvariant, ForgetsFullBuckets, NEW now \in Nat, NEW c \in Clients \ forgotten, c \notin Removed(now) \cap reordered
    PROVE  ChargedBy(c, Cleaned(now)[c], CleanupAt(now))
<1>1. LimitTypes /\ BucketsHold /\ Charged(c) /\ c \in Clients
    BY DEF LimitInvariant
<1>2. SUFFICES ASSUME NEW from \in Nat, NEW to \in Nat, Passed(c, from, to) > 0
      PROVE  /\ Cleaned(now)[c] = NoBucket => Passed(c, from, to) <= Due(CleanupAt(now)) - Due(from)
             /\ Cleaned(now)[c] # NoBucket =>
                   Passed(c, from, to) + Cleaned(now)[c].tokens - Due(Cleaned(now)[c].at) <= Capacity - Due(from)
    BY DEF ChargedBy
<1>3. /\ Passed(c, from, to) \in Nat /\ Due(from) \in Int /\ Due(lastCleanup) \in Int /\ Due(CleanupAt(now)) \in Int
      /\ Due(lastCleanup) <= Due(CleanupAt(now)) /\ Capacity \in Nat
  <2>1. Passed(c, from, to) \in Nat /\ Capacity \in Nat
    BY PassedIs, LimitAssumption
  <2>2. from \in Int /\ lastCleanup \in Int /\ CleanupAt(now) \in Int /\ lastCleanup <= CleanupAt(now)
    BY <1>1, KeptIs DEF LimitTypes
  <2> QED
    BY <2>1, <2>2, Dues
<1>4. CASE Cleaned(now)[c] = buckets[c]
  <2>1. CASE buckets[c] = NoBucket
    <3>1. Passed(c, from, to) <= Due(lastCleanup) - Due(from)
        BY <1>1, <1>2, <2>1 DEF Charged
    <3> QED
        BY <1>3, <1>4, <2>1, <3>1
  <2>2. CASE buckets[c] # NoBucket
    BY <1>1, <1>2, <1>4, <2>2 DEF Charged
  <2> QED
    BY <2>1, <2>2
<1>5. CASE Cleaned(now)[c] # buckets[c]
  <2>1. Cleaned(now)[c] = NoBucket /\ buckets[c] # NoBucket
    BY <1>1, <1>5, KeptIs
  <2>2. now - lastCleanup >= CleanupInterval /\ now - buckets[c].at > CleanupInterval
    BY <1>1, <1>5 DEF Cleaned
  <2>3. c \in Removed(now)
    BY <1>1, <2>1 DEF Removed
  <2>4. PICK tokens \in Int, at \in Nat : buckets[c].tokens = tokens /\ buckets[c].at = at
    BY <1>1, <2>1 DEF LimitTypes, BucketRecords
  <2>5. tokens >= 0
    BY <1>1, <2>1, <2>3, <2>4 DEF BucketsHold
  <2>6. Passed(c, from, to) + tokens - Due(at) <= Capacity - Due(from)
    BY <1>1, <1>2, <2>1, <2>4 DEF Charged
  <2>7. Due(CleanupInterval) >= Capacity /\ CleanupInterval \in Nat
    BY LimitAssumption DEF ForgetsFullBuckets, Due
  <2>8. Due(at + CleanupInterval) = Due(at) + Due(CleanupInterval) /\ Due(at) \in Int /\ Due(CleanupInterval) \in Int /\ Due(now) \in Int
    <3>1. at \in Int /\ CleanupInterval \in Int /\ now \in Int
        BY <2>4, <2>7
    <3> QED
        BY <3>1, Dues
  <2>9. Due(at + CleanupInterval) <= Due(now)
    <3>1. at + CleanupInterval \in Int /\ now \in Int /\ at + CleanupInterval <= now
        BY <2>2, <2>4, <2>7
    <3> QED
        BY <3>1, Dues
  <2>10. CleanupAt(now) = now
    BY <2>2 DEF CleanupAt
  <2>11. Passed(c, from, to) <= Due(now) - Due(from)
    <3> HIDE DEF Due
    <3>1. PICK p \in Nat, dn \in Int, df \in Int, da \in Int, dc \in Int :
             p = Passed(c, from, to) /\ dn = Due(now) /\ df = Due(from) /\ da = Due(at) /\ dc = Due(CleanupInterval)
        BY <1>3, <2>8
    <3>2. p + tokens - da <= Capacity - df /\ dc >= Capacity /\ da + dc <= dn
        BY <2>6, <2>7, <2>8, <2>9, <3>1
    <3>3. p <= dn - df
        BY <1>3, <2>5, <3>2
    <3> QED
        BY <3>1, <3>3
  <2> QED
    BY <2>1, <2>10, <2>11
<1> QED
    BY <1>4, <1>5

\* What a request's answer leaves to the other clients.
LEMMA OthersPay ==
    ASSUME LimitInvariant, NEW r \in LimitedRequests, passage[r] = "timed", readAt' = readAt,
           NEW result \in {"passed", "refused"}, passage' = [passage EXCEPT ![r] = result],
           lastCleanup' = CleanupAt(readAt[r]), NEW c \in Clients, c # ClientOf[r]
    PROVE  /\ /\ ForgetsFullBuckets /\ c \notin forgotten /\ c \notin Removed(readAt[r]) \cap reordered
              /\ buckets'[c] = Cleaned(readAt[r])[c]
              => Charged(c)' /\ Within(c)'
           /\ c \notin reordered /\ buckets'[c] \in {NoBucket, buckets[c]} => Spent(c)' /\ AtLimit(c)'
<1>1. LimitTypes /\ readAt[r] \in Nat
    BY DEF LimitInvariant, LimitTypes
<1>2. \A from, to : Passed(c, from, to)' = Passed(c, from, to)
  <2>1. CASE result = "passed"
    <3>1. \A from, to :
             Passed(c, from, to)' = IF c = ClientOf[r] /\ from <= readAt[r] /\ readAt[r] <= to
                                    THEN Passed(c, from, to) + 1 ELSE Passed(c, from, to)
        BY <1>1, <2>1, PassedAdds, Zenon
    <3> QED
        BY <3>1
  <2>2. CASE result = "refused"
    BY <1>1, <2>2, PassedStays
  <2> QED
    BY <2>1, <2>2
<1>3. ASSUME ForgetsFullBuckets, c \notin forgotten, c \notin Removed(readAt[r]) \cap reordered, buckets'[c] = Cleaned(readAt[r])[c]
      PROVE  Charged(c)' /\ Within(c)'
  <2>1. ChargedBy(c, Cleaned(readAt[r])[c], CleanupAt(readAt[r])) /\ Within(c)
    BY <1>1, <1>3, CleanedCharged DEF LimitInvariant
  <2>2. Charged(c)'
    BY <1>2, <1>3, <2>1 DEF Charged, ChargedBy
  <2>3. Within(c)'
    BY <1>2, <2>1 DEF Within
  <2> QED
    BY <2>2, <2>3
<1>4. ASSUME c \notin reordered, buckets'[c] \in {NoBucket, buckets[c]} PROVE Spent(c)' /\ AtLimit(c)'
  <2>1. Spent(c) /\ AtLimit(c)
    BY <1>4 DEF LimitInvariant
  <2>2. Spent(c)'
    BY <1>2, <1>4, <2>1 DEF Spent, SpentFrom
  <2>3. \A q \in LimitedRequests : ClientOf[q] = c /\ passage'[q] = "refused" => passage[q] = "refused"
    BY <1>1 DEF LimitTypes
  <2>4. AtLimit(c)'
    BY <1>2, <2>1, <2>3 DEF AtLimit
  <2> QED
    BY <2>2, <2>4
<1> QED
    BY <1>3, <1>4

\* A request that passes takes its token from what was paid.
LEMMA Pays ==
    ASSUME LimitTypes, NEW r \in LimitedRequests, passage[r] = "timed", readAt' = readAt,
           passage' = [passage EXCEPT ![r] = "passed"], NEW t \in Int, 1 <= t, t <= Capacity,
           buckets'[ClientOf[r]] = Bucket(t - 1, readAt[r]), Within(ClientOf[r]),
           \A from, to \in Nat : Passed(ClientOf[r], from, to) > 0 =>
               Passed(ClientOf[r], from, to) + t - Due(readAt[r]) <= Capacity - Due(from)
    PROVE  Charged(ClientOf[r])' /\ Within(ClientOf[r])'
<1> DEFINE c == ClientOf[r]
<1>1. PICK now \in Nat : now = readAt[r]
    BY DEF LimitTypes
<1>2. buckets'[c].tokens = t - 1 /\ buckets'[c].at = now /\ buckets'[c] # NoBucket
  <2>1. Bucket(t - 1, now) \in [tokens : Int, at : Nat]
    BY DEF Bucket
  <2> QED
    BY <1>1, <2>1, LimitAssumption DEF Bucket
<1>3. ASSUME NEW from \in Nat, NEW to \in Nat
      PROVE  /\ Passed(c, from, to)' > 0 => Passed(c, from, to)' + (t - 1) - Due(now) <= Capacity - Due(from)
             /\ from <= to => Passed(c, from, to)' <= Capacity + Due(to) - Due(from)
  <2>1. PICK p \in Nat : p = Passed(c, from, to)
    BY PassedIs
  <2>2. PICK q : q = Passed(c, from, to)'
    OBVIOUS
  <2>3. q = IF from <= now /\ now <= to THEN p + 1 ELSE p
    <3>1. \A d, f, t1 : Passed(d, f, t1)' = IF d = ClientOf[r] /\ f <= readAt[r] /\ readAt[r] <= t1
                                      THEN Passed(d, f, t1) + 1 ELSE Passed(d, f, t1)
        BY PassedAdds
    <3>2. Passed(c, from, to)' = IF c = ClientOf[r] /\ from <= readAt[r] /\ readAt[r] <= to THEN Passed(c, from, to) + 1 ELSE Passed(c, from, to)
        BY ONLY <3>1, Zenon
    <3> QED
        BY <1>1, <2>1, <2>2, <3>2
  <2>4. PICK dn \in Int, df \in Int, dt \in Int : dn = Due(now) /\ df = Due(from) /\ dt = Due(to)
    BY DueIs
  <2>5. /\ p > 0 => p + t - dn <= Capacity - df
        /\ from <= to => p <= Capacity + dt - df
        /\ from <= now => df <= dn
        /\ now <= to => dn <= dt
        /\ Capacity \in Nat
    <3>1. p > 0 => p + t - dn <= Capacity - df
        BY <1>1, <2>1, <2>4
    <3>2. from <= to => p <= Capacity + dt - df
        BY <2>1, <2>4 DEF Within
    <3>3. from \in Int /\ to \in Int /\ now \in Int
        OBVIOUS
    <3> QED
        BY <2>4, <3>1, <3>2, <3>3, Dues, LimitAssumption
  <2>6. CASE from <= now /\ now <= to
    <3>1. q = p + 1
        BY <2>3, <2>6
    <3>2. q + (t - 1) - dn <= Capacity - df
      <4>1. CASE p = 0
        BY <2>5, <2>6, <3>1, <4>1
      <4>2. CASE p > 0
        BY <2>5, <3>1, <4>2
      <4> QED
        BY <4>1, <4>2
    <3>3. q <= Capacity + dt - df
        BY <2>5, <2>6, <3>1, <3>2
    <3> QED
        BY <2>2, <2>4, <3>2, <3>3
  <2>7. CASE ~(from <= now /\ now <= to)
    <3>1. q = p
        BY <2>3, <2>7
    <3>2. q > 0 => q + (t - 1) - dn <= Capacity - df
        BY <2>5, <3>1
    <3> QED
        BY <2>2, <2>4, <2>5, <3>1, <3>2
  <2> QED
    BY <2>6, <2>7
<1>4. Charged(c)'
    BY <1>2, <1>3 DEF Charged
<1>5. Within(c)'
    BY <1>3 DEF Within
<1> QED
    BY <1>4, <1>5

LEMMA FirstRequestKeeps ==
    ASSUME LimitInvariant, NEW r \in LimitedRequests, FirstRequest(r)
    PROVE  LimitInvariant'
<1>1. PICK now \in Nat, c \in Clients : now = readAt[r] /\ c = ClientOf[r]
    BY DEF LimitInvariant, LimitTypes, Clients
<1>2. PICK kept : kept = Cleaned(now)
    OBVIOUS
<1>3. PICK gone \in SUBSET Oldest(kept) :
          /\ buckets' = [d \in Clients |-> IF d = c THEN Bucket(Capacity - 1, now) ELSE IF d \in gone THEN NoBucket ELSE kept[d]]
          /\ forgotten' = forgotten \cup gone \cup (Removed(now) \cap reordered) \cup (IF now < lastCleanup THEN {c} ELSE {})
    BY <1>1, <1>2 DEF FirstRequest
<1>4. /\ LimitTypes /\ BucketsHold /\ passage[r] = "timed" /\ passage' = [passage EXCEPT ![r] = "passed"] /\ kept[c] = NoBucket
      /\ UNCHANGED <<clock, readAt, reordered>> /\ lastCleanup' = CleanupAt(now)
    BY <1>1, <1>2 DEF LimitInvariant, FirstRequest, Pass, CleanupAt
<1>5. /\ \A d \in Clients : kept[d] \in {NoBucket, buckets[d]}
      /\ CleanupAt(now) \in Nat /\ (now >= lastCleanup => now >= CleanupAt(now))
    BY <1>2, <1>4, KeptIs
<1>6. Capacity \in Nat \ {0} /\ Capacity - 1 \in Int
    BY LimitAssumption
<1>7. PICK made : made = Bucket(Capacity - 1, now)
    OBVIOUS
<1>8. made \in BucketRecords /\ made.tokens = Capacity - 1 /\ made.at = now /\ made # NoBucket
  <2>1. made \in BucketRecords /\ made.tokens = Capacity - 1 /\ made.at = now
    BY <1>6, <1>7 DEF Bucket, BucketRecords
  <2> QED
    BY <2>1, LimitAssumption DEF BucketRecords
<1>9. \A d \in Clients : /\ (d = c) => (buckets'[d] = made)
                         /\ (d # c) => (buckets'[d] \in {NoBucket, buckets[d]})
                         /\ (d # c /\ d \notin gone) => (buckets'[d] = kept[d])
    BY <1>3, <1>5, <1>7
<1>10. LimitTypes'
  <2>1. buckets' \in [Clients -> BucketRecords \cup {NoBucket}]
    <3>1. \A d \in Clients : buckets'[d] \in BucketRecords \cup {NoBucket}
        BY <1>4, <1>8, <1>9 DEF LimitTypes
    <3> QED
        BY <1>3, <3>1
  <2> QED
    BY <1>4, <1>5, <2>1 DEF LimitTypes
<1>11. BucketsHold'
  <2>1. ASSUME NEW d \in Clients, buckets'[d] # NoBucket
        PROVE  buckets'[d].tokens <= Capacity /\ (d \notin reordered => buckets'[d].tokens >= 0)
    <3>1. CASE d = c
        BY <1>6, <1>8, <1>9, <3>1
    <3>2. CASE d # c
        BY <1>4, <1>9, <2>1, <3>2 DEF BucketsHold
    <3> QED
        BY <3>1, <3>2
  <2> QED
    BY <1>4, <2>1 DEF BucketsHold
<1>12. ASSUME ForgetsFullBuckets, NEW d \in Clients, d \notin forgotten' PROVE Charged(d)' /\ Within(d)'
  <2>1. d \notin forgotten /\ d \notin gone /\ d \notin Removed(now) \cap reordered /\ (d = c => ~(now < lastCleanup))
    BY <1>3, <1>12
  <2>2. CASE d # c
    BY <1>1, <1>2, <1>4, <1>9, <1>12, <2>1, <2>2, OthersPay
  <2>3. CASE d = c
    <3>1. ChargedBy(c, NoBucket, CleanupAt(now)) /\ Within(c)
        BY <1>2, <1>4, <1>12, <2>1, <2>3, CleanedCharged DEF LimitInvariant
    <3>2. ASSUME NEW from \in Nat, NEW to \in Nat, Passed(c, from, to) > 0
          PROVE  Passed(c, from, to) + Capacity - Due(now) <= Capacity - Due(from)
      <4>1. Passed(c, from, to) <= Due(CleanupAt(now)) - Due(from)
        BY <3>1, <3>2 DEF ChargedBy
      <4>2. PICK dl \in Int, dn \in Int, df \in Int : dl = Due(CleanupAt(now)) /\ dn = Due(now) /\ df = Due(from)
        BY <1>5, DueIs
      <4>3. CleanupAt(now) \in Int /\ now \in Int /\ CleanupAt(now) <= now
        BY <1>4, <1>5, <2>1, <2>3 DEF LimitTypes
      <4>4. dl <= dn
        BY <4>2, <4>3, Dues
      <4>5. Passed(c, from, to) \in Nat
        BY PassedIs
      <4> QED
        BY <1>6, <4>1, <4>2, <4>4, <4>5
    <3>3. Capacity \in Int /\ 1 <= Capacity /\ Capacity <= Capacity
        BY <1>6
    <3> QED
        BY <1>1, <1>4, <1>7, <1>9, <2>3, <3>1, <3>2, <3>3, Pays
  <2> QED
    BY <2>2, <2>3
<1>13. ASSUME NEW d \in Clients, d \notin reordered PROVE Spent(d)' /\ AtLimit(d)'
  <2>1. CASE d # c
    BY <1>1, <1>4, <1>9, <1>13, <2>1, OthersPay
  <2>2. CASE d = c
    <3>1. \A from, to : Passed(c, from, to)' = IF from <= now /\ now <= to THEN Passed(c, from, to) + 1 ELSE Passed(c, from, to)
      <4>1. \A e, from, to : Passed(e, from, to)' = IF e = ClientOf[r] /\ from <= readAt[r] /\ readAt[r] <= to
                                                   THEN Passed(e, from, to) + 1 ELSE Passed(e, from, to)
        BY <1>4, PassedAdds
      <4>2. \A from, to : Passed(c, from, to)' = IF c = c /\ from <= now /\ now <= to
                                                THEN Passed(c, from, to) + 1 ELSE Passed(c, from, to)
        BY ONLY <1>1, <4>1, Zenon
      <4> QED
        BY <4>2
    <3>2. Passed(c, now, now)' >= 1
      <4>1. Passed(c, now, now) \in Nat /\ now <= now
        BY PassedIs
      <4>2. Passed(c, now, now)' = Passed(c, now, now) + 1
        BY <3>1, <4>1
      <4> QED
        BY <4>1, <4>2
    <3>3. SpentFrom(c, made.tokens, now, now)'
      <4>1. Due(now) \in Int /\ Passed(c, now, now)' \in Int
        <5>1. Passed(c, now, now) \in Nat /\ Passed(c, now, now)' = IF now <= now THEN Passed(c, now, now) + 1 ELSE Passed(c, now, now)
            BY <3>1, PassedIs
        <5> QED
            BY <5>1, DueIs
      <4> QED
        BY <1>6, <1>8, <3>2, <4>1 DEF SpentFrom
    <3>4. now \in 0 .. now
        OBVIOUS
    <3>5. Spent(c)'
        BY <1>8, <1>9, <3>3, <3>4 DEF Spent, SpentFrom
    <3>6. AtLimit(c)'
      <4>1. AtLimit(c)
        BY <1>13, <2>2 DEF LimitInvariant
      <4> SUFFICES ASSUME NEW q \in LimitedRequests, ClientOf[q] = c, passage'[q] = "refused"
                   PROVE  \E from \in 0 .. readAt[q] : Passed(c, from, readAt[q])' + 1 > Capacity + Due(readAt[q]) - Due(from)
        BY <1>4 DEF AtLimit
      <4>2. passage[q] = "refused" /\ readAt[q] \in Nat
        BY <1>4 DEF LimitTypes
      <4>3. PICK from \in 0 .. readAt[q] : Passed(c, from, readAt[q]) + 1 > Capacity + Due(readAt[q]) - Due(from)
        BY <4>1, <4>2 DEF AtLimit
      <4>4. Passed(c, from, readAt[q]) \in Nat /\ Due(readAt[q]) \in Int /\ Due(from) \in Int
        <5>1. from \in Nat
            BY <4>2
        <5> QED
            BY <4>2, <5>1, PassedIs, DueIs
      <4>5. \/ Passed(c, from, readAt[q])' = Passed(c, from, readAt[q])
            \/ Passed(c, from, readAt[q])' = Passed(c, from, readAt[q]) + 1
        <5>1. \A f, t : Passed(c, f, t)' = Passed(c, f, t) \/ Passed(c, f, t)' = Passed(c, f, t) + 1
            BY <3>1
        <5>2. readAt' = readAt
            BY <1>4
        <5> HIDE DEF Passed
        <5> QED
            BY ONLY <5>1, <5>2, Zenon
      <4>6. Passed(c, from, readAt[q])' + 1 > Capacity + Due(readAt[q]) - Due(from)
        BY <1>6, <4>3, <4>4, <4>5
      <4> QED
        BY <4>6
    <3> QED
        BY <2>2, <3>5, <3>6
  <2> QED
    BY <2>1, <2>2
<1> QED
    BY <1>4, <1>10, <1>11, <1>12, <1>13 DEF LimitInvariant, ForgetsFullBuckets

\* The tokens after a refill are within what was paid, and those missing were spent.
LEMMA RefilledIs ==
    ASSUME NEW bucket \in BucketRecords, NEW now \in Nat
    PROVE  Refilled(bucket, now) = IF bucket.tokens + Due(now) - Due(bucket.at) <= Capacity
                                   THEN bucket.tokens + Due(now) - Due(bucket.at) ELSE Capacity
<1>1. PICK tokens \in Int, at \in Nat : bucket.tokens = tokens /\ bucket.at = at
    BY DEF BucketRecords
<1>2. PICK dn \in Int, da \in Int : dn = Due(now) /\ da = Due(at) /\ (now - at) * Rate = dn - da
  <2>1. now \in Int /\ at \in Int
    OBVIOUS
  <2> QED
    BY <2>1, Dues
<1>3. PICK all \in Int : all = tokens + (now - at) * Rate /\ all = tokens + dn - da
    BY <1>2
<1>4. Refilled(bucket, now) = Min({all, Capacity})
    BY <1>1, <1>3 DEF Refilled
<1>5. Capacity \in Int
    BY LimitAssumption
<1>6. Min({all, Capacity}) = IF all <= Capacity THEN all ELSE Capacity
    BY <1>5, MinOfTwo
<1> QED
    BY <1>1, <1>2, <1>3, <1>4, <1>6

LEMMA NextRequestKeeps ==
    ASSUME LimitInvariant, NEW r \in LimitedRequests, NextRequest(r)
    PROVE  LimitInvariant'
<1>1. PICK now \in Nat, c \in Clients : now = readAt[r] /\ c = ClientOf[r]
    BY DEF LimitInvariant, LimitTypes, Clients
<1>2. PICK kept : kept = Cleaned(now)
    OBVIOUS
<1>3. /\ LimitTypes /\ BucketsHold /\ passage[r] = "timed" /\ kept[c] # NoBucket
      /\ UNCHANGED <<clock, readAt>> /\ lastCleanup' = CleanupAt(now)
      /\ forgotten' = forgotten \cup (Removed(now) \cap reordered)
    BY <1>1, <1>2 DEF LimitInvariant, NextRequest, CleanupAt
<1>4. /\ kept \in [Clients -> BucketRecords \cup {NoBucket}] /\ \A d \in Clients : kept[d] \in {NoBucket, buckets[d]}
      /\ CleanupAt(now) \in Nat
  <2>1. \A d \in Clients : kept[d] \in {NoBucket, buckets[d]}
    BY <1>2, <1>3, KeptIs
  <2>2. kept = [d \in Clients |-> kept[d]]
    BY <1>2 DEF Cleaned
  <2> QED
    BY <1>3, <2>1, <2>2, KeptIs DEF LimitTypes
<1>5. PICK bucket \in BucketRecords : bucket = kept[c] /\ bucket = buckets[c]
    BY <1>3, <1>4
<1>6. PICK b \in Int, at \in Nat : bucket.tokens = b /\ bucket.at = at
    BY DEF BucketRecords
<1>7. PICK dn \in Int, da \in Int : dn = Due(now) /\ da = Due(at)
    BY DueIs
<1>8. Capacity \in Nat \ {0}
    BY LimitAssumption
<1>9. PICK t \in Int : t = Refilled(bucket, now) /\ t = IF b + dn - da <= Capacity THEN b + dn - da ELSE Capacity
    BY <1>6, <1>7, <1>8, RefilledIs
<1>10. t <= Capacity /\ t <= b + dn - da
    BY <1>8, <1>9
<1>11. PICK left \in Int : left = IF t >= 1 THEN t - 1 ELSE t
    OBVIOUS
<1>12. /\ passage' = [passage EXCEPT ![r] = IF t >= 1 THEN "passed" ELSE "refused"]
       /\ buckets' = [kept EXCEPT ![c] = Bucket(left, now)]
       /\ reordered' = IF now < at THEN reordered \cup {c} ELSE reordered
    BY <1>1, <1>2, <1>5, <1>6, <1>9, <1>11 DEF NextRequest, Pass
<1>13. PICK made : made = Bucket(left, now)
    OBVIOUS
<1>14. made \in BucketRecords /\ made.tokens = left /\ made.at = now /\ made # NoBucket
  <2>1. made \in BucketRecords /\ made.tokens = left /\ made.at = now
    BY <1>13 DEF Bucket, BucketRecords
  <2> QED
    BY <2>1, LimitAssumption DEF BucketRecords
<1>15. \A d \in Clients : buckets'[d] = IF d = c THEN made ELSE kept[d]
    BY <1>4, <1>12, <1>13
<1>16. LimitTypes'
  <2>1. buckets' \in [Clients -> BucketRecords \cup {NoBucket}]
    BY <1>4, <1>12, <1>13, <1>14
  <2>2. passage' \in [LimitedRequests -> {"new", "timed", "passed", "refused"}]
    BY <1>3, <1>12 DEF LimitTypes
  <2> QED
    BY <1>3, <1>4, <2>1, <2>2 DEF LimitTypes
<1>17. at <= now => da <= dn
  <2>1. at \in Int /\ now \in Int
    OBVIOUS
  <2> QED
    BY <1>7, <2>1, Dues
<1>18. c \notin reordered' => at <= now /\ b >= 0 /\ left >= 0
  <2> SUFFICES ASSUME c \notin reordered' PROVE at <= now /\ b >= 0 /\ left >= 0
    OBVIOUS
  <2>1. ~(now < at) /\ c \notin reordered
    BY <1>12
  <2>2. b >= 0
    BY <1>3, <1>4, <1>5, <1>6, <2>1 DEF BucketsHold
  <2>3. t >= 0
    BY <1>8, <1>9, <1>17, <2>1, <2>2
  <2> QED
    BY <1>11, <2>1, <2>2, <2>3
<1>19. BucketsHold'
  <2>1. ASSUME NEW d \in Clients, buckets'[d] # NoBucket
        PROVE  buckets'[d].tokens <= Capacity /\ (d \notin reordered' => buckets'[d].tokens >= 0)
    <3>1. CASE d = c
        BY <1>8, <1>10, <1>11, <1>14, <1>15, <1>18, <3>1
    <3>2. CASE d # c
      <4>1. buckets'[d] = buckets[d] /\ (d \notin reordered' => d \notin reordered)
        BY <1>4, <1>12, <1>15, <2>1, <3>2
      <4> QED
        BY <1>3, <2>1, <4>1 DEF BucketsHold
    <3> QED
        BY <3>1, <3>2
  <2> QED
    BY <2>1 DEF BucketsHold
<1>20. PICK result \in {"passed", "refused"} :
           /\ passage' = [passage EXCEPT ![r] = result]
           /\ result = "passed" => t >= 1 /\ left = t - 1
           /\ result = "refused" => t < 1 /\ left = t
  <2>1. CASE t >= 1
    BY <1>11, <1>12, <2>1
  <2>2. CASE t < 1
    BY <1>11, <1>12, <2>2
  <2> QED
    BY <2>1, <2>2
<1>21. ASSUME ForgetsFullBuckets, NEW d \in Clients, d \notin forgotten' PROVE Charged(d)' /\ Within(d)'
  <2>1. d \notin forgotten /\ d \notin Removed(now) \cap reordered
    BY <1>3, <1>21
  <2>2. CASE d # c
    <3>1. buckets'[d] = Cleaned(readAt[r])[d]
        BY <1>1, <1>2, <1>15, <2>2
    <3> QED
        BY <1>1, <1>3, <1>20, <1>21, <2>1, <2>2, <3>1, OthersPay
  <2>3. CASE d = c
    <3>1. ChargedBy(c, bucket, CleanupAt(now)) /\ Within(c)
        BY <1>2, <1>5, <1>21, <2>1, <2>3, CleanedCharged DEF LimitInvariant
    <3>2. ASSUME NEW from \in Nat, NEW to \in Nat, Passed(c, from, to) > 0
          PROVE  Passed(c, from, to) + t - Due(now) <= Capacity - Due(from)
      <4>1. Passed(c, from, to) + b - da <= Capacity - Due(from)
        BY <1>3, <1>5, <1>6, <1>7, <3>1, <3>2 DEF ChargedBy
      <4>2. PICK p \in Nat, df \in Int : p = Passed(c, from, to) /\ df = Due(from)
        BY PassedIs, DueIs
      <4>3. p + b - da <= Capacity - df
        BY <4>1, <4>2
      <4>4. p + t - dn <= Capacity - df
        BY <1>8, <1>10, <4>3
      <4> QED
        BY <1>7, <4>2, <4>4
    <3>3. CASE result = "passed"
        BY <1>1, <1>3, <1>10, <1>13, <1>15, <1>20, <2>3, <3>1, <3>2, <3>3, Pays
    <3>4. CASE result = "refused"
      <4>1. \A e, from, to : Passed(e, from, to)' = Passed(e, from, to)
        BY <1>3, <1>20, <3>4, PassedStays
      <4>2. Charged(c)'
        BY <1>14, <1>15, <1>20, <3>2, <3>4, <4>1 DEF Charged
      <4>3. Within(c)'
        BY <3>1, <4>1 DEF Within
      <4> QED
        BY <2>3, <4>2, <4>3
    <3> QED
        BY <3>3, <3>4
  <2> QED
    BY <2>2, <2>3
<1>22. ASSUME NEW d \in Clients, d \notin reordered' PROVE Spent(d)' /\ AtLimit(d)'
  <2>1. d \notin reordered
    BY <1>12, <1>22
  <2>2. CASE d # c
    <3>1. buckets'[d] \in {NoBucket, buckets[d]}
        BY <1>4, <1>15, <2>2
    <3> QED
        BY <1>1, <1>3, <1>20, <2>1, <2>2, <3>1, OthersPay
  <2>3. CASE d = c
    <3>1. Spent(c) /\ AtLimit(c) /\ at <= now
        BY <1>18, <1>22, <2>1, <2>3 DEF LimitInvariant
    <3>2. PICK from \in 0 .. now : SpentFrom(c, t, from, now)
      <4>1. CASE b + dn - da <= Capacity
        <5>1. PICK from \in 0 .. at : SpentFrom(c, b, from, at)
            BY <1>3, <1>5, <1>6, <3>1 DEF Spent
        <5>2. from \in Nat /\ from \in 0 .. now
            BY <3>1
        <5>3. PICK p \in Nat, q \in Nat, df \in Int : p = Passed(c, from, at) /\ q = Passed(c, from, now) /\ df = Due(from)
            BY <5>2, PassedIs, DueIs
        <5>4. p <= q
            BY <1>3, <3>1, <5>2, <5>3, PassedLater
        <5>5. b >= Capacity + da - df - p
            BY <1>7, <5>1, <5>3 DEF SpentFrom
        <5>6. t >= Capacity + dn - df - q
            BY <1>8, <1>9, <4>1, <5>4, <5>5
        <5>7. SpentFrom(c, t, from, now)
            BY <1>7, <5>3, <5>6 DEF SpentFrom
        <5> QED
            BY <5>2, <5>7
      <4>2. CASE ~(b + dn - da <= Capacity)
        <5>1. PICK q \in Nat : q = Passed(c, now, now)
            BY PassedIs
        <5>2. t >= Capacity + dn - dn - q
            BY <1>8, <1>9, <4>2
        <5>3. SpentFrom(c, t, now, now) /\ now \in 0 .. now
            BY <1>7, <5>1, <5>2 DEF SpentFrom
        <5> QED
            BY <5>3
      <4> QED
        BY <4>1, <4>2
    <3>3. PICK p \in Nat, df \in Int : p = Passed(c, from, now) /\ df = Due(from) /\ t >= Capacity + dn - df - p
      <4>1. from \in Nat
        BY <3>2
      <4> QED
        BY <1>7, <3>2, <4>1, PassedIs, DueIs DEF SpentFrom
    <3>4. CASE result = "passed"
      <4>1. \A e, f, g : Passed(e, f, g)' = IF e = ClientOf[r] /\ f <= readAt[r] /\ readAt[r] <= g
                                           THEN Passed(e, f, g) + 1 ELSE Passed(e, f, g)
        BY <1>3, <1>20, <3>4, PassedAdds
      <4>2. \A f, g : Passed(c, f, g)' = IF c = c /\ f <= now /\ now <= g THEN Passed(c, f, g) + 1 ELSE Passed(c, f, g)
        BY ONLY <1>1, <4>1, Zenon
      <4>3. Passed(c, from, now)' = p + 1
        <5>1. from <= now /\ now <= now
            BY <3>2
        <5>2. Passed(c, from, now)' = Passed(c, from, now) + 1
            BY <4>2, <5>1
        <5> QED
            BY <3>3, <5>2
      <4>4. left >= Capacity + dn - df - (p + 1)
        BY <1>8, <1>20, <3>3, <3>4
      <4>5. SpentFrom(c, left, from, now)'
        BY <1>7, <3>3, <4>3, <4>4 DEF SpentFrom
      <4>6. Spent(c)'
        BY <1>14, <1>15, <3>2, <4>5 DEF Spent, SpentFrom
      <4>7. AtLimit(c)'
        <5> SUFFICES ASSUME NEW q \in LimitedRequests, ClientOf[q] = c, passage'[q] = "refused"
                     PROVE  \E f \in 0 .. readAt[q] : Passed(c, f, readAt[q])' + 1 > Capacity + Due(readAt[q]) - Due(f)
            BY <1>3 DEF AtLimit
        <5>1. passage[q] = "refused" /\ readAt[q] \in Nat
            BY <1>3, <1>20, <3>4 DEF LimitTypes
        <5>2. PICK f \in 0 .. readAt[q] : Passed(c, f, readAt[q]) + 1 > Capacity + Due(readAt[q]) - Due(f)
            BY <3>1, <5>1 DEF AtLimit
        <5>3. Passed(c, f, readAt[q]) \in Nat /\ Due(readAt[q]) \in Int /\ Due(f) \in Int
          <6>1. f \in Nat
            BY <5>1, <5>2
          <6> QED
            BY <5>1, <6>1, PassedIs, DueIs
        <5>4. Passed(c, f, readAt[q])' = Passed(c, f, readAt[q]) \/ Passed(c, f, readAt[q])' = Passed(c, f, readAt[q]) + 1
          <6>1. \A g, h : Passed(c, g, h)' = Passed(c, g, h) \/ Passed(c, g, h)' = Passed(c, g, h) + 1
            BY <4>2
          <6>2. readAt' = readAt
            BY <1>3
          <6> HIDE DEF Passed
          <6> QED
            BY ONLY <6>1, <6>2, Zenon
        <5>5. Passed(c, f, readAt[q])' + 1 > Capacity + Due(readAt[q]) - Due(f)
            BY <1>8, <5>2, <5>3, <5>4
        <5> QED
            BY <5>5
      <4> QED
        BY <2>3, <4>6, <4>7
    <3>5. CASE result = "refused"
      <4>1. \A e, f, g : Passed(e, f, g)' = Passed(e, f, g)
        BY <1>3, <1>20, <3>5, PassedStays
      <4>2. SpentFrom(c, left, from, now)'
        BY <1>7, <1>20, <3>2, <3>5, <4>1 DEF SpentFrom
      <4>3. Spent(c)'
        BY <1>14, <1>15, <3>2, <4>2 DEF Spent, SpentFrom
      <4>4. AtLimit(c)'
        <5> SUFFICES ASSUME NEW q \in LimitedRequests, ClientOf[q] = c, passage'[q] = "refused"
                     PROVE  \E f \in 0 .. readAt[q] : Passed(c, f, readAt[q])' + 1 > Capacity + Due(readAt[q]) - Due(f)
            BY <1>3 DEF AtLimit
        <5>1. \A f : Passed(c, f, readAt[q])' = Passed(c, f, readAt[q])
          <6>1. readAt' = readAt
            BY <1>3
          <6> HIDE DEF Passed
          <6> QED
            BY ONLY <4>1, <6>1, Zenon
        <5>2. CASE q = r
          <6>1. p + 1 > Capacity + dn - df
            BY <1>8, <1>20, <3>3, <3>5
          <6>2. readAt[q] = now
            BY <1>1, <5>2
          <6> QED
            BY <1>7, <3>2, <3>3, <5>1, <6>1, <6>2
        <5>3. CASE q # r
          <6>1. passage[q] = "refused"
            BY <1>3, <1>20, <5>3 DEF LimitTypes
          <6> QED
            BY <3>1, <5>1, <6>1 DEF AtLimit
        <5> QED
            BY <5>2, <5>3
      <4> QED
        BY <2>3, <4>3, <4>4
    <3> QED
        BY <3>4, <3>5
  <2> QED
    BY <2>2, <2>3
<1> QED
    BY <1>16, <1>19, <1>21, <1>22 DEF LimitInvariant, ForgetsFullBuckets

LEMMA LimitStep == LimitInvariant /\ [LimitNext]_limitVars => LimitInvariant'
<1> SUFFICES ASSUME LimitInvariant, [LimitNext]_limitVars PROVE LimitInvariant'
    OBVIOUS
<1>1. ASSUME NEW r \in LimitedRequests, ReadClock(r) \/ FirstRequest(r) \/ NextRequest(r) PROVE LimitInvariant'
    BY <1>1, ReadClockKeeps, FirstRequestKeeps, NextRequestKeeps
<1>2. CASE UNCHANGED limitVars
  <2>1. \A c, from, to : Passed(c, from, to)' = Passed(c, from, to)
    BY <1>2 DEF limitVars, Passed
  <2>2. LimitTypes' /\ BucketsHold' /\ UNCHANGED <<forgotten, reordered>>
    BY <1>2 DEF limitVars, LimitInvariant, LimitTypes, BucketsHold
  <2>3. ASSUME NEW c \in Clients
        PROVE  (Charged(c) => Charged(c)') /\ (Within(c) => Within(c)') /\ (Spent(c) => Spent(c)') /\ (AtLimit(c) => AtLimit(c)')
    BY <1>2, <2>1 DEF limitVars, Charged, Within, Spent, SpentFrom, AtLimit
  <2> QED
    BY <2>2, <2>3 DEF LimitInvariant, ForgetsFullBuckets
<1> QED
    BY <1>1, <1>2, TickKeeps DEF LimitNext

\* A client whose bucket was not forgotten passes at most what its bucket holds and
\* the rate adds, and is refused only at that limit (middleware/ratelimit.go).
THEOREM RateIsBounded == LimitSpec => []RateBound
<1>1. LimitInvariant => RateBound
  <2> SUFFICES ASSUME LimitInvariant, ForgetsFullBuckets, NEW c \in Answered \ forgotten
               PROVE  /\ \A from, to \in 0 .. MaxLimitTime :
                            from <= to => Passed(c, from, to) <= Capacity + Rate * (to - from)
                      /\ \A r \in LimitedRequests :
                            ClientOf[r] = c /\ passage[r] = "refused" /\ c \notin reordered =>
                                \E from \in 0 .. readAt[r] :
                                    Passed(c, from, readAt[r]) + 1 > Capacity + Rate * (readAt[r] - from)
    BY DEF RateBound
  <2>1. c \in Clients /\ c \notin forgotten /\ LimitTypes
    BY DEF Answered, Clients, LimitInvariant
  <2>2. ASSUME NEW from \in 0 .. MaxLimitTime, NEW to \in 0 .. MaxLimitTime, from <= to
        PROVE  Passed(c, from, to) <= Capacity + Rate * (to - from)
    <3>1. from \in Nat /\ to \in Nat /\ from \in Int /\ to \in Int
        BY LimitAssumption
    <3>2. Passed(c, from, to) <= Capacity + Due(to) - Due(from)
        BY <2>1, <2>2, <3>1 DEF LimitInvariant, Within
    <3>3. Rate * (to - from) = Due(to) - Due(from) /\ Due(to) \in Int /\ Due(from) \in Int /\ Capacity \in Int
        BY <3>1, Dues, LimitAssumption
    <3> QED
        BY <3>2, <3>3
  <2>3. ASSUME NEW r \in LimitedRequests, ClientOf[r] = c, passage[r] = "refused", c \notin reordered
        PROVE  \E from \in 0 .. readAt[r] : Passed(c, from, readAt[r]) + 1 > Capacity + Rate * (readAt[r] - from)
    <3>1. PICK from \in 0 .. readAt[r] : Passed(c, from, readAt[r]) + 1 > Capacity + Due(readAt[r]) - Due(from)
        BY <2>1, <2>3 DEF LimitInvariant, AtLimit
    <3>2. from \in Int /\ readAt[r] \in Int
        BY <2>1, <3>1 DEF LimitTypes
    <3>3. /\ Rate * (readAt[r] - from) = Due(readAt[r]) - Due(from)
          /\ Due(readAt[r]) \in Int /\ Due(from) \in Int /\ Capacity \in Int
      <4>1. PICK n \in Int, f \in Int : n = readAt[r] /\ f = from
        BY <3>2
      <4>2. Rate * (n - f) = Due(n) - Due(f) /\ Due(n) \in Int /\ Due(f) \in Int
        BY Dues
      <4> QED
        BY <4>1, <4>2, LimitAssumption
    <3> QED
        BY <3>1, <3>3
  <2> QED
    BY <2>2, <2>3
<1> QED
    BY <1>1, InitLimit, LimitStep, PTL DEF LimitSpec

-----------------------------------------------------------------------------
(* Buses: what a handler has run with, and what is on its way to it.       *)

BusesSpec == BusesInit /\ [][BusesNext]_busVars

SentMessages == [kind : MessageKinds, to : SUBSET Subscribers, open : SUBSET Subscribers, copies : 0 .. 2]

\* Messages in a log that a subscription brings one after the other.
Follows(log, first, next) == first <= next /\ (first = next => log[next].copies = 2)
Brought(log, s, list) == \A i \in DOMAIN list : list[i] \in DOMAIN log /\ s \in log[list[i]].open
SentInOrder(log, list) == \A i, j \in DOMAIN list : i < j => Follows(log, list[i], list[j])

\* What a subscriber got and what is coming.
Orderly(log, s, got, coming) ==
    /\ Brought(log, s, got) /\ Brought(log, s, coming)
    /\ SentInOrder(log, got) /\ SentInOrder(log, coming)
    /\ \A i \in DOMAIN got, j \in DOMAIN coming : Follows(log, got[i], coming[j])

\* Nothing a subscription was sent is missing before what the subscriber got last.
NoGap(log, s, got) ==
    got # <<>> => \A m \in 1 .. got[Len(got)] - 1 : s \in log[m].open /\ log[m].copies > 0 => m \in ToSet(got)
NothingLost(log, s, got, coming) ==
    \A m \in DOMAIN log : s \in log[m].open /\ log[m].copies > 0 => m \in ToSet(got) \/ m \in ToSet(coming)

BusTypes ==
    /\ messages \in Seq(SentMessages) /\ topic \in SUBSET Subscribers
    /\ goroutines \subseteq (DOMAIN messages) \X Subscribers
    /\ ranWith \in [Subscribers -> Seq(Nat)] /\ incoming \in [Subscribers -> Seq(Nat)] /\ received \in [Subscribers -> Seq(Nat)]
    /\ subscription \in [Subscribers -> {"none", "open"}] /\ calls \in [Subscribers -> Nat]

\* The handlers of Bus that ran and those that will.
BusRuns(s) ==
    /\ IsInjective(ranWith[s])
    /\ \A i \in DOMAIN ranWith[s] : ranWith[s][i] \in DOMAIN messages /\ <<ranWith[s][i], s>> \notin goroutines
    /\ \A m \in DOMAIN messages : s \in messages[m].to <=> m \in ToSet(ranWith[s]) \/ <<m, s>> \in goroutines

RedisRuns(s) ==
    /\ Orderly(messages, s, received[s], incoming[s])
    /\ subscription[s] = "none" => incoming[s] = <<>>
    /\ calls[s] = 0 => subscription[s] = "none" /\ received[s] = <<>> /\ \A m \in DOMAIN messages : s \notin messages[m].open
    /\ calls[s] = 1 => NoGap(messages, s, received[s])
    /\ calls[s] = 1 /\ subscription[s] = "open" => NothingLost(messages, s, received[s], incoming[s])

BusesInvariant == BusTypes /\ \A s \in Subscribers : BusRuns(s) /\ RedisRuns(s)

LEMMA InitBuses == BusesInit => BusesInvariant
BY DEF BusesInit, BusesInvariant, BusTypes, BusRuns, RedisRuns, IsInjective, ToSet, Orderly, Brought, SentInOrder, NoGap

\* Reading the first message that is coming.
LEMMA HandOver ==
    ASSUME NEW log \in Seq(SentMessages), NEW s, NEW got \in Seq(Nat), NEW coming \in Seq(Nat), coming # <<>>,
           Orderly(log, s, got, coming)
    PROVE  /\ Orderly(log, s, Append(got, Head(coming)), Tail(coming))
           /\ Orderly(log, s, got, Tail(coming))
           /\ Orderly(log, s, Append(got, Head(coming)), <<>>)
           /\ Orderly(log, s, got, <<>>)
<1> DEFINE more == Append(got, Head(coming))
           rest == Tail(coming)
<1>1. /\ DOMAIN more = 1 .. Len(got) + 1 /\ DOMAIN got = 1 .. Len(got) /\ Len(got) \in Nat
      /\ \A i \in DOMAIN got : more[i] = got[i]
      /\ more[Len(got) + 1] = coming[1] /\ 1 \in DOMAIN coming
    OBVIOUS
<1>2. /\ DOMAIN rest = 1 .. Len(coming) - 1 /\ DOMAIN coming = 1 .. Len(coming) /\ Len(coming) \in Nat
      /\ \A j \in DOMAIN rest : rest[j] = coming[j + 1] /\ j + 1 \in DOMAIN coming
    OBVIOUS
<1> HIDE DEF more, rest
<1>3. Brought(log, s, more) /\ Brought(log, s, rest) /\ Brought(log, s, got) /\ Brought(log, s, <<>>)
  <2>1. Brought(log, s, got) /\ Brought(log, s, coming) /\ Brought(log, s, <<>>)
    BY DEF Orderly, Brought
  <2>2. Brought(log, s, more)
    BY <1>1, <2>1 DEF Brought
  <2>3. Brought(log, s, rest)
    BY <1>2, <2>1 DEF Brought
  <2> QED
    BY <2>1, <2>2, <2>3
<1>4. SentInOrder(log, got) /\ SentInOrder(log, <<>>)
    BY DEF Orderly, SentInOrder
<1>5. SentInOrder(log, rest)
  <2> SUFFICES ASSUME NEW i \in DOMAIN rest, NEW j \in DOMAIN rest, i < j PROVE Follows(log, rest[i], rest[j])
    BY DEF SentInOrder
  <2>1. i + 1 < j + 1
    BY <1>2
  <2> QED
    BY <1>2, <2>1 DEF Orderly, SentInOrder
<1>6. SentInOrder(log, more)
  <2> SUFFICES ASSUME NEW i \in DOMAIN more, NEW j \in DOMAIN more, i < j PROVE Follows(log, more[i], more[j])
    BY DEF SentInOrder
  <2>1. i \in DOMAIN got
    BY <1>1
  <2>2. CASE j \in DOMAIN got
    BY <1>1, <2>1, <2>2 DEF Orderly, SentInOrder
  <2>3. CASE j = Len(got) + 1
    BY <1>1, <2>1, <2>3 DEF Orderly
  <2> QED
    BY <1>1, <2>2, <2>3
<1>7. \A i \in DOMAIN more, j \in DOMAIN rest : Follows(log, more[i], rest[j])
  <2> SUFFICES ASSUME NEW i \in DOMAIN more, NEW j \in DOMAIN rest PROVE Follows(log, more[i], rest[j])
    OBVIOUS
  <2>1. CASE i \in DOMAIN got
    BY <1>1, <1>2, <2>1 DEF Orderly
  <2>2. CASE i = Len(got) + 1
    <3>1. 1 < j + 1
        BY <1>2
    <3> QED
        BY <1>1, <1>2, <2>2, <3>1 DEF Orderly, SentInOrder
  <2> QED
    BY <1>1, <2>1, <2>2
<1>8. \A i \in DOMAIN got, j \in DOMAIN rest : Follows(log, got[i], rest[j])
    BY <1>2 DEF Orderly
<1>9. Orderly(log, s, more, rest) /\ Orderly(log, s, got, rest)
    BY <1>3, <1>4, <1>5, <1>6, <1>7, <1>8 DEF Orderly
<1>10. Orderly(log, s, more, <<>>) /\ Orderly(log, s, got, <<>>)
    BY <1>3, <1>4, <1>6 DEF Orderly
<1> QED
    BY <1>9, <1>10 DEF more, rest

LEMMA Joined ==
    ASSUME NEW a \in Seq(Nat), NEW b \in Seq(Nat)
    PROVE  /\ DOMAIN (a \o b) = 1 .. Len(a) + Len(b) /\ DOMAIN a = 1 .. Len(a) /\ Len(a) \in Nat
           /\ \A j \in DOMAIN a : j \in DOMAIN (a \o b) /\ (a \o b)[j] = a[j]
           /\ \A j \in DOMAIN (a \o b) \ DOMAIN a : j - Len(a) \in DOMAIN b /\ (a \o b)[j] = b[j - Len(a)]
OBVIOUS

\* A message more, which may be coming once or twice, or not at all.
LEMMA Sent ==
    ASSUME NEW log \in Seq(SentMessages), NEW message \in SentMessages, NEW s, NEW got \in Seq(Nat), NEW coming \in Seq(Nat),
           Orderly(log, s, got, coming), NEW more \in Seq(Nat),
           \/ more = coming
           \/ s \in message.open /\ more = coming \o [i \in 1 .. message.copies |-> Len(log) + 1]
    PROVE  Orderly(Append(log, message), s, got, more)
<1> DEFINE longer == Append(log, message)
           m == Len(log) + 1
<1>1. /\ DOMAIN longer = 1 .. Len(log) + 1 /\ DOMAIN log = 1 .. Len(log) /\ Len(log) \in Nat
      /\ \A k \in DOMAIN log : longer[k] = log[k]
      /\ longer[m] = message /\ m \in Nat
    OBVIOUS
<1> HIDE DEF longer
<1>2. \A x, y \in DOMAIN log : Follows(log, x, y) => Follows(longer, x, y)
    BY <1>1 DEF Follows
<1>3. Brought(log, s, got) /\ Brought(log, s, coming)
    BY DEF Orderly
<1>4. Orderly(longer, s, got, coming)
  <2>1. Brought(longer, s, got) /\ Brought(longer, s, coming)
    BY <1>1, <1>3 DEF Brought
  <2>2. SentInOrder(longer, got) /\ SentInOrder(longer, coming)
    BY <1>2, <1>3 DEF SentInOrder, Orderly, Brought
  <2>3. \A i \in DOMAIN got, j \in DOMAIN coming : Follows(longer, got[i], coming[j])
    BY <1>2, <1>3 DEF Orderly, Brought
  <2> QED
    BY <2>1, <2>2, <2>3 DEF Orderly
<1>5. CASE s \in message.open /\ more = coming \o [i \in 1 .. message.copies |-> Len(log) + 1]
  <2> DEFINE k == Len(coming)
  <2>1. message.copies \in 0 .. 2
    BY DEF SentMessages
  <2>2. /\ DOMAIN more = 1 .. k + message.copies /\ DOMAIN coming = 1 .. k /\ k \in Nat
        /\ \A j \in DOMAIN coming : more[j] = coming[j]
        /\ \A j \in DOMAIN more \ DOMAIN coming : more[j] = m
    <3>1. PICK copies \in Nat : copies = message.copies
        BY <2>1
    <3>2. PICK x \in Nat : x = m
        BY <1>1
    <3>3. PICK news : news = [i \in 1 .. copies |-> x]
        OBVIOUS
    <3>4. news \in Seq(Nat) /\ Len(news) = copies /\ \A i \in 1 .. copies : news[i] = x
        BY <3>3
    <3>5. more = coming \o news
        BY <1>5, <3>1, <3>2, <3>3
    <3>6. /\ DOMAIN more = 1 .. k + copies /\ k \in Nat /\ DOMAIN coming = 1 .. k
          /\ \A j \in DOMAIN coming : more[j] = coming[j]
        BY <3>4, <3>5, Joined
    <3>7. ASSUME NEW j \in DOMAIN more \ DOMAIN coming PROVE more[j] = x
      <4>1. j - k \in DOMAIN news /\ more[j] = news[j - k]
        BY <3>4, <3>5, Joined
      <4> QED
        BY <3>3, <4>1
    <3> QED
        BY <3>1, <3>2, <3>6, <3>7
  <2> HIDE DEF k
  <2>3. \A x \in DOMAIN log : Follows(longer, x, m)
    BY <1>1 DEF Follows
  <2>4. Brought(longer, s, more)
    <3> SUFFICES ASSUME NEW j \in DOMAIN more PROVE more[j] \in DOMAIN longer /\ s \in longer[more[j]].open
        BY DEF Brought
    <3>1. CASE j \in DOMAIN coming
        BY <1>4, <2>2, <3>1 DEF Orderly, Brought
    <3>2. CASE j \notin DOMAIN coming
      <4>1. more[j] = m /\ s \in message.open
        BY <1>5, <2>2, <3>2
      <4> QED
        BY <1>1, <4>1
    <3> QED
        BY <3>1, <3>2
  <2>5. SentInOrder(longer, more)
    <3> SUFFICES ASSUME NEW i \in DOMAIN more, NEW j \in DOMAIN more, i < j PROVE Follows(longer, more[i], more[j])
        BY DEF SentInOrder
    <3>1. CASE j \in DOMAIN coming
      <4>1. i \in DOMAIN coming
        BY <2>1, <2>2, <3>1
      <4> QED
        BY <1>4, <2>2, <3>1, <4>1 DEF Orderly, SentInOrder
    <3>2. CASE j \notin DOMAIN coming /\ i \in DOMAIN coming
        BY <1>3, <2>2, <2>3, <3>2 DEF Brought
    <3>3. CASE j \notin DOMAIN coming /\ i \notin DOMAIN coming
      <4>1. message.copies = 2
        BY <2>1, <2>2, <3>3
      <4> QED
        BY <1>1, <2>2, <3>3, <4>1 DEF Follows
    <3> QED
        BY <3>1, <3>2, <3>3
  <2>6. \A i \in DOMAIN got, j \in DOMAIN more : Follows(longer, got[i], more[j])
    <3> SUFFICES ASSUME NEW i \in DOMAIN got, NEW j \in DOMAIN more PROVE Follows(longer, got[i], more[j])
        OBVIOUS
    <3>1. CASE j \in DOMAIN coming
        BY <1>4, <2>2, <3>1 DEF Orderly
    <3>2. CASE j \notin DOMAIN coming
        BY <1>3, <2>2, <2>3, <3>2 DEF Brought
    <3> QED
        BY <3>1, <3>2
  <2>7. Brought(longer, s, got) /\ SentInOrder(longer, got)
    BY <1>4 DEF Orderly
  <2>8. Orderly(longer, s, got, more)
    BY <2>4, <2>5, <2>6, <2>7 DEF Orderly
  <2> QED
    BY <2>8 DEF longer
<1> QED
    BY <1>4, <1>5 DEF longer

\* What the first message leaves of the promises that are not about the order.
LEMMA Reading ==
    ASSUME NEW log \in Seq(SentMessages), NEW s, NEW got \in Seq(Nat), NEW coming \in Seq(Nat), coming # <<>>,
           Orderly(log, s, got, coming), NothingLost(log, s, got, coming)
    PROVE  /\ NothingLost(log, s, Append(got, Head(coming)), Tail(coming))
           /\ NoGap(log, s, Append(got, Head(coming)))
<1> DEFINE more == Append(got, Head(coming))
           rest == Tail(coming)
<1>1. /\ DOMAIN more = 1 .. Len(got) + 1 /\ DOMAIN got = 1 .. Len(got) /\ Len(got) \in Nat
      /\ \A i \in DOMAIN got : more[i] = got[i]
      /\ more[Len(got) + 1] = coming[1] /\ 1 \in DOMAIN coming /\ Len(more) = Len(got) + 1
    OBVIOUS
<1>2. /\ DOMAIN rest = 1 .. Len(coming) - 1 /\ DOMAIN coming = 1 .. Len(coming) /\ Len(coming) \in Nat
      /\ \A j \in DOMAIN rest : rest[j] = coming[j + 1] /\ j + 1 \in DOMAIN coming
    OBVIOUS
<1> HIDE DEF more, rest
<1>3. ASSUME NEW m \in ToSet(coming) PROVE m = coming[1] \/ m \in ToSet(rest)
  <2>1. PICK j \in DOMAIN coming : m = coming[j]
    BY DEF ToSet
  <2>2. CASE j # 1
    <3>1. j - 1 \in DOMAIN rest /\ rest[j - 1] = coming[j]
        BY <1>2, <2>2
    <3> QED
        BY <2>1, <3>1 DEF ToSet
  <2> QED
    BY <2>1, <2>2
<1>4. coming[1] \in ToSet(more) /\ \A m \in ToSet(got) : m \in ToSet(more)
  <2>1. coming[1] \in ToSet(more)
    <3>1. Len(got) + 1 \in DOMAIN more
        BY <1>1
    <3>2. more[Len(got) + 1] \in ToSet(more)
        BY <3>1 DEF ToSet
    <3> QED
        BY <1>1, <3>2
  <2>2. ASSUME NEW m \in ToSet(got) PROVE m \in ToSet(more)
    BY <1>1 DEF ToSet
  <2> QED
    BY <2>1, <2>2
<1>5. NothingLost(log, s, more, rest)
    BY <1>3, <1>4 DEF NothingLost
<1>6. NoGap(log, s, more)
  <2>1. more[Len(more)] = coming[1] /\ coming[1] \in DOMAIN log /\ coming[1] \in Nat /\ DOMAIN log = 1 .. Len(log) /\ Len(log) \in Nat
    BY <1>1 DEF Orderly, Brought
  <2>2. ASSUME NEW m \in 1 .. coming[1] - 1, s \in log[m].open, log[m].copies > 0
        PROVE  m \in ToSet(more)
    <3>1. m \in DOMAIN log /\ m < coming[1]
        BY <2>1
    <3>2. CASE m \in ToSet(coming)
      <4>1. PICK j \in DOMAIN coming : m = coming[j]
        BY <3>2 DEF ToSet
      <4>2. j # 1 => Follows(log, coming[1], coming[j])
        <5>1. SentInOrder(log, coming) /\ 1 \in DOMAIN coming /\ (j # 1 => 1 < j)
            BY <1>1, <1>2 DEF Orderly
        <5> QED
            BY <5>1 DEF SentInOrder
      <4>3. j = 1
        BY <2>1, <3>1, <4>1, <4>2 DEF Follows
      <4> QED
        BY <2>1, <3>1, <4>1, <4>3
    <3>3. CASE m \in ToSet(got)
        BY <1>4, <3>3
    <3> QED
        BY <2>2, <3>1, <3>2, <3>3 DEF NothingLost
  <2> QED
    BY <2>1, <2>2 DEF NoGap
<1> QED
    BY <1>5, <1>6 DEF more, rest

\* What one more message leaves of them.
LEMMA SentAll ==
    ASSUME NEW log \in Seq(SentMessages), NEW message \in SentMessages, NEW s, NEW got \in Seq(Nat), NEW coming \in Seq(Nat),
           Orderly(log, s, got, coming), NEW more \in Seq(Nat),
           \/ more = coming /\ s \notin message.open
           \/ more = coming \o [i \in 1 .. message.copies |-> Len(log) + 1]
    PROVE  /\ NoGap(log, s, got) => NoGap(Append(log, message), s, got)
           /\ NothingLost(log, s, got, coming) => NothingLost(Append(log, message), s, got, more)
<1> DEFINE longer == Append(log, message)
<1>1. /\ DOMAIN longer = 1 .. Len(log) + 1 /\ DOMAIN log = 1 .. Len(log) /\ Len(log) \in Nat
      /\ \A k \in DOMAIN log : longer[k] = log[k]
      /\ longer[Len(log) + 1] = message
    OBVIOUS
<1> HIDE DEF longer
<1>2. ASSUME NoGap(log, s, got) PROVE NoGap(longer, s, got)
  <2> SUFFICES ASSUME got # <<>>, NEW m \in 1 .. got[Len(got)] - 1, s \in longer[m].open, longer[m].copies > 0
               PROVE  m \in ToSet(got)
    BY DEF NoGap
  <2>1. Len(got) \in DOMAIN got
    OBVIOUS
  <2>2. got[Len(got)] \in DOMAIN log
    BY <2>1 DEF Orderly, Brought
  <2>3. m \in DOMAIN log
    BY <1>1, <2>2
  <2> QED
    BY <1>1, <1>2, <2>3 DEF NoGap
<1>3. ASSUME NothingLost(log, s, got, coming) PROVE NothingLost(longer, s, got, more)
  <2> SUFFICES ASSUME NEW m \in DOMAIN longer, s \in longer[m].open, longer[m].copies > 0
               PROVE  m \in ToSet(got) \/ m \in ToSet(more)
    BY DEF NothingLost
  <2>1. PICK copies \in Nat : copies = message.copies
    BY DEF SentMessages
  <2>2. PICK x \in Nat : x = Len(log) + 1
    BY <1>1
  <2>3. PICK news : news = [i \in 1 .. copies |-> x]
    OBVIOUS
  <2>4. news \in Seq(Nat) /\ Len(news) = copies /\ \A i \in 1 .. copies : news[i] = x
    BY <2>3
  <2>5. \/ more = coming /\ s \notin message.open
        \/ more = coming \o news
    BY <2>1, <2>2, <2>3
  <2>6. ASSUME NEW k \in ToSet(coming) PROVE k \in ToSet(more)
    <3>1. PICK j \in DOMAIN coming : k = coming[j]
        BY DEF ToSet
    <3>2. CASE more = coming
        BY <3>1, <3>2 DEF ToSet
    <3>3. CASE more = coming \o news
      <4>1. j \in DOMAIN more /\ more[j] = coming[j]
        BY <2>4, <3>3, Joined
      <4> QED
        BY <3>1, <4>1 DEF ToSet
    <3> QED
        BY <2>5, <3>2, <3>3
  <2>7. CASE m \in DOMAIN log
    BY <1>1, <1>3, <2>6, <2>7 DEF NothingLost
  <2>8. CASE m = Len(log) + 1
    <3>1. more = coming \o news /\ copies > 0
        BY <1>1, <2>1, <2>5, <2>8
    <3>2. Len(coming) + 1 \in DOMAIN more /\ more[Len(coming) + 1] = x
        BY <2>4, <3>1
    <3> QED
        BY <2>2, <2>8, <3>2 DEF ToSet
  <2> QED
    BY <1>1, <2>7, <2>8
<1> QED
    BY <1>2, <1>3 DEF longer

\* A handler of Bus starts no message twice, and no message starts twice.
LEMMA RunHandlerKeeps ==
    ASSUME BusesInvariant, NEW s \in Subscribers, NEW m, RunHandler(m, s)
    PROVE  BusesInvariant'
<1>1. /\ BusTypes /\ <<m, s>> \in goroutines /\ goroutines' = goroutines \ {<<m, s>>}
      /\ ranWith' = [ranWith EXCEPT ![s] = Append(@, m)]
      /\ UNCHANGED <<messages, topic, subscription, incoming, received, calls>>
    BY DEF BusesInvariant, RunHandler
<1>2. m \in DOMAIN messages /\ m \in Nat
    BY <1>1 DEF BusTypes
<1>3. BusTypes'
    BY <1>1, <1>2 DEF BusTypes
<1>4. ASSUME NEW t \in Subscribers PROVE BusRuns(t)'
  <2>1. CASE t # s
    <3>1. ranWith'[t] = ranWith[t]
        BY <1>1, <2>1 DEF BusTypes
    <3>2. \A x : <<x, t>> \in goroutines' <=> <<x, t>> \in goroutines
        BY <1>1, <2>1
    <3> QED
        BY <1>1, <3>1, <3>2 DEF BusesInvariant, BusRuns
  <2>2. CASE t = s
    <3> DEFINE before == ranWith[s]
               after == ranWith'[s]
    <3>1. after = Append(before, m) /\ before \in Seq(Nat)
        BY <1>1 DEF BusTypes
    <3>2. /\ DOMAIN after = 1 .. Len(before) + 1 /\ DOMAIN before = 1 .. Len(before) /\ Len(before) \in Nat
          /\ \A i \in DOMAIN before : after[i] = before[i]
          /\ after[Len(before) + 1] = m
        BY <1>2, <3>1
    <3>3. /\ IsInjective(before)
          /\ \A i \in DOMAIN before : before[i] \in DOMAIN messages /\ <<before[i], s>> \notin goroutines
          /\ \A x \in DOMAIN messages : s \in messages[x].to <=> x \in ToSet(before) \/ <<x, s>> \in goroutines
        BY DEF BusesInvariant, BusRuns
    <3> HIDE DEF before, after
    <3>4. \A i \in DOMAIN before : before[i] # m
        BY <1>1, <3>3
    <3>5. IsInjective(after)
        BY <3>2, <3>3, <3>4 DEF IsInjective
    <3>6. \A i \in DOMAIN after : after[i] \in DOMAIN messages /\ <<after[i], s>> \notin goroutines'
        BY <1>1, <1>2, <3>2, <3>3
    <3>7. \A x : x \in ToSet(after) <=> x \in ToSet(before) \/ x = m
        BY <3>2 DEF ToSet
    <3>8. \A x \in DOMAIN messages : s \in messages[x].to <=> x \in ToSet(after) \/ <<x, s>> \in goroutines'
        BY <1>1, <3>3, <3>7
    <3> QED
        BY <1>1, <2>2, <3>5, <3>6, <3>8 DEF BusRuns, after
  <2> QED
    BY <2>1, <2>2
<1>5. \A t \in Subscribers : RedisRuns(t)'
    BY <1>1 DEF BusesInvariant, RedisRuns
<1> QED
    BY <1>3, <1>4, <1>5 DEF BusesInvariant

LEMMA PublishKeeps ==
    ASSUME BusesInvariant, NEW kind \in MessageKinds, NEW copies \in 0 .. 2, PublishToAll(kind, copies)
    PROVE  BusesInvariant'
<1> DEFINE message == [kind |-> kind, to |-> topic, open |-> Subscribed, copies |-> copies]
           m == Len(messages) + 1
<1>1. /\ BusTypes /\ messages' = Append(messages, message) /\ goroutines' = goroutines \cup ({m} \X topic)
      /\ incoming' = [s \in Subscribers |->
                         IF s \in Subscribed THEN incoming[s] \o [i \in 1 .. copies |-> m] ELSE incoming[s]]
      /\ UNCHANGED <<ranWith, topic, subscription, received, calls>>
    BY DEF BusesInvariant, PublishToAll
<1>2. message \in SentMessages /\ message.open = Subscribed /\ message.copies = copies /\ message.to = topic
    BY <1>1 DEF BusTypes, SentMessages, Subscribed
<1> HIDE DEF message
<1>3. /\ messages \in Seq(SentMessages) /\ messages' \in Seq(SentMessages)
      /\ DOMAIN messages' = 1 .. Len(messages) + 1 /\ DOMAIN messages = 1 .. Len(messages) /\ Len(messages) \in Nat
      /\ \A k \in DOMAIN messages : messages'[k] = messages[k]
      /\ messages'[m] = message
    BY <1>1, <1>2 DEF BusTypes
<1>4. ASSUME NEW s \in Subscribers
      PROVE  /\ incoming[s] \in Seq(Nat) /\ received[s] \in Seq(Nat) /\ incoming'[s] \in Seq(Nat)
             /\ \/ incoming'[s] = incoming[s] /\ s \notin message.open
                \/ s \in message.open /\ incoming'[s] = incoming[s] \o [i \in 1 .. message.copies |-> Len(messages) + 1]
  <2>1. incoming[s] \in Seq(Nat) /\ received[s] \in Seq(Nat)
    BY <1>1 DEF BusTypes
  <2>2. CASE s \notin Subscribed
    BY <1>1, <1>2, <2>1, <2>2
  <2>3. CASE s \in Subscribed
    <3>1. incoming'[s] = incoming[s] \o [i \in 1 .. copies |-> m]
        BY <1>1, <2>3
    <3>2. PICK news : news = [i \in 1 .. copies |-> m]
        OBVIOUS
    <3>3. m \in Nat /\ copies \in Nat
        BY <1>3
    <3>4. news \in Seq(Nat)
        BY <3>2, <3>3
    <3>5. incoming'[s] \in Seq(Nat)
        BY <2>1, <3>1, <3>2, <3>4
    <3> QED
        BY <1>2, <2>1, <2>3, <3>1, <3>5
  <2> QED
    BY <2>2, <2>3
<1>5. BusTypes'
  <2>1. incoming' \in [Subscribers -> Seq(Nat)]
    BY <1>1, <1>4
  <2>2. goroutines' \subseteq (DOMAIN messages') \X Subscribers
    BY <1>1, <1>3 DEF BusTypes
  <2> QED
    BY <1>1, <1>3, <2>1, <2>2 DEF BusTypes
<1>6. ASSUME NEW s \in Subscribers PROVE BusRuns(s)'
  <2>1. /\ IsInjective(ranWith[s])
        /\ \A i \in DOMAIN ranWith[s] : ranWith[s][i] \in DOMAIN messages /\ <<ranWith[s][i], s>> \notin goroutines
        /\ \A x \in DOMAIN messages : s \in messages[x].to <=> x \in ToSet(ranWith[s]) \/ <<x, s>> \in goroutines
    BY DEF BusesInvariant, BusRuns
  <2>2. m \notin DOMAIN messages /\ m \notin ToSet(ranWith[s]) /\ \A x \in DOMAIN messages : x # m
    <3>1. m \notin DOMAIN messages /\ \A x \in DOMAIN messages : x # m
        BY <1>3
    <3>2. \A x \in ToSet(ranWith[s]) : x \in DOMAIN messages
        BY <2>1 DEF ToSet
    <3> QED
        BY <3>1, <3>2
  <2>3. /\ <<m, s>> \in goroutines' <=> s \in topic
        /\ \A x \in DOMAIN messages : <<x, s>> \in goroutines' <=> <<x, s>> \in goroutines
    BY <1>1, <2>2 DEF BusTypes
  <2>4. \A i \in DOMAIN ranWith[s] : ranWith[s][i] \in DOMAIN messages' /\ <<ranWith[s][i], s>> \notin goroutines'
    <3>1. \A x \in DOMAIN messages : x \in DOMAIN messages'
        BY <1>3
    <3> QED
        BY <2>1, <2>3, <3>1
  <2>5. ASSUME NEW x \in DOMAIN messages'
        PROVE  s \in messages'[x].to <=> x \in ToSet(ranWith[s]) \/ <<x, s>> \in goroutines'
    <3>1. CASE x \in DOMAIN messages
        BY <1>3, <2>1, <2>3, <3>1
    <3>2. CASE x = m
        BY <1>2, <1>3, <2>2, <2>3, <3>2
    <3> QED
        BY <1>3, <3>1, <3>2
  <2> QED
    BY <1>1, <2>1, <2>4, <2>5 DEF BusRuns
<1>7. ASSUME NEW s \in Subscribers PROVE RedisRuns(s)'
  <2>1. RedisRuns(s) /\ Orderly(messages, s, received[s], incoming[s])
    BY DEF BusesInvariant, RedisRuns
  <2>2. PICK log \in Seq(SentMessages), posted \in SentMessages, got \in Seq(Nat), coming \in Seq(Nat), more \in Seq(Nat) :
            log = messages /\ posted = message /\ got = received[s] /\ coming = incoming[s] /\ more = incoming'[s]
    BY <1>2, <1>3, <1>4
  <2>3. \/ more = coming /\ s \notin posted.open
        \/ s \in posted.open /\ more = coming \o [i \in 1 .. posted.copies |-> Len(log) + 1]
    BY <1>4, <2>2
  <2>4. Orderly(Append(log, posted), s, got, more)
    BY <2>1, <2>2, <2>3, Sent
  <2>5. /\ NoGap(log, s, got) => NoGap(Append(log, posted), s, got)
        /\ NothingLost(log, s, got, coming) => NothingLost(Append(log, posted), s, got, more)
    BY <2>1, <2>2, <2>3, SentAll
  <2>6. messages' = Append(log, posted) /\ received'[s] = got
    BY <1>1, <2>2
  <2>7. s \in posted.open <=> subscription[s] = "open"
    BY <1>2, <2>2 DEF Subscribed
  <2>8. subscription'[s] = "none" => incoming'[s] = <<>>
    BY <1>1, <2>1, <2>2, <2>3, <2>7 DEF RedisRuns
  <2>9. calls'[s] = 0 =>
           subscription'[s] = "none" /\ received'[s] = <<>> /\ \A k \in DOMAIN messages' : s \notin messages'[k].open
    <3> SUFFICES ASSUME calls[s] = 0
                 PROVE  subscription[s] = "none" /\ received[s] = <<>> /\ \A k \in DOMAIN messages' : s \notin messages'[k].open
        BY <1>1
    <3>1. subscription[s] = "none" /\ received[s] = <<>> /\ \A k \in DOMAIN messages : s \notin messages[k].open
        BY <2>1 DEF RedisRuns
    <3>2. s \notin message.open
        BY <2>2, <2>7, <3>1
    <3>3. ASSUME NEW k \in DOMAIN messages' PROVE s \notin messages'[k].open
      <4>1. CASE k \in DOMAIN messages
        BY <1>3, <3>1, <4>1
      <4>2. CASE k = m
        BY <1>3, <3>2, <4>2
      <4> QED
        BY <1>3, <4>1, <4>2
    <3> QED
        BY <3>1, <3>3
  <2>10. calls'[s] = 1 => NoGap(messages', s, received'[s])
    BY <1>1, <2>1, <2>2, <2>5, <2>6 DEF RedisRuns
  <2>11. calls'[s] = 1 /\ subscription'[s] = "open" => NothingLost(messages', s, received'[s], incoming'[s])
    BY <1>1, <2>1, <2>2, <2>5, <2>6 DEF RedisRuns
  <2>12. Orderly(messages', s, received'[s], incoming'[s])
    BY <2>2, <2>4, <2>6
  <2> QED
    BY <2>8, <2>9, <2>10, <2>11, <2>12 DEF RedisRuns
<1> QED
    BY <1>5, <1>6, <1>7 DEF BusesInvariant

\* A step of one subscription of Redis.
LEMMA OneSubscription ==
    ASSUME BusesInvariant, BusTypes', NEW s \in Subscribers, RedisRuns(s)',
           UNCHANGED <<messages, goroutines, ranWith>>,
           \A t \in Subscribers : t # s =>
              /\ subscription'[t] = subscription[t] /\ incoming'[t] = incoming[t]
              /\ received'[t] = received[t] /\ calls'[t] = calls[t]
    PROVE  BusesInvariant'
<1>1. \A t \in Subscribers : BusRuns(t)'
    BY DEF BusesInvariant, BusRuns
<1>2. ASSUME NEW t \in Subscribers PROVE RedisRuns(t)'
  <2>1. CASE t = s
    BY <2>1
  <2>2. CASE t # s
    <3>1. RedisRuns(t)
        BY DEF BusesInvariant
    <3> QED
        BY <2>2, <3>1 DEF RedisRuns
  <2> QED
    BY <2>1, <2>2
<1> QED
    BY <1>1, <1>2 DEF BusesInvariant

LEMMA SubscribeKeeps ==
    ASSUME BusesInvariant, NEW s \in Subscribers, Subscribe(s)
    PROVE  BusesInvariant'
<1>1. /\ BusTypes /\ RedisRuns(s) /\ subscription[s] = "none" /\ subscription' = [subscription EXCEPT ![s] = "open"]
      /\ calls' = [calls EXCEPT ![s] = @ + 1] /\ UNCHANGED <<messages, goroutines, ranWith, topic, incoming, received>>
    BY DEF BusesInvariant, Subscribe
<1>2. BusTypes'
    BY <1>1 DEF BusTypes
<1>3. calls[s] \in Nat /\ calls'[s] = calls[s] + 1 /\ subscription'[s] = "open"
    BY <1>1 DEF BusTypes
<1>4. RedisRuns(s)'
  <2>1. calls'[s] # 0 /\ (calls'[s] = 1 => calls[s] = 0)
    BY <1>3
  <2>2. Orderly(messages', s, received'[s], incoming'[s])
    BY <1>1 DEF RedisRuns
  <2>3. calls[s] = 0 => NoGap(messages', s, received'[s]) /\ NothingLost(messages', s, received'[s], incoming'[s])
    BY <1>1 DEF RedisRuns, NoGap, NothingLost
  <2> QED
    BY <1>3, <2>1, <2>2, <2>3 DEF RedisRuns
<1>5. \A t \in Subscribers : t # s => subscription'[t] = subscription[t] /\ calls'[t] = calls[t]
    BY <1>1 DEF BusTypes
<1> QED
    BY <1>1, <1>2, <1>4, <1>5, OneSubscription

LEMMA UnsubscribeKeeps ==
    ASSUME BusesInvariant, NEW s \in Subscribers, Unsubscribe(s)
    PROVE  BusesInvariant'
<1>1. /\ BusTypes /\ RedisRuns(s) /\ subscription[s] = "open" /\ subscription' = [subscription EXCEPT ![s] = "none"]
      /\ incoming' = [incoming EXCEPT ![s] = <<>>] /\ UNCHANGED <<messages, goroutines, ranWith, topic, received, calls>>
    BY DEF BusesInvariant, Unsubscribe
<1>2. BusTypes'
    BY <1>1 DEF BusTypes
<1>3. incoming'[s] = <<>> /\ subscription'[s] = "none"
    BY <1>1 DEF BusTypes
<1>4. Orderly(messages, s, received[s], <<>>)
    BY <1>1 DEF RedisRuns, Orderly, Brought, SentInOrder
<1>5. RedisRuns(s)'
    BY <1>1, <1>3, <1>4 DEF RedisRuns
<1>6. \A t \in Subscribers : t # s => subscription'[t] = subscription[t] /\ incoming'[t] = incoming[t]
    BY <1>1 DEF BusTypes
<1> QED
    BY <1>1, <1>2, <1>5, <1>6, OneSubscription

LEMMA ReceiveKeeps ==
    ASSUME BusesInvariant, NEW s \in Subscribers, Receive(s)
    PROVE  BusesInvariant'
<1>1. /\ BusTypes /\ RedisRuns(s) /\ subscription[s] = "open" /\ incoming[s] # <<>>
      /\ UNCHANGED <<messages, goroutines, ranWith, topic, calls>>
    BY DEF BusesInvariant, Receive
<1>2. PICK log \in Seq(SentMessages), got \in Seq(Nat), coming \in Seq(Nat) :
          log = messages /\ got = received[s] /\ coming = incoming[s]
    BY <1>1 DEF BusTypes
<1>3. PICK m \in Nat : m = Head(coming)
    BY <1>1, <1>2
<1>4. /\ received' = [received EXCEPT ![s] = IF HandedOver(m) THEN Append(@, m) ELSE @]
      /\ subscription' = [subscription EXCEPT ![s] = IF GoesOn(m) THEN "open" ELSE "none"]
      /\ incoming' = [incoming EXCEPT ![s] = IF GoesOn(m) THEN Tail(@) ELSE <<>>]
    BY <1>2, <1>3 DEF Receive
<1>5. PICK more \in Seq(Nat), rest \in Seq(Nat) : more = Append(got, m) /\ rest = Tail(coming)
  <2>1. Append(got, m) \in Seq(Nat)
    OBVIOUS
  <2>2. Tail(coming) \in Seq(Nat)
    BY <1>1, <1>2
  <2> QED
    BY <2>1, <2>2
<1>6. /\ received'[s] = IF HandedOver(m) THEN more ELSE got
      /\ subscription'[s] = IF GoesOn(m) THEN "open" ELSE "none"
      /\ incoming'[s] = IF GoesOn(m) THEN rest ELSE <<>>
    BY <1>1, <1>2, <1>4, <1>5 DEF BusTypes
<1>7. BusTypes'
  <2>1. PICK last \in Seq(Nat) : last = received'[s] /\ received' = [received EXCEPT ![s] = last]
    BY <1>2, <1>4, <1>5, <1>6
  <2>2. PICK left \in Seq(Nat) : left = incoming'[s] /\ incoming' = [incoming EXCEPT ![s] = left]
    <3>1. incoming'[s] \in Seq(Nat)
        BY <1>5, <1>6
    <3>2. incoming' = [incoming EXCEPT ![s] = incoming'[s]]
        BY <1>2, <1>4, <1>5, <1>6
    <3> QED
        BY <3>1, <3>2
  <2> QED
    BY <1>1, <1>4, <2>1, <2>2 DEF BusTypes
<1>8. Orderly(log, s, got, coming) /\ coming # <<>>
    BY <1>1, <1>2 DEF RedisRuns
<1>9. /\ Orderly(log, s, more, rest) /\ Orderly(log, s, got, rest)
      /\ Orderly(log, s, more, <<>>) /\ Orderly(log, s, got, <<>>)
    BY <1>3, <1>5, <1>8, HandOver
<1>10. /\ calls[s] # 0
       /\ calls[s] = 1 => NoGap(log, s, got) /\ NothingLost(log, s, got, coming)
    BY <1>1, <1>2 DEF RedisRuns
<1>11. calls[s] = 1 => NothingLost(log, s, more, rest) /\ NoGap(log, s, more)
    BY <1>3, <1>5, <1>8, <1>10, Reading
<1>12. GoesOn(m) => HandedOver(m)
    BY DEF GoesOn, HandedOver
<1>13. RedisRuns(s)'
  <2>1. Orderly(messages', s, received'[s], incoming'[s])
    BY <1>1, <1>2, <1>6, <1>9
  <2>2. calls'[s] = 1 => NoGap(messages', s, received'[s])
    BY <1>1, <1>2, <1>6, <1>10, <1>11
  <2>3. calls'[s] = 1 /\ subscription'[s] = "open" => NothingLost(messages', s, received'[s], incoming'[s])
    BY <1>1, <1>2, <1>6, <1>11, <1>12
  <2>4. subscription'[s] = "none" => incoming'[s] = <<>>
    BY <1>6
  <2> QED
    BY <1>1, <1>10, <2>1, <2>2, <2>3, <2>4 DEF RedisRuns
<1>14. \A t \in Subscribers : t # s =>
           subscription'[t] = subscription[t] /\ incoming'[t] = incoming[t] /\ received'[t] = received[t]
    BY <1>1, <1>4 DEF BusTypes
<1> QED
    BY <1>1, <1>7, <1>13, <1>14, OneSubscription

LEMMA BusesStep ==
    ASSUME BusesInvariant, [BusesNext]_busVars
    PROVE  BusesInvariant'
<1>1. CASE (\E s \in Subscribers : Attach(s)) \/ UNCHANGED busVars
  <2>1. UNCHANGED <<messages, goroutines, ranWith, subscription, incoming, received, calls>> /\ topic' \in SUBSET Subscribers
    BY <1>1 DEF Attach, busVars, BusesInvariant, BusTypes
  <2> QED
    BY <2>1 DEF BusesInvariant, BusTypes, BusRuns, RedisRuns
<1>2. CASE \E kind \in MessageKinds, copies \in 0 .. 2 : PublishToAll(kind, copies)
    BY <1>2, PublishKeeps
<1>3. CASE \E s \in Subscribers : \/ Subscribe(s) \/ Receive(s) \/ Unsubscribe(s)
                                  \/ \E m \in 1 .. MaxMessages : RunHandler(m, s)
    BY <1>3, SubscribeKeeps, ReceiveKeeps, UnsubscribeKeeps, RunHandlerKeeps
<1> QED
    BY <1>1, <1>2, <1>3 DEF BusesNext

LEMMA BusesHold ==
    ASSUME BusesInvariant
    PROVE  BusesKeepTheirWord
<1> SUFFICES ASSUME NEW s \in Subscribers
             PROVE  /\ IsInjective(ranWith[s])
                    /\ \A m \in DOMAIN messages : s \in messages[m].to <=> m \in ToSet(ranWith[s]) \/ <<m, s>> \in goroutines
                    /\ \A i, j \in DOMAIN received[s] : i < j =>
                          /\ received[s][i] <= received[s][j]
                          /\ received[s][i] = received[s][j] => messages[received[s][i]].copies = 2
                    /\ \A i \in DOMAIN received[s] : s \in messages[received[s][i]].open
                    /\ calls[s] = 1 /\ received[s] # <<>> =>
                          \A m \in 1 .. Last(received[s]) - 1 :
                              s \in messages[m].open /\ messages[m].copies > 0 => m \in ToSet(received[s])
    BY DEF BusesKeepTheirWord
<1>1. /\ IsInjective(ranWith[s])
      /\ \A m \in DOMAIN messages : s \in messages[m].to <=> m \in ToSet(ranWith[s]) \/ <<m, s>> \in goroutines
    BY DEF BusesInvariant, BusRuns
<1>2. SentInOrder(messages, received[s]) /\ Brought(messages, s, received[s]) /\ (calls[s] = 1 => NoGap(messages, s, received[s]))
    BY DEF BusesInvariant, RedisRuns, Orderly
<1>3. \A i, j \in DOMAIN received[s] : i < j =>
          /\ received[s][i] <= received[s][j]
          /\ received[s][i] = received[s][j] => messages[received[s][i]].copies = 2
    BY <1>2 DEF SentInOrder, Follows
<1>4. \A i \in DOMAIN received[s] : s \in messages[received[s][i]].open
    BY <1>2 DEF Brought
<1> QED
    BY <1>1, <1>2, <1>3, <1>4 DEF NoGap, Last

\* However goroutines, subscriptions and repeated PUBLISHes interleave: a handler
\* runs once with each message of its time, and what a RedisBus hands over is in
\* the order of Publish and without a gap in one call (BusesKeepTheirWord).
THEOREM BusesDeliver == BusesSpec => []BusesKeepTheirWord
BY InitBuses, BusesStep, BusesHold, PTL DEF BusesSpec

-----------------------------------------------------------------------------
(* Sketches: which columns a key has, and what is counted there.            *)

\* A remainder is the only one in its range.
LEMMA OneRemainder ==
    ASSUME NEW w \in Nat \ {0}, NEW p \in Int, NEW q \in Int, NEW a \in 0 .. w - 1, NEW b \in 0 .. w - 1,
           w * p + a = w * q + b
    PROVE  a = b
<1>1. w * (p - q) = b - a
    OBVIOUS
<1>2. p - q \in Int
    OBVIOUS
<1>3. CASE p - q >= 1
  <2>1. w * (p - q) >= w
    BY <1>2, <1>3
  <2> QED
    BY <1>1, <2>1
<1>4. CASE p - q <= -1
  <2>1. w * (p - q) <= -w
    BY <1>2, <1>4
  <2> QED
    BY <1>1, <2>1
<1>5. CASE p - q = 0
    BY <1>1, <1>5
<1> QED
    BY <1>2, <1>3, <1>4, <1>5

LEMMA Divided ==
    ASSUME NEW w \in Nat \ {0}, NEW x \in Int
    PROVE  /\ x \div w \in Int /\ x % w \in 0 .. w - 1
           /\ x = w * (x \div w) + (x % w)
    OBVIOUS

LEMMA RemainderOf ==
    ASSUME NEW w \in Nat \ {0}, NEW p \in Int, NEW a \in 0 .. w - 1
    PROVE  (w * p + a) % w = a
<1> DEFINE x == w * p + a
<1>1. x \in Int
    OBVIOUS
<1>2. x = w * (x \div w) + (x % w) /\ x \div w \in Int /\ x % w \in 0 .. w - 1
    BY <1>1, Divided
<1> HIDE DEF x
<1>3. w * (x \div w) + (x % w) = w * p + a
    BY <1>2 DEF x
<1> QED
    BY <1>2, <1>3, OneRemainder DEF x

\* Wrapping at a multiple of the width changes no column.
LEMMA Wrapped ==
    ASSUME NEW s \in Nat \ {0}, NEW w \in Nat \ {0}, s % w = 0, NEW x \in Int
    PROVE  (x % s) % w = x % w
<1> DEFINE k == s \div w
           p == x \div s
           r == x % s
           q == r \div w
           a == r % w
<1>1. k \in Int /\ s = w * k
    BY Divided
<1>2. p \in Int /\ r \in Int /\ x = s * p + r
    BY Divided
<1>3. q \in Int /\ a \in 0 .. w - 1 /\ r = w * q + a
    BY <1>2, Divided
<1> HIDE DEF k, p, r, q, a
<1>4. k * p + q \in Int
    BY <1>1, <1>2, <1>3
<1>5. x = w * (k * p + q) + a
  <2>1. s * p = w * (k * p)
    BY <1>1, <1>2
  <2>2. w * (k * p + q) = w * (k * p) + w * q
    BY <1>1, <1>2, <1>3
  <2> QED
    BY <1>2, <1>3, <2>1, <2>2, <1>4
<1>6. x % w = a
    BY <1>3, <1>4, <1>5, RemainderOf
<1> QED
    BY <1>6 DEF a, r

LEMMA Shifted ==
    ASSUME NEW w \in Nat \ {0}, NEW x \in Int, NEW y \in Int, NEW c \in Int, x % w = y % w
    PROVE  (x + c) % w = (y + c) % w
<1> DEFINE p == x \div w
           q == y \div w
           u == (x + c) \div w
           v == (x + c) % w
           a == x % w
<1>1. p \in Int /\ x = w * p + a /\ q \in Int /\ y = w * q + a
    BY Divided
<1>2. u \in Int /\ v \in 0 .. w - 1 /\ x + c = w * u + v
  <2>1. x + c \in Int
    OBVIOUS
  <2> QED
    BY <2>1, Divided
<1>3. a \in 0 .. w - 1
    BY Divided
<1> HIDE DEF p, q, u, v, a
<1>4. u + q - p \in Int
    BY <1>1, <1>2
<1>5. y + c = w * (u + q - p) + v
  <2>1. w * (u + q - p) = w * u + w * q - w * p
    BY <1>1, <1>2
  <2>2. w * p \in Int /\ w * q \in Int /\ w * u \in Int
    BY <1>1, <1>2
  <2> QED
    BY <1>1, <1>2, <1>3, <2>1, <2>2
<1>6. (y + c) % w = v
    BY <1>2, <1>4, <1>5, RemainderOf
<1> QED
    BY <1>6 DEF v

SketchesSpec == SketchesInit /\ [][SketchesNext]_sketchVars

SketchesInvariant ==
    /\ fnv \in [Items -> Word] /\ added \in [Items -> Nat]
    /\ matrix \in [HashRows -> [0 .. Width - 1 -> Nat]]
    /\ additions \in Nat /\ additions <= MaxCount
    /\ \A i \in Items : added[i] > 0 => BitsOf(i) \subseteq bitset
    /\ \A r \in HashRows, c \in 0 .. Width - 1 : matrix[r][c] <= additions
    /\ \A i \in Items, r \in HashRows : added[i] <= matrix[r][Column(i, r)]
    /\ \A i \in Items, r, s \in HashRows : matrix[r][Column(i, r)] = matrix[s][Column(i, s)]

LEMMA SketchNumbers ==
    /\ WordSpan \in Nat \ {0} /\ Width \in Nat \ {0} /\ Depth \in Nat \ {0} /\ Golden \in Nat
    /\ MaxCount \in Nat /\ MaxCount < WordSpan /\ WordSpan % Width = 0
    BY SketchesAssumption

LEMMA ColumnIs ==
    ASSUME fnv \in [Items -> Word], NEW i \in Items, NEW r \in HashRows
    PROVE  /\ Column(i, r) \in 0 .. Width - 1
           /\ fnv[i] + r * Golden \in Int
           /\ Column(i, r) = (fnv[i] + r * Golden) % Width
<1>1. fnv[i] \in Int /\ r \in Int
    BY SketchNumbers DEF Word, HashRows
<1>2. r * Golden \in Int
    BY <1>1, SketchNumbers
<1>3. fnv[i] + r * Golden \in Int
    BY <1>1, <1>2
<1>4. ((fnv[i] + r * Golden) % WordSpan) % Width = (fnv[i] + r * Golden) % Width
    BY <1>3, SketchNumbers, Wrapped
<1>5. (fnv[i] + r * Golden) % Width \in 0 .. Width - 1
    BY <1>3, SketchNumbers, Divided
<1> QED
    BY <1>3, <1>4, <1>5 DEF Column, Hash

\* Keys that meet in one row meet in all.
LEMMA MeetInAll ==
    ASSUME fnv \in [Items -> Word], NEW i \in Items, NEW j \in Items, NEW r \in HashRows, NEW s \in HashRows,
           Column(i, r) = Column(j, r)
    PROVE  Column(i, s) = Column(j, s)
<1>1. fnv[i] \in Int /\ fnv[j] \in Int /\ r \in Int /\ s \in Int
    BY SketchNumbers DEF Word, HashRows
<1>2. r * Golden \in Int /\ s * Golden \in Int
    BY <1>1, SketchNumbers
<1> DEFINE c == s * Golden - r * Golden
           x == fnv[i] + r * Golden
           y == fnv[j] + r * Golden
<1>3. c \in Int /\ x \in Int /\ y \in Int
    BY <1>1, <1>2
<1>4. x % Width = y % Width
    BY ColumnIs
<1>5. (x + c) % Width = (y + c) % Width
    BY ONLY <1>3, <1>4, SketchNumbers, Shifted
<1>6. x + c = fnv[i] + s * Golden /\ y + c = fnv[j] + s * Golden
    BY <1>1, <1>2
<1> QED
    BY <1>5, <1>6, ColumnIs

LEMMA InitSketches == SketchesInit => SketchesInvariant
<1> SUFFICES ASSUME SketchesInit PROVE SketchesInvariant
    OBVIOUS
<1>1. fnv \in [Items -> Word] /\ added \in [Items -> Nat] /\ matrix \in [HashRows -> [0 .. Width - 1 -> Nat]]
    BY SketchNumbers DEF SketchesInit
<1>2. additions = 0 /\ (\A i \in Items : added[i] = 0) /\ \A r \in HashRows, c \in 0 .. Width - 1 : matrix[r][c] = 0
    BY DEF SketchesInit
<1>3. \A i \in Items, r \in HashRows : matrix[r][Column(i, r)] = 0
    BY <1>1, <1>2, ColumnIs
<1> QED
    BY <1>1, <1>2, <1>3, SketchNumbers DEF SketchesInvariant

LEMMA AddItemKeeps ==
    ASSUME SketchesInvariant, NEW i \in Items, AddItem(i)
    PROVE  SketchesInvariant'
<1>1. /\ fnv \in [Items -> Word] /\ added \in [Items -> Nat] /\ additions \in Nat
      /\ matrix \in [HashRows -> [0 .. Width - 1 -> Nat]]
      /\ fnv' = fnv /\ additions' = additions + 1 /\ additions < MaxCount
    BY DEF SketchesInvariant, AddItem
<1>2. \A j \in Items, r \in HashRows : Column(j, r) \in 0 .. Width - 1 /\ Column(j, r)' = Column(j, r)
    BY <1>1, ColumnIs DEF Column, Hash
<1>3. \A r \in HashRows, c \in 0 .. Width - 1 :
        /\ matrix[r][c] \in Nat /\ matrix[r][c] + 1 < WordSpan
        /\ (matrix[r][c] + 1) % WordSpan = matrix[r][c] + 1
  <2> SUFFICES ASSUME NEW r \in HashRows, NEW c \in 0 .. Width - 1
               PROVE  /\ matrix[r][c] \in Nat /\ matrix[r][c] + 1 < WordSpan
                      /\ (matrix[r][c] + 1) % WordSpan = matrix[r][c] + 1
    OBVIOUS
  <2>1. matrix[r][c] \in Nat /\ matrix[r][c] <= additions
    BY <1>1 DEF SketchesInvariant
  <2>2. matrix[r][c] + 1 \in 0 .. WordSpan - 1
    BY <1>1, <2>1, SketchNumbers
  <2>3. (WordSpan * 0 + (matrix[r][c] + 1)) % WordSpan = matrix[r][c] + 1
    BY <2>2, SketchNumbers, RemainderOf
  <2> QED
    BY <2>1, <2>2, <2>3, SketchNumbers
<1>4. \A r \in HashRows, c \in 0 .. Width - 1 :
        matrix'[r][c] = IF c = Column(i, r) THEN matrix[r][c] + 1 ELSE matrix[r][c]
    BY <1>1, <1>2, <1>3 DEF AddItem
<1>5. matrix' \in [HashRows -> [0 .. Width - 1 -> Nat]]
  <2>1. \A r \in HashRows : [matrix[r] EXCEPT ![Column(i, r)] = (@ + 1) % WordSpan] \in [0 .. Width - 1 -> Nat]
    BY <1>1, <1>2, <1>3
  <2> QED
    BY <2>1 DEF AddItem
<1>6. added' \in [Items -> Nat] /\ \A j \in Items : added'[j] = IF j = i THEN added[j] + 1 ELSE added[j]
    BY <1>1 DEF AddItem
<1>7. \A j \in Items : added'[j] > 0 => BitsOf(j)' \subseteq bitset'
  <2>1. \A j \in Items : BitsOf(j)' = BitsOf(j)
    BY <1>1 DEF BitsOf, Hash
  <2>2. bitset' = bitset \cup BitsOf(i)
    BY DEF AddItem
  <2>3. \A j \in Items : added[j] > 0 => BitsOf(j) \subseteq bitset
    BY DEF SketchesInvariant
  <2> QED
    BY <1>6, <2>1, <2>2, <2>3
<1>8. \A r \in HashRows, c \in 0 .. Width - 1 : matrix'[r][c] <= additions'
  <2> SUFFICES ASSUME NEW r \in HashRows, NEW c \in 0 .. Width - 1 PROVE matrix'[r][c] <= additions'
    OBVIOUS
  <2>1. matrix[r][c] <= additions
    BY DEF SketchesInvariant
  <2>2. matrix[r][c] \in Nat /\ matrix'[r][c] \in {matrix[r][c], matrix[r][c] + 1}
    BY <1>3, <1>4
  <2> QED
    BY <1>1, <2>1, <2>2
<1>9. \A j \in Items, r \in HashRows : added'[j] <= matrix'[r][Column(j, r)']
  <2> SUFFICES ASSUME NEW j \in Items, NEW r \in HashRows PROVE added'[j] <= matrix'[r][Column(j, r)]
    BY <1>2
  <2>1. added[j] <= matrix[r][Column(j, r)] /\ added[j] \in Nat /\ matrix[r][Column(j, r)] \in Nat
    BY <1>1, <1>2 DEF SketchesInvariant
  <2>2. matrix'[r][Column(j, r)] = IF Column(j, r) = Column(i, r) THEN matrix[r][Column(j, r)] + 1 ELSE matrix[r][Column(j, r)]
    BY <1>2, <1>4
  <2> QED
    BY <1>6, <2>1, <2>2
<1>10. \A j \in Items, r, s \in HashRows : matrix'[r][Column(j, r)'] = matrix'[s][Column(j, s)']
  <2> SUFFICES ASSUME NEW j \in Items, NEW r \in HashRows, NEW s \in HashRows
               PROVE  matrix'[r][Column(j, r)] = matrix'[s][Column(j, s)]
    BY <1>2
  <2>1. matrix[r][Column(j, r)] = matrix[s][Column(j, s)]
    BY DEF SketchesInvariant
  <2>2. matrix'[r][Column(j, r)] = IF Column(j, r) = Column(i, r) THEN matrix[r][Column(j, r)] + 1 ELSE matrix[r][Column(j, r)]
    BY <1>2, <1>4
  <2>3. matrix'[s][Column(j, s)] = IF Column(j, s) = Column(i, s) THEN matrix[s][Column(j, s)] + 1 ELSE matrix[s][Column(j, s)]
    BY <1>2, <1>4
  <2>4. Column(j, r) = Column(i, r) <=> Column(j, s) = Column(i, s)
    BY <1>1, MeetInAll
  <2> QED
    BY <2>1, <2>2, <2>3, <2>4
<1>11. additions' \in Nat /\ additions' <= MaxCount
    BY <1>1, SketchNumbers
<1>12. fnv' \in [Items -> Word]
    BY <1>1
<1> QED
    BY <1>5, <1>6, <1>7, <1>8, <1>9, <1>10, <1>11, <1>12 DEF SketchesInvariant

LEMMA SketchesStep == SketchesInvariant /\ [SketchesNext]_sketchVars => SketchesInvariant'
<1> SUFFICES ASSUME SketchesInvariant, [SketchesNext]_sketchVars PROVE SketchesInvariant'
    OBVIOUS
<1>1. CASE SketchesNext
    BY <1>1, AddItemKeeps DEF SketchesNext
<1>2. CASE UNCHANGED sketchVars
    BY <1>2 DEF sketchVars, SketchesInvariant, BitsOf, Column, Hash
<1> QED
    BY <1>1, <1>2

\* As the rows agree, the least is that of any.
LEMMA EstimateIs ==
    ASSUME SketchesInvariant, NEW i \in Items, NEW r \in HashRows
    PROVE  EstimateFrequency(i) = matrix[r][Column(i, r)]
<1> DEFINE v == matrix[r][Column(i, r)]
           S == {matrix[s][Column(i, s)] : s \in HashRows}
<1>1. v \in Nat
    BY ColumnIs DEF SketchesInvariant
<1>2. \A s \in HashRows : matrix[s][Column(i, s)] = v
    BY DEF SketchesInvariant
<1> HIDE DEF v
<1>3. S = {v}
    BY <1>2
<1>4. Min({v}) = v
    BY <1>1 DEF Min
<1> QED
    BY <1>3, <1>4 DEF EstimateFrequency, v

LEMMA SketchesHold == SketchesInvariant => SketchesNeverMiss
<1> SUFFICES ASSUME SketchesInvariant PROVE SketchesNeverMiss
    OBVIOUS
<1>1. NeverDenied
    BY DEF NeverDenied, MayContain, BitsOf, SketchesInvariant
<1>2. EstimatesBounded
  <2> SUFFICES ASSUME NEW i \in Items
               PROVE  /\ added[i] <= EstimateFrequency(i) /\ EstimateFrequency(i) <= additions
                      /\ \A r \in HashRows : matrix[r][Column(i, r)] = EstimateFrequency(i)
    BY DEF EstimatesBounded
  <2>1. 0 \in HashRows
    BY SketchNumbers DEF HashRows
  <2>2. \A r \in HashRows : matrix[r][Column(i, r)] = EstimateFrequency(i)
    BY EstimateIs
  <2>3. Column(i, 0) \in 0 .. Width - 1
    BY <2>1, ColumnIs DEF SketchesInvariant
  <2>4. added[i] <= matrix[0][Column(i, 0)] /\ matrix[0][Column(i, 0)] <= additions
    BY <2>1, <2>3 DEF SketchesInvariant
  <2> QED
    BY <2>1, <2>2, <2>4
<1> QED
    BY <1>1, <1>2 DEF SketchesNeverMiss

\* A key that was added is never denied, and estimated at no less than it was added,
\* no more than all was; every row says the same (bloom/bloom.go:44-64, 134-169).
THEOREM SketchesAreSafe == SketchesSpec => []SketchesNeverMiss
BY InitSketches, SketchesStep, SketchesHold, PTL DEF SketchesSpec

-----------------------------------------------------------------------------
(* Frames: where the frames on the way begin, and what is in them.          *)

FramesSpec == FramesInit /\ [][FramesNext]_frameVars

\* What comes before n bytes of payload, and that with them; serving tells whose frame.
HeadLength(serving, n) == (IF n <= Short THEN 2 ELSE 4) + (IF serving THEN 0 ELSE 1)
FrameLength(serving, m) == HeadLength(serving, Len(m)) + Len(m)

\* The frame of message m is in s, after c other bytes.
Announced(s, c, n) ==
    /\ n <= Short => s[c + 2] = n
    /\ n > Short => s[c + 2] = Code16 /\ s[c + 3] = (n \div Base) % Base /\ s[c + 4] = n % Base
Carries(serving, s, c, m) ==
    \E k \in {0, 1} :
        /\ IF serving THEN k = 0 ELSE s[c + HeadLength(serving, Len(m))] = k
        /\ \A i \in 1 .. Len(m) : s[c + HeadLength(serving, Len(m)) + i] = (m[i] + k) % 2
IsFrameAt(serving, s, c, m) == Announced(s, c, Len(m)) /\ Carries(serving, s, c, m)

\* Message i, one of those that did not arrive yet, comes after at[i] bytes.
Waiting == Len(arrived) + 1 .. Len(sent)
InFlight(at) ==
    /\ at[Len(arrived) + 1] = 0 /\ at[Len(sent) + 1] = Len(stream)
    /\ \A i \in Waiting : at[i + 1] = at[i] + FrameLength(serves, sent[i]) /\ IsFrameAt(serves, stream, at[i], sent[i])
    /\ \A i \in Waiting, j \in Waiting \cup {Len(sent) + 1} : i < j => at[i] + FrameLength(serves, sent[i]) <= at[j]

AllShort == \A i \in DOMAIN sent : Len(sent[i]) < Base * Base

FramesKept ==
    /\ stream \in Seq(Nat) /\ arrived \in Seq(Payloads) /\ Len(arrived) <= Len(sent)
    /\ \A i \in 1 .. Len(arrived) : arrived[i] = sent[i]
    /\ \E at \in [Nat -> Nat] : InFlight(at)

FramesInvariant ==
    /\ serves \in BOOLEAN /\ sent \in Seq(Payloads)
    /\ AllShort => FramesKept

LEMMA PayloadIs ==
    ASSUME NEW m \in Payloads
    PROVE  m \in Seq({0, 1}) /\ m \in Seq(Nat) /\ Len(m) \in Nat /\ \A i \in 1 .. Len(m) : m[i] \in {0, 1}
BY FramesAssumption

LEMMA FrameNumbers ==
    ASSUME NEW serving \in BOOLEAN, NEW n \in Nat
    PROVE  /\ Short \in Nat /\ Base \in Nat \ {0} /\ Code16 \in Nat /\ Code16 > Short /\ Code64 \in Nat /\ Code64 > Code16
           /\ HeadLength(serving, n) \in Nat /\ HeadLength(serving, n) >= 2 /\ (n > Short => HeadLength(serving, n) >= 4)
           /\ ~serving => HeadLength(serving, n) >= 3 /\ (n > Short => HeadLength(serving, n) >= 5)
BY FramesAssumption DEF HeadLength, Code16, Code64

LEMMA FrameLengthIs ==
    ASSUME NEW serving \in BOOLEAN, NEW m \in Payloads
    PROVE  FrameLength(serving, m) \in Nat /\ FrameLength(serving, m) = HeadLength(serving, Len(m)) + Len(m) /\ FrameLength(serving, m) >= 2
<1>1. Len(m) \in Nat
    BY PayloadIs
<1>2. HeadLength(serving, Len(m)) \in Nat /\ HeadLength(serving, Len(m)) >= 2
    BY <1>1, FrameNumbers
<1> QED
    BY <1>1, <1>2 DEF FrameLength

LEMMA InitFrames == FramesInit => FramesInvariant
<1> SUFFICES ASSUME FramesInit PROVE FramesInvariant
    OBVIOUS
<1>1. sent = <<>> /\ stream = <<>> /\ arrived = <<>> /\ serves \in BOOLEAN
    BY DEF FramesInit
<1>2. Len(sent) = 0 /\ Len(arrived) = 0 /\ Len(stream) = 0 /\ Waiting = {}
    BY <1>1 DEF Waiting
<1> DEFINE at == [n \in Nat |-> 0]
<1>3. at \in [Nat -> Nat] /\ at[1] = 0
    OBVIOUS
<1>4. InFlight(at)
    BY <1>2, <1>3 DEF InFlight
<1>5. FramesKept
    BY <1>1, <1>2, <1>3, <1>4 DEF FramesKept
<1> QED
    BY <1>1, <1>5 DEF FramesInvariant

\* A frame that is copied whole to another place, with the same reader, is still there.
LEMMA Moved ==
    ASSUME NEW serving \in BOOLEAN, NEW s \in Seq(Nat), NEW t \in Seq(Nat), NEW c \in Nat, NEW d \in Nat, NEW m \in Payloads,
           IsFrameAt(serving, s, c, m), \A i \in c + 1 .. c + FrameLength(serving, m) : t[d + (i - c)] = s[i]
    PROVE  IsFrameAt(serving, t, d, m)
<1> DEFINE n == Len(m)
           h == HeadLength(serving, n)
<1>1. n \in Nat /\ h \in Nat /\ h >= 2 /\ FrameLength(serving, m) = h + n
    BY PayloadIs, FrameNumbers, FrameLengthIs
<1>2. (n > Short => h >= 4) /\ (~serving => h >= 3)
    BY PayloadIs, FrameNumbers
<1>3. n \in Nat /\ Short \in Nat
    BY FramesAssumption, PayloadIs
<1> HIDE DEF n, h
<1>4. ASSUME NEW k \in 1 .. h + n PROVE t[d + k] = s[c + k]
  <2>1. c + k \in c + 1 .. c + FrameLength(serving, m) /\ (c + k) - c = k
    BY <1>1
  <2> QED
    BY <2>1
<1>5. t[d + 2] = s[c + 2] /\ (n > Short => t[d + 3] = s[c + 3] /\ t[d + 4] = s[c + 4])
    BY <1>1, <1>2, <1>3, <1>4
<1>6. Announced(t, d, n)
    BY <1>3, <1>5 DEF IsFrameAt, Announced, n
<1>7. t[d + h] = s[c + h]
    BY <1>1, <1>4
<1>8. ASSUME NEW i \in 1 .. n PROVE t[d + h + i] = s[c + h + i]
  <2>1. h + i \in 1 .. h + n /\ d + (h + i) = d + h + i /\ c + (h + i) = c + h + i
    BY <1>1
  <2> QED
    BY <1>4, <2>1
<1>9. Carries(serving, t, d, m)
  <2>1. PICK k \in {0, 1} : /\ IF serving THEN k = 0 ELSE s[c + h] = k
                            /\ \A i \in 1 .. n : s[c + h + i] = (m[i] + k) % 2
    BY DEF IsFrameAt, Carries, h, n
  <2>2. (IF serving THEN k = 0 ELSE t[d + h] = k) /\ \A i \in 1 .. n : t[d + h + i] = (m[i] + k) % 2
    BY <1>7, <1>8, <2>1
  <2> QED
    BY <2>2 DEF Carries, h, n
<1> QED
    BY <1>6, <1>9 DEF IsFrameAt, n

LEMMA Cut ==
    ASSUME NEW s \in Seq(Nat), NEW a \in Nat, NEW b \in Nat, a <= b, b <= Len(s)
    PROVE  /\ SubSeq(s, a + 1, b) \in Seq(Nat) /\ Len(SubSeq(s, a + 1, b)) = b - a
           /\ \A i \in 1 .. b - a : SubSeq(s, a + 1, b)[i] = s[a + i]
<1>1. SubSeq(s, a + 1, b) \in Seq(Nat)
    OBVIOUS
<1>2. Len(SubSeq(s, a + 1, b)) = b - a
    OBVIOUS
<1>3. \A i \in 1 .. b - a : SubSeq(s, a + 1, b)[i] = s[a + i]
    OBVIOUS
<1> QED
    BY <1>1, <1>2, <1>3

LEMMA Concatenated ==
    ASSUME NEW s \in Seq(Nat), NEW t \in Seq(Nat)
    PROVE  /\ s \o t \in Seq(Nat) /\ Len(s \o t) = Len(s) + Len(t)
           /\ \A i \in 1 .. Len(s) : (s \o t)[i] = s[i]
           /\ \A i \in 1 .. Len(t) : (s \o t)[Len(s) + i] = t[i]
<1>1. s \o t \in Seq(Nat)
    OBVIOUS
<1>2. Len(s \o t) = Len(s) + Len(t)
    OBVIOUS
<1>3. \A i \in 1 .. Len(s) : (s \o t)[i] = s[i]
    OBVIOUS
<1>4. \A i \in 1 .. Len(t) : (s \o t)[Len(s) + i] = t[i]
    OBVIOUS
<1> QED
    BY <1>1, <1>2, <1>3, <1>4

\* What a frame of three parts adds to the stream.
Joins(t, s, w, b) ==
    /\ t \in Seq(Nat) /\ Len(t) = Len(s) + 1 + Len(w) + Len(b)
    /\ \A i \in 1 .. Len(s) : t[i] = s[i]
    /\ \A i \in 1 .. Len(w) : t[Len(s) + 1 + i] = w[i]
    /\ \A i \in 1 .. Len(b) : t[Len(s) + 1 + Len(w) + i] = b[i]

LEMMA FrameJoined ==
    ASSUME NEW s \in Seq(Nat), NEW f \in Nat, NEW w \in Seq(Nat), NEW b \in Seq(Nat)
    PROVE  Joins(s \o <<f>> \o w \o b, s, w, b)
<1> DEFINE u == s \o <<f>>
           v == u \o w
           t == v \o b
<1> HIDE DEF t
<1>1. u \in Seq(Nat) /\ Len(u) = Len(s) + 1 /\ \A i \in 1 .. Len(s) : u[i] = s[i]
    OBVIOUS
<1> HIDE DEF u
<1>2. v \in Seq(Nat) /\ Len(v) = Len(u) + Len(w)
    BY <1>1, Concatenated
<1>3. (\A i \in 1 .. Len(u) : v[i] = u[i]) /\ \A i \in 1 .. Len(w) : v[Len(u) + i] = w[i]
    BY <1>1, Concatenated
<1> HIDE DEF v
<1>4. t = v \o b
    BY DEF t
<1>5. t \in Seq(Nat) /\ Len(t) = Len(v) + Len(b)
    BY <1>2, <1>4, Concatenated
<1>6. (\A i \in 1 .. Len(v) : t[i] = v[i]) /\ \A i \in 1 .. Len(b) : t[Len(v) + i] = b[i]
  <2>1. (\A i \in 1 .. Len(v) : (v \o b)[i] = v[i]) /\ \A i \in 1 .. Len(b) : (v \o b)[Len(v) + i] = b[i]
    BY <1>2, Concatenated
  <2> QED
    BY <1>4, <2>1
<1>7. Len(s) \in Nat /\ Len(w) \in Nat /\ Len(b) \in Nat
    OBVIOUS
<1>8. \A i \in 1 .. Len(s) : t[i] = s[i]
  <2>1. Len(u) = Len(s) + 1 /\ Len(v) = Len(s) + 1 + Len(w)
    BY <1>1, <1>2
  <2>2. \A i \in 1 .. Len(s) : i \in 1 .. Len(u) /\ i \in 1 .. Len(v)
    BY <1>7, <2>1
  <2> QED
    BY <1>1, <1>3, <1>6, <2>2
<1>9. \A i \in 1 .. Len(w) : t[Len(s) + 1 + i] = w[i]
  <2>1. \A i \in 1 .. Len(w) : Len(u) + i \in 1 .. Len(v) /\ Len(u) + i = Len(s) + 1 + i
    BY <1>1, <1>2, <1>7
  <2> QED
    BY <1>3, <1>6, <2>1
<1>10. \A i \in 1 .. Len(b) : t[Len(s) + 1 + Len(w) + i] = b[i]
  <2>1. Len(v) = Len(s) + 1 + Len(w)
    BY <1>1, <1>2
  <2> QED
    BY <1>6, <2>1
<1>11. Len(t) = Len(s) + 1 + Len(w) + Len(b)
    BY <1>1, <1>2, <1>5
<1>12. Joins(t, s, w, b)
    BY <1>5, <1>8, <1>9, <1>10, <1>11 DEF Joins
<1> QED
    BY <1>12 DEF t, v, u

\* How either side announces a length that two digits can say.
LEMMA Lengths ==
    ASSUME NEW n \in Nat, n < Base * Base, NEW w \in {WriteLength(n), ClientLength(n)}
    PROVE  /\ w \in Seq(Nat) /\ Len(w) = IF n <= Short THEN 1 ELSE 3
           /\ n <= Short => w[1] = n
           /\ n > Short => w[1] = Code16 /\ w[2] = (n \div Base) % Base /\ w[3] = n % Base
<1>1. Short \in Nat /\ Base \in Nat \ {0} /\ Code16 \in Nat
    BY FrameNumbers
<1>2. n \div Base \in Int /\ n % Base \in Nat
    BY <1>1, Divided
<1>3. (n \div Base) % Base \in Nat
    BY <1>1, <1>2, Divided
<1>4. CASE n <= Short
  <2>1. w = <<n>>
    BY <1>1, <1>4 DEF WriteLength, ClientLength, OneByte
  <2> QED
    BY <1>1, <1>4, <2>1
<1>5. CASE n > Short
  <2>1. w = <<Code16>> \o Digits16(n)
    BY <1>1, <1>5 DEF WriteLength, ClientLength, OneByte
  <2> DEFINE a == (n \div Base) % Base
             b == n % Base
  <2>2. w = <<Code16>> \o <<a, b>>
    BY <2>1 DEF Digits16
  <2>3. a \in Nat /\ b \in Nat
    BY <1>2, <1>3
  <2> HIDE DEF a, b
  <2> DEFINE p == <<Code16>>
             q == <<a, b>>
  <2>4. p \in Seq(Nat) /\ q \in Seq(Nat) /\ Len(p) = 1 /\ Len(q) = 2 /\ p[1] = Code16 /\ q[1] = a /\ q[2] = b
    BY <1>1, <2>3
  <2>5. w \in Seq(Nat) /\ Len(w) = 3 /\ w[1] = Code16 /\ w[2] = a /\ w[3] = b
    <3>1. w = p \o q
      BY <2>2
    <3> HIDE DEF p, q
    <3>2. /\ p \o q \in Seq(Nat) /\ Len(p \o q) = Len(p) + Len(q)
          /\ \A i \in 1 .. Len(p) : (p \o q)[i] = p[i]
          /\ \A i \in 1 .. Len(q) : (p \o q)[Len(p) + i] = q[i]
      BY <2>4, Concatenated
    <3>3. 1 \in 1 .. 1 /\ 1 \in 1 .. 2 /\ 2 \in 1 .. 2 /\ 1 + 1 = 2 /\ 1 + 2 = 3
      OBVIOUS
    <3>4. w[1] = p[1] /\ w[1 + 1] = q[1] /\ w[1 + 2] = q[2]
      BY <2>4, <3>1, <3>2, <3>3
    <3>5. w \in Seq(Nat) /\ Len(w) = 3
      BY <2>4, <3>1, <3>2
    <3> QED
      BY <2>4, <3>3, <3>4, <3>5
  <2> QED
    BY <1>1, <1>5, <2>5 DEF a, b
<1> QED
    BY <1>1, <1>4, <1>5

\* A frame at the end of the stream.
LEMMA Written ==
    ASSUME serves \in BOOLEAN, stream \in Seq(Nat), NEW m \in Payloads, Len(m) < Base * Base, WriteMessage(m) \/ ClientWrites(m)
    PROVE  /\ stream' \in Seq(Nat) /\ Len(stream') = Len(stream) + FrameLength(serves, m)
           /\ \A i \in 1 .. Len(stream) : stream'[i] = stream[i]
           /\ IsFrameAt(serves, stream', Len(stream), m)
<1> DEFINE n == Len(m)
           c == Len(stream)
<1>1. n \in Nat /\ c \in Nat /\ Short \in Nat /\ m \in Seq(Nat) /\ \A i \in 1 .. n : m[i] \in {0, 1}
    BY PayloadIs, FramesAssumption
<1>2. FrameLength(serves, m) = HeadLength(serves, n) + n
    BY FrameLengthIs
<1>3. HeadLength(serves, n) = (IF n <= Short THEN 2 ELSE 4) + (IF serves THEN 0 ELSE 1)
    BY DEF HeadLength
<1>4. CASE WriteMessage(m)
  <2> DEFINE w == WriteLength(n)
  <2>1. /\ w \in Seq(Nat) /\ Len(w) = IF n <= Short THEN 1 ELSE 3
        /\ n <= Short => w[1] = n
        /\ n > Short => w[1] = Code16 /\ w[2] = (n \div Base) % Base /\ w[3] = n % Base
    BY <1>1, Lengths
  <2>2. serves /\ stream' = stream \o <<Text>> \o w \o m
    BY <1>4 DEF WriteMessage
  <2> HIDE DEF w
  <2>3. /\ stream' \in Seq(Nat) /\ Len(stream') = c + 1 + Len(w) + n
        /\ \A i \in 1 .. c : stream'[i] = stream[i]
        /\ \A i \in 1 .. Len(w) : stream'[c + 1 + i] = w[i]
        /\ \A i \in 1 .. n : stream'[c + 1 + Len(w) + i] = m[i]
    <3>1. Joins(stream \o <<Text>> \o w \o m, stream, w, m)
      BY <1>1, <2>1, FrameJoined DEF Text
    <3>2. Joins(stream', stream, w, m)
      BY <2>2, <3>1
    <3> QED
      BY <3>2 DEF Joins
  <2>4. 1 + Len(w) = HeadLength(serves, n) /\ Len(w) \in Nat
    BY <1>1, <1>3, <2>1, <2>2
  <2>5. Announced(stream', c, n)
    <3>1. n <= Short => stream'[c + 1 + 1] = w[1]
      BY <1>1, <2>1, <2>3
    <3>2. n > Short => stream'[c + 1 + 1] = w[1] /\ stream'[c + 1 + 2] = w[2] /\ stream'[c + 1 + 3] = w[3]
      BY <1>1, <2>1, <2>3
    <3>3. c + 1 + 1 = c + 2 /\ c + 1 + 2 = c + 3 /\ c + 1 + 3 = c + 4
      BY <1>1
    <3> QED
      BY <2>1, <3>1, <3>2, <3>3 DEF Announced
  <2>6. Carries(serves, stream', c, m)
    <3>1. \A i \in 1 .. n : (m[i] + 0) % 2 = m[i]
      <4>1. (0 + 0) % 2 = 0 /\ (1 + 0) % 2 = 1
        OBVIOUS
      <4> QED
        BY <1>1, <4>1
    <3>2. c + 1 + Len(w) = c + HeadLength(serves, n)
      BY <1>1, <2>4
    <3>3. \A i \in 1 .. n : stream'[c + HeadLength(serves, n) + i] = (m[i] + 0) % 2
      BY <2>3, <3>1, <3>2
    <3> QED
      BY <2>2, <3>3 DEF Carries
  <2>7. Len(stream') = c + FrameLength(serves, m)
    BY <1>1, <1>2, <2>3, <2>4
  <2> QED
    BY <2>3, <2>5, <2>6, <2>7 DEF IsFrameAt
<1>5. CASE ClientWrites(m)
  <2>1. PICK f \in Nat, k \in {0, 1} : stream' = stream \o <<f>> \o ClientLength(n) \o <<k>> \o Masked(m, k)
    BY <1>5 DEF ClientWrites, FrameKinds, Text, Part, Control
  <2> DEFINE w == ClientLength(n)
             b == Masked(m, k)
             u == stream \o <<f>> \o w \o <<k>>
  <2>2. /\ w \in Seq(Nat) /\ Len(w) = IF n <= Short THEN 1 ELSE 3
        /\ n <= Short => w[1] = n
        /\ n > Short => w[1] = Code16 /\ w[2] = (n \div Base) % Base /\ w[3] = n % Base
    BY <1>1, Lengths
  <2>3. b \in Seq(Nat) /\ Len(b) = n /\ \A i \in 1 .. n : b[i] = (m[i] + k) % 2
    <3>1. \A i \in 1 .. n : (m[i] + k) % 2 \in Nat
      BY <1>1
    <3>2. b = [i \in 1 .. n |-> (m[i] + k) % 2]
      BY <1>1 DEF Masked
    <3> HIDE DEF b, n
    <3> QED
      BY <1>1, <3>1, <3>2
  <2>4. ~serves /\ stream' = u \o b
    BY <1>5, <2>1 DEF ClientWrites
  <2> HIDE DEF w, b
  <2>5. /\ u \in Seq(Nat) /\ Len(u) = c + 1 + Len(w) + 1
        /\ \A i \in 1 .. c : u[i] = stream[i]
        /\ \A i \in 1 .. Len(w) : u[c + 1 + i] = w[i]
        /\ u[c + 1 + Len(w) + 1] = k
    <3>1. <<k>> \in Seq(Nat) /\ Len(<<k>>) = 1 /\ <<k>>[1] = k
      OBVIOUS
    <3>2. 1 \in 1 .. 1
      OBVIOUS
    <3> DEFINE e == <<k>>
    <3>3. e \in Seq(Nat) /\ Len(e) = 1 /\ e[1] = k /\ u = stream \o <<f>> \o w \o e
      BY <3>1
    <3> HIDE DEF e, u
    <3>4. Joins(stream \o <<f>> \o w \o e, stream, w, e)
      BY <2>2, <3>3, FrameJoined
    <3>5. Joins(u, stream, w, e)
      BY <3>3, <3>4
    <3> QED
      BY <3>2, <3>3, <3>5 DEF Joins
  <2> HIDE DEF u
  <2>6. 1 + Len(w) + 1 = HeadLength(serves, n) /\ Len(w) \in Nat
    BY <1>1, <1>3, <2>2, <2>4
  <2>7. /\ stream' \in Seq(Nat) /\ Len(stream') = Len(u) + n
        /\ \A i \in 1 .. Len(u) : stream'[i] = u[i]
        /\ \A i \in 1 .. n : stream'[Len(u) + i] = b[i]
    <3>1. u \in Seq(Nat) /\ b \in Seq(Nat)
      BY <2>3, <2>5
    <3>2. /\ u \o b \in Seq(Nat) /\ Len(u \o b) = Len(u) + Len(b)
          /\ \A i \in 1 .. Len(u) : (u \o b)[i] = u[i]
          /\ \A i \in 1 .. Len(b) : (u \o b)[Len(u) + i] = b[i]
      BY <3>1, Concatenated
    <3> QED
      BY <2>3, <2>4, <3>2
  <2>8. \A i \in 1 .. c : stream'[i] = stream[i]
    BY <1>1, <2>5, <2>6, <2>7
  <2>9. \A i \in 1 .. Len(w) : stream'[c + 1 + i] = w[i]
    <3>1. \A i \in 1 .. Len(w) : c + 1 + i \in 1 .. Len(u)
      BY <1>1, <2>5, <2>6
    <3> QED
      BY <2>5, <2>7, <3>1
  <2>10. Announced(stream', c, n)
    <3>1. n <= Short => stream'[c + 1 + 1] = w[1]
      BY <1>1, <2>2, <2>9
    <3>2. n > Short => stream'[c + 1 + 1] = w[1] /\ stream'[c + 1 + 2] = w[2] /\ stream'[c + 1 + 3] = w[3]
      BY <1>1, <2>2, <2>9
    <3>3. c + 1 + 1 = c + 2 /\ c + 1 + 2 = c + 3 /\ c + 1 + 3 = c + 4
      BY <1>1
    <3> QED
      BY <2>2, <3>1, <3>2, <3>3 DEF Announced
  <2>11. Carries(serves, stream', c, m)
    <3>1. Len(u) = c + HeadLength(serves, n) /\ c + 1 + Len(w) + 1 = c + HeadLength(serves, n) /\ Len(u) \in 1 .. Len(u)
      BY <1>1, <2>5, <2>6
    <3>2. stream'[c + HeadLength(serves, n)] = k
      BY <2>5, <2>7, <3>1
    <3>3. \A i \in 1 .. n : stream'[c + HeadLength(serves, n) + i] = (m[i] + k) % 2
      BY <2>3, <2>7, <3>1
    <3> QED
      BY <2>4, <3>2, <3>3 DEF Carries
  <2>12. Len(stream') = c + FrameLength(serves, m)
    BY <1>1, <1>2, <2>5, <2>6, <2>7
  <2> QED
    BY <2>7, <2>8, <2>10, <2>11, <2>12 DEF IsFrameAt
<1> QED
    BY <1>4, <1>5

LEMMA WriteFrameKeeps ==
    ASSUME FramesInvariant, NEW m \in Payloads, WriteFrame(m)
    PROVE  FramesInvariant'
<1> DEFINE N == Len(sent)
           k == Len(arrived)
<1>1. /\ serves \in BOOLEAN /\ serves' = serves /\ arrived' = arrived
      /\ sent \in Seq(Payloads) /\ sent' = Append(sent, m) /\ N \in Nat
    BY DEF FramesInvariant, WriteFrame
<1>2. /\ sent' \in Seq(Payloads) /\ Len(sent') = N + 1 /\ sent'[N + 1] = m
      /\ \A i \in 1 .. N : sent'[i] = sent[i]
    BY <1>1
<1>3. SUFFICES ASSUME AllShort' PROVE FramesKept'
    BY <1>1, <1>2 DEF FramesInvariant
<1>4. Len(m) < Base * Base /\ AllShort
  <2>1. \A i \in 1 .. N + 1 : Len(sent'[i]) < Base * Base
    BY <1>2, <1>3 DEF AllShort
  <2>2. N + 1 \in 1 .. N + 1 /\ \A i \in 1 .. N : i \in 1 .. N + 1
    BY <1>1
  <2>3. DOMAIN sent = 1 .. N
    BY <1>1
  <2> QED
    BY <1>2, <2>1, <2>2, <2>3 DEF AllShort
<1>5. stream \in Seq(Nat) /\ arrived \in Seq(Payloads) /\ k \in Nat /\ k <= N /\ \A i \in 1 .. k : arrived[i] = sent[i]
    BY <1>4 DEF FramesInvariant, FramesKept
<1>6. /\ stream' \in Seq(Nat) /\ Len(stream') = Len(stream) + FrameLength(serves, m)
      /\ \A i \in 1 .. Len(stream) : stream'[i] = stream[i]
      /\ IsFrameAt(serves, stream', Len(stream), m)
  <2>1. WriteMessage(m) \/ ClientWrites(m)
    BY DEF WriteFrame
  <2> QED
    BY <1>1, <1>4, <1>5, <2>1, Written
<1>7. PICK at \in [Nat -> Nat] : InFlight(at)
    BY <1>4 DEF FramesInvariant, FramesKept
<1> DEFINE L == Len(stream)
           F(x) == FrameLength(serves, x)
<1>8. /\ at[k + 1] = 0 /\ at[N + 1] = L
      /\ \A i \in k + 1 .. N : at[i + 1] = at[i] + F(sent[i]) /\ IsFrameAt(serves, stream, at[i], sent[i])
      /\ \A i \in k + 1 .. N, j \in (k + 1 .. N) \cup {N + 1} : i < j => at[i] + F(sent[i]) <= at[j]
    BY <1>7 DEF InFlight, Waiting
<1>9. L \in Nat /\ F(m) \in Nat /\ \A i \in 1 .. N : sent[i] \in Payloads /\ F(sent[i]) \in Nat
  <2>1. \A i \in 1 .. N : sent[i] \in Payloads
    BY <1>1
  <2>2. L \in Nat
    BY <1>5
  <2> QED
    BY <1>1, <2>1, <2>2, FrameLengthIs
<1>10. N \in Nat /\ k \in Nat
    BY <1>1, <1>5
<1> HIDE DEF N, k, L, F
<1>11. PICK after \in [Nat -> Nat] : after[N + 2] = L + F(m) /\ \A i \in Nat : i # N + 2 => after[i] = at[i]
  <2> DEFINE new == [at EXCEPT ![N + 2] = L + F(m)]
  <2>1. N + 2 \in Nat /\ L + F(m) \in Nat
    BY <1>9, <1>10
  <2>2. new \in [Nat -> Nat] /\ new[N + 2] = L + F(m) /\ \A i \in Nat : i # N + 2 => new[i] = at[i]
    BY <2>1
  <2> QED
    BY <2>2
<1>12. after[k + 1] = 0
    BY <1>5, <1>8, <1>10, <1>11
<1>13. \A i \in k + 1 .. N + 1 : after[i + 1] = after[i] + F(sent'[i])
  <2> SUFFICES ASSUME NEW i \in k + 1 .. N + 1 PROVE after[i + 1] = after[i] + F(sent'[i])
    OBVIOUS
  <2>1. CASE i = N + 1
    <3>1. i + 1 = N + 2 /\ i # N + 2 /\ i \in Nat
      BY <1>10, <2>1
    <3>2. sent'[i] = m
      BY <1>2, <2>1 DEF N
    <3> QED
      BY <1>8, <1>11, <2>1, <3>1, <3>2
  <2>2. CASE i # N + 1
    <3>1. i \in k + 1 .. N /\ i \in 1 .. N /\ i \in Nat /\ i + 1 \in Nat /\ i # N + 2 /\ i + 1 # N + 2
      BY <1>10, <2>2
    <3>2. sent'[i] = sent[i]
      BY <1>2, <3>1 DEF N
    <3> QED
      BY <1>8, <1>11, <3>1, <3>2
  <2> QED
    BY <2>1, <2>2
<1>14. \A i \in k + 1 .. N + 1 : IsFrameAt(serves, stream', after[i], sent'[i])
  <2> SUFFICES ASSUME NEW i \in k + 1 .. N + 1 PROVE IsFrameAt(serves, stream', after[i], sent'[i])
    OBVIOUS
  <2>1. CASE i = N + 1
    <3>1. i # N + 2 /\ i \in Nat
      BY <1>10, <2>1
    <3>2. after[i] = L /\ sent'[i] = m
      BY <1>2, <1>8, <1>11, <2>1, <3>1 DEF N
    <3> QED
      BY <1>6, <3>2 DEF L
  <2>2. CASE i # N + 1
    <3>1. i \in k + 1 .. N /\ i \in 1 .. N /\ i \in Nat /\ i # N + 2 /\ i < N + 1
      BY <1>10, <2>2
    <3>2. sent'[i] = sent[i] /\ after[i] = at[i] /\ at[i] \in Nat /\ sent[i] \in Payloads
      BY <1>2, <1>7, <1>9, <1>11, <3>1 DEF N
    <3>3. at[i] + F(sent[i]) <= L
      BY <1>8, <3>1
    <3>4. \A j \in at[i] + 1 .. at[i] + F(sent[i]) : stream'[at[i] + (j - at[i])] = stream[j]
      <4>1. \A j \in at[i] + 1 .. at[i] + F(sent[i]) : j \in 1 .. L /\ at[i] + (j - at[i]) = j
        BY <1>9, <3>1, <3>2, <3>3
      <4> QED
        BY <1>6, <4>1 DEF L
    <3>5. IsFrameAt(serves, stream, at[i], sent[i])
      BY <1>8, <3>1
    <3>6. IsFrameAt(serves, stream', at[i], sent[i])
      BY <1>1, <1>5, <1>6, <3>2, <3>4, <3>5, Moved DEF F
    <3> QED
      BY <3>2, <3>6
  <2> QED
    BY <2>1, <2>2
<1>15. \A i \in k + 1 .. N + 1, j \in (k + 1 .. N + 1) \cup {N + 2} : i < j => after[i] + F(sent'[i]) <= after[j]
  <2> SUFFICES ASSUME NEW i \in k + 1 .. N + 1, NEW j \in (k + 1 .. N + 1) \cup {N + 2}, i < j
               PROVE  after[i] + F(sent'[i]) <= after[j]
    OBVIOUS
  <2>1. CASE i = N + 1
    <3>1. j = N + 2 /\ i # N + 2 /\ i \in Nat
      BY <1>10, <2>1
    <3>2. after[i] = L /\ sent'[i] = m
      BY <1>2, <1>8, <1>11, <2>1, <3>1 DEF N
    <3> QED
      BY <1>9, <1>11, <3>1, <3>2
  <2>2. CASE i # N + 1
    <3>1. i \in k + 1 .. N /\ i \in 1 .. N /\ i \in Nat /\ i # N + 2 /\ i < N + 1
      BY <1>10, <2>2
    <3>2. sent'[i] = sent[i] /\ after[i] = at[i] /\ at[i] \in Nat /\ F(sent[i]) \in Nat
      BY <1>2, <1>7, <1>9, <1>11, <3>1 DEF N
    <3>3. CASE j = N + 2
      <4>1. at[i] + F(sent[i]) <= L
        BY <1>8, <3>1
      <4> QED
        BY <1>9, <1>11, <3>2, <3>3, <4>1
    <3>4. CASE j # N + 2
      <4>1. j \in Nat /\ j \in (k + 1 .. N) \cup {N + 1}
        BY <1>10, <3>4
      <4>2. at[i] + F(sent[i]) <= at[j]
        BY <1>8, <3>1, <4>1
      <4> QED
        BY <1>11, <3>2, <3>4, <4>1, <4>2
    <3> QED
      BY <3>3, <3>4
  <2> QED
    BY <2>1, <2>2
<1>16. InFlight(after)'
  <2>1. Len(arrived') = k /\ Len(sent') = N + 1 /\ N + 1 + 1 = N + 2 /\ Waiting' = k + 1 .. N + 1
    BY <1>1, <1>2, <1>10 DEF N, k, Waiting
  <2>2. Len(stream') = L + F(m)
    BY <1>6 DEF L, F
  <2>3. \A i \in k + 1 .. N + 1 : after[i + 1] = after[i] + FrameLength(serves', sent'[i])
    BY <1>1, <1>13 DEF F
  <2>4. \A i \in k + 1 .. N + 1 : IsFrameAt(serves', stream', after[i], sent'[i])
    BY <1>1, <1>14
  <2>5. \A i \in k + 1 .. N + 1, j \in (k + 1 .. N + 1) \cup {N + 2} : i < j => after[i] + FrameLength(serves', sent'[i]) <= after[j]
    BY <1>1, <1>15 DEF F
  <2> QED
    BY <1>11, <1>12, <2>1, <2>2, <2>3, <2>4, <2>5 DEF InFlight
<1>17. arrived' \in Seq(Payloads) /\ Len(arrived') <= Len(sent') /\ \A i \in 1 .. Len(arrived') : arrived'[i] = sent'[i]
  <2>1. \A i \in 1 .. k : i \in 1 .. N
    BY <1>5, <1>10 DEF N, k
  <2>2. \A i \in 1 .. k : arrived[i] = sent'[i]
    BY <1>2, <1>5, <2>1 DEF N, k
  <2>3. k <= N + 1
    BY <1>5, <1>10 DEF N, k
  <2> QED
    BY <1>1, <1>2, <1>5, <2>2, <2>3 DEF N, k
<1> QED
    BY <1>6, <1>11, <1>16, <1>17 DEF FramesKept

LEMMA TwoDigits ==
    ASSUME NEW n \in Nat, n < Base * Base
    PROVE  ((n \div Base) % Base) * Base + (n % Base) = n
<1> DEFINE q == n \div Base
           r == n % Base
<1>1. Base \in Nat \ {0}
    BY FramesAssumption
<1>2. q \in Int /\ r \in 0 .. Base - 1 /\ n = Base * q + r
    BY <1>1, Divided
<1> HIDE DEF q, r
<1>3. q >= 0
  <2>1. CASE q <= -1
    <3>1. Base * q <= -Base
      BY <1>1, <1>2, <2>1
    <3>2. Base * q \in Int
      BY <1>1, <1>2
    <3> QED
      BY <1>1, <1>2, <3>1, <3>2
  <2> QED
    BY <1>2, <2>1
<1>4. q < Base
  <2>1. CASE q >= Base
    <3>1. Base * q >= Base * Base
      BY <1>1, <1>2, <2>1
    <3>2. Base * q \in Int /\ Base * Base \in Int
      BY <1>1, <1>2
    <3> QED
      BY <1>1, <1>2, <3>1, <3>2
  <2> QED
    BY <1>1, <1>2, <2>1
<1>5. (Base * 0 + q) % Base = q
    BY <1>1, <1>2, <1>3, <1>4, RemainderOf
<1>6. q % Base = q
    BY <1>1, <1>2, <1>5
<1>7. q * Base + r = n
    BY <1>1, <1>2
<1> QED
    BY <1>6, <1>7 DEF q, r

\* The header of a frame at the beginning of the stream is understood,
LEMMA HeaderIs ==
    ASSUME serves \in BOOLEAN, stream \in Seq(Nat), NEW m \in Payloads, Len(m) < Base * Base, IsFrameAt(serves, stream, 0, m)
    PROVE  Header.length = Len(m) /\ Header.from = HeadLength(serves, Len(m)) + 1
<1> DEFINE n == Len(m)
<1>1. n \in Nat /\ Short \in Nat /\ Base \in Nat \ {0}
    BY PayloadIs, FramesAssumption
<1>2. /\ n <= Short => stream[2] = n
      /\ n > Short => stream[2] = Code16 /\ stream[3] = (n \div Base) % Base /\ stream[4] = n % Base
  <2>1. 0 + 2 = 2 /\ 0 + 3 = 3 /\ 0 + 4 = 4
    OBVIOUS
  <2> QED
    BY <2>1 DEF IsFrameAt, Announced
<1> DEFINE skip == IF serves THEN 0 ELSE 1
<1>3. skip \in Nat /\ HeadLength(serves, n) = (IF n <= Short THEN 2 ELSE 4) + skip
    BY DEF HeadLength
<1> HIDE DEF n, skip
<1>4. CASE n <= Short
  <2>1. stream[2] # Code16 /\ stream[2] # Code64
    BY <1>1, <1>2, <1>4 DEF Code16, Code64
  <2>2. Header = [length |-> stream[2], from |-> 3 + skip]
    BY <2>1 DEF Header, skip
  <2>3. HeadLength(serves, n) = 2 + skip
    BY <1>3, <1>4
  <2> QED
    BY <1>2, <1>3, <1>4, <2>2, <2>3 DEF n
<1>5. CASE n > Short
  <2>1. stream[2] = Code16
    BY <1>2, <1>5
  <2>2. Code16 # Code64
    BY <1>1 DEF Code16, Code64
  <2>3. Header = [length |-> Number(3), from |-> 5 + skip]
    BY <2>1, <2>2 DEF Header, skip
  <2>4. Number(3) = n
    <3>1. ((n \div Base) % Base) * Base + (n % Base) = n
      BY <1>1, TwoDigits DEF n
    <3>2. 3 + 1 = 4
      OBVIOUS
    <3> QED
      BY <1>2, <1>5, <3>1, <3>2 DEF Number
  <2>5. HeadLength(serves, n) = 4 + skip
    BY <1>1, <1>3, <1>5
  <2> QED
    BY <1>3, <2>3, <2>4, <2>5 DEF n
<1> QED
    BY <1>1, <1>4, <1>5

\* and so is its payload.
LEMMA Unmasked ==
    ASSUME serves \in BOOLEAN, stream \in Seq(Nat), NEW m \in Payloads, Carries(serves, stream, 0, m),
           NEW h, h = HeadLength(serves, Len(m)), h + Len(m) <= Len(stream)
    PROVE  Masked(SubSeq(stream, h + 1, h + Len(m)), IF serves THEN 0 ELSE stream[h]) = m
<1> DEFINE n == Len(m)
           p == SubSeq(stream, h + 1, h + n)
<1>1. n \in Nat /\ h \in Nat /\ h >= 2 /\ m \in Seq({0, 1}) /\ \A i \in 1 .. n : m[i] \in {0, 1}
    BY PayloadIs, FrameNumbers
<1>2. PICK k \in {0, 1} :
        /\ IF serves THEN k = 0 ELSE stream[0 + h] = k
        /\ \A i \in 1 .. n : stream[0 + h + i] = (m[i] + k) % 2
    BY DEF Carries
<1>3. (IF serves THEN 0 ELSE stream[h]) = k
  <2>1. 0 + h = h
    BY <1>1
  <2> QED
    BY <1>2, <2>1
<1>4. p \in Seq(Nat) /\ Len(p) = n /\ \A i \in 1 .. n : p[i] = stream[h + i]
  <2>1. h + n \in Nat /\ h <= h + n /\ h + n <= Len(stream) /\ (h + n) - h = n
    BY <1>1
  <2> DEFINE e == h + n
  <2> HIDE DEF n, e
  <2>2. e \in Nat /\ h <= e /\ e <= Len(stream) /\ e - h = n
    BY <2>1 DEF e
  <2>3. /\ SubSeq(stream, h + 1, e) \in Seq(Nat) /\ Len(SubSeq(stream, h + 1, e)) = e - h
        /\ \A i \in 1 .. e - h : SubSeq(stream, h + 1, e)[i] = stream[h + i]
    BY <1>1, <2>2, Cut
  <2> QED
    BY <2>2, <2>3 DEF e
<1> HIDE DEF p
<1>5. \A i \in 1 .. n : (p[i] + k) % 2 = m[i]
  <2> SUFFICES ASSUME NEW i \in 1 .. n PROVE (p[i] + k) % 2 = m[i]
    OBVIOUS
  <2>1. 0 + h + i = h + i
    BY <1>1
  <2>2. p[i] = (m[i] + k) % 2
    BY <1>2, <1>4, <2>1
  <2>3. m[i] \in {0, 1} /\ k \in {0, 1}
    BY <1>1
  <2>4. \A a, b \in {0, 1} : (((a + b) % 2) + b) % 2 = a
    OBVIOUS
  <2> QED
    BY <2>2, <2>3, <2>4
<1>6. Masked(p, k) = [i \in 1 .. n |-> (p[i] + k) % 2]
    BY <1>4 DEF Masked
<1>7. Masked(p, k) = [i \in 1 .. n |-> m[i]]
    BY <1>5, <1>6
<1>8. m = [i \in 1 .. n |-> m[i]]
    BY <1>1
<1>9. Masked(p, k) = m
    BY <1>7, <1>8
<1> QED
    BY <1>3, <1>9 DEF p, n

LEMMA ReadMessageKeeps ==
    ASSUME FramesInvariant, ReadMessage
    PROVE  FramesInvariant'
<1> DEFINE N == Len(sent)
           k == Len(arrived)
           L == Len(stream)
           F(x) == FrameLength(serves, x)
<1>1. serves \in BOOLEAN /\ serves' = serves /\ sent \in Seq(Payloads) /\ sent' = sent /\ N \in Nat
    BY DEF FramesInvariant, ReadMessage
<1>2. SUFFICES ASSUME AllShort' PROVE FramesKept'
    BY <1>1 DEF FramesInvariant
<1>3. AllShort
    BY <1>1, <1>2 DEF AllShort
<1>4. stream \in Seq(Nat) /\ arrived \in Seq(Payloads) /\ k <= N /\ \A i \in 1 .. k : arrived[i] = sent[i]
    BY <1>3 DEF FramesInvariant, FramesKept
<1>5. N \in Nat /\ k \in Nat /\ L \in Nat /\ k <= N
    BY <1>1, <1>4
<1>6. PICK at \in [Nat -> Nat] : InFlight(at)
    BY <1>3 DEF FramesInvariant, FramesKept
<1>7. /\ at[k + 1] = 0 /\ at[N + 1] = L
      /\ \A i \in k + 1 .. N : at[i + 1] = at[i] + F(sent[i]) /\ IsFrameAt(serves, stream, at[i], sent[i])
      /\ \A i \in k + 1 .. N, j \in (k + 1 .. N) \cup {N + 1} : i < j => at[i] + F(sent[i]) <= at[j]
    BY <1>6 DEF InFlight, Waiting
<1>8. k < N
  <2>1. L >= 2
    BY DEF ReadMessage, HasHeader
  <2>2. at[k + 1] = 0 /\ at[N + 1] = L
    BY <1>7
  <2> HIDE DEF N, k, L, F
  <2>3. k # N
    BY <2>1, <2>2
  <2> QED
    BY <1>5, <2>3
<1>9. k + 1 \in 1 .. N /\ k + 1 \in k + 1 .. N /\ k + 1 < N + 1
  <2> HIDE DEF N, k
  <2> QED
    BY <1>5, <1>8
<1> DEFINE m == sent[k + 1]
           h == HeadLength(serves, Len(m))
           d == F(m)
<1>10. m \in Payloads /\ Len(m) < Base * Base
  <2>1. DOMAIN sent = 1 .. N
    BY <1>1
  <2> QED
    BY <1>1, <1>3, <1>9, <2>1 DEF AllShort
<1>11. h \in Nat /\ h >= 2 /\ Len(m) \in Nat /\ d \in Nat /\ d = h + Len(m)
    BY <1>1, <1>10, PayloadIs, FrameNumbers, FrameLengthIs
<1>12. d \in Nat
    BY <1>11
<1>13. d <= L /\ IsFrameAt(serves, stream, 0, m) /\ at[k + 2] = d
  <2>1. at[k + 1] + F(sent[k + 1]) <= at[N + 1]
    BY <1>7, <1>9
  <2>2. at[(k + 1) + 1] = at[k + 1] + F(sent[k + 1]) /\ IsFrameAt(serves, stream, at[k + 1], sent[k + 1])
    BY <1>7, <1>9
  <2>3. (k + 1) + 1 = k + 2
    BY <1>4
  <2> HIDE DEF N, k, L, F
  <2>4. 0 + d = d
    BY <1>11
  <2> QED
    BY <1>7, <2>1, <2>2, <2>3, <2>4
<1>14. arrived' = Append(arrived, m) /\ stream' = SubSeq(stream, d + 1, L)
  <2>1. Header.length = Len(m) /\ Header.from = h + 1
    BY <1>1, <1>4, <1>10, <1>13, HeaderIs
  <2>2. (h + 1) + Len(m) - 1 = d /\ (h + 1) - 1 = h
    <3> HIDE DEF m, h, d
    <3> QED
      BY <1>11
  <2>3. Carries(serves, stream, 0, m) /\ h + Len(m) <= L
    BY <1>11, <1>13 DEF IsFrameAt
  <2>4. Masked(SubSeq(stream, h + 1, h + Len(m)), IF serves THEN 0 ELSE stream[h]) = m
    BY <1>1, <1>4, <1>10, <2>3, Unmasked
  <2>5. /\ arrived' = Append(arrived, Masked(SubSeq(stream, Header.from, Header.from + Header.length - 1), IF serves THEN 0 ELSE stream[Header.from - 1]))
        /\ stream' = SubSeq(stream, Header.from + Header.length - 1 + 1, L)
    BY DEF ReadMessage
  <2> HIDE DEF m, h, d, L
  <2> QED
    BY <1>11, <2>1, <2>2, <2>4, <2>5
<1> HIDE DEF N, k, L, F, m, h, d
<1>15. stream' \in Seq(Nat) /\ Len(stream') = L - d /\ \A i \in 1 .. L - d : stream'[i] = stream[d + i]
  <2>1. L <= Len(stream)
    BY <1>4 DEF L
  <2>2. d \in Nat /\ L \in Nat /\ d <= L
    BY <1>5, <1>11, <1>13
  <2>3. /\ SubSeq(stream, d + 1, L) \in Seq(Nat) /\ Len(SubSeq(stream, d + 1, L)) = L - d
        /\ \A i \in 1 .. L - d : SubSeq(stream, d + 1, L)[i] = stream[d + i]
    BY <1>4, <2>1, <2>2, Cut
  <2> QED
    BY <1>14, <2>3
<1>16. /\ arrived' \in Seq(Payloads) /\ Len(arrived') = k + 1
       /\ \A i \in 1 .. k : arrived'[i] = arrived[i]
       /\ arrived'[k + 1] = m
    BY <1>4, <1>10, <1>14 DEF k
<1>17. \A i \in k + 2 .. N + 1 : at[i] \in Nat /\ at[i] - d \in Nat
  <2> SUFFICES ASSUME NEW i \in k + 2 .. N + 1 PROVE at[i] \in Nat /\ at[i] - d \in Nat
    OBVIOUS
  <2>1. i \in (k + 1 .. N) \cup {N + 1} /\ k + 1 < i /\ i \in Nat
    BY <1>5
  <2>2. at[k + 1] + F(sent[k + 1]) <= at[i]
    BY <1>7, <1>9, <2>1
  <2>3. 0 + d <= at[i]
    BY <1>7, <2>2 DEF d, m
  <2>4. at[i] \in Nat
    BY <2>1
  <2> QED
    BY <1>12, <2>3, <2>4
<1>18. PICK after \in [Nat -> Nat] : \A i \in k + 2 .. N + 1 : after[i] = at[i] - d
  <2> DEFINE new == [i \in Nat |-> IF i \in k + 2 .. N + 1 THEN at[i] - d ELSE 0]
  <2>1. \A i \in k + 2 .. N + 1 : i \in Nat
    BY <1>5
  <2>2. new \in [Nat -> Nat] /\ \A i \in k + 2 .. N + 1 : new[i] = at[i] - d
    BY <1>17, <2>1
  <2> QED
    BY <2>2
<1>19. after[k + 2] = 0 /\ after[N + 1] = L - d
  <2>1. k + 2 \in k + 2 .. N + 1 /\ N + 1 \in k + 2 .. N + 1
    BY <1>5, <1>8
  <2>2. at[k + 2] = d /\ at[N + 1] = L /\ d - d = 0
    BY <1>7, <1>11, <1>13
  <2> QED
    BY <1>18, <2>1, <2>2
<1>20. \A i \in k + 2 .. N : sent[i] \in Payloads /\ F(sent[i]) \in Nat
  <2>1. \A i \in k + 2 .. N : i \in 1 .. N
    BY <1>5
  <2>2. \A i \in 1 .. N : sent[i] \in Payloads
    BY <1>1 DEF N
  <2> QED
    BY <1>1, <2>1, <2>2, FrameLengthIs DEF F
<1>21. \A i \in k + 2 .. N : after[i + 1] = after[i] + F(sent[i])
  <2> SUFFICES ASSUME NEW i \in k + 2 .. N PROVE after[i + 1] = after[i] + F(sent[i])
    OBVIOUS
  <2>1. i \in k + 1 .. N /\ i \in k + 2 .. N + 1 /\ i + 1 \in k + 2 .. N + 1
    BY <1>5
  <2>2. at[i + 1] = at[i] + F(sent[i]) /\ at[i] \in Nat /\ at[i + 1] \in Nat
    BY <1>7, <1>17, <2>1
  <2>3. after[i] = at[i] - d /\ after[i + 1] = at[i + 1] - d /\ F(sent[i]) \in Nat
    BY <1>18, <1>20, <2>1
  <2> QED
    BY <1>12, <2>2, <2>3
<1>22. \A i \in k + 2 .. N, j \in (k + 2 .. N) \cup {N + 1} : i < j => after[i] + F(sent[i]) <= after[j]
  <2> SUFFICES ASSUME NEW i \in k + 2 .. N, NEW j \in (k + 2 .. N) \cup {N + 1}, i < j
               PROVE  after[i] + F(sent[i]) <= after[j]
    OBVIOUS
  <2>1. i \in k + 1 .. N /\ i \in k + 2 .. N + 1 /\ j \in k + 2 .. N + 1 /\ j \in (k + 1 .. N) \cup {N + 1}
    BY <1>5, <1>8
  <2>2. at[i] + F(sent[i]) <= at[j] /\ at[i] \in Nat /\ at[j] \in Nat
    BY <1>7, <1>17, <2>1
  <2>3. after[i] = at[i] - d /\ after[j] = at[j] - d /\ F(sent[i]) \in Nat
    BY <1>18, <1>20, <2>1
  <2> QED
    BY <1>12, <2>2, <2>3
<1>23. \A i \in k + 2 .. N : IsFrameAt(serves, stream', after[i], sent[i])
  <2> SUFFICES ASSUME NEW i \in k + 2 .. N PROVE IsFrameAt(serves, stream', after[i], sent[i])
    OBVIOUS
  <2>1. i \in k + 1 .. N /\ i \in k + 2 .. N + 1 /\ N + 1 \in (k + 1 .. N) \cup {N + 1} /\ i < N + 1 /\ i \in Nat
    BY <1>5, <1>8
  <2>2. at[i] \in Nat /\ at[i] - d \in Nat /\ after[i] = at[i] - d
    BY <1>17, <1>18, <2>1
  <2>3. at[i] + F(sent[i]) <= L
    BY <1>7, <2>1
  <2>4. \A j \in at[i] + 1 .. at[i] + F(sent[i]) : stream'[after[i] + (j - at[i])] = stream[j]
    <3> SUFFICES ASSUME NEW j \in at[i] + 1 .. at[i] + F(sent[i]) PROVE stream'[after[i] + (j - at[i])] = stream[j]
      OBVIOUS
    <3>1. F(sent[i]) \in Nat
      BY <1>20
    <3>2. after[i] + (j - at[i]) \in 1 .. L - d /\ d + (after[i] + (j - at[i])) = j
      BY <1>5, <1>12, <2>2, <2>3, <3>1
    <3> QED
      BY <1>15, <3>2
  <2>5. IsFrameAt(serves, stream, at[i], sent[i])
    BY <1>7, <2>1
  <2>6. sent[i] \in Payloads
    BY <1>20
  <2>7. after[i] \in Nat
    BY <2>1
  <2>8. \A j \in at[i] + 1 .. at[i] + FrameLength(serves, sent[i]) : stream'[after[i] + (j - at[i])] = stream[j]
    BY <2>4 DEF F
  <2> HIDE DEF F
  <2> QED
    BY <1>1, <1>4, <1>15, <2>2, <2>5, <2>6, <2>7, <2>8, Moved
<1>24. InFlight(after)'
  <2>1. Len(arrived') + 1 = k + 2 /\ Len(sent') = N /\ Waiting' = k + 2 .. N
    <3>1. Len(sent') = N
      BY <1>1 DEF N
    <3>2. Len(arrived') + 1 = k + 2
      BY <1>5, <1>16
    <3> QED
      BY <3>1, <3>2 DEF Waiting
  <2>2. \A i \in k + 2 .. N : after[i + 1] = after[i] + FrameLength(serves', sent'[i]) /\ IsFrameAt(serves', stream', after[i], sent'[i])
    BY <1>1, <1>21, <1>23 DEF F
  <2>3. \A i \in k + 2 .. N, j \in (k + 2 .. N) \cup {N + 1} : i < j => after[i] + FrameLength(serves', sent'[i]) <= after[j]
    BY <1>1, <1>22 DEF F
  <2> QED
    BY <1>15, <1>19, <2>1, <2>2, <2>3 DEF InFlight
<1>25. Len(arrived') <= Len(sent') /\ \A i \in 1 .. Len(arrived') : arrived'[i] = sent'[i]
  <2>1. k + 1 <= N /\ \A i \in 1 .. k + 1 : i \in 1 .. k \/ i = k + 1
    BY <1>5, <1>8
  <2>2. \A i \in 1 .. k : arrived'[i] = sent[i]
    BY <1>4, <1>16 DEF k
  <2>3. arrived'[k + 1] = sent[k + 1]
    BY <1>16 DEF m
  <2> QED
    BY <1>1, <1>16, <2>1, <2>2, <2>3 DEF N
<1> QED
    BY <1>15, <1>16, <1>24, <1>25 DEF FramesKept

LEMMA FramesStep == FramesInvariant /\ [FramesNext]_frameVars => FramesInvariant'
<1> SUFFICES ASSUME FramesInvariant, [FramesNext]_frameVars PROVE FramesInvariant'
    OBVIOUS
<1>1. CASE \E m \in Payloads : WriteFrame(m)
    BY <1>1, WriteFrameKeeps
<1>2. CASE ReadMessage
    BY <1>2, ReadMessageKeeps
<1>3. CASE Disconnect \/ UNCHANGED frameVars
  <2>1. UNCHANGED <<serves, sent, stream, arrived>>
    BY <1>3 DEF Disconnect, frameVars
  <2> QED
    BY <2>1 DEF FramesInvariant, FramesKept, AllShort, InFlight, Waiting
<1> QED
    BY <1>1, <1>2, <1>3 DEF FramesNext

LEMMA FramesHold == FramesInvariant => FramesIntact
<1> SUFFICES ASSUME FramesInvariant, AllShort PROVE IsPrefix(arrived, sent)
    BY DEF FramesIntact, AllShort
<1>1. /\ arrived \in Seq(Payloads) /\ sent \in Seq(Payloads) /\ Len(arrived) <= Len(sent)
      /\ \A i \in 1 .. Len(arrived) : arrived[i] = sent[i]
    BY DEF FramesInvariant, FramesKept
<1> DEFINE k == Len(arrived)
<1>2. k \in Nat /\ Len(sent) \in Nat
    BY <1>1
<1>3. SubSeq(arrived, 1, k) = [i \in 1 .. k |-> arrived[i]]
    BY <1>1, <1>2
<1>4. SubSeq(sent, 1, k) = [i \in 1 .. k |-> sent[i]]
    BY <1>1, <1>2
<1>5. SubSeq(arrived, 1, k) = SubSeq(sent, 1, k)
    BY <1>1, <1>3, <1>4
<1> QED
    BY <1>1, <1>5 DEF IsPrefix

\* Whatever is written and read, masked or not, and wherever the connection ends: as long
\* as two digits say every length, what was read is what was sent, whole and in order
\* (realtime/websocket.go:62-117).
THEOREM FramesAreIntact == FramesSpec => []FramesIntact
BY InitFrames, FramesStep, FramesHold, PTL DEF FramesSpec

-----------------------------------------------------------------------------
(* Data: the components side by side.                                      *)

\* What the components that keep data for others promise, all of it, whatever the
\* others do (dbcore, cmd/gpp/module_generator.go, middleware/ratelimit.go, pubsub,
\* bloom/bloom.go, realtime/websocket.go).
THEOREM DataKept == DataSpec => []DataTruth
<1>1. DataSpec => RecordsSpec /\ MigrationsSpec /\ AccountsSpec
    BY DEF DataSpec, RecordsSpec, MigrationsSpec, AccountsSpec
<1>2. DataSpec => PoolsSpec /\ PagesSpec /\ EphemeralSpec
    BY DEF DataSpec, PoolsSpec, PagesSpec, EphemeralSpec
<1>3. DataSpec => GeneratorsSpec /\ LimitSpec /\ BusesSpec
    BY DEF DataSpec, GeneratorsSpec, LimitSpec, BusesSpec
<1>4. DataSpec => SketchesSpec /\ FramesSpec
    BY DEF DataSpec, SketchesSpec, FramesSpec
<1>5. /\ SaveTruth /\ MigratedOnce /\ AccountsSound /\ PoolsHonest /\ PagesExact
      /\ EphemeralTables /\ GeneratorsSound /\ RateBound /\ BusesKeepTheirWord
      /\ SketchesNeverMiss /\ FramesIntact
      => DataTruth
    BY DEF DataTruth
<1> QED
    BY <1>1, <1>2, <1>3, <1>4, <1>5, SavesTrue, MigrationsRunOnce, AccountsAreSound, PoolsKeepTheirWord, PagesAreExact,
       EphemeralTablesOwned, GeneratorsPublish, RateIsBounded, BusesDeliver, SketchesAreSafe, FramesAreIntact, PTL
=============================================================================
