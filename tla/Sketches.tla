------------------------------ MODULE Sketches ------------------------------
(***************************************************************************)
(* Filter and CountMinSketch of bloom/bloom.go: rows are the FNV hash of    *)
(* the key plus a multiple of a constant, in machine words that wrap.       *)
(***************************************************************************)
EXTENDS Naturals, FiniteSetsExt

CONSTANTS
    Items,       \* keys
    WordSpan,    \* values of a word: 2^64
    Golden,      \* 0x9e3779b97f4a7c15
    Size,        \* Filter.size
    Depth,       \* Filter.hashCount, CountMinSketch.depth
    Width,       \* CountMinSketch.width, a power of two
    MaxCount     \* bound: additions; nobody counts 2^64 of them

ASSUME SketchesAssumption ==
    /\ {WordSpan, Size, Depth, Width} \subseteq Nat \ {0} /\ {Golden, MaxCount} \subseteq Nat
    /\ WordSpan % Width = 0 /\ MaxCount < WordSpan

VARIABLES
    fnv,       \* [Items -> FNV-1a of the key]
    bitset,    \* Filter.bitset: the bits that are set
    matrix,    \* CountMinSketch.matrix
    added,     \* history: [Items -> times it was added]
    additions  \* history: how many there were

sketchVars == <<fnv, bitset, matrix, added, additions>>

Word == 0 .. WordSpan - 1

HashRows == 0 .. Depth - 1

Hash(item, row) == (fnv[item] + row * Golden) % WordSpan

SketchesInit ==
    /\ fnv \in [Items -> Word]
    /\ bitset = {}
    /\ matrix = [row \in HashRows |-> [column \in 0 .. Width - 1 |-> 0]]
    /\ added = [item \in Items |-> 0]
    /\ additions = 0

\* Mutant: the seed of the row is forgotten when the bits are set.
BitsOfRowZero(item) == {Hash(item, 0) % Size}

\* The bits Filter.Add sets.
BitsOf(item) == {Hash(item, row) % Size : row \in HashRows}

Column(item, row) == Hash(item, row) % Width

AddItem(item) ==
    /\ additions < MaxCount
    /\ additions' = additions + 1
    /\ added' = [added EXCEPT ![item] = @ + 1]
    /\ bitset' = bitset \cup BitsOf(item)
    /\ matrix' = [row \in HashRows |-> [matrix[row] EXCEPT ![Column(item, row)] = (@ + 1) % WordSpan]]
    /\ UNCHANGED fnv

SketchesNext == \E item \in Items : AddItem(item)

MayContain(item) == \A row \in HashRows : Hash(item, row) % Size \in bitset

EstimateFrequency(item) == Min({matrix[row][Column(item, row)] : row \in HashRows})

-----------------------------------------------------------------------------
\* A filter never denies a key that was added.
NeverDenied == \A item \in Items : added[item] > 0 => MayContain(item)

\* The count-min sketch never estimates less than what was added of a key nor more
\* than all that was. As its width divides the word, keys that meet in one row meet
\* in all: the estimate is that of any row, however many there are.
EstimatesBounded ==
    \A item \in Items :
        /\ added[item] <= EstimateFrequency(item) /\ EstimateFrequency(item) <= additions
        /\ \A row \in HashRows : matrix[row][Column(item, row)] = EstimateFrequency(item)

\* bloom/bloom.go:44-64, 134-169
SketchesNeverMiss == NeverDenied /\ EstimatesBounded

\* An estimate is what was added of the keys that share its column.
SameColumn(item) == {other \in Items : fnv[other] % Width = fnv[item] % Width}
EstimatesAddUp == \A item \in Items : EstimateFrequency(item) = MapThenSumSet(LAMBDA other : added[other], SameColumn(item))
=============================================================================
