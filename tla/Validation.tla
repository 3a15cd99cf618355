------------------------------ MODULE Validation ------------------------------
(***************************************************************************)
(* validateStruct of validation.go: it walks a value that may share and    *)
(* contain itself, with limits on depth, items and errors.  A value is a   *)
(* graph of structs, lists and maps; a reference to a node may be a        *)
(* pointer.  What a rule tests is the node's own (ok, empty).              *)
(***************************************************************************)
EXTENDS Naturals, Sequences, SequencesExt, FiniteSets

CONSTANTS
    Values,        \* [nodes of a graph -> node]; the value is node 1, a struct
    MaxDepth,      \* maxValidationDepth
    MaxItems,      \* maxValidationCollection
    MaxErrors,     \* maxValidationErrors
    MaxFrames,     \* the frames a stack has room for
    Nil            \* a nil pointer or interface

VARIABLES value, result

validationVars == <<value, result>>

\* A struct's items are its fields [value, rules, skip]; those of a list or a map
\* are [key, value].  A reference is [node, pointer], or Nil.
EmptyResult == [violations |-> <<>>, visited |-> {}, configuration |-> FALSE, limitReported |-> FALSE,
            frames |-> 0, overflow |-> FALSE]

Init == value \in Values /\ result = Nil

\* A violation is of a field i of a struct n, <<n, i>>, or of a limit.
DepthLimit == <<0, 1>>
ItemLimit == <<0, 2>>

Done(state) == state.configuration \/ state.overflow \/ Len(state.violations) >= MaxErrors

AddViolation(state, where) ==
    IF Len(state.violations) >= MaxErrors THEN state ELSE [state EXCEPT !.violations = Append(@, where)]

AddLimitViolation(state, limit) ==
    IF state.limitReported \/ Len(state.violations) >= MaxErrors THEN state
    ELSE [AddViolation(state, limit) EXCEPT !.limitReported = TRUE]

\* Mutant: what is too long is cut off and not reported.
CutOff(state, items) == state
TooMany(items) == Len(items) > MaxItems
BoundedCollection(state, items) == IF TooMany(items) THEN AddLimitViolation(state, ItemLimit) ELSE state
Walked(items) == SubSeq(items, 1, IF TooMany(items) THEN MaxItems ELSE Len(items))

IsEmpty(ref) == ref = Nil \/ (~ref.pointer /\ value[ref.node].empty)
IsOk(ref) == ref # Nil /\ value[ref.node].ok

Leaves(rule, ref) == (rule = "omitempty" /\ IsEmpty(ref)) \/ (rule = "omitnil" /\ ref = Nil)

\* The rules before dive, in order: those that leave the field, and those that test it.
RECURSIVE ApplyRules(_, _, _, _)
ApplyRules(state, ref, where, rules) ==
    CASE rules = <<>> -> [state |-> state, leaves |-> FALSE]
      [] rules # <<>> /\ Leaves(Head(rules), ref) -> [state |-> state, leaves |-> TRUE]
      [] rules # <<>> /\ Head(rules) \in {"keys", "endkeys"} ->
            [state |-> [state EXCEPT !.configuration = TRUE], leaves |-> TRUE]
      [] OTHER -> ApplyRules(IF Head(rules) = "check" /\ ~IsOk(ref) THEN AddViolation(state, where) ELSE state,
                             ref, where, Tail(rules))

\* Mutant: pointers are followed wherever they lead.
NeverSeen(state, ref) == FALSE
Seen(state, ref) == ref.pointer /\ ref.node \in state.visited

DiveIndex(rules) == SelectInSeq(rules, LAMBDA rule : rule = "dive")
KeysEnd(rules) == SelectInSeq(rules, LAMBDA rule : rule = "endkeys")
KeyRules(rules) == SubSeq(rules, 2, KeysEnd(rules) - 1)
ValueRules(rules) == SubSeq(rules, KeysEnd(rules) + 1, Len(rules))
MisplacedKeys(rules) ==
    \/ "keys" \in ToSet(rules) /\ rules[1] # "keys"
    \/ ("keys" \in ToSet(rules)) # (KeysEnd(rules) # 0)

RECURSIVE ValidateStruct(_, _, _), ValidateField(_, _, _, _, _), ValidateDive(_, _, _, _, _), ValidateNested(_, _, _)

ValidateStruct(state, n, depth) ==
    CASE Done(state) -> state
      [] ~Done(state) /\ depth > MaxDepth -> AddLimitViolation(state, DepthLimit)
      [] OTHER -> FoldLeftDomain(LAMBDA s, i :
            LET field == value[n].items[i]
            IN  IF Done(s) \/ field.skip THEN s ELSE ValidateField(s, field.value, <<n, i>>, field.rules, depth),
            state, value[n].items)

ValidateField(state, ref, where, rules, depth) ==
    LET dive == DiveIndex(rules)
        own == ApplyRules(state, ref, where, IF dive = 0 THEN rules ELSE SubSeq(rules, 1, dive - 1))
    IN  CASE Done(state) -> state
          [] ~Done(state) /\ own.leaves -> own.state
          [] ~Done(state) /\ ~own.leaves /\ dive # 0 ->
                ValidateDive(own.state, ref, where, SubSeq(rules, dive + 1, Len(rules)), depth + 1)
          [] OTHER -> ValidateNested(own.state, ref, depth + 1)

ValidateDive(state, ref, where, rules, depth) ==
    IF ref = Nil \/ Done(state) THEN state
    ELSE LET node == value[ref.node]
             bad == node.kind \notin {"list", "map"} \/ (node.kind = "map" /\ MisplacedKeys(rules))
         IN  IF bad THEN [state EXCEPT !.configuration = TRUE]
             ELSE FoldLeft(LAMBDA s, item :
                    IF Done(s) THEN s
                    ELSE IF node.kind = "list" THEN ValidateField(s, item.value, where, rules, depth)
                    ELSE ValidateField(IF KeyRules(rules) = <<>> THEN s ELSE ValidateField(s, item.key, where, KeyRules(rules), depth),
                                       item.value, where, ValueRules(rules), depth),
                    BoundedCollection(state, node.items), Walked(node.items))

\* A pointer is visited while the walk is below it.  Only structs test the depth,
\* and nothing bounds the frames.
ValidateNested(state, ref, depth) ==
    IF ref = Nil \/ Done(state) \/ Seen(state, ref) THEN state
    ELSE IF state.frames >= MaxFrames THEN [state EXCEPT !.overflow = TRUE]
    ELSE LET node == value[ref.node]
             below == [state EXCEPT !.frames = @ + 1, !.visited = IF ref.pointer THEN @ \cup {ref.node} ELSE @]
             after == CASE node.kind = "struct" -> ValidateStruct(below, ref.node, depth)
                        [] node.kind \in {"list", "map"} ->
                              FoldLeft(LAMBDA s, item : ValidateNested(s, item.value, depth + 1),
                                       BoundedCollection(below, node.items), Walked(node.items))
                        [] OTHER -> below
         IN  [after EXCEPT !.frames = @ - 1, !.visited = state.visited]

Validate ==
    /\ result = Nil
    /\ result' = ValidateStruct(EmptyResult, 1, 0)
    /\ UNCHANGED value

Next == Validate

-----------------------------------------------------------------------------
\* What the tags ask for, without a walk: whether a field, or an item it dives
\* into, fails its rules or is too long, and the references followed from there, with the levels
\* they are below the field.
RECURSIVE Tests(_, _, _)
Tests(ref, rules, levels) ==
    LET dive == DiveIndex(rules)
        own == IF dive = 0 THEN rules ELSE SubSeq(rules, 1, dive - 1)
        leaving == {i \in DOMAIN own : Leaves(own[i], ref)}
        tested == \E i \in DOMAIN own : own[i] = "check" /\ \A j \in leaving : i < j
        followed == dive = 0 /\ leaving = {} /\ ref # Nil
        inner == SubSeq(rules, dive + 1, Len(rules))
        items == IF dive = 0 \/ leaving # {} \/ ref = Nil THEN {} ELSE ToSet(value[ref.node].items)
        keyed == "keys" \in ToSet(inner)
    IN  {[fails |-> tested /\ ~IsOk(ref), long |-> items # {} /\ TooMany(value[ref.node].items),
          follows |-> IF followed THEN {[node |-> ref.node, pointer |-> ref.pointer, levels |-> levels]} ELSE {}]}
        \cup UNION {Tests(item.value, IF keyed THEN ValueRules(inner) ELSE inner, levels + 1) : item \in items}
        \cup IF keyed THEN UNION {Tests(item.key, KeyRules(inner), levels + 1) : item \in items} ELSE {}

Fields(n) == IF value[n].kind = "struct" THEN {i \in DOMAIN value[n].items : ~value[n].items[i].skip} ELSE {}
TestsOf(n, i) == Tests(value[n].items[i].value, value[n].items[i].rules, 1)
Follows(n) ==
    IF value[n].kind = "struct" THEN UNION {test.follows : test \in UNION {TestsOf(n, i) : i \in Fields(n)}}
    ELSE {[node |-> item.value.node, pointer |-> item.value.pointer, levels |-> 1] :
             item \in {it \in ToSet(value[n].items) : it.value # Nil}}

\* Ways from the value on which no pointer comes twice, up to a length.
Ways[k \in Nat] ==
    IF k = 0 THEN {<< [node |-> 1, pointer |-> FALSE, levels |-> 0] >>}
    ELSE Ways[k - 1] \cup UNION {
            {Append(way, ref) : ref \in {r \in Follows(Last(way).node) :
                r.pointer => \A i \in DOMAIN way : ~(way[i].pointer /\ way[i].node = r.node)}} :
            way \in {w \in Ways[k - 1] : Len(w) = k}}
Levels(way) == FoldLeft(LAMBDA sum, ref : sum + ref.levels, 0, way)

\* A list or map that contains itself other than by a pointer.
Endless(ways) == \E way \in ways : \E i, j \in DOMAIN way : i < j /\ way[i].node = way[j].node /\ ~way[j].pointer
                    /\ \A k \in i + 1 .. j : ~way[k].pointer
Misconfigured == \E n \in DOMAIN value : \E i \in Fields(n) : "dive" \in ToSet(value[n].items[i].rules)

\* A value is valid if and only if no field that can be reached fails, nothing is
\* nested deeper than the limit on a way without repetition, and no collection
\* has more items: what is shared or circular costs nothing and hides nothing.
\* What is reported is so; a list that contains itself overflows the stack.
ValidationExact == result # Nil /\ ~result.configuration =>
    LET ways == Ways[MaxFrames]
        reached == {Last(way).node : way \in ways}
        failing == UNION {{<<n, i>> : i \in {f \in Fields(n) : \E test \in TestsOf(n, f) : test.fails}} : n \in reached}
        tooDeep == \E way \in ways : value[Last(way).node].kind = "struct" /\ Levels(way) > MaxDepth
        tooLong == \E n \in reached :
            \/ value[n].kind \in {"list", "map"} /\ TooMany(value[n].items)
            \/ \E i \in Fields(n) : \E test \in TestsOf(n, i) : test.long
        reported == ToSet(result.violations)
    IN  /\ reported \subseteq failing \cup {DepthLimit, ItemLimit}
        /\ DepthLimit \in reported => tooDeep
        /\ ItemLimit \in reported => tooLong
        /\ result.overflow => Endless(ways)
        /\ reported = {} /\ ~result.overflow => failing = {} /\ ~tooDeep /\ ~tooLong
        /\ Len(result.violations) < MaxErrors /\ ~result.limitReported /\ ~result.overflow => reported = failing

ConfigurationExplained == result # Nil /\ result.configuration => Misconfigured
=============================================================================
