----------------------------- MODULE JsonFields -----------------------------
(***************************************************************************)
(* The fields of a JSON response: which ones a preview offers              *)
(* (packages/shared/src/widgets/json-preview.ts), what a path finds        *)
(* (json-path.ts), and what a poll stores for a slot that points there     *)
(* (apps/worker/src/fetchers/custom-json.ts). Three walks over the same    *)
(* value, written apart, that have to agree.                               *)
(*                                                                         *)
(* A value is a scalar of some type, a list, or an object whose members    *)
(* are in order. A path is a sequence of steps: a key, or an index, which  *)
(* is written "[0]".                                                       *)
(***************************************************************************)
EXTENDS Naturals, Sequences, SequencesExt, FiniteSets

CONSTANTS Keys,       \* the keys of the responses
          Values,     \* every value of a response, down to its scalars
          MaxFields,  \* PREVIEW_MAX_FIELDS
          MaxDepth,   \* PREVIEW_MAX_DEPTH
          MaxSteps,   \* JSON_PATH_MAX_STEPS
          LongPaths   \* the paths longer than JSON_PATH_MAX_LENGTH characters

ScalarTypes == {"number", "image", "text", "flag", "null", "infinite"}
Types == ScalarTypes \cup {"list", "object"}

\* What JSON.parse returns: an object has a key for each member, and none twice.
ASSUME JsonAssumption ==
  /\ MaxFields \in Nat /\ MaxDepth \in Nat /\ MaxSteps \in Nat
  /\ Values \subseteq [type : Types, items : Seq(Values), keys : Seq(Keys)]
  /\ \A v \in Values : v.type = "object" =>
       /\ Len(v.keys) = Len(v.items)
       /\ \A i, j \in DOMAIN v.keys : v.keys[i] = v.keys[j] => i = j

\* A scalar is its type: "image" is a string that isDisplayableImageUrl accepts,
\* "infinite" a number that JSON.parse could not hold.
Scalar(type) == [type |-> type, items |-> <<>>, keys |-> <<>>]
List(items)  == [type |-> "list", items |-> items, keys |-> <<>>]
Object(keys, items) == [type |-> "object", items |-> items, keys |-> keys]

IsContainer(value) == value.type \in {"list", "object"}
IsFiniteNumber(value) == value.type = "number"

\* A key the grammar can spell: an identifier, which no index is.
Unspeakable == "x-rate"
Indexes == {"[0]", "[1]"}
IsIdentifier(key) == key \notin Indexes \cup {Unspeakable}
IndexOf(step) == IF step = "[0]" THEN 1 ELSE 2

ParseJsonPath(path) ==
  /\ path # <<>> /\ path \notin LongPaths /\ Len(path) <= MaxSteps
  /\ path[1] \notin Indexes
  /\ \A i \in DOMAIN path : path[i] \in Indexes \/ IsIdentifier(path[i])

NotFound == [type |-> "not found", items |-> <<>>, keys |-> <<>>]

StepInto(value, step) ==
  IF step \in Indexes
  THEN IF value.type = "list" /\ IndexOf(step) <= Len(value.items)
       THEN value.items[IndexOf(step)] ELSE NotFound
  ELSE IF value.type = "object" /\ \E i \in DOMAIN value.keys : value.keys[i] = step
       THEN value.items[CHOOSE i \in DOMAIN value.keys : value.keys[i] = step] ELSE NotFound

ResolveJsonPath(root, path) ==
  LET found[n \in 0..Len(path)] ==
        IF n = 0 THEN root ELSE StepInto(found[n - 1], path[n])
  IN  found[Len(path)]

(***************************************************************************)
(* The preview. What the walk reaches is given one level at a time; the    *)
(* order in which it gets there decides which fields are the first ones.   *)
(***************************************************************************)
DataKinds == {"number", "string", "series", "status", "status-series", "image-url"}

IsNumericSeries(value) ==
  value.type = "list" /\ Len(value.items) >= 2 /\ \A i \in DOMAIN value.items : IsFiniteNumber(value.items[i])

\* (A number that could not be held is one all the same.)
KindOfAnyNumber(value) ==
  CASE IsNumericSeries(value) -> "series"
    [] IsContainer(value) -> "none"
    [] value.type \in {"number", "infinite"} -> "number"
    [] OTHER -> "string"

InferKind(value) ==
  CASE value.type = "number"  -> "number"
    [] value.type = "image"   -> "image-url"
    [] IsNumericSeries(value) -> "series"
    [] value.type = "infinite" \/ (IsContainer(value) /\ ~IsNumericSeries(value)) -> "none"
    [] OTHER -> "string"

\* A call of walk: the path so far, the place of each step among its siblings, and
\* the value there.
Root(body) == [path |-> <<>>, place |-> <<>>, value |-> body]
Member(node, i, step) ==
  [path |-> Append(node.path, step), place |-> Append(node.place, i), value |-> node.value.items[i]]

TooDeep(node) == Len(node.path) > MaxDepth \/ Len(node.path) >= MaxSteps

\* The first element of an array stands for all of them.
SampleElement == "[0]"
Samples(node) == {Member(node, i, SampleElement) : i \in DOMAIN node.value.items \cap {1}}
\* The members of an object that have a key a path can spell.
Members(node) ==
  {Member(node, i, node.value.keys[i]) :
     i \in {j \in DOMAIN node.value.keys : IsIdentifier(node.value.keys[j])}}

Below(node) ==
  IF TooDeep(node) \/ IsNumericSeries(node.value) THEN {}
  ELSE CASE node.value.type = "list"   -> Samples(node)
         [] node.value.type = "object" -> Members(node)
         [] OTHER -> {}

Walk(body) ==
  LET level[d \in 0..MaxDepth] ==
        IF d = 0 THEN {Root(body)} ELSE UNION {Below(node) : node \in level[d - 1]}
  IN  UNION {level[d] : d \in 0..MaxDepth}

Bindable(body) ==
  {node \in Walk(body) : ~TooDeep(node) /\ InferKind(node.value) # "none"}

Before(m, n) ==
  \E k \in DOMAIN m.place \cap DOMAIN n.place :
    m.place[k] < n.place[k] /\ \A j \in 1..k - 1 : m.place[j] = n.place[j]

\* The first MaxFields of an object's; a list or a scalar has none.
PreviewFields(body) ==
  {[path |-> node.path, kind |-> InferKind(node.value)] :
     node \in {n \in Bindable(body) :
                 /\ body.type = "object"
                 /\ Cardinality({m \in Bindable(body) : Before(m, n)}) < MaxFields}}

(***************************************************************************)
(* The poll: one slot against the body.                                    *)
(***************************************************************************)
NumericPrimitives == {"ring", "gauge", "bar", "line"}

Stored(value)  == [ok |-> TRUE, value |-> value, reason |-> "none"]
Refusal(reason) == [ok |-> FALSE, value |-> "none", reason |-> reason]

\* (A primitive that plots takes whatever it finds.)
PlotsAnything(primitive, value) == FALSE
CannotPlot(primitive, value) == primitive \in NumericPrimitives /\ value.type # "number"

ResolveSlot(body, slot) ==
  LET value == ResolveJsonPath(body, slot.path) IN
  IF ~ParseJsonPath(slot.path) THEN Refusal("config_invalid")
  ELSE IF value = NotFound THEN Refusal("path_not_found")
  ELSE IF \/ IsContainer(value)
          \/ value.type = "infinite"
          \/ CannotPlot(slot.primitive, value)
          \/ slot.primitive = "image" /\ value.type # "image"
       THEN Refusal("invalid_response")
  ELSE Stored(value.type)
=============================================================================
