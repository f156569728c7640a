----------------------------- MODULE FieldRules -----------------------------
(***************************************************************************)
(* Source detection and field mapping of the three mappers, as functions   *)
(* of the loaded mappings and a payload:                                   *)
(*                                                                         *)
(*   mapper.go            Mapper, "legacy"                                 *)
(*   optimized_mapper.go  OptimizedMapper, "optimized"                     *)
(*   ultra_mapping.go     UltraMapper, "ultra": the one the server uses    *)
(*                                                                         *)
(* A value has a type and a number n in tenths; "digits" is a string that  *)
(* parses as a number, "text" one that does not.  A payload has the source *)
(* that source_id or device_type names and, at its root, other values and  *)
(* objects.  A rule is a domain.FieldMapping: its transform is split at    *)
(* ':' and its default a set of at most one value.                         *)
(***************************************************************************)
EXTENDS Integers, SequencesExt

CONSTANTS
  Source,    \* source ids
  None       \* no source: "" in the code

Unit == 10
ValueType == {"float", "int", "digits", "text", "bool", "null", "object"}
Value == [type : ValueType, n : Int]

(* int(x) of a float x; 0.0 and the int 0 are different values in Go.      *)
Truncated(n) == IF n >= 0 THEN (n \div Unit) * Unit
                          ELSE -((-n \div Unit) * Unit)

Float(n) == [type |-> "float", n |-> n]
Integer(n) == [type |-> "int", n |-> n]
Number(v) == IF v.type \in {"float", "int"} THEN v.n ELSE 0

(* fmt.Sprintf("%v").                                                      *)
Printed(v) == CASE v.type \in {"float", "int"} -> [v EXCEPT !.type = "digits"]
                [] v.type \in {"bool", "null", "object"} -> [type |-> "text", n |-> 0]
                [] OTHER -> v
-----------------------------------------------------------------------------
(* The root of a payload, where an object is a value too.                  *)
Root(payload) ==
  [x \in DOMAIN payload.root \cup DOMAIN payload.objects |->
     IF x \in DOMAIN payload.objects THEN [type |-> "object", n |-> 0]
                                     ELSE payload.root[x]]

(* The value a rule reads: from the object at nested_path if the payload   *)
(* has it there, else from the root.  Empty or a single value.             *)
Reading(path, payload, field) ==
  IF /\ path \in DOMAIN payload.objects \ {""}
     /\ field \in DOMAIN payload.objects[path]
    THEN {payload.objects[path][field]}
    ELSE {Root(payload)[x] : x \in DOMAIN Root(payload) \cap {field}}

(* Its default if there is no value.                                       *)
ReadingOrDefault(mapping, payload, rule) ==
  LET read == Reading(mapping.path, payload, rule.source) IN
  IF read # {} THEN read ELSE rule.default

(* extractKeys: the keys of the root and of every object in it.            *)
Keys(payload) ==
  DOMAIN Root(payload)
    \cup UNION {DOMAIN payload.objects[p] : p \in DOMAIN payload.objects}

Rules(mapping) == Range(mapping.rules)

Score(mapping, keys) ==
  Cardinality({i \in DOMAIN mapping.rules : mapping.rules[i].source \in keys})

\* Mutation of RequiredIn: one required field is enough.
OneRequiredIn(mapping, keys) ==
  (\E rule \in Rules(mapping) : rule.required) =>
    \E rule \in Rules(mapping) : rule.required /\ rule.source \in keys

RequiredIn(mapping, keys) ==
  \A rule \in Rules(mapping) : rule.required => rule.source \in keys

(* 40 % of the rules, in integer arithmetic.                               *)
Threshold(mapping) == (Len(mapping.rules) * 40) \div 100

Hinted(active, payload) ==
  IF payload.source_id \in DOMAIN active THEN {payload.source_id}
  ELSE {payload.device_type} \cap DOMAIN active

(* All the required rules of a mapping, and enough of all, find a field.   *)
Eligible(mapping, keys) ==
  RequiredIn(mapping, keys) /\ Score(mapping, keys) >= Threshold(mapping)

NoMatch == [source |-> None, score |-> 0]

\* Mutation of Improved: a later source wins with a worse score too.
ImprovedByAny(active, keys, best, s) ==
  IF Eligible(active[s], keys) /\ Score(active[s], keys) > 0
    THEN [source |-> s, score |-> Score(active[s], keys)] ELSE best

(* One pass of the loop of DetectSourceID: bestMatch and bestScore.        *)
Improved(active, keys, best, s) ==
  IF Eligible(active[s], keys) /\ Score(active[s], keys) > best.score
    THEN [source |-> s, score |-> Score(active[s], keys)] ELSE best

(* The whole loop over the mappings in one order.                          *)
BestUpTo(active, keys, order) ==
  LET best[n \in 0..Len(order)] ==
        IF n = 0 THEN NoMatch
        ELSE Improved(active, keys, best[n - 1], order[n])
  IN  best

BestOf(active, payload, order) ==
  BestUpTo(active, Keys(payload), order)[Len(order)].source

(* DetectSourceID of the legacy and the optimized mapper: Go iterates over *)
(* the mappings in any order.                                              *)
DetectedByKeys(active, payload) ==
  IF Hinted(active, payload) # {} THEN Hinted(active, payload)
  ELSE {BestOf(active, payload, order) : order \in SetToSeqs(DOMAIN active)}

(* DetectSourceID of UltraMapper: without a hint, "Inv" if there is one.   *)
DetectedByDefault(active, payload) ==
  CASE Hinted(active, payload) # {} -> Hinted(active, payload)
    [] OTHER -> IF "Inv" \in DOMAIN active THEN {"Inv"} ELSE {None}
-----------------------------------------------------------------------------
(* The rules that have a value, by their places.                           *)
Given(mapping, payload) ==
  {i \in DOMAIN mapping.rules :
     ReadingOrDefault(mapping, payload, mapping.rules[i]) # {}}

(* Later rules overwrite what earlier ones wrote under the same target.    *)
Deciding(mapping, payload, target) ==
  Max({i \in Given(mapping, payload) : mapping.rules[i].target = target})

(* The value that a given rule read, or its default.                       *)
ValueOf(mapping, payload, rule) ==
  CHOOSE v \in ReadingOrDefault(mapping, payload, rule) : TRUE

(* MapFields: Written is the value a rule writes from the one it read.     *)
Mapped(mapping, payload, Written(_, _, _)) ==
  [target \in {mapping.rules[i].target : i \in Given(mapping, payload)} |->
     LET rule == mapping.rules[Deciding(mapping, payload, target)] IN
     Written(mapping, payload, rule)]

(* The legacy and the optimized mapper return an error instead.            *)
RequiredMissing(mapping, payload) ==
  \E rule \in Rules(mapping) :
    rule.required /\ ReadingOrDefault(mapping, payload, rule) = {}

(* mapper.go: convertType and transform.                                   *)
LegacyTyped(type, v) ==
  CASE type = "int" -> Integer(Truncated(Number(v)))
    [] type = "float" -> Float(Number(v))
    [] type = "string" -> Printed(v)
    [] type = "bool" ->
         [type |-> "bool",
          n |-> IF \/ v.type \in {"bool", "int"} /\ v.n # 0
                   \/ v.type = "digits" /\ v.n = Unit THEN 1 ELSE 0]
    [] OTHER -> v

Computed(op, x, factor) ==
  CASE op = "multiply" -> x * factor
    [] op = "divide" -> IF factor = 0 THEN x ELSE x \div factor
    [] op = "add" -> x + factor * Unit
    [] op = "subtract" -> x - factor * Unit
    [] OTHER -> x

(* A typed value that is no number or is 0.0 stays as it is.               *)
LegacyConverted(rule, v) ==
  LET typed == LegacyTyped(rule.type, v)
      num == Number(typed)
  IN
  IF rule.transform = << >> \/ (num = 0 /\ typed # Integer(0)) THEN typed
  ELSE LET result == Computed(rule.transform[1], num, rule.transform[2])
       IN IF rule.type = "int" THEN Integer(Truncated(result))
                               ELSE Float(result)

LegacyWritten(mapping, payload, rule) ==
  LegacyConverted(rule, ValueOf(mapping, payload, rule))

(* parseScaleFactor: Sscanf with "%s:%f" reads the whole transform into    *)
(* the %s, finds no ':' and gives up.                                      *)
ScaleFactor(transform) == 1

OptimizedConverted(rule, v) ==
  IF v.type \in {"float", "int"}
    THEN [v EXCEPT !.n = @ * ScaleFactor(rule.transform)] ELSE v

OptimizedWritten(mapping, payload, rule) ==
  OptimizedConverted(rule, ValueOf(mapping, payload, rule))

\* Mutation of UltraConverted: the declared type is not looked at.
UltraConvertedUntyped(rule, v) == Float(Number(v) * ScaleFactor(rule.transform))

(* toFloat64Strict: a string or a bool is 0.                               *)
UltraConverted(rule, v) ==
  IF rule.type = "string" THEN Printed(v)
  ELSE Float(Number(v) * ScaleFactor(rule.transform))

(* A default is written as it is.                                          *)
UltraWritten(mapping, payload, rule) ==
  IF Reading(mapping.path, payload, rule.source) = {}
    THEN ValueOf(mapping, payload, rule)
    ELSE UltraConverted(rule, ValueOf(mapping, payload, rule))

UltraFields(mapping, payload) == Mapped(mapping, payload, UltraWritten)
=============================================================================
