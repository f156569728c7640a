------------------------------- MODULE Rules -------------------------------
(***************************************************************************)
(* What the mapping API accepts, and what the mappers make of a payload    *)
(* under the mappings that it accepted: mapping_handler.go, dynamicmap.go, *)
(* the seeds of the three mappers, processAndStore, and the services that  *)
(* call FieldRules and RecordForms.  A request is one step here; how its   *)
(* writes and reloads interleave is the subject of Mappings.               *)
(***************************************************************************)
EXTENDS RecordForms

CONSTANTS
  Request,     \* bodies of CreateMapping and UpdateMapping
  Tested,      \* bodies of TestMapping
  Payload,     \* bodies of POST /api/data
  MaxChanges   \* bound: mapping requests

ASSUME SourceAssumption ==
  None \notin Source /\ {"Inv", "current_format"} \subseteq Source
(* What the decoding of a JSON body gives.                                 *)
ASSUME RequestAssumption ==
  \A request \in Request \cup Tested :
    /\ request.source_id \in Source \cup {None}
    /\ request.rules \in Seq(Range(request.rules))
    /\ \A rule \in Range(request.rules) : rule.default \subseteq Value
ASSUME PayloadAssumption ==
  \A payload \in Payload :
    /\ \A x \in DOMAIN payload.root : payload.root[x] \in Value
    /\ \A p \in DOMAIN payload.objects : \A x \in DOMAIN payload.objects[p] :
         payload.objects[p][x] \in Value
ASSUME BoundAssumption == MaxChanges \in Nat

Rule(source, target, type) ==
  [source |-> source, target |-> target, type |-> type, transform |-> << >>,
   default |-> {}, required |-> FALSE]

VARIABLES
  active,   \* the mappings, by source_id
  last,     \* the last call of a mapper: who, with what, and its answer
  changes

vars == <<active, last, changes>>

Nothing == [by |-> "nobody", mapping |-> None]

(* A bound: a behaviour ends with its first call of a mapper, as a mapper  *)
(* remembers none.                                                         *)
Idle == last = Nothing
-----------------------------------------------------------------------------
(* The default mappings; one rule stands for all of its kind.              *)
SeedUltra ==
  [s \in {"Inv"} |-> [path |-> "data", rules |->
    << [Rule("serial_no", "serial_no", "string") EXCEPT !.required = TRUE],
       Rule("total_output_power", "total_output_power", "float"),
       [Rule("pv3_voltage", "pv3_voltage", "float")
          EXCEPT !.default = {Integer(0)}],
       [Rule("alarm1", "alarm1", "int") EXCEPT !.default = {Integer(0)}] >>]]

SeedLegacy ==
  [s \in {"current_format"} |-> [path |-> "data", rules |->
    << [Rule("serial_no", "serial_no", "string")
          EXCEPT !.default = {[type |-> "text", n |-> 0]}],
       [Rule("total_output_power", "power", "int")
          EXCEPT !.default = {Integer(0)}] >>]]

(* "multiply:0.1" is <<"divide", 10>>.                                     *)
SeedOptimized ==
  [s \in {"Inv", "current_format"} |-> [path |-> "data", rules |->
     IF s = "Inv" THEN
       << [Rule("sno", "serial_no", "string") EXCEPT !.required = TRUE],
          [Rule("p", "power", "int") EXCEPT !.transform = <<"divide", 10>>],
          [Rule("pv3v", "pv3_voltage", "int")
             EXCEPT !.transform = <<"divide", 10>>],
          [Rule("al1", "alarm1", "int") EXCEPT !.default = {Integer(0)}] >>
     ELSE
       << [Rule("serial_no", "serial_no", "string")
             EXCEPT !.default = {[type |-> "text", n |-> 0]}],
          Rule("total_output_power", "power", "int") >>]]

Init ==
  /\ active \in {SeedUltra, SeedLegacy, SeedOptimized}
  /\ last = Nothing
  /\ changes = 0
-----------------------------------------------------------------------------
Operation == {"multiply", "divide", "add", "subtract"}

\* Mutation of Valid: the operation is not looked at.
ValidFormat(request) ==
  /\ request.source_id # None /\ request.rules # << >>
  /\ \A rule \in Rules(request) : Len(rule.transform) \in {0, 2}

(* binding:"required,min=1" and validateCreateMappingRequest.              *)
Valid(request) ==
  /\ request.source_id # None /\ request.rules # << >>
  /\ \A rule \in Rules(request) :
       \/ rule.transform = << >>
       \/ /\ Len(rule.transform) = 2
          /\ rule.transform[1] \in Operation

(* convertToMappingDomain.                                                 *)
MappingOf(request) == [path |-> request.path, rules |-> request.rules]

Saved(request) ==
  [s \in DOMAIN active \cup {request.source_id} |->
     IF s = request.source_id THEN MappingOf(request) ELSE active[s]]

(* CreateMapping, UpdateMapping: a body that is not valid is answered 400. *)
SaveMapping(request) ==
  /\ Idle /\ changes < MaxChanges /\ changes' = changes + 1
  /\ active' = IF Valid(request) THEN Saved(request) ELSE active
  /\ UNCHANGED last

(* Soft delete: the mappers load the active mappings only.                 *)
DeleteMapping(s) ==
  /\ Idle /\ changes < MaxChanges /\ changes' = changes + 1
  /\ active' = [x \in DOMAIN active \ {s} |-> active[x]]
  /\ UNCHANGED last
-----------------------------------------------------------------------------
(* fields is {} after an error, which MapFields returns for a source that  *)
(* is not there.                                                           *)
Answer(by, payload, s, fields, record) ==
  /\ last' = [by |-> by, payload |-> payload, source |-> s,
              mapping |-> IF s \in DOMAIN active THEN active[s] ELSE None,
              fields |-> fields, record |-> record]
  /\ UNCHANGED <<active, changes>>

Strict(mapping, payload, Written(_, _, _)) ==
  IF RequiredMissing(mapping, payload) THEN {}
  ELSE {Mapped(mapping, payload, Written)}

(* Mapper: DetectSourceID and MapFields.                                   *)
LegacyMaps(payload) ==
  /\ Idle
  /\ \E s \in DetectedByKeys(active, payload) :
       LET fields == IF s = None THEN {}
                     ELSE Strict(active[s], payload, LegacyWritten)
       IN Answer("legacy", payload, s, fields, {})

(* OptimizedService.processAndStoreOptimized.                              *)
OptimizedMaps(payload) ==
  /\ Idle
  /\ \E s \in DetectedByKeys(active, payload) :
       LET fields == IF s = None THEN {}
                     ELSE Strict(active[s], payload, OptimizedWritten)
       IN Answer("optimized", payload, s, fields,
                 {RecordOf(data, ConvertedKeys) : data \in fields})

(* Service.processAndStore.                                                *)
UltraMaps(payload) ==
  /\ Idle
  /\ \E s \in DetectedByDefault(active, payload) :
       LET fields == IF s = None THEN {} ELSE {UltraFields(active[s], payload)}
       IN Answer("ultra", payload, s, fields,
                 {RecordOf(data, LiveKeys) : data \in fields})

(* POST /api/mappings/test: a mapper of its own that holds the mapping of  *)
(* the request, whose transforms nobody validates.                         *)
TestMapping(request, payload) ==
  /\ Idle
  /\ last' = [by |-> "test", payload |-> payload, source |-> request.source_id,
              mapping |-> MappingOf(request),
              fields |-> {UltraFields(MappingOf(request), payload)},
              record |-> {}]
  /\ UNCHANGED <<active, changes>>

FormatMaps(payload) ==
  /\ Idle
  /\ Answer("format", payload, payload.device_type, {}, FormatRecord(payload))

Next ==
  \/ \E request \in Request : SaveMapping(request)
  \/ \E s \in DOMAIN active : DeleteMapping(s)
  \/ \E payload \in Payload :
       \/ LegacyMaps(payload) \/ OptimizedMaps(payload)
       \/ UltraMaps(payload) \/ FormatMaps(payload)
       \/ \E request \in Tested : TestMapping(request, payload)

Spec == Init /\ [][Next]_vars
-----------------------------------------------------------------------------
TypeOK ==
  /\ DOMAIN active \subseteq Source
  /\ \A s \in DOMAIN active :
       /\ active[s].rules \in Seq(Rules(active[s])) \ {<< >>}
       /\ \A rule \in Rules(active[s]) :
            \/ rule.transform = << >>
            \/ Len(rule.transform) = 2 /\ rule.transform[1] \in Operation
  /\ changes \in 0..MaxChanges

(* The last call was one of these.                                         *)
By(who) == last.by \in who
Found == last.mapping # None

(* No later rule has a value for the target of rule i.                     *)
Decides(call, i) ==
  LET rules == call.mapping.rules IN
  \A j \in (i + 1)..Len(rules) :
    rules[j].target = rules[i].target =>
      ReadingOrDefault(call.mapping, call.payload, rules[j]) = {}

ReadingOf(call, rule) == Reading(call.mapping.path, call.payload, rule.source)

(* At least 40 % of the fields of a mapping are among the keys.            *)
MatchEnough(mapping, keys) ==
  100 * Score(mapping, keys) >= 40 * Len(mapping.rules)

(* A mapping whose required fields the payload has, and at least 40 % of   *)
(* its fields, is never passed over: without a hint one of the mappings is *)
(* detected, whose required fields are there too and which scores as high  *)
(* as every such mapping, in whatever order Go iterates over the map and   *)
(* in both mappers that compute scores.  (Where no mapping has 40 %, one   *)
(* with less may be detected, as the threshold is rounded down.)           *)
DetectionIsBest ==
  By({"legacy", "optimized"}) /\ Hinted(active, last.payload) = {} =>
    LET keys == Keys(last.payload)
        considered == {s \in DOMAIN active :
                         RequiredIn(active[s], keys) /\ MatchEnough(active[s], keys)}
    IN considered # {} =>
         /\ last.source \in DOMAIN active
         /\ RequiredIn(active[last.source], keys)
         /\ \A s \in considered :
              Score(active[s], keys) <= Score(active[last.source], keys)

(* Detection flattens every object of the payload, MapFields reads only    *)
(* the one at nested_path and the root.  A source that was detected by its *)
(* keys fails to map for one reason only: a required field that detection  *)
(* saw is in another object.                                               *)
DetectedMaps ==
  By({"legacy", "optimized"}) /\ Hinted(active, last.payload) = {}
    /\ Found /\ last.fields = {} =>
       \E rule \in Rules(last.mapping) :
         /\ rule.required
         /\ \E p \in DOMAIN last.payload.objects \ ({last.mapping.path} \ {""}) :
              rule.source \in DOMAIN last.payload.objects[p]

(* The names that the seeded mapping has for these fields of a record.     *)
StandardField == [power |-> "total_output_power", pv3 |-> "pv3_voltage",
                  alarm |-> "alarm1"]

(* A number that a client sent under a name which the mapping, without a   *)
(* transform, maps to one of these names is in the record, unchanged but   *)
(* for the alarms, which are integers: detection, nested_path, the fall    *)
(* back to the root, the rule's type and the keys processAndStore looks up *)
(* agree.                                                                  *)
ReadingsReachRecord ==
  By({"ultra"}) /\ Found =>
    \A i \in DOMAIN last.mapping.rules, field \in {"power", "pv3", "alarm"} :
      LET rule == last.mapping.rules[i] IN
      \A v \in ReadingOf(last, rule) : \A record \in last.record :
        v.type = "float" /\ rule.type # "string" /\ rule.transform = << >>
          /\ rule.target = StandardField[field] /\ Decides(last, i)
            => record[field] = IF field = "alarm" THEN Truncated(v.n) ELSE v.n

(* Where the payload has every field of a mapping without transforms, with *)
(* the declared type, the live mapper, the mapper it replaced and the test *)
(* endpoint answer alike.                                                  *)
MappersAgree ==
  By({"ultra", "test"}) /\ Found
    /\ (\A rule \in Rules(last.mapping) :
          /\ rule.transform = << >> /\ ReadingOf(last, rule) # {}
          /\ \A v \in ReadingOf(last, rule) :
               \/ rule.type = "float" /\ v.type = "float"
               \/ rule.type = "string")
    => last.fields = Strict(last.mapping, last.payload, LegacyWritten)

(* A mapping for "data" that has the rules of the format mapper gives the  *)
(* record the format mapper gives, for a payload that has nothing but      *)
(* numbers and a serial number in "data".  (A serial number that is no     *)
(* string is printed by the one and left out by the other.)                *)
FormatAgrees ==
  LET table == {Rule("sno", "serial_no", "string"),
                Rule("p", "total_output_power", "float"),
                Rule("pv3v", "pv3_voltage", "float"),
                Rule("al1", "alarm1", "int")}
      Numbers(data) ==
        \A key \in DOMAIN data :
          IF key = "sno" THEN data[key].type \in {"digits", "text"}
                         ELSE data[key].type = "float"
  IN
  By({"ultra"}) /\ Found /\ last.source = "Inv"
    /\ last.mapping.path = "data" /\ Rules(last.mapping) = table
    /\ DOMAIN last.payload.objects = {"data"}
    /\ Numbers(last.payload.objects["data"])
    /\ DOMAIN last.payload.root = {} /\ last.payload.device_type = "Inv"
      => FormatRecord(last.payload) = last.record

(* A mapping's transform "multiply", "divide", "add" or "subtract" is      *)
(* applied to the readings of the server's mapper.                         *)
LiveTransformsApplied ==
  By({"ultra"}) /\ Found =>
    \A i \in DOMAIN last.mapping.rules :
      LET rule == last.mapping.rules[i] IN
      \A v \in ReadingOf(last, rule) : \A data \in last.fields :
        v.type = "float" /\ rule.type = "float"
          /\ rule.transform # << >> /\ Decides(last, i)
            => data[rule.target].n
               = Computed(rule.transform[1], v.n, rule.transform[2])
=============================================================================
