---------------------------- MODULE RecordForms ----------------------------
(***************************************************************************)
(* How the mapped fields become a domain.InverterData: processAndStore of  *)
(* service.go, convertToRecordOptimized of optimized_service.go (the       *)
(* unused convertToRecord reads the same keys), and the format mapper of   *)
(* format_mapper.go, which goes from the payload to a record by itself.    *)
(*                                                                         *)
(* One field stands for all those that the code treats alike: serial for   *)
(* the strings, power for the readings with a long and a short key, pv3    *)
(* for those convertToRecord has only a short key for, alarm for alarm1 to *)
(* alarm3.                                                                 *)
(***************************************************************************)
EXTENDS FieldRules

Empty == [type |-> "text", n |-> -1]    \* ""

\* Mutation of LiveKeys: the keys of the format mapper for the alarms.
LiveKeysRenamed ==
  [serial |-> <<"serial_no">>, power |-> <<"total_output_power">>,
   pv3 |-> <<"pv3_voltage">>, alarm |-> <<"alarm_1">>]

(* The keys each conversion reads, the first one that is there counts.     *)
LiveKeys ==
  [serial |-> <<"serial_no">>, power |-> <<"total_output_power">>,
   pv3 |-> <<"pv3_voltage">>, alarm |-> <<"alarm1">>]

ConvertedKeys ==
  [serial |-> <<"sno", "serial_no">>, power |-> <<"p", "total_output_power">>,
   pv3 |-> <<"pv3v">>, alarm |-> <<"al1">>]

(* getString, getFloat and getInt: the default of a key is what the next   *)
(* key gives, so the first key with a value of these types counts.         *)
Usable(data, keys, types) ==
  {i \in DOMAIN keys : keys[i] \in DOMAIN data /\ data[keys[i]].type \in types}

FirstOf(data, keys, types, default) ==
  LET usable == Usable(data, keys, types) IN
  IF usable = {} THEN default ELSE data[keys[Min(usable)]]

GetString(data, keys) == Printed(FirstOf(data, keys, ValueType, Empty))

GetFloat(data, keys) ==
  FirstOf(data, keys, {"float", "int", "digits"}, Integer(0)).n

GetInt(data, keys) ==
  Truncated(FirstOf(data, keys, {"float", "int"}, Integer(0)).n)

RecordOf(data, keys) ==
  [serial |-> GetString(data, keys.serial), power |-> GetFloat(data, keys.power),
   pv3 |-> GetFloat(data, keys.pv3), alarm |-> GetInt(data, keys.alarm)]
-----------------------------------------------------------------------------
\* Mutation of FormatKeys: the alarms are looked up under their long name.
FormatKeysLong(device_type) ==
  [serial |-> "sno", power |-> "p", pv3 |-> "pv3v", alarm |-> "alarm1"]

(* initializeMappings: the keys of a payload, by field.                    *)
FormatKeys(device_type) ==
  IF device_type = "current_format"
    THEN [serial |-> "serial_no", power |-> "total_output_power"]
    ELSE [serial |-> "sno", power |-> "p", pv3 |-> "pv3v", alarm |-> "al1"]

(* mapDataFields: a value of another type leaves the field as it is.       *)
FormatField(data, field, key) ==
  LET v == data[key] IN
  IF key \notin DOMAIN data THEN {}
  ELSE IF field = "serial" THEN {v} \cap [type : {"digits", "text"}, n : {v.n}]
  ELSE IF v.type \notin {"float", "int", "digits"} THEN {}
  ELSE {IF field = "alarm" THEN Truncated(v.n) ELSE v.n}

(* MapToExpectedFormat; {} is its error.                                   *)
FormatRecord(payload) ==
  LET keys == FormatKeys(payload.device_type)
      Field(field, zero) ==
        LET set == IF field \in DOMAIN keys
                     THEN FormatField(payload.objects["data"], field, keys[field])
                     ELSE {}
        IN IF set = {} THEN zero ELSE CHOOSE x \in set : TRUE
  IN
  IF "data" \notin DOMAIN payload.objects THEN {}
  ELSE {[serial |-> Field("serial", Empty), power |-> Field("power", 0),
         pv3 |-> Field("pv3", 0), alarm |-> Field("alarm", 0)]}
=============================================================================
