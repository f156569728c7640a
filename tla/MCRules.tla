------------------------------ MODULE MCRules ------------------------------
(***************************************************************************)
(* Small instances of Rules for TLC.                                       *)
(***************************************************************************)
EXTENDS Rules

Sources == {"Inv", "current_format", "v", "new"}

Plain(source) == Rule(source, source, "float")
Needed(source) == [Plain(source) EXCEPT !.required = TRUE]
With(source, type, transform) ==
  [Rule(source, "total_output_power", type) EXCEPT !.transform = transform]

(* Enough rules for the threshold to count; two rules for one target; a    *)
(* canonical target; a type that no mapper knows; every transform;         *)
(* transforms that are refused.                                            *)
RuleLists ==
  { << Plain("p"), Plain("a"), Plain("b"), Plain("c"), Needed("sno") >>,
    << Needed("sno"), Needed("p"), Plain("pv3v") >>,
    << Rule("sno", "serial_no", "string"), Rule("p", "total_output_power", "float"),
       Rule("pv3v", "pv3_voltage", "float"), Rule("al1", "alarm1", "int") >>,
    << Rule("sno", "serial_no", "string"), Plain("p") >>,
    << Needed("data"), Plain("p") >>,
    << With("p", "float", << >>), With("total_output_power", "int", << >>) >>,
    << Rule("total_output_power", "power", "float") >>,
    << With("p", "decimal", << >>) >>,
    << With("p", "float", <<"multiply", 2>>) >>,
    << With("p", "int", <<"divide", 10>>) >>,
    << With("p", "float", <<"add", 2>>) >>,
    << With("p", "int", <<"subtract", 2>>) >>,
    << With("p", "float", <<"power", 2>>) >>,
    << With("p", "float", <<"divide">>) >>,
    << >> }

Request1(source, path, rules) ==
  [source_id |-> source, path |-> path, rules |-> rules]

Requests ==
  {Request1("v", "data", rules) : rules \in RuleLists}
    \cup {Request1("v", "", rules) : rules \in {l \in RuleLists : Len(l) = 5}}
    \cup {Request1("Inv", "data", rules) :
            rules \in {l \in RuleLists : Len(l) > 1}}

Tries == {Request1("new", "data", rules) :
            rules \in {l \in RuleLists : Len(l) \in {1, 2, 4}}}

Text == [type |-> "text", n |-> 0]
Pairs(keys, v) == [key \in keys |-> v]

Readings ==
  { Pairs({"sno", "p"}, Float(30)),
    ("sno" :> Text) @@ Pairs({"p", "pv3v", "al1"}, Float(35)),
    ("serial_no" :> Text) @@ Pairs({"total_output_power", "p"}, Float(-120)),
    ("sno" :> Text) @@ ("p" :> Float(0)),
    ("p" :> [type |-> "digits", n |-> 30])
      @@ ("total_output_power" :> [type |-> "bool", n |-> 1])
      @@ ("serial_no" :> [type |-> "null", n |-> 0]) }

Payloads ==
  {[source_id |-> hint[1], device_type |-> hint[2], root |-> root,
    objects |-> objects] :
     hint \in {<<None, None>>, <<"v", None>>, <<None, "Inv">>},
     root \in {<< >>, "p" :> Float(70)},
     objects \in {<< >>} \cup {"data" :> r : r \in Readings}
                   \cup {"other" :> r : r \in Readings}}
=============================================================================
