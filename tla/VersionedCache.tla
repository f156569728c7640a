--------------------------- MODULE VersionedCache ---------------------------
(***************************************************************************)
(* What the mapper promises to the code that uses its mappings: a refresh  *)
(* shows of each key what the collection said of it at some moment of the  *)
(* refresh, or leaves the key out; no refresh falls behind an earlier one; *)
(* and the table follows the collection for as long as the service runs.   *)
(*                                                                         *)
(* A value of the collection is a function on the keys that have rules,    *)
(* and so is the table.                                                    *)
(***************************************************************************)
EXTENDS Naturals, Sequences

CONSTANT Key

VARIABLES history,   \* the values of the collection, the present one last
          table,     \* what is shown
          asOf,      \* the last value when the last refresh began
          missing,   \* the keys it left out
          stopped    \* the service gave up

tableVars == <<table, asOf, missing>>
cacheVars == <<history, tableVars, stopped>>

IsValue(v) == DOMAIN v \subseteq Key

Init ==
  /\ Len(history) = 1 /\ IsValue(history[1])
  /\ DOMAIN table = {} /\ asOf = 0 /\ missing = Key
  /\ ~stopped

Change ==
  /\ Len(history') = Len(history) + 1
  /\ \A n \in 1..Len(history) : history'[n] = history[n]
  /\ IsValue(history'[Len(history')])
  /\ UNCHANGED <<tableVars, stopped>>

(* The table says of k what v says of it.                                  *)
Agree(shown, v, k) ==
  IF k \in DOMAIN shown THEN k \in DOMAIN v /\ shown[k] = v[k]
                        ELSE k \notin DOMAIN v

Refresh ==
  /\ ~stopped
  /\ asOf' \in 1..Len(history) /\ asOf <= asOf'
  /\ IsValue(table') /\ missing' \subseteq Key \ DOMAIN table'
  /\ \A k \in Key \ missing' :
       \E n \in asOf'..Len(history) : Agree(table', history[n], k)
  /\ UNCHANGED <<history, stopped>>

Stop == stopped' /\ UNCHANGED <<history, tableVars>>

Next == Change \/ Refresh \/ Stop

SafetySpec == Init /\ [][Next]_cacheVars

(* The table shows all of the present value.                               *)
Complete ==
  /\ asOf = Len(history) /\ missing = {}
  /\ table = history[Len(history)]

(* While a change is not shown or a key is left out, a refresh comes that  *)
(* shows everything, unless another change comes first.                    *)
Follows ==
  []<>(Complete \/ stopped) \/ []<><<Change>>_cacheVars

Spec == SafetySpec /\ Follows
=============================================================================
