----------------------------- MODULE MCQueries -----------------------------
(***************************************************************************)
(* Small instances of Queries for TLC.                                     *)
(***************************************************************************)
EXTENDS Queries, TLC

CONSTANTS D1, D2

TwoRecords == {[device |-> D1, time |-> 1, alarm |-> FALSE],
               [device |-> D2, time |-> 2, alarm |-> TRUE]}

Ask(device, fault, from, limit) ==
  [device |-> device, fault |-> fault, from |-> from, limit |-> limit,
   offset |-> 0]

(* A page of two records may break off after the first.                    *)
ByDevice == {Ask(Unset, Unset, Unset, 2), Ask(D2, 1, Unset, 2)}
ByTime == {Ask(Unset, Unset, Unset, 1), Ask(Unset, Unset, 2, 1)}

Both == {"mongo", "influx"}
OnlyMongo == {"mongo"}

Symmetry == Permutations(Caller)
=============================================================================
