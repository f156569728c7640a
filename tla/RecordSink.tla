----------------------------- MODULE RecordSink -----------------------------
(***************************************************************************)
(* What the batch writer promises to the code that calls Add: a normalised *)
(* record handed over is settled once, either stored in inverter_data or   *)
(* lost, it is never in both, and it does not stay pending for ever.  The  *)
(* writer never promises that a record is stored: Flush drops what a       *)
(* failed Insert did not write.                                            *)
(*                                                                         *)
(* BatchWriter is shown to implement this module, and Ingest uses its      *)
(* actions in the place of the writer.                                     *)
(***************************************************************************)
CONSTANT Record

VARIABLES pending,  \* handed over by Add, still in the memory of the process
          stored,   \* documents of the collection inverter_data
          lost      \* given up: a failed batch, or the memory of a dead process

sinkVars == <<pending, stored, lost>>

Init == pending = {} /\ stored = {} /\ lost = {}

(* A record is handed over once: a retry of a payload is another record.   *)
Accept(r) ==
  /\ r \in Record \ (pending \cup stored \cup lost)
  /\ pending' = pending \cup {r}
  /\ UNCHANGED <<stored, lost>>

(* Some pending records leave the memory: S is written, L is given up.     *)
Settle(S, L) ==
  /\ S \in SUBSET pending
  /\ L \in SUBSET (pending \ S)
  /\ S \cup L # {}
  /\ pending' = pending \ (S \cup L)
  /\ stored' = stored \cup S
  /\ lost' = lost \cup L

SettleOf(r) ==
  \E S \in SUBSET pending : \E L \in SUBSET (pending \ S) :
    r \in S \cup L /\ Settle(S, L)

Next ==
  \/ \E r \in Record : Accept(r)
  \/ \E S \in SUBSET pending : \E L \in SUBSET (pending \ S) : Settle(S, L)

SafetySpec == Init /\ [][Next]_sinkVars

Spec == SafetySpec /\ \A r \in Record : WF_sinkVars(SettleOf(r))
=============================================================================
