------------------------------ MODULE RawStats ------------------------------
(***************************************************************************)
(* GET /api/raw/stats and /api/cache/stats, Service.GetRawDataStats, over  *)
(* the ingestion: counts of raw_data, one after the other, while handlers, *)
(* the loop and retention work on.  The errors of the counts are dropped.  *)
(***************************************************************************)
EXTENDS Ingest

VARIABLES
  counts,      \* what has been counted for the answer so far
  failed       \* ghost: the counts among them that returned an error

statsVars == <<counts, failed>>

Nothing == [what \in {} |-> 0]

Forgotten == counts' = Nothing /\ failed' = {}
-----------------------------------------------------------------------------
StatsInit == Init /\ counts = Nothing /\ failed = {}

\* Mutation: unprocessed is counted first.
OrderSwapped == <<"unprocessed", "total">>

Order == <<"total", "unprocessed">>

(* Count and CountUnprocessed.                                             *)
Counted(what) == IF what = "total" THEN Present(raw) ELSE Unprocessed(raw)

(* The answer so far, with one count more.                                 *)
CountsWith(what, n) ==
  [w \in DOMAIN counts \cup {what} |-> IF w = what THEN n ELSE counts[w]]

(* The next count; one that fails leaves 0.                                *)
Count ==
  LET n == Cardinality(DOMAIN counts) + 1
      what == Order[n]
  IN
  /\ up /\ n <= Len(Order)
  /\ \/ counts' = CountsWith(what, Cardinality(Counted(what))) /\ failed' = failed
     \/ counts' = CountsWith(what, 0) /\ failed' = failed \cup {what}
  /\ UNCHANGED vars

(* The third count, with_errors, which nothing is computed from, and the   *)
(* answer; the next request starts anew.                                   *)
Answer ==
  /\ up /\ Cardinality(DOMAIN counts) = Len(Order)
  /\ Forgotten
  /\ UNCHANGED vars

(* The ingestion goes on.  A request is gone with the process.             *)
Ingestion ==
  /\ Next
  /\ IF crashes' = crashes THEN UNCHANGED statsVars ELSE Forgotten

StatsNext == Count \/ Answer \/ Ingestion

StatsSpec == StatsInit /\ [][StatsNext]_<<vars, statsVars>>
-----------------------------------------------------------------------------
(* "processed" of the answer, once both numbers are there.                 *)
Subtracted(c) == {"total", "unprocessed"} \subseteq DOMAIN c
Processed(c) == c["total"] - c["unprocessed"]

(* The documents that are, or were when they were deleted, processed.      *)
EverProcessed(docs) == Len(docs) - Cardinality(Unprocessed(docs))

(* The answer never calls a document processed that is not, although       *)
(* documents come, are processed, marked again and deleted between the two *)
(* counts it subtracts, and the first of the two may have failed.  If the  *)
(* second one failed, whose error is dropped like that of the first, the   *)
(* whole backlog is called processed: the case that is excepted here.  (It *)
(* may be negative: documents that came between them are subtracted.)      *)
ProcessedIsBacked ==
  [][(Subtracted(counts') /\ "unprocessed" \notin failed')
       => Processed(counts') <= EverProcessed(raw)]_counts
=============================================================================
