----------------------------- MODULE MCRawStats -----------------------------
(***************************************************************************)
(* Small instances of RawStats, and with it of Ingest, for TLC.            *)
(***************************************************************************)
EXTENDS RawStats, TLC

Symmetry == Permutations(Handler)

(* Bound: a request of the statistics is followed as long as no call of    *)
(* the ingestion has failed and the process has not died.  (Its own counts *)
(* may fail.)  The ingestion itself goes on without this bound, from the   *)
(* states without such a request.                                          *)
StatsBound == counts # Nothing => faults + crashes = 0
=============================================================================
