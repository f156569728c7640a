--------------------------- MODULE MCBatchWriter ---------------------------
(***************************************************************************)
(* Small instances of BatchWriter for TLC.  The number of records bounds   *)
(* the number of calls of Add; everything else is finite by itself.        *)
(***************************************************************************)
EXTENDS BatchWriter, TLC
=============================================================================
