----------------------------- MODULE MCMappings -----------------------------
(***************************************************************************)
(* Small instances of Mappings for TLC.                                    *)
(***************************************************************************)
EXTENDS Mappings, TLC
=============================================================================
