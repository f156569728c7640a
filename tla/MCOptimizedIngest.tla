-------------------------- MODULE MCOptimizedIngest --------------------------
(***************************************************************************)
(* Small instances of OptimizedIngest for TLC.                             *)
(***************************************************************************)
EXTENDS OptimizedIngest, TLC

=============================================================================
