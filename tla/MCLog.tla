------------------------------- MODULE MCLog -------------------------------
(***************************************************************************)
(* Small instances of Log.  Processes and blocks are interchangeable.      *)
(***************************************************************************)
EXTENDS Log, TLC

Interchangeable == Permutations(Proc) \cup Permutations(Block)
=============================================================================
