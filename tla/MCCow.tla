------------------------------- MODULE MCCow -------------------------------
(***************************************************************************)
(* Small instances of Cow.  Process slots and pages are interchangeable.   *)
(***************************************************************************)
EXTENDS Cow, TLC

Interchangeable == Permutations(Proc) \cup Permutations(Page)
=============================================================================
