------------------------------ MODULE MCBcache ------------------------------
(***************************************************************************)
(* Small instances of Bcache.  Processes, blocks and contents are          *)
(* interchangeable.                                                        *)
(***************************************************************************)
EXTENDS Bcache, TLC

Interchangeable ==
    Permutations(Proc) \cup Permutations(Block) \cup Permutations(Val)
=============================================================================
