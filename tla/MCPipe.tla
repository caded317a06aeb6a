------------------------------- MODULE MCPipe -------------------------------
(***************************************************************************)
(* Small instances of Pipe: the ends spread over the processes in every    *)
(* way.                                                                    *)
(***************************************************************************)
EXTENDS Pipe, TLC

AnyFds == {f \in [Proc -> SUBSET {"r", "w"}] :
             UNION {f[p] : p \in Proc} = {"r", "w"}}

Interchangeable == Permutations(Proc) \cup Permutations(Val)
=============================================================================
