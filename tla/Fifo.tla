-------------------------------- MODULE Fifo --------------------------------
(***************************************************************************)
(* What a pipe and the output of the console promise: a bounded first-in   *)
(* first-out queue of bytes.  A byte that comes out is the oldest one      *)
(* still in; no byte is invented, repeated or reordered.                   *)
(***************************************************************************)
EXTENDS Naturals, Sequences

CONSTANTS
    Val,            \* bytes
    Size            \* bytes there is room for

VARIABLES
    q,              \* bytes put in and not taken out yet
    got             \* the last byte taken out

vars == <<q, got>>

Init == q = <<>> /\ got \in Val

Put(v) ==
    /\ Len(q) < Size
    /\ q' = Append(q, v)
    /\ UNCHANGED got

Get ==
    /\ q # <<>>
    /\ q' = Tail(q)
    /\ got' = Head(q)

Next == Get \/ \E v \in Val : Put(v)

Spec == Init /\ [][Next]_vars
=============================================================================
