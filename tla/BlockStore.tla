----------------------------- MODULE BlockStore -----------------------------
(***************************************************************************)
(* What the buffer cache promises: each block is one cell, which a process *)
(* locks with bread(), then changes as it likes, and unlocks with          *)
(* brelse().  There is no cache, no replacement and no disk.               *)
(***************************************************************************)
CONSTANTS Proc, Block, Val, Free

VARIABLES
    cell,       \* contents of each block
    holder      \* who has it locked, or Free

vars == <<cell, holder>>

Init == cell \in [Block -> Val] /\ holder = [b \in Block |-> Free]

Lock(p, b) ==
    /\ holder[b] = Free
    /\ holder' = [holder EXCEPT ![b] = p]
    /\ UNCHANGED cell

Store(p, b, v) ==
    /\ holder[b] = p
    /\ cell' = [cell EXCEPT ![b] = v]
    /\ UNCHANGED holder

Unlock(p, b) ==
    /\ holder[b] = p
    /\ holder' = [holder EXCEPT ![b] = Free]
    /\ UNCHANGED cell

Next ==
    \E p \in Proc, b \in Block :
        \/ Lock(p, b) \/ Unlock(p, b)
        \/ \E v \in Val : Store(p, b, v)

Spec == Init /\ [][Next]_vars
=============================================================================
