------------------------------ MODULE EagerFork ------------------------------
(***************************************************************************)
(* What user programs see of memory: every process has its own image, fork *)
(* gives the child a copy of the parent's whole image (the comment above   *)
(* uvmcopy() in kernel/vm.c), and a write changes one page of one image.   *)
(***************************************************************************)
EXTENDS Naturals

CONSTANTS
    Proc,           \* slots of the process table
    NPage,          \* virtual pages of an address space
    Val,            \* contents of a page
    Zero,           \* contents of a page sbrk() has just added
    Dead            \* image of a slot that runs no program

VARIABLE image      \* per process, Dead or the contents of pages 0 .. sz-1

Images == UNION {[0..(n - 1) -> Val] : n \in 0..NPage}

Init == \E p \in Proc, m \in Images :
            image = [q \in Proc |-> IF q = p THEN m ELSE Dead]

Write(p, va, v) ==
    /\ image[p] # Dead
    /\ va \in DOMAIN image[p]
    /\ image' = [image EXCEPT ![p][va] = v]

Fork(p, c) ==
    /\ image[p] # Dead
    /\ image[c] = Dead
    /\ image' = [image EXCEPT ![c] = image[p]]

\* sbrk(): keep the pages below the new size, zero the ones above the old.
Resize(p, n) ==
    /\ image[p] # Dead
    /\ image' = [image EXCEPT ![p] =
                   [va \in 0..(n - 1) |->
                      IF va \in DOMAIN image[p] THEN image[p][va] ELSE Zero]]

Exit(p) ==
    /\ image[p] # Dead
    /\ image' = [image EXCEPT ![p] = Dead]

Next ==
    \/ \E p \in Proc, va \in 0..(NPage - 1), v \in Val : Write(p, va, v)
    \/ \E p, c \in Proc : Fork(p, c)
    \/ \E p \in Proc, n \in 0..NPage : Resize(p, n)
    \/ \E p \in Proc : Exit(p)

Spec == Init /\ [][Next]_image
=============================================================================
