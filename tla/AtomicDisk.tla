----------------------------- MODULE AtomicDisk -----------------------------
(***************************************************************************)
(* What the logging layer promises the file system (the comment at the top *)
(* of kernel/log.c): the blocks written between begin_op() and end_op()    *)
(* reach the disk all together or not at all.  Writes go to a volatile     *)
(* image; a commit makes the whole image durable at once, and only while   *)
(* no operation is under way; a crash falls back to the durable image.     *)
(***************************************************************************)
CONSTANTS
    Proc,           \* processes that issue file-system calls
    Block,          \* home blocks of the file system
    Val             \* contents of a block

VARIABLES
    durable,        \* the image a crash leaves behind
    volatile,       \* the image the running operations see
    inop            \* processes between begin_op() and end_op()

vars == <<durable, volatile, inop>>

Init ==
    /\ durable \in [Block -> Val]
    /\ volatile = durable
    /\ inop = {}

Begin(p) ==
    /\ p \notin inop
    /\ inop' = inop \cup {p}
    /\ UNCHANGED <<durable, volatile>>

Write(p, b, v) ==
    /\ p \in inop
    /\ volatile' = [volatile EXCEPT ![b] = v]
    /\ UNCHANGED <<durable, inop>>

End(p) ==
    /\ p \in inop
    /\ inop' = inop \ {p}
    /\ UNCHANGED <<durable, volatile>>

Commit ==
    /\ inop = {}
    /\ durable' = volatile
    /\ UNCHANGED <<volatile, inop>>

Crash ==
    /\ volatile' = durable
    /\ inop' = {}
    /\ UNCHANGED durable

Next ==
    \/ \E p \in Proc : Begin(p) \/ End(p)
    \/ \E p \in Proc, b \in Block, v \in Val : Write(p, b, v)
    \/ Commit
    \/ Crash

Spec == Init /\ [][Next]_vars
=============================================================================
