-------------------------------- MODULE MCFs --------------------------------
(***************************************************************************)
(* A small instance of Fs: the directory /a and the files /b and /a/b.     *)
(* Processes, blocks and the inodes other than the root are                *)
(* interchangeable.                                                        *)
(***************************************************************************)
EXTENDS Fs, TLC

CONSTANTS a, b

MCName == {a, b}

On(op, paths) == {[op |-> op, path |-> path, new |-> <<>>] : path \in paths}
Link(path, new) == [op |-> "link", path |-> path, new |-> new]

MCCall ==
    On("open", {<<a>>, <<b>>}) \cup On("trunc", {<<a, b>>})
    \cup On("create", {<<b>>, <<a, b>>}) \cup On("mkdir", {<<a>>})
    \cup On("unlink", {<<a>>, <<b>>, <<a, b>>})
    \cup {Link(<<b>>, <<a, b>>), Link(<<a, b>>, <<b>>), Link(<<a>>, <<b>>)}

Interchangeable ==
    Permutations(Proc) \cup Permutations(Block) \cup Permutations(Inum \ {root})
-----------------------------------------------------------------------------
\* Nothing that a name, an open file or a call under way can reach is freed,
\* every block in use belongs to exactly one inode, and nlink counts the links
\* but for names that are lost with a removed directory.
AllocationExact == [](ReachableIsAllocated /\ BlocksAccounted) /\ LinksCounted

\* create(), unlink() and link() never wait in a circle for locks of inodes,
\* and iput() never waits for one while it holds itable.lock.
NobodyStuck == NoDeadlock /\ IputWontBlock
=============================================================================
