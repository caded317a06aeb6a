-------------------------------- MODULE Mkfs --------------------------------
(***************************************************************************)
(* The layout of the disk (kernel/fs.h) and the image that mkfs (mkfs.c)   *)
(* writes.  d is an image:                                                 *)
(*   data     the words of each block, 0..BSIZE-1; an indirect block holds *)
(*            block numbers                                                *)
(*   ino      the inodes: type, size in words, addrs[0..NDIRECT]           *)
(*   used     the blocks whose bit is set in the bitmap                    *)
(*   freeblock, freeinode   mkfs's globals                                 *)
(*   ok       no assert() of mkfs and no panic() of the kernel was reached *)
(* A directory entry is one word, the number of its inode: names are in    *)
(* module Fs.                                                              *)
(***************************************************************************)
EXTENDS Integers, Sequences, FiniteSets, SequencesExt

CONSTANTS
    FSSIZE,         \* blocks of the disk
    BSIZE,          \* words of a block
    BPB,            \* bits of a bitmap block
    IPB,            \* inodes of an inode block
    NINODES,        \* inodes
    nlog,           \* blocks of the log
    NDIRECT         \* direct blocks of an inode

NINDIRECT == BSIZE
MAXFILE == NDIRECT + NINDIRECT
ROOTINO == 1

nbitmap == FSSIZE \div BPB + 1
ninodeblocks == NINODES \div IPB + 1
nmeta == 2 + nlog + ninodeblocks + nbitmap

LayoutAssumption ==
    /\ {FSSIZE, BSIZE, BPB, IPB, NINODES, NDIRECT} \subseteq Nat \ {0}
    /\ nlog \in Nat /\ nmeta < FSSIZE

Block == 0..(FSSIZE - 1)
Inum == 1..(NINODES - 1)

zeroes == [k \in 0..(BSIZE - 1) |-> 0]
NoAddrs == [k \in 0..NDIRECT |-> 0]

Lesser(a, b) == IF a < b THEN a ELSE b
-----------------------------------------------------------------------------
\* The block of word off of inode i, taken from freeblock on if it has none:
\* the first half of the loop of iappend().
fresh(d) == [d EXCEPT !.freeblock = @ + 1]

direct(d, i, fbn) ==
    IF d.ino[i].addrs[fbn] # 0 THEN d
    ELSE fresh([d EXCEPT !.ino[i].addrs[fbn] = d.freeblock])

indirect(d, i, n) ==
    LET e == direct(d, i, NDIRECT)
        x == e.ino[i].addrs[NDIRECT]
    IN  IF e.data[x][n] # 0 THEN e
        ELSE fresh([e EXCEPT !.data[x][n] = e.freeblock])

BlockOf(d, i, fbn) ==
    IF fbn < NDIRECT THEN d.ino[i].addrs[fbn]
    ELSE d.data[d.ino[i].addrs[NDIRECT]][fbn - NDIRECT]

\* The words s from word off of block b on.
PutWords(d, b, off, s) ==
    [d EXCEPT !.data[b] = [k \in 0..(BSIZE - 1) |->
        IF k - off + 1 \in DOMAIN s THEN s[k - off + 1] ELSE @[k]]]

RECURSIVE iappend(_, _, _)
iappend(d, i, s) ==
    LET off == d.ino[i].size
        fbn == off \div BSIZE
        e == IF fbn < NDIRECT THEN direct(d, i, fbn) ELSE indirect(d, i, fbn - NDIRECT)
        n1 == Lesser(Len(s), (fbn + 1) * BSIZE - off)
        f == PutWords(e, BlockOf(e, i, fbn), off - fbn * BSIZE, SubSeq(s, 1, n1))
    IN  CASE s = <<>> -> d
          [] s # <<>> /\ fbn >= MAXFILE -> [d EXCEPT !.ok = FALSE]
          [] OTHER -> iappend([f EXCEPT !.ino[i].size = off + n1], i,
                              SubSeq(s, n1 + 1, Len(s)))

mkfs_ialloc(d, type) ==
    [d EXCEPT !.ino[d.freeinode] = [type |-> type, size |-> 0, addrs |-> NoAddrs],
              !.freeinode = @ + 1]

\* The bit map, of which mkfs writes one block.
mkfs_balloc(d) == [d EXCEPT !.used = 0..(d.freeblock - 1), !.ok = @ /\ d.freeblock < BPB]

add_file(d, s) ==
    LET e == mkfs_ialloc(d, "FILE")
    IN  iappend(iappend(e, ROOTINO, <<d.freeinode>>), d.freeinode, s)

\* The size of the root directory is rounded up to whole blocks.
fix_root(d) ==
    [d EXCEPT !.ino[ROOTINO].size = (@ \div BSIZE + 1) * BSIZE]

empty_disk ==
    [data |-> [b \in Block |-> zeroes],
     ino |-> [i \in Inum |-> [type |-> "free", size |-> 0, addrs |-> NoAddrs]],
     used |-> {}, freeblock |-> nmeta, freeinode |-> 1, ok |-> TRUE]

mkfs(files) ==
    LET rootdir == mkfs_ialloc(empty_disk, "DIR")
        dots == iappend(iappend(rootdir, ROOTINO, <<ROOTINO>>), ROOTINO, <<ROOTINO>>)
    IN  mkfs_balloc(fix_root(FoldLeft(add_file, dots, files)))
=============================================================================
