------------------------------- MODULE Inode -------------------------------
(***************************************************************************)
(* The contents of files: bmap(), readi(), writei() and itrunc() of        *)
(* kernel/fs.c over the block allocator, under filewrite() of              *)
(* kernel/file.c, on an image made by mkfs.                                *)
(*                                                                         *)
(* A transaction of filewrite() holds ip->lock from beginning to end and   *)
(* is one step; writers of the same file interleave between them.  A       *)
(* write may end early: out of blocks, or because either_copyin() fails in *)
(* the middle of a block.  It has then changed the cached copy of that     *)
(* block without log_write(): the image has both, and which one survives   *)
(* depends on whether the block was already in the transaction that        *)
(* commits next, or else on its buffer being recycled.                     *)
(*                                                                         *)
(* To an image of mkfs the kernel adds                                     *)
(*   cached   the contents of each block as bread() returns them           *)
(*   logged   the blocks of the present transaction                        *)
(***************************************************************************)
EXTENDS Mkfs, FiniteSetsExt, TLC

CONSTANTS
    UINT,           \* numbers of type uint: 2^32
    MAXOPBLOCKS,    \* blocks a transaction may write
    Files,          \* contents of the files given to mkfs
    Writer,         \* processes that write
    Writes          \* their calls: [ino, off, words, good], good words can be read

InodeAssumption ==
    /\ mkfs(Files).ok /\ mkfs(Files).freeblock <= FSSIZE
    /\ (2 + Len(Files)) % BSIZE # 0
    /\ MAXOPBLOCKS >= 6
    /\ MAXFILE * BSIZE < UINT

VARIABLES
    d,              \* the image
    job,            \* what is left of each writer's call
    written         \* history: the words that each word of a file may have

vars == <<d, job, written>>

idle == [ino |-> 0, off |-> 0, words |-> <<>>, good |-> 0]

File == {i \in Inum : d.ino[i].type # "free"}

Singles(s) == [k \in DOMAIN s |-> {s[k]}]

Init ==
    LET image == mkfs(Files)
        pad(s) == s \o [k \in 1..(image.ino[ROOTINO].size - Len(s)) |-> 0]
    IN  /\ d = [cached |-> image.data, logged |-> {}] @@ image
        /\ job = [w \in Writer |-> idle]
        /\ written = [i \in Inum |->
             CASE i = ROOTINO -> Singles(pad(<<1, 1>> \o [k \in 1..Len(Files) |-> k + 1]))
               [] i - 1 \in DOMAIN Files -> Singles(Files[i - 1])
               [] OTHER -> <<>>]
-----------------------------------------------------------------------------
inodestart == 2 + nlog
bmapstart == 2 + nlog + ninodeblocks
IBLOCK(i) == i \div IPB + inodestart
BBLOCK(b) == b \div BPB + bmapstart

Log(e, b) == [e EXCEPT !.logged = @ \cup {b}]
log_write(e, b) == Log([e EXCEPT !.data[b] = e.cached[b]], b)

bzero(e, b) == log_write([e EXCEPT !.cached[b] = zeroes], b)

balloc(e) ==
    LET taken(b) == bzero(Log([e EXCEPT !.used = @ \cup {b}], BBLOCK(b)), b)
        first(b) == [d |-> taken(b), addr |-> b]
    IN  IF Block \subseteq e.used THEN [d |-> e, addr |-> 0]
        ELSE first(Min(Block \ e.used))

bfree(e, b) ==
    IF b \in e.used THEN Log([e EXCEPT !.used = @ \ {b}], BBLOCK(b))
    ELSE [e EXCEPT !.ok = FALSE]

iupdate(e, i) == Log(e, IBLOCK(i))

\* ip->addrs[k], allocated if it is 0.
addr(e, i, k) ==
    LET a == e.ino[i].addrs[k]
        stored(r) == [r EXCEPT !.d.ino[i].addrs[k] = r.addr]
    IN  IF a # 0 THEN [d |-> e, addr |-> a] ELSE stored(balloc(e))

\* Entry k of the indirect block x.addr, allocated if it is 0.
indirect_addr(x, k) ==
    LET a == x.d.cached[x.addr][k]
        put(r) == [r.d EXCEPT !.cached[x.addr][k] = r.addr]
        stored(r) == IF r.addr = 0 THEN r ELSE [r EXCEPT !.d = log_write(put(r), x.addr)]
    IN  CASE x.addr = 0 -> x
          [] x.addr # 0 /\ a # 0 -> [x EXCEPT !.addr = a]
          [] OTHER -> stored(balloc(x.d))

bmap(e, i, bn) ==
    CASE bn < NDIRECT -> addr(e, i, bn)
      [] bn >= MAXFILE -> [d |-> [e EXCEPT !.ok = FALSE], addr |-> 0]
      [] OTHER -> indirect_addr(addr(e, i, NDIRECT), bn - NDIRECT)

itrunc_direct(e, i) ==
    LET all == {e.ino[i].addrs[k] : k \in 0..NDIRECT} \ {0}
    IN  iupdate([FoldSet(LAMBDA b, f : bfree(f, b), e, all) EXCEPT
                   !.ino[i].addrs = NoAddrs, !.ino[i].size = 0], i)

itrunc(e, i) ==
    LET x == e.ino[i].addrs[NDIRECT]
        listed == IF x = 0 THEN {} ELSE {e.cached[x][k] : k \in 0..(NINDIRECT - 1)}
        all == (listed \cup {e.ino[i].addrs[k] : k \in 0..NDIRECT}) \ {0}
    IN  iupdate([FoldSet(LAMBDA b, f : bfree(f, b), e, all) EXCEPT
                   !.ino[i].addrs = NoAddrs, !.ino[i].size = 0], i)
-----------------------------------------------------------------------------
\* off + n < off: the sum has wrapped around.
wraps(off, n) == (off + n) % UINT < off

\* The loop of readi(): n words from off on, as long as there are blocks.
\* either_copyout() succeeds: if not, readi() returns -1 and has changed nothing.
RECURSIVE read_loop(_, _, _, _)
read_loop(e, i, off, n) ==
    LET m == Lesser(n, BSIZE - (off % BSIZE))
        here(r) == [k \in 1..m |-> r.d.cached[r.addr][(off % BSIZE) + k - 1]]
        from(r) == IF r.addr = 0 THEN [d |-> r.d, words |-> <<>>]
                   ELSE [read_loop(r.d, i, off + m, n - m) EXCEPT !.words = here(r) \o @]
    IN  IF n = 0 THEN [d |-> e, words |-> <<>>] ELSE from(bmap(e, i, off \div BSIZE))

readi(e, i, off, n) ==
    IF off > e.ino[i].size \/ wraps(off, n) THEN [d |-> e, words |-> <<>>]
    ELSE read_loop(e, i, off, Lesser(n, e.ino[i].size - off))

\* The cached block b with s from word off on.
Copied(e, b, off, s) ==
    [e EXCEPT !.cached[b] = [k \in 0..(BSIZE - 1) |->
        IF k - off + 1 \in DOMAIN s THEN s[k - off + 1] ELSE @[k]]]

\* The loop of writei(); good words of s can be copied in.
RECURSIVE write_loop(_, _, _, _, _)
write_loop(e, i, off, s, good) ==
    LET m == Lesser(Len(s), BSIZE - (off % BSIZE))
        copied(r, n) == Copied(r.d, r.addr, off % BSIZE, SubSeq(s, 1, n))
        into(r) ==
            CASE r.addr = 0 -> [d |-> r.d, off |-> off]
              [] r.addr # 0 /\ good < m -> [d |-> copied(r, good), off |-> off]
              [] OTHER -> write_loop(log_write(copied(r, m), r.addr), i, off + m,
                                     SubSeq(s, m + 1, Len(s)), good - m)
    IN  IF s = <<>> THEN [d |-> e, off |-> off] ELSE into(bmap(e, i, off \div BSIZE))

\* The image, and the words written or -1.
writei(e, i, off, s, good) ==
    LET sized(r) == [r.d EXCEPT !.ino[i].size = IF r.off > @ THEN r.off ELSE @]
        done(r) == [d |-> iupdate(sized(r), i), tot |-> r.off - off]
    IN  IF off > e.ino[i].size \/ wraps(off, Len(s)) \/ off + Len(s) > MAXFILE * BSIZE
          THEN [d |-> e, tot |-> -1]
          ELSE done(write_loop(e, i, off, s, good))
-----------------------------------------------------------------------------
\* end_op(): the transaction must be within what begin_op() reserved.
end_op(e) == [e EXCEPT !.logged = {}, !.ok = @ /\ Cardinality(e.logged) <= MAXOPBLOCKS]

sys_write(w, c) ==
    /\ job[w] = idle
    /\ job' = [job EXCEPT ![w] = c]
    /\ UNCHANGED <<d, written>>

\* Words that were written replace what was there; those of a chunk that was
\* only copied may come to replace it.
Record(i, off, s, tot, copied) ==
    LET old == written[i]
        end == IF off + tot > Len(old) THEN off + tot ELSE Len(old)
    IN  [k \in 1..end |->
           CASE k - off \in 1..tot -> {s[k - off]}
             [] k - off \in (tot + 1)..copied -> old[k] \cup {s[k - off]}
             [] OTHER -> old[k]]

\* One round of the loop of filewrite().
max == ((MAXOPBLOCKS - 1 - 1 - 2) \div 2) * BSIZE

filewrite(w) ==
    LET j == job[w]
        n1 == Lesser(Len(j.words), max)
        s == SubSeq(j.words, 1, n1)
        r == writei(d, j.ino, j.off, s, j.good)
        left == [j EXCEPT !.off = @ + n1, !.words = SubSeq(@, n1 + 1, Len(@)),
                          !.good = @ - n1]
    IN  /\ j # idle
        /\ d' = end_op(r.d)
        /\ job' = [job EXCEPT ![w] =
                     IF r.tot = n1 /\ left.words # <<>> THEN left ELSE idle]
        /\ written' = IF r.tot = -1 THEN written
                      ELSE [written EXCEPT ![j.ino] =
                              Record(j.ino, j.off, s, r.tot, Lesser(n1, j.good))]

\* open() with O_TRUNC.
sys_open_trunc(i) ==
    /\ d.ino[i].type = "FILE"
    /\ d' = end_op(itrunc(d, i))
    /\ written' = [written EXCEPT ![i] = <<>>]
    /\ UNCHANGED job

\* fileread() at any offset; not in a transaction.
fileread(i, off, n) ==
    /\ d' = readi(d, i, off, n).d
    /\ UNCHANGED <<job, written>>

\* An unlogged change of a block is lost with its buffer, or commits with
\* the transaction the block is in.
recycle(b) ==
    /\ d.cached[b] # d.data[b]
    /\ d' \in {[d EXCEPT !.cached[b] = d.data[b]], [d EXCEPT !.data[b] = d.cached[b]]}
    /\ UNCHANGED <<job, written>>

Next ==
    \/ \E w \in Writer : filewrite(w) \/ \E c \in Writes : sys_write(w, c)
    \/ \E i \in File : sys_open_trunc(i)
    \/ \E i \in File : \E off \in 0..d.ino[i].size : \E n \in {MAXFILE * BSIZE, UINT - 1} :
         fileread(i, off, n)
    \/ \E b \in Block : recycle(b)

Spec == Init /\ [][Next]_vars
-----------------------------------------------------------------------------
(***************************************************************************)
(* Properties.                                                             *)
(***************************************************************************)
\* Where an inode's block numbers are: addrs[] and its indirect block.
Listed(i) ==
    {<<i, k, d.ino[i].addrs[k]>> : k \in 0..NDIRECT}
    \cup IF d.ino[i].addrs[NDIRECT] = 0 THEN {}
         ELSE {<<i, NDIRECT + 1 + k, d.data[d.ino[i].addrs[NDIRECT]][k]>> :
                 k \in 0..(NINDIRECT - 1)}

\* The bitmap marks the blocks that mkfs reserves and those that inodes list,
\* each of which is listed once, whatever writes failed on the way.
BitmapExact ==
    LET list == {x \in UNION {Listed(i) : i \in Inum} : x[3] # 0}
    IN  /\ d.used = 0..(nmeta - 1) \cup {x[3] : x \in list}
        /\ Cardinality(d.used) = nmeta + Cardinality(list)

\* readi() at any offset returns the words that were last written there, up
\* to the size of the file: never words of another file or of a block's
\* earlier use, and a write that failed has changed nothing before or after
\* the chunk it failed in.  An unlogged change never makes the image differ
\* from this either, should the machine stop now.
ReadsWhatWasWritten ==
    \A i \in File :
        LET n == d.ino[i].size
            stored == [d EXCEPT !.cached = d.data]
        IN  /\ n = Len(written[i])
            /\ \A off \in 0..n : \A e \in {d, stored} :
                 LET r == readi(e, i, off, BSIZE + 1).words
                 IN  /\ Len(r) = Lesser(BSIZE + 1, n - off)
                     /\ \A k \in DOMAIN r : r[k] \in written[i][off + k]

\* A transaction of filewrite() or of open() writes no more blocks than
\* begin_op() reserves for it, however its blocks, the indirect block and
\* their bits in the bitmap fall; and bfree() and bmap() do not panic.
WithinReservation == d.ok

\* fileread() is outside of a transaction, so reading must never allocate:
\* every block below a file's size is there.
ReadsDontAllocate ==
    \A i \in File : \A off \in 0..d.ino[i].size :
        readi(d, i, off, MAXFILE * BSIZE).d = d
=============================================================================
