------------------------------- MODULE Bcache -------------------------------
(***************************************************************************)
(* The buffer cache (kernel/bio.c) and the sleep locks of its buffers      *)
(* (kernel/sleeplock.c), used the way the log uses them: a changed buffer  *)
(* is pinned until it has been written back.                               *)
(*                                                                         *)
(* A step is a critical section of bcache.lock or of a sleep lock's        *)
(* spinlock, or an access to a buffer whose sleep lock is held.            *)
(***************************************************************************)
EXTENDS Integers, FiniteSets

CONSTANTS
    Proc,           \* processes, each using one block at a time
    Block,          \* disk blocks
    Val,            \* contents of a block
    NBUF,           \* buffers
    MaxPinned,      \* changed blocks the log keeps pinned at a time
    NoBlock,        \* b->blockno of a buffer not used yet
    Nobody          \* lk->pid = 0

ASSUME BcacheAssumption ==
    /\ IsFiniteSet(Proc)
    /\ NBUF \in Nat \ {0} /\ MaxPinned \in Nat
    /\ NoBlock \notin Block /\ Nobody \notin Proc

Buf == 1..NBUF
nil == 0            \* the null pointer

VARIABLES
    blockno,        \* b->blockno
    valid,          \* b->valid
    refcnt,         \* b->refcnt
    data,           \* b->data
    holder,         \* b->lock.pid, Nobody when b->lock.locked = 0
    lru,            \* the list of buffers, from head.next to head.prev
    disk,           \* blocks on the disk
    pinned,         \* buffers in the log's transaction
    buf,            \* the buffer each process has from bget()
    want,           \* the block it asked for
    pc,             \* where each process is
    panicked        \* bget() found no buffer

vars == <<blockno, valid, refcnt, data, holder, lru, disk, pinned, buf, want,
          pc, panicked>>

TypeOK ==
    /\ blockno \in [Buf -> Block \cup {NoBlock}]
    /\ valid \in [Buf -> BOOLEAN]
    /\ refcnt \in [Buf -> Nat]
    /\ data \in [Buf -> Val]
    /\ holder \in [Buf -> Proc \cup {Nobody}]
    /\ lru \in [Buf -> Buf] /\ \A k \in Buf : \E i \in Buf : lru[i] = k
    /\ disk \in [Block -> Val]
    /\ pinned \subseteq Buf
    /\ buf \in [Proc -> Buf \cup {nil}]
    /\ want \in [Proc -> Block \cup {NoBlock}]
    /\ pc \in [Proc -> {"idle", "lock", "sleep", "locked", "use", "pin",
                        "unpin", "drop"}]
    /\ panicked \in BOOLEAN

\* binit().
Init ==
    /\ blockno = [k \in Buf |-> NoBlock]
    /\ valid = [k \in Buf |-> FALSE]
    /\ refcnt = [k \in Buf |-> 0]
    /\ \E v \in Val : data = [k \in Buf |-> v]
    /\ holder = [k \in Buf |-> Nobody]
    /\ lru = [k \in Buf |-> NBUF + 1 - k]
    /\ disk \in [Block -> Val]
    /\ pinned = {}
    /\ buf = [p \in Proc |-> nil]
    /\ want = [p \in Proc |-> NoBlock]
    /\ pc = [p \in Proc |-> "idle"]
    /\ panicked = FALSE
-----------------------------------------------------------------------------
(***************************************************************************)
(* bread(): bget(), acquiresleep() and the read from the disk.             *)
(***************************************************************************)
\* The first loop of bget(): the block is cached.
bget_hit(p, b) ==
    \E k \in Buf :
        /\ blockno[k] = b
        /\ refcnt' = [refcnt EXCEPT ![k] = @ + 1]
        /\ buf' = [buf EXCEPT ![p] = k]
        /\ UNCHANGED <<blockno, valid, panicked>>

\* The second loop: recycle the least recently used buffer nobody references.
unused == {i \in Buf : refcnt[lru[i]] = 0}

recycle_stale(p, b, k) ==
    /\ blockno' = [blockno EXCEPT ![k] = b]
    /\ refcnt' = [refcnt EXCEPT ![k] = 1]
    /\ buf' = [buf EXCEPT ![p] = k]
    /\ UNCHANGED <<valid, panicked>>

recycle(p, b, k) ==
    /\ blockno' = [blockno EXCEPT ![k] = b]
    /\ valid' = [valid EXCEPT ![k] = FALSE]
    /\ refcnt' = [refcnt EXCEPT ![k] = 1]
    /\ buf' = [buf EXCEPT ![p] = k]
    /\ UNCHANGED panicked

bget_miss(p, b) ==
    /\ \A k \in Buf : blockno[k] # b
    /\ IF unused = {}
         THEN /\ panicked' = TRUE
              /\ UNCHANGED <<blockno, valid, refcnt, buf>>
         ELSE recycle(p, b, lru[CHOOSE i \in unused : \A j \in unused : j <= i])

bget(p, b) ==
    /\ pc[p] = "idle" /\ ~panicked
    /\ bget_hit(p, b) \/ bget_miss(p, b)
    /\ want' = [want EXCEPT ![p] = b]
    /\ pc' = [pc EXCEPT ![p] = "lock"]
    /\ UNCHANGED <<data, holder, lru, disk, pinned>>

acquiresleep(p) ==
    /\ pc[p] = "lock" /\ ~panicked
    /\ IF holder[buf[p]] # Nobody
         THEN /\ pc' = [pc EXCEPT ![p] = "sleep"]
              /\ UNCHANGED holder
         ELSE /\ holder' = [holder EXCEPT ![buf[p]] = p]
              /\ pc' = [pc EXCEPT ![p] = "locked"]
    /\ UNCHANGED <<blockno, valid, refcnt, data, lru, disk, pinned, buf, want,
                   panicked>>

bread(p) ==
    LET k == buf[p]
    IN  /\ pc[p] = "locked" /\ ~panicked
        /\ IF valid[k]
             THEN UNCHANGED <<valid, data>>
             ELSE /\ data' = [data EXCEPT ![k] = disk[blockno[k]]]
                  /\ valid' = [valid EXCEPT ![k] = TRUE]
        /\ pc' = [pc EXCEPT ![p] = "use"]
        /\ UNCHANGED <<blockno, refcnt, holder, lru, disk, pinned, buf, want,
                       panicked>>
-----------------------------------------------------------------------------
(***************************************************************************)
(* What the holder of the buffer does.                                     *)
(***************************************************************************)
\* The holder changes the data, to hand the buffer to log_write().
modify(p, v) ==
    /\ pc[p] = "use" /\ ~panicked
    /\ buf[p] \in pinned \/ Cardinality(pinned) < MaxPinned
    /\ data' = [data EXCEPT ![buf[p]] = v]
    /\ pinned' = pinned \cup {buf[p]}
    /\ pc' = [pc EXCEPT ![p] = IF buf[p] \in pinned THEN "use" ELSE "pin"]
    /\ UNCHANGED <<blockno, valid, refcnt, holder, lru, disk, buf, want,
                   panicked>>

bpin(p) ==
    /\ pc[p] = "pin" /\ ~panicked
    /\ refcnt' = [refcnt EXCEPT ![buf[p]] = @ + 1]
    /\ pc' = [pc EXCEPT ![p] = "use"]
    /\ UNCHANGED <<blockno, valid, data, holder, lru, disk, pinned, buf, want,
                   panicked>>

\* install_trans() writes a changed buffer home and unpins it.
bwrite(p) ==
    /\ pc[p] = "use" /\ ~panicked
    /\ buf[p] \in pinned
    /\ disk' = [disk EXCEPT ![blockno[buf[p]]] = data[buf[p]]]
    /\ pc' = [pc EXCEPT ![p] = "unpin"]
    /\ UNCHANGED <<blockno, valid, refcnt, data, holder, lru, pinned, buf, want,
                   panicked>>

bunpin_leaks(p) ==
    /\ pc[p] = "unpin" /\ ~panicked
    /\ pinned' = pinned \ {buf[p]}
    /\ pc' = [pc EXCEPT ![p] = "use"]
    /\ UNCHANGED <<blockno, valid, refcnt, data, holder, lru, disk, buf, want,
                   panicked>>

bunpin(p) ==
    /\ pc[p] = "unpin" /\ ~panicked
    /\ refcnt' = [refcnt EXCEPT ![buf[p]] = @ - 1]
    /\ pinned' = pinned \ {buf[p]}
    /\ pc' = [pc EXCEPT ![p] = "use"]
    /\ UNCHANGED <<blockno, valid, data, holder, lru, disk, buf, want, panicked>>
-----------------------------------------------------------------------------
(***************************************************************************)
(* brelse(), and kill().                                                   *)
(***************************************************************************)
\* wakeup() of those that sleep on the lock of buffer k.
wakeup(k) ==
    [p \in Proc |-> IF pc[p] = "sleep" /\ buf[p] = k THEN "lock" ELSE pc[p]]

releasesleep(p) ==
    /\ pc[p] = "use" /\ ~panicked
    /\ holder' = [holder EXCEPT ![buf[p]] = Nobody]
    /\ pc' = [wakeup(buf[p]) EXCEPT ![p] = "drop"]
    /\ UNCHANGED <<blockno, valid, refcnt, data, lru, disk, pinned, buf, want,
                   panicked>>

\* The list after buffer k has become the most recently used one: those before
\* it move down by one.
move_front(k) ==
    LET at == CHOOSE i \in Buf : lru[i] = k
    IN  [i \in Buf |-> IF i = 1 THEN k ELSE IF i <= at THEN lru[i - 1] ELSE lru[i]]

\* The second half of brelse(), under bcache.lock.
brelse(p) ==
    LET k == buf[p]
    IN  /\ pc[p] = "drop" /\ ~panicked
        /\ refcnt' = [refcnt EXCEPT ![k] = @ - 1]
        /\ lru' = IF refcnt[k] = 1 THEN move_front(k) ELSE lru
        /\ buf' = [buf EXCEPT ![p] = nil]
        /\ want' = [want EXCEPT ![p] = NoBlock]
        /\ pc' = [pc EXCEPT ![p] = "idle"]
        /\ UNCHANGED <<blockno, valid, data, holder, disk, pinned, panicked>>

\* kill() wakes a sleeper, which finds the lock still held.
kill(p) ==
    /\ pc[p] = "sleep" /\ ~panicked
    /\ pc' = [pc EXCEPT ![p] = "lock"]
    /\ UNCHANGED <<blockno, valid, refcnt, data, holder, lru, disk, pinned, buf,
                   want, panicked>>

Next ==
    \E p \in Proc :
        \/ \E b \in Block : bget(p, b)
        \/ acquiresleep(p) \/ bread(p)
        \/ \E v \in Val : modify(p, v)
        \/ bpin(p) \/ bwrite(p) \/ bunpin(p)
        \/ releasesleep(p) \/ brelse(p) \/ kill(p)

Spec == Init /\ [][Next]_vars
-----------------------------------------------------------------------------
(***************************************************************************)
(* Properties.                                                             *)
(***************************************************************************)
\* refcnt counts the processes between bget() and brelse(), and the pins.
RefcntExact ==
    \A k \in Buf :
        refcnt[k] = Cardinality({p \in Proc : buf[p] = k})
                    + (IF k \in pinned /\ \A p \in Proc : ~(pc[p] = "pin" /\ buf[p] = k)
                         THEN 1 ELSE 0)

\* No lost wakeup in the sleep lock: a process sleeps only while it is held.
SleeperHasHolder ==
    \A p \in Proc : pc[p] = "sleep" => holder[buf[p]] # Nobody

\* bget() finds a buffer as long as the processes and the log's transaction
\* together cannot reference them all.
NoPanic == Cardinality(Proc) + MaxPinned <= NBUF => ~panicked

\* b->refcnt is the number of its users, so that bget() finds a buffer to
\* recycle, and nobody sleeps on the lock of a buffer that has no holder.
BuffersSound == RefcntExact /\ SleeperHasHolder /\ NoPanic

\* What a process that reads a block would see.
contents ==
    [b \in Block |->
       IF \E k \in Buf : blockno[k] = b /\ valid[k]
         THEN data[CHOOSE k \in Buf : blockno[k] = b /\ valid[k]]
         ELSE disk[b]]

\* Who has each block between the return of bread() and brelse().
owner ==
    [b \in Block |->
       IF \E p \in Proc : want[p] = b /\ pc[p] \in {"use", "pin", "unpin"}
         THEN CHOOSE p \in Proc : want[p] = b /\ pc[p] \in {"use", "pin", "unpin"}
         ELSE Nobody]

Store == INSTANCE BlockStore WITH cell <- contents, holder <- owner,
                                  Free <- Nobody

\* The cache cannot be told from one locked cell per block: nobody reads stale
\* contents, whatever is recycled, and no two processes use a block at once.
CacheIsStore == Store!Spec
=============================================================================
