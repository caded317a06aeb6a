-------------------------------- MODULE Log --------------------------------
(***************************************************************************)
(* The write-ahead log of kernel/log.c, with the part of the buffer cache  *)
(* it relies on (bread, bpin, bunpin of kernel/bio.c), a disk that may     *)
(* lose power at any moment, and recovery at boot.                         *)
(*                                                                         *)
(* A step is a critical section of log.lock, or one block transfer of a    *)
(* commit or of recovery.  Modifying a buffer and calling log_write() on   *)
(* it is one step, because the caller holds the buffer's sleep lock.       *)
(***************************************************************************)
EXTENDS Integers, Sequences, FiniteSets

CONSTANTS
    Proc,           \* processes that issue file-system calls
    Block,          \* home blocks of the file system
    Val,            \* contents a file-system call can give a block
    Torn,           \* what a write interrupted by a crash leaves in a block
    NoBuf,          \* the block is not in the buffer cache
    MAXOPBLOCKS,    \* log blocks begin_op() reserves for one operation
    LOGSIZE,        \* entries of struct logheader
    NLOG,           \* log.size: blocks of the log on disk, header included
    OpBlocks        \* distinct blocks one operation really writes

ASSUME LogAssumption ==
    /\ IsFiniteSet(Proc)
    /\ IsFiniteSet(Block)
    /\ Torn \notin Val
    /\ NoBuf \notin Val \cup {Torn}
    /\ {MAXOPBLOCKS, LOGSIZE, NLOG, OpBlocks} \subseteq Nat \ {0}
    /\ OpBlocks <= MAXOPBLOCKS
    /\ MAXOPBLOCKS <= LOGSIZE
    /\ LOGSIZE <= NLOG

VARIABLES
    disk,           \* home blocks on the disk
    logBlock,       \* data blocks of the log on the disk
    head,           \* header block of the log on the disk
    cache,          \* buffers: contents, or NoBuf
    pin,            \* references bpin() holds on each buffer
    lh,             \* log.lh: block numbers of the current transaction
    outstanding,    \* log.outstanding
    committing,     \* log.committing
    pc,             \* where each process is in its file-system call
    wrote,          \* blocks the current call of each process has logged
    phase,          \* progress of commit() or of recover_from_log()
    tail,           \* loop counter of write_log() and install_trans()
    panicked        \* the kernel called panic()

vars == <<disk, logBlock, head, cache, pin, lh, outstanding, committing,
          pc, wrote, phase, tail, panicked>>

Content == Val \cup {Torn}
Phases == {"none", "write_log", "write_head", "install", "erase", "done",
           "read_head", "rec_install", "rec_erase"}

\* The on-disk log has a slot per header entry.
TypeOK ==
    /\ disk \in [Block -> Content]
    /\ logBlock \in [1..LOGSIZE -> Content]
    /\ head \in Seq(Block)
    /\ cache \in [Block -> Content \cup {NoBuf}]
    /\ pin \in [Block -> Nat]
    /\ lh \in Seq(Block)
    /\ outstanding \in Int
    /\ committing \in BOOLEAN
    /\ pc \in [Proc -> {"idle", "begin", "sleep", "op", "commit"}]
    /\ wrote \in [Proc -> SUBSET Block]
    /\ phase \in Phases
    /\ tail \in 0..LOGSIZE
    /\ panicked \in BOOLEAN

Blocks(s) == {s[i] : i \in DOMAIN s}

\* bread(): the cached buffer, or the block read from the disk.
bread(b) == IF cache[b] = NoBuf THEN disk[b] ELSE cache[b]

\* bpin(): one more reference keeps the buffer of b in the cache.
bpin_missing(b) == pin
bpin(b) == [pin EXCEPT ![b] = @ + 1]

\* wakeup(&log) on the program counters f.
wakeup_lost(f) == f
wakeup(f) == [p \in Proc |-> IF f[p] = "sleep" THEN "begin" ELSE f[p]]

Init ==
    /\ disk \in [Block -> Val]
    /\ logBlock = [i \in 1..LOGSIZE |-> Torn]
    /\ head = <<>>
    /\ cache = [b \in Block |-> NoBuf]
    /\ pin = [b \in Block |-> 0]
    /\ lh = <<>>
    /\ outstanding = 0
    /\ committing = FALSE
    /\ pc = [p \in Proc |-> "idle"]
    /\ wrote = [p \in Proc |-> {}]
    /\ phase = "read_head"
    /\ tail = 0
    /\ panicked = FALSE
-----------------------------------------------------------------------------
(***************************************************************************)
(* File-system calls.                                                      *)
(***************************************************************************)
\* log_write()'s limit, and begin_op()'s reservation against it.
Full == Len(lh) >= LOGSIZE \/ Len(lh) >= NLOG - 1

NoRoom_unreserved == Len(lh) + MAXOPBLOCKS > LOGSIZE
NoRoom == Len(lh) + (outstanding + 1) * MAXOPBLOCKS > LOGSIZE

begin_op(p) ==
    /\ ~panicked
    /\ phase \notin {"read_head", "rec_install", "rec_erase"}
    /\ pc[p] \in {"idle", "begin"}
    /\ IF committing \/ NoRoom
         THEN /\ pc' = [pc EXCEPT ![p] = "sleep"]
              /\ UNCHANGED <<outstanding, wrote>>
         ELSE /\ outstanding' = outstanding + 1
              /\ pc' = [pc EXCEPT ![p] = "op"]
              /\ wrote' = [wrote EXCEPT ![p] = {}]
    /\ UNCHANGED <<disk, logBlock, head, cache, pin, lh, committing,
                   phase, tail, panicked>>

\* The caller stores v in block b and calls log_write().
log_write(p, b, v) ==
    /\ ~panicked
    /\ pc[p] = "op"
    /\ b \in wrote[p] \/ Cardinality(wrote[p]) < OpBlocks
    /\ cache' = [cache EXCEPT ![b] = v]
    /\ IF Full \/ outstanding < 1
         THEN /\ panicked' = TRUE
              /\ UNCHANGED <<pin, lh, wrote>>
         ELSE /\ IF b \in Blocks(lh)
                   THEN UNCHANGED <<pin, lh>>
                   ELSE /\ pin' = bpin(b)
                        /\ lh' = Append(lh, b)
              /\ wrote' = [wrote EXCEPT ![p] = @ \cup {b}]
              /\ UNCHANGED panicked
    /\ UNCHANGED <<disk, logBlock, head, outstanding, committing, pc,
                   phase, tail>>

\* end_op() up to the call of commit(); the last operation commits.
end_op(p) ==
    /\ ~panicked
    /\ pc[p] = "op"
    /\ outstanding' = outstanding - 1
    /\ wrote' = [wrote EXCEPT ![p] = {}]
    /\ panicked' = committing
    /\ IF outstanding' = 0
         THEN /\ committing' = TRUE
              /\ pc' = [pc EXCEPT ![p] = "commit"]
              /\ phase' = IF lh = <<>> THEN "done" ELSE "write_log"
              /\ tail' = 0
         ELSE /\ pc' = wakeup([pc EXCEPT ![p] = "idle"])
              /\ UNCHANGED <<committing, phase, tail>>
    /\ UNCHANGED <<disk, logBlock, head, cache, pin, lh>>

\* The end of end_op() in the process that committed.
end_commit(p) ==
    /\ pc[p] = "commit"
    /\ phase = "done"
    /\ committing' = FALSE
    /\ pc' = wakeup([pc EXCEPT ![p] = "idle"])
    /\ phase' = "none"
    /\ UNCHANGED <<disk, logBlock, head, cache, pin, lh, outstanding, wrote,
                   tail, panicked>>
-----------------------------------------------------------------------------
(***************************************************************************)
(* commit(): write_log(), write_head(), install_trans(0), write_head().    *)
(***************************************************************************)
write_log ==
    /\ phase = "write_log"
    /\ logBlock' = [logBlock EXCEPT ![tail + 1] = bread(lh[tail + 1])]
    /\ IF tail + 1 < Len(lh)
         THEN tail' = tail + 1 /\ UNCHANGED phase
         ELSE tail' = 0 /\ phase' = "write_head"
    /\ UNCHANGED <<disk, head, cache, pin, lh, outstanding, committing, pc,
                   wrote, panicked>>

write_head_late ==
    /\ phase = "write_head"
    /\ phase' = "install"
    /\ UNCHANGED <<disk, logBlock, head, cache, pin, lh, outstanding,
                   committing, pc, wrote, tail, panicked>>

write_head ==
    /\ phase = "write_head"
    /\ head' = lh
    /\ phase' = "install"
    /\ UNCHANGED <<disk, logBlock, cache, pin, lh, outstanding, committing,
                   pc, wrote, tail, panicked>>

install_trans_short(recovering) ==
    /\ phase = IF recovering THEN "rec_install" ELSE "install"
    /\ IF tail + 1 < Len(lh)
         THEN /\ cache' = [cache EXCEPT ![lh[tail + 1]] = logBlock[tail + 1]]
              /\ disk' = [disk EXCEPT ![lh[tail + 1]] = logBlock[tail + 1]]
              /\ pin' = IF recovering THEN pin
                                       ELSE [pin EXCEPT ![lh[tail + 1]] = @ - 1]
              /\ tail' = tail + 1 /\ UNCHANGED phase
         ELSE /\ tail' = 0 /\ phase' = IF recovering THEN "rec_erase" ELSE "erase"
              /\ UNCHANGED <<cache, disk, pin>>
    /\ UNCHANGED <<logBlock, head, lh, outstanding, committing, pc, wrote,
                   panicked>>

install_trans(recovering) ==
    /\ phase = IF recovering THEN "rec_install" ELSE "install"
    /\ LET b == lh[tail + 1]
       IN  /\ cache' = [cache EXCEPT ![b] = logBlock[tail + 1]]
           /\ disk' = [disk EXCEPT ![b] = logBlock[tail + 1]]
           /\ pin' = IF recovering THEN pin ELSE [pin EXCEPT ![b] = @ - 1]
    /\ IF tail + 1 < Len(lh)
         THEN tail' = tail + 1 /\ UNCHANGED phase
         ELSE tail' = 0 /\ phase' = IF recovering THEN "rec_erase" ELSE "erase"
    /\ UNCHANGED <<logBlock, head, lh, outstanding, committing, pc, wrote,
                   panicked>>

\* log.lh.n = 0 and the second write_head() of commit() and of recovery.
erase(recovering) ==
    /\ phase = IF recovering THEN "rec_erase" ELSE "erase"
    /\ lh' = <<>>
    /\ head' = <<>>
    /\ phase' = IF recovering THEN "none" ELSE "done"
    /\ UNCHANGED <<disk, logBlock, cache, pin, outstanding, committing, pc,
                   wrote, tail, panicked>>

\* initlog() and recover_from_log(), up to the loop of install_trans(1).
read_head ==
    /\ phase = "read_head"
    /\ lh' = head
    /\ phase' = IF head = <<>> THEN "rec_erase" ELSE "rec_install"
    /\ UNCHANGED <<disk, logBlock, head, cache, pin, outstanding, committing,
                   pc, wrote, tail, panicked>>
-----------------------------------------------------------------------------
(***************************************************************************)
(* The environment: buffer replacement and power failure.                  *)
(***************************************************************************)
\* bget() recycles a buffer nobody references.
recycle(b) ==
    /\ ~panicked
    /\ cache[b] # NoBuf
    /\ pin[b] = 0
    /\ cache' = [cache EXCEPT ![b] = NoBuf]
    /\ UNCHANGED <<disk, logBlock, head, pin, lh, outstanding, committing,
                   pc, wrote, phase, tail, panicked>>

\* Power fails, or the machine is reset after a panic.  The block being
\* transferred may be torn; the header fits in one disk sector, so it is
\* written whole or not at all.
crash ==
    /\ \/ UNCHANGED <<disk, logBlock>>
       \/ /\ phase = "write_log"
          /\ logBlock' = [logBlock EXCEPT ![tail + 1] = Torn]
          /\ UNCHANGED disk
       \/ /\ phase \in {"install", "rec_install"}
          /\ disk' = [disk EXCEPT ![lh[tail + 1]] = Torn]
          /\ UNCHANGED logBlock
    /\ UNCHANGED head
    /\ cache' = [b \in Block |-> NoBuf]
    /\ pin' = [b \in Block |-> 0]
    /\ lh' = <<>>
    /\ outstanding' = 0
    /\ committing' = FALSE
    /\ pc' = [p \in Proc |-> "idle"]
    /\ wrote' = [p \in Proc |-> {}]
    /\ phase' = "read_head"
    /\ tail' = 0
    /\ panicked' = FALSE

commit_step ==
    \/ write_log
    \/ write_head
    \/ \E r \in BOOLEAN : install_trans(r) \/ erase(r)
    \/ read_head

Next ==
    \/ \E p \in Proc : begin_op(p) \/ end_op(p) \/ end_commit(p)
    \/ \E p \in Proc, b \in Block, v \in Val : log_write(p, b, v)
    \/ commit_step
    \/ \E b \in Block : recycle(b)
    \/ crash

Spec == Init /\ [][Next]_vars

\* Every runnable process runs again (the scheduler is round robin), calls
\* end, and the disk answers; a crash is never owed.
FairSpec ==
    /\ Spec
    /\ WF_vars(commit_step)
    /\ \A p \in Proc : WF_vars(end_op(p)) /\ WF_vars(end_commit(p))
-----------------------------------------------------------------------------
(***************************************************************************)
(* Properties.                                                             *)
(***************************************************************************)
recovering == phase \in {"read_head", "rec_install", "rec_erase"}

\* What recovery would make of the disk as it is now.
recovered ==
    [b \in Block |-> IF b \in Blocks(head)
                       THEN logBlock[CHOOSE i \in DOMAIN head : head[i] = b]
                       ELSE disk[b]]

\* What a file-system call reads.
current == [b \in Block |-> bread(b)]

Atomic == INSTANCE AtomicDisk WITH
    durable <- recovered,
    volatile <- IF recovering THEN recovered ELSE current,
    inop <- {p \in Proc : pc[p] = "op"}

\* Crash atomicity (log.c, lines 10-22): whatever is interrupted by whatever
\* crash, torn block included, the image recovery rebuilds only ever changes
\* from the state before a group of calls to the state after all of them.
AtomicSpec == Atomic!Spec

\* begin_op() reserves enough of the log that log_write() never panics with
\* "too big a transaction", and end_op() never finds a commit in progress.
NoPanic == ~panicked

\* When the last call's end_op() has returned, all that was written would
\* survive a crash (log.c line 145, "commits if this was the last").
QuiescentIsDurable == phase = "none" /\ outstanding = 0 => recovered = current

\* Entries of lh whose block install_trans() has still to write home.
Pending == {i \in DOMAIN lh : /\ phase \notin {"erase", "done"}
                              /\ phase = "install" => i > tail}

\* A block is pinned exactly from the log_write() that first logs it until
\* install_trans() has written it home: it cannot be recycled in between,
\* and no reference is leaked to the next transaction.
PinnedUntilInstalled ==
    ~recovering =>
        \A b \in Block : pin[b] = IF \E i \in Pending : lh[i] = b THEN 1 ELSE 0

\* No lost wakeup in begin_op(): while a process sleeps on &log, some other
\* process is still bound to call wakeup(&log) in end_op().
SleeperHasWaker ==
    (\E p \in Proc : pc[p] = "sleep") => committing \/ outstanding > 0

\* A process asleep in begin_op() is woken.
SleeperWakes == \A p \in Proc : pc[p] = "sleep" ~> pc[p] # "sleep"

\* The write-ahead rule: a home block is only overwritten while the header
\* on the disk names it, so that the log can repair a torn write.
WriteAhead == [][\A b \in Block : disk'[b] # disk[b] => b \in Blocks(head)]_vars
-----------------------------------------------------------------------------
(***************************************************************************)
(* The inductive invariant behind these properties.                        *)
(***************************************************************************)
Active == {p \in Proc : pc[p] = "op"}

\* The part of the reservations of begin_op() that is not used up yet.
Token == {t \in Proc \X (1..MAXOPBLOCKS) :
            t[1] \in Active /\ t[2] > Cardinality(wrote[t[1]])}

Distinct(s) == \A i, j \in DOMAIN s : s[i] = s[j] => i = j

Reservation ==
    /\ outstanding = Cardinality(Active)
    /\ ~recovering => Len(lh) + Cardinality(Token) <= LOGSIZE
    /\ \A p \in Proc : /\ Cardinality(wrote[p]) <= OpBlocks
                       /\ wrote[p] \subseteq Blocks(lh)
                       /\ p \notin Active => wrote[p] = {}

PhaseOrder ==
    /\ committing <=> ~recovering /\ phase # "none"
    /\ panicked => phase = "none" /\ Active # {}
    /\ phase # "none" => Active = {}
    /\ phase = "none" /\ Active = {} => lh = <<>>
    /\ phase \in {"read_head", "done"} => lh = <<>>
    /\ phase \in {"write_log", "write_head", "install", "rec_install"}
          => tail < Len(lh)
    /\ phase \notin {"write_log", "install", "rec_install"} => tail = 0
    /\ Len(lh) <= LOGSIZE /\ Distinct(lh)
    /\ phase \in {"install", "erase", "rec_install", "rec_erase"} => head = lh
    /\ phase \notin {"install", "erase", "read_head", "rec_install",
                     "rec_erase"} => head = <<>>
    /\ Len(head) <= LOGSIZE /\ Distinct(head)

CacheClean ==
    /\ \A b \in Block : IF pin[b] = 0
                           THEN ~panicked => cache[b] \in {NoBuf, disk[b]}
                           ELSE cache[b] # NoBuf
    /\ recovering => \A b \in Block : pin[b] = 0

Logged ==
    /\ phase = "write_log" =>
          \A i \in 1..tail : logBlock[i] = cache[lh[i]]
    /\ phase \in {"write_head", "install"} =>
          \A i \in Pending : logBlock[i] = cache[lh[i]]

Installed ==
    /\ phase \in {"install", "rec_install"} =>
          \A i \in 1..tail : disk[lh[i]] = logBlock[i]
    /\ phase \in {"erase", "rec_erase"} =>
          \A i \in DOMAIN lh : disk[lh[i]] = logBlock[i]

\* Every transaction fits in what begin_op() reserved, the phases of a commit
\* come in order, clean buffers agree with the disk, the log holds what the
\* cache holds once it is written, and the disk what the log holds once it is
\* installed.
LogInv ==
    /\ Reservation
    /\ PhaseOrder
    /\ CacheClean
    /\ Logged
    /\ Installed
    /\ PinnedUntilInstalled
    /\ SleeperHasWaker
=============================================================================
