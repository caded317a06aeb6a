-------------------------------- MODULE Pipe --------------------------------
(***************************************************************************)
(* A pipe of kernel/pipe.c shared by several processes: pipewrite(),       *)
(* piperead(), pipeclose(), and kill() on processes that are inside.       *)
(*                                                                         *)
(* The code runs under pi->lock except in sleep(); kill() takes p->lock    *)
(* only, so it can come between two iterations of a loop.  A step is one   *)
(* iteration.                                                              *)
(***************************************************************************)
EXTENDS Integers, Sequences, FiniteSets

CONSTANTS
    Proc,           \* processes that share the pipe
    Val,            \* bytes
    PIPESIZE,       \* bytes of the ring
    WRAP,           \* values of a uint: nread and nwrite count modulo WRAP
    MaxN,           \* bound on the length of a call
    Fds,            \* ways the ends can be spread over the processes
    MayKill         \* kill() happens

ASSUME PipeAssumption ==
    /\ {PIPESIZE, WRAP, MaxN} \subseteq Nat \ {0}
    /\ PIPESIZE < WRAP /\ WRAP % PIPESIZE = 0
    /\ Fds \subseteq [Proc -> SUBSET {"r", "w"}]
    /\ MayKill \in BOOLEAN

VARIABLES
    data,           \* pi->data
    nread,          \* pi->nread
    nwrite,         \* pi->nwrite
    open,           \* the ends with readopen or writeopen set
    lock,           \* holders of pi->lock
    freed,          \* kfree(pi) has been called
    fds,            \* the ends each process has a file for
    pc,             \* where each process is
    i,              \* bytes its call has transferred
    n,              \* bytes its call asks for
    ch,             \* char ch of the piperead() that last took a byte
    killed          \* p->killed

vars == <<data, nread, nwrite, open, lock, freed, fds, pc, i, n, ch, killed>>
pipe == <<data, nread, nwrite, open, freed>>

TypeOK ==
    /\ data \in [0..(PIPESIZE - 1) -> Val]
    /\ {nread, nwrite} \subseteq 0..(WRAP - 1)
    /\ open \subseteq {"r", "w"}
    /\ lock \subseteq Proc /\ Cardinality(lock) <= 1
    /\ freed \in BOOLEAN
    /\ fds \in [Proc -> SUBSET {"r", "w"}]
    /\ pc \in [Proc -> {"user", "write", "writing", "write_sleep",
                        "read", "reading", "copying", "read_sleep"}]
    /\ {i, n} \subseteq [Proc -> 0..MaxN]
    /\ ch \in Val
    /\ killed \in [Proc -> BOOLEAN]

\* pipealloc() and the forks that spread the ends; kalloc() has filled the
\* page with one value.
Init ==
    /\ \E v \in Val : data = [k \in 0..(PIPESIZE - 1) |-> v]
    /\ nread = 0 /\ nwrite = 0
    /\ open = {"r", "w"}
    /\ lock = {}
    /\ freed = FALSE
    /\ fds \in Fds
    /\ pc = [p \in Proc |-> "user"]
    /\ i = [p \in Proc |-> 0]
    /\ n = [p \in Proc |-> 0]
    /\ ch = data[0]
    /\ killed = [p \in Proc |-> FALSE]

\* uint arithmetic.
plus(a, b) == (a + b) % WRAP
empty == nread = nwrite
full_off_by_one == nwrite = plus(nread, PIPESIZE + 1)
full == nwrite = plus(nread, PIPESIZE)

\* wakeup(&pi->nread) and wakeup(&pi->nwrite) on the program counters f: the
\* sleepers go on to reacquire pi->lock.
wake_readers_not(f) == f
wake_readers(f) == [p \in Proc |-> IF f[p] = "read_sleep" THEN "read" ELSE f[p]]

wake_writers(f) ==
    [p \in Proc |-> IF f[p] = "write_sleep" THEN "write" ELSE f[p]]

\* Process p releases pi->lock and returns; f: the program counters then.
Return(p, f) ==
    /\ lock' = lock \ {p}
    /\ pc' = [f EXCEPT ![p] = "user"]
    /\ i' = [i EXCEPT ![p] = 0]
    /\ n' = [n EXCEPT ![p] = 0]
-----------------------------------------------------------------------------
\* A system call on the pipe; usertrap() lets no killed process start one.
call(p, op, k) ==
    /\ pc[p] = "user"
    /\ ~killed[p]
    /\ (IF op = "write" THEN "w" ELSE "r") \in fds[p]
    /\ pc' = [pc EXCEPT ![p] = op]
    /\ i' = [i EXCEPT ![p] = 0]
    /\ n' = [n EXCEPT ![p] = k]
    /\ UNCHANGED <<pipe, lock, fds, ch, killed>>

\* acquire(&pi->lock), at the start of a call or at the end of sleep().
enter(p) ==
    /\ pc[p] \in {"write", "read"}
    /\ lock = {}
    /\ lock' = {p}
    /\ pc' = [pc EXCEPT ![p] = IF @ = "write" THEN "writing" ELSE "reading"]
    /\ UNCHANGED <<pipe, fds, i, n, ch, killed>>

\* pipewrite(): the reader is gone, or the caller has been killed.
write_fail(p) ==
    /\ pc[p] = "writing"
    /\ i[p] < n[p]
    /\ "r" \notin open \/ killed[p]
    /\ Return(p, pc)
    /\ UNCHANGED <<pipe, fds, ch, killed>>

write_full(p) ==
    /\ pc[p] = "writing"
    /\ i[p] < n[p]
    /\ "r" \in open /\ ~killed[p]
    /\ full
    /\ lock' = lock \ {p}
    /\ pc' = wake_readers([pc EXCEPT ![p] = "write_sleep"])
    /\ UNCHANGED <<pipe, fds, i, n, ch, killed>>

write_byte(p, v) ==
    /\ pc[p] = "writing"
    /\ i[p] < n[p]
    /\ "r" \in open /\ ~killed[p]
    /\ ~full
    /\ data' = [data EXCEPT ![nwrite % PIPESIZE] = v]
    /\ nwrite' = plus(nwrite, 1)
    /\ i' = [i EXCEPT ![p] = @ + 1]
    /\ UNCHANGED <<nread, open, freed, lock, fds, pc, n, ch, killed>>

\* The loop ends: all is written, or copyin() fails.
write_done(p) ==
    /\ pc[p] = "writing"
    /\ \/ i[p] = n[p]
       \/ "r" \in open /\ ~killed[p] /\ ~full
    /\ Return(p, wake_readers(pc))
    /\ UNCHANGED <<pipe, fds, ch, killed>>
-----------------------------------------------------------------------------
\* piperead(): wait while the pipe is empty and can still be written.
read_wait(p) ==
    /\ pc[p] = "reading"
    /\ empty /\ "w" \in open
    /\ \/ /\ killed[p]
          /\ Return(p, pc)
       \/ /\ ~killed[p]
          /\ lock' = lock \ {p}
          /\ pc' = [pc EXCEPT ![p] = "read_sleep"]
          /\ UNCHANGED <<i, n>>
    /\ UNCHANGED <<pipe, fds, ch, killed>>

read_start(p) ==
    /\ pc[p] = "reading"
    /\ ~(empty /\ "w" \in open)
    /\ pc' = [pc EXCEPT ![p] = "copying"]
    /\ UNCHANGED <<pipe, lock, fds, i, n, ch, killed>>

\* The byte is taken out before copyout(), which may fail.
read_byte(p) ==
    /\ pc[p] = "copying"
    /\ i[p] < n[p]
    /\ ~empty
    /\ ch' = data[nread % PIPESIZE]
    /\ nread' = plus(nread, 1)
    /\ \/ /\ i' = [i EXCEPT ![p] = @ + 1]
          /\ UNCHANGED <<pc, lock, n>>
       \/ Return(p, wake_writers(pc))
    /\ UNCHANGED <<data, nwrite, open, freed, fds, killed>>

read_done(p) ==
    /\ pc[p] = "copying"
    /\ i[p] = n[p] \/ empty
    /\ Return(p, wake_writers(pc))
    /\ UNCHANGED <<pipe, fds, ch, killed>>
-----------------------------------------------------------------------------
\* pipeclose() of end e.
pipeclose(e) ==
    /\ lock = {}
    /\ open' = open \ {e}
    /\ freed' = (open' = {})
    /\ pc' = IF e = "w" THEN wake_readers(pc) ELSE wake_writers(pc)

\* close(), or exit() of a killed process: fileclose() of one file, which
\* closes the end of the pipe with the last reference to it.
fileclose(p, e) ==
    /\ pc[p] = "user"
    /\ e \in fds[p]
    /\ fds' = [fds EXCEPT ![p] = @ \ {e}]
    /\ IF \E r \in Proc \ {p} : e \in fds[r]
         THEN UNCHANGED <<open, freed, pc>>
         ELSE pipeclose(e)
    /\ UNCHANGED <<data, nread, nwrite, lock, i, n, ch, killed>>

\* kill() by a process outside: a sleeper is made runnable.
kill(p) ==
    /\ MayKill
    /\ ~killed[p]
    /\ killed' = [killed EXCEPT ![p] = TRUE]
    /\ pc' = [pc EXCEPT ![p] = CASE @ = "write_sleep" -> "write"
                                 [] @ = "read_sleep" -> "read"
                                 [] OTHER -> @]
    /\ UNCHANGED <<pipe, lock, fds, i, n, ch>>

\* What the kernel does for p once it is inside a call.
kernel(p) ==
    \/ write_fail(p) \/ write_full(p) \/ write_done(p)
    \/ \E v \in Val : write_byte(p, v)
    \/ read_wait(p) \/ read_start(p) \/ read_byte(p) \/ read_done(p)

Next ==
    \E p \in Proc :
        \/ \E op \in {"write", "read"}, k \in 0..MaxN : call(p, op, k)
        \/ enter(p) \/ kernel(p)
        \/ \E e \in {"r", "w"} : fileclose(p, e)
        \/ kill(p)

Spec == Init /\ [][Next]_vars
-----------------------------------------------------------------------------
(***************************************************************************)
(* Properties.                                                             *)
(***************************************************************************)
used == (nwrite - nread) % WRAP

\* The bytes between nread and nwrite.
content == [k \in 1..used |-> data[plus(nread, k - 1) % PIPESIZE]]

Queue == INSTANCE Fifo WITH Size <- PIPESIZE, q <- content, got <- ch

\* The pipe is a first-in first-out queue, with several readers and writers,
\* calls that are cut short by a fault or a kill, and counters that wrap.
PipeIsFifo == Queue!Spec

Asleep(s) == {p \in Proc : pc[p] = s}

\* Nobody sleeps for nothing: a writer only while the pipe is full and somebody
\* may still read, a reader only while it is empty and somebody may still
\* write.  So they never wait for each other, and closing an end wakes the
\* other.  The exception is a writer killed halfway, which leaves pipewrite()
\* without wakeup(&pi->nread).
SleepersJustified ==
    lock = {} =>
        /\ Asleep("write_sleep") # {} => full /\ "r" \in open
        /\ Asleep("read_sleep") # {}
              => "w" \in open /\ (empty \/ \E p \in Proc : killed[p])

\* The page of the pipe is freed only when no process can touch it again.
NoUseAfterFree ==
    freed => \A p \in Proc : fds[p] = {} /\ pc[p] = "user"

\* A pipe wakes everybody it should, and is gone only when nobody can miss it.
PipeSound == SleepersJustified /\ NoUseAfterFree
=============================================================================
