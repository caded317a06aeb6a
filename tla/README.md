# Formal models of osn-xv6

osn-xv6 is the RISC-V teaching kernel xv6 extended with copy-on-write fork, five
schedulers chosen at compile time (round robin, FCFS, lottery, priority, MLFQ),
`sigalarm`/`sigreturn`, `trace` and `waitx`. This directory holds TLA+
specifications of the kernel, of `mkfs` and of the user programs one meets first,
TLC instances that check them, and TLAPS proofs about the log, the buffer cache, the
disk driver, copy-on-write memory, processes, pipes, the schedulers, `waitx` and
alarms. File and line references are to `src/`, and mean `src/kernel/` where no
directory is named.

`PROJECT.json` lists the components, the runs, the mutants that show each
property can fail, the source lines behind every definition, the hazards and the
theorems. This file explains them.

## 1. The system

| Part | Code | Operations | What is hard about it |
|---|---|---|---|
| Write-ahead log | `log.c` | `begin_op`, `log_write`, `end_op`, `commit`, recovery | group commit; crashes between and inside block writes; crash during recovery |
| Buffer cache | `bio.c`, `sleeplock.c` | `bread`, `bwrite`, `brelse`, `bpin`, `bunpin` | recycling a buffer others are about to lock; pinned buffers |
| Disk driver | `virtio_disk.c` | `virtio_disk_rw`, `virtio_disk_intr` | a device that completes out of order; acknowledging an interrupt races with completions |
| Inodes, names, file calls | `fs.c`, `sysfile.c`, `file.c` | `open`, `mkdir`, `link`, `unlink`, `write`, `close` | `iput` frees; directories unlocked between lookup and use; out of blocks half way |
| File contents | `fs.c`, `file.c`, `mkfs.c` | `bmap`, `readi`, `writei`, `itrunc`, `filewrite`, `mkfs` | the indirect block; a write that fails in the middle; blocks a transaction may write |
| Page allocator, COW memory | `kalloc.c`, `vm.c`, `trap.c` | `kalloc`, `kfree`, `uvmcopy`, page fault, `copyout`, `sbrk` | counts and mappings change in separate critical sections on several CPUs |
| Page tables, `exec` | `vm.c`, `exec.c`, `sysfile.c` | `walk`, `mappages`, `uvmunmap`, `uvmalloc`, `copyinstr`, `exec` | every allocation may fail half way; strings and pointers on one page |
| Processes | `proc.c` | `fork`, `exit`, `wait`, `kill`, `sleep`, `wakeup`, `sched` | lost wakeups; freeing a process whose CPU is still on its stack; parents and children exiting at once |
| Spin locks, interrupts | `spinlock.c`, `trap.c`, `proc.c` | `acquire`, `push_off`, `sched`, timer and device interrupts | handlers that take locks; interrupt state that follows a thread to another CPU |
| Lottery scheduler | `proc.c`, `sysproc.c` | draw, scan, `settickets` | a global counter without a lock |
| MLFQ scheduler | `proc.c`, `trap.c` | scan, slice, demotion, aging | a scan that carries one lock to the next; starvation |
| FCFS, PBS, `waitx` | `proc.c`, `trap.c` | scan, `set_priority`, accounting | a scan over changing processes; times read without a lock |
| Alarms | `sysproc.c`, `trap.c` | `sigalarm`, `sigreturn`, timer tick | one saved frame; a counter compared for equality |
| Pipes | `pipe.c` | `pipewrite`, `piperead`, `pipeclose` | counters that wrap; two kinds of sleepers; last close frees |
| Console, serial port | `console.c`, `uart.c` | `consoleread`, `consoleintr`, `uartputc`, `uartintr` | rings shared by handlers and processes; echo bypasses the output ring |
| Open files, shell | `file.c`, `sysfile.c`, `user/sh.c`, `user/init.c` | `pipe`, `dup`, `fork`, `exec`, `wait`, `runcmd` | a descriptor left open blocks a pipeline; tables run full |
| User library | `user/umalloc.c`, `user/grep.c` | `malloc`, `free`, `match`, `grep` | pointer arithmetic on a circular list; lines across reads |

They interact as follows. File calls (Fs, Inode) run inside `begin_op`/`end_op`
(Log), which reads and writes blocks through the buffer cache (Bcache), which calls
the disk driver (Virtio). All of them block and wake with `sleep`/`wakeup` (Proc),
whose locks and interrupts are Intr. The shell composes fork, exec, wait, open
files, pipes and the terminal.
The storage layers are modelled apart, and what one takes from the next is argued
here rather than composed: Log has one buffer per block, the contract that
CacheIsStore shows of Bcache; Bcache has a disk that transfers whole blocks, which
RequestsServed shows of Virtio; Fs leaves crashes out because AtomicSpec shows
calls to be atomic with respect to them, and Inode shows in `InodeSound` that
writes keep within the reservation that Log takes as its constant `OpBlocks`.
Likewise a blocking call of Shell waits in its guard, since Pipe and Proc show that
sleepers are woken.

## 2. Modules

| Module | Models | A step is |
|---|---|---|
| `AtomicDisk` | what the log promises: a disk whose durable image changes by a whole group of calls at once, or not at all | a write to the volatile image, a commit, a crash |
| `Log` | `log.c` with the pins of `bio.c` | a critical section of `log.lock`, or one block write of commit or recovery |
| `BlockStore` | what the cache promises: one cell per block with an owner | lock, read or write, unlock |
| `Bcache` | `bio.c`, `sleeplock.c` | a critical section of `bcache.lock` or of a sleep lock, a transfer |
| `Virtio` | `virtio_disk.c` and, external, the device | a section of `vdisk_lock`, one fetch or completion by the device, each part of the interrupt handler that can be interleaved with the device |
| `Fs` | `fs.c`, `sysfile.c`, part of `file.c` | what is done holding the sleep locks of one or two inodes, or a section of `itable.lock` |
| `Mkfs`, `Inode` | the image `mkfs` writes; block maps and contents of files in `fs.c`, `filewrite` | a transaction of `filewrite`, a truncation |
| `EagerFork` | what fork promises: private copies of memory | store, fork, grow, exit |
| `Cow` | `kalloc.c`, `vm.c`, the page fault of `usertrap` | a section of `kmem.lock` or `rclk[]`, or code on private memory |
| `PageTable`, `Exec` | `vm.c` as operators on a page-table tree; `exec.c`, `sys_exec`, `growproc` | a whole call; between calls the other processes take and return pages |
| `Proc` | `proc.c` with round robin | a section of `p->lock` or `wait_lock`; locks held over several steps are variables |
| `Intr` | `spinlock.c`, `sched`, the scheduler loop, `usertrap`, `kerneltrap`, `devintr`, `sys_sleep` and, as a driver, the request and wait of `virtio_disk.c` | one item of the list of what a context has to do |
| `Lottery` | `proc.c`, `sysproc.c` with `-DLBS` | a load or a store of `totaltickets`, one slot of the scan |
| `Mlfq` | `proc.c`, `trap.c` with `-DMLFQ` | one slot of the scan, one interrupt, one slot of the preemption loop |
| `NonPreemptive` | `proc.c`, `trap.c` with `-DFCFS` or `-DPBS`, `waitx` | one slot of the scan or of the accounting, one call |
| `Alarm` | `sysproc.c`, `usertrap` | a system call, a tick or an instruction |
| `Fifo` | what a pipe, and console output, promise: a bounded queue | put, take, or drop a byte |
| `Pipe` | `pipe.c` and the close in `file.c` | one byte, one sleep, one return, under `pi->lock` |
| `LineEditor` | what console input promises: a line can be edited until it ends | type, erase, kill, end, read |
| `Console` | `console.c`, `uart.c` and, external, the 16550 | a section of `cons.lock` or `uart_tx_lock`, or its parts between looks at the device |
| `OpenFile`, `Shell` | `file.c`, descriptors and pipes of `sysfile.c`; `init`, `sh`, `cat`, `echo` | one system call of one process, two for `pipe()`, one per descriptor for `exit()` |
| `ShParse` | the parser of `sh.c` | operators |
| `Umalloc`, `Grep` | `umalloc.c`; `grep.c` | a call of `malloc`, `free` or `sbrk`; one `read` |
| `LogProofs`, `BcacheProofs` | theorems about the module of that name | |
| `CowSteps`, `CowProofs` | the inductive invariant of Cow and the steps on single pages; its loops over page tables and the theorems | |
| `VirtioProofs` | a theorem about Virtio | |
| `ConsoleProofs` | theorems about Console | |
| `ProcProofs` | theorems about Proc and, by `INSTANCE`, Alarm and Pipe | |
| `SchedulerProofs` | theorems about Mlfq and, by `INSTANCE`, NonPreemptive | |
| `MC*` | the instances: symmetry sets, programs, files and command lines that a configuration cannot write | |

Names of actions and variables are those of the code: the action `begin_op` is
`begin_op()`, and where a function has several critical sections they are
`end_op`, `end_commit` and so on. A guard is the condition under which the code
gets to that point; a sleeping process is one whose program counter is at its
`sleep()`. Choices of the modelled program (which call, which value) are
quantified in `Next`. Definitions whose names extend another one with a suffix
(`bpin_missing`, `full_off_by_one`) are variants of that definition with a
plausible mistake. No run uses them; the properties fail when they replace the
original.

Five MC modules hold several components that share nothing but the question: the
variable `subject` (or, in MCTerminal, the session) is chosen in the first state
and never changes, and a step is a step of that component. MCSchedulers has Mlfq
and NonPreemptive on two CPUs and on one; MCDevices has Virtio and Intr;
MCUniprocessor has what is promised on one CPU only (Alarm, Mlfq, Lottery);
MCSequential has the code that runs alone (Exec, Inode, Umalloc, Grep, ShParse);
MCTerminal has Console and Shell.

Data is abstracted where no property tells it apart: contents of a block or a
page are values from a two-element set; a pathname is a sequence of names; the
registers of a program are its position, `a0` and one other value. Where the
conversion is the subject (the parser, `grep`, the words of a file, the stack that
`exec` builds) the data is there, in small sizes.

### Simplifications to know of

- **Log.** A block write may be torn by a crash (`Torn`), the header write is
  atomic, as the code assumes. `MAXOPBLOCKS`, `LOGSIZE` and the number of log
  blocks that `mkfs` reserves (`NLOG`) are independent constants.
- **Bcache.** A process holds one buffer at a time; in the kernel `bmap()` and
  `itrunc()` with an indirect block, and the log when it copies, hold two.
- **Fs.** The first block of a directory holds "." and "..", the second every
  other name, and a file has at most one block; larger files are in Inode. Which
  free inode or block is taken is left open. Paths are absolute and a process has
  one descriptor; descriptors are in OpenFile and Shell. The calls a program may
  make are the constant `Call`. `iget()` always finds a place in the table: the panic
  for `NINODE` inodes in use at once is left out.
- **Inode.** A directory entry is one word. A transaction holds `ip->lock` from
  beginning to end and is one step. `InodeAssumption` says that the entries of the
  root directory do not fill its blocks exactly (section 6). A `uint` wraps at `UINT`,
  which the tests of `readi()` and `writei()` for an overflow of `off + n` see. A copy
  from user memory may fail in the middle (`writei`); a copy to it succeeds.
- **Cow.** An address space has `NPage` pages. `CopyoutToText` says whether system
  calls are handed buffers in pages that are not writable, which `copyout()` does
  not refuse. The run takes `FALSE`; see section 6.
- **Exec.** A call is one step: after the first `kalloc()` that fails it only frees,
  so the number of free pages at its start decides which one fails. Addresses wrap at
  `ADDR`. The inode of the program, its lock and its transaction are left out. No page
  is shared, so `copyout()` has no copy to make there; that part is in Cow.
- **Proc.** `fork` and `exit` skip the file table and the address space.
- **Intr.** `wakeup` clears `chan` at once; in the code the sleeper does. Nobody is
  killed there, so `sys_sleep()` returns only when the time is over.
- **Lottery, Mlfq, NonPreemptive.** They contain the scheduling parts of `fork`,
  `sleep`, `wakeup` and `exit`, not their protocols, which are in Proc.
- **Mlfq, liveness.** The run has a fixed set of processes (`MayFork = FALSE`), so
  `MlfqNoStarvation` says nothing of a stream of new processes, which start in
  queue 0.
- **Alarm.** `HandlerRearms` says whether a handler calls `sigalarm(n)` with
  `n > 0`. The run takes `FALSE`; see section 6.
- **Pipe, Virtio, Console, Intr.** The counters of 32 and 16 bits wrap at a small
  constant (`WRAP`, `UINT`, `TICKS`), a multiple of the ring size as in the code.
- **Console.** A writer chooses its byte when there is room for it, not before it
  sleeps, and may give up when it is woken: more behaviours than the code has. `^U`
  erases back to `w` without looking for a newline, since a newline moves `w` past it.
- **Umalloc.** Requests are below 2^31 bytes, so the `int` of `morecore()` holds them.
- **Shell.** Programs are `e` (echo), `c` (cat), `u` (the test `pgbug` of
  `user/usertests.c`, which hands `pipe()` an address where there is no memory) and the
  shell. A call is one step, but for `pipe()`, which takes its two files in two, and
  `exit()`, which closes one descriptor per step; a write to a pipe moves one byte;
  files have no blocks. Programs and directories are in the root directory, names are
  looked up from there or from the current directory, and no name has ".", ".." or a
  slash inside. Nobody opens a directory for reading or a device with a bad number.

## 3. Runs

| Run | Instance | Shows | States |
|---|---|---|---|
| `log_safety` | 2 processes, 4 blocks, 2 values, `MAXOPBLOCKS` 2, `LOGSIZE` 4, 5 log blocks, 1 block per call | the log with crashes and torn writes implements `AtomicDisk`; the write-ahead rule; what has ended is durable; no panic; the inductive invariant of the proofs; a sleeper in `begin_op()` wakes | 564,900 |
| `cow_fork` | 3 processes, 4 physical pages, 2 virtual pages, one of them text | reference counts and free list are exact, and COW fork implements the eager one | 54,934 |
| `proc_safety` | 3 slots, 2 CPUs | one CPU per kernel stack, no wakeup lost between `exit` and `wait`, no orphans, `wait` and `exit` end | 27,776 |
| `pipe_safety` | 3 processes with any mix of ends, 2-byte pipe, counters modulo 4, kills | a pipe implements `Fifo`, is freed once, and leaves nobody asleep without reason | 1,672,016 |
| `schedulers` | MLFQ: 3 slots, 2 CPUs, 2 queues, forks. FCFS and PBS: 3 slots on 2 CPUs without a tick, 2 slots on 2 CPUs with 1 tick, 3 slots on 1 CPU with 2 | two scans never choose the same process; a scan ends with the process that should go first; waiting times add up | 3,934,454 |
| `uniprocessor` | alarms with intervals up to 3; MLFQ with 3 slots and 3 queues; lottery with 3 slots and up to 2 tickets | exact resumption, alarms recur; nobody starves; `totaltickets` is exact and the CPU does not idle | 267,674 |
| `lottery_smp` | the lottery on 2 CPUs | TotalIsSum is violated: see section 6 | |
| `devices` | Virtio: 3 processes, 7 descriptors, counters modulo 7. Interrupts: 2 threads, 2 CPUs, ticks modulo 3 | descriptors are accounted for, the device touches only buffers of requests under way, data is transferred, no sleeper is forgotten; locks, `noff` and interrupt flags stay consistent; `sleep(n)` sleeps long enough | 1,788,278 |
| `bcache_safety` | 2 processes, 3 buffers, 4 blocks, 1 pin | the cache implements `BlockStore`, counts are exact, no panic | 72,429 |
| `fs_safety` | 2 processes, 3 inodes, 4 blocks, `/a`, `/b`, `/a/b` | references are exact, nothing reachable is freed, blocks and links are accounted for, `iput` never blocks, no deadlock | 565,201 |
| `sequential` | programs of up to 3 headers and 18 pages; 2 files on 17 blocks with 3 words; a heap of 7 units; patterns of up to 4 and texts of up to 4 characters; commands of up to 3 levels | `exec` succeeds or changes nothing, and its image is the program's; bitmap, contents and reservations are exact; the heap is tiled; `grep` selects lines that match; the parser inverts the printed command | 129,003 |
| `terminal` | 1 reader or 2 writers and a user who types, rings of 2 bytes, counters modulo 4; 36 sessions of the shell | the console implements `LineEditor` and its output `Fifo`; nobody is forgotten; descriptors are counted and none leaks; sessions have the effect of their lines, and end | 381,961 |

### Why the bounds are enough

- Log: two calls share a transaction and one of them waits for room; a transaction
  has two blocks, so that installation can be cut in the middle; `OpBlocks` is
  less than `MAXOPBLOCKS` as it is for every call of the kernel; there is a block
  nobody writes and a value to overwrite with.
- `NLOG` is `LOGSIZE + 1` there. `mkfs` makes the two equal, which needs an
  `OpBlocks` two below `MAXOPBLOCKS`; the proof covers both (section 5).
- Cow: three processes share one page (parent, child, grandchild); four pages are
  too few for two address spaces and a third one being copied, so that allocation
  fails at every place it can.
- Proc: init, a parent and a child are the roles of `reparent` and `wait`; two
  CPUs put the parent's `wait` and the child's last steps side by side.
- Pipe: a two-byte ring with counters modulo four is full, empty and wrapped
  within a few steps; with three processes two of them sleep on the same channel.
- Lottery and MLFQ: three slots with tickets 0 to 2 contain a process nobody can
  draw and ties; three queues have a first, a middle and a last one.
- FCFS and PBS: three slots give a scan a best process, a better one, and one that
  changes behind its back. `MaxTick` stops the clock and `MaxSched` the number of
  times a process gives up the CPU. On two CPUs the three slots differ in priority
  and in times scheduled, which need no tick; two slots add the start times. On one
  CPU three slots have both, and with two ticks a process waits for one, runs for
  one, or is created between them.
- Intr: two CPUs and two processes are enough for a thread to sleep on one CPU and
  wake on the other, and for a handler to find its lock taken by either CPU. The
  clock wraps after three ticks and `sleep(2)` is woken before its time. Sleeping
  and requests are separate loads.
- Virtio: seven descriptors serve two requests and leave one over, so that a third
  request takes some, fails and gives them back.
- Bcache: three buffers for four blocks are recycled all the time; the premise
  of NoPanic (processes plus pins fit in the cache) holds with equality. It is an
  assumption on the load, which the constants of the kernel do not give: it has `NBUF` =
  `LOGSIZE` = 30 buffers, as many as the log may pin. NoPanic says nothing of a log
  that full.
- Fs: three inodes and two free blocks are used up by a directory with a file in
  it, so that each step of `create` can fail; `/a` can be removed while another
  process is on its way to `/a/b`. `MaxLink` stops `link()` from counting for ever
  (section 6).
- Exec: page tables of four entries need pages on all three levels; eighteen pages are
  enough for two images or not, depending on what the others hold; the programs
  include one rejected at each test, with an address that wraps or is just too large;
  argument lists fill the stack page, exceed it
  by a word, or have a string of a whole page.
- Inode: two direct blocks and an indirect one of three; two bitmap blocks; a write
  that starts in the direct blocks and ends in the indirect one; a disk that fills
  up; copies that fail in each block. `MAXOPBLOCKS` 6 lets `filewrite` take one
  block at a time, as tight for its formula as the 10 of the kernel.
- Umalloc, Grep, ShParse: all heaps of seven units; a buffer of four characters that
  a line fills; patterns with each operator, alone and combined; each constructor
  of commands under each other, printed with the parentheses it needs.
- Console: rings of two with counters modulo four wrap at once; one reader is enough
  as the kernel gives lines to whoever reads; two writers fill the output ring.
- Shell: pipelines of three, blocks, redirections, `cd` and `cat` of the terminal with
  ample tables, where the result is compared with the meaning of the line (after `cd d`
  the command `e` is not found and `/e` is); and every combination of few processes,
  files and descriptors, where some call fails, among them two calls of `pipe()` that
  compete for the last two files.

Symmetry is used for processes, pages, blocks and inodes that are
interchangeable, and only in runs without liveness properties. `CHECK_DEADLOCK
FALSE` is set for Cow (all processes may exit or the kernel may stop), Pipe (all
ends may be closed), the sequential code (a program ends) and the terminal (the user
stops typing). In the others something can always happen.

### Fairness

Liveness is checked under fairness that the code's scheduling gives:

- Log: weak fairness of the commit steps (the disk answers) and of `end_op` (calls
  end). Crashes are never owed. `begin_op` itself has no fairness: the code
  promises no order among its callers.
- Proc: every CPU goes on executing and the timer makes each process yield, hence
  weak fairness of `sched`, `resume` and `yield`. The round-robin scan comes by
  every slot each time a CPU falls idle, hence strong fairness of `scheduler` for
  each process. Strong fairness of the kernel steps of a process says more than the
  code: a spin lock that is free again and again is taken in the end. The test-and-
  set lock of `spinlock.c` promises no order; `CallsEnd` depends on this assumption.
- Mlfq: strong fairness of the scan, the trap and the timer of each CPU and of
  `clockintr`, since each is disabled for a while by locks or by interrupts being
  off. On the one CPU of the run no lock is contended.
- Lottery: weak fairness of the scheduler loop. No fairness is assumed of the
  random draw; `LotteryGoesOn` is about idling, not about a particular process.
- Alarm: the timer keeps ticking.
- Console: weak fairness of each step of a handler that has begun, of a reader and of
  the transmitter; strong fairness of the poll in `uartputc_sync`, because the
  transmitter stays empty for much longer than a poll takes. Typing is owed nothing,
  and `NobodyForgotten` needs it to stop: each key is echoed ahead of the buffered
  output, so continuous typing can hold that up (`uart.c` line 179).
- Shell: while a process can run, some process does. No fairness between processes.

## 4. What the properties say

Each property has a comment that names the code it is about. The ones to start
with are the six refinements, because they state a component's whole contract:
`AtomicSpec` (Log implements AtomicDisk), `CowIsEager` (Cow implements EagerFork),
`CacheIsStore` (Bcache implements BlockStore), `PipeIsFifo` (Pipe implements Fifo),
`ConsoleIsEditor` (Console implements LineEditor) and `OutputIsFifo` (its output
implements Fifo). Four properties compare an algorithm with a definition of what
it is for: `ExecImage`, `GrepSelects`, `ParsesAsTyped` and `RunsAsTyped`, the last
over every interleaving of the processes of a command.

Next come the exact counts (`RefCountExact`, `RefsExact`, `AllocationExact`,
`BuffersSound`, `RequestsServed`, `InodeSound`, `ExecSound`, `DescriptorsRight`,
`UmallocTiled`, `WaitTimeCounts`), which fail on any leak or double release on any
path, failing paths included; and the sleeper properties (`NobodyAbandoned`,
`PipeSound`, `BuffersSound`, `RequestsServed`, `NobodyForgotten`, `SleeperWakes`),
which fail on any wakeup that is missing or misplaced.

Deadlock of inode locks is an invariant, part of `NobodyStuck`: no set of processes
each waits for a lock held within the set. `LocksAndInterrupts` has the same for
spin locks. TLC's own deadlock check would not see either, as another process can
always do something.

`PicksBest` excuses a process that became RUNNABLE, or changed priority, after a scan
passed it: the scan holds no lock on it, and the next scan sees it.

## 5. Proofs

| Theorem | Statement |
|---|---|
| `LogProofs!LogInvariant` | `Spec => []IInv`, the inductive invariant |
| `LogProofs!LogAgrees` | `Spec => []LogInv` |
| `LogProofs!TypeCorrect` | `Spec => []TypeOK` |
| `LogProofs!Pinning` | a block is pinned exactly while it is logged and not installed |
| `LogProofs!NoLostWakeup` | whoever sleeps in `begin_op()` has somebody bound to wake them |
| `LogProofs!NeverTooBig` | `Spec => []NoPanic` if `OpBlocks < MAXOPBLOCKS` and `LOGSIZE + 1 < NLOG + (MAXOPBLOCKS - OpBlocks)` |
| `LogProofs!WriteAheadHolds` | `Spec => WriteAhead` |
| `LogProofs!CrashAtomic` | `Spec => AtomicSpec`: the refinement of AtomicDisk |
| `LogProofs!Durability` | `Spec => []QuiescentIsDurable` |
| `BcacheProofs!BuffersAreSound` | `Spec => []BuffersSound` |
| `BcacheProofs!CacheIsTransparent` | `Spec => CacheIsStore`: the refinement of BlockStore |
| `VirtioProofs!DiskServes` | `Spec => []RequestsServed`, of Virtio |
| `ConsoleProofs!ConsoleEdits` | `Spec => ConsoleIsEditor`: the refinement of LineEditor |
| `ConsoleProofs!ConsoleWakes` | `Spec => [](TypeOK /\ ConsoleSleepers)`, the safety half of `NobodyForgotten` |
| `CowProofs!CountsAreExact` | `Spec => []RefCountExact` |
| `CowProofs!ForksLikeCopying` | `Spec => CowIsEager` if `CopyoutToText = FALSE`: the refinement of EagerFork |
| `ProcProofs!StackIsOwned` | `Spec => []StackOwned` |
| `ProcProofs!NobodyIsAbandoned` | `Spec => []NobodyAbandoned` |
| `ProcProofs!NeverReentered` | `Spec => []NoReentry`, of Alarm, if `HandlerRearms = FALSE` |
| `ProcProofs!ResumeIsExact` | `Spec => ResumesExactly`, of Alarm, if `HandlerRearms = FALSE` |
| `ProcProofs!PipeIsSound` | `Spec => []PipeSound`, of Pipe |
| `ProcProofs!PipeQueues` | `Spec => PipeIsFifo`, of Pipe: the refinement of Fifo |
| `SchedulerProofs!RunsOnOneCpu` | `Spec => []OneCpu`, of Mlfq |
| `SchedulerProofs!BestIsPicked` | `Spec => []PicksBest`, of NonPreemptive, if priorities are integers |
| `SchedulerProofs!WaitIsCounted` | `Spec => []WaitTimeCounts`, of NonPreemptive, if there is one CPU |

They hold for every value of the constants that the named assumption of the
module allows: for the log every finite set of processes and blocks, every set of
values and all sizes with `0 < OpBlocks <= MAXOPBLOCKS <= LOGSIZE <= NLOG`
(`LogAssumption`); for the cache every finite set of processes, any blocks and any
number of buffers; for Cow every finite set of processes, any pages and any size
of an address space; for pipe, disk and console any ring size and any width of the
counters that is a multiple of it (`PipeAssumption`, `VirtioAssumption`,
`ConsoleAssumption`: the 2^32 and 2^16 of the code are, and with another width the
counters and the places in the ring would part at the first overflow; the console has
at least one byte to print and `none` is no process); for the others any number of CPUs, process slots,
queues and processes.

The inductive invariants were checked by TLC on the instances of section 3 first.
A leaf that takes no arithmetic and little about functions names the prover that finds
it (`Zenon`): the translation of a leaf for the SMT solver takes most of the time of a
proof run, and grows with the module.

**The log.** `IInv` is `TypeOK` and the seven parts of `LogInv`:

- `Reservation`: what is logged plus what the calls under way may still log fits in
  `LOGSIZE`. `NoPanic` alone is not inductive, as `begin_op()` looks at
  `outstanding`, not at the calls. The unused reservations are the set `Token` of
  pairs of a process and a number; each action adds or removes pairs, and its
  cardinality gives the inequality that `log_write()` needs.
- `PhaseOrder`: where in its commit or recovery the log is, and what header, list
  and `tail` are at that point. It is what makes `head` on the disk either empty or
  equal to the list being installed.
- `CacheClean`: an unpinned buffer agrees with the disk, so that recycling it loses
  nothing.
- `Logged`, `Installed`: log blocks equal the cache once written, home blocks equal
  the log once installed.
- `PinnedUntilInstalled` and `SleeperHasWaker`, which are of interest themselves.

The invariant proof has a lemma per part with a step per action. For crash
atomicity, `DurableKept` shows that the image recovery would rebuild changes in no
step but `write_head`. Torn home blocks do not matter because `WriteAhead` has the
header name them; in `write_head` that image becomes the volatile one by `Logged`.
The other lemmas do the same for the volatile image, and the theorem puts the cases
together.

The second premise of `NeverTooBig` is where `mkfs` comes in (`mkfs/mkfs.c` line 25):
it reserves `LOGSIZE` blocks, of which the header takes one, so that `log_write()`
(`log.c` line 220) panics at `LOGSIZE - 1` entries. The slack between what calls
write and what they reserve has to make up for it. With `MAXOPBLOCKS` 10 and `NLOG` =
`LOGSIZE` = 30 the premises amount to `OpBlocks <= 8`. The largest call is
`filewrite()`, whose formula (`file.c` line 155) is tight if every new block is in
another bitmap block, as `InodeSound` shows on a disk with two; the disk that `mkfs`
makes has one, which leaves four data blocks, the inode, the indirect block and the
bitmap, seven in all.

**The buffer cache.** `BcacheInv` is `BuffersSound` with `ProcOK` and `BufOK`. The
counts alone do not tell why `bget()` may recycle a buffer with `refcnt` 0: `ProcOK`
says that whoever is between `bget()` and `brelse()` has the buffer of its block,
locked where it should be; `BufOK` says that no block has two buffers and that one
which is not pinned agrees with the disk, so that recycling it loses nothing. That
`bget()` finds a buffer is a count: users and pins are fewer than `NBUF`. The one
it takes is the last unused one of the LRU list, which exists because finite sets have
greatest elements (`WFMin` of the library, applied to sets ordered by inclusion).
For the refinement, `contents` changes in no step but the store of a holder.

**The disk driver.** `VirtioInv` follows a request from `virtio_disk_rw()` to the
return: it has three descriptors of its own (`Chains`), descriptors are free or in
one request (`Counted`), its head is in the available ring, in flight or in the used
ring, in one of them only, while `b->disk` is set (`Requests`), and it is done when
the handler sees it (`Results`, `Justified`). `IsRing` says that no head is
twice in a ring; it follows that a ring never holds more than `NUM / 3` heads, so
that a new entry overwrites none (`RingHasRoom`, an injection from the entries to the
requests). `Placed`, `RingPut` and `RingTake` are about counters that wrap and places
modulo `NUM`; the pipe rests on the same facts about remainders (`ModMod`, `ModApart`).

**The console.** `ConsoleInv` is `Held` and `Called`. `Held` has `r`, `w` and `e` in
this order around the ring, at most `INPUT_BUF_SIZE` apart (`InOrder`). The refinement maps the characters from `w` to
`e` to the line being typed and those from `r` to `w` to what may be read. `TextIsCut`
unrolls the ring: such a stretch is a piece of an endless tape, wherever the uints are
about to overflow, so that one lemma per key (`TextInsert`, `TextErase`, `TextEmpty`,
`TextDeliver`) says what it does to the two texts. A new character overwrites none
because `InOrder` keeps the place of `e` apart from the others (`Apart`). `Called`
says who calls whom: a reader that sleeps has nothing to read, as only `w` changing
makes something and that wakes it; a writer sleeps while the transmit ring is full; and
while that is not empty and nobody has `uart_tx_lock`, the device has a byte to send or
an interrupt is on its way. It is `ConsoleSleepers`, the part of `NobodyForgotten` which
is no liveness, in a form that a step preserves.

**Copy-on-write memory.** `RefCountExact` speaks of pages and places that hold them.
To be inductive it needs to know which places a half-done loop has reached: `Jobs`
(what each system call works on, and that no two work on one page table), `Maps` (which
PTEs are valid at each point of `uvmcopy()`, `uvmalloc()` and `uvmunmap()`),
`Locals` (which local variables hold a page). `Private` is the heart of the
refinement: a page that is mapped writable, or has just been allocated, is in one
place only. Hence a store is seen by one process. `ForksLikeCopying` shows that the
last iteration of `uvmcopy()` is EagerFork's fork, the start of a shrinking `sbrk()`
is its shrinking, the store after the fault its store, and that all else cannot be
seen. `copyout()` to a text page, which is read-only and may be shared, is the
exception that the assumption names.

**Processes.** `WaitInv` has two halves. `StackInv` says who may touch a kernel stack:
a process is on at most one CPU (`Apart`), the CPU of one that is leaving or entering
`swtch()` holds its lock (`Switched`), and the child of a `fork()` under way belongs
to that call (`Embryo`). `StackOwned` is not inductive without the locks: `wait()`
frees a zombie because it could take `p->lock`, which the CPU that is still on the
stack would hold. The other half follows the search in `wait()`: one process has
`wait_lock` (`OneHolder`), parents are alive (`Family`), a process sleeps in `wait()`
only on its own address (`SleepsOnItself`), what a scan has passed were no zombies
(`Looked`), and a zombie's parent is awake unless the `exit()` that made it is still
walking towards it in `wakeup()` (`Told`, `Watched`).

**Pipes.** For `PipeSound`, `PipeInv` relates the open ends to the files of the processes (`Files`), the
sleepers to the state of the ring (`Sleepers`) and the emptiness of the ring to its
counters (`Readable`). A process inside a call has the file of its end, so that the
last close comes after it. For `PipeIsFifo`, the bytes from `nread` to `nwrite` are the
queue (`Filled`): a byte put in the ring is in a place of its own because fewer than
`PIPESIZE` are, also after an overflow.

**Schedulers.** For MLFQ, the best process of a scan is RUNNABLE and its lock is kept by the scan
(`Kept`), so that no other CPU dispatches it; a CPU that scans has no process, and
that of one that does not is RUNNING (`Current`).
For FCFS and PBS, `RankInv` says of every scan that no RUNNABLE process it has passed
goes before its best one, but for those that changed behind its back (`Ranked`). It
needs that the best one is locked by the scan (`BestKept`): its own rank cannot change,
and that of any other process that changes puts it among the excused. `TimesInv` says
that every tick since the creation of a process found it off the CPU, has been charged
to it, or is about to be by the walk under way (`Accounted`). With a second CPU a
process can start or stop in the middle of the walk and this is false (section 6).

**Alarms.** While the handler runs `p->sigalarm` is 0, and `p->trapcopy` is what it
interrupted. A handler that sets the alarm breaks the first half, which is why the
theorems assume that it does not.

**Only model-checked.**

- Liveness, which is out of the prover's reach under fairness, as is `ENABLED`:
  `SleeperWakes`, `CallsEnd`, `AlarmGoesOn`, `MlfqNoStarvation`, `LotteryGoesOn`,
  `NobodyForgotten` (of which `ConsoleWakes` proves the safety half), `SessionEnds`.
- `LocksAndInterrupts` and `SleepsEnough`. A context of Intr is a list of what it has
  to do, built by folds; what such a list contains needs induction over data, which
  the provers cannot do.
- `ExecImage`, `ExecSound`, `InodeSound`, `UmallocTiled`, `GrepSelects`,
  `ParsesAsTyped`, `RunsAsTyped`, `DescriptorsRight`, for the same reason: `PageTable`,
  `Mkfs`, `Inode`, `Umalloc`, `Grep`, `ShParse` and `Shell` have RECURSIVE operators,
  and what these compute is checked on bounded inputs.
- `RefsExact`, `AllocationExact` and `NobodyStuck` of Fs. Nothing in them is out of
  reach. Their invariants would have to say where each of some thirty kinds of steps
  is in its call.
- `OutputIsFifo` of Console. The bytes of `write()` among those in the transmitter are
  found by `SelectSeq`, a recursive definition of the library, and what it gives for
  every sequence needs induction.
- `TotalIsSum` of the lottery, a sum over the slots.

## 6. Where code and documentation disagree

One disagreement is kept as a run. `lottery_smp`: on two CPUs `totaltickets -=
p->tickets` in `scheduler()` and the additions elsewhere are done under the locks
of different processes. Two of them overlap, one update is lost, and the total
stays wrong for good. `src/README.md` line 62 says: "Every time a process state is
set to `RUNNABLE` (in `fork`, `userinit` and `yield`) the number of tickets of that
process are added to `totaltickets`." The same property holds on one CPU.

Others came up in the models and are described here for a reader of the code:

- `copyout()` with no page left marks the process killed and then copies to address
  0 (`vm.c` lines 384-389), though line 355 says "Return 0 on success, -1 on error".
  In Cow the process is then at `panic`.
- `copyout()` does not look at `PTE_W`. After a fork a text page is shared, so a
  `read()` into it would change both processes. `CowIsEager` fails with
  `CopyoutToText = TRUE`.
- The stack guard test of `usertrap()` (`trap.c` line 73) uses `<=`, so a store to
  the first byte of a shared stack page kills the process instead of copying the
  page, which `src/README.md` line 144 says happens "whenever there is a page fault
  and page flags contain `PTE_C`".
- A `sigalarm(n)` in a handler sets `p->sigalarm` again, and with it handlers nest,
  although `user/sigalarmtest.c` line 105 "tests that kernel does not allow reentrant
  alarm calls". `NoReentry` fails with `HandlerRearms = TRUE`.
- `exec()` keeps the alarm of the program it replaces.
- `kill()` compares pids in slots of any state, and pid 0 is that of unused ones.
- `create()` and `link()` lock a directory that `nameiparent()` returned unlocked
  and do not look whether it was removed meanwhile. The name they make goes with
  the directory, and the file keeps a link nobody can remove. Repeated, `nlink`, a
  `short`, grows without bound. TLC gets there in a trace of 26 states with two
  processes: one is between `nameiparent("/a/b")` and `ilock(dp)` when the other
  removes `/a`. `LinksCounted`, part of `AllocationExact`, says that no other step
  lets links and names part.
- A crash while an open file has no name left leaves its inode allocated: recovery
  looks for no such inode.
- A killed writer leaves `pipewrite()` without waking the readers of the bytes it
  has written, so that they sleep until the next event; `SleepersJustified` has
  the exception.
- With PBS, `tickrng` is to be the "number of ticks while the process was in running
  or runnable state" (`src/README.md` line 82), but `scheduler()` sets `tickls` anew
  at each dispatch, so that time spent RUNNABLE does not count, and `yield()` sets
  `tickrng` to the clock (`proc.c` line 823).
- On two CPUs the times of `waitx()` do not add up: a process created after `ticks++`
  (`trap.c` line 286) and before `clockintr()` reaches its slot is charged a tick that
  is not in its lifetime, and the unsigned waiting time wraps. `WaitTimeCounts` holds
  on one CPU. The waiting time includes time asleep.
- `mkfs` rounds the size of the root directory up to the next block even if its
  entries end with one (`mkfs/mkfs.c` line 166). The size then covers a block that does
  not exist, and `readi()` allocates it outside of a transaction.
- `writei()` whose copy from user memory fails in a block has changed the cached
  block without `log_write()` (`fs.c` line 522). Inode lets either version survive.
- `init` exits when `fork()` fails (`user/init.c` line 29), at which the kernel panics.
- `>>` opens the file at offset 0 and overwrites its beginning (`user/sh.c` line 392);
  `a > f > g` writes to `f`; `cd x` at the end of input without a newline loses its
  last character. `RunsAsTyped` has the first as it is.
- `grep` skips a last line without newline and stops at a line longer than its
  buffer (`user/grep.c` line 17). `LinesSelected` says so.

## 7. Not modelled

- `fstat`, `mknod`, "." and ".." in paths, and relative paths of the file calls;
  `chdir` is in Shell, for one level.
- The kernel page table, a list of mappings made once at boot; `procdump`.
- Boot code, the set-up of the interrupt controller, register save and restore in
  assembly, `string.c`, `printf.c` and the formatting of `trace`: sequential code
  without a protocol. `ramdisk.c` is not linked.
- Test programs (`usertests.c` but for `pgbug`, `grind.c` and others) and small utilities of `user/`:
  sequences of calls with the effects the modules describe. Their choices are the
  nondeterminism of the models, and their assertions served as statements of intent.
- A composition of Log with Bcache and Virtio in one state space: the contracts
  named in section 1 stand in for it.
- The order in which `begin_op()` callers get in: a caller that is woken tests again
  and may find the room taken. The code promises nothing better.

## 8. Plan

1. Proofs of `RefsExact` and `AllocationExact` of Fs.
2. A composition of Log and Bcache, in which Log's cache is the real one.
3. Relative paths and "..", which take a lock of the parent from below.
