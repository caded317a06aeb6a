-------------------------------- MODULE Exec --------------------------------
(***************************************************************************)
(* The memory of one process: exec() (kernel/exec.c), sys_exec()           *)
(* (kernel/sysfile.c), sbrk() and the end of the process, over the page    *)
(* tables of PageTable, while the other processes take and return pages so *)
(* that any kalloc() may be the one that fails.  After a failed kalloc()   *)
(* these calls only free, so the number of free pages at their start tells *)
(* which one fails, and a call is one step.                                *)
(*                                                                         *)
(* A program is its program headers and the words of its segments.  The    *)
(* headers may hold any numbers, which are added modulo ADDR; the sizes of *)
(* processes are far below it.  The inode of the program and the           *)
(* transaction exec() reads it in are left out.                            *)
(***************************************************************************)
EXTENDS PageTable, SequencesExt

CONSTANTS
    ADDR,           \* addresses of words: 2^64
    NPAGE,          \* physical pages
    MAXARG,         \* entries of argv[] and ustack[]
    ALIGN,          \* alignment of the user stack pointer
    Program,        \* programs: [elf, phs]
    Args,           \* argument lists: sequences of strings of words
    Grow,           \* arguments of sbrk()
    MaxSz           \* bound on the size of the process

ASSUME ExecAssumption ==
    /\ {NPAGE, MAXARG, ALIGN, MaxSz} \subseteq Nat \ {0}
    /\ ADDR \in Nat /\ ADDR > MAXVA * PGSIZE
    /\ Grow \subseteq Int /\ Pages(MaxSz) < TRAPFRAME

VARIABLES
    mem,            \* memory, and the page table and size of the process
    others,         \* pages of other processes
    live,           \* the process exists
    image,          \* program and arguments of the last exec()
    sp,             \* p->trapframe->sp after it
    call            \* last system call, and whether it succeeded

vars == <<mem, others, live, image, sp, call>>

none == [prog |-> [elf |-> FALSE, phs |-> <<>>], args |-> <<>>]

idle == [op |-> "none", ok |-> TRUE]

TypeOK ==
    /\ mem.free \in 0..NPAGE /\ others \in 0..NPAGE
    /\ mem.sz \in 0..(MaxSz + 2 * PGSIZE)
    /\ live \in BOOLEAN
    /\ image = none \/ image \in [prog : Program, args : Args]
    /\ call \in [op : {"none", "exec", "sbrk"}, ok : BOOLEAN]

\* Pages of p->trapframe and p->trapcopy.
Frames == 2

\* userinit(): the page of initcode.
Init ==
    /\ mem = uvmalloc(proc_pagetable(NoMemory(NPAGE - Frames)), PGSIZE, {"W", "X"})
    /\ others = 0
    /\ live = TRUE
    /\ image = none
    /\ sp = PGSIZE
    /\ call = idle
-----------------------------------------------------------------------------
\* The file may end before the segment does.
loadseg(m, ph) ==
    CASE \E v \in Span(ph.vaddr, ph.filesz) : ~walkaddr(m, v) -> Panic(m)
      [] Len(ph.data) < ph.filesz -> Fail(m)
      [] OTHER -> put(m, ph.vaddr, SubSeq(ph.data, 1, ph.filesz))

\* The loop over the program headers.
load(m, ph) ==
    LET end == (ph.vaddr + ph.memsz) % ADDR
        rejected == ph.memsz < ph.filesz \/ end < ph.vaddr \/ ph.vaddr % PGSIZE # 0
    IN  CASE ~m.ok \/ ph.type = "other" -> m
          [] m.ok /\ (ph.type = "cut" \/ (ph.type = "load" /\ rejected)) -> Fail(m)
          [] OTHER -> Then(uvmalloc(m, end, ph.perm), LAMBDA a : loadseg(a, ph))

load_segments(m, phs) == FoldLeft(load, m, phs)

\* Two more pages; the lower one guards the stack.
stack(m) ==
    LET top == PGROUNDUP(m.sz) + 2 * PGSIZE
    IN  Then(uvmalloc([m EXCEPT !.sz = PGROUNDUP(@)], top, {"W"}),
             LAMBDA a : uvmclear(a, Pages(top) - 2))

align(a) == a - (a % ALIGN)

\* Push one argument string; x is the memory, sp and ustack[] so far.
push_arg(x, s) ==
    LET to == align(x.sp - Len(s) - 1)
        m == copyout(x.m, to, s \o <<0>>)
    IN  IF ~x.m.ok \/ Len(x.ustack) >= MAXARG \/ to < x.m.sz - PGSIZE \/ ~m.ok
          THEN [x EXCEPT !.m = Fail(@)]
          ELSE [m |-> m, sp |-> to, ustack |-> Append(x.ustack, to)]

\* Then the array of pointers; its 0 must be within ustack[].
push_ustack(x) ==
    LET to == align(x.sp - Len(x.ustack) - 1)
        a == IF x.m.ok /\ Len(x.ustack) >= MAXARG THEN Panic(x.m) ELSE x.m
    IN  IF ~x.m.ok \/ to < x.m.sz - PGSIZE
          THEN [x EXCEPT !.m = Fail(a)]
          ELSE [x EXCEPT !.m = copyout(a, to, x.ustack \o <<0>>), !.sp = to]

push_args(m, args) ==
    push_ustack(FoldLeft(push_arg, [m |-> m, sp |-> m.sz, ustack |-> <<>>], args))

\* exec() frees the page table it was building, if there is one.
exec_bad_leaks(m) == Fail(m)
exec_bad(m) == Fail(IF m.tabs = {} THEN m ELSE proc_freepagetable(m))

\* exec(): the new memory and stack pointer; old is the memory before.
exec(old, prog, args) ==
    LET load_all(m) == load_segments(m, prog.phs)
        failed(m) == [m |-> [old EXCEPT !.free = exec_bad(m).free, !.ok = FALSE,
                                        !.panic = exec_bad(m).panic],
                      sp |-> 0]
        freed(m) == proc_freepagetable([old EXCEPT !.free = m.free])
        committed(x) == [m |-> [x.m EXCEPT !.free = freed(x.m).free,
                                           !.panic = @ \/ freed(x.m).panic],
                         sp |-> x.sp]
        done(x) == IF x.m.ok THEN committed(x) ELSE failed(x.m)
    IN  IF ~prog.elf THEN [m |-> Fail(old), sp |-> 0]
        ELSE done(push_args(
               Then(Then(proc_pagetable(NoMemory(old.free)), load_all), stack), args))

\* sys_exec() has room for the arguments and the 0 at their end.
argv_fits(n) == n < MAXARG

\* sys_exec() copies each argument into a page of its own.
sys_exec(prog, args) ==
    LET n == Len(args)
        fetched == /\ argv_fits(n) /\ n <= mem.free
                   /\ \A i \in 1..n : Len(args[i]) < PGSIZE
        r == exec([mem EXCEPT !.free = @ - n], prog, args)
        ok == fetched /\ r.m.ok
    IN  /\ live
        /\ mem' = IF fetched THEN [r.m EXCEPT !.free = @ + n, !.ok = TRUE] ELSE mem
        /\ call' = [op |-> "exec", ok |-> ok]
        /\ image' = IF ok THEN [prog |-> prog, args |-> args] ELSE image
        /\ sp' = IF ok THEN r.sp ELSE sp
        /\ UNCHANGED <<others, live>>

\* growproc(); a size below 0 wraps around to one above the present size.
growproc(n) ==
    LET w == uvmalloc(mem, mem.sz + n, {"W"})
    IN  CASE n > 0 -> w
          [] n < 0 /\ mem.sz + n >= 0 -> uvmdealloc(mem, mem.sz + n)
          [] OTHER -> mem

sys_sbrk(n) ==
    /\ live
    /\ mem.sz + n <= MaxSz
    /\ mem' = [growproc(n) EXCEPT !.ok = TRUE]
    /\ call' = [op |-> "sbrk", ok |-> growproc(n).ok]
    /\ UNCHANGED <<others, live, image, sp>>

\* exit() and the parent's wait(): freeproc().
freeproc ==
    /\ live
    /\ live' = FALSE
    /\ mem' = [proc_freepagetable(mem) EXCEPT !.free = @ + Frames]
    /\ image' = none /\ sp' = 0
    /\ call' = idle
    /\ UNCHANGED others

\* kalloc() and kfree() by the other processes.
others_use(k) ==
    /\ others' = k
    /\ mem' = [mem EXCEPT !.free = @ + others - k]
    /\ call' = idle
    /\ UNCHANGED <<live, image, sp>>

Next ==
    \/ \E prog \in Program, args \in Args : sys_exec(prog, args)
    \/ \E n \in Grow : sys_sbrk(n)
    \/ freeproc
    \/ \E k \in 0..(mem.free + others) : others_use(k)

Spec == Init /\ [][Next]_vars
-----------------------------------------------------------------------------
(***************************************************************************)
(* Properties.                                                             *)
(***************************************************************************)
\* Every page is free, in use by another process, or in use by this one
\* exactly once: no failure of kalloc(), of the file or of the arguments
\* loses a page or frees one twice, and the pages below p->sz, the trapframe
\* and the trampoline are what is mapped.
PagesAccounted ==
    LET user == 0..(Pages(mem.sz) - 1)
    IN  /\ DOMAIN mem.leaf = IF live THEN user \cup {TRAPFRAME, TRAMPOLINE} ELSE {}
        /\ mem.free + others + Cardinality(mem.tabs) + Cardinality(user)
             + (IF live THEN Frames ELSE 0) = NPAGE

\* The panics of vm.c ("remap", "not mapped", "freewalk: leaf", ...) and of
\* loadseg() are never reached, and ustack[] is not overrun.
VmNoPanic == ~mem.panic

\* exec() that fails leaves the old program as it was: the "bad" label frees
\* what was built, wherever it is reached from.
ExecAllOrNothing ==
    [][call'.op = "exec" /\ ~call'.ok => UNCHANGED <<mem, image, sp>>]_vars

\* The segments of a program that are loaded.
Loaded(prog) ==
    {prog.phs[i] : i \in {j \in DOMAIN prog.phs : prog.phs[j].type = "load"}}

\* Right after exec() the memory is the program's: its segments, 0 where the
\* file has no words, the guard page below the stack out of reach, and main()
\* finds its arguments through the array that sp points to.
ImageIsProgram ==
    call = [op |-> "exec", ok |-> TRUE] =>
        LET end == {PGROUNDUP(ph.vaddr + ph.memsz) : ph \in Loaded(image.prog)}
            top == CHOOSE e \in end \cup {0} : \A f \in end : f <= e
            n == Len(image.args)
            argv == copyin(mem, sp, n + 1)
            from(a) == {ph \in Loaded(image.prog) :
                          a \in ph.vaddr..(ph.vaddr + ph.filesz - 1)}
        IN  /\ mem.sz = top + 2 * PGSIZE
            /\ \A a \in 0..(top - 1) :
                 IF from(a) = {} THEN word(mem, a) = 0
                 ELSE \E ph \in from(a) : word(mem, a) = ph.data[a - ph.vaddr + 1]
            /\ ~walkaddr(mem, Pages(top)) /\ walkaddr(mem, Pages(top) + 1)
            /\ argv[n + 1] = 0
            /\ \A i \in 1..n : copyinstr(mem, argv[i], PGSIZE) = image.args[i]

\* copyinstr() returns the string at a if, and only if, its 0 is among the
\* first max words and every word up to it is in memory the user may read.
StringFetched ==
    \A a \in 0..(mem.sz + 1) : \A max \in {1, PGSIZE - 1, PGSIZE + 1} :
        LET readable(k) == walkaddr(mem, (a + k) \div PGSIZE)
            ends == {k \in 0..(max - 1) :
                       /\ \A j \in 0..k : readable(j)
                       /\ word(mem, a + k) = 0
                       /\ \A j \in 0..(k - 1) : word(mem, a + j) # 0}
        IN  copyinstr(mem, a, max) =
              IF ends = {} THEN bad
              ELSE [i \in 1..(CHOOSE k \in ends : TRUE) |-> word(mem, a + i - 1)]
=============================================================================
