-------------------------------- MODULE Cow --------------------------------
(***************************************************************************)
(* Physical pages and user memory: the page allocator with its reference   *)
(* counts (kernel/kalloc.c), copy-on-write fork, sbrk, copyout and         *)
(* unmapping (kernel/vm.c), and the page-fault part of usertrap()          *)
(* (kernel/trap.c), on several CPUs at once.                               *)
(*                                                                         *)
(* A step is a critical section of kmem.lock or of rclk[], or a run of     *)
(* code that only touches memory private to the process.  A process        *)
(* changes its own page table, that of the child it is creating, and that  *)
(* of the zombie it is reaping.                                            *)
(***************************************************************************)
EXTENDS Integers, FiniteSets

CONSTANTS
    Proc,           \* slots of the process table
    Page,           \* physical pages that hold user memory
    NPage,          \* virtual pages of an address space
    Text,           \* pages exec() maps without PTE_W
    StackPage,      \* the page p->trapframe->sp points into
    Val,            \* contents a program gives a page
    Zero,           \* contents of a page cleared by memset(mem, 0, PGSIZE)
    Junk,           \* contents of a page filled by kalloc() or kfree()
    None,           \* no page
    CopyoutToText   \* system calls are handed buffers in Text pages

VA == 0..(NPage - 1)

ASSUME CowAssumption ==
    /\ IsFiniteSet(Proc)
    /\ NPage \in Nat \ {0}
    /\ Text \subseteq VA
    /\ None \notin Page
    /\ \A n \in 0..NPage : None \notin [0..(n - 1) -> Val]
    /\ Zero \in Val
    /\ Junk \notin Val
    /\ CopyoutToText \in BOOLEAN

VARIABLES
    freelist,       \* kmem.freelist, its order left out
    pgrc,           \* reference count of each page
    mem,            \* contents of each page
    pa,             \* physical page in each leaf PTE, None if not PTE_V
    perm,           \* "W": PTE_W, "C": PTE_C, "R": neither
    sz,             \* p->sz in pages
    pc,             \* where each process is
    job,            \* what its system call or page fault is doing
    new,            \* the page kalloc() returned
    old,            \* the page kfree() is about to be called on
    killed          \* why setkilled() was called

vars == <<freelist, pgrc, mem, pa, perm, sz, pc, job, new, old, killed>>

\* why: what a page is being allocated for; peer: whose page table changes;
\* cur, lim: the page a loop (or the fault) is at, and where the loop ends;
\* size: the size of the process when the call returns.
Job == [why : {"none", "fault", "copyout", "grow"}, peer : Proc,
        cur : 0..NPage, lim : 0..NPage, size : 0..NPage]

job_of(w, q, va, hi, n) == [why |-> w, peer |-> q, cur |-> va, lim |-> hi, size |-> n]
NoJob(p) == job_of("none", p, 0, 0, 0)

TypeOK ==
    /\ freelist \subseteq Page
    /\ pgrc \in [Page -> Nat]
    /\ mem \in [Page -> Val \cup {Junk}]
    /\ pa \in [Proc -> [VA -> Page \cup {None}]]
    /\ perm \in [Proc -> [VA -> {"R", "W", "C"}]]
    /\ sz \in [Proc -> 0..NPage]
    /\ pc \in [Proc -> {"unused", "locked", "user", "zombie", "panic",
                        "kalloc", "incpgrc", "use", "kfree", "put",
                        "uvmcopy", "forkinc", "unmap"}]
    /\ job \in [Proc -> Job]
    /\ new \in [Proc -> Page \cup {None}]
    /\ old \in [Proc -> Page \cup {None}]
    /\ killed \in [Proc -> {"no", "access", "stack", "memory"}]

\* The first process, its image loaded by exec().
Init ==
    /\ \E p \in Proc, f \in [VA -> Page], c \in [VA -> Val] :
         /\ \A i, j \in VA : i # j => f[i] # f[j]
         /\ freelist = Page \ {f[i] : i \in VA}
         /\ mem = [g \in Page |-> IF \E i \in VA : f[i] = g
                                    THEN c[CHOOSE i \in VA : f[i] = g]
                                    ELSE Junk]
         /\ pa = [q \in Proc |-> IF q = p THEN f ELSE [i \in VA |-> None]]
         /\ perm = [q \in Proc |-> [i \in VA |->
                      IF q = p /\ i \notin Text THEN "W" ELSE "R"]]
         /\ sz = [q \in Proc |-> IF q = p THEN NPage ELSE 0]
         /\ pc = [q \in Proc |-> IF q = p THEN "user" ELSE "unused"]
    /\ pgrc = [g \in Page |-> IF g \in freelist THEN 0 ELSE 1]
    /\ job = [p \in Proc |-> NoJob(p)]
    /\ new = [p \in Proc |-> None]
    /\ old = [p \in Proc |-> None]
    /\ killed = [p \in Proc |-> "no"]
-----------------------------------------------------------------------------
(***************************************************************************)
(* kalloc.c                                                                *)
(***************************************************************************)
\* kfree(): drop a reference; the last one fills the page with junk and
\* puts it on the free list, all under rclk[].
kfree(g) ==
    /\ pgrc' = [pgrc EXCEPT ![g] = @ - 1]
    /\ IF pgrc'[g] = 0
         THEN /\ mem' = [mem EXCEPT ![g] = Junk]
              /\ freelist' = freelist \cup {g}
         ELSE UNCHANGED <<mem, freelist>>

\* incpgrc(), under rclk[].
incpgrc_missing(g) == UNCHANGED pgrc
incpgrc(g) == pgrc' = [pgrc EXCEPT ![g] = @ + 1]

\* Leave the kernel, for user mode or (setkilled() and exit()) for good.
Return(p, state) ==
    /\ pc' = [pc EXCEPT ![p] = state]
    /\ job' = [job EXCEPT ![p] = NoJob(p)]

\* Start the loop of uvmunmap() over pages lo .. hi-1 of q's page table.
uvmunmap(p, q, lo, hi, size) ==
    /\ pc' = [pc EXCEPT ![p] = "unmap"]
    /\ job' = [job EXCEPT ![p] = job_of("none", q, lo, hi, size)]

\* kalloc() under kmem.lock takes a page.
kalloc(p) ==
    /\ pc[p] = "kalloc"
    /\ \E g \in freelist :
         /\ freelist' = freelist \ {g}
         /\ mem' = [mem EXCEPT ![g] = Junk]
         /\ new' = [new EXCEPT ![p] = g]
    /\ pc' = [pc EXCEPT ![p] = "incpgrc"]
    /\ UNCHANGED <<pgrc, pa, perm, sz, job, old, killed>>

\* incpgrc() at the end of kalloc().
kalloc_inc(p) ==
    /\ pc[p] = "incpgrc"
    /\ incpgrc(new[p])
    /\ pc' = [pc EXCEPT ![p] = "use"]
    /\ UNCHANGED <<freelist, mem, pa, perm, sz, job, new, old, killed>>

\* kalloc() returns 0.  usertrap() kills the process, uvmalloc() undoes the
\* pages it has added; copyout() calls setkilled() and goes on to memmove()
\* to address 0, which faults in the kernel.
kalloc_fails(p) ==
    /\ pc[p] = "kalloc"
    /\ freelist = {}
    /\ \/ /\ job[p].why = "fault"
          /\ killed' = [killed EXCEPT ![p] = "memory"]
          /\ Return(p, "zombie")
       \/ /\ job[p].why = "copyout"
          /\ killed' = [killed EXCEPT ![p] = "memory"]
          /\ Return(p, "panic")
       \/ /\ job[p].why = "grow"
          /\ uvmunmap(p, p, sz[p], job[p].cur, sz[p])
          /\ UNCHANGED killed
    /\ UNCHANGED <<freelist, pgrc, mem, pa, perm, sz, new, old>>
-----------------------------------------------------------------------------
(***************************************************************************)
(* Stores by the program, usertrap() and copyout().                        *)
(***************************************************************************)
Kill(p, cause) ==
    /\ killed' = [killed EXCEPT ![p] = cause]
    /\ Return(p, "zombie")

\* Allocate a page to break the sharing of va.
break_cow(p, va, w) ==
    /\ pc' = [pc EXCEPT ![p] = "kalloc"]
    /\ job' = [job EXCEPT ![p] = job_of(w, p, va, 0, 0)]

\* The stack overflow test of usertrap(): the page below the one the stack
\* pointer is in and, the comparison being <=, that page's first byte.
in_guard(va, atBase) == va = StackPage - 1 \/ (va = StackPage /\ atBase)

\* A store instruction at page va, atBase when it is the page's first byte;
\* a store page fault goes to usertrap().
store(p, va, atBase, v) ==
    /\ pc[p] = "user"
    /\ \/ /\ pa[p][va] # None /\ perm[p][va] = "W"
          /\ mem' = [mem EXCEPT ![pa[p][va]] = v]
          /\ UNCHANGED <<pc, job, killed>>
       \/ /\ perm[p][va] # "W" /\ in_guard(va, atBase)
          /\ Kill(p, "stack")
          /\ UNCHANGED mem
       \/ /\ perm[p][va] = "R" /\ ~in_guard(va, atBase)
          /\ Kill(p, "access")
          /\ UNCHANGED mem
       \/ /\ perm[p][va] = "C" /\ ~in_guard(va, atBase)
          /\ break_cow(p, va, "fault")
          /\ UNCHANGED <<mem, killed>>
    /\ UNCHANGED <<freelist, pgrc, pa, perm, sz, new, old>>

\* A system call stores to page va of its caller; an unmapped page only
\* makes copyout() return -1.
copyout(p, va, v) ==
    /\ pc[p] = "user"
    /\ pa[p][va] # None
    /\ \/ /\ perm[p][va] = "C"
          /\ break_cow(p, va, "copyout")
          /\ UNCHANGED mem
       \/ /\ perm[p][va] = "W" \/ (perm[p][va] = "R" /\ CopyoutToText)
          /\ mem' = [mem EXCEPT ![pa[p][va]] = v]
          /\ UNCHANGED <<pc, job>>
    /\ UNCHANGED <<freelist, pgrc, pa, perm, sz, new, old, killed>>

\* The page is copied and the PTE redirected to the copy, now writable.
cow_copy(p) ==
    /\ pc[p] = "use"
    /\ job[p].why \in {"fault", "copyout"}
    /\ LET va == job[p].cur
       IN  /\ mem' = [mem EXCEPT ![new[p]] = mem[pa[p][va]]]
           /\ old' = [old EXCEPT ![p] = pa[p][va]]
           /\ pa' = [pa EXCEPT ![p][va] = new[p]]
           /\ perm' = [perm EXCEPT ![p][va] = "W"]
    /\ new' = [new EXCEPT ![p] = None]
    /\ pc' = [pc EXCEPT ![p] = "kfree"]
    /\ UNCHANGED <<freelist, pgrc, sz, job, killed>>

\* kfree() of the page that was shared.
cow_release(p) ==
    /\ pc[p] = "kfree"
    /\ kfree(old[p])
    /\ old' = [old EXCEPT ![p] = None]
    /\ IF job[p].why = "copyout"
         THEN pc' = [pc EXCEPT ![p] = "put"] /\ UNCHANGED job
         ELSE Return(p, "user")
    /\ UNCHANGED <<pa, perm, sz, new, killed>>

\* The memmove() of copyout() into the page that is now private.
copyout_put(p, v) ==
    /\ pc[p] = "put"
    /\ mem' = [mem EXCEPT ![pa[p][job[p].cur]] = v]
    /\ Return(p, "user")
    /\ UNCHANGED <<freelist, pgrc, pa, perm, sz, new, old, killed>>
-----------------------------------------------------------------------------
(***************************************************************************)
(* fork(), with uvmcopy() page by page.                                    *)
(***************************************************************************)
fork(p, c) ==
    /\ pc[p] = "user"
    /\ pc[c] = "unused"
    /\ pc' = [pc EXCEPT ![p] = "uvmcopy", ![c] = "locked"]
    /\ job' = [job EXCEPT ![p] = job_of("none", c, 0, sz[p], 0)]
    /\ UNCHANGED <<freelist, pgrc, mem, pa, perm, sz, new, old, killed>>

\* What uvmcopy() makes of the flags of a page, in both page tables.
shared_flags_kept(f) == f
shared_flags(f) == IF f = "W" THEN "C" ELSE f

uvmcopy(p) ==
    LET c == job[p].peer
        va == job[p].cur
        f == shared_flags(perm[p][va])
    IN  /\ pc[p] = "uvmcopy"
        /\ \/ /\ pa' = [pa EXCEPT ![c][va] = pa[p][va]]
              /\ perm' = [perm EXCEPT ![p][va] = f, ![c][va] = f]
              /\ pc' = [pc EXCEPT ![p] = "forkinc"]
              /\ UNCHANGED job
           \/ /\ perm' = [perm EXCEPT ![p][va] = f]   \* mappages() fails
              /\ uvmunmap(p, c, 0, va, 0)
              /\ UNCHANGED pa
        /\ UNCHANGED <<freelist, pgrc, mem, sz, new, old, killed>>

\* incpgrc() of the page just mapped; after the last one the child runs.
uvmcopy_inc(p) ==
    LET c == job[p].peer
    IN  /\ pc[p] = "forkinc"
        /\ incpgrc(pa[p][job[p].cur])
        /\ IF job[p].cur + 1 < job[p].lim
             THEN /\ job' = [job EXCEPT ![p].cur = @ + 1]
                  /\ pc' = [pc EXCEPT ![p] = "uvmcopy"]
                  /\ UNCHANGED sz
             ELSE /\ job' = [job EXCEPT ![p] = NoJob(p)]
                  /\ pc' = [pc EXCEPT ![p] = "user", ![c] = "user"]
                  /\ sz' = [sz EXCEPT ![c] = sz[p]]
        /\ UNCHANGED <<freelist, mem, pa, perm, new, old, killed>>
-----------------------------------------------------------------------------
(***************************************************************************)
(* sbrk(), exit() and wait().                                              *)
(***************************************************************************)
\* growproc() with n > 0: uvmalloc() adds pages sz .. n-1 one by one.
grow(p, n) ==
    /\ pc[p] = "user"
    /\ n > sz[p]
    /\ pc' = [pc EXCEPT ![p] = "kalloc"]
    /\ job' = [job EXCEPT ![p] = job_of("grow", p, sz[p], n, 0)]
    /\ UNCHANGED <<freelist, pgrc, mem, pa, perm, sz, new, old, killed>>

\* The page is cleared and mapped.
grow_map(p) ==
    /\ pc[p] = "use"
    /\ job[p].why = "grow"
    /\ mem' = [mem EXCEPT ![new[p]] = Zero]
    /\ pa' = [pa EXCEPT ![p][job[p].cur] = new[p]]
    /\ perm' = [perm EXCEPT ![p][job[p].cur] = "W"]
    /\ IF job[p].cur + 1 < job[p].lim
         THEN /\ job' = [job EXCEPT ![p].cur = @ + 1]
              /\ pc' = [pc EXCEPT ![p] = "kalloc"]
              /\ UNCHANGED sz
         ELSE /\ sz' = [sz EXCEPT ![p] = job[p].lim]
              /\ Return(p, "user")
    /\ new' = [new EXCEPT ![p] = None]
    /\ UNCHANGED <<freelist, pgrc, old, killed>>

\* mappages() fails: free the page and the ones this call has added.
grow_fails(p) ==
    /\ pc[p] = "use"
    /\ job[p].why = "grow"
    /\ kfree(new[p])
    /\ new' = [new EXCEPT ![p] = None]
    /\ uvmunmap(p, p, sz[p], job[p].cur, sz[p])
    /\ UNCHANGED <<pa, perm, sz, old, killed>>

\* growproc() with n < 0: uvmdealloc().
shrink(p, n) ==
    /\ pc[p] = "user"
    /\ n < sz[p]
    /\ uvmunmap(p, p, n, sz[p], n)
    /\ UNCHANGED <<freelist, pgrc, mem, pa, perm, sz, new, old, killed>>

exit(p) ==
    /\ pc[p] = "user"
    /\ Return(p, "zombie")
    /\ UNCHANGED <<freelist, pgrc, mem, pa, perm, sz, new, old, killed>>

\* wait() has found the zombie c: freeproc(c).
wait(p, c) ==
    /\ pc[p] = "user"
    /\ pc[c] = "zombie"
    /\ pc' = [pc EXCEPT ![p] = "unmap", ![c] = "locked"]
    /\ job' = [job EXCEPT ![p] = job_of("none", c, 0, sz[c], 0)]
    /\ UNCHANGED <<freelist, pgrc, mem, pa, perm, sz, new, old, killed>>

\* One page of uvmunmap(..., do_free = 1).
unmap_page(p) ==
    LET q == job[p].peer
        va == job[p].cur
    IN  /\ pc[p] = "unmap"
        /\ va < job[p].lim
        /\ kfree(pa[q][va])
        /\ pa' = [pa EXCEPT ![q][va] = None]
        /\ perm' = [perm EXCEPT ![q][va] = "R"]
        /\ job' = [job EXCEPT ![p].cur = @ + 1]
        /\ UNCHANGED <<sz, pc, new, old, killed>>

\* The loop is over: growproc() returns, or freeproc(q) finishes.
unmap_done(p) ==
    LET q == job[p].peer
    IN  /\ pc[p] = "unmap"
        /\ job[p].cur = job[p].lim
        /\ sz' = [sz EXCEPT ![q] = job[p].size]
        /\ pc' = IF q = p THEN [pc EXCEPT ![p] = "user"]
                          ELSE [pc EXCEPT ![p] = "user", ![q] = "unused"]
        /\ job' = [job EXCEPT ![p] = NoJob(p)]
        /\ killed' = [killed EXCEPT ![q] = "no"]
        /\ UNCHANGED <<freelist, pgrc, mem, pa, perm, new, old>>

user(p) ==
    \/ \E va \in VA, b \in BOOLEAN, v \in Val : store(p, va, b, v)
    \/ \E va \in VA, v \in Val : copyout(p, va, v)
    \/ \E c \in Proc : fork(p, c) \/ wait(p, c)
    \/ \E n \in 1..NPage : grow(p, n) \/ shrink(p, n)
    \/ exit(p)

kernel(p) ==
    \/ kalloc(p) \/ kalloc_inc(p) \/ kalloc_fails(p)
    \/ cow_copy(p) \/ cow_release(p) \/ \E v \in Val : copyout_put(p, v)
    \/ uvmcopy(p) \/ uvmcopy_inc(p)
    \/ grow_map(p) \/ grow_fails(p)
    \/ unmap_page(p) \/ unmap_done(p)

Next == \E p \in Proc : user(p) \/ kernel(p)

Spec == Init /\ [][Next]_vars
-----------------------------------------------------------------------------
(***************************************************************************)
(* Properties.                                                             *)
(***************************************************************************)
\* All places that can hold a page: the PTEs, and the local variables of
\* the system call each process is in.
New == NPage
Old == NPage + 1
Slot == Proc \X (0..Old)

page(p, k) == IF k = New THEN new[p] ELSE IF k = Old THEN old[p] ELSE pa[p][k]

\* The incpgrc() for place k of p is still to come: kalloc() has taken the page
\* off the free list, or uvmcopy() has mapped it into the child.
pending(p, k) ==
    \/ pc[p] = "incpgrc" /\ k = New
    \/ \E q \in Proc : pc[q] = "forkinc" /\ job[q].peer = p /\ job[q].cur = k

Holders(g) == {s \in Slot : page(s[1], s[2]) = g}
Uncounted == {s \in Slot : pending(s[1], s[2])}

\* pgrc[] counts exactly the places that hold each page (README.md line 146),
\* up to the incpgrc() calls under way: so decpgrc() never panics.  A page is
\* on the free list exactly when no page table and no system call under way
\* holds it: nothing is freed while in use, nothing is leaked.
RefCountExact ==
    \A g \in Page : /\ pgrc[g] = Cardinality(Holders(g) \ Uncounted)
                    /\ g \in freelist <=> Holders(g) = {}

\* What the programs see: sbrk() with n < 0 takes effect when it starts.
Alive(p) == pc[p] \notin {"unused", "locked", "zombie"}
Size(p) == IF pc[p] = "unmap" /\ job[p].peer = p THEN job[p].size ELSE sz[p]
View(p) == [va \in 0..(Size(p) - 1) |-> mem[pa[p][va]]]
image == [p \in Proc |-> IF Alive(p) THEN View(p) ELSE None]

Eager == INSTANCE EagerFork WITH Dead <- None

\* Copy-on-write fork cannot be told from a fork that copies all of memory
\* (vm.c lines 299-304): no interleaving of faults, copyout, forks, sbrk and
\* exits of several processes lets one see another's writes or a freed page.
CowIsEager == Eager!Spec
=============================================================================
