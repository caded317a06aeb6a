------------------------------ MODULE CowSteps ------------------------------
(***************************************************************************)
(* The inductive invariant of Cow, and the proof that the steps of page    *)
(* faults, copyout(), exit() and the starts of the system calls keep it.   *)
(* CowProofs has the loops of fork(), sbrk() and wait(), and the           *)
(* theorems.                                                               *)
(***************************************************************************)
EXTENDS Cow, TLAPS

\* Where a process can be.
PC == {"unused", "locked", "user", "zombie", "panic", "kalloc", "incpgrc", "use",
       "kfree", "put", "uvmcopy", "forkinc", "unmap"}

\* In kalloc() or about to use the page; for sbrk(), in the loop of uvmalloc().
Allocating(p) == pc[p] \in {"kalloc", "incpgrc", "use"}
Growing(p) == Allocating(p) /\ job[p].why = "grow"

\* In a loop over a page table: of the caller (sbrk()), of the child (fork()) or
\* of the zombie (wait()).
Working(p) == pc[p] \in {"uvmcopy", "forkinc", "unmap"}

\* A job fits where its process is: it names the process itself, or a slot that
\* is locked for it, and its loop is within the pages of that slot.
JobOK(p) ==
    /\ pc[p] \notin {"unused", "locked"} => 0 < sz[p]
    /\ pc[p] \in {"unused", "locked", "user", "zombie", "panic"} => job[p] = NoJob(p)
    /\ Allocating(p) \/ pc[p] \in {"kfree", "put"} =>
         /\ job[p].peer = p
         /\ \/ job[p].why \in {"fault", "copyout"} /\ job[p].cur < sz[p]
            \/ Growing(p) /\ sz[p] <= job[p].cur /\ job[p].cur < job[p].lim
    /\ pc[p] \in {"uvmcopy", "forkinc"} =>
         /\ job[p].peer # p
         /\ job[p].cur < sz[p] /\ job[p].lim = sz[p]
    /\ pc[p] = "unmap" =>
         /\ job[p].size <= job[p].cur /\ job[p].cur <= job[p].lim
         /\ IF job[p].peer = p THEN 0 < job[p].size /\ job[p].size <= sz[p]
                               ELSE job[p].size = 0
    /\ Working(p) /\ job[p].peer # p => pc[job[p].peer] = "locked"

\* Two system calls never work on the same page table.
Jobs ==
    /\ \A p \in Proc : JobOK(p)
    /\ \A p, q \in Proc :
         Working(p) /\ Working(q) /\ job[p].peer = job[q].peer => p = q

\* The local variables hold pages exactly between kalloc() and mapping the page,
\* and between redirecting a PTE and kfree().
Locals ==
    \A p \in Proc : /\ new[p] \in Page <=> pc[p] \in {"incpgrc", "use"}
                    /\ old[p] \in Page <=> pc[p] = "kfree"

\* Which PTEs of a running process or zombie are valid: a shrinking process has a
\* gap between the new size and the loop, a growing one pages beyond its size.
Valid(p, va) ==
    IF pc[p] = "unmap" /\ job[p].peer = p
      THEN va < job[p].size \/ (job[p].cur <= va /\ va < job[p].lim)
      ELSE va < IF Growing(p) THEN job[p].cur ELSE sz[p]

\* The valid PTEs are those; a child has the pages uvmcopy() has reached, the
\* same ones as its parent; only valid PTEs carry PTE_W or PTE_C.
MapOK(p, va) ==
    /\ pc[p] = "unused" => pa[p][va] = None
    /\ pc[p] \notin {"unused", "locked"} => (pa[p][va] # None <=> Valid(p, va))
    /\ pc[p] = "uvmcopy" =>
         pa[job[p].peer][va] = IF va < job[p].cur THEN pa[p][va] ELSE None
    /\ pc[p] = "forkinc" =>
         pa[job[p].peer][va] = IF va <= job[p].cur THEN pa[p][va] ELSE None
    /\ pc[p] = "unmap" /\ job[p].peer # p =>
         (pa[job[p].peer][va] # None <=> job[p].cur <= va /\ va < job[p].lim)
    /\ perm[p][va] # "R" => pa[p][va] # None

Maps == \A p \in Proc, va \in VA : MapOK(p, va)

\* A page just allocated, or mapped writable, is in one place only.
Only(p, k) == \A q \in Proc, j \in 0..Old : page(q, j) = page(p, k) => q = p /\ j = k

Private ==
    \A p \in Proc :
      /\ pc[p] \in {"incpgrc", "use"} => Only(p, New)
      /\ \A va \in VA : perm[p][va] = "W" => Only(p, va)
      /\ pc[p] \in {"kfree", "put"} => perm[p][job[p].cur] = "W"

\* Place k of p holds a counted reference to g; the places that do.
counts(p, k, g) == page(p, k) = g /\ ~pending(p, k)
Counted(g) == Holders(g) \ Uncounted

\* RefCountExact, with the places spelled out.
Counts ==
    \A g \in Page : /\ pgrc[g] = Cardinality(Counted(g))
                    /\ g \in freelist <=> \A p \in Proc, k \in 0..Old : page(p, k) # g

\* A mapped page holds what a program wrote, and the pages uvmalloc() has added so
\* far are zero and writable.
Contents ==
    \A p \in Proc, va \in VA :
      /\ pa[p][va] # None => mem[pa[p][va]] \in Val
      /\ Growing(p) /\ sz[p] <= va /\ va < job[p].cur =>
           perm[p][va] = "W" /\ mem[pa[p][va]] = Zero

\* The inductive invariant.  RefCountExact alone is not inductive: that a freed page
\* is unmapped needs to know which pages each half-done loop has reached.
CowInv == TypeOK /\ Jobs /\ Locals /\ Maps /\ Private /\ Counts /\ Contents

\* What the proofs use of Cardinality; CowProofs shows it of the places of pages.
Counting ==
    \A S \in SUBSET Slot :
      /\ Cardinality(S) \in Nat
      /\ Cardinality(S) = 0 <=> S = {}
      /\ \A s \in Slot \ S : Cardinality(S \cup {s}) = Cardinality(S) + 1

-----------------------------------------------------------------------------
(***************************************************************************)
(* Frames: what steps share.                                               *)
(***************************************************************************)
\* What CowAssumption says of the constants, in the form most leaves need.
LEMMA Consts == NPage \in Nat \ {0} /\ None \notin Page /\ Zero \in Val
  BY CowAssumption, Zenon

\* The fields of the job of a process have their types.
LEMMA JobType ==
    ASSUME TypeOK, NEW p \in Proc
    PROVE  /\ job[p].why \in {"none", "fault", "copyout", "grow"} /\ job[p].peer \in Proc
           /\ job[p].cur \in 0..NPage /\ job[p].lim \in 0..NPage /\ job[p].size \in 0..NPage
  BY Zenon DEF TypeOK, Job

\* A step that leaves the system call of q alone, and the slot q works on
\* locked, keeps what the invariant says of its job.
LEMMA JobFrame ==
    ASSUME Jobs, NEW q \in Proc, pc'[q] = pc[q], job'[q] = job[q], sz'[q] = sz[q],
           Working(q) /\ job[q].peer # q => pc'[job[q].peer] = "locked"
    PROVE  JobOK(q)'
<1>1. JobOK(q)
  BY Zenon DEF Jobs
<1> QED
  BY <1>1, Zenon DEF JobOK, Working, Growing, Allocating

\* A step of p, whose slot nobody works on, keeps the jobs of all others.
LEMMA JobFrames ==
    ASSUME Jobs, TypeOK, NEW p \in Proc, pc[p] # "locked",
           \A q \in Proc : q # p => pc'[q] = pc[q] /\ job'[q] = job[q] /\ sz'[q] = sz[q]
    PROVE  \A q \in Proc : q # p => JobOK(q)'
<1> TAKE q \in Proc
<1> HAVE q # p
<1>1. Working(q) /\ job[q].peer # q => pc[job[q].peer] = "locked" /\ job[q].peer \in Proc
  BY JobType, Zenon DEF Jobs, JobOK
<1>2. Working(q) /\ job[q].peer # q => pc'[job[q].peer] = "locked"
  BY <1>1, Zenon
<1> QED
  BY <1>2, JobFrame, Zenon

\* A step that starts no loop over another page table keeps the loops apart.
LEMMA JobsKept ==
    ASSUME Jobs, \A q \in Proc : JobOK(q)',
           \A q \in Proc : Working(q)' => Working(q) /\ job'[q].peer = job[q].peer
    PROVE  Jobs'
<1>1. ASSUME NEW q \in Proc, NEW r \in Proc, Working(q)', Working(r)',
             job'[q].peer = job'[r].peer
      PROVE  q = r
  <2>1. Working(q) /\ Working(r) /\ job[q].peer = job[r].peer
    BY <1>1, Zenon
  <2> QED
    BY <2>1, Zenon DEF Jobs
<1> QED
  BY <1>1, Zenon DEF Jobs

\* A step that leaves the system call of q and the entries for va in the page
\* tables q works on alone keeps what the invariant says of that entry.
LEMMA MapFrame ==
    ASSUME Maps, NEW q \in Proc, NEW va \in VA,
           pc'[q] = pc[q], job'[q] = job[q], sz'[q] = sz[q],
           pa'[q][va] = pa[q][va], perm'[q][va] = perm[q][va],
           Working(q) => pa'[job[q].peer][va] = pa[job[q].peer][va]
    PROVE  MapOK(q, va)'
<1>1. MapOK(q, va)
  BY Zenon DEF Maps
<1>2. Valid(q, va)' <=> Valid(q, va)
  BY Zenon DEF Valid, Growing, Allocating
<1> QED
  BY <1>1, <1>2, Zenon DEF MapOK, Working

\* A step of p, whose slot nobody works on, that changes no page table but p's,
\* keeps what the invariant says of the others.
LEMMA MapFrames ==
    ASSUME TypeOK, Jobs, Maps, NEW p \in Proc, pc[p] # "locked",
           \A q \in Proc : q # p => pc'[q] = pc[q] /\ job'[q] = job[q] /\ sz'[q] = sz[q],
           \A q \in Proc, va \in VA : q # p => pa'[q][va] = pa[q][va] /\ perm'[q][va] = perm[q][va]
    PROVE  \A q \in Proc, va \in VA : q # p => MapOK(q, va)'
<1> TAKE q \in Proc, va \in VA
<1> HAVE q # p
<1>1. Working(q) => job[q].peer \in Proc /\ job[q].peer # p
  BY JobType, Zenon DEF Jobs, JobOK
<1> QED
  BY <1>1, MapFrame, Zenon

\* The places of a page are the PTEs and the two local variables.
LEMMA Places ==
    /\ New \in 0..Old /\ Old \in 0..Old /\ New # Old
    /\ \A va \in VA : va \in 0..Old /\ va # New /\ va # Old
    /\ \A k \in 0..Old : k \in VA \/ k = New \/ k = Old
  BY Consts DEF New, Old, VA

\* What page() is at each kind of place, before and after a step.
LEMMA Pages ==
    ASSUME NEW p
    PROVE  /\ page(p, New) = new[p] /\ page(p, Old) = old[p]
           /\ \A va \in VA : page(p, va) = pa[p][va]
           /\ page(p, New)' = new'[p] /\ page(p, Old)' = old'[p]
           /\ \A va \in VA : page(p, va)' = pa'[p][va]
  BY Places, Zenon DEF page

\* A PTE with PTE_W maps a page.
LEMMA Writable ==
    ASSUME CowInv
    PROVE  \A q \in Proc, va \in VA :
              perm[q][va] = "W" => pa[q][va] \in Page /\ page(q, va) \in Page
<1> SUFFICES ASSUME NEW q \in Proc, NEW va \in VA, perm[q][va] = "W"
             PROVE  pa[q][va] \in Page /\ page(q, va) \in Page
  BY Zenon
<1>1. MapOK(q, va) /\ pa[q][va] \in Page \cup {None}
  BY Zenon DEF CowInv, Maps, TypeOK
<1> QED
  BY <1>1, Pages, Zenon DEF MapOK

\* Only in a slot being created, or between kalloc() and its incpgrc(), is a
\* reference still to be counted.
LEMMA NotPending ==
    ASSUME CowInv, NEW p \in Proc, pc[p] \notin {"locked", "incpgrc"}, NEW k
    PROVE  ~pending(p, k)
  BY Zenon DEF CowInv, Jobs, JobOK, Working, pending

\* Steps that move no page, start no incpgrc() and finish none keep the counts
\* right.
LEMMA CountsKept ==
    ASSUME Counts, UNCHANGED <<freelist, pgrc, pa, new, old>>,
           \A q \in Proc, k \in 0..Old : pending(q, k)' <=> pending(q, k)
    PROVE  Counts'
<1>1. Uncounted' = Uncounted
  BY Zenon DEF Uncounted, Slot
<1>2. \A q, k : page(q, k)' = page(q, k)
  BY Zenon DEF page
<1>3. \A g : Holders(g)' = Holders(g)
  BY <1>2, Zenon DEF Holders
<1> QED
  BY <1>1, <1>2, <1>3, Zenon DEF Counts, Counted

\* A step that changes no memory keeps what is known of the contents, when every
\* sbrk() it leaves under way was under way or has just started.
LEMMA ContentsKept ==
    ASSUME CowInv, UNCHANGED <<pa, perm, mem>>,
           \A q \in Proc : Growing(q)' => \/ sz'[q] = job'[q].cur /\ job'[q].cur \in Nat
                                          \/ Growing(q) /\ sz'[q] = sz[q] /\ job'[q].cur = job[q].cur
    PROVE  Contents'
  BY Consts DEF CowInv, Contents, VA

\* A store to a mapped page by a process that is not growing keeps what is known
\* of the contents: the pages another process is adding are that process's alone.
LEMMA ContentsStored ==
    ASSUME CowInv, NEW p \in Proc, NEW va \in VA, NEW v \in Val, ~Growing(p),
           mem' = [mem EXCEPT ![pa[p][va]] = v], UNCHANGED <<pa, perm, sz>>,
           \A q \in Proc : Growing(q)' => Growing(q) /\ job'[q].cur = job[q].cur
    PROVE  Contents'
<1> USE DEF CowInv
<1>1. pa[p][va] # None => pa[p][va] \in Page
  BY DEF TypeOK
<1>2. ASSUME NEW q \in Proc, NEW vb \in VA, pa[q][vb] # None
      PROVE  mem'[pa[q][vb]] \in Val
  BY <1>2 DEF TypeOK, Contents
<1>3. ASSUME NEW q \in Proc, NEW vb \in VA, Growing(q), sz[q] <= vb, vb < job[q].cur
      PROVE  mem'[pa[q][vb]] = Zero
  <2>1. perm[q][vb] = "W" /\ mem[pa[q][vb]] = Zero /\ q # p
    BY <1>3, Zenon DEF Contents
  <2>2. Only(q, vb)
    BY <2>1, Zenon DEF Private
  <2>3. va \in 0..Old /\ vb \in 0..Old /\ va # New /\ va # Old /\ vb # New /\ vb # Old
    BY Consts DEF VA, New, Old
  <2>4. pa[q][vb] # pa[p][va]
    BY <2>1, <2>2, <2>3, Zenon DEF Only, page
  <2>5. pa[q][vb] # None
    BY <2>1, Zenon DEF Maps, MapOK
  <2> QED
    BY <2>1, <2>4, <2>5 DEF TypeOK
<1> QED
  BY <1>2, <1>3 DEF Contents

\* Leaving the kernel (return to user mode, exit() after setkilled(), panic)
\* keeps the jobs, the page tables and the private pages as they should be.
LEMMA Leaves ==
    ASSUME CowInv, NEW p \in Proc, NEW s \in {"user", "zombie", "panic"},
           pc[p] \in {"user", "kalloc", "put"}, ~Growing(p),
           Return(p, s), UNCHANGED <<pa, perm, sz, new, old>>
    PROVE  /\ pc' \in [Proc -> PC] /\ job' \in [Proc -> Job]
           /\ Jobs' /\ Locals' /\ Maps' /\ Private'
           /\ \A q \in Proc, k \in 0..Old : pending(q, k)' <=> pending(q, k)
<1> USE DEF CowInv
<1>1. /\ pc'[p] = s /\ \A q \in Proc : q # p => pc'[q] = pc[q]
      /\ job'[p] = NoJob(p) /\ \A q \in Proc : q # p => job'[q] = job[q]
  BY Zenon DEF Return, TypeOK
<1>2. NoJob(p) \in Job /\ NoJob(p).peer = p
  BY Consts DEF NoJob, job_of, Job
<1>3. pc' \in [Proc -> PC] /\ job' \in [Proc -> Job]
  BY <1>2, Zenon DEF Return, TypeOK, PC
<1>4. Jobs'
  BY <1>1, <1>2, JobType DEF Jobs, JobOK, Allocating, Growing, Working
<1>5. Locals'
  BY <1>1, Zenon DEF Locals
<1>6. Maps'
  BY <1>1, <1>2 DEF Maps, MapOK, Valid, Growing, Allocating, Jobs, JobOK
<1>7. Private'
  BY <1>1, <1>2 DEF Private, Only, page
<1>8. \A q \in Proc, k \in 0..Old : pending(q, k)' <=> pending(q, k)
  BY <1>1, Zenon DEF pending
<1> QED
  BY <1>3, <1>4, <1>5, <1>6, <1>7, <1>8, Zenon

\* Starting to allocate a page, for a store page fault, copyout() or sbrk().
LEMMA Allocates ==
    ASSUME CowInv, NEW p \in Proc, NEW j \in Job, pc[p] = "user", j.peer = p,
           \/ j.why \in {"fault", "copyout"} /\ j.cur < sz[p]
           \/ j.why = "grow" /\ j.cur = sz[p] /\ j.cur < j.lim,
           pc' = [pc EXCEPT ![p] = "kalloc"], job' = [job EXCEPT ![p] = j],
           UNCHANGED <<pa, perm, sz, new, old>>
    PROVE  /\ pc' \in [Proc -> PC] /\ job' \in [Proc -> Job]
           /\ Jobs' /\ Locals' /\ Maps' /\ Private'
           /\ \A q \in Proc, k \in 0..Old : pending(q, k)' <=> pending(q, k)
<1> USE DEF CowInv
<1>1. /\ pc'[p] = "kalloc" /\ \A q \in Proc : q # p => pc'[q] = pc[q]
      /\ job'[p] = j /\ \A q \in Proc : q # p => job'[q] = job[q]
  BY Zenon DEF TypeOK
<1>2. j.cur \in 0..NPage /\ sz[p] \in 0..NPage
  BY Zenon DEF Job, TypeOK
<1>3. pc' \in [Proc -> PC] /\ job' \in [Proc -> Job]
  BY Zenon DEF TypeOK, PC
<1>4. Jobs'
  BY <1>1, <1>2, JobType, Consts DEF Jobs, JobOK, Allocating, Growing, Working
<1>5. Locals'
  BY <1>1, Zenon DEF Locals
<1>6. Maps'
  BY <1>1, <1>2 DEF Maps, MapOK, Valid, Growing, Allocating, Jobs, JobOK
<1>7. Private'
  BY <1>1, <1>2 DEF Private, Only, page
<1>8. \A q \in Proc, k \in 0..Old : pending(q, k)' <=> pending(q, k)
  BY <1>1 DEF pending
<1> QED
  BY <1>3, <1>4, <1>5, <1>6, <1>7, <1>8, Zenon

\* Starting the loop of uvmunmap() on the caller's own pages: sbrk() with n < 0,
\* or the undoing of an uvmalloc() that has failed.
LEMMA Unmaps ==
    ASSUME CowInv, NEW p \in Proc, NEW lo \in 0..NPage, NEW hi \in 0..NPage,
           \/ pc[p] = "user" /\ 0 < lo /\ lo <= hi /\ hi = sz[p]
           \/ Growing(p) /\ lo = sz[p] /\ hi = job[p].cur,
           uvmunmap(p, p, lo, hi, lo), UNCHANGED <<pa, perm, sz>>
    PROVE  /\ pc' \in [Proc -> PC] /\ job' \in [Proc -> Job] /\ Jobs' /\ Maps'
           /\ pc'[p] = "unmap" /\ \A q \in Proc : q # p => pc'[q] = pc[q] /\ job'[q] = job[q]
<1> DEFINE j == job_of("none", p, lo, hi, lo)
<1> USE DEF CowInv
<1>1. /\ pc'[p] = "unmap" /\ \A q \in Proc : q # p => pc'[q] = pc[q]
      /\ job'[p] = j /\ \A q \in Proc : q # p => job'[q] = job[q]
  BY Zenon DEF TypeOK, uvmunmap
<1>2. j \in Job /\ j.peer = p /\ j.cur = lo /\ j.lim = hi /\ j.size = lo
  BY Zenon DEF job_of, Job
<1>3. pc' \in [Proc -> PC] /\ job' \in [Proc -> Job]
  BY <1>2, Zenon DEF TypeOK, PC, uvmunmap
<1> HIDE DEF j
<1>4. sz[p] \in 0..NPage
  BY Zenon DEF TypeOK
<1>5. Jobs'
  BY <1>1, <1>2, <1>4, JobType, Consts DEF Jobs, JobOK, Allocating, Growing, Working
<1>6. Maps'
  BY <1>1, <1>2, <1>4, Consts DEF Maps, MapOK, Valid, Growing, Allocating, Jobs, JobOK, VA
<1> QED
  BY <1>1, <1>3, <1>5, <1>6, Zenon

\* Starting fork() or wait(), which lock another slot of the process table.
LEMMA Locks ==
    ASSUME CowInv, NEW p \in Proc, NEW c \in Proc, NEW j,
           pc[p] = "user", c # p, pc[c] \in {"unused", "zombie"},
           pc'[p] \in {"uvmcopy", "unmap"}, pc'[c] = "locked",
           \A q \in Proc : q # p /\ q # c => pc'[q] = pc[q],
           job'[p] = j, \A q \in Proc : q # p => job'[q] = job[q],
           j.peer = c, j.cur = 0, j.size = 0, j.lim \in Nat,
           \/ pc[c] = "unused" /\ pc'[p] = "uvmcopy" /\ j.lim = sz[p] /\ 0 < sz[p]
           \/ pc[c] = "zombie" /\ pc'[p] = "unmap" /\ j.lim = sz[c],
           UNCHANGED <<pa, perm, sz, new, old>>
    PROVE  /\ Jobs' /\ Locals' /\ Maps' /\ Private'
           /\ \A q \in Proc, k \in 0..Old : pending(q, k)' <=> pending(q, k)
<1> USE DEF CowInv
<1>1. \A q \in Proc : q # p /\ q # c /\ Working(q) => job[q].peer # c /\ job[q].peer # p
  BY Zenon DEF Jobs, JobOK
<1>2. job[c] = NoJob(c) /\ NoJob(c).peer = c
  <2>1. job[c] = NoJob(c)
    BY Zenon DEF Jobs, JobOK
  <2> QED
    BY <2>1, Zenon DEF NoJob, job_of
<1>6. Jobs'
  BY <1>1, <1>2, JobType, Consts DEF Jobs, JobOK, Allocating, Growing, Working
<1>7. Locals'
  BY ZenonT(30) DEF Locals
<1>8. Maps'
  BY <1>1, <1>2, Consts DEF Maps, MapOK, Valid, Growing, Allocating, Jobs, JobOK, VA
<1>9. Private'
  BY DEF Private, Only, page
<1>10. \A q \in Proc, k \in 0..Old : pending(q, k)' <=> pending(q, k)
  BY DEF pending
<1> QED
  BY <1>6, <1>7, <1>8, <1>9, <1>10, Zenon

-----------------------------------------------------------------------------
(***************************************************************************)
(* The steps that move no page.                                            *)
(***************************************************************************)
\* A store to a page, by the program or by copyout(), keeps the invariant.
LEMMA WriteStep ==
    ASSUME CowInv, NEW p \in Proc, NEW va \in VA, NEW v \in Val, pc[p] = "user",
           mem' = [mem EXCEPT ![pa[p][va]] = v],
           UNCHANGED <<freelist, pgrc, pa, perm, sz, pc, job, new, old, killed>>
    PROVE  CowInv'
<1>1. Contents'
  BY ContentsStored, Zenon DEF Growing, Allocating
<1>2. Counts'
  BY CountsKept, Zenon DEF CowInv, pending
<1>3. TypeOK'
  BY Zenon DEF CowInv, TypeOK
<1>4. Jobs' /\ Locals'
  BY DEF CowInv, Jobs, JobOK, Locals, Growing, Allocating, Working
<1>5. Maps'
  BY DEF CowInv, Maps, MapOK, Valid, Growing, Allocating
<1>6. Private'
  BY DEF CowInv, Private, Only, page
<1> QED
  BY <1>1, <1>2, <1>3, <1>4, <1>5, <1>6, Zenon DEF CowInv

\* Starting to break the sharing of a page keeps the invariant.
LEMMA BreakStep ==
    ASSUME CowInv, NEW p \in Proc, NEW va \in VA, NEW w \in {"fault", "copyout"},
           pc[p] = "user", perm[p][va] = "C", break_cow(p, va, w),
           UNCHANGED <<freelist, pgrc, mem, pa, perm, sz, new, old, killed>>
    PROVE  CowInv'
<1> DEFINE j == job_of(w, p, va, 0, 0)
<1>1. j \in Job /\ j.peer = p /\ j.cur = va /\ j.why = w
  BY Consts DEF job_of, Job, VA
<1>2. pc' = [pc EXCEPT ![p] = "kalloc"] /\ job' = [job EXCEPT ![p] = j]
  BY Zenon DEF break_cow
<1> HIDE DEF j
<1>3. va < sz[p]
  BY Zenon DEF CowInv, Maps, MapOK, Valid, Growing, Allocating
<1>4. /\ pc' \in [Proc -> PC] /\ job' \in [Proc -> Job]
      /\ Jobs' /\ Locals' /\ Maps' /\ Private'
      /\ \A q \in Proc, k \in 0..Old : pending(q, k)' <=> pending(q, k)
  BY <1>1, <1>2, <1>3, Allocates, Zenon
<1>5. Counts'
  BY <1>4, CountsKept, Zenon DEF CowInv
<1>6. Contents'
  <2>1. \A q \in Proc : Growing(q)' => Growing(q) /\ job'[q] = job[q]
    BY <1>1, <1>2, Zenon DEF CowInv, TypeOK, Growing, Allocating
  <2> QED
    BY <2>1, ContentsKept, Zenon
<1>7. TypeOK'
  BY <1>4, Zenon DEF CowInv, TypeOK, PC
<1> QED
  BY <1>4, <1>5, <1>6, <1>7, Zenon DEF CowInv

\* Leaving the kernel keeps the invariant.
LEMMA ReturnStep ==
    ASSUME CowInv, NEW p \in Proc, NEW s \in {"user", "zombie", "panic"},
           pc[p] \in {"user", "kalloc", "put"}, ~Growing(p), Return(p, s),
           killed' \in [Proc -> {"no", "access", "stack", "memory"}],
           UNCHANGED <<freelist, pgrc, mem, pa, perm, sz, new, old>>
    PROVE  CowInv'
<1>1. /\ pc' \in [Proc -> PC] /\ job' \in [Proc -> Job]
      /\ Jobs' /\ Locals' /\ Maps' /\ Private'
      /\ \A q \in Proc, k \in 0..Old : pending(q, k)' <=> pending(q, k)
  BY Leaves, Zenon
<1>2. Counts'
  BY <1>1, CountsKept, Zenon DEF CowInv
<1>3. Contents'
  <2>1. \A q \in Proc : Growing(q)' => Growing(q) /\ job'[q] = job[q]
    BY Zenon DEF CowInv, TypeOK, Growing, Allocating, Return
  <2> QED
    BY <2>1, ContentsKept, Zenon
<1>4. TypeOK'
  BY <1>1, Zenon DEF CowInv, TypeOK, PC
<1> QED
  BY <1>1, <1>2, <1>3, <1>4, Zenon DEF CowInv

\* A store instruction, with the page fault it may cause, keeps the invariant.
LEMMA StoreStep ==
    ASSUME CowInv, NEW p \in Proc, NEW va \in VA, NEW b \in BOOLEAN, NEW v \in Val,
           store(p, va, b, v)
    PROVE  CowInv'
<1>1. pc[p] = "user" /\ UNCHANGED <<freelist, pgrc, pa, perm, sz, new, old>>
  BY Zenon DEF store
<1>2. CASE /\ pa[p][va] # None /\ mem' = [mem EXCEPT ![pa[p][va]] = v]
           /\ UNCHANGED <<pc, job, killed>>
  BY <1>1, <1>2, WriteStep, Zenon
<1>3. ASSUME NEW w \in {"stack", "access"}, Kill(p, w), UNCHANGED mem PROVE CowInv'
  <2>1. /\ Return(p, "zombie") /\ ~Growing(p)
        /\ killed' \in [Proc -> {"no", "access", "stack", "memory"}]
    BY <1>1, <1>3, Zenon DEF CowInv, TypeOK, Kill, Growing, Allocating
  <2> QED
    BY <1>1, <1>3, <2>1, ReturnStep, Zenon
<1>4. CASE /\ perm[p][va] = "C" /\ break_cow(p, va, "fault") /\ UNCHANGED <<mem, killed>>
  BY <1>1, <1>4, BreakStep, Zenon
<1> QED
  BY <1>2, <1>3, <1>4, Zenon DEF store

\* The start of copyout() keeps the invariant.
LEMMA CopyoutStep ==
    ASSUME CowInv, NEW p \in Proc, NEW va \in VA, NEW v \in Val, copyout(p, va, v)
    PROVE  CowInv'
<1>1. /\ pc[p] = "user" /\ pa[p][va] # None
      /\ UNCHANGED <<freelist, pgrc, pa, perm, sz, new, old, killed>>
  BY Zenon DEF copyout
<1>2. CASE mem' = [mem EXCEPT ![pa[p][va]] = v] /\ UNCHANGED <<pc, job>>
  BY <1>1, <1>2, WriteStep, Zenon
<1>3. CASE perm[p][va] = "C" /\ break_cow(p, va, "copyout") /\ UNCHANGED mem
  BY <1>1, <1>3, BreakStep, Zenon
<1> QED
  BY <1>2, <1>3, Zenon DEF copyout

\* The start of fork() keeps the invariant.
LEMMA ForkStep ==
    ASSUME CowInv, NEW p \in Proc, NEW c \in Proc, fork(p, c)
    PROVE  CowInv'
<1> DEFINE j == job_of("none", c, 0, sz[p], 0)
<1>1. /\ pc[p] = "user" /\ pc[c] = "unused" /\ p # c
      /\ UNCHANGED <<freelist, pgrc, mem, pa, perm, sz, new, old, killed>>
  BY Zenon DEF fork
<1>2. /\ pc'[p] = "uvmcopy" /\ pc'[c] = "locked"
      /\ \A q \in Proc : q # p /\ q # c => pc'[q] = pc[q]
      /\ job'[p] = j /\ \A q \in Proc : q # p => job'[q] = job[q]
  BY <1>1, Zenon DEF CowInv, TypeOK, fork
<1>3. j \in Job /\ j.peer = c /\ j.cur = 0 /\ j.size = 0 /\ j.lim = sz[p] /\ sz[p] \in Nat
  BY Consts DEF CowInv, TypeOK, job_of, Job
<1>4. TypeOK'
  BY <1>1, <1>3, Zenon DEF CowInv, TypeOK, fork
<1> HIDE DEF j
<1>5. 0 < sz[p]
  BY <1>1, Zenon DEF CowInv, Jobs, JobOK
<1>6. /\ Jobs' /\ Locals' /\ Maps' /\ Private'
      /\ \A q \in Proc, k \in 0..Old : pending(q, k)' <=> pending(q, k)
  BY <1>1, <1>2, <1>3, <1>5, Locks
<1>7. Counts'
  BY <1>1, <1>6, CountsKept, Zenon DEF CowInv
<1>8. Contents'
  <2>1. \A q \in Proc : Growing(q)' => Growing(q) /\ job'[q] = job[q]
    BY <1>2, Zenon DEF Growing, Allocating
  <2> QED
    BY <1>1, <2>1, ContentsKept, Zenon
<1> QED
  BY <1>4, <1>6, <1>7, <1>8, Zenon DEF CowInv

\* wait() on a zombie, up to the loop of freeproc(), keeps the invariant.
LEMMA WaitStep ==
    ASSUME CowInv, NEW p \in Proc, NEW c \in Proc, wait(p, c)
    PROVE  CowInv'
<1> DEFINE j == job_of("none", c, 0, sz[c], 0)
<1>1. /\ pc[p] = "user" /\ pc[c] = "zombie" /\ p # c
      /\ UNCHANGED <<freelist, pgrc, mem, pa, perm, sz, new, old, killed>>
  BY Zenon DEF wait
<1>2. /\ pc'[p] = "unmap" /\ pc'[c] = "locked"
      /\ \A q \in Proc : q # p /\ q # c => pc'[q] = pc[q]
      /\ job'[p] = j /\ \A q \in Proc : q # p => job'[q] = job[q]
  BY <1>1, Zenon DEF CowInv, TypeOK, wait
<1>3. j \in Job /\ j.peer = c /\ j.cur = 0 /\ j.size = 0 /\ j.lim = sz[c] /\ sz[c] \in Nat
  BY Consts DEF CowInv, TypeOK, job_of, Job
<1>4. TypeOK'
  BY <1>1, <1>3, Zenon DEF CowInv, TypeOK, wait
<1> HIDE DEF j
<1>5. /\ Jobs' /\ Locals' /\ Maps' /\ Private'
      /\ \A q \in Proc, k \in 0..Old : pending(q, k)' <=> pending(q, k)
  BY <1>1, <1>2, <1>3, Locks
<1>6. Counts'
  BY <1>1, <1>5, CountsKept, Zenon DEF CowInv
<1>7. Contents'
  <2>1. \A q \in Proc : Growing(q)' => Growing(q) /\ job'[q] = job[q]
    BY <1>2, Zenon DEF Growing, Allocating
  <2> QED
    BY <1>1, <2>1, ContentsKept, Zenon
<1> QED
  BY <1>4, <1>5, <1>6, <1>7 DEF CowInv

\* The start of sbrk() with n > 0 keeps the invariant.
LEMMA GrowStep ==
    ASSUME CowInv, NEW p \in Proc, NEW n \in 1..NPage, grow(p, n)
    PROVE  CowInv'
<1> DEFINE j == job_of("grow", p, sz[p], n, 0)
<1>1. /\ pc[p] = "user" /\ n > sz[p]
      /\ pc' = [pc EXCEPT ![p] = "kalloc"] /\ job' = [job EXCEPT ![p] = j]
      /\ UNCHANGED <<freelist, pgrc, mem, pa, perm, sz, new, old, killed>>
  BY Zenon DEF grow
<1>2. /\ j \in Job /\ j.peer = p /\ j.why = "grow" /\ j.cur = sz[p] /\ j.lim = n
      /\ j.cur \in Nat /\ j.cur < j.lim
  BY <1>1, Consts DEF CowInv, TypeOK, job_of, Job
<1> HIDE DEF j
<1>3. /\ pc' \in [Proc -> PC] /\ job' \in [Proc -> Job]
      /\ Jobs' /\ Locals' /\ Maps' /\ Private'
      /\ \A q \in Proc, k \in 0..Old : pending(q, k)' <=> pending(q, k)
  BY <1>1, <1>2, Allocates, Zenon
<1>4. Counts'
  BY <1>1, <1>3, CountsKept, Zenon DEF CowInv
<1>5. Contents'
  <2>1. \A q \in Proc : Growing(q)' => \/ q = p /\ job'[q] = j
                                       \/ Growing(q) /\ job'[q] = job[q]
    BY <1>1, Zenon DEF CowInv, TypeOK, Growing, Allocating
  <2> QED
    BY <1>1, <1>2, <2>1, ContentsKept, Zenon
<1>6. TypeOK'
  BY <1>1, <1>3, Zenon DEF CowInv, TypeOK, PC
<1> QED
  BY <1>3, <1>4, <1>5, <1>6, Zenon DEF CowInv

\* The start of sbrk() with n < 0 keeps the invariant.
LEMMA ShrinkStep ==
    ASSUME CowInv, NEW p \in Proc, NEW n \in 1..NPage, shrink(p, n)
    PROVE  CowInv'
<1>1. /\ pc[p] = "user" /\ n < sz[p] /\ uvmunmap(p, p, n, sz[p], n)
      /\ UNCHANGED <<freelist, pgrc, mem, pa, perm, sz, new, old, killed>>
  BY Zenon DEF shrink
<1>2. n \in 0..NPage /\ sz[p] \in 0..NPage /\ n <= sz[p] /\ 0 < n
  BY <1>1, Consts DEF CowInv, TypeOK
<1>3. /\ pc' \in [Proc -> PC] /\ job' \in [Proc -> Job] /\ Jobs' /\ Maps'
      /\ pc'[p] = "unmap" /\ \A q \in Proc : q # p => pc'[q] = pc[q] /\ job'[q] = job[q]
  BY <1>1, <1>2, Unmaps, Zenon
<1>4. Locals' /\ Private'
  BY <1>1, <1>3 DEF CowInv, Locals, Private, Only, page
<1>5. Counts'
  <2>1. \A q \in Proc, k \in 0..Old : pending(q, k)' <=> pending(q, k)
    BY <1>1, <1>3, Zenon DEF pending
  <2> QED
    BY <1>1, <2>1, CountsKept, Zenon DEF CowInv
<1>6. Contents'
  <2>1. \A q \in Proc : Growing(q)' => Growing(q) /\ job'[q] = job[q]
    BY <1>1, <1>3, Zenon DEF Growing, Allocating
  <2> QED
    BY <1>1, <2>1, ContentsKept, Zenon
<1>7. TypeOK'
  BY <1>1, <1>3, Zenon DEF CowInv, TypeOK, PC
<1> QED
  BY <1>3, <1>4, <1>5, <1>6, <1>7, Zenon DEF CowInv

\* exit() keeps the invariant.
LEMMA ExitStep ==
    ASSUME CowInv, NEW p \in Proc, exit(p)
    PROVE  CowInv'
<1>1. /\ pc[p] = "user" /\ Return(p, "zombie") /\ ~Growing(p)
      /\ UNCHANGED <<freelist, pgrc, mem, pa, perm, sz, new, old, killed>>
  BY Zenon DEF exit, Growing, Allocating
<1>2. killed' \in [Proc -> {"no", "access", "stack", "memory"}]
  BY <1>1, Zenon DEF CowInv, TypeOK
<1> QED
  BY <1>1, <1>2, ReturnStep, Zenon

\* kalloc() returning 0 keeps the invariant, whatever the page was for.
LEMMA KallocFailsStep ==
    ASSUME CowInv, NEW p \in Proc, kalloc_fails(p)
    PROVE  CowInv'
<1>1. /\ pc[p] = "kalloc" /\ UNCHANGED <<freelist, pgrc, mem, pa, perm, sz, new, old>>
  BY Zenon DEF kalloc_fails
<1>2. ASSUME NEW s \in {"zombie", "panic"}, job[p].why # "grow", Return(p, s),
             killed' = [killed EXCEPT ![p] = "memory"]
      PROVE  CowInv'
  <2>1. ~Growing(p) /\ killed' \in [Proc -> {"no", "access", "stack", "memory"}]
    BY <1>2, Zenon DEF CowInv, TypeOK, Growing
  <2> QED
    BY <1>1, <1>2, <2>1, ReturnStep, Zenon
<1>3. CASE /\ job[p].why = "grow" /\ uvmunmap(p, p, sz[p], job[p].cur, sz[p])
           /\ UNCHANGED killed
  <2>1. Growing(p) /\ sz[p] \in 0..NPage /\ job[p].cur \in 0..NPage
    BY <1>1, <1>3, JobType, Zenon DEF CowInv, TypeOK, Growing, Allocating
  <2>2. /\ pc' \in [Proc -> PC] /\ job' \in [Proc -> Job] /\ Jobs' /\ Maps'
        /\ pc'[p] = "unmap" /\ \A q \in Proc : q # p => pc'[q] = pc[q] /\ job'[q] = job[q]
    BY <1>1, <1>3, <2>1, Unmaps, Zenon
  <2>3. Locals' /\ Private'
    BY <1>1, <2>2 DEF CowInv, Locals, Private, Only, page
  <2>4. Counts'
    <3>1. \A q \in Proc, k \in 0..Old : pending(q, k)' <=> pending(q, k)
      BY <1>1, <2>2, Zenon DEF pending
    <3> QED
      BY <1>1, <3>1, CountsKept, Zenon DEF CowInv
  <2>5. Contents'
    <3>1. \A q \in Proc : Growing(q)' => Growing(q) /\ job'[q] = job[q]
      BY <1>1, <2>2, Zenon DEF Growing, Allocating
    <3> QED
      BY <1>1, <3>1, ContentsKept, Zenon
  <2>6. TypeOK'
    BY <1>1, <1>3, <2>2, Zenon DEF CowInv, TypeOK, PC
  <2> QED
    BY <2>2, <2>3, <2>4, <2>5, <2>6, Zenon DEF CowInv
<1> QED
  BY <1>2, <1>3, Zenon DEF kalloc_fails

\* The memmove() of copyout() into the fresh copy keeps the invariant.
LEMMA CopyoutPutStep ==
    ASSUME CowInv, NEW p \in Proc, NEW v \in Val, copyout_put(p, v)
    PROVE  CowInv'
<1> DEFINE va == job[p].cur
<1>1. /\ pc[p] = "put" /\ mem' = [mem EXCEPT ![pa[p][va]] = v] /\ Return(p, "user")
      /\ UNCHANGED <<freelist, pgrc, pa, perm, sz, new, old, killed>>
  BY Zenon DEF copyout_put
<1>2. ~Growing(p) /\ va \in VA
  <2>1. ~Growing(p) /\ va < sz[p] /\ sz[p] \in 0..NPage
    BY <1>1, ZenonT(30) DEF CowInv, TypeOK, Jobs, JobOK, Growing, Allocating
  <2> QED
    BY <2>1, JobType, Consts DEF CowInv, VA
<1> HIDE DEF va
<1>3. /\ pc' \in [Proc -> PC] /\ job' \in [Proc -> Job]
      /\ Jobs' /\ Locals' /\ Maps' /\ Private'
      /\ \A q \in Proc, k \in 0..Old : pending(q, k)' <=> pending(q, k)
  BY <1>1, <1>2, Leaves, Zenon
<1>4. Counts'
  BY <1>1, <1>3, CountsKept, Zenon DEF CowInv
<1>5. Contents'
  <2>1. \A q \in Proc : Growing(q)' => Growing(q) /\ job'[q] = job[q]
    BY <1>1, Zenon DEF CowInv, TypeOK, Growing, Allocating, Return
  <2> QED
    BY <1>1, <1>2, <2>1, ContentsStored, Zenon
<1>6. TypeOK'
  BY <1>1, <1>3, Zenon DEF CowInv, TypeOK, PC
<1> QED
  BY <1>3, <1>4, <1>5, <1>6, Zenon DEF CowInv

\* The end of uvmunmap(), for sbrk() and for freeproc(), keeps the invariant.
LEMMA UnmapDoneStep ==
    ASSUME CowInv, NEW p \in Proc, unmap_done(p)
    PROVE  CowInv'
<1> USE DEF CowInv
<1>1. PICK c \in Proc : c = job[p].peer
  BY JobType, Zenon
<1>2. /\ pc[p] = "unmap" /\ job[p].cur = job[p].lim
      /\ UNCHANGED <<freelist, pgrc, mem, pa, perm, new, old>>
      /\ sz' = [sz EXCEPT ![c] = job[p].size] /\ job' = [job EXCEPT ![p] = NoJob(p)]
      /\ killed' = [killed EXCEPT ![c] = "no"]
      /\ pc' = IF c = p THEN [pc EXCEPT ![p] = "user"]
                        ELSE [pc EXCEPT ![p] = "user", ![c] = "unused"]
  BY <1>1, Zenon DEF unmap_done
<1>3. JobOK(p) /\ (c # p => pc[c] = "locked")
  BY <1>1, <1>2, Zenon DEF Jobs, JobOK, Working
<1>4. /\ sz[p] \in 0..NPage /\ job[p].cur \in 0..NPage /\ job[p].lim \in 0..NPage
      /\ job[p].size \in 0..NPage
  BY JobType, Zenon DEF TypeOK
<1>5. NoJob(p) \in Job /\ NoJob(p).peer = p
  BY Consts DEF NoJob, job_of, Job
<1>6. /\ pc'[p] = "user" /\ (c # p => pc'[c] = "unused")
      /\ \A q \in Proc : q # p /\ q # c => pc'[q] = pc[q]
  BY <1>2, Zenon DEF TypeOK
<1>7. /\ job'[p] = NoJob(p) /\ \A q \in Proc : q # p => job'[q] = job[q]
      /\ sz'[c] = job[p].size /\ \A q \in Proc : q # c => sz'[q] = sz[q]
  BY <1>2, Zenon DEF TypeOK
<1>8. TypeOK'
  <2>1. pc' \in [Proc -> PC]
    BY <1>2, Zenon DEF TypeOK, PC
  <2>2. job' \in [Proc -> Job]
    BY <1>2, <1>5, Zenon DEF TypeOK
  <2>3. sz' \in [Proc -> 0..NPage] /\ killed' \in [Proc -> {"no", "access", "stack", "memory"}]
    BY <1>2, <1>4, Zenon DEF TypeOK
  <2> QED
    BY <1>2, <2>1, <2>2, <2>3, Zenon DEF TypeOK, PC
<1>9. \A q \in Proc : q # p /\ Working(q) => q # c /\ job[q].peer # c
  BY <1>1, <1>2, <1>3, Zenon DEF Jobs, Working
<1>10. c # p => job[c] = NoJob(c)
  BY <1>3, Zenon DEF Jobs, JobOK
<1>11. Jobs'
  <2>1. JobOK(p)'
    BY <1>1, <1>2, <1>3, <1>6, <1>7, Zenon DEF JobOK, Allocating, Growing, Working
  <2>2. c # p => JobOK(c)'
    BY <1>3, <1>6, <1>7, <1>10, Zenon DEF JobOK, Allocating, Growing, Working
  <2>3. ASSUME NEW q \in Proc, q # p, q # c PROVE JobOK(q)'
    <3>1. Working(q) /\ job[q].peer # q => pc'[job[q].peer] = "locked"
      <4>1. Working(q) /\ job[q].peer # q =>
               pc[job[q].peer] = "locked" /\ job[q].peer \in Proc /\ job[q].peer # p
        BY <1>2, JobType, Zenon DEF Jobs, JobOK
      <4> QED
        BY <1>6, <1>9, <2>3, <4>1, Zenon
    <3> QED
      BY <1>6, <1>7, <2>3, <3>1, JobFrame, Zenon
  <2>4. \A q \in Proc : Working(q)' => Working(q) /\ job'[q].peer = job[q].peer
    BY <1>6, <1>7, Zenon DEF Working
  <2> QED
    BY <2>1, <2>2, <2>3, <2>4, Zenon DEF Jobs
<1>12. Locals'
  BY <1>2, <1>3, <1>6, Zenon DEF Locals
<1>13. Maps'
  <2>1. \A q \in Proc, vb \in VA : perm'[q][vb] # "R" => pa'[q][vb] # None
    BY <1>2 DEF Maps, MapOK
  <2>2. ASSUME NEW q \in Proc, q # p, q # c, NEW vb \in VA PROVE MapOK(q, vb)'
    BY <1>2, <1>6, <1>7, <2>2, MapFrame, Zenon
  <2>3. ASSUME NEW vb \in VA PROVE MapOK(p, vb)'
    <3>1. MapOK(p, vb)
      BY Zenon DEF Maps
    <3>2. CASE c = p
      <4>1. pa[p][vb] # None <=> vb < job[p].size
        BY <1>1, <1>2, <1>4, <3>1, <3>2 DEF MapOK, Valid, VA
      <4>2. Valid(p, vb)' <=> vb < job[p].size
        BY <1>6, <1>7, <3>2, Zenon DEF Valid, Growing, Allocating
      <4> QED
        BY <1>2, <1>6, <2>1, <4>1, <4>2, Zenon DEF MapOK
    <3>3. CASE c # p
      <4>1. pa[p][vb] # None <=> vb < sz[p]
        BY <1>1, <1>2, <3>1, <3>3, Zenon DEF MapOK, Valid, Growing, Allocating
      <4>2. Valid(p, vb)' <=> vb < sz[p]
        BY <1>6, <1>7, <3>3, Zenon DEF Valid, Growing, Allocating
      <4> QED
        BY <1>2, <1>6, <2>1, <4>1, <4>2, Zenon DEF MapOK
    <3> QED
      BY <3>2, <3>3, Zenon
  <2>4. ASSUME c # p, NEW vb \in VA PROVE MapOK(c, vb)'
    <3>1. pa[c][vb] = None
      BY <1>1, <1>2, <1>4, <2>4 DEF Maps, MapOK, VA
    <3> QED
      BY <1>2, <1>6, <2>1, <2>4, <3>1, Zenon DEF MapOK
  <2> QED
    BY <2>2, <2>3, <2>4, Zenon DEF Maps
<1>14. Private'
  <2>1. \A q \in Proc, k \in 0..Old : Only(q, k) => Only(q, k)'
    BY <1>2 DEF Only, page
  <2>2. \A q \in Proc : pc'[q] \in {"incpgrc", "use", "kfree", "put"} =>
                           pc'[q] = pc[q] /\ job'[q] = job[q]
    BY <1>6, <1>7, Zenon
  <2>3. perm' = perm
    BY <1>2, Zenon
  <2> QED
    BY <2>1, <2>2, <2>3, Places, Zenon DEF Private
<1>15. Counts'
  <2>1. \A q \in Proc : pc'[q] \in {"incpgrc", "forkinc"} \/ pc[q] \in {"incpgrc", "forkinc"}
                           => pc'[q] = pc[q] /\ job'[q] = job[q]
    BY <1>2, <1>3, <1>6, <1>7, Zenon
  <2>2. \A q \in Proc, k \in 0..Old : pending(q, k)' <=> pending(q, k)
    BY <2>1, Zenon DEF pending
  <2> QED
    BY <1>2, <2>2, CountsKept, Zenon
<1>16. Contents'
  <2>1. \A q \in Proc : Growing(q)' => Growing(q) /\ job'[q] = job[q] /\ sz'[q] = sz[q]
    BY <1>6, <1>7, Zenon DEF Growing, Allocating
  <2> QED
    BY <1>2, <2>1, Zenon DEF Contents
<1> QED
  BY <1>8, <1>11, <1>12, <1>13, <1>14, <1>15, <1>16, Zenon

-----------------------------------------------------------------------------
(***************************************************************************)
(* Counting the places that hold a page.                                   *)
(***************************************************************************)
\* Membership of the counted places of a page, before and after a step, and what
\* a count of zero means.
LEMMA InCounted ==
    ASSUME NEW g
    PROVE  /\ Counted(g) \in SUBSET Slot /\ Counted(g)' \in SUBSET Slot
           /\ \A p \in Proc, k \in 0..Old : /\ <<p, k>> \in Counted(g) <=> counts(p, k, g)
                                            /\ <<p, k>> \in Counted(g)' <=> counts(p, k, g)'
<1>1. Counted(g) \in SUBSET Slot /\ Counted(g)' \in SUBSET Slot
  BY Zenon DEF Counted, Holders, Slot
<1>2. \A p \in Proc, k \in 0..Old : /\ <<p, k>> \in Counted(g) <=> counts(p, k, g)
                                    /\ <<p, k>> \in Counted(g)' <=> counts(p, k, g)'
  BY Zenon DEF Counted, Holders, Uncounted, counts, Slot
<1> QED
  BY <1>1, <1>2, Zenon

\* After a step, a count of zero means that no place is counted.
LEMMA NoneCounted ==
    ASSUME Counting, NEW g
    PROVE  (\A p \in Proc, k \in 0..Old : ~counts(p, k, g)') <=> Cardinality(Counted(g))' = 0
<1>1. Cardinality(Counted(g))' = 0 <=> Counted(g)' = {}
  BY InCounted, Zenon DEF Counting
<1>2. Counted(g)' = {} <=> \A p \in Proc, k \in 0..Old : <<p, k>> \notin Counted(g)'
  BY InCounted DEF Slot
<1> QED
  BY <1>1, <1>2, InCounted, Zenon

\* A page whose counted places stay the same keeps its count.
LEMMA CountKept ==
    ASSUME NEW g, \A q \in Proc, k \in 0..Old : counts(q, k, g)' <=> counts(q, k, g)
    PROVE  Counted(g)' = Counted(g)
<1>1. ASSUME NEW s \in Slot PROVE s \in Counted(g)' <=> s \in Counted(g)
  <2>1. PICK q \in Proc, k \in 0..Old : s = <<q, k>>
    BY DEF Slot
  <2> QED
    BY <2>1, InCounted, Zenon
<1> QED
  BY <1>1, InCounted, Zenon

\* One more counted place makes one more reference.
LEMMA CountUp ==
    ASSUME Counting, NEW g, NEW p \in Proc, NEW i \in 0..Old, ~counts(p, i, g),
           \A q \in Proc, k \in 0..Old :
              counts(q, k, g)' <=> counts(q, k, g) \/ (q = p /\ k = i)
    PROVE  Cardinality(Counted(g))' = Cardinality(Counted(g)) + 1
<1>1. ASSUME NEW s \in Slot
      PROVE  s \in Counted(g)' <=> s \in Counted(g) \/ s = <<p, i>>
  <2>1. PICK q \in Proc, k \in 0..Old : s = <<q, k>>
    BY DEF Slot
  <2> QED
    BY <2>1, InCounted, Zenon
<1>2. <<p, i>> \in Slot /\ <<p, i>> \notin Counted(g)
  BY InCounted, Zenon DEF Slot
<1>3. Counted(g)' = Counted(g) \cup {<<p, i>>}
  BY <1>1, <1>2, InCounted, Zenon
<1>4. Cardinality(Counted(g) \cup {<<p, i>>}) = Cardinality(Counted(g)) + 1
  BY <1>2, InCounted, Zenon DEF Counting
<1> QED
  BY <1>3, <1>4, Zenon

\* One counted place less makes one reference less, and there was one.
LEMMA CountDown ==
    ASSUME Counting, NEW g, NEW p \in Proc, NEW i \in 0..Old, counts(p, i, g),
           \A q \in Proc, k \in 0..Old :
              counts(q, k, g)' <=> counts(q, k, g) /\ ~(q = p /\ k = i)
    PROVE  /\ Cardinality(Counted(g)) \in Nat \ {0}
           /\ Cardinality(Counted(g))' = Cardinality(Counted(g)) - 1
<1>1. ASSUME NEW s \in Slot
      PROVE  s \in Counted(g)' <=> s \in Counted(g) /\ s # <<p, i>>
  <2>1. PICK q \in Proc, k \in 0..Old : s = <<q, k>>
    BY DEF Slot
  <2> QED
    BY <2>1, InCounted, Zenon
<1>2. <<p, i>> \in Counted(g)
  BY InCounted, Zenon
<1>3. PICK S \in SUBSET Slot : /\ S = Counted(g)' /\ <<p, i>> \in Slot \ S
                               /\ Counted(g) = S \cup {<<p, i>>}
  BY <1>1, <1>2, InCounted, Zenon
<1>4. Cardinality(S) \in Nat /\ Cardinality(S \cup {<<p, i>>}) = Cardinality(S) + 1
  BY <1>3, Zenon DEF Counting
<1> QED
  BY <1>3, <1>4

\* A reference that moves from one place of a process to another keeps the count.
LEMMA CountMoved ==
    ASSUME Counting, NEW g, NEW p \in Proc, NEW i \in 0..Old, NEW j \in 0..Old,
           counts(p, i, g), ~counts(p, j, g),
           \A q \in Proc, k \in 0..Old :
              counts(q, k, g)' <=> \/ counts(q, k, g) /\ ~(q = p /\ k = i)
                                   \/ q = p /\ k = j
    PROVE  Cardinality(Counted(g))' = Cardinality(Counted(g))
<1> DEFINE S == Counted(g) \ {<<p, i>>}
<1>1. ASSUME NEW s \in Slot
      PROVE  s \in Counted(g)' <=> (s \in Counted(g) /\ s # <<p, i>>) \/ s = <<p, j>>
  <2>1. PICK q \in Proc, k \in 0..Old : s = <<q, k>>
    BY DEF Slot
  <2> QED
    BY <2>1, InCounted, Zenon
<1>2. <<p, i>> \in Counted(g) /\ <<p, j>> \in Slot /\ <<p, j>> \notin S
  BY InCounted, Zenon DEF Slot
<1>3. Counted(g)' = S \cup {<<p, j>>} /\ Counted(g) = S \cup {<<p, i>>}
  BY <1>1, <1>2, InCounted, Zenon
<1>4. S \in SUBSET Slot /\ <<p, i>> \in Slot \ S /\ <<p, j>> \in Slot \ S
  BY <1>2, InCounted, Zenon
<1> HIDE DEF S
<1>5. /\ Cardinality(S \cup {<<p, i>>}) = Cardinality(S) + 1
      /\ Cardinality(S \cup {<<p, j>>}) = Cardinality(S) + 1
  BY <1>4, Zenon DEF Counting
<1> QED
  BY <1>3, <1>5, Zenon

\* kfree() of a page from a place that held a counted reference: the count stays
\* exact, the page reaches the free list exactly with its last reference, and no
\* page still held is overwritten.
LEMMA Freed ==
    ASSUME Counting, CowInv, NEW g \in Page, NEW p \in Proc, NEW i \in 0..Old,
           page(p, i) = g, ~pending(p, i), pc[p] # "forkinc", kfree(g),
           \A q \in Proc, k \in 0..Old :
              page(q, k)' = IF q = p /\ k = i THEN None ELSE page(q, k),
           \A q \in Proc, k \in 0..Old : pending(q, k)' <=> pending(q, k)
    PROVE  /\ Counts' /\ pgrc' \in [Page -> Nat] /\ freelist' \subseteq Page
           /\ mem' \in [Page -> Val \cup {Junk}]
           /\ \A q \in Proc, k \in 0..Old : page(q, k)' \in Page =>
                                               mem'[page(q, k)'] = mem[page(q, k)']
<1> USE DEF CowInv
<1>1. \A h \in Page : h # g =>
         \A q \in Proc, k \in 0..Old : counts(q, k, h)' <=> counts(q, k, h)
  BY Consts, Zenon DEF counts
<1>2. \A q \in Proc, k \in 0..Old :
         counts(q, k, g)' <=> counts(q, k, g) /\ ~(q = p /\ k = i)
  BY Consts, Zenon DEF counts
<1>3. counts(p, i, g)
  BY Zenon DEF counts
<1>4. /\ Cardinality(Counted(g)) \in Nat \ {0}
      /\ Cardinality(Counted(g))' = Cardinality(Counted(g)) - 1
  BY <1>2, <1>3, CountDown, Zenon
<1>5. \A h \in Page : h # g => Counted(h)' = Counted(h)
  BY <1>1, CountKept, Zenon
<1>6. pgrc' = [pgrc EXCEPT ![g] = @ - 1] /\ pgrc[g] = Cardinality(Counted(g))
  BY Zenon DEF kfree, Counts
<1>7. pgrc' \in [Page -> Nat] /\ \A h \in Page : pgrc'[h] = Cardinality(Counted(h))'
  BY <1>4, <1>5, <1>6 DEF Counts, TypeOK
<1>8. pgrc'[g] = 0 => \A q \in Proc, k \in 0..Old : page(q, k)' # g
  <2> SUFFICES ASSUME pgrc'[g] = 0, NEW q \in Proc, NEW k \in 0..Old, page(q, k)' = g
               PROVE  FALSE
    BY Zenon
  <2>1. \A r \in Proc, j \in 0..Old : ~counts(r, j, g)'
    BY <1>7, NoneCounted, Zenon
  <2>2. pending(q, k) /\ page(q, k) = g /\ ~(q = p /\ k = i)
    BY <2>1, Consts, Zenon DEF counts
  <2>3. CASE pc[q] = "incpgrc" /\ k = New
    BY <2>2, <2>3 DEF Private, Only
  <2>4. ASSUME NEW r \in Proc, pc[r] = "forkinc", job[r].peer = q, job[r].cur = k
        PROVE  FALSE
    <3>1. k \in VA /\ k <= job[r].cur
      <4>1. job[r].cur < sz[r] /\ sz[r] \in 0..NPage
        BY <2>4, Zenon DEF Jobs, JobOK, TypeOK
      <4>2. job[r].cur \in 0..NPage
        BY JobType, Zenon
      <4> QED
        BY <2>4, <4>1, <4>2, Consts DEF VA
    <3>2. pa[r][k] = pa[q][k]
      BY <2>4, <3>1, Zenon DEF Maps, MapOK
    <3>3. page(r, k) = g
      BY <2>2, <3>1, <3>2, Pages
    <3>4. ~pending(r, k)
      BY <2>4, NotPending, Zenon
    <3> QED
      BY <2>1, <2>4, <3>3, <3>4, Zenon DEF counts
  <2> QED
    BY <2>2, <2>3, <2>4, Zenon DEF pending
<1>9. \A h \in Page : h \in freelist' <=> \A q \in Proc, k \in 0..Old : page(q, k)' # h
  <2>1. ASSUME NEW h \in Page, h # g
        PROVE  h \in freelist' <=> \A q \in Proc, k \in 0..Old : page(q, k)' # h
    <3>1. h \in freelist' <=> h \in freelist
      BY <2>1, Zenon DEF kfree
    <3> QED
      BY <2>1, <3>1, Consts DEF Counts
  <2>2. CASE pgrc'[g] = 0
    BY <1>8, <2>1, <2>2, Zenon DEF kfree
  <2>3. CASE pgrc'[g] # 0
    <3>1. g \notin freelist'
      BY <2>3, Zenon DEF kfree, Counts
    <3>2. \E q \in Proc, k \in 0..Old : counts(q, k, g)'
      BY <1>7, <2>3, NoneCounted, Zenon
    <3> QED
      BY <2>1, <3>1, <3>2, Zenon DEF counts
  <2> QED
    BY <2>2, <2>3, Zenon
<1>10. Counts'
  BY <1>7, <1>9, Zenon DEF Counts
<1>11. freelist' \subseteq Page /\ mem' \in [Page -> Val \cup {Junk}]
  BY Zenon DEF kfree, TypeOK
<1>12. \A q \in Proc, k \in 0..Old : page(q, k)' \in Page =>
                                       mem'[page(q, k)'] = mem[page(q, k)']
  BY <1>8, Zenon DEF kfree, TypeOK
<1> QED
  BY <1>7, <1>10, <1>11, <1>12, Zenon

-----------------------------------------------------------------------------
(***************************************************************************)
(* Allocating a page, and breaking the sharing of one.                     *)
(***************************************************************************)
\* kalloc() taking a page off the free list keeps the invariant.
LEMMA KallocStep ==
    ASSUME CowInv, NEW p \in Proc, kalloc(p)
    PROVE  CowInv'
<1> USE DEF CowInv
<1>1. PICK g \in freelist : /\ freelist' = freelist \ {g} /\ mem' = [mem EXCEPT ![g] = Junk]
                            /\ new' = [new EXCEPT ![p] = g]
  BY Zenon DEF kalloc
<1>2. /\ pc[p] = "kalloc" /\ pc' = [pc EXCEPT ![p] = "incpgrc"]
      /\ UNCHANGED <<pgrc, pa, perm, sz, job, old, killed>>
  BY Zenon DEF kalloc
<1>3. /\ pc'[p] = "incpgrc" /\ \A q \in Proc : q # p => pc'[q] = pc[q]
      /\ new'[p] = g /\ \A q \in Proc : q # p => new'[q] = new[q]
      /\ g \in Page
  BY <1>1, <1>2, Zenon DEF TypeOK
<1>4. \A q \in Proc, k \in 0..Old : page(q, k) # g
  BY <1>3, Zenon DEF Counts
<1>5. \A q \in Proc, k \in 0..Old :
         page(q, k)' = IF q = p /\ k = New THEN g ELSE page(q, k)
  BY <1>2, <1>3, Places, Zenon DEF page
<1>6. \A q \in Proc, k \in 0..Old : pending(q, k)' <=> pending(q, k) \/ (q = p /\ k = New)
  BY <1>2, <1>3, Zenon DEF pending
<1>7. page(p, New) = None
  <2>1. new[p] = None
    BY <1>2, Zenon DEF Locals, TypeOK
  <2> QED
    BY <2>1, Pages, Zenon
<1>8. TypeOK'
  BY <1>1, <1>2, <1>3, Zenon DEF TypeOK
<1>9. Jobs'
  <2>1. JobOK(p)'
    BY <1>2, <1>3, Zenon DEF Jobs, JobOK, Allocating, Growing, Working
  <2>2. \A q \in Proc : q # p => JobOK(q)'
    BY <1>2, <1>3, JobFrames, Zenon
  <2>3. \A q \in Proc : Working(q)' => Working(q)
    BY <1>2, <1>3, Zenon DEF Working
  <2> QED
    BY <1>2, <2>1, <2>2, <2>3, Zenon DEF Jobs
<1>10. Locals'
  BY <1>2, <1>3, Zenon DEF Locals
<1>11. Maps'
  <2>1. \A q \in Proc, vb \in VA : q # p => MapOK(q, vb)'
    BY <1>2, <1>3, MapFrames, Zenon
  <2>2. ASSUME NEW vb \in VA PROVE MapOK(p, vb)'
    <3>1. MapOK(p, vb)
      BY Zenon DEF Maps
    <3> QED
      BY <1>2, <1>3, <3>1, Zenon DEF MapOK, Valid, Growing, Allocating
  <2> QED
    BY <2>1, <2>2, Zenon DEF Maps
<1>12. Private'
  <2>1. Only(p, New)'
    BY <1>4, <1>5, Places DEF Only
  <2>2. \A q \in Proc, k \in 0..Old : Only(q, k) /\ ~(q = p /\ k = New) => Only(q, k)'
    BY <1>4, <1>5 DEF Only
  <2> QED
    BY <1>2, <1>3, <2>1, <2>2, Places, Zenon DEF Private
<1>13. Counts'
  <2>1. \A h \in Page : \A q \in Proc, k \in 0..Old : counts(q, k, h)' <=> counts(q, k, h)
    BY <1>5, <1>6, <1>7, Consts, Zenon DEF counts
  <2>2. \A h \in Page : Counted(h)' = Counted(h)
    BY <2>1, CountKept, Zenon
  <2>3. \A h \in Page : h \in freelist' <=> \A q \in Proc, k \in 0..Old : page(q, k)' # h
    BY <1>1, <1>5, <1>7, Places, Consts DEF Counts
  <2> QED
    BY <1>2, <2>2, <2>3, Zenon DEF Counts
<1>14. Contents'
  <2>1. \A q \in Proc, va \in VA : pa[q][va] # None => mem'[pa[q][va]] = mem[pa[q][va]]
    BY <1>1, <1>4, Pages, Places DEF TypeOK
  <2>2. \A q \in Proc : Growing(q)' <=> Growing(q)
    BY <1>2, <1>3, Zenon DEF Growing, Allocating
  <2>3. \A q \in Proc, va \in VA : perm[q][va] = "W" => pa[q][va] # None
    BY Writable, Consts, Zenon
  <2> QED
    BY <1>2, <2>1, <2>2, <2>3 DEF Contents
<1> QED
  BY <1>8, <1>9, <1>10, <1>11, <1>12, <1>13, <1>14, Zenon

\* The incpgrc() at the end of kalloc() keeps the invariant.
LEMMA KallocIncStep ==
    ASSUME Counting, CowInv, NEW p \in Proc, kalloc_inc(p)
    PROVE  CowInv'
<1> USE DEF CowInv
<1>1. /\ pc[p] = "incpgrc" /\ pc' = [pc EXCEPT ![p] = "use"]
      /\ pgrc' = [pgrc EXCEPT ![new[p]] = @ + 1]
      /\ UNCHANGED <<freelist, mem, pa, perm, sz, job, new, old, killed>>
  BY Zenon DEF kalloc_inc, incpgrc
<1>2. pc'[p] = "use" /\ \A q \in Proc : q # p => pc'[q] = pc[q]
  BY <1>1, Zenon DEF TypeOK
<1>3. \A q \in Proc, k \in 0..Old : page(q, k)' = page(q, k)
  BY <1>1, Zenon DEF page
<1>4. \A q \in Proc, k \in 0..Old : pending(q, k)' <=> pending(q, k) /\ ~(q = p /\ k = New)
  <2>1. \A q \in Proc : pc[q] = "forkinc" => job[q].peer # p
    BY <1>1, Zenon DEF Jobs, JobOK, Working
  <2> QED
    BY <1>1, <1>2, <2>1, Zenon DEF pending
<1>5. PICK g \in Page : g = new[p]
  BY <1>1, Zenon DEF Locals
<1>6. TypeOK'
  BY <1>1, <1>5 DEF TypeOK
<1>7. Jobs'
  <2>1. JobOK(p)'
    BY <1>1, <1>2, Zenon DEF Jobs, JobOK, Allocating, Growing, Working
  <2>2. \A q \in Proc : q # p => JobOK(q)'
    BY <1>1, <1>2, JobFrames, Zenon
  <2>3. \A q \in Proc : Working(q)' => Working(q)
    BY <1>1, <1>2, Zenon DEF Working
  <2> QED
    BY <1>1, <2>1, <2>2, <2>3, Zenon DEF Jobs
<1>12. Locals'
  BY <1>1, <1>2, Zenon DEF Locals
<1>8. Maps'
  <2>1. \A q \in Proc, vb \in VA : q # p => MapOK(q, vb)'
    BY <1>1, <1>2, MapFrames, Zenon
  <2>2. ASSUME NEW vb \in VA PROVE MapOK(p, vb)'
    <3>1. MapOK(p, vb)
      BY Zenon DEF Maps
    <3> QED
      BY <1>1, <1>2, <3>1, Zenon DEF MapOK, Valid, Growing, Allocating
  <2> QED
    BY <2>1, <2>2, Zenon DEF Maps
<1>9. Private'
  <2>1. \A q \in Proc, k \in 0..Old : Only(q, k) => Only(q, k)'
    BY <1>3 DEF Only
  <2> QED
    BY <1>1, <1>2, <2>1, Places, Zenon DEF Private
<1>10. Counts'
  <2>1. page(p, New) = g /\ pending(p, New)
    BY <1>1, <1>5, Pages, Zenon DEF pending
  <2>2. \A h \in Page : h # g =>
           \A q \in Proc, k \in 0..Old : counts(q, k, h)' <=> counts(q, k, h)
    BY <1>3, <1>4, <2>1, Zenon DEF counts
  <2>3. \A h \in Page : h # g => Counted(h)' = Counted(h)
    BY <2>2, CountKept, Zenon
  <2>4. /\ ~counts(p, New, g)
        /\ \A q \in Proc, k \in 0..Old :
              counts(q, k, g)' <=> counts(q, k, g) \/ (q = p /\ k = New)
    BY <1>3, <1>4, <2>1, Zenon DEF counts
  <2>5. Cardinality(Counted(g))' = Cardinality(Counted(g)) + 1
    BY <2>4, CountUp, Places
  <2> QED
    BY <1>1, <1>3, <1>5, <2>3, <2>5 DEF Counts, TypeOK
<1>11. Contents'
  <2>1. \A q \in Proc : Growing(q)' <=> Growing(q)
    BY <1>1, <1>2, Zenon DEF Growing, Allocating
  <2> QED
    BY <1>1, <2>1, Zenon DEF Contents
<1> QED
  BY <1>6, <1>7, <1>8, <1>9, <1>10, <1>11, <1>12, Zenon

\* Copying a shared page and redirecting the PTE keeps the invariant: the
\* reference to the shared page moves to the local variable of the fault.
LEMMA CowCopyStep ==
    ASSUME Counting, CowInv, NEW p \in Proc, cow_copy(p)
    PROVE  CowInv'
<1> USE DEF CowInv
<1>1. /\ pc[p] = "use" /\ job[p].why \in {"fault", "copyout"}
      /\ pc' = [pc EXCEPT ![p] = "kfree"]
      /\ UNCHANGED <<freelist, pgrc, sz, job, killed>>
  BY Zenon DEF cow_copy
<1>2. PICK va \in VA : va = job[p].cur /\ va < sz[p]
  <2>1. job[p].cur < sz[p] /\ sz[p] \in 0..NPage
    BY <1>1 DEF TypeOK, Jobs, JobOK, Growing, Allocating
  <2> QED
    BY <2>1, JobType, Consts DEF VA
<1>3. PICK o \in Page : o = pa[p][va]
  <2>1. pa[p][va] # None
    BY <1>1, <1>2, Zenon DEF Maps, MapOK, Valid, Growing
  <2> QED
    BY <2>1 DEF TypeOK
<1>4. PICK g \in Page : g = new[p]
  BY <1>1, Zenon DEF Locals
<1>5. /\ mem' = [mem EXCEPT ![g] = mem[o]] /\ old' = [old EXCEPT ![p] = o]
      /\ pa' = [pa EXCEPT ![p][va] = g] /\ perm' = [perm EXCEPT ![p][va] = "W"]
      /\ new' = [new EXCEPT ![p] = None]
  BY <1>2, <1>3, <1>4, Zenon DEF cow_copy
<1>6. TypeOK'
  BY <1>1, <1>3, <1>4, <1>5, Zenon DEF TypeOK
<1>7. /\ pc'[p] = "kfree" /\ \A q \in Proc : q # p => pc'[q] = pc[q]
      /\ new'[p] = None /\ \A q \in Proc : q # p => new'[q] = new[q]
      /\ old'[p] = o /\ \A q \in Proc : q # p => old'[q] = old[q]
      /\ pa'[p][va] = g /\ \A q \in Proc, vb \in VA : ~(q = p /\ vb = va) => pa'[q][vb] = pa[q][vb]
      /\ perm'[p][va] = "W"
      /\ \A q \in Proc, vb \in VA : ~(q = p /\ vb = va) => perm'[q][vb] = perm[q][vb]
  BY <1>1, <1>5, Zenon DEF TypeOK
<1>8. Only(p, New) /\ page(p, New) = g /\ page(p, va) = o /\ page(p, Old) = None
  <2>1. old[p] = None
    BY <1>1, Zenon DEF Locals, TypeOK
  <2>2. Only(p, New)
    BY <1>1, Zenon DEF Private
  <2> QED
    BY <1>3, <1>4, <2>1, <2>2, Pages, Zenon
<1>9. g # o
  BY <1>8, Places, Zenon DEF Only
<1>10. \A q \in Proc, k \in 0..Old :
          page(q, k)' = IF q = p /\ k = New THEN None
                        ELSE IF q = p /\ k = Old THEN o
                        ELSE IF q = p /\ k = va THEN g ELSE page(q, k)
  <2> TAKE q \in Proc, k \in 0..Old
  <2>1. CASE k = New
    BY <1>7, <2>1, Pages, Places
  <2>2. CASE k = Old
    BY <1>7, <2>2, Pages, Places
  <2>3. CASE k \in VA
    BY <1>7, <2>3, Pages, Places
  <2> QED
    BY <2>1, <2>2, <2>3, Places, Zenon
<1>11. \A q \in Proc, k \in 0..Old : pending(q, k)' <=> pending(q, k)
  <2>1. /\ job' = job
        /\ \A q \in Proc : /\ pc'[q] = "forkinc" <=> pc[q] = "forkinc"
                           /\ pc'[q] = "incpgrc" <=> pc[q] = "incpgrc"
    BY <1>1, <1>7, Zenon
  <2> QED
    BY <2>1, Zenon DEF pending
<1>12. \A k : ~pending(p, k)
  BY <1>1, NotPending, Zenon
<1>13. Jobs'
  <2>1. JobOK(p)'
    BY <1>1, <1>7, Zenon DEF Jobs, JobOK, Allocating, Growing, Working
  <2>2. \A q \in Proc : q # p => JobOK(q)'
    BY <1>1, <1>7, JobFrames, Zenon
  <2>3. \A q \in Proc : Working(q)' => Working(q)
    BY <1>1, <1>7, Zenon DEF Working
  <2> QED
    BY <1>1, <2>1, <2>2, <2>3, Zenon DEF Jobs
<1>14. Locals'
  BY <1>1, <1>7, Consts, Zenon DEF Locals
<1>15. Maps'
  <2>1. \A q \in Proc, vb \in VA : q # p => MapOK(q, vb)'
    BY <1>1, <1>7, MapFrames, Zenon
  <2>2. ASSUME NEW vb \in VA PROVE MapOK(p, vb)'
    <3>1. pa[p][vb] # None <=> vb < sz[p]
      BY <1>1, ZenonT(30) DEF Maps, MapOK, Valid, Growing
    <3>2. pa'[p][vb] # None <=> pa[p][vb] # None
      BY <1>3, <1>7, Consts, Zenon
    <3>3. perm'[p][vb] # "R" => pa'[p][vb] # None
      <4>1. MapOK(p, vb)
        BY Zenon DEF Maps
      <4>2. perm[p][vb] # "R" => pa[p][vb] # None
        BY <4>1, Zenon DEF MapOK
      <4>3. CASE vb = va
        BY <1>7, <4>3, Consts, Zenon
      <4>4. CASE vb # va
        BY <1>7, <3>2, <4>2, <4>4, Zenon
      <4> QED
        BY <4>3, <4>4, Zenon
    <3> QED
      BY <1>1, <1>7, <3>1, <3>2, <3>3, Zenon DEF MapOK, Valid, Growing, Allocating
  <2> QED
    BY <2>1, <2>2, Zenon DEF Maps
<1>16. Private'
  <2>1. Only(p, va)'
    BY <1>8, <1>9, <1>10, Consts, Places DEF Only
  <2>2. \A q \in Proc, k \in 0..Old : Only(q, k) /\ ~(q = p /\ k = va) /\ ~(q = p /\ k = New) /\ page(q, k) \in Page
           => Only(q, k)'
    BY <1>8, <1>9, <1>10, Consts, Places DEF Only
  <2>3. \A q \in Proc : q # p /\ pc[q] \in {"incpgrc", "use"} => page(q, New) \in Page
    BY Pages, Zenon DEF Locals
  <2>4. \A q \in Proc, vb \in VA : perm[q][vb] = "W" => page(q, vb) \in Page
    BY Writable, Zenon
  <2>5. \A q \in Proc : pc'[q] \in {"incpgrc", "use"} => Only(q, New)'
    BY <1>1, <1>7, <2>2, <2>3, Places, Zenon DEF Private
  <2>6. \A q \in Proc, vb \in VA : perm'[q][vb] = "W" => Only(q, vb)'
    <3> TAKE q \in Proc, vb \in VA
    <3>1. CASE q = p /\ vb = va
      BY <2>1, <3>1, Zenon
    <3>2. CASE ~(q = p /\ vb = va)
      <4>1. perm'[q][vb] = "W" => Only(q, vb) /\ page(q, vb) \in Page
        BY <1>7, <2>4, <3>2, Zenon DEF Private
      <4>2. vb \in 0..Old /\ vb # New
        BY Places, Zenon
      <4> QED
        BY <2>2, <3>2, <4>1, <4>2, Zenon
    <3> QED
      BY <3>1, <3>2, Zenon
  <2>7. \A q \in Proc : pc'[q] \in {"kfree", "put"} => perm'[q][job[q].cur] = "W"
    <3>1. \A q \in Proc : q # p => perm'[q] = perm[q]
      BY <1>5, Zenon DEF TypeOK
    <3> QED
      BY <1>2, <1>7, <3>1, ZenonT(30) DEF Private
  <2> QED
    BY <1>1, <2>5, <2>6, <2>7, Zenon DEF Private
<1>17. Counts'
  <2>1. \A h \in Page : h # g /\ h # o =>
           \A q \in Proc, k \in 0..Old : counts(q, k, h)' <=> counts(q, k, h)
    BY <1>8, <1>10, <1>11, Consts, Zenon DEF counts
  <2>2. \A h \in Page : h # g /\ h # o => Counted(h)' = Counted(h)
    BY <2>1, CountKept, Zenon
  <2>3. /\ counts(p, va, o) /\ ~counts(p, Old, o)
        /\ \A q \in Proc, k \in 0..Old :
             counts(q, k, o)' <=> \/ counts(q, k, o) /\ ~(q = p /\ k = va)
                                  \/ q = p /\ k = Old
    BY <1>8, <1>9, <1>10, <1>11, <1>12, Consts, Places, Zenon DEF counts
  <2>4. Cardinality(Counted(o))' = Cardinality(Counted(o))
    BY <2>3, CountMoved, Places
  <2>5. /\ counts(p, New, g) /\ ~counts(p, va, g)
        /\ \A q \in Proc, k \in 0..Old :
             counts(q, k, g)' <=> \/ counts(q, k, g) /\ ~(q = p /\ k = New)
                                  \/ q = p /\ k = va
    BY <1>8, <1>9, <1>10, <1>11, <1>12, Consts, Places, Zenon DEF counts
  <2>6. Cardinality(Counted(g))' = Cardinality(Counted(g))
    BY <2>5, CountMoved, Places
  <2>7. \A h \in Page : h \in freelist <=> \A q \in Proc, k \in 0..Old : page(q, k)' # h
    <3>1. \A h \in Page : (\E q \in Proc, k \in 0..Old : page(q, k)' = h)
                           <=> (\E q \in Proc, k \in 0..Old : page(q, k) = h)
      BY <1>8, <1>9, <1>10, Consts, Places
    <3> QED
      BY <3>1, Zenon DEF Counts
  <2> QED
    BY <1>1, <2>2, <2>4, <2>6, <2>7, Zenon DEF Counts
<1>18. Contents'
  <2>1. \A q \in Proc, vb \in VA : ~(q = p /\ vb = va) => pa[q][vb] # g
    <3> TAKE q \in Proc, vb \in VA
    <3>1. page(q, vb) = pa[q][vb] /\ vb \in 0..Old /\ vb # New
      BY Pages, Places, Zenon
    <3> QED
      BY <1>8, <3>1, Zenon DEF Only
  <2>2. \A q \in Proc, vb \in VA : ~(q = p /\ vb = va) /\ pa[q][vb] # None =>
                                      mem'[pa'[q][vb]] = mem[pa[q][vb]]
    BY <1>5, <1>7, <2>1 DEF TypeOK
  <2>3. mem'[pa'[p][va]] = mem[o] /\ mem[o] \in Val
    <3>1. mem'[g] = mem[o]
      BY <1>5, Zenon DEF TypeOK
    <3>2. mem[o] \in Val
      BY <1>3, Consts, Zenon DEF Contents
    <3> QED
      BY <1>7, <3>1, <3>2, Zenon
  <2>4. \A q \in Proc : Growing(q)' => q # p /\ Growing(q)
    BY <1>1, <1>7, Zenon DEF Growing, Allocating
  <2>5. \A q \in Proc, vb \in VA : perm[q][vb] = "W" => pa[q][vb] # None
    BY Writable, Consts, Zenon
  <2> QED
    <3>1. ASSUME NEW q \in Proc, NEW vb \in VA, pa'[q][vb] # None
          PROVE  mem'[pa'[q][vb]] \in Val
      <4>1. CASE q = p /\ vb = va
        BY <2>3, <4>1, Zenon
      <4>2. CASE ~(q = p /\ vb = va)
        <5>1. pa'[q][vb] = pa[q][vb]
          BY <1>7, <4>2, Zenon
        <5>2. mem'[pa'[q][vb]] = mem[pa[q][vb]] /\ pa[q][vb] # None
          BY <2>2, <3>1, <4>2, <5>1, Zenon
        <5> QED
          BY <5>2, Zenon DEF Contents
      <4> QED
        BY <4>1, <4>2, Zenon
    <3>2. ASSUME NEW q \in Proc, NEW vb \in VA,
                 Growing(q)', sz[q] <= vb, vb < job[q].cur
          PROVE  perm'[q][vb] = "W" /\ mem'[pa'[q][vb]] = Zero
      <4>1. q # p /\ perm[q][vb] = "W" /\ mem[pa[q][vb]] = Zero
        BY <2>4, <3>2, Zenon DEF Contents
      <4> QED
        BY <1>7, <2>2, <2>5, <4>1, Zenon
    <3> QED
      BY <1>1, <3>1, <3>2, Zenon DEF Contents
<1> QED
  BY <1>6, <1>13, <1>14, <1>15, <1>16, <1>17, <1>18, Zenon

\* kfree() of the page that was shared keeps the invariant.
LEMMA CowReleaseStep ==
    ASSUME Counting, CowInv, NEW p \in Proc, cow_release(p)
    PROVE  CowInv'
<1> USE DEF CowInv
<1>1. /\ pc[p] = "kfree" /\ kfree(old[p]) /\ old' = [old EXCEPT ![p] = None]
      /\ UNCHANGED <<pa, perm, sz, new, killed>>
  BY Zenon DEF cow_release
<1>2. /\ pc' \in [Proc -> PC] /\ job' \in [Proc -> Job]
      /\ \A q \in Proc : q # p => pc'[q] = pc[q] /\ job'[q] = job[q]
      /\ \/ pc'[p] = "put" /\ job'[p] = job[p] /\ job[p].why = "copyout"
         \/ pc'[p] = "user" /\ job'[p] = NoJob(p) /\ NoJob(p).peer = p
  <2>1. NoJob(p) \in Job /\ NoJob(p).peer = p
    BY Consts DEF NoJob, job_of, Job
  <2>2. CASE job[p].why = "copyout"
    BY <2>2, Zenon DEF cow_release, TypeOK, PC
  <2>3. CASE job[p].why # "copyout"
    <3>1. pc' = [pc EXCEPT ![p] = "user"] /\ job' = [job EXCEPT ![p] = NoJob(p)]
      BY <2>3, Zenon DEF cow_release, Return
    <3>2. pc' \in [Proc -> PC] /\ pc'[p] = "user" /\ \A q \in Proc : q # p => pc'[q] = pc[q]
      BY <3>1, Zenon DEF TypeOK, PC
    <3>3. /\ job' \in [Proc -> Job] /\ job'[p] = NoJob(p)
          /\ \A q \in Proc : q # p => job'[q] = job[q]
      BY <2>1, <3>1, Zenon DEF TypeOK
    <3> QED
      BY <2>1, <3>2, <3>3, Zenon
  <2> QED
    BY <2>2, <2>3, Zenon
<1>3. PICK g \in Page : g = old[p]
  BY <1>1, Zenon DEF Locals
<1>4. old'[p] = None /\ \A q \in Proc : q # p => old'[q] = old[q]
  BY <1>1, Zenon DEF TypeOK
<1>5. page(p, Old) = g /\ \A q \in Proc, k \in 0..Old :
         page(q, k)' = IF q = p /\ k = Old THEN None ELSE page(q, k)
  BY <1>1, <1>3, <1>4, Places, Zenon DEF page
<1>6. \A q \in Proc, k \in 0..Old : pending(q, k)' <=> pending(q, k)
  BY <1>1, <1>2, Zenon DEF pending
<1>7. ~pending(p, Old)
  BY <1>1, NotPending, Zenon
<1>8. /\ Counts' /\ pgrc' \in [Page -> Nat] /\ freelist' \subseteq Page
      /\ mem' \in [Page -> Val \cup {Junk}]
      /\ \A q \in Proc, k \in 0..Old : page(q, k)' \in Page =>
                                          mem'[page(q, k)'] = mem[page(q, k)']
  BY <1>1, <1>3, <1>5, <1>6, <1>7, Places, Freed, ZenonT(30)
<1>9. TypeOK'
  BY <1>1, <1>2, <1>8, Zenon DEF TypeOK, PC
<1>10. Jobs'
  <2>1. JobOK(p)
    BY Zenon DEF Jobs
  <2>2. JobOK(p)'
    BY <1>1, <1>2, <2>1, Zenon DEF JobOK, Allocating, Growing, Working
  <2>3. \A q \in Proc : Working(q)' => Working(q) /\ q # p
    BY <1>1, <1>2, Zenon DEF Working
  <2>4. \A q \in Proc : q # p => JobOK(q)'
    BY <1>1, <1>2, JobFrames, Zenon
  <2> QED
    BY <1>2, <2>2, <2>3, <2>4, JobsKept, Zenon
<1>11. Locals'
  BY <1>1, <1>2, <1>4, Consts, ZenonT(30) DEF Locals
<1>12. Maps'
  <2>3. ~Growing(p)
    BY <1>1, Zenon DEF Growing, Allocating
  <2>1. \A q \in Proc, vb \in VA : q # p => MapOK(q, vb)'
    BY <1>1, <1>2, MapFrames, Zenon
  <2>2. ASSUME NEW vb \in VA PROVE MapOK(p, vb)'
    <3>1. MapOK(p, vb)
      BY DEF Maps
    <3> QED
      BY <1>1, <1>2, <3>1, <2>3, Zenon DEF MapOK, Valid, Growing, Allocating
  <2> QED
    BY <2>1, <2>2 DEF Maps
<1>13. Private'
  <2>1. \A q \in Proc, k \in 0..Old : Only(q, k) /\ page(q, k) \in Page /\ k # Old => Only(q, k)'
    BY <1>5, Consts DEF Only
  <2>2. \A q \in Proc : pc[q] \in {"incpgrc", "use"} => page(q, New) \in Page
    BY Pages, Zenon DEF Locals
  <2>3. \A q \in Proc, vb \in VA : perm[q][vb] = "W" => page(q, vb) \in Page
    BY Writable, Zenon
  <2> QED
    BY <1>1, <1>2, <2>1, <2>2, <2>3, Places, ZenonT(30) DEF Private
<1>14. Contents'
  <2>1. \A q \in Proc, va \in VA : pa[q][va] # None => mem'[pa[q][va]] = mem[pa[q][va]]
    BY <1>1, <1>8, Pages, Places DEF TypeOK
  <2>2. \A q \in Proc : Growing(q)' => Growing(q) /\ job'[q] = job[q]
    BY <1>1, <1>2, Zenon DEF Growing, Allocating
  <2>3. \A q \in Proc, va \in VA : perm[q][va] = "W" => pa[q][va] # None
    BY Writable, Consts, Zenon
  <2> QED
    BY <1>1, <2>1, <2>2, <2>3 DEF Contents
<1> QED
  BY <1>8, <1>9, <1>10, <1>11, <1>12, <1>13, <1>14, Zenon
=============================================================================
