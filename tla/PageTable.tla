----------------------------- MODULE PageTable -----------------------------
(***************************************************************************)
(* User page tables (kernel/vm.c, and proc_pagetable() in kernel/proc.c)   *)
(* as operators.  m is the memory the code works on:                       *)
(*   free   pages kalloc() can still hand out                              *)
(*   tabs   pages of the three-level tree, <<level, position>>; level 2 is *)
(*          the root, and there is no page table when tabs is empty        *)
(*   leaf   the valid entries of level 0, by page number                   *)
(*   sz     the size of the process, in words                              *)
(*   ok     the last call did not fail                                     *)
(*   panic  a panic() was reached                                          *)
(* A page holds PGSIZE words; an entry keeps the page's contents, whether  *)
(* it has PTE_U, and PTE_W and PTE_X.  These pages are not shared: forking *)
(* is in Cow.                                                              *)
(***************************************************************************)
EXTENDS Integers, Sequences, FiniteSets, Functions, TLC

CONSTANTS
    PGSIZE,         \* words in a page
    FAN,            \* entries of a page-table page
    MAXVA           \* pages of an address space

ASSUME PageTableAssumption ==
    /\ PGSIZE \in Nat \ {0} /\ FAN \in Nat \ {0, 1}
    /\ MAXVA \in 3..(FAN^3)

TRAMPOLINE == MAXVA - 1
TRAPFRAME == MAXVA - 2

PGROUNDUP(a) == ((a + PGSIZE - 1) \div PGSIZE) * PGSIZE
Pages(a) == PGROUNDUP(a) \div PGSIZE

NoMemory(free) == [free |-> free, tabs |-> {}, leaf |-> <<>>, sz |-> 0,
                   ok |-> TRUE, panic |-> FALSE]

Fail(m) == [m EXCEPT !.ok = FALSE]
Panic(m) == [m EXCEPT !.panic = TRUE]

\* What follows a call that has not failed, and what is undone if it has.
Then(m, next(_)) == IF m.ok THEN next(m) ELSE m
OrElse(m, undo(_)) == IF m.ok THEN m ELSE Fail(undo(m))

Zeroes == [i \in 0..(PGSIZE - 1) |-> 0]
Entry(u, perm) == [u |-> u, perm |-> perm, data |-> Zeroes]
-----------------------------------------------------------------------------
\* The pages of the tree that lead to page v, below the root.
path(v) == {<<1, v \div (FAN * FAN)>>, <<0, v \div FAN>>}

\* walk() with alloc: a page that is missing on the way is allocated, the
\* upper one first, and stays when there is none for the lower one.
walk(m, v) ==
    LET missing == path(v) \ m.tabs
        n == Cardinality(missing)
    IN  CASE v >= MAXVA -> Fail(Panic(m))
          [] v < MAXVA /\ n <= m.free ->
               [m EXCEPT !.tabs = @ \cup missing, !.free = @ - n, !.ok = TRUE]
          [] OTHER ->
               [m EXCEPT !.tabs = @ \cup {t \in missing : t[1] = 1 /\ m.free > 0},
                         !.free = 0, !.ok = FALSE]

\* A page that the user may access.
walkaddr(m, v) == v \in DOMAIN m.leaf /\ v < MAXVA /\ m.leaf[v].u

mappages(m, v, e) ==
    Then(walk(m, v),
         LAMBDA w : IF v \in DOMAIN w.leaf THEN Panic(w)
                    ELSE [w EXCEPT !.leaf = (v :> e) @@ @])

uvmunmap(m, v, npages, do_free) ==
    LET gone == v..(v + npages - 1)
    IN  IF gone \subseteq DOMAIN m.leaf
          THEN [m EXCEPT !.leaf = Restrict(@, DOMAIN @ \ gone),
                         !.free = IF do_free THEN @ + npages ELSE @]
          ELSE Panic(m)

uvmcreate(m) ==
    IF m.free = 0 THEN Fail(m)
    ELSE [m EXCEPT !.tabs = {<<2, 0>>}, !.free = @ - 1, !.ok = TRUE]

uvmdealloc(m, newsz) ==
    IF newsz >= m.sz THEN m
    ELSE [uvmunmap(m, Pages(newsz), Pages(m.sz) - Pages(newsz), TRUE)
            EXCEPT !.sz = newsz]

\* The loop of uvmalloc(): the pages first to last, from v on.
RECURSIVE uvmalloc_loop(_, _, _, _, _)
uvmalloc_loop(m, v, first, last, e) ==
    IF v > last THEN [m EXCEPT !.ok = TRUE]
    ELSE IF m.free = 0 THEN Fail(uvmunmap(m, first, v - first, TRUE))
    ELSE Then(OrElse(mappages([m EXCEPT !.free = @ - 1], v, e),
                     LAMBDA w : uvmunmap([w EXCEPT !.free = @ + 1], first, v - first, TRUE)),
              LAMBDA w : uvmalloc_loop(w, v + 1, first, last, e))

\* m.sz is the new size unless 0 is returned, for an error or for size 0.
uvmalloc(m, newsz, xperm) ==
    IF newsz < m.sz THEN [m EXCEPT !.ok = TRUE]
    ELSE Then(uvmalloc_loop(m, Pages(m.sz), Pages(m.sz), Pages(newsz) - 1,
                            Entry(TRUE, xperm)),
              LAMBDA w : IF newsz = 0 THEN Fail(w) ELSE [w EXCEPT !.sz = newsz])

freewalk(m) ==
    IF DOMAIN m.leaf # {} THEN Panic(m)
    ELSE [m EXCEPT !.tabs = {}, !.free = @ + Cardinality(m.tabs)]

uvmfree(m) == [freewalk(uvmunmap(m, 0, Pages(m.sz), TRUE)) EXCEPT !.sz = 0]

uvmclear_not(m, v) == m
uvmclear(m, v) ==
    IF v \in DOMAIN m.leaf THEN [m EXCEPT !.leaf[v].u = FALSE] ELSE Panic(m)

\* The user page table of a new process or of exec(), without user memory.
proc_pagetable(m) ==
    LET trampoline(a) == OrElse(mappages(a, TRAMPOLINE, Entry(FALSE, {"X"})), uvmfree)
        trapframe(b) ==
            OrElse(mappages(b, TRAPFRAME, Entry(FALSE, {"W"})),
                   LAMBDA c : uvmfree(uvmunmap(c, TRAMPOLINE, 1, FALSE)))
    IN  Then(Then(uvmcreate(m), trampoline), trapframe)

proc_freepagetable(m) ==
    uvmfree(uvmunmap(uvmunmap(m, TRAMPOLINE, 1, FALSE), TRAPFRAME, 1, FALSE))
-----------------------------------------------------------------------------
\* The words from address a on are s: what memmove() to the pages does.
put(m, a, s) ==
    [m EXCEPT !.leaf = [v \in DOMAIN @ |->
        [@[v] EXCEPT !.data = [i \in 0..(PGSIZE - 1) |->
            LET k == v * PGSIZE + i - a + 1
            IN  IF k \in DOMAIN s THEN s[k] ELSE @[i]]]]]

\* The pages that hold the n words at address a.
Span(a, n) == IF n = 0 THEN {} ELSE (a \div PGSIZE)..((a + n - 1) \div PGSIZE)

\* copyout() to pages that are not shared; for those that are, see Cow.
copyout(m, a, s) ==
    IF \A v \in Span(a, Len(s)) : walkaddr(m, v)
      THEN [put(m, a, s) EXCEPT !.ok = TRUE] ELSE Fail(m)

word(m, a) == m.leaf[a \div PGSIZE].data[a % PGSIZE]

bad == <<-1>>

copyin(m, a, n) ==
    IF \A v \in Span(a, n) : walkaddr(m, v)
      THEN [i \in 1..n |-> word(m, a + i - 1)] ELSE bad

\* The string at address a, without its 0, page by page; at most max words.
RECURSIVE copyinstr(_, _, _)
copyinstr(m, a, max) ==
    IF max = 0 \/ ~walkaddr(m, a \div PGSIZE) THEN bad
    ELSE LET end == (a \div PGSIZE + 1) * PGSIZE
             n == IF end - a > max THEN max ELSE end - a
             null == {i \in 0..(n - 1) : word(m, a + i) = 0}
             upto(k) == [i \in 1..k |-> word(m, a + i - 1)]
             rest == copyinstr(m, end, max - n)
         IN  IF null # {}
               THEN upto(CHOOSE i \in null : \A j \in null : i <= j)
               ELSE IF rest = bad THEN bad ELSE upto(n) \o rest
=============================================================================
