------------------------------- MODULE Umalloc -------------------------------
(***************************************************************************)
(* malloc() and free() of user programs (user/umalloc.c).  An address      *)
(* counts units of sizeof(Header); base, which is in the data segment, is  *)
(* 0 and the heap begins at 1.  The program may call sbrk() itself, so     *)
(* that the pieces morecore() gets need not be adjacent.  Requests are     *)
(* below 2^31 bytes, which the int that sbrk() takes can hold.             *)
(***************************************************************************)
EXTENDS Integers, FiniteSets, FiniteSetsExt

CONSTANTS
    MORE,           \* the 4096 units of morecore()
    TOP,            \* units of memory sbrk() has to give
    Sizes           \* nunits of a request: its bytes in units, and a header

VARIABLES
    ptr, size,      \* the headers
    freep,          \* freep; -1: null
    brk,            \* the first unit not given yet
    used,           \* blocks malloc() has returned and the program not freed
    gaps            \* units sbrk() gave to the program itself

vars == <<ptr, size, freep, brk, used, gaps>>

base == 0

Init ==
    /\ ptr = [a \in 0..TOP |-> 0]
    /\ size = [a \in 0..TOP |-> 0]
    /\ freep = -1
    /\ brk = 1
    /\ used = {}
    /\ gaps = {}

List(p, s, f, b) == [ptr |-> p, size |-> s, freep |-> f, brk |-> b]

\* The loop of free(): the entry after which bp belongs.
RECURSIVE place(_, _, _)
place(h, bp, p) ==
    LET n == h.ptr[p]
    IN  IF (p < bp /\ bp < n) \/ (p >= n /\ (bp > p \/ bp < n)) THEN p
        ELSE place(h, bp, n)

\* bp is joined with the block above it, and then with the one below.
join_upper_not(h, p, bp) == [h EXCEPT !.ptr[bp] = h.ptr[p]]
join_upper(h, p, bp) ==
    LET n == h.ptr[p]
    IN  IF bp + h.size[bp] = n
          THEN [h EXCEPT !.size[bp] = @ + h.size[n], !.ptr[bp] = h.ptr[n]]
          ELSE [h EXCEPT !.ptr[bp] = n]

join_lower(h, p, bp) ==
    IF p + h.size[p] = bp
      THEN [h EXCEPT !.size[p] = @ + h.size[bp], !.ptr[p] = h.ptr[bp]]
      ELSE [h EXCEPT !.ptr[p] = bp]

free_block(h, bp) ==
    LET p == place(h, bp, h.freep)
    IN  [join_lower(join_upper(h, p, bp), p, bp) EXCEPT !.freep = p]

\* sbrk() fails when there is no memory; otherwise the new block is freed.
morecore(h, nu) ==
    LET n == Max({nu, MORE})
    IN  IF h.brk + n > TOP + 1 THEN [ok |-> FALSE, h |-> h]
        ELSE [ok |-> TRUE, h |-> free_block([h EXCEPT !.size[h.brk] = n, !.brk = @ + n], h.brk)]

\* The block p is large enough: all of it, or its upper end.
fit(h, prevp, p, n) ==
    IF h.size[p] = n THEN [h |-> [h EXCEPT !.ptr[prevp] = h.ptr[p], !.freep = prevp], p |-> p]
    ELSE LET q == p + h.size[p] - n
         IN  [h |-> [h EXCEPT !.size[p] = @ - n, !.size[q] = n, !.freep = prevp], p |-> q]

\* The loop of malloc(); p = -1: the request fails.
RECURSIVE search(_, _, _, _)
search(h, prevp, p, n) ==
    CASE h.size[p] >= n -> fit(h, prevp, p, n)
      [] h.size[p] < n /\ p # h.freep -> search(h, p, h.ptr[p], n)
      [] OTHER -> LET m == morecore(h, n)
                  IN  IF m.ok THEN search(m.h, m.h.freep, m.h.ptr[m.h.freep], n)
                      ELSE [h |-> h, p |-> -1]

first_call(h) ==
    IF h.freep = -1 THEN [h EXCEPT !.ptr[base] = base, !.size[base] = 0, !.freep = base] ELSE h

Set(h) == ptr' = h.ptr /\ size' = h.size /\ freep' = h.freep /\ brk' = h.brk
heap == List(ptr, size, freep, brk)

malloc(n) ==
    /\ LET h == first_call(heap)
           r == search(h, h.freep, h.ptr[h.freep], n)
       IN  /\ Set(r.h)
           /\ used' = used \cup ({r.p} \ {-1})
    /\ UNCHANGED gaps

free(bp) ==
    /\ bp \in used
    /\ Set(free_block(heap, bp))
    /\ used' = used \ {bp}
    /\ UNCHANGED gaps

\* The program takes a unit for itself.
sbrk ==
    /\ brk <= TOP
    /\ brk' = brk + 1
    /\ gaps' = gaps \cup {brk}
    /\ UNCHANGED <<ptr, size, freep, used>>

Next == sbrk \/ (\E n \in Sizes : malloc(n)) \/ (\E bp \in used : free(bp))

Spec == Init /\ [][Next]_vars
-----------------------------------------------------------------------------
\* The entries of the circular list.
RECURSIVE Listed(_, _)
Listed(p, seen) == IF p \in seen THEN seen ELSE Listed(ptr[p], seen \cup {p})

Units(p) == p..(p + size[p] - 1)

\* Whatever the order of calls, the units the allocator got from sbrk() are
\* divided between the blocks in use and those on the free list, none in two
\* and none lost; and the list is sorted around the circle with no two free
\* blocks side by side, so that freeing everything gives back the largest
\* requests.
HeapTiled ==
    freep # -1 =>
      LET L == Listed(freep, {})
          Blocks == used \cup (L \ {base})
      IN  /\ base \in L /\ L \cap used = {}
          /\ UNION {Units(p) : p \in Blocks} = (1..(brk - 1)) \ gaps
          /\ \A p, q \in Blocks : p # q => Units(p) \cap Units(q) = {}
          /\ \A p \in L : LET n == ptr[p]
                          IN  /\ p < n => ~\E q \in L : p < q /\ q < n
                              /\ p >= n => p = Max(L) /\ n = base
          /\ \A p, q \in L \ {base} : p + size[p] # q
=============================================================================
