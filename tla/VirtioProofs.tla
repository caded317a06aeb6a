---------------------------- MODULE VirtioProofs ----------------------------
(***************************************************************************)
(* The disk driver gives each caller its own result, whatever the device   *)
(* does in between: a theorem for every number of callers and descriptors. *)
(***************************************************************************)
EXTENDS Virtio, TLAPS

\* The remainder of d * q + r is r.
LEMMA ModIs ==
    ASSUME NEW d \in Nat \ {0}, NEW q \in Int, NEW r \in 0..(d - 1)
    PROVE  (d * q + r) % d = r
  OBVIOUS

\* The quotient and the remainder of an integer.
LEMMA DivMod ==
    ASSUME NEW d \in Nat \ {0}, NEW a \in Int
    PROVE  /\ a \div d \in Int
           /\ a % d \in 0..(d - 1)
           /\ a = d * (a \div d) + (a % d)
  OBVIOUS

\* A uint that wraps at a multiple of d has the remainder it would have without
\* wrapping: `nread % PIPESIZE' goes round the ring even when nread overflows.
LEMMA ModMod ==
    ASSUME NEW d \in Nat \ {0}, NEW w \in Nat \ {0}, w % d = 0, NEW a \in Int
    PROVE  (a % w) % d = a % d
<1> DEFINE m == w \div d  q == a \div w  b == a % w  t == b \div d  r == b % d
<1>1. w = d * m /\ m \in Int
  BY DivMod
<1>2. a = w * q + b /\ q \in Int /\ b \in Int
  BY DivMod
<1>3. b = d * t + r /\ t \in Int /\ r \in 0..(d - 1)
  BY <1>2, DivMod, Zenon
<1> HIDE DEF m, q, b, t, r
<1>4. a = d * (m * q + t) + r
  BY <1>1, <1>2, <1>3
<1>5. m * q + t \in Int
  BY <1>1, <1>2, <1>3
<1>6. a % d = r
  BY <1>3, <1>4, <1>5, ModIs, Zenon
<1> QED
  BY <1>6, Zenon DEF r, b

\* Fewer than d consecutive integers have different remainders.
LEMMA ModApart ==
    ASSUME NEW d \in Nat \ {0}, NEW a \in Int, NEW j \in Nat, NEW k \in Nat, j < k, k < d
    PROVE  (a + j) % d # (a + k) % d
<1> SUFFICES ASSUME (a + j) % d = (a + k) % d PROVE FALSE
  BY Zenon
<1> DEFINE s == (a + j) \div d  t == (a + k) \div d  r == (a + k) % d
<1>1. a + j = d * s + r /\ s \in Int /\ r \in Int
  <2>1. a + j \in Int
    OBVIOUS
  <2>2. /\ (a + j) \div d \in Int /\ (a + j) % d \in 0..(d - 1)
        /\ a + j = d * ((a + j) \div d) + ((a + j) % d)
    BY <2>1, DivMod, Zenon
  <2>3. 0..(d - 1) \subseteq Int
    OBVIOUS
  <2> QED
    BY <2>2, <2>3, Zenon
<1>2. a + k = d * t + r /\ t \in Int
  <2>1. a + k \in Int
    OBVIOUS
  <2> QED
    BY <2>1, DivMod, Zenon
<1> HIDE DEF s, t, r
<1>3. k - j = d * (t - s)
  BY <1>1, <1>2
<1>4. CASE t - s <= 0
  <2>1. d * (t - s) <= 0
    BY <1>1, <1>2, <1>4
  <2> QED
    BY <1>3, <2>1
<1>5. CASE t - s >= 1
  <2>1. d * (t - s) >= d
    BY <1>1, <1>2, <1>5
  <2> QED
    BY <1>3, <2>1
<1> QED
  BY <1>1, <1>2, <1>4, <1>5

\* Addition modulo d wraps at most once.
LEMMA ModPlus ==
    ASSUME NEW d \in Nat \ {0}, NEW a \in 0..(d - 1), NEW b \in 0..d
    PROVE  (a + b) % d = IF a + b < d THEN a + b ELSE a + b - d
<1>1. CASE a + b < d
  BY <1>1, ModIs
<1>2. CASE a + b >= d
  <2>1. a + b = d * 1 + (a + b - d)
    OBVIOUS
  <2> QED
    BY <1>2, <2>1, ModIs
<1> QED
  BY <1>1, <1>2

\* So does subtraction.
LEMMA ModMinus ==
    ASSUME NEW d \in Nat \ {0}, NEW a \in 0..(d - 1), NEW b \in 0..(d - 1)
    PROVE  (a - b) % d = IF a >= b THEN a - b ELSE a - b + d
  OBVIOUS
-----------------------------------------------------------------------------
(***************************************************************************)
(* The rings of the disk driver, and its inductive invariant.              *)
(***************************************************************************)
\* The entries between two counters of a ring, and the place of entry k.
pending(first, last) == (last - first) % WRAP
place(first, k) == ((first + k) % WRAP) % NUM
Entries(ring, first, last) == {ring[place(first, k)] : k \in 0..(pending(first, last) - 1)}

\* No descriptor is twice in a ring.
IsRing(ring, first, last) ==
    /\ ring \in [Desc -> Desc \cup {nil}]
    /\ first \in 0..(WRAP - 1) /\ last \in 0..(WRAP - 1)
    /\ \A k \in 0..(pending(first, last) - 1) : ring[place(first, k)] \in Desc
    /\ \A j, k \in 0..(pending(first, last) - 1) :
          j < k => ring[place(first, j)] # ring[place(first, k)]

\* The requests the device has not fetched, and those it has completed and the
\* handler has not seen.
Asked == Entries(avail, seen, avail_idx)
Done == Entries(used, used_idx, used_tail)

\* The rings that driver and device share, and the requests the device works on.
Rings ==
    /\ IsRing(avail, seen, avail_idx) /\ IsRing(used, used_idx, used_tail)
    /\ inflight \subseteq Desc

\* The types of the other variables.
Fields ==
    /\ free \subseteq Desc
    /\ next \in [Desc -> Desc \cup {nil}]
    /\ addr \in [Desc -> Proc \cup {NoBuf}]
    /\ info \in [Desc -> [b : Proc \cup {NoBuf}, status : {0, 255}]]
    /\ head \in [Proc -> Desc \cup {nil}]
    /\ bdisk \in [Proc -> BOOLEAN]
    /\ data \in [Proc -> Val] /\ disk \in [Proc -> Val]
    /\ pc \in [Proc -> {"idle", "in", "out", "in_sleep", "out_sleep", "woken", "waiting"}]
    /\ isr \in {"off", "loop", "exit"} /\ irq \in BOOLEAN

\* The request of a process has three descriptors that are its own.
Chained(p) ==
    LET a == head[p]
    IN  /\ a \in Desc /\ next[a] \in Desc /\ next[next[a]] \in Desc
        /\ a # next[a] /\ a # next[next[a]] /\ next[a] # next[next[a]]
        /\ chain(a) \cap free = {}
        /\ addr[next[a]] = p /\ info[a].b = p

\* A process has a request while it waits for it, and requests share no
\* descriptor.
Chains ==
    /\ \A p \in Proc : head[p] # nil <=> pc[p] \in {"waiting", "woken"}
    /\ \A p \in Busy : Chained(p)
    /\ \A p, q \in Busy : p # q => chain(head[p]) \cap chain(head[q]) = {}

\* Every descriptor is free or one of the three of a request.
Counted ==
    /\ IsFiniteSet(Busy)
    /\ Cardinality(free) + 3 * Cardinality(Busy) = NUM

\* A request is asked for, in flight or done, and in one place only; b->disk is set
\* until the handler has seen that it is done.
Requests ==
    /\ \A a \in Asked \cup inflight \cup Done : \E p \in Busy : head[p] = a /\ bdisk[p]
    /\ Asked \cap inflight = {} /\ Asked \cap Done = {} /\ inflight \cap Done = {}

\* A request that is done has transferred the data.
Results ==
    /\ \A p \in Proc : pc[p] = "idle" => data[p] = disk[p]
    /\ \A p \in Busy : ~bdisk[p] => data[p] = disk[p]
    /\ \A p \in Busy : head[p] \in Done => data[p] = disk[p] /\ info[head[p]].status = 0

\* Nobody sleeps for something that has happened already.
Justified ==
    /\ used_idx # used_tail => irq \/ isr = "loop"
    /\ \A p \in Proc : pc[p] = "waiting" => bdisk[p]
    /\ \A p \in Proc : pc[p] \in {"in_sleep", "out_sleep"} => Cardinality(free) < 3

\* The inductive invariant of the driver.
VirtioInv == Fields /\ Rings /\ Chains /\ Counted /\ Requests /\ Results /\ Justified

\* The sizes of the rings.
LEMMA RingSizes ==
    /\ NUM \in Nat \ {0} /\ NUM >= 3 /\ WRAP \in Nat \ {0} /\ WRAP % NUM = 0
    /\ NUM <= WRAP /\ NoBuf \notin Proc
<1>1. /\ NUM \in Nat \ {0} /\ NUM >= 3 /\ WRAP \in Nat \ {0} /\ WRAP % NUM = 0
      /\ NoBuf \notin Proc
  BY VirtioAssumption
<1>2. WRAP >= NUM
  <2>1. CASE WRAP < NUM
    <3>1. WRAP = NUM * 0 + WRAP /\ WRAP \in 0..(NUM - 1) /\ 0 \in Int
      BY <1>1, <2>1
    <3>2. WRAP % NUM = WRAP
      BY <1>1, <3>1, ModIs, Zenon
    <3> QED
      BY <1>1, <3>2, Zenon
  <2> QED
    BY <1>1, <2>1
<1> QED
  BY <1>1, <1>2, Zenon

\* Counting modulo 2^16.
LEMMA Inc ==
    ASSUME NEW k \in 0..(WRAP - 1)
    PROVE  inc(k) = (IF k + 1 < WRAP THEN k + 1 ELSE 0) /\ inc(k) \in 0..(WRAP - 1)
<1>1. WRAP \in Nat \ {0} /\ 1 \in 0..WRAP
  BY RingSizes
<1>2. (k + 1) % WRAP = IF k + 1 < WRAP THEN k + 1 ELSE k + 1 - WRAP
  BY <1>1, ModPlus, Zenon
<1> QED
  BY <1>1, <1>2 DEF inc

\* The number of the entries between two counters, also across an overflow.
LEMMA Pending ==
    ASSUME NEW f \in 0..(WRAP - 1), NEW l \in 0..(WRAP - 1)
    PROVE  /\ pending(f, l) = IF l >= f THEN l - f ELSE l - f + WRAP
           /\ pending(f, l) \in 0..(WRAP - 1)
           /\ pending(f, l) = 0 <=> f = l
           /\ pending(f, l) + 1 < WRAP => pending(f, inc(l)) = pending(f, l) + 1
           /\ f # l => pending(inc(f), l) = pending(f, l) - 1
<1>1. WRAP \in Nat \ {0}
  BY RingSizes, Zenon
<1>2. ASSUME NEW a \in 0..(WRAP - 1), NEW b \in 0..(WRAP - 1)
      PROVE  pending(a, b) = IF b >= a THEN b - a ELSE b - a + WRAP
  BY <1>1, ModMinus, Zenon DEF pending
<1>3. pending(f, l) = IF l >= f THEN l - f ELSE l - f + WRAP
  BY <1>2, Zenon
<1>4. /\ inc(l) = (IF l + 1 < WRAP THEN l + 1 ELSE 0) /\ inc(l) \in 0..(WRAP - 1)
      /\ inc(f) = (IF f + 1 < WRAP THEN f + 1 ELSE 0) /\ inc(f) \in 0..(WRAP - 1)
  BY Inc, Zenon
<1>5. /\ pending(f, inc(l)) = IF inc(l) >= f THEN inc(l) - f ELSE inc(l) - f + WRAP
      /\ pending(inc(f), l) = IF l >= inc(f) THEN l - inc(f) ELSE l - inc(f) + WRAP
  BY <1>2, <1>4, Zenon
<1> QED
  BY <1>1, <1>3, <1>4, <1>5

\* Entries less than NUM apart have places of their own, and the place of an entry
\* does not depend on the counter it is found from.
LEMMA Placed ==
    ASSUME NEW f \in 0..(WRAP - 1)
    PROVE  /\ \A k \in Nat : place(f, k) \in Desc /\ place(inc(f), k) = place(f, k + 1)
           /\ place(f, 0) = f % NUM
           /\ \A j, k \in 0..(NUM - 1) : j < k => place(f, j) # place(f, k)
           /\ \A l \in 0..(WRAP - 1) : place(f, pending(f, l)) = l % NUM
<1>1. NUM \in Nat \ {0} /\ WRAP \in Nat \ {0} /\ WRAP % NUM = 0
  BY RingSizes, Zenon
<1>2. ASSUME NEW a \in Int, NEW k \in Int PROVE place(a, k) = (a + k) % NUM
  <2>1. a + k \in Int
    OBVIOUS
  <2> QED
    BY <1>1, <2>1, ModMod, Zenon DEF place
<1>3. ASSUME NEW k \in Nat PROVE place(f, k) \in Desc /\ place(inc(f), k) = place(f, k + 1)
  <2>1. f \in Int /\ k \in Int /\ f + k \in Int /\ f + 1 + k \in Int /\ k + 1 \in Int
    BY <1>1
  <2>2. (f + k) % NUM \in 0..(NUM - 1)
    BY <1>1, <2>1, DivMod, Zenon
  <2>3. place(f, k) \in Desc
    BY <1>2, <2>1, <2>2, Zenon DEF Desc
  <2>4. place(f, k + 1) = (f + 1 + k) % NUM
    <3>1. f + (k + 1) = f + 1 + k
      BY <2>1
    <3> QED
      BY <1>2, <2>1, <3>1, Zenon
  <2>5. place(inc(f), k) = (inc(f) + k) % NUM
    <3>1. inc(f) \in Int
      BY <1>1, Inc
    <3> QED
      BY <1>2, <2>1, <3>1, Zenon
  <2>6. (inc(f) + k) % NUM = (f + 1 + k) % NUM
    <3>1. CASE f + 1 < WRAP
      BY <3>1, Inc, Zenon
    <3>2. CASE ~(f + 1 < WRAP)
      <4>1. inc(f) = 0 /\ f + 1 = WRAP
        BY <1>1, <3>2, Inc
      <4> DEFINE m == WRAP \div NUM  t == k \div NUM  r == k % NUM
      <4>2. WRAP = NUM * m /\ m \in Int
        BY <1>1, DivMod
      <4>3. k = NUM * t + r /\ t \in Int /\ r \in 0..(NUM - 1)
        BY <1>1, <2>1, DivMod, Zenon
      <4> HIDE DEF m, t, r
      <4>4. f + 1 + k = NUM * (m + t) + r /\ m + t \in Int
        <5>1. NUM * m + NUM * t = NUM * (m + t)
          BY <1>1, <4>2, <4>3
        <5> QED
          BY <1>1, <4>1, <4>2, <4>3, <5>1
      <4>5. (f + 1 + k) % NUM = r
        <5> DEFINE n == f + 1 + k  q == m + t
        <5>1. n = NUM * q + r /\ q \in Int /\ NUM \in Nat \ {0}
          BY <1>1, <4>4, ZenonT(30)
        <5> HIDE DEF n, q
        <5>2. n % NUM = r
          BY <4>3, <5>1, ModIs, Zenon
        <5> QED
          BY <5>2, Zenon DEF n
      <4>6. inc(f) + k = k
        BY <2>1, <4>1
      <4> QED
        BY <4>5, <4>6, Zenon DEF r
    <3> QED
      BY <3>1, <3>2, Zenon
  <2> QED
    BY <2>3, <2>4, <2>5, <2>6, Zenon
<1>4. place(f, 0) = f % NUM
  <2>1. f \in Int /\ 0 \in Int /\ f + 0 = f
    BY <1>1
  <2> QED
    BY <1>2, <2>1, Zenon
<1>5. ASSUME NEW j \in 0..(NUM - 1), NEW k \in 0..(NUM - 1), j < k
      PROVE  place(f, j) # place(f, k)
  <2>1. f \in Int /\ j \in Nat /\ k \in Nat /\ j \in Int /\ k \in Int /\ k < NUM
    BY <1>1
  <2>2. (f + j) % NUM # (f + k) % NUM
    BY <1>1, <1>5, <2>1, ModApart, Zenon
  <2> QED
    BY <1>2, <2>1, <2>2, Zenon
<1>6. ASSUME NEW l \in 0..(WRAP - 1) PROVE place(f, pending(f, l)) = l % NUM
  <2>1. pending(f, l) = (IF l >= f THEN l - f ELSE l - f + WRAP) /\ pending(f, l) \in Int
    BY <1>1, Pending
  <2>2. (f + pending(f, l)) % WRAP = l
    <3>1. CASE l >= f
      <4>1. f + pending(f, l) = WRAP * 0 + l /\ 0 \in Int
        BY <1>1, <2>1, <3>1
      <4> QED
        BY <1>1, <4>1, ModIs, Zenon
    <3>2. CASE ~(l >= f)
      <4>1. f + pending(f, l) = WRAP * 1 + l /\ 1 \in Int
        BY <1>1, <2>1, <3>2
      <4> QED
        BY <1>1, <4>1, ModIs, Zenon
    <3> QED
      BY <3>1, <3>2, Zenon
  <2> QED
    BY <2>2, Zenon DEF place
<1> QED
  BY <1>3, <1>4, <1>5, <1>6, Zenon

\* ring[last % NUM] = v.
put(ring, last, v) == [ring EXCEPT ![last % NUM] = v]

\* An entry is added to a ring.
LEMMA RingPut ==
    ASSUME NEW r, NEW f, NEW l, IsRing(r, f, l), pending(f, l) + 1 < NUM,
           NEW v \in Desc, v \notin Entries(r, f, l), NEW s, s = put(r, l, v)
    PROVE  /\ IsRing(s, f, inc(l))
           /\ Entries(s, f, inc(l)) = Entries(r, f, l) \cup {v}
<1> DEFINE len == pending(f, l)
<1>1. /\ f \in 0..(WRAP - 1) /\ l \in 0..(WRAP - 1) /\ r \in [Desc -> Desc \cup {nil}]
      /\ \A k \in 0..(len - 1) : r[place(f, k)] \in Desc
      /\ \A j, k \in 0..(len - 1) : j < k => r[place(f, j)] # r[place(f, k)]
  BY Zenon DEF IsRing
<1>2. NUM \in Nat /\ WRAP \in Nat /\ NUM <= WRAP
  BY RingSizes, Zenon
<1>3. len \in Nat /\ pending(f, inc(l)) = len + 1 /\ inc(l) \in 0..(WRAP - 1)
  <2>1. len \in Nat
    BY <1>1, <1>2, Pending
  <2>2. len + 1 < WRAP
    BY <1>2, <2>1
  <2> QED
    BY <1>1, <2>1, <2>2, Pending, Inc, Zenon
<1>4. l % NUM = place(f, len) /\ place(f, len) \in Desc
  BY <1>1, <1>3, Placed, Zenon
<1>5. \A k \in 0..(len - 1) : place(f, k) # place(f, len) /\ place(f, k) \in Desc
  <2> TAKE k \in 0..(len - 1)
  <2>1. k \in 0..(NUM - 1) /\ len \in 0..(NUM - 1) /\ k < len /\ k \in Nat
    BY <1>2, <1>3
  <2> QED
    BY <1>1, <2>1, Placed, Zenon
<1>6. s[place(f, len)] = v /\ \A k \in 0..(len - 1) : s[place(f, k)] = r[place(f, k)]
  BY <1>1, <1>4, <1>5, Zenon DEF put
<1>7. s \in [Desc -> Desc \cup {nil}]
  BY <1>1, Zenon DEF put
<1> HIDE DEF len
<1>8. 0..(len + 1 - 1) = 0..(len - 1) \cup {len} /\ len \notin 0..(len - 1)
  BY <1>3
<1>9. \A k \in 0..(len - 1) : r[place(f, k)] # v
  BY Zenon DEF Entries, len
<1>10. \A j, k \in 0..len : j < k => s[place(f, j)] # s[place(f, k)]
  <2> TAKE j, k \in 0..len
  <2> HAVE j < k
  <2>1. j \in 0..(len - 1) /\ (k \in 0..(len - 1) \/ k = len)
    BY <1>3
  <2> QED
    BY <1>1, <1>6, <1>9, <2>1, Zenon DEF len
<1>11. \A k \in 0..len : s[place(f, k)] \in Desc
  BY <1>1, <1>3, <1>6 DEF len
<1>12. IsRing(s, f, inc(l))
  <2>1. 0..(pending(f, inc(l)) - 1) = 0..len
    BY <1>3
  <2>2. \A k \in 0..(pending(f, inc(l)) - 1) : s[place(f, k)] \in Desc
    BY <1>11, <2>1, Zenon
  <2>3. \A j, k \in 0..(pending(f, inc(l)) - 1) : j < k => s[place(f, j)] # s[place(f, k)]
    BY <1>10, <2>1, Zenon
  <2> QED
    BY <1>1, <1>3, <1>7, <2>2, <2>3, Zenon DEF IsRing
<1>13. Entries(s, f, inc(l)) = {s[place(f, k)] : k \in 0..len}
  BY <1>3 DEF Entries
<1>14. Entries(r, f, l) = {r[place(f, k)] : k \in 0..(len - 1)}
  BY Zenon DEF Entries, len
<1>15. {s[place(f, k)] : k \in 0..len} = {r[place(f, k)] : k \in 0..(len - 1)} \cup {v}
  <2>1. 0..len = 0..(len - 1) \cup {len}
    BY <1>3
  <2> QED
    BY <1>6, <2>1, Zenon
<1> QED
  BY <1>12, <1>13, <1>14, <1>15, Zenon

\* The first entry of a ring is taken out.
LEMMA RingTake ==
    ASSUME NEW r, NEW f, NEW l, IsRing(r, f, l), pending(f, l) < NUM, f # l,
           NEW s, s = [r EXCEPT ![f % NUM] = nil]
    PROVE  /\ IsRing(s, inc(f), l)
           /\ r[f % NUM] \in Entries(r, f, l) /\ r[f % NUM] \in Desc
           /\ Entries(s, inc(f), l) = Entries(r, f, l) \ {r[f % NUM]}
<1> DEFINE len == pending(f, l)
<1>1. /\ f \in 0..(WRAP - 1) /\ l \in 0..(WRAP - 1) /\ r \in [Desc -> Desc \cup {nil}]
      /\ \A k \in 0..(len - 1) : r[place(f, k)] \in Desc
      /\ \A j, k \in 0..(len - 1) : j < k => r[place(f, j)] # r[place(f, k)]
  BY Zenon DEF IsRing
<1>2. NUM \in Nat /\ WRAP \in Nat /\ NUM <= WRAP
  BY RingSizes, Zenon
<1>3. /\ len \in Nat \ {0} /\ pending(inc(f), l) = len - 1 /\ inc(f) \in 0..(WRAP - 1)
      /\ len < NUM
  BY <1>1, <1>2, Pending, Inc
<1>4. f % NUM = place(f, 0) /\ \A k \in Nat : place(f, k) \in Desc /\ place(inc(f), k) = place(f, k + 1)
  BY <1>1, Placed, Zenon
<1>5. \A k \in 1..(len - 1) : place(f, k) # place(f, 0) /\ place(f, k) \in Desc
  <2> TAKE k \in 1..(len - 1)
  <2>1. k \in 0..(NUM - 1) /\ 0 \in 0..(NUM - 1) /\ 0 < k /\ k \in Nat
    BY <1>2, <1>3
  <2> QED
    BY <1>1, <2>1, Placed, Zenon
<1>6. \A k \in 1..(len - 1) : s[place(f, k)] = r[place(f, k)]
  BY <1>1, <1>4, <1>5, Zenon
<1>7. s \in [Desc -> Desc \cup {nil}]
  BY <1>1, Zenon
<1> HIDE DEF len
<1>8. \A k \in 0..(len - 2) : s[place(inc(f), k)] = r[place(f, k + 1)] /\ k + 1 \in 1..(len - 1)
  <2> TAKE k \in 0..(len - 2)
  <2>1. k \in Nat /\ k + 1 \in 1..(len - 1)
    BY <1>3
  <2> QED
    BY <1>4, <1>6, <2>1, Zenon
<1>9. \A k \in 1..(len - 1) : r[place(f, k)] # r[place(f, 0)]
  <2> TAKE k \in 1..(len - 1)
  <2>1. k \in 0..(len - 1) /\ 0 \in 0..(len - 1) /\ 0 < k
    BY <1>3
  <2> QED
    BY <1>1, <2>1, Zenon DEF len
<1>10. \A j, k \in 0..(len - 2) : j < k => s[place(inc(f), j)] # s[place(inc(f), k)]
  <2> TAKE j, k \in 0..(len - 2)
  <2> HAVE j < k
  <2>1. j + 1 \in 0..(len - 1) /\ k + 1 \in 0..(len - 1) /\ j + 1 < k + 1
    BY <1>3
  <2> QED
    BY <1>1, <1>8, <2>1, ZenonT(30) DEF len
<1>11. \A k \in 0..(len - 2) : s[place(inc(f), k)] \in Desc
  <2> TAKE k \in 0..(len - 2)
  <2>1. k + 1 \in 0..(len - 1)
    BY <1>3
  <2> QED
    BY <1>1, <1>8, <2>1, Zenon DEF len
<1>12. IsRing(s, inc(f), l)
  <2>1. 0..(pending(inc(f), l) - 1) = 0..(len - 2)
    BY <1>3
  <2>2. \A k \in 0..(pending(inc(f), l) - 1) : s[place(inc(f), k)] \in Desc
    BY <1>11, <2>1, Zenon
  <2>3. \A j, k \in 0..(pending(inc(f), l) - 1) :
           j < k => s[place(inc(f), j)] # s[place(inc(f), k)]
    BY <1>10, <2>1, Zenon
  <2> QED
    BY <1>1, <1>3, <1>7, <2>2, <2>3, Zenon DEF IsRing
<1>13. Entries(s, inc(f), l) = {s[place(inc(f), k)] : k \in 0..(len - 2)}
  BY <1>3 DEF Entries
<1>14. Entries(r, f, l) = {r[place(f, k)] : k \in 0..(len - 1)}
  BY Zenon DEF Entries, len
<1>15. {s[place(inc(f), k)] : k \in 0..(len - 2)} = {r[place(f, k)] : k \in 1..(len - 1)}
  <2>1. ASSUME NEW x, x \in {s[place(inc(f), k)] : k \in 0..(len - 2)}
        PROVE  x \in {r[place(f, k)] : k \in 1..(len - 1)}
    BY <1>8, <2>1, Zenon
  <2>2. ASSUME NEW k \in 1..(len - 1)
        PROVE  r[place(f, k)] \in {s[place(inc(f), j)] : j \in 0..(len - 2)}
    <3>1. k - 1 \in 0..(len - 2) /\ (k - 1) + 1 = k
      BY <1>3
    <3> QED
      BY <1>8, <3>1, Zenon
  <2> QED
    BY <2>1, <2>2, Zenon
<1>16. {r[place(f, k)] : k \in 0..(len - 1)} = {r[place(f, k)] : k \in 1..(len - 1)} \cup {r[place(f, 0)]}
  <2>1. 0..(len - 1) = 1..(len - 1) \cup {0}
    BY <1>3
  <2> QED
    BY <2>1, Zenon
<1>17. r[place(f, 0)] \notin {r[place(f, k)] : k \in 1..(len - 1)}
  BY <1>9, Zenon
<1>18. r[place(f, 0)] \in Desc
  BY <1>1, <1>3 DEF len
<1> DEFINE all == {r[place(f, k)] : k \in 0..(len - 1)}
           others == {r[place(f, k)] : k \in 1..(len - 1)}
<1>19. Entries(r, f, l) = all /\ Entries(s, inc(f), l) = others
  BY <1>13, <1>14, <1>15, Zenon
<1>20. all = others \cup {r[f % NUM]} /\ r[f % NUM] \notin others
  BY <1>4, <1>16, <1>17, Zenon
<1> HIDE DEF all, others
<1> QED
  BY <1>4, <1>12, <1>18, <1>19, <1>20, Zenon

INSTANCE FiniteSetTheorems

\* A set of natural numbers has a least element.
LEMMA Least ==
    ASSUME NEW S \in SUBSET Nat, S # {}
    PROVE  \E d \in S : \A j \in S : d <= j
<1> DEFINE R == OpToRel(<, Nat)
<1>1. PICK d \in S : \A j \in S : ~(<<j, d>> \in R)
  <2>1. IsWellFoundedOn(R, Nat)
    BY NatLessThanWellFounded, Zenon
  <2> HIDE DEF R
  <2> QED
    BY <2>1, WFMin, Zenon
<1>2. \A j \in S : ~(j < d)
  BY <1>1, Zenon DEF OpToRel
<1> QED
  BY <1>2

\* alloc3_desc() finds three different free descriptors when there are as many.
LEMMA FreeOnes ==
    ASSUME free \subseteq Desc, Cardinality(free) >= 3
    PROVE  /\ {nth_free(1), nth_free(2), nth_free(3)} \subseteq free
           /\ nth_free(1) # nth_free(2) /\ nth_free(1) # nth_free(3)
           /\ nth_free(2) # nth_free(3)
<1> DEFINE below(d) == {j \in free : j < d}
<1>1. IsFiniteSet(free) /\ free \subseteq Nat /\ Cardinality(free) \in Nat
  <2>1. NUM - 1 \in Int /\ 0 \in Int
    BY RingSizes
  <2>2. IsFiniteSet(Desc)
    BY <2>1, FS_Interval, Zenon DEF Desc
  <2>3. IsFiniteSet(free)
    BY <2>2, FS_Subset, Zenon
  <2> QED
    BY <2>3, FS_CardinalityType DEF Desc
<1>2. ASSUME NEW x, NEW y PROVE IsFiniteSet({x, y}) /\ Cardinality({x, y}) \in 0..2
                               /\ (x # y => Cardinality({x, y}) = 2)
  <2>1. IsFiniteSet({x}) /\ Cardinality({x}) = 1
    BY FS_Singleton, Zenon
  <2>2. {x, y} = {x} \cup {y} /\ (y \in {x} <=> x = y)
    BY Zenon
  <2>3. /\ IsFiniteSet({x} \cup {y})
        /\ Cardinality({x} \cup {y}) = IF y \in {x} THEN Cardinality({x}) ELSE Cardinality({x}) + 1
    BY <2>1, FS_AddElement, Zenon
  <2>4. Cardinality({x} \cup {y}) = IF x = y THEN 1 ELSE 2
    BY <2>1, <2>2, <2>3
  <2> QED
    BY <2>2, <2>3, <2>4
<1>3. \A x, y : free \ {x, y} # {}
  <2> SUFFICES ASSUME NEW x, NEW y, free \subseteq {x, y} PROVE FALSE
    BY Zenon
  <2>1. Cardinality(free) <= Cardinality({x, y})
    BY <1>2, FS_Subset, Zenon
  <2>2. Cardinality({x, y}) \in 0..2
    BY <1>2, Zenon
  <2> HIDE DEF Desc
  <2> QED
    BY <1>1, <2>1, <2>2
<1>4. PICK i1 \in free : \A j \in free : i1 <= j
  BY <1>1, <1>3, Least, Zenon
<1>5. PICK i2 \in free \ {i1} : \A j \in free \ {i1} : i2 <= j
  <2>1. free \ {i1} # {} /\ free \ {i1} \in SUBSET Nat
    BY <1>1, <1>3, Zenon
  <2> QED
    BY <2>1, Least, Zenon
<1>6. PICK i3 \in free \ {i1, i2} : \A j \in free \ {i1, i2} : i3 <= j
  <2>1. free \ {i1, i2} # {} /\ free \ {i1, i2} \in SUBSET Nat
    BY <1>1, <1>3, Zenon
  <2> QED
    BY <2>1, Least, Zenon
<1>7. i1 \in Nat /\ i2 \in Nat /\ i3 \in Nat /\ i1 < i2 /\ i2 < i3
  BY <1>1, <1>4, <1>5, <1>6
<1>8. below(i1) = {} /\ below(i2) = {i1} /\ below(i3) = {i1, i2}
  <2>1. below(i1) = {}
    <3>1. ASSUME NEW j \in free PROVE ~(j < i1)
      BY <1>1, <1>4, <1>7
    <3> QED
      BY <3>1, Zenon
  <2>2. below(i2) = {i1}
    <3>1. ASSUME NEW j \in free PROVE j < i2 <=> j = i1
      BY <1>1, <1>5, <1>7
    <3> QED
      BY <1>4, <3>1, Zenon
  <2>3. below(i3) = {i1, i2}
    <3>1. ASSUME NEW j \in free PROVE j < i3 <=> j = i1 \/ j = i2
      BY <1>1, <1>6, <1>7
    <3> QED
      BY <1>4, <1>5, <3>1, Zenon
  <2> QED
    BY <2>1, <2>2, <2>3, Zenon
<1>9. Cardinality(below(i1)) = 1 - 1 /\ Cardinality(below(i2)) = 2 - 1 /\ Cardinality(below(i3)) = 3 - 1
  <2>1. Cardinality({}) = 0 /\ Cardinality({i1}) = 1 /\ Cardinality({i1, i2}) = 2
    BY <1>2, <1>7, FS_EmptySet, FS_Singleton, Zenon
  <2> QED
    BY <1>8, <2>1
<1>10. ASSUME NEW len, NEW d \in free, Cardinality(below(d)) = len - 1
       PROVE  nth_free(len) \in free /\ Cardinality(below(nth_free(len))) = len - 1
  <2>1. nth_free(len) = CHOOSE j \in free : Cardinality(below(j)) = len - 1
    BY Zenon DEF nth_free
  <2> HIDE DEF below
  <2>2. \E j \in free : Cardinality(below(j)) = len - 1
    BY <1>10, Zenon
  <2>3. LET x == CHOOSE j \in free : Cardinality(below(j)) = len - 1
        IN  x \in free /\ Cardinality(below(x)) = len - 1
    BY <2>2, Zenon
  <2> QED
    BY <2>1, <2>3, Zenon
<1>11. /\ nth_free(1) \in free /\ Cardinality(below(nth_free(1))) = 1 - 1
       /\ nth_free(2) \in free /\ Cardinality(below(nth_free(2))) = 2 - 1
       /\ nth_free(3) \in free /\ Cardinality(below(nth_free(3))) = 3 - 1
  <2> HIDE DEF below
  <2> QED
    BY <1>4, <1>5, <1>6, <1>9, <1>10, Zenon
<1> HIDE DEF below
<1> QED
  BY <1>11

\* The entries of a ring belong to requests of different processes, and a third of
\* the descriptors is enough for them: a ring never overflows.
LEMMA RingHasRoom ==
    ASSUME Fields, Chains, Counted, NEW r, NEW f, NEW l, IsRing(r, f, l),
           \A a \in Entries(r, f, l) : \E p \in Busy : head[p] = a
    PROVE  pending(f, l) + 1 < NUM /\ (Cardinality(free) >= 3 => Cardinality(Busy) + 1 < NUM)
<1> DEFINE len == pending(f, l)
           owner == [k \in 0..(len - 1) |-> info[r[place(f, k)]].b]
<1>1. NUM \in Nat /\ NUM >= 3 /\ WRAP \in Nat
  BY RingSizes, Zenon
<1>2. len \in Nat
  BY <1>1, Pending DEF IsRing
<1>3. ASSUME NEW k \in 0..(len - 1) PROVE owner[k] \in Busy /\ head[owner[k]] = r[place(f, k)]
  <2>1. PICK p \in Busy : head[p] = r[place(f, k)]
    BY Zenon DEF Entries
  <2>2. info[head[p]].b = p
    BY Zenon DEF Chains, Chained
  <2> QED
    BY <2>1, <2>2, Zenon
<1>4. \A j, k \in 0..(len - 1) : j # k => r[place(f, j)] # r[place(f, k)]
  <2> TAKE j, k \in 0..(len - 1)
  <2>1. j < k \/ k < j \/ j = k
    BY <1>2
  <2> QED
    BY <2>1, Zenon DEF IsRing
<1>5. owner \in Injection(0..(len - 1), Busy)
  <2>1. owner \in [0..(len - 1) -> Busy]
    BY <1>3, Zenon
  <2>2. \A j, k \in 0..(len - 1) : owner[j] = owner[k] => j = k
    <3> HIDE DEF owner
    <3> QED
      BY <1>3, <1>4
  <2> HIDE DEF owner, len
  <2> QED
    BY <2>1, <2>2, Zenon DEF Injection, IsInjective
<1>6. IsFiniteSet(Busy) /\ Cardinality(Busy) \in Nat
  BY FS_CardinalityType, Zenon DEF Counted
<1>7. Cardinality(0..(len - 1)) <= Cardinality(Busy)
  <2> HIDE DEF owner, len
  <2> QED
    BY <1>5, <1>6, FS_Injection, Zenon
<1>8. Cardinality(0..(len - 1)) = len
  <2>1. len - 1 \in Int /\ 0 \in Int
    BY <1>2
  <2> HIDE DEF len
  <2> QED
    BY <1>2, <2>1, FS_Interval
<1>9. Cardinality(free) \in Nat
  <2>1. NUM - 1 \in Int /\ 0 \in Int
    BY <1>1
  <2>2. IsFiniteSet(Desc)
    BY <2>1, FS_Interval, Zenon DEF Desc
  <2> QED
    BY <2>2, FS_Subset, FS_CardinalityType, Zenon DEF Fields
<1> HIDE DEF len
<1>10. len + 1 < NUM
  BY <1>1, <1>2, <1>6, <1>7, <1>8, <1>9 DEF Counted
<1> QED
  BY <1>1, <1>6, <1>9, <1>10 DEF len, Counted

\* Steps that leave the requests, the descriptors and the rings alone.
LEMMA RestFrame ==
    ASSUME VirtioInv,
           UNCHANGED <<free, next, addr, info, avail, avail_idx, seen, inflight, used,
                       used_tail, used_idx, bdisk, disk, head>>,
           irq' \in BOOLEAN, isr' \in {"off", "loop", "exit"},
           used_idx # used_tail => irq' \/ isr' = "loop",
           pc' \in [Proc -> {"idle", "in", "out", "in_sleep", "out_sleep", "woken", "waiting"}],
           data' \in [Proc -> Val],
           \A p \in Proc : /\ pc'[p] \in {"waiting", "woken"} <=> pc[p] \in {"waiting", "woken"}
                           /\ pc'[p] = "waiting" => bdisk[p]
                           /\ pc'[p] = "idle" => pc[p] = "idle"
                           /\ pc'[p] \in {"in_sleep", "out_sleep"} => Cardinality(free) < 3
                           /\ data'[p] = data[p] \/ (pc[p] = "idle" /\ pc'[p] # "idle")
    PROVE  VirtioInv'
<1>1. Fields' /\ Rings'
  BY Zenon DEF VirtioInv, Fields, Rings
<1>2. Busy' = Busy /\ Asked' = Asked /\ Done' = Done
  BY Zenon DEF Busy, Asked, Done
<1>3. Chains'
  <2>1. \A p \in Proc : head'[p] # nil <=> pc'[p] \in {"waiting", "woken"}
    BY Zenon DEF VirtioInv, Chains
  <2>2. ASSUME NEW p \in Busy' PROVE Chained(p)'
    BY <1>2, Zenon DEF VirtioInv, Chains, Chained, chain
  <2>3. \A p, q \in Busy' : p # q => chain(head[p])' \cap chain(head[q])' = {}
    BY <1>2, Zenon DEF VirtioInv, Chains, chain
  <2> QED
    BY <2>1, <2>2, <2>3, Zenon DEF Chains
<1>4. Counted' /\ Requests'
  BY <1>2, Zenon DEF VirtioInv, Counted, Requests
<1>5. \A p \in Busy : p \in Proc /\ pc[p] # "idle"
  BY Zenon DEF VirtioInv, Chains, Busy
<1>6. Results'
  <2>1. \A p \in Proc : pc'[p] = "idle" => data'[p] = disk'[p]
    BY Zenon DEF VirtioInv, Results
  <2>2. \A p \in Busy : data'[p] = data[p]
    BY <1>5, Zenon
  <2> QED
    BY <1>2, <2>1, <2>2, Zenon DEF VirtioInv, Results
<1>7. Justified'
  BY Zenon DEF VirtioInv, Justified
<1> QED
  BY <1>1, <1>3, <1>4, <1>6, <1>7, Zenon DEF VirtioInv

\* A call begins, fails to get descriptors, sleeps again or is woken by kill().
LEMMA CallerSteps ==
    ASSUME VirtioInv, NEW p \in Proc,
           \/ \E w \in BOOLEAN, v \in Val : rw(p, w, v)
           \/ alloc_fails(p) \/ kill(p) \/ (finish(p) /\ bdisk[p])
    PROVE  VirtioInv'
<1> DEFINE PC == {"idle", "in", "out", "in_sleep", "out_sleep", "woken", "waiting"}
<1>1. pc \in [Proc -> PC] /\ data \in [Proc -> Val] /\ irq \in BOOLEAN /\ isr \in {"off", "loop", "exit"}
  BY Zenon DEF VirtioInv, Fields
<1>2. /\ used_idx # used_tail => irq \/ isr = "loop"
      /\ \A q \in Proc : /\ pc[q] = "waiting" => bdisk[q]
                         /\ pc[q] \in {"in_sleep", "out_sleep"} => Cardinality(free) < 3
  BY Zenon DEF VirtioInv, Justified
<1>3. CASE \E w \in BOOLEAN, v \in Val : rw(p, w, v)
  <2>1. PICK w \in BOOLEAN, v \in Val : rw(p, w, v)
    BY <1>3, Zenon
  <2>2. /\ UNCHANGED <<free, next, addr, info, avail, avail_idx, seen, inflight, used,
                       used_tail, used_idx, bdisk, disk, head, irq, isr>>
        /\ pc[p] = "idle"
        /\ pc' = [pc EXCEPT ![p] = IF w THEN "out" ELSE "in"] /\ data' = [data EXCEPT ![p] = v]
    BY <2>1, Zenon DEF rw, device
  <2> QED
    BY <1>1, <1>2, <2>2, RestFrame, Zenon
<1>4. CASE alloc_fails(p)
  <2>1. /\ UNCHANGED <<free, next, addr, info, avail, avail_idx, seen, inflight, used,
                       used_tail, used_idx, bdisk, disk, head, irq, isr, data>>
        /\ pc[p] \in {"in", "out"} /\ Cardinality(free) < 3
    BY <1>4, Zenon DEF alloc_fails, device
  <2>2. PICK f \in {pc, wake_free(pc)}, s \in {"in_sleep", "out_sleep"} : pc' = [f EXCEPT ![p] = s]
    BY <1>4, Zenon DEF alloc_fails
  <2>3. /\ f \in [Proc -> PC]
        /\ \A q \in Proc : /\ f[q] \in {"waiting", "woken", "idle"} \/ pc[q] \in {"waiting", "woken", "idle"}
                                => f[q] = pc[q]
                           /\ f[q] \in {"in_sleep", "out_sleep"} => f[q] = pc[q]
    BY <1>1 DEF wake_free
  <2>4. pc' \in [Proc -> PC] /\ pc'[p] = s /\ \A q \in Proc \ {p} : pc'[q] = f[q]
    BY <2>2, <2>3, Zenon
  <2> QED
    BY <1>1, <1>2, <2>1, <2>3, <2>4, RestFrame, Zenon
<1>5. CASE kill(p)
  <2>1. /\ UNCHANGED <<free, next, addr, info, avail, avail_idx, seen, inflight, used,
                       used_tail, used_idx, bdisk, disk, head, irq, isr, data>>
        /\ pc[p] \in {"in_sleep", "out_sleep", "waiting"}
        /\ pc' = [pc EXCEPT ![p] = CASE @ = "in_sleep" -> "in"
                                     [] @ = "out_sleep" -> "out"
                                     [] OTHER -> "woken"]
    BY <1>5, Zenon DEF kill, device
  <2>2. /\ pc' \in [Proc -> PC] /\ \A q \in Proc \ {p} : pc'[q] = pc[q]
        /\ pc'[p] = IF pc[p] = "in_sleep" THEN "in" ELSE IF pc[p] = "out_sleep" THEN "out" ELSE "woken"
    BY <1>1, <2>1, Zenon
  <2> QED
    BY <1>1, <1>2, <2>1, <2>2, RestFrame, Zenon
<1>6. CASE finish(p) /\ bdisk[p]
  <2>1. /\ UNCHANGED <<free, next, addr, info, avail, avail_idx, seen, inflight, used,
                       used_tail, used_idx, bdisk, disk, head, irq, isr, data>>
        /\ pc[p] = "woken" /\ pc' = [pc EXCEPT ![p] = "waiting"]
    BY <1>6, Zenon DEF finish, device
  <2> QED
    BY <1>1, <1>2, <1>6, <2>1, RestFrame, Zenon
<1> QED
  BY <1>3, <1>4, <1>5, <1>6, Zenon

\* The handler begins and ends.  It acknowledges the interrupt first and then looks at
\* the used ring, so that it does not miss a request that is done meanwhile.
LEMMA HandlerSteps ==
    ASSUME VirtioInv, intr \/ intr_exit \/ intr_end
    PROVE  VirtioInv'
<1>1. /\ UNCHANGED <<free, next, addr, info, avail, avail_idx, seen, inflight, used,
                     used_tail, used_idx, bdisk, disk, head, data, pc>>
      /\ isr' \in {"off", "loop", "exit"}
  BY Zenon DEF intr, intr_exit, intr_end, device
<1>2. irq' \in BOOLEAN /\ (used_idx # used_tail => irq' \/ isr' = "loop")
  BY Zenon DEF intr, intr_exit, intr_end, device, VirtioInv, Fields, Justified
<1> QED
  BY <1>1, <1>2, RestFrame, Zenon DEF VirtioInv, Fields, Justified

\* Different processes have different requests, and no process has none of its own.
LEMMA HeadsApart ==
    ASSUME VirtioInv
    PROVE  /\ \A p, q \in Busy : head[p] = head[q] => p = q
           /\ \A p \in Busy : p \in Proc /\ head[p] \in Desc /\ info[head[p]].b = p
  BY Zenon DEF VirtioInv, Chains, Chained, chain, Busy

\* The device takes a request from the avail ring.
LEMMA FetchStep ==
    ASSUME VirtioInv, fetch
    PROVE  VirtioInv'
<1> DEFINE a == avail[seen % NUM]
<1>1. /\ UNCHANGED <<free, next, addr, info, avail_idx, used, used_tail, used_idx, irq, isr,
                     bdisk, data, disk, head, pc>>
      /\ seen # avail_idx /\ inflight' = inflight \cup {a}
      /\ avail' = [avail EXCEPT ![seen % NUM] = nil] /\ seen' = inc(seen)
  BY Zenon DEF fetch
<1>2. /\ IsRing(avail', seen', avail_idx') /\ a \in Asked /\ a \in Desc
      /\ Asked' = Asked \ {a}
  <2>1. IsRing(avail, seen, avail_idx) /\ Fields /\ Chains /\ Counted
    BY Zenon DEF VirtioInv, Rings
  <2>2. \A x \in Entries(avail, seen, avail_idx) : \E p \in Busy : head[p] = x
    BY Zenon DEF VirtioInv, Requests, Asked
  <2>3. pending(seen, avail_idx) + 1 < NUM
    BY <2>1, <2>2, RingHasRoom, Zenon
  <2>4. pending(seen, avail_idx) < NUM
    <3>1. pending(seen, avail_idx) \in Nat /\ NUM \in Nat
      BY <2>1, Pending, RingSizes DEF IsRing
    <3> QED
      BY <2>3, <3>1
  <2> QED
    BY <1>1, <2>1, <2>4, RingTake, Zenon DEF Asked
<1>3. Busy' = Busy /\ Done' = Done
  BY <1>1, Zenon DEF Busy, Done
<1> HIDE DEF a
<1>4. Fields' /\ Counted'
  BY <1>1, <1>3, Zenon DEF VirtioInv, Fields, Counted
<1>5. Rings'
  BY <1>1, <1>2, Zenon DEF VirtioInv, Rings
<1>6. Chains'
  <2>1. ASSUME NEW p \in Busy' PROVE Chained(p)'
    BY <1>1, <1>3, Zenon DEF VirtioInv, Chains, Chained, chain
  <2>2. \A p, q \in Busy' : p # q => chain(head[p])' \cap chain(head[q])' = {}
    BY <1>1, <1>3, Zenon DEF VirtioInv, Chains, chain
  <2> QED
    BY <1>1, <2>1, <2>2, Zenon DEF VirtioInv, Chains
<1>7. Requests'
  BY <1>1, <1>2, <1>3, Zenon DEF VirtioInv, Requests
<1>8. Results' /\ Justified'
  BY <1>1, <1>3, Zenon DEF VirtioInv, Results, Justified
<1> QED
  BY <1>4, <1>5, <1>6, <1>7, <1>8, Zenon DEF VirtioInv

\* The device does the transfer of a request and puts it on the used ring.
LEMMA CompleteStep ==
    ASSUME VirtioInv, NEW a \in Desc, complete(a)
    PROVE  VirtioInv'
<1>1. /\ UNCHANGED <<free, next, addr, avail, avail_idx, seen, used_idx, isr, bdisk, head, pc>>
      /\ a \in inflight /\ inflight' = inflight \ {a} /\ irq' = TRUE
      /\ used' = [used EXCEPT ![used_tail % NUM] = a] /\ used_tail' = inc(used_tail)
      /\ info' = [info EXCEPT ![a].status = 0]
  BY Zenon DEF complete
<1>2. PICK p \in Busy : head[p] = a /\ bdisk[p]
  BY <1>1, Zenon DEF VirtioInv, Requests
<1>3. p \in Proc /\ addr[next[a]] = p
  BY <1>2, Zenon DEF VirtioInv, Chains, Chained, Busy
<1>4. /\ data' \in [Proc -> Val] /\ disk' \in [Proc -> Val] /\ data'[p] = disk'[p]
      /\ \A q \in Proc : q # p => data'[q] = data[q] /\ disk'[q] = disk[q]
  <2>1. data \in [Proc -> Val] /\ disk \in [Proc -> Val]
    BY Zenon DEF VirtioInv, Fields
  <2>2. \/ disk' = [disk EXCEPT ![p] = data[p]] /\ data' = data
        \/ data' = [data EXCEPT ![p] = disk[p]] /\ disk' = disk
    BY <1>3, Zenon DEF complete
  <2> QED
    BY <1>3, <2>1, <2>2, Zenon
<1>5. IsRing(used', used_idx', used_tail') /\ Done' = Done \cup {a}
  <2>1. IsRing(used, used_idx, used_tail) /\ Fields /\ Chains /\ Counted
    BY Zenon DEF VirtioInv, Rings
  <2>2. \A x \in Entries(used, used_idx, used_tail) : \E q \in Busy : head[q] = x
    BY Zenon DEF VirtioInv, Requests, Done
  <2>3. pending(used_idx, used_tail) + 1 < NUM
    BY <2>1, <2>2, RingHasRoom, Zenon
  <2>4. a \in Desc /\ a \notin Entries(used, used_idx, used_tail)
    BY <1>1, Zenon DEF VirtioInv, Requests, Done
  <2> QED
    <3>1. used' = put(used, used_tail, a)
      BY <1>1, Zenon DEF put
    <3>2. /\ IsRing(used', used_idx, inc(used_tail))
          /\ Entries(used', used_idx, inc(used_tail)) = Entries(used, used_idx, used_tail) \cup {a}
      BY <2>1, <2>3, <2>4, <3>1, RingPut
    <3> QED
      BY <1>1, <3>2, Zenon DEF Done
<1>6. Busy' = Busy /\ Asked' = Asked
  BY <1>1, Zenon DEF Busy, Asked
<1>7. /\ info' \in [Desc -> [b : Proc \cup {NoBuf}, status : {0, 255}]]
      /\ info'[a].status = 0
      /\ \A x \in Desc : info'[x].b = info[x].b /\ (x # a => info'[x] = info[x])
  <2>1. info \in [Desc -> [b : Proc \cup {NoBuf}, status : {0, 255}]]
    BY Zenon DEF VirtioInv, Fields
  <2> QED
    BY <1>1, <2>1
<1>8. Fields' /\ Counted'
  BY <1>1, <1>4, <1>6, <1>7, Zenon DEF VirtioInv, Fields, Counted
<1>9. Rings'
  BY <1>1, <1>5, Zenon DEF VirtioInv, Rings
<1>10. Chains'
  <2>1. ASSUME NEW q \in Busy' PROVE Chained(q)'
    <3>1. Chained(q) /\ q \in Busy
      BY <1>6, Zenon DEF VirtioInv, Chains
    <3> QED
      BY <1>1, <1>7, <3>1, Zenon DEF Chained, chain
  <2>2. \A q, r \in Busy' : q # r => chain(head[q])' \cap chain(head[r])' = {}
    BY <1>1, <1>6 DEF VirtioInv, Chains, chain
  <2> QED
    BY <1>1, <2>1, <2>2, Zenon DEF VirtioInv, Chains
<1>11. Requests'
  BY <1>1, <1>5, <1>6, Zenon DEF VirtioInv, Requests
<1>12. Results'
  <2>1. \A q \in Busy : q \in Proc /\ pc[q] # "idle" /\ head[q] \in Desc /\ (head[q] = a => q = p)
    BY <1>2, HeadsApart, Zenon DEF VirtioInv, Chains, Busy
  <2>2. \A q \in Proc : pc'[q] = "idle" => data'[q] = disk'[q]
    BY <1>1, <1>2, <1>4, <2>1, Zenon DEF VirtioInv, Results
  <2>3. \A q \in Busy : ~bdisk[q] => data'[q] = disk'[q]
    BY <1>4, <2>1, Zenon DEF VirtioInv, Results
  <2>4. \A q \in Busy : head[q] \in Done' => data'[q] = disk'[q] /\ info'[head[q]].status = 0
    BY <1>2, <1>4, <1>5, <1>7, <2>1 DEF VirtioInv, Results
  <2> QED
    BY <1>1, <1>6, <2>2, <2>3, <2>4, Zenon DEF Results
<1>13. Justified'
  BY <1>1, Zenon DEF VirtioInv, Justified
<1> QED
  BY <1>8, <1>9, <1>10, <1>11, <1>12, <1>13, Zenon DEF VirtioInv

\* The handler takes an entry of the used ring and wakes its caller.
LEMMA LoopStep ==
    ASSUME VirtioInv, intr_loop
    PROVE  VirtioInv'
<1> DEFINE a == used[used_idx % NUM]
           p == info[a].b
<1>1. /\ UNCHANGED <<free, next, addr, info, avail, avail_idx, seen, inflight, used_tail, irq, isr,
                     data, disk, head>>
      /\ isr = "loop" /\ used_idx # used_tail
      /\ used' = [used EXCEPT ![used_idx % NUM] = nil] /\ used_idx' = inc(used_idx)
      /\ bdisk' = [bdisk EXCEPT ![p] = FALSE]
      /\ pc' = [pc EXCEPT ![p] = IF @ = "waiting" THEN "woken" ELSE @]
  BY Zenon DEF intr_loop, intr_entry, device
<1>2. /\ IsRing(used', used_idx', used_tail') /\ a \in Done /\ a \in Desc
      /\ Done' = Done \ {a}
  <2>1. IsRing(used, used_idx, used_tail) /\ Fields /\ Chains /\ Counted
    BY Zenon DEF VirtioInv, Rings
  <2>2. \A x \in Entries(used, used_idx, used_tail) : \E q \in Busy : head[q] = x
    BY Zenon DEF VirtioInv, Requests, Done
  <2>3. pending(used_idx, used_tail) + 1 < NUM
    BY <2>1, <2>2, RingHasRoom
  <2>4. pending(used_idx, used_tail) < NUM
    <3>1. pending(used_idx, used_tail) \in Nat /\ NUM \in Nat
      BY <2>1, Pending, RingSizes DEF IsRing
    <3> QED
      BY <2>3, <3>1
  <2> QED
    BY <1>1, <2>1, <2>4, RingTake, Zenon DEF Done
<1>3. p \in Busy /\ p \in Proc /\ head[p] = a
  <2>1. PICK q \in Busy : head[q] = a
    BY <1>2, Zenon DEF VirtioInv, Requests
  <2>2. q = p /\ q \in Proc
    BY <2>1, HeadsApart, Zenon
  <2> QED
    BY <2>1, <2>2, Zenon
<1> HIDE DEF a, p
<1>4. Busy' = Busy /\ Asked' = Asked
  BY <1>1, Zenon DEF Busy, Asked
<1>5. /\ bdisk' \in [Proc -> BOOLEAN] /\ ~bdisk'[p] /\ \A q \in Proc : q # p => bdisk'[q] = bdisk[q]
      /\ pc' \in [Proc -> {"idle", "in", "out", "in_sleep", "out_sleep", "woken", "waiting"}]
      /\ pc'[p] = "woken" /\ \A q \in Proc : q # p => pc'[q] = pc[q]
  <2>1. /\ bdisk \in [Proc -> BOOLEAN]
        /\ pc \in [Proc -> {"idle", "in", "out", "in_sleep", "out_sleep", "woken", "waiting"}]
    BY Zenon DEF VirtioInv, Fields
  <2>2. pc[p] \in {"waiting", "woken"}
    BY <1>3, Zenon DEF VirtioInv, Chains, Busy
  <2> QED
    BY <1>1, <1>3, <2>1, <2>2, Zenon
<1>6. Fields' /\ Counted'
  BY <1>1, <1>4, <1>5, Zenon DEF VirtioInv, Fields, Counted
<1>7. Rings'
  BY <1>1, <1>2, Zenon DEF VirtioInv, Rings
<1>8. Chains'
  <2>1. \A q \in Proc : head'[q] # nil <=> pc'[q] \in {"waiting", "woken"}
    BY <1>1, <1>3, <1>5, Zenon DEF VirtioInv, Chains, Busy
  <2>2. ASSUME NEW q \in Busy' PROVE Chained(q)'
    BY <1>1, <1>4, Zenon DEF VirtioInv, Chains, Chained, chain
  <2>3. \A q, r \in Busy' : q # r => chain(head[q])' \cap chain(head[r])' = {}
    BY <1>1, <1>4, Zenon DEF VirtioInv, Chains, chain
  <2> QED
    BY <2>1, <2>2, <2>3, Zenon DEF Chains
<1>9. Requests'
  <2>1. ASSUME NEW x \in Asked \cup inflight \cup Done' PROVE \E q \in Busy : head[q] = x /\ bdisk'[q]
    <3>1. x # a /\ x \in Asked \cup inflight \cup Done
      BY <1>2, Zenon DEF VirtioInv, Requests
    <3>2. PICK q \in Busy : head[q] = x /\ bdisk[q]
      BY <3>1, Zenon DEF VirtioInv, Requests
    <3>3. q # p /\ q \in Proc
      BY <1>3, <3>1, <3>2, Zenon DEF Busy
    <3> QED
      BY <1>5, <3>2, <3>3, Zenon
  <2>2. \A x \in Asked' \cup inflight' \cup Done' : \E q \in Busy' : head'[q] = x /\ bdisk'[q]
    BY <1>1, <1>4, <2>1, Zenon
  <2>3. Asked' \cap inflight' = {} /\ Asked' \cap Done' = {} /\ inflight' \cap Done' = {}
    BY <1>1, <1>2, <1>4, Zenon DEF VirtioInv, Requests
  <2> QED
    BY <2>2, <2>3, Zenon DEF Requests
<1>10. Results'
  <2>1. data[p] = disk[p]
    BY <1>2, <1>3, Zenon DEF VirtioInv, Results
  <2>2. \A q \in Busy : q \in Proc
    BY Zenon DEF Busy
  <2> QED
    BY <1>1, <1>2, <1>3, <1>4, <1>5, <2>1, <2>2, Zenon DEF VirtioInv, Results
<1>11. Justified'
  BY <1>1, <1>3, <1>5, Zenon DEF VirtioInv, Justified
<1> QED
  BY <1>6, <1>7, <1>8, <1>9, <1>10, <1>11, Zenon DEF VirtioInv

\* Three elements more in a finite set.
LEMMA ThreeMore ==
    ASSUME NEW S, IsFiniteSet(S), NEW a, NEW b, NEW c, a \notin S, b \notin S, c \notin S,
           a # b, a # c, b # c
    PROVE  Cardinality(S \cup {a, b, c}) = Cardinality(S) + 3
<1>1. IsFiniteSet(S \cup {a}) /\ Cardinality(S \cup {a}) = Cardinality(S) + 1
  BY FS_AddElement, Zenon
<1>2. /\ IsFiniteSet((S \cup {a}) \cup {b})
      /\ Cardinality((S \cup {a}) \cup {b}) = Cardinality(S \cup {a}) + 1
  <2>1. b \notin S \cup {a}
    BY Zenon
  <2> QED
    BY <1>1, <2>1, FS_AddElement, Zenon
<1>3. Cardinality(((S \cup {a}) \cup {b}) \cup {c}) = Cardinality((S \cup {a}) \cup {b}) + 1
  <2>1. c \notin (S \cup {a}) \cup {b}
    BY Zenon
  <2> QED
    BY <1>2, <2>1, FS_AddElement, Zenon
<1>4. S \cup {a, b, c} = ((S \cup {a}) \cup {b}) \cup {c}
  BY Zenon
<1>5. Cardinality(S) \in Nat
  BY FS_CardinalityType, Zenon
<1> QED
  BY <1>1, <1>2, <1>3, <1>4, <1>5

\* The descriptors are finitely many.
LEMMA FreeIsFinite ==
    ASSUME NEW S \in SUBSET Desc
    PROVE  IsFiniteSet(S) /\ Cardinality(S) \in Nat
<1>1. NUM - 1 \in Int /\ 0 \in Int
  BY RingSizes
<1>2. IsFiniteSet(Desc)
  BY <1>1, FS_Interval, Zenon DEF Desc
<1> QED
  BY <1>2, FS_Subset, FS_CardinalityType, Zenon

\* virtio_disk_rw() puts a request together and on the avail ring.
LEMMA SubmitStep ==
    ASSUME VirtioInv, NEW p \in Proc, submit(p)
    PROVE  VirtioInv'
<1> DEFINE a == nth_free(1)
           b == nth_free(2)
           c == nth_free(3)
<1>1. /\ UNCHANGED <<used_idx, irq, isr, data, disk, used, used_tail, seen, inflight>>
      /\ pc[p] \in {"in", "out"} /\ isr = "off" /\ Cardinality(free) >= 3
      /\ free' = free \ {a, b, c}
      /\ next' = [next EXCEPT ![a] = b, ![b] = c, ![c] = nil]
      /\ addr' = [addr EXCEPT ![b] = p]
      /\ info' = [info EXCEPT ![a] = [b |-> p, status |-> 255]]
      /\ bdisk' = [bdisk EXCEPT ![p] = TRUE]
      /\ avail' = put(avail, avail_idx, a) /\ avail_idx' = inc(avail_idx)
      /\ head' = [head EXCEPT ![p] = a]
      /\ pc' = [pc EXCEPT ![p] = "waiting"]
  BY Zenon DEF submit, device, put
<1>2. /\ a \in free /\ b \in free /\ c \in free /\ a # b /\ a # c /\ b # c
      /\ a \in Desc /\ b \in Desc /\ c \in Desc
  BY <1>1, FreeOnes, Zenon DEF VirtioInv, Fields
<1> HIDE DEF a, b, c
<1>3. nil \notin Desc
  BY DEF nil, Desc
<1>4. Fields'
  BY <1>1, <1>2, Zenon DEF VirtioInv, Fields
<1>5. /\ head[p] = nil /\ p \notin Busy /\ head'[p] = a /\ bdisk'[p] /\ pc'[p] = "waiting"
      /\ \A q \in Proc : q # p => head'[q] = head[q] /\ bdisk'[q] = bdisk[q] /\ pc'[q] = pc[q]
  <2>1. head[p] = nil
    BY <1>1, Zenon DEF VirtioInv, Chains
  <2> QED
    BY <1>1, <2>1 DEF VirtioInv, Fields, Busy
<1>6. Busy' = Busy \cup {p}
  BY <1>2, <1>3, <1>5, Zenon DEF Busy
<1>7. \A q \in Busy : q \in Proc /\ q # p /\ head'[q] = head[q] /\ bdisk'[q] = bdisk[q] /\ pc'[q] = pc[q]
  BY <1>5, Zenon DEF Busy
<1>8. /\ next'[a] = b /\ next'[b] = c /\ addr'[b] = p /\ info'[a] = [b |-> p, status |-> 255]
      /\ \A x \in Desc \ free : next'[x] = next[x] /\ addr'[x] = addr[x] /\ info'[x] = info[x]
  BY <1>1, <1>2 DEF VirtioInv, Fields
<1>9. ASSUME NEW q \in Busy
      PROVE  /\ head[q] \in Desc \ free /\ next[head[q]] \in Desc \ free
             /\ next[next[head[q]]] \in Desc \ free
             /\ chain(head[q])' = chain(head[q])
  <2>1. Chained(q)
    BY Zenon DEF VirtioInv, Chains
  <2>2. /\ head[q] \in Desc \ free /\ next[head[q]] \in Desc \ free
        /\ next[next[head[q]]] \in Desc \ free
    BY <2>1, Zenon DEF Chained, chain
  <2>3. /\ head'[q] = head[q] /\ next'[head[q]] = next[head[q]]
        /\ next'[next[head[q]]] = next[next[head[q]]]
    BY <1>7, <1>8, <2>2, Zenon
  <2> QED
    BY <2>2, <2>3, Zenon DEF chain
<1>10. chain(head[p])' = {a, b, c}
  BY <1>5, <1>8, Zenon DEF chain
<1>11. Chains'
  <2>1. \A q \in Proc : head'[q] # nil <=> pc'[q] \in {"waiting", "woken"}
    BY <1>2, <1>3, <1>5, Zenon DEF VirtioInv, Chains
  <2>2. Chained(p)'
    BY <1>1, <1>2, <1>5, <1>8, <1>10 DEF Chained
  <2>3. ASSUME NEW q \in Busy PROVE Chained(q)'
    <3>1. Chained(q)
      BY DEF VirtioInv, Chains
    <3> QED
      <4>1. /\ next'[head[q]] = next[head[q]] /\ next'[next[head[q]]] = next[next[head[q]]]
            /\ addr'[next[head[q]]] = addr[next[head[q]]] /\ info'[head[q]] = info[head[q]]
        BY <1>8, <1>9
      <4>2. chain(head[q])' \cap free' = {}
        BY <1>1, <1>9, <3>1, Zenon DEF Chained
      <4> QED
        BY <1>7, <3>1, <4>1, <4>2, Zenon DEF Chained
  <2>4. ASSUME NEW q \in Busy', NEW r \in Busy', q # r
        PROVE  chain(head[q])' \cap chain(head[r])' = {}
    <3>1. ASSUME NEW t \in Busy PROVE chain(head[t])' \cap {a, b, c} = {}
      BY <1>2, <1>9 DEF chain
    <3>2. CASE q \in Busy /\ r \in Busy
      BY <1>9, <2>4, <3>2, Zenon DEF VirtioInv, Chains
    <3>3. CASE q = p /\ r \in Busy
      BY <1>10, <3>1, <3>3, Zenon
    <3>4. CASE q \in Busy /\ r = p
      BY <1>10, <3>1, <3>4, Zenon
    <3> QED
      BY <1>6, <2>4, <3>2, <3>3, <3>4, Zenon
  <2> QED
    BY <1>6, <2>1, <2>2, <2>3, <2>4, Zenon DEF Chains
<1>12. IsFiniteSet(free) /\ Cardinality(free) \in Nat /\ IsFiniteSet(free') /\ Cardinality(free') \in Nat
  BY <1>1, FreeIsFinite, Zenon DEF VirtioInv, Fields
<1>13. Counted'
  <2>1. Cardinality(free) = Cardinality(free') + 3
    <3>1. free = free' \cup {a, b, c} /\ a \notin free' /\ b \notin free' /\ c \notin free'
      BY <1>1, <1>2, Zenon
    <3> QED
      BY <1>2, <1>12, <3>1, ThreeMore, Zenon
  <2>2. IsFiniteSet(Busy) /\ Cardinality(free) + 3 * Cardinality(Busy) = NUM
    BY Zenon DEF VirtioInv, Counted
  <2>3. IsFiniteSet(Busy') /\ Cardinality(Busy') = Cardinality(Busy) + 1 /\ Cardinality(Busy) \in Nat
    BY <1>5, <1>6, <2>2, FS_AddElement, FS_CardinalityType, Zenon
  <2>4. Cardinality(free') + 3 * Cardinality(Busy') = NUM
    BY <1>12, <2>1, <2>2, <2>3
  <2> QED
    BY <2>3, <2>4, Zenon DEF Counted
<1>14. \A x \in Asked \cup inflight \cup Done : x \notin free
  BY <1>9, Zenon DEF VirtioInv, Requests
<1>15. IsRing(avail', seen', avail_idx') /\ Asked' = Asked \cup {a}
  <2>1. IsRing(avail, seen, avail_idx) /\ Fields /\ Chains /\ Counted
    BY Zenon DEF VirtioInv, Rings
  <2>2. \A x \in Entries(avail, seen, avail_idx) : \E q \in Busy : head[q] = x
    BY Zenon DEF VirtioInv, Requests, Asked
  <2>3. pending(seen, avail_idx) + 1 < NUM
    BY <2>1, <2>2, RingHasRoom, Zenon
  <2>4. a \notin Entries(avail, seen, avail_idx)
    BY <1>2, <1>14, Zenon DEF Asked
  <2>5. /\ IsRing(avail', seen, inc(avail_idx))
        /\ Entries(avail', seen, inc(avail_idx)) = Entries(avail, seen, avail_idx) \cup {a}
    BY <1>1, <1>2, <2>1, <2>3, <2>4, RingPut
  <2> QED
    BY <1>1, <2>5, Zenon DEF Asked
<1>16. Done' = Done
  BY <1>1, Zenon DEF Done
<1>17. Rings'
  BY <1>1, <1>15, Zenon DEF VirtioInv, Rings
<1>18. Requests'
  <2>1. ASSUME NEW x \in Asked' \cup inflight' \cup Done'
        PROVE  \E q \in Busy' : head'[q] = x /\ bdisk'[q]
    <3>1. CASE x = a
      BY <1>5, <1>6, <3>1, Zenon
    <3>2. CASE x # a
      <4>1. PICK q \in Busy : head[q] = x /\ bdisk[q]
        BY <1>1, <1>15, <1>16, <3>2, Zenon DEF VirtioInv, Requests
      <4> QED
        BY <1>6, <1>7, <4>1, Zenon
    <3> QED
      BY <3>1, <3>2, Zenon
  <2>2. Asked' \cap inflight' = {} /\ Asked' \cap Done' = {} /\ inflight' \cap Done' = {}
    BY <1>1, <1>2, <1>14, <1>15, <1>16, Zenon DEF VirtioInv, Requests
  <2> QED
    BY <2>1, <2>2, Zenon DEF Requests
<1>19. Results'
  <2>1. \A q \in Proc : pc'[q] = "idle" => data'[q] = disk'[q]
    BY <1>1, <1>5, Zenon DEF VirtioInv, Results
  <2>2. ASSUME NEW q \in Busy'
        PROVE  /\ ~bdisk'[q] => data'[q] = disk'[q]
               /\ head'[q] \in Done' => data'[q] = disk'[q] /\ info'[head'[q]].status = 0
    <3>1. CASE q = p
      BY <1>2, <1>5, <1>14, <1>16, <3>1, Zenon
    <3>2. CASE q \in Busy
      <4>1. info'[head[q]] = info[head[q]]
        BY <1>8, <1>9, <3>2, Zenon
      <4>2. /\ ~bdisk[q] => data[q] = disk[q]
            /\ head[q] \in Done => data[q] = disk[q] /\ info[head[q]].status = 0
        BY <3>2, Zenon DEF VirtioInv, Results
      <4>3. head'[q] = head[q] /\ bdisk'[q] = bdisk[q] /\ data' = data /\ disk' = disk
        BY <1>1, <1>7, <3>2, Zenon
      <4> QED
        BY <1>16, <4>1, <4>2, <4>3, Zenon
    <3> QED
      BY <1>6, <3>1, <3>2, Zenon
  <2> QED
    BY <2>1, <2>2, Zenon DEF Results
<1>20. Justified'
  <2>1. ASSUME NEW q \in Proc PROVE pc'[q] \notin {"in_sleep", "out_sleep"}
    <3>1. pc[q] \notin {"in_sleep", "out_sleep"}
      BY <1>1, <1>12 DEF VirtioInv, Justified
    <3> QED
      BY <1>5, <3>1, Zenon
  <2> QED
    BY <1>1, <1>5, <2>1, Zenon DEF VirtioInv, Justified
<1> QED
  BY <1>4, <1>11, <1>13, <1>17, <1>18, <1>19, <1>20, Zenon DEF VirtioInv

\* The caller finds its request done, frees the chain and returns.
LEMMA ReturnStep ==
    ASSUME VirtioInv, NEW p \in Proc, finish(p), ~bdisk[p]
    PROVE  VirtioInv'
<1> DEFINE a == head[p]
           woken == [pc EXCEPT ![p] = "idle"]
<1>1. /\ UNCHANGED <<avail, avail_idx, used_idx, irq, isr, bdisk, data, used, seen, inflight,
                     used_tail, disk>>
      /\ pc[p] = "woken" /\ isr = "off"
      /\ info' = [info EXCEPT ![a].b = NoBuf]
      /\ free' = free \cup chain(a)
      /\ next' = [x \in Desc |-> IF x \in chain(a) THEN nil ELSE next[x]]
      /\ addr' = [x \in Desc |-> IF x \in chain(a) THEN NoBuf ELSE addr[x]]
      /\ head' = [head EXCEPT ![p] = nil]
      /\ pc' = wake_free(woken)
  BY Zenon DEF finish, device
<1>2. p \in Busy /\ Chained(p)
  BY <1>1, Zenon DEF VirtioInv, Chains, Busy
<1>3. /\ a \in Desc /\ next[a] \in Desc /\ next[next[a]] \in Desc
      /\ a # next[a] /\ a # next[next[a]] /\ next[a] # next[next[a]]
      /\ chain(a) = {a, next[a], next[next[a]]} /\ chain(a) \cap free = {}
  BY <1>2, Zenon DEF Chained, chain
<1> HIDE DEF a
<1>4. /\ pc' \in [Proc -> {"idle", "in", "out", "in_sleep", "out_sleep", "woken", "waiting"}]
      /\ pc'[p] = "idle"
      /\ \A q \in Proc : /\ pc'[q] \notin {"in_sleep", "out_sleep"}
                         /\ q # p /\ (pc[q] \in {"idle", "waiting", "woken"}
                                        \/ pc'[q] \in {"idle", "waiting", "woken"}) => pc'[q] = pc[q]
  BY <1>1, ZenonT(30) DEF wake_free, VirtioInv, Fields
<1>5. /\ head' \in [Proc -> Desc \cup {nil}]
      /\ head'[p] = nil /\ \A q \in Proc : q # p => head'[q] = head[q]
  BY <1>1, ZenonT(30) DEF VirtioInv, Fields
<1>6. Busy' = Busy \ {p} /\ \A q \in Busy' : q \in Proc /\ q # p /\ q \in Busy /\ head'[q] = head[q]
  BY <1>5, Zenon DEF Busy
<1>7. /\ info' \in [Desc -> [b : Proc \cup {NoBuf}, status : {0, 255}]]
      /\ \A x \in Desc : x # a => info'[x] = info[x]
  BY <1>1, <1>3 DEF VirtioInv, Fields
<1>8. \A x \in Desc : x \notin chain(a) => next'[x] = next[x] /\ addr'[x] = addr[x]
  BY <1>1, Zenon
<1>9. Fields'
  <2>1. free' \subseteq Desc
    BY <1>1, <1>3, Zenon DEF VirtioInv, Fields
  <2>2. next' \in [Desc -> Desc \cup {nil}] /\ addr' \in [Desc -> Proc \cup {NoBuf}]
    BY <1>1, Zenon DEF VirtioInv, Fields
  <2> QED
    BY <1>1, <1>4, <1>5, <1>7, <2>1, <2>2, Zenon DEF VirtioInv, Fields
<1>10. ASSUME NEW q \in Busy'
       PROVE  /\ head[q] \in Desc /\ next[head[q]] \in Desc /\ next[next[head[q]]] \in Desc
              /\ head[q] \notin chain(a) /\ next[head[q]] \notin chain(a)
              /\ next[next[head[q]]] \notin chain(a)
              /\ chain(head[q])' = chain(head[q]) /\ head[q] # a
  <2>1. q \in Busy /\ q # p /\ Chained(q) /\ head'[q] = head[q]
    BY <1>6, Zenon DEF VirtioInv, Chains
  <2>2. chain(head[q]) \cap chain(a) = {}
    BY <1>2, <2>1, Zenon DEF VirtioInv, Chains, a
  <2>3. /\ head[q] \in Desc /\ next[head[q]] \in Desc /\ next[next[head[q]]] \in Desc
        /\ head[q] \notin chain(a) /\ next[head[q]] \notin chain(a)
        /\ next[next[head[q]]] \notin chain(a)
    BY <2>1, <2>2, Zenon DEF Chained, chain
  <2>4. /\ next'[head[q]] = next[head[q]] /\ next'[next[head[q]]] = next[next[head[q]]]
    BY <1>8, <2>3, Zenon
  <2>5. chain(head[q])' = chain(head[q])
    BY <2>1, <2>4, Zenon DEF chain
  <2>6. head[q] # a
    BY <1>3, <2>3, Zenon
  <2> QED
    BY <2>3, <2>5, <2>6, Zenon
<1>11. Chains'
  <2>1. \A q \in Proc : head'[q] # nil <=> pc'[q] \in {"waiting", "woken"}
    BY <1>4, <1>5, Zenon DEF VirtioInv, Chains
  <2>2. ASSUME NEW q \in Busy' PROVE Chained(q)'
    <3>1. Chained(q) /\ head'[q] = head[q]
      BY <1>6, Zenon DEF VirtioInv, Chains
    <3>2. /\ next'[head[q]] = next[head[q]] /\ next'[next[head[q]]] = next[next[head[q]]]
          /\ addr'[next[head[q]]] = addr[next[head[q]]] /\ info'[head[q]] = info[head[q]]
      BY <1>7, <1>8, <1>10, Zenon
    <3>3. chain(head[q])' \cap free' = {}
      <4>1. chain(head[q])' \cap free = {}
        BY <1>10, <3>1, Zenon DEF Chained
      <4>2. chain(head[q])' \cap chain(a) = {}
        BY <1>10 DEF chain
      <4> QED
        BY <1>1, <4>1, <4>2, Zenon
    <3> QED
      BY <3>1, <3>2, <3>3, Zenon DEF Chained
  <2>3. ASSUME NEW q \in Busy', NEW r \in Busy', q # r
        PROVE  chain(head[q])' \cap chain(head[r])' = {}
    BY <1>6, <1>10, <2>3, Zenon DEF VirtioInv, Chains
  <2> QED
    BY <2>1, <2>2, <2>3, Zenon DEF Chains
<1>12. Counted'
  <2>1. IsFiniteSet(free) /\ Cardinality(free) \in Nat
    BY FreeIsFinite, Zenon DEF VirtioInv, Fields
  <2>2. Cardinality(free') = Cardinality(free) + 3
    <3>1. a \notin free /\ next[a] \notin free /\ next[next[a]] \notin free
      BY <1>3, Zenon
    <3> QED
      BY <1>1, <1>3, <2>1, <3>1, ThreeMore
  <2>3. IsFiniteSet(Busy) /\ Cardinality(free) + 3 * Cardinality(Busy) = NUM
    BY Zenon DEF VirtioInv, Counted
  <2>4. /\ IsFiniteSet(Busy') /\ Cardinality(Busy') = Cardinality(Busy) - 1
        /\ Cardinality(Busy) \in Nat
    BY <1>2, <1>6, <2>3, FS_RemoveElement, FS_CardinalityType, Zenon
  <2>5. Cardinality(free') + 3 * Cardinality(Busy') = NUM
    BY <2>1, <2>2, <2>3, <2>4
  <2> QED
    BY <2>4, <2>5, Zenon DEF Counted
<1>13. Asked' = Asked /\ Done' = Done
  BY <1>1, Zenon DEF Asked, Done
<1>14. Rings'
  BY <1>1, Zenon DEF VirtioInv, Rings
<1>15. Requests'
  <2>1. ASSUME NEW x \in Asked' \cup inflight' \cup Done'
        PROVE  \E q \in Busy' : head'[q] = x /\ bdisk'[q]
    <3>1. PICK q \in Busy : head[q] = x /\ bdisk[q]
      BY <1>1, <1>13, Zenon DEF VirtioInv, Requests
    <3>2. q # p /\ q \in Busy'
      BY <1>6, <3>1, Zenon
    <3> QED
      BY <1>1, <1>6, <3>1, <3>2, Zenon
  <2> QED
    BY <1>1, <1>13, <2>1, Zenon DEF VirtioInv, Requests
<1>16. Results'
  <2>1. data' = data /\ disk' = disk /\ bdisk' = bdisk
    BY <1>1, Zenon
  <2>2. \A q \in Proc : pc'[q] = "idle" => data'[q] = disk'[q]
    BY <1>2, <1>4, <2>1, Zenon DEF VirtioInv, Results
  <2>3. ASSUME NEW q \in Busy'
        PROVE  /\ ~bdisk'[q] => data'[q] = disk'[q]
               /\ head'[q] \in Done' => data'[q] = disk'[q] /\ info'[head'[q]].status = 0
    <3>1. info'[head[q]] = info[head[q]] /\ head'[q] = head[q]
      BY <1>6, <1>7, <1>10, Zenon
    <3>2. /\ ~bdisk[q] => data[q] = disk[q]
          /\ head[q] \in Done => data[q] = disk[q] /\ info[head[q]].status = 0
      BY <1>6, Zenon DEF VirtioInv, Results
    <3> QED
      BY <1>13, <2>1, <3>1, <3>2, Zenon
  <2> QED
    BY <2>2, <2>3, Zenon DEF Results
<1>17. Justified'
  BY <1>1, <1>4, Zenon DEF VirtioInv, Justified
<1> QED
  BY <1>9, <1>11, <1>12, <1>14, <1>15, <1>16, <1>17, Zenon DEF VirtioInv

\* virtio_disk_init() leaves the rings empty and every descriptor free.
LEMMA InitVirtio ==
    ASSUME Init
    PROVE  VirtioInv
<1>1. 0 \in 0..(WRAP - 1) /\ nil \notin Desc
  BY RingSizes DEF nil, Desc
<1>2. pending(0, 0) = 0
  BY <1>1, Pending, Zenon
<1>3. Asked = {} /\ Done = {}
  BY <1>2 DEF Init, Asked, Done, Entries
<1>4. Fields
  BY Zenon DEF Init, Fields
<1>5. Rings
  BY <1>1, <1>2 DEF Init, Rings, IsRing
<1>6. Busy = {}
  BY Zenon DEF Init, Busy
<1>7. Chains /\ Requests /\ Results
  BY <1>3, <1>6, Zenon DEF Init, Chains, Requests, Results
<1>8. Counted
  <2>1. NUM \in Nat /\ NUM - 1 \in Int /\ 0 \in Int /\ NUM >= 3
    BY RingSizes
  <2>2. Cardinality(0..(NUM - 1)) = NUM
    BY <2>1, FS_Interval
  <2>3. IsFiniteSet({}) /\ Cardinality({}) = 0
    BY FS_EmptySet, Zenon
  <2> QED
    BY <1>6, <2>1, <2>2, <2>3 DEF Init, Desc, Counted
<1>9. Justified
  BY Zenon DEF Init, Justified
<1> QED
  BY <1>4, <1>5, <1>7, <1>8, <1>9, Zenon DEF VirtioInv

\* Every step keeps the invariant.
LEMMA StepVirtio ==
    ASSUME VirtioInv, [Next]_vars
    PROVE  VirtioInv'
<1>1. CASE UNCHANGED vars
  BY <1>1, RestFrame, Zenon DEF vars, VirtioInv, Fields, Justified
<1>2. ASSUME NEW p \in Proc, driver(p) PROVE VirtioInv'
  BY <1>2, CallerSteps, SubmitStep, ReturnStep, Zenon DEF driver
<1>3. CASE handler
  BY <1>3, HandlerSteps, LoopStep, Zenon DEF handler
<1> QED
  BY <1>1, <1>2, <1>3, CallerSteps, FetchStep, CompleteStep, Zenon DEF Next

\* For any number of callers and any size of the rings, also when their counters wrap,
\* every request to the disk is served and every descriptor accounted for.
THEOREM DiskServes == Spec => []RequestsServed
<1>1. VirtioInv => RequestsServed
  <2> SUFFICES ASSUME VirtioInv PROVE RequestsServed
    BY Zenon
  <2>1. Transferred /\ SleepersJustified
    BY Zenon DEF VirtioInv, Results, Justified, Transferred, SleepersJustified
  <2>2. DescriptorsAccounted
    BY Zenon DEF VirtioInv, Chains, Chained, Counted, DescriptorsAccounted
  <2>3. ASSUME NEW a \in inflight
        PROVE  \E p \in Proc : /\ head[p] = a /\ bdisk[p]
                               /\ addr[next[a]] = p /\ info[a].b = p
    BY DEF VirtioInv, Requests, Chains, Chained, Busy
  <2>4. ASSUME NEW k \in 0..(((used_tail - used_idx) % WRAP) - 1)
        PROVE  LET id == used[((used_idx + k) % WRAP) % NUM]
               IN  /\ info[id].status = 0
                   /\ info[id].b # NoBuf /\ bdisk[info[id].b]
    <3> DEFINE id == used[((used_idx + k) % WRAP) % NUM]
    <3>1. id \in Done
      BY Zenon DEF Done, Entries, pending, place
    <3> HIDE DEF id
    <3>2. PICK p \in Busy : head[p] = id /\ bdisk[p]
      BY <3>1, Zenon DEF VirtioInv, Requests
    <3>3. info[id].b = p /\ p \in Proc /\ info[id].status = 0
      BY <3>1, <3>2, HeadsApart, Zenon DEF VirtioInv, Results
    <3>4. p # NoBuf
      BY <3>3, RingSizes, Zenon
    <3> QED
      BY <3>2, <3>3, <3>4, Zenon DEF id
  <2>5. DmaOwned
    BY <2>3, <2>4, Zenon DEF DmaOwned
  <2> QED
    BY <2>1, <2>2, <2>5, Zenon DEF RequestsServed
<1>2. Init => VirtioInv
  BY InitVirtio, Zenon
<1>3. VirtioInv /\ [Next]_vars => VirtioInv'
  BY StepVirtio, Zenon
<1> QED
  BY <1>1, <1>2, <1>3, PTL DEF Spec
=============================================================================
