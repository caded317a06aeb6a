---------------------------- MODULE BcacheProofs ----------------------------
(***************************************************************************)
(* The buffer cache keeps its counts, never loses a wakeup and finds a     *)
(* buffer, and it implements BlockStore: theorems for every number of      *)
(* processes, blocks and buffers.                                          *)
(***************************************************************************)
EXTENDS Bcache, TLAPS

\* Between acquiresleep() and releasesleep().
Holding(p) == pc[p] \in {"locked", "use", "pin", "unpin"}

\* A process is between bget() and brelse() with the buffer of the block it asked
\* for; it has the sleep lock where it should; once bread() has returned, the buffer
\* has the block's contents; it is in the log's transaction around bpin()
\* and bunpin(); and bwrite() has been done when bunpin() is next.
ProcOK(p) ==
    /\ pc[p] = "idle" <=> buf[p] = nil
    /\ pc[p] # "idle" => want[p] \in Block /\ blockno[buf[p]] = want[p]
    /\ Holding(p) => holder[buf[p]] = p
    /\ pc[p] \in {"use", "pin", "unpin"} => valid[buf[p]]
    /\ pc[p] \in {"pin", "unpin"} => buf[p] \in pinned
    /\ pc[p] = "unpin" => disk[blockno[buf[p]]] = data[buf[p]]

\* A buffer is locked by a process that works on it; a changed one has contents;
\* any other one with contents agrees with the disk; no two are for the same block.
BufOK(k) ==
    /\ holder[k] # Nobody => Holding(holder[k]) /\ buf[holder[k]] = k
    /\ k \in pinned => valid[k]
    /\ valid[k] => blockno[k] \in Block
    /\ valid[k] /\ k \notin pinned => data[k] = disk[blockno[k]]
    /\ \A j \in Buf : blockno[j] = blockno[k] /\ blockno[k] # NoBlock => j = k

\* The inductive invariant.  Nothing happens after a panic.
BcacheInv ==
    /\ TypeOK /\ BuffersSound
    /\ Cardinality(pinned) <= MaxPinned
    /\ ~panicked => /\ \A p \in Proc : ProcOK(p)
                    /\ \A k \in Buf : BufOK(k)

\* The processes that reference buffer k, and whether the log does.
Users(k) == {p \in Proc : buf[p] = k}
Pin(k) == k \in pinned /\ \A p \in Proc : ~(pc[p] = "pin" /\ buf[p] = k)

\* What the proofs use of Cardinality.
Counts(U) ==
    \A S \in SUBSET U :
      /\ Cardinality(S) \in Nat
      /\ Cardinality(S) = 0 <=> S = {}
      /\ \A u \in U \ S : Cardinality(S \cup {u}) = Cardinality(S) + 1

Counting == Counts(Proc) /\ Counts(Buf)

-----------------------------------------------------------------------------
(***************************************************************************)
(* Frames: what steps share.                                               *)
(***************************************************************************)
\* What BcacheAssumption says of the constants, in the form most leaves need.
LEMMA Consts == nil \notin Buf /\ NoBlock \notin Block /\ Nobody \notin Proc
  BY BcacheAssumption DEF Buf, nil

\* A process between bget() and brelse() has a buffer, for the block it wants.
LEMMA Has ==
    ASSUME BcacheInv, ~panicked, NEW p \in Proc, pc[p] # "idle"
    PROVE  buf[p] \in Buf /\ want[p] \in Block /\ blockno[buf[p]] = want[p]
<1>1. ProcOK(p) /\ buf[p] \in Buf \cup {nil}
  BY Zenon DEF BcacheInv, TypeOK
<1> QED
  BY <1>1, Zenon DEF ProcOK

\* The sleep lock excludes: no two processes hold the same buffer.
LEMMA Excludes ==
    ASSUME BcacheInv, ~panicked, NEW p \in Proc, NEW q \in Proc,
           Holding(p), Holding(q), buf[p] = buf[q]
    PROVE  p = q
<1>1. ProcOK(p) /\ ProcOK(q)
  BY Zenon DEF BcacheInv
<1> QED
  BY <1>1, Zenon DEF ProcOK

\* Nor do two processes hold buffers for the same block.
LEMMA ExcludesBlock ==
    ASSUME BcacheInv, ~panicked, NEW p \in Proc, NEW q \in Proc,
           Holding(p), Holding(q), want[p] = want[q]
    PROVE  p = q
<1>1. pc[p] # "idle" /\ pc[q] # "idle"
  BY Zenon DEF Holding
<1>2. /\ buf[p] \in Buf /\ buf[q] \in Buf /\ want[p] \in Block
      /\ blockno[buf[p]] = want[p] /\ blockno[buf[q]] = want[q]
  BY <1>1, Has, Zenon
<1>3. BufOK(buf[p])
  BY <1>2, Zenon DEF BcacheInv
<1>4. buf[p] = buf[q]
  BY <1>2, <1>3, Consts, Zenon DEF BufOK
<1> QED
  BY <1>4, Excludes, Zenon

\* A step that leaves process q and what it relies on of its buffer alone.
LEMMA ProcFrame ==
    ASSUME NEW q \in Proc, ProcOK(q), pc'[q] = pc[q], buf'[q] = buf[q], want'[q] = want[q],
           pc[q] # "idle" => blockno'[buf[q]] = blockno[buf[q]],
           Holding(q) => /\ holder'[buf[q]] = holder[buf[q]]
                         /\ valid[buf[q]] => valid'[buf[q]]
                         /\ buf[q] \in pinned => buf[q] \in pinned',
           pc[q] = "unpin" => /\ disk'[blockno[buf[q]]] = disk[blockno[buf[q]]]
                              /\ data'[buf[q]] = data[buf[q]]
    PROVE  ProcOK(q)'
  BY Zenon DEF ProcOK, Holding

\* A step that leaves buffer k, its contents on the disk and its holder alone.
LEMMA BufFrame ==
    ASSUME NEW k \in Buf, BufOK(k), blockno' = blockno,
           holder'[k] = holder[k], valid'[k] = valid[k], data'[k] = data[k],
           k \in pinned' <=> k \in pinned,
           valid[k] => disk'[blockno[k]] = disk[blockno[k]],
           holder[k] # Nobody => /\ Holding(holder[k])'
                                 /\ buf'[holder[k]] = buf[holder[k]]
    PROVE  BufOK(k)'
  BY Zenon DEF BufOK

\* The holder of a buffer is a process that is not p, when p holds nothing.
LEMMA OtherHolder ==
    ASSUME BcacheInv, ~panicked, NEW p \in Proc, ~Holding(p), NEW k \in Buf, holder[k] # Nobody
    PROVE  holder[k] \in Proc /\ holder[k] # p /\ Holding(holder[k]) /\ buf[holder[k]] = k
<1>1. BufOK(k) /\ holder[k] \in Proc \cup {Nobody}
  BY Zenon DEF BcacheInv, TypeOK
<1> QED
  BY <1>1, Zenon DEF BufOK

\* The holder of a buffer keeps working on it through a step of p that does not end
\* the work of p.
LEMMA HolderKept ==
    ASSUME BcacheInv, ~panicked, NEW p \in Proc, Holding(p) => Holding(p)',
           \A q \in Proc : q # p => pc'[q] = pc[q],
           NEW k \in Buf, holder[k] # Nobody, holder'[k] = holder[k]
    PROVE  Holding(holder[k])'
<1>1. BufOK(k) /\ holder[k] \in Proc
  BY Zenon DEF BcacheInv, TypeOK
<1>2. Holding(holder[k])
  BY <1>1, Zenon DEF BufOK
<1> QED
  BY <1>1, <1>2, Zenon DEF Holding

\* A step that changes no buf and no refcnt keeps the counts.
LEMMA RefsKept ==
    ASSUME RefcntExact, buf' = buf, refcnt' = refcnt, \A k \in Buf : Pin(k)' <=> Pin(k)
    PROVE  RefcntExact'
  BY DEF RefcntExact, Pin

\* The invariant after a step that does not panic.
LEMMA Assembled ==
    ASSUME BcacheInv, ~panicked, panicked' = FALSE, TypeOK', RefcntExact', SleeperHasHolder',
           Cardinality(pinned)' <= MaxPinned,
           \A p \in Proc : ProcOK(p)', \A k \in Buf : BufOK(k)'
    PROVE  BcacheInv'
  BY Zenon DEF BcacheInv, BuffersSound, NoPanic

-----------------------------------------------------------------------------
(***************************************************************************)
(* The steps that change no reference count.                               *)
(***************************************************************************)
\* The critical section of acquiresleep() keeps the invariant.
LEMMA AcquireStep ==
    ASSUME BcacheInv, NEW p \in Proc, acquiresleep(p)
    PROVE  BcacheInv'
<1>1. /\ pc[p] = "lock" /\ ~panicked /\ panicked' = FALSE /\ TypeOK /\ BuffersSound
      /\ UNCHANGED <<blockno, valid, refcnt, data, lru, disk, pinned, buf, want>>
  BY Zenon DEF acquiresleep, BcacheInv, TypeOK
<1>2. PICK k \in Buf : k = buf[p] /\ blockno[k] = want[p] /\ want[p] \in Block
  BY <1>1, Has, Zenon
<1>3. ~Holding(p) /\ p # Nobody
  BY <1>1, Consts, Zenon DEF Holding
<1>4. /\ pc' \in [Proc -> {"idle", "lock", "sleep", "locked", "use", "pin", "unpin", "drop"}]
      /\ \A q \in Proc : q # p => pc'[q] = pc[q]
      /\ holder' \in [Buf -> Proc \cup {Nobody}]
      /\ \A j \in Buf : j # k => holder'[j] = holder[j]
      /\ \/ holder[k] # Nobody /\ holder'[k] = holder[k] /\ pc'[p] = "sleep"
         \/ holder[k] = Nobody /\ holder'[k] = p /\ pc'[p] = "locked"
  <2>1. CASE holder[k] # Nobody
    BY <1>1, <1>2, <2>1, Zenon DEF acquiresleep, TypeOK
  <2>2. CASE holder[k] = Nobody
    BY <1>1, <1>2, <2>2 DEF acquiresleep, TypeOK
  <2> QED
    BY <2>1, <2>2, Zenon
<1>5. TypeOK'
  BY <1>1, <1>4, Zenon DEF TypeOK
<1>6. RefcntExact'
  <2>1. \A j \in Buf : Pin(j)' <=> Pin(j)
    BY <1>1, <1>4, Zenon DEF Pin
  <2> QED
    BY <1>1, <2>1, RefsKept, Zenon DEF BuffersSound
<1>7. SleeperHasHolder'
  <2>1. ASSUME NEW q \in Proc, pc'[q] = "sleep" PROVE holder'[buf'[q]] # Nobody
    <3>1. CASE q = p
      BY <1>1, <1>2, <1>4, <2>1, <3>1, Zenon
    <3>2. CASE q # p
      <4>1. pc[q] = "sleep" /\ holder[buf[q]] # Nobody
        BY <1>1, <1>4, <2>1, <3>2, Zenon DEF SleeperHasHolder, BuffersSound
      <4>2. buf[q] \in Buf
        BY <1>1, <4>1, Has, Zenon
      <4> QED
        BY <1>1, <1>3, <1>4, <4>1, <4>2, Zenon
    <3> QED
      BY <3>1, <3>2, Zenon
  <2> QED
    BY <2>1, Zenon DEF SleeperHasHolder
<1>8. Cardinality(pinned)' <= MaxPinned
  BY <1>1, Zenon DEF BcacheInv
<1>9. ASSUME NEW q \in Proc PROVE ProcOK(q)'
  <2>1. ProcOK(q)
    BY <1>1, Zenon DEF BcacheInv
  <2>2. CASE q = p
    BY <1>1, <1>2, <1>4, <2>1, <2>2, Consts, Zenon DEF ProcOK, Holding
  <2>3. CASE q # p
    <3>1. Holding(q) => holder[buf[q]] = q /\ buf[q] \in Buf
      <4>1. Holding(q) => pc[q] # "idle"
        BY Zenon DEF Holding
      <4> QED
        BY <1>1, <2>1, <4>1, Has, Zenon DEF ProcOK
    <3>2. Holding(q) => holder'[buf[q]] = holder[buf[q]]
      BY <1>4, <3>1, Consts
    <3> QED
      BY <1>1, <1>4, <2>1, <2>3, <3>2, ProcFrame, Zenon
  <2> QED
    BY <2>2, <2>3, Zenon
<1>10. ASSUME NEW j \in Buf PROVE BufOK(j)'
  <2>1. BufOK(j)
    BY <1>1, Zenon DEF BcacheInv
  <2>2. holder[j] # Nobody => Holding(holder[j])'
    BY <1>1, <1>3, <1>4, OtherHolder DEF Holding
  <2>3. CASE j # k \/ holder[k] # Nobody
    BY <1>1, <1>4, <2>1, <2>2, <2>3, BufFrame, Zenon
  <2>4. CASE j = k /\ holder[k] = Nobody
    BY <1>1, <1>2, <1>4, <2>1, <2>4, Zenon DEF BufOK, Holding
  <2> QED
    BY <2>3, <2>4, Zenon
<1> QED
  BY <1>1, <1>5, <1>6, <1>7, <1>8, <1>9, <1>10, Assembled, Zenon

\* kill() of a sleeper keeps the invariant.
LEMMA KillStep ==
    ASSUME BcacheInv, NEW p \in Proc, kill(p)
    PROVE  BcacheInv'
<1>1. /\ pc[p] = "sleep" /\ ~panicked /\ panicked' = FALSE /\ TypeOK /\ BuffersSound
      /\ UNCHANGED <<blockno, valid, refcnt, data, holder, lru, disk, pinned, buf, want>>
  BY Zenon DEF kill, BcacheInv, TypeOK
<1>2. /\ pc' \in [Proc -> {"idle", "lock", "sleep", "locked", "use", "pin", "unpin", "drop"}]
      /\ \A q \in Proc : q # p => pc'[q] = pc[q]
      /\ pc'[p] = "lock"
  BY <1>1, Zenon DEF kill, TypeOK
<1>3. TypeOK'
  BY <1>1, <1>2, Zenon DEF TypeOK
<1>4. RefcntExact'
  <2>1. \A j \in Buf : Pin(j)' <=> Pin(j)
    BY <1>1, <1>2, Zenon DEF Pin
  <2> QED
    BY <1>1, <2>1, RefsKept, Zenon DEF BuffersSound
<1>5. SleeperHasHolder' /\ Cardinality(pinned)' <= MaxPinned
  BY <1>1, <1>2, Zenon DEF SleeperHasHolder, BuffersSound, BcacheInv
<1>6. ASSUME NEW q \in Proc PROVE ProcOK(q)'
  <2>1. ProcOK(q)
    BY <1>1, Zenon DEF BcacheInv
  <2>2. CASE q = p
    BY <1>1, <1>2, <2>1, <2>2, Zenon DEF ProcOK, Holding
  <2>3. CASE q # p
    BY <1>1, <1>2, <2>1, <2>3, ProcFrame, Zenon
  <2> QED
    BY <2>2, <2>3, Zenon
<1>7. ASSUME NEW j \in Buf PROVE BufOK(j)'
  <2>1. ~Holding(p) /\ BufOK(j)
    BY <1>1, Zenon DEF Holding, BcacheInv
  <2>2. holder[j] # Nobody => Holding(holder[j])'
    BY <1>1, <1>2, <2>1, OtherHolder, Zenon DEF Holding
  <2> QED
    BY <1>1, <2>1, <2>2, BufFrame, Zenon
<1> QED
  BY <1>1, <1>3, <1>4, <1>5, <1>6, <1>7, Assembled, Zenon

\* The end of bread() keeps the invariant: it reads the block unless the buffer is
\* valid, and no other process has the buffer.
LEMMA BreadStep ==
    ASSUME BcacheInv, NEW p \in Proc, bread(p)
    PROVE  BcacheInv'
<1>1. /\ pc[p] = "locked" /\ ~panicked /\ panicked' = FALSE /\ TypeOK /\ BuffersSound
      /\ UNCHANGED <<blockno, refcnt, holder, lru, disk, pinned, buf, want>>
  BY Zenon DEF bread, BcacheInv, TypeOK
<1>2. PICK k \in Buf : k = buf[p] /\ blockno[k] = want[p] /\ want[p] \in Block
  BY <1>1, Has, Zenon
<1>3. Holding(p) /\ BufOK(k) /\ disk[blockno[k]] \in Val
  BY <1>1, <1>2, Zenon DEF Holding, BcacheInv, TypeOK
<1>4. /\ pc' \in [Proc -> {"idle", "lock", "sleep", "locked", "use", "pin", "unpin", "drop"}]
      /\ \A q \in Proc : q # p => pc'[q] = pc[q]
      /\ pc'[p] = "use"
  BY <1>1, Zenon DEF bread, TypeOK
<1>5. /\ valid' \in [Buf -> BOOLEAN] /\ data' \in [Buf -> Val]
      /\ \A j \in Buf : j # k => valid'[j] = valid[j] /\ data'[j] = data[j]
      /\ valid'[k]
      /\ \/ valid[k] /\ data'[k] = data[k]
         \/ ~valid[k] /\ data'[k] = disk[blockno[k]]
  <2>1. CASE valid[k]
    BY <1>1, <1>2, <2>1, Zenon DEF bread, TypeOK
  <2>2. CASE ~valid[k]
    <3>1. /\ data' = [data EXCEPT ![k] = disk[blockno[k]]]
          /\ valid' = [valid EXCEPT ![k] = TRUE]
      BY <1>2, <2>2, Zenon DEF bread
    <3> QED
      BY <1>1, <1>3, <2>2, <3>1, Zenon DEF TypeOK
  <2> QED
    BY <2>1, <2>2, Zenon
<1>6. TypeOK'
  BY <1>1, <1>4, <1>5, Zenon DEF TypeOK
<1>7. RefcntExact'
  <2>1. \A j \in Buf : Pin(j)' <=> Pin(j)
    BY <1>1, <1>4, Zenon DEF Pin
  <2> QED
    BY <1>1, <2>1, RefsKept, Zenon DEF BuffersSound
<1>8. SleeperHasHolder' /\ Cardinality(pinned)' <= MaxPinned
  BY <1>1, <1>4, Zenon DEF SleeperHasHolder, BuffersSound, BcacheInv
<1>9. ASSUME NEW q \in Proc PROVE ProcOK(q)'
  <2>1. ProcOK(q)
    BY <1>1, Zenon DEF BcacheInv
  <2>2. CASE q = p
    BY <1>1, <1>2, <1>4, <1>5, <2>1, <2>2, Zenon DEF ProcOK, Holding
  <2>3. CASE q # p
    <3>1. Holding(q) => buf[q] # k /\ buf[q] \in Buf
      <4>1. Holding(q) => pc[q] # "idle"
        BY DEF Holding
      <4> QED
        BY <1>1, <1>2, <1>3, <2>3, <4>1, Has, Excludes, Zenon
    <3>2. pc[q] = "unpin" => Holding(q)
      BY Zenon DEF Holding
    <3> QED
      BY <1>1, <1>4, <1>5, <2>1, <2>3, <3>1, <3>2, ProcFrame, Zenon
  <2> QED
    BY <2>2, <2>3
<1>10. ASSUME NEW j \in Buf PROVE BufOK(j)'
  <2>1. BufOK(j) /\ holder[j] \in Proc \cup {Nobody}
    BY <1>1, Zenon DEF BcacheInv, TypeOK
  <2>2. holder[j] # Nobody => Holding(holder[j])'
    BY <1>1, <1>4, HolderKept, Zenon DEF Holding
  <2>3. CASE j # k
    BY <1>1, <1>5, <2>1, <2>2, <2>3, BufFrame, Zenon
  <2>4. CASE j = k
    BY <1>1, <1>2, <1>5, <2>1, <2>2, <2>4, Zenon DEF BufOK
  <2> QED
    BY <2>3, <2>4, Zenon
<1> QED
  BY <1>1, <1>6, <1>7, <1>8, <1>9, <1>10, Assembled, Zenon

\* A change of the buffer by its holder keeps the invariant.
LEMMA ModifyStep ==
    ASSUME Counting, BcacheInv, NEW p \in Proc, NEW v \in Val, modify(p, v)
    PROVE  BcacheInv'
<1>1. /\ pc[p] = "use" /\ ~panicked /\ panicked' = FALSE /\ TypeOK /\ BuffersSound
      /\ UNCHANGED <<blockno, valid, refcnt, holder, lru, disk, buf, want>>
  BY Zenon DEF modify, BcacheInv, TypeOK
<1>2. PICK k \in Buf : k = buf[p] /\ blockno[k] = want[p] /\ want[p] \in Block
  BY <1>1, Has, Zenon
<1>3. Holding(p) /\ holder[k] = p /\ valid[k]
  BY <1>1, <1>2, Zenon DEF Holding, BcacheInv, ProcOK
<1>4. /\ pc' \in [Proc -> {"idle", "lock", "sleep", "locked", "use", "pin", "unpin", "drop"}]
      /\ \A q \in Proc : q # p => pc'[q] = pc[q]
      /\ pc'[p] = IF k \in pinned THEN "use" ELSE "pin"
  BY <1>1, <1>2, Zenon DEF modify, TypeOK
<1>5. /\ data' \in [Buf -> Val]
      /\ \A j \in Buf : j # k => data'[j] = data[j]
      /\ pinned' = pinned \cup {k}
      /\ k \in pinned \/ Cardinality(pinned) < MaxPinned
  BY <1>1, <1>2, Zenon DEF modify, TypeOK
<1>6. TypeOK'
  BY <1>1, <1>2, <1>4, <1>5, Zenon DEF TypeOK
<1>7. RefcntExact'
  <2>1. ASSUME NEW j \in Buf PROVE Pin(j)' <=> Pin(j)
    <3>1. CASE j # k
      BY <1>1, <1>2, <1>4, <1>5, <3>1, Zenon DEF Pin
    <3>2. CASE j = k /\ k \in pinned
      BY <1>1, <1>2, <1>4, <1>5, <3>2, Zenon DEF Pin
    <3>3. CASE j = k /\ k \notin pinned
      BY <1>1, <1>2, <1>4, <1>5, <3>3, Zenon DEF Pin
    <3> QED
      BY <3>1, <3>2, <3>3, Zenon
  <2> QED
    BY <1>1, <2>1, RefsKept, Zenon DEF BuffersSound
<1>8. SleeperHasHolder'
  BY <1>1, <1>4, Zenon DEF SleeperHasHolder, BuffersSound
<1>9. Cardinality(pinned)' <= MaxPinned
  <2>1. CASE k \in pinned
    <3>1. pinned' = pinned
      BY <1>5, <2>1, Zenon
    <3> QED
      BY <3>1, Zenon DEF BcacheInv
  <2>2. CASE k \notin pinned
    <3>1. pinned \in SUBSET Buf /\ k \in Buf \ pinned
      BY <1>1, <2>2, Zenon DEF TypeOK
    <3>2. Cardinality(pinned) \in Nat /\ Cardinality(pinned \cup {k}) = Cardinality(pinned) + 1
      BY <3>1, Zenon DEF Counting, Counts
    <3> QED
      BY <1>5, <2>2, <3>2, BcacheAssumption
  <2> QED
    BY <2>1, <2>2, Zenon
<1>10. ASSUME NEW q \in Proc PROVE ProcOK(q)'
  <2>1. ProcOK(q)
    BY <1>1, Zenon DEF BcacheInv
  <2>2. CASE q = p
    BY <1>1, <1>2, <1>3, <1>4, <1>5, <2>1, <2>2, Zenon DEF ProcOK, Holding
  <2>3. CASE q # p
    <3>1. Holding(q) => buf[q] # k /\ buf[q] \in Buf
      <4>1. Holding(q) => pc[q] # "idle"
        BY Zenon DEF Holding
      <4> QED
        BY <1>1, <1>2, <1>3, <2>3, <4>1, Has, Excludes, Zenon
    <3>2. pc[q] = "unpin" => Holding(q)
      BY Zenon DEF Holding
    <3> QED
      BY <1>1, <1>4, <1>5, <2>1, <2>3, <3>1, <3>2, ProcFrame, Zenon
  <2> QED
    BY <2>2, <2>3, Zenon
<1>11. ASSUME NEW j \in Buf PROVE BufOK(j)'
  <2>1. BufOK(j)
    BY <1>1, Zenon DEF BcacheInv
  <2>2. holder[j] # Nobody => Holding(holder[j])'
    <3>1. Holding(p)'
      BY <1>4, Zenon DEF Holding
    <3> QED
      BY <1>1, <1>4, <3>1, HolderKept, Zenon
  <2>3. CASE j # k
    BY <1>1, <1>5, <2>1, <2>2, <2>3, BufFrame, Zenon
  <2>4. CASE j = k
    BY <1>1, <1>3, <1>5, <2>1, <2>2, <2>4, Zenon DEF BufOK
  <2> QED
    BY <2>3, <2>4, Zenon
<1> QED
  BY <1>1, <1>6, <1>7, <1>8, <1>9, <1>10, <1>11, Assembled, Zenon

\* bwrite() of a changed buffer keeps the invariant: no other buffer is for the
\* block it writes.
LEMMA BwriteStep ==
    ASSUME BcacheInv, NEW p \in Proc, bwrite(p)
    PROVE  BcacheInv'
<1>1. /\ pc[p] = "use" /\ ~panicked /\ panicked' = FALSE /\ TypeOK /\ BuffersSound
      /\ UNCHANGED <<blockno, valid, refcnt, data, holder, lru, pinned, buf, want>>
  BY Zenon DEF bwrite, BcacheInv, TypeOK
<1>2. PICK k \in Buf : k = buf[p] /\ blockno[k] = want[p] /\ want[p] \in Block
  BY <1>1, Has, Zenon
<1>3. Holding(p) /\ BufOK(k) /\ k \in pinned /\ data[k] \in Val
  BY <1>1, <1>2, Zenon DEF Holding, BcacheInv, TypeOK, bwrite
<1>4. /\ pc' \in [Proc -> {"idle", "lock", "sleep", "locked", "use", "pin", "unpin", "drop"}]
      /\ \A q \in Proc : q # p => pc'[q] = pc[q]
      /\ pc'[p] = "unpin"
  BY <1>1, Zenon DEF bwrite, TypeOK
<1>5. /\ disk' \in [Block -> Val]
      /\ disk'[blockno[k]] = data[k]
      /\ \A b \in Block : b # blockno[k] => disk'[b] = disk[b]
  <2>1. disk' = [disk EXCEPT ![blockno[k]] = data[k]]
    BY <1>2, Zenon DEF bwrite
  <2> QED
    BY <1>1, <1>2, <1>3, <2>1, Zenon DEF TypeOK
<1>6. TypeOK'
  BY <1>1, <1>4, <1>5, Zenon DEF TypeOK
<1>7. RefcntExact'
  <2>1. \A j \in Buf : Pin(j)' <=> Pin(j)
    BY <1>1, <1>4, Zenon DEF Pin
  <2> QED
    BY <1>1, <2>1, RefsKept, Zenon DEF BuffersSound
<1>8. SleeperHasHolder' /\ Cardinality(pinned)' <= MaxPinned
  BY <1>1, <1>4, Zenon DEF SleeperHasHolder, BuffersSound, BcacheInv
<1>9. ASSUME NEW q \in Proc PROVE ProcOK(q)'
  <2>1. ProcOK(q)
    BY <1>1, Zenon DEF BcacheInv
  <2>2. CASE q = p
    BY <1>1, <1>2, <1>3, <1>4, <1>5, <2>1, <2>2, Zenon DEF ProcOK, Holding
  <2>3. CASE q # p
    <3>1. pc[q] = "unpin" => /\ want[q] # want[p] /\ want[q] \in Block
                             /\ blockno[buf[q]] = want[q]
      <4>1. pc[q] = "unpin" => Holding(q) /\ pc[q] # "idle"
        BY Zenon DEF Holding
      <4> QED
        BY <1>1, <1>3, <2>3, <4>1, Has, ExcludesBlock, Zenon
    <3>2. pc[q] = "unpin" => disk'[blockno[buf[q]]] = disk[blockno[buf[q]]]
      BY <1>2, <1>5, <3>1, Zenon
    <3> QED
      BY <1>1, <1>4, <2>1, <2>3, <3>2, ProcFrame, Zenon
  <2> QED
    BY <2>2, <2>3
<1>10. ASSUME NEW j \in Buf PROVE BufOK(j)'
  <2>1. BufOK(j)
    BY <1>1, Zenon DEF BcacheInv
  <2>2. holder[j] # Nobody => Holding(holder[j])'
    <3>1. Holding(p)'
      BY <1>4, Zenon DEF Holding
    <3> QED
      BY <1>1, <1>4, <3>1, HolderKept, Zenon
  <2>3. CASE j # k
    <3>1. valid[j] => blockno[j] \in Block /\ blockno[j] # blockno[k]
      BY <1>3, <2>1, <2>3, Consts, Zenon DEF BufOK
    <3>2. valid[j] => disk'[blockno[j]] = disk[blockno[j]]
      BY <1>5, <3>1, Zenon
    <3> QED
      BY <1>1, <2>1, <2>2, <3>2, BufFrame, Zenon
  <2>4. CASE j = k
    BY <1>1, <1>3, <2>1, <2>2, <2>4, Zenon DEF BufOK
  <2> QED
    BY <2>3, <2>4
<1> QED
  BY <1>1, <1>6, <1>7, <1>8, <1>9, <1>10, Assembled, Zenon

\* releasesleep() keeps the invariant: it wakes all that sleep on the buffer.
LEMMA ReleaseStep ==
    ASSUME BcacheInv, NEW p \in Proc, releasesleep(p)
    PROVE  BcacheInv'
<1>1. /\ pc[p] = "use" /\ ~panicked /\ panicked' = FALSE /\ TypeOK /\ BuffersSound
      /\ UNCHANGED <<blockno, valid, refcnt, data, lru, disk, pinned, buf, want>>
  BY Zenon DEF releasesleep, BcacheInv, TypeOK
<1>2. PICK k \in Buf : k = buf[p] /\ blockno[k] = want[p] /\ want[p] \in Block
  BY <1>1, Has
<1>3. Holding(p) /\ BufOK(k)
  BY <1>1, <1>2, Zenon DEF Holding, BcacheInv
<1>4. /\ pc' \in [Proc -> {"idle", "lock", "sleep", "locked", "use", "pin", "unpin", "drop"}]
      /\ pc'[p] = "drop"
      /\ \A q \in Proc : q # p => pc'[q] = IF pc[q] = "sleep" /\ buf[q] = k
                                             THEN "lock" ELSE pc[q]
  BY <1>1, <1>2, Zenon DEF releasesleep, wakeup, TypeOK
<1>5. /\ holder' \in [Buf -> Proc \cup {Nobody}]
      /\ holder'[k] = Nobody
      /\ \A j \in Buf : j # k => holder'[j] = holder[j]
  BY <1>1, <1>2, Zenon DEF releasesleep, TypeOK
<1>6. TypeOK'
  BY <1>1, <1>4, <1>5, Zenon DEF TypeOK
<1>7. RefcntExact'
  <2>1. \A j \in Buf : Pin(j)' <=> Pin(j)
    BY <1>1, <1>4, Zenon DEF Pin
  <2> QED
    BY <1>1, <2>1, RefsKept DEF BuffersSound
<1>8. SleeperHasHolder'
  <2>1. ASSUME NEW q \in Proc, pc'[q] = "sleep" PROVE holder'[buf'[q]] # Nobody
    <3>1. pc[q] = "sleep" /\ buf[q] # k
      BY <1>4, <2>1, Zenon
    <3>2. buf[q] \in Buf /\ holder[buf[q]] # Nobody
      BY <1>1, <3>1, Has, Zenon DEF SleeperHasHolder, BuffersSound
    <3> QED
      BY <1>1, <1>5, <3>1, <3>2, Zenon
  <2> QED
    BY <2>1 DEF SleeperHasHolder
<1>9. Cardinality(pinned)' <= MaxPinned
  BY <1>1, Zenon DEF BcacheInv
<1>10. ASSUME NEW q \in Proc PROVE ProcOK(q)'
  <2>1. ProcOK(q)
    BY <1>1 DEF BcacheInv
  <2>2. CASE q = p
    BY <1>1, <1>2, <1>4, <2>1, <2>2, Zenon DEF ProcOK, Holding
  <2>3. CASE q # p /\ pc[q] = "sleep" /\ buf[q] = k
    BY <1>1, <1>4, <2>1, <2>3, Zenon DEF ProcOK, Holding
  <2>4. CASE q # p /\ ~(pc[q] = "sleep" /\ buf[q] = k)
    <3>1. Holding(q) => holder'[buf[q]] = holder[buf[q]]
      <4>1. Holding(q) => pc[q] # "idle"
        BY DEF Holding
      <4> QED
        BY <1>1, <1>2, <1>3, <1>5, <2>4, <4>1, Has, Excludes, Zenon
    <3> QED
      BY <1>1, <1>4, <2>1, <2>4, <3>1, ProcFrame, Zenon
  <2> QED
    BY <2>2, <2>3, <2>4, Zenon
<1>11. ASSUME NEW j \in Buf PROVE BufOK(j)'
  <2>1. BufOK(j) /\ holder[j] \in Proc \cup {Nobody}
    BY <1>1, Zenon DEF BcacheInv, TypeOK
  <2>2. CASE j # k
    <3>1. holder[j] # Nobody => holder[j] \in Proc /\ holder[j] # p /\ pc'[holder[j]] = pc[holder[j]]
      BY <1>2, <1>4, <2>1, <2>2, Zenon DEF BufOK, Holding
    <3>2. holder[j] # Nobody => Holding(holder[j])'
      BY <1>5, <2>1, <2>2, <3>1, Zenon DEF BufOK, Holding
    <3> QED
      BY <1>1, <1>5, <2>1, <2>2, <3>2, BufFrame, Zenon
  <2>3. CASE j = k
    BY <1>1, <1>5, <2>1, <2>3, Zenon DEF BufOK
  <2> QED
    BY <2>2, <2>3
<1> QED
  BY <1>1, <1>6, <1>7, <1>8, <1>9, <1>10, <1>11, Assembled, Zenon

-----------------------------------------------------------------------------
(***************************************************************************)
(* The steps that change a reference count.                                *)
(***************************************************************************)
\* refcnt counts the users of the buffer, and the log's pin.
LEMMA Refs ==
    RefcntExact <=> \A k \in Buf : refcnt[k] = Cardinality(Users(k)) + (IF Pin(k) THEN 1 ELSE 0)
  BY Zenon DEF RefcntExact, Users, Pin

\* The list still has every buffer after move_front(), the end of brelse().
LEMMA MoveFront ==
    ASSUME lru \in [Buf -> Buf], \A j \in Buf : \E i \in Buf : lru[i] = j, NEW k \in Buf
    PROVE  /\ move_front(k) \in [Buf -> Buf]
           /\ \A j \in Buf : \E i \in Buf : move_front(k)[i] = j
<1> DEFINE at == CHOOSE i \in Buf : lru[i] = k
<1>1. at \in Buf /\ lru[at] = k
  BY Zenon
<1> HIDE DEF at
<1>2. move_front(k) = [i \in Buf |-> IF i = 1 THEN k ELSE IF i <= at THEN lru[i - 1] ELSE lru[i]]
  BY Zenon DEF move_front, at
<1>3. 1 \in Buf /\ \A i \in Buf : i # 1 => i - 1 \in Buf
  BY BcacheAssumption DEF Buf
<1>4. move_front(k) \in [Buf -> Buf]
  BY <1>2, <1>3, Zenon
<1>5. ASSUME NEW j \in Buf PROVE \E i \in Buf : move_front(k)[i] = j
  <2>1. PICK i \in Buf : lru[i] = j
    BY Zenon
  <2>2. CASE j = k
    BY <1>2, <1>3, <2>2, Zenon
  <2>3. CASE j # k /\ i < at
    <3>1. i + 1 \in Buf /\ i + 1 # 1 /\ i + 1 <= at /\ (i + 1) - 1 = i
      BY <1>1, <2>3, BcacheAssumption DEF Buf
    <3> QED
      BY <1>2, <2>1, <3>1, Zenon
  <2>4. CASE j # k /\ i > at
    <3>1. i # 1 /\ ~(i <= at)
      BY <1>1, <2>4 DEF Buf
    <3> QED
      BY <1>2, <2>1, <3>1, Zenon
  <2>5. i # at \/ j = k
    BY <1>1, <2>1, Zenon
  <2>6. i < at \/ i = at \/ i > at
    BY <1>1 DEF Buf
  <2> QED
    BY <2>2, <2>3, <2>4, <2>5, <2>6, Zenon
<1> QED
  BY <1>4, <1>5, Zenon

\* bpin() keeps the invariant.
LEMMA BpinStep ==
    ASSUME Counting, BcacheInv, NEW p \in Proc, bpin(p)
    PROVE  BcacheInv'
<1>1. /\ pc[p] = "pin" /\ ~panicked /\ panicked' = FALSE /\ TypeOK /\ BuffersSound
      /\ UNCHANGED <<blockno, valid, data, holder, lru, disk, pinned, buf, want>>
  BY Zenon DEF bpin, BcacheInv, TypeOK
<1>2. PICK k \in Buf : k = buf[p] /\ blockno[k] = want[p] /\ want[p] \in Block
  BY <1>1, Has, Zenon
<1>3. Holding(p) /\ k \in pinned
  BY <1>1, <1>2, Zenon DEF Holding, BcacheInv, ProcOK
<1>4. /\ pc' \in [Proc -> {"idle", "lock", "sleep", "locked", "use", "pin", "unpin", "drop"}]
      /\ \A q \in Proc : q # p => pc'[q] = pc[q]
      /\ pc'[p] = "use"
  BY <1>1, Zenon DEF bpin, TypeOK
<1>5. /\ refcnt' \in [Buf -> Nat]
      /\ refcnt'[k] = refcnt[k] + 1
      /\ \A j \in Buf : j # k => refcnt'[j] = refcnt[j]
  BY <1>1, <1>2 DEF bpin, TypeOK
<1>6. TypeOK'
  BY <1>1, <1>4, <1>5, Zenon DEF TypeOK
<1>7. RefcntExact'
  <2>1. ASSUME NEW j \in Buf, j # k PROVE Pin(j)' <=> Pin(j)
    BY <1>1, <1>2, <1>4, <2>1, Zenon DEF Pin
  <2>2. ~Pin(k)
    BY <1>1, <1>2, Zenon DEF Pin
  <2>3. Pin(k)'
    <3>1. ASSUME NEW q \in Proc, pc'[q] = "pin", buf'[q] = k PROVE FALSE
      <4>1. q # p /\ pc[q] = "pin" /\ buf[q] = buf[p]
        BY <1>1, <1>2, <1>4, <3>1, Zenon
      <4>2. Holding(q)
        BY <4>1, Zenon DEF Holding
      <4> QED
        BY <1>1, <1>3, <4>1, <4>2, Excludes, Zenon
    <3> QED
      BY <1>1, <1>3, <3>1, Zenon DEF Pin
  <2>4. \A j \in Buf : Users(j)' = Users(j) /\ Cardinality(Users(j)) \in Nat
    BY <1>1, Zenon DEF Users, Counting, Counts
  <2>5. \A j \in Buf : refcnt[j] = Cardinality(Users(j)) + (IF Pin(j) THEN 1 ELSE 0)
    BY <1>1, Refs, Zenon DEF BuffersSound
  <2>6. ASSUME NEW j \in Buf
        PROVE  refcnt'[j] = Cardinality(Users(j)') + (IF Pin(j)' THEN 1 ELSE 0)
    <3>1. CASE j = k
      BY <1>5, <2>2, <2>3, <2>4, <2>5, <3>1
    <3>2. CASE j # k
      BY <1>5, <2>1, <2>4, <2>5, <3>2, Zenon
    <3> QED
      BY <3>1, <3>2, Zenon
  <2> QED
    BY <2>6, Zenon DEF RefcntExact, Users, Pin
<1>8. SleeperHasHolder' /\ Cardinality(pinned)' <= MaxPinned
  BY <1>1, <1>4, Zenon DEF SleeperHasHolder, BuffersSound, BcacheInv
<1>9. ASSUME NEW q \in Proc PROVE ProcOK(q)'
  <2>1. ProcOK(q)
    BY <1>1, Zenon DEF BcacheInv
  <2>2. CASE q = p
    BY <1>1, <1>4, <2>1, <2>2, Zenon DEF ProcOK, Holding
  <2>3. CASE q # p
    BY <1>1, <1>4, <2>1, <2>3, ProcFrame, Zenon
  <2> QED
    BY <2>2, <2>3, Zenon
<1>10. ASSUME NEW j \in Buf PROVE BufOK(j)'
  <2>1. BufOK(j) /\ Holding(p)'
    BY <1>1, <1>4, Zenon DEF BcacheInv, Holding
  <2>2. holder[j] # Nobody => Holding(holder[j])'
    BY <1>1, <1>4, <2>1, HolderKept, Zenon
  <2> QED
    BY <1>1, <2>1, <2>2, BufFrame, Zenon
<1> QED
  BY <1>1, <1>6, <1>7, <1>8, <1>9, <1>10, Assembled, Zenon

\* bunpin() of a buffer that has been written home keeps the invariant.
LEMMA BunpinStep ==
    ASSUME Counting, BcacheInv, NEW p \in Proc, bunpin(p)
    PROVE  BcacheInv'
<1>1. /\ pc[p] = "unpin" /\ ~panicked /\ panicked' = FALSE /\ TypeOK /\ BuffersSound
      /\ UNCHANGED <<blockno, valid, data, holder, lru, disk, buf, want>>
  BY Zenon DEF bunpin, BcacheInv, TypeOK
<1>2. PICK k \in Buf : k = buf[p] /\ blockno[k] = want[p] /\ want[p] \in Block
  BY <1>1, Has, Zenon
<1>3. Holding(p) /\ k \in pinned /\ disk[blockno[k]] = data[k]
  BY <1>1, <1>2, Zenon DEF Holding, BcacheInv, ProcOK
<1>4. /\ pc' \in [Proc -> {"idle", "lock", "sleep", "locked", "use", "pin", "unpin", "drop"}]
      /\ \A q \in Proc : q # p => pc'[q] = pc[q]
      /\ pc'[p] = "use"
      /\ pinned' = pinned \ {k}
  BY <1>1, <1>2, Zenon DEF bunpin, TypeOK
<1>5. ASSUME NEW q \in Proc, Holding(q), q # p PROVE buf[q] # k
  BY <1>1, <1>2, <1>3, <1>5, Excludes, Zenon
<1>6. \A j \in Buf : refcnt[j] = Cardinality(Users(j)) + (IF Pin(j) THEN 1 ELSE 0)
  BY <1>1, Refs, Zenon DEF BuffersSound
<1>7. \A j \in Buf : Users(j)' = Users(j) /\ Cardinality(Users(j)) \in Nat
  BY <1>1, Zenon DEF Users, Counting, Counts
<1>8. Pin(k) /\ ~Pin(k)'
  <2>1. \A q \in Proc : pc[q] = "pin" => Holding(q) /\ q # p
    BY <1>1, Zenon DEF Holding
  <2> QED
    BY <1>3, <1>4, <1>5, <2>1, Zenon DEF Pin
<1>9. /\ refcnt' \in [Buf -> Nat]
      /\ refcnt'[k] = refcnt[k] - 1
      /\ \A j \in Buf : j # k => refcnt'[j] = refcnt[j]
  <2>1. refcnt[k] = Cardinality(Users(k)) + 1 /\ Cardinality(Users(k)) \in Nat
    BY <1>6, <1>7, <1>8, Zenon
  <2>2. refcnt' = [refcnt EXCEPT ![k] = refcnt[k] - 1] /\ refcnt[k] - 1 \in Nat
    BY <1>2, <2>1 DEF bunpin
  <2> QED
    BY <1>1, <2>2, Zenon DEF TypeOK
<1>10. TypeOK'
  BY <1>1, <1>4, <1>9, Zenon DEF TypeOK
<1>11. RefcntExact'
  <2>1. ASSUME NEW j \in Buf, j # k PROVE Pin(j)' <=> Pin(j)
    BY <1>1, <1>2, <1>4, <2>1, Zenon DEF Pin
  <2>2. ASSUME NEW j \in Buf
        PROVE  refcnt'[j] = Cardinality(Users(j)') + (IF Pin(j)' THEN 1 ELSE 0)
    <3>1. CASE j = k
      BY <1>6, <1>7, <1>8, <1>9, <3>1
    <3>2. CASE j # k
      BY <1>6, <1>7, <1>9, <2>1, <3>2, Zenon
    <3> QED
      BY <3>1, <3>2
  <2> QED
    BY <2>2 DEF RefcntExact, Users, Pin
<1>12. SleeperHasHolder'
  BY <1>1, <1>4, Zenon DEF SleeperHasHolder, BuffersSound
<1>13. Cardinality(pinned)' <= MaxPinned
  <2>1. pinned' \in SUBSET Buf /\ k \in Buf \ pinned' /\ pinned' \cup {k} = pinned
    BY <1>1, <1>3, <1>4, Zenon DEF TypeOK
  <2>2. Cardinality(pinned') \in Nat /\ Cardinality(pinned) = Cardinality(pinned') + 1
    BY <2>1, Zenon DEF Counting, Counts
  <2>3. Cardinality(pinned) <= MaxPinned
    BY Zenon DEF BcacheInv
  <2> QED
    BY <2>2, <2>3, BcacheAssumption
<1>14. ASSUME NEW q \in Proc PROVE ProcOK(q)'
  <2>1. ProcOK(q)
    BY <1>1, Zenon DEF BcacheInv
  <2>2. CASE q = p
    BY <1>1, <1>4, <2>1, <2>2, Zenon DEF ProcOK, Holding
  <2>3. CASE q # p
    <3>1. Holding(q) /\ buf[q] \in pinned => buf[q] \in pinned'
      BY <1>4, <1>5, <2>3, Zenon
    <3> QED
      BY <1>1, <1>4, <2>1, <2>3, <3>1, ProcFrame, Zenon
  <2> QED
    BY <2>2, <2>3
<1>15. ASSUME NEW j \in Buf PROVE BufOK(j)'
  <2>1. BufOK(j) /\ Holding(p)'
    BY <1>1, <1>4, Zenon DEF BcacheInv, Holding
  <2>2. holder[j] # Nobody => Holding(holder[j])'
    BY <1>1, <1>4, <2>1, HolderKept, Zenon
  <2>3. CASE j # k
    BY <1>1, <1>4, <2>1, <2>2, <2>3, BufFrame, Zenon
  <2>4. CASE j = k
    BY <1>1, <1>3, <2>1, <2>2, <2>4, Zenon DEF BufOK
  <2> QED
    BY <2>3, <2>4, Zenon
<1> QED
  BY <1>1, <1>10, <1>11, <1>12, <1>13, <1>14, <1>15, Assembled, Zenon

\* brelse() keeps the invariant.
LEMMA BrelseStep ==
    ASSUME Counting, BcacheInv, NEW p \in Proc, brelse(p)
    PROVE  BcacheInv'
<1>1. /\ pc[p] = "drop" /\ ~panicked /\ panicked' = FALSE /\ TypeOK /\ BuffersSound
      /\ UNCHANGED <<blockno, valid, data, holder, disk, pinned>>
  BY Zenon DEF brelse, BcacheInv, TypeOK
<1>2. PICK k \in Buf : k = buf[p] /\ blockno[k] = want[p] /\ want[p] \in Block
  BY <1>1, Has, Zenon
<1>3. ~Holding(p)
  BY <1>1, Zenon DEF Holding
<1>4. /\ pc' \in [Proc -> {"idle", "lock", "sleep", "locked", "use", "pin", "unpin", "drop"}]
      /\ \A q \in Proc : q # p => pc'[q] = pc[q] /\ buf'[q] = buf[q] /\ want'[q] = want[q]
      /\ pc'[p] = "idle" /\ buf'[p] = nil
      /\ buf' \in [Proc -> Buf \cup {nil}] /\ want' \in [Proc -> Block \cup {NoBlock}]
  BY <1>1, Zenon DEF brelse, TypeOK
<1>5. \A j \in Buf : refcnt[j] = Cardinality(Users(j)) + (IF Pin(j) THEN 1 ELSE 0)
  BY <1>1, Refs, Zenon DEF BuffersSound
<1>6. \A j \in Buf : Users(j) \in SUBSET Proc /\ Users(j)' \in SUBSET Proc
  BY Zenon DEF Users
<1>7. /\ Cardinality(Users(k)) = Cardinality(Users(k)') + 1 /\ Cardinality(Users(k)') \in Nat
      /\ \A j \in Buf : j # k => Users(j)' = Users(j)
  <2>1. p \notin Users(k)' /\ Users(k) = Users(k)' \cup {p}
    BY <1>2, <1>4, Consts, Zenon DEF Users
  <2>2. \A j \in Buf : j # k => Users(j)' = Users(j)
    BY <1>2, <1>4, Consts, Zenon DEF Users
  <2>3. p \in Proc \ Users(k)' /\ Users(k)' \in SUBSET Proc
    BY <1>6, <2>1, Zenon
  <2>4. Cardinality(Users(k)' \cup {p}) = Cardinality(Users(k)') + 1 /\ Cardinality(Users(k)') \in Nat
    BY <2>3, Zenon DEF Counting, Counts
  <2> QED
    BY <2>1, <2>2, <2>4, Zenon
<1>8. \A j \in Buf : Pin(j)' <=> Pin(j)
  BY <1>1, <1>4, Zenon DEF Pin
<1>9. /\ refcnt' \in [Buf -> Nat]
      /\ refcnt'[k] = refcnt[k] - 1
      /\ \A j \in Buf : j # k => refcnt'[j] = refcnt[j]
  <2>1. refcnt' = [refcnt EXCEPT ![k] = refcnt[k] - 1] /\ refcnt[k] - 1 \in Nat
    BY <1>2, <1>5, <1>7 DEF brelse
  <2> QED
    BY <1>1, <2>1, Zenon DEF TypeOK
<1>10. lru' \in [Buf -> Buf] /\ \A j \in Buf : \E i \in Buf : lru'[i] = j
  <2>1. lru \in [Buf -> Buf] /\ \A j \in Buf : \E i \in Buf : lru[i] = j
    BY <1>1, Zenon DEF TypeOK
  <2>2. lru' = move_front(k) \/ lru' = lru
    BY <1>2, Zenon DEF brelse
  <2>3. CASE lru' = lru
    BY <2>1, <2>3, Zenon
  <2>4. CASE lru' = move_front(k)
    <3>1. /\ move_front(k) \in [Buf -> Buf]
          /\ \A j \in Buf : \E i \in Buf : move_front(k)[i] = j
      BY <2>1, MoveFront, Zenon
    <3> QED
      BY <2>4, <3>1, Zenon
  <2> QED
    BY <2>2, <2>3, <2>4, Zenon
<1>11. TypeOK'
  BY <1>1, <1>4, <1>9, <1>10, Zenon DEF TypeOK
<1>12. RefcntExact'
  <2>1. ASSUME NEW j \in Buf
        PROVE  refcnt'[j] = Cardinality(Users(j)') + (IF Pin(j)' THEN 1 ELSE 0)
    <3>1. CASE j = k
      BY <1>5, <1>7, <1>8, <1>9, <3>1
    <3>2. CASE j # k
      BY <1>5, <1>7, <1>8, <1>9, <3>2, Zenon
    <3> QED
      BY <3>1, <3>2
  <2> QED
    BY <2>1 DEF RefcntExact, Users, Pin
<1>13. SleeperHasHolder' /\ Cardinality(pinned)' <= MaxPinned
  BY <1>1, <1>4, Zenon DEF SleeperHasHolder, BuffersSound, BcacheInv
<1>14. ASSUME NEW q \in Proc PROVE ProcOK(q)'
  <2>1. ProcOK(q)
    BY <1>1, Zenon DEF BcacheInv
  <2>2. CASE q = p
    BY <1>4, <2>2, Zenon DEF ProcOK, Holding
  <2>3. CASE q # p
    BY <1>1, <1>4, <2>1, <2>3, ProcFrame, Zenon
  <2> QED
    BY <2>2, <2>3
<1>15. ASSUME NEW j \in Buf PROVE BufOK(j)'
  <2>1. BufOK(j)
    BY <1>1, Zenon DEF BcacheInv
  <2>2. holder[j] # Nobody => Holding(holder[j])'
    BY <1>1, <1>3, <1>4, HolderKept, Zenon
  <2>3. holder[j] # Nobody => buf'[holder[j]] = buf[holder[j]]
    BY <1>1, <1>3, <1>4, OtherHolder, Zenon
  <2> QED
    BY <1>1, <2>1, <2>2, <2>3, BufFrame, Zenon
<1> QED
  BY <1>1, <1>11, <1>12, <1>13, <1>14, <1>15, Assembled, Zenon

\* What both loops of bget() do when they find buffer k for p.
Taken(p, b, k) ==
    /\ pc[p] = "idle" /\ ~panicked /\ panicked' = FALSE
    /\ UNCHANGED <<data, holder, lru, disk, pinned>>
    /\ buf' = [buf EXCEPT ![p] = k]
    /\ want' = [want EXCEPT ![p] = b]
    /\ pc' = [pc EXCEPT ![p] = "lock"]

\* The process of bget() is one more user of the buffer, and of no other.
LEMMA TakenUsers ==
    ASSUME Counting, BcacheInv, NEW p \in Proc, NEW b \in Block, NEW k \in Buf, Taken(p, b, k)
    PROVE  /\ Cardinality(Users(k)') = Cardinality(Users(k)) + 1
           /\ Cardinality(Users(k)) \in Nat
           /\ \A j \in Buf : j # k => Users(j)' = Users(j)
           /\ \A j \in Buf : Pin(j)' <=> Pin(j)
<1>1. buf[p] = nil /\ pc[p] = "idle" /\ TypeOK
  BY Zenon DEF Taken, BcacheInv, ProcOK
<1>2. /\ \A q \in Proc : q # p => pc'[q] = pc[q] /\ buf'[q] = buf[q]
      /\ pc'[p] = "lock" /\ buf'[p] = k /\ pinned' = pinned
  BY <1>1, Zenon DEF Taken, TypeOK
<1>3. p \notin Users(k) /\ Users(k)' = Users(k) \cup {p}
  BY <1>1, <1>2, Consts, Zenon DEF Users
<1>4. \A j \in Buf : j # k => Users(j)' = Users(j)
  BY <1>1, <1>2, Consts, Zenon DEF Users
<1>5. p \in Proc \ Users(k) /\ Users(k) \in SUBSET Proc
  BY <1>3, Zenon DEF Users
<1>6. Cardinality(Users(k) \cup {p}) = Cardinality(Users(k)) + 1 /\ Cardinality(Users(k)) \in Nat
  BY <1>5, Zenon DEF Counting, Counts
<1>7. \A j \in Buf : Pin(j)' <=> Pin(j)
  BY <1>1, <1>2, Zenon DEF Pin
<1> QED
  BY <1>3, <1>4, <1>6, <1>7, Zenon

\* bget() keeps the invariant when it takes a buffer whose number, count and contents
\* it sets right.
LEMMA TakenStep ==
    ASSUME Counting, BcacheInv, NEW p \in Proc, NEW b \in Block, NEW k \in Buf, Taken(p, b, k),
           blockno' \in [Buf -> Block \cup {NoBlock}], valid' \in [Buf -> BOOLEAN],
           refcnt' \in [Buf -> Nat],
           blockno'[k] = b, refcnt'[k] = refcnt[k] + 1,
           \A j \in Buf : j # k => /\ blockno'[j] = blockno[j] /\ valid'[j] = valid[j]
                                   /\ refcnt'[j] = refcnt[j],
           \A q \in Proc : buf[q] = k => blockno'[k] = blockno[k] /\ valid'[k] = valid[k],
           \A j \in Buf : BufOK(j)'
    PROVE  BcacheInv'
<1>1. /\ pc[p] = "idle" /\ ~panicked /\ panicked' = FALSE /\ TypeOK /\ BuffersSound
      /\ UNCHANGED <<data, holder, lru, disk, pinned>>
  BY Zenon DEF Taken, BcacheInv
<1>2. /\ pc' \in [Proc -> {"idle", "lock", "sleep", "locked", "use", "pin", "unpin", "drop"}]
      /\ \A q \in Proc : q # p => pc'[q] = pc[q] /\ buf'[q] = buf[q] /\ want'[q] = want[q]
      /\ pc'[p] = "lock" /\ buf'[p] = k /\ want'[p] = b
      /\ buf' \in [Proc -> Buf \cup {nil}] /\ want' \in [Proc -> Block \cup {NoBlock}]
  BY <1>1, Zenon DEF Taken, TypeOK
<1>3. TypeOK'
  BY <1>1, <1>2, Zenon DEF TypeOK
<1>4. RefcntExact'
  <2>1. \A j \in Buf : refcnt[j] = Cardinality(Users(j)) + (IF Pin(j) THEN 1 ELSE 0)
    BY <1>1, Refs, Zenon DEF BuffersSound
  <2>2. ASSUME NEW j \in Buf
        PROVE  refcnt'[j] = Cardinality(Users(j)') + (IF Pin(j)' THEN 1 ELSE 0)
    <3>1. CASE j = k
      BY <2>1, <3>1, TakenUsers
    <3>2. CASE j # k
      BY <2>1, <3>2, TakenUsers, Zenon
    <3> QED
      BY <3>1, <3>2, Zenon
  <2> QED
    BY <2>2, Zenon DEF RefcntExact, Users, Pin
<1>5. SleeperHasHolder' /\ Cardinality(pinned)' <= MaxPinned
  BY <1>1, <1>2, Zenon DEF SleeperHasHolder, BuffersSound, BcacheInv
<1>6. ASSUME NEW q \in Proc PROVE ProcOK(q)'
  <2>1. ProcOK(q)
    BY <1>1, Zenon DEF BcacheInv
  <2>2. CASE q = p
    BY <1>2, <2>2, Consts, Zenon DEF ProcOK, Holding
  <2>3. CASE q # p
    <3>1. pc[q] # "idle" => buf[q] \in Buf
      BY <1>1, Has, Zenon
    <3>2. Holding(q) => pc[q] # "idle"
      BY Zenon DEF Holding
    <3>3. pc[q] # "idle" => blockno'[buf[q]] = blockno[buf[q]] /\ valid'[buf[q]] = valid[buf[q]]
      BY <3>1, Zenon
    <3> QED
      BY <1>1, <1>2, <2>1, <2>3, <3>2, <3>3, ProcFrame, Zenon
  <2> QED
    BY <2>2, <2>3, Zenon
<1> QED
  BY <1>1, <1>3, <1>4, <1>5, <1>6, Assembled, Zenon

\* The first loop of bget() keeps the invariant.
LEMMA HitStep ==
    ASSUME Counting, BcacheInv, NEW p \in Proc, NEW b \in Block, bget(p, b), bget_hit(p, b)
    PROVE  BcacheInv'
<1>1. PICK k \in Buf :
        /\ blockno[k] = b
        /\ refcnt' = [refcnt EXCEPT ![k] = @ + 1]
        /\ buf' = [buf EXCEPT ![p] = k]
        /\ UNCHANGED <<blockno, valid, panicked>>
  BY Zenon DEF bget_hit
<1>2. TypeOK
  BY Zenon DEF BcacheInv
<1>3. Taken(p, b, k)
  BY <1>1, <1>2, Zenon DEF bget, Taken, TypeOK
<1>4. /\ blockno' = blockno /\ valid' = valid
      /\ refcnt' \in [Buf -> Nat] /\ refcnt'[k] = refcnt[k] + 1
      /\ \A j \in Buf : j # k => refcnt'[j] = refcnt[j]
  BY <1>1, <1>2 DEF TypeOK
<1>5. blockno \in [Buf -> Block \cup {NoBlock}] /\ valid \in [Buf -> BOOLEAN]
  BY <1>2, Zenon DEF TypeOK
<1>6. /\ pc[p] = "idle" /\ ~panicked
      /\ UNCHANGED <<data, holder, disk, pinned>>
      /\ \A q \in Proc : q # p => pc'[q] = pc[q] /\ buf'[q] = buf[q]
  BY <1>2, <1>3, Zenon DEF Taken, TypeOK
<1>7. ASSUME NEW j \in Buf PROVE BufOK(j)'
  <2>1. BufOK(j) /\ ~Holding(p)
    BY <1>6, Zenon DEF BcacheInv, Holding
  <2>2. holder[j] # Nobody => Holding(holder[j])'
    BY <1>6, <2>1, HolderKept, Zenon
  <2>3. holder[j] # Nobody => buf'[holder[j]] = buf[holder[j]]
    BY <1>6, <2>1, OtherHolder, Zenon
  <2> QED
    BY <1>4, <1>6, <2>1, <2>2, <2>3, BufFrame, Zenon
<1> QED
  BY <1>1, <1>3, <1>4, <1>5, <1>7, TakenStep, Zenon

\* A buffer with no reference is not used, not locked and not pinned.
LEMMA Unused ==
    ASSUME Counting, BcacheInv, ~panicked, NEW k \in Buf, refcnt[k] = 0
    PROVE  /\ \A q \in Proc : buf[q] # k
           /\ holder[k] = Nobody /\ k \notin pinned
<1>1. refcnt[k] = Cardinality(Users(k)) + (IF Pin(k) THEN 1 ELSE 0)
  BY Refs, Zenon DEF BcacheInv, BuffersSound
<1>2. Users(k) \in SUBSET Proc
  BY Zenon DEF Users
<1>3. Cardinality(Users(k)) \in Nat /\ (Cardinality(Users(k)) = 0 => Users(k) = {})
  BY <1>2, Zenon DEF Counting, Counts
<1>4. Users(k) = {} /\ ~Pin(k)
  BY <1>1, <1>3
<1>5. \A q \in Proc : buf[q] # k
  BY <1>4, Zenon DEF Users
<1>6. k \notin pinned
  BY <1>4, <1>5, Zenon DEF Pin
<1>7. BufOK(k) /\ holder[k] \in Proc \cup {Nobody}
  BY Zenon DEF BcacheInv, TypeOK
<1> QED
  BY <1>5, <1>6, <1>7, Zenon DEF BufOK

-----------------------------------------------------------------------------
(***************************************************************************)
(* The cache implements BlockStore.                                        *)
(***************************************************************************)
\* Buffer k has the contents of block b; p has its block from bread().
Caches(k, b) == blockno[k] = b /\ valid[k]
InUse(p) == pc[p] \in {"use", "pin", "unpin"}

\* At most one buffer has a block, and at most one process.
LEMMA OnlyOne ==
    ASSUME BcacheInv, ~panicked, NEW b \in Block
    PROVE  /\ \A j, k \in Buf : Caches(j, b) /\ Caches(k, b) => j = k
           /\ \A p, q \in Proc : want[p] = b /\ InUse(p) /\ want[q] = b /\ InUse(q) => p = q
<1>1. \A k \in Buf : BufOK(k)
  BY Zenon DEF BcacheInv
<1>2. \A j, k \in Buf : Caches(j, b) /\ Caches(k, b) => j = k
  BY <1>1, Consts DEF BufOK, Caches
<1>3. \A p \in Proc : InUse(p) => Holding(p)
  BY Zenon DEF InUse, Holding
<1>4. \A p, q \in Proc : want[p] = b /\ InUse(p) /\ want[q] = b /\ InUse(q) => p = q
  BY <1>3, ExcludesBlock, Zenon
<1> QED
  BY <1>2, <1>4, Zenon

\* The contents of a cached block are those of the buffer that has it.
LEMMA Cached ==
    ASSUME NEW b \in Block, NEW k \in Buf, Caches(k, b), \A j \in Buf : Caches(j, b) => j = k
    PROVE  contents[b] = data[k]
  BY Zenon DEF contents, Caches

\* The same after a step: bread() and the buffer it leaves.
LEMMA CachedNext ==
    ASSUME NEW b \in Block, NEW k \in Buf, Caches(k, b)', \A j \in Buf : Caches(j, b)' => j = k
    PROVE  contents'[b] = data'[k]
  BY Zenon DEF contents, Caches

\* The contents of any other block are on the disk.
LEMMA NotCached ==
    ASSUME NEW b \in Block, \A j \in Buf : ~Caches(j, b)
    PROVE  contents[b] = disk[b]
  BY Zenon DEF contents, Caches

\* The same after a step: bget() recycles a buffer.
LEMMA NotCachedNext ==
    ASSUME NEW b \in Block, \A j \in Buf : ~Caches(j, b)'
    PROVE  contents'[b] = disk'[b]
  BY Zenon DEF contents, Caches

\* A block has the owner that has it from bread().
LEMMA Owned ==
    ASSUME NEW b \in Block, NEW p \in Proc, want[p] = b, InUse(p),
           \A q \in Proc : want[q] = b /\ InUse(q) => q = p
    PROVE  owner[b] = p
  BY Zenon DEF owner, InUse

\* The same after a step: bread() returns to p.
LEMMA OwnedNext ==
    ASSUME NEW b \in Block, NEW p \in Proc, want'[p] = b, InUse(p)',
           \A q \in Proc : want'[q] = b /\ InUse(q)' => q = p
    PROVE  owner'[b] = p
  BY Zenon DEF owner, InUse

\* Any other block has no owner.
LEMMA NotOwned ==
    ASSUME NEW b \in Block, \A q \in Proc : ~(want[q] = b /\ InUse(q))
    PROVE  owner[b] = Nobody
  BY Zenon DEF owner, InUse

\* The same after a step: releasesleep() gives the block up.
LEMMA NotOwnedNext ==
    ASSUME NEW b \in Block, \A q \in Proc : ~(want'[q] = b /\ InUse(q)')
    PROVE  owner'[b] = Nobody
  BY Zenon DEF owner, InUse

\* A block that the same processes have as before has the same owner.
LEMMA OwnerKept ==
    ASSUME BcacheInv, ~panicked, NEW b \in Block,
           \A q \in Proc : want'[q] = b /\ InUse(q)' <=> want[q] = b /\ InUse(q)
    PROVE  owner'[b] = owner[b]
<1>1. CASE \E p \in Proc : want[p] = b /\ InUse(p)
  <2>1. PICK p \in Proc : want[p] = b /\ InUse(p)
    BY <1>1, Zenon
  <2>2. \A q \in Proc : want[q] = b /\ InUse(q) => q = p
    BY <2>1, OnlyOne, Zenon
  <2>3. owner[b] = p
    BY <2>1, <2>2, Owned, Zenon
  <2>4. owner'[b] = p
    BY <2>1, <2>2, OwnedNext, Zenon
  <2> QED
    BY <2>3, <2>4, Zenon
<1>2. CASE \A p \in Proc : ~(want[p] = b /\ InUse(p))
  <2>1. owner[b] = Nobody
    BY <1>2, NotOwned, Zenon
  <2>2. owner'[b] = Nobody
    BY <1>2, NotOwnedNext, Zenon
  <2> QED
    BY <2>1, <2>2, Zenon
<1> QED
  BY <1>1, <1>2, Zenon

\* A block cached in the same buffer as before, or in none, has the same contents, if
\* the step changes neither.
LEMMA ContentsKept ==
    ASSUME BcacheInv, ~panicked, NEW b \in Block,
           \A j \in Buf : Caches(j, b)' <=> Caches(j, b),
           \A j \in Buf : Caches(j, b) => data'[j] = data[j],
           (\A j \in Buf : ~Caches(j, b)) => disk'[b] = disk[b]
    PROVE  contents'[b] = contents[b]
<1>1. CASE \E k \in Buf : Caches(k, b)
  <2>1. PICK k \in Buf : Caches(k, b)
    BY <1>1, Zenon
  <2>2. \A j \in Buf : Caches(j, b) => j = k
    BY <2>1, OnlyOne, Zenon
  <2>3. contents[b] = data[k]
    BY <2>1, <2>2, Cached, Zenon
  <2>4. contents'[b] = data'[k]
    BY <2>1, <2>2, CachedNext, Zenon
  <2> QED
    BY <2>1, <2>3, <2>4, Zenon
<1>2. CASE \A k \in Buf : ~Caches(k, b)
  <2>1. contents[b] = disk[b]
    BY <1>2, NotCached, Zenon
  <2>2. contents'[b] = disk'[b]
    BY <1>2, NotCachedNext, Zenon
  <2> QED
    BY <1>2, <2>1, <2>2, Zenon
<1> QED
  BY <1>1, <1>2, Zenon

\* contents and owner are functions of the block.
LEMMA Maps ==
    /\ contents = [b \in Block |-> contents[b]] /\ contents' = [b \in Block |-> contents'[b]]
    /\ owner = [b \in Block |-> owner[b]] /\ owner' = [b \in Block |-> owner'[b]]
  BY Zenon DEF contents, owner

\* A step of the cache that is no step of the store.
LEMMA Stutters ==
    ASSUME \A b \in Block : contents'[b] = contents[b] /\ owner'[b] = owner[b]
    PROVE  [Store!Next]_(Store!vars)
<1>1. contents' = contents
  BY Maps, Zenon
<1>2. owner' = owner
  BY Maps, Zenon
<1> QED
  BY <1>1, <1>2, Zenon DEF Store!vars

\* A step that locks, changes or unlocks block b.
LEMMA StoreSteps ==
    ASSUME NEW p \in Proc, NEW b \in Block,
           \A c \in Block \ {b} : contents'[c] = contents[c] /\ owner'[c] = owner[c],
           \/ owner[b] = Nobody /\ owner'[b] = p /\ contents'[b] = contents[b]
           \/ owner[b] = p /\ owner'[b] = p /\ contents'[b] \in Val
           \/ owner[b] = p /\ owner'[b] = Nobody /\ contents'[b] = contents[b]
    PROVE  [Store!Next]_(Store!vars)
<1>1. owner' = [owner EXCEPT ![b] = owner'[b]]
  BY Maps, Zenon
<1>2. contents' = [contents EXCEPT ![b] = contents'[b]]
  BY Maps, Zenon
<1>3. contents'[b] = contents[b] => contents' = contents
  BY Maps, Zenon
<1>4. owner'[b] = owner[b] => owner' = owner
  BY Maps, Zenon
<1>5. CASE owner[b] = Nobody /\ owner'[b] = p /\ contents'[b] = contents[b]
  <2>1. Store!Lock(p, b)
    BY <1>1, <1>3, <1>5, Zenon DEF Store!Lock
  <2> QED
    BY <2>1, Zenon DEF Store!Next
<1>6. CASE owner[b] = p /\ owner'[b] = p /\ contents'[b] \in Val
  <2>1. Store!Store(p, b, contents'[b])
    BY <1>2, <1>4, <1>6, Zenon DEF Store!Store
  <2> QED
    BY <1>6, <2>1, Zenon DEF Store!Next
<1>7. CASE owner[b] = p /\ owner'[b] = Nobody /\ contents'[b] = contents[b]
  <2>1. Store!Unlock(p, b)
    BY <1>1, <1>3, <1>7, Zenon DEF Store!Unlock
  <2> QED
    BY <2>1, Zenon DEF Store!Next
<1> QED
  BY <1>5, <1>6, <1>7, Zenon

\* A step of p that leaves buffers and disk alone and neither gets nor gives up a
\* block is no step of the store: most of bget(), acquiresleep(), bpin(), bunpin(),
\* brelse() and kill().
LEMMA Quiet ==
    ASSUME BcacheInv, ~panicked, NEW p \in Proc, UNCHANGED <<blockno, valid, data, disk>>,
           \A q \in Proc : q # p => pc'[q] = pc[q] /\ want'[q] = want[q],
           InUse(p)' <=> InUse(p), InUse(p) => want'[p] = want[p]
    PROVE  [Store!Next]_(Store!vars)
<1>1. ASSUME NEW b \in Block PROVE contents'[b] = contents[b]
  <2>1. \A j \in Buf : Caches(j, b)' <=> Caches(j, b)
    BY Zenon DEF Caches
  <2> QED
    BY <2>1, ContentsKept, Zenon
<1>2. ASSUME NEW b \in Block PROVE owner'[b] = owner[b]
  <2>1. ASSUME NEW q \in Proc
        PROVE  want'[q] = b /\ InUse(q)' <=> want[q] = b /\ InUse(q)
    BY Zenon DEF InUse
  <2> QED
    BY <2>1, OwnerKept, Zenon
<1> QED
  BY <1>1, <1>2, Stutters, Zenon

\* acquiresleep(), bpin(), bunpin(), brelse() and kill() are no steps of the store.
LEMMA QuietSteps ==
    ASSUME BcacheInv, NEW p \in Proc,
           acquiresleep(p) \/ bpin(p) \/ bunpin(p) \/ brelse(p) \/ kill(p)
    PROVE  [Store!Next]_(Store!vars)
<1>1. TypeOK
  BY Zenon DEF BcacheInv
<1>2. ~panicked /\ UNCHANGED <<blockno, valid, data, disk>>
  BY Zenon DEF acquiresleep, bpin, bunpin, brelse, kill
<1>3. CASE acquiresleep(p)
  BY <1>1, <1>2, <1>3, Quiet, Zenon DEF acquiresleep, InUse, TypeOK
<1>4. CASE bpin(p)
  BY <1>1, <1>2, <1>4, Quiet, Zenon DEF bpin, InUse, TypeOK
<1>5. CASE bunpin(p)
  BY <1>1, <1>2, <1>5, Quiet, Zenon DEF bunpin, InUse, TypeOK
<1>6. CASE brelse(p)
  BY <1>1, <1>2, <1>6, Quiet, Zenon DEF brelse, InUse, TypeOK
<1>7. CASE kill(p)
  BY <1>1, <1>2, <1>7, Quiet, Zenon DEF kill, InUse, TypeOK
<1> QED
  BY <1>3, <1>4, <1>5, <1>6, <1>7, Zenon

\* bread() locks the block: it reads what the store has, whether from a valid buffer
\* or from the disk.
LEMMA BreadLocks ==
    ASSUME BcacheInv, NEW p \in Proc, bread(p)
    PROVE  [Store!Next]_(Store!vars)
<1>1. /\ pc[p] = "locked" /\ ~panicked /\ TypeOK
      /\ UNCHANGED <<blockno, disk, want>>
  BY Zenon DEF bread, BcacheInv
<1>2. PICK k \in Buf : k = buf[p] /\ blockno[k] = want[p] /\ want[p] \in Block
  BY <1>1, Has, Zenon
<1>3. PICK b \in Block : b = want[p]
  BY <1>2, Zenon
<1>4. /\ \A q \in Proc : q # p => pc'[q] = pc[q]
      /\ pc'[p] = "use"
  BY <1>1, Zenon DEF bread, TypeOK
<1>5. /\ \A j \in Buf : j # k => valid'[j] = valid[j] /\ data'[j] = data[j]
      /\ valid'[k]
      /\ \/ valid[k] /\ data'[k] = data[k]
         \/ ~valid[k] /\ data'[k] = disk[b]
  <2>1. CASE valid[k]
    BY <1>1, <1>2, <2>1, Zenon DEF bread, TypeOK
  <2>2. CASE ~valid[k]
    <3>1. data' = [data EXCEPT ![k] = disk[b]] /\ valid' = [valid EXCEPT ![k] = TRUE]
      BY <1>2, <1>3, <2>2, Zenon DEF bread
    <3> QED
      BY <1>1, <2>2, <3>1, Zenon DEF TypeOK
  <2> QED
    BY <2>1, <2>2, Zenon
<1>6. ASSUME NEW q \in Proc, want[q] = b, InUse(q) PROVE FALSE
  <2>1. Holding(q) /\ Holding(p) /\ q # p
    BY <1>1, <1>6, Zenon DEF Holding, InUse
  <2> QED
    BY <1>1, <1>3, <1>6, <2>1, ExcludesBlock, Zenon
<1>7. owner[b] = Nobody
  BY <1>6, NotOwned, Zenon
<1>8. owner'[b] = p
  <2>1. InUse(p)' /\ \A q \in Proc : q # p => (InUse(q)' <=> InUse(q))
    BY <1>4, Zenon DEF InUse
  <2> QED
    BY <1>1, <1>3, <1>6, <2>1, OwnedNext, Zenon
<1>9. contents'[b] = contents[b]
  <2>1. \A j \in Buf : blockno[j] = b => j = k
    <3>1. BufOK(k)
      BY <1>1, Zenon DEF BcacheInv
    <3> QED
      BY <1>2, <1>3, <3>1, Consts, Zenon DEF BufOK
  <2>2. contents'[b] = data'[k]
    BY <1>1, <1>2, <1>3, <1>5, <2>1, CachedNext, Zenon DEF Caches
  <2>3. contents[b] = IF valid[k] THEN data[k] ELSE disk[b]
    BY <1>2, <1>3, <2>1, Cached, NotCached, Zenon DEF Caches
  <2> QED
    BY <1>5, <2>2, <2>3, Zenon
<1>10. ASSUME NEW c \in Block \ {b} PROVE contents'[c] = contents[c] /\ owner'[c] = owner[c]
  <2>1. \A j \in Buf : blockno[j] = c => j # k
    BY <1>2, <1>3, Zenon
  <2>2. contents'[c] = contents[c]
    BY <1>1, <1>5, <2>1, ContentsKept, Zenon DEF Caches
  <2>3. \A q \in Proc : want'[q] = c /\ InUse(q)' <=> want[q] = c /\ InUse(q)
    BY <1>1, <1>3, <1>4, Zenon DEF InUse
  <2> QED
    BY <1>1, <2>2, <2>3, OwnerKept, Zenon
<1> QED
  BY <1>7, <1>8, <1>9, <1>10, StoreSteps, Zenon

\* A change of the buffer changes that block of the store.
LEMMA ModifyStores ==
    ASSUME BcacheInv, NEW p \in Proc, NEW v \in Val, modify(p, v)
    PROVE  [Store!Next]_(Store!vars)
<1>1. /\ pc[p] = "use" /\ ~panicked /\ TypeOK
      /\ UNCHANGED <<blockno, valid, disk, want>>
  BY Zenon DEF modify, BcacheInv
<1>2. PICK k \in Buf : k = buf[p] /\ blockno[k] = want[p] /\ want[p] \in Block /\ valid[k]
  <2>1. ProcOK(p)
    BY <1>1, Zenon DEF BcacheInv
  <2> QED
    BY <1>1, <2>1, Has, Zenon DEF ProcOK
<1>3. PICK b \in Block : b = want[p]
  BY <1>2, Zenon
<1>4. /\ \A q \in Proc : InUse(q)' <=> InUse(q)
      /\ InUse(p)
  BY <1>1, Zenon DEF modify, TypeOK, InUse
<1>5. data'[k] = v /\ \A j \in Buf : j # k => data'[j] = data[j]
  BY <1>1, <1>2, Zenon DEF modify, TypeOK
<1>6. Caches(k, b) /\ \A j \in Buf : Caches(j, b) => j = k
  <2>1. Caches(k, b)
    BY <1>2, <1>3, Zenon DEF Caches
  <2> QED
    BY <1>1, <2>1, OnlyOne, Zenon
<1>7. \A c \in Block, j \in Buf : Caches(j, c)' <=> Caches(j, c)
  BY <1>1, Zenon DEF Caches
<1>8. contents'[b] = v
  BY <1>5, <1>6, <1>7, CachedNext, Zenon
<1>9. \A c \in Block : owner'[c] = owner[c]
  BY <1>1, <1>4, OwnerKept, Zenon
<1>10. owner[b] = p
  <2>1. \A q \in Proc : want[q] = b /\ InUse(q) => q = p
    BY <1>1, <1>3, <1>4, OnlyOne, Zenon
  <2> QED
    BY <1>3, <1>4, <2>1, Owned, Zenon
<1>11. ASSUME NEW c \in Block \ {b} PROVE contents'[c] = contents[c]
  <2>1. \A j \in Buf : Caches(j, c) => j # k
    BY <1>2, <1>3, Zenon DEF Caches
  <2> QED
    BY <1>1, <1>5, <1>7, <2>1, ContentsKept, Zenon
<1> QED
  BY <1>8, <1>9, <1>10, <1>11, StoreSteps, Zenon

\* bwrite() does not change what the store has: the block is in the buffer.
LEMMA BwriteStutters ==
    ASSUME BcacheInv, NEW p \in Proc, bwrite(p)
    PROVE  [Store!Next]_(Store!vars)
<1>1. /\ pc[p] = "use" /\ ~panicked /\ TypeOK
      /\ UNCHANGED <<blockno, valid, data, want>>
  BY Zenon DEF bwrite, BcacheInv
<1>2. PICK k \in Buf : k = buf[p] /\ blockno[k] = want[p] /\ want[p] \in Block /\ valid[k]
  <2>1. ProcOK(p)
    BY <1>1, Zenon DEF BcacheInv
  <2> QED
    BY <1>1, <2>1, Has, Zenon DEF ProcOK
<1>3. \A q \in Proc : InUse(q)' <=> InUse(q)
  BY <1>1, Zenon DEF bwrite, TypeOK, InUse
<1>4. \A c \in Block : c # blockno[k] => disk'[c] = disk[c]
  BY <1>1, <1>2, Zenon DEF bwrite, TypeOK
<1>5. \A c \in Block, j \in Buf : Caches(j, c)' <=> Caches(j, c)
  BY <1>1, Zenon DEF Caches
<1>6. Caches(k, blockno[k])
  BY <1>2, Zenon DEF Caches
<1>7. ASSUME NEW c \in Block PROVE contents'[c] = contents[c]
  BY <1>1, <1>4, <1>5, <1>6, ContentsKept, Zenon
<1>8. \A c \in Block : owner'[c] = owner[c]
  BY <1>1, <1>3, OwnerKept, Zenon
<1> QED
  BY <1>7, <1>8, Stutters, Zenon

\* releasesleep() unlocks the block.
LEMMA ReleaseUnlocks ==
    ASSUME BcacheInv, NEW p \in Proc, releasesleep(p)
    PROVE  [Store!Next]_(Store!vars)
<1>1. /\ pc[p] = "use" /\ ~panicked /\ TypeOK
      /\ UNCHANGED <<blockno, valid, data, disk, want>>
  BY Zenon DEF releasesleep, BcacheInv
<1>2. PICK b \in Block : b = want[p]
  BY <1>1, Has, Zenon
<1>3. /\ InUse(p) /\ ~InUse(p)'
      /\ \A q \in Proc : q # p => (InUse(q)' <=> InUse(q))
  BY <1>1, Zenon DEF releasesleep, wakeup, TypeOK, InUse
<1>4. \A q \in Proc : want[q] = b /\ InUse(q) => q = p
  BY <1>1, <1>2, <1>3, OnlyOne, Zenon
<1>5. owner[b] = p
  BY <1>2, <1>3, <1>4, Owned, Zenon
<1>6. owner'[b] = Nobody
  BY <1>1, <1>3, <1>4, NotOwnedNext, Zenon
<1>7. \A c \in Block, j \in Buf : Caches(j, c)' <=> Caches(j, c)
  BY <1>1, Zenon DEF Caches
<1>8. \A c \in Block : contents'[c] = contents[c]
  BY <1>1, <1>7, ContentsKept, Zenon
<1>9. \A c \in Block \ {b} : owner'[c] = owner[c]
  BY <1>1, <1>2, <1>3, OwnerKept, Zenon
<1> QED
  BY <1>5, <1>6, <1>8, <1>9, StoreSteps, Zenon

\* The second loop of bget() keeps the invariant when it finds a buffer.
LEMMA MissStep ==
    ASSUME Counting, BcacheInv, NEW p \in Proc, NEW b \in Block, bget(p, b),
           NEW k \in Buf, refcnt[k] = 0, recycle(p, b, k), \A j \in Buf : blockno[j] # b
    PROVE  BcacheInv'
<1>1. TypeOK /\ ~panicked
  BY Zenon DEF BcacheInv, bget
<1>2. /\ blockno' = [blockno EXCEPT ![k] = b]
      /\ valid' = [valid EXCEPT ![k] = FALSE]
      /\ refcnt' = [refcnt EXCEPT ![k] = 1]
      /\ buf' = [buf EXCEPT ![p] = k]
      /\ panicked' = panicked
  BY Zenon DEF recycle
<1>3. Taken(p, b, k)
  BY <1>1, <1>2, Zenon DEF bget, Taken, TypeOK
<1>4. /\ blockno' \in [Buf -> Block \cup {NoBlock}] /\ valid' \in [Buf -> BOOLEAN]
      /\ refcnt' \in [Buf -> Nat]
      /\ blockno'[k] = b /\ ~valid'[k] /\ refcnt'[k] = refcnt[k] + 1
      /\ \A j \in Buf : j # k => /\ blockno'[j] = blockno[j] /\ valid'[j] = valid[j]
                                 /\ refcnt'[j] = refcnt[j]
  BY <1>1, <1>2 DEF TypeOK
<1>5. (\A q \in Proc : buf[q] # k) /\ holder[k] = Nobody /\ k \notin pinned
  BY <1>1, Unused, Zenon
<1>6. /\ pc[p] = "idle"
      /\ UNCHANGED <<data, holder, disk, pinned>>
      /\ \A q \in Proc : q # p => pc'[q] = pc[q] /\ buf'[q] = buf[q]
  BY <1>1, <1>3, Zenon DEF Taken, TypeOK
<1>7. ASSUME NEW j \in Buf PROVE BufOK(j)'
  <2>1. BufOK(j) /\ ~Holding(p)
    BY <1>1, <1>6, Zenon DEF BcacheInv, Holding
  <2>2. holder[j] # Nobody => Holding(holder[j])'
    BY <1>1, <1>6, <2>1, HolderKept, Zenon
  <2>3. holder[j] # Nobody => buf'[holder[j]] = buf[holder[j]]
    BY <1>1, <1>6, <2>1, OtherHolder, Zenon
  <2>4. ASSUME NEW i \in Buf, blockno'[i] = blockno'[j], blockno'[j] # NoBlock PROVE i = j
    <3>1. CASE i # k /\ j # k
      BY <1>4, <2>1, <2>4, <3>1, Zenon DEF BufOK
    <3>2. CASE i = k \/ j = k
      BY <1>1, <1>4, <2>4, <3>2, Zenon
    <3> QED
      BY <3>1, <3>2, Zenon
  <2>5. CASE j = k
    BY <1>4, <1>5, <1>6, <2>4, <2>5, Zenon DEF BufOK
  <2>6. CASE j # k
    BY <1>4, <1>6, <2>1, <2>2, <2>3, <2>4, <2>6, Zenon DEF BufOK
  <2> QED
    BY <2>5, <2>6, Zenon
<1> QED
  BY <1>3, <1>4, <1>5, <1>7, TakenStep, Zenon

\* A recycled buffer does not change what the store has: its block was on the disk
\* too, and the new block is not read yet.
LEMMA MissStutters ==
    ASSUME Counting, BcacheInv, NEW p \in Proc, NEW b \in Block, bget(p, b),
           NEW k \in Buf, refcnt[k] = 0, recycle(p, b, k), \A j \in Buf : blockno[j] # b
    PROVE  [Store!Next]_(Store!vars)
<1>1. /\ TypeOK /\ ~panicked /\ pc[p] = "idle" /\ UNCHANGED <<data, disk>>
      /\ \A j \in Buf : BufOK(j)
  BY Zenon DEF BcacheInv, bget
<1>2. /\ blockno'[k] = b /\ ~valid'[k]
      /\ \A j \in Buf : j # k => blockno'[j] = blockno[j] /\ valid'[j] = valid[j]
  BY <1>1, Zenon DEF recycle, TypeOK
<1>3. /\ ~InUse(p) /\ ~InUse(p)'
      /\ \A q \in Proc : q # p => pc'[q] = pc[q] /\ want'[q] = want[q]
  BY <1>1, Zenon DEF bget, TypeOK, InUse
<1>4. ASSUME NEW c \in Block PROVE owner'[c] = owner[c]
  <2>1. \A q \in Proc : want'[q] = c /\ InUse(q)' <=> want[q] = c /\ InUse(q)
    BY <1>3, Zenon DEF InUse
  <2> QED
    BY <1>1, <2>1, OwnerKept, Zenon
<1>5. ASSUME NEW c \in Block PROVE contents'[c] = contents[c]
  <2>1. \A j \in Buf : j # k => (Caches(j, c)' <=> Caches(j, c))
    BY <1>2, Zenon DEF Caches
  <2>2. ~Caches(k, c)'
    BY <1>2, Zenon DEF Caches
  <2>3. CASE Caches(k, c)
    <3>1. \A j \in Buf : Caches(j, c) => j = k
      BY <1>1, <2>3, OnlyOne, Zenon
    <3>2. contents[c] = data[k]
      BY <2>3, <3>1, Cached, Zenon
    <3>3. contents'[c] = disk'[c]
      BY <2>1, <2>2, <3>1, NotCachedNext, Zenon
    <3>4. data[k] = disk[c]
      BY <1>1, <2>3, Unused, Zenon DEF BufOK, Caches
    <3> QED
      BY <1>1, <3>2, <3>3, <3>4, Zenon
  <2>4. CASE ~Caches(k, c)
    BY <1>1, <2>1, <2>2, <2>4, ContentsKept, Zenon
  <2> QED
    BY <2>3, <2>4, Zenon
<1> QED
  BY <1>4, <1>5, Stutters, Zenon

\* When bget() finds no buffer to recycle, it changes only the process.
LEMMA PanicStep ==
    ASSUME BcacheInv, NEW p \in Proc, NEW b \in Block, bget(p, b),
           panicked' = TRUE, UNCHANGED <<blockno, valid, refcnt, buf>>,
           ~(Cardinality(Proc) + MaxPinned <= NBUF)
    PROVE  BcacheInv'
<1>1. /\ TypeOK /\ BuffersSound /\ pc[p] = "idle" /\ ~panicked
      /\ UNCHANGED <<data, holder, lru, disk, pinned>>
  BY Zenon DEF BcacheInv, bget
<1>2. /\ pc' \in [Proc -> {"idle", "lock", "sleep", "locked", "use", "pin", "unpin", "drop"}]
      /\ \A q \in Proc : q # p => pc'[q] = pc[q]
      /\ pc'[p] = "lock" /\ want' \in [Proc -> Block \cup {NoBlock}]
  BY <1>1, Zenon DEF bget, TypeOK
<1>3. TypeOK'
  BY <1>1, <1>2, Zenon DEF TypeOK
<1>4. RefcntExact'
  <2>1. \A j \in Buf : Pin(j)' <=> Pin(j)
    BY <1>1, <1>2, Zenon DEF Pin
  <2> QED
    BY <1>1, <2>1, RefsKept, Zenon DEF BuffersSound
<1>5. SleeperHasHolder' /\ Cardinality(pinned)' <= MaxPinned
  BY <1>1, <1>2, Zenon DEF SleeperHasHolder, BuffersSound, BcacheInv
<1>6. NoPanic'
  BY Zenon DEF NoPanic
<1> QED
  BY <1>3, <1>4, <1>5, <1>6, Zenon DEF BcacheInv, BuffersSound

\* Any other step of bget() is no step of the store.
LEMMA BgetStutters ==
    ASSUME BcacheInv, NEW p \in Proc, NEW b \in Block, bget(p, b), UNCHANGED <<blockno, valid>>
    PROVE  [Store!Next]_(Store!vars)
<1>1. TypeOK /\ ~panicked /\ pc[p] = "idle" /\ UNCHANGED <<blockno, valid, data, disk>>
  BY Zenon DEF BcacheInv, bget
<1>2. /\ ~InUse(p) /\ ~InUse(p)'
      /\ \A q \in Proc : q # p => pc'[q] = pc[q] /\ want'[q] = want[q]
  BY <1>1, Zenon DEF bget, TypeOK, InUse
<1> QED
  BY <1>1, <1>2, Quiet, Zenon

\* The initial state of the cache is one of the store.
LEMMA StoreInit ==
    ASSUME Init
    PROVE  Store!Init
<1>1. /\ \A b \in Block, j \in Buf : ~Caches(j, b)
      /\ \A b \in Block, q \in Proc : ~(want[q] = b /\ InUse(q))
      /\ disk \in [Block -> Val]
  BY Zenon DEF Init, Caches, InUse
<1>2. \A b \in Block : contents[b] = disk[b] /\ owner[b] = Nobody
  BY <1>1, NotCached, NotOwned, Zenon
<1>3. contents \in [Block -> Val]
  BY <1>1, <1>2, Maps, Zenon
<1>4. owner = [b \in Block |-> Nobody]
  BY <1>2, Maps, Zenon
<1> QED
  BY <1>3, <1>4, Zenon DEF Store!Init

-----------------------------------------------------------------------------
(***************************************************************************)
(* Counting, and the theorems.                                             *)
(***************************************************************************)
INSTANCE FiniteSetTheorems

\* Cardinality does what the counts of bget() and brelse() need.
LEMMA Cards == Counting
<1>1. IsFiniteSet(Proc) /\ IsFiniteSet(Buf)
  <2>1. NBUF \in Int /\ 1 \in Int
    BY BcacheAssumption
  <2>2. IsFiniteSet(1..NBUF)
    BY <2>1, FS_Interval, Zenon
  <2> QED
    BY <2>2, BcacheAssumption, Zenon DEF Buf
<1>2. ASSUME NEW U, IsFiniteSet(U) PROVE Counts(U)
  <2>1. ASSUME NEW S \in SUBSET U
        PROVE  /\ Cardinality(S) \in Nat
               /\ Cardinality(S) = 0 <=> S = {}
               /\ \A u \in U \ S : Cardinality(S \cup {u}) = Cardinality(S) + 1
    <3>1. IsFiniteSet(S)
      BY <1>2, FS_Subset, Zenon
    <3>2. Cardinality(S) \in Nat
      BY <3>1, FS_CardinalityType, Zenon
    <3>3. Cardinality(S) = 0 <=> S = {}
      BY <3>1, FS_EmptySet, Zenon
    <3>4. \A u \in U \ S : Cardinality(S \cup {u}) = Cardinality(S) + 1
      BY <3>1, FS_AddElement, Zenon
    <3> QED
      BY <3>2, <3>3, <3>4, Zenon
  <2> QED
    BY <2>1, Zenon DEF Counts
<1> QED
  BY <1>1, <1>2, Zenon DEF Counting

\* The scan of the list from its end finds a buffer, when there is one.
LEMMA LastUnused ==
    ASSUME unused # {}
    PROVE  \E i \in unused : \A j \in unused : j <= i
<1> DEFINE Above(i) == {j \in unused : j > i}
           T == {Above(i) : i \in unused}
           R == StrictSubsetOrdering(Buf)
<1>1. unused \subseteq Buf /\ Buf \subseteq Int
  BY DEF unused, Buf
<1>2. IsFiniteSet(Buf)
  <2>1. NBUF \in Int /\ 1 \in Int
    BY BcacheAssumption
  <2> QED
    BY <2>1, FS_Interval, Zenon DEF Buf
<1>3. IsWellFoundedOn(R, SUBSET Buf)
  BY <1>2, FS_StrictSubsetOrderingWellFounded, FS_FiniteSubsetsOfFinite, Zenon
<1>4. T \subseteq SUBSET Buf /\ T # {}
  BY <1>1, Zenon
<1>5. PICK x \in T : \A y \in T : ~(<<y, x>> \in R)
  <2> HIDE DEF T, R
  <2> QED
    BY <1>3, <1>4, WFMin, Zenon
<1>6. PICK i \in unused : x = Above(i)
  BY Zenon
<1>7. ASSUME NEW j \in unused, j > i PROVE FALSE
  <2>1. Above(j) \subseteq Above(i) /\ j \in Above(i) /\ j \notin Above(j)
    <3>1. i \in Int /\ j \in Int /\ j > i /\ ~(j > j)
      BY <1>1, <1>7
    <3>2. ASSUME NEW n \in Above(j) PROVE n \in Above(i)
      <4>1. n \in unused /\ n > j /\ n \in Int
        BY <1>1, Zenon
      <4>2. n > i
        BY <3>1, <4>1
      <4> QED
        BY <4>1, <4>2, Zenon
    <3> QED
      BY <3>1, <3>2, Zenon
  <2>2. Above(j) \in SUBSET Buf /\ Above(i) \in SUBSET Buf /\ Above(j) # Above(i)
    BY <1>1, <2>1, Zenon
  <2>3. <<Above(j), Above(i)>> \in R
    BY <2>1, <2>2, Zenon DEF StrictSubsetOrdering
  <2>4. Above(j) \in T
    BY Zenon
  <2> QED
    BY <1>5, <1>6, <2>3, <2>4, Zenon
<1> QED
  BY <1>1, <1>7

\* A miss in bget() recycles a buffer that has no reference, or there is none.
LEMMA MissRecycles ==
    ASSUME BcacheInv, NEW p \in Proc, NEW b \in Block, bget_miss(p, b), unused # {}
    PROVE  \E k \in Buf : refcnt[k] = 0 /\ recycle(p, b, k)
<1> DEFINE m == CHOOSE i \in unused : \A j \in unused : j <= i
<1>1. recycle(p, b, lru[m])
  BY Zenon DEF bget_miss
<1>2. m \in unused
  BY LastUnused, Zenon
<1> HIDE DEF m
<1>3. lru[m] \in Buf /\ refcnt[lru[m]] = 0
  BY <1>2, Zenon DEF unused, BcacheInv, TypeOK
<1> QED
  BY <1>1, <1>3, Zenon

\* With no buffer to recycle, those that p does not use are all used by another
\* process or pinned: there are fewer than one for each process and each pin.
LEMMA NoRoom ==
    ASSUME BcacheInv, ~panicked, NEW p \in Proc, pc[p] = "idle", unused = {}
    PROVE  ~(Cardinality(Proc) + MaxPinned <= NBUF)
<1> DEFINE U == {q \in Proc \ {p} : buf[q] \in Buf}
           B == {buf[q] : q \in U}
           f == [q \in U |-> buf[q]]
<1>1. buf[p] = nil /\ TypeOK /\ RefcntExact /\ Cardinality(pinned) <= MaxPinned
  BY Zenon DEF BcacheInv, ProcOK, BuffersSound
<1>2. Buf \subseteq B \cup pinned
  <2>1. ASSUME NEW k \in Buf, k \notin pinned PROVE k \in B
    <3>1. PICK i \in Buf : lru[i] = k
      BY <1>1, Zenon DEF TypeOK
    <3>2. refcnt[k] # 0 /\ ~Pin(k)
      BY <2>1, <3>1, Zenon DEF unused, Pin
    <3>3. Cardinality(Users(k)) # 0 /\ Users(k) \in SUBSET Proc
      <4>1. refcnt[k] = Cardinality(Users(k)) + 0 /\ refcnt[k] \in Nat
        BY <1>1, <3>2, Refs, Zenon DEF TypeOK
      <4>2. Users(k) \in SUBSET Proc
        BY Zenon DEF Users
      <4> QED
        BY <3>2, <4>1, <4>2, Cards DEF Counting, Counts
    <3>4. Users(k) # {}
      BY <3>3, Cards, Zenon DEF Counting, Counts
    <3>5. PICK q \in Proc : buf[q] = k
      BY <3>4, Zenon DEF Users
    <3> QED
      BY <1>1, <3>5, Consts, Zenon
  <2> QED
    BY <2>1, Zenon
<1>3. f \in Surjection(U, B)
  BY Zenon DEF Surjection
<1>4. IsFiniteSet(Proc) /\ U \in SUBSET (Proc \ {p})
  BY BcacheAssumption, Zenon
<1>5. IsFiniteSet(Proc \ {p}) /\ Cardinality(Proc \ {p}) = Cardinality(Proc) - 1
  BY <1>4, FS_RemoveElement, Zenon
<1>6. IsFiniteSet(U) /\ Cardinality(U) <= Cardinality(Proc \ {p})
  BY <1>4, <1>5, FS_Subset, Zenon
<1> HIDE DEF U, B, f
<1>7. IsFiniteSet(B) /\ Cardinality(B) <= Cardinality(U)
  BY <1>3, <1>6, FS_Surjection, Zenon
<1>8. IsFiniteSet(Buf) /\ Cardinality(Buf) = NBUF
  <2>1. NBUF \in Int /\ 1 \in Int /\ NBUF >= 1
    BY BcacheAssumption
  <2>2. IsFiniteSet(1..NBUF) /\ Cardinality(1..NBUF) = IF 1 > NBUF THEN 0 ELSE NBUF - 1 + 1
    BY <2>1, FS_Interval, Zenon
  <2> QED
    BY <2>1, <2>2 DEF Buf
<1>9. IsFiniteSet(pinned)
  BY <1>1, <1>8, FS_Subset, Zenon DEF TypeOK
<1>10. /\ IsFiniteSet(B \cup pinned)
       /\ Cardinality(B \cup pinned) = Cardinality(B) + Cardinality(pinned) - Cardinality(B \cap pinned)
  BY <1>7, <1>9, FS_Union, Zenon
<1>11. NBUF <= Cardinality(B \cup pinned)
  BY <1>2, <1>8, <1>10, FS_Subset, Zenon
<1>12. IsFiniteSet(B \cap pinned)
  BY <1>7, FS_Intersection, Zenon
<1>13. /\ Cardinality(Proc) \in Nat /\ Cardinality(B) \in Nat /\ Cardinality(pinned) \in Nat
       /\ Cardinality(B \cap pinned) \in Nat /\ Cardinality(U) \in Nat
  BY <1>4, <1>6, <1>7, <1>9, <1>12, FS_CardinalityType, Zenon
<1> QED
  BY <1>1, <1>5, <1>6, <1>7, <1>10, <1>11, <1>13, BcacheAssumption

\* bget() keeps the invariant, and is no step of the store.
LEMMA BgetStep ==
    ASSUME BcacheInv, NEW p \in Proc, NEW b \in Block, bget(p, b)
    PROVE  BcacheInv' /\ [Store!Next]_(Store!vars)
<1>1. pc[p] = "idle" /\ ~panicked /\ (bget_hit(p, b) \/ bget_miss(p, b))
  BY Zenon DEF bget
<1>2. CASE bget_hit(p, b)
  <2>1. UNCHANGED <<blockno, valid>>
    BY <1>2, Zenon DEF bget_hit
  <2> QED
    BY <1>2, <2>1, Cards, HitStep, BgetStutters, Zenon
<1>3. CASE bget_miss(p, b) /\ unused = {}
  <2>1. panicked' = TRUE /\ UNCHANGED <<blockno, valid, refcnt, buf>>
    BY <1>3, Zenon DEF bget_miss
  <2>2. ~(Cardinality(Proc) + MaxPinned <= NBUF)
    BY <1>1, <1>3, NoRoom, Zenon
  <2> QED
    BY <2>1, <2>2, PanicStep, BgetStutters, Zenon
<1>4. CASE bget_miss(p, b) /\ unused # {}
  <2>1. PICK k \in Buf : refcnt[k] = 0 /\ recycle(p, b, k)
    BY <1>4, MissRecycles, Zenon
  <2>2. \A j \in Buf : blockno[j] # b
    BY <1>4, Zenon DEF bget_miss
  <2>3. BcacheInv'
    BY <2>1, <2>2, Cards, MissStep, Zenon
  <2>4. [Store!Next]_(Store!vars)
    BY <2>1, <2>2, Cards, MissStutters, Zenon
  <2> QED
    BY <2>3, <2>4, Zenon
<1> QED
  BY <1>1, <1>2, <1>3, <1>4, Zenon

\* binit() makes the invariant true.
LEMMA InitBcache ==
    ASSUME Init
    PROVE  BcacheInv
<1>1. TypeOK
  <2>1. \A k \in Buf : \E i \in Buf : lru[i] = k
    <3>1. ASSUME NEW k \in Buf PROVE NBUF + 1 - k \in Buf /\ NBUF + 1 - (NBUF + 1 - k) = k
      BY BcacheAssumption DEF Buf
    <3> QED
      BY <3>1, Zenon DEF Init
  <2>2. lru \in [Buf -> Buf]
    <3>1. ASSUME NEW k \in Buf PROVE NBUF + 1 - k \in Buf
      BY BcacheAssumption DEF Buf
    <3> QED
      BY <3>1, Zenon DEF Init
  <2> QED
    BY <2>1, <2>2, Zenon DEF Init, TypeOK
<1>2. RefcntExact
  <2>1. ASSUME NEW k \in Buf PROVE Users(k) = {} /\ ~Pin(k) /\ refcnt[k] = 0
    BY Consts, Zenon DEF Init, Users, Pin
  <2>2. Cardinality({}) = 0
    BY FS_EmptySet, Zenon
  <2> QED
    BY <2>1, <2>2, Refs
<1>3. SleeperHasHolder /\ NoPanic /\ Cardinality(pinned) <= MaxPinned
  <2>1. Cardinality({}) = 0
    BY FS_EmptySet
  <2> QED
    BY <2>1, BcacheAssumption DEF Init, SleeperHasHolder, NoPanic
<1>4. \A q \in Proc : ProcOK(q)
  BY Zenon DEF Init, ProcOK, Holding
<1>5. \A k \in Buf : BufOK(k)
  BY Zenon DEF Init, BufOK
<1> QED
  BY <1>1, <1>2, <1>3, <1>4, <1>5, Zenon DEF BcacheInv, BuffersSound

\* Every step of the cache keeps the invariant, and is a step of the store or none.
LEMMA StepBcache ==
    ASSUME BcacheInv, [Next]_vars
    PROVE  BcacheInv' /\ [Store!Next]_(Store!vars)
<1>1. CASE UNCHANGED vars
  <2>1. BcacheInv'
    BY <1>1 DEF vars, BcacheInv, TypeOK, BuffersSound, RefcntExact, SleeperHasHolder, NoPanic,
                ProcOK, BufOK, Holding
  <2>2. contents' = contents /\ owner' = owner
    BY <1>1, Zenon DEF vars, contents, owner
  <2> QED
    BY <2>1, <2>2, Zenon DEF Store!vars
<1>2. ASSUME NEW p \in Proc, NEW b \in Block, bget(p, b)
      PROVE  BcacheInv' /\ [Store!Next]_(Store!vars)
  BY <1>2, BgetStep, Zenon
<1>3. ASSUME NEW p \in Proc, acquiresleep(p) PROVE BcacheInv' /\ [Store!Next]_(Store!vars)
  BY <1>3, AcquireStep, QuietSteps, Zenon
<1>4. ASSUME NEW p \in Proc, bread(p) PROVE BcacheInv' /\ [Store!Next]_(Store!vars)
  BY <1>4, BreadStep, BreadLocks, Zenon
<1>5. ASSUME NEW p \in Proc, NEW v \in Val, modify(p, v)
      PROVE  BcacheInv' /\ [Store!Next]_(Store!vars)
  BY <1>5, Cards, ModifyStep, ModifyStores, Zenon
<1>6. ASSUME NEW p \in Proc, bpin(p) PROVE BcacheInv' /\ [Store!Next]_(Store!vars)
  BY <1>6, Cards, BpinStep, QuietSteps, Zenon
<1>7. ASSUME NEW p \in Proc, bwrite(p) PROVE BcacheInv' /\ [Store!Next]_(Store!vars)
  BY <1>7, BwriteStep, BwriteStutters
<1>8. ASSUME NEW p \in Proc, bunpin(p) PROVE BcacheInv' /\ [Store!Next]_(Store!vars)
  BY <1>8, Cards, BunpinStep, QuietSteps, Zenon
<1>9. ASSUME NEW p \in Proc, releasesleep(p) PROVE BcacheInv' /\ [Store!Next]_(Store!vars)
  BY <1>9, ReleaseStep, ReleaseUnlocks
<1>10. ASSUME NEW p \in Proc, brelse(p) PROVE BcacheInv' /\ [Store!Next]_(Store!vars)
  BY <1>10, Cards, BrelseStep, QuietSteps, Zenon
<1>11. ASSUME NEW p \in Proc, kill(p) PROVE BcacheInv' /\ [Store!Next]_(Store!vars)
  BY <1>11, KillStep, QuietSteps, Zenon
<1> QED
  BY <1>1, <1>2, <1>3, <1>4, <1>5, <1>6, <1>7, <1>8, <1>9, <1>10, <1>11, Zenon DEF Next

\* b->refcnt counts the users and the pin of each buffer, nobody sleeps on the lock of
\* a buffer that has no holder, and bget() does not panic when there are as many
\* buffers as processes and pins: for every number of processes, blocks and buffers.
THEOREM BuffersAreSound == Spec => []BuffersSound
<1>1. Init => BcacheInv
  BY InitBcache, Zenon
<1>2. BcacheInv /\ [Next]_vars => BcacheInv'
  BY StepBcache, Zenon
<1>3. BcacheInv => BuffersSound
  BY Zenon DEF BcacheInv
<1> QED
  BY <1>1, <1>2, <1>3, PTL DEF Spec

\* The buffer cache implements BlockStore: bread() locks a block and sees the last
\* value stored in it, whatever bget() has recycled since; a change of the buffer is
\* a store; releasesleep() unlocks; no other step can be seen.
THEOREM CacheIsTransparent == Spec => CacheIsStore
<1>1. Init => BcacheInv /\ Store!Init
  BY InitBcache, StoreInit, Zenon
<1>2. BcacheInv /\ [Next]_vars => BcacheInv' /\ [Store!Next]_(Store!vars)
  BY StepBcache, Zenon
<1> QED
  BY <1>1, <1>2, PTL DEF Spec, CacheIsStore, Store!Spec
=============================================================================
