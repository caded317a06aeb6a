----------------------------- MODULE LogProofs -----------------------------
(***************************************************************************)
(* Proofs about the log: the inductive invariant LogInv of Log, and the    *)
(* properties that follow from it for any number of processes and blocks   *)
(* and any size of the log; the log implements AtomicDisk.                 *)
(***************************************************************************)
EXTENDS Log, TLAPS

IInv == TypeOK /\ LogInv

\* What the proofs use of the constants.
LEMMA Constants ==
    /\ LOGSIZE \in Nat /\ NLOG \in Nat /\ MAXOPBLOCKS \in Nat /\ OpBlocks \in Nat
    /\ 0 < OpBlocks /\ OpBlocks <= MAXOPBLOCKS
    /\ MAXOPBLOCKS <= LOGSIZE /\ LOGSIZE <= NLOG
    /\ IsFiniteSet(Proc) /\ IsFiniteSet(Block)
    /\ Torn \notin Val /\ NoBuf \notin Content
  BY LogAssumption DEF Content

\* Every step keeps every variable in its type: a commit never indexes past
\* the end of the log, and bunpin() never drops a reference nobody holds.
LEMMA TypeStep == IInv /\ [Next]_vars => TypeOK'
<1> SUFFICES ASSUME IInv, [Next]_vars PROVE TypeOK'
  BY Zenon
<1> USE DEF IInv, LogInv
<1>1. ASSUME NEW p \in Proc, begin_op(p) PROVE TypeOK'
  <2>1. pc' \in [Proc -> {"idle", "begin", "sleep", "op", "commit"}]
    BY <1>1, Zenon DEF begin_op, TypeOK
  <2>2. wrote' \in [Proc -> SUBSET Block] /\ outstanding' \in Int
    <3>1. \/ wrote' = wrote /\ outstanding' = outstanding
          \/ wrote' = [wrote EXCEPT ![p] = {}] /\ outstanding' = outstanding + 1
      BY <1>1, Zenon DEF begin_op
    <3>2. [wrote EXCEPT ![p] = {}] \in [Proc -> SUBSET Block]
      BY Zenon DEF TypeOK
    <3>3. wrote' \in [Proc -> SUBSET Block]
      BY <3>1, <3>2, Zenon DEF TypeOK
    <3>4. outstanding' \in Int
      BY <3>1 DEF TypeOK
    <3> QED
      BY <3>3, <3>4, Zenon
  <2> QED
    BY <1>1, <2>1, <2>2, Zenon DEF begin_op, TypeOK
<1>2. ASSUME NEW p \in Proc, NEW b \in Block, NEW v \in Val, log_write(p, b, v)
      PROVE  TypeOK'
  <2>1. cache' \in [Block -> Content \cup {NoBuf}] /\ pin' \in [Block -> Nat]
    <3>1. cache' \in [Block -> Content \cup {NoBuf}]
      <4>1. cache' \in {cache, [cache EXCEPT ![b] = v]}
        BY <1>2, Zenon DEF log_write
      <4> QED
        BY <4>1, Zenon DEF TypeOK, Content
    <3>2. pin' \in [Block -> Nat]
      <4>1. pin' = pin \/ pin' = bpin(b)
        BY <1>2, Zenon DEF log_write
      <4>2. bpin(b) \in [Block -> Nat]
        BY DEF TypeOK, bpin
      <4> QED
        BY <4>1, <4>2, Zenon DEF TypeOK
    <3> QED
      BY <3>1, <3>2, Zenon
  <2>2. lh' \in Seq(Block) /\ wrote' \in [Proc -> SUBSET Block]
    <3>1. lh' = lh \/ lh' = Append(lh, b)
      BY <1>2, Zenon DEF log_write
    <3>2. wrote' = wrote \/ wrote' = [wrote EXCEPT ![p] = wrote[p] \cup {b}]
      BY <1>2, Zenon DEF log_write
    <3>3. wrote[p] \cup {b} \in SUBSET Block
      BY Zenon DEF TypeOK
    <3>4. Append(lh, b) \in Seq(Block)
      BY DEF TypeOK
    <3>5. wrote' \in [Proc -> SUBSET Block]
      BY <3>2, <3>3, Zenon DEF TypeOK
    <3> QED
      BY <3>1, <3>4, <3>5, Zenon DEF TypeOK
  <2>3. panicked' \in BOOLEAN
    BY <1>2, Zenon DEF log_write, TypeOK
  <2> QED
    BY <1>2, <2>1, <2>2, <2>3, Zenon DEF log_write, TypeOK
<1>3. ASSUME NEW p \in Proc, end_op(p) PROVE TypeOK'
  <2>1. committing' \in BOOLEAN /\ panicked' \in BOOLEAN
    BY <1>3, Zenon DEF end_op, TypeOK
  <2>2. phase' \in Phases /\ tail' \in 0..LOGSIZE /\ outstanding' \in Int
    BY <1>3, Constants DEF end_op, TypeOK, Phases
  <2>3. pc' \in [Proc -> {"idle", "begin", "sleep", "op", "commit"}]
    BY <1>3, Zenon DEF end_op, TypeOK, wakeup
  <2> QED
    BY <1>3, <2>1, <2>2, <2>3, Zenon DEF end_op, TypeOK
<1>4. ASSUME NEW p \in Proc, end_commit(p) PROVE TypeOK'
  BY <1>4, Zenon DEF end_commit, TypeOK, wakeup, Phases
<1>5. CASE write_log
  BY <1>5, Constants DEF write_log, TypeOK, bread, Phases, PhaseOrder
<1>6. CASE write_head
  BY <1>6, Zenon DEF write_head, TypeOK, Phases
<1>7. ASSUME NEW r \in BOOLEAN, install_trans(r) PROVE TypeOK'
  <2> DEFINE b == lh[tail + 1]
  <2>1. tail + 1 \in 1..Len(lh) /\ tail + 1 \in 1..LOGSIZE /\ b \in Block
    BY <1>7, Constants DEF install_trans, TypeOK, PhaseOrder
  <2>2. ~r => pin[b] = 1
    BY <1>7, <2>1 DEF install_trans, TypeOK, PinnedUntilInstalled, Pending,
       recovering
  <2>3. pin' \in [Block -> Nat]
    BY <1>7, <2>1, <2>2 DEF install_trans, TypeOK
  <2>4. disk' \in [Block -> Content] /\ cache' \in [Block -> Content \cup {NoBuf}]
    BY <1>7, <2>1, Zenon DEF install_trans, TypeOK
  <2>5. tail' \in 0..LOGSIZE /\ phase' \in Phases
    BY <1>7, <2>1, Constants DEF install_trans, TypeOK, Phases
  <2> QED
    BY <1>7, <2>3, <2>4, <2>5, Zenon DEF install_trans, TypeOK
<1>8. ASSUME NEW r \in BOOLEAN, erase(r) PROVE TypeOK'
  BY <1>8 DEF erase, TypeOK, Phases
<1>9. CASE read_head
  BY <1>9, Zenon DEF read_head, TypeOK, Phases
<1>10. ASSUME NEW b \in Block, recycle(b) PROVE TypeOK'
  BY <1>10, Zenon DEF recycle, TypeOK
<1>11. CASE crash
  <2>1. disk' \in [Block -> Content] /\ logBlock' \in [1..LOGSIZE -> Content]
    BY <1>11, Constants, Zenon DEF crash, TypeOK, PhaseOrder, Content
  <2>2. /\ cache' \in [Block -> Content \cup {NoBuf}]
        /\ pin' \in [Block -> Nat]
        /\ pc' \in [Proc -> {"idle", "begin", "sleep", "op", "commit"}]
        /\ wrote' \in [Proc -> SUBSET Block]
    BY <1>11, Zenon DEF crash
  <2>3. committing' \in BOOLEAN /\ panicked' \in BOOLEAN
    BY <1>11, Zenon DEF crash
  <2>4. lh' \in Seq(Block) /\ outstanding' \in Int /\ tail' \in 0..LOGSIZE
    BY <1>11, Constants DEF crash
  <2>5. phase' \in Phases /\ head' \in Seq(Block)
    BY <1>11, Zenon DEF crash, Phases, TypeOK
  <2> QED
    BY <2>1, <2>2, <2>3, <2>4, <2>5, Zenon DEF TypeOK
<1>12. CASE UNCHANGED vars
  BY <1>12, Zenon DEF vars, TypeOK
<1> QED
  BY <1>1, <1>2, <1>3, <1>4, <1>5, <1>6, <1>7, <1>8, <1>9, <1>10, <1>11, <1>12, Zenon
     DEF Next, commit_step
-----------------------------------------------------------------------------
(***************************************************************************)
(* What several of the steps below need.                                   *)
(***************************************************************************)
\* The blocks named by the header in memory after a step.
LEMMA BlocksPrime == Blocks(lh)' = Blocks(lh')
  BY Zenon DEF Blocks

\* An operation under way excludes a commit and recovery.
LEMMA ActiveMeansNone ==
    ASSUME IInv, NEW p \in Proc, pc[p] = "op"
    PROVE  /\ p \in Active /\ phase = "none" /\ ~committing /\ ~recovering
           /\ head = <<>> /\ tail = 0
  BY Zenon DEF IInv, LogInv, PhaseOrder, Active, recovering

\* log_write() logs a block once, and only if there is room for it.
LEMMA AppendDistinct ==
    ASSUME NEW s \in Seq(Block), Distinct(s), NEW b \in Block, b \notin Blocks(s)
    PROVE  Distinct(Append(s, b))
<1> DEFINE a == Append(s, b)
<1>1. DOMAIN a = 1..(Len(s) + 1) /\ a[Len(s) + 1] = b
  OBVIOUS
<1>2. \A i \in 1..Len(s) : a[i] = s[i] /\ a[i] # b
  BY DEF Blocks
<1>3. \A i, j \in 1..Len(s) : a[i] = a[j] => i = j
  BY <1>2 DEF Distinct
<1> QED
  BY <1>1, <1>2, <1>3 DEF Distinct

\* A buffer that log_write() pinned is in the cache.
LEMMA PinnedCached ==
    ASSUME CacheClean, NEW b \in Block, pin[b] # 0
    PROVE  cache[b] # NoBuf
  BY Zenon DEF CacheClean

\* With an empty header, recovery leaves the disk as it is.
LEMMA EmptyHead ==
    ASSUME head' = <<>>
    PROVE  \A b \in Block : recovered'[b] = disk'[b]
  BY DEF recovered, Blocks

-----------------------------------------------------------------------------
(***************************************************************************)
(* Pinned buffers.                                                         *)
(***************************************************************************)
\* Every step keeps exactly the buffers pinned that log_write() pinned and
\* install_trans() has not installed yet.
LEMMA PinStep == IInv /\ [Next]_vars => PinnedUntilInstalled'
<1> SUFFICES ASSUME IInv, [Next]_vars, ~recovering'
             PROVE  (\A b \in Block :
                       pin[b] = IF \E i \in Pending : lh[i] = b THEN 1 ELSE 0)'
  BY Zenon DEF PinnedUntilInstalled
<1> USE DEF IInv, LogInv
<1> DEFINE Goal == (\A b \in Block :
                      pin[b] = IF \E i \in Pending : lh[i] = b THEN 1 ELSE 0)'
<1>1. ASSUME NEW p \in Proc, begin_op(p) PROVE Goal
  BY <1>1, Zenon DEF begin_op, recovering, Pending, PinnedUntilInstalled
<1>2. ASSUME NEW p \in Proc, NEW b \in Block, NEW v \in Val, log_write(p, b, v)
      PROVE  Goal
  <2>1. phase = "none" /\ ~recovering /\ phase' = "none"
    BY <1>2, ActiveMeansNone, Zenon DEF log_write
  <2>2. Pending = DOMAIN lh /\ Pending' = DOMAIN lh'
    BY <2>1, Zenon DEF Pending
  <2>3. CASE pin' = pin /\ lh' = lh
    BY <2>1, <2>2, <2>3, Zenon DEF PinnedUntilInstalled
  <2>4. CASE /\ b \notin Blocks(lh) /\ lh' = Append(lh, b)
             /\ pin' = [pin EXCEPT ![b] = @ + 1]
    <3>1. /\ DOMAIN lh' = 1..(Len(lh) + 1) /\ DOMAIN lh = 1..Len(lh)
          /\ lh'[Len(lh) + 1] = b /\ Len(lh) + 1 \in DOMAIN lh'
          /\ \A i \in DOMAIN lh : i \in DOMAIN lh' /\ lh'[i] = lh[i]
          /\ \A i \in DOMAIN lh' : i \in DOMAIN lh \/ i = Len(lh) + 1
      BY <2>4 DEF TypeOK
    <3>2. pin[b] = 0
      BY <2>1, <2>2, <2>4, Zenon DEF PinnedUntilInstalled, Blocks
    <3>3. pin'[b] = 1
      BY <2>4, <3>2 DEF TypeOK
    <3>4. ASSUME NEW c \in Block, c # b
          PROVE  pin'[c] = IF \E i \in Pending' : lh'[i] = c THEN 1 ELSE 0
      <4>1. pin'[c] = pin[c]
        BY <2>4, <3>4, Zenon DEF TypeOK
      <4>2. (\E i \in Pending' : lh'[i] = c) <=> (\E i \in Pending : lh[i] = c)
        BY <2>2, <3>1, <3>4, Zenon
      <4> QED
        BY <2>1, <4>1, <4>2, Zenon DEF PinnedUntilInstalled
    <3>5. \E i \in Pending' : lh'[i] = b
      BY <2>2, <3>1, Zenon
    <3> QED
      BY <3>3, <3>4, <3>5, Zenon
  <2> QED
    BY <1>2, <2>3, <2>4, Zenon DEF log_write, bpin
<1>3. ASSUME NEW p \in Proc, end_op(p) PROVE Goal
  <2>1. phase = "none" /\ ~recovering
    BY <1>3, ActiveMeansNone, Zenon DEF end_op
  <2>2. pin' = pin /\ lh' = lh
    BY <1>3, Zenon DEF end_op
  <2>3. \/ phase' \in {"none", "write_log"}
        \/ phase' = "done" /\ lh = <<>>
    BY <1>3, <2>1, Zenon DEF end_op
  <2>4. Pending' = Pending
    BY <2>1, <2>2, <2>3 DEF Pending
  <2> QED
    BY <2>1, <2>2, <2>4, Zenon DEF PinnedUntilInstalled
<1>4. ASSUME NEW p \in Proc, end_commit(p) PROVE Goal
  <2>1. phase = "done" /\ lh = <<>> /\ lh' = lh /\ pin' = pin /\ ~recovering
    BY <1>4, Zenon DEF end_commit, PhaseOrder, recovering
  <2>2. Pending' = {} /\ Pending = {}
    BY <2>1 DEF Pending
  <2> QED
    BY <2>1, <2>2, Zenon DEF PinnedUntilInstalled
<1>5. CASE write_log
  BY <1>5, Zenon DEF write_log, recovering, Pending, PinnedUntilInstalled
<1>6. CASE write_head
  <2>1. Pending' = Pending
    BY <1>6 DEF write_head, Pending, PhaseOrder, TypeOK
  <2> QED
    BY <1>6, <2>1, Zenon DEF write_head, recovering, PinnedUntilInstalled
<1>7. ASSUME NEW r \in BOOLEAN, install_trans(r) PROVE Goal
  <2>1. CASE r
    BY <1>7, <2>1, Zenon DEF install_trans, recovering
  <2>2. CASE ~r
    <3> DEFINE c == lh[tail + 1]
    <3>1. /\ phase = "install" /\ ~recovering /\ tail + 1 \in DOMAIN lh
          /\ c \in Block /\ lh' = lh /\ Distinct(lh)
      BY <1>7, <2>2 DEF install_trans, recovering, PhaseOrder, TypeOK
    <3>2. tail + 1 \in Pending
      BY <3>1 DEF Pending, TypeOK
    <3>3. Pending' = Pending \ {tail + 1}
      BY <1>7, <2>2, <3>1 DEF install_trans, Pending, TypeOK
    <3>4. pin' = [pin EXCEPT ![c] = @ - 1]
      BY <1>7, <2>2, Zenon DEF install_trans
    <3>5. pin[c] = 1
      BY <3>1, <3>2, Zenon DEF PinnedUntilInstalled
    <3>6. pin'[c] = 0 /\ ~\E i \in Pending' : lh[i] = c
      BY <3>1, <3>3, <3>4, <3>5 DEF TypeOK, Distinct, Pending
    <3>7. ASSUME NEW d \in Block, d # c
          PROVE  pin'[d] = IF \E i \in Pending' : lh[i] = d THEN 1 ELSE 0
      BY <3>1, <3>3, <3>4, <3>7, Zenon DEF PinnedUntilInstalled, TypeOK
    <3> QED
      BY <3>1, <3>6, <3>7, Zenon
  <2> QED
    BY <2>1, <2>2, Zenon
<1>8. ASSUME NEW r \in BOOLEAN, erase(r) PROVE Goal
  <2>1. Pending' = {}
    BY <1>8 DEF erase, Pending
  <2>2. \A b \in Block : pin[b] = 0
    BY <1>8, Zenon DEF erase, recovering, Pending, PinnedUntilInstalled, CacheClean
  <2> QED
    BY <1>8, <2>1, <2>2, Zenon DEF erase
<1>9. CASE read_head \/ crash
  BY <1>9, Zenon DEF read_head, crash, recovering
<1>10. ASSUME NEW b \in Block, recycle(b) PROVE Goal
  BY <1>10, Zenon DEF recycle, recovering, Pending, PinnedUntilInstalled
<1>11. CASE UNCHANGED vars
  BY <1>11, Zenon DEF vars, recovering, Pending, PinnedUntilInstalled
<1> QED
  BY <1>1, <1>2, <1>3, <1>4, <1>5, <1>6, <1>7, <1>8, <1>9, <1>10, <1>11, Zenon
     DEF Next, commit_step
-----------------------------------------------------------------------------
(***************************************************************************)
(* Buffers, the log on the disk, and sleepers.                             *)
(***************************************************************************)
\* A buffer nobody pins agrees with the disk; a pinned one is in the cache.
LEMMA CacheStep == IInv /\ [Next]_vars => CacheClean'
<1> SUFFICES ASSUME IInv, [Next]_vars PROVE CacheClean'
  BY Zenon
<1> USE DEF IInv, LogInv
<1>1. ASSUME NEW p \in Proc, begin_op(p) PROVE CacheClean'
  BY <1>1, Zenon DEF begin_op, CacheClean, recovering
<1>2. ASSUME NEW p \in Proc, NEW b \in Block, NEW v \in Val, log_write(p, b, v)
      PROVE  CacheClean'
  <2>1. phase = "none" /\ ~recovering /\ ~recovering' /\ ~panicked
    BY <1>2, ActiveMeansNone, Zenon DEF log_write, recovering
  <2>2. cache' = [cache EXCEPT ![b] = v] /\ disk' = disk /\ v # NoBuf
    BY <1>2, Constants, Zenon DEF log_write, Content
  <2>3. \A c \in Block \ {b} : cache'[c] = cache[c] /\ pin'[c] = pin[c]
    BY <1>2, <2>2, Zenon DEF log_write, bpin, TypeOK
  <2>4. panicked' \/ pin'[b] # 0
    <3>1. CASE b \in Blocks(lh)
      <4>1. pin[b] = 1
        BY <2>1, <3>1, Zenon DEF PinnedUntilInstalled, Pending, Blocks
      <4> QED
        BY <1>2, <3>1, <4>1 DEF log_write
    <3>2. CASE b \notin Blocks(lh)
      BY <1>2, <3>2 DEF log_write, bpin, TypeOK
    <3> QED
      BY <3>1, <3>2, Zenon
  <2>5. cache'[b] # NoBuf
    BY <2>2, Zenon DEF TypeOK
  <2> QED
    BY <2>1, <2>2, <2>3, <2>4, <2>5, Zenon DEF CacheClean
<1>3. ASSUME NEW p \in Proc, end_op(p) PROVE CacheClean'
  <2>1. ~recovering' /\ ~panicked /\ ~panicked'
    BY <1>3, ActiveMeansNone, Zenon DEF end_op, recovering
  <2> QED
    BY <1>3, <2>1, Zenon DEF end_op, CacheClean
<1>4. ASSUME NEW p \in Proc, end_commit(p) PROVE CacheClean'
  BY <1>4, Zenon DEF end_commit, CacheClean, recovering
<1>5. CASE write_log \/ write_head
  BY <1>5 DEF write_log, write_head, CacheClean, recovering
<1>6. ASSUME NEW r \in BOOLEAN, install_trans(r) PROVE CacheClean'
  <2> DEFINE c == lh[tail + 1]
  <2>1. /\ c \in Block /\ logBlock[tail + 1] \in Content
        /\ logBlock[tail + 1] # NoBuf
    BY <1>6, Constants DEF install_trans, PhaseOrder, TypeOK
  <2>2. cache'[c] = logBlock[tail + 1] /\ disk'[c] = logBlock[tail + 1]
    BY <1>6, <2>1, Zenon DEF install_trans, TypeOK
  <2>3. \A b \in Block \ {c} :
          cache'[b] = cache[b] /\ disk'[b] = disk[b] /\ pin'[b] = pin[b]
    BY <1>6, <2>1, Zenon DEF install_trans, TypeOK
  <2>4. recovering' => \A b \in Block : pin'[b] = 0
    BY <1>6, Zenon DEF install_trans, recovering, CacheClean
  <2>5. panicked' = panicked
    BY <1>6, Zenon DEF install_trans
  <2> QED
    BY <2>1, <2>2, <2>3, <2>4, <2>5, Zenon DEF CacheClean
<1>7. ASSUME NEW r \in BOOLEAN, erase(r) PROVE CacheClean'
  BY <1>7, Zenon DEF erase, CacheClean, recovering
<1>8. CASE read_head
  BY <1>8, Zenon DEF read_head, CacheClean, recovering
<1>9. ASSUME NEW b \in Block, recycle(b) PROVE CacheClean'
  BY <1>9, Zenon DEF recycle, CacheClean, recovering, TypeOK
<1>10. CASE crash
  BY <1>10, Zenon DEF crash, CacheClean
<1>11. CASE UNCHANGED vars
  BY <1>11, Zenon DEF vars, CacheClean, recovering
<1> QED
  BY <1>1, <1>2, <1>3, <1>4, <1>5, <1>6, <1>7, <1>8, <1>9, <1>10, <1>11, Zenon
     DEF Next, commit_step

\* The log on the disk holds the cached contents of the blocks it names.
LEMMA LoggedStep == IInv /\ [Next]_vars => Logged'
<1> SUFFICES ASSUME IInv, [Next]_vars PROVE Logged'
  OBVIOUS
<1> USE DEF IInv, LogInv
<1>0. phase \in {"write_log", "write_head"}
        => /\ Pending = DOMAIN lh /\ ~recovering
           /\ \A i \in DOMAIN lh : cache[lh[i]] # NoBuf /\ pin[lh[i]] = 1
  <2> SUFFICES ASSUME phase \in {"write_log", "write_head"}
               PROVE  /\ Pending = DOMAIN lh /\ ~recovering
                      /\ \A i \in DOMAIN lh : cache[lh[i]] # NoBuf
                                             /\ pin[lh[i]] = 1
    BY Zenon
  <2>1. Pending = DOMAIN lh /\ ~recovering
    BY Zenon DEF Pending, recovering
  <2>2. \A i \in DOMAIN lh : lh[i] \in Block
    BY DEF TypeOK
  <2>3. \A i \in DOMAIN lh : pin[lh[i]] = 1
    BY <2>1, <2>2, Zenon DEF PinnedUntilInstalled
  <2> QED
    BY <2>1, <2>2, <2>3 DEF CacheClean
<1>1. ASSUME NEW p \in Proc, begin_op(p) PROVE Logged'
  BY <1>1, Zenon DEF begin_op, Logged, Pending
<1>2. ASSUME NEW p \in Proc, NEW b \in Block, NEW v \in Val, log_write(p, b, v)
      PROVE  Logged'
  BY <1>2, ActiveMeansNone, Zenon DEF log_write, Logged
<1>3. ASSUME NEW p \in Proc, end_op(p) PROVE Logged'
  <2>1. phase = "none"
    BY <1>3, ActiveMeansNone, Zenon DEF end_op
  <2>2. \/ phase' = "none"
        \/ phase' = "done"
        \/ phase' = "write_log" /\ tail' = 0
    BY <1>3, <2>1, Zenon DEF end_op
  <2>3. CASE phase' \in {"none", "done"}
    BY <2>3, Zenon DEF Logged
  <2>4. CASE phase' = "write_log" /\ tail' = 0
    <3>1. 1..tail' = {}
      BY <2>4
    <3> QED
      BY <2>4, <3>1, Zenon DEF Logged
  <2> QED
    BY <2>2, <2>3, <2>4, Zenon
<1>4. ASSUME NEW p \in Proc, end_commit(p) PROVE Logged'
  BY <1>4, Zenon DEF end_commit, Logged
<1>5. CASE write_log
  <2>1. /\ tail \in Nat /\ tail + 1 \in DOMAIN lh /\ tail + 1 \in 1..LOGSIZE
        /\ DOMAIN lh = 1..Len(lh) /\ Len(lh) \in Nat
    BY <1>5, Constants DEF write_log, PhaseOrder, TypeOK
  <2>2. logBlock'[tail + 1] = cache[lh[tail + 1]]
    BY <1>0, <1>5, <2>1, Zenon DEF write_log, bread, TypeOK
  <2>3. \A i \in 1..tail : logBlock'[i] = cache[lh[i]]
    BY <1>5, <2>1 DEF write_log, Logged, TypeOK
  <2>4. \A i \in 1..(tail + 1) : logBlock'[i] = cache[lh[i]]
    BY <2>1, <2>2, <2>3
  <2>5. cache' = cache /\ lh' = lh
    BY <1>5, Zenon DEF write_log
  <2>6. CASE tail + 1 < Len(lh)
    BY <1>5, <2>4, <2>5, <2>6, Zenon DEF write_log, Logged
  <2>7. CASE ~(tail + 1 < Len(lh))
    <3>1. \A i \in Pending' : i \in 1..(tail + 1)
      BY <2>1, <2>5, <2>7 DEF Pending
    <3> QED
      BY <1>5, <2>4, <2>5, <2>7, <3>1, Zenon DEF write_log, Logged
  <2> QED
    BY <2>6, <2>7, Zenon
<1>6. CASE write_head
  <2>1. \A i \in Pending' : i \in Pending
    BY <1>6, Zenon DEF write_head, Pending
  <2> QED
    BY <1>6, <2>1, Zenon DEF write_head, Logged
<1>7. ASSUME NEW r \in BOOLEAN, install_trans(r) PROVE Logged'
  <2>1. CASE r \/ phase' # "install"
    BY <1>7, <2>1, Zenon DEF install_trans, Logged
  <2>2. CASE ~r /\ phase' = "install"
    <3>1. /\ phase = "install" /\ tail + 1 \in DOMAIN lh /\ lh' = lh
          /\ Distinct(lh) /\ logBlock' = logBlock /\ tail' = tail + 1
      BY <1>7, <2>2 DEF install_trans, PhaseOrder, TypeOK
    <3>2. \A i \in Pending' : i \in Pending /\ i # tail + 1 /\ i \in DOMAIN lh
      BY <2>2, <3>1 DEF Pending, TypeOK
    <3>3. \A i \in Pending' : cache'[lh[i]] = cache[lh[i]]
      BY <1>7, <3>1, <3>2 DEF install_trans, Distinct, TypeOK
    <3> QED
      BY <2>2, <3>1, <3>2, <3>3, Zenon DEF Logged
  <2> QED
    BY <2>1, <2>2, Zenon
<1>8. ASSUME NEW r \in BOOLEAN, erase(r) PROVE Logged'
  BY <1>8, Zenon DEF erase, Logged
<1>9. CASE read_head \/ crash
  BY <1>9, Zenon DEF read_head, crash, Logged
<1>10. ASSUME NEW b \in Block, recycle(b) PROVE Logged'
  <2>1. pin[b] = 0 /\ cache' = [cache EXCEPT ![b] = NoBuf]
    BY <1>10, Zenon DEF recycle
  <2>2. /\ phase' = phase /\ tail' = tail /\ lh' = lh /\ logBlock' = logBlock
        /\ Pending' = Pending
    BY <1>10, Zenon DEF recycle, Pending
  <2>3. CASE phase = "write_log"
    <3>1. \A i \in 1..tail : i \in DOMAIN lh /\ lh[i] # b /\ lh[i] \in Block
      BY <1>0, <2>1, <2>3 DEF PhaseOrder, TypeOK
    <3>2. \A i \in 1..tail : cache'[lh[i]] = cache[lh[i]]
      BY <2>1, <3>1, Zenon DEF TypeOK
    <3> QED
      BY <2>2, <2>3, <3>2, Zenon DEF Logged
  <2>4. CASE phase \in {"write_head", "install"}
    <3>1. \A i \in Pending : lh[i] \in Block /\ pin[lh[i]] = 1
      BY <2>4 DEF PinnedUntilInstalled, Pending, recovering, TypeOK
    <3>2. \A i \in Pending : cache'[lh[i]] = cache[lh[i]]
      BY <2>1, <3>1 DEF TypeOK
    <3> QED
      BY <2>2, <2>4, <3>2, Zenon DEF Logged
  <2>5. CASE phase \notin {"write_log", "write_head", "install"}
    BY <2>2, <2>5, Zenon DEF Logged
  <2> QED
    BY <2>3, <2>4, <2>5, Zenon
<1>11. CASE UNCHANGED vars
  BY <1>11, Zenon DEF vars, Logged, Pending
<1> QED
  BY <1>1, <1>2, <1>3, <1>4, <1>5, <1>6, <1>7, <1>8, <1>9, <1>10, <1>11, Zenon
     DEF Next, commit_step

\* install_trans() has copied the entries before tail to their home blocks.
LEMMA InstalledStep == IInv /\ [Next]_vars => Installed'
<1> SUFFICES ASSUME IInv, [Next]_vars PROVE Installed'
  OBVIOUS
<1> USE DEF IInv, LogInv
<1>1. ASSUME NEW p \in Proc, begin_op(p) \/ end_commit(p) PROVE Installed'
  BY <1>1, Zenon DEF begin_op, end_commit, Installed
<1>2. ASSUME NEW p \in Proc, NEW b \in Block, NEW v \in Val, log_write(p, b, v)
      PROVE  Installed'
  BY <1>2, ActiveMeansNone, Zenon DEF log_write, Installed
<1>3. ASSUME NEW p \in Proc, end_op(p) PROVE Installed'
  BY <1>3, ActiveMeansNone, Zenon DEF end_op, Installed
<1>4. CASE write_log
  BY <1>4, Zenon DEF write_log, Installed
<1>5. CASE write_head
  <2>1. tail' = 0 /\ phase' = "install"
    BY <1>5, Zenon DEF write_head, PhaseOrder
  <2>2. 1..0 = {}
    OBVIOUS
  <2> QED
    BY <2>1, <2>2, Zenon DEF Installed
<1>6. ASSUME NEW r \in BOOLEAN, install_trans(r) PROVE Installed'
  <2> DEFINE c == lh[tail + 1]
  <2>1. /\ phase \in {"install", "rec_install"} /\ tail \in Nat /\ Distinct(lh)
        /\ tail + 1 \in DOMAIN lh /\ DOMAIN lh = 1..Len(lh) /\ Len(lh) \in Nat
        /\ c \in Block /\ lh' = lh /\ logBlock' = logBlock
        /\ tail + 1 <= Len(lh)
    BY <1>6 DEF install_trans, PhaseOrder, TypeOK
  <2>2. disk' = [disk EXCEPT ![c] = logBlock[tail + 1]]
    BY <1>6, Zenon DEF install_trans
  <2>3. \A i \in 1..tail : lh[i] \in Block /\ lh[i] # c
    <3>1. \A i \in 1..tail : i \in DOMAIN lh /\ i # tail + 1
      BY <2>1
    <3>2. \A i \in DOMAIN lh : lh[i] \in Block
      BY DEF TypeOK
    <3>3. \A i \in DOMAIN lh : lh[i] = c => i = tail + 1
      BY <2>1, Zenon DEF Distinct
    <3> QED
      BY <3>1, <3>2, <3>3, Zenon
  <2>4. \A i \in 1..tail : disk'[lh[i]] = logBlock[i]
    BY <2>1, <2>2, <2>3, Zenon DEF Installed, TypeOK
  <2>5. disk'[c] = logBlock[tail + 1]
    BY <2>1, <2>2, Zenon DEF TypeOK
  <2>6. \A i \in 1..(tail + 1) : disk'[lh[i]] = logBlock[i]
    BY <2>1, <2>4, <2>5
  <2>7. CASE tail + 1 < Len(lh)
    BY <1>6, <2>1, <2>6, <2>7, Zenon DEF install_trans, Installed
  <2>8. CASE ~(tail + 1 < Len(lh))
    <3>1. DOMAIN lh = 1..(tail + 1)
      <4>1. Len(lh) \in Nat /\ tail \in Nat /\ tail + 1 <= Len(lh)
        BY <2>1, Zenon
      <4>2. Len(lh) = tail + 1
        BY <2>8, <4>1
      <4> QED
        BY <2>1, <4>2, Zenon
    <3>2. phase' \in {"erase", "rec_erase"}
      BY <1>6, <2>8, Zenon DEF install_trans
    <3> QED
      BY <2>1, <2>6, <3>1, <3>2, Zenon DEF Installed
  <2> QED
    BY <2>7, <2>8, Zenon
<1>7. ASSUME NEW r \in BOOLEAN, erase(r) PROVE Installed'
  BY <1>7, Zenon DEF erase, Installed
<1>8. CASE read_head
  BY <1>8 DEF read_head, Installed, PhaseOrder
<1>9. CASE crash
  BY <1>9, Zenon DEF crash, Installed
<1>10. ASSUME NEW b \in Block, recycle(b) PROVE Installed'
  BY <1>10, Zenon DEF recycle, Installed
<1>11. CASE UNCHANGED vars
  BY <1>11, Zenon DEF vars, Installed
<1> QED
  BY <1>1, <1>2, <1>3, <1>4, <1>5, <1>6, <1>7, <1>8, <1>9, <1>10, <1>11, Zenon
     DEF Next, commit_step

-----------------------------------------------------------------------------
(***************************************************************************)
(* Every step of the log is a step of AtomicDisk or changes nothing there. *)
(***************************************************************************)
Volatile == IF recovering THEN recovered ELSE current

\* What recovery makes of a block depends on the log exactly if the header
\* names it.
LEMMA RecoveredValue ==
    ASSUME IInv
    PROVE  /\ \A i \in DOMAIN head : recovered[head[i]] = logBlock[i]
           /\ \A b \in Block : b \notin Blocks(head) => recovered[b] = disk[b]
<1>1. ASSUME NEW i \in DOMAIN head PROVE recovered[head[i]] = logBlock[i]
  <2>1. head[i] \in Block /\ head[i] \in Blocks(head)
    BY DEF IInv, TypeOK, Blocks
  <2>2. (CHOOSE j \in DOMAIN head : head[j] = head[i]) = i
    BY Zenon DEF IInv, LogInv, PhaseOrder, Distinct
  <2> QED
    BY <2>1, <2>2, Zenon DEF recovered
<1>2. ASSUME NEW b \in Block, b \notin Blocks(head) PROVE recovered[b] = disk[b]
  BY <1>2, Zenon DEF recovered
<1> QED
  BY <1>1, <1>2, Zenon

\* The same after a step.
LEMMA RecoveredValuePrime ==
    ASSUME IInv'
    PROVE  /\ \A i \in DOMAIN head' : recovered'[head'[i]] = logBlock'[i]
           /\ \A b \in Block : b \notin Blocks(head') => recovered'[b] = disk'[b]
<1>1. ASSUME NEW i \in DOMAIN head' PROVE recovered'[head'[i]] = logBlock'[i]
  <2>1. head'[i] \in Block /\ head'[i] \in Blocks(head')
    BY DEF IInv, TypeOK, Blocks
  <2>2. (CHOOSE j \in DOMAIN head' : head'[j] = head'[i]) = i
    BY Zenon DEF IInv, LogInv, PhaseOrder, Distinct
  <2> QED
    BY <2>1, <2>2, Zenon DEF recovered, Blocks
<1>2. ASSUME NEW b \in Block, b \notin Blocks(head')
      PROVE  recovered'[b] = disk'[b]
  BY <1>2, Zenon DEF recovered, Blocks
<1> QED
  BY <1>1, <1>2, Zenon

\* A call sees the disk through buffers nobody has pinned.
LEMMA CurrentValue ==
    ASSUME IInv, ~panicked, NEW b \in Block, pin[b] = 0
    PROVE  current[b] = disk[b]
  BY Zenon DEF IInv, LogInv, CacheClean, current, bread

\* Two images of the disk are equal if they agree on every block.
LEMMA SameRecovered ==
    ASSUME \A b \in Block : recovered'[b] = recovered[b]
    PROVE  recovered' = recovered
  BY Zenon DEF recovered

\* Only the header write of a commit changes the durable image.
LEMMA DurableKept ==
    ASSUME IInv, IInv', [Next]_vars, ~write_head
    PROVE  recovered' = recovered
<1> USE DEF IInv, LogInv
<1>1. CASE UNCHANGED <<disk, logBlock, head>>
  BY <1>1 DEF recovered, Blocks
<1>2. CASE write_log
  <2>1. head = <<>> /\ head' = <<>> /\ disk' = disk
    BY <1>2, Zenon DEF write_log, PhaseOrder
  <2> QED
    BY <2>1 DEF recovered, Blocks
<1>3. ASSUME NEW r \in BOOLEAN, install_trans(r) PROVE recovered' = recovered
  <2>1. /\ head' = head /\ head = lh /\ tail + 1 \in DOMAIN lh
        /\ logBlock' = logBlock
        /\ disk' = [disk EXCEPT ![lh[tail + 1]] = logBlock[tail + 1]]
    BY <1>3 DEF install_trans, PhaseOrder, TypeOK
  <2>2. lh[tail + 1] \in Blocks(head)
    BY <2>1, Zenon DEF Blocks
  <2>3. \A b \in Block : b \notin Blocks(head) => disk'[b] = disk[b]
    BY <2>1, <2>2, Zenon DEF TypeOK
  <2> QED
    BY <2>1, <2>3 DEF recovered, Blocks
<1>4. ASSUME NEW r \in BOOLEAN, erase(r) PROVE recovered' = recovered
  <2>1. /\ head = lh /\ disk' = disk /\ head' = <<>>
        /\ \A i \in DOMAIN head : disk[head[i]] = logBlock[i]
    BY <1>4, Zenon DEF erase, PhaseOrder, Installed
  <2>2. \A b \in Block : recovered'[b] = disk[b]
    BY <2>1 DEF recovered, Blocks
  <2>3. ASSUME NEW b \in Block PROVE recovered[b] = disk[b]
    <3>1. CASE b \in Blocks(head)
      <4>1. PICK i \in DOMAIN head : head[i] = b
        BY <3>1, Zenon DEF Blocks
      <4> QED
        BY <2>1, <4>1, RecoveredValue, Zenon
    <3>2. CASE b \notin Blocks(head)
      BY <3>2, RecoveredValue, Zenon
    <3> QED
      BY <3>1, <3>2, Zenon
  <2> QED
    BY <2>2, <2>3, SameRecovered, Zenon
<1>5. CASE crash
  <2>1. head' = head
    BY <1>5, Zenon DEF crash
  <2>2. CASE disk' = disk /\ logBlock' # logBlock
    <3>1. phase = "write_log"
      BY <1>5, <2>2, Zenon DEF crash
    <3>2. head = <<>>
      BY <3>1, Zenon DEF PhaseOrder
    <3> QED
      BY <2>1, <2>2, <3>2 DEF recovered, Blocks
  <2>3. CASE disk' # disk
    <3>1. /\ phase \in {"install", "rec_install"} /\ logBlock' = logBlock
          /\ disk' = [disk EXCEPT ![lh[tail + 1]] = Torn]
      BY <1>5, <2>3, Zenon DEF crash
    <3>2. head = lh /\ tail + 1 \in DOMAIN lh
      BY <3>1 DEF PhaseOrder, TypeOK
    <3>3. lh[tail + 1] \in Blocks(head)
      BY <3>2, Zenon DEF Blocks
    <3>4. \A b \in Block : b \notin Blocks(head) => disk'[b] = disk[b]
      BY <3>1, <3>3, Zenon DEF TypeOK
    <3> QED
      BY <2>1, <3>1, <3>4 DEF recovered, Blocks
  <2> QED
    BY <1>1, <2>1, <2>2, <2>3, Zenon
<1> QED
  BY <1>1, <1>2, <1>3, <1>4, <1>5, Zenon DEF Next, commit_step, vars, begin_op, end_op,
     end_commit, log_write, read_head, recycle

\* The header write makes durable what the calls see.
LEMMA CommitPoint ==
    ASSUME IInv, IInv', write_head
    PROVE  recovered' = current /\ current' = current
<1> USE DEF IInv, LogInv
<1>1. /\ phase = "write_head" /\ head' = lh /\ cache' = cache /\ disk' = disk
      /\ logBlock' = logBlock /\ Pending = DOMAIN lh /\ ~recovering
      /\ ~panicked
  BY Zenon DEF write_head, Pending, recovering, PhaseOrder
<1>2. current' = current
  BY <1>1, Zenon DEF current, bread
<1>3. ASSUME NEW b \in Block PROVE recovered'[b] = current[b]
  <2>1. CASE b \in Blocks(lh)
    <3>1. PICK i \in DOMAIN lh : lh[i] = b
      BY <2>1, Zenon DEF Blocks
    <3>2. recovered'[b] = logBlock[i]
      BY <1>1, <3>1, RecoveredValuePrime, Zenon
    <3>3. logBlock[i] = cache[b]
      BY <1>1, <3>1, Zenon DEF Logged
    <3>4. pin[b] = 1
      BY <1>1, <3>1, Zenon DEF PinnedUntilInstalled
    <3>5. cache[b] # NoBuf
      BY <3>4, PinnedCached
    <3> QED
      BY <3>2, <3>3, <3>5, Zenon DEF current, bread
  <2>2. CASE b \notin Blocks(lh)
    <3>1. recovered'[b] = disk[b]
      BY <1>1, <2>2, RecoveredValuePrime, Zenon
    <3>2. pin[b] = 0
      BY <1>1, <2>2, Zenon DEF PinnedUntilInstalled, Blocks
    <3> QED
      BY <1>1, <3>1, <3>2, CurrentValue, Zenon
  <2> QED
    BY <2>1, <2>2, Zenon
<1>4. recovered' = current
  BY <1>3, Zenon DEF recovered, current
<1> QED
  BY <1>2, <1>4, Zenon

\* Commits, recovery and buffer replacement change nothing that a call reads.
LEMMA VolatileKept ==
    ASSUME IInv, IInv', [Next]_vars,
           \A p \in Proc, b \in Block, v \in Val : ~log_write(p, b, v),
           ~crash
    PROVE  Volatile' = Volatile
<1> USE DEF IInv, LogInv
<1>1. CASE UNCHANGED <<cache, disk>> /\ ~recovering /\ ~recovering'
  BY <1>1, Zenon DEF Volatile, current, bread
<1>2. CASE recovering /\ recovering' /\ ~write_head
  BY <1>2, DurableKept, Zenon DEF Volatile
<1>3. ASSUME NEW p \in Proc, begin_op(p) PROVE Volatile' = Volatile
  BY <1>1, <1>3, Zenon DEF begin_op, recovering
<1>4. ASSUME NEW p \in Proc, end_op(p) PROVE Volatile' = Volatile
  BY <1>1, <1>4, ActiveMeansNone, Zenon DEF end_op, recovering
<1>5. ASSUME NEW p \in Proc, end_commit(p) PROVE Volatile' = Volatile
  BY <1>1, <1>5, Zenon DEF end_commit, recovering
<1>6. CASE write_log \/ write_head
  BY <1>1, <1>6, Zenon DEF write_log, write_head, recovering
<1>7. ASSUME NEW r \in BOOLEAN, install_trans(r) PROVE Volatile' = Volatile
  <2>1. CASE r
    BY <1>2, <1>7, <2>1, Zenon DEF install_trans, recovering, write_head
  <2>2. CASE ~r
    <3> DEFINE c == lh[tail + 1]
    <3>1. /\ phase = "install" /\ ~recovering /\ ~recovering'
          /\ tail + 1 \in DOMAIN lh /\ c \in Block
      BY <1>7, <2>2 DEF install_trans, recovering, PhaseOrder, TypeOK
    <3>2. tail + 1 \in Pending
      BY <3>1 DEF Pending, TypeOK
    <3>3. /\ logBlock[tail + 1] = cache[c] /\ pin[c] = 1
      BY <3>1, <3>2, Zenon DEF Logged, PinnedUntilInstalled
    <3>4. cache[c] # NoBuf
      BY <3>1, <3>3, PinnedCached
    <3>5. /\ cache' = [cache EXCEPT ![c] = cache[c]]
          /\ disk' = [disk EXCEPT ![c] = cache[c]]
      BY <1>7, <3>3, Zenon DEF install_trans
    <3>6. \A b \in Block : current'[b] = current[b]
      BY <3>1, <3>4, <3>5, Zenon DEF current, bread, TypeOK
    <3> QED
      BY <3>1, <3>6, Zenon DEF Volatile, current
  <2> QED
    BY <2>1, <2>2, Zenon
<1>8. ASSUME NEW r \in BOOLEAN, erase(r) PROVE Volatile' = Volatile
  <2>1. CASE ~r
    BY <1>1, <1>8, <2>1, Zenon DEF erase, recovering
  <2>2. CASE r
    <3>1. recovering /\ ~recovering' /\ ~panicked /\ ~write_head
      BY <1>8, <2>2, Zenon DEF erase, recovering, PhaseOrder, write_head
    <3>2. cache' = cache /\ disk' = disk /\ head' = <<>>
      BY <1>8, Zenon DEF erase
    <3>3. \A b \in Block : current'[b] = disk[b]
      BY <3>1, <3>2, Zenon DEF CacheClean, current, bread
    <3>4. \A b \in Block : recovered'[b] = disk[b]
      BY <3>2, EmptyHead, Zenon
    <3>5. current' = recovered'
      BY <3>3, <3>4, Zenon DEF current, recovered
    <3> QED
      BY <3>1, <3>5, DurableKept, Zenon DEF Volatile
  <2> QED
    BY <2>1, <2>2, Zenon
<1>9. CASE read_head
  BY <1>2, <1>9, Zenon DEF read_head, recovering, write_head
<1>10. ASSUME NEW b \in Block, recycle(b) PROVE Volatile' = Volatile
  <2>1. CASE recovering
    BY <1>2, <1>10, <2>1, Zenon DEF recycle, recovering, write_head
  <2>2. CASE ~recovering
    <3>1. cache' = [cache EXCEPT ![b] = NoBuf] /\ disk' = disk /\ ~recovering'
      BY <1>10, <2>2, Zenon DEF recycle, recovering
    <3>2. cache[b] = disk[b]
      BY <1>10, Zenon DEF recycle, CacheClean
    <3>3. \A c \in Block : current'[c] = current[c]
      BY <3>1, <3>2, Zenon DEF current, bread, TypeOK
    <3> QED
      BY <2>2, <3>1, <3>3, Zenon DEF Volatile, current
  <2> QED
    BY <2>1, <2>2, Zenon
<1>11. CASE UNCHANGED vars
  <2>1. recovering' = recovering /\ UNCHANGED <<cache, disk>>
    BY <1>11, Zenon DEF vars, recovering
  <2>2. ~write_head
    BY <1>11, Zenon DEF vars, write_head
  <2> QED
    BY <1>1, <1>2, <2>1, <2>2, Zenon
<1> QED
  BY <1>3, <1>4, <1>5, <1>6, <1>7, <1>8, <1>9, <1>10, <1>11, Zenon
     DEF Next, commit_step

\* Every step of the log is a step of AtomicDisk or changes nothing there.
LEMMA AtomicStep ==
    ASSUME IInv, IInv', [Next]_vars
    PROVE  [Atomic!Next]_(Atomic!vars)
<1> USE DEF IInv, LogInv
<1>1. ASSUME recovered' = recovered, Volatile' = Volatile, Active' = Active
      PROVE  UNCHANGED Atomic!vars
  BY <1>1, Zenon DEF Atomic!vars, Volatile, Active
<1>2. ASSUME NEW p \in Proc, begin_op(p) PROVE [Atomic!Next]_(Atomic!vars)
  <2>1. recovered' = recovered /\ Volatile' = Volatile
    <3>1. pc' # pc
      BY <1>2, Zenon DEF begin_op, TypeOK
    <3>2. \A q \in Proc, b \in Block, v \in Val : ~log_write(q, b, v)
      BY <3>1, Zenon DEF log_write
    <3>3. ~write_head /\ ~crash
      BY <1>2, <3>1, Zenon DEF begin_op, write_head, crash
    <3> QED
      BY <3>2, <3>3, DurableKept, VolatileKept, Zenon
  <2>2. CASE committing \/ NoRoom
    <3>1. Active' = Active
      BY <1>2, <2>2, Zenon DEF begin_op, Active, TypeOK
    <3> QED
      BY <1>1, <2>1, <3>1, Zenon
  <2>3. CASE ~(committing \/ NoRoom)
    <3>1. p \notin Active /\ Active' = Active \cup {p}
      BY <1>2, <2>3 DEF begin_op, Active, TypeOK
    <3>2. Atomic!Begin(p)
      BY <2>1, <3>1, Zenon DEF Atomic!Begin, Volatile, Active
    <3> QED
      BY <3>2, Zenon DEF Atomic!Next
  <2> QED
    BY <2>2, <2>3, Zenon
<1>3. ASSUME NEW p \in Proc, end_op(p) PROVE [Atomic!Next]_(Atomic!vars)
  <2>1. recovered' = recovered /\ Volatile' = Volatile
    <3>1. phase = "none"
      BY <1>3, ActiveMeansNone, Zenon DEF end_op
    <3>2. ~write_head /\ ~crash
      BY <1>3, <3>1, Zenon DEF write_head, crash, end_op
    <3>3. pc' # pc
      BY <1>3, Zenon DEF end_op, TypeOK, wakeup
    <3>4. \A q \in Proc, b \in Block, v \in Val : ~log_write(q, b, v)
      BY <3>3 DEF log_write
    <3> QED
      BY <3>2, <3>4, DurableKept, VolatileKept, Zenon
  <2>2. p \in Active /\ Active' = Active \ {p}
    BY <1>3, Zenon DEF end_op, Active, TypeOK, wakeup
  <2>3. Atomic!End(p)
    BY <2>1, <2>2, Zenon DEF Atomic!End, Volatile, Active
  <2> QED
    BY <2>3, Zenon DEF Atomic!Next
<1>4. ASSUME NEW p \in Proc, NEW b \in Block, NEW v \in Val, log_write(p, b, v)
      PROVE  [Atomic!Next]_(Atomic!vars)
  <2>1. phase = "none" /\ phase' = phase
    BY <1>4, ActiveMeansNone, Zenon DEF log_write
  <2>2. recovered' = recovered
    BY <2>1, DurableKept, Zenon DEF write_head
  <2>3. p \in Active /\ Active' = Active
    BY <1>4, Zenon DEF log_write, Active
  <2>4. cache' = [cache EXCEPT ![b] = v] /\ disk' = disk /\ v # NoBuf
    BY <1>4, LogAssumption, Zenon DEF log_write
  <2>5. current' = [current EXCEPT ![b] = v]
    BY <2>4, Zenon DEF current, bread, TypeOK
  <2>6. Volatile' = [Volatile EXCEPT ![b] = v]
    BY <2>1, <2>5, Zenon DEF Volatile, recovering
  <2>7. Atomic!Write(p, b, v)
    BY <2>2, <2>3, <2>6, Zenon DEF Atomic!Write, Volatile, Active
  <2> QED
    BY <2>7, Zenon DEF Atomic!Next
<1>5. CASE write_head
  <2>1. Active = {} /\ Active' = Active
    BY <1>5, Zenon DEF write_head, PhaseOrder, Active
  <2>2. recovered' = current /\ current' = current
    BY <1>5, CommitPoint, Zenon
  <2>3. ~recovering /\ ~recovering'
    BY <1>5, Zenon DEF write_head, recovering
  <2>4. Atomic!Commit
    BY <2>1, <2>2, <2>3, Zenon DEF Atomic!Commit, Active
  <2> QED
    BY <2>4, Zenon DEF Atomic!Next
<1>6. CASE crash
  <2>1. recovered' = recovered
    BY <1>6, DurableKept, Zenon DEF write_head, crash
  <2>2. recovering' /\ Active' = {}
    BY <1>6, Zenon DEF crash, recovering, Active
  <2>3. Atomic!Crash
    BY <2>1, <2>2, Zenon DEF Atomic!Crash, Active
  <2> QED
    BY <2>3, Zenon DEF Atomic!Next
<1>7. CASE /\ ~write_head /\ ~crash
           /\ \A p \in Proc : ~begin_op(p) /\ ~end_op(p)
           /\ \A p \in Proc, b \in Block, v \in Val : ~log_write(p, b, v)
  <2>1. recovered' = recovered /\ Volatile' = Volatile
    BY <1>7, DurableKept, VolatileKept, Zenon
  <2>2. ASSUME NEW p \in Proc, end_commit(p) PROVE Active' = Active
    BY <2>2, Zenon DEF end_commit, Active, wakeup, TypeOK
  <2>3. pc' = pc => Active' = Active
    BY Zenon DEF Active
  <2>4. commit_step => pc' = pc
    BY <1>7, Zenon DEF commit_step, write_log, install_trans, erase, read_head
  <2>5. (UNCHANGED vars \/ \E b \in Block : recycle(b)) => pc' = pc
    BY Zenon DEF recycle, vars
  <2>6. Active' = Active
    BY <1>7, <2>2, <2>3, <2>4, <2>5, Zenon DEF Next
  <2> QED
    BY <1>1, <2>1, <2>6, Zenon
<1> QED
  BY <1>2, <1>3, <1>4, <1>5, <1>6, <1>7, Zenon

-----------------------------------------------------------------------------
(***************************************************************************)
(* Finite sets of processes and of blocks; the first state.                *)
(***************************************************************************)
INSTANCE FiniteSetTheorems

\* A finite set of processes is active, and its unused reservations are
\* finitely many.
LEMMA Finite ==
    ASSUME TypeOK
    PROVE  /\ IsFiniteSet(Active) /\ IsFiniteSet(Token)
           /\ Cardinality(Active) \in Nat /\ Cardinality(Token) \in Nat
           /\ \A p \in Proc : /\ IsFiniteSet(wrote[p])
                              /\ Cardinality(wrote[p]) \in Nat
<1>1. IsFiniteSet(Active)
  BY LogAssumption, FS_Subset, Zenon DEF Active
<1>2. IsFiniteSet(Token)
  <2>1. MAXOPBLOCKS \in Nat
    BY LogAssumption, Zenon
  <2>2. IsFiniteSet(1..MAXOPBLOCKS)
    BY <2>1, FS_Interval
  <2>3. IsFiniteSet(Proc \X (1..MAXOPBLOCKS))
    BY <2>2, LogAssumption, FS_Product, Zenon
  <2> QED
    BY <2>3, FS_Subset, Zenon DEF Token
<1>3. ASSUME NEW p \in Proc PROVE IsFiniteSet(wrote[p])
  BY <1>3, LogAssumption, FS_Subset, Zenon DEF TypeOK
<1> QED
  BY <1>1, <1>2, <1>3, FS_CardinalityType, Zenon

\* Init establishes the invariant: an empty log, no operation under way.
LEMMA InitInv == Init => IInv
<1> SUFFICES ASSUME Init PROVE IInv
  BY Zenon
<1>1. TypeOK
  <2>1. disk \in [Block -> Content]
    BY Zenon DEF Init, Content
  <2>2. logBlock \in [1..LOGSIZE -> Content]
    BY Zenon DEF Init, Content
  <2>3. head \in Seq(Block) /\ lh \in Seq(Block)
    BY DEF Init
  <2>4. tail \in 0..LOGSIZE
    BY Constants DEF Init
  <2>5. committing \in BOOLEAN /\ panicked \in BOOLEAN
    BY Zenon DEF Init
  <2>6. outstanding \in Int /\ phase \in Phases
    BY DEF Init, Phases
  <2>7. /\ cache \in [Block -> Content \cup {NoBuf}]
        /\ pin \in [Block -> Nat]
        /\ pc \in [Proc -> {"idle", "begin", "sleep", "op", "commit"}]
        /\ wrote \in [Proc -> SUBSET Block]
    BY Zenon DEF Init
  <2> QED
    BY <2>1, <2>2, <2>3, <2>4, <2>5, <2>6, <2>7, Zenon DEF TypeOK
<1>2. Active = {} /\ Token = {} /\ recovering
  BY Zenon DEF Init, Active, Token, recovering
<1>3. Cardinality({}) = 0
  BY FS_EmptySet, Zenon
<1>4. Reservation
  BY <1>2, <1>3, LogAssumption DEF Init, Reservation, Blocks
<1>5. PhaseOrder
  BY <1>2, LogAssumption DEF Init, PhaseOrder, Distinct, recovering
<1>6. /\ CacheClean /\ Logged /\ Installed
      /\ PinnedUntilInstalled /\ SleeperHasWaker
  BY <1>2, Zenon DEF Init, CacheClean, Logged, Installed, PinnedUntilInstalled,
     SleeperHasWaker, Pending
<1> QED
  BY <1>1, <1>4, <1>5, <1>6, Zenon DEF IInv, LogInv

-----------------------------------------------------------------------------
(***************************************************************************)
(* Reservations.                                                           *)
(***************************************************************************)
\* Steps that leave the operations and the log header in memory alone.
LEMMA ReservationFrame ==
    ASSUME Reservation, Active' = Active, wrote' = wrote, lh' = lh,
           outstanding' = outstanding, recovering' => recovering,
           recovering => recovering'
    PROVE  Reservation'
<1>1. Token' = Token
  BY Zenon DEF Token
<1> QED
  BY <1>1, Zenon DEF Reservation, Blocks

\* Steps taken while no operation is under way.
LEMMA ReservationIdle ==
    ASSUME Reservation, Active = {}, Active' = {}, wrote' = wrote,
           outstanding' = outstanding, lh' = <<>> \/ recovering'
    PROVE  Reservation'
<1>1. Token' = {} /\ Cardinality({}) = 0
  BY FS_EmptySet, Zenon DEF Token
<1>2. \A p \in Proc : wrote[p] = {}
  BY Zenon DEF Reservation
<1>3. outstanding' = Cardinality(Active')
  BY Zenon DEF Reservation
<1>4. ~recovering' => Len(lh') + Cardinality(Token') <= LOGSIZE
  BY <1>1, Constants
<1>5. \A p \in Proc : /\ Cardinality(wrote'[p]) <= OpBlocks
                      /\ wrote'[p] \subseteq Blocks(lh')
                      /\ p \notin Active' => wrote'[p] = {}
  <2>1. \A p \in Proc : wrote'[p] = {}
    BY <1>2, Zenon
  <2>2. 0 <= OpBlocks
    BY Constants
  <2> QED
    BY <1>1, <2>1, <2>2, Zenon
<1> QED
  BY <1>3, <1>4, <1>5, BlocksPrime, Zenon DEF Reservation

\* begin_op() adds an operation only if the log has room for the whole
\* reservation of every operation under way.
LEMMA ReservationBegin ==
    ASSUME IInv, NEW p \in Proc, begin_op(p)
    PROVE  Reservation'
<1>1. CASE committing \/ NoRoom
  <2>1. Active' = Active
    BY <1>1, Zenon DEF begin_op, Active, IInv, TypeOK
  <2> QED
    BY <1>1, <2>1, ReservationFrame, Zenon DEF begin_op, recovering, IInv, LogInv
<1>2. CASE ~(committing \/ NoRoom)
  <2> USE DEF IInv, LogInv
  <2>1. /\ outstanding' = outstanding + 1
        /\ pc' = [pc EXCEPT ![p] = "op"]
        /\ wrote' = [wrote EXCEPT ![p] = {}]
        /\ lh' = lh
        /\ p \notin Active
    BY <1>2, Zenon DEF begin_op, Active
  <2>2. Active' = Active \cup {p}
    BY <2>1, Zenon DEF Active, TypeOK
  <2>3. IsFiniteSet(Active') /\ Cardinality(Active') = outstanding + 1
    BY <2>1, <2>2, Finite, FS_AddElement, Zenon DEF Reservation
  <2>4. outstanding \in Nat
    BY Finite, Zenon DEF Reservation
  <2>5. /\ Cardinality(Token') <= (outstanding + 1) * MAXOPBLOCKS
        /\ Cardinality(Token') \in Nat
    <3>1. /\ IsFiniteSet(1..MAXOPBLOCKS)
          /\ Cardinality(1..MAXOPBLOCKS) = MAXOPBLOCKS
      <4>1. MAXOPBLOCKS >= 1 /\ MAXOPBLOCKS - 1 + 1 = MAXOPBLOCKS
        BY Constants
      <4> QED
        BY <4>1, Constants, FS_Interval
    <3>2. /\ IsFiniteSet(Active' \X (1..MAXOPBLOCKS))
          /\ Cardinality(Active' \X (1..MAXOPBLOCKS))
                = (outstanding + 1) * MAXOPBLOCKS
      BY <2>3, <3>1, FS_Product, ZenonT(30)
    <3>3. Token' \subseteq Active' \X (1..MAXOPBLOCKS)
      BY Zenon DEF Token
    <3> QED
      BY <3>2, <3>3, FS_Subset, FS_CardinalityType
  <2>7. Len(lh) + Cardinality(Token') <= LOGSIZE
    <3>1. Len(lh) + (outstanding + 1) * MAXOPBLOCKS <= LOGSIZE
      BY <1>2, <2>4, Constants DEF NoRoom, TypeOK
    <3>2. (outstanding + 1) * MAXOPBLOCKS \in Nat
      BY <2>4, Constants
    <3>3. Len(lh) \in Nat
      BY DEF TypeOK
    <3> QED
      BY <2>5, <3>1, <3>2, <3>3, Constants
  <2>8. ASSUME NEW q \in Proc
        PROVE  /\ Cardinality(wrote'[q]) <= OpBlocks
               /\ wrote'[q] \subseteq Blocks(lh)
               /\ q \notin Active' => wrote'[q] = {}
    <3>1. wrote'[q] = IF q = p THEN {} ELSE wrote[q]
      BY <2>1, Zenon DEF TypeOK
    <3>2. Cardinality({}) = 0
      BY FS_EmptySet, Zenon
    <3> QED
      BY <2>2, <3>1, <3>2, Constants DEF Reservation
  <2> QED
    BY <2>1, <2>3, <2>7, <2>8 DEF Reservation, Blocks
<1> QED
  BY <1>1, <1>2, Zenon

\* log_write() uses up one block of its caller's reservation for each block
\* it adds to the log.
LEMMA ReservationWrite ==
    ASSUME IInv, NEW p \in Proc, NEW b \in Block, NEW v \in Val,
           log_write(p, b, v)
    PROVE  Reservation'
<1> USE DEF IInv, LogInv
<1>1. Active' = Active /\ outstanding' = outstanding /\ phase' = phase
  BY Zenon DEF log_write, Active
<1>2. p \in Active /\ ~recovering
  BY Zenon DEF log_write, Active, PhaseOrder, recovering
<1>3. CASE Full \/ outstanding < 1
  BY <1>1, <1>3, ReservationFrame, Zenon DEF log_write, recovering
<1>4. CASE ~(Full \/ outstanding < 1)
  <2> DEFINE n == Cardinality(wrote[p])
             t == <<p, n + 1>>
  <2>1. wrote' = [wrote EXCEPT ![p] = wrote[p] \cup {b}]
    BY <1>4, Zenon DEF log_write
  <2>2. \/ b \in Blocks(lh) /\ lh' = lh
        \/ b \notin Blocks(lh) /\ lh' = Append(lh, b)
    BY <1>4, Zenon DEF log_write
  <2>3. n \in Nat /\ IsFiniteSet(wrote[p]) /\ n <= OpBlocks
    BY Finite, Zenon DEF Reservation
  <2>4. \/ b \in wrote[p] /\ wrote'[p] = wrote[p] /\ Cardinality(wrote'[p]) = n
        \/ /\ b \notin wrote[p]
           /\ Cardinality(wrote'[p]) = n + 1
           /\ n < OpBlocks
    <3>1. wrote'[p] = wrote[p] \cup {b}
      BY <2>1, Zenon DEF TypeOK
    <3>2. CASE b \in wrote[p]
      BY <3>1, <3>2, Zenon
    <3>3. CASE b \notin wrote[p]
      <4>1. n < OpBlocks
        BY <3>3, Zenon DEF log_write
      <4>2. Cardinality(wrote'[p]) = n + 1
        BY <2>3, <3>1, <3>3, FS_AddElement, Zenon
      <4> QED
        BY <3>3, <4>1, <4>2, Zenon
    <3> QED
      BY <3>2, <3>3, Zenon
  <2>5. \A q \in Proc \ {p} : wrote'[q] = wrote[q]
    BY <2>1, Zenon DEF TypeOK
  <2>6. Blocks(lh) \cup {b} = Blocks(lh')
    <3>1. CASE lh' = lh /\ b \in Blocks(lh)
      BY <3>1, Zenon
    <3>2. CASE lh' = Append(lh, b)
      <4>1. Blocks(lh') \subseteq Blocks(lh) \cup {b}
        BY <3>2 DEF Blocks, TypeOK
      <4>2. ASSUME NEW c \in Blocks(lh) \cup {b} PROVE c \in Blocks(lh')
        <5>1. CASE c = b
          <6>1. Len(lh) + 1 \in DOMAIN lh' /\ lh'[Len(lh) + 1] = b
            BY <3>2 DEF TypeOK
          <6> QED
            BY <5>1, <6>1, Zenon DEF Blocks
        <5>2. CASE c \in Blocks(lh)
          <6>1. PICK i \in DOMAIN lh : lh[i] = c
            BY <5>2, Zenon DEF Blocks
          <6>2. i \in DOMAIN lh' /\ lh'[i] = c
            BY <3>2, <6>1 DEF TypeOK
          <6> QED
            BY <6>2, Zenon DEF Blocks
        <5> QED
          BY <4>2, <5>1, <5>2, Zenon
      <4> QED
        BY <4>1, <4>2, Zenon
    <3> QED
      BY <2>2, <3>1, <3>2, Zenon
  <2>7. \A q \in Proc : /\ Cardinality(wrote'[q]) <= OpBlocks
                        /\ wrote'[q] \subseteq Blocks(lh')
                        /\ q \notin Active' => wrote'[q] = {}
    <3>1. \A q \in Proc \ {p} : /\ Cardinality(wrote'[q]) <= OpBlocks
                                /\ wrote'[q] \subseteq Blocks(lh')
                                /\ q \notin Active' => wrote'[q] = {}
      BY <1>1, <2>5, <2>6, Zenon DEF Reservation
    <3>2. Cardinality(wrote'[p]) <= OpBlocks
      BY <2>3, <2>4, Constants
    <3>3. wrote'[p] \subseteq Blocks(lh')
      BY <2>1, <2>6, Zenon DEF Reservation, TypeOK
    <3> QED
      BY <1>1, <1>2, <3>1, <3>2, <3>3, Zenon
  <2>8. ~recovering' => Len(lh') + Cardinality(Token') <= LOGSIZE
    <3>1. /\ IsFiniteSet(Token) /\ Cardinality(Token) \in Nat
          /\ Len(lh) + Cardinality(Token) <= LOGSIZE /\ Len(lh) \in Nat
      BY <1>2, Finite DEF Reservation, TypeOK
    <3>2. Token' \subseteq Token
      BY <1>1, <2>3, <2>4, <2>5 DEF Token
    <3>3. CASE lh' = lh
      <4>1. Cardinality(Token') \in Nat /\ Cardinality(Token') <= Cardinality(Token)
        BY <3>1, <3>2, FS_Subset, FS_CardinalityType, Zenon
      <4> QED
        BY <3>1, <3>3, <4>1, Constants
    <3>4. CASE b \notin Blocks(lh) /\ lh' = Append(lh, b)
      <4>1. b \notin wrote[p]
        BY <3>4, Zenon DEF Reservation
      <4>2. Cardinality(wrote'[p]) = n + 1 /\ n < OpBlocks
        BY <2>4, <4>1, Zenon
      <4>3. t \in Token
        BY <1>2, <2>3, <4>2, Constants DEF Token
      <4>4. t \notin Token'
        BY <2>3, <4>2 DEF Token
      <4>5. /\ IsFiniteSet(Token \ {t})
            /\ Cardinality(Token \ {t}) = Cardinality(Token) - 1
        BY <3>1, <4>3, FS_RemoveElement, Zenon
      <4>6. Token' \subseteq Token \ {t}
        BY <3>2, <4>4, Zenon
      <4>7. /\ Cardinality(Token') \in Nat
            /\ Cardinality(Token') <= Cardinality(Token \ {t})
        BY <4>5, <4>6, FS_Subset, FS_CardinalityType, Zenon
      <4>8. Len(lh') = Len(lh) + 1
        BY <3>4 DEF TypeOK
      <4> QED
        BY <3>1, <4>5, <4>7, <4>8, Constants
    <3> QED
      BY <2>2, <3>3, <3>4, Zenon
  <2>9. outstanding' = Cardinality(Active')
    BY <1>1, Zenon DEF Reservation
  <2> QED
    BY <2>7, <2>8, <2>9, BlocksPrime, Zenon DEF Reservation
<1> QED
  BY <1>3, <1>4, Zenon

\* end_op() gives the rest of the reservation back.
LEMMA ReservationEnd ==
    ASSUME IInv, NEW p \in Proc, end_op(p)
    PROVE  Reservation'
<1> USE DEF IInv, LogInv
<1>1. p \in Active /\ ~recovering
  BY Zenon DEF end_op, Active, PhaseOrder, recovering
<1>2. Active' = Active \ {p}
  BY Zenon DEF end_op, Active, wakeup, TypeOK
<1>3. outstanding' = Cardinality(Active')
  BY <1>1, <1>2, Finite, FS_RemoveElement, Zenon DEF end_op, Reservation
<1>4. \A q \in Proc : wrote'[q] = IF q = p THEN {} ELSE wrote[q]
  BY Zenon DEF end_op, TypeOK
<1>5. \A q \in Proc : /\ Cardinality(wrote'[q]) <= OpBlocks
                      /\ wrote'[q] \subseteq Blocks(lh)
                      /\ q \notin Active' => wrote'[q] = {}
  BY <1>2, <1>4, FS_EmptySet, Constants DEF Reservation
<1>6. Len(lh) + Cardinality(Token') <= LOGSIZE
  <2>1. /\ IsFiniteSet(Token) /\ Cardinality(Token) \in Nat
        /\ Len(lh) + Cardinality(Token) <= LOGSIZE /\ Len(lh) \in Nat
    BY <1>1, Finite DEF Reservation, TypeOK
  <2>2. Token' \subseteq Token
    BY <1>2, <1>4, Zenon DEF Token
  <2>3. Cardinality(Token') \in Nat /\ Cardinality(Token') <= Cardinality(Token)
    BY <2>1, <2>2, FS_Subset, FS_CardinalityType, Zenon
  <2> QED
    BY <2>1, <2>3, Constants
<1>7. lh' = lh
  BY Zenon DEF end_op
<1>8. ~recovering' => Len(lh') + Cardinality(Token') <= LOGSIZE
  BY <1>6, <1>7, Zenon
<1> QED
  BY <1>3, <1>5, <1>7, <1>8, BlocksPrime, Zenon DEF Reservation

\* The reservations cover the blocks every operation may still log.
LEMMA ReservationStep == IInv /\ [Next]_vars => Reservation'
<1> SUFFICES ASSUME IInv, [Next]_vars PROVE Reservation'
  OBVIOUS
<1> USE DEF IInv, LogInv
<1>1. ASSUME NEW p \in Proc, end_commit(p) PROVE Reservation'
  <2>1. Active' = Active
    BY <1>1, Zenon DEF end_commit, Active, wakeup, TypeOK
  <2> QED
    BY <1>1, <2>1, ReservationFrame, Zenon DEF end_commit, recovering
<1>2. CASE write_log \/ write_head
  BY <1>2, ReservationFrame, Zenon DEF write_log, write_head, recovering, Active
<1>3. ASSUME NEW r \in BOOLEAN, install_trans(r) PROVE Reservation'
  BY <1>3, ReservationFrame, Zenon DEF install_trans, recovering, Active
<1>4. ASSUME NEW r \in BOOLEAN, erase(r) PROVE Reservation'
  <2>1. Active = {} /\ Active' = Active
    BY <1>4, Zenon DEF erase, Active, PhaseOrder
  <2> QED
    BY <1>4, <2>1, ReservationIdle, Zenon DEF erase
<1>5. CASE read_head
  <2>1. Active = {} /\ Active' = Active
    BY <1>5, Zenon DEF read_head, Active, PhaseOrder
  <2> QED
    BY <1>5, <2>1, ReservationIdle, Zenon DEF read_head, recovering
<1>6. ASSUME NEW b \in Block, recycle(b) PROVE Reservation'
  BY <1>6, ReservationFrame, Zenon DEF recycle, recovering, Active
<1>7. CASE crash
  <2>1. Active' = {} /\ outstanding' = 0 /\ recovering'
    BY <1>7, Zenon DEF crash, Active, recovering
  <2>2. \A p \in Proc : wrote'[p] = {}
    BY <1>7, Zenon DEF crash
  <2>3. Cardinality({}) = 0
    BY FS_EmptySet, Zenon
  <2>4. \A p \in Proc : Cardinality(wrote'[p]) <= OpBlocks
    BY <2>2, <2>3, Constants
  <2> QED
    BY <2>1, <2>2, <2>3, <2>4, Zenon DEF Reservation
<1>8. CASE UNCHANGED vars
  BY <1>8, ReservationFrame, Zenon DEF vars, recovering, Active
<1> QED
  BY <1>1, <1>2, <1>3, <1>4, <1>5, <1>6, <1>7, <1>8, ReservationBegin,
     ReservationWrite, ReservationEnd, Zenon DEF Next, commit_step
-----------------------------------------------------------------------------
(***************************************************************************)
(* The phases of a commit and of recovery.                                 *)
(***************************************************************************)
\* Every step of begin_op(), log_write(), end_op(), commit() and recovery keeps
\* the order of the phases of a commit.
LEMMA PhaseOrderStep == IInv /\ [Next]_vars => PhaseOrder'
<1> SUFFICES ASSUME IInv, [Next]_vars PROVE PhaseOrder'
  OBVIOUS
<1> USE DEF IInv, LogInv
<1>1. ASSUME NEW p \in Proc, begin_op(p) PROVE PhaseOrder'
  <2>1. CASE committing \/ NoRoom
    <3>1. Active' = Active
      BY <1>1, <2>1, Zenon DEF begin_op, Active, TypeOK
    <3> QED
      BY <1>1, <3>1, Zenon DEF begin_op, PhaseOrder, recovering, Distinct
  <2>2. CASE ~(committing \/ NoRoom)
    <3>1. p \in Active' /\ phase = "none"
      BY <1>1, <2>2, Zenon DEF begin_op, Active, TypeOK, PhaseOrder, recovering
    <3> QED
      BY <1>1, <3>1, Zenon DEF begin_op, PhaseOrder, recovering, Distinct
  <2> QED
    BY <2>1, <2>2, Zenon
<1>2. ASSUME NEW p \in Proc, NEW b \in Block, NEW v \in Val, log_write(p, b, v)
      PROVE  PhaseOrder'
  <2>1. phase = "none" /\ p \in Active /\ Active' = Active
    BY <1>2, ActiveMeansNone, Zenon DEF log_write, Active
  <2>2. lh' = lh \/ (b \notin Blocks(lh) /\ lh' = Append(lh, b) /\ ~Full)
    BY <1>2, Zenon DEF log_write
  <2>3. Len(lh') <= LOGSIZE
    BY <2>2, Constants DEF Full, PhaseOrder, TypeOK
  <2>4. Distinct(lh')
    BY <2>2, AppendDistinct, Zenon DEF PhaseOrder, TypeOK
  <2>5. Distinct(lh)' /\ Distinct(head)'
    BY <1>2, <2>4, Zenon DEF PhaseOrder, log_write, Distinct
  <2> QED
    BY <1>2, <2>1, <2>3, <2>5, Zenon DEF log_write, PhaseOrder, recovering
<1>3. ASSUME NEW p \in Proc, end_op(p) PROVE PhaseOrder'
  <2>1. phase = "none" /\ ~committing /\ head = <<>> /\ tail = 0
    BY <1>3, ActiveMeansNone, Zenon DEF end_op
  <2>2. ~panicked'
    BY <1>3, <2>1, Zenon DEF end_op
  <2>3. Active' = {} <=> outstanding' = 0
    <3>1. Active' = Active \ {p}
      BY <1>3, Zenon DEF end_op, Active, wakeup, TypeOK
    <3>2. IsFiniteSet(Active') /\ outstanding' = Cardinality(Active')
      BY <1>3, <3>1, Finite, FS_Subset, ReservationEnd, Zenon DEF Reservation
    <3> QED
      BY <3>2, FS_EmptySet, Zenon
  <2>4. Distinct(lh)' /\ Distinct(head)'
    BY <1>3, Zenon DEF PhaseOrder, end_op, Distinct
  <2>5. CASE outstanding' = 0
    <3>1. committing' /\ tail' = 0
          /\ phase' = IF lh = <<>> THEN "done" ELSE "write_log"
      BY <1>3, <2>5, Zenon DEF end_op
    <3>2. lh # <<>> => 0 < Len(lh)
      BY DEF TypeOK
    <3> QED
      BY <1>3, <2>1, <2>2, <2>3, <2>4, <2>5, <3>1, <3>2, Zenon
         DEF end_op, PhaseOrder, recovering
  <2>6. CASE outstanding' # 0
    BY <1>3, <2>1, <2>2, <2>3, <2>4, <2>6, Zenon DEF end_op, PhaseOrder, recovering
  <2> QED
    BY <2>5, <2>6, Zenon
<1>4. ASSUME NEW p \in Proc, end_commit(p) PROVE PhaseOrder'
  <2>1. Active' = Active
    BY <1>4 DEF end_commit, Active, wakeup, TypeOK
  <2> QED
    BY <1>4, <2>1, Zenon DEF end_commit, PhaseOrder, recovering, Distinct
<1>5. CASE write_log
  <2>1. Active' = Active
    BY <1>5, Zenon DEF write_log, Active
  <2> QED
    BY <1>5, <2>1 DEF write_log, PhaseOrder, recovering, Distinct, TypeOK
<1>6. CASE write_head
  <2>1. Active' = Active
    BY <1>6, Zenon DEF write_head, Active
  <2> QED
    BY <1>6, <2>1, Zenon DEF write_head, PhaseOrder, recovering, Distinct, TypeOK
<1>7. ASSUME NEW r \in BOOLEAN, install_trans(r) PROVE PhaseOrder'
  <2>1. Active' = Active
    BY <1>7, Zenon DEF install_trans, Active
  <2>2. Distinct(lh)' /\ Distinct(head)'
    BY <1>7, Zenon DEF install_trans, PhaseOrder, Distinct
  <2>3. CASE tail + 1 < Len(lh)
    BY <1>7, <2>1, <2>2, <2>3, Zenon DEF install_trans, PhaseOrder, recovering
  <2>4. CASE ~(tail + 1 < Len(lh))
    BY <1>7, <2>1, <2>2, <2>4, Zenon DEF install_trans, PhaseOrder, recovering
  <2> QED
    BY <2>3, <2>4, Zenon
<1>8. ASSUME NEW r \in BOOLEAN, erase(r) PROVE PhaseOrder'
  <2>1. Active' = Active
    BY <1>8, Zenon DEF erase, Active
  <2> QED
    BY <1>8, <2>1, Constants DEF erase, PhaseOrder, recovering, Distinct
<1>9. CASE read_head
  <2>1. Active' = Active
    BY <1>9, Zenon DEF read_head, Active
  <2> QED
    BY <1>9, <2>1 DEF read_head, PhaseOrder, recovering, Distinct, TypeOK
<1>10. ASSUME NEW b \in Block, recycle(b) PROVE PhaseOrder'
  BY <1>10, Zenon DEF recycle, PhaseOrder, recovering, Distinct, Active
<1>11. CASE crash
  <2>1. Active' = {}
    BY <1>11, Zenon DEF crash, Active
  <2>2. Distinct(lh)' /\ Distinct(head)'
    BY <1>11 DEF crash, PhaseOrder, Distinct
  <2> QED
    BY <1>11, <2>1, <2>2, Constants DEF crash, PhaseOrder, recovering
<1>12. CASE UNCHANGED vars
  BY <1>12, Zenon DEF vars, PhaseOrder, recovering, Distinct, Active
<1> QED
  BY <1>1, <1>2, <1>3, <1>4, <1>5, <1>6, <1>7, <1>8, <1>9, <1>10, <1>11, <1>12, Zenon
     DEF Next, commit_step
-----------------------------------------------------------------------------
(***************************************************************************)
(* Sleepers.                                                               *)
(***************************************************************************)
\* A process that begin_op() puts to sleep leaves somebody to wake it.
LEMMA SleeperStep == IInv /\ [Next]_vars => SleeperHasWaker'
<1> SUFFICES ASSUME IInv, [Next]_vars PROVE SleeperHasWaker'
  OBVIOUS
<1> USE DEF IInv, LogInv
<1>0. outstanding \in Nat /\ outstanding = Cardinality(Active)
  BY Finite, Zenon DEF Reservation
<1>1. ASSUME NEW p \in Proc, begin_op(p) PROVE SleeperHasWaker'
  <2>1. CASE committing
    BY <1>1, <2>1, Zenon DEF begin_op, SleeperHasWaker
  <2>2. CASE ~committing /\ NoRoom
    <3>1. phase = "none"
      BY <1>1, <2>2, Zenon DEF begin_op, PhaseOrder, recovering
    <3>2. outstanding # 0
      <4> SUFFICES ASSUME outstanding = 0 PROVE FALSE
        BY Zenon
      <4>1. Active = {}
        BY <1>0, Finite, FS_EmptySet, Zenon
      <4>2. Len(lh) = 0
        BY <3>1, <4>1, Zenon DEF PhaseOrder
      <4>3. (outstanding + 1) * MAXOPBLOCKS = MAXOPBLOCKS
        BY Constants
      <4> QED
        BY <2>2, <4>2, <4>3, Constants DEF NoRoom
    <3> QED
      BY <1>0, <1>1, <2>2, <3>2 DEF begin_op, SleeperHasWaker
  <2>3. CASE ~committing /\ ~NoRoom
    BY <1>0, <1>1, <2>3 DEF begin_op, SleeperHasWaker
  <2> QED
    BY <2>1, <2>2, <2>3, Zenon
<1>2. ASSUME NEW p \in Proc, NEW b \in Block, NEW v \in Val, log_write(p, b, v)
      PROVE  SleeperHasWaker'
  BY <1>2, Zenon DEF log_write, SleeperHasWaker
<1>3. ASSUME NEW p \in Proc, end_op(p) PROVE SleeperHasWaker'
  <2>1. outstanding' \in Int /\ outstanding' >= 0
    <3>1. p \in Active
      BY <1>3, ActiveMeansNone, Zenon DEF end_op
    <3>2. outstanding # 0
      BY <1>0, <3>1, Finite, FS_EmptySet, Zenon
    <3> QED
      BY <1>0, <1>3, <3>2 DEF end_op
  <2>2. CASE outstanding' = 0
    BY <1>3, <2>2, Zenon DEF end_op, SleeperHasWaker
  <2>3. CASE outstanding' # 0
    BY <2>1, <2>3 DEF SleeperHasWaker
  <2> QED
    BY <2>2, <2>3, Zenon
<1>4. ASSUME NEW p \in Proc, end_commit(p) PROVE SleeperHasWaker'
  BY <1>4, Zenon DEF end_commit, wakeup, SleeperHasWaker, TypeOK
<1>5. CASE write_log \/ write_head \/ read_head
  BY <1>5, Zenon DEF write_log, write_head, read_head, SleeperHasWaker
<1>6. ASSUME NEW r \in BOOLEAN, install_trans(r) \/ erase(r)
      PROVE  SleeperHasWaker'
  BY <1>6, Zenon DEF install_trans, erase, SleeperHasWaker
<1>7. ASSUME NEW b \in Block, recycle(b) PROVE SleeperHasWaker'
  BY <1>7, Zenon DEF recycle, SleeperHasWaker
<1>8. CASE crash
  BY <1>8, Zenon DEF crash, SleeperHasWaker
<1>9. CASE UNCHANGED vars
  BY <1>9, Zenon DEF vars, SleeperHasWaker
<1> QED
  BY <1>1, <1>2, <1>3, <1>4, <1>5, <1>6, <1>7, <1>8, <1>9, Zenon DEF Next, commit_step
-----------------------------------------------------------------------------
(***************************************************************************)
(* The theorems.                                                           *)
(***************************************************************************)
\* The invariant holds in every reachable state of the log.
THEOREM LogInvariant == Spec => []IInv
<1>1. IInv /\ [Next]_vars => IInv'
  BY TypeStep, ReservationStep, PhaseOrderStep, PinStep, CacheStep, LoggedStep,
     InstalledStep, SleeperStep, Zenon DEF IInv, LogInv
<1> QED
  BY InitInv, <1>1, PTL DEF Spec

\* LogInv itself: the reservations of begin_op() are kept, and log, cache and
\* disk agree with the phase of the commit.
THEOREM LogAgrees == Spec => []LogInv
  BY LogInvariant, PTL DEF IInv

\* Type correctness, with it that write_log() and install_trans() stay inside
\* the log and that bunpin() is only called on pinned buffers.
THEOREM TypeCorrect == Spec => []TypeOK
  BY LogInvariant, PTL DEF IInv

\* Whatever interleaving of calls, commits and crashes, a logged block stays
\* in the buffer cache until it is installed, and is released then.
THEOREM Pinning == Spec => []PinnedUntilInstalled
  BY LogInvariant, PTL DEF IInv, LogInv

\* begin_op() never sleeps with nobody left to wake it up.
THEOREM NoLostWakeup == Spec => []SleeperHasWaker
  BY LogInvariant, PTL DEF IInv, LogInv

\* If every operation leaves MAXOPBLOCKS - OpBlocks of its reservation unused,
\* and that makes up for the header block when log.size counts it, neither
\* log_write() nor end_op() ever panics.
THEOREM NeverTooBig ==
    ASSUME OpBlocks < MAXOPBLOCKS,
           LOGSIZE + 1 < NLOG + (MAXOPBLOCKS - OpBlocks)
    PROVE  Spec => []NoPanic
<1>1. Init => NoPanic
  BY Zenon DEF Init, NoPanic
<1>2. IInv /\ NoPanic /\ [Next]_vars => NoPanic'
  <2> SUFFICES ASSUME IInv, ~panicked, [Next]_vars PROVE ~panicked'
    BY Zenon DEF NoPanic
  <2>1. ASSUME NEW p \in Proc, NEW b \in Block, NEW v \in Val, log_write(p, b, v)
        PROVE  ~panicked'
    <3> USE DEF IInv, LogInv
    <3>1. p \in Active /\ ~recovering
      BY <2>1, ActiveMeansNone, Zenon DEF log_write
    <3>2. outstanding >= 1
      <4>1. IsFiniteSet(Active) /\ Cardinality(Active) \in Nat
        BY Finite, Zenon
      <4>2. Cardinality(Active) # 0
        BY <3>1, <4>1, FS_EmptySet, Zenon
      <4> QED
        BY <4>1, <4>2 DEF Reservation
    <3> DEFINE n == Cardinality(wrote[p])
               S == {<<p, i>> : i \in (n + 1)..MAXOPBLOCKS}
    <3>3. n \in Nat /\ n <= OpBlocks
      BY Finite, Zenon DEF Reservation
    <3>4. Cardinality(S) = MAXOPBLOCKS - n /\ IsFiniteSet(S)
      <4>1. /\ IsFiniteSet((n + 1)..MAXOPBLOCKS)
            /\ Cardinality((n + 1)..MAXOPBLOCKS) = MAXOPBLOCKS - n
        <5>1. /\ n + 1 \in Int /\ MAXOPBLOCKS \in Int /\ ~(n + 1 > MAXOPBLOCKS)
              /\ MAXOPBLOCKS - (n + 1) + 1 = MAXOPBLOCKS - n
          BY <3>3, Constants
        <5> QED
          BY <5>1, FS_Interval, Zenon
      <4>2. IsFiniteSet({p}) /\ Cardinality({p}) = 1
        BY FS_Singleton, Zenon
      <4>3. S = {p} \X ((n + 1)..MAXOPBLOCKS)
        OBVIOUS
      <4>4. /\ IsFiniteSet({p} \X ((n + 1)..MAXOPBLOCKS))
            /\ Cardinality({p} \X ((n + 1)..MAXOPBLOCKS)) = 1 * (MAXOPBLOCKS - n)
        <5> DEFINE T == (n + 1)..MAXOPBLOCKS
        <5>1. /\ IsFiniteSet({p} \X T)
              /\ Cardinality({p} \X T) = Cardinality({p}) * Cardinality(T)
          <6>1. IsFiniteSet(T)
            BY <4>1, Zenon
          <6> HIDE DEF T
          <6> QED
            BY <4>2, <6>1, FS_Product, Zenon
        <5> QED
          BY <4>1, <4>2, <5>1, Zenon
      <4>5. 1 * (MAXOPBLOCKS - n) = MAXOPBLOCKS - n
        BY <3>3, Constants
      <4> QED
        BY <4>3, <4>4, <4>5, Zenon
    <3>5. S \subseteq Token
      BY <3>1, <3>3, Constants DEF Token
    <3>6. MAXOPBLOCKS - n <= Cardinality(Token) /\ Cardinality(Token) \in Nat
      BY <3>4, <3>5, Finite, FS_Subset
    <3>7. Len(lh) + Cardinality(Token) <= LOGSIZE /\ Len(lh) \in Nat
      BY <3>1 DEF Reservation, TypeOK
    <3>8. ~Full
      BY <3>3, <3>6, <3>7, Constants DEF Full
    <3> QED
      BY <2>1, <3>2, <3>8 DEF log_write, TypeOK
  <2>2. ASSUME NEW p \in Proc, end_op(p) PROVE ~panicked'
    BY <2>2, ActiveMeansNone, Zenon DEF end_op
  <2>3. ASSUME NEW p \in Proc, begin_op(p) \/ end_commit(p) PROVE ~panicked'
    BY <2>3, Zenon DEF begin_op, end_commit
  <2>4. CASE write_log \/ write_head \/ read_head \/ crash
    BY <2>4, Zenon DEF write_log, write_head, read_head, crash
  <2>5. ASSUME NEW r \in BOOLEAN, install_trans(r) \/ erase(r) PROVE ~panicked'
    BY <2>5, Zenon DEF install_trans, erase
  <2>6. ASSUME NEW b \in Block, recycle(b) PROVE ~panicked'
    BY <2>6, Zenon DEF recycle
  <2>7. CASE UNCHANGED vars
    BY <2>7, Zenon DEF vars
  <2> QED
    BY <2>1, <2>2, <2>3, <2>4, <2>5, <2>6, <2>7, Zenon DEF Next, commit_step
<1> QED
  BY <1>1, <1>2, LogInvariant, PTL DEF Spec

\* The write-ahead rule, for crashes that tear a block included.
THEOREM WriteAheadHolds == Spec => WriteAhead
<1>1. IInv /\ [Next]_vars
        => [\A b \in Block : disk'[b] # disk[b] => b \in Blocks(head)]_vars
  <2> SUFFICES ASSUME IInv, Next, NEW b \in Block, disk'[b] # disk[b]
               PROVE  b \in Blocks(head)
    BY Zenon DEF vars
  <2> USE DEF IInv, LogInv
  <2>1. disk' # disk
    BY Zenon
  <2>2. /\ phase \in {"install", "rec_install"}
        /\ \E w \in Content : disk' = [disk EXCEPT ![lh[tail + 1]] = w]
    <3>1. ASSUME NEW r \in BOOLEAN, install_trans(r)
          PROVE  /\ phase \in {"install", "rec_install"}
                 /\ \E w \in Content : disk' = [disk EXCEPT ![lh[tail + 1]] = w]
      <4>1. phase \in {"install", "rec_install"}
        BY <3>1, Zenon DEF install_trans
      <4>2. disk' = [disk EXCEPT ![lh[tail + 1]] = logBlock[tail + 1]]
        BY <3>1, Zenon DEF install_trans
      <4>3. tail + 1 \in 1..LOGSIZE
        <5>1. tail < Len(lh) /\ Len(lh) <= LOGSIZE
          BY <4>1, Zenon DEF PhaseOrder
        <5>2. tail \in Nat /\ Len(lh) \in Nat /\ LOGSIZE \in Nat
          BY Constants DEF TypeOK
        <5> QED
          BY <5>1, <5>2
      <4>4. logBlock[tail + 1] \in Content
        BY <4>3, Zenon DEF TypeOK
      <4> QED
        BY <4>1, <4>2, <4>4, Zenon
    <3>2. CASE crash
      BY <2>1, <3>2, Zenon DEF crash, Content
    <3> QED
      BY <2>1, <3>1, <3>2, Zenon DEF Next, commit_step, begin_op, end_op, end_commit,
         log_write, write_log, write_head, erase, read_head, recycle
  <2>3. b = lh[tail + 1]
    BY <2>2, Zenon DEF TypeOK
  <2>4. tail + 1 \in DOMAIN lh /\ head = lh
    BY <2>2 DEF PhaseOrder, TypeOK
  <2> QED
    BY <2>3, <2>4, Zenon DEF Blocks
<1> QED
  BY <1>1, LogInvariant, PTL DEF Spec, WriteAhead
\* Crash atomicity: the log of kernel/log.c implements AtomicDisk, so what
\* recovery rebuilds after a crash, at whatever point of a commit or of an
\* earlier recovery, is the image before or after whole groups of calls.
THEOREM CrashAtomic == Spec => AtomicSpec
<1>1. Init => Atomic!Init
  <2> SUFFICES ASSUME Init PROVE Atomic!Init
    OBVIOUS
  <2>1. recovered = disk /\ disk \in [Block -> Val]
    BY DEF Init, recovered, Blocks
  <2>2. recovering /\ Active = {}
    BY Zenon DEF Init, recovering, Active
  <2> QED
    BY <2>1, <2>2, Zenon DEF Atomic!Init, Active
<1>2. IInv /\ IInv' /\ [Next]_vars => [Atomic!Next]_(Atomic!vars)
  BY AtomicStep, Zenon
<1>3. Spec => []IInv
  BY LogInvariant, Zenon
<1> QED
  BY <1>1, <1>2, <1>3, PTL DEF Spec, AtomicSpec, Atomic!Spec

\* After the last end_op() has returned, what the calls wrote is on the disk:
\* a crash that follows loses nothing.
THEOREM Durability == Spec => []QuiescentIsDurable
<1>1. IInv => QuiescentIsDurable
  <2> SUFFICES ASSUME IInv, phase = "none", outstanding = 0
               PROVE  recovered = current
    BY Zenon DEF QuiescentIsDurable
  <2> USE DEF IInv, LogInv
  <2>1. Active = {}
    BY Finite, FS_EmptySet, Zenon DEF Reservation
  <2>2. lh = <<>> /\ head = <<>> /\ ~panicked /\ ~recovering
    BY <2>1, Zenon DEF PhaseOrder, recovering
  <2>3. \A b \in Block : pin[b] = 0
    BY <2>2 DEF PinnedUntilInstalled, Pending
  <2>4. \A b \in Block : current[b] = disk[b]
    BY <2>2, <2>3, CurrentValue, Zenon
  <2>5. \A b \in Block : recovered[b] = disk[b]
    BY <2>2 DEF recovered, Blocks
  <2> QED
    BY <2>4, <2>5, Zenon DEF recovered, current
<1> QED
  BY <1>1, LogInvariant, PTL
=============================================================================
