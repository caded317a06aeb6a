----------------------------- MODULE CowProofs -----------------------------
(***************************************************************************)
(* The reference counts of Cow are exact, and copy-on-write fork           *)
(* implements EagerFork: theorems for every set of processes, pages and    *)
(* contents.                                                               *)
(***************************************************************************)
EXTENDS CowSteps

(***************************************************************************)
(* The loops of fork(), sbrk() and wait() over page tables keep the        *)
(* inductive invariant of CowSteps.                                        *)
(***************************************************************************)
\* One iteration of uvmcopy(), or its failure, keeps the invariant.
LEMMA UvmcopyStep ==
    ASSUME CowInv, NEW p \in Proc, uvmcopy(p)
    PROVE  CowInv'
<1> USE DEF CowInv
<1>1. PICK c \in Proc : c = job[p].peer
  BY JobType, Zenon
<1>2. pc[p] = "uvmcopy" /\ UNCHANGED <<freelist, pgrc, mem, sz, new, old, killed>>
  BY Zenon DEF uvmcopy
<1>3. c # p /\ pc[c] = "locked"
  BY <1>1, <1>2, Zenon DEF Jobs, JobOK, Working
<1>4. PICK va \in VA : va = job[p].cur /\ va < sz[p]
  <2>1. job[p].cur < sz[p] /\ sz[p] \in 0..NPage
    BY <1>2, Zenon DEF TypeOK, Jobs, JobOK
  <2> QED
    BY <2>1, JobType, Consts DEF VA
<1>5. PICK o \in Page : o = pa[p][va]
  <2>1. pa[p][va] # None
    BY <1>2, <1>4, Zenon DEF Maps, MapOK, Valid, Growing, Allocating
  <2> QED
    BY <2>1 DEF TypeOK
<1>6. PICK f \in {"R", "C"} : f = shared_flags(perm[p][va])
  BY Zenon DEF TypeOK, shared_flags
<1>7. \A q \in Proc : Growing(q) \/ pc[q] \in {"kfree", "put"} => q # p /\ q # c
  BY <1>2, <1>3, Zenon DEF Growing, Allocating
<1>8. page(p, va) = o /\ page(c, va) = None
  <2>1. pa[c][va] = None
    BY <1>1, <1>2, <1>4 DEF Maps, MapOK, VA
  <2> QED
    BY <1>5, <2>1, Pages, Zenon
<1>9. CASE /\ pa' = [pa EXCEPT ![c][va] = pa[p][va]]
           /\ perm' = [perm EXCEPT ![p][va] = f, ![c][va] = f]
           /\ pc' = [pc EXCEPT ![p] = "forkinc"] /\ UNCHANGED job
  <2>1. TypeOK'
    BY <1>2, <1>5, <1>9, Zenon DEF TypeOK
  <2>2. /\ pc'[p] = "forkinc" /\ \A q \in Proc : q # p => pc'[q] = pc[q]
        /\ job' = job /\ pa'[c][va] = o
        /\ \A q \in Proc, vb \in VA : ~(q = c /\ vb = va) => pa'[q][vb] = pa[q][vb]
        /\ perm'[c][va] = f /\ perm'[p][va] = f
        /\ \A q \in Proc, vb \in VA : ~(q \in {p, c} /\ vb = va) => perm'[q][vb] = perm[q][vb]
        /\ \A q \in Proc : q \notin {p, c} => perm'[q] = perm[q]
    BY <1>3, <1>5, <1>9, Zenon DEF TypeOK
  <2>3. \A q \in Proc, k \in 0..Old :
           page(q, k)' = IF q = c /\ k = va THEN o ELSE page(q, k)
    <3> TAKE q \in Proc, k \in 0..Old
    <3>1. CASE k \in VA
      BY <2>2, <3>1, Pages
    <3>2. CASE k = New \/ k = Old
      BY <1>2, <3>2, Pages, Places
    <3> QED
      BY <3>1, <3>2, Places, Zenon
  <2>4. \A q \in Proc, k \in 0..Old : pending(q, k)' <=> pending(q, k) \/ (q = c /\ k = va)
    BY <1>1, <1>2, <1>3, <1>4, <2>2 DEF pending
  <2>5. Jobs' /\ Locals'
    <3>1. JobOK(p)'
      <4>1. JobOK(p)
        BY Zenon DEF Jobs
      <4> QED
        BY <1>1, <1>2, <1>3, <2>2, <4>1, Zenon DEF JobOK, Allocating, Growing, Working
    <3>2. \A q \in Proc : q # p => JobOK(q)'
      BY <1>2, <2>2, JobFrames, Zenon
    <3>3. \A q \in Proc : Working(q)' <=> Working(q)
      BY <1>2, <2>2, Zenon DEF Working
    <3>4. Jobs'
      BY <2>2, <3>1, <3>2, <3>3, Zenon DEF Jobs
    <3>5. Locals'
      BY <1>2, <2>2, Zenon DEF Locals
    <3> QED
      BY <3>4, <3>5, Zenon
  <2>6. Maps'
    <3>1. \A q \in Proc, vb \in VA : perm'[q][vb] # "R" => pa'[q][vb] # None
      BY <1>3, <1>5, <2>2, Consts DEF Maps, MapOK
    <3>2. ASSUME NEW q \in Proc, q # p, q # c, NEW vb \in VA PROVE MapOK(q, vb)'
      <4>1. Working(q) => job[q].peer # c /\ job[q].peer \in Proc
        BY <1>1, <1>2, <3>2, JobType, Zenon DEF Jobs, Working
      <4> QED
        BY <1>2, <2>2, <3>2, <4>1, MapFrame, Zenon
    <3>3. ASSUME NEW vb \in VA PROVE MapOK(c, vb)'
      BY <1>3, <2>2, <3>1, Zenon DEF MapOK
    <3>4. ASSUME NEW vb \in VA PROVE MapOK(p, vb)'
      <4>1. MapOK(p, vb)
        BY Zenon DEF Maps
      <4>2. pa[c][vb] = IF vb < va THEN pa[p][vb] ELSE None
        BY <1>1, <1>2, <1>4, <4>1, Zenon DEF MapOK
      <4>3. pa'[c][vb] = IF vb <= va THEN pa[p][vb] ELSE None
        BY <1>5, <2>2, <4>2, Consts DEF VA
      <4>4. pa'[p][vb] = pa[p][vb] /\ (Valid(p, vb)' <=> Valid(p, vb))
        BY <1>2, <1>3, <2>2, Zenon DEF Valid, Growing, Allocating
      <4> QED
        BY <1>1, <1>2, <1>4, <2>2, <3>1, <4>1, <4>3, <4>4, Zenon DEF MapOK
    <3> QED
      BY <3>2, <3>3, <3>4, Zenon DEF Maps
  <2>7. Private'
    <3>1. \A q \in Proc, k \in 0..Old : Only(q, k) /\ ~(q = p /\ k = va) /\ ~(q = c /\ k = va)
                                          => Only(q, k)'
      BY <1>8, <2>3, Places DEF Only
    <3>2. \A q \in Proc : pc'[q] \in {"incpgrc", "use"} => Only(q, New)'
      BY <1>2, <2>2, <3>1, Places, Zenon DEF Private
    <3>3. \A q \in Proc, vb \in VA : perm'[q][vb] = "W" => Only(q, vb)'
      BY <2>2, <3>1, Places DEF Private
    <3>4. \A q \in Proc : pc'[q] \in {"kfree", "put"} => perm'[q][job'[q].cur] = "W"
      BY <1>2, <1>3, <2>2 DEF Private
    <3> QED
      BY <3>2, <3>3, <3>4, Zenon DEF Private
  <2>8. Counts'
    <3>1. \A h \in Page : \A q \in Proc, k \in 0..Old : counts(q, k, h)' <=> counts(q, k, h)
      BY <1>8, <2>3, <2>4, Consts, Zenon DEF counts
    <3>2. \A h \in Page : Counted(h)' = Counted(h)
      BY <3>1, CountKept, Zenon
    <3>3. \A h \in Page : (\E q \in Proc, k \in 0..Old : page(q, k)' = h)
                           <=> (\E q \in Proc, k \in 0..Old : page(q, k) = h)
      BY <1>8, <2>3, Consts, Places
    <3> QED
      BY <1>2, <3>2, <3>3 DEF Counts
  <2>9. Contents'
    <3>1. mem[o] \in Val
      BY <1>5, Consts, Zenon DEF Contents
    <3>2. \A q \in Proc : Growing(q)' => Growing(q) /\ q # p /\ q # c
      BY <1>7, <2>2, Zenon DEF Growing, Allocating
    <3>3. \A q \in Proc, vb \in VA : pa'[q][vb] # None => mem[pa'[q][vb]] \in Val
      BY <2>2, <3>1 DEF Contents
    <3>4. \A q \in Proc, vb \in VA : q # p /\ q # c => pa'[q][vb] = pa[q][vb] /\ perm'[q][vb] = perm[q][vb]
      BY <2>2, Zenon
    <3> QED
      BY <1>2, <2>2, <3>2, <3>3, <3>4 DEF Contents
  <2> QED
    BY <2>1, <2>5, <2>6, <2>7, <2>8, <2>9, Zenon
<1>10. CASE perm' = [perm EXCEPT ![p][va] = f] /\ uvmunmap(p, c, 0, va, 0) /\ UNCHANGED pa
  <2> DEFINE j == job_of("none", c, 0, va, 0)
  <2>1. j \in Job /\ j.peer = c /\ j.cur = 0 /\ j.lim = va /\ j.size = 0
    BY Consts DEF job_of, Job, VA
  <2>2. pc' = [pc EXCEPT ![p] = "unmap"] /\ job' = [job EXCEPT ![p] = j]
    BY <1>10, Zenon DEF uvmunmap
  <2> HIDE DEF j
  <2>3. TypeOK'
    BY <1>2, <1>10, <2>1, <2>2, Zenon DEF TypeOK
  <2>4. /\ pc'[p] = "unmap" /\ \A q \in Proc : q # p => pc'[q] = pc[q]
        /\ job'[p] = j /\ \A q \in Proc : q # p => job'[q] = job[q]
        /\ pa' = pa /\ perm'[p][va] = f
        /\ \A q \in Proc, vb \in VA : ~(q = p /\ vb = va) => perm'[q][vb] = perm[q][vb]
        /\ \A q \in Proc : q # p => perm'[q] = perm[q]
    BY <1>10, <2>2, Zenon DEF TypeOK
  <2>5. Jobs'
    <3>1. JobOK(p)'
      <4>1. JobOK(p)
        BY DEF Jobs
      <4> QED
        BY <1>2, <1>3, <2>1, <2>4, <4>1 DEF JobOK, Allocating, Growing, Working, VA
    <3>2. \A q \in Proc : q # p => JobOK(q)'
      BY <1>2, <2>4, JobFrames, Zenon
    <3>3. \A q \in Proc : Working(q)' <=> Working(q)
      BY <1>2, <2>4, Zenon DEF Working
    <3>4. \A q \in Proc : job'[q].peer = job[q].peer
      BY <1>1, <2>1, <2>4, Zenon
    <3> QED
      BY <3>1, <3>2, <3>3, <3>4, Zenon DEF Jobs
  <2>6. Locals'
    BY <1>2, <2>4, Zenon DEF Locals
  <2>7. Maps'
    <3>1. \A q \in Proc, vb \in VA : perm'[q][vb] # "R" => pa[q][vb] # None
      BY <1>5, <2>4, Consts DEF Maps, MapOK
    <3>2. ASSUME NEW q \in Proc, q # p, NEW vb \in VA PROVE MapOK(q, vb)'
      BY <1>2, <2>4, <3>2, MapFrame, Zenon
    <3>3. ASSUME NEW vb \in VA PROVE MapOK(p, vb)'
      <4>1. MapOK(p, vb)
        BY DEF Maps
      <4>2. pa[c][vb] = IF vb < va THEN pa[p][vb] ELSE None
        BY <1>1, <1>2, <1>4, <4>1 DEF MapOK
      <4>3. pa[c][vb] # None <=> 0 <= vb /\ vb < va
        BY <1>2, <1>4, <4>1, <4>2 DEF MapOK, Valid, Growing, Allocating, VA, TypeOK
      <4>4. Valid(p, vb)' <=> Valid(p, vb)
        BY <1>2, <1>3, <2>1, <2>4, Zenon DEF Valid, Growing, Allocating
      <4> QED
        BY <1>2, <2>1, <2>4, <3>1, <4>1, <4>3, <4>4, Zenon DEF MapOK
    <3> QED
      BY <3>2, <3>3, Zenon DEF Maps
  <2>8. Private'
    <3>1. \A q \in Proc, k \in 0..Old : Only(q, k) => Only(q, k)'
      BY <1>2, <2>4 DEF Only, page
    <3> QED
      BY <1>7, <2>4, <3>1, Places DEF Private
  <2>9. Counts'
    <3>1. \A q \in Proc, k \in 0..Old : pending(q, k)' <=> pending(q, k)
      BY <1>2, <2>4 DEF pending
    <3> QED
      BY <1>2, <2>4, <3>1, CountsKept, Zenon
  <2>10. Contents'
    <3>1. \A q \in Proc : Growing(q)' => Growing(q) /\ q # p
      BY <1>2, <2>4, Zenon DEF Growing, Allocating
    <3> QED
      BY <1>2, <2>4, <3>1 DEF Contents
  <2> QED
    BY <2>3, <2>5, <2>6, <2>7, <2>8, <2>9, <2>10, Zenon
<1> QED
  BY <1>1, <1>4, <1>6, <1>9, <1>10, Zenon DEF uvmcopy

\* The incpgrc() of uvmcopy() keeps the invariant.
LEMMA UvmcopyIncStep ==
    ASSUME Counting, CowInv, NEW p \in Proc, uvmcopy_inc(p)
    PROVE  CowInv'
<1> USE DEF CowInv
<1>1. PICK c \in Proc : c = job[p].peer
  BY JobType, Zenon
<1>2. pc[p] = "forkinc" /\ UNCHANGED <<freelist, mem, pa, perm, new, old, killed>>
  BY Zenon DEF uvmcopy_inc
<1>3. JobOK(p) /\ c # p /\ pc[c] = "locked" /\ job[p].cur < sz[p] /\ job[p].lim = sz[p]
      /\ 0 < sz[p]
  BY <1>1, <1>2, Zenon DEF Jobs, JobOK, Working
<1>4. sz[p] \in 0..NPage /\ job[p].cur \in 0..NPage
  BY JobType, Zenon DEF TypeOK
<1>5. PICK va \in VA : va = job[p].cur
  BY <1>3, <1>4, Consts DEF VA
<1>6. PICK g \in Page : g = pa[p][va] /\ g = pa[c][va]
  <2>1. pa[p][va] # None
    BY <1>2, <1>3, <1>5, Zenon DEF Maps, MapOK, Valid, Growing, Allocating
  <2>2. pa[c][va] = pa[p][va]
    BY <1>1, <1>2, <1>5 DEF Maps, MapOK, VA
  <2> QED
    BY <2>1, <2>2 DEF TypeOK
<1>7. pgrc' = [pgrc EXCEPT ![g] = @ + 1]
  BY <1>5, <1>6, Zenon DEF uvmcopy_inc, incpgrc
<1>8. /\ pc' \in [Proc -> PC] /\ job' \in [Proc -> Job] /\ sz' \in [Proc -> 0..NPage]
      /\ \A q \in Proc : q # p /\ q # c => pc'[q] = pc[q] /\ job'[q] = job[q] /\ sz'[q] = sz[q]
      /\ job'[c] = job[c] /\ sz'[p] = sz[p]
      /\ \/ /\ pc'[p] = "uvmcopy" /\ pc'[c] = "locked" /\ job'[p].peer = c
            /\ job'[p].cur = va + 1 /\ va + 1 < sz[p] /\ job'[p].lim = sz[p]
         \/ /\ pc'[p] = "user" /\ pc'[c] = "user" /\ job'[p] = NoJob(p) /\ NoJob(p).peer = p
            /\ sz'[c] = sz[p] /\ va + 1 = sz[p]
  <2>1. CASE job[p].cur + 1 < job[p].lim
    <3>1. pc' = [pc EXCEPT ![p] = "uvmcopy"] /\ job' = [job EXCEPT ![p].cur = @ + 1] /\ sz' = sz
      BY <2>1, Zenon DEF uvmcopy_inc
    <3>2. pc' \in [Proc -> PC] /\ pc'[p] = "uvmcopy" /\ \A q \in Proc : q # p => pc'[q] = pc[q]
      BY <3>1, Zenon DEF TypeOK, PC
    <3>3. job[p] \in Job /\ job[p].cur + 1 \in 0..NPage
      <4>1. job[p] \in Job
        BY Zenon DEF TypeOK
      <4> QED
        BY <1>3, <1>4, <2>1, <4>1, Consts, SMTT(30)
    <3>4. LET k == [job[p] EXCEPT !.cur = @ + 1]
          IN  k \in Job /\ k.cur = job[p].cur + 1 /\ k.peer = job[p].peer /\ k.lim = job[p].lim
      BY <3>3, Zenon DEF Job
    <3>5. /\ job' \in [Proc -> Job] /\ \A q \in Proc : q # p => job'[q] = job[q]
          /\ job'[p] = [job[p] EXCEPT !.cur = @ + 1]
      BY <3>1, <3>4, Zenon DEF TypeOK
    <3> QED
      BY <1>1, <1>3, <1>5, <2>1, <3>1, <3>2, <3>4, <3>5, Zenon DEF TypeOK
  <2>2. CASE ~(job[p].cur + 1 < job[p].lim)
    <3>1. /\ pc' = [pc EXCEPT ![p] = "user", ![c] = "user"] /\ sz' = [sz EXCEPT ![c] = sz[p]]
          /\ job' = [job EXCEPT ![p] = NoJob(p)]
      BY <1>1, <2>2, Zenon DEF uvmcopy_inc
    <3>2. NoJob(p) \in Job /\ NoJob(p).peer = p
      BY Consts DEF NoJob, job_of, Job
    <3>3. /\ pc' \in [Proc -> PC] /\ pc'[p] = "user" /\ pc'[c] = "user"
          /\ \A q \in Proc : q # p /\ q # c => pc'[q] = pc[q]
      BY <1>3, <3>1, Zenon DEF TypeOK, PC
    <3>4. /\ job' \in [Proc -> Job] /\ job'[p] = NoJob(p)
          /\ \A q \in Proc : q # p => job'[q] = job[q]
      BY <3>1, <3>2, Zenon DEF TypeOK
    <3>5. /\ sz' \in [Proc -> 0..NPage] /\ sz'[c] = sz[p]
          /\ \A q \in Proc : q # c => sz'[q] = sz[q]
      BY <1>4, <3>1, Zenon DEF TypeOK
    <3>6. va + 1 = sz[p]
      BY <1>3, <1>4, <1>5, <2>2
    <3> QED
      BY <1>3, <3>2, <3>3, <3>4, <3>5, <3>6, Zenon
  <2> QED
    BY <2>1, <2>2, Zenon
<1>9. TypeOK'
  <2>1. pgrc' \in [Page -> Nat]
    BY <1>7 DEF TypeOK
  <2> QED
    BY <1>2, <1>8, <2>1, Zenon DEF TypeOK, PC
<1>10. \A q \in Proc : q # p /\ Working(q) => q # c /\ job[q].peer # c
  BY <1>1, <1>2, <1>3, Zenon DEF Jobs, Working
<1>11. job[c] = NoJob(c) /\ NoJob(c).peer = c
  <2>1. job[c] = NoJob(c)
    BY <1>3, Zenon DEF Jobs, JobOK
  <2> QED
    BY <2>1, Zenon DEF NoJob, job_of
<1>12. Jobs'
  <2>1. JobOK(p)'
    BY <1>3, <1>4, <1>8, Zenon DEF JobOK, Allocating, Growing, Working
  <2>2. JobOK(c)'
    BY <1>3, <1>4, <1>8, <1>11, Zenon DEF JobOK, Allocating, Growing, Working
  <2>3. ASSUME NEW q \in Proc, q # p, q # c PROVE JobOK(q)'
    <3>1. Working(q) /\ job[q].peer # q => pc'[job[q].peer] = "locked"
      <4>1. Working(q) /\ job[q].peer # q =>
               pc[job[q].peer] = "locked" /\ job[q].peer \in Proc /\ job[q].peer # p
        BY <1>2, JobType, Zenon DEF Jobs, JobOK
      <4> QED
        BY <1>8, <1>10, <2>3, <4>1, Zenon
    <3> QED
      BY <1>8, <2>3, <3>1, JobFrame, Zenon
  <2>4. \A q \in Proc : Working(q)' => Working(q) /\ job'[q].peer = job[q].peer
    BY <1>1, <1>2, <1>3, <1>8, <1>10, Zenon DEF Working
  <2> QED
    BY <2>1, <2>2, <2>3, <2>4, Zenon DEF Jobs
<1>13. Locals'
  BY <1>2, <1>3, <1>8, Zenon DEF Locals
<1>14. Maps'
  <2>1. \A q \in Proc, vb \in VA : perm'[q][vb] # "R" => pa'[q][vb] # None
    BY <1>2, Zenon DEF Maps, MapOK
  <2>2. ASSUME NEW q \in Proc, q # p, q # c, NEW vb \in VA PROVE MapOK(q, vb)'
    BY <1>2, <1>8, <2>2, MapFrame, Zenon
  <2>3. \A vb \in VA : /\ pa[p][vb] # None <=> vb < sz[p]
                       /\ pa[c][vb] = IF vb <= va THEN pa[p][vb] ELSE None
    BY <1>1, <1>2, <1>5 DEF Maps, MapOK, Valid, Growing, Allocating
  <2>4. ASSUME NEW vb \in VA PROVE MapOK(p, vb)'
    <3>1. Valid(p, vb)' <=> vb < sz[p]
      BY <1>8, Zenon DEF Valid, Growing, Allocating
    <3>2. vb <= va <=> vb < va + 1
      BY DEF VA
    <3> QED
      BY <1>2, <1>8, <2>1, <2>3, <3>1, <3>2, Zenon DEF MapOK
  <2>5. ASSUME NEW vb \in VA PROVE MapOK(c, vb)'
    <3>1. pc'[c] = "user" => (Valid(c, vb)' <=> vb < sz[p])
      BY <1>3, <1>8, Zenon DEF Valid, Growing, Allocating
    <3>2. vb <= va <=> vb < va + 1
      BY DEF VA
    <3> QED
      BY <1>2, <1>3, <1>8, <2>1, <2>3, <3>1, <3>2, Zenon DEF MapOK
  <2> QED
    BY <2>2, <2>4, <2>5, Zenon DEF Maps
<1>15. \A q \in Proc, k \in 0..Old : page(q, k)' = page(q, k)
  BY <1>2, Zenon DEF page
<1>16. Private'
  <2>1. \A q \in Proc, k \in 0..Old : Only(q, k) => Only(q, k)'
    BY <1>15 DEF Only
  <2>2. \A q \in Proc : pc'[q] \in {"incpgrc", "use", "kfree", "put"} =>
                           pc'[q] = pc[q] /\ job'[q] = job[q]
    BY <1>8, Zenon
  <2> QED
    BY <1>2, <2>1, <2>2, Places, Zenon DEF Private
<1>17. \A q \in Proc, k \in 0..Old : pending(q, k)' <=> pending(q, k) /\ ~(q = c /\ k = va)
  <2>1. \A q \in Proc : pc'[q] = "forkinc" <=> pc[q] = "forkinc" /\ q # p
    BY <1>3, <1>8, Zenon
  <2>2. \A q \in Proc : pc'[q] = "incpgrc" <=> pc[q] = "incpgrc"
    BY <1>2, <1>3, <1>8, Zenon
  <2>3. \A q \in Proc : pc[q] = "forkinc" /\ q # p => q # c /\ job[q].peer # c /\ job'[q] = job[q]
    BY <1>8, <1>10, Zenon DEF Working
  <2> QED
    BY <1>1, <1>2, <1>3, <1>5, <2>1, <2>2, <2>3 DEF pending
<1>18. Counts'
  <2>1. page(c, va) = g /\ pending(c, va)
    BY <1>1, <1>2, <1>5, <1>6, Pages, Zenon DEF pending
  <2>2. \A h \in Page : h # g =>
           \A q \in Proc, k \in 0..Old : counts(q, k, h)' <=> counts(q, k, h)
    BY <1>15, <1>17, <2>1, Zenon DEF counts
  <2>3. \A h \in Page : h # g => Counted(h)' = Counted(h)
    BY <2>2, CountKept, Zenon
  <2>4. /\ ~counts(c, va, g)
        /\ \A q \in Proc, k \in 0..Old :
              counts(q, k, g)' <=> counts(q, k, g) \/ (q = c /\ k = va)
    BY <1>15, <1>17, <2>1, Zenon DEF counts
  <2>5. Cardinality(Counted(g))' = Cardinality(Counted(g)) + 1
    BY <2>4, CountUp, Places, Zenon
  <2> QED
    BY <1>2, <1>7, <1>15, <2>3, <2>5 DEF Counts, TypeOK
<1>19. Contents'
  <2>1. \A q \in Proc : Growing(q)' => Growing(q) /\ job'[q] = job[q] /\ sz'[q] = sz[q]
    BY <1>8, Zenon DEF Growing, Allocating
  <2> QED
    BY <1>2, <2>1, Zenon DEF Contents
<1> QED
  BY <1>9, <1>12, <1>13, <1>14, <1>16, <1>18, <1>19, Zenon

\* One iteration of uvmalloc() keeps the invariant.
LEMMA GrowMapStep ==
    ASSUME Counting, CowInv, NEW p \in Proc, grow_map(p)
    PROVE  CowInv'
<1> USE DEF CowInv
<1>1. pc[p] = "use" /\ job[p].why = "grow" /\ UNCHANGED <<freelist, pgrc, old, killed>>
  BY Zenon DEF grow_map
<1>2. Growing(p) /\ sz[p] <= job[p].cur /\ job[p].cur < job[p].lim /\ job[p].peer = p /\ 0 < sz[p]
  BY <1>1, Zenon DEF Jobs, JobOK, Growing, Allocating
<1>3. sz[p] \in 0..NPage /\ job[p].cur \in 0..NPage /\ job[p].lim \in 0..NPage
  BY JobType, Zenon DEF TypeOK
<1>4. PICK va \in VA : va = job[p].cur
  BY <1>2, <1>3, Consts DEF VA
<1>5. PICK g \in Page : g = new[p]
  BY <1>1, Zenon DEF Locals
<1>6. /\ mem' = [mem EXCEPT ![g] = Zero] /\ pa' = [pa EXCEPT ![p][va] = g]
      /\ perm' = [perm EXCEPT ![p][va] = "W"] /\ new' = [new EXCEPT ![p] = None]
  BY <1>4, <1>5, Zenon DEF grow_map
<1>7. /\ new'[p] = None /\ \A q \in Proc : q # p => new'[q] = new[q]
      /\ pa'[p][va] = g /\ \A q \in Proc, vb \in VA : ~(q = p /\ vb = va) => pa'[q][vb] = pa[q][vb]
      /\ perm'[p][va] = "W"
      /\ \A q \in Proc, vb \in VA : ~(q = p /\ vb = va) => perm'[q][vb] = perm[q][vb]
      /\ \A q \in Proc : q # p => perm'[q] = perm[q]
      /\ mem'[g] = Zero /\ \A h \in Page : h # g => mem'[h] = mem[h]
  BY <1>6, Zenon DEF TypeOK
<1>8. /\ pc' \in [Proc -> PC] /\ job' \in [Proc -> Job] /\ sz' \in [Proc -> 0..NPage]
      /\ \A q \in Proc : q # p => pc'[q] = pc[q] /\ job'[q] = job[q] /\ sz'[q] = sz[q]
      /\ \/ /\ pc'[p] = "kalloc" /\ sz'[p] = sz[p]
            /\ job'[p].peer = p /\ job'[p].why = "grow" /\ job'[p].cur = va + 1
            /\ job'[p].lim = job[p].lim /\ va + 1 < job[p].lim
         \/ /\ pc'[p] = "user" /\ job'[p] = NoJob(p) /\ NoJob(p).peer = p
            /\ sz'[p] = va + 1
  <2>1. CASE job[p].cur + 1 < job[p].lim
    <3>1. pc' = [pc EXCEPT ![p] = "kalloc"] /\ job' = [job EXCEPT ![p].cur = @ + 1] /\ sz' = sz
      BY <2>1, Zenon DEF grow_map
    <3>2. pc' \in [Proc -> PC] /\ pc'[p] = "kalloc" /\ \A q \in Proc : q # p => pc'[q] = pc[q]
      BY <3>1, Zenon DEF TypeOK, PC
    <3>3. job[p] \in Job /\ job[p].cur + 1 \in 0..NPage
      <4>1. job[p] \in Job
        BY Zenon DEF TypeOK
      <4> QED
        BY <1>3, <2>1, <4>1, Consts
    <3>4. LET k == [job[p] EXCEPT !.cur = @ + 1]
          IN  k \in Job /\ k.cur = job[p].cur + 1 /\ k.why = job[p].why /\ k.peer = job[p].peer
                /\ k.lim = job[p].lim
      BY <3>3, Zenon DEF Job
    <3>5. /\ job' \in [Proc -> Job] /\ \A q \in Proc : q # p => job'[q] = job[q]
          /\ job'[p] = [job[p] EXCEPT !.cur = @ + 1]
      BY <3>1, <3>4, Zenon DEF TypeOK
    <3> QED
      BY <1>1, <1>2, <1>4, <2>1, <3>1, <3>2, <3>4, <3>5, Zenon DEF TypeOK
  <2>2. CASE ~(job[p].cur + 1 < job[p].lim)
    <3>1. /\ pc' = [pc EXCEPT ![p] = "user"] /\ job' = [job EXCEPT ![p] = NoJob(p)]
          /\ sz' = [sz EXCEPT ![p] = job[p].lim]
      BY <2>2, Zenon DEF grow_map, Return
    <3>2. NoJob(p) \in Job /\ NoJob(p).peer = p
      BY Consts DEF NoJob, job_of, Job
    <3>3. pc' \in [Proc -> PC] /\ pc'[p] = "user" /\ \A q \in Proc : q # p => pc'[q] = pc[q]
      BY <3>1, Zenon DEF TypeOK, PC
    <3>4. /\ job' \in [Proc -> Job] /\ job'[p] = NoJob(p)
          /\ \A q \in Proc : q # p => job'[q] = job[q]
      BY <3>1, <3>2, Zenon DEF TypeOK
    <3>5. /\ sz' \in [Proc -> 0..NPage] /\ sz'[p] = job[p].lim
          /\ \A q \in Proc : q # p => sz'[q] = sz[q]
      BY <1>3, <3>1, Zenon DEF TypeOK
    <3>6. job[p].lim = va + 1
      BY <1>2, <1>3, <1>4, <2>2
    <3> QED
      BY <3>2, <3>3, <3>4, <3>5, <3>6, Zenon
  <2> QED
    BY <2>1, <2>2, Zenon
<1>9. TypeOK'
  <2>1. /\ mem' \in [Page -> Val \cup {Junk}] /\ new' \in [Proc -> Page \cup {None}]
        /\ pa' \in [Proc -> [VA -> Page \cup {None}]]
        /\ perm' \in [Proc -> [VA -> {"R", "W", "C"}]]
    BY <1>6, Consts, Zenon DEF TypeOK
  <2> QED
    BY <1>1, <1>8, <2>1, Zenon DEF TypeOK, PC
<1>10. Jobs'
  <2>1. JobOK(p)'
    <3>1. /\ job[p].cur = va /\ sz[p] <= va + 1 /\ 0 < va + 1
      BY <1>2, <1>3, <1>4
    <3>2. CASE pc'[p] = "user"
      BY <1>8, <3>1, <3>2, Zenon DEF JobOK, Allocating, Growing, Working
    <3>3. CASE pc'[p] = "kalloc"
      BY <1>2, <1>8, <3>1, <3>3, Zenon DEF JobOK, Allocating, Growing, Working
    <3> QED
      BY <1>8, <3>2, <3>3, Zenon
  <2>2. \A q \in Proc : q # p => JobOK(q)'
    BY <1>1, <1>8, JobFrames, Zenon
  <2>3. \A q \in Proc : Working(q)' => Working(q) /\ q # p
    BY <1>1, <1>8, Zenon DEF Working
  <2> QED
    BY <1>8, <2>1, <2>2, <2>3, JobsKept, Zenon
<1>11. Locals'
  BY <1>1, <1>7, <1>8, Consts, ZenonT(30) DEF Locals
<1>13. pa[p][va] = None
  <2>1. MapOK(p, va)
    BY Zenon DEF Maps
  <2>2. ~Valid(p, va)
    <3>1. ~(va < job[p].cur)
      BY <1>3, <1>4
    <3> QED
      BY <1>1, <1>2, <3>1, Zenon DEF Valid
  <2> QED
    BY <1>1, <2>1, <2>2, Zenon DEF MapOK
<1>14. Maps'
  <2>1. \A q \in Proc, vb \in VA : perm'[q][vb] # "R" => pa'[q][vb] # None
    BY <1>7, Consts DEF Maps, MapOK
  <2>2. ASSUME NEW q \in Proc, q # p, NEW vb \in VA PROVE MapOK(q, vb)'
    <3>1. Working(q) => job[q].peer # p /\ job[q].peer \in Proc
      BY <1>1, <2>2, JobType, Zenon DEF Jobs, JobOK, Working
    <3> QED
      BY <1>7, <1>8, <2>2, <3>1, MapFrame, Zenon
  <2>3. ASSUME NEW vb \in VA PROVE MapOK(p, vb)'
    <3>1. pa[p][vb] # None <=> vb < va
      BY <1>1, <1>2, <1>4, ZenonT(30) DEF Maps, MapOK, Valid
    <3>2. pa'[p][vb] # None <=> vb < va + 1
      <4>1. vb < va + 1 <=> vb < va \/ vb = va
        BY DEF VA
      <4>2. CASE vb = va
        BY <1>7, <4>1, <4>2, Consts, Zenon
      <4>3. CASE vb # va
        BY <1>7, <3>1, <4>1, <4>3, Zenon
      <4> QED
        BY <4>2, <4>3, Zenon
    <3>3. pa'[p][vb] # None <=> Valid(p, vb)'
      BY <1>8, <3>2, Zenon DEF Valid, Growing, Allocating
    <3> QED
      BY <1>8, <2>1, <3>3, Zenon DEF MapOK
  <2> QED
    BY <2>2, <2>3, Zenon DEF Maps
<1>15. Only(p, New) /\ page(p, New) = g /\ page(p, va) = None
  <2>1. Only(p, New)
    BY <1>1, Zenon DEF Private
  <2> QED
    BY <1>5, <1>13, <2>1, Pages, Zenon
<1>16. \A q \in Proc, k \in 0..Old :
          page(q, k)' = IF q = p /\ k = New THEN None
                        ELSE IF q = p /\ k = va THEN g ELSE page(q, k)
  <2> TAKE q \in Proc, k \in 0..Old
  <2>1. CASE k = New
    BY <1>7, <2>1, Pages, Places
  <2>2. CASE k = Old
    BY <1>1, <2>2, Pages, Places, Zenon
  <2>3. CASE k \in VA
    BY <1>7, <2>3, Pages, Places
  <2> QED
    BY <2>1, <2>2, <2>3, Places, Zenon
<1>17. \A q \in Proc, k \in 0..Old : pending(q, k)' <=> pending(q, k)
  BY <1>1, <1>8 DEF pending
<1>18. Private'
  <2>1. Only(p, va)'
    BY <1>15, <1>16, Consts, Places DEF Only
  <2>2. \A q \in Proc, k \in 0..Old :
           Only(q, k) /\ q # p /\ page(q, k) \in Page => Only(q, k)'
    BY <1>15, <1>16, Consts, Places DEF Only
  <2>3. \A k \in VA : Only(p, k) /\ k # va /\ page(p, k) \in Page => Only(p, k)'
    BY <1>15, <1>16, Consts, Places DEF Only
  <2>4. \A q \in Proc : q # p /\ pc[q] \in {"incpgrc", "use"} => page(q, New) \in Page
    BY Pages, Zenon DEF Locals
  <2>5. \A q \in Proc, vb \in VA : perm[q][vb] = "W" => page(q, vb) \in Page
    BY Writable, Zenon
  <2>6. \A q \in Proc : pc'[q] \in {"incpgrc", "use"} => Only(q, New)'
    BY <1>8, <2>2, <2>4, Places, Zenon DEF Private
  <2>7. \A q \in Proc, vb \in VA : perm'[q][vb] = "W" => Only(q, vb)'
    BY <1>7, <2>1, <2>2, <2>3, <2>5, Places DEF Private
  <2>8. \A q \in Proc : pc'[q] \in {"kfree", "put"} => perm'[q][job'[q].cur] = "W"
    BY <1>7, <1>8, SMTT(30) DEF Private
  <2> QED
    BY <2>6, <2>7, <2>8, Zenon DEF Private
<1>19. Counts'
  <2>1. \A k : ~pending(p, k)
    BY <1>1, NotPending, Zenon
  <2>2. \A h \in Page : h # g =>
           \A q \in Proc, k \in 0..Old : counts(q, k, h)' <=> counts(q, k, h)
    BY <1>15, <1>16, <1>17, Consts, Zenon DEF counts
  <2>3. \A h \in Page : h # g => Counted(h)' = Counted(h)
    BY <2>2, CountKept, Zenon
  <2>4. /\ counts(p, New, g) /\ ~counts(p, va, g)
        /\ \A q \in Proc, k \in 0..Old :
             counts(q, k, g)' <=> \/ counts(q, k, g) /\ ~(q = p /\ k = New)
                                  \/ q = p /\ k = va
    BY <1>15, <1>16, <1>17, <2>1, Consts, Places, Zenon DEF counts
  <2>5. Cardinality(Counted(g))' = Cardinality(Counted(g))
    BY <2>4, CountMoved, Places
  <2>6. \A h \in Page : (\E q \in Proc, k \in 0..Old : page(q, k)' = h)
                         <=> (\E q \in Proc, k \in 0..Old : page(q, k) = h)
    BY <1>15, <1>16, Consts, Places
  <2> QED
    BY <1>1, <2>3, <2>5, <2>6 DEF Counts
<1>20. Contents'
  <2>1. \A q \in Proc, vb \in VA : pa[q][vb] # g
    BY <1>15, Pages, Places, SMTT(30) DEF Only
  <2>2. \A q \in Proc, vb \in VA : ~(q = p /\ vb = va) /\ pa[q][vb] # None =>
                                      mem'[pa'[q][vb]] = mem[pa[q][vb]]
    BY <1>7, <2>1, SMTT(30) DEF TypeOK
  <2>3. mem'[pa'[p][va]] = Zero /\ Zero \in Val
    BY <1>7, Consts, Zenon
  <2>4. \A q \in Proc, vb \in VA : perm[q][vb] = "W" => pa[q][vb] # None
    BY Writable, Consts, Zenon
  <2>5. \A q \in Proc, vb \in VA : pa'[q][vb] # None => mem'[pa'[q][vb]] \in Val
    BY <1>7, <2>2, <2>3 DEF Contents
  <2>6. ASSUME NEW q \in Proc, q # p, Growing(q)', NEW vb \in VA, sz'[q] <= vb, vb < job'[q].cur
        PROVE  perm'[q][vb] = "W" /\ mem'[pa'[q][vb]] = Zero
    <3>1. Growing(q) /\ sz'[q] = sz[q] /\ job'[q] = job[q]
      BY <1>8, <2>6, Zenon DEF Growing, Allocating
    <3> QED
      <4>1. perm[q][vb] = "W" /\ mem[pa[q][vb]] = Zero
        BY <2>6, <3>1, Zenon DEF Contents
      <4> QED
        BY <1>7, <2>2, <2>4, <2>6, <4>1, Zenon
  <2>7. ASSUME Growing(p)', NEW vb \in VA, sz'[p] <= vb, vb < job'[p].cur
        PROVE  perm'[p][vb] = "W" /\ mem'[pa'[p][vb]] = Zero
    <3>1. sz'[p] = sz[p] /\ job'[p].cur = va + 1
      BY <1>8, <2>7, Zenon DEF Growing, Allocating
    <3>2. CASE vb = va
      BY <1>7, <2>3, <3>2, Zenon
    <3>3. CASE vb # va
      <4>1. vb < va
        BY <2>7, <3>1, <3>3 DEF VA
      <4> QED
        BY <1>2, <1>4, <1>7, <2>2, <2>4, <2>7, <3>1, <3>3, <4>1, SMTT(30) DEF Contents
    <3> QED
      BY <3>2, <3>3, Zenon
  <2> QED
    BY <2>5, <2>6, <2>7, Zenon DEF Contents
<1> QED
  BY <1>9, <1>10, <1>11, <1>14, <1>18, <1>19, <1>20, Zenon

\* mappages() failing in uvmalloc() keeps the invariant.
LEMMA GrowFailsStep ==
    ASSUME Counting, CowInv, NEW p \in Proc, grow_fails(p)
    PROVE  CowInv'
<1> USE DEF CowInv
<1>1. /\ pc[p] = "use" /\ job[p].why = "grow" /\ kfree(new[p])
      /\ new' = [new EXCEPT ![p] = None] /\ uvmunmap(p, p, sz[p], job[p].cur, sz[p])
      /\ UNCHANGED <<pa, perm, sz, old, killed>>
  BY Zenon DEF grow_fails
<1>2. Growing(p) /\ sz[p] \in 0..NPage /\ job[p].cur \in 0..NPage
  BY <1>1, JobType, Zenon DEF TypeOK, Growing, Allocating
<1>3. /\ pc' \in [Proc -> PC] /\ job' \in [Proc -> Job] /\ Jobs' /\ Maps'
      /\ pc'[p] = "unmap" /\ \A q \in Proc : q # p => pc'[q] = pc[q] /\ job'[q] = job[q]
  BY <1>1, <1>2, Unmaps, Zenon
<1>4. PICK g \in Page : g = new[p]
  BY <1>1, Zenon DEF Locals
<1>5. new'[p] = None /\ \A q \in Proc : q # p => new'[q] = new[q]
  BY <1>1, Zenon DEF TypeOK
<1>6. page(p, New) = g /\ \A q \in Proc, k \in 0..Old :
         page(q, k)' = IF q = p /\ k = New THEN None ELSE page(q, k)
  BY <1>1, <1>4, <1>5, Places, Zenon DEF page
<1>7. \A q \in Proc, k \in 0..Old : pending(q, k)' <=> pending(q, k)
  BY <1>1, <1>3, Zenon DEF pending
<1>8. ~pending(p, New)
  BY <1>1, NotPending, Zenon
<1>9. /\ Counts' /\ pgrc' \in [Page -> Nat] /\ freelist' \subseteq Page
      /\ mem' \in [Page -> Val \cup {Junk}]
      /\ \A q \in Proc, k \in 0..Old : page(q, k)' \in Page =>
                                          mem'[page(q, k)'] = mem[page(q, k)']
  BY <1>1, <1>4, <1>6, <1>7, <1>8, Places, Freed, Zenon
<1>10. TypeOK'
  <2>1. new' \in [Proc -> Page \cup {None}]
    BY <1>1, Zenon DEF TypeOK
  <2> QED
    BY <1>1, <1>3, <1>9, <2>1, Zenon DEF TypeOK, PC
<1>11. Locals'
  BY <1>1, <1>3, <1>5, Consts DEF Locals
<1>12. Private'
  <2>1. \A q \in Proc, k \in 0..Old :
           Only(q, k) /\ page(q, k) \in Page /\ ~(q = p /\ k = New) => Only(q, k)'
    BY <1>6, Consts DEF Only
  <2>2. \A q \in Proc : pc[q] \in {"incpgrc", "use"} => page(q, New) \in Page
    BY Pages, Zenon DEF Locals
  <2>3. \A q \in Proc, vb \in VA : perm[q][vb] = "W" => page(q, vb) \in Page
    BY Writable, Zenon
  <2>4. \A q \in Proc : pc'[q] \in {"incpgrc", "use"} => Only(q, New)'
    BY <1>3, <2>1, <2>2, Places, Zenon DEF Private
  <2>5. \A q \in Proc, vb \in VA : perm'[q][vb] = "W" => Only(q, vb)'
    BY <1>1, <2>1, <2>3, Places, Zenon DEF Private
  <2>6. \A q \in Proc : pc'[q] \in {"kfree", "put"} => perm'[q][job'[q].cur] = "W"
    BY <1>1, <1>3, Zenon DEF Private
  <2> QED
    BY <2>4, <2>5, <2>6, Zenon DEF Private
<1>13. Contents'
  <2>1. \A q \in Proc, va \in VA : pa[q][va] # None => mem'[pa[q][va]] = mem[pa[q][va]]
    BY <1>1, <1>9, Pages, Places DEF TypeOK
  <2>2. \A q \in Proc : Growing(q)' => Growing(q) /\ job'[q] = job[q]
    BY <1>1, <1>3, Zenon DEF Growing, Allocating
  <2>3. \A q \in Proc, va \in VA : perm[q][va] = "W" => pa[q][va] # None
    BY Writable, Consts, Zenon
  <2> QED
    BY <1>1, <2>1, <2>2, <2>3, SMTT(30) DEF Contents
<1> QED
  BY <1>3, <1>9, <1>10, <1>11, <1>12, <1>13, Zenon

\* One iteration of uvmunmap() keeps the invariant.
LEMMA UnmapPageStep ==
    ASSUME Counting, CowInv, NEW p \in Proc, unmap_page(p)
    PROVE  CowInv'
<1> USE DEF CowInv
<1>1. PICK c \in Proc : c = job[p].peer
  BY JobType
<1>2. /\ pc[p] = "unmap" /\ job[p].cur < job[p].lim
      /\ kfree(pa[c][job[p].cur])
      /\ UNCHANGED <<sz, pc, new, old, killed>>
  BY <1>1, Zenon DEF unmap_page
<1>3. job[p].cur \in 0..NPage /\ job[p].lim \in 0..NPage /\ job[p].size \in 0..NPage
  BY JobType, Zenon
<1>4. PICK va \in VA : va = job[p].cur
  BY <1>2, <1>3, Consts DEF VA
<1>5. JobOK(p) /\ job[p].size <= va
  BY <1>2, <1>4, Zenon DEF Jobs, JobOK
<1>6. /\ pa' = [pa EXCEPT ![c][va] = None] /\ perm' = [perm EXCEPT ![c][va] = "R"]
      /\ job' = [job EXCEPT ![p].cur = @ + 1]
  BY <1>1, <1>4, Zenon DEF unmap_page
<1>7. /\ pa'[c][va] = None
      /\ \A q \in Proc, vb \in VA : ~(q = c /\ vb = va) => pa'[q][vb] = pa[q][vb]
      /\ perm'[c][va] = "R"
      /\ \A q \in Proc, vb \in VA : ~(q = c /\ vb = va) => perm'[q][vb] = perm[q][vb]
      /\ \A q \in Proc : q # c => perm'[q] = perm[q]
  BY <1>6, Zenon DEF TypeOK
<1>8. /\ job' \in [Proc -> Job] /\ \A q \in Proc : q # p => job'[q] = job[q]
      /\ job'[p].cur = va + 1 /\ job'[p].peer = c /\ job'[p].lim = job[p].lim
      /\ job'[p].size = job[p].size
  <2>1. job[p] \in Job /\ job[p].cur + 1 \in 0..NPage
    <3>1. job[p] \in Job
      BY Zenon DEF TypeOK
    <3>2. job[p].cur + 1 \in 0..NPage
      BY <1>2, <1>3, Consts
    <3> QED
      BY <3>1, <3>2, Zenon
  <2>2. LET k == [job[p] EXCEPT !.cur = @ + 1]
        IN  k \in Job /\ k.cur = job[p].cur + 1 /\ k.peer = job[p].peer
              /\ k.lim = job[p].lim /\ k.size = job[p].size
    BY <2>1, Zenon DEF Job
  <2>3. /\ job' \in [Proc -> Job] /\ \A q \in Proc : q # p => job'[q] = job[q]
        /\ job'[p] = [job[p] EXCEPT !.cur = @ + 1]
    BY <1>6, <2>2, Zenon DEF TypeOK
  <2> QED
    BY <1>1, <1>4, <2>2, <2>3, Zenon
<1>9. PICK g \in Page : g = pa[c][va]
  <2>1. pa[c][va] # None
    <3>1. MapOK(p, va)
      BY Zenon DEF Maps
    <3>2. va <= va /\ va < job[p].lim
      BY <1>2, <1>4 DEF VA
    <3>3. CASE c = p
      <4>1. Valid(p, va)
        BY <1>1, <1>2, <1>4, <3>2, <3>3, Zenon DEF Valid
      <4> QED
        BY <1>2, <3>1, <3>3, <4>1, Zenon DEF MapOK
    <3>4. CASE c # p
      BY <1>1, <1>2, <1>4, <3>1, <3>2, <3>4, Zenon DEF MapOK
    <3> QED
      BY <3>3, <3>4, Zenon
  <2> QED
    BY <2>1 DEF TypeOK
<1>10. pc[c] \in {"unmap", "locked"} /\ (pc[c] = "unmap" <=> c = p)
  BY <1>1, <1>2, <1>5, Zenon DEF JobOK, Working
<1>11. page(c, va) = g /\ \A q \in Proc, k \in 0..Old :
          page(q, k)' = IF q = c /\ k = va THEN None ELSE page(q, k)
  <2>1. page(c, va) = g
    BY <1>9, Pages, Zenon
  <2> SUFFICES ASSUME NEW q \in Proc, NEW k \in 0..Old
               PROVE  page(q, k)' = IF q = c /\ k = va THEN None ELSE page(q, k)
    BY <2>1, Zenon
  <2>2. CASE k \in VA
    BY <1>7, <2>2, Pages
  <2>3. CASE k = New \/ k = Old
    BY <1>2, <2>3, Pages, Places, Zenon
  <2> QED
    BY <2>2, <2>3, Places, Zenon
<1>12. \A q \in Proc, k \in 0..Old : pending(q, k)' <=> pending(q, k)
  BY <1>2, <1>8, Zenon DEF pending
<1>13. \A q \in Proc : q # p /\ Working(q) => job[q].peer # c /\ q # c
  BY <1>1, <1>2, <1>10, Zenon DEF Jobs, Working
<1>14. ~pending(c, va)
  <2>1. \A q \in Proc : pc[q] = "forkinc" => job[q].peer # c
    BY <1>2, <1>13, Zenon DEF Working
  <2> QED
    BY <1>10, <2>1, Zenon DEF pending
<1>15. /\ Counts' /\ pgrc' \in [Page -> Nat] /\ freelist' \subseteq Page
       /\ mem' \in [Page -> Val \cup {Junk}]
       /\ \A q \in Proc, k \in 0..Old : page(q, k)' \in Page =>
                                           mem'[page(q, k)'] = mem[page(q, k)']
  <2>1. kfree(g) /\ pc[c] # "forkinc" /\ va \in 0..Old
    BY <1>2, <1>4, <1>9, <1>10, Places, Zenon
  <2> QED
    BY <1>11, <1>12, <1>14, <2>1, Freed, Zenon
<1>16. TypeOK'
  <2>1. /\ pa' \in [Proc -> [VA -> Page \cup {None}]]
        /\ perm' \in [Proc -> [VA -> {"R", "W", "C"}]]
    BY <1>6, Zenon DEF TypeOK
  <2> QED
    BY <1>2, <1>8, <1>15, <2>1, Zenon DEF TypeOK
<1>17. Jobs' /\ Locals'
  <2>1. JobOK(p)'
    <3>1. /\ 0 < sz[p]
          /\ IF c = p THEN 0 < job[p].size /\ job[p].size <= sz[p] ELSE job[p].size = 0
      BY <1>1, <1>2, <1>5, Zenon DEF JobOK
    <3>2. job[p].size <= va + 1 /\ va + 1 <= job[p].lim
      BY <1>2, <1>3, <1>4, <1>5, SMTT(30)
    <3>3. c # p => pc[c] = "locked"
      BY <1>1, <1>2, <1>5, Zenon DEF JobOK, Working
    <3> QED
      BY <1>2, <1>8, <3>1, <3>2, <3>3, Zenon DEF JobOK, Allocating, Growing, Working
  <2>2. \A q \in Proc : q # p => JobOK(q)'
    BY <1>2, <1>8, JobFrames, Zenon
  <2>3. \A q \in Proc : Working(q)' => Working(q) /\ job'[q].peer = job[q].peer
    BY <1>1, <1>2, <1>8, Zenon DEF Working
  <2>4. Jobs'
    BY <2>1, <2>2, <2>3, JobsKept, Zenon
  <2>5. Locals'
    BY <1>2, Zenon DEF Locals
  <2> QED
    BY <2>4, <2>5, Zenon
<1>18. Maps'
  <2>1. \A q \in Proc, vb \in VA : perm'[q][vb] # "R" => pa'[q][vb] # None
    BY <1>7 DEF Maps, MapOK
  <2>2. ASSUME NEW q \in Proc, q # p, q # c, NEW vb \in VA PROVE MapOK(q, vb)'
    <3>1. Working(q) => job[q].peer # c /\ job[q].peer \in Proc
      BY <1>13, <2>2, JobType, Zenon
    <3> QED
      BY <1>2, <1>7, <1>8, <2>2, <3>1, MapFrame, Zenon
  <2>3. ASSUME c # p, NEW vb \in VA PROVE MapOK(c, vb)'
    BY <1>2, <1>10, <2>1, <2>3, Zenon DEF MapOK
  <2>4. ASSUME c # p, NEW vb \in VA PROVE MapOK(p, vb)'
    <3>1. MapOK(p, vb)
      BY Zenon DEF Maps
    <3>2. pa[c][vb] # None <=> va <= vb /\ vb < job[p].lim
      BY <1>1, <1>2, <1>4, <2>4, <3>1, Zenon DEF MapOK
    <3>3. pa'[c][vb] # None <=> va + 1 <= vb /\ vb < job[p].lim
      <4>1. va + 1 <= vb <=> va <= vb /\ vb # va
        BY DEF VA
      <4>2. CASE vb = va
        BY <1>7, <4>1, <4>2, Zenon
      <4>3. CASE vb # va
        BY <1>7, <3>2, <4>1, <4>3, Zenon
      <4> QED
        BY <4>2, <4>3, Zenon
    <3>4. Valid(p, vb)' <=> Valid(p, vb)
      BY <1>1, <1>2, <1>8, <2>4, Zenon DEF Valid, Growing, Allocating
    <3> QED
      BY <1>2, <1>7, <1>8, <2>1, <2>4, <3>1, <3>3, <3>4, Zenon DEF MapOK
  <2>5. ASSUME c = p, NEW vb \in VA PROVE MapOK(p, vb)'
    <3>1. MapOK(p, vb)
      BY DEF Maps
    <3>2. pa[p][vb] # None <=> vb < job[p].size \/ (va <= vb /\ vb < job[p].lim)
      BY <1>1, <1>2, <1>4, <2>5, <3>1, Zenon DEF MapOK, Valid
    <3>3. pa'[p][vb] # None <=> vb < job[p].size \/ (va + 1 <= vb /\ vb < job[p].lim)
      <4>1. (va + 1 <= vb <=> va <= vb /\ vb # va) /\ ~(va < job[p].size)
        BY <1>3, <1>5 DEF VA
      <4>2. CASE vb = va
        BY <1>7, <2>5, <4>1, <4>2, Zenon
      <4>3. CASE vb # va
        BY <1>7, <2>5, <3>2, <4>1, <4>3, Zenon
      <4> QED
        BY <4>2, <4>3, Zenon
    <3> QED
      BY <1>2, <1>8, <2>1, <2>5, <3>3, Zenon DEF MapOK, Valid
  <2> QED
    BY <2>2, <2>3, <2>4, <2>5, Zenon DEF Maps
<1>19. Private'
  <2>1. \A q \in Proc, k \in 0..Old :
           Only(q, k) /\ page(q, k) \in Page /\ ~(q = c /\ k = va) => Only(q, k)'
    BY <1>11, Consts DEF Only
  <2>2. \A q \in Proc : pc[q] \in {"incpgrc", "use"} => page(q, New) \in Page
    BY Pages, Zenon DEF Locals
  <2>3. \A q \in Proc, vb \in VA : perm[q][vb] = "W" => page(q, vb) \in Page
    BY Writable, Zenon
  <2>4. \A q \in Proc : pc[q] \in {"incpgrc", "use"} => Only(q, New)'
    BY <2>1, <2>2, Places, Zenon DEF Private
  <2>5. \A q \in Proc, vb \in VA : perm'[q][vb] = "W" => Only(q, vb)'
    <3> TAKE q \in Proc, vb \in VA
    <3>1. perm'[q][vb] = "W" => ~(q = c /\ vb = va) /\ perm[q][vb] = "W"
      BY <1>7, Zenon
    <3>2. perm[q][vb] = "W" => Only(q, vb)
      BY Zenon DEF Private
    <3> QED
      BY <2>1, <2>3, <3>1, <3>2, Places, Zenon
  <2>6. \A q \in Proc : pc[q] \in {"kfree", "put"} => perm'[q][job'[q].cur] = "W"
    BY <1>2, <1>7, <1>8, <1>10, ZenonT(30) DEF Private
  <2> QED
    BY <1>2, <2>4, <2>5, <2>6, Zenon DEF Private
<1>20. Contents'
  <2>1. \A q \in Proc, vb \in VA : pa'[q][vb] # None =>
           pa'[q][vb] = pa[q][vb] /\ mem'[pa'[q][vb]] = mem[pa[q][vb]]
    BY <1>7, <1>15, <1>16, Pages, Places, SMTT(30) DEF TypeOK
  <2>2. \A q \in Proc : Growing(q)' => Growing(q) /\ job'[q] = job[q] /\ q # c
    BY <1>2, <1>8, <1>10, Zenon DEF Growing, Allocating
  <2>3. \A q \in Proc, vb \in VA : perm'[q][vb] = "W" => pa'[q][vb] # None
    BY <1>18, Zenon DEF Maps, MapOK
  <2> QED
    <3>1. ASSUME NEW q \in Proc, NEW vb \in VA, pa'[q][vb] # None
          PROVE  mem'[pa'[q][vb]] \in Val
      <4>1. pa[q][vb] # None /\ mem'[pa'[q][vb]] = mem[pa[q][vb]]
        BY <2>1, <3>1, Zenon
      <4> QED
        BY <4>1, Zenon DEF Contents
    <3>2. ASSUME NEW q \in Proc, NEW vb \in VA,
                 Growing(q)', sz[q] <= vb, vb < job'[q].cur
          PROVE  perm'[q][vb] = "W" /\ mem'[pa'[q][vb]] = Zero
      <4>1. q # c /\ perm[q][vb] = "W" /\ mem[pa[q][vb]] = Zero
        BY <2>2, <3>2, Zenon DEF Contents
      <4>2. perm'[q][vb] = "W"
        BY <1>7, <4>1, Zenon
      <4> QED
        BY <2>1, <2>3, <4>1, <4>2, Zenon
    <3> QED
      BY <1>2, <3>1, <3>2, Zenon DEF Contents
<1> QED
  BY <1>15, <1>16, <1>17, <1>18, <1>19, <1>20, Zenon
-----------------------------------------------------------------------------
(***************************************************************************)
(* Each step as a step of EagerFork.                                       *)
(***************************************************************************)
\* What a program sees is mapped, allocated and holds what a program wrote.
LEMMA Seen ==
    ASSUME CowInv, NEW p \in Proc, Alive(p)
    PROVE  /\ Size(p) \in 1..NPage
           /\ \A va \in 0..(Size(p) - 1) :
                va \in VA /\ pa[p][va] \in Page \ freelist /\ mem[pa[p][va]] \in Val
<1> USE DEF CowInv
<1>1. pc[p] \notin {"unused", "locked"} /\ JobOK(p)
  BY Zenon DEF Alive, Jobs
<1>2. sz[p] \in 0..NPage /\ job[p].size \in 0..NPage /\ job[p].cur \in 0..NPage
  BY JobType, Zenon DEF TypeOK
<1>3. Size(p) \in 1..NPage
  BY <1>1, <1>2, Consts, SMTT(30) DEF Size, JobOK
<1>4. ASSUME NEW va \in 0..(Size(p) - 1)
      PROVE  va \in VA /\ pa[p][va] \in Page \ freelist /\ mem[pa[p][va]] \in Val
  <2>1. va \in VA
    BY <1>3, Consts DEF VA
  <2>2. Valid(p, va)
    BY <1>1, <1>2, SMTT(30) DEF Valid, Size, Growing, JobOK
  <2>3. pa[p][va] \in Page
    <3>1. MapOK(p, va) /\ pa[p][va] \in Page \cup {None}
      BY <2>1, Zenon DEF Maps, TypeOK
    <3> QED
      BY <1>1, <2>2, <3>1, Zenon DEF MapOK
  <2>4. page(p, va) = pa[p][va] /\ va \in 0..Old
    BY <2>1, Pages, Places, Zenon
  <2> QED
    BY <2>1, <2>3, <2>4, Consts, Zenon DEF Counts, Contents
<1> QED
  BY <1>3, <1>4, Zenon

\* The view of a process is kept when its size and the contents of its pages are.
LEMMA SameView ==
    ASSUME NEW p \in Proc, Size(p)' = Size(p),
           \A va \in 0..(Size(p) - 1) : mem'[pa'[p][va]] = mem[pa[p][va]]
    PROVE  View(p)' = View(p)
  BY Zenon DEF View

\* A step that changes nobody's view is a stuttering step of EagerFork.
LEMMA SameImage ==
    ASSUME \A p \in Proc :
             /\ Alive(p)' <=> Alive(p)
             /\ Alive(p) => /\ Size(p)' = Size(p)
                            /\ \A va \in 0..(Size(p) - 1) :
                                 mem'[pa'[p][va]] = mem[pa[p][va]]
    PROVE  image' = image
<1>1. \A p \in Proc : Alive(p) => View(p)' = View(p)
  BY SameView, Zenon
<1> QED
  BY <1>1, Zenon DEF image

\* A step that changes one view changes that component of the image.
LEMMA Changed ==
    ASSUME NEW p \in Proc, NEW v,
           \A q \in Proc : q # p => (Alive(q)' <=> Alive(q)),
           \A q \in Proc : q # p /\ Alive(q) => View(q)' = View(q),
           (IF Alive(p) THEN View(p) ELSE None)' = v
    PROVE  image' = [image EXCEPT ![p] = v]
  BY Zenon DEF image

\* The image of a process that runs is its view, and is not Dead.
LEMMA Imaged ==
    ASSUME CowInv, NEW p \in Proc, Alive(p)
    PROVE  image[p] = View(p) /\ View(p) # None /\ DOMAIN View(p) = 0..(Size(p) - 1)
           /\ View(p) \in [0..(Size(p) - 1) -> Val]
<1>1. View(p) \in [0..(Size(p) - 1) -> Val]
  BY Seen, Zenon DEF View
<1>2. Size(p) \in 0..NPage
  BY Seen, Consts
<1>3. View(p) # None
  BY <1>1, <1>2, CowAssumption, Zenon
<1> QED
  BY <1>1, <1>3, Zenon DEF image, View

\* A store to a page mapped with PTE_W is a Write of EagerFork: no other page
\* table holds that page.
LEMMA Written ==
    ASSUME CowInv, NEW p \in Proc, NEW va \in VA, NEW v \in Val, Alive(p), va < Size(p),
           perm[p][va] = "W", mem' = [mem EXCEPT ![pa[p][va]] = v], pa' = pa,
           \A q \in Proc : (Alive(q)' <=> Alive(q)) /\ Size(q)' = Size(q)
    PROVE  Eager!Next
<1>1. /\ pa[p][va] \in Page /\ va \in 0..(Size(p) - 1) /\ Size(p) \in 1..NPage
  BY Seen DEF VA
<1>2. mem'[pa[p][va]] = v /\ \A g \in Page : g # pa[p][va] => mem'[g] = mem[g]
  BY <1>1, Zenon DEF CowInv, TypeOK
<1>3. \A q \in Proc, vb \in VA : pa[q][vb] = pa[p][va] => q = p /\ vb = va
  <2>1. Only(p, va)
    BY Zenon DEF CowInv, Private
  <2> QED
    <3> TAKE q \in Proc, vb \in VA
    <3>1. page(q, vb) = pa[q][vb] /\ page(p, va) = pa[p][va] /\ vb \in 0..Old
      BY Places, Pages, Zenon
    <3> QED
      BY <2>1, <3>1, Zenon DEF Only
<1>4. \A q \in Proc : q # p /\ Alive(q) => View(q)' = View(q)
  <2> SUFFICES ASSUME NEW q \in Proc, q # p, Alive(q) PROVE View(q)' = View(q)
    BY Zenon
  <2>1. \A vb \in 0..(Size(q) - 1) : mem'[pa'[q][vb]] = mem[pa[q][vb]]
    BY <1>2, <1>3, Seen, Zenon
  <2> QED
    BY <2>1, SameView, Zenon
<1>5. View(p)' = [View(p) EXCEPT ![va] = v]
  <2>1. \A vb \in 0..(Size(p) - 1) : vb # va => mem'[pa[p][vb]] = mem[pa[p][vb]]
    BY <1>2, <1>3, Seen, Zenon
  <2>2. View(p)' = [vb \in 0..(Size(p) - 1) |-> mem'[pa[p][vb]]]
    BY DEF View
  <2> QED
    BY <1>1, <1>2, <2>1, <2>2, Zenon DEF View
<1>6. image' = [image EXCEPT ![p] = [View(p) EXCEPT ![va] = v]]
  BY <1>4, <1>5, Changed, Zenon
<1>7. Eager!Write(p, va, v)
  BY <1>1, <1>6, Imaged, Zenon DEF Eager!Write
<1> QED
  BY <1>7, Zenon DEF Eager!Next, VA

\* A process that becomes a zombie takes an Exit of EagerFork.
LEMMA Exited ==
    ASSUME CowInv, NEW p \in Proc, Alive(p), pc'[p] = "zombie", mem' = mem, pa' = pa,
           \A q \in Proc : q # p => (Alive(q)' <=> Alive(q)) /\ Size(q)' = Size(q)
    PROVE  Eager!Next
<1>1. \A q \in Proc : q # p /\ Alive(q) => View(q)' = View(q)
  BY SameView, Zenon
<1>2. ~Alive(p)'
  BY Zenon DEF Alive
<1>3. image' = [image EXCEPT ![p] = None]
  BY <1>1, <1>2, Changed, Zenon
<1>4. Eager!Exit(p)
  BY <1>3, Imaged, Zenon DEF Eager!Exit
<1> QED
  BY <1>4, Zenon DEF Eager!Next

\* The end of a successful sbrk(), or the start of one with n < 0, is a Resize of
\* EagerFork.
LEMMA Resized ==
    ASSUME CowInv, NEW p \in Proc, NEW n \in 0..NPage, Alive(p), Alive(p)', Size(p)' = n,
           \A va \in 0..(n - 1) :
              mem'[pa'[p][va]] = IF va < Size(p) THEN mem[pa[p][va]] ELSE Zero,
           \A q \in Proc : q # p => (Alive(q)' <=> Alive(q)) /\ Size(q)' = Size(q),
           \A q \in Proc : q # p /\ Alive(q) =>
              \A va \in 0..(Size(q) - 1) : mem'[pa'[q][va]] = mem[pa[q][va]]
    PROVE  Eager!Next
<1>1. \A q \in Proc : q # p /\ Alive(q) => View(q)' = View(q)
  BY SameView, Zenon
<1>2. Size(p) \in 1..NPage /\ image[p] = View(p) /\ View(p) # None
      /\ DOMAIN View(p) = 0..(Size(p) - 1)
  BY Seen, Imaged, Zenon
<1>3. View(p)' = [va \in 0..(n - 1) |-> IF va \in DOMAIN image[p] THEN image[p][va] ELSE Zero]
  <2>1. View(p)' = [va \in 0..(n - 1) |-> mem'[pa'[p][va]]]
    BY Zenon DEF View
  <2>2. \A va \in 0..(n - 1) :
           mem'[pa'[p][va]] = IF va \in DOMAIN image[p] THEN image[p][va] ELSE Zero
    BY <1>2 DEF View
  <2> QED
    BY <2>1, <2>2, Zenon
<1>4. image' = [image EXCEPT ![p] =
         [va \in 0..(n - 1) |-> IF va \in DOMAIN image[p] THEN image[p][va] ELSE Zero]]
  BY <1>1, <1>3, Changed, Zenon
<1>5. Eager!Resize(p, n)
  BY <1>2, <1>4, Zenon DEF Eager!Resize
<1> QED
  BY <1>5, Zenon DEF Eager!Next

\* A step of p that leaves the others alone keeps who runs, and each size.
LEMMA SameAlive ==
    ASSUME NEW p \in Proc, Alive(p), Alive(p)', Size(p)' = Size(p),
           \A q \in Proc : q # p => pc'[q] = pc[q] /\ job'[q] = job[q] /\ sz'[q] = sz[q]
    PROVE  \A q \in Proc : (Alive(q)' <=> Alive(q)) /\ Size(q)' = Size(q)
  BY Zenon DEF Alive, Size

\* Each step a program starts is a step of EagerFork or changes no image.
LEMMA EagerUser ==
    ASSUME CowInv, CopyoutToText = FALSE, NEW p \in Proc, user(p)
    PROVE  Eager!Next \/ image' = image
<1>1. pc[p] = "user" /\ Alive(p) /\ Size(p) = sz[p]
  BY Zenon DEF user, store, copyout, fork, wait, grow, shrink, exit, Alive, Size
<1>2. \A va \in VA : perm[p][va] = "W" => va < sz[p]
  BY <1>1, Zenon DEF CowInv, Maps, MapOK, Valid, Growing, Allocating
<1>3. pc \in [Proc -> PC] /\ job \in [Proc -> Job] /\ sz \in [Proc -> 0..NPage]
  BY Zenon DEF CowInv, TypeOK, PC
<1>4. ASSUME NEW va \in VA, NEW w, break_cow(p, va, w), UNCHANGED <<mem, pa, sz>>
      PROVE  image' = image
  <2>1. /\ pc'[p] = "kalloc" /\ \A q \in Proc : q # p => pc'[q] = pc[q] /\ job'[q] = job[q]
    BY <1>3, <1>4, Zenon DEF break_cow
  <2>2. \A q \in Proc : (Alive(q)' <=> Alive(q)) /\ Size(q)' = Size(q)
    BY <1>1, <1>4, <2>1, Zenon DEF Alive, Size
  <2> QED
    BY <1>4, <2>2, SameImage, Zenon
<1>5. ASSUME NEW w, Kill(p, w), UNCHANGED <<mem, pa, sz>>
      PROVE  Eager!Next
  <2>1. pc'[p] = "zombie" /\ \A q \in Proc : q # p => pc'[q] = pc[q] /\ job'[q] = job[q]
    BY <1>3, <1>5, Zenon DEF Kill, Return
  <2>2. \A q \in Proc : q # p => (Alive(q)' <=> Alive(q)) /\ Size(q)' = Size(q)
    BY <1>5, <2>1, Zenon DEF Alive, Size
  <2> QED
    BY <1>1, <1>5, <2>1, <2>2, Exited, Zenon
<1>6. ASSUME NEW va \in VA, NEW v \in Val, perm[p][va] = "W",
             mem' = [mem EXCEPT ![pa[p][va]] = v], UNCHANGED <<pc, job, sz, pa>>
      PROVE  Eager!Next
  <2>1. \A q \in Proc : (Alive(q)' <=> Alive(q)) /\ Size(q)' = Size(q)
    BY <1>6, Zenon DEF Alive, Size
  <2> QED
    BY <1>1, <1>2, <1>6, <2>1, Written, Zenon
<1>7. ASSUME NEW va \in VA, NEW b \in BOOLEAN, NEW v \in Val, store(p, va, b, v)
      PROVE  Eager!Next \/ image' = image
  BY <1>4, <1>5, <1>6, <1>7, Zenon DEF store
<1>8. ASSUME NEW va \in VA, NEW v \in Val, copyout(p, va, v)
      PROVE  Eager!Next \/ image' = image
  BY <1>4, <1>6, <1>8, Zenon DEF copyout
<1>9. ASSUME NEW c \in Proc, fork(p, c) \/ wait(p, c) PROVE image' = image
  <2>1. /\ c # p /\ pc[c] \in {"unused", "zombie"} /\ pc'[c] = "locked"
        /\ pc'[p] \in {"uvmcopy", "unmap"} /\ job'[p].peer = c
        /\ \A q \in Proc : q # p /\ q # c => pc'[q] = pc[q] /\ job'[q] = job[q]
        /\ UNCHANGED <<mem, pa, sz>>
    BY <1>3, <1>9 DEF fork, wait, job_of
  <2>2. \A q \in Proc : (Alive(q)' <=> Alive(q)) /\ (Alive(q) => Size(q)' = Size(q))
    BY <1>1, <2>1, Zenon DEF Alive, Size
  <2> QED
    BY <2>1, <2>2, SameImage, Zenon
<1>10. ASSUME NEW n \in 1..NPage, grow(p, n) PROVE image' = image
  <2>1. /\ pc'[p] = "kalloc" /\ \A q \in Proc : q # p => pc'[q] = pc[q] /\ job'[q] = job[q]
        /\ UNCHANGED <<mem, pa, sz>>
    BY <1>3, <1>10, Zenon DEF grow
  <2>2. \A q \in Proc : (Alive(q)' <=> Alive(q)) /\ Size(q)' = Size(q)
    BY <1>1, <2>1, Zenon DEF Alive, Size
  <2> QED
    BY <2>1, <2>2, SameImage, Zenon
<1>11. ASSUME NEW n \in 1..NPage, shrink(p, n) PROVE Eager!Next
  <2>1. /\ pc'[p] = "unmap" /\ job'[p].peer = p /\ job'[p].size = n /\ n < sz[p]
        /\ \A q \in Proc : q # p => pc'[q] = pc[q] /\ job'[q] = job[q]
        /\ UNCHANGED <<mem, pa, sz>>
    BY <1>3, <1>11, Zenon DEF shrink, uvmunmap, job_of
  <2>2. \A q \in Proc : q # p => (Alive(q)' <=> Alive(q)) /\ Size(q)' = Size(q)
    BY <2>1, Zenon DEF Alive, Size
  <2>3. Alive(p)' /\ Size(p)' = n
    BY <2>1, Zenon DEF Alive, Size
  <2>4. n \in 0..NPage /\ \A va \in 0..(n - 1) : va < Size(p)
    BY <1>1, <1>3, <2>1, Consts
  <2> QED
    BY <1>1, <2>1, <2>2, <2>3, <2>4, Resized, Zenon
<1>12. ASSUME exit(p) PROVE Eager!Next
  <2>1. /\ pc'[p] = "zombie" /\ \A q \in Proc : q # p => pc'[q] = pc[q] /\ job'[q] = job[q]
        /\ UNCHANGED <<mem, pa, sz>>
    BY <1>3, <1>12, Zenon DEF exit, Return
  <2>2. \A q \in Proc : q # p => (Alive(q)' <=> Alive(q)) /\ Size(q)' = Size(q)
    BY <2>1, Zenon DEF Alive, Size
  <2> QED
    BY <1>1, <2>1, <2>2, Exited, Zenon
<1> QED
  BY <1>7, <1>8, <1>9, <1>10, <1>11, <1>12, Zenon DEF user

\* kalloc() fills with junk only a page nobody sees, and its failure kills at
\* most its caller.
LEMMA EagerKalloc ==
    ASSUME CowInv, NEW p \in Proc, kalloc(p) \/ kalloc_inc(p) \/ kalloc_fails(p)
    PROVE  Eager!Next \/ image' = image
<1>1. pc \in [Proc -> PC] /\ job \in [Proc -> Job] /\ sz' = sz /\ pa' = pa /\ job[p].peer \in Proc
  BY JobType, Zenon DEF CowInv, TypeOK, PC, kalloc, kalloc_inc, kalloc_fails
<1>2. pc[p] \in {"kalloc", "incpgrc"} /\ Alive(p) /\ Size(p) = sz[p]
  BY Zenon DEF kalloc, kalloc_inc, kalloc_fails, Alive, Size
<1>3. CASE kalloc(p) \/ kalloc_inc(p)
  <2>1. /\ pc'[p] \in {"incpgrc", "use"} /\ job' = job
        /\ \A q \in Proc : q # p => pc'[q] = pc[q]
        /\ \A g \in Page \ freelist : mem'[g] = mem[g]
    BY <1>1, <1>3, Zenon DEF kalloc, kalloc_inc, CowInv, TypeOK
  <2>2. \A q \in Proc : (Alive(q)' <=> Alive(q)) /\ Size(q)' = Size(q)
    BY <1>1, <1>2, <2>1, SameAlive, Zenon DEF Alive, Size
  <2>3. \A q \in Proc : Alive(q) => \A va \in 0..(Size(q) - 1) : mem'[pa'[q][va]] = mem[pa[q][va]]
    BY <1>1, <2>1, Seen, Zenon
  <2> QED
    BY <2>2, <2>3, SameImage, Zenon
<1>4. CASE kalloc_fails(p)
  <2>1. mem' = mem /\ \A q \in Proc : q # p => pc'[q] = pc[q] /\ job'[q] = job[q]
    BY <1>1, <1>4, Zenon DEF kalloc_fails, Return, uvmunmap
  <2>2. CASE pc'[p] = "zombie"
    <3>1. \A q \in Proc : q # p => (Alive(q)' <=> Alive(q)) /\ Size(q)' = Size(q)
      BY <1>1, <2>1, Zenon DEF Alive, Size
    <3> QED
      BY <1>1, <1>2, <2>1, <2>2, <3>1, Exited, Zenon
  <2>3. CASE pc'[p] # "zombie"
    <3>1. pc'[p] = "panic" \/ (pc'[p] = "unmap" /\ job'[p].peer = p /\ job'[p].size = sz[p])
      BY <1>1, <1>4, <2>3 DEF kalloc_fails, Return, uvmunmap, job_of
    <3>2. \A q \in Proc : (Alive(q)' <=> Alive(q)) /\ Size(q)' = Size(q)
      BY <1>1, <1>2, <2>1, <3>1, SameAlive, Zenon DEF Alive, Size
    <3> QED
      BY <1>1, <2>1, <3>2, SameImage, Zenon
  <2> QED
    BY <2>2, <2>3, Zenon
<1> QED
  BY <1>3, <1>4, Zenon

\* Copying the page before redirecting the PTE shows the program no change.
LEMMA EagerCopy ==
    ASSUME CowInv, NEW p \in Proc, cow_copy(p)
    PROVE  image' = image
<1> USE DEF CowInv
<1>1. /\ pc[p] = "use" /\ job[p].why \in {"fault", "copyout"} /\ UNCHANGED <<sz, job>>
      /\ pc'[p] = "kfree" /\ \A q \in Proc : q # p => pc'[q] = pc[q]
  BY Zenon DEF cow_copy, TypeOK
<1>2. PICK va \in VA : va = job[p].cur /\ va < sz[p]
  <2>1. job[p].cur < sz[p] /\ sz[p] \in 0..NPage
    BY <1>1, Zenon DEF TypeOK, Jobs, JobOK, Growing, Allocating
  <2> QED
    BY <2>1, JobType, Consts, SMTT(30) DEF VA
<1>3. PICK g \in Page : g = new[p]
  BY <1>1, Zenon DEF Locals
<1>4. /\ mem'[g] = mem[pa[p][va]] /\ \A h \in Page : h # g => mem'[h] = mem[h]
      /\ pa'[p][va] = g
      /\ \A q \in Proc, vb \in VA : ~(q = p /\ vb = va) => pa'[q][vb] = pa[q][vb]
  BY <1>2, <1>3, Zenon DEF cow_copy, TypeOK
<1>5. \A q \in Proc, vb \in VA : pa[q][vb] # g
  <2>1. Only(p, New) /\ page(p, New) = g
    BY <1>1, <1>3, Pages, Zenon DEF Private
  <2> QED
    <3> TAKE q \in Proc, vb \in VA
    <3>1. page(q, vb) = pa[q][vb] /\ vb \in 0..Old /\ vb # New
      BY Places, Pages, Zenon
    <3> QED
      BY <2>1, <3>1, Zenon DEF Only
<1>6. \A q \in Proc : (Alive(q)' <=> Alive(q)) /\ Size(q)' = Size(q)
  BY <1>1, SameAlive, Zenon DEF Alive, Size
<1>7. ASSUME NEW q \in Proc, Alive(q), NEW vb \in 0..(Size(q) - 1)
      PROVE  mem'[pa'[q][vb]] = mem[pa[q][vb]]
  <2>1. vb \in VA /\ pa[q][vb] \in Page
    BY <1>7, Seen, Zenon
  <2> QED
    BY <1>4, <1>5, <2>1, ZenonT(30)
<1> QED
  BY <1>6, <1>7, SameImage, Zenon

\* The memmove() of copyout() is a Write of EagerFork.
LEMMA EagerPut ==
    ASSUME CowInv, NEW p \in Proc, NEW v \in Val, copyout_put(p, v)
    PROVE  Eager!Next
<1> USE DEF CowInv
<1>1. /\ pc[p] = "put" /\ UNCHANGED <<sz, pa>> /\ mem' = [mem EXCEPT ![pa[p][job[p].cur]] = v]
      /\ pc'[p] = "user" /\ \A q \in Proc : q # p => pc'[q] = pc[q] /\ job'[q] = job[q]
  BY Zenon DEF copyout_put, Return, TypeOK
<1>2. PICK va \in VA : va = job[p].cur /\ va < sz[p]
  <2>1. job[p].cur < sz[p] /\ sz[p] \in 0..NPage
    BY <1>1, Zenon DEF TypeOK, Jobs, JobOK, Growing, Allocating
  <2> QED
    BY <2>1, JobType, Consts DEF VA
<1>3. perm[p][va] = "W"
  BY <1>1, <1>2, Zenon DEF Private
<1>4. Alive(p) /\ Size(p) = sz[p] /\ Alive(p)' /\ Size(p)' = sz[p]
  BY <1>1, Zenon DEF Alive, Size
<1>5. \A q \in Proc : (Alive(q)' <=> Alive(q)) /\ Size(q)' = Size(q)
  BY <1>1, <1>4, SameAlive, Zenon
<1> QED
  BY <1>1, <1>2, <1>3, <1>4, <1>5, Written, Zenon

\* kfree() overwrites only a page no page table holds.
LEMMA FreeKeepsSeen ==
    ASSUME CowInv, Counts', NEW g, kfree(g), NEW q \in Proc, Alive(q),
           \A va \in 0..(Size(q) - 1) : pa'[q][va] = pa[q][va]
    PROVE  \A va \in 0..(Size(q) - 1) : mem'[pa'[q][va]] = mem[pa[q][va]]
<1> TAKE va \in 0..(Size(q) - 1)
<1>1. va \in VA /\ pa[q][va] \in Page /\ page(q, va)' = pa'[q][va] /\ va \in 0..Old
  BY Seen, Pages, Places, Zenon
<1>2. pa[q][va] \notin freelist'
  BY <1>1, Zenon DEF Counts
<1>3. \A h \in Page : h \notin freelist' => mem'[h] = mem[h]
  BY Zenon DEF kfree, CowInv, TypeOK
<1> QED
  BY <1>1, <1>2, <1>3, Zenon

\* Dropping the page that was shared changes no image.
LEMMA EagerRelease ==
    ASSUME CowInv, Counts', NEW p \in Proc, cow_release(p)
    PROVE  image' = image
<1>1. /\ pc[p] = "kfree" /\ kfree(old[p]) /\ UNCHANGED <<sz, pa>> /\ pc'[p] \in {"put", "user"}
      /\ \A q \in Proc : q # p => pc'[q] = pc[q] /\ job'[q] = job[q]
  BY Zenon DEF cow_release, Return, CowInv, TypeOK
<1>2. \A q \in Proc : (Alive(q)' <=> Alive(q)) /\ Size(q)' = Size(q)
  BY <1>1, SameAlive, Zenon DEF Alive, Size
<1> QED
  BY <1>1, <1>2, FreeKeepsSeen, SameImage, Zenon

\* Sharing one page with the child changes no image: the child does not run yet.
LEMMA EagerUvmcopy ==
    ASSUME CowInv, NEW p \in Proc, uvmcopy(p)
    PROVE  image' = image
<1>1. PICK c \in Proc : c = job[p].peer
  BY JobType DEF CowInv
<1>2. pc[p] = "uvmcopy" /\ c # p /\ pc[c] = "locked"
  BY <1>1, Zenon DEF uvmcopy, CowInv, Jobs, JobOK, Working
<1>3. /\ UNCHANGED <<sz, mem>>
      /\ \A q \in Proc : q # c => pa'[q] = pa[q]
      /\ \A q \in Proc : q # p => pc'[q] = pc[q] /\ job'[q] = job[q]
      /\ pc'[p] = "forkinc" \/ (pc'[p] = "unmap" /\ job'[p].peer = c)
  BY <1>1, <1>2, SMTT(30) DEF uvmcopy, uvmunmap, job_of, CowInv, TypeOK
<1>4. \A q \in Proc : (Alive(q)' <=> Alive(q)) /\ Size(q)' = Size(q)
  BY <1>2, <1>3, SameAlive, Zenon DEF Alive, Size
<1>5. ~Alive(c)
  BY <1>2, Zenon DEF Alive
<1> QED
  BY <1>3, <1>4, <1>5, SameImage, Zenon

\* The last page shared is the Fork of EagerFork: the page tables agree.
LEMMA EagerForked ==
    ASSUME CowInv, NEW p \in Proc, uvmcopy_inc(p)
    PROVE  Eager!Next \/ image' = image
<1> USE DEF CowInv
<1>1. PICK c \in Proc : c = job[p].peer
  BY JobType
<1>2. /\ pc[p] = "forkinc" /\ c # p /\ pc[c] = "locked" /\ job[p].cur < sz[p]
      /\ job[p].lim = sz[p] /\ UNCHANGED <<mem, pa>>
  BY <1>1, Zenon DEF uvmcopy_inc, Jobs, JobOK, Working
<1>3. Alive(p) /\ Size(p) = sz[p] /\ ~Alive(c)
  BY <1>2, Zenon DEF Alive, Size
<1>4. CASE job[p].cur + 1 < job[p].lim
  <2>1. /\ pc'[p] = "uvmcopy" /\ sz' = sz
        /\ \A q \in Proc : q # p => pc'[q] = pc[q] /\ job'[q] = job[q]
    BY <1>4, Zenon DEF uvmcopy_inc, TypeOK
  <2>2. \A q \in Proc : (Alive(q)' <=> Alive(q)) /\ Size(q)' = Size(q)
    BY <1>3, <2>1, SameAlive, Zenon DEF Alive, Size
  <2> QED
    BY <1>2, <2>2, SameImage, Zenon
<1>5. CASE ~(job[p].cur + 1 < job[p].lim)
  <2>1. /\ pc'[p] = "user" /\ pc'[c] = "user" /\ sz'[c] = sz[p]
        /\ \A q \in Proc : q # p /\ q # c => pc'[q] = pc[q] /\ job'[q] = job[q]
        /\ \A q \in Proc : q # c => sz'[q] = sz[q]
    BY <1>1, <1>2, <1>5 DEF uvmcopy_inc, TypeOK
  <2>2. sz[p] \in 0..NPage /\ job[p].cur \in 0..NPage
    BY JobType, Zenon DEF TypeOK
  <2>3. \A va \in 0..(sz[p] - 1) : pa[c][va] = pa[p][va]
    <3>1. sz[p] = job[p].cur + 1
      BY <1>2, <1>5, <2>2, SMTT(30)
    <3>2. \A va \in 0..(sz[p] - 1) : va \in VA /\ va <= job[p].cur
      BY <2>2, <3>1, Consts DEF VA
    <3> QED
      BY <1>1, <1>2, <3>2, Zenon DEF Maps, MapOK
  <2>4. Alive(c)' /\ View(c)' = View(p)
    <3>1. Alive(c)' /\ Size(c)' = sz[p]
      BY <2>1, Zenon DEF Alive, Size
    <3> QED
      BY <1>2, <1>3, <2>3, <3>1, Zenon DEF View
  <2>5. \A q \in Proc : q # c => (Alive(q)' <=> Alive(q)) /\ Size(q)' = Size(q)
    BY <1>3, <2>1, Zenon DEF Alive, Size
  <2>6. \A q \in Proc : q # c /\ Alive(q) => View(q)' = View(q)
    BY <1>2, <2>5, SameView, Zenon
  <2>7. image' = [image EXCEPT ![c] = View(p)]
    BY <2>4, <2>5, <2>6, Changed, Zenon
  <2>8. image[p] = View(p) /\ View(p) # None /\ image[c] = None
    BY <1>3, Imaged, Zenon DEF image
  <2>9. Eager!Fork(p, c)
    BY <2>7, <2>8, Zenon DEF Eager!Fork
  <2> QED
    BY <2>9, Zenon DEF Eager!Next
<1> QED
  BY <1>4, <1>5, Zenon

\* uvmalloc() shows nothing until its last page, and then zeroed pages.
LEMMA EagerGrow ==
    ASSUME CowInv, NEW p \in Proc, grow_map(p)
    PROVE  Eager!Next \/ image' = image
<1> USE DEF CowInv
<1>1. pc[p] = "use" /\ job[p].why = "grow" /\ Growing(p)
  BY Zenon DEF grow_map, Growing, Allocating
<1>2. /\ sz[p] \in 0..NPage /\ job[p].lim \in 0..NPage /\ job[p].cur \in 0..NPage
      /\ sz[p] <= job[p].cur /\ job[p].cur < job[p].lim
  <2>1. JobOK(p) /\ sz[p] \in 0..NPage
    BY Zenon DEF Jobs, TypeOK
  <2>2. sz[p] <= job[p].cur /\ job[p].cur < job[p].lim
    BY <1>1, <2>1, Zenon DEF JobOK, Growing
  <2> QED
    BY <2>1, <2>2, JobType, Zenon
<1>3. PICK va \in VA : va = job[p].cur /\ ~(va < sz[p])
  <2>1. job[p].cur \in VA /\ ~(job[p].cur < sz[p])
    BY <1>2, Consts DEF VA
  <2> QED
    BY <2>1, Zenon
<1>4. PICK g \in Page : g = new[p]
  BY <1>1, Zenon DEF Locals
<1>5. /\ mem'[g] = Zero /\ \A h \in Page : h # g => mem'[h] = mem[h]
      /\ pa'[p][va] = g
      /\ \A q \in Proc, vb \in VA : ~(q = p /\ vb = va) => pa'[q][vb] = pa[q][vb]
  BY <1>3, <1>4, Consts, Zenon DEF grow_map, TypeOK
<1>6. \A q \in Proc, vb \in VA : pa[q][vb] # g
  <2>1. Only(p, New) /\ page(p, New) = g
    BY <1>1, <1>4, Pages, Zenon DEF Private
  <2> QED
    BY <2>1, Pages, Places DEF Only
<1>7. Alive(p) /\ Size(p) = sz[p]
  BY <1>1, Zenon DEF Alive, Size
<1>8. ASSUME NEW q \in Proc, Alive(q), NEW vb \in 0..(Size(q) - 1)
      PROVE  mem'[pa'[q][vb]] = mem[pa[q][vb]]
  <2>1. vb \in VA /\ pa[q][vb] \in Page
    BY <1>8, Seen
  <2>2. ~(q = p /\ vb = va)
    BY <1>2, <1>3, <1>7, <2>1 DEF VA
  <2> QED
    BY <1>5, <1>6, <2>1, <2>2, Zenon
<1>9. CASE job[p].cur + 1 < job[p].lim
  <2>1. /\ pc'[p] = "kalloc" /\ sz' = sz
        /\ \A q \in Proc : q # p => pc'[q] = pc[q] /\ job'[q] = job[q]
    BY <1>9, Zenon DEF grow_map, TypeOK
  <2>2. \A q \in Proc : (Alive(q)' <=> Alive(q)) /\ Size(q)' = Size(q)
    BY <1>7, <2>1, SameAlive, Zenon DEF Alive, Size
  <2> QED
    BY <1>8, <2>2, SameImage, Zenon
<1>10. CASE ~(job[p].cur + 1 < job[p].lim)
  <2>1. PICK n \in 0..NPage : n = job[p].lim /\ n = va + 1
    BY <1>2, <1>3, <1>10
  <2>2. /\ pc'[p] = "user" /\ sz'[p] = n
        /\ \A q \in Proc : q # p => pc'[q] = pc[q] /\ job'[q] = job[q] /\ sz'[q] = sz[q]
    BY <1>10, <2>1, Zenon DEF grow_map, Return, TypeOK
  <2>3. Alive(p)' /\ Size(p)' = n
    BY <2>2, Zenon DEF Alive, Size
  <2>4. \A q \in Proc : q # p => (Alive(q)' <=> Alive(q)) /\ Size(q)' = Size(q)
    BY <2>2, Zenon DEF Alive, Size
  <2>5. ASSUME NEW vb \in 0..(n - 1)
        PROVE  mem'[pa'[p][vb]] = IF vb < Size(p) THEN mem[pa[p][vb]] ELSE Zero
    <3>1. vb \in VA /\ (vb < va \/ vb = va) /\ (vb < sz[p] => vb \in 0..(Size(p) - 1))
      <4>1. va \in Nat /\ n = va + 1 /\ n <= NPage /\ sz[p] \in Nat
        BY <1>2, <2>1, Consts, SMTT(30) DEF VA
      <4> QED
        BY <1>7, <4>1, Consts DEF VA
    <3>2. CASE vb < sz[p]
      BY <1>7, <1>8, <3>1, <3>2, Zenon
    <3>3. CASE ~(vb < sz[p]) /\ vb < va
      <4>1. mem[pa[p][vb]] = Zero /\ pa[p][vb] \in Page
        <5>1. sz[p] <= vb
          BY <1>2, <3>1, <3>3, SMTT(30) DEF VA
        <5>2. perm[p][vb] = "W" /\ mem[pa[p][vb]] = Zero
          BY <1>1, <1>3, <3>1, <3>3, <5>1, Zenon DEF Contents
        <5> QED
          BY <3>1, <5>2 DEF Maps, MapOK, TypeOK
      <4>2. pa'[p][vb] = pa[p][vb]
        <5>1. vb # va
          BY <3>3 DEF VA
        <5> QED
          BY <1>5, <3>1, <5>1, Zenon
      <4> QED
        BY <1>5, <1>6, <1>7, <3>1, <3>3, <4>1, <4>2, Zenon
    <3>4. CASE vb = va
      BY <1>3, <1>5, <1>7, <3>4, Zenon
    <3> QED
      BY <3>1, <3>2, <3>3, <3>4, Zenon
  <2> QED
    BY <1>7, <1>8, <2>3, <2>4, <2>5, Resized, Zenon
<1> QED
  BY <1>9, <1>10, Zenon

\* Unmapping takes only pages the program had given up.
LEMMA EagerUnmap ==
    ASSUME CowInv, Counts', NEW p \in Proc, grow_fails(p) \/ unmap_page(p) \/ unmap_done(p)
    PROVE  image' = image
<1> USE DEF CowInv
<1>1. CASE grow_fails(p)
  <2>1. /\ pc[p] = "use" /\ kfree(new[p]) /\ UNCHANGED <<sz, pa>> /\ pc'[p] = "unmap"
        /\ job'[p].peer = p /\ job'[p].size = sz[p]
        /\ \A q \in Proc : q # p => pc'[q] = pc[q] /\ job'[q] = job[q]
    BY <1>1, Zenon DEF grow_fails, uvmunmap, job_of, TypeOK
  <2>2. \A q \in Proc : (Alive(q)' <=> Alive(q)) /\ Size(q)' = Size(q)
    BY <2>1, SameAlive, Zenon DEF Alive, Size
  <2> QED
    BY <2>1, <2>2, FreeKeepsSeen, SameImage, Zenon
<1>2. CASE unmap_page(p)
  <2>1. PICK c \in Proc : c = job[p].peer
    BY JobType, Zenon
  <2>2. pc[p] = "unmap" /\ (c # p => pc[c] = "locked") /\ job[p].size <= job[p].cur
        /\ job[p].cur < job[p].lim /\ UNCHANGED <<pc, sz>>
    BY <1>2, <2>1, Zenon DEF unmap_page, Jobs, JobOK, Working
  <2>3. job[p].size \in 0..NPage /\ job[p].cur \in 0..NPage /\ job[p].lim \in 0..NPage
    BY JobType, Zenon
  <2>4. PICK va \in VA : va = job[p].cur
    BY <2>2, <2>3, Consts DEF VA
  <2>5. /\ kfree(pa[c][va])
        /\ \A q \in Proc, vb \in VA : ~(q = c /\ vb = va) => pa'[q][vb] = pa[q][vb]
    BY <1>2, <2>1, <2>4, Zenon DEF unmap_page, TypeOK
  <2>6. job'[p].peer = c /\ job'[p].size = job[p].size /\ \A q \in Proc : q # p => job'[q] = job[q]
    BY <1>2, <2>1 DEF unmap_page, TypeOK, Job
  <2>7. \A q \in Proc : (Alive(q)' <=> Alive(q)) /\ Size(q)' = Size(q)
    BY <2>1, <2>2, <2>6, Zenon DEF Alive, Size
  <2>8. ASSUME NEW q \in Proc, Alive(q), NEW vb \in 0..(Size(q) - 1)
        PROVE  pa'[q][vb] = pa[q][vb]
    <3>1. vb \in VA
      BY <2>8, Seen, Zenon
    <3>2. q = c => q = p /\ vb < job[p].size
      <4>1. ASSUME q = c PROVE q = p
        BY <2>2, <2>8, <4>1, Zenon DEF Alive
      <4>2. ASSUME q = c PROVE Size(q) = job[p].size
        BY <2>1, <2>2, <4>1, <4>2, Zenon DEF Size
      <4>3. ASSUME q = c PROVE vb < job[p].size
        BY <2>3, <2>8, <4>2, <4>3
      <4> QED
        BY <4>1, <4>3, Zenon
    <3> QED
      BY <2>2, <2>3, <2>4, <2>5, <3>1, <3>2 DEF VA
  <2> QED
    BY <2>5, <2>7, <2>8, FreeKeepsSeen, SameImage, Zenon
<1>3. CASE unmap_done(p)
  <2>1. PICK c \in Proc : c = job[p].peer
    BY JobType
  <2>2. /\ pc[p] = "unmap" /\ (c # p => pc[c] = "locked" /\ pc'[c] = "unused")
        /\ pc'[p] = "user" /\ sz'[c] = job[p].size /\ UNCHANGED <<mem, pa>>
        /\ \A q \in Proc : q # p /\ q # c => pc'[q] = pc[q]
        /\ \A q \in Proc : q # p => job'[q] = job[q]
        /\ \A q \in Proc : q # c => sz'[q] = sz[q]
    BY <1>3, <2>1, Zenon DEF unmap_done, Jobs, JobOK, Working, TypeOK
  <2>3. \A q \in Proc : (Alive(q)' <=> Alive(q)) /\ (Alive(q) => Size(q)' = Size(q))
    BY <2>1, <2>2, Zenon DEF Alive, Size
  <2> QED
    BY <2>2, <2>3, SameImage, Zenon
<1> QED
  BY <1>1, <1>2, <1>3, Zenon

-----------------------------------------------------------------------------
(***************************************************************************)
(* The theorems.                                                           *)
(***************************************************************************)
INSTANCE FiniteSetTheorems

\* The places that hold pages are finitely many, so Counting holds.
LEMMA Cards == Counting
<1>1. IsFiniteSet(Proc) /\ IsFiniteSet(0..Old)
  BY CowAssumption, Consts, FS_Interval DEF Old
<1>2. IsFiniteSet(Slot)
  BY <1>1, FS_Product, Zenon DEF Slot
<1>3. \A S \in SUBSET Slot : IsFiniteSet(S) /\ Cardinality(S) \in Nat
  BY <1>2, FS_Subset, FS_CardinalityType, Zenon
<1>4. \A S \in SUBSET Slot : Cardinality(S) = 0 <=> S = {}
  BY <1>3, FS_EmptySet, Zenon
<1>5. \A S \in SUBSET Slot : \A s \in Slot \ S : Cardinality(S \cup {s}) = Cardinality(S) + 1
  BY <1>3, FS_AddElement, Zenon
<1> QED
  BY <1>3, <1>4, <1>5, Zenon DEF Counting

\* The invariant holds when the first process starts.
LEMMA InitCow == Init => CowInv
<1> SUFFICES ASSUME Init PROVE CowInv
  BY Zenon
<1>1. PICK p \in Proc, f \in [VA -> Page], c \in [VA -> Val] :
         /\ \A i, j \in VA : i # j => f[i] # f[j]
         /\ freelist = Page \ {f[i] : i \in VA}
         /\ mem = [g \in Page |-> IF \E i \in VA : f[i] = g
                                    THEN c[CHOOSE i \in VA : f[i] = g]
                                    ELSE Junk]
         /\ pa = [q \in Proc |-> IF q = p THEN f ELSE [i \in VA |-> None]]
         /\ perm = [q \in Proc |-> [i \in VA |->
                      IF q = p /\ i \notin Text THEN "W" ELSE "R"]]
         /\ sz = [q \in Proc |-> IF q = p THEN NPage ELSE 0]
         /\ pc = [q \in Proc |-> IF q = p THEN "user" ELSE "unused"]
  BY Zenon DEF Init
<1>2. /\ pgrc = [g \in Page |-> IF g \in freelist THEN 0 ELSE 1]
      /\ job = [q \in Proc |-> NoJob(q)] /\ new = [q \in Proc |-> None]
      /\ old = [q \in Proc |-> None] /\ killed = [q \in Proc |-> "no"]
  BY Zenon DEF Init
<1>3. \A q \in Proc : NoJob(q) \in Job /\ NoJob(q).peer = q
  BY Consts DEF NoJob, job_of, Job
<1>4. \A i \in VA : mem[f[i]] = c[i]
  <2> TAKE i \in VA
  <2>1. \A k \in VA : f[k] = f[i] => k = i
    BY <1>1, Zenon
  <2>2. (CHOOSE k \in VA : f[k] = f[i]) = i
    BY <2>1, Zenon
  <2> QED
    BY <1>1, <2>2, Zenon
<1>5. /\ pa \in [Proc -> [VA -> Page \cup {None}]] /\ \A i \in VA : pa[p][i] = f[i]
      /\ \A q \in Proc, i \in VA : q # p => pa[q][i] = None
  BY <1>1, Zenon
<1>6. /\ pc[p] = "user" /\ \A q \in Proc : q # p => pc[q] = "unused"
      /\ sz[p] = NPage
      /\ \A q \in Proc : job[q] = NoJob(q) /\ new[q] = None /\ old[q] = None
      /\ \A q \in Proc, i \in VA : q # p => perm[q][i] = "R"
  BY <1>1, <1>2, Zenon
<1>7. TypeOK
  <2>1. mem \in [Page -> Val \cup {Junk}]
    <3>1. \A g \in Page : mem[g] \in Val \cup {Junk}
      <4> TAKE g \in Page
      <4>1. CASE \E i \in VA : f[i] = g
        BY <1>4, <4>1, Zenon
      <4>2. CASE ~ \E i \in VA : f[i] = g
        BY <1>1, <4>2, Zenon
      <4> QED
        BY <4>1, <4>2, Zenon
    <3>2. mem = [g \in Page |-> mem[g]]
      BY <1>1, Zenon
    <3> QED
      BY <3>1, <3>2, Zenon
  <2>2. job \in [Proc -> Job] /\ new \in [Proc -> Page \cup {None}]
        /\ old \in [Proc -> Page \cup {None}] /\ killed \in [Proc -> {"no", "access", "stack", "memory"}]
    BY <1>2, <1>3, Zenon
  <2>3. freelist \subseteq Page /\ pgrc \in [Page -> Nat]
    BY <1>1, <1>2, Zenon
  <2>4. sz \in [Proc -> 0..NPage]
    BY <1>1, Consts
  <2>5. perm \in [Proc -> [VA -> {"R", "W", "C"}]]
    BY <1>1, Zenon
  <2>6. pc \in [Proc -> PC]
    BY <1>1, Zenon DEF PC
  <2> QED
    BY <1>5, <2>1, <2>2, <2>3, <2>4, <2>5, <2>6, Zenon DEF TypeOK, PC
<1>8. Jobs
  BY <1>3, <1>6, Consts DEF Jobs, JobOK, Working, Growing, Allocating
<1>9. Locals
  BY <1>6, Consts, Zenon DEF Locals
<1>10. Maps
  <2> SUFFICES ASSUME NEW q \in Proc, NEW i \in VA PROVE MapOK(q, i)
    BY Zenon DEF Maps
  <2>1. CASE q = p
    <3>1. i < NPage
      BY Consts DEF VA
    <3>2. Valid(p, i)
      BY <1>6, <3>1, Zenon DEF Valid, Growing, Allocating
    <3>3. pa[p][i] # None
      BY <1>1, <1>5, Consts
    <3> QED
      BY <1>6, <2>1, <3>2, <3>3, Zenon DEF MapOK
  <2>2. CASE q # p
    BY <1>5, <1>6, <2>2, Zenon DEF MapOK
  <2> QED
    BY <2>1, <2>2, Zenon
<1>11. \A q \in Proc, k \in 0..Old : page(q, k) = IF q = p /\ k \in VA THEN f[k] ELSE None
  <2> TAKE q \in Proc, k \in 0..Old
  <2>1. CASE k \in VA
    BY <1>5, <2>1, Pages
  <2>2. CASE k = New \/ k = Old
    BY <1>6, <2>2, Pages, Places, SMTT(30)
  <2> QED
    BY <2>1, <2>2, Places, Zenon
<1>12. Private
  <2>1. \A i \in VA : Only(p, i)
    BY <1>1, <1>11, Consts, Places DEF Only
  <2> QED
    BY <1>6, <2>1, Zenon DEF Private
<1>13. Counts
  <2>1. \A q \in Proc, k \in 0..Old : ~pending(q, k)
    BY <1>6, Zenon DEF pending
  <2>2. \A g \in Page : g \in freelist <=> \A q \in Proc, k \in 0..Old : page(q, k) # g
    BY <1>1, <1>11, Consts, Places, Zenon
  <2>3. ASSUME NEW g \in Page PROVE pgrc[g] = Cardinality(Counted(g))
    <3>0. /\ Counted(g) \in SUBSET Slot
          /\ \A q \in Proc, k \in 0..Old : <<q, k>> \in Counted(g) <=> page(q, k) = g
      <4>1. \A q \in Proc, k \in 0..Old : counts(q, k, g) <=> page(q, k) = g
        BY <2>1, Zenon DEF counts
      <4> QED
        BY <4>1, InCounted, Zenon
    <3>1. CASE g \in freelist
      <4>1. Counted(g) = {}
        BY <2>2, <3>0, <3>1 DEF Slot
      <4> QED
        BY <1>2, <3>1, <4>1, FS_EmptySet, Zenon
    <3>2. CASE g \notin freelist
      <4>1. PICK i \in VA : f[i] = g
        BY <1>1, <3>2, Zenon
      <4>2. \A q \in Proc, k \in 0..Old : <<q, k>> \in Counted(g) <=> q = p /\ k = i
        <5>1. \A q \in Proc, k \in 0..Old : page(q, k) = g <=> q = p /\ k = i
          BY <1>1, <1>11, <4>1, Consts, Zenon
        <5> QED
          BY <3>0, <5>1, Zenon
      <4>3. Counted(g) = {<<p, i>>}
        BY <3>0, <4>2, Places DEF Slot
      <4> QED
        BY <1>2, <3>2, <4>3, FS_Singleton, Zenon
    <3> QED
      BY <3>1, <3>2, Zenon
  <2> QED
    BY <2>2, <2>3, Zenon DEF Counts
<1>14. Contents
  BY <1>4, <1>5, <1>6 DEF Contents, Growing, Allocating
<1> QED
  BY <1>7, <1>8, <1>9, <1>10, <1>12, <1>13, <1>14, Zenon DEF CowInv

\* Every step keeps the invariant.
LEMMA StepCow == CowInv /\ [Next]_vars => CowInv'
<1> SUFFICES ASSUME CowInv, [Next]_vars PROVE CowInv'
  BY Zenon
<1>1. ASSUME NEW p \in Proc, user(p) PROVE CowInv'
  BY <1>1, StoreStep, CopyoutStep, ForkStep, WaitStep, GrowStep, ShrinkStep, ExitStep, Zenon
     DEF user
<1>2. ASSUME NEW p \in Proc, kernel(p) PROVE CowInv'
  BY <1>2, KallocStep, KallocIncStep, KallocFailsStep, CowCopyStep, CowReleaseStep,
     CopyoutPutStep, UvmcopyStep, UvmcopyIncStep, GrowMapStep, GrowFailsStep, UnmapPageStep,
     UnmapDoneStep, Cards, Zenon
  DEF kernel
<1>3. CASE UNCHANGED vars
  <2> USE <1>3 DEF CowInv, vars
  <2>1. TypeOK' /\ Locals'
    BY Zenon DEF TypeOK, Locals
  <2>2. Jobs'
    BY Zenon DEF Jobs, JobOK, Working, Growing, Allocating
  <2>3. Maps'
    BY MapFrame, Zenon DEF Maps
  <2>4. Private'
    <3>1. pa' = pa /\ new' = new /\ old' = old /\ perm' = perm /\ pc' = pc /\ job' = job
      BY Zenon
    <3>2. ASSUME NEW p \in Proc, NEW k, Only(p, k) PROVE Only(p, k)'
      BY <3>1, <3>2, Zenon DEF Only, page
    <3>3. ASSUME NEW p \in Proc
          PROVE  /\ pc'[p] \in {"incpgrc", "use"} => Only(p, New)'
                 /\ \A va \in VA : perm'[p][va] = "W" => Only(p, va)'
                 /\ pc'[p] \in {"kfree", "put"} => perm'[p][job'[p].cur] = "W"
      <4>1. /\ pc[p] \in {"incpgrc", "use"} => Only(p, New)
            /\ \A va \in VA : perm[p][va] = "W" => Only(p, va)
            /\ pc[p] \in {"kfree", "put"} => perm[p][job[p].cur] = "W"
        BY Zenon DEF Private
      <4>2. ASSUME NEW va \in VA, perm'[p][va] = "W" PROVE Only(p, va)'
        BY <3>1, <3>2, <4>1, <4>2, Zenon
      <4> QED
        BY <3>1, <3>2, <4>1, <4>2, Zenon
    <3> QED
      BY <3>3, Zenon DEF Private
  <2>5. Counts'
    BY CountsKept, Zenon DEF pending
  <2>6. Contents'
    BY Zenon DEF Contents, Growing, Allocating
  <2> QED
    BY <2>1, <2>2, <2>3, <2>4, <2>5, <2>6, ZenonT(30)
<1> QED
  BY <1>1, <1>2, <1>3, Zenon DEF Next

\* For any number of processes, pages and sizes of address spaces, pgrc[] counts
\* exactly the places that hold each page, up to the incpgrc() calls under way,
\* and a page is free exactly when nobody holds it: no interleaving of faults,
\* forks, sbrk() and exits of several CPUs frees a page in use or leaks one.
THEOREM CountsAreExact == Spec => []RefCountExact
<1>1. CowInv => RefCountExact
  <2> SUFFICES ASSUME CowInv, NEW g \in Page
               PROVE  /\ pgrc[g] = Cardinality(Holders(g) \ Uncounted)
                      /\ g \in freelist <=> Holders(g) = {}
    BY Zenon DEF RefCountExact
  <2>1. (\A p \in Proc, k \in 0..Old : page(p, k) # g) <=> Holders(g) = {}
    <3>1. \A p \in Proc, k \in 0..Old : <<p, k>> \in Holders(g) <=> page(p, k) = g
      BY Zenon DEF Holders, Slot
    <3>2. \A s \in Holders(g) : \E p \in Proc, k \in 0..Old : s = <<p, k>>
      BY DEF Holders, Slot
    <3> QED
      BY <3>1, <3>2, Zenon
  <2> QED
    BY <2>1, Zenon DEF CowInv, Counts, Counted
<1> QED
  BY <1>1, InitCow, StepCow, PTL DEF Spec

\* The first process has the only image.
LEMMA EagerInit == Init => Eager!Init
<1> SUFFICES ASSUME Init PROVE Eager!Init
  OBVIOUS
<1>1. CowInv
  BY InitCow, Zenon
<1>2. PICK p \in Proc : /\ sz = [q \in Proc |-> IF q = p THEN NPage ELSE 0]
                        /\ pc = [q \in Proc |-> IF q = p THEN "user" ELSE "unused"]
  BY Zenon DEF Init
<1>3. Alive(p) /\ \A q \in Proc : q # p => ~Alive(q)
  BY <1>2, Zenon DEF Alive
<1>4. Size(p) \in 0..NPage /\ View(p) \in [0..(Size(p) - 1) -> Val]
  BY <1>1, <1>3, Seen, Imaged, Consts
<1>5. View(p) \in Eager!Images
  BY <1>4, Zenon DEF Eager!Images
<1>6. image = [q \in Proc |-> IF q = p THEN View(p) ELSE None]
  BY <1>3, Zenon DEF image
<1> QED
  BY <1>5, <1>6, Zenon DEF Eager!Init

\* Copy-on-write fork cannot be told from a fork that copies all of memory, for
\* any number of processes and pages, as long as no system call is handed a buffer
\* in a page of program text (copyout() stores there without asking whether the
\* page is shared).
THEOREM ForksLikeCopying ==
    ASSUME CopyoutToText = FALSE
    PROVE  Spec => CowIsEager
<1>1. CowInv /\ CowInv' /\ [Next]_vars => [Eager!Next]_image
  <2> SUFFICES ASSUME CowInv, CowInv', [Next]_vars PROVE Eager!Next \/ image' = image
    BY Zenon
  <2>1. Counts'
    BY Zenon DEF CowInv
  <2>2. ASSUME NEW p \in Proc, kernel(p) PROVE Eager!Next \/ image' = image
    BY <2>1, <2>2, EagerKalloc, EagerCopy, EagerPut, EagerRelease, EagerUvmcopy, EagerForked,
       EagerGrow, EagerUnmap, Zenon
    DEF kernel
  <2>3. CASE UNCHANGED vars
    BY <2>3, Zenon DEF vars, image, View, Alive, Size
  <2> QED
    BY <2>2, <2>3, EagerUser, Zenon DEF Next
<1> QED
  BY <1>1, EagerInit, InitCow, StepCow, PTL DEF Spec, CowIsEager, Eager!Spec
=============================================================================
