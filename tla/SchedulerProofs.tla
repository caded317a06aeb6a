-------------------------- MODULE SchedulerProofs --------------------------
(***************************************************************************)
(* Proofs about the schedulers that keep the lock of the best process      *)
(* during a scan, for any number of CPUs and processes: MLFQ runs no       *)
(* process on two CPUs; FCFS and PBS pick the best process; waitx()        *)
(* reports the time that a process waited.                                 *)
(***************************************************************************)
EXTENDS Mlfq, TLAPS

\* The constants and variables that NonPreemptive does not share with Mlfq.
CONSTANTS Builds, Priority, MaxTick, MaxSched

VARIABLES
    build, stick, priority, niceness, nscheduled, tickls, tickslp, tickrng,
    ctime, rtime, etime, fresh, waited

\* The schedulers FCFS and PBS.
Np == INSTANCE NonPreemptive

-----------------------------------------------------------------------------
(***************************************************************************)
(* MLFQ.                                                                   *)
(***************************************************************************)

\* The part of TypeOK that the argument is about.
SchedType ==
    /\ state \in [Slot -> {"UNUSED", "SLEEPING", "RUNNABLE", "RUNNING"}]
    /\ lock \in [Slot -> CPU \cup {nobody}]
    /\ on \in [CPU -> Slot \cup {nobody}]
    /\ pc \in [CPU -> {"scan", "run", "clock", "tick", "look", "yield"}]
    /\ idx \in [CPU -> Nat \ {0}]
    /\ best \in [CPU -> Slot \cup {nobody}]

\* The best process of a scan is RUNNABLE and its lock is kept by the scan.
Kept ==
    \A c \in CPU : best[c] # nobody =>
        pc[c] = "scan" /\ lock[best[c]] = c /\ state[best[c]] = "RUNNABLE"

\* A CPU in a system call or a trap has a process, one that scans has none,
\* and the process of a CPU is RUNNING.
Current ==
    \A c \in CPU :
        /\ pc[c] \in {"run", "tick", "look", "yield"} => on[c] # nobody
        /\ pc[c] = "scan" => on[c] = nobody
        /\ on[c] # nobody => state[on[c]] = "RUNNING"

Apart == \A c, d \in CPU : on[c] = on[d] /\ on[c] # nobody => c = d

SchedInv == SchedType /\ Kept /\ Current /\ Apart

\* At first every CPU scans, with no lock and no process.
LEMMA InitSched == Init => SchedInv
<1> SUFFICES ASSUME Init PROVE SchedInv
  BY Zenon
<1>1. SchedType
  BY DEF Init, SchedType
<1>2. Kept /\ Current /\ Apart
  BY Zenon DEF Init, Kept, Current, Apart
<1> QED
  BY <1>1, <1>2, Zenon DEF SchedInv

\* scan() takes the lock of a process that no other scan has, and releases
\* that of the best so far.
LEMMA ScanSched ==
    ASSUME SchedInv, NEW c \in CPU, scan(c)
    PROVE  SchedInv'
<1> DEFINE p == idx[c]
<1> USE DEF SchedInv, nobody
<1>1. p \in Slot /\ lock[p] = nobody /\ pc[c] = "scan" /\ 0 \notin CPU /\ 0 \notin Slot
  BY MlfqAssumption DEF scan, Unlocked, SchedType, Slot
<1>2. UNCHANGED <<state, on, pc>> /\ idx' \in [CPU -> Nat \ {0}]
  BY DEF scan, SchedType
<1>3. CASE UNCHANGED <<best, lock>>
  BY <1>2, <1>3 DEF SchedType, Kept, Current, Apart
<1>4. CASE /\ state[p] = "RUNNABLE"
           /\ best' = [best EXCEPT ![c] = p]
           /\ lock' = keep_lock(c, p)
  <2>1. lock' = [q \in Slot |-> IF q = p THEN c
                                ELSE IF q = best[c] THEN nobody ELSE lock[q]]
    BY <1>4, Zenon DEF keep_lock
  <2>2. SchedType'
    BY <1>1, <1>2, <1>4, <2>1 DEF SchedType
  <2>3. Kept'
    <3> SUFFICES ASSUME NEW d \in CPU, best'[d] # nobody
                 PROVE  pc'[d] = "scan" /\ lock'[best'[d]] = d
                        /\ state'[best'[d]] = "RUNNABLE"
      BY Zenon DEF Kept
    <3>1. CASE d = c
      BY <3>1, <1>1, <1>2, <1>4, <2>1 DEF SchedType
    <3>2. CASE d # c
      <4>1. best'[d] = best[d] /\ best[d] \in Slot
        BY <3>2, <1>4, Zenon DEF SchedType
      <4>2. lock[best[d]] = d /\ state[best[d]] = "RUNNABLE" /\ pc[d] = "scan"
        BY <4>1, Zenon DEF Kept
      <4>3. best[d] # p /\ best[d] # best[c]
        BY <4>1, <4>2, <3>2, <1>1 DEF Kept
      <4> QED
        BY <4>1, <4>2, <4>3, <2>1, <1>2, Zenon
    <3> QED
      BY <3>1, <3>2, Zenon
  <2>4. Current' /\ Apart'
    BY <1>2, Zenon DEF Current, Apart
  <2> QED
    BY <2>2, <2>3, <2>4, Zenon
<1> QED
  BY <1>3, <1>4, Zenon DEF scan

\* dispatch() runs a process that is RUNNABLE, hence on no CPU, and whose lock
\* it holds, hence the best of no other scan.
LEMMA DispatchSched ==
    ASSUME SchedInv, NEW c \in CPU, dispatch(c)
    PROVE  SchedInv'
<1> DEFINE b == best[c]
<1> USE DEF SchedInv, nobody
<1>1. 0 \notin CPU /\ 0 \notin Slot /\ pc[c] = "scan"
  BY MlfqAssumption DEF dispatch, Slot
<1>2. best' = [best EXCEPT ![c] = nobody] /\ idx' \in [CPU -> Nat \ {0}]
  BY DEF dispatch, SchedType
<1>3. CASE b = nobody
  <2>1. UNCHANGED <<state, lock, on, pc>>
    BY <1>3, Zenon DEF dispatch
  <2>2. best' = best
    BY <1>2, <1>3, Zenon DEF SchedType
  <2> QED
    BY <1>2, <2>1, <2>2 DEF SchedType, Kept, Current, Apart
<1>4. CASE b # nobody
  <2>1. b \in Slot /\ lock[b] = c /\ state[b] = "RUNNABLE"
    BY <1>4 DEF SchedType, Kept
  <2>2. /\ state' = [state EXCEPT ![b] = "RUNNING"]
        /\ lock' = [lock EXCEPT ![b] = nobody]
        /\ on' = [on EXCEPT ![c] = b]
        /\ pc' = [pc EXCEPT ![c] = "run"]
    BY <1>4, Zenon DEF dispatch, Goto
  <2>3. SchedType'
    BY <1>2, <2>1, <2>2, Zenon DEF SchedType
  <2>4. \A d \in CPU : on[d] # b
    BY <1>4, <2>1, Zenon DEF Current
  <2>5. \A d \in CPU : d # c => best[d] # b
    BY <1>4, <2>1 DEF Kept
  <2>6. Kept'
    <3> SUFFICES ASSUME NEW d \in CPU, best'[d] # nobody
                 PROVE  pc'[d] = "scan" /\ lock'[best'[d]] = d
                        /\ state'[best'[d]] = "RUNNABLE"
      BY DEF Kept
    <3>1. d # c /\ best'[d] = best[d] /\ best[d] \in Slot
      BY <1>2, Zenon DEF SchedType
    <3> QED
      BY <3>1, <2>2, <2>5 DEF Kept, SchedType
  <2>7. on'[c] = b /\ pc'[c] = "run" /\ state'[b] = "RUNNING"
    BY <2>1, <2>2, Zenon DEF SchedType
  <2>8. \A d \in CPU : d # c => on'[d] = on[d] /\ pc'[d] = pc[d]
    BY <2>2, Zenon DEF SchedType
  <2>9. Current'
    <3> SUFFICES ASSUME NEW d \in CPU, d # c
                 PROVE  /\ pc[d] \in {"run", "tick", "look", "yield"} => on[d] # nobody
                        /\ pc[d] = "scan" => on[d] = nobody
                        /\ on[d] # nobody => state'[on[d]] = "RUNNING"
      BY <1>4, <2>7, <2>8 DEF Current
    <3>1. on[d] # nobody => state'[on[d]] = state[on[d]]
      BY <2>2, <2>4, Zenon DEF SchedType
    <3> QED
      BY <3>1, Zenon DEF Current
  <2>10. Apart'
    <3> SUFFICES ASSUME NEW d \in CPU, NEW e \in CPU, on'[d] = on'[e], on'[d] # nobody
                 PROVE  d = e
      BY Zenon DEF Apart
    <3>1. CASE d = c \/ e = c
      BY <3>1, <2>4, <2>7, <2>8, Zenon
    <3>2. CASE d # c /\ e # c
      BY <3>2, <2>8, Zenon DEF Apart
    <3> QED
      BY <3>1, <3>2, Zenon
  <2> QED
    BY <2>3, <2>6, <2>9, <2>10, Zenon
<1> QED
  BY <1>3, <1>4, Zenon

\* A process that leaves its CPU was RUNNING, hence the best of no scan.
LEMMA SwitchSched ==
    ASSUME SchedInv, NEW c \in CPU, pc[c] \in {"run", "yield"},
           NEW s \in {"UNUSED", "SLEEPING", "RUNNABLE"},
           state' = [state EXCEPT ![on[c]] = s],
           Switch(c), UNCHANGED <<lock, idx, best>>
    PROVE  SchedInv'
<1> USE DEF SchedInv, nobody
<1>1. 0 \notin CPU /\ 0 \notin Slot
  BY MlfqAssumption DEF Slot
<1>2. on[c] \in Slot /\ state[on[c]] = "RUNNING"
  BY Zenon DEF Current, SchedType
<1>3. on' = [on EXCEPT ![c] = nobody] /\ pc' = [pc EXCEPT ![c] = "scan"]
  BY Zenon DEF Switch, Goto
<1>4. SchedType'
  BY <1>2, <1>3, Zenon DEF SchedType
<1>5. Kept'
  BY <1>2, <1>3 DEF Kept, SchedType
<1>6. Current'
  <2>1. \A d \in CPU : d # c => on[d] # on[c]
    BY <1>1, <1>2, Zenon DEF Apart
  <2> QED
    BY <1>2, <1>3, <2>1, Zenon DEF Current, SchedType
<1>7. Apart'
  BY <1>3, Zenon DEF Apart, SchedType
<1> QED
  BY <1>4, <1>5, <1>6, <1>7, Zenon

\* A process that becomes RUNNABLE without having been on a CPU.
LEMMA WakeSched ==
    ASSUME SchedInv, NEW p \in Slot, state[p] \in {"UNUSED", "SLEEPING"},
           state' = [state EXCEPT ![p] = "RUNNABLE"],
           UNCHANGED <<lock, on, pc, idx, best>>
    PROVE  SchedInv'
<1> USE DEF SchedInv, nobody
<1>1. SchedType'
  BY Zenon DEF SchedType
<1>2. Kept'
  BY DEF Kept, SchedType
<1>3. Current' /\ Apart'
  BY Zenon DEF Current, Apart, SchedType
<1> QED
  BY <1>1, <1>2, <1>3, Zenon

\* A CPU goes from one part of a trap to the next and keeps its process.
LEMMA TrapSched ==
    ASSUME SchedInv, NEW c \in CPU, best[c] = nobody,
           NEW l \in {"scan", "run", "clock", "tick", "look", "yield"},
           l \in {"run", "tick", "look", "yield"} => on[c] # nobody,
           l = "scan" => on[c] = nobody,
           pc' = [pc EXCEPT ![c] = l],
           idx' \in [CPU -> Nat \ {0}],
           UNCHANGED <<state, lock, on, best>>
    PROVE  SchedInv'
<1> USE DEF SchedInv
<1>1. SchedType'
  BY Zenon DEF SchedType
<1>2. Kept'
  BY DEF Kept, SchedType
<1>3. Current'
  BY Zenon DEF Current, SchedType
<1>4. Apart'
  BY Zenon DEF Apart
<1> QED
  BY <1>1, <1>2, <1>3, <1>4, Zenon

\* Every step keeps the invariant.
LEMMA StepSched == SchedInv /\ [Next]_vars => SchedInv'
<1> SUFFICES ASSUME SchedInv, [Next]_vars PROVE SchedInv'
  BY Zenon
<1> DEFINE L == {"scan", "run", "clock", "tick", "look", "yield"}
<1>1. ASSUME NEW c \in CPU, timer(c) PROVE SchedInv'
  <2>1. best[c] = nobody
    BY <1>1, Zenon DEF timer, Interruptible, SchedInv, Kept
  <2>2. idx' \in [CPU -> Nat \ {0}] /\ UNCHANGED <<state, lock, on, best>>
    BY <1>1, Zenon DEF timer, SchedInv, SchedType
  <2>3. CASE c = cpu0
    BY <1>1, <2>1, <2>2, <2>3, TrapSched, Zenon DEF timer, Goto
  <2>4. CASE c # cpu0
    <3>1. on[c] # nobody /\ pc' = [pc EXCEPT ![c] = "tick"]
      BY <1>1, <2>4, Zenon DEF timer, Goto, SchedInv, Current
    <3> QED
      BY <2>1, <2>2, <3>1, TrapSched, Zenon
  <2> QED
    BY <2>3, <2>4, Zenon
<1>2. ASSUME clockintr PROVE SchedInv'
  <2>1. cpu0 \in CPU /\ best[cpu0] = nobody
    BY <1>2, MlfqAssumption, Zenon DEF clockintr, SchedInv, Kept
  <2>2. idx' \in [CPU -> Nat \ {0}] /\ UNCHANGED <<state, lock, on, best>>
    BY <1>2, Zenon DEF clockintr, SchedInv, SchedType
  <2>3. CASE pc' = pc
    <3>1. pc' = [pc EXCEPT ![cpu0] = "clock"]
      BY <1>2, <2>1, <2>3, Zenon DEF clockintr, SchedInv, SchedType
    <3> QED
      BY <2>1, <2>2, <3>1, TrapSched, Zenon
  <2>4. CASE on[cpu0] = nobody /\ pc' = [pc EXCEPT ![cpu0] = "scan"]
    BY <2>1, <2>2, <2>4, TrapSched, Zenon
  <2>5. CASE on[cpu0] # nobody /\ pc' = [pc EXCEPT ![cpu0] = "tick"]
    BY <2>1, <2>2, <2>5, TrapSched, Zenon
  <2> QED
    BY <1>2, <2>3, <2>4, <2>5, Zenon DEF clockintr, Goto
<1>3. ASSUME NEW c \in CPU, tick(c) PROVE SchedInv'
  <2>1. best[c] = nobody /\ on[c] # nobody
    BY <1>3, Zenon DEF tick, SchedInv, Kept, Current
  <2>2. idx' \in [CPU -> Nat \ {0}] /\ UNCHANGED <<state, lock, on, best>>
    BY <1>3, Zenon DEF tick, SchedInv, SchedType
  <2>3. pc' = [pc EXCEPT ![c] = "yield"] \/ pc' = [pc EXCEPT ![c] = "look"]
    BY <1>3, Zenon DEF tick, Goto
  <2> QED
    BY <2>1, <2>2, <2>3, TrapSched, Zenon
<1>4. ASSUME NEW c \in CPU, look(c) PROVE SchedInv'
  <2>1. best[c] = nobody /\ on[c] # nobody
    BY <1>4, Zenon DEF look, SchedInv, Kept, Current
  <2>2. UNCHANGED <<state, lock, on, best>>
    BY <1>4, Zenon DEF look
  <2>3. idx' \in [CPU -> Nat \ {0}]
    BY <1>4 DEF look, SchedInv, SchedType
  <2>4. \E l \in {"yield", "look", "run"} : pc' = [pc EXCEPT ![c] = l]
    BY <1>4, Zenon DEF look, Goto, SchedInv, SchedType
  <2> QED
    BY <2>1, <2>2, <2>3, <2>4, TrapSched, Zenon
<1>5. ASSUME NEW c \in CPU, yield(c) PROVE SchedInv'
  BY <1>5, SwitchSched, Zenon DEF yield
<1>6. ASSUME NEW c \in CPU, NEW s \in {"SLEEPING", "UNUSED"}, leave(c, s)
      PROVE  SchedInv'
  BY <1>6, SwitchSched, Zenon DEF leave
<1>7. ASSUME NEW c \in CPU, NEW p \in Slot, wakeup(c, p) \/ fork(c, p)
      PROVE  SchedInv'
  BY <1>7, WakeSched, Zenon DEF wakeup, fork
<1>8. CASE UNCHANGED vars
  BY <1>8 DEF vars, SchedInv, SchedType, Kept, Current, Apart
<1> QED
  BY <1>1, <1>2, <1>3, <1>4, <1>5, <1>6, <1>7, <1>8, ScanSched, DispatchSched, Zenon
  DEF Next, scheduler, trap

\* No process runs on two CPUs, and the best process of a scan stays RUNNABLE
\* until it is run, whatever the other CPUs do in between.
THEOREM RunsOnOneCpu == Spec => []OneCpu
<1>1. SchedInv => OneCpu
  BY Zenon DEF SchedInv, SchedType, Kept, Apart, OneCpu
<1> QED
  BY <1>1, InitSched, StepSched, PTL DEF Spec
-----------------------------------------------------------------------------
(***************************************************************************)
(* FCFS and PBS pick the best process.                                     *)
(***************************************************************************)
\* The part of the state that the choice depends on.
RankType ==
    /\ state \in [Np!Slot -> {"UNUSED", "SLEEPING", "RUNNABLE", "RUNNING", "ZOMBIE"}]
    /\ stick \in [Np!Slot -> Int] /\ priority \in [Np!Slot -> Int]
    /\ niceness \in [Np!Slot -> Int] /\ nscheduled \in [Np!Slot -> Int]
    /\ tickls \in [Np!Slot -> Nat] /\ tickslp \in [Np!Slot -> Nat]
    /\ tickrng \in [Np!Slot -> Nat] /\ ticks \in Nat
    /\ \A p \in Np!Slot : tickls[p] <= ticks
    /\ lock \in [Np!Slot -> CPU \cup {0}]
    /\ on \in [CPU -> Np!Slot \cup {0}]
    /\ pc \in [CPU -> {"scan", "run", "clock", "yield"}]
    /\ idx \in [CPU -> Nat \ {0}]
    /\ best \in [CPU -> Np!Slot \cup {0}]
    /\ fresh \in [CPU -> SUBSET Np!Slot]

\* The best process of a scan is RUNNABLE and its lock is kept by the scan.
BestKept == \A c \in CPU : best[c] # 0 => lock[best[c]] = c /\ state[best[c]] = "RUNNABLE"

\* A CPU in a system call has a process.
HasProcess == \A c \in CPU : pc[c] \in {"run", "yield"} => on[c] # 0

\* No RUNNABLE process that the scan has passed goes before its best one, but for
\* those that changed behind its back.
Ranked(c) ==
    \A p \in Np!Slot : p \notin fresh[c] /\ p < idx[c] /\ state[p] = "RUNNABLE"
                       => best[c] # 0 /\ ~Np!better(p, best[c])

RankInv == RankType /\ BestKept /\ HasProcess /\ \A c \in CPU : Ranked(c)

\* What the order of the processes depends on.
SameRank(p) ==
    /\ stick'[p] = stick[p] /\ priority'[p] = priority[p]
    /\ niceness'[p] = niceness[p] /\ nscheduled'[p] = nscheduled[p]

\* Slots and CPUs are not the null pointer.
LEMMA NotNull == 0 \notin CPU /\ 0 \notin Np!Slot /\ cpu0 \in CPU
  BY MlfqAssumption DEF Np!Slot

\* compute_priority() returns a number.
LEMMA Dynamic ==
    ASSUME RankType, NEW p \in Np!Slot
    PROVE  Np!compute_priority(p) \in Int
  BY DEF RankType, Np!compute_priority, Np!Within

\* FCFS and PBS order the processes strictly: none goes before itself, and one that
\* goes before the best so far leaves it no worse.
LEMMA Orders ==
    ASSUME RankType, NEW p \in Np!Slot, NEW b \in Np!Slot, NEW q \in Np!Slot
    PROVE  /\ ~Np!better(p, p)
           /\ Np!better(p, b) /\ ~Np!better(q, b) => ~Np!better(q, p)
<1>1. /\ Np!compute_priority(p) \in Int /\ Np!compute_priority(b) \in Int
      /\ Np!compute_priority(q) \in Int
  BY Dynamic, Zenon
<1>2. /\ stick[p] \in Int /\ stick[b] \in Int /\ stick[q] \in Int
      /\ nscheduled[p] \in Int /\ nscheduled[b] \in Int /\ nscheduled[q] \in Int
  BY Zenon DEF RankType
<1>3. ~Np!better(p, p)
  BY <1>1, <1>2 DEF Np!better, Np!compare_priority
<1>4. Np!better(p, b) /\ ~Np!better(q, b) => ~Np!better(q, p)
  BY <1>1, <1>2 DEF Np!better, Np!compare_priority
<1> QED
  BY <1>3, <1>4, Zenon

\* The order of two processes changes only with their fields.
LEMMA SameOrder ==
    ASSUME NEW p, NEW b, SameRank(p), SameRank(b), build' = build
    PROVE  Np!better(p, b)' <=> Np!better(p, b)
<1>1. (Np!compute_priority(p))' = Np!compute_priority(p)
  BY Zenon DEF SameRank, Np!compute_priority
<1>2. (Np!compute_priority(b))' = Np!compute_priority(b)
  BY Zenon DEF SameRank, Np!compute_priority
<1> QED
  BY <1>1, <1>2, Zenon DEF SameRank, Np!better, Np!compare_priority

\* A scan that a step of another CPU leaves alone, but for processes noted in fresh.
LEMMA RankedFrame ==
    ASSUME NEW c \in CPU, Ranked(c), build' = build, idx'[c] = idx[c], best'[c] = best[c],
           fresh[c] \subseteq fresh'[c], best[c] # 0 => SameRank(best[c]),
           \A p \in Np!Slot : p \notin fresh'[c] /\ state'[p] = "RUNNABLE"
                              => state[p] = "RUNNABLE" /\ SameRank(p)
    PROVE  Ranked(c)'
<1> SUFFICES ASSUME NEW p \in Np!Slot, p \notin fresh'[c], p < idx'[c], state'[p] = "RUNNABLE"
             PROVE  best'[c] # 0 /\ ~Np!better(p, best[c])'
  BY Zenon DEF Ranked
<1>1. state[p] = "RUNNABLE" /\ SameRank(p) /\ p \notin fresh[c] /\ p < idx[c]
  BY Zenon
<1>2. best[c] # 0 /\ ~Np!better(p, best[c])
  BY <1>1, Zenon DEF Ranked
<1> QED
  BY <1>1, <1>2, SameOrder, Zenon

\* A step that leaves the scans and the processes they keep alone: a system call or an
\* interrupt.
LEMMA BehindRank ==
    ASSUME RankInv, RankType', HasProcess', UNCHANGED <<build, best, idx, lock>>,
           \A c \in CPU : fresh[c] \subseteq fresh'[c],
           \A q \in Np!Slot : lock[q] # 0 => state'[q] = state[q] /\ SameRank(q),
           \A q \in Np!Slot : state'[q] = "RUNNABLE" /\ ~(\A c \in CPU : q \in fresh'[c])
                              => state[q] = "RUNNABLE" /\ SameRank(q)
    PROVE  RankInv'
<1>1. \A c \in CPU : best[c] # 0 => /\ best[c] \in Np!Slot /\ lock[best[c]] = c
                                    /\ state[best[c]] = "RUNNABLE" /\ lock[best[c]] # 0
  BY NotNull DEF RankInv, RankType, BestKept
<1>2. BestKept'
  BY <1>1, Zenon DEF BestKept
<1>3. ASSUME NEW c \in CPU PROVE Ranked(c)'
  <2>1. best[c] # 0 => SameRank(best[c])
    BY <1>1, Zenon
  <2>2. Ranked(c)
    BY Zenon DEF RankInv
  <2> QED
    BY <2>1, <2>2, RankedFrame, Zenon
<1> QED
  BY <1>2, <1>3, Zenon DEF RankInv

\* scan() keeps the better one of two processes.
LEMMA ScanRank ==
    ASSUME RankInv, NEW c \in CPU, Np!scan(c)
    PROVE  RankInv'
<1> DEFINE p == idx[c]
<1> USE DEF Np!nobody
<1>1. /\ p \in Np!Slot /\ lock[p] = 0 /\ pc[c] = "scan"
      /\ UNCHANGED <<build, state, stick, priority, niceness, nscheduled, tickls, tickslp,
                     tickrng, ticks, on, pc, fresh>>
      /\ idx' = [idx EXCEPT ![c] = p + 1]
  BY MlfqAssumption DEF Np!scan, Np!Unlocked, Np!Slot, Np!pbs, RankInv, RankType
<1>2. idx' \in [CPU -> Nat \ {0}] /\ idx'[c] = p + 1 /\ \A d \in CPU : d # c => idx'[d] = idx[d]
  BY <1>1 DEF RankInv, RankType
<1>3. \A q, r \in Np!Slot : Np!better(q, r)' <=> Np!better(q, r)
  BY <1>1, SameOrder, Zenon DEF SameRank
<1>4. HasProcess'
  BY <1>1, Zenon DEF RankInv, HasProcess
<1>5. ASSUME NEW q \in Np!Slot, q < p + 1 PROVE q < p \/ q = p
  BY <1>1, <1>5 DEF Np!Slot
<1>6. CASE Np!take(c, p)
  <2>1. /\ state[p] = "RUNNABLE"
        /\ best[c] = 0 \/ Np!better(p, best[c])
        /\ best' = [best EXCEPT ![c] = p]
        /\ lock' = [q \in Np!Slot |-> IF q = p THEN c ELSE IF q = best[c] THEN 0 ELSE lock[q]]
    BY <1>6, Zenon DEF Np!scan, Np!take, Np!keep_best
  <2>2. best'[c] = p /\ \A d \in CPU : d # c => best'[d] = best[d]
    BY <2>1, Zenon DEF RankInv, RankType
  <2>3. RankType'
    BY <1>1, <1>2, <2>1, Zenon DEF RankInv, RankType
  <2>4. BestKept'
    <3> SUFFICES ASSUME NEW d \in CPU, best'[d] # 0
                 PROVE  lock'[best'[d]] = d /\ state'[best'[d]] = "RUNNABLE"
      BY Zenon DEF BestKept
    <3>1. CASE d = c
      BY <1>1, <2>1, <2>2, <3>1, Zenon
    <3>2. CASE d # c
      <4>1. best'[d] = best[d] /\ best[d] \in Np!Slot /\ lock[best[d]] = d /\ state[best[d]] = "RUNNABLE"
        BY <2>2, <3>2 DEF RankInv, RankType, BestKept
      <4>2. best[d] # p /\ best[d] # best[c]
        BY <1>1, <3>2, <4>1, NotNull, Zenon DEF RankInv, BestKept
      <4> QED
        BY <1>1, <2>1, <4>1, <4>2, Zenon
    <3> QED
      BY <3>1, <3>2, Zenon
  <2>5. ASSUME NEW d \in CPU PROVE Ranked(d)'
    <3>0. Ranked(d)
      BY Zenon DEF RankInv
    <3>1. CASE d # c
      BY <1>1, <1>2, <2>2, <3>0, <3>1, RankedFrame, Zenon DEF SameRank
    <3>2. CASE d = c
      <4> SUFFICES ASSUME NEW q \in Np!Slot, q \notin fresh[c], q < p + 1, state[q] = "RUNNABLE"
                   PROVE  p # 0 /\ ~Np!better(q, p)
        BY <1>1, <1>2, <1>3, <2>2, <3>2, Zenon DEF Ranked
      <4>1. CASE q = p
        BY <1>1, <4>1, Orders, NotNull, Zenon DEF RankInv
      <4>2. CASE q < p
        <5>1. best[c] # 0 /\ ~Np!better(q, best[c])
          BY <1>1, <3>0, <3>2, <4>2, Zenon DEF Ranked
        <5>2. best[c] \in Np!Slot /\ Np!better(p, best[c])
          BY <2>1, <5>1, Zenon DEF RankInv, RankType
        <5> QED
          BY <1>1, <5>1, <5>2, Orders, NotNull, Zenon DEF RankInv
      <4> QED
        BY <1>5, <4>1, <4>2, Zenon
    <3> QED
      BY <3>1, <3>2, Zenon
  <2> QED
    BY <1>4, <2>3, <2>4, <2>5, Zenon DEF RankInv
<1>7. CASE ~Np!take(c, p)
  <2>1. UNCHANGED <<best, lock>>
    BY <1>7, Zenon DEF Np!scan
  <2>2. RankType' /\ BestKept'
    BY <1>1, <1>2, <2>1, Zenon DEF RankInv, RankType, BestKept
  <2>3. ASSUME NEW d \in CPU PROVE Ranked(d)'
    <3>0. Ranked(d)
      BY DEF RankInv
    <3>1. CASE d # c
      BY <1>1, <1>2, <2>1, <3>0, <3>1, RankedFrame, Zenon DEF SameRank
    <3>2. CASE d = c
      <4> SUFFICES ASSUME NEW q \in Np!Slot, q \notin fresh[c], q < p + 1, state[q] = "RUNNABLE"
                   PROVE  best[c] # 0 /\ ~Np!better(q, best[c])
        <5>1. ASSUME NEW q \in Np!Slot, best[c] # 0
              PROVE  Np!better(q, best[c])' <=> Np!better(q, best[c])
          BY <1>1, <2>1, <5>1, SameOrder, Zenon DEF SameRank
        <5> QED
          BY <1>1, <1>2, <2>1, <3>2, <5>1, Zenon DEF Ranked
      <4>1. CASE q = p
        BY <1>7, <4>1, Zenon DEF Np!take
      <4>2. CASE q < p
        BY <3>0, <3>2, <4>2, Zenon DEF Ranked
      <4> QED
        BY <1>5, <4>1, <4>2, Zenon
    <3> QED
      BY <3>1, <3>2
  <2> QED
    BY <1>4, <2>2, <2>3, Zenon DEF RankInv
<1> QED
  BY <1>6, <1>7, Zenon

\* dispatch() runs the best process, which no other scan keeps, and ends the scan.
LEMMA DispatchRank ==
    ASSUME RankInv, NEW c \in CPU, Np!dispatch(c)
    PROVE  RankInv'
<1> DEFINE b == best[c]
<1> USE DEF Np!nobody
<1>1. /\ UNCHANGED <<build, stick, priority, niceness, tickslp, tickrng, ticks>>
      /\ best' = [best EXCEPT ![c] = 0] /\ idx' = [idx EXCEPT ![c] = 1]
      /\ fresh' = [fresh EXCEPT ![c] = {}]
  BY Zenon DEF Np!dispatch
<1>2. /\ best'[c] = 0 /\ \A d \in CPU : d # c => best'[d] = best[d]
      /\ idx'[c] = 1 /\ \A d \in CPU : d # c => idx'[d] = idx[d]
      /\ \A d \in CPU : d # c => fresh'[d] = fresh[d]
      /\ best' \in [CPU -> Np!Slot \cup {0}] /\ idx' \in [CPU -> Nat \ {0}]
      /\ fresh' \in [CPU -> SUBSET Np!Slot]
  BY <1>1 DEF RankInv, RankType
<1>3. /\ RankType' /\ HasProcess'
      /\ \A q \in Np!Slot : q # b => /\ state'[q] = state[q] /\ lock'[q] = lock[q]
                                     /\ nscheduled'[q] = nscheduled[q]
      /\ b # 0 => state'[b] = "RUNNING"
  <2>1. CASE b = 0
    <3>1. UNCHANGED <<state, tickls, nscheduled, lock, on, pc>>
      BY <2>1, Zenon DEF Np!dispatch
    <3> QED
      BY <1>1, <1>2, <2>1, <3>1, Zenon DEF RankInv, RankType, HasProcess
  <2>2. CASE b # 0
    <3>1. /\ state' = [state EXCEPT ![b] = "RUNNING"] /\ b \in Np!Slot
          /\ lock' = [lock EXCEPT ![b] = 0] /\ on' = [on EXCEPT ![c] = b]
          /\ pc' = [pc EXCEPT ![c] = "run"]
      BY <2>2, Zenon DEF Np!dispatch, Np!Goto, RankInv, RankType
    <3>2. /\ tickls' \in [Np!Slot -> Nat] /\ \A q \in Np!Slot : tickls'[q] <= ticks
          /\ nscheduled' \in [Np!Slot -> Int]
          /\ \A q \in Np!Slot : q # b => nscheduled'[q] = nscheduled[q]
      <4>1. CASE build = "PBS"
        BY <2>2, <3>1, <4>1, SMTT(30) DEF Np!dispatch, RankInv, RankType
      <4>2. CASE build # "PBS"
        BY <2>2, <4>2, Zenon DEF Np!dispatch, RankInv, RankType
      <4> QED
        BY <4>1, <4>2, Zenon
    <3>3. RankType'
      BY <1>1, <1>2, <3>1, <3>2, Zenon DEF RankInv, RankType
    <3>4. HasProcess'
      BY <2>2, <3>1, Zenon DEF RankInv, RankType, HasProcess
    <3>5. /\ \A q \in Np!Slot : q # b => state'[q] = state[q] /\ lock'[q] = lock[q]
          /\ state'[b] = "RUNNING"
      BY <3>1, Zenon DEF RankInv, RankType
    <3> QED
      BY <3>2, <3>3, <3>4, <3>5, Zenon
  <2> QED
    BY <2>1, <2>2, Zenon
<1>4. ASSUME NEW d \in CPU, d # c, best[d] # 0
      PROVE  /\ best[d] \in Np!Slot /\ best[d] # b
             /\ lock[best[d]] = d /\ state[best[d]] = "RUNNABLE"
  BY <1>4 DEF RankInv, RankType, BestKept
<1>5. BestKept'
  BY <1>2, <1>3, <1>4 DEF BestKept
<1>6. \A q \in Np!Slot : q # b => SameRank(q)
  BY <1>1, <1>3, Zenon DEF SameRank
<1>7. ASSUME NEW d \in CPU PROVE Ranked(d)'
  <2>1. CASE d = c
    BY <1>2, <2>1 DEF Ranked, Np!Slot
  <2>2. CASE d # c
    <3>1. Ranked(d) /\ (best[d] # 0 => SameRank(best[d]))
      BY <1>4, <1>6, <2>2, Zenon DEF RankInv
    <3>2. \A q \in Np!Slot : state'[q] = "RUNNABLE" => state[q] = "RUNNABLE" /\ SameRank(q)
      <4>1. b = 0 => \A q \in Np!Slot : q # b
        BY NotNull, Zenon
      <4> QED
        BY <1>3, <1>6, <4>1, Zenon
    <3> QED
      BY <1>1, <1>2, <2>2, <3>1, <3>2, RankedFrame, Zenon
  <2> QED
    BY <2>1, <2>2, Zenon
<1> QED
  BY <1>3, <1>5, <1>7, Zenon DEF RankInv

\* The niceness that sleep() and wakeup() compute is a number.
LEMMA Share ==
    ASSUME NEW slp \in Nat, NEW rng \in Nat
    PROVE  Np!share(slp, rng) \in Int
  BY DEF Np!share

\* sleep() of a process that runs, which no scan keeps.
LEMMA SleepRank ==
    ASSUME RankInv, NEW c \in CPU, Np!sleep(c)
    PROVE  RankInv'
<1> DEFINE p == on[c]
           rng == ticks - tickls[p]
<1> USE DEF Np!nobody
<1>1. /\ p \in Np!Slot /\ lock[p] = 0 /\ rng \in Nat /\ tickslp[p] \in Nat
      /\ UNCHANGED <<build, stick, priority, nscheduled, tickslp, ticks, lock, idx, best, fresh>>
      /\ state' = [state EXCEPT ![p] = "SLEEPING"]
      /\ on' = [on EXCEPT ![c] = 0] /\ pc' = [pc EXCEPT ![c] = "scan"]
  BY DEF Np!sleep, Np!Switch, Np!Goto, Np!Unlocked, RankInv, RankType, HasProcess
<1>2. Np!share(tickslp[p], rng) \in Int
  BY <1>1, Share, Zenon
<1>3. /\ tickrng' \in [Np!Slot -> Nat] /\ tickls' \in [Np!Slot -> Nat]
      /\ niceness' \in [Np!Slot -> Int]
      /\ \A q \in Np!Slot : tickls'[q] <= ticks
      /\ \A q \in Np!Slot : q # p => niceness'[q] = niceness[q]
  <2>1. CASE build = "PBS"
    <3>1. /\ tickrng' = [tickrng EXCEPT ![p] = rng] /\ tickls' = [tickls EXCEPT ![p] = ticks]
          /\ niceness' = [niceness EXCEPT ![p] = Np!share(tickslp[p], rng)]
      BY <2>1, Zenon DEF Np!sleep
    <3> QED
      BY <1>1, <1>2, <3>1 DEF RankInv, RankType
  <2>2. CASE build # "PBS"
    BY <1>1, <2>2 DEF Np!sleep, RankInv, RankType
  <2> QED
    BY <2>1, <2>2, Zenon
<1>4. RankType'
  BY <1>1, <1>3, Zenon DEF RankInv, RankType
<1>5. HasProcess'
  BY <1>1, Zenon DEF RankInv, RankType, HasProcess
<1>6. \A q \in Np!Slot : q # p => state'[q] = state[q] /\ SameRank(q)
  BY <1>1, <1>3, Zenon DEF SameRank, RankInv, RankType
<1>7. state'[p] = "SLEEPING"
  BY <1>1, Zenon DEF RankInv, RankType
<1> HIDE DEF p
<1> QED
  BY <1>1, <1>4, <1>5, <1>6, <1>7, BehindRank, Zenon

\* wakeup() notes the process that becomes RUNNABLE.
LEMMA WakeupRank ==
    ASSUME RankInv, NEW c \in CPU, NEW p \in Np!Slot, Np!wakeup(c, p)
    PROVE  RankInv'
<1> DEFINE slp == ticks - tickls[p]
<1> USE DEF Np!nobody
<1>1. /\ lock[p] = 0 /\ slp \in Nat /\ tickrng[p] \in Nat
      /\ UNCHANGED <<build, stick, priority, nscheduled, tickrng, ticks, lock, on, pc, idx, best>>
      /\ state' = [state EXCEPT ![p] = "RUNNABLE"]
      /\ fresh' = [d \in CPU |-> fresh[d] \cup {p}]
  BY DEF Np!wakeup, Np!Note, Np!Unlocked, Np!cpus, RankInv, RankType
<1>2. Np!share(slp, tickrng[p]) \in Int
  BY <1>1, Share, Zenon
<1>3. /\ tickslp' \in [Np!Slot -> Nat] /\ tickls' \in [Np!Slot -> Nat]
      /\ niceness' \in [Np!Slot -> Int]
      /\ \A q \in Np!Slot : tickls'[q] <= ticks
      /\ \A q \in Np!Slot : q # p => niceness'[q] = niceness[q]
  <2>1. CASE build = "PBS"
    <3>1. /\ tickslp' = [tickslp EXCEPT ![p] = slp] /\ tickls' = [tickls EXCEPT ![p] = ticks]
          /\ niceness' = [niceness EXCEPT ![p] = Np!share(slp, tickrng[p])]
      BY <2>1, Zenon DEF Np!wakeup
    <3> QED
      BY <1>1, <1>2, <3>1 DEF RankInv, RankType
  <2>2. CASE build # "PBS"
    BY <1>1, <2>2, Zenon DEF Np!wakeup, RankInv, RankType
  <2> QED
    BY <2>1, <2>2, Zenon
<1>4. RankType'
  BY <1>1, <1>3, Zenon DEF RankInv, RankType
<1>5. HasProcess'
  BY <1>1, Zenon DEF RankInv, HasProcess
<1>6. \A q \in Np!Slot : q # p => state'[q] = state[q] /\ SameRank(q)
  BY <1>1, <1>3, Zenon DEF SameRank, RankInv, RankType
<1>7. \A d \in CPU : fresh[d] \subseteq fresh'[d] /\ p \in fresh'[d]
  BY <1>1, Zenon
<1> QED
  BY <1>1, <1>4, <1>5, <1>6, <1>7, BehindRank, Zenon

\* set_priority() notes the process whose priority it sets.
LEMMA PriorityRank ==
    ASSUME RankInv, NEW c \in CPU, NEW p \in Np!Slot, NEW new \in Int, Np!set_priority(c, p, new)
    PROVE  RankInv'
<1> USE DEF Np!nobody
<1>1. /\ lock[p] = 0 /\ pc[c] = "run"
      /\ UNCHANGED <<build, state, stick, nscheduled, tickls, tickslp, tickrng, ticks, lock, on,
                     idx, best>>
      /\ niceness' = [niceness EXCEPT ![p] = 5] /\ priority' = [priority EXCEPT ![p] = new]
      /\ pc' = [pc EXCEPT ![c] = "yield"] \/ pc' = pc
      /\ fresh' = [d \in CPU |-> fresh[d] \cup {p}]
  BY Zenon DEF Np!set_priority, Np!Note, Np!Goto, Np!Unlocked
<1>2. RankType'
  BY <1>1, SMTT(30) DEF RankInv, RankType
<1>3. HasProcess'
  BY <1>1, Zenon DEF RankInv, RankType, HasProcess
<1>4. \A q \in Np!Slot : q # p => state'[q] = state[q] /\ SameRank(q)
  BY <1>1, Zenon DEF SameRank, RankInv, RankType
<1>5. \A d \in CPU : fresh[d] \subseteq fresh'[d] /\ p \in fresh'[d]
  BY <1>1, Zenon
<1> QED
  BY <1>1, <1>2, <1>3, <1>4, <1>5, BehindRank, Zenon

\* yield() notes the process that becomes RUNNABLE.
LEMMA YieldRank ==
    ASSUME RankInv, NEW c \in CPU, Np!yield(c)
    PROVE  RankInv'
<1> DEFINE p == on[c]
<1> USE DEF Np!nobody
<1>1. /\ p \in Np!Slot /\ lock[p] = 0
      /\ UNCHANGED <<build, stick, priority, niceness, nscheduled, tickls, tickslp, ticks, lock,
                     idx, best>>
      /\ state' = [state EXCEPT ![p] = "RUNNABLE"] /\ tickrng' = [tickrng EXCEPT ![p] = ticks]
      /\ on' = [on EXCEPT ![c] = 0] /\ pc' = [pc EXCEPT ![c] = "scan"]
      /\ fresh' = [d \in CPU |-> fresh[d] \cup {p}]
  BY Zenon DEF Np!yield, Np!Switch, Np!Goto, Np!Note, Np!Unlocked, RankInv, RankType, HasProcess
<1>2. RankType'
  BY <1>1 DEF RankInv, RankType
<1>3. HasProcess'
  BY <1>1, Zenon DEF RankInv, RankType, HasProcess
<1>4. \A q \in Np!Slot : q # p => state'[q] = state[q] /\ SameRank(q)
  BY <1>1, Zenon DEF SameRank, RankInv, RankType
<1>5. \A d \in CPU : fresh[d] \subseteq fresh'[d] /\ p \in fresh'[d]
  BY <1>1, Zenon
<1> HIDE DEF p
<1> QED
  BY <1>1, <1>2, <1>3, <1>4, <1>5, BehindRank, Zenon

\* allocproc() in fork() and freeproc() in waitx() set the fields of a slot that no scan
\* keeps; fork() notes it.
LEMMA ResetRank ==
    ASSUME RankInv, NEW c \in CPU, NEW p \in Np!Slot, Np!fork(c, p) \/ Np!waitx(c, p)
    PROVE  RankInv'
<1> USE DEF Np!nobody
<1>1. /\ lock[p] = 0
      /\ UNCHANGED <<build, ticks, lock, on, pc, idx, best>>
  BY Zenon DEF Np!fork, Np!waitx, Np!Unlocked, Np!cpus
<1>2. PICK t \in Nat :
        /\ stick' = [stick EXCEPT ![p] = t] /\ priority' = [priority EXCEPT ![p] = 60]
        /\ niceness' = [niceness EXCEPT ![p] = 5] /\ nscheduled' = [nscheduled EXCEPT ![p] = 0]
        /\ tickls' = [tickls EXCEPT ![p] = 0] /\ tickslp' = [tickslp EXCEPT ![p] = 0]
        /\ tickrng' = [tickrng EXCEPT ![p] = 0]
  BY Zenon DEF Np!fork, Np!waitx, Np!Reset, RankInv, RankType
<1>3. \/ /\ state' = [state EXCEPT ![p] = "RUNNABLE"]
         /\ fresh' = [d \in CPU |-> fresh[d] \cup {p}]
      \/ state' = [state EXCEPT ![p] = "UNUSED"] /\ fresh' = fresh
  BY Zenon DEF Np!fork, Np!waitx, Np!Note
<1>4. RankType'
  BY <1>1, <1>2, <1>3 DEF RankInv, RankType
<1>5. HasProcess'
  BY <1>1, Zenon DEF RankInv, HasProcess
<1>6. \A q \in Np!Slot : q # p => state'[q] = state[q] /\ SameRank(q)
  BY <1>2, <1>3 DEF SameRank, RankInv, RankType
<1>7. /\ \A d \in CPU : fresh[d] \subseteq fresh'[d]
      /\ state'[p] = "RUNNABLE" => \A d \in CPU : p \in fresh'[d]
  BY <1>3 DEF RankInv, RankType
<1> QED
  BY <1>1, <1>4, <1>5, <1>6, <1>7, BehindRank, Zenon

\* exit() of a process that runs, which no scan keeps.
LEMMA ExitRank ==
    ASSUME RankInv, NEW c \in CPU, Np!exit(c)
    PROVE  RankInv'
<1> DEFINE p == on[c]
<1> USE DEF Np!nobody
<1>1. /\ p \in Np!Slot /\ lock[p] = 0
      /\ UNCHANGED <<build, stick, priority, niceness, nscheduled, tickls, tickslp, tickrng, ticks,
                     lock, idx, best, fresh>>
      /\ state' = [state EXCEPT ![p] = "ZOMBIE"]
      /\ on' = [on EXCEPT ![c] = 0] /\ pc' = [pc EXCEPT ![c] = "scan"]
  BY Zenon DEF Np!exit, Np!Switch, Np!Goto, Np!Unlocked, Np!pbs, RankInv, RankType, HasProcess
<1>2. RankType'
  BY <1>1, Zenon DEF RankInv, RankType
<1>3. HasProcess'
  BY <1>1, Zenon DEF RankInv, RankType, HasProcess
<1>4. \A q \in Np!Slot : q # p => state'[q] = state[q]
  BY <1>1, Zenon DEF RankInv, RankType
<1>5. \A q \in Np!Slot : SameRank(q)
  BY <1>1, Zenon DEF SameRank
<1>6. state'[p] = "ZOMBIE"
  BY <1>1, Zenon DEF RankInv, RankType
<1> HIDE DEF p
<1> QED
  BY <1>1, <1>2, <1>3, <1>4, <1>5, <1>6, BehindRank, Zenon

\* The timer interrupt and clockintr() change no rank.
LEMMA ClockRank ==
    ASSUME RankInv, Np!timer \/ Np!clockintr
    PROVE  RankInv'
<1> USE DEF Np!nobody
<1>1. UNCHANGED <<build, state, stick, priority, niceness, nscheduled, tickls, tickslp, tickrng,
                  lock, on, idx, best, fresh>>
  BY Zenon DEF Np!timer, Np!clockintr, Np!pbs
<1>2. ticks' \in Nat /\ ticks <= ticks' /\ ticks \in Nat
  BY DEF Np!timer, Np!clockintr, RankInv, RankType
<1>3. \/ pc' = pc
      \/ \E l \in {"clock", "scan", "run"} :
           pc' = [pc EXCEPT ![cpu0] = l] /\ (l = "run" => on[cpu0] # 0)
  BY Zenon DEF Np!timer, Np!clockintr, Np!Goto
<1>4. RankType'
  <2>1. pc' \in [CPU -> {"scan", "run", "clock", "yield"}]
    BY <1>3, Zenon DEF RankInv, RankType
  <2>2. \A q \in Np!Slot : tickls'[q] <= ticks'
    BY <1>1, <1>2 DEF RankInv, RankType
  <2> QED
    BY <1>1, <1>2, <2>1, <2>2, Zenon DEF RankInv, RankType
<1>5. HasProcess'
  BY <1>1, <1>3, NotNull, Zenon DEF RankInv, RankType, HasProcess
<1>6. \A q \in Np!Slot : SameRank(q)
  BY <1>1, Zenon DEF SameRank
<1> QED
  BY <1>1, <1>4, <1>5, <1>6, BehindRank, Zenon

\* Initially every CPU begins a scan.
LEMMA InitRank ==
    ASSUME Np!Init
    PROVE  RankInv
<1> USE DEF Np!nobody
<1>1. RankType
  BY DEF Np!Init, Np!zero, RankType
<1>2. BestKept /\ HasProcess
  BY Zenon DEF Np!Init, BestKept, HasProcess
<1>3. \A c \in CPU : Ranked(c)
  BY DEF Np!Init, Ranked, Np!Slot
<1> QED
  BY <1>1, <1>2, <1>3, Zenon DEF RankInv

\* Every step of FCFS and PBS keeps the invariant.
LEMMA StepRank ==
    ASSUME Priority \subseteq Int, RankInv, [Np!Next]_(Np!vars)
    PROVE  RankInv'
<1>1. CASE UNCHANGED Np!vars
  <2>1. UNCHANGED <<build, state, stick, priority, niceness, nscheduled, tickls, tickslp, tickrng,
                    ticks, lock, on, pc, idx, best, fresh>>
    BY <1>1, Zenon DEF Np!vars, Np!pbs, Np!cpus
  <2>2. RankType' /\ HasProcess'
    BY <2>1, Zenon DEF RankInv, RankType, HasProcess
  <2>3. \A q \in Np!Slot : SameRank(q)
    BY <2>1, Zenon DEF SameRank
  <2> QED
    BY <2>1, <2>2, <2>3, BehindRank, Zenon
<1>2. ASSUME NEW c \in CPU, Np!compute(c) PROVE RankInv'
  BY <1>1, <1>2, Zenon DEF Np!compute
<1>3. ASSUME NEW c \in CPU, NEW p \in Np!Slot, NEW new \in Priority, Np!set_priority(c, p, new)
      PROVE  RankInv'
  BY <1>3, PriorityRank, Zenon
<1> QED
  BY <1>1, <1>2, <1>3, ScanRank, DispatchRank, SleepRank, YieldRank, ExitRank, WakeupRank,
     ResetRank, ClockRank, Zenon
  DEF Np!Next

\* FCFS and PBS run no process while another one that was RUNNABLE throughout the scan
\* should have gone first, on any number of CPUs that scan at once.
THEOREM BestIsPicked ==
    ASSUME Priority \subseteq Int
    PROVE  Np!Spec => []Np!PicksBest
<1>1. RankInv => Np!PicksBest
  <2> SUFFICES ASSUME RankInv, NEW c \in CPU, idx[c] = NPROC + 1, best[c] # 0,
                      NEW p \in Np!Slot \ fresh[c], state[p] = "RUNNABLE"
               PROVE  ~Np!better(p, best[c])
    BY Zenon DEF Np!PicksBest, Np!nobody
  <2>1. p < idx[c]
    BY MlfqAssumption DEF Np!Slot
  <2> QED
    BY <2>1, Zenon DEF RankInv, Ranked
<1> QED
  BY <1>1, InitRank, StepRank, PTL DEF Np!Spec
-----------------------------------------------------------------------------
(***************************************************************************)
(* The waiting time that waitx() reports, on one CPU.                      *)
(***************************************************************************)
\* The tick that clockintr() has still to charge p for.
Due(p) == IF pc[cpu0] = "clock" /\ state[p] = "RUNNING" /\ clk <= p THEN 1 ELSE 0

Live == {"SLEEPING", "RUNNABLE", "RUNNING"}

\* Every tick since its creation found a live process off the CPU, has been charged to
\* it, or is about to be.
Accounted(p) ==
    /\ state[p] = "ZOMBIE" => etime[p] - ctime[p] - rtime[p] = waited[p]
    /\ state[p] \in Live => ticks - ctime[p] - rtime[p] = waited[p] + Due(p)

TimesType ==
    /\ state \in [Np!Slot -> {"UNUSED", "SLEEPING", "RUNNABLE", "RUNNING", "ZOMBIE"}]
    /\ ctime \in [Np!Slot -> Int] /\ rtime \in [Np!Slot -> Int]
    /\ etime \in [Np!Slot -> Int] /\ waited \in [Np!Slot -> Int]
    /\ ticks \in Int /\ clk \in Np!Slot
    /\ pc \in [{cpu0} -> {"scan", "run", "clock", "yield"}]
    /\ on \in [{cpu0} -> Np!Slot \cup {0}]
    /\ best \in [{cpu0} -> Np!Slot \cup {0}]
    /\ idx \in [{cpu0} -> Nat \ {0}]

\* A system call is of a process that is RUNNING; the best of the scan is RUNNABLE.
TimesInv ==
    /\ TimesType
    /\ on[cpu0] # 0 => state[on[cpu0]] = "RUNNING"
    /\ pc[cpu0] \in {"run", "yield"} => on[cpu0] # 0
    /\ best[cpu0] # 0 => state[best[cpu0]] = "RUNNABLE"
    /\ \A p \in Np!Slot : Accounted(p)

\* A step of a CPU that is not in clockintr() and changes no time.
LEMMA TimesFrame ==
    ASSUME NEW q \in Np!Slot, Accounted(q), pc[cpu0] # "clock", pc'[cpu0] # "clock",
           ticks' = ticks, ctime'[q] = ctime[q], rtime'[q] = rtime[q], waited'[q] = waited[q],
           \/ etime'[q] = etime[q] /\ state'[q] = state[q]
           \/ state[q] \in Live /\ state'[q] \in Live
    PROVE  Accounted(q)'
  BY Zenon DEF Accounted, Due, Live

\* The scan and the dispatch of a process.
LEMMA ScanTimes ==
    ASSUME TimesInv, Np!scan(cpu0) \/ Np!dispatch(cpu0)
    PROVE  TimesInv'
<1> USE DEF Np!nobody
<1>1. /\ UNCHANGED <<ctime, rtime, etime, waited, ticks, clk>>
      /\ pc[cpu0] = "scan"
  BY Zenon DEF Np!scan, Np!dispatch, Np!times
<1>2. idx' \in [{cpu0} -> Nat \ {0}]
  BY DEF Np!scan, Np!dispatch, TimesInv, TimesType
<1>3. CASE Np!scan(cpu0)
  <2>1. UNCHANGED <<state, on, pc>>
    BY <1>3, Zenon DEF Np!scan
  <2>2. \/ best' = best
        \/ /\ best' = [best EXCEPT ![cpu0] = idx[cpu0]] /\ idx[cpu0] \in Np!Slot
           /\ state[idx[cpu0]] = "RUNNABLE"
    <3>1. CASE best' = best
      BY <3>1, Zenon
    <3>2. CASE Np!take(cpu0, idx[cpu0]) /\ best' = [best EXCEPT ![cpu0] = idx[cpu0]]
      BY <1>3, <3>2, MlfqAssumption DEF Np!scan, Np!take, Np!Slot, TimesInv, TimesType
    <3> QED
      BY <1>3, <3>1, <3>2, Zenon DEF Np!scan
  <2> QED
    BY <1>1, <1>2, <2>1, <2>2, Zenon DEF TimesInv, TimesType, Accounted, Due
<1>4. CASE Np!dispatch(cpu0) /\ best[cpu0] = 0
  <2>1. UNCHANGED <<state, on, pc>> /\ best' = [best EXCEPT ![cpu0] = 0]
    BY <1>4, Zenon DEF Np!dispatch
  <2> QED
    BY <1>1, <1>2, <2>1, Zenon DEF TimesInv, TimesType, Accounted, Due
<1>5. CASE Np!dispatch(cpu0) /\ best[cpu0] # 0
  <2>1. PICK b \in Np!Slot : b = best[cpu0] /\ state[b] = "RUNNABLE"
    BY <1>5, Zenon DEF TimesInv, TimesType
  <2>2. /\ state' = [state EXCEPT ![b] = "RUNNING"]
        /\ on' = [on EXCEPT ![cpu0] = b] /\ pc' = [pc EXCEPT ![cpu0] = "run"]
        /\ best' = [best EXCEPT ![cpu0] = 0]
    BY <1>5, <2>1, Zenon DEF Np!dispatch, Np!Goto
  <2>3. /\ TimesType' /\ on'[cpu0] = b /\ pc'[cpu0] = "run" /\ best'[cpu0] = 0
        /\ state'[b] = "RUNNING" /\ \A q \in Np!Slot : q # b => state'[q] = state[q]
    BY <1>1, <1>2, <2>2, Zenon DEF TimesInv, TimesType
  <2>4. ASSUME NEW q \in Np!Slot PROVE Accounted(q)'
    <3>1. Accounted(q)
      BY Zenon DEF TimesInv
    <3> QED
      BY <1>1, <2>1, <2>3, <3>1, TimesFrame, Zenon DEF Live
  <2> QED
    BY <2>3, <2>4, NotNull, Zenon DEF TimesInv
<1> QED
  BY <1>3, <1>4, <1>5, Zenon

\* A system call that takes the process off the CPU; exit() also sets its etime.
LEMMA LeaveTimes ==
    ASSUME TimesInv, Np!sleep(cpu0) \/ Np!yield(cpu0) \/ Np!exit(cpu0)
    PROVE  TimesInv'
<1> USE DEF Np!nobody
<1>1. pc[cpu0] \in {"run", "yield"} /\ UNCHANGED <<ctime, rtime, waited, ticks, clk, best, idx>>
  BY Zenon DEF Np!sleep, Np!yield, Np!exit, Np!times
<1>2. PICK p \in Np!Slot : p = on[cpu0] /\ state[p] = "RUNNING"
  BY <1>1, Zenon DEF TimesInv, TimesType
<1>3. PICK s \in {"SLEEPING", "RUNNABLE", "ZOMBIE"} :
        /\ state' = [state EXCEPT ![p] = s]
        /\ on' = [on EXCEPT ![cpu0] = 0] /\ pc' = [pc EXCEPT ![cpu0] = "scan"]
        /\ \/ s \in Live /\ etime' = etime
           \/ s = "ZOMBIE" /\ etime' = [etime EXCEPT ![p] = ticks]
  BY <1>2, Zenon DEF Np!sleep, Np!yield, Np!exit, Np!Switch, Np!Goto, Np!times, Live
<1>4. /\ TimesType' /\ on'[cpu0] = 0 /\ pc'[cpu0] = "scan" /\ state'[p] = s
      /\ \A q \in Np!Slot : q # p => state'[q] = state[q] /\ etime'[q] = etime[q]
  BY <1>1, <1>3 DEF TimesInv, TimesType
<1>5. best'[cpu0] # 0 => state'[best'[cpu0]] = "RUNNABLE"
  BY <1>1, <1>2, <1>4, Zenon DEF TimesInv, TimesType
<1>6. ASSUME NEW q \in Np!Slot PROVE Accounted(q)'
  <2>1. Accounted(q)
    BY Zenon DEF TimesInv
  <2>2. CASE q # p
    BY <1>1, <1>4, <2>1, <2>2, TimesFrame, Zenon
  <2>3. CASE q = p /\ s \in Live
    BY <1>1, <1>2, <1>4, <2>1, <2>3, TimesFrame, Zenon DEF Live
  <2>4. CASE q = p /\ s = "ZOMBIE"
    <3>1. ticks - ctime[p] - rtime[p] = waited[p] + 0
      BY <1>1, <1>2, <2>1, <2>4, Zenon DEF Accounted, Due, Live
    <3>2. etime'[p] = ticks
      BY <1>3, <2>4, Zenon DEF TimesInv, TimesType, Live
    <3> QED
      BY <1>1, <1>4, <2>4, <3>1, <3>2 DEF Accounted, Live, TimesInv, TimesType
  <2> QED
    BY <2>2, <2>3, <2>4, Zenon DEF Live
<1> QED
  BY <1>4, <1>5, <1>6, Zenon DEF TimesInv

\* A call that changes another process: wakeup(), fork() and waitx().
LEMMA OtherTimes ==
    ASSUME TimesInv, NEW p \in Np!Slot,
           Np!wakeup(cpu0, p) \/ Np!fork(cpu0, p) \/ Np!waitx(cpu0, p)
    PROVE  TimesInv'
<1> USE DEF Np!nobody
<1>1. /\ UNCHANGED <<ticks, on, pc, idx, best, clk>>
      /\ pc[cpu0] # "clock" /\ state[p] \in {"SLEEPING", "UNUSED", "ZOMBIE"}
  BY Zenon DEF Np!wakeup, Np!fork, Np!waitx, Np!cpus, Np!Interruptible
<1>2. PICK s \in {"RUNNABLE", "UNUSED"} : state' = [state EXCEPT ![p] = s]
  BY Zenon DEF Np!wakeup, Np!fork, Np!waitx
<1>3. /\ TimesType'
      /\ \A q \in Np!Slot : q # p => /\ ctime'[q] = ctime[q] /\ rtime'[q] = rtime[q]
                                     /\ etime'[q] = etime[q] /\ waited'[q] = waited[q]
  <2>1. CASE UNCHANGED <<ctime, rtime, etime, waited>>
    BY <1>1, <1>2, <2>1, Zenon DEF TimesInv, TimesType
  <2>2. ASSUME NEW t \in Int, Np!Reset(p, t)
        PROVE  /\ TimesType'
               /\ \A q \in Np!Slot : q # p => /\ ctime'[q] = ctime[q] /\ rtime'[q] = rtime[q]
                                              /\ etime'[q] = etime[q] /\ waited'[q] = waited[q]
    <3>1. /\ ctime' = [ctime EXCEPT ![p] = t] /\ rtime' = [rtime EXCEPT ![p] = 0]
          /\ etime' = [etime EXCEPT ![p] = 0] /\ waited' = [waited EXCEPT ![p] = 0]
      BY <2>2, Zenon DEF Np!Reset
    <3> QED
      BY <1>1, <1>2, <3>1 DEF TimesInv, TimesType
  <2>3. ticks \in Int /\ 0 \in Int
    BY DEF TimesInv, TimesType
  <2> QED
    BY <2>1, <2>2, <2>3, Zenon DEF Np!wakeup, Np!fork, Np!waitx, Np!times
<1>4. state'[p] = s /\ \A q \in Np!Slot : q # p => state'[q] = state[q]
  BY <1>2, Zenon DEF TimesInv, TimesType
<1>5. /\ on'[cpu0] # 0 => state'[on'[cpu0]] = "RUNNING"
      /\ best'[cpu0] # 0 => state'[best'[cpu0]] = "RUNNABLE"
  BY <1>1, <1>4, Zenon DEF TimesInv, TimesType
<1>6. ASSUME NEW q \in Np!Slot PROVE Accounted(q)'
  <2>1. Accounted(q)
    BY Zenon DEF TimesInv
  <2>2. CASE q # p
    BY <1>1, <1>3, <1>4, <2>1, <2>2, TimesFrame, Zenon
  <2>3. CASE q = p /\ Np!wakeup(cpu0, p)
    <3>1. UNCHANGED <<ctime, rtime, waited>> /\ state[p] \in Live /\ state'[p] \in Live
      BY <1>2, <2>3, Zenon DEF Np!wakeup, Np!times, Live, TimesInv, TimesType
    <3> QED
      BY <1>1, <2>1, <2>3, <3>1, TimesFrame, Zenon
  <2>4. CASE q = p /\ Np!fork(cpu0, p)
    <3>1. ctime'[p] = ticks /\ rtime'[p] = 0 /\ waited'[p] = 0 /\ state'[p] = "RUNNABLE"
      BY <2>4, Zenon DEF Np!fork, Np!Reset, TimesInv, TimesType
    <3> QED
      BY <1>1, <2>4, <3>1 DEF Accounted, Due, Live, TimesInv, TimesType
  <2>5. CASE q = p /\ Np!waitx(cpu0, p)
    <3>1. state'[p] = "UNUSED"
      BY <2>5, Zenon DEF Np!waitx, TimesInv, TimesType
    <3> QED
      BY <2>5, <3>1, Zenon DEF Accounted, Live
  <2> QED
    BY <2>2, <2>3, <2>4, <2>5, Zenon
<1>7. pc'[cpu0] \in {"run", "yield"} => on'[cpu0] # 0
  BY <1>1, Zenon DEF TimesInv
<1> QED
  BY <1>3, <1>5, <1>6, <1>7, Zenon DEF TimesInv

\* set_priority() changes no time.
LEMMA PriorityTimes ==
    ASSUME TimesInv, NEW p \in Np!Slot, NEW new, Np!set_priority(cpu0, p, new)
    PROVE  TimesInv'
<1>1. /\ UNCHANGED <<state, ctime, rtime, etime, waited, ticks, on, idx, best, clk>>
      /\ pc[cpu0] = "run" /\ (pc' = [pc EXCEPT ![cpu0] = "yield"] \/ pc' = pc)
  BY Zenon DEF Np!set_priority, Np!Goto, Np!times
<1>2. TimesType' /\ pc'[cpu0] # "clock"
  BY <1>1, Zenon DEF TimesInv, TimesType
<1>3. \A q \in Np!Slot : Accounted(q)'
  BY <1>1, <1>2, TimesFrame, Zenon DEF TimesInv
<1> QED
  BY <1>1, <1>2, <1>3, Zenon DEF TimesInv

\* The tick finds the process on the CPU, which it will be charged to, and the others
\* off it, which waited.
LEMMA TimerTimes ==
    ASSUME TimesInv, Np!timer
    PROVE  TimesInv'
<1> USE DEF Np!nobody
<1>1. /\ pc[cpu0] # "clock" /\ ticks' = ticks + 1 /\ clk' = 1
      /\ UNCHANGED <<state, ctime, rtime, etime, on, idx, best>>
      /\ pc' = [pc EXCEPT ![cpu0] = "clock"]
      /\ waited' = [p \in Np!Slot |->
            IF state[p] \in {"SLEEPING", "RUNNABLE"} THEN waited[p] + 1 ELSE waited[p]]
  BY Zenon DEF Np!timer, Np!Interruptible, Np!Goto
<1>2. TimesType' /\ pc'[cpu0] = "clock"
  <2>1. 1 \in Np!Slot
    BY MlfqAssumption DEF Np!Slot
  <2> QED
    BY <1>1, <2>1 DEF TimesInv, TimesType
<1>3. ASSUME NEW p \in Np!Slot PROVE Accounted(p)'
  <2>1. /\ Accounted(p) /\ ticks \in Int /\ ctime[p] \in Int /\ rtime[p] \in Int
        /\ etime[p] \in Int /\ waited[p] \in Int /\ clk' <= p
    BY <1>1, SMTT(30) DEF TimesInv, TimesType, Np!Slot
  <2>2. waited'[p] = IF state[p] \in {"SLEEPING", "RUNNABLE"} THEN waited[p] + 1 ELSE waited[p]
    BY <1>1, Zenon
  <2> QED
    BY <1>1, <1>2, <2>1, <2>2 DEF Accounted, Due, Live
<1> QED
  BY <1>1, <1>2, <1>3, Zenon DEF TimesInv

\* clockintr() charges the process on the CPU once.
LEMMA ClockTimes ==
    ASSUME TimesInv, Np!clockintr
    PROVE  TimesInv'
<1> USE DEF Np!nobody
<1>1. /\ pc[cpu0] = "clock"
      /\ UNCHANGED <<state, ctime, etime, waited, ticks, on, idx, best>>
      /\ rtime' = IF state[clk] = "RUNNING" THEN [rtime EXCEPT ![clk] = @ + 1] ELSE rtime
  BY Zenon DEF Np!clockintr, Np!charge
<1>2. \/ clk < NPROC /\ clk' = clk + 1 /\ pc' = pc
      \/ /\ ~(clk < NPROC) /\ clk' = 1
         /\ pc' = [pc EXCEPT ![cpu0] = IF on[cpu0] = 0 THEN "scan" ELSE "run"]
  BY Zenon DEF Np!clockintr, Np!Goto
<1>3. TimesType' /\ (pc'[cpu0] \in {"run", "yield"} => on'[cpu0] # 0)
  <2>1. clk' \in Np!Slot
    BY <1>2, MlfqAssumption DEF Np!Slot, TimesInv, TimesType
  <2>2. pc' \in [{cpu0} -> {"scan", "run", "clock", "yield"}]
    BY <1>2, Zenon DEF TimesInv, TimesType
  <2>3. rtime' \in [Np!Slot -> Int]
    BY <1>1 DEF TimesInv, TimesType
  <2>4. pc'[cpu0] \in {"run", "yield"} => on'[cpu0] # 0
    BY <1>1, <1>2, Zenon DEF TimesInv, TimesType
  <2> QED
    BY <1>1, <2>1, <2>2, <2>3, <2>4, Zenon DEF TimesInv, TimesType
<1>4. ASSUME NEW p \in Np!Slot PROVE Accounted(p)'
  <2>1. /\ Accounted(p) /\ ticks \in Int /\ ctime[p] \in Int /\ rtime[p] \in Int
        /\ etime[p] \in Int /\ waited[p] \in Int /\ clk \in 1..NPROC /\ p \in 1..NPROC
    BY Zenon DEF TimesInv, TimesType, Np!Slot
  <2>2. rtime'[p] = IF p = clk /\ state[p] = "RUNNING" THEN rtime[p] + 1 ELSE rtime[p]
    BY <1>1, Zenon DEF TimesInv, TimesType
  <2>3. Due(p)' = IF p = clk THEN 0 ELSE Due(p)
    <3>1. CASE clk < NPROC
      BY <1>1, <1>2, <2>1, <3>1, MlfqAssumption DEF Due
    <3>2. CASE ~(clk < NPROC)
      <4>1. clk = NPROC /\ p <= clk
        BY <2>1, <3>2, MlfqAssumption
      <4>2. pc'[cpu0] # "clock"
        BY <1>2, <3>2, Zenon DEF TimesInv, TimesType
      <4> QED
        BY <1>1, <2>1, <4>1, <4>2, MlfqAssumption DEF Due
    <3> QED
      BY <3>1, <3>2, Zenon
  <2>4. Due(p) = IF state[p] = "RUNNING" /\ clk <= p THEN 1 ELSE 0
    BY <1>1, Zenon DEF Due
  <2> QED
    BY <1>1, <2>1, <2>2, <2>3, <2>4 DEF Accounted, Live
<1> QED
  BY <1>1, <1>3, <1>4, Zenon DEF TimesInv

\* Every step on one CPU keeps the accounts.
LEMMA StepTimes ==
    ASSUME CPU = {cpu0}, TimesInv, [Np!Next]_(Np!vars)
    PROVE  TimesInv'
<1>1. CASE UNCHANGED Np!vars
  BY <1>1, Zenon DEF Np!vars, Np!times, Np!cpus, TimesInv, TimesType, Accounted, Due
<1>2. CASE Np!compute(cpu0)
  BY <1>1, <1>2, Zenon DEF Np!compute
<1> QED
  BY <1>1, <1>2, ScanTimes, LeaveTimes, OtherTimes, PriorityTimes, TimerTimes,
     ClockTimes, Zenon
  DEF Np!Next

\* On one CPU the waiting time that waitx() computes for a child, from its creation, its
\* exit and the ticks it was charged for, is the ticks that found it off the CPU.
THEOREM WaitIsCounted ==
    ASSUME CPU = {cpu0}
    PROVE  Np!Spec => []Np!WaitTimeCounts
<1>1. Np!Init => TimesInv
  <2> SUFFICES ASSUME Np!Init PROVE TimesInv
    BY Zenon
  <2>1. TimesType
    BY MlfqAssumption DEF Np!Init, Np!zero, Np!nobody, Np!Slot, TimesType
  <2>2. \A p \in Np!Slot : Accounted(p)
    BY DEF Np!Init, Np!zero, Accounted, Due
  <2> QED
    BY <2>1, <2>2, Zenon DEF Np!Init, Np!nobody, TimesInv
<1>2. TimesInv => Np!WaitTimeCounts
  BY Zenon DEF TimesInv, Accounted, Np!WaitTimeCounts, Np!wtime
<1> QED
  BY <1>1, <1>2, StepTimes, PTL DEF Np!Spec
=============================================================================
