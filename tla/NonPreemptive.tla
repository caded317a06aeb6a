--------------------------- MODULE NonPreemptive ---------------------------
(***************************************************************************)
(* The schedulers that do not preempt (kernel/proc.c built with FCFS or    *)
(* with PBS) on several CPUs, and the times that waitx() reports.          *)
(*                                                                         *)
(* As in Mlfq a step is a critical section of one p->lock; the scan keeps  *)
(* the lock of the best process so far.  ticks is read without tickslock.  *)
(* The fields of a slot that is UNUSED are overwritten before they are     *)
(* read, and kept as allocproc() sets them.                                *)
(***************************************************************************)
EXTENDS Integers, FiniteSets

CONSTANTS
    NPROC,          \* size of the process table
    CPU,            \* harts
    cpu0,           \* the hart that runs clockintr()
    Builds,         \* subset of {"FCFS", "PBS"}
    Priority,       \* arguments of set_priority()
    MaxTick,        \* bound: the clock stops there
    MaxSched        \* bound: a process does not give up the CPU any more

Slot == 1..NPROC
nobody == 0

VARIABLES
    build,          \* the scheduler compiled in
    state,          \* p->state
    stick,          \* p->stick
    priority,       \* p->priority
    niceness,       \* p->niceness
    nscheduled,     \* p->nscheduled
    tickls, tickslp, tickrng,
    ctime, rtime, etime,
    ticks,          \* the tick counter
    lock,           \* CPU whose scan keeps p->lock
    on,             \* c->proc
    pc,             \* what each CPU executes
    idx,            \* loop counter of the scan
    best,           \* best process of the scan so far
    clk,            \* loop counter of clockintr()
    fresh,          \* history: processes whose rank changed during a CPU's scan
    waited          \* history: ticks that found the process off the CPU

pbs == <<priority, niceness, nscheduled, tickls, tickslp, tickrng>>
times == <<ctime, rtime, etime, waited>>
cpus == <<lock, on, pc, idx, best, clk>>
vars == <<build, state, stick, pbs, times, ticks, cpus, fresh>>

TypeOK ==
    /\ state \in [Slot -> {"UNUSED", "SLEEPING", "RUNNABLE", "RUNNING", "ZOMBIE"}]
    /\ {stick, tickls, tickslp, tickrng, ctime, rtime, etime, waited}
          \subseteq [Slot -> 0..MaxTick]
    /\ niceness \in [Slot -> 0..10]
    /\ pc \in [CPU -> {"scan", "run", "clock", "yield"}]

zero == [p \in Slot |-> 0]

Init ==
    /\ build \in Builds
    /\ state = [p \in Slot |-> IF p = 1 THEN "RUNNABLE" ELSE "UNUSED"]
    /\ stick = zero /\ priority = [p \in Slot |-> 60]
    /\ niceness = [p \in Slot |-> 5] /\ nscheduled = zero
    /\ tickls = zero /\ tickslp = zero /\ tickrng = zero
    /\ ctime = zero /\ rtime = zero /\ etime = zero /\ waited = zero
    /\ ticks = 0
    /\ lock = zero
    /\ on = [c \in CPU |-> nobody]
    /\ pc = [c \in CPU |-> "scan"]
    /\ idx = [c \in CPU |-> 1]
    /\ best = [c \in CPU |-> nobody]
    /\ clk = 1
    /\ fresh = [c \in CPU |-> {}]

Unlocked(p) == lock[p] = nobody
Goto(c, l) == pc' = [pc EXCEPT ![c] = l]
Note(p) == fresh' = [c \in CPU |-> fresh[c] \cup {p}]
-----------------------------------------------------------------------------
(***************************************************************************)
(* scheduler()                                                             *)
(***************************************************************************)
Within(a, lo, hi) == IF a < lo THEN lo ELSE IF a > hi THEN hi ELSE a

compute_priority(p) == Within(priority[p] - niceness[p] + 5, 0, 100)

\* p goes before b.
compare_priority(b, p) ==
    LET p1 == compute_priority(b)
        p2 == compute_priority(p)
    IN  CASE p1 # p2 -> p2 < p1
          [] p1 = p2 /\ nscheduled[b] # nscheduled[p] -> nscheduled[p] < nscheduled[b]
          [] OTHER -> stick[p] > stick[b]

better(p, b) == IF build = "FCFS" THEN stick[b] > stick[p] ELSE compare_priority(b, p)

\* The lock of the best process so far is kept.
keep_best(c, p) ==
    [q \in Slot |-> IF q = p THEN c ELSE IF q = best[c] THEN nobody ELSE lock[q]]

\* Whether p becomes the best process of the scan.
take_first(c, p) == state[p] = "RUNNABLE" /\ best[c] = nobody
take(c, p) == state[p] = "RUNNABLE" /\ (best[c] = nobody \/ better(p, best[c]))

scan(c) ==
    LET p == idx[c]
    IN  /\ pc[c] = "scan"
        /\ p <= NPROC
        /\ Unlocked(p)
        /\ IF take(c, p)
             THEN best' = [best EXCEPT ![c] = p] /\ lock' = keep_best(c, p)
             ELSE UNCHANGED <<best, lock>>
        /\ idx' = [idx EXCEPT ![c] = @ + 1]
        /\ UNCHANGED <<build, state, stick, pbs, times, ticks, on, pc, clk, fresh>>

\* The end of the pass; the process switched to releases its lock.
dispatch(c) ==
    LET b == best[c]
    IN  /\ pc[c] = "scan"
        /\ idx[c] = NPROC + 1
        /\ IF b = nobody THEN UNCHANGED <<state, tickls, nscheduled, lock, on, pc>>
           ELSE /\ state' = [state EXCEPT ![b] = "RUNNING"]
                /\ IF build = "PBS"
                     THEN /\ tickls' = [tickls EXCEPT ![b] = ticks]
                          /\ nscheduled' = [nscheduled EXCEPT ![b] = @ + 1]
                     ELSE UNCHANGED <<tickls, nscheduled>>
                /\ lock' = [lock EXCEPT ![b] = nobody]
                /\ on' = [on EXCEPT ![c] = b]
                /\ Goto(c, "run")
        /\ best' = [best EXCEPT ![c] = nobody]
        /\ idx' = [idx EXCEPT ![c] = 1]
        /\ fresh' = [fresh EXCEPT ![c] = {}]
        /\ UNCHANGED <<build, stick, priority, niceness, tickslp, tickrng, times,
                       ticks, clk>>

Switch(c) == on' = [on EXCEPT ![c] = nobody] /\ Goto(c, "scan")
-----------------------------------------------------------------------------
(***************************************************************************)
(* System calls of the process on CPU c.                                   *)
(***************************************************************************)
share(slp, rng) == IF slp + rng = 0 THEN 0 ELSE (slp * 10) \div (slp + rng)

\* The process computes, without giving up the CPU.
compute(c) == pc[c] = "run" /\ UNCHANGED vars

sleep(c) ==
    LET p == on[c]
        rng == ticks - tickls[p]
    IN  /\ pc[c] = "run" /\ Unlocked(p)
        /\ nscheduled[p] < MaxSched
        /\ state' = [state EXCEPT ![p] = "SLEEPING"]
        /\ IF build = "PBS"
             THEN /\ tickrng' = [tickrng EXCEPT ![p] = rng]
                  /\ tickls' = [tickls EXCEPT ![p] = ticks]
                  /\ niceness' = [niceness EXCEPT ![p] = share(tickslp[p], rng)]
             ELSE UNCHANGED <<tickrng, tickls, niceness>>
        /\ Switch(c)
        /\ UNCHANGED <<build, stick, priority, nscheduled, tickslp, times, ticks,
                       lock, idx, best, clk, fresh>>

\* wakeup(), or the same lines of kill(), in a call or an interrupt.
Interruptible(c) == pc[c] = "run" \/ (pc[c] = "scan" /\ best[c] = nobody)

wakeup(c, p) ==
    LET slp == ticks - tickls[p]
    IN  /\ Interruptible(c)
        /\ state[p] = "SLEEPING" /\ Unlocked(p)
        /\ state' = [state EXCEPT ![p] = "RUNNABLE"]
        /\ IF build = "PBS"
             THEN /\ tickslp' = [tickslp EXCEPT ![p] = slp]
                  /\ tickls' = [tickls EXCEPT ![p] = ticks]
                  /\ niceness' = [niceness EXCEPT ![p] = share(slp, tickrng[p])]
             ELSE UNCHANGED <<tickslp, tickls, niceness>>
        /\ Note(p)
        /\ UNCHANGED <<build, stick, priority, nscheduled, tickrng, times, ticks, cpus>>

\* set_priority(); raising a priority makes the caller yield.
set_priority(c, p, new) ==
    /\ build = "PBS"
    /\ pc[c] = "run" /\ nscheduled[on[c]] < MaxSched
    /\ state[p] \in {"SLEEPING", "RUNNING", "RUNNABLE"} /\ Unlocked(p)
    /\ niceness' = [niceness EXCEPT ![p] = 5]
    /\ priority' = [priority EXCEPT ![p] = new]
    /\ IF new < priority[p] THEN Goto(c, "yield") ELSE UNCHANGED pc
    /\ Note(p)
    /\ UNCHANGED <<build, state, stick, nscheduled, tickls, tickslp, tickrng, times,
                   ticks, lock, on, idx, best, clk>>

yield(c) ==
    LET p == on[c]
    IN  /\ pc[c] = "yield" /\ Unlocked(p)
        /\ state' = [state EXCEPT ![p] = "RUNNABLE"]
        /\ tickrng' = [tickrng EXCEPT ![p] = ticks]
        /\ Switch(c)
        /\ Note(p)
        /\ UNCHANGED <<build, stick, priority, niceness, nscheduled, tickls, tickslp,
                       times, ticks, lock, idx, best, clk>>

\* What allocproc() sets, t being the time.
Reset(p, t) ==
    /\ stick' = [stick EXCEPT ![p] = t]
    /\ priority' = [priority EXCEPT ![p] = 60]
    /\ niceness' = [niceness EXCEPT ![p] = 5]
    /\ nscheduled' = [nscheduled EXCEPT ![p] = 0]
    /\ tickls' = [tickls EXCEPT ![p] = 0]
    /\ tickslp' = [tickslp EXCEPT ![p] = 0]
    /\ tickrng' = [tickrng EXCEPT ![p] = 0]
    /\ ctime' = [ctime EXCEPT ![p] = t]
    /\ rtime' = [rtime EXCEPT ![p] = 0]
    /\ etime' = [etime EXCEPT ![p] = 0]
    /\ waited' = [waited EXCEPT ![p] = 0]

fork(c, p) ==
    /\ pc[c] = "run"
    /\ state[p] = "UNUSED" /\ Unlocked(p)
    /\ state' = [state EXCEPT ![p] = "RUNNABLE"]
    /\ Reset(p, ticks)
    /\ Note(p)
    /\ UNCHANGED <<build, ticks, cpus>>

exit(c) ==
    LET p == on[c]
    IN  /\ pc[c] = "run" /\ p # 1 /\ Unlocked(p)
        /\ state' = [state EXCEPT ![p] = "ZOMBIE"]
        /\ etime' = [etime EXCEPT ![p] = ticks]
        /\ Switch(c)
        /\ UNCHANGED <<build, stick, pbs, ctime, rtime, waited, ticks, lock, idx, best,
                       clk, fresh>>

\* waitx() frees the child; what it reports is wtime() and p->rtime.
wtime(p) == etime[p] - ctime[p] - rtime[p]

waitx(c, p) ==
    /\ pc[c] = "run" /\ p # on[c]
    /\ state[p] = "ZOMBIE" /\ Unlocked(p)
    /\ state' = [state EXCEPT ![p] = "UNUSED"]
    /\ Reset(p, 0)
    /\ UNCHANGED <<build, ticks, cpus, fresh>>
-----------------------------------------------------------------------------
(***************************************************************************)
(* The timer interrupt on cpu0.                                            *)
(***************************************************************************)
timer ==
    /\ Interruptible(cpu0) /\ ticks < MaxTick
    /\ ticks' = ticks + 1
    /\ waited' = [p \in Slot |->
          IF state[p] \in {"SLEEPING", "RUNNABLE"} THEN waited[p] + 1 ELSE waited[p]]
    /\ Goto(cpu0, "clock") /\ clk' = 1
    /\ UNCHANGED <<build, state, stick, pbs, ctime, rtime, etime, lock, on, idx, best,
                   fresh>>

\* The process at slot clk is charged for the tick.
charge_all(p) == state[p] \in {"RUNNING", "RUNNABLE"}
charge(p) == state[p] = "RUNNING"

clockintr ==
    /\ pc[cpu0] = "clock" /\ Unlocked(clk)
    /\ rtime' = IF charge(clk) THEN [rtime EXCEPT ![clk] = @ + 1] ELSE rtime
    /\ IF clk < NPROC THEN clk' = clk + 1 /\ UNCHANGED pc
       ELSE clk' = 1 /\ Goto(cpu0, IF on[cpu0] = nobody THEN "scan" ELSE "run")
    /\ UNCHANGED <<build, state, stick, pbs, ctime, etime, waited, ticks, lock, on, idx,
                   best, fresh>>

Next ==
    \/ timer \/ clockintr
    \/ \E c \in CPU :
         \/ scan(c) \/ dispatch(c) \/ compute(c) \/ sleep(c) \/ yield(c) \/ exit(c)
         \/ \E p \in Slot :
              \/ wakeup(c, p) \/ fork(c, p) \/ waitx(c, p)
              \/ \E new \in Priority : set_priority(c, p, new)

Spec == Init /\ [][Next]_vars
-----------------------------------------------------------------------------
(***************************************************************************)
(* Properties.                                                             *)
(***************************************************************************)
\* README.md lines 56 and 90: at the end of a scan no RUNNABLE process should
\* have gone first, by start time (FCFS) or by dynamic priority, times
\* scheduled and start time (PBS), but for processes that became RUNNABLE or
\* changed priority behind the scan's back.
PicksBest ==
    \A c \in CPU :
        pc[c] = "scan" /\ idx[c] = NPROC + 1 /\ best[c] # nobody =>
            \A p \in Slot \ fresh[c] : state[p] = "RUNNABLE" => ~better(p, best[c])

\* The waiting time that waitx() reports, computed from the times of creation
\* and of exit and from the ticks charged, is the ticks that found the process
\* off the CPU.
WaitTimeCounts == \A p \in Slot : state[p] = "ZOMBIE" => wtime(p) = waited[p]
=============================================================================
