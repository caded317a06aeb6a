-------------------------------- MODULE Mlfq --------------------------------
(***************************************************************************)
(* The multi-level feedback queue scheduler (kernel/proc.c and             *)
(* kernel/trap.c built with MLFQ) on several CPUs: the scan for the best   *)
(* process, which keeps the lock of the best one so far, time slices,      *)
(* preemption by the timer, demotion in yield() and aging in clockintr().  *)
(*                                                                         *)
(* Tick numbers are compared and nothing else, so they are renumbered      *)
(* after every step, in order and without gaps, and stay finite; the       *)
(* p->intime of a process that is not RUNNABLE is overwritten before it is *)
(* read again and is kept at 0.  wakeup(&ticks) at the end of clockintr()  *)
(* is one of the wakeups of an interrupt.                                  *)
(***************************************************************************)
EXTENDS Integers, FiniteSets

CONSTANTS
    NPROC,          \* size of the process table
    CPU,            \* harts
    cpu0,           \* the hart that runs clockintr()
    NQUEUE,         \* number of queues
    MAX_WAIT_TIME,  \* ticks a process waits before it moves up a queue
    MayFork         \* processes are created and exit

ASSUME MlfqAssumption ==
    /\ {NPROC, NQUEUE, MAX_WAIT_TIME} \subseteq Nat \ {0}
    /\ cpu0 \in CPU /\ 0 \notin CPU
    /\ MayFork \in BOOLEAN

Slot == 1..NPROC
nobody == 0

VARIABLES
    state,          \* p->state
    queue,          \* p->queue
    intime,         \* p->intime
    ticksused,      \* p->ticksused
    waittime,       \* p->waittime
    ticks,          \* the tick counter
    lock,           \* CPU whose scan keeps p->lock
    on,             \* c->proc
    pc,             \* what each CPU executes
    idx,            \* loop counter of the scan and of the preemption test
    best,           \* best process of the scan so far
    clk             \* loop counter of clockintr()

vars == <<state, queue, intime, ticksused, waittime, ticks, lock, on, pc, idx,
          best, clk>>

\* A process can use this many ticks before it leaves queue q: 1 << q.
slice(q) == 2^q

TypeOK ==
    /\ state \in [Slot -> {"UNUSED", "SLEEPING", "RUNNABLE", "RUNNING"}]
    /\ queue \in [Slot -> 0..(NQUEUE - 1)]
    /\ intime \in [Slot -> 0..(NPROC + 1)]
    /\ ticksused \in [Slot -> 0..slice(NQUEUE - 1)]
    /\ waittime \in [Slot -> 0..(MAX_WAIT_TIME - 1)]
    /\ ticks \in 0..(NPROC + 1)
    /\ lock \in [Slot -> CPU \cup {nobody}]
    /\ on \in [CPU -> Slot \cup {nobody}]
    /\ pc \in [CPU -> {"scan", "run", "clock", "tick", "look", "yield"}]
    /\ idx \in [CPU -> 1..(NPROC + 1)]
    /\ best \in [CPU -> Slot \cup {nobody}]
    /\ clk \in 1..NPROC

\* One process, or all of them when none will be created.
Init ==
    /\ state = [p \in Slot |-> IF p = 1 \/ ~MayFork THEN "RUNNABLE"
                                                    ELSE "UNUSED"]
    /\ queue = [p \in Slot |-> 0]
    /\ intime = [p \in Slot |-> 0]
    /\ ticksused = [p \in Slot |-> 0]
    /\ waittime = [p \in Slot |-> 0]
    /\ ticks = 0
    /\ lock = [p \in Slot |-> nobody]
    /\ on = [c \in CPU |-> nobody]
    /\ pc = [c \in CPU |-> "scan"]
    /\ idx = [c \in CPU |-> 1]
    /\ best = [c \in CPU |-> nobody]
    /\ clk = 1

\* The times after a step: f and t, renumbered, where s is the new p->state.
Times(f, t, s) ==
    LET runnable == {p \in Slot : s[p] = "RUNNABLE"}
        used == ({t} \cup {f[p] : p \in runnable}) \ {0}
        rank(v) == Cardinality({w \in used : w <= v})
    IN  /\ ticks' = rank(t)
        /\ intime' = [p \in Slot |-> IF p \in runnable THEN rank(f[p]) ELSE 0]

Unlocked(p) == lock[p] = nobody

Goto(c, l) == pc' = [pc EXCEPT ![c] = l]
-----------------------------------------------------------------------------
(***************************************************************************)
(* scheduler()                                                             *)
(***************************************************************************)
\* p goes before b.
better(p, b) == \/ queue[p] = queue[b] /\ intime[p] < intime[b]
                \/ queue[p] < queue[b]

\* The locks when the scan of c has found a better process p.
keep_lock_unlocked(c, p) == lock
keep_lock(c, p) ==
    [q \in Slot |-> IF q = p THEN c ELSE IF q = best[c] THEN nobody ELSE lock[q]]

scan(c) ==
    LET p == idx[c]
    IN  /\ pc[c] = "scan"
        /\ p <= NPROC
        /\ Unlocked(p)
        /\ IF state[p] = "RUNNABLE" /\ (best[c] = nobody \/ better(p, best[c]))
             THEN /\ best' = [best EXCEPT ![c] = p]
                  /\ lock' = keep_lock(c, p)
             ELSE UNCHANGED <<best, lock>>
        /\ idx' = [idx EXCEPT ![c] = @ + 1]
        /\ UNCHANGED <<state, queue, intime, ticksused, waittime, ticks, on,
                       pc, clk>>

\* The end of the pass; the process switched to releases its lock.
dispatch(c) ==
    LET b == best[c]
    IN  /\ pc[c] = "scan"
        /\ idx[c] = NPROC + 1
        /\ IF b = nobody
             THEN UNCHANGED <<state, intime, ticksused, waittime, ticks, lock,
                              on, pc>>
             ELSE /\ state' = [state EXCEPT ![b] = "RUNNING"]
                  /\ ticksused' = [ticksused EXCEPT ![b] = 0]
                  /\ waittime' = [waittime EXCEPT ![b] = 0]
                  /\ Times(intime, ticks, state')
                  /\ lock' = [lock EXCEPT ![b] = nobody]
                  /\ on' = [on EXCEPT ![c] = b]
                  /\ Goto(c, "run")
        /\ best' = [best EXCEPT ![c] = nobody]
        /\ idx' = [idx EXCEPT ![c] = 1]
        /\ UNCHANGED <<queue, clk>>

\* c stops running its process and scans again.
Switch(c) == on' = [on EXCEPT ![c] = nobody] /\ Goto(c, "scan")

\* The queue yield() moves p to.
demote(p) ==
    IF queue[p] # NQUEUE - 1 /\ ticksused[p] >= slice(queue[p])
      THEN queue[p] + 1 ELSE queue[p]

yield(c) ==
    LET p == on[c]
    IN  /\ pc[c] = "yield"
        /\ Unlocked(p)
        /\ state' = [state EXCEPT ![p] = "RUNNABLE"]
        /\ queue' = [queue EXCEPT ![p] = demote(p)]
        /\ ticksused' = [ticksused EXCEPT ![p] = 0]
        /\ Times([intime EXCEPT ![p] = ticks], ticks, state')
        /\ Switch(c)
        /\ UNCHANGED <<waittime, lock, idx, best, clk>>
-----------------------------------------------------------------------------
(***************************************************************************)
(* The timer interrupt: clockintr() on cpu0, then the end of usertrap() or *)
(* kerneltrap().  Interrupts are off while a lock is held.                 *)
(***************************************************************************)
Interruptible(c) == pc[c] = "run" \/ (pc[c] = "scan" /\ best[c] = nobody)

timer(c) ==
    /\ Interruptible(c)
    /\ IF c = cpu0
         THEN Goto(c, "clock") /\ clk' = 1 /\ Times(intime, ticks + 1, state)
         ELSE pc[c] = "run" /\ Goto(c, "tick") /\ UNCHANGED <<clk, ticks, intime>>
    /\ UNCHANGED <<state, queue, ticksused, waittime, lock, on, idx, best>>

\* clockintr() at slot clk: a process that has waited long moves up.
age_never(p) == UNCHANGED <<waittime, queue>>
age(p) ==
    IF waittime[p] + 1 >= MAX_WAIT_TIME
      THEN /\ waittime' = [waittime EXCEPT ![p] = 0]
           /\ queue' = [queue EXCEPT ![p] = IF @ = 0 THEN 0 ELSE @ - 1]
      ELSE /\ waittime' = [waittime EXCEPT ![p] = @ + 1]
           /\ UNCHANGED queue

clockintr ==
    /\ pc[cpu0] = "clock"
    /\ Unlocked(clk)
    /\ IF state[clk] = "RUNNABLE" THEN age(clk) ELSE UNCHANGED <<waittime, queue>>
    /\ IF clk < NPROC
         THEN clk' = clk + 1 /\ UNCHANGED pc
         ELSE clk' = 1 /\ Goto(cpu0, IF on[cpu0] = nobody THEN "scan" ELSE "tick")
    /\ UNCHANGED <<state, intime, ticksused, ticks, lock, on, idx, best>>

\* The process has used another tick.
slice_over(p) == ticksused[p] + 1 >= slice(queue[p])

tick(c) ==
    LET p == on[c]
    IN  /\ pc[c] = "tick"
        /\ ticksused' = [ticksused EXCEPT ![p] = @ + 1]
        /\ Goto(c, IF slice_over(p) THEN "yield" ELSE "look")
        /\ UNCHANGED <<state, queue, intime, waittime, ticks, lock, on, idx,
                       best, clk>>

\* Preempt the process if one in a higher queue is RUNNABLE.
look(c) ==
    LET p == idx[c]
    IN  /\ pc[c] = "look"
        /\ p <= NPROC => Unlocked(p)
        /\ IF p <= NPROC
             THEN IF state[p] = "RUNNABLE" /\ queue[p] < queue[on[c]]
                    THEN Goto(c, "yield") /\ idx' = [idx EXCEPT ![c] = 1]
                    ELSE idx' = [idx EXCEPT ![c] = @ + 1] /\ UNCHANGED pc
             ELSE Goto(c, "run") /\ idx' = [idx EXCEPT ![c] = 1]
        /\ UNCHANGED <<state, queue, intime, ticksused, waittime, ticks, lock,
                       on, best, clk>>
-----------------------------------------------------------------------------
(***************************************************************************)
(* The processes.                                                          *)
(***************************************************************************)
\* sleep(), or exit(): the slot of the zombie counts as free at once.
leave(c, s) ==
    /\ pc[c] = "run"
    /\ Unlocked(on[c])
    /\ s = "SLEEPING" \/ (MayFork /\ on[c] # 1)
    /\ state' = [state EXCEPT ![on[c]] = s]
    /\ Switch(c)
    /\ UNCHANGED <<queue, intime, ticksused, waittime, ticks, lock, idx, best,
                   clk>>

\* wakeup(), or the same lines of kill(), in an interrupt or a system call.
wakeup(c, p) ==
    /\ Interruptible(c)
    /\ state[p] = "SLEEPING"
    /\ Unlocked(p)
    /\ state' = [state EXCEPT ![p] = "RUNNABLE"]
    /\ ticksused' = [ticksused EXCEPT ![p] = 0]
    /\ Times([intime EXCEPT ![p] = ticks], ticks, state')
    /\ UNCHANGED <<queue, waittime, lock, on, pc, idx, best, clk>>

\* fork(): allocproc() clears the child's fields; the lines at the end of
\* fork() set the parent's.
fork(c, p) ==
    /\ MayFork
    /\ pc[c] = "run"
    /\ state[p] = "UNUSED"
    /\ Unlocked(p)
    /\ state' = [state EXCEPT ![p] = "RUNNABLE"]
    /\ queue' = [queue EXCEPT ![p] = 0, ![on[c]] = 0]
    /\ waittime' = [waittime EXCEPT ![p] = 0]
    /\ ticksused' = [ticksused EXCEPT ![p] = 0]
    /\ Times([intime EXCEPT ![p] = 0, ![on[c]] = ticks], ticks, state')
    /\ UNCHANGED <<lock, on, pc, idx, best, clk>>

scheduler(c) == scan(c) \/ dispatch(c)

trap(c) == tick(c) \/ look(c) \/ yield(c)

Next ==
    \E c \in CPU :
        \/ scheduler(c) \/ trap(c) \/ timer(c)
        \/ c = cpu0 /\ clockintr
        \/ \E s \in {"SLEEPING", "UNUSED"} : leave(c, s)
        \/ \E p \in Slot : wakeup(c, p) \/ fork(c, p)

Spec == Init /\ [][Next]_vars

\* A CPU goes on executing between its interrupts, gets a lock that is free
\* again and again, and is interrupted by its timer again and again.
FairSpec ==
    /\ Spec
    /\ SF_vars(clockintr)
    /\ \A c \in CPU : /\ SF_vars(scheduler(c)) /\ SF_vars(trap(c))
                      /\ SF_vars(timer(c))
-----------------------------------------------------------------------------
(***************************************************************************)
(* Properties.                                                             *)
(***************************************************************************)
\* Two scans never end with the same process: the lock of the best process
\* so far is kept until it runs, so that it stays RUNNABLE.
OneCpu ==
    /\ \A c, d \in DOMAIN on : on[c] = on[d] /\ on[c] # nobody => c = d
    /\ \A c \in DOMAIN best : best[c] # nobody => state[best[c]] = "RUNNABLE"

\* README.md lines 111-113: aging "helps prevent starvation".  Every RUNNABLE
\* process runs, though others go to sleep and wake up in a higher queue as
\* often as they like.
NoStarvation == \A p \in Slot : state[p] = "RUNNABLE" ~> state[p] = "RUNNING"
=============================================================================
