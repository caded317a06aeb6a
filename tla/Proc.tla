-------------------------------- MODULE Proc --------------------------------
(***************************************************************************)
(* The life of a process (kernel/proc.c, default round-robin build): fork, *)
(* exit, wait, kill, yield, sleep, wakeup, sched and the scheduler, with   *)
(* p->lock and wait_lock held and released as in the code, on several      *)
(* CPUs.  A lock belongs to a CPU; swtch() passes p->lock from the         *)
(* scheduler to the process and back.                                      *)
(*                                                                         *)
(* A step is a critical section of one lock, or the code between two       *)
(* acquisitions when a lock stays held.                                    *)
(***************************************************************************)
EXTENDS Integers, FiniteSets

CONSTANTS
    NPROC,          \* size of the process table
    CPU             \* harts

ASSUME ProcAssumption == NPROC \in Nat \ {0} /\ 0 \notin CPU

Slot == 1..NPROC
initproc == 1
nobody == 0         \* the null pointer, for processes, channels and locks

VARIABLES
    state,          \* p->state
    chan,           \* p->chan; wait() sleeps on the process itself
    killed,         \* p->killed
    parent,         \* p->parent
    lock,           \* CPU that holds p->lock
    wait_lock,      \* CPU that holds wait_lock
    on,             \* c->proc: the process each CPU runs
    pc,             \* where the kernel thread of each process is
    sw,             \* it runs, is about to swtch() away, or has just come back
    idx,            \* loop counter of wakeup() and of wait()
    kids            \* havekids in wait()

vars == <<state, chan, killed, parent, lock, wait_lock, on, pc, sw, idx, kids>>

TypeOK ==
    /\ state \in [Slot -> {"UNUSED", "USED", "SLEEPING", "RUNNABLE",
                           "RUNNING", "ZOMBIE"}]
    /\ chan \in [Slot -> Slot \cup {nobody}]
    /\ killed \in [Slot -> BOOLEAN]
    /\ parent \in [Slot -> Slot \cup {nobody}]
    /\ lock \in [Slot -> CPU \cup {nobody}]
    /\ wait_lock \in CPU \cup {nobody}
    /\ on \in [CPU -> Slot \cup {nobody}]
    /\ pc \in [Slot -> {"user", "fork_parent", "fork_run", "wait", "scan",
                        "doze", "asleep", "exit", "wake_init",
                        "wake_parent", "zombie"}]
    /\ sw \in [Slot -> {"run", "off", "back"}]
    /\ idx \in [Slot -> 1..(NPROC + 1)]
    /\ kids \in [Slot -> BOOLEAN]

\* userinit() has made the first process RUNNABLE.
Init ==
    /\ state = [p \in Slot |-> IF p = initproc THEN "RUNNABLE" ELSE "UNUSED"]
    /\ chan = [p \in Slot |-> nobody]
    /\ killed = [p \in Slot |-> FALSE]
    /\ parent = [p \in Slot |-> nobody]
    /\ lock = [p \in Slot |-> nobody]
    /\ wait_lock = nobody
    /\ on = [c \in CPU |-> nobody]
    /\ pc = [p \in Slot |-> "user"]
    /\ sw = [p \in Slot |-> "off"]
    /\ idx = [p \in Slot |-> 1]
    /\ kids = [p \in Slot |-> FALSE]

cpu(p) == CHOOSE c \in CPU : on[c] = p

\* p's kernel thread executes at label l.
At(p, l) ==
    /\ pc[p] = l
    /\ sw[p] = "run"
    /\ \E c \in CPU : on[c] = p

Goto(p, l) == pc' = [pc EXCEPT ![p] = l]
-----------------------------------------------------------------------------
(***************************************************************************)
(* scheduler(), sched() and yield().                                       *)
(***************************************************************************)
\* scheduler() acquires p->lock, finds p RUNNABLE and switches to it.
scheduler(c, p) ==
    /\ on[c] = nobody
    /\ lock[p] = nobody
    /\ state[p] = "RUNNABLE"
    /\ lock' = [lock EXCEPT ![p] = c]
    /\ state' = [state EXCEPT ![p] = "RUNNING"]
    /\ on' = [on EXCEPT ![c] = p]
    /\ sw' = [sw EXCEPT ![p] = "back"]
    /\ UNCHANGED <<chan, killed, parent, wait_lock, pc, idx, kids>>

\* After swtch() the process releases its lock, in forkret(), yield() or
\* sleep(); sleep() also clears p->chan, and wait() starts over.
resume(p) ==
    /\ sw[p] = "back"
    /\ sw' = [sw EXCEPT ![p] = "run"]
    /\ lock' = [lock EXCEPT ![p] = nobody]
    /\ IF pc[p] = "asleep"
         THEN chan' = [chan EXCEPT ![p] = nobody] /\ Goto(p, "wait")
         ELSE UNCHANGED <<chan, pc>>
    /\ UNCHANGED <<state, killed, parent, wait_lock, on, idx, kids>>

\* sched() switches to the scheduler, which releases p->lock.
sched(c) ==
    LET p == on[c]
    IN  /\ p # nobody
        /\ sw[p] = "off"
        /\ on' = [on EXCEPT ![c] = nobody]
        /\ lock' = [lock EXCEPT ![p] = nobody]
        /\ UNCHANGED <<state, chan, killed, parent, wait_lock, pc, sw, idx,
                       kids>>

\* A timer interrupt, in user mode or in the kernel; never while acquire()
\* spins or a lock is held, since interrupts are off then.
yield(p) ==
    /\ \E l \in {"user", "fork_parent", "fork_run"} : At(p, l)
    /\ lock[p] = nobody
    /\ lock' = [lock EXCEPT ![p] = cpu(p)]
    /\ state' = [state EXCEPT ![p] = "RUNNABLE"]
    /\ sw' = [sw EXCEPT ![p] = "off"]
    /\ UNCHANGED <<chan, killed, parent, wait_lock, on, pc, idx, kids>>
-----------------------------------------------------------------------------
(***************************************************************************)
(* fork() and kill().  usertrap() lets no killed process start a call.     *)
(***************************************************************************)
\* allocproc() up to the release of the child's lock.
fork(p, q) ==
    /\ At(p, "user")
    /\ ~killed[p]
    /\ lock[q] = nobody
    /\ state[q] = "UNUSED"
    /\ state' = [state EXCEPT ![q] = "USED"]
    /\ pc' = [pc EXCEPT ![p] = "fork_parent", ![q] = "user"]
    /\ idx' = [idx EXCEPT ![p] = q]
    /\ sw' = [sw EXCEPT ![q] = "off"]
    /\ UNCHANGED <<chan, killed, parent, lock, wait_lock, on, kids>>

fork_parent(p) ==
    /\ At(p, "fork_parent")
    /\ wait_lock = nobody
    /\ parent' = [parent EXCEPT ![idx[p]] = p]
    /\ Goto(p, "fork_run")
    /\ UNCHANGED <<state, chan, killed, lock, wait_lock, on, sw, idx, kids>>

fork_run(p) ==
    /\ At(p, "fork_run")
    /\ lock[idx[p]] = nobody
    /\ state' = [state EXCEPT ![idx[p]] = "RUNNABLE"]
    /\ idx' = [idx EXCEPT ![p] = 1]
    /\ Goto(p, "user")
    /\ UNCHANGED <<chan, killed, parent, lock, wait_lock, on, sw, kids>>

\* kill() of an existing process other than init, or of pid 0, which is the
\* p->pid of the free slots: the first of them is marked.
kill(p, q) ==
    /\ At(p, "user")
    /\ ~killed[p]
    /\ q # initproc
    /\ state[q] = "UNUSED" => \A r \in 1..(q - 1) : state[r] # "UNUSED"
    /\ lock[q] = nobody
    /\ killed' = [killed EXCEPT ![q] = TRUE]
    /\ state' = IF state[q] = "SLEEPING"
                  THEN [state EXCEPT ![q] = "RUNNABLE"] ELSE state
    /\ UNCHANGED <<chan, parent, lock, wait_lock, on, pc, sw, idx, kids>>
-----------------------------------------------------------------------------
(***************************************************************************)
(* exit().                                                                 *)
(***************************************************************************)
\* The program calls exit(), or usertrap() does for a killed process.
exit(p) ==
    /\ At(p, "user")
    /\ p # initproc
    /\ Goto(p, "exit")
    /\ UNCHANGED <<state, chan, killed, parent, lock, wait_lock, on, sw, idx,
                   kids>>

reparent_skipped(p) ==
    /\ At(p, "exit")
    /\ wait_lock = nobody
    /\ wait_lock' = cpu(p)
    /\ idx' = [idx EXCEPT ![p] = 1]
    /\ Goto(p, "wake_parent")
    /\ UNCHANGED <<state, chan, killed, parent, lock, on, sw, kids>>

\* acquire(&wait_lock) and reparent(), whose wakeup(initproc) follows.
reparent(p) ==
    LET children == {q \in Slot : parent[q] = p}
    IN  /\ At(p, "exit")
        /\ wait_lock = nobody
        /\ wait_lock' = cpu(p)
        /\ parent' = [q \in Slot |-> IF q \in children THEN initproc
                                                         ELSE parent[q]]
        /\ idx' = [idx EXCEPT ![p] = 1]
        /\ Goto(p, IF children = {} THEN "wake_parent" ELSE "wake_init")
        /\ UNCHANGED <<state, chan, killed, lock, on, sw, kids>>

\* One iteration of wakeup(ch), called by p, at the process q.
wakeup_lost(p, ch, q) == UNCHANGED state
wakeup(p, ch, q) ==
    /\ q # p => lock[q] = nobody
    /\ IF q # p /\ state[q] = "SLEEPING" /\ chan[q] = ch
         THEN state' = [state EXCEPT ![q] = "RUNNABLE"]
         ELSE UNCHANGED state

\* wakeup(initproc), then wakeup(p->parent).
wake_init(p) ==
    /\ At(p, "wake_init")
    /\ wakeup(p, initproc, idx[p])
    /\ IF idx[p] < NPROC
         THEN idx' = [idx EXCEPT ![p] = @ + 1] /\ UNCHANGED pc
         ELSE idx' = [idx EXCEPT ![p] = 1] /\ Goto(p, "wake_parent")
    /\ UNCHANGED <<chan, killed, parent, lock, wait_lock, on, sw, kids>>

wake_parent(p) ==
    /\ At(p, "wake_parent")
    /\ wakeup(p, parent[p], idx[p])
    /\ IF idx[p] < NPROC
         THEN idx' = [idx EXCEPT ![p] = @ + 1] /\ UNCHANGED pc
         ELSE idx' = [idx EXCEPT ![p] = 1] /\ Goto(p, "zombie")
    /\ UNCHANGED <<chan, killed, parent, lock, wait_lock, on, sw, kids>>

zombie(p) ==
    /\ At(p, "zombie")
    /\ lock[p] = nobody
    /\ lock' = [lock EXCEPT ![p] = cpu(p)]
    /\ state' = [state EXCEPT ![p] = "ZOMBIE"]
    /\ wait_lock' = nobody
    /\ sw' = [sw EXCEPT ![p] = "off"]
    /\ UNCHANGED <<chan, killed, parent, on, pc, idx, kids>>
-----------------------------------------------------------------------------
(***************************************************************************)
(* wait(), and waitx() with the same locking.                              *)
(***************************************************************************)
wait(p) ==
    /\ At(p, "user")
    /\ ~killed[p]
    /\ Goto(p, "wait")
    /\ UNCHANGED <<state, chan, killed, parent, lock, wait_lock, on, sw, idx,
                   kids>>

wait_acquire(p) ==
    /\ At(p, "wait")
    /\ wait_lock = nobody
    /\ wait_lock' = cpu(p)
    /\ idx' = [idx EXCEPT ![p] = 1]
    /\ kids' = [kids EXCEPT ![p] = FALSE]
    /\ Goto(p, "scan")
    /\ UNCHANGED <<state, chan, killed, parent, lock, on, sw>>

\* Slot idx[p] is no zombie child: go on.
scan_next(p) ==
    LET q == idx[p]
    IN  /\ At(p, "scan")
        /\ q <= NPROC
        /\ parent[q] = p => lock[q] = nobody /\ state[q] # "ZOMBIE"
        /\ kids' = [kids EXCEPT ![p] = @ \/ parent[q] = p]
        /\ idx' = [idx EXCEPT ![p] = @ + 1]
        /\ UNCHANGED <<state, chan, killed, parent, lock, wait_lock, on, pc,
                       sw>>

scan_reap_unlocked(p) ==
    LET q == idx[p]
    IN  /\ At(p, "scan")
        /\ q <= NPROC
        /\ parent[q] = p
        /\ state[q] = "ZOMBIE"
        /\ state' = [state EXCEPT ![q] = "UNUSED"]
        /\ parent' = [parent EXCEPT ![q] = nobody]
        /\ pc' = [pc EXCEPT ![p] = "user", ![q] = "user"]
        /\ wait_lock' = nobody
        /\ idx' = [idx EXCEPT ![p] = 1]
        /\ UNCHANGED <<chan, killed, lock, on, sw, kids>>

\* A zombie child: freeproc() it, unless copyout() of the status fails.
scan_reap(p) ==
    LET q == idx[p]
    IN  /\ At(p, "scan")
        /\ q <= NPROC
        /\ parent[q] = p
        /\ lock[q] = nobody
        /\ state[q] = "ZOMBIE"
        /\ \/ /\ state' = [state EXCEPT ![q] = "UNUSED"]
              /\ parent' = [parent EXCEPT ![q] = nobody]
              /\ chan' = [chan EXCEPT ![q] = nobody]
              /\ killed' = [killed EXCEPT ![q] = FALSE]
              /\ pc' = [pc EXCEPT ![p] = "user", ![q] = "user"]
           \/ /\ p # initproc
              /\ Goto(p, "user")
              /\ UNCHANGED <<state, parent, chan, killed>>
        /\ wait_lock' = nobody
        /\ idx' = [idx EXCEPT ![p] = 1]
        /\ kids' = [kids EXCEPT ![p] = FALSE]
        /\ UNCHANGED <<lock, on, sw>>

\* The scan found no zombie: return -1, or go to sleep.
scan_done(p) ==
    /\ At(p, "scan")
    /\ idx[p] = NPROC + 1
    /\ lock[p] = nobody
    /\ idx' = [idx EXCEPT ![p] = 1]
    /\ kids' = [kids EXCEPT ![p] = FALSE]
    /\ IF ~kids[p] \/ killed[p]
         THEN wait_lock' = nobody /\ Goto(p, "user")
         ELSE UNCHANGED wait_lock /\ Goto(p, "doze")
    /\ UNCHANGED <<state, chan, killed, parent, lock, on, sw>>

\* sleep(p, &wait_lock): acquire p->lock and release wait_lock ...
sleep_lock(p) ==
    /\ At(p, "doze")
    /\ lock[p] = nobody
    /\ lock' = [lock EXCEPT ![p] = cpu(p)]
    /\ wait_lock' = nobody
    /\ Goto(p, "asleep")
    /\ UNCHANGED <<state, chan, killed, parent, on, sw, idx, kids>>

\* ... then go to sleep.
sleep(p) ==
    /\ At(p, "asleep")
    /\ chan' = [chan EXCEPT ![p] = p]
    /\ state' = [state EXCEPT ![p] = "SLEEPING"]
    /\ sw' = [sw EXCEPT ![p] = "off"]
    /\ UNCHANGED <<killed, parent, lock, wait_lock, on, pc, idx, kids>>
-----------------------------------------------------------------------------
syscall(p) == \E q \in Slot : fork(p, q) \/ kill(p, q)

kernel(p) ==
    \/ fork_parent(p) \/ fork_run(p)
    \/ reparent(p) \/ wake_init(p) \/ wake_parent(p) \/ zombie(p)
    \/ wait_acquire(p) \/ scan_next(p) \/ scan_reap(p) \/ scan_done(p)
    \/ sleep_lock(p) \/ sleep(p)

Next ==
    \/ \E p \in Slot : \/ syscall(p) \/ exit(p) \/ wait(p)
                       \/ kernel(p) \/ yield(p) \/ resume(p)
    \/ \E c \in CPU : sched(c)
    \/ \E c \in CPU, p \in Slot : scheduler(c, p)

Spec == Init /\ [][Next]_vars

\* The scheduler scans the table round robin, so a process that keeps being
\* RUNNABLE while CPUs fall idle is picked; the timer ends every run; a spin
\* on a lock that is free again and again succeeds.
Fairness ==
    /\ \A p \in Slot : /\ SF_vars(\E c \in CPU : scheduler(c, p))
                       /\ WF_vars(resume(p))
                       /\ SF_vars(kernel(p))
                       /\ WF_vars(yield(p))
    /\ \A c \in CPU : WF_vars(sched(c))

FairSpec == Spec /\ Fairness
-----------------------------------------------------------------------------
(***************************************************************************)
(* Properties.                                                             *)
(***************************************************************************)
\* The kernel stack of a process is used by one CPU at a time and is not freed
\* under it: another scheduler() cannot pick a process that is on its way out
\* in sched(), and wait() frees a child only when no CPU is on its stack any
\* more (proc.c line 538, "make sure the child isn't still in exit() or
\* swtch()").
StackOwned ==
    /\ \A c, d \in CPU : on[c] = on[d] /\ on[c] # nobody => c = d
    /\ \A c \in CPU : on[c] # nobody => state[on[c]] \notin {"UNUSED", "USED"}

\* No lost wakeup between wait() and exit(): unless an exit() is under way
\* with wait_lock held, no process sleeps in wait() with a zombie child.
NoLostWakeup ==
    wait_lock = nobody =>
        \A p, q \in Slot : ~ /\ state[p] = "SLEEPING" /\ chan[p] = p
                             /\ parent[q] = p /\ state[q] = "ZOMBIE"

\* Every process but init has a parent that has not exited, so somebody will
\* be there to wait() for it: exit() hands all children over before it ends.
ParentAlive ==
    \A p \in Slot \ {initproc} :
        state[p] \notin {"UNUSED", "USED"}
            => /\ parent[p] # nobody
               /\ state[parent[p]] \notin {"UNUSED", "USED", "ZOMBIE"}

\* Nobody is left waiting: no process sleeps in wait() with a zombie child, and
\* no process has lost the parent that will wait() for it.
NobodyAbandoned == NoLostWakeup /\ ParentAlive

Waiting(p) == pc[p] \in {"wait", "scan", "doze", "asleep"}

\* wait() returns once a child is a zombie.
WaitReturns ==
    \A p \in Slot :
        (Waiting(p) /\ \E q \in Slot : parent[q] = p /\ state[q] = "ZOMBIE")
            ~> ~Waiting(p)

\* exit() ends: no deadlock on wait_lock and the process locks holds it up.
ExitEnds == \A p \in Slot : pc[p] = "exit" ~> state[p] = "ZOMBIE"
=============================================================================
