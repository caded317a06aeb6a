-------------------------------- MODULE Intr --------------------------------
(***************************************************************************)
(* Interrupts, spin locks and context switches: push_off() and pop_off(),  *)
(* acquire() and release(), the trap handlers, sched() and the scheduler,  *)
(* and two system calls under them: sleep(), which waits for the clock,    *)
(* and a request to a device.                                              *)
(*                                                                         *)
(* A context is the scheduler of a CPU or the kernel thread of a process;  *)
(* todo is what it still has to do, and a process with nothing to do is in *)
(* user mode.  An interrupt puts its handler in front of what the current  *)
(* context of the CPU has to do.  A step is one item of the list.  Nobody  *)
(* is killed here, which would end a sleep() early: kill() is in Proc.     *)
(***************************************************************************)
EXTENDS Integers, Sequences, FiniteSets, SequencesExt

CONSTANTS
    CPU, cpu0,      \* the CPUs; cpu0 counts the ticks
    Proc,           \* the processes
    none,
    Naps,           \* arguments of sleep(), as unsigned numbers: -1 is TICKS - 1
    Loads,          \* [calls, timers]: the calls that are made, the CPUs with a timer
    TICKS           \* ticks counts modulo TICKS (2^32)

VARIABLES
    load,           \* one of Loads
    todo,           \* what each context has to do
    run,            \* c->proc
    state, chan,    \* p->state, p->chan
    lock,           \* lk->cpu of each lock that is held
    intr,           \* SSTATUS_SIE
    noff, intena,   \* c->noff, c->intena
    sip,            \* a timer interrupt is pending on the CPU
    ticks,
    irq,            \* the device at the PLIC: "low", "high", "claimed"
    busy,           \* the device works on a request
    awake,          \* ticks left of a call of sleep(), see SleepsEnough
    panic           \* the kernel has panicked

vars == <<todo, run, state, chan, lock, intr, noff, intena, sip, ticks, irq, busy, awake, panic>>
hw == <<sip, irq, busy>>
clock == <<ticks, awake>>

Lock == Proc \cup {"tickslock", "devlock"}

acquire(l) == <<"acquire", l>>
release(l) == <<"release", l>>
Op(op) == <<op, none>>

\* The processes in some order, for the loops over the process table.
Table == SetToSeq(Proc)
ForEach(Body(_)) == FlattenSeq([k \in DOMAIN Table |-> Body(Table[k])])

wakeup(ch, me) ==
    ForEach(LAMBDA q : IF q = me THEN <<>> ELSE <<acquire(q), <<"wake", <<q, ch>>>>>>)

clockintr(me) ==
    <<acquire("tickslock"), Op("tick")>>
      \o ForEach(LAMBDA q : <<acquire(q), release(q)>>)
      \o wakeup("ticks", me) \o <<release("tickslock")>>

\* sleep(ch, lk) by p.
sleep(p, ch, lk) ==
    <<acquire(p), release(lk), <<"sleep", ch>>, release(p), acquire(lk)>>

yield(p) == <<acquire(p), Op("yield"), release(p)>>

\* The scheduler goes round the table.
scheduler == ForEach(LAMBDA q : <<acquire(q), <<"switch", q>>, release(q)>>)

\* forkret() of a new process; its interrupts are those of the scheduler.
Init ==
    /\ load \in Loads
    /\ todo = [x \in CPU \cup Proc |->
                 IF x \in CPU THEN <<>> ELSE <<release(x), <<"usertrapret", "either">>>>]
    /\ run = [c \in CPU |-> none]
    /\ state = [p \in Proc |-> "RUNNABLE"]
    /\ chan = [p \in Proc |-> none]
    /\ lock = [l \in Lock |-> none]
    /\ intr = [c \in CPU |-> FALSE]
    /\ noff = [c \in CPU |-> 0]
    /\ intena = [c \in CPU |-> FALSE]
    /\ sip = [c \in CPU |-> FALSE]
    /\ ticks = 0
    /\ irq = "low"
    /\ busy = FALSE
    /\ awake = [p \in Proc |-> 0]
    /\ panic = FALSE
-----------------------------------------------------------------------------
ctx(c) == IF run[c] = none THEN c ELSE run[c]
user(c) == run[c] # none /\ todo[ctx(c)] = <<>>

at(c, op) == ~panic /\ todo[ctx(c)] # <<>> /\ Head(todo[ctx(c)])[1] = op
arg(c) == Head(todo[ctx(c)])[2]
rest(c) == Tail(todo[ctx(c)])
goto(c, items) == todo' = [todo EXCEPT ![ctx(c)] = items]

push_off(c) ==
    /\ intr' = [intr EXCEPT ![c] = FALSE]
    /\ intena' = [intena EXCEPT ![c] = IF noff[c] = 0 THEN intr[c] ELSE @]
    /\ noff' = [noff EXCEPT ![c] = @ + 1]

pop_off(c) ==
    /\ noff' = [noff EXCEPT ![c] = @ - 1]
    /\ intr' = [intr EXCEPT ![c] = noff[c] = 1 /\ intena[c]]

\* acquire(): the swap succeeds at once, or the CPU spins.
acquiring(c) ==
    /\ at(c, "acquire")
    /\ push_off(c)
    /\ panic' = (lock[arg(c)] = c)
    /\ IF lock[arg(c)] = none
         THEN lock' = [lock EXCEPT ![arg(c)] = c] /\ goto(c, rest(c))
         ELSE goto(c, <<<<"spin", arg(c)>>>> \o rest(c)) /\ UNCHANGED lock
    /\ UNCHANGED <<run, state, chan, hw, clock>>

spin(c) ==
    /\ at(c, "spin")
    /\ lock[arg(c)] = none
    /\ lock' = [lock EXCEPT ![arg(c)] = c]
    /\ goto(c, rest(c))
    /\ UNCHANGED <<run, state, chan, intr, noff, intena, hw, clock, panic>>

releasing(c) ==
    /\ at(c, "release")
    /\ panic' = (lock[arg(c)] # c \/ intr[c] \/ noff[c] < 1)
    /\ lock' = [lock EXCEPT ![arg(c)] = none]
    /\ pop_off(c)
    /\ goto(c, rest(c))
    /\ UNCHANGED <<run, state, chan, intena, hw, clock>>
-----------------------------------------------------------------------------
\* scheduler(): swtch() to q if it is runnable.  The thread goes on after its
\* swtch(), in sched(), where intena becomes its own; a new one is in forkret().
switch(c) ==
    /\ at(c, "switch")
    /\ LET q == arg(c)
           resumes == Head(todo[q])[1] = "intena"
       IN  IF state[q] = "RUNNABLE"
             THEN /\ state' = [state EXCEPT ![q] = "RUNNING"]
                  /\ run' = [run EXCEPT ![c] = q]
                  /\ intena' = [intena EXCEPT ![c] = IF resumes THEN Head(todo[q])[2] ELSE @]
                  /\ todo' = [todo EXCEPT ![c] = rest(c), ![q] = IF resumes THEN Tail(@) ELSE @]
             ELSE goto(c, rest(c)) /\ UNCHANGED <<state, run, intena>>
    /\ UNCHANGED <<chan, lock, intr, noff, hw, clock, panic>>

\* The outer loop of the scheduler.
again(c) ==
    /\ ~panic
    /\ run[c] = none /\ todo[c] = <<>>
    /\ intr' = [intr EXCEPT ![c] = TRUE]
    /\ goto(c, scheduler)
    /\ UNCHANGED <<run, state, chan, lock, noff, intena, hw, clock, panic>>

\* sched() with p->state = s: back to the scheduler.  intena goes with the
\* thread to the CPU it will run on.
saved_not(c) == TRUE
saved(c) == intena[c]

sched(c, s) ==
    LET p == run[c]
    IN  /\ panic' = (lock[p] # c \/ noff[c] # 1 \/ intr[c])
        /\ state' = [state EXCEPT ![p] = s]
        /\ todo' = [todo EXCEPT ![p] = <<(<<"intena", saved(c)>>)>> \o rest(c)]
        /\ run' = [run EXCEPT ![c] = none]

yielding(c) ==
    /\ at(c, "yield")
    /\ sched(c, "RUNNABLE")
    /\ UNCHANGED <<chan, lock, intr, noff, intena, hw, clock>>

sleeping(c) ==
    /\ at(c, "sleep")
    /\ chan' = [chan EXCEPT ![run[c]] = arg(c)]
    /\ sched(c, "SLEEPING")
    /\ UNCHANGED <<lock, intr, noff, intena, hw, clock>>

\* wakeup(): the body of the loop and release().  The sleeper tidies up chan.
wake(c) ==
    /\ at(c, "wake")
    /\ LET q == arg(c)[1]
       IN  /\ IF state[q] = "SLEEPING" /\ chan[q] = arg(c)[2]
                THEN /\ state' = [state EXCEPT ![q] = "RUNNABLE"]
                     /\ chan' = [chan EXCEPT ![q] = none]
                ELSE UNCHANGED <<state, chan>>
           /\ lock' = [lock EXCEPT ![q] = none]
    /\ pop_off(c)
    /\ goto(c, rest(c))
    /\ UNCHANGED <<run, intena, hw, clock, panic>>
-----------------------------------------------------------------------------
\* The hardware.
timervec(c) ==
    /\ ~panic /\ ~sip[c] /\ c \in load.timers
    /\ sip' = [sip EXCEPT ![c] = TRUE]
    /\ UNCHANGED <<todo, run, state, chan, lock, intr, noff, intena, irq, busy, clock, panic>>

device ==
    /\ ~panic /\ busy /\ irq = "low"
    /\ irq' = "high"
    /\ UNCHANGED <<todo, run, state, chan, lock, intr, noff, intena, sip, busy, clock, panic>>

\* An interrupt is taken in user mode always, in the kernel when SIE is set; the
\* handler begins with interrupts off.  which_dev = 2: the timer.
may_trap(c) == ~panic /\ (user(c) \/ intr[c])
back(c) == IF user(c) THEN <<(<<"usertrapret", "off">>)>> ELSE <<Op("sret")>>

\* A running process yields; under FCFS, PBS and MLFQ it need not.
timer_trap(c) ==
    /\ may_trap(c) /\ sip[c]
    /\ \E give_up \in IF run[c] = none THEN {FALSE} ELSE BOOLEAN :
         goto(c, (IF c = cpu0 THEN clockintr(run[c]) ELSE <<>>)
                   \o <<Op("sip")>>
                   \o (IF give_up THEN yield(run[c]) ELSE <<>>)
                   \o back(c) \o todo[ctx(c)])
    /\ intr' = [intr EXCEPT ![c] = FALSE]
    /\ UNCHANGED <<run, state, chan, lock, noff, intena, hw, clock, panic>>

external_trap(c) ==
    /\ may_trap(c) /\ irq = "high"
    /\ goto(c, <<Op("claim")>> \o back(c) \o todo[ctx(c)])
    /\ intr' = [intr EXCEPT ![c] = FALSE]
    /\ UNCHANGED <<run, state, chan, lock, noff, intena, hw, clock, panic>>

\* plic_claim() returns 0 when another CPU has been faster.
claim(c) ==
    /\ at(c, "claim")
    /\ IF irq = "high"
         THEN /\ irq' = "claimed"
              /\ goto(c, <<acquire("devlock"), Op("finish")>> \o wakeup("device", run[c])
                           \o <<release("devlock"), Op("complete")>> \o rest(c))
         ELSE goto(c, rest(c)) /\ UNCHANGED irq
    /\ UNCHANGED <<run, state, chan, lock, intr, noff, intena, sip, busy, clock, panic>>

finish(c) ==
    /\ at(c, "finish")
    /\ busy' = FALSE
    /\ goto(c, rest(c))
    /\ UNCHANGED <<run, state, chan, lock, intr, noff, intena, sip, irq, clock, panic>>

\* plic_complete()
complete(c) ==
    /\ at(c, "complete")
    /\ irq' = "low"
    /\ goto(c, rest(c))
    /\ UNCHANGED <<run, state, chan, lock, intr, noff, intena, sip, busy, clock, panic>>

\* ticks++; w_sip().
tick(c) ==
    /\ at(c, "tick")
    /\ ticks' = (ticks + 1) % TICKS
    /\ awake' = [p \in Proc |-> IF awake[p] = 0 THEN 0 ELSE awake[p] - 1]
    /\ goto(c, rest(c))
    /\ UNCHANGED <<run, state, chan, lock, intr, noff, intena, hw, panic>>

clear_sip(c) ==
    /\ at(c, "sip")
    /\ sip' = [sip EXCEPT ![c] = FALSE]
    /\ goto(c, rest(c))
    /\ UNCHANGED <<run, state, chan, lock, intr, noff, intena, irq, busy, clock, panic>>

\* kerneltrap() has saved sstatus; usertrapret() turns interrupts off and sret
\* gives the CPU to the program.
returning(c) ==
    /\ at(c, "sret") \/ at(c, "usertrapret")
    /\ panic' = (at(c, "usertrapret") /\ noff[c] # 0)
    /\ intr' = [intr EXCEPT ![c] = at(c, "sret")]
    /\ goto(c, rest(c))
    /\ UNCHANGED <<run, state, chan, lock, noff, intena, hw, clock>>
-----------------------------------------------------------------------------
\* usertrap() with a system call turns interrupts on; the item at its end says so.
syscall(c, items) ==
    /\ ~panic /\ user(c)
    /\ goto(c, items \o <<(<<"usertrapret", "on">>)>>)
    /\ intr' = [intr EXCEPT ![c] = TRUE]
    /\ UNCHANGED <<run, state, chan, lock, noff, intena, hw, clock, panic>>

sys_sleep(c, n) == syscall(c, <<acquire("tickslock"), <<"ticks0", n>>, release("tickslock")>>)
request(c) == syscall(c, <<acquire("devlock"), Op("request"), release("devlock")>>)

ticks0(c) ==
    /\ at(c, "ticks0")
    /\ awake' = [awake EXCEPT ![run[c]] = arg(c)]
    /\ goto(c, <<<<"while", <<ticks, arg(c)>>>>>> \o rest(c))
    /\ UNCHANGED <<run, state, chan, lock, intr, noff, intena, hw, ticks, panic>>

\* while(ticks - ticks0 < n) sleep(&ticks, &tickslock);
elapsed_sum(t, n) == ticks >= (t + n) % TICKS
elapsed(t, n) == (ticks + TICKS - t) % TICKS >= n

while_ticks(c) ==
    /\ at(c, "while")
    /\ goto(c, IF elapsed(arg(c)[1], arg(c)[2]) THEN rest(c)
               ELSE sleep(run[c], "ticks", "tickslock") \o todo[ctx(c)])
    /\ UNCHANGED <<run, state, chan, lock, intr, noff, intena, hw, clock, panic>>

\* A driver: wait for the device, start the request, wait for its end.
driver(c) ==
    \/ /\ at(c, "request")
       /\ IF busy
            THEN goto(c, sleep(run[c], "device", "devlock") \o todo[ctx(c)]) /\ UNCHANGED busy
            ELSE goto(c, <<Op("await")>> \o rest(c)) /\ busy' = TRUE
       /\ UNCHANGED <<run, state, chan, lock, intr, noff, intena, sip, irq, clock, panic>>
    \/ /\ at(c, "await")
       /\ goto(c, IF busy THEN sleep(run[c], "device", "devlock") \o todo[ctx(c)] ELSE rest(c))
       /\ UNCHANGED <<run, state, chan, lock, intr, noff, intena, hw, clock, panic>>

step(c) ==
    \/ acquiring(c) \/ spin(c) \/ releasing(c)
    \/ switch(c) \/ again(c) \/ yielding(c) \/ sleeping(c) \/ wake(c)
    \/ claim(c) \/ finish(c) \/ complete(c) \/ tick(c) \/ clear_sip(c) \/ returning(c)
    \/ ticks0(c) \/ while_ticks(c) \/ driver(c)

Next ==
    \/ device
    \/ \E c \in CPU :
         \/ step(c) \/ timervec(c) \/ timer_trap(c) \/ external_trap(c)
         \/ "request" \in load.calls /\ request(c)
         \/ "sleep" \in load.calls /\ \E n \in Naps : sys_sleep(c, n)

Spec == Init /\ [][Next /\ UNCHANGED load]_<<load, vars>>
-----------------------------------------------------------------------------
held(c) == {l \in Lock : lock[l] = c}
Spinning == {c \in CPU : at(c, "spin")}
handling(c) == \E k \in DOMAIN todo[ctx(c)] : todo[ctx(c)][k][1] = "sret"

\* acquire(), release(), pop_off(), sched() and the trap handlers never find
\* what they panic about.
NoKernelPanic == ~panic

\* c->noff counts the locks a CPU holds or spins for, over all the contexts it
\* has run, and while there is one no interrupt is taken: a handler cannot wait
\* for a lock of the code it interrupted.
NoffCounts ==
    \A c \in CPU :
        /\ noff[c] = Cardinality(held(c)) + (IF c \in Spinning THEN 1 ELSE 0)
        /\ noff[c] > 0 => ~intr[c]

\* When a kernel thread has released its locks, interrupts are as they were
\* before it took them - on in a system call, off in a handler - though it may
\* have slept in between and be on another CPU.
InterruptsRestored ==
    \A c \in CPU :
        run[c] # none /\ ~user(c) /\ noff[c] = 0 /\ Last(todo[run[c]])[2] # "either"
            => intr[c] = (Last(todo[run[c]])[2] = "on" /\ ~handling(c))

\* The CPUs that spin do not wait for each other.
NoSpinCycle ==
    \A S \in SUBSET Spinning : S # {} => \E c \in S : lock[arg(c)] \notin S

\* sleep(n) returns only after n ticks, also when ticks has wrapped around.
SleepsEnough ==
    \A c \in CPU : run[c] # none /\ user(c) => awake[run[c]] = 0
=============================================================================
