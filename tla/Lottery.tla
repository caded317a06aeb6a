------------------------------ MODULE Lottery ------------------------------
(***************************************************************************)
(* The lottery scheduler (kernel/proc.c built with LBS) and the count of   *)
(* tickets it draws from, on one or several CPUs.                          *)
(*                                                                         *)
(* totaltickets is changed under the lock of whichever process is being    *)
(* moved, not under a lock of its own, so that "+=" and "-=" are a load    *)
(* and a store.  Holding a p->lock disables interrupts on that CPU.        *)
(***************************************************************************)
EXTENDS Integers, FiniteSets
LOCAL INSTANCE FiniteSetsExt

CONSTANTS
    NPROC,          \* size of the process table
    CPU,            \* harts
    MaxTickets      \* bound on the argument of settickets()

LotteryAssumption == NPROC \in Nat \ {0} /\ MaxTickets \in Nat \ {0}

Slot == 1..NPROC
nobody == 0

VARIABLES
    state,          \* p->state
    tickets,        \* p->tickets
    totaltickets,   \* the global count
    ctickets,       \* the static variable of scheduler(), shared by the CPUs
    pc,             \* what each CPU executes
    on,             \* c->proc
    idx,            \* the slot the scan is at
    i,              \* RUNNABLE slots the scan has seen
    rn,             \* the number drawn
    drawn,          \* totaltickets when it was drawn
    rmw             \* an update of totaltickets under way: the process whose
                    \* lock is held, the value to store, what comes next

vars == <<state, tickets, totaltickets, ctickets, pc, on, idx, i, rn, drawn,
          rmw>>
scan == <<ctickets, idx, i, rn, drawn>>

NoRmw == [p |-> nobody, sum |-> 0, next |-> "draw"]

TypeOK ==
    /\ state \in [Slot -> {"UNUSED", "SLEEPING", "RUNNABLE", "RUNNING",
                           "ZOMBIE"}]
    /\ tickets \in [Slot -> 0..MaxTickets]
    /\ {totaltickets, ctickets} \subseteq Int
    /\ pc \in [CPU -> {"draw", "scan", "run", "store"}]
    /\ on \in [CPU -> Slot \cup {nobody}]
    /\ idx \in [CPU -> 1..(NPROC + 1)]
    /\ i \in [CPU -> 0..NPROC]
    /\ rn \in [CPU -> Nat]
    /\ drawn \in [CPU -> Int]
    /\ rmw \in [CPU -> [p : Slot \cup {nobody}, sum : Int,
                        next : {"draw", "scan", "run"}]]

\* userinit() has made the first process, with one ticket.
Init ==
    /\ state = [p \in Slot |-> IF p = 1 THEN "RUNNABLE" ELSE "UNUSED"]
    /\ tickets = [p \in Slot |-> IF p = 1 THEN 1 ELSE 0]
    /\ totaltickets = 1
    /\ ctickets = 0
    /\ pc = [c \in CPU |-> "draw"]
    /\ on = [c \in CPU |-> nobody]
    /\ idx = [c \in CPU |-> 1]
    /\ i = [c \in CPU |-> 0]
    /\ rn = [c \in CPU |-> 0]
    /\ drawn = [c \in CPU |-> 0]
    /\ rmw = [c \in CPU |-> NoRmw]

Unlocked(p) == \A c \in CPU : rmw[c].p # p

\* Load totaltickets to add k; the store comes later, p->lock held until then.
Load(c, p, k, next) ==
    /\ rmw' = [rmw EXCEPT ![c] = [p |-> p, sum |-> totaltickets + k,
                                  next |-> next]]
    /\ pc' = [pc EXCEPT ![c] = "store"]
    /\ UNCHANGED totaltickets

store(c) ==
    /\ pc[c] = "store"
    /\ totaltickets' = rmw[c].sum
    /\ pc' = [pc EXCEPT ![c] = rmw[c].next]
    /\ rmw' = [rmw EXCEPT ![c] = NoRmw]
    /\ UNCHANGED <<state, tickets, on, scan>>
-----------------------------------------------------------------------------
(***************************************************************************)
(* scheduler()                                                             *)
(***************************************************************************)
\* (rand() % t) + 1.  The remainder has the sign of rand(), and RISC-V makes
\* the remainder of a division by zero the dividend: then any number comes
\* out, those above all the tickets there can be being alike.
draws(t) == IF t = 0 THEN 1..(NPROC * MaxTickets + 1)
                     ELSE 1..(IF t < 0 THEN -t ELSE t)

draw(c) ==
    /\ pc[c] = "draw"
    /\ \E r \in draws(totaltickets) : rn' = [rn EXCEPT ![c] = r]
    /\ drawn' = [drawn EXCEPT ![c] = totaltickets]
    /\ idx' = [idx EXCEPT ![c] = 1]
    /\ i' = [i EXCEPT ![c] = 0]
    /\ pc' = [pc EXCEPT ![c] = "scan"]
    /\ UNCHANGED <<state, tickets, totaltickets, ctickets, on, rmw>>

\* The running sum of the scan with the tickets of p.
cumulate(c, p) == IF i[c] = 0 THEN tickets[p] ELSE tickets[p] + ctickets

\* Slot idx[c] is not RUNNABLE, or the number drawn is above the sum.
scan_next(c) ==
    LET p == idx[c]
    IN  /\ pc[c] = "scan"
        /\ p <= NPROC
        /\ Unlocked(p)
        /\ IF state[p] = "RUNNABLE"
             THEN /\ cumulate(c, p) < rn[c]
                  /\ ctickets' = cumulate(c, p)
                  /\ i' = [i EXCEPT ![c] = @ + 1]
             ELSE UNCHANGED <<ctickets, i>>
        /\ idx' = [idx EXCEPT ![c] = @ + 1]
        /\ UNCHANGED <<state, tickets, totaltickets, pc, on, rn, drawn, rmw>>

\* The winner: RUNNING, and its tickets leave the count.
scan_pick(c) ==
    LET p == idx[c]
    IN  /\ pc[c] = "scan"
        /\ p <= NPROC
        /\ Unlocked(p)
        /\ state[p] = "RUNNABLE"
        /\ cumulate(c, p) >= rn[c]
        /\ ctickets' = cumulate(c, p)
        /\ state' = [state EXCEPT ![p] = "RUNNING"]
        /\ on' = [on EXCEPT ![c] = p]
        /\ Load(c, p, -tickets[p], "run")
        /\ UNCHANGED <<tickets, idx, i, rn, drawn>>

scan_end(c) ==
    /\ pc[c] = "scan"
    /\ idx[c] = NPROC + 1
    /\ pc' = [pc EXCEPT ![c] = "draw"]
    /\ UNCHANGED <<state, tickets, totaltickets, on, scan, rmw>>
-----------------------------------------------------------------------------
(***************************************************************************)
(* The processes.                                                          *)
(***************************************************************************)
\* c runs a process, which is not in the middle of an update.
Running(c) == pc[c] = "run"

\* yield(), on every timer interrupt: back to RUNNABLE and into the count.
yield(c) ==
    /\ Running(c)
    /\ Unlocked(on[c])
    /\ state' = [state EXCEPT ![on[c]] = "RUNNABLE"]
    /\ on' = [on EXCEPT ![c] = nobody]
    /\ Load(c, on[c], tickets[on[c]], "draw")
    /\ UNCHANGED <<tickets, scan>>

\* sleep() or exit(): RUNNING processes are not in the count.
leave(c, s) ==
    /\ Running(c)
    /\ Unlocked(on[c])
    /\ s = "SLEEPING" \/ on[c] # 1
    /\ state' = [state EXCEPT ![on[c]] = s]
    /\ on' = [on EXCEPT ![c] = nobody]
    /\ pc' = [pc EXCEPT ![c] = "draw"]
    /\ UNCHANGED <<tickets, totaltickets, scan, rmw>>

\* The body of wakeup() for one sleeper; kill() does the same to one.
wakeup_uncounted(c, p) ==
    /\ state[p] = "SLEEPING"
    /\ Unlocked(p)
    /\ state' = [state EXCEPT ![p] = "RUNNABLE"]
    /\ Load(c, p, 0, pc[c])
    /\ UNCHANGED <<tickets, on, scan>>

wakeup(c, p) ==
    /\ state[p] = "SLEEPING"
    /\ Unlocked(p)
    /\ state' = [state EXCEPT ![p] = "RUNNABLE"]
    /\ Load(c, p, tickets[p], pc[c])
    /\ UNCHANGED <<tickets, on, scan>>

\* An interrupt or a system call; no lock is held.
wake(c, p) == pc[c] # "store" /\ wakeup(c, p)

\* The child has its parent's tickets, counted when it is made RUNNABLE.
fork(c, p) ==
    /\ Running(c)
    /\ state[p] = "UNUSED"
    /\ Unlocked(p)
    /\ state' = [state EXCEPT ![p] = "RUNNABLE"]
    /\ tickets' = [tickets EXCEPT ![p] = tickets[on[c]]]
    /\ Load(c, p, tickets[on[c]], "run")
    /\ UNCHANGED <<on, scan>>

\* freeproc() of a zombie, in wait().
freeproc(c, p) ==
    /\ Running(c)
    /\ state[p] = "ZOMBIE"
    /\ Unlocked(p)
    /\ state' = [state EXCEPT ![p] = "UNUSED"]
    /\ tickets' = [tickets EXCEPT ![p] = 0]
    /\ UNCHANGED <<totaltickets, pc, on, scan, rmw>>

sys_settickets(c, n) ==
    /\ Running(c)
    /\ Unlocked(on[c])
    /\ tickets' = [tickets EXCEPT ![on[c]] = n]
    /\ UNCHANGED <<state, totaltickets, pc, on, scan, rmw>>

scheduler(c) == draw(c) \/ scan_next(c) \/ scan_pick(c) \/ scan_end(c)

process(c) ==
    \/ yield(c)
    \/ \E s \in {"SLEEPING", "ZOMBIE"} : leave(c, s)
    \/ \E p \in Slot : fork(c, p) \/ freeproc(c, p)
    \/ \E n \in 0..MaxTickets : sys_settickets(c, n)

Next ==
    \E c \in CPU : \/ store(c) \/ scheduler(c) \/ process(c)
                   \/ \E p \in Slot : wake(c, p)

Spec == Init /\ [][Next]_vars

\* The scheduler's loop never stops, and a CPU goes on executing.
FairSpec == Spec /\ \A c \in CPU : WF_vars(store(c)) /\ WF_vars(scheduler(c))
-----------------------------------------------------------------------------
(***************************************************************************)
(* Properties.                                                             *)
(***************************************************************************)
Runnable == {p \in Slot : state[p] = "RUNNABLE"}

\* README.md lines 62 and 64: totaltickets counts the tickets of the RUNNABLE
\* processes, as long as none of fork(), yield(), wakeup(), kill() and
\* scheduler() is between its load and its store of it.
TotalIsSum ==
    (\A c \in CPU : pc[c] # "store")
        => totaltickets = MapThenSumSet(LAMBDA p : tickets[p], Runnable)

\* A CPU does not stay idle while a process with a ticket is RUNNABLE.
WorkConserving ==
    \A c \in CPU :
        (\E p \in Runnable : tickets[p] > 0) ~> on[c] # nobody
=============================================================================
