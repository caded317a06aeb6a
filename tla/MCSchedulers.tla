---------------------------- MODULE MCSchedulers ----------------------------
(***************************************************************************)
(* The schedulers that keep the lock of the best process during a scan:    *)
(* MLFQ on two CPUs, FCFS and PBS on two CPUs (three slots without the     *)
(* clock, two with it), and FCFS and PBS on one, where the clock and the   *)
(* accounting of waitx() cannot overtake each other.  The choice of the    *)
(* subject in the first state is final.                                    *)
(***************************************************************************)
EXTENDS Mlfq

CONSTANTS Builds, Priority

VARIABLES
    subject,
    build, stick, priority, niceness, nscheduled, tickls, tickslp, tickrng,
    ctime, rtime, etime, fresh, waited

Two == INSTANCE NonPreemptive WITH MaxTick <- 0, MaxSched <- 2
Pair == INSTANCE NonPreemptive WITH NPROC <- 2, MaxTick <- 1, MaxSched <- 2
One == INSTANCE NonPreemptive WITH CPU <- {cpu0}, MaxTick <- 2, MaxSched <- 2

mlfq == <<queue, intime, ticksused, waittime>>
nonpreemptive == <<build, stick, priority, niceness, nscheduled, tickls, tickslp,
                   tickrng, ctime, rtime, etime, fresh, waited>>

NoMlfq == queue = 0 /\ intime = 0 /\ ticksused = 0 /\ waittime = 0

NoNonPreemptive ==
    /\ build = 0 /\ stick = 0 /\ priority = 0 /\ niceness = 0 /\ nscheduled = 0
    /\ tickls = 0 /\ tickslp = 0 /\ tickrng = 0 /\ ctime = 0 /\ rtime = 0
    /\ etime = 0 /\ fresh = 0 /\ waited = 0

MCInit ==
    \/ subject = "mlfq" /\ Init /\ NoNonPreemptive
    \/ subject = "two" /\ Two!Init /\ NoMlfq
    \/ subject = "pair" /\ Pair!Init /\ NoMlfq
    \/ subject = "one" /\ One!Init /\ NoMlfq

MCNext ==
    /\ UNCHANGED subject
    /\ \/ subject = "mlfq" /\ Next /\ UNCHANGED nonpreemptive
       \/ subject = "two" /\ Two!Next /\ UNCHANGED mlfq
       \/ subject = "pair" /\ Pair!Next /\ UNCHANGED mlfq
       \/ subject = "one" /\ One!Next /\ UNCHANGED mlfq

MCSpec == MCInit /\ [][MCNext]_<<subject, vars, nonpreemptive>>
-----------------------------------------------------------------------------
\* README.md lines 56 and 90: at the end of a scan no RUNNABLE process should
\* have gone first, by start time (FCFS) or by dynamic priority, times
\* scheduled and start time (PBS), but for processes that became RUNNABLE or
\* changed priority behind the scan's back.
PicksBest ==
    /\ (subject = "two" => Two!PicksBest) /\ (subject = "pair" => Pair!PicksBest)
    /\ (subject = "one" => One!PicksBest)

\* On one CPU the waiting time that waitx() reports, computed from the times of
\* creation and of exit and from the ticks charged, is the ticks that found the
\* process off the CPU.
WaitTimeCounts == subject = "one" => One!WaitTimeCounts
=============================================================================
