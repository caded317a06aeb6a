--------------------------- MODULE MCUniprocessor ---------------------------
(***************************************************************************)
(* What one CPU promises, in three systems that have nothing in common but *)
(* the CPU: the alarm of one process, the MLFQ scheduler and the lottery   *)
(* scheduler.  The choice of the subject in the first state is final, and  *)
(* the variables of the others stay as they are.                           *)
(***************************************************************************)
EXTENDS Alarm

CONSTANTS NPROC, CPU, cpu0, NQUEUE, MAX_WAIT_TIME, MayFork, MaxTickets

VARIABLES
    subject,
    state, on, pc, idx,                         \* both schedulers
    queue, intime, ticksused, waittime, ticks, lock, best, clk,
    tickets, totaltickets, ctickets, i, rn, drawn, rmw

M == INSTANCE Mlfq
L == INSTANCE Lottery

ASSUME L!LotteryAssumption

both == <<state, on, pc, idx>>
mlfq == <<queue, intime, ticksused, waittime, ticks, lock, best, clk>>
lottery == <<tickets, totaltickets, ctickets, i, rn, drawn, rmw>>

NoAlarm ==
    /\ ticksn = 0 /\ elapsed = 0 /\ sigalarm = 0
    /\ trapframe = [epc |-> "main", a0 |-> Zero, regs |-> Zero]
    /\ trapcopy = trapframe /\ interrupted = <<>>

NoMlfq ==
    /\ queue = 0 /\ intime = 0 /\ ticksused = 0 /\ waittime = 0
    /\ ticks = 0 /\ lock = 0 /\ best = 0 /\ clk = 0

NoLottery ==
    /\ tickets = [p \in L!Slot |-> 0] /\ totaltickets = 0 /\ ctickets = 0
    /\ i = 0 /\ rn = 0 /\ drawn = 0 /\ rmw = 0

NoProcess ==
    /\ state = [p \in L!Slot |-> "UNUSED"] /\ on = [c \in CPU |-> 0]
    /\ pc = [c \in CPU |-> "none"] /\ idx = 0

MCInit ==
    \/ subject = "alarm" /\ Init /\ NoMlfq /\ NoLottery /\ NoProcess
    \/ subject = "mlfq" /\ M!Init /\ NoAlarm /\ NoLottery
    \/ subject = "lottery" /\ L!Init /\ NoAlarm /\ NoMlfq

MCNext ==
    /\ UNCHANGED subject
    /\ \/ subject = "alarm" /\ Next /\ UNCHANGED <<both, mlfq, lottery>>
       \/ subject = "mlfq" /\ M!Next /\ UNCHANGED <<vars, lottery>>
       \/ subject = "lottery" /\ L!Next /\ UNCHANGED <<vars, mlfq>>

\* The fairness of each system.
MCSpec ==
    /\ MCInit /\ [][MCNext]_<<subject, vars, both, mlfq, lottery>>
    /\ WF_vars(subject = "alarm" /\ usertrap)
    /\ SF_<<both, mlfq>>(subject = "mlfq" /\ M!clockintr)
    /\ \A c \in CPU :
         /\ SF_<<both, mlfq>>(subject = "mlfq" /\ M!scheduler(c))
         /\ SF_<<both, mlfq>>(subject = "mlfq" /\ M!trap(c))
         /\ SF_<<both, mlfq>>(subject = "mlfq" /\ M!timer(c))
         /\ WF_<<both, lottery>>(subject = "lottery" /\ L!store(c))
         /\ WF_<<both, lottery>>(subject = "lottery" /\ L!scheduler(c))
-----------------------------------------------------------------------------
\* README.md lines 111-113: aging "helps prevent starvation".  Every RUNNABLE
\* process runs, though others go to sleep and wake up in a higher queue as
\* often as they like.
MlfqNoStarvation == subject = "mlfq" => M!NoStarvation

\* The lottery draws from as many tickets as the RUNNABLE processes have (README.md
\* lines 62 and 64), and while there is one the CPU does not stay idle.
LotteryGoesOn == subject = "lottery" => []L!TotalIsSum /\ L!WorkConserving

\* The handler is called "at every `n` ticks" (README.md line 30): once the
\* program has stopped calling sigalarm(), an alarm that is set recurs for ever,
\* if its handler does not set another one (HandlerRearms).
AlarmGoesOn == subject = "alarm" => AlarmRecurs
=============================================================================
