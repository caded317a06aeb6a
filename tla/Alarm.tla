------------------------------- MODULE Alarm -------------------------------
(***************************************************************************)
(* sigalarm() and sigreturn() (kernel/sysproc.c) and the delivery of an    *)
(* alarm by the timer interrupt in usertrap() (kernel/trap.c), for one     *)
(* process.  Only the process itself touches these fields, so a step is a  *)
(* system call, a timer interrupt or an instruction of the program.        *)
(*                                                                         *)
(* The registers of the program are those its next trap saves in           *)
(* p->trapframe.  The fields of the trapframe that belong to the kernel,   *)
(* which sigreturn() keeps and usertrapret() rewrites, are left out.       *)
(***************************************************************************)
EXTENDS Integers, Sequences

CONSTANTS
    Val,            \* contents of the registers
    Zero,           \* the 0 that sigalarm() returns
    MaxN,           \* bound on the interval given to sigalarm()
    MaxDepth,       \* bound on nested calls of the handler
    HandlerRearms   \* the handler may call sigalarm() with n > 0

ASSUME AlarmAssumption ==
    /\ MaxN \in Nat \ {0} /\ MaxDepth \in Nat \ {0}
    /\ HandlerRearms \in BOOLEAN
    /\ Zero \in Val

VARIABLES
    ticksn,         \* p->ticksn
    elapsed,        \* p->ticksp - p->tickspa; values above MaxN are alike
    sigalarm,       \* p->sigalarm
    trapframe,      \* registers of the program: where it is, a0 and the others
    trapcopy,       \* p->trapcopy
    interrupted     \* what each call of the handler that has not returned
                    \* interrupted, the latest first

vars == <<ticksn, elapsed, sigalarm, trapframe, trapcopy, interrupted>>

Frame == [epc : {"main", "handler"}, a0 : Val, regs : Val]

TypeOK ==
    /\ ticksn \in 0..MaxN
    /\ elapsed \in 0..(MaxN + 1)
    /\ sigalarm \in {0, 1}
    /\ trapframe \in Frame
    /\ trapcopy \in Frame
    /\ interrupted \in Seq(Frame) /\ Len(interrupted) <= MaxDepth

\* allocproc() has cleared the alarm.
Init ==
    /\ ticksn = 0 /\ elapsed = 0 /\ sigalarm = 0
    /\ trapframe \in [epc : {"main"}, a0 : Val, regs : Val]
    /\ trapcopy = trapframe
    /\ interrupted = <<>>
-----------------------------------------------------------------------------
\* The program, or its handler, computes.
compute(a, r) ==
    /\ trapframe' = [trapframe EXCEPT !.a0 = a, !.regs = r]
    /\ UNCHANGED <<ticksn, elapsed, sigalarm, trapcopy, interrupted>>

\* p->sigalarm = 1 if there is an interval.
armed(n) == IF n > 0 THEN 1 ELSE 0

\* The call returns 0 in a0.
sys_sigalarm(n) ==
    /\ trapframe.epc = "handler" /\ n > 0 => HandlerRearms
    /\ sigalarm' = armed(n)
    /\ ticksn' = n
    /\ elapsed' = 0
    /\ trapframe' = [trapframe EXCEPT !.a0 = Zero]
    /\ UNCHANGED <<trapcopy, interrupted>>

\* The last call of the handler.  What sys_sigreturn() returns is put in a0
\* by syscall().
return_zero(f) == [f EXCEPT !.a0 = Zero]
return_a0(f) == [f EXCEPT !.a0 = f.a0]

keep_tickspa(e) == e
reset_tickspa(e) == 0

sys_sigreturn ==
    /\ trapframe.epc = "handler"
    /\ trapframe' = return_a0(trapcopy)
    /\ sigalarm' = armed(ticksn)
    /\ elapsed' = reset_tickspa(elapsed)
    /\ interrupted' = Tail(interrupted)
    /\ UNCHANGED <<ticksn, trapcopy>>

\* A tick in user mode, and whether the alarm is due.
tick(e) == IF e > MaxN THEN e ELSE e + 1

due(e) == ticksn > 0 /\ e = ticksn /\ sigalarm = 1

\* The timer interrupt in usertrap(): deliver the alarm if it is due.
usertrap ==
    /\ elapsed' = tick(elapsed)
    /\ due(elapsed') => Len(interrupted) < MaxDepth
    /\ IF due(elapsed')
         THEN /\ sigalarm' = 0
              /\ trapcopy' = trapframe
              /\ trapframe' = [trapframe EXCEPT !.epc = "handler"]
              /\ interrupted' = <<trapframe>> \o interrupted
         ELSE UNCHANGED <<sigalarm, trapcopy, trapframe, interrupted>>
    /\ UNCHANGED ticksn

Next ==
    \/ \E a, r \in Val : compute(a, r)
    \/ \E n \in 0..MaxN : sys_sigalarm(n)
    \/ sys_sigreturn
    \/ usertrap

Spec == Init /\ [][Next]_vars

\* The timer goes on interrupting the program while it computes.
FairSpec == Spec /\ WF_vars(usertrap)
-----------------------------------------------------------------------------
(***************************************************************************)
(* Properties.                                                             *)
(***************************************************************************)
\* sigreturn() "restores the state of the process to before the last alarm
\* handler was called" (README.md line 34), a0 included (test3 of
\* user/sigalarmtest.c), whatever the handler computed and called.
ResumesExactly ==
    [][Len(interrupted') < Len(interrupted)
         => trapframe' = Head(interrupted)]_vars

\* "kernel does not allow reentrant alarm calls" (user/sigalarmtest.c line
\* 105): no handler is called while another call of it has not returned.
NoReentry == Len(interrupted) <= 1

\* From some time on the count starts afresh only in sigreturn().
NoMoreCalls ==
    <>[][elapsed' < elapsed
           => trapframe.epc = "handler" /\ trapframe'.epc = "main"]_vars

\* The handler is called "at every `n` ticks" (README.md line 30): once the
\* program has stopped calling sigalarm(), an alarm that is set recurs for ever.
AlarmRecurs ==
    NoMoreCalls /\ <>[](ticksn > 0) => []<>(trapframe.epc = "handler")
=============================================================================
