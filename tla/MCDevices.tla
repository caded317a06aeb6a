----------------------------- MODULE MCDevices -----------------------------
(***************************************************************************)
(* Devices and interrupts: the disk driver with its device (Virtio), and   *)
(* traps, locks and context switches on two CPUs with a timer or a device  *)
(* (Intr).  The choice of the subject in the first state is final.  The    *)
(* processes and the contents of Virtio are interchangeable; the threads   *)
(* of Intr are not, as they have an order in the process table.            *)
(***************************************************************************)
EXTENDS Virtio, TLC

CONSTANTS CPU, cpu0, other, Thread, none, Naps, TICKS

VARIABLES
    subject,
    load, todo, run, state, chan, lock, sie, noff, intena, sip, ticks, plic, busy,
    awake, panic

\* sleep() with the timer of the CPU that counts the ticks, and requests to a
\* device with the timer of the other.
I == INSTANCE Intr WITH
    Proc <- Thread, intr <- sie, irq <- plic,
    Loads <- {[calls |-> {"sleep"}, timers |-> {cpu0}],
              [calls |-> {"request"}, timers |-> {other}]}

interrupts == <<load, todo, run, state, chan, lock, sie, noff, intena, sip, ticks, plic,
                busy, awake, panic>>

NoInterrupts ==
    /\ load = 0 /\ todo = 0 /\ run = 0 /\ state = 0 /\ chan = 0 /\ lock = 0 /\ sie = 0
    /\ noff = 0 /\ intena = 0 /\ sip = 0 /\ ticks = 0 /\ plic = 0 /\ busy = 0
    /\ awake = 0 /\ panic = 0

\* No request is made; what the properties of Virtio do not read is 0.
NoDisk ==
    /\ pc = [p \in Proc |-> "idle"] /\ head = [p \in Proc |-> nil]
    /\ data = [p \in Proc |-> 0] /\ disk = data
    /\ free = Desc /\ inflight = {}
    /\ avail_idx = 0 /\ seen = 0 /\ used_tail = 0 /\ used_idx = 0
    /\ next = 0 /\ addr = 0 /\ op = 0 /\ info = 0 /\ avail = 0 /\ used = 0
    /\ irq = 0 /\ isr = 0 /\ bdisk = 0

MCInit == \/ subject = "disk" /\ Init /\ NoInterrupts
          \/ subject = "interrupts" /\ I!Init /\ NoDisk

MCNext ==
    /\ UNCHANGED subject
    /\ \/ subject = "disk" /\ Next /\ UNCHANGED interrupts
       \/ subject = "interrupts" /\ I!Next /\ UNCHANGED <<load, vars>>

MCSpec == MCInit /\ [][MCNext]_<<subject, vars, interrupts>>

Interchangeable == Permutations(Proc) \cup Permutations(Val)
-----------------------------------------------------------------------------
\* c->noff counts the locks of a CPU through interrupts and context switches,
\* no interrupt is taken while it holds one, and when a thread has released its
\* locks interrupts are as before, whatever CPU it is on now; the CPUs that spin
\* do not wait for each other, and none of the checks for this panics.
LocksAndInterrupts ==
    subject = "interrupts" =>
        I!NoKernelPanic /\ I!NoffCounts /\ I!InterruptsRestored /\ I!NoSpinCycle

\* sleep(n) returns only after n ticks, also when ticks has wrapped around.
SleepsEnough == subject = "interrupts" => I!SleepsEnough
=============================================================================
