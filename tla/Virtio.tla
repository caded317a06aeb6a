------------------------------- MODULE Virtio -------------------------------
(***************************************************************************)
(* The disk driver (kernel/virtio_disk.c) and the device it shares three   *)
(* rings with: virtio_disk_rw() by several processes, each on a buffer it  *)
(* has locked, virtio_disk_intr(), and a device that takes requests in     *)
(* order, finishes them in any order and interrupts.                       *)
(*                                                                         *)
(* The driver runs under vdisk_lock, so that each stretch of               *)
(* virtio_disk_rw() up to a sleep() is a step.  The device takes no lock:  *)
(* it can add to the used ring between two iterations of the interrupt     *)
(* handler's loop.                                                         *)
(*                                                                         *)
(* A ring entry its reader has passed keeps a stale value that nobody      *)
(* looks at again.  The model forgets it, so that a stale read would find  *)
(* nil and not, by luck, a plausible chain.                                *)
(***************************************************************************)
EXTENDS Integers, Sequences, FiniteSets

CONSTANTS
    Proc,           \* processes, each with a buffer and the block it caches
    Val,            \* contents of a block
    NUM,            \* descriptors, and entries of the rings
    WRAP            \* values of a uint16

Desc == 0..(NUM - 1)
nil == -1           \* no descriptor: VRING_DESC_F_NEXT is not set
NoBuf == "none"     \* the null pointer in info[].b

ASSUME VirtioAssumption ==
    /\ NUM \in Nat /\ NUM >= 3
    /\ WRAP \in Nat /\ WRAP % NUM = 0 /\ WRAP > 0
    /\ NoBuf \notin Proc

VARIABLES
    free,           \* descriptors with disk.free[i] = 1
    next,           \* desc[i].next
    addr,           \* desc[i].addr: whose buffer the device is to transfer
    op,             \* ops[i]: what a chain starting at i asks for
    info,           \* info[i]: the buffer waiting, and its status byte
    avail,          \* avail->ring
    avail_idx,      \* avail->idx
    seen,           \* the device has taken this many entries of avail
    inflight,       \* chains the device works on
    used,           \* used->ring
    used_tail,      \* used->idx, advanced by the device
    used_idx,       \* disk.used_idx, advanced by the driver
    irq,            \* interrupt status of the device
    isr,            \* where virtio_disk_intr() is; not "off": it has vdisk_lock
    bdisk,          \* b->disk of each process's buffer
    data,           \* b->data
    disk,           \* contents of the block on the disk
    head,           \* idx[0] of the call each process is in
    pc              \* where each process is

vars == <<free, next, addr, op, info, avail, avail_idx, seen, inflight, used,
          used_tail, used_idx, irq, isr, bdisk, data, disk, head, pc>>
device == <<seen, inflight, used_tail, disk>>

TypeOK ==
    /\ free \subseteq Desc
    /\ next \in [Desc -> Desc \cup {nil}]
    /\ addr \in [Desc -> Proc \cup {NoBuf}]
    /\ op \in [Desc -> {"in", "out"}]
    /\ info \in [Desc -> [b : Proc \cup {NoBuf}, status : {0, 255}]]
    /\ {avail, used} \subseteq [Desc -> Desc \cup {nil}]
    /\ {avail_idx, seen, used_tail, used_idx} \subseteq 0..(WRAP - 1)
    /\ inflight \subseteq Desc
    /\ irq \in BOOLEAN
    /\ isr \in {"off", "loop", "exit"}
    /\ bdisk \in [Proc -> BOOLEAN]
    /\ {data, disk} \subseteq [Proc -> Val]
    /\ head \in [Proc -> Desc \cup {nil}]
    /\ pc \in [Proc -> {"idle", "in", "out", "in_sleep", "out_sleep",
                        "woken", "waiting"}]

\* virtio_disk_init() has zeroed the rings.
Init ==
    /\ free = Desc
    /\ next = [i \in Desc |-> nil]
    /\ addr = [i \in Desc |-> NoBuf]
    /\ op = [i \in Desc |-> "in"]
    /\ info = [i \in Desc |-> [b |-> NoBuf, status |-> 0]]
    /\ avail = [i \in Desc |-> nil]
    /\ used = [i \in Desc |-> nil]
    /\ avail_idx = 0 /\ seen = 0 /\ used_tail = 0 /\ used_idx = 0
    /\ inflight = {}
    /\ irq = FALSE /\ isr = "off"
    /\ bdisk = [p \in Proc |-> FALSE]
    /\ disk \in [Proc -> Val]
    /\ data = disk
    /\ head = [p \in Proc |-> nil]
    /\ pc = [p \in Proc |-> "idle"]

\* uint16 arithmetic.
inc(k) == (k + 1) % WRAP

\* wakeup(&disk.free[0]) on the program counters f.
wake_free(f) ==
    [p \in Proc |-> CASE f[p] = "in_sleep" -> "in"
                      [] f[p] = "out_sleep" -> "out"
                      [] OTHER -> f[p]]

\* The n-th free descriptor, in the order alloc_desc() finds them.
nth_free(n) == CHOOSE i \in free : Cardinality({j \in free : j < i}) = n - 1
-----------------------------------------------------------------------------
(***************************************************************************)
(* virtio_disk_rw()                                                        *)
(***************************************************************************)
\* A call on a buffer.  Until the device has been asked, a buffer holds what
\* the caller of bwrite() put there or, for bread(), another block's contents.
rw(p, write, v) ==
    /\ pc[p] = "idle"
    /\ pc' = [pc EXCEPT ![p] = IF write THEN "out" ELSE "in"]
    /\ data' = [data EXCEPT ![p] = v]
    /\ UNCHANGED <<free, next, addr, op, info, avail, avail_idx, used_idx, irq,
                   isr, bdisk, head, used, device>>

\* alloc3_desc() fails: it frees what it got, which wakes other sleepers.
alloc_fails(p) ==
    /\ pc[p] \in {"in", "out"}
    /\ isr = "off"
    /\ Cardinality(free) < 3
    /\ LET s == IF pc[p] = "in" THEN "in_sleep" ELSE "out_sleep"
           f == IF free = {} THEN pc ELSE wake_free(pc)
       IN  pc' = [f EXCEPT ![p] = s]
    /\ UNCHANGED <<free, next, addr, op, info, avail, avail_idx, used_idx, irq,
                   isr, bdisk, data, head, used, device>>

\* Format the chain, put it on the avail ring and sleep on the buffer.
submit(p) ==
    LET a == nth_free(1)
        b == nth_free(2)
        c == nth_free(3)
    IN  /\ pc[p] \in {"in", "out"}
        /\ isr = "off"
        /\ Cardinality(free) >= 3
        /\ free' = free \ {a, b, c}
        /\ op' = [op EXCEPT ![a] = pc[p]]
        /\ next' = [next EXCEPT ![a] = b, ![b] = c, ![c] = nil]
        /\ addr' = [addr EXCEPT ![b] = p]
        /\ info' = [info EXCEPT ![a] = [b |-> p, status |-> 255]]
        /\ bdisk' = [bdisk EXCEPT ![p] = TRUE]
        /\ avail' = [avail EXCEPT ![avail_idx % NUM] = a]
        /\ avail_idx' = inc(avail_idx)
        /\ head' = [head EXCEPT ![p] = a]
        /\ pc' = [pc EXCEPT ![p] = "waiting"]
        /\ UNCHANGED <<used_idx, irq, isr, data, used, device>>

\* What free_chain() frees, following VRING_DESC_F_NEXT.
chain(a) == {a, next[a], next[next[a]]}

\* The sleep() on the buffer is over: sleep again, or free the chain.
finish(p) ==
    LET a == head[p]
    IN  /\ pc[p] = "woken"
        /\ isr = "off"
        /\ IF bdisk[p]
             THEN /\ pc' = [pc EXCEPT ![p] = "waiting"]
                  /\ UNCHANGED <<info, free, next, addr, head>>
             ELSE /\ info' = [info EXCEPT ![a].b = NoBuf]
                  /\ free' = free \cup chain(a)
                  /\ next' = [i \in Desc |-> IF i \in chain(a) THEN nil
                                                               ELSE next[i]]
                  /\ addr' = [i \in Desc |-> IF i \in chain(a) THEN NoBuf
                                                               ELSE addr[i]]
                  /\ head' = [head EXCEPT ![p] = nil]
                  /\ pc' = wake_free([pc EXCEPT ![p] = "idle"])
        /\ UNCHANGED <<op, avail, avail_idx, used_idx, irq, isr, bdisk, data,
                       used, device>>

\* kill() makes a sleeping process runnable; it finds it has to sleep again.
kill(p) ==
    /\ pc[p] \in {"in_sleep", "out_sleep", "waiting"}
    /\ pc' = [pc EXCEPT ![p] = CASE @ = "in_sleep" -> "in"
                                 [] @ = "out_sleep" -> "out"
                                 [] OTHER -> "woken"]
    /\ UNCHANGED <<free, next, addr, op, info, avail, avail_idx, used_idx, irq,
                   isr, bdisk, data, head, used, device>>
-----------------------------------------------------------------------------
(***************************************************************************)
(* virtio_disk_intr()                                                      *)
(***************************************************************************)
\* Acknowledge the interrupt and enter the loop.
intr ==
    /\ irq /\ isr = "off"
    /\ isr' = "loop"
    /\ irq' = FALSE
    /\ UNCHANGED <<free, next, addr, op, info, avail, avail_idx, used_idx,
                   bdisk, data, head, pc, used, device>>

\* One entry of the used ring: the buffer is done, wake who sleeps on it.
intr_entry(id) ==
    LET p == info[id].b
    IN  /\ bdisk' = [bdisk EXCEPT ![p] = FALSE]
        /\ pc' = [pc EXCEPT ![p] = IF @ = "waiting" THEN "woken" ELSE @]

intr_loop ==
    /\ isr = "loop"
    /\ used_idx # used_tail
    /\ intr_entry(used[used_idx % NUM])
    /\ used' = [used EXCEPT ![used_idx % NUM] = nil]
    /\ used_idx' = inc(used_idx)
    /\ UNCHANGED <<free, next, addr, op, info, avail, avail_idx, irq, isr,
                   data, head, device>>

\* The test of the loop fails, and then the handler releases the lock: the
\* device may complete a request in between.
intr_exit ==
    /\ isr = "loop"
    /\ used_idx = used_tail
    /\ isr' = "exit"
    /\ UNCHANGED <<free, next, addr, op, info, avail, avail_idx, used_idx, irq,
                   bdisk, data, head, pc, used, device>>

intr_end_acks ==
    /\ isr = "exit"
    /\ isr' = "off"
    /\ irq' = FALSE
    /\ UNCHANGED <<free, next, addr, op, info, avail, avail_idx, used_idx,
                   bdisk, data, head, pc, used, device>>

intr_end ==
    /\ isr = "exit"
    /\ isr' = "off"
    /\ UNCHANGED <<free, next, addr, op, info, avail, avail_idx, used_idx, irq,
                   bdisk, data, head, pc, used, device>>
-----------------------------------------------------------------------------
(***************************************************************************)
(* The device.                                                             *)
(***************************************************************************)
fetch ==
    /\ seen # avail_idx
    /\ inflight' = inflight \cup {avail[seen % NUM]}
    /\ avail' = [avail EXCEPT ![seen % NUM] = nil]
    /\ seen' = inc(seen)
    /\ UNCHANGED <<free, next, addr, op, info, avail_idx, used,
                   used_tail, used_idx, irq, isr, bdisk, data, disk, head, pc>>

\* The transfer between the buffer of the second descriptor and the disk,
\* the status byte, the used ring and the interrupt.
complete(a) ==
    LET p == addr[next[a]]
    IN  /\ a \in inflight
        /\ IF op[a] = "out"
             THEN disk' = [disk EXCEPT ![p] = data[p]] /\ UNCHANGED data
             ELSE data' = [data EXCEPT ![p] = disk[p]] /\ UNCHANGED disk
        /\ info' = [info EXCEPT ![a].status = 0]
        /\ inflight' = inflight \ {a}
        /\ used' = [used EXCEPT ![used_tail % NUM] = a]
        /\ used_tail' = inc(used_tail)
        /\ irq' = TRUE
        /\ UNCHANGED <<free, next, addr, op, avail, avail_idx, seen, used_idx,
                       isr, bdisk, head, pc>>

driver(p) == alloc_fails(p) \/ submit(p) \/ finish(p)
handler == intr \/ intr_loop \/ intr_exit \/ intr_end

Next ==
    \/ \E p \in Proc : \/ \E w \in BOOLEAN, v \in Val : rw(p, w, v)
                       \/ driver(p) \/ kill(p)
    \/ handler
    \/ fetch
    \/ \E a \in Desc : complete(a)

Spec == Init /\ [][Next]_vars
-----------------------------------------------------------------------------
(***************************************************************************)
(* Properties.                                                             *)
(***************************************************************************)
Busy == {p \in Proc : head[p] # nil}

\* The descriptors are either free or in the chain of exactly one request:
\* free_desc() never finds a descriptor free already, and none is lost.
DescriptorsAccounted ==
    /\ \A p \in Busy : chain(head[p]) \cap free = {}
    /\ \A p, q \in Busy : p # q => chain(head[p]) \cap chain(head[q]) = {}
    /\ Cardinality(free) + 3 * Cardinality(Busy) = NUM

\* The device transfers only into or out of a buffer whose process is still
\* inside virtio_disk_rw() for this very request.  An entry of the used ring
\* that virtio_disk_intr() has still to look at belongs to a request that is
\* done and whose caller still waits for it: the status panic is unreachable
\* and info[id].b is never null.
DmaOwned ==
    /\ \A a \in inflight :
          \E p \in Proc : /\ head[p] = a /\ bdisk[p]
                          /\ addr[next[a]] = p /\ info[a].b = p
    /\ \A k \in 0..(((used_tail - used_idx) % WRAP) - 1) :
          LET id == used[((used_idx + k) % WRAP) % NUM]
          IN  /\ info[id].status = 0
              /\ info[id].b # NoBuf /\ bdisk[info[id].b]

\* When virtio_disk_rw() has returned, buffer and disk block are the same.
Transferred == \A p \in Proc : pc[p] = "idle" => data[p] = disk[p]

\* No wakeup is lost.  The handler's acknowledgement of an interrupt races
\* with new completions (the comment on lines 299-304), yet entries of the
\* used ring are looked at by the loop or by an interrupt to come; nobody
\* sleeps for a request that is done, or for descriptors while there are
\* enough of them.
SleepersJustified ==
    /\ used_idx # used_tail => irq \/ isr = "loop"
    /\ \A p \in Proc : pc[p] = "waiting" => bdisk[p]
    /\ (\E p \in Proc : pc[p] \in {"in_sleep", "out_sleep"})
          => Cardinality(free) < 3

\* Every request is served: the block is on the disk, or in the buffer, when
\* virtio_disk_rw() returns, and nobody sleeps when there are descriptors or an
\* answer for them.  Every descriptor is free or in the chain of one request, and
\* the device only touches the buffer of a process that waits for it.
RequestsServed == Transferred /\ SleepersJustified /\ DescriptorsAccounted /\ DmaOwned
=============================================================================
