----------------------------- MODULE ProcProofs -----------------------------
(***************************************************************************)
(* Proofs about the life of processes, for any number of processes and     *)
(* CPUs; about the alarms of a process, for any interval and any contents  *)
(* of its registers; and about a pipe that processes share, for any number *)
(* of them and any size of the pipe.                                       *)
(***************************************************************************)
EXTENDS Proc, SequenceTheorems, TLAPS

ProcType ==
    /\ state \in [Slot -> {"UNUSED", "USED", "SLEEPING", "RUNNABLE",
                           "RUNNING", "ZOMBIE"}]
    /\ chan \in [Slot -> Slot \cup {nobody}]
    /\ parent \in [Slot -> Slot \cup {nobody}]
    /\ lock \in [Slot -> CPU \cup {nobody}]
    /\ on \in [CPU -> Slot \cup {nobody}]
    /\ pc \in [Slot -> {"user", "fork_parent", "fork_run", "wait", "scan",
                        "doze", "asleep", "exit", "wake_init",
                        "wake_parent", "zombie"}]
    /\ sw \in [Slot -> {"run", "off", "back"}]
    /\ idx \in [Slot -> 1..(NPROC + 1)]
    /\ \A p \in Slot : pc[p] \in {"wake_init", "wake_parent"} => idx[p] \in Slot

Apart == \A c, d \in CPU : on[c] = on[d] /\ on[c] # nobody => c = d

\* A process that is not switched off is on a CPU; one that is on a CPU is
\* RUNNING until it has called sched(), and its CPU holds p->lock from the
\* assignment of p->state to the end of swtch().
Switched ==
    /\ \A p \in Slot : sw[p] # "off" => \E c \in CPU : on[c] = p
    /\ \A c \in CPU : on[c] # nobody =>
          LET p == on[c]
          IN  /\ sw[p] # "off" => state[p] = "RUNNING"
              /\ sw[p] = "off" => state[p] \in {"RUNNABLE", "SLEEPING", "ZOMBIE"}
              /\ sw[p] # "run" \/ pc[p] = "asleep" => lock[p] = c

\* The child of a fork() under way is USED, and nobody else's.
Embryo ==
    /\ \A p \in Slot : pc[p] \in {"fork_parent", "fork_run"} =>
          idx[p] \in Slot /\ state[idx[p]] = "USED"
    /\ \A p, q \in Slot :
          /\ pc[p] \in {"fork_parent", "fork_run"}
          /\ pc[q] \in {"fork_parent", "fork_run"}
          /\ idx[p] = idx[q]
          => p = q

StackInv == ProcType /\ Apart /\ Switched /\ Embryo

\* A process that holds wait_lock.
Holds(p) ==
    \/ pc[p] \in {"scan", "doze", "wake_init", "wake_parent"}
    \/ pc[p] = "zombie" /\ state[p] # "ZOMBIE"

OneHolder ==
    /\ \A p \in Slot : Holds(p) => sw[p] = "run" /\ wait_lock # nobody
    /\ \A p, q \in Slot : Holds(p) /\ Holds(q) => p = q

Alive(p) == state[p] \notin {"UNUSED", "USED", "ZOMBIE"}

\* Parents are alive; every process has one from fork() on, and exit() has
\* given its children to init when it calls wakeup().
Family ==
    /\ Alive(initproc)
    /\ pc[initproc] \notin {"exit", "wake_init", "wake_parent", "zombie"}
    /\ \A p \in Slot : parent[p] # nobody => Alive(parent[p])
    /\ \A p \in Slot \ {initproc} :
          state[p] \notin {"UNUSED", "USED"} => parent[p] # nobody
    /\ \A p \in Slot : pc[p] = "fork_run" => parent[idx[p]] # nobody
    /\ \A p \in Slot : state[p] = "ZOMBIE" => pc[p] = "zombie"
    /\ \A p, q \in Slot : pc[p] \in {"wake_init", "wake_parent", "zombie"} => parent[q] # p

FamilyInv == StackInv /\ OneHolder /\ Family

\* p sleeps in wait(), or is about to: it has released wait_lock.
Dozing(p) == pc[p] = "asleep" /\ (state[p] = "SLEEPING" \/ sw[p] = "run")

Unreaped(p, q) == parent[q] = p /\ state[q] = "ZOMBIE"

SleepsOnItself ==
    \A p \in Slot : state[p] = "SLEEPING" => chan[p] = p /\ pc[p] = "asleep"

\* A scan of wait() has passed no zombie child.
Looked ==
    \A p, q \in Slot : pc[p] = "doze" \/ (pc[p] = "scan" /\ q < idx[p]) => ~Unreaped(p, q)

\* exit() has woken its parent up before it becomes a zombie.
Told ==
    \A r \in Slot : /\ pc[r] = "wake_parent" /\ Dozing(parent[r]) => parent[r] >= idx[r]
                    /\ pc[r] = "zombie" /\ state[r] # "ZOMBIE" => ~Dozing(parent[r])

\* Only init may sleep with a zombie child, when it has inherited it in an
\* exit() that is about to wake init up.
Watched ==
    \A p, q \in Slot : Dozing(p) /\ Unreaped(p, q) =>
        p = initproc /\ \E r \in Slot : pc[r] = "wake_init" /\ idx[r] = initproc

WaitInv == FamilyInv /\ SleepsOnItself /\ Looked /\ Told /\ Watched
-----------------------------------------------------------------------------
\* cpu(p) is the CPU that executes p.
LEMMA CpuOf ==
    ASSUME NEW p \in Slot, NEW l, At(p, l)
    PROVE  cpu(p) \in CPU /\ on[cpu(p)] = p
  BY Zenon DEF At, cpu

\* The null pointer is no process and no CPU.
LEMMA Null == nobody \notin Slot /\ nobody \notin CPU /\ initproc \in Slot /\ NPROC \in Nat
  BY ProcAssumption DEF nobody, Slot, initproc

\* Every step keeps StackInv.
LEMMA StackStep == StackInv /\ [Next]_vars => StackInv'
<1> SUFFICES ASSUME StackInv, [Next]_vars PROVE StackInv'
  BY Zenon
<1>1. ASSUME NEW c \in CPU, NEW p \in Slot, scheduler(c, p) PROVE StackInv'
  BY <1>1, Null DEF StackInv, ProcType, Apart, Switched, Embryo, scheduler
<1>2. ASSUME NEW c \in CPU, sched(c) PROVE StackInv'
  BY <1>2 DEF StackInv, ProcType, Apart, Switched, Embryo, sched
<1>3. ASSUME NEW p \in Slot, resume(p) PROVE StackInv'
  BY <1>3 DEF StackInv, ProcType, Apart, Switched, Embryo, resume, Goto
<1>4. ASSUME NEW p \in Slot, yield(p) PROVE StackInv'
  BY <1>4, Null, CpuOf DEF StackInv, ProcType, Apart, Switched, Embryo, yield
<1>5. ASSUME NEW p \in Slot, NEW q \in Slot, fork(p, q) PROVE StackInv'
  BY <1>5, Null, SMTT(30) DEF StackInv, ProcType, Apart, Switched, Embryo, fork, At, Slot
<1>6. ASSUME NEW p \in Slot, fork_parent(p) PROVE StackInv'
  BY <1>6 DEF StackInv, ProcType, Apart, Switched, Embryo, fork_parent, At, Goto
<1>7. ASSUME NEW p \in Slot, fork_run(p) PROVE StackInv'
  BY <1>7, Null DEF StackInv, ProcType, Apart, Switched, Embryo, fork_run, At, Goto
<1>8. ASSUME NEW p \in Slot, NEW q \in Slot, kill(p, q) PROVE StackInv'
  BY <1>8 DEF StackInv, ProcType, Apart, Switched, Embryo, kill
<1>9. ASSUME NEW p \in Slot, exit(p) PROVE StackInv'
  BY <1>9 DEF StackInv, ProcType, Apart, Switched, Embryo, exit, Goto
<1>10. ASSUME NEW p \in Slot, reparent(p) PROVE StackInv'
  BY <1>10, Null
  DEF StackInv, ProcType, Apart, Switched, Embryo, reparent, Goto, initproc
<1>11. ASSUME NEW p \in Slot, wake_init(p) PROVE StackInv'
  <2>1. PICK k \in 1..NPROC : idx' = [idx EXCEPT ![p] = k]
    BY <1>11, ProcAssumption DEF StackInv, ProcType, wake_init
  <2>2. \A q \in Slot : pc'[q] \in {"wake_init", "wake_parent"} => idx'[q] \in Slot
    BY <1>11, <2>1, Zenon DEF StackInv, ProcType, wake_init, Goto, Slot
  <2>3. idx' \in [Slot -> 1..(NPROC + 1)]
    BY <2>1, Null DEF StackInv, ProcType
  <2>4. ProcType'
    BY <1>11, <2>2, <2>3, Zenon DEF StackInv, ProcType, wake_init, wakeup, Goto
  <2> QED
    BY <1>11, <2>4
    DEF StackInv, ProcType, Apart, Switched, Embryo, wake_init, wakeup, At, Goto
<1>12. ASSUME NEW p \in Slot, wake_parent(p) PROVE StackInv'
  <2>1. PICK k \in 1..NPROC : idx' = [idx EXCEPT ![p] = k]
    BY <1>12, ProcAssumption DEF StackInv, ProcType, wake_parent
  <2>2. \A q \in Slot : pc'[q] \in {"wake_init", "wake_parent"} => idx'[q] \in Slot
    BY <1>12, <2>1, Zenon DEF StackInv, ProcType, wake_parent, Goto, Slot
  <2>3. idx' \in [Slot -> 1..(NPROC + 1)]
    BY <2>1, Null DEF StackInv, ProcType
  <2>4. ProcType'
    BY <1>12, <2>2, <2>3, Zenon DEF StackInv, ProcType, wake_parent, wakeup, Goto
  <2> QED
    BY <1>12, <2>4
    DEF StackInv, ProcType, Apart, Switched, Embryo, wake_parent, wakeup, At, Goto
<1>13. ASSUME NEW p \in Slot, zombie(p) PROVE StackInv'
  BY <1>13, Null, CpuOf DEF StackInv, ProcType, Apart, Switched, Embryo, zombie
<1>14. ASSUME NEW p \in Slot, wait(p) PROVE StackInv'
  BY <1>14 DEF StackInv, ProcType, Apart, Switched, Embryo, wait, Goto
<1>15. ASSUME NEW p \in Slot, wait_acquire(p) PROVE StackInv'
  BY <1>15, Null DEF StackInv, ProcType, Apart, Switched, Embryo, wait_acquire, Goto
<1>16. ASSUME NEW p \in Slot, scan_next(p) PROVE StackInv'
  BY <1>16, Null DEF StackInv, ProcType, Apart, Switched, Embryo, scan_next, At
<1>17. ASSUME NEW p \in Slot, scan_reap(p) PROVE StackInv'
  <2>1. ProcType'
    BY <1>17, Null DEF StackInv, ProcType, scan_reap, Goto
  <2>2. Apart' /\ Switched'
    BY <1>17, Null DEF StackInv, ProcType, Apart, Switched, scan_reap, Goto
  <2>3. Embryo'
    BY <1>17 DEF StackInv, ProcType, Embryo, scan_reap, Goto
  <2> QED
    BY <2>1, <2>2, <2>3, Zenon DEF StackInv
<1>18. ASSUME NEW p \in Slot, scan_done(p) PROVE StackInv'
  BY <1>18 DEF StackInv, ProcType, Apart, Switched, Embryo, scan_done, Goto
<1>19. ASSUME NEW p \in Slot, sleep_lock(p) PROVE StackInv'
  BY <1>19, CpuOf DEF StackInv, ProcType, Apart, Switched, Embryo, sleep_lock, Goto
<1>20. ASSUME NEW p \in Slot, sleep(p) PROVE StackInv'
  BY <1>20, Null DEF StackInv, ProcType, Apart, Switched, Embryo, sleep, At
<1>21. CASE UNCHANGED vars
  BY <1>21, ZenonT(30) DEF vars, StackInv, ProcType, Apart, Switched, Embryo
<1> QED
  BY <1>1, <1>2, <1>3, <1>4, <1>5, <1>6, <1>7, <1>8, <1>9, <1>10, <1>11, <1>12, <1>13,
     <1>14, <1>15, <1>16, <1>17, <1>18, <1>19, <1>20, <1>21, Zenon
  DEF Next, syscall, kernel

\* wait_lock is held by the process that the code says.
LEMMA HolderStep == StackInv /\ OneHolder /\ [Next]_vars => OneHolder'
<1> SUFFICES ASSUME StackInv /\ OneHolder, [Next]_vars PROVE OneHolder'
  BY Zenon
<1>1. ASSUME NEW c \in CPU, NEW p \in Slot, scheduler(c, p) PROVE OneHolder'
  BY <1>1, Null DEF StackInv, Switched, OneHolder, Holds, scheduler
<1>2. ASSUME NEW c \in CPU, sched(c) PROVE OneHolder'
  BY <1>2, Zenon DEF OneHolder, Holds, sched
<1>3. ASSUME NEW p \in Slot, resume(p) PROVE OneHolder'
  BY <1>3 DEF StackInv, ProcType, OneHolder, Holds, resume, Goto
<1>4. ASSUME NEW p \in Slot, yield(p) PROVE OneHolder'
  BY <1>4 DEF OneHolder, Holds, yield, At
<1>5. ASSUME NEW p \in Slot, NEW q \in Slot, fork(p, q) PROVE OneHolder'
  BY <1>5 DEF StackInv, ProcType, OneHolder, Holds, fork
<1>6. ASSUME NEW p \in Slot, fork_parent(p) PROVE OneHolder'
  BY <1>6 DEF OneHolder, Holds, fork_parent, Goto
<1>7. ASSUME NEW p \in Slot, fork_run(p) PROVE OneHolder'
  BY <1>7 DEF StackInv, Embryo, OneHolder, Holds, fork_run, At, Goto
<1>8. ASSUME NEW p \in Slot, NEW q \in Slot, kill(p, q) PROVE OneHolder'
  BY <1>8 DEF OneHolder, Holds, kill
<1>9. ASSUME NEW p \in Slot, exit(p) PROVE OneHolder'
  BY <1>9 DEF OneHolder, Holds, exit, Goto
<1>10. ASSUME NEW p \in Slot, reparent(p) PROVE OneHolder'
  BY <1>10, Null, CpuOf DEF OneHolder, Holds, reparent, At, Goto
<1>11. ASSUME NEW p \in Slot, wake_init(p) PROVE OneHolder'
  BY <1>11 DEF StackInv, ProcType, OneHolder, Holds, wake_init, wakeup, At, Goto
<1>12. ASSUME NEW p \in Slot, wake_parent(p) PROVE OneHolder'
  BY <1>12 DEF StackInv, ProcType, OneHolder, Holds, wake_parent, wakeup, At, Goto
<1>13. ASSUME NEW p \in Slot, zombie(p) PROVE OneHolder'
  BY <1>13, Null DEF StackInv, ProcType, Switched, OneHolder, Holds, zombie, At
<1>14. ASSUME NEW p \in Slot, wait(p) PROVE OneHolder'
  BY <1>14 DEF OneHolder, Holds, wait, Goto
<1>15. ASSUME NEW p \in Slot, wait_acquire(p) PROVE OneHolder'
  BY <1>15, Null, CpuOf DEF OneHolder, Holds, wait_acquire, At, Goto
<1>16. ASSUME NEW p \in Slot, scan_next(p) PROVE OneHolder'
  BY <1>16, Zenon DEF OneHolder, Holds, scan_next
<1>17. ASSUME NEW p \in Slot, scan_reap(p) PROVE OneHolder'
  BY <1>17 DEF StackInv, ProcType, OneHolder, Holds, scan_reap, At, Goto
<1>18. ASSUME NEW p \in Slot, scan_done(p) PROVE OneHolder'
  BY <1>18 DEF StackInv, ProcType, OneHolder, Holds, scan_done, At, Goto
<1>19. ASSUME NEW p \in Slot, sleep_lock(p) PROVE OneHolder'
  BY <1>19 DEF StackInv, ProcType, OneHolder, Holds, sleep_lock, At, Goto
<1>20. ASSUME NEW p \in Slot, sleep(p) PROVE OneHolder'
  BY <1>20 DEF OneHolder, Holds, sleep, At
<1>21. CASE UNCHANGED vars
  BY <1>21, Zenon DEF vars, OneHolder, Holds
<1> QED
  BY <1>1, <1>2, <1>3, <1>4, <1>5, <1>6, <1>7, <1>8, <1>9, <1>10, <1>11, <1>12, <1>13,
     <1>14, <1>15, <1>16, <1>17, <1>18, <1>19, <1>20, <1>21, Zenon
  DEF Next, syscall, kernel

\* Every step keeps the tree of processes.
LEMMA FamilyStep == FamilyInv /\ [Next]_vars => Family'
<1> SUFFICES ASSUME FamilyInv, [Next]_vars PROVE Family'
  BY Zenon
<1>1. ASSUME NEW c \in CPU, NEW p \in Slot, scheduler(c, p) PROVE Family'
  BY <1>1 DEF FamilyInv, Family, Alive, scheduler
<1>2. ASSUME NEW c \in CPU, sched(c) PROVE Family'
  BY <1>2, Zenon DEF FamilyInv, Family, Alive, sched
<1>3. ASSUME NEW p \in Slot, resume(p) PROVE Family'
  BY <1>3, Null DEF FamilyInv, StackInv, ProcType, Family, Alive, resume, Goto
<1>4. ASSUME NEW p \in Slot, yield(p) PROVE Family'
  BY <1>4, Null DEF FamilyInv, StackInv, Switched, Family, Alive, yield, At
<1>5. ASSUME NEW p \in Slot, NEW q \in Slot, fork(p, q) PROVE Family'
  BY <1>5, Null DEF FamilyInv, StackInv, ProcType, Family, Alive, fork, At
<1>6. ASSUME NEW p \in Slot, fork_parent(p) PROVE Family'
  BY <1>6, Null
  DEF FamilyInv, StackInv, ProcType, Switched, Embryo, Family, Alive, fork_parent, At,
      Goto
<1>7. ASSUME NEW p \in Slot, fork_run(p) PROVE Family'
  BY <1>7 DEF FamilyInv, StackInv, ProcType, Family, Alive, fork_run, At, Goto
<1>8. ASSUME NEW p \in Slot, NEW q \in Slot, kill(p, q) PROVE Family'
  BY <1>8 DEF FamilyInv, Family, Alive, kill
<1>9. ASSUME NEW p \in Slot, exit(p) PROVE Family'
  BY <1>9 DEF FamilyInv, Family, Alive, exit, At, Goto
<1>10. ASSUME NEW p \in Slot, reparent(p) PROVE Family'
  BY <1>10, Null DEF FamilyInv, StackInv, Embryo, Family, Alive, reparent, At, Goto
<1>11. ASSUME NEW p \in Slot, wake_init(p) PROVE Family'
  BY <1>11, Null
  DEF FamilyInv, StackInv, ProcType, Family, Alive, wake_init, wakeup, At, Goto
<1>12. ASSUME NEW p \in Slot, wake_parent(p) PROVE Family'
  BY <1>12, Null
  DEF FamilyInv, StackInv, ProcType, Family, Alive, wake_parent, wakeup, At, Goto
<1>13. ASSUME NEW p \in Slot, zombie(p) PROVE Family'
  BY <1>13 DEF FamilyInv, StackInv, Switched, Family, Alive, zombie, At
<1>14. ASSUME NEW p \in Slot, wait(p) PROVE Family'
  BY <1>14 DEF FamilyInv, Family, Alive, wait, At, Goto
<1>15. ASSUME NEW p \in Slot, wait_acquire(p) PROVE Family'
  BY <1>15 DEF FamilyInv, Family, Alive, wait_acquire, At, Goto
<1>16. ASSUME NEW p \in Slot, scan_next(p) PROVE Family'
  BY <1>16 DEF FamilyInv, Family, Alive, scan_next, At
<1>17. ASSUME NEW p \in Slot, scan_reap(p) PROVE Family'
  <2> DEFINE q == idx[p]
  <2>1. q \in Slot /\ state[q] = "ZOMBIE" /\ pc[q] = "zombie" /\ q # p /\ q # initproc
    BY <1>17 DEF FamilyInv, StackInv, ProcType, Family, scan_reap, Slot
  <2>2. \A r \in Slot : parent[r] # q
    BY <2>1, Zenon DEF FamilyInv, Family
  <2>3. CASE UNCHANGED <<state, parent>>
    BY <1>17, <2>3, Null
    DEF FamilyInv, StackInv, ProcType, Family, Alive, scan_reap, At, Goto
  <2>4. CASE /\ state' = [state EXCEPT ![q] = "UNUSED"]
             /\ parent' = [parent EXCEPT ![q] = nobody]
             /\ pc' = [pc EXCEPT ![p] = "user", ![q] = "user"]
    BY <1>17, <2>1, <2>4, Null
    DEF FamilyInv, StackInv, ProcType, Embryo, Family, Alive, scan_reap
  <2> QED
    BY <1>17, <2>3, <2>4, Zenon DEF scan_reap
<1>18. ASSUME NEW p \in Slot, scan_done(p) PROVE Family'
  BY <1>18, Null DEF FamilyInv, StackInv, ProcType, Family, Alive, scan_done, At, Goto
<1>19. ASSUME NEW p \in Slot, sleep_lock(p) PROVE Family'
  BY <1>19 DEF FamilyInv, Family, Alive, sleep_lock, At, Goto
<1>20. ASSUME NEW p \in Slot, sleep(p) PROVE Family'
  BY <1>20, Null DEF FamilyInv, StackInv, Switched, Family, Alive, sleep, At
<1>21. CASE UNCHANGED vars
  BY <1>21, Zenon DEF vars, FamilyInv, Family, Alive
<1> QED
  BY <1>1, <1>2, <1>3, <1>4, <1>5, <1>6, <1>7, <1>8, <1>9, <1>10, <1>11, <1>12, <1>13,
     <1>14, <1>15, <1>16, <1>17, <1>18, <1>19, <1>20, <1>21, Zenon
  DEF Next, syscall, kernel

\* Only wait() sleeps, on the process itself.
LEMMA SleepStep == WaitInv /\ [Next]_vars => SleepsOnItself'
<1> SUFFICES ASSUME WaitInv, [Next]_vars PROVE SleepsOnItself'
  OBVIOUS
<1>1. ASSUME NEW c \in CPU, NEW p \in Slot, scheduler(c, p) PROVE SleepsOnItself'
  BY <1>1 DEF WaitInv, SleepsOnItself, scheduler
<1>2. ASSUME NEW c \in CPU, sched(c) PROVE SleepsOnItself'
  BY <1>2, Zenon DEF WaitInv, SleepsOnItself, sched
<1>3. ASSUME NEW p \in Slot, resume(p) PROVE SleepsOnItself'
  BY <1>3, Null
  DEF WaitInv, FamilyInv, StackInv, ProcType, Switched, SleepsOnItself, resume, Goto
<1>4. ASSUME NEW p \in Slot, yield(p) PROVE SleepsOnItself'
  BY <1>4 DEF WaitInv, SleepsOnItself, yield
<1>5. ASSUME NEW p \in Slot, NEW q \in Slot, fork(p, q) PROVE SleepsOnItself'
  BY <1>5, Zenon DEF WaitInv, FamilyInv, StackInv, ProcType, SleepsOnItself, fork, At
<1>6. ASSUME NEW p \in Slot, fork_parent(p) PROVE SleepsOnItself'
  BY <1>6 DEF WaitInv, SleepsOnItself, fork_parent, At, Goto
<1>7. ASSUME NEW p \in Slot, fork_run(p) PROVE SleepsOnItself'
  BY <1>7 DEF WaitInv, SleepsOnItself, fork_run, At, Goto
<1>8. ASSUME NEW p \in Slot, NEW q \in Slot, kill(p, q) PROVE SleepsOnItself'
  BY <1>8 DEF WaitInv, SleepsOnItself, kill
<1>9. ASSUME NEW p \in Slot, exit(p) PROVE SleepsOnItself'
  BY <1>9 DEF WaitInv, SleepsOnItself, exit, At, Goto
<1>10. ASSUME NEW p \in Slot, reparent(p) PROVE SleepsOnItself'
  BY <1>10 DEF WaitInv, SleepsOnItself, reparent, At, Goto
<1>11. ASSUME NEW p \in Slot, wake_init(p) PROVE SleepsOnItself'
  BY <1>11
  DEF WaitInv, FamilyInv, StackInv, ProcType, SleepsOnItself, wake_init, wakeup, At,
      Goto
<1>12. ASSUME NEW p \in Slot, wake_parent(p) PROVE SleepsOnItself'
  BY <1>12
  DEF WaitInv, FamilyInv, StackInv, ProcType, SleepsOnItself, wake_parent, wakeup, At,
      Goto
<1>13. ASSUME NEW p \in Slot, zombie(p) PROVE SleepsOnItself'
  BY <1>13 DEF WaitInv, SleepsOnItself, zombie
<1>14. ASSUME NEW p \in Slot, wait(p) PROVE SleepsOnItself'
  BY <1>14 DEF WaitInv, SleepsOnItself, wait, At, Goto
<1>15. ASSUME NEW p \in Slot, wait_acquire(p) PROVE SleepsOnItself'
  BY <1>15 DEF WaitInv, SleepsOnItself, wait_acquire, At, Goto
<1>16. ASSUME NEW p \in Slot, scan_next(p) PROVE SleepsOnItself'
  BY <1>16, Zenon DEF WaitInv, SleepsOnItself, scan_next
<1>17. ASSUME NEW p \in Slot, scan_reap(p) PROVE SleepsOnItself'
  BY <1>17
  DEF WaitInv, FamilyInv, StackInv, ProcType, SleepsOnItself, scan_reap, At, Goto
<1>18. ASSUME NEW p \in Slot, scan_done(p) PROVE SleepsOnItself'
  BY <1>18
  DEF WaitInv, FamilyInv, StackInv, ProcType, SleepsOnItself, scan_done, At, Goto
<1>19. ASSUME NEW p \in Slot, sleep_lock(p) PROVE SleepsOnItself'
  BY <1>19 DEF WaitInv, SleepsOnItself, sleep_lock, Goto
<1>20. ASSUME NEW p \in Slot, sleep(p) PROVE SleepsOnItself'
  BY <1>20, Zenon DEF WaitInv, FamilyInv, StackInv, ProcType, SleepsOnItself, sleep, At
<1>21. CASE UNCHANGED vars
  BY <1>21, Zenon DEF vars, WaitInv, SleepsOnItself
<1> QED
  BY <1>1, <1>2, <1>3, <1>4, <1>5, <1>6, <1>7, <1>8, <1>9, <1>10, <1>11, <1>12, <1>13,
     <1>14, <1>15, <1>16, <1>17, <1>18, <1>19, <1>20, <1>21
  DEF Next, syscall, kernel

\* A scan that goes on has seen no zombie child, and none appears behind it while
\* it holds wait_lock.
LEMMA LookedStep == WaitInv /\ [Next]_vars => Looked'
<1> SUFFICES ASSUME WaitInv, [Next]_vars PROVE Looked'
  OBVIOUS
<1>1. ASSUME NEW c \in CPU, NEW p \in Slot, scheduler(c, p) PROVE Looked'
  BY <1>1 DEF WaitInv, Looked, Unreaped, scheduler
<1>2. ASSUME NEW c \in CPU, sched(c) PROVE Looked'
  BY <1>2, Zenon DEF WaitInv, Looked, Unreaped, sched
<1>3. ASSUME NEW p \in Slot, resume(p) PROVE Looked'
  BY <1>3, Zenon
     DEF WaitInv, FamilyInv, StackInv, ProcType, Looked, Unreaped, resume, Goto
<1>4. ASSUME NEW p \in Slot, yield(p) PROVE Looked'
  BY <1>4 DEF WaitInv, Looked, Unreaped, yield
<1>5. ASSUME NEW p \in Slot, NEW q \in Slot, fork(p, q) PROVE Looked'
  BY <1>5, Zenon DEF WaitInv, FamilyInv, StackInv, ProcType, Looked, Unreaped, fork
<1>6. ASSUME NEW p \in Slot, fork_parent(p) PROVE Looked'
  BY <1>6 DEF WaitInv, Looked, Unreaped, fork_parent, At, Goto
<1>7. ASSUME NEW p \in Slot, fork_run(p) PROVE Looked'
  BY <1>7 DEF WaitInv, Looked, Unreaped, fork_run, At, Goto
<1>8. ASSUME NEW p \in Slot, NEW q \in Slot, kill(p, q) PROVE Looked'
  BY <1>8 DEF WaitInv, Looked, Unreaped, kill
<1>9. ASSUME NEW p \in Slot, exit(p) PROVE Looked'
  BY <1>9 DEF WaitInv, Looked, Unreaped, exit, Goto
<1>10. ASSUME NEW p \in Slot, reparent(p) PROVE Looked'
  BY <1>10 DEF WaitInv, FamilyInv, OneHolder, Holds, Looked, reparent, Goto
<1>11. ASSUME NEW p \in Slot, wake_init(p) PROVE Looked'
  BY <1>11
  DEF WaitInv, FamilyInv, StackInv, ProcType, Looked, Unreaped, wake_init, wakeup, At,
      Goto
<1>12. ASSUME NEW p \in Slot, wake_parent(p) PROVE Looked'
  BY <1>12
  DEF WaitInv, FamilyInv, StackInv, ProcType, Looked, Unreaped, wake_parent, wakeup, At,
      Goto
<1>13. ASSUME NEW p \in Slot, zombie(p) PROVE Looked'
  BY <1>13 DEF WaitInv, FamilyInv, OneHolder, Holds, Looked, Unreaped, zombie, At
<1>14. ASSUME NEW p \in Slot, wait(p) PROVE Looked'
  BY <1>14 DEF WaitInv, Looked, Unreaped, wait, Goto
<1>15. ASSUME NEW p \in Slot, wait_acquire(p) PROVE Looked'
  <2>1. \A q \in Slot : ~(q < 1)
    BY DEF Slot
  <2> QED
    BY <1>15, <2>1, Zenon
    DEF WaitInv, FamilyInv, StackInv, ProcType, Looked, Unreaped, wait_acquire, Goto
<1>16. ASSUME NEW p \in Slot, scan_next(p) PROVE Looked'
  <2>1. idx[p] \in Slot /\ idx' = [idx EXCEPT ![p] = idx[p] + 1]
    BY <1>16 DEF WaitInv, FamilyInv, StackInv, ProcType, scan_next, Slot
  <2>2. \A q \in Slot : q < idx[p] + 1 => q < idx[p] \/ q = idx[p]
    BY <2>1 DEF Slot
  <2>3. \A q \in Slot : q < idx[p] + 1 => ~Unreaped(p, q)
    BY <1>16, <2>2, Zenon DEF WaitInv, Looked, Unreaped, scan_next, At
  <2> QED
    BY <1>16, <2>3 DEF WaitInv, Looked, Unreaped, scan_next
<1>17. ASSUME NEW p \in Slot, scan_reap(p) PROVE Looked'
  BY <1>17 DEF WaitInv, FamilyInv, StackInv, ProcType, Looked, Unreaped, scan_reap, Goto
<1>18. ASSUME NEW p \in Slot, scan_done(p) PROVE Looked'
  <2>1. \A q \in Slot : q < idx[p]
    BY <1>18, Null DEF scan_done, Slot
  <2>2. \A q \in Slot : ~Unreaped(p, q)
    BY <1>18, <2>1, Zenon DEF WaitInv, Looked, scan_done, At
  <2> QED
    BY <1>18, <2>2
    DEF WaitInv, FamilyInv, StackInv, ProcType, Looked, Unreaped, scan_done, Goto
<1>19. ASSUME NEW p \in Slot, sleep_lock(p) PROVE Looked'
  BY <1>19 DEF WaitInv, Looked, Unreaped, sleep_lock, Goto
<1>20. ASSUME NEW p \in Slot, sleep(p) PROVE Looked'
  BY <1>20 DEF WaitInv, Looked, Unreaped, sleep
<1>21. CASE UNCHANGED vars
  BY <1>21, Zenon DEF vars, WaitInv, Looked, Unreaped
<1> QED
  BY <1>1, <1>2, <1>3, <1>4, <1>5, <1>6, <1>7, <1>8, <1>9, <1>10, <1>11, <1>12, <1>13,
     <1>14, <1>15, <1>16, <1>17, <1>18, <1>19, <1>20, <1>21
  DEF Next, syscall, kernel

\* wakeup() reaches the parent, which cannot go to sleep while wait_lock is held
\* and cannot be missed while it holds its own lock.
LEMMA ToldStep == WaitInv /\ [Next]_vars => Told'
<1> SUFFICES ASSUME WaitInv, [Next]_vars PROVE Told'
  OBVIOUS
<1>1. ASSUME NEW c \in CPU, NEW p \in Slot, scheduler(c, p) PROVE Told'
  BY <1>1 DEF WaitInv, Told, Dozing, scheduler
<1>2. ASSUME NEW c \in CPU, sched(c) PROVE Told'
  BY <1>2, Zenon DEF WaitInv, Told, Dozing, sched
<1>3. ASSUME NEW p \in Slot, resume(p) PROVE Told'
  BY <1>3
  DEF WaitInv, FamilyInv, StackInv, ProcType, Switched, OneHolder, Family, Holds, Told,
      Dozing, resume, Goto
<1>4. ASSUME NEW p \in Slot, yield(p) PROVE Told'
  BY <1>4 DEF WaitInv, Told, Dozing, yield, At
<1>5. ASSUME NEW p \in Slot, NEW q \in Slot, fork(p, q) PROVE Told'
  BY <1>5
  DEF WaitInv, FamilyInv, StackInv, ProcType, Switched, OneHolder, Family, Holds, Told,
      Dozing, fork
<1>6. ASSUME NEW p \in Slot, fork_parent(p) PROVE Told'
  BY <1>6 DEF WaitInv, Told, Dozing, fork_parent, At, Goto
<1>7. ASSUME NEW p \in Slot, fork_run(p) PROVE Told'
  BY <1>7 DEF WaitInv, FamilyInv, StackInv, Embryo, Told, Dozing, fork_run, At, Goto
<1>8. ASSUME NEW p \in Slot, NEW q \in Slot, kill(p, q) PROVE Told'
  BY <1>8 DEF WaitInv, Told, Dozing, kill
<1>9. ASSUME NEW p \in Slot, exit(p) PROVE Told'
  BY <1>9 DEF WaitInv, Told, Dozing, exit, Goto
<1>10. ASSUME NEW p \in Slot, reparent(p) PROVE Told'
  <2>1. Holds(p)' /\ \A r \in Slot : r # p => ~Holds(r)'
    <3>1. OneHolder'
      BY HolderStep, Zenon DEF WaitInv, FamilyInv
    <3>2. Holds(p)'
      BY <1>10, Zenon DEF WaitInv, FamilyInv, StackInv, ProcType, reparent, Goto, Holds
    <3> QED
      BY <3>1, <3>2, Zenon DEF OneHolder
  <2>2. parent'[p] \in Slot /\ idx'[p] = 1
    BY <1>10, Null
    DEF WaitInv, FamilyInv, StackInv, ProcType, Switched, Family, reparent, At
  <2>3. parent'[p] >= idx'[p]
    BY <2>2 DEF Slot
  <2>4. pc'[p] \in {"wake_init", "wake_parent"}
    BY <1>10, Zenon DEF WaitInv, FamilyInv, StackInv, ProcType, reparent, Goto
  <2> QED
    BY <2>1, <2>3, <2>4, Zenon DEF Told, Holds
<1>11. ASSUME NEW p \in Slot, wake_init(p) PROVE Told'
  <2>1. \A r \in Slot : r # p => ~Holds(r) /\ ~Holds(r)'
    <3>1. OneHolder' /\ OneHolder
      BY HolderStep, Zenon DEF WaitInv, FamilyInv
    <3>2. Holds(p) /\ Holds(p)'
      BY <1>11, Zenon
         DEF WaitInv, FamilyInv, StackInv, ProcType, wake_init, At, Goto, Holds
    <3> QED
      BY <3>1, <3>2, Zenon DEF OneHolder
  <2>2. CASE pc' = pc
    BY <1>11, <2>1, <2>2, Zenon DEF Told, Holds, wake_init, At
  <2>3. CASE idx' = [idx EXCEPT ![p] = 1] /\ pc' = [pc EXCEPT ![p] = "wake_parent"]
    <3>1. parent'[p] \in Slot /\ idx'[p] = 1
      BY <1>11, <2>3
      DEF WaitInv, FamilyInv, StackInv, ProcType, Switched, Family, wake_init, At
    <3>2. parent'[p] >= idx'[p]
      BY <3>1 DEF Slot
    <3>3. pc'[p] = "wake_parent"
      BY <2>3, Zenon DEF WaitInv, FamilyInv, StackInv, ProcType
    <3> QED
      BY <2>1, <3>2, <3>3, Zenon DEF Told, Holds
  <2> QED
    BY <1>11, <2>2, <2>3, Zenon DEF wake_init, Goto
<1>12. ASSUME NEW p \in Slot, wake_parent(p) PROVE Told'
  <2>1. \A r \in Slot : r # p => ~Holds(r) /\ ~Holds(r)'
    <3>1. OneHolder' /\ OneHolder
      BY HolderStep DEF WaitInv, FamilyInv
    <3>2. Holds(p)
      BY <1>12, Zenon DEF wake_parent, At, Holds
    <3>3. Holds(p)'
      <4>1. state[p] = "RUNNING" /\ state'[p] = state[p]
        BY <1>12, Null
        DEF WaitInv, FamilyInv, StackInv, ProcType, Switched, wake_parent, wakeup, At
      <4> QED
        BY <1>12, <4>1, Zenon
        DEF WaitInv, FamilyInv, StackInv, ProcType, wake_parent, At, Goto, Holds
    <3> QED
      BY <3>1, <3>2, <3>3, Zenon DEF OneHolder
  <2> DEFINE pp == parent[p]
  <2>2. pp \in Slot /\ idx[p] \in Slot /\ parent' = parent /\ sw' = sw
    BY <1>12
    DEF WaitInv, FamilyInv, StackInv, ProcType, Switched, Family, wake_parent, At
  <2>3. Dozing(pp)' => Dozing(pp) /\ pp # idx[p]
    <3>1. pp # p
      BY <1>12, Zenon DEF WaitInv, FamilyInv, Family, wake_parent, At
    <3>2. pc'[pp] = pc[pp]
      BY <1>12, <2>2, <3>1, Zenon
         DEF WaitInv, FamilyInv, StackInv, ProcType, wake_parent, Goto
    <3>3. state'[pp] = "SLEEPING" => state[pp] = "SLEEPING"
      BY <1>12, <2>2, Zenon
         DEF WaitInv, FamilyInv, StackInv, ProcType, wake_parent, wakeup
    <3>4. ASSUME pp = idx[p], Dozing(pp) PROVE ~Dozing(pp)'
      <4>1. lock[pp] = nobody
        BY <1>12, <3>1, <3>4, Zenon DEF wake_parent, wakeup
      <4>2. sw[pp] # "run" /\ state[pp] = "SLEEPING" /\ chan[pp] = pp
        BY <2>2, <3>4, <4>1, Null
        DEF Dozing, WaitInv, FamilyInv, StackInv, Switched, SleepsOnItself
      <4>3. state'[pp] = "RUNNABLE"
        BY <1>12, <2>2, <3>1, <3>4, <4>2, Zenon
        DEF wake_parent, wakeup, WaitInv, FamilyInv, StackInv, ProcType
      <4> QED
        BY <2>2, <4>2, <4>3, Zenon DEF Dozing
    <3> QED
      BY <2>2, <3>2, <3>3, <3>4, Zenon DEF Dozing
  <2>4. Dozing(pp)' => pp > idx[p]
    BY <1>12, <2>2, <2>3 DEF WaitInv, Told, wake_parent, At, Slot
  <2>5. CASE idx[p] < NPROC
    <3>1. idx'[p] = idx[p] + 1 /\ pc'[p] = "wake_parent"
      BY <1>12, <2>5, Zenon DEF WaitInv, FamilyInv, StackInv, ProcType, wake_parent, At
    <3>2. Dozing(pp)' => pp >= idx'[p]
      BY <2>2, <2>4, <3>1 DEF Slot
    <3> QED
      BY <2>1, <2>2, <3>1, <3>2, Zenon DEF Told, Holds
  <2>6. CASE ~(idx[p] < NPROC)
    <3>1. ~Dozing(pp)'
      BY <2>2, <2>4, <2>6, Null DEF Slot
    <3>2. pc'[p] = "zombie"
      BY <1>12, <2>6, Zenon DEF WaitInv, FamilyInv, StackInv, ProcType, wake_parent, Goto
    <3> QED
      BY <2>1, <3>1, Zenon DEF Told, Holds
  <2> QED
    BY <2>5, <2>6, Zenon
<1>13. ASSUME NEW p \in Slot, zombie(p) PROVE Told'
  BY <1>13 DEF WaitInv, Told, Dozing, zombie
<1>14. ASSUME NEW p \in Slot, wait(p) PROVE Told'
  BY <1>14 DEF WaitInv, Told, Dozing, wait, Goto
<1>15. ASSUME NEW p \in Slot, wait_acquire(p) PROVE Told'
  BY <1>15 DEF WaitInv, Told, Dozing, wait_acquire, At, Goto
<1>16. ASSUME NEW p \in Slot, scan_next(p) PROVE Told'
  BY <1>16 DEF WaitInv, Told, Dozing, scan_next, At
<1>17. ASSUME NEW p \in Slot, scan_reap(p) PROVE Told'
  BY <1>17
  DEF WaitInv, FamilyInv, StackInv, ProcType, OneHolder, Holds, Told, scan_reap, At,
      Goto
<1>18. ASSUME NEW p \in Slot, scan_done(p) PROVE Told'
  BY <1>18
  DEF WaitInv, FamilyInv, StackInv, ProcType, OneHolder, Holds, Told, scan_done, At,
      Goto
<1>19. ASSUME NEW p \in Slot, sleep_lock(p) PROVE Told'
  BY <1>19 DEF WaitInv, FamilyInv, OneHolder, Holds, Told, sleep_lock, At, Goto
<1>20. ASSUME NEW p \in Slot, sleep(p) PROVE Told'
  BY <1>20 DEF WaitInv, Told, Dozing, sleep, At
<1>21. CASE UNCHANGED vars
  BY <1>21, ZenonT(30) DEF vars, WaitInv, Told, Dozing
<1> QED
  BY <1>1, <1>2, <1>3, <1>4, <1>5, <1>6, <1>7, <1>8, <1>9, <1>10, <1>11, <1>12, <1>13,
     <1>14, <1>15, <1>16, <1>17, <1>18, <1>19, <1>20, <1>21
  DEF Next, syscall, kernel

\* No step leaves a sleeper with a zombie child that it was not told of.
LEMMA WatchedStep == WaitInv /\ [Next]_vars => Watched'
<1> SUFFICES ASSUME WaitInv, [Next]_vars PROVE Watched'
  OBVIOUS
<1>1. ASSUME NEW c \in CPU, NEW p \in Slot, scheduler(c, p) PROVE Watched'
  BY <1>1 DEF WaitInv, Watched, Dozing, Unreaped, scheduler
<1>2. ASSUME NEW c \in CPU, sched(c) PROVE Watched'
  BY <1>2, Zenon DEF WaitInv, Watched, Dozing, Unreaped, sched
<1>3. ASSUME NEW p \in Slot, resume(p) PROVE Watched'
  BY <1>3
  DEF WaitInv, FamilyInv, StackInv, ProcType, Watched, Dozing, Unreaped, resume, Goto
<1>4. ASSUME NEW p \in Slot, yield(p) PROVE Watched'
  BY <1>4 DEF WaitInv, Watched, Dozing, Unreaped, yield
<1>5. ASSUME NEW p \in Slot, NEW q \in Slot, fork(p, q) PROVE Watched'
  BY <1>5, Null
  DEF WaitInv, FamilyInv, StackInv, ProcType, Switched, OneHolder, Holds, Watched,
      Dozing, Unreaped, fork, At
<1>6. ASSUME NEW p \in Slot, fork_parent(p) PROVE Watched'
  BY <1>6 DEF WaitInv, Watched, Dozing, Unreaped, fork_parent, At, Goto
<1>7. ASSUME NEW p \in Slot, fork_run(p) PROVE Watched'
  BY <1>7 DEF WaitInv, Watched, Dozing, Unreaped, fork_run, At, Goto
<1>8. ASSUME NEW p \in Slot, NEW q \in Slot, kill(p, q) PROVE Watched'
  BY <1>8 DEF WaitInv, Watched, Dozing, Unreaped, kill
<1>9. ASSUME NEW p \in Slot, exit(p) PROVE Watched'
  BY <1>9 DEF WaitInv, Watched, Dozing, Unreaped, exit, At, Goto
<1>10. ASSUME NEW p \in Slot, reparent(p) PROVE Watched'
  <2>1. \A r \in Slot : pc[r] # "wake_init"
    BY <1>10, Zenon DEF WaitInv, FamilyInv, OneHolder, Holds, reparent
  <2>2. \A r, q \in Slot : Dozing(r) => ~Unreaped(r, q)
    BY <2>1, Zenon DEF WaitInv, Watched
  <2>3. \A r \in Slot : Dozing(r)' => Dozing(r)
    BY <1>10 DEF WaitInv, Dozing, reparent, Goto
  <2> SUFFICES ASSUME NEW r \in Slot, NEW q \in Slot, Dozing(r)', Unreaped(r, q)'
               PROVE  r = initproc /\ pc'[p] = "wake_init" /\ idx'[p] = initproc
    BY Zenon DEF Watched
  <2>4. parent[q] = p /\ r = initproc
    BY <1>10, <2>2, <2>3, Zenon DEF Unreaped, reparent
  <2> QED
    BY <1>10, <2>4, Zenon
       DEF WaitInv, FamilyInv, StackInv, ProcType, reparent, Goto, initproc
<1>11. ASSUME NEW p \in Slot, wake_init(p) PROVE Watched'
  BY <1>11, Null
  DEF WaitInv, FamilyInv, StackInv, ProcType, Switched, SleepsOnItself, Watched, Dozing,
      Unreaped, wake_init, wakeup, Goto
<1>12. ASSUME NEW p \in Slot, wake_parent(p) PROVE Watched'
  BY <1>12
  DEF WaitInv, FamilyInv, StackInv, ProcType, Watched, Dozing, Unreaped, wake_parent,
      wakeup, At, Goto
<1>13. ASSUME NEW p \in Slot, zombie(p) PROVE Watched'
  BY <1>13, SMTT(30) DEF WaitInv, Told, Watched, Dozing, Unreaped, zombie, At
<1>14. ASSUME NEW p \in Slot, wait(p) PROVE Watched'
  BY <1>14 DEF WaitInv, Watched, Dozing, Unreaped, wait, At, Goto
<1>15. ASSUME NEW p \in Slot, wait_acquire(p) PROVE Watched'
  BY <1>15 DEF WaitInv, Watched, Dozing, Unreaped, wait_acquire, At, Goto
<1>16. ASSUME NEW p \in Slot, scan_next(p) PROVE Watched'
  BY <1>16 DEF WaitInv, Watched, Dozing, Unreaped, scan_next, At
<1>17. ASSUME NEW p \in Slot, scan_reap(p) PROVE Watched'
  BY <1>17
  DEF WaitInv, FamilyInv, StackInv, ProcType, Family, Watched, Dozing, Unreaped,
      scan_reap, Goto
<1>18. ASSUME NEW p \in Slot, scan_done(p) PROVE Watched'
  BY <1>18
  DEF WaitInv, FamilyInv, StackInv, ProcType, Watched, Dozing, Unreaped, scan_done, At,
      Goto
<1>19. ASSUME NEW p \in Slot, sleep_lock(p) PROVE Watched'
  BY <1>19 DEF WaitInv, Looked, Watched, Dozing, Unreaped, sleep_lock, At, Goto
<1>20. ASSUME NEW p \in Slot, sleep(p) PROVE Watched'
  BY <1>20 DEF WaitInv, Watched, Dozing, Unreaped, sleep, At
<1>21. CASE UNCHANGED vars
  BY <1>21, Zenon DEF vars, WaitInv, Watched, Dozing, Unreaped
<1> QED
  BY <1>1, <1>2, <1>3, <1>4, <1>5, <1>6, <1>7, <1>8, <1>9, <1>10, <1>11, <1>12, <1>13,
     <1>14, <1>15, <1>16, <1>17, <1>18, <1>19, <1>20, <1>21
  DEF Next, syscall, kernel

-----------------------------------------------------------------------------
(***************************************************************************)
(* The theorems.                                                           *)
(***************************************************************************)
\* userinit() has made one process, and no lock is held.
LEMMA InitWait == Init => WaitInv
<1> SUFFICES ASSUME Init PROVE WaitInv
  BY Zenon
<1>1. ProcType
  BY ProcAssumption DEF Init, ProcType
<1>2. Apart /\ Switched /\ Embryo
  BY Zenon DEF Init, Apart, Switched, Embryo
<1>3. OneHolder /\ Family
  BY Null, Zenon DEF Init, OneHolder, Holds, Family, Alive
<1>4. SleepsOnItself /\ Looked /\ Told /\ Watched
  BY Zenon DEF Init, SleepsOnItself, Looked, Told, Watched, Dozing
<1> QED
  BY <1>1, <1>2, <1>3, <1>4, Zenon DEF WaitInv, FamilyInv, StackInv

\* The invariant holds in every reachable state.
THEOREM WaitInvariant == Spec => []WaitInv
<1>1. WaitInv /\ [Next]_vars => WaitInv'
  BY StackStep, HolderStep, FamilyStep, SleepStep, LookedStep, ToldStep, WatchedStep, Zenon
  DEF WaitInv, FamilyInv
<1> QED
  BY <1>1, InitWait, PTL DEF Spec

\* The kernel stack of a process is used by one CPU at a time, and wait() does
\* not free it while a CPU is still on it.
THEOREM StackIsOwned == Spec => []StackOwned
<1>1. WaitInv => StackOwned
  BY Zenon DEF WaitInv, FamilyInv, StackInv, Apart, Switched, StackOwned
<1> QED
  BY <1>1, WaitInvariant, PTL

\* No process sleeps in wait() with a zombie child while no exit() is under way,
\* and every process has a parent that is alive.
THEOREM NobodyIsAbandoned == Spec => []NobodyAbandoned
<1>1. WaitInv => NobodyAbandoned
  <2> SUFFICES ASSUME WaitInv PROVE NobodyAbandoned
    BY Zenon
  <2>1. ParentAlive
    BY Zenon DEF WaitInv, FamilyInv, Family, Alive, ParentAlive
  <2>2. NoLostWakeup
    BY Zenon DEF WaitInv, FamilyInv, OneHolder, Holds, SleepsOnItself, Watched, Dozing,
           Unreaped, NoLostWakeup
  <2> QED
    BY <2>1, <2>2, Zenon DEF NobodyAbandoned
<1> QED
  BY <1>1, WaitInvariant, PTL
(***************************************************************************)
(* Alarms, of programs whose handler does not set the alarm anew.          *)
(***************************************************************************)
CONSTANTS Val, Zero, MaxN, MaxDepth, HandlerRearms

VARIABLES ticksn, elapsed, sigalarm, trapframe, trapcopy, interrupted

A == INSTANCE Alarm

\* p->sigalarm is 0 while the handler runs, so there is one call of it at most
\* and p->trapcopy is what that call interrupted.
AlarmInv ==
    /\ A!TypeOK
    /\ Len(interrupted) = IF trapframe.epc = "handler" THEN 1 ELSE 0
    /\ trapframe.epc = "handler" =>
          sigalarm = 0 /\ trapcopy.epc = "main" /\ interrupted = <<trapcopy>>

\* The values of the constants, and the frames the registers make.
AlarmSizes == MaxN \in Nat \ {0} /\ MaxDepth \in Nat \ {0} /\ Zero \in Val

\* A sequence of length 0 is the empty one, and adding to it makes one of
\* length 1.
LEMMA Single ==
    ASSUME NEW f \in A!Frame, NEW s \in Seq(A!Frame), Len(s) = 0
    PROVE  <<f>> \o s = <<f>> /\ Len(<<f>>) = 1 /\ <<f>> \in Seq(A!Frame)
<1>1. s = <<>>
  BY EmptySeq, Zenon
<1>2. <<f>> \in Seq(A!Frame) /\ Len(<<f>>) = 1
  OBVIOUS
<1>3. <<f>> \o <<>> = <<f>>
  BY <1>2, ConcatEmptySeq, Zenon
<1> QED
  BY <1>1, <1>2, <1>3, Zenon

\* allocproc() has cleared the alarm, and no handler runs.
LEMMA InitAlarm ==
    ASSUME AlarmSizes, A!Init
    PROVE  AlarmInv
<1>1. trapframe \in A!Frame /\ trapframe.epc = "main" /\ trapcopy \in A!Frame
  BY Zenon DEF A!Init, A!Frame
<1>2. interrupted \in Seq(A!Frame) /\ Len(interrupted) = 0
  BY DEF A!Init
<1> QED
  BY <1>1, <1>2 DEF AlarmSizes, A!Init, AlarmInv, A!TypeOK

\* Each step keeps it: only usertrap() calls the handler, with sigalarm = 1,
\* and only sigreturn() leaves it.
LEMMA StepAlarm ==
    ASSUME AlarmSizes, HandlerRearms = FALSE, AlarmInv, [A!Next]_A!vars
    PROVE  AlarmInv'
<1>1. ASSUME NEW a \in Val, NEW r \in Val, A!compute(a, r) PROVE AlarmInv'
  <2>1. trapframe' \in A!Frame /\ trapframe'.epc = trapframe.epc
    BY <1>1, Zenon DEF A!compute, AlarmInv, A!TypeOK, A!Frame
  <2> QED
    BY <1>1, <2>1, Zenon DEF A!compute, AlarmInv, A!TypeOK
<1>2. ASSUME NEW n \in 0..MaxN, A!sys_sigalarm(n) PROVE AlarmInv'
  <2>1. trapframe' \in A!Frame /\ trapframe'.epc = trapframe.epc
    BY <1>2, Zenon DEF AlarmSizes, A!sys_sigalarm, AlarmInv, A!TypeOK, A!Frame
  <2>2. sigalarm' \in {0, 1} /\ (trapframe.epc = "handler" => sigalarm' = 0)
    BY <1>2, Zenon DEF AlarmSizes, A!sys_sigalarm, A!armed
  <2>3. elapsed' \in 0..(MaxN + 1)
    BY <1>2 DEF AlarmSizes, A!sys_sigalarm
  <2> QED
    BY <1>2, <2>1, <2>2, <2>3, Zenon DEF A!sys_sigalarm, AlarmInv, A!TypeOK
<1>3. ASSUME A!sys_sigreturn PROVE AlarmInv'
  <2>1. trapframe' = trapcopy /\ trapcopy.epc = "main" /\ trapcopy \in A!Frame
    BY <1>3, Zenon DEF A!sys_sigreturn, A!return_a0, AlarmInv, A!TypeOK, A!Frame
  <2>2. interrupted' = <<>>
    <3>1. interrupted = <<trapcopy>> /\ interrupted' = Tail(interrupted)
      BY <1>3, Zenon DEF A!sys_sigreturn, AlarmInv
    <3> QED
      BY <3>1
  <2>3. sigalarm' \in {0, 1} /\ elapsed' \in 0..(MaxN + 1)
    BY <1>3 DEF AlarmSizes, A!sys_sigreturn, A!armed, A!reset_tickspa
  <2>4. <<>> \in Seq(A!Frame) /\ Len(<<>>) = 0
    OBVIOUS
  <2>5. trapcopy' = trapcopy /\ ticksn' \in 0..MaxN
    BY <1>3, Zenon DEF A!sys_sigreturn, AlarmInv, A!TypeOK
  <2>6. 0 <= MaxDepth
    BY DEF AlarmSizes
  <2>7. A!TypeOK'
    BY <2>1, <2>2, <2>3, <2>4, <2>5, <2>6, Zenon DEF A!TypeOK
  <2> QED
    BY <2>1, <2>2, <2>4, <2>7, Zenon DEF AlarmInv
<1>4. ASSUME A!usertrap PROVE AlarmInv'
  <2>1. elapsed' \in 0..(MaxN + 1)
    BY <1>4 DEF AlarmSizes, A!usertrap, A!tick, AlarmInv, A!TypeOK
  <2>2. CASE A!due(elapsed')
    <3>1. trapframe.epc = "main" /\ Len(interrupted) = 0
      BY <2>2 DEF A!due, AlarmInv, A!TypeOK, A!Frame
    <3>2. trapframe' \in A!Frame /\ trapframe'.epc = "handler" /\ trapcopy' = trapframe
      BY <1>4, <2>2, Zenon DEF A!usertrap, AlarmInv, A!TypeOK, A!Frame
    <3>3. interrupted' = <<trapframe>>
      BY <1>4, <2>2, <3>1, Single DEF A!usertrap, AlarmInv, A!TypeOK
    <3>4. sigalarm' = 0 /\ ticksn' = ticksn
      BY <1>4, <2>2, Zenon DEF A!usertrap
    <3> QED
      BY <2>1, <3>1, <3>2, <3>3, <3>4, Single DEF AlarmSizes, AlarmInv, A!TypeOK
  <2>3. CASE ~A!due(elapsed')
    BY <1>4, <2>1, <2>3, Zenon DEF A!usertrap, AlarmInv, A!TypeOK
  <2> QED
    BY <2>2, <2>3, Zenon
<1>5. CASE UNCHANGED A!vars
  BY <1>5, Zenon DEF A!vars, AlarmInv, A!TypeOK
<1>6. CASE A!Next
  <2>1. CASE \E a, r \in Val : A!compute(a, r)
    BY <1>1, <2>1, Zenon
  <2>2. CASE \E n \in 0..MaxN : A!sys_sigalarm(n)
    BY <1>2, <2>2, Zenon
  <2> QED
    BY <1>3, <1>4, <1>6, <2>1, <2>2, Zenon DEF A!Next
<1> QED
  BY <1>5, <1>6, Zenon

\* The invariant holds of every behaviour.
LEMMA AlarmInvariant ==
    ASSUME A!AlarmAssumption, HandlerRearms = FALSE
    PROVE  A!Spec => []AlarmInv
<1>1. AlarmSizes
  BY Zenon DEF A!AlarmAssumption, AlarmSizes
<1>2. A!Init => AlarmInv
  BY <1>1, InitAlarm, Zenon
<1>3. AlarmInv /\ [A!Next]_A!vars => AlarmInv'
  BY <1>1, StepAlarm, Zenon
<1> QED
  BY <1>2, <1>3, PTL DEF A!Spec

\* "kernel does not allow reentrant alarm calls": no handler is called while
\* another call of it has not returned.
THEOREM NeverReentered ==
    ASSUME A!AlarmAssumption, HandlerRearms = FALSE
    PROVE  A!Spec => []A!NoReentry
<1>1. AlarmInv => A!NoReentry
  BY DEF AlarmInv, A!NoReentry
<1> QED
  BY <1>1, AlarmInvariant, PTL

\* sigreturn() resumes exactly what the alarm interrupted, a0 included,
\* whatever the handler computed and called.
THEOREM ResumeIsExact ==
    ASSUME A!AlarmAssumption, HandlerRearms = FALSE
    PROVE  A!Spec => A!ResumesExactly
<1>1. ASSUME AlarmInv, [A!Next]_A!vars, Len(interrupted') < Len(interrupted)
      PROVE  trapframe' = Head(interrupted)
  <2>0. interrupted \in Seq(A!Frame) /\ Len(interrupted) \in Nat
    BY <1>1 DEF AlarmInv, A!TypeOK
  <2>1. ~\E a, r \in Val : A!compute(a, r)
    <3>1. ASSUME NEW a \in Val, NEW r \in Val, A!compute(a, r)
          PROVE  interrupted' = interrupted
      BY <3>1, Zenon DEF A!compute
    <3> QED
      BY <1>1, <2>0, <3>1
  <2>2. ~\E n \in 0..MaxN : A!sys_sigalarm(n)
    <3>1. ASSUME NEW n \in 0..MaxN, A!sys_sigalarm(n)
          PROVE  interrupted' = interrupted
      BY <3>1, Zenon DEF A!sys_sigalarm
    <3> QED
      BY <1>1, <2>0, <3>1
  <2>3. CASE A!sys_sigreturn
    BY <2>3, <1>1 DEF A!sys_sigreturn, A!return_a0, AlarmInv, A!TypeOK, A!Frame
  <2>4. CASE A!usertrap
    <3>1. Len(<<trapframe>> \o interrupted) = 1 + Len(interrupted)
      <4>1. <<trapframe>> \in Seq(A!Frame) /\ Len(<<trapframe>>) = 1
        BY <1>1 DEF AlarmInv, A!TypeOK
      <4> QED
        BY <2>0, <4>1, ConcatProperties, Zenon
    <3>2. interrupted' = interrupted \/ interrupted' = <<trapframe>> \o interrupted
      BY <2>4, Zenon DEF A!usertrap
    <3> QED
      BY <1>1, <2>0, <3>1, <3>2
  <2>5. CASE UNCHANGED A!vars
    <3>1. interrupted' = interrupted
      BY <2>5, Zenon DEF A!vars
    <3> QED
      BY <1>1, <2>0, <3>1
  <2> QED
    BY <1>1, <2>1, <2>2, <2>3, <2>4, <2>5, Zenon DEF A!Next
<1> QED
  BY <1>1, AlarmInvariant, PTL DEF A!ResumesExactly, A!Spec
-----------------------------------------------------------------------------
CONSTANTS Proc, PIPESIZE, WRAP, Fds, MayKill

VARIABLES data, nread, nwrite, open, freed, fds, i, n, ch

P == INSTANCE Pipe

Ends == {"r", "w"}
Inside == {"writing", "reading", "copying"}

\* pi->lock is held by the one process that is inside.
PipeType ==
    /\ open \subseteq Ends
    /\ freed \in BOOLEAN
    /\ fds \in [Proc -> SUBSET Ends]
    /\ pc \in [Proc -> {"user", "write", "writing", "write_sleep",
                        "read", "reading", "copying", "read_sleep"}]
    /\ killed \in [Proc -> BOOLEAN]
    /\ lock = {p \in Proc : pc[p] \in Inside}
    /\ \A p, q \in lock : p = q

\* An end that some process has a file for is open, and a process in a call has
\* the file it calls with.
Files ==
    /\ \A p \in Proc : /\ fds[p] \subseteq open
                       /\ pc[p] \in {"write", "writing", "write_sleep"} => "w" \in fds[p]
                       /\ pc[p] \in {"read", "reading", "copying", "read_sleep"}
                             => "r" \in fds[p]
    /\ freed => open = {}

\* A writer sleeps while the pipe is full, or a reader inside will wake it up;
\* a reader sleeps while it is empty, or a writer inside will wake it up.
Sleepers ==
    /\ P!Asleep("write_sleep") # {} => P!full \/ \E p \in lock : pc[p] = "copying"
    /\ P!Asleep("read_sleep") # {} =>
          "w" \in open /\ \/ P!empty
                          \/ \E p \in Proc : killed[p]
                          \/ \E p \in lock : pc[p] = "writing"

\* A sleeping writer has somebody to read.
Readable == P!Asleep("write_sleep") # {} => "r" \in open

PipeInv == PipeType /\ Files /\ Sleepers /\ Readable

\* The sizes of the ring and of a uint, and how the ends are spread.
PipeSizes ==
    /\ PIPESIZE \in Nat \ {0} /\ WRAP \in Nat \ {0}
    /\ PIPESIZE < WRAP /\ WRAP % PIPESIZE = 0
    /\ Fds \subseteq [Proc -> SUBSET {"r", "w"}]

\* A new pipe is open and nobody is inside.
LEMMA InitPipe ==
    ASSUME PipeSizes, P!Init
    PROVE  PipeInv
<1>1. PipeType
  BY Zenon DEF PipeSizes, P!Init, PipeType, Ends, Inside
<1>2. Files /\ Sleepers /\ Readable
  BY <1>1, Zenon DEF P!Init, PipeType, Files, Sleepers, Readable, P!Asleep, Ends
<1> QED
  BY <1>1, <1>2, Zenon DEF PipeInv

\* Every step keeps the invariant.
LEMMA StepPipe == PipeInv /\ [P!Next]_P!vars => PipeInv'
<1> SUFFICES ASSUME PipeInv, [P!Next]_P!vars PROVE PipeInv'
  OBVIOUS
<1>1. ASSUME NEW p \in Proc, NEW op \in {"write", "read"}, NEW k \in 0..MaxN,
             P!call(p, op, k)
      PROVE  PipeInv'
  <2>1. PipeType'
    BY <1>1, Zenon DEF PipeInv, PipeType, Inside, P!call, P!pipe
  <2>2. Files'
    BY <1>1 DEF PipeInv, Files, P!call, P!pipe
  <2>3. Sleepers'
    BY <1>1 DEF PipeInv, Sleepers, P!Asleep, P!full, P!empty, P!call, P!pipe
  <2>4. Readable'
    BY <1>1 DEF PipeInv, Readable, P!Asleep, P!call, P!pipe
  <2> QED
    BY <2>1, <2>2, <2>3, <2>4, Zenon DEF PipeInv
<1>2. ASSUME NEW p \in Proc, P!enter(p) PROVE PipeInv'
  <2>1. PipeType'
    BY <1>2, Zenon DEF PipeInv, PipeType, Inside, P!enter, P!pipe
  <2>2. Files'
    BY <1>2 DEF PipeInv, Files, P!enter, P!pipe
  <2>3. Sleepers'
    BY <1>2 DEF PipeInv, Sleepers, P!Asleep, P!full, P!empty, P!enter, P!pipe
  <2>4. Readable'
    BY <1>2 DEF PipeInv, Readable, P!Asleep, P!enter, P!pipe
  <2> QED
    BY <2>1, <2>2, <2>3, <2>4, Zenon DEF PipeInv
<1>3. ASSUME NEW p \in Proc, P!write_fail(p) PROVE PipeInv'
  <2>1. PipeType'
    BY <1>3, Zenon DEF PipeInv, PipeType, Inside, P!write_fail, P!Return, P!pipe
  <2>2. Files'
    BY <1>3 DEF PipeInv, Files, P!write_fail, P!Return, P!pipe
  <2>3. Sleepers'
    BY <1>3 DEF PipeInv, Files, Sleepers, P!Asleep, P!full, P!write_fail, P!Return, P!pipe
  <2>4. Readable'
    BY <1>3 DEF PipeInv, Readable, P!Asleep, P!write_fail, P!Return, P!pipe
  <2> QED
    BY <2>1, <2>2, <2>3, <2>4 DEF PipeInv
<1>4. ASSUME NEW p \in Proc, P!write_full(p) PROVE PipeInv'
  <2>1. PipeType'
    BY <1>4, Zenon DEF PipeInv, PipeType, Inside, P!write_full, P!wake_readers, P!pipe
  <2>2. Files'
    BY <1>4 DEF PipeInv, Files, P!write_full, P!wake_readers, P!pipe
  <2>3. Sleepers'
    BY <1>4, Zenon DEF Sleepers, P!Asleep, P!full, P!write_full, P!wake_readers, P!pipe
  <2>4. Readable'
    BY <1>4, Zenon DEF Readable, P!write_full, P!pipe
  <2> QED
    BY <2>1, <2>2, <2>3, <2>4 DEF PipeInv
<1>5. ASSUME NEW p \in Proc, NEW v \in Val, P!write_byte(p, v) PROVE PipeInv'
  <2>1. PipeType'
    BY <1>5, Zenon DEF PipeInv, PipeType, P!write_byte
  <2>2. Files'
    BY <1>5, Zenon DEF PipeInv, Files, P!write_byte
  <2>3. Sleepers'
    BY <1>5, Zenon DEF PipeInv, PipeType, Inside, Sleepers, P!Asleep, P!write_byte
  <2>4. Readable'
    BY <1>5, Zenon DEF Readable, P!write_byte
  <2> QED
    BY <2>1, <2>2, <2>3, <2>4, Zenon DEF PipeInv
<1>6. ASSUME NEW p \in Proc, P!write_done(p) PROVE PipeInv'
  <2>1. PipeType'
    BY <1>6, Zenon
       DEF PipeInv, PipeType, Inside, P!write_done, P!Return, P!wake_readers, P!pipe
  <2>2. Files'
    BY <1>6, Zenon DEF PipeInv, Files, P!write_done, P!Return, P!wake_readers, P!pipe
  <2>3. Sleepers'
    BY <1>6, Zenon
    DEF PipeInv, PipeType, Inside, Files, Sleepers, P!Asleep, P!full, P!empty, P!write_done,
        P!Return, P!wake_readers, P!pipe
  <2>4. Readable'
    BY <1>6, Zenon
    DEF PipeInv, PipeType, Readable, P!Asleep, P!write_done, P!Return, P!wake_readers, P!pipe
  <2> QED
    BY <2>1, <2>2, <2>3, <2>4 DEF PipeInv
<1>7. ASSUME NEW p \in Proc, P!read_wait(p) PROVE PipeInv'
  <2>1. PipeType'
    BY <1>7, Zenon DEF PipeInv, PipeType, Inside, P!read_wait, P!Return, P!pipe
  <2>2. Files'
    BY <1>7, Zenon DEF PipeInv, PipeType, Files, P!read_wait, P!Return, P!pipe
  <2>3. Sleepers'
    BY <1>7, Zenon
    DEF PipeInv, PipeType, Sleepers, P!Asleep, P!full, P!empty, P!read_wait, P!Return, P!pipe
  <2>4. Readable'
    BY <1>7, Zenon
       DEF PipeInv, PipeType, Readable, P!Asleep, P!read_wait, P!Return, P!pipe
  <2> QED
    BY <2>1, <2>2, <2>3, <2>4 DEF PipeInv
<1>8. ASSUME NEW p \in Proc, P!read_start(p) PROVE PipeInv'
  <2>1. PipeType'
    BY <1>8, Zenon DEF PipeInv, PipeType, Inside, P!read_start, P!pipe
  <2>2. Files'
    BY <1>8 DEF PipeInv, Files, P!read_start, P!pipe
  <2>3. Sleepers'
    BY <1>8 DEF PipeInv, Sleepers, P!Asleep, P!full, P!read_start, P!pipe
  <2>4. Readable'
    BY <1>8 DEF PipeInv, Readable, P!Asleep, P!read_start, P!pipe
  <2> QED
    BY <2>1, <2>2, <2>3, <2>4 DEF PipeInv
<1>9. ASSUME NEW p \in Proc, P!read_byte(p) PROVE PipeInv'
  <2>1. PipeType'
    BY <1>9, Zenon
       DEF PipeInv, PipeType, Inside, P!read_byte, P!Return, P!wake_writers, P!pipe
  <2>2. Files'
    BY <1>9, Zenon
       DEF PipeInv, PipeType, Files, P!read_byte, P!Return, P!wake_writers, P!pipe
  <2>3. Sleepers'
    <3>1. p \in lock /\ \A q \in lock : pc[q] # "writing"
      BY <1>9, Zenon DEF PipeInv, PipeType, Inside, P!read_byte
    <3>2. P!Asleep("read_sleep") # {} => "w" \in open /\ \E q \in Proc : killed[q]
      BY <1>9, <3>1, Zenon DEF PipeInv, Sleepers, P!read_byte
    <3>3. P!Asleep("read_sleep")' = P!Asleep("read_sleep")
      BY <1>9, Zenon
         DEF PipeInv, PipeType, P!Asleep, P!read_byte, P!Return, P!wake_writers
    <3>4. P!Asleep("write_sleep")' # {} => \E q \in lock' : pc'[q] = "copying"
      BY <1>9, <3>1, Zenon
         DEF PipeInv, PipeType, P!Asleep, P!read_byte, P!Return, P!wake_writers
    <3> QED
      BY <1>9, <3>2, <3>3, <3>4, Zenon DEF Sleepers, P!read_byte
  <2>4. Readable'
    BY <1>9, Zenon
       DEF PipeInv, PipeType, Readable, P!Asleep, P!read_byte, P!Return, P!wake_writers
  <2> QED
    BY <2>1, <2>2, <2>3, <2>4 DEF PipeInv
<1>10. ASSUME NEW p \in Proc, P!read_done(p) PROVE PipeInv'
  <2>1. PipeType'
    BY <1>10, Zenon
       DEF PipeInv, PipeType, Inside, P!read_done, P!Return, P!wake_writers, P!pipe
  <2>2. Files'
    BY <1>10, Zenon DEF PipeInv, Files, P!read_done, P!Return, P!wake_writers, P!pipe
  <2>3. Sleepers'
    <3>1. p \in lock /\ \A q \in lock : q = p
      BY <1>10, Zenon DEF PipeInv, PipeType, Inside, P!read_done
    <3>2. P!Asleep("read_sleep")' = P!Asleep("read_sleep") /\ P!Asleep("write_sleep")' = {}
      BY <1>10, Zenon
         DEF PipeInv, PipeType, P!Asleep, P!read_done, P!Return, P!wake_writers
    <3>3. P!Asleep("read_sleep") # {} =>
             "w" \in open /\ (P!empty \/ \E q \in Proc : killed[q])
      BY <1>10, <3>1, Zenon DEF PipeInv, Sleepers, P!read_done
    <3> QED
      BY <1>10, <3>2, <3>3, Zenon DEF Sleepers, P!empty, P!read_done, P!pipe
  <2>4. Readable'
    BY <1>10, Zenon
    DEF PipeInv, PipeType, Readable, P!Asleep, P!read_done, P!Return, P!wake_writers, P!pipe
  <2> QED
    BY <2>1, <2>2, <2>3, <2>4 DEF PipeInv
<1>11. ASSUME NEW p \in Proc, NEW e \in Ends, P!fileclose(p, e) PROVE PipeInv'
  <2>1. PipeType'
    <3>1. CASE \E r \in Proc \ {p} : e \in fds[r]
      BY <1>11, <3>1, Zenon DEF PipeInv, PipeType, P!fileclose
    <3>2. CASE ~ \E r \in Proc \ {p} : e \in fds[r]
      <4>1. P!pipeclose(e) /\ UNCHANGED <<lock, killed>> /\ fds' = [fds EXCEPT ![p] = @ \ {e}]
        BY <1>11, <3>2, Zenon DEF P!fileclose
      <4>2. pc' \in [Proc -> {"user", "write", "writing", "write_sleep",
                             "read", "reading", "copying", "read_sleep"}]
        BY <4>1, Zenon DEF PipeInv, PipeType, P!pipeclose, P!wake_readers, P!wake_writers
      <4>3. \A q \in Proc : pc'[q] \in Inside <=> pc[q] \in Inside
        BY <4>1, Zenon
           DEF PipeInv, PipeType, Inside, P!pipeclose, P!wake_readers, P!wake_writers
      <4>4. open' \subseteq Ends /\ freed' \in BOOLEAN /\ fds' \in [Proc -> SUBSET Ends]
        BY <4>1, Zenon DEF PipeInv, PipeType, P!pipeclose
      <4> QED
        BY <4>1, <4>2, <4>3, <4>4, Zenon DEF PipeInv, PipeType
    <3> QED
      BY <3>1, <3>2, Zenon
  <2>2. Files'
    BY <1>11
    DEF PipeInv, PipeType, Files, P!fileclose, P!pipeclose, P!wake_readers, P!wake_writers
  <2>3. Sleepers'
    BY <1>11, Zenon
    DEF PipeInv, Sleepers, P!Asleep, P!full, P!empty, P!fileclose, P!pipeclose, P!wake_readers,
        P!wake_writers
  <2>4. Readable'
    BY <1>11, Zenon
    DEF PipeInv, Readable, P!Asleep, P!fileclose, P!pipeclose, P!wake_readers, P!wake_writers
  <2> QED
    BY <2>1, <2>2, <2>3, <2>4, Zenon DEF PipeInv
<1>12. ASSUME NEW p \in Proc, P!kill(p) PROVE PipeInv'
  <2>1. PipeType'
    BY <1>12, Zenon DEF PipeInv, PipeType, Inside, P!kill, P!pipe
  <2>2. Files'
    BY <1>12 DEF PipeInv, Files, P!kill, P!pipe
  <2>3. Sleepers'
    BY <1>12 DEF PipeInv, Sleepers, P!Asleep, P!full, P!empty, P!kill, P!pipe
  <2>4. Readable'
    BY <1>12 DEF PipeInv, Readable, P!Asleep, P!kill, P!pipe
  <2> QED
    BY <2>1, <2>2, <2>3, <2>4 DEF PipeInv
<1>13. CASE UNCHANGED P!vars
  BY <1>13, Zenon
     DEF P!vars, PipeInv, PipeType, Files, Sleepers, Readable, P!Asleep, P!full, P!empty
<1> QED
  BY <1>1, <1>2, <1>3, <1>4, <1>5, <1>6, <1>7, <1>8, <1>9, <1>10, <1>11, <1>12, <1>13, Zenon
  DEF P!Next, P!kernel, Ends

\* Nobody sleeps for nothing in pipewrite() or piperead(), but for readers whom a
\* writer killed halfway leaves asleep, and pipeclose() frees the pipe when no
\* process can touch it again.
THEOREM PipeIsSound ==
    ASSUME P!PipeAssumption
    PROVE  P!Spec => []P!PipeSound
<1>0. PipeSizes
  BY Zenon DEF PipeSizes
<1>1. PipeInv => P!PipeSound
  <2> SUFFICES ASSUME PipeInv PROVE P!PipeSound
    BY Zenon
  <2>1. P!SleepersJustified
    BY Zenon DEF PipeInv, Sleepers, Readable, P!SleepersJustified
  <2>2. P!NoUseAfterFree
    BY Zenon DEF PipeInv, PipeType, Files, P!NoUseAfterFree
  <2> QED
    BY <2>1, <2>2, Zenon DEF P!PipeSound
<1>2. P!Init => PipeInv
  BY <1>0, InitPipe, Zenon
<1> QED
  BY <1>1, <1>2, StepPipe, PTL DEF P!Spec

-----------------------------------------------------------------------------
\* The remainder of d * q + r is r.
LEMMA ModIs ==
    ASSUME NEW d \in Nat \ {0}, NEW q \in Int, NEW r \in 0..(d - 1)
    PROVE  (d * q + r) % d = r
  OBVIOUS

\* The quotient and the remainder of an integer.
LEMMA DivMod ==
    ASSUME NEW d \in Nat \ {0}, NEW a \in Int
    PROVE  /\ a \div d \in Int
           /\ a % d \in 0..(d - 1)
           /\ a = d * (a \div d) + (a % d)
  OBVIOUS

\* A uint that wraps at a multiple of d has the remainder it would have without
\* wrapping: `nread % PIPESIZE' goes round the ring even when nread overflows.
LEMMA ModMod ==
    ASSUME NEW d \in Nat \ {0}, NEW w \in Nat \ {0}, w % d = 0, NEW a \in Int
    PROVE  (a % w) % d = a % d
<1> DEFINE m == w \div d  q == a \div w  b == a % w  t == b \div d  r == b % d
<1>1. w = d * m /\ m \in Int
  BY DivMod
<1>2. a = w * q + b /\ q \in Int /\ b \in Int
  BY DivMod
<1>3. b = d * t + r /\ t \in Int /\ r \in 0..(d - 1)
  BY <1>2, DivMod, Zenon
<1> HIDE DEF m, q, b, t, r
<1>4. a = d * (m * q + t) + r
  BY <1>1, <1>2, <1>3
<1>5. m * q + t \in Int
  BY <1>1, <1>2, <1>3
<1>6. a % d = r
  BY <1>3, <1>4, <1>5, ModIs, Zenon
<1> QED
  BY <1>6, Zenon DEF r, b

\* Fewer than d consecutive integers have different remainders.
LEMMA ModApart ==
    ASSUME NEW d \in Nat \ {0}, NEW a \in Int, NEW j \in Nat, NEW k \in Nat, j < k, k < d
    PROVE  (a + j) % d # (a + k) % d
<1> SUFFICES ASSUME (a + j) % d = (a + k) % d PROVE FALSE
  BY Zenon
<1> DEFINE s == (a + j) \div d  t == (a + k) \div d  r == (a + k) % d
<1>1. a + j = d * s + r /\ s \in Int /\ r \in Int
  <2>1. a + j \in Int
    OBVIOUS
  <2>2. /\ (a + j) \div d \in Int /\ (a + j) % d \in 0..(d - 1)
        /\ a + j = d * ((a + j) \div d) + ((a + j) % d)
    BY <2>1, DivMod, Zenon
  <2>3. 0..(d - 1) \subseteq Int
    OBVIOUS
  <2> QED
    BY <2>2, <2>3, Zenon
<1>2. a + k = d * t + r /\ t \in Int
  <2>1. a + k \in Int
    OBVIOUS
  <2> QED
    BY <2>1, DivMod, Zenon
<1> HIDE DEF s, t, r
<1>3. k - j = d * (t - s)
  BY <1>1, <1>2
<1>4. CASE t - s <= 0
  <2>1. d * (t - s) <= 0
    BY <1>1, <1>2, <1>4
  <2> QED
    BY <1>3, <2>1
<1>5. CASE t - s >= 1
  <2>1. d * (t - s) >= d
    BY <1>1, <1>2, <1>5
  <2> QED
    BY <1>3, <2>1
<1> QED
  BY <1>1, <1>2, <1>4, <1>5

\* Addition modulo d wraps at most once.
LEMMA ModPlus ==
    ASSUME NEW d \in Nat \ {0}, NEW a \in 0..(d - 1), NEW b \in 0..d
    PROVE  (a + b) % d = IF a + b < d THEN a + b ELSE a + b - d
<1>1. CASE a + b < d
  BY <1>1, ModIs
<1>2. CASE a + b >= d
  <2>1. a + b = d * 1 + (a + b - d)
    OBVIOUS
  <2> QED
    BY <1>2, <2>1, ModIs
<1> QED
  BY <1>1, <1>2

\* So does subtraction.
LEMMA ModMinus ==
    ASSUME NEW d \in Nat \ {0}, NEW a \in 0..(d - 1), NEW b \in 0..(d - 1)
    PROVE  (a - b) % d = IF a >= b THEN a - b ELSE a - b + d
  OBVIOUS

\* The ring, its counters and the byte read last; never more than PIPESIZE bytes
\* are in it.
Filled ==
    /\ data \in [0..(PIPESIZE - 1) -> Val]
    /\ nread \in 0..(WRAP - 1) /\ nwrite \in 0..(WRAP - 1)
    /\ ch \in Val
    /\ P!used <= PIPESIZE

\* The place of the byte k behind the oldest one.
slot(k) == P!plus(nread, k) % PIPESIZE

\* The sizes, for the lemmas that need no more.
LEMMA Sizes ==
    ASSUME PipeSizes
    PROVE  /\ PIPESIZE \in Nat \ {0} /\ WRAP \in Nat \ {0}
           /\ PIPESIZE < WRAP /\ WRAP % PIPESIZE = 0
  BY Zenon DEF PipeSizes

\* pi->nread + b of a uint.
LEMMA Plus ==
    ASSUME PipeSizes, NEW a \in 0..(WRAP - 1), NEW b \in 0..WRAP
    PROVE  P!plus(a, b) = IF a + b < WRAP THEN a + b ELSE a + b - WRAP
<1>1. WRAP \in Nat \ {0}
  BY Sizes, Zenon
<1>2. (a + b) % WRAP = IF a + b < WRAP THEN a + b ELSE a + b - WRAP
  BY <1>1, ModPlus, Zenon
<1> QED
  BY <1>2, Zenon DEF P!plus

\* pi->nwrite - pi->nread of a uint.
LEMMA Minus ==
    ASSUME PipeSizes, NEW a \in 0..(WRAP - 1), NEW b \in 0..(WRAP - 1)
    PROVE  (a - b) % WRAP = IF a >= b THEN a - b ELSE a - b + WRAP
<1>1. WRAP \in Nat \ {0}
  BY Sizes, Zenon
<1> QED
  BY <1>1, ModMinus, Zenon

\* The tests of pipewrite() and piperead() for a full and for an empty pipe
\* compare the counters rightly, across an overflow too.
LEMMA Used ==
    ASSUME PipeSizes, Filled
    PROVE  /\ P!used \in 0..PIPESIZE
           /\ P!empty <=> P!used = 0
           /\ P!full <=> P!used = PIPESIZE
           /\ P!plus(nread, P!used) = nwrite
<1>1. nread \in 0..(WRAP - 1) /\ nwrite \in 0..(WRAP - 1) /\ P!used <= PIPESIZE
  BY Zenon DEF Filled
<1>2. PIPESIZE \in Nat \ {0} /\ WRAP \in Nat \ {0} /\ PIPESIZE < WRAP
  BY Sizes, Zenon
<1>3. P!used = IF nwrite >= nread THEN nwrite - nread ELSE nwrite - nread + WRAP
  BY <1>1, Minus, Zenon DEF P!used
<1>4. P!used \in 0..PIPESIZE
  BY <1>1, <1>2, <1>3
<1>5. P!plus(nread, P!used)
        = IF nread + P!used < WRAP THEN nread + P!used ELSE nread + P!used - WRAP
  <2>1. P!used \in 0..WRAP
    BY <1>2, <1>4
  <2> QED
    BY <1>1, <2>1, Plus, Zenon
<1>6. P!plus(nread, P!used) = nwrite
  BY <1>1, <1>2, <1>3, <1>5
<1>7. P!plus(nread, PIPESIZE)
        = IF nread + PIPESIZE < WRAP THEN nread + PIPESIZE ELSE nread + PIPESIZE - WRAP
  <2>1. PIPESIZE \in 0..WRAP
    BY <1>2
  <2> QED
    BY <1>1, <2>1, Plus, Zenon
<1>8. P!full <=> P!used = PIPESIZE
  BY <1>1, <1>2, <1>3, <1>7 DEF P!full
<1>9. P!empty <=> P!used = 0
  BY <1>1, <1>2, <1>3 DEF P!empty
<1> QED
  BY <1>4, <1>6, <1>8, <1>9, Zenon

\* The bytes in the ring are in places of their own.
LEMMA Slots ==
    ASSUME PipeSizes, Filled
    PROVE  /\ \A k \in Nat : slot(k) \in 0..(PIPESIZE - 1)
           /\ \A j, k \in 0..(PIPESIZE - 1) : j < k => slot(j) # slot(k)
<1>1. \A k \in Nat : slot(k) = (nread + k) % PIPESIZE
  <2> TAKE k \in Nat
  <2>1. nread + k \in Int
    BY DEF Filled
  <2> QED
    BY <2>1, Sizes, ModMod, Zenon DEF slot, P!plus
<1>2. nread \in Int
  BY DEF Filled
<1>3. ASSUME NEW j \in 0..(PIPESIZE - 1), NEW k \in 0..(PIPESIZE - 1), j < k
      PROVE  (nread + j) % PIPESIZE # (nread + k) % PIPESIZE
  <2>1. j \in Nat /\ k \in Nat /\ k < PIPESIZE /\ PIPESIZE \in Nat \ {0}
    BY Sizes
  <2> QED
    BY <1>2, <1>3, <2>1, ModApart, Zenon
<1> QED
  BY <1>1, <1>2, <1>3, Sizes

\* One iteration of pipewrite() puts a byte behind the others, over none of them.
LEMMA PutStep ==
    ASSUME PipeSizes, Filled, NEW p \in Proc, NEW v \in Val, P!write_byte(p, v)
    PROVE  Filled' /\ P!Queue!Put(v)
<1>1. P!used < PIPESIZE /\ P!used \in Nat /\ P!plus(nread, P!used) = nwrite
  BY Used, Sizes DEF P!write_byte
<1>2. nwrite' \in 0..(WRAP - 1) /\ P!used' = P!used + 1
  <2>1. nread \in 0..(WRAP - 1) /\ nwrite \in 0..(WRAP - 1) /\ 1 \in 0..WRAP
    BY Sizes DEF Filled
  <2>2. nwrite' = IF nwrite + 1 < WRAP THEN nwrite + 1 ELSE nwrite + 1 - WRAP
    BY <2>1, Plus, Zenon DEF P!write_byte
  <2>3. PIPESIZE \in Nat /\ WRAP \in Nat \ {0} /\ PIPESIZE < WRAP
    BY Sizes, Zenon
  <2>4. nwrite' \in 0..(WRAP - 1)
    BY <2>1, <2>2, <2>3
  <2>5. P!used = IF nwrite >= nread THEN nwrite - nread ELSE nwrite - nread + WRAP
    BY <2>1, Minus, Zenon DEF P!used
  <2>6. P!used' = IF nwrite' >= nread THEN nwrite' - nread ELSE nwrite' - nread + WRAP
    <3>1. P!used' = (nwrite' - nread) % WRAP
      BY Zenon DEF P!used, P!write_byte
    <3> QED
      BY <2>1, <2>4, <3>1, Minus, Zenon
  <2> QED
    BY <1>1, <2>1, <2>2, <2>3, <2>4, <2>5, <2>6
<1>3. data' = [data EXCEPT ![slot(P!used)] = v]
  BY <1>1, Zenon DEF slot, P!write_byte
<1>4. Filled'
  <2>1. data' \in [0..(PIPESIZE - 1) -> Val]
    BY <1>3, Zenon DEF Filled
  <2>2. P!used' <= PIPESIZE
    BY <1>1, <1>2, Sizes
  <2> QED
    BY <1>2, <2>1, <2>2, Zenon DEF Filled, P!write_byte
<1>5. \A k \in 0..P!used : slot(k)' = slot(k)
  BY Zenon DEF slot, P!plus, P!write_byte
<1>6. \A k \in 1..P!used : data'[slot(k - 1)] = data[slot(k - 1)]
  <2> TAKE k \in 1..P!used
  <2>1. k - 1 \in 0..(PIPESIZE - 1) /\ P!used \in 0..(PIPESIZE - 1) /\ k - 1 < P!used /\ k - 1 \in Nat
    BY <1>1, Sizes
  <2>2. slot(k - 1) # slot(P!used) /\ slot(k - 1) \in 0..(PIPESIZE - 1)
    BY <2>1, Slots, Zenon
  <2> QED
    BY <1>3, <2>2, Zenon DEF Filled
<1>7. data'[slot(P!used)] = v
  BY <1>1, <1>3, Slots, Zenon DEF Filled
<1>8. P!content' = Append(P!content, v)
  <2>1. P!content = [k \in 1..P!used |-> data[slot(k - 1)]]
    BY Zenon DEF P!content, slot
  <2>2. P!content' = [k \in 1..(P!used + 1) |-> data'[slot(k - 1)]]
    BY <1>2 DEF P!content, slot, P!plus, P!write_byte
  <2>3. P!content \in Seq(Val) /\ Len(P!content) = P!used
    <3>1. \A k \in 1..P!used : data[slot(k - 1)] \in Val
      <4> TAKE k \in 1..P!used
      <4>1. k - 1 \in Nat
        BY <1>1
      <4>2. slot(k - 1) \in 0..(PIPESIZE - 1)
        BY <4>1, Slots, Zenon
      <4> QED
        BY <4>2, Zenon DEF Filled
    <3> QED
      BY <1>1, <2>1, <3>1
  <2> HIDE DEF P!content
  <2>4. \A k \in 1..(P!used + 1) : data'[slot(k - 1)] = IF k <= P!used THEN P!content[k] ELSE v
    <3> TAKE k \in 1..(P!used + 1)
    <3>1. CASE k <= P!used
      BY <1>1, <1>6, <2>1, <3>1
    <3>2. CASE k > P!used
      <4>1. k - 1 = P!used
        BY <1>1, <3>2
      <4> QED
        BY <1>1, <1>7, <3>2, <4>1
    <3> QED
      BY <1>1, <3>1, <3>2
  <2>5. P!content' = [k \in 1..(P!used + 1) |-> IF k <= P!used THEN P!content[k] ELSE v]
    BY <2>2, <2>4, Zenon
  <2>6. \A k \in 1..P!used : P!content[k] \in Val
    BY <1>1, <2>3, ElementOfSeq, Zenon
  <2>7. P!content' \in Seq(Val) /\ Len(P!content') = P!used + 1
    BY <1>1, <2>5, <2>6
  <2>8. /\ Append(P!content, v) \in Seq(Val) /\ Len(Append(P!content, v)) = P!used + 1
        /\ \A k \in 1..P!used : Append(P!content, v)[k] = P!content[k]
        /\ Append(P!content, v)[P!used + 1] = v
    BY <2>3, AppendProperties
  <2>9. \A k \in 1..(P!used + 1) : P!content'[k] = Append(P!content, v)[k]
    BY <1>1, <2>5, <2>8
  <2> QED
    BY <2>7, <2>8, <2>9, SeqEqual, Zenon
<1>9. Len(P!content) = P!used
  BY <1>1 DEF P!content
<1> QED
  BY <1>1, <1>4, <1>8, <1>9, Zenon DEF P!Queue!Put, P!write_byte

\* One iteration of piperead() takes the oldest byte out.
LEMMA GetStep ==
    ASSUME PipeSizes, Filled, NEW p \in Proc, P!read_byte(p)
    PROVE  Filled' /\ P!Queue!Get
<1>1. P!used \in 1..PIPESIZE
  BY Used, Sizes DEF P!read_byte
<1>2. nread \in 0..(WRAP - 1) /\ nwrite \in 0..(WRAP - 1) /\ 1 \in 0..WRAP /\ 0 \in 0..WRAP
  BY Sizes DEF Filled
<1>3. PIPESIZE \in Nat /\ WRAP \in Nat \ {0} /\ PIPESIZE < WRAP
  BY Sizes, Zenon
<1>4. nread' = IF nread + 1 < WRAP THEN nread + 1 ELSE nread + 1 - WRAP
  BY <1>2, Plus DEF P!read_byte
<1>5. nread' \in 0..(WRAP - 1) /\ P!used' = P!used - 1
  <2>2. nread' \in 0..(WRAP - 1)
    BY <1>4, <1>2, <1>3
  <2>3. P!used = IF nwrite >= nread THEN nwrite - nread ELSE nwrite - nread + WRAP
    BY <1>2, Minus, Zenon DEF P!used
  <2>4. P!used' = IF nwrite >= nread' THEN nwrite - nread' ELSE nwrite - nread' + WRAP
    <3>1. P!used' = (nwrite - nread') % WRAP
      BY DEF P!used, P!read_byte
    <3> QED
      BY <1>2, <2>2, <3>1, Minus, Zenon
  <2> QED
    BY <1>1, <1>4, <1>2, <1>3, <2>2, <2>3, <2>4
<1>6. nread = P!plus(nread, 0)
  <2>1. P!plus(nread, 0) = IF nread + 0 < WRAP THEN nread + 0 ELSE nread + 0 - WRAP
    BY <1>2, Plus, Zenon
  <2> QED
    BY <1>2, <1>3, <2>1
<1>7. ch' = data[slot(0)] /\ slot(0) \in 0..(PIPESIZE - 1)
  BY <1>6, Slots DEF slot, P!read_byte
<1>8. Filled'
  <2>1. P!used' <= PIPESIZE
    BY <1>1, <1>5, <1>3
  <2> QED
    BY <1>5, <1>7, <2>1 DEF Filled, P!read_byte
<1>9. \A k \in 0..(P!used - 1) : P!plus(nread', k) = P!plus(nread, k + 1)
  <2> TAKE k \in 0..(P!used - 1)
  <2>1. k \in 0..WRAP /\ k + 1 \in 0..WRAP
    BY <1>1, <1>3
  <2>2. P!plus(nread', k) = IF nread' + k < WRAP THEN nread' + k ELSE nread' + k - WRAP
    BY <1>5, <2>1, Plus, Zenon
  <2>3. P!plus(nread, k + 1)
          = IF nread + (k + 1) < WRAP THEN nread + (k + 1) ELSE nread + (k + 1) - WRAP
    BY <1>2, <2>1, Plus, Zenon
  <2> QED
    BY <1>1, <1>4, <1>5, <1>2, <1>3, <2>2, <2>3
<1>10. P!content' = Tail(P!content) /\ ch' = Head(P!content) /\ P!content # <<>>
  <2>1. P!content = [k \in 1..P!used |-> data[slot(k - 1)]]
    BY DEF P!content, slot
  <2>2. P!content' = [k \in 1..(P!used - 1) |-> data[P!plus(nread', k - 1) % PIPESIZE]]
    BY <1>5 DEF P!content, P!plus, P!read_byte
  <2>3. P!content \in Seq(Val) /\ Len(P!content) = P!used
    <3>1. \A k \in 1..P!used : data[slot(k - 1)] \in Val
      <4> TAKE k \in 1..P!used
      <4>1. k - 1 \in Nat
        BY <1>1
      <4>2. slot(k - 1) \in 0..(PIPESIZE - 1)
        BY <4>1, Slots, Zenon
      <4> QED
        BY <4>2 DEF Filled
    <3> QED
      BY <1>1, <2>1, <3>1
  <2>4. P!content' = [k \in 1..(P!used - 1) |-> data[slot(k)]]
    BY <1>1, <1>9, <2>2 DEF slot
  <2>5. ch' = P!content[1]
    BY <1>1, <1>7, <2>1
  <2> HIDE DEF P!content
  <2>6. \A k \in 1..(P!used - 1) : data[slot(k)] = P!content[k + 1]
    BY <1>1, <2>1
  <2>7. P!content' = [k \in 1..(P!used - 1) |-> P!content[k + 1]]
    BY <2>4, <2>6
  <2>8. \A k \in 1..(P!used - 1) : P!content[k + 1] \in Val
    BY <1>1, <2>3, ElementOfSeq
  <2>9. P!content' \in Seq(Val) /\ Len(P!content') = P!used - 1
    BY <1>1, <2>7, <2>8
  <2>10. P!content # <<>>
    BY <1>1, <2>3
  <2>11. /\ Tail(P!content) \in Seq(Val) /\ Len(Tail(P!content)) = P!used - 1
         /\ \A k \in 1..(P!used - 1) : Tail(P!content)[k] = P!content[k + 1]
    BY <2>3, <2>10, HeadTailProperties
  <2>12. \A k \in 1..(P!used - 1) : P!content'[k] = Tail(P!content)[k]
    BY <2>7, <2>11
  <2>13. P!content' = Tail(P!content)
    BY <2>9, <2>11, <2>12, SeqEqual
  <2>14. ch' = Head(P!content)
    BY <2>3, <2>5, <2>10
  <2> QED
    BY <2>10, <2>13, <2>14
<1> QED
  BY <1>8, <1>10, Zenon DEF P!Queue!Get

\* A pipe is a queue of at most PIPESIZE bytes, for any PIPESIZE that divides the
\* number of values of a uint: pipewrite() and piperead() lose, invent, repeat
\* and reorder nothing, also when nread and nwrite overflow.
THEOREM PipeQueues ==
    ASSUME P!PipeAssumption
    PROVE  P!Spec => P!PipeIsFifo
<1>0. PipeSizes
  BY DEF PipeSizes
<1>1. P!Init => Filled /\ P!Queue!Init
  <2> SUFFICES ASSUME P!Init PROVE Filled /\ P!Queue!Init
    OBVIOUS
  <2>1. P!used = 0
    BY <1>0, Sizes, ModMinus DEF P!Init, P!used
  <2>2. Filled
    BY <1>0, <2>1, Sizes DEF P!Init, Filled
  <2>3. P!content = <<>>
    BY <2>1 DEF P!content
  <2> QED
    BY <2>2, <2>3 DEF P!Queue!Init, Filled
<1>2. Filled /\ [P!Next]_P!vars => Filled' /\ [P!Queue!Next]_P!Queue!vars
  <2> SUFFICES ASSUME Filled, [P!Next]_P!vars PROVE Filled' /\ [P!Queue!Next]_P!Queue!vars
    OBVIOUS
  <2>1. ASSUME NEW p \in Proc, NEW v \in Val, P!write_byte(p, v)
        PROVE  Filled' /\ [P!Queue!Next]_P!Queue!vars
    BY <1>0, <2>1, PutStep DEF P!Queue!Next
  <2>2. ASSUME NEW p \in Proc, P!read_byte(p) PROVE Filled' /\ [P!Queue!Next]_P!Queue!vars
    BY <1>0, <2>2, GetStep DEF P!Queue!Next
  <2>3. CASE UNCHANGED <<data, nread, nwrite, ch>>
    BY <2>3, SMTT(30) DEF Filled, P!used, P!content, P!plus, P!Queue!vars
  <2>4. ASSUME NEW p \in Proc, NEW e \in Ends, P!fileclose(p, e)
        PROVE  UNCHANGED <<data, nread, nwrite, ch>>
    BY <2>4 DEF P!fileclose
  <2>5. ASSUME NEW p \in Proc,
               \/ \E op \in {"write", "read"}, k \in 0..MaxN : P!call(p, op, k)
               \/ P!enter(p) \/ P!write_fail(p) \/ P!write_full(p) \/ P!write_done(p)
               \/ P!read_wait(p) \/ P!read_start(p) \/ P!read_done(p) \/ P!kill(p)
        PROVE  UNCHANGED <<data, nread, nwrite, ch>>
    BY <2>5 DEF P!call, P!enter, P!write_fail, P!write_full, P!write_done, P!read_wait,
                P!read_start, P!read_done, P!kill, P!pipe
  <2>6. CASE UNCHANGED P!vars
    BY <2>3, <2>6 DEF P!vars
  <2> QED
    BY <2>1, <2>2, <2>3, <2>4, <2>5, <2>6 DEF P!Next, P!kernel, Ends
<1> QED
  BY <1>1, <1>2, PTL DEF P!Spec, P!PipeIsFifo, P!Queue!Spec
=============================================================================
