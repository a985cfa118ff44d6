------------------------------ MODULE InjLocks ------------------------------
(***************************************************************************)
(* The two spin locks of idle injection (kernel/sched_bfs.c): schedule()   *)
(* runs with grq.lock held and interrupts off, and takes lst_write_lock to *)
(* look for a limit on the task it has picked; the files of                *)
(* /proc/schedidle take lst_write_lock with interrupts on; an interrupt    *)
(* handler that wakes a task takes grq.lock.                               *)
(*                                                                         *)
(* BfsSched takes each of these as one step.  Here a CPU is at a place     *)
(* between acquiring and releasing locks, and what it does there is left   *)
(* out.  A task that spins for a lock, or holds one, is not preempted, so  *)
(* a CPU stays with it; an interrupt may come on top of it.                *)
(***************************************************************************)
EXTENDS Naturals

CONSTANTS
  Cpus,   \* the CPUs
  NoCpu   \* nobody, as holder of a lock

VARIABLES
  pc,       \* where the task on each CPU is
  irq,      \* where the interrupt handler on each CPU is
  holder    \* who holds each lock

vars == <<pc, irq, holder>>

Locks == {"grq", "lst"}

\* Outside: the task holds no lock and waits for none.  The other places are in
\* schedule() (locking to picked) and in the proc files (want_list, list).
Places == {"outside", "locking", "locked", "want_lst", "scan", "picked", "want_list", "list"}

TypeOK ==
  /\ pc \in [Cpus -> Places]
  /\ irq \in [Cpus -> {"none", "want", "hold"}]
  /\ holder \in [Locks -> Cpus \cup {NoCpu}]

Init ==
  /\ pc = [c \in Cpus |-> "outside"]
  /\ irq = [c \in Cpus |-> "none"]
  /\ holder = [l \in Locks |-> NoCpu]
-----------------------------------------------------------------------------
\* The task on CPU c goes from one place to another, if no handler is on top of it.
Move(c, from, to) ==
  /\ irq[c] = "none"
  /\ pc[c] = from
  /\ pc' = [pc EXCEPT ![c] = to]
  /\ UNCHANGED irq

Acquire(c, l) == holder[l] = NoCpu /\ holder' = [holder EXCEPT ![l] = c]
Drop(l)       == holder' = [holder EXCEPT ![l] = NoCpu]
-----------------------------------------------------------------------------
(***************************************************************************)
(* schedule().                                                             *)
(***************************************************************************)
\* grq_lock_irq turns interrupts off and spins.
Schedule(c) == Move(c, "outside", "locking") /\ UNCHANGED holder
GrqLock(c)  == Move(c, "locking", "locked") /\ Acquire(c, "grq")

\* earliest_deadline_task finds a task that is not real time: the limits are read.
PickTask(c) == Move(c, "locked", "want_lst") /\ UNCHANGED holder
LstLock(c)  == Move(c, "want_lst", "scan") /\ Acquire(c, "lst")
EndScan(c)  == Move(c, "scan", "picked") /\ Drop("lst")

\* context_switch, or the end of schedule(), releases grq.lock; with a real-time
\* task, or none, to run the limits are not looked at.
Switch(c)   == (Move(c, "locked", "outside") \/ Move(c, "picked", "outside")) /\ Drop("grq")
-----------------------------------------------------------------------------
(***************************************************************************)
(* proc_read_idlePid and proc_write_idlePid: one critical section each.    *)
(***************************************************************************)
UseList(c)    == Move(c, "outside", "want_list") /\ UNCHANGED holder
ListLock(c)   == Move(c, "want_list", "list") /\ Acquire(c, "lst")
ListUnlock(c) == Move(c, "list", "outside") /\ Drop("lst")
-----------------------------------------------------------------------------
(***************************************************************************)
(* An interrupt that wakes a task: try_to_wake_up.                         *)
(***************************************************************************)
\* spin_lock leaves interrupts on.
IrqsOn(c) == irq[c] = "none" /\ pc[c] \in {"outside", "want_list", "list"}

Interrupt(c) ==
  /\ IrqsOn(c)
  /\ irq' = [irq EXCEPT ![c] = "want"]
  /\ UNCHANGED <<pc, holder>>

IrqLock(c) ==
  /\ irq[c] = "want"
  /\ Acquire(c, "grq")
  /\ irq' = [irq EXCEPT ![c] = "hold"]
  /\ UNCHANGED pc

IrqUnlock(c) ==
  /\ irq[c] = "hold"
  /\ Drop("grq")
  /\ irq' = [irq EXCEPT ![c] = "none"]
  /\ UNCHANGED pc
-----------------------------------------------------------------------------
Next ==
  \E c \in Cpus :
    \/ Schedule(c) \/ GrqLock(c) \/ PickTask(c) \/ LstLock(c) \/ EndScan(c) \/ Switch(c)
    \/ UseList(c) \/ ListLock(c) \/ ListUnlock(c)
    \/ Interrupt(c) \/ IrqLock(c) \/ IrqUnlock(c)

Spec == Init /\ [][Next]_vars
-----------------------------------------------------------------------------
\* The locks that CPU c spins for.
Wanted(c) ==
  CASE irq[c] = "want"                                               -> {"grq"}
    [] irq[c] = "none" /\ pc[c] = "locking"                          -> {"grq"}
    [] irq[c] = "none" /\ pc[c] \in {"want_lst", "want_list"}        -> {"lst"}
    [] OTHER                                                         -> {}

\* No CPUs spin for locks that only they hold.
NoSpinCycle ==
  ~ \E stuck \in (SUBSET Cpus) \ {{}} :
      \A c \in stuck : \E l \in Wanted(c) : holder[l] \in stuck
=============================================================================
