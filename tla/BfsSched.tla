------------------------------ MODULE BfsSched ------------------------------
(***************************************************************************)
(* The BFS scheduler with idle injection: kernel/sched_bfs.c, on an SMP    *)
(* machine whose CPUs all stay online.  Each action is one critical        *)
(* section of grq.lock (or one run of the tick with interrupts off on its  *)
(* CPU), so an action is atomic because the code makes it so.              *)
(*                                                                         *)
(* The environment decides when tasks sleep, wake, fork and exit, what     *)
(* policies, nice levels and affinities are asked for, and how much time   *)
(* passes.  A set given as a constant bounds each of those choices; an     *)
(* empty set switches the operation off.                                   *)
(***************************************************************************)
EXTENDS BfsQueue

CONSTANTS
  InitTask,      \* the task records the system starts with
  SleepStates,   \* the states tasks go to sleep in
  PolicyAsks,    \* the <<policy, priority>> pairs asked of sched_setscheduler
  NiceAsks,      \* the nice levels asked of set_user_nice
  SyncAsks,      \* whether wakers pass WF_SYNC, a set of Booleans
  MaskAsks,      \* the affinity masks asked of set_cpus_allowed_ptr
  WaiterPrios,   \* the priorities of waiters for a lock that a task holds
  MayFork,       \* the tasks that may fork
  MayExit,       \* the tasks that may exit
  MayYieldTo,    \* the tasks that may call yield_to (KVM's virtual CPUs)
  ResetAsks,     \* whether SCHED_RESET_ON_FORK is asked for, a set of Booleans
  Governed,      \* the CPUs run by a frequency governor
  Watched,       \* the tasks liveness is checked for: one of those that are alike
  InitRate,      \* param.global_rate when the run starts; 0 is never reached
  RateAsks,      \* the numbers written to /proc/schedidle/sched_global
  Pid, Tgid,     \* task->pid and task->tgid
  LimitAsks,     \* the lines written to /proc/schedidle/sched_pid, see LimitAsk
  Cells,         \* bound: the memory kmalloc has for entries of the pid list
  NoCell,        \* a null pointer
  MaxNiffies,    \* bound: the clock stops here
  MaxOffset      \* bound: idle_cycles_offset counts up to here, above every rate

VARIABLES
  grq, rq, task, \* the scheduler state, see BfsQueue
  inj            \* struct sched_parameters and idle_cycles_offset

vars == <<grq, rq, task, inj>>

\* One struct pid_list: a limit on a task (type 't') or a process ('p'), and the
\* memory it occupies.
LimitRec == [cell: Cells, pid: Int, type: {"t", "p"}, max_load: Int, times: Int]

\* A line that proc_write_idlePid can parse; a negative pid takes the limit off.
LimitAsk == [pid: Int, type: {"t", "p"}, max_load: Int]

\* A write of the pid list past its search: pid_new, and f, the memory of the entry
\* that it is to replace or to take off.
WriteRec == [new: LimitRec, at: Cells \cup {NoCell}]

\* writes: the writers on their way to lst_write_lock; oops: one of them followed a
\* poisoned pointer, and the lock is never released again.
InjRec == [global_rate: Int, offset: Int, limits: Seq(LimitRec),
           writes: SUBSET WriteRec, oops: BOOLEAN]

ASSUME InitAssumption ==
  /\ InitTask \in [Tasks -> TaskRec]
  /\ \A t \in Tasks : /\ InitTask[t].state \in {"none", "interruptible"}
                      /\ ~InitTask[t].sticky /\ ~InitTask[t].on_cpu
                      /\ InitTask[t].allowed # {}
ASSUME AskAssumption ==
  /\ SleepStates \subseteq {"interruptible", "uninterruptible"}
  /\ PolicyAsks \subseteq Policies \X RtPrios
  /\ \A ask \in PolicyAsks : is_rt_policy(ask[1]) <=> ask[2] # 0
  /\ NiceAsks \subseteq Nices
  /\ MaskAsks \subseteq (SUBSET Cpus) \ {{}}
  /\ WaiterPrios \subseteq 0 .. PRIO_LIMIT
  /\ Governed \subseteq Cpus
  /\ ResetAsks \subseteq BOOLEAN /\ SyncAsks \subseteq BOOLEAN
  /\ MayFork \subseteq Tasks /\ MayExit \subseteq Tasks /\ MayYieldTo \subseteq Tasks
  /\ Watched \subseteq Tasks
ASSUME InjAssumption ==
  /\ InitRate \in Nat /\ RateAsks \subseteq Int
  /\ Pid \in [Tasks -> Nat \ {0}] /\ Tgid \in [Tasks -> Nat \ {0}]
  /\ LimitAsks \subseteq LimitAsk /\ NoCell \notin Cells
  /\ MaxNiffies \in Nat /\ MaxOffset \in Nat
  /\ \A r \in RateAsks \cup {InitRate} : r < MaxOffset
-----------------------------------------------------------------------------
sched == [grq |-> grq, rq |-> rq, task |-> task]

LiveTasks == {p \in Tasks : task[p].state \notin {"none", "new"}}

Become(s) == grq' = s.grq /\ rq' = s.rq /\ task' = s.task

\* update_clocks: the niffies counter moves on by d units (0: within a unit).
update_clocks(s, d) == [s EXCEPT !.grq.niffies = @ + d]

Advances == {d \in 0 .. 1 : grq.niffies + d <= MaxNiffies}

\* update_cpu_clock: e units of the current task's slice are used up.
update_cpu_clock(s, cpu, e) ==
  IF s.rq[cpu].policy # "fifo" /\ s.rq[cpu].curr # Idle
  THEN [s EXCEPT !.rq[cpu].time_slice = IF @ >= e THEN @ - e ELSE 0]
  ELSE s

set_rq_task(s, cpu, p) ==
  LET slice    == IF p = Idle THEN 0 ELSE s.task[p].time_slice
      deadline == IF p = Idle THEN 0 ELSE s.task[p].deadline
      policy   == IF p = Idle THEN "normal" ELSE s.task[p].policy
      prio     == IF p = Idle THEN PRIO_LIMIT ELSE s.task[p].prio
  IN  [s EXCEPT !.rq[cpu].time_slice = slice, !.rq[cpu].deadline = deadline,
                !.rq[cpu].policy = policy, !.rq[cpu].prio = prio]

reset_rq_task(s, cpu, p) ==
  [s EXCEPT !.rq[cpu].policy = s.task[p].policy, !.rq[cpu].prio = s.task[p].prio]
-----------------------------------------------------------------------------
(***************************************************************************)
(* Idle injection inside schedule().                                       *)
(***************************************************************************)
\* An entry limits p.
Limits(entry, p) ==
  \/ entry.type = "p" /\ entry.pid = Tgid[p]
  \/ entry.type = "t" /\ entry.pid = Pid[p]

\* Mutant: the count is compared before it is incremented.
Hits_Late(limits, p) ==
  {i \in DOMAIN limits : Limits(limits[i], p) /\ limits[i].times = limits[i].max_load}

\* The scan of the pid list for the chosen task: every matching entry up to and
\* including the first that reaches its max_load is counted, that one restarts
\* at 0 and the idle task runs instead.
Hits(limits, p) ==
  {i \in DOMAIN limits : Limits(limits[i], p) /\ limits[i].times + 1 = limits[i].max_load}

ScanLimits(limits, p) ==
  LET stop == {i \in DOMAIN limits : \E h \in Hits(limits, p) : h < i}
      hit(i) == i \in Hits(limits, p) /\ i \notin stop
  IN  [i \in DOMAIN limits |->
         [limits[i] EXCEPT !.times = CASE hit(i) -> 0
                                       [] ~hit(i) /\ i \notin stop /\ Limits(limits[i], p) -> @ + 1
                                       [] OTHER -> @]]

\* idle_cycles_offset once schedule() has counted itself.
NextOffset(j) == IF j.offset < MaxOffset THEN j.offset + 1 ELSE MaxOffset

\* schedule() gets as far as the pid list, for a task that is not a real time one.
Scans(s, j, cpu) ==
  /\ s.grq.qnr # 0 /\ NextOffset(j) # j.global_rate
  /\ EarliestDeadline(s, cpu) # Idle /\ ~rt_prio(FirstLevel(s, cpu))

\* The task schedule() switches to, given the state once prev is back in the
\* queue: idle when nothing is queued or the global rate is reached, idle when
\* the chosen task's limit is reached, else the task earliest_deadline_task takes.
Choose(s, j, cpu) ==
  LET offset == NextOffset(j)
      edt    == EarliestDeadline(s, cpu)
  IN  CASE s.grq.qnr = 0 \/ offset = j.global_rate ->
             [next |-> Idle, inj |-> [j EXCEPT !.offset = 0]]
        [] Scans(s, j, cpu) ->
             [next |-> IF Hits(j.limits, edt) # {} THEN Idle ELSE edt,
              inj  |-> [j EXCEPT !.offset = offset, !.limits = ScanLimits(@, edt)]]
        [] OTHER -> [next |-> edt, inj |-> [j EXCEPT !.offset = offset]]

\* The rest of schedule() once next is known: the idle map, the sticky flag (a
\* real time task unsticks prev) and the switch itself.
SwitchTo(s, cpu, prev, next) ==
  LET s1 == IF next = Idle THEN set_cpuidle_map(s, cpu)
            ELSE clear_cpuidle_map(take_task(s, cpu, next), cpu)
      s2 == IF next # Idle /\ rt_prio(s1.task[next].prio)
            THEN LET u == [s1 EXCEPT !.rq[cpu].sticky_task = NoTask]
                 IN  IF prev = Idle THEN u ELSE clear_sticky(u, prev)
            ELSE s1
      s3 == IF prev = Idle THEN s2 ELSE [s2 EXCEPT !.task[prev].on_cpu = FALSE]
      s4 == IF next = Idle THEN s3 ELSE [s3 EXCEPT !.task[next].on_cpu = TRUE]
  IN  IF prev = next THEN s1 ELSE [set_rq_task(s4, cpu, next) EXCEPT !.rq[cpu].curr = next]

\* A schedule() that has to scan the pid list needs lst_write_lock.
PickAndSwitch(s, cpu, prev) ==
  /\ Scans(s, inj, cpu) => ~inj.oops
  /\ \E pick \in {Choose(s, inj, cpu)} :
       /\ \E switched \in {SwitchTo(s, cpu, prev, pick.next)} : Become(switched)
       /\ inj' = pick.inj

\* finish_task_switch drops the last reference of a task that died: what is left
\* in its memory is given fixed values.
Bury(s, p) ==
  IF s.task[p].state = "dead"
  THEN [s EXCEPT !.task[p].state = "none", !.task[p].deadline = 0, !.task[p].time_slice = 0]
  ELSE s

\* schedule() called by the idle task: its loop does so only when need_resched.
ScheduleFromIdle(cpu) ==
  /\ rq[cpu].curr = Idle
  /\ rq[cpu].need_resched
  /\ \E d \in Advances :
       \E s \in {[update_clocks(sched, d) EXCEPT !.rq[cpu].need_resched = FALSE]} :
         PickAndSwitch(s, cpu, Idle)

\* What schedule() stores from the rq back into the task it takes off the CPU.
StoreBack(s, cpu, prev) ==
  check_deadline([s EXCEPT !.task[prev].time_slice = s.rq[cpu].time_slice,
                           !.task[prev].deadline = s.rq[cpu].deadline,
                           !.rq[cpu].need_resched = FALSE], prev)

\* Then, unless prev goes on, its way back to the queue or to sleep.
GiveBack(s, cpu, prev, deactivate, fit) ==
  LET s1 == CASE needs_other_cpu(s, prev, cpu) -> resched_suitable_idle(s, prev)
              [] ~needs_other_cpu(s, prev, cpu) /\ ~deactivate -> swap_sticky(s, cpu, prev)
              [] OTHER -> s
  IN  return_task(s1, prev, deactivate, fit)

\* The only task awaiting a CPU is prev: it goes on without a new choice, and with
\* the rq's copy of its slice, deadline and priority as it was.
Rerun(s, cpu, prev, deactivate) ==
  ~needs_other_cpu(s, prev, cpu) /\ ~deactivate /\ s.grq.qnr = 0

\* schedule() by a task that is to stay runnable (deactivate = FALSE) or to sleep;
\* s0 is the state it is called in.
ScheduleTask(cpu, deactivate, s0) ==
  \E d \in Advances, e \in 0 .. 1, fit \in BOOLEAN :
    LET prev == rq[cpu].curr
    IN  /\ fit \/ s0.task[prev].policy = "idleprio"
        /\ \E s \in {StoreBack(update_cpu_clock(update_clocks(s0, d), cpu, e), cpu, prev)} :
             IF Rerun(s, cpu, prev, deactivate)
             THEN Become(s) /\ UNCHANGED inj
             ELSE \E r \in {Bury(GiveBack(s, cpu, prev, deactivate, fit), prev)} :
                    PickAndSwitch(r, cpu, prev)

\* schedule() by a task that stays runnable: it yields, or it is preempted (with
\* PREEMPT_ACTIVE set, whatever state it has put itself in), or the signal it
\* was going to sleep for is already pending.
SchedulePreempt(cpu) ==
  /\ rq[cpu].curr \in Tasks
  /\ task[rq[cpu].curr].state # "dead"
  /\ rq[cpu].need_resched
  /\ ScheduleTask(cpu, FALSE, sched)

ScheduleYield(cpu) ==
  /\ rq[cpu].curr \in Tasks
  /\ task[rq[cpu].curr].state = "running"
  /\ ScheduleTask(cpu, FALSE, sched)

ScheduleSignalPending(cpu) ==
  /\ rq[cpu].curr \in Tasks
  /\ task[rq[cpu].curr].state = "interruptible"
  /\ ScheduleTask(cpu, FALSE, [sched EXCEPT !.task[rq[cpu].curr].state = "running"])

\* schedule() by a task that has put itself to sleep, and the last one of a task
\* that died.
ScheduleSleep(cpu) ==
  /\ rq[cpu].curr \in Tasks
  /\ task[rq[cpu].curr].state \in {"interruptible", "uninterruptible"}
  /\ ScheduleTask(cpu, TRUE, sched)

ScheduleExit(cpu) ==
  /\ rq[cpu].curr \in Tasks
  /\ task[rq[cpu].curr].state = "dead"
  /\ ScheduleTask(cpu, TRUE, sched)
-----------------------------------------------------------------------------
(***************************************************************************)
(* Sleeping, waking, forking and exiting.                                  *)
(***************************************************************************)
\* set_current_state: the running task announces that it is about to sleep, or
\* changes its mind.  No lock is held.
SetCurrentState(cpu, st) ==
  LET p == rq[cpu].curr
  IN  /\ p \in Tasks
      /\ task[p].state \in {"running", "interruptible", "uninterruptible"}
      /\ task[p].state # st
      /\ task' = [task EXCEPT ![p].state = st]
      /\ UNCHANGED <<grq, rq, inj>>

\* do_exit: the running task marks itself dead; its last schedule() follows.
Exit(cpu) ==
  LET p == rq[cpu].curr
  IN  /\ p \in MayExit
      /\ task[p].state = "running"
      /\ \A t \in Tasks : ~(task[t].state = "new" /\ task[t].parent = p)
      /\ task' = [task EXCEPT ![p].state = "dead"]
      /\ UNCHANGED <<grq, rq, inj>>

\* try_to_wake_up of a sleeping task by anyone, from any CPU or an interrupt.
TryToWakeUp(p, sync) ==
  /\ task[p].state \in {"interruptible", "uninterruptible"}
  /\ IF task_queued(sched, p) \/ task[p].on_cpu
     THEN Become([sched EXCEPT !.task[p].state = "running"])
     ELSE \E d \in Advances, fit \in BOOLEAN :
            LET cpu == task[p].cpu
                s1  == activate_task(update_clocks(sched, d), p, fit)
                s2  == IF ~sync \/ suitable_idle_cpus(s1, p)
                       THEN try_preempt(s1, p, cpu) ELSE s1
            IN  /\ fit \/ task[p].policy = "idleprio"
                /\ Become([s2 EXCEPT !.task[p].state = "running"])
  /\ UNCHANGED inj

\* sched_fork, called by the task running on cpu for its new child.
SchedFork(cpu, child) ==
  LET curr  == rq[cpu].curr
      me    == task[curr]
      reset == me.reset_on_fork
      born  == [me EXCEPT
                  !.state = "new", !.cpu = cpu, !.on_cpu = FALSE, !.sticky = FALSE,
                  !.policy = IF reset /\ is_rt_policy(@) THEN "normal" ELSE @,
                  !.nice = IF reset /\ @ < 0 THEN 0 ELSE @,
                  !.reset_on_fork = FALSE,
                  !.prio = normal_prio(me.policy, me.rt_priority),
                  !.top_waiter = PRIO_LIMIT, !.parent = curr]
      s     == [sched EXCEPT !.task[child] = born]
      half  == rq[cpu].time_slice \div 2
  IN  /\ curr \in MayFork
      /\ me.state = "running"
      /\ task[child].state = "none"
      /\ Become(CASE born.policy = "fifo" -> s
                  [] born.policy # "fifo" /\ rq[cpu].time_slice >= 2 ->
                       [s EXCEPT !.rq[cpu].time_slice = half, !.task[child].time_slice = half]
                  [] OTHER ->
                       time_slice_expired([s EXCEPT !.rq[cpu].time_slice = 0,
                                                    !.rq[cpu].need_resched = TRUE], child))
      /\ UNCHANGED inj

\* p->parent as copy_process leaves it: the task that forks, or, for a thread and
\* for CLONE_PARENT, its own parent, which is a task of another process (NoTask: one
\* that is not modelled).
ParentOf(child) ==
  LET forker == task[child].parent
  IN  {q \in LiveTasks : Tgid[q] # Tgid[forker]} \cup {NoTask}
        \cup (IF Tgid[child] = Tgid[forker] THEN {} ELSE {forker})

\* wake_up_new_task, called on cpu by the task that forks; rq is that of the CPU
\* sched_fork put the child on.
WakeUpNewTask(cpu, child) ==
  LET old == task[child].cpu
  IN  /\ task[child].state = "new"
      /\ rq[cpu].curr = task[child].parent
      /\ \E parent \in ParentOf(child) :
         \E home \in IF parent = NoTask THEN Cpus ELSE {task[parent].cpu},
            d \in Advances, fit \in BOOLEAN :
           LET born == [sched EXCEPT !.task[child].state = "running",
                                     !.task[child].cpu = home,
                                     !.task[child].parent = NoTask]
               s    == activate_task(update_clocks(born, d), child, fit)
           IN  /\ fit \/ task[child].policy = "idleprio"
               /\ Become(IF rq[old].curr = parent /\ ~suitable_idle_cpus(s, child)
                         THEN resched_cpu(s, old) ELSE try_preempt(s, child, old))
      /\ UNCHANGED inj

\* Mutant: what p is given is not capped at a full slice.
YieldTo_NoCap(cpu, from, p) ==
  LET s1 == [sched EXCEPT
               !.task[p].deadline = IF @ > rq[from].deadline THEN rq[from].deadline ELSE @,
               !.task[p].time_slice = @ + rq[from].time_slice,
               !.rq[from].time_slice = 0]
  IN  /\ rq[cpu].curr \in MayYieldTo
      /\ task[rq[cpu].curr].state = "running"
      /\ ~task[p].on_cpu /\ task[p].state \in {"running", "new"}
      /\ Become(resched_cpu(s1, from))
      /\ UNCHANGED inj

\* yield_to: the task on cpu gives what is left of a slice to p.  It reads this_rq()
\* before it takes grq.lock, and may have been moved since: the slice is that of the
\* task on from, where it was then.  The call of schedule() that follows is one of
\* the calls of ScheduleYield.
YieldTo(cpu, from, p) ==
  LET s1 == [sched EXCEPT
               !.task[p].deadline = IF @ > rq[from].deadline THEN rq[from].deadline ELSE @,
               !.task[p].time_slice = IF @ + rq[from].time_slice > SLICE THEN SLICE
                                      ELSE @ + rq[from].time_slice,
               !.rq[from].time_slice = 0]
  IN  /\ rq[cpu].curr \in MayYieldTo
      /\ task[rq[cpu].curr].state = "running"
      /\ ~task[p].on_cpu /\ task[p].state \in {"running", "new"}
      /\ Become(resched_cpu(s1, from))
      /\ UNCHANGED inj
-----------------------------------------------------------------------------
(***************************************************************************)
(* Changes of priority, policy, nice level and affinity.                   *)
(***************************************************************************)
\* Take p off the queue if it is on it, apply change, and put it back.
Requeued(s, p, change(_), fit) ==
  IF task_queued(s, p) THEN enqueue_task(change(dequeue_task(s, p)), p, fit) ELSE change(s)

\* rt_mutex_setprio: priority inheritance, when the most important waiter for the
\* locks p holds changes.
RtMutexSetprio(p, waiter) ==
  LET getprio == rt_mutex_getprio([task[p] EXCEPT !.top_waiter = waiter],
                                  normal_prio(task[p].policy, task[p].rt_priority))
      setprio(s) == [s EXCEPT !.task[p].top_waiter = waiter, !.task[p].prio = getprio]
  IN  /\ task[p].state \notin {"none", "dead"}
      /\ waiter # task[p].top_waiter
      /\ IF getprio = task[p].prio
         THEN Become([sched EXCEPT !.task[p].top_waiter = waiter])
         ELSE \E fit \in BOOLEAN :
                LET s1 == Requeued(sched, p, setprio, fit)
                    s2 == IF task[p].on_cpu /\ getprio > task[p].prio
                          THEN resched_cpu(s1, task[p].cpu) ELSE s1
                IN  /\ fit \/ task[p].policy = "idleprio"
                    /\ Become(IF task_queued(sched, p)
                              THEN try_preempt(s2, p, task[p].cpu) ELSE s2)
      /\ UNCHANGED inj

SetUserNice(p, nice) ==
  LET old == task[p].nice
      renice(s) ==
        [s EXCEPT !.task[p].deadline = (@ + DeadlineDiff[nice] - DeadlineDiff[old]) % DeadlineMod,
                  !.task[p].nice = nice,
                  !.task[p].prio = effective_prio(s.task[p])]
  IN  /\ task[p].state # "none"
      /\ nice # old
      /\ \E d \in Advances, fit \in BOOLEAN :
           LET cpu == task[p].cpu
               s0  == update_clocks(sched, d)
               s1  == Requeued(s0, p, renice, fit)
           IN  /\ fit \/ task[p].policy = "idleprio"
               /\ Become(CASE is_rt_policy(task[p].policy) -> [s0 EXCEPT !.task[p].nice = nice]
                           [] ~is_rt_policy(task[p].policy) /\ task_queued(sched, p) ->
                                IF nice < old THEN try_preempt(s1, p, cpu) ELSE s1
                           [] ~is_rt_policy(task[p].policy) /\ task[p].on_cpu ->
                                IF old < nice THEN resched_cpu(reset_rq_task(s1, cpu, p), cpu)
                                ELSE reset_rq_task(s1, cpu, p)
                           [] OTHER -> s1)
      /\ UNCHANGED inj

\* __sched_setscheduler by a privileged caller, past its argument checks.
SchedSetscheduler(p, policy, prio, reset) ==
  LET cpu    == task[p].cpu
      normal == normal_prio(policy, prio)
      new    == rt_mutex_getprio(task[p], normal)
      setscheduler(s) ==
        [s EXCEPT !.task[p].policy = policy, !.task[p].rt_priority = prio,
                  !.task[p].prio = new]
  IN  /\ task[p].state # "none"
      /\ policy # task[p].policy \/ (is_rt_policy(policy) /\ prio # task[p].rt_priority)
      /\ \E d \in Advances, fit \in BOOLEAN :
           LET s0 == [update_clocks(sched, d) EXCEPT !.task[p].reset_on_fork = reset]
               s1 == Requeued(s0, p, setscheduler, fit)
           IN  /\ fit \/ policy = "idleprio"
               /\ Become(CASE task_queued(sched, p) -> try_preempt(s1, p, cpu)
                           [] ~task_queued(sched, p) /\ task[p].on_cpu ->
                                IF new > task[p].prio \/ prio > task[p].rt_priority
                                THEN resched_cpu(reset_rq_task(s1, cpu, p), cpu)
                                ELSE reset_rq_task(s1, cpu, p)
                           [] OTHER -> s1)
      /\ UNCHANGED inj

SetCpusAllowed(p, mask) ==
  LET queued == task_queued(sched, p)
      cpu    == task[p].cpu
      s1     == [sched EXCEPT !.task[p].allowed = mask]
      s2     == CASE cpu \in mask -> s1
                  [] cpu \notin mask /\ task[p].on_cpu -> resched_cpu(s1, cpu)
                  [] OTHER -> [s1 EXCEPT !.task[p].cpu =
                                 CHOOSE c \in mask : \A e \in mask : c <= e]
  IN  /\ task[p].state # "none"
      /\ mask # task[p].allowed
      /\ Become(IF queued THEN try_preempt(s2, p, cpu) ELSE s2)
      /\ UNCHANGED inj
-----------------------------------------------------------------------------
(***************************************************************************)
(* The timer tick and the remaining entry points.                          *)
(***************************************************************************)
\* iso_ticks is left out: a tick may set the refractory flag only while a
\* SCHED_ISO task runs, and may clear it at any time it is set.
Refractory(s, cpu) ==
  {f \in BOOLEAN : \/ f = s.grq.iso_refractory
                   \/ ~f /\ (s.rq[cpu].policy = "iso" \/ ~rt_prio(s.rq[cpu].prio))
                   \/ f /\ s.rq[cpu].policy = "iso"}

\* scheduler_tick on a CPU that runs a task.  dither, decided by the last
\* schedule(), says whether a slice that ends before the next tick ends now.
SchedulerTick(cpu, e) ==
  /\ rq[cpu].prio # PRIO_LIMIT
  /\ \E dither \in BOOLEAN, refractory \in Refractory(sched, cpu) :
       LET s0 == [update_cpu_clock(sched, cpu, e) EXCEPT !.grq.iso_refractory = refractory]
           s1 == IF refractory /\ s0.rq[cpu].policy = "iso" /\ s0.rq[cpu].prio = ISO_PRIO
                 THEN [s0 EXCEPT !.rq[cpu].time_slice = 0] ELSE s0
           slice == s1.rq[cpu].time_slice
       IN  Become(CASE s1.rq[cpu].policy = "fifo" -> s1
                    [] s1.rq[cpu].policy # "fifo" /\ dither /\ slice <= HALF_JIFFY ->
                         resched_cpu([s1 EXCEPT !.rq[cpu].time_slice = 0], cpu)
                    [] s1.rq[cpu].policy # "fifo" /\ ~dither /\ slice = 0 -> resched_cpu(s1, cpu)
                    [] OTHER -> s1)
  /\ UNCHANGED inj

\* scheduler_tick on an idle CPU only lets the refractory period run out.
IdleTick(cpu) ==
  /\ rq[cpu].prio = PRIO_LIMIT
  /\ grq.iso_refractory
  /\ grq' = [grq EXCEPT !.iso_refractory = FALSE]
  /\ UNCHANGED <<rq, task, inj>>

\* wake_up_idle_cpu: a timer was added to an idle CPU.
WakeUpIdleCpu(cpu) ==
  /\ rq[cpu].curr = Idle
  /\ Become(resched_cpu(sched, cpu))
  /\ UNCHANGED inj

\* cpu_scaling and cpu_nonscaling, called by the frequency governor.
CpuScaling(cpu) ==
  /\ cpu \in Governed
  /\ rq' = [rq EXCEPT ![cpu].scaling = ~@]
  /\ UNCHANGED <<grq, task, inj>>

\* proc_write_idleGlobal.  It holds global_write_lock, which schedule() does not
\* take: the reset of idle_cycles_offset is lost when it falls between the load
\* and the store of a concurrent idle_cycles_offset++.
WriteGlobalRate(rate) ==
  /\ rate >= 2
  /\ \E offset \in {0, inj.offset} :
       inj' = [inj EXCEPT !.global_rate = rate, !.offset = offset]
  /\ UNCHANGED <<grq, rq, task>>

\* The smallest max_load that is accepted.
INJECTION_IDLE_CYCLE_PROC == 5

\* The entry that occupies cell; none if that memory is not on the list.
EntryAt(limits, cell) == {i \in DOMAIN limits : limits[i].cell = cell}

\* What kmalloc may return.  kfree has given back the memory of an entry that was
\* replaced or taken off, even if another writer still holds a pointer to it.
FreeCells ==
  Cells \ ({inj.limits[i].cell : i \in DOMAIN inj.limits} \cup {w.new.cell : w \in inj.writes})

\* proc_write_idlePid up to its lock: pid_new is filled in, and the list is searched
\* with no lock held for the first entry with that pid or its negation, whatever
\* its type.  A line below the smallest max_load, and a removal that finds nothing,
\* end here.
SearchIdlePid(ask) ==
  LET found == {i \in DOMAIN inj.limits : inj.limits[i].pid \in {ask.pid, -ask.pid}}
      first == CHOOSE i \in found : \A j \in found : i <= j
  IN  /\ ask.max_load >= INJECTION_IDLE_CYCLE_PROC
      /\ found # {} \/ ask.pid > 0
      /\ \E cell \in FreeCells :
           inj' = [inj EXCEPT !.writes = @ \cup
                     {[new |-> [cell |-> cell, pid |-> ask.pid, type |-> ask.type,
                                max_load |-> ask.max_load, times |-> 0],
                       at  |-> IF found = {} THEN NoCell ELSE inj.limits[first].cell]}]
      /\ UNCHANGED <<grq, rq, task>>

\* The list after the update w: a new entry goes to the end for a process and to the
\* head for a task, one that was found is replaced where it stands, or taken off.
UpdateLimits(limits, w) ==
  LET i == CHOOSE i \in EntryAt(limits, w.at) : TRUE
  IN  CASE w.at = NoCell /\ w.new.type = "p" -> Append(limits, w.new)
        [] w.at = NoCell /\ w.new.type = "t" -> <<w.new>> \o limits
        [] w.at # NoCell /\ w.new.pid > 0 -> [limits EXCEPT ![i] = w.new]
        [] OTHER -> [j \in 1 .. Len(limits) - 1 |-> IF j < i THEN limits[j] ELSE limits[j + 1]]

\* The rest of proc_write_idlePid, a critical section of lst_write_lock, the lock of
\* schedule()'s scan.  If the entry it found is on the list no longer its list
\* pointers are poisoned, and the writer dies with the lock held.
UpdateIdlePid(w) ==
  /\ ~inj.oops
  /\ inj' = IF w.at = NoCell \/ EntryAt(inj.limits, w.at) # {}
            THEN [inj EXCEPT !.limits = UpdateLimits(@, w), !.writes = @ \ {w}]
            ELSE [inj EXCEPT !.oops = TRUE]
  /\ UNCHANGED <<grq, rq, task>>
-----------------------------------------------------------------------------
\* The state after boot, when every CPU has gone idle once.
Init ==
  /\ grq = [queue |-> [i \in QueuePrios |-> <<>>], prio_bitmap |-> {}, qnr |-> 0,
            nr_running |-> 0, nr_uninterruptible |-> 0, cpu_idle_map |-> Cpus,
            idle_cpus |-> TRUE, niffies |-> 0, iso_refractory |-> FALSE]
  /\ rq = [c \in Cpus |->
            [curr |-> Idle, need_resched |-> FALSE, prio |-> PRIO_LIMIT,
             policy |-> "normal", deadline |-> 0, time_slice |-> 0,
             sticky_task |-> NoTask, scaling |-> FALSE]]
  /\ task = InitTask
  /\ inj = [global_rate |-> InitRate, offset |-> 0, limits |-> <<>>,
            writes |-> {}, oops |-> FALSE]

Schedule(cpu) ==
  \/ ScheduleFromIdle(cpu)
  \/ SchedulePreempt(cpu)
  \/ ScheduleYield(cpu)
  \/ ScheduleSignalPending(cpu)
  \/ ScheduleSleep(cpu)
  \/ ScheduleExit(cpu)

OnCpu(cpu) ==
  \/ Schedule(cpu)
  \/ \E st \in SleepStates \cup {"running"} : SetCurrentState(cpu, st)
  \/ Exit(cpu)
  \/ \E p \in Tasks : SchedFork(cpu, p)
  \/ \E p \in Tasks : WakeUpNewTask(cpu, p)
  \/ \E from \in Cpus, p \in Tasks : YieldTo(cpu, from, p)
  \/ \E e \in 0 .. 1 : SchedulerTick(cpu, e)
  \/ IdleTick(cpu)
  \/ WakeUpIdleCpu(cpu)
  \/ CpuScaling(cpu)

OnTask(p) ==
  \/ \E sync \in SyncAsks : TryToWakeUp(p, sync)
  \/ \E waiter \in WaiterPrios : RtMutexSetprio(p, waiter)
  \/ \E nice \in NiceAsks : SetUserNice(p, nice)
  \/ \E ask \in PolicyAsks, reset \in ResetAsks : SchedSetscheduler(p, ask[1], ask[2], reset)
  \/ \E mask \in MaskAsks : SetCpusAllowed(p, mask)

Next ==
  \/ \E cpu \in Cpus : OnCpu(cpu)
  \/ \E p \in Tasks : OnTask(p)
  \/ \E rate \in RateAsks : WriteGlobalRate(rate)
  \/ \E ask \in LimitAsks : SearchIdlePid(ask)
  \/ \E w \in inj.writes : UpdateIdlePid(w)

Spec == Init /\ [][Next]_vars

\* The calls of schedule() that nothing puts off for ever: a CPU asked to
\* reschedule gets there (from its idle loop, or on the next return from an
\* interrupt or a system call), and a dying task makes its last call.
MustSchedule(cpu) == ScheduleFromIdle(cpu) \/ SchedulePreempt(cpu) \/ ScheduleExit(cpu)

\* And time passes on a CPU that runs a task.  Nothing says that tasks are woken.
Fairness ==
  \A cpu \in Cpus : WF_vars(MustSchedule(cpu)) /\ WF_vars(SchedulerTick(cpu, 1))

FairSpec == Spec /\ Fairness
-----------------------------------------------------------------------------
(***************************************************************************)
(* Properties.                                                             *)
(***************************************************************************)
QueuedTasks  == {p \in Tasks : task_queued(sched, p)}
RunningTasks == {p \in Tasks : \E c \in Cpus : rq[c].curr = p}
SleepingTasks == LiveTasks \ (QueuedTasks \cup RunningTasks)

\* Every variable has the type its C declaration gives it.
TypeOK == sched \in SchedState /\ inj \in InjRec

\* The run queue is well formed, which the list operations of dequeue_task and
\* enqueue_task rely on and never check: a task is linked at most once, on the
\* list of its own priority (p->prio may only change while it is off the list),
\* and a bit of prio_bitmap is set exactly when its list is not empty.
QueueWellFormed ==
  /\ \A a, b \in QueuePrios : \A i \in DOMAIN grq.queue[a], j \in DOMAIN grq.queue[b] :
       grq.queue[a][i] = grq.queue[b][j] => a = b /\ i = j
  /\ \A a \in QueuePrios : \A i \in DOMAIN grq.queue[a] : task[grq.queue[a][i]].prio = a
  /\ grq.prio_bitmap = {a \in QueuePrios : grq.queue[a] # <<>>}

\* A task runs on at most one CPU and only off the queue, on_cpu and task_cpu say
\* where, and no task that wants to run is lost: one in TASK_RUNNING is queued or
\* on a CPU, one not in use (or not woken yet) is neither.
OnePlace ==
  \A p \in Tasks :
    /\ task[p].on_cpu => rq[task[p].cpu].curr = p /\ ~task_queued(sched, p)
    /\ \A c \in Cpus : rq[c].curr = p => task[p].on_cpu /\ task[p].cpu = c
    /\ task[p].state = "running" => task[p].on_cpu \/ task_queued(sched, p)
    /\ task[p].state \in {"none", "new"} => ~task[p].on_cpu /\ ~task_queued(sched, p)
    /\ task[p].state = "dead" => task[p].on_cpu

\* The counters schedule(), nr_running() and the load average use without looking
\* at the lists: queued tasks, runnable tasks, and uninterruptible sleepers.
Counters ==
  /\ grq.qnr = Cardinality(QueuedTasks)
  /\ grq.nr_running = Cardinality(QueuedTasks \cup RunningTasks)
  /\ grq.nr_uninterruptible =
       Cardinality({p \in SleepingTasks : task[p].state = "uninterruptible"})

\* try_preempt and resched_best_idle pick from cpu_idle_map without looking at
\* the CPUs: it holds exactly those running their idle task, and idle_cpus says
\* whether there is one.
IdleMapExact ==
  /\ grq.cpu_idle_map = {c \in Cpus : rq[c].curr = Idle}
  /\ grq.idle_cpus <=> grq.cpu_idle_map # {}

\* A task whose affinity excludes the CPU it runs on is on its way out.
AffinityEnforced ==
  \A c \in Cpus : rq[c].curr \in Tasks /\ c \notin task[rq[c].curr].allowed
                   => rq[c].need_resched

\* The priority of what cpu runs; an idle CPU scores as PRIO_LIMIT.
RunningPrio(cpu) == IF rq[cpu].curr = Idle THEN PRIO_LIMIT ELSE task[rq[cpu].curr].prio

\* Work is never forgotten ("RT tasks preempt purely on priority ... An idle rq
\* scores as prio PRIO_LIMIT so it is always preempted"): when every CPU a queued
\* task may use is idle or runs a task of worse priority, one of those CPUs has
\* been asked to reschedule.  IDLEPRIO tasks preempt nothing but an idle CPU.
BestTaskAdvances ==
  \A p \in QueuedTasks :
    (\A c \in task[p].allowed :
       IF task[p].policy = "idleprio" THEN rq[c].curr = Idle
       ELSE task[p].prio < RunningPrio(c))
      => \E c \in task[p].allowed : rq[c].need_resched

\* No task waits while every CPU it may use is idle and none is about to look at the
\* queue: try_preempt looks for an idle CPU before anything else, for tasks of any
\* policy, and schedule() leaves no task behind that only its own CPU would serve.
NoneStranded ==
  \A p \in QueuedTasks :
    (\A c \in task[p].allowed : rq[c].curr = Idle)
      => \E c \in task[p].allowed : rq[c].need_resched

\* "Don't stick tasks when a real time task is going to run as they may literally
\* get stuck": no queued task is bound by its sticky flag to a CPU that runs a
\* real time task.
NotStuckBehindRt ==
  \A p \in QueuedTasks : task[p].sticky => RunningPrio(task[p].cpu) >= MAX_RT_PRIO

\* A task runs at a real time priority only if its policy is real time or if a
\* real time task waits for a lock it holds.
RtPrioEarned ==
  \A p \in LiveTasks :
    rt_prio(task[p].prio) => is_rt_policy(task[p].policy) \/ rt_prio(task[p].top_waiter)

\* Priority inheritance survives everything else that sets p->prio (enqueue_task,
\* activate_task, set_user_nice, __setscheduler): while a real time task waits for
\* a lock that p holds, p is no less important.
BoostKept ==
  \A p \in LiveTasks : rt_prio(task[p].top_waiter) => task[p].prio <= task[p].top_waiter

\* The count of each pid list entry stays below its max_load, so that the test
\* "f->times == f->max_load" in earliest_deadline_task is met again and again,
\* whatever writers that overlap make of the list.
LimitsArmed ==
  \A i \in DOMAIN inj.limits : inj.limits[i].times \in 0 .. inj.limits[i].max_load - 1

\* The pool that all CPUs draw from: BfsSched implements BfsPool.
Pool == INSTANCE BfsPool WITH
  curr    <- [c \in Cpus |-> rq[c].curr],
  ready   <- QueuedTasks,
  asleep  <- SleepingTasks,
  created <- {p \in Tasks : task[p].state = "new"},
  allowed <- [p \in Tasks |-> task[p].allowed]

\* Every step of the scheduler is a step of the pool or leaves it alone.
ImplementsPool == Pool!Spec

\* A task that waits for a CPU gets one: the virtual deadline "distributes cpu
\* fairly amongst tasks of the same nice value".
Served == \A p \in Watched : p \in QueuedTasks ~> task[p].on_cpu
=============================================================================
