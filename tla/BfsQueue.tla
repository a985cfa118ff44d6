------------------------------ MODULE BfsQueue ------------------------------
(***************************************************************************)
(* The data of the BFS scheduler (kernel/sched_bfs.c) and the helpers that *)
(* work on it while grq.lock is held.  A scheduler state s is a record     *)
(*                                                                         *)
(*   s.grq   struct global_rq: the one run queue all CPUs share            *)
(*   s.rq    struct rq, one per CPU: what runs there, and cached data      *)
(*   s.task  the scheduling fields of struct task_struct                   *)
(*                                                                         *)
(* and every helper of the C code that changes such data is an operator    *)
(* from states to states, so that a handler reads like its C body.         *)
(*                                                                         *)
(* Abstractions of data.  Time slices are counted in units of RESCHED_US,  *)
(* so that "less than RESCHED_US left" is 0 (what is left below zero is no *)
(* different from 0).  niffies and deadlines are counted in coarse units.  *)
(* The idle task of each CPU is the value Idle: with no CPU hotplug it is  *)
(* never queued and has no record of its own.                              *)
(***************************************************************************)
EXTENDS Integers, Sequences, FiniteSets

CONSTANTS
  Tasks,         \* the task_structs other than the idle tasks
  NCPU,          \* number of CPUs
  Idle,          \* the idle task, as a value of rq->curr
  NoTask,        \* the NULL task pointer
  MAX_RT_PRIO,   \* real time priorities are 0 .. MAX_RT_PRIO - 1
  Nices,         \* the nice levels in use
  DeadlineDiff,  \* prio_deadline_diff: nice level -> offset of the deadline
  DeadlineMod,   \* deadlines are u64: arithmetic on them is modulo this
  SLICE,         \* timeslice(), in units of RESCHED_US
  HALF_JIFFY,    \* HALF_JIFFY_US, in the same units
  Locality,      \* rq->cpu_locality: distance between two CPUs, 0 .. 4
  SmtSiblings,   \* rq->smt_siblings
  CacheSiblings  \* rq->cache_siblings

Cpus == 0 .. NCPU - 1

ASSUME CpuAssumption == NCPU \in Nat \ {0}
ASSUME TaskAssumption ==
  /\ IsFiniteSet(Tasks)
  /\ Idle \notin Tasks
  /\ NoTask \notin Tasks
  /\ NoTask # Idle
ASSUME PrioAssumption == MAX_RT_PRIO \in Nat \ {0}
ASSUME DeadlineAssumption ==
  /\ 0 \in Nices
  /\ Nices \subseteq -20 .. 19
  /\ DeadlineDiff \in [Nices -> Nat]
  /\ DeadlineMod \in Nat \ {0}
ASSUME SliceAssumption == SLICE \in Nat \ {0} /\ HALF_JIFFY \in Nat
ASSUME TopologyAssumption ==
  /\ Locality \in [Cpus -> [Cpus -> 0 .. 4]]
  /\ SmtSiblings \in [Cpus -> SUBSET Cpus]
  /\ CacheSiblings \in [Cpus -> SUBSET Cpus]
-----------------------------------------------------------------------------
(***************************************************************************)
(* Priorities, policies and the types of the three structures.             *)
(***************************************************************************)
ISO_PRIO    == MAX_RT_PRIO
NORMAL_PRIO == MAX_RT_PRIO + 1
IDLE_PRIO   == MAX_RT_PRIO + 2
PRIO_LIMIT  == MAX_RT_PRIO + 3

QueuePrios == 0 .. PRIO_LIMIT - 1
RtPrios    == 0 .. MAX_RT_PRIO - 1

Policies == {"normal", "batch", "fifo", "rr", "iso", "idleprio"}

\* "none" is a task_struct not in use, "new" one between sched_fork and
\* wake_up_new_task (TASK_RUNNING in the code, which no waker matches).
TaskStates == {"none", "new", "running", "interruptible", "uninterruptible", "dead"}

TaskRec ==
  [state: TaskStates, policy: Policies, rt_priority: RtPrios, nice: Nices,
   prio: QueuePrios, deadline: Nat, time_slice: 0 .. SLICE, sticky: BOOLEAN,
   cpu: Cpus, allowed: SUBSET Cpus, on_cpu: BOOLEAN, top_waiter: 0 .. PRIO_LIMIT,
   reset_on_fork: BOOLEAN, parent: Tasks \cup {NoTask}]

RqRec ==
  [curr: Tasks \cup {Idle}, need_resched: BOOLEAN, prio: 0 .. PRIO_LIMIT,
   policy: Policies, deadline: Nat, time_slice: 0 .. SLICE,
   sticky_task: Tasks \cup {NoTask}, scaling: BOOLEAN]

GrqRec ==
  [queue: [QueuePrios -> Seq(Tasks)], prio_bitmap: SUBSET QueuePrios,
   qnr: Int, nr_running: Int, nr_uninterruptible: Int,
   cpu_idle_map: SUBSET Cpus, idle_cpus: BOOLEAN,
   niffies: Nat, iso_refractory: BOOLEAN]

SchedState == [grq: GrqRec, rq: [Cpus -> RqRec], task: [Tasks -> TaskRec]]

is_rt_policy(policy) == policy \in {"fifo", "rr"}
rt_prio(prio)        == prio < MAX_RT_PRIO

normal_prio(policy, rt_priority) ==
  CASE is_rt_policy(policy)  -> MAX_RT_PRIO - 1 - rt_priority
    [] policy = "idleprio"   -> IDLE_PRIO
    [] policy = "iso"        -> ISO_PRIO
    [] OTHER                 -> NORMAL_PRIO

\* Mutant: inheritance is not looked at.
effective_prio_NoBoost(p) == normal_prio(p.policy, p.rt_priority)

effective_prio(p) ==
  IF rt_prio(p.prio) THEN p.prio ELSE normal_prio(p.policy, p.rt_priority)

\* Mutant: a boosted task stays boosted.
rt_mutex_getprio_Sticky(p, normal) == IF p.prio < normal THEN p.prio ELSE normal

\* rt_mutex_getprio: a task runs at the priority of the most important waiter for
\* a lock it holds (PRIO_LIMIT: nobody waits) when that is better than its own.
rt_mutex_getprio(p, normal) == IF p.top_waiter < normal THEN p.top_waiter ELSE normal

\* prio_deadline_diff of the largest nice level.
longest_deadline_diff == DeadlineDiff[CHOOSE n \in Nices : \A m \in Nices : m <= n]
-----------------------------------------------------------------------------
(***************************************************************************)
(* The run queue.                                                          *)
(***************************************************************************)
InQueue(q, p) == \E i \in DOMAIN q : q[i] = p

\* task_queued: the task's run_list node is linked.
task_queued(s, p) == \E prio \in QueuePrios : InQueue(s.grq.queue[prio], p)

\* list_del of the one node of p.
Unlink(q, p) ==
  LET i == CHOOSE j \in DOMAIN q : q[j] = p
  IN  [j \in 1 .. Len(q) - 1 |-> IF j < i THEN q[j] ELSE q[j + 1]]

\* Mutant: the bit of a list that becomes empty stays set.
dequeue_task_KeepBit(s, p) ==
  LET prio == s.task[p].prio
  IN  [s EXCEPT !.grq.queue[prio] = Unlink(s.grq.queue[prio], p)]

dequeue_task(s, p) ==
  LET prio == s.task[p].prio
      rest == Unlink(s.grq.queue[prio], p)
  IN  [s EXCEPT !.grq.queue[prio] = rest,
                !.grq.prio_bitmap = IF rest = <<>> THEN @ \ {prio} ELSE @]

\* The priority a task is queued with.  Whether an IDLEPRIO task is fit to run
\* at that priority (idleprio_suitable: not freezing, no signal, not exiting,
\* not about to sleep uninterruptibly) is the argument fit.
EnqueuePrio(s, p, fit) ==
  LET t == s.task[p]
  IN  CASE rt_prio(t.prio) -> t.prio
        [] ~rt_prio(t.prio) /\ ( \/ t.policy = "idleprio" /\ fit
                                       /\ t.state # "uninterruptible"
                                 \/ t.policy = "iso" /\ ~s.grq.iso_refractory )
             -> normal_prio(t.policy, t.rt_priority)
        [] OTHER -> NORMAL_PRIO

\* Mutant: list_add for list_add_tail.
enqueue_task_AtHead(s, p, fit) ==
  LET prio == EnqueuePrio(s, p, fit)
  IN  [s EXCEPT !.task[p].prio = prio,
                !.grq.queue[prio] = <<p>> \o @,
                !.grq.prio_bitmap = @ \cup {prio}]

enqueue_task(s, p, fit) ==
  LET prio == EnqueuePrio(s, p, fit)
  IN  [s EXCEPT !.task[p].prio = prio,
                !.grq.queue[prio] = Append(@, p),
                !.grq.prio_bitmap = @ \cup {prio}]

inc_qnr(s) == [s EXCEPT !.grq.qnr = @ + 1]
dec_qnr(s) == [s EXCEPT !.grq.qnr = @ - 1]

activate_task(s, p, fit) ==
  LET s1 == [s EXCEPT !.task[p].prio = effective_prio(s.task[p]),
                      !.grq.nr_uninterruptible =
                          IF s.task[p].state = "uninterruptible" THEN @ - 1 ELSE @]
      s2 == enqueue_task(s1, p, fit)
  IN  [inc_qnr(s2) EXCEPT !.grq.nr_running = @ + 1]

clear_sticky(s, p) == [s EXCEPT !.task[p].sticky = FALSE]

\* Mutant: the load contribution of the sleeper is forgotten.
deactivate_task_NoLoad(s, p) ==
  [s EXCEPT !.grq.nr_running = @ - 1, !.task[p].sticky = FALSE]

deactivate_task(s, p) ==
  [s EXCEPT !.grq.nr_uninterruptible =
                IF s.task[p].state = "uninterruptible" THEN @ + 1 ELSE @,
            !.grq.nr_running = @ - 1,
            !.task[p].sticky = FALSE]

\* Mutant: the task is not taken off the list.
take_task_NoDequeue(s, cpu, p) == dec_qnr(clear_sticky([s EXCEPT !.task[p].cpu = cpu], p))

take_task(s, cpu, p) ==
  LET s1 == dequeue_task([s EXCEPT !.task[p].cpu = cpu], p)
  IN  dec_qnr(clear_sticky(s1, p))

\* Mutant: the queue grows and qnr does not.
return_task_NoQnr(s, p, deactivate, fit) ==
  IF deactivate THEN deactivate_task(s, p) ELSE enqueue_task(s, p, fit)

return_task(s, p, deactivate, fit) ==
  IF deactivate THEN deactivate_task(s, p) ELSE enqueue_task(inc_qnr(s), p, fit)
-----------------------------------------------------------------------------
(***************************************************************************)
(* Idle CPUs and rescheduling.  TIF_NEED_RESCHED is only ever set on the   *)
(* task a CPU is running and is cleared when that task is switched out, so *)
(* it is kept with the CPU.                                                *)
(***************************************************************************)
set_cpuidle_map(s, cpu) ==
  [s EXCEPT !.grq.cpu_idle_map = @ \cup {cpu}, !.grq.idle_cpus = TRUE]

\* Mutant: idle_cpus is cleared whenever one CPU leaves.
clear_cpuidle_map_Flag(s, cpu) ==
  [s EXCEPT !.grq.cpu_idle_map = @ \ {cpu}, !.grq.idle_cpus = FALSE]

clear_cpuidle_map(s, cpu) ==
  LET rest == s.grq.cpu_idle_map \ {cpu}
  IN  [s EXCEPT !.grq.cpu_idle_map = rest,
                !.grq.idle_cpus = IF rest = {} THEN FALSE ELSE @]

suitable_idle_cpus(s, p) ==
  s.grq.idle_cpus /\ s.task[p].allowed \cap s.grq.cpu_idle_map # {}

resched_cpu(s, cpu) == [s EXCEPT !.rq[cpu].need_resched = TRUE]

\* The CPUIDLE_* ranking of an idle CPU as seen from CPU from: lower is better.
Ranking(s, from, cpu) ==
  LET idle(siblings) == siblings \subseteq s.grq.cpu_idle_map
  IN  (CASE Locality[from][cpu] > 3 -> 32
         [] Locality[from][cpu] = 3 -> 8
         [] Locality[from][cpu] = 2 -> 2
         [] Locality[from][cpu] = 1 -> 1
         [] OTHER                   -> 0)
      + (IF idle(CacheSiblings[cpu]) THEN 0 ELSE 4)
      + (IF idle(SmtSiblings[cpu]) THEN 0 ELSE 16)

\* The CPU of a non-empty mask that resched_best_mask settles on: best itself if
\* it is in the mask, else the lowest ranking, else the lowest CPU number.
BestOfMask(s, best, from, mask) ==
  IF best \in mask THEN best
  ELSE CHOOSE c \in mask : \A d \in mask :
         Ranking(s, from, c) * NCPU + c <= Ranking(s, from, d) * NCPU + d

resched_best_mask(s, best, from, mask) ==
  resched_cpu(s, BestOfMask(s, best, from, mask))

\* Mutant: any idle CPU will do, allowed or not.
resched_best_idle_Anywhere(s, p) ==
  resched_best_mask(s, s.task[p].cpu, s.task[p].cpu, s.grq.cpu_idle_map)

resched_best_idle(s, p) ==
  resched_best_mask(s, s.task[p].cpu, s.task[p].cpu,
                    s.task[p].allowed \cap s.grq.cpu_idle_map)

resched_suitable_idle(s, p) ==
  IF suitable_idle_cpus(s, p) THEN resched_best_idle(s, p) ELSE s

resched_closest_idle(s, cpu, p) ==
  LET mask == (s.task[p].allowed \cap s.grq.cpu_idle_map) \ {cpu}
  IN  IF mask = {} THEN s ELSE resched_best_mask(s, cpu, cpu, mask)

swap_sticky(s, cpu, p) ==
  LET last == s.rq[cpu].sticky_task
      s1   == IF last \in Tasks \ {p} /\ s.task[last].sticky
              THEN resched_closest_idle(clear_sticky(s, last), cpu, last)
              ELSE s
  IN  CASE last = p -> [s EXCEPT !.task[p].sticky = TRUE]
        [] last # p /\ ~rt_prio(s.task[p].prio) ->
             [s1 EXCEPT !.task[p].sticky = TRUE, !.rq[cpu].sticky_task = p]
        [] OTHER -> [resched_closest_idle(s1, cpu, p) EXCEPT !.rq[cpu].sticky_task = NoTask]

\* Mutant: a better priority must have an earlier deadline as well.
can_preempt_Both(p, prio, deadline) == p.prio <= prio /\ p.deadline < deadline

can_preempt(p, prio, deadline) ==
  p.prio < prio \/ (p.prio = prio /\ p.deadline < deadline)

\* The rq that try_preempt's loop over the allowed CPUs (in CPU order) ends with:
\* of those worse than where it starts, the worst priority, then the latest
\* deadline, then the first; this_rq, taken to have p's priority, if none is.
PreemptTarget(s, p, this_cpu) ==
  LET at(c)      == [prio |-> s.rq[c].prio, deadline |-> s.rq[c].deadline, cpu |-> c]
      start      == [at(this_cpu) EXCEPT !.prio = s.task[p].prio]
      worse(a, b) == a.prio > b.prio \/ (a.prio = b.prio /\ a.deadline > b.deadline)
      found      == {c \in s.task[p].allowed : worse(at(c), start)}
  IN  IF found = {} THEN start
      ELSE at(CHOOSE c \in found : \A d \in found \ {c} :
                worse(at(c), at(d)) \/ (~worse(at(d), at(c)) /\ c < d))

\* Mutant: the test that an IDLEPRIO task preempts nothing comes before the search
\* for an idle CPU.
try_preempt_IdleprioFirst(s, p, this_cpu) ==
  LET s1     == clear_sticky(s, p)
      target == PreemptTarget(s1, p, this_cpu)
  IN  CASE s1.task[p].policy = "idleprio" -> s1
        [] s1.task[p].policy # "idleprio" /\ suitable_idle_cpus(s1, p) -> resched_best_idle(s1, p)
        [] /\ s1.task[p].policy # "idleprio" /\ ~suitable_idle_cpus(s1, p)
           /\ can_preempt(s1.task[p], target.prio, s1.rq[target.cpu].deadline)
             -> resched_cpu(s1, target.cpu)
        [] OTHER -> s1

try_preempt(s, p, this_cpu) ==
  LET s1     == clear_sticky(s, p)
      target == PreemptTarget(s1, p, this_cpu)
  IN  CASE suitable_idle_cpus(s1, p) -> resched_best_idle(s1, p)
        [] /\ ~suitable_idle_cpus(s1, p)
           /\ s1.task[p].policy # "idleprio"
           /\ can_preempt(s1.task[p], target.prio, s1.rq[target.cpu].deadline)
             -> resched_cpu(s1, target.cpu)
        [] OTHER -> s1
-----------------------------------------------------------------------------
(***************************************************************************)
(* Deadlines and the choice of the next task.                              *)
(***************************************************************************)
time_slice_expired(s, p) ==
  [s EXCEPT !.task[p].time_slice = SLICE,
            !.task[p].deadline = s.grq.niffies + DeadlineDiff[s.task[p].nice]]

check_deadline(s, p) ==
  IF s.task[p].time_slice = 0 \/ s.task[p].policy = "batch"
  THEN time_slice_expired(s, p) ELSE s

\* Mutant: affinity is not checked.
needs_other_cpu_Never(s, p, cpu) == FALSE

needs_other_cpu(s, p, cpu) == cpu \notin s.task[p].allowed

\* A sticky task that last ran elsewhere: skipped by a CPU whose frequency is
\* scaled down, disadvantaged by every other CPU.
AwayFromHome(s, p, cpu) == s.task[p].cpu # cpu /\ s.task[p].sticky

EffectiveDeadline(s, p, cpu) ==
  IF AwayFromHome(s, p, cpu)
  THEN (s.task[p].deadline + longest_deadline_diff) % DeadlineMod
  ELSE s.task[p].deadline

\* Positions of the queue of priority prio whose task cpu may take.
Eligible(s, prio, cpu) ==
  LET q == s.grq.queue[prio]
  IN  {i \in DOMAIN q :
         /\ ~needs_other_cpu(s, q[i], cpu)
         /\ rt_prio(prio) \/ ~(AwayFromHome(s, q[i], cpu) /\ s.rq[cpu].scaling)}

\* The first priority level whose bit is set and that has an eligible task,
\* PRIO_LIMIT when there is none.
FirstLevel(s, cpu) ==
  LET levels == {prio \in s.grq.prio_bitmap : Eligible(s, prio, cpu) # {}}
  IN  IF levels = {} THEN PRIO_LIMIT
      ELSE CHOOSE l \in levels : \A m \in levels : l <= m

\* earliest_deadline_task up to the choice of edt: the first task queued among
\* real time tasks, the earliest deadline (first queued on a tie) otherwise.
EarliestDeadline(s, cpu) ==
  LET level  == FirstLevel(s, cpu)
      q      == s.grq.queue[level]
      el     == Eligible(s, level, cpu)
      dl(i)  == IF rt_prio(level) THEN 0 ELSE EffectiveDeadline(s, q[i], cpu)
      before(i, j) == dl(i) < dl(j) \/ (dl(i) = dl(j) /\ i <= j)
  IN  IF level = PRIO_LIMIT THEN Idle
      ELSE q[CHOOSE i \in el : \A j \in el : before(i, j)]
=============================================================================
