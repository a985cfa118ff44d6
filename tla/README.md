# A TLA+ model of the BFS scheduler with idle injection and of the Heart Rate Monitor

The repository is Linux 3.2.6 with three additions: the BFS CPU scheduler, an
*idle injection* mechanism inside it (the log prefix is BFSIDLEINJ) that trades
throughput for core temperature, and HRM, a heart rate monitor that measures the
progress of applications. This directory models the parts that carry the
repository's own logic: `linux-3.2.6-bfs/kernel/sched_bfs.c`, and HRM from
`linux-3.2.6-bfs/kernel/hrm.c` to its library in `tools/libhrm`.

In what follows a path without a directory is under `linux-3.2.6-bfs/kernel/`.

## 1. Inventory

| Component | State | Operations | Talks to |
| --- | --- | --- | --- |
| Global run queue | `grq`: a list per priority, `prio_bitmap`, `qnr`, `nr_running`, `nr_uninterruptible`, `cpu_idle_map`, `idle_cpus`, `niffies`, `iso_refractory` | `enqueue_task`, `dequeue_task`, `take_task`, `return_task`, `activate_task`, `deactivate_task`, idle map, `earliest_deadline_task` | everything below, under `grq.lock` |
| CPUs | `struct rq`: `curr`, cached `rq_prio`, `rq_deadline`, `rq_time_slice`, `rq_policy`, `sticky_task`, `scaling`; `need_resched` of the current task | `schedule`, `scheduler_tick`, idle loop, `cpu_scaling` | flag each other with `need_resched` |
| Tasks | `prio`, `policy`, `deadline`, `time_slice`, `sticky`, `cpus_allowed`, `on_cpu`, `state` | `try_to_wake_up`, `sched_fork`, `wake_up_new_task`, exit, `yield`, `yield_to`, `set_user_nice`, `sched_setscheduler`, `rt_mutex_setprio`, `set_cpus_allowed_ptr` | queue, CPUs, rt mutexes |
| Idle injection | `param.global_rate`, `idle_cycles_offset`, the pid list (pid, type, `max_load`, `times`) | the tests inside `schedule` and `earliest_deadline_task`; `proc_write_idleGlobal`, `proc_write_idlePid` | `schedule` under `grq.lock` and `lst_write_lock`; user space through `/proc/schedidle` |
| Clocks | `niffies`, `rq->clock`, `last_tick`, `dither` | `update_clocks`, `update_cpu_clock` | slices and deadlines |
| SCHED_ISO accounting | `iso_ticks`, `iso_refractory` | `iso_tick`, `no_iso_tick` | `enqueue_task`, the tick |
| Completions, wait queues | `x->done`, the wait list | `complete`, `wait_for_common`, `__wake_up_common` | `try_to_wake_up` |
| HRM groups (`hrm.c`) | by group: producers, consumers, a bitmap of counter slots, the counters, history and ring of samples, measures, goal, timer, references to mappings | add and delete producers and consumers, the measuring timer, heart rate queries; `do_exit` leaves all groups, `copy_process` starts with none | `hrm_groups_lock`, `members_lock`, `goal_lock` in a page shared with user space |
| HRM procfs (`fs/proc/hrm.c`) | none of its own | join and leave by writing a gid, the four `mmap` operations, `hrm_show` | HRM groups |
| libhrm (`tools/libhrm`) | a monitor: addresses of the counter, the measures, the goal | attach, detach, heartbeat, add and delete windows, set and unset the goal, readers | procfs, then the shared pages without any system call |
| CPU hotplug, scheduling domains, accounting, the rest of Linux | | | |

What is hard about it:

* *Interleavings.* One lock, but every CPU, every interrupt and every task calls in;
  a task announces that it sleeps (`set_current_state`) without the lock; a preempted
  task may be queued in a sleeping state.
* *Cached state.* CPUs are compared through `rq_prio` and `rq_deadline`, copies that
  only `schedule` and `reset_rq_task` refresh; idle CPUs through a map.
* *Soft decisions.* A waker flags one CPU and forgets; nothing looks again until the
  next event. Sticky tasks, scaled CPUs and injected idle cycles all break the
  assumption that an idle CPU means an empty queue.
* *Unlocked parameters.* The proc files write what `schedule` reads under other locks.
* *Locks and interrupts.* `schedule` nests `lst_write_lock` in `grq.lock`; the proc files take
  the inner one with interrupts on.
* *Life of an HRM group.* A group is created by the first member, whatever its role, and
  freed by the last one, while its timer runs and other tasks look it up, map it, fail
  half way or are killed. Slots are handed out under one lock and released under none.

What makes it correct: no task is lost or runs twice; lists, bitmap, counters and the
idle map agree; affinity and priorities are obeyed; boosts last as long as they are
due; a limit on the pid list keeps working; a waiting task gets a CPU in the end. An
HRM group lives exactly as long as it has members, its timer no longer; each producer
has a slot of its own; every heartbeat is counted once and shows up in the measures.
`PROJECT.json` lists the hazards one by one, with the property that is aimed at each.

## 2. Modules

| Module | Contents |
| --- | --- |
| `BfsQueue` | The data structures as records and the helpers that run under `grq.lock`, as operators from state to state with the C names |
| `BfsSched` | The state machine: one action per entry point, the properties |
| `BfsPool` | Abstract specification: one pool of ready tasks, each CPU takes from it |
| `MCBfsSched` | Small instances: topology, initial tasks, requests |
| `InjLocks` | The two spin locks of idle injection, with interrupts; its own instance |
| `HrmWindow` | Ring of samples, measures and window table of one HRM group: operators |
| `HrmGroup` | The state machine of HRM: kernel, proc files, library, timer, fork and exit |
| `MCHrm` | Instances of `HrmGroup` |
| `BfsQueueProofs` | Lemmas on the helpers of `BfsQueue`: types, what they leave alone |
| `BfsSchedProofs` | Types, idle map and pid list of `BfsSched` |
| `BfsPlaceProofs` | Lists, places of tasks and counters of `BfsSched`; `BfsSched` implements `BfsPool` |
| `BfsPrioProofs` | Affinity and priorities of `BfsSched` |
| `BfsAdvanceProofs` | No queued task of `BfsSched` is forgotten by the CPUs it may use |
| `BfsPoolProofs` | `BfsPool` itself |
| `HrmGroupProofs` | The operators of `HrmWindow` and `HrmGroup` (lists, sums, the ring); types, life of groups and timer of `HrmGroup` |
| `HrmDataProofs` | Measures, mappings, slots and heartbeats of `HrmGroup` |

How state and actions of the scheduler correspond to the code:

* The variables `grq`, `rq`, `task` are `struct global_rq`, `struct rq` of each CPU and the
  scheduling fields of `struct task_struct`; `inj` is the state of the injection. A helper
  takes and returns a record of the first three, so that an action composes helpers in
  the order in which the C function calls them, and `Become` assigns the result.
* An action is one critical section of `grq.lock`. `SetCurrentState`, `Exit`, the proc
  writes and the governor's `CpuScaling` happen outside that lock and are actions of
  their own. `scheduler_tick` runs with interrupts off and touches its own CPU's `rq`.
* `schedule` is split by why it is called: from the idle loop (`ScheduleFromIdle`), by
  preemption, by yield, with a signal pending, to sleep, to die. All but the first share
  `ScheduleTask`: store back, refresh the deadline, rerun or give back, choose, switch.
* `yield_to` drops the lock before it calls `schedule`; that call is the one that
  `need_resched`, which it has set, asks for.
* `Choose` holds the injection: the global counter, then the scan of the pid list for
  the task that was chosen from a queue that is not real time.
* `WriteGlobalRate` either resets `idle_cycles_offset` or loses the reset, because the
  code resets it under another lock than the one `schedule` increments it under.
* `proc_write_idlePid` is two actions, because it searches the pid list with no lock and
  takes `lst_write_lock` only to change it. `SearchIdlePid` ends at the lock with the new
  entry and the address of the one that was found; any number of writers can be there
  (`inj.writes`). `UpdateIdlePid` is the critical section. Addresses are `Cells`: an entry
  occupies one, `kfree` gives it back, and a later writer may get it. A writer that comes to
  an entry which is on the list no longer follows poisoned pointers: `inj.oops`, after
  which `lst_write_lock` is never released, so that no other writer, and no `schedule` that
  has to scan the list (`Scans`), goes on.
* `YieldTo(cpu, from, p)`: `yield_to` reads `this_rq()` before it takes the lock, and the caller may
  have been preempted and moved in between, so the slice is taken from any CPU.
* `WakeUpNewTask` compares with `p->parent`, which `ParentOf` gives: the task that forks, or its own
  parent if the child is a thread or was cloned with CLONE_PARENT. That one is a task of
  another process, or `NoTask` for one outside the instance.
* `InjLocks` looks at the same `schedule` and proc files between acquiring and releasing
  locks: a place of the task and one of the interrupt handler for each CPU.

How those of HRM do:

* `group[g]` is `struct hrm_group` with its two shared pages. `joined` is the lists of
  memberships of a task, newest first, and `mapped` what user addresses they hold.
* A task is at a place `loc[t].pc` with the local variables that matter there: the sum that
  will be stored in the history, the bitmap word as loaded, a window size. Every file
  operation refuses a task other than `current`, so a task's own steps never interleave
  with each other.
* `hrm_groups_lock` is the variable `lock`. What happens under `members_lock` or `goal_lock` is
  one step; what happens to the bitmap and the history outside `members_lock` is a load and
  a store (`AddProducer` and `LinkProducer`; `Leaving`, `Fold` and `Release`).
* `hrm_attach` is `AddProducer`, `LinkProducer` or `AddConsumer`, then two `Mmap`, each of which
  may fail and then leaves the group. `Exit` may come at any place outside the kernel.
* Leaving: `Detach` or `ExitGroups`, `Fold`, `Release`, `Unlink`, and for the last member `Destroy`,
  which waits in `hrtimer_cancel`. An exiting task holds the lock all the way.
* The timer of a group is queued (`armed`) or in its callback (`running`); `TimerBody` is the
  callback under `members_lock`: sum, sample, measure, advance, restart.
* History variables: `beats` counts the heartbeats sent to the group, `samples` are the last
  samples in order; the measures are compared with both.

Abstractions of data: slices are counted in units of `RESCHED_US` (0 is "expired"),
deadlines in coarse units and modulo `DeadlineMod` where the code's `u64` arithmetic can
wrap; `idleprio_suitable` is a free choice `fit`, `dither` and the ISO refractory flag
are free within what the code allows; the environment's requests come from sets given
as constants. `MAX_RT_PRIO` is 2 in the instances: one real time level above another
one, plus ISO, normal and idle priorities.

## 3. Runs

`hrm*` runs check `MCHrm`, `inj_locks` checks `InjLocks`, the others `MCBfsSched`. Sizes are
distinct states.

| Run | Checks | Instance | States |
| --- | --- | --- | --- |
| `smp` | `TypeOK`, `OnePlace`, `Counters`, `IdleMapExact`, `BestTaskAdvances`, `ImplementsPool` | 2 CPUs, 2 normal tasks, 1 SCHED_FIFO task, uninterruptible sleep, yield_to | 96 988 |
| `affinity` | `AffinityEnforced`, `BestTaskAdvances` | 2 CPUs, 2 tasks, all masks, sync wakeups, CPU 1 under a governor | 243 720 |
| `pi` | `QueueWellFormed`, `RtPrioEarned`, `BoostKept`, `NoneStranded` | 1 CPU, 2 tasks, SCHED_RR, ISO, IDLEPRIO, waiters of the top priority and none | 114 006 |
| `inject` | `Counters`, `LimitsArmed`, `ImplementsPool` | 1 CPU, 2 tasks of which one forks and exits, renice, no sleep, global rate 2, a limit written and taken off by overlapping writers, memory for 3 entries | 99 992 |
| `fair` | `Served` | 2 CPUs, 3 CPU-bound tasks, clock 0..1, no injection | 19 160 |
| `hrm` | `TimerSafe`, `SlotsOwned`, `BeatsKept`, `LeaveEnds`, `BeatsPublished` | 2 producers of one process that attach, beat, exit and are born again; 2 slots | 57 863 |
| `hrm_window` | `TypeOK`, `GroupsExact`, `TimerKept`, `MapsCurrent`, `MeasuresRight` | a producer that attaches and detaches, a consumer that exits, mmaps that fail, windows of 1 and 2 periods in a table of one, a ring of 4 | 939 888 |

`ImplementsPool` is the refinement of `BfsPool`: the mapping forgets priorities, deadlines
and counters and keeps what each CPU runs, who is queued, who sleeps, who is being
created and the masks. `inject` checks it with injected cycles, forks and exits, `smp` with
two CPUs that take from the pool, sleep, wakeups and preemption.

In `inject` the writers of the pid list overlap: in some of its states a pid has two entries, in
others a writer has died inside `lst_write_lock`. That each pid has one entry is therefore
not a property of this code, and none is stated; `LimitsArmed` holds of every entry all the same,
twins included. The limit is one for a process; where an entry for a single task goes and
whom it matches differs (`UpdateLimits`, `Limits`), and `LimitsStayArmed` covers both.

Five runs expect a violation; each states what a comment, a document or the output of the code says and shows a
behaviour of the code that disagrees (`findings` in `PROJECT.json` quotes the lines):

| Run | What happens |
| --- | --- |
| `inject_stall` | An injected idle cycle leaves tasks queued and nobody flags the CPU: the idle loop calls `schedule` only on `need_resched`, so the tasks can wait for ever. The rate is 5, the value meant "to avoid deadlock of the system". |
| `stuck_behind_rt` | `unstick_task` clears the flag of the task that is switched out and forgets `rq->sticky_task`; a task made sticky earlier stays bound to the CPU of a real time task. |
| `rt_inversion` | `rt_mutex_setprio` does not refresh `rq_prio` of a running task, and a switch from a task to itself does not either; a better task that wakes up then waits behind a worse one. |
| `inj_locks` | CPU 0 is in `schedule`, holds `grq.lock` and spins for `lst_write_lock`; CPU 1 holds that lock in a proc file and is interrupted by a wakeup that spins for `grq.lock`. |
| `hrm_recount` | A producer detaches, its count goes into the history, and attaches again while a consumer keeps the group: it gets the same slot with the old count in it, and its heartbeats are counted twice. |

`BestTaskAdvances` therefore holds of plain tasks with fixed masks (`smp`) and of tasks of one
priority whose masks change (`affinity`); it fails with priority inheritance (`rt_inversion`) and
when the mask of a running real time task changes: in the instance of `affinity` with one of the tasks
SCHED_FIFO, `schedule` flags an idle CPU for the task that must leave (line 3449) and, with
none idle, queues it behind a normal task on the CPU it may use now. `NoneStranded`, which asks
about idle CPUs only, holds in all these instances. `Served` holds without injection and without `yield_to`
(`fair`). With `MayYieldTo` set for two tasks `Served` fails: they pass an early deadline back
and forth. With `ResetAsks` TRUE and a SCHED_RR parent `RtPrioEarned` fails: `sched_fork` gives
the child the parent's priority after it was reset (line 1944). Both are kept as hazards.

`SlotsOwned` and `BeatsKept` are for tasks that leave by exiting. With two producers in
`MayDetach` both fail, because `hrm_delete_producer_task_from_group` changes the history and
the bitmap before it takes a lock: a sum is lost, or a slot in use is marked free. `NoRecount` is
stated for moments when no task joins or leaves; without that condition it fails sooner,
when the timer runs between `Fold` and `Unlink` and sees a count twice. `tools/libhrm/producer.c`
does detach, in every thread, so the two properties are about programs that do not. That the
window a goal is scoped to is in the table is not stated: `hrm_del_window` looks at the
scope before it locks, and two producers can delete the window that becomes it.
`BeatsPublished` sees one heartbeat per slot, so it is about the first one only.

Bounds. The clock stops at `MaxNiffies` (0 or 1): deadlines are compared only, and the
first deadline of a task, 0, and those given when a slice ends, together with the
offsets of the nice levels, are earlier, equal and later than each other.
`MaxOffset` is above every rate, so the counter can both meet a rate and have missed it.
Two CPUs and three tasks are the smallest instance in which a waker has a choice of
CPUs and a CPU a choice of tasks. `SLICE` is 1: a slice is fresh or used up (a fork then
always takes the branch that renews the child's slice). An `InitRate` of 0 is
a rate that is never met. The kernel starts with 2000 and refuses to go below 2, so the
runs and theorems with rate 0 describe the stretches between two injected cycles, and
`inject_stall` what happens at one. Symmetry is
used (not for HRM) for tasks that start alike and are not named by a constant, and not in the runs
that check liveness.

For HRM, two tasks are enough for a joiner and a leaver, and for a first and a last
member; tasks may come back after they have left, so that a group has several lives. One
heartbeat per slot and a join only to a group whose history is at most `MaxHistory` keep the
counts small. `Periods` holds what a timer period adds to the clock and `MaxTime` ends it: in
`hrm` time stands still, as only counts matter there; in `hrm_window` the ring is longer than
each window, wraps, and two windows compete for one entry.

Deadlock is checked in every run.

## 4. Fairness

`FairSpec` assumes, for each CPU, weak fairness of `MustSchedule` (a CPU with `need_resched`
set gets to `schedule`: from its idle loop, or on the next return from an interrupt or a
system call; a dying task makes its last call) and of `SchedulerTick(cpu, 1)` (the periodic
tick of a busy CPU charges the running task). The code guarantees both. Nothing is
assumed of wakeups, yields, sleeps, timers on idle CPUs or proc writes, and the tick of an
idle CPU never asks for a reschedule.

`FairSpec` of `HrmGroup` assumes weak fairness of `Continue` (a task inside a system call, or in
the middle of a library call, goes on) and of each group's `Timer`; strong fairness of `Wait`,
what waits for `hrm_groups_lock` or in `hrtimer_cancel`: the ticket spin locks of this kernel
are taken in turn, so a lock that is free again and again is obtained, and
`hrtimer_cancel` looks again and again while the callback is over for most of each period.
Nothing is assumed of attaches, heartbeats, detaches or exits.

## 5. Theorems

TLAPS proves the following for every value of the constants that satisfies the named
assumptions of `BfsQueue`, `BfsSched`, `HrmWindow` and `HrmGroup`: any number of CPUs, tasks,
groups, slots and windows, every topology, all requests. TLC evaluates the assumptions in every run.

| Theorem | Module | States |
| --- | --- | --- |
| `TypeCorrect`, `IdleMapCorrect` | `BfsSchedProofs` | `TypeOK`, `IdleMapExact` |
| `LimitsStayArmed` | `BfsSchedProofs` | `LimitsArmed`: the pid list |
| `QueueStaysWellFormed` | `BfsPlaceProofs` | `QueueWellFormed`: lists and bitmap agree, no task twice |
| `OnePlaceHolds` | `BfsPlaceProofs` | `OnePlace`: no task is lost or in two places |
| `CountersExact` | `BfsPlaceProofs` | `Counters` |
| `AffinityStaysEnforced` | `BfsPrioProofs` | `AffinityEnforced` |
| `BoostStaysKept` | `BfsPrioProofs` | `BoostKept`, if no initial task has lost a boost |
| `RtPrioStaysEarned` | `BfsPrioProofs` | `RtPrioEarned`, if it holds of the initial tasks and without `SCHED_RESET_ON_FORK` |
| `SchedImplementsPool` | `BfsPlaceProofs` | `ImplementsPool`: `Spec` implies the specification of `BfsPool` |
| `NoneStaysStranded` | `BfsAdvanceProofs` | `NoneStranded`, under the hypothesis `NoInjection` |
| `BestTaskStaysAdvancing` | `BfsAdvanceProofs` | `BestTaskAdvances`, under `NoInjection` and one of `Ordered`, `Flat` |
| `PoolExclusive` | `BfsPoolProofs` | in `BfsPool` no task is in two places |
| `GroupTypes`, `GroupsStayExact` | `HrmGroupProofs` | `TypeOK`, `GroupsExact` of HRM |
| `TimerStaysSafe`, `TimerStaysKept` | `HrmGroupProofs` | `TimerSafe`, `TimerKept` |
| `MeasuresStayRight` | `HrmDataProofs` | the action property `MeasuresRight` |
| `MapsStayCurrent` | `HrmDataProofs` | `MapsCurrent` |
| `SlotsStayOwned`, `BeatsStayKept` | `HrmDataProofs` | `SlotsOwned`, `BeatsKept`, under the hypothesis `ExitOnly` |

### Types, idle map, pid list

`TypeOK` alone is not inductive: `resched_best_idle` picks a CPU with CHOOSE
from the idle map, which is a CPU only if the map and the flag `idle_cpus` agree. The
inductive invariant is `IInv == TypeOK /\ IdleMapExact`. The relation `Step(s, t)` says that
`t` is again a well typed state in which the idle map and what the CPUs run are as in `s`;
`BfsQueueProofs` shows it of each helper, it composes, and a handler that is a composition
of helpers keeps `IInv` by it. Only `SwitchTo` changes the map, together with `curr`. That
each CHOOSE has a witness rests on lemma `NatMin` (a non-empty set of naturals has a least
element) and on the fact that the orders used for CPUs and queue positions are total. The
theorem on the pid list rests on `LimitsStep` (only the scan of `schedule` and a writer's
update change it), `ScanArmed` (the scan stops at the first entry that reaches its limit
and restarts it) and `UpdateLimitsResult` (what an update does to the list). `LimitsArmed` is not
inductive by itself: `WritesArmed` adds that the entries which writers are about to link
in have a `max_load` that is large enough and a count of 0.

### Places and counters

The three properties need each other: `dequeue_task` takes a task off the list of its
priority, which removes it only if it is on that list and only once (`QueueWellFormed`);
`enqueue_task` keeps the lists free of duplicates only if the task was nowhere
(`OnePlace`); a counter follows the sets only if a task enters or leaves one of them
where the code counts (`OnePlace` again). The inductive invariant is their conjunction
`PInv == IInv /\ QueueWellFormed /\ OnePlace /\ Counters`.

Instead of one proof for each pair of handler and conjunct, every step is shown to
have one of eight *effects*, and every effect to keep the invariant. `Quiet` moves
nobody; `Restates` changes the state of a task on a CPU or in the queue, `Reprios` the priority of one
wherever it is, `Rebinds` its mask; `Wakes` queues a sleeping task, `Forks` makes
one and `Starts` queues it; `Switches` is `schedule`: the previous task is kept, queued, put to
sleep or buried, and the CPU takes the next one off the queue or idles. The cardinalities
are followed one task at a time: a step that touches one task changes the size of a set
by the difference of its indicators.

### Affinity and priorities

Three properties say what a task is entitled to. The relation `Mild(s, t, C)` holds of every helper:
a CPU outside `C` goes on with what it runs and keeps its `need_resched`, no mask, policy or
waiter changes, and a priority changes only if it is not real time, to one that the
policy gives. Mild steps compose, and one with `C = {}` keeps all three (`MildRespects`). What is
not mild is looked at by itself: `rt_mutex_setprio`, `sched_setscheduler` and
`set_cpus_allowed_ptr` write the record of a task between two mild parts, `sched_fork` makes a
record from that of the parent, and in `schedule` the CPU is in `C` until it has switched:
it drops its request, and leaves with the previous task, which goes on only if it may
run there, with one that the lookup found fit to run there, or idle (`OwnCpuRespects`).

`AffinityStaysEnforced` needs `OnePlace` and so rests on `PInv`: `set_cpus_allowed_ptr` asks
`task_cpu(p)` to reschedule, which is the CPU that runs `p` only because a task is never in two places, and
`sched_fork` gives the child its parent's mask, which is safe only because no CPU runs the child yet. `BoostKept` and `RtPrioEarned` are strengthened to every task that has been
forked, and the second by `~reset_on_fork`: the child of a real time task with that flag
would have the parent's priority and a policy that does not give it
(`sched_bfs.c:1944`), which is the hypothesis `NoReset`. The hypotheses on `InitTask` say that the properties hold of
the tasks the system starts with; the initial tasks of every run satisfy them, and no run asks for
`SCHED_RESET_ON_FORK`.

### Refinement

`SchedImplementsPool` maps effects to steps of the pool. One lemma for each effect
says how the five variables of the pool change; the injected idle cycle, for instance,
is a `Switches` whose next task is the idle task, which the pool allows at any time. `PInv`
is needed throughout: what the pool calls ready is the queue, and a task that is
queued twice would still be ready after it was taken.

### No task is forgotten

`NoneStranded` and `BestTaskAdvances` say that the one request a waker leaves behind is never lost while
it is the last one. Both follow from `Advancing(s, C)`, which says of every queued task that a
CPU it may use *serves* it: the CPU has been asked to reschedule, or it is busy and (under
`Ordered`) its cached `rq_prio` is no worse than the task's priority. `C` is the set of CPUs that are inside
`schedule`; they serve everybody until they have switched, and between two steps `C` is
empty. The other conjuncts are what makes this inductive:

* a sticky task is queued and is served by the very CPU it last ran on (`Home`), because
  `earliest_deadline_task` passes over a task that is sticky on another CPU if its own CPU is scaled down;
* `rq_prio` is the priority of what the CPU runs (`Known`), so that the comparison in
  `try_preempt` is with the truth;
* tasks run where they may and are born where their parents may run (`Placid`);
* no task has an empty mask, and tasks stay plain or of one priority (`Sound`).

`Lean(s, t, L, S, C)` holds of the helpers: outside `C` no CPU loses its request, changes what it
runs or its `rq_prio`; only tasks in `L` change priority and only tasks in `S` become sticky. A lean step keeps
`Advancing` for all tasks but the one the handler is about, and for that one it is shown that
the trailing `try_preempt` or `resched_suitable_idle` finds a CPU. `schedule` is the hard case: it
takes its CPU away from the tasks it served. Either it switches to a task, which by
`earliest_deadline_task` has the best priority of those that may run there, or it finds none, and then every
task that could rely on this CPU has another one. That argument needs `PInv` (a CPU that
idles has seen all lists) and the exact idle map.

The hypotheses are those of the code, not of the proof. `NoInjection` (rate 0, no request to
change it, no limits): an injected cycle is exactly a stranded task (`inject_stall`). `Ordered`:

* no waiters: `rt_mutex_setprio` makes `rq_prio` stale (`rt_inversion`);
* no changes of masks (section 3), and forks only if all masks are the same, for the same reason:
  a child inherits the mask and the CPU of its parent;
* no sync wakeups: with no suitable idle CPU `try_preempt` is then skipped on purpose, as the
  waker is about to sleep;
* policies other than SCHED_ISO and SCHED_IDLEPRIO: `enqueue_task` recomputes the priority of those, and
  `rq_prio` follows only when `schedule` switches to another task. An IDLEPRIO task that
  yields to itself drops to the idle level under its old `rq_prio`, and a queued task between the two
  levels is then not let in (the instance of `pi` without waiters shows it).

`Flat` is the case of one priority: then a queued task beats idle CPUs only, and masks and sync
wakeups are free. The constants of the run `smp` satisfy `Ordered`, those of `affinity` satisfy `Flat`. `NoneStaysStranded`
needs neither.

### HRM: groups and timers

The inductive invariant of `HrmGroupProofs` has eight conjuncts: `TypeOK`; `LockExact`
(`hrm_groups_lock` is held by the task that is in its critical section, so there is only
one); `LocExact` (what a task remembers of its group still agrees with its lists: nobody
but itself changes them); `ListsExact` and `MembersExact` (no list names a group twice, and
groups and tasks agree on membership); `StateExact` (a group is listed exactly when it
has members, and one that is neither listed nor freed is in the hands of the task that
makes or destroys it); `TimerExact` (the timer is queued or running exactly when the
group has a timestamp, and it has one while it has producers); `TimeExact` (no sample
is from the future, which types elapsed times as naturals). `GroupsExact` follows from
`MembersExact`, `StateExact` and `LockExact`, `TimerSafe` from `TimerExact` for freed groups, `TimerKept` from its last
part.

### HRM: measures

`RingExact` says that the ring holds the last samples in the order of the history variable, with its
index at the next entry to write, whatever number of times it has wrapped. With it the
entry that `__hrm_update_measures` reads for a window is the sample of that many periods ago, or the
first one, and `MeasuresRight` holds of the step that publishes.

### HRM: mappings

`MapsCurrent` compares a counter with the number of mappings of a process. It is not inductive: when a
task drops its mapping the count must go down with it. `MapExact` ties the mappings of
a task to its memberships and its place in the attach; each step then adds or removes
at most one element of the set that is counted.

### HRM: slots and heartbeats

`SlotsOwned` and `BeatsKept` hold when tasks leave only by exiting. The hypothesis is `ExitOnly`: `MayDetach`
is empty and no `mmap` fails, as in the run `hrm`. Without it both fail (section 3): then
`Fold` and `Release` are not under the lock and may store what another task has made stale. With
it only the holder of the lock is between a load and its store (`BusyHolds`, `Alone`). `SlotInv` says
for each group that its producers have slots of their own, marked until they are
released, that each marked slot has an owner, and that the history and the counters of
the producers whose count is not in it yet account for all heartbeats; and for the task
in its critical section that the word of the bitmap and the sum it has loaded are those that are
still there. A count is in both the history and the slot between `Fold` and `Unlink`, which
is why `BeatsKept` is an inequality.

The total of a group is a recursive sum over its producers. `HrmGroupProofs` characterises it
as the one function on sets of tasks that is 0 at the empty set and from which any element can be
split off (`SumsExist`, `SumsUnique`). No induction schema is used: a set on which two such functions
differ, of least cardinality, leads to a smaller one.

## 6. Only model-checked

* `Served`, `LeaveEnds`, `BeatsPublished`: liveness under fairness is outside what the proof system handles.
* The five runs that show a disagreement, and the locks of `InjLocks`.

## 7. Not modelled, and why

* The writers of the pid list: a search is one instant, so the case that an entry is
  freed under a writer that is still walking is left out, as is freed memory that other
  kernel code gets and writes to; what a removal leaks (`pid_new`) is given back to the
  model's small memory. `SearchIdlePid` refuses by not being enabled, as a refused line
  changes nothing.
* `execve` and `munmap` of a task of an HRM group: it stays a member while its mappings go, so `MapsCurrent`
  is about programs that keep them.
* `try_to_wake_up_local`, IO plugging and workqueue callbacks inside `schedule`.
* Permission checks and rlimits of the system calls, the stop task, nohz balancing.
* `iso_ticks`, the percentages of CPU accounting, the clamping of `niffy_diff`.
* CPU hotplug, domains, cpusets: mainline code, used at boot and on hotplug.
* HRM: `hrm_show` and all readers of heart rates, in the kernel and in the library (they
  change nothing but `goal_lock`); a task that is killed while it holds `goal_lock`, which then
  stays held for ever; allocation failures; the pages a program goes on using after it has
  detached (`producer.c` does); the values of a goal's minimum and maximum. The instances have
  one group, so that the loop of an exiting task over several groups is in the model and
  not exercised.
* The temperature and affinity tools only do input
  and output. The copy of `sched_bfs.c` at the root of the repository is an older version.

## 8. Plan

1. Done: `BfsQueue`, `BfsSched`, `BfsPool` and the theorems above.
2. Done: `HrmWindow`, `HrmGroup` and `InjLocks`.
3. Done: the writers of the pid list against each other and against the scan.
4. Open: `iso_ticks`, `try_to_wake_up_local`, the deadline that `schedule` stores back over a renice.
5. Done: the proofs of section 5.
