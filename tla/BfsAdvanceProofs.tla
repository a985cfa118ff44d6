-------------------------- MODULE BfsAdvanceProofs --------------------------
(***************************************************************************)
(* Work that waits is not forgotten, for any number of CPUs and tasks.     *)
(* The invariant Advancing says, for each queued task, that some CPU it    *)
(* may use serves it: it has been asked to reschedule or runs something    *)
(* (as good as the task, where priorities are kept in order).  A sticky    *)
(* task needs more, as other CPUs may pass it over: the CPU it sticks to   *)
(* serves it.                                                              *)
(*                                                                         *)
(* The relation Lean says what the helpers do about it: but for the CPUs   *)
(* of C and the tasks of L and S they drop no request to reschedule, leave *)
(* the rq's copy of a priority and plain priorities alone, and make no     *)
(* task sticky.  The handlers follow one by one; schedule() is the one     *)
(* that takes a CPU away from the tasks it serves, and makes up for it by  *)
(* its choice of the next task.                                            *)
(***************************************************************************)
EXTENDS BfsPrioProofs

\* A task whose priority is the one of its policy, whatever recomputes it: neither
\* SCHED_ISO nor SCHED_IDLEPRIO, and nobody waits for a lock it holds.
Plain(t) ==
  /\ t.policy \in {"normal", "batch", "fifo", "rr"} /\ t.top_waiter = PRIO_LIMIT
  /\ rt_prio(t.prio) \/ (t.prio = NORMAL_PRIO /\ ~is_rt_policy(t.policy))

\* All tasks are plain and remain so.
Steady ==
  /\ WaiterPrios = {}
  /\ \A ask \in PolicyAsks : ask[1] \in {"normal", "batch", "fifo", "rr"}
  /\ \A p \in Tasks : Plain(InitTask[p])

\* All tasks have the same priority.
Flat ==
  /\ Steady
  /\ \A ask \in PolicyAsks : ~is_rt_policy(ask[1])
  /\ \A p \in Tasks : InitTask[p].prio = NORMAL_PRIO

\* Priorities are kept in order: wakers are not about to sleep, and no task is
\* driven off the CPU it runs on or born where it may not run.
Ordered ==
  /\ Steady
  /\ MaskAsks = {} /\ TRUE \notin SyncAsks
  /\ MayFork = {} \/ \A p, q \in Tasks : InitTask[p].allowed = InitTask[q].allowed

\* No idle cycle is injected.
NoInjection == InitRate = 0 /\ RateAsks = {} /\ LimitAsks = {}

\* A plain task stays plain, and keeps its priority.
Level(a, b) == Plain(a) => Plain(b) /\ b.prio = a.prio

Lean(s, t, L, S, C) ==
  /\ t \in SchedState
  /\ \A c \in Cpus \ C : Calm(s.rq[c], t.rq[c]) /\ t.rq[c].prio = s.rq[c].prio
  /\ \A p \in Tasks \ L : Level(s.task[p], t.task[p])
  /\ \A p \in Tasks \ S : t.task[p].sticky => s.task[p].sticky
-----------------------------------------------------------------------------
(***************************************************************************)
(* The helpers are lean.                                                   *)
(***************************************************************************)
\* Doing nothing is lean.
LEMMA LeanRefl == ASSUME NEW s \in SchedState, NEW L, NEW S, NEW C PROVE Lean(s, s, L, S, C)
BY DEF Lean, Calm, Level

\* Lean steps add up.
LEMMA LeanChain ==
  ASSUME NEW s, NEW t, NEW u, NEW L, NEW S, NEW C, Lean(s, t, L, S, C),
         t \in SchedState => Lean(t, u, L, S, C)
  PROVE  Lean(s, u, L, S, C)
<1>1. Lean(t, u, L, S, C) BY DEF Lean
<1>2. \A p \in Tasks \ L : Level(s.task[p], u.task[p]) BY <1>1 DEF Lean, Level
<1>3. \A c \in Cpus \ C : Calm(s.rq[c], u.rq[c]) /\ u.rq[c].prio = s.rq[c].prio
  BY <1>1 DEF Lean, Calm
<1>4. \A p \in Tasks \ S : u.task[p].sticky => s.task[p].sticky BY <1>1 DEF Lean
<1> QED BY <1>1, <1>2, <1>3, <1>4 DEF Lean

\* Writing the record of one task, and no rq.
LEMMA OneTaskLean ==
  ASSUME NEW s \in SchedState, NEW t \in SchedState, NEW L, NEW S, NEW C, NEW p \in Tasks, NEW r,
         t.rq = s.rq, t.task = [s.task EXCEPT ![p] = r],
         p \in L \/ Level(s.task[p], r), p \in S \/ (r.sticky => s.task[p].sticky)
  PROVE  Lean(s, t, L, S, C)
<1>1. s.task \in [Tasks -> TaskRec] BY StateParts
<1>2. \A q \in Tasks : t.task[q] = IF q = p THEN r ELSE s.task[q] BY <1>1
<1>3. \A q \in Tasks \ L : Level(s.task[q], t.task[q]) BY <1>2 DEF Level
<1>4. \A q \in Tasks \ S : t.task[q].sticky => s.task[q].sticky BY <1>2
<1> QED BY <1>3, <1>4 DEF Lean, Calm

\* Writing no task.
LEMMA SameTasksLean ==
  ASSUME NEW s, NEW t \in SchedState, NEW L, NEW S, NEW C, t.task = s.task,
         \A c \in Cpus \ C : Calm(s.rq[c], t.rq[c]) /\ t.rq[c].prio = s.rq[c].prio
  PROVE  Lean(s, t, L, S, C)
BY DEF Lean, Level

\* Writing grq alone.
LEMMA NoTaskLean ==
  ASSUME NEW s, NEW t \in SchedState, NEW L, NEW S, NEW C, t.rq = s.rq, t.task = s.task
  PROVE  Lean(s, t, L, S, C)
BY DEF Lean, Level, Calm

\* Writing one rq, and no task.
LEMMA OneRqLean ==
  ASSUME NEW s \in SchedState, NEW t \in SchedState, NEW L, NEW S, NEW C, NEW c \in Cpus, NEW r,
         t.task = s.task, t.rq = [s.rq EXCEPT ![c] = r],
         c \in C \/ (Calm(s.rq[c], r) /\ r.prio = s.rq[c].prio)
  PROVE  Lean(s, t, L, S, C)
<1>1. s.rq \in [Cpus -> RqRec] BY StateParts
<1>2. \A d \in Cpus : t.rq[d] = IF d = c THEN r ELSE s.rq[d] BY <1>1
<1>3. \A d \in Cpus \ C : Calm(s.rq[d], t.rq[d]) /\ t.rq[d].prio = s.rq[d].prio
  BY <1>2 DEF Calm
<1> QED BY <1>3, SameTasksLean

\* The fields of a task that say nothing of its priority.
LEMMA TaskLean ==
  ASSUME NEW s \in SchedState, NEW p \in Tasks, NEW L, NEW S, NEW C
  PROVE  /\ \A v \in TaskStates : Lean(s, [s EXCEPT !.task[p].state = v], L, S, C)
         /\ \A v \in Nices : Lean(s, [s EXCEPT !.task[p].nice = v], L, S, C)
         /\ \A v \in Nat : Lean(s, [s EXCEPT !.task[p].deadline = v], L, S, C)
         /\ \A v \in 0 .. SLICE : Lean(s, [s EXCEPT !.task[p].time_slice = v], L, S, C)
         /\ \A v \in BOOLEAN : v = FALSE \/ p \in S
                                 => Lean(s, [s EXCEPT !.task[p].sticky = v], L, S, C)
         /\ \A v \in Cpus : Lean(s, [s EXCEPT !.task[p].cpu = v], L, S, C)
         /\ \A v \in SUBSET Cpus : Lean(s, [s EXCEPT !.task[p].allowed = v], L, S, C)
         /\ \A v \in BOOLEAN : Lean(s, [s EXCEPT !.task[p].on_cpu = v], L, S, C)
         /\ \A v \in BOOLEAN : Lean(s, [s EXCEPT !.task[p].reset_on_fork = v], L, S, C)
         /\ \A v \in Tasks \cup {NoTask} : Lean(s, [s EXCEPT !.task[p].parent = v], L, S, C)
<1>1. s.task[p] \in TaskRec BY StateParts
<1>2. ASSUME NEW r \in TaskRec, Level(s.task[p], r), p \in S \/ (r.sticky => s.task[p].sticky)
      PROVE  Lean(s, [s EXCEPT !.task[p] = r], L, S, C)
  <2> DEFINE t == [s EXCEPT !.task[p] = r]
  <2>1. t \in SchedState BY TaskStep DEF Step
  <2>2. t.rq = s.rq /\ t.task = [s.task EXCEPT ![p] = r] BY DEF SchedState
  <2> HIDE DEF t
  <2>3. Lean(s, t, L, S, C) BY <1>2, <2>1, <2>2, OneTaskLean
  <2> QED BY <2>3 DEF t
<1> DEFINE same(r) == Level(s.task[p], r) /\ (r.sticky => s.task[p].sticky)
<1>3. /\ \A v : same([s.task[p] EXCEPT !.state = v])
      /\ \A v : same([s.task[p] EXCEPT !.nice = v])
      /\ \A v : same([s.task[p] EXCEPT !.deadline = v])
      /\ \A v : same([s.task[p] EXCEPT !.time_slice = v])
      /\ \A v : same([s.task[p] EXCEPT !.cpu = v])
      /\ \A v : same([s.task[p] EXCEPT !.allowed = v])
      /\ \A v : same([s.task[p] EXCEPT !.on_cpu = v])
      /\ \A v : same([s.task[p] EXCEPT !.reset_on_fork = v])
      /\ \A v : same([s.task[p] EXCEPT !.parent = v])
      /\ \A v : Level(s.task[p], [s.task[p] EXCEPT !.sticky = v])
      /\ same([s.task[p] EXCEPT !.sticky = FALSE])
  BY <1>1 DEF TaskRec, Level, Plain
<1>4. \A v \in BOOLEAN : v = FALSE \/ p \in S
                           => Lean(s, [s EXCEPT !.task[p].sticky = v], L, S, C)
  <2> SUFFICES ASSUME NEW v \in BOOLEAN, v = FALSE \/ p \in S
               PROVE  Lean(s, [s EXCEPT !.task[p].sticky = v], L, S, C)
    OBVIOUS
  <2>1. [s.task[p] EXCEPT !.sticky = v] \in TaskRec BY <1>1, TaskWrite
  <2> QED BY <1>2, <1>3, <2>1
<1>5. ASSUME NEW r \in TaskRec, same(r) PROVE Lean(s, [s EXCEPT !.task[p] = r], L, S, C)
  BY <1>2, <1>5
<1> HIDE DEF same
<1> QED BY <1>1, <1>3, <1>4, <1>5, TaskWrite, ZenonT(60)

\* The fields of an rq; its prio and what it runs only on a CPU that is left out.
LEMMA RqLean ==
  ASSUME NEW s \in SchedState, NEW c \in Cpus, NEW L, NEW S, NEW C
  PROVE  /\ \A v \in BOOLEAN : v \/ c \in C
                                 => Lean(s, [s EXCEPT !.rq[c].need_resched = v], L, S, C)
         /\ \A v \in Nat : Lean(s, [s EXCEPT !.rq[c].deadline = v], L, S, C)
         /\ \A v \in 0 .. SLICE : Lean(s, [s EXCEPT !.rq[c].time_slice = v], L, S, C)
         /\ \A v \in Tasks \cup {NoTask} : Lean(s, [s EXCEPT !.rq[c].sticky_task = v], L, S, C)
         /\ \A v \in BOOLEAN : Lean(s, [s EXCEPT !.rq[c].scaling = v], L, S, C)
         /\ \A v \in Tasks \cup {Idle} : c \in C => Lean(s, [s EXCEPT !.rq[c].curr = v], L, S, C)
<1>1. s.rq[c] \in RqRec BY StateParts
<1> DEFINE same(r) == Calm(s.rq[c], r) /\ r.prio = s.rq[c].prio
<1>2. ASSUME NEW r \in RqRec, c \in C \/ same(r) PROVE Lean(s, [s EXCEPT !.rq[c] = r], L, S, C)
  <2> DEFINE t == [s EXCEPT !.rq[c] = r]
  <2>1. t \in SchedState BY DEF SchedState
  <2>2. t.task = s.task /\ t.rq = [s.rq EXCEPT ![c] = r] BY DEF SchedState
  <2> HIDE DEF t
  <2>3. Lean(s, t, L, S, C) BY <1>2, <2>1, <2>2, OneRqLean
  <2> QED BY <2>3 DEF t
<1>3. /\ same([s.rq[c] EXCEPT !.need_resched = TRUE])
      /\ \A v : same([s.rq[c] EXCEPT !.deadline = v])
      /\ \A v : same([s.rq[c] EXCEPT !.time_slice = v])
      /\ \A v : same([s.rq[c] EXCEPT !.sticky_task = v])
      /\ \A v : same([s.rq[c] EXCEPT !.scaling = v])
  BY <1>1 DEF RqRec, Calm
<1>4. \A v \in BOOLEAN : v \/ c \in C => Lean(s, [s EXCEPT !.rq[c].need_resched = v], L, S, C)
  <2> SUFFICES ASSUME NEW v \in BOOLEAN, v \/ c \in C
               PROVE  Lean(s, [s EXCEPT !.rq[c].need_resched = v], L, S, C)
    OBVIOUS
  <2>1. [s.rq[c] EXCEPT !.need_resched = v] \in RqRec BY <1>1, RqWrite
  <2>2. c \in C \/ same([s.rq[c] EXCEPT !.need_resched = v])
    <3>1. CASE v = TRUE BY <1>3, <3>1
    <3>2. CASE v = FALSE BY <3>2
    <3> QED BY <3>1, <3>2
  <2> HIDE DEF same
  <2> QED BY <1>2, <2>1, <2>2
<1> HIDE DEF same
<1>5. \A v \in Tasks \cup {Idle} : c \in C => Lean(s, [s EXCEPT !.rq[c].curr = v], L, S, C)
  BY <1>1, <1>2, RqWrite
<1> QED BY <1>1, <1>2, <1>3, <1>4, <1>5, RqWrite, ZenonT(60)
-----------------------------------------------------------------------------
\* A plain task has the priority effective_prio and enqueue_task give it.
LEMMA PlainPrio ==
  ASSUME NEW a \in TaskRec, Plain(a)
  PROVE  /\ a.prio \in Nat /\ (rt_prio(a.prio) \/ a.prio = NORMAL_PRIO)
         /\ effective_prio(a) = a.prio
         /\ a.policy \notin {"iso", "idleprio"}
<1>1. a.prio \in Nat
  <2>1. a.prio \in QueuePrios BY TaskFields
  <2> QED BY <2>1 DEF QueuePrios
<1>2. a.policy \in {"normal", "batch", "fifo", "rr"} /\ (rt_prio(a.prio) \/ a.prio = NORMAL_PRIO)
  BY DEF Plain
<1>3. ~rt_prio(a.prio) => normal_prio(a.policy, a.rt_priority) = NORMAL_PRIO
  BY DEF Plain, normal_prio, is_rt_policy
<1> QED BY <1>1, <1>2, <1>3 DEF effective_prio

\* Plainness, and being sticky, in terms of the fields that count.
LEMMA SameLevel ==
  ASSUME NEW a, NEW b, b.policy = a.policy, b.prio = a.prio, b.top_waiter = a.top_waiter
  PROVE  Level(a, b)
BY DEF Level, Plain

\* effective_prio leaves a plain task alone.
LEMMA EffectiveLevel ==
  ASSUME NEW a \in TaskRec
  PROVE  LET r == [a EXCEPT !.prio = effective_prio(a)] IN Level(a, r) /\ (r.sticky => a.sticky)
<1> DEFINE v == effective_prio(a)
           r == [a EXCEPT !.prio = v]
<1>1. Plain(a) => v = a.prio BY PlainPrio
<1> HIDE DEF v
<1>2. r.policy = a.policy /\ r.prio = v /\ r.top_waiter = a.top_waiter /\ r.sticky = a.sticky
  BY DEF TaskRec
<1> HIDE DEF r
<1>3. Level(a, r) BY <1>1, <1>2, SameLevel DEF Level
<1> QED BY <1>2, <1>3 DEF r, v

\* So does enqueue_task.
LEMMA EnqueueLevel ==
  ASSUME NEW s \in SchedState, NEW p \in Tasks, NEW fit
  PROVE  LET r == [s.task[p] EXCEPT !.prio = EnqueuePrio(s, p, fit)]
         IN  Level(s.task[p], r) /\ (r.sticky => s.task[p].sticky)
<1> DEFINE a == s.task[p]
           v == EnqueuePrio(s, p, fit)
           r == [a EXCEPT !.prio = v]
<1>1. a \in TaskRec BY StateParts
<1>2. Plain(a) => v = a.prio
  <2> SUFFICES ASSUME Plain(a) PROVE v = a.prio OBVIOUS
  <2>1. a.policy \notin {"iso", "idleprio"} /\ (rt_prio(a.prio) \/ a.prio = NORMAL_PRIO)
    BY <1>1, PlainPrio
  <2> QED BY <2>1 DEF EnqueuePrio
<1> HIDE DEF v
<1>3. r.policy = a.policy /\ r.prio = v /\ r.top_waiter = a.top_waiter /\ r.sticky = a.sticky
  BY <1>1 DEF TaskRec
<1> HIDE DEF r, a
<1>4. Level(a, r) BY <1>2, <1>3, SameLevel DEF Level
<1> QED BY <1>3, <1>4 DEF r, v, a

\* Giving a task its effective priority.
LEMMA EffectiveLean ==
  ASSUME NEW s \in SchedState, NEW p \in Tasks, NEW L, NEW S, NEW C
  PROVE  Lean(s, [s EXCEPT !.task[p].prio = effective_prio(s.task[p])], L, S, C)
<1> DEFINE r == [s.task[p] EXCEPT !.prio = effective_prio(s.task[p])]
           t == [s EXCEPT !.task[p] = r]
<1>1. s.task[p] \in TaskRec BY StateParts
<1>2. r \in TaskRec BY <1>1, EffectivePrio, TaskWrite
<1>3. Level(s.task[p], r) /\ (r.sticky => s.task[p].sticky) BY <1>1, EffectiveLevel
<1>4. [s EXCEPT !.task[p].prio = effective_prio(s.task[p])] = t OBVIOUS
<1> HIDE DEF r
<1>5. t \in SchedState BY <1>2, TaskStep DEF Step
<1>6. t.rq = s.rq /\ t.task = [s.task EXCEPT ![p] = r] BY DEF SchedState
<1> HIDE DEF t
<1> QED BY <1>3, <1>4, <1>5, <1>6, OneTaskLean

\* Setting or clearing iso_refractory.
LEMMA RefractoryLean ==
  ASSUME NEW s \in SchedState, NEW v \in BOOLEAN, NEW L, NEW S, NEW C
  PROVE  Lean(s, [s EXCEPT !.grq.iso_refractory = v], L, S, C)
<1> DEFINE t == [s EXCEPT !.grq.iso_refractory = v]
<1>1. t \in SchedState BY GrqAssign DEF Step
<1>2. t.rq = s.rq /\ t.task = s.task BY DEF SchedState
<1> HIDE DEF t
<1> QED BY <1>1, <1>2, NoTaskLean DEF t

\* dequeue_task writes neither a task nor an rq.
LEMMA DequeueLean ==
  ASSUME NEW s \in SchedState, NEW p \in Tasks, NEW L, NEW S, NEW C
  PROVE  Lean(s, dequeue_task(s, p), L, S, C)
<1> DEFINE t == dequeue_task(s, p)
<1>1. t \in SchedState BY DequeueStep DEF Step
<1>2. t.rq = s.rq /\ t.task = s.task BY DEF dequeue_task, SchedState
<1> HIDE DEF t
<1> QED BY <1>1, <1>2, NoTaskLean DEF t

\* enqueue_task writes the priority of the task.
LEMMA EnqueueLean ==
  ASSUME NEW s \in SchedState, NEW p \in Tasks, NEW fit, NEW L, NEW S, NEW C
  PROVE  Lean(s, enqueue_task(s, p, fit), L, S, C)
<1> DEFINE t == enqueue_task(s, p, fit)
           r == [s.task[p] EXCEPT !.prio = EnqueuePrio(s, p, fit)]
<1>1. t \in SchedState BY EnqueueStep DEF Step
<1>2. t.rq = s.rq /\ t.task = [s.task EXCEPT ![p] = r] BY DEF enqueue_task, SchedState
<1>3. Level(s.task[p], r) /\ (r.sticky => s.task[p].sticky) BY EnqueueLevel
<1> HIDE DEF t, r
<1> QED BY <1>1, <1>2, <1>3, OneTaskLean DEF t

\* inc_qnr and dec_qnr write grq alone.
LEMMA QnrLean ==
  ASSUME NEW s \in SchedState, NEW L, NEW S, NEW C
  PROVE  Lean(s, inc_qnr(s), L, S, C) /\ Lean(s, dec_qnr(s), L, S, C)
<1>1. inc_qnr(s) \in SchedState /\ dec_qnr(s) \in SchedState BY QnrStep DEF Step
<1>2. /\ inc_qnr(s).rq = s.rq /\ inc_qnr(s).task = s.task
      /\ dec_qnr(s).rq = s.rq /\ dec_qnr(s).task = s.task
  BY QnrEffect
<1> QED BY <1>1, <1>2, NoTaskLean

\* clear_sticky writes the flag of the task.
LEMMA ClearStickyLean ==
  ASSUME NEW s \in SchedState, NEW p \in Tasks, NEW L, NEW S, NEW C
  PROVE  Lean(s, clear_sticky(s, p), L, S, C)
BY TaskLean DEF clear_sticky

\* activate_task recomputes the priority twice, before and while it queues the task.
LEMMA ActivateLean ==
  ASSUME NEW s \in SchedState, NEW p \in Tasks, NEW fit, NEW L, NEW S, NEW C
  PROVE  Lean(s, activate_task(s, p, fit), L, S, C)
<1> DEFINE r == [s.task[p] EXCEPT !.prio = effective_prio(s.task[p])]
           a == [s EXCEPT !.task[p] = r]
           n == IF s.task[p].state = "uninterruptible" THEN a.grq.nr_uninterruptible - 1
                ELSE a.grq.nr_uninterruptible
           b == [a EXCEPT !.grq.nr_uninterruptible = n]
           c == enqueue_task(b, p, fit)
           d == inc_qnr(c)
           t == activate_task(s, p, fit)
<1>1. t = [d EXCEPT !.grq.nr_running = @ + 1] BY DEF activate_task
<1>2. s.task[p] \in TaskRec BY StateParts
<1>3. r \in TaskRec BY <1>2, EffectivePrio, TaskWrite
<1>4. Level(s.task[p], r) /\ (r.sticky => s.task[p].sticky) BY <1>2, EffectiveLevel
<1> HIDE DEF r
<1>5. a \in SchedState BY <1>3, TaskStep DEF Step
<1>6. a.rq = s.rq /\ a.task = [s.task EXCEPT ![p] = r] BY DEF SchedState
<1> HIDE DEF a
<1>7. Lean(s, a, L, S, C) BY <1>4, <1>5, <1>6, OneTaskLean
<1>8. n \in Int BY <1>5, CountsType
<1> HIDE DEF n
<1>9. b \in SchedState BY <1>5, <1>8, GrqAssign DEF Step
<1>10. b.rq = a.rq /\ b.task = a.task BY <1>5 DEF SchedState
<1> HIDE DEF b
<1>11. Lean(a, b, L, S, C) BY <1>9, <1>10, NoTaskLean
<1>12. Lean(s, b, L, S, C) BY <1>7, <1>11, LeanChain
<1>13. Lean(s, c, L, S, C) BY <1>12, EnqueueLean, LeanChain
<1> HIDE DEF c
<1>14. Lean(s, d, L, S, C) BY <1>13, QnrLean, LeanChain
<1>15. d \in SchedState BY <1>14 DEF Lean
<1> HIDE DEF d
<1>16. t \in SchedState BY ActivateStep DEF Step
<1>17. t.rq = d.rq /\ t.task = d.task BY <1>1, <1>15 DEF SchedState
<1> HIDE DEF t
<1>18. Lean(d, t, L, S, C) BY <1>16, <1>17, NoTaskLean
<1> QED BY <1>14, <1>18, LeanChain DEF t

\* deactivate_task clears the sticky flag.
LEMMA DeactivateLean ==
  ASSUME NEW s \in SchedState, NEW p \in Tasks, NEW L, NEW S, NEW C
  PROVE  Lean(s, deactivate_task(s, p), L, S, C)
<1> DEFINE t == deactivate_task(s, p)
           r == [s.task[p] EXCEPT !.sticky = FALSE]
<1>1. t \in SchedState BY DeactivateStep DEF Step
<1>2. t.rq = s.rq /\ t.task = [s.task EXCEPT ![p] = r] BY DEF deactivate_task, SchedState
<1>3. Level(s.task[p], r) /\ (r.sticky => s.task[p].sticky)
  BY StateParts DEF Level, Plain, TaskRec
<1> HIDE DEF t, r
<1> QED BY <1>1, <1>2, <1>3, OneTaskLean DEF t

\* return_task does one or the other.
LEMMA ReturnLean ==
  ASSUME NEW s \in SchedState, NEW p \in Tasks, NEW deactivate \in BOOLEAN, NEW fit,
         NEW L, NEW S, NEW C
  PROVE  Lean(s, return_task(s, p, deactivate, fit), L, S, C)
<1>1. CASE deactivate BY <1>1, DeactivateLean DEF return_task
<1>2. CASE ~deactivate
  <2>1. Lean(s, inc_qnr(s), L, S, C) BY QnrLean
  <2> QED BY <1>2, <2>1, LeanChain, EnqueueLean DEF return_task
<1> QED BY <1>1, <1>2

\* take_task moves the task to the CPU and takes it off its list.
LEMMA TakeLean ==
  ASSUME NEW s \in SchedState, NEW cpu \in Cpus, NEW p \in Tasks, NEW L, NEW S, NEW C
  PROVE  Lean(s, take_task(s, cpu, p), L, S, C)
<1> DEFINE t == [s EXCEPT !.task[p].cpu = cpu]
           u == dequeue_task(t, p)
           v == clear_sticky(u, p)
<1>1. take_task(s, cpu, p) = dec_qnr(v) BY DEF take_task
<1>2. Lean(s, t, L, S, C) BY TaskLean
<1> HIDE DEF t
<1>3. Lean(s, u, L, S, C) BY <1>2, LeanChain, DequeueLean
<1> HIDE DEF u
<1>4. Lean(s, v, L, S, C) BY <1>3, LeanChain, ClearStickyLean
<1> HIDE DEF v
<1> QED BY <1>1, <1>4, LeanChain, QnrLean

\* time_slice_expired writes the slice and the deadline.
LEMMA ExpiredLean ==
  ASSUME NEW s \in SchedState, NEW p \in Tasks, NEW L, NEW S, NEW C
  PROVE  Lean(s, time_slice_expired(s, p), L, S, C)
<1> DEFINE t == time_slice_expired(s, p)
           v == s.grq.niffies + DeadlineDiff[s.task[p].nice]
           r == [s.task[p] EXCEPT !.time_slice = SLICE, !.deadline = v]
<1>1. t \in SchedState BY ExpiredStep DEF Step
<1>2. t.rq = s.rq /\ t.task = [s.task EXCEPT ![p] = r]
  <2>1. s.task \in [Tasks -> TaskRec] BY StateParts
  <2> HIDE DEF v
  <2>2. t = [s EXCEPT !.task[p].time_slice = SLICE, !.task[p].deadline = v]
    BY DEF time_slice_expired, v
  <2> HIDE DEF t
  <2> QED BY <2>1, <2>2 DEF SchedState
<1>3. Level(s.task[p], r) /\ (r.sticky => s.task[p].sticky)
  BY StateParts DEF Level, Plain, TaskRec
<1> HIDE DEF t, r
<1> QED BY <1>1, <1>2, <1>3, OneTaskLean DEF t

\* check_deadline does the same or nothing.
LEMMA CheckDeadlineLean ==
  ASSUME NEW s \in SchedState, NEW p \in Tasks, NEW L, NEW S, NEW C
  PROVE  Lean(s, check_deadline(s, p), L, S, C)
BY ExpiredLean, LeanRefl DEF check_deadline

\* Asking a CPU to reschedule is lean, whichever of the helpers settles on it.
LEMMA ReschedLean ==
  ASSUME NEW s \in SchedState, NEW cpu \in Cpus, NEW L, NEW S, NEW C
  PROVE  Lean(s, resched_cpu(s, cpu), L, S, C)
BY RqLean DEF resched_cpu

\* resched_best_mask with a mask that is not empty.
LEMMA BestMaskLean ==
  ASSUME NEW s \in SchedState, NEW best, NEW from, NEW mask, mask \subseteq Cpus, mask # {},
         NEW L, NEW S, NEW C
  PROVE  Lean(s, resched_best_mask(s, best, from, mask), L, S, C)
<1>1. BestOfMask(s, best, from, mask) \in Cpus BY BestOfMaskType
<1> QED BY <1>1, ReschedLean DEF resched_best_mask

\* resched_best_idle after suitable_idle_cpus said yes.
LEMMA BestIdleLean ==
  ASSUME NEW s \in SchedState, NEW p \in Tasks, suitable_idle_cpus(s, p), NEW L, NEW S, NEW C
  PROVE  Lean(s, resched_best_idle(s, p), L, S, C)
<1>1. s.task[p].allowed \cap s.grq.cpu_idle_map \subseteq Cpus BY StateParts, TaskFields
<1>2. s.task[p].allowed \cap s.grq.cpu_idle_map # {} BY DEF suitable_idle_cpus
<1> QED BY <1>1, <1>2, BestMaskLean DEF resched_best_idle

\* resched_suitable_idle.
LEMMA SuitableIdleLean ==
  ASSUME NEW s \in SchedState, NEW p \in Tasks, NEW L, NEW S, NEW C
  PROVE  Lean(s, resched_suitable_idle(s, p), L, S, C)
<1>1. CASE suitable_idle_cpus(s, p) BY <1>1, BestIdleLean DEF resched_suitable_idle
<1>2. CASE ~suitable_idle_cpus(s, p) BY <1>2, LeanRefl DEF resched_suitable_idle
<1> QED BY <1>1, <1>2

\* resched_closest_idle.
LEMMA ClosestIdleLean ==
  ASSUME NEW s \in SchedState, NEW cpu, NEW p \in Tasks, NEW L, NEW S, NEW C
  PROVE  Lean(s, resched_closest_idle(s, cpu, p), L, S, C)
<1> DEFINE mask == (s.task[p].allowed \cap s.grq.cpu_idle_map) \ {cpu}
<1>1. mask \subseteq Cpus BY StateParts, TaskFields
<1> HIDE DEF mask
<1>2. CASE mask = {} BY <1>2, LeanRefl DEF resched_closest_idle, mask
<1>3. CASE mask # {} BY <1>1, <1>3, BestMaskLean DEF resched_closest_idle, mask
<1> QED BY <1>2, <1>3

\* swap_sticky moves the sticky flag from one task to another.
LEMMA SwapStickyLean ==
  ASSUME NEW s \in SchedState, NEW cpu \in Cpus, NEW p \in Tasks, NEW L, NEW S, p \in S, NEW C
  PROVE  Lean(s, swap_sticky(s, cpu, p), L, S, C)
<1> DEFINE last == s.rq[cpu].sticky_task
           s1   == IF last \in Tasks \ {p} /\ s.task[last].sticky
                   THEN resched_closest_idle(clear_sticky(s, last), cpu, last)
                   ELSE s
           t    == [s1 EXCEPT !.task[p].sticky = TRUE]
           u    == resched_closest_idle(s1, cpu, p)
<1>1. Lean(s, s1, L, S, C)
  <2>1. CASE last \in Tasks \ {p} /\ s.task[last].sticky
    <3>1. Lean(s, clear_sticky(s, last), L, S, C) BY <2>1, ClearStickyLean
    <3> QED BY <2>1, <3>1, ClosestIdleLean, LeanChain
  <2>2. CASE ~(last \in Tasks \ {p} /\ s.task[last].sticky) BY <2>2, LeanRefl
  <2> QED BY <2>1, <2>2
<1>2. swap_sticky(s, cpu, p) =
        CASE last = p -> [s EXCEPT !.task[p].sticky = TRUE]
          [] last # p /\ ~rt_prio(s.task[p].prio) -> [t EXCEPT !.rq[cpu].sticky_task = p]
          [] OTHER -> [u EXCEPT !.rq[cpu].sticky_task = NoTask]
  BY DEF swap_sticky
<1> HIDE DEF s1, last
<1>3. Lean(s, [s EXCEPT !.task[p].sticky = TRUE], L, S, C) BY TaskLean
<1>4. Lean(s, t, L, S, C)
  <2>1. s1 \in SchedState => Lean(s1, t, L, S, C) BY TaskLean
  <2> QED BY <1>1, <2>1, LeanChain
<1>5. Lean(s, u, L, S, C) BY <1>1, ClosestIdleLean, LeanChain
<1> HIDE DEF t, u
<1>6. Lean(s, [t EXCEPT !.rq[cpu].sticky_task = p], L, S, C)
  <2>1. t \in SchedState => Lean(t, [t EXCEPT !.rq[cpu].sticky_task = p], L, S, C) BY RqLean
  <2> QED BY <1>4, <2>1, LeanChain
<1>7. Lean(s, [u EXCEPT !.rq[cpu].sticky_task = NoTask], L, S, C)
  <2>1. u \in SchedState => Lean(u, [u EXCEPT !.rq[cpu].sticky_task = NoTask], L, S, C) BY RqLean
  <2> QED BY <1>5, <2>1, LeanChain
<1> QED BY <1>2, <1>3, <1>6, <1>7

\* try_preempt.
LEMMA TryPreemptLean ==
  ASSUME NEW s \in SchedState, NEW p \in Tasks, NEW this_cpu \in Cpus, NEW L, NEW S, NEW C
  PROVE  Lean(s, try_preempt(s, p, this_cpu), L, S, C)
<1> DEFINE s1 == clear_sticky(s, p)
           target == PreemptTarget(s1, p, this_cpu)
<1>1. Lean(s, s1, L, S, C) BY ClearStickyLean
<1>2. s1 \in SchedState BY <1>1 DEF Lean
<1> HIDE DEF s1
<1>3. target.cpu \in Cpus BY <1>2, PreemptTargetType
<1> HIDE DEF target
<1>4. suitable_idle_cpus(s1, p) => Lean(s, resched_best_idle(s1, p), L, S, C)
  BY <1>1, <1>2, BestIdleLean, LeanChain
<1>5. Lean(s, resched_cpu(s1, target.cpu), L, S, C) BY <1>1, <1>3, ReschedLean, LeanChain
<1> QED BY <1>1, <1>4, <1>5 DEF try_preempt, s1, target

\* update_clocks.
LEMMA ClocksLean ==
  ASSUME NEW s \in SchedState, NEW d \in Nat, NEW L, NEW S, NEW C
  PROVE  Lean(s, update_clocks(s, d), L, S, C)
<1> DEFINE t == update_clocks(s, d)
<1>1. t \in SchedState BY ClocksStep DEF Step
<1>2. t.rq = s.rq /\ t.task = s.task BY DEF update_clocks, SchedState
<1> HIDE DEF t
<1> QED BY <1>1, <1>2, NoTaskLean DEF t

\* update_cpu_clock.
LEMMA CpuClockLean ==
  ASSUME NEW s \in SchedState, NEW cpu \in Cpus, NEW e \in 0 .. 1, NEW L, NEW S, NEW C
  PROVE  Lean(s, update_cpu_clock(s, cpu, e), L, S, C)
<1> DEFINE v == IF s.rq[cpu].time_slice >= e THEN s.rq[cpu].time_slice - e ELSE 0
<1>1. s.rq[cpu].time_slice \in 0 .. SLICE BY StateParts, RqFields
<1>2. v \in 0 .. SLICE BY <1>1, SliceAssumption
<1> HIDE DEF v
<1>3. Lean(s, [s EXCEPT !.rq[cpu].time_slice = v], L, S, C) BY <1>2, RqLean
<1> QED BY <1>3, LeanRefl DEF update_cpu_clock, v

\* set_rq_task and reset_rq_task copy from the task to the rq.
LEMMA RqTaskLean ==
  ASSUME NEW s \in SchedState, NEW cpu \in Cpus, NEW p \in Tasks \cup {Idle},
         NEW L, NEW S, NEW C, cpu \in C
  PROVE  /\ Lean(s, set_rq_task(s, cpu, p), L, S, C)
         /\ p \in Tasks => Lean(s, reset_rq_task(s, cpu, p), L, S, C)
<1>1. Lean(s, set_rq_task(s, cpu, p), L, S, C)
  <2> DEFINE t == set_rq_task(s, cpu, p)
  <2>1. t \in SchedState BY SetRqTaskStep DEF Step
  <2>2. PICK a, b, c, d :
          t = [s EXCEPT !.rq[cpu].time_slice = a, !.rq[cpu].deadline = b,
                        !.rq[cpu].policy = c, !.rq[cpu].prio = d]
    BY Zenon DEF set_rq_task
  <2> HIDE DEF t
  <2>3. /\ t.task = s.task
        /\ \A k \in Cpus \ C : t.rq[k] = s.rq[k]
    BY <2>2 DEF SchedState, RqRec
  <2> QED BY <2>1, <2>3, SameTasksLean DEF t, Calm
<1>2. ASSUME p \in Tasks PROVE Lean(s, reset_rq_task(s, cpu, p), L, S, C)
  <2> DEFINE t == reset_rq_task(s, cpu, p)
  <2>1. t \in SchedState BY <1>2, ResetRqTaskStep DEF Step
  <2>2. /\ t.task = s.task
        /\ \A k \in Cpus \ C : t.rq[k] = s.rq[k]
    BY DEF reset_rq_task, SchedState, RqRec
  <2> HIDE DEF t
  <2> QED BY <2>1, <2>2, SameTasksLean DEF t, Calm
<1> QED BY <1>1, <1>2

\* What schedule() stores back is lean but for its own CPU: the request is dropped.
LEMMA StoreBackLean ==
  ASSUME NEW s \in SchedState, NEW cpu \in Cpus, NEW prev \in Tasks,
         NEW L, NEW S, NEW C, cpu \in C
  PROVE  Lean(s, StoreBack(s, cpu, prev), L, S, C)
<1> DEFINE slice == s.rq[cpu].time_slice
           dl    == s.rq[cpu].deadline
           a == [s EXCEPT !.task[prev].time_slice = slice]
           b == [a EXCEPT !.task[prev].deadline = dl]
           c == [b EXCEPT !.rq[cpu].need_resched = FALSE]
<1>1. StoreBack(s, cpu, prev) = check_deadline(c, prev) BY DEF StoreBack
<1>2. slice \in 0 .. SLICE /\ dl \in Nat BY StateParts, RqFields
<1> HIDE DEF slice, dl
<1>3. Lean(s, a, L, S, C) BY <1>2, TaskLean
<1> HIDE DEF a
<1>4. Lean(s, b, L, S, C)
  <2>1. a \in SchedState => Lean(a, b, L, S, C) BY <1>2, TaskLean
  <2> QED BY <1>3, <2>1, LeanChain
<1> HIDE DEF b
<1>5. Lean(s, c, L, S, C)
  <2>1. b \in SchedState => Lean(b, c, L, S, C) BY RqLean
  <2> QED BY <1>4, <2>1, LeanChain
<1> HIDE DEF c
<1> QED BY <1>1, <1>5, CheckDeadlineLean, LeanChain

\* Giving prev back to the queue, or putting it to sleep.
LEMMA GiveBackLean ==
  ASSUME NEW s \in SchedState, NEW cpu \in Cpus, NEW prev \in Tasks,
         NEW deactivate \in BOOLEAN, NEW fit, NEW L, NEW S, prev \in S, NEW C
  PROVE  Lean(s, GiveBack(s, cpu, prev, deactivate, fit), L, S, C)
<1> DEFINE s1 == CASE needs_other_cpu(s, prev, cpu) -> resched_suitable_idle(s, prev)
                   [] ~needs_other_cpu(s, prev, cpu) /\ ~deactivate -> swap_sticky(s, cpu, prev)
                   [] OTHER -> s
<1>1. Lean(s, s1, L, S, C)
  <2>1. Lean(s, resched_suitable_idle(s, prev), L, S, C) BY SuitableIdleLean
  <2>2. Lean(s, swap_sticky(s, cpu, prev), L, S, C) BY SwapStickyLean
  <2>3. Lean(s, s, L, S, C) BY LeanRefl
  <2> QED BY <2>1, <2>2, <2>3
<1>2. GiveBack(s, cpu, prev, deactivate, fit) = return_task(s1, prev, deactivate, fit)
  BY DEF GiveBack
<1> HIDE DEF s1
<1> QED BY <1>1, <1>2, ReturnLean, LeanChain

\* Dropping a dead task.
LEMMA BuryLean ==
  ASSUME NEW s \in SchedState, NEW p \in Tasks, NEW L, NEW S, NEW C
  PROVE  Lean(s, Bury(s, p), L, S, C)
<1> DEFINE a == [s EXCEPT !.task[p].state = "none"]
           b == [a EXCEPT !.task[p].deadline = 0]
           c == [b EXCEPT !.task[p].time_slice = 0]
<1>1. Bury(s, p) = IF s.task[p].state = "dead" THEN c ELSE s BY DEF Bury
<1>2. "none" \in TaskStates /\ 0 \in Nat /\ 0 \in 0 .. SLICE BY SliceAssumption DEF TaskStates
<1>3. Lean(s, a, L, S, C) BY <1>2, TaskLean
<1> HIDE DEF a
<1>4. Lean(s, b, L, S, C)
  <2>1. a \in SchedState => Lean(a, b, L, S, C) BY <1>2, TaskLean
  <2> QED BY <1>3, <2>1, LeanChain
<1> HIDE DEF b
<1>5. Lean(s, c, L, S, C)
  <2>1. b \in SchedState => Lean(b, c, L, S, C) BY <1>2, TaskLean
  <2> QED BY <1>4, <2>1, LeanChain
<1> HIDE DEF c
<1> QED BY <1>1, <1>5, LeanRefl
-----------------------------------------------------------------------------
(***************************************************************************)
(* The invariant.  C holds the CPU that schedule() is choosing a task for, *)
(* which serves whatever it may run; between steps C is empty.             *)
(***************************************************************************)
\* The priority of what c runs.
RunPrio(s, c) == IF s.rq[c].curr = Idle THEN PRIO_LIMIT ELSE s.task[s.rq[c].curr].prio

\* CPU c is about to look at the queue, or busy (with something as good as p).
Serves(s, c, p) ==
  \/ s.rq[c].need_resched
  \/ s.rq[c].curr # Idle /\ (Ordered => s.rq[c].prio <= s.task[p].prio)

\* What serves a queued task.
ServedBy(s, p, C) == \E c \in s.task[p].allowed : c \in C \/ Serves(s, c, p)

\* A sticky task is queued, and served by the CPU it last ran on.
Home(s, p, C) ==
  LET home == s.task[p].cpu
  IN  p \in Queued(s) /\ home \in s.task[p].allowed /\ (home \in C \/ Serves(s, home, p))

\* What is asked of the task itself.
Sound(t) ==
  /\ t.allowed # {}
  /\ Steady => Plain(t)
  /\ Flat => t.prio = NORMAL_PRIO

\* The rq knows the priority of what it runs.
Known(s) == Ordered => \A c \in Cpus : s.rq[c].prio = RunPrio(s, c)

\* Tasks run where they may, and may run where their parents do.
Placid(s) ==
  Ordered => /\ \A c \in Cpus : s.rq[c].curr \in Tasks => c \in s.task[s.rq[c].curr].allowed
             /\ MayFork # {} => \A p, q \in Tasks : s.task[p].allowed = s.task[q].allowed

Advancing(s, C) ==
  /\ \A p \in Queued(s) : ServedBy(s, p, C)
  /\ \A p \in Tasks : s.task[p].sticky => Home(s, p, C)
  /\ \A p \in Tasks : Sound(s.task[p])
  /\ Known(s) /\ Placid(s)

\* What a handler must see to for the task it is about.
Fits(s, t, x, C) ==
  /\ x \in Queued(t) => ServedBy(t, x, C)
  /\ t.task[x].sticky => Home(t, x, C)
  /\ Sound(t.task[x])
  /\ Ordered => /\ \A c \in Cpus : t.rq[c].curr = x => c \in t.task[x].allowed
                /\ MayFork # {} => \E q \in Tasks : t.task[x].allowed = s.task[q].allowed

\* Priorities are numbers.
LEMMA PrioTypes ==
  ASSUME NEW s \in SchedState
  PROVE  /\ \A c \in Cpus : s.rq[c].prio \in Nat
         /\ \A p \in Tasks : s.task[p].prio \in Nat /\ s.task[p].prio < PRIO_LIMIT
         /\ \A c \in Cpus : s.rq[c].curr \in Tasks \cup {Idle}
         /\ \A p \in Tasks : s.task[p].cpu \in Cpus /\ s.task[p].allowed \subseteq Cpus
         /\ PRIO_LIMIT \in Nat
<1>1. PRIO_LIMIT \in Nat BY PrioAssumption DEF PRIO_LIMIT
<1>2. \A c \in Cpus : s.rq[c].prio \in 0 .. PRIO_LIMIT /\ s.rq[c].curr \in Tasks \cup {Idle}
  BY StateParts, RqFields
<1>3. \A p \in Tasks : /\ s.task[p].prio \in QueuePrios /\ s.task[p].cpu \in Cpus
                       /\ s.task[p].allowed \in SUBSET Cpus
  BY StateParts, TaskFields
<1>4. \A p \in Tasks : s.task[p].prio \in 0 .. PRIO_LIMIT - 1 BY <1>3 DEF QueuePrios
<1> QED BY <1>1, <1>2, <1>3, <1>4

\* A CPU goes on serving a task whose priority does not change.
LEMMA ServesKept ==
  ASSUME NEW s \in SchedState, NEW t \in SchedState, NEW c \in Cpus, NEW p \in Tasks,
         Serves(s, c, p), Calm(s.rq[c], t.rq[c]),
         Ordered => /\ t.task[p].prio = s.task[p].prio
                    /\ t.rq[c].need_resched \/ t.rq[c].prio <= s.rq[c].prio
  PROVE  Serves(t, c, p)
<1>1. /\ s.rq[c].prio \in Nat /\ t.rq[c].prio \in Nat
      /\ s.task[p].prio \in Nat /\ t.task[p].prio \in Nat
  BY PrioTypes
<1>2. CASE s.rq[c].need_resched BY <1>2 DEF Serves, Calm
<1>3. CASE t.rq[c].need_resched BY <1>3 DEF Serves
<1>4. CASE ~s.rq[c].need_resched /\ ~t.rq[c].need_resched
  <2>1. s.rq[c].curr # Idle /\ (Ordered => s.rq[c].prio <= s.task[p].prio) BY <1>4 DEF Serves
  <2>2. t.rq[c].curr # Idle BY <2>1 DEF Calm
  <2>3. Ordered => t.rq[c].prio <= t.task[p].prio BY <1>1, <1>4, <2>1
  <2> QED BY <2>2, <2>3 DEF Serves
<1> QED BY <1>2, <1>3, <1>4

\* So do the CPUs that a lean step does not leave out.
LEMMA LeanServes ==
  ASSUME NEW s \in SchedState, NEW t, NEW L, NEW S, NEW C, Lean(s, t, L, S, C),
         NEW c \in Cpus \ C, NEW p \in Tasks \ L, Ordered => Plain(s.task[p]), Serves(s, c, p)
  PROVE  Serves(t, c, p)
<1>1. t \in SchedState /\ Calm(s.rq[c], t.rq[c]) /\ t.rq[c].prio = s.rq[c].prio BY DEF Lean
<1>2. Ordered => t.task[p].prio = s.task[p].prio BY DEF Lean, Level
<1>3. t.rq[c].prio <= s.rq[c].prio
  <2>1. s.rq[c].prio \in Nat BY PrioTypes
  <2> QED BY <1>1, <2>1
<1> QED BY <1>1, <1>2, <1>3, ServesKept

\* A step that is about task x keeps the invariant if it fits x in and no CPU gives
\* up what it has promised the others.
LEMMA KeepsAdvancing ==
  ASSUME NEW s \in SchedState, NEW t, NEW x, NEW C, Advancing(s, C), Touch(s, t, x),
         \A c \in Cpus \ C : /\ Calm(s.rq[c], t.rq[c])
                             /\ Ordered => t.rq[c].need_resched \/ t.rq[c].prio <= s.rq[c].prio,
         \A q \in Tasks \ {x} : t.task[q].sticky => s.task[q].sticky,
         x \in Tasks => Fits(s, t, x, C), Known(t)
  PROVE  Advancing(t, C)
<1>1. t \in SchedState /\ \A c \in Cpus : t.rq[c].curr = s.rq[c].curr BY DEF Touch, Step
<1>2. \A q \in Tasks \ {x} :
        /\ t.task[q].cpu = s.task[q].cpu /\ t.task[q].allowed = s.task[q].allowed
        /\ t.task[q].prio = s.task[q].prio /\ t.task[q].policy = s.task[q].policy
        /\ t.task[q].top_waiter = s.task[q].top_waiter
        /\ q \in Queued(t) <=> q \in Queued(s)
  BY DEF Touch, Others, SameCore
<1>3. \A q \in Tasks : /\ s.task[q].allowed \subseteq Cpus /\ s.task[q].cpu \in Cpus
                       /\ s.task[q].prio \in Nat
  BY PrioTypes
<1>4. ASSUME NEW q \in Tasks \ {x}, NEW c \in Cpus, c \in C \/ Serves(s, c, q)
      PROVE  c \in C \/ Serves(t, c, q)
  <2>1. CASE c \in C BY <2>1
  <2>2. CASE c \notin C BY <1>1, <1>2, <1>4, <2>2, ServesKept
  <2> QED BY <2>1, <2>2
<1>5. \A p \in Queued(t) : ServedBy(t, p, C)
  <2> SUFFICES ASSUME NEW p \in Queued(t) PROVE ServedBy(t, p, C) OBVIOUS
  <2>1. p \in Tasks BY DEF Queued
  <2>2. CASE p = x BY <2>1, <2>2 DEF Fits
  <2>3. CASE p # x
    <3>1. ServedBy(s, p, C) BY <1>2, <2>1, <2>3 DEF Advancing
    <3>2. PICK c \in s.task[p].allowed : c \in C \/ Serves(s, c, p) BY <3>1 DEF ServedBy
    <3>3. c \in C \/ Serves(t, c, p) BY <1>3, <1>4, <2>1, <2>3, <3>2
    <3>4. c \in t.task[p].allowed BY <1>2, <2>1, <2>3
    <3> QED BY <3>3, <3>4 DEF ServedBy
  <2> QED BY <2>2, <2>3
<1>6. \A p \in Tasks : t.task[p].sticky => Home(t, p, C)
  <2> SUFFICES ASSUME NEW p \in Tasks, t.task[p].sticky PROVE Home(t, p, C) OBVIOUS
  <2>1. CASE p = x BY <2>1 DEF Fits
  <2>2. CASE p # x
    <3>1. Home(s, p, C) BY <2>2 DEF Advancing
    <3>2. /\ p \in Queued(s) /\ s.task[p].cpu \in s.task[p].allowed
          /\ s.task[p].cpu \in C \/ Serves(s, s.task[p].cpu, p)
      BY <3>1 DEF Home
    <3>3. s.task[p].cpu \in C \/ Serves(t, s.task[p].cpu, p) BY <1>3, <1>4, <2>2, <3>2
    <3> QED BY <1>2, <2>2, <3>2, <3>3 DEF Home
  <2> QED BY <2>1, <2>2
<1>7. \A p \in Tasks : Sound(t.task[p])
  <2> SUFFICES ASSUME NEW p \in Tasks PROVE Sound(t.task[p]) OBVIOUS
  <2>1. CASE p = x BY <2>1 DEF Fits
  <2>2. CASE p # x
    <3>1. Sound(s.task[p]) BY DEF Advancing
    <3> QED BY <1>2, <2>2, <3>1 DEF Sound, Plain
  <2> QED BY <2>1, <2>2
<1>8. Placid(t)
  <2> SUFFICES ASSUME Ordered
               PROVE  /\ \A c \in Cpus : t.rq[c].curr \in Tasks => c \in t.task[t.rq[c].curr].allowed
                      /\ MayFork # {} => \A p, q \in Tasks : t.task[p].allowed = t.task[q].allowed
    BY DEF Placid
  <2>1. /\ \A c \in Cpus : s.rq[c].curr \in Tasks => c \in s.task[s.rq[c].curr].allowed
        /\ MayFork # {} => \A p, q \in Tasks : s.task[p].allowed = s.task[q].allowed
    BY DEF Advancing, Placid
  <2>2. x \in Tasks => /\ \A c \in Cpus : t.rq[c].curr = x => c \in t.task[x].allowed
                       /\ MayFork # {} => \E q \in Tasks : t.task[x].allowed = s.task[q].allowed
    BY DEF Fits
  <2>3. \A c \in Cpus : t.rq[c].curr \in Tasks => c \in t.task[t.rq[c].curr].allowed
    BY <1>1, <1>2, <2>1, <2>2
  <2>4. MayFork # {} => \A p \in Tasks : \E q \in Tasks : t.task[p].allowed = s.task[q].allowed
    BY <1>2, <2>2
  <2>5. MayFork # {} => \A p, q \in Tasks : t.task[p].allowed = t.task[q].allowed
    BY <2>1, <2>4
  <2> QED BY <2>3, <2>5
<1> QED BY <1>5, <1>6, <1>7, <1>8 DEF Advancing

\* What a lean step leaves to be seen to: that the task it is about is served.
LEMMA LeanAdvancing ==
  ASSUME NEW s \in SchedState, NEW t, NEW x, NEW C, Advancing(s, C), Touch(s, t, x),
         Lean(s, t, {}, {x}, C), Ordered => \A c \in Cpus : t.rq[c].prio = s.rq[c].prio,
         x \in Tasks => /\ t.task[x].allowed = s.task[x].allowed
                        /\ x \in Queued(t) => ServedBy(t, x, C)
                        /\ t.task[x].sticky => Home(t, x, C)
  PROVE  Advancing(t, C)
<1>1. t \in SchedState /\ \A c \in Cpus : t.rq[c].curr = s.rq[c].curr BY DEF Touch, Step
<1>2. \A p \in Tasks : /\ Level(s.task[p], t.task[p])
                       /\ Steady => Plain(s.task[p]) /\ Plain(t.task[p])
                                      /\ t.task[p].prio = s.task[p].prio
  BY DEF Lean, Level, Advancing, Sound
<1>3. \A c \in Cpus : s.rq[c].prio \in Nat /\ s.rq[c].curr \in Tasks \cup {Idle} BY PrioTypes
<1>4. \A c \in Cpus \ C : /\ Calm(s.rq[c], t.rq[c])
                          /\ Ordered => t.rq[c].need_resched \/ t.rq[c].prio <= s.rq[c].prio
  BY <1>3 DEF Lean
<1>5. \A q \in Tasks \ {x} : t.task[q].sticky => s.task[q].sticky BY DEF Lean
<1>6. Known(t)
  <2> SUFFICES ASSUME Ordered, NEW c \in Cpus PROVE t.rq[c].prio = RunPrio(t, c) BY DEF Known
  <2>1. s.rq[c].prio = RunPrio(s, c) BY DEF Advancing, Known
  <2>2. Steady BY DEF Ordered
  <2>3. RunPrio(t, c) = RunPrio(s, c) BY <1>1, <1>2, <1>3, <2>2 DEF RunPrio
  <2> QED BY <2>1, <2>3
<1>7. ASSUME x \in Tasks PROVE Fits(s, t, x, C)
  <2>1. Sound(s.task[x]) BY <1>7 DEF Advancing
  <2>2. Flat => Steady BY DEF Flat
  <2>3. Sound(t.task[x]) BY <1>2, <1>7, <2>1, <2>2 DEF Sound
  <2>4. Ordered => \A c \in Cpus : t.rq[c].curr = x => c \in t.task[x].allowed
    BY <1>1, <1>7 DEF Advancing, Placid
  <2> QED BY <1>7, <2>3, <2>4 DEF Fits
<1> QED BY <1>4, <1>5, <1>6, <1>7, KeepsAdvancing

\* Nothing, if no task is queued, moved or made sticky.
LEMMA CalmAdvancing ==
  ASSUME NEW s \in SchedState, NEW t, NEW x, NEW C, Advancing(s, C), Touch(s, t, x),
         Lean(s, t, {}, {}, C), Ordered => \A c \in Cpus : t.rq[c].prio = s.rq[c].prio,
         Queued(t) = Queued(s),
         x \in Tasks => /\ t.task[x].allowed = s.task[x].allowed
                        /\ t.task[x].cpu = s.task[x].cpu
  PROVE  Advancing(t, C)
<1>1. Lean(s, t, {}, {x}, C) BY DEF Lean
<1>2. ASSUME x \in Tasks, NEW c \in Cpus, c \in C \/ Serves(s, c, x)
      PROVE  c \in C \/ Serves(t, c, x)
  <2>1. Ordered => Plain(s.task[x]) BY <1>2 DEF Advancing, Sound, Ordered
  <2>2. CASE c \in C BY <2>2
  <2>3. CASE c \notin C BY <1>2, <2>1, <2>3, LeanServes
  <2> QED BY <2>2, <2>3
<1>3. x \in Tasks => s.task[x].allowed \subseteq Cpus /\ s.task[x].cpu \in Cpus BY PrioTypes
<1>4. ASSUME x \in Tasks, x \in Queued(t) PROVE ServedBy(t, x, C)
  <2>1. ServedBy(s, x, C) BY <1>4 DEF Advancing
  <2>2. PICK c \in s.task[x].allowed : c \in C \/ Serves(s, c, x) BY <2>1 DEF ServedBy
  <2>3. c \in C \/ Serves(t, c, x) BY <1>2, <1>3, <1>4, <2>2
  <2> QED BY <1>4, <2>3 DEF ServedBy
<1>5. ASSUME x \in Tasks, t.task[x].sticky PROVE Home(t, x, C)
  <2>1. s.task[x].sticky BY <1>5 DEF Lean
  <2>2. Home(s, x, C) BY <1>5, <2>1 DEF Advancing
  <2>3. /\ x \in Queued(s) /\ s.task[x].cpu \in s.task[x].allowed
        /\ s.task[x].cpu \in C \/ Serves(s, s.task[x].cpu, x)
    BY <2>2 DEF Home
  <2>4. s.task[x].cpu \in C \/ Serves(t, s.task[x].cpu, x) BY <1>2, <1>3, <1>5, <2>3
  <2> QED BY <1>5, <2>3, <2>4 DEF Home
<1> QED BY <1>1, <1>4, <1>5, LeanAdvancing

\* So for quiet steps, which are about no task.
LEMMA QuietAdvancing ==
  ASSUME NEW s \in SchedState, NEW t, NEW C, Advancing(s, C), WellFormed(s), Quiet(s, t),
         Lean(s, t, {}, {}, C), Ordered => \A c \in Cpus : t.rq[c].prio = s.rq[c].prio
  PROVE  Advancing(t, C)
<1>1. /\ Queued(t) = Queued(s) /\ WellFormed(t)
      /\ \A p \in Tasks : SameCore(t.task[p], s.task[p])
  BY QuietEffect
<1>2. Touch(s, t, Idle) BY <1>1 DEF Touch, Others, Quiet
<1>3. Idle \notin Tasks BY TaskAssumption
<1> QED BY <1>1, <1>2, <1>3, CalmAdvancing

\* A CPU that is choosing a task serves more than one that is not.
LEMMA AdvancingMore ==
  ASSUME NEW s, NEW C, Advancing(s, {}) PROVE Advancing(s, C)
BY DEF Advancing, ServedBy, Home

\* With nothing queued there is nobody to serve.
LEMMA AdvancingNone ==
  ASSUME NEW s, NEW C, Advancing(s, C), Queued(s) = {} PROVE Advancing(s, {})
BY DEF Advancing, Home
-----------------------------------------------------------------------------
(***************************************************************************)
(* What try_preempt and resched_suitable_idle do for a task.               *)
(***************************************************************************)
\* Setting a CPU's need_resched.
LEMMA ReschedServes ==
  ASSUME NEW s \in SchedState, NEW c \in Cpus, NEW p \in Tasks
  PROVE  Serves(resched_cpu(s, c), c, p)
<1>1. s.rq \in [Cpus -> RqRec] BY StateParts
<1>2. resched_cpu(s, c).rq[c].need_resched BY <1>1 DEF resched_cpu, SchedState, RqRec
<1> QED BY <1>2 DEF Serves

\* resched_best_idle asks a CPU that p may use.
LEMMA BestIdleServes ==
  ASSUME NEW s \in SchedState, NEW p \in Tasks, suitable_idle_cpus(s, p)
  PROVE  \E c \in s.task[p].allowed : Serves(resched_best_idle(s, p), c, p)
<1> DEFINE mask == s.task[p].allowed \cap s.grq.cpu_idle_map
           c    == BestOfMask(s, s.task[p].cpu, s.task[p].cpu, mask)
<1>1. mask # {} BY DEF suitable_idle_cpus
<1>2. mask \subseteq Cpus BY StateParts, TaskFields
<1>3. c \in mask BY <1>1, <1>2, BestOfMaskType
<1>4. resched_best_idle(s, p) = resched_cpu(s, c) BY DEF resched_best_idle, resched_best_mask
<1> HIDE DEF c
<1>5. c \in s.task[p].allowed /\ c \in Cpus BY <1>2, <1>3
<1> QED BY <1>4, <1>5, ReschedServes

\* Where there is no suitable idle CPU, the CPUs p may use are busy.
LEMMA NoneIdle ==
  ASSUME NEW s \in SchedState, MapExact(s), NEW p \in Tasks, ~suitable_idle_cpus(s, p),
         NEW c \in s.task[p].allowed
  PROVE  c \in Cpus /\ s.rq[c].curr # Idle
<1>1. s.task[p].allowed \subseteq Cpus BY PrioTypes
<1> QED BY <1>1 DEF MapExact, suitable_idle_cpus

\* Where priorities do not matter, that is enough.
LEMMA BusyServes ==
  ASSUME NEW s \in SchedState, MapExact(s), NEW p \in Tasks, ~suitable_idle_cpus(s, p),
         s.task[p].allowed # {}, ~Ordered
  PROVE  \E c \in s.task[p].allowed : Serves(s, c, p)
<1>1. PICK c \in s.task[p].allowed : TRUE OBVIOUS
<1>2. s.rq[c].curr # Idle BY NoneIdle
<1> QED BY <1>2 DEF Serves

\* So resched_suitable_idle finds a CPU then.
LEMMA SuitableIdleServes ==
  ASSUME NEW s \in SchedState, MapExact(s), NEW p \in Tasks, s.task[p].allowed # {}, ~Ordered
  PROVE  \E c \in s.task[p].allowed : Serves(resched_suitable_idle(s, p), c, p)
<1>1. CASE suitable_idle_cpus(s, p) BY <1>1, BestIdleServes DEF resched_suitable_idle
<1>2. CASE ~suitable_idle_cpus(s, p) BY <1>2, BusyServes DEF resched_suitable_idle
<1> QED BY <1>1, <1>2

\* The loop of try_preempt ends at a CPU that p may use, unless none runs anything worse.
LEMMA PreemptTargetBest ==
  ASSUME NEW s \in SchedState, NEW p \in Tasks, NEW this_cpu \in Cpus
  PROVE  LET target == PreemptTarget(s, p, this_cpu)
         IN  \/ \A c \in s.task[p].allowed : s.rq[c].prio <= s.task[p].prio
             \/ target.cpu \in s.task[p].allowed /\ target.prio = s.rq[target.cpu].prio
<1> DEFINE at(c) == [prio |-> s.rq[c].prio, deadline |-> s.rq[c].deadline, cpu |-> c]
           start == [at(this_cpu) EXCEPT !.prio = s.task[p].prio]
           worse(a, b) == a.prio > b.prio \/ (a.prio = b.prio /\ a.deadline > b.deadline)
           found == {c \in s.task[p].allowed : worse(at(c), start)}
           better(c, d) == worse(at(c), at(d)) \/ (~worse(at(d), at(c)) /\ c < d)
           R == {x \in found \X found : better(x[1], x[2])}
<1>1. found \subseteq Cpus BY StateParts, TaskFields
<1>2. \A c \in Cpus : s.rq[c].prio \in Int /\ s.rq[c].deadline \in Int
  <2> SUFFICES ASSUME NEW c \in Cpus PROVE s.rq[c].prio \in Int /\ s.rq[c].deadline \in Int
    OBVIOUS
  <2>1. s.rq[c].prio \in 0 .. PRIO_LIMIT /\ s.rq[c].deadline \in Nat BY StateParts, RqFields
  <2> QED BY <2>1
<1>3. \A c : at(c).cpu = c /\ at(c).prio = s.rq[c].prio OBVIOUS
<1>5. \A a, b : <<a, b>> \in R <=> a \in found /\ b \in found /\ better(a, b) OBVIOUS
<1>6. \A a, b : better(a, b) <=>
        \/ s.rq[a].prio > s.rq[b].prio
        \/ s.rq[a].prio = s.rq[b].prio /\ s.rq[a].deadline > s.rq[b].deadline
        \/ /\ ~(\/ s.rq[b].prio > s.rq[a].prio
                \/ s.rq[b].prio = s.rq[a].prio /\ s.rq[b].deadline > s.rq[a].deadline)
           /\ a < b
  OBVIOUS
<1>7. found # {} => \E c \in found : \A d \in found \ {c} : better(c, d)
  <2> HAVE found # {}
  <2> HIDE DEF found, better, R
  <2>1. \A a \in found : a \in Int BY <1>1 DEF Cpus
  <2>2. \A a, b \in found : a # b => better(a, b) \/ better(b, a)
    BY <1>1, <1>2, <1>6, <2>1
  <2>3. \A a, b, c \in found : better(a, b) /\ better(b, c) => better(a, c)
    <3> SUFFICES ASSUME NEW a \in found, NEW b \in found, NEW c \in found,
                        better(a, b), better(b, c)
                 PROVE  better(a, c)
      OBVIOUS
    <3> DEFINE x == s.rq[a].prio  y == s.rq[b].prio  z == s.rq[c].prio
               k == s.rq[a].deadline  l == s.rq[b].deadline  m == s.rq[c].deadline
    <3>1. a \in Int /\ b \in Int /\ c \in Int BY <2>1
    <3>2. x \in Int /\ y \in Int /\ z \in Int /\ k \in Int /\ l \in Int /\ m \in Int
      BY <1>1, <1>2
    <3>3. x > y \/ (x = y /\ k > l) \/ (~(y > x \/ (y = x /\ l > k)) /\ a < b) BY <1>6
    <3>4. y > z \/ (y = z /\ l > m) \/ (~(z > y \/ (z = y /\ m > l)) /\ b < c) BY <1>6
    <3>5. better(a, c) <=>
            x > z \/ (x = z /\ k > m) \/ (~(z > x \/ (z = x /\ m > k)) /\ a < c) BY <1>6
    <3> HIDE DEF x, y, z, k, l, m
    <3> QED BY <3>1, <3>2, <3>3, <3>4, <3>5
  <2>4. NCPU - 1 \in Nat /\ found \subseteq 0 .. NCPU - 1 BY <1>1, CpuAssumption DEF Cpus
  <2>5. Total(R, found) BY <1>5, <2>2 DEF Total
  <2>6. Transitive(R, found) BY <1>5, <2>3 DEF Transitive
  <2>7. PICK c \in found : \A d \in found \ {c} : <<c, d>> \in R BY <2>4, <2>5, <2>6, Best
  <2> QED BY <1>5, <2>7
<1>8. PreemptTarget(s, p, this_cpu) =
        IF found = {} THEN start
        ELSE at(CHOOSE c \in found : \A d \in found \ {c} : better(c, d))
  BY DEF PreemptTarget
<1>9. CASE found = {}
  <2>1. start.prio = s.task[p].prio OBVIOUS
  <2>2. \A c \in s.task[p].allowed : ~worse(at(c), start) BY <1>9
  <2>3. \A c \in s.task[p].allowed : ~(s.rq[c].prio > s.task[p].prio) BY <2>1, <2>2
  <2>4. s.task[p].prio \in Nat /\ \A c \in s.task[p].allowed : s.rq[c].prio \in Nat BY PrioTypes
  <2> HIDE DEF start, found, at, worse
  <2> QED BY <2>3, <2>4
<1>10. CASE found # {}
  <2> DEFINE c == CHOOSE c \in found : \A d \in found \ {c} : better(c, d)
  <2>0. found \subseteq s.task[p].allowed OBVIOUS
  <2> HIDE DEF found, better
  <2>1. c \in found BY <1>7, <1>10
  <2>2. PreemptTarget(s, p, this_cpu) = at(c) BY <1>8, <1>10
  <2> HIDE DEF c, at
  <2> QED BY <1>3, <2>0, <2>1, <2>2
<1> QED BY <1>9, <1>10

\* After try_preempt some CPU serves p, which is not sticky.
LEMMA TryPreemptServes ==
  ASSUME NEW s \in SchedState, MapExact(s), NEW p \in Tasks, NEW this_cpu \in Cpus,
         s.task[p].allowed # {}, Ordered => Plain(s.task[p])
  PROVE  LET t == try_preempt(s, p, this_cpu)
         IN  (\E c \in t.task[p].allowed : Serves(t, c, p)) /\ ~t.task[p].sticky
<1> DEFINE s1 == clear_sticky(s, p)
           target == PreemptTarget(s1, p, this_cpu)
           t == try_preempt(s, p, this_cpu)
<1>1. Quiet(s, s1) BY ClearStickyQuiet
<1>2. s1 \in SchedState /\ MapExact(s1) BY <1>1, StepExact DEF Quiet, Step
<1>3. /\ s1.task[p].allowed = s.task[p].allowed /\ s1.task[p].prio = s.task[p].prio
      /\ s1.task[p].policy = s.task[p].policy
  BY <1>1 DEF Quiet, SameCore
<1>4. ~s1.task[p].sticky /\ s1.rq = s.rq
  <2>1. s.task \in [Tasks -> TaskRec] BY StateParts
  <2> QED BY <2>1 DEF clear_sticky, SchedState, TaskRec
<1> HIDE DEF s1
<1>5. target.cpu \in Cpus BY <1>2, PreemptTargetType
<1>6. \/ \A c \in s1.task[p].allowed : s1.rq[c].prio <= s1.task[p].prio
      \/ target.cpu \in s1.task[p].allowed /\ target.prio = s1.rq[target.cpu].prio
  BY <1>2, PreemptTargetBest
<1> HIDE DEF target
<1>7. t = CASE suitable_idle_cpus(s1, p) -> resched_best_idle(s1, p)
            [] /\ ~suitable_idle_cpus(s1, p)
               /\ s1.task[p].policy # "idleprio"
               /\ can_preempt(s1.task[p], target.prio, s1.rq[target.cpu].deadline)
                 -> resched_cpu(s1, target.cpu)
            [] OTHER -> s1
  BY DEF try_preempt, s1, target
<1>8. Quiet(s, t) BY TryPreemptQuiet
<1>9. t.task[p].allowed = s1.task[p].allowed /\ t \in SchedState
  BY <1>3, <1>8 DEF Quiet, Step, SameCore
<1>10. \A c : resched_cpu(s1, c).task = s1.task BY <1>2 DEF resched_cpu, SchedState
<1>11. ~t.task[p].sticky
  <2>1. resched_best_idle(s1, p).task = s1.task BY <1>10 DEF resched_best_idle, resched_best_mask
  <2> QED BY <1>4, <1>7, <1>10, <2>1
<1> HIDE DEF t
<1>12. CASE suitable_idle_cpus(s1, p)
  <2>1. t = resched_best_idle(s1, p) BY <1>7, <1>12
  <2> QED BY <1>2, <1>9, <1>11, <1>12, <2>1, BestIdleServes DEF t
<1>13. CASE ~suitable_idle_cpus(s1, p)
  <2>1. t = IF /\ s1.task[p].policy # "idleprio"
               /\ can_preempt(s1.task[p], target.prio, s1.rq[target.cpu].deadline)
            THEN resched_cpu(s1, target.cpu) ELSE s1
    BY <1>7, <1>13
  <2>2. PICK c \in s1.task[p].allowed : TRUE BY <1>3
  <2>3. \A d \in s1.task[p].allowed : d \in Cpus /\ s1.rq[d].curr # Idle BY <1>2, <1>13, NoneIdle
  <2>4. Lean(s, t, {}, {}, {}) BY TryPreemptLean DEF t
  <2>5. \A d \in Cpus : /\ t.rq[d].curr = s1.rq[d].curr /\ t.rq[d].prio = s1.rq[d].prio
    BY <1>4, <2>4 DEF Lean, Calm
  <2>6. t.task[p].prio = s1.task[p].prio BY <1>3, <1>8 DEF Quiet, SameCore
  <2>7. CASE ~Ordered
    <3>1. Serves(t, c, p) BY <2>2, <2>3, <2>5, <2>7 DEF Serves
    <3> QED BY <1>9, <1>11, <2>2, <3>1 DEF t
  <2>8. CASE \A d \in s1.task[p].allowed : s1.rq[d].prio <= s1.task[p].prio
    <3>1. Serves(t, c, p) BY <2>2, <2>3, <2>5, <2>6, <2>8 DEF Serves
    <3> QED BY <1>9, <1>11, <2>2, <3>1 DEF t
  <2>9. CASE Ordered /\ target.cpu \in s1.task[p].allowed /\ target.prio = s1.rq[target.cpu].prio
    <3>1. s1.task[p].policy # "idleprio" BY <1>3, <2>9 DEF Plain
    <3>2. Serves(t, target.cpu, p)
      <4>1. CASE can_preempt(s1.task[p], target.prio, s1.rq[target.cpu].deadline)
        BY <1>2, <1>5, <2>1, <3>1, <4>1, ReschedServes
      <4>2. CASE ~can_preempt(s1.task[p], target.prio, s1.rq[target.cpu].deadline)
        <5>1. s1.task[p].prio \in Nat /\ s1.rq[target.cpu].prio \in Nat BY <1>2, <1>5, PrioTypes
        <5>2. s1.rq[target.cpu].prio <= s1.task[p].prio BY <2>9, <4>2, <5>1 DEF can_preempt
        <5> QED BY <1>5, <2>3, <2>5, <2>6, <2>9, <5>2 DEF Serves
      <4> QED BY <4>1, <4>2
    <3> QED BY <1>9, <1>11, <2>9, <3>2 DEF t
  <2> QED BY <1>6, <2>7, <2>8, <2>9
<1> QED BY <1>12, <1>13
-----------------------------------------------------------------------------
(***************************************************************************)
(* The choice of schedule() is as good as any task in the queue that the   *)
(* CPU may take and that is not away from home.                            *)
(***************************************************************************)
\* earliest_deadline_task looks at the first level where it may take something.
LEMMA EarliestDeadlineLevel ==
  ASSUME NEW s \in SchedState, NEW cpu \in Cpus
  PROVE  LET level == FirstLevel(s, cpu)
             edt   == EarliestDeadline(s, cpu)
         IN  \/ /\ edt = Idle
                /\ \A prio \in s.grq.prio_bitmap : Eligible(s, prio, cpu) = {}
             \/ /\ level \in QueuePrios
                /\ \A prio \in s.grq.prio_bitmap : Eligible(s, prio, cpu) # {} => level <= prio
                /\ \E i \in Eligible(s, level, cpu) : edt = s.grq.queue[level][i]
<1> DEFINE level == FirstLevel(s, cpu)
           q     == s.grq.queue[level]
           el    == Eligible(s, level, cpu)
           dl(i) == IF rt_prio(level) THEN 0 ELSE EffectiveDeadline(s, q[i], cpu)
           before(i, j) == dl(i) < dl(j) \/ (dl(i) = dl(j) /\ i <= j)
           R == {x \in el \X el : before(x[1], x[2])}
           levels == {prio \in s.grq.prio_bitmap : Eligible(s, prio, cpu) # {}}
<1>1. s.grq.queue \in [QueuePrios -> Seq(Tasks)] /\ s.grq.prio_bitmap \in SUBSET QueuePrios
  BY StateParts, GrqFields
<1>2. CASE levels = {}
  <2>1. level = PRIO_LIMIT BY <1>2 DEF FirstLevel
  <2>2. EarliestDeadline(s, cpu) = Idle BY <2>1 DEF EarliestDeadline
  <2> QED BY <1>2, <2>2
<1>3. CASE levels # {}
  <2>1. levels \subseteq Nat BY <1>1 DEF QueuePrios
  <2>2. \E l \in levels : \A m \in levels : l <= m BY <1>3, <2>1, NatMin
  <2>3. level = CHOOSE l \in levels : \A m \in levels : l <= m BY <1>3 DEF FirstLevel
  <2>4. level \in levels /\ \A m \in levels : level <= m BY <2>2, <2>3
  <2>5. level \in QueuePrios /\ el # {} BY <1>1, <2>4
  <2>5a. level # PRIO_LIMIT BY <2>5, PrioAssumption DEF QueuePrios, PRIO_LIMIT
  <2>5b. \A prio \in s.grq.prio_bitmap : Eligible(s, prio, cpu) # {} => level <= prio BY <2>4
  <2> HIDE DEF level, levels
  <2>6. q \in Seq(Tasks) BY <1>1, <2>5
  <2>7. el \subseteq DOMAIN q BY DEF Eligible
  <2> HIDE DEF el, q
  <2>8. Len(q) \in Nat /\ el \subseteq 1 .. Len(q) /\ \A i \in el : q[i] \in Tasks BY <2>6, <2>7
  <2>9. \A i \in el : dl(i) \in Int
    <3> SUFFICES ASSUME NEW i \in el PROVE dl(i) \in Int OBVIOUS
    <3>1. EffectiveDeadline(s, q[i], cpu) \in Nat BY <2>8, EffectiveDeadlineType
    <3> QED BY <3>1
  <2> HIDE DEF dl
  <2>10. \A a, b \in el : <<a, b>> \in R <=> before(a, b) OBVIOUS
  <2>11. \A a \in el : a \in Int BY <2>8
  <2>12. \A a, b \in el : before(a, b) \/ before(b, a) BY <2>9, <2>11
  <2>13. \A a, b, c \in el : before(a, b) /\ before(b, c) => before(a, c) BY <2>9, <2>11
  <2> HIDE DEF before, R
  <2>14. Total(R, el) BY <2>10, <2>12 DEF Total
  <2>15. Transitive(R, el) BY <2>10, <2>13 DEF Transitive
  <2>16. el \subseteq 0 .. Len(q) BY <2>8
  <2>17. PICK i \in el : \A j \in el \ {i} : <<i, j>> \in R
    <3> DEFINE N == Len(q)
    <3>1. N \in Nat BY <2>8
    <3>2. el \subseteq 0 .. N BY <2>16
    <3>3. el # {} BY <2>5
    <3> HIDE DEF N
    <3> QED BY <2>14, <2>15, <3>1, <3>2, <3>3, Best
  <2>18. \A j \in el : before(i, j) BY <2>10, <2>12, <2>17
  <2> DEFINE m == CHOOSE i_1 \in el : \A j \in el : before(i_1, j)
  <2>19. m \in el BY <2>18
  <2>20. EarliestDeadline(s, cpu) = q[m] BY <2>5a DEF EarliestDeadline, level, q, el, dl, before
  <2> HIDE DEF m
  <2> QED BY <2>5, <2>5b, <2>19, <2>20 DEF el, q, level
<1> QED BY <1>2, <1>3

\* So what it takes is as good as any queued task that cpu may take at home.
LEMMA PickBest ==
  ASSUME NEW s \in SchedState, WellFormed(s), NEW cpu \in Cpus, NEW p \in Queued(s),
         cpu \in s.task[p].allowed, ~AwayFromHome(s, p, cpu)
  PROVE  LET edt == EarliestDeadline(s, cpu)
         IN  edt \in Tasks /\ s.task[edt].prio <= s.task[p].prio
<1> DEFINE a     == s.task[p].prio
           level == FirstLevel(s, cpu)
           edt   == EarliestDeadline(s, cpu)
<1>1. a \in QueuePrios /\ InQueue(s.grq.queue[a], p) BY QueuedOn
<1>2. PICK i \in DOMAIN s.grq.queue[a] : s.grq.queue[a][i] = p BY <1>1 DEF InQueue
<1>3. s.grq.queue \in [QueuePrios -> Seq(Tasks)] BY StateParts, GrqFields
<1>4. s.grq.queue[a] # <<>> BY <1>2
<1>5. a \in s.grq.prio_bitmap BY <1>1, <1>4 DEF WellFormed, BitsExact
<1>6. i \in Eligible(s, a, cpu) BY <1>2 DEF Eligible, needs_other_cpu
<1> HIDE DEF a
<1>7. /\ level \in QueuePrios /\ level <= a
      /\ \E j \in Eligible(s, level, cpu) : edt = s.grq.queue[level][j]
  <2>1. \/ /\ edt = Idle
           /\ \A prio \in s.grq.prio_bitmap : Eligible(s, prio, cpu) = {}
        \/ /\ level \in QueuePrios
           /\ \A prio \in s.grq.prio_bitmap : Eligible(s, prio, cpu) # {} => level <= prio
           /\ \E j \in Eligible(s, level, cpu) : edt = s.grq.queue[level][j]
    BY EarliestDeadlineLevel
  <2> HIDE DEF edt, level
  <2> QED BY <1>5, <1>6, <2>1
<1> HIDE DEF level
<1>8. PICK j \in Eligible(s, level, cpu) : edt = s.grq.queue[level][j] BY <1>7
<1>9. j \in DOMAIN s.grq.queue[level] BY DEF Eligible
<1>10. s.grq.queue[level] \in Seq(Tasks) BY <1>3, <1>7
<1>11. s.grq.queue[level][j] \in Tasks BY <1>9, <1>10
<1>12. s.task[s.grq.queue[level][j]].prio = level BY <1>7, <1>9 DEF WellFormed, OwnList
<1> HIDE DEF edt
<1>13. edt \in Tasks /\ s.task[edt].prio <= a BY <1>7, <1>8, <1>11, <1>12
<1> QED BY <1>13 DEF edt, a

\* No cycle is injected, now or later.
Uninjected(j) ==
  /\ j \in InjRec /\ j.global_rate = 0 /\ j.offset \in Nat
  /\ DOMAIN j.limits = {} /\ j.writes = {}

\* Without injection schedule() takes what earliest_deadline_task returns.
LEMMA ChooseUninjected ==
  ASSUME NEW s, NEW j, Uninjected(j), NEW cpu, NoInjection
  PROVE  LET pick == Choose(s, j, cpu)
         IN  /\ pick.next = IF s.grq.qnr = 0 THEN Idle ELSE EarliestDeadline(s, cpu)
             /\ Uninjected(pick.inj)
<1> DEFINE offset  == NextOffset(j)
           edt     == EarliestDeadline(s, cpu)
           scanned == ScanLimits(j.limits, edt)
           other   == IF Hits(j.limits, edt) # {} THEN Idle ELSE edt
           pick    == Choose(s, j, cpu)
<1>1. Choose(s, j, cpu) =
        CASE s.grq.qnr = 0 \/ offset = j.global_rate ->
               [next |-> Idle, inj |-> [j EXCEPT !.offset = 0]]
          [] Scans(s, j, cpu) ->
               [next |-> other, inj |-> [j EXCEPT !.offset = offset, !.limits = scanned]]
          [] OTHER -> [next |-> edt, inj |-> [j EXCEPT !.offset = offset]]
  BY DEF Choose
<1>2. offset \in Nat /\ offset # 0 /\ j.global_rate = 0
  <2>1. MaxOffset \in Nat /\ 0 < MaxOffset BY InjAssumption DEF NoInjection
  <2>2. j.offset \in Nat /\ j.global_rate = 0 BY DEF Uninjected
  <2> QED BY <2>1, <2>2 DEF NextOffset
<1>3. other = edt BY DEF Hits, Uninjected
<1>4. DOMAIN scanned = {} BY DEF ScanLimits, Uninjected
<1>5. scanned \in Seq(LimitRec)
  <2>1. scanned = << >> BY <1>4 DEF ScanLimits
  <2> HIDE DEF scanned
  <2> QED BY <2>1
<1> HIDE DEF offset, scanned, other, edt
<1>6. Uninjected([j EXCEPT !.offset = 0]) BY DEF Uninjected, InjRec
<1>7. Uninjected([j EXCEPT !.offset = offset]) BY <1>2 DEF Uninjected, InjRec
<1>8. Uninjected([j EXCEPT !.offset = offset, !.limits = scanned])
  <2> DEFINE k == [j EXCEPT !.offset = offset, !.limits = scanned]
  <2>1. j \in InjRec /\ j.global_rate = 0 /\ j.writes = {} BY DEF Uninjected
  <2>2. k.limits = scanned /\ k.offset = offset /\ k.global_rate = 0 /\ k.writes = {}
    BY <2>1 DEF InjRec
  <2>3. k \in InjRec
    <3>1. \A o \in Int, l \in Seq(LimitRec) : [j EXCEPT !.offset = o, !.limits = l] \in InjRec
      BY <2>1, InjFields
    <3>2. offset \in Int BY <1>2
    <3> QED BY <1>5, <3>1, <3>2, Zenon
  <2> HIDE DEF k
  <2>4. Uninjected(k) BY <1>2, <1>4, <2>2, <2>3 DEF Uninjected
  <2> QED BY <2>4 DEF k
<1>9. Uninjected(pick.inj) BY <1>1, <1>6, <1>7, <1>8
<1>10. pick.next = IF s.grq.qnr = 0 THEN Idle ELSE edt
  <2>1. Scans(s, j, cpu) => s.grq.qnr # 0 BY DEF Scans
  <2> QED BY <1>1, <1>2, <1>3, <2>1
<1> HIDE DEF pick
<1> QED BY <1>9, <1>10 DEF edt, pick

\* qnr counts the queue while schedule() chooses.
LEMMA GivesBackQnr ==
  ASSUME NEW s \in SchedState, NEW r, NEW prev, NEW fate, GivesBack(s, r, prev, fate),
         s.grq.qnr = Cardinality(Queued(s)), prev \notin Queued(s)
  PROVE  r.grq.qnr = 0 <=> Queued(r) = {}
<1>1. Queued(r) \ {prev} = Queued(s) \ {prev} BY DEF GivesBack, Touch
<1>2. Queued(s) \subseteq Tasks /\ Queued(r) \subseteq Tasks BY DEF Queued
<1>3. /\ Cardinality(Queued(s)) \in Nat
      /\ Cardinality(Queued(r)) = Cardinality(Queued(s)) + (Ind(Queued(r), prev) - Ind(Queued(s), prev))
  BY <1>1, <1>2, CardInd
<1>4. Ind(Queued(s), prev) = 0 BY DEF Ind
<1>5. r.grq.qnr = s.grq.qnr + Ind(Queued(r), prev)
  <2>1. CASE prev = Idle
    <3>1. Ind(Queued(r), prev) = 0 BY <1>2, <2>1, TaskAssumption DEF Ind
    <3> QED BY <2>1, <3>1, TaskAssumption DEF GivesBack, Counts
  <2>2. CASE prev # Idle BY <2>2 DEF GivesBack, Counts, Ind
  <2> QED BY <2>1, <2>2
<1>6. Ind(Queued(r), prev) \in Nat BY DEF Ind
<1>7. r.grq.qnr = Cardinality(Queued(r)) BY <1>3, <1>4, <1>5, <1>6
<1>8. IsFiniteSet(Queued(r)) BY <1>2, TaskAssumption, FS_Subset
<1>9. Cardinality(Queued(r)) = 0 <=> Queued(r) = {} BY <1>8, FS_EmptySet
<1> QED BY <1>7, <1>9
-----------------------------------------------------------------------------
(***************************************************************************)
(* The switch.                                                             *)
(***************************************************************************)
\* take_task unsticks the task it takes.
LEMMA TakeUnsticks ==
  ASSUME NEW s \in SchedState, NEW cpu \in Cpus, NEW p \in Tasks
  PROVE  ~take_task(s, cpu, p).task[p].sticky
<1> DEFINE a == [s EXCEPT !.task[p].cpu = cpu]
           b == dequeue_task(a, p)
<1>1. a \in SchedState BY TaskAssign DEF Step
<1> HIDE DEF a
<1>2. b \in SchedState BY <1>1, DequeueStep DEF Step
<1> HIDE DEF b
<1>3. b.task \in [Tasks -> TaskRec] BY <1>2, StateParts
<1>4. ~clear_sticky(b, p).task[p].sticky BY <1>2, <1>3 DEF clear_sticky, SchedState, TaskRec
<1>5. dec_qnr(clear_sticky(b, p)).task = clear_sticky(b, p).task
  BY <1>2 DEF dec_qnr, clear_sticky, SchedState
<1>6. take_task(s, cpu, p) = dec_qnr(clear_sticky(b, p)) BY DEF take_task, a, b
<1> QED BY <1>4, <1>5, <1>6

\* set_rq_task copies the priority of the task, and touches no task.
LEMMA RqTaskPrio ==
  ASSUME NEW s \in SchedState, NEW cpu \in Cpus, NEW p \in Tasks \cup {Idle}
  PROVE  LET t == [set_rq_task(s, cpu, p) EXCEPT !.rq[cpu].curr = p]
         IN  t.task = s.task /\ t.rq[cpu].prio = RunPrio(t, cpu) /\ t.rq[cpu].curr = p
<1> DEFINE u == set_rq_task(s, cpu, p)
           t == [u EXCEPT !.rq[cpu].curr = p]
           prio == IF p = Idle THEN PRIO_LIMIT ELSE s.task[p].prio
<1>1. s.rq \in [Cpus -> RqRec] BY StateParts
<1>2. u.task = s.task /\ u.rq[cpu].prio = prio
  BY <1>1 DEF set_rq_task, SchedState, RqRec
<1>3. u \in SchedState BY SetRqTaskQuiet DEF Quiet, Step
<1> HIDE DEF u
<1>4. u.rq \in [Cpus -> RqRec] BY <1>3, StateParts
<1>5. t.task = u.task /\ t.rq[cpu].prio = u.rq[cpu].prio /\ t.rq[cpu].curr = p
  BY <1>3, <1>4 DEF SchedState, RqRec
<1> HIDE DEF t
<1>6. t.rq[cpu].prio = RunPrio(t, cpu) BY <1>2, <1>5 DEF RunPrio
<1> QED BY <1>2, <1>5, <1>6 DEF t, u

\* The switch is lean but for its own CPU, which then runs next and knows its priority.
LEMMA SwitchLean ==
  ASSUME NEW s \in SchedState, MapExact(s), NEW cpu \in Cpus,
         NEW prev \in Tasks \cup {Idle}, NEW next \in Tasks \cup {Idle},
         prev = s.rq[cpu].curr
  PROVE  LET t == SwitchTo(s, cpu, prev, next)
         IN  /\ Lean(s, t, {}, {}, {cpu}) /\ t.rq[cpu].curr = next
             /\ next \in Tasks => ~t.task[next].sticky
             /\ \/ t.rq[cpu].prio = RunPrio(t, cpu)
                \/ prev = next /\ t.rq[cpu].prio = s.rq[cpu].prio
<1> DEFINE s1 == IF next = Idle THEN set_cpuidle_map(s, cpu)
                 ELSE clear_cpuidle_map(take_task(s, cpu, next), cpu)
           u  == [s1 EXCEPT !.rq[cpu].sticky_task = NoTask]
           s2 == IF next # Idle /\ rt_prio(s1.task[next].prio)
                 THEN IF prev = Idle THEN u ELSE clear_sticky(u, prev)
                 ELSE s1
           s3 == IF prev = Idle THEN s2 ELSE [s2 EXCEPT !.task[prev].on_cpu = FALSE]
           s4 == IF next = Idle THEN s3 ELSE [s3 EXCEPT !.task[next].on_cpu = TRUE]
           s5 == set_rq_task(s4, cpu, next)
           t  == [s5 EXCEPT !.rq[cpu].curr = next]
           L  == {}
           S  == {}
           C  == {cpu}
<1> HIDE DEF L, S
<1>1. SwitchTo(s, cpu, prev, next) = IF prev = next THEN s1 ELSE t BY DEF SwitchTo
<1>2. s1 \in SchedState /\ s1.rq[cpu].curr = s.rq[cpu].curr BY MapStep
<1>3. /\ Lean(s, s1, L, S, {}) /\ (next \in Tasks => ~s1.task[next].sticky)
  <2>1. CASE next = Idle
    <3>1. s1 = set_cpuidle_map(s, cpu) BY <2>1
    <3>2. set_cpuidle_map(s, cpu).rq = s.rq /\ set_cpuidle_map(s, cpu).task = s.task
      BY DEF set_cpuidle_map, SchedState
    <3> HIDE DEF s1
    <3> QED BY <1>2, <2>1, <3>1, <3>2, NoTaskLean, TaskAssumption
  <2>2. CASE next # Idle
    <3> DEFINE v == take_task(s, cpu, next)
    <3>1. Lean(s, v, L, S, {}) /\ ~v.task[next].sticky BY <2>2, TakeLean, TakeUnsticks
    <3>2. s1 = clear_cpuidle_map(v, cpu) BY <2>2
    <3> HIDE DEF v, s1
    <3>3. v \in SchedState BY <3>1 DEF Lean
    <3>4. clear_cpuidle_map(v, cpu).rq = v.rq /\ clear_cpuidle_map(v, cpu).task = v.task
      BY <3>3 DEF clear_cpuidle_map, SchedState
    <3>5. Lean(v, s1, L, S, {}) BY <1>2, <3>2, <3>4, NoTaskLean
    <3>6. Lean(s, s1, L, S, {}) BY <3>1, <3>5, LeanChain
    <3> QED BY <3>1, <3>2, <3>4, <3>6
  <2> QED BY <2>1, <2>2
<1> HIDE DEF s1
<1>4. Lean(s1, u, L, S, C) BY <1>2, RqLean
<1> HIDE DEF u
<1>5. Lean(s1, s2, L, S, C)
  <2>1. prev # Idle => Lean(s1, clear_sticky(u, prev), L, S, C) BY <1>4, ClearStickyLean, LeanChain
  <2>2. Lean(s1, s1, L, S, C) BY <1>2, LeanRefl
  <2> QED BY <1>4, <2>1, <2>2
<1> HIDE DEF s2
<1>6. Lean(s1, s3, L, S, C)
  <2>1. CASE prev = Idle BY <1>5, <2>1
  <2>2. CASE prev # Idle
    <3>1. prev \in Tasks BY <2>2
    <3>2. s2 \in SchedState => Lean(s2, [s2 EXCEPT !.task[prev].on_cpu = FALSE], L, S, C)
      BY <3>1, TaskLean
    <3>3. Lean(s1, [s2 EXCEPT !.task[prev].on_cpu = FALSE], L, S, C) BY <1>5, <3>2, LeanChain
    <3> QED BY <2>2, <3>3
  <2> QED BY <2>1, <2>2
<1> HIDE DEF s3
<1>7. Lean(s1, s4, L, S, C)
  <2>1. CASE next = Idle BY <1>6, <2>1
  <2>2. CASE next # Idle
    <3>1. next \in Tasks BY <2>2
    <3>2. s3 \in SchedState => Lean(s3, [s3 EXCEPT !.task[next].on_cpu = TRUE], L, S, C)
      BY <3>1, TaskLean
    <3>3. Lean(s1, [s3 EXCEPT !.task[next].on_cpu = TRUE], L, S, C) BY <1>6, <3>2, LeanChain
    <3> QED BY <2>2, <3>3
  <2> QED BY <2>1, <2>2
<1> HIDE DEF s4
<1>8. s4 \in SchedState BY <1>7 DEF Lean
<1>9. Lean(s1, s5, L, S, C) BY <1>7, RqTaskLean, LeanChain
<1>10. s5 \in SchedState BY <1>9 DEF Lean
<1>11. t.rq[cpu].prio = RunPrio(t, cpu) /\ t.rq[cpu].curr = next BY <1>8, RqTaskPrio
<1> HIDE DEF s5
<1>12. Lean(s1, t, L, S, C)
  <2>1. Lean(s5, t, L, S, C) BY <1>10, RqLean
  <2> QED BY <1>9, <2>1, LeanChain
<1> HIDE DEF t
<1>13. Lean(s, s1, L, S, C) BY <1>3 DEF Lean
<1>14. Lean(s, t, L, S, C) BY <1>12, <1>13, LeanChain
<1>15. next \in Tasks => ~t.task[next].sticky BY <1>3, <1>12 DEF Lean, S
<1>16. s1.rq[cpu].prio = s.rq[cpu].prio BY <1>3 DEF Lean
<1> HIDE DEF C
<1>17. CASE prev = next
  <2>1. SwitchTo(s, cpu, prev, next) = s1 BY <1>1, <1>17
  <2> QED BY <1>2, <1>3, <1>13, <1>16, <1>17, <2>1 DEF L, S, C
<1>18. CASE prev # next
  <2>1. SwitchTo(s, cpu, prev, next) = t BY <1>1, <1>18
  <2> QED BY <1>11, <1>14, <1>15, <2>1 DEF L, S, C
<1> QED BY <1>17, <1>18

\* A switch to the best task keeps the invariant, and finishes the step.
LEMMA SwitchAdvancing ==
  ASSUME NEW r \in SchedState, WellFormed(r), MapExact(r), NEW cpu \in Cpus,
         NEW prev \in Tasks \cup {Idle}, prev = r.rq[cpu].curr,
         prev \in Tasks => r.task[prev].on_cpu, Advancing(r, {cpu}),
         NEW next \in Queued(r) \cup {Idle}, next \in Tasks => cpu \in r.task[next].allowed,
         \A p \in Queued(r) : cpu \in r.task[p].allowed /\ ~AwayFromHome(r, p, cpu)
                                => next \in Tasks /\ r.task[next].prio <= r.task[p].prio
  PROVE  Advancing(SwitchTo(r, cpu, prev, next), {})
<1> DEFINE t == SwitchTo(r, cpu, prev, next)
<1>1. Idle \notin Tasks BY TaskAssumption
<1>1a. next \in Tasks \cup {Idle} BY DEF Queued
<1>2. Takes(r, t, cpu) BY SwitchTakes
<1>3. /\ Lean(r, t, {}, {}, {cpu}) /\ t.rq[cpu].curr = next
      /\ next \in Tasks => ~t.task[next].sticky
      /\ \/ t.rq[cpu].prio = RunPrio(t, cpu)
         \/ prev = next /\ t.rq[cpu].prio = r.rq[cpu].prio
  BY <1>1a, SwitchLean
<1> HIDE DEF t
<1>4. t \in SchedState /\ Queued(t) = Queued(r) \ {next} BY <1>2, <1>3 DEF Takes
<1>5. \A p \in Tasks : /\ t.task[p].allowed = r.task[p].allowed
                       /\ t.task[p].cpu = IF p = next THEN cpu ELSE r.task[p].cpu
  BY <1>2, <1>3 DEF Takes
<1>6. \A p \in Tasks : /\ Level(r.task[p], t.task[p])
                       /\ t.task[p].sticky => r.task[p].sticky
                       /\ Steady => Plain(r.task[p]) /\ Plain(t.task[p])
                                      /\ t.task[p].prio = r.task[p].prio
  BY <1>3 DEF Lean, Level, Advancing, Sound
<1>7. Ordered => Steady BY DEF Ordered
<1>8. \A p \in Tasks : /\ r.task[p].allowed \subseteq Cpus /\ r.task[p].cpu \in Cpus
                       /\ r.task[p].prio \in Nat
  BY PrioTypes
<1>9. Known(t)
  <2> SUFFICES ASSUME Ordered, NEW c \in Cpus PROVE t.rq[c].prio = RunPrio(t, c) BY DEF Known
  <2>1. r.rq[c].prio = RunPrio(r, c) BY DEF Advancing, Known
  <2>2. r.rq[c].curr \in Tasks \cup {Idle} BY PrioTypes
  <2>3. ASSUME t.rq[c].curr = r.rq[c].curr, t.rq[c].prio = r.rq[c].prio
        PROVE  t.rq[c].prio = RunPrio(t, c)
    BY <1>6, <1>7, <2>1, <2>2, <2>3 DEF RunPrio
  <2>4. CASE c = cpu BY <1>3, <2>3, <2>4
  <2>5. CASE c # cpu
    <3>1. c \in Cpus \ {cpu} BY <2>5
    <3>2. t.rq[c].curr = r.rq[c].curr /\ t.rq[c].prio = r.rq[c].prio BY <1>3, <3>1 DEF Lean, Calm
    <3> QED BY <2>3, <3>2
  <2> QED BY <2>4, <2>5
<1>10. Placid(t)
  <2>1. Ordered => \A c \in Cpus : t.rq[c].curr \in Tasks => c \in t.task[t.rq[c].curr].allowed
    <3> SUFFICES ASSUME Ordered, NEW c \in Cpus, t.rq[c].curr \in Tasks
                 PROVE  c \in t.task[t.rq[c].curr].allowed
      OBVIOUS
    <3>1. CASE c = cpu BY <1>3, <1>5, <3>1
    <3>2. CASE c # cpu
      <4>1. t.rq[c].curr = r.rq[c].curr BY <1>3, <3>2 DEF Lean, Calm
      <4> QED BY <1>5, <4>1 DEF Advancing, Placid
    <3> QED BY <3>1, <3>2
  <2>2. Ordered /\ MayFork # {} => \A p, q \in Tasks : t.task[p].allowed = t.task[q].allowed
    BY <1>5 DEF Advancing, Placid
  <2> QED BY <2>1, <2>2 DEF Placid
<1>11. \A p \in Tasks : Sound(t.task[p])
  <2> SUFFICES ASSUME NEW p \in Tasks PROVE Sound(t.task[p]) OBVIOUS
  <2>1. Sound(r.task[p]) BY DEF Advancing
  <2>2. Flat => Steady BY DEF Flat
  <2> QED BY <1>5, <1>6, <2>1, <2>2 DEF Sound
<1>12. ASSUME NEW p \in Queued(t), NEW c \in r.task[p].allowed, c \in {cpu} \/ Serves(r, c, p),
              c = cpu => ~AwayFromHome(r, p, cpu)
       PROVE  Serves(t, c, p)
  <2>1. p \in Tasks /\ p \in Queued(r) /\ p # next BY <1>4 DEF Queued
  <2>2. CASE c = cpu
    <3>1. next \in Tasks /\ r.task[next].prio <= r.task[p].prio BY <1>12, <2>1, <2>2
    <3>2. Ordered => t.rq[cpu].prio = t.task[next].prio
      BY <1>1, <1>3, <1>9, <3>1 DEF Known, RunPrio
    <3>3. Ordered => t.rq[cpu].prio <= t.task[p].prio BY <1>6, <1>7, <2>1, <3>1, <3>2
    <3> QED BY <1>1, <1>3, <2>2, <3>1, <3>3 DEF Serves
  <2>3. CASE c # cpu
    <3>1. c \in Cpus \ {cpu} /\ Serves(r, c, p) BY <1>8, <1>12, <2>1, <2>3
    <3>2. Ordered => Plain(r.task[p]) BY <1>6, <1>7, <2>1
    <3> QED BY <1>3, <2>1, <3>1, <3>2, LeanServes
  <2> QED BY <2>2, <2>3
<1>13. ASSUME NEW p \in Queued(t), r.task[p].sticky PROVE Home(t, p, {})
  <2>1. p \in Tasks /\ p \in Queued(r) /\ p # next BY <1>4 DEF Queued
  <2> DEFINE home == r.task[p].cpu
  <2>2. Home(r, p, {cpu}) BY <1>13, <2>1 DEF Advancing
  <2>3. home \in r.task[p].allowed /\ (home \in {cpu} \/ Serves(r, home, p)) BY <2>2 DEF Home
  <2>4. home = cpu => ~AwayFromHome(r, p, cpu) BY DEF AwayFromHome
  <2>5. Serves(t, home, p) BY <1>12, <2>3, <2>4
  <2>6. t.task[p].cpu = home /\ t.task[p].allowed = r.task[p].allowed BY <1>5, <2>1
  <2> QED BY <2>3, <2>5, <2>6 DEF Home
<1>14. \A p \in Queued(t) : ServedBy(t, p, {})
  <2> SUFFICES ASSUME NEW p \in Queued(t) PROVE ServedBy(t, p, {}) OBVIOUS
  <2>1. p \in Tasks /\ p \in Queued(r) BY <1>4 DEF Queued
  <2>2. CASE r.task[p].sticky
    <3>1. Home(t, p, {}) BY <1>13, <2>2
    <3> QED BY <3>1 DEF Home, ServedBy
  <2>3. CASE ~r.task[p].sticky
    <3>1. ServedBy(r, p, {cpu}) BY <2>1 DEF Advancing
    <3>2. PICK c \in r.task[p].allowed : c \in {cpu} \/ Serves(r, c, p) BY <3>1 DEF ServedBy
    <3>3. ~AwayFromHome(r, p, cpu) BY <2>3 DEF AwayFromHome
    <3>4. Serves(t, c, p) BY <1>12, <3>2, <3>3
    <3>5. c \in t.task[p].allowed BY <1>5, <2>1
    <3> QED BY <3>4, <3>5 DEF ServedBy
  <2> QED BY <2>2, <2>3
<1>15. \A p \in Tasks : t.task[p].sticky => Home(t, p, {})
  <2> SUFFICES ASSUME NEW p \in Tasks, t.task[p].sticky PROVE Home(t, p, {}) OBVIOUS
  <2>1. r.task[p].sticky /\ p # next BY <1>3, <1>6
  <2>2. p \in Queued(r) BY <2>1 DEF Advancing, Home
  <2> QED BY <1>4, <1>13, <2>1, <2>2
<1>16. Advancing(t, {}) BY <1>9, <1>10, <1>11, <1>14, <1>15 DEF Advancing
<1> QED BY <1>16 DEF t

\* Choosing and switching, once prev is given back.
LEMMA PickAdvancing ==
  ASSUME PInv, NoInjection, Uninjected(inj), NEW cpu \in Cpus, NEW r \in SchedState,
         NEW fate, GivesBack(sched, r, rq[cpu].curr, fate), Advancing(r, {cpu}),
         PickAndSwitch(r, cpu, rq[cpu].curr)
  PROVE  Advancing(sched', {}) /\ Uninjected(inj')
<1> DEFINE prev == rq[cpu].curr
           pick == Choose(r, inj, cpu)
           next == pick.next
           edt  == EarliestDeadline(r, cpu)
           t    == SwitchTo(r, cpu, prev, next)
<1>1. /\ sched \in SchedState /\ MapExact(sched) /\ sched.rq = rq /\ Placed(sched)
      /\ Counted(sched)
  BY PFacts, IInvSched
<1>2. Become(t) /\ inj' = pick.inj BY DEF PickAndSwitch
<1>3. Step(sched, r) /\ WellFormed(r) BY DEF GivesBack, Touch
<1>4. MapExact(r) BY <1>1, <1>3, StepExact
<1>5. prev = r.rq[cpu].curr BY <1>1, <1>3 DEF Step
<1>6. prev \in Tasks \cup {Idle} BY <1>5, StateParts, RqFields
<1>7. prev \in Tasks => r.task[prev].on_cpu BY TaskAssumption DEF GivesBack
<1>8. next \in Queued(r) \cup {Idle} /\ (next \in Tasks => cpu \in r.task[next].allowed)
  BY ChooseNext
<1>9. next = (IF r.grq.qnr = 0 THEN Idle ELSE edt) /\ Uninjected(pick.inj) BY ChooseUninjected
<1>10. prev \notin Queued(sched) BY <1>1, <1>6 DEF Placed, PlacedTask, Queued
<1>11. r.grq.qnr = 0 <=> Queued(r) = {} BY <1>1, <1>10, GivesBackQnr DEF Counted
<1> HIDE DEF pick, prev, next, edt
<1>12. ASSUME NEW p \in Queued(r), cpu \in r.task[p].allowed, ~AwayFromHome(r, p, cpu)
       PROVE  next \in Tasks /\ r.task[next].prio <= r.task[p].prio
  <2>1. next = edt BY <1>9, <1>11
  <2>2. edt \in Tasks /\ r.task[edt].prio <= r.task[p].prio BY <1>3, <1>12, PickBest DEF edt
  <2> QED BY <2>1, <2>2
<1>13. Advancing(t, {}) BY <1>3, <1>4, <1>5, <1>6, <1>7, <1>8, <1>12, SwitchAdvancing
<1>14. Takes(r, t, cpu) BY <1>3, <1>4, <1>5, <1>6, <1>7, <1>8, SwitchTakes
<1>15. t \in SchedState BY <1>14 DEF Takes
<1> HIDE DEF t
<1>16. sched' = t BY <1>2, <1>15, BecomeSched
<1> QED BY <1>2, <1>9, <1>13, <1>16
-----------------------------------------------------------------------------
(***************************************************************************)
(* schedule().                                                             *)
(***************************************************************************)
\* StoreBack leaves the rq's copy of the priority alone.
LEMMA StoreBackPrio ==
  ASSUME NEW s \in SchedState, NEW cpu \in Cpus, NEW prev \in Tasks
  PROVE  \A c \in Cpus : StoreBack(s, cpu, prev).rq[c].prio = s.rq[c].prio
<1> DEFINE slice == s.rq[cpu].time_slice
           dl    == s.rq[cpu].deadline
           a == [s EXCEPT !.task[prev].time_slice = slice]
           b == [a EXCEPT !.task[prev].deadline = dl]
           c == [b EXCEPT !.rq[cpu].need_resched = FALSE]
<1>1. slice \in 0 .. SLICE /\ dl \in Nat BY StateParts, RqFields
<1>2. StoreBack(s, cpu, prev) = check_deadline(c, prev) BY DEF StoreBack
<1> HIDE DEF slice, dl
<1>3. a \in SchedState /\ a.rq = s.rq
  <2>1. a.rq = s.rq BY DEF SchedState
  <2> QED BY <1>1, <2>1, TaskAssign DEF Step
<1> HIDE DEF a
<1>4. b \in SchedState /\ b.rq = s.rq
  <2>1. b.rq = s.rq BY <1>3 DEF SchedState
  <2> QED BY <1>1, <1>3, <2>1, TaskAssign DEF Step
<1> HIDE DEF b
<1>5. b.rq \in [Cpus -> RqRec] BY <1>4, StateParts
<1>6. c \in SchedState BY <1>4, RqAssign DEF Step
<1>7. \A d \in Cpus : c.rq[d].prio = b.rq[d].prio BY <1>4, <1>5 DEF SchedState, RqRec
<1> HIDE DEF c
<1>8. Lean(c, check_deadline(c, prev), {}, {}, {}) BY <1>6, CheckDeadlineLean
<1>9. \A d \in Cpus : check_deadline(c, prev).rq[d].prio = c.rq[d].prio BY <1>8 DEF Lean
<1> QED BY <1>2, <1>4, <1>7, <1>9

\* A task that is given back keeps its cpu.
LEMMA GiveBackCpu ==
  ASSUME NEW s \in SchedState, WellFormed(s), NEW cpu \in Cpus, NEW prev \in Tasks,
         prev \notin Queued(s), NEW deactivate \in BOOLEAN, NEW fit \in BOOLEAN
  PROVE  Bury(GiveBack(s, cpu, prev, deactivate, fit), prev).task[prev].cpu = s.task[prev].cpu
<1> DEFINE s1 == CASE needs_other_cpu(s, prev, cpu) -> resched_suitable_idle(s, prev)
                   [] ~needs_other_cpu(s, prev, cpu) /\ ~deactivate -> swap_sticky(s, cpu, prev)
                   [] OTHER -> s
           g  == return_task(s1, prev, deactivate, fit)
<1>1. Quiet(s, s1)
  <2>1. Quiet(s, resched_suitable_idle(s, prev)) BY SuitableIdleQuiet
  <2>2. Quiet(s, swap_sticky(s, cpu, prev)) BY SwapStickyQuiet
  <2>3. Quiet(s, s) BY QuietRefl
  <2> QED BY <2>1, <2>2, <2>3
<1>2. GiveBack(s, cpu, prev, deactivate, fit) = g BY DEF GiveBack
<1> HIDE DEF s1
<1>3. /\ s1 \in SchedState /\ Queued(s1) = Queued(s) /\ WellFormed(s1)
      /\ SameCore(s1.task[prev], s.task[prev])
  BY <1>1, QuietEffect
<1>4. Touch(s1, g, prev) /\ Unmoved(s1, g, prev) BY <1>3, ReturnTouch
<1>5. g \in SchedState BY <1>4 DEF Touch, Step
<1> HIDE DEF g
<1>6. g.task[prev].cpu = s.task[prev].cpu BY <1>3, <1>4 DEF Unmoved, SameCore
<1>7. g.task \in [Tasks -> TaskRec] BY <1>5, StateParts
<1>8. Bury(g, prev).task[prev].cpu = g.task[prev].cpu
  <2>1. CASE g.task[prev].state # "dead" BY <2>1 DEF Bury
  <2>2. CASE g.task[prev].state = "dead" BY <1>5, <1>7, <2>2 DEF Bury, SchedState, TaskRec
  <2> QED BY <2>1, <2>2
<1> QED BY <1>2, <1>6, <1>8

\* It does not become sticky if it cannot stay or goes to sleep.
LEMMA GiveBackUnstuck ==
  ASSUME NEW s \in SchedState, NEW cpu \in Cpus, NEW prev \in Tasks,
         NEW deactivate \in BOOLEAN, NEW fit, needs_other_cpu(s, prev, cpu) \/ deactivate
  PROVE  Lean(s, Bury(GiveBack(s, cpu, prev, deactivate, fit), prev), {}, {}, {})
<1> DEFINE s1 == IF needs_other_cpu(s, prev, cpu) THEN resched_suitable_idle(s, prev) ELSE s
           g  == return_task(s1, prev, deactivate, fit)
<1>1. GiveBack(s, cpu, prev, deactivate, fit) = g BY DEF GiveBack
<1>2. Lean(s, s1, {}, {}, {}) BY SuitableIdleLean, LeanRefl
<1> HIDE DEF s1
<1>3. Lean(s, g, {}, {}, {}) BY <1>2, ReturnLean, LeanChain
<1> HIDE DEF g
<1>4. g \in SchedState => Lean(g, Bury(g, prev), {}, {}, {}) BY BuryLean
<1>5. Lean(s, Bury(g, prev), {}, {}, {}) BY <1>3, <1>4, LeanChain
<1> QED BY <1>1, <1>5

\* One that must go elsewhere finds a CPU there.
LEMMA GiveBackElsewhere ==
  ASSUME NEW s \in SchedState, MapExact(s), NEW cpu \in Cpus, NEW prev \in Tasks,
         NEW deactivate \in BOOLEAN, NEW fit, needs_other_cpu(s, prev, cpu), ~Ordered,
         s.task[prev].allowed # {}
  PROVE  \E c \in s.task[prev].allowed :
           Serves(Bury(GiveBack(s, cpu, prev, deactivate, fit), prev), c, prev)
<1> DEFINE s1 == resched_suitable_idle(s, prev)
           g  == return_task(s1, prev, deactivate, fit)
           r  == Bury(g, prev)
<1>1. GiveBack(s, cpu, prev, deactivate, fit) = g BY DEF GiveBack
<1>2. PICK c \in s.task[prev].allowed : Serves(s1, c, prev) BY SuitableIdleServes
<1>3. Lean(s, s1, {}, {}, {}) BY SuitableIdleLean
<1>4. s1 \in SchedState BY <1>3 DEF Lean
<1> HIDE DEF s1
<1>5. Lean(s1, g, {}, {}, {}) BY <1>4, ReturnLean
<1> HIDE DEF g
<1>6. g \in SchedState => Lean(g, r, {}, {}, {}) BY BuryLean
<1>7. Lean(s1, r, {}, {}, {}) BY <1>5, <1>6, LeanChain
<1> HIDE DEF r
<1>8. c \in Cpus BY PrioTypes
<1>9. Serves(r, c, prev) BY <1>2, <1>4, <1>7, <1>8, LeanServes
<1> QED BY <1>1, <1>9 DEF r

\* schedule() from a task.
LEMMA ScheduleTaskAdvancing ==
  ASSUME PInv, NoInjection, Uninjected(inj), Advancing(sched, {}),
         NEW cpu \in Cpus, rq[cpu].curr \in Tasks, NEW deactivate \in BOOLEAN,
         NEW s0 \in SchedState, ScheduleTask(cpu, deactivate, s0), Lean(sched, s0, {}, {}, {}),
         Touch(sched, s0, rq[cpu].curr), Queued(s0) = Queued(sched), SameCounts(sched, s0),
         s0.task[rq[cpu].curr].on_cpu = task[rq[cpu].curr].on_cpu,
         s0.task[rq[cpu].curr].cpu = task[rq[cpu].curr].cpu,
         s0.task[rq[cpu].curr].allowed = task[rq[cpu].curr].allowed,
         deactivate => s0.task[rq[cpu].curr].state \in {"interruptible", "uninterruptible", "dead"},
         ~deactivate => s0.task[rq[cpu].curr].state \notin {"none", "new", "dead"},
         \/ s0.task[rq[cpu].curr].state = task[rq[cpu].curr].state
         \/ ~deactivate /\ task[rq[cpu].curr].state \notin {"none", "new", "dead"}
  PROVE  Advancing(sched', {}) /\ Uninjected(inj')
<1> DEFINE prev == rq[cpu].curr
<1>1. PICK d \in Advances, e \in 0 .. 1, fit \in BOOLEAN :
        LET s == StoreBack(update_cpu_clock(update_clocks(s0, d), cpu, e), cpu, prev)
        IN  IF Rerun(s, cpu, prev, deactivate)
            THEN Become(s) /\ UNCHANGED inj
            ELSE PickAndSwitch(Bury(GiveBack(s, cpu, prev, deactivate, fit), prev), cpu, prev)
  BY DEF ScheduleTask
<1> DEFINE a == update_clocks(s0, d)
           b == update_cpu_clock(a, cpu, e)
           m == StoreBack(b, cpu, prev)
           g == GiveBack(m, cpu, prev, deactivate, fit)
           r == Bury(g, prev)
<1>2. d \in Nat BY DEF Advances
<1>3. /\ prev \in Tasks /\ prev = rq[cpu].curr /\ Touch(sched, s0, prev)
      /\ s0.task[prev].on_cpu = task[prev].on_cpu /\ s0.task[prev].cpu = task[prev].cpu
      /\ s0.task[prev].allowed = task[prev].allowed
      /\ deactivate => s0.task[prev].state \in {"interruptible", "uninterruptible", "dead"}
      /\ ~deactivate => s0.task[prev].state \notin {"none", "new", "dead"}
      /\ \/ s0.task[prev].state = task[prev].state
         \/ ~deactivate /\ task[prev].state \notin {"none", "new", "dead"}
  OBVIOUS
<1>4. \/ Rerun(m, cpu, prev, deactivate) /\ Become(m) /\ UNCHANGED inj
      \/ PickAndSwitch(r, cpu, prev)
  BY <1>1
<1> HIDE DEF prev
<1>5. Quiet(s0, a) /\ Lean(sched, a, {}, {}, {}) BY <1>2, ClocksQuiet, ClocksLean, LeanChain
<1> HIDE DEF a
<1>6. Quiet(s0, b) /\ Lean(sched, b, {}, {}, {})
  BY <1>5, CpuClockQuiet, QuietChain, CpuClockLean, LeanChain
<1>6a. b \in SchedState BY <1>6 DEF Lean
<1> HIDE DEF b
<1>7. Quiet(s0, m) BY <1>3, <1>6, StoreBackQuiet, QuietChain
<1>7a. Lean(b, m, {}, {}, {cpu}) /\ \A c \in Cpus : m.rq[c].prio = b.rq[c].prio
  BY <1>3, <1>6a, StoreBackLean, StoreBackPrio
<1> HIDE DEF m
<1>7b. \A c \in Cpus : m.rq[c].prio = sched.rq[c].prio BY <1>6, <1>7a DEF Lean
<1>7c. Lean(sched, m, {}, {}, {cpu})
  <2>1. Lean(sched, b, {}, {}, {cpu}) BY <1>6 DEF Lean
  <2> QED BY <1>7a, <2>1, LeanChain
<1>8. /\ sched \in SchedState /\ WellFormed(sched) /\ sched.task = task /\ sched.rq = rq
      /\ Placed(sched) /\ Counted(sched) /\ MapExact(sched)
  BY PFacts, IInvSched
<1>9. /\ Touch(sched, m, prev) /\ Queued(m) = Queued(s0) /\ SameCounts(s0, m)
      /\ SameCore(m.task[prev], s0.task[prev])
  BY <1>3, <1>7, <1>8, AfterQuiet
<1>10. m \in SchedState /\ WellFormed(m) /\ Queued(m) = Queued(sched) /\ SameCounts(sched, m)
  BY <1>9 DEF Touch, Step, SameCounts
<1>11. /\ m.task[prev].state = s0.task[prev].state /\ m.task[prev].on_cpu = sched.task[prev].on_cpu
       /\ m.task[prev].cpu = sched.task[prev].cpu
       /\ m.task[prev].allowed = sched.task[prev].allowed
  BY <1>3, <1>8, <1>9 DEF SameCore
<1>12. /\ sched.task[prev].on_cpu /\ prev \notin Queued(sched) /\ sched.task[prev].cpu = cpu
  BY <1>3, <1>8 DEF Placed, PlacedTask
<1>13. Advancing(sched, {cpu}) BY AdvancingMore
<1>14. CASE Rerun(m, cpu, prev, deactivate) /\ Become(m) /\ UNCHANGED inj
  <2>1. sched' = m BY <1>10, <1>14, BecomeSched
  <2>2. m.grq.qnr = 0 /\ m.grq.qnr = sched.grq.qnr BY <1>10, <1>14 DEF Rerun, SameCounts
  <2>3. Cardinality(Queued(sched)) = 0 BY <1>8, <2>2 DEF Counted
  <2>4. Queued(sched) \subseteq Tasks BY DEF Queued
  <2>5. IsFiniteSet(Queued(sched)) BY <2>4, TaskAssumption, FS_Subset
  <2>6. Queued(sched) = {} BY <2>3, <2>5, FS_EmptySet
  <2>7. Advancing(m, {cpu})
    BY <1>7b, <1>7c, <1>8, <1>9, <1>10, <1>11, <1>13, CalmAdvancing
  <2>8. Advancing(m, {}) BY <1>10, <2>6, <2>7, AdvancingNone
  <2>9. Uninjected(inj') BY <1>14
  <2> QED BY <2>1, <2>8, <2>9
<1>15. CASE PickAndSwitch(r, cpu, prev)
  <2> DEFINE fate == Fate(m, prev, deactivate)
  <2>1. deactivate => m.task[prev].state \in {"interruptible", "uninterruptible", "dead"}
    BY <1>3, <1>11
  <2>2. ~deactivate => m.task[prev].state \notin {"none", "new", "dead"} BY <1>3, <1>11
  <2>3. m.task[prev].on_cpu /\ prev \notin Queued(m) BY <1>10, <1>11, <1>12
  <2>4. GivesBack(m, r, prev, fate) BY <1>3, <1>10, <2>1, <2>2, <2>3, GiveBackEffect
  <2>5. fate \in {"ready", "asleep", "gone"} /\ (~deactivate <=> fate = "ready") BY DEF Fate
  <2>6. \/ m.task[prev].state = sched.task[prev].state
        \/ fate = "ready" /\ sched.task[prev].state \notin {"none", "new", "dead"}
    BY <1>3, <1>8, <1>11, <2>5
  <2>7. Lean(m, r, {}, {prev}, {})
    <3>1. prev \in {prev} OBVIOUS
    <3>2. Lean(m, g, {}, {prev}, {}) BY <1>3, <1>10, <3>1, GiveBackLean
    <3> HIDE DEF g
    <3>3. g \in SchedState => Lean(g, r, {}, {prev}, {}) BY <1>3, BuryLean
    <3> HIDE DEF r
    <3> QED BY <3>2, <3>3, LeanChain
  <2>8. needs_other_cpu(m, prev, cpu) \/ deactivate => Lean(m, r, {}, {}, {})
    BY <1>3, <1>10, GiveBackUnstuck
  <2>9. r.task[prev].cpu = cpu BY <1>3, <1>10, <1>11, <1>12, <2>3, GiveBackCpu
  <2>10. MapExact(m) BY <1>8, <1>9, StepExact DEF Touch
  <2>11. m.task[prev].allowed # {} BY <1>3, <1>11 DEF Advancing, Sound
  <2>12. needs_other_cpu(m, prev, cpu) =>
           ~Ordered /\ \E c \in m.task[prev].allowed : Serves(r, c, prev)
    <3>1. SUFFICES ASSUME needs_other_cpu(m, prev, cpu)
                   PROVE  ~Ordered /\ \E c \in m.task[prev].allowed : Serves(r, c, prev)
      OBVIOUS
    <3>2. ~Ordered BY <1>3, <1>8, <1>11, <3>1 DEF Advancing, Placid, needs_other_cpu
    <3> QED BY <1>3, <1>10, <2>10, <2>11, <3>1, <3>2, GiveBackElsewhere
  <2> HIDE DEF fate, r, g
  <2>13. GivesBack(sched, r, prev, fate)
    BY <1>3, <1>8, <1>9, <1>10, <1>11, <2>4, <2>6, GivesBackAfter
  <2>14. r \in SchedState /\ Touch(sched, r, prev) /\ r.task[prev].allowed = sched.task[prev].allowed
    BY <1>3, <2>13, TaskAssumption DEF GivesBack, Touch, Step
  <2>15. prev \in Queued(r) <=> fate = "ready" BY <1>3, <2>13, TaskAssumption DEF GivesBack
  <2>16. Lean(sched, r, {}, {prev}, {cpu})
    <3>1. Lean(m, r, {}, {prev}, {cpu}) BY <2>7 DEF Lean
    <3>2. Lean(sched, m, {}, {prev}, {cpu}) BY <1>7c DEF Lean
    <3> QED BY <3>1, <3>2, LeanChain
  <2>17. \A c \in Cpus : r.rq[c].prio = sched.rq[c].prio BY <1>7b, <2>7 DEF Lean
  <2>18. CASE ~needs_other_cpu(m, prev, cpu) /\ ~deactivate
    <3>1. cpu \in r.task[prev].allowed BY <1>11, <2>14, <2>18 DEF needs_other_cpu
    <3>2. ServedBy(r, prev, {cpu}) BY <3>1 DEF ServedBy
    <3>3. prev \in Queued(r) BY <2>5, <2>15, <2>18
    <3>4. Home(r, prev, {cpu}) BY <2>9, <3>1, <3>3 DEF Home
    <3>5. Advancing(r, {cpu})
      BY <1>8, <1>13, <2>14, <2>16, <2>17, <3>2, <3>4, LeanAdvancing
    <3> QED BY <1>3, <1>15, <2>13, <2>14, <3>5, PickAdvancing
  <2>19. CASE needs_other_cpu(m, prev, cpu) \/ deactivate
    <3>1. ~r.task[prev].sticky
      <4>1. ~sched.task[prev].sticky BY <1>3, <1>12 DEF Advancing, Home
      <4>2. ~m.task[prev].sticky BY <1>3, <1>7c, <4>1 DEF Lean
      <4> QED BY <1>3, <2>8, <2>19, <4>2 DEF Lean
    <3>2. prev \in Queued(r) => ServedBy(r, prev, {cpu})
      <4>1. CASE deactivate BY <2>5, <2>15, <4>1
      <4>2. CASE needs_other_cpu(m, prev, cpu)
        <5>1. PICK c \in m.task[prev].allowed : Serves(r, c, prev) BY <2>12, <4>2
        <5>2. c \in r.task[prev].allowed BY <1>11, <2>14
        <5> QED BY <5>1, <5>2 DEF ServedBy
      <4> QED BY <2>19, <4>1, <4>2
    <3>3. Advancing(r, {cpu})
      BY <1>8, <1>13, <2>14, <2>16, <2>17, <3>1, <3>2, LeanAdvancing
    <3> QED BY <1>3, <1>15, <2>13, <2>14, <3>3, PickAdvancing
  <2> QED BY <2>18, <2>19
<1> QED BY <1>4, <1>14, <1>15

\* schedule(), whoever calls it.
LEMMA ScheduleAdvancing ==
  ASSUME PInv, NoInjection, Uninjected(inj), Advancing(sched, {}), NEW cpu \in Cpus, Schedule(cpu)
  PROVE  Advancing(sched', {}) /\ Uninjected(inj')
<1>1. /\ sched \in SchedState /\ WellFormed(sched) /\ sched.task = task /\ sched.rq = rq
      /\ Placed(sched)
  BY PFacts
<1>2. CASE ScheduleFromIdle(cpu)
  <2>1. PICK d \in Advances :
          PickAndSwitch([update_clocks(sched, d) EXCEPT !.rq[cpu].need_resched = FALSE], cpu, Idle)
    BY <1>2 DEF ScheduleFromIdle
  <2> DEFINE a == update_clocks(sched, d)
             r == [a EXCEPT !.rq[cpu].need_resched = FALSE]
  <2>2. d \in Nat BY DEF Advances
  <2>3. Quiet(sched, a) /\ Lean(sched, a, {}, {}, {}) BY <1>1, <2>2, ClocksQuiet, ClocksLean
  <2>3a. a \in SchedState /\ \A c \in Cpus : a.rq[c].prio = sched.rq[c].prio BY <2>3 DEF Lean
  <2>4. PickAndSwitch(r, cpu, Idle) BY <2>1
  <2> HIDE DEF a
  <2>5. Quiet(sched, r) BY <1>1, <2>3, RqQuiet, QuietChain
  <2>5a. Lean(a, r, {}, {}, {cpu}) BY <2>3a, RqLean
  <2>5b. \A c \in Cpus : r.rq[c].prio = a.rq[c].prio
    <3>1. a.rq \in [Cpus -> RqRec] BY <2>3a, StateParts
    <3> QED BY <2>3a, <3>1 DEF SchedState, RqRec
  <2> HIDE DEF r
  <2>5c. Lean(sched, r, {}, {}, {cpu})
    <3>1. Lean(sched, a, {}, {}, {cpu}) BY <2>3 DEF Lean
    <3> QED BY <2>5a, <3>1, LeanChain
  <2>6. /\ r \in SchedState /\ Queued(r) = Queued(sched) /\ WellFormed(r) /\ SameCounts(sched, r)
        /\ \A p \in Tasks : SameCore(r.task[p], sched.task[p])
    BY <1>1, <2>5, QuietEffect
  <2>7. Touch(sched, r, Idle) BY <2>5, <2>6 DEF Touch, Quiet, Others
  <2>8. Counts(sched, r, 0, 0, 0) BY <1>1, <2>6, CountsType DEF Counts, SameCounts
  <2>9. GivesBack(sched, r, Idle, "gone") BY <2>7, <2>8 DEF GivesBack
  <2>10. Idle = rq[cpu].curr BY <1>2 DEF ScheduleFromIdle
  <2>11. Advancing(sched, {cpu}) BY AdvancingMore
  <2>12. Advancing(r, {cpu}) BY <1>1, <2>3a, <2>5, <2>5b, <2>5c, <2>11, QuietAdvancing
  <2> QED BY <2>4, <2>6, <2>9, <2>10, <2>12, PickAdvancing
<1>3. ASSUME rq[cpu].curr \in Tasks, NEW deactivate \in BOOLEAN,
             ScheduleTask(cpu, deactivate, sched),
             deactivate => task[rq[cpu].curr].state \in {"interruptible", "uninterruptible", "dead"},
             ~deactivate => task[rq[cpu].curr].state \notin {"none", "new", "dead"}
      PROVE  Advancing(sched', {}) /\ Uninjected(inj')
  <2>1. Touch(sched, sched, rq[cpu].curr) BY <1>1, StepRefl DEF Touch, Others, SameCore
  <2>2. SameCounts(sched, sched) BY DEF SameCounts
  <2>3. Lean(sched, sched, {}, {}, {}) BY <1>1, LeanRefl
  <2> QED BY <1>1, <1>3, <2>1, <2>2, <2>3, ScheduleTaskAdvancing
<1>4. CASE ScheduleYield(cpu)
  <2>1. rq[cpu].curr \in Tasks /\ ScheduleTask(cpu, FALSE, sched) /\ task[rq[cpu].curr].state = "running"
    BY <1>4 DEF ScheduleYield
  <2> QED BY <1>3, <2>1
<1>5. CASE SchedulePreempt(cpu)
  <2>1. rq[cpu].curr \in Tasks /\ ScheduleTask(cpu, FALSE, sched) /\ task[rq[cpu].curr].state # "dead"
    BY <1>5 DEF SchedulePreempt
  <2>2. task[rq[cpu].curr].state \notin {"none", "new"}
    BY <1>1, <2>1 DEF Placed, PlacedTask
  <2> QED BY <1>3, <2>1, <2>2
<1>6. CASE ScheduleSignalPending(cpu)
  <2> DEFINE p  == rq[cpu].curr
             s0 == [sched EXCEPT !.task[p].state = "running"]
  <2>1. /\ p \in Tasks /\ task[p].state = "interruptible" /\ ScheduleTask(cpu, FALSE, s0)
        /\ p = rq[cpu].curr
    BY <1>6 DEF ScheduleSignalPending
  <2>2. "running" \in TaskStates BY DEF TaskStates
  <2> HIDE DEF p
  <2>3. /\ Touch(sched, s0, p) /\ Queued(s0) = Queued(sched) /\ SameCounts(sched, s0)
        /\ s0.task[p].state = "running" /\ s0.task[p].on_cpu = sched.task[p].on_cpu
        /\ s0.task[p].cpu = sched.task[p].cpu /\ s0.task[p].allowed = sched.task[p].allowed
    BY <1>1, <2>1, <2>2, StateWrite
  <2>4. Lean(sched, s0, {}, {}, {}) BY <1>1, <2>1, <2>2, TaskLean
  <2> HIDE DEF s0
  <2>5. s0 \in SchedState BY <2>3 DEF Touch, Step
  <2> QED BY <1>1, <2>1, <2>3, <2>4, <2>5, ScheduleTaskAdvancing
<1>7. CASE ScheduleSleep(cpu)
  <2>1. /\ rq[cpu].curr \in Tasks /\ ScheduleTask(cpu, TRUE, sched)
        /\ task[rq[cpu].curr].state \in {"interruptible", "uninterruptible"}
    BY <1>7 DEF ScheduleSleep
  <2> QED BY <1>3, <2>1
<1>8. CASE ScheduleExit(cpu)
  <2>1. /\ rq[cpu].curr \in Tasks /\ ScheduleTask(cpu, TRUE, sched)
        /\ task[rq[cpu].curr].state = "dead"
    BY <1>8 DEF ScheduleExit
  <2> QED BY <1>3, <2>1
<1> QED BY <1>2, <1>4, <1>5, <1>6, <1>7, <1>8 DEF Schedule
-----------------------------------------------------------------------------
(***************************************************************************)
(* The handlers that are about no task, or do not queue the one they are   *)
(* about.                                                                  *)
(***************************************************************************)
\* A handler that ends in a state reached by lean steps.
LEMMA BecomeLean ==
  ASSUME NEW t, NEW L, NEW S, NEW C, Lean(sched, t, L, S, C), Become(t)
  PROVE  sched' = t /\ Lean(sched, sched', L, S, C)
<1>1. sched' = t BY BecomeSched DEF Lean
<1> QED BY <1>1

\* What Advancing says of single tasks.
LEMMA AdvancingFacts ==
  ASSUME NEW s, NEW C, Advancing(s, C), NEW p \in Tasks
  PROVE  /\ s.task[p].allowed # {} /\ (Steady => Plain(s.task[p]))
         /\ (Ordered => Plain(s.task[p])) /\ (Flat => s.task[p].prio = NORMAL_PRIO)
         /\ p \notin Queued(s) => ~s.task[p].sticky
         /\ Known(s) /\ Placid(s)
BY DEF Advancing, Sound, Home, Ordered

\* Handlers that are quiet and lean.
LEMMA QuietHandler ==
  ASSUME PInv, Advancing(sched, {}), Quiet(sched, sched'), Lean(sched, sched', {}, {}, {})
  PROVE  Advancing(sched', {})
<1>1. sched \in SchedState /\ WellFormed(sched) BY PFacts
<1>2. \A c \in Cpus : sched'.rq[c].prio = sched.rq[c].prio BY DEF Lean
<1> HIDE DEF sched
<1> QED BY <1>1, <1>2, QuietAdvancing

\* Handlers that write the state of a task.
LEMMA RestatesAdvancing ==
  ASSUME PInv, Advancing(sched, {}), NEW p \in Tasks, Restates(sched, sched', p),
         Lean(sched, sched', {}, {}, {})
  PROVE  Advancing(sched', {})
<1>1. sched \in SchedState BY PFacts
<1>2. \A c \in Cpus : sched'.rq[c].prio = sched.rq[c].prio BY DEF Lean
<1>3. /\ Touch(sched, sched', p) /\ Queued(sched') = Queued(sched)
      /\ sched'.task[p].allowed = sched.task[p].allowed /\ sched'.task[p].cpu = sched.task[p].cpu
  BY DEF Restates
<1> QED BY <1>1, <1>2, <1>3, CalmAdvancing

\* Writing the state of a task.
LEMMA StateLean ==
  ASSUME sched \in SchedState, NEW p \in Tasks, NEW st \in TaskStates,
         task' = [task EXCEPT ![p].state = st], UNCHANGED <<grq, rq>>
  PROVE  Lean(sched, sched', {}, {}, {})
<1> DEFINE t == [sched EXCEPT !.task[p].state = st]
<1>1. Become(t) BY DEF Become, sched
<1>2. Lean(sched, t, {}, {}, {}) BY TaskLean
<1> HIDE DEF t
<1> QED BY <1>1, <1>2, BecomeLean

\* set_current_state.
LEMMA SetCurrentStateAdvancing ==
  ASSUME PInv, Advancing(sched, {}), NEW cpu \in Cpus,
         NEW st \in {"running", "interruptible", "uninterruptible"}, SetCurrentState(cpu, st)
  PROVE  Advancing(sched', {})
<1>1. PICK p \in Tasks : Restates(sched, sched', p) BY SetCurrentStateEffect
<1>2. sched \in SchedState /\ st \in TaskStates BY PFacts DEF TaskStates
<1> DEFINE x == rq[cpu].curr
<1>3. x \in Tasks /\ task' = [task EXCEPT ![x].state = st] /\ UNCHANGED <<grq, rq>>
  BY DEF SetCurrentState
<1> HIDE DEF x
<1>4. Lean(sched, sched', {}, {}, {}) BY <1>2, <1>3, StateLean
<1> QED BY <1>1, <1>4, RestatesAdvancing

\* do_exit.
LEMMA ExitAdvancing ==
  ASSUME PInv, Advancing(sched, {}), NEW cpu \in Cpus, Exit(cpu) PROVE Advancing(sched', {})
<1>1. PICK p \in Tasks : Restates(sched, sched', p) BY ExitEffect
<1>2. sched \in SchedState /\ "dead" \in TaskStates BY PFacts DEF TaskStates
<1> DEFINE x == rq[cpu].curr
<1>3. x \in Tasks /\ task' = [task EXCEPT ![x].state = "dead"] /\ UNCHANGED <<grq, rq>>
  BY AskAssumption DEF Exit
<1> HIDE DEF x
<1>4. Lean(sched, sched', {}, {}, {}) BY <1>2, <1>3, StateLean
<1> QED BY <1>1, <1>4, RestatesAdvancing

\* yield_to.
LEMMA YieldToLean ==
  ASSUME PInv, NEW cpu \in Cpus, NEW from \in Cpus, NEW p \in Tasks, YieldTo(cpu, from, p)
  PROVE  Lean(sched, sched', {}, {}, {})
<1> DEFINE dl    == IF sched.task[p].deadline > rq[from].deadline THEN rq[from].deadline
                    ELSE sched.task[p].deadline
           slice == IF sched.task[p].time_slice + rq[from].time_slice > SLICE THEN SLICE
                    ELSE sched.task[p].time_slice + rq[from].time_slice
           a == [sched EXCEPT !.task[p].deadline = dl]
           b == [a EXCEPT !.task[p].time_slice = slice]
           c == [b EXCEPT !.rq[from].time_slice = 0]
           t == resched_cpu(c, from)
<1>1. sched \in SchedState /\ sched.rq = rq BY PFacts
<1>2. sched.rq[from].deadline \in Nat /\ sched.rq[from].time_slice \in 0 .. SLICE
  BY <1>1, StateParts, RqFields
<1>3. sched.task[p].deadline \in Nat /\ sched.task[p].time_slice \in 0 .. SLICE
  BY <1>1, StateParts, TaskFields
<1>4. dl \in Nat /\ slice \in 0 .. SLICE BY <1>1, <1>2, <1>3, SliceAssumption
<1>5. a.task[p].time_slice = sched.task[p].time_slice
  <2>1. sched.task \in [Tasks -> TaskRec] BY <1>1, StateParts
  <2> QED BY <1>1, <2>1 DEF SchedState, TaskRec
<1>6. Become(t)
  <2>1. Become(resched_cpu(
          [sched EXCEPT
             !.task[p].deadline = IF @ > rq[from].deadline THEN rq[from].deadline ELSE @,
             !.task[p].time_slice = IF @ + rq[from].time_slice > SLICE THEN SLICE
                                    ELSE @ + rq[from].time_slice,
             !.rq[from].time_slice = 0], from))
    BY DEF YieldTo
  <2> QED BY <1>5, <2>1
<1> HIDE DEF dl, slice
<1>7. Lean(sched, a, {}, {}, {}) BY <1>1, <1>4, TaskLean
<1> HIDE DEF a
<1>8. Lean(sched, b, {}, {}, {})
  <2>1. a \in SchedState => Lean(a, b, {}, {}, {}) BY <1>4, TaskLean
  <2> QED BY <1>7, <2>1, LeanChain
<1> HIDE DEF b
<1>9. Lean(sched, c, {}, {}, {})
  <2>1. 0 \in 0 .. SLICE BY SliceAssumption
  <2>2. b \in SchedState => Lean(b, c, {}, {}, {}) BY <2>1, RqLean
  <2> QED BY <1>8, <2>2, LeanChain
<1> HIDE DEF c
<1>10. Lean(sched, t, {}, {}, {}) BY <1>9, ReschedLean, LeanChain
<1> HIDE DEF t
<1> QED BY <1>1, <1>6, <1>10, BecomeLean

\* scheduler_tick on a busy CPU.
LEMMA SchedulerTickLean ==
  ASSUME PInv, NEW cpu \in Cpus, NEW e \in 0 .. 1, SchedulerTick(cpu, e)
  PROVE  Lean(sched, sched', {}, {}, {})
<1>1. sched \in SchedState BY PFacts
<1>2. PICK dither \in BOOLEAN, refractory \in Refractory(sched, cpu) :
        LET s0 == [update_cpu_clock(sched, cpu, e) EXCEPT !.grq.iso_refractory = refractory]
            s1 == IF refractory /\ s0.rq[cpu].policy = "iso" /\ s0.rq[cpu].prio = ISO_PRIO
                  THEN [s0 EXCEPT !.rq[cpu].time_slice = 0] ELSE s0
            slice == s1.rq[cpu].time_slice
        IN  Become(CASE s1.rq[cpu].policy = "fifo" -> s1
                     [] s1.rq[cpu].policy # "fifo" /\ dither /\ slice <= HALF_JIFFY ->
                          resched_cpu([s1 EXCEPT !.rq[cpu].time_slice = 0], cpu)
                     [] s1.rq[cpu].policy # "fifo" /\ ~dither /\ slice = 0 -> resched_cpu(s1, cpu)
                     [] OTHER -> s1)
  BY Zenon DEF SchedulerTick
<1> DEFINE a  == update_cpu_clock(sched, cpu, e)
           s0 == [a EXCEPT !.grq.iso_refractory = refractory]
           b  == [s0 EXCEPT !.rq[cpu].time_slice = 0]
           s1 == IF refractory /\ s0.rq[cpu].policy = "iso" /\ s0.rq[cpu].prio = ISO_PRIO
                 THEN b ELSE s0
           slice == s1.rq[cpu].time_slice
           c  == [s1 EXCEPT !.rq[cpu].time_slice = 0]
           t  == CASE s1.rq[cpu].policy = "fifo" -> s1
                   [] s1.rq[cpu].policy # "fifo" /\ dither /\ slice <= HALF_JIFFY -> resched_cpu(c, cpu)
                   [] s1.rq[cpu].policy # "fifo" /\ ~dither /\ slice = 0 -> resched_cpu(s1, cpu)
                   [] OTHER -> s1
<1>3. Become(t) BY <1>2
<1>4. refractory \in BOOLEAN BY DEF Refractory
<1>5. 0 \in 0 .. SLICE BY SliceAssumption
<1>6. Lean(sched, a, {}, {}, {}) BY <1>1, CpuClockLean
<1> HIDE DEF a
<1>7. Lean(sched, s0, {}, {}, {}) BY <1>4, <1>6, RefractoryLean, LeanChain
<1> HIDE DEF s0
<1>8. Lean(sched, b, {}, {}, {})
  <2>1. s0 \in SchedState => Lean(s0, b, {}, {}, {}) BY <1>5, RqLean
  <2> QED BY <1>7, <2>1, LeanChain
<1>9. Lean(sched, s1, {}, {}, {}) BY <1>7, <1>8
<1> HIDE DEF s1
<1>10. Lean(sched, c, {}, {}, {})
  <2>1. s1 \in SchedState => Lean(s1, c, {}, {}, {}) BY <1>5, RqLean
  <2> QED BY <1>9, <2>1, LeanChain
<1> HIDE DEF c
<1>11. Lean(sched, resched_cpu(c, cpu), {}, {}, {}) BY <1>10, ReschedLean, LeanChain
<1>12. Lean(sched, resched_cpu(s1, cpu), {}, {}, {}) BY <1>9, ReschedLean, LeanChain
<1>13. Lean(sched, t, {}, {}, {}) BY <1>9, <1>11, <1>12
<1> HIDE DEF t
<1> QED BY <1>1, <1>3, <1>13, BecomeLean

\* The tick of an idle CPU, wake_up_idle_cpu and the governor's calls.
LEMMA RestLean ==
  ASSUME PInv, NEW cpu \in Cpus, IdleTick(cpu) \/ WakeUpIdleCpu(cpu) \/ CpuScaling(cpu)
  PROVE  Lean(sched, sched', {}, {}, {})
<1>1. sched \in SchedState BY PFacts
<1>2. CASE IdleTick(cpu)
  <2> DEFINE t == [sched EXCEPT !.grq.iso_refractory = FALSE]
  <2>1. Become(t) BY <1>2 DEF IdleTick, Become, sched
  <2>2. Lean(sched, t, {}, {}, {}) BY <1>1, RefractoryLean
  <2> HIDE DEF t
  <2> QED BY <1>1, <2>1, <2>2, BecomeLean
<1>3. CASE WakeUpIdleCpu(cpu) BY <1>1, <1>3, ReschedLean, BecomeLean DEF WakeUpIdleCpu
<1>4. CASE CpuScaling(cpu)
  <2> DEFINE v == ~sched.rq[cpu].scaling
             t == [sched EXCEPT !.rq[cpu].scaling = v]
  <2>1. Become(t) BY <1>4 DEF CpuScaling, Become, sched
  <2>2. v \in BOOLEAN OBVIOUS
  <2> HIDE DEF v
  <2>3. Lean(sched, t, {}, {}, {}) BY <1>1, <2>2, RqLean
  <2> HIDE DEF t
  <2> QED BY <1>1, <2>1, <2>3, BecomeLean
<1> QED BY <1>2, <1>3, <1>4

\* So yield_to, the ticks and the governor's calls keep the invariant.
LEMMA QuietsAdvancing ==
  ASSUME PInv, Advancing(sched, {}), NEW cpu \in Cpus,
         \/ \E from \in Cpus, p \in Tasks : YieldTo(cpu, from, p)
         \/ \E e \in 0 .. 1 : SchedulerTick(cpu, e)
         \/ IdleTick(cpu) \/ WakeUpIdleCpu(cpu) \/ CpuScaling(cpu)
  PROVE  Advancing(sched', {})
<1>1. IInv BY PFacts
<1>2. CASE \E from \in Cpus, p \in Tasks : YieldTo(cpu, from, p)
  BY <1>1, <1>2, YieldToQuiet, YieldToLean, QuietHandler
<1>3. CASE \E e \in 0 .. 1 : SchedulerTick(cpu, e)
  BY <1>1, <1>3, SchedulerTickQuiet, SchedulerTickLean, QuietHandler
<1>4. CASE IdleTick(cpu) BY <1>1, <1>4, IdleTickQuiet, RestLean, QuietHandler
<1>5. CASE WakeUpIdleCpu(cpu) BY <1>1, <1>5, WakeUpIdleCpuQuiet, RestLean, QuietHandler
<1>6. CASE CpuScaling(cpu) BY <1>1, <1>6, CpuScalingQuiet, RestLean, QuietHandler
<1> QED BY <1>2, <1>3, <1>4, <1>5, <1>6
-----------------------------------------------------------------------------
(***************************************************************************)
(* The handlers that queue a task: a CPU that it may use serves it.        *)
(***************************************************************************)
\* A CPU that serves a task goes on doing so if only need_resched flags are set and
\* what is not the task's priority is written.
LEMMA ServedOn ==
  ASSUME NEW s \in SchedState, NEW t, NEW p \in Tasks, Lean(s, t, {}, {}, {}),
         Ordered => Plain(s.task[p]), t.task[p].allowed = s.task[p].allowed,
         \E c \in s.task[p].allowed : Serves(s, c, p)
  PROVE  \E c \in t.task[p].allowed : Serves(t, c, p)
<1>1. PICK c \in s.task[p].allowed : Serves(s, c, p) OBVIOUS
<1>2. c \in Cpus BY PrioTypes
<1>3. Serves(t, c, p) BY <1>1, <1>2, LeanServes
<1> QED BY <1>1, <1>3

\* A handler that queues a task that is not sticky, and sees to it that it is served.
LEMMA QueuesAdvancing ==
  ASSUME PInv, Advancing(sched, {}), NEW p \in Tasks, Touch(sched, sched', p),
         Lean(sched, sched', {}, {}, {}), p \notin Queued(sched),
         sched'.task[p].allowed = sched.task[p].allowed,
         \E c \in sched'.task[p].allowed : Serves(sched', c, p)
  PROVE  Advancing(sched', {})
<1>1. sched \in SchedState BY PFacts
<1>2. \A c \in Cpus : sched'.rq[c].prio = sched.rq[c].prio BY DEF Lean
<1>3. ~sched.task[p].sticky BY AdvancingFacts
<1>4. ~sched'.task[p].sticky BY <1>3 DEF Lean
<1>5. Lean(sched, sched', {}, {p}, {}) BY DEF Lean
<1>6. ServedBy(sched', p, {}) BY DEF ServedBy
<1> QED BY <1>1, <1>2, <1>4, <1>5, <1>6, LeanAdvancing

\* try_to_wake_up preempts, or leaves the task to the waker, which is about to sleep.
LEMMA TryToWakeUpAdvancing ==
  ASSUME PInv, Advancing(sched, {}), NEW p \in Tasks, NEW sync \in SyncAsks, TryToWakeUp(p, sync)
  PROVE  Advancing(sched', {})
<1>1. /\ sched \in SchedState /\ sched.task = task /\ MapExact(sched) BY PFacts, IInvSched
<1>2. "running" \in TaskStates BY DEF TaskStates
<1>3. task[p].cpu \in Cpus
  <2>1. sched.task[p].cpu \in Cpus BY <1>1, StateParts, TaskFields
  <2> QED BY <1>1, <2>1
<1>4. Restates(sched, sched', p) \/ Wakes(sched, sched', p) BY TryToWakeUpEffect
<1>5. task_queued(sched, p) <=> p \in Queued(sched) BY DEF Queued
<1>6. CASE task_queued(sched, p) \/ task[p].on_cpu
  <2> DEFINE t == [sched EXCEPT !.task[p].state = "running"]
  <2>1. Become(t) BY <1>6 DEF TryToWakeUp
  <2>2. Lean(sched, t, {}, {}, {}) BY <1>1, <1>2, TaskLean
  <2> HIDE DEF t
  <2>3. Lean(sched, sched', {}, {}, {}) BY <2>1, <2>2, BecomeLean
  <2>4. p \in Runnable(sched)
    <3>1. task[p].on_cpu => rq[task[p].cpu].curr = p BY DEF PInv, OnePlace
    <3>2. sched.rq = rq BY PFacts
    <3> QED BY <1>3, <1>5, <1>6, <3>1, <3>2 DEF Runnable, Running
  <2>5. Restates(sched, sched', p) BY <1>4, <2>4 DEF Wakes
  <2> QED BY <2>3, <2>5, RestatesAdvancing
<1>7. CASE ~(task_queued(sched, p) \/ task[p].on_cpu)
  <2>1. PICK d \in Advances, fit \in BOOLEAN :
          LET s1 == activate_task(update_clocks(sched, d), p, fit)
              s2 == IF ~sync \/ suitable_idle_cpus(s1, p)
                    THEN try_preempt(s1, p, task[p].cpu) ELSE s1
          IN  Become([s2 EXCEPT !.task[p].state = "running"])
    BY <1>7 DEF TryToWakeUp
  <2> DEFINE s0 == update_clocks(sched, d)
             s1 == activate_task(s0, p, fit)
             s2 == IF ~sync \/ suitable_idle_cpus(s1, p)
                   THEN try_preempt(s1, p, task[p].cpu) ELSE s1
             t  == [s2 EXCEPT !.task[p].state = "running"]
  <2>2. Become(t) BY <2>1
  <2>3. d \in Nat BY DEF Advances
  <2>4. Lean(sched, s0, {}, {}, {}) /\ Step(sched, s0) /\ Quiet(sched, s0)
    BY <1>1, <2>3, ClocksLean, ClocksStep, ClocksQuiet
  <2> HIDE DEF s0
  <2>5. Lean(sched, s1, {}, {}, {}) BY <2>4, ActivateLean, LeanChain
  <2>6. s0 \in SchedState /\ Step(s0, s1) BY <2>4, ActivateStep DEF Step
  <2>7. s1.task[p].allowed = sched.task[p].allowed
    <3>1. p \notin Queued(s0) /\ WellFormed(s0) /\ SameCore(s0.task[p], sched.task[p])
      BY <1>1, <1>5, <1>7, <2>4, QuietEffect, PFacts
    <3>2. Unmoved(s0, s1, p) BY <2>6, <3>1, ActivateEffect
    <3> QED BY <3>1, <3>2 DEF Unmoved, SameCore
  <2> HIDE DEF s1
  <2>8. s1 \in SchedState /\ MapExact(s1) BY <1>1, <2>4, <2>6, StepExact DEF Step
  <2>9. s1.task[p].allowed # {} /\ (Ordered => Plain(s1.task[p]))
    <3>1. sched.task[p].allowed # {} /\ (Ordered => Plain(sched.task[p])) BY AdvancingFacts
    <3>2. Level(sched.task[p], s1.task[p]) BY <2>5 DEF Lean
    <3> QED BY <2>7, <3>1, <3>2 DEF Level
  <2>10. /\ Lean(s1, s2, {}, {}, {}) /\ s2.task[p].allowed = s1.task[p].allowed
         /\ \E c \in s2.task[p].allowed : Serves(s2, c, p)
    <3>1. CASE ~sync \/ suitable_idle_cpus(s1, p)
      <4> DEFINE u == try_preempt(s1, p, task[p].cpu)
      <4>1. Lean(s1, u, {}, {}, {}) BY <1>3, <2>8, TryPreemptLean
      <4>2. Quiet(s1, u) BY <1>3, <2>8, TryPreemptQuiet
      <4>3. \E c \in u.task[p].allowed : Serves(u, c, p)
        BY <1>3, <2>8, <2>9, TryPreemptServes
      <4>4. s2 = u BY <3>1
      <4> HIDE DEF u, s2
      <4> QED BY <4>1, <4>2, <4>3, <4>4 DEF Quiet, SameCore
    <3>2. CASE ~(~sync \/ suitable_idle_cpus(s1, p))
      <4>1. s2 = s1 BY <3>2
      <4>2. ~Ordered
        <5>1. sync \in BOOLEAN BY AskAssumption
        <5>2. sync = TRUE BY <3>2, <5>1
        <5> QED BY <5>2 DEF Ordered
      <4>3. \E c \in s1.task[p].allowed : Serves(s1, c, p)
        BY <2>8, <2>9, <3>2, <4>2, BusyServes
      <4> HIDE DEF s2
      <4> QED BY <2>8, <4>1, <4>3, LeanRefl
    <3> QED BY <3>1, <3>2
  <2> HIDE DEF s2
  <2>11. s2 \in SchedState BY <2>10 DEF Lean
  <2>12. Lean(s2, t, {}, {}, {}) BY <1>2, <2>11, TaskLean
  <2>13. t.task[p].allowed = s2.task[p].allowed
    <3>1. s2.task \in [Tasks -> TaskRec] BY <2>11, StateParts
    <3> QED BY <2>11, <3>1 DEF SchedState, TaskRec
  <2> HIDE DEF t
  <2>14. Lean(sched, t, {}, {}, {}) BY <2>5, <2>10, <2>12, LeanChain
  <2>15. Ordered => Plain(s2.task[p]) BY <2>9, <2>10 DEF Lean, Level
  <2>16. \E c \in t.task[p].allowed : Serves(t, c, p)
    BY <2>10, <2>11, <2>12, <2>13, <2>15, ServedOn
  <2>17. sched' = t BY <2>2, <2>14, BecomeLean
  <2>18. Touch(sched, t, p) BY <1>4, <2>17 DEF Restates, Wakes
  <2>19. t.task[p].allowed = sched.task[p].allowed BY <2>7, <2>10, <2>13
  <2>20. p \notin Queued(sched) BY <1>5, <1>7
  <2> QED BY <2>14, <2>16, <2>17, <2>18, <2>19, <2>20, QueuesAdvancing
<1> QED BY <1>6, <1>7

\* wake_up_new_task preempts, or asks the CPU of the parent to reschedule.
LEMMA WakeUpNewTaskAdvancing ==
  ASSUME PInv, Advancing(sched, {}), NEW cpu \in Cpus, NEW child \in Tasks,
         MayFork # {}, WakeUpNewTask(cpu, child)
  PROVE  Advancing(sched', {})
<1> DEFINE old  == task[child].cpu
           a    == [sched EXCEPT !.task[child].state = "running"]
<1>1. sched \in SchedState /\ sched.task = task /\ sched.rq = rq /\ MapExact(sched)
  BY PFacts, IInvSched
<1>2. old \in Cpus
  <2>1. sched.task[child].cpu \in Cpus BY <1>1, StateParts, TaskFields
  <2> QED BY <1>1, <2>1
<1>3. PICK parent \in Tasks \cup {NoTask}, home \in Cpus, d \in Advances, fit \in BOOLEAN :
        LET new == [sched EXCEPT !.task[child].state = "running", !.task[child].cpu = home,
                                 !.task[child].parent = NoTask]
            s   == activate_task(update_clocks(new, d), child, fit)
        IN  /\ fit \/ task[child].policy = "idleprio"
            /\ Become(IF rq[old].curr = parent /\ ~suitable_idle_cpus(s, child)
                      THEN resched_cpu(s, old) ELSE try_preempt(s, child, old))
  BY <1>1, NewTaskHome
<1> DEFINE b    == [a EXCEPT !.task[child].cpu = home]
           born == [b EXCEPT !.task[child].parent = NoTask]
           s0   == update_clocks(born, d)
           s    == activate_task(s0, child, fit)
           t    == IF rq[old].curr = parent /\ ~suitable_idle_cpus(s, child)
                   THEN resched_cpu(s, old) ELSE try_preempt(s, child, old)
<1>4. Become(t) BY <1>3
<1>5. Starts(sched, sched', child) BY WakeUpNewTaskEffect
<1>6. Lean(sched, a, {}, {}, {}) /\ Step(sched, a)
  <2>1. "running" \in TaskStates BY DEF TaskStates
  <2> QED BY <1>1, <2>1, TaskLean, TaskAssign
<1> HIDE DEF a
<1>7. Lean(sched, b, {}, {}, {}) /\ Step(sched, b)
  <2>1. a \in SchedState => Lean(a, b, {}, {}, {}) /\ Step(a, b) BY TaskLean, TaskAssign
  <2> QED BY <1>6, <2>1, LeanChain, Chain
<1> HIDE DEF b
<1>8. Lean(sched, born, {}, {}, {}) /\ Step(sched, born)
  <2>1. b \in SchedState => Lean(b, born, {}, {}, {}) /\ Step(b, born) BY TaskLean, TaskAssign
  <2> QED BY <1>7, <2>1, LeanChain, Chain
<1> HIDE DEF born
<1>9. d \in Nat BY DEF Advances
<1>10. Lean(sched, s0, {}, {}, {}) /\ Step(sched, s0)
  BY <1>8, <1>9, ClocksLean, LeanChain, ClocksStep, Chain
<1> HIDE DEF s0
<1>11. Lean(sched, s, {}, {}, {}) /\ Step(sched, s)
  BY <1>10, ActivateLean, LeanChain, ActivateStep, Chain
<1> HIDE DEF s, old
<1>12. s \in SchedState /\ MapExact(s) BY <1>1, <1>11, StepExact DEF Step
<1> DEFINE x == resched_cpu(s, old)
           y == try_preempt(s, child, old)
<1>13. Lean(s, x, {}, {}, {}) /\ Quiet(s, x) BY <1>2, <1>12, ReschedLean, ReschedQuiet
<1>14. Lean(s, y, {}, {}, {}) /\ Quiet(s, y) BY <1>2, <1>12, TryPreemptLean, TryPreemptQuiet
<1>15. Lean(s, t, {}, {}, {}) /\ Quiet(s, t) BY <1>13, <1>14
<1> HIDE DEF t
<1>16. Lean(sched, t, {}, {}, {}) BY <1>11, <1>15, LeanChain
<1>17. sched' = t BY <1>4, <1>16, BecomeLean
<1>18. /\ Touch(sched, t, child) /\ t.task[child].allowed = sched.task[child].allowed
       /\ sched.task[child].state = "new"
  BY <1>5, <1>17 DEF Starts
<1>19. s.task[child].allowed = sched.task[child].allowed BY <1>15, <1>18 DEF Quiet, SameCore
<1>20. child \notin Queued(sched)
  <2>1. Placed(sched) BY PFacts
  <2> QED BY <1>18, <2>1 DEF Placed, PlacedTask
<1>21. s.task[child].allowed # {} /\ (Ordered => Plain(s.task[child]))
  <2>1. sched.task[child].allowed # {} /\ (Ordered => Plain(sched.task[child]))
    BY AdvancingFacts
  <2>2. Level(sched.task[child], s.task[child]) BY <1>11 DEF Lean
  <2> QED BY <1>19, <2>1, <2>2 DEF Level
<1>22. \E c \in t.task[child].allowed : Serves(t, c, child)
  <2>1. CASE rq[old].curr = parent /\ ~suitable_idle_cpus(s, child)
    <3>1. t = x BY <2>1 DEF t
    <3>2. CASE ~Ordered
      <4>1. \E c \in s.task[child].allowed : Serves(s, c, child)
        BY <1>12, <1>21, <2>1, <3>2, BusyServes
      <4> QED BY <1>12, <1>15, <1>18, <1>19, <1>21, <4>1, ServedOn
    <3>3. CASE Ordered
      <4>1. Serves(t, old, child) BY <1>2, <1>12, <3>1, ReschedServes
      <4>2. sched.rq[old].curr \in Tasks
        <5>1. rq[old].curr \in Tasks \cup {Idle} BY <1>1, <1>2, PrioTypes
        <5> QED BY <1>1, <2>1, <5>1, TaskAssumption
      <4>3. old \in sched.task[sched.rq[old].curr].allowed
        BY <1>2, <3>3, <4>2, AdvancingFacts DEF Placid
      <4>4. sched.task[sched.rq[old].curr].allowed = sched.task[child].allowed
        BY <1>2, <3>3, <4>2, AdvancingFacts DEF Placid
      <4> QED BY <1>18, <4>1, <4>3, <4>4
    <3> QED BY <3>2, <3>3
  <2>2. CASE ~(rq[old].curr = parent /\ ~suitable_idle_cpus(s, child))
    <3>1. t = y BY <2>2 DEF t
    <3>2. \E c \in y.task[child].allowed : Serves(y, c, child)
      BY <1>2, <1>12, <1>21, TryPreemptServes
    <3> QED BY <3>1, <3>2
  <2> QED BY <2>1, <2>2
<1> QED BY <1>16, <1>17, <1>18, <1>20, <1>22, QueuesAdvancing
-----------------------------------------------------------------------------
(***************************************************************************)
(* The handlers that give a task another priority, policy or mask, and     *)
(* sched_fork, which makes one.                                            *)
(***************************************************************************)
\* A step about a task that no CPU runs, or one where priorities are not kept in
\* order anyway, which leaves the task served and not sticky.
LEMMA TouchAdvancing ==
  ASSUME NEW s \in SchedState, NEW t, NEW p \in Tasks, Advancing(s, {}), Touch(s, t, p),
         Lean(s, t, {p}, {p}, {}), Sound(t.task[p]), ~t.task[p].sticky,
         p \in Queued(t) => \E c \in t.task[p].allowed : Serves(t, c, p),
         Ordered => /\ \A c \in Cpus : s.rq[c].curr # p
                    /\ MayFork # {} => \E q \in Tasks : t.task[p].allowed = s.task[q].allowed
  PROVE  Advancing(t, {})
<1>1. t \in SchedState /\ \A c \in Cpus : t.rq[c].curr = s.rq[c].curr BY DEF Touch, Step
<1>2. \A c \in Cpus : s.rq[c].prio \in Nat /\ s.rq[c].curr \in Tasks \cup {Idle} BY PrioTypes
<1>3. \A c \in Cpus \ {} : /\ Calm(s.rq[c], t.rq[c])
                           /\ Ordered => t.rq[c].need_resched \/ t.rq[c].prio <= s.rq[c].prio
  BY <1>2 DEF Lean
<1>4. \A q \in Tasks \ {p} : t.task[q].sticky => s.task[q].sticky BY DEF Lean
<1>5. Known(t)
  <2> SUFFICES ASSUME Ordered, NEW c \in Cpus PROVE t.rq[c].prio = RunPrio(t, c) BY DEF Known
  <2>1. s.rq[c].prio = RunPrio(s, c) BY DEF Advancing, Known
  <2>2. \A q \in Tasks \ {p} : t.task[q].prio = s.task[q].prio BY DEF Touch, Others, SameCore
  <2>3. RunPrio(t, c) = RunPrio(s, c) BY <1>1, <1>2, <2>2 DEF RunPrio
  <2> QED BY <2>1, <2>3 DEF Lean
<1>6. Fits(s, t, p, {}) BY <1>1 DEF Fits, ServedBy
<1> QED BY <1>3, <1>4, <1>5, <1>6, KeepsAdvancing

\* What reset_rq_task writes.
LEMMA ResetRqTask ==
  ASSUME NEW s \in SchedState, NEW cpu \in Cpus, NEW p \in Tasks
  PROVE  LET t == reset_rq_task(s, cpu, p)
         IN  /\ t \in SchedState /\ t.task = s.task /\ t.rq[cpu].prio = s.task[p].prio
             /\ Calm(s.rq[cpu], t.rq[cpu])
<1> DEFINE t == reset_rq_task(s, cpu, p)
           C == {cpu}
<1>1. s.rq \in [Cpus -> RqRec] BY StateParts
<1>2. t \in SchedState
  <2>1. cpu \in C OBVIOUS
  <2> HIDE DEF C
  <2>2. Lean(s, t, {}, {}, C) BY <2>1, RqTaskLean
  <2> QED BY <2>2 DEF Lean
<1>3. /\ t.task = s.task /\ t.rq[cpu].prio = s.task[p].prio /\ t.rq[cpu].curr = s.rq[cpu].curr
      /\ t.rq[cpu].need_resched = s.rq[cpu].need_resched
  BY <1>1 DEF reset_rq_task, SchedState, RqRec
<1> QED BY <1>2, <1>3 DEF Calm

\* A step about the task that cpu runs, which tells the rq of its priority and asks
\* for a reschedule if that is worse than it was.
LEMMA ResetAdvancing ==
  ASSUME NEW s \in SchedState, NEW t, NEW p \in Tasks, NEW cpu \in Cpus,
         Advancing(s, {}), Placed(s), Reprios(s, t, p), s.rq[cpu].curr = p, p \notin Queued(s),
         Lean(s, t, {p}, {}, {cpu}), Calm(s.rq[cpu], t.rq[cpu]), Sound(t.task[p]),
         t.rq[cpu].prio = t.task[p].prio,
         t.rq[cpu].need_resched \/ (Ordered => t.task[p].prio <= s.task[p].prio)
  PROVE  Advancing(t, {})
<1>1. /\ t \in SchedState /\ \A c \in Cpus : t.rq[c].curr = s.rq[c].curr
      /\ Touch(s, t, p) /\ p \notin Queued(t) /\ t.task[p].allowed = s.task[p].allowed
  BY DEF Reprios, Touch, Step, Unmoved
<1>2. /\ \A c \in Cpus : s.rq[c].prio \in Nat /\ s.rq[c].curr \in Tasks \cup {Idle}
      /\ p # Idle
  BY PrioTypes, TaskAssumption
<1>3. \A c \in Cpus \ {cpu} : s.rq[c].curr # p BY DEF Placed, PlacedTask
<1>4. Ordered => s.rq[cpu].prio = s.task[p].prio BY <1>2 DEF Advancing, Known, RunPrio
<1>5. \A c \in Cpus \ {} : /\ Calm(s.rq[c], t.rq[c])
                           /\ Ordered => t.rq[c].need_resched \/ t.rq[c].prio <= s.rq[c].prio
  <2> SUFFICES ASSUME NEW c \in Cpus
               PROVE  /\ Calm(s.rq[c], t.rq[c])
                      /\ Ordered => t.rq[c].need_resched \/ t.rq[c].prio <= s.rq[c].prio
    OBVIOUS
  <2>1. CASE c = cpu BY <1>4, <2>1
  <2>2. CASE c # cpu BY <1>2, <2>2 DEF Lean
  <2> QED BY <2>1, <2>2
<1>6. \A q \in Tasks : t.task[q].sticky => s.task[q].sticky BY DEF Lean
<1>7. ~t.task[p].sticky BY <1>6, AdvancingFacts
<1>8. Known(t)
  <2> SUFFICES ASSUME Ordered, NEW c \in Cpus PROVE t.rq[c].prio = RunPrio(t, c) BY DEF Known
  <2>1. CASE c = cpu BY <1>1, <1>2, <2>1 DEF RunPrio
  <2>2. CASE c # cpu
    <3>1. s.rq[c].prio = RunPrio(s, c) BY DEF Advancing, Known
    <3>2. \A q \in Tasks \ {p} : t.task[q].prio = s.task[q].prio BY <1>1 DEF Touch, Others, SameCore
    <3>3. RunPrio(t, c) = RunPrio(s, c) BY <1>1, <1>2, <1>3, <2>2, <3>2 DEF RunPrio
    <3> QED BY <2>2, <3>1, <3>3 DEF Lean
  <2> QED BY <2>1, <2>2
<1>9. Ordered => \A c \in Cpus : t.rq[c].curr = p => c \in t.task[p].allowed
  BY <1>1 DEF Advancing, Placid
<1>10. Fits(s, t, p, {}) BY <1>1, <1>7, <1>9 DEF Fits
<1> QED BY <1>1, <1>5, <1>6, <1>8, <1>10, KeepsAdvancing

\* set_user_nice recomputes the priority, which is what it was if the task is plain.
LEMMA SetUserNiceAdvancing ==
  ASSUME PInv, Advancing(sched, {}), NEW p \in Tasks, NEW nice \in Nices, SetUserNice(p, nice)
  PROVE  Advancing(sched', {})
<1> DEFINE old == task[p].nice
           cpu == task[p].cpu
           renice(s) ==
             [s EXCEPT !.task[p].deadline = (@ + DeadlineDiff[nice] - DeadlineDiff[old]) % DeadlineMod,
                       !.task[p].nice = nice,
                       !.task[p].prio = effective_prio(s.task[p])]
<1>1. sched \in SchedState /\ sched.task = task BY PFacts
<1>2. task[p] \in TaskRec BY <1>1, StateParts
<1>3. cpu \in Cpus /\ old \in Nices BY <1>2, TaskFields
<1>4. PICK d \in Advances, fit \in BOOLEAN :
        LET s0 == update_clocks(sched, d)
            s1 == Requeued(s0, p, renice, fit)
        IN  Become(CASE is_rt_policy(task[p].policy) -> [s0 EXCEPT !.task[p].nice = nice]
                     [] ~is_rt_policy(task[p].policy) /\ task_queued(sched, p) ->
                          IF nice < old THEN try_preempt(s1, p, cpu) ELSE s1
                     [] ~is_rt_policy(task[p].policy) /\ task[p].on_cpu ->
                          IF old < nice THEN resched_cpu(reset_rq_task(s1, cpu, p), cpu)
                          ELSE reset_rq_task(s1, cpu, p)
                     [] OTHER -> s1)
  BY Zenon DEF SetUserNice
<1>5. \A u \in SchedState : Lean(u, renice(u), {}, {}, {})
  <2> SUFFICES ASSUME NEW u \in SchedState PROVE Lean(u, renice(u), {}, {}, {}) OBVIOUS
  <2> DEFINE dl == (u.task[p].deadline + DeadlineDiff[nice] - DeadlineDiff[old]) % DeadlineMod
             v  == [u EXCEPT !.task[p].deadline = dl]
             w  == [v EXCEPT !.task[p].nice = nice]
             x  == [w EXCEPT !.task[p].prio = effective_prio(w.task[p])]
  <2>1. dl \in Nat
    <3>1. u.task[p].deadline \in Nat BY StateParts, TaskFields
    <3>2. DeadlineDiff[nice] \in Nat BY DeadlineAssumption
    <3>3. DeadlineDiff[old] \in Nat BY <1>3, DeadlineAssumption
    <3>4. DeadlineMod \in Nat \ {0} BY DeadlineAssumption
    <3> QED BY <3>1, <3>2, <3>3, <3>4
  <2>2. renice(u) = [w EXCEPT !.task[p].prio = effective_prio(u.task[p])] OBVIOUS
  <2> HIDE DEF dl, renice
  <2>3. effective_prio(w.task[p]) = effective_prio(u.task[p])
    <3>1. u.task \in [Tasks -> TaskRec] BY StateParts
    <3>2. /\ w.task[p].prio = u.task[p].prio /\ w.task[p].policy = u.task[p].policy
          /\ w.task[p].rt_priority = u.task[p].rt_priority
      BY <3>1 DEF SchedState, TaskRec
    <3> QED BY <3>2 DEF effective_prio
  <2>4. Lean(u, v, {}, {}, {}) BY <2>1, TaskLean
  <2> HIDE DEF v
  <2>5. Lean(u, w, {}, {}, {})
    <3>1. v \in SchedState => Lean(v, w, {}, {}, {}) BY TaskLean
    <3> QED BY <2>4, <3>1, LeanChain
  <2>6. renice(u) = x BY <2>2, <2>3
  <2> HIDE DEF w
  <2>7. Lean(u, x, {}, {}, {}) BY <2>5, EffectiveLean, LeanChain
  <2> QED BY <2>6, <2>7
<1> HIDE DEF renice
<1> DEFINE s0 == update_clocks(sched, d)
           s1 == IF task_queued(s0, p) THEN enqueue_task(renice(dequeue_task(s0, p)), p, fit)
                 ELSE renice(s0)
           r  == reset_rq_task(s1, cpu, p)
           t  == CASE is_rt_policy(task[p].policy) -> [s0 EXCEPT !.task[p].nice = nice]
                   [] ~is_rt_policy(task[p].policy) /\ task_queued(sched, p) ->
                        IF nice < old THEN try_preempt(s1, p, cpu) ELSE s1
                   [] ~is_rt_policy(task[p].policy) /\ task[p].on_cpu ->
                        IF old < nice THEN resched_cpu(r, cpu) ELSE r
                   [] OTHER -> s1
<1>6. Become(t) BY <1>4 DEF Requeued
<1> HIDE DEF old, cpu
<1>7. d \in Nat BY DEF Advances
<1>8. Lean(sched, s0, {}, {}, {}) BY <1>1, <1>7, ClocksLean
<1> HIDE DEF s0
<1>9. Lean(sched, [s0 EXCEPT !.task[p].nice = nice], {}, {}, {})
  <2>1. s0 \in SchedState => Lean(s0, [s0 EXCEPT !.task[p].nice = nice], {}, {}, {}) BY TaskLean
  <2> QED BY <1>8, <2>1, LeanChain
<1>10. Lean(sched, s1, {}, {}, {})
  <2>1. Lean(sched, renice(s0), {}, {}, {}) BY <1>5, <1>8, LeanChain
  <2>2. Lean(sched, dequeue_task(s0, p), {}, {}, {}) BY <1>8, DequeueLean, LeanChain
  <2>3. Lean(sched, renice(dequeue_task(s0, p)), {}, {}, {}) BY <1>5, <2>2, LeanChain
  <2>4. Lean(sched, enqueue_task(renice(dequeue_task(s0, p)), p, fit), {}, {}, {})
    BY <2>3, EnqueueLean, LeanChain
  <2> QED BY <2>1, <2>4
<1> HIDE DEF s1
<1>11. Lean(sched, try_preempt(s1, p, cpu), {}, {}, {}) BY <1>3, <1>10, TryPreemptLean, LeanChain
<1>12. s1 \in SchedState BY <1>10 DEF Lean
<1>13. Reprios(sched, sched', p) BY SetUserNiceEffect
<1>14. /\ Touch(sched, sched', p) /\ Queued(sched') = Queued(sched)
       /\ sched'.task[p].allowed = sched.task[p].allowed /\ sched'.task[p].cpu = sched.task[p].cpu
  BY <1>13 DEF Reprios, Unmoved
<1>15. ASSUME Lean(sched, t, {}, {}, {}) PROVE Advancing(sched', {})
  <2> HIDE DEF t
  <2>1. Lean(sched, sched', {}, {}, {}) BY <1>6, <1>15, BecomeLean
  <2>2. \A c \in Cpus : sched'.rq[c].prio = sched.rq[c].prio BY <2>1 DEF Lean
  <2> QED BY <1>1, <1>14, <2>1, <2>2, CalmAdvancing
<1>16. CASE is_rt_policy(task[p].policy) \/ task_queued(sched, p) \/ ~task[p].on_cpu
  <2>1. \/ t = [s0 EXCEPT !.task[p].nice = nice] \/ t = s1 \/ t = try_preempt(s1, p, cpu)
    <3> HIDE DEF r
    <3>1. CASE is_rt_policy(task[p].policy) BY <3>1, Zenon
    <3>2. CASE ~is_rt_policy(task[p].policy) /\ task_queued(sched, p)
      <4>1. t = IF nice < old THEN try_preempt(s1, p, cpu) ELSE s1
        <5> HIDE DEF s1, old
        <5>1. ~task[p].on_cpu BY <3>2 DEF PInv, OnePlace
        <5> QED BY <3>2, <5>1
      <4> QED BY <4>1
    <3>3. CASE /\ ~is_rt_policy(task[p].policy) /\ ~task_queued(sched, p)
               /\ ~task[p].on_cpu
      <4>1. t = s1 BY <3>3, Zenon
      <4> QED BY <4>1
    <3> QED BY <1>16, <3>1, <3>2, <3>3
  <2> HIDE DEF t, r
  <2> QED BY <1>9, <1>10, <1>11, <1>15, <2>1
<1>17. CASE ~is_rt_policy(task[p].policy) /\ ~task_queued(sched, p) /\ task[p].on_cpu
  <2> DEFINE e == resched_cpu(r, cpu)
  <2>1. t = IF old < nice THEN e ELSE r BY <1>17
  <2>2. /\ r \in SchedState /\ r.task = s1.task /\ r.rq[cpu].prio = s1.task[p].prio
        /\ Calm(s1.rq[cpu], r.rq[cpu])
    BY <1>3, <1>12, ResetRqTask
  <2>3. Lean(sched, r, {}, {}, {cpu})
    <3>1. Lean(sched, s1, {}, {}, {cpu}) BY <1>10 DEF Lean
    <3>2. s1 \in SchedState => Lean(s1, r, {}, {}, {cpu}) BY <1>3, RqTaskLean
    <3> QED BY <3>1, <3>2, LeanChain
  <2> HIDE DEF r, t
  <2>4. Lean(r, e, {}, {}, {}) /\ e.task = r.task
    BY <1>3, <2>2, ReschedLean DEF resched_cpu, SchedState
  <2>5. Lean(r, r, {}, {}, {}) BY <2>2, LeanRefl
  <2>6. Lean(r, t, {}, {}, {}) /\ t.task = r.task BY <2>1, <2>4, <2>5
  <2>7. Lean(sched, t, {}, {}, {cpu})
    <3>1. Lean(r, t, {}, {}, {cpu}) BY <2>6 DEF Lean
    <3> QED BY <2>3, <3>1, LeanChain
  <2>8. sched' = t BY <1>6, <2>7, BecomeLean
  <2>9. Calm(sched.rq[cpu], t.rq[cpu]) /\ t.rq[cpu].prio = t.task[p].prio
    <3>1. Calm(sched.rq[cpu], s1.rq[cpu]) BY <1>3, <1>10 DEF Lean
    <3>2. Calm(r.rq[cpu], t.rq[cpu]) /\ t.rq[cpu].prio = r.rq[cpu].prio BY <1>3, <2>6 DEF Lean
    <3> QED BY <2>2, <2>6, <3>1, <3>2 DEF Calm
  <2>10. Level(sched.task[p], t.task[p]) BY <2>7 DEF Lean
  <2>11. /\ Sound(t.task[p])
         /\ Ordered => t.task[p].prio = sched.task[p].prio
    <3>1. Sound(sched.task[p]) BY DEF Advancing
    <3>2. (Flat => Steady) /\ (Ordered => Steady) BY DEF Flat, Ordered
    <3> QED BY <1>14, <2>8, <2>10, <3>1, <3>2 DEF Sound, Level
  <2>12. Ordered => t.task[p].prio <= sched.task[p].prio
    <3>1. sched.task[p].prio \in Nat BY <1>1, PrioTypes
    <3> QED BY <2>11, <3>1
  <2>13. sched.rq[cpu].curr = p /\ p \notin Queued(sched) /\ Placed(sched)
    <3>1. task[p].on_cpu => rq[task[p].cpu].curr = p BY DEF PInv, OnePlace
    <3> QED BY <1>17, <3>1, PFacts DEF Queued, cpu
  <2>14. Lean(sched, t, {p}, {}, {cpu}) BY <2>7 DEF Lean
  <2> QED BY <1>1, <1>3, <1>13, <2>8, <2>9, <2>11, <2>12, <2>13, <2>14, ResetAdvancing
<1> QED BY <1>16, <1>17

\* Writing the record of a task and queueing it again, if it was queued.
LEMMA RequeueLean ==
  ASSUME NEW s \in SchedState, NEW p \in Tasks, NEW r \in TaskRec, NEW fit,
         r.sticky = s.task[p].sticky
  PROVE  LET t == IF task_queued(s, p)
                  THEN enqueue_task([dequeue_task(s, p) EXCEPT !.task[p] = r], p, fit)
                  ELSE [s EXCEPT !.task[p] = r]
         IN  Lean(s, t, {p}, {}, {}) /\ Level(r, t.task[p])
<1> DEFINE a == dequeue_task(s, p)
           b == [a EXCEPT !.task[p] = r]
           c == enqueue_task(b, p, fit)
           d == [s EXCEPT !.task[p] = r]
           L == {p}
<1>1. p \in L OBVIOUS
<1> HIDE DEF L
<1>2. Lean(s, a, L, {}, {}) BY DequeueLean
<1>3. a \in SchedState /\ a.task = s.task BY <1>2 DEF Lean, dequeue_task, SchedState
<1> HIDE DEF a
<1>4. ASSUME NEW u \in SchedState, u.task = s.task
      PROVE  LET v == [u EXCEPT !.task[p] = r] IN Lean(u, v, L, {}, {}) /\ v.task[p] = r
  <2> DEFINE v == [u EXCEPT !.task[p] = r]
  <2>1. u.task \in [Tasks -> TaskRec] BY StateParts
  <2>2. v.rq = u.rq /\ v.task = [u.task EXCEPT ![p] = r] /\ v.task[p] = r
    BY <2>1 DEF SchedState
  <2>3. v \in SchedState BY TaskStep DEF Step
  <2> HIDE DEF v
  <2>4. r.sticky => u.task[p].sticky BY <1>4
  <2>5. Lean(u, v, L, {}, {}) BY <1>1, <2>2, <2>3, <2>4, OneTaskLean
  <2> QED BY <2>2, <2>5 DEF v
<1>5. Lean(a, b, L, {}, {}) /\ b.task[p] = r BY <1>3, <1>4
<1>6. Lean(s, d, L, {}, {}) /\ d.task[p] = r BY <1>4
<1> HIDE DEF b, d
<1>7. b \in SchedState BY <1>5 DEF Lean
<1>8. Lean(b, c, {}, {}, {}) BY <1>7, EnqueueLean
<1> HIDE DEF c
<1>9. Lean(b, c, L, {}, {}) /\ Level(r, c.task[p]) BY <1>5, <1>8 DEF Lean
<1>10. Lean(s, c, L, {}, {}) BY <1>2, <1>5, <1>9, LeanChain
<1>11. Level(r, d.task[p]) BY <1>6 DEF Level
<1> QED BY <1>6, <1>9, <1>10, <1>11 DEF a, b, c, d, L

\* sched_fork: the child is plain if its parent is, and nothing waits for it yet.
LEMMA SchedForkAdvancing ==
  ASSUME PInv, Advancing(sched, {}), NEW cpu \in Cpus, NEW child \in Tasks, SchedFork(cpu, child)
  PROVE  Advancing(sched', {})
<1> DEFINE curr   == rq[cpu].curr
           me     == task[curr]
           policy == IF me.reset_on_fork /\ is_rt_policy(me.policy) THEN "normal" ELSE me.policy
           nice   == IF me.reset_on_fork /\ me.nice < 0 THEN 0 ELSE me.nice
           prio   == normal_prio(me.policy, me.rt_priority)
           born   == [me EXCEPT !.state = "new", !.cpu = cpu, !.on_cpu = FALSE, !.sticky = FALSE,
                                !.policy = policy, !.nice = nice, !.reset_on_fork = FALSE,
                                !.prio = prio, !.top_waiter = PRIO_LIMIT, !.parent = curr]
           s      == [sched EXCEPT !.task[child] = born]
           half   == rq[cpu].time_slice \div 2
           a      == [s EXCEPT !.rq[cpu].time_slice = half]
           b      == [a EXCEPT !.task[child].time_slice = half]
           c      == [s EXCEPT !.rq[cpu].time_slice = 0]
           d      == [c EXCEPT !.rq[cpu].need_resched = TRUE]
           t      == CASE born.policy = "fifo" -> s
                       [] born.policy # "fifo" /\ rq[cpu].time_slice >= 2 -> b
                       [] OTHER -> time_slice_expired(d, child)
<1>1. sched \in SchedState /\ sched.task = task /\ sched.rq = rq /\ Placed(sched) BY PFacts
<1>2. curr \in Tasks /\ sched.task[child].state = "none" /\ me.state = "running"
  BY <1>1, AskAssumption DEF SchedFork
<1>3. Become(t) BY DEF SchedFork
<1>4. me \in TaskRec BY <1>1, <1>2, StateParts
<1>5. me.policy \in Policies /\ me.nice \in Nices /\ me.rt_priority \in RtPrios
  BY <1>4, TaskFields
<1>6. policy \in Policies /\ nice \in Nices /\ prio \in QueuePrios
  <2>1. "normal" \in Policies /\ 0 \in Nices BY DeadlineAssumption DEF Policies
  <2> QED BY <1>5, <2>1, NormalPrio
<1>7. me.allowed = sched.task[curr].allowed /\ sched.task[curr] = me BY <1>1
<1>8. Steady => Plain(me) /\ (Flat => me.prio = NORMAL_PRIO) BY <1>2, <1>7, AdvancingFacts
<1>9. Steady => /\ policy \in {"normal", "batch", "fifo", "rr"}
                /\ rt_prio(prio) \/ (prio = NORMAL_PRIO /\ ~is_rt_policy(policy))
                /\ Flat => prio = NORMAL_PRIO
  <2> SUFFICES ASSUME Steady
               PROVE  /\ policy \in {"normal", "batch", "fifo", "rr"}
                      /\ rt_prio(prio) \/ (prio = NORMAL_PRIO /\ ~is_rt_policy(policy))
                      /\ Flat => prio = NORMAL_PRIO
    OBVIOUS
  <2>1. me.policy \in {"normal", "batch", "fifo", "rr"} BY <1>8 DEF Plain
  <2>2. policy \in {"normal", "batch", "fifo", "rr"} BY <2>1
  <2>3. ~is_rt_policy(me.policy) => ~is_rt_policy(policy) BY DEF is_rt_policy
  <2>4. rt_prio(prio) <=> is_rt_policy(me.policy) BY <1>5, NormalIsEarned
  <2>5. ~is_rt_policy(me.policy) => prio = NORMAL_PRIO
    BY <2>1 DEF normal_prio, is_rt_policy
  <2>6. Flat => ~is_rt_policy(me.policy)
    <3>1. ~rt_prio(NORMAL_PRIO) BY PrioAssumption DEF rt_prio, NORMAL_PRIO
    <3> QED BY <1>8, <3>1 DEF Plain
  <2> HIDE DEF policy, prio
  <2> QED BY <2>2, <2>3, <2>4, <2>5, <2>6
<1> HIDE DEF policy, nice, prio, me, curr
<1>10. born \in TaskRec BY <1>2, <1>4, <1>6, BornType
<1>11. /\ born.policy = policy /\ born.prio = prio /\ born.top_waiter = PRIO_LIMIT
       /\ ~born.sticky /\ born.allowed = me.allowed
  BY <1>4 DEF TaskRec
<1> HIDE DEF born
<1>12. (Steady => Plain(born)) /\ (Flat => born.prio = NORMAL_PRIO)
  <2>1. Flat => Steady BY DEF Flat
  <2> QED BY <1>9, <1>11, <2>1 DEF Plain
<1>13. \A k \in Cpus : sched.rq[k].curr # child BY <1>1, <1>2 DEF Placed, PlacedTask
<1> DEFINE L == {child}
<1>14. child \in L OBVIOUS
<1> HIDE DEF L
<1>15. Lean(sched, s, L, {}, {}) /\ s \in SchedState /\ s.task[child] = born
  <2>1. sched.task \in [Tasks -> TaskRec] BY <1>1, StateParts
  <2>2. s.rq = sched.rq /\ s.task = [sched.task EXCEPT ![child] = born] /\ s.task[child] = born
    BY <2>1 DEF sched
  <2>3. s \in SchedState BY <1>1, <1>10, TaskStep DEF Step
  <2> HIDE DEF s, sched
  <2> QED BY <1>1, <1>11, <1>14, <2>2, <2>3, OneTaskLean
<1> HIDE DEF s
<1>16. half \in 0 .. SLICE /\ 0 \in 0 .. SLICE
  <2>1. sched.rq[cpu].time_slice \in 0 .. SLICE BY <1>1, StateParts, RqFields
  <2>2. rq[cpu].time_slice \in 0 .. SLICE BY <1>1, <2>1
  <2> QED BY <2>2, SliceAssumption
<1> HIDE DEF half
<1>17. \A v \in 0 .. SLICE : Lean(s, [s EXCEPT !.rq[cpu].time_slice = v], {}, {}, {})
  BY <1>15, RqLean
<1>18. Lean(s, a, {}, {}, {}) /\ Lean(s, c, {}, {}, {}) BY <1>16, <1>17
<1> HIDE DEF a, c
<1>19. Lean(s, b, {}, {}, {})
  <2>1. a \in SchedState => Lean(a, b, {}, {}, {}) BY <1>16, TaskLean
  <2> QED BY <1>18, <2>1, LeanChain
<1>20. Lean(s, d, {}, {}, {})
  <2>1. c \in SchedState => Lean(c, d, {}, {}, {}) BY RqLean
  <2> QED BY <1>18, <2>1, LeanChain
<1> HIDE DEF b, d
<1>21. Lean(s, time_slice_expired(d, child), {}, {}, {}) BY <1>20, ExpiredLean, LeanChain
<1>22. Lean(s, s, {}, {}, {}) BY <1>15, LeanRefl
<1>23. Lean(s, t, {}, {}, {}) BY <1>19, <1>21, <1>22
<1> HIDE DEF t
<1>24. Lean(sched, t, L, {}, {})
  <2>1. Lean(s, t, L, {}, {}) BY <1>23 DEF Lean
  <2> QED BY <1>15, <2>1, LeanChain
<1>25. sched' = t BY <1>3, <1>24, BecomeLean
<1>26. Forks(sched, t, child) BY <1>25, SchedForkEffect
<1>27. Touch(sched, t, child) /\ child \notin Queued(t)
  <2>1. child \notin Queued(sched) BY <1>1, <1>2 DEF Placed, PlacedTask
  <2> QED BY <1>26, <2>1 DEF Forks
<1>28. PICK parent \in Tasks : t.task[child].allowed = sched.task[parent].allowed
  BY <1>26 DEF Forks, Running
<1>29. Level(born, t.task[child]) /\ ~t.task[child].sticky BY <1>11, <1>15, <1>23 DEF Lean
<1>30. Sound(t.task[child])
  <2>1. sched.task[parent].allowed # {} BY AdvancingFacts
  <2>2. Flat => Steady BY DEF Flat
  <2> QED BY <1>12, <1>28, <1>29, <2>1, <2>2 DEF Sound, Level
<1>31. Lean(sched, t, {child}, {child}, {}) BY <1>24 DEF Lean, L
<1> QED BY <1>1, <1>13, <1>25, <1>27, <1>28, <1>29, <1>30, <1>31, TouchAdvancing

\* set_cpus_allowed_ptr: a queued task has a CPU of the new mask look at it.
LEMMA SetCpusAllowedAdvancing ==
  ASSUME PInv, Advancing(sched, {}), NEW p \in Tasks, NEW mask \in MaskAsks,
         SetCpusAllowed(p, mask)
  PROVE  Advancing(sched', {})
<1> DEFINE cpu   == task[p].cpu
           first == CHOOSE c \in mask : \A e \in mask : c <= e
           s1    == [sched EXCEPT !.task[p].allowed = mask]
           e     == resched_cpu(s1, cpu)
           f     == [s1 EXCEPT !.task[p].cpu = first]
           s2    == CASE cpu \in mask -> s1
                      [] cpu \notin mask /\ task[p].on_cpu -> e
                      [] OTHER -> f
           q     == try_preempt(s2, p, cpu)
           t     == IF task_queued(sched, p) THEN q ELSE s2
           r     == [sched.task[p] EXCEPT !.allowed = mask]
<1>1. sched \in SchedState /\ sched.task = task /\ MapExact(sched) BY PFacts, IInvSched
<1>2. cpu \in Cpus BY <1>1, StateParts, TaskFields
<1>3. mask \in (SUBSET Cpus) \ {{}} /\ ~Ordered BY AskAssumption DEF Ordered
<1>4. first \in Cpus
  <2>1. mask \subseteq Nat /\ mask # {} BY <1>3, CpuAssumption DEF Cpus
  <2>2. \E c \in mask : \A d \in mask : c <= d BY <2>1, NatMin
  <2> QED BY <1>3, <2>2
<1>5. Become(t) BY Zenon DEF SetCpusAllowed
<1>6. Rebinds(sched, sched', p) BY <1>3, SetCpusAllowedEffect
<1> HIDE DEF cpu, first
<1>7. /\ r \in TaskRec /\ r.allowed = mask /\ Level(sched.task[p], r)
      /\ r.sticky = sched.task[p].sticky
  <2>1. sched.task[p] \in TaskRec BY <1>1, StateParts
  <2>2. r \in TaskRec BY <1>3, <2>1, TaskWrite
  <2>3. /\ r.allowed = mask /\ r.prio = sched.task[p].prio /\ r.policy = sched.task[p].policy
        /\ r.top_waiter = sched.task[p].top_waiter /\ r.sticky = sched.task[p].sticky
    BY <2>1 DEF TaskRec
  <2> HIDE DEF r
  <2> QED BY <2>2, <2>3, SameLevel
<1>8. /\ Lean(sched, s1, {}, {}, {}) /\ Step(sched, s1) /\ s1.task[p].allowed = mask
  <2> DEFINE u == [sched EXCEPT !.task[p] = r]
  <2>1. s1 = u OBVIOUS
  <2> HIDE DEF r, s1
  <2>2. sched.task \in [Tasks -> TaskRec] BY <1>1, StateParts
  <2>3. u.rq = sched.rq /\ u.task = [sched.task EXCEPT ![p] = r] /\ u.task[p] = r
    BY <2>2 DEF sched
  <2>4. Step(sched, u) BY <1>1, <1>7, TaskStep
  <2>5. u \in SchedState BY <2>4 DEF Step
  <2> HIDE DEF u, sched
  <2>6. r.sticky => sched.task[p].sticky BY <1>7
  <2>7. Lean(sched, u, {}, {}, {}) BY <1>1, <1>7, <2>3, <2>5, <2>6, OneTaskLean
  <2> QED BY <1>7, <2>1, <2>3, <2>4, <2>7
<1> HIDE DEF s1
<1>9. s1 \in SchedState BY <1>8 DEF Lean
<1>10. Lean(s1, e, {}, {}, {}) /\ Step(s1, e) /\ e.task = s1.task
  BY <1>2, <1>9, ReschedLean, ReschedStep DEF resched_cpu, SchedState
<1>11. Lean(s1, f, {}, {}, {}) /\ Step(s1, f) /\ f.task[p].allowed = s1.task[p].allowed
  <2>1. s1.task \in [Tasks -> TaskRec] BY <1>9, StateParts
  <2>2. f.task[p].allowed = s1.task[p].allowed BY <1>9, <2>1 DEF SchedState, TaskRec
  <2> QED BY <1>4, <1>9, <2>2, TaskLean, TaskAssign
<1> HIDE DEF e, f
<1>12. /\ Lean(sched, s2, {}, {}, {}) /\ Step(sched, s2) /\ s2.task[p].allowed = mask
  <2>1. s2 = s1 \/ s2 = e \/ s2 = f BY Zenon
  <2> HIDE DEF s2
  <2>2. CASE s2 = s1 BY <1>8, <2>2
  <2>3. CASE s2 = e BY <1>8, <1>10, <2>3, LeanChain, Chain
  <2>4. CASE s2 = f BY <1>8, <1>11, <2>4, LeanChain, Chain
  <2> QED BY <2>1, <2>2, <2>3, <2>4
<1> HIDE DEF s2
<1>13. s2 \in SchedState /\ MapExact(s2) BY <1>1, <1>12, StepExact DEF Step
<1>14. Lean(s2, q, {}, {}, {}) /\ Quiet(s2, q) BY <1>2, <1>13, TryPreemptLean, TryPreemptQuiet
<1>15. (\E c \in q.task[p].allowed : Serves(q, c, p)) /\ ~q.task[p].sticky
  <2>1. s2.task[p].allowed # {} BY <1>3, <1>12
  <2> QED BY <1>2, <1>3, <1>13, <2>1, TryPreemptServes
<1> HIDE DEF q
<1>16. Lean(sched, t, {}, {}, {}) /\ t.task[p].allowed = mask
  <2>1. Lean(sched, q, {}, {}, {}) BY <1>12, <1>14, LeanChain
  <2>2. q.task[p].allowed = mask BY <1>12, <1>14 DEF Quiet, SameCore
  <2> QED BY <1>12, <2>1, <2>2
<1>17. task_queued(sched, p) <=> p \in Queued(sched) BY DEF Queued
<1>18. /\ p \in Queued(sched) => \E c \in t.task[p].allowed : Serves(t, c, p)
       /\ ~t.task[p].sticky
  <2>1. CASE p \in Queued(sched) BY <1>15, <1>17, <2>1
  <2>2. CASE p \notin Queued(sched)
    <3>1. ~sched.task[p].sticky BY <2>2, AdvancingFacts
    <3> QED BY <1>16, <2>2, <3>1 DEF Lean
  <2> QED BY <2>1, <2>2
<1> HIDE DEF t
<1>19. sched' = t BY <1>5, <1>16, BecomeLean
<1>20. Touch(sched, t, p) /\ Queued(t) = Queued(sched) BY <1>6, <1>19 DEF Rebinds
<1>21. Sound(t.task[p])
  <2>1. Sound(sched.task[p]) BY DEF Advancing
  <2>2. Level(sched.task[p], t.task[p]) BY <1>16 DEF Lean
  <2>3. Flat => Steady BY DEF Flat
  <2> QED BY <1>3, <1>16, <2>1, <2>2, <2>3 DEF Sound, Level
<1>22. Lean(sched, t, {p}, {p}, {}) BY <1>16 DEF Lean
<1> QED BY <1>1, <1>3, <1>18, <1>19, <1>20, <1>21, <1>22, TouchAdvancing

\* rt_mutex_setprio: a queued task whose priority changes preempts.  With locks that
\* are waited for priorities are not kept in order, so to serve it is to be busy.
LEMMA RtMutexSetprioAdvancing ==
  ASSUME PInv, Advancing(sched, {}), NEW p \in Tasks, NEW waiter \in WaiterPrios,
         RtMutexSetprio(p, waiter)
  PROVE  Advancing(sched', {})
<1> DEFINE a == [task[p] EXCEPT !.top_waiter = waiter]
           getprio == rt_mutex_getprio(a, normal_prio(task[p].policy, task[p].rt_priority))
           r == [a EXCEPT !.prio = getprio]
           setprio(s) == [s EXCEPT !.task[p].top_waiter = waiter, !.task[p].prio = getprio]
<1>1. sched \in SchedState /\ sched.task = task /\ MapExact(sched) BY PFacts, IInvSched
<1>2. task[p] \in TaskRec BY <1>1, StateParts
<1>3. task[p].cpu \in Cpus /\ task[p].rt_priority \in RtPrios /\ task[p].policy \in Policies
  BY <1>2, TaskFields
<1>4. waiter \in 0 .. PRIO_LIMIT /\ ~Steady /\ ~Ordered /\ ~Flat
  BY AskAssumption DEF Ordered, Flat, Steady
<1>5. a \in TaskRec BY <1>2, <1>4, TaskWrite
<1>6. a.top_waiter = waiter /\ a.sticky = task[p].sticky BY <1>2 DEF TaskRec
<1>7. getprio \in QueuePrios
  <2>1. normal_prio(task[p].policy, task[p].rt_priority) \in QueuePrios BY <1>3, NormalPrio
  <2> QED BY <1>4, <1>6, <2>1, GetPrio
<1>8. \/ Become([sched EXCEPT !.task[p].top_waiter = waiter])
      \/ \E fit \in BOOLEAN :
           LET s1 == IF task_queued(sched, p)
                     THEN enqueue_task(setprio(dequeue_task(sched, p)), p, fit)
                     ELSE setprio(sched)
               s2 == IF task[p].on_cpu /\ getprio > task[p].prio
                     THEN resched_cpu(s1, task[p].cpu) ELSE s1
           IN  Become(IF task_queued(sched, p) THEN try_preempt(s2, p, task[p].cpu) ELSE s2)
  BY DEF RtMutexSetprio, Requeued
<1>9. Reprios(sched, sched', p) BY <1>4, RtMutexSetprioEffect
<1>10. /\ Touch(sched, sched', p) /\ Queued(sched') = Queued(sched)
       /\ sched'.task[p].allowed = sched.task[p].allowed /\ sched'.task[p].cpu = sched.task[p].cpu
  BY <1>9 DEF Reprios, Unmoved
<1>11. Sound(sched'.task[p])
  <2>1. sched.task[p].allowed # {} BY AdvancingFacts
  <2> QED BY <1>4, <1>10, <2>1 DEF Sound
<1> HIDE DEF getprio
<1>12. \A u \in SchedState : u.task = task => setprio(u) = [u EXCEPT !.task[p] = r]
  <2> SUFFICES ASSUME NEW u \in SchedState, u.task = task
               PROVE  setprio(u) = [u EXCEPT !.task[p] = r]
    OBVIOUS
  <2>1. u.task \in [Tasks -> TaskRec] BY StateParts
  <2> QED BY <2>1 DEF SchedState
<1>13. [sched EXCEPT !.task[p].top_waiter = waiter] = [sched EXCEPT !.task[p] = a] BY <1>1
<1> HIDE DEF a, setprio
<1>14. r \in TaskRec /\ r.sticky = sched.task[p].sticky
  <2>1. r \in TaskRec BY <1>5, <1>7, TaskWrite
  <2>2. r.sticky = a.sticky BY <1>5 DEF TaskRec
  <2> QED BY <1>1, <1>6, <2>1, <2>2
<1> HIDE DEF r
<1>15. CASE Become([sched EXCEPT !.task[p].top_waiter = waiter])
  <2> DEFINE t == [sched EXCEPT !.task[p] = a]
  <2>1. sched.task \in [Tasks -> TaskRec] BY <1>1, StateParts
  <2>2. t.rq = sched.rq /\ t.task = [sched.task EXCEPT ![p] = a] BY DEF sched
  <2>3. t \in SchedState BY <1>1, <1>5, TaskStep DEF Step
  <2>4. Become(t) BY <1>13, <1>15
  <2> HIDE DEF t
  <2>5. sched' = t BY <2>3, <2>4, BecomeSched
  <2>6. \A q \in Tasks : t.task[q].sticky = sched.task[q].sticky BY <1>1, <1>6, <2>1, <2>2
  <2>7. \A c \in Cpus : Serves(sched, c, p) => Serves(t, c, p) BY <1>4, <2>2 DEF Serves
  <2>8. sched.task[p].allowed \subseteq Cpus /\ sched.task[p].cpu \in Cpus BY <1>1, PrioTypes
  <2>9. p \in Queued(t) => ServedBy(t, p, {})
    <3> HAVE p \in Queued(t)
    <3>1. ServedBy(sched, p, {}) BY <1>10, <2>5 DEF Advancing
    <3> QED BY <1>10, <2>5, <2>7, <2>8, <3>1 DEF ServedBy
  <2>10. t.task[p].sticky => Home(t, p, {})
    <3> HAVE t.task[p].sticky
    <3>1. Home(sched, p, {}) BY <2>6 DEF Advancing
    <3> QED BY <1>10, <2>5, <2>7, <2>8, <3>1 DEF Home
  <2>11. Fits(sched, t, p, {}) BY <1>4, <1>11, <2>5, <2>9, <2>10 DEF Fits
  <2>12. \A c \in Cpus \ {} :
           /\ Calm(sched.rq[c], t.rq[c])
           /\ Ordered => t.rq[c].need_resched \/ t.rq[c].prio <= sched.rq[c].prio
    BY <1>4, <2>2 DEF Calm
  <2>13. Known(t) BY <1>4 DEF Known
  <2> QED BY <1>1, <1>10, <2>5, <2>6, <2>11, <2>12, <2>13, KeepsAdvancing
<1>16. ASSUME NEW fit \in BOOLEAN,
             LET s1 == IF task_queued(sched, p)
                       THEN enqueue_task(setprio(dequeue_task(sched, p)), p, fit)
                       ELSE setprio(sched)
                 s2 == IF task[p].on_cpu /\ getprio > task[p].prio
                       THEN resched_cpu(s1, task[p].cpu) ELSE s1
             IN  Become(IF task_queued(sched, p) THEN try_preempt(s2, p, task[p].cpu) ELSE s2)
      PROVE  Advancing(sched', {})
  <2> DEFINE s1 == IF task_queued(sched, p)
                   THEN enqueue_task([dequeue_task(sched, p) EXCEPT !.task[p] = r], p, fit)
                   ELSE [sched EXCEPT !.task[p] = r]
             e  == resched_cpu(s1, task[p].cpu)
             s2 == IF task[p].on_cpu /\ getprio > task[p].prio THEN e ELSE s1
             q  == try_preempt(s2, p, task[p].cpu)
             t  == IF task_queued(sched, p) THEN q ELSE s2
  <2>1. Become(t)
    <3>1. setprio(sched) = [sched EXCEPT !.task[p] = r] BY <1>1, <1>12
    <3>2. setprio(dequeue_task(sched, p)) = [dequeue_task(sched, p) EXCEPT !.task[p] = r]
      <4>1. dequeue_task(sched, p).task = sched.task BY <1>1 DEF dequeue_task, SchedState
      <4>2. dequeue_task(sched, p) \in SchedState BY <1>1, DequeueStep DEF Step
      <4> QED BY <1>1, <1>12, <4>1, <4>2
    <3>3. s1 = IF task_queued(sched, p)
               THEN enqueue_task(setprio(dequeue_task(sched, p)), p, fit) ELSE setprio(sched)
      BY <3>1, <3>2
    <3> QED BY <1>16, <3>3
  <2>2. Lean(sched, s1, {p}, {}, {}) BY <1>1, <1>14, RequeueLean
  <2>3. Step(sched, s1)
    <3> DEFINE x == dequeue_task(sched, p)
    <3>2. Step(sched, x) BY <1>1, DequeueStep
    <3>3. Step(sched, [sched EXCEPT !.task[p] = r]) BY <1>1, <1>14, TaskStep
    <3> HIDE DEF x
    <3>4. x \in SchedState BY <3>2 DEF Step
    <3>5. Step(sched, [x EXCEPT !.task[p] = r]) BY <1>14, <3>2, <3>4, TaskStep, Chain
    <3>6. Step(sched, enqueue_task([x EXCEPT !.task[p] = r], p, fit))
      BY <3>5, EnqueueStep, Chain
    <3> QED BY <3>3, <3>6 DEF x
  <2> HIDE DEF s1
  <2>4. s1 \in SchedState /\ MapExact(s1) BY <1>1, <2>3, StepExact DEF Step
  <2>5. Lean(s1, e, {}, {}, {}) /\ Step(s1, e) BY <1>3, <2>4, ReschedLean, ReschedStep
  <2>6. Lean(s1, s1, {}, {}, {}) BY <2>4, LeanRefl
  <2> HIDE DEF e
  <2>7. Lean(s1, s2, {}, {}, {}) BY <2>5, <2>6
  <2>8. s2 \in SchedState /\ MapExact(s2)
    <3>1. MapExact(e) /\ e \in SchedState BY <2>4, <2>5, StepExact DEF Step
    <3> QED BY <2>4, <3>1
  <2> HIDE DEF s2
  <2>9. Lean(s2, q, {}, {}, {}) /\ Quiet(s2, q)
    BY <1>3, <2>8, TryPreemptLean, TryPreemptQuiet
  <2>10. s2.task[p].allowed # {} =>
           (\E c \in q.task[p].allowed : Serves(q, c, p)) /\ ~q.task[p].sticky
    BY <1>3, <1>4, <2>8, TryPreemptServes
  <2> HIDE DEF q
  <2>11. Lean(s1, t, {}, {}, {})
    <3>1. Lean(s1, q, {}, {}, {}) BY <2>7, <2>9, LeanChain
    <3> QED BY <2>7, <3>1
  <2>12. Lean(sched, t, {p}, {}, {})
    <3>1. Lean(s1, t, {p}, {}, {}) BY <2>11 DEF Lean
    <3> QED BY <2>2, <3>1, LeanChain
  <2>13. sched' = t
    <3> HIDE DEF t
    <3> QED BY <2>1, <2>12, BecomeLean
  <2>14. task_queued(sched, p) <=> p \in Queued(sched) BY DEF Queued
  <2>15. /\ p \in Queued(t) => \E c \in t.task[p].allowed : Serves(t, c, p)
         /\ ~t.task[p].sticky
    <3>1. CASE p \in Queued(sched)
      <4>1. t = q BY <2>14, <3>1
      <4>2. s2.task[p].allowed = t.task[p].allowed BY <2>9, <4>1 DEF Quiet, SameCore
      <4>3. t.task[p].allowed # {} BY <1>11, <2>13 DEF Sound
      <4> QED BY <2>10, <4>1, <4>2, <4>3
    <3>2. CASE p \notin Queued(sched)
      <4>1. p \notin Queued(t) BY <1>10, <2>13, <3>2
      <4>2. ~sched.task[p].sticky BY <3>2, AdvancingFacts
      <4> HIDE DEF t
      <4> QED BY <2>12, <4>1, <4>2 DEF Lean
    <3> QED BY <3>1, <3>2
  <2> HIDE DEF t
  <2>16. Lean(sched, t, {p}, {p}, {}) BY <2>12 DEF Lean
  <2> QED BY <1>1, <1>4, <1>10, <1>11, <2>13, <2>15, <2>16, TouchAdvancing
<1> QED BY <1>8, <1>15, <1>16

\* __sched_setscheduler: a queued task preempts, a running one tells its rq.
LEMMA SchedSetschedulerAdvancing ==
  ASSUME PInv, Advancing(sched, {}), NEW p \in Tasks, NEW policy \in Policies,
         NEW prio \in RtPrios, NEW reset \in BOOLEAN, SchedSetscheduler(p, policy, prio, reset),
         Steady => policy \in {"normal", "batch", "fifo", "rr"}, Flat => ~is_rt_policy(policy)
  PROVE  Advancing(sched', {})
<1> DEFINE cpu == task[p].cpu
           new == rt_mutex_getprio(task[p], normal_prio(policy, prio))
           setscheduler(s) ==
             [s EXCEPT !.task[p].policy = policy, !.task[p].rt_priority = prio,
                       !.task[p].prio = new]
<1>1. sched \in SchedState /\ sched.task = task /\ MapExact(sched) BY PFacts, IInvSched
<1>2. task[p] \in TaskRec BY <1>1, StateParts
<1>3. cpu \in Cpus BY <1>2, TaskFields
<1>4. new \in QueuePrios
  <2>1. task[p].top_waiter \in 0 .. PRIO_LIMIT BY <1>2, TaskFields
  <2> QED BY <2>1, NormalPrio, GetPrio
<1>5. PICK d \in Advances, fit \in BOOLEAN :
        LET s0 == [update_clocks(sched, d) EXCEPT !.task[p].reset_on_fork = reset]
            s1 == Requeued(s0, p, setscheduler, fit)
        IN  Become(CASE task_queued(sched, p) -> try_preempt(s1, p, cpu)
                     [] ~task_queued(sched, p) /\ task[p].on_cpu ->
                          IF new > task[p].prio \/ prio > task[p].rt_priority
                          THEN resched_cpu(reset_rq_task(s1, cpu, p), cpu)
                          ELSE reset_rq_task(s1, cpu, p)
                     [] OTHER -> s1)
  BY Zenon DEF SchedSetscheduler
<1>6. Steady => /\ task[p].top_waiter = PRIO_LIMIT
                /\ rt_prio(new) \/ (new = NORMAL_PRIO /\ ~is_rt_policy(policy))
                /\ Flat => new = NORMAL_PRIO
  <2> SUFFICES ASSUME Steady
               PROVE  /\ task[p].top_waiter = PRIO_LIMIT
                      /\ rt_prio(new) \/ (new = NORMAL_PRIO /\ ~is_rt_policy(policy))
                      /\ Flat => new = NORMAL_PRIO
    OBVIOUS
  <2>1. task[p].top_waiter = PRIO_LIMIT
    <3>1. Plain(sched.task[p]) BY AdvancingFacts
    <3> QED BY <1>1, <3>1 DEF Plain
  <2>2. new = normal_prio(policy, prio)
    <3>1. normal_prio(policy, prio) \in QueuePrios BY NormalPrio
    <3>2. ~(PRIO_LIMIT < normal_prio(policy, prio))
      BY <3>1, PrioAssumption DEF QueuePrios, PRIO_LIMIT
    <3> QED BY <2>1, <3>2 DEF rt_mutex_getprio
  <2>3. rt_prio(normal_prio(policy, prio)) <=> is_rt_policy(policy) BY NormalIsEarned
  <2>4. ~is_rt_policy(policy) => normal_prio(policy, prio) = NORMAL_PRIO
    BY DEF normal_prio, is_rt_policy
  <2> HIDE DEF new
  <2> QED BY <2>1, <2>2, <2>3, <2>4
<1> DEFINE a  == update_clocks(sched, d)
           z  == [a.task[p] EXCEPT !.reset_on_fork = reset]
           s0 == [a EXCEPT !.task[p].reset_on_fork = reset]
           v  == [s0.task[p] EXCEPT !.policy = policy]
           w  == [v EXCEPT !.rt_priority = prio]
           r  == [w EXCEPT !.prio = new]
<1>7. d \in Nat BY DEF Advances
<1>8. a \in SchedState /\ a.task = task /\ Lean(sched, a, {}, {}, {}) /\ Step(sched, a)
  <2>1. Lean(sched, a, {}, {}, {}) /\ Step(sched, a) BY <1>1, <1>7, ClocksLean, ClocksStep
  <2>2. a.task = task BY <1>1 DEF update_clocks, SchedState
  <2> QED BY <2>1, <2>2 DEF Lean
<1>9. Reprios(sched, sched', p) BY SchedSetschedulerEffect
<1>10. /\ Touch(sched, sched', p) /\ Queued(sched') = Queued(sched)
       /\ sched'.task[p].allowed = sched.task[p].allowed
  BY <1>9 DEF Reprios, Unmoved
<1> HIDE DEF a, new
<1>11. s0 = [a EXCEPT !.task[p] = z] OBVIOUS
<1>12. /\ z \in TaskRec /\ z.top_waiter = task[p].top_waiter /\ z.prio = task[p].prio
       /\ z.policy = task[p].policy /\ z.sticky = task[p].sticky
  <2>1. z \in TaskRec BY <1>2, <1>8, TaskWrite
  <2>2. /\ z.top_waiter = a.task[p].top_waiter /\ z.prio = a.task[p].prio
        /\ z.policy = a.task[p].policy /\ z.sticky = a.task[p].sticky
    BY <1>2, <1>8 DEF TaskRec
  <2> QED BY <1>8, <2>1, <2>2
<1> HIDE DEF z
<1>13. /\ s0 \in SchedState /\ s0.task[p] = z /\ Step(sched, s0)
       /\ Lean(sched, s0, {}, {}, {})
  <2> DEFINE b == [a EXCEPT !.task[p] = z]
  <2>1. a.task \in [Tasks -> TaskRec] BY <1>8, StateParts
  <2>2. b.rq = a.rq /\ b.task = [a.task EXCEPT ![p] = z] /\ b.task[p] = z
    BY <1>8, <2>1 DEF SchedState
  <2>3. Step(a, b) BY <1>8, <1>12, TaskStep
  <2> HIDE DEF b, s0
  <2>4. b \in SchedState /\ Step(sched, b) BY <1>8, <2>3, Chain DEF Step
  <2>5. Level(a.task[p], z) BY <1>8, <1>12, SameLevel
  <2>6. z.sticky => a.task[p].sticky BY <1>8, <1>12
  <2>7. Lean(a, b, {}, {}, {}) BY <1>8, <2>2, <2>4, <2>5, <2>6, OneTaskLean
  <2>8. Lean(sched, b, {}, {}, {}) BY <1>8, <2>7, LeanChain
  <2> QED BY <1>11, <2>2, <2>4, <2>8 DEF b
<1>14. \A u \in SchedState : u.task = s0.task => setscheduler(u) = [u EXCEPT !.task[p] = r]
  <2> HIDE DEF s0
  <2> SUFFICES ASSUME NEW u \in SchedState, u.task = s0.task
               PROVE  setscheduler(u) = [u EXCEPT !.task[p] = r]
    OBVIOUS
  <2>1. u.task \in [Tasks -> TaskRec] BY StateParts
  <2> QED BY <2>1 DEF SchedState
<1>15. /\ r \in TaskRec /\ r.policy = policy /\ r.prio = new /\ r.top_waiter = z.top_waiter
       /\ r.sticky = s0.task[p].sticky
  <2> HIDE DEF s0
  <2>1. v \in TaskRec BY <1>12, <1>13, TaskWrite
  <2>2. /\ v.policy = policy /\ v.top_waiter = z.top_waiter /\ v.sticky = z.sticky
    BY <1>12, <1>13 DEF TaskRec
  <2> HIDE DEF v
  <2>3. w \in TaskRec BY <2>1, TaskWrite
  <2>4. /\ w.policy = v.policy /\ w.top_waiter = v.top_waiter /\ w.sticky = v.sticky
    BY <2>1 DEF TaskRec
  <2> HIDE DEF w
  <2>5. r \in TaskRec BY <1>4, <2>3, TaskWrite
  <2>6. /\ r.policy = w.policy /\ r.top_waiter = w.top_waiter /\ r.sticky = w.sticky
        /\ r.prio = new
    BY <2>3 DEF TaskRec
  <2> HIDE DEF r
  <2> QED BY <1>13, <2>2, <2>4, <2>5, <2>6
<1> HIDE DEF r
<1>16. (Steady => Plain(r)) /\ (Flat => r.prio = NORMAL_PRIO)
  <2>1. Flat => Steady BY DEF Flat
  <2> QED BY <1>6, <1>12, <1>15, <2>1 DEF Plain
<1> DEFINE s1 == IF task_queued(s0, p)
                 THEN enqueue_task([dequeue_task(s0, p) EXCEPT !.task[p] = r], p, fit)
                 ELSE [s0 EXCEPT !.task[p] = r]
           q  == try_preempt(s1, p, cpu)
           x  == reset_rq_task(s1, cpu, p)
           e  == resched_cpu(x, cpu)
           t  == CASE task_queued(sched, p) -> q
                   [] ~task_queued(sched, p) /\ task[p].on_cpu ->
                        IF new > task[p].prio \/ prio > task[p].rt_priority THEN e ELSE x
                   [] OTHER -> s1
<1>17. Become(t)
  <2>1. setscheduler(s0) = [s0 EXCEPT !.task[p] = r] BY <1>13, <1>14
  <2>2. setscheduler(dequeue_task(s0, p)) = [dequeue_task(s0, p) EXCEPT !.task[p] = r]
    <3> HIDE DEF s0, setscheduler
    <3>1. dequeue_task(s0, p).task = s0.task BY <1>13 DEF dequeue_task, SchedState
    <3>2. dequeue_task(s0, p) \in SchedState BY <1>13, DequeueStep DEF Step
    <3> QED BY <1>14, <3>1, <3>2
  <2>3. s1 = IF task_queued(s0, p)
             THEN enqueue_task(setscheduler(dequeue_task(s0, p)), p, fit) ELSE setscheduler(s0)
    BY <2>1, <2>2
  <2>4. s1 = Requeued(s0, p, setscheduler, fit) BY <2>3 DEF Requeued
  <2> QED BY <1>5, <2>4 DEF new, a
<1> HIDE DEF s0, cpu, setscheduler
<1>18. Lean(s0, s1, {p}, {}, {}) /\ Level(r, s1.task[p]) BY <1>13, <1>15, RequeueLean
<1>19. Step(sched, s1)
  <2> DEFINE y == dequeue_task(s0, p)
  <2>1. Step(sched, y) BY <1>13, DequeueStep, Chain
  <2>2. Step(sched, [s0 EXCEPT !.task[p] = r]) BY <1>13, <1>15, TaskStep, Chain
  <2> HIDE DEF y
  <2>3. y \in SchedState BY <2>1 DEF Step
  <2>4. Step(sched, [y EXCEPT !.task[p] = r]) BY <1>15, <2>1, <2>3, TaskStep, Chain
  <2>5. Step(sched, enqueue_task([y EXCEPT !.task[p] = r], p, fit)) BY <2>4, EnqueueStep, Chain
  <2> QED BY <2>2, <2>5 DEF y
<1> HIDE DEF s1
<1>20. s1 \in SchedState /\ MapExact(s1) BY <1>1, <1>19, StepExact DEF Step
<1>21. Lean(sched, s1, {p}, {}, {})
  <2>1. Lean(sched, s0, {p}, {}, {}) BY <1>13 DEF Lean
  <2> QED BY <1>18, <2>1, LeanChain
<1>22. (Steady => Plain(s1.task[p])) /\ (Steady => s1.task[p].prio = new)
  BY <1>15, <1>16, <1>18 DEF Level
<1>23. ASSUME sched' \in SchedState, Level(s1.task[p], sched'.task[p]) PROVE Sound(sched'.task[p])
  <2>1. sched.task[p].allowed # {} BY AdvancingFacts
  <2>2. Flat => Steady BY DEF Flat
  <2> QED BY <1>10, <1>15, <1>16, <1>22, <1>23, <2>1, <2>2 DEF Sound, Level
<1>24. task_queued(sched, p) <=> p \in Queued(sched) BY DEF Queued
<1>25. Placed(sched) BY PFacts
<1>26. CASE p \in Queued(sched)
  <2>1. t = q BY <1>24, <1>26, Zenon
  <2> HIDE DEF t
  <2>2. Lean(s1, q, {}, {}, {}) /\ Quiet(s1, q)
    BY <1>3, <1>20, TryPreemptLean, TryPreemptQuiet
  <2>3. s1.task[p].allowed # {} =>
          (\E c \in q.task[p].allowed : Serves(q, c, p)) /\ ~q.task[p].sticky
    <3>1. Ordered => Plain(s1.task[p]) BY <1>22 DEF Ordered
    <3> QED BY <1>3, <1>20, <3>1, TryPreemptServes
  <2> HIDE DEF q
  <2>4. Lean(sched, q, {p}, {}, {})
    <3>1. Lean(s1, q, {p}, {}, {}) BY <2>2 DEF Lean
    <3> QED BY <1>21, <3>1, LeanChain
  <2>5. sched' = q BY <1>17, <2>1, <2>4, BecomeLean
  <2>6. Sound(q.task[p])
    <3>1. q \in SchedState /\ Level(s1.task[p], q.task[p]) BY <2>2 DEF Lean
    <3> QED BY <1>23, <2>5, <3>1
  <2>7. (\E c \in q.task[p].allowed : Serves(q, c, p)) /\ ~q.task[p].sticky
    <3>1. s1.task[p].allowed = q.task[p].allowed BY <2>2 DEF Quiet, SameCore
    <3> QED BY <2>3, <2>6, <3>1 DEF Sound
  <2>8. \A c \in Cpus : sched.rq[c].curr # p BY <1>25, <1>26 DEF Placed, PlacedTask
  <2>9. Lean(sched, q, {p}, {p}, {}) BY <2>4 DEF Lean
  <2> QED BY <1>1, <1>10, <2>5, <2>6, <2>7, <2>8, <2>9, TouchAdvancing
<1>27. CASE p \notin Queued(sched) /\ ~task[p].on_cpu
  <2>1. t = s1 BY <1>24, <1>27, Zenon
  <2> HIDE DEF t
  <2>2. sched' = s1 BY <1>17, <1>21, <2>1, BecomeLean
  <2>3. Sound(s1.task[p])
    <3>1. Level(s1.task[p], s1.task[p]) BY DEF Level
    <3> QED BY <1>20, <1>23, <2>2, <3>1
  <2>4. ~s1.task[p].sticky
    <3>1. ~sched.task[p].sticky BY <1>27, AdvancingFacts
    <3> QED BY <1>21, <3>1 DEF Lean
  <2>5. \A c \in Cpus : sched.rq[c].curr # p BY <1>1, <1>25, <1>27 DEF Placed, PlacedTask
  <2>6. Lean(sched, s1, {p}, {p}, {}) BY <1>21 DEF Lean
  <2> QED BY <1>1, <1>10, <1>27, <2>2, <2>3, <2>4, <2>5, <2>6, TouchAdvancing
<1>28. CASE p \notin Queued(sched) /\ task[p].on_cpu
  <2>1. t = IF new > task[p].prio \/ prio > task[p].rt_priority THEN e ELSE x
    BY <1>24, <1>28, Zenon
  <2>2. /\ x \in SchedState /\ x.task = s1.task /\ x.rq[cpu].prio = s1.task[p].prio
        /\ Calm(s1.rq[cpu], x.rq[cpu])
    BY <1>3, <1>20, ResetRqTask
  <2> DEFINE L == {p}
             C == {cpu}
  <2>3. cpu \in C OBVIOUS
  <2>4. Lean(sched, s1, L, {}, C) BY <1>21 DEF Lean
  <2> HIDE DEF L, C
  <2>5. Lean(s1, x, L, {}, C) BY <1>3, <1>20, <2>3, RqTaskLean
  <2> HIDE DEF x, t
  <2>6. Lean(sched, x, L, {}, C) BY <2>4, <2>5, LeanChain
  <2>7. Lean(x, e, {}, {}, {}) /\ e.task = x.task /\ e.rq[cpu].need_resched
    <3>1. x.rq \in [Cpus -> RqRec] BY <2>2, StateParts
    <3>2. e.task = x.task /\ e.rq[cpu].need_resched
      BY <1>3, <2>2, <3>1 DEF resched_cpu, SchedState, RqRec
    <3> QED BY <1>3, <2>2, <3>2, ReschedLean
  <2>8. Lean(x, x, {}, {}, {}) BY <2>2, LeanRefl
  <2> HIDE DEF e
  <2>9. Lean(x, t, {}, {}, {}) /\ t.task = s1.task BY <2>1, <2>2, <2>7, <2>8
  <2>10. Lean(sched, t, L, {}, C)
    <3>1. Lean(x, t, L, {}, C) BY <2>9 DEF Lean
    <3> QED BY <2>6, <3>1, LeanChain
  <2>11. sched' = t BY <1>17, <2>10, BecomeLean
  <2>12. Sound(t.task[p])
    <3>1. t \in SchedState /\ Level(s1.task[p], t.task[p]) BY <2>9 DEF Lean, Level
    <3> QED BY <1>23, <2>11, <3>1
  <2>13. Calm(sched.rq[cpu], t.rq[cpu]) /\ t.rq[cpu].prio = t.task[p].prio
    <3>1. Calm(sched.rq[cpu], s1.rq[cpu]) BY <1>3, <1>21 DEF Lean
    <3>2. Calm(x.rq[cpu], t.rq[cpu]) /\ t.rq[cpu].prio = x.rq[cpu].prio BY <1>3, <2>9 DEF Lean
    <3> QED BY <2>2, <2>9, <3>1, <3>2 DEF Calm
  <2>14. t.rq[cpu].need_resched \/ (Ordered => t.task[p].prio <= sched.task[p].prio)
    <3>1. CASE new > task[p].prio BY <2>1, <2>7, <3>1
    <3>2. CASE ~(new > task[p].prio)
      <4>1. Ordered => t.task[p].prio = new BY <1>22, <2>9 DEF Ordered
      <4>2. new \in Nat /\ sched.task[p].prio \in Nat BY <1>1, <1>4, PrioTypes DEF QueuePrios
      <4> QED BY <1>1, <3>2, <4>1, <4>2
    <3> QED BY <3>1, <3>2
  <2>15. sched.rq[cpu].curr = p
    <3>1. task[p].on_cpu => rq[task[p].cpu].curr = p BY DEF PInv, OnePlace
    <3> QED BY <1>28, <3>1, PFacts DEF cpu
  <2>16. Lean(sched, t, {p}, {}, {cpu}) BY <2>10 DEF L, C
  <2> QED BY <1>1, <1>3, <1>9, <1>25, <1>28, <2>11, <2>12, <2>13, <2>14, <2>15, <2>16,
             ResetAdvancing
<1> QED BY <1>26, <1>27, <1>28
-----------------------------------------------------------------------------
(***************************************************************************)
(* No task waits for nothing: the theorems.                                *)
(***************************************************************************)
\* Without a task that may fork there is no new one.
Unborn(s) == MayFork = {} => \A p \in Tasks : s.task[p].state # "new"

\* Only sched_fork makes one.
LEMMA EffectUnborn ==
  ASSUME NEW s \in SchedState, NEW t, Effect(s, t), Unborn(s) PROVE Unborn(t)
<1> SUFFICES ASSUME MayFork = {}, NEW q \in Tasks PROVE t.task[q].state # "new" BY DEF Unborn
<1>1. s.task[q].state # "new" BY DEF Unborn
<1>2. CASE Quiet(s, t) BY <1>1, <1>2 DEF Quiet, SameCore
<1>3. ASSUME NEW p \in Tasks,
             \/ Restates(s, t, p) \/ Reprios(s, t, p) \/ Rebinds(s, t, p)
             \/ Wakes(s, t, p) \/ Starts(s, t, p)
      PROVE  t.task[q].state # "new"
  <2>1. Touch(s, t, p) BY <1>3 DEF Restates, Reprios, Rebinds, Wakes, Starts
  <2>2. q # p => t.task[q].state = s.task[q].state BY <2>1 DEF Touch, Others, SameCore
  <2>3. t.task[p].state = s.task[p].state \/ t.task[p].state # "new"
    BY <1>3 DEF Restates, Reprios, Unmoved, Rebinds, Wakes, Starts
  <2> QED BY <1>1, <2>2, <2>3
<1>4. ASSUME NEW cpu \in Cpus, Switches(s, t, cpu) PROVE t.task[q].state # "new"
  <2>1. PICK r \in SchedState, fate \in {"ready", "asleep", "gone"} :
          GivesBack(s, r, s.rq[cpu].curr, fate) /\ Takes(r, t, cpu)
    BY <1>4 DEF Switches
  <2> DEFINE prev == s.rq[cpu].curr
  <2>2. t.task[q].state = r.task[q].state BY <2>1 DEF Takes
  <2>3. q # prev => r.task[q].state = s.task[q].state
    BY <2>1 DEF GivesBack, Touch, Others, SameCore
  <2>4. q = prev => r.task[q].state = s.task[q].state \/ r.task[q].state # "new"
    <3>1. Idle \notin Tasks BY TaskAssumption
    <3> HIDE DEF prev
    <3> QED BY <2>1, <3>1 DEF GivesBack, prev
  <2> QED BY <1>1, <2>2, <2>3, <2>4
<1> QED BY <1>2, <1>3, <1>4 DEF Effect

\* Every step leaves each queued task served: one case per action.
LEMMA NextAdvancing ==
  ASSUME PInv, NoInjection, Unborn(sched), Uninjected(inj), Advancing(sched, {}), [Next]_vars
  PROVE  Advancing(sched', {}) /\ Uninjected(inj')
<1>1. ASSUME NEW cpu \in Cpus, OnCpu(cpu) PROVE Advancing(sched', {}) /\ Uninjected(inj')
  <2>1. CASE Schedule(cpu) BY <2>1, ScheduleAdvancing
  <2>2. CASE \E st \in SleepStates \cup {"running"} : SetCurrentState(cpu, st)
    <3>1. PICK st \in SleepStates \cup {"running"} : SetCurrentState(cpu, st) BY <2>2
    <3>2. st \in {"running", "interruptible", "uninterruptible"} BY AskAssumption
    <3>3. UNCHANGED inj BY <3>1 DEF SetCurrentState
    <3> QED BY <3>1, <3>2, <3>3, SetCurrentStateAdvancing
  <2>3. CASE Exit(cpu)
    <3>1. UNCHANGED inj BY <2>3 DEF Exit
    <3> QED BY <2>3, <3>1, ExitAdvancing
  <2>4. CASE \E p \in Tasks : SchedFork(cpu, p)
    <3>1. UNCHANGED inj BY <2>4 DEF SchedFork
    <3> QED BY <2>4, <3>1, SchedForkAdvancing
  <2>5. CASE \E p \in Tasks : WakeUpNewTask(cpu, p)
    <3>1. PICK p \in Tasks : WakeUpNewTask(cpu, p) BY <2>5
    <3>2. UNCHANGED inj /\ task[p].state = "new" BY <3>1 DEF WakeUpNewTask
    <3>3. MayFork # {} BY <3>2 DEF Unborn, sched
    <3> QED BY <3>1, <3>2, <3>3, WakeUpNewTaskAdvancing
  <2>6. CASE \E from \in Cpus, p \in Tasks : YieldTo(cpu, from, p)
    <3>1. UNCHANGED inj BY <2>6 DEF YieldTo
    <3> QED BY <2>6, <3>1, QuietsAdvancing
  <2>7. CASE \E e \in 0 .. 1 : SchedulerTick(cpu, e)
    <3>1. UNCHANGED inj BY <2>7 DEF SchedulerTick
    <3> QED BY <2>7, <3>1, QuietsAdvancing
  <2>8. CASE IdleTick(cpu) \/ WakeUpIdleCpu(cpu) \/ CpuScaling(cpu)
    <3>1. UNCHANGED inj BY <2>8 DEF IdleTick, WakeUpIdleCpu, CpuScaling
    <3> QED BY <2>8, <3>1, QuietsAdvancing
  <2> QED BY <1>1, <2>1, <2>2, <2>3, <2>4, <2>5, <2>6, <2>7, <2>8 DEF OnCpu
<1>2. ASSUME NEW p \in Tasks, OnTask(p) PROVE Advancing(sched', {}) /\ Uninjected(inj')
  <2>1. CASE \E sync \in SyncAsks : TryToWakeUp(p, sync)
    <3>1. UNCHANGED inj BY <2>1 DEF TryToWakeUp
    <3> QED BY <2>1, <3>1, TryToWakeUpAdvancing
  <2>2. CASE \E waiter \in WaiterPrios : RtMutexSetprio(p, waiter)
    <3>1. UNCHANGED inj BY <2>2 DEF RtMutexSetprio
    <3> QED BY <2>2, <3>1, RtMutexSetprioAdvancing
  <2>3. CASE \E nice \in NiceAsks : SetUserNice(p, nice)
    <3>1. UNCHANGED inj BY <2>3 DEF SetUserNice
    <3>2. NiceAsks \subseteq Nices BY AskAssumption
    <3> QED BY <2>3, <3>1, <3>2, SetUserNiceAdvancing
  <2>4. CASE \E ask \in PolicyAsks, reset \in ResetAsks : SchedSetscheduler(p, ask[1], ask[2], reset)
    <3>1. PICK ask \in PolicyAsks, reset \in ResetAsks : SchedSetscheduler(p, ask[1], ask[2], reset)
      BY <2>4
    <3>2. ask[1] \in Policies /\ ask[2] \in RtPrios /\ reset \in BOOLEAN BY AskAssumption
    <3>3. UNCHANGED inj BY <3>1 DEF SchedSetscheduler
    <3>4. /\ Steady => ask[1] \in {"normal", "batch", "fifo", "rr"}
          /\ Flat => ~is_rt_policy(ask[1])
      BY DEF Steady, Flat
    <3> QED BY <3>1, <3>2, <3>3, <3>4, SchedSetschedulerAdvancing
  <2>5. CASE \E mask \in MaskAsks : SetCpusAllowed(p, mask)
    <3>1. UNCHANGED inj BY <2>5 DEF SetCpusAllowed
    <3> QED BY <2>5, <3>1, SetCpusAllowedAdvancing
  <2> QED BY <1>2, <2>1, <2>2, <2>3, <2>4, <2>5 DEF OnTask
<1>3. /\ ~(\E rate \in RateAsks : WriteGlobalRate(rate))
      /\ ~(\E ask \in LimitAsks : SearchIdlePid(ask))
      /\ ~(\E w \in inj.writes : UpdateIdlePid(w))
  BY DEF NoInjection, Uninjected
<1>4. CASE UNCHANGED vars
  <2>1. sched' = sched /\ inj' = inj BY <1>4 DEF vars, sched
  <2> QED BY <2>1
<1> QED BY <1>1, <1>2, <1>3, <1>4 DEF Next

\* At first nothing is queued and every CPU is idle.
LEMMA InitAdvancing ==
  ASSUME NoInjection, Init
  PROVE  Unborn(sched) /\ Uninjected(inj) /\ Advancing(sched, {})
<1>1. sched.task = InitTask /\ sched.rq = rq BY DEF Init, sched
<1>2. \A c \in Cpus : sched.rq[c].curr = Idle /\ sched.rq[c].prio = PRIO_LIMIT
  BY <1>1 DEF Init
<1>3. Queued(sched) = {}
  <2>1. \A p \in Tasks : ~InQueue(<<>>, p) BY DEF InQueue
  <2>2. \A a \in QueuePrios : sched.grq.queue[a] = <<>> BY DEF Init, sched
  <2> QED BY <2>1, <2>2 DEF Queued, task_queued
<1>4. Idle \notin Tasks BY TaskAssumption
<1> HIDE DEF sched
<1>5. Unborn(sched) BY <1>1, InitAssumption DEF Unborn
<1>6. Uninjected(inj)
  <2>1. inj = [global_rate |-> 0, offset |-> 0, limits |-> <<>>, writes |-> {}, oops |-> FALSE]
    BY DEF Init, NoInjection
  <2>2. inj \in InjRec BY <2>1 DEF InjRec
  <2>3. inj.global_rate = 0 /\ inj.offset = 0 /\ inj.limits = <<>> /\ inj.writes = {} BY <2>1
  <2> QED BY <2>2, <2>3 DEF Uninjected
<1>7. \A p \in Tasks : Sound(sched.task[p]) /\ ~sched.task[p].sticky
  <2>1. Flat => Steady BY DEF Flat
  <2> QED BY <1>1, <2>1, InitAssumption DEF Sound, Steady, Flat
<1>8. Known(sched) BY <1>2 DEF Known, RunPrio
<1>9. Placid(sched) BY <1>1, <1>2, <1>4 DEF Placid, Ordered
<1> QED BY <1>3, <1>5, <1>6, <1>7, <1>8, <1>9 DEF Advancing

\* The invariant, for every behaviour without idle injection.
LEMMA AlwaysAdvancing == ASSUME NoInjection PROVE Spec => [](PInv /\ Advancing(sched, {}))
<1> DEFINE Inv == Unborn(sched) /\ Uninjected(inj) /\ Advancing(sched, {})
<1>1. Init => Inv BY InitAdvancing
<1>2. PInv /\ Inv /\ [Next]_vars => Inv'
  <2> SUFFICES ASSUME PInv, Inv, [Next]_vars PROVE Inv' OBVIOUS
  <2>1. Advancing(sched', {}) /\ Uninjected(inj') BY NextAdvancing
  <2>2. sched \in SchedState /\ Effect(sched, sched') BY PFacts, NextEffect
  <2>3. Unborn(sched') BY <2>2, EffectUnborn
  <2> QED BY <2>1, <2>3
<1>3. Inv => Advancing(sched, {}) OBVIOUS
<1> HIDE DEF Inv
<1> QED BY <1>1, <1>2, <1>3, AlwaysPInv, PTL DEF Spec

\* Whatever the policies, waiters and masks, a task never waits while all the CPUs it
\* may use are idle and none of them has been asked to reschedule, unless idle cycles
\* are injected: an injected cycle is exactly that.
THEOREM NoneStaysStranded == ASSUME NoInjection PROVE Spec => []NoneStranded
<1>1. Advancing(sched, {}) => NoneStranded
  <2> SUFFICES ASSUME Advancing(sched, {}), NEW p \in QueuedTasks,
                      \A c \in task[p].allowed : rq[c].curr = Idle
               PROVE  \E c \in task[p].allowed : rq[c].need_resched
    BY DEF NoneStranded
  <2>1. sched.task = task /\ sched.rq = rq BY DEF sched
  <2>2. p \in Queued(sched) BY DEF QueuedTasks, Queued
  <2>3. ServedBy(sched, p, {}) BY <2>2 DEF Advancing
  <2> QED BY <2>1, <2>3 DEF ServedBy, Serves
<1> QED BY <1>1, AlwaysAdvancing, PTL

\* Where priorities are kept in order (Ordered), or all tasks have the same (Flat), a
\* queued task that is better than what all its CPUs run has one of them about to
\* reschedule.  The hypotheses are those under which the code keeps the promise: with
\* waiters, changes of affinity or sync wakeups it does not.
THEOREM BestTaskStaysAdvancing ==
  ASSUME NoInjection, Ordered \/ Flat PROVE Spec => []BestTaskAdvances
<1>1. PInv /\ Advancing(sched, {}) => BestTaskAdvances
  <2> SUFFICES ASSUME PInv, Advancing(sched, {}), NEW p \in QueuedTasks,
                      \A c \in task[p].allowed :
                        IF task[p].policy = "idleprio" THEN rq[c].curr = Idle
                        ELSE task[p].prio < RunningPrio(c)
               PROVE  \E c \in task[p].allowed : rq[c].need_resched
    BY DEF BestTaskAdvances
  <2>1. sched.task = task /\ sched.rq = rq /\ sched \in SchedState BY PFacts
  <2>2. p \in Queued(sched) /\ p \in Tasks BY DEF QueuedTasks, Queued
  <2>3. ServedBy(sched, p, {}) BY <2>2 DEF Advancing
  <2>4. PICK c \in task[p].allowed : Serves(sched, c, p) BY <2>1, <2>3 DEF ServedBy
  <2>5. c \in Cpus /\ task[p].prio \in Nat /\ rq[c].curr \in Tasks \cup {Idle}
    BY <2>1, <2>2, PrioTypes
  <2>6. task[p].policy # "idleprio"
    <3>1. Steady BY DEF Ordered, Flat
    <3>2. Plain(sched.task[p]) BY <2>2, <3>1, AdvancingFacts
    <3> QED BY <2>1, <3>2 DEF Plain
  <2>7. task[p].prio < RunningPrio(c) BY <2>6
  <2>8. CASE rq[c].need_resched BY <2>8
  <2>9. CASE ~rq[c].need_resched
    <3>1. rq[c].curr # Idle /\ (Ordered => rq[c].prio <= task[p].prio)
      BY <2>1, <2>4, <2>9 DEF Serves
    <3>2. CASE Ordered
      <4>1. Known(sched) BY DEF Advancing
      <4>2. rq[c].prio = RunningPrio(c) BY <2>1, <2>5, <3>2, <4>1 DEF Known, RunPrio, RunningPrio
      <4>3. rq[c].prio \in Nat BY <2>1, <2>5, PrioTypes
      <4> QED BY <2>5, <2>7, <3>1, <3>2, <4>2, <4>3
    <3>3. CASE Flat
      <4>1. task[p].prio = NORMAL_PRIO BY <2>1, <2>2, <3>3, AdvancingFacts
      <4>2. RunningPrio(c) = NORMAL_PRIO
        BY <2>1, <2>5, <3>1, <3>3, AdvancingFacts DEF RunningPrio
      <4> QED BY <2>5, <2>7, <4>1, <4>2
    <3> QED BY <3>2, <3>3
  <2> QED BY <2>8, <2>9
<1> QED BY <1>1, AlwaysAdvancing, PTL
=============================================================================
