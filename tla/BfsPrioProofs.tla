---------------------------- MODULE BfsPrioProofs ----------------------------
(***************************************************************************)
(* What a task is entitled to: it runs only where it may run, or is on its *)
(* way out; a priority it has inherited is kept; and a real time priority  *)
(* comes from its policy or from a waiter.                                 *)
(*                                                                         *)
(* The relation Mild says what all helpers have in common: they drop no    *)
(* request to reschedule, change no affinity and no policy, and change a   *)
(* priority only if it is not real time, to one that the policy gives.     *)
(* The handlers that do more than that (fork, rt_mutex_setprio,            *)
(* sched_setscheduler, set_cpus_allowed_ptr and the switch itself) are     *)
(* looked at one by one.                                                   *)
(***************************************************************************)
EXTENDS BfsPlaceProofs

\* From a to b a task keeps what it is entitled to, and the priority it has if that
\* is real time; it gets a real time priority only from its policy.
Tame(a, b) ==
  /\ b.allowed = a.allowed /\ b.policy = a.policy /\ b.top_waiter = a.top_waiter
  /\ b.reset_on_fork = a.reset_on_fork
  /\ b.state # "none" => a.state # "none"
  /\ \/ b.prio = a.prio
     \/ ~rt_prio(a.prio) /\ (rt_prio(b.prio) => is_rt_policy(a.policy))

\* A CPU goes on with what it runs, and still knows that it is to reschedule.
Calm(a, b) == b.curr = a.curr /\ (a.need_resched => b.need_resched)

\* No task loses what it is entitled to, and no CPU but those of C what it is doing.
Mild(s, t, C) ==
  /\ t \in SchedState
  /\ \A c \in Cpus \ C : Calm(s.rq[c], t.rq[c])
  /\ \A p \in Tasks : Tame(s.task[p], t.task[p])

\* The three properties of a state.
Enforced(s) ==
  \A c \in Cpus : s.rq[c].curr \in Tasks /\ c \notin s.task[s.rq[c].curr].allowed
                   => s.rq[c].need_resched

Boosted(t) == t.state # "none" /\ rt_prio(t.top_waiter) => t.prio <= t.top_waiter

Earned(t) ==
  t.state # "none" => /\ rt_prio(t.prio) => is_rt_policy(t.policy) \/ rt_prio(t.top_waiter)
                      /\ ~t.reset_on_fork

Boosts(s) == \A p \in Tasks : Boosted(s.task[p])
Earns(s)  == \A p \in Tasks : Earned(s.task[p])

\* SCHED_RESET_ON_FORK is not asked for: with it sched_fork gives the child of a
\* real time task the priority of its parent and the policy normal.
NoReset == TRUE \notin ResetAsks

\* A step that keeps each of them.
Respects(s, t) ==
  /\ Enforced(s) => Enforced(t)
  /\ Boosts(s) => Boosts(t)
  /\ NoReset /\ Earns(s) => Earns(t)
-----------------------------------------------------------------------------
(***************************************************************************)
(* The relations.                                                          *)
(***************************************************************************)
\* Doing nothing is mild.
LEMMA MildRefl == ASSUME NEW s \in SchedState, NEW C PROVE Mild(s, s, C)
BY DEF Mild, Calm, Tame

\* What keeps a task's entitlements in two steps keeps them in both together.
LEMMA TameChain ==
  ASSUME NEW a, NEW b, NEW c, Tame(a, b), Tame(b, c) PROVE Tame(a, c)
BY DEF Tame

\* So do mild steps: helpers that call helpers.
LEMMA MildChain ==
  ASSUME NEW s, NEW t, NEW u, NEW C, Mild(s, t, C), t \in SchedState => Mild(t, u, C)
  PROVE  Mild(s, u, C)
<1>1. Mild(t, u, C) BY DEF Mild
<1>2. \A p \in Tasks : Tame(s.task[p], u.task[p])
  <2> SUFFICES ASSUME NEW p \in Tasks PROVE Tame(s.task[p], u.task[p]) OBVIOUS
  <2>1. Tame(s.task[p], t.task[p]) /\ Tame(t.task[p], u.task[p]) BY <1>1 DEF Mild
  <2> QED BY <2>1, TameChain
<1>3. \A c \in Cpus \ C : Calm(s.rq[c], u.rq[c]) BY <1>1 DEF Mild, Calm
<1> QED BY <1>1, <1>2, <1>3 DEF Mild

\* A step that is mild for all CPUs is mild for some.
LEMMA MildWeaker == ASSUME NEW s, NEW t, NEW C, Mild(s, t, {}) PROVE Mild(s, t, C)
BY DEF Mild

\* A tame change keeps an inherited priority, and earned ones.
LEMMA TameKeeps ==
  ASSUME NEW a \in TaskRec, NEW b, Tame(a, b)
  PROVE  (Boosted(a) => Boosted(b)) /\ (Earned(a) => Earned(b))
<1>1. a.prio \in Nat /\ a.top_waiter \in Nat
  <2>1. a.prio \in QueuePrios /\ a.top_waiter \in 0 .. PRIO_LIMIT BY TaskFields
  <2> QED BY <2>1 DEF QueuePrios
<1>2. MAX_RT_PRIO \in Nat BY PrioAssumption
<1>3. Boosted(a) => Boosted(b) BY <1>1, <1>2 DEF Tame, Boosted, rt_prio
<1>4. Earned(a) => Earned(b) BY DEF Tame, Earned
<1> QED BY <1>3, <1>4

\* A mild step keeps priorities, whichever CPUs it is about.
LEMMA MildPrios ==
  ASSUME NEW s \in SchedState, NEW t, NEW C, Mild(s, t, C)
  PROVE  (Boosts(s) => Boosts(t)) /\ (Earns(s) => Earns(t))
<1>1. \A p \in Tasks : s.task[p] \in TaskRec /\ Tame(s.task[p], t.task[p])
  BY StateParts DEF Mild
<1> QED BY <1>1, TameKeeps DEF Boosts, Earns

\* A mild step that leaves no CPU out keeps the three properties.
LEMMA MildRespects ==
  ASSUME NEW s \in SchedState, NEW t, Mild(s, t, {}) PROVE Respects(s, t)
<1>1. Enforced(s) => Enforced(t) BY DEF Mild, Calm, Tame, Enforced
<1>2. (Boosts(s) => Boosts(t)) /\ (Earns(s) => Earns(t)) BY MildPrios
<1> QED BY <1>1, <1>2 DEF Respects

\* A handler keeps them if each of its parts does.
LEMMA RespectsChain ==
  ASSUME NEW s, NEW t, NEW u, Respects(s, t), Respects(t, u) PROVE Respects(s, u)
BY DEF Respects
-----------------------------------------------------------------------------
(***************************************************************************)
(* Assignments.                                                            *)
(***************************************************************************)
\* Writing the record of one task, and no rq.
LEMMA OneTask ==
  ASSUME NEW s \in SchedState, NEW t \in SchedState, NEW C, NEW p \in Tasks, NEW r,
         t.rq = s.rq, t.task = [s.task EXCEPT ![p] = r], Tame(s.task[p], r)
  PROVE  Mild(s, t, C)
<1>1. s.task \in [Tasks -> TaskRec] BY StateParts
<1>2. \A q \in Tasks : t.task[q] = IF q = p THEN r ELSE s.task[q] BY <1>1
<1>3. \A q \in Tasks : Tame(s.task[q], t.task[q]) BY <1>2 DEF Tame
<1> QED BY <1>3 DEF Mild, Calm

\* Writing neither.
LEMMA NoTaskWritten ==
  ASSUME NEW s, NEW t \in SchedState, NEW C, t.rq = s.rq, t.task = s.task
  PROVE  Mild(s, t, C)
BY DEF Mild, Calm, Tame

\* Writing one rq, and no task.
LEMMA OneRq ==
  ASSUME NEW s \in SchedState, NEW t \in SchedState, NEW C, NEW c \in Cpus, NEW r,
         t.task = s.task, t.rq = [s.rq EXCEPT ![c] = r], c \notin C => Calm(s.rq[c], r)
  PROVE  Mild(s, t, C)
<1>1. s.rq \in [Cpus -> RqRec] BY StateParts
<1>2. \A d \in Cpus : t.rq[d] = IF d = c THEN r ELSE s.rq[d] BY <1>1
<1>3. \A d \in Cpus \ C : Calm(s.rq[d], t.rq[d]) BY <1>2 DEF Calm
<1> QED BY <1>3 DEF Mild, Tame

\* The fields of a task that any code may write, and its prio where it is not real time.
LEMMA TaskMild ==
  ASSUME NEW s \in SchedState, NEW p \in Tasks, NEW C
  PROVE  /\ \A v \in TaskStates :
              s.task[p].state # "none" \/ v = "none" => Mild(s, [s EXCEPT !.task[p].state = v], C)
         /\ \A v \in Nices : Mild(s, [s EXCEPT !.task[p].nice = v], C)
         /\ \A v \in Nat : Mild(s, [s EXCEPT !.task[p].deadline = v], C)
         /\ \A v \in 0 .. SLICE : Mild(s, [s EXCEPT !.task[p].time_slice = v], C)
         /\ \A v \in BOOLEAN : Mild(s, [s EXCEPT !.task[p].sticky = v], C)
         /\ \A v \in Cpus : Mild(s, [s EXCEPT !.task[p].cpu = v], C)
         /\ \A v \in BOOLEAN : Mild(s, [s EXCEPT !.task[p].on_cpu = v], C)
         /\ \A v \in Tasks \cup {NoTask} : Mild(s, [s EXCEPT !.task[p].parent = v], C)
         /\ \A v \in QueuePrios :
              ~rt_prio(s.task[p].prio) /\ (rt_prio(v) => is_rt_policy(s.task[p].policy))
                => Mild(s, [s EXCEPT !.task[p].prio = v], C)
<1>1. s.task[p] \in TaskRec BY StateParts
<1>2. ASSUME NEW r \in TaskRec, Tame(s.task[p], r) PROVE Mild(s, [s EXCEPT !.task[p] = r], C)
  <2> DEFINE t == [s EXCEPT !.task[p] = r]
  <2>1. t \in SchedState BY TaskStep DEF Step
  <2>2. t.rq = s.rq /\ t.task = [s.task EXCEPT ![p] = r] BY DEF SchedState
  <2> HIDE DEF t
  <2>3. Mild(s, t, C) BY <1>2, <2>1, <2>2, OneTask
  <2> QED BY <2>3 DEF t
<1>3. /\ \A v : s.task[p].state # "none" \/ v = "none"
                  => Tame(s.task[p], [s.task[p] EXCEPT !.state = v])
      /\ \A v : Tame(s.task[p], [s.task[p] EXCEPT !.nice = v])
      /\ \A v : Tame(s.task[p], [s.task[p] EXCEPT !.deadline = v])
      /\ \A v : Tame(s.task[p], [s.task[p] EXCEPT !.time_slice = v])
      /\ \A v : Tame(s.task[p], [s.task[p] EXCEPT !.sticky = v])
      /\ \A v : Tame(s.task[p], [s.task[p] EXCEPT !.cpu = v])
      /\ \A v : Tame(s.task[p], [s.task[p] EXCEPT !.on_cpu = v])
      /\ \A v : Tame(s.task[p], [s.task[p] EXCEPT !.parent = v])
      /\ \A v : ~rt_prio(s.task[p].prio) /\ (rt_prio(v) => is_rt_policy(s.task[p].policy))
                  => Tame(s.task[p], [s.task[p] EXCEPT !.prio = v])
  BY <1>1 DEF TaskRec, Tame
<1> QED BY <1>1, <1>2, <1>3, TaskWrite, ZenonT(60)

\* The fields of an rq; need_resched is cleared only on a CPU that is left out.
LEMMA RqMild ==
  ASSUME NEW s \in SchedState, NEW c \in Cpus, NEW C
  PROVE  /\ \A v \in BOOLEAN : v \/ c \in C => Mild(s, [s EXCEPT !.rq[c].need_resched = v], C)
         /\ \A v \in 0 .. PRIO_LIMIT : Mild(s, [s EXCEPT !.rq[c].prio = v], C)
         /\ \A v \in Policies : Mild(s, [s EXCEPT !.rq[c].policy = v], C)
         /\ \A v \in Nat : Mild(s, [s EXCEPT !.rq[c].deadline = v], C)
         /\ \A v \in 0 .. SLICE : Mild(s, [s EXCEPT !.rq[c].time_slice = v], C)
         /\ \A v \in Tasks \cup {NoTask} : Mild(s, [s EXCEPT !.rq[c].sticky_task = v], C)
         /\ \A v \in BOOLEAN : Mild(s, [s EXCEPT !.rq[c].scaling = v], C)
         /\ \A v \in Tasks \cup {Idle} : c \in C => Mild(s, [s EXCEPT !.rq[c].curr = v], C)
<1>1. s.rq[c] \in RqRec BY StateParts
<1>2. ASSUME NEW r \in RqRec, c \in C \/ Calm(s.rq[c], r) PROVE Mild(s, [s EXCEPT !.rq[c] = r], C)
  <2> DEFINE t == [s EXCEPT !.rq[c] = r]
  <2>1. t \in SchedState BY DEF SchedState
  <2>2. t.task = s.task /\ t.rq = [s.rq EXCEPT ![c] = r] BY DEF SchedState
  <2> HIDE DEF t
  <2>3. Mild(s, t, C) BY <1>2, <2>1, <2>2, OneRq
  <2> QED BY <2>3 DEF t
<1>3. /\ Calm(s.rq[c], [s.rq[c] EXCEPT !.need_resched = TRUE])
      /\ \A v : Calm(s.rq[c], [s.rq[c] EXCEPT !.prio = v])
      /\ \A v : Calm(s.rq[c], [s.rq[c] EXCEPT !.policy = v])
      /\ \A v : Calm(s.rq[c], [s.rq[c] EXCEPT !.deadline = v])
      /\ \A v : Calm(s.rq[c], [s.rq[c] EXCEPT !.time_slice = v])
      /\ \A v : Calm(s.rq[c], [s.rq[c] EXCEPT !.sticky_task = v])
      /\ \A v : Calm(s.rq[c], [s.rq[c] EXCEPT !.scaling = v])
  BY <1>1 DEF RqRec, Calm
<1>4. \A v \in BOOLEAN : v \/ c \in C => Mild(s, [s EXCEPT !.rq[c].need_resched = v], C)
  <2> SUFFICES ASSUME NEW v \in BOOLEAN, v \/ c \in C
               PROVE  Mild(s, [s EXCEPT !.rq[c].need_resched = v], C)
    OBVIOUS
  <2>1. [s.rq[c] EXCEPT !.need_resched = v] \in RqRec BY <1>1, RqWrite
  <2>2. c \in C \/ Calm(s.rq[c], [s.rq[c] EXCEPT !.need_resched = v]) BY <1>3
  <2> QED BY <1>2, <2>1, <2>2
<1>5. \A v \in Tasks \cup {Idle} : c \in C => Mild(s, [s EXCEPT !.rq[c].curr = v], C)
  BY <1>1, <1>2, RqWrite
<1> QED BY <1>1, <1>2, <1>3, <1>4, <1>5, RqWrite, ZenonT(60)
-----------------------------------------------------------------------------
(***************************************************************************)
(* The helpers.                                                            *)
(***************************************************************************)
\* What a policy gives is a real time priority only if the policy is real time.
LEMMA NormalIsEarned ==
  ASSUME NEW policy \in Policies, NEW rt_priority \in RtPrios
  PROVE  rt_prio(normal_prio(policy, rt_priority)) <=> is_rt_policy(policy)
BY PrioAssumption DEF normal_prio, is_rt_policy, rt_prio, RtPrios, IDLE_PRIO, ISO_PRIO, NORMAL_PRIO

\* effective_prio and the priority a task is queued with leave a real time
\* priority alone, and give one only to a task of a real time policy.
LEMMA EffectiveTame ==
  ASSUME NEW a \in TaskRec
  PROVE  Tame(a, [a EXCEPT !.prio = effective_prio(a)])
<1> DEFINE v == effective_prio(a)
<1>1. a.policy \in Policies /\ a.rt_priority \in RtPrios BY TaskFields
<1>2. v = a.prio \/ (~rt_prio(a.prio) /\ (rt_prio(v) => is_rt_policy(a.policy)))
  BY <1>1, NormalIsEarned DEF effective_prio
<1> HIDE DEF v
<1> QED BY <1>2 DEF Tame, TaskRec, v

\* Giving a task its effective priority.
LEMMA EffectiveMild ==
  ASSUME NEW s \in SchedState, NEW p \in Tasks, NEW C
  PROVE  Mild(s, [s EXCEPT !.task[p].prio = effective_prio(s.task[p])], C)
<1> DEFINE r == [s.task[p] EXCEPT !.prio = effective_prio(s.task[p])]
           t == [s EXCEPT !.task[p] = r]
<1>1. s.task[p] \in TaskRec BY StateParts
<1>2. r \in TaskRec BY <1>1, EffectivePrio, TaskWrite
<1>3. Tame(s.task[p], r) BY <1>1, EffectiveTame
<1>4. [s EXCEPT !.task[p].prio = effective_prio(s.task[p])] = t OBVIOUS
<1> HIDE DEF r
<1>5. t \in SchedState BY <1>2, TaskStep DEF Step
<1>6. t.rq = s.rq /\ t.task = [s.task EXCEPT ![p] = r] BY DEF SchedState
<1> HIDE DEF t
<1> QED BY <1>3, <1>4, <1>5, <1>6, OneTask

\* Setting or clearing iso_refractory.
LEMMA RefractoryMild ==
  ASSUME NEW s \in SchedState, NEW v \in BOOLEAN, NEW C
  PROVE  Mild(s, [s EXCEPT !.grq.iso_refractory = v], C)
<1> DEFINE t == [s EXCEPT !.grq.iso_refractory = v]
<1>1. t \in SchedState BY GrqAssign DEF Step
<1>2. t.rq = s.rq /\ t.task = s.task BY DEF SchedState
<1> HIDE DEF t
<1> QED BY <1>1, <1>2, NoTaskWritten DEF t

\* enqueue_task keeps a real time priority, and recomputes another from the policy.
LEMMA EnqueueTame ==
  ASSUME NEW s \in SchedState, NEW p \in Tasks, NEW fit
  PROVE  Tame(s.task[p], [s.task[p] EXCEPT !.prio = EnqueuePrio(s, p, fit)])
<1> DEFINE a == s.task[p]
           v == EnqueuePrio(s, p, fit)
<1>1. a \in TaskRec BY StateParts
<1>2. a.policy \in Policies /\ a.rt_priority \in RtPrios BY <1>1, TaskFields
<1>3. ~rt_prio(NORMAL_PRIO) BY PrioAssumption DEF rt_prio, NORMAL_PRIO
<1>4. rt_prio(normal_prio(a.policy, a.rt_priority)) <=> is_rt_policy(a.policy)
  BY <1>2, NormalIsEarned
<1>5. v = a.prio \/ (~rt_prio(a.prio) /\ (rt_prio(v) => is_rt_policy(a.policy)))
  <2>1. CASE rt_prio(a.prio) BY <2>1 DEF EnqueuePrio
  <2>2. CASE ~rt_prio(a.prio)
    <3>1. v \in {NORMAL_PRIO, normal_prio(a.policy, a.rt_priority)} BY <2>2 DEF EnqueuePrio
    <3> HIDE DEF v
    <3> QED BY <1>3, <1>4, <2>2, <3>1
  <2> QED BY <2>1, <2>2
<1> HIDE DEF v, a
<1>6. Tame(a, [a EXCEPT !.prio = v]) BY <1>1, <1>5 DEF Tame, TaskRec
<1> QED BY <1>6 DEF v, a

\* dequeue_task writes neither a task nor an rq.
LEMMA DequeueMild ==
  ASSUME NEW s \in SchedState, NEW p \in Tasks, NEW C PROVE Mild(s, dequeue_task(s, p), C)
<1> DEFINE t == dequeue_task(s, p)
<1>1. t \in SchedState BY DequeueStep DEF Step
<1>2. t.rq = s.rq /\ t.task = s.task BY DEF dequeue_task, SchedState
<1> HIDE DEF t
<1> QED BY <1>1, <1>2, NoTaskWritten DEF t

\* enqueue_task writes the priority of the task.
LEMMA EnqueueMild ==
  ASSUME NEW s \in SchedState, NEW p \in Tasks, NEW fit, NEW C
  PROVE  Mild(s, enqueue_task(s, p, fit), C)
<1> DEFINE t == enqueue_task(s, p, fit)
           r == [s.task[p] EXCEPT !.prio = EnqueuePrio(s, p, fit)]
<1>1. t \in SchedState BY EnqueueStep DEF Step
<1>2. t.rq = s.rq /\ t.task = [s.task EXCEPT ![p] = r] BY DEF enqueue_task, SchedState
<1>3. Tame(s.task[p], r) BY EnqueueTame
<1> HIDE DEF t, r
<1> QED BY <1>1, <1>2, <1>3, OneTask DEF t

\* inc_qnr and dec_qnr write grq alone.
LEMMA QnrMild ==
  ASSUME NEW s \in SchedState, NEW C PROVE Mild(s, inc_qnr(s), C) /\ Mild(s, dec_qnr(s), C)
<1>1. inc_qnr(s) \in SchedState /\ dec_qnr(s) \in SchedState BY QnrStep DEF Step
<1>2. /\ inc_qnr(s).rq = s.rq /\ inc_qnr(s).task = s.task
      /\ dec_qnr(s).rq = s.rq /\ dec_qnr(s).task = s.task
  BY QnrEffect
<1> QED BY <1>1, <1>2, NoTaskWritten

\* clear_sticky writes the flag of the task.
LEMMA ClearStickyMild ==
  ASSUME NEW s \in SchedState, NEW p \in Tasks, NEW C PROVE Mild(s, clear_sticky(s, p), C)
BY TaskMild DEF clear_sticky

\* activate_task recomputes the priority twice, before and while it queues the task.
LEMMA ActivateMild ==
  ASSUME NEW s \in SchedState, NEW p \in Tasks, NEW fit, NEW C
  PROVE  Mild(s, activate_task(s, p, fit), C)
<1> DEFINE r == [s.task[p] EXCEPT !.prio = effective_prio(s.task[p])]
           a == [s EXCEPT !.task[p] = r]
           n == IF s.task[p].state = "uninterruptible" THEN a.grq.nr_uninterruptible - 1
                ELSE a.grq.nr_uninterruptible
           b == [a EXCEPT !.grq.nr_uninterruptible = n]
           c == enqueue_task(b, p, fit)
           d == inc_qnr(c)
           t == activate_task(s, p, fit)
<1>1. t = [d EXCEPT !.grq.nr_running = @ + 1] BY DEF activate_task
<1>2. s.task[p] \in TaskRec BY StateParts
<1>3. r \in TaskRec BY <1>2, EffectivePrio, TaskWrite
<1>4. Tame(s.task[p], r) BY <1>2, EffectiveTame
<1> HIDE DEF r
<1>5. a \in SchedState BY <1>3, TaskStep DEF Step
<1>6. a.rq = s.rq /\ a.task = [s.task EXCEPT ![p] = r] BY DEF SchedState
<1> HIDE DEF a
<1>7. Mild(s, a, C) BY <1>4, <1>5, <1>6, OneTask
<1>8. n \in Int BY <1>5, CountsType
<1> HIDE DEF n
<1>9. b \in SchedState BY <1>5, <1>8, GrqAssign DEF Step
<1>10. b.rq = a.rq /\ b.task = a.task BY <1>5 DEF SchedState
<1> HIDE DEF b
<1>11. Mild(a, b, C) BY <1>9, <1>10, NoTaskWritten
<1>12. Mild(s, b, C) BY <1>7, <1>11, MildChain
<1>13. Mild(s, c, C) BY <1>12, EnqueueMild, MildChain
<1> HIDE DEF c
<1>14. Mild(s, d, C) BY <1>13, QnrMild, MildChain
<1>15. d \in SchedState BY <1>14 DEF Mild
<1> HIDE DEF d
<1>16. t \in SchedState BY ActivateStep DEF Step
<1>17. t.rq = d.rq /\ t.task = d.task BY <1>1, <1>15 DEF SchedState
<1> HIDE DEF t
<1>18. Mild(d, t, C) BY <1>16, <1>17, NoTaskWritten
<1> QED BY <1>14, <1>18, MildChain DEF t

\* activate_task leaves the state of the task to its caller.
LEMMA ActivateKeepsState ==
  ASSUME NEW s \in SchedState, NEW p \in Tasks, NEW fit
  PROVE  activate_task(s, p, fit).task[p].state = s.task[p].state
<1> DEFINE v == effective_prio(s.task[p])
           n == IF s.task[p].state = "uninterruptible" THEN s.grq.nr_uninterruptible - 1
                ELSE s.grq.nr_uninterruptible
           a == [s EXCEPT !.task[p].prio = v, !.grq.nr_uninterruptible = n]
           b == enqueue_task(a, p, fit)
<1>1. activate_task(s, p, fit) = [inc_qnr(b) EXCEPT !.grq.nr_running = @ + 1]
  BY DEF activate_task
<1> HIDE DEF v, n
<1>2. DOMAIN a = {"grq", "rq", "task"} BY DEF SchedState
<1>3. a.task[p].state = s.task[p].state /\ DOMAIN a.task = Tasks
  BY StateParts DEF SchedState, TaskRec
<1> HIDE DEF a
<1> DEFINE w == EnqueuePrio(a, p, fit)
<1>4. b.task = [a.task EXCEPT ![p].prio = w]
  BY <1>2 DEF enqueue_task
<1> HIDE DEF w
<1>5. b.task[p].state = a.task[p].state BY <1>3, <1>4
<1>6. activate_task(s, p, fit).task = b.task
  BY <1>1 DEF inc_qnr, enqueue_task
<1> QED BY <1>3, <1>5, <1>6

\* deactivate_task clears the sticky flag.
LEMMA DeactivateMild ==
  ASSUME NEW s \in SchedState, NEW p \in Tasks, NEW C PROVE Mild(s, deactivate_task(s, p), C)
<1> DEFINE t == deactivate_task(s, p)
           r == [s.task[p] EXCEPT !.sticky = FALSE]
<1>1. t \in SchedState BY DeactivateStep DEF Step
<1>2. t.rq = s.rq /\ t.task = [s.task EXCEPT ![p] = r] BY DEF deactivate_task, SchedState
<1>3. Tame(s.task[p], r) BY StateParts DEF Tame, TaskRec
<1> HIDE DEF t, r
<1> QED BY <1>1, <1>2, <1>3, OneTask DEF t

\* return_task does one or the other.
LEMMA ReturnMild ==
  ASSUME NEW s \in SchedState, NEW p \in Tasks, NEW deactivate \in BOOLEAN, NEW fit, NEW C
  PROVE  Mild(s, return_task(s, p, deactivate, fit), C)
<1>1. CASE deactivate BY <1>1, DeactivateMild DEF return_task
<1>2. CASE ~deactivate
  <2>1. Mild(s, inc_qnr(s), C) BY QnrMild
  <2> QED BY <1>2, <2>1, MildChain, EnqueueMild DEF return_task
<1> QED BY <1>1, <1>2

\* take_task moves the task to the CPU and takes it off its list.
LEMMA TakeMild ==
  ASSUME NEW s \in SchedState, NEW cpu \in Cpus, NEW p \in Tasks, NEW C
  PROVE  Mild(s, take_task(s, cpu, p), C)
<1> DEFINE t == [s EXCEPT !.task[p].cpu = cpu]
           u == dequeue_task(t, p)
           v == clear_sticky(u, p)
<1>1. take_task(s, cpu, p) = dec_qnr(v) BY DEF take_task
<1>2. Mild(s, t, C) BY TaskMild
<1> HIDE DEF t
<1>3. Mild(s, u, C) BY <1>2, MildChain, DequeueMild
<1> HIDE DEF u
<1>4. Mild(s, v, C) BY <1>3, MildChain, ClearStickyMild
<1> HIDE DEF v
<1> QED BY <1>1, <1>4, MildChain, QnrMild

\* time_slice_expired writes the slice and the deadline.
LEMMA ExpiredMild ==
  ASSUME NEW s \in SchedState, NEW p \in Tasks, NEW C PROVE Mild(s, time_slice_expired(s, p), C)
<1> DEFINE t == time_slice_expired(s, p)
           v == s.grq.niffies + DeadlineDiff[s.task[p].nice]
           r == [s.task[p] EXCEPT !.time_slice = SLICE, !.deadline = v]
<1>1. t \in SchedState BY ExpiredStep DEF Step
<1>2. t.rq = s.rq /\ t.task = [s.task EXCEPT ![p] = r]
  <2>1. s.task \in [Tasks -> TaskRec] BY StateParts
  <2> HIDE DEF v
  <2>2. t = [s EXCEPT !.task[p].time_slice = SLICE, !.task[p].deadline = v]
    BY DEF time_slice_expired, v
  <2> HIDE DEF t
  <2> QED BY <2>1, <2>2 DEF SchedState
<1>3. Tame(s.task[p], r) BY StateParts DEF Tame, TaskRec
<1> HIDE DEF t, r
<1> QED BY <1>1, <1>2, <1>3, OneTask DEF t

\* check_deadline does the same or nothing.
LEMMA CheckDeadlineMild ==
  ASSUME NEW s \in SchedState, NEW p \in Tasks, NEW C PROVE Mild(s, check_deadline(s, p), C)
BY ExpiredMild, MildRefl DEF check_deadline

\* Asking a CPU to reschedule is mild, whichever of the helpers settles on it.
LEMMA ReschedMild ==
  ASSUME NEW s \in SchedState, NEW cpu \in Cpus, NEW C PROVE Mild(s, resched_cpu(s, cpu), C)
BY RqMild DEF resched_cpu

\* resched_best_mask with a mask that is not empty.
LEMMA BestMaskMild ==
  ASSUME NEW s \in SchedState, NEW best, NEW from, NEW mask, mask \subseteq Cpus, mask # {}, NEW C
  PROVE  Mild(s, resched_best_mask(s, best, from, mask), C)
<1>1. BestOfMask(s, best, from, mask) \in Cpus BY BestOfMaskType
<1> QED BY <1>1, ReschedMild DEF resched_best_mask

\* resched_best_idle after suitable_idle_cpus said yes.
LEMMA BestIdleMild ==
  ASSUME NEW s \in SchedState, NEW p \in Tasks, suitable_idle_cpus(s, p), NEW C
  PROVE  Mild(s, resched_best_idle(s, p), C)
<1>1. s.task[p].allowed \cap s.grq.cpu_idle_map \subseteq Cpus BY StateParts, TaskFields
<1>2. s.task[p].allowed \cap s.grq.cpu_idle_map # {} BY DEF suitable_idle_cpus
<1> QED BY <1>1, <1>2, BestMaskMild DEF resched_best_idle

\* resched_suitable_idle.
LEMMA SuitableIdleMild ==
  ASSUME NEW s \in SchedState, NEW p \in Tasks, NEW C PROVE Mild(s, resched_suitable_idle(s, p), C)
<1>1. CASE suitable_idle_cpus(s, p) BY <1>1, BestIdleMild DEF resched_suitable_idle
<1>2. CASE ~suitable_idle_cpus(s, p) BY <1>2, MildRefl DEF resched_suitable_idle
<1> QED BY <1>1, <1>2

\* resched_closest_idle.
LEMMA ClosestIdleMild ==
  ASSUME NEW s \in SchedState, NEW cpu, NEW p \in Tasks, NEW C
  PROVE  Mild(s, resched_closest_idle(s, cpu, p), C)
<1> DEFINE mask == (s.task[p].allowed \cap s.grq.cpu_idle_map) \ {cpu}
<1>1. mask \subseteq Cpus BY StateParts, TaskFields
<1> HIDE DEF mask
<1>2. CASE mask = {} BY <1>2, MildRefl DEF resched_closest_idle, mask
<1>3. CASE mask # {} BY <1>1, <1>3, BestMaskMild DEF resched_closest_idle, mask
<1> QED BY <1>2, <1>3

\* swap_sticky moves the sticky flag from one task to another.
LEMMA SwapStickyMild ==
  ASSUME NEW s \in SchedState, NEW cpu \in Cpus, NEW p \in Tasks, NEW C
  PROVE  Mild(s, swap_sticky(s, cpu, p), C)
<1> DEFINE last == s.rq[cpu].sticky_task
           s1   == IF last \in Tasks \ {p} /\ s.task[last].sticky
                   THEN resched_closest_idle(clear_sticky(s, last), cpu, last)
                   ELSE s
           t    == [s1 EXCEPT !.task[p].sticky = TRUE]
           u    == resched_closest_idle(s1, cpu, p)
<1>1. Mild(s, s1, C)
  <2>1. CASE last \in Tasks \ {p} /\ s.task[last].sticky
    <3>1. Mild(s, clear_sticky(s, last), C) BY <2>1, ClearStickyMild
    <3> QED BY <2>1, <3>1, ClosestIdleMild, MildChain
  <2>2. CASE ~(last \in Tasks \ {p} /\ s.task[last].sticky) BY <2>2, MildRefl
  <2> QED BY <2>1, <2>2
<1>2. swap_sticky(s, cpu, p) =
        CASE last = p -> [s EXCEPT !.task[p].sticky = TRUE]
          [] last # p /\ ~rt_prio(s.task[p].prio) -> [t EXCEPT !.rq[cpu].sticky_task = p]
          [] OTHER -> [u EXCEPT !.rq[cpu].sticky_task = NoTask]
  BY DEF swap_sticky
<1> HIDE DEF s1, last
<1>3. Mild(s, [s EXCEPT !.task[p].sticky = TRUE], C) BY TaskMild
<1>4. Mild(s, t, C)
  <2>1. s1 \in SchedState => Mild(s1, t, C) BY TaskMild
  <2> QED BY <1>1, <2>1, MildChain
<1>5. Mild(s, u, C) BY <1>1, ClosestIdleMild, MildChain
<1> HIDE DEF t, u
<1>6. Mild(s, [t EXCEPT !.rq[cpu].sticky_task = p], C)
  <2>1. t \in SchedState => Mild(t, [t EXCEPT !.rq[cpu].sticky_task = p], C) BY RqMild
  <2> QED BY <1>4, <2>1, MildChain
<1>7. Mild(s, [u EXCEPT !.rq[cpu].sticky_task = NoTask], C)
  <2>1. u \in SchedState => Mild(u, [u EXCEPT !.rq[cpu].sticky_task = NoTask], C) BY RqMild
  <2> QED BY <1>5, <2>1, MildChain
<1> QED BY <1>2, <1>3, <1>6, <1>7

\* try_preempt.
LEMMA TryPreemptMild ==
  ASSUME NEW s \in SchedState, NEW p \in Tasks, NEW this_cpu \in Cpus, NEW C
  PROVE  Mild(s, try_preempt(s, p, this_cpu), C)
<1> DEFINE s1 == clear_sticky(s, p)
           target == PreemptTarget(s1, p, this_cpu)
<1>1. Mild(s, s1, C) BY ClearStickyMild
<1>2. s1 \in SchedState BY <1>1 DEF Mild
<1> HIDE DEF s1
<1>3. target.cpu \in Cpus BY <1>2, PreemptTargetType
<1> HIDE DEF target
<1>4. suitable_idle_cpus(s1, p) => Mild(s, resched_best_idle(s1, p), C)
  BY <1>1, <1>2, BestIdleMild, MildChain
<1>5. Mild(s, resched_cpu(s1, target.cpu), C) BY <1>1, <1>3, ReschedMild, MildChain
<1> QED BY <1>1, <1>4, <1>5 DEF try_preempt, s1, target

\* update_clocks.
LEMMA ClocksMild ==
  ASSUME NEW s \in SchedState, NEW d \in Nat, NEW C PROVE Mild(s, update_clocks(s, d), C)
<1> DEFINE t == update_clocks(s, d)
<1>1. t \in SchedState BY ClocksStep DEF Step
<1>2. t.rq = s.rq /\ t.task = s.task BY DEF update_clocks, SchedState
<1> HIDE DEF t
<1> QED BY <1>1, <1>2, NoTaskWritten DEF t

\* update_cpu_clock.
LEMMA CpuClockMild ==
  ASSUME NEW s \in SchedState, NEW cpu \in Cpus, NEW e \in 0 .. 1, NEW C
  PROVE  Mild(s, update_cpu_clock(s, cpu, e), C)
<1> DEFINE v == IF s.rq[cpu].time_slice >= e THEN s.rq[cpu].time_slice - e ELSE 0
<1>1. s.rq[cpu].time_slice \in 0 .. SLICE BY StateParts, RqFields
<1>2. v \in 0 .. SLICE BY <1>1, SliceAssumption
<1> HIDE DEF v
<1>3. Mild(s, [s EXCEPT !.rq[cpu].time_slice = v], C) BY <1>2, RqMild
<1> QED BY <1>3, MildRefl DEF update_cpu_clock, v

\* A helper that writes no task and keeps, on every CPU, what runs there and whether
\* it is to reschedule.
LEMMA SameTasks ==
  ASSUME NEW s, NEW t \in SchedState, NEW C, t.task = s.task,
         \A c \in Cpus : t.rq[c].curr = s.rq[c].curr /\ t.rq[c].need_resched = s.rq[c].need_resched
  PROVE  Mild(s, t, C)
BY DEF Mild, Calm, Tame

\* set_rq_task and reset_rq_task copy from the task to the rq.
LEMMA RqTaskMild ==
  ASSUME NEW s \in SchedState, NEW cpu \in Cpus, NEW p \in Tasks \cup {Idle}, NEW C
  PROVE  /\ Mild(s, set_rq_task(s, cpu, p), C)
         /\ p \in Tasks => Mild(s, reset_rq_task(s, cpu, p), C)
<1>1. Mild(s, set_rq_task(s, cpu, p), C)
  <2> DEFINE t == set_rq_task(s, cpu, p)
  <2>1. t \in SchedState BY SetRqTaskStep DEF Step
  <2>2. PICK a, b, c, d :
          t = [s EXCEPT !.rq[cpu].time_slice = a, !.rq[cpu].deadline = b,
                        !.rq[cpu].policy = c, !.rq[cpu].prio = d]
    BY Zenon DEF set_rq_task
  <2> HIDE DEF t
  <2>3. /\ t.task = s.task
        /\ \A k \in Cpus : t.rq[k].curr = s.rq[k].curr /\ t.rq[k].need_resched = s.rq[k].need_resched
    BY <2>2 DEF SchedState, RqRec
  <2> QED BY <2>1, <2>3, SameTasks DEF t
<1>2. ASSUME p \in Tasks PROVE Mild(s, reset_rq_task(s, cpu, p), C)
  <2> DEFINE t == reset_rq_task(s, cpu, p)
  <2>1. t \in SchedState BY <1>2, ResetRqTaskStep DEF Step
  <2>2. /\ t.task = s.task
        /\ \A k \in Cpus : t.rq[k].curr = s.rq[k].curr /\ t.rq[k].need_resched = s.rq[k].need_resched
    BY DEF reset_rq_task, SchedState, RqRec
  <2> HIDE DEF t
  <2> QED BY <2>1, <2>2, SameTasks DEF t
<1> QED BY <1>1, <1>2

\* What schedule() stores back is mild but for its own CPU: the request is dropped.
LEMMA StoreBackMild ==
  ASSUME NEW s \in SchedState, NEW cpu \in Cpus, NEW prev \in Tasks
  PROVE  Mild(s, StoreBack(s, cpu, prev), {cpu})
<1> DEFINE slice == s.rq[cpu].time_slice
           dl    == s.rq[cpu].deadline
           a == [s EXCEPT !.task[prev].time_slice = slice]
           b == [a EXCEPT !.task[prev].deadline = dl]
           c == [b EXCEPT !.rq[cpu].need_resched = FALSE]
<1>1. StoreBack(s, cpu, prev) = check_deadline(c, prev) BY DEF StoreBack
<1>2. slice \in 0 .. SLICE /\ dl \in Nat BY StateParts, RqFields
<1> HIDE DEF slice, dl
<1>3. Mild(s, a, {cpu}) BY <1>2, TaskMild
<1> HIDE DEF a
<1>4. Mild(s, b, {cpu})
  <2>1. a \in SchedState => Mild(a, b, {cpu}) BY <1>2, TaskMild
  <2> QED BY <1>3, <2>1, MildChain
<1> HIDE DEF b
<1>5. Mild(s, c, {cpu})
  <2>1. b \in SchedState => Mild(b, c, {cpu}) BY RqMild
  <2> QED BY <1>4, <2>1, MildChain
<1> HIDE DEF c
<1> QED BY <1>1, <1>5, CheckDeadlineMild, MildChain

\* Giving prev back to the queue, or putting it to sleep.
LEMMA GiveBackMild ==
  ASSUME NEW s \in SchedState, NEW cpu \in Cpus, NEW prev \in Tasks,
         NEW deactivate \in BOOLEAN, NEW fit, NEW C
  PROVE  Mild(s, GiveBack(s, cpu, prev, deactivate, fit), C)
<1> DEFINE s1 == CASE needs_other_cpu(s, prev, cpu) -> resched_suitable_idle(s, prev)
                   [] ~needs_other_cpu(s, prev, cpu) /\ ~deactivate -> swap_sticky(s, cpu, prev)
                   [] OTHER -> s
<1>1. Mild(s, s1, C)
  <2>1. Mild(s, resched_suitable_idle(s, prev), C) BY SuitableIdleMild
  <2>2. Mild(s, swap_sticky(s, cpu, prev), C) BY SwapStickyMild
  <2>3. Mild(s, s, C) BY MildRefl
  <2> QED BY <2>1, <2>2, <2>3
<1>2. GiveBack(s, cpu, prev, deactivate, fit) = return_task(s1, prev, deactivate, fit)
  BY DEF GiveBack
<1> HIDE DEF s1
<1> QED BY <1>1, <1>2, ReturnMild, MildChain

\* Dropping a dead task.
LEMMA BuryMild ==
  ASSUME NEW s \in SchedState, NEW p \in Tasks, NEW C PROVE Mild(s, Bury(s, p), C)
<1> DEFINE a == [s EXCEPT !.task[p].state = "none"]
           b == [a EXCEPT !.task[p].deadline = 0]
           c == [b EXCEPT !.task[p].time_slice = 0]
<1>1. Bury(s, p) = IF s.task[p].state = "dead" THEN c ELSE s BY DEF Bury
<1>2. "none" \in TaskStates /\ 0 \in Nat /\ 0 \in 0 .. SLICE BY SliceAssumption DEF TaskStates
<1>3. Mild(s, a, C) BY <1>2, TaskMild
<1> HIDE DEF a
<1>4. Mild(s, b, C)
  <2>1. a \in SchedState => Mild(a, b, C) BY <1>2, TaskMild
  <2> QED BY <1>3, <2>1, MildChain
<1> HIDE DEF b
<1>5. Mild(s, c, C)
  <2>1. b \in SchedState => Mild(b, c, C) BY <1>2, TaskMild
  <2> QED BY <1>4, <2>1, MildChain
<1> HIDE DEF c
<1> QED BY <1>1, <1>5, MildRefl
-----------------------------------------------------------------------------
(***************************************************************************)
(* The handlers that are mild.                                             *)
(***************************************************************************)
\* A handler that ends in a state mildly reached respects the properties.
LEMMA BecomeMild ==
  ASSUME sched \in SchedState, NEW t, Mild(sched, t, {}), Become(t) PROVE Respects(sched, sched')
<1>1. sched' = t BY BecomeSched DEF Mild
<1>2. Respects(sched, t) BY MildRespects
<1> QED BY <1>1, <1>2

\* set_current_state and do_exit write the state of a task in use.
LEMMA StateRespects ==
  ASSUME sched \in SchedState, NEW p \in Tasks, NEW st \in TaskStates, task[p].state # "none",
         task' = [task EXCEPT ![p].state = st], UNCHANGED <<grq, rq>>
  PROVE  Respects(sched, sched')
<1> DEFINE t == [sched EXCEPT !.task[p].state = st]
<1>1. Become(t) BY DEF Become, sched
<1>2. Mild(sched, t, {})
  <2>1. sched.task[p].state # "none" BY DEF sched
  <2> QED BY <2>1, TaskMild
<1> HIDE DEF t
<1> QED BY <1>1, <1>2, BecomeMild

\* try_to_wake_up.
LEMMA TryToWakeUpRespects ==
  ASSUME PInv, NEW p \in Tasks, NEW sync, TryToWakeUp(p, sync) PROVE Respects(sched, sched')
<1>1. sched \in SchedState /\ sched.task = task BY PFacts
<1>2. "running" \in TaskStates BY DEF TaskStates
<1>3. sched.task[p].state \in {"interruptible", "uninterruptible"} /\ task[p].cpu \in Cpus
  <2>1. sched.task[p].cpu \in Cpus BY <1>1, StateParts, TaskFields
  <2> QED BY <1>1, <2>1 DEF TryToWakeUp
<1>4. CASE task_queued(sched, p) \/ task[p].on_cpu
  <2> DEFINE t == [sched EXCEPT !.task[p].state = "running"]
  <2>1. Become(t) BY <1>4 DEF TryToWakeUp
  <2>2. Mild(sched, t, {}) BY <1>1, <1>2, <1>3, TaskMild
  <2> HIDE DEF t
  <2> QED BY <1>1, <2>1, <2>2, BecomeMild
<1>5. CASE ~(task_queued(sched, p) \/ task[p].on_cpu)
  <2>1. PICK d \in Advances, fit \in BOOLEAN :
          LET s1 == activate_task(update_clocks(sched, d), p, fit)
              s2 == IF ~sync \/ suitable_idle_cpus(s1, p)
                    THEN try_preempt(s1, p, task[p].cpu) ELSE s1
          IN  Become([s2 EXCEPT !.task[p].state = "running"])
    BY <1>5 DEF TryToWakeUp
  <2> DEFINE s0 == update_clocks(sched, d)
             s1 == activate_task(s0, p, fit)
             s2 == IF ~sync \/ suitable_idle_cpus(s1, p)
                   THEN try_preempt(s1, p, task[p].cpu) ELSE s1
             t  == [s2 EXCEPT !.task[p].state = "running"]
  <2>2. Become(t) BY <2>1
  <2>3. d \in Nat BY DEF Advances
  <2>4. Mild(sched, s0, {}) BY <1>1, <2>3, ClocksMild
  <2>5. s0.task = sched.task BY <1>1 DEF update_clocks, SchedState
  <2> HIDE DEF s0
  <2>6. Mild(sched, s1, {}) BY <2>4, ActivateMild, MildChain
  <2>7. s1.task[p].state = s0.task[p].state
    <3>1. s0 \in SchedState BY <2>4 DEF Mild
    <3> QED BY <3>1, ActivateKeepsState
  <2> HIDE DEF s1
  <2>8. s1 \in SchedState BY <2>6 DEF Mild
  <2>9. Mild(s1, s2, {}) /\ s2.task[p].state = s1.task[p].state
    <3>1. Mild(s1, try_preempt(s1, p, task[p].cpu), {}) BY <1>3, <2>8, TryPreemptMild
    <3>2. Quiet(s1, try_preempt(s1, p, task[p].cpu)) BY <1>3, <2>8, TryPreemptQuiet
    <3>3. Mild(s1, s1, {}) BY <2>8, MildRefl
    <3> QED BY <3>1, <3>2, <3>3 DEF Quiet, SameCore
  <2> HIDE DEF s2
  <2>10. Mild(sched, s2, {}) BY <2>6, <2>9, MildChain
  <2>11. s2.task[p].state # "none" BY <1>3, <2>5, <2>7, <2>9
  <2>12. s2 \in SchedState => Mild(s2, t, {}) BY <1>2, <2>11, TaskMild
  <2> HIDE DEF t
  <2>13. Mild(sched, t, {}) BY <2>10, <2>12, MildChain
  <2> QED BY <1>1, <2>2, <2>13, BecomeMild
<1> QED BY <1>4, <1>5

\* wake_up_new_task.
LEMMA WakeUpNewTaskRespects ==
  ASSUME PInv, NEW cpu \in Cpus, NEW child \in Tasks, WakeUpNewTask(cpu, child)
  PROVE  Respects(sched, sched')
<1> DEFINE old  == task[child].cpu
           a    == [sched EXCEPT !.task[child].state = "running"]
<1>1. sched \in SchedState /\ sched.task = task BY PFacts
<1>2. old \in Cpus
  <2>1. sched.task[child].cpu \in Cpus BY <1>1, StateParts, TaskFields
  <2> QED BY <1>1, <2>1
<1>3. PICK parent \in Tasks \cup {NoTask}, home \in Cpus, d \in Advances, fit \in BOOLEAN :
        LET new == [sched EXCEPT !.task[child].state = "running", !.task[child].cpu = home,
                                 !.task[child].parent = NoTask]
            s   == activate_task(update_clocks(new, d), child, fit)
        IN  /\ fit \/ task[child].policy = "idleprio"
            /\ Become(IF rq[old].curr = parent /\ ~suitable_idle_cpus(s, child)
                      THEN resched_cpu(s, old) ELSE try_preempt(s, child, old))
  BY <1>1, NewTaskHome
<1> DEFINE b    == [a EXCEPT !.task[child].cpu = home]
           born == [b EXCEPT !.task[child].parent = NoTask]
           s0   == update_clocks(born, d)
           s    == activate_task(s0, child, fit)
           t    == IF rq[old].curr = parent /\ ~suitable_idle_cpus(s, child)
                   THEN resched_cpu(s, old) ELSE try_preempt(s, child, old)
<1>4. Become(t) BY <1>3
<1>5. Mild(sched, a, {})
  <2>1. "running" \in TaskStates BY DEF TaskStates
  <2>2. sched.task[child].state # "none" BY <1>1 DEF WakeUpNewTask
  <2> QED BY <1>1, <2>1, <2>2, TaskMild
<1> HIDE DEF a
<1>6. Mild(sched, b, {})
  <2>1. a \in SchedState => Mild(a, b, {}) BY TaskMild
  <2> QED BY <1>5, <2>1, MildChain
<1> HIDE DEF b
<1>7. Mild(sched, born, {})
  <2>1. b \in SchedState => Mild(b, born, {}) BY TaskMild
  <2> QED BY <1>6, <2>1, MildChain
<1> HIDE DEF born
<1>8. d \in Nat BY DEF Advances
<1>9. Mild(sched, s0, {}) BY <1>7, <1>8, ClocksMild, MildChain
<1> HIDE DEF s0
<1>10. Mild(sched, s, {}) BY <1>9, ActivateMild, MildChain
<1> HIDE DEF s, old
<1>11. Mild(sched, resched_cpu(s, old), {}) BY <1>2, <1>10, ReschedMild, MildChain
<1>12. Mild(sched, try_preempt(s, child, old), {}) BY <1>2, <1>10, TryPreemptMild, MildChain
<1>13. Mild(sched, t, {}) BY <1>11, <1>12
<1> HIDE DEF t
<1> QED BY <1>1, <1>4, <1>13, BecomeMild

\* yield_to.
LEMMA YieldToRespects ==
  ASSUME PInv, NEW cpu \in Cpus, NEW from \in Cpus, NEW p \in Tasks, YieldTo(cpu, from, p)
  PROVE  Respects(sched, sched')
<1> DEFINE dl    == IF sched.task[p].deadline > rq[from].deadline THEN rq[from].deadline
                    ELSE sched.task[p].deadline
           slice == IF sched.task[p].time_slice + rq[from].time_slice > SLICE THEN SLICE
                    ELSE sched.task[p].time_slice + rq[from].time_slice
           a == [sched EXCEPT !.task[p].deadline = dl]
           b == [a EXCEPT !.task[p].time_slice = slice]
           c == [b EXCEPT !.rq[from].time_slice = 0]
           t == resched_cpu(c, from)
<1>1. sched \in SchedState /\ sched.rq = rq BY PFacts
<1>2. sched.rq[from].deadline \in Nat /\ sched.rq[from].time_slice \in 0 .. SLICE
  BY <1>1, StateParts, RqFields
<1>3. sched.task[p].deadline \in Nat /\ sched.task[p].time_slice \in 0 .. SLICE
  BY <1>1, StateParts, TaskFields
<1>4. dl \in Nat /\ slice \in 0 .. SLICE BY <1>1, <1>2, <1>3, SliceAssumption
<1>5. a.task[p].time_slice = sched.task[p].time_slice
  <2>1. sched.task \in [Tasks -> TaskRec] BY <1>1, StateParts
  <2> QED BY <1>1, <2>1 DEF SchedState, TaskRec
<1>6. Become(t)
  <2>1. Become(resched_cpu(
          [sched EXCEPT
             !.task[p].deadline = IF @ > rq[from].deadline THEN rq[from].deadline ELSE @,
             !.task[p].time_slice = IF @ + rq[from].time_slice > SLICE THEN SLICE
                                    ELSE @ + rq[from].time_slice,
             !.rq[from].time_slice = 0], from))
    BY DEF YieldTo
  <2> QED BY <1>5, <2>1
<1> HIDE DEF dl, slice
<1>7. Mild(sched, a, {}) BY <1>1, <1>4, TaskMild
<1> HIDE DEF a
<1>8. Mild(sched, b, {})
  <2>1. a \in SchedState => Mild(a, b, {}) BY <1>4, TaskMild
  <2> QED BY <1>7, <2>1, MildChain
<1> HIDE DEF b
<1>9. Mild(sched, c, {})
  <2>1. 0 \in 0 .. SLICE BY SliceAssumption
  <2>2. b \in SchedState => Mild(b, c, {}) BY <2>1, RqMild
  <2> QED BY <1>8, <2>2, MildChain
<1> HIDE DEF c
<1>10. Mild(sched, t, {}) BY <1>9, ReschedMild, MildChain
<1> HIDE DEF t
<1> QED BY <1>1, <1>6, <1>10, BecomeMild

\* set_user_nice.
LEMMA SetUserNiceRespects ==
  ASSUME PInv, NEW p \in Tasks, NEW nice \in Nices, SetUserNice(p, nice)
  PROVE  Respects(sched, sched')
<1> DEFINE old == task[p].nice
           cpu == task[p].cpu
           renice(s) ==
             [s EXCEPT !.task[p].deadline = (@ + DeadlineDiff[nice] - DeadlineDiff[old]) % DeadlineMod,
                       !.task[p].nice = nice,
                       !.task[p].prio = effective_prio(s.task[p])]
<1>1. sched \in SchedState /\ sched.task = task BY PFacts
<1>2. task[p] \in TaskRec BY <1>1, StateParts
<1>3. cpu \in Cpus /\ old \in Nices BY <1>2, TaskFields
<1>4. PICK d \in Advances, fit \in BOOLEAN :
        LET s0 == update_clocks(sched, d)
            s1 == Requeued(s0, p, renice, fit)
        IN  Become(CASE is_rt_policy(task[p].policy) -> [s0 EXCEPT !.task[p].nice = nice]
                     [] ~is_rt_policy(task[p].policy) /\ task_queued(sched, p) ->
                          IF nice < old THEN try_preempt(s1, p, cpu) ELSE s1
                     [] ~is_rt_policy(task[p].policy) /\ task[p].on_cpu ->
                          IF old < nice THEN resched_cpu(reset_rq_task(s1, cpu, p), cpu)
                          ELSE reset_rq_task(s1, cpu, p)
                     [] OTHER -> s1)
  BY Zenon DEF SetUserNice
<1>5. \A u \in SchedState : Mild(u, renice(u), {})
  <2> SUFFICES ASSUME NEW u \in SchedState PROVE Mild(u, renice(u), {}) OBVIOUS
  <2> DEFINE dl == (u.task[p].deadline + DeadlineDiff[nice] - DeadlineDiff[old]) % DeadlineMod
             v  == [u EXCEPT !.task[p].deadline = dl]
             w  == [v EXCEPT !.task[p].nice = nice]
             x  == [w EXCEPT !.task[p].prio = effective_prio(w.task[p])]
  <2>1. dl \in Nat
    <3>1. u.task[p].deadline \in Nat BY StateParts, TaskFields
    <3>2. DeadlineDiff[nice] \in Nat BY DeadlineAssumption
    <3>3. DeadlineDiff[old] \in Nat BY <1>3, DeadlineAssumption
    <3>4. DeadlineMod \in Nat \ {0} BY DeadlineAssumption
    <3> QED BY <3>1, <3>2, <3>3, <3>4
  <2>2. renice(u) = [w EXCEPT !.task[p].prio = effective_prio(u.task[p])] OBVIOUS
  <2> HIDE DEF dl, renice
  <2>3. effective_prio(w.task[p]) = effective_prio(u.task[p])
    <3>1. u.task \in [Tasks -> TaskRec] BY StateParts
    <3>2. /\ w.task[p].prio = u.task[p].prio /\ w.task[p].policy = u.task[p].policy
          /\ w.task[p].rt_priority = u.task[p].rt_priority
      BY <3>1 DEF SchedState, TaskRec
    <3> QED BY <3>2 DEF effective_prio
  <2>4. Mild(u, v, {}) BY <2>1, TaskMild
  <2> HIDE DEF v
  <2>5. Mild(u, w, {})
    <3>1. v \in SchedState => Mild(v, w, {}) BY TaskMild
    <3> QED BY <2>4, <3>1, MildChain
  <2>6. renice(u) = x BY <2>2, <2>3
  <2> HIDE DEF w
  <2>7. Mild(u, x, {}) BY <2>5, EffectiveMild, MildChain
  <2> QED BY <2>6, <2>7
<1> HIDE DEF renice
<1> DEFINE s0 == update_clocks(sched, d)
           s1 == IF task_queued(s0, p) THEN enqueue_task(renice(dequeue_task(s0, p)), p, fit)
                 ELSE renice(s0)
           r  == reset_rq_task(s1, cpu, p)
           t  == CASE is_rt_policy(task[p].policy) -> [s0 EXCEPT !.task[p].nice = nice]
                   [] ~is_rt_policy(task[p].policy) /\ task_queued(sched, p) ->
                        IF nice < old THEN try_preempt(s1, p, cpu) ELSE s1
                   [] ~is_rt_policy(task[p].policy) /\ task[p].on_cpu ->
                        IF old < nice THEN resched_cpu(r, cpu) ELSE r
                   [] OTHER -> s1
<1>6. Become(t) BY <1>4 DEF Requeued
<1> HIDE DEF old, cpu
<1>7. d \in Nat BY DEF Advances
<1>8. Mild(sched, s0, {}) BY <1>1, <1>7, ClocksMild
<1> HIDE DEF s0
<1>9. Mild(sched, [s0 EXCEPT !.task[p].nice = nice], {})
  <2>1. s0 \in SchedState => Mild(s0, [s0 EXCEPT !.task[p].nice = nice], {}) BY TaskMild
  <2> QED BY <1>8, <2>1, MildChain
<1>10. Mild(sched, s1, {})
  <2>1. Mild(sched, renice(s0), {}) BY <1>5, <1>8, MildChain
  <2>2. Mild(sched, dequeue_task(s0, p), {}) BY <1>8, DequeueMild, MildChain
  <2>3. Mild(sched, renice(dequeue_task(s0, p)), {}) BY <1>5, <2>2, MildChain
  <2>4. Mild(sched, enqueue_task(renice(dequeue_task(s0, p)), p, fit), {})
    BY <2>3, EnqueueMild, MildChain
  <2> QED BY <2>1, <2>4
<1> HIDE DEF s1
<1>11. Mild(sched, try_preempt(s1, p, cpu), {}) BY <1>3, <1>10, TryPreemptMild, MildChain
<1>12. Mild(sched, r, {}) BY <1>3, <1>10, RqTaskMild, MildChain
<1> HIDE DEF r
<1>13. Mild(sched, resched_cpu(r, cpu), {}) BY <1>3, <1>12, ReschedMild, MildChain
<1>14. Mild(sched, t, {}) BY <1>9, <1>10, <1>11, <1>12, <1>13
<1> HIDE DEF t
<1> QED BY <1>1, <1>6, <1>14, BecomeMild

\* scheduler_tick on a busy CPU.
LEMMA SchedulerTickRespects ==
  ASSUME PInv, NEW cpu \in Cpus, NEW e \in 0 .. 1, SchedulerTick(cpu, e)
  PROVE  Respects(sched, sched')
<1>1. sched \in SchedState BY PFacts
<1>2. PICK dither \in BOOLEAN, refractory \in Refractory(sched, cpu) :
        LET s0 == [update_cpu_clock(sched, cpu, e) EXCEPT !.grq.iso_refractory = refractory]
            s1 == IF refractory /\ s0.rq[cpu].policy = "iso" /\ s0.rq[cpu].prio = ISO_PRIO
                  THEN [s0 EXCEPT !.rq[cpu].time_slice = 0] ELSE s0
            slice == s1.rq[cpu].time_slice
        IN  Become(CASE s1.rq[cpu].policy = "fifo" -> s1
                     [] s1.rq[cpu].policy # "fifo" /\ dither /\ slice <= HALF_JIFFY ->
                          resched_cpu([s1 EXCEPT !.rq[cpu].time_slice = 0], cpu)
                     [] s1.rq[cpu].policy # "fifo" /\ ~dither /\ slice = 0 -> resched_cpu(s1, cpu)
                     [] OTHER -> s1)
  BY Zenon DEF SchedulerTick
<1> DEFINE a  == update_cpu_clock(sched, cpu, e)
           s0 == [a EXCEPT !.grq.iso_refractory = refractory]
           b  == [s0 EXCEPT !.rq[cpu].time_slice = 0]
           s1 == IF refractory /\ s0.rq[cpu].policy = "iso" /\ s0.rq[cpu].prio = ISO_PRIO
                 THEN b ELSE s0
           slice == s1.rq[cpu].time_slice
           c  == [s1 EXCEPT !.rq[cpu].time_slice = 0]
           t  == CASE s1.rq[cpu].policy = "fifo" -> s1
                   [] s1.rq[cpu].policy # "fifo" /\ dither /\ slice <= HALF_JIFFY -> resched_cpu(c, cpu)
                   [] s1.rq[cpu].policy # "fifo" /\ ~dither /\ slice = 0 -> resched_cpu(s1, cpu)
                   [] OTHER -> s1
<1>3. Become(t) BY <1>2
<1>4. refractory \in BOOLEAN BY DEF Refractory
<1>5. 0 \in 0 .. SLICE BY SliceAssumption
<1>6. Mild(sched, a, {}) BY <1>1, CpuClockMild
<1> HIDE DEF a
<1>7. Mild(sched, s0, {}) BY <1>4, <1>6, RefractoryMild, MildChain
<1> HIDE DEF s0
<1>8. Mild(sched, b, {})
  <2>1. s0 \in SchedState => Mild(s0, b, {}) BY <1>5, RqMild
  <2> QED BY <1>7, <2>1, MildChain
<1>9. Mild(sched, s1, {}) BY <1>7, <1>8
<1> HIDE DEF s1
<1>10. Mild(sched, c, {})
  <2>1. s1 \in SchedState => Mild(s1, c, {}) BY <1>5, RqMild
  <2> QED BY <1>9, <2>1, MildChain
<1> HIDE DEF c
<1>11. Mild(sched, resched_cpu(c, cpu), {}) BY <1>10, ReschedMild, MildChain
<1>12. Mild(sched, resched_cpu(s1, cpu), {}) BY <1>9, ReschedMild, MildChain
<1>13. Mild(sched, t, {}) BY <1>9, <1>11, <1>12
<1> HIDE DEF t
<1> QED BY <1>1, <1>3, <1>13, BecomeMild

\* The tick of an idle CPU, wake_up_idle_cpu and the governor's calls.
LEMMA RestRespects ==
  ASSUME PInv, NEW cpu \in Cpus, IdleTick(cpu) \/ WakeUpIdleCpu(cpu) \/ CpuScaling(cpu)
  PROVE  Respects(sched, sched')
<1>1. sched \in SchedState BY PFacts
<1>2. CASE IdleTick(cpu)
  <2> DEFINE t == [sched EXCEPT !.grq.iso_refractory = FALSE]
  <2>1. Become(t) BY <1>2 DEF IdleTick, Become, sched
  <2>2. Mild(sched, t, {}) BY <1>1, RefractoryMild
  <2> HIDE DEF t
  <2> QED BY <1>1, <2>1, <2>2, BecomeMild
<1>3. CASE WakeUpIdleCpu(cpu) BY <1>1, <1>3, ReschedMild, BecomeMild DEF WakeUpIdleCpu
<1>4. CASE CpuScaling(cpu)
  <2> DEFINE v == ~sched.rq[cpu].scaling
             t == [sched EXCEPT !.rq[cpu].scaling = v]
  <2>1. Become(t) BY <1>4 DEF CpuScaling, Become, sched
  <2>2. v \in BOOLEAN OBVIOUS
  <2> HIDE DEF v
  <2>3. Mild(sched, t, {}) BY <1>1, <2>2, RqMild
  <2> HIDE DEF t
  <2> QED BY <1>1, <2>1, <2>3, BecomeMild
<1> QED BY <1>2, <1>3, <1>4
-----------------------------------------------------------------------------
(***************************************************************************)
(* schedule() drops the request to reschedule of its own CPU, and chooses  *)
(* what this CPU runs among the tasks that may run there.                  *)
(***************************************************************************)
\* The switch is mild but for its own CPU, which then runs next.
LEMMA SwitchMild ==
  ASSUME NEW s \in SchedState, MapExact(s), NEW cpu \in Cpus,
         NEW prev \in Tasks \cup {Idle}, NEW next \in Tasks \cup {Idle},
         prev = s.rq[cpu].curr
  PROVE  LET t == SwitchTo(s, cpu, prev, next)
         IN  Mild(s, t, {cpu}) /\ t.rq[cpu].curr = next
<1> DEFINE s1 == IF next = Idle THEN set_cpuidle_map(s, cpu)
                 ELSE clear_cpuidle_map(take_task(s, cpu, next), cpu)
           u  == [s1 EXCEPT !.rq[cpu].sticky_task = NoTask]
           s2 == IF next # Idle /\ rt_prio(s1.task[next].prio)
                 THEN IF prev = Idle THEN u ELSE clear_sticky(u, prev)
                 ELSE s1
           s3 == IF prev = Idle THEN s2 ELSE [s2 EXCEPT !.task[prev].on_cpu = FALSE]
           s4 == IF next = Idle THEN s3 ELSE [s3 EXCEPT !.task[next].on_cpu = TRUE]
           s5 == set_rq_task(s4, cpu, next)
           t  == [s5 EXCEPT !.rq[cpu].curr = next]
           C  == {cpu}
<1>1. SwitchTo(s, cpu, prev, next) = IF prev = next THEN s1 ELSE t BY DEF SwitchTo
<1>2. s1 \in SchedState /\ s1.rq[cpu].curr = s.rq[cpu].curr BY MapStep
<1>3. Mild(s, s1, C)
  <2>1. CASE next = Idle
    <3>1. s1 = set_cpuidle_map(s, cpu) BY <2>1
    <3>2. set_cpuidle_map(s, cpu).rq = s.rq /\ set_cpuidle_map(s, cpu).task = s.task
      BY DEF set_cpuidle_map, SchedState
    <3> HIDE DEF s1
    <3> QED BY <1>2, <3>1, <3>2, NoTaskWritten
  <2>2. CASE next # Idle
    <3> DEFINE v == take_task(s, cpu, next)
    <3>1. Mild(s, v, C) BY <2>2, TakeMild
    <3>2. s1 = clear_cpuidle_map(v, cpu) BY <2>2
    <3> HIDE DEF v, s1
    <3>3. v \in SchedState BY <3>1 DEF Mild
    <3>4. clear_cpuidle_map(v, cpu).rq = v.rq /\ clear_cpuidle_map(v, cpu).task = v.task
      BY <3>3 DEF clear_cpuidle_map, SchedState
    <3>5. Mild(v, s1, C) BY <1>2, <3>2, <3>4, NoTaskWritten
    <3> QED BY <3>1, <3>5, MildChain
  <2> QED BY <2>1, <2>2
<1> HIDE DEF s1
<1>4. Mild(s, u, C)
  <2>1. s1 \in SchedState => Mild(s1, u, C) BY RqMild
  <2> QED BY <1>3, <2>1, MildChain
<1> HIDE DEF u
<1>5. Mild(s, s2, C)
  <2>1. prev # Idle => Mild(s, clear_sticky(u, prev), C) BY <1>4, ClearStickyMild, MildChain
  <2> QED BY <1>3, <1>4, <2>1
<1> HIDE DEF s2
<1>6. Mild(s, s3, C)
  <2>1. CASE prev = Idle BY <1>5, <2>1
  <2>2. CASE prev # Idle
    <3>1. prev \in Tasks BY <2>2
    <3>2. s2 \in SchedState => Mild(s2, [s2 EXCEPT !.task[prev].on_cpu = FALSE], C)
      BY <3>1, TaskMild
    <3>3. Mild(s, [s2 EXCEPT !.task[prev].on_cpu = FALSE], C) BY <1>5, <3>2, MildChain
    <3> QED BY <2>2, <3>3
  <2> QED BY <2>1, <2>2
<1> HIDE DEF s3
<1>7. Mild(s, s4, C)
  <2>1. CASE next = Idle BY <1>6, <2>1
  <2>2. CASE next # Idle
    <3>1. next \in Tasks BY <2>2
    <3>2. s3 \in SchedState => Mild(s3, [s3 EXCEPT !.task[next].on_cpu = TRUE], C)
      BY <3>1, TaskMild
    <3>3. Mild(s, [s3 EXCEPT !.task[next].on_cpu = TRUE], C) BY <1>6, <3>2, MildChain
    <3> QED BY <2>2, <3>3
  <2> QED BY <2>1, <2>2
<1> HIDE DEF s4
<1>8. Mild(s, s5, C) BY <1>7, RqTaskMild, MildChain
<1>9. s5 \in SchedState BY <1>8 DEF Mild
<1> HIDE DEF s5
<1>10. Mild(s, t, C)
  <2>1. Mild(s5, t, C) BY <1>9, RqMild
  <2> QED BY <1>8, <2>1, MildChain
<1>11. t.rq[cpu].curr = next BY <1>9 DEF SchedState, RqRec
<1> HIDE DEF t
<1> QED BY <1>1, <1>2, <1>3, <1>10, <1>11

\* A step that is mild but for one CPU, and leaves that one with a task that may
\* run there.
LEMMA OwnCpuRespects ==
  ASSUME NEW s \in SchedState, NEW t, NEW cpu \in Cpus, Mild(s, t, {cpu}),
         t.rq[cpu].curr \in Tasks => cpu \in t.task[t.rq[cpu].curr].allowed
  PROVE  Respects(s, t)
<1>1. Enforced(s) => Enforced(t)
  <2> SUFFICES ASSUME Enforced(s), NEW c \in Cpus, t.rq[c].curr \in Tasks,
                      c \notin t.task[t.rq[c].curr].allowed
               PROVE  t.rq[c].need_resched
    BY DEF Enforced
  <2>1. c \in Cpus \ {cpu} OBVIOUS
  <2>2. Calm(s.rq[c], t.rq[c]) /\ Tame(s.task[t.rq[c].curr], t.task[t.rq[c].curr])
    BY <2>1 DEF Mild
  <2> QED BY <2>2 DEF Enforced, Calm, Tame
<1>2. (Boosts(s) => Boosts(t)) /\ (Earns(s) => Earns(t)) BY MildPrios
<1> QED BY <1>1, <1>2 DEF Respects

\* Choosing and switching, from a state r that schedule() has come to.
LEMMA PickRespects ==
  ASSUME PInv, NEW cpu \in Cpus, NEW r, Step(sched, r), Mild(sched, r, {cpu}),
         PickAndSwitch(r, cpu, rq[cpu].curr)
  PROVE  Respects(sched, sched')
<1> DEFINE prev == rq[cpu].curr
           next == Choose(r, inj, cpu).next
           t    == SwitchTo(r, cpu, prev, next)
<1>1. sched \in SchedState /\ MapExact(sched) /\ inj \in InjRec /\ sched.rq = rq
  BY PFacts, IInvSched
<1>2. r \in SchedState /\ MapExact(r) BY <1>1, StepExact DEF Step
<1>3. Become(t) BY DEF PickAndSwitch
<1>4. prev = r.rq[cpu].curr BY <1>1 DEF Step
<1>5. prev \in Tasks \cup {Idle} BY <1>2, <1>4, StateParts, RqFields
<1>6. next \in Tasks \cup {Idle} BY <1>1, <1>2, ChooseType
<1>7. next \in Tasks => cpu \in r.task[next].allowed BY <1>2, ChooseNext
<1> HIDE DEF next, prev
<1>8. Mild(r, t, {cpu}) /\ t.rq[cpu].curr = next BY <1>2, <1>4, <1>5, <1>6, SwitchMild
<1> HIDE DEF t
<1>9. Mild(sched, t, {cpu}) BY <1>8, MildChain
<1>10. next \in Tasks => cpu \in t.task[next].allowed BY <1>7, <1>8 DEF Mild, Tame
<1>11. Respects(sched, t) BY <1>1, <1>8, <1>9, <1>10, OwnCpuRespects
<1>12. sched' = t BY <1>3, <1>9, BecomeSched DEF Mild
<1> QED BY <1>11, <1>12

\* schedule() from a task.
LEMMA ScheduleTaskRespects ==
  ASSUME PInv, NEW cpu \in Cpus, rq[cpu].curr \in Tasks, NEW deactivate \in BOOLEAN,
         NEW s0, Step(sched, s0), Mild(sched, s0, {cpu}), ScheduleTask(cpu, deactivate, s0)
  PROVE  Respects(sched, sched')
<1> DEFINE prev == rq[cpu].curr
<1>1. PICK d \in Advances, e \in 0 .. 1, fit \in BOOLEAN :
        LET s == StoreBack(update_cpu_clock(update_clocks(s0, d), cpu, e), cpu, prev)
        IN  IF Rerun(s, cpu, prev, deactivate)
            THEN Become(s) /\ UNCHANGED inj
            ELSE PickAndSwitch(Bury(GiveBack(s, cpu, prev, deactivate, fit), prev), cpu, prev)
  BY DEF ScheduleTask
<1> DEFINE a == update_clocks(s0, d)
           b == update_cpu_clock(a, cpu, e)
           s == StoreBack(b, cpu, prev)
           g == GiveBack(s, cpu, prev, deactivate, fit)
           r == Bury(g, prev)
<1>2. d \in Nat BY DEF Advances
<1>3. prev \in Tasks /\ prev = rq[cpu].curr OBVIOUS
<1>4. \/ Rerun(s, cpu, prev, deactivate) /\ Become(s)
      \/ PickAndSwitch(r, cpu, prev)
  BY <1>1
<1>5. sched \in SchedState /\ sched.rq = rq BY PFacts
<1> HIDE DEF prev
<1>6. Step(sched, a) /\ Mild(sched, a, {cpu}) BY <1>2, ClocksStep, Chain, ClocksMild, MildChain
<1> HIDE DEF a
<1>7. Step(sched, b) /\ Mild(sched, b, {cpu}) BY <1>6, CpuClockStep, Chain, CpuClockMild, MildChain
<1> HIDE DEF b
<1>8. Step(sched, s) /\ Mild(sched, s, {cpu})
  BY <1>3, <1>7, StoreBackStep, Chain, StoreBackMild, MildChain
<1> HIDE DEF s
<1>9. Step(sched, g) /\ Mild(sched, g, {cpu})
  BY <1>3, <1>8, GiveBackStep, Chain, GiveBackMild, MildChain
<1> HIDE DEF g
<1>10. Step(sched, r) /\ Mild(sched, r, {cpu}) BY <1>3, <1>9, BuryStep, Chain, BuryMild, MildChain
<1> HIDE DEF r
<1>11. CASE Rerun(s, cpu, prev, deactivate) /\ Become(s)
  <2>1. s.rq[cpu].curr = prev BY <1>3, <1>5, <1>8 DEF Step
  <2>2. cpu \in s.task[prev].allowed BY <1>11 DEF Rerun, needs_other_cpu
  <2>3. Respects(sched, s) BY <1>5, <1>8, <2>1, <2>2, OwnCpuRespects
  <2>4. sched' = s BY <1>8, <1>11, BecomeSched DEF Mild
  <2> QED BY <2>3, <2>4
<1>12. CASE PickAndSwitch(r, cpu, prev) BY <1>3, <1>10, <1>12, PickRespects
<1> QED BY <1>4, <1>11, <1>12

\* schedule(), whoever calls it.
LEMMA ScheduleRespects == ASSUME PInv, NEW cpu \in Cpus, Schedule(cpu) PROVE Respects(sched, sched')
<1>1. /\ sched \in SchedState /\ Step(sched, sched) /\ Mild(sched, sched, {cpu})
      /\ sched.task = task
  BY PFacts, StepRefl, MildRefl
<1>2. CASE ScheduleFromIdle(cpu)
  <2>1. PICK d \in Advances :
          PickAndSwitch([update_clocks(sched, d) EXCEPT !.rq[cpu].need_resched = FALSE], cpu, Idle)
    BY <1>2 DEF ScheduleFromIdle
  <2> DEFINE a == update_clocks(sched, d)
             r == [a EXCEPT !.rq[cpu].need_resched = FALSE]
  <2>2. d \in Nat BY DEF Advances
  <2>3. Step(sched, a) /\ Mild(sched, a, {cpu}) BY <1>1, <2>2, ClocksStep, ClocksMild
  <2>4. PickAndSwitch(r, cpu, Idle) BY <2>1
  <2> HIDE DEF a
  <2>5. a \in SchedState => Step(a, r) /\ Mild(a, r, {cpu}) BY RqAssign, RqMild
  <2>6. Step(sched, r) /\ Mild(sched, r, {cpu}) BY <2>3, <2>5, Chain, MildChain
  <2> HIDE DEF r
  <2>7. Idle = rq[cpu].curr BY <1>2 DEF ScheduleFromIdle
  <2> QED BY <2>4, <2>6, <2>7, PickRespects
<1>3. CASE SchedulePreempt(cpu) BY <1>1, <1>3, ScheduleTaskRespects DEF SchedulePreempt
<1>4. CASE ScheduleYield(cpu) BY <1>1, <1>4, ScheduleTaskRespects DEF ScheduleYield
<1>5. CASE ScheduleSignalPending(cpu)
  <2> DEFINE p  == rq[cpu].curr
             s0 == [sched EXCEPT !.task[p].state = "running"]
  <2>1. /\ p \in Tasks /\ p = rq[cpu].curr /\ ScheduleTask(cpu, FALSE, s0)
        /\ sched.task[p].state # "none"
    BY <1>1, <1>5 DEF ScheduleSignalPending
  <2>2. "running" \in TaskStates BY DEF TaskStates
  <2> HIDE DEF p
  <2>3. Step(sched, s0) BY <1>1, <2>1, <2>2, TaskAssign
  <2>4. Mild(sched, s0, {cpu}) BY <1>1, <2>1, <2>2, TaskMild
  <2> HIDE DEF s0
  <2> QED BY <2>1, <2>3, <2>4, ScheduleTaskRespects
<1>6. CASE ScheduleSleep(cpu) BY <1>1, <1>6, ScheduleTaskRespects DEF ScheduleSleep
<1>7. CASE ScheduleExit(cpu) BY <1>1, <1>7, ScheduleTaskRespects DEF ScheduleExit
<1> QED BY <1>2, <1>3, <1>4, <1>5, <1>6, <1>7 DEF Schedule
-----------------------------------------------------------------------------
(***************************************************************************)
(* The handlers that change what a task is entitled to.                    *)
(***************************************************************************)
\* Replacing the record of a task by one with the same affinity, or one that lets it
\* go on where it runs unless that CPU is to reschedule.
LEMMA WriteRespects ==
  ASSUME NEW s \in SchedState, NEW p \in Tasks, NEW r \in TaskRec,
         \/ r.allowed = s.task[p].allowed
         \/ \A c \in Cpus : s.rq[c].curr = p => c \in r.allowed \/ s.rq[c].need_resched,
         Boosts(s) => Boosted(r), NoReset /\ Earns(s) => Earned(r)
  PROVE  LET t == [s EXCEPT !.task[p] = r] IN t \in SchedState /\ t.task[p] = r /\ Respects(s, t)
<1> DEFINE t == [s EXCEPT !.task[p] = r]
<1>1. t \in SchedState BY TaskStep DEF Step
<1>2. t.rq = s.rq /\ \A q \in Tasks : t.task[q] = IF q = p THEN r ELSE s.task[q]
  BY DEF SchedState
<1> HIDE DEF t
<1>3. Enforced(s) => Enforced(t)
  <2> SUFFICES ASSUME Enforced(s), NEW c \in Cpus, t.rq[c].curr \in Tasks,
                      c \notin t.task[t.rq[c].curr].allowed
               PROVE  t.rq[c].need_resched
    BY DEF Enforced
  <2>1. CASE t.task[t.rq[c].curr].allowed = s.task[s.rq[c].curr].allowed
    BY <1>2, <2>1 DEF Enforced
  <2>2. CASE t.task[t.rq[c].curr].allowed # s.task[s.rq[c].curr].allowed
    <3>1. s.rq[c].curr = p /\ c \notin r.allowed /\ r.allowed # s.task[p].allowed BY <1>2, <2>2
    <3> QED BY <1>2, <3>1
  <2> QED BY <2>1, <2>2
<1>4. Boosts(s) => Boosts(t) BY <1>2 DEF Boosts
<1>5. NoReset /\ Earns(s) => Earns(t) BY <1>2 DEF Earns
<1>6. t.task[p] = r BY <1>2
<1> QED BY <1>1, <1>3, <1>4, <1>5, <1>6 DEF t, Respects

\* What rt_mutex_getprio gives a task is at least as good as what its waiter asks
\* for, and is real time only if the waiter or the policy is.
LEMMA GrantedPrio ==
  ASSUME NEW r \in TaskRec, NEW policy \in Policies, NEW rt_priority \in RtPrios, NEW w,
         w.top_waiter = r.top_waiter, r.policy = policy,
         r.prio = rt_mutex_getprio(w, normal_prio(policy, rt_priority))
  PROVE  Boosted(r) /\ (~r.reset_on_fork => Earned(r))
<1> DEFINE normal == normal_prio(policy, rt_priority)
<1>1. rt_prio(normal) <=> is_rt_policy(policy) BY NormalIsEarned
<1>2. normal \in Nat
  <2>1. normal \in QueuePrios BY NormalPrio
  <2> QED BY <2>1 DEF QueuePrios
<1> HIDE DEF normal
<1>3. r.top_waiter \in Nat
  <2>1. r.top_waiter \in 0 .. PRIO_LIMIT BY TaskFields
  <2> QED BY <2>1
<1>4. r.prio = IF r.top_waiter < normal THEN r.top_waiter ELSE normal
  BY DEF rt_mutex_getprio, normal
<1>5. r.prio <= r.top_waiter BY <1>2, <1>3, <1>4
<1>6. rt_prio(r.prio) => is_rt_policy(r.policy) \/ rt_prio(r.top_waiter) BY <1>1, <1>4
<1> QED BY <1>5, <1>6 DEF Boosted, Earned

\* Giving a task a new record, off the queue if it is queued.
LEMMA RequeueRespects ==
  ASSUME NEW s \in SchedState, NEW p \in Tasks, NEW r \in TaskRec, NEW fit,
         r.allowed = s.task[p].allowed, Boosts(s) => Boosted(r), NoReset /\ Earns(s) => Earned(r)
  PROVE  LET t == IF task_queued(s, p)
                  THEN enqueue_task([dequeue_task(s, p) EXCEPT !.task[p] = r], p, fit)
                  ELSE [s EXCEPT !.task[p] = r]
         IN  t \in SchedState /\ Respects(s, t)
<1> DEFINE a == dequeue_task(s, p)
           b == [a EXCEPT !.task[p] = r]
           c == enqueue_task(b, p, fit)
           d == [s EXCEPT !.task[p] = r]
<1>1. a \in SchedState /\ Respects(s, a) BY DequeueMild, MildRespects DEF Mild
<1>2. a.task = s.task BY DEF dequeue_task, SchedState
<1> HIDE DEF a
<1>3. Boosts(a) = Boosts(s) /\ Earns(a) = Earns(s) BY <1>2 DEF Boosts, Earns
<1>4. b \in SchedState /\ Respects(a, b) BY <1>1, <1>2, <1>3, WriteRespects
<1> HIDE DEF b
<1>5. Mild(b, c, {}) BY <1>4, EnqueueMild
<1>6. c \in SchedState /\ Respects(b, c) BY <1>4, <1>5, MildRespects DEF Mild
<1> HIDE DEF c
<1>7. Respects(s, c) BY <1>1, <1>4, <1>6, RespectsChain
<1>8. d \in SchedState /\ Respects(s, d) BY WriteRespects
<1> HIDE DEF d
<1> QED BY <1>6, <1>7, <1>8 DEF a, b, c, d

\* A handler that ends in a state mildly reached from one that respects them.
LEMMA BecomeRespects ==
  ASSUME NEW m \in SchedState, Respects(sched, m), NEW t, Mild(m, t, {}), Become(t)
  PROVE  Respects(sched, sched')
<1>1. sched' = t BY BecomeSched DEF Mild
<1>2. Respects(m, t) BY MildRespects
<1> QED BY <1>1, <1>2, RespectsChain

\* sched_fork: the child has the priority of its policy and nobody waits for it.
LEMMA SchedForkRespects ==
  ASSUME PInv, NEW cpu \in Cpus, NEW child \in Tasks, SchedFork(cpu, child)
  PROVE  Respects(sched, sched')
<1> DEFINE curr   == rq[cpu].curr
           me     == task[curr]
           policy == IF me.reset_on_fork /\ is_rt_policy(me.policy) THEN "normal" ELSE me.policy
           nice   == IF me.reset_on_fork /\ me.nice < 0 THEN 0 ELSE me.nice
           prio   == normal_prio(me.policy, me.rt_priority)
           born   == [me EXCEPT !.state = "new", !.cpu = cpu, !.on_cpu = FALSE, !.sticky = FALSE,
                                !.policy = policy, !.nice = nice, !.reset_on_fork = FALSE,
                                !.prio = prio, !.top_waiter = PRIO_LIMIT, !.parent = curr]
           s      == [sched EXCEPT !.task[child] = born]
           half   == rq[cpu].time_slice \div 2
           a      == [s EXCEPT !.rq[cpu].time_slice = half]
           b      == [a EXCEPT !.task[child].time_slice = half]
           c      == [s EXCEPT !.rq[cpu].time_slice = 0]
           d      == [c EXCEPT !.rq[cpu].need_resched = TRUE]
           t      == CASE born.policy = "fifo" -> s
                       [] born.policy # "fifo" /\ rq[cpu].time_slice >= 2 -> b
                       [] OTHER -> time_slice_expired(d, child)
<1>1. sched \in SchedState /\ sched.task = task /\ sched.rq = rq /\ Placed(sched) BY PFacts
<1>2. curr \in Tasks /\ sched.task[child].state = "none" /\ me.state = "running"
  BY <1>1, AskAssumption DEF SchedFork
<1>3. Become(t) BY DEF SchedFork
<1>4. me \in TaskRec BY <1>1, <1>2, StateParts
<1>5. me.policy \in Policies /\ me.nice \in Nices /\ me.rt_priority \in RtPrios
  BY <1>4, TaskFields
<1>6. policy \in Policies /\ nice \in Nices /\ prio \in QueuePrios
  <2>1. "normal" \in Policies /\ 0 \in Nices BY DeadlineAssumption DEF Policies
  <2> QED BY <1>5, <2>1, NormalPrio
<1>7. Earns(sched) => policy = me.policy
  <2>1. Earns(sched) => ~me.reset_on_fork BY <1>1, <1>2 DEF Earns, Earned
  <2> QED BY <2>1
<1>8. rt_prio(prio) <=> is_rt_policy(me.policy) BY <1>5, NormalIsEarned
<1> HIDE DEF policy, nice, prio, me, curr
<1>9. born \in TaskRec BY <1>2, <1>4, <1>6, BornType
<1>10. /\ born.policy = policy /\ born.reset_on_fork = FALSE /\ born.prio = prio
       /\ born.top_waiter = PRIO_LIMIT
  BY <1>4 DEF TaskRec
<1> HIDE DEF born
<1>11. Boosted(born)
  <2>1. ~rt_prio(PRIO_LIMIT) BY PrioAssumption DEF rt_prio, PRIO_LIMIT
  <2> QED BY <1>10, <2>1 DEF Boosted
<1>12. Earns(sched) => Earned(born) BY <1>7, <1>8, <1>10 DEF Earned
<1>13. \A k \in Cpus : sched.rq[k].curr # child BY <1>1, <1>2 DEF Placed, PlacedTask
<1>14. s \in SchedState /\ Respects(sched, s) BY <1>1, <1>9, <1>11, <1>12, <1>13, WriteRespects
<1> HIDE DEF s
<1>15. half \in 0 .. SLICE /\ 0 \in 0 .. SLICE
  <2>1. sched.rq[cpu].time_slice \in 0 .. SLICE BY <1>1, StateParts, RqFields
  <2>2. rq[cpu].time_slice \in 0 .. SLICE BY <1>1, <2>1
  <2> QED BY <2>2, SliceAssumption
<1> HIDE DEF half
<1>16. \A v \in 0 .. SLICE : Mild(s, [s EXCEPT !.rq[cpu].time_slice = v], {}) BY <1>14, RqMild
<1>17. Mild(s, a, {}) /\ Mild(s, c, {}) BY <1>15, <1>16
<1> HIDE DEF a, c
<1>18. Mild(s, b, {})
  <2>1. a \in SchedState => Mild(a, b, {}) BY <1>15, TaskMild
  <2> QED BY <1>17, <2>1, MildChain
<1>19. Mild(s, d, {})
  <2>1. c \in SchedState => Mild(c, d, {}) BY RqMild
  <2> QED BY <1>17, <2>1, MildChain
<1> HIDE DEF b, d
<1>20. Mild(s, time_slice_expired(d, child), {}) BY <1>19, ExpiredMild, MildChain
<1>21. Mild(s, s, {}) BY <1>14, MildRefl
<1>22. Mild(s, t, {}) BY <1>18, <1>20, <1>21
<1> HIDE DEF t
<1> QED BY <1>3, <1>14, <1>22, BecomeRespects

\* rt_mutex_setprio.
LEMMA RtMutexSetprioRespects ==
  ASSUME PInv, NEW p \in Tasks, NEW waiter \in 0 .. PRIO_LIMIT, RtMutexSetprio(p, waiter)
  PROVE  Respects(sched, sched')
<1> DEFINE a == [task[p] EXCEPT !.top_waiter = waiter]
           getprio == rt_mutex_getprio(a, normal_prio(task[p].policy, task[p].rt_priority))
           r == [a EXCEPT !.prio = getprio]
           setprio(s) == [s EXCEPT !.task[p].top_waiter = waiter, !.task[p].prio = getprio]
<1>1. sched \in SchedState /\ sched.task = task BY PFacts
<1>2. task[p] \in TaskRec BY <1>1, StateParts
<1>3. task[p].cpu \in Cpus /\ task[p].rt_priority \in RtPrios /\ task[p].policy \in Policies
  BY <1>2, TaskFields
<1>4. a \in TaskRec BY <1>2, TaskWrite
<1>5. /\ a.top_waiter = waiter /\ a.prio = task[p].prio /\ a.policy = task[p].policy
      /\ a.reset_on_fork = task[p].reset_on_fork /\ a.allowed = task[p].allowed
  BY <1>2 DEF TaskRec
<1>6. getprio \in QueuePrios
  <2>1. normal_prio(task[p].policy, task[p].rt_priority) \in QueuePrios BY <1>3, NormalPrio
  <2> QED BY <1>5, <2>1, GetPrio
<1>7. /\ \/ getprio = task[p].prio /\ Become([sched EXCEPT !.task[p].top_waiter = waiter])
         \/ \E fit \in BOOLEAN :
              LET s1 == IF task_queued(sched, p)
                        THEN enqueue_task(setprio(dequeue_task(sched, p)), p, fit)
                        ELSE setprio(sched)
                  s2 == IF task[p].on_cpu /\ getprio > task[p].prio
                        THEN resched_cpu(s1, task[p].cpu) ELSE s1
              IN  Become(IF task_queued(sched, p) THEN try_preempt(s2, p, task[p].cpu) ELSE s2)
      /\ task[p].state # "none"
  BY DEF RtMutexSetprio, Requeued
<1>8. Earns(sched) => ~task[p].reset_on_fork BY <1>1, <1>7 DEF Earns, Earned
<1>9. getprio = rt_mutex_getprio(a, normal_prio(task[p].policy, task[p].rt_priority)) OBVIOUS
<1> HIDE DEF getprio
<1>10. \A u \in SchedState : u.task = task => setprio(u) = [u EXCEPT !.task[p] = r]
  <2> SUFFICES ASSUME NEW u \in SchedState, u.task = task
               PROVE  setprio(u) = [u EXCEPT !.task[p] = r]
    OBVIOUS
  <2>1. u.task \in [Tasks -> TaskRec] BY StateParts
  <2> QED BY <2>1 DEF SchedState
<1>11. [sched EXCEPT !.task[p].top_waiter = waiter] = [sched EXCEPT !.task[p] = a] BY <1>1
<1> HIDE DEF a, setprio
<1>12. /\ r \in TaskRec /\ r.top_waiter = waiter /\ r.prio = getprio /\ r.policy = task[p].policy
       /\ r.reset_on_fork = task[p].reset_on_fork /\ r.allowed = task[p].allowed
  <2>1. r \in TaskRec BY <1>4, <1>6, TaskWrite
  <2>2. /\ r.top_waiter = a.top_waiter /\ r.prio = getprio /\ r.policy = a.policy
        /\ r.reset_on_fork = a.reset_on_fork /\ r.allowed = a.allowed
    BY <1>4 DEF TaskRec
  <2> QED BY <1>5, <2>1, <2>2
<1> HIDE DEF r
<1>13. Boosted(r) /\ (Earns(sched) => Earned(r)) BY <1>3, <1>5, <1>8, <1>9, <1>12, GrantedPrio
<1>14. CASE getprio = task[p].prio /\ Become([sched EXCEPT !.task[p].top_waiter = waiter])
  <2> DEFINE t == [sched EXCEPT !.task[p] = a]
  <2>1. a.prio = getprio BY <1>5, <1>14
  <2>2. Boosted(a) /\ (Earns(sched) => Earned(a))
    BY <1>3, <1>4, <1>5, <1>8, <1>9, <2>1, GrantedPrio
  <2>3. t \in SchedState /\ Respects(sched, t) BY <1>1, <1>4, <1>5, <2>2, WriteRespects
  <2>4. Become(t) BY <1>11, <1>14
  <2> HIDE DEF t
  <2> QED BY <2>3, <2>4, BecomeSched
<1>15. ASSUME NEW fit \in BOOLEAN,
             LET s1 == IF task_queued(sched, p)
                       THEN enqueue_task(setprio(dequeue_task(sched, p)), p, fit)
                       ELSE setprio(sched)
                 s2 == IF task[p].on_cpu /\ getprio > task[p].prio
                       THEN resched_cpu(s1, task[p].cpu) ELSE s1
             IN  Become(IF task_queued(sched, p) THEN try_preempt(s2, p, task[p].cpu) ELSE s2)
      PROVE  Respects(sched, sched')
  <2> DEFINE s1 == IF task_queued(sched, p)
                   THEN enqueue_task([dequeue_task(sched, p) EXCEPT !.task[p] = r], p, fit)
                   ELSE [sched EXCEPT !.task[p] = r]
             s2 == IF task[p].on_cpu /\ getprio > task[p].prio
                   THEN resched_cpu(s1, task[p].cpu) ELSE s1
             t  == IF task_queued(sched, p) THEN try_preempt(s2, p, task[p].cpu) ELSE s2
  <2>1. Become(t)
    <3>1. setprio(sched) = [sched EXCEPT !.task[p] = r] BY <1>1, <1>10
    <3>2. setprio(dequeue_task(sched, p)) = [dequeue_task(sched, p) EXCEPT !.task[p] = r]
      <4>1. dequeue_task(sched, p).task = sched.task BY <1>1 DEF dequeue_task, SchedState
      <4>2. dequeue_task(sched, p) \in SchedState BY <1>1, DequeueStep DEF Step
      <4> QED BY <1>1, <1>10, <4>1, <4>2
    <3>3. s1 = IF task_queued(sched, p)
               THEN enqueue_task(setprio(dequeue_task(sched, p)), p, fit) ELSE setprio(sched)
      BY <3>1, <3>2
    <3> QED BY <1>15, <3>3
  <2>2. s1 \in SchedState /\ Respects(sched, s1) BY <1>1, <1>12, <1>13, RequeueRespects
  <2> HIDE DEF s1
  <2>3. Mild(s1, s2, {})
    <3>1. Mild(s1, resched_cpu(s1, task[p].cpu), {}) BY <1>3, <2>2, ReschedMild
    <3>2. Mild(s1, s1, {}) BY <2>2, MildRefl
    <3> QED BY <3>1, <3>2
  <2> HIDE DEF s2
  <2>4. Mild(s1, t, {})
    <3>1. Mild(s1, try_preempt(s2, p, task[p].cpu), {}) BY <1>3, <2>3, TryPreemptMild, MildChain
    <3> QED BY <2>3, <3>1
  <2> HIDE DEF t
  <2> QED BY <2>1, <2>2, <2>4, BecomeRespects
<1> QED BY <1>7, <1>14, <1>15

\* __sched_setscheduler.
LEMMA SchedSetschedulerRespects ==
  ASSUME PInv, NEW p \in Tasks, NEW policy \in Policies, NEW prio \in RtPrios,
         NEW reset \in ResetAsks, SchedSetscheduler(p, policy, prio, reset)
  PROVE  Respects(sched, sched')
<1> DEFINE cpu == task[p].cpu
           new == rt_mutex_getprio(task[p], normal_prio(policy, prio))
           setscheduler(s) ==
             [s EXCEPT !.task[p].policy = policy, !.task[p].rt_priority = prio,
                       !.task[p].prio = new]
<1>1. sched \in SchedState /\ sched.task = task BY PFacts
<1>2. task[p] \in TaskRec BY <1>1, StateParts
<1>3. cpu \in Cpus BY <1>2, TaskFields
<1>4. new \in QueuePrios
  <2>1. task[p].top_waiter \in 0 .. PRIO_LIMIT BY <1>2, TaskFields
  <2> QED BY <2>1, NormalPrio, GetPrio
<1>5. PICK d \in Advances, fit \in BOOLEAN :
        LET s0 == [update_clocks(sched, d) EXCEPT !.task[p].reset_on_fork = reset]
            s1 == Requeued(s0, p, setscheduler, fit)
        IN  Become(CASE task_queued(sched, p) -> try_preempt(s1, p, cpu)
                     [] ~task_queued(sched, p) /\ task[p].on_cpu ->
                          IF new > task[p].prio \/ prio > task[p].rt_priority
                          THEN resched_cpu(reset_rq_task(s1, cpu, p), cpu)
                          ELSE reset_rq_task(s1, cpu, p)
                     [] OTHER -> s1)
  BY Zenon DEF SchedSetscheduler
<1> DEFINE a  == update_clocks(sched, d)
           z  == [a.task[p] EXCEPT !.reset_on_fork = reset]
           s0 == [a EXCEPT !.task[p].reset_on_fork = reset]
           v  == [s0.task[p] EXCEPT !.policy = policy]
           w  == [v EXCEPT !.rt_priority = prio]
           r  == [w EXCEPT !.prio = new]
<1>6. d \in Nat BY DEF Advances
<1>7. a \in SchedState /\ a.task = task /\ Respects(sched, a)
  <2>1. Mild(sched, a, {}) BY <1>1, <1>6, ClocksMild
  <2>2. a.task = task BY <1>1 DEF update_clocks, SchedState
  <2> QED BY <1>1, <2>1, <2>2, MildRespects DEF Mild
<1>8. new = rt_mutex_getprio(task[p], normal_prio(policy, prio)) OBVIOUS
<1> HIDE DEF a, new
<1>9. reset \in BOOLEAN /\ (NoReset => reset = FALSE) BY AskAssumption DEF NoReset
<1>10. s0 = [a EXCEPT !.task[p] = z] OBVIOUS
<1>11. /\ z \in TaskRec /\ z.reset_on_fork = reset /\ z.allowed = a.task[p].allowed
       /\ z.top_waiter = task[p].top_waiter /\ z.prio = task[p].prio
       /\ z.policy = task[p].policy /\ z.state = task[p].state
  <2>1. z \in TaskRec BY <1>2, <1>7, <1>9, TaskWrite
  <2>2. /\ z.reset_on_fork = reset /\ z.allowed = a.task[p].allowed
        /\ z.top_waiter = a.task[p].top_waiter /\ z.prio = a.task[p].prio
        /\ z.policy = a.task[p].policy /\ z.state = a.task[p].state
    BY <1>2, <1>7 DEF TaskRec
  <2> QED BY <1>7, <2>1, <2>2
<1> HIDE DEF z
<1>12. (Boosts(a) => Boosted(z)) /\ (NoReset /\ Earns(a) => Earned(z))
  BY <1>7, <1>9, <1>11 DEF Boosts, Boosted, Earns, Earned
<1>13. s0 \in SchedState /\ s0.task[p] = z /\ Respects(a, s0)
  <2> DEFINE b == [a EXCEPT !.task[p] = z]
  <2>1. z.allowed = a.task[p].allowed BY <1>11
  <2>2. b \in SchedState /\ b.task[p] = z /\ Respects(a, b)
    <3> HIDE DEF b
    <3> QED BY <1>7, <1>11, <1>12, <2>1, WriteRespects DEF b
  <2> QED BY <1>10, <2>2
<1>14. \A u \in SchedState : u.task = s0.task => setscheduler(u) = [u EXCEPT !.task[p] = r]
  <2> HIDE DEF s0
  <2> SUFFICES ASSUME NEW u \in SchedState, u.task = s0.task
               PROVE  setscheduler(u) = [u EXCEPT !.task[p] = r]
    OBVIOUS
  <2>1. u.task \in [Tasks -> TaskRec] BY StateParts
  <2> QED BY <2>1 DEF SchedState
<1>15. /\ r \in TaskRec /\ r.policy = policy /\ r.prio = new /\ r.top_waiter = z.top_waiter
       /\ r.allowed = z.allowed /\ r.reset_on_fork = z.reset_on_fork
  <2> HIDE DEF s0
  <2>1. v \in TaskRec BY <1>11, <1>13, TaskWrite
  <2>2. /\ v.policy = policy /\ v.top_waiter = z.top_waiter /\ v.allowed = z.allowed
        /\ v.reset_on_fork = z.reset_on_fork
    BY <1>11, <1>13 DEF TaskRec
  <2> HIDE DEF v
  <2>3. w \in TaskRec BY <2>1, TaskWrite
  <2>4. /\ w.policy = v.policy /\ w.top_waiter = v.top_waiter /\ w.allowed = v.allowed
        /\ w.reset_on_fork = v.reset_on_fork
    BY <2>1 DEF TaskRec
  <2> HIDE DEF w
  <2>5. r \in TaskRec BY <1>4, <2>3, TaskWrite
  <2>6. /\ r.policy = w.policy /\ r.top_waiter = w.top_waiter /\ r.allowed = w.allowed
        /\ r.reset_on_fork = w.reset_on_fork /\ r.prio = new
    BY <2>3 DEF TaskRec
  <2> HIDE DEF r
  <2> QED BY <2>2, <2>4, <2>5, <2>6
<1> HIDE DEF r
<1>16. Boosted(r) /\ (NoReset /\ Earns(s0) => Earned(r))
  <2>1. Boosted(r) /\ (~r.reset_on_fork => Earned(r)) BY <1>8, <1>11, <1>15, GrantedPrio
  <2> QED BY <1>9, <1>11, <1>15, <2>1
<1> DEFINE s1 == IF task_queued(s0, p)
                 THEN enqueue_task([dequeue_task(s0, p) EXCEPT !.task[p] = r], p, fit)
                 ELSE [s0 EXCEPT !.task[p] = r]
           x  == reset_rq_task(s1, cpu, p)
           t  == CASE task_queued(sched, p) -> try_preempt(s1, p, cpu)
                   [] ~task_queued(sched, p) /\ task[p].on_cpu ->
                        IF new > task[p].prio \/ prio > task[p].rt_priority
                        THEN resched_cpu(x, cpu) ELSE x
                   [] OTHER -> s1
<1>17. Become(t)
  <2>1. setscheduler(s0) = [s0 EXCEPT !.task[p] = r] BY <1>13, <1>14
  <2>2. setscheduler(dequeue_task(s0, p)) = [dequeue_task(s0, p) EXCEPT !.task[p] = r]
    <3> HIDE DEF s0, setscheduler
    <3>1. dequeue_task(s0, p).task = s0.task BY <1>13 DEF dequeue_task, SchedState
    <3>2. dequeue_task(s0, p) \in SchedState BY <1>13, DequeueStep DEF Step
    <3> QED BY <1>14, <3>1, <3>2
  <2>3. s1 = IF task_queued(s0, p)
             THEN enqueue_task(setscheduler(dequeue_task(s0, p)), p, fit) ELSE setscheduler(s0)
    BY <2>1, <2>2
  <2>4. s1 = Requeued(s0, p, setscheduler, fit) BY <2>3 DEF Requeued
  <2> QED BY <1>5, <2>4 DEF new, a
<1> HIDE DEF s0, cpu, setscheduler
<1>18. s1 \in SchedState /\ Respects(s0, s1)
  BY <1>11, <1>13, <1>15, <1>16, RequeueRespects
<1> HIDE DEF s1
<1>19. Respects(sched, s1) BY <1>7, <1>13, <1>18, RespectsChain
<1>20. Mild(s1, try_preempt(s1, p, cpu), {}) BY <1>3, <1>18, TryPreemptMild
<1>21. Mild(s1, x, {}) BY <1>3, <1>18, RqTaskMild
<1> HIDE DEF x
<1>22. Mild(s1, resched_cpu(x, cpu), {}) BY <1>3, <1>21, ReschedMild, MildChain
<1>23. Mild(s1, s1, {}) BY <1>18, MildRefl
<1>24. Mild(s1, t, {}) BY <1>20, <1>21, <1>22, <1>23
<1> HIDE DEF t
<1> QED BY <1>17, <1>18, <1>19, <1>24, BecomeRespects

\* set_cpus_allowed_ptr: a task that runs does so on task_cpu (OnePlace), which is
\* in the new mask or asked to reschedule.
LEMMA SetCpusAllowedRespects ==
  ASSUME PInv, NEW p \in Tasks, NEW mask, mask \in (SUBSET Cpus) \ {{}}, SetCpusAllowed(p, mask)
  PROVE  Respects(sched, sched')
<1> DEFINE cpu   == task[p].cpu
           first == CHOOSE c \in mask : \A e \in mask : c <= e
           s1    == [sched EXCEPT !.task[p].allowed = mask]
           s2    == CASE cpu \in mask -> s1
                      [] cpu \notin mask /\ task[p].on_cpu -> resched_cpu(s1, cpu)
                      [] OTHER -> [s1 EXCEPT !.task[p].cpu = first]
           t     == IF task_queued(sched, p) THEN try_preempt(s2, p, cpu) ELSE s2
           r     == [sched.task[p] EXCEPT !.allowed = mask]
           e     == resched_cpu(sched, cpu)
<1>1. sched \in SchedState /\ sched.task = task /\ Placed(sched) BY PFacts
<1>2. cpu \in Cpus BY <1>1, StateParts, TaskFields
<1>3. first \in Cpus
  <2>1. mask \subseteq Nat /\ mask # {} BY CpuAssumption DEF Cpus
  <2>2. \E c \in mask : \A d \in mask : c <= d BY <2>1, NatMin
  <2> QED BY <2>2
<1>4. Become(t) BY Zenon DEF SetCpusAllowed
<1>5. \A c \in Cpus : sched.rq[c].curr = p => c = cpu /\ task[p].on_cpu
  BY <1>1 DEF Placed, PlacedTask
<1> HIDE DEF cpu, first
<1>6. /\ r \in TaskRec /\ r.allowed = mask /\ r.prio = sched.task[p].prio
      /\ r.policy = sched.task[p].policy /\ r.top_waiter = sched.task[p].top_waiter
      /\ r.state = sched.task[p].state /\ r.reset_on_fork = sched.task[p].reset_on_fork
  <2>1. sched.task[p] \in TaskRec BY <1>1, StateParts
  <2>2. r \in TaskRec BY <2>1, TaskWrite
  <2> QED BY <2>1, <2>2 DEF TaskRec
<1>7. s1 = [sched EXCEPT !.task[p] = r] OBVIOUS
<1>8. resched_cpu(s1, cpu) = [e EXCEPT !.task[p] = r] BY <1>1 DEF resched_cpu, SchedState
<1> HIDE DEF r, s1
<1>9. (Boosts(sched) => Boosted(r)) /\ (Earns(sched) => Earned(r))
  BY <1>6 DEF Boosts, Boosted, Earns, Earned
<1>10. s2 \in SchedState /\ Respects(sched, s2)
  <2>1. ASSUME cpu \in mask \/ ~task[p].on_cpu PROVE s1 \in SchedState /\ Respects(sched, s1)
    <3>1. \A c \in Cpus : sched.rq[c].curr = p => c \in r.allowed BY <1>5, <1>6, <2>1
    <3> QED BY <1>1, <1>6, <1>7, <1>9, <3>1, WriteRespects
  <2>2. CASE cpu \in mask BY <2>1, <2>2
  <2>3. CASE cpu \notin mask /\ task[p].on_cpu
    <3>1. Mild(sched, e, {}) BY <1>1, <1>2, ReschedMild
    <3>2. e \in SchedState /\ Respects(sched, e) BY <1>1, <3>1, MildRespects DEF Mild
    <3>3. /\ e.task = sched.task /\ e.rq[cpu].need_resched
          /\ \A c \in Cpus : e.rq[c].curr = sched.rq[c].curr
      BY <1>1, <1>2 DEF resched_cpu, SchedState, RqRec
    <3> HIDE DEF e
    <3>4. \A c \in Cpus : e.rq[c].curr = p => c \in r.allowed \/ e.rq[c].need_resched
      BY <1>5, <3>3
    <3>5. Boosts(e) = Boosts(sched) /\ Earns(e) = Earns(sched) BY <3>3 DEF Boosts, Earns
    <3>6. /\ [e EXCEPT !.task[p] = r] \in SchedState
          /\ Respects(e, [e EXCEPT !.task[p] = r])
      BY <1>6, <1>9, <3>2, <3>4, <3>5, WriteRespects
    <3>7. s2 = [e EXCEPT !.task[p] = r] BY <1>8, <2>3
    <3> HIDE DEF s2
    <3> QED BY <3>2, <3>6, <3>7, RespectsChain
  <2>4. CASE cpu \notin mask /\ ~task[p].on_cpu
    <3>1. Mild(s1, [s1 EXCEPT !.task[p].cpu = first], {}) BY <1>3, <2>1, <2>4, TaskMild
    <3>2. s2 = [s1 EXCEPT !.task[p].cpu = first] BY <2>4
    <3> HIDE DEF s2
    <3>3. s2 \in SchedState /\ Respects(s1, s2) BY <2>1, <2>4, <3>1, <3>2, MildRespects DEF Mild
    <3> QED BY <2>1, <2>4, <3>3, RespectsChain
  <2> QED BY <2>2, <2>3, <2>4
<1> HIDE DEF s2
<1>11. Mild(s2, t, {})
  <2>1. Mild(s2, try_preempt(s2, p, cpu), {}) BY <1>2, <1>10, TryPreemptMild
  <2>2. Mild(s2, s2, {}) BY <1>10, MildRefl
  <2> QED BY <2>1, <2>2
<1> HIDE DEF t
<1> QED BY <1>4, <1>10, <1>11, BecomeRespects
-----------------------------------------------------------------------------
(***************************************************************************)
(* The theorems.                                                           *)
(***************************************************************************)
\* Every step keeps each of the three: one case per action.
LEMMA NextRespects == ASSUME PInv, [Next]_vars PROVE Respects(sched, sched')
<1>1. sched \in SchedState /\ sched.task = task /\ Placed(sched) BY PFacts
<1>2. ASSUME UNCHANGED <<grq, rq, task>> PROVE Respects(sched, sched')
  <2>1. sched' = sched BY <1>2 DEF sched
  <2> QED BY <2>1 DEF Respects
<1>3. ASSUME NEW cpu \in Cpus, OnCpu(cpu) PROVE Respects(sched, sched')
  <2>1. CASE Schedule(cpu) BY <2>1, ScheduleRespects
  <2>2. CASE \E st \in SleepStates \cup {"running"} : SetCurrentState(cpu, st)
    <3>1. PICK st \in SleepStates \cup {"running"} : SetCurrentState(cpu, st) BY <2>2
    <3>2. st \in TaskStates BY AskAssumption DEF TaskStates
    <3> DEFINE p == rq[cpu].curr
    <3>3. /\ p \in Tasks /\ task' = [task EXCEPT ![p].state = st] /\ UNCHANGED <<grq, rq>>
          /\ task[p].state # "none"
      BY <3>1 DEF SetCurrentState
    <3> HIDE DEF p
    <3> QED BY <1>1, <3>2, <3>3, StateRespects
  <2>3. CASE Exit(cpu)
    <3> DEFINE p == rq[cpu].curr
    <3>1. /\ p \in Tasks /\ task' = [task EXCEPT ![p].state = "dead"] /\ UNCHANGED <<grq, rq>>
          /\ task[p].state # "none" /\ "dead" \in TaskStates
      BY <2>3, AskAssumption DEF Exit, TaskStates
    <3> HIDE DEF p
    <3> QED BY <1>1, <3>1, StateRespects
  <2>4. CASE \E p \in Tasks : SchedFork(cpu, p) BY <2>4, SchedForkRespects
  <2>5. CASE \E p \in Tasks : WakeUpNewTask(cpu, p) BY <2>5, WakeUpNewTaskRespects
  <2>6. CASE \E from \in Cpus, p \in Tasks : YieldTo(cpu, from, p) BY <2>6, YieldToRespects
  <2>7. CASE \E e \in 0 .. 1 : SchedulerTick(cpu, e) BY <2>7, SchedulerTickRespects
  <2>8. CASE IdleTick(cpu) \/ WakeUpIdleCpu(cpu) \/ CpuScaling(cpu) BY <2>8, RestRespects
  <2> QED BY <1>3, <2>1, <2>2, <2>3, <2>4, <2>5, <2>6, <2>7, <2>8 DEF OnCpu
<1>4. ASSUME NEW p \in Tasks, OnTask(p) PROVE Respects(sched, sched')
  <2>1. CASE \E sync \in SyncAsks : TryToWakeUp(p, sync) BY <2>1, TryToWakeUpRespects
  <2>2. CASE \E waiter \in WaiterPrios : RtMutexSetprio(p, waiter)
    <3>1. WaiterPrios \subseteq 0 .. PRIO_LIMIT BY AskAssumption
    <3> QED BY <2>2, <3>1, RtMutexSetprioRespects
  <2>3. CASE \E nice \in NiceAsks : SetUserNice(p, nice)
    <3>1. NiceAsks \subseteq Nices BY AskAssumption
    <3> QED BY <2>3, <3>1, SetUserNiceRespects
  <2>4. CASE \E ask \in PolicyAsks, reset \in ResetAsks : SchedSetscheduler(p, ask[1], ask[2], reset)
    <3>1. PICK ask \in PolicyAsks, reset \in ResetAsks : SchedSetscheduler(p, ask[1], ask[2], reset)
      BY <2>4
    <3>2. ask[1] \in Policies /\ ask[2] \in RtPrios BY AskAssumption
    <3> QED BY <3>1, <3>2, SchedSetschedulerRespects
  <2>5. CASE \E mask \in MaskAsks : SetCpusAllowed(p, mask)
    <3>1. MaskAsks \subseteq (SUBSET Cpus) \ {{}} BY AskAssumption
    <3> QED BY <2>5, <3>1, SetCpusAllowedRespects
  <2> QED BY <1>4, <2>1, <2>2, <2>3, <2>4, <2>5 DEF OnTask
<1>5. CASE \E rate \in RateAsks : WriteGlobalRate(rate) BY <1>2, <1>5 DEF WriteGlobalRate
<1>6. CASE \E ask \in LimitAsks : SearchIdlePid(ask) BY <1>2, <1>6 DEF SearchIdlePid
<1>7. CASE \E w \in inj.writes : UpdateIdlePid(w) BY <1>2, <1>7 DEF UpdateIdlePid
<1>8. CASE UNCHANGED vars BY <1>2, <1>8 DEF vars
<1> QED BY <1>3, <1>4, <1>5, <1>6, <1>7, <1>8 DEF Next

\* A task never stays on a CPU that its affinity excludes without that CPU having
\* been asked to reschedule: set_cpus_allowed_ptr asks it, no handler drops the
\* request, and schedule() neither lets the task go on nor picks one that may not run.
THEOREM AffinityStaysEnforced == Spec => []AffinityEnforced
<1>1. Enforced(sched) <=> AffinityEnforced BY DEF Enforced, AffinityEnforced, sched
<1>2. Init => Enforced(sched)
  <2> SUFFICES ASSUME Init PROVE Enforced(sched) OBVIOUS
  <2>1. \A c \in Cpus : sched.rq[c].curr = Idle BY DEF Init, sched
  <2> QED BY <2>1, TaskAssumption DEF Enforced
<1>3. PInv /\ Enforced(sched) /\ [Next]_vars => Enforced(sched)' BY NextRespects DEF Respects
<1> QED BY <1>1, <1>2, <1>3, AlwaysPInv, PTL DEF Spec

\* A priority inherited from a real time waiter is never lost to anything else that
\* sets p->prio, if none of the initial tasks has lost it.
THEOREM BoostStaysKept ==
  ASSUME \A p \in Tasks : Boosted(InitTask[p])
  PROVE  Spec => []BoostKept
<1>1. Boosts(sched) => BoostKept
  <2>1. sched.task = task BY DEF sched
  <2> QED BY <2>1 DEF Boosts, Boosted, BoostKept, LiveTasks
<1>2. Init => Boosts(sched) BY DEF Init, Boosts, sched
<1>3. PInv /\ Boosts(sched) /\ [Next]_vars => Boosts(sched)' BY NextRespects DEF Respects
<1> QED BY <1>1, <1>2, <1>3, AlwaysPInv, PTL DEF Spec

\* A task never keeps a real time priority that neither its policy nor a waiter
\* gives it, if none of the initial tasks has one and SCHED_RESET_ON_FORK is not
\* asked for: with it the child of a real time task would have one (sched_fork).
THEOREM RtPrioStaysEarned ==
  ASSUME NoReset, \A p \in Tasks : Earned(InitTask[p])
  PROVE  Spec => []RtPrioEarned
<1>1. Earns(sched) => RtPrioEarned
  <2>1. sched.task = task BY DEF sched
  <2> QED BY <2>1 DEF Earns, Earned, RtPrioEarned, LiveTasks
<1>2. Init => Earns(sched) BY DEF Init, Earns, sched
<1>3. PInv /\ Earns(sched) /\ [Next]_vars => Earns(sched)' BY NextRespects DEF Respects
<1> QED BY <1>1, <1>2, <1>3, AlwaysPInv, PTL DEF Spec
=============================================================================
