--------------------------- MODULE BfsSchedProofs ---------------------------
(***************************************************************************)
(* Theorems about the scheduler, for any number of CPUs and tasks, any     *)
(* topology and any choice of what the environment asks for: the types are *)
(* kept, the map of idle CPUs is exact, and the pid list of the idle       *)
(* injection keeps its counts below their limits, whoever writes it.       *)
(*                                                                         *)
(* IInv is the conjunction of the first two: a CPU chosen from the map     *)
(* must be a CPU for the types to be kept, and the map is kept exact only  *)
(* because every handler but schedule() leaves it, and what the CPUs run,  *)
(* alone (relation Step).  The pid list rests on the types, on what the    *)
(* writers that wait for its lock hold (WritesArmed) and on lemma          *)
(* LimitsStep, which says who changes either.                              *)
(***************************************************************************)
EXTENDS BfsSched, BfsQueueProofs

IInv == TypeOK /\ IdleMapExact

\* The idle map of a state is exact.
MapExact(s) ==
  /\ s.grq.cpu_idle_map = {c \in Cpus : s.rq[c].curr = Idle}
  /\ s.grq.idle_cpus <=> s.grq.cpu_idle_map # {}

\* The invariant as a fact about the state the handlers work on.
LEMMA IInvSched == IInv <=> sched \in SchedState /\ inj \in InjRec /\ MapExact(sched)
BY DEF IInv, TypeOK, IdleMapExact, MapExact, sched

\* A handler that ends in a well-typed state with an exact map keeps the invariant.
LEMMA BecomeInv ==
  ASSUME NEW t \in SchedState, MapExact(t), Become(t), inj' \in InjRec
  PROVE  IInv'
<1>1. sched' = t BY DEF Become, sched, SchedState
<1>2. sched' \in SchedState /\ MapExact(sched') BY <1>1
<1> QED BY <1>2 DEF IInv, TypeOK, IdleMapExact, MapExact, sched

\* A Step keeps the map exact.
LEMMA StepExact == ASSUME NEW s, NEW t, MapExact(s), Step(s, t) PROVE MapExact(t)
BY DEF MapExact, Step

\* In particular one that takes a Step.
LEMMA StepInv ==
  ASSUME IInv, NEW t, Step(sched, t), Become(t), UNCHANGED inj
  PROVE  IInv'
<1>1. inj \in InjRec /\ MapExact(sched) BY IInvSched
<1>2. t \in SchedState /\ MapExact(t) BY <1>1, StepExact DEF Step
<1> QED BY <1>1, <1>2, BecomeInv

\* The state a handler computes is the next state.
LEMMA BecomeSched == ASSUME NEW t \in SchedState, Become(t) PROVE sched' = t
BY DEF Become, sched, SchedState

\* A handler that ends in a state quietly reached leaves it quietly.
LEMMA BecomeQuiet ==
  ASSUME NEW t, Quiet(sched, t), Become(t), UNCHANGED inj
  PROVE  Quiet(sched, sched') /\ UNCHANGED inj
BY BecomeSched DEF Quiet, Step

\* A quiet step keeps the invariant.
LEMMA QuietInv == ASSUME IInv, Quiet(sched, sched'), UNCHANGED inj PROVE IInv'
<1>1. Step(sched, sched') BY DEF Quiet
<1>2. Become(sched') BY DEF Become, sched
<1> QED BY <1>1, <1>2, StepInv
-----------------------------------------------------------------------------
(***************************************************************************)
(* The clocks and the rq's copy of the task it runs.                       *)
(***************************************************************************)
\* update_clocks is quiet.
LEMMA ClocksQuiet ==
  ASSUME NEW s \in SchedState, NEW d \in Nat PROVE Quiet(s, update_clocks(s, d))
<1>1. s.grq.niffies \in Nat BY StateParts, GrqFields
<1>2. s.grq.niffies + d \in Nat BY <1>1
<1> QED BY <1>2, GrqQuiet DEF update_clocks

\* So it is a Step.
LEMMA ClocksStep ==
  ASSUME NEW s \in SchedState, NEW d \in Nat PROVE Step(s, update_clocks(s, d))
BY ClocksQuiet DEF Quiet

\* update_cpu_clock is quiet: the slice does not fall below zero.
LEMMA CpuClockQuiet ==
  ASSUME NEW s \in SchedState, NEW cpu \in Cpus, NEW e \in 0 .. 1
  PROVE  Quiet(s, update_cpu_clock(s, cpu, e))
<1> DEFINE v == IF s.rq[cpu].time_slice >= e THEN s.rq[cpu].time_slice - e ELSE 0
<1>1. s.rq[cpu].time_slice \in 0 .. SLICE BY StateParts, RqFields
<1>2. v \in 0 .. SLICE BY <1>1, SliceAssumption
<1> HIDE DEF v
<1>3. Quiet(s, [s EXCEPT !.rq[cpu].time_slice = v]) BY <1>2, RqQuiet
<1> QED BY <1>3, QuietRefl DEF update_cpu_clock, v

\* So it is a Step.
LEMMA CpuClockStep ==
  ASSUME NEW s \in SchedState, NEW cpu \in Cpus, NEW e \in 0 .. 1
  PROVE  Step(s, update_cpu_clock(s, cpu, e))
BY CpuClockQuiet DEF Quiet

\* set_rq_task is quiet.
LEMMA SetRqTaskQuiet ==
  ASSUME NEW s \in SchedState, NEW cpu \in Cpus, NEW p \in Tasks \cup {Idle}
  PROVE  Quiet(s, set_rq_task(s, cpu, p))
<1> DEFINE slice    == IF p = Idle THEN 0 ELSE s.task[p].time_slice
           deadline == IF p = Idle THEN 0 ELSE s.task[p].deadline
           policy   == IF p = Idle THEN "normal" ELSE s.task[p].policy
           prio     == IF p = Idle THEN PRIO_LIMIT ELSE s.task[p].prio
           a == [s EXCEPT !.rq[cpu].time_slice = slice]
           b == [a EXCEPT !.rq[cpu].deadline = deadline]
           c == [b EXCEPT !.rq[cpu].policy = policy]
<1>1. set_rq_task(s, cpu, p) = [c EXCEPT !.rq[cpu].prio = prio] BY ZenonT(30) DEF set_rq_task
<1>2. /\ slice \in 0 .. SLICE /\ deadline \in Nat /\ policy \in Policies
      /\ prio \in 0 .. PRIO_LIMIT
  <2>1. CASE p = Idle BY <2>1, SliceAssumption, PrioAssumption DEF Policies, PRIO_LIMIT
  <2>2. CASE p # Idle
    <3>1. s.task[p] \in TaskRec BY <2>2, StateParts
    <3>2. s.task[p].prio \in 0 .. PRIO_LIMIT
      BY <3>1, TaskFields, PrioAssumption DEF QueuePrios, PRIO_LIMIT
    <3> QED BY <2>2, <3>1, <3>2, TaskFields
  <2> QED BY <2>1, <2>2
<1> HIDE DEF slice, deadline, policy, prio
<1>3. Quiet(s, a) BY <1>2, RqQuiet
<1> HIDE DEF a
<1>4. Quiet(s, b) BY <1>2, <1>3, RqQuiet, QuietChain
<1> HIDE DEF b
<1>5. Quiet(s, c) BY <1>2, <1>4, RqQuiet, QuietChain
<1> HIDE DEF c
<1> QED BY <1>1, <1>2, <1>5, RqQuiet, QuietChain

\* So it is a Step.
LEMMA SetRqTaskStep ==
  ASSUME NEW s \in SchedState, NEW cpu \in Cpus, NEW p \in Tasks \cup {Idle}
  PROVE  Step(s, set_rq_task(s, cpu, p))
BY SetRqTaskQuiet DEF Quiet

\* reset_rq_task is quiet.
LEMMA ResetRqTaskQuiet ==
  ASSUME NEW s \in SchedState, NEW cpu \in Cpus, NEW p \in Tasks
  PROVE  Quiet(s, reset_rq_task(s, cpu, p))
<1> DEFINE policy == s.task[p].policy
           prio   == s.task[p].prio
           a == [s EXCEPT !.rq[cpu].policy = policy]
<1>1. reset_rq_task(s, cpu, p) = [a EXCEPT !.rq[cpu].prio = prio] BY DEF reset_rq_task
<1>2. policy \in Policies /\ prio \in QueuePrios BY StateParts, TaskFields
<1>3. prio \in 0 .. PRIO_LIMIT BY <1>2, PrioAssumption DEF QueuePrios, PRIO_LIMIT
<1> HIDE DEF policy, prio
<1>4. Quiet(s, a) BY <1>2, RqQuiet
<1> HIDE DEF a
<1> QED BY <1>1, <1>3, <1>4, RqQuiet, QuietChain

\* So it is a Step.
LEMMA ResetRqTaskStep ==
  ASSUME NEW s \in SchedState, NEW cpu \in Cpus, NEW p \in Tasks
  PROVE  Step(s, reset_rq_task(s, cpu, p))
BY ResetRqTaskQuiet DEF Quiet
-----------------------------------------------------------------------------
(***************************************************************************)
(* schedule(): the choice of the next task and the switch.                 *)
(***************************************************************************)
\* The scan of the pid list leaves a pid list.
LEMMA ScanLimitsType ==
  ASSUME NEW limits \in Seq(LimitRec), NEW p PROVE ScanLimits(limits, p) \in Seq(LimitRec)
<1> DEFINE stop == {i \in DOMAIN limits : \E h \in Hits(limits, p) : h < i}
           hit(i) == i \in Hits(limits, p) /\ i \notin stop
           times(i) == CASE hit(i) -> 0
                         [] ~hit(i) /\ i \notin stop /\ Limits(limits[i], p) -> limits[i].times + 1
                         [] OTHER -> limits[i].times
           r(i) == [limits[i] EXCEPT !.times = times(i)]
<1>1. DOMAIN limits = 1 .. Len(limits) /\ Len(limits) \in Nat OBVIOUS
<1>2. ScanLimits(limits, p) = [i \in DOMAIN limits |-> r(i)] BY DEF ScanLimits
<1>3. ASSUME NEW i \in DOMAIN limits PROVE r(i) \in LimitRec
  <2>1. limits[i] \in LimitRec OBVIOUS
  <2>2. limits[i].times \in Int BY <2>1 DEF LimitRec
  <2> HIDE DEF hit, stop
  <2>3. times(i) \in Int BY <2>2
  <2> HIDE DEF times
  <2> QED BY <2>1, <2>3 DEF LimitRec
<1> HIDE DEF r
<1> QED BY <1>1, <1>2, <1>3

\* The fields of the injection parameters, and assigning them.
LEMMA InjFields ==
  ASSUME NEW j \in InjRec
  PROVE  /\ j.global_rate \in Int /\ j.offset \in Int /\ j.limits \in Seq(LimitRec)
         /\ \A o \in Int : [j EXCEPT !.offset = o] \in InjRec
         /\ \A o \in Int, l \in Seq(LimitRec) : [j EXCEPT !.offset = o, !.limits = l] \in InjRec
         /\ \A g \in Int, o \in Int : [j EXCEPT !.global_rate = g, !.offset = o] \in InjRec
         /\ j.writes \in SUBSET WriteRec
         /\ \A ws \in SUBSET WriteRec : [j EXCEPT !.writes = ws] \in InjRec
         /\ \A l \in Seq(LimitRec), ws \in SUBSET WriteRec :
              [j EXCEPT !.limits = l, !.writes = ws] \in InjRec
         /\ [j EXCEPT !.oops = TRUE] \in InjRec
BY DEF InjRec

\* schedule() chooses a task or idle, and the parameters keep their types.
LEMMA ChooseType ==
  ASSUME NEW s \in SchedState, NEW j \in InjRec, NEW cpu \in Cpus
  PROVE  Choose(s, j, cpu).next \in Tasks \cup {Idle} /\ Choose(s, j, cpu).inj \in InjRec
<1> DEFINE offset  == NextOffset(j)
           edt     == EarliestDeadline(s, cpu)
           scanned == ScanLimits(j.limits, edt)
           other   == IF Hits(j.limits, edt) # {} THEN Idle ELSE edt
<1>1. edt \in Tasks \cup {Idle} BY EarliestDeadlineType
<1>2. offset \in Int
  <2>1. j.offset \in Int BY InjFields
  <2>2. MaxOffset \in Nat BY InjAssumption
  <2> QED BY <2>1, <2>2 DEF NextOffset
<1>3. scanned \in Seq(LimitRec) BY InjFields, ScanLimitsType
<1>4. Choose(s, j, cpu) =
        CASE s.grq.qnr = 0 \/ offset = j.global_rate ->
               [next |-> Idle, inj |-> [j EXCEPT !.offset = 0]]
          [] Scans(s, j, cpu) ->
               [next |-> other, inj |-> [j EXCEPT !.offset = offset, !.limits = scanned]]
          [] OTHER -> [next |-> edt, inj |-> [j EXCEPT !.offset = offset]]
  BY DEF Choose
<1>5. other \in Tasks \cup {Idle} BY <1>1
<1> HIDE DEF offset, edt, scanned, other
<1>6. [j EXCEPT !.offset = 0] \in InjRec
  <2>1. \A o \in Int : [j EXCEPT !.offset = o] \in InjRec BY InjFields
  <2> QED BY <2>1
<1>7. [j EXCEPT !.offset = offset] \in InjRec BY <1>2, InjFields
<1>8. [j EXCEPT !.offset = offset, !.limits = scanned] \in InjRec BY <1>2, <1>3, InjFields
<1> QED BY <1>1, <1>4, <1>5, <1>6, <1>7, <1>8

\* Writing the idle map, and what a CPU runs, keeps the types.
LEMMA IdleMapType ==
  ASSUME NEW s \in SchedState, NEW map \in SUBSET Cpus, NEW any \in BOOLEAN
  PROVE  [s EXCEPT !.grq.cpu_idle_map = map, !.grq.idle_cpus = any] \in SchedState
<1>1. s.grq \in GrqRec BY StateParts
<1>2. [s.grq EXCEPT !.cpu_idle_map = map] \in GrqRec BY <1>1, GrqWrite
<1>3. [[s.grq EXCEPT !.cpu_idle_map = map] EXCEPT !.idle_cpus = any] \in GrqRec BY <1>2, GrqWrite
<1>4. \A g \in GrqRec : [s EXCEPT !.grq = g] \in SchedState BY DEF SchedState
<1>5. [s EXCEPT !.grq = [[s.grq EXCEPT !.cpu_idle_map = map] EXCEPT !.idle_cpus = any]] \in SchedState
  BY <1>3, <1>4
<1> QED BY <1>5, ZenonT(30) DEF SchedState

\* Making a CPU run a task or idle keeps the types.
LEMMA CurrType ==
  ASSUME NEW s \in SchedState, NEW cpu \in Cpus, NEW p \in Tasks \cup {Idle}
  PROVE  [s EXCEPT !.rq[cpu].curr = p] \in SchedState
<1>1. s.rq[cpu] \in RqRec BY StateParts
<1>2. [s.rq[cpu] EXCEPT !.curr = p] \in RqRec BY <1>1, RqWrite
<1> QED BY <1>2 DEF SchedState

\* The first part of the switch: cpu enters or leaves the map, which is then exact
\* for what the CPUs are about to run.
LEMMA MapStep ==
  ASSUME NEW s \in SchedState, MapExact(s), NEW cpu \in Cpus, NEW next \in Tasks \cup {Idle}
  PROVE  LET s1 == IF next = Idle THEN set_cpuidle_map(s, cpu)
                   ELSE clear_cpuidle_map(take_task(s, cpu, next), cpu)
         IN  /\ s1 \in SchedState
             /\ s1.grq.cpu_idle_map = {c \in Cpus : IF c = cpu THEN next = Idle ELSE s.rq[c].curr = Idle}
             /\ s1.grq.idle_cpus <=> s1.grq.cpu_idle_map # {}
             /\ \A c \in Cpus : s1.rq[c].curr = s.rq[c].curr
<1>1. CASE next = Idle
  <2> DEFINE map == s.grq.cpu_idle_map \cup {cpu}
             t   == [s EXCEPT !.grq.cpu_idle_map = map, !.grq.idle_cpus = TRUE]
  <2>1. set_cpuidle_map(s, cpu) = t BY DEF set_cpuidle_map
  <2>2. map \in SUBSET Cpus BY DEF MapExact
  <2>3. t \in SchedState BY <2>2, IdleMapType
  <2>4. t.grq.cpu_idle_map = map /\ t.grq.idle_cpus = TRUE /\ t.rq = s.rq BY DEF SchedState, GrqRec
  <2>5. map = {c \in Cpus : IF c = cpu THEN next = Idle ELSE s.rq[c].curr = Idle}
    BY <1>1 DEF MapExact
  <2>6. map # {} OBVIOUS
  <2> HIDE DEF t, map
  <2> QED BY <1>1, <2>1, <2>3, <2>4, <2>5, <2>6
<1>2. CASE next # Idle
  <2> DEFINE u   == take_task(s, cpu, next)
             map == u.grq.cpu_idle_map \ {cpu}
             any == IF map = {} THEN FALSE ELSE u.grq.idle_cpus
             t   == [u EXCEPT !.grq.cpu_idle_map = map, !.grq.idle_cpus = any]
  <2>1. Step(s, u) BY <1>2, TakeStep
  <2>2. u \in SchedState /\ \A c \in Cpus : u.rq[c].curr = s.rq[c].curr BY <2>1 DEF Step
  <2>3. MapExact(u) BY <2>1, StepExact
  <2> HIDE DEF u
  <2>4. clear_cpuidle_map(u, cpu) = t BY DEF clear_cpuidle_map
  <2>5. map \in SUBSET Cpus BY <2>3 DEF MapExact
  <2>6. u.grq.idle_cpus \in BOOLEAN BY <2>2, StateParts, GrqFields
  <2>7. any \in BOOLEAN BY <2>6
  <2>8. any <=> map # {} BY <2>3, <2>6 DEF MapExact
  <2>9. map = {c \in Cpus : IF c = cpu THEN next = Idle ELSE s.rq[c].curr = Idle}
    BY <1>2, <2>2, <2>3 DEF MapExact
  <2> HIDE DEF map, any
  <2>10. t \in SchedState BY <2>2, <2>5, <2>7, IdleMapType
  <2>11. t.grq.cpu_idle_map = map /\ t.grq.idle_cpus = any /\ t.rq = u.rq
    BY <2>2 DEF SchedState, GrqRec
  <2>12. (IF next = Idle THEN set_cpuidle_map(s, cpu) ELSE clear_cpuidle_map(u, cpu)) = t
    BY <1>2, <2>4
  <2> HIDE DEF t
  <2> QED BY <2>2, <2>8, <2>9, <2>10, <2>11, <2>12 DEF u
<1> QED BY <1>1, <1>2

\* The whole switch keeps the types and the map exact.
LEMMA SwitchExact ==
  ASSUME NEW s \in SchedState, MapExact(s), NEW cpu \in Cpus,
         NEW prev \in Tasks \cup {Idle}, NEW next \in Tasks \cup {Idle},
         prev = s.rq[cpu].curr
  PROVE  SwitchTo(s, cpu, prev, next) \in SchedState /\ MapExact(SwitchTo(s, cpu, prev, next))
<1> DEFINE s1 == IF next = Idle THEN set_cpuidle_map(s, cpu)
                 ELSE clear_cpuidle_map(take_task(s, cpu, next), cpu)
           u  == [s1 EXCEPT !.rq[cpu].sticky_task = NoTask]
           s2 == IF next # Idle /\ rt_prio(s1.task[next].prio)
                 THEN IF prev = Idle THEN u ELSE clear_sticky(u, prev)
                 ELSE s1
           s3 == IF prev = Idle THEN s2 ELSE [s2 EXCEPT !.task[prev].on_cpu = FALSE]
           s4 == IF next = Idle THEN s3 ELSE [s3 EXCEPT !.task[next].on_cpu = TRUE]
           s5 == set_rq_task(s4, cpu, next)
           t  == [s5 EXCEPT !.rq[cpu].curr = next]
<1>1. SwitchTo(s, cpu, prev, next) = IF prev = next THEN s1 ELSE t BY DEF SwitchTo
<1>2. /\ s1 \in SchedState
      /\ s1.grq.cpu_idle_map = {c \in Cpus : IF c = cpu THEN next = Idle ELSE s.rq[c].curr = Idle}
      /\ s1.grq.idle_cpus <=> s1.grq.cpu_idle_map # {}
      /\ \A c \in Cpus : s1.rq[c].curr = s.rq[c].curr
  BY MapStep
<1> HIDE DEF s1
<1>3. Step(s1, u) BY <1>2, RqAssign
<1> HIDE DEF u
<1>4. Step(s1, s2)
  <2>1. Step(s1, s1) BY <1>2, StepRefl
  <2>2. prev # Idle => Step(s1, clear_sticky(u, prev)) BY <1>3, ClearStickyStep, Chain
  <2> QED BY <1>3, <2>1, <2>2
<1> HIDE DEF s2
<1>5. Step(s1, s3)
  <2>1. CASE prev = Idle BY <1>4, <2>1
  <2>2. CASE prev # Idle
    <3>1. prev \in Tasks BY <2>2
    <3>2. s2 \in SchedState => Step(s2, [s2 EXCEPT !.task[prev].on_cpu = FALSE])
      BY <3>1, TaskAssign
    <3>3. Step(s1, [s2 EXCEPT !.task[prev].on_cpu = FALSE]) BY <1>4, <3>2, Chain
    <3> QED BY <2>2, <3>3
  <2> QED BY <2>1, <2>2
<1> HIDE DEF s3
<1>6. Step(s1, s4)
  <2>1. CASE next = Idle BY <1>5, <2>1
  <2>2. CASE next # Idle
    <3>1. Step(s1, [s3 EXCEPT !.task[next].on_cpu = TRUE]) BY <1>5, <2>2, TaskAssign, Chain
    <3> QED BY <2>2, <3>1
  <2> QED BY <2>1, <2>2
<1> HIDE DEF s4
<1>7. Step(s1, s5) BY <1>6, SetRqTaskStep, Chain
<1> HIDE DEF s5
<1>8. CASE prev = next
  <2>1. \A c \in Cpus : (IF c = cpu THEN next = Idle ELSE s.rq[c].curr = Idle)
                            <=> s1.rq[c].curr = Idle
    BY <1>2, <1>8
  <2>2. s1.grq.cpu_idle_map = {c \in Cpus : s1.rq[c].curr = Idle} BY <1>2, <2>1
  <2>3. MapExact(s1) BY <1>2, <2>2 DEF MapExact
  <2> QED BY <1>1, <1>2, <1>8, <2>3
<1>9. CASE prev # next
  <2>1. s5 \in SchedState BY <1>7 DEF Step
  <2>2. t \in SchedState BY <2>1, CurrType
  <2>3. t.grq = s5.grq /\ \A c \in Cpus : t.rq[c].curr = IF c = cpu THEN next ELSE s5.rq[c].curr
    BY <2>1 DEF SchedState, RqRec
  <2>4. /\ s5.grq.cpu_idle_map = s1.grq.cpu_idle_map
        /\ s5.grq.idle_cpus = s1.grq.idle_cpus
        /\ \A c \in Cpus : s5.rq[c].curr = s.rq[c].curr
    BY <1>2, <1>7 DEF Step
  <2> HIDE DEF t
  <2>5. t.grq.cpu_idle_map = {c \in Cpus : t.rq[c].curr = Idle} BY <1>2, <2>3, <2>4
  <2>6. t.grq.idle_cpus <=> t.grq.cpu_idle_map # {} BY <1>2, <2>3, <2>4
  <2> QED BY <1>1, <1>9, <2>2, <2>5, <2>6 DEF MapExact
<1> QED BY <1>8, <1>9

\* From a state r reached by Steps, choosing and switching keeps the invariant.
LEMMA PickInv ==
  ASSUME IInv, NEW r, Step(sched, r), NEW cpu \in Cpus, NEW prev, prev = rq[cpu].curr,
         PickAndSwitch(r, cpu, prev)
  PROVE  IInv'
<1> DEFINE pick == Choose(r, inj, cpu)
           t    == SwitchTo(r, cpu, prev, pick.next)
<1>1. sched \in SchedState /\ inj \in InjRec /\ MapExact(sched) BY IInvSched
<1>2. r \in SchedState /\ MapExact(r) BY <1>1, StepExact DEF Step
<1>3. Become(t) /\ inj' = pick.inj BY DEF PickAndSwitch
<1>4. pick.next \in Tasks \cup {Idle} /\ pick.inj \in InjRec BY <1>1, <1>2, ChooseType
<1>5. prev = r.rq[cpu].curr BY DEF Step, sched
<1>6. prev \in Tasks \cup {Idle} BY <1>2, <1>5, StateParts, RqFields
<1> HIDE DEF pick
<1>7. t \in SchedState /\ MapExact(t) BY <1>2, <1>4, <1>5, <1>6, SwitchExact
<1> HIDE DEF t
<1> QED BY <1>3, <1>4, <1>7, BecomeInv

\* What schedule() stores back into the task it takes off the CPU is quiet.
LEMMA StoreBackQuiet ==
  ASSUME NEW s \in SchedState, NEW cpu \in Cpus, NEW prev \in Tasks
  PROVE  Quiet(s, StoreBack(s, cpu, prev))
<1> DEFINE slice == s.rq[cpu].time_slice
           dl    == s.rq[cpu].deadline
           a == [s EXCEPT !.task[prev].time_slice = slice]
           b == [a EXCEPT !.task[prev].deadline = dl]
           c == [b EXCEPT !.rq[cpu].need_resched = FALSE]
<1>1. StoreBack(s, cpu, prev) = check_deadline(c, prev) BY DEF StoreBack
<1>2. slice \in 0 .. SLICE /\ dl \in Nat BY StateParts, RqFields
<1> HIDE DEF slice, dl
<1>3. Quiet(s, a) BY <1>2, TaskQuiet
<1> HIDE DEF a
<1>4. Quiet(s, b) BY <1>2, <1>3, TaskQuiet, QuietChain
<1> HIDE DEF b
<1>5. Quiet(s, c) BY <1>4, RqQuiet, QuietChain
<1> HIDE DEF c
<1> QED BY <1>1, <1>5, CheckDeadlineQuiet, QuietChain

\* So it is a Step.
LEMMA StoreBackStep ==
  ASSUME NEW s \in SchedState, NEW cpu \in Cpus, NEW prev \in Tasks
  PROVE  Step(s, StoreBack(s, cpu, prev))
BY StoreBackQuiet DEF Quiet

\* Giving prev back to the queue, or putting it to sleep, is a Step.
LEMMA GiveBackStep ==
  ASSUME NEW s \in SchedState, NEW cpu \in Cpus, NEW prev \in Tasks,
         NEW deactivate \in BOOLEAN, NEW fit
  PROVE  Step(s, GiveBack(s, cpu, prev, deactivate, fit))
<1> DEFINE s1 == CASE needs_other_cpu(s, prev, cpu) -> resched_suitable_idle(s, prev)
                   [] ~needs_other_cpu(s, prev, cpu) /\ ~deactivate -> swap_sticky(s, cpu, prev)
                   [] OTHER -> s
<1>1. Step(s, s1)
  <2>1. Step(s, resched_suitable_idle(s, prev)) BY SuitableIdleStep
  <2>2. Step(s, swap_sticky(s, cpu, prev)) BY SwapStickyStep
  <2>3. Step(s, s) BY StepRefl
  <2> QED BY <2>1, <2>2, <2>3
<1>2. GiveBack(s, cpu, prev, deactivate, fit) = return_task(s1, prev, deactivate, fit)
  BY DEF GiveBack
<1> HIDE DEF s1
<1> QED BY <1>1, <1>2, ReturnStep, Chain

\* Dropping a dead task is a Step.
LEMMA BuryStep ==
  ASSUME NEW s \in SchedState, NEW p \in Tasks PROVE Step(s, Bury(s, p))
<1> DEFINE a == [s EXCEPT !.task[p].state = "none"]
           b == [a EXCEPT !.task[p].deadline = 0]
           c == [b EXCEPT !.task[p].time_slice = 0]
<1>1. Bury(s, p) = IF s.task[p].state = "dead" THEN c ELSE s BY DEF Bury
<1>2. "none" \in TaskStates /\ 0 \in Nat /\ 0 \in 0 .. SLICE BY SliceAssumption DEF TaskStates
<1>3. Step(s, a) BY <1>2, TaskAssign
<1> HIDE DEF a
<1>4. Step(s, b) BY <1>2, <1>3, TaskAssign, Chain
<1> HIDE DEF b
<1>5. Step(s, c)
  <2>1. b \in SchedState => Step(b, c) BY <1>2, TaskAssign
  <2> HIDE DEF c
  <2> QED BY <1>4, <2>1, Chain
<1> HIDE DEF c
<1> QED BY <1>1, <1>5, StepRefl

\* Every way into schedule() from a task.
LEMMA ScheduleTaskInv ==
  ASSUME IInv, NEW cpu \in Cpus, rq[cpu].curr \in Tasks, NEW deactivate \in BOOLEAN,
         NEW s0, Step(sched, s0), ScheduleTask(cpu, deactivate, s0)
  PROVE  IInv'
<1> DEFINE prev == rq[cpu].curr
<1>1. PICK d \in Advances, e \in 0 .. 1, fit \in BOOLEAN :
        LET s == StoreBack(update_cpu_clock(update_clocks(s0, d), cpu, e), cpu, prev)
        IN  IF Rerun(s, cpu, prev, deactivate)
            THEN Become(s) /\ UNCHANGED inj
            ELSE PickAndSwitch(Bury(GiveBack(s, cpu, prev, deactivate, fit), prev), cpu, prev)
  BY DEF ScheduleTask
<1> DEFINE a == update_clocks(s0, d)
           b == update_cpu_clock(a, cpu, e)
           s == StoreBack(b, cpu, prev)
           g == GiveBack(s, cpu, prev, deactivate, fit)
           r == Bury(g, prev)
<1>2. d \in Nat BY DEF Advances
<1>3. prev \in Tasks OBVIOUS
<1>4. \/ Become(s) /\ UNCHANGED inj
      \/ PickAndSwitch(r, cpu, prev)
  BY <1>1
<1>5. prev = rq[cpu].curr OBVIOUS
<1> HIDE DEF prev
<1>6. Step(sched, a) BY <1>2, ClocksStep, Chain
<1> HIDE DEF a
<1>7. Step(sched, b) BY <1>6, CpuClockStep, Chain
<1> HIDE DEF b
<1>8. Step(sched, s) BY <1>3, <1>7, StoreBackStep, Chain
<1> HIDE DEF s
<1>9. Step(sched, g) BY <1>3, <1>8, GiveBackStep, Chain
<1> HIDE DEF g
<1>10. Step(sched, r) BY <1>3, <1>9, BuryStep, Chain
<1> HIDE DEF r
<1>11. CASE Become(s) /\ UNCHANGED inj BY <1>8, <1>11, StepInv
<1>12. CASE PickAndSwitch(r, cpu, prev) BY <1>5, <1>10, <1>12, PickInv
<1> QED BY <1>4, <1>11, <1>12

\* schedule() keeps the invariant, whoever calls it.
LEMMA ScheduleInv == ASSUME IInv, NEW cpu \in Cpus, Schedule(cpu) PROVE IInv'
<1>1. sched \in SchedState /\ Step(sched, sched) BY IInvSched, StepRefl
<1>2. CASE ScheduleFromIdle(cpu)
  <2>1. PICK d \in Advances :
          PickAndSwitch([update_clocks(sched, d) EXCEPT !.rq[cpu].need_resched = FALSE], cpu, Idle)
    BY <1>2 DEF ScheduleFromIdle
  <2> DEFINE a == update_clocks(sched, d)
             r == [a EXCEPT !.rq[cpu].need_resched = FALSE]
  <2>2. d \in Nat BY DEF Advances
  <2>3. Step(sched, a) BY <1>1, <2>2, ClocksStep
  <2>4. PickAndSwitch(r, cpu, Idle) BY <2>1
  <2> HIDE DEF a
  <2>5. Step(sched, r) BY <2>3, RqAssign, Chain
  <2> HIDE DEF r
  <2>6. Idle = rq[cpu].curr BY <1>2 DEF ScheduleFromIdle
  <2> QED BY <2>4, <2>5, <2>6, PickInv
<1>3. CASE SchedulePreempt(cpu) BY <1>1, <1>3, ScheduleTaskInv DEF SchedulePreempt
<1>4. CASE ScheduleYield(cpu) BY <1>1, <1>4, ScheduleTaskInv DEF ScheduleYield
<1>5. CASE ScheduleSignalPending(cpu)
  <2> DEFINE s0 == [sched EXCEPT !.task[rq[cpu].curr].state = "running"]
  <2>1. rq[cpu].curr \in Tasks BY <1>5 DEF ScheduleSignalPending
  <2>2. Step(sched, s0) BY <1>1, <2>1, TaskAssign DEF TaskStates
  <2>3. ScheduleTask(cpu, FALSE, s0) BY <1>5 DEF ScheduleSignalPending
  <2> HIDE DEF s0
  <2> QED BY <2>1, <2>2, <2>3, ScheduleTaskInv
<1>6. CASE ScheduleSleep(cpu) BY <1>1, <1>6, ScheduleTaskInv DEF ScheduleSleep
<1>7. CASE ScheduleExit(cpu) BY <1>1, <1>7, ScheduleTaskInv DEF ScheduleExit
<1> QED BY <1>2, <1>3, <1>4, <1>5, <1>6, <1>7 DEF Schedule
-----------------------------------------------------------------------------
(***************************************************************************)
(* Sleeping, waking, forking and exiting.                                  *)
(***************************************************************************)

\* set_current_state keeps the invariant.
LEMMA SetCurrentStateInv ==
  ASSUME IInv, NEW cpu \in Cpus, NEW st \in TaskStates, SetCurrentState(cpu, st)
  PROVE  IInv'
<1> DEFINE p == rq[cpu].curr
           t == [sched EXCEPT !.task[p].state = st]
<1>1. p \in Tasks /\ task' = [task EXCEPT ![p].state = st] /\ UNCHANGED <<grq, rq, inj>>
  BY DEF SetCurrentState
<1>2. Become(t) BY <1>1 DEF Become, sched
<1> HIDE DEF p
<1>3. Step(sched, t) BY <1>1, IInvSched, TaskAssign
<1> HIDE DEF t
<1> QED BY <1>1, <1>2, <1>3, StepInv

\* do_exit keeps the invariant.
LEMMA ExitInv == ASSUME IInv, NEW cpu \in Cpus, Exit(cpu) PROVE IInv'
<1> DEFINE p == rq[cpu].curr
           t == [sched EXCEPT !.task[p].state = "dead"]
<1>1. p \in Tasks /\ task' = [task EXCEPT ![p].state = "dead"] /\ UNCHANGED <<grq, rq, inj>>
  BY AskAssumption DEF Exit
<1>2. Become(t) BY <1>1 DEF Become, sched
<1>3. "dead" \in TaskStates BY DEF TaskStates
<1> HIDE DEF p
<1>4. Step(sched, t) BY <1>1, <1>3, IInvSched, TaskAssign
<1> HIDE DEF t
<1> QED BY <1>1, <1>2, <1>4, StepInv

\* try_to_wake_up keeps the invariant.
LEMMA TryToWakeUpInv ==
  ASSUME IInv, NEW p \in Tasks, NEW sync, TryToWakeUp(p, sync)
  PROVE  IInv'
<1>1. sched \in SchedState BY IInvSched
<1>2. "running" \in TaskStates BY DEF TaskStates
<1>3. UNCHANGED inj BY DEF TryToWakeUp
<1>4. CASE Become([sched EXCEPT !.task[p].state = "running"])
  <2>1. Step(sched, [sched EXCEPT !.task[p].state = "running"]) BY <1>1, <1>2, TaskAssign
  <2> QED BY <1>3, <1>4, <2>1, StepInv
<1>5. ASSUME NEW d \in Advances, NEW fit \in BOOLEAN,
             LET s1 == activate_task(update_clocks(sched, d), p, fit)
                 s2 == IF ~sync \/ suitable_idle_cpus(s1, p)
                       THEN try_preempt(s1, p, task[p].cpu) ELSE s1
             IN  Become([s2 EXCEPT !.task[p].state = "running"])
      PROVE  IInv'
  <2> DEFINE s0 == update_clocks(sched, d)
             s1 == activate_task(s0, p, fit)
             s2 == IF ~sync \/ suitable_idle_cpus(s1, p)
                   THEN try_preempt(s1, p, task[p].cpu) ELSE s1
             t  == [s2 EXCEPT !.task[p].state = "running"]
  <2>1. Become(t) BY <1>5
  <2>2. d \in Nat BY DEF Advances
  <2>3. task[p].cpu \in Cpus
    <3>1. sched.task[p].cpu \in Cpus BY <1>1, StateParts, TaskFields
    <3> QED BY <3>1 DEF sched
  <2>4. Step(sched, s0) BY <1>1, <2>2, ClocksStep
  <2> HIDE DEF s0
  <2>5. Step(sched, s1) BY <2>4, ActivateStep, Chain
  <2> HIDE DEF s1
  <2>6. Step(sched, try_preempt(s1, p, task[p].cpu)) BY <2>3, <2>5, TryPreemptStep, Chain
  <2>7. Step(sched, s2) BY <2>5, <2>6
  <2> HIDE DEF s2
  <2>8. Step(sched, t) BY <1>2, <2>7, TaskAssign, Chain
  <2> HIDE DEF t
  <2> QED BY <1>3, <2>1, <2>8, StepInv
<1> QED BY <1>4, <1>5 DEF TryToWakeUp

\* What sched_fork makes of a copy of the parent is a task.
LEMMA BornType ==
  ASSUME NEW me \in TaskRec, NEW cpu \in Cpus, NEW curr \in Tasks, NEW policy \in Policies,
         NEW nice \in Nices, NEW prio \in QueuePrios
  PROVE  [me EXCEPT !.state = "new", !.cpu = cpu, !.on_cpu = FALSE, !.sticky = FALSE,
                    !.policy = policy, !.nice = nice, !.reset_on_fork = FALSE,
                    !.prio = prio, !.top_waiter = PRIO_LIMIT, !.parent = curr] \in TaskRec
<1>1. "new" \in TaskStates /\ PRIO_LIMIT \in 0 .. PRIO_LIMIT
  BY PrioAssumption DEF TaskStates, PRIO_LIMIT
<1> DEFINE a == [me EXCEPT !.state = "new"]
           b == [a EXCEPT !.cpu = cpu]
           c == [b EXCEPT !.on_cpu = FALSE]
           d == [c EXCEPT !.sticky = FALSE]
           e == [d EXCEPT !.policy = policy]
           f == [e EXCEPT !.nice = nice]
           g == [f EXCEPT !.reset_on_fork = FALSE]
           h == [g EXCEPT !.prio = prio]
           i == [h EXCEPT !.top_waiter = PRIO_LIMIT]
           j == [i EXCEPT !.parent = curr]
<1>2. a \in TaskRec BY <1>1, TaskWrite
<1>3. b \in TaskRec BY <1>2, TaskWrite
<1>4. c \in TaskRec BY <1>3, TaskWrite
<1>5. d \in TaskRec BY <1>4, TaskWrite
<1>6. e \in TaskRec BY <1>5, TaskWrite
<1>7. f \in TaskRec BY <1>6, TaskWrite
<1>8. g \in TaskRec BY <1>7, TaskWrite
<1>9. h \in TaskRec BY <1>8, TaskWrite
<1>10. i \in TaskRec BY <1>1, <1>9, TaskWrite
<1>11. j \in TaskRec BY <1>10, TaskWrite
<1> QED BY <1>11

\* sched_fork keeps the invariant.
LEMMA SchedForkInv ==
  ASSUME IInv, NEW cpu \in Cpus, NEW child \in Tasks, SchedFork(cpu, child)
  PROVE  IInv'
<1> DEFINE curr   == rq[cpu].curr
           me     == task[curr]
           policy == IF me.reset_on_fork /\ is_rt_policy(me.policy) THEN "normal" ELSE me.policy
           nice   == IF me.reset_on_fork /\ me.nice < 0 THEN 0 ELSE me.nice
           prio   == normal_prio(me.policy, me.rt_priority)
           born   == [me EXCEPT !.state = "new", !.cpu = cpu, !.on_cpu = FALSE, !.sticky = FALSE,
                                !.policy = policy, !.nice = nice, !.reset_on_fork = FALSE,
                                !.prio = prio, !.top_waiter = PRIO_LIMIT, !.parent = curr]
           s      == [sched EXCEPT !.task[child] = born]
           half   == rq[cpu].time_slice \div 2
           a      == [s EXCEPT !.rq[cpu].time_slice = half]
           b      == [a EXCEPT !.task[child].time_slice = half]
           c      == [s EXCEPT !.rq[cpu].time_slice = 0]
           d      == [c EXCEPT !.rq[cpu].need_resched = TRUE]
           t      == CASE born.policy = "fifo" -> s
                       [] born.policy # "fifo" /\ rq[cpu].time_slice >= 2 -> b
                       [] OTHER -> time_slice_expired(d, child)
<1>1. sched \in SchedState BY IInvSched
<1>2. curr \in Tasks BY AskAssumption DEF SchedFork
<1>3. Become(t) /\ UNCHANGED inj BY DEF SchedFork
<1>4. me \in TaskRec
  <2>1. sched.task[curr] \in TaskRec BY <1>1, <1>2, StateParts
  <2> QED BY <2>1 DEF sched
<1>5. policy \in Policies /\ nice \in Nices /\ prio \in QueuePrios
  <2>1. me.policy \in Policies /\ me.nice \in Nices /\ me.rt_priority \in RtPrios
    BY <1>4, TaskFields
  <2>2. "normal" \in Policies /\ 0 \in Nices BY DeadlineAssumption DEF Policies
  <2> QED BY <2>1, <2>2, NormalPrio
<1> HIDE DEF policy, nice, prio, me, curr
<1>6. born \in TaskRec BY <1>2, <1>4, <1>5, BornType
<1> HIDE DEF born
<1>7. Step(sched, s) BY <1>1, <1>6, TaskStep
<1> HIDE DEF s
<1>8. half \in 0 .. SLICE
  <2>1. sched.rq[cpu].time_slice \in 0 .. SLICE BY <1>1, StateParts, RqFields
  <2>2. rq[cpu].time_slice \in 0 .. SLICE BY <2>1 DEF sched
  <2> QED BY <2>2, SliceAssumption
<1>9. 0 \in 0 .. SLICE BY SliceAssumption
<1> HIDE DEF half
<1>10. Step(sched, a) BY <1>7, <1>8, RqAssign, Chain
<1>11. Step(sched, c)
  <2>1. s \in SchedState => Step(s, c) BY <1>9, RqAssign
  <2> QED BY <1>7, <2>1, Chain
<1> HIDE DEF a, c
<1>12. Step(sched, b) BY <1>8, <1>10, TaskAssign, Chain
<1>13. Step(sched, d)
  <2>1. c \in SchedState => Step(c, d) BY RqAssign
  <2> QED BY <1>11, <2>1, Chain
<1> HIDE DEF b, d
<1>14. Step(sched, time_slice_expired(d, child)) BY <1>13, ExpiredStep, Chain
<1>15. Step(sched, t) BY <1>7, <1>12, <1>14
<1> HIDE DEF t
<1> QED BY <1>3, <1>15, StepInv

\* wake_up_new_task takes a parent and a CPU that there are.
LEMMA NewTaskHome ==
  ASSUME sched \in SchedState, NEW cpu \in Cpus, NEW child \in Tasks, WakeUpNewTask(cpu, child)
  PROVE  /\ \E parent \in Tasks \cup {NoTask}, home \in Cpus, d \in Advances, fit \in BOOLEAN :
              LET old  == task[child].cpu
                  born == [sched EXCEPT !.task[child].state = "running",
                                        !.task[child].cpu = home,
                                        !.task[child].parent = NoTask]
                  s    == activate_task(update_clocks(born, d), child, fit)
              IN  /\ fit \/ task[child].policy = "idleprio"
                  /\ Become(IF rq[old].curr = parent /\ ~suitable_idle_cpus(s, child)
                            THEN resched_cpu(s, old) ELSE try_preempt(s, child, old))
         /\ task[child].state = "new" /\ UNCHANGED inj
<1> DEFINE old == task[child].cpu
           Ends(parent, home, d, fit) ==
             LET born == [sched EXCEPT !.task[child].state = "running",
                                       !.task[child].cpu = home,
                                       !.task[child].parent = NoTask]
                 s    == activate_task(update_clocks(born, d), child, fit)
             IN  /\ fit \/ task[child].policy = "idleprio"
                 /\ Become(IF rq[old].curr = parent /\ ~suitable_idle_cpus(s, child)
                           THEN resched_cpu(s, old) ELSE try_preempt(s, child, old))
<1>1. PICK parent \in ParentOf(child) :
        \E home \in IF parent = NoTask THEN Cpus ELSE {task[parent].cpu},
           d \in Advances, fit \in BOOLEAN : Ends(parent, home, d, fit)
  BY DEF WakeUpNewTask
<1>2. \A q \in Tasks : sched.task[q].cpu \in Cpus /\ sched.task[q].parent \in Tasks \cup {NoTask}
  BY StateParts, TaskFields
<1>3. \A q \in Tasks : task[q].cpu \in Cpus /\ task[q].parent \in Tasks \cup {NoTask}
  BY <1>2 DEF sched
<1>4. parent \in Tasks \cup {NoTask} BY <1>3 DEF ParentOf, LiveTasks
<1> HIDE DEF Ends
<1>5. \E home \in Cpus, d \in Advances, fit \in BOOLEAN : Ends(parent, home, d, fit)
  BY <1>1, <1>3, <1>4
<1>6. task[child].state = "new" /\ UNCHANGED inj BY DEF WakeUpNewTask
<1> QED BY <1>4, <1>5, <1>6 DEF Ends

\* wake_up_new_task keeps the invariant.
LEMMA WakeUpNewTaskInv ==
  ASSUME IInv, NEW cpu \in Cpus, NEW child \in Tasks, WakeUpNewTask(cpu, child)
  PROVE  IInv'
<1> DEFINE old     == task[child].cpu
           a       == [sched EXCEPT !.task[child].state = "running"]
<1>1. sched \in SchedState BY IInvSched
<1>2. old \in Cpus
  <2>1. sched.task[child].cpu \in Cpus BY <1>1, StateParts, TaskFields
  <2> QED BY <2>1 DEF sched
<1>3. PICK parent \in Tasks \cup {NoTask}, home \in Cpus, e \in Advances, fit \in BOOLEAN :
        LET born == [sched EXCEPT !.task[child].state = "running",
                                  !.task[child].cpu = home,
                                  !.task[child].parent = NoTask]
            s    == activate_task(update_clocks(born, e), child, fit)
        IN  /\ fit \/ task[child].policy = "idleprio"
            /\ Become(IF rq[old].curr = parent /\ ~suitable_idle_cpus(s, child)
                      THEN resched_cpu(s, old) ELSE try_preempt(s, child, old))
  BY <1>1, NewTaskHome
<1>4. UNCHANGED inj BY <1>1, NewTaskHome
<1> DEFINE c == [a EXCEPT !.task[child].cpu = home]
           n == [c EXCEPT !.task[child].parent = NoTask]
           u == update_clocks(n, e)
           s == activate_task(u, child, fit)
           t == IF rq[old].curr = parent /\ ~suitable_idle_cpus(s, child)
                THEN resched_cpu(s, old) ELSE try_preempt(s, child, old)
<1>5. Become(t) BY <1>3
<1>6. e \in Nat BY DEF Advances
<1>7. "running" \in TaskStates BY DEF TaskStates
<1> HIDE DEF old
<1>8. Step(sched, a) BY <1>1, <1>7, TaskAssign
<1> HIDE DEF a
<1>9. Step(sched, c) BY <1>8, TaskAssign, Chain
<1> HIDE DEF c
<1>10. Step(sched, n)
  <2>1. c \in SchedState => Step(c, n) BY TaskAssign
  <2> QED BY <1>9, <2>1, Chain
<1> HIDE DEF n
<1>11. Step(sched, u) BY <1>6, <1>10, ClocksStep, Chain
<1> HIDE DEF u
<1>12. Step(sched, s) BY <1>11, ActivateStep, Chain
<1> HIDE DEF s
<1>13. Step(sched, resched_cpu(s, old)) BY <1>2, <1>12, ReschedStep, Chain
<1>14. Step(sched, try_preempt(s, child, old)) BY <1>2, <1>12, TryPreemptStep, Chain
<1>15. Step(sched, t) BY <1>13, <1>14
<1> HIDE DEF t
<1> QED BY <1>4, <1>5, <1>15, StepInv

\* yield_to is quiet.
LEMMA YieldToQuiet ==
  ASSUME IInv, NEW cpu \in Cpus, NEW from \in Cpus, NEW p \in Tasks, YieldTo(cpu, from, p)
  PROVE  Quiet(sched, sched') /\ UNCHANGED inj
<1> DEFINE dl    == IF sched.task[p].deadline > rq[from].deadline THEN rq[from].deadline
                    ELSE sched.task[p].deadline
           slice == IF sched.task[p].time_slice + rq[from].time_slice > SLICE THEN SLICE
                    ELSE sched.task[p].time_slice + rq[from].time_slice
           a == [sched EXCEPT !.task[p].deadline = dl]
           b == [a EXCEPT !.task[p].time_slice = slice]
           c == [b EXCEPT !.rq[from].time_slice = 0]
           t == resched_cpu(c, from)
<1>1. sched \in SchedState BY IInvSched
<1>2. sched.rq[from].deadline \in Nat /\ sched.rq[from].time_slice \in 0 .. SLICE
  BY <1>1, StateParts, RqFields
<1>3. sched.task[p].deadline \in Nat /\ sched.task[p].time_slice \in 0 .. SLICE
  BY <1>1, StateParts, TaskFields
<1>4. sched.rq[from].deadline = rq[from].deadline /\ sched.rq[from].time_slice = rq[from].time_slice
  BY DEF sched
<1>5. dl \in Nat /\ slice \in 0 .. SLICE BY <1>2, <1>3, <1>4, SliceAssumption
<1>6. a.task[p].time_slice = sched.task[p].time_slice
  <2>1. sched.task \in [Tasks -> TaskRec] BY <1>1, StateParts
  <2> QED BY <1>1, <2>1 DEF SchedState, TaskRec
<1>7. Become(t) /\ UNCHANGED inj
  <2>1. Become(resched_cpu(
          [sched EXCEPT
             !.task[p].deadline = IF @ > rq[from].deadline THEN rq[from].deadline ELSE @,
             !.task[p].time_slice = IF @ + rq[from].time_slice > SLICE THEN SLICE
                                    ELSE @ + rq[from].time_slice,
             !.rq[from].time_slice = 0], from)) /\ UNCHANGED inj
    BY DEF YieldTo
  <2> QED BY <1>6, <2>1
<1> HIDE DEF dl, slice
<1>8. Quiet(sched, a) BY <1>1, <1>5, TaskQuiet
<1> HIDE DEF a
<1>9. Quiet(sched, b) BY <1>5, <1>8, TaskQuiet, QuietChain
<1> HIDE DEF b
<1>10. Quiet(sched, c)
  <2>1. 0 \in 0 .. SLICE BY SliceAssumption
  <2>2. b \in SchedState => Quiet(b, c) BY <2>1, RqQuiet
  <2> QED BY <1>9, <2>2, QuietChain
<1> HIDE DEF c
<1>11. Quiet(sched, t) BY <1>10, ReschedQuiet, QuietChain
<1> HIDE DEF t
<1> QED BY <1>7, <1>11, BecomeQuiet

\* So it keeps the invariant.
LEMMA YieldToInv ==
  ASSUME IInv, NEW cpu \in Cpus, NEW from \in Cpus, NEW p \in Tasks, YieldTo(cpu, from, p)
  PROVE  IInv'
BY YieldToQuiet, QuietInv
-----------------------------------------------------------------------------
(***************************************************************************)
(* Changes of priority, policy, nice level and affinity.                   *)
(***************************************************************************)
\* rt_mutex_setprio keeps the invariant.
LEMMA RtMutexSetprioInv ==
  ASSUME IInv, NEW p \in Tasks, NEW waiter \in 0 .. PRIO_LIMIT, RtMutexSetprio(p, waiter)
  PROVE  IInv'
<1> DEFINE getprio == rt_mutex_getprio([task[p] EXCEPT !.top_waiter = waiter],
                                       normal_prio(task[p].policy, task[p].rt_priority))
           setprio(s) == [s EXCEPT !.task[p].top_waiter = waiter, !.task[p].prio = getprio]
<1>1. sched \in SchedState BY IInvSched
<1>2. task[p] \in TaskRec
  <2>1. sched.task[p] \in TaskRec BY <1>1, StateParts
  <2> QED BY <2>1 DEF sched
<1>3. task[p].cpu \in Cpus /\ task[p].rt_priority \in RtPrios BY <1>2, TaskFields
<1>4. getprio \in QueuePrios
  <2>1. [task[p] EXCEPT !.top_waiter = waiter].top_waiter \in 0 .. PRIO_LIMIT
    BY <1>2 DEF TaskRec
  <2>2. normal_prio(task[p].policy, task[p].rt_priority) \in QueuePrios BY <1>3, NormalPrio
  <2> QED BY <2>1, <2>2, GetPrio
<1>5. UNCHANGED inj BY DEF RtMutexSetprio
<1>6. \/ Become([sched EXCEPT !.task[p].top_waiter = waiter])
      \/ \E fit \in BOOLEAN :
           LET s1 == IF task_queued(sched, p)
                     THEN enqueue_task(setprio(dequeue_task(sched, p)), p, fit)
                     ELSE setprio(sched)
               s2 == IF task[p].on_cpu /\ getprio > task[p].prio
                     THEN resched_cpu(s1, task[p].cpu) ELSE s1
           IN  Become(IF task_queued(sched, p) THEN try_preempt(s2, p, task[p].cpu) ELSE s2)
  BY DEF RtMutexSetprio, Requeued
<1> HIDE DEF getprio
<1>7. \A u \in SchedState : Step(u, setprio(u))
  <2> SUFFICES ASSUME NEW u \in SchedState PROVE Step(u, setprio(u)) OBVIOUS
  <2> DEFINE v == [u EXCEPT !.task[p].top_waiter = waiter]
  <2>1. setprio(u) = [v EXCEPT !.task[p].prio = getprio] OBVIOUS
  <2>2. Step(u, v) BY TaskAssign
  <2> HIDE DEF v, setprio
  <2> QED BY <1>4, <2>1, <2>2, TaskAssign, Chain
<1> HIDE DEF setprio
<1>8. CASE Become([sched EXCEPT !.task[p].top_waiter = waiter])
  <2>1. Step(sched, [sched EXCEPT !.task[p].top_waiter = waiter]) BY <1>1, TaskAssign
  <2> QED BY <1>5, <1>8, <2>1, StepInv
<1>9. ASSUME NEW fit \in BOOLEAN,
             LET s1 == IF task_queued(sched, p)
                       THEN enqueue_task(setprio(dequeue_task(sched, p)), p, fit)
                       ELSE setprio(sched)
                 s2 == IF task[p].on_cpu /\ getprio > task[p].prio
                       THEN resched_cpu(s1, task[p].cpu) ELSE s1
             IN  Become(IF task_queued(sched, p) THEN try_preempt(s2, p, task[p].cpu) ELSE s2)
      PROVE  IInv'
  <2> DEFINE s1 == IF task_queued(sched, p)
                   THEN enqueue_task(setprio(dequeue_task(sched, p)), p, fit)
                   ELSE setprio(sched)
             s2 == IF task[p].on_cpu /\ getprio > task[p].prio
                   THEN resched_cpu(s1, task[p].cpu) ELSE s1
             t  == IF task_queued(sched, p) THEN try_preempt(s2, p, task[p].cpu) ELSE s2
  <2>1. Become(t) BY <1>9
  <2>2. Step(sched, setprio(sched)) BY <1>1, <1>7
  <2>3. Step(sched, dequeue_task(sched, p)) BY <1>1, DequeueStep
  <2>4. Step(sched, setprio(dequeue_task(sched, p))) BY <1>7, <2>3, Chain
  <2>5. Step(sched, enqueue_task(setprio(dequeue_task(sched, p)), p, fit))
    BY <2>4, EnqueueStep, Chain
  <2>6. Step(sched, s1) BY <2>2, <2>5
  <2> HIDE DEF s1
  <2>7. Step(sched, resched_cpu(s1, task[p].cpu)) BY <1>3, <2>6, ReschedStep, Chain
  <2>8. Step(sched, s2) BY <2>6, <2>7
  <2> HIDE DEF s2
  <2>9. Step(sched, try_preempt(s2, p, task[p].cpu)) BY <1>3, <2>8, TryPreemptStep, Chain
  <2>10. Step(sched, t) BY <2>8, <2>9
  <2> HIDE DEF t
  <2> QED BY <1>5, <2>1, <2>10, StepInv
<1> QED BY <1>6, <1>8, <1>9

\* set_user_nice keeps the invariant.
LEMMA SetUserNiceInv ==
  ASSUME IInv, NEW p \in Tasks, NEW nice \in Nices, SetUserNice(p, nice)
  PROVE  IInv'
<1> DEFINE old == task[p].nice
           cpu == task[p].cpu
           renice(s) ==
             [s EXCEPT !.task[p].deadline = (@ + DeadlineDiff[nice] - DeadlineDiff[old]) % DeadlineMod,
                       !.task[p].nice = nice,
                       !.task[p].prio = effective_prio(s.task[p])]
<1>1. sched \in SchedState BY IInvSched
<1>2. task[p] \in TaskRec
  <2>1. sched.task[p] \in TaskRec BY <1>1, StateParts
  <2> QED BY <2>1 DEF sched
<1>3. cpu \in Cpus /\ old \in Nices BY <1>2, TaskFields
<1>4. UNCHANGED inj BY DEF SetUserNice
<1>5. PICK d \in Advances, fit \in BOOLEAN :
        LET s0 == update_clocks(sched, d)
            s1 == Requeued(s0, p, renice, fit)
        IN  Become(CASE is_rt_policy(task[p].policy) -> [s0 EXCEPT !.task[p].nice = nice]
                     [] ~is_rt_policy(task[p].policy) /\ task_queued(sched, p) ->
                          IF nice < old THEN try_preempt(s1, p, cpu) ELSE s1
                     [] ~is_rt_policy(task[p].policy) /\ task[p].on_cpu ->
                          IF old < nice THEN resched_cpu(reset_rq_task(s1, cpu, p), cpu)
                          ELSE reset_rq_task(s1, cpu, p)
                     [] OTHER -> s1)
  BY Zenon DEF SetUserNice
<1>6. \A u \in SchedState : Step(u, renice(u))
  <2> SUFFICES ASSUME NEW u \in SchedState PROVE Step(u, renice(u)) OBVIOUS
  <2> DEFINE dl   == (u.task[p].deadline + DeadlineDiff[nice] - DeadlineDiff[old]) % DeadlineMod
             prio == effective_prio(u.task[p])
             v == [u EXCEPT !.task[p].deadline = dl]
             w == [v EXCEPT !.task[p].nice = nice]
  <2>1. renice(u) = [w EXCEPT !.task[p].prio = prio] OBVIOUS
  <2>2. dl \in Nat
    <3>1. u.task[p].deadline \in Nat BY StateParts, TaskFields
    <3>2. DeadlineDiff[nice] \in Nat BY DeadlineAssumption
    <3>3. DeadlineDiff[old] \in Nat BY <1>3, DeadlineAssumption
    <3>4. DeadlineMod \in Nat \ {0} BY DeadlineAssumption
    <3> QED BY <3>1, <3>2, <3>3, <3>4
  <2>3. prio \in QueuePrios BY StateParts, EffectivePrio
  <2> HIDE DEF dl, prio, renice
  <2>4. Step(u, v) BY <2>2, TaskAssign
  <2> HIDE DEF v
  <2>5. Step(u, w) BY <2>4, TaskAssign, Chain
  <2> HIDE DEF w
  <2> QED BY <2>1, <2>3, <2>5, TaskAssign, Chain
<1> HIDE DEF renice
<1> DEFINE s0 == update_clocks(sched, d)
           s1 == IF task_queued(s0, p) THEN enqueue_task(renice(dequeue_task(s0, p)), p, fit)
                 ELSE renice(s0)
           r  == reset_rq_task(s1, cpu, p)
           t  == CASE is_rt_policy(task[p].policy) -> [s0 EXCEPT !.task[p].nice = nice]
                   [] ~is_rt_policy(task[p].policy) /\ task_queued(sched, p) ->
                        IF nice < old THEN try_preempt(s1, p, cpu) ELSE s1
                   [] ~is_rt_policy(task[p].policy) /\ task[p].on_cpu ->
                        IF old < nice THEN resched_cpu(r, cpu) ELSE r
                   [] OTHER -> s1
<1>7. Become(t) BY <1>5 DEF Requeued
<1> HIDE DEF old, cpu
<1>8. d \in Nat BY DEF Advances
<1>9. Step(sched, s0) BY <1>1, <1>8, ClocksStep
<1> HIDE DEF s0
<1>10. Step(sched, [s0 EXCEPT !.task[p].nice = nice]) BY <1>9, TaskAssign, Chain
<1>11. Step(sched, s1)
  <2>1. Step(sched, renice(s0)) BY <1>6, <1>9, Chain
  <2>2. Step(sched, dequeue_task(s0, p)) BY <1>9, DequeueStep, Chain
  <2>3. Step(sched, renice(dequeue_task(s0, p))) BY <1>6, <2>2, Chain
  <2>4. Step(sched, enqueue_task(renice(dequeue_task(s0, p)), p, fit)) BY <2>3, EnqueueStep, Chain
  <2> QED BY <2>1, <2>4
<1> HIDE DEF s1
<1>12. Step(sched, try_preempt(s1, p, cpu)) BY <1>3, <1>11, TryPreemptStep, Chain
<1>13. Step(sched, r) BY <1>3, <1>11, ResetRqTaskStep, Chain
<1> HIDE DEF r
<1>14. Step(sched, resched_cpu(r, cpu)) BY <1>3, <1>13, ReschedStep, Chain
<1>15. Step(sched, t) BY <1>10, <1>11, <1>12, <1>13, <1>14
<1> HIDE DEF t
<1> QED BY <1>4, <1>7, <1>15, StepInv

\* __sched_setscheduler keeps the invariant.
LEMMA SchedSetschedulerInv ==
  ASSUME IInv, NEW p \in Tasks, NEW policy \in Policies, NEW prio \in RtPrios,
         NEW reset \in BOOLEAN, SchedSetscheduler(p, policy, prio, reset)
  PROVE  IInv'
<1> DEFINE cpu == task[p].cpu
           new == rt_mutex_getprio(task[p], normal_prio(policy, prio))
           setscheduler(s) ==
             [s EXCEPT !.task[p].policy = policy, !.task[p].rt_priority = prio,
                       !.task[p].prio = new]
<1>1. sched \in SchedState BY IInvSched
<1>2. task[p] \in TaskRec
  <2>1. sched.task[p] \in TaskRec BY <1>1, StateParts
  <2> QED BY <2>1 DEF sched
<1>3. cpu \in Cpus BY <1>2, TaskFields
<1>4. new \in QueuePrios
  <2>1. task[p].top_waiter \in 0 .. PRIO_LIMIT BY <1>2, TaskFields
  <2> QED BY <2>1, NormalPrio, GetPrio
<1>5. UNCHANGED inj BY DEF SchedSetscheduler
<1>6. PICK d \in Advances, fit \in BOOLEAN :
        LET s0 == [update_clocks(sched, d) EXCEPT !.task[p].reset_on_fork = reset]
            s1 == Requeued(s0, p, setscheduler, fit)
        IN  Become(CASE task_queued(sched, p) -> try_preempt(s1, p, cpu)
                     [] ~task_queued(sched, p) /\ task[p].on_cpu ->
                          IF new > task[p].prio \/ prio > task[p].rt_priority
                          THEN resched_cpu(reset_rq_task(s1, cpu, p), cpu)
                          ELSE reset_rq_task(s1, cpu, p)
                     [] OTHER -> s1)
  BY Zenon DEF SchedSetscheduler
<1>7. \A u \in SchedState : Step(u, setscheduler(u))
  <2> SUFFICES ASSUME NEW u \in SchedState PROVE Step(u, setscheduler(u)) OBVIOUS
  <2> DEFINE v == [u EXCEPT !.task[p].policy = policy]
             w == [v EXCEPT !.task[p].rt_priority = prio]
  <2>1. setscheduler(u) = [w EXCEPT !.task[p].prio = new] OBVIOUS
  <2> HIDE DEF new, setscheduler
  <2>2. Step(u, v) BY TaskAssign
  <2> HIDE DEF v
  <2>3. Step(u, w) BY <2>2, TaskAssign, Chain
  <2> HIDE DEF w
  <2> QED BY <1>4, <2>1, <2>3, TaskAssign, Chain
<1> DEFINE a  == update_clocks(sched, d)
           s0 == [a EXCEPT !.task[p].reset_on_fork = reset]
           s1 == IF task_queued(s0, p) THEN enqueue_task(setscheduler(dequeue_task(s0, p)), p, fit)
                 ELSE setscheduler(s0)
           r  == reset_rq_task(s1, cpu, p)
           t  == CASE task_queued(sched, p) -> try_preempt(s1, p, cpu)
                   [] ~task_queued(sched, p) /\ task[p].on_cpu ->
                        IF new > task[p].prio \/ prio > task[p].rt_priority
                        THEN resched_cpu(r, cpu) ELSE r
                   [] OTHER -> s1
<1>8. Become(t) BY <1>6 DEF Requeued
<1> HIDE DEF setscheduler, new, cpu
<1>9. d \in Nat BY DEF Advances
<1>10. Step(sched, a) BY <1>1, <1>9, ClocksStep
<1> HIDE DEF a
<1>11. Step(sched, s0) BY <1>10, TaskAssign, Chain
<1> HIDE DEF s0
<1>12. Step(sched, s1)
  <2>1. Step(sched, setscheduler(s0)) BY <1>7, <1>11, Chain
  <2>2. Step(sched, dequeue_task(s0, p)) BY <1>11, DequeueStep, Chain
  <2>3. Step(sched, setscheduler(dequeue_task(s0, p))) BY <1>7, <2>2, Chain
  <2>4. Step(sched, enqueue_task(setscheduler(dequeue_task(s0, p)), p, fit))
    BY <2>3, EnqueueStep, Chain
  <2> QED BY <2>1, <2>4
<1> HIDE DEF s1
<1>13. Step(sched, try_preempt(s1, p, cpu)) BY <1>3, <1>12, TryPreemptStep, Chain
<1>14. Step(sched, r) BY <1>3, <1>12, ResetRqTaskStep, Chain
<1> HIDE DEF r
<1>15. Step(sched, resched_cpu(r, cpu)) BY <1>3, <1>14, ReschedStep, Chain
<1>16. Step(sched, t) BY <1>12, <1>13, <1>14, <1>15
<1> HIDE DEF t
<1> QED BY <1>5, <1>8, <1>16, StepInv

\* set_cpus_allowed_ptr keeps the invariant.
LEMMA SetCpusAllowedInv ==
  ASSUME IInv, NEW p \in Tasks, NEW mask, mask \in (SUBSET Cpus) \ {{}}, SetCpusAllowed(p, mask)
  PROVE  IInv'
<1> DEFINE cpu   == task[p].cpu
           first == CHOOSE c \in mask : \A e \in mask : c <= e
           s1    == [sched EXCEPT !.task[p].allowed = mask]
           s2    == CASE cpu \in mask -> s1
                      [] cpu \notin mask /\ task[p].on_cpu -> resched_cpu(s1, cpu)
                      [] OTHER -> [s1 EXCEPT !.task[p].cpu = first]
           t     == IF task_queued(sched, p) THEN try_preempt(s2, p, cpu) ELSE s2
<1>1. sched \in SchedState BY IInvSched
<1>2. cpu \in Cpus
  <2>1. sched.task[p].cpu \in Cpus BY <1>1, StateParts, TaskFields
  <2> QED BY <2>1 DEF sched
<1>3. first \in Cpus
  <2>1. mask \subseteq Nat /\ mask # {} BY CpuAssumption DEF Cpus
  <2>2. \E c \in mask : \A e \in mask : c <= e BY <2>1, NatMin
  <2> QED BY <2>2
<1>4. Become(t) /\ UNCHANGED inj BY Zenon DEF SetCpusAllowed
<1> HIDE DEF cpu, first
<1>5. Step(sched, s1) BY <1>1, TaskAssign
<1> HIDE DEF s1
<1>6. Step(sched, resched_cpu(s1, cpu)) BY <1>2, <1>5, ReschedStep, Chain
<1>7. Step(sched, [s1 EXCEPT !.task[p].cpu = first]) BY <1>3, <1>5, TaskAssign, Chain
<1>8. Step(sched, s2) BY <1>5, <1>6, <1>7
<1> HIDE DEF s2
<1>9. Step(sched, try_preempt(s2, p, cpu)) BY <1>2, <1>8, TryPreemptStep, Chain
<1>10. Step(sched, t) BY <1>8, <1>9
<1> HIDE DEF t
<1> QED BY <1>4, <1>10, StepInv
-----------------------------------------------------------------------------
(***************************************************************************)
(* The tick and the remaining entry points.                                *)
(***************************************************************************)
\* scheduler_tick on a busy CPU is quiet.
LEMMA SchedulerTickQuiet ==
  ASSUME IInv, NEW cpu \in Cpus, NEW e \in 0 .. 1, SchedulerTick(cpu, e)
  PROVE  Quiet(sched, sched') /\ UNCHANGED inj
<1>1. sched \in SchedState BY IInvSched
<1>2. UNCHANGED inj BY DEF SchedulerTick
<1>3. PICK dither \in BOOLEAN, refractory \in Refractory(sched, cpu) :
        LET s0 == [update_cpu_clock(sched, cpu, e) EXCEPT !.grq.iso_refractory = refractory]
            s1 == IF refractory /\ s0.rq[cpu].policy = "iso" /\ s0.rq[cpu].prio = ISO_PRIO
                  THEN [s0 EXCEPT !.rq[cpu].time_slice = 0] ELSE s0
            slice == s1.rq[cpu].time_slice
        IN  Become(CASE s1.rq[cpu].policy = "fifo" -> s1
                     [] s1.rq[cpu].policy # "fifo" /\ dither /\ slice <= HALF_JIFFY ->
                          resched_cpu([s1 EXCEPT !.rq[cpu].time_slice = 0], cpu)
                     [] s1.rq[cpu].policy # "fifo" /\ ~dither /\ slice = 0 -> resched_cpu(s1, cpu)
                     [] OTHER -> s1)
  BY Zenon DEF SchedulerTick
<1> DEFINE a  == update_cpu_clock(sched, cpu, e)
           s0 == [a EXCEPT !.grq.iso_refractory = refractory]
           b  == [s0 EXCEPT !.rq[cpu].time_slice = 0]
           s1 == IF refractory /\ s0.rq[cpu].policy = "iso" /\ s0.rq[cpu].prio = ISO_PRIO
                 THEN b ELSE s0
           slice == s1.rq[cpu].time_slice
           c  == [s1 EXCEPT !.rq[cpu].time_slice = 0]
           t  == CASE s1.rq[cpu].policy = "fifo" -> s1
                   [] s1.rq[cpu].policy # "fifo" /\ dither /\ slice <= HALF_JIFFY -> resched_cpu(c, cpu)
                   [] s1.rq[cpu].policy # "fifo" /\ ~dither /\ slice = 0 -> resched_cpu(s1, cpu)
                   [] OTHER -> s1
<1>4. Become(t) BY <1>3
<1>5. refractory \in BOOLEAN BY DEF Refractory
<1>6. 0 \in 0 .. SLICE BY SliceAssumption
<1>7. Quiet(sched, a) BY <1>1, CpuClockQuiet
<1> HIDE DEF a
<1>8. Quiet(sched, s0) BY <1>5, <1>7, GrqQuiet, QuietChain
<1> HIDE DEF s0
<1>9. Quiet(sched, b)
  <2>1. s0 \in SchedState => Quiet(s0, b) BY <1>6, RqQuiet
  <2> QED BY <1>8, <2>1, QuietChain
<1>10. Quiet(sched, s1) BY <1>8, <1>9
<1> HIDE DEF s1
<1>11. Quiet(sched, c)
  <2>1. s1 \in SchedState => Quiet(s1, c) BY <1>6, RqQuiet
  <2> QED BY <1>10, <2>1, QuietChain
<1> HIDE DEF c
<1>12. Quiet(sched, resched_cpu(c, cpu)) BY <1>11, ReschedQuiet, QuietChain
<1>13. Quiet(sched, resched_cpu(s1, cpu)) BY <1>10, ReschedQuiet, QuietChain
<1>14. Quiet(sched, t) BY <1>10, <1>12, <1>13
<1> HIDE DEF t
<1> QED BY <1>2, <1>4, <1>14, BecomeQuiet

\* So it keeps the invariant.
LEMMA SchedulerTickInv ==
  ASSUME IInv, NEW cpu \in Cpus, NEW e \in 0 .. 1, SchedulerTick(cpu, e) PROVE IInv'
BY SchedulerTickQuiet, QuietInv

\* scheduler_tick on an idle CPU is quiet.
LEMMA IdleTickQuiet ==
  ASSUME IInv, NEW cpu \in Cpus, IdleTick(cpu)
  PROVE  Quiet(sched, sched') /\ UNCHANGED inj
<1> DEFINE t == [sched EXCEPT !.grq.iso_refractory = FALSE]
<1>1. Become(t) /\ UNCHANGED inj BY DEF IdleTick, Become, sched
<1>2. Quiet(sched, t) BY IInvSched, GrqQuiet
<1> HIDE DEF t
<1> QED BY <1>1, <1>2, BecomeQuiet

\* So it keeps the invariant.
LEMMA IdleTickInv == ASSUME IInv, NEW cpu \in Cpus, IdleTick(cpu) PROVE IInv'
BY IdleTickQuiet, QuietInv

\* wake_up_idle_cpu is quiet.
LEMMA WakeUpIdleCpuQuiet ==
  ASSUME IInv, NEW cpu \in Cpus, WakeUpIdleCpu(cpu)
  PROVE  Quiet(sched, sched') /\ UNCHANGED inj
BY IInvSched, ReschedQuiet, BecomeQuiet DEF WakeUpIdleCpu

\* So it keeps the invariant.
LEMMA WakeUpIdleCpuInv == ASSUME IInv, NEW cpu \in Cpus, WakeUpIdleCpu(cpu) PROVE IInv'
BY WakeUpIdleCpuQuiet, QuietInv

\* cpu_scaling and cpu_nonscaling are quiet.
LEMMA CpuScalingQuiet ==
  ASSUME IInv, NEW cpu \in Cpus, CpuScaling(cpu)
  PROVE  Quiet(sched, sched') /\ UNCHANGED inj
<1> DEFINE t == [sched EXCEPT !.rq[cpu].scaling = ~@]
<1>1. Become(t) /\ UNCHANGED inj BY DEF CpuScaling, Become, sched
<1>2. Quiet(sched, t) BY IInvSched, RqQuiet
<1> HIDE DEF t
<1> QED BY <1>1, <1>2, BecomeQuiet

\* So they keep the invariant.
LEMMA CpuScalingInv == ASSUME IInv, NEW cpu \in Cpus, CpuScaling(cpu) PROVE IInv'
BY CpuScalingQuiet, QuietInv

\* proc_write_idleGlobal keeps the invariant.
LEMMA WriteGlobalRateInv == ASSUME IInv, NEW rate \in Int, WriteGlobalRate(rate) PROVE IInv'
<1>1. inj \in InjRec /\ sched \in SchedState /\ MapExact(sched) BY IInvSched
<1>2. PICK offset \in {0, inj.offset} : inj' = [inj EXCEPT !.global_rate = rate, !.offset = offset]
  BY DEF WriteGlobalRate
<1>3. offset \in Int
  <2>1. inj.offset \in Int BY <1>1, InjFields
  <2> QED BY <2>1
<1>4. inj' \in InjRec BY <1>1, <1>2, <1>3, InjFields
<1>5. Become(sched) BY DEF WriteGlobalRate, Become, sched
<1> QED BY <1>1, <1>4, <1>5, BecomeInv

\* What a write makes of the pid list: a list of entries that are the new one or were
\* there before.
LEMMA UpdateLimitsResult ==
  ASSUME NEW limits \in Seq(LimitRec), NEW w \in WriteRec,
         w.at = NoCell \/ EntryAt(limits, w.at) # {}
  PROVE  LET l == UpdateLimits(limits, w)
         IN  /\ l \in Seq(LimitRec)
             /\ \A i \in DOMAIN l : l[i] = w.new \/ \E k \in DOMAIN limits : l[i] = limits[k]
<1> DEFINE new == w.new
           at  == CHOOSE i \in EntryAt(limits, w.at) : TRUE
           replaced == [limits EXCEPT ![at] = new]
           removed == [j \in 1 .. Len(limits) - 1 |->
                         IF j < at THEN limits[j] ELSE limits[j + 1]]
           entries(l) == \A i \in DOMAIN l : l[i] = new \/ \E k \in DOMAIN limits : l[i] = limits[k]
           Good(l) == l \in Seq(LimitRec) /\ entries(l)
<1>1. UpdateLimits(limits, w) =
        CASE w.at = NoCell /\ new.type = "p" -> Append(limits, new)
          [] w.at = NoCell /\ new.type = "t" -> <<new>> \o limits
          [] w.at # NoCell /\ new.pid > 0 -> replaced
          [] OTHER -> removed
  BY DEF UpdateLimits
<1>2. \A i \in DOMAIN limits : limits[i] \in LimitRec OBVIOUS
<1>3. DOMAIN limits = 1 .. Len(limits) /\ Len(limits) \in Nat OBVIOUS
<1>4. new \in LimitRec /\ new.type \in {"t", "p"} BY DEF WriteRec, LimitRec
<1>5. w.at # NoCell => at \in DOMAIN limits BY DEF EntryAt
<1> HIDE DEF at, new
<1>6. CASE w.at = NoCell /\ new.type = "p"
  <2>1. UpdateLimits(limits, w) = Append(limits, new) BY <1>1, <1>6
  <2>2. Good(Append(limits, new)) BY <1>3, <1>4
  <2> QED BY <2>1, <2>2 DEF new
<1>7. CASE w.at = NoCell /\ new.type = "t"
  <2> DEFINE l == <<new>> \o limits
  <2>1. UpdateLimits(limits, w) = l BY <1>1, <1>7
  <2>2. l \in Seq(LimitRec) /\ DOMAIN l = 1 .. Len(limits) + 1 BY <1>3, <1>4
  <2>3. \A i \in DOMAIN l : l[i] = IF i = 1 THEN new ELSE limits[i - 1] BY <1>3, <2>2
  <2> HIDE DEF l
  <2>4. \A i \in DOMAIN l : i # 1 => i - 1 \in DOMAIN limits BY <1>3, <2>2
  <2>5. Good(l) BY <2>2, <2>3, <2>4
  <2> QED BY <2>1, <2>5 DEF new
<1>8. CASE w.at # NoCell /\ new.pid > 0
  <2>1. UpdateLimits(limits, w) = replaced BY <1>1, <1>8
  <2>2. replaced \in Seq(LimitRec) /\ DOMAIN replaced = DOMAIN limits BY <1>4, <1>5, <1>8
  <2>3. \A i \in DOMAIN limits : replaced[i] = IF i = at THEN new ELSE limits[i] BY <1>5, <1>8
  <2> HIDE DEF replaced
  <2>4. Good(replaced) BY <2>2, <2>3
  <2> QED BY <2>1, <2>4 DEF new
<1>9. CASE w.at # NoCell /\ ~(new.pid > 0)
  <2>1. UpdateLimits(limits, w) = removed BY <1>1, <1>9
  <2>2. at \in 1 .. Len(limits) /\ Len(limits) - 1 \in Nat BY <1>3, <1>5, <1>9
  <2>3. DOMAIN removed = 1 .. Len(limits) - 1 OBVIOUS
  <2> DEFINE from(j) == IF j < at THEN j ELSE j + 1
  <2>4. \A j \in DOMAIN removed : from(j) \in DOMAIN limits /\ removed[j] = limits[from(j)]
    BY <1>3, <2>2, <2>3
  <2>5. removed \in Seq(LimitRec)
    <3>1. \A j \in 1 .. Len(limits) - 1 : removed[j] \in LimitRec BY <1>2, <2>3, <2>4
    <3>2. removed \in [1 .. Len(limits) - 1 -> LimitRec] BY <3>1
    <3> QED BY <2>2, <3>2
  <2> HIDE DEF removed, from
  <2>6. Good(removed) BY <2>4, <2>5
  <2> QED BY <2>1, <2>6 DEF new
<1> QED BY <1>4, <1>6, <1>7, <1>8, <1>9

\* The record that the search of proc_write_idlePid leaves.
LEMMA SearchResult ==
  ASSUME inj \in InjRec, NEW ask \in LimitAsk, SearchIdlePid(ask)
  PROVE  /\ \E w \in WriteRec :
              /\ inj' = [inj EXCEPT !.writes = @ \cup {w}]
              /\ w.new.times = 0 /\ w.new.max_load >= INJECTION_IDLE_CYCLE_PROC
         /\ UNCHANGED <<grq, rq, task>>
<1> DEFINE found == {i \in DOMAIN inj.limits : inj.limits[i].pid \in {ask.pid, -ask.pid}}
           first == CHOOSE i \in found : \A j \in found : i <= j
           at    == IF found = {} THEN NoCell ELSE inj.limits[first].cell
           w(cell) == [new |-> [cell |-> cell, pid |-> ask.pid, type |-> ask.type,
                                max_load |-> ask.max_load, times |-> 0], at |-> at]
<1>1. PICK cell \in FreeCells : inj' = [inj EXCEPT !.writes = @ \cup {w(cell)}]
  BY DEF SearchIdlePid
<1>2. cell \in Cells BY DEF FreeCells
<1>3. at \in Cells \cup {NoCell}
  <2>1. inj.limits \in Seq(LimitRec) BY InjFields
  <2>2. found # {} => first \in DOMAIN inj.limits
    <3>1. DOMAIN inj.limits \subseteq Nat BY <2>1
    <3>2. found \subseteq Nat BY <3>1
    <3>3. found # {} => first \in found BY <3>2, NatMin
    <3> QED BY <3>3
  <2> HIDE DEF found, first
  <2>3. found # {} => inj.limits[first] \in LimitRec BY <2>1, <2>2
  <2> QED BY <2>3 DEF LimitRec
<1> HIDE DEF at
<1>4. w(cell) \in WriteRec BY <1>2, <1>3 DEF WriteRec, LimitRec, LimitAsk
<1>5. ask.max_load >= INJECTION_IDLE_CYCLE_PROC /\ UNCHANGED <<grq, rq, task>> BY DEF SearchIdlePid
<1>6. w(cell).new.times = 0 /\ w(cell).new.max_load = ask.max_load OBVIOUS
<1> QED BY <1>1, <1>4, <1>5, <1>6

\* proc_write_idlePid keeps the invariant: its search and its update.
LEMMA SearchIdlePidInv == ASSUME IInv, NEW ask \in LimitAsk, SearchIdlePid(ask) PROVE IInv'
<1>1. inj \in InjRec /\ sched \in SchedState /\ MapExact(sched) BY IInvSched
<1>2. PICK w \in WriteRec : inj' = [inj EXCEPT !.writes = @ \cup {w}] BY <1>1, SearchResult
<1>3. inj.writes \cup {w} \in SUBSET WriteRec BY <1>1, InjFields
<1>4. inj' \in InjRec BY <1>1, <1>2, <1>3, InjFields
<1>5. Become(sched) BY <1>1, SearchResult DEF Become, sched
<1> QED BY <1>1, <1>4, <1>5, BecomeInv

LEMMA UpdateIdlePidInv == ASSUME IInv, NEW w \in inj.writes, UpdateIdlePid(w) PROVE IInv'
<1>1. inj \in InjRec /\ sched \in SchedState /\ MapExact(sched) BY IInvSched
<1>2. w \in WriteRec /\ inj.writes \ {w} \in SUBSET WriteRec /\ inj.limits \in Seq(LimitRec)
  BY <1>1, InjFields
<1>3. inj' \in InjRec
  <2>1. CASE w.at = NoCell \/ EntryAt(inj.limits, w.at) # {}
    <3>1. inj' = [inj EXCEPT !.limits = UpdateLimits(inj.limits, w), !.writes = inj.writes \ {w}]
      BY <2>1 DEF UpdateIdlePid
    <3>2. UpdateLimits(inj.limits, w) \in Seq(LimitRec) BY <1>2, <2>1, UpdateLimitsResult
    <3> QED BY <1>1, <1>2, <3>1, <3>2, InjFields
  <2>2. CASE ~(w.at = NoCell \/ EntryAt(inj.limits, w.at) # {})
    <3>1. inj' = [inj EXCEPT !.oops = TRUE] BY <2>2 DEF UpdateIdlePid
    <3> QED BY <1>1, <3>1, InjFields
  <2> QED BY <2>1, <2>2
<1>4. Become(sched) BY DEF UpdateIdlePid, Become, sched
<1> QED BY <1>1, <1>3, <1>4, BecomeInv
-----------------------------------------------------------------------------
(***************************************************************************)
(* The theorems.                                                           *)
(***************************************************************************)
\* The invariant holds after boot.
LEMMA InitInv == Init => IInv
<1> SUFFICES ASSUME Init PROVE IInv OBVIOUS
<1>1. grq \in GrqRec
  <2>1. [i \in QueuePrios |-> <<>>] \in [QueuePrios -> Seq(Tasks)] OBVIOUS
  <2>2. 0 \in Int /\ 0 \in Nat OBVIOUS
  <2> QED BY <2>1, <2>2, ZenonT(30) DEF Init, GrqRec
<1>2. rq \in [Cpus -> RqRec]
  <2>1. PRIO_LIMIT \in 0 .. PRIO_LIMIT /\ 0 \in 0 .. SLICE /\ 0 \in Nat
    BY PrioAssumption, SliceAssumption DEF PRIO_LIMIT
  <2>2. "normal" \in Policies BY DEF Policies
  <2> DEFINE r == [curr |-> Idle, need_resched |-> FALSE, prio |-> PRIO_LIMIT,
                   policy |-> "normal", deadline |-> 0, time_slice |-> 0,
                   sticky_task |-> NoTask, scaling |-> FALSE]
  <2>3. r \in RqRec BY <2>1, <2>2 DEF RqRec
  <2>4. rq = [c \in Cpus |-> r] BY DEF Init
  <2> HIDE DEF r
  <2> QED BY <2>3, <2>4
<1>3. task \in [Tasks -> TaskRec] BY InitAssumption DEF Init
<1>4. sched \in SchedState BY <1>1, <1>2, <1>3 DEF sched, SchedState
<1>5. inj \in InjRec BY InjAssumption DEF Init, InjRec
<1>6. MapExact(sched)
  <2>1. \A c \in Cpus : rq[c].curr = Idle BY DEF Init
  <2>2. grq.cpu_idle_map = Cpus /\ grq.idle_cpus = TRUE BY DEF Init
  <2>3. 0 \in Cpus BY CpuAssumption DEF Cpus
  <2> QED BY <2>1, <2>2, <2>3 DEF MapExact, sched
<1> QED BY <1>4, <1>5, <1>6, IInvSched

\* Every step keeps the invariant: one case per action.
LEMMA NextInv == IInv /\ [Next]_vars => IInv'
<1> SUFFICES ASSUME IInv, [Next]_vars PROVE IInv' OBVIOUS
<1>1. CASE UNCHANGED vars
  <2>1. Become(sched) /\ UNCHANGED inj BY <1>1 DEF vars, Become, sched
  <2> QED BY <2>1, IInvSched, BecomeInv
<1>2. ASSUME NEW cpu \in Cpus, OnCpu(cpu) PROVE IInv'
  <2>1. CASE Schedule(cpu) BY <2>1, ScheduleInv
  <2>2. CASE \E st \in SleepStates \cup {"running"} : SetCurrentState(cpu, st)
    <3>1. SleepStates \cup {"running"} \subseteq TaskStates BY AskAssumption DEF TaskStates
    <3> QED BY <2>2, <3>1, SetCurrentStateInv
  <2>3. CASE Exit(cpu) BY <2>3, ExitInv
  <2>4. CASE \E p \in Tasks : SchedFork(cpu, p) BY <2>4, SchedForkInv
  <2>5. CASE \E p \in Tasks : WakeUpNewTask(cpu, p) BY <2>5, WakeUpNewTaskInv
  <2>6. CASE \E from \in Cpus, p \in Tasks : YieldTo(cpu, from, p) BY <2>6, YieldToInv
  <2>7. CASE \E e \in 0 .. 1 : SchedulerTick(cpu, e) BY <2>7, SchedulerTickInv
  <2>8. CASE IdleTick(cpu) BY <2>8, IdleTickInv
  <2>9. CASE WakeUpIdleCpu(cpu) BY <2>9, WakeUpIdleCpuInv
  <2>10. CASE CpuScaling(cpu) BY <2>10, CpuScalingInv
  <2> QED BY <1>2, <2>1, <2>2, <2>3, <2>4, <2>5, <2>6, <2>7, <2>8, <2>9, <2>10 DEF OnCpu
<1>3. ASSUME NEW p \in Tasks, OnTask(p) PROVE IInv'
  <2>1. CASE \E sync \in SyncAsks : TryToWakeUp(p, sync) BY <2>1, TryToWakeUpInv
  <2>2. CASE \E waiter \in WaiterPrios : RtMutexSetprio(p, waiter)
    <3>1. WaiterPrios \subseteq 0 .. PRIO_LIMIT BY AskAssumption
    <3> QED BY <2>2, <3>1, RtMutexSetprioInv
  <2>3. CASE \E nice \in NiceAsks : SetUserNice(p, nice)
    <3>1. NiceAsks \subseteq Nices BY AskAssumption
    <3> QED BY <2>3, <3>1, SetUserNiceInv
  <2>4. CASE \E ask \in PolicyAsks, reset \in ResetAsks : SchedSetscheduler(p, ask[1], ask[2], reset)
    <3>1. PICK ask \in PolicyAsks, reset \in ResetAsks : SchedSetscheduler(p, ask[1], ask[2], reset)
      BY <2>4
    <3>2. ask[1] \in Policies /\ ask[2] \in RtPrios /\ reset \in BOOLEAN BY AskAssumption
    <3> QED BY <3>1, <3>2, SchedSetschedulerInv
  <2>5. CASE \E mask \in MaskAsks : SetCpusAllowed(p, mask)
    <3>1. MaskAsks \subseteq (SUBSET Cpus) \ {{}} BY AskAssumption
    <3> QED BY <2>5, <3>1, SetCpusAllowedInv
  <2> QED BY <1>3, <2>1, <2>2, <2>3, <2>4, <2>5 DEF OnTask
<1>4. CASE \E rate \in RateAsks : WriteGlobalRate(rate)
  <2>1. RateAsks \subseteq Int BY InjAssumption
  <2> QED BY <1>4, <2>1, WriteGlobalRateInv
<1>5. CASE \E ask \in LimitAsks : SearchIdlePid(ask)
  <2>1. LimitAsks \subseteq LimitAsk BY InjAssumption
  <2> QED BY <1>5, <2>1, SearchIdlePidInv
<1>6. CASE \E w \in inj.writes : UpdateIdlePid(w) BY <1>6, UpdateIdlePidInv
<1> QED BY <1>1, <1>2, <1>3, <1>4, <1>5, <1>6 DEF Next

\* Types are kept by every handler, whatever is asked of the scheduler.
THEOREM TypeCorrect == Spec => []TypeOK
<1>1. IInv => TypeOK BY DEF IInv
<1> QED BY InitInv, NextInv, <1>1, PTL DEF Spec

\* cpu_idle_map always holds exactly the CPUs that run their idle task, and
\* idle_cpus says whether there is one.
THEOREM IdleMapCorrect == Spec => []IdleMapExact
<1>1. IInv => IdleMapExact BY DEF IInv
<1> QED BY InitInv, NextInv, <1>1, PTL DEF Spec

\* Only schedule() and the two steps of a writer touch the pid list and what is about to
\* be written to it.
LEMMA LimitsStep ==
  ASSUME TypeOK, Next
  PROVE  \/ /\ \/ inj'.limits = inj.limits
               \/ \E p : inj'.limits = ScanLimits(inj.limits, p)
            /\ inj'.writes = inj.writes
         \/ \E ask \in LimitAsks : SearchIdlePid(ask)
         \/ \E w \in inj.writes : UpdateIdlePid(w)
<1>1. inj \in InjRec BY DEF TypeOK
<1> DEFINE Kept == /\ \/ inj'.limits = inj.limits
                      \/ \E p : inj'.limits = ScanLimits(inj.limits, p)
                   /\ inj'.writes = inj.writes
<1>2. ASSUME NEW s, NEW cpu, NEW prev, PickAndSwitch(s, cpu, prev) PROVE Kept
  <2> DEFINE offset == NextOffset(inj)
             edt    == EarliestDeadline(s, cpu)
  <2>1. inj' = Choose(s, inj, cpu).inj BY <1>2 DEF PickAndSwitch
  <2>2. \/ inj' = [inj EXCEPT !.offset = 0]
        \/ inj' = [inj EXCEPT !.offset = offset]
        \/ inj' = [inj EXCEPT !.offset = offset, !.limits = ScanLimits(inj.limits, edt)]
    BY <2>1 DEF Choose
  <2> HIDE DEF offset, edt
  <2> QED BY <1>1, <2>2 DEF InjRec
<1>3. ASSUME NEW cpu, NEW deactivate, NEW s0, ScheduleTask(cpu, deactivate, s0) PROVE Kept
  BY <1>2, <1>3 DEF ScheduleTask
<1>4. ASSUME NEW cpu \in Cpus, OnCpu(cpu) PROVE Kept
  <2>1. CASE Schedule(cpu)
    <3>1. CASE ScheduleFromIdle(cpu) BY <1>2, <3>1 DEF ScheduleFromIdle
    <3>2. CASE ~ScheduleFromIdle(cpu)
      BY <1>3, <2>1, <3>2 DEF Schedule, SchedulePreempt, ScheduleYield, ScheduleSignalPending,
                              ScheduleSleep, ScheduleExit
    <3> QED BY <3>1, <3>2
  <2>2. CASE ~Schedule(cpu)
    <3>1. UNCHANGED inj
      BY <1>4, <2>2 DEF OnCpu, SetCurrentState, Exit, SchedFork, WakeUpNewTask, YieldTo,
                        SchedulerTick, IdleTick, WakeUpIdleCpu, CpuScaling
    <3> QED BY <3>1
  <2> QED BY <2>1, <2>2
<1>5. ASSUME NEW p \in Tasks, OnTask(p) PROVE Kept
  <2>1. UNCHANGED inj
    BY <1>5 DEF OnTask, TryToWakeUp, RtMutexSetprio, SetUserNice, SchedSetscheduler, SetCpusAllowed
  <2> QED BY <2>1
<1>6. ASSUME NEW rate, WriteGlobalRate(rate) PROVE Kept BY <1>1, <1>6 DEF WriteGlobalRate, InjRec
<1> QED BY <1>4, <1>5, <1>6 DEF Next

\* The scan restarts the entry that reaches its max_load and stops there, so it
\* leaves every count below its limit.
LEMMA ScanArmed ==
  ASSUME NEW limits \in Seq(LimitRec), NEW p,
         \A i \in DOMAIN limits : limits[i].times \in 0 .. limits[i].max_load - 1
  PROVE  LET l == ScanLimits(limits, p)
         IN  \A i \in DOMAIN l : l[i].times \in 0 .. l[i].max_load - 1
<1> DEFINE stop == {i \in DOMAIN limits : \E h \in Hits(limits, p) : h < i}
           hit(i) == i \in Hits(limits, p) /\ i \notin stop
           times(i) == CASE hit(i) -> 0
                         [] ~hit(i) /\ i \notin stop /\ Limits(limits[i], p) -> limits[i].times + 1
                         [] OTHER -> limits[i].times
           l == ScanLimits(limits, p)
<1>1. l = [i \in DOMAIN limits |-> [limits[i] EXCEPT !.times = times(i)]] BY DEF ScanLimits
<1> HIDE DEF l
<1> SUFFICES ASSUME NEW i \in DOMAIN limits PROVE l[i].times \in 0 .. l[i].max_load - 1
  BY <1>1 DEF l
<1>2. limits[i] \in LimitRec OBVIOUS
<1>3. limits[i].max_load \in Int /\ limits[i].times \in Int BY <1>2 DEF LimitRec
<1>4. l[i].max_load = limits[i].max_load /\ l[i].times = times(i) BY <1>1, <1>2 DEF LimitRec
<1>5. i \notin Hits(limits, p) /\ Limits(limits[i], p) => limits[i].times + 1 # limits[i].max_load
  BY DEF Hits
<1> HIDE DEF stop
<1>6. times(i) \in 0 .. limits[i].max_load - 1 BY <1>3, <1>5
<1> QED BY <1>4, <1>6

\* What a writer is about to link starts below its max_load, however long it waits for
\* the lock.
WritesArmed ==
  \A w \in inj.writes : w.new.times = 0 /\ w.new.max_load >= INJECTION_IDLE_CYCLE_PROC

\* Whatever is scheduled and whenever, and however many writers search the list while
\* others change it, no entry overshoots its max_load: the equality test of
\* earliest_deadline_task is met again and again.
THEOREM LimitsStayArmed == Spec => []LimitsArmed
<1>1. Init => LimitsArmed /\ WritesArmed BY DEF Init, LimitsArmed, WritesArmed
<1>2. TypeOK /\ LimitsArmed /\ WritesArmed /\ [Next]_vars => LimitsArmed' /\ WritesArmed'
  <2> SUFFICES ASSUME TypeOK, LimitsArmed, WritesArmed, [Next]_vars
               PROVE  LimitsArmed' /\ WritesArmed'
    OBVIOUS
  <2>1. CASE UNCHANGED vars BY <2>1 DEF vars, LimitsArmed, WritesArmed
  <2>2. CASE Next
    <3>1. inj \in InjRec /\ inj.limits \in Seq(LimitRec) /\ inj.writes \in SUBSET WriteRec
      BY InjFields DEF TypeOK
    <3>2. ASSUME \/ inj'.limits = inj.limits
                 \/ \E p : inj'.limits = ScanLimits(inj.limits, p),
                 inj'.writes = inj.writes
          PROVE  LimitsArmed' /\ WritesArmed'
      <4>1. WritesArmed' BY <3>2 DEF WritesArmed
      <4>2. CASE inj'.limits = inj.limits BY <4>1, <4>2 DEF LimitsArmed
      <4>3. CASE \E p : inj'.limits = ScanLimits(inj.limits, p)
        BY <3>1, <4>1, <4>3, ScanArmed DEF LimitsArmed
      <4> QED BY <3>2, <4>2, <4>3
    <3>3. ASSUME NEW ask \in LimitAsks, SearchIdlePid(ask) PROVE LimitsArmed' /\ WritesArmed'
      <4>1. ask \in LimitAsk BY InjAssumption
      <4>2. PICK w \in WriteRec :
              /\ inj' = [inj EXCEPT !.writes = @ \cup {w}]
              /\ w.new.times = 0 /\ w.new.max_load >= INJECTION_IDLE_CYCLE_PROC
        BY <3>1, <3>3, <4>1, SearchResult
      <4>3. inj'.limits = inj.limits /\ inj'.writes = inj.writes \cup {w} BY <3>1, <4>2 DEF InjRec
      <4> QED BY <4>2, <4>3 DEF LimitsArmed, WritesArmed
    <3>4. ASSUME NEW w \in inj.writes, UpdateIdlePid(w) PROVE LimitsArmed' /\ WritesArmed'
      <4>1. w \in WriteRec BY <3>1
      <4>2. w.new.times \in 0 .. w.new.max_load - 1
        <5>1. w.new.max_load \in Int BY <4>1 DEF WriteRec, LimitRec
        <5>2. w.new.times = 0 /\ w.new.max_load >= 5 BY DEF WritesArmed, INJECTION_IDLE_CYCLE_PROC
        <5> QED BY <5>1, <5>2
      <4>3. CASE w.at = NoCell \/ EntryAt(inj.limits, w.at) # {}
        <5>1. inj' = [inj EXCEPT !.limits = UpdateLimits(inj.limits, w), !.writes = inj.writes \ {w}]
          BY <3>4, <4>3 DEF UpdateIdlePid
        <5>2. inj'.limits = UpdateLimits(inj.limits, w) /\ inj'.writes = inj.writes \ {w}
          BY <3>1, <5>1 DEF InjRec
        <5>3. \A i \in DOMAIN inj'.limits :
                \/ inj'.limits[i] = w.new
                \/ \E k \in DOMAIN inj.limits : inj'.limits[i] = inj.limits[k]
          <6> DEFINE l == UpdateLimits(inj.limits, w)
          <6>1. \A i \in DOMAIN l : l[i] = w.new \/ \E k \in DOMAIN inj.limits : l[i] = inj.limits[k]
            BY <3>1, <4>1, <4>3, UpdateLimitsResult
          <6>2. inj'.limits = l BY <5>2
          <6> HIDE DEF l
          <6> QED BY <6>1, <6>2
        <5> QED BY <4>2, <5>2, <5>3 DEF LimitsArmed, WritesArmed
      <4>4. CASE ~(w.at = NoCell \/ EntryAt(inj.limits, w.at) # {})
        <5>1. inj' = [inj EXCEPT !.oops = TRUE] BY <3>4, <4>4 DEF UpdateIdlePid
        <5>2. inj'.limits = inj.limits /\ inj'.writes = inj.writes BY <3>1, <5>1 DEF InjRec
        <5> QED BY <5>2 DEF LimitsArmed, WritesArmed
      <4> QED BY <4>3, <4>4
    <3> QED BY <2>2, <3>2, <3>3, <3>4, LimitsStep
  <2> QED BY <2>1, <2>2
<1> QED BY TypeCorrect, <1>1, <1>2, PTL DEF Spec
=============================================================================
