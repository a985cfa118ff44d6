--------------------------- MODULE BfsQueueProofs ---------------------------
(***************************************************************************)
(* What the helpers of BfsQueue preserve.  Every helper that schedule()    *)
(* and the wakeup paths call before the switch itself leaves the state     *)
(* well typed, changes what no CPU runs and leaves the map of idle CPUs    *)
(* alone: that is the relation Step, and there is one lemma per helper.    *)
(***************************************************************************)
EXTENDS BfsQueue, WellFoundedInduction, TLAPS

\* s and t agree on what the CPUs run and on the idle map, and t is well typed.
Step(s, t) ==
  /\ t \in SchedState
  /\ t.grq.cpu_idle_map = s.grq.cpu_idle_map
  /\ t.grq.idle_cpus = s.grq.idle_cpus
  /\ \A c \in Cpus : t.rq[c].curr = s.rq[c].curr

\* Two task records agree on what decides where a task is, and with what right.
SameCore(a, b) ==
  /\ a.state = b.state /\ a.on_cpu = b.on_cpu /\ a.cpu = b.cpu /\ a.allowed = b.allowed
  /\ a.prio = b.prio /\ a.policy = b.policy /\ a.rt_priority = b.rt_priority
  /\ a.top_waiter = b.top_waiter

\* A Step that moves no task, changes no priority and counts nothing: clocks, time
\* slices, deadlines, the sticky flags and requests to reschedule.
Quiet(s, t) ==
  /\ Step(s, t)
  /\ t.grq.queue = s.grq.queue /\ t.grq.prio_bitmap = s.grq.prio_bitmap
  /\ t.grq.qnr = s.grq.qnr /\ t.grq.nr_running = s.grq.nr_running
  /\ t.grq.nr_uninterruptible = s.grq.nr_uninterruptible
  /\ \A p \in Tasks : SameCore(t.task[p], s.task[p])
-----------------------------------------------------------------------------
(***************************************************************************)
(* Least elements, on which every CHOOSE of BfsQueue rests.                *)
(***************************************************************************)
\* A non-empty set of naturals has a least element.
LEMMA NatMin == ASSUME NEW T, T \subseteq Nat, T # {} PROVE \E x \in T : \A y \in T : x <= y
<1> DEFINE R == OpToRel(<, Nat)
<1>1. IsWellFoundedOn(R, Nat) BY NatLessThanWellFounded
<1> HIDE DEF R
<1>2. \E x \in T : \A y \in T : ~(<<y, x>> \in R) BY <1>1, WFMin
<1>3. \A x, y \in Nat : y < x => <<y, x>> \in R BY DEF R, OpToRel
<1>4. PICK x \in T : \A y \in T : ~(<<y, x>> \in R) BY <1>2
<1>5. \A y \in T : x <= y
  <2> SUFFICES ASSUME NEW y \in T PROVE x <= y OBVIOUS
  <2>1. x \in Nat /\ y \in Nat OBVIOUS
  <2>2. ~(y < x) BY <1>3, <1>4, <2>1
  <2> QED BY <2>1, <2>2
<1> QED BY <1>5

Total(R, S) == \A a, b \in S : a # b => <<a, b>> \in R \/ <<b, a>> \in R
Transitive(R, S) == \A a, b, c \in S : <<a, b>> \in R /\ <<b, c>> \in R => <<a, c>> \in R

\* A non-empty part of 0 .. N has a best element under a relation that is total and
\* transitive on it.
LEMMA Best ==
  ASSUME NEW N \in Nat, NEW S, S \subseteq 0 .. N, S # {}, NEW R,
         Total(R, S), Transitive(R, S)
  PROVE  \E c \in S : \A d \in S \ {c} : <<c, d>> \in R
<1> DEFINE Good(n) == (\E x \in S : x <= n) => \E c \in S : c <= n /\ \A d \in S \ {c} : d <= n => <<c, d>> \in R
           Bad == {n \in Nat : ~Good(n)}
<1>1. Good(0) OBVIOUS
<1>2. ASSUME NEW n \in Nat, Good(n) PROVE Good(n + 1)
  <2>1. CASE n + 1 \notin S
    <3>1. \A x \in S : x <= n + 1 <=> x <= n BY <2>1
    <3> QED BY <3>1, <1>2
  <2>2. CASE n + 1 \in S /\ \E x \in S : x <= n
    <3>1. PICK c \in S : c <= n /\ \A d \in S \ {c} : d <= n => <<c, d>> \in R BY <2>2, <1>2
    <3>2. \A d \in S : d <= n + 1 => d <= n \/ d = n + 1 OBVIOUS
    <3>3. CASE <<c, n + 1>> \in R
      <4>1. \A d \in S \ {c} : d <= n + 1 => <<c, d>> \in R BY <3>1, <3>2, <3>3
      <4>2. c <= n + 1 BY <3>1
      <4> QED BY <4>1, <4>2
    <3>4. CASE <<n + 1, c>> \in R 
      <4>1. ASSUME NEW d \in S \ {n + 1}, d <= n + 1 PROVE <<n + 1, d>> \in R
        <5>1. CASE d = c BY <5>1, <3>4
        <5>2. CASE d # c
          <6>1. <<c, d>> \in R BY <5>2, <4>1, <3>1, <3>2
          <6> QED BY <6>1, <3>4, <2>2, <3>1 DEF Transitive
        <5> QED BY <5>1, <5>2
      <4> QED BY <4>1, <2>2
    <3>5. n + 1 \in S /\ c # n + 1 BY <3>1, <2>2
    <3>6. <<c, n + 1>> \in R \/ <<n + 1, c>> \in R BY <3>5 DEF Total
    <3> QED BY <3>6, <3>3, <3>4
  <2>3. CASE n + 1 \in S /\ ~\E x \in S : x <= n
    BY <2>3
  <2> QED BY <2>1, <2>2, <2>3
<1>3. \A n \in Nat : Good(n)
  <2> HIDE DEF Good
  <2>1. SUFFICES ASSUME Bad # {} PROVE FALSE OBVIOUS
  <2>2. PICK m \in Bad : \A y \in Bad : m <= y BY <2>1, NatMin
  <2>3. m \in Nat /\ ~Good(m) OBVIOUS
  <2>4. m # 0 BY <1>1, <2>3
  <2>5. m - 1 \in Nat /\ m - 1 \notin Bad BY <2>2, <2>3, <2>4
  <2>6. Good(m - 1) BY <2>5
  <2>7. Good((m - 1) + 1) BY <1>2, <2>5, <2>6
  <2>8. (m - 1) + 1 = m BY <2>3
  <2> QED BY <2>3, <2>7, <2>8
<1>4. Good(N) BY <1>3
<1>5. \A x \in S : x <= N OBVIOUS
<1>6. PICK c \in S : \A d \in S \ {c} : d <= N => <<c, d>> \in R BY <1>4, <1>5
<1> QED BY <1>5, <1>6
-----------------------------------------------------------------------------
(***************************************************************************)
(* Records: reading and writing one field keeps the types.                 *)
(***************************************************************************)
\* The fields of well-typed records.
LEMMA TaskFields ==
  ASSUME NEW t \in TaskRec
  PROVE  /\ t.state \in TaskStates /\ t.policy \in Policies /\ t.rt_priority \in RtPrios
         /\ t.nice \in Nices /\ t.prio \in QueuePrios /\ t.deadline \in Nat
         /\ t.time_slice \in 0 .. SLICE /\ t.sticky \in BOOLEAN /\ t.cpu \in Cpus
         /\ t.allowed \in SUBSET Cpus /\ t.on_cpu \in BOOLEAN
         /\ t.top_waiter \in 0 .. PRIO_LIMIT /\ t.reset_on_fork \in BOOLEAN
         /\ t.parent \in Tasks \cup {NoTask}
BY DEF TaskRec

\* The fields of a well-typed struct rq.
LEMMA RqFields ==
  ASSUME NEW r \in RqRec
  PROVE  /\ r.curr \in Tasks \cup {Idle} /\ r.need_resched \in BOOLEAN
         /\ r.prio \in 0 .. PRIO_LIMIT /\ r.policy \in Policies /\ r.deadline \in Nat
         /\ r.time_slice \in 0 .. SLICE /\ r.sticky_task \in Tasks \cup {NoTask}
         /\ r.scaling \in BOOLEAN
BY DEF RqRec

\* The fields of a well-typed struct global_rq.
LEMMA GrqFields ==
  ASSUME NEW g \in GrqRec
  PROVE  /\ g.queue \in [QueuePrios -> Seq(Tasks)] /\ g.prio_bitmap \in SUBSET QueuePrios
         /\ g.qnr \in Int /\ g.nr_running \in Int /\ g.nr_uninterruptible \in Int
         /\ g.cpu_idle_map \in SUBSET Cpus /\ g.idle_cpus \in BOOLEAN
         /\ g.niffies \in Nat /\ g.iso_refractory \in BOOLEAN
BY DEF GrqRec

\* Assigning a field of a task, of a rq or of the grq.
LEMMA TaskWrite ==
  ASSUME NEW t \in TaskRec
  PROVE  /\ \A v \in TaskStates : [t EXCEPT !.state = v] \in TaskRec
         /\ \A v \in Policies : [t EXCEPT !.policy = v] \in TaskRec
         /\ \A v \in RtPrios : [t EXCEPT !.rt_priority = v] \in TaskRec
         /\ \A v \in Nices : [t EXCEPT !.nice = v] \in TaskRec
         /\ \A v \in QueuePrios : [t EXCEPT !.prio = v] \in TaskRec
         /\ \A v \in Nat : [t EXCEPT !.deadline = v] \in TaskRec
         /\ \A v \in 0 .. SLICE : [t EXCEPT !.time_slice = v] \in TaskRec
         /\ \A v \in BOOLEAN : [t EXCEPT !.sticky = v] \in TaskRec
         /\ \A v \in Cpus : [t EXCEPT !.cpu = v] \in TaskRec
         /\ \A v \in SUBSET Cpus : [t EXCEPT !.allowed = v] \in TaskRec
         /\ \A v \in BOOLEAN : [t EXCEPT !.on_cpu = v] \in TaskRec
         /\ \A v \in 0 .. PRIO_LIMIT : [t EXCEPT !.top_waiter = v] \in TaskRec
         /\ \A v \in BOOLEAN : [t EXCEPT !.reset_on_fork = v] \in TaskRec
         /\ \A v \in Tasks \cup {NoTask} : [t EXCEPT !.parent = v] \in TaskRec
BY ZenonT(60) DEF TaskRec

\* Assigning one field of a struct rq keeps its type.
LEMMA RqWrite ==
  ASSUME NEW r \in RqRec
  PROVE  /\ \A v \in Tasks \cup {Idle} : [r EXCEPT !.curr = v] \in RqRec
         /\ \A v \in BOOLEAN : [r EXCEPT !.need_resched = v] \in RqRec
         /\ \A v \in 0 .. PRIO_LIMIT : [r EXCEPT !.prio = v] \in RqRec
         /\ \A v \in Policies : [r EXCEPT !.policy = v] \in RqRec
         /\ \A v \in Nat : [r EXCEPT !.deadline = v] \in RqRec
         /\ \A v \in 0 .. SLICE : [r EXCEPT !.time_slice = v] \in RqRec
         /\ \A v \in Tasks \cup {NoTask} : [r EXCEPT !.sticky_task = v] \in RqRec
         /\ \A v \in BOOLEAN : [r EXCEPT !.scaling = v] \in RqRec
BY ZenonT(60) DEF RqRec

\* Assigning one field of the struct global_rq keeps its type.
LEMMA GrqWrite ==
  ASSUME NEW g \in GrqRec
  PROVE  /\ \A v \in [QueuePrios -> Seq(Tasks)] : [g EXCEPT !.queue = v] \in GrqRec
         /\ \A v \in SUBSET QueuePrios : [g EXCEPT !.prio_bitmap = v] \in GrqRec
         /\ \A v \in Int : [g EXCEPT !.qnr = v] \in GrqRec
         /\ \A v \in Int : [g EXCEPT !.nr_running = v] \in GrqRec
         /\ \A v \in Int : [g EXCEPT !.nr_uninterruptible = v] \in GrqRec
         /\ \A v \in SUBSET Cpus : [g EXCEPT !.cpu_idle_map = v] \in GrqRec
         /\ \A v \in BOOLEAN : [g EXCEPT !.idle_cpus = v] \in GrqRec
         /\ \A v \in Nat : [g EXCEPT !.niffies = v] \in GrqRec
         /\ \A v \in BOOLEAN : [g EXCEPT !.iso_refractory = v] \in GrqRec
BY ZenonT(60) DEF GrqRec

\* The parts of a state.
LEMMA StateParts ==
  ASSUME NEW s \in SchedState
  PROVE  /\ s.grq \in GrqRec
         /\ s.rq \in [Cpus -> RqRec]
         /\ s.task \in [Tasks -> TaskRec]
         /\ \A c \in Cpus : s.rq[c] \in RqRec
         /\ \A p \in Tasks : s.task[p] \in TaskRec
BY DEF SchedState

\* Doing nothing is a Step.
LEMMA StepRefl == ASSUME NEW s \in SchedState PROVE Step(s, s)
BY DEF Step

\* Replacing one task, one rq that goes on running the same task, or the grq up to
\* its idle map.
LEMMA TaskStep ==
  ASSUME NEW s \in SchedState, NEW p \in Tasks, NEW t \in TaskRec
  PROVE  Step(s, [s EXCEPT !.task[p] = t])
BY DEF Step, SchedState

\* Replacing a rq that goes on running the same task is a Step.
LEMMA RqStep ==
  ASSUME NEW s \in SchedState, NEW c \in Cpus, NEW r \in RqRec, r.curr = s.rq[c].curr
  PROVE  Step(s, [s EXCEPT !.rq[c] = r])
BY DEF Step, SchedState

\* Replacing the grq up to its idle map is a Step.
LEMMA GrqStep ==
  ASSUME NEW s \in SchedState, NEW g \in GrqRec,
         g.cpu_idle_map = s.grq.cpu_idle_map, g.idle_cpus = s.grq.idle_cpus
  PROVE  Step(s, [s EXCEPT !.grq = g])
BY DEF Step, SchedState

\* Assigning one field.
LEMMA TaskAssign ==
  ASSUME NEW s \in SchedState, NEW p \in Tasks
  PROVE  /\ \A v \in TaskStates : Step(s, [s EXCEPT !.task[p].state = v])
         /\ \A v \in Policies : Step(s, [s EXCEPT !.task[p].policy = v])
         /\ \A v \in RtPrios : Step(s, [s EXCEPT !.task[p].rt_priority = v])
         /\ \A v \in Nices : Step(s, [s EXCEPT !.task[p].nice = v])
         /\ \A v \in QueuePrios : Step(s, [s EXCEPT !.task[p].prio = v])
         /\ \A v \in Nat : Step(s, [s EXCEPT !.task[p].deadline = v])
         /\ \A v \in 0 .. SLICE : Step(s, [s EXCEPT !.task[p].time_slice = v])
         /\ \A v \in BOOLEAN : Step(s, [s EXCEPT !.task[p].sticky = v])
         /\ \A v \in Cpus : Step(s, [s EXCEPT !.task[p].cpu = v])
         /\ \A v \in SUBSET Cpus : Step(s, [s EXCEPT !.task[p].allowed = v])
         /\ \A v \in BOOLEAN : Step(s, [s EXCEPT !.task[p].on_cpu = v])
         /\ \A v \in 0 .. PRIO_LIMIT : Step(s, [s EXCEPT !.task[p].top_waiter = v])
         /\ \A v \in BOOLEAN : Step(s, [s EXCEPT !.task[p].reset_on_fork = v])
         /\ \A v \in Tasks \cup {NoTask} : Step(s, [s EXCEPT !.task[p].parent = v])
<1>1. s.task[p] \in TaskRec BY StateParts
<1>2. \A t \in TaskRec : Step(s, [s EXCEPT !.task[p] = t]) BY TaskStep
<1> QED BY <1>1, <1>2, TaskWrite, ZenonT(60)

\* Assigning one field of a rq, other than curr, is a Step.
LEMMA RqAssign ==
  ASSUME NEW s \in SchedState, NEW c \in Cpus
  PROVE  /\ \A v \in BOOLEAN : Step(s, [s EXCEPT !.rq[c].need_resched = v])
         /\ \A v \in 0 .. PRIO_LIMIT : Step(s, [s EXCEPT !.rq[c].prio = v])
         /\ \A v \in Policies : Step(s, [s EXCEPT !.rq[c].policy = v])
         /\ \A v \in Nat : Step(s, [s EXCEPT !.rq[c].deadline = v])
         /\ \A v \in 0 .. SLICE : Step(s, [s EXCEPT !.rq[c].time_slice = v])
         /\ \A v \in Tasks \cup {NoTask} : Step(s, [s EXCEPT !.rq[c].sticky_task = v])
         /\ \A v \in BOOLEAN : Step(s, [s EXCEPT !.rq[c].scaling = v])
<1>1. s.rq[c] \in RqRec BY StateParts
<1>2. \A r \in RqRec : r.curr = s.rq[c].curr => Step(s, [s EXCEPT !.rq[c] = r]) BY RqStep
<1>3. /\ \A v : [s.rq[c] EXCEPT !.need_resched = v].curr = s.rq[c].curr
      /\ \A v : [s.rq[c] EXCEPT !.prio = v].curr = s.rq[c].curr
      /\ \A v : [s.rq[c] EXCEPT !.policy = v].curr = s.rq[c].curr
      /\ \A v : [s.rq[c] EXCEPT !.deadline = v].curr = s.rq[c].curr
      /\ \A v : [s.rq[c] EXCEPT !.time_slice = v].curr = s.rq[c].curr
      /\ \A v : [s.rq[c] EXCEPT !.sticky_task = v].curr = s.rq[c].curr
      /\ \A v : [s.rq[c] EXCEPT !.scaling = v].curr = s.rq[c].curr
  BY <1>1 DEF RqRec
<1> QED BY <1>1, <1>2, <1>3, RqWrite, ZenonT(60)

\* Assigning one field of the grq, other than the idle map, is a Step.
LEMMA GrqAssign ==
  ASSUME NEW s \in SchedState
  PROVE  /\ \A v \in [QueuePrios -> Seq(Tasks)] : Step(s, [s EXCEPT !.grq.queue = v])
         /\ \A i \in QueuePrios, v \in Seq(Tasks) : Step(s, [s EXCEPT !.grq.queue[i] = v])
         /\ \A v \in SUBSET QueuePrios : Step(s, [s EXCEPT !.grq.prio_bitmap = v])
         /\ \A v \in Int : Step(s, [s EXCEPT !.grq.qnr = v])
         /\ \A v \in Int : Step(s, [s EXCEPT !.grq.nr_running = v])
         /\ \A v \in Int : Step(s, [s EXCEPT !.grq.nr_uninterruptible = v])
         /\ \A v \in Nat : Step(s, [s EXCEPT !.grq.niffies = v])
         /\ \A v \in BOOLEAN : Step(s, [s EXCEPT !.grq.iso_refractory = v])
<1>1. s.grq \in GrqRec BY StateParts
<1>2. \A g \in GrqRec : g.cpu_idle_map = s.grq.cpu_idle_map /\ g.idle_cpus = s.grq.idle_cpus
                          => Step(s, [s EXCEPT !.grq = g]) BY GrqStep
<1> DEFINE Same(g) == g.cpu_idle_map = s.grq.cpu_idle_map /\ g.idle_cpus = s.grq.idle_cpus
<1>3. /\ \A v : Same([s.grq EXCEPT !.queue = v])
      /\ \A v : Same([s.grq EXCEPT !.prio_bitmap = v])
      /\ \A v : Same([s.grq EXCEPT !.qnr = v])
      /\ \A v : Same([s.grq EXCEPT !.nr_running = v])
      /\ \A v : Same([s.grq EXCEPT !.nr_uninterruptible = v])
      /\ \A v : Same([s.grq EXCEPT !.niffies = v])
      /\ \A v : Same([s.grq EXCEPT !.iso_refractory = v])
  BY <1>1 DEF GrqRec
<1>4. \A v \in [QueuePrios -> Seq(Tasks)] : Step(s, [s EXCEPT !.grq.queue = v])
  BY <1>1, <1>2, <1>3, GrqWrite, ZenonT(30)
<1>5. \A i \in QueuePrios, v \in Seq(Tasks) : [s.grq.queue EXCEPT ![i] = v] \in [QueuePrios -> Seq(Tasks)]
  BY <1>1, GrqFields
<1>6. \A i \in QueuePrios, v \in Seq(Tasks) : Step(s, [s EXCEPT !.grq.queue[i] = v])
  BY <1>4, <1>5, ZenonT(30)
<1>7. /\ \A v \in SUBSET QueuePrios : Step(s, [s EXCEPT !.grq.prio_bitmap = v])
      /\ \A v \in Int : Step(s, [s EXCEPT !.grq.qnr = v])
      /\ \A v \in Int : Step(s, [s EXCEPT !.grq.nr_running = v])
      /\ \A v \in Int : Step(s, [s EXCEPT !.grq.nr_uninterruptible = v])
      /\ \A v \in Nat : Step(s, [s EXCEPT !.grq.niffies = v])
      /\ \A v \in BOOLEAN : Step(s, [s EXCEPT !.grq.iso_refractory = v])
  BY <1>1, <1>2, <1>3, GrqWrite, ZenonT(60)
<1> QED BY <1>4, <1>6, <1>7

\* Doing nothing is quiet.
LEMMA QuietRefl == ASSUME NEW s \in SchedState PROVE Quiet(s, s)
BY StepRefl DEF Quiet, SameCore

\* Assigning a field of a task that is not of its core is quiet.
LEMMA TaskQuiet ==
  ASSUME NEW s \in SchedState, NEW p \in Tasks
  PROVE  /\ \A v \in Nices : Quiet(s, [s EXCEPT !.task[p].nice = v])
         /\ \A v \in Nat : Quiet(s, [s EXCEPT !.task[p].deadline = v])
         /\ \A v \in 0 .. SLICE : Quiet(s, [s EXCEPT !.task[p].time_slice = v])
         /\ \A v \in BOOLEAN : Quiet(s, [s EXCEPT !.task[p].sticky = v])
         /\ \A v \in BOOLEAN : Quiet(s, [s EXCEPT !.task[p].reset_on_fork = v])
         /\ \A v \in Tasks \cup {NoTask} : Quiet(s, [s EXCEPT !.task[p].parent = v])
<1>1. s.task[p] \in TaskRec BY StateParts
<1>2. ASSUME NEW t \in TaskRec, SameCore(t, s.task[p]) PROVE Quiet(s, [s EXCEPT !.task[p] = t])
  <2>1. Step(s, [s EXCEPT !.task[p] = t]) BY TaskStep
  <2>2. [s EXCEPT !.task[p] = t].grq = s.grq BY DEF SchedState
  <2>3. \A q \in Tasks : SameCore([s EXCEPT !.task[p] = t].task[q], s.task[q])
    BY <1>2 DEF SchedState, SameCore
  <2> QED BY <2>1, <2>2, <2>3 DEF Quiet
<1>3. /\ \A v : SameCore([s.task[p] EXCEPT !.nice = v], s.task[p])
      /\ \A v : SameCore([s.task[p] EXCEPT !.deadline = v], s.task[p])
      /\ \A v : SameCore([s.task[p] EXCEPT !.time_slice = v], s.task[p])
      /\ \A v : SameCore([s.task[p] EXCEPT !.sticky = v], s.task[p])
      /\ \A v : SameCore([s.task[p] EXCEPT !.reset_on_fork = v], s.task[p])
      /\ \A v : SameCore([s.task[p] EXCEPT !.parent = v], s.task[p])
  BY <1>1 DEF TaskRec, SameCore
<1> QED BY <1>1, <1>2, <1>3, TaskWrite, ZenonT(60)

\* Assigning a field of a rq other than curr is quiet.
LEMMA RqQuiet ==
  ASSUME NEW s \in SchedState, NEW c \in Cpus
  PROVE  /\ \A v \in BOOLEAN : Quiet(s, [s EXCEPT !.rq[c].need_resched = v])
         /\ \A v \in 0 .. PRIO_LIMIT : Quiet(s, [s EXCEPT !.rq[c].prio = v])
         /\ \A v \in Policies : Quiet(s, [s EXCEPT !.rq[c].policy = v])
         /\ \A v \in Nat : Quiet(s, [s EXCEPT !.rq[c].deadline = v])
         /\ \A v \in 0 .. SLICE : Quiet(s, [s EXCEPT !.rq[c].time_slice = v])
         /\ \A v \in Tasks \cup {NoTask} : Quiet(s, [s EXCEPT !.rq[c].sticky_task = v])
         /\ \A v \in BOOLEAN : Quiet(s, [s EXCEPT !.rq[c].scaling = v])
<1>1. ASSUME NEW r, Step(s, [s EXCEPT !.rq[c] = r]) PROVE Quiet(s, [s EXCEPT !.rq[c] = r])
  <2>1. [s EXCEPT !.rq[c] = r].grq = s.grq /\ [s EXCEPT !.rq[c] = r].task = s.task
    BY DEF SchedState
  <2> QED BY <1>1, <2>1 DEF Quiet, SameCore
<1> QED BY <1>1, RqAssign, ZenonT(60)

\* Assigning the clock, or the refractory flag, is quiet.
LEMMA GrqQuiet ==
  ASSUME NEW s \in SchedState
  PROVE  /\ \A v \in Nat : Quiet(s, [s EXCEPT !.grq.niffies = v])
         /\ \A v \in BOOLEAN : Quiet(s, [s EXCEPT !.grq.iso_refractory = v])
<1> DEFINE Same(g) == /\ g.queue = s.grq.queue /\ g.prio_bitmap = s.grq.prio_bitmap
                      /\ g.qnr = s.grq.qnr /\ g.nr_running = s.grq.nr_running
                      /\ g.nr_uninterruptible = s.grq.nr_uninterruptible
<1>1. ASSUME NEW g, Same(g), Step(s, [s EXCEPT !.grq = g]) PROVE Quiet(s, [s EXCEPT !.grq = g])
  <2>1. [s EXCEPT !.grq = g].grq = g /\ [s EXCEPT !.grq = g].task = s.task BY DEF SchedState
  <2> QED BY <1>1, <2>1 DEF Quiet, SameCore
<1>2. s.grq \in GrqRec BY StateParts
<1>3. /\ \A v : Same([s.grq EXCEPT !.niffies = v])
      /\ \A v : Same([s.grq EXCEPT !.iso_refractory = v])
  BY <1>2 DEF GrqRec
<1> HIDE DEF Same
<1> QED BY <1>1, <1>3, GrqAssign, ZenonT(60)
-----------------------------------------------------------------------------
(***************************************************************************)
(* Priorities and deadlines.                                               *)
(***************************************************************************)
\* A policy's own priority is a queue, inherited or not.
LEMMA NormalPrio ==
  ASSUME NEW policy, NEW rt \in RtPrios
  PROVE  normal_prio(policy, rt) \in QueuePrios
BY PrioAssumption DEF normal_prio, RtPrios, QueuePrios, PRIO_LIMIT, IDLE_PRIO, ISO_PRIO, NORMAL_PRIO

\* effective_prio returns a priority that has a queue.
LEMMA EffectivePrio == ASSUME NEW t \in TaskRec PROVE effective_prio(t) \in QueuePrios
BY NormalPrio, TaskFields DEF effective_prio

\* So does rt_mutex_getprio: a waiter only counts if it is better than that.
LEMMA GetPrio ==
  ASSUME NEW t, t.top_waiter \in 0 .. PRIO_LIMIT, NEW n \in QueuePrios
  PROVE  rt_mutex_getprio(t, n) \in QueuePrios
BY PrioAssumption DEF rt_mutex_getprio, QueuePrios, PRIO_LIMIT

\* enqueue_task always picks a priority that has a queue.
LEMMA EnqueuePrioType ==
  ASSUME NEW s \in SchedState, NEW p \in Tasks, NEW fit
  PROVE  EnqueuePrio(s, p, fit) \in QueuePrios
<1>1. s.task[p] \in TaskRec BY StateParts
<1>2. NORMAL_PRIO \in QueuePrios BY PrioAssumption DEF NORMAL_PRIO, QueuePrios, PRIO_LIMIT
<1> QED BY <1>1, <1>2, TaskFields, NormalPrio DEF EnqueuePrio

\* The largest nice level exists, so longest_deadline_diff is one of the offsets.
LEMMA LongestDiff == longest_deadline_diff \in Nat
<1> DEFINE T == {19 - n : n \in Nices}
<1>1. T \subseteq Nat /\ T # {}
  <2>1. \A n \in Nices : n \in -20 .. 19 BY DeadlineAssumption
  <2>2. \A n \in Nices : 19 - n \in Nat BY <2>1
  <2>3. 0 \in Nices BY DeadlineAssumption
  <2>4. 19 - 0 \in T BY <2>3
  <2> QED BY <2>2, <2>4
<1>2. PICK x \in T : \A y \in T : x <= y BY <1>1, NatMin
<1>3. PICK n \in Nices : x = 19 - n BY <1>2
<1>4. \A m \in Nices : 19 - m \in T OBVIOUS
<1>5. \A m \in Nices : m <= n
  <2> SUFFICES ASSUME NEW m \in Nices PROVE m <= n OBVIOUS
  <2>1. 19 - n <= 19 - m BY <1>2, <1>3, <1>4
  <2>2. m \in Int /\ n \in Int BY DeadlineAssumption
  <2> QED BY <2>1, <2>2
<1> HIDE DEF T
<1>6. (CHOOSE k \in Nices : \A m \in Nices : m <= k) \in Nices BY <1>5
<1> QED BY <1>6, DeadlineAssumption DEF longest_deadline_diff

\* The deadline earliest_deadline_task compares is a number.
LEMMA EffectiveDeadlineType ==
  ASSUME NEW s \in SchedState, NEW p \in Tasks, NEW cpu
  PROVE  EffectiveDeadline(s, p, cpu) \in Nat
<1>1. s.task[p].deadline \in Nat BY StateParts, TaskFields
<1> QED BY <1>1, LongestDiff, DeadlineAssumption DEF EffectiveDeadline

\* Consecutive Steps make a Step.
LEMMA Chain ==
  ASSUME NEW s, NEW t, NEW u, Step(s, t), t \in SchedState => Step(t, u)
  PROVE  Step(s, u)
BY DEF Step

\* Consecutive quiet steps are quiet.
LEMMA QuietChain ==
  ASSUME NEW s, NEW t, NEW u, Quiet(s, t), t \in SchedState => Quiet(t, u)
  PROVE  Quiet(s, u)
<1>1. t \in SchedState BY DEF Quiet, Step
<1>2. Step(s, u) BY <1>1, Chain DEF Quiet
<1>3. \A p \in Tasks : SameCore(u.task[p], s.task[p]) BY <1>1 DEF Quiet, SameCore
<1> QED BY <1>1, <1>2, <1>3 DEF Quiet

\* time_slice_expired is quiet.
LEMMA ExpiredQuiet ==
  ASSUME NEW s \in SchedState, NEW p \in Tasks PROVE Quiet(s, time_slice_expired(s, p))
<1> DEFINE v == s.grq.niffies + DeadlineDiff[s.task[p].nice]
           t == [s EXCEPT !.task[p].time_slice = SLICE]
<1>1. s.task[p].nice \in Nices BY StateParts, TaskFields
<1>2. s.grq.niffies \in Nat BY StateParts, GrqFields
<1>3. v \in Nat
  <2>1. DeadlineDiff[s.task[p].nice] \in Nat BY <1>1, DeadlineAssumption
  <2> QED BY <1>2, <2>1
<1>4. SLICE \in 0 .. SLICE BY SliceAssumption
<1> HIDE DEF v
<1>5. Quiet(s, t) BY <1>4, TaskQuiet
<1> HIDE DEF t
<1>6. Quiet(s, [t EXCEPT !.task[p].deadline = v]) BY <1>3, <1>5, QuietChain, TaskQuiet
<1>7. time_slice_expired(s, p) = [t EXCEPT !.task[p].deadline = v]
  BY DEF time_slice_expired, t, v
<1> QED BY <1>6, <1>7

\* So it is a Step.
LEMMA ExpiredStep ==
  ASSUME NEW s \in SchedState, NEW p \in Tasks PROVE Step(s, time_slice_expired(s, p))
BY ExpiredQuiet DEF Quiet

\* check_deadline is quiet.
LEMMA CheckDeadlineQuiet ==
  ASSUME NEW s \in SchedState, NEW p \in Tasks PROVE Quiet(s, check_deadline(s, p))
BY ExpiredQuiet, QuietRefl DEF check_deadline

\* So it is a Step.
LEMMA CheckDeadlineStep ==
  ASSUME NEW s \in SchedState, NEW p \in Tasks PROVE Step(s, check_deadline(s, p))
BY CheckDeadlineQuiet DEF Quiet
-----------------------------------------------------------------------------
(***************************************************************************)
(* The run queue.                                                          *)
(***************************************************************************)
\* Unlinking from a list of tasks leaves a list of tasks, even one p is not on.
LEMMA UnlinkType == ASSUME NEW q \in Seq(Tasks), NEW p PROVE Unlink(q, p) \in Seq(Tasks)
<1> DEFINE i == CHOOSE j \in DOMAIN q : q[j] = p
           r == [j \in 1 .. Len(q) - 1 |-> IF j < i THEN q[j] ELSE q[j + 1]]
<1>1. Len(q) \in Nat /\ \A k \in 1 .. Len(q) : q[k] \in Tasks OBVIOUS
<1> HIDE DEF i
<1>2. CASE Len(q) = 0 BY <1>2 DEF Unlink
<1>3. CASE Len(q) # 0
  <2>1. Len(q) - 1 \in Nat BY <1>1, <1>3
  <2>2. \A j \in 1 .. Len(q) - 1 : r[j] \in Tasks BY <1>1
  <2>3. r \in Seq(Tasks) BY <2>1, <2>2
  <2> QED BY <2>3 DEF Unlink, i
<1> QED BY <1>2, <1>3

\* dequeue_task is a Step.
LEMMA DequeueStep ==
  ASSUME NEW s \in SchedState, NEW p \in Tasks PROVE Step(s, dequeue_task(s, p))
<1> DEFINE prio == s.task[p].prio
           rest == Unlink(s.grq.queue[prio], p)
           t    == [s EXCEPT !.grq.queue[prio] = rest]
           bits == IF rest = <<>> THEN t.grq.prio_bitmap \ {prio} ELSE t.grq.prio_bitmap
<1>1. prio \in QueuePrios BY StateParts, TaskFields
<1>2. rest \in Seq(Tasks)
  <2>1. s.grq.queue \in [QueuePrios -> Seq(Tasks)] BY StateParts, GrqFields
  <2> QED BY <1>1, <2>1, UnlinkType
<1>3. dequeue_task(s, p) = [t EXCEPT !.grq.prio_bitmap = bits] BY DEF dequeue_task
<1> HIDE DEF prio, rest
<1>4. Step(s, t) BY <1>1, <1>2, GrqAssign
<1> HIDE DEF t
<1>5. ASSUME t \in SchedState PROVE Step(t, [t EXCEPT !.grq.prio_bitmap = bits])
  <2>1. bits \in SUBSET QueuePrios BY <1>5, StateParts, GrqFields
  <2> QED BY <1>5, <2>1, GrqAssign
<1> QED BY <1>3, <1>4, <1>5, Chain

\* enqueue_task is a Step.
LEMMA EnqueueStep ==
  ASSUME NEW s \in SchedState, NEW p \in Tasks, NEW fit PROVE Step(s, enqueue_task(s, p, fit))
<1> DEFINE prio == EnqueuePrio(s, p, fit)
           t    == [s EXCEPT !.task[p].prio = prio]
           u    == [t EXCEPT !.grq.queue[prio] = Append(@, p)]
           bits == u.grq.prio_bitmap \cup {prio}
<1>1. prio \in QueuePrios BY EnqueuePrioType
<1>2. enqueue_task(s, p, fit) = [u EXCEPT !.grq.prio_bitmap = bits] BY DEF enqueue_task
<1> HIDE DEF prio
<1>3. Step(s, t) BY <1>1, TaskAssign
<1> HIDE DEF t
<1>4. ASSUME t \in SchedState PROVE Step(t, u)
  <2>1. t.grq.queue[prio] \in Seq(Tasks) BY <1>1, <1>4, StateParts, GrqFields
  <2>2. Append(t.grq.queue[prio], p) \in Seq(Tasks) BY <2>1
  <2> QED BY <1>1, <1>4, <2>2, GrqAssign
<1>5. Step(s, u) BY <1>3, <1>4, Chain
<1> HIDE DEF u
<1>6. ASSUME u \in SchedState PROVE Step(u, [u EXCEPT !.grq.prio_bitmap = bits])
  <2>1. bits \in SUBSET QueuePrios BY <1>1, <1>6, StateParts, GrqFields
  <2> QED BY <1>6, <2>1, GrqAssign
<1> QED BY <1>2, <1>5, <1>6, Chain

\* inc_qnr and dec_qnr are Steps.
LEMMA QnrStep ==
  ASSUME NEW s \in SchedState PROVE Step(s, inc_qnr(s)) /\ Step(s, dec_qnr(s))
<1>1. s.grq.qnr \in Int BY StateParts, GrqFields
<1>2. s.grq.qnr + 1 \in Int /\ s.grq.qnr - 1 \in Int BY <1>1
<1> QED BY <1>2, GrqAssign DEF inc_qnr, dec_qnr

\* clear_sticky is quiet.
LEMMA ClearStickyQuiet ==
  ASSUME NEW s \in SchedState, NEW p \in Tasks PROVE Quiet(s, clear_sticky(s, p))
BY TaskQuiet DEF clear_sticky

\* So it is a Step.
LEMMA ClearStickyStep ==
  ASSUME NEW s \in SchedState, NEW p \in Tasks PROVE Step(s, clear_sticky(s, p))
BY ClearStickyQuiet DEF Quiet

\* activate_task is a Step.
LEMMA ActivateStep ==
  ASSUME NEW s \in SchedState, NEW p \in Tasks, NEW fit PROVE Step(s, activate_task(s, p, fit))
<1> DEFINE t == [s EXCEPT !.task[p].prio = effective_prio(s.task[p])]
           n == IF s.task[p].state = "uninterruptible" THEN t.grq.nr_uninterruptible - 1
                ELSE t.grq.nr_uninterruptible
           u == [t EXCEPT !.grq.nr_uninterruptible = n]
           v == inc_qnr(enqueue_task(u, p, fit))
<1>1. activate_task(s, p, fit) = [v EXCEPT !.grq.nr_running = @ + 1] BY DEF activate_task
<1>2. Step(s, t) BY TaskAssign, StateParts, EffectivePrio
<1> HIDE DEF t
<1>3. ASSUME t \in SchedState PROVE Step(t, u)
  <2>1. t.grq.nr_uninterruptible \in Int BY <1>3, StateParts, GrqFields
  <2>2. n \in Int BY <2>1
  <2> QED BY <1>3, <2>2, GrqAssign
<1>4. Step(s, u) BY <1>2, <1>3, Chain
<1> HIDE DEF u
<1>5. ASSUME u \in SchedState PROVE Step(u, v)
  <2>1. Step(u, enqueue_task(u, p, fit)) BY <1>5, EnqueueStep
  <2> QED BY <2>1, QnrStep, Chain
<1>6. Step(s, v) BY <1>4, <1>5, Chain
<1> HIDE DEF v
<1>7. ASSUME v \in SchedState PROVE Step(v, [v EXCEPT !.grq.nr_running = @ + 1])
  <2>1. v.grq.nr_running \in Int BY <1>7, StateParts, GrqFields
  <2>2. v.grq.nr_running + 1 \in Int BY <2>1
  <2> QED BY <1>7, <2>2, GrqAssign
<1> QED BY <1>1, <1>6, <1>7, Chain

\* deactivate_task is a Step.
LEMMA DeactivateStep ==
  ASSUME NEW s \in SchedState, NEW p \in Tasks PROVE Step(s, deactivate_task(s, p))
<1> DEFINE n == IF s.task[p].state = "uninterruptible" THEN s.grq.nr_uninterruptible + 1
                ELSE s.grq.nr_uninterruptible
           t == [s EXCEPT !.grq.nr_uninterruptible = n]
           u == [t EXCEPT !.grq.nr_running = @ - 1]
<1>1. deactivate_task(s, p) = [u EXCEPT !.task[p].sticky = FALSE] BY DEF deactivate_task
<1>2. n \in Int
  <2>1. s.grq.nr_uninterruptible \in Int BY StateParts, GrqFields
  <2> QED BY <2>1
<1> HIDE DEF n
<1>3. Step(s, t) BY <1>2, GrqAssign
<1> HIDE DEF t
<1>4. ASSUME t \in SchedState PROVE Step(t, u)
  <2>1. t.grq.nr_running \in Int BY <1>4, StateParts, GrqFields
  <2>2. t.grq.nr_running - 1 \in Int BY <2>1
  <2> QED BY <1>4, <2>2, GrqAssign
<1>5. Step(s, u) BY <1>3, <1>4, Chain
<1> HIDE DEF u
<1>6. ASSUME u \in SchedState PROVE Step(u, [u EXCEPT !.task[p].sticky = FALSE])
  BY <1>6, TaskAssign
<1> QED BY <1>1, <1>5, <1>6, Chain

\* take_task is a Step: it is schedule() that then makes the CPU run the task.
LEMMA TakeStep ==
  ASSUME NEW s \in SchedState, NEW cpu \in Cpus, NEW p \in Tasks
  PROVE  Step(s, take_task(s, cpu, p))
<1> DEFINE t == [s EXCEPT !.task[p].cpu = cpu]
           u == dequeue_task(t, p)
           v == clear_sticky(u, p)
<1>1. take_task(s, cpu, p) = dec_qnr(v) BY DEF take_task
<1>2. Step(s, t) BY TaskAssign
<1> HIDE DEF t
<1>3. Step(s, u) BY <1>2, Chain, DequeueStep
<1> HIDE DEF u
<1>4. Step(s, v) BY <1>3, Chain, ClearStickyStep
<1> HIDE DEF v
<1> QED BY <1>1, <1>4, Chain, QnrStep

\* return_task is a Step.
LEMMA ReturnStep ==
  ASSUME NEW s \in SchedState, NEW p \in Tasks, NEW deactivate \in BOOLEAN, NEW fit
  PROVE  Step(s, return_task(s, p, deactivate, fit))
<1>1. CASE deactivate BY <1>1, DeactivateStep DEF return_task
<1>2. CASE ~deactivate
  <2>1. Step(s, inc_qnr(s)) BY QnrStep
  <2> QED BY <1>2, <2>1, Chain, EnqueueStep DEF return_task
<1> QED BY <1>1, <1>2
-----------------------------------------------------------------------------
(***************************************************************************)
(* Idle CPUs and rescheduling.                                             *)
(***************************************************************************)
\* Asking a CPU to reschedule is quiet.
LEMMA ReschedQuiet ==
  ASSUME NEW s \in SchedState, NEW cpu \in Cpus PROVE Quiet(s, resched_cpu(s, cpu))
BY RqQuiet DEF resched_cpu

\* So it is a Step.
LEMMA ReschedStep ==
  ASSUME NEW s \in SchedState, NEW cpu \in Cpus PROVE Step(s, resched_cpu(s, cpu))
BY ReschedQuiet DEF Quiet

\* A CPU set has a best element by any integer measure.
LEMMA ArgMin ==
  ASSUME NEW S, S \subseteq Cpus, S # {}, NEW f \in [S -> Int]
  PROVE  \E c \in S : \A d \in S : f[c] <= f[d]
<1> DEFINE R == {x \in S \X S : f[x[1]] <= f[x[2]]}
<1>1. NCPU - 1 \in Nat /\ S \subseteq 0 .. NCPU - 1 BY CpuAssumption DEF Cpus
<1>2. \A a, b \in S : <<a, b>> \in R <=> f[a] <= f[b] OBVIOUS
<1> HIDE DEF R
<1>3. Total(R, S) BY <1>2 DEF Total
<1>4. Transitive(R, S) BY <1>2 DEF Transitive
<1>5. PICK c \in S : \A d \in S \ {c} : <<c, d>> \in R BY <1>1, <1>3, <1>4, Best
<1>6. \A d \in S \ {c} : f[c] <= f[d] BY <1>2, <1>5
<1>7. f[c] <= f[c] OBVIOUS
<1> QED BY <1>6, <1>7

\* The ranking of an idle CPU is a number.
LEMMA RankingType == ASSUME NEW s, NEW from, NEW cpu PROVE Ranking(s, from, cpu) \in Int
<1> DEFINE a == CASE Locality[from][cpu] > 3 -> 32
                  [] Locality[from][cpu] = 3 -> 8
                  [] Locality[from][cpu] = 2 -> 2
                  [] Locality[from][cpu] = 1 -> 1
                  [] OTHER -> 0
           idle(siblings) == siblings \subseteq s.grq.cpu_idle_map
           b == IF idle(CacheSiblings[cpu]) THEN 0 ELSE 4
           d == IF idle(SmtSiblings[cpu]) THEN 0 ELSE 16
<1>1. a \in Int OBVIOUS
<1>2. b \in Int /\ d \in Int OBVIOUS
<1>3. Ranking(s, from, cpu) = a + b + d BY DEF Ranking
<1> HIDE DEF a, b, d
<1> QED BY <1>1, <1>2, <1>3

\* The CPU that resched_best_mask settles on is in the mask.
LEMMA BestOfMaskType ==
  ASSUME NEW s, NEW best, NEW from, NEW mask, mask \subseteq Cpus, mask # {}
  PROVE  BestOfMask(s, best, from, mask) \in mask
<1> DEFINE f == [c \in mask |-> Ranking(s, from, c) * NCPU + c]
<1>1. f \in [mask -> Int]
  <2> SUFFICES ASSUME NEW c \in mask PROVE Ranking(s, from, c) * NCPU + c \in Int OBVIOUS
  <2>1. NCPU \in Int /\ c \in Int BY CpuAssumption DEF Cpus
  <2>2. Ranking(s, from, c) \in Int BY RankingType
  <2> QED BY <2>1, <2>2
<1>2. PICK c \in mask : \A d \in mask : f[c] <= f[d] BY <1>1, ArgMin
<1>3. \A d \in mask : Ranking(s, from, c) * NCPU + c <= Ranking(s, from, d) * NCPU + d BY <1>2
<1> HIDE DEF f
<1> QED BY <1>3 DEF BestOfMask

\* resched_best_mask with a mask that is not empty is quiet.
LEMMA BestMaskQuiet ==
  ASSUME NEW s \in SchedState, NEW best, NEW from, NEW mask, mask \subseteq Cpus, mask # {}
  PROVE  Quiet(s, resched_best_mask(s, best, from, mask))
<1>1. BestOfMask(s, best, from, mask) \in Cpus BY BestOfMaskType
<1> QED BY <1>1, ReschedQuiet DEF resched_best_mask

\* So it is a Step.
LEMMA BestMaskStep ==
  ASSUME NEW s \in SchedState, NEW best, NEW from, NEW mask, mask \subseteq Cpus, mask # {}
  PROVE  Step(s, resched_best_mask(s, best, from, mask))
BY BestMaskQuiet DEF Quiet

\* resched_best_idle after suitable_idle_cpus said yes is quiet.
LEMMA BestIdleQuiet ==
  ASSUME NEW s \in SchedState, NEW p \in Tasks, suitable_idle_cpus(s, p)
  PROVE  Quiet(s, resched_best_idle(s, p))
<1>1. s.task[p].allowed \cap s.grq.cpu_idle_map \subseteq Cpus BY StateParts, TaskFields
<1>2. s.task[p].allowed \cap s.grq.cpu_idle_map # {} BY DEF suitable_idle_cpus
<1> QED BY <1>1, <1>2, BestMaskQuiet DEF resched_best_idle

\* So it is a Step.
LEMMA BestIdleStep ==
  ASSUME NEW s \in SchedState, NEW p \in Tasks, suitable_idle_cpus(s, p)
  PROVE  Step(s, resched_best_idle(s, p))
BY BestIdleQuiet DEF Quiet

\* resched_suitable_idle is quiet.
LEMMA SuitableIdleQuiet ==
  ASSUME NEW s \in SchedState, NEW p \in Tasks PROVE Quiet(s, resched_suitable_idle(s, p))
<1>1. CASE suitable_idle_cpus(s, p) BY <1>1, BestIdleQuiet DEF resched_suitable_idle
<1>2. CASE ~suitable_idle_cpus(s, p) BY <1>2, QuietRefl DEF resched_suitable_idle
<1> QED BY <1>1, <1>2

\* So it is a Step.
LEMMA SuitableIdleStep ==
  ASSUME NEW s \in SchedState, NEW p \in Tasks PROVE Step(s, resched_suitable_idle(s, p))
BY SuitableIdleQuiet DEF Quiet

\* resched_closest_idle is quiet.
LEMMA ClosestIdleQuiet ==
  ASSUME NEW s \in SchedState, NEW cpu, NEW p \in Tasks
  PROVE  Quiet(s, resched_closest_idle(s, cpu, p))
<1> DEFINE mask == (s.task[p].allowed \cap s.grq.cpu_idle_map) \ {cpu}
<1>1. mask \subseteq Cpus BY StateParts, TaskFields
<1> HIDE DEF mask
<1>2. CASE mask = {} BY <1>2, QuietRefl DEF resched_closest_idle, mask
<1>3. CASE mask # {} BY <1>1, <1>3, BestMaskQuiet DEF resched_closest_idle, mask
<1> QED BY <1>2, <1>3

\* So it is a Step.
LEMMA ClosestIdleStep ==
  ASSUME NEW s \in SchedState, NEW cpu, NEW p \in Tasks
  PROVE  Step(s, resched_closest_idle(s, cpu, p))
BY ClosestIdleQuiet DEF Quiet

\* swap_sticky is quiet.
LEMMA SwapStickyQuiet ==
  ASSUME NEW s \in SchedState, NEW cpu \in Cpus, NEW p \in Tasks
  PROVE  Quiet(s, swap_sticky(s, cpu, p))
<1> DEFINE last == s.rq[cpu].sticky_task
           s1   == IF last \in Tasks \ {p} /\ s.task[last].sticky
                   THEN resched_closest_idle(clear_sticky(s, last), cpu, last)
                   ELSE s
           t    == [s1 EXCEPT !.task[p].sticky = TRUE]
           u    == resched_closest_idle(s1, cpu, p)
<1>1. Quiet(s, s1)
  <2>1. CASE last \in Tasks \ {p} /\ s.task[last].sticky
    <3>1. Quiet(s, clear_sticky(s, last)) BY <2>1, ClearStickyQuiet
    <3> QED BY <2>1, <3>1, ClosestIdleQuiet, QuietChain
  <2>2. CASE ~(last \in Tasks \ {p} /\ s.task[last].sticky) BY <2>2, QuietRefl
  <2> QED BY <2>1, <2>2
<1>2. swap_sticky(s, cpu, p) =
        CASE last = p -> [s EXCEPT !.task[p].sticky = TRUE]
          [] last # p /\ ~rt_prio(s.task[p].prio) -> [t EXCEPT !.rq[cpu].sticky_task = p]
          [] OTHER -> [u EXCEPT !.rq[cpu].sticky_task = NoTask]
  BY DEF swap_sticky
<1> HIDE DEF s1, last
<1>3. Quiet(s, [s EXCEPT !.task[p].sticky = TRUE]) BY TaskQuiet
<1>4. Quiet(s, t) BY <1>1, TaskQuiet, QuietChain
<1>5. Quiet(s, u) BY <1>1, ClosestIdleQuiet, QuietChain
<1> HIDE DEF t, u
<1>6. Quiet(s, [t EXCEPT !.rq[cpu].sticky_task = p]) BY <1>4, RqQuiet, QuietChain
<1>7. Quiet(s, [u EXCEPT !.rq[cpu].sticky_task = NoTask]) BY <1>5, RqQuiet, QuietChain
<1> QED BY <1>2, <1>3, <1>6, <1>7

\* So it is a Step.
LEMMA SwapStickyStep ==
  ASSUME NEW s \in SchedState, NEW cpu \in Cpus, NEW p \in Tasks
  PROVE  Step(s, swap_sticky(s, cpu, p))
BY SwapStickyQuiet DEF Quiet

\* The CPU that try_preempt settles on is one of the CPUs.
LEMMA PreemptTargetType ==
  ASSUME NEW s \in SchedState, NEW p \in Tasks, NEW this_cpu \in Cpus
  PROVE  PreemptTarget(s, p, this_cpu).cpu \in Cpus
<1> DEFINE at(c) == [prio |-> s.rq[c].prio, deadline |-> s.rq[c].deadline, cpu |-> c]
           start == [at(this_cpu) EXCEPT !.prio = s.task[p].prio]
           worse(a, b) == a.prio > b.prio \/ (a.prio = b.prio /\ a.deadline > b.deadline)
           found == {c \in s.task[p].allowed : worse(at(c), start)}
           better(c, d) == worse(at(c), at(d)) \/ (~worse(at(d), at(c)) /\ c < d)
           R == {x \in found \X found : better(x[1], x[2])}
<1>1. found \subseteq Cpus BY StateParts, TaskFields
<1>2. \A c \in Cpus : s.rq[c].prio \in Int /\ s.rq[c].deadline \in Int
  <2> SUFFICES ASSUME NEW c \in Cpus PROVE s.rq[c].prio \in Int /\ s.rq[c].deadline \in Int
    OBVIOUS
  <2>1. s.rq[c].prio \in 0 .. PRIO_LIMIT /\ s.rq[c].deadline \in Nat BY StateParts, RqFields
  <2> QED BY <2>1
<1>3. start.cpu = this_cpu OBVIOUS
<1>4. \A c : at(c).cpu = c OBVIOUS
<1>5. \A a, b : <<a, b>> \in R <=> a \in found /\ b \in found /\ better(a, b) OBVIOUS
<1>6. \A a, b : better(a, b) <=>
        \/ s.rq[a].prio > s.rq[b].prio
        \/ s.rq[a].prio = s.rq[b].prio /\ s.rq[a].deadline > s.rq[b].deadline
        \/ /\ ~(\/ s.rq[b].prio > s.rq[a].prio
                \/ s.rq[b].prio = s.rq[a].prio /\ s.rq[b].deadline > s.rq[a].deadline)
           /\ a < b
  OBVIOUS
<1>7. found # {} => \E c \in found : \A d \in found \ {c} : better(c, d)
  <2> HAVE found # {}
  <2> HIDE DEF found, better, R
  <2>1. \A a \in found : a \in Int BY <1>1 DEF Cpus
  <2>2. \A a, b \in found : a # b => better(a, b) \/ better(b, a)
    BY <1>1, <1>2, <1>6, <2>1
  <2>3. \A a, b, c \in found : better(a, b) /\ better(b, c) => better(a, c)
    <3> SUFFICES ASSUME NEW a \in found, NEW b \in found, NEW c \in found,
                        better(a, b), better(b, c)
                 PROVE  better(a, c)
      OBVIOUS
    <3> DEFINE x == s.rq[a].prio  y == s.rq[b].prio  z == s.rq[c].prio
               k == s.rq[a].deadline  l == s.rq[b].deadline  m == s.rq[c].deadline
    <3>1. a \in Int /\ b \in Int /\ c \in Int BY <2>1
    <3>2. x \in Int /\ y \in Int /\ z \in Int /\ k \in Int /\ l \in Int /\ m \in Int
      BY <1>1, <1>2
    <3>3. x > y \/ (x = y /\ k > l) \/ (~(y > x \/ (y = x /\ l > k)) /\ a < b) BY <1>6
    <3>4. y > z \/ (y = z /\ l > m) \/ (~(z > y \/ (z = y /\ m > l)) /\ b < c) BY <1>6
    <3>5. better(a, c) <=>
            x > z \/ (x = z /\ k > m) \/ (~(z > x \/ (z = x /\ m > k)) /\ a < c) BY <1>6
    <3> HIDE DEF x, y, z, k, l, m
    <3> QED BY <3>1, <3>2, <3>3, <3>4, <3>5
  <2>4. NCPU - 1 \in Nat /\ found \subseteq 0 .. NCPU - 1 BY <1>1, CpuAssumption DEF Cpus
  <2>5. Total(R, found) BY <1>5, <2>2 DEF Total
  <2>6. Transitive(R, found) BY <1>5, <2>3 DEF Transitive
  <2>7. PICK c \in found : \A d \in found \ {c} : <<c, d>> \in R BY <2>4, <2>5, <2>6, Best
  <2> QED BY <1>5, <2>7
<1>8. PreemptTarget(s, p, this_cpu) =
        IF found = {} THEN start
        ELSE at(CHOOSE c \in found : \A d \in found \ {c} : better(c, d))
  BY DEF PreemptTarget
<1>9. CASE found = {} BY <1>3, <1>8, <1>9
<1>10. CASE found # {}
  <2> DEFINE c == CHOOSE c \in found : \A d \in found \ {c} : better(c, d)
  <2> HIDE DEF found, better
  <2>1. c \in found BY <1>7, <1>10
  <2>2. PreemptTarget(s, p, this_cpu) = at(c) BY <1>8, <1>10
  <2> HIDE DEF c
  <2> QED BY <1>1, <1>4, <2>1, <2>2
<1> QED BY <1>9, <1>10

\* try_preempt is quiet.
LEMMA TryPreemptQuiet ==
  ASSUME NEW s \in SchedState, NEW p \in Tasks, NEW this_cpu \in Cpus
  PROVE  Quiet(s, try_preempt(s, p, this_cpu))
<1> DEFINE s1 == clear_sticky(s, p)
           target == PreemptTarget(s1, p, this_cpu)
<1>1. Quiet(s, s1) BY ClearStickyQuiet
<1>2. s1 \in SchedState BY <1>1 DEF Quiet, Step
<1> HIDE DEF s1
<1>3. target.cpu \in Cpus BY <1>2, PreemptTargetType
<1> HIDE DEF target
<1>4. suitable_idle_cpus(s1, p) => Quiet(s, resched_best_idle(s1, p))
  BY <1>1, <1>2, BestIdleQuiet, QuietChain
<1>5. Quiet(s, resched_cpu(s1, target.cpu)) BY <1>1, <1>3, ReschedQuiet, QuietChain
<1> QED BY <1>1, <1>4, <1>5 DEF try_preempt, s1, target

\* So it is a Step.
LEMMA TryPreemptStep ==
  ASSUME NEW s \in SchedState, NEW p \in Tasks, NEW this_cpu \in Cpus
  PROVE  Step(s, try_preempt(s, p, this_cpu))
BY TryPreemptQuiet DEF Quiet
-----------------------------------------------------------------------------
(***************************************************************************)
(* The choice of the next task.                                            *)
(***************************************************************************)
\* earliest_deadline_task returns a task it found on a list and may take, or idle.
LEMMA EarliestDeadlineResult ==
  ASSUME NEW s \in SchedState, NEW cpu \in Cpus
  PROVE  \/ EarliestDeadline(s, cpu) = Idle
         \/ \E prio \in QueuePrios : \E i \in Eligible(s, prio, cpu) :
              EarliestDeadline(s, cpu) = s.grq.queue[prio][i]
<1> DEFINE level == FirstLevel(s, cpu)
           q     == s.grq.queue[level]
           el    == Eligible(s, level, cpu)
           dl(i) == IF rt_prio(level) THEN 0 ELSE EffectiveDeadline(s, q[i], cpu)
           before(i, j) == dl(i) < dl(j) \/ (dl(i) = dl(j) /\ i <= j)
           R == {x \in el \X el : before(x[1], x[2])}
<1>1. s.grq.queue \in [QueuePrios -> Seq(Tasks)] /\ s.grq.prio_bitmap \in SUBSET QueuePrios
  BY StateParts, GrqFields
<1>2. CASE level = PRIO_LIMIT BY <1>2 DEF EarliestDeadline
<1>3. CASE level # PRIO_LIMIT
  <2> DEFINE levels == {prio \in s.grq.prio_bitmap : Eligible(s, prio, cpu) # {}}
  <2>1. levels # {} BY <1>3 DEF FirstLevel
  <2>2. levels \subseteq Nat BY <1>1 DEF QueuePrios
  <2>3. \E l \in levels : \A m \in levels : l <= m BY <2>1, <2>2, NatMin
  <2>4. level \in levels BY <2>1, <2>3 DEF FirstLevel
  <2>5. level \in QueuePrios /\ el # {} BY <1>1, <2>4
  <2> HIDE DEF level, levels
  <2>6. q \in Seq(Tasks) BY <1>1, <2>5
  <2>7. el \subseteq DOMAIN q BY DEF Eligible
  <2> HIDE DEF el, q
  <2>8. Len(q) \in Nat /\ el \subseteq 1 .. Len(q) /\ \A i \in el : q[i] \in Tasks BY <2>6, <2>7
  <2>9. \A i \in el : dl(i) \in Int
    <3> SUFFICES ASSUME NEW i \in el PROVE dl(i) \in Int OBVIOUS
    <3>1. EffectiveDeadline(s, q[i], cpu) \in Nat BY <2>8, EffectiveDeadlineType
    <3> QED BY <3>1
  <2> HIDE DEF dl
  <2>10. \A a, b \in el : <<a, b>> \in R <=> before(a, b) OBVIOUS
  <2>11. \A a \in el : a \in Int BY <2>8
  <2>12. \A a, b \in el : before(a, b) \/ before(b, a) BY <2>9, <2>11
  <2>13. \A a, b, c \in el : before(a, b) /\ before(b, c) => before(a, c) BY <2>9, <2>11
  <2> HIDE DEF before, R
  <2>14. Total(R, el) BY <2>10, <2>12 DEF Total
  <2>15. Transitive(R, el) BY <2>10, <2>13 DEF Transitive
  <2>16. el \subseteq 0 .. Len(q) BY <2>8
  <2>17. PICK i \in el : \A j \in el \ {i} : <<i, j>> \in R
    <3> DEFINE N == Len(q)
    <3>1. N \in Nat BY <2>8
    <3>2. el \subseteq 0 .. N BY <2>16
    <3>3. el # {} BY <2>5
    <3> HIDE DEF N
    <3> QED BY <2>14, <2>15, <3>1, <3>2, <3>3, Best
  <2>18. \A j \in el : before(i, j) BY <2>10, <2>12, <2>17
  <2> DEFINE m == CHOOSE i_1 \in el : \A j \in el : before(i_1, j)
  <2>19. m \in el BY <2>18
  <2>20. EarliestDeadline(s, cpu) = q[m] BY <1>3 DEF EarliestDeadline, level, q, el, dl, before
  <2> HIDE DEF m
  <2> QED BY <2>5, <2>19, <2>20 DEF el, q
<1> QED BY <1>2, <1>3

\* In any case it returns a task or idle.
LEMMA EarliestDeadlineType ==
  ASSUME NEW s \in SchedState, NEW cpu \in Cpus
  PROVE  EarliestDeadline(s, cpu) \in Tasks \cup {Idle}
<1>1. s.grq.queue \in [QueuePrios -> Seq(Tasks)] BY StateParts, GrqFields
<1>2. ASSUME NEW prio \in QueuePrios, NEW i \in Eligible(s, prio, cpu)
      PROVE  s.grq.queue[prio][i] \in Tasks
  <2>1. s.grq.queue[prio] \in Seq(Tasks) BY <1>1
  <2>2. i \in DOMAIN s.grq.queue[prio] BY DEF Eligible
  <2> QED BY <2>1, <2>2
<1> QED BY <1>2, EarliestDeadlineResult
=============================================================================
