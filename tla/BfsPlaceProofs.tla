--------------------------- MODULE BfsPlaceProofs ---------------------------
(***************************************************************************)
(* Where tasks are: the run queue is well formed, every task is in one     *)
(* place and the counters are exact, for any number of CPUs and tasks.     *)
(*                                                                         *)
(* None of the three is inductive alone: dequeue_task is right only on a   *)
(* well formed queue, activate_task counts right only for a task in no     *)
(* place, and the counters tell nothing without the places.  Together,     *)
(* with the types and the exact idle map of BfsSchedProofs, they are       *)
(* (PInv).  The proof goes by effects: every handler is shown to have one  *)
(* of eight (NextEffect), and every effect to keep the invariant           *)
(* (EffectKeeps).  The same effects are steps of the abstract pool of      *)
(* tasks, BfsPool, which the scheduler implements.                         *)
(***************************************************************************)
EXTENDS BfsSchedProofs, FiniteSetTheorems

\* The tasks on a list, on a CPU, and in uninterruptible sleep, in a state s.
Queued(s)  == {p \in Tasks : task_queued(s, p)}
Running(s) == {p \in Tasks : \E c \in Cpus : s.rq[c].curr = p}
Blocked(s) == {p \in Tasks : s.task[p].state = "uninterruptible"} \ (Queued(s) \cup Running(s))

\* QueueWellFormed of a state: no task is linked twice, each is on the list of its
\* priority, and the bitmap is exact.
LinkedOnce(s) ==
  \A a, b \in QueuePrios : \A i \in DOMAIN s.grq.queue[a], j \in DOMAIN s.grq.queue[b] :
    s.grq.queue[a][i] = s.grq.queue[b][j] => a = b /\ i = j
OwnList(s) ==
  \A a \in QueuePrios : \A i \in DOMAIN s.grq.queue[a] : s.task[s.grq.queue[a][i]].prio = a
BitsExact(s) == s.grq.prio_bitmap = {a \in QueuePrios : s.grq.queue[a] # <<>>}

WellFormed(s) == LinkedOnce(s) /\ OwnList(s) /\ BitsExact(s)
-----------------------------------------------------------------------------
(***************************************************************************)
(* Lists.                                                                  *)
(***************************************************************************)
\* list_del takes exactly p off a list it is on once.
LEMMA UnlinkEffect ==
  ASSUME NEW q \in Seq(Tasks), NEW p, InQueue(q, p), \A i, j \in DOMAIN q : q[i] = q[j] => i = j
  PROVE  LET r == Unlink(q, p)
         IN  /\ r \in Seq(Tasks)
             /\ \A x : InQueue(r, x) <=> InQueue(q, x) /\ x # p
             /\ \A i, j \in DOMAIN r : r[i] = r[j] => i = j
<1> DEFINE i == CHOOSE j \in DOMAIN q : q[j] = p
           n == Len(q)
           r == [j \in 1 .. n - 1 |-> IF j < i THEN q[j] ELSE q[j + 1]]
<1>1. Unlink(q, p) = r BY DEF Unlink
<1>2. i \in DOMAIN q /\ q[i] = p BY DEF InQueue
<1>3. n \in Nat /\ DOMAIN q = 1 .. n OBVIOUS
<1> HIDE DEF i, n
<1>4. DOMAIN r = 1 .. n - 1 OBVIOUS
<1>5. \A j \in 1 .. n - 1 : r[j] = IF j < i THEN q[j] ELSE q[j + 1] OBVIOUS
<1>6. r \in Seq(Tasks) BY <1>1, UnlinkType
<1> HIDE DEF r
<1>7. ASSUME NEW x, InQueue(r, x) PROVE InQueue(q, x) /\ x # p
  <2>1. PICK j \in 1 .. n - 1 : r[j] = x BY <1>4, <1>7 DEF InQueue
  <2>2. CASE j < i BY <1>2, <1>3, <1>5, <2>1, <2>2 DEF InQueue
  <2>3. CASE ~(j < i)
    <3>1. j + 1 \in DOMAIN q /\ j + 1 # i BY <1>2, <1>3, <2>3
    <3> QED BY <1>2, <1>5, <2>1, <2>3, <3>1 DEF InQueue
  <2> QED BY <2>2, <2>3
<1>8. ASSUME NEW x, InQueue(q, x), x # p PROVE InQueue(r, x)
  <2>1. PICK j \in 1 .. n : q[j] = x BY <1>3, <1>8 DEF InQueue
  <2>2. j # i BY <1>2, <1>8, <2>1
  <2>3. CASE j < i
    <3>1. j \in 1 .. n - 1 /\ r[j] = x BY <1>2, <1>3, <1>5, <2>1, <2>3
    <3> QED BY <1>4, <3>1 DEF InQueue
  <2>4. CASE i < j
    <3>1. j - 1 \in 1 .. n - 1 /\ ~(j - 1 < i) /\ (j - 1) + 1 = j BY <1>2, <1>3, <2>1, <2>4
    <3>2. r[j - 1] = x BY <1>5, <2>1, <3>1
    <3> QED BY <1>4, <3>1, <3>2 DEF InQueue
  <2> QED BY <1>2, <1>3, <2>2, <2>3, <2>4
<1>9. ASSUME NEW j \in 1 .. n - 1, NEW k \in 1 .. n - 1, r[j] = r[k] PROVE j = k
  <2>1. j \in DOMAIN q /\ j + 1 \in DOMAIN q /\ k \in DOMAIN q /\ k + 1 \in DOMAIN q
    BY <1>3
  <2>2. j \in Int /\ k \in Int /\ i \in Int BY <1>2, <1>3
  <2> QED BY <1>5, <1>9, <2>1, <2>2
<1> QED BY <1>1, <1>4, <1>6, <1>7, <1>8, <1>9

\* list_add_tail adds exactly p.
LEMMA AppendEffect ==
  ASSUME NEW q \in Seq(Tasks), NEW p \in Tasks
  PROVE  LET r == Append(q, p)
         IN  /\ r \in Seq(Tasks) /\ r # <<>>
             /\ \A x : InQueue(r, x) <=> InQueue(q, x) \/ x = p
             /\ DOMAIN r = 1 .. Len(q) + 1 /\ DOMAIN q = 1 .. Len(q) /\ Len(q) \in Nat
             /\ \A i \in DOMAIN q : r[i] = q[i]
             /\ r[Len(q) + 1] = p
<1> DEFINE r == Append(q, p)
<1>1. /\ r \in Seq(Tasks) /\ DOMAIN r = 1 .. Len(q) + 1 /\ DOMAIN q = 1 .. Len(q) /\ Len(q) \in Nat
      /\ \A i \in DOMAIN q : r[i] = q[i]
      /\ r[Len(q) + 1] = p
  OBVIOUS
<1>2. r # <<>>
  <2>1. Len(r) = Len(q) + 1 /\ Len(q) \in Nat OBVIOUS
  <2>2. Len(<<>>) = 0 OBVIOUS
  <2> QED BY <2>1, <2>2
<1> HIDE DEF r
<1>3. \A x : InQueue(r, x) <=> InQueue(q, x) \/ x = p BY <1>1 DEF InQueue
<1> QED BY <1>1, <1>2, <1>3 DEF r
-----------------------------------------------------------------------------
(***************************************************************************)
(* What the helpers do to the run queue.                                   *)
(***************************************************************************)
\* What the queue says about which tasks are on it.
LEMMA QueueType ==
  ASSUME NEW s \in SchedState
  PROVE  /\ s.grq.queue \in [QueuePrios -> Seq(Tasks)]
         /\ \A a \in QueuePrios : s.grq.queue[a] \in Seq(Tasks)
         /\ \A a \in QueuePrios : \A i \in DOMAIN s.grq.queue[a] :
              s.grq.queue[a][i] \in Queued(s)
<1>1. s.grq.queue \in [QueuePrios -> Seq(Tasks)] BY StateParts, GrqFields
<1>2. \A a \in QueuePrios : s.grq.queue[a] \in Seq(Tasks) BY <1>1
<1>3. ASSUME NEW a \in QueuePrios, NEW i \in DOMAIN s.grq.queue[a]
      PROVE  s.grq.queue[a][i] \in Queued(s)
  <2>1. s.grq.queue[a][i] \in Tasks BY <1>2
  <2> QED BY <2>1 DEF Queued, task_queued, InQueue
<1> QED BY <1>1, <1>2, <1>3

\* The queue is as good as before when the lists are the same and no queued task
\* has changed its priority.
LEMMA QueueKept ==
  ASSUME NEW s \in SchedState, NEW t, t.grq.queue = s.grq.queue
  PROVE  /\ Queued(t) = Queued(s)
         /\ WellFormed(s) /\ t.grq.prio_bitmap = s.grq.prio_bitmap
              /\ (\A p \in Queued(s) : t.task[p].prio = s.task[p].prio)
              => WellFormed(t)
<1>1. Queued(t) = Queued(s) BY DEF Queued, task_queued
<1>2. ASSUME WellFormed(s), t.grq.prio_bitmap = s.grq.prio_bitmap,
             \A p \in Queued(s) : t.task[p].prio = s.task[p].prio
      PROVE  WellFormed(t)
  <2>1. LinkedOnce(t) BY <1>2 DEF WellFormed, LinkedOnce
  <2>2. OwnList(t)
    <3> SUFFICES ASSUME NEW a \in QueuePrios, NEW i \in DOMAIN s.grq.queue[a]
                 PROVE  t.task[s.grq.queue[a][i]].prio = a
      BY DEF OwnList
    <3>1. s.grq.queue[a][i] \in Queued(s) BY QueueType
    <3>2. s.task[s.grq.queue[a][i]].prio = a BY <1>2 DEF WellFormed, OwnList
    <3> QED BY <1>2, <3>1, <3>2
  <2>3. BitsExact(t) BY <1>2 DEF WellFormed, BitsExact
  <2> QED BY <2>1, <2>2, <2>3 DEF WellFormed
<1> QED BY <1>1, <1>2

\* A queued task is on the list of its priority.
LEMMA QueuedOn ==
  ASSUME NEW s \in SchedState, WellFormed(s), NEW p \in Queued(s)
  PROVE  s.task[p].prio \in QueuePrios /\ InQueue(s.grq.queue[s.task[p].prio], p)
<1>1. PICK a \in QueuePrios : InQueue(s.grq.queue[a], p) BY DEF Queued, task_queued
<1>2. PICK i \in DOMAIN s.grq.queue[a] : s.grq.queue[a][i] = p BY <1>1 DEF InQueue
<1>3. s.task[p].prio = a BY <1>2 DEF WellFormed, OwnList
<1> QED BY <1>1, <1>3

\* Nothing is counted between s and t.
SameCounts(s, t) ==
  /\ t.grq.qnr = s.grq.qnr /\ t.grq.nr_running = s.grq.nr_running
  /\ t.grq.nr_uninterruptible = s.grq.nr_uninterruptible

\* dequeue_task takes p off the queue and does nothing else.
LEMMA DequeueEffect ==
  ASSUME NEW s \in SchedState, WellFormed(s), NEW p \in Queued(s)
  PROVE  LET t == dequeue_task(s, p)
         IN  /\ WellFormed(t) /\ Queued(t) = Queued(s) \ {p}
             /\ t.task = s.task /\ t.rq = s.rq /\ SameCounts(s, t)
<1> DEFINE prio == s.task[p].prio
           q    == s.grq.queue[prio]
           rest == Unlink(q, p)
           bits == IF rest = <<>> THEN s.grq.prio_bitmap \ {prio} ELSE s.grq.prio_bitmap
           t    == dequeue_task(s, p)
<1>1. prio \in QueuePrios /\ InQueue(q, p) BY QueuedOn
<1>2. q \in Seq(Tasks) BY <1>1, QueueType
<1>3. t = [s EXCEPT !.grq.queue[prio] = rest, !.grq.prio_bitmap = bits] BY DEF dequeue_task
<1>4. \A i, j \in DOMAIN q : q[i] = q[j] => i = j BY <1>1 DEF WellFormed, LinkedOnce
<1>5. s.grq \in GrqRec BY StateParts
<1> HIDE DEF rest, bits
<1>6. /\ t.grq.queue = [s.grq.queue EXCEPT ![prio] = rest]
      /\ t.grq.prio_bitmap = bits
      /\ t.task = s.task /\ t.rq = s.rq /\ SameCounts(s, t)
  BY <1>3, <1>5, ZenonT(30) DEF SchedState, GrqRec, SameCounts
<1> HIDE DEF t
<1>7. /\ rest \in Seq(Tasks)
      /\ \A x : InQueue(rest, x) <=> InQueue(q, x) /\ x # p
      /\ \A i, j \in DOMAIN rest : rest[i] = rest[j] => i = j
  BY <1>1, <1>2, <1>4, UnlinkEffect DEF rest
<1>8. \A a \in QueuePrios : t.grq.queue[a] = IF a = prio THEN rest ELSE s.grq.queue[a]
  BY <1>6, QueueType
<1>9. \A a \in QueuePrios : a # prio => ~InQueue(s.grq.queue[a], p)
  <2> SUFFICES ASSUME NEW a \in QueuePrios, InQueue(s.grq.queue[a], p) PROVE a = prio OBVIOUS
  <2> QED BY DEF WellFormed, OwnList, InQueue
<1> HIDE DEF prio, q
<1>10. \A a \in QueuePrios : \A x : InQueue(t.grq.queue[a], x) <=> InQueue(s.grq.queue[a], x) /\ x # p
  BY <1>7, <1>8, <1>9 DEF q
<1>11. Queued(t) = Queued(s) \ {p} BY <1>10 DEF Queued, task_queued
<1>12. OwnList(t)
  <2> SUFFICES ASSUME NEW a \in QueuePrios, NEW i \in DOMAIN t.grq.queue[a]
               PROVE  t.task[t.grq.queue[a][i]].prio = a
    BY DEF OwnList
  <2>1. InQueue(t.grq.queue[a], t.grq.queue[a][i]) BY DEF InQueue
  <2>2. PICK k \in DOMAIN s.grq.queue[a] : s.grq.queue[a][k] = t.grq.queue[a][i]
    BY <1>10, <2>1 DEF InQueue
  <2> QED BY <1>6, <2>2 DEF WellFormed, OwnList
<1>13. LinkedOnce(t)
  <2> SUFFICES ASSUME NEW a \in QueuePrios, NEW b \in QueuePrios,
                      NEW i \in DOMAIN t.grq.queue[a], NEW j \in DOMAIN t.grq.queue[b],
                      t.grq.queue[a][i] = t.grq.queue[b][j]
               PROVE  a = b /\ i = j
    BY DEF LinkedOnce
  <2>1. a = b BY <1>12 DEF OwnList
  <2>2. CASE a = prio BY <1>7, <1>8, <2>1, <2>2
  <2>3. CASE a # prio
    <3>1. t.grq.queue[a] = s.grq.queue[a] BY <1>8, <2>3
    <3> QED BY <2>1, <3>1 DEF WellFormed, LinkedOnce
  <2> QED BY <2>1, <2>2, <2>3
<1>14. BitsExact(t)
  <2>1. s.grq.queue[prio] # <<>>
    <3>1. \E i \in DOMAIN q : q[i] = p BY <1>1 DEF InQueue
    <3>2. DOMAIN <<>> = {} OBVIOUS
    <3>3. q # <<>> BY <3>1, <3>2
    <3> QED BY <3>3 DEF q
  <2>2. \A a \in QueuePrios : a \in bits <=> t.grq.queue[a] # <<>>
    BY <1>1, <1>8, <2>1 DEF WellFormed, BitsExact, bits
  <2>3. bits \subseteq QueuePrios BY DEF WellFormed, BitsExact, bits
  <2> QED BY <1>6, <2>2, <2>3 DEF BitsExact
<1> QED BY <1>6, <1>11, <1>12, <1>13, <1>14 DEF WellFormed, t

\* enqueue_task puts p on the queue, with a priority it may choose, and does nothing
\* else.
LEMMA EnqueueEffect ==
  ASSUME NEW s \in SchedState, WellFormed(s), NEW p \in Tasks, p \notin Queued(s), NEW fit
  PROVE  LET t == enqueue_task(s, p, fit)
         IN  /\ WellFormed(t) /\ Queued(t) = Queued(s) \cup {p}
             /\ t.task = [s.task EXCEPT ![p].prio = EnqueuePrio(s, p, fit)]
             /\ t.rq = s.rq /\ SameCounts(s, t)
<1> DEFINE prio == EnqueuePrio(s, p, fit)
           q    == s.grq.queue[prio]
           more == Append(q, p)
           t    == enqueue_task(s, p, fit)
<1>1. prio \in QueuePrios BY EnqueuePrioType
<1>2. q \in Seq(Tasks) BY <1>1, QueueType
<1>3. t = [s EXCEPT !.task[p].prio = prio, !.grq.queue[prio] = more,
                    !.grq.prio_bitmap = @ \cup {prio}] BY DEF enqueue_task
<1>4. s.grq \in GrqRec /\ s.task \in [Tasks -> TaskRec] BY StateParts
<1> HIDE DEF prio, more
<1>5. /\ t.grq.queue = [s.grq.queue EXCEPT ![prio] = more]
      /\ t.grq.prio_bitmap = s.grq.prio_bitmap \cup {prio}
      /\ t.task = [s.task EXCEPT ![p].prio = prio]
      /\ t.rq = s.rq /\ SameCounts(s, t)
  <2> DEFINE u == [s EXCEPT !.task[p].prio = prio]
             g == [s.grq EXCEPT !.queue[prio] = more, !.prio_bitmap = @ \cup {prio}]
  <2>1. u.grq = s.grq /\ u.rq = s.rq /\ u.task = [s.task EXCEPT ![p].prio = prio]
        /\ DOMAIN u = {"grq", "rq", "task"}
    BY DEF SchedState
  <2>2. t = [u EXCEPT !.grq.queue[prio] = more, !.grq.prio_bitmap = @ \cup {prio}] BY <1>3
  <2> HIDE DEF u
  <2>3. t.grq = g /\ t.rq = s.rq /\ t.task = u.task BY <2>1, <2>2
  <2>4. /\ g.queue = [s.grq.queue EXCEPT ![prio] = more]
        /\ g.prio_bitmap = s.grq.prio_bitmap \cup {prio}
        /\ g.qnr = s.grq.qnr /\ g.nr_running = s.grq.nr_running
        /\ g.nr_uninterruptible = s.grq.nr_uninterruptible
    BY <1>4 DEF GrqRec
  <2> HIDE DEF g
  <2> QED BY <2>1, <2>3, <2>4 DEF SameCounts
<1> HIDE DEF t
<1>6. /\ more # <<>>
      /\ \A x : InQueue(more, x) <=> InQueue(q, x) \/ x = p
      /\ DOMAIN more = 1 .. Len(q) + 1 /\ DOMAIN q = 1 .. Len(q) /\ Len(q) \in Nat
      /\ \A i \in DOMAIN q : more[i] = q[i]
      /\ more[Len(q) + 1] = p
  BY <1>2, AppendEffect DEF more
<1>7. \A a \in QueuePrios : t.grq.queue[a] = IF a = prio THEN more ELSE s.grq.queue[a]
  BY <1>5, QueueType
<1>8. \A a \in QueuePrios : \A x :
        InQueue(t.grq.queue[a], x) <=> InQueue(s.grq.queue[a], x) \/ (x = p /\ a = prio)
  BY <1>6, <1>7
<1>9. Queued(t) = Queued(s) \cup {p} BY <1>1, <1>8 DEF Queued, task_queued
<1>10. \A a \in QueuePrios : \A i \in DOMAIN s.grq.queue[a] :
         s.grq.queue[a][i] \in Tasks \ {p} /\ s.task[s.grq.queue[a][i]].prio = a
  BY QueueType DEF WellFormed, OwnList, Queued
<1>11. \A x \in Tasks : t.task[x].prio = IF x = p THEN prio ELSE s.task[x].prio
  BY <1>4, <1>5 DEF TaskRec
<1>12. OwnList(t)
  <2> SUFFICES ASSUME NEW a \in QueuePrios, NEW i \in DOMAIN t.grq.queue[a]
               PROVE  t.task[t.grq.queue[a][i]].prio = a
    BY DEF OwnList
  <2>1. InQueue(t.grq.queue[a], t.grq.queue[a][i]) BY DEF InQueue
  <2>2. CASE InQueue(s.grq.queue[a], t.grq.queue[a][i])
    <3>1. PICK k \in DOMAIN s.grq.queue[a] : s.grq.queue[a][k] = t.grq.queue[a][i]
      BY <2>2 DEF InQueue
    <3> QED BY <1>10, <1>11, <3>1
  <2>3. CASE t.grq.queue[a][i] = p /\ a = prio BY <1>11, <2>3
  <2> QED BY <1>8, <2>1, <2>2, <2>3
<1>13. LinkedOnce(t)
  <2> SUFFICES ASSUME NEW a \in QueuePrios, NEW b \in QueuePrios,
                      NEW i \in DOMAIN t.grq.queue[a], NEW j \in DOMAIN t.grq.queue[b],
                      t.grq.queue[a][i] = t.grq.queue[b][j]
               PROVE  a = b /\ i = j
    BY DEF LinkedOnce
  <2>1. a = b BY <1>12 DEF OwnList
  <2>2. CASE a = prio
    <3>1. \A k, l \in DOMAIN q : q[k] = q[l] => k = l BY <1>1 DEF WellFormed, LinkedOnce
    <3>2. \A k \in DOMAIN q : q[k] # p BY <1>1, <1>10
    <3>3. i \in DOMAIN more /\ j \in DOMAIN more /\ more[i] = more[j] BY <1>1, <1>7, <2>1, <2>2
    <3>4. \A k \in DOMAIN more : k \in DOMAIN q \/ k = Len(q) + 1 BY <1>6
    <3> HIDE DEF q
    <3>5. i = j BY <1>6, <3>1, <3>2, <3>3, <3>4
    <3> QED BY <2>1, <3>5
  <2>3. CASE a # prio BY <1>7, <2>1, <2>3 DEF WellFormed, LinkedOnce
  <2> QED BY <2>1, <2>2, <2>3
<1>14. BitsExact(t) BY <1>1, <1>5, <1>6, <1>7 DEF WellFormed, BitsExact
<1> QED BY <1>5, <1>9, <1>12, <1>13, <1>14 DEF WellFormed, t, prio

\* The cores of all tasks but p are as they were.
Others(s, t, p) == \A q \in Tasks \ {p} : SameCore(t.task[q], s.task[q])

\* p is where it was, and may go where it could.
Unmoved(s, t, p) ==
  /\ t.task[p].state = s.task[p].state /\ t.task[p].on_cpu = s.task[p].on_cpu
  /\ t.task[p].cpu = s.task[p].cpu /\ t.task[p].allowed = s.task[p].allowed

\* The counters have moved by these amounts.
Counts(s, t, queued, running, uninterruptible) ==
  /\ t.grq.qnr = s.grq.qnr + queued
  /\ t.grq.nr_running = s.grq.nr_running + running
  /\ t.grq.nr_uninterruptible = s.grq.nr_uninterruptible + uninterruptible

\* The counters are numbers.
LEMMA CountsType ==
  ASSUME NEW s \in SchedState
  PROVE  s.grq.qnr \in Int /\ s.grq.nr_running \in Int /\ s.grq.nr_uninterruptible \in Int
BY StateParts, GrqFields

\* 1 for a task in uninterruptible sleep, which counts as load.
Load(s, p) == IF s.task[p].state = "uninterruptible" THEN 1 ELSE 0

\* A quiet step keeps the queue.
LEMMA QuietEffect ==
  ASSUME NEW s \in SchedState, NEW t, Quiet(s, t)
  PROVE  /\ t \in SchedState /\ Queued(t) = Queued(s) /\ (WellFormed(s) => WellFormed(t))
         /\ SameCounts(s, t) /\ \A p \in Tasks : SameCore(t.task[p], s.task[p])
         /\ \A c \in Cpus : t.rq[c].curr = s.rq[c].curr
<1>1. \A p \in Queued(s) : t.task[p].prio = s.task[p].prio BY DEF Queued, Quiet, SameCore
<1> QED BY <1>1, QueueKept DEF Quiet, Step, SameCounts

\* Assigning to the task p alone: what becomes of the fields.
LEMMA TaskOnly ==
  ASSUME NEW s \in SchedState, NEW p \in Tasks, NEW r
  PROVE  LET t == [s EXCEPT !.task[p] = r]
         IN  /\ t.grq = s.grq /\ t.rq = s.rq /\ t.task[p] = r /\ Others(s, t, p)
BY DEF SchedState, Others, SameCore

\* inc_qnr and dec_qnr only count.
LEMMA QnrEffect ==
  ASSUME NEW s \in SchedState
  PROVE  /\ inc_qnr(s).grq.queue = s.grq.queue /\ inc_qnr(s).grq.prio_bitmap = s.grq.prio_bitmap
         /\ inc_qnr(s).task = s.task /\ inc_qnr(s).rq = s.rq /\ Counts(s, inc_qnr(s), 1, 0, 0)
         /\ dec_qnr(s).grq.queue = s.grq.queue /\ dec_qnr(s).grq.prio_bitmap = s.grq.prio_bitmap
         /\ dec_qnr(s).task = s.task /\ dec_qnr(s).rq = s.rq /\ Counts(s, dec_qnr(s), -1, 0, 0)
<1>1. s.grq \in GrqRec BY StateParts
<1>2. s.grq.qnr \in Int /\ s.grq.nr_running \in Int /\ s.grq.nr_uninterruptible \in Int BY CountsType
<1>3. /\ inc_qnr(s).grq = [s.grq EXCEPT !.qnr = s.grq.qnr + 1] /\ inc_qnr(s).task = s.task
      /\ inc_qnr(s).rq = s.rq
  BY DEF inc_qnr, SchedState
<1>4. /\ dec_qnr(s).grq = [s.grq EXCEPT !.qnr = s.grq.qnr - 1] /\ dec_qnr(s).task = s.task
      /\ dec_qnr(s).rq = s.rq
  BY DEF dec_qnr, SchedState
<1>5. \A v : /\ [s.grq EXCEPT !.qnr = v].queue = s.grq.queue
             /\ [s.grq EXCEPT !.qnr = v].prio_bitmap = s.grq.prio_bitmap
             /\ [s.grq EXCEPT !.qnr = v].qnr = v
             /\ [s.grq EXCEPT !.qnr = v].nr_running = s.grq.nr_running
             /\ [s.grq EXCEPT !.qnr = v].nr_uninterruptible = s.grq.nr_uninterruptible
  BY <1>1 DEF GrqRec
<1> QED BY <1>2, <1>3, <1>4, <1>5 DEF Counts

\* activate_task: p is queued and counted, and where it was otherwise.
LEMMA ActivateEffect ==
  ASSUME NEW s \in SchedState, WellFormed(s), NEW p \in Tasks, p \notin Queued(s), NEW fit
  PROVE  LET t == activate_task(s, p, fit)
         IN  /\ WellFormed(t) /\ Queued(t) = Queued(s) \cup {p}
             /\ Others(s, t, p) /\ Unmoved(s, t, p) /\ t.rq = s.rq
             /\ Counts(s, t, 1, 1, -Load(s, p))
<1> DEFINE t == activate_task(s, p, fit)
           r == [s.task[p] EXCEPT !.prio = effective_prio(s.task[p])]
           a == [s EXCEPT !.task[p] = r]
           n == IF s.task[p].state = "uninterruptible" THEN a.grq.nr_uninterruptible - 1
                ELSE a.grq.nr_uninterruptible
           b == [a EXCEPT !.grq.nr_uninterruptible = n]
           c == enqueue_task(b, p, fit)
           d == inc_qnr(c)
<1>1. t = [d EXCEPT !.grq.nr_running = @ + 1] BY DEF activate_task
<1>2. s.task[p] \in TaskRec BY StateParts
<1>3. r \in TaskRec BY <1>2, EffectivePrio, TaskWrite
<1>4. Step(s, a) BY <1>3, TaskStep
<1>5. a.grq = s.grq /\ a.rq = s.rq /\ a.task[p] = r /\ Others(s, a, p) BY TaskOnly
<1>6. /\ r.state = s.task[p].state /\ r.on_cpu = s.task[p].on_cpu /\ r.cpu = s.task[p].cpu
      /\ r.allowed = s.task[p].allowed
  BY <1>2 DEF TaskRec
<1>7. a \in SchedState BY <1>4 DEF Step
<1> HIDE DEF r, a
<1>8. Queued(a) = Queued(s) /\ WellFormed(a)
  <2>1. \A q \in Queued(s) : a.task[q].prio = s.task[q].prio BY <1>5 DEF Others, SameCore, Queued
  <2> QED BY <1>5, <2>1, QueueKept
<1>9. n \in Int BY <1>7, CountsType
<1>10. n = s.grq.nr_uninterruptible + (-Load(s, p))
  <2>1. s.grq.nr_uninterruptible \in Int BY CountsType
  <2> QED BY <1>5, <2>1 DEF Load
<1> HIDE DEF n
<1>11. b \in SchedState BY <1>7, <1>9, GrqAssign DEF Step
<1>12. /\ b.grq.queue = a.grq.queue /\ b.grq.prio_bitmap = a.grq.prio_bitmap
       /\ b.grq.qnr = a.grq.qnr /\ b.grq.nr_running = a.grq.nr_running
       /\ b.grq.nr_uninterruptible = n /\ b.task = a.task /\ b.rq = a.rq
  <2>1. a.grq \in GrqRec BY <1>7, StateParts
  <2> QED BY <1>7, <2>1 DEF SchedState, GrqRec
<1> HIDE DEF b
<1>13. Queued(b) = Queued(s) /\ WellFormed(b) BY <1>7, <1>8, <1>12, QueueKept
<1>14. /\ WellFormed(c) /\ Queued(c) = Queued(s) \cup {p}
       /\ c.task = [b.task EXCEPT ![p].prio = EnqueuePrio(b, p, fit)]
       /\ c.rq = b.rq /\ SameCounts(b, c)
  BY <1>11, <1>13, EnqueueEffect
<1>15. c \in SchedState BY <1>11, EnqueueStep DEF Step
<1> HIDE DEF c
<1>16. Others(s, c, p) /\ Unmoved(s, c, p)
  <2>1. b.task \in [Tasks -> TaskRec] BY <1>11, StateParts
  <2>2. \A q \in Tasks \ {p} : c.task[q] = b.task[q] BY <1>14, <2>1
  <2>3. /\ c.task[p].state = b.task[p].state /\ c.task[p].on_cpu = b.task[p].on_cpu
        /\ c.task[p].cpu = b.task[p].cpu /\ c.task[p].allowed = b.task[p].allowed
    BY <1>14, <2>1 DEF TaskRec
  <2> QED BY <1>5, <1>6, <1>12, <2>2, <2>3 DEF Others, Unmoved
<1>17. /\ d.grq.queue = c.grq.queue /\ d.grq.prio_bitmap = c.grq.prio_bitmap
       /\ d.task = c.task /\ d.rq = c.rq /\ Counts(c, d, 1, 0, 0) /\ d \in SchedState
  BY <1>15, QnrEffect, QnrStep DEF Step
<1> HIDE DEF d
<1>18. /\ t.grq.queue = d.grq.queue /\ t.grq.prio_bitmap = d.grq.prio_bitmap
       /\ t.grq.qnr = d.grq.qnr /\ t.grq.nr_running = d.grq.nr_running + 1
       /\ t.grq.nr_uninterruptible = d.grq.nr_uninterruptible /\ t.task = d.task /\ t.rq = d.rq
  <2>1. d.grq \in GrqRec BY <1>17, StateParts
  <2> QED BY <1>1, <1>17, <2>1 DEF SchedState, GrqRec
<1> HIDE DEF t
<1>19. Queued(t) = Queued(c) /\ WellFormed(t) BY <1>14, <1>15, <1>17, <1>18, QueueKept
<1>20. Counts(s, t, 1, 1, -Load(s, p))
  <2>1. c.grq.qnr \in Int /\ c.grq.nr_running \in Int /\ c.grq.nr_uninterruptible \in Int
    BY <1>15, CountsType
  <2> QED BY <1>5, <1>10, <1>12, <1>14, <1>17, <1>18, <2>1 DEF Counts, SameCounts
<1>21. Others(s, t, p) /\ Unmoved(s, t, p) /\ t.rq = s.rq
  BY <1>5, <1>12, <1>14, <1>16, <1>17, <1>18 DEF Others, Unmoved
<1> QED BY <1>14, <1>19, <1>20, <1>21 DEF t

\* deactivate_task: p is no longer counted as running; the queue is as it was.
LEMMA DeactivateEffect ==
  ASSUME NEW s \in SchedState, NEW p \in Tasks
  PROVE  LET t == deactivate_task(s, p)
         IN  /\ t.grq.queue = s.grq.queue /\ t.grq.prio_bitmap = s.grq.prio_bitmap
             /\ (\A q \in Tasks : SameCore(t.task[q], s.task[q])) /\ t.rq = s.rq
             /\ Counts(s, t, 0, -1, Load(s, p))
<1> DEFINE t == deactivate_task(s, p)
           n == IF s.task[p].state = "uninterruptible" THEN s.grq.nr_uninterruptible + 1
                ELSE s.grq.nr_uninterruptible
           a == [s EXCEPT !.grq.nr_uninterruptible = n]
           b == [a EXCEPT !.grq.nr_running = @ - 1]
<1>1. t = clear_sticky(b, p) BY DEF deactivate_task, clear_sticky
<1>2. s.grq.qnr \in Int /\ s.grq.nr_running \in Int /\ s.grq.nr_uninterruptible \in Int BY CountsType
<1>3. n = s.grq.nr_uninterruptible + Load(s, p) /\ n \in Int BY <1>2 DEF Load
<1> HIDE DEF n
<1>4. a \in SchedState BY <1>3, GrqAssign DEF Step
<1>5. /\ a.grq = [s.grq EXCEPT !.nr_uninterruptible = n] /\ a.task = s.task /\ a.rq = s.rq
  BY DEF SchedState
<1>6. /\ b.grq = [a.grq EXCEPT !.nr_running = a.grq.nr_running - 1] /\ b.task = a.task
      /\ b.rq = a.rq
  BY <1>4 DEF SchedState
<1> HIDE DEF a
<1>7. b \in SchedState
  <2>1. a.grq.nr_running - 1 \in Int BY <1>4, CountsType
  <2> QED BY <1>4, <2>1, GrqAssign DEF Step
<1> HIDE DEF b
<1>8. s.grq \in GrqRec /\ a.grq \in GrqRec BY <1>4, StateParts
<1>9. /\ b.grq.queue = s.grq.queue /\ b.grq.prio_bitmap = s.grq.prio_bitmap
      /\ b.grq.qnr = s.grq.qnr /\ b.grq.nr_running = s.grq.nr_running - 1
      /\ b.grq.nr_uninterruptible = n
  <2>1. /\ a.grq.queue = s.grq.queue /\ a.grq.prio_bitmap = s.grq.prio_bitmap
        /\ a.grq.qnr = s.grq.qnr /\ a.grq.nr_running = s.grq.nr_running
        /\ a.grq.nr_uninterruptible = n
    BY <1>5, <1>8 DEF GrqRec
  <2> QED BY <1>6, <1>8, <2>1 DEF GrqRec
<1>10. Quiet(b, t) BY <1>1, <1>7, ClearStickyQuiet
<1>11. t.rq = b.rq BY <1>1, <1>7 DEF clear_sticky, SchedState
<1> HIDE DEF t
<1> QED BY <1>2, <1>3, <1>5, <1>6, <1>9, <1>10, <1>11 DEF t, Quiet, Counts

\* return_task of a task that goes on: it is queued and counted as such.
LEMMA ReturnEffect ==
  ASSUME NEW s \in SchedState, WellFormed(s), NEW p \in Tasks, p \notin Queued(s), NEW fit
  PROVE  LET t == return_task(s, p, FALSE, fit)
         IN  /\ WellFormed(t) /\ Queued(t) = Queued(s) \cup {p}
             /\ Others(s, t, p) /\ Unmoved(s, t, p) /\ t.rq = s.rq
             /\ Counts(s, t, 1, 0, 0)
<1> DEFINE t == return_task(s, p, FALSE, fit)
           a == inc_qnr(s)
<1>1. t = enqueue_task(a, p, fit) BY DEF return_task
<1>2. /\ a.grq.queue = s.grq.queue /\ a.grq.prio_bitmap = s.grq.prio_bitmap
      /\ a.task = s.task /\ a.rq = s.rq /\ Counts(s, a, 1, 0, 0) /\ a \in SchedState
  BY QnrEffect, QnrStep DEF Step
<1> HIDE DEF a, t
<1>3. Queued(a) = Queued(s) /\ WellFormed(a) BY <1>2, QueueKept
<1>4. /\ WellFormed(t) /\ Queued(t) = Queued(s) \cup {p}
      /\ t.task = [a.task EXCEPT ![p].prio = EnqueuePrio(a, p, fit)]
      /\ t.rq = a.rq /\ SameCounts(a, t)
  <2> DEFINE e == enqueue_task(a, p, fit)
  <2>1. /\ WellFormed(e) /\ Queued(e) = Queued(a) \cup {p}
        /\ e.task = [a.task EXCEPT ![p].prio = EnqueuePrio(a, p, fit)]
        /\ e.rq = a.rq /\ SameCounts(a, e)
    BY <1>2, <1>3, EnqueueEffect
  <2>2. t = e BY <1>1
  <2> HIDE DEF e
  <2> QED BY <1>3, <2>1, <2>2
<1>5. a.task \in [Tasks -> TaskRec] BY <1>2, StateParts
<1>6. \A q \in Tasks \ {p} : t.task[q] = a.task[q] BY <1>4, <1>5
<1>7. /\ t.task[p].state = a.task[p].state /\ t.task[p].on_cpu = a.task[p].on_cpu
      /\ t.task[p].cpu = a.task[p].cpu /\ t.task[p].allowed = a.task[p].allowed
  BY <1>4, <1>5 DEF TaskRec
<1>8. Others(s, t, p) /\ Unmoved(s, t, p) BY <1>2, <1>6, <1>7 DEF Others, SameCore, Unmoved
<1>9. Counts(s, t, 1, 0, 0) BY <1>2, <1>4 DEF Counts, SameCounts
<1> QED BY <1>2, <1>4, <1>8, <1>9 DEF t

\* take_task: p leaves the queue for cpu.
LEMMA TakeEffect ==
  ASSUME NEW s \in SchedState, WellFormed(s), NEW cpu \in Cpus, NEW p \in Queued(s)
  PROVE  LET t == take_task(s, cpu, p)
         IN  /\ t \in SchedState /\ WellFormed(t) /\ Queued(t) = Queued(s) \ {p}
             /\ Others(s, t, p) /\ t.task[p].cpu = cpu
             /\ t.task[p].state = s.task[p].state /\ t.task[p].on_cpu = s.task[p].on_cpu
             /\ t.task[p].allowed = s.task[p].allowed /\ t.task[p].prio = s.task[p].prio
             /\ t.rq = s.rq /\ Counts(s, t, -1, 0, 0)
<1> DEFINE t == take_task(s, cpu, p)
           r == [s.task[p] EXCEPT !.cpu = cpu]
           a == [s EXCEPT !.task[p] = r]
           b == dequeue_task(a, p)
           c == clear_sticky(b, p)
<1>1. p \in Tasks BY DEF Queued
<1>2. t = dec_qnr(c) BY DEF take_task
<1>3. s.task[p] \in TaskRec BY <1>1, StateParts
<1>4. r \in TaskRec BY <1>3, TaskWrite
<1>5. a \in SchedState BY <1>1, <1>4, TaskStep DEF Step
<1>6. a.grq = s.grq /\ a.rq = s.rq /\ a.task[p] = r /\ Others(s, a, p) BY <1>1, TaskOnly
<1>7. /\ r.state = s.task[p].state /\ r.on_cpu = s.task[p].on_cpu /\ r.cpu = cpu
      /\ r.allowed = s.task[p].allowed /\ r.prio = s.task[p].prio
  BY <1>3 DEF TaskRec
<1> HIDE DEF r, a
<1>8. Queued(a) = Queued(s) /\ WellFormed(a)
  <2>1. \A q \in Queued(s) : a.task[q].prio = s.task[q].prio
    BY <1>6, <1>7 DEF Others, SameCore, Queued
  <2> QED BY <1>6, <2>1, QueueKept
<1>9. /\ WellFormed(b) /\ Queued(b) = Queued(s) \ {p}
      /\ b.task = a.task /\ b.rq = a.rq /\ SameCounts(a, b)
  BY <1>5, <1>8, DequeueEffect
<1>10. b \in SchedState BY <1>1, <1>5, DequeueStep DEF Step
<1> HIDE DEF b
<1>11. Quiet(b, c) BY <1>1, <1>10, ClearStickyQuiet
<1>12. c.rq = b.rq BY <1>10 DEF clear_sticky, SchedState
<1> HIDE DEF c
<1>13. /\ c \in SchedState /\ Queued(c) = Queued(b) /\ WellFormed(c)
       /\ SameCounts(b, c) /\ \A q \in Tasks : SameCore(c.task[q], b.task[q])
  BY <1>9, <1>10, <1>11, QuietEffect
<1>14. /\ t.grq.queue = c.grq.queue /\ t.grq.prio_bitmap = c.grq.prio_bitmap
       /\ t.task = c.task /\ t.rq = c.rq /\ Counts(c, t, -1, 0, 0) /\ t \in SchedState
  BY <1>2, <1>13, QnrEffect, QnrStep DEF Step
<1> HIDE DEF t
<1>15. Queued(t) = Queued(c) /\ WellFormed(t) BY <1>13, <1>14, QueueKept
<1>16. Others(s, t, p) BY <1>6, <1>9, <1>13, <1>14 DEF Others, SameCore
<1>17. SameCore(t.task[p], r) BY <1>1, <1>6, <1>9, <1>13, <1>14
<1>18. Counts(s, t, -1, 0, 0)
  BY <1>6, <1>9, <1>13, <1>14 DEF Counts, SameCounts
<1> QED BY <1>6, <1>7, <1>9, <1>12, <1>13, <1>14, <1>15, <1>16, <1>17, <1>18 DEF t, SameCore
-----------------------------------------------------------------------------
(***************************************************************************)
(* Where the tasks are, and the counters.                                  *)
(***************************************************************************)
\* OnePlace for the task p of a state.
PlacedTask(s, p) ==
  /\ s.task[p].on_cpu => s.rq[s.task[p].cpu].curr = p /\ p \notin Queued(s)
  /\ \A c \in Cpus : s.rq[c].curr = p => s.task[p].on_cpu /\ s.task[p].cpu = c
  /\ s.task[p].state = "running" => s.task[p].on_cpu \/ p \in Queued(s)
  /\ s.task[p].state \in {"none", "new"} => ~s.task[p].on_cpu /\ p \notin Queued(s)
  /\ s.task[p].state = "dead" => s.task[p].on_cpu

Placed(s) == \A p \in Tasks : PlacedTask(s, p)

Runnable(s) == Queued(s) \cup Running(s)

\* Counters of a state.
Counted(s) ==
  /\ s.grq.qnr = Cardinality(Queued(s))
  /\ s.grq.nr_running = Cardinality(Runnable(s))
  /\ s.grq.nr_uninterruptible = Cardinality(Blocked(s))

\* The inductive invariant.
PInv == IInv /\ QueueWellFormed /\ OnePlace /\ Counters

\* The invariant as a fact about the state the handlers work on.
LEMMA PInvSched == PInv <=> IInv /\ WellFormed(sched) /\ Placed(sched) /\ Counted(sched)
<1>1. QueueWellFormed <=> WellFormed(sched)
  BY DEF QueueWellFormed, WellFormed, LinkedOnce, OwnList, BitsExact, sched
<1>2. OnePlace <=> Placed(sched)
  <2>1. \A p \in Tasks : task_queued(sched, p) <=> p \in Queued(sched) BY DEF Queued
  <2>2. sched.task = task /\ sched.rq = rq BY DEF sched
  <2> QED BY <2>1, <2>2 DEF OnePlace, Placed, PlacedTask
<1>3. Counters <=> Counted(sched)
  <2>1. sched.grq = grq /\ sched.rq = rq /\ sched.task = task BY DEF sched
  <2>2. QueuedTasks = Queued(sched) BY DEF QueuedTasks, Queued
  <2>3. RunningTasks = Running(sched) BY <2>1 DEF RunningTasks, Running
  <2>4. {p \in SleepingTasks : task[p].state = "uninterruptible"} = Blocked(sched)
    BY <2>1, <2>2, <2>3 DEF SleepingTasks, LiveTasks, Blocked
  <2> QED BY <2>1, <2>2, <2>3, <2>4 DEF Counters, Counted, Runnable
<1> QED BY <1>1, <1>2, <1>3 DEF PInv

\* 1 when p is in S.
Ind(S, p) == IF p \in S THEN 1 ELSE 0

\* Sets of tasks that differ by p at most.
LEMMA CardInd ==
  ASSUME NEW A, A \subseteq Tasks, NEW B, B \subseteq Tasks, NEW p, A \ {p} = B \ {p}
  PROVE  /\ Cardinality(A) \in Nat /\ Cardinality(B) \in Nat
         /\ Cardinality(B) = Cardinality(A) + (Ind(B, p) - Ind(A, p))
<1>1. IsFiniteSet(A) /\ IsFiniteSet(B) BY TaskAssumption, FS_Subset
<1>2. Cardinality(A) \in Nat /\ Cardinality(B) \in Nat BY <1>1, FS_CardinalityType
<1>3. CASE p \in A /\ p \in B
  <2>1. A = B BY <1>3
  <2> QED BY <1>2, <1>3, <2>1 DEF Ind
<1>4. CASE p \in A /\ p \notin B
  <2>1. B = A \ {p} BY <1>4
  <2>2. Cardinality(B) = Cardinality(A) - 1 BY <1>1, <1>4, <2>1, FS_RemoveElement
  <2> QED BY <1>2, <1>4, <2>2 DEF Ind
<1>5. CASE p \notin A /\ p \in B
  <2>1. A = B \ {p} BY <1>5
  <2>2. Cardinality(A) = Cardinality(B) - 1 BY <1>1, <1>5, <2>1, FS_RemoveElement
  <2> QED BY <1>2, <1>5, <2>2 DEF Ind
<1>6. CASE p \notin A /\ p \notin B
  <2>1. A = B BY <1>6
  <2> QED BY <1>2, <1>6, <2>1 DEF Ind
<1> QED BY <1>2, <1>3, <1>4, <1>5, <1>6

\* A handler other than schedule() touches one task p: it may move it between the
\* queue and elsewhere, and change its core; no other task is moved or changed.
Touch(s, t, p) ==
  /\ Step(s, t) /\ WellFormed(t) /\ Others(s, t, p)
  /\ Queued(t) \ {p} = Queued(s) \ {p}

\* Every other task stays in its place.
LEMMA TouchPlaced ==
  ASSUME NEW s, NEW t, NEW p \in Tasks, Placed(s), Touch(s, t, p), PlacedTask(t, p),
         s \in SchedState
  PROVE  Placed(t)
<1> SUFFICES ASSUME NEW q \in Tasks \ {p} PROVE PlacedTask(t, q) BY DEF Placed
<1>1. PlacedTask(s, q) BY DEF Placed
<1>2. SameCore(t.task[q], s.task[q]) BY DEF Touch, Others
<1>3. q \in Queued(t) <=> q \in Queued(s) BY DEF Touch
<1>4. \A c \in Cpus : t.rq[c].curr = s.rq[c].curr BY DEF Touch, Step
<1>5. s.task[q].cpu \in Cpus BY StateParts, TaskFields
<1> QED BY <1>1, <1>2, <1>3, <1>4, <1>5 DEF PlacedTask, SameCore

\* The counters stay exact when they move with p.
LEMMA TouchCounted ==
  ASSUME NEW s, NEW t, NEW p \in Tasks, Counted(s), Touch(s, t, p), s \in SchedState,
         Counts(s, t, Ind(Queued(t), p) - Ind(Queued(s), p),
                      Ind(Runnable(t), p) - Ind(Runnable(s), p),
                      Ind(Blocked(t), p) - Ind(Blocked(s), p))
  PROVE  Counted(t)
<1>1. Running(t) = Running(s) BY DEF Touch, Step, Running
<1>2. Queued(t) \ {p} = Queued(s) \ {p} BY DEF Touch
<1>3. Runnable(t) \ {p} = Runnable(s) \ {p} BY <1>1, <1>2 DEF Runnable
<1>4. \A q \in Tasks \ {p} : t.task[q].state = s.task[q].state BY DEF Touch, Others, SameCore
<1>5. Blocked(t) \ {p} = Blocked(s) \ {p} BY <1>1, <1>2, <1>4 DEF Blocked
<1>6. /\ Queued(s) \subseteq Tasks /\ Runnable(s) \subseteq Tasks /\ Blocked(s) \subseteq Tasks
      /\ Queued(t) \subseteq Tasks /\ Runnable(t) \subseteq Tasks /\ Blocked(t) \subseteq Tasks
  BY DEF Queued, Running, Runnable, Blocked
<1>7. Cardinality(Queued(t)) = Cardinality(Queued(s)) + (Ind(Queued(t), p) - Ind(Queued(s), p))
  BY <1>2, <1>6, CardInd
<1>8. Cardinality(Runnable(t)) = Cardinality(Runnable(s)) + (Ind(Runnable(t), p) - Ind(Runnable(s), p))
  BY <1>3, <1>6, CardInd
<1>9. Cardinality(Blocked(t)) = Cardinality(Blocked(s)) + (Ind(Blocked(t), p) - Ind(Blocked(s), p))
  BY <1>5, <1>6, CardInd
<1> QED BY <1>7, <1>8, <1>9 DEF Counted, Counts

\* A handler that moves nothing keeps places and counters.
LEMMA QuietPlaced ==
  ASSUME NEW s \in SchedState, NEW t, Quiet(s, t), WellFormed(s), Placed(s), Counted(s)
  PROVE  WellFormed(t) /\ Placed(t) /\ Counted(t)
<1>1. /\ t \in SchedState /\ Queued(t) = Queued(s) /\ WellFormed(t)
      /\ SameCounts(s, t) /\ \A p \in Tasks : SameCore(t.task[p], s.task[p])
      /\ \A c \in Cpus : t.rq[c].curr = s.rq[c].curr
  BY QuietEffect
<1>2. Running(t) = Running(s) BY <1>1 DEF Running
<1>3. Blocked(t) = Blocked(s) BY <1>1, <1>2 DEF Blocked, SameCore
<1>4. Counted(t) BY <1>1, <1>2, <1>3 DEF Counted, SameCounts, Runnable
<1>5. ASSUME NEW p \in Tasks PROVE PlacedTask(t, p)
  <2>1. PlacedTask(s, p) BY DEF Placed
  <2>2. s.task[p].cpu \in Cpus BY StateParts, TaskFields
  <2> QED BY <1>1, <2>1, <2>2 DEF PlacedTask, SameCore
<1> QED BY <1>1, <1>4, <1>5 DEF Placed
-----------------------------------------------------------------------------
(***************************************************************************)
(* What a step of the scheduler can be, up to what is quiet: the effects.  *)
(* Each keeps the invariant; which handler has which is shown below.       *)
(***************************************************************************)
Keeps(t) == WellFormed(t) /\ Placed(t) /\ Counted(t)

\* A task on a CPU or in the queue changes its state.
Restates(s, t, p) ==
  /\ Touch(s, t, p) /\ Queued(t) = Queued(s) /\ SameCounts(s, t)
  /\ t.task[p].on_cpu = s.task[p].on_cpu /\ t.task[p].cpu = s.task[p].cpu
  /\ t.task[p].allowed = s.task[p].allowed
  /\ p \in Runnable(s)
  /\ s.task[p].state \notin {"none", "new"} /\ t.task[p].state \notin {"none", "new"}
  /\ t.task[p].state = "dead" => t.task[p].on_cpu

\* A task changes its priority or its policy, and stays where it is.
Reprios(s, t, p) ==
  Touch(s, t, p) /\ Queued(t) = Queued(s) /\ SameCounts(s, t) /\ Unmoved(s, t, p)

\* A sleeping task is queued.
Wakes(s, t, p) ==
  /\ Touch(s, t, p) /\ Queued(t) = Queued(s) \cup {p} /\ Counts(s, t, 1, 1, -Load(s, p))
  /\ p \notin Runnable(s) /\ s.task[p].state \in {"interruptible", "uninterruptible"}
  /\ t.task[p].state = "running" /\ ~t.task[p].on_cpu
  /\ t.task[p].allowed = s.task[p].allowed

\* A new task is made, with the affinity of a task that runs, and then queued.
Forks(s, t, p) ==
  /\ Touch(s, t, p) /\ Queued(t) = Queued(s) /\ SameCounts(s, t)
  /\ s.task[p].state = "none" /\ t.task[p].state = "new" /\ ~t.task[p].on_cpu
  /\ \E parent \in Running(s) : t.task[p].allowed = s.task[parent].allowed

Starts(s, t, p) ==
  /\ Touch(s, t, p) /\ Queued(t) = Queued(s) \cup {p} /\ Counts(s, t, 1, 1, 0)
  /\ s.task[p].state = "new" /\ t.task[p].state = "running" /\ ~t.task[p].on_cpu
  /\ t.task[p].allowed = s.task[p].allowed

\* A task may run elsewhere; its cpu changes only if it does not run.
Rebinds(s, t, p) ==
  /\ Touch(s, t, p) /\ Queued(t) = Queued(s) /\ SameCounts(s, t)
  /\ t.task[p].state = s.task[p].state /\ t.task[p].on_cpu = s.task[p].on_cpu
  /\ s.task[p].on_cpu => t.task[p].cpu = s.task[p].cpu
  /\ t.task[p].allowed \in (SUBSET Cpus) \ {{}}

\* The facts every effect on one task uses.
LEMMA TouchFacts ==
  ASSUME NEW s \in SchedState, NEW t, NEW p \in Tasks, Touch(s, t, p), Placed(s)
  PROVE  /\ t \in SchedState /\ WellFormed(t) /\ Running(t) = Running(s)
         /\ \A c \in Cpus : t.rq[c].curr = s.rq[c].curr
         /\ s.task[p].cpu \in Cpus /\ t.task[p].cpu \in Cpus
         /\ s.task[p].on_cpu \in BOOLEAN /\ t.task[p].on_cpu \in BOOLEAN
         /\ s.task[p].on_cpu <=> p \in Running(s)
         /\ PlacedTask(s, p)
<1>1. t \in SchedState /\ WellFormed(t) /\ \A c \in Cpus : t.rq[c].curr = s.rq[c].curr
  BY DEF Touch, Step
<1>2. Running(t) = Running(s) BY <1>1 DEF Running
<1>3. s.task[p].cpu \in Cpus /\ s.task[p].on_cpu \in BOOLEAN BY StateParts, TaskFields
<1>4. t.task[p].cpu \in Cpus /\ t.task[p].on_cpu \in BOOLEAN BY <1>1, StateParts, TaskFields
<1>5. PlacedTask(s, p) BY DEF Placed
<1>6. s.task[p].on_cpu <=> p \in Running(s) BY <1>3, <1>5 DEF PlacedTask, Running
<1> QED BY <1>1, <1>2, <1>3, <1>4, <1>5, <1>6

\* Changing the state of a task that is queued or runs keeps the invariant.
LEMMA RestatesKeeps ==
  ASSUME NEW s \in SchedState, NEW t, NEW p \in Tasks, Restates(s, t, p), Keeps(s)
  PROVE  Keeps(t)
<1>1. Touch(s, t, p) /\ Placed(s) /\ Counted(s) BY DEF Restates, Keeps
<1>2. /\ t \in SchedState /\ WellFormed(t) /\ Running(t) = Running(s)
      /\ \A c \in Cpus : t.rq[c].curr = s.rq[c].curr
      /\ s.task[p].cpu \in Cpus /\ s.task[p].on_cpu <=> p \in Running(s)
      /\ PlacedTask(s, p)
  BY <1>1, TouchFacts
<1>3. PlacedTask(t, p) BY <1>2 DEF PlacedTask, Restates, Runnable
<1>4. p \notin Blocked(s) /\ p \notin Blocked(t) /\ Runnable(t) = Runnable(s)
  BY <1>2 DEF Restates, Blocked, Runnable
<1>5. s.grq.qnr \in Int /\ s.grq.nr_running \in Int /\ s.grq.nr_uninterruptible \in Int
  BY CountsType
<1>6. Counted(t)
  <2>1. Counts(s, t, Ind(Queued(t), p) - Ind(Queued(s), p),
                     Ind(Runnable(t), p) - Ind(Runnable(s), p),
                     Ind(Blocked(t), p) - Ind(Blocked(s), p))
    BY <1>4, <1>5 DEF Counts, SameCounts, Restates, Ind
  <2> QED BY <1>1, <2>1, TouchCounted
<1>7. Placed(t) BY <1>1, <1>3, TouchPlaced
<1> QED BY <1>2, <1>6, <1>7 DEF Keeps

\* Changing a priority or a policy keeps it.
LEMMA RepriosKeeps ==
  ASSUME NEW s \in SchedState, NEW t, NEW p \in Tasks, Reprios(s, t, p), Keeps(s)
  PROVE  Keeps(t)
<1>1. Touch(s, t, p) /\ Placed(s) /\ Counted(s) BY DEF Reprios, Keeps
<1>2. /\ t \in SchedState /\ WellFormed(t) /\ Running(t) = Running(s)
      /\ \A c \in Cpus : t.rq[c].curr = s.rq[c].curr
      /\ s.task[p].cpu \in Cpus /\ PlacedTask(s, p)
  BY <1>1, TouchFacts
<1>3. PlacedTask(t, p) BY <1>2 DEF PlacedTask, Reprios, Unmoved
<1>4. Ind(Blocked(t), p) = Ind(Blocked(s), p) /\ Runnable(t) = Runnable(s)
  BY <1>2 DEF Reprios, Unmoved, Blocked, Runnable, Ind
<1>5. s.grq.qnr \in Int /\ s.grq.nr_running \in Int /\ s.grq.nr_uninterruptible \in Int
  BY CountsType
<1>6. Counted(t)
  <2>1. Counts(s, t, Ind(Queued(t), p) - Ind(Queued(s), p),
                     Ind(Runnable(t), p) - Ind(Runnable(s), p),
                     Ind(Blocked(t), p) - Ind(Blocked(s), p))
    BY <1>4, <1>5 DEF Counts, SameCounts, Reprios, Ind
  <2> QED BY <1>1, <2>1, TouchCounted
<1>7. Placed(t) BY <1>1, <1>3, TouchPlaced
<1> QED BY <1>2, <1>6, <1>7 DEF Keeps

\* Waking a task keeps it: the task leaves the sleepers and is counted as runnable.
LEMMA WakesKeeps ==
  ASSUME NEW s \in SchedState, NEW t, NEW p \in Tasks, Wakes(s, t, p), Keeps(s)
  PROVE  Keeps(t)
<1>1. Touch(s, t, p) /\ Placed(s) /\ Counted(s) BY DEF Wakes, Keeps
<1>2. /\ t \in SchedState /\ WellFormed(t) /\ Running(t) = Running(s)
      /\ \A c \in Cpus : t.rq[c].curr = s.rq[c].curr
      /\ PlacedTask(s, p)
  BY <1>1, TouchFacts
<1>3. \A c \in Cpus : t.rq[c].curr # p BY <1>2 DEF Wakes, Runnable, Running
<1>4. PlacedTask(t, p) BY <1>3 DEF PlacedTask, Wakes
<1>5. /\ Ind(Blocked(t), p) = 0 /\ Ind(Blocked(s), p) = Load(s, p)
      /\ Ind(Runnable(t), p) = 1 /\ Ind(Runnable(s), p) = 0
      /\ Ind(Queued(t), p) = 1 /\ Ind(Queued(s), p) = 0
  BY DEF Wakes, Blocked, Runnable, Ind, Load
<1>6. Counted(t)
  <2>1. Load(s, p) \in Int BY DEF Load
  <2>2. Counts(s, t, Ind(Queued(t), p) - Ind(Queued(s), p),
                     Ind(Runnable(t), p) - Ind(Runnable(s), p),
                     Ind(Blocked(t), p) - Ind(Blocked(s), p))
    BY <1>5, <2>1 DEF Counts, Wakes
  <2> QED BY <1>1, <2>2, TouchCounted
<1>7. Placed(t) BY <1>1, <1>4, TouchPlaced
<1> QED BY <1>2, <1>6, <1>7 DEF Keeps

\* Making a new task keeps it: the task is in no place yet.
LEMMA ForksKeeps ==
  ASSUME NEW s \in SchedState, NEW t, NEW p \in Tasks, Forks(s, t, p), Keeps(s)
  PROVE  Keeps(t)
<1>1. Touch(s, t, p) /\ Placed(s) /\ Counted(s) BY DEF Forks, Keeps
<1>2. /\ t \in SchedState /\ WellFormed(t) /\ Running(t) = Running(s)
      /\ \A c \in Cpus : t.rq[c].curr = s.rq[c].curr
      /\ s.task[p].on_cpu <=> p \in Running(s)
      /\ PlacedTask(s, p)
  BY <1>1, TouchFacts
<1>3. p \notin Queued(s) /\ p \notin Running(s) BY <1>2 DEF PlacedTask, Forks
<1>4. PlacedTask(t, p) BY <1>2, <1>3 DEF PlacedTask, Forks, Running
<1>5. p \notin Blocked(s) /\ p \notin Blocked(t) /\ Runnable(t) = Runnable(s)
  BY <1>2 DEF Forks, Blocked, Runnable
<1>6. s.grq.qnr \in Int /\ s.grq.nr_running \in Int /\ s.grq.nr_uninterruptible \in Int
  BY CountsType
<1>7. Counted(t)
  <2>1. Counts(s, t, Ind(Queued(t), p) - Ind(Queued(s), p),
                     Ind(Runnable(t), p) - Ind(Runnable(s), p),
                     Ind(Blocked(t), p) - Ind(Blocked(s), p))
    BY <1>5, <1>6 DEF Counts, SameCounts, Forks, Ind
  <2> QED BY <1>1, <2>1, TouchCounted
<1>8. Placed(t) BY <1>1, <1>4, TouchPlaced
<1> QED BY <1>2, <1>7, <1>8 DEF Keeps

\* Queueing a new task keeps it.
LEMMA StartsKeeps ==
  ASSUME NEW s \in SchedState, NEW t, NEW p \in Tasks, Starts(s, t, p), Keeps(s)
  PROVE  Keeps(t)
<1>1. Touch(s, t, p) /\ Placed(s) /\ Counted(s) BY DEF Starts, Keeps
<1>2. /\ t \in SchedState /\ WellFormed(t) /\ Running(t) = Running(s)
      /\ \A c \in Cpus : t.rq[c].curr = s.rq[c].curr
      /\ s.task[p].on_cpu <=> p \in Running(s)
      /\ PlacedTask(s, p)
  BY <1>1, TouchFacts
<1>3. p \notin Queued(s) /\ p \notin Running(s) BY <1>2 DEF PlacedTask, Starts
<1>4. PlacedTask(t, p) BY <1>2, <1>3 DEF PlacedTask, Starts, Running
<1>5. /\ Ind(Blocked(t), p) = 0 /\ Ind(Blocked(s), p) = 0
      /\ Ind(Runnable(t), p) = 1 /\ Ind(Runnable(s), p) = 0
      /\ Ind(Queued(t), p) = 1 /\ Ind(Queued(s), p) = 0
  BY <1>3 DEF Starts, Blocked, Runnable, Ind
<1>6. Counted(t)
  <2>1. Counts(s, t, Ind(Queued(t), p) - Ind(Queued(s), p),
                     Ind(Runnable(t), p) - Ind(Runnable(s), p),
                     Ind(Blocked(t), p) - Ind(Blocked(s), p))
    BY <1>5 DEF Counts, Starts
  <2> QED BY <1>1, <2>1, TouchCounted
<1>7. Placed(t) BY <1>1, <1>4, TouchPlaced
<1> QED BY <1>2, <1>6, <1>7 DEF Keeps

\* Changing an affinity keeps it.
LEMMA RebindsKeeps ==
  ASSUME NEW s \in SchedState, NEW t, NEW p \in Tasks, Rebinds(s, t, p), Keeps(s)
  PROVE  Keeps(t)
<1>1. Touch(s, t, p) /\ Placed(s) /\ Counted(s) BY DEF Rebinds, Keeps
<1>2. /\ t \in SchedState /\ WellFormed(t) /\ Running(t) = Running(s)
      /\ \A c \in Cpus : t.rq[c].curr = s.rq[c].curr
      /\ s.task[p].cpu \in Cpus /\ PlacedTask(s, p)
  BY <1>1, TouchFacts
<1>3. PlacedTask(t, p) BY <1>2 DEF PlacedTask, Rebinds
<1>4. Ind(Blocked(t), p) = Ind(Blocked(s), p) /\ Runnable(t) = Runnable(s)
  BY <1>2 DEF Rebinds, Blocked, Runnable, Ind
<1>5. s.grq.qnr \in Int /\ s.grq.nr_running \in Int /\ s.grq.nr_uninterruptible \in Int
  BY CountsType
<1>6. Counted(t)
  <2>1. Counts(s, t, Ind(Queued(t), p) - Ind(Queued(s), p),
                     Ind(Runnable(t), p) - Ind(Runnable(s), p),
                     Ind(Blocked(t), p) - Ind(Blocked(s), p))
    BY <1>4, <1>5 DEF Counts, SameCounts, Rebinds, Ind
  <2> QED BY <1>1, <2>1, TouchCounted
<1>7. Placed(t) BY <1>1, <1>3, TouchPlaced
<1> QED BY <1>2, <1>6, <1>7 DEF Keeps
-----------------------------------------------------------------------------
(***************************************************************************)
(* Sleeping, waking and forking.                                           *)
(***************************************************************************)
\* Quiet steps after and before a handler touches a task change nothing about it.
LEMMA AfterQuiet ==
  ASSUME NEW s \in SchedState, NEW t, NEW u, NEW p \in Tasks, Touch(s, t, p), Quiet(t, u)
  PROVE  /\ Touch(s, u, p) /\ Queued(u) = Queued(t) /\ SameCounts(t, u)
         /\ SameCore(u.task[p], t.task[p])
<1>1. t \in SchedState /\ WellFormed(t) BY DEF Touch, Step
<1>2. /\ u \in SchedState /\ Queued(u) = Queued(t) /\ WellFormed(u)
      /\ SameCounts(t, u) /\ \A q \in Tasks : SameCore(u.task[q], t.task[q])
  BY <1>1, QuietEffect
<1>3. Step(s, u) BY Chain DEF Touch, Quiet
<1>4. Others(s, u, p) BY <1>2 DEF Touch, Others, SameCore
<1> QED BY <1>2, <1>3, <1>4 DEF Touch

\* The same for quiet steps before.
LEMMA BeforeQuiet ==
  ASSUME NEW s \in SchedState, NEW r, NEW t, NEW p \in Tasks, Quiet(s, r), Touch(r, t, p)
  PROVE  /\ Touch(s, t, p) /\ Queued(r) = Queued(s) /\ SameCounts(s, r)
         /\ SameCore(r.task[p], s.task[p])
<1>1. /\ r \in SchedState /\ Queued(r) = Queued(s)
      /\ SameCounts(s, r) /\ \A q \in Tasks : SameCore(r.task[q], s.task[q])
  BY QuietEffect
<1>2. Step(s, t) BY Chain DEF Touch, Quiet
<1>3. Others(s, t, p) BY <1>1 DEF Touch, Others, SameCore
<1> QED BY <1>1, <1>2, <1>3 DEF Touch

\* Writing the record of a task, but not the priority of one that is queued.
LEMMA WriteTouch ==
  ASSUME NEW s \in SchedState, WellFormed(s), NEW p \in Tasks, NEW r \in TaskRec,
         p \in Queued(s) => r.prio = s.task[p].prio
  PROVE  LET t == [s EXCEPT !.task[p] = r]
         IN  /\ Touch(s, t, p) /\ Queued(t) = Queued(s) /\ SameCounts(s, t) /\ t.task[p] = r
             /\ t.rq = s.rq
<1> DEFINE t == [s EXCEPT !.task[p] = r]
<1>1. t.grq = s.grq /\ t.rq = s.rq /\ t.task[p] = r /\ Others(s, t, p) BY TaskOnly
<1>2. Step(s, t) BY TaskStep
<1> HIDE DEF t
<1>3. \A q \in Queued(s) : t.task[q].prio = s.task[q].prio
  BY <1>1 DEF Others, SameCore, Queued
<1>4. Queued(t) = Queued(s) /\ WellFormed(t) BY <1>1, <1>3, QueueKept
<1> QED BY <1>1, <1>2, <1>4 DEF Touch, SameCounts, t

\* What PInv gives a handler to work with.
LEMMA PFacts ==
  ASSUME PInv
  PROVE  /\ IInv /\ sched \in SchedState /\ WellFormed(sched) /\ Placed(sched) /\ Counted(sched)
         /\ Keeps(sched)
         /\ sched.task = task /\ sched.rq = rq /\ sched.grq = grq
BY PInvSched, IInvSched DEF Keeps, sched

\* Changing the state of a task is writing its record.
LEMMA StateWrite ==
  ASSUME NEW s \in SchedState, WellFormed(s), NEW p \in Tasks, NEW st \in TaskStates
  PROVE  LET t == [s EXCEPT !.task[p].state = st]
         IN  /\ Touch(s, t, p) /\ Queued(t) = Queued(s) /\ SameCounts(s, t) /\ t.rq = s.rq
             /\ t.task[p].state = st /\ t.task[p].on_cpu = s.task[p].on_cpu
             /\ t.task[p].cpu = s.task[p].cpu /\ t.task[p].allowed = s.task[p].allowed
<1> DEFINE r == [s.task[p] EXCEPT !.state = st]
           t == [s EXCEPT !.task[p] = r]
<1>1. s.task[p] \in TaskRec BY StateParts
<1>2. r \in TaskRec BY <1>1, TaskWrite
<1>3. /\ r.state = st /\ r.on_cpu = s.task[p].on_cpu /\ r.cpu = s.task[p].cpu
      /\ r.allowed = s.task[p].allowed /\ r.prio = s.task[p].prio
  BY <1>1 DEF TaskRec
<1>4. [s EXCEPT !.task[p].state = st] = t OBVIOUS
<1> HIDE DEF r
<1>5. /\ Touch(s, t, p) /\ Queued(t) = Queued(s) /\ SameCounts(s, t) /\ t.task[p] = r
      /\ t.rq = s.rq
  BY <1>2, <1>3, WriteTouch
<1> HIDE DEF t
<1> QED BY <1>3, <1>4, <1>5

\* set_current_state changes the state of the task it is called by.
LEMMA SetCurrentStateEffect ==
  ASSUME PInv, NEW cpu \in Cpus, NEW st \in {"running", "interruptible", "uninterruptible"},
         SetCurrentState(cpu, st)
  PROVE  \E p \in Tasks : Restates(sched, sched', p)
<1> DEFINE p == rq[cpu].curr
           t == [sched EXCEPT !.task[p].state = st]
<1>1. /\ p \in Tasks /\ task' = [task EXCEPT ![p].state = st] /\ UNCHANGED <<grq, rq, inj>>
      /\ task[p].state \in {"running", "interruptible", "uninterruptible"}
  BY DEF SetCurrentState
<1>2. Become(t) BY <1>1 DEF Become, sched
<1>3. sched \in SchedState /\ WellFormed(sched) /\ sched.task = task /\ sched.rq = rq BY PFacts
<1>4. st \in TaskStates BY DEF TaskStates
<1>5. p \in Runnable(sched) BY <1>1, <1>3 DEF Runnable, Running
<1> HIDE DEF p
<1>6. /\ Touch(sched, t, p) /\ Queued(t) = Queued(sched) /\ SameCounts(sched, t)
      /\ t.task[p].state = st /\ t.task[p].on_cpu = sched.task[p].on_cpu
      /\ t.task[p].cpu = sched.task[p].cpu /\ t.task[p].allowed = sched.task[p].allowed
  BY <1>1, <1>3, <1>4, StateWrite
<1> HIDE DEF t
<1>7. sched' = t BY <1>2, <1>6, BecomeSched DEF Touch, Step
<1>8. Restates(sched, t, p) BY <1>1, <1>3, <1>5, <1>6 DEF Restates
<1> QED BY <1>1, <1>7, <1>8

\* do_exit too.
LEMMA ExitEffect ==
  ASSUME PInv, NEW cpu \in Cpus, Exit(cpu)
  PROVE  \E p \in Tasks : Restates(sched, sched', p)
<1> DEFINE p == rq[cpu].curr
           t == [sched EXCEPT !.task[p].state = "dead"]
<1>1. /\ p \in Tasks /\ task' = [task EXCEPT ![p].state = "dead"] /\ UNCHANGED <<grq, rq, inj>>
      /\ task[p].state = "running"
  BY AskAssumption DEF Exit
<1>2. Become(t) BY <1>1 DEF Become, sched
<1>3. /\ sched \in SchedState /\ WellFormed(sched) /\ sched.task = task /\ sched.rq = rq
      /\ Placed(sched)
  BY PFacts
<1>4. "dead" \in TaskStates BY DEF TaskStates
<1>5. p \in Runnable(sched) /\ sched.task[p].on_cpu
  BY <1>1, <1>3 DEF Runnable, Running, Placed, PlacedTask
<1> HIDE DEF p
<1>6. /\ Touch(sched, t, p) /\ Queued(t) = Queued(sched) /\ SameCounts(sched, t)
      /\ t.task[p].state = "dead" /\ t.task[p].on_cpu = sched.task[p].on_cpu
      /\ t.task[p].cpu = sched.task[p].cpu /\ t.task[p].allowed = sched.task[p].allowed
  <2>1. /\ Touch(sched, t, p) /\ Queued(t) = Queued(sched) /\ SameCounts(sched, t)
        /\ t.task[p].state = "dead" /\ t.task[p].on_cpu = sched.task[p].on_cpu
        /\ t.task[p].cpu = sched.task[p].cpu /\ t.task[p].allowed = sched.task[p].allowed
    BY <1>1, <1>3, <1>4, StateWrite
  <2> QED BY <2>1
<1> HIDE DEF t
<1>7. sched' = t BY <1>2, <1>6, BecomeSched DEF Touch, Step
<1>8. Restates(sched, t, p) BY <1>1, <1>3, <1>5, <1>6 DEF Restates
<1> QED BY <1>1, <1>7, <1>8

\* try_to_wake_up changes the state of a task that has not gone to sleep yet, and
\* queues one that has.
LEMMA TryToWakeUpEffect ==
  ASSUME PInv, NEW p \in Tasks, NEW sync, TryToWakeUp(p, sync)
  PROVE  Restates(sched, sched', p) \/ Wakes(sched, sched', p)
<1>1. /\ sched \in SchedState /\ WellFormed(sched) /\ sched.task = task /\ sched.rq = rq
      /\ Placed(sched)
  BY PFacts
<1>2. "running" \in TaskStates BY DEF TaskStates
<1>3. /\ sched.task[p].state \in {"interruptible", "uninterruptible"}
      /\ task_queued(sched, p) <=> p \in Queued(sched)
  BY <1>1 DEF TryToWakeUp, Queued
<1>4. sched.task[p].on_cpu \in BOOLEAN /\ sched.task[p].cpu \in Cpus BY <1>1, StateParts, TaskFields
<1>5. p \in Runnable(sched) <=> p \in Queued(sched) \/ sched.task[p].on_cpu
  BY <1>1, <1>4 DEF Runnable, Running, Placed, PlacedTask
<1>6. CASE task_queued(sched, p) \/ task[p].on_cpu
  <2> DEFINE t == [sched EXCEPT !.task[p].state = "running"]
  <2>1. Become(t) BY <1>6 DEF TryToWakeUp
  <2>2. /\ Touch(sched, t, p) /\ Queued(t) = Queued(sched) /\ SameCounts(sched, t)
        /\ t.task[p].state = "running" /\ t.task[p].on_cpu = sched.task[p].on_cpu
        /\ t.task[p].cpu = sched.task[p].cpu /\ t.task[p].allowed = sched.task[p].allowed
    BY <1>1, <1>2, StateWrite
  <2> HIDE DEF t
  <2>3. sched' = t BY <2>1, <2>2, BecomeSched DEF Touch, Step
  <2>4. Restates(sched, t, p) BY <1>1, <1>3, <1>5, <1>6, <2>2 DEF Restates
  <2> QED BY <2>3, <2>4
<1>7. CASE ~(task_queued(sched, p) \/ task[p].on_cpu)
  <2>1. PICK d \in Advances, fit \in BOOLEAN :
          LET s1 == activate_task(update_clocks(sched, d), p, fit)
              s2 == IF ~sync \/ suitable_idle_cpus(s1, p)
                    THEN try_preempt(s1, p, task[p].cpu) ELSE s1
          IN  Become([s2 EXCEPT !.task[p].state = "running"])
    BY <1>7 DEF TryToWakeUp
  <2> DEFINE s0 == update_clocks(sched, d)
             s1 == activate_task(s0, p, fit)
             s2 == IF ~sync \/ suitable_idle_cpus(s1, p)
                   THEN try_preempt(s1, p, task[p].cpu) ELSE s1
             t  == [s2 EXCEPT !.task[p].state = "running"]
  <2>2. Become(t) BY <2>1
  <2>3. d \in Nat BY DEF Advances
  <2>4. p \notin Queued(sched) /\ p \notin Runnable(sched) /\ ~sched.task[p].on_cpu
    BY <1>1, <1>3, <1>5, <1>7
  <2>5. Quiet(sched, s0) BY <1>1, <2>3, ClocksQuiet
  <2> HIDE DEF s0
  <2>6. /\ s0 \in SchedState /\ Queued(s0) = Queued(sched) /\ WellFormed(s0)
        /\ SameCounts(sched, s0) /\ SameCore(s0.task[p], sched.task[p])
    BY <1>1, <2>5, QuietEffect
  <2>7. /\ WellFormed(s1) /\ Queued(s1) = Queued(s0) \cup {p} /\ Others(s0, s1, p)
        /\ Unmoved(s0, s1, p) /\ Counts(s0, s1, 1, 1, -Load(s0, p))
    BY <2>4, <2>6, ActivateEffect
  <2>8. Step(s0, s1) BY <2>6, ActivateStep
  <2> HIDE DEF s1
  <2>9. Touch(s0, s1, p) BY <2>7, <2>8 DEF Touch
  <2>10. s1 \in SchedState BY <2>8 DEF Step
  <2>11. Quiet(s1, s2)
    <3>1. Quiet(s1, try_preempt(s1, p, task[p].cpu)) BY <1>1, <1>4, <2>10, TryPreemptQuiet
    <3>2. Quiet(s1, s1) BY <2>10, QuietRefl
    <3> QED BY <3>1, <3>2
  <2> HIDE DEF s2
  <2>12. /\ s2 \in SchedState /\ WellFormed(s2) /\ Touch(sched, s2, p)
         /\ Queued(s2) = Queued(s1) /\ SameCounts(s1, s2) /\ SameCore(s2.task[p], s1.task[p])
    <3>1. Touch(sched, s1, p) BY <1>1, <2>5, <2>9, BeforeQuiet
    <3> QED BY <1>1, <2>11, <3>1, AfterQuiet DEF Touch, Step
  <2>13. /\ Touch(s2, t, p) /\ Queued(t) = Queued(s2) /\ SameCounts(s2, t)
         /\ t.task[p].state = "running" /\ t.task[p].on_cpu = s2.task[p].on_cpu
         /\ t.task[p].allowed = s2.task[p].allowed
    BY <1>2, <2>12, StateWrite
  <2> HIDE DEF t
  <2>14. Touch(sched, t, p) BY <1>1, <2>12, <2>13, Chain DEF Touch, Others, SameCore
  <2>15. sched' = t BY <2>2, <2>14, BecomeSched DEF Touch, Step
  <2>16. Load(s0, p) = Load(sched, p) BY <2>6 DEF Load, SameCore
  <2>17. Counts(sched, t, 1, 1, -Load(sched, p))
    BY <2>6, <2>7, <2>12, <2>13, <2>16 DEF Counts, SameCounts
  <2>18. Wakes(sched, t, p)
    BY <1>1, <1>3, <2>4, <2>6, <2>7, <2>12, <2>13, <2>14, <2>17 DEF Wakes, Unmoved, SameCore
  <2> QED BY <2>15, <2>18
<1> QED BY <1>6, <1>7

\* sched_fork makes a new task of one that was not in use.
LEMMA SchedForkEffect ==
  ASSUME PInv, NEW cpu \in Cpus, NEW child \in Tasks, SchedFork(cpu, child)
  PROVE  Forks(sched, sched', child)
<1> DEFINE curr   == rq[cpu].curr
           me     == task[curr]
           policy == IF me.reset_on_fork /\ is_rt_policy(me.policy) THEN "normal" ELSE me.policy
           nice   == IF me.reset_on_fork /\ me.nice < 0 THEN 0 ELSE me.nice
           prio   == normal_prio(me.policy, me.rt_priority)
           born   == [me EXCEPT !.state = "new", !.cpu = cpu, !.on_cpu = FALSE, !.sticky = FALSE,
                                !.policy = policy, !.nice = nice, !.reset_on_fork = FALSE,
                                !.prio = prio, !.top_waiter = PRIO_LIMIT, !.parent = curr]
           s      == [sched EXCEPT !.task[child] = born]
           half   == rq[cpu].time_slice \div 2
           a      == [s EXCEPT !.rq[cpu].time_slice = half]
           b      == [a EXCEPT !.task[child].time_slice = half]
           c      == [s EXCEPT !.rq[cpu].time_slice = 0]
           d      == [c EXCEPT !.rq[cpu].need_resched = TRUE]
           t      == CASE born.policy = "fifo" -> s
                       [] born.policy # "fifo" /\ rq[cpu].time_slice >= 2 -> b
                       [] OTHER -> time_slice_expired(d, child)
<1>1. /\ sched \in SchedState /\ WellFormed(sched) /\ sched.task = task /\ sched.rq = rq
      /\ Placed(sched)
  BY PFacts
<1>2. curr \in Tasks /\ sched.task[child].state = "none" BY <1>1, AskAssumption DEF SchedFork
<1>3. Become(t) BY DEF SchedFork
<1>4. me \in TaskRec BY <1>1, <1>2, StateParts
<1>5. policy \in Policies /\ nice \in Nices /\ prio \in QueuePrios
  <2>1. me.policy \in Policies /\ me.nice \in Nices /\ me.rt_priority \in RtPrios
    BY <1>4, TaskFields
  <2>2. "normal" \in Policies /\ 0 \in Nices BY DeadlineAssumption DEF Policies
  <2> QED BY <2>1, <2>2, NormalPrio
<1>6. curr \in Running(sched) /\ me = sched.task[curr] BY <1>1, <1>2 DEF Running
<1> HIDE DEF policy, nice, prio, me, curr
<1>7. born \in TaskRec BY <1>2, <1>4, <1>5, BornType
<1>8. born.state = "new" /\ born.on_cpu = FALSE /\ born.allowed = me.allowed BY <1>4 DEF TaskRec
<1> HIDE DEF born
<1>9. child \notin Queued(sched) BY <1>1, <1>2 DEF Placed, PlacedTask
<1>10. /\ Touch(sched, s, child) /\ Queued(s) = Queued(sched) /\ SameCounts(sched, s)
       /\ s.task[child] = born
  BY <1>1, <1>7, <1>9, WriteTouch
<1>11. s \in SchedState BY <1>10 DEF Touch, Step
<1> HIDE DEF s
<1>12. half \in 0 .. SLICE
  <2>1. sched.rq[cpu].time_slice \in 0 .. SLICE BY <1>1, StateParts, RqFields
  <2>2. rq[cpu].time_slice \in 0 .. SLICE BY <1>1, <2>1
  <2> QED BY <2>2, SliceAssumption
<1>13. 0 \in 0 .. SLICE BY SliceAssumption
<1> HIDE DEF half
<1>14. Quiet(s, a) BY <1>11, <1>12, RqQuiet
<1>15. Quiet(s, c)
  <2>1. \A v \in 0 .. SLICE : Quiet(s, [s EXCEPT !.rq[cpu].time_slice = v]) BY <1>11, RqQuiet
  <2> QED BY <1>13, <2>1
<1> HIDE DEF a, c
<1>16. Quiet(s, b) BY <1>12, <1>14, TaskQuiet, QuietChain
<1>17. Quiet(s, d)
  <2>1. c \in SchedState => Quiet(c, d) BY RqQuiet
  <2> QED BY <1>15, <2>1, QuietChain
<1> HIDE DEF b, d
<1>18. Quiet(s, time_slice_expired(d, child)) BY <1>17, ExpiredQuiet, QuietChain
<1>19. Quiet(s, s) BY <1>11, QuietRefl
<1>20. Quiet(s, t) BY <1>16, <1>18, <1>19
<1> HIDE DEF t
<1>21. /\ Touch(sched, t, child) /\ Queued(t) = Queued(s) /\ SameCounts(s, t)
       /\ SameCore(t.task[child], born)
  BY <1>1, <1>10, <1>20, AfterQuiet
<1>22. sched' = t BY <1>3, <1>21, BecomeSched DEF Touch, Step
<1>23. Forks(sched, t, child)
  BY <1>2, <1>6, <1>8, <1>10, <1>21 DEF Forks, SameCounts, SameCore
<1> QED BY <1>22, <1>23

\* wake_up_new_task queues it.
LEMMA WakeUpNewTaskEffect ==
  ASSUME PInv, NEW cpu \in Cpus, NEW child \in Tasks, WakeUpNewTask(cpu, child)
  PROVE  Starts(sched, sched', child)
<1> DEFINE old == task[child].cpu
<1>1. /\ sched \in SchedState /\ WellFormed(sched) /\ sched.task = task /\ sched.rq = rq
      /\ Placed(sched)
  BY PFacts
<1>2. old \in Cpus BY <1>1, StateParts, TaskFields
<1>3. PICK parent \in Tasks \cup {NoTask}, home \in Cpus, e \in Advances, fit \in BOOLEAN :
        LET new == [sched EXCEPT !.task[child].state = "running", !.task[child].cpu = home,
                                 !.task[child].parent = NoTask]
            s   == activate_task(update_clocks(new, e), child, fit)
        IN  /\ fit \/ task[child].policy = "idleprio"
            /\ Become(IF rq[old].curr = parent /\ ~suitable_idle_cpus(s, child)
                      THEN resched_cpu(s, old) ELSE try_preempt(s, child, old))
  BY <1>1, NewTaskHome
<1> DEFINE r1   == [sched.task[child] EXCEPT !.state = "running"]
           r2   == [r1 EXCEPT !.cpu = home]
           r    == [r2 EXCEPT !.parent = NoTask]
           born == [sched EXCEPT !.task[child] = r]
<1>4. [sched EXCEPT !.task[child].state = "running", !.task[child].cpu = home,
                    !.task[child].parent = NoTask] = born
  <2>1. sched.task \in [Tasks -> TaskRec] BY <1>1, StateParts
  <2> QED BY <1>1, <2>1 DEF SchedState
<1> DEFINE u == update_clocks(born, e)
           s == activate_task(u, child, fit)
           t == IF rq[old].curr = parent /\ ~suitable_idle_cpus(s, child)
                THEN resched_cpu(s, old) ELSE try_preempt(s, child, old)
<1>5. Become(t) BY <1>3, <1>4
<1>6. e \in Nat BY DEF Advances
<1>7. sched.task[child].state = "new" BY <1>1 DEF WakeUpNewTask
<1>8. child \notin Queued(sched) /\ ~sched.task[child].on_cpu BY <1>1, <1>7 DEF Placed, PlacedTask
<1>9. sched.task[child] \in TaskRec BY <1>1, StateParts
<1>10. /\ r.state = "running" /\ r.on_cpu = sched.task[child].on_cpu
       /\ r.allowed = sched.task[child].allowed
  BY <1>9 DEF TaskRec
<1>11. r \in TaskRec
  <2>1. r1 \in TaskRec
    <3>1. "running" \in TaskStates BY DEF TaskStates
    <3> QED BY <1>9, <3>1, TaskWrite
  <2> HIDE DEF r1
  <2>2. r2 \in TaskRec BY <2>1, TaskWrite
  <2> HIDE DEF r2
  <2>3. \A v \in Tasks \cup {NoTask} : [r2 EXCEPT !.parent = v] \in TaskRec BY <2>2, TaskWrite
  <2> QED BY <2>3
<1> HIDE DEF old, r
<1>12. /\ Touch(sched, born, child) /\ Queued(born) = Queued(sched) /\ SameCounts(sched, born)
       /\ born.task[child] = r
  BY <1>1, <1>8, <1>11, WriteTouch
<1>13. born \in SchedState /\ WellFormed(born) BY <1>12 DEF Touch, Step
<1> HIDE DEF born
<1>14. Quiet(born, u) BY <1>6, <1>13, ClocksQuiet
<1> HIDE DEF u
<1>15. /\ Touch(sched, u, child) /\ Queued(u) = Queued(born) /\ SameCounts(born, u)
       /\ SameCore(u.task[child], r)
  BY <1>1, <1>12, <1>14, AfterQuiet
<1>16. u \in SchedState /\ WellFormed(u) BY <1>15 DEF Touch, Step
<1>17. /\ WellFormed(s) /\ Queued(s) = Queued(u) \cup {child} /\ Others(u, s, child)
       /\ Unmoved(u, s, child) /\ Counts(u, s, 1, 1, -Load(u, child))
  BY <1>8, <1>12, <1>15, <1>16, ActivateEffect
<1>18. Step(u, s) BY <1>16, ActivateStep
<1> HIDE DEF s
<1>19. s \in SchedState BY <1>18 DEF Step
<1>20. Touch(sched, s, child)
  <2>1. Step(sched, s) BY <1>15, <1>18, Chain DEF Touch
  <2>2. Others(sched, s, child) BY <1>15, <1>17 DEF Touch, Others, SameCore
  <2> QED BY <1>15, <1>17, <2>1, <2>2 DEF Touch
<1>21. Quiet(s, t)
  <2>1. Quiet(s, resched_cpu(s, old)) BY <1>2, <1>19, ReschedQuiet
  <2>2. Quiet(s, try_preempt(s, child, old)) BY <1>2, <1>19, TryPreemptQuiet
  <2> QED BY <2>1, <2>2
<1> HIDE DEF t
<1>22. /\ Touch(sched, t, child) /\ Queued(t) = Queued(s) /\ SameCounts(s, t)
       /\ SameCore(t.task[child], s.task[child])
  BY <1>1, <1>20, <1>21, AfterQuiet
<1>23. sched' = t BY <1>5, <1>22, BecomeSched DEF Touch, Step
<1>24. Counts(u, s, 1, 1, 0)
  <2>1. Load(u, child) = 0 BY <1>10, <1>15 DEF Load, SameCore
  <2>2. u.grq.nr_uninterruptible \in Int BY <1>16, CountsType
  <2>3. u.grq.nr_uninterruptible + (-Load(u, child)) = u.grq.nr_uninterruptible + 0
    BY <2>1, <2>2
  <2> QED BY <1>17, <2>3 DEF Counts
<1>25. Counts(sched, t, 1, 1, 0)
  BY <1>12, <1>15, <1>22, <1>24 DEF Counts, SameCounts
<1>26. Queued(t) = Queued(sched) \cup {child} BY <1>12, <1>15, <1>17, <1>22
<1>27. /\ t.task[child].state = "running" /\ ~t.task[child].on_cpu
       /\ t.task[child].allowed = sched.task[child].allowed
  BY <1>8, <1>10, <1>15, <1>17, <1>22 DEF Unmoved, SameCore
<1>28. Starts(sched, t, child) BY <1>7, <1>22, <1>25, <1>26, <1>27 DEF Starts
<1> QED BY <1>23, <1>28
-----------------------------------------------------------------------------
(***************************************************************************)
(* Changes of priority, policy, nice level and affinity.                   *)
(***************************************************************************)
\* Two records of a task that is in the same place.
SamePlace(a, b) ==
  a.state = b.state /\ a.on_cpu = b.on_cpu /\ a.cpu = b.cpu /\ a.allowed = b.allowed

\* Taking p off the queue if it is on it, changing its record to r, and putting it
\* back leaves it where it is.
LEMMA RequeueEffect ==
  ASSUME NEW s \in SchedState, WellFormed(s), NEW p \in Tasks, NEW r \in TaskRec,
         SamePlace(r, s.task[p]), NEW fit
  PROVE  Reprios(s, IF task_queued(s, p)
                    THEN enqueue_task([dequeue_task(s, p) EXCEPT !.task[p] = r], p, fit)
                    ELSE [s EXCEPT !.task[p] = r], p)
<1>1. task_queued(s, p) <=> p \in Queued(s) BY DEF Queued
<1>2. CASE p \notin Queued(s)
  <2> DEFINE t == [s EXCEPT !.task[p] = r]
  <2>1. Touch(s, t, p) /\ Queued(t) = Queued(s) /\ SameCounts(s, t) /\ t.task[p] = r
    BY <1>2, WriteTouch
  <2> HIDE DEF t
  <2>2. Reprios(s, t, p) BY <2>1 DEF Reprios, Unmoved, SamePlace
  <2> QED BY <1>1, <1>2, <2>2 DEF t
<1>3. CASE p \in Queued(s)
  <2> DEFINE d == dequeue_task(s, p)
             c == [d EXCEPT !.task[p] = r]
             t == enqueue_task(c, p, fit)
  <2>1. /\ WellFormed(d) /\ Queued(d) = Queued(s) \ {p} /\ d.task = s.task /\ SameCounts(s, d)
    BY <1>3, DequeueEffect
  <2>2. Step(s, d) BY DequeueStep
  <2>3. d \in SchedState BY <2>2 DEF Step
  <2> HIDE DEF d
  <2>4. Touch(d, c, p) /\ Queued(c) = Queued(d) /\ SameCounts(d, c) /\ c.task[p] = r
    BY <2>1, <2>3, WriteTouch
  <2>5. c \in SchedState /\ WellFormed(c) BY <2>4 DEF Touch, Step
  <2> HIDE DEF c
  <2>6. /\ WellFormed(t) /\ Queued(t) = Queued(c) \cup {p}
        /\ t.task = [c.task EXCEPT ![p].prio = EnqueuePrio(c, p, fit)]
        /\ SameCounts(c, t)
    BY <2>1, <2>4, <2>5, EnqueueEffect
  <2>7. Step(c, t) BY <2>5, EnqueueStep
  <2> HIDE DEF t
  <2>8. c.task \in [Tasks -> TaskRec] BY <2>5, StateParts
  <2>9. \A q \in Tasks \ {p} : t.task[q] = c.task[q] BY <2>6, <2>8
  <2>10. SamePlace(t.task[p], c.task[p]) BY <2>6, <2>8 DEF TaskRec, SamePlace
  <2>11. Others(s, t, p) BY <2>1, <2>4, <2>9 DEF Touch, Others, SameCore
  <2>12. Step(s, t) BY <2>2, <2>4, <2>7, Chain DEF Touch
  <2>13. Queued(t) = Queued(s) BY <1>3, <2>1, <2>4, <2>6
  <2>14. SameCounts(s, t) BY <2>1, <2>4, <2>6 DEF SameCounts
  <2>15. Unmoved(s, t, p) BY <2>4, <2>10 DEF Unmoved, SamePlace
  <2>16. Reprios(s, t, p)
    BY <2>6, <2>11, <2>12, <2>13, <2>14, <2>15 DEF Reprios, Touch
  <2> QED BY <1>1, <1>3, <2>16 DEF t, c, d
<1> QED BY <1>2, <1>3

\* Quiet steps around a change of priority.
LEMMA RepriosQuiet ==
  ASSUME NEW s \in SchedState, NEW r, NEW t, NEW u, NEW p \in Tasks,
         Quiet(s, r), Reprios(r, t, p), Quiet(t, u)
  PROVE  Reprios(s, u, p)
<1>1. /\ Touch(s, t, p) /\ Queued(r) = Queued(s) /\ SameCounts(s, r)
      /\ SameCore(r.task[p], s.task[p])
  BY BeforeQuiet DEF Reprios
<1>2. /\ Touch(s, u, p) /\ Queued(u) = Queued(t) /\ SameCounts(t, u)
      /\ SameCore(u.task[p], t.task[p])
  BY <1>1, AfterQuiet
<1> QED BY <1>1, <1>2 DEF Reprios, SameCounts, Unmoved, SameCore

\* A quiet step is a change of priority that changes nothing.
LEMMA QuietReprios ==
  ASSUME NEW s \in SchedState, WellFormed(s), NEW t, NEW p \in Tasks, Quiet(s, t)
  PROVE  Reprios(s, t, p)
<1>1. /\ t \in SchedState /\ Queued(t) = Queued(s) /\ WellFormed(t)
      /\ SameCounts(s, t) /\ \A q \in Tasks : SameCore(t.task[q], s.task[q])
  BY QuietEffect
<1> QED BY <1>1 DEF Reprios, Touch, Quiet, Others, Unmoved, SameCore

\* The next state is the one the handler computed.
LEMMA BecomeReprios ==
  ASSUME NEW t, NEW p, Reprios(sched, t, p), Become(t)
  PROVE  Reprios(sched, sched', p)
<1>1. t \in SchedState BY DEF Reprios, Touch, Step
<1>2. sched' = t BY <1>1, BecomeSched
<1> QED BY <1>2

\* rt_mutex_setprio leaves p where it is.
LEMMA RtMutexSetprioEffect ==
  ASSUME PInv, NEW p \in Tasks, NEW waiter \in 0 .. PRIO_LIMIT, RtMutexSetprio(p, waiter)
  PROVE  Reprios(sched, sched', p)
<1> DEFINE getprio == rt_mutex_getprio([task[p] EXCEPT !.top_waiter = waiter],
                                       normal_prio(task[p].policy, task[p].rt_priority))
           a == [task[p] EXCEPT !.top_waiter = waiter]
           r == [a EXCEPT !.prio = getprio]
           setprio(s) == [s EXCEPT !.task[p].top_waiter = waiter, !.task[p].prio = getprio]
<1>1. sched \in SchedState /\ WellFormed(sched) /\ sched.task = task BY PFacts
<1>2. task[p] \in TaskRec BY <1>1, StateParts
<1>3. task[p].cpu \in Cpus /\ task[p].rt_priority \in RtPrios BY <1>2, TaskFields
<1>4. getprio \in QueuePrios
  <2>1. [task[p] EXCEPT !.top_waiter = waiter].top_waiter \in 0 .. PRIO_LIMIT
    BY <1>2 DEF TaskRec
  <2>2. normal_prio(task[p].policy, task[p].rt_priority) \in QueuePrios BY <1>3, NormalPrio
  <2> QED BY <2>1, <2>2, GetPrio
<1>5. \/ Become([sched EXCEPT !.task[p].top_waiter = waiter])
      \/ \E fit \in BOOLEAN :
           LET s1 == IF task_queued(sched, p)
                     THEN enqueue_task(setprio(dequeue_task(sched, p)), p, fit)
                     ELSE setprio(sched)
               s2 == IF task[p].on_cpu /\ getprio > task[p].prio
                     THEN resched_cpu(s1, task[p].cpu) ELSE s1
           IN  Become(IF task_queued(sched, p) THEN try_preempt(s2, p, task[p].cpu) ELSE s2)
  BY DEF RtMutexSetprio, Requeued
<1> HIDE DEF getprio
<1>6. a \in TaskRec /\ SamePlace(a, task[p]) /\ a.prio = task[p].prio
  <2>1. a \in TaskRec BY <1>2, TaskWrite
  <2>2. SamePlace(a, task[p]) /\ a.prio = task[p].prio BY <1>2 DEF TaskRec, SamePlace
  <2> QED BY <2>1, <2>2
<1>7. \A u \in SchedState : u.task = task => setprio(u) = [u EXCEPT !.task[p] = r]
  <2> SUFFICES ASSUME NEW u \in SchedState, u.task = task
               PROVE  setprio(u) = [u EXCEPT !.task[p] = r]
    OBVIOUS
  <2>1. u.task \in [Tasks -> TaskRec] BY StateParts
  <2> QED BY <2>1 DEF SchedState
<1> HIDE DEF a, setprio
<1>8. r \in TaskRec /\ SamePlace(r, task[p])
  <2>1. r \in TaskRec BY <1>4, <1>6, TaskWrite
  <2>2. SamePlace(r, a) BY <1>6 DEF TaskRec, SamePlace
  <2> QED BY <1>6, <2>1, <2>2 DEF SamePlace
<1> HIDE DEF r
<1>9. CASE Become([sched EXCEPT !.task[p].top_waiter = waiter])
  <2> DEFINE t == [sched EXCEPT !.task[p] = a]
  <2>1. [sched EXCEPT !.task[p].top_waiter = waiter] = t BY <1>1 DEF a
  <2>2. Touch(sched, t, p) /\ Queued(t) = Queued(sched) /\ SameCounts(sched, t) /\ t.task[p] = a
    BY <1>1, <1>6, WriteTouch
  <2> HIDE DEF t
  <2>3. Reprios(sched, t, p) BY <1>1, <1>6, <2>2 DEF Reprios, Unmoved, SamePlace
  <2> QED BY <1>9, <2>1, <2>3, BecomeReprios
<1>10. ASSUME NEW fit \in BOOLEAN,
             LET s1 == IF task_queued(sched, p)
                       THEN enqueue_task(setprio(dequeue_task(sched, p)), p, fit)
                       ELSE setprio(sched)
                 s2 == IF task[p].on_cpu /\ getprio > task[p].prio
                       THEN resched_cpu(s1, task[p].cpu) ELSE s1
             IN  Become(IF task_queued(sched, p) THEN try_preempt(s2, p, task[p].cpu) ELSE s2)
      PROVE  Reprios(sched, sched', p)
  <2> DEFINE s1 == IF task_queued(sched, p)
                   THEN enqueue_task([dequeue_task(sched, p) EXCEPT !.task[p] = r], p, fit)
                   ELSE [sched EXCEPT !.task[p] = r]
             s2 == IF task[p].on_cpu /\ getprio > task[p].prio
                   THEN resched_cpu(s1, task[p].cpu) ELSE s1
             t  == IF task_queued(sched, p) THEN try_preempt(s2, p, task[p].cpu) ELSE s2
  <2>1. Become(t)
    <3>1. setprio(sched) = [sched EXCEPT !.task[p] = r] BY <1>1, <1>7
    <3>2. task_queued(sched, p) =>
            setprio(dequeue_task(sched, p)) = [dequeue_task(sched, p) EXCEPT !.task[p] = r]
      <4> HAVE task_queued(sched, p)
      <4>1. p \in Queued(sched) BY DEF Queued
      <4>2. dequeue_task(sched, p).task = sched.task BY <1>1, <4>1, DequeueEffect
      <4>3. dequeue_task(sched, p) \in SchedState BY <1>1, DequeueStep DEF Step
      <4> QED BY <1>1, <1>7, <4>2, <4>3
    <3>3. s1 = IF task_queued(sched, p)
               THEN enqueue_task(setprio(dequeue_task(sched, p)), p, fit) ELSE setprio(sched)
      BY <3>1, <3>2
    <3> QED BY <1>10, <3>3
  <2>2. Reprios(sched, s1, p) BY <1>1, <1>8, RequeueEffect
  <2>3. s1 \in SchedState BY <2>2 DEF Reprios, Touch, Step
  <2> HIDE DEF s1
  <2>4. Quiet(s1, s2)
    <3>1. Quiet(s1, resched_cpu(s1, task[p].cpu)) BY <1>3, <2>3, ReschedQuiet
    <3>2. Quiet(s1, s1) BY <2>3, QuietRefl
    <3> QED BY <3>1, <3>2
  <2> HIDE DEF s2
  <2>5. Quiet(s1, t)
    <3>1. Quiet(s1, try_preempt(s2, p, task[p].cpu)) BY <1>3, <2>4, TryPreemptQuiet, QuietChain
    <3> QED BY <2>4, <3>1
  <2> HIDE DEF t
  <2>6. Reprios(sched, t, p) BY <1>1, <2>2, <2>5, QuietRefl, RepriosQuiet
  <2> QED BY <2>1, <2>6, BecomeReprios
<1> QED BY <1>5, <1>9, <1>10

\* set_user_nice leaves p where it is.
LEMMA SetUserNiceEffect ==
  ASSUME PInv, NEW p \in Tasks, NEW nice \in Nices, SetUserNice(p, nice)
  PROVE  Reprios(sched, sched', p)
<1> DEFINE old == task[p].nice
           cpu == task[p].cpu
           renice(s) ==
             [s EXCEPT !.task[p].deadline = (@ + DeadlineDiff[nice] - DeadlineDiff[old]) % DeadlineMod,
                       !.task[p].nice = nice,
                       !.task[p].prio = effective_prio(s.task[p])]
<1>1. sched \in SchedState /\ WellFormed(sched) /\ sched.task = task BY PFacts
<1>2. task[p] \in TaskRec BY <1>1, StateParts
<1>3. cpu \in Cpus /\ old \in Nices BY <1>2, TaskFields
<1>4. PICK d \in Advances, fit \in BOOLEAN :
        LET s0 == update_clocks(sched, d)
            s1 == Requeued(s0, p, renice, fit)
        IN  Become(CASE is_rt_policy(task[p].policy) -> [s0 EXCEPT !.task[p].nice = nice]
                     [] ~is_rt_policy(task[p].policy) /\ task_queued(sched, p) ->
                          IF nice < old THEN try_preempt(s1, p, cpu) ELSE s1
                     [] ~is_rt_policy(task[p].policy) /\ task[p].on_cpu ->
                          IF old < nice THEN resched_cpu(reset_rq_task(s1, cpu, p), cpu)
                          ELSE reset_rq_task(s1, cpu, p)
                     [] OTHER -> s1)
  BY Zenon DEF SetUserNice
<1> DEFINE dl == (task[p].deadline + DeadlineDiff[nice] - DeadlineDiff[old]) % DeadlineMod
           pr == effective_prio(task[p])
           v  == [task[p] EXCEPT !.deadline = dl]
           w  == [v EXCEPT !.nice = nice]
           r  == [w EXCEPT !.prio = pr]
<1>5. \A u \in SchedState : u.task = task => renice(u) = [u EXCEPT !.task[p] = r]
  <2> SUFFICES ASSUME NEW u \in SchedState, u.task = task
               PROVE  renice(u) = [u EXCEPT !.task[p] = r]
    OBVIOUS
  <2>1. u.task \in [Tasks -> TaskRec] BY StateParts
  <2> HIDE DEF pr
  <2> QED BY <2>1 DEF SchedState, pr
<1>6. r \in TaskRec /\ SamePlace(r, task[p])
  <2>1. dl \in Nat
    <3>1. task[p].deadline \in Nat BY <1>2, TaskFields
    <3>2. DeadlineDiff[nice] \in Nat BY DeadlineAssumption
    <3>3. DeadlineDiff[old] \in Nat BY <1>3, DeadlineAssumption
    <3>4. DeadlineMod \in Nat \ {0} BY DeadlineAssumption
    <3> QED BY <3>1, <3>2, <3>3, <3>4
  <2>2. pr \in QueuePrios BY <1>2, EffectivePrio
  <2> HIDE DEF dl, pr
  <2>3. v \in TaskRec BY <1>2, <2>1, TaskWrite
  <2>4. SamePlace(v, task[p]) BY <1>2 DEF TaskRec, SamePlace
  <2> HIDE DEF v
  <2>5. w \in TaskRec BY <2>3, TaskWrite
  <2>6. SamePlace(w, v) BY <2>3 DEF TaskRec, SamePlace
  <2> HIDE DEF w
  <2>7. r \in TaskRec BY <2>2, <2>5, TaskWrite
  <2>8. SamePlace(r, w) BY <2>5 DEF TaskRec, SamePlace
  <2> HIDE DEF r
  <2> QED BY <2>4, <2>6, <2>7, <2>8 DEF SamePlace
<1> HIDE DEF r
<1> DEFINE s0 == update_clocks(sched, d)
           s1 == IF task_queued(s0, p)
                 THEN enqueue_task([dequeue_task(s0, p) EXCEPT !.task[p] = r], p, fit)
                 ELSE [s0 EXCEPT !.task[p] = r]
           x  == reset_rq_task(s1, cpu, p)
           n  == [s0 EXCEPT !.task[p].nice = nice]
           t  == CASE is_rt_policy(task[p].policy) -> n
                   [] ~is_rt_policy(task[p].policy) /\ task_queued(sched, p) ->
                        IF nice < old THEN try_preempt(s1, p, cpu) ELSE s1
                   [] ~is_rt_policy(task[p].policy) /\ task[p].on_cpu ->
                        IF old < nice THEN resched_cpu(x, cpu) ELSE x
                   [] OTHER -> s1
<1>7. d \in Nat BY DEF Advances
<1>8. Quiet(sched, s0) /\ s0.task = task
  <2>1. s0.task = sched.task BY <1>1 DEF update_clocks, SchedState
  <2> QED BY <1>1, <1>7, <2>1, ClocksQuiet
<1>9. s0 \in SchedState /\ WellFormed(s0) BY <1>1, <1>8, QuietEffect
<1>10. Become(t)
  <2>1. renice(s0) = [s0 EXCEPT !.task[p] = r] BY <1>5, <1>8, <1>9
  <2>2. task_queued(s0, p) =>
          renice(dequeue_task(s0, p)) = [dequeue_task(s0, p) EXCEPT !.task[p] = r]
    <3> HIDE DEF s0, renice
    <3> HAVE task_queued(s0, p)
    <3>1. p \in Queued(s0) BY DEF Queued
    <3>2. dequeue_task(s0, p).task = s0.task BY <1>9, <3>1, DequeueEffect
    <3>3. dequeue_task(s0, p) \in SchedState BY <1>9, DequeueStep DEF Step
    <3> QED BY <1>5, <1>8, <3>2, <3>3
  <2>3. s1 = IF task_queued(s0, p)
             THEN enqueue_task(renice(dequeue_task(s0, p)), p, fit) ELSE renice(s0)
    BY <2>1, <2>2
  <2>4. s1 = Requeued(s0, p, renice, fit) BY <2>3 DEF Requeued
  <2> QED BY <1>4, <2>4
<1> HIDE DEF s0, old, cpu, renice
<1>11. Reprios(s0, s1, p) BY <1>6, <1>8, <1>9, RequeueEffect
<1>12. s1 \in SchedState BY <1>11 DEF Reprios, Touch, Step
<1> HIDE DEF s1
<1>13. Quiet(s1, try_preempt(s1, p, cpu)) BY <1>3, <1>12, TryPreemptQuiet
<1>14. Quiet(s1, x) BY <1>3, <1>12, ResetRqTaskQuiet
<1> HIDE DEF x
<1>15. Quiet(s1, resched_cpu(x, cpu)) BY <1>3, <1>14, ReschedQuiet, QuietChain
<1>16. Quiet(sched, n) BY <1>8, TaskQuiet, QuietChain
<1>17. Quiet(s1, s1) BY <1>12, QuietRefl
<1>18. t = n \/ Quiet(s1, t) BY <1>13, <1>14, <1>15, <1>17
<1> HIDE DEF t, n
<1>19. Reprios(sched, t, p)
  <2>1. CASE t = n BY <1>1, <1>16, <2>1, QuietReprios
  <2>2. CASE Quiet(s1, t) BY <1>1, <1>8, <1>11, <2>2, RepriosQuiet
  <2> QED BY <1>18, <2>1, <2>2
<1> QED BY <1>10, <1>19, BecomeReprios

\* __sched_setscheduler leaves p where it is.
LEMMA SchedSetschedulerEffect ==
  ASSUME PInv, NEW p \in Tasks, NEW policy \in Policies, NEW prio \in RtPrios,
         NEW reset \in BOOLEAN, SchedSetscheduler(p, policy, prio, reset)
  PROVE  Reprios(sched, sched', p)
<1> DEFINE cpu == task[p].cpu
           new == rt_mutex_getprio(task[p], normal_prio(policy, prio))
           setscheduler(s) ==
             [s EXCEPT !.task[p].policy = policy, !.task[p].rt_priority = prio,
                       !.task[p].prio = new]
<1>1. sched \in SchedState /\ WellFormed(sched) /\ sched.task = task BY PFacts
<1>2. task[p] \in TaskRec BY <1>1, StateParts
<1>3. cpu \in Cpus BY <1>2, TaskFields
<1>4. new \in QueuePrios
  <2>1. task[p].top_waiter \in 0 .. PRIO_LIMIT BY <1>2, TaskFields
  <2> QED BY <2>1, NormalPrio, GetPrio
<1>5. PICK d \in Advances, fit \in BOOLEAN :
        LET s0 == [update_clocks(sched, d) EXCEPT !.task[p].reset_on_fork = reset]
            s1 == Requeued(s0, p, setscheduler, fit)
        IN  Become(CASE task_queued(sched, p) -> try_preempt(s1, p, cpu)
                     [] ~task_queued(sched, p) /\ task[p].on_cpu ->
                          IF new > task[p].prio \/ prio > task[p].rt_priority
                          THEN resched_cpu(reset_rq_task(s1, cpu, p), cpu)
                          ELSE reset_rq_task(s1, cpu, p)
                     [] OTHER -> s1)
  BY Zenon DEF SchedSetscheduler
<1> DEFINE a  == update_clocks(sched, d)
           s0 == [a EXCEPT !.task[p].reset_on_fork = reset]
           v  == [s0.task[p] EXCEPT !.policy = policy]
           w  == [v EXCEPT !.rt_priority = prio]
           r  == [w EXCEPT !.prio = new]
<1>6. d \in Nat BY DEF Advances
<1>7. Quiet(sched, a) BY <1>1, <1>6, ClocksQuiet
<1> HIDE DEF a, new
<1>8. Quiet(sched, s0) BY <1>7, TaskQuiet, QuietChain
<1>9. s0 \in SchedState /\ WellFormed(s0) BY <1>1, <1>8, QuietEffect
<1>10. \A u \in SchedState : u.task = s0.task => setscheduler(u) = [u EXCEPT !.task[p] = r]
  <2> HIDE DEF s0
  <2> SUFFICES ASSUME NEW u \in SchedState, u.task = s0.task
               PROVE  setscheduler(u) = [u EXCEPT !.task[p] = r]
    OBVIOUS
  <2>1. u.task \in [Tasks -> TaskRec] BY StateParts
  <2> QED BY <2>1 DEF SchedState
<1>11. r \in TaskRec /\ SamePlace(r, s0.task[p])
  <2>1. s0.task[p] \in TaskRec BY <1>9, StateParts
  <2> HIDE DEF s0
  <2>2. v \in TaskRec BY <2>1, TaskWrite
  <2>3. SamePlace(v, s0.task[p]) BY <2>1 DEF TaskRec, SamePlace
  <2> HIDE DEF v
  <2>4. w \in TaskRec BY <2>2, TaskWrite
  <2>5. SamePlace(w, v) BY <2>2 DEF TaskRec, SamePlace
  <2> HIDE DEF w
  <2>6. r \in TaskRec BY <1>4, <2>4, TaskWrite
  <2>7. SamePlace(r, w) BY <2>4 DEF TaskRec, SamePlace
  <2> HIDE DEF r
  <2> QED BY <2>3, <2>5, <2>6, <2>7 DEF SamePlace
<1> HIDE DEF r
<1> DEFINE s1 == IF task_queued(s0, p)
                 THEN enqueue_task([dequeue_task(s0, p) EXCEPT !.task[p] = r], p, fit)
                 ELSE [s0 EXCEPT !.task[p] = r]
           x  == reset_rq_task(s1, cpu, p)
           t  == CASE task_queued(sched, p) -> try_preempt(s1, p, cpu)
                   [] ~task_queued(sched, p) /\ task[p].on_cpu ->
                        IF new > task[p].prio \/ prio > task[p].rt_priority
                        THEN resched_cpu(x, cpu) ELSE x
                   [] OTHER -> s1
<1>12. Become(t)
  <2>1. setscheduler(s0) = [s0 EXCEPT !.task[p] = r] BY <1>9, <1>10
  <2>2. task_queued(s0, p) =>
          setscheduler(dequeue_task(s0, p)) = [dequeue_task(s0, p) EXCEPT !.task[p] = r]
    <3> HIDE DEF s0, setscheduler
    <3> HAVE task_queued(s0, p)
    <3>1. p \in Queued(s0) BY DEF Queued
    <3>2. dequeue_task(s0, p).task = s0.task BY <1>9, <3>1, DequeueEffect
    <3>3. dequeue_task(s0, p) \in SchedState BY <1>9, DequeueStep DEF Step
    <3> QED BY <1>10, <3>2, <3>3
  <2>3. s1 = IF task_queued(s0, p)
             THEN enqueue_task(setscheduler(dequeue_task(s0, p)), p, fit) ELSE setscheduler(s0)
    BY <2>1, <2>2
  <2>4. s1 = Requeued(s0, p, setscheduler, fit) BY <2>3 DEF Requeued
  <2> QED BY <1>5, <2>4 DEF new, a
<1> HIDE DEF s0, cpu, setscheduler
<1>13. Reprios(s0, s1, p) BY <1>9, <1>11, RequeueEffect
<1>14. s1 \in SchedState BY <1>13 DEF Reprios, Touch, Step
<1> HIDE DEF s1
<1>15. Quiet(s1, try_preempt(s1, p, cpu)) BY <1>3, <1>14, TryPreemptQuiet
<1>16. Quiet(s1, x) BY <1>3, <1>14, ResetRqTaskQuiet
<1> HIDE DEF x
<1>17. Quiet(s1, resched_cpu(x, cpu)) BY <1>3, <1>16, ReschedQuiet, QuietChain
<1>18. Quiet(s1, s1) BY <1>14, QuietRefl
<1>19. Quiet(s1, t) BY <1>15, <1>16, <1>17, <1>18
<1> HIDE DEF t
<1>20. Reprios(sched, t, p) BY <1>1, <1>8, <1>13, <1>19, RepriosQuiet
<1> QED BY <1>12, <1>20, BecomeReprios

\* set_cpus_allowed_ptr moves no task that runs.
LEMMA SetCpusAllowedEffect ==
  ASSUME PInv, NEW p \in Tasks, NEW mask, mask \in (SUBSET Cpus) \ {{}}, SetCpusAllowed(p, mask)
  PROVE  Rebinds(sched, sched', p)
<1> DEFINE cpu   == task[p].cpu
           first == CHOOSE c \in mask : \A e \in mask : c <= e
           s1    == [sched EXCEPT !.task[p].allowed = mask]
           s2    == CASE cpu \in mask -> s1
                      [] cpu \notin mask /\ task[p].on_cpu -> resched_cpu(s1, cpu)
                      [] OTHER -> [s1 EXCEPT !.task[p].cpu = first]
           t     == IF task_queued(sched, p) THEN try_preempt(s2, p, cpu) ELSE s2
           r     == [sched.task[p] EXCEPT !.allowed = mask]
           w     == [s1.task[p] EXCEPT !.cpu = first]
<1>1. sched \in SchedState /\ WellFormed(sched) /\ sched.task = task BY PFacts
<1>2. cpu \in Cpus BY <1>1, StateParts, TaskFields
<1>3. first \in Cpus
  <2>1. mask \subseteq Nat /\ mask # {} BY CpuAssumption DEF Cpus
  <2>2. \E c \in mask : \A e \in mask : c <= e BY <2>1, NatMin
  <2> QED BY <2>2
<1>4. Become(t) BY Zenon DEF SetCpusAllowed
<1> HIDE DEF cpu, first
<1>5. sched.task[p] \in TaskRec BY <1>1, StateParts
<1>6. /\ r \in TaskRec /\ r.state = sched.task[p].state /\ r.on_cpu = sched.task[p].on_cpu
      /\ r.cpu = sched.task[p].cpu /\ r.allowed = mask /\ r.prio = sched.task[p].prio
  <2>1. r \in TaskRec BY <1>5, TaskWrite
  <2> QED BY <1>5, <2>1 DEF TaskRec
<1>7. s1 = [sched EXCEPT !.task[p] = r] OBVIOUS
<1> HIDE DEF r, s1
<1>8. /\ Touch(sched, s1, p) /\ Queued(s1) = Queued(sched) /\ SameCounts(sched, s1)
      /\ s1.task[p] = r
  BY <1>1, <1>6, <1>7, WriteTouch
<1>9. s1 \in SchedState /\ WellFormed(s1) BY <1>8 DEF Touch, Step
<1>10. /\ w \in TaskRec /\ w.state = r.state /\ w.on_cpu = r.on_cpu
       /\ w.allowed = r.allowed /\ w.prio = r.prio
  <2>1. w \in TaskRec BY <1>3, <1>6, <1>8, TaskWrite
  <2> QED BY <1>6, <1>8, <2>1 DEF TaskRec
<1> DEFINE m == [s1 EXCEPT !.task[p] = w]
<1>11. [s1 EXCEPT !.task[p].cpu = first] = m OBVIOUS
<1> HIDE DEF w
<1>12. /\ Touch(s1, m, p) /\ Queued(m) = Queued(s1) /\ SameCounts(s1, m) /\ m.task[p] = w
  BY <1>8, <1>9, <1>10, WriteTouch
<1> HIDE DEF m
<1>13. /\ Touch(sched, s2, p) /\ Queued(s2) = Queued(sched) /\ SameCounts(sched, s2)
       /\ s2.task[p].state = r.state /\ s2.task[p].on_cpu = r.on_cpu
       /\ s2.task[p].allowed = r.allowed
       /\ sched.task[p].on_cpu => s2.task[p].cpu = r.cpu
  <2>1. CASE s2 = s1 BY <1>8, <2>1
  <2>2. CASE s2 = resched_cpu(s1, cpu)
    <3>1. Quiet(s1, s2) BY <1>2, <1>9, <2>2, ReschedQuiet
    <3>2. /\ Touch(sched, s2, p) /\ Queued(s2) = Queued(s1) /\ SameCounts(s1, s2)
          /\ SameCore(s2.task[p], s1.task[p])
      <4> HIDE DEF s2
      <4> QED BY <1>1, <1>8, <3>1, AfterQuiet
    <3> HIDE DEF s2
    <3> QED BY <1>8, <3>2 DEF SameCore, SameCounts
  <2>3. CASE s2 = m /\ ~task[p].on_cpu
    <3>1. Touch(sched, m, p) BY <1>8, <1>12, Chain DEF Touch, Others, SameCore
    <3> HIDE DEF s2
    <3> QED BY <1>1, <1>8, <1>10, <1>12, <2>3, <3>1 DEF SameCounts
  <2> QED BY <1>11, <2>1, <2>2, <2>3
<1>14. s2 \in SchedState BY <1>13 DEF Touch, Step
<1> HIDE DEF s2
<1>15. Quiet(s2, t)
  <2>1. Quiet(s2, try_preempt(s2, p, cpu)) BY <1>2, <1>14, TryPreemptQuiet
  <2>2. Quiet(s2, s2) BY <1>14, QuietRefl
  <2> QED BY <2>1, <2>2
<1> HIDE DEF t
<1>16. /\ Touch(sched, t, p) /\ Queued(t) = Queued(s2) /\ SameCounts(s2, t)
       /\ SameCore(t.task[p], s2.task[p])
  BY <1>1, <1>13, <1>15, AfterQuiet
<1>17. sched' = t BY <1>4, <1>16, BecomeSched DEF Touch, Step
<1>18. Rebinds(sched, t, p) BY <1>6, <1>13, <1>16 DEF Rebinds, SameCore, SameCounts
<1> QED BY <1>17, <1>18
-----------------------------------------------------------------------------
(***************************************************************************)
(* schedule(): the task that ran is given back, then the next one taken.   *)
(***************************************************************************)
\* What cpu runs next: what it takes leaves the queue, what it ran is off the CPU.
Takes(s, t, cpu) ==
  LET prev == s.rq[cpu].curr
      next == t.rq[cpu].curr
  IN  /\ next \in Queued(s) \cup {Idle}
      /\ next \in Tasks => cpu \in s.task[next].allowed
      /\ t \in SchedState /\ WellFormed(t) /\ Queued(t) = Queued(s) \ {next}
      /\ \A c \in Cpus \ {cpu} : t.rq[c].curr = s.rq[c].curr
      /\ \A p \in Tasks :
           /\ t.task[p].state = s.task[p].state /\ t.task[p].allowed = s.task[p].allowed
           /\ t.task[p].cpu = IF p = next THEN cpu ELSE s.task[p].cpu
           /\ t.task[p].on_cpu = IF p = next THEN TRUE
                                 ELSE IF p = prev THEN FALSE ELSE s.task[p].on_cpu
      /\ Counts(s, t, IF next = Idle THEN 0 ELSE -1, 0, 0)

\* What becomes of prev, the task that ran on cpu.
GivesBack(s, t, prev, fate) ==
  /\ Touch(s, t, prev)
  /\ \/ prev = Idle /\ fate = "gone" /\ Counts(s, t, 0, 0, 0)
     \/ /\ prev \in Tasks /\ t.task[prev].on_cpu
        /\ t.task[prev].allowed = s.task[prev].allowed
        /\ \/ /\ fate = "ready" /\ prev \in Queued(t) /\ Counts(s, t, 1, 0, 0)
              /\ t.task[prev].state \notin {"none", "new", "dead"}
              /\ s.task[prev].state \notin {"none", "new", "dead"}
           \/ /\ fate = "asleep" /\ prev \notin Queued(t) /\ Counts(s, t, 0, -1, Load(s, prev))
              /\ t.task[prev].state = s.task[prev].state
              /\ s.task[prev].state \in {"interruptible", "uninterruptible"}
           \/ /\ fate = "gone" /\ prev \notin Queued(t) /\ Counts(s, t, 0, -1, 0)
              /\ t.task[prev].state = "none" /\ s.task[prev].state = "dead"

\* schedule() on cpu.
Switches(s, t, cpu) ==
  \E r \in SchedState, fate \in {"ready", "asleep", "gone"} :
    GivesBack(s, r, s.rq[cpu].curr, fate) /\ Takes(r, t, cpu)

\* schedule() keeps every task in one place.
LEMMA SwitchesPlaced ==
  ASSUME NEW s \in SchedState, NEW r \in SchedState, NEW t, NEW cpu \in Cpus, NEW fate,
         GivesBack(s, r, s.rq[cpu].curr, fate), Takes(r, t, cpu), Placed(s)
  PROVE  Placed(t)
<1> DEFINE prev == s.rq[cpu].curr
           next == t.rq[cpu].curr
<1>1. \A c \in Cpus : r.rq[c].curr = s.rq[c].curr BY DEF GivesBack, Touch, Step
<1>2. /\ next \in Queued(r) \cup {Idle}
      /\ t \in SchedState /\ Queued(t) = Queued(r) \ {next}
      /\ \A c \in Cpus \ {cpu} : t.rq[c].curr = s.rq[c].curr
      /\ \A p \in Tasks :
           /\ t.task[p].state = r.task[p].state
           /\ t.task[p].cpu = IF p = next THEN cpu ELSE r.task[p].cpu
           /\ t.task[p].on_cpu = IF p = next THEN TRUE
                                 ELSE IF p = prev THEN FALSE ELSE r.task[p].on_cpu
  <2>1. r.rq[cpu].curr = prev BY <1>1
  <2>2. next \in Queued(r) \cup {Idle} /\ t \in SchedState /\ Queued(t) = Queued(r) \ {next}
    BY DEF Takes
  <2>3. \A c \in Cpus \ {cpu} : t.rq[c].curr = s.rq[c].curr BY <1>1 DEF Takes
  <2>4. ASSUME NEW p \in Tasks
        PROVE  /\ t.task[p].state = r.task[p].state
               /\ t.task[p].cpu = IF p = next THEN cpu ELSE r.task[p].cpu
               /\ t.task[p].on_cpu = IF p = next THEN TRUE
                                     ELSE IF p = prev THEN FALSE ELSE r.task[p].on_cpu
    BY <2>1, ZenonT(30) DEF Takes
  <2> HIDE DEF prev, next
  <2> QED BY <2>2, <2>3, <2>4
<1>3. \A q \in Tasks \ {prev} : /\ SameCore(r.task[q], s.task[q])
                                /\ q \in Queued(r) <=> q \in Queued(s)
  BY DEF GivesBack, Touch, Others
<1>4. \A q \in Tasks : s.task[q].cpu \in Cpus /\ s.task[q].on_cpu \in BOOLEAN
  BY StateParts, TaskFields
<1>5. \A c \in Cpus : c # cpu /\ s.rq[c].curr \in Tasks => s.rq[c].curr # prev
  BY DEF Placed, PlacedTask
<1>6. prev \in Tasks =>
        \/ /\ prev \in Queued(r) /\ r.task[prev].state \notin {"none", "new", "dead"}
        \/ /\ prev \notin Queued(r) /\ r.task[prev].state \notin {"new", "dead", "running"}
  <2> HAVE prev \in Tasks
  <2>1. prev # Idle BY TaskAssumption
  <2> QED BY <2>1 DEF GivesBack
<1>7. next = t.rq[cpu].curr OBVIOUS
<1> HIDE DEF prev, next
<1> SUFFICES ASSUME NEW q \in Tasks PROVE PlacedTask(t, q) BY DEF Placed
<1>8. PlacedTask(s, q) BY DEF Placed
<1>9. CASE q # prev /\ q # next
  <2>1. /\ t.task[q].state = s.task[q].state /\ t.task[q].cpu = s.task[q].cpu
        /\ t.task[q].on_cpu = s.task[q].on_cpu /\ (q \in Queued(t) <=> q \in Queued(s))
    BY <1>2, <1>3, <1>9 DEF SameCore
  <2>2. \A c \in Cpus : t.rq[c].curr = q <=> s.rq[c].curr = q
    BY <1>2, <1>7, <1>9 DEF prev
  <2> QED BY <1>4, <1>8, <2>1, <2>2 DEF PlacedTask
<1>10. CASE q = next
  <2>1. q \in Queued(r) /\ q \notin Queued(t) BY <1>2, <1>10, TaskAssumption
  <2>2. t.task[q].on_cpu = TRUE /\ t.task[q].cpu = cpu BY <1>2, <1>10
  <2>3. \A c \in Cpus : t.rq[c].curr = q => c = cpu
    <3> SUFFICES ASSUME NEW c \in Cpus, c # cpu, s.rq[c].curr = q PROVE FALSE BY <1>2
    <3>1. q # prev BY <1>5
    <3>2. q \in Queued(s) BY <1>3, <2>1, <3>1
    <3> QED BY <1>8, <3>2 DEF PlacedTask
  <2>4. t.task[q].state \notin {"none", "new", "dead"}
    <3>1. CASE q = prev BY <1>2, <1>6, <2>1, <3>1
    <3>2. CASE q # prev
      <4>1. q \in Queued(s) /\ t.task[q].state = s.task[q].state BY <1>2, <1>3, <2>1, <3>2 DEF SameCore
      <4> QED BY <1>8, <4>1 DEF PlacedTask
    <3> QED BY <3>1, <3>2
  <2> QED BY <1>7, <1>10, <2>1, <2>2, <2>3, <2>4 DEF PlacedTask
<1>11. CASE q = prev /\ q # next
  <2>1. t.task[q].on_cpu = FALSE BY <1>2, <1>11
  <2>2. \A c \in Cpus : t.rq[c].curr # q BY <1>2, <1>5, <1>7, <1>11
  <2>3. q \in Queued(t) <=> q \in Queued(r) BY <1>2, <1>11
  <2> QED BY <1>2, <1>6, <1>11, <2>1, <2>2, <2>3 DEF PlacedTask
<1> QED BY <1>9, <1>10, <1>11

\* And the counters exact.
LEMMA SwitchesCounted ==
  ASSUME NEW s \in SchedState, NEW r \in SchedState, NEW t, NEW cpu \in Cpus, NEW fate,
         GivesBack(s, r, s.rq[cpu].curr, fate), Takes(r, t, cpu), Placed(s), Counted(s)
  PROVE  Counted(t)
<1> DEFINE prev == s.rq[cpu].curr
           next == t.rq[cpu].curr
           dr   == IF prev = Idle \/ fate = "ready" THEN 0 ELSE -1
           du   == IF prev # Idle /\ fate = "asleep" THEN Load(s, prev) ELSE 0
<1>1. \A c \in Cpus : r.rq[c].curr = s.rq[c].curr BY DEF GivesBack, Touch, Step
<1>2. /\ next \in Queued(r) \cup {Idle}
      /\ t \in SchedState /\ Queued(t) = Queued(r) \ {next}
      /\ \A c \in Cpus \ {cpu} : t.rq[c].curr = s.rq[c].curr
      /\ \A p \in Tasks : t.task[p].state = r.task[p].state
      /\ Counts(r, t, IF next = Idle THEN 0 ELSE -1, 0, 0)
  BY <1>1 DEF Takes
<1>3. Queued(r) \ {prev} = Queued(s) \ {prev} /\ Others(s, r, prev) BY DEF GivesBack, Touch
<1>4. /\ Queued(s) \subseteq Tasks /\ Runnable(s) \subseteq Tasks /\ Blocked(s) \subseteq Tasks
      /\ Queued(t) \subseteq Tasks /\ Runnable(t) \subseteq Tasks /\ Blocked(t) \subseteq Tasks
      /\ Queued(r) \subseteq Tasks
  BY DEF Queued, Running, Runnable, Blocked
<1>5. prev \in Tasks => prev \notin Queued(s) /\ prev \in Running(s)
  BY DEF Placed, PlacedTask, Running
<1>6. \A c \in Cpus : c # cpu /\ s.rq[c].curr \in Tasks => s.rq[c].curr # prev
  BY DEF Placed, PlacedTask
<1>7. prev \in Tasks \cup {Idle} BY StateParts, RqFields
<1>8. next = t.rq[cpu].curr /\ prev = s.rq[cpu].curr OBVIOUS
<1>9. Idle \notin Tasks BY TaskAssumption
<1>10. Counts(s, r, Ind(Queued(r), prev), dr, du)
  <2>1. CASE prev = Idle BY <1>4, <1>9, <2>1 DEF GivesBack, Ind
  <2>2. CASE prev \in Tasks BY <1>9, <2>2 DEF GivesBack, Ind
  <2> QED BY <1>7, <2>1, <2>2
<1>11. prev \in Tasks => (fate = "ready" <=> prev \in Queued(r)) BY <1>9 DEF GivesBack
<1>12. prev \in Tasks /\ fate # "ready" =>
         r.task[prev].state = "uninterruptible" <=> fate = "asleep" /\ Load(s, prev) = 1
  BY <1>9 DEF GivesBack, Load
<1> HIDE DEF prev, next
<1>13. \A q \in Tasks \ {prev} : q \in Running(t) <=> q = next \/ q \in Running(s)
  BY <1>2, <1>8 DEF Running
<1>14. Runnable(t) \ {prev} = Runnable(s) \ {prev}
  BY <1>2, <1>3, <1>4, <1>9, <1>13 DEF Runnable
<1>15. \A q \in Tasks \ {prev} : t.task[q].state = s.task[q].state BY <1>2, <1>3 DEF Others, SameCore
<1>16. Blocked(t) \ {prev} = Blocked(s) \ {prev}
  BY <1>14, <1>15 DEF Blocked, Runnable
<1>17. prev \in Tasks => (prev \in Runnable(t) <=> fate = "ready")
  <2> HAVE prev \in Tasks
  <2>1. prev \in Running(t) <=> prev = next BY <1>2, <1>6, <1>8 DEF Running
  <2>2. prev = next => prev \in Queued(r) BY <1>2, <1>9
  <2> QED BY <1>2, <1>11, <2>1, <2>2 DEF Runnable
<1>18. Ind(Runnable(t), prev) - Ind(Runnable(s), prev) = dr
  <2>1. CASE prev = Idle BY <1>4, <1>9, <2>1 DEF Ind
  <2>2. CASE prev \in Tasks BY <1>5, <1>9, <1>17, <2>2 DEF Ind, Runnable
  <2> QED BY <1>7, <2>1, <2>2
<1>19. Ind(Blocked(t), prev) - Ind(Blocked(s), prev) = du
  <2>1. CASE prev = Idle BY <1>4, <1>9, <2>1 DEF Ind
  <2>2. CASE prev \in Tasks
    <3>1. prev \notin Blocked(s) BY <1>5, <2>2 DEF Blocked
    <3>2. CASE fate = "ready" BY <1>9, <1>17, <2>2, <3>1, <3>2 DEF Ind, Blocked, Runnable
    <3>3. CASE fate # "ready"
      <4>1. prev \in Blocked(t) <=> r.task[prev].state = "uninterruptible"
        BY <1>2, <1>17, <2>2, <3>3 DEF Blocked, Runnable
      <4>2. Load(s, prev) \in {0, 1} BY DEF Load
      <4>3. du = IF fate = "asleep" THEN Load(s, prev) ELSE 0 BY <1>9, <2>2
      <4> HIDE DEF du
      <4> QED BY <1>12, <2>2, <3>1, <3>3, <4>1, <4>2, <4>3 DEF Ind
    <3> QED BY <3>2, <3>3
  <2> QED BY <1>7, <2>1, <2>2
<1>20. dr \in Int /\ du \in Int BY DEF Load
<1> HIDE DEF dr, du
<1>21. Cardinality(Runnable(t)) = Cardinality(Runnable(s)) + dr
  BY <1>4, <1>14, <1>18, CardInd
<1>22. Cardinality(Blocked(t)) = Cardinality(Blocked(s)) + du
  BY <1>4, <1>16, <1>19, CardInd
<1>23. /\ Cardinality(Queued(r)) = Cardinality(Queued(s)) + (Ind(Queued(r), prev) - Ind(Queued(s), prev))
       /\ Cardinality(Queued(s)) \in Nat
  BY <1>3, <1>4, CardInd
<1>24. Ind(Queued(s), prev) = 0 /\ Ind(Queued(r), prev) \in Int BY <1>4, <1>5 DEF Ind
<1>25. /\ Cardinality(Queued(t)) = Cardinality(Queued(r)) + (Ind(Queued(t), next) - Ind(Queued(r), next))
       /\ Cardinality(Queued(r)) \in Nat
  <2>1. Queued(r) \ {next} = Queued(t) \ {next} BY <1>2
  <2> QED BY <1>4, <2>1, CardInd
<1>26. Ind(Queued(t), next) - Ind(Queued(r), next) = IF next = Idle THEN 0 ELSE -1
  BY <1>2, <1>4, <1>9 DEF Ind
<1>27. t.grq.qnr = Cardinality(Queued(t))
  BY <1>2, <1>10, <1>23, <1>24, <1>25, <1>26 DEF Counts, Counted
<1>28. t.grq.nr_running = Cardinality(Runnable(t)) /\ t.grq.nr_uninterruptible = Cardinality(Blocked(t))
  <2>1. s.grq.nr_running \in Int /\ s.grq.nr_uninterruptible \in Int BY CountsType
  <2> QED BY <1>2, <1>10, <1>20, <1>21, <1>22, <2>1 DEF Counts, Counted
<1> QED BY <1>27, <1>28 DEF Counted

\* So schedule() keeps the invariant.
LEMMA SwitchesKeeps ==
  ASSUME NEW s \in SchedState, NEW t, NEW cpu \in Cpus, Switches(s, t, cpu), Keeps(s)
  PROVE  Keeps(t)
<1>1. PICK r \in SchedState, fate \in {"ready", "asleep", "gone"} :
        GivesBack(s, r, s.rq[cpu].curr, fate) /\ Takes(r, t, cpu)
  BY DEF Switches
<1>2. Placed(t) /\ Counted(t) BY <1>1, SwitchesPlaced, SwitchesCounted DEF Keeps
<1>3. WellFormed(t) BY <1>1 DEF Takes
<1> QED BY <1>2, <1>3 DEF Keeps

\* schedule() chooses a queued task that may run on cpu, or idle.
LEMMA ChooseNext ==
  ASSUME NEW s \in SchedState, NEW j, NEW cpu \in Cpus
  PROVE  LET next == Choose(s, j, cpu).next
         IN  /\ next \in Queued(s) \cup {Idle}
             /\ next \in Tasks => cpu \in s.task[next].allowed
<1> DEFINE offset  == NextOffset(j)
           edt     == EarliestDeadline(s, cpu)
           scanned == ScanLimits(j.limits, edt)
           other   == IF Hits(j.limits, edt) # {} THEN Idle ELSE edt
           next    == Choose(s, j, cpu).next
<1>1. edt \in Queued(s) \cup {Idle} /\ (edt \in Tasks => cpu \in s.task[edt].allowed)
  <2>1. CASE edt = Idle BY <2>1, TaskAssumption
  <2>2. ASSUME NEW prio \in QueuePrios, NEW i \in Eligible(s, prio, cpu),
               edt = s.grq.queue[prio][i]
        PROVE  edt \in Queued(s) /\ cpu \in s.task[edt].allowed
    <3>1. i \in DOMAIN s.grq.queue[prio] /\ cpu \in s.task[s.grq.queue[prio][i]].allowed
      BY DEF Eligible, needs_other_cpu
    <3>2. s.grq.queue[prio][i] \in Queued(s) BY <3>1, QueueType
    <3> QED BY <2>2, <3>1, <3>2
  <2> HIDE DEF edt
  <2>3. edt = Idle \/ \E prio \in QueuePrios : \E i \in Eligible(s, prio, cpu) :
                         edt = s.grq.queue[prio][i]
    BY EarliestDeadlineResult DEF edt
  <2> QED BY <2>1, <2>2, <2>3
<1>2. Choose(s, j, cpu) =
        CASE s.grq.qnr = 0 \/ offset = j.global_rate ->
               [next |-> Idle, inj |-> [j EXCEPT !.offset = 0]]
          [] Scans(s, j, cpu) ->
               [next |-> other, inj |-> [j EXCEPT !.offset = offset, !.limits = scanned]]
          [] OTHER -> [next |-> edt, inj |-> [j EXCEPT !.offset = offset]]
  BY DEF Choose
<1> HIDE DEF offset, scanned, edt
<1>3. next \in {Idle, edt} BY <1>2
<1> HIDE DEF next
<1> QED BY <1>1, <1>3, TaskAssumption DEF next

\* Writing on_cpu moves nothing else.
LEMMA OnCpuWrite ==
  ASSUME NEW s \in SchedState, WellFormed(s), NEW p \in Tasks, NEW v \in BOOLEAN
  PROVE  LET t == [s EXCEPT !.task[p].on_cpu = v]
         IN  /\ Touch(s, t, p) /\ Queued(t) = Queued(s) /\ SameCounts(s, t)
             /\ t.task[p].state = s.task[p].state /\ t.task[p].on_cpu = v
             /\ t.task[p].cpu = s.task[p].cpu /\ t.task[p].allowed = s.task[p].allowed
<1> DEFINE r == [s.task[p] EXCEPT !.on_cpu = v]
           t == [s EXCEPT !.task[p] = r]
<1>1. s.task[p] \in TaskRec BY StateParts
<1>2. r \in TaskRec BY <1>1, TaskWrite
<1>3. /\ r.state = s.task[p].state /\ r.on_cpu = v /\ r.cpu = s.task[p].cpu
      /\ r.allowed = s.task[p].allowed /\ r.prio = s.task[p].prio
  BY <1>1 DEF TaskRec
<1>4. [s EXCEPT !.task[p].on_cpu = v] = t OBVIOUS
<1> HIDE DEF r
<1>5. /\ Touch(s, t, p) /\ Queued(t) = Queued(s) /\ SameCounts(s, t) /\ t.task[p] = r
  BY <1>2, <1>3, WriteTouch
<1> HIDE DEF t
<1> QED BY <1>3, <1>4, <1>5

\* Writing the idle map leaves the queue, the counters and the tasks alone.
LEMMA IdleMapEffect ==
  ASSUME NEW s \in SchedState, NEW map, NEW any
  PROVE  LET g == [s.grq EXCEPT !.cpu_idle_map = map, !.idle_cpus = any]
         IN  /\ g.queue = s.grq.queue /\ g.prio_bitmap = s.grq.prio_bitmap /\ g.qnr = s.grq.qnr
             /\ g.nr_running = s.grq.nr_running
             /\ g.nr_uninterruptible = s.grq.nr_uninterruptible
BY StateParts DEF GrqRec

\* The first part of the switch: next leaves the queue for cpu.
LEMMA MapTakes ==
  ASSUME NEW s \in SchedState, WellFormed(s), MapExact(s), NEW cpu \in Cpus,
         NEW next \in Queued(s) \cup {Idle}
  PROVE  LET t == IF next = Idle THEN set_cpuidle_map(s, cpu)
                  ELSE clear_cpuidle_map(take_task(s, cpu, next), cpu)
         IN  /\ t \in SchedState /\ WellFormed(t) /\ Queued(t) = Queued(s) \ {next}
             /\ \A c \in Cpus : t.rq[c].curr = s.rq[c].curr
             /\ \A p \in Tasks :
                  /\ t.task[p].state = s.task[p].state /\ t.task[p].allowed = s.task[p].allowed
                  /\ t.task[p].cpu = IF p = next THEN cpu ELSE s.task[p].cpu
                  /\ t.task[p].on_cpu = s.task[p].on_cpu
             /\ Counts(s, t, IF next = Idle THEN 0 ELSE -1, 0, 0)
<1> DEFINE t == IF next = Idle THEN set_cpuidle_map(s, cpu)
                ELSE clear_cpuidle_map(take_task(s, cpu, next), cpu)
<1>1. next \in Tasks \cup {Idle} BY DEF Queued
<1>2. t \in SchedState /\ \A c \in Cpus : t.rq[c].curr = s.rq[c].curr BY <1>1, MapStep
<1>3. CASE next = Idle
  <2>1. /\ t.grq.queue = s.grq.queue /\ t.grq.prio_bitmap = s.grq.prio_bitmap
        /\ SameCounts(s, t) /\ t.task = s.task
    <3> DEFINE map == s.grq.cpu_idle_map \cup {cpu}
               g   == [s.grq EXCEPT !.cpu_idle_map = map, !.idle_cpus = TRUE]
    <3>1. t.grq = g /\ t.task = s.task BY <1>3 DEF set_cpuidle_map, SchedState
    <3> HIDE DEF map, t
    <3>2. /\ g.queue = s.grq.queue /\ g.prio_bitmap = s.grq.prio_bitmap /\ g.qnr = s.grq.qnr
          /\ g.nr_running = s.grq.nr_running /\ g.nr_uninterruptible = s.grq.nr_uninterruptible
      BY IdleMapEffect
    <3> HIDE DEF g
    <3> QED BY <3>1, <3>2 DEF SameCounts
  <2> HIDE DEF t
  <2>2. Queued(t) = Queued(s) /\ WellFormed(t) BY <2>1, QueueKept
  <2>3. Counts(s, t, 0, 0, 0) BY <2>1, CountsType DEF Counts, SameCounts
  <2>4. Idle \notin Tasks /\ Idle \notin Queued(s) BY TaskAssumption DEF Queued
  <2> QED BY <1>2, <1>3, <2>1, <2>2, <2>3, <2>4 DEF t
<1>4. CASE next # Idle
  <2> DEFINE u == take_task(s, cpu, next)
  <2>1. next \in Queued(s) /\ next \in Tasks BY <1>4 DEF Queued
  <2>2. /\ u \in SchedState /\ WellFormed(u) /\ Queued(u) = Queued(s) \ {next}
        /\ Others(s, u, next) /\ u.task[next].cpu = cpu
        /\ u.task[next].state = s.task[next].state /\ u.task[next].on_cpu = s.task[next].on_cpu
        /\ u.task[next].allowed = s.task[next].allowed
        /\ Counts(s, u, -1, 0, 0)
    BY <2>1, TakeEffect
  <2>3. t = clear_cpuidle_map(u, cpu) BY <1>4
  <2> HIDE DEF u, t
  <2>4. /\ t.grq.queue = u.grq.queue /\ t.grq.prio_bitmap = u.grq.prio_bitmap
        /\ SameCounts(u, t) /\ t.task = u.task
    <3> DEFINE map == u.grq.cpu_idle_map \ {cpu}
               any == IF map = {} THEN FALSE ELSE u.grq.idle_cpus
               g   == [u.grq EXCEPT !.cpu_idle_map = map, !.idle_cpus = any]
    <3>1. t.grq = g /\ t.task = u.task BY <2>2, <2>3 DEF clear_cpuidle_map, SchedState
    <3> HIDE DEF map, any
    <3>2. /\ g.queue = u.grq.queue /\ g.prio_bitmap = u.grq.prio_bitmap /\ g.qnr = u.grq.qnr
          /\ g.nr_running = u.grq.nr_running /\ g.nr_uninterruptible = u.grq.nr_uninterruptible
      BY <2>2, IdleMapEffect
    <3> HIDE DEF g
    <3> QED BY <3>1, <3>2 DEF SameCounts
  <2>5. Queued(t) = Queued(u) /\ WellFormed(t) BY <2>2, <2>4, QueueKept
  <2>6. Counts(s, t, -1, 0, 0) BY <2>2, <2>4 DEF Counts, SameCounts
  <2>7. \A p \in Tasks :
          /\ t.task[p].state = s.task[p].state /\ t.task[p].allowed = s.task[p].allowed
          /\ t.task[p].cpu = IF p = next THEN cpu ELSE s.task[p].cpu
          /\ t.task[p].on_cpu = s.task[p].on_cpu
    BY <2>2, <2>4 DEF Others, SameCore
  <2> QED BY <1>2, <1>4, <2>2, <2>5, <2>6, <2>7 DEF t
<1> QED BY <1>3, <1>4

\* The whole switch: cpu takes next.
LEMMA SwitchTakes ==
  ASSUME NEW s \in SchedState, WellFormed(s), MapExact(s), NEW cpu \in Cpus,
         NEW prev \in Tasks \cup {Idle}, prev = s.rq[cpu].curr,
         prev \in Tasks => s.task[prev].on_cpu,
         NEW next \in Queued(s) \cup {Idle}, next \in Tasks => cpu \in s.task[next].allowed
  PROVE  Takes(s, SwitchTo(s, cpu, prev, next), cpu)
<1> DEFINE s1 == IF next = Idle THEN set_cpuidle_map(s, cpu)
                 ELSE clear_cpuidle_map(take_task(s, cpu, next), cpu)
           u  == [s1 EXCEPT !.rq[cpu].sticky_task = NoTask]
           s2 == IF next # Idle /\ rt_prio(s1.task[next].prio)
                 THEN IF prev = Idle THEN u ELSE clear_sticky(u, prev)
                 ELSE s1
           s3 == IF prev = Idle THEN s2 ELSE [s2 EXCEPT !.task[prev].on_cpu = FALSE]
           s4 == IF next = Idle THEN s3 ELSE [s3 EXCEPT !.task[next].on_cpu = TRUE]
           s5 == set_rq_task(s4, cpu, next)
           t  == [s5 EXCEPT !.rq[cpu].curr = next]
<1>1. SwitchTo(s, cpu, prev, next) = IF prev = next THEN s1 ELSE t BY DEF SwitchTo
<1>2. /\ s1 \in SchedState /\ WellFormed(s1) /\ Queued(s1) = Queued(s) \ {next}
      /\ \A c \in Cpus : s1.rq[c].curr = s.rq[c].curr
      /\ \A p \in Tasks :
           /\ s1.task[p].state = s.task[p].state /\ s1.task[p].allowed = s.task[p].allowed
           /\ s1.task[p].cpu = IF p = next THEN cpu ELSE s.task[p].cpu
           /\ s1.task[p].on_cpu = s.task[p].on_cpu
      /\ Counts(s, s1, IF next = Idle THEN 0 ELSE -1, 0, 0)
  BY MapTakes
<1> HIDE DEF s1
<1>3. next \in Tasks \cup {Idle} /\ Idle \notin Tasks BY TaskAssumption DEF Queued
<1>4. CASE prev = next
  <2>1. s1.rq[cpu].curr = next BY <1>2, <1>4
  <2>2. s.task \in [Tasks -> TaskRec] BY StateParts
  <2>3. \A p \in Tasks : s.task[p].on_cpu \in BOOLEAN BY <2>2, TaskFields
  <2>4. \A p \in Tasks :
           /\ s1.task[p].state = s.task[p].state /\ s1.task[p].allowed = s.task[p].allowed
           /\ s1.task[p].cpu = IF p = next THEN cpu ELSE s.task[p].cpu
           /\ s1.task[p].on_cpu = IF p = next THEN TRUE
                                 ELSE IF p = prev THEN FALSE ELSE s.task[p].on_cpu
    <3>1. next \in Tasks => s.task[next].on_cpu = TRUE BY <1>4, <2>3
    <3> QED BY <1>2, <1>4, <3>1
  <2>5. \A c \in Cpus \ {cpu} : s1.rq[c].curr = s.rq[c].curr BY <1>2
  <2>6. Takes(s, s1, cpu) BY <1>2, <2>1, <2>4, <2>5 DEF Takes
  <2> QED BY <1>1, <1>4, <2>6
<1>5. CASE prev # next
  <2>1. Quiet(s1, u) BY <1>2, RqQuiet
  <2> HIDE DEF u
  <2>2. Quiet(s1, s2)
    <3>1. Quiet(s1, s1) BY <1>2, QuietRefl
    <3>2. prev # Idle => Quiet(s1, clear_sticky(u, prev)) BY <2>1, ClearStickyQuiet, QuietChain
    <3> QED BY <2>1, <3>1, <3>2
  <2> HIDE DEF s2
  <2>3. /\ s2 \in SchedState /\ Queued(s2) = Queued(s1) /\ WellFormed(s2) /\ SameCounts(s1, s2)
        /\ \A p \in Tasks : SameCore(s2.task[p], s1.task[p])
        /\ \A c \in Cpus : s2.rq[c].curr = s1.rq[c].curr
    BY <1>2, <2>2, QuietEffect
  <2>4. /\ s3 \in SchedState /\ Queued(s3) = Queued(s2) /\ WellFormed(s3) /\ SameCounts(s2, s3)
        /\ \A p \in Tasks : /\ s3.task[p].state = s2.task[p].state
                            /\ s3.task[p].allowed = s2.task[p].allowed
                            /\ s3.task[p].cpu = s2.task[p].cpu
                            /\ s3.task[p].on_cpu = IF p = prev THEN FALSE ELSE s2.task[p].on_cpu
        /\ \A c \in Cpus : s3.rq[c].curr = s2.rq[c].curr
    <3>1. CASE prev = Idle BY <1>3, <2>3, <3>1 DEF SameCounts
    <3>2. CASE prev # Idle
      <4> DEFINE off == FALSE
                 v   == [s2 EXCEPT !.task[prev].on_cpu = off]
      <4>1. prev \in Tasks /\ off \in BOOLEAN BY <3>2
      <4>2. s3 = v BY <3>2
      <4> HIDE DEF off
      <4>3. /\ Touch(s2, v, prev) /\ Queued(v) = Queued(s2) /\ SameCounts(s2, v)
            /\ v.task[prev].state = s2.task[prev].state /\ v.task[prev].on_cpu = off
            /\ v.task[prev].cpu = s2.task[prev].cpu /\ v.task[prev].allowed = s2.task[prev].allowed
        BY <2>3, <4>1, OnCpuWrite
      <4> HIDE DEF v, s3
      <4> USE DEF off
      <4> QED BY <4>2, <4>3 DEF Touch, Step, Others, SameCore
    <3> QED BY <3>1, <3>2
  <2> HIDE DEF s3
  <2>5. /\ s4 \in SchedState /\ Queued(s4) = Queued(s3) /\ WellFormed(s4) /\ SameCounts(s3, s4)
        /\ \A p \in Tasks : /\ s4.task[p].state = s3.task[p].state
                            /\ s4.task[p].allowed = s3.task[p].allowed
                            /\ s4.task[p].cpu = s3.task[p].cpu
                            /\ s4.task[p].on_cpu = IF p = next THEN TRUE ELSE s3.task[p].on_cpu
        /\ \A c \in Cpus : s4.rq[c].curr = s3.rq[c].curr
    <3>1. CASE next = Idle BY <1>3, <2>4, <3>1 DEF SameCounts
    <3>2. CASE next # Idle
      <4> DEFINE v == [s3 EXCEPT !.task[next].on_cpu = TRUE]
      <4>1. next \in Tasks BY <1>3, <3>2
      <4>2. /\ Touch(s3, v, next) /\ Queued(v) = Queued(s3) /\ SameCounts(s3, v)
            /\ v.task[next].state = s3.task[next].state /\ v.task[next].on_cpu = TRUE
            /\ v.task[next].cpu = s3.task[next].cpu /\ v.task[next].allowed = s3.task[next].allowed
        BY <2>4, <4>1, OnCpuWrite
      <4>3. s4 = v BY <3>2
      <4> HIDE DEF v, s4
      <4> QED BY <4>2, <4>3 DEF Touch, Step, Others, SameCore
    <3> QED BY <3>1, <3>2
  <2> HIDE DEF s4
  <2>6. Quiet(s4, s5) BY <1>3, <2>5, SetRqTaskQuiet
  <2> HIDE DEF s5
  <2>7. /\ s5 \in SchedState /\ Queued(s5) = Queued(s4) /\ WellFormed(s5) /\ SameCounts(s4, s5)
        /\ \A p \in Tasks : SameCore(s5.task[p], s4.task[p])
        /\ \A c \in Cpus : s5.rq[c].curr = s4.rq[c].curr
    BY <2>5, <2>6, QuietEffect
  <2>8. t \in SchedState BY <1>3, <2>7, CurrType
  <2>9. t.grq = s5.grq /\ t.task = s5.task
        /\ \A c \in Cpus : t.rq[c].curr = IF c = cpu THEN next ELSE s5.rq[c].curr
    BY <2>7 DEF SchedState, RqRec
  <2> HIDE DEF t
  <2>10. Queued(t) = Queued(s5) /\ WellFormed(t) BY <2>7, <2>9, QueueKept
  <2>11. Queued(t) = Queued(s) \ {next} BY <1>2, <2>3, <2>4, <2>5, <2>7, <2>10
  <2>12. \A p \in Tasks :
           /\ t.task[p].state = s.task[p].state /\ t.task[p].allowed = s.task[p].allowed
           /\ t.task[p].cpu = IF p = next THEN cpu ELSE s.task[p].cpu
           /\ t.task[p].on_cpu = IF p = next THEN TRUE
                                 ELSE IF p = prev THEN FALSE ELSE s.task[p].on_cpu
    <3> SUFFICES ASSUME NEW p \in Tasks
                 PROVE /\ t.task[p].state = s.task[p].state /\ t.task[p].allowed = s.task[p].allowed
                       /\ t.task[p].cpu = IF p = next THEN cpu ELSE s.task[p].cpu
                       /\ t.task[p].on_cpu = IF p = next THEN TRUE
                                             ELSE IF p = prev THEN FALSE ELSE s.task[p].on_cpu
      OBVIOUS
    <3>1. SameCore(s2.task[p], s1.task[p]) /\ SameCore(t.task[p], s4.task[p]) BY <2>3, <2>7, <2>9
    <3>2. /\ s1.task[p].state = s.task[p].state /\ s1.task[p].allowed = s.task[p].allowed
          /\ s1.task[p].cpu = IF p = next THEN cpu ELSE s.task[p].cpu
      BY <1>2
    <3>3. /\ s4.task[p].state = s2.task[p].state /\ s4.task[p].allowed = s2.task[p].allowed
          /\ s4.task[p].cpu = s2.task[p].cpu
      BY <2>4, <2>5, ZenonT(30)
    <3>4. s2.task[p].on_cpu = s.task[p].on_cpu /\ t.task[p].on_cpu = s4.task[p].on_cpu
      BY <1>2, <3>1 DEF SameCore
    <3>5. s3.task[p].on_cpu = IF p = prev THEN FALSE ELSE s.task[p].on_cpu BY <2>4, <3>4
    <3>6. t.task[p].on_cpu = IF p = next THEN TRUE ELSE s3.task[p].on_cpu BY <2>5, <3>4
    <3>7. t.task[p].on_cpu = IF p = next THEN TRUE
                             ELSE IF p = prev THEN FALSE ELSE s.task[p].on_cpu
      BY <3>5, <3>6
    <3>8. /\ t.task[p].state = s.task[p].state /\ t.task[p].allowed = s.task[p].allowed
          /\ t.task[p].cpu = s1.task[p].cpu
      BY <3>1, <3>2, <3>3 DEF SameCore
    <3> QED BY <3>2, <3>7, <3>8
  <2>13. Counts(s, t, IF next = Idle THEN 0 ELSE -1, 0, 0)
    BY <1>2, <2>3, <2>4, <2>5, <2>7, <2>9 DEF Counts, SameCounts
  <2>14. \A c \in Cpus \ {cpu} : t.rq[c].curr = s.rq[c].curr
    BY <1>2, <2>3, <2>4, <2>5, <2>7, <2>9
  <2>15. t.rq[cpu].curr = next BY <2>9
  <2>16. Takes(s, t, cpu) BY <2>8, <2>10, <2>11, <2>12, <2>13, <2>14, <2>15 DEF Takes
  <2> QED BY <1>1, <1>5, <2>16
<1> QED BY <1>4, <1>5

\* A dead task is dropped: its record is free again.
LEMMA BuryEffect ==
  ASSUME NEW s \in SchedState, WellFormed(s), NEW p \in Tasks
  PROVE  LET t == Bury(s, p)
         IN  /\ Touch(s, t, p) /\ Queued(t) = Queued(s) /\ SameCounts(s, t)
             /\ t.task[p].state = IF s.task[p].state = "dead" THEN "none" ELSE s.task[p].state
             /\ t.task[p].on_cpu = s.task[p].on_cpu
             /\ t.task[p].allowed = s.task[p].allowed
<1> DEFINE t == Bury(s, p)
<1>1. CASE s.task[p].state # "dead"
  <2>1. t = s BY <1>1 DEF Bury
  <2> HIDE DEF t
  <2>2. Touch(s, s, p) BY StepRefl DEF Touch, Others, SameCore
  <2> QED BY <1>1, <2>1, <2>2 DEF SameCounts, t
<1>2. CASE s.task[p].state = "dead"
  <2> DEFINE a == [s EXCEPT !.task[p].state = "none"]
             b == [a EXCEPT !.task[p].deadline = 0]
             c == [b EXCEPT !.task[p].time_slice = 0]
  <2>1. t = c BY <1>2 DEF Bury
  <2>2. "none" \in TaskStates /\ 0 \in Nat /\ 0 \in 0 .. SLICE BY SliceAssumption DEF TaskStates
  <2>3. /\ Touch(s, a, p) /\ Queued(a) = Queued(s) /\ SameCounts(s, a)
        /\ a.task[p].state = "none" /\ a.task[p].on_cpu = s.task[p].on_cpu
        /\ a.task[p].allowed = s.task[p].allowed
    BY <2>2, StateWrite
  <2>4. a \in SchedState BY <2>3 DEF Touch, Step
  <2> HIDE DEF a
  <2>5. Quiet(a, b)
    <3>1. \A v \in Nat : Quiet(a, [a EXCEPT !.task[p].deadline = v]) BY <2>4, TaskQuiet
    <3> QED BY <2>2, <3>1
  <2> HIDE DEF b
  <2>6. Quiet(a, c)
    <3>1. b \in SchedState => \A v \in 0 .. SLICE : Quiet(b, [b EXCEPT !.task[p].time_slice = v])
      BY TaskQuiet
    <3>2. b \in SchedState => Quiet(b, c) BY <2>2, <3>1
    <3> HIDE DEF c
    <3> QED BY <2>5, <3>2, QuietChain
  <2> HIDE DEF c, t
  <2>7. /\ Touch(s, c, p) /\ Queued(c) = Queued(a) /\ SameCounts(a, c)
        /\ SameCore(c.task[p], a.task[p])
    BY <2>3, <2>6, AfterQuiet
  <2> QED BY <1>2, <2>1, <2>3, <2>7 DEF SameCounts, SameCore, t
<1> QED BY <1>1, <1>2

\* What becomes of prev when schedule() gives it back: it is queued, it sleeps, or
\* it is dropped.
LEMMA ReturnTouch ==
  ASSUME NEW s \in SchedState, WellFormed(s), NEW p \in Tasks, p \notin Queued(s),
         NEW deactivate \in BOOLEAN, NEW fit \in BOOLEAN
  PROVE  LET t == return_task(s, p, deactivate, fit)
         IN  /\ Touch(s, t, p) /\ Unmoved(s, t, p)
             /\ ~deactivate => p \in Queued(t) /\ Counts(s, t, 1, 0, 0)
             /\ deactivate => p \notin Queued(t) /\ Counts(s, t, 0, -1, Load(s, p))
<1> DEFINE t == return_task(s, p, deactivate, fit)
<1>1. Step(s, t) BY ReturnStep
<1>2. CASE ~deactivate
  <2> DEFINE e == return_task(s, p, FALSE, fit)
  <2>1. /\ WellFormed(e) /\ Queued(e) = Queued(s) \cup {p}
        /\ Others(s, e, p) /\ Unmoved(s, e, p) /\ Counts(s, e, 1, 0, 0)
    BY ReturnEffect
  <2>2. t = e BY <1>2
  <2> HIDE DEF e
  <2> QED BY <1>1, <1>2, <2>1, <2>2 DEF Touch
<1>3. CASE deactivate
  <2> DEFINE e == deactivate_task(s, p)
  <2>1. /\ e.grq.queue = s.grq.queue /\ e.grq.prio_bitmap = s.grq.prio_bitmap
        /\ (\A q \in Tasks : SameCore(e.task[q], s.task[q])) /\ e.rq = s.rq
        /\ Counts(s, e, 0, -1, Load(s, p))
    BY DeactivateEffect
  <2>2. t = e BY <1>3 DEF return_task
  <2> HIDE DEF e, t
  <2>3. \A q \in Queued(s) : e.task[q].prio = s.task[q].prio BY <2>1 DEF Queued, SameCore
  <2>4. Queued(e) = Queued(s) /\ WellFormed(e) BY <1>1, <2>1, <2>2, <2>3, QueueKept DEF Step
  <2>5. Others(s, e, p) /\ Unmoved(s, e, p) BY <2>1 DEF Others, SameCore, Unmoved
  <2> QED BY <1>1, <1>3, <2>1, <2>2, <2>4, <2>5 DEF Touch, t
<1> QED BY <1>2, <1>3

\* What schedule() does with the task it takes off the CPU.
Fate(s, prev, deactivate) ==
  IF ~deactivate THEN "ready" ELSE IF s.task[prev].state = "dead" THEN "gone" ELSE "asleep"

\* GiveBack, with the last reference to a dead task dropped.
LEMMA GiveBackEffect ==
  ASSUME NEW s \in SchedState, WellFormed(s), NEW cpu \in Cpus, NEW prev \in Tasks,
         prev \notin Queued(s), s.task[prev].on_cpu,
         NEW deactivate \in BOOLEAN, NEW fit \in BOOLEAN,
         deactivate => s.task[prev].state \in {"interruptible", "uninterruptible", "dead"},
         ~deactivate => s.task[prev].state \notin {"none", "new", "dead"}
  PROVE  GivesBack(s, Bury(GiveBack(s, cpu, prev, deactivate, fit), prev), prev,
                   Fate(s, prev, deactivate))
<1> DEFINE s1 == CASE needs_other_cpu(s, prev, cpu) -> resched_suitable_idle(s, prev)
                   [] ~needs_other_cpu(s, prev, cpu) /\ ~deactivate -> swap_sticky(s, cpu, prev)
                   [] OTHER -> s
           g  == return_task(s1, prev, deactivate, fit)
           r  == Bury(g, prev)
<1>1. Quiet(s, s1)
  <2>1. Quiet(s, resched_suitable_idle(s, prev)) BY SuitableIdleQuiet
  <2>2. Quiet(s, swap_sticky(s, cpu, prev)) BY SwapStickyQuiet
  <2>3. Quiet(s, s) BY QuietRefl
  <2> QED BY <2>1, <2>2, <2>3
<1>2. Bury(GiveBack(s, cpu, prev, deactivate, fit), prev) = r BY DEF GiveBack
<1> HIDE DEF s1
<1>3. /\ s1 \in SchedState /\ Queued(s1) = Queued(s) /\ WellFormed(s1) /\ SameCounts(s, s1)
      /\ SameCore(s1.task[prev], s.task[prev])
  BY <1>1, QuietEffect
<1>4. Load(s1, prev) = Load(s, prev) BY <1>3 DEF Load, SameCore
<1>5. /\ Touch(s1, g, prev) /\ Unmoved(s1, g, prev)
      /\ ~deactivate => prev \in Queued(g) /\ Counts(s1, g, 1, 0, 0)
      /\ deactivate => prev \notin Queued(g) /\ Counts(s1, g, 0, -1, Load(s1, prev))
  BY <1>3, ReturnTouch
<1>6. g \in SchedState /\ WellFormed(g) BY <1>5 DEF Touch, Step
<1> HIDE DEF g
<1>7. /\ Touch(g, r, prev) /\ Queued(r) = Queued(g) /\ SameCounts(g, r)
      /\ r.task[prev].state = IF g.task[prev].state = "dead" THEN "none" ELSE g.task[prev].state
      /\ r.task[prev].on_cpu = g.task[prev].on_cpu
      /\ r.task[prev].allowed = g.task[prev].allowed
  BY <1>6, BuryEffect
<1> HIDE DEF r
<1>8. Touch(s, r, prev)
  <2>1. Touch(s, g, prev) BY <1>1, <1>5, BeforeQuiet
  <2>2. Step(s, r) BY <1>7, <2>1, Chain DEF Touch
  <2>3. Others(s, r, prev) BY <1>7, <2>1 DEF Touch, Others, SameCore
  <2> QED BY <1>7, <2>1, <2>2, <2>3 DEF Touch
<1>9. /\ g.task[prev].state = s.task[prev].state /\ r.task[prev].on_cpu = s.task[prev].on_cpu
      /\ r.task[prev].allowed = s.task[prev].allowed
  BY <1>3, <1>5, <1>7 DEF SameCore, Unmoved
<1>10. CASE ~deactivate
  <2>1. prev \in Queued(r) /\ r.task[prev].state \notin {"none", "new", "dead"}
    BY <1>5, <1>7, <1>9, <1>10
  <2>2. Counts(s, r, 1, 0, 0) BY <1>3, <1>5, <1>7, <1>10 DEF Counts, SameCounts
  <2>3. GivesBack(s, r, prev, "ready") BY <1>8, <1>9, <1>10, <2>1, <2>2 DEF GivesBack
  <2> QED BY <1>2, <1>10, <2>3 DEF Fate
<1>11. CASE deactivate
  <2>1. prev \notin Queued(r) BY <1>5, <1>7, <1>11
  <2>2. Counts(s, r, 0, -1, Load(s, prev)) BY <1>3, <1>4, <1>5, <1>7, <1>11 DEF Counts, SameCounts
  <2>3. CASE s.task[prev].state = "dead"
    <3>1. r.task[prev].state = "none" BY <1>7, <1>9, <2>3
    <3>2. Counts(s, r, 0, -1, 0) BY <2>2, <2>3 DEF Load
    <3>3. GivesBack(s, r, prev, "gone") BY <1>8, <1>9, <2>1, <2>3, <3>1, <3>2 DEF GivesBack
    <3> QED BY <1>2, <1>11, <2>3, <3>3 DEF Fate
  <2>4. CASE s.task[prev].state # "dead"
    <3>1. r.task[prev].state = s.task[prev].state BY <1>7, <1>9, <2>4
    <3>2. s.task[prev].state \in {"interruptible", "uninterruptible"} BY <1>11, <2>4
    <3>3. GivesBack(s, r, prev, "asleep") BY <1>8, <1>9, <2>1, <2>2, <3>1, <3>2 DEF GivesBack
    <3> QED BY <1>2, <1>11, <2>4, <3>3 DEF Fate
  <2> QED BY <2>3, <2>4
<1> QED BY <1>10, <1>11

\* Quiet steps, and a change of mind about sleeping, before prev is given back.
LEMMA GivesBackAfter ==
  ASSUME NEW s \in SchedState, NEW m, NEW r, NEW prev \in Tasks, NEW fate,
         Touch(s, m, prev), Queued(m) = Queued(s), SameCounts(s, m),
         m.task[prev].on_cpu = s.task[prev].on_cpu, m.task[prev].allowed = s.task[prev].allowed,
         \/ m.task[prev].state = s.task[prev].state
         \/ fate = "ready" /\ s.task[prev].state \notin {"none", "new", "dead"},
         GivesBack(m, r, prev, fate)
  PROVE  GivesBack(s, r, prev, fate)
<1>1. Touch(m, r, prev) BY DEF GivesBack
<1>2. Touch(s, r, prev)
  <2>1. Step(s, r) BY <1>1, Chain DEF Touch
  <2>2. Others(s, r, prev) BY <1>1 DEF Touch, Others, SameCore
  <2> QED BY <1>1, <2>1, <2>2 DEF Touch
<1>3. \A a, b, c : Counts(m, r, a, b, c) <=> Counts(s, r, a, b, c) BY DEF Counts, SameCounts
<1>4. prev # Idle BY TaskAssumption
<1>5. /\ r.task[prev].on_cpu /\ r.task[prev].allowed = s.task[prev].allowed
  BY <1>4 DEF GivesBack
<1>6. CASE fate = "ready"
  <2>1. /\ prev \in Queued(r) /\ Counts(m, r, 1, 0, 0)
        /\ r.task[prev].state \notin {"none", "new", "dead"}
        /\ m.task[prev].state \notin {"none", "new", "dead"}
    BY <1>4, <1>6 DEF GivesBack
  <2>2. s.task[prev].state \notin {"none", "new", "dead"} BY <2>1
  <2> QED BY <1>2, <1>3, <1>5, <1>6, <2>1, <2>2 DEF GivesBack
<1>7. CASE fate # "ready"
  <2>1. m.task[prev].state = s.task[prev].state BY <1>7
  <2>2. Load(m, prev) = Load(s, prev) BY <2>1 DEF Load
  <2>3. \/ /\ fate = "asleep" /\ prev \notin Queued(r) /\ Counts(m, r, 0, -1, Load(m, prev))
           /\ r.task[prev].state = m.task[prev].state
           /\ m.task[prev].state \in {"interruptible", "uninterruptible"}
        \/ /\ fate = "gone" /\ prev \notin Queued(r) /\ Counts(m, r, 0, -1, 0)
           /\ r.task[prev].state = "none" /\ m.task[prev].state = "dead"
    BY <1>4, <1>7 DEF GivesBack
  <2> QED BY <1>2, <1>3, <1>5, <2>1, <2>2, <2>3 DEF GivesBack
<1> QED BY <1>6, <1>7

\* Once prev is given back, schedule() switches.
LEMMA PickEffect ==
  ASSUME PInv, NEW cpu \in Cpus, NEW r \in SchedState, NEW fate \in {"ready", "asleep", "gone"},
         GivesBack(sched, r, rq[cpu].curr, fate), PickAndSwitch(r, cpu, rq[cpu].curr)
  PROVE  Switches(sched, sched', cpu)
<1> DEFINE prev == rq[cpu].curr
           pick == Choose(r, inj, cpu)
           t    == SwitchTo(r, cpu, prev, pick.next)
<1>1. /\ sched \in SchedState /\ MapExact(sched) /\ inj \in InjRec /\ sched.rq = rq
  BY PFacts, IInvSched
<1>2. Become(t) BY DEF PickAndSwitch
<1>3. Step(sched, r) /\ WellFormed(r) BY DEF GivesBack, Touch
<1>4. MapExact(r) BY <1>1, <1>3, StepExact
<1>5. prev = r.rq[cpu].curr BY <1>1, <1>3 DEF Step
<1>6. prev \in Tasks \cup {Idle} BY <1>5, StateParts, RqFields
<1>7. prev \in Tasks => r.task[prev].on_cpu BY TaskAssumption DEF GivesBack
<1>8. pick.next \in Queued(r) \cup {Idle} /\ (pick.next \in Tasks => cpu \in r.task[pick.next].allowed)
  BY ChooseNext
<1>9. GivesBack(sched, r, sched.rq[cpu].curr, fate) BY <1>1
<1> HIDE DEF pick, prev
<1>10. Takes(r, t, cpu) BY <1>3, <1>4, <1>5, <1>6, <1>7, <1>8, SwitchTakes
<1>11. t \in SchedState BY <1>10 DEF Takes
<1> HIDE DEF t
<1>12. sched' = t BY <1>2, <1>11, BecomeSched
<1> QED BY <1>9, <1>10, <1>12 DEF Switches

\* schedule() from a task: m is the state once prev's slice and deadline are
\* stored back.
LEMMA ScheduleTaskEffect ==
  ASSUME PInv, NEW cpu \in Cpus, rq[cpu].curr \in Tasks, NEW deactivate \in BOOLEAN,
         NEW s0 \in SchedState, ScheduleTask(cpu, deactivate, s0),
         Touch(sched, s0, rq[cpu].curr), Queued(s0) = Queued(sched), SameCounts(sched, s0),
         s0.task[rq[cpu].curr].on_cpu = task[rq[cpu].curr].on_cpu,
         s0.task[rq[cpu].curr].cpu = task[rq[cpu].curr].cpu,
         s0.task[rq[cpu].curr].allowed = task[rq[cpu].curr].allowed,
         deactivate => s0.task[rq[cpu].curr].state \in {"interruptible", "uninterruptible", "dead"},
         ~deactivate => s0.task[rq[cpu].curr].state \notin {"none", "new", "dead"},
         \/ s0.task[rq[cpu].curr].state = task[rq[cpu].curr].state
         \/ ~deactivate /\ task[rq[cpu].curr].state \notin {"none", "new", "dead"}
  PROVE  Restates(sched, sched', rq[cpu].curr) \/ Switches(sched, sched', cpu)
<1> DEFINE prev == rq[cpu].curr
<1>1. PICK d \in Advances, e \in 0 .. 1, fit \in BOOLEAN :
        LET s == StoreBack(update_cpu_clock(update_clocks(s0, d), cpu, e), cpu, prev)
        IN  IF Rerun(s, cpu, prev, deactivate)
            THEN Become(s) /\ UNCHANGED inj
            ELSE PickAndSwitch(Bury(GiveBack(s, cpu, prev, deactivate, fit), prev), cpu, prev)
  BY DEF ScheduleTask
<1> DEFINE a == update_clocks(s0, d)
           b == update_cpu_clock(a, cpu, e)
           m == StoreBack(b, cpu, prev)
           r == Bury(GiveBack(m, cpu, prev, deactivate, fit), prev)
<1>2. d \in Nat BY DEF Advances
<1>3. /\ prev \in Tasks /\ prev = rq[cpu].curr /\ Touch(sched, s0, prev)
      /\ s0.task[prev].on_cpu = task[prev].on_cpu /\ s0.task[prev].cpu = task[prev].cpu
      /\ s0.task[prev].allowed = task[prev].allowed
      /\ deactivate => s0.task[prev].state \in {"interruptible", "uninterruptible", "dead"}
      /\ ~deactivate => s0.task[prev].state \notin {"none", "new", "dead"}
      /\ \/ s0.task[prev].state = task[prev].state
         \/ ~deactivate /\ task[prev].state \notin {"none", "new", "dead"}
  OBVIOUS
<1>4. \/ Rerun(m, cpu, prev, deactivate) /\ Become(m)
      \/ PickAndSwitch(r, cpu, prev)
  BY <1>1
<1> HIDE DEF prev
<1>5. Quiet(s0, a) BY <1>2, ClocksQuiet
<1> HIDE DEF a
<1>6. Quiet(s0, b) BY <1>5, CpuClockQuiet, QuietChain
<1> HIDE DEF b
<1>7. Quiet(s0, m) BY <1>3, <1>6, StoreBackQuiet, QuietChain
<1> HIDE DEF m
<1>8. /\ sched \in SchedState /\ WellFormed(sched) /\ sched.task = task /\ sched.rq = rq
      /\ Placed(sched)
  BY PFacts
<1>9. /\ Touch(sched, m, prev) /\ Queued(m) = Queued(s0) /\ SameCounts(s0, m)
      /\ SameCore(m.task[prev], s0.task[prev])
  BY <1>3, <1>7, <1>8, AfterQuiet
<1>10. m \in SchedState /\ WellFormed(m) /\ Queued(m) = Queued(sched) /\ SameCounts(sched, m)
  BY <1>9 DEF Touch, Step, SameCounts
<1>11. /\ m.task[prev].state = s0.task[prev].state /\ m.task[prev].on_cpu = sched.task[prev].on_cpu
       /\ m.task[prev].cpu = sched.task[prev].cpu
       /\ m.task[prev].allowed = sched.task[prev].allowed
  BY <1>3, <1>8, <1>9 DEF SameCore
<1>12. /\ sched.task[prev].on_cpu /\ prev \notin Queued(sched) /\ prev \in Runnable(sched)
  BY <1>3, <1>8 DEF Placed, PlacedTask, Runnable, Running
<1>13. CASE Rerun(m, cpu, prev, deactivate) /\ Become(m)
  <2>1. ~deactivate BY <1>13 DEF Rerun
  <2>2. sched' = m BY <1>10, <1>13, BecomeSched
  <2>3. sched.task[prev].state \notin {"none", "new"} /\ m.task[prev].state \notin {"none", "new"}
    BY <1>3, <1>8, <1>11, <2>1
  <2>4. Restates(sched, m, prev) BY <1>9, <1>10, <1>11, <1>12, <2>3 DEF Restates
  <2> QED BY <1>3, <2>2, <2>4
<1>14. CASE PickAndSwitch(r, cpu, prev)
  <2> DEFINE fate == Fate(m, prev, deactivate)
  <2>1. deactivate => m.task[prev].state \in {"interruptible", "uninterruptible", "dead"}
    BY <1>3, <1>11
  <2>2. ~deactivate => m.task[prev].state \notin {"none", "new", "dead"} BY <1>3, <1>11
  <2>3. m.task[prev].on_cpu /\ prev \notin Queued(m) BY <1>10, <1>11, <1>12
  <2>4. GivesBack(m, r, prev, fate) BY <1>3, <1>10, <2>1, <2>2, <2>3, GiveBackEffect
  <2>5. fate \in {"ready", "asleep", "gone"} /\ (~deactivate => fate = "ready") BY DEF Fate
  <2> HIDE DEF fate, r
  <2>6. \/ m.task[prev].state = sched.task[prev].state
        \/ fate = "ready" /\ sched.task[prev].state \notin {"none", "new", "dead"}
    BY <1>3, <1>8, <1>11, <2>5
  <2>7. GivesBack(sched, r, prev, fate)
    BY <1>3, <1>8, <1>9, <1>10, <1>11, <2>4, <2>6, GivesBackAfter
  <2>8. r \in SchedState BY <2>7 DEF GivesBack, Touch, Step
  <2> QED BY <1>3, <1>14, <2>5, <2>7, <2>8, PickEffect
<1> QED BY <1>4, <1>13, <1>14

\* schedule(), whoever calls it.
LEMMA ScheduleEffect ==
  ASSUME PInv, NEW cpu \in Cpus, Schedule(cpu)
  PROVE  (\E p \in Tasks : Restates(sched, sched', p)) \/ Switches(sched, sched', cpu)
<1>1. /\ sched \in SchedState /\ WellFormed(sched) /\ sched.task = task /\ sched.rq = rq
  BY PFacts
<1>2. CASE ScheduleFromIdle(cpu)
  <2>1. PICK d \in Advances :
          PickAndSwitch([update_clocks(sched, d) EXCEPT !.rq[cpu].need_resched = FALSE], cpu, Idle)
    BY <1>2 DEF ScheduleFromIdle
  <2> DEFINE a == update_clocks(sched, d)
             r == [a EXCEPT !.rq[cpu].need_resched = FALSE]
  <2>2. d \in Nat BY DEF Advances
  <2>3. Quiet(sched, a) BY <1>1, <2>2, ClocksQuiet
  <2>4. PickAndSwitch(r, cpu, Idle) BY <2>1
  <2> HIDE DEF a
  <2>5. Quiet(sched, r) BY <1>1, <2>3, RqQuiet, QuietChain
  <2> HIDE DEF r
  <2>6. /\ r \in SchedState /\ Queued(r) = Queued(sched) /\ WellFormed(r) /\ SameCounts(sched, r)
        /\ \A p \in Tasks : SameCore(r.task[p], sched.task[p])
    BY <1>1, <2>5, QuietEffect
  <2>7. Touch(sched, r, Idle) BY <2>5, <2>6 DEF Touch, Quiet, Others
  <2>8. Counts(sched, r, 0, 0, 0) BY <1>1, <2>6, CountsType DEF Counts, SameCounts
  <2>9. GivesBack(sched, r, Idle, "gone") BY <2>7, <2>8 DEF GivesBack
  <2>10. Idle = rq[cpu].curr BY <1>2 DEF ScheduleFromIdle
  <2> QED BY <2>4, <2>6, <2>9, <2>10, PickEffect
<1>3. ASSUME rq[cpu].curr \in Tasks, NEW deactivate \in BOOLEAN,
             ScheduleTask(cpu, deactivate, sched),
             deactivate => task[rq[cpu].curr].state \in {"interruptible", "uninterruptible", "dead"},
             ~deactivate => task[rq[cpu].curr].state \notin {"none", "new", "dead"}
      PROVE  Restates(sched, sched', rq[cpu].curr) \/ Switches(sched, sched', cpu)
  <2>1. Touch(sched, sched, rq[cpu].curr) BY <1>1, StepRefl DEF Touch, Others, SameCore
  <2>2. SameCounts(sched, sched) BY DEF SameCounts
  <2> QED BY <1>1, <1>3, <2>1, <2>2, ScheduleTaskEffect
<1>4. CASE ScheduleYield(cpu)
  <2>1. rq[cpu].curr \in Tasks /\ ScheduleTask(cpu, FALSE, sched) /\ task[rq[cpu].curr].state = "running"
    BY <1>4 DEF ScheduleYield
  <2> QED BY <1>3, <2>1
<1>5. CASE SchedulePreempt(cpu)
  <2>1. rq[cpu].curr \in Tasks /\ ScheduleTask(cpu, FALSE, sched) /\ task[rq[cpu].curr].state # "dead"
    BY <1>5 DEF SchedulePreempt
  <2>2. task[rq[cpu].curr].state \notin {"none", "new"}
    BY <1>1, <2>1, PFacts DEF Placed, PlacedTask
  <2> QED BY <1>3, <2>1, <2>2
<1>6. CASE ScheduleSignalPending(cpu)
  <2> DEFINE p  == rq[cpu].curr
             s0 == [sched EXCEPT !.task[p].state = "running"]
  <2>1. /\ p \in Tasks /\ task[p].state = "interruptible" /\ ScheduleTask(cpu, FALSE, s0)
        /\ p = rq[cpu].curr
    BY <1>6 DEF ScheduleSignalPending
  <2>2. "running" \in TaskStates BY DEF TaskStates
  <2> HIDE DEF p
  <2>3. /\ Touch(sched, s0, p) /\ Queued(s0) = Queued(sched) /\ SameCounts(sched, s0)
        /\ s0.task[p].state = "running" /\ s0.task[p].on_cpu = sched.task[p].on_cpu
        /\ s0.task[p].cpu = sched.task[p].cpu /\ s0.task[p].allowed = sched.task[p].allowed
    BY <1>1, <2>1, <2>2, StateWrite
  <2> HIDE DEF s0
  <2>4. s0 \in SchedState BY <2>3 DEF Touch, Step
  <2>5. Restates(sched, sched', p) \/ Switches(sched, sched', cpu)
    BY <1>1, <2>1, <2>3, <2>4, ScheduleTaskEffect
  <2> QED BY <2>1, <2>5
<1>7. CASE ScheduleSleep(cpu)
  <2>1. /\ rq[cpu].curr \in Tasks /\ ScheduleTask(cpu, TRUE, sched)
        /\ task[rq[cpu].curr].state \in {"interruptible", "uninterruptible"}
    BY <1>7 DEF ScheduleSleep
  <2> QED BY <1>3, <2>1
<1>8. CASE ScheduleExit(cpu)
  <2>1. /\ rq[cpu].curr \in Tasks /\ ScheduleTask(cpu, TRUE, sched)
        /\ task[rq[cpu].curr].state = "dead"
    BY <1>8 DEF ScheduleExit
  <2> QED BY <1>3, <2>1
<1> QED BY <1>2, <1>4, <1>5, <1>6, <1>7, <1>8 DEF Schedule
-----------------------------------------------------------------------------
(***************************************************************************)
(* The invariant.                                                          *)
(***************************************************************************)
\* What one step of the scheduler can do.
Effect(s, t) ==
  \/ Quiet(s, t)
  \/ \E p \in Tasks : \/ Restates(s, t, p) \/ Reprios(s, t, p) \/ Rebinds(s, t, p)
                      \/ Wakes(s, t, p) \/ Starts(s, t, p)
                      \/ Forks(s, t, p) /\ MayFork # {}
  \/ \E cpu \in Cpus : Switches(s, t, cpu)

\* Every step of the scheduler is one of these: one case per action.
LEMMA NextEffect == ASSUME PInv, [Next]_vars PROVE Effect(sched, sched')
<1>1. IInv /\ sched \in SchedState BY PFacts
<1>2. ASSUME UNCHANGED <<grq, rq, task>> PROVE Effect(sched, sched')
  <2>1. sched' = sched BY <1>2 DEF sched
  <2>2. Quiet(sched, sched) BY <1>1, QuietRefl
  <2> QED BY <2>1, <2>2 DEF Effect
<1>3. ASSUME NEW cpu \in Cpus, OnCpu(cpu) PROVE Effect(sched, sched')
  <2>1. CASE Schedule(cpu) BY <2>1, ScheduleEffect DEF Effect
  <2>2. CASE \E st \in SleepStates \cup {"running"} : SetCurrentState(cpu, st)
    <3>1. SleepStates \cup {"running"} \subseteq {"running", "interruptible", "uninterruptible"}
      BY AskAssumption
    <3> QED BY <2>2, <3>1, SetCurrentStateEffect DEF Effect
  <2>3. CASE Exit(cpu) BY <2>3, ExitEffect DEF Effect
  <2>4. CASE \E p \in Tasks : SchedFork(cpu, p)
    <3>1. PICK p \in Tasks : SchedFork(cpu, p) BY <2>4
    <3>2. Forks(sched, sched', p) BY <3>1, SchedForkEffect
    <3>3. MayFork # {} BY <3>1 DEF SchedFork
    <3> QED BY <3>2, <3>3 DEF Effect
  <2>5. CASE \E p \in Tasks : WakeUpNewTask(cpu, p) BY <2>5, WakeUpNewTaskEffect DEF Effect
  <2>6. CASE \E from \in Cpus, p \in Tasks : YieldTo(cpu, from, p)
    BY <1>1, <2>6, YieldToQuiet DEF Effect
  <2>7. CASE \E e \in 0 .. 1 : SchedulerTick(cpu, e) BY <1>1, <2>7, SchedulerTickQuiet DEF Effect
  <2>8. CASE IdleTick(cpu) BY <1>1, <2>8, IdleTickQuiet DEF Effect
  <2>9. CASE WakeUpIdleCpu(cpu) BY <1>1, <2>9, WakeUpIdleCpuQuiet DEF Effect
  <2>10. CASE CpuScaling(cpu) BY <1>1, <2>10, CpuScalingQuiet DEF Effect
  <2> QED BY <1>3, <2>1, <2>2, <2>3, <2>4, <2>5, <2>6, <2>7, <2>8, <2>9, <2>10 DEF OnCpu
<1>4. ASSUME NEW p \in Tasks, OnTask(p) PROVE Effect(sched, sched')
  <2>1. CASE \E sync \in SyncAsks : TryToWakeUp(p, sync) BY <2>1, TryToWakeUpEffect DEF Effect
  <2>2. CASE \E waiter \in WaiterPrios : RtMutexSetprio(p, waiter)
    <3>1. WaiterPrios \subseteq 0 .. PRIO_LIMIT BY AskAssumption
    <3> QED BY <2>2, <3>1, RtMutexSetprioEffect DEF Effect
  <2>3. CASE \E nice \in NiceAsks : SetUserNice(p, nice)
    <3>1. NiceAsks \subseteq Nices BY AskAssumption
    <3> QED BY <2>3, <3>1, SetUserNiceEffect DEF Effect
  <2>4. CASE \E ask \in PolicyAsks, reset \in ResetAsks : SchedSetscheduler(p, ask[1], ask[2], reset)
    <3>1. PICK ask \in PolicyAsks, reset \in ResetAsks : SchedSetscheduler(p, ask[1], ask[2], reset)
      BY <2>4
    <3>2. ask[1] \in Policies /\ ask[2] \in RtPrios /\ reset \in BOOLEAN BY AskAssumption
    <3>3. Reprios(sched, sched', p) BY <3>1, <3>2, SchedSetschedulerEffect
    <3> QED BY <3>3 DEF Effect
  <2>5. CASE \E mask \in MaskAsks : SetCpusAllowed(p, mask)
    <3>1. MaskAsks \subseteq (SUBSET Cpus) \ {{}} BY AskAssumption
    <3> QED BY <2>5, <3>1, SetCpusAllowedEffect DEF Effect
  <2> QED BY <1>4, <2>1, <2>2, <2>3, <2>4, <2>5 DEF OnTask
<1>5. CASE \E rate \in RateAsks : WriteGlobalRate(rate) BY <1>2, <1>5 DEF WriteGlobalRate
<1>6. CASE \E ask \in LimitAsks : SearchIdlePid(ask) BY <1>2, <1>6 DEF SearchIdlePid
<1>7. CASE \E w \in inj.writes : UpdateIdlePid(w) BY <1>2, <1>7 DEF UpdateIdlePid
<1>8. CASE UNCHANGED vars BY <1>2, <1>8 DEF vars
<1> QED BY <1>3, <1>4, <1>5, <1>6, <1>7, <1>8 DEF Next

\* And each of them keeps the queue, the places and the counters.
LEMMA EffectKeeps == ASSUME NEW s \in SchedState, NEW t, Effect(s, t), Keeps(s) PROVE Keeps(t)
<1>1. CASE Quiet(s, t) BY <1>1, QuietPlaced DEF Keeps
<1>2. ASSUME NEW p \in Tasks,
             \/ Restates(s, t, p) \/ Reprios(s, t, p) \/ Rebinds(s, t, p)
             \/ Wakes(s, t, p) \/ Forks(s, t, p) \/ Starts(s, t, p)
      PROVE  Keeps(t)
  BY <1>2, RestatesKeeps, RepriosKeeps, RebindsKeeps, WakesKeeps, ForksKeeps, StartsKeeps
<1>3. CASE \E cpu \in Cpus : Switches(s, t, cpu) BY <1>3, SwitchesKeeps
<1> QED BY <1>1, <1>2, <1>3 DEF Effect

\* A state that is kept satisfies the properties.
LEMMA KeepsNext == ASSUME IInv', Keeps(sched') PROVE PInv'
<1>1. PInv' <=> (IInv /\ WellFormed(sched) /\ Placed(sched) /\ Counted(sched))'
  BY PInvSched, PTL
<1>2. (IInv /\ WellFormed(sched) /\ Placed(sched) /\ Counted(sched))'
  BY DEF Keeps
<1> QED BY <1>1, <1>2

\* Every step keeps the invariant.
LEMMA NextPInv == PInv /\ [Next]_vars => PInv'
<1> SUFFICES ASSUME PInv, [Next]_vars PROVE PInv' OBVIOUS
<1>1. IInv /\ sched \in SchedState /\ Keeps(sched) BY PFacts
<1>2. Keeps(sched') BY <1>1, NextEffect, EffectKeeps
<1>3. IInv' BY <1>1, NextInv
<1> QED BY <1>2, <1>3, KeepsNext

\* It holds when nothing is queued and every CPU is idle.
LEMMA InitPInv == Init => PInv
<1> SUFFICES ASSUME Init PROVE PInv OBVIOUS
<1>1. /\ sched.grq = grq /\ sched.rq = rq /\ sched.task = task BY DEF sched
<1>2. /\ \A a \in QueuePrios : grq.queue[a] = <<>>
      /\ grq.prio_bitmap = {} /\ grq.qnr = 0 /\ grq.nr_running = 0 /\ grq.nr_uninterruptible = 0
  BY DEF Init
<1>3. \A c \in Cpus : rq[c].curr = Idle BY DEF Init
<1>4. task = InitTask BY DEF Init
<1>5. Queued(sched) = {}
  <2>1. \A p \in Tasks : ~InQueue(<<>>, p) BY DEF InQueue
  <2> QED BY <1>1, <1>2, <2>1 DEF Queued, task_queued
<1>6. Running(sched) = {} BY <1>1, <1>3, TaskAssumption DEF Running
<1>7. WellFormed(sched) BY <1>1, <1>2 DEF WellFormed, LinkedOnce, OwnList, BitsExact
<1>8. Placed(sched)
  <2> SUFFICES ASSUME NEW p \in Tasks PROVE PlacedTask(sched, p) BY DEF Placed
  <2>1. /\ sched.task[p].state \in {"none", "interruptible"} /\ ~sched.task[p].on_cpu
    BY <1>1, <1>4, InitAssumption
  <2>2. \A c \in Cpus : sched.rq[c].curr # p BY <1>1, <1>3, TaskAssumption
  <2> QED BY <1>5, <2>1, <2>2 DEF PlacedTask
<1>9. Counted(sched)
  <2>1. Blocked(sched) = {} BY <1>1, <1>4, InitAssumption DEF Blocked
  <2>2. Cardinality({}) = 0 BY FS_EmptySet
  <2> QED BY <1>1, <1>2, <1>5, <1>6, <2>1, <2>2 DEF Counted, Runnable
<1> QED BY <1>7, <1>8, <1>9, InitInv, PInvSched

\* The invariant holds throughout.
LEMMA AlwaysPInv == Spec => []PInv
BY InitPInv, NextPInv, PTL DEF Spec

\* The run queue stays well formed: no task is ever linked twice, a queued task is
\* always on the list of the priority it has, and prio_bitmap never misses a list
\* that holds a task nor names an empty one, so that the unchecked list operations
\* of enqueue_task and dequeue_task and the scan of earliest_deadline_task are safe.
THEOREM QueueStaysWellFormed == Spec => []QueueWellFormed
<1>1. PInv => QueueWellFormed BY DEF PInv
<1> QED BY <1>1, AlwaysPInv, PTL

\* No task is ever on two CPUs, or on a CPU and in the queue, none that wants to run
\* is lost, and on_cpu and task_cpu always say where a task runs, whatever the order
\* in which tasks sleep, are woken, are preempted, fork, exit and change priority.
THEOREM OnePlaceHolds == Spec => []OnePlace
<1>1. PInv => OnePlace BY DEF PInv
<1> QED BY <1>1, AlwaysPInv, PTL

\* qnr, nr_running and nr_uninterruptible, which are only ever incremented and
\* decremented, never drift from the tasks they count.
THEOREM CountersExact == Spec => []Counters
<1>1. PInv => Counters BY DEF PInv
<1> QED BY <1>1, AlwaysPInv, PTL
-----------------------------------------------------------------------------
(***************************************************************************)
(* BfsSched implements BfsPool.  The proof is a map from the effects above *)
(* to what a step of the pool can do: one lemma for each effect says how   *)
(* the five variables of the pool change.                                  *)
(***************************************************************************)
\* The variables of the pool, in a state of the scheduler.
Curr(s)     == [c \in Cpus |-> s.rq[c].curr]
Sleeping(s) == {p \in Tasks : s.task[p].state \notin {"none", "new"}} \ Runnable(s)
Created(s)  == {p \in Tasks : s.task[p].state = "new"}
Allowed(s)  == [p \in Tasks |-> s.task[p].allowed]

\* What the steps of the pool keep.
SameCurr(s, t)    == Curr(t) = Curr(s) /\ Running(t) = Running(s)
SameAllowed(s, t) == Allowed(t) = Allowed(s)
SameAwake(s, t)   == Sleeping(t) = Sleeping(s) /\ Created(t) = Created(s)

\* Sets that agree on p and on everything else are equal.
LEMMA SetsAgree ==
  ASSUME NEW S, NEW T, NEW p, S \ {p} = T \ {p}, p \in S <=> p \in T PROVE S = T
<1>1. \A q : q \in S <=> q \in T OBVIOUS
<1> QED BY <1>1

\* A step that touches one task moves no other.
LEMMA TouchView ==
  ASSUME NEW s \in SchedState, NEW t, NEW p \in Tasks, Touch(s, t, p), Placed(s)
  PROVE  /\ SameCurr(s, t)
         /\ Sleeping(t) \ {p} = Sleeping(s) \ {p}
         /\ Created(t) \ {p} = Created(s) \ {p}
         /\ \A q \in Tasks \ {p} : t.task[q].allowed = s.task[q].allowed
<1>1. Running(t) = Running(s) /\ \A c \in Cpus : t.rq[c].curr = s.rq[c].curr BY TouchFacts
<1>2. \A q \in Tasks \ {p} : /\ t.task[q].state = s.task[q].state
                             /\ t.task[q].allowed = s.task[q].allowed
                             /\ q \in Runnable(t) <=> q \in Runnable(s)
  BY <1>1 DEF Touch, Others, SameCore, Runnable
<1> QED BY <1>1, <1>2 DEF SameCurr, Curr, Sleeping, Created

\* Quiet steps are no steps of the pool.
LEMMA QuietView ==
  ASSUME NEW s \in SchedState, NEW t, Quiet(s, t)
  PROVE  SameCurr(s, t) /\ Queued(t) = Queued(s) /\ SameAwake(s, t) /\ SameAllowed(s, t)
<1>1. /\ Queued(t) = Queued(s) /\ \A c \in Cpus : t.rq[c].curr = s.rq[c].curr
      /\ \A p \in Tasks : SameCore(t.task[p], s.task[p])
  BY QuietEffect
<1>2. Running(t) = Running(s) BY <1>1 DEF Running
<1> QED BY <1>1, <1>2
        DEF SameCurr, SameAwake, SameAllowed, Curr, Sleeping, Created, Allowed, Runnable, SameCore

\* Nor is a change of state of a task that is queued or runs.
LEMMA RestatesView ==
  ASSUME NEW s \in SchedState, NEW t, NEW p \in Tasks, Restates(s, t, p), Placed(s)
  PROVE  SameCurr(s, t) /\ Queued(t) = Queued(s) /\ SameAwake(s, t) /\ SameAllowed(s, t)
<1>1. Touch(s, t, p) /\ Queued(t) = Queued(s) BY DEF Restates
<1>2. /\ SameCurr(s, t)
      /\ Sleeping(t) \ {p} = Sleeping(s) \ {p}
      /\ Created(t) \ {p} = Created(s) \ {p}
      /\ \A q \in Tasks \ {p} : t.task[q].allowed = s.task[q].allowed
  BY <1>1, TouchView
<1>3. p \in Runnable(s) /\ p \in Runnable(t) BY <1>2 DEF Restates, Runnable, SameCurr
<1>4. p \notin Sleeping(s) /\ p \notin Sleeping(t) BY <1>3 DEF Sleeping
<1>5. p \notin Created(s) /\ p \notin Created(t) BY DEF Restates, Created
<1>6. SameAllowed(s, t) BY <1>2 DEF Restates, SameAllowed, Allowed
<1> QED BY <1>1, <1>2, <1>4, <1>5, <1>6 DEF SameAwake

\* Nor is a change of priority.
LEMMA RepriosView ==
  ASSUME NEW s \in SchedState, NEW t, NEW p \in Tasks, Reprios(s, t, p), Placed(s)
  PROVE  SameCurr(s, t) /\ Queued(t) = Queued(s) /\ SameAwake(s, t) /\ SameAllowed(s, t)
<1>1. Touch(s, t, p) /\ Queued(t) = Queued(s) BY DEF Reprios
<1>2. /\ SameCurr(s, t)
      /\ Sleeping(t) \ {p} = Sleeping(s) \ {p}
      /\ Created(t) \ {p} = Created(s) \ {p}
      /\ \A q \in Tasks \ {p} : t.task[q].allowed = s.task[q].allowed
  BY <1>1, TouchView
<1>3. t.task[p].state = s.task[p].state /\ t.task[p].allowed = s.task[p].allowed
  BY DEF Reprios, Unmoved
<1>4. p \in Sleeping(t) <=> p \in Sleeping(s)
  BY <1>1, <1>2, <1>3 DEF Sleeping, Runnable, SameCurr
<1>5. p \in Created(t) <=> p \in Created(s) BY <1>3 DEF Created
<1>6. SameAllowed(s, t) BY <1>2, <1>3 DEF SameAllowed, Allowed
<1>7. SameAwake(s, t) BY <1>2, <1>4, <1>5, SetsAgree DEF SameAwake
<1> QED BY <1>1, <1>2, <1>6, <1>7

\* A new affinity is a Rebind of the pool.
LEMMA RebindsView ==
  ASSUME NEW s \in SchedState, NEW t, NEW p \in Tasks, Rebinds(s, t, p), Placed(s)
  PROVE  /\ SameCurr(s, t) /\ Queued(t) = Queued(s) /\ SameAwake(s, t)
         /\ \E mask \in SUBSET Cpus : mask # {} /\ Allowed(t) = [Allowed(s) EXCEPT ![p] = mask]
<1>1. Touch(s, t, p) /\ Queued(t) = Queued(s) BY DEF Rebinds
<1>2. /\ SameCurr(s, t)
      /\ Sleeping(t) \ {p} = Sleeping(s) \ {p}
      /\ Created(t) \ {p} = Created(s) \ {p}
      /\ \A q \in Tasks \ {p} : t.task[q].allowed = s.task[q].allowed
  BY <1>1, TouchView
<1>3. t.task[p].state = s.task[p].state BY DEF Rebinds
<1>4. p \in Sleeping(t) <=> p \in Sleeping(s)
  BY <1>1, <1>2, <1>3 DEF Sleeping, Runnable, SameCurr
<1>5. p \in Created(t) <=> p \in Created(s) BY <1>3 DEF Created
<1>6. Allowed(t) = [Allowed(s) EXCEPT ![p] = t.task[p].allowed] BY <1>2 DEF Allowed
<1>7. t.task[p].allowed \in SUBSET Cpus /\ t.task[p].allowed # {} BY DEF Rebinds
<1>8. SameAwake(s, t) BY <1>2, <1>4, <1>5, SetsAgree DEF SameAwake
<1> QED BY <1>1, <1>2, <1>6, <1>7, <1>8

\* try_to_wake_up is a Wake of the pool.
LEMMA WakesView ==
  ASSUME NEW s \in SchedState, NEW t, NEW p \in Tasks, Wakes(s, t, p), Placed(s)
  PROVE  /\ SameCurr(s, t) /\ Queued(t) = Queued(s) \cup {p} /\ p \in Sleeping(s)
         /\ Sleeping(t) = Sleeping(s) \ {p} /\ Created(t) = Created(s) /\ SameAllowed(s, t)
<1>1. Touch(s, t, p) /\ Queued(t) = Queued(s) \cup {p} BY DEF Wakes
<1>2. /\ SameCurr(s, t)
      /\ Sleeping(t) \ {p} = Sleeping(s) \ {p}
      /\ Created(t) \ {p} = Created(s) \ {p}
      /\ \A q \in Tasks \ {p} : t.task[q].allowed = s.task[q].allowed
  BY <1>1, TouchView
<1>3. p \in Sleeping(s) /\ p \notin Sleeping(t) BY <1>1 DEF Wakes, Sleeping, Runnable
<1>4. p \notin Created(s) /\ p \notin Created(t) BY DEF Wakes, Created
<1>5. SameAllowed(s, t) BY <1>2 DEF Wakes, SameAllowed, Allowed
<1> QED BY <1>1, <1>2, <1>3, <1>4, <1>5

\* sched_fork is a Create of the pool.
LEMMA ForksView ==
  ASSUME NEW s \in SchedState, NEW t, NEW p \in Tasks, Forks(s, t, p), Placed(s)
  PROVE  /\ SameCurr(s, t) /\ Queued(t) = Queued(s) /\ Sleeping(t) = Sleeping(s)
         /\ p \notin Runnable(s) \cup Sleeping(s) \cup Created(s)
         /\ Created(t) = Created(s) \cup {p}
         /\ \E parent \in Running(s) : Allowed(t) = [Allowed(s) EXCEPT ![p] = Allowed(s)[parent]]
<1>1. Touch(s, t, p) /\ Queued(t) = Queued(s) BY DEF Forks
<1>2. /\ SameCurr(s, t)
      /\ Sleeping(t) \ {p} = Sleeping(s) \ {p}
      /\ Created(t) \ {p} = Created(s) \ {p}
      /\ \A q \in Tasks \ {p} : t.task[q].allowed = s.task[q].allowed
  BY <1>1, TouchView
<1>3. p \notin Runnable(s)
  <2>1. PlacedTask(s, p) /\ (s.task[p].on_cpu <=> p \in Running(s)) BY <1>1, TouchFacts
  <2> QED BY <2>1 DEF Forks, PlacedTask, Runnable
<1>4. p \notin Sleeping(s) /\ p \notin Sleeping(t) BY DEF Forks, Sleeping
<1>5. p \notin Created(s) /\ p \in Created(t) BY DEF Forks, Created
<1>6. PICK parent \in Running(s) : t.task[p].allowed = s.task[parent].allowed BY DEF Forks
<1>7. parent \in Tasks BY DEF Running
<1>8. Allowed(t) = [Allowed(s) EXCEPT ![p] = Allowed(s)[parent]] BY <1>2, <1>6, <1>7 DEF Allowed
<1>9. Created(t) = Created(s) \cup {p} BY <1>2, <1>5
<1>10. Sleeping(t) = Sleeping(s) BY <1>2, <1>4, SetsAgree
<1>11. p \notin Runnable(s) \cup Sleeping(s) \cup Created(s) BY <1>3, <1>4, <1>5
<1> QED BY <1>1, <1>2, <1>8, <1>9, <1>10, <1>11

\* wake_up_new_task is a Start of the pool.
LEMMA StartsView ==
  ASSUME NEW s \in SchedState, NEW t, NEW p \in Tasks, Starts(s, t, p), Placed(s)
  PROVE  /\ SameCurr(s, t) /\ Queued(t) = Queued(s) \cup {p} /\ p \in Created(s)
         /\ Created(t) = Created(s) \ {p} /\ Sleeping(t) = Sleeping(s) /\ SameAllowed(s, t)
<1>1. Touch(s, t, p) /\ Queued(t) = Queued(s) \cup {p} BY DEF Starts
<1>2. /\ SameCurr(s, t)
      /\ Sleeping(t) \ {p} = Sleeping(s) \ {p}
      /\ Created(t) \ {p} = Created(s) \ {p}
      /\ \A q \in Tasks \ {p} : t.task[q].allowed = s.task[q].allowed
  BY <1>1, TouchView
<1>3. p \notin Sleeping(s) /\ p \notin Sleeping(t) BY <1>1 DEF Starts, Sleeping, Runnable
<1>4. p \in Created(s) /\ p \notin Created(t) BY DEF Starts, Created
<1>5. SameAllowed(s, t) BY <1>2 DEF Starts, SameAllowed, Allowed
<1> QED BY <1>1, <1>2, <1>3, <1>4, <1>5
-----------------------------------------------------------------------------
\* schedule() is a Switch of the pool.
LEMMA SwitchesView ==
  ASSUME NEW s \in SchedState, NEW r \in SchedState, NEW t, NEW cpu \in Cpus, NEW fate,
         GivesBack(s, r, s.rq[cpu].curr, fate), Takes(r, t, cpu), Placed(s)
  PROVE  LET prev == {Curr(s)[cpu]} \cap Tasks
             next == t.rq[cpu].curr
             pool == Queued(s) \cup (IF fate = "ready" THEN prev ELSE {})
         IN  /\ Sleeping(t) = Sleeping(s) \cup (IF fate = "asleep" THEN prev ELSE {})
             /\ next \in pool \cup {Idle}
             /\ next \in Tasks => cpu \in Allowed(s)[next]
             /\ Curr(t) = [Curr(s) EXCEPT ![cpu] = next]
             /\ Queued(t) = pool \ {next}
             /\ Created(t) = Created(s) /\ SameAllowed(s, t)
<1> DEFINE prev == s.rq[cpu].curr
           next == t.rq[cpu].curr
           was  == {Curr(s)[cpu]} \cap Tasks
           pool == Queued(s) \cup (IF fate = "ready" THEN was ELSE {})
<1>1. \A c \in Cpus : r.rq[c].curr = s.rq[c].curr BY DEF GivesBack, Touch, Step
<1>2. /\ next \in Queued(r) \cup {Idle} /\ (next \in Tasks => cpu \in r.task[next].allowed)
      /\ Queued(t) = Queued(r) \ {next}
      /\ \A c \in Cpus \ {cpu} : t.rq[c].curr = s.rq[c].curr
      /\ \A p \in Tasks : t.task[p].state = r.task[p].state /\ t.task[p].allowed = r.task[p].allowed
  BY <1>1 DEF Takes
<1>3. Queued(r) \ {prev} = Queued(s) \ {prev} /\ Others(s, r, prev) BY DEF GivesBack, Touch
<1>4. Queued(s) \subseteq Tasks /\ Queued(r) \subseteq Tasks /\ Idle \notin Tasks
  BY TaskAssumption DEF Queued
<1>5. prev \in Tasks => prev \notin Queued(s) /\ prev \in Running(s)
  BY DEF Placed, PlacedTask, Running
<1>6. \A c \in Cpus : c # cpu /\ s.rq[c].curr \in Tasks => s.rq[c].curr # prev
  BY DEF Placed, PlacedTask
<1>7. prev \in Tasks \cup {Idle} BY StateParts, RqFields
<1>8. next = t.rq[cpu].curr /\ prev = s.rq[cpu].curr /\ was = {prev} \cap Tasks BY DEF Curr
<1>9. prev \in Tasks =>
        /\ r.task[prev].allowed = s.task[prev].allowed
        /\ fate = "ready" <=> prev \in Queued(r)
        /\ fate = "ready" => r.task[prev].state # "new" /\ s.task[prev].state # "new"
        /\ fate # "ready" => r.task[prev].state # "new" /\ s.task[prev].state # "new"
        /\ fate = "asleep" => r.task[prev].state \notin {"none", "new"}
        /\ fate \notin {"ready", "asleep"} => r.task[prev].state = "none"
  BY <1>4 DEF GivesBack
<1> HIDE DEF prev, next, was
<1>10. Queued(r) = pool
  <2>1. \A q : q \in Queued(r) <=> q \in pool
    <3> TAKE q
    <3>1. CASE q # prev BY <1>3, <1>8, <3>1
    <3>2. CASE q = prev BY <1>4, <1>5, <1>7, <1>8, <1>9, <3>2
    <3> QED BY <3>1, <3>2
  <2> QED BY <2>1
<1> HIDE DEF pool
<1>11. \A p \in Tasks : r.task[p].allowed = s.task[p].allowed
  BY <1>3, <1>9 DEF Others, SameCore
<1>12. Curr(t) = [Curr(s) EXCEPT ![cpu] = next] BY <1>2, <1>8 DEF Curr
<1>13. next \in Tasks => cpu \in Allowed(s)[next] BY <1>2, <1>11 DEF Allowed
<1>14. SameAllowed(s, t) BY <1>2, <1>11 DEF SameAllowed, Allowed
<1>15. \A q \in Tasks \ {prev} : /\ t.task[q].state = s.task[q].state
                                 /\ q \in Runnable(t) <=> q \in Runnable(s)
  <2>1. \A q \in Tasks \ {prev} : t.task[q].state = s.task[q].state
    BY <1>2, <1>3 DEF Others, SameCore
  <2>2. \A q \in Tasks \ {prev} : q \in Running(t) <=> q = next \/ q \in Running(s)
    BY <1>2, <1>8 DEF Running
  <2>3. \A q \in Tasks \ {prev} : q \in Queued(t) <=> q \in Queued(s) /\ q # next
    BY <1>2, <1>3
  <2>4. next \in Tasks \ {prev} => next \in Queued(s) BY <1>2, <1>3, <1>4
  <2> QED BY <2>1, <2>2, <2>3, <2>4 DEF Runnable
<1>16. prev \in Tasks => (prev \in Runnable(t) <=> fate = "ready")
  <2> HAVE prev \in Tasks
  <2>1. prev \in Running(t) <=> prev = next BY <1>2, <1>6, <1>8 DEF Running
  <2>2. prev = next => prev \in Queued(r) BY <1>2, <1>4
  <2> QED BY <1>2, <1>9, <2>1, <2>2 DEF Runnable
<1>17. Created(t) = Created(s)
  <2>1. \A q \in Tasks : t.task[q].state = "new" <=> s.task[q].state = "new"
    BY <1>2, <1>9, <1>15
  <2> QED BY <2>1 DEF Created
<1>18. Sleeping(t) = Sleeping(s) \cup (IF fate = "asleep" THEN was ELSE {})
  <2> SUFFICES ASSUME NEW q \in Tasks
               PROVE  q \in Sleeping(t) <=> q \in Sleeping(s) \/ (fate = "asleep" /\ q \in was)
    BY <1>8 DEF Sleeping
  <2>1. CASE q # prev BY <1>8, <1>15, <2>1 DEF Sleeping
  <2>2. CASE q = prev
    <3>1. q \notin Sleeping(s) BY <1>5, <2>2 DEF Sleeping, Runnable
    <3>2. q \in was BY <1>8, <2>2
    <3>3. q \in Sleeping(t) <=> fate = "asleep" BY <1>2, <1>9, <1>16, <2>2 DEF Sleeping
    <3> QED BY <3>1, <3>2, <3>3
  <2> QED BY <2>1, <2>2
<1> QED BY <1>2, <1>8, <1>10, <1>12, <1>13, <1>14, <1>17, <1>18 DEF pool, was, next
-----------------------------------------------------------------------------
\* The variables the pool is given in BfsSched are the ones defined here.
LEMMA View ==
  /\ [c \in Cpus |-> rq[c].curr] = Curr(sched)
  /\ QueuedTasks = Queued(sched)
  /\ SleepingTasks = Sleeping(sched)
  /\ {p \in Tasks : task[p].state = "new"} = Created(sched)
  /\ [p \in Tasks |-> task[p].allowed] = Allowed(sched)
<1>1. sched.task = task /\ sched.rq = rq BY DEF sched
<1>2. QueuedTasks = Queued(sched) BY DEF QueuedTasks, Queued
<1>3. RunningTasks = Running(sched) BY <1>1 DEF RunningTasks, Running
<1>4. SleepingTasks = Sleeping(sched)
  BY <1>1, <1>2, <1>3 DEF SleepingTasks, LiveTasks, Sleeping, Runnable
<1> QED BY <1>1, <1>2, <1>4 DEF Curr, Created, Allowed

\* In the next state too.
LEMMA NextView ==
  /\ [c \in Cpus |-> rq'[c].curr] = Curr(sched')
  /\ QueuedTasks' = Queued(sched')
  /\ SleepingTasks' = Sleeping(sched')
  /\ {p \in Tasks : task'[p].state = "new"} = Created(sched')
  /\ [p \in Tasks |-> task'[p].allowed] = Allowed(sched')
<1>1. (/\ [c \in Cpus |-> rq[c].curr] = Curr(sched)
       /\ QueuedTasks = Queued(sched)
       /\ SleepingTasks = Sleeping(sched)
       /\ {p \in Tasks : task[p].state = "new"} = Created(sched)
       /\ [p \in Tasks |-> task[p].allowed] = Allowed(sched))'
  BY View, PTL
<1> QED BY <1>1

\* A step of the scheduler is a step of the pool or leaves the pool alone.
LEMMA PoolStep == PInv /\ [Next]_vars => [Pool!Next]_(Pool!vars)
<1> SUFFICES ASSUME PInv, [Next]_vars PROVE [Pool!Next]_(Pool!vars) OBVIOUS
<1> DEFINE s == sched
           t == sched'
<1>1. s \in SchedState /\ Placed(s) BY PFacts
<1>2. Effect(s, t) BY NextEffect
<1>3. /\ [c \in Cpus |-> rq[c].curr] = Curr(s) /\ QueuedTasks = Queued(s)
      /\ SleepingTasks = Sleeping(s) /\ {p \in Tasks : task[p].state = "new"} = Created(s)
      /\ [p \in Tasks |-> task[p].allowed] = Allowed(s)
  BY View
<1>4. /\ [c \in Cpus |-> rq'[c].curr] = Curr(t) /\ QueuedTasks' = Queued(t)
      /\ SleepingTasks' = Sleeping(t) /\ {p \in Tasks : task'[p].state = "new"} = Created(t)
      /\ [p \in Tasks |-> task'[p].allowed] = Allowed(t)
  BY NextView
<1> HIDE DEF s, t
<1>5. ASSUME SameCurr(s, t), Queued(t) = Queued(s), SameAwake(s, t), SameAllowed(s, t)
      PROVE  UNCHANGED Pool!vars
  BY <1>3, <1>4, <1>5 DEF Pool!vars, SameCurr, SameAwake, SameAllowed
<1>6. CASE Quiet(s, t) BY <1>1, <1>5, <1>6, QuietView
<1>7. ASSUME NEW p \in Tasks,
             \/ Restates(s, t, p) \/ Reprios(s, t, p) \/ Rebinds(s, t, p)
             \/ Wakes(s, t, p) \/ Forks(s, t, p) \/ Starts(s, t, p)
      PROVE  [Pool!Next]_(Pool!vars)
  <2>1. CASE Restates(s, t, p) BY <1>1, <1>5, <2>1, RestatesView
  <2>2. CASE Reprios(s, t, p) BY <1>1, <1>5, <2>2, RepriosView
  <2>3. CASE Rebinds(s, t, p)
    <3>1. /\ SameCurr(s, t) /\ Queued(t) = Queued(s) /\ SameAwake(s, t)
          /\ \E mask \in SUBSET Cpus : mask # {} /\ Allowed(t) = [Allowed(s) EXCEPT ![p] = mask]
      BY <1>1, <2>3, RebindsView
    <3>2. Pool!Rebind(p) BY <1>3, <1>4, <3>1 DEF Pool!Rebind, SameCurr, SameAwake
    <3> QED BY <3>2 DEF Pool!Next
  <2>4. CASE Wakes(s, t, p)
    <3>1. /\ SameCurr(s, t) /\ Queued(t) = Queued(s) \cup {p} /\ p \in Sleeping(s)
          /\ Sleeping(t) = Sleeping(s) \ {p} /\ Created(t) = Created(s) /\ SameAllowed(s, t)
      BY <1>1, <2>4, WakesView
    <3>2. Pool!Wake(p) BY <1>3, <1>4, <3>1 DEF Pool!Wake, SameCurr, SameAllowed
    <3> QED BY <3>2 DEF Pool!Next
  <2>5. CASE Forks(s, t, p)
    <3>1. /\ SameCurr(s, t) /\ Queued(t) = Queued(s) /\ Sleeping(t) = Sleeping(s)
          /\ p \notin Runnable(s) \cup Sleeping(s) \cup Created(s)
          /\ Created(t) = Created(s) \cup {p}
          /\ \E parent \in Running(s) : Allowed(t) = [Allowed(s) EXCEPT ![p] = Allowed(s)[parent]]
      BY <1>1, <2>5, ForksView
    <3>2. Pool!Busy = Running(s) BY <1>3 DEF Pool!Busy, Running, Curr
    <3>3. p \in Pool!Free BY <1>3, <3>1, <3>2 DEF Pool!Free, Runnable
    <3>4. Pool!Create(p) BY <1>3, <1>4, <3>1, <3>2, <3>3 DEF Pool!Create, SameCurr
    <3> QED BY <3>4 DEF Pool!Next
  <2>6. CASE Starts(s, t, p)
    <3>1. /\ SameCurr(s, t) /\ Queued(t) = Queued(s) \cup {p} /\ p \in Created(s)
          /\ Created(t) = Created(s) \ {p} /\ Sleeping(t) = Sleeping(s) /\ SameAllowed(s, t)
      BY <1>1, <2>6, StartsView
    <3>2. Pool!Start(p) BY <1>3, <1>4, <3>1 DEF Pool!Start, SameCurr, SameAllowed
    <3> QED BY <3>2 DEF Pool!Next
  <2> QED BY <1>7, <2>1, <2>2, <2>3, <2>4, <2>5, <2>6
<1>8. ASSUME NEW cpu \in Cpus, Switches(s, t, cpu) PROVE [Pool!Next]_(Pool!vars)
  <2>1. PICK r \in SchedState, fate \in {"ready", "asleep", "gone"} :
          GivesBack(s, r, s.rq[cpu].curr, fate) /\ Takes(r, t, cpu)
    BY <1>8 DEF Switches
  <2> DEFINE was  == {Curr(s)[cpu]} \cap Tasks
             next == t.rq[cpu].curr
             pool == Queued(s) \cup (IF fate = "ready" THEN was ELSE {})
  <2>2. /\ Sleeping(t) = Sleeping(s) \cup (IF fate = "asleep" THEN was ELSE {})
        /\ next \in pool \cup {Idle}
        /\ next \in Tasks => cpu \in Allowed(s)[next]
        /\ Curr(t) = [Curr(s) EXCEPT ![cpu] = next]
        /\ Queued(t) = pool \ {next}
        /\ Created(t) = Created(s) /\ SameAllowed(s, t)
    BY <1>1, <2>1, SwitchesView
  <2> HIDE DEF next
  <2>3. Pool!Switch(cpu) BY <1>3, <1>4, <2>2 DEF Pool!Switch, SameAllowed
  <2> QED BY <2>3 DEF Pool!Next
<1> QED BY <1>2, <1>6, <1>7, <1>8 DEF Effect

\* It starts where the pool may start.
LEMMA PoolInit == Init => Pool!Init
<1> SUFFICES ASSUME Init PROVE Pool!Init OBVIOUS
<1>1. [c \in Cpus |-> rq[c].curr] = [c \in Cpus |-> Idle] BY DEF Init
<1>2. task = InitTask BY DEF Init
<1>3. QueuedTasks = {}
  <2>1. \A p \in Tasks : ~InQueue(<<>>, p) BY DEF InQueue
  <2>2. \A a \in QueuePrios : sched.grq.queue[a] = <<>> BY DEF Init, sched
  <2> QED BY <2>1, <2>2 DEF QueuedTasks, task_queued
<1>4. SleepingTasks \subseteq Tasks BY DEF SleepingTasks, LiveTasks
<1>5. {p \in Tasks : task[p].state = "new"} = {} BY <1>2, InitAssumption
<1>6. [p \in Tasks |-> task[p].allowed] \in [Tasks -> SUBSET Cpus]
  <2>1. \A p \in Tasks : task[p].allowed \in SUBSET Cpus BY <1>2, InitAssumption, TaskFields
  <2> QED BY <2>1
<1> QED BY <1>1, <1>3, <1>4, <1>5, <1>6 DEF Pool!Init

\* The scheduler implements the pool: whatever the priorities, deadlines, sticky
\* flags, idle injection and races of its handlers do, a CPU only ever takes a task
\* that waits for a CPU and may run there, the task it gives up waits, sleeps or is
\* gone, and no other step takes a task away from a CPU.
THEOREM SchedImplementsPool == Spec => ImplementsPool
<1>1. Spec => Pool!Init /\ [][Pool!Next]_(Pool!vars)
  BY PoolInit, PoolStep, AlwaysPInv, PTL DEF Spec
<1> QED BY <1>1 DEF ImplementsPool, Pool!Spec
=============================================================================
