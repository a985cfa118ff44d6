------------------------------ MODULE HrmGroup ------------------------------
(***************************************************************************)
(* The Heart Rate Monitor: groups of producers and consumers               *)
(* (kernel/hrm.c), the files in /proc/<tid> through which a task joins,    *)
(* maps and leaves a group (fs/proc/hrm.c), the library that uses them     *)
(* (tools/libhrm/hrm.c), and what fork and exit do (kernel/fork.c,         *)
(* kernel/exit.c).                                                         *)
(*                                                                         *)
(* A task only ever acts for itself (every file operation refuses a task   *)
(* other than current), so the interleavings are those of different tasks  *)
(* and of the timer of each group.  hrm_groups_lock is a variable, since   *)
(* it is held over several steps.  A critical section of members_lock, or  *)
(* of goal_lock, is one step.  What a task does to the bitmap and to the   *)
(* history outside members_lock is split into loads and stores.            *)
(*                                                                         *)
(* A group is kept under its gid: a new one of the same gid can only be    *)
(* made once the old one is off hrm_groups, freed, and the lock released.  *)
(***************************************************************************)
EXTENDS HrmWindow, FiniteSetsExt

CONSTANTS
  Tasks,        \* the tasks that use HRM
  NoTask,       \* nobody, as holder of hrm_groups_lock or owner of a slot
  Tgid,         \* task->tgid, the process of each task
  Gids,         \* the group numbers in use
  HRM_GROUP_SIZE, \* counter slots of a group
  MayProduce,   \* the tasks that attach as producers
  MayConsume,   \* the tasks that attach as consumers
  MayDetach,    \* the tasks that call hrm_detach
  MayExit,      \* the tasks that may exit
  MapFails,     \* whether an mmap may fail, a set of Booleans
  WindowAsks,   \* the window sizes asked for
  Periods,      \* what a timer period adds to the clock, in units (0: less than one)
  MaxCount,     \* bound: heartbeats in one slot
  MaxHistory,   \* bound: no task joins a group whose history is above this
  MaxTime       \* bound: the clock goes no further

Roles    == {"producer", "consumer"}
Slots    == 0 .. HRM_GROUP_SIZE - 1
Memories == {"counters", "measures_goal"}
Pids     == {Tgid[t] : t \in Tasks}

ASSUME HrmAssumption ==
  /\ IsFiniteSet(Tasks) /\ NoTask \notin Tasks
  /\ Tgid \in [Tasks -> Nat \ {0}]
  /\ Gids \subseteq Nat \ {0}
  /\ HRM_GROUP_SIZE \in Nat \ {0}
  /\ MayProduce \subseteq Tasks /\ MayConsume \subseteq Tasks
  /\ MayDetach \subseteq Tasks /\ MayExit \subseteq Tasks
  /\ MapFails \subseteq BOOLEAN
  /\ WindowAsks \subseteq Nat \ {0} /\ IsFiniteSet(WindowAsks)
  /\ Periods \subseteq Nat
  /\ MaxCount \in Nat /\ MaxHistory \in Nat /\ MaxTime \in Nat \ {0}

VARIABLES
  group,      \* struct hrm_group by gid
  joined,     \* task->hrm_producers and task->hrm_consumers: gids, newest first
  mapped,     \* the user addresses in each membership of a task: what it has mapped
  loc,        \* where each task is, and its local variables
  lock,       \* the holder of hrm_groups_lock
  now,        \* getrawmonotonic
  beats,      \* history variable: heartbeats sent to the group as it is now
  samples     \* history variable: the last samples of the group, newest first

vars == <<group, joined, mapped, loc, lock, now, beats, samples>>

Counter == [tid: Tasks \cup {NoTask}, used: BOOLEAN, counter: Nat]

GroupRec ==
  [state: {"none", "listed", "unlisted"},  \* unlisted: not yet, or no longer, on hrm_groups
   allocation: SUBSET Slots, counters: [Slots -> Counter], slot: [Tasks -> Slots],
   history: Nat, ring: Ring, measures: Measures, goal: Goal, timestamp: Nat,
   armed: BOOLEAN, running: BOOLEAN,       \* the hrtimer is queued, its callback runs
   members: [Roles -> SUBSET Tasks],
   maps: [Memories -> [Pids -> Nat]]]      \* references of each process, 0: no entry

NoGroup ==
  [state |-> "none", allocation |-> {}, slot |-> [t \in Tasks |-> 0],
   counters |-> [k \in Slots |-> [tid |-> NoTask, used |-> FALSE, counter |-> 0]],
   history |-> 0, ring |-> EmptyRing, measures |-> NoMeasures, goal |-> NoGoal,
   timestamp |-> 0, armed |-> FALSE, running |-> FALSE,
   members |-> [r \in Roles |-> {}],
   maps |-> [m \in Memories |-> [p \in Pids |-> 0]]]

LocRec ==
  [pc: {"user", "alloc", "map_counters", "map_goal", "fold", "release", "unlink", "destroy",
        "exit", "dead", "set_goal", "del_window"},
   gid: Gids \cup {0}, role: Roles,
   exiting: BOOLEAN,         \* leaving all groups, in do_exit
   value: Nat,               \* the sum to be stored in history.history
   word: SUBSET Slots,       \* counters_allocation as loaded
   size: Nat]                \* a window size

AtUser == [pc |-> "user", gid |-> 0, role |-> "producer", exiting |-> FALSE,
           value |-> 0, word |-> {}, size |-> 0]

TypeOK ==
  /\ group \in [Gids -> GroupRec]
  /\ joined \in [Tasks -> [Roles -> Seq(Gids)]]
  /\ mapped \in [Tasks -> [Roles -> [Gids -> SUBSET Memories]]]
  /\ loc \in [Tasks -> LocRec]
  /\ lock \in Tasks \cup {NoTask}
  /\ now \in Nat \ {0}
  /\ beats \in [Gids -> Nat]
  /\ samples \in [Gids -> Seq(Sample)]

Init ==
  /\ group = [g \in Gids |-> NoGroup]
  /\ joined = [t \in Tasks |-> [r \in Roles |-> <<>>]]
  /\ mapped = [t \in Tasks |-> [r \in Roles |-> [g \in Gids |-> {}]]]
  /\ loc = [t \in Tasks |-> AtUser]
  /\ lock = NoTask
  /\ now = 1
  /\ beats = [g \in Gids |-> 0]
  /\ samples = [g \in Gids |-> <<>>]
-----------------------------------------------------------------------------
Goto(t, l) == loc' = [loc EXCEPT ![t] = l]

Joined(t, g, role) == \E i \in DOMAIN joined[t][role] : joined[t][role][i] = g

Without(list, g) ==
  LET i == CHOOSE i \in DOMAIN list : list[i] = g
  IN  [j \in 1 .. Len(list) - 1 |-> IF j < i THEN list[j] ELSE list[j + 1]]

\* producer->counter_index
SlotOf(t, g) == group[g].slot[t]
-----------------------------------------------------------------------------
(***************************************************************************)
(* Joining a group: hrm_attach writes the gid to hrm_<role>_group.         *)
(***************************************************************************)
\* __hrm_create_group, if __hrm_find_group finds none.
FindOrCreate(g) == IF group[g].state = "none" THEN [NoGroup EXCEPT !.state = "unlisted"]
                   ELSE group[g]

\* Mutant: only the task that creates a group starts its timer.
StartTimer_Creator(gr) ==
  IF gr.timestamp = 0 /\ gr.state = "unlisted"
  THEN [gr EXCEPT !.timestamp = now, !.ring = StartedRing, !.armed = TRUE]
  ELSE gr

\* The first producer of a group sets its timestamp and starts its timer.
StartTimer(gr) ==
  IF gr.timestamp = 0
  THEN [gr EXCEPT !.timestamp = now, !.ring = StartedRing, !.armed = TRUE]
  ELSE gr

\* Mutant: a slot is taken and not marked.
ClaimSlot_Unmarked(gr, t, k, word) ==
  [gr EXCEPT !.allocation = word, !.slot[t] = k,
             !.counters[k].tid = t, !.counters[k].used = TRUE]

\* The store of bitmap_find_free_region and the producer's own slot.  The count
\* in the slot stays as the last owner left it.
ClaimSlot(gr, t, k, word) ==
  [gr EXCEPT !.allocation = word \cup {k}, !.slot[t] = k,
             !.counters[k].tid = t, !.counters[k].used = TRUE]

\* hrm_add_producer_task_to_group takes the lock, finds or makes the group, finds
\* a free slot and loads the word of the bitmap.
AddProducer(t, g) ==
  LET gr   == FindOrCreate(g)
      free == Slots \ gr.allocation
  IN  /\ loc[t].pc = "user"
      /\ t \in MayProduce
      /\ ~Joined(t, g, "producer")
      /\ lock = NoTask
      /\ gr.history <= MaxHistory
      /\ free # {}
      /\ group' = [group EXCEPT ![g] = [gr EXCEPT !.slot[t] = FirstIn(free)]]
      /\ lock' = t
      /\ Goto(t, [AtUser EXCEPT !.pc = "alloc", !.gid = g, !.word = gr.allocation])
      /\ UNCHANGED <<joined, mapped, now, beats, samples>>

\* The rest of it: the bitmap is stored, the producer is linked under members_lock,
\* the group is started if it has not been, and the lock is released.
LinkProducer(t) ==
  LET g      == loc[t].gid
      gr     == ClaimSlot(group[g], t, SlotOf(t, g), loc[t].word)
      linked == [gr EXCEPT !.members["producer"] = @ \cup {t}]
  IN  /\ loc[t].pc = "alloc"
      /\ group' = [group EXCEPT ![g] = [StartTimer(linked) EXCEPT !.state = "listed"]]
      /\ samples' = IF linked.timestamp = 0 THEN [samples EXCEPT ![g] = <<NoSample>>] ELSE samples
      /\ joined' = [joined EXCEPT ![t]["producer"] = <<g>> \o @]
      /\ lock' = NoTask
      /\ Goto(t, [AtUser EXCEPT !.pc = "map_counters", !.gid = g])
      /\ UNCHANGED <<mapped, now, beats>>

\* hrm_add_consumer_task_to_group: one critical section of hrm_groups_lock.
AddConsumer(t, g) ==
  LET gr == FindOrCreate(g)
  IN  /\ loc[t].pc = "user"
      /\ t \in MayConsume
      /\ ~Joined(t, g, "consumer")
      /\ lock = NoTask
      /\ group' = [group EXCEPT ![g] =
                     [gr EXCEPT !.members["consumer"] = @ \cup {t}, !.state = "listed"]]
      /\ joined' = [joined EXCEPT ![t]["consumer"] = <<g>> \o @]
      /\ Goto(t, [AtUser EXCEPT !.pc = "map_counters", !.gid = g, !.role = "consumer"])
      /\ UNCHANGED <<mapped, lock, now, beats, samples>>
-----------------------------------------------------------------------------
(***************************************************************************)
(* Leaving groups: a negative gid written by hrm_detach, or do_exit.       *)
(***************************************************************************)
\* Mutant: the heartbeats of a producer go with it.
Leaving_NoFold(t, g, role, exiting) ==
  [AtUser EXCEPT !.pc = IF role = "producer" THEN "fold" ELSE "unlink",
                 !.gid = g, !.role = role, !.exiting = exiting,
                 !.value = IF role = "producer" THEN group[g].history ELSE 0]

\* Where a task starts to leave group g: a producer has loaded its counter and
\* the history it is added to.
Leaving(t, g, role, exiting) ==
  [AtUser EXCEPT !.pc = IF role = "producer" THEN "fold" ELSE "unlink",
                 !.gid = g, !.role = role, !.exiting = exiting,
                 !.value = IF role = "producer"
                           THEN group[g].history + group[g].counters[SlotOf(t, g)].counter
                           ELSE 0]

\* Mutant: the reference of a task that leaves is kept.
PutMap_Kept(maps, p) == maps

\* Mutant: a process without an entry is not told apart.
PutMap_NoSearch(maps, p) == [maps EXCEPT ![p] = @ - 1]

\* __hrm_put_group_memory_map, of one memory: the entry goes with its last
\* reference, and a process without an entry gets -ESRCH.
PutMap(maps, p) == [maps EXCEPT ![p] = IF @ > 0 THEN @ - 1 ELSE 0]

\* hrm_delete_producer_task_from_group up to the load of the history.
BeginLeave(t, g, role) ==
  /\ Goto(t, Leaving(t, g, role, FALSE))
  /\ group' = IF role = "producer"
              THEN [group EXCEPT ![g].counters[SlotOf(t, g)].used = FALSE]
              ELSE group

\* hrm_detach opens the file of the thread whose id is in the counter it maps: its
\* own slot for a producer, the first slot for a consumer.
Detach(t, g, role) ==
  LET k == IF role = "producer" THEN SlotOf(t, g) ELSE 0
  IN  /\ loc[t].pc = "user"
      /\ t \in MayDetach
      /\ Joined(t, g, role)
      /\ group[g].counters[k].tid = t
      /\ BeginLeave(t, g, role)
      /\ UNCHANGED <<joined, mapped, lock, now, beats, samples>>

\* The sum is stored to the history, and the bitmap loaded to release the slot.
Fold(t) ==
  LET g == loc[t].gid
  IN  /\ loc[t].pc = "fold"
      /\ group' = [group EXCEPT ![g].history = loc[t].value]
      /\ Goto(t, [loc[t] EXCEPT !.pc = "release", !.value = 0, !.word = group[g].allocation])
      /\ UNCHANGED <<joined, mapped, lock, now, beats, samples>>

\* The bitmap is stored without the slot.
Release(t) ==
  LET g == loc[t].gid
  IN  /\ loc[t].pc = "release"
      /\ group' = [group EXCEPT ![g].allocation = loc[t].word \ {SlotOf(t, g)}]
      /\ Goto(t, [loc[t] EXCEPT !.pc = "unlink", !.word = {}])
      /\ UNCHANGED <<joined, mapped, lock, now, beats, samples>>

\* Mutant: the lock is kept.
Left_NoUnlock(t, role, rest) ==
  /\ lock' = t
  /\ Goto(t, IF loc[t].exiting THEN [AtUser EXCEPT !.pc = "exit"] ELSE AtUser)

\* What a task does after it has left a group: an exiting one goes on with the
\* next group of the role, under the same lock.
Left(t, role, rest) ==
  IF loc[t].exiting /\ rest # <<>>
  THEN lock' = t /\ Goto(t, Leaving(t, Head(rest), role, TRUE))
  ELSE /\ lock' = NoTask
       /\ Goto(t, IF loc[t].exiting THEN [AtUser EXCEPT !.pc = "exit"] ELSE AtUser)

\* Mutant: only the producers keep a group.
Empty_NoConsumers(gr) == gr.members["producer"] = {}

Empty(gr) == \A r \in Roles : gr.members[r] = {}

\* Under members_lock the task is unlinked and its references are put.  The last
\* member takes the group off hrm_groups.
Unlink(t) ==
  LET g    == loc[t].gid
      role == loc[t].role
      rest == Without(joined[t][role], g)
      gr   == [group[g] EXCEPT !.members[role] = @ \ {t},
                               !.slot[t] = IF role = "producer" THEN 0 ELSE @,
                               !.maps = [m \in Memories |-> PutMap(@[m], Tgid[t])]]
  IN  /\ loc[t].pc = "unlink"
      /\ lock = IF loc[t].exiting THEN t ELSE NoTask
      /\ joined' = [joined EXCEPT ![t][role] = rest]
      /\ mapped' = [mapped EXCEPT ![t][role][g] = {}]
      /\ \/ /\ Empty(gr)
            /\ group' = [group EXCEPT ![g] = [gr EXCEPT !.state = "unlisted"]]
            /\ lock' = t
            /\ Goto(t, [loc[t] EXCEPT !.pc = "destroy"])
         \/ /\ ~Empty(gr)
            /\ group' = [group EXCEPT ![g] = gr]
            /\ Left(t, role, rest)
      /\ UNCHANGED <<now, beats, samples>>

\* Mutant: the callback of the timer is not waited for.
Cancelled_NoWait(gr) == TRUE

\* hrtimer_cancel returns when the callback does not run.
Cancelled(gr) == ~gr.running

\* __hrm_destroy_group: the timer is cancelled and the group is freed.
Destroy(t) ==
  LET g == loc[t].gid
  IN  /\ loc[t].pc = "destroy"
      /\ Cancelled(group[g])
      /\ group' = [group EXCEPT ![g] = [NoGroup EXCEPT !.running = group[g].running]]
      /\ beats' = [beats EXCEPT ![g] = 0]
      /\ samples' = [samples EXCEPT ![g] = <<>>]
      /\ Left(t, loc[t].role, joined[t][loc[t].role])
      /\ UNCHANGED <<joined, mapped, now>>

\* do_exit, of a task that returns or is killed outside the kernel: in hrm_attach,
\* hrm_set_goal and hrm_del_window too.
Exit(t) ==
  /\ loc[t].pc \in {"user", "map_counters", "map_goal", "set_goal", "del_window"}
  /\ t \in MayExit
  /\ Goto(t, [AtUser EXCEPT !.pc = "exit"])
  /\ UNCHANGED <<group, joined, mapped, lock, now, beats, samples>>

\* hrm_delete_<role>_task_from_all_groups takes the lock for the whole loop, the
\* producers first.  The slot's used flag stays.
ExitGroups(t, role) ==
  /\ loc[t].pc = "exit"
  /\ joined[t][role] # <<>>
  /\ role = "consumer" => joined[t]["producer"] = <<>>
  /\ lock = NoTask
  /\ lock' = t
  /\ Goto(t, Leaving(t, Head(joined[t][role]), role, TRUE))
  /\ UNCHANGED <<group, joined, mapped, now, beats, samples>>

ExitDone(t) ==
  /\ loc[t].pc = "exit"
  /\ \A role \in Roles : joined[t][role] = <<>>
  /\ Goto(t, [AtUser EXCEPT !.pc = "dead"])
  /\ UNCHANGED <<group, joined, mapped, lock, now, beats, samples>>

\* copy_process: a new task has the number of one that is gone, and empty lists.
Fork(t) ==
  /\ loc[t].pc = "dead"
  /\ Goto(t, AtUser)
  /\ joined' = [joined EXCEPT ![t] = [r \in Roles |-> <<>>]]
  /\ UNCHANGED <<group, mapped, lock, now, beats, samples>>
-----------------------------------------------------------------------------
(***************************************************************************)
(* Mapping the pages of a group: the rest of hrm_attach.                   *)
(***************************************************************************)
\* The mmap operations mean the newest membership of the role.  The first task of a
\* process maps the memory, the others take a reference.  hrm_attach leaves the
\* group when an mmap fails.
Mmap(t, memory, fails) ==
  LET role == loc[t].role
      g    == Head(joined[t][role])
      next == IF memory = "counters" THEN [loc[t] EXCEPT !.pc = "map_goal"] ELSE AtUser
  IN  /\ loc[t].pc = (IF memory = "counters" THEN "map_counters" ELSE "map_goal")
      /\ \/ /\ ~fails
            /\ group' = [group EXCEPT ![g].maps[memory][Tgid[t]] = @ + 1]
            /\ mapped' = [mapped EXCEPT ![t][role][g] = @ \cup {memory}]
            /\ Goto(t, next)
         \/ /\ fails
            /\ BeginLeave(t, g, role)
            /\ UNCHANGED mapped
      /\ UNCHANGED <<joined, lock, now, beats, samples>>

\* heartbeat: an atomic increment of the slot through the mapping.
Heartbeat(t, g) ==
  LET k == SlotOf(t, g)
  IN  /\ loc[t].pc = "user"
      /\ Joined(t, g, "producer")
      /\ "counters" \in mapped[t]["producer"][g]
      /\ group[g].counters[k].counter < MaxCount
      /\ group' = [group EXCEPT ![g].counters[k].counter = @ + 1]
      /\ beats' = [beats EXCEPT ![g] = @ + 1]
      /\ UNCHANGED <<joined, mapped, loc, lock, now, samples>>
-----------------------------------------------------------------------------
(***************************************************************************)
(* The timer of a group.                                                   *)
(***************************************************************************)
\* The timer expires: its callback is running and about to take members_lock.
TimerFire(g) ==
  /\ group[g].armed /\ ~group[g].running
  /\ group' = [group EXCEPT ![g].armed = FALSE, ![g].running = TRUE]
  /\ UNCHANGED <<joined, mapped, loc, lock, now, beats, samples>>

\* The heartbeats of a group: what those who left have sent, and the slots of its
\* producers.
Total(gr) ==
  gr.history + MapThenSumSet(LAMBDA t : gr.counters[gr.slot[t]].counter, gr.members["producer"])

\* Mutant: the timer is not started again.
Restarted_Not(gr) == [gr EXCEPT !.running = FALSE]

\* hrtimer_start in the callback, and its return.
Restarted(gr) == [gr EXCEPT !.armed = TRUE, !.running = FALSE]

\* As many samples as the longest window needs.
Depth == 1 + Max({0} \cup WindowAsks)

\* __hrm_update_group_measures, d units after the timer expired last.
TimerBody(g, d) ==
  LET gr      == group[g]
      time    == Min({now + d, MaxTime})
      elapsed == time - gr.timestamp
  IN  /\ gr.running
      /\ now' = time
      /\ group' = [group EXCEPT ![g] =
           [Restarted(gr) EXCEPT
              !.measures = UpdateMeasures(gr.measures, gr.ring, gr.goal, Total(gr), elapsed),
              !.ring = Advance(Sampled(gr.ring, Total(gr), elapsed))]]
      /\ samples' = [samples EXCEPT ![g] =
           Remember(@, [counter |-> Total(gr), elapsed_time |-> elapsed], Depth)]
      /\ UNCHANGED <<joined, mapped, loc, lock, beats>>
-----------------------------------------------------------------------------
(***************************************************************************)
(* Windows and goals: libhrm writes them in the shared page.               *)
(***************************************************************************)
\* A task with a monitor of the group.
Attached(t, g, role) ==
  /\ loc[t].pc = "user"
  /\ Joined(t, g, role)
  /\ "measures_goal" \in mapped[t][role][g]

\* hrm_add_window; nothing changes when the table is full.
Add(t, g, role, ws) ==
  /\ Attached(t, g, role)
  /\ Places(group[g].goal, ws) # {}
  /\ group' = [group EXCEPT ![g].goal = AddWindow(@, ws)]
  /\ UNCHANGED <<joined, mapped, loc, lock, now, beats, samples>>

\* hrm_set_goal: the window is added in one critical section of goal_lock, ...
SetGoalWindow(t, g, ws) ==
  /\ Attached(t, g, "producer")
  /\ ws <= HRM_MAX_WINDOW_SIZE
  /\ Places(group[g].goal, ws) # {}
  /\ group' = [group EXCEPT ![g].goal = AddWindow(@, ws)]
  /\ Goto(t, [AtUser EXCEPT !.pc = "set_goal", !.gid = g, !.size = ws])
  /\ UNCHANGED <<joined, mapped, lock, now, beats, samples>>

\* ... and becomes the scope in a second one.
SetGoalScope(t) ==
  /\ loc[t].pc = "set_goal"
  /\ group' = [group EXCEPT ![loc[t].gid].goal.scope = loc[t].size]
  /\ Goto(t, AtUser)
  /\ UNCHANGED <<joined, mapped, lock, now, beats, samples>>

\* hrm_unset_goal, or hrm_set_goal with the global scope.
UnsetGoal(t, g) ==
  /\ Attached(t, g, "producer")
  /\ group' = [group EXCEPT ![g].goal.scope = 0]
  /\ UNCHANGED <<joined, mapped, loc, lock, now, beats, samples>>

\* hrm_del_window keeps the window that is the scope: it looks before it locks.
Deletable(goal, ws) == ws # goal.scope

BeginDelWindow(t, g, ws) ==
  /\ Attached(t, g, "producer")
  /\ Deletable(group[g].goal, ws)
  /\ Goto(t, [AtUser EXCEPT !.pc = "del_window", !.gid = g, !.size = ws])
  /\ UNCHANGED <<group, joined, mapped, lock, now, beats, samples>>

EndDelWindow(t) ==
  LET g == loc[t].gid
  IN  /\ loc[t].pc = "del_window"
      /\ group' = IF Holders(group[g].goal, loc[t].size) = {} THEN group
                  ELSE [group EXCEPT ![g].goal = DelWindow(@, loc[t].size)]
      /\ Goto(t, AtUser)
      /\ UNCHANGED <<joined, mapped, lock, now, beats, samples>>
-----------------------------------------------------------------------------
\* What a task does on its own, once it has called into the kernel or the library.
Continue(t) ==
  \/ LinkProducer(t) \/ Fold(t) \/ Release(t) \/ ExitDone(t)
  \/ \E memory \in Memories, fails \in MapFails : Mmap(t, memory, fails)
  \/ SetGoalScope(t) \/ EndDelWindow(t)

\* What waits for hrm_groups_lock, or for the callback of a timer.
Wait(t) ==
  \/ Unlink(t) \/ Destroy(t)
  \/ \E role \in Roles : ExitGroups(t, role)

\* What a program may choose to do.
Call(t) ==
  \/ Exit(t) \/ Fork(t)
  \/ \E g \in Gids :
       \/ AddProducer(t, g) \/ AddConsumer(t, g) \/ Heartbeat(t, g) \/ UnsetGoal(t, g)
       \/ \E role \in Roles : Detach(t, g, role)
       \/ \E ws \in WindowAsks :
            \/ \E role \in Roles : Add(t, g, role, ws)
            \/ SetGoalWindow(t, g, ws) \/ BeginDelWindow(t, g, ws)

Timer(g) == TimerFire(g) \/ \E d \in Periods : TimerBody(g, d)

Next == \/ \E t \in Tasks : Continue(t) \/ Wait(t) \/ Call(t)
        \/ \E g \in Gids : Timer(g)

Spec == Init /\ [][Next]_vars

\* A task in the kernel goes on, a queued spin lock is taken in turn, hrtimer_cancel
\* looks again far more often than a timer expires, and timers expire.
Fairness ==
  /\ \A t \in Tasks : WF_vars(Continue(t)) /\ SF_vars(Wait(t))
  /\ \A g \in Gids : WF_vars(Timer(g))

FairSpec == Spec /\ Fairness
-----------------------------------------------------------------------------
(***************************************************************************)
(* Properties.                                                             *)
(***************************************************************************)
Members(g) == UNION {group[g].members[r] : r \in Roles}

\* A task is never left with a group that is off hrm_groups or freed, whatever
\* the others do: hrm_delete_*_task_from_group looks at the lists under the lock.
\* And no group outlives its last member, once the lock is free.
GroupsExact ==
  \A g \in Gids :
    /\ \A t \in Tasks, r \in Roles :
         Joined(t, g, r) => group[g].state = "listed" /\ t \in group[g].members[r]
    /\ lock = NoTask => (group[g].state # "none" <=> Members(g) # {})

\* A freed group has no timer: __hrm_destroy_group waits for the callback.
TimerSafe == \A g \in Gids : group[g].state = "none" => ~group[g].armed /\ ~group[g].running

\* The measures of a group with producers are kept up to date: its timer is queued
\* or its callback runs, also when a consumer was there first.
TimerKept ==
  \A g \in Gids :
    group[g].members["producer"] # {} => group[g].armed \/ group[g].running

\* When tasks leave their groups only by exiting, that is under hrm_groups_lock:
\* each producer has a slot of its own, marked in the bitmap and with its tid, and
\* no slot is lost.
SlotsOwned ==
  \A g \in Gids :
    LET made == group[g].members["producer"]
        lost == group[g].allocation \ {SlotOf(t, g) : t \in made}
    IN  /\ \A t, u \in made : t # u => SlotOf(t, g) # SlotOf(u, g)
        /\ \A t \in made : /\ group[g].counters[SlotOf(t, g)].tid = t
                           /\ \/ SlotOf(t, g) \in group[g].allocation
                              \/ loc[t].pc = "unlink"
        /\ lost = {}

\* Then no heartbeat is lost when its sender leaves: the history and the slots of
\* the producers account for all that were sent since the group was made.
BeatsKept == \A g \in Gids : Total(group[g]) >= beats[g]

\* The address of a memory is only given to the tasks of a process that has it
\* mapped: the references of a process never outnumber its mappings.
MapsCurrent ==
  \A g \in Gids, m \in Memories, p \in Pids :
    group[g].maps[m][p] <=
      Cardinality({x \in Tasks \X Roles : Tgid[x[1]] = p /\ m \in mapped[x[1]][x[2]][g]})

\* Whenever the timer publishes, the measure of every window that is shorter than
\* the ring is what the samples of that many periods say.
MeasuresRight ==
  [][\A g \in Gids : group[g].running /\ ~group'[g].running /\ group'[g].state # "none" =>
       \A i \in Windows :
         LET ws == group[g].goal.window_size[i]
         IN  ws \in 1 .. HRM_MAX_WINDOW_SIZE - 1 =>
               group'[g].measures.window[i] = MeasureOf(samples'[g], ws)]_vars

\* Every heartbeat shows up in the measures, unless the group goes away first.
BeatsPublished ==
  \A g \in Gids : \A n \in 1 .. MaxCount + MaxHistory :
    beats[g] >= n ~> (group[g].measures.global.count >= n \/ beats[g] < n)

\* A task that leaves a group, or all of them, gets through: hrm_groups_lock and
\* hrtimer_cancel do not hold it up for ever.
LeaveEnds ==
  \A t \in Tasks :
    loc[t].pc \in {"fold", "release", "unlink", "destroy", "exit"} ~> loc[t].pc \in {"user", "dead"}

\* A heartbeat is counted once: while no task is joining or leaving, what the timer
\* would publish was sent to the group.
NoRecount ==
  (\A t \in Tasks : loc[t].pc \in {"user", "dead"}) =>
    \A g \in Gids : Total(group[g]) <= beats[g]
=============================================================================
