---------------------------- MODULE HrmDataProofs ----------------------------
(***************************************************************************)
(* What the groups of the Heart Rate Monitor keep: the samples and the     *)
(* measures, the references of the mappings, the slots and the heartbeats. *)
(***************************************************************************)
EXTENDS HrmGroupProofs

(***************************************************************************)
(* Which parts of a group a step leaves alone.                             *)
(***************************************************************************)
SameRing(a, b)  == a.ring = b.ring /\ a.timestamp = b.timestamp /\ a.running = b.running
SameGoal(a, b)  == a.goal = b.goal
SameMaps(a, b)  == a.maps = b.maps
SameSlots(a, b) ==
  /\ a.allocation = b.allocation /\ a.counters = b.counters /\ a.slot = b.slot
  /\ a.history = b.history /\ a.members = b.members /\ a.state = b.state

\* A step that writes one group.
LEMMA Written ==
  ASSUME TypeOK, NEW g \in Gids, NEW gr, group' = [group EXCEPT ![g] = gr]
  PROVE  \A h \in Gids : group'[h] = IF h = g THEN gr ELSE group[h]
BY DEF TypeOK

LEMMA WritesOne ==
  ASSUME TypeOK, NEW g \in Gids, NEW gr, group' = [group EXCEPT ![g] = gr]
  PROVE  group'[g] = gr /\ \A h \in Gids : h # g => group'[h] = group[h]
BY DEF TypeOK

\* Where a task that acts on a group is.
LEMMA AtGroup ==
  ASSUME IInv, NEW t \in Tasks,
         loc[t].pc \in {"alloc", "map_counters", "map_goal", "fold", "release", "unlink",
                        "destroy", "set_goal", "del_window"}
  PROVE  /\ TypeOK /\ loc[t] \in LocRec /\ loc[t].gid \in Gids /\ loc[t].role \in Roles
         /\ group[loc[t].gid] \in GroupRec
<1>1. TypeOK /\ loc[t] \in LocRec /\ LocFits(loc[t], joined[t]) BY TaskFacts
<1>2. loc[t].gid \in Gids BY <1>1 DEF LocFits
<1> QED BY <1>1, <1>2, LocFields DEF TypeOK

\* The steps that write no group.
LEMMA QuietFrame ==
  ASSUME NEW t \in Tasks,
         \/ Exit(t) \/ Fork(t) \/ ExitDone(t)
         \/ \E role \in Roles : ExitGroups(t, role)
         \/ \E g \in Gids, ws \in WindowAsks : BeginDelWindow(t, g, ws)
  PROVE  group' = group /\ UNCHANGED <<mapped, beats, samples>>
BY DEF Exit, Fork, ExitDone, ExitGroups, BeginDelWindow

\* The steps that write the goal of a group.
LEMMA GoalFrame ==
  ASSUME TypeOK, NEW g \in Gids, NEW goal,
         group' = [group EXCEPT ![g] = [group[g] EXCEPT !.goal = goal]]
  PROVE  /\ \A h \in Gids : SameRing(group'[h], group[h])
         /\ \A h \in Gids : SameMaps(group'[h], group[h])
         /\ \A h \in Gids : SameSlots(group'[h], group[h])
         /\ \A h \in Gids : group'[h].goal = IF h = g THEN goal ELSE group[h].goal
<1>1. \A h \in Gids : group'[h] = IF h = g THEN [group[g] EXCEPT !.goal = goal] ELSE group[h] BY Written
<1> DEFINE old == group[g]
           gr == [old EXCEPT !.goal = goal]
<1>2. old \in GroupRec BY DEF TypeOK
<1>3. gr.goal = goal /\ SameRing(gr, old) /\ SameMaps(gr, old) /\ SameSlots(gr, old)
  <2> HIDE DEF old
  <2> QED BY <1>2 DEF GroupRec, SameRing, SameMaps, SameSlots
<1> HIDE DEF gr
<1>4. \A h \in Gids : group'[h] = IF h = g THEN gr ELSE group[h] BY <1>1 DEF gr
<1> QED BY <1>3, <1>4 DEF SameRing, SameMaps, SameSlots

\* The parts of a group that a write of its history, bitmap, counters or references
\* leaves alone.
LEMMA FieldFrame ==
  ASSUME NEW gr \in GroupRec
  PROVE  /\ \A v : LET new == [gr EXCEPT !.history = v]
                   IN  SameRing(new, gr) /\ SameGoal(new, gr) /\ SameMaps(new, gr)
         /\ \A v : LET new == [gr EXCEPT !.allocation = v]
                   IN  SameRing(new, gr) /\ SameGoal(new, gr) /\ SameMaps(new, gr)
         /\ \A v : LET new == [gr EXCEPT !.counters = v]
                   IN  SameRing(new, gr) /\ SameGoal(new, gr) /\ SameMaps(new, gr)
         /\ \A v : LET new == [gr EXCEPT !.slot = v]
                   IN  SameRing(new, gr) /\ SameGoal(new, gr) /\ SameMaps(new, gr)
         /\ \A v : LET new == [gr EXCEPT !.maps = v]
                   IN  SameRing(new, gr) /\ SameGoal(new, gr) /\ SameSlots(new, gr) /\ new.maps = v
BY DEF GroupRec, SameRing, SameGoal, SameMaps, SameSlots

\* Groups that no step but a write of g changes.
LEMMA OthersSame ==
  ASSUME TypeOK, NEW g \in Gids, NEW gr, group' = [group EXCEPT ![g] = gr]
  PROVE  /\ SameRing(gr, group[g]) => \A h \in Gids : SameRing(group'[h], group[h])
         /\ SameGoal(gr, group[g]) => \A h \in Gids : SameGoal(group'[h], group[h])
         /\ SameMaps(gr, group[g]) => \A h \in Gids : SameMaps(group'[h], group[h])
         /\ SameSlots(gr, group[g]) => \A h \in Gids : SameSlots(group'[h], group[h])
BY Written DEF SameRing, SameGoal, SameMaps, SameSlots

LEMMA FoldFrame ==
  ASSUME IInv, NEW t \in Tasks, Fold(t)
  PROVE  /\ \A h \in Gids : SameRing(group'[h], group[h])
         /\ \A h \in Gids : SameGoal(group'[h], group[h])
         /\ \A h \in Gids : SameMaps(group'[h], group[h])
<1> DEFINE g == loc[t].gid
           v == loc[t].value
           gr == [group[g] EXCEPT !.history = v]
<1>1. TypeOK /\ g \in Gids /\ group[g] \in GroupRec BY AtGroup DEF Fold
<1>2. group' = [group EXCEPT ![g] = gr] BY DEF Fold
<1>3. SameRing(gr, group[g]) /\ SameGoal(gr, group[g]) /\ SameMaps(gr, group[g]) BY <1>1, FieldFrame
<1> HIDE DEF g, gr
<1> QED BY <1>1, <1>2, <1>3, OthersSame

LEMMA ReleaseFrame ==
  ASSUME IInv, NEW t \in Tasks, Release(t)
  PROVE  /\ \A h \in Gids : SameRing(group'[h], group[h])
         /\ \A h \in Gids : SameGoal(group'[h], group[h])
         /\ \A h \in Gids : SameMaps(group'[h], group[h])
<1> DEFINE g == loc[t].gid
           v == loc[t].word \ {SlotOf(t, g)}
           gr == [group[g] EXCEPT !.allocation = v]
<1>1. TypeOK /\ g \in Gids /\ group[g] \in GroupRec BY AtGroup DEF Release
<1>2. group' = [group EXCEPT ![g] = gr] BY DEF Release
<1>3. SameRing(gr, group[g]) /\ SameGoal(gr, group[g]) /\ SameMaps(gr, group[g]) BY <1>1, FieldFrame
<1> HIDE DEF g, gr
<1> QED BY <1>1, <1>2, <1>3, OthersSame

LEMMA BeginLeaveFrame ==
  ASSUME TypeOK, NEW t \in Tasks, NEW g \in Gids, NEW role \in Roles, BeginLeave(t, g, role)
  PROVE  /\ \A h \in Gids : SameRing(group'[h], group[h])
         /\ \A h \in Gids : SameGoal(group'[h], group[h])
         /\ \A h \in Gids : SameMaps(group'[h], group[h])
<1> DEFINE c == [group[g].counters EXCEPT ![SlotOf(t, g)].used = FALSE]
           gr == [group[g] EXCEPT !.counters = c]
<1>1. group[g] \in GroupRec BY DEF TypeOK
<1>2. group' = [group EXCEPT ![g] = gr] \/ group' = group BY DEF BeginLeave
<1> HIDE DEF c
<1>3. SameRing(gr, group[g]) /\ SameGoal(gr, group[g]) /\ SameMaps(gr, group[g]) BY <1>1, FieldFrame
<1> HIDE DEF gr
<1>4. CASE group' = [group EXCEPT ![g] = gr] BY <1>3, <1>4, OthersSame
<1>5. CASE group' = group BY <1>5 DEF SameRing, SameGoal, SameMaps
<1> QED BY <1>2, <1>4, <1>5

\* What an mmap of a memory by t does when it succeeds.
Maps(t, memory) ==
  LET role == loc[t].role
      g    == loc[t].gid
  IN  /\ group' = [group EXCEPT ![g] = [group[g] EXCEPT !.maps =
                     [group[g].maps EXCEPT ![memory][Tgid[t]] = @ + 1]]]
      /\ mapped' = [mapped EXCEPT ![t][role][g] = @ \cup {memory}]
      /\ loc' = [loc EXCEPT ![t] = IF memory = "counters" THEN [loc[t] EXCEPT !.pc = "map_goal"]
                                   ELSE AtUser]

LEMMA MmapIs ==
  ASSUME IInv, NEW t \in Tasks, NEW memory \in Memories, NEW fails, Mmap(t, memory, fails)
  PROVE  /\ loc[t].pc = (IF memory = "counters" THEN "map_counters" ELSE "map_goal")
         /\ UNCHANGED <<joined, lock, now, beats, samples>>
         /\ InList(joined[t][loc[t].role], loc[t].gid)
         /\ \/ ~fails /\ Maps(t, memory)
            \/ fails /\ BeginLeave(t, loc[t].gid, loc[t].role) /\ UNCHANGED mapped
<1> DEFINE role == loc[t].role
           g == Head(joined[t][role])
<1>1. loc[t].pc = (IF memory = "counters" THEN "map_counters" ELSE "map_goal") BY DEF Mmap
<1>2. TypeOK /\ loc[t].gid \in Gids /\ role \in Roles BY <1>1, AtGroup
<1>3. LocFits(loc[t], joined[t]) /\ joined[t][role] \in Seq(Gids) BY <1>2, TaskFacts
<1>4. g = loc[t].gid /\ joined[t][role] # <<>> BY <1>1, <1>3 DEF LocFits
<1>5. InList(joined[t][role], loc[t].gid) BY <1>3, <1>4, HeadIn
<1>6. UNCHANGED <<joined, lock, now, beats, samples>> BY DEF Mmap
<1>7. \/ /\ ~fails
         /\ group' = [group EXCEPT ![g].maps[memory][Tgid[t]] = @ + 1]
         /\ mapped' = [mapped EXCEPT ![t][role][g] = @ \cup {memory}]
         /\ loc' = [loc EXCEPT ![t] = IF memory = "counters" THEN [loc[t] EXCEPT !.pc = "map_goal"]
                                      ELSE AtUser]
      \/ fails /\ BeginLeave(t, g, role) /\ UNCHANGED mapped
  BY DEF Mmap, Goto
<1> DEFINE gid == loc[t].gid
<1>8. CASE /\ ~fails
           /\ group' = [group EXCEPT ![gid].maps[memory][Tgid[t]] = @ + 1]
           /\ mapped' = [mapped EXCEPT ![t][role][gid] = @ \cup {memory}]
           /\ loc' = [loc EXCEPT ![t] = IF memory = "counters" THEN [loc[t] EXCEPT !.pc = "map_goal"]
                                        ELSE AtUser]
  <2>1. Maps(t, memory) BY <1>8 DEF Maps
  <2> QED BY <1>1, <1>5, <1>6, <1>8, <2>1
<1>9. CASE fails /\ BeginLeave(t, gid, role) /\ UNCHANGED mapped BY <1>1, <1>5, <1>6, <1>9
<1> QED BY <1>4, <1>7, <1>8, <1>9

LEMMA MapsFrame ==
  ASSUME TypeOK, NEW t \in Tasks, NEW memory \in Memories, loc[t].gid \in Gids, Maps(t, memory)
  PROVE  /\ \A h \in Gids : SameRing(group'[h], group[h])
         /\ \A h \in Gids : SameGoal(group'[h], group[h])
         /\ \A h \in Gids : SameSlots(group'[h], group[h])
<1> DEFINE g == loc[t].gid
           v == [group[g].maps EXCEPT ![memory][Tgid[t]] = @ + 1]
           gr == [group[g] EXCEPT !.maps = v]
<1>1. group[g] \in GroupRec BY DEF TypeOK
<1>2. group' = [group EXCEPT ![g] = gr] BY DEF Maps
<1> HIDE DEF v
<1>3. SameRing(gr, group[g]) /\ SameGoal(gr, group[g]) /\ SameSlots(gr, group[g]) BY <1>1, FieldFrame
<1> HIDE DEF g, gr
<1> QED BY <1>2, <1>3, OthersSame DEF g

LEMMA HeartbeatFrame ==
  ASSUME TypeOK, NEW t \in Tasks, NEW g \in Gids, Heartbeat(t, g)
  PROVE  /\ \A h \in Gids : SameRing(group'[h], group[h])
         /\ \A h \in Gids : SameGoal(group'[h], group[h])
         /\ \A h \in Gids : SameMaps(group'[h], group[h])
<1> DEFINE k == SlotOf(t, g)
           c == [group[g].counters EXCEPT ![k].counter = @ + 1]
           gr == [group[g] EXCEPT !.counters = c]
<1>1. group[g] \in GroupRec BY DEF TypeOK
<1>2. group' = [group EXCEPT ![g] = gr] BY DEF Heartbeat
<1> HIDE DEF c
<1>3. SameRing(gr, group[g]) /\ SameGoal(gr, group[g]) /\ SameMaps(gr, group[g]) BY <1>1, FieldFrame
<1> HIDE DEF gr
<1> QED BY <1>2, <1>3, OthersSame

\* What Unlink makes of the group: the timer, the goal and the counts stay.
LEMMA UnlinkFrame ==
  ASSUME IInv, NEW t \in Tasks, Unlink(t)
  PROVE  /\ \A h \in Gids : SameRing(group'[h], group[h])
         /\ \A h \in Gids : SameGoal(group'[h], group[h])
         /\ \A h \in Gids : h # loc[t].gid => group'[h] = group[h]
         /\ group'[loc[t].gid].maps =
              [m \in Memories |-> PutMap(group[loc[t].gid].maps[m], Tgid[t])]
<1> DEFINE g == loc[t].gid
           role == loc[t].role
           old == group[g]
           gr == Unlinked(old, t, role)
           off == [gr EXCEPT !.state = "unlisted"]
           maps == [m \in Memories |-> PutMap(old.maps[m], Tgid[t])]
<1>1. TypeOK /\ g \in Gids /\ role \in Roles /\ old \in GroupRec BY AtGroup DEF Unlink
<1>2. group' = [group EXCEPT ![g] = gr] \/ group' = [group EXCEPT ![g] = off]
  BY DEF Unlink, Unlinked
<1>3. /\ gr \in GroupRec /\ gr.timestamp = old.timestamp /\ gr.ring = old.ring
      /\ gr.running = old.running
  <2>1. gr = Unlinked(old, t, role) OBVIOUS
  <2> HIDE DEF old, role, gr
  <2> QED BY <1>1, <2>1, UnlinkedIs
<1>4. gr.goal = old.goal /\ gr.maps = maps
  <2>1. gr = Unlinked(old, t, role) OBVIOUS
  <2> HIDE DEF old, role, gr
  <2> QED BY <1>1, <2>1, UnlinkedRest
<1> HIDE DEF gr, old, maps
<1>5. SameRing(gr, old) /\ SameGoal(gr, old) BY <1>3, <1>4 DEF SameRing, SameGoal
<1>6. SameRing(off, old) /\ SameGoal(off, old) /\ off.maps = maps
  BY <1>3, <1>4 DEF SameRing, SameGoal, GroupRec
<1> HIDE DEF off, g
<1>7. CASE group' = [group EXCEPT ![g] = gr]
  <2>1. \A h \in Gids : group'[h] = IF h = g THEN gr ELSE group[h] BY <1>1, <1>7, Written
  <2> QED BY <1>1, <1>4, <1>5, <2>1 DEF old, maps, g, SameRing, SameGoal
<1>8. CASE group' = [group EXCEPT ![g] = off]
  <2>1. \A h \in Gids : group'[h] = IF h = g THEN off ELSE group[h] BY <1>1, <1>8, Written
  <2> QED BY <1>1, <1>6, <2>1 DEF old, maps, g, SameRing, SameGoal
<1> QED BY <1>2, <1>7, <1>8

\* What a group is made into by Destroy, or made from.
Fresh(gr) ==
  /\ gr.timestamp = 0 /\ gr.goal = NoGoal /\ ~gr.running
  /\ gr.maps = [m \in Memories |-> [p \in Pids |-> 0]]
  /\ gr.allocation = {} /\ gr.history = 0

LEMMA DestroyFrame ==
  ASSUME IInv, NEW t \in Tasks, Destroy(t)
  PROVE  /\ \A h \in Gids : h # loc[t].gid => group'[h] = group[h] /\ samples'[h] = samples[h]
         /\ Fresh(group'[loc[t].gid]) /\ ~group[loc[t].gid].running
         /\ group'[loc[t].gid].state = "none"
         /\ group'[loc[t].gid].members = [r \in Roles |-> {}]
<1> DEFINE g == loc[t].gid
           on == group[g].running
           gr == [NoGroup EXCEPT !.running = on]
<1>1. TypeOK /\ g \in Gids BY AtGroup DEF Destroy
<1>2. group' = [group EXCEPT ![g] = gr] /\ ~on /\ samples' = [samples EXCEPT ![g] = <<>>]
  BY DEF Destroy, Cancelled
<1> HIDE DEF on
<1>3. Fresh(gr) /\ gr.state = "none" /\ gr.members = [r \in Roles |-> {}]
  BY <1>2 DEF NoGroup, Fresh
<1> HIDE DEF gr, g
<1>4. \A h \in Gids : group'[h] = IF h = g THEN gr ELSE group[h] BY <1>1, <1>2, Written
<1>5. \A h \in Gids : h # g => samples'[h] = samples[h] BY <1>1, <1>2 DEF TypeOK
<1>6. group'[g] = gr /\ ~group[g].running BY <1>1, <1>2, <1>4 DEF on
<1> QED BY <1>3, <1>4, <1>5, <1>6 DEF g

\* A group that is found or made, and a member of it made.
LEMMA AddFrame ==
  ASSUME IInv, NEW t \in Tasks, NEW g \in Gids, AddProducer(t, g) \/ AddConsumer(t, g)
  PROVE  /\ \A h \in Gids : h # g => group'[h] = group[h]
         /\ \/ /\ SameRing(group'[g], group[g]) /\ SameGoal(group'[g], group[g])
               /\ SameMaps(group'[g], group[g]) /\ group[g].state # "none"
            \/ Fresh(group'[g]) /\ ~group[g].running /\ group[g].state = "none"
         /\ UNCHANGED <<mapped, samples, beats>>
<1> DEFINE old == FindOrCreate(g)
           k == FirstIn(Slots \ old.allocation)
           s == [old.slot EXCEPT ![t] = k]
           m == [old.members EXCEPT !["consumer"] = @ \cup {t}]
           gp == [old EXCEPT !.slot = s]
           gc == [old EXCEPT !.members = m, !.state = "listed"]
<1>1. TypeOK /\ TimerExact BY DEF IInv
<1>2. old \in GroupRec BY <1>1, FindOrCreateType
<1>3. old = IF group[g].state = "none" THEN [NoGroup EXCEPT !.state = "unlisted"] ELSE group[g]
  BY <1>1, FindOrCreateType
<1>4. group' = [group EXCEPT ![g] = gp] \/ group' = [group EXCEPT ![g] = gc]
  BY DEF AddProducer, AddConsumer
<1> HIDE DEF old, k, s, m
<1>5. \/ SameRing(old, group[g]) /\ SameGoal(old, group[g]) /\ SameMaps(old, group[g]) /\ group[g].state # "none"
      \/ Fresh(old) /\ ~group[g].running /\ group[g].state = "none"
  <2>1. CASE group[g].state = "none"
    <3>1. Fresh(old) BY <1>3, <2>1 DEF NoGroup, Fresh
    <3>2. ~group[g].running BY <1>1, <2>1 DEF TimerExact, TimerFits
    <3> QED BY <2>1, <3>1, <3>2
  <2>2. CASE group[g].state # "none" BY <1>3, <2>2 DEF SameRing, SameGoal, SameMaps
  <2> QED BY <2>1, <2>2
<1>6. /\ gp.timestamp = old.timestamp /\ gp.goal = old.goal /\ gp.running = old.running
      /\ gp.maps = old.maps /\ gp.allocation = old.allocation /\ gp.history = old.history
      /\ gp.ring = old.ring
  BY <1>2 DEF GroupRec
<1>7. /\ gc.timestamp = old.timestamp /\ gc.goal = old.goal /\ gc.running = old.running
      /\ gc.maps = old.maps /\ gc.allocation = old.allocation /\ gc.history = old.history
      /\ gc.ring = old.ring
  BY <1>2 DEF GroupRec
<1> HIDE DEF gp, gc
<1>8. UNCHANGED <<mapped, samples, beats>> BY DEF AddProducer, AddConsumer
<1>9. PICK gr : /\ group' = [group EXCEPT ![g] = gr]
                /\ gr.timestamp = old.timestamp /\ gr.goal = old.goal /\ gr.running = old.running
                /\ gr.maps = old.maps /\ gr.allocation = old.allocation /\ gr.history = old.history
                /\ gr.ring = old.ring
  BY <1>4, <1>6, <1>7
<1>10. \A h \in Gids : group'[h] = IF h = g THEN gr ELSE group[h] BY <1>1, <1>9, Written
<1>11. group'[g] = gr BY <1>10
<1>12. CASE Fresh(old) /\ ~group[g].running /\ group[g].state = "none"
  <2>1. Fresh(gr) BY <1>9, <1>12 DEF Fresh
  <2> QED BY <1>8, <1>10, <1>11, <1>12, <2>1
<1>13. CASE SameRing(old, group[g]) /\ SameGoal(old, group[g]) /\ SameMaps(old, group[g]) /\ group[g].state # "none"
  <2>1. SameRing(gr, group[g]) /\ SameGoal(gr, group[g]) /\ SameMaps(gr, group[g])
    BY <1>9, <1>13 DEF SameRing, SameGoal, SameMaps
  <2> QED BY <1>8, <1>10, <1>11, <1>13, <2>1
<1> QED BY <1>5, <1>12, <1>13

\* The counters when slot k has been given to t.
Claimed(counters, t, k) == [counters EXCEPT ![k].tid = t, ![k].used = TRUE]

\* What LinkProducer leaves of the group, and what it does to the slots.
LEMMA StartedParts ==
  ASSUME NEW gr \in GroupRec, NEW t \in Tasks, NEW k \in Slots, NEW word \in SUBSET Slots,
         NEW new, new = Started(gr, t, k, word)
  PROVE  /\ new.goal = gr.goal /\ new.maps = gr.maps /\ new.history = gr.history
         /\ new.allocation = word \cup {k}
         /\ \A u \in Tasks : new.slot[u] = IF u = t THEN k ELSE gr.slot[u]
         /\ new.counters = Claimed(gr.counters, t, k)
<1> DEFINE c == Claimed(gr.counters, t, k)
           s == [gr.slot EXCEPT ![t] = k]
           m == [gr.members EXCEPT !["producer"] = @ \cup {t}]
           linked == [ClaimSlot(gr, t, k, word) EXCEPT !.members["producer"] = @ \cup {t}]
<1>1. linked = [gr EXCEPT !.allocation = word \cup {k}, !.slot = s, !.counters = c, !.members = m]
  BY DEF ClaimSlot, Claimed, GroupRec
<1> HIDE DEF c, s, m
<1>2. /\ linked.goal = gr.goal /\ linked.maps = gr.maps /\ linked.history = gr.history
      /\ linked.allocation = word \cup {k} /\ linked.slot = s /\ linked.counters = c
  BY <1>1 DEF GroupRec
<1>3. DOMAIN linked = DOMAIN gr BY <1>1
<1>4. new = [StartTimer(linked) EXCEPT !.state = "listed"] BY DEF Started
<1> HIDE DEF linked
<1>5. /\ new.goal = linked.goal /\ new.maps = linked.maps /\ new.history = linked.history
      /\ new.allocation = linked.allocation /\ new.slot = linked.slot /\ new.counters = linked.counters
  <2>1. CASE linked.timestamp = 0
    <3>1. new = [linked EXCEPT !.timestamp = now, !.ring = StartedRing, !.armed = TRUE, !.state = "listed"]
      BY <1>4, <2>1 DEF StartTimer
    <3> QED BY <1>3, <3>1 DEF GroupRec
  <2>2. CASE linked.timestamp # 0
    <3>1. new = [linked EXCEPT !.state = "listed"] BY <1>4, <2>2 DEF StartTimer
    <3> QED BY <1>3, <3>1 DEF GroupRec
  <2> QED BY <2>1, <2>2
<1>6. \A u \in Tasks : s[u] = IF u = t THEN k ELSE gr.slot[u] BY GroupFields DEF s
<1> QED BY <1>2, <1>5, <1>6 DEF c

LEMMA StartedRest ==
  ASSUME NEW gr \in GroupRec, NEW t \in Tasks, NEW k \in Slots, NEW word \in SUBSET Slots
  PROVE  LET new == Started(gr, t, k, word)
         IN  new.goal = gr.goal /\ new.maps = gr.maps /\ new.history = gr.history
<1> DEFINE new == Started(gr, t, k, word)
<1>1. new = Started(gr, t, k, word) OBVIOUS
<1> HIDE DEF new
<1>2. new.goal = gr.goal /\ new.maps = gr.maps /\ new.history = gr.history BY <1>1, StartedParts
<1> QED BY <1>2 DEF new

LEMMA LinkFrame ==
  ASSUME IInv, NEW t \in Tasks, LinkProducer(t)
  PROVE  /\ \A h \in Gids : h # loc[t].gid => group'[h] = group[h] /\ samples'[h] = samples[h]
         /\ \A h \in Gids : SameGoal(group'[h], group[h])
         /\ \A h \in Gids : SameMaps(group'[h], group[h])
         /\ \/ SameRing(group'[loc[t].gid], group[loc[t].gid]) /\ samples' = samples
            \/ /\ ~group[loc[t].gid].running /\ group'[loc[t].gid].ring = StartedRing
               /\ samples'[loc[t].gid] = <<NoSample>>
         /\ UNCHANGED <<mapped, beats>>
<1> DEFINE g == loc[t].gid
           old == group[g]
           k == SlotOf(t, g)
           w == loc[t].word
           gr == Started(old, t, k, w)
<1>1. TypeOK /\ TimerExact BY DEF IInv
<1>2. loc[t] \in LocRec /\ g \in Gids /\ old \in GroupRec BY AtGroup DEF LinkProducer
<1>3. /\ group' = [group EXCEPT ![g] = gr]
      /\ samples' = (IF old.timestamp = 0 THEN [samples EXCEPT ![g] = <<NoSample>>] ELSE samples)
      /\ UNCHANGED <<mapped, now, beats>>
  BY <1>1, <1>2, LinkProducerIs
<1>4. k \in Slots /\ w \in SUBSET Slots /\ now \in Nat /\ gr = Started(old, t, k, w)
  BY <1>1, <1>2, GroupFields, LocFields DEF SlotOf, TypeOK
<1>5. TimerFits(old) BY <1>1, <1>2 DEF TimerExact
<1>6. old.timestamp \in Nat BY <1>2, GroupFields
<1>7. old \in GroupRec BY <1>2
<1> HIDE DEF k, w, old, gr
<1>8. /\ gr \in GroupRec /\ gr.state = "listed"
      /\ gr.members = [old.members EXCEPT !["producer"] = @ \cup {t}]
      /\ gr.running = old.running
      /\ old.timestamp = 0 => gr.timestamp = now /\ gr.ring = StartedRing /\ gr.armed
      /\ old.timestamp # 0 => /\ gr.timestamp = old.timestamp /\ gr.ring = old.ring
                              /\ gr.armed = old.armed
  BY <1>4, <1>7, StartedIs
<1>9. gr.goal = old.goal /\ gr.maps = old.maps BY <1>4, <1>7, StartedRest
<1>10. old = group[g] BY DEF old
<1> HIDE DEF g
<1>11. \A h \in Gids : group'[h] = IF h = g THEN gr ELSE group[h] BY <1>1, <1>2, <1>3, Written
<1>12. group'[g] = gr BY <1>2, <1>11
<1>13. /\ \A h \in Gids : SameGoal(group'[h], group[h])
       /\ \A h \in Gids : SameMaps(group'[h], group[h])
  BY <1>9, <1>10, <1>11 DEF SameGoal, SameMaps
<1>14. \A h \in Gids : h # g => samples'[h] = samples[h] BY <1>1, <1>3 DEF TypeOK
<1>15. CASE old.timestamp = 0
  <2>1. ~old.running BY <1>5, <1>15 DEF TimerFits
  <2>2. samples'[g] = <<NoSample>> BY <1>1, <1>2, <1>3, <1>15 DEF TypeOK
  <2> QED BY <1>3, <1>8, <1>10, <1>11, <1>12, <1>13, <1>14, <1>15, <2>1, <2>2 DEF g
<1>16. CASE old.timestamp # 0
  <2>1. SameRing(gr, old) /\ samples' = samples BY <1>3, <1>8, <1>16 DEF SameRing
  <2> QED BY <1>3, <1>10, <1>11, <1>12, <1>13, <1>14, <2>1 DEF g
<1> QED BY <1>15, <1>16

LEMMA FireFrame ==
  ASSUME IInv, NEW g \in Gids, TimerFire(g)
  PROVE  /\ \A h \in Gids : h # g => group'[h] = group[h]
         /\ group'[g].running /\ group'[g].ring = group[g].ring
         /\ group'[g].timestamp = group[g].timestamp
         /\ \A h \in Gids : SameGoal(group'[h], group[h])
         /\ \A h \in Gids : SameMaps(group'[h], group[h])
         /\ \A h \in Gids : SameSlots(group'[h], group[h])
         /\ UNCHANGED <<joined, mapped, loc, beats, samples>>
<1> DEFINE old == group[g]
           gr == [old EXCEPT !.armed = FALSE, !.running = TRUE]
<1>1. TypeOK /\ old \in GroupRec BY DEF IInv, TypeOK
<1>2. group' = [group EXCEPT ![g] = gr] /\ UNCHANGED <<joined, mapped, loc, beats, samples>>
  BY DEF TimerFire
<1>3. old = group[g] OBVIOUS
<1> HIDE DEF old
<1>4. /\ gr.running /\ gr.ring = old.ring /\ gr.timestamp = old.timestamp
      /\ SameGoal(gr, old) /\ SameMaps(gr, old) /\ SameSlots(gr, old)
  BY <1>1 DEF GroupRec, SameGoal, SameMaps, SameSlots
<1> HIDE DEF gr
<1>5. \A h \in Gids : group'[h] = IF h = g THEN gr ELSE group[h] BY <1>1, <1>2, Written
<1> QED BY <1>1, <1>2, <1>3, <1>4, <1>5, OthersSame

\* The callback of the timer takes a sample and publishes the measures.
Takes(g, n, e) ==
  /\ group'[g].ring = Advance(Sampled(group[g].ring, n, e))
  /\ samples'[g] = Remember(samples[g], [counter |-> n, elapsed_time |-> e], Depth)
  /\ group'[g].timestamp = group[g].timestamp /\ group[g].timestamp # 0
  /\ group'[g].measures = UpdateMeasures(group[g].measures, group[g].ring, group[g].goal, n, e)

LEMMA BodyFrame ==
  ASSUME IInv, NEW g \in Gids, NEW d \in Periods, TimerBody(g, d)
  PROVE  /\ \A h \in Gids : h # g => group'[h] = group[h] /\ samples'[h] = samples[h]
         /\ \E n \in Nat, e \in Nat : Takes(g, n, e)
         /\ \A h \in Gids : SameGoal(group'[h], group[h])
         /\ \A h \in Gids : SameMaps(group'[h], group[h])
         /\ \A h \in Gids : SameSlots(group'[h], group[h])
         /\ UNCHANGED <<joined, mapped, loc, beats>>
<1> DEFINE old == group[g]
           e == now' - old.timestamp
           n == Total(old)
           gr == Measured(old, n, e)
           sample == [counter |-> n, elapsed_time |-> e]
<1>1. TypeOK /\ TimerExact BY DEF IInv
<1>2. old \in GroupRec /\ TimerFits(old) BY <1>1 DEF TypeOK, TimerExact
<1>3. e \in Nat /\ \A k \in RingIdx : old.ring.window[k].elapsed_time <= e BY TimerBodyTime
<1>4. n \in Nat BY <1>2, TotalType
<1>5. /\ group' = [group EXCEPT ![g] = gr] /\ samples' = [samples EXCEPT ![g] = Remember(@, sample, Depth)]
      /\ old.running /\ UNCHANGED <<joined, mapped, loc, lock, beats>>
  BY TimerBodyIs
<1>6. old = group[g] /\ gr = Measured(old, n, e) OBVIOUS
<1>7. /\ \A h \in Gids : h # g => samples'[h] = samples[h]
      /\ samples'[g] = Remember(samples[g], sample, Depth)
  BY <1>1, <1>5 DEF TypeOK
<1> HIDE DEF e, n, old, gr
<1>8. /\ gr.timestamp = old.timestamp /\ gr.ring = Advance(Sampled(old.ring, n, e))
      /\ gr.measures = UpdateMeasures(old.measures, old.ring, old.goal, n, e)
  BY <1>2, <1>3, <1>4, <1>6, MeasuredIs
<1>9. SameGoal(gr, old) /\ SameMaps(gr, old) /\ SameSlots(gr, old)
  BY <1>2, <1>6 DEF Measured, Restarted, GroupRec, SameGoal, SameMaps, SameSlots
<1>10. \A h \in Gids : group'[h] = IF h = g THEN gr ELSE group[h] BY <1>1, <1>5, Written
<1>11. old.timestamp # 0 BY <1>2, <1>5 DEF TimerFits
<1>12. Takes(g, n, e) BY <1>6, <1>7, <1>8, <1>10, <1>11 DEF Takes
<1>13. /\ \A h \in Gids : SameGoal(group'[h], group[h])
       /\ \A h \in Gids : SameMaps(group'[h], group[h])
       /\ \A h \in Gids : SameSlots(group'[h], group[h])
  BY <1>1, <1>5, <1>6, <1>9, OthersSame
<1> QED BY <1>3, <1>4, <1>5, <1>7, <1>10, <1>12, <1>13
-----------------------------------------------------------------------------
(***************************************************************************)
(* The ring of samples.  After c samples, counting the one that stands for *)
(* the start, it holds the newest of them at the slots before the cursor.  *)
(***************************************************************************)
SIZE == HRM_MAX_WINDOW_SIZE

RingHolds(ring, q, c) ==
  /\ ring.buffered = IF c < SIZE THEN c ELSE SIZE
  /\ Len(q) = IF c < Depth THEN c ELSE Depth
  /\ \A i \in 1 .. SIZE : i <= Len(q) => ring.window[(ring.window_cur - i) % SIZE] = q[i]

\* A step back in the ring wraps around once.
LEMMA StepBack ==
  ASSUME NEW c \in RingIdx, NEW i \in 0 .. SIZE
  PROVE  /\ (c - i) % SIZE = IF i <= c THEN c - i ELSE c - i + SIZE
         /\ (c - i) % SIZE \in RingIdx
<1>1. SIZE \in Nat /\ SIZE >= 2 BY WindowAssumption DEF SIZE
<1>2. c \in Nat /\ c < SIZE BY <1>1 DEF RingIdx, SIZE
<1> HIDE DEF SIZE
<1>3. (c - i) % SIZE = IF i <= c THEN c - i ELSE c - i + SIZE BY <1>1, <1>2
<1>4. (c - i) % SIZE \in 0 .. SIZE - 1 BY <1>1, <1>2
<1> QED BY <1>3, <1>4 DEF RingIdx, SIZE

LEMMA StepOn ==
  ASSUME NEW c \in RingIdx
  PROVE  (c + 1) % SIZE = IF c + 1 < SIZE THEN c + 1 ELSE 0
<1>1. SIZE \in Nat /\ SIZE >= 2 BY WindowAssumption DEF SIZE
<1>2. c \in Nat /\ c < SIZE BY <1>1 DEF RingIdx, SIZE
<1> HIDE DEF SIZE
<1>3. CASE c + 1 < SIZE BY <1>1, <1>2, <1>3
<1>4. CASE ~(c + 1 < SIZE)
  <2>1. c + 1 = SIZE BY <1>1, <1>2, <1>4
  <2>2. SIZE % SIZE = 0 BY <1>1
  <2> QED BY <1>4, <2>1, <2>2
<1> QED BY <1>3, <1>4

\* The slot that i steps back from the next cursor is the one i - 1 steps back from this.
LEMMA StepShift ==
  ASSUME NEW c \in RingIdx, NEW i \in 1 .. SIZE
  PROVE  /\ (((c + 1) % SIZE) - i) % SIZE = (c - (i - 1)) % SIZE
         /\ i > 1 => (c - (i - 1)) % SIZE # c
         /\ (c - 0) % SIZE = c
<1>1. SIZE \in Nat /\ SIZE >= 2 BY WindowAssumption DEF SIZE
<1>2. c \in Nat /\ c < SIZE BY <1>1 DEF RingIdx, SIZE
<1> DEFINE d == (c + 1) % SIZE
           j == i - 1
<1>3. d = IF c + 1 < SIZE THEN c + 1 ELSE 0 BY StepOn
<1>4. d \in RingIdx BY <1>1, <1>2, <1>3 DEF RingIdx, SIZE
<1>5. i \in 0 .. SIZE /\ j \in 0 .. SIZE /\ 0 \in 0 .. SIZE BY <1>1
<1> HIDE DEF d, j
<1>6. (d - i) % SIZE = IF i <= d THEN d - i ELSE d - i + SIZE BY <1>4, <1>5, StepBack
<1>7. (c - j) % SIZE = IF j <= c THEN c - j ELSE c - j + SIZE BY <1>5, StepBack
<1>8. (c - 0) % SIZE = IF 0 <= c THEN c - 0 ELSE c - 0 + SIZE BY <1>5, StepBack
<1>9. i \in Nat /\ i >= 1 /\ i <= SIZE /\ j = i - 1 BY <1>1 DEF j
<1> DEFINE a == (d - i) % SIZE
           b == (c - j) % SIZE
<1>10. a = b
  <2> HIDE DEF a, b, SIZE
  <2>1. a = IF i <= d THEN d - i ELSE d - i + SIZE BY <1>6 DEF a
  <2>2. b = IF j <= c THEN c - j ELSE c - j + SIZE BY <1>7 DEF b
  <2> QED BY <1>1, <1>2, <1>3, <1>9, <2>1, <2>2
<1>11. i > 1 => b # c
  <2> HIDE DEF b, SIZE
  <2>1. b = IF j <= c THEN c - j ELSE c - j + SIZE BY <1>7 DEF b
  <2> QED BY <1>1, <1>2, <1>9, <2>1
<1>12. (c - 0) % SIZE = c BY <1>2, <1>8
<1> QED BY <1>10, <1>11, <1>12 DEF d, j

\* The ring as the first producer starts it.
LEMMA StartedHolds == RingHolds(StartedRing, <<NoSample>>, 1)
<1>1. SIZE \in Nat /\ SIZE >= 2 /\ 1 \in RingIdx /\ 0 \in RingIdx
  BY WindowAssumption DEF SIZE, RingIdx
<1>2. Depth \in Nat \ {0} BY DepthType
<1>3. Len(<<NoSample>>) = 1 /\ <<NoSample>>[1] = NoSample OBVIOUS
<1>4. /\ StartedRing.buffered = 1 /\ StartedRing.window_cur = 1
      /\ StartedRing.window[0] = NoSample
  BY <1>1 DEF StartedRing, EmptyRing
<1> DEFINE q == <<NoSample>>
<1>5. (1 - 1) % SIZE = 0
  <2>1. 1 \in 0 .. SIZE BY <1>1
  <2> QED BY <1>1, <2>1, StepBack
<1> HIDE DEF SIZE, q
<1>6. Len(q) = 1 /\ q[1] = NoSample BY <1>3 DEF q
<1>7. ASSUME NEW i \in 1 .. SIZE, i <= Len(q)
      PROVE  StartedRing.window[(StartedRing.window_cur - i) % SIZE] = q[i]
  <2>1. i = 1 BY <1>1, <1>6, <1>7
  <2> QED BY <1>4, <1>5, <1>6, <2>1
<1>8. RingHolds(StartedRing, q, 1) BY <1>1, <1>2, <1>4, <1>6, <1>7 DEF RingHolds
<1> QED BY <1>8 DEF q

\* One more sample: it goes to the cursor, which then moves on.
LEMMA TakenHolds ==
  ASSUME NEW ring \in Ring, NEW q \in Seq(Sample), NEW c \in Nat \ {0}, RingHolds(ring, q, c),
         NEW n \in Nat, NEW e \in Nat
  PROVE  RingHolds(Advance(Sampled(ring, n, e)),
                   Remember(q, [counter |-> n, elapsed_time |-> e], Depth), c + 1)
<1> DEFINE s == [counter |-> n, elapsed_time |-> e]
           r == Sampled(ring, n, e)
           a == Advance(r)
           p == Remember(q, s, Depth)
           cur == ring.window_cur
<1>1. SIZE \in Nat /\ SIZE >= 2 BY WindowAssumption DEF SIZE
<1>2. Depth \in Nat \ {0} BY DepthType
<1>3. s \in Sample BY DEF Sample
<1>4. cur \in RingIdx /\ ring.buffered \in 0 .. SIZE BY DEF Ring, SIZE
<1>5. /\ r \in Ring /\ r.window_cur = cur /\ r.buffered = ring.buffered
      /\ \A k \in RingIdx : r.window[k] = IF k = cur THEN s ELSE ring.window[k]
  BY SampledType
<1> HIDE DEF s, r, cur
<1>6. a.window = r.window BY <1>5, AdvanceType
<1>7. /\ a.buffered = IF r.buffered < SIZE THEN r.buffered + 1 ELSE r.buffered
      /\ a.window_cur = (r.window_cur + 1) % SIZE
  BY <1>5 DEF Advance, Ring, SIZE
<1>8. /\ Len(p) = IF Len(q) + 1 > Depth THEN Depth ELSE Len(q) + 1
      /\ p[1] = s /\ \A i \in 2 .. Len(p) : p[i] = q[i - 1]
  BY <1>2, <1>3, RememberType
<1>9. Len(q) \in Nat OBVIOUS
<1> HIDE DEF a, p
<1>10. /\ ring.buffered = IF c < SIZE THEN c ELSE SIZE
       /\ Len(q) = IF c < Depth THEN c ELSE Depth
       /\ \A i \in 1 .. SIZE : i <= Len(q) => ring.window[(cur - i) % SIZE] = q[i]
  BY DEF RingHolds, cur
<1> HIDE DEF SIZE
<1>11. a.buffered = IF c + 1 < SIZE THEN c + 1 ELSE SIZE BY <1>1, <1>5, <1>7, <1>10
<1>12. Len(p) = IF c + 1 < Depth THEN c + 1 ELSE Depth BY <1>2, <1>8, <1>9, <1>10
<1>13. ASSUME NEW i \in 1 .. SIZE, i <= Len(p)
       PROVE  a.window[(a.window_cur - i) % SIZE] = p[i]
  <2> DEFINE j == i - 1
             k == (cur - j) % SIZE
  <2>1. (a.window_cur - i) % SIZE = k
    <3>1. a.window_cur = (cur + 1) % SIZE BY <1>5, <1>7
    <3> QED BY <1>4, <3>1, StepShift
  <2>2. i \in Nat /\ i >= 1 /\ i <= SIZE /\ j \in 0 .. SIZE /\ j = i - 1 BY <1>1
  <2>3. k \in RingIdx BY <1>4, <2>2, StepBack
  <2>4. i > 1 => k # cur BY <1>4, StepShift
  <2>5. i = 1 => k = cur
    <3>1. (cur - 0) % SIZE = cur BY <1>4, StepShift
    <3> QED BY <3>1
  <2>6. i > 1 => ring.window[k] = q[j]
    <3>1. Len(q) \in Nat /\ Len(p) \in Nat /\ Len(p) <= Len(q) + 1 BY <1>2, <1>8, <1>9
    <3>2. i > 1 => j \in 1 .. SIZE /\ j <= Len(q) BY <1>1, <1>13, <2>2, <3>1
    <3> QED BY <1>10, <3>2
  <2>7. a.window[k] = IF k = cur THEN s ELSE ring.window[k] BY <1>5, <1>6, <2>3
  <2>8. i > 1 => p[i] = q[j]
    <3>1. Len(p) \in Nat BY <1>2, <1>12
    <3>2. i > 1 => i \in 2 .. Len(p) BY <1>13, <2>2, <3>1
    <3> QED BY <1>8, <3>2
  <2> HIDE DEF k, j
  <2>9. CASE i = 1 BY <1>8, <2>1, <2>5, <2>7, <2>9
  <2>10. CASE i > 1 BY <2>1, <2>4, <2>6, <2>7, <2>8, <2>10
  <2> QED BY <2>2, <2>9, <2>10
<1>14. RingHolds(a, p, c + 1) BY <1>11, <1>12, <1>13 DEF RingHolds
<1> QED BY <1>14 DEF a, p, r, s

\* A window shorter than the ring, measured from the ring, is measured from the samples.
LEMMA WindowRight ==
  ASSUME NEW ring \in Ring, NEW q \in Seq(Sample), NEW c \in Nat \ {0}, RingHolds(ring, q, c),
         NEW n \in Nat, NEW e \in Nat, NEW ws \in 1 .. SIZE - 1, ws < Depth
  PROVE  MeasureWindow(Sampled(ring, n, e), n, e, ws) =
           MeasureOf(Remember(q, [counter |-> n, elapsed_time |-> e], Depth), ws)
<1> DEFINE s == [counter |-> n, elapsed_time |-> e]
           r == Sampled(ring, n, e)
           p == Remember(q, s, Depth)
           cur == ring.window_cur
           m == IF ws <= c THEN ws ELSE c
           k == (cur - m) % SIZE
<1>1. SIZE \in Nat /\ SIZE >= 2 BY WindowAssumption DEF SIZE
<1>2. Depth \in Nat \ {0} BY DepthType
<1>3. s \in Sample /\ s.counter = n /\ s.elapsed_time = e BY DEF Sample
<1>4. cur \in RingIdx BY DEF Ring
<1>5. /\ r.window_cur = cur /\ r.buffered = ring.buffered
      /\ \A x \in RingIdx : r.window[x] = IF x = cur THEN s ELSE ring.window[x]
  BY SampledType
<1> HIDE DEF s, r, cur
<1>6. /\ Len(p) = IF Len(q) + 1 > Depth THEN Depth ELSE Len(q) + 1
      /\ p[1] = s /\ \A i \in 2 .. Len(p) : p[i] = q[i - 1]
  BY <1>2, <1>3, RememberType, ZenonT(30)
<1> HIDE DEF p
<1>7. /\ ring.buffered = IF c < SIZE THEN c ELSE SIZE
      /\ Len(q) = IF c < Depth THEN c ELSE Depth
      /\ \A i \in 1 .. SIZE : i <= Len(q) => ring.window[(cur - i) % SIZE] = q[i]
  BY DEF RingHolds, cur
<1>8. FirstOf(r, ws) = (cur - (IF ws > ring.buffered THEN ring.buffered ELSE ws)) % SIZE
  BY <1>5 DEF FirstOf, SIZE
<1> HIDE DEF SIZE
<1>9. (IF ws > ring.buffered THEN ring.buffered ELSE ws) = m BY <1>1, <1>7
<1>10. FirstOf(r, ws) = k BY <1>8, <1>9
<1>11. m \in 1 .. SIZE - 1 /\ m \in Nat /\ m >= 1 /\ m <= Len(q) /\ m + 1 <= Len(p) BY <1>1, <1>2, <1>6, <1>7
<1>12. Len(p) \in Nat BY <1>2, <1>6, <1>7
<1>13. (IF ws < Len(p) THEN ws + 1 ELSE Len(p)) = m + 1 BY <1>1, <1>2, <1>6, <1>7
<1> HIDE DEF m
<1>14. p[m + 1] = q[m]
  <2>1. m + 1 \in 2 .. Len(p) /\ (m + 1) - 1 = m BY <1>11, <1>12
  <2> QED BY <1>6, <2>1
<1>15. ring.window[k] = q[m]
  <2>1. m \in 1 .. SIZE BY <1>1, <1>11
  <2> QED BY <1>7, <1>11, <2>1
<1>16. k \in RingIdx /\ k # cur
  <2>1. m \in 0 .. SIZE BY <1>1, <1>11
  <2>2. k \in RingIdx BY <1>4, <2>1, StepBack
  <2>3. m + 1 \in 1 .. SIZE /\ m + 1 > 1 /\ (m + 1) - 1 = m BY <1>1, <1>11
  <2> DEFINE i == m + 1
  <2>4. i \in 1 .. SIZE /\ i > 1 /\ i - 1 = m BY <2>3
  <2> HIDE DEF i
  <2>5. (cur - (i - 1)) % SIZE # cur BY <1>4, <2>4, StepShift
  <2> QED BY <2>2, <2>4, <2>5
<1> HIDE DEF k
<1>17. r.window[k] = p[m + 1] BY <1>5, <1>14, <1>15, <1>16
<1> DEFINE first == r.window[k]
<1>18. MeasureWindow(r, n, e, ws) = [count |-> (n - first.counter) % CountMod, time |-> e - first.elapsed_time]
  BY <1>10 DEF MeasureWindow
<1>19. MeasureOf(p, ws) = [count |-> (p[1].counter - p[m + 1].counter) % CountMod,
                           time  |-> p[1].elapsed_time - p[m + 1].elapsed_time]
  BY <1>13 DEF MeasureOf
<1>20. MeasureWindow(r, n, e, ws) = MeasureOf(p, ws) BY <1>3, <1>6, <1>17, <1>18, <1>19
<1> QED BY <1>20 DEF p, r, s

\* Once a group has been started its ring holds its samples.
RingFits(gr, q) == gr.timestamp # 0 => \E c \in Nat \ {0} : RingHolds(gr.ring, q, c)

\* The windows in the table are windows that were asked for.
GoalFits(goal) == \A i \in Windows : goal.window_size[i] \in WindowAsks \cup {0}

RingExact == \A g \in Gids : RingFits(group[g], samples[g]) /\ GoalFits(group[g].goal)

\* What a step does to the ring of group g.
RingStep(g) ==
  \/ SameRing(group'[g], group[g]) /\ samples'[g] = samples[g]
  \/ ~group[g].running /\ group'[g].timestamp = 0
  \/ ~group[g].running /\ group'[g].ring = StartedRing /\ samples'[g] = <<NoSample>>
  \/ /\ group'[g].ring = group[g].ring /\ group'[g].timestamp = group[g].timestamp
     /\ samples'[g] = samples[g] /\ group'[g].running
  \/ \E n \in Nat, e \in Nat : Takes(g, n, e)

\* What a step does to the table of windows of group g.
GoalStep(g) == GoalFits(group[g].goal) => GoalFits(group'[g].goal)

DataStep == \A h \in Gids : RingStep(h) /\ GoalStep(h)

\* A step of which the frame is known.
LEMMA CalmStep ==
  ASSUME \A h \in Gids : SameRing(group'[h], group[h]), samples' = samples,
         \A h \in Gids : SameGoal(group'[h], group[h])
  PROVE  DataStep
<1>1. \A h \in Gids : RingStep(h) BY DEF RingStep
<1>2. \A h \in Gids : GoalStep(h) BY DEF GoalStep, SameGoal, GoalFits
<1> QED BY <1>1, <1>2 DEF DataStep

LEMMA NoGoalFits == GoalFits(NoGoal)
BY DEF GoalFits, NoGoal

LEMMA AddWindowFits ==
  ASSUME NEW goal \in Goal, GoalFits(goal), NEW ws \in WindowAsks, Places(goal, ws) # {}
  PROVE  GoalFits(AddWindow(goal, ws))
<1>1. Places(goal, ws) \subseteq Windows /\ Windows \subseteq Nat BY DEF Places, Windows
<1>2. FirstIn(Places(goal, ws)) \in Windows BY <1>1, FirstInIs
<1> QED BY <1>2 DEF AddWindow, Goal, GoalFits

LEMMA DelWindowFits ==
  ASSUME NEW goal \in Goal, GoalFits(goal), NEW ws, Holders(goal, ws) # {}
  PROVE  GoalFits(DelWindow(goal, ws))
<1>1. Holders(goal, ws) \subseteq Windows /\ Windows \subseteq Nat BY DEF Holders, Windows
<1>2. FirstIn(Holders(goal, ws)) \in Windows BY <1>1, FirstInIs
<1> QED BY <1>2 DEF DelWindow, Goal, GoalFits

\* A step that writes a goal.
LEMMA GoalWritten ==
  ASSUME TypeOK, NEW g \in Gids, NEW goal, GoalFits(group[g].goal) => GoalFits(goal),
         group' = [group EXCEPT ![g] = [group[g] EXCEPT !.goal = goal]], samples' = samples
  PROVE  DataStep
<1>1. /\ \A h \in Gids : SameRing(group'[h], group[h])
      /\ \A h \in Gids : group'[h].goal = IF h = g THEN goal ELSE group[h].goal
  BY GoalFrame, ZenonT(30)
<1>2. \A h \in Gids : RingStep(h) BY <1>1 DEF RingStep
<1>3. \A h \in Gids : GoalStep(h) BY <1>1 DEF GoalStep
<1> QED BY <1>2, <1>3 DEF DataStep

LEMMA AddWindowStep ==
  ASSUME TypeOK, NEW g \in Gids, NEW ws \in WindowAsks, Places(group[g].goal, ws) # {},
         group' = [group EXCEPT ![g].goal = AddWindow(@, ws)], samples' = samples
  PROVE  DataStep
<1> DEFINE old == group[g].goal
           goal == AddWindow(old, ws)
<1>1. old \in Goal BY GroupFields DEF TypeOK
<1>2. GoalFits(old) => GoalFits(goal)
  <2>1. goal = AddWindow(old, ws) /\ Places(old, ws) # {} OBVIOUS
  <2> HIDE DEF old, goal
  <2> QED BY <1>1, <2>1, AddWindowFits
<1>3. group' = [group EXCEPT ![g] = [group[g] EXCEPT !.goal = goal]] OBVIOUS
<1> HIDE DEF goal
<1> QED BY <1>2, <1>3, GoalWritten

LEMMA DelWindowStep ==
  ASSUME IInv, NEW t \in Tasks, EndDelWindow(t)
  PROVE  DataStep
<1> DEFINE g == loc[t].gid
           n == loc[t].size
           old == group[g].goal
           goal == DelWindow(old, n)
<1>1. TypeOK /\ g \in Gids /\ group[g] \in GroupRec BY AtGroup DEF EndDelWindow
<1>2. old \in Goal BY <1>1, GroupFields
<1>3. samples' = samples BY DEF EndDelWindow
<1>4. CASE Holders(old, n) = {}
  <2>1. group' = group BY <1>4 DEF EndDelWindow
  <2> QED BY <1>3, <2>1, CalmStep DEF SameRing, SameGoal
<1>5. CASE Holders(old, n) # {}
  <2>1. group' = [group EXCEPT ![g] = [group[g] EXCEPT !.goal = goal]] BY <1>5 DEF EndDelWindow
  <2>2. GoalFits(old) => GoalFits(goal)
    <3>1. goal = DelWindow(old, n) OBVIOUS
    <3> HIDE DEF old, goal, n
    <3> QED BY <1>2, <1>5, <3>1, DelWindowFits
  <2> HIDE DEF goal, g
  <2> QED BY <1>1, <1>3, <2>1, <2>2, GoalWritten DEF old
<1> QED BY <1>4, <1>5

\* A scope is not part of the table.
LEMMA ScopeStep ==
  ASSUME TypeOK, NEW g \in Gids, NEW n, group' = [group EXCEPT ![g].goal.scope = n], samples' = samples
  PROVE  DataStep
<1> DEFINE old == group[g].goal
           goal == [old EXCEPT !.scope = n]
<1>1. old \in Goal BY GroupFields DEF TypeOK
<1>2. goal.window_size = old.window_size
  <2> HIDE DEF old
  <2> QED BY <1>1 DEF Goal
<1>3. group' = [group EXCEPT ![g] = [group[g] EXCEPT !.goal = goal]] OBVIOUS
<1> HIDE DEF goal
<1>4. GoalFits(group[g].goal) => GoalFits(goal) BY <1>2 DEF GoalFits, old
<1> QED BY <1>3, <1>4, GoalWritten

\* A step that makes or frees a group.
LEMMA FreshStep ==
  ASSUME NEW g \in Gids, Fresh(group'[g]), ~group[g].running,
         \A h \in Gids : h # g => group'[h] = group[h] /\ samples'[h] = samples[h]
  PROVE  DataStep
<1>1. RingStep(g) BY DEF RingStep, Fresh
<1>2. GoalStep(g) BY NoGoalFits DEF GoalStep, Fresh
<1>3. \A h \in Gids : h # g => RingStep(h) /\ GoalStep(h) BY DEF RingStep, GoalStep, SameRing
<1> QED BY <1>1, <1>2, <1>3 DEF DataStep

LEMMA AddStep ==
  ASSUME IInv, NEW t \in Tasks, NEW g \in Gids, AddProducer(t, g) \/ AddConsumer(t, g)
  PROVE  DataStep
<1>1. /\ \A h \in Gids : h # g => group'[h] = group[h]
      /\ UNCHANGED samples
  BY AddFrame
<1>2. CASE SameRing(group'[g], group[g]) /\ SameGoal(group'[g], group[g])
  <2>1. \A h \in Gids : SameRing(group'[h], group[h]) BY <1>1, <1>2 DEF SameRing
  <2>2. \A h \in Gids : SameGoal(group'[h], group[h]) BY <1>1, <1>2 DEF SameGoal
  <2> QED BY <1>1, <2>1, <2>2, CalmStep
<1>3. CASE Fresh(group'[g]) /\ ~group[g].running BY <1>1, <1>3, FreshStep
<1> QED BY <1>2, <1>3, AddFrame

LEMMA LinkStep ==
  ASSUME IInv, NEW t \in Tasks, LinkProducer(t)
  PROVE  DataStep
<1> DEFINE g == loc[t].gid
<1>1. g \in Gids BY AtGroup DEF LinkProducer
<1>2. /\ \A h \in Gids : h # g => group'[h] = group[h] /\ samples'[h] = samples[h]
      /\ \A h \in Gids : SameGoal(group'[h], group[h])
      /\ \/ SameRing(group'[g], group[g]) /\ samples' = samples
         \/ /\ ~group[g].running /\ group'[g].ring = StartedRing
            /\ samples'[g] = <<NoSample>>
  BY LinkFrame
<1> HIDE DEF g
<1>3. RingStep(g) BY <1>2 DEF RingStep
<1>4. \A h \in Gids : h # g => RingStep(h) BY <1>2 DEF RingStep, SameRing
<1>5. \A h \in Gids : GoalStep(h) BY <1>2 DEF GoalStep, SameGoal
<1> QED BY <1>3, <1>4, <1>5 DEF DataStep

LEMMA TimerStep ==
  ASSUME IInv, NEW g \in Gids, Timer(g)
  PROVE  DataStep
<1>1. CASE TimerFire(g)
  <2>1. \A h \in Gids : RingStep(h) BY <1>1, FireFrame DEF RingStep, SameRing
  <2>2. \A h \in Gids : GoalStep(h) BY <1>1, FireFrame DEF GoalStep, SameGoal
  <2> QED BY <2>1, <2>2 DEF DataStep
<1>2. ASSUME NEW d \in Periods, TimerBody(g, d) PROVE DataStep
  <2>1. RingStep(g) BY <1>2, BodyFrame DEF RingStep
  <2>2. \A h \in Gids : h # g => RingStep(h) BY <1>2, BodyFrame DEF RingStep, SameRing
  <2>3. \A h \in Gids : GoalStep(h) BY <1>2, BodyFrame DEF GoalStep, SameGoal
  <2> QED BY <2>1, <2>2, <2>3 DEF DataStep
<1> QED BY <1>1, <1>2 DEF Timer

LEMMA MmapStep ==
  ASSUME IInv, NEW t \in Tasks, NEW memory \in Memories, NEW fails, Mmap(t, memory, fails)
  PROVE  DataStep
<1> DEFINE g == loc[t].gid
           role == loc[t].role
<1>1. loc[t].pc \in {"map_counters", "map_goal"} BY DEF Mmap
<1>2. TypeOK /\ g \in Gids /\ role \in Roles BY <1>1, AtGroup
<1>3. samples' = samples /\ (Maps(t, memory) \/ BeginLeave(t, g, role)) BY MmapIs
<1>4. CASE Maps(t, memory) BY <1>2, <1>3, <1>4, MapsFrame, CalmStep
<1>5. CASE BeginLeave(t, g, role)
  <2> HIDE DEF g, role
  <2>1. /\ \A h \in Gids : SameRing(group'[h], group[h])
        /\ \A h \in Gids : SameGoal(group'[h], group[h])
    BY <1>2, <1>5, BeginLeaveFrame
  <2> QED BY <1>3, <2>1, CalmStep
<1> QED BY <1>3, <1>4, <1>5

LEMMA TaskStep ==
  ASSUME IInv, NEW t \in Tasks, Continue(t) \/ Wait(t) \/ Call(t)
  PROVE  DataStep
<1>1. TypeOK BY DEF IInv
<1>2. ASSUME group' = group, samples' = samples PROVE DataStep
  BY <1>2, CalmStep DEF SameRing, SameGoal
<1>3. CASE LinkProducer(t) BY <1>3, LinkStep
<1>4. CASE Fold(t)
  <2>1. samples' = samples BY <1>4 DEF Fold
  <2> QED BY <1>4, <2>1, FoldFrame, CalmStep
<1>5. CASE Release(t)
  <2>1. samples' = samples BY <1>5 DEF Release
  <2> QED BY <1>5, <2>1, ReleaseFrame, CalmStep
<1>6. ASSUME NEW memory \in Memories, NEW fails, Mmap(t, memory, fails) PROVE DataStep BY <1>6, MmapStep
<1>7. CASE SetGoalScope(t)
  <2> DEFINE g == loc[t].gid
             n == loc[t].size
  <2>1. g \in Gids BY <1>7, AtGroup DEF SetGoalScope
  <2>2. group' = [group EXCEPT ![g].goal.scope = n] /\ samples' = samples BY <1>7 DEF SetGoalScope
  <2> HIDE DEF g, n
  <2> QED BY <1>1, <2>1, <2>2, ScopeStep
<1>8. CASE EndDelWindow(t) BY <1>8, DelWindowStep
<1>9. CASE Unlink(t)
  <2>1. samples' = samples BY <1>9 DEF Unlink
  <2> QED BY <1>9, <2>1, UnlinkFrame, CalmStep
<1>10. CASE Destroy(t)
  <2> DEFINE g == loc[t].gid
  <2>1. g \in Gids BY <1>10, AtGroup DEF Destroy
  <2>2. /\ \A h \in Gids : h # g => group'[h] = group[h] /\ samples'[h] = samples[h]
        /\ Fresh(group'[g]) /\ ~group[g].running
    BY <1>10, DestroyFrame
  <2> HIDE DEF g
  <2> QED BY <2>1, <2>2, FreshStep
<1>11. ASSUME \/ Exit(t) \/ Fork(t) \/ ExitDone(t)
              \/ \E role \in Roles : ExitGroups(t, role)
              \/ \E g \in Gids, ws \in WindowAsks : BeginDelWindow(t, g, ws)
       PROVE DataStep
  BY <1>2, <1>11, QuietFrame
<1>12. ASSUME NEW g \in Gids, AddProducer(t, g) \/ AddConsumer(t, g) PROVE DataStep BY <1>12, AddStep
<1>13. ASSUME NEW g \in Gids, Heartbeat(t, g) PROVE DataStep
  <2>1. samples' = samples BY <1>13 DEF Heartbeat
  <2> QED BY <1>1, <1>13, <2>1, HeartbeatFrame, CalmStep
<1>14. ASSUME NEW g \in Gids, UnsetGoal(t, g) PROVE DataStep
  <2>1. group' = [group EXCEPT ![g].goal.scope = 0] /\ samples' = samples BY <1>14 DEF UnsetGoal
  <2> QED BY <1>1, <2>1, ScopeStep
<1>15. ASSUME NEW g \in Gids, NEW role \in Roles, Detach(t, g, role) PROVE DataStep
  <2>1. BeginLeave(t, g, role) /\ samples' = samples BY <1>15 DEF Detach
  <2> QED BY <1>1, <2>1, BeginLeaveFrame, CalmStep
<1>16. ASSUME NEW g \in Gids, NEW ws \in WindowAsks,
              SetGoalWindow(t, g, ws) \/ \E role \in Roles : Add(t, g, role, ws)
       PROVE  DataStep
  <2>1. /\ Places(group[g].goal, ws) # {}
        /\ group' = [group EXCEPT ![g].goal = AddWindow(@, ws)] /\ samples' = samples
    BY <1>16 DEF SetGoalWindow, Add
  <2> QED BY <1>1, <2>1, AddWindowStep
<1>17. CASE Continue(t) BY <1>3, <1>4, <1>5, <1>6, <1>7, <1>8, <1>11, <1>17 DEF Continue
<1>18. CASE Wait(t) BY <1>9, <1>10, <1>11, <1>18 DEF Wait
<1>19. CASE Call(t) BY <1>11, <1>12, <1>13, <1>14, <1>15, <1>16, <1>19 DEF Call
<1> QED BY <1>17, <1>18, <1>19

LEMMA NextRing ==
  ASSUME IInv, [Next]_vars
  PROVE  DataStep
<1>1. ASSUME NEW t \in Tasks, Continue(t) \/ Wait(t) \/ Call(t)
      PROVE  DataStep
  BY <1>1, TaskStep
<1>2. ASSUME NEW g \in Gids, Timer(g) PROVE DataStep
  BY <1>2, TimerStep
<1>3. CASE UNCHANGED vars
  <2>1. group' = group /\ samples' = samples BY <1>3 DEF vars
  <2> QED BY <2>1, CalmStep DEF SameRing, SameGoal
<1> QED BY <1>1, <1>2, <1>3 DEF Next

\* A sample that is taken keeps the ring.
LEMMA RingStepKeeps ==
  ASSUME IInv, NEW g \in Gids, RingFits(group[g], samples[g]), RingStep(g)
  PROVE  RingFits(group'[g], samples'[g])
<1>1. group[g].ring \in Ring /\ samples[g] \in Seq(Sample) BY GroupFields DEF IInv, TypeOK
<1>2. CASE SameRing(group'[g], group[g]) /\ samples'[g] = samples[g]
  BY <1>2 DEF RingFits, SameRing
<1>3. CASE group'[g].timestamp = 0 BY <1>3 DEF RingFits
<1>4. CASE group'[g].ring = StartedRing /\ samples'[g] = <<NoSample>>
  <2>1. RingHolds(group'[g].ring, samples'[g], 1) BY <1>4, StartedHolds
  <2>2. 1 \in Nat \ {0} OBVIOUS
  <2> QED BY <2>1, <2>2 DEF RingFits
<1>5. CASE /\ group'[g].ring = group[g].ring /\ group'[g].timestamp = group[g].timestamp
           /\ samples'[g] = samples[g]
  BY <1>5 DEF RingFits
<1>6. ASSUME NEW n \in Nat, NEW e \in Nat, Takes(g, n, e) PROVE RingFits(group'[g], samples'[g])
  <2> DEFINE ring == group[g].ring
             q == samples[g]
  <2>1. PICK c \in Nat \ {0} : RingHolds(ring, q, c) BY <1>6 DEF RingFits, Takes
  <2>2. /\ group'[g].ring = Advance(Sampled(ring, n, e))
        /\ samples'[g] = Remember(q, [counter |-> n, elapsed_time |-> e], Depth)
    BY <1>6 DEF Takes
  <2>3. ring \in Ring /\ q \in Seq(Sample) BY <1>1
  <2> HIDE DEF ring, q
  <2>4. RingHolds(group'[g].ring, samples'[g], c + 1) BY <2>1, <2>2, <2>3, TakenHolds
  <2>5. c + 1 \in Nat \ {0} OBVIOUS
  <2> QED BY <2>4, <2>5 DEF RingFits
<1> QED BY <1>2, <1>3, <1>4, <1>5, <1>6 DEF RingStep

LEMMA RingInit == Init => RingExact
<1> SUFFICES ASSUME Init, NEW g \in Gids PROVE RingFits(group[g], samples[g]) /\ GoalFits(group[g].goal)
  BY DEF RingExact
<1>1. group[g] = NoGroup BY DEF Init
<1>2. NoGroup.timestamp = 0 /\ NoGroup.goal = NoGoal BY DEF NoGroup
<1> QED BY <1>1, <1>2, NoGoalFits DEF RingFits

LEMMA RingNext == IInv /\ RingExact /\ [Next]_vars => RingExact'
<1> SUFFICES ASSUME IInv, RingExact, [Next]_vars, NEW g \in Gids
             PROVE  RingFits(group'[g], samples'[g]) /\ GoalFits(group'[g].goal)
  BY DEF RingExact, RingFits, GoalFits
<1>1. RingStep(g) /\ GoalStep(g) BY NextRing DEF DataStep
<1>2. RingFits(group[g], samples[g]) /\ GoalFits(group[g].goal) BY DEF RingExact
<1>3. RingFits(group'[g], samples'[g]) BY <1>1, <1>2, RingStepKeeps
<1> QED BY <1>1, <1>2, <1>3 DEF GoalStep

\* The ring of a started group always holds its newest samples, at the slots before the
\* cursor of __hrm_update_group_measures, and the table holds windows that were asked for.
THEOREM RingInvariant == Spec => []RingExact
<1>1. Init => RingExact BY RingInit
<1>2. IInv /\ RingExact /\ [Next]_vars => RingExact' BY RingNext
<1> QED BY <1>1, <1>2, Invariant, PTL DEF Spec

\* A timer that stops running has published the measures of one more sample.
LEMMA MeasuresStep ==
  ASSUME IInv, RingExact, [Next]_vars, NEW g \in Gids, group[g].running, ~group'[g].running,
         NEW i \in Windows, group[g].goal.window_size[i] \in 1 .. HRM_MAX_WINDOW_SIZE - 1
  PROVE  group'[g].measures.window[i] = MeasureOf(samples'[g], group[g].goal.window_size[i])
<1> DEFINE ring == group[g].ring
           q == samples[g]
           goal == group[g].goal
           ws == goal.window_size[i]
           ms == group[g].measures
<1>1. ring \in Ring /\ q \in Seq(Sample) BY GroupFields DEF IInv, TypeOK
<1>2. PICK n \in Nat, e \in Nat : Takes(g, n, e) BY NextRing DEF DataStep, RingStep, SameRing
<1>3. PICK c \in Nat \ {0} : RingHolds(ring, q, c) BY <1>2 DEF RingExact, RingFits, Takes
<1>4. ws \in 1 .. SIZE - 1 BY DEF SIZE
<1>5. SIZE \in Nat /\ SIZE >= 2 BY WindowAssumption DEF SIZE
<1>6. ws # 0 BY <1>4, <1>5
<1>7. ws \in WindowAsks BY <1>6 DEF RingExact, GoalFits
<1>8. ws < Depth BY <1>7, DepthIs
<1>9. ring.buffered # 0 BY <1>3, <1>5 DEF RingHolds
<1>10. group'[g].measures = UpdateMeasures(ms, ring, goal, n, e) BY <1>2 DEF Takes
<1>11. samples'[g] = Remember(q, [counter |-> n, elapsed_time |-> e], Depth) BY <1>2 DEF Takes
<1> HIDE DEF ring, q, ms, goal
<1>12. UpdateMeasures(ms, ring, goal, n, e).window[i] = MeasureWindow(Sampled(ring, n, e), n, e, ws)
  BY <1>6, <1>9 DEF UpdateMeasures
<1> HIDE DEF ws
<1>13. MeasureWindow(Sampled(ring, n, e), n, e, ws) =
         MeasureOf(Remember(q, [counter |-> n, elapsed_time |-> e], Depth), ws)
  BY <1>1, <1>3, <1>4, <1>8, WindowRight
<1> QED BY <1>10, <1>11, <1>12, <1>13 DEF ws, goal

\* The measures that are published are right: when the callback of the timer returns, the
\* measure of a window shorter than the ring is the difference between the newest sample
\* and the one that many periods ago, or the first, whatever the ring has dropped.
THEOREM MeasuresStayRight == Spec => MeasuresRight
<1> DEFINE P == \A g \in Gids : group[g].running /\ ~group'[g].running /\ group'[g].state # "none" =>
                  \A i \in Windows :
                    LET ws == group[g].goal.window_size[i]
                    IN  ws \in 1 .. HRM_MAX_WINDOW_SIZE - 1 =>
                          group'[g].measures.window[i] = MeasureOf(samples'[g], ws)
<1>1. IInv /\ RingExact /\ [Next]_vars => [P]_vars BY MeasuresStep
<1> QED BY <1>1, Invariant, RingInvariant, PTL DEF Spec, MeasuresRight
-----------------------------------------------------------------------------
(***************************************************************************)
(* The references of the mappings.                                         *)
(***************************************************************************)
\* The memberships through which process p has memory m of group g mapped.
Users(map, g, m, p) == {x \in Tasks \X Roles : Tgid[x[1]] = p /\ m \in map[x[1]][x[2]][g]}

\* A task has mapped only what belongs to groups it is in, and nothing twice.
TaskMaps(l, lists, map) ==
  /\ \A r \in Roles, g \in Gids : map[r][g] # {} => InList(lists[r], g)
  /\ l.pc = "map_counters" => map[l.role][l.gid] = {}
  /\ l.pc = "map_goal" => map[l.role][l.gid] \subseteq {"counters"}

MapExact == \A t \in Tasks : TaskMaps(loc[t], joined[t], mapped[t])

LEMMA UsersFinite ==
  ASSUME NEW map, NEW g, NEW m, NEW p
  PROVE  IsFiniteSet(Users(map, g, m, p)) /\ Cardinality(Users(map, g, m, p)) \in Nat
<1>1. IsFiniteSet(Roles)
  <2>1. IsFiniteSet({} \cup {"producer"}) BY FS_EmptySet, FS_AddElement
  <2>2. IsFiniteSet(({} \cup {"producer"}) \cup {"consumer"}) BY <2>1, FS_AddElement
  <2>3. Roles = ({} \cup {"producer"}) \cup {"consumer"} BY DEF Roles
  <2> QED BY <2>2, <2>3
<1>2. IsFiniteSet(Tasks) BY HrmAssumption
<1>3. IsFiniteSet(Tasks \X Roles) BY <1>1, <1>2, FS_Product
<1>4. Users(map, g, m, p) \subseteq Tasks \X Roles BY DEF Users
<1>5. IsFiniteSet(Users(map, g, m, p)) BY <1>3, <1>4, FS_Subset
<1> QED BY <1>5, FS_CardinalityType

\* A step of t that maps nothing, and in which nobody leaves a group.
LEMMA NoMapStep ==
  ASSUME TypeOK, MapExact, NEW t \in Tasks, NEW l, loc' = [loc EXCEPT ![t] = l], mapped' = mapped,
         \A u \in Tasks, r \in Roles, g \in Gids : InList(joined[u][r], g) => InList(joined'[u][r], g),
         \/ l.pc \notin {"map_counters", "map_goal"}
         \/ l.pc = "map_counters" /\ mapped[t][l.role][l.gid] = {}
  PROVE  MapExact'
<1>1. \A u \in Tasks : loc'[u] = IF u = t THEN l ELSE loc[u] BY DEF TypeOK
<1> SUFFICES ASSUME NEW u \in Tasks PROVE TaskMaps(loc'[u], joined'[u], mapped[u])
  BY DEF MapExact, TaskMaps, InList
<1>2. TaskMaps(loc[u], joined[u], mapped[u]) BY DEF MapExact
<1>3. \A r \in Roles, g \in Gids : mapped[u][r][g] # {} => InList(joined'[u][r], g)
  BY <1>2 DEF TaskMaps
<1>4. CASE u = t
  <2>1. loc'[u] = l BY <1>1, <1>4
  <2> QED BY <1>3, <1>4, <2>1 DEF TaskMaps
<1>5. CASE u # t
  <2>1. loc'[u] = loc[u] BY <1>1, <1>5
  <2> QED BY <1>2, <1>3, <2>1 DEF TaskMaps
<1> QED BY <1>4, <1>5

\* A step that changes no membership, no mapping, and where nobody is.
LEMMA StillMaps ==
  ASSUME MapExact, joined' = joined, mapped' = mapped, loc' = loc
  PROVE  MapExact'
BY DEF MapExact, TaskMaps, InList

\* References that are kept, or are those of a group just made.
LEMMA NoReference ==
  ASSUME IInv, MapsCurrent, mapped' = mapped,
         \A g \in Gids : SameMaps(group'[g], group[g]) \/ Fresh(group'[g])
  PROVE  MapsCurrent'
<1> SUFFICES ASSUME NEW g \in Gids, NEW m \in Memories, NEW p \in Pids
             PROVE  group'[g].maps[m][p] <= Cardinality(Users(mapped', g, m, p))
  BY DEF MapsCurrent, Users
<1>1. Users(mapped', g, m, p) = Users(mapped, g, m, p) BY DEF Users
<1>2. group[g].maps[m][p] <= Cardinality(Users(mapped, g, m, p)) BY DEF MapsCurrent, Users
<1>3. Cardinality(Users(mapped, g, m, p)) \in Nat BY UsersFinite
<1>4. CASE SameMaps(group'[g], group[g]) BY <1>1, <1>2, <1>4 DEF SameMaps
<1>5. CASE Fresh(group'[g])
  <2>1. group'[g].maps[m][p] = 0 BY <1>5 DEF Fresh
  <2> QED BY <1>1, <1>3, <2>1
<1> QED BY <1>4, <1>5

\* An mmap that succeeds: one more reference, and one more membership that uses it.
LEMMA MapsKeepMaps ==
  ASSUME IInv, MapExact, MapsCurrent, NEW t \in Tasks, NEW memory \in Memories, Maps(t, memory),
         loc[t].pc = (IF memory = "counters" THEN "map_counters" ELSE "map_goal"),
         InList(joined[t][loc[t].role], loc[t].gid), joined' = joined
  PROVE  MapExact' /\ MapsCurrent'
<1> DEFINE g == loc[t].gid
           role == loc[t].role
           p0 == Tgid[t]
           l == IF memory = "counters" THEN [loc[t] EXCEPT !.pc = "map_goal"] ELSE AtUser
           old == group[g].maps
           new == [old EXCEPT ![memory][p0] = @ + 1]
           x0 == <<t, role>>
<1>1. TypeOK /\ loc[t] \in LocRec /\ g \in Gids /\ role \in Roles /\ group[g] \in GroupRec BY AtGroup
<1>2. p0 \in Pids BY DEF Pids
<1>3. mapped \in [Tasks -> [Roles -> [Gids -> SUBSET Memories]]] BY <1>1 DEF TypeOK
<1>4. TaskMaps(loc[t], joined[t], mapped[t]) BY DEF MapExact
<1>5. memory \in {"counters", "measures_goal"} BY DEF Memories
<1>6. mapped[t][role][g] \subseteq (IF memory = "counters" THEN {} ELSE {"counters"})
  BY <1>4, <1>5 DEF TaskMaps
<1>7. memory \notin mapped[t][role][g] BY <1>5, <1>6
<1>8. mapped' = [mapped EXCEPT ![t][role][g] = @ \cup {memory}] BY DEF Maps
<1>9. loc' = [loc EXCEPT ![t] = l] BY DEF Maps
<1>10. /\ memory = "counters" => l.pc = "map_goal" /\ l.gid = g /\ l.role = role
       /\ memory # "counters" => l.pc = "user"
  BY <1>1 DEF LocRec, AtUser
<1>11. group' = [group EXCEPT ![g] = [group[g] EXCEPT !.maps = new]] BY DEF Maps
<1>12. old \in [Memories -> [Pids -> Nat]] BY <1>1, GroupFields
<1>13. InList(joined[t][role], g) OBVIOUS
<1> HIDE DEF g, role, l, old, p0
<1>14. \A u \in Tasks, r \in Roles, h \in Gids :
         mapped'[u][r][h] = IF u = t /\ r = role /\ h = g THEN mapped[t][role][g] \cup {memory}
                            ELSE mapped[u][r][h]
  BY <1>1, <1>3, <1>8
<1>15. \A u \in Tasks : loc'[u] = IF u = t THEN l ELSE loc[u] BY <1>1, <1>9 DEF TypeOK
<1>16. MapExact'
  <2> SUFFICES ASSUME NEW u \in Tasks PROVE TaskMaps(loc'[u], joined[u], mapped'[u])
    BY DEF MapExact, TaskMaps, InList
  <2>1. TaskMaps(loc[u], joined[u], mapped[u]) BY DEF MapExact
  <2>2. \A r \in Roles, h \in Gids : mapped'[u][r][h] # {} => InList(joined[u][r], h)
    BY <1>13, <1>14, <2>1 DEF TaskMaps
  <2>3. CASE u = t
    <3>1. loc'[u] = l BY <1>15, <2>3
    <3>2. memory = "counters" => mapped'[t][role][g] \subseteq {"counters"} BY <1>1, <1>6, <1>14
    <3> QED BY <1>10, <2>2, <2>3, <3>1, <3>2 DEF TaskMaps
  <2>4. CASE u # t
    <3>1. loc'[u] = loc[u] BY <1>15, <2>4
    <3>2. loc[u].pc \in {"map_counters", "map_goal"} => loc[u].role \in Roles /\ loc[u].gid \in Gids
      BY AtGroup
    <3>3. loc[u].pc \in {"map_counters", "map_goal"} =>
            mapped'[u][loc[u].role][loc[u].gid] = mapped[u][loc[u].role][loc[u].gid]
      BY <1>14, <2>4, <3>2
    <3> QED BY <2>1, <2>2, <3>1, <3>3 DEF TaskMaps
  <2> QED BY <2>3, <2>4
<1>17. \A m \in Memories, p \in Pids :
         new[m][p] = IF m = memory /\ p = p0 THEN old[m][p] + 1 ELSE old[m][p]
  BY <1>2, <1>12
<1> HIDE DEF new
<1>18. \A h \in Gids : group'[h].maps = IF h = g THEN new ELSE group[h].maps
  <2> DEFINE gr == [group[g] EXCEPT !.maps = new]
  <2>1. gr.maps = new BY <1>1, FieldFrame
  <2> HIDE DEF gr
  <2>2. \A h \in Gids : group'[h] = IF h = g THEN gr ELSE group[h] BY <1>1, <1>11, Written DEF gr
  <2> QED BY <2>1, <2>2
<1>19. ASSUME NEW h \in Gids, NEW m \in Memories, NEW p \in Pids
       PROVE  group'[h].maps[m][p] <= Cardinality(Users(mapped', h, m, p))
  <2> DEFINE U == Users(mapped, h, m, p)
             V == Users(mapped', h, m, p)
  <2>1. group[h].maps[m][p] <= Cardinality(U) BY DEF MapsCurrent, Users
  <2>2. IsFiniteSet(U) /\ Cardinality(U) \in Nat BY UsersFinite
  <2>3. CASE h = g /\ m = memory /\ p = p0
    <3>1. V = U \cup {x0}
      <4>1. x0 \in Tasks \X Roles /\ x0[1] = t /\ x0[2] = role BY <1>1
      <4>2. ASSUME NEW x \in Tasks \X Roles
            PROVE  m \in mapped'[x[1]][x[2]][h] <=> m \in mapped[x[1]][x[2]][h] \/ x = x0
        <5>1. x[1] \in Tasks /\ x[2] \in Roles /\ x = <<x[1], x[2]>> OBVIOUS
        <5>2. (x[1] = t /\ x[2] = role) <=> x = x0 BY <4>1, <5>1
        <5> QED BY <1>14, <2>3, <5>1, <5>2
      <4>3. Tgid[x0[1]] = p BY <2>3, <4>1 DEF p0
      <4> HIDE DEF x0
      <4> QED BY <4>1, <4>2, <4>3 DEF Users
    <3>2. x0 \notin U
      <4>1. x0[1] = t /\ x0[2] = role OBVIOUS
      <4> HIDE DEF x0
      <4> QED BY <1>7, <2>3, <4>1 DEF Users
    <3> HIDE DEF U, V, x0
    <3>3. Cardinality(V) = Cardinality(U) + 1 BY <2>2, <3>1, <3>2, FS_AddElement
    <3>4. group'[h].maps[m][p] = old[m][p] + 1 /\ group[h].maps = old
      BY <1>17, <1>18, <2>3 DEF old
    <3>5. old[m][p] \in Nat BY <1>12
    <3> QED BY <2>1, <2>2, <3>3, <3>4, <3>5 DEF V
  <2>4. CASE ~(h = g /\ m = memory /\ p = p0)
    <3>1. group'[h].maps[m][p] = group[h].maps[m][p] BY <1>17, <1>18, <2>4 DEF old
    <3>2. V = U
      <4>1. ASSUME NEW x \in Tasks \X Roles, Tgid[x[1]] = p
            PROVE  m \in mapped'[x[1]][x[2]][h] <=> m \in mapped[x[1]][x[2]][h]
        <5>1. x[1] \in Tasks /\ x[2] \in Roles OBVIOUS
        <5>2. x[1] = t => p = p0 BY <4>1 DEF p0
        <5> QED BY <1>14, <2>4, <5>1, <5>2
      <4> QED BY <4>1 DEF Users
    <3> QED BY <2>1, <3>1, <3>2
  <2> QED BY <2>3, <2>4
<1>20. MapsCurrent' BY <1>19 DEF MapsCurrent, Users
<1> QED BY <1>16, <1>20

\* Where Unlink and Destroy send a task.
LEMMA UnlinkTo ==
  ASSUME IInv, NEW t \in Tasks, Unlink(t)
  PROVE  \E l : /\ loc' = [loc EXCEPT ![t] = l]
                /\ l.pc \in {"destroy", "user", "exit", "fold", "unlink"}
<1> DEFINE g == loc[t].gid
           role == loc[t].role
           q == Without(joined[t][role], g)
           lists == [joined[t] EXCEPT ![role] = q]
<1>1. TypeOK /\ loc[t] \in LocRec /\ LocFits(loc[t], joined[t]) BY TaskFacts
<1>2. loc[t].pc = "unlink" BY DEF Unlink
<1>3. g \in Gids /\ role \in Roles /\ InList(joined[t][role], g) BY <1>1, <1>2, LocFields DEF LocFits
<1>4. joined[t][role] \in Seq(Gids) /\ Distinct(joined[t][role]) BY <1>3, TaskFacts
<1>5. q \in Seq(Gids) BY <1>3, <1>4, UnlinkEffect
<1>6. lists[role] = q BY <1>1, <1>3 DEF TypeOK
<1>7. loc' = [loc EXCEPT ![t] = [loc[t] EXCEPT !.pc = "destroy"]] \/ Left(t, role, q)
  BY DEF Unlink, Goto
<1>8. CASE loc' = [loc EXCEPT ![t] = [loc[t] EXCEPT !.pc = "destroy"]]
  <2> DEFINE l == [loc[t] EXCEPT !.pc = "destroy"]
  <2>1. l.pc = "destroy" BY <1>1 DEF LocRec
  <2> QED BY <1>8, <2>1
<1>9. CASE Left(t, role, q)
  <2> HIDE DEF role, q, lists
  <2> QED BY <1>1, <1>3, <1>5, <1>6, <1>9, LeftIs
<1> QED BY <1>7, <1>8, <1>9

LEMMA DestroyTo ==
  ASSUME IInv, NEW t \in Tasks, Destroy(t)
  PROVE  \E l : loc' = [loc EXCEPT ![t] = l] /\ l.pc \in {"user", "exit", "fold", "unlink"}
<1> DEFINE role == loc[t].role
           q == joined[t][role]
           lists == joined[t]
<1>1. TypeOK /\ role \in Roles BY AtGroup DEF Destroy
<1>2. q \in Seq(Gids) /\ lists[role] = q BY <1>1, TaskFacts
<1>3. Left(t, role, q) BY DEF Destroy
<1> HIDE DEF role, q, lists
<1> QED BY <1>1, <1>2, <1>3, LeftIs

\* A task that leaves a group puts at most the references it has.
LEMMA UnlinkKeepsMaps ==
  ASSUME IInv, MapExact, MapsCurrent, NEW t \in Tasks, Unlink(t)
  PROVE  MapExact' /\ MapsCurrent'
<1> DEFINE g == loc[t].gid
           role == loc[t].role
           p0 == Tgid[t]
           q == Without(joined[t][role], g)
           old == group[g].maps
           x0 == <<t, role>>
<1>1. TypeOK /\ loc[t] \in LocRec /\ g \in Gids /\ role \in Roles /\ group[g] \in GroupRec
  BY AtGroup DEF Unlink
<1>2. p0 \in Pids BY DEF Pids
<1>3. /\ mapped \in [Tasks -> [Roles -> [Gids -> SUBSET Memories]]]
      /\ joined \in [Tasks -> [Roles -> Seq(Gids)]]
  BY <1>1 DEF TypeOK
<1>4. /\ mapped' = [mapped EXCEPT ![t][role][g] = {}]
      /\ joined' = [joined EXCEPT ![t][role] = q]
  BY DEF Unlink
<1>5. old \in [Memories -> [Pids -> Nat]] BY <1>1, GroupFields
<1>6. \A h : h # g => (InList(q, h) <=> InList(joined[t][role], h))
  <2>1. LocFits(loc[t], joined[t]) /\ loc[t].pc = "unlink" BY TaskFacts DEF Unlink
  <2>2. InList(joined[t][role], g) BY <2>1 DEF LocFits
  <2>3. joined[t][role] \in Seq(Gids) /\ Distinct(joined[t][role]) BY <1>1, TaskFacts
  <2> QED BY <2>2, <2>3, UnlinkEffect
<1>7. PICK l : /\ loc' = [loc EXCEPT ![t] = l]
               /\ l.pc \in {"destroy", "user", "exit", "fold", "unlink"}
  BY UnlinkTo
<1>8. /\ \A h \in Gids : h # g => group'[h] = group[h]
      /\ group'[g].maps = [m \in Memories |-> PutMap(old[m], p0)]
  BY UnlinkFrame
<1> HIDE DEF g, role, p0, q, old
<1>9. \A u \in Tasks, r \in Roles, h \in Gids :
        mapped'[u][r][h] = IF u = t /\ r = role /\ h = g THEN {} ELSE mapped[u][r][h]
  BY <1>1, <1>3, <1>4
<1>10. \A u \in Tasks, r \in Roles :
         joined'[u][r] = IF u = t /\ r = role THEN q ELSE joined[u][r]
  BY <1>1, <1>3, <1>4
<1>11. \A u \in Tasks : loc'[u] = IF u = t THEN l ELSE loc[u] BY <1>1, <1>7 DEF TypeOK
<1>12. MapExact'
  <2> SUFFICES ASSUME NEW u \in Tasks PROVE TaskMaps(loc'[u], joined'[u], mapped'[u])
    BY DEF MapExact, TaskMaps, InList
  <2>1. TaskMaps(loc[u], joined[u], mapped[u]) BY DEF MapExact
  <2>2. \A r \in Roles, h \in Gids : mapped'[u][r][h] # {} => InList(joined'[u][r], h)
    <3> SUFFICES ASSUME NEW r \in Roles, NEW h \in Gids, mapped'[u][r][h] # {}
                 PROVE  InList(joined'[u][r], h)
      OBVIOUS
    <3>1. ~(u = t /\ r = role /\ h = g) /\ mapped[u][r][h] # {} BY <1>9
    <3>2. InList(joined[u][r], h) BY <2>1, <3>1 DEF TaskMaps
    <3>3. CASE u = t /\ r = role BY <1>6, <1>10, <3>1, <3>2, <3>3
    <3>4. CASE ~(u = t /\ r = role) BY <1>10, <3>2, <3>4
    <3> QED BY <3>3, <3>4
  <2>3. CASE u = t
    <3>1. loc'[u] = l BY <1>11, <2>3
    <3> QED BY <1>7, <2>2, <3>1 DEF TaskMaps
  <2>4. CASE u # t
    <3>1. loc'[u] = loc[u] BY <1>11, <2>4
    <3>2. loc[u].pc \in {"map_counters", "map_goal"} => loc[u].role \in Roles /\ loc[u].gid \in Gids
      BY AtGroup
    <3>3. loc[u].pc \in {"map_counters", "map_goal"} =>
            mapped'[u][loc[u].role][loc[u].gid] = mapped[u][loc[u].role][loc[u].gid]
      BY <1>9, <2>4, <3>2
    <3> QED BY <2>1, <2>2, <3>1, <3>3 DEF TaskMaps
  <2> QED BY <2>3, <2>4
<1>13. \A m \in Memories, p \in Pids :
         group'[g].maps[m][p] = IF p = p0 THEN (IF old[m][p] > 0 THEN old[m][p] - 1 ELSE 0)
                                ELSE old[m][p]
  BY <1>2, <1>5, <1>8 DEF PutMap
<1>14. ASSUME NEW h \in Gids, NEW m \in Memories, NEW p \in Pids
       PROVE  group'[h].maps[m][p] <= Cardinality(Users(mapped', h, m, p))
  <2> DEFINE U == Users(mapped, h, m, p)
             V == Users(mapped', h, m, p)
  <2>1. group[h].maps[m][p] <= Cardinality(U) BY DEF MapsCurrent, Users
  <2>2. IsFiniteSet(U) /\ Cardinality(U) \in Nat BY UsersFinite
  <2>3. CASE h = g /\ p = p0
    <3>1. V = U \ {x0}
      <4>1. x0[1] = t /\ x0[2] = role OBVIOUS
      <4>2. ASSUME NEW x \in Tasks \X Roles
            PROVE  m \in mapped'[x[1]][x[2]][h] <=> m \in mapped[x[1]][x[2]][h] /\ x # x0
        <5>1. x[1] \in Tasks /\ x[2] \in Roles /\ x = <<x[1], x[2]>> OBVIOUS
        <5>2. (x[1] = t /\ x[2] = role) <=> x = x0 BY <4>1, <5>1
        <5> QED BY <1>9, <2>3, <5>1, <5>2
      <4> HIDE DEF x0
      <4> QED BY <4>2 DEF Users
    <3> HIDE DEF U, V, x0
    <3>2. Cardinality(V) = IF x0 \in U THEN Cardinality(U) - 1 ELSE Cardinality(U)
      BY <2>2, <3>1, FS_RemoveElement
    <3>3. /\ group'[h].maps[m][p] = (IF old[m][p] > 0 THEN old[m][p] - 1 ELSE 0)
          /\ group[h].maps[m][p] = old[m][p]
      BY <1>13, <2>3 DEF old
    <3>4. old[m][p] \in Nat BY <1>5
    <3>5. Cardinality(V) \in Nat BY UsersFinite DEF V
    <3> QED BY <2>1, <2>2, <3>2, <3>3, <3>4, <3>5 DEF V
  <2>4. CASE ~(h = g /\ p = p0)
    <3>1. group'[h].maps[m][p] = group[h].maps[m][p]
      <4>1. CASE h = g BY <1>13, <2>4, <4>1 DEF old
      <4>2. CASE h # g BY <1>8, <4>2
      <4> QED BY <4>1, <4>2
    <3>2. V = U
      <4>1. ASSUME NEW x \in Tasks \X Roles, Tgid[x[1]] = p
            PROVE  m \in mapped'[x[1]][x[2]][h] <=> m \in mapped[x[1]][x[2]][h]
        <5>1. x[1] \in Tasks /\ x[2] \in Roles OBVIOUS
        <5>2. x[1] = t => p = p0 BY <4>1 DEF p0
        <5> QED BY <1>9, <2>4, <5>1, <5>2
      <4> QED BY <4>1 DEF Users
    <3> QED BY <2>1, <3>1, <3>2
  <2> QED BY <2>3, <2>4
<1>15. MapsCurrent' BY <1>14 DEF MapsCurrent, Users
<1> QED BY <1>12, <1>15

\* The steps of t that map nothing, join nothing and leave nothing: where t goes.
Plain(t) ==
  \/ Fold(t) \/ Release(t) \/ Exit(t) \/ ExitDone(t) \/ SetGoalScope(t) \/ EndDelWindow(t)
  \/ \E role \in Roles : ExitGroups(t, role)
  \/ \E g \in Gids, role \in Roles : Detach(t, g, role)
  \/ \E g \in Gids : AddProducer(t, g)
  \/ \E g \in Gids, ws \in WindowAsks : SetGoalWindow(t, g, ws) \/ BeginDelWindow(t, g, ws)

LEMMA LeavingPc ==
  ASSUME NEW t, NEW g, NEW role, NEW exiting
  PROVE  Leaving(t, g, role, exiting).pc \in {"fold", "unlink"}
BY DEF Leaving, AtUser

GoesOn(t) ==
  /\ joined' = joined /\ mapped' = mapped
  /\ \E l : loc' = [loc EXCEPT ![t] = l] /\ l.pc \notin {"map_counters", "map_goal"}

LEMMA PlainTo ==
  ASSUME IInv, NEW t \in Tasks, Plain(t)
  PROVE  GoesOn(t)
<1> DEFINE To == \E l : loc' = [loc EXCEPT ![t] = l] /\ l.pc \notin {"map_counters", "map_goal"}
<1>1. loc[t] \in LocRec BY TaskFacts
<1>2. CASE Fold(t)
  <2> DEFINE l == [loc[t] EXCEPT !.pc = "release", !.value = 0, !.word = group[loc[t].gid].allocation]
  <2>1. loc' = [loc EXCEPT ![t] = l] BY <1>2 DEF Fold, Goto
  <2>2. l.pc = "release" BY <1>1 DEF LocRec
  <2> HIDE DEF l
  <2>3. To BY <2>1, <2>2
  <2> QED BY <1>2, <2>3 DEF GoesOn, Fold
<1>3. CASE Release(t)
  <2> DEFINE l == [loc[t] EXCEPT !.pc = "unlink", !.word = {}]
  <2>1. loc' = [loc EXCEPT ![t] = l] BY <1>3 DEF Release, Goto
  <2>2. l.pc = "unlink" BY <1>1 DEF LocRec
  <2> HIDE DEF l
  <2>3. To BY <2>1, <2>2
  <2> QED BY <1>3, <2>3 DEF GoesOn, Release
<1>4. CASE Exit(t)
  <2> DEFINE l == [AtUser EXCEPT !.pc = "exit"]
  <2>1. loc' = [loc EXCEPT ![t] = l] /\ l.pc = "exit" BY <1>4 DEF Exit, Goto, AtUser
  <2> HIDE DEF l
  <2>2. To BY <2>1
  <2> QED BY <1>4, <2>2 DEF GoesOn, Exit
<1>5. CASE ExitDone(t)
  <2> DEFINE l == [AtUser EXCEPT !.pc = "dead"]
  <2>1. loc' = [loc EXCEPT ![t] = l] /\ l.pc = "dead" BY <1>5 DEF ExitDone, Goto, AtUser
  <2> HIDE DEF l
  <2>2. To BY <2>1
  <2> QED BY <1>5, <2>2 DEF GoesOn, ExitDone
<1>6. CASE SetGoalScope(t) \/ EndDelWindow(t)
  <2>1. loc' = [loc EXCEPT ![t] = AtUser] /\ AtUser.pc = "user"
    BY <1>6 DEF SetGoalScope, EndDelWindow, Goto, AtUser
  <2>2. To BY <2>1
  <2> QED BY <1>6, <2>2 DEF GoesOn, SetGoalScope, EndDelWindow
<1>7. ASSUME NEW role \in Roles, ExitGroups(t, role) PROVE GoesOn(t)
  <2> DEFINE l == Leaving(t, Head(joined[t][role]), role, TRUE)
  <2>1. loc' = [loc EXCEPT ![t] = l] BY <1>7 DEF ExitGroups, Goto
  <2>2. l.pc \in {"fold", "unlink"} BY LeavingPc
  <2> HIDE DEF l
  <2>3. To BY <2>1, <2>2
  <2> QED BY <1>7, <2>3 DEF GoesOn, ExitGroups
<1>8. ASSUME NEW g \in Gids, NEW role \in Roles, Detach(t, g, role)
      PROVE  GoesOn(t)
  <2> DEFINE l == Leaving(t, g, role, FALSE)
  <2>1. loc' = [loc EXCEPT ![t] = l] BY <1>8 DEF Detach, BeginLeave, Goto
  <2>2. l.pc \in {"fold", "unlink"} BY LeavingPc
  <2> HIDE DEF l
  <2>3. To BY <2>1, <2>2
  <2> QED BY <1>8, <2>3 DEF GoesOn, Detach
<1>9. ASSUME NEW g \in Gids, AddProducer(t, g) PROVE GoesOn(t)
  <2> DEFINE a == FindOrCreate(g).allocation
             l == [AtUser EXCEPT !.pc = "alloc", !.gid = g, !.word = a]
  <2>1. loc' = [loc EXCEPT ![t] = l] BY <1>9 DEF AddProducer, Goto
  <2> HIDE DEF a
  <2>2. l.pc = "alloc" BY DEF AtUser
  <2> HIDE DEF l
  <2>3. To BY <2>1, <2>2
  <2> QED BY <1>9, <2>3 DEF GoesOn, AddProducer
<1>10. ASSUME NEW g \in Gids, NEW ws \in WindowAsks, SetGoalWindow(t, g, ws)
       PROVE  GoesOn(t)
  <2> DEFINE l == [AtUser EXCEPT !.pc = "set_goal", !.gid = g, !.size = ws]
  <2>1. loc' = [loc EXCEPT ![t] = l] /\ l.pc = "set_goal" BY <1>10 DEF SetGoalWindow, Goto, AtUser
  <2> HIDE DEF l
  <2>2. To BY <2>1
  <2> QED BY <1>10, <2>2 DEF GoesOn, SetGoalWindow
<1>11. ASSUME NEW g \in Gids, NEW ws \in WindowAsks, BeginDelWindow(t, g, ws)
       PROVE  GoesOn(t)
  <2> DEFINE l == [AtUser EXCEPT !.pc = "del_window", !.gid = g, !.size = ws]
  <2>1. loc' = [loc EXCEPT ![t] = l] /\ l.pc = "del_window" BY <1>11 DEF BeginDelWindow, Goto, AtUser
  <2> HIDE DEF l
  <2>2. To BY <2>1
  <2> QED BY <1>11, <2>2 DEF GoesOn, BeginDelWindow
<1> QED BY <1>2, <1>3, <1>4, <1>5, <1>6, <1>7, <1>8, <1>9, <1>10, <1>11 DEF Plain

MapInv == MapExact /\ MapsCurrent

\* Nobody's references change in these steps.
LEMMA PlainMaps ==
  ASSUME IInv, NEW t \in Tasks, Plain(t)
  PROVE  \A g \in Gids : SameMaps(group'[g], group[g]) \/ Fresh(group'[g])
<1>1. TypeOK BY DEF IInv
<1>2. ASSUME group' = group PROVE \A g \in Gids : SameMaps(group'[g], group[g])
  BY <1>2 DEF SameMaps
<1>3. CASE Fold(t) BY <1>3, FoldFrame
<1>4. CASE Release(t) BY <1>4, ReleaseFrame
<1>5. CASE Exit(t) \/ ExitDone(t) \/ \E role \in Roles : ExitGroups(t, role)
  BY <1>2, <1>5 DEF Exit, ExitDone, ExitGroups
<1>6. CASE SetGoalScope(t)
  <2> DEFINE g == loc[t].gid
             goal == [group[g].goal EXCEPT !.scope = loc[t].size]
  <2>1. g \in Gids BY <1>6, AtGroup DEF SetGoalScope
  <2>2. group' = [group EXCEPT ![g] = [group[g] EXCEPT !.goal = goal]] BY <1>6 DEF SetGoalScope
  <2> HIDE DEF g, goal
  <2> QED BY <1>1, <2>1, <2>2, GoalFrame
<1>7. CASE EndDelWindow(t)
  <2> DEFINE g == loc[t].gid
             goal == DelWindow(group[g].goal, loc[t].size)
  <2>1. g \in Gids BY <1>7, AtGroup DEF EndDelWindow
  <2>2. group' = group \/ group' = [group EXCEPT ![g] = [group[g] EXCEPT !.goal = goal]]
    BY <1>7 DEF EndDelWindow
  <2> HIDE DEF g, goal
  <2> QED BY <1>1, <1>2, <2>1, <2>2, GoalFrame
<1>8. ASSUME NEW g \in Gids, NEW role \in Roles, Detach(t, g, role)
      PROVE  \A h \in Gids : SameMaps(group'[h], group[h])
  <2>1. BeginLeave(t, g, role) BY <1>8 DEF Detach
  <2> QED BY <1>1, <2>1, BeginLeaveFrame
<1>9. ASSUME NEW g \in Gids, AddProducer(t, g)
      PROVE  \A h \in Gids : SameMaps(group'[h], group[h]) \/ Fresh(group'[h])
  BY <1>9, AddFrame DEF SameMaps
<1>10. ASSUME NEW g \in Gids, NEW ws \in WindowAsks, SetGoalWindow(t, g, ws) \/ BeginDelWindow(t, g, ws)
       PROVE  \A h \in Gids : SameMaps(group'[h], group[h])
  <2> DEFINE goal == AddWindow(group[g].goal, ws)
  <2>1. group' = group \/ group' = [group EXCEPT ![g] = [group[g] EXCEPT !.goal = goal]]
    BY <1>10 DEF SetGoalWindow, BeginDelWindow
  <2> HIDE DEF goal
  <2> QED BY <1>1, <1>2, <2>1, GoalFrame
<1> QED BY <1>3, <1>4, <1>5, <1>6, <1>7, <1>8, <1>9, <1>10 DEF Plain

LEMMA PlainKeepsMaps == ASSUME IInv, MapInv, NEW t \in Tasks, Plain(t) PROVE MapInv'
<1>1. TypeOK /\ MapExact /\ MapsCurrent BY DEF IInv, MapInv
<1>2. joined' = joined /\ mapped' = mapped BY PlainTo DEF GoesOn
<1>3. PICK l : loc' = [loc EXCEPT ![t] = l] /\ l.pc \notin {"map_counters", "map_goal"}
  BY PlainTo DEF GoesOn
<1>4. MapExact' BY <1>1, <1>2, <1>3, NoMapStep
<1>5. MapsCurrent' BY <1>1, <1>2, PlainMaps, NoReference
<1> QED BY <1>4, <1>5 DEF MapInv

LEMMA ForkKeepsMaps == ASSUME IInv, MapInv, NEW t \in Tasks, Fork(t) PROVE MapInv'
<1>1. TypeOK /\ MapExact /\ MapsCurrent BY DEF IInv, MapInv
<1>2. LocFits(loc[t], joined[t]) BY TaskFacts
<1>3. /\ loc[t].pc = "dead" /\ loc' = [loc EXCEPT ![t] = AtUser] /\ mapped' = mapped /\ group' = group
      /\ joined' = [joined EXCEPT ![t] = [r \in Roles |-> <<>>]]
  BY DEF Fork, Goto
<1>4. \A r \in Roles : joined[t][r] = <<>> BY <1>2, <1>3 DEF LocFits
<1>5. \A u \in Tasks, r \in Roles : joined'[u][r] = joined[u][r] BY <1>1, <1>3, <1>4 DEF TypeOK
<1>6. AtUser.pc = "user" BY DEF AtUser
<1>7. MapExact' BY <1>1, <1>3, <1>5, <1>6, NoMapStep
<1>8. MapsCurrent' BY <1>1, <1>3, NoReference DEF SameMaps
<1> QED BY <1>7, <1>8 DEF MapInv

\* A task that joins a group has nothing of it mapped.
LEMMA JoinKeepsMaps ==
  ASSUME IInv, MapInv, NEW t \in Tasks, NEW g \in Gids, NEW role \in Roles, NEW l,
         loc' = [loc EXCEPT ![t] = l], l.pc = "map_counters", l.gid = g, l.role = role,
         ~InList(joined[t][role], g), joined' = [joined EXCEPT ![t][role] = <<g>> \o @],
         mapped' = mapped, \A h \in Gids : SameMaps(group'[h], group[h]) \/ Fresh(group'[h])
  PROVE  MapInv'
<1>1. TypeOK /\ MapExact /\ MapsCurrent BY DEF IInv, MapInv
<1> DEFINE q == <<g>> \o joined[t][role]
<1>2. \A u \in Tasks, r \in Roles : joined'[u][r] = IF u = t /\ r = role THEN q ELSE joined[u][r]
  BY <1>1 DEF TypeOK
<1>3. \A h : InList(joined[t][role], h) => InList(q, h) BY TaskFacts, LinkEffect
<1> HIDE DEF q
<1>4. \A u \in Tasks, r \in Roles, h \in Gids : InList(joined[u][r], h) => InList(joined'[u][r], h)
  BY <1>2, <1>3
<1>5. mapped[t][l.role][l.gid] = {} BY <1>1 DEF MapExact, TaskMaps
<1>6. MapExact' BY <1>1, <1>4, <1>5, NoMapStep
<1>7. MapsCurrent' BY <1>1, NoReference
<1> QED BY <1>6, <1>7 DEF MapInv

LEMMA LinkKeepsMaps == ASSUME IInv, MapInv, NEW t \in Tasks, LinkProducer(t) PROVE MapInv'
<1> DEFINE g == loc[t].gid
           l == [AtUser EXCEPT !.pc = "map_counters", !.gid = g]
<1>1. TypeOK /\ g \in Gids BY AtGroup DEF LinkProducer
<1>2. /\ loc[t].pc = "alloc" /\ loc' = [loc EXCEPT ![t] = l]
      /\ joined' = [joined EXCEPT ![t]["producer"] = <<g>> \o @] /\ mapped' = mapped
  BY <1>1, LinkProducerIs
<1>3. ~InList(joined[t]["producer"], g) BY <1>2, TaskFacts DEF LocFits
<1>4. l.pc = "map_counters" /\ l.gid = g /\ l.role = "producer" BY DEF AtUser
<1>5. \A h \in Gids : SameMaps(group'[h], group[h]) BY LinkFrame
<1> HIDE DEF l, g
<1> QED BY <1>1, <1>2, <1>3, <1>4, <1>5, RoleTypes, JoinKeepsMaps

LEMMA AddConsumerKeepsMaps ==
  ASSUME IInv, MapInv, NEW t \in Tasks, NEW g \in Gids, AddConsumer(t, g) PROVE MapInv'
<1> DEFINE l == [AtUser EXCEPT !.pc = "map_counters", !.gid = g, !.role = "consumer"]
<1>1. /\ loc' = [loc EXCEPT ![t] = l] /\ ~InList(joined[t]["consumer"], g)
      /\ joined' = [joined EXCEPT ![t]["consumer"] = <<g>> \o @] /\ mapped' = mapped
  BY DEF AddConsumer, Goto, Joined, InList
<1>2. l.pc = "map_counters" /\ l.gid = g /\ l.role = "consumer" BY DEF AtUser
<1>3. \A h \in Gids : SameMaps(group'[h], group[h]) \/ Fresh(group'[h]) BY AddFrame DEF SameMaps
<1> HIDE DEF l
<1> QED BY <1>1, <1>2, <1>3, RoleTypes, JoinKeepsMaps

\* Steps in which no task moves.
LEMMA StillKeepsMaps ==
  ASSUME IInv, MapInv, joined' = joined, mapped' = mapped, loc' = loc,
         \A h \in Gids : SameMaps(group'[h], group[h])
  PROVE  MapInv'
<1>1. MapExact /\ MapsCurrent BY DEF MapInv
<1>2. MapExact' BY <1>1, StillMaps
<1>3. MapsCurrent' BY <1>1, NoReference
<1> QED BY <1>2, <1>3 DEF MapInv

LEMMA DestroyKeepsMaps == ASSUME IInv, MapInv, NEW t \in Tasks, Destroy(t) PROVE MapInv'
<1>1. TypeOK /\ MapExact /\ MapsCurrent BY DEF IInv, MapInv
<1>2. joined' = joined /\ mapped' = mapped BY DEF Destroy
<1>3. PICK l : loc' = [loc EXCEPT ![t] = l] /\ l.pc \in {"user", "exit", "fold", "unlink"} BY DestroyTo
<1>4. MapExact' BY <1>1, <1>2, <1>3, NoMapStep
<1>5. \A h \in Gids : SameMaps(group'[h], group[h]) \/ Fresh(group'[h]) BY DestroyFrame DEF SameMaps
<1>6. MapsCurrent' BY <1>1, <1>2, <1>5, NoReference
<1> QED BY <1>4, <1>6 DEF MapInv

LEMMA MmapKeepsMaps ==
  ASSUME IInv, MapInv, NEW t \in Tasks, NEW memory \in Memories, NEW fails, Mmap(t, memory, fails)
  PROVE  MapInv'
<1> DEFINE g == loc[t].gid
           role == loc[t].role
           l == Leaving(t, g, role, FALSE)
<1>1. TypeOK /\ MapExact /\ MapsCurrent BY DEF IInv, MapInv
<1>2. loc[t].pc = (IF memory = "counters" THEN "map_counters" ELSE "map_goal") BY MmapIs
<1>3. g \in Gids /\ role \in Roles BY <1>2, AtGroup
<1>4. joined' = joined /\ InList(joined[t][role], g) BY MmapIs
<1>5. Maps(t, memory) \/ (BeginLeave(t, g, role) /\ mapped' = mapped) BY MmapIs
<1>6. CASE Maps(t, memory)
  <2>1. MapExact' /\ MapsCurrent' BY <1>1, <1>2, <1>4, <1>6, MapsKeepMaps
  <2> QED BY <2>1 DEF MapInv
<1>7. CASE BeginLeave(t, g, role) /\ mapped' = mapped
  <2>1. loc' = [loc EXCEPT ![t] = l] BY <1>7 DEF BeginLeave, Goto
  <2>2. l.pc \in {"fold", "unlink"} BY LeavingPc
  <2> HIDE DEF l, g, role
  <2>3. \A h \in Gids : SameMaps(group'[h], group[h]) BY <1>1, <1>3, <1>7, BeginLeaveFrame
  <2>4. MapExact' BY <1>1, <1>4, <1>7, <2>1, <2>2, NoMapStep
  <2>5. MapsCurrent' BY <1>1, <1>7, <2>3, NoReference
  <2> QED BY <2>4, <2>5 DEF MapInv
<1> QED BY <1>5, <1>6, <1>7

LEMMA TaskKeepsMaps ==
  ASSUME IInv, MapInv, NEW t \in Tasks, Continue(t) \/ Wait(t) \/ Call(t)
  PROVE  MapInv'
<1>1. TypeOK BY DEF IInv
<1>2. CASE Plain(t) BY <1>2, PlainKeepsMaps
<1>3. CASE LinkProducer(t) BY <1>3, LinkKeepsMaps
<1>4. ASSUME NEW memory \in Memories, NEW fails, Mmap(t, memory, fails) PROVE MapInv'
  BY <1>4, MmapKeepsMaps
<1>5. CASE Unlink(t)
  <2>1. MapExact /\ MapsCurrent BY DEF MapInv
  <2>2. MapExact' /\ MapsCurrent' BY <1>5, <2>1, UnlinkKeepsMaps
  <2> QED BY <2>2 DEF MapInv
<1>6. CASE Destroy(t) BY <1>6, DestroyKeepsMaps
<1>7. CASE Fork(t) BY <1>7, ForkKeepsMaps
<1>8. ASSUME NEW g \in Gids, AddConsumer(t, g) PROVE MapInv' BY <1>8, AddConsumerKeepsMaps
<1>9. ASSUME NEW g \in Gids, Heartbeat(t, g) PROVE MapInv'
  <2>1. joined' = joined /\ mapped' = mapped /\ loc' = loc BY <1>9 DEF Heartbeat
  <2> QED BY <1>1, <1>9, <2>1, HeartbeatFrame, StillKeepsMaps
<1>10. ASSUME NEW g \in Gids, UnsetGoal(t, g) PROVE MapInv'
  <2> DEFINE goal == [group[g].goal EXCEPT !.scope = 0]
  <2>1. joined' = joined /\ mapped' = mapped /\ loc' = loc BY <1>10 DEF UnsetGoal
  <2>2. group' = [group EXCEPT ![g] = [group[g] EXCEPT !.goal = goal]] BY <1>10 DEF UnsetGoal
  <2> HIDE DEF goal
  <2> QED BY <1>1, <2>1, <2>2, GoalFrame, StillKeepsMaps
<1>11. ASSUME NEW g \in Gids, NEW role \in Roles, NEW ws \in WindowAsks, Add(t, g, role, ws)
       PROVE  MapInv'
  <2> DEFINE goal == AddWindow(group[g].goal, ws)
  <2>1. joined' = joined /\ mapped' = mapped /\ loc' = loc BY <1>11 DEF Add
  <2>2. group' = [group EXCEPT ![g] = [group[g] EXCEPT !.goal = goal]] BY <1>11 DEF Add
  <2> HIDE DEF goal
  <2> QED BY <1>1, <2>1, <2>2, GoalFrame, StillKeepsMaps
<1>12. CASE Continue(t) BY <1>2, <1>3, <1>4, <1>12 DEF Continue, Plain
<1>13. CASE Wait(t) BY <1>2, <1>5, <1>6, <1>13 DEF Wait, Plain
<1>14. CASE Call(t) BY <1>2, <1>7, <1>8, <1>9, <1>10, <1>11, <1>14 DEF Call, Plain
<1> QED BY <1>12, <1>13, <1>14

LEMMA MapNext == IInv /\ MapInv /\ [Next]_vars => MapInv'
<1> SUFFICES ASSUME IInv, MapInv, [Next]_vars PROVE MapInv' OBVIOUS
<1>1. ASSUME NEW t \in Tasks, Continue(t) \/ Wait(t) \/ Call(t) PROVE MapInv' BY <1>1, TaskKeepsMaps
<1>2. ASSUME NEW g \in Gids, Timer(g) PROVE MapInv'
  <2>1. CASE TimerFire(g) BY <2>1, FireFrame, StillKeepsMaps
  <2>2. ASSUME NEW d \in Periods, TimerBody(g, d) PROVE MapInv' BY <2>2, BodyFrame, StillKeepsMaps
  <2> QED BY <1>2, <2>1, <2>2 DEF Timer
<1>3. CASE UNCHANGED vars
  <2>1. UNCHANGED <<group, joined, mapped, loc>> BY <1>3 DEF vars
  <2> QED BY <2>1, StillKeepsMaps DEF SameMaps
<1> QED BY <1>1, <1>2, <1>3 DEF Next

LEMMA MapInit == Init => MapInv
<1> SUFFICES ASSUME Init PROVE MapInv OBVIOUS
<1>1. /\ \A t \in Tasks : loc[t] = AtUser
      /\ \A t \in Tasks, r \in Roles, g \in Gids : mapped[t][r][g] = {}
      /\ \A g \in Gids : group[g] = NoGroup
  BY DEF Init
<1>2. AtUser.pc = "user" BY DEF AtUser
<1>3. MapExact BY <1>1, <1>2 DEF MapExact, TaskMaps
<1>4. MapsCurrent
  <2> SUFFICES ASSUME NEW g \in Gids, NEW m \in Memories, NEW p \in Pids
               PROVE  group[g].maps[m][p] <= Cardinality(Users(mapped, g, m, p))
    BY DEF MapsCurrent, Users
  <2>1. group[g].maps[m][p] = 0 BY <1>1 DEF NoGroup
  <2> QED BY <2>1, UsersFinite
<1> QED BY <1>3, <1>4 DEF MapInv

\* A process never has more references to a memory of a group than its tasks have
\* memberships that mapped it, so __hrm_get_group_memory_map hands an address only to
\* tasks of a process in which it is mapped, and no reference is taken or put twice.
THEOREM MapsStayCurrent == Spec => []MapsCurrent
<1>1. Init => MapInv BY MapInit
<1>2. IInv /\ MapInv /\ [Next]_vars => MapInv' BY MapNext
<1>3. MapInv => MapsCurrent BY DEF MapInv
<1> QED BY <1>1, <1>2, <1>3, Invariant, PTL DEF Spec
-----------------------------------------------------------------------------
(***************************************************************************)
(* The slots and the heartbeats, when tasks leave their groups only by     *)
(* exiting: no task calls hrm_detach, and no mmap fails in hrm_attach.     *)
(* Then the bitmap and the history are only written under hrm_groups_lock. *)
(***************************************************************************)
ExitOnly == MayDetach = {} /\ TRUE \notin MapFails

Producers(gr) == gr.members["producer"]

\* A task that has put its heartbeats into the history of group g, and one that has
\* released its slot too.
HasGone(l, g) == l.pc \in {"release", "unlink"} /\ l.gid = g /\ l.role = "producer"
IsOut(l, g)   == l.pc = "unlink" /\ l.gid = g /\ l.role = "producer"
Gone(f, g)    == {t \in Tasks : HasGone(f[t], g)}
Out(f, g)     == {t \in Tasks : IsOut(f[t], g)}

\* Each producer has a slot of its own, with its tid and marked until it is out, and
\* every slot that is marked has an owner.
SlotFits(gr, out) ==
  /\ \A t, u \in Producers(gr) : t # u => gr.slot[t] # gr.slot[u]
  /\ \A t \in Producers(gr) : gr.counters[gr.slot[t]].tid = t
  /\ \A t \in Producers(gr) : gr.slot[t] \in gr.allocation <=> t \notin out
  /\ \A k \in gr.allocation : \E t \in Producers(gr) : gr.slot[t] = k

\* The history and the slots of the producers that are not in it account for n heartbeats.
BeatFits(gr, gone, n) ==
  /\ gr.state = "none" => n = 0
  /\ n <= gr.history + Sum(Sent(gr))[Producers(gr) \ gone]

\* A task in a critical section of hrm_groups_lock has loaded what is still there.
Busy(l) == l.pc \in {"alloc", "fold", "release", "unlink", "destroy"}
StepFits(t, l, f) ==
  Busy(l) =>
    LET gr == f[l.gid]
    IN  /\ l.gid \in Gids
        /\ l.pc # "alloc" => l.exiting
        /\ l.pc = "alloc" => l.word = gr.allocation /\ gr.slot[t] \notin gr.allocation
        /\ l.pc = "release" => l.word = gr.allocation
        /\ l.pc = "fold" => l.value = gr.history + gr.counters[gr.slot[t]].counter

GroupFits(f, g, gr, n) == SlotFits(gr, Out(f, g)) /\ BeatFits(gr, Gone(f, g), n)

SlotInv ==
  /\ \A g \in Gids : GroupFits(loc, g, group[g], beats[g])
  /\ \A t \in Tasks : StepFits(t, loc[t], group)

(***************************************************************************)
(* What each step does to one group.                                       *)
(***************************************************************************)
\* The same producers with the same slots.
SameOwners(a, b) ==
  /\ b.allocation = a.allocation /\ b.counters = a.counters /\ b.history = a.history
  /\ Producers(b) = Producers(a) /\ \A u \in Producers(a) : b.slot[u] = a.slot[u]
  /\ b.state = "none" => a.state = "none"

LEMMA OwnersFit ==
  ASSUME NEW a \in GroupRec, NEW b \in GroupRec, SameOwners(a, b), NEW out, NEW gone, NEW n \in Nat,
         SlotFits(a, out), BeatFits(a, gone, n)
  PROVE  SlotFits(b, out) /\ BeatFits(b, gone, n)
<1>1. SlotFits(b, out) BY DEF SlotFits, SameOwners
<1>2. Producers(a) \in SUBSET Tasks BY GroupFields, RoleTypes DEF Producers
<1>3. Sent(a) \in [Tasks -> Nat] /\ Sent(b) \in [Tasks -> Nat] BY SentType
<1> DEFINE S == Producers(a) \ gone
<1>4. S \in SUBSET Tasks BY <1>2
<1>5. \A u \in S : Sent(a)[u] = Sent(b)[u] BY <1>2, SentType DEF SameOwners
<1>6. Sum(Sent(a))[S] = Sum(Sent(b))[S]
  <2> DEFINE e == Sent(a)
             f == Sent(b)
  <2> HIDE DEF e, f, S
  <2> QED BY <1>3, <1>4, <1>5, SumAgree DEF e, f
<1> QED BY <1>1, <1>6 DEF BeatFits, SameOwners

\* A slot is given to a task that had none.
LEMMA LinkFit ==
  ASSUME NEW a \in GroupRec, NEW b \in GroupRec, NEW t \in Tasks, NEW k \in Slots,
         t \notin Producers(a), k \notin a.allocation, Producers(b) = Producers(a) \cup {t},
         b.allocation = a.allocation \cup {k}, b.history = a.history,
         \A u \in Tasks : b.slot[u] = IF u = t THEN k ELSE a.slot[u],
         b.counters = Claimed(a.counters, t, k), b.state # "none", NEW n \in Nat,
         SlotFits(a, {}), BeatFits(a, {}, n)
  PROVE  SlotFits(b, {}) /\ BeatFits(b, {}, n)
<1> DEFINE S == Producers(a)
           e == Sent(a)
           f == Sent(b)
<1>1. S \in SUBSET Tasks BY GroupFields, RoleTypes DEF Producers
<1>2. \A u \in S : u \in Tasks /\ u # t /\ b.slot[u] = a.slot[u] /\ a.slot[u] # k /\ a.slot[u] \in Slots
  BY <1>1, GroupFields DEF SlotFits
<1>3. b.slot[t] = k OBVIOUS
<1>4. a.counters \in [Slots -> Counter] BY GroupFields
<1>5. /\ \A j \in Slots : j # k => b.counters[j] = a.counters[j]
      /\ b.counters[k].tid = t
  BY <1>4 DEF Claimed, Counter
<1>6. SlotFits(b, {})
  <2>1. \A u, v \in Producers(b) : u # v => b.slot[u] # b.slot[v] BY <1>2, <1>3 DEF SlotFits
  <2>2. \A u \in Producers(b) : b.counters[b.slot[u]].tid = u BY <1>2, <1>3, <1>5 DEF SlotFits
  <2>3. \A u \in Producers(b) : b.slot[u] \in b.allocation BY <1>2, <1>3 DEF SlotFits
  <2>4. \A j \in b.allocation : \E u \in Producers(b) : b.slot[u] = j
    <3> SUFFICES ASSUME NEW j \in b.allocation PROVE \E u \in Producers(b) : b.slot[u] = j OBVIOUS
    <3>1. CASE j = k BY <1>3, <3>1
    <3>2. CASE j \in a.allocation
      <4>1. PICK u \in S : a.slot[u] = j BY <3>2 DEF SlotFits
      <4> QED BY <1>2, <4>1
    <3> QED BY <3>1, <3>2
  <2> QED BY <2>1, <2>2, <2>3, <2>4 DEF SlotFits
<1>7. e \in [Tasks -> Nat] /\ f \in [Tasks -> Nat] BY SentType
<1>8. \A u \in S : e[u] = f[u] BY <1>2, <1>5, SentType
<1>9. n <= a.history + Sum(e)[S]
  <2>1. S \ {} = S OBVIOUS
  <2> QED BY <2>1 DEF BeatFits
<1>10. a.history \in Nat BY GroupFields
<1> DEFINE T == S \cup {t}
<1>11. Producers(b) \ {} = T /\ T \in SUBSET Tasks /\ t \in T /\ T \ {t} = S BY <1>1
<1> HIDE DEF S, e, f, T
<1>12. Sum(e)[S] = Sum(f)[S] BY <1>1, <1>7, <1>8, SumAgree
<1>13. Sum(f) \in [SUBSET Tasks -> Nat] /\ Sum(f)[T] = f[t] + Sum(f)[S] BY <1>7, <1>11, SumIs, ZenonT(30)
<1>14. Sum(f)[S] \in Nat /\ f[t] \in Nat BY <1>1, <1>7, <1>13
<1>15. n <= b.history + Sum(f)[T] BY <1>9, <1>10, <1>12, <1>13, <1>14
<1>16. BeatFits(b, {}, n) BY <1>11, <1>15 DEF BeatFits, f
<1> QED BY <1>6, <1>16

\* The heartbeats of a producer move from its slot to the history.
LEMMA FoldFit ==
  ASSUME NEW a \in GroupRec, NEW b \in GroupRec, NEW t \in Producers(a),
         b.allocation = a.allocation, b.counters = a.counters, b.slot = a.slot,
         b.members = a.members, b.state = a.state,
         b.history = a.history + a.counters[a.slot[t]].counter, NEW n \in Nat,
         SlotFits(a, {}), BeatFits(a, {}, n)
  PROVE  SlotFits(b, {}) /\ BeatFits(b, {t}, n)
<1> DEFINE S == Producers(a)
           T == S \ {t}
           e == Sent(a)
<1>1. S \in SUBSET Tasks /\ t \in Tasks BY GroupFields, RoleTypes DEF Producers
<1>2. SlotFits(b, {}) BY DEF SlotFits, Producers
<1>3. e \in [Tasks -> Nat] /\ e[t] = a.counters[a.slot[t]].counter BY <1>1, SentType
<1>4. Sent(b) = e /\ Producers(b) = S BY DEF Sent, Producers
<1>5. n <= a.history + Sum(e)[S]
  <2>1. S \ {} = S OBVIOUS
  <2> QED BY <2>1 DEF BeatFits
<1>6. a.history \in Nat BY GroupFields
<1>7. T = S \ {t} /\ t \in S OBVIOUS
<1> HIDE DEF e, S, T
<1>8. Sum(e) \in [SUBSET Tasks -> Nat] /\ Sum(e)[S] = e[t] + Sum(e)[T] BY <1>1, <1>3, <1>7, SumIs
<1>9. Sum(e)[T] \in Nat /\ e[t] \in Nat BY <1>1, <1>3, <1>7, <1>8
<1>10. n <= b.history + Sum(e)[T] BY <1>3, <1>5, <1>6, <1>8, <1>9
<1>11. BeatFits(b, {t}, n) BY <1>4, <1>7, <1>10 DEF BeatFits
<1> QED BY <1>2, <1>11

\* The slot of a producer is released: nobody else has it.
LEMMA ReleaseFit ==
  ASSUME NEW a \in GroupRec, NEW b \in GroupRec, NEW t \in Producers(a),
         b.allocation = a.allocation \ {a.slot[t]}, b.counters = a.counters, b.slot = a.slot,
         b.members = a.members, b.state = a.state, b.history = a.history, NEW n \in Nat,
         SlotFits(a, {}), BeatFits(a, {t}, n)
  PROVE  SlotFits(b, {t}) /\ BeatFits(b, {t}, n)
<1>1. Producers(b) = Producers(a) /\ Sent(b) = Sent(a) BY DEF Producers, Sent
<1>2. BeatFits(b, {t}, n) BY <1>1 DEF BeatFits
<1>3. SlotFits(b, {t}) BY <1>1 DEF SlotFits
<1> QED BY <1>2, <1>3

\* A producer that is out is unlinked.
LEMMA UnlinkFit ==
  ASSUME NEW a \in GroupRec, NEW b \in GroupRec, NEW t \in Producers(a),
         b.allocation = a.allocation, b.counters = a.counters, b.history = a.history,
         Producers(b) = Producers(a) \ {t}, \A u \in Tasks : u # t => b.slot[u] = a.slot[u],
         b.state # "none", NEW n \in Nat, SlotFits(a, {t}), BeatFits(a, {t}, n)
  PROVE  SlotFits(b, {}) /\ BeatFits(b, {}, n)
<1> DEFINE S == Producers(b)
           e == Sent(a)
           f == Sent(b)
<1>1. S \in SUBSET Tasks BY GroupFields, RoleTypes DEF Producers
<1>2. \A u \in S : u \in Tasks /\ u \in Producers(a) /\ u # t /\ b.slot[u] = a.slot[u] BY <1>1
<1>3. SlotFits(b, {})
  <2>1. \A u, v \in S : u # v => b.slot[u] # b.slot[v] BY <1>2 DEF SlotFits
  <2>2. \A u \in S : b.counters[b.slot[u]].tid = u BY <1>2 DEF SlotFits
  <2>3. \A u \in S : b.slot[u] \in b.allocation BY <1>2 DEF SlotFits
  <2>4. \A k \in b.allocation : \E u \in S : b.slot[u] = k
    <3> SUFFICES ASSUME NEW k \in b.allocation PROVE \E u \in S : b.slot[u] = k OBVIOUS
    <3>1. PICK u \in Producers(a) : a.slot[u] = k BY DEF SlotFits
    <3>2. u # t BY <3>1 DEF SlotFits
    <3>3. u \in S BY <3>2
    <3> QED BY <1>2, <3>1, <3>3
  <2> QED BY <2>1, <2>2, <2>3, <2>4 DEF SlotFits
<1>4. e \in [Tasks -> Nat] /\ f \in [Tasks -> Nat] BY SentType
<1>5. \A u \in S : e[u] = f[u] BY <1>2, SentType
<1>6. Producers(a) \ {t} = S /\ S \ {} = S OBVIOUS
<1>7. n <= a.history + Sum(e)[S] BY <1>6 DEF BeatFits
<1> HIDE DEF e, f, S
<1>8. Sum(e)[S] = Sum(f)[S] BY <1>1, <1>4, <1>5, SumAgree
<1>9. n <= b.history + Sum(f)[S] BY <1>7, <1>8
<1>10. BeatFits(b, {}, n) BY <1>6, <1>9 DEF BeatFits, f, S
<1> QED BY <1>3, <1>10

\* A heartbeat counts in the slot of its sender and nowhere else.
LEMMA BeatFit ==
  ASSUME NEW a \in GroupRec, NEW b \in GroupRec, NEW t \in Producers(a), NEW out, NEW gone,
         t \notin gone, b.allocation = a.allocation, b.slot = a.slot, b.members = a.members,
         b.state = a.state, b.history = a.history, a.state # "none",
         b.counters = [a.counters EXCEPT ![a.slot[t]].counter = @ + 1], NEW n \in Nat,
         SlotFits(a, out), BeatFits(a, gone, n)
  PROVE  SlotFits(b, out) /\ BeatFits(b, gone, n + 1)
<1> DEFINE S == Producers(a) \ gone
           T == S \ {t}
           e == Sent(a)
           f == Sent(b)
           k == a.slot[t]
<1>1. S \in SUBSET Tasks /\ t \in Tasks /\ t \in S
  <2>1. Producers(a) \in SUBSET Tasks BY GroupFields, RoleTypes DEF Producers
  <2> QED BY <2>1
<1>2. a.counters \in [Slots -> Counter] /\ k \in Slots BY <1>1, GroupFields
<1>3. /\ \A j \in Slots : j # k => b.counters[j] = a.counters[j]
      /\ b.counters[k].tid = a.counters[k].tid /\ b.counters[k].counter = a.counters[k].counter + 1
  <2> HIDE DEF k
  <2>1. b.counters = [a.counters EXCEPT ![k].counter = @ + 1] BY DEF k
  <2> QED BY <1>2, <2>1 DEF Counter
<1>4. \A u \in Producers(a) : u \in Tasks /\ a.slot[u] \in Slots /\ (u # t => a.slot[u] # k)
  <2>1. Producers(a) \in SUBSET Tasks /\ a.slot \in [Tasks -> Slots] BY GroupFields, RoleTypes DEF Producers
  <2> QED BY <2>1 DEF SlotFits
<1>5. Producers(b) = Producers(a) BY DEF Producers
<1>6. SlotFits(b, out)
  <2> HIDE DEF k
  <2>1. \A u \in Producers(b) : b.counters[b.slot[u]].tid = u BY <1>3, <1>4, <1>5 DEF SlotFits
  <2> QED BY <1>5, <2>1 DEF SlotFits
<1>7. e \in [Tasks -> Nat] /\ f \in [Tasks -> Nat] BY SentType
<1>8. \A u \in T : e[u] = f[u]
  <2> SUFFICES ASSUME NEW u \in T PROVE e[u] = f[u] OBVIOUS
  <2>1. u \in Tasks /\ a.slot[u] \in Slots /\ a.slot[u] # k BY <1>4
  <2>2. b.counters[b.slot[u]] = a.counters[a.slot[u]] BY <1>3, <2>1
  <2>3. e[u] = a.counters[a.slot[u]].counter /\ f[u] = b.counters[b.slot[u]].counter BY <2>1, SentType
  <2> HIDE DEF e, f, T
  <2> QED BY <2>2, <2>3
<1>9. f[t] = e[t] + 1 BY <1>1, <1>3, SentType, ZenonT(30)
<1>10. n <= a.history + Sum(e)[S] /\ a.history \in Nat BY GroupFields DEF BeatFits
<1>11. T = S \ {t} OBVIOUS
<1>12. Producers(b) \ gone = S BY <1>5
<1> HIDE DEF S, T, e, f
<1>13. T \in SUBSET Tasks BY <1>1, <1>11
<1>14. Sum(e)[T] = Sum(f)[T] BY <1>7, <1>8, <1>13, SumAgree
<1>15. Sum(e) \in [SUBSET Tasks -> Nat] /\ Sum(e)[S] = e[t] + Sum(e)[T]
  <2>1. Sum(e) \in [SUBSET Tasks -> Nat] BY <1>7, SumIs
  <2>2. Sum(e)[S] = e[t] + Sum(e)[T] BY <1>1, <1>7, <1>11, SumIs
  <2> QED BY <2>1, <2>2
<1>16. Sum(f)[S] = f[t] + Sum(f)[T] BY <1>1, <1>7, <1>11, SumIs, ZenonT(30)
<1>17. Sum(e)[T] \in Nat /\ e[t] \in Nat BY <1>1, <1>7, <1>13, <1>15
<1>18. n + 1 <= b.history + Sum(f)[S] BY <1>9, <1>10, <1>14, <1>15, <1>16, <1>17
<1>19. BeatFits(b, gone, n + 1) BY <1>12, <1>18 DEF BeatFits, f
<1> QED BY <1>6, <1>19

\* A group with no producers and no slots, to which nothing was sent.
LEMMA FreshFit ==
  ASSUME NEW a \in GroupRec, Producers(a) = {}, a.allocation = {}, NEW out, NEW gone
  PROVE  SlotFits(a, out) /\ BeatFits(a, gone, 0)
<1>1. SlotFits(a, out) BY DEF SlotFits
<1>2. Sum(Sent(a))[{}] = 0 /\ a.history \in Nat BY SentType, SumIs, GroupFields
<1>3. Producers(a) \ gone = {} OBVIOUS
<1>4. BeatFits(a, gone, 0) BY <1>2, <1>3 DEF BeatFits
<1> QED BY <1>1, <1>4
-----------------------------------------------------------------------------
(***************************************************************************)
(* What each step does to the tasks.                                       *)
(***************************************************************************)
LEMMA BusyHolds ==
  ASSUME IInv, SlotInv, NEW t \in Tasks, Busy(loc[t])
  PROVE  lock = t
<1>1. LockExact /\ StepFits(t, loc[t], group) BY DEF IInv, SlotInv
<1>2. Holding(loc[t]) BY <1>1 DEF StepFits, Busy, Holding
<1> QED BY <1>1, <1>2 DEF LockExact

\* One task at most is busy, so a task that has the lock, or can take it, is the only
\* one that may have gone from a group.
LEMMA Alone ==
  ASSUME IInv, SlotInv, NEW t \in Tasks, lock \in {NoTask, t}
  PROVE  /\ \A u \in Tasks : u # t => ~Busy(loc[u])
         /\ \A g \in Gids : Out(loc, g) = IF IsOut(loc[t], g) THEN {t} ELSE {}
         /\ \A g \in Gids : Gone(loc, g) = IF HasGone(loc[t], g) THEN {t} ELSE {}
<1>1. \A u \in Tasks : u # t => ~Busy(loc[u]) BY BusyHolds, HrmAssumption
<1>2. \A u \in Tasks : \A g \in Gids : u # t => ~IsOut(loc[u], g) /\ ~HasGone(loc[u], g)
  BY <1>1 DEF Busy, IsOut, HasGone
<1> QED BY <1>1, <1>2 DEF Out, Gone

\* A step of a task that has the lock, or takes it, in group g.
LEMMA OwnerStep ==
  ASSUME IInv, SlotInv, NEW t \in Tasks, lock \in {NoTask, t}, NEW g \in Gids, NEW l, NEW gr,
         loc' = [loc EXCEPT ![t] = l], group'[g] = gr,
         \A h \in Gids : h # g => group'[h] = group[h] /\ beats'[h] = beats[h],
         \A h \in Gids : h # g => ~HasGone(loc[t], h) /\ ~HasGone(l, h),
         SlotFits(gr, IF IsOut(l, g) THEN {t} ELSE {}),
         BeatFits(gr, IF HasGone(l, g) THEN {t} ELSE {}, beats'[g]),
         StepFits(t, l, group')
  PROVE  SlotInv'
<1>1. TypeOK BY DEF IInv
<1>2. \A u \in Tasks : loc'[u] = IF u = t THEN l ELSE loc[u] BY <1>1 DEF TypeOK
<1>3. \A u \in Tasks : u # t => ~Busy(loc[u]) BY Alone
<1>4. \A u \in Tasks : \A h \in Gids : u # t => ~IsOut(loc[u], h) /\ ~HasGone(loc[u], h)
  BY <1>3 DEF Busy, IsOut, HasGone
<1>5. \A h \in Gids : h # g => ~IsOut(loc[t], h) /\ ~IsOut(l, h) BY DEF IsOut, HasGone
<1>6. \A h \in Gids : h # g => Out(loc', h) = Out(loc, h) /\ Gone(loc', h) = Gone(loc, h)
  BY <1>2, <1>5 DEF Out, Gone
<1>7. /\ Out(loc', g) = (IF IsOut(l, g) THEN {t} ELSE {})
      /\ Gone(loc', g) = (IF HasGone(l, g) THEN {t} ELSE {})
  BY <1>2, <1>4 DEF Out, Gone
<1>8. ASSUME NEW h \in Gids PROVE GroupFits(loc', h, group'[h], beats'[h])
  <2>1. CASE h = g BY <1>7, <2>1 DEF GroupFits
  <2>2. CASE h # g
    <3>1. GroupFits(loc, h, group[h], beats[h]) BY DEF SlotInv
    <3> QED BY <1>6, <2>2, <3>1 DEF GroupFits
  <2> QED BY <2>1, <2>2
<1>9. ASSUME NEW u \in Tasks PROVE StepFits(u, loc'[u], group')
  BY <1>2, <1>3 DEF StepFits
<1> QED BY <1>8, <1>9 DEF SlotInv, GroupFits, StepFits, SlotFits, BeatFits, Out, Gone

\* Steps that change no slot: a task that moves is, and was, not gone from a group.
Calm(t) ==
  \/ loc'[t] = loc[t]
  \/ /\ \A h \in Gids : ~HasGone(loc[t], h) /\ ~HasGone(loc'[t], h)
     /\ StepFits(t, loc'[t], group)

LEMMA CalmSlots ==
  ASSUME IInv, SlotInv, IInv', \A h \in Gids : SameSlots(group'[h], group[h]), beats' = beats,
         \A t \in Tasks : Calm(t)
  PROVE  SlotInv'
<1>1. /\ \A h \in Gids : group[h] \in GroupRec /\ group'[h] \in GroupRec
      /\ \A h \in Gids : beats[h] \in Nat
  BY DEF IInv, TypeOK
<1>2. \A h \in Gids, t \in Tasks : HasGone(loc'[t], h) <=> HasGone(loc[t], h) BY DEF Calm
<1>3. \A h \in Gids, t \in Tasks : IsOut(loc'[t], h) <=> IsOut(loc[t], h)
  BY DEF Calm, IsOut, HasGone
<1>4. \A h \in Gids : Out(loc', h) = Out(loc, h) /\ Gone(loc', h) = Gone(loc, h)
  BY <1>2, <1>3 DEF Out, Gone
<1>5. ASSUME NEW h \in Gids PROVE GroupFits(loc', h, group'[h], beats'[h])
  <2> DEFINE a == group[h]
             b == group'[h]
  <2>1. SlotFits(a, Out(loc, h)) /\ BeatFits(a, Gone(loc, h), beats[h]) BY DEF SlotInv, GroupFits
  <2>2. SameOwners(a, b) BY DEF SameSlots, SameOwners, Producers
  <2>3. a \in GroupRec /\ b \in GroupRec /\ beats[h] \in Nat BY <1>1
  <2> HIDE DEF a, b
  <2>4. SlotFits(b, Out(loc, h)) /\ BeatFits(b, Gone(loc, h), beats[h]) BY <2>1, <2>2, <2>3, OwnersFit
  <2> QED BY <1>4, <2>4 DEF GroupFits, b
<1>6. ASSUME NEW t \in Tasks PROVE StepFits(t, loc'[t], group')
  <2>1. StepFits(t, loc'[t], group) BY DEF SlotInv, Calm
  <2> DEFINE l == loc'[t]
  <2>2. CASE Busy(l)
    <3>1. SameSlots(group'[l.gid], group[l.gid]) BY <2>1, <2>2 DEF StepFits
    <3> QED BY <2>1, <2>2, <3>1 DEF StepFits, SameSlots
  <2>3. CASE ~Busy(l) BY <2>3 DEF StepFits
  <2> QED BY <2>2, <2>3
<1> QED BY <1>5, <1>6 DEF SlotInv, GroupFits, StepFits, SlotFits, BeatFits, Out, Gone
-----------------------------------------------------------------------------
(***************************************************************************)
(* The steps of each action.                                               *)
(***************************************************************************)
\* A task that starts to leave a group has loaded what is there.
LEMMA LeavingFits ==
  ASSUME TypeOK, NEW t \in Tasks, NEW g \in Gids, NEW role \in Roles, NEW f, f[g] = group[g]
  PROVE  /\ StepFits(t, Leaving(t, g, role, TRUE), f)
         /\ \A h \in Gids : ~HasGone(Leaving(t, g, role, TRUE), h)
<1> DEFINE l == Leaving(t, g, role, TRUE)
<1>1. /\ l \in LocRec /\ l.pc = (IF role = "producer" THEN "fold" ELSE "unlink")
      /\ l.gid = g /\ l.role = role /\ l.exiting = TRUE
  <2> DEFINE on == TRUE
  <2>1. on \in BOOLEAN OBVIOUS
  <2> HIDE DEF on
  <2>2. LET m == Leaving(t, g, role, on)
        IN  /\ m \in LocRec /\ m.pc = (IF role = "producer" THEN "fold" ELSE "unlink")
            /\ m.gid = g /\ m.role = role /\ m.exiting = on
    BY <2>1, LeavingType
  <2> QED BY <2>2 DEF on
<1>2. role = "producer" => l.value = group[g].history + group[g].counters[group[g].slot[t]].counter
  <2> DEFINE n == group[g].history + group[g].counters[group[g].slot[t]].counter
  <2> SUFFICES ASSUME role = "producer" PROVE l.value = n OBVIOUS
  <2>1. l = [AtUser EXCEPT !.pc = "fold", !.gid = g, !.role = role, !.exiting = TRUE, !.value = n]
    BY DEF Leaving, SlotOf
  <2> HIDE DEF n, l
  <2> QED BY <2>1 DEF AtUser
<1> HIDE DEF l
<1>3. StepFits(t, l, f) BY <1>1, <1>2 DEF StepFits
<1>4. \A h \in Gids : ~HasGone(l, h) BY <1>1 DEF HasGone
<1> QED BY <1>3, <1>4 DEF l

LEMMA LeftFits ==
  ASSUME TypeOK, NEW t \in Tasks, NEW role \in Roles, NEW rest \in Seq(Gids), NEW g,
         loc[t].exiting, Left(t, role, rest), ~InList(rest, g),
         \A h \in Gids : h # g => group'[h] = group[h]
  PROVE  \E l : /\ loc' = [loc EXCEPT ![t] = l] /\ StepFits(t, l, group')
                /\ \A h \in Gids : ~HasGone(l, h)
<1>1. CASE rest # <<>>
  <2> DEFINE h == Head(rest)
             l == Leaving(t, h, role, TRUE)
  <2>1. loc' = [loc EXCEPT ![t] = l] BY <1>1 DEF Left, Goto
  <2>2. h \in Gids /\ InList(rest, h) BY <1>1, HeadIn
  <2>3. group'[h] = group[h] BY <2>2
  <2> HIDE DEF h
  <2>4. StepFits(t, l, group') /\ \A j \in Gids : ~HasGone(l, j) BY <2>2, <2>3, LeavingFits
  <2> HIDE DEF l
  <2> QED BY <2>1, <2>4
<1>2. CASE rest = <<>>
  <2> DEFINE l == [AtUser EXCEPT !.pc = "exit"]
  <2>1. loc' = [loc EXCEPT ![t] = l] BY <1>2 DEF Left, Goto
  <2>2. l.pc = "exit" BY DEF AtUser
  <2> HIDE DEF l
  <2>3. StepFits(t, l, group') /\ \A j \in Gids : ~HasGone(l, j) BY <2>2 DEF StepFits, Busy, HasGone
  <2> QED BY <2>1, <2>3
<1> QED BY <1>1, <1>2

\* A group that is found or made has its slots right.
LEMMA FoundFits ==
  ASSUME IInv, SlotInv, lock = NoTask, NEW g \in Gids
  PROVE  SlotFits(FindOrCreate(g), {}) /\ BeatFits(FindOrCreate(g), {}, beats[g])
<1> DEFINE old == FindOrCreate(g)
<1>1. TypeOK BY DEF IInv
<1>2. old \in GroupRec BY FindOrCreateIs
<1>3. old = IF group[g].state = "none" THEN [NoGroup EXCEPT !.state = "unlisted"] ELSE group[g]
  BY <1>1, FindOrCreateType
<1> HIDE DEF old
<1>4. \A u \in Tasks : ~IsOut(loc[u], g) /\ ~HasGone(loc[u], g)
  BY BusyHolds, HrmAssumption DEF Busy, IsOut, HasGone
<1>5. Out(loc, g) = {} /\ Gone(loc, g) = {} BY <1>4 DEF Out, Gone
<1>6. SlotFits(group[g], {}) /\ BeatFits(group[g], {}, beats[g]) BY <1>5 DEF SlotInv, GroupFits
<1>7. CASE group[g].state # "none" BY <1>3, <1>6, <1>7 DEF old
<1>8. CASE group[g].state = "none"
  <2>1. beats[g] = 0 BY <1>6, <1>8 DEF BeatFits
  <2>2. old.members = [r \in Roles |-> {}] /\ old.allocation = {} BY <1>3, <1>8 DEF NoGroup
  <2>3. Producers(old) = {} BY <2>2, RoleTypes DEF Producers
  <2>4. SlotFits(old, {}) /\ BeatFits(old, {}, 0) BY <1>2, <2>2, <2>3, FreshFit
  <2> QED BY <2>1, <2>4 DEF old
<1> QED BY <1>7, <1>8

LEMMA AddProducerSlots ==
  ASSUME IInv, SlotInv, IInv', NEW t \in Tasks, NEW g \in Gids, AddProducer(t, g)
  PROVE  SlotInv'
<1> DEFINE old == FindOrCreate(g)
           k == FirstIn(Slots \ old.allocation)
           s == [old.slot EXCEPT ![t] = k]
           gr == [old EXCEPT !.slot = s]
           a == old.allocation
           l == [AtUser EXCEPT !.pc = "alloc", !.gid = g, !.word = a]
<1>1. TypeOK /\ MembersExact BY DEF IInv
<1>2. /\ lock = NoTask /\ loc[t].pc = "user" /\ ~InList(joined[t]["producer"], g)
      /\ Slots \ old.allocation # {} /\ group' = [group EXCEPT ![g] = gr] /\ beats' = beats
      /\ loc' = [loc EXCEPT ![t] = l]
  BY DEF AddProducer, Joined, InList, Goto
<1>3. /\ old \in GroupRec /\ old.state # "none" /\ old.members = group[g].members
      /\ group[g].state # "unlisted"
  BY <1>2, FindOrCreateIs
<1>4. old = IF group[g].state = "none" THEN [NoGroup EXCEPT !.state = "unlisted"] ELSE group[g]
  BY <1>1, FindOrCreateType
<1>5. group'[g] = gr /\ \A h \in Gids : h # g => group'[h] = group[h]
  <2> HIDE DEF gr
  <2> QED BY <1>1, <1>2, WritesOne
<1>6. gr \in GroupRec
  <2> HIDE DEF gr
  <2>1. group'[g] \in GroupRec BY DEF IInv, TypeOK
  <2> QED BY <1>5, <2>1
<1> HIDE DEF old
<1>7. k \in Slots /\ k \notin a
  <2>1. Slots \ old.allocation \subseteq Nat BY SlotTypes
  <2>2. k \in Slots \ old.allocation BY <1>2, <2>1, FirstInIs
  <2> QED BY <2>2
<1>8. s[t] = k /\ \A u \in Tasks : u # t => s[u] = old.slot[u] BY <1>3, GroupFields
<1>9. t \notin Producers(old) BY <1>1, <1>2, <1>3, RoleTypes DEF MembersExact, Producers
<1> HIDE DEF s, k
<1>10. /\ gr.slot = s /\ gr.allocation = a /\ gr.counters = old.counters /\ gr.history = old.history
       /\ gr.members = old.members /\ gr.state = old.state
  BY <1>3 DEF GroupRec
<1>11. Producers(old) \subseteq Tasks BY <1>3, GroupFields, RoleTypes DEF Producers
<1> HIDE DEF gr
<1>12. SameOwners(old, gr) BY <1>8, <1>9, <1>10, <1>11 DEF SameOwners, Producers
<1>13. SlotFits(old, {}) /\ BeatFits(old, {}, beats[g]) BY <1>2, FoundFits DEF old
<1>14. beats[g] \in Nat BY <1>1 DEF TypeOK
<1>15. SlotFits(gr, {}) /\ BeatFits(gr, {}, beats[g])
  BY <1>3, <1>6, <1>12, <1>13, <1>14, OwnersFit
<1>16. l.pc = "alloc" /\ l.gid = g /\ l.word = a BY DEF AtUser
<1> HIDE DEF l, a
<1>17. StepFits(t, l, group') BY <1>5, <1>7, <1>8, <1>10, <1>16 DEF StepFits
<1>18. \A h \in Gids : ~HasGone(l, h) /\ ~IsOut(l, h) /\ ~HasGone(loc[t], h)
  BY <1>2, <1>16 DEF HasGone, IsOut
<1> QED BY <1>2, <1>5, <1>15, <1>17, <1>18, OwnerStep

LEMMA AddConsumerSlots ==
  ASSUME IInv, SlotInv, IInv', NEW t \in Tasks, NEW g \in Gids, AddConsumer(t, g)
  PROVE  SlotInv'
<1> DEFINE old == FindOrCreate(g)
           m == [old.members EXCEPT !["consumer"] = @ \cup {t}]
           gr == [old EXCEPT !.members = m, !.state = "listed"]
           l == [AtUser EXCEPT !.pc = "map_counters", !.gid = g, !.role = "consumer"]
<1>1. TypeOK BY DEF IInv
<1>2. /\ lock = NoTask /\ loc[t].pc = "user" /\ beats' = beats
      /\ group' = [group EXCEPT ![g] = gr] /\ loc' = [loc EXCEPT ![t] = l]
  BY DEF AddConsumer, Goto
<1>3. old \in GroupRec /\ old.state # "none" BY <1>2, FindOrCreateIs
<1>4. old = IF group[g].state = "none" THEN [NoGroup EXCEPT !.state = "unlisted"] ELSE group[g]
  BY <1>1, FindOrCreateType
<1>5. group'[g] = gr /\ \A h \in Gids : h # g => group'[h] = group[h]
  <2> HIDE DEF gr
  <2> QED BY <1>1, <1>2, WritesOne
<1>6. gr \in GroupRec
  <2> HIDE DEF gr
  <2>1. group'[g] \in GroupRec BY DEF IInv, TypeOK
  <2> QED BY <1>5, <2>1
<1> HIDE DEF old
<1>7. m["producer"] = old.members["producer"] BY <1>3, GroupFields, RoleTypes
<1> HIDE DEF m
<1>8. /\ gr.slot = old.slot /\ gr.allocation = old.allocation /\ gr.counters = old.counters
      /\ gr.history = old.history /\ gr.members = m /\ gr.state = "listed"
  BY <1>3 DEF GroupRec
<1> HIDE DEF gr
<1>9. SameOwners(old, gr) BY <1>7, <1>8 DEF SameOwners, Producers
<1>10. SlotFits(old, {}) /\ BeatFits(old, {}, beats[g]) BY <1>2, FoundFits DEF old
<1>11. beats[g] \in Nat BY <1>1 DEF TypeOK
<1>12. SlotFits(gr, {}) /\ BeatFits(gr, {}, beats[g]) BY <1>3, <1>6, <1>9, <1>10, <1>11, OwnersFit
<1>13. l.pc = "map_counters" BY DEF AtUser
<1> HIDE DEF l
<1>14. StepFits(t, l, group') BY <1>13 DEF StepFits, Busy
<1>15. \A h \in Gids : ~HasGone(l, h) /\ ~IsOut(l, h) /\ ~HasGone(loc[t], h)
  BY <1>2, <1>13 DEF HasGone, IsOut
<1> QED BY <1>2, <1>5, <1>12, <1>14, <1>15, OwnerStep

LEMMA LinkSlots == ASSUME IInv, SlotInv, IInv', NEW t \in Tasks, LinkProducer(t) PROVE SlotInv'
<1> DEFINE g == loc[t].gid
           old == group[g]
           k == SlotOf(t, g)
           w == loc[t].word
           gr == Started(old, t, k, w)
           l == [AtUser EXCEPT !.pc = "map_counters", !.gid = g]
<1>1. loc[t].pc = "alloc" BY DEF LinkProducer
<1>2. /\ TypeOK /\ MembersExact /\ LockExact /\ loc[t] \in LocRec /\ g \in Gids /\ old \in GroupRec
  BY <1>1, AtGroup DEF IInv
<1>3. /\ group' = [group EXCEPT ![g] = gr] /\ loc' = [loc EXCEPT ![t] = l] /\ beats' = beats
  BY <1>2, LinkProducerIs
<1>4. k \in Slots /\ w \in SUBSET Slots /\ k = old.slot[t]
  BY <1>2, GroupFields, LocFields DEF SlotOf
<1>5. lock = t BY <1>1, <1>2 DEF LockExact, Holding
<1>6. StepFits(t, loc[t], group) BY DEF SlotInv
<1>7. w = old.allocation /\ k \notin old.allocation BY <1>1, <1>4, <1>6 DEF StepFits, Busy
<1>8. t \notin Producers(old)
  <2>1. ~InList(joined[t]["producer"], g) BY <1>1, TaskFacts DEF LocFits
  <2> QED BY <1>2, <2>1, RoleTypes DEF MembersExact, Producers
<1>9. SlotFits(old, {}) /\ BeatFits(old, {}, beats[g])
  <2>1. ~IsOut(loc[t], g) /\ ~HasGone(loc[t], g) BY <1>1 DEF IsOut, HasGone
  <2>2. Out(loc, g) = {} /\ Gone(loc, g) = {} BY <1>2, <1>5, <2>1, Alone
  <2> QED BY <1>2, <2>2 DEF SlotInv, GroupFits
<1>10. beats[g] \in Nat BY <1>2 DEF TypeOK
<1>11. l.pc = "map_counters" BY DEF AtUser
<1> HIDE DEF l, k, w, old
<1>12. gr = Started(old, t, k, w) OBVIOUS
<1> HIDE DEF gr
<1>13. gr.state = "listed" /\ gr.members = [old.members EXCEPT !["producer"] = @ \cup {t}] /\ gr \in GroupRec
  <2>1. now \in Nat BY <1>2 DEF TypeOK
  <2> QED BY <1>2, <1>4, <1>12, <2>1, StartedIs
<1>14. Producers(gr) = Producers(old) \cup {t}
  <2>1. old.members \in [Roles -> SUBSET Tasks] BY <1>2, GroupFields
  <2> QED BY <1>13, <2>1, RoleTypes DEF Producers
<1>15. /\ gr.history = old.history /\ gr.allocation = w \cup {k}
       /\ \A u \in Tasks : gr.slot[u] = IF u = t THEN k ELSE old.slot[u]
       /\ gr.counters = Claimed(old.counters, t, k)
  BY <1>2, <1>4, <1>12, StartedParts
<1>16. SlotFits(gr, {}) /\ BeatFits(gr, {}, beats[g])
  <2> HIDE DEF g
  <2> QED BY <1>2, <1>4, <1>7, <1>8, <1>9, <1>10, <1>13, <1>14, <1>15, LinkFit
<1>17. StepFits(t, l, group') BY <1>11 DEF StepFits, Busy
<1>18. \A h \in Gids : ~HasGone(l, h) /\ ~IsOut(l, h) /\ ~HasGone(loc[t], h)
  BY <1>1, <1>11 DEF HasGone, IsOut
<1> HIDE DEF g
<1>19. group'[g] = gr /\ \A h \in Gids : h # g => group'[h] = group[h] BY <1>2, <1>3, WritesOne
<1> QED BY <1>2, <1>3, <1>5, <1>16, <1>17, <1>18, <1>19, OwnerStep

\* The task that leaves a group as a producer is one, and has the lock.
LEMMA LeaverFacts ==
  ASSUME IInv, SlotInv, NEW t \in Tasks, loc[t].pc \in {"fold", "release", "unlink"}
  PROVE  /\ lock = t /\ loc[t].exiting
         /\ loc[t].role = "producer" => t \in Producers(group[loc[t].gid])
<1>1. loc[t] \in LocRec /\ LocFits(loc[t], joined[t]) /\ MembersExact /\ loc[t].gid \in Gids
  BY TaskFacts, AtGroup DEF IInv
<1>2. lock = t BY BusyHolds DEF Busy
<1>3. StepFits(t, loc[t], group) BY DEF SlotInv
<1>4. loc[t].exiting BY <1>3 DEF StepFits, Busy
<1>5. InList(joined[t][loc[t].role], loc[t].gid) BY <1>1 DEF LocFits
<1> QED BY <1>1, <1>2, <1>4, <1>5, RoleTypes DEF MembersExact, Producers

LEMMA FoldSlots == ASSUME IInv, SlotInv, IInv', NEW t \in Tasks, Fold(t) PROVE SlotInv'
<1> DEFINE g == loc[t].gid
           old == group[g]
           v == loc[t].value
           w == old.allocation
           gr == [old EXCEPT !.history = v]
           l == [loc[t] EXCEPT !.pc = "release", !.value = 0, !.word = w]
<1>1. loc[t].pc = "fold" BY DEF Fold
<1>2. TypeOK /\ loc[t] \in LocRec /\ g \in Gids /\ old \in GroupRec BY <1>1, AtGroup
<1>3. /\ group' = [group EXCEPT ![g] = gr] /\ loc' = [loc EXCEPT ![t] = l] /\ beats' = beats
  BY DEF Fold, Goto
<1>4. loc[t].role = "producer" BY <1>1, TaskFacts DEF LocFits
<1>5. lock = t /\ loc[t].exiting /\ t \in Producers(old) BY <1>1, <1>4, LeaverFacts
<1>6. StepFits(t, loc[t], group) BY DEF SlotInv
<1>7. v = old.history + old.counters[old.slot[t]].counter BY <1>1, <1>6 DEF StepFits, Busy
<1>8. SlotFits(old, {}) /\ BeatFits(old, {}, beats[g])
  <2>1. ~IsOut(loc[t], g) /\ ~HasGone(loc[t], g) BY <1>1 DEF IsOut, HasGone
  <2>2. Out(loc, g) = {} /\ Gone(loc, g) = {} BY <1>2, <1>5, <2>1, Alone
  <2> QED BY <1>2, <2>2 DEF SlotInv, GroupFits
<1>9. beats[g] \in Nat BY <1>2 DEF TypeOK
<1>10. l.pc = "release" /\ l.gid = g /\ l.role = "producer" /\ l.exiting = loc[t].exiting /\ l.word = w
  BY <1>2, <1>4 DEF LocRec
<1>11. v \in Nat BY <1>2, LocFields
<1> HIDE DEF l, old, v
<1>12. gr \in GroupRec BY <1>2, <1>11, PutField
<1>13. /\ gr.history = v /\ gr.allocation = w /\ gr.counters = old.counters /\ gr.slot = old.slot
       /\ gr.members = old.members /\ gr.state = old.state
  BY <1>2 DEF GroupRec
<1> HIDE DEF gr, w
<1>14. SlotFits(gr, {}) /\ BeatFits(gr, {t}, beats[g])
  <2> HIDE DEF g
  <2> QED BY <1>2, <1>5, <1>7, <1>8, <1>9, <1>12, <1>13, FoldFit DEF w
<1> HIDE DEF g
<1>15. group'[g] = gr /\ \A h \in Gids : h # g => group'[h] = group[h] BY <1>2, <1>3, WritesOne
<1>16. StepFits(t, l, group') BY <1>2, <1>5, <1>10, <1>13, <1>15 DEF StepFits
<1>17. /\ \A h \in Gids : h # g => ~HasGone(l, h) /\ ~HasGone(loc[t], h)
       /\ HasGone(l, g) /\ ~IsOut(l, g)
  BY <1>1, <1>10 DEF HasGone, IsOut
<1>18. /\ SlotFits(gr, IF IsOut(l, g) THEN {t} ELSE {})
       /\ BeatFits(gr, IF HasGone(l, g) THEN {t} ELSE {}, beats'[g])
  BY <1>3, <1>14, <1>17
<1> QED BY <1>2, <1>3, <1>5, <1>15, <1>16, <1>17, <1>18, OwnerStep

LEMMA ReleaseSlots == ASSUME IInv, SlotInv, IInv', NEW t \in Tasks, Release(t) PROVE SlotInv'
<1> DEFINE g == loc[t].gid
           old == group[g]
           v == loc[t].word \ {old.slot[t]}
           gr == [old EXCEPT !.allocation = v]
           l == [loc[t] EXCEPT !.pc = "unlink", !.word = {}]
<1>1. loc[t].pc = "release" BY DEF Release
<1>2. TypeOK /\ loc[t] \in LocRec /\ g \in Gids /\ old \in GroupRec BY <1>1, AtGroup
<1>3. /\ group' = [group EXCEPT ![g] = gr] /\ loc' = [loc EXCEPT ![t] = l] /\ beats' = beats
  BY DEF Release, Goto, SlotOf
<1>4. loc[t].role = "producer" BY <1>1, TaskFacts DEF LocFits
<1>5. lock = t /\ loc[t].exiting /\ t \in Producers(old) BY <1>1, <1>4, LeaverFacts
<1>6. StepFits(t, loc[t], group) BY DEF SlotInv
<1>7. v = old.allocation \ {old.slot[t]} BY <1>1, <1>6 DEF StepFits, Busy
<1>8. SlotFits(old, {}) /\ BeatFits(old, {t}, beats[g])
  <2>1. ~IsOut(loc[t], g) /\ HasGone(loc[t], g) BY <1>1, <1>4 DEF IsOut, HasGone
  <2>2. Out(loc, g) = {} /\ Gone(loc, g) = {t} BY <1>2, <1>5, <2>1, Alone
  <2> QED BY <1>2, <2>2 DEF SlotInv, GroupFits
<1>9. beats[g] \in Nat BY <1>2 DEF TypeOK
<1>10. l.pc = "unlink" /\ l.gid = g /\ l.role = "producer" /\ l.exiting = loc[t].exiting
  BY <1>2, <1>4 DEF LocRec
<1>11. v \in SUBSET Slots BY <1>2, <1>7, GroupFields
<1> HIDE DEF l, old, v
<1>12. gr \in GroupRec BY <1>2, <1>11, PutField
<1>13. /\ gr.history = old.history /\ gr.allocation = v /\ gr.counters = old.counters
       /\ gr.slot = old.slot /\ gr.members = old.members /\ gr.state = old.state
  BY <1>2 DEF GroupRec
<1> HIDE DEF gr
<1>14. SlotFits(gr, {t}) /\ BeatFits(gr, {t}, beats[g])
  <2> HIDE DEF g
  <2> QED BY <1>2, <1>5, <1>7, <1>8, <1>9, <1>12, <1>13, ReleaseFit
<1> HIDE DEF g
<1>15. group'[g] = gr /\ \A h \in Gids : h # g => group'[h] = group[h] BY <1>2, <1>3, WritesOne
<1>16. StepFits(t, l, group') BY <1>2, <1>5, <1>10 DEF StepFits
<1>17. /\ \A h \in Gids : h # g => ~HasGone(l, h) /\ ~HasGone(loc[t], h)
       /\ HasGone(l, g) /\ IsOut(l, g)
  BY <1>1, <1>10 DEF HasGone, IsOut, g
<1>18. /\ SlotFits(gr, IF IsOut(l, g) THEN {t} ELSE {})
       /\ BeatFits(gr, IF HasGone(l, g) THEN {t} ELSE {}, beats'[g])
  BY <1>3, <1>14, <1>17
<1> QED BY <1>2, <1>3, <1>5, <1>15, <1>16, <1>17, <1>18, OwnerStep

\* Where Unlink sends a task that exits.
LEMMA UnlinkGoes ==
  ASSUME IInv, SlotInv, NEW t \in Tasks, Unlink(t)
  PROVE  \E l : /\ loc' = [loc EXCEPT ![t] = l] /\ StepFits(t, l, group')
                /\ \A h \in Gids : ~HasGone(l, h)
<1> DEFINE g == loc[t].gid
           role == loc[t].role
           q == Without(joined[t][role], g)
<1>1. loc[t].pc = "unlink" BY DEF Unlink
<1>2. TypeOK /\ loc[t] \in LocRec /\ g \in Gids /\ role \in Roles BY <1>1, AtGroup
<1>3. loc[t].exiting BY <1>1, LeaverFacts
<1>4. q \in Seq(Gids) /\ ~InList(q, g)
  <2>1. InList(joined[t][role], g) BY <1>1, TaskFacts DEF LocFits
  <2>2. joined[t][role] \in Seq(Gids) /\ Distinct(joined[t][role]) BY <1>2, TaskFacts
  <2> QED BY <2>1, <2>2, UnlinkEffect
<1>5. \A h \in Gids : h # g => group'[h] = group[h] BY UnlinkFrame
<1>6. loc' = [loc EXCEPT ![t] = [loc[t] EXCEPT !.pc = "destroy"]] \/ Left(t, role, q)
  BY DEF Unlink, Goto
<1>7. CASE loc' = [loc EXCEPT ![t] = [loc[t] EXCEPT !.pc = "destroy"]]
  <2> DEFINE l == [loc[t] EXCEPT !.pc = "destroy"]
  <2>1. l.pc = "destroy" /\ l.exiting = loc[t].exiting /\ l.gid = g BY <1>2 DEF LocRec
  <2> HIDE DEF l, g
  <2>2. StepFits(t, l, group') /\ \A h \in Gids : ~HasGone(l, h)
    BY <1>2, <1>3, <2>1 DEF StepFits, HasGone
  <2> QED BY <1>7, <2>2 DEF l
<1>8. CASE Left(t, role, q)
  <2> HIDE DEF g, q, role
  <2> QED BY <1>2, <1>3, <1>4, <1>5, <1>8, LeftFits
<1> QED BY <1>6, <1>7, <1>8

LEMMA UnlinkSlots == ASSUME IInv, SlotInv, IInv', NEW t \in Tasks, Unlink(t) PROVE SlotInv'
<1> DEFINE g == loc[t].gid
           role == loc[t].role
           old == group[g]
           gr == Unlinked(old, t, role)
           off == [gr EXCEPT !.state = "unlisted"]
           new == group'[g]
<1>1. loc[t].pc = "unlink" BY DEF Unlink
<1>2. /\ TypeOK /\ StateExact /\ MembersExact /\ g \in Gids /\ role \in Roles /\ old \in GroupRec
  BY <1>1, AtGroup DEF IInv
<1>3. lock = t /\ (role = "producer" => t \in Producers(old)) BY <1>1, LeaverFacts
<1>4. /\ gr \in GroupRec /\ gr.state = old.state /\ gr.members = [old.members EXCEPT ![role] = @ \ {t}]
      /\ gr.history = old.history /\ gr.allocation = old.allocation /\ gr.counters = old.counters
      /\ \A u \in Tasks : u # t => gr.slot[u] = old.slot[u]
      /\ role # "producer" => gr.slot = old.slot
  <2>1. gr = Unlinked(old, t, role) OBVIOUS
  <2> HIDE DEF old, role, gr
  <2>2. gr \in GroupRec /\ gr.state = old.state /\ gr.members = [old.members EXCEPT ![role] = @ \ {t}]
    BY <1>2, <2>1, UnlinkedIs
  <2>3. /\ gr.history = old.history /\ gr.allocation = old.allocation /\ gr.counters = old.counters
        /\ \A u \in Tasks : u # t => gr.slot[u] = old.slot[u]
    BY <1>2, <2>1, UnlinkedRest
  <2>4. ASSUME role # "producer" PROVE gr.slot = old.slot
    <3> DEFINE s == [old.slot EXCEPT ![t] = IF role = "producer" THEN 0 ELSE @]
    <3>1. old.slot \in [Tasks -> Slots] BY <1>2, GroupFields
    <3>2. s = old.slot BY <2>4, <3>1
    <3>3. gr.slot = s BY <1>2, <2>1 DEF Unlinked, GroupRec
    <3> QED BY <3>2, <3>3
  <2> QED BY <2>2, <2>3, <2>4
<1>5. group' = [group EXCEPT ![g] = gr] \/ group' = [group EXCEPT ![g] = off]
  BY DEF Unlink, Unlinked
<1>6. beats' = beats BY DEF Unlink
<1>7. old.state = "listed"
  <2>1. InList(joined[t][role], g) BY <1>1, TaskFacts DEF LocFits
  <2>2. t \in old.members[role] BY <1>2, <2>1 DEF MembersExact
  <2>3. ~Empty(old) BY <1>2, <2>2 DEF Empty
  <2> QED BY <1>2, <2>3 DEF StateExact
<1>8. beats[g] \in Nat /\ new \in GroupRec BY <1>2 DEF IInv, TypeOK
<1>9. IF role = "producer" THEN SlotFits(old, {t}) /\ BeatFits(old, {t}, beats[g])
      ELSE SlotFits(old, {}) /\ BeatFits(old, {}, beats[g])
  <2>1. IsOut(loc[t], g) <=> role = "producer" BY <1>1 DEF IsOut
  <2>2. HasGone(loc[t], g) <=> role = "producer" BY <1>1 DEF HasGone
  <2>3. /\ Out(loc, g) = (IF role = "producer" THEN {t} ELSE {})
        /\ Gone(loc, g) = (IF role = "producer" THEN {t} ELSE {})
    BY <1>2, <1>3, <2>1, <2>2, Alone
  <2>4. SlotFits(old, Out(loc, g)) /\ BeatFits(old, Gone(loc, g), beats[g])
    BY <1>2 DEF SlotInv, GroupFits
  <2> QED BY <2>3, <2>4
<1>10. PICK l : /\ loc' = [loc EXCEPT ![t] = l] /\ StepFits(t, l, group')
                /\ \A h \in Gids : ~HasGone(l, h)
  BY UnlinkGoes
<1>11. \A h \in Gids : h # g => group'[h] = group[h] /\ ~HasGone(loc[t], h)
  BY UnlinkFrame DEF HasGone
<1>12. role # "producer" => role = "consumer" BY <1>2 DEF Roles
<1>13. old.members \in [Roles -> SUBSET Tasks] BY <1>2, GroupFields
<1> HIDE DEF g, old, gr, role
<1>14. off \in GroupRec /\ off.members = gr.members /\ off.history = gr.history
       /\ off.allocation = gr.allocation /\ off.counters = gr.counters /\ off.slot = gr.slot
       /\ off.state = "unlisted"
  BY <1>4 DEF GroupRec
<1> HIDE DEF off
<1>15. new = gr \/ new = off BY <1>2, <1>5, WritesOne
<1> HIDE DEF new
<1>16. /\ new.members = gr.members /\ new.history = old.history /\ new.allocation = old.allocation
       /\ new.counters = old.counters /\ new.slot = gr.slot /\ new.state # "none"
  BY <1>4, <1>7, <1>14, <1>15
<1>17. SlotFits(new, {}) /\ BeatFits(new, {}, beats[g])
  <2>1. CASE role = "producer"
    <3>1. Producers(new) = Producers(old) \ {t} BY <1>4, <1>13, <1>16, <2>1, RoleTypes DEF Producers
    <3>2. SlotFits(old, {t}) /\ BeatFits(old, {t}, beats[g]) /\ t \in Producers(old) BY <1>3, <1>9, <2>1
    <3>3. \A u \in Tasks : u # t => new.slot[u] = old.slot[u] BY <1>4, <1>16
    <3> QED BY <1>2, <1>8, <1>16, <3>1, <3>2, <3>3, UnlinkFit
  <2>2. CASE role # "producer"
    <3>1. Producers(new) = Producers(old) BY <1>4, <1>12, <1>13, <1>16, <2>2, RoleTypes DEF Producers
    <3>2. SameOwners(old, new) BY <1>4, <1>16, <2>2, <3>1 DEF SameOwners
    <3>3. SlotFits(old, {}) /\ BeatFits(old, {}, beats[g]) BY <1>9, <2>2
    <3> QED BY <1>2, <1>8, <3>2, <3>3, OwnersFit
  <2> QED BY <2>1, <2>2
<1>18. ~HasGone(l, g) /\ ~IsOut(l, g) BY <1>2, <1>10 DEF HasGone, IsOut
<1>19. new = group'[g] BY DEF new
<1> QED BY <1>2, <1>3, <1>6, <1>10, <1>11, <1>17, <1>18, <1>19, OwnerStep

LEMMA DestroySlots == ASSUME IInv, SlotInv, IInv', NEW t \in Tasks, Destroy(t) PROVE SlotInv'
<1> DEFINE g == loc[t].gid
           role == loc[t].role
           q == joined[t][role]
           new == group'[g]
<1>1. loc[t].pc = "destroy" BY DEF Destroy
<1>2. /\ TypeOK /\ StateExact /\ MembersExact /\ g \in Gids /\ role \in Roles /\ q \in Seq(Gids)
  BY <1>1, AtGroup, TaskFacts DEF IInv
<1>3. lock = t /\ loc[t].exiting
  <2>1. StepFits(t, loc[t], group) BY DEF SlotInv
  <2> QED BY <1>1, <2>1, BusyHolds DEF StepFits, Busy
<1>4. Left(t, role, q) /\ beats' = [beats EXCEPT ![g] = 0] BY DEF Destroy
<1>5. /\ \A h \in Gids : h # g => group'[h] = group[h]
      /\ new.allocation = {} /\ new.members = [r \in Roles |-> {}]
  BY DestroyFrame DEF Fresh
<1>6. beats'[g] = 0 /\ \A h \in Gids : h # g => beats'[h] = beats[h] BY <1>2, <1>4 DEF TypeOK
<1>7. ~InList(q, g)
  <2>1. group[g].state = "unlisted" BY <1>1, <1>2 DEF StateExact
  <2>2. Empty(group[g]) BY <1>2, <2>1 DEF StateExact
  <2>3. t \notin group[g].members[role] BY <1>2, <2>2 DEF Empty
  <2> QED BY <1>2, <2>3 DEF MembersExact
<1>8. new \in GroupRec BY <1>2 DEF IInv, TypeOK
<1>9. Producers(new) = {} BY <1>5, RoleTypes DEF Producers
<1>10. \A h \in Gids : ~HasGone(loc[t], h) BY <1>1 DEF HasGone
<1> HIDE DEF g, role, q
<1>11. PICK l : /\ loc' = [loc EXCEPT ![t] = l] /\ StepFits(t, l, group')
                /\ \A h \in Gids : ~HasGone(l, h)
  BY <1>2, <1>3, <1>4, <1>5, <1>7, LeftFits
<1>12. ~HasGone(l, g) /\ ~IsOut(l, g) BY <1>2, <1>11 DEF HasGone, IsOut
<1>13. new = group'[g] OBVIOUS
<1> HIDE DEF new
<1>14. SlotFits(new, {}) /\ BeatFits(new, {}, 0) BY <1>5, <1>8, <1>9, FreshFit
<1> QED BY <1>2, <1>3, <1>5, <1>6, <1>10, <1>11, <1>12, <1>13, <1>14, OwnerStep, ZenonT(30)

LEMMA HeartbeatSlots ==
  ASSUME IInv, SlotInv, IInv', NEW t \in Tasks, NEW g \in Gids, Heartbeat(t, g)
  PROVE  SlotInv'
<1> DEFINE old == group[g]
           k == old.slot[t]
           c == [old.counters EXCEPT ![k].counter = @ + 1]
           new == [old EXCEPT !.counters = c]
<1>1. TypeOK /\ MembersExact /\ StateExact /\ LocExact /\ old \in GroupRec BY DEF IInv, TypeOK
<1>2. /\ loc[t].pc = "user" /\ loc' = loc /\ InList(joined[t]["producer"], g)
      /\ group' = [group EXCEPT ![g] = new] /\ beats' = [beats EXCEPT ![g] = @ + 1]
  BY DEF Heartbeat, SlotOf, Joined, InList
<1>3. group'[g] = new /\ \A h \in Gids : h # g => group'[h] = group[h]
  <2> HIDE DEF new
  <2> QED BY <1>1, <1>2, WritesOne
<1>4. /\ beats'[g] = beats[g] + 1 /\ beats[g] \in Nat /\ \A h \in Gids : h # g => beats'[h] = beats[h]
  BY <1>1, <1>2 DEF TypeOK
<1>5. new \in GroupRec
  <2> HIDE DEF new
  <2>1. group'[g] \in GroupRec BY DEF IInv, TypeOK
  <2> QED BY <1>3, <2>1
<1>6. t \in Producers(old) BY <1>1, <1>2, RoleTypes DEF MembersExact, Producers
<1>7. old.state # "none"
  <2>1. ~Empty(old) BY <1>6, RoleTypes DEF Empty, Producers
  <2> QED BY <1>1, <2>1 DEF StateExact
<1>8. SlotFits(old, Out(loc, g)) /\ BeatFits(old, Gone(loc, g), beats[g]) BY DEF SlotInv, GroupFits
<1>9. t \notin Gone(loc, g) BY <1>2 DEF Gone, HasGone
<1>10. old.counters \in [Slots -> Counter] /\ old.slot \in [Tasks -> Slots] BY <1>1, GroupFields
<1>11. \A j \in Slots : j # k => c[j] = old.counters[j] BY <1>10
<1>12. old = group[g] /\ k = old.slot[t] OBVIOUS
<1> HIDE DEF old
<1>13. c = [old.counters EXCEPT ![old.slot[t]].counter = @ + 1] OBVIOUS
<1> HIDE DEF c
<1>14. /\ new.allocation = old.allocation /\ new.slot = old.slot /\ new.members = old.members
       /\ new.state = old.state /\ new.history = old.history /\ new.counters = c
  BY <1>1 DEF GroupRec
<1> HIDE DEF new
<1>15. SlotFits(new, Out(loc, g)) /\ BeatFits(new, Gone(loc, g), beats[g] + 1)
  BY <1>1, <1>4, <1>5, <1>6, <1>7, <1>8, <1>9, <1>13, <1>14, BeatFit
<1>16. ASSUME NEW h \in Gids PROVE GroupFits(loc', h, group'[h], beats'[h])
  <2>1. CASE h = g BY <1>2, <1>3, <1>4, <1>15, <2>1 DEF GroupFits
  <2>2. CASE h # g
    <3>1. GroupFits(loc, h, group[h], beats[h]) BY DEF SlotInv
    <3> QED BY <1>2, <1>3, <1>4, <2>2, <3>1
  <2> QED BY <2>1, <2>2
<1>17. ASSUME NEW u \in Tasks PROVE StepFits(u, loc'[u], group')
  <2> DEFINE l == loc[u]
  <2>1. StepFits(u, l, group) /\ loc'[u] = l BY <1>2 DEF SlotInv
  <2>2. CASE ~Busy(l) BY <2>1, <2>2 DEF StepFits
  <2>3. CASE Busy(l) /\ l.gid # g
    <3>1. group'[l.gid] = group[l.gid] BY <1>3, <2>1, <2>3 DEF StepFits
    <3> QED BY <2>1, <2>3, <3>1 DEF StepFits
  <2>4. CASE Busy(l) /\ l.gid = g
    <3>1. u # t BY <1>2, <2>4 DEF Busy
    <3>2. ASSUME l.pc = "fold" PROVE new.counters[new.slot[u]] = old.counters[old.slot[u]]
      <4>1. LocFits(l, joined[u]) BY <1>1 DEF LocExact
      <4>2. InList(joined[u]["producer"], g) BY <2>4, <3>2, <4>1 DEF LocFits
      <4>3. u \in Producers(old) BY <1>1, <1>12, <4>2, RoleTypes DEF MembersExact, Producers
      <4>4. old.slot[u] # k /\ old.slot[u] \in Slots BY <1>6, <1>8, <1>10, <1>12, <3>1, <4>3 DEF SlotFits
      <4> QED BY <1>11, <1>14, <4>4
    <3> HIDE DEF l
    <3> QED BY <1>3, <1>12, <1>14, <2>1, <2>4, <3>2 DEF StepFits
  <2> QED BY <2>2, <2>3, <2>4
<1> QED BY <1>16, <1>17 DEF SlotInv, GroupFits, StepFits, SlotFits, BeatFits, Out, Gone

\* A task that is in no critical section moves and no slot changes.
LEMMA IdleSlots ==
  ASSUME IInv, SlotInv, IInv', \A h \in Gids : SameSlots(group'[h], group[h]), beats' = beats,
         NEW t \in Tasks, NEW l, loc' = [loc EXCEPT ![t] = l], ~Busy(loc[t]),
         \/ ~Busy(l)
         \/ StepFits(t, l, group) /\ \A h \in Gids : ~HasGone(l, h)
  PROVE  SlotInv'
<1>1. TypeOK BY DEF IInv
<1>2. \A u \in Tasks : loc'[u] = IF u = t THEN l ELSE loc[u] BY <1>1 DEF TypeOK
<1>3. \A h \in Gids : ~HasGone(loc[t], h) BY DEF Busy, HasGone
<1>4. StepFits(t, l, group) /\ \A h \in Gids : ~HasGone(l, h) BY DEF Busy, HasGone, StepFits
<1>5. \A u \in Tasks : Calm(u) BY <1>2, <1>3, <1>4 DEF Calm
<1> QED BY <1>5, CalmSlots

\* Nobody moves.
LEMMA StillSlots ==
  ASSUME IInv, SlotInv, IInv', \A h \in Gids : SameSlots(group'[h], group[h]),
         beats' = beats, loc' = loc
  PROVE  SlotInv'
<1>1. \A u \in Tasks : Calm(u) BY DEF Calm
<1> QED BY <1>1, CalmSlots

LEMMA TaskSlots ==
  ASSUME ExitOnly, IInv, SlotInv, IInv', NEW t \in Tasks, Continue(t) \/ Wait(t) \/ Call(t)
  PROVE  SlotInv'
<1>1. TypeOK BY DEF IInv
<1>2. ASSUME group' = group PROVE \A h \in Gids : SameSlots(group'[h], group[h])
  BY <1>2 DEF SameSlots
<1>3. CASE LinkProducer(t) BY <1>3, LinkSlots
<1>4. CASE Fold(t) BY <1>4, FoldSlots
<1>5. CASE Release(t) BY <1>5, ReleaseSlots
<1>6. CASE Unlink(t) BY <1>6, UnlinkSlots
<1>7. CASE Destroy(t) BY <1>7, DestroySlots
<1>8. CASE Exit(t) \/ ExitDone(t)
  <2> DEFINE to(pc) == [AtUser EXCEPT !.pc = pc]
  <2>1. /\ group' = group /\ beats' = beats /\ ~Busy(loc[t])
        /\ loc' = [loc EXCEPT ![t] = to("exit")] \/ loc' = [loc EXCEPT ![t] = to("dead")]
    BY <1>8 DEF Exit, ExitDone, Goto, Busy
  <2>2. ~Busy(to("exit")) /\ ~Busy(to("dead")) BY DEF Busy, AtUser
  <2> HIDE DEF to
  <2> QED BY <1>2, <2>1, <2>2, IdleSlots
<1>9. CASE Fork(t)
  <2>1. group' = group /\ beats' = beats /\ ~Busy(loc[t]) /\ loc' = [loc EXCEPT ![t] = AtUser]
    BY <1>9 DEF Fork, Goto, Busy
  <2>2. ~Busy(AtUser) BY DEF Busy, AtUser
  <2> QED BY <1>2, <2>1, <2>2, IdleSlots
<1>10. CASE SetGoalScope(t)
  <2> DEFINE g == loc[t].gid
             goal == [group[g].goal EXCEPT !.scope = loc[t].size]
  <2>1. g \in Gids BY <1>10, AtGroup DEF SetGoalScope
  <2>2. /\ group' = [group EXCEPT ![g] = [group[g] EXCEPT !.goal = goal]] /\ beats' = beats
        /\ ~Busy(loc[t]) /\ loc' = [loc EXCEPT ![t] = AtUser]
    BY <1>10 DEF SetGoalScope, Goto, Busy
  <2>3. ~Busy(AtUser) BY DEF Busy, AtUser
  <2> HIDE DEF g, goal
  <2>4. \A h \in Gids : SameSlots(group'[h], group[h]) BY <1>1, <2>1, <2>2, GoalFrame
  <2> QED BY <2>2, <2>3, <2>4, IdleSlots
<1>11. CASE EndDelWindow(t)
  <2> DEFINE g == loc[t].gid
             goal == DelWindow(group[g].goal, loc[t].size)
  <2>1. g \in Gids BY <1>11, AtGroup DEF EndDelWindow
  <2>2. /\ group' = group \/ group' = [group EXCEPT ![g] = [group[g] EXCEPT !.goal = goal]]
        /\ beats' = beats /\ ~Busy(loc[t]) /\ loc' = [loc EXCEPT ![t] = AtUser]
    BY <1>11 DEF EndDelWindow, Goto, Busy
  <2>3. ~Busy(AtUser) BY DEF Busy, AtUser
  <2> HIDE DEF g, goal
  <2>4. \A h \in Gids : SameSlots(group'[h], group[h]) BY <1>1, <1>2, <2>1, <2>2, GoalFrame
  <2> QED BY <2>2, <2>3, <2>4, IdleSlots
<1>12. ASSUME NEW memory \in Memories, NEW fails \in MapFails, Mmap(t, memory, fails)
       PROVE  SlotInv'
  <2> DEFINE l == IF memory = "counters" THEN [loc[t] EXCEPT !.pc = "map_goal"] ELSE AtUser
  <2>1. fails = FALSE BY HrmAssumption DEF ExitOnly
  <2>2. /\ loc[t].pc = (IF memory = "counters" THEN "map_counters" ELSE "map_goal")
        /\ Maps(t, memory) /\ beats' = beats
    BY <1>12, <2>1, MmapIs
  <2>3. loc[t].pc \in {"map_counters", "map_goal"} BY <2>2
  <2>4. loc[t] \in LocRec /\ loc[t].gid \in Gids /\ ~Busy(loc[t]) BY <2>3, AtGroup DEF Busy
  <2>5. loc' = [loc EXCEPT ![t] = l] BY <2>2 DEF Maps
  <2>6. l.pc \in {"map_goal", "user"} BY <2>4 DEF LocRec, AtUser
  <2> HIDE DEF l
  <2>7. ~Busy(l) BY <2>6 DEF Busy
  <2>8. \A h \in Gids : SameSlots(group'[h], group[h]) BY <1>1, <2>2, <2>4, MapsFrame
  <2> QED BY <2>2, <2>4, <2>5, <2>7, <2>8, IdleSlots
<1>13. ASSUME NEW role \in Roles, ExitGroups(t, role) PROVE SlotInv'
  <2> DEFINE g == Head(joined[t][role])
             l == Leaving(t, g, role, TRUE)
  <2>1. /\ group' = group /\ beats' = beats /\ ~Busy(loc[t]) /\ loc' = [loc EXCEPT ![t] = l]
        /\ joined[t][role] # <<>>
    BY <1>13 DEF ExitGroups, Goto, Busy
  <2>2. g \in Gids BY <2>1, TaskFacts, HeadIn
  <2> HIDE DEF g
  <2>3. StepFits(t, l, group) /\ \A h \in Gids : ~HasGone(l, h) BY <1>1, <2>2, LeavingFits
  <2> HIDE DEF l
  <2> QED BY <1>2, <2>1, <2>3, IdleSlots
<1>14. ASSUME NEW g \in Gids, AddProducer(t, g) PROVE SlotInv' BY <1>14, AddProducerSlots
<1>15. ASSUME NEW g \in Gids, AddConsumer(t, g) PROVE SlotInv' BY <1>15, AddConsumerSlots
<1>16. ASSUME NEW g \in Gids, Heartbeat(t, g) PROVE SlotInv' BY <1>16, HeartbeatSlots
<1>17. ASSUME NEW g \in Gids, UnsetGoal(t, g) PROVE SlotInv'
  <2> DEFINE goal == [group[g].goal EXCEPT !.scope = 0]
  <2>1. /\ group' = [group EXCEPT ![g] = [group[g] EXCEPT !.goal = goal]]
        /\ beats' = beats /\ loc' = loc
    BY <1>17 DEF UnsetGoal
  <2> HIDE DEF goal
  <2>2. \A h \in Gids : SameSlots(group'[h], group[h]) BY <1>1, <2>1, GoalFrame
  <2> QED BY <2>1, <2>2, StillSlots
<1>18. ASSUME NEW g \in Gids, NEW role \in Roles, NEW ws \in WindowAsks, Add(t, g, role, ws)
       PROVE  SlotInv'
  <2> DEFINE goal == AddWindow(group[g].goal, ws)
  <2>1. /\ group' = [group EXCEPT ![g] = [group[g] EXCEPT !.goal = goal]]
        /\ beats' = beats /\ loc' = loc
    BY <1>18 DEF Add
  <2> HIDE DEF goal
  <2>2. \A h \in Gids : SameSlots(group'[h], group[h]) BY <1>1, <2>1, GoalFrame
  <2> QED BY <2>1, <2>2, StillSlots
<1>19. ASSUME NEW g \in Gids, NEW ws \in WindowAsks,
              SetGoalWindow(t, g, ws) \/ BeginDelWindow(t, g, ws)
       PROVE  SlotInv'
  <2> DEFINE goal == AddWindow(group[g].goal, ws)
             to(pc) == [AtUser EXCEPT !.pc = pc, !.gid = g, !.size = ws]
  <2>1. /\ group' = group \/ group' = [group EXCEPT ![g] = [group[g] EXCEPT !.goal = goal]]
        /\ beats' = beats /\ ~Busy(loc[t])
        /\ loc' = [loc EXCEPT ![t] = to("set_goal")] \/ loc' = [loc EXCEPT ![t] = to("del_window")]
    BY <1>19 DEF SetGoalWindow, BeginDelWindow, Attached, Goto, Busy
  <2>2. ~Busy(to("set_goal")) /\ ~Busy(to("del_window")) BY DEF Busy, AtUser
  <2> HIDE DEF goal, to
  <2>3. \A h \in Gids : SameSlots(group'[h], group[h]) BY <1>1, <1>2, <2>1, GoalFrame
  <2> QED BY <2>1, <2>2, <2>3, IdleSlots
<1>20. ASSUME NEW g \in Gids, NEW role \in Roles, Detach(t, g, role) PROVE FALSE
  BY <1>20 DEF Detach, ExitOnly
<1>21. CASE Continue(t) BY <1>3, <1>4, <1>5, <1>8, <1>10, <1>11, <1>12, <1>21 DEF Continue
<1>22. CASE Wait(t) BY <1>6, <1>7, <1>13, <1>22 DEF Wait
<1>23. CASE Call(t)
  BY <1>8, <1>9, <1>14, <1>15, <1>16, <1>17, <1>18, <1>19, <1>20, <1>23 DEF Call
<1> QED BY <1>21, <1>22, <1>23

LEMMA SlotNext == ASSUME ExitOnly PROVE IInv /\ SlotInv /\ [Next]_vars => SlotInv'
<1> SUFFICES ASSUME IInv, SlotInv, [Next]_vars PROVE SlotInv' OBVIOUS
<1>1. IInv' BY NextKeeps
<1>2. ASSUME NEW t \in Tasks, Continue(t) \/ Wait(t) \/ Call(t) PROVE SlotInv'
  BY <1>1, <1>2, TaskSlots
<1>3. ASSUME NEW g \in Gids, Timer(g) PROVE SlotInv'
  <2>1. CASE TimerFire(g) BY <1>1, <2>1, FireFrame, StillSlots
  <2>2. ASSUME NEW d \in Periods, TimerBody(g, d) PROVE SlotInv'
    BY <1>1, <2>2, BodyFrame, StillSlots
  <2> QED BY <1>3, <2>1, <2>2 DEF Timer
<1>4. CASE UNCHANGED vars
  <2>1. group' = group /\ beats' = beats /\ loc' = loc BY <1>4 DEF vars
  <2> QED BY <1>1, <2>1, StillSlots DEF SameSlots
<1> QED BY <1>2, <1>3, <1>4 DEF Next

\* At most one producer has gone and is still linked: leaving it out lowers the sum.
LEMMA GoneSum ==
  ASSUME IInv, SlotInv, NEW g \in Gids, NEW f \in [Tasks -> Nat]
  PROVE  /\ Sum(f)[Producers(group[g])] \in Nat
         /\ Sum(f)[Producers(group[g]) \ Gone(loc, g)] \in Nat
         /\ Sum(f)[Producers(group[g]) \ Gone(loc, g)] <= Sum(f)[Producers(group[g])]
<1> DEFINE S == Producers(group[g])
<1>1. TypeOK /\ group[g] \in GroupRec BY DEF IInv, TypeOK
<1>2. S \in SUBSET Tasks BY <1>1, GroupFields, RoleTypes DEF Producers
<1>3. Sum(f) \in [SUBSET Tasks -> Nat] BY SumIs
<1> HIDE DEF S
<1>4. Sum(f)[S] \in Nat BY <1>2, <1>3
<1>5. CASE Gone(loc, g) = {}
  <2>1. S \ Gone(loc, g) = S BY <1>5
  <2> QED BY <1>4, <2>1 DEF S
<1>6. CASE Gone(loc, g) # {}
  <2>1. PICK t \in Tasks : HasGone(loc[t], g) BY <1>6 DEF Gone
  <2>2. loc[t].pc \in {"release", "unlink"} /\ loc[t].gid = g /\ loc[t].role = "producer"
    BY <2>1 DEF HasGone
  <2>3. lock = t /\ t \in S BY <2>2, LeaverFacts DEF S
  <2>4. Gone(loc, g) = {t} BY <2>1, <2>3, Alone
  <2>5. Sum(f)[S] = f[t] + Sum(f)[S \ {t}] BY <1>2, <2>3, SumIs
  <2>6. S \ {t} \in SUBSET Tasks BY <1>2
  <2>7. Sum(f)[S \ {t}] \in Nat /\ f[t] \in Nat BY <1>3, <2>6
  <2> QED BY <1>4, <2>4, <2>5, <2>7 DEF S
<1> QED BY <1>5, <1>6

LEMMA SlotInit == Init => SlotInv
<1> SUFFICES ASSUME Init PROVE SlotInv OBVIOUS
<1>1. /\ \A t \in Tasks : loc[t] = AtUser
      /\ \A g \in Gids : group[g] = NoGroup /\ beats[g] = 0
  BY DEF Init
<1>2. ASSUME NEW t \in Tasks PROVE StepFits(t, loc[t], group) BY <1>1 DEF StepFits, Busy, AtUser
<1>3. ASSUME NEW g \in Gids PROVE GroupFits(loc, g, group[g], beats[g])
  <2>1. Producers(NoGroup) = {} /\ NoGroup.allocation = {} BY RoleTypes DEF Producers, NoGroup
  <2>2. SlotFits(NoGroup, Out(loc, g)) /\ BeatFits(NoGroup, Gone(loc, g), 0)
    BY <2>1, NoGroupType, FreshFit
  <2> QED BY <1>1, <2>2 DEF GroupFits
<1> QED BY <1>2, <1>3 DEF SlotInv

\* When tasks leave their groups only by exiting, each producer has a slot of its own,
\* marked in the bitmap and with its tid, and no slot is lost: bitmap_find_free_region and
\* bitmap_release_region are then all under hrm_groups_lock.
THEOREM SlotsStayOwned == ASSUME ExitOnly PROVE Spec => []SlotsOwned
<1>1. Init => SlotInv BY SlotInit
<1>2. IInv /\ SlotInv /\ [Next]_vars => SlotInv' BY SlotNext
<1>3. SlotInv => SlotsOwned
  <2> SUFFICES ASSUME SlotInv, NEW g \in Gids
               PROVE  LET made == group[g].members["producer"]
                          lost == group[g].allocation \ {SlotOf(t, g) : t \in made}
                      IN  /\ \A t, u \in made : t # u => SlotOf(t, g) # SlotOf(u, g)
                          /\ \A t \in made : /\ group[g].counters[SlotOf(t, g)].tid = t
                                             /\ \/ SlotOf(t, g) \in group[g].allocation
                                                \/ loc[t].pc = "unlink"
                          /\ lost = {}
    BY DEF SlotsOwned
  <2>1. SlotFits(group[g], Out(loc, g)) BY DEF SlotInv, GroupFits
  <2>2. \A t \in Out(loc, g) : loc[t].pc = "unlink" BY DEF Out, IsOut
  <2> QED BY <2>1, <2>2 DEF SlotFits, Producers, SlotOf
<1> QED BY <1>1, <1>2, <1>3, Invariant, PTL DEF Spec

\* Then no heartbeat is lost when its sender leaves: history.history and the counters of
\* the producers account for every heartbeat sent since the group was made.
THEOREM BeatsStayKept == ASSUME ExitOnly PROVE Spec => []BeatsKept
<1>1. Init => SlotInv BY SlotInit
<1>2. IInv /\ SlotInv /\ [Next]_vars => SlotInv' BY SlotNext
<1>3. IInv /\ SlotInv => BeatsKept
  <2> SUFFICES ASSUME IInv, SlotInv, NEW g \in Gids PROVE Total(group[g]) >= beats[g]
    BY DEF BeatsKept
  <2> DEFINE gr == group[g]
  <2>1. gr \in GroupRec /\ beats[g] \in Nat BY DEF IInv, TypeOK
  <2>2. BeatFits(gr, Gone(loc, g), beats[g]) BY DEF SlotInv, GroupFits
  <2> HIDE DEF gr
  <2>3. Total(gr) = gr.history + Sum(Sent(gr))[Producers(gr)] BY <2>1, TotalType DEF Producers
  <2>4. Sent(gr) \in [Tasks -> Nat] /\ gr.history \in Nat BY <2>1, SentType, GroupFields
  <2> DEFINE all == Sum(Sent(gr))[Producers(gr)]
             left == Sum(Sent(gr))[Producers(gr) \ Gone(loc, g)]
  <2>5. all \in Nat /\ left \in Nat /\ left <= all BY <2>4, GoneSum DEF gr
  <2>6. Total(gr) = gr.history + all /\ beats[g] <= gr.history + left BY <2>2, <2>3 DEF BeatFits
  <2> HIDE DEF all, left
  <2> QED BY <2>1, <2>4, <2>5, <2>6 DEF gr
<1> QED BY <1>1, <1>2, <1>3, Invariant, PTL DEF Spec
=============================================================================
