------------------------------ MODULE HrmWindow ------------------------------
(***************************************************************************)
(* The data of one Heart Rate Monitor group that its timer works on: the   *)
(* ring of samples in struct hrm_group (include/linux/hrm.h), the measures *)
(* it publishes, and the table of windows that libhrm keeps in the goal    *)
(* page (tools/libhrm/hrm.c).  Operators from values to values; HrmGroup   *)
(* is the state machine that uses them.                                    *)
(*                                                                         *)
(* Heartbeats are counted modulo CountMod, as a u64 does modulo 2^64, and  *)
(* time in coarse units.                                                   *)
(***************************************************************************)
EXTENDS Integers, Sequences, FiniteSets

CONSTANTS
  HRM_MAX_WINDOWS,      \* entries of the window table
  HRM_MAX_WINDOW_SIZE,  \* slots of the ring, a power of two
  CountMod              \* counts are u64: arithmetic on them is modulo this

ASSUME WindowAssumption ==
  /\ HRM_MAX_WINDOWS \in Nat \ {0}
  /\ HRM_MAX_WINDOW_SIZE \in Nat /\ HRM_MAX_WINDOW_SIZE >= 2
  /\ CountMod \in Nat \ {0}

Windows == 1 .. HRM_MAX_WINDOWS
RingIdx == 0 .. HRM_MAX_WINDOW_SIZE - 1

Sample   == [counter: Nat, elapsed_time: Nat]
Measure  == [count: Nat, time: Nat]
Measures == [global: Measure, window: [Windows -> Measure]]
Ring     == [window: [RingIdx -> Sample], window_cur: RingIdx,
             buffered: 0 .. HRM_MAX_WINDOW_SIZE]
Goal     == [scope: Nat, window_size: [Windows -> Nat]]

NoSample   == [counter |-> 0, elapsed_time |-> 0]
NoMeasure  == [count |-> 0, time |-> 0]
NoMeasures == [global |-> NoMeasure, window |-> [i \in Windows |-> NoMeasure]]
NoGoal     == [scope |-> 0, window_size |-> [i \in Windows |-> 0]]

\* The ring as kzalloc leaves it, and as the first producer starts it: slot 0
\* stands for "no heartbeats at time 0".
EmptyRing   == [window |-> [k \in RingIdx |-> NoSample], window_cur |-> 0, buffered |-> 0]
StartedRing == [EmptyRing EXCEPT !.window_cur = 1, !.buffered = 1]
-----------------------------------------------------------------------------
(***************************************************************************)
(* __hrm_update_group_measures, once the heartbeats are summed up.         *)
(***************************************************************************)
\* The sample a window of ws periods starts at, or of all periods so far when
\* fewer were sampled.
FirstOf(ring, ws) ==
  LET size == IF ws > ring.buffered THEN ring.buffered ELSE ws
  IN  (ring.window_cur - size) % HRM_MAX_WINDOW_SIZE

\* The current sample goes into the ring before the windows are measured.
Sampled(ring, heartbeats, elapsed) ==
  [ring EXCEPT !.window[ring.window_cur] = [counter |-> heartbeats, elapsed_time |-> elapsed]]

MeasureWindow(ring, heartbeats, elapsed, ws) ==
  LET first == ring.window[FirstOf(ring, ws)]
  IN  [count |-> (heartbeats - first.counter) % CountMod,
       time  |-> elapsed - first.elapsed_time]

\* A window of size 0 is not in use: its old measure stays.
UpdateMeasures(measures, ring, goal, heartbeats, elapsed) ==
  LET r == Sampled(ring, heartbeats, elapsed)
  IN  [global |-> [count |-> heartbeats, time |-> elapsed],
       window |-> [i \in Windows |->
                     IF goal.window_size[i] # 0 /\ ring.buffered # 0
                     THEN MeasureWindow(r, heartbeats, elapsed, goal.window_size[i])
                     ELSE measures.window[i]]]

\* Mutant: the ring is one slot too long.
Advance_Late(ring) ==
  [ring EXCEPT !.buffered = IF @ < HRM_MAX_WINDOW_SIZE THEN @ + 1 ELSE @,
               !.window_cur = (@ + 1) % (HRM_MAX_WINDOW_SIZE - 1)]

Advance(ring) ==
  [ring EXCEPT !.buffered = IF @ < HRM_MAX_WINDOW_SIZE THEN @ + 1 ELSE @,
               !.window_cur = (@ + 1) % HRM_MAX_WINDOW_SIZE]
-----------------------------------------------------------------------------
(***************************************************************************)
(* The window table, changed by libhrm under goal_lock.                    *)
(***************************************************************************)
FirstIn(set) == CHOOSE i \in set : \A j \in set : i <= j

\* __hrm_add_window stops at the first entry that has the size or is free.
Places(goal, ws) == {i \in Windows : goal.window_size[i] \in {ws, 0}}

AddWindow(goal, ws) == [goal EXCEPT !.window_size[FirstIn(Places(goal, ws))] = ws]

\* hrm_del_window clears the first entry that has the size.
Holders(goal, ws) == {i \in Windows : goal.window_size[i] = ws}

DelWindow(goal, ws) == [goal EXCEPT !.window_size[FirstIn(Holders(goal, ws))] = 0]
-----------------------------------------------------------------------------
\* What a measure over the last ws periods should be, from the samples taken so
\* far, newest first: the difference to the sample ws periods ago, or to the
\* oldest one.
MeasureOf(samples, ws) ==
  LET back == IF ws < Len(samples) THEN ws + 1 ELSE Len(samples)
  IN  [count |-> (samples[1].counter - samples[back].counter) % CountMod,
       time  |-> samples[1].elapsed_time - samples[back].elapsed_time]

\* The last samples, n of them at most.
Remember(samples, s, n) ==
  LET all == <<s>> \o samples
  IN  IF Len(all) > n THEN SubSeq(all, 1, n) ELSE all
=============================================================================
