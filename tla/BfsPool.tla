------------------------------- MODULE BfsPool -------------------------------
(***************************************************************************)
(* What the BFS scheduler promises, without priorities, deadlines, counters*)
(* or lists: one pool of ready tasks that every CPU draws from.  A CPU only *)
(* ever changes what it runs itself, it only takes a task that is ready and *)
(* that may run there, and the task it gives up becomes ready, goes to      *)
(* sleep or is gone.  The CPU may also go idle at any time: this kernel     *)
(* injects idle cycles.  BfsSched implements this specification.            *)
(***************************************************************************)
CONSTANTS Tasks, Cpus, Idle

VARIABLES
  curr,     \* what each CPU runs
  ready,    \* tasks waiting for a CPU
  asleep,   \* tasks waiting for an event
  created,  \* tasks forked and not started yet
  allowed   \* the CPUs each task may run on

vars == <<curr, ready, asleep, created, allowed>>

Busy == {p \in Tasks : \E c \in Cpus : curr[c] = p}
Free == Tasks \ (Busy \cup ready \cup asleep \cup created)

TypeOK ==
  /\ curr \in [Cpus -> Tasks \cup {Idle}]
  /\ ready \subseteq Tasks
  /\ asleep \subseteq Tasks
  /\ created \subseteq Tasks
  /\ allowed \in [Tasks -> SUBSET Cpus]

\* Before anything runs.
Init ==
  /\ curr = [c \in Cpus |-> Idle]
  /\ ready = {}
  /\ asleep \subseteq Tasks
  /\ created = {}
  /\ allowed \in [Tasks -> SUBSET Cpus]

\* schedule() on CPU c: what becomes of the task that ran, and what runs next.
Switch(c) ==
  \E fate \in {"ready", "asleep", "gone"} :
    LET prev == {curr[c]} \cap Tasks
        pool == ready \cup (IF fate = "ready" THEN prev ELSE {})
    IN  /\ asleep' = asleep \cup (IF fate = "asleep" THEN prev ELSE {})
        /\ \E next \in pool \cup {Idle} :
             /\ next \in Tasks => c \in allowed[next]
             /\ curr' = [curr EXCEPT ![c] = next]
             /\ ready' = pool \ {next}
        /\ UNCHANGED <<created, allowed>>

\* try_to_wake_up.
Wake(p) ==
  /\ p \in asleep
  /\ asleep' = asleep \ {p}
  /\ ready' = ready \cup {p}
  /\ UNCHANGED <<curr, created, allowed>>

\* sched_fork and wake_up_new_task; a new task may run where its parent may.
Create(p) ==
  /\ p \in Free
  /\ created' = created \cup {p}
  /\ \E parent \in Busy : allowed' = [allowed EXCEPT ![p] = allowed[parent]]
  /\ UNCHANGED <<curr, ready, asleep>>

Start(p) ==
  /\ p \in created
  /\ created' = created \ {p}
  /\ ready' = ready \cup {p}
  /\ UNCHANGED <<curr, asleep, allowed>>

\* set_cpus_allowed_ptr.
Rebind(p) ==
  /\ \E mask \in SUBSET Cpus : mask # {} /\ allowed' = [allowed EXCEPT ![p] = mask]
  /\ UNCHANGED <<curr, ready, asleep, created>>

Next ==
  \/ \E c \in Cpus : Switch(c)
  \/ \E p \in Tasks : Wake(p) \/ Create(p) \/ Start(p) \/ Rebind(p)

Spec == Init /\ [][Next]_vars

\* No task is in two places: not on two CPUs, and neither running nor waiting in
\* two ways at once.
Exclusive ==
  /\ \A c, d \in Cpus : curr[c] = curr[d] /\ curr[c] \in Tasks => c = d
  /\ Busy \cap ready = {}
  /\ Busy \cap asleep = {}
  /\ Busy \cap created = {}
  /\ ready \cap asleep = {}
  /\ ready \cap created = {}
  /\ asleep \cap created = {}
=============================================================================
