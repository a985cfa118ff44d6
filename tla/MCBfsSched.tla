----------------------------- MODULE MCBfsSched -----------------------------
(***************************************************************************)
(* Small instances of BfsSched for TLC.                                    *)
(***************************************************************************)
EXTENDS BfsSched, TLC

CONSTANTS t1, t2, t3

MCDeadlineDiff == [n \in Nices |-> n + 2]

\* CPUs that share a cache, no hyperthreads.
MCLocality == [c \in Cpus |-> [d \in Cpus |-> IF c = d THEN 0 ELSE 2]]
MCSmtSiblings == [c \in Cpus |-> {c}]
MCCacheSiblings == [c \in Cpus |-> Cpus]

\* Tasks to start with.
Unused == [state |-> "none", policy |-> "normal", rt_priority |-> 0, nice |-> 0,
           prio |-> NORMAL_PRIO, deadline |-> 0, time_slice |-> SLICE, sticky |-> FALSE,
           cpu |-> 0, allowed |-> Cpus, on_cpu |-> FALSE, top_waiter |-> PRIO_LIMIT,
           reset_on_fork |-> FALSE, parent |-> NoTask]
Sleeper == [Unused EXCEPT !.state = "interruptible"]
RtSleeper == [Sleeper EXCEPT !.policy = "fifo", !.rt_priority = 1, !.prio = 0]

AllNormal == [t \in Tasks |-> Sleeper]
OneBatch  == [t \in Tasks |-> IF t = t1 THEN [Sleeper EXCEPT !.policy = "batch"] ELSE Unused]
OneRt     == [t \in Tasks |-> IF t = t3 THEN RtSleeper ELSE Sleeper]

\* Policies to ask for.
ThreePolicies == {<<"rr", 1>>, <<"iso", 0>>, <<"idleprio", 0>>}
RtOnly == {<<"rr", 1>>}

\* t2 is a process of its own, t3 a thread of the process that t1 leads.
MCPid  == [t \in Tasks |-> IF t = t1 THEN 1 ELSE IF t = t2 THEN 2 ELSE 3]
MCTgid == [t \in Tasks |-> IF t = t2 THEN 2 ELSE 1]

\* A limit for the process of t1, its removal, and a line that is turned down.
LimitLines ==
  {[pid |-> 1, type |-> "p", max_load |-> 5], [pid |-> -1, type |-> "t", max_load |-> 5],
   [pid |-> 1, type |-> "t", max_load |-> 4]}

Perms     == Permutations(Tasks)
CellPerms == Permutations(Cells)
PermsT12  == Permutations({t1, t2})
=============================================================================
