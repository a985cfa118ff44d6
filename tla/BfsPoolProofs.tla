---------------------------- MODULE BfsPoolProofs ----------------------------
(***************************************************************************)
(* The pool keeps its types, and no task is ever in two places.            *)
(***************************************************************************)
EXTENDS BfsPool, TLAPS

Inv == TypeOK /\ Exclusive

\* The pool starts with nothing in two places.
LEMMA PoolInit == ASSUME Idle \notin Tasks PROVE Init => Inv
BY DEF Init, Inv, TypeOK, Exclusive, Busy

\* schedule() keeps every task in one place.
LEMMA PoolSwitch == ASSUME Idle \notin Tasks, Inv, NEW c \in Cpus, Switch(c) PROVE Inv'
<1>1. PICK fate \in {"ready", "asleep", "gone"} :
        /\ asleep' = asleep \cup (IF fate = "asleep" THEN {curr[c]} \cap Tasks ELSE {})
        /\ \E next \in ready \cup (IF fate = "ready" THEN {curr[c]} \cap Tasks ELSE {}) \cup {Idle} :
             /\ curr' = [curr EXCEPT ![c] = next]
             /\ ready' = (ready \cup (IF fate = "ready" THEN {curr[c]} \cap Tasks ELSE {})) \ {next}
  BY Zenon DEF Switch
<1>2. PICK next \in ready \cup (IF fate = "ready" THEN {curr[c]} \cap Tasks ELSE {}) \cup {Idle} :
        /\ asleep' = asleep \cup (IF fate = "asleep" THEN {curr[c]} \cap Tasks ELSE {})
        /\ curr' = [curr EXCEPT ![c] = next]
        /\ ready' = (ready \cup (IF fate = "ready" THEN {curr[c]} \cap Tasks ELSE {})) \ {next}
  BY <1>1
<1>3. created' = created /\ allowed' = allowed BY DEF Switch
<1>4. TypeOK' BY <1>2, <1>3 DEF Inv, TypeOK
<1>5. curr \in [Cpus -> Tasks \cup {Idle}] BY DEF Inv, TypeOK
<1>6. \A d \in Cpus : curr'[d] = IF d = c THEN next ELSE curr[d] BY <1>2, <1>5
<1>7. next \in Tasks => next \in ready \/ next = curr[c] BY <1>2
<1>8. \A d \in Cpus : d # c /\ curr[d] \in Tasks => curr[d] # next
  BY <1>7 DEF Inv, Exclusive, Busy
<1>9. \A a, b \in Cpus : curr'[a] = curr'[b] /\ curr'[a] \in Tasks => a = b
  BY <1>6, <1>8 DEF Inv, Exclusive
<1>10. \A p \in Tasks : p \in Busy' <=> p = next \/ \E d \in Cpus : d # c /\ curr[d] = p
  BY <1>6 DEF Busy
<1>11. \A p \in Tasks : p \in Busy' => p = next \/ (p \in Busy /\ p # curr[c])
  BY <1>10 DEF Busy, Inv, Exclusive
<1>12. curr[c] \in Tasks => curr[c] \in Busy BY DEF Busy
<1>13. \A p \in Tasks : p \in ready' => p # next /\ (p \in ready \/ (p = curr[c] /\ fate = "ready"))
  BY <1>2
<1>14. \A p \in Tasks : p \in asleep' => p \in asleep \/ (p = curr[c] /\ fate = "asleep")
  BY <1>2
<1>15. ready' \subseteq Tasks /\ asleep' \subseteq Tasks /\ created' \subseteq Tasks
  BY <1>4 DEF TypeOK
<1>16. Busy' \cap ready' = {} BY <1>11, <1>13, <1>15 DEF Inv, Exclusive
<1>17. Busy' \cap asleep' = {}
  <2>1. ASSUME fate = "asleep", next \in Tasks PROVE next # curr[c]
    <3>1. next \in ready BY <1>2, <2>1
    <3> QED BY <1>12, <2>1, <3>1 DEF Inv, Exclusive
  <2> QED BY <1>7, <1>11, <1>12, <1>14, <1>15, <2>1 DEF Inv, Exclusive
<1>18. Busy' \cap created' = {} BY <1>3, <1>7, <1>11, <1>12, <1>15 DEF Inv, Exclusive
<1>19. ready' \cap asleep' = {} BY <1>12, <1>13, <1>14, <1>15 DEF Inv, Exclusive
<1>20. ready' \cap created' = {} BY <1>3, <1>12, <1>13, <1>15 DEF Inv, Exclusive
<1>21. asleep' \cap created' = {} BY <1>3, <1>12, <1>14, <1>15 DEF Inv, Exclusive
<1> QED BY <1>4, <1>9, <1>16, <1>17, <1>18, <1>19, <1>20, <1>21 DEF Inv, Exclusive

\* So do wakeups, forks and changes of affinity.
LEMMA PoolTask ==
  ASSUME Inv, NEW p \in Tasks, Wake(p) \/ Create(p) \/ Start(p) \/ Rebind(p)
  PROVE  Inv'
<1>1. CASE Wake(p) BY <1>1 DEF Inv, TypeOK, Exclusive, Busy, Wake
<1>2. CASE Create(p) BY <1>2 DEF Inv, TypeOK, Exclusive, Busy, Create, Free
<1>3. CASE Start(p) BY <1>3 DEF Inv, TypeOK, Exclusive, Busy, Start
<1>4. CASE Rebind(p) BY <1>4 DEF Inv, TypeOK, Exclusive, Busy, Rebind
<1> QED BY <1>1, <1>2, <1>3, <1>4

\* Every step keeps the invariant.
LEMMA PoolNext == ASSUME Idle \notin Tasks PROVE Inv /\ [Next]_vars => Inv'
<1> SUFFICES ASSUME Inv, [Next]_vars PROVE Inv' OBVIOUS
<1>1. CASE UNCHANGED vars BY <1>1 DEF vars, Inv, TypeOK, Exclusive, Busy
<1> QED BY <1>1, PoolSwitch, PoolTask DEF Next

\* A pool run by Switch, Wake, Create, Start and Rebind never has a task on two
\* CPUs, or running and waiting, or waiting in two ways at once: what a scheduler
\* that implements the pool inherits.
THEOREM PoolExclusive == ASSUME Idle \notin Tasks PROVE Spec => []Exclusive
<1>1. Init => Inv BY PoolInit
<1>2. Inv /\ [Next]_vars => Inv' BY PoolNext
<1>3. Inv => Exclusive BY DEF Inv
<1> QED BY <1>1, <1>2, <1>3, PTL DEF Spec
=============================================================================
