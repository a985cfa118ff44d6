-------------------------------- MODULE MCHrm --------------------------------
(***************************************************************************)
(* Instances of HrmGroup for TLC.                                          *)
(***************************************************************************)
EXTENDS HrmGroup, TLC

CONSTANTS t1, t2

\* All are threads of one process, which then share its mappings.
MCTgid == [t \in Tasks |-> 1]
=============================================================================
