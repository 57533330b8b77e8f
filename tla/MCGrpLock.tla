------------------------------ MODULE MCGrpLock ------------------------------
(* Instances of GrpLock for TLC.                                           *)
EXTENDS GrpLock

CONSTANT x        \* the external lock
AfterGroup == [l \in {x} |-> 1]
=============================================================================
