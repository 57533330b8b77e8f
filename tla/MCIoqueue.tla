------------------------------ MODULE MCIoqueue ------------------------------
(* Instances of Ioqueue for TLC.                                           *)
EXTENDS Ioqueue, TLC

CONSTANTS o1, o2, p1, p2
Symmetry == Permutations({o1, o2}) \cup Permutations({p1, p2})

ReadCalls  == [client |-> {"register", "unregister", "read", "post"},
               callback |-> {"read", "unregister"}]
WriteCalls == [client |-> {"register", "unregister", "read", "write", "connect"},
               callback |-> {}]
=============================================================================
