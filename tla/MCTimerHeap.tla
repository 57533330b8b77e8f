----------------------------- MODULE MCTimerHeap -----------------------------
(* Instances of TimerHeap for TLC.                                         *)
EXTENDS TimerHeap, TLC

(* Threads differ in nothing but their name.                               *)
Symmetric == Permutations(Threads)

-----------------------------------------------------------------------------
(* The heaps of six entries, numbered by slot from 1: the smallest in      *)
(* which the entry that fills the hole of a removed one may have to move   *)
(* up.  Entry 7 is outside, with the id it is to get; a heap of 8 grows    *)
(* when it is inserted, one of 10 does not.                                *)
Times == 0 .. 3
SixHeap(max_size) ==
  [cur_size |-> 6, max_size |-> max_size, heap |-> [s \in 0 .. 5 |-> s + 1],
   timer_ids |-> [i \in 0 .. max_size - 1 |-> IF i \in 1 .. 6 THEN i - 1 ELSE -(i + 1)],
   timer_ids_freelist |-> 7]
Expiring(times) ==
  [e \in 1 .. 7 |-> [_timer_id |-> e, _timer_value |-> times[e], _grp_lock |-> FALSE]]

Holds(h, E, nodes) ==
  /\ Ordered(h, E) /\ Located(h, E) /\ Chained(h, FreeIds(h))
  /\ h.cur_size = Cardinality(nodes) /\ {h.heap[s] : s \in DOMAIN h.heap} = nodes

(* remove_node and insert_node turn an ordered heap into an ordered heap   *)
(* of the right entries, each where timer_ids says and the other ids       *)
(* chained, also across the old end of an array that grew, for every       *)
(* choice of expiry times and of the entry removed.  (Evaluated once, at   *)
(* the start.)                                                             *)
HeapOpsCorrect ==
  Init => \A max_size \in {8, 10}, times \in [1 .. 7 -> Times] :
    LET six == SixHeap(max_size)
        E == Expiring(times)
    IN  Ordered(six, E) =>
          /\ \A s \in 0 .. 5 : Holds(remove_node(six, E, s), E, (1 .. 6) \ {s + 1})
          /\ \A h \in pop_freelist(six) : Holds(insert_node(h, E, 7), E, 1 .. 7)
=============================================================================
