------------------------------ MODULE TimerHeap ------------------------------
(***************************************************************************)
(* The PJLIB timer heap (timer.c): a binary heap of timer entries ordered  *)
(* by expiry, and an array timer_ids that is at once the index from timer  *)
(* id to heap slot (values >= 0) and the list of free ids (values < 0).    *)
(* Any thread schedules, cancels and polls; poll calls the callbacks with  *)
(* the heap unlocked, and a callback may schedule and cancel in turn.      *)
(*                                                                         *)
(* ht is struct pj_timer_heap_t, entry[e] the private fields of timer      *)
(* entry e, refs the count of the group lock the entries are scheduled     *)
(* with.  Times are relative to the present: Tick ages them all.           *)
(***************************************************************************)
EXTENDS Integers, Sequences, FiniteSets

CONSTANTS Entries,        \* timer entries
          Grouped,        \* the entries scheduled with a group lock
          Threads, NoEntry,
          Size,           \* the size given to pj_timer_heap_create
          Delays,         \* delays clients ask for
          MaxPerPoll,     \* max_entries_per_poll
          MaxLate,        \* bound: no clock tick when a time is this old
          Serialised,     \* do clients lock around the calls for an entry?
          Beyond          \* what may be read just past the end of timer_ids

ASSUME TimerHeapAssumption ==
  /\ IsFiniteSet(Entries) /\ IsFiniteSet(Threads)
  /\ Grouped \subseteq Entries /\ NoEntry \notin Entries
  /\ Size \in Nat /\ Delays \subseteq Nat
  /\ MaxPerPoll \in Nat \ {0} /\ MaxLate \in Nat
  /\ Serialised \in BOOLEAN /\ Beyond \subseteq Int /\ Beyond # {}

VARIABLES ht, entry, refs, thr
vars == <<ht, entry, refs, thr>>

HEAP_PARENT(x) == IF x = 0 THEN 0 ELSE (x - 1) \div 2
HEAP_LEFT(x) == x + x + 1

FreshIds(from, to) == [i \in from .. to |-> -(i + 1)]

(* pj_timer_heap_create.  heap is kept as long as the heap is.             *)
pj_timer_heap_create(size) ==
  [cur_size |-> 0, max_size |-> size + 2, heap |-> [s \in 0 .. -1 |-> NoEntry],
   timer_ids |-> FreshIds(0, size + 1), timer_ids_freelist |-> 1]

(* What pj_timer_entry_init leaves, and a thread outside every call.       *)
IdleThread == [pc |-> "idle", node |-> NoEntry, id |-> 0, grp |-> FALSE, now |-> 0,
               count |-> 0, sched |-> NoEntry, expires |-> 0]

Init == /\ ht = pj_timer_heap_create(Size)
        /\ entry = [e \in Entries |-> [_timer_id |-> -1, _timer_value |-> 0, _grp_lock |-> FALSE]]
        /\ refs = 0
        /\ thr = [t \in Threads |-> IdleThread]

-----------------------------------------------------------------------------
(* The free list.  An empty list ends at max_size: a pop then reads past   *)
(* the end of the array.                                                   *)
pop_freelist(h) ==
  {[h EXCEPT !.timer_ids_freelist = -v] :
     v \in IF h.timer_ids_freelist \in DOMAIN h.timer_ids
           THEN {h.timer_ids[h.timer_ids_freelist]} ELSE Beyond}

push_freelist(h, id) ==
  [h EXCEPT !.timer_ids[id] = -h.timer_ids_freelist, !.timer_ids_freelist = id]

LT(E, e, f)  == E[e]._timer_value < E[f]._timer_value
GTE(E, e, f) == ~LT(E, e, f)

(* Heap contents after the node wanders up, or down, from the slot.        *)
reheap_up(heap, E, moved_node, slot) ==
  LET up[s \in 0 .. slot] ==
        IF s > 0 /\ LT(E, moved_node, heap[HEAP_PARENT(s)])
        THEN [up[HEAP_PARENT(s)] EXCEPT ![s] = heap[HEAP_PARENT(s)]]
        ELSE [heap EXCEPT ![s] = moved_node]
  IN  up[slot]

reheap_down(heap, E, moved_node, slot) ==
  LET SmallerChild(s) ==
        LET c == HEAP_LEFT(s)
        IN  IF c + 1 \in DOMAIN heap /\ LT(E, heap[c + 1], heap[c]) THEN c + 1 ELSE c
      down[s \in DOMAIN heap] ==
        IF HEAP_LEFT(s) \in DOMAIN heap /\ LT(E, heap[SmallerChild(s)], moved_node)
        THEN [down[SmallerChild(s)] EXCEPT ![s] = heap[SmallerChild(s)]]
        ELSE [heap EXCEPT ![s] = moved_node]
  IN  down[slot]

(* copy_node for the node inserted or moved and for those it displaced.    *)
Copied(h, E, heap, node) ==
  LET slots == {s \in DOMAIN heap :
                  s \notin DOMAIN h.heap \/ h.heap[s] # heap[s] \/ heap[s] = node}
  IN  [h EXCEPT !.heap = heap, !.cur_size = Cardinality(DOMAIN heap),
                !.timer_ids = [i \in DOMAIN @ |->
                   IF \E s \in slots : E[heap[s]]._timer_id = i
                   THEN CHOOSE s \in slots : E[heap[s]]._timer_id = i ELSE @[i]]]

(* Fault: the node that fills the hole is only ever moved down.            *)
FilledDown(heap, E, moved_node, slot) == reheap_down(heap, E, moved_node, slot)
Filled(heap, E, moved_node, slot) ==
  IF GTE(E, moved_node, heap[HEAP_PARENT(slot)])
  THEN reheap_down(heap, E, moved_node, slot)
  ELSE reheap_up(heap, E, moved_node, slot)

(* remove_node; its caller sets the entry's _timer_id to -1.               *)
remove_node(h, E, slot) ==
  LET h1 == push_freelist(h, E[h.heap[slot]]._timer_id)
      last == h.cur_size - 1
      moved_node == h.heap[last]
      rest == [s \in 0 .. last - 1 |-> IF s = slot THEN moved_node ELSE h.heap[s]]
  IN  IF slot < last
      THEN Copied(h1, E, Filled(rest, E, moved_node, slot), moved_node)
      ELSE [h1 EXCEPT !.heap = rest, !.cur_size = last]

grow_heap(h) ==
  [h EXCEPT !.max_size = 2 * @,
            !.timer_ids = [i \in 0 .. 2 * h.max_size - 1 |->
                             IF i \in DOMAIN @ THEN @[i] ELSE -(i + 1)]]

insert_node(h, E, node) ==
  LET h1 == IF h.cur_size + 2 >= h.max_size THEN grow_heap(h) ELSE h
      longer == [s \in 0 .. h.cur_size |-> IF s < h.cur_size THEN h.heap[s] ELSE node]
  IN  Copied(h1, E, reheap_up(longer, E, node, h.cur_size), node)

-----------------------------------------------------------------------------
MayCall(t, e) ==
  /\ thr[t].pc \in {"idle", "callback"} /\ thr[t].sched = NoEntry
  /\ Serialised => \A u \in Threads : thr[u].sched # e

(* schedule_w_grp_lock up to the lock: the test of _timer_id and the clock *)
(* are read unlocked.  An entry found running is refused.                  *)
Schedule(t, e, delay) ==
  /\ MayCall(t, e)
  /\ entry[e]._timer_id < 1
  /\ thr' = [thr EXCEPT ![t].sched = e, ![t].expires = delay]
  /\ UNCHANGED <<ht, entry, refs>>

(* The rest of it, under the heap's lock, with schedule_entry.             *)
Entered(t, h) ==
  LET e == thr[t].sched
      scheduled == [_timer_id |-> ht.timer_ids_freelist,
                    _timer_value |-> thr[t].expires, _grp_lock |-> e \in Grouped]
  IN  /\ entry' = [entry EXCEPT ![e] = scheduled]
      /\ ht' = insert_node(h, entry', e)
      /\ refs' = IF e \in Grouped THEN refs + 1 ELSE refs

Insert(t) ==
  /\ thr[t].sched # NoEntry
  /\ IF ht.cur_size < ht.max_size
     THEN \E h \in pop_freelist(ht) : Entered(t, h)
     ELSE UNCHANGED <<ht, entry, refs>>
  /\ thr' = [thr EXCEPT ![t].sched = NoEntry, ![t].expires = 0]

(* cancel_timer.  The reference of the entry is given back even when the   *)
(* timer is not in the heap.  (Fault: it is not.)                          *)
InHeap(e) ==
  LET id == entry[e]._timer_id
  IN  /\ 0 <= id /\ id <= ht.max_size
      /\ ht.timer_ids[id] >= 0
      /\ e = ht.heap[ht.timer_ids[id]]

RefsKept(e) == refs
RefsAfterCancel(e) == IF entry[e]._grp_lock THEN refs - 1 ELSE refs

Cancel(t, e) ==
  /\ MayCall(t, e)
  /\ ht' = IF InHeap(e) THEN remove_node(ht, entry, ht.timer_ids[entry[e]._timer_id]) ELSE ht
  /\ entry' = [entry EXCEPT ![e]._timer_id = -1, ![e]._grp_lock = FALSE]
  /\ refs' = RefsAfterCancel(e)
  /\ UNCHANGED thr

-----------------------------------------------------------------------------
(* pj_timer_heap_poll: take the root and keep its id out of the free list  *)
(* while the callback runs.  (Faults: the id is free at once; the times    *)
(* are compared the wrong way round.)                                      *)
NotYetFree(h) == {h}
StillHeld(h) == pop_freelist(h)

IsDueSwapped(h, now) == h.cur_size > 0 /\ now <= entry[h.heap[0]]._timer_value
IsDue(h, now) == h.cur_size > 0 /\ entry[h.heap[0]]._timer_value <= now

Take(t, h, now, count) ==
  LET node == h.heap[0]
      removed == remove_node(h, entry, 0)
  IN  /\ ht' \in StillHeld(removed)
      /\ entry' = [entry EXCEPT ![node]._timer_id = -1, ![node]._grp_lock = FALSE]
      /\ thr' = [thr EXCEPT ![t] = [IdleThread EXCEPT
                   !.pc = "callback", !.node = node, !.id = removed.timer_ids_freelist,
                   !.grp = entry[node]._grp_lock, !.now = now, !.count = count]]
      /\ UNCHANGED refs

PollStart(t) ==
  /\ thr[t].pc = "idle" /\ thr[t].sched = NoEntry
  /\ IsDue(ht, 0)
  /\ Take(t, ht, 0, 1)

(* The callback returns; the poll drops the reference it took over.        *)
CallbackReturns(t) ==
  /\ thr[t].pc = "callback" /\ thr[t].sched = NoEntry
  /\ refs' = IF thr[t].grp THEN refs - 1 ELSE refs
  /\ thr' = [thr EXCEPT ![t].pc = "relock", ![t].node = NoEntry, ![t].grp = FALSE]
  /\ UNCHANGED <<ht, entry>>

(* The id is freed and the loop goes on, or poll returns.                  *)
PollNext(t) ==
  LET h == push_freelist(ht, thr[t].id)
  IN  /\ thr[t].pc = "relock"
      /\ IF IsDue(h, thr[t].now) /\ thr[t].count < MaxPerPoll
         THEN Take(t, h, thr[t].now, thr[t].count + 1)
         ELSE /\ ht' = h
              /\ thr' = [thr EXCEPT ![t] = IdleThread]
              /\ UNCHANGED <<entry, refs>>

(* One unit of time passes.  Only times somebody will still read count.    *)
Armed == {ht.heap[s] : s \in DOMAIN ht.heap}
Polling(t) == thr[t].pc # "idle"
Older(v) == v - 1

Tick ==
  /\ \E e \in Armed : TRUE
  /\ \A e \in Armed : entry[e]._timer_value > -MaxLate
  /\ \A t \in Threads : /\ Polling(t) => thr[t].now > -MaxLate
                        /\ thr[t].sched # NoEntry => thr[t].expires > -MaxLate
  /\ entry' = [e \in Entries |-> IF e \in Armed THEN [entry[e] EXCEPT !._timer_value = Older(@)]
                                 ELSE entry[e]]
  /\ thr' = [t \in Threads |-> [thr[t] EXCEPT
               !.now = IF Polling(t) THEN Older(@) ELSE @,
               !.expires = IF thr[t].sched # NoEntry THEN Older(@) ELSE @]]
  /\ UNCHANGED <<ht, refs>>

Client(t) == \E e \in Entries : Cancel(t, e) \/ \E d \in Delays : Schedule(t, e, d)
Internal(t) == Insert(t) \/ PollStart(t) \/ CallbackReturns(t) \/ PollNext(t)

Next == Tick \/ \E t \in Threads : Client(t) \/ Internal(t)

Spec == Init /\ [][Next]_vars

(* Time passes, every thread keeps coming back to poll, a callback does    *)
(* finitely much before it returns, and a call under the lock completes.   *)
FairSpec ==
  /\ Spec /\ SF_vars(Tick)
  /\ \A t \in Threads : /\ SF_vars(PollStart(t)) /\ SF_vars(CallbackReturns(t))
                        /\ WF_vars(Insert(t)) /\ WF_vars(PollNext(t))

-----------------------------------------------------------------------------
TypeOK ==
  /\ ht \in [cur_size : Nat, max_size : Nat, heap : [0 .. ht.cur_size - 1 -> Entries],
             timer_ids : [0 .. ht.max_size - 1 -> Int], timer_ids_freelist : Int]
  /\ entry \in [Entries -> [_timer_id : Int, _timer_value : Int, _grp_lock : BOOLEAN]]
  /\ refs \in Nat
  /\ thr \in [Threads -> [pc : {"idle", "callback", "relock"}, id : Nat,
                          node : Entries \cup {NoEntry}, grp : BOOLEAN, now : Int,
                          count : 0 .. MaxPerPoll, sched : Entries \cup {NoEntry},
                          expires : Int]]

(* No entry expires before its parent, and timer_ids locates every entry   *)
(* of the heap.                                                            *)
Ordered(h, E) ==
  \A s \in DOMAIN h.heap : GTE(E, h.heap[s], h.heap[HEAP_PARENT(s)])
Located(h, E) ==
  \A s \in DOMAIN h.heap : h.timer_ids[E[h.heap[s]]._timer_id] = s

(* timer_ids is the inverse of the heap, and _timer_id tells which entries *)
(* are in it: what cancel and the running test rely on.                    *)
IdsInverse ==
  /\ Located(ht, entry)
  /\ \A e \in Entries : entry[e]._timer_id >= 1 <=> e \in Armed

(* The free list runs once through every id that is neither in the heap    *)
(* nor held by a poll whose callback is not done ("avoid re-use of this    *)
(* timer until the callback is done"), and ends at max_size.               *)
Held == {thr[t].id : t \in {u \in Threads : Polling(u)}}
FreeIds(h) == {i \in 1 .. h.max_size - 1 : h.timer_ids[i] < 0}
Chained(h, ids) ==
  LET chain[n \in Nat] == IF n = 0 THEN h.timer_ids_freelist ELSE -h.timer_ids[chain[n - 1]]
  IN  /\ h.timer_ids_freelist \in ids \cup {h.max_size}
      /\ \A i \in ids : -h.timer_ids[i] \in ids \cup {h.max_size}
      /\ {chain[n] : n \in 0 .. Cardinality(ids)} = ids \cup {h.max_size}

FreeListSound ==
  /\ \A t, u \in Threads : Polling(t) /\ thr[t].id = thr[u].id => t = u
  /\ Chained(ht, FreeIds(ht) \ Held)

(* The two roles of timer_ids together, index and free list, while ids are *)
(* held back by callbacks and the array grows.                             *)
IdsSound == TypeOK /\ IdsInverse /\ FreeListSound

(* The group lock has one reference for each entry that is in the heap     *)
(* with it and one for each callback under way, so that the objects of a   *)
(* session outlive its timers and do not leak through them.                *)
GroupRefsExact ==
  /\ \A e \in Entries : entry[e]._grp_lock => e \in Armed
  /\ refs = Cardinality({e \in Entries : entry[e]._grp_lock})
            + Cardinality({t \in Threads : thr[t].grp})

(* Every timer is eventually cancelled or taken by a poll, although polls  *)
(* take at most MaxPerPoll entries and callbacks schedule more.            *)
NoTimerForgotten == \A e \in Entries : e \in Armed ~> e \notin Armed

-----------------------------------------------------------------------------
(* The heap arms, cancels and calls back as a set of timers would.         *)
Due == [e \in Armed |-> entry[e]._timer_value]
Running == [t \in Threads |-> thr[t].node]
Queue == INSTANCE TimerQueue WITH
  Timers <- Entries, NoTimer <- NoEntry, due <- Due, running <- Running
ImplementsQueue == Queue!Spec
=============================================================================
