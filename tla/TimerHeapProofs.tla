---------------------------- MODULE TimerHeapProofs -------------------------
(***************************************************************************)
(* Proofs about TimerHeap.  The invariant is IInv: the heap is sound       *)
(* between calls (ordered, and timer_ids its exact inverse), its free list *)
(* runs once through the ids that are neither in use nor held, an entry    *)
(* outside it is at rest, and the references are counted.  What reheap_up  *)
(* and reheap_down compute is proved by induction over the slots, for sets *)
(* of slots: each is a way along which a hole moves, so that the entries   *)
(* are permuted, and in order again when the node has found its place.     *)
(* The free list is followed as a sequence of distinct ids.                *)
(***************************************************************************)
EXTENDS TimerHeap, FiniteSetTheorems, WellFoundedInduction, TLAPS

(* Induction over the natural numbers, for a set: a set that has every     *)
(* number whose predecessors it has, has all.                              *)
LEMMA Induction ==
  ASSUME NEW T, \A n \in Nat : (\A m \in 0 .. n - 1 : m \in T) => n \in T
  PROVE  \A n \in Nat : n \in T
<1> SUFFICES ASSUME NEW n \in Nat, n \notin T PROVE FALSE
  OBVIOUS
<1> DEFINE U == Nat \ T
<1>1. U \subseteq Nat /\ U # {}
  OBVIOUS
<1> HIDE DEF U
<1>2. PICK k \in U : \A j \in U : ~(<<j, k>> \in OpToRel(<, Nat))
  BY <1>1, NatLessThanWellFounded, WFMin
<1>3. \A j \in U : ~(j < k)
  BY <1>1, <1>2 DEF OpToRel
<1>4. \A m \in 0 .. k - 1 : m \in T
  BY <1>1, <1>3 DEF U
<1> QED
  BY <1>1, <1>4 DEF U

-----------------------------------------------------------------------------
(* The tree: a parent stands before its children.                          *)
LEMMA ParentIs ==
  ASSUME NEW s \in Nat
  PROVE  /\ HEAP_PARENT(s) \in Nat /\ (s > 0 => HEAP_PARENT(s) < s)
         /\ \A r \in Nat \ {0} : HEAP_PARENT(r) = s <=> r = HEAP_LEFT(s) \/ r = HEAP_LEFT(s) + 1
  BY DEF HEAP_PARENT, HEAP_LEFT

(* reheap_up has a value: that of f at the slot.                           *)
Up(f, heap, E, moved_node, n) ==
  f = [s \in 0 .. n |->
        IF s > 0 /\ LT(E, moved_node, heap[HEAP_PARENT(s)])
        THEN [f[HEAP_PARENT(s)] EXCEPT ![s] = heap[HEAP_PARENT(s)]]
        ELSE [heap EXCEPT ![s] = moved_node]]

(* reheap_up is a way up from the slot.                                    *)
LEMMA UpIs ==
  ASSUME NEW heap, NEW E, NEW node, NEW slot \in Nat
  PROVE  \E f : Up(f, heap, E, node, slot) /\ reheap_up(heap, E, node, slot) = f[slot]
<1> DEFINE T == {n \in Nat : \E f : Up(f, heap, E, node, n)}
<1>1. ASSUME NEW n \in Nat, \A m \in 0 .. n - 1 : m \in T
      PROVE  n \in T
  <2>1. PICK f : n > 0 => Up(f, heap, E, node, n - 1)
    BY <1>1
  <2> DEFINE g == [s \in 0 .. n |->
        IF s > 0 /\ LT(E, node, heap[HEAP_PARENT(s)])
        THEN [f[HEAP_PARENT(s)] EXCEPT ![s] = heap[HEAP_PARENT(s)]]
        ELSE [heap EXCEPT ![s] = node]]
  <2>2. \A s \in 0 .. n : s < n => g[s] = f[s]
    BY <2>1 DEF Up
  <2>3. ASSUME NEW s \in 0 .. n, s > 0
        PROVE  g[HEAP_PARENT(s)] = f[HEAP_PARENT(s)]
    <3> HIDE DEF g
    <3>1. HEAP_PARENT(s) \in 0 .. n /\ HEAP_PARENT(s) < n
      BY <2>3, ParentIs
    <3> QED
      BY <2>2, <3>1
  <2>4. Up(g, heap, E, node, n)
    BY <2>3 DEF Up
  <2> QED
    BY <2>4
<1>2. slot \in T
  BY <1>1, Induction
<1> QED
  BY <1>2 DEF reheap_up, Up

(* reheap_down likewise: the slots it comes to are ever higher.            *)
SmallerChild(heap, E, s) ==
  LET c == HEAP_LEFT(s)
  IN  IF c + 1 \in DOMAIN heap /\ LT(E, heap[c + 1], heap[c]) THEN c + 1 ELSE c

Down(f, heap, E, moved_node, slots) ==
  f = [s \in slots |->
        IF HEAP_LEFT(s) \in DOMAIN heap /\ LT(E, heap[SmallerChild(heap, E, s)], moved_node)
        THEN [f[SmallerChild(heap, E, s)] EXCEPT ![s] = heap[SmallerChild(heap, E, s)]]
        ELSE [heap EXCEPT ![s] = moved_node]]

(* The smaller child is a slot of the heap, further down.                  *)
LEMMA ChildIs ==
  ASSUME NEW heap, NEW E, NEW n \in Nat, DOMAIN heap = 0 .. n - 1,
         NEW s \in DOMAIN heap, HEAP_LEFT(s) \in DOMAIN heap
  PROVE  /\ SmallerChild(heap, E, s) \in DOMAIN heap
         /\ s < SmallerChild(heap, E, s)
         /\ HEAP_PARENT(SmallerChild(heap, E, s)) = s
<1>1. s \in Nat /\ HEAP_LEFT(s) \in Nat
  BY DEF HEAP_LEFT
<1>2. /\ SmallerChild(heap, E, s) \in {HEAP_LEFT(s), HEAP_LEFT(s) + 1}
      /\ SmallerChild(heap, E, s) \in DOMAIN heap
  BY DEF SmallerChild
<1>3. s < SmallerChild(heap, E, s) /\ SmallerChild(heap, E, s) \in Nat \ {0}
  BY <1>1, <1>2 DEF HEAP_LEFT
<1> QED
  BY <1>1, <1>2, <1>3, ParentIs

(* reheap_down is a way down from the slot.                                *)
LEMMA DownIs ==
  ASSUME NEW heap, NEW E, NEW node, NEW n \in Nat, DOMAIN heap = 0 .. n - 1,
         NEW slot \in DOMAIN heap
  PROVE  \E f : Down(f, heap, E, node, DOMAIN heap) /\ reheap_down(heap, E, node, slot) = f[slot]
<1> DEFINE T == {i \in Nat : i <= n => \E f : Down(f, heap, E, node, n - i .. n - 1)}
<1>1. ASSUME NEW i \in Nat, \A m \in 0 .. i - 1 : m \in T
      PROVE  i \in T
  <2> SUFFICES ASSUME i <= n PROVE \E f : Down(f, heap, E, node, n - i .. n - 1)
    OBVIOUS
  <2>1. PICK f : i > 0 => Down(f, heap, E, node, n - (i - 1) .. n - 1)
    <3>1. CASE i = 0
      BY <3>1
    <3>2. CASE i > 0
      <4>1. i - 1 \in T /\ i - 1 <= n
        <5> HIDE DEF T
        <5> QED
          BY <1>1, <3>2
      <4> QED
        BY <4>1
    <3> QED
      BY <3>1, <3>2
  <2> DEFINE g == [s \in n - i .. n - 1 |->
        IF HEAP_LEFT(s) \in DOMAIN heap /\ LT(E, heap[SmallerChild(heap, E, s)], node)
        THEN [f[SmallerChild(heap, E, s)] EXCEPT ![s] = heap[SmallerChild(heap, E, s)]]
        ELSE [heap EXCEPT ![s] = node]]
  <2>2. \A s \in n - i .. n - 1 : s # n - i => g[s] = f[s]
    <3>1. ASSUME NEW s \in n - i .. n - 1, s # n - i
          PROVE  s \in n - (i - 1) .. n - 1 /\ i > 0
      BY <3>1
    <3> QED
      BY <2>1, <3>1 DEF Down
  <2>3. ASSUME NEW s \in n - i .. n - 1, HEAP_LEFT(s) \in DOMAIN heap
        PROVE  g[SmallerChild(heap, E, s)] = f[SmallerChild(heap, E, s)]
    <3> HIDE DEF g
    <3>1. /\ SmallerChild(heap, E, s) \in n - i .. n - 1
          /\ SmallerChild(heap, E, s) # n - i
      BY <2>3, ChildIs
    <3> QED
      BY <2>2, <3>1
  <2>4. Down(g, heap, E, node, n - i .. n - 1)
    BY <2>3 DEF Down
  <2> QED
    BY <2>4
<1>2. n \in T
  BY <1>1, Induction
<1>3. PICK f : Down(f, heap, E, node, 0 .. n - 1)
  BY <1>2
<1>4. \E g : Down(g, heap, E, node, DOMAIN heap)
  BY <1>3
<1> QED
  BY <1>4 DEF reheap_down, Down, SmallerChild

(* A permutation of a set, and a heap rearranged by one after the entry in *)
(* a slot was replaced by the node.                                        *)
Permutes(p, D) ==
  /\ p \in [D -> D]
  /\ \A i, j \in D : p[i] = p[j] => i = j
  /\ \A j \in D : \E i \in D : p[i] = j
Rearranged(U, p, heap, node, slot) ==
  /\ Permutes(p, DOMAIN heap)
  /\ U = [i \in DOMAIN heap |-> IF p[i] = slot THEN node ELSE heap[p[i]]]

(* Nothing else moved yet.                                                 *)
LEMMA Placed ==
  ASSUME NEW D, NEW heap \in [D -> Entries], NEW node \in Entries, NEW slot \in D
  PROVE  \E p : /\ Rearranged([heap EXCEPT ![slot] = node], p, heap, node, slot)
                /\ p = [i \in D |-> i]
<1> DEFINE p == [i \in D |-> i]
<1>1. Permutes(p, D)
  BY DEF Permutes
<1>2. [heap EXCEPT ![slot] = node] = [i \in D |-> IF p[i] = slot THEN node ELSE heap[p[i]]]
  OBVIOUS
<1> QED
  BY <1>1, <1>2 DEF Rearranged

(* The hole moves from one slot to another, whose entry fills it.          *)
LEMMA HoleMoves ==
  ASSUME NEW D, NEW heap \in [D -> Entries], NEW node \in Entries,
         NEW to \in D, NEW from \in D, from # to, NEW V, NEW p,
         Rearranged(V, p, heap, node, to), p[from] = from
  PROVE  \E q : /\ Rearranged([V EXCEPT ![from] = heap[to]], q, heap, node, from)
                /\ \A i \in D : i # from /\ p[i] # to => q[i] = p[i]
<1>1. Permutes(p, D) /\ V = [i \in D |-> IF p[i] = to THEN node ELSE heap[p[i]]]
  BY DEF Rearranged
<1>2. PICK a \in D : p[a] = to
  BY <1>1 DEF Permutes
<1> DEFINE q == [i \in D |-> IF i = a THEN from ELSE IF i = from THEN to ELSE p[i]]
<1>3. a # from
  BY <1>2
<1>4. Permutes(q, D)
  <2>1. q \in [D -> D]
    BY <1>1 DEF Permutes
  <2>2. ASSUME NEW i \in D, NEW j \in D, q[i] = q[j]
        PROVE  i = j
    BY <1>1, <1>2, <1>3, <2>2 DEF Permutes
  <2>3. ASSUME NEW j \in D
        PROVE  \E i \in D : q[i] = j
    <3>1. PICK i \in D : p[i] = j
      BY <1>1 DEF Permutes
    <3>2. CASE j = from
      BY <3>2
    <3>3. CASE j = to
      BY <1>3, <3>3
    <3>4. CASE j # from /\ j # to
      BY <1>2, <3>1, <3>4
    <3> QED
      BY <3>2, <3>3, <3>4
  <2> QED
    BY <2>1, <2>2, <2>3 DEF Permutes
<1>5. [V EXCEPT ![from] = heap[to]] = [i \in D |-> IF q[i] = from THEN node ELSE heap[q[i]]]
  <2>1. ASSUME NEW i \in D
        PROVE  [V EXCEPT ![from] = heap[to]][i] = IF q[i] = from THEN node ELSE heap[q[i]]
    <3>1. CASE i = a
      BY <1>1, <1>2, <1>3, <3>1
    <3>2. CASE i = from
      BY <1>1, <1>3, <3>2
    <3>3. CASE i # a /\ i # from
      <4>1. p[i] # to /\ p[i] # from
        BY <1>1, <1>2, <3>3 DEF Permutes
      <4> QED
        BY <1>1, <3>3, <4>1
    <3> QED
      BY <3>1, <3>2, <3>3
  <2> QED
    BY <1>1, <2>1
<1>6. DOMAIN heap = D
  OBVIOUS
<1>7. \A i \in D : i # from /\ p[i] # to => q[i] = p[i]
  BY <1>2
<1> HIDE DEF q
<1>8. Rearranged([V EXCEPT ![from] = heap[to]], q, heap, node, from)
  BY <1>4, <1>5, <1>6 DEF Rearranged
<1> QED
  BY <1>7, <1>8

(* A hole at a slot that can move to another, and what there is once it    *)
(* has moved.                                                              *)
Hole(V, p, D, heap, node, to, from) ==
  /\ heap \in [D -> Entries] /\ node \in Entries
  /\ to \in D /\ from \in D /\ from # to
  /\ Rearranged(V, p, heap, node, to) /\ p[from] = from

HoleAt(V, q, p, D, heap, node, to, from) ==
  /\ Rearranged([V EXCEPT ![from] = heap[to]], q, heap, node, from)
  /\ \A i \in D : i # from /\ p[i] # to => q[i] = p[i]

(* The same step of the hole, for use by name.                             *)
LEMMA HoleMoved ==
  ASSUME NEW V, NEW p, NEW D, NEW heap, NEW node, NEW to, NEW from,
         Hole(V, p, D, heap, node, to, from)
  PROVE  \E q : HoleAt(V, q, p, D, heap, node, to, from)
<1>1. heap \in [D -> Entries] /\ node \in Entries /\ to \in D /\ from \in D /\ from # to
  BY DEF Hole
<1>2. Rearranged(V, p, heap, node, to) /\ p[from] = from
  BY DEF Hole
<1> QED
  BY <1>1, <1>2, HoleMoves DEF HoleAt

(* How reheap_up rearranges the heap: the entries on the way from the slot *)
(* to the place of the node go down by one level, and all of them expire   *)
(* after it.                                                               *)
Climbed(U, way, place, heap, E, node, slot) ==
  /\ way \subseteq 0 .. slot /\ slot \in way /\ place \in way
  /\ U[place] = node
  /\ place > 0 => GTE(E, node, heap[HEAP_PARENT(place)])
  /\ \A r \in way \ {place} :
       /\ r > place /\ HEAP_PARENT(r) \in way
       /\ U[r] = heap[HEAP_PARENT(r)] /\ LT(E, node, heap[HEAP_PARENT(r)])
  /\ \A r \in way \ {slot} : \E c \in way \ {place} : HEAP_PARENT(c) = r
  /\ \A r \in DOMAIN heap \ way : U[r] = heap[r]

(* The node that wanders up from a slot ends in a place on its way, the    *)
(* entries it passes each a slot further down.                             *)
LEMMA Climbs ==
  ASSUME NEW n \in Nat, NEW heap \in [0 .. n - 1 -> Entries], NEW E,
         NEW node \in Entries,
         NEW slot \in 0 .. n - 1
  PROVE  \E p, way, place :
           LET U == reheap_up(heap, E, node, slot)
           IN  /\ Rearranged(U, p, heap, node, slot)
               /\ Climbed(U, way, place, heap, E, node, slot)
<1>1. PICK D : D = 0 .. n - 1
  OBVIOUS
<1>2. PICK f : Up(f, heap, E, node, slot) /\ reheap_up(heap, E, node, slot) = f[slot]
  <2>1. slot \in Nat
    OBVIOUS
  <2> QED
    BY <2>1, UpIs
<1>3. heap \in [D -> Entries] /\ DOMAIN heap = D
  BY <1>1
<1> DEFINE Good(s) == \E p, way, place : /\ Rearranged(f[s], p, heap, node, s)
                                         /\ \A i \in D : i > s => p[i] = i
                                         /\ Climbed(f[s], way, place, heap, E, node, s)
           T == {s \in Nat : s <= slot => Good(s)}
<1>4. ASSUME NEW s \in Nat, \A m \in 0 .. s - 1 : m \in T
      PROVE  s \in T
  <2> SUFFICES ASSUME s <= slot PROVE Good(s)
    OBVIOUS
  <2>1. s \in 0 .. slot /\ s \in D
    BY <1>1
  <2>2. CASE s > 0 /\ LT(E, node, heap[HEAP_PARENT(s)])
    <3>1. PICK h : h = HEAP_PARENT(s)
      OBVIOUS
    <3>2. h \in 0 .. s - 1 /\ h \in D /\ h # s
      BY <1>1, <2>1, <2>2, <3>1, ParentIs
    <3>3. Good(h)
      <4> HIDE DEF Good
      <4> QED
        BY <1>4, <2>1, <3>2
    <3>4. PICK p, way, place : /\ Rearranged(f[h], p, heap, node, h)
                               /\ \A i \in D : i > h => p[i] = i
                               /\ Climbed(f[h], way, place, heap, E, node, h)
      BY <3>3
    <3>5. f[s] = [f[h] EXCEPT ![s] = heap[h]]
      BY <1>2, <2>1, <2>2, <3>1 DEF Up
    <3>6. p[s] = s
      BY <2>1, <3>2, <3>4
    <3>7. PICK q : /\ Rearranged(f[s], q, heap, node, s)
                   /\ \A i \in D : i # s /\ p[i] # h => q[i] = p[i]
      <4>1. \E q : /\ Rearranged([f[h] EXCEPT ![s] = heap[h]], q, heap, node, s)
                   /\ \A i \in D : i # s /\ p[i] # h => q[i] = p[i]
        <5>1. PICK V : V = f[h] /\ Rearranged(V, p, heap, node, h)
          BY <3>4
        <5>2. \E q : /\ Rearranged([V EXCEPT ![s] = heap[h]], q, heap, node, s)
                     /\ \A i \in D : i # s /\ p[i] # h => q[i] = p[i]
          <6>1. Hole(V, p, D, heap, node, h, s)
            BY <1>3, <2>1, <3>2, <3>6, <5>1 DEF Hole
          <6>2. PICK q : HoleAt(V, q, p, D, heap, node, h, s)
            BY <6>1, HoleMoved
          <6> QED
            BY <6>2 DEF HoleAt
        <5> QED
          BY <5>1, <5>2
      <4> QED
        BY <3>5, <4>1
    <3>8. \A i \in D : i > s => q[i] = i
      BY <1>1, <2>1, <3>2, <3>4, <3>7
    <3>9. DOMAIN f[h] = D /\ f[s][s] = heap[h] /\ \A r \in D : r # s => f[s][r] = f[h][r]
      BY <1>3, <2>1, <3>4, <3>5 DEF Rearranged
    <3>10. Climbed(f[s], way \cup {s}, place, heap, E, node, s)
      <4>1. way \cup {s} \subseteq 0 .. s /\ place \in 0 .. h /\ place \in way /\ s \notin way
        <5>1. way \subseteq 0 .. h /\ place \in way
          BY <3>4 DEF Climbed
        <5> QED
          BY <2>1, <3>2, <5>1
      <4>2. f[s][place] = node
        BY <1>1, <2>1, <3>2, <3>4, <3>9, <4>1 DEF Climbed
      <4>3. ASSUME NEW r \in (way \cup {s}) \ {place}
            PROVE  /\ r > place /\ HEAP_PARENT(r) \in way
                   /\ f[s][r] = heap[HEAP_PARENT(r)] /\ LT(E, node, heap[HEAP_PARENT(r)])
        <5>1. CASE r = s
          BY <2>2, <3>1, <3>2, <3>4, <3>9, <4>1, <5>1 DEF Climbed
        <5>2. CASE r \in way
          <6>1. r # s /\ r \in D /\ r # place
            BY <1>1, <2>1, <3>2, <3>4, <4>1, <4>3, <5>2 DEF Climbed
          <6> QED
            BY <3>4, <3>9, <5>2, <6>1 DEF Climbed
        <5> QED
          BY <5>1, <5>2
      <4>4. \A r \in (way \cup {s}) \ {s} : \E c \in (way \cup {s}) \ {place} : HEAP_PARENT(c) = r
        BY <3>1, <3>2, <3>4, <4>1 DEF Climbed
      <4>5. \A r \in D \ (way \cup {s}) : f[s][r] = heap[r]
        BY <1>3, <3>4, <3>9 DEF Climbed
      <4>6. place > 0 => GTE(E, node, heap[HEAP_PARENT(place)])
        BY <3>4 DEF Climbed
      <4> QED
        BY <1>3, <4>1, <4>2, <4>3, <4>4, <4>5, <4>6 DEF Climbed
    <3> QED
      BY <3>7, <3>8, <3>10
  <2>3. CASE ~(s > 0 /\ LT(E, node, heap[HEAP_PARENT(s)]))
    <3>1. f[s] = [heap EXCEPT ![s] = node]
      BY <1>2, <2>1, <2>3 DEF Up
    <3>2. PICK p : Rearranged(f[s], p, heap, node, s) /\ p = [i \in D |-> i]
      <4>1. \E p : /\ Rearranged([heap EXCEPT ![s] = node], p, heap, node, s)
                   /\ p = [i \in D |-> i]
        BY <1>3, <2>1, Placed
      <4> QED
        BY <3>1, <4>1
    <3>3. DOMAIN heap = D /\ f[s][s] = node /\ \A r \in D : r # s => f[s][r] = heap[r]
      BY <1>3, <2>1, <3>1
    <3>4. Climbed(f[s], {s}, s, heap, E, node, s)
      BY <2>1, <2>3, <3>3 DEF Climbed, GTE
    <3> QED
      BY <3>2, <3>4
  <2> QED
    BY <2>2, <2>3
<1>5. slot \in T
  <2> HIDE DEF T
  <2> QED
    BY <1>4, Induction
<1>6. Good(slot)
  BY <1>5
<1> QED
  BY <1>2, <1>6

(* How reheap_down rearranges the heap: the earlier child of each slot on  *)
(* the way goes up by one level, and all of them expire before the node.   *)
Sunk(U, way, place, heap, E, node, slot) ==
  /\ way \subseteq {r \in DOMAIN heap : r >= slot} /\ slot \in way /\ place \in way
  /\ U[place] = node
  /\ \A c \in DOMAIN heap \ {0} : HEAP_PARENT(c) = place => GTE(E, heap[c], node)
  /\ \A r \in way \ {place} :
       /\ \E k \in way : HEAP_PARENT(k) = r /\ k > r /\ U[r] = heap[k] /\ LT(E, heap[k], node)
       /\ \A c \in DOMAIN heap \ {0} : HEAP_PARENT(c) = r => GTE(E, heap[c], U[r])
  /\ \A r \in way \ {slot} :
       /\ HEAP_PARENT(r) \in way \ {place}
       /\ U[HEAP_PARENT(r)] = heap[r] /\ LT(E, heap[r], node)
  /\ \A r \in DOMAIN heap \ way : U[r] = heap[r]

Timed(E) == \A e \in Entries : E[e]._timer_value \in Int

(* The smaller child is a child of the slot, and no later than either.     *)
LEMMA SmallerIs ==
  ASSUME NEW n \in Nat, NEW heap \in [0 .. n - 1 -> Entries], NEW E, Timed(E),
         NEW s \in 0 .. n - 1, HEAP_LEFT(s) \in 0 .. n - 1,
         NEW c \in 0 .. n - 1, c > 0, HEAP_PARENT(c) = s
  PROVE  GTE(E, heap[c], heap[SmallerChild(heap, E, s)])
<1>1. PICK l : l = HEAP_LEFT(s)
  OBVIOUS
<1>2. c = l \/ c = l + 1
  BY <1>1, ParentIs
<1>3. SmallerChild(heap, E, s) =
        IF l + 1 \in 0 .. n - 1 /\ LT(E, heap[l + 1], heap[l]) THEN l + 1 ELSE l
  BY <1>1 DEF SmallerChild
<1>4. CASE l + 1 \in 0 .. n - 1
  <2>1. E[heap[l]]._timer_value \in Int /\ E[heap[l + 1]]._timer_value \in Int
    BY <1>1, <1>4 DEF Timed
  <2> QED
    BY <1>2, <1>3, <1>4, <2>1 DEF GTE, LT
<1>5. CASE l + 1 \notin 0 .. n - 1
  <2>1. c = l /\ SmallerChild(heap, E, s) = l /\ E[heap[l]]._timer_value \in Int
    BY <1>1, <1>2, <1>3, <1>5 DEF Timed
  <2> QED
    BY <2>1 DEF GTE, LT
<1> QED
  BY <1>4, <1>5

(* The node that wanders down from a slot ends in a place on its way, the  *)
(* entries it passes each a slot further up.                               *)
LEMMA Sinks ==
  ASSUME NEW n \in Nat, NEW heap \in [0 .. n - 1 -> Entries], NEW E, Timed(E),
         NEW node \in Entries, NEW slot \in 0 .. n - 1
  PROVE  \E p, way, place :
           LET U == reheap_down(heap, E, node, slot)
           IN  /\ Rearranged(U, p, heap, node, slot)
               /\ Sunk(U, way, place, heap, E, node, slot)
<1>1. PICK D : D = 0 .. n - 1
  OBVIOUS
<1>2. heap \in [D -> Entries] /\ DOMAIN heap = D
  BY <1>1
<1>3. PICK f : Down(f, heap, E, node, D) /\ reheap_down(heap, E, node, slot) = f[slot]
  <2>1. DOMAIN heap = 0 .. n - 1 /\ slot \in DOMAIN heap
    OBVIOUS
  <2> QED
    BY <1>2, <2>1, DownIs
<1> DEFINE Good(s) == \E p, way, place : /\ Rearranged(f[s], p, heap, node, s)
                                         /\ \A i \in D : i < s => p[i] = i
                                         /\ Sunk(f[s], way, place, heap, E, node, s)
           T == {i \in Nat : i < n => Good(n - 1 - i)}
<1>4. ASSUME NEW s \in D, \A m \in D : m > s => Good(m)
      PROVE  Good(s)
  <2>1. s \in Nat /\ s < n
    BY <1>1
  <2>2. CASE HEAP_LEFT(s) \in D /\ LT(E, heap[SmallerChild(heap, E, s)], node)
    <3>1. PICK k : k = SmallerChild(heap, E, s)
      OBVIOUS
    <3>2. k \in D /\ s < k /\ HEAP_PARENT(k) = s /\ s # k /\ k \in Nat
      BY <1>1, <1>2, <2>2, <3>1, ChildIs
    <3>3. Good(k)
      <4> HIDE DEF Good
      <4> QED
        BY <1>4, <3>2
    <3>4. PICK p, way, place : /\ Rearranged(f[k], p, heap, node, k)
                               /\ \A i \in D : i < k => p[i] = i
                               /\ Sunk(f[k], way, place, heap, E, node, k)
      BY <3>3
    <3>5. f[s] = [f[k] EXCEPT ![s] = heap[k]]
      BY <1>2, <1>3, <2>2, <3>1 DEF Down
    <3>6. p[s] = s
      BY <3>2, <3>4
    <3>7. PICK q : /\ Rearranged(f[s], q, heap, node, s)
                   /\ \A i \in D : i # s /\ p[i] # k => q[i] = p[i]
      <4>1. PICK V : V = f[k] /\ Rearranged(V, p, heap, node, k)
        BY <3>4
      <4>2. \E q : /\ Rearranged([V EXCEPT ![s] = heap[k]], q, heap, node, s)
                   /\ \A i \in D : i # s /\ p[i] # k => q[i] = p[i]
        <5>1. s \in D /\ heap \in [D -> Entries]
          BY <1>2
        <5>2. Hole(V, p, D, heap, node, k, s)
          BY <3>2, <3>6, <4>1, <5>1 DEF Hole
        <5>3. PICK q : HoleAt(V, q, p, D, heap, node, k, s)
          BY <5>2, HoleMoved
        <5> QED
          BY <5>3 DEF HoleAt
      <4> QED
        BY <3>5, <4>1, <4>2
    <3>8. \A i \in D : i < s => q[i] = i
      BY <1>1, <3>2, <3>4, <3>7
    <3>9. f[s][s] = heap[k] /\ \A r \in D : r # s => f[s][r] = f[k][r]
      <4>1. DOMAIN f[k] = D
        BY <1>2, <3>4 DEF Rearranged
      <4> QED
        BY <3>5, <4>1
    <3>10. way \subseteq {r \in D : r >= k} /\ k \in way /\ place \in way /\ s \notin way
      <4>1. way \subseteq {r \in D : r >= k} /\ k \in way /\ place \in way
        BY <1>2, <3>4 DEF Sunk
      <4> QED
        BY <1>1, <3>2, <4>1
    <3>11. Sunk(f[s], way \cup {s}, place, heap, E, node, s)
      <4>1. way \cup {s} \subseteq {r \in D : r >= s}
        BY <1>1, <3>2, <3>10
      <4>2. /\ f[s][place] = node
            /\ \A c \in D \ {0} : HEAP_PARENT(c) = place => GTE(E, heap[c], node)
        BY <1>2, <3>4, <3>9, <3>10 DEF Sunk
      <4>3. ASSUME NEW r \in (way \cup {s}) \ {place}
            PROVE  /\ \E j \in way \cup {s} : /\ HEAP_PARENT(j) = r /\ j > r
                                              /\ f[s][r] = heap[j] /\ LT(E, heap[j], node)
                   /\ \A c \in D \ {0} : HEAP_PARENT(c) = r => GTE(E, heap[c], f[s][r])
        <5>1. CASE r = s
          <6>1. ASSUME NEW c \in D \ {0}, HEAP_PARENT(c) = r
                PROVE  GTE(E, heap[c], heap[k])
            BY <1>1, <2>2, <3>1, <5>1, <6>1, SmallerIs
          <6> QED
            BY <2>2, <3>1, <3>2, <3>9, <3>10, <5>1, <6>1
        <5>2. CASE r \in way
          BY <1>2, <3>4, <3>9, <3>10, <4>3, <5>2 DEF Sunk
        <5> QED
          BY <5>1, <5>2
      <4>4. ASSUME NEW r \in (way \cup {s}) \ {s}
            PROVE  /\ HEAP_PARENT(r) \in (way \cup {s}) \ {place}
                   /\ f[s][HEAP_PARENT(r)] = heap[r] /\ LT(E, heap[r], node)
        <5>1. CASE r = k
          BY <2>2, <3>1, <3>2, <3>9, <3>10, <5>1
        <5>2. CASE r # k
          <6>1. /\ HEAP_PARENT(r) \in way \ {place}
                /\ f[k][HEAP_PARENT(r)] = heap[r] /\ LT(E, heap[r], node)
            BY <3>4, <4>4, <5>2 DEF Sunk
          <6> QED
            BY <3>9, <3>10, <6>1
        <5> QED
          BY <5>1, <5>2
      <4>5. \A r \in D \ (way \cup {s}) : f[s][r] = heap[r]
        BY <1>2, <3>4, <3>9 DEF Sunk
      <4> QED
        BY <1>2, <3>10, <4>1, <4>2, <4>3, <4>4, <4>5 DEF Sunk
    <3> QED
      BY <3>7, <3>8, <3>11
  <2>3. CASE ~(HEAP_LEFT(s) \in D /\ LT(E, heap[SmallerChild(heap, E, s)], node))
    <3>1. f[s] = [heap EXCEPT ![s] = node]
      BY <1>2, <1>3, <2>3 DEF Down
    <3>2. PICK p : Rearranged(f[s], p, heap, node, s) /\ p = [i \in D |-> i]
      <4>1. \E p : /\ Rearranged([heap EXCEPT ![s] = node], p, heap, node, s)
                   /\ p = [i \in D |-> i]
        BY <1>2, Placed
      <4> QED
        BY <3>1, <4>1
    <3>3. f[s][s] = node /\ \A r \in D : r # s => f[s][r] = heap[r]
      BY <1>2, <3>1
    <3>4. ASSUME NEW c \in D \ {0}, HEAP_PARENT(c) = s
          PROVE  GTE(E, heap[c], node)
      <4>1. HEAP_LEFT(s) \in D
        <5>1. c \in Nat /\ c > 0 /\ c < n
          BY <1>1
        <5>2. c = 2 * s + 1 \/ c = 2 * s + 2
          BY <2>1, <3>4, <5>1, ParentIs DEF HEAP_LEFT
        <5>3. 2 * s + 1 \in Nat /\ 2 * s + 1 < n
          BY <2>1, <5>1, <5>2
        <5> QED
          BY <1>1, <5>3 DEF HEAP_LEFT
      <4>2. GTE(E, heap[c], heap[SmallerChild(heap, E, s)])
        BY <1>1, <3>4, <4>1, SmallerIs
      <4>3. SmallerChild(heap, E, s) \in D
        BY <1>1, <1>2, <4>1, ChildIs
      <4>4. PICK x, y, z : /\ x = E[heap[c]]._timer_value /\ z = E[node]._timer_value
                           /\ y = E[heap[SmallerChild(heap, E, s)]]._timer_value
        OBVIOUS
      <4>5. x \in Int /\ y \in Int /\ z \in Int
        BY <1>2, <4>3, <4>4 DEF Timed
      <4> QED
        BY <2>3, <4>1, <4>2, <4>4, <4>5 DEF GTE, LT
    <3>5. Sunk(f[s], {s}, s, heap, E, node, s)
      BY <1>1, <1>2, <3>3, <3>4 DEF Sunk
    <3> QED
      BY <3>2, <3>5
  <2> QED
    BY <2>2, <2>3
<1>5. \A i \in Nat : i \in T
  <2>1. ASSUME NEW i \in Nat, \A m \in 0 .. i - 1 : m \in T
        PROVE  i \in T
    <3> SUFFICES ASSUME i < n PROVE Good(n - 1 - i)
      OBVIOUS
    <3> HIDE DEF Good
    <3>1. ASSUME NEW m \in D, m > n - 1 - i
          PROVE  Good(m)
      <4>1. n - 1 - m \in 0 .. i - 1 /\ n - 1 - m < n /\ n - 1 - (n - 1 - m) = m
        BY <1>1, <3>1
      <4> QED
        BY <2>1, <4>1
    <3> QED
      BY <1>1, <1>4, <3>1
  <2> HIDE DEF T
  <2> QED
    BY <2>1, Induction
<1>6. Good(slot)
  <2> HIDE DEF Good
  <2>1. n - 1 - slot \in Nat /\ n - 1 - slot < n /\ n - 1 - (n - 1 - slot) = slot
    OBVIOUS
  <2> QED
    BY <1>5, <2>1
<1> QED
  BY <1>3, <1>6

(* Expiring no earlier is an order.                                        *)
LEMMA Later ==
  ASSUME NEW E, Timed(E)
  PROVE  /\ \A e \in Entries : GTE(E, e, e)
         /\ \A e, f \in Entries : LT(E, e, f) => GTE(E, f, e)
         /\ \A e, f, g \in Entries : GTE(E, e, f) /\ GTE(E, f, g) => GTE(E, e, g)
  BY DEF Timed, GTE, LT

(* A heap in order but for one slot, whose children expire no earlier than *)
(* the node that is to fill it and than its parent.                        *)
InOrder(heap, E) == \A s \in DOMAIN heap : GTE(E, heap[s], heap[HEAP_PARENT(s)])
OrderedBut(heap, E, slot) ==
  /\ \A r \in DOMAIN heap : r # slot /\ HEAP_PARENT(r) # slot => GTE(E, heap[r], heap[HEAP_PARENT(r)])
  /\ \A c \in DOMAIN heap \ {slot} :
       HEAP_PARENT(c) = slot => GTE(E, heap[c], heap[HEAP_PARENT(slot)]) \/ slot = 0

(* The parent of a slot of the heap is one.                                *)
LEMMA ParentIn ==
  ASSUME NEW n \in Nat, NEW r \in 0 .. n - 1
  PROVE  HEAP_PARENT(r) \in 0 .. n - 1 /\ (r > 0 => HEAP_PARENT(r) < r) /\ HEAP_PARENT(0) = 0
  BY ParentIs DEF HEAP_PARENT

(* A heap in order but for the slot is in order once the node has climbed  *)
(* from it.                                                                *)
LEMMA ClimbOrdered ==
  ASSUME NEW n \in Nat, NEW heap \in [0 .. n - 1 -> Entries], NEW E, Timed(E),
         NEW node \in Entries, NEW slot \in 0 .. n - 1, OrderedBut(heap, E, slot),
         \A c \in 0 .. n - 1 : c # slot /\ HEAP_PARENT(c) = slot => GTE(E, heap[c], node),
         NEW U \in [0 .. n - 1 -> Entries], NEW way, NEW place,
         Climbed(U, way, place, heap, E, node, slot)
  PROVE  InOrder(U, E)
<1> SUFFICES ASSUME NEW r \in 0 .. n - 1 PROVE GTE(E, U[r], U[HEAP_PARENT(r)])
  BY DEF InOrder
<1>1. PICK q : q = HEAP_PARENT(r)
  OBVIOUS
<1>2. q \in 0 .. n - 1 /\ (r > 0 => q < r) /\ (r = 0 => q = 0)
  BY <1>1, ParentIn
<1>3. /\ way \subseteq 0 .. slot /\ slot \in way /\ place \in way /\ U[place] = node
      /\ \A x \in way \ {place} : /\ x > place /\ HEAP_PARENT(x) \in way
                                  /\ U[x] = heap[HEAP_PARENT(x)] /\ LT(E, node, heap[HEAP_PARENT(x)])
      /\ \A x \in way \ {slot} : \E c \in way \ {place} : HEAP_PARENT(c) = x
      /\ \A x \in 0 .. n - 1 : x \notin way => U[x] = heap[x]
  BY DEF Climbed
<1>4. CASE r = 0
  BY <1>1, <1>2, <1>4, Later
<1>5. CASE r > 0 /\ r \in way \ {place}
  <2>1. q \in way /\ U[r] = heap[q] /\ LT(E, node, heap[q])
    BY <1>1, <1>3, <1>5
  <2>2. CASE q = place
    BY <1>1, <1>2, <1>3, <2>1, <2>2, Later
  <2>3. CASE q # place
    <3>1. U[q] = heap[HEAP_PARENT(q)] /\ HEAP_PARENT(q) \in 0 .. n - 1 /\ q # slot
          /\ HEAP_PARENT(q) # slot
      BY <1>2, <1>3, <1>5, <2>1, <2>3, ParentIn
    <3>2. GTE(E, heap[q], heap[HEAP_PARENT(q)])
      BY <1>2, <3>1 DEF OrderedBut
    <3> QED
      BY <1>1, <2>1, <3>1, <3>2
  <2> QED
    BY <2>2, <2>3
<1>6. CASE r > 0 /\ r = place
  <2>1. q \notin way
    BY <1>2, <1>3, <1>6
  <2>2. GTE(E, node, heap[q])
    BY <1>1, <1>6 DEF Climbed
  <2> QED
    BY <1>1, <1>2, <1>3, <1>6, <2>1, <2>2
<1>7. CASE r > 0 /\ r \notin way /\ q \notin way
  <2>1. GTE(E, heap[r], heap[q])
    BY <1>1, <1>3, <1>7 DEF OrderedBut
  <2> QED
    BY <1>1, <1>2, <1>3, <1>7, <2>1
<1>8. CASE r > 0 /\ r \notin way /\ q \in way
  <2>1. U[r] = heap[r] /\ r # slot /\ heap[r] \in Entries /\ heap[q] \in Entries
        /\ heap[HEAP_PARENT(q)] \in Entries
    BY <1>2, <1>3, <1>8, ParentIn
  <2>2. CASE q = slot
    <3>1. GTE(E, heap[r], node)
      BY <1>1, <2>1, <2>2
    <3>2. CASE place = slot
      BY <1>1, <1>3, <2>1, <2>2, <3>1, <3>2
    <3>3. CASE place # slot
      <4>1. U[slot] = heap[HEAP_PARENT(slot)] /\ slot # 0
        BY <1>3, <3>3
      <4>2. GTE(E, heap[r], heap[HEAP_PARENT(slot)])
        BY <1>1, <2>1, <2>2, <4>1 DEF OrderedBut
      <4> QED
        BY <1>1, <2>1, <2>2, <4>1, <4>2
    <3> QED
      BY <3>2, <3>3
  <2>3. CASE q # slot
    <3>1. GTE(E, heap[r], heap[q])
      BY <1>1, <2>1, <2>3 DEF OrderedBut
    <3>2. CASE q = place
      <4>1. LT(E, node, heap[q])
        BY <1>3, <1>8, <2>3
      <4> QED
        BY <1>1, <1>3, <2>1, <3>1, <3>2, <4>1, Later
    <3>3. CASE q # place
      <4>1. U[q] = heap[HEAP_PARENT(q)] /\ HEAP_PARENT(q) # slot
        BY <1>2, <1>3, <1>8, <2>3, <3>3, ParentIn
      <4>2. GTE(E, heap[q], heap[HEAP_PARENT(q)])
        BY <1>2, <2>3, <4>1 DEF OrderedBut
      <4> QED
        BY <1>1, <2>1, <3>1, <4>1, <4>2, Later
    <3> QED
      BY <3>2, <3>3
  <2> QED
    BY <2>2, <2>3
<1> QED
  BY <1>4, <1>5, <1>6, <1>7, <1>8

(* A heap in order but for the slot is in order once the node has sunk     *)
(* from it.                                                                *)
LEMMA SinkOrdered ==
  ASSUME NEW n \in Nat, NEW heap \in [0 .. n - 1 -> Entries], NEW E, Timed(E),
         NEW node \in Entries, NEW slot \in 0 .. n - 1, OrderedBut(heap, E, slot),
         slot > 0 => GTE(E, node, heap[HEAP_PARENT(slot)]),
         NEW U \in [0 .. n - 1 -> Entries], NEW way, NEW place,
         Sunk(U, way, place, heap, E, node, slot)
  PROVE  InOrder(U, E)
<1> SUFFICES ASSUME NEW r \in 0 .. n - 1 PROVE GTE(E, U[r], U[HEAP_PARENT(r)])
  BY DEF InOrder
<1>1. PICK q : q = HEAP_PARENT(r)
  OBVIOUS
<1>2. q \in 0 .. n - 1 /\ (r > 0 => q < r) /\ (r = 0 => q = 0)
  BY <1>1, ParentIn
<1>3. /\ way \subseteq {x \in 0 .. n - 1 : x >= slot} /\ slot \in way /\ place \in way
      /\ U[place] = node
      /\ \A x \in way \ {place} :
           /\ \E k \in way : HEAP_PARENT(k) = x /\ k > x /\ U[x] = heap[k] /\ LT(E, heap[k], node)
           /\ \A c \in 0 .. n - 1 : c # 0 /\ HEAP_PARENT(c) = x => GTE(E, heap[c], U[x])
      /\ \A x \in way \ {slot} : /\ HEAP_PARENT(x) \in way \ {place}
                                 /\ U[HEAP_PARENT(x)] = heap[x] /\ LT(E, heap[x], node)
      /\ \A x \in 0 .. n - 1 : x \notin way => U[x] = heap[x]
      /\ \A c \in 0 .. n - 1 : c # 0 /\ HEAP_PARENT(c) = place => GTE(E, heap[c], node)
  BY DEF Sunk
<1>4. CASE r = 0
  BY <1>1, <1>2, <1>4, Later
<1>5. CASE r > 0 /\ r \notin way /\ q \notin way
  <2>1. GTE(E, heap[r], heap[q])
    BY <1>1, <1>3, <1>5 DEF OrderedBut
  <2> QED
    BY <1>1, <1>2, <1>3, <1>5, <2>1
<1>6. CASE r > 0 /\ r \notin way /\ q \in way
  BY <1>1, <1>3, <1>6
<1>7. CASE r > 0 /\ r = slot
  <2>1. q \notin way /\ U[q] = heap[q] /\ GTE(E, node, heap[q])
    BY <1>1, <1>2, <1>3, <1>7
  <2>2. CASE slot = place
    BY <1>1, <1>3, <1>7, <2>1, <2>2
  <2>3. CASE slot # place
    <3>1. PICK k \in way : HEAP_PARENT(k) = slot /\ k > slot /\ U[slot] = heap[k]
      BY <1>3, <2>3
    <3>2. GTE(E, heap[k], heap[q])
      BY <1>1, <1>3, <1>7, <3>1 DEF OrderedBut
    <3> QED
      BY <1>1, <1>7, <2>1, <3>1, <3>2
  <2> QED
    BY <2>2, <2>3
<1>8. CASE r > 0 /\ r \in way \ {slot}
  <2>1. q \in way \ {place} /\ U[q] = heap[r] /\ LT(E, heap[r], node)
    BY <1>1, <1>3, <1>8
  <2>2. CASE r = place
    BY <1>1, <1>3, <2>1, <2>2, Later
  <2>3. CASE r # place
    <3>1. PICK k \in way : HEAP_PARENT(k) = r /\ k > r /\ U[r] = heap[k]
      BY <1>3, <1>8, <2>3
    <3>2. GTE(E, heap[k], heap[r])
      BY <1>3, <1>8, <3>1 DEF OrderedBut
    <3> QED
      BY <1>1, <2>1, <3>1, <3>2
  <2> QED
    BY <2>2, <2>3
<1> QED
  BY <1>3, <1>4, <1>5, <1>6, <1>7, <1>8

(* The root of a heap in order expires first.                              *)
LEMMA RootFirst ==
  ASSUME NEW n \in Nat, NEW heap \in [0 .. n - 1 -> Entries], NEW E, Timed(E), InOrder(heap, E)
  PROVE  \A r \in 0 .. n - 1 : GTE(E, heap[r], heap[0])
<1> DEFINE T == {i \in Nat : i < n => GTE(E, heap[i], heap[0])}
<1>1. ASSUME NEW i \in Nat, \A m \in 0 .. i - 1 : m \in T
      PROVE  i \in T
  <2> SUFFICES ASSUME i < n PROVE GTE(E, heap[i], heap[0])
    OBVIOUS
  <2>1. CASE i = 0
    BY <2>1, Later
  <2>2. CASE i > 0
    <3>1. PICK q : q = HEAP_PARENT(i)
      OBVIOUS
    <3>2. q \in 0 .. i - 1 /\ q < n /\ q \in 0 .. n - 1 /\ i \in 0 .. n - 1 /\ 0 \in 0 .. n - 1
      BY <2>2, <3>1, ParentIs
    <3>3. GTE(E, heap[q], heap[0])
      BY <1>1, <3>2
    <3>4. GTE(E, heap[i], heap[q])
      BY <3>1, <3>2 DEF InOrder
    <3> QED
      BY <3>2, <3>3, <3>4, Later
  <2> QED
    BY <2>1, <2>2
<1>2. \A i \in Nat : i \in T
  <2> HIDE DEF T
  <2> QED
    BY <1>1, Induction
<1> QED
  BY <1>2

(* The records of TypeOK.                                                  *)
Heaps(cur, max) ==
  [cur_size : {cur}, max_size : {max}, heap : [0 .. cur - 1 -> Entries],
   timer_ids : [0 .. max - 1 -> Int], timer_ids_freelist : Int]
Fields == [_timer_id : Int, _timer_value : Int, _grp_lock : BOOLEAN]

(* The ids of the entries of a heap are ids, and of one entry each.        *)
Named(heap, E, max) ==
  /\ \A s \in DOMAIN heap : E[heap[s]]._timer_id \in 1 .. max - 1
  /\ \A s, r \in DOMAIN heap : E[heap[s]]._timer_id = E[heap[r]]._timer_id => s = r

(* The node is not in the heap yet; the others that stay where they were   *)
(* are found.                                                              *)
Kept(h, E, heap, n, cur, node) ==
  \A s \in 0 .. n - 1 :
    s < cur /\ h.heap[s] = heap[s] /\ heap[s] # node => h.timer_ids[E[heap[s]]._timer_id] = s

Copies(r, h, E, heap, n, max) ==
  /\ r \in Heaps(n, max) /\ r.heap = heap
  /\ r.timer_ids_freelist = h.timer_ids_freelist
  /\ \A s \in 0 .. n - 1 : r.timer_ids[E[heap[s]]._timer_id] = s
  /\ \A i \in 0 .. max - 1 : \/ r.timer_ids[i] = h.timer_ids[i]
                             \/ \E s \in 0 .. n - 1 : i = E[heap[s]]._timer_id

(* Copied locates every entry of the new heap, and changes no other id.    *)
LEMMA CopiedIs ==
  ASSUME NEW cur \in Nat, NEW max \in Nat, NEW h \in Heaps(cur, max), NEW n \in Nat,
         NEW heap \in [0 .. n - 1 -> Entries], NEW E, NEW node, Named(heap, E, max),
         Kept(h, E, heap, n, cur, node), NEW r, r = Copied(h, E, heap, node)
  PROVE  Copies(r, h, E, heap, n, max)
<1>1. PICK slots : slots = {s \in 0 .. n - 1 :
                              s \notin DOMAIN h.heap \/ h.heap[s] # heap[s] \/ heap[s] = node}
  OBVIOUS
<1> DEFINE at(i) == IF \E s \in slots : E[heap[s]]._timer_id = i
                    THEN CHOOSE s \in slots : E[heap[s]]._timer_id = i ELSE h.timer_ids[i]
<1>2. PICK ids : ids = [i \in 0 .. max - 1 |-> at(i)]
  OBVIOUS
<1>3. DOMAIN h.heap = 0 .. cur - 1 /\ DOMAIN h.timer_ids = 0 .. max - 1 /\ DOMAIN heap = 0 .. n - 1
  BY DEF Heaps
<1>4. Cardinality(0 .. n - 1) = n
  <2>1. n - 1 \in Int /\ 0 \in Int /\ n - 1 - 0 + 1 = n
    OBVIOUS
  <2> QED
    BY <2>1, FS_Interval
<1>5. r = [h EXCEPT !.heap = heap, !.cur_size = n, !.timer_ids = ids]
  <2>1. r = [h EXCEPT !.heap = heap, !.cur_size = Cardinality(0 .. n - 1),
               !.timer_ids = [i \in DOMAIN h.timer_ids |-> at(i)]]
    BY <1>1, <1>3 DEF Copied
  <2> HIDE DEF at
  <2> QED
    BY <1>2, <1>3, <1>4, <2>1
<1>6. \A i \in 0 .. max - 1 : ids[i] = at(i)
  BY <1>2
<1>7. ASSUME NEW s \in slots
      PROVE  E[heap[s]]._timer_id \in 0 .. max - 1 /\ ids[E[heap[s]]._timer_id] = s
  <2>1. E[heap[s]]._timer_id \in 0 .. max - 1
    BY <1>1, <1>3 DEF Named
  <2>2. PICK i : i = E[heap[s]]._timer_id
    OBVIOUS
  <2>3. ids[i] = at(i) /\ \E k \in slots : E[heap[k]]._timer_id = i
    BY <1>6, <2>1, <2>2
  <2>4. ids[i] \in slots /\ E[heap[ids[i]]]._timer_id = i
    BY <2>3
  <2> HIDE DEF at
  <2> QED
    BY <1>1, <1>3, <2>1, <2>2, <2>4 DEF Named
<1>8. ASSUME NEW i \in 0 .. max - 1, ~\E s \in slots : E[heap[s]]._timer_id = i
      PROVE  ids[i] = h.timer_ids[i]
  BY <1>6, <1>8
<1> HIDE DEF at
<1>9. ids \in [0 .. max - 1 -> Int]
  <2>1. ASSUME NEW i \in 0 .. max - 1
        PROVE  ids[i] \in Int
    <3>1. CASE \E s \in slots : E[heap[s]]._timer_id = i
      BY <1>1, <1>7, <3>1
    <3>2. CASE ~\E s \in slots : E[heap[s]]._timer_id = i
      BY <1>8, <3>2 DEF Heaps
    <3> QED
      BY <3>1, <3>2
  <2> QED
    BY <1>2, <2>1
<1>10. r \in Heaps(n, max) /\ r.heap = heap /\ r.timer_ids = ids
       /\ r.timer_ids_freelist = h.timer_ids_freelist
  BY <1>5, <1>9 DEF Heaps
<1>11. ASSUME NEW s \in 0 .. n - 1
       PROVE  ids[E[heap[s]]._timer_id] = s
  <2>1. CASE s \in slots
    BY <1>7, <2>1
  <2>2. CASE s \notin slots
    <3>1. s < cur /\ h.heap[s] = heap[s] /\ heap[s] # node
      BY <1>1, <1>3, <2>2
    <3>2. E[heap[s]]._timer_id \in 0 .. max - 1
      BY <1>3 DEF Named
    <3>3. h.timer_ids[E[heap[s]]._timer_id] = s
      BY <3>1 DEF Kept
    <3>4. ~\E k \in slots : E[heap[k]]._timer_id = E[heap[s]]._timer_id
      BY <1>1, <1>3, <2>2 DEF Named
    <3> QED
      BY <1>8, <3>2, <3>4, <3>3
  <2> QED
    BY <2>1, <2>2
<1>12. \A i \in 0 .. max - 1 : \/ ids[i] = h.timer_ids[i]
                               \/ \E s \in 0 .. n - 1 : i = E[heap[s]]._timer_id
  BY <1>1, <1>8
<1> QED
  BY <1>10, <1>11, <1>12 DEF Copies

(* What a rearrangement keeps.                                             *)
Shuffled(U, heap, D) ==
  \E p \in [D -> D] : Permutes(p, D) /\ \A i \in D : U[i] = heap[p[i]]

(* A heap rearranged around its own node has the same entries.             *)
LEMMA RearrangedKeeps ==
  ASSUME NEW D, NEW heap \in [D -> Entries], NEW slot \in D, NEW node, node = heap[slot],
         NEW U, NEW p, Rearranged(U, p, heap, node, slot)
  PROVE  U \in [D -> Entries] /\ Shuffled(U, heap, D)
<1>1. DOMAIN heap = D
  OBVIOUS
<1>2. U \in [D -> Entries]
  BY <1>1 DEF Rearranged, Permutes
<1>3. p \in [D -> D] /\ Permutes(p, D) /\ \A i \in D : U[i] = heap[p[i]]
  BY <1>1 DEF Rearranged, Permutes
<1> QED
  BY <1>2, <1>3 DEF Shuffled

(* The entry in the slot, out of order there, finds its place.             *)
LEMMA FilledIs ==
  ASSUME NEW n \in Nat, NEW heap \in [0 .. n - 1 -> Entries], NEW E, Timed(E),
         NEW slot \in 0 .. n - 1, NEW node, node = heap[slot], OrderedBut(heap, E, slot),
         NEW U, U = Filled(heap, E, node, slot)
  PROVE  /\ InOrder(U, E) /\ U \in [0 .. n - 1 -> Entries]
         /\ Shuffled(U, heap, 0 .. n - 1)
<1>1. node \in Entries /\ HEAP_PARENT(slot) \in 0 .. n - 1 /\ heap[HEAP_PARENT(slot)] \in Entries
  BY ParentIn
<1>2. CASE GTE(E, node, heap[HEAP_PARENT(slot)])
  <2>1. U = reheap_down(heap, E, node, slot)
    BY <1>2 DEF Filled
  <2>2. PICK p, way, place : /\ Rearranged(U, p, heap, node, slot)
                             /\ Sunk(U, way, place, heap, E, node, slot)
    BY <1>1, <2>1, Sinks
  <2>3. U \in [0 .. n - 1 -> Entries]
    BY <2>2, RearrangedKeeps
  <2>4. InOrder(U, E)
    BY <1>1, <1>2, <2>2, <2>3, SinkOrdered
  <2>5. Shuffled(U, heap, 0 .. n - 1)
    BY <2>2, RearrangedKeeps
  <2> QED
    BY <2>3, <2>4, <2>5
<1>3. CASE ~GTE(E, node, heap[HEAP_PARENT(slot)])
  <2>1. U = reheap_up(heap, E, node, slot)
    BY <1>3 DEF Filled
  <2>2. PICK p, way, place : /\ Rearranged(U, p, heap, node, slot)
                             /\ Climbed(U, way, place, heap, E, node, slot)
    BY <1>1, <2>1, Climbs
  <2>3. U \in [0 .. n - 1 -> Entries]
    BY <2>2, RearrangedKeeps
  <2>4. slot # 0
    BY <1>1, <1>3, Later DEF HEAP_PARENT
  <2>5. ASSUME NEW c \in 0 .. n - 1, c # slot, HEAP_PARENT(c) = slot
        PROVE  GTE(E, heap[c], node)
    <3>1. GTE(E, heap[c], heap[HEAP_PARENT(slot)])
      BY <2>4, <2>5 DEF OrderedBut
    <3>2. GTE(E, heap[HEAP_PARENT(slot)], node)
      BY <1>1, <1>3, Later DEF GTE
    <3> QED
      BY <1>1, <3>1, <3>2, Later
  <2>6. InOrder(U, E)
    BY <1>1, <2>2, <2>3, <2>5, ClimbOrdered
  <2>7. Shuffled(U, heap, 0 .. n - 1)
    BY <2>2, RearrangedKeeps
  <2> QED
    BY <2>3, <2>6, <2>7
<1> QED
  BY <1>2, <1>3

Moved(rest, heap, n, slot) ==
  \A s \in 0 .. n - 1 : rest[s] = IF s = slot THEN heap[n] ELSE heap[s]

(* The heap without the entry of a slot: the last one in its place, which  *)
(* alone may be out of order.                                              *)
LEMMA HoleFilled ==
  ASSUME NEW n \in Nat, NEW heap \in [0 .. n -> Entries], NEW E, Timed(E), InOrder(heap, E),
         NEW slot \in 0 .. n - 1,
         NEW rest \in [0 .. n - 1 -> Entries],
         Moved(rest, heap, n, slot)
  PROVE  OrderedBut(rest, E, slot)
<1>1. DOMAIN heap = 0 .. n /\ DOMAIN rest = 0 .. n - 1
  OBVIOUS
<1>2. \A s \in 0 .. n - 1 : s # slot => rest[s] = heap[s]
  BY DEF Moved
<1>3. \A s \in 0 .. n - 1 : /\ HEAP_PARENT(s) \in 0 .. n - 1
                            /\ (s > 0 => HEAP_PARENT(s) < s) /\ HEAP_PARENT(0) = 0
  BY ParentIn
<1>4. \A s \in 0 .. n : GTE(E, heap[s], heap[HEAP_PARENT(s)])
  BY <1>1 DEF InOrder
<1>5. ASSUME NEW s \in 0 .. n - 1, s # slot, HEAP_PARENT(s) # slot
      PROVE  GTE(E, rest[s], rest[HEAP_PARENT(s)])
  <2>1. HEAP_PARENT(s) \in 0 .. n - 1 /\ s \in 0 .. n
    BY <1>3
  <2>2. rest[s] = heap[s] /\ rest[HEAP_PARENT(s)] = heap[HEAP_PARENT(s)]
    BY <1>2, <1>5, <2>1
  <2> QED
    BY <1>4, <2>1, <2>2
<1>6. ASSUME NEW c \in 0 .. n - 1, c # slot, HEAP_PARENT(c) = slot
      PROVE  GTE(E, rest[c], rest[HEAP_PARENT(slot)]) \/ slot = 0
  <2>1. CASE slot # 0
    <3>1. rest[c] = heap[c] /\ rest[HEAP_PARENT(slot)] = heap[HEAP_PARENT(slot)]
      BY <1>2, <1>3, <1>6, <2>1
    <3>2. GTE(E, heap[c], heap[slot]) /\ GTE(E, heap[slot], heap[HEAP_PARENT(slot)])
      BY <1>4, <1>6
    <3>3. heap[c] \in Entries /\ heap[slot] \in Entries /\ heap[HEAP_PARENT(slot)] \in Entries
      BY <1>3
    <3> QED
      BY <3>1, <3>2, <3>3, Later
  <2> QED
    BY <2>1
<1> QED
  BY <1>1, <1>5, <1>6 DEF OrderedBut

(* What stays when a slot of a heap of n + 1 is vacated: g tells where the *)
(* entry of each slot was before.                                          *)
Vacated(g, U, heap, n, slot) ==
  /\ g \in [0 .. n - 1 -> 0 .. n]
  /\ \A s \in 0 .. n - 1 : U[s] = heap[g[s]] /\ g[s] # slot
  /\ \A s, r \in 0 .. n - 1 : g[s] = g[r] => s = r
  /\ \A k \in 0 .. n : k # slot => \E s \in 0 .. n - 1 : g[s] = k

Emptied(U, heap, E, n, slot) ==
  U \in [0 .. n - 1 -> Entries] /\ InOrder(U, E) /\ \E g : Vacated(g, U, heap, n, slot)

(* The last entry in place of the slot's, and the rest permuted: all       *)
(* entries but the slot's.                                                 *)
LEMMA VacatedBy ==
  ASSUME NEW n \in Nat, NEW heap \in [0 .. n -> Entries], NEW slot \in 0 .. n - 1,
         NEW U, NEW p \in [0 .. n - 1 -> 0 .. n - 1],
         \A s \in 0 .. n - 1 : U[s] = IF p[s] = slot THEN heap[n] ELSE heap[p[s]],
         Permutes(p, 0 .. n - 1)
  PROVE  \E g : Vacated(g, U, heap, n, slot)
<1>1. PICK g : g = [s \in 0 .. n - 1 |-> IF p[s] = slot THEN n ELSE p[s]]
  OBVIOUS
<1>2. /\ g \in [0 .. n - 1 -> 0 .. n]
      /\ \A s \in 0 .. n - 1 : g[s] = IF p[s] = slot THEN n ELSE p[s]
  BY <1>1
<1>3. ASSUME NEW s \in 0 .. n - 1
      PROVE  U[s] = heap[g[s]] /\ g[s] # slot
  <2>1. p[s] \in 0 .. n - 1
    OBVIOUS
  <2>2. g[s] = IF p[s] = slot THEN n ELSE p[s]
    BY <1>2
  <2>3. U[s] = IF p[s] = slot THEN heap[n] ELSE heap[p[s]]
    OBVIOUS
  <2>4. n # slot
    OBVIOUS
  <2> QED
    BY <2>2, <2>3, <2>4
<1>4. ASSUME NEW s \in 0 .. n - 1, NEW r \in 0 .. n - 1, g[s] = g[r]
      PROVE  s = r
  <2>1. p[s] \in 0 .. n - 1 /\ p[r] \in 0 .. n - 1 /\ p[s] # n /\ p[r] # n
    OBVIOUS
  <2>2. p[s] = p[r]
    BY <1>2, <1>4, <2>1
  <2> QED
    BY <2>2 DEF Permutes
<1>5. ASSUME NEW k \in 0 .. n, k # slot
      PROVE  \E s \in 0 .. n - 1 : g[s] = k
  <2>1. PICK j \in 0 .. n - 1 : j = IF k = n THEN slot ELSE k
    BY <1>5
  <2>2. PICK i \in 0 .. n - 1 : p[i] = j
    BY DEF Permutes
  <2> QED
    BY <1>2, <1>5, <2>1, <2>2
<1> QED
  BY <1>2, <1>3, <1>4, <1>5 DEF Vacated

(* So the hole of a removed entry is filled: the others are there, in      *)
(* order.                                                                  *)
LEMMA VacatedIs ==
  ASSUME NEW n \in Nat, NEW heap \in [0 .. n -> Entries], NEW E, Timed(E), InOrder(heap, E),
         NEW slot \in 0 .. n - 1, NEW rest \in [0 .. n - 1 -> Entries],
         Moved(rest, heap, n, slot),
         NEW node, node = rest[slot], NEW U, U = Filled(rest, E, node, slot)
  PROVE  Emptied(U, heap, E, n, slot)
<1>1. OrderedBut(rest, E, slot)
  BY HoleFilled
<1>2. /\ InOrder(U, E) /\ U \in [0 .. n - 1 -> Entries]
      /\ Shuffled(U, rest, 0 .. n - 1)
  BY <1>1, FilledIs
<1>3. PICK p \in [0 .. n - 1 -> 0 .. n - 1] :
        Permutes(p, 0 .. n - 1) /\ \A i \in 0 .. n - 1 : U[i] = rest[p[i]]
  BY <1>2 DEF Shuffled
<1>4. \A s \in 0 .. n - 1 : U[s] = IF p[s] = slot THEN heap[n] ELSE heap[p[s]]
  BY <1>3 DEF Moved
<1>5. \E g : Vacated(g, U, heap, n, slot)
  BY <1>3, <1>4, VacatedBy
<1> QED
  BY <1>2, <1>5 DEF Emptied

(* The last slot leaves no hole.                                           *)
LEMMA LastVacated ==
  ASSUME NEW n \in Nat, NEW heap \in [0 .. n -> Entries], NEW E, InOrder(heap, E),
         NEW U \in [0 .. n - 1 -> Entries], \A s \in 0 .. n - 1 : U[s] = heap[s]
  PROVE  Emptied(U, heap, E, n, n)
<1>1. InOrder(U, E)
  <2>1. DOMAIN U = 0 .. n - 1 /\ DOMAIN heap = 0 .. n
    OBVIOUS
  <2>2. ASSUME NEW s \in 0 .. n - 1
        PROVE  GTE(E, U[s], U[HEAP_PARENT(s)])
    <3>1. HEAP_PARENT(s) \in 0 .. n - 1 /\ s \in 0 .. n
      BY ParentIn
    <3>2. GTE(E, heap[s], heap[HEAP_PARENT(s)])
      BY <2>1, <3>1 DEF InOrder
    <3>3. U[s] = heap[s] /\ U[HEAP_PARENT(s)] = heap[HEAP_PARENT(s)]
      BY <3>1
    <3> QED
      BY <3>2, <3>3
  <2> QED
    BY <2>1, <2>2 DEF InOrder
<1>2. PICK g : g = [s \in 0 .. n - 1 |-> s]
  OBVIOUS
<1>3. Vacated(g, U, heap, n, n)
  BY <1>2 DEF Vacated
<1> QED
  BY <1>1, <1>3 DEF Emptied

-----------------------------------------------------------------------------
(* timer_ids is the inverse of the heap: it gives the slot of the entry    *)
(* that has an id, and is negative for the ids that none has.              *)
Indexed(heap, ids, E, n, max) ==
  /\ \A s \in 0 .. n - 1 : E[heap[s]]._timer_id \in 1 .. max - 1 /\ ids[E[heap[s]]._timer_id] = s
  /\ \A i \in 1 .. max - 1 : ids[i] >= 0 => ids[i] \in 0 .. n - 1 /\ E[heap[ids[i]]]._timer_id = i

(* A heap as it is between calls.                                          *)
Sound(h, E) ==
  /\ h.cur_size \in Nat /\ h.max_size \in Nat /\ h \in Heaps(h.cur_size, h.max_size)
  /\ Indexed(h.heap, h.timer_ids, E, h.cur_size, h.max_size)
  /\ InOrder(h.heap, E)
In(h) == {h.heap[s] : s \in DOMAIN h.heap}

Shrunk(U, new, heap, ids, E, n, max, slot, id, g) ==
  /\ n \in Nat /\ max \in Nat /\ heap \in [0 .. n -> Entries] /\ U \in [0 .. n - 1 -> Entries]
  /\ ids \in [0 .. max - 1 -> Int] /\ new \in [0 .. max - 1 -> Int]
  /\ Indexed(heap, ids, E, n + 1, max) /\ Vacated(g, U, heap, n, slot)
  /\ slot \in 0 .. n /\ id = E[heap[slot]]._timer_id /\ new[id] < 0
  /\ \A s \in 0 .. n - 1 : new[E[U[s]]._timer_id] = s
  /\ \A i \in 0 .. max - 1 : \/ i = id \/ new[i] = ids[i]
                             \/ \E s \in 0 .. n - 1 : i = E[U[s]]._timer_id

Reindexed(U, new, heap, ids, E, n, max, slot, id) ==
  /\ Indexed(U, new, E, n, max)
  /\ id \in 1 .. max - 1 /\ ids[id] >= 0
  /\ \A i \in 1 .. max - 1 : new[i] < 0 <=> ids[i] < 0 \/ i = id
  /\ \A i \in 1 .. max - 1 : ids[i] < 0 => new[i] = ids[i]
  /\ \A e : (\E s \in 0 .. n - 1 : e = U[s]) <=> (\E s \in 0 .. n : e = heap[s]) /\ e # heap[slot]

(* The heap and its index without the entry of the slot.                   *)
LEMMA StillIndexed ==
  ASSUME NEW U, NEW new, NEW heap, NEW ids, NEW E, NEW n, NEW max, NEW slot, NEW id, NEW g,
         Shrunk(U, new, heap, ids, E, n, max, slot, id, g)
  PROVE  Reindexed(U, new, heap, ids, E, n, max, slot, id)
<1> USE DEF Shrunk
<1>1. /\ \A s \in 0 .. n : E[heap[s]]._timer_id \in 1 .. max - 1 /\ ids[E[heap[s]]._timer_id] = s
      /\ \A i \in 1 .. max - 1 : ids[i] >= 0 => ids[i] \in 0 .. n /\ E[heap[ids[i]]]._timer_id = i
  <2>1. 0 .. (n + 1) - 1 = 0 .. n
    OBVIOUS
  <2> QED
    BY <2>1 DEF Indexed
<1>2. /\ g \in [0 .. n - 1 -> 0 .. n]
      /\ \A s \in 0 .. n - 1 : U[s] = heap[g[s]] /\ g[s] # slot
  BY DEF Vacated
<1>3. id \in 1 .. max - 1 /\ ids[id] = slot
  BY <1>1
<1>4. ASSUME NEW s \in 0 .. n - 1
      PROVE  /\ E[U[s]]._timer_id \in 1 .. max - 1 /\ new[E[U[s]]._timer_id] = s
             /\ E[U[s]]._timer_id # id /\ ids[E[U[s]]._timer_id] >= 0
  <2>1. PICK k \in 0 .. n : k = g[s] /\ k # slot /\ U[s] = heap[k]
    BY <1>2
  <2>2. E[heap[k]]._timer_id \in 1 .. max - 1 /\ ids[E[heap[k]]._timer_id] = k
    BY <1>1
  <2>3. E[U[s]]._timer_id \in 1 .. max - 1 /\ ids[E[U[s]]._timer_id] = k /\ k >= 0
    BY <2>1, <2>2
  <2>4. E[U[s]]._timer_id # id
    BY <1>3, <2>1, <2>3
  <2> QED
    BY <2>3, <2>4
<1>5. ASSUME NEW i \in 1 .. max - 1, i # id
      PROVE  \/ new[i] = ids[i] /\ ids[i] < 0
             \/ /\ ids[i] >= 0 /\ new[i] \in 0 .. n - 1 /\ E[U[new[i]]]._timer_id = i
  <2>1. CASE ids[i] >= 0
    <3>1. PICK k \in 0 .. n : k = ids[i] /\ E[heap[k]]._timer_id = i
      BY <1>1, <2>1
    <3>2. k # slot
      BY <1>5, <3>1
    <3>3. PICK s \in 0 .. n - 1 : g[s] = k
      BY <3>2 DEF Vacated
    <3>4. E[U[s]]._timer_id = i
      BY <1>2, <3>1, <3>3
    <3> QED
      BY <1>4, <2>1, <3>4
  <2>2. CASE ids[i] < 0
    <3>1. ASSUME NEW s \in 0 .. n - 1, i = E[U[s]]._timer_id
          PROVE  FALSE
      <4>1. ids[E[U[s]]._timer_id] >= 0
        BY <1>4
      <4>2. ids[i] >= 0
        BY <3>1, <4>1
      <4>3. ids[i] \in Int
        OBVIOUS
      <4> QED
        BY <2>2, <4>2, <4>3
    <3>2. i \in 0 .. max - 1
      OBVIOUS
    <3> QED
      BY <1>5, <2>2, <3>1, <3>2
  <2>3. ids[i] \in Int
    OBVIOUS
  <2> QED
    BY <2>1, <2>2, <2>3
<1>6. Indexed(U, new, E, n, max)
  <2>1. ASSUME NEW i \in 1 .. max - 1, new[i] >= 0
        PROVE  new[i] \in 0 .. n - 1 /\ E[U[new[i]]]._timer_id = i
    <3>1. i # id
      BY <1>3, <2>1
    <3> QED
      BY <1>5, <2>1, <3>1
  <2> QED
    BY <1>4, <2>1 DEF Indexed
<1>7. \A i \in 1 .. max - 1 : new[i] < 0 <=> ids[i] < 0 \/ i = id
  <2>1. ASSUME NEW i \in 1 .. max - 1
        PROVE  new[i] < 0 <=> ids[i] < 0 \/ i = id
    <3>1. CASE i = id
      BY <3>1
    <3>2. CASE i # id /\ new[i] = ids[i]
      BY <3>2
    <3>3. CASE i # id /\ ids[i] >= 0 /\ new[i] \in 0 .. n - 1
      BY <3>3
    <3> QED
      BY <1>5, <3>1, <3>2, <3>3
  <2> QED
    BY <2>1
<1>8. ASSUME NEW i \in 1 .. max - 1, ids[i] < 0
      PROVE  new[i] = ids[i]
  <2>1. ids[id] = slot /\ slot >= 0 /\ ids[i] \in Int /\ ids[id] \in Int
    BY <1>3
  <2>2. i # id
    BY <1>8, <2>1
  <2>3. ~(ids[i] >= 0)
    BY <1>8, <2>1
  <2> QED
    BY <1>5, <2>2, <2>3
<1>9. ASSUME NEW e
      PROVE  (\E s \in 0 .. n - 1 : e = U[s]) <=> (\E s \in 0 .. n : e = heap[s]) /\ e # heap[slot]
  <2>1. ASSUME NEW s \in 0 .. n - 1, e = U[s]
        PROVE  (\E k \in 0 .. n : e = heap[k]) /\ e # heap[slot]
    BY <1>2, <1>4, <2>1
  <2>2. ASSUME NEW k \in 0 .. n, e = heap[k], e # heap[slot]
        PROVE  \E s \in 0 .. n - 1 : e = U[s]
    <3>1. PICK s \in 0 .. n - 1 : g[s] = k
      BY <2>2 DEF Vacated
    <3> QED
      BY <1>2, <2>2, <3>1
  <2> QED
    BY <2>1, <2>2
<1> QED
  BY <1>3, <1>6, <1>7, <1>8, <1>9 DEF Reindexed

But(new, ids, max, id) ==
  \A i \in 0 .. max - 1 : i # id => new[i] = ids[i]

Pushed(r, h, id, cur, max) ==
  /\ r \in Heaps(cur, max) /\ r.heap = h.heap /\ r.timer_ids_freelist = id
  /\ r.timer_ids[id] = -h.timer_ids_freelist
  /\ But(r.timer_ids, h.timer_ids, max, id)

(* push_freelist changes the one id, and the head of the list.             *)
LEMMA PushIs ==
  ASSUME NEW cur, NEW max \in Nat, NEW h \in Heaps(cur, max), NEW id \in 0 .. max - 1,
         NEW r, r = push_freelist(h, id)
  PROVE  Pushed(r, h, id, cur, max)
<1>1. PICK ids : ids = [h.timer_ids EXCEPT ![id] = -h.timer_ids_freelist]
  OBVIOUS
<1>2. h.timer_ids \in [0 .. max - 1 -> Int] /\ h.timer_ids_freelist \in Int
  BY DEF Heaps
<1>3. /\ ids \in [0 .. max - 1 -> Int] /\ ids[id] = -h.timer_ids_freelist
      /\ \A i \in 0 .. max - 1 : i # id => ids[i] = h.timer_ids[i]
  BY <1>1, <1>2
<1>4. r = [h EXCEPT !.timer_ids = ids, !.timer_ids_freelist = id]
  BY <1>1 DEF push_freelist
<1>5. r \in Heaps(cur, max)
  <2>1. ids \in [0 .. max - 1 -> Int] /\ id \in Int
    BY <1>3
  <2> QED
    BY <1>4, <2>1 DEF Heaps
<1>6. r.heap = h.heap
  BY <1>4 DEF Heaps
<1>7. r.timer_ids = ids
  BY <1>4 DEF Heaps
<1>8. r.timer_ids_freelist = id
  BY <1>4 DEF Heaps
<1> QED
  BY <1>3, <1>5, <1>6, <1>7, <1>8 DEF Pushed, But

(* What the lemmas below assume of an index, and of a heap whose hole the  *)
(* last entry fills.                                                       *)
Known(heap, ids, E, n, max) ==
  \A s \in 0 .. n : E[heap[s]]._timer_id \in 1 .. max - 1 /\ ids[E[heap[s]]._timer_id] = s

(* What remove_node leaves: r is without the slot of the heap, knows where *)
(* every entry is, and has the id in front of the free list.               *)
Left(r, E, heap, ids, n, max, slot, id) ==
  \E U, g : /\ r \in Heaps(n, max) /\ r.heap = U
            /\ U \in [0 .. n - 1 -> Entries] /\ InOrder(U, E) /\ Vacated(g, U, heap, n, slot)
            /\ \A s \in 0 .. n - 1 : r.timer_ids[E[U[s]]._timer_id] = s
            /\ \A i \in 0 .. max - 1 : \/ i = id \/ r.timer_ids[i] = ids[i]
                                       \/ \E s \in 0 .. n - 1 : i = E[U[s]]._timer_id

Vacating(h, E, heap, ids, n, max, slot, id) ==
  /\ n \in Nat /\ max \in Nat /\ Timed(E) /\ heap \in [0 .. n -> Entries] /\ InOrder(heap, E)
  /\ Known(heap, ids, E, n, max) /\ slot \in 0 .. n /\ id = E[heap[slot]]._timer_id
  /\ h \in Heaps(n + 1, max) /\ h.heap = heap /\ But(h.timer_ids, ids, max, id)

LeftBy(r, h, E, heap, ids, n, max, slot, id) ==
  /\ Left(r, E, heap, ids, n, max, slot, id)
  /\ r.timer_ids_freelist = h.timer_ids_freelist /\ r.timer_ids[id] = h.timer_ids[id]

(* A removal from the middle: the last entry fills the hole and wanders.   *)
LEMMA MiddleLeft ==
  ASSUME NEW h, NEW E, NEW heap, NEW ids, NEW n, NEW max, NEW slot, NEW id,
         Vacating(h, E, heap, ids, n, max, slot, id), slot < n,
         NEW rest \in [0 .. n - 1 -> Entries], Moved(rest, heap, n, slot),
         NEW node, node = rest[slot], NEW U, U = Filled(rest, E, node, slot),
         NEW r, r = Copied(h, E, U, node)
  PROVE  LeftBy(r, h, E, heap, ids, n, max, slot, id)
<1> USE DEF Vacating
<1>1. slot \in 0 .. n - 1 /\ n + 1 \in Nat
  OBVIOUS
<1>2. Emptied(U, heap, E, n, slot)
  BY <1>1, VacatedIs
<1>3. U \in [0 .. n - 1 -> Entries] /\ InOrder(U, E)
  BY <1>2 DEF Emptied
<1>4. PICK g : Vacated(g, U, heap, n, slot)
  BY <1>2 DEF Emptied
<1>5. ids[id] = slot /\ id \in 0 .. max - 1
  <2>1. slot \in 0 .. n
    OBVIOUS
  <2> QED
    BY <2>1 DEF Known
<1>6. ASSUME NEW s \in 0 .. n - 1
      PROVE  /\ g[s] \in 0 .. n /\ g[s] # slot /\ U[s] = heap[g[s]]
             /\ E[U[s]]._timer_id \in 1 .. max - 1 /\ E[U[s]]._timer_id # id
             /\ ids[E[U[s]]._timer_id] = g[s]
  <2>1. g[s] \in 0 .. n /\ g[s] # slot /\ U[s] = heap[g[s]]
    BY <1>4 DEF Vacated
  <2>2. E[heap[g[s]]]._timer_id \in 1 .. max - 1 /\ ids[E[heap[g[s]]]._timer_id] = g[s]
    BY <2>1 DEF Known
  <2> QED
    BY <1>5, <2>1, <2>2
<1>7. Named(U, E, max)
  <2>1. DOMAIN U = 0 .. n - 1
    BY <1>3
  <2>2. ASSUME NEW s \in 0 .. n - 1, NEW k \in 0 .. n - 1, E[U[s]]._timer_id = E[U[k]]._timer_id
        PROVE  s = k
    <3>1. ids[E[U[s]]._timer_id] = g[s] /\ ids[E[U[k]]._timer_id] = g[k]
      BY <1>6
    <3>2. g[s] = g[k]
      BY <2>2, <3>1
    <3> QED
      BY <1>4, <3>2 DEF Vacated
  <2> QED
    BY <1>6, <2>1, <2>2 DEF Named
<1>8. Kept(h, E, U, n, n + 1, node)
  <2>1. ASSUME NEW s \in 0 .. n - 1, h.heap[s] = U[s]
        PROVE  h.timer_ids[E[U[s]]._timer_id] = s
    <3>1. s \in 0 .. n /\ heap[s] = U[s]
      BY <2>1
    <3>2. ids[E[U[s]]._timer_id] = s
      BY <3>1 DEF Known
    <3>3. E[U[s]]._timer_id \in 0 .. max - 1 /\ E[U[s]]._timer_id # id
      BY <1>6
    <3> QED
      BY <3>2, <3>3 DEF But
  <2> QED
    BY <2>1 DEF Kept
<1>9. Copies(r, h, E, U, n, max)
  BY <1>1, <1>3, <1>7, <1>8, CopiedIs
<1>10. r.timer_ids[id] = h.timer_ids[id]
  BY <1>5, <1>6, <1>9 DEF Copies
<1>11. /\ r \in Heaps(n, max) /\ r.heap = U
       /\ r.timer_ids_freelist = h.timer_ids_freelist
       /\ \A s \in 0 .. n - 1 : r.timer_ids[E[U[s]]._timer_id] = s
  BY <1>9 DEF Copies
<1>12. \A i \in 0 .. max - 1 : \/ i = id \/ r.timer_ids[i] = ids[i]
                               \/ \E s \in 0 .. n - 1 : i = E[U[s]]._timer_id
  BY <1>9 DEF Copies, But
<1>13. Left(r, E, heap, ids, n, max, slot, id)
  BY <1>3, <1>4, <1>11, <1>12 DEF Left
<1> QED
  BY <1>10, <1>11, <1>13 DEF LeftBy

(* A removal of the last entry.                                            *)
LEMMA LastLeft ==
  ASSUME NEW h, NEW E, NEW heap, NEW ids, NEW n, NEW max, NEW slot, NEW id,
         Vacating(h, E, heap, ids, n, max, slot, id), slot = n,
         NEW rest \in [0 .. n - 1 -> Entries], Moved(rest, heap, n, slot),
         NEW r, r = [h EXCEPT !.heap = rest, !.cur_size = n]
  PROVE  LeftBy(r, h, E, heap, ids, n, max, slot, id)
<1> USE DEF Vacating
<1>1. \A s \in 0 .. n - 1 : rest[s] = heap[s]
  BY DEF Moved
<1>2. r \in Heaps(n, max)
  BY DEF Heaps
<1>3. r.heap = rest
  BY DEF Heaps
<1>4. r.timer_ids = h.timer_ids
  BY DEF Heaps
<1>5. r.timer_ids_freelist = h.timer_ids_freelist
  BY DEF Heaps
<1>6. Emptied(rest, heap, E, n, n)
  BY <1>1, LastVacated
<1>7. ASSUME NEW s \in 0 .. n - 1
      PROVE  r.timer_ids[E[rest[s]]._timer_id] = s
  <2>1. s \in 0 .. n /\ n \in 0 .. n /\ s # n /\ rest[s] = heap[s]
    BY <1>1
  <2>2. /\ E[heap[s]]._timer_id \in 0 .. max - 1 /\ ids[E[heap[s]]._timer_id] = s
        /\ E[heap[s]]._timer_id # id
    BY <2>1 DEF Known
  <2> QED
    BY <1>4, <2>1, <2>2 DEF But
<1>8. \A i \in 0 .. max - 1 : i = id \/ r.timer_ids[i] = ids[i]
  BY <1>4 DEF But
<1> QED
  BY <1>2, <1>3, <1>4, <1>5, <1>6, <1>7, <1>8 DEF Left, Emptied, LeftBy

Entire(h, E, heap, ids, n, max) ==
  /\ n \in Nat /\ max \in Nat /\ Timed(E) /\ heap \in [0 .. n -> Entries] /\ InOrder(heap, E)
  /\ Known(heap, ids, E, n, max)
  /\ h \in Heaps(n + 1, max) /\ h.heap = heap /\ h.timer_ids = ids

(* remove_node, in either case.                                            *)
LEMMA LeftIs ==
  ASSUME NEW h, NEW E, NEW heap, NEW ids, NEW n, NEW max, NEW slot, NEW id,
         Entire(h, E, heap, ids, n, max), slot \in 0 .. n, id = E[heap[slot]]._timer_id,
         NEW r, r = remove_node(h, E, slot)
  PROVE  /\ Left(r, E, heap, ids, n, max, slot, id)
         /\ r.timer_ids_freelist = id /\ r.timer_ids[id] = -h.timer_ids_freelist
<1> USE DEF Entire
<1>1. id \in 0 .. max - 1
  BY DEF Known
<1>2. PICK h1 : h1 = push_freelist(h, id)
  OBVIOUS
<1>3. Pushed(h1, h, id, n + 1, max)
  BY <1>1, <1>2, PushIs
<1>4. Vacating(h1, E, heap, ids, n, max, slot, id)
  BY <1>3 DEF Pushed, Vacating
<1>5. PICK rest : rest = [s \in 0 .. n - 1 |-> IF s = slot THEN heap[n] ELSE heap[s]]
  OBVIOUS
<1>6. rest \in [0 .. n - 1 -> Entries] /\ Moved(rest, heap, n, slot)
  BY <1>5 DEF Moved
<1>7. r = IF slot < n THEN Copied(h1, E, Filled(rest, E, heap[n], slot), heap[n])
                      ELSE [h1 EXCEPT !.heap = rest, !.cur_size = n]
  <2>1. h.cur_size - 1 = n
    BY DEF Heaps
  <2> QED
    BY <1>2, <1>5, <2>1 DEF remove_node
<1>8. LeftBy(r, h1, E, heap, ids, n, max, slot, id)
  <2>1. CASE slot < n
    <3>1. PICK node, U : node = heap[n] /\ U = Filled(rest, E, node, slot)
      OBVIOUS
    <3>2. node = rest[slot]
      BY <1>6, <2>1, <3>1 DEF Moved
    <3>3. r = Copied(h1, E, U, node)
      BY <1>7, <2>1, <3>1
    <3> HIDE DEF Entire
    <3> QED
      BY <1>4, <1>6, <2>1, <3>1, <3>2, <3>3, MiddleLeft
  <2>2. CASE slot = n
    <3>1. r = [h1 EXCEPT !.heap = rest, !.cur_size = n]
      BY <1>7, <2>2
    <3> HIDE DEF Entire
    <3> QED
      BY <1>4, <1>6, <2>2, <3>1, LastLeft
  <2> QED
    BY <2>1, <2>2
<1> QED
  BY <1>3, <1>8 DEF LeftBy, Pushed

Shorter(r, E, heap, ids, n, max, slot, id) ==
  /\ Sound(r, E) /\ r.cur_size = n /\ r.max_size = max
  /\ id \in 1 .. max - 1 /\ ids[id] >= 0
  /\ \A i \in 1 .. max - 1 : r.timer_ids[i] < 0 <=> ids[i] < 0 \/ i = id
  /\ \A i \in 1 .. max - 1 : ids[i] < 0 => r.timer_ids[i] = ids[i]
  /\ In(r) = {heap[s] : s \in 0 .. n} \ {heap[slot]}

(* What remove_node leaves is a heap between calls again.                  *)
LEMMA LeftSound ==
  ASSUME NEW n \in Nat, NEW max \in Nat, NEW E,
         NEW heap \in [0 .. n -> Entries], NEW ids \in [0 .. max - 1 -> Int],
         Indexed(heap, ids, E, n + 1, max), NEW slot \in 0 .. n,
         NEW id, id = E[heap[slot]]._timer_id,
         NEW r, Left(r, E, heap, ids, n, max, slot, id), r.timer_ids[id] < 0
  PROVE  Shorter(r, E, heap, ids, n, max, slot, id)
<1>1. PICK U, g : /\ r \in Heaps(n, max) /\ r.heap = U
                  /\ U \in [0 .. n - 1 -> Entries] /\ InOrder(U, E) /\ Vacated(g, U, heap, n, slot)
                  /\ \A s \in 0 .. n - 1 : r.timer_ids[E[U[s]]._timer_id] = s
                  /\ \A i \in 0 .. max - 1 : \/ i = id \/ r.timer_ids[i] = ids[i]
                                             \/ \E s \in 0 .. n - 1 : i = E[U[s]]._timer_id
  BY DEF Left
<1>2. PICK new : new = r.timer_ids
  OBVIOUS
<1>3. new \in [0 .. max - 1 -> Int] /\ new[id] < 0 /\ r.cur_size = n /\ r.max_size = max
  BY <1>1, <1>2 DEF Heaps
<1>4. /\ \A s \in 0 .. n - 1 : new[E[U[s]]._timer_id] = s
      /\ \A i \in 0 .. max - 1 : \/ i = id \/ new[i] = ids[i]
                                 \/ \E s \in 0 .. n - 1 : i = E[U[s]]._timer_id
  BY <1>1, <1>2
<1>5. Reindexed(U, new, heap, ids, E, n, max, slot, id)
  <2>1. Shrunk(U, new, heap, ids, E, n, max, slot, id, g)
    BY <1>1, <1>3, <1>4 DEF Shrunk
  <2> QED
    BY <2>1, StillIndexed
<1>6. Sound(r, E)
  BY <1>1, <1>2, <1>3, <1>5 DEF Sound, Reindexed
<1>7. In(r) = {heap[s] : s \in 0 .. n} \ {heap[slot]}
  <2>1. DOMAIN r.heap = 0 .. n - 1
    BY <1>1
  <2>2. ASSUME NEW e
        PROVE  e \in In(r) <=> (\E s \in 0 .. n : e = heap[s]) /\ e # heap[slot]
    <3>1. r.heap = U
      BY <1>1
    <3>2. e \in In(r) <=> \E s \in 0 .. n - 1 : e = U[s]
      BY <2>1, <3>1 DEF In
    <3> QED
      BY <1>5, <3>2 DEF Reindexed
  <2>3. \A e : e \in In(r) <=> (\E s \in 0 .. n : e = heap[s]) /\ e # heap[slot]
    BY <2>2
  <2> QED
    BY <2>3
<1>8. /\ id \in 1 .. max - 1 /\ ids[id] >= 0
      /\ \A i \in 1 .. max - 1 : new[i] < 0 <=> ids[i] < 0 \/ i = id
      /\ \A i \in 1 .. max - 1 : ids[i] < 0 => new[i] = ids[i]
  BY <1>5 DEF Reindexed
<1> QED
  BY <1>2, <1>3, <1>6, <1>7, <1>8 DEF Shorter

(* remove_node takes the entry of the slot out of a sound heap, leaves a   *)
(* sound heap of the others, and frees its id alone.                       *)
LEMMA RemoveIs ==
  ASSUME NEW E, Timed(E), NEW h, Sound(h, E), NEW slot \in 0 .. h.cur_size - 1,
         h.timer_ids_freelist > 0, NEW id, id = E[h.heap[slot]]._timer_id,
         NEW r, r = remove_node(h, E, slot)
  PROVE  /\ Sound(r, E) /\ r.cur_size = h.cur_size - 1 /\ r.max_size = h.max_size
         /\ id \in 1 .. h.max_size - 1 /\ h.timer_ids[id] >= 0
         /\ r.timer_ids_freelist = id /\ r.timer_ids[id] = -h.timer_ids_freelist
         /\ \A i \in 1 .. h.max_size - 1 : r.timer_ids[i] < 0 <=> h.timer_ids[i] < 0 \/ i = id
         /\ \A i \in 1 .. h.max_size - 1 : h.timer_ids[i] < 0 => r.timer_ids[i] = h.timer_ids[i]
         /\ In(r) = In(h) \ {h.heap[slot]}
<1>1. PICK n, m, max, heap, ids, fl :
        /\ m = h.cur_size /\ n = m - 1 /\ max = h.max_size /\ heap = h.heap
        /\ ids = h.timer_ids /\ fl = h.timer_ids_freelist
  OBVIOUS
<1>2. /\ n \in Nat /\ m \in Nat /\ m = n + 1 /\ max \in Nat /\ slot \in 0 .. n
  <2>1. m \in Nat /\ max \in Nat /\ slot \in 0 .. m - 1
    BY <1>1 DEF Sound
  <2> QED
    BY <1>1, <2>1
<1>3. h \in Heaps(m, max) /\ Indexed(heap, ids, E, m, max) /\ InOrder(heap, E)
  BY <1>1 DEF Sound
<1>4. heap \in [0 .. n -> Entries] /\ ids \in [0 .. max - 1 -> Int] /\ fl \in Nat \ {0}
  <2>1. h.heap \in [0 .. m - 1 -> Entries] /\ h.timer_ids \in [0 .. max - 1 -> Int]
        /\ h.timer_ids_freelist \in Int
    BY <1>3 DEF Heaps
  <2>2. m - 1 = n
    BY <1>2
  <2> QED
    BY <1>1, <2>1, <2>2
<1>5. Known(heap, ids, E, n, max)
  <2>1. m - 1 = n
    BY <1>2
  <2> QED
    BY <1>3, <2>1 DEF Indexed, Known
<1>6. id = E[heap[slot]]._timer_id /\ id \in 1 .. max - 1 /\ id \in 0 .. max - 1 /\ ids[id] = slot
  <2>1. id = E[heap[slot]]._timer_id
    BY <1>1
  <2> QED
    BY <1>2, <1>5, <2>1 DEF Known
<1>7. /\ Left(r, E, heap, ids, n, max, slot, id)
      /\ r.timer_ids_freelist = id /\ r.timer_ids[id] = -h.timer_ids_freelist
  <2>1. Entire(h, E, heap, ids, n, max)
    BY <1>1, <1>2, <1>3, <1>4, <1>5 DEF Entire
  <2> QED
    BY <1>2, <1>6, <2>1, LeftIs
<1>8. Shorter(r, E, heap, ids, n, max, slot, id)
  <2>1. r.timer_ids[id] < 0
    BY <1>1, <1>4, <1>7
  <2>2. Indexed(heap, ids, E, n + 1, max)
    BY <1>2, <1>3
  <2> QED
    BY <1>2, <1>4, <1>6, <1>7, <2>1, <2>2, LeftSound
<1>9. In(r) = In(h) \ {h.heap[slot]}
  <2>1. DOMAIN h.heap = 0 .. n
    BY <1>1, <1>4
  <2> QED
    BY <1>1, <1>8, <2>1 DEF In, Shorter
<1> QED
  BY <1>1, <1>7, <1>8, <1>9 DEF Shorter

(* What remove_node and insert_node look at in E.                          *)
LEMMA SoundSame ==
  ASSUME NEW h, NEW E, NEW F, Sound(h, E),
         \A e \in In(h) : F[e]._timer_id = E[e]._timer_id /\ F[e]._timer_value = E[e]._timer_value
  PROVE  Sound(h, F)
<1>1. PICK n, max, heap, ids : n = h.cur_size /\ max = h.max_size /\ heap = h.heap /\ ids = h.timer_ids
  OBVIOUS
<1>2. /\ n \in Nat /\ max \in Nat /\ h \in Heaps(n, max) /\ Indexed(heap, ids, E, n, max)
      /\ InOrder(heap, E) /\ heap \in [0 .. n - 1 -> Entries]
  BY <1>1 DEF Sound, Heaps
<1>3. ASSUME NEW s \in 0 .. n - 1
      PROVE  /\ F[heap[s]]._timer_id = E[heap[s]]._timer_id
             /\ F[heap[s]]._timer_value = E[heap[s]]._timer_value
  <2>1. heap[s] \in In(h)
    BY <1>1, <1>2 DEF In
  <2> QED
    BY <2>1
<1>4. Indexed(heap, ids, F, n, max)
  BY <1>2, <1>3 DEF Indexed
<1>5. InOrder(heap, F)
  <2>1. \A s \in 0 .. n - 1 : HEAP_PARENT(s) \in 0 .. n - 1
    BY <1>2, ParentIn
  <2>2. DOMAIN heap = 0 .. n - 1
    BY <1>2
  <2> QED
    BY <1>2, <1>3, <2>1, <2>2 DEF InOrder, GTE, LT
<1> QED
  BY <1>1, <1>2, <1>4, <1>5 DEF Sound

(* The array grows.                                                        *)
Grown(r, h, max, max1) ==
  /\ r \in Heaps(h.cur_size, max1) /\ r.heap = h.heap /\ r.timer_ids_freelist = h.timer_ids_freelist
  /\ max1 = max \/ max1 = 2 * max
  /\ \A i \in 0 .. max - 1 : r.timer_ids[i] = h.timer_ids[i]
  /\ \A i \in max .. max1 - 1 : r.timer_ids[i] = -(i + 1)

(* grow_heap keeps the ids there were and chains the new ones.             *)
LEMMA GrowIs ==
  ASSUME NEW n \in Nat, NEW max \in Nat, NEW h \in Heaps(n, max), NEW r, r = grow_heap(h)
  PROVE  Grown(r, h, max, 2 * max)
<1>1. PICK ids, m : /\ m = 2 * max
                    /\ ids = [i \in 0 .. m - 1 |-> IF i \in 0 .. max - 1 THEN h.timer_ids[i] ELSE -(i + 1)]
  OBVIOUS
<1>2. h.max_size = max /\ h.timer_ids \in [0 .. max - 1 -> Int] /\ h.cur_size = n
  BY DEF Heaps
<1>3. r = [h EXCEPT !.max_size = m, !.timer_ids = ids]
  <2>1. DOMAIN h.timer_ids = 0 .. max - 1
    BY <1>2
  <2> QED
    BY <1>1, <1>2, <2>1 DEF grow_heap
<1>4. /\ m \in Nat /\ ids \in [0 .. m - 1 -> Int]
      /\ \A i \in 0 .. max - 1 : ids[i] = h.timer_ids[i]
      /\ \A i \in max .. m - 1 : ids[i] = -(i + 1)
  <2>1. m \in Nat /\ \A i \in 0 .. max - 1 : i \in 0 .. m - 1
    BY <1>1
  <2>2. \A i \in 0 .. m - 1 : ids[i] = IF i \in 0 .. max - 1 THEN h.timer_ids[i] ELSE -(i + 1)
    BY <1>1
  <2>3. \A i \in max .. m - 1 : i \in 0 .. m - 1 /\ i \notin 0 .. max - 1
    BY <2>1
  <2>4. \A i \in 0 .. m - 1 : ids[i] \in Int
    BY <1>2, <2>2
  <2>5. ids \in [0 .. m - 1 -> Int]
    BY <1>1, <2>4
  <2> QED
    BY <2>1, <2>2, <2>3, <2>5
<1>5. r \in Heaps(n, m)
  BY <1>3, <1>4 DEF Heaps
<1>6. r.heap = h.heap
  BY <1>3 DEF Heaps
<1>7. r.timer_ids = ids
  BY <1>3 DEF Heaps
<1>8. r.timer_ids_freelist = h.timer_ids_freelist
  BY <1>3 DEF Heaps
<1> QED
  BY <1>1, <1>2, <1>4, <1>5, <1>6, <1>7, <1>8 DEF Grown

(* A heap that grew is sound.                                              *)
LEMMA GrownSound ==
  ASSUME NEW E, NEW h, Sound(h, E), NEW max, max = h.max_size, NEW r, NEW max1, Grown(r, h, max, max1)
  PROVE  Sound(r, E) /\ r.cur_size = h.cur_size /\ r.max_size = max1
<1>1. PICK n, heap, ids, new : n = h.cur_size /\ heap = h.heap /\ ids = h.timer_ids /\ new = r.timer_ids
  OBVIOUS
<1>2. n \in Nat /\ max \in Nat /\ Indexed(heap, ids, E, n, max) /\ InOrder(heap, E)
  BY <1>1 DEF Sound
<1>3. /\ r \in Heaps(n, max1) /\ r.heap = heap /\ (max1 = max \/ max1 = 2 * max)
      /\ \A i \in 0 .. max - 1 : new[i] = ids[i]
      /\ \A i \in max .. max1 - 1 : new[i] = -(i + 1)
  BY <1>1 DEF Grown
<1>4. max1 \in Nat /\ max <= max1
  BY <1>2, <1>3
<1>5. Indexed(heap, new, E, n, max1)
  <2>1. ASSUME NEW s \in 0 .. n - 1
        PROVE  E[heap[s]]._timer_id \in 1 .. max1 - 1 /\ new[E[heap[s]]._timer_id] = s
    <3>1. E[heap[s]]._timer_id \in 1 .. max - 1 /\ ids[E[heap[s]]._timer_id] = s
      BY <1>2 DEF Indexed
    <3>2. PICK k : k = E[heap[s]]._timer_id
      OBVIOUS
    <3>3. k \in 1 .. max1 - 1 /\ k \in 0 .. max - 1
      BY <1>2, <1>4, <3>1, <3>2
    <3>4. new[k] = ids[k]
      BY <1>3, <3>3
    <3> QED
      BY <3>1, <3>2, <3>3, <3>4
  <2>2. ASSUME NEW i \in 1 .. max1 - 1, new[i] >= 0
        PROVE  new[i] \in 0 .. n - 1 /\ E[heap[new[i]]]._timer_id = i
    <3>1. i \in 1 .. max - 1
      BY <1>2, <1>3, <1>4, <2>2
    <3>2. new[i] = ids[i]
      BY <1>3, <3>1
    <3> QED
      BY <1>2, <2>2, <3>1, <3>2 DEF Indexed
  <2> QED
    BY <2>1, <2>2 DEF Indexed
<1>6. r.cur_size = n /\ r.max_size = max1
  BY <1>3 DEF Heaps
<1> QED
  BY <1>1, <1>2, <1>3, <1>4, <1>5, <1>6 DEF Sound

(* The node at the end of the heap, where it may be out of order.          *)
Appended(longer, heap, n, node) ==
  /\ longer \in [0 .. n -> Entries] /\ longer[n] = node
  /\ \A s \in 0 .. n - 1 : longer[s] = heap[s]

(* A heap with an entry added at its end is in order once the entry has    *)
(* climbed.                                                                *)
LEMMA RaisedIs ==
  ASSUME NEW n \in Nat, NEW heap \in [0 .. n - 1 -> Entries], NEW E, Timed(E), InOrder(heap, E),
         NEW node \in Entries, NEW longer, Appended(longer, heap, n, node),
         NEW U, U = reheap_up(longer, E, node, n)
  PROVE  InOrder(U, E) /\ U \in [0 .. n -> Entries] /\ Shuffled(U, longer, 0 .. n)
<1>1. PICK m : m = n + 1 /\ m \in Nat /\ n \in 0 .. m - 1 /\ m - 1 = n
  OBVIOUS
<1>2. /\ longer \in [0 .. m - 1 -> Entries] /\ node = longer[n]
      /\ \A s \in 0 .. n - 1 : longer[s] = heap[s]
  BY <1>1 DEF Appended
<1>3. PICK p, way, place : /\ Rearranged(U, p, longer, node, n)
                           /\ Climbed(U, way, place, longer, E, node, n)
  BY <1>1, <1>2, Climbs
<1>4. U \in [0 .. m - 1 -> Entries] /\ Shuffled(U, longer, 0 .. m - 1)
  BY <1>1, <1>2, <1>3, RearrangedKeeps
<1>5. ASSUME NEW s \in 0 .. m - 1
      PROVE  HEAP_PARENT(s) # n \/ s = n
  <2>1. s \in Nat
    OBVIOUS
  <2> QED
    BY <1>1, <2>1, ParentIs DEF HEAP_PARENT
<1>6. OrderedBut(longer, E, n)
  <2>1. DOMAIN longer = 0 .. m - 1 /\ DOMAIN heap = 0 .. n - 1
    BY <1>2
  <2>2. ASSUME NEW s \in 0 .. m - 1, s # n, HEAP_PARENT(s) # n
        PROVE  GTE(E, longer[s], longer[HEAP_PARENT(s)])
    <3>1. s \in 0 .. n - 1 /\ HEAP_PARENT(s) \in 0 .. n - 1
      BY <1>1, <2>2, ParentIn
    <3>2. GTE(E, heap[s], heap[HEAP_PARENT(s)])
      BY <2>1, <3>1 DEF InOrder
    <3> QED
      BY <1>2, <3>1, <3>2
  <2> QED
    BY <1>5, <2>1, <2>2 DEF OrderedBut
<1>7. InOrder(U, E)
  BY <1>1, <1>2, <1>3, <1>4, <1>5, <1>6, ClimbOrdered
<1> QED
  BY <1>1, <1>4, <1>7

(* The index and the heap with the node that has the free id.              *)
Longer(r, h, E, n, max, node, id) ==
  /\ Sound(r, E) /\ r.cur_size = n + 1 /\ r.max_size = max
  /\ r.timer_ids_freelist = h.timer_ids_freelist
  /\ \A i \in 1 .. max - 1 : r.timer_ids[i] < 0 <=> h.timer_ids[i] < 0 /\ i # id
  /\ \A i \in 1 .. max - 1 : h.timer_ids[i] < 0 /\ i # id => r.timer_ids[i] = h.timer_ids[i]
  /\ In(r) = In(h) \cup {node}

(* What may have become of the value x of the id i, when the id named id   *)
(* is taken, and what the signs then tell.                                 *)
Renewed(x, y, i, id) ==
  \/ x < 0 /\ i # id /\ y = x
  \/ (x >= 0 \/ i = id) /\ y \in Nat

StillFree(x, y, i, id) ==
  (y < 0 <=> x < 0 /\ i # id) /\ (x < 0 /\ i # id => y = x)

(* An id that names a slot is not a free one.                              *)
LEMMA IdSign ==
  ASSUME NEW x, x \in Int, NEW y, NEW i, NEW id, Renewed(x, y, i, id)
  PROVE  StillFree(x, y, i, id)
<1>1. CASE x < 0 /\ i # id /\ y = x
  BY <1>1 DEF StillFree
<1>2. CASE (x >= 0 \/ i = id) /\ y \in Nat
  <2>1. ~(y < 0)
    BY <1>2
  <2>2. ~(x < 0 /\ i # id)
    BY <1>2
  <2> QED
    BY <2>1, <2>2 DEF StillFree
<1> QED
  BY <1>1, <1>2 DEF Renewed

(* An insertion without growth: the id is the entry's, and no other        *)
(* changes.                                                                *)
LEMMA LongerIs ==
  ASSUME NEW E, Timed(E), NEW n \in Nat, NEW max \in Nat, NEW h \in Heaps(n, max),
         Indexed(h.heap, h.timer_ids, E, n, max), InOrder(h.heap, E),
         NEW node \in Entries, NEW id \in 1 .. max - 1, id = E[node]._timer_id,
         h.timer_ids[id] < 0,
         NEW longer, Appended(longer, h.heap, n, node),
         NEW r, r = Copied(h, E, reheap_up(longer, E, node, n), node)
  PROVE  Longer(r, h, E, n, max, node, id)
<1>1. PICK heap, ids, m, new : heap = h.heap /\ ids = h.timer_ids /\ m = n + 1 /\ new = r.timer_ids
  OBVIOUS
<1>2. /\ heap \in [0 .. n - 1 -> Entries] /\ ids \in [0 .. max - 1 -> Int]
      /\ m \in Nat /\ m - 1 = n
      /\ Indexed(heap, ids, E, n, max) /\ Appended(longer, heap, n, node) /\ ids[id] < 0
  BY <1>1 DEF Heaps
<1>3. PICK U : U = reheap_up(longer, E, node, n)
  OBVIOUS
<1>4. InOrder(U, E) /\ U \in [0 .. n -> Entries] /\ Shuffled(U, longer, 0 .. n)
  BY <1>1, <1>2, <1>3, RaisedIs
<1>5. PICK p \in [0 .. n -> 0 .. n] : Permutes(p, 0 .. n) /\ \A i \in 0 .. n : U[i] = longer[p[i]]
  BY <1>4 DEF Shuffled
<1>6. ASSUME NEW s \in 0 .. n
      PROVE  /\ E[longer[s]]._timer_id \in 1 .. max - 1
             /\ s < n => ids[E[longer[s]]._timer_id] = s /\ E[longer[s]]._timer_id # id
             /\ s = n => E[longer[s]]._timer_id = id
  <2>1. CASE s < n
    <3>1. E[heap[s]]._timer_id \in 1 .. max - 1 /\ ids[E[heap[s]]._timer_id] = s
      <4>1. s \in 0 .. n - 1
        BY <2>1
      <4> QED
        BY <1>2, <4>1 DEF Indexed
    <3>2. longer[s] = heap[s]
      BY <1>2, <2>1 DEF Appended
    <3>3. E[heap[s]]._timer_id # id
      <4>1. PICK key : key = E[heap[s]]._timer_id
        OBVIOUS
      <4>2. ids[key] = s /\ s >= 0 /\ s \in Int
        BY <3>1, <4>1
      <4>3. key # id
        <5>1. PICK x, y : x = ids[id] /\ y = ids[key]
          OBVIOUS
        <5>2. x < 0 /\ y = s
          BY <1>2, <4>2, <5>1
        <5>3. ~(s < 0)
          OBVIOUS
        <5> QED
          BY <5>1, <5>2, <5>3
      <4> QED
        BY <4>1, <4>3
    <3> QED
      BY <2>1, <3>1, <3>2, <3>3
  <2>2. CASE s = n
    BY <1>2, <2>2 DEF Appended
  <2> QED
    BY <2>1, <2>2
<1>7. ASSUME NEW s \in 0 .. n, NEW k \in 0 .. n, E[longer[s]]._timer_id = E[longer[k]]._timer_id
      PROVE  s = k
  <2>1. PICK x, y : x = E[longer[s]]._timer_id /\ y = E[longer[k]]._timer_id
    OBVIOUS
  <2>2. (s < n => ids[x] = s /\ x # id) /\ (s = n => x = id)
    BY <1>6, <2>1
  <2>3. (k < n => ids[y] = k /\ y # id) /\ (k = n => y = id)
    BY <1>6, <2>1
  <2>4. x = y
    BY <1>7, <2>1
  <2> QED
    BY <2>2, <2>3, <2>4
<1>8. Named(U, E, max)
  <2>1. DOMAIN U = 0 .. n
    BY <1>4
  <2>2. ASSUME NEW s \in 0 .. n, NEW k \in 0 .. n, E[U[s]]._timer_id = E[U[k]]._timer_id
        PROVE  s = k
    <3>1. PICK i \in 0 .. n : i = p[s] /\ U[s] = longer[i]
      BY <1>5
    <3>2. PICK j \in 0 .. n : j = p[k] /\ U[k] = longer[j]
      BY <1>5
    <3>3. i = j
      <4>1. E[longer[i]]._timer_id = E[longer[j]]._timer_id
        BY <2>2, <3>1, <3>2
      <4> QED
        BY <1>7, <4>1
    <3>4. p[s] = p[k]
      BY <3>1, <3>2, <3>3
    <3> QED
      BY <1>5, <3>4 DEF Permutes
  <2>3. \A s \in 0 .. n : E[U[s]]._timer_id \in 1 .. max - 1
    BY <1>5, <1>6
  <2> QED
    BY <2>1, <2>2, <2>3 DEF Named
<1>9. Kept(h, E, U, m, n, node)
  <2>1. ASSUME NEW s \in 0 .. m - 1, s < n, h.heap[s] = U[s]
        PROVE  h.timer_ids[E[U[s]]._timer_id] = s
    <3>1. s \in 0 .. n - 1
      BY <1>2, <2>1
    <3> QED
      BY <2>1, <3>1 DEF Indexed
  <2> QED
    BY <2>1 DEF Kept
<1>10. Copies(r, h, E, U, m, max)
  <2>1. U \in [0 .. m - 1 -> Entries]
    BY <1>2, <1>4
  <2> QED
    BY <1>2, <1>3, <1>8, <1>9, <2>1, CopiedIs
<1>11. /\ r \in Heaps(m, max) /\ r.heap = U
       /\ r.timer_ids_freelist = h.timer_ids_freelist
       /\ \A s \in 0 .. n : new[E[U[s]]._timer_id] = s
       /\ \A i \in 0 .. max - 1 : \/ new[i] = ids[i]
                                  \/ \E s \in 0 .. n : i = E[U[s]]._timer_id
  BY <1>1, <1>2, <1>10 DEF Copies
<1>12. ASSUME NEW s \in 0 .. n
       PROVE  \E k \in 0 .. n : U[k] = longer[s]
  <2>1. PICK k \in 0 .. n : p[k] = s
    BY <1>5 DEF Permutes
  <2> QED
    BY <1>5, <2>1
<1>13. ASSUME NEW i \in 1 .. max - 1
       PROVE  \/ ids[i] < 0 /\ i # id /\ new[i] = ids[i]
              \/ /\ ids[i] >= 0 \/ i = id
                 /\ \E k \in 0 .. n : new[i] = k /\ E[U[k]]._timer_id = i
  <2>1. CASE i = id
    <3>1. longer[n] = node /\ n \in 0 .. n
      BY <1>2 DEF Appended
    <3>2. PICK k \in 0 .. n : U[k] = node
      BY <1>12, <3>1
    <3> QED
      BY <1>11, <2>1, <3>2
  <2>2. CASE ids[i] >= 0 /\ i # id
    <3>1. PICK s \in 0 .. n - 1 : s = ids[i] /\ E[heap[s]]._timer_id = i
      BY <1>2, <2>2 DEF Indexed
    <3>2. s \in 0 .. n /\ longer[s] = heap[s]
      BY <1>2, <3>1 DEF Appended
    <3>3. PICK k \in 0 .. n : U[k] = longer[s]
      BY <1>12, <3>2
    <3> QED
      <4>1. new[E[U[k]]._timer_id] = k
        BY <1>11
      <4>2. E[U[k]]._timer_id = i
        BY <3>1, <3>2, <3>3
      <4> QED
        BY <2>2, <4>1, <4>2
  <2>3. CASE ids[i] < 0 /\ i # id
    <3>1. ASSUME NEW s \in 0 .. n, i = E[U[s]]._timer_id
          PROVE  FALSE
      <4>1. PICK k \in 0 .. n : k = p[s] /\ U[s] = longer[k]
        BY <1>5
      <4>2. k < n \/ k = n
        BY <4>1
      <4>3. ids[i] = k \/ i = id
        <5>1. i = E[longer[k]]._timer_id
          BY <3>1, <4>1
        <5> QED
          BY <1>6, <4>2, <5>1
      <4>4. k >= 0 /\ k \in Int
        OBVIOUS
      <4>5. ids[i] # k
        BY <2>3, <4>4
      <4> QED
        BY <2>3, <4>3, <4>5
    <3> QED
      <4>1. new[i] = ids[i]
        BY <1>11, <3>1
      <4> QED
        BY <2>3, <4>1
  <2>4. i = id \/ (ids[i] >= 0 /\ i # id) \/ (ids[i] < 0 /\ i # id)
    <3>1. ids[i] \in Int
      BY <1>2
    <3> QED
      BY <3>1
  <2> QED
    BY <2>1, <2>2, <2>3, <2>4
<1>14. Sound(r, E)
  <2>1. r.cur_size = m /\ r.max_size = max
    BY <1>11 DEF Heaps
  <2>2. Indexed(U, new, E, m, max)
    <3>1. ASSUME NEW s \in 0 .. n
          PROVE  E[U[s]]._timer_id \in 1 .. max - 1 /\ new[E[U[s]]._timer_id] = s
      <4>1. PICK k \in 0 .. n : U[s] = longer[k]
        BY <1>5
      <4>2. E[longer[k]]._timer_id \in 1 .. max - 1
        BY <1>6
      <4> QED
        BY <1>11, <4>1, <4>2
    <3>2. ASSUME NEW i \in 1 .. max - 1, new[i] >= 0
          PROVE  new[i] \in 0 .. n /\ E[U[new[i]]]._timer_id = i
      <4>1. ids[i] \in Int /\ new[i] \in Int
        BY <1>2, <1>13
      <4>2. CASE ids[i] < 0 /\ i # id /\ new[i] = ids[i]
        BY <3>2, <4>1, <4>2
      <4>3. CASE \E k \in 0 .. n : new[i] = k /\ E[U[k]]._timer_id = i
        BY <4>3
      <4> QED
        BY <1>13, <4>2, <4>3
    <3> QED
      BY <1>2, <3>1, <3>2 DEF Indexed
  <2> QED
    BY <1>1, <1>2, <1>4, <1>11, <2>1, <2>2 DEF Sound
<1>15. In(r) = In(h) \cup {node}
  <2>1. DOMAIN U = 0 .. n /\ DOMAIN h.heap = 0 .. n - 1
    BY <1>1, <1>2, <1>4
  <2>2. ASSUME NEW e
        PROVE  (\E s \in 0 .. n : e = U[s]) <=> (\E s \in 0 .. n - 1 : e = heap[s]) \/ e = node
    <3>1. ASSUME NEW s \in 0 .. n, e = U[s]
          PROVE  (\E k \in 0 .. n - 1 : e = heap[k]) \/ e = node
      <4>1. PICK k \in 0 .. n : k = p[s] /\ U[s] = longer[k]
        BY <1>5
      <4>2. k \in 0 .. n - 1 \/ k = n
        BY <4>1
      <4> QED
        BY <1>2, <3>1, <4>1, <4>2 DEF Appended
    <3>2. ASSUME NEW k \in 0 .. n - 1, e = heap[k]
          PROVE  \E s \in 0 .. n : e = U[s]
      <4>1. k \in 0 .. n /\ longer[k] = heap[k]
        BY <1>2 DEF Appended
      <4> QED
        BY <1>12, <3>2, <4>1
    <3>3. \E s \in 0 .. n : node = U[s]
      <4>1. n \in 0 .. n /\ longer[n] = node
        BY <1>2 DEF Appended
      <4> QED
        BY <1>12, <4>1
    <3> QED
      BY <3>1, <3>2, <3>3
  <2> QED
    <3>1. \A e : e \in In(r) <=> \E s \in 0 .. n : e = U[s]
      BY <1>11, <2>1 DEF In
    <3>2. \A e : e \in In(h) <=> \E s \in 0 .. n - 1 : e = heap[s]
      BY <1>1, <2>1 DEF In
    <3> QED
      BY <2>2, <3>1, <3>2
<1>16. /\ \A i \in 1 .. max - 1 : new[i] < 0 <=> ids[i] < 0 /\ i # id
       /\ \A i \in 1 .. max - 1 : ids[i] < 0 /\ i # id => new[i] = ids[i]
  <2>1. ASSUME NEW i \in 1 .. max - 1
        PROVE  /\ new[i] < 0 <=> ids[i] < 0 /\ i # id
               /\ ids[i] < 0 /\ i # id => new[i] = ids[i]
    <3>1. PICK x, y : x = ids[i] /\ y = new[i]
      OBVIOUS
    <3>2. x \in Int
      BY <1>2, <3>1
    <3>3. Renewed(x, y, i, id)
      <4>1. CASE ids[i] < 0 /\ i # id /\ new[i] = ids[i]
        BY <3>1, <4>1 DEF Renewed
      <4>2. CASE (ids[i] >= 0 \/ i = id) /\ \E k \in 0 .. n : new[i] = k
        <5>1. new[i] \in Nat
          BY <4>2
        <5> QED
          BY <3>1, <4>2, <5>1 DEF Renewed
      <4> QED
        BY <1>13, <4>1, <4>2
    <3>4. StillFree(x, y, i, id)
      BY <3>2, <3>3, IdSign
    <3> QED
      BY <3>1, <3>4 DEF StillFree
  <2> QED
    BY <2>1
<1>17. r.cur_size = n + 1 /\ r.max_size = max
  BY <1>1, <1>11 DEF Heaps
<1> QED
  BY <1>1, <1>11, <1>14, <1>15, <1>16, <1>17 DEF Longer

Inserted(r, h, E, node, id) ==
  /\ Sound(r, E) /\ r.cur_size = h.cur_size + 1
  /\ r.max_size = h.max_size \/ r.max_size = 2 * h.max_size
  /\ r.timer_ids_freelist = h.timer_ids_freelist
  /\ \A i \in 1 .. h.max_size - 1 : r.timer_ids[i] < 0 <=> h.timer_ids[i] < 0 /\ i # id
  /\ \A i \in 1 .. h.max_size - 1 : h.timer_ids[i] < 0 /\ i # id => r.timer_ids[i] = h.timer_ids[i]
  /\ \A i \in h.max_size .. r.max_size - 1 : r.timer_ids[i] = -(i + 1)
  /\ In(r) = In(h) \cup {node}

(* insert_node puts an entry with a free id into a sound heap and leaves a *)
(* sound heap, which may have grown.                                       *)
LEMMA InsertIs ==
  ASSUME NEW E, Timed(E), NEW h, Sound(h, E), NEW node \in Entries,
         NEW id \in 1 .. h.max_size - 1, id = E[node]._timer_id, h.timer_ids[id] < 0,
         NEW r, r = insert_node(h, E, node)
  PROVE  Inserted(r, h, E, node, id)
<1>1. PICK n, max : n = h.cur_size /\ max = h.max_size
  OBVIOUS
<1>2. n \in Nat /\ max \in Nat /\ h \in Heaps(n, max) /\ id \in 1 .. max - 1
  BY <1>1 DEF Sound
<1>3. PICK h1 : h1 = IF h.cur_size + 2 >= h.max_size THEN grow_heap(h) ELSE h
  OBVIOUS
<1>4. PICK max1 : Grown(h1, h, max, max1)
  <2>1. CASE h1 = grow_heap(h)
    BY <1>2, <2>1, GrowIs
  <2>2. CASE h1 = h
    <3>1. \A i \in max .. max - 1 : h1.timer_ids[i] = -(i + 1)
      BY <1>2
    <3> QED
      BY <1>1, <1>2, <2>2, <3>1 DEF Grown
  <2> QED
    BY <1>3, <2>1, <2>2
<1>5. Sound(h1, E) /\ h1.cur_size = n /\ h1.max_size = max1
  BY <1>1, <1>4, GrownSound
<1>6. /\ max1 = max \/ max1 = 2 * max
      /\ h1.heap = h.heap /\ h1.timer_ids_freelist = h.timer_ids_freelist
      /\ \A i \in 0 .. max - 1 : h1.timer_ids[i] = h.timer_ids[i]
      /\ \A i \in max .. max1 - 1 : h1.timer_ids[i] = -(i + 1)
  BY <1>4 DEF Grown
<1>7. max1 \in Nat /\ max <= max1
  BY <1>2, <1>6
<1>8. /\ h1 \in Heaps(n, max1) /\ Indexed(h1.heap, h1.timer_ids, E, n, max1)
      /\ InOrder(h1.heap, E)
  BY <1>5 DEF Sound
<1>9. PICK longer : longer = [s \in 0 .. h.cur_size |-> IF s < h.cur_size THEN h.heap[s] ELSE node]
  OBVIOUS
<1>10. Appended(longer, h1.heap, n, node)
  <2>1. h.heap \in [0 .. n - 1 -> Entries]
    BY <1>2 DEF Heaps
  <2>2. longer = [s \in 0 .. n |-> IF s < n THEN h.heap[s] ELSE node]
    BY <1>1, <1>9
  <2>3. n \in 0 .. n /\ ~(n < n)
    BY <1>2
  <2>4. longer[n] = node
    BY <2>2, <2>3
  <2>5. ASSUME NEW s \in 0 .. n - 1
        PROVE  longer[s] = h.heap[s]
    <3>1. s \in 0 .. n /\ s < n
      BY <1>2
    <3> QED
      BY <2>2, <3>1
  <2>6. \A s \in 0 .. n : longer[s] \in Entries
    BY <1>2, <2>1, <2>2
  <2>7. longer \in [0 .. n -> Entries]
    BY <2>2, <2>6
  <2> QED
    BY <1>6, <2>4, <2>5, <2>7 DEF Appended
<1>11. r = Copied(h1, E, reheap_up(longer, E, node, n), node)
  BY <1>1, <1>3, <1>9 DEF insert_node
<1>12. id \in 1 .. max1 - 1 /\ h1.timer_ids[id] < 0
  BY <1>2, <1>6, <1>7
<1>13. Longer(r, h1, E, n, max1, node, id)
  BY <1>2, <1>7, <1>8, <1>10, <1>11, <1>12, LongerIs
<1>14. /\ \A i \in 1 .. max1 - 1 : r.timer_ids[i] < 0 <=> h1.timer_ids[i] < 0 /\ i # id
       /\ \A i \in 1 .. max1 - 1 : h1.timer_ids[i] < 0 /\ i # id => r.timer_ids[i] = h1.timer_ids[i]
       /\ Sound(r, E) /\ r.cur_size = n + 1 /\ r.max_size = max1
       /\ r.timer_ids_freelist = h1.timer_ids_freelist /\ In(r) = In(h1) \cup {node}
  BY <1>13 DEF Longer
<1>15. ASSUME NEW i \in 1 .. max - 1
       PROVE  /\ r.timer_ids[i] < 0 <=> h.timer_ids[i] < 0 /\ i # id
              /\ h.timer_ids[i] < 0 /\ i # id => r.timer_ids[i] = h.timer_ids[i]
  <2>1. i \in 1 .. max1 - 1 /\ h1.timer_ids[i] = h.timer_ids[i]
    BY <1>2, <1>6, <1>7
  <2> QED
    BY <1>14, <2>1
<1>16. ASSUME NEW i \in max .. max1 - 1
       PROVE  r.timer_ids[i] = -(i + 1)
  <2>1. i \in 1 .. max1 - 1 /\ i # id /\ h1.timer_ids[i] = -(i + 1) /\ -(i + 1) < 0
    BY <1>2, <1>6, <1>7
  <2> QED
    BY <1>14, <2>1
<1>17. In(h1) = In(h)
  BY <1>6 DEF In
<1> QED
  BY <1>1, <1>6, <1>14, <1>15, <1>16, <1>17 DEF Inserted

(* The free list as a sequence: q runs once through every id of a set, by  *)
(* the links next, from first to end.                                      *)
Runs(q, n, next, first, end, ids) ==
  /\ n \in Nat /\ q \in [0 .. n -> Int] /\ q[0] = first /\ q[n] = end
  /\ \A i \in 0 .. n - 1 : q[i] \in ids /\ q[i + 1] = -next[q[i]]
  /\ \A i, j \in 0 .. n - 1 : q[i] = q[j] => i = j
  /\ \A k \in ids : \E i \in 0 .. n - 1 : q[i] = k
Threaded(next, first, end, ids) == \E n, q : Runs(q, n, next, first, end, ids)

(* Its ends.                                                               *)
LEMMA ThreadEnds ==
  ASSUME NEW next, NEW first, NEW end, NEW ids, Threaded(next, first, end, ids)
  PROVE  /\ first \in ids \cup {end}
         /\ \A k \in ids : k \in Int /\ -next[k] \in ids \cup {end}
<1>1. PICK n, q : Runs(q, n, next, first, end, ids)
  BY DEF Threaded
<1>2. /\ n \in Nat /\ q \in [0 .. n -> Int] /\ q[0] = first /\ q[n] = end
      /\ \A i \in 0 .. n - 1 : q[i] \in ids /\ q[i + 1] = -next[q[i]]
  BY <1>1 DEF Runs
<1>3. ASSUME NEW i \in 0 .. n
      PROVE  q[i] \in ids \cup {end}
  <2>1. i = n \/ i \in 0 .. n - 1
    BY <1>2
  <2> QED
    BY <1>2, <2>1
<1>4. ASSUME NEW k \in ids
      PROVE  k \in Int /\ -next[k] \in ids \cup {end}
  <2>1. PICK i \in 0 .. n - 1 : q[i] = k
    BY <1>1 DEF Runs
  <2>2. i + 1 \in 0 .. n /\ i \in 0 .. n
    BY <1>2
  <2> QED
    BY <1>2, <1>3, <2>1, <2>2
<1>5. 0 \in 0 .. n
  BY <1>2
<1> QED
  BY <1>2, <1>3, <1>4, <1>5

(* The first id is taken.                                                  *)
LEMMA ThreadPop ==
  ASSUME NEW next, NEW first, NEW end, NEW ids, Threaded(next, first, end, ids), first # end
  PROVE  first \in ids /\ Threaded(next, -next[first], end, ids \ {first})
<1>1. PICK n, q : Runs(q, n, next, first, end, ids)
  BY DEF Threaded
<1>2. /\ n \in Nat /\ q \in [0 .. n -> Int] /\ q[0] = first /\ q[n] = end
      /\ \A i \in 0 .. n - 1 : q[i] \in ids /\ q[i + 1] = -next[q[i]]
      /\ \A i, j \in 0 .. n - 1 : q[i] = q[j] => i = j
  BY <1>1 DEF Runs
<1>3. n # 0
  BY <1>2
<1>4. PICK m : m = n - 1 /\ m \in Nat /\ 0 \in 0 .. n - 1
  BY <1>2, <1>3
<1>5. PICK p : p = [i \in 0 .. m |-> q[i + 1]]
  OBVIOUS
<1>6. \A i \in 0 .. m : p[i] = q[i + 1] /\ i + 1 \in 0 .. n
  BY <1>2, <1>4, <1>5
<1>7. p \in [0 .. m -> Int]
  <2>1. \A i \in 0 .. m : p[i] \in Int
    BY <1>2, <1>6
  <2> QED
    BY <1>5, <2>1
<1>8. p[0] = -next[first] /\ p[m] = end
  <2>1. 0 \in 0 .. m /\ m \in 0 .. m /\ 0 + 1 = 1 /\ m + 1 = n
    BY <1>2, <1>4
  <2>2. p[0] = q[0 + 1] /\ p[m] = q[m + 1]
    BY <1>6, <2>1
  <2> QED
    BY <1>2, <1>4, <2>1, <2>2
<1>9. ASSUME NEW i \in 0 .. m - 1
      PROVE  p[i] \in ids \ {first} /\ p[i + 1] = -next[p[i]]
  <2>1. i \in 0 .. m /\ i + 1 \in 0 .. m /\ i + 1 \in 0 .. n - 1 /\ i + 1 # 0
    BY <1>4
  <2>2. p[i] = q[i + 1] /\ p[i + 1] = q[(i + 1) + 1]
    BY <1>6, <2>1
  <2>3. q[i + 1] \in ids /\ q[(i + 1) + 1] = -next[q[i + 1]] /\ q[i + 1] # q[0]
    BY <1>2, <1>4, <2>1
  <2> QED
    BY <1>2, <2>2, <2>3
<1>10. ASSUME NEW i \in 0 .. m - 1, NEW j \in 0 .. m - 1, p[i] = p[j]
       PROVE  i = j
  <2>1. i \in 0 .. m /\ j \in 0 .. m /\ i + 1 \in 0 .. n - 1 /\ j + 1 \in 0 .. n - 1
    BY <1>4
  <2>2. q[i + 1] = q[j + 1]
    BY <1>6, <1>10, <2>1
  <2>3. i + 1 = j + 1
    BY <1>2, <2>1, <2>2
  <2> QED
    BY <2>3
<1>11. ASSUME NEW k \in ids \ {first}
       PROVE  \E i \in 0 .. m - 1 : p[i] = k
  <2>1. PICK j \in 0 .. n - 1 : q[j] = k
    BY <1>1 DEF Runs
  <2>2. j # 0
    BY <1>2, <2>1
  <2>3. PICK i : i = j - 1
    OBVIOUS
  <2>4. i \in 0 .. m - 1 /\ i \in 0 .. m /\ i + 1 = j
    BY <1>4, <2>2, <2>3
  <2> QED
    BY <1>6, <2>1, <2>4
<1>12. Runs(p, m, next, -next[first], end, ids \ {first})
  BY <1>4, <1>7, <1>8, <1>9, <1>10, <1>11 DEF Runs
<1>13. first \in ids
  BY <1>2, <1>4
<1> QED
  BY <1>12, <1>13 DEF Threaded

(* An id is put in front.                                                  *)
LEMMA ThreadPush ==
  ASSUME NEW next, NEW first, NEW end, NEW ids, Threaded(next, first, end, ids),
         NEW id \in Int, id \notin ids, NEW new, -new[id] = first,
         \A k \in ids : new[k] = next[k]
  PROVE  Threaded(new, id, end, ids \cup {id})
<1>1. PICK n, q : Runs(q, n, next, first, end, ids)
  BY DEF Threaded
<1>2. /\ n \in Nat /\ q \in [0 .. n -> Int] /\ q[0] = first /\ q[n] = end
      /\ \A i \in 0 .. n - 1 : q[i] \in ids /\ q[i + 1] = -next[q[i]]
      /\ \A i, j \in 0 .. n - 1 : q[i] = q[j] => i = j
  BY <1>1 DEF Runs
<1>3. PICK m : m = n + 1 /\ m \in Nat
  BY <1>2
<1>4. PICK p : p = [i \in 0 .. m |-> IF i = 0 THEN id ELSE q[i - 1]]
  OBVIOUS
<1>5. /\ \A i \in 0 .. m : i # 0 => p[i] = q[i - 1] /\ i - 1 \in 0 .. n
      /\ p[0] = id
  BY <1>2, <1>3, <1>4
<1>6. p \in [0 .. m -> Int]
  <2>1. \A i \in 0 .. m : p[i] \in Int
    BY <1>2, <1>5
  <2> QED
    BY <1>4, <2>1
<1>7. p[m] = end
  <2>1. m \in 0 .. m /\ m # 0 /\ m - 1 = n
    BY <1>2, <1>3
  <2> QED
    BY <1>2, <1>5, <2>1
<1>8. ASSUME NEW i \in 0 .. m - 1
      PROVE  p[i] \in ids \cup {id} /\ p[i + 1] = -new[p[i]]
  <2>1. CASE i = 0
    <3>1. i + 1 \in 0 .. m /\ i + 1 # 0 /\ (i + 1) - 1 = 0
      BY <1>2, <1>3, <2>1
    <3> QED
      BY <1>2, <1>5, <2>1, <3>1
  <2>2. CASE i # 0
    <3>1. PICK j : j = i - 1
      OBVIOUS
    <3>2. j \in 0 .. n - 1 /\ j + 1 = i /\ i \in 0 .. m /\ i + 1 \in 0 .. m /\ i + 1 # 0 /\ (i + 1) - 1 = i
      BY <1>2, <1>3, <2>2, <3>1
    <3>3. p[i] = q[j] /\ p[i + 1] = q[j + 1]
      BY <1>5, <2>2, <3>1, <3>2
    <3>4. q[j] \in ids /\ q[j + 1] = -next[q[j]]
      BY <1>2, <3>2
    <3>5. new[q[j]] = next[q[j]]
      BY <3>4
    <3> QED
      BY <3>3, <3>4, <3>5
  <2> QED
    BY <2>1, <2>2
<1>9. ASSUME NEW i \in 0 .. m - 1, NEW j \in 0 .. m - 1, p[i] = p[j]
      PROVE  i = j
  <2>1. ASSUME NEW k \in 0 .. m - 1, k # 0
        PROVE  k - 1 \in 0 .. n - 1 /\ p[k] = q[k - 1] /\ p[k] # id
    <3>1. k - 1 \in 0 .. n - 1 /\ k \in 0 .. m
      BY <1>2, <1>3, <2>1
    <3> QED
      BY <1>2, <1>5, <2>1, <3>1
  <2>2. CASE i = 0 \/ j = 0
    BY <1>5, <1>9, <2>1, <2>2
  <2>3. CASE i # 0 /\ j # 0
    <3>1. q[i - 1] = q[j - 1] /\ i - 1 \in 0 .. n - 1 /\ j - 1 \in 0 .. n - 1
      BY <1>9, <2>1, <2>3
    <3>2. i - 1 = j - 1
      BY <1>2, <3>1
    <3> QED
      BY <3>2
  <2> QED
    BY <2>2, <2>3
<1>10. ASSUME NEW k \in ids \cup {id}
       PROVE  \E i \in 0 .. m - 1 : p[i] = k
  <2>1. CASE k = id
    <3>1. 0 \in 0 .. m - 1
      BY <1>2, <1>3
    <3> QED
      BY <1>5, <2>1, <3>1
  <2>2. CASE k \in ids
    <3>1. PICK j \in 0 .. n - 1 : q[j] = k
      BY <1>1, <2>2 DEF Runs
    <3>2. PICK i : i = j + 1
      OBVIOUS
    <3>3. i \in 0 .. m - 1 /\ i \in 0 .. m /\ i # 0 /\ i - 1 = j
      BY <1>2, <1>3, <3>2
    <3> QED
      BY <1>5, <3>1, <3>3
  <2> QED
    BY <2>1, <2>2
<1>11. Runs(p, m, new, id, end, ids \cup {id})
  BY <1>3, <1>5, <1>6, <1>7, <1>8, <1>9, <1>10 DEF Runs
<1> QED
  BY <1>11 DEF Threaded

(* The array grew: its end is linked to the ids that were added.           *)
LEMMA ThreadGrow ==
  ASSUME NEW next, NEW first, NEW end \in Nat, NEW ids, Threaded(next, first, end, ids),
         \A k \in ids : k < end, NEW end1 \in Nat, end <= end1, NEW new,
         \A k \in ids : new[k] = next[k], \A k \in end .. end1 - 1 : new[k] = -(k + 1)
  PROVE  Threaded(new, first, end1, ids \cup (end .. end1 - 1))
<1>1. PICK n, q : Runs(q, n, next, first, end, ids)
  BY DEF Threaded
<1>2. /\ n \in Nat /\ q \in [0 .. n -> Int] /\ q[0] = first /\ q[n] = end
      /\ \A i \in 0 .. n - 1 : q[i] \in ids /\ q[i + 1] = -next[q[i]]
      /\ \A i, j \in 0 .. n - 1 : q[i] = q[j] => i = j
  BY <1>1 DEF Runs
<1>3. PICK m : m = n + (end1 - end) /\ m \in Nat /\ n <= m
  BY <1>2
<1>4. PICK p : p = [i \in 0 .. m |-> IF i <= n THEN q[i] ELSE end + (i - n)]
  OBVIOUS
<1>5. /\ \A i \in 0 .. n : i \in 0 .. m /\ p[i] = q[i]
      /\ \A i \in n .. m : i \in 0 .. m /\ p[i] = end + (i - n)
  <2>1. \A i \in 0 .. m : p[i] = IF i <= n THEN q[i] ELSE end + (i - n)
    BY <1>4
  <2>2. \A i \in 0 .. n : i \in 0 .. m /\ p[i] = q[i]
    BY <1>2, <1>3, <2>1
  <2>3. p[n] = end + (n - n)
    BY <1>2, <2>2
  <2> QED
    BY <1>2, <1>3, <2>1, <2>2, <2>3
<1>6. p \in [0 .. m -> Int]
  <2>1. ASSUME NEW i \in 0 .. m
        PROVE  p[i] \in Int
    <3>1. i \in 0 .. n \/ i \in n .. m
      BY <1>2, <1>3
    <3> QED
      BY <1>2, <1>5, <3>1
  <2> QED
    BY <1>4, <2>1
<1>7. p[0] = first /\ p[m] = end1
  <2>1. 0 \in 0 .. n /\ m \in n .. m /\ end + (m - n) = end1
    BY <1>2, <1>3
  <2> QED
    BY <1>2, <1>5, <2>1
<1>8. ASSUME NEW i \in 0 .. m - 1
      PROVE  \/ i \in 0 .. n - 1 /\ p[i] = q[i] /\ p[i] \in ids
             \/ i \in n .. m - 1 /\ p[i] = end + (i - n) /\ p[i] \in end .. end1 - 1
  <2>1. (i \in 0 .. n - 1 /\ i \in 0 .. n) \/ (i \in n .. m - 1 /\ i \in n .. m)
    BY <1>2, <1>3
  <2>2. CASE i \in 0 .. n - 1
    BY <1>2, <1>5, <2>1, <2>2
  <2>3. CASE i \in n .. m - 1 /\ i \in n .. m
    <3>1. end + (i - n) \in end .. end1 - 1
      BY <1>2, <1>3, <2>3
    <3> QED
      BY <1>5, <2>3, <3>1
  <2> QED
    BY <2>1, <2>2, <2>3
<1>9. ASSUME NEW i \in 0 .. m - 1
      PROVE  p[i] \in ids \cup (end .. end1 - 1) /\ p[i + 1] = -new[p[i]]
  <2>1. CASE i \in 0 .. n - 1 /\ p[i] = q[i] /\ p[i] \in ids
    <3>1. i + 1 \in 0 .. n
      BY <1>2, <2>1
    <3> QED
      BY <1>2, <1>5, <2>1, <3>1
  <2>2. CASE i \in n .. m - 1 /\ p[i] = end + (i - n) /\ p[i] \in end .. end1 - 1
    <3>1. i + 1 \in n .. m /\ p[i] \in Int
      BY <1>2, <1>3, <2>2
    <3>2. p[i + 1] = end + ((i + 1) - n)
      BY <1>5, <3>1
    <3>3. new[p[i]] = -(p[i] + 1)
      BY <2>2
    <3> QED
      BY <1>2, <2>2, <3>1, <3>2, <3>3
  <2> QED
    BY <1>8, <2>1, <2>2
<1>10. ASSUME NEW i \in 0 .. m - 1, NEW j \in 0 .. m - 1, p[i] = p[j]
       PROVE  i = j
  <2>1. \A k \in ids : k \in Int
    BY <1>1, ThreadEnds DEF Threaded
  <2>2. CASE i \in 0 .. n - 1 /\ j \in 0 .. n - 1
    BY <1>2, <1>8, <1>10, <2>2
  <2>3. CASE i \in n .. m - 1 /\ j \in n .. m - 1
    <3>1. p[i] = end + (i - n) /\ p[j] = end + (j - n)
      BY <1>2, <1>8, <2>3
    <3>2. end + (i - n) = end + (j - n)
      BY <1>10, <3>1
    <3>3. i \in Int /\ j \in Int /\ n \in Int /\ end \in Int
      BY <1>2
    <3> QED
      BY <3>2, <3>3
  <2>4. CASE i \in 0 .. n - 1 /\ j \in n .. m - 1
    <3>1. p[i] \in ids /\ p[j] \in end .. end1 - 1
      BY <1>2, <1>8, <2>4
    <3> QED
      BY <1>10, <2>1, <3>1
  <2>5. CASE i \in n .. m - 1 /\ j \in 0 .. n - 1
    <3>1. p[j] \in ids /\ p[i] \in end .. end1 - 1
      BY <1>2, <1>8, <2>5
    <3> QED
      BY <1>10, <2>1, <3>1
  <2> QED
    BY <1>8, <2>2, <2>3, <2>4, <2>5
<1>11. ASSUME NEW k \in ids \cup (end .. end1 - 1)
       PROVE  \E i \in 0 .. m - 1 : p[i] = k
  <2>1. CASE k \in ids
    <3>1. PICK i \in 0 .. n - 1 : q[i] = k
      BY <1>1, <2>1 DEF Runs
    <3>2. i \in 0 .. n /\ i \in 0 .. m - 1
      BY <1>2, <1>3
    <3> QED
      BY <1>5, <3>1, <3>2
  <2>2. CASE k \in end .. end1 - 1
    <3>1. PICK i : i = n + (k - end)
      OBVIOUS
    <3>2. i \in n .. m /\ i \in 0 .. m - 1 /\ end + (i - n) = k
      BY <1>2, <1>3, <2>2, <3>1
    <3> QED
      BY <1>5, <3>2
  <2> QED
    BY <2>1, <2>2
<1>12. Runs(p, m, new, first, end1, ids \cup (end .. end1 - 1))
  BY <1>3, <1>6, <1>7, <1>9, <1>10, <1>11 DEF Runs
<1> QED
  BY <1>12 DEF Threaded

(* The chain of the links has a value: it is what every finite piece of it *)
(* is.                                                                     *)
Piece(g, n, next, first) ==
  g = [i \in 0 .. n |-> IF i = 0 THEN first ELSE -next[g[i - 1]]]

(* Every piece exists.                                                     *)
LEMMA PieceIs ==
  ASSUME NEW next, NEW first, NEW n \in Nat
  PROVE  \E g : Piece(g, n, next, first)
<1> DEFINE T == {i \in Nat : \E g : Piece(g, i, next, first)}
<1>1. ASSUME NEW i \in Nat, \A m \in 0 .. i - 1 : m \in T
      PROVE  i \in T
  <2>1. PICK g : i > 0 => Piece(g, i - 1, next, first)
    BY <1>1
  <2>2. PICK f : f = [j \in 0 .. i |-> IF j = 0 THEN first ELSE -next[g[j - 1]]]
    OBVIOUS
  <2>3. ASSUME NEW j \in 0 .. i, j < i
        PROVE  f[j] = g[j]
    <3>1. i > 0 /\ j \in 0 .. i - 1
      BY <2>3
    <3>2. g[j] = IF j = 0 THEN first ELSE -next[g[j - 1]]
      BY <2>1, <3>1 DEF Piece
    <3> QED
      BY <2>2, <3>2
  <2>4. ASSUME NEW j \in 0 .. i, j # 0
        PROVE  g[j - 1] = f[j - 1]
    <3>1. j - 1 \in 0 .. i /\ j - 1 < i
      BY <2>4
    <3> QED
      BY <2>3, <3>1
  <2>5. f = [j \in 0 .. i |-> IF j = 0 THEN first ELSE -next[f[j - 1]]]
    BY <2>2, <2>4
  <2>6. Piece(f, i, next, first)
    BY <2>5 DEF Piece
  <2> QED
    BY <2>6
<1>2. n \in T
  <2> HIDE DEF T
  <2> QED
    BY <1>1, Induction
<1> QED
  BY <1>2

Steps(g, n, next, first) ==
  \A i \in 0 .. n : g[i] = IF i = 0 THEN first ELSE -next[g[i - 1]]

(* What a piece says of each of its links.                                 *)
LEMMA PieceSteps ==
  ASSUME NEW g, NEW n, NEW next, NEW first, Piece(g, n, next, first)
  PROVE  Steps(g, n, next, first)
  BY DEF Piece, Steps

(* Two pieces agree as far as both go.                                     *)
LEMMA PiecesAgree ==
  ASSUME NEW next, NEW first, NEW n \in Nat, NEW m \in Nat, NEW f, NEW g,
         Piece(f, n, next, first), Piece(g, m, next, first), NEW k \in Nat, k <= n, k <= m
  PROVE  f[k] = g[k]
<1> DEFINE T == {i \in Nat : i <= n /\ i <= m => f[i] = g[i]}
<1>1. Steps(f, n, next, first) /\ Steps(g, m, next, first)
  BY PieceSteps
<1>2. ASSUME NEW i \in Nat, \A j \in 0 .. i - 1 : j \in T
      PROVE  i \in T
  <2> SUFFICES ASSUME i <= n, i <= m PROVE f[i] = g[i]
    OBVIOUS
  <2>1. i \in 0 .. n /\ i \in 0 .. m
    OBVIOUS
  <2>2. f[i] = IF i = 0 THEN first ELSE -next[f[i - 1]]
    BY <1>1, <2>1 DEF Steps
  <2>3. g[i] = IF i = 0 THEN first ELSE -next[g[i - 1]]
    BY <1>1, <2>1 DEF Steps
  <2>4. i # 0 => f[i - 1] = g[i - 1]
    <3>1. ASSUME i # 0
          PROVE  i - 1 \in T /\ i - 1 <= n /\ i - 1 <= m
      <4> HIDE DEF T
      <4> QED
        BY <1>2, <3>1
    <3> QED
      BY <3>1
  <2> QED
    BY <2>2, <2>3, <2>4
<1>3. k \in T
  <2> HIDE DEF T
  <2> QED
    BY <1>2, Induction
<1> QED
  BY <1>3

Whole(f, next, first) == f = [n \in Nat |-> IF n = 0 THEN first ELSE -next[f[n - 1]]]

(* So the whole chain exists.                                              *)
LEMMA WholeIs ==
  ASSUME NEW next, NEW first
  PROVE  \E f : Whole(f, next, first)
<1> DEFINE part(n) == CHOOSE g : Piece(g, n, next, first)
<1>1. ASSUME NEW n \in Nat
      PROVE  Piece(part(n), n, next, first)
  BY PieceIs
<1> HIDE DEF part
<1>2. PICK f : f = [n \in Nat |-> part(n)[n]]
  OBVIOUS
<1>3. ASSUME NEW n \in Nat
      PROVE  f[n] = IF n = 0 THEN first ELSE -next[f[n - 1]]
  <2>1. f[n] = part(n)[n] /\ n \in 0 .. n
    BY <1>2
  <2>2. Steps(part(n), n, next, first)
    BY <1>1, PieceSteps
  <2>3. part(n)[n] = IF n = 0 THEN first ELSE -next[part(n)[n - 1]]
    BY <2>1, <2>2 DEF Steps
  <2>4. ASSUME n # 0
        PROVE  part(n)[n - 1] = f[n - 1]
    <3>1. PICK m : m = n - 1
      OBVIOUS
    <3>2. m \in Nat /\ m <= n /\ m <= m
      BY <2>4, <3>1
    <3>3. f[m] = part(m)[m]
      BY <1>2, <3>2
    <3>4. part(n)[m] = part(m)[m]
      BY <1>1, <3>2, PiecesAgree
    <3> QED
      BY <3>1, <3>3, <3>4
  <2> QED
    BY <2>1, <2>3, <2>4
<1>4. f = [n \in Nat |-> IF n = 0 THEN first ELSE -next[f[n - 1]]]
  BY <1>2, <1>3
<1> QED
  BY <1>4 DEF Whole

(* A sequence that runs through a set is as long as the set is large.      *)
LEMMA RunLength ==
  ASSUME NEW q, NEW n, NEW next, NEW first, NEW end, NEW ids, Runs(q, n, next, first, end, ids)
  PROVE  Cardinality(ids) = n
<1>1. PICK b : b = [i \in 1 .. n |-> q[i - 1]]
  OBVIOUS
<1>2. n \in Nat
  BY DEF Runs
<1>3. \A i \in 1 .. n : b[i] = q[i - 1] /\ i - 1 \in 0 .. n - 1
  BY <1>1, <1>2
<1>4. b \in [1 .. n -> ids]
  <2>1. \A i \in 1 .. n : b[i] \in ids
    BY <1>3 DEF Runs
  <2> QED
    BY <1>1, <2>1
<1>5. ASSUME NEW i \in 1 .. n, NEW j \in 1 .. n, b[i] = b[j]
      PROVE  i = j
  <2>1. q[i - 1] = q[j - 1] /\ i - 1 \in 0 .. n - 1 /\ j - 1 \in 0 .. n - 1
    BY <1>3, <1>5
  <2>2. i - 1 = j - 1
    BY <2>1 DEF Runs
  <2> QED
    BY <2>2
<1>6. ASSUME NEW k \in ids
      PROVE  \E i \in 1 .. n : b[i] = k
  <2>1. PICK j \in 0 .. n - 1 : q[j] = k
    BY DEF Runs
  <2>2. PICK i : i = j + 1
    OBVIOUS
  <2>3. i \in 1 .. n /\ i - 1 = j
    BY <1>2, <2>2
  <2> QED
    BY <1>3, <2>1, <2>3
<1>7. b \in Bijection(1 .. n, ids)
  BY <1>4, <1>5, <1>6 DEF Bijection, Injection, Surjection, IsInjective
<1>8. ExistsBijection(1 .. n, ids)
  BY <1>7 DEF ExistsBijection
<1> QED
  BY <1>2, <1>8, FS_CountingElements

(* A list that runs once through the ids is what the specification calls   *)
(* chained.                                                                *)
LEMMA ThreadedChained ==
  ASSUME NEW h, NEW ids, Threaded(h.timer_ids, h.timer_ids_freelist, h.max_size, ids)
  PROVE  Chained(h, ids)
<1>1. PICK next, first, end : next = h.timer_ids /\ first = h.timer_ids_freelist /\ end = h.max_size
  OBVIOUS
<1>2. Threaded(next, first, end, ids)
  BY <1>1
<1>3. PICK chain : chain = CHOOSE f : Whole(f, next, first)
  OBVIOUS
<1>4. Whole(chain, next, first)
  BY <1>3, WholeIs
<1>5. \A n \in Nat : chain[n] = IF n = 0 THEN first ELSE -next[chain[n - 1]]
  BY <1>4 DEF Whole
<1>6. PICK N, q : Runs(q, N, next, first, end, ids)
  BY <1>2 DEF Threaded
<1>7. /\ N \in Nat /\ q \in [0 .. N -> Int] /\ q[0] = first /\ q[N] = end
      /\ \A i \in 0 .. N - 1 : q[i] \in ids /\ q[i + 1] = -next[q[i]]
  BY <1>6 DEF Runs
<1>8. ASSUME NEW k \in 0 .. N
      PROVE  chain[k] = q[k]
  <2> DEFINE T == {i \in Nat : i <= N => chain[i] = q[i]}
  <2>1. ASSUME NEW i \in Nat, \A j \in 0 .. i - 1 : j \in T
        PROVE  i \in T
    <3> SUFFICES ASSUME i <= N PROVE chain[i] = q[i]
      OBVIOUS
    <3>1. CASE i = 0
      BY <1>5, <1>7, <3>1
    <3>2. CASE i # 0
      <4>1. PICK j : j = i - 1
        OBVIOUS
      <4>2. j \in 0 .. i - 1 /\ j \in 0 .. N - 1 /\ j <= N /\ j + 1 = i
        BY <1>7, <3>2, <4>1
      <4>3. chain[j] = q[j]
        BY <2>1, <4>2
      <4>4. chain[i] = -next[chain[j]]
        BY <1>5, <3>2, <4>1
      <4>5. q[j + 1] = -next[q[j]]
        BY <1>7, <4>2
      <4> QED
        BY <4>2, <4>3, <4>4, <4>5
    <3> QED
      BY <3>1, <3>2
  <2>2. k \in T
    <3>1. k \in Nat
      OBVIOUS
    <3> HIDE DEF T
    <3> QED
      BY <2>1, <3>1, Induction
  <2> QED
    BY <2>2
<1>9. {chain[n] : n \in 0 .. N} = ids \cup {end}
  <2>1. ASSUME NEW n \in 0 .. N
        PROVE  chain[n] \in ids \cup {end}
    <3>1. n = N \/ n \in 0 .. N - 1
      BY <1>7
    <3> QED
      BY <1>7, <1>8, <3>1
  <2>2. ASSUME NEW k \in ids
        PROVE  \E n \in 0 .. N : chain[n] = k
    <3>1. PICK i \in 0 .. N - 1 : q[i] = k
      BY <1>6 DEF Runs
    <3>2. i \in 0 .. N
      BY <1>7
    <3> QED
      BY <1>8, <3>1, <3>2
  <2>3. chain[N] = end /\ N \in 0 .. N
    BY <1>7, <1>8
  <2> QED
    BY <2>1, <2>2, <2>3
<1>10. Cardinality(ids) = N
  BY <1>6, RunLength
<1>11. first \in ids \cup {end} /\ \A i \in ids : -next[i] \in ids \cup {end}
  BY <1>2, ThreadEnds
<1>12. chain = CHOOSE f : f = [n \in Nat |-> IF n = 0 THEN first ELSE -next[f[n - 1]]]
  BY <1>3 DEF Whole
<1>13. chain = CHOOSE f : f = [n \in Nat |-> IF n = 0 THEN h.timer_ids_freelist
                                             ELSE -h.timer_ids[f[n - 1]]]
  BY <1>1, <1>12
<1>14. h.timer_ids_freelist \in ids \cup {h.max_size}
  BY <1>1, <1>11
<1>15. \A i \in ids : -h.timer_ids[i] \in ids \cup {h.max_size}
  BY <1>1, <1>11
<1>16. {chain[n] : n \in 0 .. Cardinality(ids)} = ids \cup {h.max_size}
  BY <1>1, <1>9, <1>10
<1> HIDE <1>1
<1> QED
  BY <1>13, <1>14, <1>15, <1>16 DEF Chained

-----------------------------------------------------------------------------
(* The free list of a heap that keeps the held ids out of it.              *)
Stocked(h, held) ==
  /\ Threaded(h.timer_ids, h.timer_ids_freelist, h.max_size, FreeIds(h) \ held)
  /\ held \subseteq FreeIds(h)

(* What a removal makes of a heap and its free list.                       *)
Removed(r, h, E, held, slot, id) ==
  /\ Sound(r, E) /\ Stocked(r, held) /\ r.max_size = h.max_size
  /\ r.timer_ids_freelist = id /\ id \in Nat \ {0} /\ id \notin held /\ id \in FreeIds(r)
  /\ In(r) = In(h) \ {h.heap[slot]}

(* remove_node keeps the heap and its free list, and puts the id of the    *)
(* entry at its head.                                                      *)
THEOREM RemoveStocked ==
  ASSUME NEW E, Timed(E), NEW h, Sound(h, E), NEW held, Stocked(h, held),
         NEW slot \in 0 .. h.cur_size - 1, NEW id, id = E[h.heap[slot]]._timer_id,
         NEW r, r = remove_node(h, E, slot)
  PROVE  Removed(r, h, E, held, slot, id)
<1>1. PICK max, first, ids, old : /\ max = h.max_size /\ first = h.timer_ids_freelist
                                  /\ ids = h.timer_ids /\ old = FreeIds(h) \ held
  OBVIOUS
<1>2. max \in Nat /\ ids \in [0 .. max - 1 -> Int] /\ first \in Int
  BY <1>1 DEF Sound, Heaps
<1>3. Threaded(ids, first, max, old)
  BY <1>1 DEF Stocked
<1>4. \A k \in old : k \in 1 .. max - 1 /\ ids[k] < 0
  BY <1>1 DEF FreeIds
<1>5. max > 0
  <2>1. max >= 2
    BY <1>1, <1>2 DEF Sound, Indexed
  <2> QED
    BY <1>2, <2>1
<1>6. first > 0
  BY <1>2, <1>3, <1>4, <1>5, ThreadEnds
<1>7. PICK new : new = r.timer_ids
  OBVIOUS
<1>8. /\ Sound(r, E) /\ r.max_size = max
      /\ id \in 1 .. max - 1 /\ ids[id] >= 0
      /\ r.timer_ids_freelist = id /\ new[id] = -first
      /\ \A i \in 1 .. max - 1 : new[i] < 0 <=> ids[i] < 0 \/ i = id
      /\ \A i \in 1 .. max - 1 : ids[i] < 0 => new[i] = ids[i]
      /\ In(r) = In(h) \ {h.heap[slot]}
  BY <1>1, <1>6, <1>7, RemoveIs
<1>9. FreeIds(r) = FreeIds(h) \cup {id} /\ id \notin FreeIds(h)
  <2>1. FreeIds(h) = {i \in 1 .. max - 1 : ids[i] < 0}
    BY <1>1 DEF FreeIds
  <2>2. FreeIds(r) = {i \in 1 .. max - 1 : new[i] < 0}
    BY <1>7, <1>8 DEF FreeIds
  <2>3. ids[id] \in Int
    BY <1>2, <1>8
  <2> QED
    BY <1>8, <2>1, <2>2, <2>3
<1>10. id \notin held /\ held \subseteq FreeIds(r)
  BY <1>9 DEF Stocked
<1>11. FreeIds(r) \ held = old \cup {id} /\ id \notin old
  BY <1>1, <1>9, <1>10
<1>12. Threaded(new, id, max, old \cup {id})
  <2>1. \A k \in old : new[k] = ids[k]
    BY <1>4, <1>8
  <2>2. -new[id] = first /\ id \in Int
    BY <1>2, <1>8
  <2> QED
    BY <1>3, <1>11, <2>1, <2>2, ThreadPush
<1>13. Stocked(r, held)
  BY <1>7, <1>8, <1>10, <1>11, <1>12 DEF Stocked
<1>14. id \in Nat \ {0} /\ id \in FreeIds(r)
  BY <1>2, <1>8, <1>9
<1> QED
  BY <1>1, <1>8, <1>10, <1>13, <1>14 DEF Removed

(* The heap is the same but for the first free id.                         *)
Headed(q, h, v) ==
  /\ q.cur_size = h.cur_size /\ q.max_size = h.max_size /\ q.heap = h.heap
  /\ q.timer_ids = h.timer_ids /\ q.timer_ids_freelist = v

(* The head of the free list is no matter of the heap.                     *)
LEMMA HeadedSound ==
  ASSUME NEW E, NEW h, Sound(h, E), NEW v \in Int, NEW q, q = [h EXCEPT !.timer_ids_freelist = v]
  PROVE  Sound(q, E) /\ Headed(q, h, v)
<1>1. PICK n, max : n = h.cur_size /\ max = h.max_size
  OBVIOUS
<1>2. h \in Heaps(n, max)
  BY <1>1 DEF Sound
<1>3. q \in Heaps(n, max)
  BY <1>2 DEF Heaps
<1>4. Headed(q, h, v)
  BY <1>2 DEF Heaps, Headed
<1> QED
  BY <1>1, <1>3, <1>4 DEF Sound, Headed

(* An id is taken from the list: it is free, and not free to others.       *)
Popped(q, h, E, held, id) ==
  /\ Sound(q, E) /\ Stocked(q, held \cup {id}) /\ id \notin held /\ id \in FreeIds(h)
  /\ q.max_size = h.max_size /\ In(q) = In(h) /\ Headed(q, h, q.timer_ids_freelist)

(* pop_freelist, when there is a free id, holds that id.                   *)
LEMMA PopStocked ==
  ASSUME NEW E, NEW h, Sound(h, E), NEW held, Stocked(h, held),
         NEW id, id = h.timer_ids_freelist, id \in DOMAIN h.timer_ids,
         NEW q \in pop_freelist(h)
  PROVE  Popped(q, h, E, held, id)
<1>1. PICK max, ids, old : max = h.max_size /\ ids = h.timer_ids /\ old = FreeIds(h) \ held
  OBVIOUS
<1>2. max \in Nat /\ ids \in [0 .. max - 1 -> Int]
  BY <1>1 DEF Sound, Heaps
<1>3. Threaded(ids, id, max, old)
  BY <1>1 DEF Stocked
<1>4. id # max
  BY <1>1, <1>2
<1>5. id \in old /\ Threaded(ids, -ids[id], max, old \ {id})
  BY <1>3, <1>4, ThreadPop
<1>6. PICK v : v = -ids[id]
  OBVIOUS
<1>7. v \in Int
  BY <1>1, <1>2, <1>6
<1>8. q = [h EXCEPT !.timer_ids_freelist = v]
  BY <1>1, <1>6 DEF pop_freelist
<1>9. Sound(q, E) /\ Headed(q, h, v)
  BY <1>7, <1>8, HeadedSound
<1>10. FreeIds(q) = FreeIds(h) /\ In(q) = In(h)
  BY <1>9 DEF Headed, FreeIds, In
<1>11. FreeIds(q) \ (held \cup {id}) = old \ {id}
  BY <1>1, <1>10
<1>12. held \cup {id} \subseteq FreeIds(q)
  BY <1>1, <1>5, <1>10 DEF Stocked
<1>13. Stocked(q, held \cup {id})
  BY <1>1, <1>5, <1>6, <1>9, <1>11, <1>12 DEF Stocked, Headed
<1> QED
  BY <1>1, <1>5, <1>9, <1>10, <1>13 DEF Popped, Headed

(* A held id goes back in front of the list.                               *)
Freed(q, h, E, held, id) ==
  /\ Sound(q, E) /\ Stocked(q, held \ {id})
  /\ q.max_size = h.max_size /\ In(q) = In(h) /\ FreeIds(q) = FreeIds(h)

(* push_freelist frees a held id.                                          *)
LEMMA PushStocked ==
  ASSUME NEW E, NEW h, Sound(h, E), NEW held, Stocked(h, held), NEW id \in held,
         NEW q, q = push_freelist(h, id)
  PROVE  Freed(q, h, E, held, id)
<1>1. PICK n, max, first, ids, old :
        /\ n = h.cur_size /\ max = h.max_size /\ first = h.timer_ids_freelist
        /\ ids = h.timer_ids /\ old = FreeIds(h) \ held
  OBVIOUS
<1>2. /\ n \in Nat /\ max \in Nat /\ ids \in [0 .. max - 1 -> Int] /\ first \in Int
      /\ h \in Heaps(n, max) /\ h.heap \in [0 .. n - 1 -> Entries]
  BY <1>1 DEF Sound, Heaps
<1>3. Threaded(ids, first, max, old)
  BY <1>1 DEF Stocked
<1>4. \A k \in old : k \in 1 .. max - 1 /\ ids[k] < 0
  BY <1>1 DEF FreeIds
<1>5. id \in 1 .. max - 1 /\ ids[id] < 0
  BY <1>1 DEF Stocked, FreeIds
<1>6. first > 0
  BY <1>2, <1>3, <1>4, <1>5, ThreadEnds
<1>7. id \in 0 .. max - 1
  BY <1>2, <1>5
<1>8. Pushed(q, h, id, n, max)
  BY <1>2, <1>7, PushIs
<1>9. PICK new : new = q.timer_ids
  OBVIOUS
<1>10. /\ q \in Heaps(n, max) /\ q.heap = h.heap /\ q.timer_ids_freelist = id /\ new[id] = -first
       /\ \A i \in 0 .. max - 1 : i # id => new[i] = ids[i]
  BY <1>1, <1>8, <1>9 DEF Pushed, But
<1>11. q.cur_size = n /\ q.max_size = max
  BY <1>10 DEF Heaps
<1>12. \A i \in 1 .. max - 1 : i # id => new[i] = ids[i]
  <2>1. \A i \in 1 .. max - 1 : i \in 0 .. max - 1
    BY <1>2
  <2> QED
    BY <1>10, <2>1
<1>13. Indexed(q.heap, new, E, n, max)
  <2>1. Indexed(h.heap, ids, E, n, max)
    BY <1>1 DEF Sound
  <2>2. \A s \in 0 .. n - 1 : E[h.heap[s]]._timer_id \in 1 .. max - 1 /\ ids[E[h.heap[s]]._timer_id] = s
    BY <2>1 DEF Indexed
  <2>3. \A s \in 0 .. n - 1 : E[h.heap[s]]._timer_id # id
    <3>1. ASSUME NEW s \in 0 .. n - 1, E[h.heap[s]]._timer_id = id
          PROVE  FALSE
      <4>1. ids[id] = s
        BY <2>2, <3>1
      <4>2. s \in Int /\ s >= 0
        OBVIOUS
      <4> QED
        BY <1>5, <4>1, <4>2
    <3> QED
      BY <3>1
  <2>4. \A s \in 0 .. n - 1 : new[E[h.heap[s]]._timer_id] = s
    BY <1>12, <2>2, <2>3
  <2>5. \A i \in 1 .. max - 1 : ids[i] >= 0 => ids[i] \in 0 .. n - 1 /\ E[h.heap[ids[i]]]._timer_id = i
    BY <2>1 DEF Indexed
  <2>6. new[id] < 0
    BY <1>2, <1>6, <1>10
  <2>7. \A i \in 1 .. max - 1 : new[i] >= 0 => new[i] \in 0 .. n - 1 /\ E[h.heap[new[i]]]._timer_id = i
    <3> TAKE i \in 1 .. max - 1
    <3>1. new[id] \in Int
      BY <1>2, <1>10
    <3>2. CASE i = id
      BY <2>6, <3>1, <3>2
    <3>3. CASE i # id
      BY <1>12, <2>5, <3>3
    <3> QED
      BY <3>2, <3>3
  <2> QED
    BY <1>10, <2>2, <2>4, <2>7 DEF Indexed
<1>14. InOrder(q.heap, E)
  BY <1>10 DEF Sound
<1>15. Sound(q, E)
  BY <1>2, <1>9, <1>10, <1>11, <1>13, <1>14 DEF Sound
<1>16. FreeIds(q) = FreeIds(h)
  <2>1. FreeIds(h) = {i \in 1 .. max - 1 : ids[i] < 0}
    BY <1>1 DEF FreeIds
  <2>2. FreeIds(q) = {i \in 1 .. max - 1 : new[i] < 0}
    BY <1>9, <1>11 DEF FreeIds
  <2>3. new[id] < 0
    BY <1>2, <1>6, <1>10
  <2>4. \A i \in 1 .. max - 1 : new[i] < 0 <=> ids[i] < 0
    BY <1>5, <1>12, <2>3
  <2> QED
    BY <2>1, <2>2, <2>4
<1>17. FreeIds(q) \ (held \ {id}) = old \cup {id} /\ id \notin old
  BY <1>1, <1>16 DEF Stocked
<1>18. Threaded(new, id, max, old \cup {id})
  <2>1. \A k \in old : new[k] = ids[k]
    BY <1>4, <1>12, <1>17
  <2>2. -new[id] = first /\ id \in Int
    BY <1>2, <1>5, <1>10
  <2> QED
    BY <1>3, <1>17, <2>1, <2>2, ThreadPush
<1>19. Stocked(q, held \ {id})
  BY <1>9, <1>10, <1>11, <1>16, <1>17, <1>18 DEF Stocked
<1>20. In(q) = In(h)
  BY <1>10 DEF In
<1> QED
  BY <1>1, <1>11, <1>15, <1>16, <1>19, <1>20 DEF Freed

(* An entry is inserted with an id that was held for it.                   *)
Filed(r, h, E, held, node) ==
  /\ Sound(r, E) /\ Stocked(r, held) /\ r.max_size >= h.max_size
  /\ In(r) = In(h) \cup {node}

(* insert_node keeps the heap and its free list, with the id held for the  *)
(* entry in use, also when the array grows.                                *)
THEOREM InsertStocked ==
  ASSUME NEW E, Timed(E), NEW h, Sound(h, E), NEW held, NEW id, Stocked(h, held \cup {id}),
         id \notin held, NEW node \in Entries, id = E[node]._timer_id,
         NEW r, r = insert_node(h, E, node)
  PROVE  Filed(r, h, E, held, node)
<1>1. PICK max, first, ids, old : /\ max = h.max_size /\ first = h.timer_ids_freelist
                                  /\ ids = h.timer_ids /\ old = FreeIds(h) \ (held \cup {id})
  OBVIOUS
<1>2. max \in Nat /\ ids \in [0 .. max - 1 -> Int] /\ first \in Int
  BY <1>1 DEF Sound, Heaps
<1>3. Threaded(ids, first, max, old)
  BY <1>1 DEF Stocked
<1>4. FreeIds(h) = {i \in 1 .. max - 1 : ids[i] < 0}
  BY <1>1 DEF FreeIds
<1>5. \A k \in old : k \in 1 .. max - 1 /\ ids[k] < 0 /\ k # id
  BY <1>1, <1>4
<1>6. id \in 1 .. max - 1 /\ ids[id] < 0
  BY <1>4 DEF Stocked
<1>7. Inserted(r, h, E, node, id)
  BY <1>1, <1>6, InsertIs
<1>8. PICK new, max1 : new = r.timer_ids /\ max1 = r.max_size
  OBVIOUS
<1>9. /\ Sound(r, E)
      /\ max1 = max \/ max1 = 2 * max
      /\ r.timer_ids_freelist = first
      /\ \A i \in 1 .. max - 1 : new[i] < 0 <=> ids[i] < 0 /\ i # id
      /\ \A i \in 1 .. max - 1 : ids[i] < 0 /\ i # id => new[i] = ids[i]
      /\ \A i \in max .. max1 - 1 : new[i] = -(i + 1)
      /\ In(r) = In(h) \cup {node}
  BY <1>1, <1>7, <1>8 DEF Inserted
<1>10. max1 \in Nat /\ max <= max1 /\ Sound(r, E) /\ max >= 2
  BY <1>1, <1>2, <1>6, <1>7, <1>8 DEF Inserted
<1>11. FreeIds(r) = (FreeIds(h) \ {id}) \cup (max .. max1 - 1)
  <2>1. FreeIds(r) = {i \in 1 .. max1 - 1 : new[i] < 0}
    BY <1>8 DEF FreeIds
  <2>2. \A i \in 1 .. max1 - 1 : i \in 1 .. max - 1 \/ i \in max .. max1 - 1
    BY <1>2, <1>10
  <2>3. \A i \in max .. max1 - 1 : i \in 1 .. max1 - 1 /\ new[i] < 0
    BY <1>2, <1>9, <1>10
  <2>4. \A i \in 1 .. max - 1 : i \in 1 .. max1 - 1
    BY <1>2, <1>10
  <2> QED
    BY <1>4, <1>9, <2>1, <2>2, <2>3, <2>4
<1>12. held \subseteq FreeIds(h) \ {id} /\ FreeIds(h) \subseteq 1 .. max - 1
  BY <1>1, <1>4 DEF Stocked
<1>13. FreeIds(r) \ held = old \cup (max .. max1 - 1)
  <2>1. \A i \in max .. max1 - 1 : i \notin held
    BY <1>2, <1>10, <1>12
  <2> QED
    BY <1>1, <1>11, <2>1
<1>14. Threaded(new, first, max1, old \cup (max .. max1 - 1))
  <2>1. \A k \in old : new[k] = ids[k] /\ k < max
    BY <1>2, <1>5, <1>9
  <2> QED
    BY <1>2, <1>3, <1>9, <1>10, <2>1, ThreadGrow
<1>15. held \subseteq FreeIds(r)
  BY <1>11, <1>12
<1>16. Stocked(r, held)
  BY <1>8, <1>9, <1>13, <1>14, <1>15 DEF Stocked
<1> QED
  BY <1>1, <1>2, <1>7, <1>8, <1>10, <1>16 DEF Filed, Inserted

(* The heap pj_timer_heap_create makes is empty, and all its ids are free. *)
LEMMA StockedNew ==
  ASSUME NEW h, h = pj_timer_heap_create(Size), NEW E
  PROVE  Sound(h, E) /\ Stocked(h, {}) /\ h.max_size = Size + 2 /\ In(h) = {}
<1>1. PICK max, ids : max = Size + 2 /\ ids = FreshIds(0, Size + 1)
  OBVIOUS
<1>2. Size \in Nat /\ max \in Nat /\ max >= 2 /\ Size + 1 = max - 1
  BY <1>1, TimerHeapAssumption
<1>3. ids = [i \in 0 .. max - 1 |-> -(i + 1)]
  BY <1>1, <1>2 DEF FreshIds
<1>4. ids \in [0 .. max - 1 -> Int] /\ \A i \in 0 .. max - 1 : ids[i] = -(i + 1) /\ ids[i] < 0
  BY <1>2, <1>3
<1>5. /\ h.cur_size = 0 /\ h.max_size = max /\ h.timer_ids_freelist = 1 /\ h.timer_ids = ids
      /\ h.heap = [s \in 0 .. -1 |-> NoEntry]
  BY <1>1 DEF pj_timer_heap_create
<1>6. h \in Heaps(0, max)
  <2>1. 0 - 1 = -1 /\ 0 .. -1 = {}
    OBVIOUS
  <2>2. [s \in 0 .. -1 |-> NoEntry] \in [0 .. 0 - 1 -> Entries]
    BY <2>1
  <2>3. h = [cur_size |-> 0, max_size |-> max, heap |-> [s \in 0 .. -1 |-> NoEntry],
             timer_ids |-> ids, timer_ids_freelist |-> 1]
    BY <1>1 DEF pj_timer_heap_create
  <2> QED
    BY <1>4, <2>2, <2>3 DEF Heaps
<1>7. DOMAIN h.heap = {} /\ In(h) = {}
  BY <1>5 DEF In
<1>8. InOrder(h.heap, E)
  BY <1>7 DEF InOrder
<1>9. \A i \in 1 .. max - 1 : i \in 0 .. max - 1
  BY <1>2
<1>10. Indexed(h.heap, ids, E, 0, max)
  BY <1>2, <1>4, <1>9 DEF Indexed
<1>11. Sound(h, E)
  BY <1>2, <1>5, <1>6, <1>8, <1>10 DEF Sound
<1>12. FreeIds(h) \ {} = 1 .. max - 1
  BY <1>4, <1>5, <1>9 DEF FreeIds
<1>13. Threaded(ids, 1, 1, {})
  <2>1. PICK q : q = [i \in 0 .. 0 |-> 1]
    OBVIOUS
  <2>2. Runs(q, 0, ids, 1, 1, {})
    BY <2>1 DEF Runs
  <2> QED
    BY <2>2 DEF Threaded
<1>14. Threaded(ids, 1, max, {} \cup (1 .. max - 1))
  <2>1. \A k \in 1 .. max - 1 : ids[k] = -(k + 1)
    BY <1>4, <1>9
  <2>2. 1 \in Nat /\ 1 <= max
    BY <1>2
  <2> QED
    BY <1>2, <1>13, <2>1, <2>2, ThreadGrow
<1>15. {} \cup (1 .. max - 1) = 1 .. max - 1
  OBVIOUS
<1>16. Stocked(h, {})
  BY <1>5, <1>12, <1>14, <1>15 DEF Stocked
<1> QED
  BY <1>1, <1>5, <1>7, <1>11, <1>16

-----------------------------------------------------------------------------
(* What the proofs assume beside the specification: whoever is about to    *)
(* schedule an entry finds a free id.                                      *)
Room == \A t \in Threads : thr[t].sched # NoEntry => ht.timer_ids_freelist \in DOMAIN ht.timer_ids

ThreadStates ==
  [pc : {"idle", "callback", "relock"}, id : Nat, node : Entries \cup {NoEntry}, grp : BOOLEAN,
   now : Int, count : 0 .. MaxPerPoll, sched : Entries \cup {NoEntry}, expires : Int]

(* The ids held by polls, and by the polls of other threads.               *)
Others(t) == {thr[u].id : u \in {v \in Threads \ {t} : Polling(v)}}

(* The inductive invariant.                                                *)
ThreadInv ==
  /\ thr \in [Threads -> ThreadStates]
  /\ \A t \in Threads : /\ thr[t].pc = "idle" => thr[t].id = 0
                        /\ thr[t].grp => thr[t].pc = "callback"
                        /\ thr[t].sched # NoEntry => thr[t].pc # "relock"
Apart == \A t, u \in Threads : Polling(t) /\ Polling(u) /\ thr[t].id = thr[u].id => t = u
SchedInv ==
  \A t \in Threads : thr[t].sched # NoEntry =>
    thr[t].sched \notin Armed /\ \A u \in Threads : thr[u].sched = thr[t].sched => u = t
HeapInv == Sound(ht, entry) /\ Stocked(ht, Held) /\ ht.max_size >= Size + 2
EntryInv ==
  /\ entry \in [Entries -> Fields]
  /\ \A e \in Entries \ Armed : entry[e]._timer_id = -1 /\ ~entry[e]._grp_lock
OfEntries(E) == {e \in Entries : E[e]._grp_lock}
OfThreads(th) == {t \in Threads : th[t].grp}
RefInv == refs = Cardinality(OfEntries(entry)) + Cardinality(OfThreads(thr))
IInv == ThreadInv /\ Apart /\ SchedInv /\ HeapInv /\ EntryInv /\ RefInv

(* A step of one thread, by what the invariant reads of it.                *)
Became(t, pc, id, grp, sched) ==
  /\ thr' \in [Threads -> ThreadStates]
  /\ \A u \in Threads \ {t} : thr'[u] = thr[u]
  /\ thr'[t].pc = pc /\ thr'[t].id = id /\ thr'[t].grp = grp /\ thr'[t].sched = sched

(* The held ids, seen from one thread.                                     *)
LEMMA HeldIs ==
  ASSUME NEW t \in Threads
  PROVE  /\ Polling(t) => Held = Others(t) \cup {thr[t].id}
         /\ ~Polling(t) => Held = Others(t)
  BY DEF Held, Others

(* The held ids after a step of one thread.                                *)
LEMMA HeldBecame ==
  ASSUME NEW t \in Threads, NEW pc, NEW id, NEW grp, NEW sched, Became(t, pc, id, grp, sched)
  PROVE  /\ pc # "idle" => Held' = Others(t) \cup {id}
         /\ pc = "idle" => Held' = Others(t)
<1>1. Held' = {thr'[u].id : u \in {v \in Threads : thr'[v].pc # "idle"}}
  BY DEF Held, Polling
<1>2. Others(t) = {thr[u].id : u \in {v \in Threads \ {t} : thr[v].pc # "idle"}}
  BY DEF Others, Polling
<1>3. \A u \in Threads \ {t} : thr'[u] = thr[u]
  BY DEF Became
<1>4. thr'[t].pc = pc /\ thr'[t].id = id
  BY DEF Became
<1>5. ASSUME pc # "idle"
      PROVE  Held' = Others(t) \cup {id}
  BY <1>1, <1>2, <1>3, <1>4, <1>5
<1>6. ASSUME pc = "idle"
      PROVE  Held' = Others(t)
  BY <1>1, <1>2, <1>3, <1>4, <1>6
<1> QED
  BY <1>5, <1>6

(* A step of one thread that takes no id of another keeps what is said of  *)
(* the threads.                                                            *)
LEMMA ThreadBecame ==
  ASSUME ThreadInv, Apart, NEW t \in Threads, NEW pc, NEW id, NEW grp, NEW sched,
         Became(t, pc, id, grp, sched),
         pc = "idle" => id = 0, grp => pc = "callback", sched # NoEntry => pc # "relock",
         pc # "idle" => id \notin Others(t)
  PROVE  ThreadInv' /\ Apart'
<1>1. /\ thr' \in [Threads -> ThreadStates] /\ \A u \in Threads \ {t} : thr'[u] = thr[u]
      /\ thr'[t].pc = pc /\ thr'[t].id = id /\ thr'[t].grp = grp /\ thr'[t].sched = sched
  BY DEF Became
<1>2. ThreadInv'
  <2>1. ASSUME NEW u \in Threads
        PROVE  /\ thr'[u].pc = "idle" => thr'[u].id = 0
               /\ thr'[u].grp => thr'[u].pc = "callback"
               /\ thr'[u].sched # NoEntry => thr'[u].pc # "relock"
    <3>1. CASE u = t
      BY <1>1, <3>1
    <3>2. CASE u # t
      BY <1>1, <3>2 DEF ThreadInv
    <3> QED
      BY <3>1, <3>2
  <2> QED
    BY <1>1, <2>1 DEF ThreadInv
<1>3. Apart'
  <2> SUFFICES ASSUME NEW u \in Threads, NEW v \in Threads, thr'[u].pc # "idle",
                      thr'[v].pc # "idle", thr'[u].id = thr'[v].id, u # v
               PROVE  FALSE
    BY DEF Apart, Polling
  <2>1. ASSUME NEW w \in Threads, w # t, thr'[w].pc # "idle"
        PROVE  thr'[w].id \in Others(t)
    <3>1. thr'[w] = thr[w]
      BY <1>1, <2>1
    <3> QED
      BY <2>1, <3>1 DEF Others, Polling
  <2>2. u # t /\ v # t
    BY <1>1, <2>1
  <2>3. thr'[u] = thr[u] /\ thr'[v] = thr[v]
    BY <1>1, <2>2
  <2> QED
    BY <2>3 DEF Apart, Polling
<1> QED
  BY <1>2, <1>3

(* Entries of scheduling threads stay out of the heap.                     *)
Enters(t, sched, new) ==
  /\ Armed' \subseteq Armed \cup new
  /\ \A u \in Threads \ {t} : thr[u].sched # NoEntry => thr[u].sched \notin new
  /\ sched # NoEntry => sched \notin Armed' /\ \A u \in Threads \ {t} : thr[u].sched # sched

(* A step keeps the scheduled entries out of the heap, and apart.          *)
LEMMA SchedBecame ==
  ASSUME SchedInv, NEW t \in Threads, NEW pc, NEW id, NEW grp, NEW sched,
         Became(t, pc, id, grp, sched), NEW new, Enters(t, sched, new)
  PROVE  SchedInv'
<1> USE DEF Enters
<1>1. /\ \A u \in Threads \ {t} : thr'[u] = thr[u]
      /\ thr'[t].sched = sched
  BY DEF Became
<1> SUFFICES ASSUME NEW u \in Threads, thr'[u].sched # NoEntry
             PROVE  /\ thr'[u].sched \notin Armed'
                    /\ \A v \in Threads : thr'[v].sched = thr'[u].sched => v = u
  BY DEF SchedInv
<1>2. CASE u = t
  BY <1>1, <1>2
<1>3. CASE u # t
  <2>1. thr'[u] = thr[u]
    BY <1>1, <1>3
  <2>2. thr'[u].sched \notin Armed'
    BY <1>3, <2>1 DEF SchedInv
  <2>3. ASSUME NEW v \in Threads, thr'[v].sched = thr'[u].sched
        PROVE  v = u
    <3>1. CASE v = t
      BY <1>1, <1>3, <2>1, <2>3, <3>1
    <3>2. CASE v # t
      <4>1. thr'[v] = thr[v]
        BY <1>1, <3>2
      <4> QED
        BY <2>1, <2>3, <4>1 DEF SchedInv
    <3> QED
      BY <3>1, <3>2
  <2> QED
    BY <2>2, <2>3
<1> QED
  BY <1>2, <1>3

(* The entries of the heap are the armed ones.                             *)
LEMMA InArmed == In(ht) = Armed
  BY DEF In, Armed

(* The same after the step.                                                *)
LEMMA InArmedNext == In(ht') = Armed'
  BY DEF In, Armed

(* What is in the heap has an id, and only that.                           *)
LEMMA ArmedIs ==
  ASSUME HeapInv, EntryInv
  PROVE  /\ Timed(entry) /\ Armed \subseteq Entries
         /\ \A e \in Entries : entry[e]._timer_id >= 1 <=> e \in Armed
         /\ \A e \in Entries : entry[e]._timer_id \in Int
<1>1. PICK n, max, heap : n = ht.cur_size /\ max = ht.max_size /\ heap = ht.heap
  OBVIOUS
<1>2. /\ n \in Nat /\ max \in Nat /\ heap \in [0 .. n - 1 -> Entries]
      /\ Indexed(heap, ht.timer_ids, entry, n, max)
  BY <1>1 DEF HeapInv, Sound, Heaps
<1>3. Armed = {heap[s] : s \in 0 .. n - 1}
  BY <1>1, <1>2 DEF Armed
<1>4. entry \in [Entries -> Fields]
  BY DEF EntryInv
<1>5. Timed(entry)
  BY <1>4 DEF Timed, Fields
<1>6. Armed \subseteq Entries
  BY <1>2, <1>3
<1>7. \A e \in Entries : entry[e]._timer_id \in Int
  BY <1>4 DEF Fields
<1>8. ASSUME NEW e \in Armed
      PROVE  entry[e]._timer_id >= 1
  <2>1. PICK s \in 0 .. n - 1 : e = heap[s]
    BY <1>3
  <2>2. entry[heap[s]]._timer_id \in 1 .. max - 1
    BY <1>2 DEF Indexed
  <2> QED
    BY <2>1, <2>2
<1>9. ASSUME NEW e \in Entries, e \notin Armed
      PROVE  ~(entry[e]._timer_id >= 1)
  <2>1. entry[e]._timer_id = -1
    BY <1>9 DEF EntryInv
  <2> QED
    BY <2>1
<1> QED
  BY <1>5, <1>6, <1>7, <1>8, <1>9

(* The references as a step changes them.                                  *)
LEMMA RefsFinite ==
  ASSUME NEW E, NEW th
  PROVE  /\ IsFiniteSet(OfEntries(E)) /\ IsFiniteSet(OfThreads(th))
         /\ Cardinality(OfEntries(E)) \in Nat /\ Cardinality(OfThreads(th)) \in Nat
<1>1. IsFiniteSet(Entries) /\ IsFiniteSet(Threads)
  BY TimerHeapAssumption
<1>2. OfEntries(E) \subseteq Entries /\ OfThreads(th) \subseteq Threads
  BY DEF OfEntries, OfThreads
<1>3. IsFiniteSet(OfEntries(E)) /\ IsFiniteSet(OfThreads(th))
  BY <1>1, <1>2, FS_Subset
<1> QED
  BY <1>3, FS_CardinalityType

Counted(new, old, was, is) ==
  /\ new \in Nat /\ old \in Nat
  /\ new = old + (IF is /\ ~was THEN 1 ELSE 0) - (IF was /\ ~is THEN 1 ELSE 0)

(* The references of entries, when those of one entry change.              *)
LEMMA EntryRefs ==
  ASSUME NEW E, NEW F, NEW e \in Entries,
         \A f \in Entries \ {e} : F[f]._grp_lock = E[f]._grp_lock,
         NEW was \in BOOLEAN, NEW is \in BOOLEAN, E[e]._grp_lock = was, F[e]._grp_lock = is
  PROVE  Counted(Cardinality(OfEntries(F)), Cardinality(OfEntries(E)), was, is)
<1>1. IsFiniteSet(OfEntries(E)) /\ Cardinality(OfEntries(E)) \in Nat
  BY RefsFinite
<1>2. Cardinality(OfEntries(F)) \in Nat
  BY RefsFinite
<1>3. CASE is /\ ~was
  <2>1. OfEntries(F) = OfEntries(E) \cup {e} /\ e \notin OfEntries(E)
    BY <1>3 DEF OfEntries
  <2>2. Cardinality(OfEntries(E) \cup {e}) = Cardinality(OfEntries(E)) + 1
    BY <1>1, <2>1, FS_AddElement
  <2> QED
    BY <1>1, <1>2, <1>3, <2>1, <2>2 DEF Counted
<1>4. CASE was /\ ~is
  <2>1. OfEntries(F) = OfEntries(E) \ {e} /\ e \in OfEntries(E)
    BY <1>4 DEF OfEntries
  <2>2. Cardinality(OfEntries(E) \ {e}) = Cardinality(OfEntries(E)) - 1
    BY <1>1, <2>1, FS_RemoveElement
  <2> QED
    BY <1>1, <1>2, <1>4, <2>1, <2>2 DEF Counted
<1>5. CASE is = was
  <2>1. OfEntries(F) = OfEntries(E)
    BY <1>5 DEF OfEntries
  <2> QED
    BY <1>1, <1>2, <1>5, <2>1 DEF Counted
<1> QED
  BY <1>3, <1>4, <1>5

(* The references of callbacks, when that of one thread changes.           *)
LEMMA ThreadRefs ==
  ASSUME NEW th, NEW th1, NEW t \in Threads, \A u \in Threads \ {t} : th1[u] = th[u],
         NEW was \in BOOLEAN, NEW is \in BOOLEAN, th[t].grp = was, th1[t].grp = is
  PROVE  Counted(Cardinality(OfThreads(th1)), Cardinality(OfThreads(th)), was, is)
<1>1. IsFiniteSet(OfThreads(th)) /\ Cardinality(OfThreads(th)) \in Nat
  BY RefsFinite
<1>2. Cardinality(OfThreads(th1)) \in Nat
  BY RefsFinite
<1>3. CASE is /\ ~was
  <2>1. OfThreads(th1) = OfThreads(th) \cup {t} /\ t \notin OfThreads(th)
    BY <1>3 DEF OfThreads
  <2>2. Cardinality(OfThreads(th) \cup {t}) = Cardinality(OfThreads(th)) + 1
    BY <1>1, <2>1, FS_AddElement
  <2> QED
    BY <1>1, <1>2, <1>3, <2>1, <2>2 DEF Counted
<1>4. CASE was /\ ~is
  <2>1. OfThreads(th1) = OfThreads(th) \ {t} /\ t \in OfThreads(th)
    BY <1>4 DEF OfThreads
  <2>2. Cardinality(OfThreads(th) \ {t}) = Cardinality(OfThreads(th)) - 1
    BY <1>1, <2>1, FS_RemoveElement
  <2> QED
    BY <1>1, <1>2, <1>4, <2>1, <2>2 DEF Counted
<1>5. CASE is = was
  <2>1. OfThreads(th1) = OfThreads(th)
    BY <1>5 DEF OfThreads
  <2> QED
    BY <1>1, <1>2, <1>5, <2>1 DEF Counted
<1> QED
  BY <1>3, <1>4, <1>5

(* A step that leaves the heap and the entries alone, and the polls.       *)
LEMMA HeapSame ==
  ASSUME HeapInv, EntryInv, UNCHANGED <<ht, entry>>, Held' = Held
  PROVE  HeapInv' /\ EntryInv' /\ Armed' = Armed
<1>1. Armed' = Armed
  BY DEF Armed
<1>2. HeapInv'
  BY DEF HeapInv
<1>3. EntryInv'
  BY <1>1 DEF EntryInv
<1> QED
  BY <1>1, <1>2, <1>3

(* schedule_w_grp_lock up to the lock keeps the invariant: the entry is in *)
(* no heap, and no other thread schedules it.                              *)
LEMMA ScheduleKeeps ==
  ASSUME IInv, Serialised, NEW t \in Threads, NEW e \in Entries, NEW d \in Delays, Schedule(t, e, d)
  PROVE  IInv'
<1>1. /\ thr[t].pc \in {"idle", "callback"} /\ thr[t].sched = NoEntry
      /\ \A u \in Threads : thr[u].sched # e
      /\ entry[e]._timer_id < 1
      /\ thr' = [thr EXCEPT ![t].sched = e, ![t].expires = d]
      /\ UNCHANGED <<ht, entry, refs>>
  BY DEF Schedule, MayCall
<1>2. thr \in [Threads -> ThreadStates] /\ d \in Int /\ e # NoEntry
  BY TimerHeapAssumption DEF IInv, ThreadInv
<1>3. Became(t, thr[t].pc, thr[t].id, thr[t].grp, e)
  <2>1. PICK s : s = thr[t]
    OBVIOUS
  <2>2. s \in ThreadStates
    BY <1>2, <2>1
  <2>3. PICK new : new = [s EXCEPT !.sched = e, !.expires = d]
    OBVIOUS
  <2>4. /\ new \in ThreadStates /\ new.pc = s.pc /\ new.id = s.id /\ new.grp = s.grp
        /\ new.sched = e
    BY <1>2, <2>2, <2>3 DEF ThreadStates
  <2>5. thr' = [thr EXCEPT ![t] = new]
    BY <1>1, <2>1, <2>3
  <2> QED
    BY <1>2, <2>1, <2>4, <2>5 DEF Became
<1>4. thr[t].pc # "idle" => thr[t].id \notin Others(t)
  BY DEF Others, IInv, Apart, Polling
<1>5. ThreadInv' /\ Apart'
  <2>1. /\ thr[t].pc = "idle" => thr[t].id = 0
        /\ thr[t].grp => thr[t].pc = "callback"
        /\ e # NoEntry => thr[t].pc # "relock"
    BY <1>1 DEF IInv, ThreadInv
  <2> QED
    BY <1>3, <1>4, <2>1, ThreadBecame DEF IInv
<1>6. Held' = Held
  BY <1>3, HeldBecame, HeldIs DEF Polling
<1>7. HeapInv' /\ EntryInv' /\ Armed' = Armed
  BY <1>1, <1>6, HeapSame DEF IInv
<1>8. SchedInv'
  <2>1. e \notin Armed
    <3>1. \A f \in Entries : entry[f]._timer_id >= 1 <=> f \in Armed
      BY ArmedIs DEF IInv
    <3>2. entry[e]._timer_id \in Int
      BY ArmedIs DEF IInv
    <3> QED
      BY <1>1, <3>1, <3>2
  <2>2. Armed' \subseteq Armed \cup {}
    BY <1>7
  <2>3. e # NoEntry => e \notin Armed' /\ \A u \in Threads \ {t} : thr[u].sched # e
    BY <1>1, <1>7, <2>1
  <2>4. \A u \in Threads \ {t} : thr[u].sched # NoEntry => thr[u].sched \notin {}
    OBVIOUS
  <2>5. Enters(t, e, {})
    BY <2>2, <2>3, <2>4 DEF Enters
  <2> QED
    BY <1>3, <2>5, SchedBecame DEF IInv
<1>9. RefInv'
  <2>1. OfThreads(thr') = OfThreads(thr)
    <3>1. \A u \in Threads : thr'[u].grp = thr[u].grp
      BY <1>3 DEF Became
    <3> QED
      BY <3>1 DEF OfThreads
  <2> QED
    BY <1>1, <2>1 DEF IInv, RefInv
<1> QED
  BY <1>5, <1>7, <1>8, <1>9 DEF IInv

(* A heap that poll may take the root of: what is in it is what was, and   *)
(* its list leaves out the ids of the other threads.                       *)
Ready(h, t) ==
  /\ Sound(h, entry) /\ Stocked(h, Others(t)) /\ h.max_size = ht.max_size /\ In(h) = Armed

(* The entries of the heap without one of them.                            *)
Released(F, node) ==
  /\ F \in [Entries -> Fields] /\ node \in Entries
  /\ \A e \in Entries \ {node} : F[e] = entry[e]
  /\ F[node]._timer_id = -1 /\ F[node]._timer_value = entry[node]._timer_value
  /\ F[node]._grp_lock = FALSE

(* What cancel and poll write in the entry.                                *)
LEMMA ReleasedIs ==
  ASSUME EntryInv, NEW node \in Entries, NEW F,
         F = [entry EXCEPT ![node]._timer_id = -1, ![node]._grp_lock = FALSE]
  PROVE  Released(F, node)
<1>1. PICK s : s = entry[node]
  OBVIOUS
<1>2. entry \in [Entries -> Fields] /\ s \in Fields
  BY <1>1 DEF EntryInv
<1>3. PICK new : new = [s EXCEPT !._timer_id = -1, !._grp_lock = FALSE]
  OBVIOUS
<1>4. /\ new \in Fields /\ new._timer_id = -1 /\ new._timer_value = s._timer_value
      /\ new._grp_lock = FALSE
  <2>1. new = [_timer_id |-> -1, _timer_value |-> s._timer_value, _grp_lock |-> FALSE]
    BY <1>2, <1>3 DEF Fields
  <2> QED
    BY <1>2, <2>1 DEF Fields
<1>5. F = [entry EXCEPT ![node] = new]
  BY <1>1, <1>3
<1> QED
  BY <1>1, <1>2, <1>4, <1>5 DEF Released

(* The heap without the entry is sound for what they write.                *)
LEMMA ReleasedSound ==
  ASSUME NEW h, NEW node, NEW F, Sound(h, entry), Released(F, node), node \notin In(h),
         In(h) \subseteq Entries
  PROVE  Sound(h, F)
<1>1. \A e \in In(h) : /\ F[e]._timer_id = entry[e]._timer_id
                       /\ F[e]._timer_value = entry[e]._timer_value
  BY DEF Released
<1> QED
  BY <1>1, SoundSame

(* The entry that left is at rest.                                         *)
LEMMA ReleasedKeeps ==
  ASSUME EntryInv, NEW node, Released(entry', node), Armed' = Armed \ {node}
  PROVE  EntryInv'
<1>1. ASSUME NEW e \in Entries, e \notin Armed'
      PROVE  entry'[e]._timer_id = -1 /\ ~entry'[e]._grp_lock
  <2>1. CASE e = node
    BY <2>1 DEF Released
  <2>2. CASE e # node
    <3>1. entry'[e] = entry[e] /\ e \notin Armed
      BY <1>1, <2>2 DEF Released
    <3> QED
      BY <3>1 DEF EntryInv
  <2> QED
    BY <2>1, <2>2
<1> QED
  BY <1>1 DEF EntryInv, Released

(* A poll takes an entry that is due and no later than any other.          *)
Taken(t, node, now) ==
  /\ node \in Armed /\ Armed' = Armed \ {node} /\ Released(entry', node)
  /\ entry[node]._timer_value <= now
  /\ \A e \in Armed : entry[node]._timer_value <= entry[e]._timer_value
  /\ \A u \in Threads \ {t} : thr'[u] = thr[u]
  /\ thr'[t].pc = "callback" /\ thr'[t].node = node /\ thr'[t].now = now
  /\ thr'[t].sched = NoEntry

(* Taking the root keeps the invariant: its id leaves the index and is     *)
(* held, its reference passes to the thread.                               *)
LEMMA TakeKeeps ==
  ASSUME IInv, NEW t \in Threads, NEW h, NEW now \in Int, NEW count \in 0 .. MaxPerPoll,
         Ready(h, t), IsDue(h, now), ~thr[t].grp,
         Take(t, h, now, count)
  PROVE  IInv' /\ \E node : Taken(t, node, now)
<1>1. PICK node, removed, id : /\ node = h.heap[0] /\ removed = remove_node(h, entry, 0)
                               /\ id = removed.timer_ids_freelist
  OBVIOUS
<1>2. PICK state : state = [IdleThread EXCEPT !.pc = "callback", !.node = node, !.id = id,
                               !.grp = entry[node]._grp_lock, !.now = now, !.count = count]
  OBVIOUS
<1>3. /\ ht' \in pop_freelist(removed)
      /\ entry' = [entry EXCEPT ![node]._timer_id = -1, ![node]._grp_lock = FALSE]
      /\ thr' = [thr EXCEPT ![t] = state]
      /\ refs' = refs
  BY <1>1, <1>2 DEF Take, StillHeld
<1>4. Timed(entry) /\ Armed \subseteq Entries
  BY ArmedIs DEF IInv
<1>5. /\ h.cur_size \in Nat /\ 0 \in 0 .. h.cur_size - 1 /\ DOMAIN h.heap = 0 .. h.cur_size - 1
      /\ Sound(h, entry) /\ Stocked(h, Others(t)) /\ h.max_size = ht.max_size /\ In(h) = Armed
  BY DEF Ready, Sound, Heaps, IsDue
<1>6. node \in Armed
  BY <1>1, <1>5 DEF In
<1>7. Removed(removed, h, entry, Others(t), 0, id)
  <2>1. PICK key : key = entry[h.heap[0]]._timer_id
    OBVIOUS
  <2>2. Removed(removed, h, entry, Others(t), 0, key)
    BY <1>1, <1>4, <1>5, <2>1, RemoveStocked
  <2>3. key = id
    BY <1>1, <2>2 DEF Removed
  <2> QED
    BY <2>2, <2>3
<1>8. /\ Sound(removed, entry) /\ Stocked(removed, Others(t)) /\ removed.max_size = h.max_size
      /\ id \in Nat \ {0} /\ id \notin Others(t) /\ id \in FreeIds(removed)
      /\ In(removed) = In(h) \ {h.heap[0]}
  BY <1>7 DEF Removed
<1>9. id \in DOMAIN removed.timer_ids
  <2>1. PICK max : max = removed.max_size
    OBVIOUS
  <2>2. max \in Nat /\ DOMAIN removed.timer_ids = 0 .. max - 1
    BY <1>8, <2>1 DEF Sound, Heaps
  <2>3. id \in 1 .. max - 1
    BY <1>8, <2>1 DEF FreeIds
  <2> QED
    BY <2>2, <2>3
<1>10. Popped(ht', removed, entry, Others(t), id)
  BY <1>1, <1>3, <1>8, <1>9, PopStocked
<1>11. /\ Sound(ht', entry) /\ Stocked(ht', Others(t) \cup {id})
       /\ ht'.max_size = removed.max_size /\ In(ht') = In(removed)
  BY <1>10 DEF Popped
<1>12. Armed' = Armed \ {node}
  BY <1>1, <1>5, <1>8, <1>11, InArmedNext
<1>13. Released(entry', node)
  BY <1>3, <1>4, <1>6, ReleasedIs DEF IInv
<1>14. EntryInv'
  BY <1>12, <1>13, ReleasedKeeps DEF IInv
<1>15. Sound(ht', entry')
  <2>1. In(ht') \subseteq Entries /\ node \notin In(ht')
    BY <1>4, <1>12, InArmedNext
  <2> QED
    BY <1>11, <1>13, <2>1, ReleasedSound
<1>16. PICK lock : lock = entry[node]._grp_lock
  OBVIOUS
<1>17. lock \in BOOLEAN
  BY <1>4, <1>6, <1>16 DEF IInv, EntryInv, Fields
<1>18. /\ state \in ThreadStates /\ state.pc = "callback" /\ state.id = id /\ state.grp = lock
       /\ state.sched = NoEntry /\ state.node = node /\ state.now = now
  <2>1. state = [pc |-> "callback", node |-> node, id |-> id, grp |-> lock, now |-> now,
                 count |-> count, sched |-> NoEntry, expires |-> 0]
    BY <1>2, <1>16 DEF IdleThread
  <2> QED
    BY <1>4, <1>6, <1>8, <1>17, <2>1 DEF ThreadStates
<1>19. Became(t, "callback", id, lock, NoEntry)
  BY <1>3, <1>18 DEF Became, IInv, ThreadInv
<1>20. ThreadInv' /\ Apart'
  BY <1>8, <1>19, ThreadBecame DEF IInv
<1>21. Held' = Others(t) \cup {id}
  BY <1>19, HeldBecame
<1>22. HeapInv'
  BY <1>5, <1>8, <1>11, <1>15, <1>21 DEF HeapInv, IInv
<1>23. SchedInv'
  <2>1. Enters(t, NoEntry, {})
    BY <1>12 DEF Enters
  <2> QED
    BY <1>19, <2>1, SchedBecame DEF IInv
<1>24. RefInv'
  <2>1. /\ \A u \in Threads \ {t} : thr'[u] = thr[u]
        /\ thr'[t].grp = lock /\ thr[t].grp = FALSE
    BY <1>19 DEF Became, IInv, ThreadInv, ThreadStates
  <2>2. Counted(Cardinality(OfThreads(thr')), Cardinality(OfThreads(thr)), FALSE, lock)
    BY <1>17, <2>1, ThreadRefs
  <2>3. /\ \A e \in Entries \ {node} : entry'[e]._grp_lock = entry[e]._grp_lock
        /\ entry'[node]._grp_lock = FALSE
    BY <1>13 DEF Released
  <2>4. Counted(Cardinality(OfEntries(entry')), Cardinality(OfEntries(entry)), lock, FALSE)
    BY <1>4, <1>6, <1>16, <1>17, <2>3, EntryRefs
  <2> QED
    BY <1>3, <1>17, <2>2, <2>4 DEF RefInv, IInv, Counted
<1>25. ASSUME NEW e \in Armed
       PROVE  entry[node]._timer_value <= entry[e]._timer_value
  <2>1. PICK n, heap : n = h.cur_size /\ heap = h.heap
    OBVIOUS
  <2>2. n \in Nat /\ heap \in [0 .. n - 1 -> Entries] /\ InOrder(heap, entry)
    BY <1>5, <2>1 DEF Sound, Heaps
  <2>3. PICK s \in 0 .. n - 1 : e = heap[s]
    BY <1>5, <2>1 DEF In
  <2>4. GTE(entry, e, node)
    BY <1>1, <1>4, <2>1, <2>2, <2>3, RootFirst
  <2>5. entry[e]._timer_value \in Int /\ entry[node]._timer_value \in Int
    BY <1>4, <1>6 DEF Timed
  <2> QED
    BY <2>4, <2>5 DEF GTE, LT
<1>26. Taken(t, node, now)
  <2>1. entry[node]._timer_value <= now
    BY <1>1 DEF IsDue
  <2>2. thr'[t] = state /\ \A u \in Threads \ {t} : thr'[u] = thr[u]
    BY <1>3 DEF IInv, ThreadInv
  <2> QED
    BY <1>6, <1>12, <1>13, <1>18, <1>25, <2>1, <2>2 DEF Taken
<1>27. IInv'
  BY <1>14, <1>20, <1>22, <1>23, <1>24 DEF IInv
<1> QED
  BY <1>26, <1>27

(* The first turn of a poll keeps the invariant.                           *)
LEMMA PollStartKeeps ==
  ASSUME IInv, NEW t \in Threads, PollStart(t)
  PROVE  IInv' /\ \E node : Taken(t, node, 0)
<1>1. thr[t].pc = "idle" /\ IsDue(ht, 0) /\ Take(t, ht, 0, 1)
  BY DEF PollStart
<1>2. ~thr[t].grp
  BY <1>1 DEF IInv, ThreadInv
<1>3. Ready(ht, t)
  BY <1>1, HeldIs, InArmed DEF Ready, IInv, HeapInv, Polling
<1>4. 1 \in 0 .. MaxPerPoll
  BY TimerHeapAssumption
<1> QED
  BY <1>1, <1>2, <1>3, <1>4, TakeKeeps

(* The end of a callback keeps the invariant: the reference of the thread  *)
(* is given back.                                                          *)
LEMMA CallbackReturnsKeeps ==
  ASSUME IInv, NEW t \in Threads, CallbackReturns(t)
  PROVE  IInv'
<1>1. /\ thr[t].pc = "callback" /\ thr[t].sched = NoEntry
      /\ refs' = IF thr[t].grp THEN refs - 1 ELSE refs
      /\ thr' = [thr EXCEPT ![t].pc = "relock", ![t].node = NoEntry, ![t].grp = FALSE]
      /\ UNCHANGED <<ht, entry>>
  BY DEF CallbackReturns
<1>2. PICK s : s = thr[t]
  OBVIOUS
<1>3. thr \in [Threads -> ThreadStates] /\ s \in ThreadStates
  BY <1>2 DEF IInv, ThreadInv
<1>4. PICK new : new = [s EXCEPT !.pc = "relock", !.node = NoEntry, !.grp = FALSE]
  OBVIOUS
<1>5. /\ new \in ThreadStates /\ new.pc = "relock" /\ new.id = s.id /\ new.grp = FALSE
      /\ new.sched = s.sched
  BY <1>3, <1>4 DEF ThreadStates
<1>6. thr' = [thr EXCEPT ![t] = new]
  BY <1>1, <1>2, <1>4
<1>7. PICK id : id = thr[t].id
  OBVIOUS
<1>8. Became(t, "relock", id, FALSE, NoEntry)
  <2>1. thr' \in [Threads -> ThreadStates] /\ thr'[t] = new
    BY <1>3, <1>5, <1>6
  <2>2. \A u \in Threads \ {t} : thr'[u] = thr[u]
    BY <1>3, <1>6
  <2>3. new.id = id /\ new.sched = NoEntry
    BY <1>1, <1>2, <1>5, <1>7
  <2> QED
    BY <1>5, <2>1, <2>2, <2>3 DEF Became
<1>9. id \notin Others(t)
  BY <1>1, <1>7 DEF Others, IInv, Apart, Polling
<1>10. ThreadInv' /\ Apart'
  BY <1>8, <1>9, ThreadBecame DEF IInv
<1>11. Held' = Held
  BY <1>1, <1>7, <1>8, HeldBecame, HeldIs DEF Polling
<1>12. HeapInv' /\ EntryInv' /\ Armed' = Armed
  BY <1>1, <1>11, HeapSame DEF IInv
<1>13. SchedInv'
  <2>1. Enters(t, NoEntry, {})
    BY <1>12 DEF Enters
  <2> QED
    BY <1>8, <2>1, SchedBecame DEF IInv
<1>14. RefInv'
  <2>1. PICK lock : lock = thr[t].grp
    OBVIOUS
  <2>2. /\ \A u \in Threads \ {t} : thr'[u] = thr[u]
        /\ thr'[t].grp = FALSE /\ lock \in BOOLEAN
    BY <1>2, <1>3, <1>8, <2>1 DEF Became, ThreadStates
  <2>3. Counted(Cardinality(OfThreads(thr')), Cardinality(OfThreads(thr)), lock, FALSE)
    BY <2>1, <2>2, ThreadRefs
  <2>4. Cardinality(OfEntries(entry)) \in Nat
    BY RefsFinite
  <2> QED
    BY <1>1, <2>1, <2>2, <2>3, <2>4 DEF RefInv, IInv, Counted
<1> QED
  BY <1>10, <1>12, <1>13, <1>14 DEF IInv

(* The further turns and the end of a poll keep the invariant: the held id *)
(* is free again.                                                          *)
LEMMA PollNextKeeps ==
  ASSUME IInv, NEW t \in Threads, PollNext(t)
  PROVE  /\ IInv'
         /\ \/ \E node : Taken(t, node, thr[t].now)
            \/ entry' = entry /\ Armed' = Armed /\ thr' = [thr EXCEPT ![t] = IdleThread]
<1>1. PICK h, id : id = thr[t].id /\ h = push_freelist(ht, id)
  OBVIOUS
<1>2. thr[t].pc = "relock" /\ thr[t].sched = NoEntry /\ ~thr[t].grp
  BY DEF PollNext, IInv, ThreadInv
<1>3. thr \in [Threads -> ThreadStates]
  BY DEF IInv, ThreadInv
<1>4. Held = Others(t) \cup {id} /\ id \notin Others(t)
  <2>1. Held = Others(t) \cup {id}
    BY <1>1, <1>2, HeldIs DEF Polling
  <2>2. id \notin Others(t)
    BY <1>1, <1>2 DEF Others, IInv, Apart, Polling
  <2> QED
    BY <2>1, <2>2
<1>5. Freed(h, ht, entry, Held, id)
  BY <1>1, <1>4, PushStocked DEF IInv, HeapInv
<1>6. Held \ {id} = Others(t)
  BY <1>4
<1>7. Ready(h, t)
  BY <1>5, <1>6, InArmed DEF Freed, Ready
<1>8. CASE IsDue(h, thr[t].now) /\ thr[t].count < MaxPerPoll
  <2>1. PICK now, count : now = thr[t].now /\ count = thr[t].count + 1
    OBVIOUS
  <2>2. now \in Int /\ count \in 0 .. MaxPerPoll
    <3>1. thr[t] \in ThreadStates
      BY <1>3
    <3>2. thr[t].now \in Int /\ thr[t].count \in 0 .. MaxPerPoll
      BY <3>1 DEF ThreadStates
    <3> QED
      BY <1>8, <2>1, <3>2, TimerHeapAssumption
  <2>3. Take(t, h, now, count) /\ IsDue(h, now)
    BY <1>1, <1>8, <2>1 DEF PollNext
  <2>4. IInv' /\ \E node : Taken(t, node, now)
    BY <1>2, <1>7, <2>2, <2>3, TakeKeeps
  <2> QED
    BY <2>1, <2>4
<1>9. CASE ~(IsDue(h, thr[t].now) /\ thr[t].count < MaxPerPoll)
  <2>1. ht' = h /\ thr' = [thr EXCEPT ![t] = IdleThread] /\ UNCHANGED <<entry, refs>>
    BY <1>1, <1>9 DEF PollNext
  <2>2. /\ IdleThread \in ThreadStates /\ IdleThread.pc = "idle" /\ IdleThread.id = 0
        /\ IdleThread.grp = FALSE /\ IdleThread.sched = NoEntry
    BY TimerHeapAssumption DEF IdleThread, ThreadStates
  <2>3. Became(t, "idle", 0, FALSE, NoEntry)
    BY <1>3, <2>1, <2>2 DEF Became
  <2>4. ThreadInv' /\ Apart'
    BY <2>3, ThreadBecame DEF IInv
  <2>5. Held' = Others(t)
    BY <2>3, HeldBecame
  <2>6. Armed' = Armed
    BY <1>7, <2>1, InArmedNext DEF Ready
  <2>7. HeapInv'
    BY <1>7, <2>1, <2>5 DEF Ready, HeapInv, IInv
  <2>8. EntryInv'
    BY <2>1, <2>6 DEF EntryInv, IInv
  <2>9. SchedInv'
    <3>1. Enters(t, NoEntry, {})
      BY <2>6 DEF Enters
    <3> QED
      BY <2>3, <3>1, SchedBecame DEF IInv
  <2>10. RefInv'
    <3>1. OfThreads(thr') = OfThreads(thr)
      <4>1. \A u \in Threads : thr'[u].grp = TRUE <=> thr[u].grp = TRUE
        BY <1>2, <2>3 DEF Became
      <4>2. \A u \in Threads : thr'[u] \in ThreadStates /\ thr[u] \in ThreadStates
        BY <1>3, <2>3 DEF Became
      <4>3. \A u \in Threads : thr'[u].grp \in BOOLEAN /\ thr[u].grp \in BOOLEAN
        BY <4>2 DEF ThreadStates
      <4> QED
        BY <4>1, <4>3 DEF OfThreads
    <3> QED
      BY <2>1, <3>1 DEF RefInv, IInv
  <2>11. IInv'
    BY <2>4, <2>7, <2>8, <2>9, <2>10 DEF IInv
  <2> QED
    BY <2>1, <2>6, <2>11
<1> QED
  BY <1>8, <1>9

(* An entry is found in the heap exactly if it is there.                   *)
LEMMA InHeapIs ==
  ASSUME HeapInv, EntryInv, NEW e \in Entries
  PROVE  /\ InHeap(e) <=> e \in Armed
         /\ InHeap(e) => LET slot == ht.timer_ids[entry[e]._timer_id]
                         IN  slot \in 0 .. ht.cur_size - 1 /\ ht.heap[slot] = e
<1>1. PICK n, max, heap, ids, id : /\ n = ht.cur_size /\ max = ht.max_size /\ heap = ht.heap
                                   /\ ids = ht.timer_ids /\ id = entry[e]._timer_id
  OBVIOUS
<1>2. /\ n \in Nat /\ max \in Nat /\ heap \in [0 .. n - 1 -> Entries]
      /\ ids \in [0 .. max - 1 -> Int] /\ Indexed(heap, ids, entry, n, max)
  BY <1>1 DEF HeapInv, Sound, Heaps
<1>3. InHeap(e) <=> 0 <= id /\ id <= max /\ ids[id] >= 0 /\ e = heap[ids[id]]
  BY <1>1 DEF InHeap
<1>4. Armed = {heap[s] : s \in 0 .. n - 1}
  BY <1>1, <1>2 DEF Armed
<1>5. ASSUME e \in Armed
      PROVE  ids[id] \in 0 .. n - 1 /\ heap[ids[id]] = e /\ InHeap(e)
  <2>1. PICK s \in 0 .. n - 1 : e = heap[s]
    BY <1>4, <1>5
  <2>2. id \in 1 .. max - 1 /\ ids[id] = s
    BY <1>1, <1>2, <2>1 DEF Indexed
  <2>3. 0 <= id /\ id <= max /\ ids[id] >= 0
    BY <1>2, <2>2
  <2> QED
    BY <1>3, <2>1, <2>2, <2>3
<1>6. ASSUME e \notin Armed
      PROVE  ~InHeap(e)
  <2>1. id = -1
    BY <1>1, <1>6 DEF EntryInv
  <2> QED
    BY <1>3, <2>1
<1> QED
  BY <1>1, <1>5, <1>6

(* cancel_timer keeps the invariant, whether or not the entry is in the    *)
(* heap.                                                                   *)
LEMMA CancelKeeps ==
  ASSUME IInv, NEW t \in Threads, NEW e \in Entries, Cancel(t, e)
  PROVE  IInv' /\ Armed' = Armed \ {e} /\ Released(entry', e)
<1>1. PICK lock : lock = entry[e]._grp_lock
  OBVIOUS
<1>2. /\ ht' = IF InHeap(e) THEN remove_node(ht, entry, ht.timer_ids[entry[e]._timer_id]) ELSE ht
      /\ entry' = [entry EXCEPT ![e]._timer_id = -1, ![e]._grp_lock = FALSE]
      /\ refs' = IF lock THEN refs - 1 ELSE refs
      /\ thr' = thr
  BY <1>1 DEF Cancel, RefsAfterCancel
<1>3. Timed(entry) /\ Armed \subseteq Entries /\ \A f \in Entries : entry[f]._timer_id \in Int
  BY ArmedIs DEF IInv
<1>4. Released(entry', e)
  BY <1>2, ReleasedIs DEF IInv
<1>5. ThreadInv' /\ Apart' /\ Held' = Held /\ OfThreads(thr') = OfThreads(thr)
  BY <1>2 DEF IInv, ThreadInv, Apart, Held, Polling, OfThreads
<1>6. Sound(ht', entry') /\ Stocked(ht', Held) /\ ht'.max_size = ht.max_size /\ Armed' = Armed \ {e}
  <2>1. CASE e \in Armed
    <3>1. PICK slot, id : slot = ht.timer_ids[id] /\ id = entry[e]._timer_id
      OBVIOUS
    <3>2. slot \in 0 .. ht.cur_size - 1 /\ ht.heap[slot] = e /\ InHeap(e)
      BY <2>1, <3>1, InHeapIs DEF IInv
    <3>3. ht' = remove_node(ht, entry, slot)
      BY <1>2, <3>1, <3>2
    <3>4. Sound(ht, entry) /\ Stocked(ht, Held) /\ id = entry[ht.heap[slot]]._timer_id
      BY <3>1, <3>2 DEF IInv, HeapInv
    <3>5. Removed(ht', ht, entry, Held, slot, id)
      BY <1>3, <3>2, <3>3, <3>4, RemoveStocked
    <3>6. /\ Sound(ht', entry) /\ Stocked(ht', Held) /\ ht'.max_size = ht.max_size
          /\ In(ht') = In(ht) \ {e}
      BY <3>2, <3>5 DEF Removed
    <3>7. Armed' = Armed \ {e}
      BY <3>6, InArmed, InArmedNext
    <3>8. Sound(ht', entry')
      BY <1>3, <1>4, <3>6, <3>7, InArmedNext, ReleasedSound
    <3> QED
      BY <3>6, <3>7, <3>8
  <2>2. CASE e \notin Armed
    <3>1. ht' = ht
      BY <1>2, <2>2, InHeapIs DEF IInv
    <3>2. Armed' = Armed
      BY <3>1 DEF Armed
    <3>3. Sound(ht, entry) /\ Stocked(ht, Held)
      BY DEF IInv, HeapInv
    <3>4. Sound(ht, entry')
      BY <1>3, <1>4, <2>2, <3>3, InArmed, ReleasedSound
    <3> QED
      BY <2>2, <3>1, <3>2, <3>3, <3>4
  <2> QED
    BY <2>1, <2>2
<1>7. HeapInv'
  BY <1>5, <1>6 DEF HeapInv, IInv
<1>8. EntryInv'
  BY <1>4, <1>6, ReleasedKeeps DEF IInv
<1>9. SchedInv'
  BY <1>2, <1>6 DEF SchedInv, IInv
<1>10. RefInv'
  <2>1. lock \in BOOLEAN
    BY <1>1 DEF IInv, EntryInv, Fields
  <2>2. /\ \A f \in Entries \ {e} : entry'[f]._grp_lock = entry[f]._grp_lock
        /\ entry'[e]._grp_lock = FALSE
    BY <1>4 DEF Released
  <2>3. Counted(Cardinality(OfEntries(entry')), Cardinality(OfEntries(entry)), lock, FALSE)
    BY <1>1, <2>1, <2>2, EntryRefs
  <2>4. Cardinality(OfThreads(thr)) \in Nat
    BY RefsFinite
  <2> QED
    BY <1>2, <1>5, <2>1, <2>3, <2>4 DEF RefInv, IInv, Counted
<1>11. IInv'
  BY <1>5, <1>7, <1>8, <1>9, <1>10 DEF IInv
<1> QED
  BY <1>4, <1>6, <1>11

(* An entry enters the heap with the time it was scheduled for.            *)
Arrived(e, time) ==
  /\ e \in Entries \ Armed /\ Armed' = Armed \cup {e} /\ entry'[e]._timer_value = time
  /\ \A f \in Entries \ {e} : entry'[f] = entry[f]

(* schedule_entry keeps the invariant, when it finds a free id.            *)
LEMMA InsertKeeps ==
  ASSUME IInv, Room, NEW t \in Threads, Insert(t)
  PROVE  /\ IInv'
         /\ \/ Arrived(thr[t].sched, thr[t].expires)
            \/ UNCHANGED <<ht, entry>>
<1>1. PICK e, s, new, id : /\ e = thr[t].sched /\ s = thr[t] /\ id = ht.timer_ids_freelist
                           /\ new = [s EXCEPT !.sched = NoEntry, !.expires = 0]
  OBVIOUS
<1>2. e # NoEntry /\ thr' = [thr EXCEPT ![t] = new]
  BY <1>1 DEF Insert
<1>3. thr \in [Threads -> ThreadStates] /\ s \in ThreadStates
  BY <1>1 DEF IInv, ThreadInv
<1>4. e \in Entries /\ thr[t].expires \in Int
  BY <1>1, <1>2, <1>3 DEF ThreadStates
<1>5. /\ new \in ThreadStates /\ new.pc = s.pc /\ new.id = s.id /\ new.grp = s.grp
      /\ new.sched = NoEntry
  <2>1. new = [s EXCEPT !.sched = NoEntry, !.expires = 0]
    BY <1>1
  <2>2. new = [pc |-> s.pc, id |-> s.id, node |-> s.node, grp |-> s.grp, now |-> s.now,
               count |-> s.count, sched |-> NoEntry, expires |-> 0]
    BY <1>3, <2>1 DEF ThreadStates
  <2> QED
    BY <1>3, <2>2 DEF ThreadStates
<1>6. PICK pc, key, grp : pc = thr[t].pc /\ key = thr[t].id /\ grp = thr[t].grp
  OBVIOUS
<1>7. Became(t, pc, key, grp, NoEntry)
  <2>1. thr' \in [Threads -> ThreadStates] /\ thr'[t] = new
    BY <1>2, <1>3, <1>5
  <2>2. \A u \in Threads \ {t} : thr'[u] = thr[u]
    BY <1>2, <1>3
  <2>3. new.pc = pc /\ new.id = key /\ new.grp = grp
    BY <1>1, <1>5, <1>6
  <2> QED
    BY <1>5, <2>1, <2>2, <2>3 DEF Became
<1>8. ThreadInv' /\ Apart'
  <2>1. (pc = "idle" => key = 0) /\ (grp => pc = "callback")
    BY <1>6 DEF IInv, ThreadInv
  <2>2. pc # "idle" => key \notin Others(t)
    BY <1>6 DEF Others, IInv, Apart, Polling
  <2> QED
    BY <1>7, <2>1, <2>2, ThreadBecame DEF IInv
<1>9. Held' = Held
  BY <1>6, <1>7, HeldBecame, HeldIs DEF Polling
<1>10. OfThreads(thr') = OfThreads(thr)
  <2>1. \A u \in Threads : thr'[u].grp = thr[u].grp
    BY <1>6, <1>7 DEF Became
  <2> QED
    BY <2>1 DEF OfThreads
<1>11. e \notin Armed /\ \A u \in Threads \ {t} : thr[u].sched # e
  BY <1>1, <1>2 DEF IInv, SchedInv
<1>12. CASE ht.cur_size < ht.max_size
  <2>1. PICK h \in pop_freelist(ht) : Entered(t, h)
    BY <1>12 DEF Insert
  <2>2. PICK scheduled : scheduled = [_timer_id |-> id, _timer_value |-> thr[t].expires,
                                      _grp_lock |-> e \in Grouped]
    OBVIOUS
  <2>3. /\ entry' = [entry EXCEPT ![e] = scheduled]
        /\ ht' = insert_node(h, entry', e)
        /\ refs' = IF e \in Grouped THEN refs + 1 ELSE refs
    BY <1>1, <2>1, <2>2 DEF Entered
  <2>4. Sound(ht, entry) /\ Stocked(ht, Held) /\ ht.max_size \in Nat /\ id \in Int
    BY <1>1 DEF IInv, HeapInv, Sound, Heaps
  <2>5. Popped(h, ht, entry, Held, id)
    <3>1. id \in DOMAIN ht.timer_ids
      BY <1>1, <1>2 DEF Room
    <3> QED
      BY <1>1, <2>1, <2>4, <3>1, PopStocked
  <2>6. /\ Sound(h, entry) /\ Stocked(h, Held \cup {id}) /\ id \notin Held
        /\ h.max_size = ht.max_size /\ In(h) = In(ht)
    BY <2>5 DEF Popped
  <2>7. entry \in [Entries -> Fields] /\ scheduled \in Fields
    BY <1>4, <2>2, <2>4 DEF IInv, EntryInv, Fields
  <2>8. /\ entry' \in [Entries -> Fields] /\ entry'[e] = scheduled
        /\ \A f \in Entries \ {e} : entry'[f] = entry[f]
    BY <1>4, <2>3, <2>7
  <2>9. Timed(entry')
    BY <2>8 DEF Timed, Fields
  <2>10. Sound(h, entry')
    <3>1. Armed \subseteq Entries
      BY ArmedIs DEF IInv
    <3>2. \A f \in In(h) : f \in Entries \ {e}
      BY <1>11, <2>6, <3>1, InArmed
    <3>3. \A f \in In(h) : /\ entry'[f]._timer_id = entry[f]._timer_id
                           /\ entry'[f]._timer_value = entry[f]._timer_value
      BY <2>8, <3>2
    <3> QED
      BY <2>6, <3>3, SoundSame
  <2>11. entry'[e]._timer_id = id /\ entry'[e]._grp_lock = (e \in Grouped)
    BY <2>2, <2>8
  <2>12. Filed(ht', h, entry', Held, e)
    BY <1>4, <2>3, <2>6, <2>9, <2>10, <2>11, InsertStocked
  <2>13. /\ Sound(ht', entry') /\ Stocked(ht', Held) /\ ht'.max_size >= ht.max_size
         /\ In(ht') = In(h) \cup {e}
    BY <2>6, <2>12 DEF Filed
  <2>14. Armed' = Armed \cup {e}
    BY <2>6, <2>13, InArmed, InArmedNext
  <2>15. HeapInv'
    <3>1. ht'.max_size \in Nat /\ Size \in Nat /\ ht.max_size >= Size + 2
      BY <2>13, TimerHeapAssumption DEF Sound, IInv, HeapInv
    <3> QED
      BY <1>9, <2>4, <2>13, <3>1 DEF HeapInv
  <2>16. EntryInv'
    <3>1. \A f \in Entries \ Armed' : entry'[f] = entry[f] /\ f \notin Armed
      BY <2>8, <2>14
    <3> QED
      BY <2>8, <3>1 DEF EntryInv, IInv
  <2>17. SchedInv'
    <3>1. Enters(t, NoEntry, {e})
      BY <1>11, <2>14 DEF Enters
    <3> QED
      BY <1>6, <1>7, <3>1, SchedBecame DEF IInv
  <2>18. RefInv'
    <3>1. PICK lock : lock = (e \in Grouped)
      OBVIOUS
    <3>2. lock \in BOOLEAN /\ entry'[e]._grp_lock = lock
      BY <2>11, <3>1
    <3>3. entry[e]._grp_lock = FALSE
      BY <1>4, <1>11, <2>7 DEF IInv, EntryInv, Fields
    <3>4. \A f \in Entries \ {e} : entry'[f]._grp_lock = entry[f]._grp_lock
      BY <2>8
    <3>5. Counted(Cardinality(OfEntries(entry')), Cardinality(OfEntries(entry)), FALSE, lock)
      BY <1>4, <3>2, <3>3, <3>4, EntryRefs
    <3>6. Cardinality(OfThreads(thr)) \in Nat
      BY RefsFinite
    <3>7. refs = Cardinality(OfEntries(entry)) + Cardinality(OfThreads(thr))
      BY DEF RefInv, IInv
    <3>8. CASE lock
      <4>1. refs' = refs + 1
        BY <2>3, <3>1, <3>8
      <4> QED
        BY <1>10, <3>5, <3>6, <3>7, <3>8, <4>1 DEF RefInv, Counted
    <3>9. CASE ~lock
      <4>1. refs' = refs
        BY <2>3, <3>1, <3>9
      <4> QED
        BY <1>10, <3>5, <3>6, <3>7, <3>9, <4>1 DEF RefInv, Counted
    <3> QED
      BY <3>8, <3>9
  <2>19. IInv'
    BY <1>8, <2>15, <2>16, <2>17, <2>18 DEF IInv
  <2>20. Arrived(thr[t].sched, thr[t].expires)
    BY <1>1, <1>4, <1>11, <2>2, <2>8, <2>14 DEF Arrived
  <2> QED
    BY <2>19, <2>20
<1>13. CASE ~(ht.cur_size < ht.max_size)
  <2>1. UNCHANGED <<ht, entry, refs>>
    BY <1>13 DEF Insert
  <2>2. HeapInv' /\ EntryInv' /\ Armed' = Armed
    BY <1>9, <2>1, HeapSame DEF IInv
  <2>3. SchedInv'
    <3>1. Enters(t, NoEntry, {})
      BY <2>2 DEF Enters
    <3> QED
      BY <1>6, <1>7, <3>1, SchedBecame DEF IInv
  <2>4. RefInv'
    BY <1>10, <2>1 DEF RefInv, IInv
  <2>5. IInv'
    BY <1>8, <2>2, <2>3, <2>4 DEF IInv
  <2> QED
    BY <2>1, <2>5
<1> QED
  BY <1>12, <1>13

(* The order of the heap depends on which of two entries is earlier only.  *)
LEMMA SoundAlike ==
  ASSUME NEW h, NEW E, NEW F, Sound(h, E),
         \A e \in In(h) : F[e]._timer_id = E[e]._timer_id,
         \A e, f \in In(h) : LT(F, e, f) <=> LT(E, e, f)
  PROVE  Sound(h, F)
<1>1. PICK n, max, heap, ids : n = h.cur_size /\ max = h.max_size /\ heap = h.heap /\ ids = h.timer_ids
  OBVIOUS
<1>2. /\ n \in Nat /\ max \in Nat /\ h \in Heaps(n, max) /\ Indexed(heap, ids, E, n, max)
      /\ InOrder(heap, E) /\ heap \in [0 .. n - 1 -> Entries]
  BY <1>1 DEF Sound, Heaps
<1>3. ASSUME NEW s \in 0 .. n - 1
      PROVE  heap[s] \in In(h) /\ F[heap[s]]._timer_id = E[heap[s]]._timer_id
  <2>1. heap[s] \in In(h)
    BY <1>1, <1>2 DEF In
  <2> QED
    BY <2>1
<1>4. Indexed(heap, ids, F, n, max)
  BY <1>2, <1>3 DEF Indexed
<1>5. InOrder(heap, F)
  <2>1. \A s \in 0 .. n - 1 : HEAP_PARENT(s) \in 0 .. n - 1
    BY <1>2, ParentIn
  <2>2. DOMAIN heap = 0 .. n - 1
    BY <1>2
  <2> QED
    BY <1>2, <1>3, <2>1, <2>2 DEF InOrder, GTE
<1> QED
  BY <1>1, <1>2, <1>4, <1>5 DEF Sound

(* All times are a unit older, and nothing else is.                        *)
Aged ==
  /\ Armed' = Armed
  /\ \A e \in Armed : entry'[e]._timer_value = entry[e]._timer_value - 1
  /\ \A t \in Threads : thr'[t].node = thr[t].node

(* Time keeps the invariant.                                               *)
LEMMA TickKeeps ==
  ASSUME IInv, Tick
  PROVE  IInv' /\ Aged
<1>1. /\ entry' = [e \in Entries |-> IF e \in Armed THEN [entry[e] EXCEPT !._timer_value = Older(@)]
                                     ELSE entry[e]]
      /\ thr' = [t \in Threads |-> [thr[t] EXCEPT
                   !.now = IF Polling(t) THEN Older(@) ELSE @,
                   !.expires = IF thr[t].sched # NoEntry THEN Older(@) ELSE @]]
      /\ UNCHANGED <<ht, refs>>
  BY DEF Tick
<1>2. entry \in [Entries -> Fields] /\ thr \in [Threads -> ThreadStates]
  BY DEF IInv, EntryInv, ThreadInv
<1>3. ASSUME NEW e \in Entries
      PROVE  /\ entry'[e] \in Fields /\ entry'[e]._timer_id = entry[e]._timer_id
             /\ entry'[e]._grp_lock = entry[e]._grp_lock
             /\ e \in Armed => entry'[e]._timer_value = entry[e]._timer_value - 1
  <2>1. PICK s : s = entry[e]
    OBVIOUS
  <2>2. s \in Fields
    BY <1>2, <2>1
  <2>3. CASE e \in Armed
    <3>1. PICK new : new = [s EXCEPT !._timer_value = s._timer_value - 1]
      OBVIOUS
    <3>2. /\ new \in Fields /\ new._timer_id = s._timer_id /\ new._grp_lock = s._grp_lock
          /\ new._timer_value = s._timer_value - 1
      BY <2>2, <3>1 DEF Fields
    <3>3. entry'[e] = new
      BY <1>1, <2>1, <2>3, <3>1 DEF Older
    <3> QED
      BY <2>1, <3>2, <3>3
  <2>4. CASE e \notin Armed
    BY <1>1, <2>1, <2>2, <2>4
  <2> QED
    BY <2>3, <2>4
<1>4. ASSUME NEW t \in Threads
      PROVE  /\ thr'[t] \in ThreadStates /\ thr'[t].pc = thr[t].pc /\ thr'[t].id = thr[t].id
             /\ thr'[t].grp = thr[t].grp /\ thr'[t].sched = thr[t].sched
             /\ thr'[t].node = thr[t].node
  <2>1. PICK s : s = thr[t]
    OBVIOUS
  <2>2. s \in ThreadStates
    BY <1>2, <2>1
  <2>3. PICK a, b : /\ a = IF Polling(t) THEN s.now - 1 ELSE s.now
                    /\ b = IF thr[t].sched # NoEntry THEN s.expires - 1 ELSE s.expires
    OBVIOUS
  <2>4. a \in Int /\ b \in Int
    BY <2>2, <2>3 DEF ThreadStates
  <2>5. thr'[t] = [s EXCEPT !.now = a, !.expires = b]
    BY <1>1, <2>1, <2>2, <2>3 DEF Older, ThreadStates
  <2> QED
    BY <2>1, <2>2, <2>4, <2>5 DEF ThreadStates
<1>5. DOMAIN thr' = Threads /\ DOMAIN entry' = Entries
  BY <1>1
<1>6. thr' \in [Threads -> ThreadStates] /\ entry' \in [Entries -> Fields]
  <2>1. thr' = [t \in Threads |-> thr'[t]] /\ entry' = [e \in Entries |-> entry'[e]]
    BY <1>1
  <2> QED
    BY <1>3, <1>4, <2>1
<1>7. ThreadInv'
  BY <1>4, <1>6 DEF ThreadInv, IInv
<1>8. Apart' /\ Held' = Held
  <2>1. \A t \in Threads : Polling(t)' <=> Polling(t)
    BY <1>4 DEF Polling
  <2> QED
    BY <1>4, <2>1 DEF Apart, Held, IInv
<1>9. Armed' = Armed
  BY <1>1 DEF Armed
<1>10. SchedInv'
  BY <1>4, <1>9 DEF SchedInv, IInv
<1>11. EntryInv'
  BY <1>3, <1>6, <1>9 DEF EntryInv, IInv
<1>12. Sound(ht, entry')
  <2>1. Armed \subseteq Entries /\ In(ht) = Armed
    BY ArmedIs, InArmed DEF IInv
  <2>2. \A e \in In(ht) : entry'[e]._timer_id = entry[e]._timer_id
    BY <1>3, <2>1
  <2>3. ASSUME NEW e \in In(ht), NEW f \in In(ht)
        PROVE  LT(entry', e, f) <=> LT(entry, e, f)
    <3>1. entry'[e]._timer_value = entry[e]._timer_value - 1
      BY <1>3, <2>1
    <3>2. entry'[f]._timer_value = entry[f]._timer_value - 1
      BY <1>3, <2>1
    <3>3. entry[e]._timer_value \in Int /\ entry[f]._timer_value \in Int
      BY <1>2, <2>1 DEF Fields
    <3> QED
      BY <3>1, <3>2, <3>3 DEF LT
  <2>4. Sound(ht, entry)
    BY DEF IInv, HeapInv
  <2> QED
    BY <2>2, <2>3, <2>4, SoundAlike
<1>13. HeapInv'
  BY <1>1, <1>8, <1>12 DEF HeapInv, IInv
<1>14. RefInv'
  <2>1. OfThreads(thr') = OfThreads(thr) /\ OfEntries(entry') = OfEntries(entry)
    BY <1>3, <1>4 DEF OfThreads, OfEntries
  <2> QED
    BY <1>1, <2>1 DEF RefInv, IInv
<1>15. IInv'
  BY <1>7, <1>8, <1>10, <1>11, <1>13, <1>14 DEF IInv
<1>16. Aged
  <2>1. Armed \subseteq Entries
    BY ArmedIs DEF IInv
  <2> QED
    BY <1>3, <1>4, <1>9, <2>1 DEF Aged
<1> QED
  BY <1>15, <1>16

(* The heap pj_timer_heap_create makes satisfies the invariant.            *)
LEMMA IInvInit == Init => IInv
<1> SUFFICES ASSUME Init PROVE IInv
  OBVIOUS
<1>1. /\ ht = pj_timer_heap_create(Size) /\ refs = 0
      /\ entry = [e \in Entries |-> [_timer_id |-> -1, _timer_value |-> 0, _grp_lock |-> FALSE]]
      /\ thr = [t \in Threads |-> IdleThread]
  BY DEF Init
<1>2. /\ IdleThread \in ThreadStates /\ IdleThread.pc = "idle" /\ IdleThread.id = 0
      /\ IdleThread.grp = FALSE /\ IdleThread.sched = NoEntry
  BY TimerHeapAssumption DEF IdleThread, ThreadStates
<1>3. ThreadInv /\ Apart /\ SchedInv /\ Held = {}
  BY <1>1, <1>2 DEF ThreadInv, Apart, SchedInv, Held, Polling
<1>4. Sound(ht, entry) /\ Stocked(ht, {}) /\ ht.max_size = Size + 2 /\ In(ht) = {}
  BY <1>1, StockedNew
<1>5. HeapInv
  BY <1>3, <1>4, TimerHeapAssumption DEF HeapInv
<1>6. \A e \in Entries : entry[e]._timer_id = -1 /\ entry[e]._grp_lock = FALSE
  BY <1>1
<1>7. EntryInv
  <2>1. entry \in [Entries -> Fields]
    BY <1>1 DEF Fields
  <2> QED
    BY <1>6, <2>1 DEF EntryInv
<1>8. OfEntries(entry) = {} /\ OfThreads(thr) = {}
  BY <1>1, <1>2, <1>6 DEF OfEntries, OfThreads
<1>9. RefInv
  <2>1. Cardinality(OfEntries(entry)) = 0 /\ Cardinality(OfThreads(thr)) = 0
    BY <1>8, FS_EmptySet
  <2> QED
    BY <1>1, <2>1 DEF RefInv
<1> QED
  BY <1>3, <1>5, <1>7, <1>9 DEF IInv

(* Every step keeps the invariant, when clients serialise their calls for  *)
(* an entry and a free id is found.                                        *)
LEMMA IInvStep ==
  ASSUME Serialised, IInv, Room, [Next]_vars
  PROVE  IInv'
<1>1. CASE Tick
  BY <1>1, TickKeeps
<1>2. ASSUME NEW t \in Threads, NEW e \in Entries, Cancel(t, e)
      PROVE  IInv'
  BY <1>2, CancelKeeps
<1>3. ASSUME NEW t \in Threads, NEW e \in Entries, NEW d \in Delays, Schedule(t, e, d)
      PROVE  IInv'
  BY <1>3, ScheduleKeeps
<1>4. ASSUME NEW t \in Threads, Insert(t)
      PROVE  IInv'
  BY <1>4, InsertKeeps
<1>5. ASSUME NEW t \in Threads, PollStart(t)
      PROVE  IInv'
  BY <1>5, PollStartKeeps
<1>6. ASSUME NEW t \in Threads, CallbackReturns(t)
      PROVE  IInv'
  BY <1>6, CallbackReturnsKeeps
<1>7. ASSUME NEW t \in Threads, PollNext(t)
      PROVE  IInv'
  BY <1>7, PollNextKeeps
<1>8. CASE UNCHANGED vars
  <2>1. UNCHANGED <<ht, entry, refs, thr>>
    BY <1>8 DEF vars
  <2>2. Armed' = Armed /\ Held' = Held
    BY <2>1 DEF Armed, Held, Polling
  <2>3. ThreadInv' /\ Apart' /\ SchedInv'
    BY <2>1, <2>2 DEF ThreadInv, Apart, SchedInv, Polling, IInv
  <2>4. HeapInv' /\ EntryInv' /\ RefInv'
    BY <2>1, <2>2 DEF HeapInv, EntryInv, RefInv, IInv
  <2> QED
    BY <2>3, <2>4 DEF IInv
<1> QED
  BY <1>1, <1>2, <1>3, <1>4, <1>5, <1>6, <1>7, <1>8 DEF Next, Client, Internal

(* The invariant implies the types.                                        *)
LEMMA IInvTypeOK == IInv => TypeOK
<1> SUFFICES ASSUME IInv PROVE TypeOK
  OBVIOUS
<1>1. ht \in [cur_size : Nat, max_size : Nat, heap : [0 .. ht.cur_size - 1 -> Entries],
              timer_ids : [0 .. ht.max_size - 1 -> Int], timer_ids_freelist : Int]
  <2>1. PICK n, max : n = ht.cur_size /\ max = ht.max_size
    OBVIOUS
  <2>2. n \in Nat /\ max \in Nat /\ ht \in Heaps(n, max)
    BY <2>1 DEF IInv, HeapInv, Sound
  <2>3. ht \in [cur_size : Nat, max_size : Nat, heap : [0 .. n - 1 -> Entries],
                timer_ids : [0 .. max - 1 -> Int], timer_ids_freelist : Int]
    BY <2>2 DEF Heaps
  <2> QED
    BY <2>1, <2>3
<1>2. entry \in [Entries -> [_timer_id : Int, _timer_value : Int, _grp_lock : BOOLEAN]]
  BY DEF IInv, EntryInv, Fields
<1>3. refs \in Nat
  BY RefsFinite DEF IInv, RefInv
<1>4. thr \in [Threads -> [pc : {"idle", "callback", "relock"}, id : Nat,
                          node : Entries \cup {NoEntry}, grp : BOOLEAN, now : Int,
                          count : 0 .. MaxPerPoll, sched : Entries \cup {NoEntry},
                          expires : Int]]
  BY DEF IInv, ThreadInv, ThreadStates
<1> QED
  BY <1>1, <1>2, <1>3, <1>4 DEF TypeOK

(* The invariant implies that index and free list are sound.               *)
LEMMA IInvIdsSound == IInv => IdsSound
<1> SUFFICES ASSUME IInv PROVE IdsSound
  OBVIOUS
<1>1. IdsInverse
  <2>1. Located(ht, entry)
    <3>1. PICK n, max : n = ht.cur_size /\ max = ht.max_size
      OBVIOUS
    <3>2. ht.heap \in [0 .. n - 1 -> Entries] /\ Indexed(ht.heap, ht.timer_ids, entry, n, max)
      BY <3>1 DEF IInv, HeapInv, Sound, Heaps
    <3> QED
      BY <3>2 DEF Indexed, Located
  <2> QED
    BY <2>1, ArmedIs DEF IInv, IdsInverse
<1>2. ASSUME NEW t \in Threads, NEW u \in Threads, Polling(t), thr[t].id = thr[u].id
      PROVE  t = u
  <2>1. thr[t].id # 0
    <3>1. thr[t].id \in Held
      BY <1>2 DEF Held
    <3>2. \A i \in FreeIds(ht) : i # 0
      BY DEF FreeIds
    <3> QED
      BY <3>1, <3>2 DEF IInv, HeapInv, Stocked
  <2>2. Polling(u)
    BY <1>2, <2>1 DEF Polling, IInv, ThreadInv
  <2> QED
    BY <1>2, <2>2 DEF IInv, Apart
<1>3. Chained(ht, FreeIds(ht) \ Held)
  BY ThreadedChained DEF IInv, HeapInv, Stocked
<1> QED
  BY <1>1, <1>2, <1>3, IInvTypeOK DEF IdsSound, FreeListSound

(* The invariant implies that the references are exact.                    *)
LEMMA IInvRefs == IInv => GroupRefsExact
<1> SUFFICES ASSUME IInv PROVE GroupRefsExact
  OBVIOUS
<1>1. \A e \in Entries : entry[e]._grp_lock => e \in Armed
  BY DEF IInv, EntryInv
<1> QED
  BY <1>1 DEF IInv, RefInv, OfEntries, OfThreads, GroupRefsExact

(* A list that ends where it begins is empty.                              *)
LEMMA ThreadEmpty ==
  ASSUME NEW next, NEW end, NEW ids, Threaded(next, end, end, ids), end \notin ids
  PROVE  ids = {}
<1>1. PICK n, q : Runs(q, n, next, end, end, ids)
  BY DEF Threaded
<1>2. n \in Nat /\ q[0] = end /\ \A i \in 0 .. n - 1 : q[i] \in ids
  BY <1>1 DEF Runs
<1>3. n = 0
  <2>1. ASSUME n > 0
        PROVE  FALSE
    <3>1. 0 \in 0 .. n - 1
      BY <1>2, <2>1
    <3> QED
      BY <1>2, <3>1
  <2> QED
    BY <1>2, <2>1
<1>4. \A k \in ids : \E i \in 0 .. n - 1 : q[i] = k
  BY <1>1 DEF Runs
<1>5. 0 .. n - 1 = {}
  BY <1>3
<1> QED
  BY <1>4, <1>5

(* The ids of entries in the heap, and those held by polls, are no more    *)
(* than the entries, and the threads.                                      *)
LEMMA IdsInUse ==
  ASSUME IInv, NEW e \in Entries \ Armed
  PROVE  LET used == {i \in 1 .. ht.max_size - 1 : ht.timer_ids[i] >= 0}
         IN  /\ IsFiniteSet(used) /\ IsFiniteSet(Held)
             /\ Cardinality(used) < Cardinality(Entries)
             /\ Cardinality(Held) <= Cardinality(Threads)
<1>1. PICK n, max, heap, ids, used :
        /\ n = ht.cur_size /\ max = ht.max_size /\ heap = ht.heap /\ ids = ht.timer_ids
        /\ used = {i \in 1 .. ht.max_size - 1 : ht.timer_ids[i] >= 0}
  OBVIOUS
<1>2. IsFiniteSet(Entries) /\ IsFiniteSet(Threads)
  BY TimerHeapAssumption
<1>3. IsFiniteSet(used) /\ Cardinality(used) <= Cardinality(Entries \ {e})
  <2>1. PICK f : f = [i \in used |-> heap[ids[i]]]
    OBVIOUS
  <2>2. heap \in [0 .. n - 1 -> Entries] /\ Indexed(heap, ids, entry, n, max)
    BY <1>1 DEF IInv, HeapInv, Sound, Heaps
  <2>3. ASSUME NEW i \in used
        PROVE  f[i] \in Entries \ {e} /\ entry[f[i]]._timer_id = i
    <3>1. ids[i] \in 0 .. n - 1 /\ entry[heap[ids[i]]]._timer_id = i
      BY <1>1, <2>2 DEF Indexed
    <3>2. f[i] = heap[ids[i]]
      BY <2>1
    <3>3. heap[ids[i]] \in Armed /\ heap[ids[i]] \in Entries
      BY <1>1, <2>2, <3>1 DEF Armed
    <3> QED
      BY <3>1, <3>2, <3>3
  <2>4. f \in [used -> Entries \ {e}]
    BY <2>1, <2>3
  <2>5. \A i, j \in used : f[i] = f[j] => i = j
    BY <2>3
  <2>6. f \in Injection(used, Entries \ {e})
    BY <2>4, <2>5 DEF Injection, IsInjective
  <2>7. IsFiniteSet(Entries \ {e})
    BY <1>2, FS_RemoveElement
  <2> QED
    BY <2>6, <2>7, FS_Injection
<1>4. IsFiniteSet(Held) /\ Cardinality(Held) <= Cardinality(Threads)
  <2>1. PICK f : f = [i \in Held |-> CHOOSE t \in Threads : thr[t].id = i]
    OBVIOUS
  <2>2. ASSUME NEW i \in Held
        PROVE  f[i] \in Threads /\ thr[f[i]].id = i
    <3>1. \E t \in Threads : thr[t].id = i
      BY DEF Held
    <3> QED
      BY <2>1, <3>1
  <2>3. f \in [Held -> Threads]
    BY <2>1, <2>2
  <2>4. \A i, j \in Held : f[i] = f[j] => i = j
    BY <2>2
  <2>5. f \in Injection(Held, Threads)
    BY <2>3, <2>4 DEF Injection, IsInjective
  <2> QED
    BY <1>2, <2>5, FS_Injection
<1>5. Cardinality(Entries \ {e}) = Cardinality(Entries) - 1
  BY <1>2, FS_RemoveElement
<1>6. Cardinality(Entries) \in Nat /\ Cardinality(used) \in Nat
  BY <1>2, <1>3, FS_CardinalityType
<1> QED
  BY <1>1, <1>3, <1>4, <1>5, <1>6

(* When entries and threads together are no more than the ids, whoever     *)
(* schedules an entry finds a free id: it is not in the heap itself.       *)
LEMMA FitsRoom ==
  ASSUME IInv, Cardinality(Entries) + Cardinality(Threads) <= Size + 1
  PROVE  Room
<1> SUFFICES ASSUME NEW t \in Threads, thr[t].sched # NoEntry,
                    ht.timer_ids_freelist \notin DOMAIN ht.timer_ids
             PROVE  FALSE
  BY DEF Room
<1>1. PICK max, first, ids, old : /\ max = ht.max_size /\ first = ht.timer_ids_freelist
                                  /\ ids = ht.timer_ids /\ old = FreeIds(ht) \ Held
  OBVIOUS
<1>2. /\ max \in Nat /\ ids \in [0 .. max - 1 -> Int] /\ max >= Size + 2 /\ Size \in Nat
      /\ Threaded(ids, first, max, old) /\ Held \subseteq FreeIds(ht)
  BY <1>1, TimerHeapAssumption DEF IInv, HeapInv, Sound, Heaps, Stocked
<1>3. \A i \in FreeIds(ht) : i \in 1 .. max - 1 /\ i # max
  BY <1>1, <1>2 DEF FreeIds
<1>4. first = max
  <2>1. first \in old \cup {max}
    BY <1>2, ThreadEnds
  <2>2. first \notin 0 .. max - 1
    BY <1>1, <1>2
  <2> QED
    BY <1>1, <1>2, <1>3, <2>1, <2>2
<1>5. old = {}
  BY <1>1, <1>2, <1>3, <1>4, ThreadEmpty
<1>6. PICK used : used = {i \in 1 .. ht.max_size - 1 : ht.timer_ids[i] >= 0}
  OBVIOUS
<1>7. 1 .. max - 1 = used \cup Held
  <2>1. ASSUME NEW i \in 1 .. max - 1
        PROVE  i \in used \cup Held
    <3>1. ids[i] \in Int
      BY <1>2
    <3>2. CASE ids[i] >= 0
      BY <1>1, <1>6, <3>2
    <3>3. CASE ids[i] < 0
      <4>1. i \in FreeIds(ht)
        BY <1>1, <3>3 DEF FreeIds
      <4> QED
        BY <1>1, <1>5, <4>1
    <3> QED
      BY <3>1, <3>2, <3>3
  <2>2. used \subseteq 1 .. max - 1 /\ Held \subseteq 1 .. max - 1
    BY <1>1, <1>2, <1>3, <1>6
  <2> QED
    BY <2>1, <2>2
<1>8. PICK e : e = thr[t].sched
  OBVIOUS
<1>9. e \in Entries \ Armed
  <2>1. thr[t] \in ThreadStates
    BY DEF IInv, ThreadInv
  <2> QED
    BY <1>8, <2>1 DEF IInv, SchedInv, ThreadStates
<1>10. /\ IsFiniteSet(used) /\ IsFiniteSet(Held)
       /\ Cardinality(used) < Cardinality(Entries) /\ Cardinality(Held) <= Cardinality(Threads)
  BY <1>6, <1>9, IdsInUse
<1>11. PICK a, b, c, x, y : /\ a = Cardinality(used) /\ b = Cardinality(Held)
                            /\ c = Cardinality(used \cap Held)
                            /\ x = Cardinality(Entries) /\ y = Cardinality(Threads)
  OBVIOUS
<1>12. Cardinality(1 .. max - 1) = max - 1
  BY <1>2, FS_Interval
<1>13. max - 1 = a + b - c
  BY <1>7, <1>10, <1>11, <1>12, FS_Union
<1>14. a \in Nat /\ b \in Nat /\ c \in Nat /\ x \in Nat /\ y \in Nat
  <2>1. IsFiniteSet(used \cap Held)
    BY <1>10, FS_Intersection
  <2> QED
    BY <1>10, <1>11, <2>1, TimerHeapAssumption, FS_CardinalityType
<1>15. a < x /\ b <= y /\ x + y <= Size + 1
  BY <1>10, <1>11
<1> QED
  BY <1>2, <1>13, <1>14, <1>15

(* IdsSound holds for all entries, threads, sizes and delays, when clients *)
(* serialise their calls for one entry (timer.c:505 tests it unlocked) and *)
(* whoever schedules finds a free id (timer.c:309 does not count the ids   *)
(* held by callbacks): timer_ids locates exactly the entries of the heap,  *)
(* and the free list runs once through all other ids but the held ones,    *)
(* whatever is scheduled, cancelled, taken and grown.                      *)
THEOREM TimersAreSound ==
  ASSUME Serialised
  PROVE  Spec /\ []Room => []IdsSound
<1>1. IInv /\ Room /\ [Next]_vars => IInv'
  BY IInvStep
<1> QED
  BY <1>1, IInvInit, IInvIdsSound, PTL DEF Spec

(* GroupRefsExact holds under the same conditions: one reference for each  *)
(* entry in the heap with a group lock and one for each callback under     *)
(* way.                                                                    *)
THEOREM GroupRefsAreExact ==
  ASSUME Serialised
  PROVE  Spec /\ []Room => []GroupRefsExact
<1>1. IInv /\ Room /\ [Next]_vars => IInv'
  BY IInvStep
<1> QED
  BY <1>1, IInvInit, IInvRefs, PTL DEF Spec

-----------------------------------------------------------------------------
(* What the refinement needs of the threads besides: a poll goes by a time *)
(* that is past, and an entry is scheduled for a time asked for, or one    *)
(* that has come nearer since.                                             *)
Timely(th) ==
  \A t \in Threads : /\ th[t].pc # "idle" => th[t].now <= 0
                     /\ th[t].pc = "callback" <=> th[t].node # NoEntry
                     /\ th[t].sched # NoEntry => \E d \in Delays : th[t].expires <= d

(* It holds at the start.                                                  *)
LEMMA TimelyInit == Init => Timely(thr)
<1> SUFFICES ASSUME Init PROVE Timely(thr)
  OBVIOUS
<1>1. \A t \in Threads : thr[t] = IdleThread
  BY DEF Init
<1>2. IdleThread.pc = "idle" /\ IdleThread.node = NoEntry /\ IdleThread.sched = NoEntry
  BY DEF IdleThread
<1> QED
  BY <1>1, <1>2 DEF Timely

(* A step of one thread keeps it if it holds of that thread.               *)
LEMMA TimelyBut ==
  ASSUME Timely(thr), NEW t \in Threads, \A u \in Threads \ {t} : thr'[u] = thr[u],
         NEW s, thr'[t] = s, s.pc # "idle" => s.now <= 0, s.pc = "callback" <=> s.node # NoEntry,
         s.sched # NoEntry => \E d \in Delays : s.expires <= d
  PROVE  Timely(thr')
<1> SUFFICES ASSUME NEW u \in Threads
             PROVE  /\ thr'[u].pc # "idle" => thr'[u].now <= 0
                    /\ thr'[u].pc = "callback" <=> thr'[u].node # NoEntry
                    /\ thr'[u].sched # NoEntry => \E d \in Delays : thr'[u].expires <= d
  BY DEF Timely
<1>1. CASE u = t
  BY <1>1
<1>2. CASE u # t
  <2>1. thr'[u] = thr[u]
    BY <1>2
  <2> QED
    BY <2>1 DEF Timely
<1> QED
  BY <1>1, <1>2

(* Taking an entry keeps it.                                               *)
LEMMA TimelyTaken ==
  ASSUME IInv, Timely(thr), NEW t \in Threads, NEW node, NEW now \in Int, now <= 0,
         Taken(t, node, now)
  PROVE  Timely(thr')
<1>1. /\ node \in Armed /\ \A u \in Threads \ {t} : thr'[u] = thr[u]
      /\ thr'[t].pc = "callback" /\ thr'[t].node = node /\ thr'[t].now = now
      /\ thr'[t].sched = NoEntry
  BY DEF Taken
<1>2. node # NoEntry
  BY <1>1, ArmedIs, TimerHeapAssumption DEF IInv
<1> QED
  BY <1>1, <1>2, TimelyBut

(* Every step keeps it.                                                    *)
LEMMA TimelyStep ==
  ASSUME IInv, Timely(thr), [Next]_vars
  PROVE  Timely(thr')
<1>1. thr \in [Threads -> ThreadStates]
  BY DEF IInv, ThreadInv
<1>2. ASSUME NEW t \in Threads, NEW e \in Entries, NEW d \in Delays, Schedule(t, e, d)
      PROVE  Timely(thr')
  <2>1. PICK s, new : s = thr[t] /\ new = [s EXCEPT !.sched = e, !.expires = d]
    OBVIOUS
  <2>2. s \in ThreadStates
    BY <1>1, <2>1
  <2>3. /\ new.pc = s.pc /\ new.node = s.node /\ new.now = s.now /\ new.sched = e
        /\ new.expires = d
    BY <2>1, <2>2 DEF ThreadStates
  <2>4. thr' = [thr EXCEPT ![t] = new]
    BY <1>2, <2>1 DEF Schedule
  <2>5. thr'[t] = new /\ \A u \in Threads \ {t} : thr'[u] = thr[u]
    BY <1>1, <2>4
  <2>6. \E f \in Delays : d <= f
    <3>1. d <= d
      BY TimerHeapAssumption
    <3> QED
      BY <3>1
  <2>7. s.pc # "idle" => s.now <= 0
    BY <2>1 DEF Timely
  <2>8. s.pc = "callback" <=> s.node # NoEntry
    BY <2>1 DEF Timely
  <2> QED
    BY <2>3, <2>5, <2>6, <2>7, <2>8, TimelyBut
<1>3. ASSUME NEW t \in Threads, Insert(t)
      PROVE  Timely(thr')
  <2>1. PICK s, new : s = thr[t] /\ new = [s EXCEPT !.sched = NoEntry, !.expires = 0]
    OBVIOUS
  <2>2. s \in ThreadStates
    BY <1>1, <2>1
  <2>3. new.pc = s.pc /\ new.node = s.node /\ new.now = s.now /\ new.sched = NoEntry
    BY <2>1, <2>2 DEF ThreadStates
  <2>4. thr' = [thr EXCEPT ![t] = new]
    BY <1>3, <2>1 DEF Insert
  <2>5. thr'[t] = new /\ \A u \in Threads \ {t} : thr'[u] = thr[u]
    BY <1>1, <2>4
  <2>6. s.pc # "idle" => s.now <= 0
    BY <2>1 DEF Timely
  <2>7. s.pc = "callback" <=> s.node # NoEntry
    BY <2>1 DEF Timely
  <2> QED
    BY <2>3, <2>5, <2>6, <2>7, TimelyBut
<1>4. ASSUME NEW t \in Threads, CallbackReturns(t)
      PROVE  Timely(thr')
  <2>1. PICK s, new : s = thr[t] /\ new = [s EXCEPT !.pc = "relock", !.node = NoEntry, !.grp = FALSE]
    OBVIOUS
  <2>2. s \in ThreadStates /\ s.pc = "callback" /\ s.sched = NoEntry
    BY <1>1, <1>4, <2>1 DEF CallbackReturns
  <2>3. new.pc = "relock" /\ new.node = NoEntry /\ new.now = s.now /\ new.sched = s.sched
    BY <2>1, <2>2 DEF ThreadStates
  <2>4. thr' = [thr EXCEPT ![t] = new]
    BY <1>4, <2>1 DEF CallbackReturns
  <2>5. thr'[t] = new /\ \A u \in Threads \ {t} : thr'[u] = thr[u]
    BY <1>1, <2>4
  <2>6. s.now <= 0
    BY <2>1, <2>2 DEF Timely
  <2> QED
    BY <2>2, <2>3, <2>5, <2>6, TimelyBut
<1>5. ASSUME NEW t \in Threads, PollStart(t)
      PROVE  Timely(thr')
  <2>1. PICK node : Taken(t, node, 0)
    BY <1>5, PollStartKeeps
  <2> QED
    BY <2>1, TimelyTaken
<1>6. ASSUME NEW t \in Threads, PollNext(t)
      PROVE  Timely(thr')
  <2>1. CASE \E node : Taken(t, node, thr[t].now)
    <3>1. PICK node, now : Taken(t, node, now) /\ now = thr[t].now
      BY <2>1
    <3>2. thr[t] \in ThreadStates /\ thr[t].pc = "relock"
      BY <1>1, <1>6 DEF PollNext
    <3>3. now \in Int
      BY <3>1, <3>2 DEF ThreadStates
    <3>4. now <= 0
      BY <3>1, <3>2 DEF Timely
    <3> QED
      BY <3>1, <3>3, <3>4, TimelyTaken
  <2>2. CASE thr' = [thr EXCEPT ![t] = IdleThread]
    <3>1. thr'[t] = IdleThread /\ \A u \in Threads \ {t} : thr'[u] = thr[u]
      BY <1>1, <2>2
    <3>2. IdleThread.pc = "idle" /\ IdleThread.node = NoEntry /\ IdleThread.sched = NoEntry
      BY DEF IdleThread
    <3> QED
      BY <3>1, <3>2, TimelyBut
  <2> QED
    BY <1>6, <2>1, <2>2, PollNextKeeps
<1>7. CASE Tick
  <2>1. thr' = [t \in Threads |-> [thr[t] EXCEPT
                  !.now = IF Polling(t) THEN Older(@) ELSE @,
                  !.expires = IF thr[t].sched # NoEntry THEN Older(@) ELSE @]]
    BY <1>7 DEF Tick
  <2> SUFFICES ASSUME NEW t \in Threads
               PROVE  /\ thr'[t].pc # "idle" => thr'[t].now <= 0
                      /\ thr'[t].pc = "callback" <=> thr'[t].node # NoEntry
                      /\ thr'[t].sched # NoEntry => \E d \in Delays : thr'[t].expires <= d
    BY DEF Timely
  <2>2. PICK s : s = thr[t]
    OBVIOUS
  <2>3. s \in ThreadStates
    BY <1>1, <2>2
  <2>4. PICK a, b : /\ a = IF Polling(t) THEN s.now - 1 ELSE s.now
                    /\ b = IF thr[t].sched # NoEntry THEN s.expires - 1 ELSE s.expires
    OBVIOUS
  <2>5. thr'[t] = [s EXCEPT !.now = a, !.expires = b]
    BY <2>1, <2>2, <2>3, <2>4 DEF Older, ThreadStates
  <2>6. /\ thr'[t].pc = s.pc /\ thr'[t].node = s.node /\ thr'[t].sched = s.sched
        /\ thr'[t].now = a /\ thr'[t].expires = b
    BY <2>3, <2>5 DEF ThreadStates
  <2>7. s.now \in Int /\ s.expires \in Int
    BY <2>3 DEF ThreadStates
  <2>8. s.pc # "idle" => a <= 0
    <3>1. s.pc # "idle" => s.now <= 0
      BY <2>2 DEF Timely
    <3> QED
      BY <2>2, <2>4, <2>7, <3>1 DEF Polling
  <2>9. s.sched # NoEntry => \E d \in Delays : b <= d
    <3>1. ASSUME s.sched # NoEntry
          PROVE  \E d \in Delays : b <= d
      <4>1. PICK d \in Delays : s.expires <= d
        BY <2>2, <3>1 DEF Timely
      <4>2. d \in Int
        BY TimerHeapAssumption
      <4>3. b <= d
        BY <2>2, <2>4, <2>7, <3>1, <4>1, <4>2
      <4> QED
        BY <4>3
    <3> QED
      BY <3>1
  <2>10. s.pc = "callback" <=> s.node # NoEntry
    BY <2>2 DEF Timely
  <2> QED
    BY <2>6, <2>8, <2>9, <2>10
<1>8. ASSUME NEW t \in Threads, NEW e \in Entries, Cancel(t, e)
      PROVE  Timely(thr')
  BY <1>8 DEF Cancel, Timely
<1>9. CASE UNCHANGED vars
  BY <1>9 DEF vars, Timely
<1> QED
  BY <1>2, <1>3, <1>4, <1>5, <1>6, <1>7, <1>8, <1>9 DEF Next, Client, Internal

(* The times of the armed entries, by what a step does to them.            *)
LEMMA DueWithout ==
  ASSUME NEW e, Armed \subseteq Entries, Armed' = Armed \ {e}, Released(entry', e)
  PROVE  Due' = Queue!Without(Due, e)
<1>1. \A f \in Armed \ {e} : entry'[f]._timer_value = entry[f]._timer_value
  BY DEF Released
<1>2. Due' = [f \in Armed' |-> entry'[f]._timer_value]
  BY DEF Due
<1>3. DOMAIN Due = Armed /\ \A f \in Armed : Due[f] = entry[f]._timer_value
  BY DEF Due
<1>4. Queue!Without(Due, e) = [f \in DOMAIN Due \ {e} |-> Due[f]]
  BY DEF Queue!Without
<1> QED
  BY <1>1, <1>2, <1>3, <1>4

(* A step that leaves the heap alone.                                      *)
LEMMA DueSame ==
  ASSUME Armed' = Armed, entry' = entry
  PROVE  Due' = Due
  BY DEF Due

(* A poll that takes an entry calls back a timer of the queue: due, and no *)
(* later than any other.                                                   *)
LEMMA TakenCalls ==
  ASSUME IInv, Timely(thr), NEW t \in Threads, NEW node, NEW now \in Int, now <= 0,
         thr[t].pc # "callback", Taken(t, node, now)
  PROVE  \E e \in Entries : Queue!Call(t, e)
<1>1. /\ node \in Armed /\ Armed' = Armed \ {node} /\ Released(entry', node)
      /\ entry[node]._timer_value <= now
      /\ \A e \in Armed : entry[node]._timer_value <= entry[e]._timer_value
      /\ \A u \in Threads \ {t} : thr'[u] = thr[u]
      /\ thr'[t].node = node
  BY DEF Taken
<1>2. Armed \subseteq Entries /\ Timed(entry)
  BY ArmedIs DEF IInv
<1>3. DOMAIN Due = Armed /\ \A f \in Armed : Due[f] = entry[f]._timer_value
  BY DEF Due
<1>4. entry[node]._timer_value \in Int
  BY <1>1, <1>2 DEF Timed
<1>5. Due[node] <= 0 /\ \A f \in DOMAIN Due : Due[node] <= Due[f]
  BY <1>1, <1>3, <1>4
<1>6. Due' = Queue!Without(Due, node)
  BY <1>1, <1>2, DueWithout
<1>7. Running[t] = NoEntry
  BY DEF Timely, Running
<1>8. Running' = [Running EXCEPT ![t] = node]
  <2>1. Running' = [u \in Threads |-> thr'[u].node]
    BY DEF Running
  <2>2. \A u \in Threads : thr'[u].node = IF u = t THEN node ELSE thr[u].node
    BY <1>1
  <2>3. Running = [u \in Threads |-> thr[u].node]
    BY DEF Running
  <2> QED
    BY <2>1, <2>2, <2>3
<1>9. Queue!Call(t, node)
  BY <1>1, <1>3, <1>5, <1>6, <1>7, <1>8 DEF Queue!Call
<1> QED
  BY <1>1, <1>2, <1>9

(* A step that leaves the callbacks alone.                                 *)
LEMMA RunningSame ==
  ASSUME \A t \in Threads : thr'[t].node = thr[t].node
  PROVE  Running' = Running
  BY DEF Running

(* The new heap is the empty queue.                                        *)
LEMMA RunsInit == Init => Queue!Init
<1> SUFFICES ASSUME Init PROVE Queue!Init
  OBVIOUS
<1>1. Armed = {}
  <2>1. In(ht) = {}
    BY StockedNew DEF Init
  <2> QED
    BY <2>1, InArmed
<1>2. Due = [e \in {} |-> 0]
  BY <1>1 DEF Due
<1>3. Running = [t \in Threads |-> NoEntry]
  <2>1. \A t \in Threads : thr[t].node = NoEntry
    BY DEF Init, IdleThread
  <2> QED
    BY <2>1 DEF Running
<1> QED
  BY <1>2, <1>3 DEF Queue!Init

(* Every step of the heap is a step of the queue, or none.                 *)
LEMMA RunsStep ==
  ASSUME Serialised, IInv, Room, Timely(thr), [Next]_vars
  PROVE  [Queue!Next]_<<Due, Running>>
<1>1. thr \in [Threads -> ThreadStates] /\ Armed \subseteq Entries
  BY ArmedIs DEF IInv, ThreadInv
<1>2. ASSUME NEW t \in Threads, NEW e \in Entries, NEW d \in Delays, Schedule(t, e, d)
      PROVE  UNCHANGED <<Due, Running>>
  <2>1. UNCHANGED <<ht, entry>> /\ thr' = [thr EXCEPT ![t].sched = e, ![t].expires = d]
    BY <1>2 DEF Schedule
  <2>2. \A u \in Threads : thr'[u].node = thr[u].node
    BY <1>1, <2>1 DEF ThreadStates
  <2>3. Armed' = Armed
    BY <2>1 DEF Armed
  <2> QED
    BY <2>1, <2>2, <2>3, DueSame, RunningSame
<1>3. ASSUME NEW t \in Threads, Insert(t)
      PROVE  UNCHANGED <<Due, Running>> \/ \E e \in Entries : Queue!Arm(e)
  <2>1. PICK e, time : e = thr[t].sched /\ time = thr[t].expires
    OBVIOUS
  <2>2. e # NoEntry /\ thr' = [thr EXCEPT ![t].sched = NoEntry, ![t].expires = 0]
    BY <1>3, <2>1 DEF Insert
  <2>3. \A u \in Threads : thr'[u].node = thr[u].node
    BY <1>1, <2>2 DEF ThreadStates
  <2>4. UNCHANGED Running
    BY <2>3, RunningSame
  <2>5. CASE UNCHANGED <<ht, entry>>
    <3>1. Armed' = Armed
      BY <2>5 DEF Armed
    <3> QED
      BY <2>4, <2>5, <3>1, DueSame
  <2>6. CASE Arrived(e, time)
    <3>1. /\ e \in Entries \ Armed /\ Armed' = Armed \cup {e} /\ entry'[e]._timer_value = time
          /\ \A f \in Entries \ {e} : entry'[f] = entry[f]
      BY <2>6 DEF Arrived
    <3>2. PICK d \in Delays : time <= d
      BY <2>1, <2>2 DEF Timely
    <3>3. DOMAIN Due = Armed /\ \A f \in Armed : Due[f] = entry[f]._timer_value
      BY DEF Due
    <3>4. Due' = [f \in Armed' |-> entry'[f]._timer_value]
      BY DEF Due
    <3>5. DOMAIN Due' = Armed' /\ Due'[e] = time
      BY <3>1, <3>4
    <3>6. Queue!Without(Due', e) = Due
      <4>1. Queue!Without(Due', e) = [f \in DOMAIN Due' \ {e} |-> Due'[f]]
        BY DEF Queue!Without
      <4>2. DOMAIN Due' \ {e} = Armed
        BY <3>1, <3>5
      <4>3. \A f \in Armed : Due'[f] = entry[f]._timer_value
        <5>1. \A f \in Armed : f \in Entries \ {e} /\ f \in Armed'
          BY <1>1, <3>1
        <5>2. \A f \in Armed : entry'[f] = entry[f]
          BY <3>1, <5>1
        <5> QED
          BY <3>4, <5>1, <5>2
      <4>4. Due = [f \in Armed |-> entry[f]._timer_value]
        BY DEF Due
      <4> QED
        BY <4>1, <4>2, <4>3, <4>4
    <3>7. \E f \in DOMAIN Due', x \in Delays : f = e /\ Due'[f] <= x
      BY <3>1, <3>2, <3>5
    <3>8. Queue!Arm(e)
      BY <2>4, <3>1, <3>3, <3>6, <3>7 DEF Queue!Arm
    <3> QED
      BY <3>1, <3>8
  <2> QED
    BY <1>3, <2>1, <2>5, <2>6, InsertKeeps
<1>4. ASSUME NEW t \in Threads, CallbackReturns(t)
      PROVE  Queue!Return(t)
  <2>1. /\ thr[t].pc = "callback" /\ UNCHANGED <<ht, entry>>
        /\ thr' = [thr EXCEPT ![t].pc = "relock", ![t].node = NoEntry, ![t].grp = FALSE]
    BY <1>4 DEF CallbackReturns
  <2>2. Running[t] # NoEntry
    BY <2>1 DEF Timely, Running
  <2>3. \A u \in Threads : thr'[u].node = IF u = t THEN NoEntry ELSE thr[u].node
    BY <1>1, <2>1 DEF ThreadStates
  <2>4. Running' = [Running EXCEPT ![t] = NoEntry]
    <3>1. Running' = [u \in Threads |-> thr'[u].node] /\ Running = [u \in Threads |-> thr[u].node]
      BY DEF Running
    <3> QED
      BY <2>3, <3>1
  <2>5. Armed' = Armed
    BY <2>1 DEF Armed
  <2> QED
    BY <2>1, <2>2, <2>4, <2>5, DueSame DEF Queue!Return
<1>5. ASSUME NEW t \in Threads, PollStart(t)
      PROVE  \E e \in Entries : Queue!Call(t, e)
  <2>1. thr[t].pc # "callback"
    BY <1>5 DEF PollStart
  <2>2. PICK node : Taken(t, node, 0)
    BY <1>5, PollStartKeeps
  <2> QED
    BY <2>1, <2>2, TakenCalls
<1>6. ASSUME NEW t \in Threads, PollNext(t)
      PROVE  UNCHANGED <<Due, Running>> \/ \E e \in Entries : Queue!Call(t, e)
  <2>1. thr[t].pc = "relock" /\ thr[t] \in ThreadStates
    BY <1>1, <1>6 DEF PollNext
  <2>2. CASE \E node : Taken(t, node, thr[t].now)
    <3>1. PICK node, now : Taken(t, node, now) /\ now = thr[t].now
      BY <2>2
    <3>2. now \in Int
      BY <2>1, <3>1 DEF ThreadStates
    <3>3. now <= 0
      BY <2>1, <3>1 DEF Timely
    <3> QED
      BY <2>1, <3>1, <3>2, <3>3, TakenCalls
  <2>3. CASE entry' = entry /\ Armed' = Armed /\ thr' = [thr EXCEPT ![t] = IdleThread]
    <3>1. thr[t].node = NoEntry
      BY <2>1 DEF Timely
    <3>2. IdleThread.node = NoEntry
      BY DEF IdleThread
    <3>3. \A u \in Threads : thr'[u].node = thr[u].node
      BY <1>1, <2>3, <3>1, <3>2
    <3> QED
      BY <2>3, <3>3, DueSame, RunningSame
  <2> QED
    BY <1>6, <2>2, <2>3, PollNextKeeps
<1>7. CASE Tick
  <2>1. /\ Armed' = Armed
        /\ \A e \in Armed : entry'[e]._timer_value = entry[e]._timer_value - 1
        /\ \A t \in Threads : thr'[t].node = thr[t].node
    BY <1>7, TickKeeps DEF Aged
  <2>2. DOMAIN Due = Armed /\ \A f \in Armed : Due[f] = entry[f]._timer_value
    BY DEF Due
  <2>3. Due' = [f \in Armed' |-> entry'[f]._timer_value]
    BY DEF Due
  <2>4. Due' = [e \in DOMAIN Due |-> Due[e] - 1]
    BY <2>1, <2>2, <2>3
  <2>5. Queue!Tick
    BY <2>1, <2>4, RunningSame DEF Queue!Tick
  <2> QED
    BY <2>5 DEF Queue!Next
<1>8. ASSUME NEW t \in Threads, NEW e \in Entries, Cancel(t, e)
      PROVE  UNCHANGED <<Due, Running>> \/ Queue!Cancel(e)
  <2>1. Armed' = Armed \ {e} /\ Released(entry', e)
    BY <1>8, CancelKeeps
  <2>2. UNCHANGED Running
    BY <1>8 DEF Cancel, Running
  <2>3. Due' = Queue!Without(Due, e)
    BY <1>1, <2>1, DueWithout
  <2>4. DOMAIN Due = Armed
    BY DEF Due
  <2>5. CASE e \in Armed
    BY <2>2, <2>3, <2>4, <2>5 DEF Queue!Cancel
  <2>6. CASE e \notin Armed
    <3>1. Queue!Without(Due, e) = Due
      <4>1. DOMAIN Due \ {e} = DOMAIN Due
        BY <2>4, <2>6
      <4>2. Due = [f \in DOMAIN Due |-> Due[f]]
        BY DEF Due
      <4> QED
        BY <4>1, <4>2 DEF Queue!Without
    <3> QED
      BY <2>2, <2>3, <3>1
  <2> QED
    BY <2>5, <2>6
<1>9. CASE UNCHANGED vars
  BY <1>9 DEF vars, Due, Running, Armed
<1> QED
  BY <1>2, <1>3, <1>4, <1>5, <1>6, <1>7, <1>8, <1>9 DEF Next, Client, Internal, Queue!Next

(* The heap implements TimerQueue under the same conditions: every step    *)
(* arms, cancels, calls back, returns, lets time pass, or is not seen.  It *)
(* rests on the root being the earliest entry of an ordered heap.          *)
THEOREM TimerQueueImplemented ==
  ASSUME Serialised
  PROVE  Spec /\ []Room => ImplementsQueue
<1>1. IInv /\ Room /\ [Next]_vars => IInv'
  BY IInvStep
<1>2. Timely(thr) /\ IInv /\ [Next]_vars => Timely(thr)'
  BY TimelyStep
<1>3. IInv /\ Room /\ Timely(thr) /\ [Next]_vars => [Queue!Next]_<<Due, Running>>
  BY RunsStep
<1> QED
  BY <1>1, <1>2, <1>3, IInvInit, TimelyInit, RunsInit, PTL DEF Spec, ImplementsQueue, Queue!Spec, Queue!vars

(* All three, without an assumption on the run, for a heap created with a  *)
(* size of at least the entries and threads together, less one.            *)
THEOREM TimersThatFit ==
  ASSUME Serialised, Cardinality(Entries) + Cardinality(Threads) <= Size + 1
  PROVE  Spec => [](IdsSound /\ GroupRefsExact) /\ ImplementsQueue
<1>1. IInv => Room
  BY FitsRoom
<1>2. IInv /\ [Next]_vars => IInv'
  BY <1>1, IInvStep
<1>3. Spec => []Room
  BY <1>1, <1>2, IInvInit, PTL DEF Spec
<1> QED
  BY <1>3, TimersAreSound, GroupRefsAreExact, TimerQueueImplemented, PTL
=============================================================================
