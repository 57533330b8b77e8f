---------------------------- MODULE GrpLockProofs ----------------------------
(* Proofs about GrpLock: the count is exact for every set of external      *)
(* locks and positions; who holds what, in which order it is taken, and    *)
(* what is left at destruction, for external locks chained behind the      *)
(* group lock.                                                             *)
EXTENDS GrpLock, FiniteSetTheorems, SequenceTheorems, WellFoundedInduction, TLAPS

-----------------------------------------------------------------------------
(* The inductive invariant.                                                *)

(* The group lock and the locks chained behind it.  A thread at one of     *)
(* them in a walk holds the group lock, so nobody changes the list there;  *)
(* of a lock in front nothing of the kind is true.                         *)
Behind == {l \in Locks : l = Own \/ Prio(l) > 0}

(* The locks a walk at c has passed going forth, and those it has still to *)
(* pass going back.                                                        *)
Before(list, c) ==
  {l \in ToSet(list) : c = End \/ (c \in ToSet(list) /\ Index(list, l) < Index(list, c))}
UpTo(list, c) ==
  {l \in ToSet(list) : c # End /\ c \in ToSet(list) /\ Index(list, l) <= Index(list, c)}

Walks == {"acquire", "tryacquire", "undo", "unlock"}

(* What a thread in state r has of each lock: one for each acquisition     *)
(* completed, one more for the locks of an acquisition or release under    *)
(* way, and one for a lock its client took by itself.                      *)
Extra(list, r) ==
  IF r.pc \in {"acquire", "tryacquire"} THEN Before(list, r.lck)
  ELSE IF r.pc = "add_ref" THEN ToSet(list)
  ELSE IF r.pc \in {"undo", "unlock"} THEN UpTo(list, r.lck)
  ELSE {}
Nesting(r) == IF r.pc = "unlock" THEN r.hold - 1 ELSE r.hold
One(b) == IF b THEN 1 ELSE 0
Level(list, r, l) ==
  (IF l \in ToSet(list) THEN Nesting(r) + One(l \in Extra(list, r)) ELSE 0)
  + One(l \in r.direct)
OwnerLevel(r) == IF r.pc = "add_ref" THEN r.hold + 1 ELSE Nesting(r)

(* The list has no lock twice, is in the order of the positions, and the   *)
(* group lock is the last of those with a position that is not positive.   *)
Shaped(list) ==
  /\ Own \in ToSet(list)
  /\ \A i, j \in DOMAIN list : i < j =>
       /\ list[i] # list[j]
       /\ Prio(list[i]) <= Prio(list[j])
       /\ list[i] = Own => Prio(list[j]) > 0
ListSound == Shaped(lock_list)

(* A lock whose owner is o and whose count is n, of which t has level.     *)
Counted(o, n, t, level) ==
  IF o = t THEN n = level /\ n > 0 ELSE level = 0

MutexesSound ==
  /\ \A l \in Locks : mutex[l].owner = NoThread => mutex[l].count = 0
  /\ \A t \in Threads : \A l \in Behind :
       Counted(mutex[l].owner, mutex[l].count, t, Level(lock_list, thr[t], l))

OwnerSound ==
  /\ owner = NoThread => owner_cnt = 0
  /\ \A t \in Threads : Counted(owner, owner_cnt, t, OwnerLevel(thr[t]))

(* What its place in a call says of a thread.                              *)
Placed(list, r) ==
  /\ r.pc \in {"body", "release", "unlock"} => r.hold > 0
  /\ r.pc \in {"acquire", "tryacquire", "undo", "add_ref"} => r.refs > 0 \/ r.hold > 0
  /\ r.pc \in Walks /\ r.lck \in Behind => r.lck \in ToSet(list)
  /\ r.pc \in {"acquire", "tryacquire", "add_ref", "body"} => \A l \in r.direct : Prio(l) < 0
  /\ r.pc = "tryacquire" => r.job = "use"
  /\ r.job \in {"add_handler", "del_handler"} => r.arg \in Handlers
  /\ r.job \in {"chain_lock", "unchain_lock"} => r.arg \in ExtLocks
Places == \A t \in Threads : Placed(lock_list, thr[t])

(* A lock that is being chained is not in the list, and nobody else is     *)
(* chaining it.                                                            *)
ChainsSound ==
  \A t \in Threads : Chaining(t) =>
    /\ thr[t].arg \notin ToSet(lock_list)
    /\ \A u \in Threads \ {t} : Chaining(u) => thr[u].arg # thr[t].arg

CountSound == IsFiniteSet(References) /\ RefCountExact

(* The thread that destroys the lock is the last one to use it.            *)
EndSound ==
  /\ \A t \in Threads : At(t, "destroy") =>
       alive /\ ref_cnt = 0 /\ \A u \in Threads \ {t} : ~At(u, "destroy")
  /\ ~alive => ref_cnt = 0 /\ \A t \in Threads : ~At(t, "destroy")

IInv == /\ TypeOK /\ ListSound /\ MutexesSound /\ OwnerSound /\ Places
        /\ ChainsSound /\ CountSound /\ EndSound

-----------------------------------------------------------------------------
(* Facts about naturals and sequences.                                     *)

(* A set of naturals that is not empty has a least member.                 *)
LEMMA LeastNatural ==
  ASSUME NEW S \in SUBSET Nat, S # {}
  PROVE  \E m \in S : \A n \in S : m <= n
<1> DEFINE T == {1 .. n : n \in S}
<1> DEFINE R == StrictSubsetOrdering(Nat)
<1> DEFINE F == FiniteSubsetsOf(Nat)
<1>1. IsWellFoundedOn(R, F)
  BY FS_StrictSubsetOrderingWellFounded
<1>2. T # {}
  OBVIOUS
<1>3. T \subseteq F
  <2> SUFFICES ASSUME NEW n \in S PROVE 1 .. n \in F
    OBVIOUS
  <2>1. IsFiniteSet(1 .. n)
    <3>1. n \in Int
      OBVIOUS
    <3> QED
      BY <3>1, FS_Interval
  <2>2. 1 .. n \in SUBSET Nat
    OBVIOUS
  <2> QED
    BY <2>1, <2>2 DEF FiniteSubsetsOf
<1>4. \E U \in T : \A V \in T : <<V, U>> \notin R
  <2> HIDE DEF T, R, F
  <2> QED
    BY <1>1, <1>2, <1>3, WFMin
<1>5. PICK m \in S : \A V \in T : <<V, 1 .. m>> \notin R
  BY <1>4
<1>6. ASSUME NEW n \in S PROVE m <= n
  <2>1. <<1 .. n, 1 .. m>> \notin R
    BY <1>5
  <2> SUFFICES ASSUME n < m PROVE FALSE
    OBVIOUS
  <2>2. 1 .. n \subseteq 1 .. m /\ m \in 1 .. m /\ m \notin 1 .. n
    OBVIOUS
  <2>3. 1 .. n \in SUBSET Nat /\ 1 .. m \in SUBSET Nat
    OBVIOUS
  <2> QED
    BY <2>1, <2>2, <2>3 DEF StrictSubsetOrdering
<1> QED
  BY <1>6

(* The index of a member is the first place it is at.                      *)
LEMMA IndexOf ==
  ASSUME NEW S, NEW list \in Seq(S), NEW l \in ToSet(list)
  PROVE  /\ Index(list, l) \in DOMAIN list
         /\ list[Index(list, l)] = l
         /\ \A j \in 1 .. Index(list, l) - 1 : list[j] # l
<1> DEFINE I == {i \in DOMAIN list : list[i] = l}
<1>1. I \in SUBSET Nat /\ I # {}
  BY DEF ToSet
<1>2. PICK m \in I : \A n \in I : m <= n
  <2> HIDE DEF I
  <2> QED
    BY <1>1, LeastNatural
<1>3. m \in DOMAIN list /\ list[m] = l /\ \A j \in 1 .. m - 1 : list[j] # l
  <2>1. ASSUME NEW j \in 1 .. m - 1 PROVE list[j] # l
    BY <1>2
  <2> QED
    BY <2>1
<1> QED
  BY <1>3 DEF Index

(* In a list with no lock twice there is no other.                         *)
LEMMA IndexAt ==
  ASSUME NEW S, NEW list \in Seq(S), NEW i \in DOMAIN list,
         \A m, n \in DOMAIN list : m < n => list[m] # list[n]
  PROVE  list[i] \in ToSet(list) /\ Index(list, list[i]) = i
<1>1. list[i] \in ToSet(list)
  BY DEF ToSet
<1> DEFINE k == Index(list, list[i])
<1>2. k \in DOMAIN list /\ list[k] = list[i]
  BY <1>1, IndexOf
<1>3. k < i \/ k = i \/ i < k
  BY <1>2
<1> QED
  BY <1>1, <1>2, <1>3

(* pj_list_erase leaves a list of locks.                                   *)
LEMMA ErasedSeq ==
  ASSUME NEW S, NEW list \in Seq(S), NEW x
  PROVE  Erased(list, x) \in Seq(S)
<1>1. CASE x \in ToSet(list)
  <2>1. Index(list, x) \in 1 .. Len(list)
    BY <1>1, IndexOf
  <2>2. SubSeq(list, 1, Index(list, x) - 1) \in Seq(S)
    BY <2>1
  <2>3. SubSeq(list, Index(list, x) + 1, Len(list)) \in Seq(S)
    BY <2>1
  <2> QED
    BY <1>1, <2>2, <2>3 DEF Erased, RemoveAt
<1>2. CASE x \notin ToSet(list)
  BY <1>2 DEF Erased
<1> QED
  BY <1>1, <1>2

-----------------------------------------------------------------------------
(* The lists of locks.                                                     *)
Lists == {list \in Seq(Locks) : Shaped(list)}

(* The end of a walk is no lock, and the group's own lock is a lock that   *)
(* the proofs about owners are about.                                      *)
LEMMA EndIsNoLock == End \notin Locks /\ Own \in Locks /\ Own \in Behind
BY GrpLockAssumption DEF Locks, End, Own, Behind

(* The place of a lock in the list is decided by an integer.               *)
LEMMA PrioType == ASSUME NEW l \in Locks PROVE Prio(l) \in Int
BY GrpLockAssumption DEF Prio, Locks

(* Places in a list and members of it correspond.                          *)
LEMMA ListPlaces ==
  ASSUME NEW list \in Lists
  PROVE  /\ list \in Seq(Locks) /\ Shaped(list)
         /\ \A i \in DOMAIN list : list[i] \in ToSet(list) /\ list[i] \in Locks
                                   /\ Index(list, list[i]) = i
         /\ \A l \in ToSet(list) : Index(list, l) \in DOMAIN list /\ list[Index(list, l)] = l
         /\ ToSet(list) \subseteq Locks
         /\ Len(list) \in Nat /\ DOMAIN list = 1 .. Len(list) /\ Len(list) > 0
<1>1. list \in Seq(Locks) /\ Shaped(list)
  BY DEF Lists
<1>2. \A m, n \in DOMAIN list : m < n => list[m] # list[n]
  BY <1>1 DEF Shaped
<1>3. ASSUME NEW i \in DOMAIN list
      PROVE  list[i] \in ToSet(list) /\ list[i] \in Locks /\ Index(list, list[i]) = i
  BY <1>1, <1>2, <1>3, IndexAt
<1>4. ASSUME NEW l \in ToSet(list)
      PROVE  Index(list, l) \in DOMAIN list /\ list[Index(list, l)] = l
  BY <1>1, <1>4, IndexOf
<1>5. ToSet(list) \subseteq Locks
  BY <1>1 DEF ToSet
<1>6. Len(list) \in Nat /\ DOMAIN list = 1 .. Len(list)
  BY <1>1
<1>7. Own \in ToSet(list)
  BY <1>1 DEF Shaped
<1> QED
  BY <1>1, <1>3, <1>4, <1>5, <1>6, <1>7

(* At the ends of a list.                                                  *)
LEMMA AtTheEnds ==
  ASSUME NEW list \in Lists
  PROVE  /\ FirstIn(list) \in ToSet(list) /\ Before(list, FirstIn(list)) = {}
         /\ LastIn(list) \in ToSet(list) /\ UpTo(list, LastIn(list)) = ToSet(list)
         /\ Before(list, End) = ToSet(list) /\ UpTo(list, End) = {}
<1> USE ListPlaces, EndIsNoLock
<1>1. 1 \in DOMAIN list /\ Len(list) \in DOMAIN list
  OBVIOUS
<1>2. FirstIn(list) \in ToSet(list) /\ Index(list, FirstIn(list)) = 1
  BY <1>1 DEF FirstIn
<1>3. LastIn(list) \in ToSet(list) /\ Index(list, LastIn(list)) = Len(list)
  BY <1>1 DEF LastIn
<1>4. Before(list, FirstIn(list)) = {}
  <2> SUFFICES ASSUME NEW l \in ToSet(list) PROVE ~(Index(list, l) < 1)
    BY <1>2 DEF Before
  <2> QED
    OBVIOUS
<1>5. UpTo(list, LastIn(list)) = ToSet(list)
  <2> SUFFICES ASSUME NEW l \in ToSet(list) PROVE Index(list, l) <= Len(list)
    BY <1>3 DEF UpTo
  <2> QED
    OBVIOUS
<1>6. Before(list, End) = ToSet(list) /\ UpTo(list, End) = {}
  BY DEF Before, UpTo
<1> QED
  BY <1>2, <1>3, <1>4, <1>5, <1>6

(* One step of a walk forth.                                               *)
LEMMA NextStep ==
  ASSUME NEW list \in Lists, NEW c \in ToSet(list)
  PROVE  /\ NextIn(list, c) \in ToSet(list) \cup {End}
         /\ Before(list, NextIn(list, c)) = Before(list, c) \cup {c}
         /\ c \notin Before(list, c)
<1> USE ListPlaces, EndIsNoLock
<1> DEFINE k == Index(list, c)
<1>1. k \in DOMAIN list /\ list[k] = c /\ c # End
  OBVIOUS
<1>2. c \notin Before(list, c)
  BY <1>1 DEF Before
<1>3. Before(list, c) = {l \in ToSet(list) : Index(list, l) < k}
  BY <1>1 DEF Before
<1>4. ASSUME NEW l \in ToSet(list), Index(list, l) = k PROVE l = c
  BY <1>1, <1>4
<1>5. CASE c = LastIn(list)
  <2>1. NextIn(list, c) = End
    BY <1>5 DEF NextIn
  <2>2. k = Len(list)
    BY <1>5 DEF LastIn
  <2>3. ASSUME NEW l \in ToSet(list) PROVE Index(list, l) < k \/ l = c
    BY <2>2, <1>4
  <2>4. Before(list, NextIn(list, c)) = ToSet(list)
    BY <2>1, AtTheEnds
  <2> QED
    BY <1>2, <1>3, <2>1, <2>3, <2>4
<1>6. CASE c # LastIn(list)
  <2>1. k + 1 \in DOMAIN list
    BY <1>1, <1>6 DEF LastIn
  <2>2. NextIn(list, c) = list[k + 1]
    BY <1>6 DEF NextIn
  <2>3. NextIn(list, c) \in ToSet(list) /\ Index(list, NextIn(list, c)) = k + 1
    BY <2>1, <2>2
  <2>4. Before(list, NextIn(list, c)) = {l \in ToSet(list) : Index(list, l) < k + 1}
    BY <2>3 DEF Before
  <2>5. ASSUME NEW l \in ToSet(list)
        PROVE  Index(list, l) < k + 1 <=> Index(list, l) < k \/ l = c
    BY <1>1, <1>4
  <2> QED
    BY <1>2, <1>3, <2>3, <2>4, <2>5
<1> QED
  BY <1>5, <1>6

(* One step of a walk back.                                                *)
LEMMA PrevStep ==
  ASSUME NEW list \in Lists, NEW c \in ToSet(list)
  PROVE  /\ PrevIn(list, c) \in ToSet(list) \cup {End}
         /\ UpTo(list, PrevIn(list, c)) = UpTo(list, c) \ {c}
         /\ UpTo(list, PrevIn(list, c)) = Before(list, c)
         /\ c \in UpTo(list, c)
<1> USE ListPlaces, EndIsNoLock
<1> DEFINE k == Index(list, c)
<1>1. k \in DOMAIN list /\ list[k] = c /\ c # End
  OBVIOUS
<1>2. c \in UpTo(list, c)
  BY <1>1 DEF UpTo
<1>3. UpTo(list, c) = {l \in ToSet(list) : Index(list, l) <= k}
  BY <1>1 DEF UpTo
<1>4. ASSUME NEW l \in ToSet(list), Index(list, l) = k PROVE l = c
  BY <1>1, <1>4
<1>5. Before(list, c) = {l \in ToSet(list) : Index(list, l) < k}
  BY <1>1 DEF Before
<1>6. UpTo(list, c) \ {c} = Before(list, c)
  <2>1. ASSUME NEW l \in ToSet(list)
        PROVE  Index(list, l) < k <=> Index(list, l) <= k /\ l # c
    BY <1>1, <1>4
  <2> QED
    BY <2>1, <1>3, <1>5
<1>7. CASE c = FirstIn(list)
  <2>1. PrevIn(list, c) = End
    BY <1>7 DEF PrevIn
  <2>2. Before(list, c) = {}
    BY <1>7, AtTheEnds
  <2> QED
    BY <1>2, <1>6, <2>1, <2>2, AtTheEnds
<1>8. CASE c # FirstIn(list)
  <2>1. k - 1 \in DOMAIN list
    BY <1>1, <1>8 DEF FirstIn
  <2>2. PrevIn(list, c) = list[k - 1]
    BY <1>8 DEF PrevIn
  <2>3. PrevIn(list, c) \in ToSet(list) /\ Index(list, PrevIn(list, c)) = k - 1
    BY <2>1, <2>2
  <2>4. UpTo(list, PrevIn(list, c)) = {l \in ToSet(list) : Index(list, l) <= k - 1}
    BY <2>3 DEF UpTo
  <2>5. ASSUME NEW l \in ToSet(list)
        PROVE  Index(list, l) <= k - 1 <=> Index(list, l) < k
    BY <1>1
  <2> QED
    BY <1>2, <1>5, <1>6, <2>3, <2>4, <2>5
<1> QED
  BY <1>7, <1>8

(* A walk at a lock that was taken out of the list does not move.          *)
LEMMA LostStep ==
  ASSUME NEW list, NEW c, c \notin ToSet(list), c # End
  PROVE  /\ NextIn(list, c) = c /\ PrevIn(list, c) = c
         /\ Before(list, c) = {} /\ UpTo(list, c) = {}
BY DEF NextIn, PrevIn, Before, UpTo

(* The group lock stands between the locks in front and those behind it.   *)
LEMMA Sides ==
  ASSUME NEW list \in Lists, NEW l \in ToSet(list), l # Own
  PROVE  /\ l \in Behind <=> Index(list, Own) < Index(list, l)
         /\ l \notin Behind <=> Index(list, l) < Index(list, Own)
<1> USE ListPlaces, EndIsNoLock
<1> DEFINE i == Index(list, l)
<1> DEFINE j == Index(list, Own)
<1>1. Own \in ToSet(list)
  BY DEF Shaped
<1>2. i \in DOMAIN list /\ j \in DOMAIN list /\ list[i] = l /\ list[j] = Own
  BY <1>1
<1>3. Prio(Own) = 0 /\ Prio(l) \in Int
  BY PrioType DEF Prio
<1>4. i < j => Prio(l) <= Prio(Own)
  <2> HIDE DEF i, j
  <2> QED
    BY <1>2 DEF Shaped
<1>5. j < i => Prio(l) > 0
  <2> HIDE DEF i, j
  <2> QED
    BY <1>2 DEF Shaped
<1>6. l \in Behind <=> Prio(l) > 0
  BY DEF Behind
<1>7. i # j /\ i \in Int /\ j \in Int
  BY <1>2
<1> HIDE DEF i, j
<1>8. i < j \/ j < i
  BY <1>7
<1>9. i < j => l \notin Behind
  BY <1>3, <1>4, <1>6
<1>10. j < i => l \in Behind
  BY <1>3, <1>5, <1>6
<1>11. (l \in Behind <=> j < i) /\ (l \notin Behind <=> i < j)
  BY <1>7, <1>8, <1>9, <1>10
<1> QED
  BY <1>11 DEF i, j

(* A walk has locks behind the group lock only while it has the group      *)
(* lock, and where it stands tells.                                        *)
LEMMA WalkSides ==
  ASSUME NEW list \in Lists, NEW c \in Locks \cup {End}, c \in Behind => c \in ToSet(list)
  PROVE  /\ Own \in Before(list, c) <=> c = End \/ (c \in Behind /\ c # Own)
         /\ Own \in UpTo(list, c) <=> c \in Behind
         /\ Own \notin Before(list, c) => \A l \in Behind : l \notin Before(list, c)
         /\ Own \notin UpTo(list, c) => \A l \in Behind : l \notin UpTo(list, c)
<1> USE EndIsNoLock
<1>1. Own \in ToSet(list)
  BY ListPlaces DEF Shaped
<1>2. CASE c = End
  BY <1>1, <1>2, AtTheEnds DEF Behind
<1>3. CASE c # End /\ c \notin ToSet(list)
  BY <1>3, LostStep
<1>4. CASE c # End /\ c \in ToSet(list)
  <2> DEFINE i == Index(list, c)
  <2> DEFINE j == Index(list, Own)
  <2>1. i \in Int /\ j \in Int /\ (i = j => c = Own)
    BY <1>1, <1>4, ListPlaces
  <2>2. Own \in Before(list, c) <=> j < i
    BY <1>1, <1>4 DEF Before
  <2>3. Own \in UpTo(list, c) <=> j <= i
    BY <1>1, <1>4 DEF UpTo
  <2>4. c # Own => (c \in Behind <=> j < i) /\ (c \notin Behind <=> i < j)
    BY <1>4, Sides
  <2>5. c = Own => i = j /\ c \in Behind
    OBVIOUS
  <2>6. ASSUME NEW l \in Behind, l \in ToSet(list)
        PROVE  j <= Index(list, l) /\ Index(list, l) \in Int
    <3>1. Index(list, l) \in Int
      BY <2>6, ListPlaces
    <3>2. CASE l = Own
      BY <3>2, <2>1
    <3>3. CASE l # Own
      <4>1. j < Index(list, l)
        BY <3>3, <2>6, Sides
      <4> QED
        BY <4>1, <3>1, <2>1
    <3> QED
      BY <3>1, <3>2, <3>3
  <2>7. ASSUME NEW l \in Behind, l \in Before(list, c) PROVE j < i
    <3>1. l \in ToSet(list) /\ Index(list, l) < i
      BY <2>7, <1>4 DEF Before
    <3> HIDE DEF i, j
    <3> QED
      BY <3>1, <2>1, <2>6
  <2>8. ASSUME NEW l \in Behind, l \in UpTo(list, c) PROVE j <= i
    <3>1. l \in ToSet(list) /\ Index(list, l) <= i
      BY <2>8, <1>4 DEF UpTo
    <3> HIDE DEF i, j
    <3> QED
      BY <3>1, <2>1, <2>6
  <2>9. c \in Behind <=> j <= i
    <3> HIDE DEF i, j
    <3> QED
      BY <2>1, <2>4, <2>5
  <2>10. j < i <=> c \in Behind /\ c # Own
    <3> HIDE DEF i, j
    <3> QED
      BY <2>1, <2>4, <2>5
  <2> HIDE DEF i, j
  <2> QED
    BY <1>4, <2>2, <2>3, <2>7, <2>8, <2>9, <2>10
<1> QED
  BY <1>2, <1>3, <1>4

(* Erasing a lock.                                                         *)
LEMMA ErasedShape ==
  ASSUME NEW list \in Lists, NEW x \in ToSet(list), x # Own
  PROVE  Erased(list, x) \in Lists /\ ToSet(Erased(list, x)) = ToSet(list) \ {x}
<1> USE ListPlaces, EndIsNoLock
<1> DEFINE k == Index(list, x)
<1> DEFINE e == Erased(list, x)
<1> DEFINE old(i) == IF i < k THEN i ELSE i + 1
<1>1. k \in 1 .. Len(list) /\ list[k] = x
  OBVIOUS
<1>2. e = SubSeq(list, 1, k - 1) \o SubSeq(list, k + 1, Len(list))
  BY DEF Erased, RemoveAt
<1> HIDE DEF k
<1> DEFINE a == SubSeq(list, 1, k - 1)
<1> DEFINE b == SubSeq(list, k + 1, Len(list))
<1>3. a \in Seq(Locks) /\ Len(a) = k - 1 /\ \A i \in 1 .. k - 1 : a[i] = list[i]
  BY <1>1
<1>4. b \in Seq(Locks) /\ Len(b) = Len(list) - k /\ \A i \in 1 .. Len(list) - k : b[i] = list[k + i]
  BY <1>1
<1>5. e = a \o b
  BY <1>2
<1> HIDE DEF a, b, e
<1>6. e \in Seq(Locks) /\ Len(e) = Len(list) - 1
  BY <1>1, <1>3, <1>4, <1>5
<1>7. ASSUME NEW i \in DOMAIN e
      PROVE  old(i) \in DOMAIN list /\ old(i) # k /\ e[i] = list[old(i)]
  <2>1. CASE i < k
    BY <1>1, <1>6, <1>3, <1>4, <1>5, <2>1
  <2>2. CASE i >= k
    <3>1. e[i] = b[i - (k - 1)] /\ i - (k - 1) \in 1 .. Len(list) - k
      BY <1>1, <1>6, <1>3, <1>4, <1>5, <2>2
    <3>2. e[i] = list[k + (i - (k - 1))]
      BY <3>1, <1>4
    <3> QED
      BY <3>1, <3>2, <1>1, <1>6, <2>2
  <2> QED
    BY <1>1, <1>6, <2>1, <2>2
<1>8. DOMAIN e = 1 .. Len(e)
  BY <1>6
<1>9. ASSUME NEW l \in ToSet(list), l # x PROVE l \in ToSet(e)
  <2> DEFINE m == Index(list, l)
  <2>1. m \in DOMAIN list /\ list[m] = l
    OBVIOUS
  <2> HIDE DEF m
  <2>2. m # k
    BY <1>1, <1>9, <2>1
  <2>3. CASE m < k
    <3>1. m \in DOMAIN e /\ old(m) = m
      BY <2>1, <2>3, <1>1, <1>6, <1>8
    <3> QED
      BY <3>1, <1>7, <2>1 DEF ToSet
  <2>4. CASE m > k
    <3>1. m - 1 \in DOMAIN e /\ old(m - 1) = m
      BY <2>1, <2>4, <1>1, <1>6, <1>8
    <3> QED
      BY <3>1, <1>7, <2>1 DEF ToSet
  <2> QED
    BY <2>1, <2>2, <2>3, <2>4, <1>1
<1>10. ASSUME NEW i \in DOMAIN e PROVE e[i] \in ToSet(list) /\ e[i] # x
  <2>1. old(i) \in DOMAIN list /\ old(i) # k /\ e[i] = list[old(i)]
    BY <1>7
  <2> HIDE DEF old
  <2>2. Index(list, list[old(i)]) = old(i) /\ Index(list, x) = k
    BY <2>1 DEF k
  <2> QED
    BY <2>1, <2>2
<1>11. ToSet(e) = ToSet(list) \ {x}
  <2>1. ASSUME NEW y \in ToSet(e) PROVE y \in ToSet(list) \ {x}
    <3>1. PICK i \in DOMAIN e : y = e[i]
      BY <2>1 DEF ToSet
    <3> QED
      BY <3>1, <1>10
  <2> HIDE DEF e
  <2>2. ToSet(list) \ {x} \subseteq ToSet(e)
    BY <1>9
  <2> QED
    BY <2>1, <2>2
<1>12. Own \in ToSet(e)
  BY <1>11 DEF Shaped
<1>13. ASSUME NEW i \in DOMAIN e, NEW j \in DOMAIN e, i < j
       PROVE  /\ e[i] # e[j] /\ Prio(e[i]) <= Prio(e[j])
              /\ e[i] = Own => Prio(e[j]) > 0
  <2>1. old(i) \in DOMAIN list /\ old(j) \in DOMAIN list /\ old(i) < old(j)
    BY <1>1, <1>6, <1>7, <1>8, <1>13
  <2>2. e[i] = list[old(i)] /\ e[j] = list[old(j)]
    BY <1>7
  <2> HIDE DEF old
  <2> QED
    BY <2>1, <2>2 DEF Shaped
<1>14. Shaped(e)
  BY <1>12, <1>13 DEF Shaped
<1> QED
  BY <1>6, <1>11, <1>14 DEF Lists, e

(* Chaining a lock.                                                        *)
LEMMA InsertedShape ==
  ASSUME NEW list \in Lists, NEW x \in Locks, x \notin ToSet(list), x # Own
  PROVE  Inserted(list, x) \in Lists /\ ToSet(Inserted(list, x)) = ToSet(list) \cup {x}
<1> USE ListPlaces, EndIsNoLock
<1> DEFINE n == Len(list)
<1> DEFINE stops == {i \in 1 .. n + 1 : i = n + 1 \/ ~(Prio(list[i]) < Prio(x))}
<1> DEFINE below == {i \in DOMAIN list : \A j \in 1 .. i : Prio(list[j]) < Prio(x)}
<1> DEFINE e == Inserted(list, x)
<1>1. stops \in SUBSET Nat /\ n + 1 \in stops
  OBVIOUS
<1>2. PICK m \in stops : \A i \in stops : m <= i
  <2> HIDE DEF stops
  <2> QED
    BY <1>1, LeastNatural
<1>3. m \in 1 .. n + 1 /\ (m <= n => ~(Prio(list[m]) < Prio(x)))
  OBVIOUS
<1>4. ASSUME NEW i \in 1 .. m - 1 PROVE Prio(list[i]) < Prio(x)
  <2>1. i \notin stops
    BY <1>2
  <2> QED
    BY <2>1, <1>3
<1>5. below = 1 .. m - 1
  <2>1. ASSUME NEW i \in below PROVE i \in 1 .. m - 1
    <3>1. CASE m <= i
      <4>1. m \in 1 .. i /\ m <= n
        BY <3>1, <1>3
      <4> QED
        BY <4>1, <1>3
    <3> QED
      BY <3>1, <1>3
  <2>2. ASSUME NEW i \in 1 .. m - 1 PROVE i \in below
    <3>1. \A j \in 1 .. i : j \in 1 .. m - 1
      BY <1>3
    <3>2. i \in DOMAIN list
      BY <1>3
    <3> QED
      BY <3>1, <3>2, <1>4
  <2> HIDE DEF below
  <2> QED
    BY <2>1, <2>2
<1>6. Cardinality(below) = m - 1
  <2>1. 1 \in Int /\ m - 1 \in Int /\ m >= 1
    BY <1>3
  <2>2. Cardinality(1 .. m - 1) = IF 1 > m - 1 THEN 0 ELSE m - 1 - 1 + 1
    BY <2>1, FS_Interval
  <2> HIDE DEF below
  <2> QED
    BY <2>1, <2>2, <1>5
<1>7. e = SubSeq(list, 1, m - 1) \o <<x>> \o SubSeq(list, m, n)
  <2>1. e = InsertAt(list, Cardinality(below) + 1, x)
    BY DEF Inserted
  <2>2. Cardinality(below) + 1 = m
    BY <1>3, <1>6
  <2> HIDE DEF below
  <2> QED
    BY <2>1, <2>2 DEF InsertAt
<1> HIDE DEF stops, below
<1> DEFINE a == SubSeq(list, 1, m - 1)
<1> DEFINE b == SubSeq(list, m, n)
<1>8. a \in Seq(Locks) /\ Len(a) = m - 1 /\ \A i \in 1 .. m - 1 : a[i] = list[i]
  BY <1>3
<1>9. b \in Seq(Locks) /\ Len(b) = n + 1 - m /\ \A i \in 1 .. n + 1 - m : b[i] = list[m + i - 1]
  BY <1>3
<1>10. e = (a \o <<x>>) \o b
  BY <1>7
<1> DEFINE c == a \o <<x>>
<1> HIDE DEF a, b, e
<1>11. c \in Seq(Locks) /\ Len(c) = m /\ c[m] = x /\ \A i \in 1 .. m - 1 : c[i] = list[i]
  BY <1>3, <1>8
<1> HIDE DEF c
<1>12. e = c \o b
  BY <1>10 DEF c
<1>13. e \in Seq(Locks) /\ Len(e) = n + 1 /\ DOMAIN e = 1 .. n + 1
  BY <1>3, <1>9, <1>11, <1>12
<1>14. e[m] = x
  BY <1>3, <1>9, <1>11, <1>12
<1>15. ASSUME NEW i \in 1 .. m - 1 PROVE i \in DOMAIN list /\ e[i] = list[i]
  BY <1>3, <1>9, <1>11, <1>12
<1>16. ASSUME NEW i \in m + 1 .. n + 1 PROVE i - 1 \in DOMAIN list /\ e[i] = list[i - 1]
  <2>1. e[i] = b[i - m] /\ i - m \in 1 .. n + 1 - m
    BY <1>3, <1>9, <1>11, <1>12
  <2>2. e[i] = list[m + (i - m) - 1]
    BY <2>1, <1>9
  <2> QED
    BY <2>1, <2>2, <1>3
<1>17. ToSet(e) = ToSet(list) \cup {x}
  <2>1. ASSUME NEW i \in DOMAIN e PROVE e[i] \in ToSet(list) \cup {x}
    <3>1. i \in 1 .. m - 1 \/ i = m \/ i \in m + 1 .. n + 1
      BY <1>3, <1>13
    <3> QED
      BY <3>1, <1>14, <1>15, <1>16
  <2>2. ASSUME NEW l \in ToSet(list) PROVE l \in ToSet(e)
    <3> DEFINE k == Index(list, l)
    <3>1. k \in 1 .. n /\ list[k] = l
      OBVIOUS
    <3> HIDE DEF k
    <3>2. CASE k < m
      BY <3>1, <3>2, <1>3, <1>13, <1>15 DEF ToSet
    <3>3. CASE k >= m
      <4>1. k + 1 \in m + 1 .. n + 1 /\ (k + 1) - 1 = k /\ k + 1 \in DOMAIN e
        BY <3>1, <3>3, <1>3, <1>13
      <4>2. e[k + 1] = l
        BY <4>1, <3>1, <1>16
      <4> QED
        BY <4>1, <4>2 DEF ToSet
    <3> QED
      BY <3>1, <3>2, <3>3, <1>3
  <2>3. x \in ToSet(e)
    BY <1>3, <1>13, <1>14 DEF ToSet
  <2> DEFINE T == ToSet(list) \cup {x}
  <2> HIDE DEF T
  <2>4. \A i \in DOMAIN e : e[i] \in T
    BY <2>1 DEF T
  <2>5. ToSet(e) \subseteq T
    BY <2>4 DEF ToSet
  <2> QED
    BY <2>2, <2>3, <2>5 DEF T
<1>18. Own \in ToSet(e)
  BY <1>17 DEF Shaped
<1>19. ASSUME NEW i \in DOMAIN e, NEW j \in DOMAIN e, i < j
       PROVE  /\ e[i] # e[j] /\ Prio(e[i]) <= Prio(e[j])
              /\ e[i] = Own => Prio(e[j]) > 0
  <2>1. i \in 1 .. m - 1 \/ i = m \/ i \in m + 1 .. n + 1
    BY <1>3, <1>13
  <2>2. j \in 1 .. m - 1 \/ j = m \/ j \in m + 1 .. n + 1
    BY <1>3, <1>13
  <2>3. CASE i \in 1 .. m - 1 /\ j = m
    <3>1. e[i] = list[i] /\ i \in DOMAIN list
      BY <2>3, <1>15
    <3>2. Prio(list[i]) < Prio(x) /\ Prio(list[i]) \in Int /\ Prio(x) \in Int
      BY <2>3, <3>1, <1>4, PrioType
    <3>3. list[i] # x
      BY <3>1
    <3> QED
      BY <2>3, <3>1, <3>2, <3>3, <1>14 DEF Prio
  <2>4. CASE i = m /\ j \in m + 1 .. n + 1
    <3>1. e[j] = list[j - 1] /\ j - 1 \in DOMAIN list /\ m <= n
      BY <2>4, <1>3, <1>16
    <3>2. e[j] # x /\ Prio(list[m]) \in Int /\ Prio(list[j - 1]) \in Int /\ Prio(x) \in Int
      BY <3>1, <1>3, PrioType
    <3>3. m = j - 1 \/ m < j - 1
      BY <2>4, <1>3
    <3>4. Prio(list[m]) <= Prio(list[j - 1])
      BY <3>1, <3>2, <3>3, <1>3 DEF Shaped
    <3> QED
      BY <2>4, <3>1, <3>2, <3>4, <1>3, <1>14
  <2>5. CASE i # m /\ j # m
    <3> DEFINE p == IF i < m THEN i ELSE i - 1
    <3> DEFINE q == IF j < m THEN j ELSE j - 1
    <3>1. p \in DOMAIN list /\ e[i] = list[p]
      BY <2>1, <2>5, <1>3, <1>15, <1>16
    <3>2. q \in DOMAIN list /\ e[j] = list[q]
      BY <2>2, <2>5, <1>3, <1>15, <1>16
    <3>3. p < q
      BY <2>1, <2>2, <2>5, <1>3, <1>19
    <3> HIDE DEF p, q
    <3> QED
      BY <3>1, <3>2, <3>3 DEF Shaped
  <2> QED
    BY <2>1, <2>2, <2>3, <2>4, <2>5, <1>3, <1>19
<1>20. Shaped(e)
  BY <1>18, <1>19 DEF Shaped
<1> QED
  BY <1>13, <1>17, <1>20 DEF Lists, e

-----------------------------------------------------------------------------
(* Levels, mutexes and owners.                                             *)

LEMMA LevelType ==
  ASSUME NEW list, NEW r \in ThreadStates, NEW l
  PROVE  /\ Level(list, r, l) \in Int /\ Nesting(r) \in Int /\ OwnerLevel(r) \in Int
         /\ \A b \in BOOLEAN : One(b) \in {0, 1}
<1>1. r.hold \in Nat
  BY DEF ThreadStates
<1>2. Nesting(r) \in Int
  BY <1>1 DEF Nesting
<1>3. \A b \in BOOLEAN : One(b) \in {0, 1}
  BY DEF One
<1>4. One(l \in Extra(list, r)) \in {0, 1} /\ One(l \in r.direct) \in {0, 1}
  BY DEF One
<1> QED
  BY <1>1, <1>2, <1>3, <1>4 DEF Level, OwnerLevel

(* What a level says while no walk is under way, and of a lock that is not *)
(* in the list.                                                            *)
LEMMA LevelAtRest ==
  ASSUME NEW list, NEW r \in ThreadStates, NEW l
  PROVE  /\ l \notin ToSet(list) => Level(list, r, l) = One(l \in r.direct)
         /\ l \in ToSet(list) =>
              Level(list, r, l) = Nesting(r) + One(l \in Extra(list, r)) + One(l \in r.direct)
         /\ r.pc \in {"idle", "body", "release", "destroy"} =>
              Extra(list, r) = {} /\ Nesting(r) = r.hold /\ OwnerLevel(r) = r.hold
         /\ One(TRUE) = 1 /\ One(FALSE) = 0
<1>1. One(l \in r.direct) \in {0, 1}
  BY DEF One
<1>2. l \notin ToSet(list) => Level(list, r, l) = One(l \in r.direct)
  BY <1>1 DEF Level
<1>3. l \in ToSet(list) =>
              Level(list, r, l) = Nesting(r) + One(l \in Extra(list, r)) + One(l \in r.direct)
  BY DEF Level
<1>4. r.pc \in {"idle", "body", "release", "destroy"} =>
              Extra(list, r) = {} /\ Nesting(r) = r.hold /\ OwnerLevel(r) = r.hold
  BY DEF Extra, Nesting, OwnerLevel
<1>5. One(TRUE) = 1 /\ One(FALSE) = 0
  BY DEF One
<1> QED
  BY <1>2, <1>3, <1>4, <1>5

MutexTypes == mutex \in [Locks -> Mutexes]
ThreadTypes == thr \in [Threads -> ThreadStates]

(* A step that moves no level and takes no mutex.                          *)
LEMMA MutexesKept ==
  ASSUME MutexesSound, UNCHANGED mutex,
         \A u \in Threads, l \in Behind : Level(lock_list', thr'[u], l) = Level(lock_list, thr[u], l)
  PROVE  MutexesSound'
BY DEF MutexesSound

(* A thread that locks a free mutex n more times and counts them.          *)
LEMMA MutexLocked ==
  ASSUME MutexTypes, ThreadTypes, ThreadTypes', MutexesSound,
         NEW t \in Threads, NEW k \in Locks, NEW n \in Nat \ {0},
         Free(k, t), mutex' = Locked(mutex, k, t, n),
         \A u \in Threads \ {t}, l \in Behind :
            Level(lock_list', thr'[u], l) = Level(lock_list, thr[u], l),
         \A l \in Behind : Level(lock_list', thr'[t], l)
            = Level(lock_list, thr[t], l) + (IF l = k THEN n ELSE 0)
  PROVE  MutexTypes' /\ MutexesSound'
<1> DEFINE m == mutex[k]
<1>1. m \in Mutexes /\ m.count \in Nat /\ m.owner \in {NoThread, t}
  BY DEF MutexTypes, Mutexes, Free
<1>2. mutex' = [mutex EXCEPT ![k] = [owner |-> t, count |-> m.count + n]]
  BY DEF Locked
<1>3. [owner |-> t, count |-> m.count + n] \in Mutexes
  BY <1>1 DEF Mutexes
<1>4. MutexTypes'
  BY <1>2, <1>3 DEF MutexTypes
<1>5. mutex'[k].owner = t /\ mutex'[k].count = m.count + n /\ t # NoThread
  BY <1>2, GrpLockAssumption DEF MutexTypes
<1>6. \A l \in Locks \ {k} : mutex'[l] = mutex[l]
  BY <1>2 DEF MutexTypes
<1>7. ASSUME NEW l \in Locks, mutex'[l].owner = NoThread PROVE mutex'[l].count = 0
  BY <1>5, <1>6, <1>7 DEF MutexesSound
<1>8. ASSUME NEW u \in Threads, NEW l \in Behind
      PROVE  Counted(mutex'[l].owner, mutex'[l].count, u, Level(lock_list', thr'[u], l))
  <2>1. Counted(mutex[l].owner, mutex[l].count, u, Level(lock_list, thr[u], l)) /\ l \in Locks
    BY DEF MutexesSound, Behind
  <2> DEFINE old == Level(lock_list, thr[u], l)
  <2>2. old \in Int
    BY LevelType DEF ThreadTypes
  <2>3. CASE u # t
    <3>1. Level(lock_list', thr'[u], l) = old
      BY <2>3
    <3> HIDE DEF old
    <3>2. CASE l # k
      BY <3>1, <3>2, <2>1, <1>6 DEF old
    <3>3. CASE l = k
      <4>1. mutex[l].owner # u
        BY <3>3, <2>3, <1>1, GrpLockAssumption
      <4>2. old = 0
        BY <4>1, <2>1 DEF Counted, old
      <4> QED
        BY <3>1, <3>3, <4>2, <2>3, <1>5 DEF Counted
    <3> QED
      BY <3>2, <3>3
  <2>4. CASE u = t /\ l # k
    <3>1. Level(lock_list', thr'[u], l) = old
      BY <2>2, <2>4
    <3> QED
      BY <3>1, <2>1, <2>4, <1>6
  <2>5. CASE u = t /\ l = k
    <3>1. Level(lock_list', thr'[u], l) = old + n
      BY <2>5
    <3>2. m.count = old /\ old >= 0
      <4>1. CASE m.owner = t
        BY <4>1, <2>1, <2>5, <1>1 DEF Counted
      <4>2. CASE m.owner = NoThread
        BY <4>2, <2>1, <2>5, <1>1, GrpLockAssumption DEF Counted, MutexesSound
      <4> QED
        BY <4>1, <4>2, <1>1
    <3> HIDE DEF old
    <3> QED
      BY <3>1, <3>2, <2>2, <2>5, <1>5 DEF Counted
  <2> QED
    BY <2>3, <2>4, <2>5
<1> QED
  BY <1>4, <1>7, <1>8 DEF MutexesSound

(* A thread that unlocks a mutex n times out of those it counts.           *)
LEMMA MutexUnlocked ==
  ASSUME MutexTypes, ThreadTypes, ThreadTypes', MutexesSound,
         NEW t \in Threads, NEW k \in Locks, NEW n \in Nat \ {0},
         mutex' = Unlocked(mutex, k, t, n),
         k \in Behind => Level(lock_list, thr[t], k) >= n,
         \A u \in Threads \ {t}, l \in Behind :
            Level(lock_list', thr'[u], l) = Level(lock_list, thr[u], l),
         \A l \in Behind : Level(lock_list', thr'[t], l)
            = Level(lock_list, thr[t], l) - (IF l = k THEN n ELSE 0)
  PROVE  MutexTypes' /\ MutexesSound'
<1> DEFINE m == mutex[k]
<1> DEFINE w == [owner |-> IF m.count > n THEN t ELSE NoThread,
                 count |-> IF m.count > n THEN m.count - n ELSE 0]
<1>1. m \in Mutexes /\ m.count \in Nat
  BY DEF MutexTypes, Mutexes
<1>2. mutex' = IF m.owner # t THEN mutex ELSE [mutex EXCEPT ![k] = w]
  BY DEF Unlocked
<1>3. w \in Mutexes
  BY <1>1 DEF Mutexes
<1>4. MutexTypes'
  <2> HIDE DEF w
  <2> QED
    BY <1>2, <1>3 DEF MutexTypes
<1>5. m.owner = t => mutex'[k] = w
  <2> HIDE DEF w
  <2> QED
    BY <1>2 DEF MutexTypes
<1>6. \A l \in Locks \ {k} : mutex'[l] = mutex[l]
  <2> HIDE DEF w
  <2> QED
    BY <1>2 DEF MutexTypes
<1>7. ASSUME NEW l \in Locks, mutex'[l].owner = NoThread PROVE mutex'[l].count = 0
  <2>1. CASE l # k \/ m.owner # t
    BY <1>2, <1>6, <1>7, <2>1 DEF MutexesSound
  <2>2. CASE l = k /\ m.owner = t
    <3>1. w.owner = NoThread
      BY <1>5, <1>7, <2>2
    <3>2. ~(m.count > n)
      BY <3>1, GrpLockAssumption
    <3> QED
      BY <3>2, <1>5, <2>2
  <2> QED
    BY <2>1, <2>2
<1>8. ASSUME NEW u \in Threads, NEW l \in Behind
      PROVE  Counted(mutex'[l].owner, mutex'[l].count, u, Level(lock_list', thr'[u], l))
  <2>1. Counted(mutex[l].owner, mutex[l].count, u, Level(lock_list, thr[u], l)) /\ l \in Locks
    BY DEF MutexesSound, Behind
  <2> DEFINE old == Level(lock_list, thr[u], l)
  <2>2. old \in Int
    BY LevelType DEF ThreadTypes
  <2>3. CASE l # k
    <3>1. Level(lock_list', thr'[u], l) = old
      BY <2>2, <2>3
    <3> QED
      BY <3>1, <2>1, <2>3, <1>6
  <2>4. CASE l = k
    <3> DEFINE top == Level(lock_list, thr[t], k)
    <3>1. top \in Int /\ top >= n
      BY <2>4, LevelType DEF ThreadTypes
    <3>2. Counted(m.owner, m.count, t, top)
      BY <2>4 DEF MutexesSound
    <3>3. Level(lock_list', thr'[t], l) = top - n
      BY <2>4
    <3>4. u # t => Level(lock_list', thr'[u], l) = old
      BY <2>4
    <3> HIDE DEF top, old, m, w
    <3>5. m.owner = t /\ m.count = top
      BY <3>1, <3>2 DEF Counted
    <3>6. CASE u # t
      <4>1. old = 0
        BY <3>5, <3>6, <2>1, <2>4 DEF Counted, old, m
      <4>2. mutex'[k].owner # u
        BY <3>5, <3>6, <1>5, GrpLockAssumption DEF w
      <4> QED
        BY <3>4, <3>6, <4>1, <4>2, <2>4 DEF Counted
    <3>7. CASE u = t
      <4>1. CASE m.count > n
        <5>1. mutex'[k].owner = t /\ mutex'[k].count = m.count - n
          BY <4>1, <3>5, <1>5 DEF w
        <5> QED
          BY <5>1, <4>1, <3>3, <3>1, <3>5, <3>7, <2>4 DEF Counted
      <4>2. CASE ~(m.count > n)
        <5>1. mutex'[k].owner = NoThread /\ t # NoThread
          BY <4>2, <3>5, <1>5, GrpLockAssumption DEF w
        <5>2. top - n = 0
          BY <4>2, <3>1, <3>5
        <5> QED
          BY <5>1, <5>2, <3>3, <3>7, <2>4 DEF Counted
      <4> QED
        BY <4>1, <4>2
    <3> QED
      BY <3>6, <3>7
  <2> QED
    BY <2>3, <2>4
<1> QED
  BY <1>4, <1>7, <1>8 DEF MutexesSound

-----------------------------------------------------------------------------
(* The references.                                                         *)
Uses(r) == r.refs + r.hold

(* A reference is a thread and the number of one of its uses.              *)
LEMMA ReferenceMembers ==
  ASSUME NEW x
  PROVE  x \in References <=> \E t \in Threads : \E i \in 1 .. Uses(thr[t]) : x = <<t, i>>
BY DEF References, Uses

(* A thread uses the group lock finitely often.                            *)
LEMMA UsesType == ASSUME NEW r \in ThreadStates PROVE Uses(r) \in Nat
BY DEF ThreadStates, Uses

(* A step that leaves the count and every thread's uses alone.             *)
LEMMA CountKept ==
  ASSUME CountSound, UNCHANGED ref_cnt,
         \A u \in Threads : Uses(thr'[u]) = Uses(thr[u])
  PROVE  CountSound'
<1>1. \A x : x \in References <=> \E t \in Threads : \E i \in 1 .. Uses(thr[t]) : x = <<t, i>>
  BY ReferenceMembers
<1>2. \A x : x \in References' <=> \E t \in Threads : \E i \in 1 .. Uses(thr'[t]) : x = <<t, i>>
  BY DEF References, Uses
<1>3. References' = References
  <2>1. \A x : x \in References' <=> x \in References
    BY <1>1, <1>2
  <2> QED
    BY <2>1
<1> QED
  BY <1>3 DEF CountSound, RefCountExact

(* pj_atomic_inc on the count, by a thread that uses the lock once more.   *)
LEMMA CountGrows ==
  ASSUME CountSound, ThreadTypes, ref_cnt' = ref_cnt + 1, NEW t \in Threads,
         Uses(thr'[t]) = Uses(thr[t]) + 1,
         \A u \in Threads \ {t} : Uses(thr'[u]) = Uses(thr[u])
  PROVE  CountSound'
<1> DEFINE n == Uses(thr[t]) + 1
<1>1. n \in Nat \ {0} /\ Uses(thr[t]) = n - 1 /\ Uses(thr'[t]) = n
  BY UsesType DEF ThreadTypes
<1> HIDE DEF n
<1>2. <<t, n>> \notin References
  <2> SUFFICES ASSUME <<t, n>> \in References PROVE FALSE
    OBVIOUS
  <2>1. PICK u \in Threads : \E i \in 1 .. Uses(thr[u]) : <<t, n>> = <<u, i>>
    BY ReferenceMembers
  <2>2. n \in 1 .. n - 1
    BY <2>1, <1>1
  <2> QED
    BY <2>2, <1>1
<1>3. References' = References \cup {<<t, n>>}
  <2>1. ASSUME NEW u \in Threads, NEW i \in 1 .. Uses(thr'[u])
        PROVE  <<u, i>> \in References \cup {<<t, n>>}
    <3>1. CASE u = t
      <4>1. i \in 1 .. n
        BY <3>1, <1>1
      <4>2. i = n \/ i \in 1 .. n - 1
        BY <4>1, <1>1
      <4>3. i = n \/ <<u, i>> \in References
        BY <4>2, <3>1, <1>1, ReferenceMembers
      <4> QED
        BY <4>3, <3>1
    <3>2. CASE u # t
      BY <3>2, ReferenceMembers
    <3> QED
      BY <3>1, <3>2
  <2>2. ASSUME NEW u \in Threads, NEW i \in 1 .. Uses(thr[u])
        PROVE  i \in 1 .. Uses(thr'[u])
    <3>1. CASE u = t
      <4>1. i \in 1 .. n - 1
        BY <3>1, <1>1
      <4>2. i \in 1 .. n
        BY <4>1, <1>1
      <4> QED
        BY <4>2, <3>1, <1>1
    <3>2. CASE u # t
      BY <3>2
    <3> QED
      BY <3>1, <3>2
  <2>3. n \in 1 .. Uses(thr'[t])
    BY <1>1
  <2>4. \A x : x \in References' <=> \E u \in Threads : \E i \in 1 .. Uses(thr'[u]) : x = <<u, i>>
    BY DEF References, Uses
  <2>5. \A x : x \in References' => x \in References \cup {<<t, n>>}
    BY <2>1, <2>4
  <2>6. \A x : x \in References => x \in References'
    BY <2>2, <2>4, ReferenceMembers
  <2>7. <<t, n>> \in References'
    BY <2>3, <2>4
  <2> QED
    BY <2>5, <2>6, <2>7
<1>4. IsFiniteSet(References) /\ ref_cnt = Cardinality(References)
  BY DEF CountSound, RefCountExact
<1>5. IsFiniteSet(References \cup {<<t, n>>})
      /\ Cardinality(References \cup {<<t, n>>}) = ref_cnt + 1
  BY <1>2, <1>4, FS_AddElement
<1> QED
  BY <1>3, <1>5 DEF CountSound, RefCountExact

(* pj_atomic_dec on the count, by a thread that gives up one use.          *)
LEMMA CountShrinks ==
  ASSUME CountSound, ThreadTypes, ref_cnt' = ref_cnt - 1, NEW t \in Threads,
         Uses(thr[t]) > 0, Uses(thr'[t]) = Uses(thr[t]) - 1,
         \A u \in Threads \ {t} : Uses(thr'[u]) = Uses(thr[u])
  PROVE  CountSound'
<1> DEFINE n == Uses(thr[t])
<1>1. n \in Nat \ {0} /\ Uses(thr'[t]) = n - 1
  BY UsesType DEF ThreadTypes
<1>2. <<t, n>> \in References
  BY ReferenceMembers, <1>1
<1>3. References' = References \ {<<t, n>>}
  <2>1. ASSUME NEW u \in Threads, NEW i \in 1 .. Uses(thr'[u])
        PROVE  i \in 1 .. Uses(thr[u]) /\ <<u, i>> # <<t, n>>
    <3>1. CASE u = t
      BY <3>1, <1>1
    <3>2. CASE u # t
      BY <3>2
    <3> QED
      BY <3>1, <3>2
  <2>2. ASSUME NEW u \in Threads, NEW i \in 1 .. Uses(thr[u]), <<u, i>> # <<t, n>>
        PROVE  i \in 1 .. Uses(thr'[u])
    <3>1. CASE u = t
      BY <3>1, <1>1, <2>2
    <3>2. CASE u # t
      BY <3>2
    <3> QED
      BY <3>1, <3>2
  <2>3. \A x : x \in References' <=> \E u \in Threads : \E i \in 1 .. Uses(thr'[u]) : x = <<u, i>>
    BY DEF References, Uses
  <2> HIDE DEF n
  <2>4. \A x : x \in References' => x \in References \ {<<t, n>>}
    BY <2>1, <2>3, ReferenceMembers
  <2>5. \A x : x \in References \ {<<t, n>>} => x \in References'
    BY <2>2, <2>3, ReferenceMembers
  <2> QED
    BY <2>4, <2>5
<1>4. IsFiniteSet(References) /\ ref_cnt = Cardinality(References)
  BY DEF CountSound, RefCountExact
<1>5. IsFiniteSet(References \ {<<t, n>>})
      /\ Cardinality(References \ {<<t, n>>}) = ref_cnt - 1
  BY <1>2, <1>4, FS_RemoveElement
<1> QED
  BY <1>3, <1>5 DEF CountSound, RefCountExact

(* A thread that uses the lock is counted, and the lock is there.          *)
LEMMA UsersAreCounted ==
  ASSUME CountSound, EndSound, ThreadTypes
  PROVE  /\ ref_cnt \in Nat
         /\ ref_cnt = 0 => \A t \in Threads : thr[t].refs = 0 /\ thr[t].hold = 0
         /\ \A t \in Threads : thr[t].refs > 0 \/ thr[t].hold > 0 =>
              ref_cnt > 0 /\ alive /\ \A u \in Threads : thr[u].pc # "destroy"
<1>1. ref_cnt \in Nat
  BY FS_CardinalityType DEF CountSound, RefCountExact
<1>2. ASSUME ref_cnt = 0, NEW t \in Threads PROVE thr[t].refs = 0 /\ thr[t].hold = 0
  <2>1. References = {}
    BY <1>2, FS_EmptySet DEF CountSound, RefCountExact
  <2>2. Uses(thr[t]) \in Nat /\ thr[t].refs \in Nat /\ thr[t].hold \in Nat
    BY UsesType DEF ThreadTypes, ThreadStates
  <2>3. ~(Uses(thr[t]) >= 1)
    <3> SUFFICES ASSUME Uses(thr[t]) >= 1 PROVE FALSE
      OBVIOUS
    <3>1. 1 \in 1 .. Uses(thr[t])
      BY <2>2
    <3> QED
      BY <3>1, <2>1, ReferenceMembers
  <2> QED
    BY <2>2, <2>3 DEF Uses
<1>3. ASSUME NEW t \in Threads, thr[t].refs > 0 \/ thr[t].hold > 0
      PROVE  ref_cnt > 0 /\ alive /\ \A u \in Threads : thr[u].pc # "destroy"
  <2>1. ref_cnt # 0
    BY <1>2, <1>3
  <2> QED
    BY <1>1, <2>1 DEF EndSound, At
<1> QED
  BY <1>1, <1>2, <1>3

-----------------------------------------------------------------------------
(* What a step that moves one thread leaves alone.                         *)
Pcs == {"idle", "acquire", "tryacquire", "undo", "add_ref", "body", "release", "unlock",
        "destroy"}

(* A thread that moves leaves the others where they are.                   *)
LEMMA ThreadMoved ==
  ASSUME ThreadTypes, NEW t \in Threads, NEW r \in ThreadStates, thr' = [thr EXCEPT ![t] = r]
  PROVE  ThreadTypes' /\ thr'[t] = r /\ \A u \in Threads \ {t} : thr'[u] = thr[u]
BY DEF ThreadTypes

(* Goto changes the place of the thread and the lock it is at.             *)
LEMMA GotoMoves ==
  ASSUME ThreadTypes, NEW t \in Threads, NEW pc \in Pcs, NEW l \in Locks \cup {End},
         Goto(t, pc, l)
  PROVE  \E r \in ThreadStates :
           /\ thr' = [thr EXCEPT ![t] = r]
           /\ r.pc = pc /\ r.lck = l /\ r.job = thr[t].job /\ r.arg = thr[t].arg
           /\ r.refs = thr[t].refs /\ r.hold = thr[t].hold /\ r.direct = thr[t].direct
<1> DEFINE r == [thr[t] EXCEPT !.pc = pc, !.lck = l]
<1>1. thr[t] \in ThreadStates
  BY DEF ThreadTypes
<1>2. r \in ThreadStates
  BY <1>1 DEF ThreadStates, Pcs
<1>3. thr' = [thr EXCEPT ![t] = r]
  BY DEF Goto
<1>4. /\ r.pc = pc /\ r.lck = l /\ r.job = thr[t].job /\ r.arg = thr[t].arg
      /\ r.refs = thr[t].refs /\ r.hold = thr[t].hold /\ r.direct = thr[t].direct
  BY <1>1 DEF ThreadStates
<1> QED
  BY <1>2, <1>3, <1>4

(* The list has not changed: the places of the other threads are still in  *)
(* it.                                                                     *)
LEMMA PlacesMoved ==
  ASSUME Places, NEW t \in Threads, lock_list' = lock_list,
         Placed(lock_list, thr'[t]), \A u \in Threads \ {t} : thr'[u] = thr[u]
  PROVE  Places'
<1>1. ASSUME NEW u \in Threads PROVE Placed(lock_list, thr'[u])
  BY <1>1 DEF Places
<1> QED
  BY <1>1 DEF Places

(* The list has not changed: a lock being chained is still outside it and  *)
(* has one thread that chains it.                                          *)
LEMMA ChainsMoved ==
  ASSUME ChainsSound, NEW t \in Threads, lock_list' = lock_list,
         \A u \in Threads \ {t} : thr'[u] = thr[u],
         Chaining(t)' => \/ Chaining(t) /\ thr'[t].arg = thr[t].arg
                         \/ /\ thr'[t].arg \notin ToSet(lock_list)
                            /\ \A u \in Threads : ~(Chaining(u) /\ thr[u].arg = thr'[t].arg)
  PROVE  ChainsSound'
<1>1. \A u \in Threads \ {t} : (Chaining(u)' <=> Chaining(u)) /\ thr'[u].arg = thr[u].arg
  BY DEF Chaining, At
<1>2. ASSUME NEW u \in Threads, Chaining(u)'
      PROVE  /\ thr'[u].arg \notin ToSet(lock_list)
             /\ \A v \in Threads \ {u} : Chaining(v)' => thr'[v].arg # thr'[u].arg
  <2>1. CASE u = t
    BY <1>1, <1>2, <2>1 DEF ChainsSound
  <2>2. CASE u # t
    <3>1. Chaining(u) /\ thr'[u].arg = thr[u].arg
      BY <1>1, <1>2, <2>2
    <3>2. thr[u].arg \notin ToSet(lock_list)
      BY <3>1 DEF ChainsSound
    <3>3. ASSUME NEW v \in Threads \ {u}, Chaining(v)' PROVE thr'[v].arg # thr'[u].arg
      <4>1. CASE v = t
        BY <4>1, <3>1, <3>2, <3>3 DEF ChainsSound
      <4>2. CASE v # t
        BY <4>2, <3>1, <3>3, <1>1 DEF ChainsSound
      <4> QED
        BY <4>1, <4>2
    <3> QED
      BY <3>1, <3>2, <3>3
  <2> QED
    BY <2>1, <2>2
<1> QED
  BY <1>2 DEF ChainsSound

(* A step outside the destruction keeps what is known of its end.          *)
LEMMA EndMoved ==
  ASSUME EndSound, NEW t \in Threads, UNCHANGED alive,
         \A u \in Threads \ {t} : thr'[u] = thr[u],
         thr[t].pc # "destroy", thr'[t].pc # "destroy",
         ref_cnt' = ref_cnt \/ (alive /\ \A u \in Threads : thr[u].pc # "destroy")
  PROVE  EndSound'
<1>1. \A u \in Threads : At(u, "destroy")' <=> At(u, "destroy")
  BY DEF At
<1> QED
  BY <1>1 DEF EndSound, At

(* A walk reads and changes nothing of the rest.                           *)
LEMMA Walked ==
  ASSUME IInv, NEW t \in Threads, NEW r \in ThreadStates, thr' = [thr EXCEPT ![t] = r],
         UNCHANGED <<lock_list, ref_cnt, alive>>,
         r.refs = thr[t].refs, r.hold = thr[t].hold,
         thr[t].pc # "destroy", r.pc # "destroy", Placed(lock_list, r),
         r.pc \in {"acquire", "add_ref", "body"} /\ r.job = "chain_lock" =>
           \/ Chaining(t) /\ r.arg = thr[t].arg
           \/ /\ r.arg \notin ToSet(lock_list)
              /\ \A u \in Threads : ~(Chaining(u) /\ thr[u].arg = r.arg)
  PROVE  /\ ThreadTypes' /\ thr'[t] = r /\ \A u \in Threads \ {t} : thr'[u] = thr[u]
         /\ ListSound' /\ Places' /\ ChainsSound' /\ CountSound' /\ EndSound'
<1>1. ThreadTypes
  BY DEF IInv, TypeOK, ThreadTypes
<1>2. ThreadTypes' /\ thr'[t] = r /\ \A u \in Threads \ {t} : thr'[u] = thr[u]
  BY <1>1, ThreadMoved
<1>3. ListSound'
  BY DEF IInv, ListSound
<1>4. Places'
  BY <1>2, PlacesMoved DEF IInv
<1>5. Chaining(t)' <=> r.pc \in {"acquire", "add_ref", "body"} /\ r.job = "chain_lock"
  BY <1>2 DEF Chaining, At
<1>6. ChainsSound'
  BY <1>2, <1>5, ChainsMoved DEF IInv
<1>7. \A u \in Threads : Uses(thr'[u]) = Uses(thr[u])
  BY <1>2 DEF Uses
<1>8. CountSound'
  BY <1>7, CountKept DEF IInv
<1>9. EndSound'
  BY <1>2, EndMoved DEF IInv
<1> QED
  BY <1>2, <1>3, <1>4, <1>6, <1>8, <1>9

(* A step that leaves the owner and the levels alone.                      *)
LEMMA OwnerKept ==
  ASSUME OwnerSound, UNCHANGED <<owner, owner_cnt>>,
         \A u \in Threads : OwnerLevel(thr'[u]) = OwnerLevel(thr[u])
  PROVE  OwnerSound'
BY DEF OwnerSound

(* The invariant from its parts.                                           *)
RestTypes ==
  /\ lock_list \in Seq(Locks)
  /\ owner \in Threads \cup {NoThread} /\ owner_cnt \in Nat
  /\ destroy_list \in Seq(Handlers) /\ ran \in Seq(Handlers)
  /\ alive \in BOOLEAN

(* The invariant, by its parts.                                            *)
LEMMA Parts ==
  /\ IInv <=> /\ MutexTypes /\ ThreadTypes /\ RestTypes /\ ListSound /\ MutexesSound
              /\ OwnerSound /\ Places /\ ChainsSound /\ CountSound /\ EndSound
  /\ IInv => lock_list \in Lists
<1>1. CountSound => ref_cnt \in Nat
  BY FS_CardinalityType DEF CountSound, RefCountExact
<1>2. ListSound => lock_list # <<>>
  BY DEF ListSound, Shaped, ToSet
<1> QED
  BY <1>1, <1>2 DEF IInv, TypeOK, MutexTypes, ThreadTypes, RestTypes, Lists, ListSound

(* The same of the next state.                                             *)
LEMMA PartsPrimed ==
  IInv' <=> /\ MutexTypes' /\ ThreadTypes' /\ RestTypes' /\ ListSound' /\ MutexesSound'
            /\ OwnerSound' /\ Places' /\ ChainsSound' /\ CountSound' /\ EndSound'
<1>1. CountSound' => ref_cnt' \in Nat
  BY FS_CardinalityType DEF CountSound, RefCountExact
<1>2. ListSound' => lock_list' # <<>>
  BY DEF ListSound, Shaped, ToSet
<1> QED
  BY <1>1, <1>2 DEF IInv, TypeOK, MutexTypes, ThreadTypes, RestTypes

-----------------------------------------------------------------------------
(* Every step keeps the invariant: the calls and the walks.                *)

LEMMA InitHolds == Init => IInv
<1> SUFFICES ASSUME Init PROVE IInv
  OBVIOUS
<1> USE GrpLockAssumption, EndIsNoLock DEF Init
<1>1. MutexTypes
  BY DEF MutexTypes, Mutexes
<1> DEFINE r == [pc |-> "idle", lck |-> End, job |-> "use", arg |-> NoArg,
                 refs |-> 0, hold |-> 0, direct |-> {}]
<1>2. thr = [t \in Threads |-> r]
  BY DEF Threads0
<1>3. r \in ThreadStates
  BY DEF ThreadStates, Jobs
<1>4. ThreadTypes /\ \A t \in Threads : thr[t] = r
  BY <1>2, <1>3 DEF ThreadTypes
<1>5. RestTypes
  BY DEF RestTypes
<1>6. ListSound
  BY DEF ListSound, Shaped, ToSet
<1>7. ASSUME NEW l PROVE Level(lock_list, r, l) = 0
  <2>1. Nesting(r) = 0 /\ Extra(lock_list, r) = {}
    BY DEF Nesting, Extra
  <2>2. r.direct = {}
    OBVIOUS
  <2> HIDE DEF r
  <2> QED
    BY <2>1, <2>2 DEF Level, One
<1>8. MutexesSound
  <2>1. \A l \in Locks : mutex[l].owner = NoThread /\ mutex[l].count = 0
    OBVIOUS
  <2> HIDE DEF Init, r
  <2> QED
    BY <2>1, <1>4, <1>7 DEF MutexesSound, Counted, Behind
<1>9. OwnerSound
  <2>1. OwnerLevel(r) = 0
    BY DEF OwnerLevel, Nesting
  <2>2. owner = NoThread /\ owner_cnt = 0
    OBVIOUS
  <2> HIDE DEF Init, r
  <2> QED
    BY <2>1, <2>2, <1>4 DEF OwnerSound, Counted
<1>10. Places
  BY <1>4 DEF Places, Placed, Walks
<1>11. ChainsSound
  BY <1>4 DEF ChainsSound, Chaining, At
<1>12. CountSound
  <2>1. \A t \in Threads : Uses(thr[t]) = 0
    BY <1>4 DEF Uses
  <2>2. References = {}
    BY <2>1, ReferenceMembers
  <2> QED
    BY <2>2, FS_EmptySet DEF CountSound, RefCountExact
<1>13. EndSound
  BY <1>4 DEF EndSound, At
<1> HIDE DEF Init
<1> QED
  BY <1>1, <1>4, <1>5, <1>6, <1>8, <1>9, <1>10, <1>11, <1>12, <1>13, Parts

(* The beginning of a call.                                                *)
LEMMA CallStep ==
  ASSUME IInv, NEW t \in Threads, NEW job \in Jobs, NEW arg, NEW pc \in {"acquire", "tryacquire"},
         Call(t, job, arg, pc), arg \in Handlers \cup ExtLocks \cup {NoArg},
         job \in {"add_handler", "del_handler"} => arg \in Handlers,
         job \in {"chain_lock", "unchain_lock"} => arg \in ExtLocks,
         pc = "tryacquire" => job = "use",
         job = "chain_lock" =>
           arg \notin ToSet(lock_list) /\ \A u \in Threads : ~(Chaining(u) /\ thr[u].arg = arg)
  PROVE  IInv'
<1> USE EndIsNoLock
<1> DEFINE o == thr[t]
<1> DEFINE r == [o EXCEPT !.pc = pc, !.lck = FirstIn(lock_list), !.job = job, !.arg = arg]
<1>1. /\ MutexTypes /\ ThreadTypes /\ RestTypes /\ ListSound /\ MutexesSound
      /\ OwnerSound /\ Places /\ ChainsSound /\ CountSound /\ EndSound /\ lock_list \in Lists
  BY Parts
<1>2. o \in ThreadStates /\ o.pc = "idle" /\ (o.refs > 0 \/ o.hold > 0)
      /\ \A l \in o.direct : Prio(l) < 0
  BY <1>1 DEF ThreadTypes, Call, At, MayUse
<1>3. FirstIn(lock_list) \in ToSet(lock_list) /\ Before(lock_list, FirstIn(lock_list)) = {}
      /\ FirstIn(lock_list) \in Locks
  BY <1>1, AtTheEnds, ListPlaces
<1>4. r \in ThreadStates
  BY <1>2, <1>3 DEF ThreadStates
<1>5. thr' = [thr EXCEPT ![t] = r]
  BY DEF Call
<1>6. /\ r.pc = pc /\ r.lck = FirstIn(lock_list) /\ r.job = job /\ r.arg = arg
      /\ r.refs = o.refs /\ r.hold = o.hold /\ r.direct = o.direct
  BY <1>2 DEF ThreadStates
<1>7. UNCHANGED <<mutex, lock_list, owner, owner_cnt, ref_cnt, destroy_list, ran, alive>>
  BY DEF Call
<1> HIDE DEF r
<1>8. Placed(lock_list, r)
  BY <1>2, <1>3, <1>6 DEF Placed
<1>9. /\ ThreadTypes' /\ thr'[t] = r /\ \A u \in Threads \ {t} : thr'[u] = thr[u]
      /\ ListSound' /\ Places' /\ ChainsSound' /\ CountSound' /\ EndSound'
  BY <1>2, <1>4, <1>5, <1>6, <1>7, <1>8, Walked
<1>10. Nesting(r) = Nesting(o) /\ OwnerLevel(r) = OwnerLevel(o)
       /\ Extra(lock_list, r) = Extra(lock_list, o)
  BY <1>2, <1>3, <1>6 DEF Nesting, OwnerLevel, Extra
<1>11. \A l : Level(lock_list, r, l) = Level(lock_list, o, l)
  BY <1>6, <1>10 DEF Level
<1>12. \A u \in Threads, l \in Behind : Level(lock_list', thr'[u], l) = Level(lock_list, thr[u], l)
  BY <1>7, <1>9, <1>11
<1>13. MutexesSound'
  BY <1>1, <1>7, <1>12, MutexesKept
<1>14. OwnerSound'
  BY <1>1, <1>7, <1>9, <1>10, OwnerKept
<1>15. MutexTypes' /\ RestTypes'
  BY <1>1, <1>7 DEF MutexTypes, RestTypes
<1> QED
  BY <1>9, <1>13, <1>14, <1>15, PartsPrimed

(* A step of a walk changes the levels of the lock it is at.               *)
LEMMA LevelForth ==
  ASSUME NEW list \in Lists, NEW o \in ThreadStates, NEW r \in ThreadStates,
         o.pc \in {"acquire", "tryacquire"}, r.pc = o.pc, o.lck # End,
         r.lck = NextIn(list, o.lck), r.hold = o.hold, r.direct = o.direct,
         NEW l \in Behind, o.lck \in Behind => o.lck \in ToSet(list)
  PROVE  Level(list, r, l) = Level(list, o, l) + (IF l = o.lck THEN 1 ELSE 0)
<1> DEFINE c == o.lck
<1>1. Nesting(r) = Nesting(o) /\ Nesting(o) \in Int
  BY LevelType DEF Nesting
<1>2. Extra(list, o) = Before(list, c) /\ Extra(list, r) = Before(list, NextIn(list, c))
  BY DEF Extra
<1>3. \A b \in BOOLEAN : One(b) \in {0, 1}
  BY DEF One
<1>4. CASE c \in ToSet(list)
  <2>1. Extra(list, r) = Extra(list, o) \cup {c} /\ c \notin Extra(list, o)
    BY <1>2, <1>4, NextStep
  <2>2. CASE l = c
    BY <1>1, <1>3, <1>4, <2>1, <2>2 DEF Level, One
  <2>3. CASE l # c
    <3>1. l \in Extra(list, r) <=> l \in Extra(list, o)
      BY <2>1, <2>3
    <3>2. Level(list, r, l) = Level(list, o, l)
      BY <3>1, <1>1 DEF Level, One
    <3> QED
      BY <3>2, <2>3, LevelType
  <2> QED
    BY <2>2, <2>3
<1>5. CASE c \notin ToSet(list)
  <2>1. Extra(list, r) = Extra(list, o)
    BY <1>2, <1>5, LostStep
  <2>2. Level(list, r, l) = Level(list, o, l)
    BY <2>1, <1>1 DEF Level
  <2> QED
    BY <2>2, <1>5, LevelType
<1> QED
  BY <1>4, <1>5

(* A thread that walks back over the list has unlocked the lock it was at. *)
LEMMA LevelBack ==
  ASSUME NEW list \in Lists, NEW o \in ThreadStates, NEW r \in ThreadStates,
         o.pc \in {"undo", "unlock"}, r.pc = o.pc, o.lck # End,
         r.lck = PrevIn(list, o.lck), r.hold = o.hold, r.direct = o.direct,
         NEW l \in Behind, o.lck \in Behind => o.lck \in ToSet(list)
  PROVE  Level(list, r, l) = Level(list, o, l) - (IF l = o.lck THEN 1 ELSE 0)
<1> DEFINE c == o.lck
<1>1. Nesting(r) = Nesting(o) /\ Nesting(o) \in Int
  BY LevelType DEF Nesting
<1>2. Extra(list, o) = UpTo(list, c) /\ Extra(list, r) = UpTo(list, PrevIn(list, c))
  BY DEF Extra
<1>3. \A b \in BOOLEAN : One(b) \in {0, 1}
  BY DEF One
<1>4. CASE c \in ToSet(list)
  <2>1. Extra(list, r) = Extra(list, o) \ {c} /\ c \in Extra(list, o)
    BY <1>2, <1>4, PrevStep
  <2>2. CASE l = c
    BY <1>1, <1>3, <1>4, <2>1, <2>2 DEF Level, One
  <2>3. CASE l # c
    <3>1. l \in Extra(list, r) <=> l \in Extra(list, o)
      BY <2>1, <2>3
    <3>2. Level(list, r, l) = Level(list, o, l)
      BY <3>1, <1>1 DEF Level, One
    <3> QED
      BY <3>2, <2>3, LevelType
  <2> QED
    BY <2>2, <2>3
<1>5. CASE c \notin ToSet(list)
  <2>1. Extra(list, r) = Extra(list, o)
    BY <1>2, <1>5, LostStep
  <2>2. Level(list, r, l) = Level(list, o, l)
    BY <2>1, <1>1 DEF Level
  <2> QED
    BY <2>2, <1>5, LevelType
<1> QED
  BY <1>4, <1>5

(* A step to another place in a call.                                      *)
LEMMA GotoStep ==
  ASSUME IInv, NEW t \in Threads, NEW pc \in Pcs \ {"destroy"}, NEW l \in Locks \cup {End},
         Goto(t, pc, l), UNCHANGED <<lock_list, ref_cnt, alive>>,
         thr[t].pc # "destroy",
         pc \in {"body", "release", "unlock"} => thr[t].hold > 0,
         pc \in {"acquire", "tryacquire", "undo", "add_ref"} =>
           thr[t].pc \in {"acquire", "tryacquire", "undo", "add_ref"},
         pc \in Walks /\ l \in Behind => l \in ToSet(lock_list),
         pc \in {"acquire", "tryacquire", "add_ref", "body"} =>
           thr[t].pc \in {"acquire", "tryacquire", "add_ref"},
         pc = "tryacquire" => thr[t].pc = "tryacquire"
  PROVE  \E r \in ThreadStates :
           /\ r.pc = pc /\ r.lck = l /\ r.job = thr[t].job /\ r.arg = thr[t].arg
           /\ r.refs = thr[t].refs /\ r.hold = thr[t].hold /\ r.direct = thr[t].direct
           /\ ThreadTypes' /\ thr'[t] = r /\ \A u \in Threads \ {t} : thr'[u] = thr[u]
           /\ ListSound' /\ Places' /\ ChainsSound' /\ CountSound' /\ EndSound'
<1>1. ThreadTypes /\ Placed(lock_list, thr[t])
  BY Parts DEF Places
<1>2. PICK r \in ThreadStates :
           /\ thr' = [thr EXCEPT ![t] = r]
           /\ r.pc = pc /\ r.lck = l /\ r.job = thr[t].job /\ r.arg = thr[t].arg
           /\ r.refs = thr[t].refs /\ r.hold = thr[t].hold /\ r.direct = thr[t].direct
  BY <1>1, GotoMoves
<1>3. Placed(lock_list, r)
  BY <1>1, <1>2 DEF Placed
<1>4. r.pc \in {"acquire", "add_ref", "body"} /\ r.job = "chain_lock" =>
        Chaining(t) /\ r.arg = thr[t].arg
  BY <1>1, <1>2 DEF Placed, Chaining, At
<1>5. /\ ThreadTypes' /\ thr'[t] = r /\ \A u \in Threads \ {t} : thr'[u] = thr[u]
      /\ ListSound' /\ Places' /\ ChainsSound' /\ CountSound' /\ EndSound'
  BY <1>2, <1>3, <1>4, Walked
<1> QED
  BY <1>2, <1>5

(* Where a walk can stand.                                                 *)
LEMMA WalkPlace ==
  ASSUME IInv, NEW t \in Threads, thr[t].pc \in Walks
  PROVE  /\ thr[t] \in ThreadStates /\ thr[t].lck \in Locks \cup {End}
         /\ thr[t].lck \in Behind => thr[t].lck \in ToSet(lock_list)
         /\ \A l \in {NextIn(lock_list, thr[t].lck), PrevIn(lock_list, thr[t].lck)} :
              thr[t].lck # End =>
                l \in Locks \cup {End} /\ (l \in Behind => l \in ToSet(lock_list))
<1>1. thr[t] \in ThreadStates /\ Placed(lock_list, thr[t]) /\ lock_list \in Lists
  BY Parts DEF Places, ThreadTypes
<1> DEFINE c == thr[t].lck
<1>2. c \in Locks \cup {End} /\ (c \in Behind => c \in ToSet(lock_list))
  BY <1>1 DEF Placed, ThreadStates
<1>3. CASE c \in ToSet(lock_list)
  <2>1. NextIn(lock_list, c) \in ToSet(lock_list) \cup {End}
        /\ PrevIn(lock_list, c) \in ToSet(lock_list) \cup {End}
    BY <1>1, <1>3, NextStep, PrevStep
  <2>2. ToSet(lock_list) \subseteq Locks /\ End \notin Behind
    BY <1>1, ListPlaces, EndIsNoLock DEF Behind
  <2> QED
    BY <1>1, <1>2, <2>1, <2>2
<1>4. CASE c \notin ToSet(lock_list) /\ c # End
  BY <1>1, <1>2, <1>4, LostStep
<1> QED
  BY <1>1, <1>2, <1>3, <1>4

(* grp_lock_acquire and grp_lock_tryacquire lock the next lock of the      *)
(* list.                                                                   *)
LEMMA LockNextStep ==
  ASSUME IInv, NEW t \in Threads, LockNext(t)
  PROVE  IInv'
<1> DEFINE c == thr[t].lck
<1> DEFINE o == thr[t]
<1>1. /\ MutexTypes /\ ThreadTypes /\ RestTypes /\ ListSound /\ MutexesSound
      /\ OwnerSound /\ Places /\ ChainsSound /\ CountSound /\ EndSound /\ lock_list \in Lists
  BY Parts
<1>2. /\ o.pc \in {"acquire", "tryacquire"} /\ c # End /\ Free(c, t)
      /\ mutex' = Locked(mutex, c, t, 1) /\ Goto(t, o.pc, NextIn(lock_list, c))
      /\ UNCHANGED <<lock_list, owner, owner_cnt, ref_cnt, destroy_list, ran, alive>>
  BY DEF LockNext, At
<1>3. /\ o \in ThreadStates /\ c \in Locks /\ (c \in Behind => c \in ToSet(lock_list))
      /\ NextIn(lock_list, c) \in Locks \cup {End}
      /\ NextIn(lock_list, c) \in Behind => NextIn(lock_list, c) \in ToSet(lock_list)
  BY <1>2, WalkPlace DEF Walks
<1>4. PICK r \in ThreadStates :
           /\ r.pc = o.pc /\ r.lck = NextIn(lock_list, c) /\ r.job = o.job /\ r.arg = o.arg
           /\ r.refs = o.refs /\ r.hold = o.hold /\ r.direct = o.direct
           /\ ThreadTypes' /\ thr'[t] = r /\ \A u \in Threads \ {t} : thr'[u] = thr[u]
           /\ ListSound' /\ Places' /\ ChainsSound' /\ CountSound' /\ EndSound'
  BY <1>2, <1>3, GotoStep DEF Pcs
<1>5. ASSUME NEW l \in Behind
      PROVE  Level(lock_list, r, l) = Level(lock_list, o, l) + (IF l = c THEN 1 ELSE 0)
  BY <1>1, <1>2, <1>3, <1>4, LevelForth
<1>6. MutexTypes' /\ MutexesSound'
  <2>1. \A u \in Threads \ {t}, l \in Behind :
            Level(lock_list', thr'[u], l) = Level(lock_list, thr[u], l)
    BY <1>2, <1>4
  <2>2. \A l \in Behind : Level(lock_list', thr'[t], l)
            = Level(lock_list, thr[t], l) + (IF l = c THEN 1 ELSE 0)
    BY <1>2, <1>4, <1>5
  <2> HIDE DEF c, o
  <2> QED
    BY <1>1, <1>2, <1>3, <1>4, <2>1, <2>2, MutexLocked
<1>7. OwnerSound'
  <2>1. OwnerLevel(r) = OwnerLevel(o)
    BY <1>4 DEF OwnerLevel, Nesting
  <2> QED
    BY <1>1, <1>2, <1>4, <2>1, OwnerKept
<1>8. RestTypes'
  BY <1>1, <1>2 DEF RestTypes
<1> QED
  BY <1>4, <1>6, <1>7, <1>8, PartsPrimed

(* A release, or a try that failed, unlocks the lock before.               *)
LEMMA UnlockNextStep ==
  ASSUME IInv, NEW t \in Threads, UnlockNext(t)
  PROVE  IInv'
<1> DEFINE c == thr[t].lck
<1> DEFINE o == thr[t]
<1>1. /\ MutexTypes /\ ThreadTypes /\ RestTypes /\ ListSound /\ MutexesSound
      /\ OwnerSound /\ Places /\ ChainsSound /\ CountSound /\ EndSound /\ lock_list \in Lists
  BY Parts
<1>2. /\ o.pc \in {"undo", "unlock"} /\ c # End
      /\ mutex' = Unlocked(mutex, c, t, 1) /\ Goto(t, o.pc, PrevIn(lock_list, c))
      /\ UNCHANGED <<lock_list, owner, owner_cnt, ref_cnt, destroy_list, ran, alive>>
  BY DEF UnlockNext, At
<1>3. /\ o \in ThreadStates /\ c \in Locks /\ (c \in Behind => c \in ToSet(lock_list))
      /\ PrevIn(lock_list, c) \in Locks \cup {End}
      /\ PrevIn(lock_list, c) \in Behind => PrevIn(lock_list, c) \in ToSet(lock_list)
  BY <1>2, WalkPlace DEF Walks
<1>4. o.pc = "unlock" => o.hold > 0
  BY <1>1 DEF Places, Placed
<1>5. PICK r \in ThreadStates :
           /\ r.pc = o.pc /\ r.lck = PrevIn(lock_list, c) /\ r.job = o.job /\ r.arg = o.arg
           /\ r.refs = o.refs /\ r.hold = o.hold /\ r.direct = o.direct
           /\ ThreadTypes' /\ thr'[t] = r /\ \A u \in Threads \ {t} : thr'[u] = thr[u]
           /\ ListSound' /\ Places' /\ ChainsSound' /\ CountSound' /\ EndSound'
  BY <1>2, <1>3, <1>4, GotoStep DEF Pcs
<1>6. ASSUME NEW l \in Behind
      PROVE  Level(lock_list, r, l) = Level(lock_list, o, l) - (IF l = c THEN 1 ELSE 0)
  BY <1>1, <1>2, <1>3, <1>5, LevelBack
<1>7. ASSUME c \in Behind PROVE Level(lock_list, o, c) >= 1
  <2>1. c \in UpTo(lock_list, c)
    BY <1>1, <1>3, <1>7, PrevStep
  <2>2. Extra(lock_list, o) = UpTo(lock_list, c)
    BY <1>2 DEF Extra
  <2>3. Nesting(o) >= 0 /\ Nesting(o) \in Int
    BY <1>3, <1>4 DEF Nesting, ThreadStates
  <2>4. One(c \in o.direct) \in {0, 1}
    BY DEF One
  <2>5. One(c \in Extra(lock_list, o)) = 1
    BY <2>1, <2>2 DEF One
  <2>6. Level(lock_list, o, c) = Nesting(o) + One(c \in Extra(lock_list, o)) + One(c \in o.direct)
    BY <1>3, <1>7 DEF Level
  <2> HIDE DEF o, c
  <2> QED
    BY <2>3, <2>4, <2>5, <2>6
<1>8. MutexTypes' /\ MutexesSound'
  <2>1. \A u \in Threads \ {t}, l \in Behind :
            Level(lock_list', thr'[u], l) = Level(lock_list, thr[u], l)
    BY <1>2, <1>5
  <2>2. \A l \in Behind : Level(lock_list', thr'[t], l)
            = Level(lock_list, thr[t], l) - (IF l = c THEN 1 ELSE 0)
    BY <1>2, <1>5, <1>6
  <2> HIDE DEF c, o
  <2>3. c \in Behind => Level(lock_list, thr[t], c) >= 1
    BY <1>7 DEF o
  <2> QED
    BY <1>1, <1>2, <1>3, <1>5, <2>1, <2>2, <2>3, MutexUnlocked
<1>9. OwnerSound'
  <2>1. OwnerLevel(r) = OwnerLevel(o)
    BY <1>5 DEF OwnerLevel, Nesting
  <2> QED
    BY <1>1, <1>2, <1>5, <2>1, OwnerKept
<1>10. RestTypes'
  BY <1>1, <1>2 DEF RestTypes
<1> QED
  BY <1>5, <1>8, <1>9, <1>10, PartsPrimed

(* A step that changes neither a mutex nor a level.                        *)
LEMMA LevelsKept ==
  ASSUME MutexTypes, MutexesSound, NEW t \in Threads, UNCHANGED <<mutex, lock_list>>,
         \A u \in Threads \ {t} : thr'[u] = thr[u],
         \A l \in Behind : Level(lock_list, thr'[t], l) = Level(lock_list, thr[t], l)
  PROVE  MutexTypes' /\ MutexesSound'
<1>1. \A u \in Threads, l \in Behind : Level(lock_list', thr'[u], l) = Level(lock_list, thr[u], l)
  OBVIOUS
<1> QED
  BY <1>1, MutexesKept DEF MutexTypes

(* grp_lock_tryacquire finds a lock taken.                                 *)
LEMMA TryFailsStep ==
  ASSUME IInv, NEW t \in Threads, TryFails(t)
  PROVE  IInv'
<1> DEFINE c == thr[t].lck
<1> DEFINE o == thr[t]
<1>1. /\ MutexTypes /\ ThreadTypes /\ RestTypes /\ ListSound /\ MutexesSound
      /\ OwnerSound /\ Places /\ ChainsSound /\ CountSound /\ EndSound /\ lock_list \in Lists
  BY Parts
<1>2. /\ o.pc = "tryacquire" /\ c # End /\ Goto(t, "undo", PrevIn(lock_list, c))
      /\ UNCHANGED <<mutex, lock_list, owner, owner_cnt, ref_cnt, destroy_list, ran, alive>>
  BY DEF TryFails, At
<1>3. /\ o \in ThreadStates /\ c \in Locks /\ (c \in Behind => c \in ToSet(lock_list))
      /\ PrevIn(lock_list, c) \in Locks \cup {End}
      /\ PrevIn(lock_list, c) \in Behind => PrevIn(lock_list, c) \in ToSet(lock_list)
  BY <1>2, WalkPlace DEF Walks
<1>4. "undo" \in Pcs \ {"destroy"}
  BY DEF Pcs
<1>5. PICK r \in ThreadStates :
           /\ r.pc = "undo" /\ r.lck = PrevIn(lock_list, c) /\ r.job = o.job /\ r.arg = o.arg
           /\ r.refs = o.refs /\ r.hold = o.hold /\ r.direct = o.direct
           /\ ThreadTypes' /\ thr'[t] = r /\ \A u \in Threads \ {t} : thr'[u] = thr[u]
           /\ ListSound' /\ Places' /\ ChainsSound' /\ CountSound' /\ EndSound'
  <2> DEFINE l == PrevIn(lock_list, c)
  <2>1. /\ l \in Locks \cup {End} /\ (l \in Behind => l \in ToSet(lock_list))
        /\ Goto(t, "undo", l) /\ thr[t].pc = "tryacquire"
    BY <1>2, <1>3
  <2> HIDE DEF l
  <2>2. \E r \in ThreadStates :
           /\ r.pc = "undo" /\ r.lck = l /\ r.job = thr[t].job /\ r.arg = thr[t].arg
           /\ r.refs = thr[t].refs /\ r.hold = thr[t].hold /\ r.direct = thr[t].direct
           /\ ThreadTypes' /\ thr'[t] = r /\ \A u \in Threads \ {t} : thr'[u] = thr[u]
           /\ ListSound' /\ Places' /\ ChainsSound' /\ CountSound' /\ EndSound'
    BY <2>1, <1>4, <1>2, GotoStep
  <2> QED
    BY <2>2 DEF l
<1>6. Extra(lock_list, r) = Extra(lock_list, o)
  <2>1. UpTo(lock_list, PrevIn(lock_list, c)) = Before(lock_list, c)
    <3>1. CASE c \in ToSet(lock_list)
      BY <1>1, <3>1, PrevStep
    <3>2. CASE c \notin ToSet(lock_list)
      BY <1>2, <3>2, LostStep
    <3> QED
      BY <3>1, <3>2
  <2> QED
    BY <2>1, <1>2, <1>5 DEF Extra
<1>7. Nesting(r) = Nesting(o) /\ OwnerLevel(r) = OwnerLevel(o)
  BY <1>2, <1>5 DEF OwnerLevel, Nesting
<1>8. \A l : Level(lock_list, r, l) = Level(lock_list, o, l)
  BY <1>5, <1>6, <1>7 DEF Level
<1>9. MutexTypes' /\ MutexesSound'
  BY <1>1, <1>2, <1>5, <1>8, LevelsKept
<1>10. OwnerSound'
  BY <1>1, <1>2, <1>5, <1>7, OwnerKept
<1>11. RestTypes'
  BY <1>1, <1>2 DEF RestTypes
<1> QED
  BY <1>5, <1>9, <1>10, <1>11, PartsPrimed

(* The recorded owner has every lock of the list from the group lock on.   *)
LEMMA OwnerHasThem ==
  ASSUME IInv, NEW u \in Threads, OwnerLevel(thr[u]) > 0, NEW l \in Behind, l \in ToSet(lock_list)
  PROVE  mutex[l].owner = u
<1> DEFINE r == thr[u]
<1>1. /\ r \in ThreadStates /\ Placed(lock_list, r)
      /\ Counted(mutex[l].owner, mutex[l].count, u, Level(lock_list, r, l))
  BY Parts DEF Places, ThreadTypes, MutexesSound
<1>2. One(l \in Extra(lock_list, r)) \in {0, 1} /\ One(l \in r.direct) \in {0, 1}
  BY DEF One
<1>3. Level(lock_list, r, l) = Nesting(r) + One(l \in Extra(lock_list, r)) + One(l \in r.direct)
  BY DEF Level
<1>4. Nesting(r) \in Int /\ r.hold \in Nat
  BY <1>1, LevelType DEF ThreadStates
<1>5. CASE r.pc = "add_ref"
  <2>1. l \in Extra(lock_list, r) /\ Nesting(r) = r.hold
    BY <1>5 DEF Extra, Nesting
  <2>2. One(l \in Extra(lock_list, r)) = 1
    BY <2>1 DEF One
  <2> HIDE DEF r
  <2>3. Level(lock_list, r, l) > 0
    BY <1>2, <1>3, <1>4, <2>1, <2>2
  <2> QED
    BY <2>3, <1>1, LevelType DEF Counted
<1>6. CASE r.pc # "add_ref"
  <2>1. Nesting(r) > 0
    BY <1>6 DEF OwnerLevel
  <2> HIDE DEF r
  <2>2. Level(lock_list, r, l) > 0
    BY <1>2, <1>3, <1>4, <2>1
  <2> QED
    BY <2>2, <1>1, LevelType DEF Counted
<1> QED
  BY <1>5, <1>6

(* grp_lock_set_owner_thread.                                              *)
LEMMA SetOwnerStep ==
  ASSUME IInv, NEW t \in Threads, SetOwner(t)
  PROVE  IInv'
<1> DEFINE o == thr[t]
<1>1. /\ MutexTypes /\ ThreadTypes /\ RestTypes /\ ListSound /\ MutexesSound
      /\ OwnerSound /\ Places /\ ChainsSound /\ CountSound /\ EndSound /\ lock_list \in Lists
  BY Parts
<1>2. /\ o.pc \in {"acquire", "tryacquire"} /\ o.lck = End /\ Goto(t, "add_ref", End)
      /\ IF owner = NoThread THEN owner' = t /\ owner_cnt' = 1
         ELSE owner_cnt' = owner_cnt + 1 /\ owner' = owner
      /\ UNCHANGED <<mutex, lock_list, ref_cnt, destroy_list, ran, alive>>
  BY DEF SetOwner, At
<1>3. o \in ThreadStates /\ o.hold \in Nat
  BY <1>1 DEF ThreadTypes, ThreadStates
<1>4. PICK r \in ThreadStates :
           /\ r.pc = "add_ref" /\ r.lck = End /\ r.job = o.job /\ r.arg = o.arg
           /\ r.refs = o.refs /\ r.hold = o.hold /\ r.direct = o.direct
           /\ ThreadTypes' /\ thr'[t] = r /\ \A u \in Threads \ {t} : thr'[u] = thr[u]
           /\ ListSound' /\ Places' /\ ChainsSound' /\ CountSound' /\ EndSound'
  BY <1>2, EndIsNoLock, GotoStep DEF Pcs, Walks
<1>5. Extra(lock_list, r) = ToSet(lock_list) /\ Extra(lock_list, o) = ToSet(lock_list)
  BY <1>1, <1>2, <1>4, AtTheEnds DEF Extra
<1>6. Nesting(r) = o.hold /\ Nesting(o) = o.hold /\ OwnerLevel(r) = o.hold + 1
      /\ OwnerLevel(o) = o.hold
  BY <1>2, <1>4 DEF OwnerLevel, Nesting
<1>7. \A l : Level(lock_list, r, l) = Level(lock_list, o, l)
  BY <1>4, <1>5, <1>6 DEF Level
<1>8. MutexTypes' /\ MutexesSound'
  BY <1>1, <1>2, <1>4, <1>7, LevelsKept
<1>9. mutex[Own].owner = t
  <2>1. Own \in ToSet(lock_list) /\ Own \in Behind
    BY <1>1, EndIsNoLock DEF ListSound, Shaped
  <2>2. One(Own \in Extra(lock_list, o)) = 1 /\ One(Own \in o.direct) \in {0, 1}
    BY <2>1, <1>5 DEF One
  <2>3. Level(lock_list, o, Own) = Nesting(o) + One(Own \in Extra(lock_list, o)) + One(Own \in o.direct)
    BY <2>1 DEF Level
  <2>4. Counted(mutex[Own].owner, mutex[Own].count, t, Level(lock_list, o, Own))
    BY <1>1, <2>1 DEF MutexesSound
  <2> HIDE DEF o
  <2>5. Level(lock_list, o, Own) # 0
    BY <1>3, <1>6, <2>2, <2>3
  <2> QED
    BY <2>4, <2>5 DEF Counted
<1>10. ASSUME NEW u \in Threads, owner = u PROVE u = t
  <2>1. Own \in ToSet(lock_list) /\ Own \in Behind
    BY <1>1, EndIsNoLock DEF ListSound, Shaped
  <2>2. OwnerLevel(thr[u]) > 0
    BY <1>1, <1>10 DEF OwnerSound, Counted
  <2> QED
    BY <2>1, <2>2, <1>9, OwnerHasThem
<1>11. OwnerSound' /\ owner' \in Threads \cup {NoThread} /\ owner_cnt' \in Nat
  <2>1. owner' = t /\ owner_cnt' = o.hold + 1
    <3>1. CASE owner = NoThread
      <4>1. Counted(owner, owner_cnt, t, o.hold) /\ owner # t
        BY <3>1, <1>1, <1>6, GrpLockAssumption DEF OwnerSound
      <4>2. o.hold = 0
        BY <4>1 DEF Counted
      <4> QED
        BY <3>1, <4>2, <1>2
    <3>2. CASE owner # NoThread
      <4>1. owner = t
        BY <3>2, <1>1, <1>10 DEF RestTypes
      <4>2. Counted(owner, owner_cnt, t, o.hold)
        BY <1>1, <1>6 DEF OwnerSound
      <4> QED
        BY <3>2, <4>1, <4>2, <1>2 DEF Counted
    <3> QED
      BY <3>1, <3>2
  <2>2. ASSUME NEW u \in Threads \ {t} PROVE Counted(owner', owner_cnt', u, OwnerLevel(thr'[u]))
    <3>1. owner # u
      BY <1>10
    <3>2. OwnerLevel(thr[u]) = 0
      BY <3>1, <1>1 DEF OwnerSound, Counted
    <3> QED
      BY <3>2, <2>1, <1>4 DEF Counted
  <2>3. Counted(owner', owner_cnt', t, OwnerLevel(thr'[t]))
    BY <2>1, <1>3, <1>4, <1>6 DEF Counted
  <2>4. owner' # NoThread
    BY <2>1, GrpLockAssumption
  <2> QED
    BY <2>1, <2>2, <2>3, <2>4, <1>3 DEF OwnerSound
<1>12. RestTypes'
  BY <1>1, <1>2, <1>11 DEF RestTypes
<1> QED
  BY <1>4, <1>8, <1>11, <1>12, PartsPrimed

(* The reference that grp_lock_acquire adds once it is owner.              *)
LEMMA RefHeldStep ==
  ASSUME IInv, NEW t \in Threads, RefHeld(t)
  PROVE  IInv'
<1> DEFINE o == thr[t]
<1> DEFINE pc == IF o.job = "use" THEN "idle" ELSE "body"
<1> DEFINE r == [o EXCEPT !.hold = @ + 1, !.pc = pc]
<1>1. /\ MutexTypes /\ ThreadTypes /\ RestTypes /\ ListSound /\ MutexesSound
      /\ OwnerSound /\ Places /\ ChainsSound /\ CountSound /\ EndSound /\ lock_list \in Lists
  BY Parts
<1>2. /\ o.pc = "add_ref" /\ ref_cnt' = ref_cnt + 1 /\ thr' = [thr EXCEPT ![t] = r]
      /\ UNCHANGED <<mutex, lock_list, owner, owner_cnt, destroy_list, ran, alive>>
  BY DEF RefHeld, At, Held
<1>3. o \in ThreadStates /\ o.hold \in Nat /\ Placed(lock_list, o) /\ pc \in {"idle", "body"}
  BY <1>1 DEF ThreadTypes, ThreadStates, Places
<1> HIDE DEF pc
<1>4. r \in ThreadStates
  <2> DEFINE n == o.hold + 1
  <2>1. n \in Nat
    BY <1>3
  <2>2. r = [o EXCEPT !.hold = n, !.pc = pc]
    OBVIOUS
  <2> HIDE DEF n
  <2> QED
    BY <1>3, <2>1, <2>2 DEF ThreadStates
<1>5. /\ r.pc = pc /\ r.lck = o.lck /\ r.job = o.job /\ r.arg = o.arg
      /\ r.refs = o.refs /\ r.hold = o.hold + 1 /\ r.direct = o.direct
  BY <1>3 DEF ThreadStates
<1> HIDE DEF r
<1>6. ThreadTypes' /\ thr'[t] = r /\ \A u \in Threads \ {t} : thr'[u] = thr[u]
  BY <1>1, <1>2, <1>4, ThreadMoved
<1>7. Placed(lock_list, r)
  BY <1>2, <1>3, <1>5 DEF Placed, Walks
<1>8. Places' /\ ListSound'
  BY <1>1, <1>2, <1>6, <1>7, PlacesMoved DEF ListSound
<1>9. ChainsSound'
  <2>1. Chaining(t)' => Chaining(t) /\ thr'[t].arg = thr[t].arg
    BY <1>2, <1>5, <1>6 DEF Chaining, At
  <2> QED
    BY <2>1, <1>1, <1>2, <1>6, ChainsMoved
<1>10. CountSound'
  <2>1. Uses(thr'[t]) = Uses(thr[t]) + 1
    BY <1>3, <1>5, <1>6 DEF Uses, ThreadStates
  <2>2. \A u \in Threads \ {t} : Uses(thr'[u]) = Uses(thr[u])
    BY <1>6
  <2> QED
    BY <2>1, <2>2, <1>1, <1>2, CountGrows
<1>11. EndSound'
  <2>1. o.refs > 0 \/ o.hold > 0
    BY <1>2, <1>3 DEF Placed
  <2>2. alive /\ \A u \in Threads : thr[u].pc # "destroy"
    BY <2>1, <1>1, UsersAreCounted
  <2> QED
    BY <2>2, <1>1, <1>2, <1>3, <1>5, <1>6, EndMoved
<1>12. Nesting(r) = o.hold + 1 /\ Nesting(o) = o.hold /\ OwnerLevel(r) = OwnerLevel(o)
       /\ Extra(lock_list, r) = {} /\ Extra(lock_list, o) = ToSet(lock_list)
  BY <1>2, <1>3, <1>5 DEF OwnerLevel, Nesting, Extra
<1>13. ASSUME NEW l PROVE Level(lock_list, r, l) = Level(lock_list, o, l)
  <2>1. CASE l \in ToSet(lock_list)
    <3>1. One(l \in Extra(lock_list, r)) = 0 /\ One(l \in Extra(lock_list, o)) = 1
      BY <2>1, <1>12 DEF One
    <3> QED
      BY <3>1, <2>1, <1>3, <1>5, <1>12 DEF Level
  <2>2. CASE l \notin ToSet(lock_list)
    BY <2>2, <1>5 DEF Level
  <2> QED
    BY <2>1, <2>2
<1>14. MutexTypes' /\ MutexesSound'
  BY <1>1, <1>2, <1>6, <1>13, LevelsKept
<1>15. OwnerSound' /\ RestTypes'
  BY <1>1, <1>2, <1>6, <1>12, OwnerKept DEF RestTypes
<1> QED
  BY <1>6, <1>8, <1>9, <1>10, <1>11, <1>14, <1>15, PartsPrimed

(* Between two places outside the walks nothing is taken or given back.    *)
LEMMA RestStep ==
  ASSUME IInv, NEW t \in Threads, NEW pc \in {"idle", "release"}, Goto(t, pc, End),
         thr[t].pc \in {"idle", "body"} \/ (thr[t].pc = "undo" /\ thr[t].lck = End),
         pc = "release" => thr[t].hold > 0,
         destroy_list' \in Seq(Handlers),
         UNCHANGED <<mutex, lock_list, owner, owner_cnt, ref_cnt, ran, alive>>
  PROVE  IInv'
<1> DEFINE o == thr[t]
<1>1. /\ MutexTypes /\ ThreadTypes /\ RestTypes /\ ListSound /\ MutexesSound
      /\ OwnerSound /\ Places /\ ChainsSound /\ CountSound /\ EndSound /\ lock_list \in Lists
  BY Parts
<1>2. PICK r \in ThreadStates :
           /\ r.pc = pc /\ r.lck = End /\ r.job = o.job /\ r.arg = o.arg
           /\ r.refs = o.refs /\ r.hold = o.hold /\ r.direct = o.direct
           /\ ThreadTypes' /\ thr'[t] = r /\ \A u \in Threads \ {t} : thr'[u] = thr[u]
           /\ ListSound' /\ Places' /\ ChainsSound' /\ CountSound' /\ EndSound'
  <2>1. pc \in Pcs \ {"destroy"} /\ pc \notin Walks /\ End \in Locks \cup {End}
    BY DEF Pcs, Walks
  <2>2. thr[t].pc # "destroy"
    OBVIOUS
  <2>3. \E r \in ThreadStates :
           /\ r.pc = pc /\ r.lck = End /\ r.job = thr[t].job /\ r.arg = thr[t].arg
           /\ r.refs = thr[t].refs /\ r.hold = thr[t].hold /\ r.direct = thr[t].direct
           /\ ThreadTypes' /\ thr'[t] = r /\ \A u \in Threads \ {t} : thr'[u] = thr[u]
           /\ ListSound' /\ Places' /\ ChainsSound' /\ CountSound' /\ EndSound'
    BY <2>1, <2>2, GotoStep
  <2> QED
    BY <2>3
<1>3. Nesting(r) = Nesting(o) /\ OwnerLevel(r) = OwnerLevel(o)
      /\ Extra(lock_list, r) = {} /\ Extra(lock_list, o) = {}
  BY <1>1, <1>2, AtTheEnds DEF OwnerLevel, Nesting, Extra
<1>4. \A l : Level(lock_list, r, l) = Level(lock_list, o, l)
  BY <1>2, <1>3 DEF Level
<1>5. MutexTypes' /\ MutexesSound'
  BY <1>1, <1>2, <1>4, LevelsKept
<1>6. OwnerSound' /\ RestTypes'
  BY <1>1, <1>2, <1>3, OwnerKept DEF RestTypes
<1> QED
  BY <1>2, <1>5, <1>6, PartsPrimed

(* The bodies of pj_grp_lock_add_handler and pj_grp_lock_del_handler.      *)
LEMMA HandlerBodyStep ==
  ASSUME IInv, NEW t \in Threads, HandlerBody(t)
  PROVE  IInv'
<1>1. Placed(lock_list, thr[t]) /\ destroy_list \in Seq(Handlers)
  BY Parts DEF Places, RestTypes
<1>2. thr[t].pc = "body" /\ Goto(t, "release", End)
      /\ thr[t].job \in {"add_handler", "del_handler"}
      /\ UNCHANGED <<mutex, lock_list, owner, owner_cnt, ref_cnt, ran, alive>>
  BY DEF HandlerBody, InBody, At
<1>3. thr[t].hold > 0 /\ thr[t].arg \in Handlers
  BY <1>1, <1>2 DEF Placed
<1>4. destroy_list' = Append(destroy_list, thr[t].arg)
      \/ destroy_list' = Erased(destroy_list, thr[t].arg)
  BY DEF HandlerBody
<1>5. Append(destroy_list, thr[t].arg) \in Seq(Handlers)
  BY <1>1, <1>3
<1>6. Erased(destroy_list, thr[t].arg) \in Seq(Handlers)
  BY <1>1, ErasedSeq
<1>7. destroy_list' \in Seq(Handlers)
  BY <1>4, <1>5, <1>6
<1> QED
  BY <1>2, <1>3, <1>7, RestStep

(* grp_lock_unset_owner_thread.                                            *)
LEMMA UnsetOwnerStep ==
  ASSUME IInv, NEW t \in Threads, UnsetOwner(t)
  PROVE  IInv'
<1> DEFINE o == thr[t]
<1>1. /\ MutexTypes /\ ThreadTypes /\ RestTypes /\ ListSound /\ MutexesSound
      /\ OwnerSound /\ Places /\ ChainsSound /\ CountSound /\ EndSound /\ lock_list \in Lists
  BY Parts
<1>2. /\ o.pc = "release" /\ Goto(t, "unlock", LastIn(lock_list))
      /\ owner_cnt' = owner_cnt - 1
      /\ owner' = IF owner_cnt - 1 > 0 THEN owner ELSE NoThread
      /\ UNCHANGED <<mutex, lock_list, ref_cnt, destroy_list, ran, alive>>
  BY DEF UnsetOwner, At, OwnerAfter
<1>3. o \in ThreadStates /\ o.hold \in Nat /\ o.hold > 0
  BY <1>1, <1>2 DEF ThreadTypes, ThreadStates, Places, Placed
<1>4. LastIn(lock_list) \in ToSet(lock_list) /\ LastIn(lock_list) \in Locks
      /\ UpTo(lock_list, LastIn(lock_list)) = ToSet(lock_list)
  BY <1>1, AtTheEnds, ListPlaces
<1>5. PICK r \in ThreadStates :
           /\ r.pc = "unlock" /\ r.lck = LastIn(lock_list) /\ r.job = o.job /\ r.arg = o.arg
           /\ r.refs = o.refs /\ r.hold = o.hold /\ r.direct = o.direct
           /\ ThreadTypes' /\ thr'[t] = r /\ \A u \in Threads \ {t} : thr'[u] = thr[u]
           /\ ListSound' /\ Places' /\ ChainsSound' /\ CountSound' /\ EndSound'
  BY <1>2, <1>3, <1>4, GotoStep DEF Pcs
<1>6. Nesting(r) = o.hold - 1 /\ Nesting(o) = o.hold /\ OwnerLevel(r) = o.hold - 1
      /\ OwnerLevel(o) = o.hold
      /\ Extra(lock_list, r) = ToSet(lock_list) /\ Extra(lock_list, o) = {}
  BY <1>2, <1>4, <1>5 DEF OwnerLevel, Nesting, Extra
<1>7. ASSUME NEW l PROVE Level(lock_list, r, l) = Level(lock_list, o, l)
  <2>1. CASE l \in ToSet(lock_list)
    <3>1. One(l \in Extra(lock_list, r)) = 1 /\ One(l \in Extra(lock_list, o)) = 0
      BY <2>1, <1>6 DEF One
    <3> QED
      BY <3>1, <2>1, <1>3, <1>5, <1>6 DEF Level
  <2>2. CASE l \notin ToSet(lock_list)
    BY <2>2, <1>5 DEF Level
  <2> QED
    BY <2>1, <2>2
<1>8. MutexTypes' /\ MutexesSound'
  BY <1>1, <1>2, <1>5, <1>7, LevelsKept
<1>9. owner = t /\ owner_cnt = o.hold
  BY <1>1, <1>3, <1>6 DEF OwnerSound, Counted
<1>10. OwnerSound' /\ owner' \in Threads \cup {NoThread} /\ owner_cnt' \in Nat
  <2>1. ASSUME NEW u \in Threads \ {t} PROVE Counted(owner', owner_cnt', u, OwnerLevel(thr'[u]))
    <3>1. OwnerLevel(thr[u]) = 0
      BY <1>1, <1>9 DEF OwnerSound, Counted
    <3>2. owner' # u
      BY <1>2, <1>9, GrpLockAssumption
    <3> QED
      BY <3>1, <3>2, <1>5 DEF Counted
  <2>2. Counted(owner', owner_cnt', t, OwnerLevel(thr'[t]))
    <3>1. OwnerLevel(thr'[t]) = o.hold - 1 /\ owner_cnt' = o.hold - 1
      BY <1>2, <1>5, <1>6, <1>9
    <3>2. CASE o.hold - 1 > 0
      BY <3>1, <3>2, <1>2, <1>9 DEF Counted
    <3>3. CASE ~(o.hold - 1 > 0)
      <4>1. o.hold - 1 = 0 /\ owner' = NoThread
        BY <3>3, <1>2, <1>3, <1>9
      <4> QED
        BY <4>1, <3>1, GrpLockAssumption DEF Counted
    <3> QED
      BY <3>2, <3>3
  <2>3. owner' = NoThread => owner_cnt' = 0
    <3> SUFFICES ASSUME owner' = NoThread PROVE owner_cnt' = 0
      OBVIOUS
    <3>1. ~(owner_cnt - 1 > 0)
      BY <1>2, <1>9, GrpLockAssumption
    <3> QED
      BY <3>1, <1>2, <1>3, <1>9
  <2>4. owner' \in Threads \cup {NoThread} /\ owner_cnt' \in Nat
    BY <1>2, <1>3, <1>9
  <2> QED
    BY <2>1, <2>2, <2>3, <2>4 DEF OwnerSound
<1>11. RestTypes'
  BY <1>1, <1>2, <1>10 DEF RestTypes
<1> QED
  BY <1>5, <1>8, <1>10, <1>11, PartsPrimed

-----------------------------------------------------------------------------
(* Every step keeps the invariant: the count and destruction.              *)

LEMMA DecRefStep ==
  ASSUME IInv, NEW t \in Threads, NEW has \in ThreadStates, DecRefTo(t, has),
         has.job = thr[t].job, has.arg = thr[t].arg, has.direct = thr[t].direct,
         Uses(thr[t]) > 0, Uses(has) = Uses(thr[t]) - 1,
         Nesting(thr[t]) = has.hold, OwnerLevel(thr[t]) = has.hold,
         Extra(lock_list, thr[t]) = {}
  PROVE  IInv'
<1> DEFINE o == thr[t]
<1> DEFINE pc == IF ref_cnt - 1 = 0 THEN "destroy" ELSE "idle"
<1> DEFINE r == [has EXCEPT !.pc = pc]
<1>1. /\ MutexTypes /\ ThreadTypes /\ RestTypes /\ ListSound /\ MutexesSound
      /\ OwnerSound /\ Places /\ ChainsSound /\ CountSound /\ EndSound /\ lock_list \in Lists
  BY Parts
<1>2. /\ ref_cnt' = ref_cnt - 1 /\ thr' = [thr EXCEPT ![t] = r]
      /\ UNCHANGED <<mutex, lock_list, owner, owner_cnt, destroy_list, ran, alive>>
  BY DEF DecRefTo, IsLast
<1>3. o \in ThreadStates /\ Placed(lock_list, o) /\ pc \in {"idle", "destroy"}
  BY <1>1 DEF ThreadTypes, Places
<1>4. pc = "destroy" <=> ref_cnt - 1 = 0
  OBVIOUS
<1> HIDE DEF pc
<1>5. r \in ThreadStates
  BY <1>3 DEF ThreadStates
<1>6. /\ r.pc = pc /\ r.job = o.job /\ r.arg = o.arg
      /\ r.refs = has.refs /\ r.hold = has.hold /\ r.direct = o.direct
  BY <1>3 DEF ThreadStates
<1> HIDE DEF r
<1>7. ThreadTypes' /\ thr'[t] = r /\ \A u \in Threads \ {t} : thr'[u] = thr[u]
  BY <1>1, <1>2, <1>5, ThreadMoved
<1>8. Placed(lock_list, r)
  BY <1>3, <1>6 DEF Placed, Walks
<1>9. Places' /\ ListSound'
  BY <1>1, <1>2, <1>7, <1>8, PlacesMoved DEF ListSound
<1>10. ChainsSound'
  <2>1. ~Chaining(t)'
    BY <1>3, <1>6, <1>7 DEF Chaining, At
  <2> QED
    BY <2>1, <1>1, <1>2, <1>7, ChainsMoved
<1>11. CountSound'
  <2>1. Uses(thr'[t]) = Uses(thr[t]) - 1
    BY <1>6, <1>7 DEF Uses
  <2>2. \A u \in Threads \ {t} : Uses(thr'[u]) = Uses(thr[u])
    BY <1>7
  <2> QED
    BY <2>1, <2>2, <1>1, <1>2, CountShrinks
<1>12. EndSound'
  <2>1. o.refs > 0 \/ o.hold > 0
    BY <1>3 DEF Uses, ThreadStates
  <2>2. ref_cnt > 0 /\ alive /\ \A u \in Threads : thr[u].pc # "destroy"
    BY <2>1, <1>1, UsersAreCounted
  <2>3. \A u \in Threads : At(u, "destroy")' => u = t /\ ref_cnt' = 0
    BY <2>2, <1>2, <1>6, <1>7, <1>4 DEF At
  <2> QED
    BY <2>2, <2>3, <1>2 DEF EndSound
<1>13. Nesting(r) = Nesting(o) /\ OwnerLevel(r) = OwnerLevel(o)
       /\ Extra(lock_list, r) = Extra(lock_list, o)
  BY <1>3, <1>6 DEF OwnerLevel, Nesting, Extra
<1>14. \A l : Level(lock_list, r, l) = Level(lock_list, o, l)
  BY <1>6, <1>13 DEF Level
<1>15. MutexTypes' /\ MutexesSound'
  BY <1>1, <1>2, <1>7, <1>14, LevelsKept
<1>16. OwnerSound' /\ RestTypes'
  BY <1>1, <1>2, <1>7, <1>13, OwnerKept DEF RestTypes
<1> QED
  BY <1>7, <1>9, <1>10, <1>11, <1>12, <1>15, <1>16, PartsPrimed

(* The reference that grp_lock_release drops at its end.                   *)
LEMMA ReleaseDecRefStep ==
  ASSUME IInv, NEW t \in Threads, ReleaseDecRef(t)
  PROVE  IInv'
<1> DEFINE o == thr[t]
<1> DEFINE n == o.hold - 1
<1> DEFINE has == [o EXCEPT !.hold = n]
<1>1. o.pc = "unlock" /\ o.lck = End /\ DecRefTo(t, has)
  BY DEF ReleaseDecRef, At
<1>2. o \in ThreadStates /\ Placed(lock_list, o) /\ lock_list \in Lists
  BY Parts DEF ThreadTypes, Places
<1>3. o.hold \in Nat /\ o.refs \in Nat /\ o.hold > 0 /\ n \in Nat /\ o.hold = n + 1
  BY <1>1, <1>2 DEF ThreadStates, Placed
<1> HIDE DEF n
<1>4. has \in ThreadStates
  BY <1>2, <1>3 DEF ThreadStates
<1>5. /\ has.job = o.job /\ has.arg = o.arg /\ has.direct = o.direct
      /\ has.refs = o.refs /\ has.hold = n
  BY <1>2 DEF ThreadStates
<1> HIDE DEF has
<1>6. Uses(o) > 0 /\ Uses(has) = Uses(o) - 1
  BY <1>3, <1>5 DEF Uses
<1>7. Nesting(o) = n /\ OwnerLevel(o) = n /\ Extra(lock_list, o) = {}
  BY <1>1, <1>2, <1>3, AtTheEnds DEF Nesting, OwnerLevel, Extra
<1> QED
  BY <1>1, <1>4, <1>5, <1>6, <1>7, DecRefStep

(* pj_grp_lock_dec_ref by a client.                                        *)
LEMMA ClientDecRefStep ==
  ASSUME IInv, NEW t \in Threads, DecRef(t)
  PROVE  IInv'
<1> DEFINE o == thr[t]
<1> DEFINE n == o.refs - 1
<1> DEFINE has == [o EXCEPT !.refs = n]
<1>1. o.pc = "idle" /\ o.refs > 0 /\ DecRefTo(t, has)
  BY DEF DecRef, At
<1>2. o \in ThreadStates
  BY Parts DEF ThreadTypes
<1>3. o.hold \in Nat /\ o.refs \in Nat /\ n \in Nat /\ o.refs = n + 1
  BY <1>1, <1>2 DEF ThreadStates
<1> HIDE DEF n
<1>4. has \in ThreadStates
  BY <1>2, <1>3 DEF ThreadStates
<1>5. /\ has.job = o.job /\ has.arg = o.arg /\ has.direct = o.direct
      /\ has.refs = n /\ has.hold = o.hold
  BY <1>2 DEF ThreadStates
<1> HIDE DEF has
<1>6. Uses(o) > 0 /\ Uses(has) = Uses(o) - 1
  BY <1>3, <1>5 DEF Uses
<1>7. Nesting(o) = o.hold /\ OwnerLevel(o) = o.hold /\ Extra(lock_list, o) = {}
  BY <1>1 DEF Nesting, OwnerLevel, Extra
<1> QED
  BY <1>1, <1>4, <1>5, <1>6, <1>7, DecRefStep

(* pj_grp_lock_add_ref, for a thread of its own or of another.             *)
LEMMA AddRefStep ==
  ASSUME IInv, NEW t \in Threads, NEW u \in Threads, AddRef(t, u)
  PROVE  IInv'
<1> DEFINE o == thr[u]
<1> DEFINE n == o.refs + 1
<1> DEFINE r == [o EXCEPT !.refs = n]
<1>1. /\ MutexTypes /\ ThreadTypes /\ RestTypes /\ ListSound /\ MutexesSound
      /\ OwnerSound /\ Places /\ ChainsSound /\ CountSound /\ EndSound /\ lock_list \in Lists
  BY Parts
<1>2. /\ ref_cnt' = ref_cnt + 1 /\ thr' = [thr EXCEPT ![u] = r]
      /\ UNCHANGED <<mutex, lock_list, owner, owner_cnt, destroy_list, ran, alive>>
  BY DEF AddRef
<1>3. o \in ThreadStates /\ Placed(lock_list, o) /\ o.refs \in Nat /\ n \in Nat /\ n > 0
  BY <1>1 DEF ThreadTypes, Places, ThreadStates
<1>4. alive /\ \A v \in Threads : thr[v].pc # "destroy"
  <2>1. CASE MayUse(t)
    BY <2>1, <1>1, UsersAreCounted DEF MayUse
  <2>2. CASE \A v \in Threads : thr[v] = Threads0[v] /\ ref_cnt = 0
    BY <2>2 DEF AddRef, Threads0
  <2> QED
    BY <2>1, <2>2 DEF AddRef
<1> HIDE DEF n
<1>5. r \in ThreadStates
  BY <1>3 DEF ThreadStates
<1>6. /\ r.pc = o.pc /\ r.lck = o.lck /\ r.job = o.job /\ r.arg = o.arg
      /\ r.refs = n /\ r.hold = o.hold /\ r.direct = o.direct
  BY <1>3 DEF ThreadStates
<1> HIDE DEF r
<1>7. ThreadTypes' /\ thr'[u] = r /\ \A v \in Threads \ {u} : thr'[v] = thr[v]
  BY <1>1, <1>2, <1>5, ThreadMoved
<1>8. Placed(lock_list, r)
  BY <1>3, <1>6 DEF Placed
<1>9. Places' /\ ListSound'
  BY <1>1, <1>2, <1>7, <1>8, PlacesMoved DEF ListSound
<1>10. ChainsSound'
  <2>1. Chaining(u)' => Chaining(u) /\ thr'[u].arg = thr[u].arg
    BY <1>6, <1>7 DEF Chaining, At
  <2> QED
    BY <2>1, <1>1, <1>2, <1>7, ChainsMoved
<1>11. CountSound'
  <2>1. Uses(thr'[u]) = Uses(thr[u]) + 1
    BY <1>3, <1>6, <1>7 DEF Uses, ThreadStates, n
  <2>2. \A v \in Threads \ {u} : Uses(thr'[v]) = Uses(thr[v])
    BY <1>7
  <2> QED
    BY <2>1, <2>2, <1>1, <1>2, CountGrows
<1>12. EndSound'
  BY <1>1, <1>2, <1>4, <1>6, <1>7, EndMoved
<1>13. Nesting(r) = Nesting(o) /\ OwnerLevel(r) = OwnerLevel(o)
       /\ Extra(lock_list, r) = Extra(lock_list, o)
  BY <1>6 DEF OwnerLevel, Nesting, Extra
<1>14. \A l : Level(lock_list, r, l) = Level(lock_list, o, l)
  BY <1>6, <1>13 DEF Level
<1>15. MutexTypes' /\ MutexesSound'
  BY <1>1, <1>2, <1>7, <1>14, LevelsKept
<1>16. OwnerSound' /\ RestTypes'
  BY <1>1, <1>2, <1>7, <1>13, OwnerKept DEF RestTypes
<1> QED
  BY <1>7, <1>9, <1>10, <1>11, <1>12, <1>15, <1>16, PartsPrimed

(* grp_lock_destroy runs a handler.                                        *)
LEMMA DestroyHandlerStep ==
  ASSUME IInv, NEW t \in Threads, DestroyHandler(t)
  PROVE  IInv'
<1>1. /\ MutexTypes /\ ThreadTypes /\ RestTypes /\ ListSound /\ MutexesSound
      /\ OwnerSound /\ Places /\ ChainsSound /\ CountSound /\ EndSound
  BY Parts
<1>2. UNCHANGED <<mutex, lock_list, owner, owner_cnt, ref_cnt, destroy_list, alive, thr>>
  BY DEF DestroyHandler
<1>3. ran' \in Seq(Handlers)
  <2>1. ran \in Seq(Handlers) /\ destroy_list \in Seq(Handlers) /\ Len(ran) < Len(destroy_list)
    BY <1>1 DEF RestTypes, DestroyHandler
  <2>2. destroy_list[Len(ran) + 1] \in Handlers
    BY <2>1
  <2> QED
    BY <2>1, <2>2 DEF DestroyHandler
<1>4. RestTypes'
  BY <1>1, <1>2, <1>3 DEF RestTypes
<1>5. MutexTypes' /\ ThreadTypes' /\ ListSound' /\ MutexesSound' /\ OwnerSound' /\ Places'
  BY <1>1, <1>2 DEF MutexTypes, ThreadTypes, ListSound, MutexesSound, OwnerSound, Places
<1>6. ChainsSound' /\ EndSound'
  BY <1>1, <1>2 DEF ChainsSound, EndSound, Chaining, At
<1>7. CountSound'
  BY <1>1, <1>2, CountKept
<1> QED
  BY <1>4, <1>5, <1>6, <1>7, PartsPrimed

(* grp_lock_destroy ends.                                                  *)
LEMMA DestroyEndStep ==
  ASSUME IInv, NEW t \in Threads, DestroyEnd(t)
  PROVE  IInv'
<1> DEFINE o == thr[t]
<1>1. /\ MutexTypes /\ ThreadTypes /\ RestTypes /\ ListSound /\ MutexesSound
      /\ OwnerSound /\ Places /\ ChainsSound /\ CountSound /\ EndSound /\ lock_list \in Lists
  BY Parts
<1>2. /\ o.pc = "destroy" /\ Goto(t, "idle", End) /\ alive' = FALSE
      /\ UNCHANGED <<mutex, lock_list, owner, owner_cnt, ref_cnt, destroy_list, ran>>
  BY DEF DestroyEnd, At
<1>3. PICK r \in ThreadStates :
           /\ thr' = [thr EXCEPT ![t] = r]
           /\ r.pc = "idle" /\ r.lck = End /\ r.job = o.job /\ r.arg = o.arg
           /\ r.refs = o.refs /\ r.hold = o.hold /\ r.direct = o.direct
  BY <1>1, <1>2, GotoMoves DEF Pcs
<1>4. ThreadTypes' /\ thr'[t] = r /\ \A v \in Threads \ {t} : thr'[v] = thr[v]
  BY <1>1, <1>3, ThreadMoved
<1>5. Placed(lock_list, r)
  BY <1>1, <1>2, <1>3 DEF Placed, Places, Walks
<1>6. Places' /\ ListSound'
  BY <1>1, <1>2, <1>4, <1>5, PlacesMoved DEF ListSound
<1>7. ChainsSound'
  <2>1. ~Chaining(t)'
    BY <1>3, <1>4 DEF Chaining, At
  <2> QED
    BY <2>1, <1>1, <1>2, <1>4, ChainsMoved
<1>8. CountSound'
  <2>1. \A u \in Threads : Uses(thr'[u]) = Uses(thr[u])
    BY <1>3, <1>4 DEF Uses
  <2> QED
    BY <2>1, <1>1, <1>2, CountKept
<1>9. EndSound'
  BY <1>1, <1>2, <1>3, <1>4 DEF EndSound, At
<1>10. Nesting(r) = Nesting(o) /\ OwnerLevel(r) = OwnerLevel(o)
       /\ Extra(lock_list, r) = Extra(lock_list, o)
  BY <1>2, <1>3 DEF OwnerLevel, Nesting, Extra
<1>11. \A l : Level(lock_list, r, l) = Level(lock_list, o, l)
  BY <1>3, <1>10 DEF Level
<1>12. MutexTypes' /\ MutexesSound'
  BY <1>1, <1>2, <1>4, <1>11, LevelsKept
<1>13. OwnerSound' /\ RestTypes'
  BY <1>1, <1>2, <1>4, <1>10, OwnerKept DEF RestTypes
<1> QED
  BY <1>4, <1>6, <1>7, <1>8, <1>9, <1>12, <1>13, PartsPrimed

-----------------------------------------------------------------------------
(* Every step keeps the invariant: external locks.                         *)

LEMMA DirectStep ==
  ASSUME IInv, NEW t \in Threads, NEW l \in ExtLocks, NEW d \in SUBSET ExtLocks,
         thr[t].pc = "idle", thr' = [thr EXCEPT ![t].direct = d],
         \/ /\ l \notin thr[t].direct /\ d = thr[t].direct \cup {l}
            /\ Free(l, t) /\ mutex' = Locked(mutex, l, t, 1)
         \/ /\ l \in thr[t].direct /\ d = thr[t].direct \ {l}
            /\ mutex' = Unlocked(mutex, l, t, 1),
         UNCHANGED <<lock_list, owner, owner_cnt, ref_cnt, destroy_list, ran, alive>>
  PROVE  IInv'
<1> DEFINE o == thr[t]
<1> DEFINE r == [o EXCEPT !.direct = d]
<1>1. /\ MutexTypes /\ ThreadTypes /\ RestTypes /\ ListSound /\ MutexesSound
      /\ OwnerSound /\ Places /\ ChainsSound /\ CountSound /\ EndSound /\ lock_list \in Lists
  BY Parts
<1>2. o \in ThreadStates /\ Placed(lock_list, o) /\ o.hold \in Nat
  BY <1>1 DEF ThreadTypes, Places, ThreadStates
<1>3. r \in ThreadStates /\ thr' = [thr EXCEPT ![t] = r]
  BY <1>2 DEF ThreadStates
<1>4. /\ r.pc = "idle" /\ r.lck = o.lck /\ r.job = o.job /\ r.arg = o.arg
      /\ r.refs = o.refs /\ r.hold = o.hold /\ r.direct = d
  BY <1>2 DEF ThreadStates
<1> HIDE DEF r
<1>5. Placed(lock_list, r)
  BY <1>2, <1>4 DEF Placed, Walks
<1>6. /\ ThreadTypes' /\ thr'[t] = r /\ \A u \in Threads \ {t} : thr'[u] = thr[u]
      /\ ListSound' /\ Places' /\ ChainsSound' /\ CountSound' /\ EndSound'
  BY <1>3, <1>4, <1>5, Walked
<1>7. Nesting(r) = o.hold /\ Nesting(o) = o.hold /\ OwnerLevel(r) = OwnerLevel(o)
      /\ Extra(lock_list, r) = {} /\ Extra(lock_list, o) = {}
  BY <1>4 DEF OwnerLevel, Nesting, Extra
<1> DEFINE base(x) == IF x \in ToSet(lock_list) THEN o.hold + One(x \in {}) ELSE 0
<1>8. \A x : Level(lock_list, r, x) = base(x) + One(x \in d)
             /\ Level(lock_list, o, x) = base(x) + One(x \in o.direct)
  BY <1>4, <1>7 DEF Level
<1>9. \A x : base(x) \in Nat
  BY <1>2 DEF One
<1> HIDE DEF base
<1>10. \A u \in Threads \ {t}, x \in Behind :
          Level(lock_list', thr'[u], x) = Level(lock_list, thr[u], x)
  BY <1>6
<1>11. l \in Locks
  BY DEF Locks
<1>12. MutexTypes' /\ MutexesSound'
  <2>1. CASE /\ l \notin o.direct /\ d = o.direct \cup {l}
             /\ Free(l, t) /\ mutex' = Locked(mutex, l, t, 1)
    <3>1. ASSUME NEW x PROVE One(x \in d) = One(x \in o.direct) + (IF x = l THEN 1 ELSE 0)
      <4>1. CASE x = l
        BY <2>1, <4>1 DEF One
      <4>2. CASE x # l
        BY <2>1, <4>2 DEF One
      <4> QED
        BY <4>1, <4>2
    <3>2. ASSUME NEW x \in Behind
          PROVE Level(lock_list', thr'[t], x) = Level(lock_list, thr[t], x) + (IF x = l THEN 1 ELSE 0)
      <4>1. One(x \in o.direct) \in {0, 1}
        BY DEF One
      <4>2. Level(lock_list', thr'[t], x) = base(x) + One(x \in d)
        BY <1>6, <1>8
      <4>3. Level(lock_list, thr[t], x) = base(x) + One(x \in o.direct)
        BY <1>8
      <4>4. One(x \in d) = One(x \in o.direct) + (IF x = l THEN 1 ELSE 0)
        BY <3>1
      <4>5. base(x) \in Nat
        BY <1>9
      <4> HIDE DEF o
      <4> QED
        BY <4>1, <4>2, <4>3, <4>4, <4>5
    <3>3. Free(l, t) /\ mutex' = Locked(mutex, l, t, 1)
      BY <2>1
    <3> QED
      BY ONLY <3>2, <3>3, <1>1, <1>6, <1>10, <1>11, MutexLocked, t \in Threads
  <2>2. CASE /\ l \in o.direct /\ d = o.direct \ {l}
             /\ mutex' = Unlocked(mutex, l, t, 1)
    <3>1. ASSUME NEW x PROVE One(x \in d) = One(x \in o.direct) - (IF x = l THEN 1 ELSE 0)
      <4>1. CASE x = l
        BY <2>2, <4>1 DEF One
      <4>2. CASE x # l
        BY <2>2, <4>2 DEF One
      <4> QED
        BY <4>1, <4>2
    <3>2. ASSUME NEW x \in Behind
          PROVE Level(lock_list', thr'[t], x) = Level(lock_list, thr[t], x) - (IF x = l THEN 1 ELSE 0)
      <4>1. One(x \in o.direct) \in {0, 1}
        BY DEF One
      <4>2. Level(lock_list', thr'[t], x) = base(x) + One(x \in d)
        BY <1>6, <1>8
      <4>3. Level(lock_list, thr[t], x) = base(x) + One(x \in o.direct)
        BY <1>8
      <4>4. One(x \in d) = One(x \in o.direct) - (IF x = l THEN 1 ELSE 0)
        BY <3>1
      <4>5. base(x) \in Nat
        BY <1>9
      <4> HIDE DEF o
      <4> QED
        BY <4>1, <4>2, <4>3, <4>4, <4>5
    <3>3. Level(lock_list, thr[t], l) >= 1
      <4>1. One(l \in o.direct) = 1
        BY <2>2 DEF One
      <4>2. Level(lock_list, thr[t], l) = base(l) + 1 /\ base(l) \in Nat
        BY <4>1, <1>8, <1>9
      <4> QED
        BY <4>2
    <3>4. mutex' = Unlocked(mutex, l, t, 1)
      BY <2>2
    <3> QED
      BY ONLY <3>2, <3>3, <3>4, <1>1, <1>6, <1>10, <1>11, MutexUnlocked, t \in Threads
  <2> QED
    BY <2>1, <2>2
<1>13. OwnerSound' /\ RestTypes'
  BY <1>1, <1>6, <1>7, OwnerKept DEF RestTypes
<1> QED
  BY <1>6, <1>12, <1>13, PartsPrimed

(* What a thread without the group lock has does not depend on the list.   *)
LEMMA OutsiderLevels ==
  ASSUME NEW list \in Lists, NEW r \in ThreadStates, Placed(list, r),
         mutex[Own].owner # NoThread, NEW u \in Threads, mutex[Own].owner # u,
         Counted(mutex[Own].owner, mutex[Own].count, u, Level(list, r, Own)),
         NEW l \in Behind
  PROVE  /\ Nesting(r) = 0
         /\ Level(list, r, l) = One(l \in r.direct)
         /\ r.pc \in Walks /\ r.lck \in Behind => r.lck = Own
         /\ r.pc \in {"acquire", "tryacquire"} => r.lck # End
         /\ r.pc \in {"undo", "unlock"} => r.lck # Own
         /\ r.pc # "add_ref"
<1> DEFINE c == r.lck
<1>1. Own \in ToSet(list) /\ Own \in Behind
  BY EndIsNoLock DEF Lists, Shaped
<1>2. Level(list, r, Own) = 0
  BY DEF Counted
<1>3. Level(list, r, Own) = Nesting(r) + One(Own \in Extra(list, r)) + One(Own \in r.direct)
  BY <1>1 DEF Level
<1>4. One(Own \in Extra(list, r)) \in {0, 1} /\ One(Own \in r.direct) \in {0, 1}
  BY DEF One
<1>5. Nesting(r) \in Int /\ Nesting(r) >= 0
  BY DEF Nesting, Placed, ThreadStates
<1>6. Nesting(r) = 0 /\ One(Own \in Extra(list, r)) = 0
  BY <1>2, <1>3, <1>4, <1>5
<1>7. Own \notin Extra(list, r)
  BY <1>6 DEF One
<1>8. c \in Locks \cup {End} /\ (r.pc \in Walks /\ c \in Behind => c \in ToSet(list))
  BY DEF ThreadStates, Placed
<1>9. r.pc # "add_ref"
  BY <1>1, <1>7 DEF Extra
<1>10. CASE r.pc \in {"acquire", "tryacquire"}
  <2>1. Extra(list, r) = Before(list, c)
    BY <1>10 DEF Extra
  <2>2. c \in Behind => c \in ToSet(list)
    BY <1>8, <1>10 DEF Walks
  <2>3. c # End /\ (c \in Behind => c = Own) /\ \A k \in Behind : k \notin Before(list, c)
    BY <1>7, <1>8, <2>1, <2>2, WalkSides
  <2>4. One(l \in Extra(list, r)) = 0
    BY <2>1, <2>3 DEF One
  <2>5. Level(list, r, l) = One(l \in r.direct)
    <3>1. One(l \in r.direct) \in {0, 1}
      BY DEF One
    <3> QED
      BY <3>1, <2>4, <1>6 DEF Level
  <2> QED
    BY <1>6, <1>9, <1>10, <2>3, <2>5
<1>11. CASE r.pc \in {"undo", "unlock"}
  <2>1. Extra(list, r) = UpTo(list, c)
    BY <1>11 DEF Extra
  <2>2. c \in Behind => c \in ToSet(list)
    BY <1>8, <1>11 DEF Walks
  <2>3. c \notin Behind /\ \A k \in Behind : k \notin UpTo(list, c)
    BY <1>7, <1>8, <2>1, <2>2, WalkSides
  <2>4. One(l \in Extra(list, r)) = 0
    BY <2>1, <2>3 DEF One
  <2>5. Level(list, r, l) = One(l \in r.direct)
    <3>1. One(l \in r.direct) \in {0, 1}
      BY DEF One
    <3> QED
      BY <3>1, <2>4, <1>6 DEF Level
  <2> QED
    BY <1>1, <1>6, <1>9, <1>11, <2>3, <2>5
<1>12. CASE r.pc \notin Walks
  <2>1. Extra(list, r) = {}
    BY <1>9, <1>12 DEF Extra, Walks
  <2>2. One(l \in Extra(list, r)) = 0
    BY <2>1 DEF One
  <2>3. Level(list, r, l) = One(l \in r.direct)
    <3>1. One(l \in r.direct) \in {0, 1}
      BY DEF One
    <3> QED
      BY <3>1, <2>2, <1>6 DEF Level
  <2> QED
    BY <1>6, <1>9, <1>12, <2>3 DEF Walks
<1> QED
  BY <1>10, <1>11, <1>12 DEF Walks

(* While a thread owns the group lock, a change of the list moves nobody   *)
(* else and takes nothing from anybody else.                               *)
LEMMA OthersUnmoved ==
  ASSUME IInv, NEW t \in Threads, OwnerLevel(thr[t]) > 0, NEW u \in Threads \ {t},
         NEW list \in Lists
  PROVE  /\ Placed(list, thr[u])
         /\ \A l \in Behind : Level(list, thr[u], l) = Level(lock_list, thr[u], l)
<1> DEFINE r == thr[u]
<1> DEFINE c == r.lck
<1>1. /\ r \in ThreadStates /\ Placed(lock_list, r) /\ lock_list \in Lists
      /\ Counted(mutex[Own].owner, mutex[Own].count, u, Level(lock_list, r, Own))
  BY Parts, EndIsNoLock DEF Places, ThreadTypes, MutexesSound
<1>2. mutex[Own].owner = t /\ t # NoThread
  BY Parts, OwnerHasThem, EndIsNoLock, GrpLockAssumption DEF ListSound, Shaped
<1>3. ASSUME NEW l \in Behind
      PROVE  /\ Nesting(r) = 0
             /\ Level(lock_list, r, l) = One(l \in r.direct)
             /\ r.pc \in Walks /\ c \in Behind => c = Own
             /\ r.pc \in {"acquire", "tryacquire"} => c # End
             /\ r.pc \in {"undo", "unlock"} => c # Own
             /\ r.pc # "add_ref"
  BY <1>1, <1>2, OutsiderLevels
<1>4. /\ Nesting(r) = 0
      /\ r.pc \in Walks /\ c \in Behind => c = Own
      /\ r.pc \in {"acquire", "tryacquire"} => c # End
      /\ r.pc \in {"undo", "unlock"} => c # Own
      /\ r.pc # "add_ref"
  BY <1>3, EndIsNoLock
<1>5. Own \in ToSet(list) /\ Own \in Behind
  BY EndIsNoLock DEF Lists, Shaped
<1>6. Placed(list, r)
  BY <1>1, <1>4, <1>5 DEF Placed
<1>7. c \in Locks \cup {End}
  BY <1>1 DEF ThreadStates
<1>8. \A l \in Behind : l \notin Extra(list, r)
  <2>1. CASE r.pc \in {"acquire", "tryacquire"}
    <3>1. c # End /\ (c \in Behind => c = Own)
      BY <1>4, <2>1 DEF Walks
    <3>2. \A l \in Behind : l \notin Before(list, c)
      BY <3>1, <1>5, <1>7, WalkSides
    <3> QED
      BY <3>2, <2>1 DEF Extra
  <2>2. CASE r.pc \in {"undo", "unlock"}
    <3>1. c \notin Behind
      BY <1>4, <2>2 DEF Walks
    <3>2. \A l \in Behind : l \notin UpTo(list, c)
      BY <3>1, <1>7, WalkSides
    <3> QED
      BY <3>2, <2>2 DEF Extra
  <2>3. CASE r.pc \notin Walks
    BY <2>3, <1>4 DEF Extra, Walks
  <2> QED
    BY <2>1, <2>2, <2>3 DEF Walks
<1>9. ASSUME NEW l \in Behind PROVE Level(list, r, l) = Level(lock_list, r, l)
  <2>1. One(l \in Extra(list, r)) = 0 /\ One(l \in r.direct) \in {0, 1}
    BY <1>8 DEF One
  <2>2. Level(list, r, l) = One(l \in r.direct)
    BY <2>1, <1>4 DEF Level
  <2> QED
    BY <2>2, <1>3
<1> QED
  BY <1>6, <1>9

(* The body of a chain or an unchain, up to the mutex, when it leaves the  *)
(* locks S in the list.                                                    *)
ListMoved(t, x, S) ==
  /\ ThreadTypes' /\ RestTypes' /\ ListSound' /\ OwnerSound' /\ Places' /\ ChainsSound'
  /\ CountSound' /\ EndSound'
  /\ \A u \in Threads \ {t}, l \in Behind :
       Level(lock_list', thr'[u], l) = Level(lock_list, thr[u], l)
  /\ owner_cnt \in Nat \ {0} /\ owner_cnt = thr[t].hold /\ x \in Locks
  /\ \A l \in Behind : One(l \in thr[t].direct) \in {0, 1}
       /\ Level(lock_list, thr[t], l) =
            (IF l \in ToSet(lock_list) THEN owner_cnt ELSE 0) + One(l \in thr[t].direct)
       /\ Level(lock_list', thr'[t], l) =
            (IF l \in S THEN owner_cnt ELSE 0) + One(l \in thr[t].direct)

(* A body that changes the list by one lock, as far as chaining and        *)
(* unchaining agree.                                                       *)
LEMMA ListStep ==
  ASSUME IInv, NEW t \in Threads, NEW x \in ExtLocks, NEW S,
         thr[t].pc = "body", thr[t].arg = x,
         Goto(t, "release", End), lock_list' \in Lists, ToSet(lock_list') = S,
         \/ S = ToSet(lock_list) \cup {x} /\ thr[t].job = "chain_lock"
         \/ S = ToSet(lock_list) \ {x},
         UNCHANGED <<owner, owner_cnt, ref_cnt, destroy_list, ran, alive>>
  PROVE  ListMoved(t, x, S)
<1> DEFINE o == thr[t]
<1>1. /\ MutexTypes /\ ThreadTypes /\ RestTypes /\ ListSound /\ MutexesSound
      /\ OwnerSound /\ Places /\ ChainsSound /\ CountSound /\ EndSound /\ lock_list \in Lists
  BY Parts
<1>2. PICK r \in ThreadStates :
           /\ thr' = [thr EXCEPT ![t] = r]
           /\ r.pc = "release" /\ r.lck = End /\ r.job = o.job /\ r.arg = o.arg
           /\ r.refs = o.refs /\ r.hold = o.hold /\ r.direct = o.direct
  BY <1>1, GotoMoves, EndIsNoLock DEF Pcs
<1>3. ThreadTypes' /\ thr'[t] = r /\ \A u \in Threads \ {t} : thr'[u] = thr[u]
  BY <1>1, <1>2, ThreadMoved
<1>4. o \in ThreadStates /\ Placed(lock_list, o) /\ o.hold \in Nat /\ o.hold > 0
  BY <1>1 DEF ThreadTypes, Places, ThreadStates, Placed
<1>5. Nesting(r) = o.hold /\ Nesting(o) = o.hold /\ OwnerLevel(r) = o.hold
      /\ OwnerLevel(o) = o.hold
      /\ Extra(lock_list', r) = {} /\ Extra(lock_list, o) = {}
  BY <1>2 DEF OwnerLevel, Nesting, Extra
<1>6. owner = t /\ owner_cnt = o.hold
  BY <1>1, <1>4, <1>5 DEF OwnerSound, Counted
<1>7. \A u \in Threads \ {t} : Placed(lock_list', thr'[u])
        /\ \A l \in Behind : Level(lock_list', thr'[u], l) = Level(lock_list, thr[u], l)
  BY <1>3, <1>4, <1>5, OthersUnmoved
<1>8. Placed(lock_list', r)
  BY <1>2, <1>4 DEF Placed, Walks
<1>9. Places'
  <2>1. \A u \in Threads : Placed(lock_list', thr'[u])
    BY <1>3, <1>7, <1>8
  <2> QED
    BY <2>1 DEF Places
<1>10. ListSound' /\ lock_list' \in Seq(Locks)
  BY DEF Lists, ListSound
<1>11. RestTypes'
  BY <1>1, <1>10 DEF RestTypes
<1>12. OwnerSound'
  <2>1. \A u \in Threads : OwnerLevel(thr'[u]) = OwnerLevel(thr[u])
    BY <1>3, <1>5
  <2> QED
    BY <2>1, <1>1, OwnerKept
<1>13. ChainsSound'
  <2>1. ~Chaining(t)' /\ \A u \in Threads \ {t} : Chaining(u)' <=> Chaining(u)
    BY <1>2, <1>3 DEF Chaining, At
  <2>2. thr[t].job = "chain_lock" => Chaining(t)
    BY DEF Chaining, At
  <2>3. ASSUME NEW u \in Threads, Chaining(u)'
        PROVE  /\ thr'[u].arg \notin S
               /\ \A v \in Threads \ {u} : Chaining(v)' => thr'[v].arg # thr'[u].arg
    <3>1. u # t /\ Chaining(u) /\ thr'[u] = thr[u]
      BY <2>1, <2>3, <1>3
    <3>2. thr[u].arg \notin ToSet(lock_list)
      BY <3>1, <1>1 DEF ChainsSound
    <3>3. thr[t].job = "chain_lock" => thr[u].arg # x
      BY <3>1, <2>2, <1>1 DEF ChainsSound
    <3>4. ASSUME NEW v \in Threads \ {u}, Chaining(v)' PROVE thr'[v].arg # thr'[u].arg
      BY <3>1, <3>4, <2>1, <1>1, <1>3 DEF ChainsSound
    <3> QED
      BY <3>1, <3>2, <3>3, <3>4
  <2> QED
    BY <2>3 DEF ChainsSound
<1>14. CountSound'
  <2>1. \A u \in Threads : Uses(thr'[u]) = Uses(thr[u])
    BY <1>2, <1>3 DEF Uses
  <2> QED
    BY <2>1, <1>1, CountKept
<1>15. EndSound'
  BY <1>1, <1>2, <1>3, EndMoved
<1>16. ASSUME NEW l \in Behind
       PROVE  /\ One(l \in o.direct) \in {0, 1}
              /\ Level(lock_list, o, l) =
                   (IF l \in ToSet(lock_list) THEN owner_cnt ELSE 0) + One(l \in o.direct)
              /\ Level(lock_list', r, l) =
                   (IF l \in S THEN owner_cnt ELSE 0) + One(l \in o.direct)
  <2>1. One(l \in o.direct) \in {0, 1}
    BY DEF One
  <2>2. One(l \in {}) = 0
    BY DEF One
  <2> QED
    BY <2>1, <2>2, <1>2, <1>4, <1>5, <1>6 DEF Level
<1>17. x \in Locks
  BY DEF Locks
<1> QED
  BY <1>3, <1>4, <1>6, <1>7, <1>9, <1>10, <1>11, <1>12, <1>13, <1>14, <1>15, <1>16, <1>17
  DEF ListMoved

(* The body of pj_grp_lock_chain_lock.                                     *)
LEMMA ChainBodyStep ==
  ASSUME IInv, NEW t \in Threads, ChainBody(t)
  PROVE  IInv'
<1> DEFINE x == thr[t].arg
<1> DEFINE S == ToSet(lock_list) \cup {x}
<1>1. /\ MutexTypes /\ ThreadTypes /\ MutexesSound /\ Places /\ ChainsSound /\ lock_list \in Lists
  BY Parts
<1>2. /\ thr[t].pc = "body" /\ thr[t].job = "chain_lock" /\ Goto(t, "release", End)
      /\ Free(x, t) /\ mutex' = Locked(mutex, x, t, owner_cnt)
      /\ lock_list' = Inserted(lock_list, x)
      /\ UNCHANGED <<owner, owner_cnt, ref_cnt, destroy_list, ran, alive>>
  BY DEF ChainBody, InBody, At
<1>3. x \in ExtLocks /\ x \notin ToSet(lock_list) /\ x \in Locks /\ x # Own
  BY <1>1, <1>2, GrpLockAssumption DEF Places, Placed, ChainsSound, Chaining, At, Locks
<1>4. lock_list' \in Lists /\ ToSet(lock_list') = S
  BY <1>1, <1>2, <1>3, InsertedShape
<1> HIDE DEF S
<1>5. ListMoved(t, x, S)
  <2>1. S = ToSet(lock_list) \cup {x}
    BY DEF S
  <2> QED
    BY <1>2, <1>3, <1>4, <2>1, ListStep
<1>6. ASSUME NEW l \in Behind
      PROVE  Level(lock_list', thr'[t], l)
               = Level(lock_list, thr[t], l) + (IF l = x THEN owner_cnt ELSE 0)
  <2>1. l \in S <=> l \in ToSet(lock_list) \/ l = x
    BY DEF S
  <2> HIDE DEF x
  <2> QED
    BY <2>1, <1>3, <1>5 DEF ListMoved
<1>7. MutexTypes' /\ MutexesSound'
  <2>1. /\ ThreadTypes' /\ owner_cnt \in Nat \ {0}
        /\ \A u \in Threads \ {t}, l \in Behind :
             Level(lock_list', thr'[u], l) = Level(lock_list, thr[u], l)
    BY <1>5 DEF ListMoved
  <2> QED
    BY ONLY <1>1, <1>2, <1>3, <1>6, <2>1, MutexLocked, t \in Threads
<1> QED
  BY <1>5, <1>7, PartsPrimed DEF ListMoved

(* The body of pj_grp_lock_unchain_lock.                                   *)
LEMMA UnchainBodyStep ==
  ASSUME IInv, NEW t \in Threads, UnchainBody(t)
  PROVE  IInv'
<1> DEFINE x == thr[t].arg
<1> DEFINE S == ToSet(lock_list) \ {x}
<1>1. /\ MutexTypes /\ ThreadTypes /\ MutexesSound /\ Places /\ ChainsSound /\ lock_list \in Lists
      /\ RestTypes
  BY Parts
<1>2. /\ thr[t].pc = "body" /\ thr[t].job = "unchain_lock" /\ Goto(t, "release", End)
      /\ UNCHANGED <<owner, owner_cnt, ref_cnt, destroy_list, ran, alive>>
      /\ IF x \in ToSet(lock_list)
         THEN /\ lock_list' = Erased(lock_list, x)
              /\ mutex' = Unlocked(mutex, x, t, owner_cnt)
         ELSE UNCHANGED <<lock_list, mutex>>
  BY DEF UnchainBody, InBody, At
<1>3. x \in ExtLocks /\ x \in Locks /\ x # Own /\ thr[t].hold > 0
  BY <1>1, <1>2, GrpLockAssumption DEF Places, Placed, Locks
<1>4. CASE x \notin ToSet(lock_list)
  <2>1. UNCHANGED <<mutex, lock_list>> /\ destroy_list' \in Seq(Handlers)
    BY <1>1, <1>2, <1>4 DEF RestTypes
  <2> QED
    BY <2>1, <1>2, <1>3, RestStep
<1>5. CASE x \in ToSet(lock_list)
  <2>1. lock_list' \in Lists /\ ToSet(lock_list') = S
    BY <1>1, <1>2, <1>3, <1>5, ErasedShape
  <2> HIDE DEF S
  <2>2. ListMoved(t, x, S)
    <3>1. S = ToSet(lock_list) \ {x}
      BY DEF S
    <3> QED
      BY <1>2, <1>3, <2>1, <3>1, ListStep
  <2>3. ASSUME NEW l \in Behind
        PROVE  Level(lock_list', thr'[t], l)
                 = Level(lock_list, thr[t], l) - (IF l = x THEN owner_cnt ELSE 0)
    <3>1. l \in S <=> l \in ToSet(lock_list) /\ l # x
      BY DEF S
    <3> HIDE DEF x
    <3> QED
      BY <3>1, <1>5, <2>2 DEF ListMoved
  <2>4. x \in Behind => Level(lock_list, thr[t], x) >= owner_cnt
    <3> HIDE DEF x
    <3> QED
      BY <1>5, <2>2 DEF ListMoved
  <2>5. mutex' = Unlocked(mutex, x, t, owner_cnt)
    BY <1>2, <1>5
  <2>6. MutexTypes' /\ MutexesSound'
    <3>1. /\ ThreadTypes' /\ owner_cnt \in Nat \ {0} /\ x \in Locks
          /\ \A u \in Threads \ {t}, l \in Behind :
               Level(lock_list', thr'[u], l) = Level(lock_list, thr[u], l)
      BY <2>2 DEF ListMoved
    <3> QED
      BY ONLY <1>1, <2>3, <2>4, <2>5, <3>1, MutexUnlocked, t \in Threads
  <2> QED
    BY <2>2, <2>6, PartsPrimed DEF ListMoved
<1> QED
  BY <1>4, <1>5

-----------------------------------------------------------------------------
(* The invariant holds.                                                    *)

LEMMA StutterStep == IInv /\ UNCHANGED vars => IInv'
BY DEF vars, IInv, TypeOK, ListSound, MutexesSound, OwnerSound, Places, ChainsSound, CountSound,
       EndSound, RefCountExact, References, Chaining, At

(* The invariant is inductive.                                             *)
LEMMA NextStepHolds == IInv /\ Next => IInv'
<1> SUFFICES ASSUME IInv, Next PROVE IInv'
  OBVIOUS
<1>1. CASE Finished
  BY <1>1, StutterStep DEF Finished
<1>2. ASSUME NEW t \in Threads, Internal(t) PROVE IInv'
  <2>1. CASE TryReturns(t)
    <3>1. destroy_list \in Seq(Handlers)
      BY Parts DEF RestTypes
    <3> QED
      BY <2>1, <3>1, RestStep DEF TryReturns, At
  <2> QED
    BY <1>2, <2>1, LockNextStep, TryFailsStep, SetOwnerStep, RefHeldStep, HandlerBodyStep,
       ChainBodyStep, UnchainBodyStep, UnsetOwnerStep, UnlockNextStep, ReleaseDecRefStep,
       DestroyHandlerStep, DestroyEndStep DEF Internal
<1>3. ASSUME NEW t \in Threads, Client(t) PROVE IInv'
  <2>1. CASE Acquire(t)
    BY <2>1, CallStep DEF Acquire, Jobs
  <2>2. CASE TryAcquire(t)
    BY <2>2, CallStep DEF TryAcquire, Jobs
  <2>3. CASE Release(t)
    <3>1. destroy_list \in Seq(Handlers)
      BY Parts DEF RestTypes
    <3> QED
      BY <2>3, <3>1, RestStep DEF Release, At
  <2>4. ASSUME NEW h \in Handlers, AddHandler(t, h) \/ DelHandler(t, h) PROVE IInv'
    BY <2>4, CallStep DEF AddHandler, DelHandler, Jobs
  <2>5. ASSUME NEW l \in ExtLocks, ChainLock(t, l) \/ UnchainLock(t, l) PROVE IInv'
    BY <2>5, CallStep DEF ChainLock, UnchainLock, Jobs
  <2>6. ASSUME NEW l \in ExtLocks, DirectLock(t, l) \/ DirectUnlock(t, l) PROVE IInv'
    <3>1. thr[t].direct \in SUBSET ExtLocks
      BY Parts DEF ThreadTypes, ThreadStates
    <3>2. CASE DirectLock(t, l)
      <4> DEFINE d == thr[t].direct \cup {l}
      <4>1. d \in SUBSET ExtLocks /\ thr' = [thr EXCEPT ![t].direct = d]
        BY <3>1, <3>2 DEF DirectLock
      <4>2. /\ thr[t].pc = "idle" /\ l \notin thr[t].direct /\ Free(l, t)
            /\ mutex' = Locked(mutex, l, t, 1)
            /\ UNCHANGED <<lock_list, owner, owner_cnt, ref_cnt, destroy_list, ran, alive>>
        BY <3>2 DEF DirectLock, At
      <4>3. d = thr[t].direct \cup {l}
        OBVIOUS
      <4> HIDE DEF d
      <4> QED
        BY <4>1, <4>2, <4>3, DirectStep
    <3>3. CASE DirectUnlock(t, l)
      <4> DEFINE d == thr[t].direct \ {l}
      <4>1. d \in SUBSET ExtLocks /\ thr' = [thr EXCEPT ![t].direct = d]
        BY <3>1, <3>3 DEF DirectUnlock
      <4>2. /\ thr[t].pc = "idle" /\ l \in thr[t].direct
            /\ mutex' = Unlocked(mutex, l, t, 1)
            /\ UNCHANGED <<lock_list, owner, owner_cnt, ref_cnt, destroy_list, ran, alive>>
        BY <3>3 DEF DirectUnlock, At
      <4>3. d = thr[t].direct \ {l}
        OBVIOUS
      <4> HIDE DEF d
      <4> QED
        BY <4>1, <4>2, <4>3, DirectStep
    <3> QED
      BY <2>6, <3>2, <3>3
  <2> QED
    BY <1>3, <2>1, <2>2, <2>3, <2>4, <2>5, <2>6, ClientDecRefStep, AddRefStep DEF Client
<1> QED
  BY <1>1, <1>2, <1>3 DEF Next

(* The invariant holds in every state.                                     *)
LEMMA InvariantHolds == Spec => []IInv
<1>1. IInv /\ [Next]_vars => IInv'
  BY NextStepHolds, StutterStep
<1> QED
  BY InitHolds, <1>1, PTL DEF Spec

-----------------------------------------------------------------------------
(* What the invariant means.                                               *)

(* However the threads interleave, whatever is chained and unchained and   *)
(* at which positions, grp_lock_add_ref and grp_lock_dec_ref keep the      *)
(* count at exactly the references kept plus the acquisitions not yet      *)
(* returned.                                                               *)
THEOREM RefsAreExact == Spec => []RefsExact
<1>1. IInv => RefsExact
  BY DEF IInv, RefsExact, CountSound
<1> QED
  BY <1>1, InvariantHolds, PTL

(* A thread between an acquisition and its release is the owner that       *)
(* grp_lock_set_owner_thread recorded, as often as it acquired, at         *)
(* whatever positions locks are chained.                                   *)
LEMMA HoldersOwn == IInv => HolderIsOwner
<1> SUFFICES ASSUME IInv, NEW t \in Threads, At(t, "idle") \/ At(t, "body"), thr[t].hold > 0
             PROVE  owner = t /\ owner_cnt = thr[t].hold
  BY DEF HolderIsOwner
<1>1. OwnerLevel(thr[t]) = thr[t].hold /\ thr[t].hold \in Nat
  BY Parts DEF OwnerLevel, Nesting, At, ThreadTypes, ThreadStates
<1>2. Counted(owner, owner_cnt, t, OwnerLevel(thr[t]))
  BY Parts DEF OwnerSound
<1> QED
  BY <1>1, <1>2 DEF Counted

(* A thread between an acquisition and its release is the owner that       *)
(* grp_lock_set_owner_thread recorded, as often as it acquired it, at      *)
(* whatever positions other locks are chained.                             *)
THEOREM HoldersAreOwners == Spec => []HolderIsOwner
BY HoldersOwn, InvariantHolds, PTL

(* With every external lock chained behind the group lock, the owner of    *)
(* the group lock also owns all locks of the list, during the steps of     *)
(* grp_lock_acquire, grp_lock_release, chaining and unchaining.  (A lock   *)
(* chained in front is missed by a thread already waiting for the group    *)
(* lock.)                                                                  *)
THEOREM OwnershipHolds ==
  ASSUME \A l \in ExtLocks : Pos[l] > 0
  PROVE  Spec => []Ownership
<1>1. ASSUME IInv PROVE OwnerHoldsAll
  <2> SUFFICES ASSUME owner # NoThread, NEW l \in ToSet(lock_list) PROVE mutex[l].owner = owner
    BY DEF OwnerHoldsAll
  <2>1. owner \in Threads /\ l \in Locks
    BY <1>1, Parts, ListPlaces DEF RestTypes
  <2>2. l \in Behind
    BY <2>1 DEF Behind, Locks, Prio
  <2>3. OwnerLevel(thr[owner]) > 0
    BY <1>1, <2>1, Parts DEF OwnerSound, Counted
  <2> QED
    BY <1>1, <2>1, <2>2, <2>3, OwnerHasThem
<1>2. IInv => Ownership
  BY <1>1, HoldersOwn DEF Ownership
<1> QED
  BY <1>2, InvariantHolds, PTL

(* When pj_grp_lock_dec_ref destroys the lock, no other thread is in a     *)
(* call on it, nobody holds it or has a reference, and every mutex, the    *)
(* group's own, chained ones and ones unchained again, has been given back *)
(* as often as it was taken.                                               *)
THEOREM DestroyIsQuiet ==
  ASSUME \A l \in ExtLocks : Pos[l] > 0
  PROVE  Spec => []QuietDestroy
<1>1. ASSUME IInv, NEW t \in Threads, At(t, "destroy") \/ ~alive
      PROVE  /\ \A u \in Threads \ {t} : At(u, "idle")
             /\ \A u \in Threads : thr[u].refs = 0 /\ thr[u].hold = 0
             /\ \A l \in Locks : mutex[l].count =
                  Cardinality({u \in Threads : mutex[l].owner = u /\ l \in thr[u].direct})
  <2>1. /\ MutexTypes /\ ThreadTypes /\ MutexesSound /\ Places /\ CountSound /\ EndSound
    BY <1>1, Parts
  <2>2. ref_cnt = 0
    BY <1>1, <2>1 DEF EndSound
  <2>3. \A u \in Threads : thr[u].refs = 0 /\ thr[u].hold = 0
    BY <2>1, <2>2, UsersAreCounted
  <2>4. ASSUME NEW u \in Threads PROVE thr[u].pc \in {"idle", "destroy"}
    <3>1. thr[u] \in ThreadStates /\ Placed(lock_list, thr[u])
      BY <2>1 DEF ThreadTypes, Places
    <3> QED
      BY <3>1, <2>3 DEF Placed, ThreadStates
  <2>5. \A u \in Threads \ {t} : At(u, "idle")
    BY <1>1, <2>1, <2>4 DEF EndSound, At
  <2>6. ASSUME NEW l \in Locks
        PROVE  mutex[l].count =
                 Cardinality({u \in Threads : mutex[l].owner = u /\ l \in thr[u].direct})
    <3> DEFINE D == {u \in Threads : mutex[l].owner = u /\ l \in thr[u].direct}
    <3>1. l \in Behind
      BY DEF Behind, Locks, Prio
    <3>2. ASSUME NEW u \in Threads PROVE Level(lock_list, thr[u], l) = One(l \in thr[u].direct)
      <4>1. Nesting(thr[u]) = 0 /\ Extra(lock_list, thr[u]) = {}
        BY <2>3, <2>4 DEF Nesting, Extra
      <4>2. One(l \in Extra(lock_list, thr[u])) = 0 /\ One(l \in thr[u].direct) \in {0, 1}
        BY <4>1 DEF One
      <4> QED
        BY <4>1, <4>2 DEF Level
    <3>3. CASE mutex[l].owner \in Threads
      <4> DEFINE u == mutex[l].owner
      <4>1. mutex[l].count = One(l \in thr[u].direct) /\ mutex[l].count > 0
        BY <3>1, <3>2, <3>3, <2>1 DEF MutexesSound, Counted
      <4>2. l \in thr[u].direct /\ mutex[l].count = 1
        BY <4>1 DEF One
      <4>3. D = {u}
        BY <4>2, <3>3
      <4>4. Cardinality({u}) = 1
        BY FS_Singleton
      <4> QED
        BY <4>2, <4>3, <4>4
    <3>4. CASE mutex[l].owner = NoThread
      <4>1. mutex[l].count = 0
        BY <3>4, <2>1 DEF MutexesSound
      <4>2. D = {}
        BY <3>4, GrpLockAssumption
      <4> QED
        BY <4>1, <4>2, FS_EmptySet
    <3> QED
      BY <3>3, <3>4, <2>1 DEF MutexTypes, Mutexes
  <2> QED
    BY <2>3, <2>5, <2>6
<1>2. IInv => QuietDestroy
  BY <1>1 DEF QuietDestroy
<1> QED
  BY <1>2, InvariantHolds, PTL

(* With the external locks chained at one position behind the group lock,  *)
(* no thread waits, in grp_lock_acquire or pj_grp_lock_chain_lock, for a   *)
(* lock that comes before one it has.  (Chaining a lock at a lower         *)
(* position than a chained one waits out of order: the caller already has  *)
(* the later lock.)                                                        *)
THEOREM LockOrderHolds ==
  ASSUME NEW p \in Int, p > 0, \A l \in ExtLocks : Pos[l] = p
  PROVE  Spec => []LockOrder
<1>1. ASSUME IInv, NEW t \in Threads, Wanted(t) # End, ~Free(Wanted(t), t),
             NEW l \in Locks, mutex[l].owner = t
      PROVE  Prio(l) <= Prio(Wanted(t))
  <2> DEFINE r == thr[t]
  <2> DEFINE w == Wanted(t)
  <2>1. /\ r \in ThreadStates /\ Placed(lock_list, r) /\ lock_list \in Lists /\ MutexesSound
    BY <1>1, Parts DEF ThreadTypes, Places
  <2>2. \A k \in Locks : k \in Behind /\ Prio(k) = (IF k = Own THEN 0 ELSE p)
    BY DEF Behind, Locks, Prio
  <2>3. \A k \in r.direct : Prio(k) = p
    BY <2>1, GrpLockAssumption DEF ThreadStates, Prio
  <2>4. At(t, "acquire") \/ (At(t, "body") /\ r.job = "chain_lock")
    BY <1>1 DEF Wanted
  <2>5. r.direct = {}
    BY <2>1, <2>3, <2>4 DEF Placed, At
  <2>6. w \in Locks
    BY <1>1, <2>1, <2>4 DEF Wanted, At, Placed, ThreadStates, Locks
  <2>7. CASE w # Own
    BY <2>2, <2>6, <2>7
  <2>8. CASE w = Own
    <3>1. r.pc = "acquire" /\ r.lck = Own
      BY <1>1, <2>1, <2>4, <2>8, GrpLockAssumption DEF Wanted, At, Placed
    <3>2. Own \in ToSet(lock_list) /\ Own \in Behind /\ l \in Behind
      BY <2>1, <2>2, EndIsNoLock DEF Lists, Shaped
    <3>3. mutex[Own].owner # t
      BY <1>1, <2>8 DEF Free
    <3>4. Level(lock_list, r, Own) = 0
      BY <2>1, <3>2, <3>3 DEF MutexesSound, Counted
    <3>5. Nesting(r) = r.hold /\ r.hold \in Nat /\ Extra(lock_list, r) = Before(lock_list, Own)
      BY <3>1, <2>1 DEF Nesting, Extra, ThreadStates
    <3>6. r.hold = 0
      <4>1. One(Own \in Extra(lock_list, r)) \in {0, 1} /\ One(Own \in r.direct) \in {0, 1}
        BY DEF One
      <4> QED
        BY <3>2, <3>4, <3>5, <4>1 DEF Level
    <3>7. l \notin Before(lock_list, Own)
      BY <2>1, <3>2, EndIsNoLock, WalkSides
    <3>8. Level(lock_list, r, l) = 0
      <4>1. One(l \in Extra(lock_list, r)) = 0 /\ One(l \in r.direct) = 0
        BY <3>5, <3>7, <2>5 DEF One
      <4> QED
        BY <3>5, <3>6, <4>1 DEF Level
    <3>9. Level(lock_list, r, l) > 0
      BY <1>1, <2>1, <3>2 DEF MutexesSound, Counted
    <3> QED
      BY <3>8, <3>9
  <2> QED
    BY <2>7, <2>8
<1>2. IInv => LockOrder
  BY <1>1 DEF LockOrder
<1> QED
  BY <1>2, InvariantHolds, PTL
=============================================================================
