------------------------- MODULE JitterBufferProofs --------------------------
(***************************************************************************)
(* Lemmas and theorems about the jitter buffer, for every capacity, every  *)
(* tuning constant and every sequence of calls, in five parts: the frame   *)
(* list operators, the levels, the window, the queue implemented, and the  *)
(* removal loop.                                                           *)
(***************************************************************************)
EXTENDS JitterBuffer, FiniteSetTheorems, SequenceTheorems, FunctionTheorems,
        WellFoundedInduction, TLAPS

(***************************************************************************)
(* Lemmas about the frame list operators of JbufFrameList: each returns a  *)
(* frame list, and what the callers rely on of the result.                 *)
(***************************************************************************)

(* A set of natural numbers that is not empty has a least element: how the *)
(* loops that search the list for the first place of some kind end.        *)
LEMMA LeastElement ==
  ASSUME NEW T \in SUBSET Nat, T # {}
  PROVE  \E x \in T : \A y \in T : x <= y
<1> DEFINE R == OpToRel(<, Nat)
<1>1. \E x \in T : \A y \in T : ~ (<<y, x>> \in R)
  BY NatLessThanWellFounded, WFMin
<1>2. \A x, y \in Nat : <<y, x>> \in R <=> y < x
  BY DEF OpToRel
<1>3. PICK x \in T : \A y \in T : ~ (<<y, x>> \in R)
  BY <1>1
<1>4. ASSUME NEW y \in T PROVE x <= y
  <2>1. x \in Nat /\ y \in Nat
    OBVIOUS
  <2>2. ~ (y < x)
    BY <1>2, <1>3, <2>1
  <2> QED
    BY <2>1, <2>2
<1> QED
  BY <1>4

(* The circular array: a place is an index of it, and the index of a place *)
(* less than one round away is found by one subtraction.                   *)
LEMMA SlotAtType ==
  ASSUME NEW list, list.head \in Slots, NEW d \in Int
  PROVE  SlotAt(list, d) \in Slots
  BY FrameListAssumption DEF SlotAt, Slots

(* Finding the length of the run of discarded slots at the head.           *)
LEMMA LeadingDiscardedType ==
  ASSUME NEW list \in FrameLists
  PROVE  /\ LeadingDiscarded(list) \in 0 .. list.size
         /\ \A d \in 0 .. LeadingDiscarded(list) - 1 : list.type[SlotAt(list, d)] = DISCARDED
         /\ LeadingDiscarded(list) < list.size =>
              list.type[SlotAt(list, LeadingDiscarded(list))] # DISCARDED
<1> DEFINE Ends(k) == k < list.size => list.type[SlotAt(list, k)] # DISCARDED
           T == {k \in 0 .. list.size : Ends(k)}
<1>1. list.size \in T /\ T \in SUBSET Nat
  BY DEF FrameLists
<1>2. PICK k \in T : \A y \in T : k <= y
  BY <1>1, LeastElement
<1>3. \A d \in 0 .. k - 1 : list.type[SlotAt(list, d)] = DISCARDED
  <2> SUFFICES ASSUME NEW d \in 0 .. k - 1, d \notin T
               PROVE  list.type[SlotAt(list, d)] = DISCARDED
    BY <1>1, <1>2
  <2> QED
    BY <1>1, <1>2
<1>4. \E n \in 0 .. list.size : /\ \A d \in 0 .. n - 1 : list.type[SlotAt(list, d)] = DISCARDED
                             /\ Ends(n)
  BY <1>2, <1>3
<1> QED
  BY <1>4 DEF LeadingDiscarded

(* An empty buffer is a frame list.                                        *)
LEMMA ResetType == jb_framelist_reset \in FrameLists
  BY FrameListAssumption
  DEF jb_framelist_reset, FrameLists, FrameTypes, Slots, INVALID_OFFSET

(* Moving the window on by no more than its size keeps it a window.        *)
LEMMA AdvanceType ==
  ASSUME NEW list \in FrameLists, NEW n \in 0 .. list.size
  PROVE  /\ Advance(list, n) \in FrameLists
         /\ Advance(list, n).size = list.size - n
         /\ Advance(list, n).origin = list.origin + n
<1>1. SlotAt(list, n) \in Slots
  BY SlotAtType DEF FrameLists
<1>2. list.size - n \in 0 .. MaxCount /\ list.origin + n \in Int
  BY FrameListAssumption DEF FrameLists
<1> QED
  BY <1>1, <1>2 DEF Advance, FrameLists

(* jb_framelist_remove_head removes count slots, or all of them.           *)
LEMMA RemoveHeadType ==
  ASSUME NEW list \in FrameLists, NEW count \in Nat
  PROVE  LET n == IF count > list.size THEN list.size ELSE count
             removed == jb_framelist_remove_head(list, count)
         IN  /\ removed \in FrameLists
             /\ removed.size = list.size - n
             /\ removed.origin = list.origin + n
<1> DEFINE n == IF count > list.size THEN list.size ELSE count
           gone == Oldest(list, n)
           discards == {p \in gone : list.type[p] = DISCARDED}
           cleared == [list EXCEPT
                !.type  = [p \in Slots |-> IF p \in gone THEN MISSING ELSE @[p]],
                !.frame = [p \in Slots |-> IF p \in gone THEN NoFrame ELSE @[p]],
                !.discarded_num = @ - Cardinality(discards)]
<1>1. n \in 0 .. list.size
  BY DEF FrameLists
<1>2. gone \subseteq Slots
  BY SlotAtType, <1>1 DEF FrameLists, Oldest
<1>3. Cardinality(discards) \in Int
  <2>1. IsFiniteSet(Slots)
    BY FS_Interval, FrameListAssumption DEF Slots
  <2> QED
    BY <1>2, <2>1, FS_Subset, FS_CardinalityType
<1>4. /\ cleared \in FrameLists
      /\ cleared.size = list.size /\ cleared.origin = list.origin
  <2> DEFINE type == [p \in Slots |-> IF p \in gone THEN MISSING ELSE list.type[p]]
             frame == [p \in Slots |-> IF p \in gone THEN NoFrame ELSE list.frame[p]]
             num == list.discarded_num - Cardinality(discards)
  <2>1. type \in [Slots -> FrameTypes]
    BY DEF FrameLists, FrameTypes
  <2>2. frame \in [Slots -> Int \cup {NoFrame}]
    BY DEF FrameLists
  <2>3. num \in Int
    BY <1>3 DEF FrameLists
  <2>4. cleared = [list EXCEPT !.type = type, !.frame = frame, !.discarded_num = num]
    OBVIOUS
  <2> HIDE DEF type, frame, num, cleared
  <2> QED
    BY <2>1, <2>2, <2>3, <2>4 DEF FrameLists
<1>5. jb_framelist_remove_head(list, count) = Advance(cleared, n)
  BY DEF jb_framelist_remove_head
<1> HIDE DEF cleared
<1> QED
  BY <1>1, <1>4, <1>5, AdvanceType

(* jb_framelist_get returns a frame list and a slot's contents.            *)
LEMMA GetType ==
  ASSUME NEW list \in FrameLists
  PROVE  jb_framelist_get(list) \in
           [fl : FrameLists, res : BOOLEAN, type : FrameTypes,
            frame : Int \cup {NoFrame}, seq : Int]
<1> DEFINE skip == LeadingDiscarded(list)
           fl1 == jb_framelist_remove_head(list, skip)
<1>1. skip \in Nat /\ fl1 \in FrameLists
  BY LeadingDiscardedType, RemoveHeadType DEF FrameLists
<1> HIDE DEF skip, fl1
<1>2. fl1.head \in Slots /\ fl1.type[fl1.head] \in FrameTypes
      /\ fl1.frame[fl1.head] \in Int \cup {NoFrame} /\ fl1.origin \in Int
  BY <1>1 DEF FrameLists
<1>3. CASE fl1.size = 0
  BY <1>1, <1>3 DEF jb_framelist_get, skip, fl1, FrameTypes
<1>4. CASE fl1.size # 0
  <2> DEFINE fl2 == [fl1 EXCEPT !.type[fl1.head] = MISSING, !.frame[fl1.head] = NoFrame]
             type == [fl1.type EXCEPT ![fl1.head] = MISSING]
             frame == [fl1.frame EXCEPT ![fl1.head] = NoFrame]
  <2>1. /\ fl2 = [fl1 EXCEPT !.type = type, !.frame = frame]
        /\ type \in [Slots -> FrameTypes] /\ frame \in [Slots -> Int \cup {NoFrame}]
    BY <1>1 DEF FrameLists, FrameTypes
  <2> HIDE DEF type, frame, fl2
  <2>2. fl2 \in FrameLists /\ 1 \in 0 .. fl2.size
    <3>1. fl2 \in FrameLists /\ fl2.size = fl1.size
      BY <1>1, <2>1 DEF FrameLists
    <3>2. fl1.size \in 0 .. MaxCount
      BY <1>1 DEF FrameLists
    <3> QED
      BY <3>1, <3>2, <1>4, FrameListAssumption
  <2>3. Advance(fl2, 1) \in FrameLists
    BY <2>2, AdvanceType
  <2> QED
    BY <1>2, <1>4, <2>3 DEF jb_framelist_get, skip, fl1, fl2, FrameTypes
<1> QED
  BY <1>3, <1>4

-----------------------------------------------------------------------------
(* A restart at index leaves an empty frame list there.                    *)
LEMMA FarJumpType ==
  ASSUME NEW index \in Int
  PROVE  FarJump(index) \in FrameLists /\ FarJump(index).size = 0
         /\ FarJump(index).origin = index
  BY ResetType DEF FarJump, FrameLists, jb_framelist_reset

(* The numbering a frame that is not late ends up with starts at or before *)
(* the frame, and exactly there when the buffer is empty.                  *)
LEMMA RenumberType ==
  ASSUME NEW list \in FrameLists, NEW index \in Int, ~IsLate(list, index)
  PROVE  /\ Renumber(list, index) \in FrameLists
         /\ Renumber(list, index).origin <= index
         /\ Renumber(list, index).size = 0 => Renumber(list, index).origin = index
         /\ index >= list.origin /\ list.size # 0 => Renumber(list, index) = list
<1> DEFINE moved == IF index >= list.origin THEN list
                    ELSE IF AtWrap(list) THEN [list EXCEPT !.origin = index - list.size]
                    ELSE FarJump(index)
<1>1. moved \in FrameLists /\ moved.origin <= index
  <2>1. list.origin \in Int /\ list.size \in Nat
    BY DEF FrameLists
  <2>2. CASE index >= list.origin
    BY <2>1, <2>2
  <2>3. CASE index < list.origin /\ AtWrap(list)
    <3>1. index - list.size \in Int /\ index - list.size <= index
      BY <2>1
    <3>2. moved = [list EXCEPT !.origin = index - list.size]
      BY <2>1, <2>3
    <3> QED
      BY <3>1, <3>2 DEF FrameLists
  <2>4. CASE index < list.origin /\ ~AtWrap(list)
    BY <2>1, <2>4, FarJumpType
  <2> QED
    BY <2>1, <2>2, <2>3, <2>4
<1>2. Renumber(list, index) = IF moved.size = 0 THEN [moved EXCEPT !.origin = index] ELSE moved
  BY DEF Renumber
<1>3. index >= list.origin => moved = list
  OBVIOUS
<1> HIDE DEF moved
<1> QED
  BY <1>1, <1>2, <1>3 DEF FrameLists

(* Storing a frame that fits keeps the frame list one, and never reports a *)
(* full buffer.                                                            *)
LEMMA StoreAtType ==
  ASSUME NEW list \in FrameLists, NEW index \in Int,
         list.origin <= index, index - list.origin < MaxCount
  PROVE  StoreAt(list, index) \in [fl : FrameLists, status : {SUCCESS, EEXISTS}]
<1> DEFINE distance == index - list.origin
           pos == SlotAt(list, distance)
           type == [list.type EXCEPT ![pos] = NORMAL]
           frame == [list.frame EXCEPT ![pos] = index]
           size == IF list.origin + list.size <= index THEN distance + 1 ELSE list.size
<1>1. list.origin \in Int /\ list.size \in 0 .. MaxCount /\ list.head \in Slots
  BY DEF FrameLists
<1>2. pos \in Slots
  BY <1>1, SlotAtType
<1>3. type \in [Slots -> FrameTypes] /\ frame \in [Slots -> Int \cup {NoFrame}]
  BY <1>2 DEF FrameLists, FrameTypes
<1>4. size \in 0 .. MaxCount
  BY <1>1, FrameListAssumption
<1>5. StoreAt(list, index) =
        IF list.type[pos] # MISSING THEN [fl |-> list, status |-> EEXISTS]
        ELSE [fl |-> [list EXCEPT !.type = type, !.frame = frame, !.size = size],
              status |-> SUCCESS]
  BY DEF StoreAt
<1> HIDE DEF type, frame, size, pos
<1>6. [list EXCEPT !.type = type, !.frame = frame, !.size = size] \in FrameLists
  BY <1>3, <1>4 DEF FrameLists
<1> QED
  BY <1>5, <1>6

Statuses == {SUCCESS, EEXISTS, ETOOSMALL, ETOOMANY}

(* jb_framelist_put_at returns a frame list, and refuses a frame as one    *)
(* too many only when it lies beyond the capacity of a list with frames.   *)
LEMMA PutAtType ==
  ASSUME NEW list \in FrameLists, NEW index \in Int
  PROVE  LET put == jb_framelist_put_at(list, index)
         IN  /\ put \in [fl : FrameLists, status : Statuses]
             /\ put.status = ETOOMANY =>
                  put.fl.size > 0 /\ index - put.fl.origin >= MaxCount
<1> DEFINE fl1 == Renumber(list, index)
<1>1. CASE IsLate(list, index)
  BY <1>1 DEF jb_framelist_put_at, Statuses, ETOOSMALL, ETOOMANY
<1>2. CASE ~IsLate(list, index)
  <2>1. /\ fl1 \in FrameLists /\ fl1.origin <= index
        /\ fl1.size = 0 => fl1.origin = index
    BY <1>2, RenumberType
  <2>2. fl1.origin \in Int /\ fl1.size \in Nat
    BY <2>1 DEF FrameLists
  <2> HIDE DEF fl1
  <2>3. CASE index - fl1.origin < MaxCount
    <3>1. jb_framelist_put_at(list, index) = StoreAt(fl1, index)
      BY <1>2, <2>3 DEF jb_framelist_put_at, fl1
    <3> QED
      BY <2>1, <2>3, <3>1, StoreAtType DEF Statuses, SUCCESS, EEXISTS, ETOOMANY
  <2>4. CASE index - fl1.origin >= MaxCount /\ index - fl1.origin > MAX_DROPOUT
    <3>1. jb_framelist_put_at(list, index) = StoreAt(FarJump(index), index)
      BY <1>2, <2>2, <2>4, FrameListAssumption DEF jb_framelist_put_at, fl1
    <3>2. StoreAt(FarJump(index), index) \in [fl : FrameLists, status : {SUCCESS, EEXISTS}]
      BY FarJumpType, StoreAtType, FrameListAssumption
    <3> QED
      BY <3>1, <3>2 DEF Statuses, SUCCESS, EEXISTS, ETOOMANY
  <2>5. CASE index - fl1.origin >= MaxCount /\ ~(index - fl1.origin > MAX_DROPOUT)
    <3>1. jb_framelist_put_at(list, index) = [fl |-> fl1, status |-> ETOOMANY]
      BY <1>2, <2>2, <2>5, FrameListAssumption DEF jb_framelist_put_at, fl1
    <3>2. fl1.size > 0
      BY <2>1, <2>2, <2>5, FrameListAssumption
    <3> QED
      BY <2>1, <2>5, <3>1, <3>2 DEF Statuses
  <2> QED
    BY <2>2, <2>3, <2>4, <2>5, FrameListAssumption
<1> QED
  BY <1>1, <1>2

(* Once the list has room, that is once MakeRoom has removed the frames in *)
(* the way, the frame is not one too many.                                 *)
LEMMA PutAtFits ==
  ASSUME NEW list \in FrameLists, NEW index \in Int, list.origin <= index,
         list.size = 0 \/ index - list.origin < MaxCount
  PROVE  jb_framelist_put_at(list, index).status # ETOOMANY
<1>1. list.origin \in Int
  BY DEF FrameLists
<1>2. ~IsLate(list, index)
  BY <1>1 DEF IsLate
<1> DEFINE fl1 == Renumber(list, index)
<1>3. fl1 \in FrameLists /\ fl1.origin <= index /\ index - fl1.origin < MaxCount
  <2>1. CASE list.size = 0
    <3>1. fl1.origin = index /\ fl1.size = 0
      BY <1>1, <2>1 DEF Renumber, FrameLists
    <3> QED
      BY <1>2, <3>1, RenumberType, FrameListAssumption
  <2>2. CASE list.size # 0
    BY <1>1, <1>2, <2>2, RenumberType
  <2> QED
    BY <2>1, <2>2
<1> HIDE DEF fl1
<1>4. jb_framelist_put_at(list, index) = StoreAt(fl1, index)
  BY <1>2, <1>3 DEF jb_framelist_put_at, fl1
<1> QED
  BY <1>3, <1>4, StoreAtType DEF SUCCESS, EEXISTS, ETOOMANY

(* Marking a frame as discarded keeps the frame list one.                  *)
LEMMA DiscardType ==
  ASSUME NEW list \in FrameLists, NEW index \in Int
  PROVE  jb_framelist_discard(list, index) \in FrameLists
<1> DEFINE pos == SlotAt(list, index - list.origin)
           type == [list.type EXCEPT ![pos] = DISCARDED]
<1>1. list.origin \in Int /\ list.head \in Slots
  BY DEF FrameLists
<1>2. pos \in Slots
  BY <1>1, SlotAtType
<1>3. type \in [Slots -> FrameTypes] /\ list.discarded_num + 1 \in Int
  BY <1>2 DEF FrameLists, FrameTypes
<1>4. jb_framelist_discard(list, index) \in
        {list, [list EXCEPT !.type = type, !.discarded_num = list.discarded_num + 1]}
  BY DEF jb_framelist_discard
<1> HIDE DEF type
<1> QED
  BY <1>3, <1>4 DEF FrameLists

-----------------------------------------------------------------------------
(***************************************************************************)
(* Theorems about JitterBuffer, for every capacity, every tuning constant  *)
(* and every sequence of calls: the variables keep their types, the levels *)
(* the adaptation computes stay within the capacity, and a put to a full   *)
(* buffer never fails for lack of room.                                    *)
(***************************************************************************)

(* The bounds of LevelsBounded, with the order of the configured limits    *)
(* that makes them inductive: jbuf_calculate_jitter may raise the prefetch *)
(* count to min_prefetch, which must not exceed max_prefetch.              *)
LevelsIn(j) ==
  /\ j.eff_level <= LevelCap
  /\ j.prefetch <= j.max_prefetch /\ j.min_prefetch <= j.max_prefetch
  /\ j.max_prefetch <= MaxCount

GoodBuffers == {j \in JitterBuffers : LevelsIn(j)}

IInv == TypeOK /\ LevelsIn(jb) /\ RoomIsMade

-----------------------------------------------------------------------------
(* The default capacity for prefetching lies within the buffer.            *)
LEMMA LevelCapType == LevelCap \in Nat /\ LevelCap <= MaxCount
  BY FrameListAssumption DEF LevelCap

(* PJ_MAX and PJ_MIN.                                                      *)
LEMMA LargerType ==
  ASSUME NEW a \in Int, NEW b \in Int
  PROVE  Larger(a, b) \in {a, b} /\ Larger(a, b) >= a /\ Larger(a, b) >= b
         /\ Smaller(a, b) \in {a, b} /\ Smaller(a, b) <= a /\ Smaller(a, b) <= b
  BY DEF Larger, Smaller

(* Quotients are natural, and positive when the dividend is not smaller.   *)
LEMMA QuotientType ==
  ASSUME NEW a \in Nat, NEW b \in Nat \ {0}
  PROVE  a \div b \in Nat /\ (b <= a => a \div b # 0)
  OBVIOUS

(* A frame time fits into the minimal discard gap.                         *)
LEMMA MinShrinkGapType ==
  ASSUME NEW ptime \in PTimes
  PROVE  ptime \in Nat \ {0} /\ MinShrinkGap(ptime) \in Nat \ {0}
         /\ MaxBurst(ptime) \in Nat
<1>1. ptime \in Nat \ {0} /\ ptime <= DISC_MIN_GAP /\ DISC_MIN_GAP \in Nat
      /\ MAX_BURST_MSEC \in Nat
  BY JitterBufferAssumption
<1>2. MinShrinkGap(ptime) \in Nat \ {0}
  BY <1>1, QuotientType DEF MinShrinkGap
<1>3. MAX_BURST_MSEC \div ptime \in Nat /\ (MaxCount * 3) \div 4 \in Nat
  BY <1>1, QuotientType, FrameListAssumption
<1> QED
  BY <1>1, <1>2, <1>3, LargerType DEF MaxBurst

(* The effective level moves within 0 .. LevelCap, and the prefetch count  *)
(* within its limits.                                                      *)
LEMMA ClampedType ==
  ASSUME NEW j \in GoodBuffers, NEW level \in Nat
  PROVE  Clamped(j, level) \in Nat /\ Clamped(j, level) <= j.max_prefetch
  BY DEF Clamped, GoodBuffers, LevelsIn, JitterBuffers

(* Recording the history of the level disturbs no bound.                   *)
LEMMA StableUpdateType ==
  ASSUME NEW j \in GoodBuffers, NEW hist \in Nat, NEW stable \in Nat
  PROVE  [j EXCEPT !.max_hist_level = hist, !.stable_hist = stable] \in GoodBuffers
<1>1. [j EXCEPT !.max_hist_level = hist, !.stable_hist = stable] \in JitterBuffers
  BY DEF GoodBuffers, JitterBuffers
<1> QED
  BY <1>1 DEF GoodBuffers, JitterBuffers, LevelsIn

(* New levels within their bounds may be stored.                           *)
LEMMA LevelUpdateType ==
  ASSUME NEW j \in GoodBuffers, NEW hist \in Nat, NEW stable \in Nat,
         NEW eff \in Nat, eff <= LevelCap, NEW pre \in Nat, pre <= j.max_prefetch
  PROVE  [j EXCEPT !.max_hist_level = hist, !.stable_hist = stable,
                   !.eff_level = eff, !.prefetch = pre] \in GoodBuffers
<1>1. [j EXCEPT !.max_hist_level = hist, !.stable_hist = stable,
                !.eff_level = eff, !.prefetch = pre] \in JitterBuffers
  BY DEF GoodBuffers, JitterBuffers
<1> QED
  BY <1>1 DEF GoodBuffers, JitterBuffers, LevelsIn

(* The adaptation keeps the levels within their bounds.                    *)
LEMMA CalculateJitterType ==
  ASSUME NEW j \in GoodBuffers
  PROVE  jbuf_calculate_jitter(j) \in GoodBuffers
<1> DEFINE hist == Larger(j.max_hist_level, j.level)
           drop == Larger((j.eff_level - hist) \div 3, 1)
           lower == j.eff_level - drop
           higher == Smaller(hist, LevelCap)
<1>1. /\ j.level \in Nat /\ j.eff_level \in Nat /\ j.stable_hist \in Nat
      /\ j.eff_level <= LevelCap /\ LevelCap \in Nat /\ hist \in Nat
  BY LargerType, LevelCapType DEF GoodBuffers, LevelsIn, JitterBuffers
<1>2. higher \in Nat /\ higher <= LevelCap
  BY <1>1, LargerType
<1>3. ASSUME j.level < j.eff_level PROVE lower \in Nat /\ lower <= LevelCap
  <2>1. (j.eff_level - hist) \div 3 \in Int /\ (j.eff_level - hist) \div 3 <= j.eff_level
    BY <1>1, <1>3
  <2>2. drop \in Int /\ 1 <= drop /\ drop <= j.eff_level
    BY <1>1, <1>3, <2>1 DEF Larger
  <2> QED
    BY <1>1, <2>2
<1> HIDE DEF hist, lower, higher
<1>4. 0 \in Nat
  OBVIOUS
<1>5. CASE j.level < j.eff_level /\ j.stable_hist < STABLE_HISTORY_LIMIT
  <2>1. jbuf_calculate_jitter(j) =
          [j EXCEPT !.max_hist_level = hist, !.stable_hist = j.stable_hist + 1]
    BY <1>5 DEF jbuf_calculate_jitter, hist, lower, higher
  <2>2. j.stable_hist + 1 \in Nat
    BY <1>1
  <2>3. [j EXCEPT !.max_hist_level = hist, !.stable_hist = j.stable_hist + 1] \in GoodBuffers
    BY <1>1, <2>2, StableUpdateType
  <2> QED
    BY <2>1, <2>3
<1>6. CASE j.level < j.eff_level /\ ~(j.stable_hist < STABLE_HISTORY_LIMIT)
  <2>1. jbuf_calculate_jitter(j) =
          [j EXCEPT !.max_hist_level = 0, !.stable_hist = 0,
                    !.eff_level = lower, !.prefetch = Clamped(j, lower)]
    BY <1>6 DEF jbuf_calculate_jitter, hist, lower, higher
  <2>2. Clamped(j, lower) \in Nat /\ Clamped(j, lower) <= j.max_prefetch
    BY <1>3, <1>6, ClampedType
  <2>3. [j EXCEPT !.max_hist_level = 0, !.stable_hist = 0, !.eff_level = lower,
                  !.prefetch = Clamped(j, lower)] \in GoodBuffers
    BY <1>4, <1>3, <1>6, <2>2, LevelUpdateType
  <2> QED
    BY <2>1, <2>3
<1>7. CASE j.level > j.eff_level
  <2>1. jbuf_calculate_jitter(j) =
          [j EXCEPT !.max_hist_level = hist, !.stable_hist = 0,
                    !.eff_level = higher, !.prefetch = Clamped(j, higher)]
    BY <1>1, <1>7 DEF jbuf_calculate_jitter, hist, lower, higher
  <2>2. Clamped(j, higher) \in Nat /\ Clamped(j, higher) <= j.max_prefetch
    BY <1>2, ClampedType
  <2>3. [j EXCEPT !.max_hist_level = hist, !.stable_hist = 0, !.eff_level = higher,
                  !.prefetch = Clamped(j, higher)] \in GoodBuffers
    BY <1>4, <1>1, <1>2, <2>2, LevelUpdateType
  <2> QED
    BY <2>1, <2>3
<1>8. CASE j.level = j.eff_level
  <2>1. jbuf_calculate_jitter(j) = [j EXCEPT !.max_hist_level = hist, !.stable_hist = 0]
    BY <1>1, <1>8 DEF jbuf_calculate_jitter, hist, lower, higher
  <2>2. [j EXCEPT !.max_hist_level = hist, !.stable_hist = 0] \in GoodBuffers
    BY <1>4, <1>1, StableUpdateType
  <2> QED
    BY <2>1, <2>2
<1> QED
  BY <1>1, <1>5, <1>6, <1>7, <1>8

-----------------------------------------------------------------------------
(* A discard algorithm changes only the frame list and its own plan.       *)
Results == [fl : FrameLists, jb : GoodBuffers]

(* The discard plan may be any position and distance.                      *)
LEMMA PlanUpdateType ==
  ASSUME NEW j \in GoodBuffers, NEW ref \in Int, NEW dist \in Nat
  PROVE  /\ [j EXCEPT !.discard_ref = ref] \in GoodBuffers
         /\ [j EXCEPT !.discard_dist = dist] \in GoodBuffers
         /\ [j EXCEPT !.discard_ref = ref, !.discard_dist = dist] \in GoodBuffers
<1>1. /\ [j EXCEPT !.discard_ref = ref] \in JitterBuffers
      /\ [j EXCEPT !.discard_dist = dist] \in JitterBuffers
  BY DEF GoodBuffers, JitterBuffers
<1>2. [j EXCEPT !.discard_ref = ref, !.discard_dist = dist] \in JitterBuffers
  BY DEF GoodBuffers, JitterBuffers
<1> QED
  BY <1>1, <1>2 DEF GoodBuffers, JitterBuffers, LevelsIn

(* jbuf_discard_static returns a frame list and a good buffer.             *)
LEMMA DiscardStaticType ==
  ASSUME NEW f \in FrameLists, NEW j \in GoodBuffers
  PROVE  jbuf_discard_static(f, j) \in Results
<1> DEFINE ref == Smaller(j.discard_ref, f.origin)
           shrunk == jb_framelist_remove_head(f, 1)
<1>1. ref \in Int
  BY LargerType DEF FrameLists, GoodBuffers, JitterBuffers
<1>2. shrunk \in FrameLists /\ shrunk.origin \in Int
  BY RemoveHeadType DEF FrameLists
<1> HIDE DEF ref, shrunk
<1>3. [j EXCEPT !.discard_ref = ref] \in GoodBuffers
  BY <1>1, PlanUpdateType
<1>4. [j EXCEPT !.discard_ref = shrunk.origin] \in GoodBuffers
  BY <1>2, PlanUpdateType
<1>5. jbuf_discard_static(f, j) \in
        {[fl |-> f, jb |-> j], [fl |-> f, jb |-> [j EXCEPT !.discard_ref = ref]],
         [fl |-> shrunk, jb |-> [j EXCEPT !.discard_ref = shrunk.origin]]}
  BY DEF jbuf_discard_static, ref, shrunk
<1> QED
  BY <1>2, <1>3, <1>4, <1>5 DEF Results

(* The product of natural numbers, which the arithmetic below needs alone. *)
LEMMA ProductType ==
  ASSUME NEW a \in Nat, NEW b \in Nat
  PROVE  a * b \in Nat
  OBVIOUS

(* The discard period, interpolated between T1 and T2, is natural.         *)
LEMMA DiscardPeriodType ==
  ASSUME NEW burst \in Nat
  PROVE  DiscardPeriod(burst) \in Nat
<1>1. /\ PRO_DISC_MIN_BURST \in Nat /\ PRO_DISC_MAX_BURST \in Nat
      /\ PRO_DISC_T1 \in Nat /\ PRO_DISC_T2 \in Nat
      /\ PRO_DISC_MIN_BURST < PRO_DISC_MAX_BURST /\ PRO_DISC_T1 <= PRO_DISC_T2
  BY JitterBufferAssumption
<1>2. CASE burst <= PRO_DISC_MIN_BURST \/ burst >= PRO_DISC_MAX_BURST
  BY <1>1, <1>2 DEF DiscardPeriod
<1>3. CASE ~(burst <= PRO_DISC_MIN_BURST) /\ ~(burst >= PRO_DISC_MAX_BURST)
  <2> DEFINE rise == (PRO_DISC_T2 - PRO_DISC_T1) * (burst - PRO_DISC_MIN_BURST)
             span == PRO_DISC_MAX_BURST - PRO_DISC_MIN_BURST
  <2>1. PRO_DISC_T2 - PRO_DISC_T1 \in Nat /\ burst - PRO_DISC_MIN_BURST \in Nat
    BY <1>1, <1>3
  <2>2. rise \in Nat
    BY <2>1, ProductType
  <2>3. span \in Nat \ {0}
    BY <1>1
  <2>4. DiscardPeriod(burst) = PRO_DISC_T1 + rise \div span
    BY <1>3 DEF DiscardPeriod
  <2> HIDE DEF rise, span
  <2>5. rise \div span \in Nat
    BY <2>2, <2>3, QuotientType
  <2> QED
    BY <1>1, <2>4, <2>5
<1> QED
  BY <1>2, <1>3

(* So is the distance between discards: the overflow the period is divided *)
(* by is positive whenever the division is made.                           *)
LEMMA DiscardDistType ==
  ASSUME NEW j \in GoodBuffers, NEW overflow \in Nat \ {0}, NEW burst \in Nat
  PROVE  DiscardDist(j, overflow, burst) \in Nat \ {0}
<1>1. j.min_shrink_gap \in Nat \ {0} /\ j.ptime \in Nat \ {0}
  BY DEF GoodBuffers, JitterBuffers
<1>2. DiscardPeriod(burst) \div overflow \in Nat
  BY DiscardPeriodType, QuotientType
<1>3. (DiscardPeriod(burst) \div overflow) \div j.ptime \in Nat
  BY <1>1, <1>2, QuotientType
<1> QED
  BY <1>1, <1>3, LargerType DEF DiscardDist

(* jbuf_discard_progressive returns a frame list and a good buffer.        *)
LEMMA DiscardProgressiveType ==
  ASSUME NEW f \in FrameLists, NEW j \in GoodBuffers
  PROVE  jbuf_discard_progressive(f, j) \in Results
<1> DEFINE size == jb_framelist_eff_size(f)
           burst == Larger(j.eff_level, j.level)
           last_seq == f.origin + f.size - 1
           ref == IF j.discard_dist = 0 THEN last_seq ELSE Smaller(j.discard_ref, last_seq)
           dist == DiscardDist(j, size - burst, burst)
           discard_seq == Larger(ref + dist, f.origin)
<1>1. /\ size \in Int /\ burst \in Nat /\ last_seq \in Int /\ ref \in Int
      /\ f.origin \in Int
  <2>1. /\ f.size \in Int /\ f.discarded_num \in Int /\ f.origin \in Int
        /\ j.eff_level \in Nat /\ j.level \in Nat /\ j.discard_ref \in Int
    BY DEF FrameLists, GoodBuffers, JitterBuffers
  <2> QED
    BY <2>1, LargerType DEF jb_framelist_eff_size
<1>2. 0 \in Nat
  OBVIOUS
<1> HIDE DEF size, burst, last_seq, ref
<1>3. CASE j.last_op # OP_PUT
  BY <1>3 DEF jbuf_discard_progressive, Results
<1>4. CASE j.last_op = OP_PUT /\ size <= burst
  <2>1. jbuf_discard_progressive(f, j) = [fl |-> f, jb |-> [j EXCEPT !.discard_dist = 0]]
    BY <1>4 DEF jbuf_discard_progressive, size, burst
  <2>2. [j EXCEPT !.discard_dist = 0] \in GoodBuffers
    BY <1>1, <1>2, PlanUpdateType
  <2> QED
    BY <2>1, <2>2 DEF Results
<1>5. CASE j.last_op = OP_PUT /\ ~(size <= burst)
  <2>1. dist \in Nat
    BY <1>1, <1>5, DiscardDistType
  <2> HIDE DEF dist
  <2>2. discard_seq \in Int
    BY <1>1, <2>1, LargerType
  <2> HIDE DEF discard_seq
  <2>3. [j EXCEPT !.discard_ref = ref, !.discard_dist = dist] \in GoodBuffers
    BY <1>1, <2>1, PlanUpdateType
  <2>4. [j EXCEPT !.discard_ref = discard_seq, !.discard_dist = dist] \in GoodBuffers
    BY <2>1, <2>2, PlanUpdateType
  <2>5. jb_framelist_discard(f, discard_seq) \in FrameLists
    BY <2>2, DiscardType
  <2>6. jbuf_discard_progressive(f, j) \in
          {[fl |-> f, jb |-> [j EXCEPT !.discard_ref = ref, !.discard_dist = dist]],
           [fl |-> jb_framelist_discard(f, discard_seq),
            jb |-> [j EXCEPT !.discard_ref = discard_seq, !.discard_dist = dist]]}
    BY <1>5 DEF jbuf_discard_progressive, size, burst, last_seq, ref, dist, discard_seq
  <2> QED
    BY <2>3, <2>4, <2>5, <2>6 DEF Results
<1> QED
  BY <1>3, <1>4, <1>5

(* Whichever algorithm the buffer runs returns such a pair.                *)
LEMMA DiscardAlgoType ==
  ASSUME NEW f \in FrameLists, NEW j \in GoodBuffers
  PROVE  jb_discard_algo(f, j) \in Results
<1>1. CASE Runs(j, STATIC)
  <2>1. ~Runs(j, PROGRESSIVE)
    BY <1>1 DEF Runs, STATIC, PROGRESSIVE
  <2> QED
    BY <1>1, <2>1, DiscardStaticType DEF jb_discard_algo
<1>2. CASE ~Runs(j, STATIC) /\ Runs(j, PROGRESSIVE)
  BY <1>2, DiscardProgressiveType DEF jb_discard_algo
<1>3. CASE ~Runs(j, STATIC) /\ ~Runs(j, PROGRESSIVE)
  BY <1>3 DEF jb_discard_algo, Results
<1> QED
  BY <1>1, <1>2, <1>3

-----------------------------------------------------------------------------
(* The bookkeeping of put, get and the switch between them.                *)
LEMMA BurstUpdateType ==
  ASSUME NEW j \in GoodBuffers, NEW level \in Nat, NEW prefetching \in BOOLEAN
  PROVE  /\ [j EXCEPT !.level = level] \in GoodBuffers
         /\ [j EXCEPT !.prefetching = prefetching, !.level = level] \in GoodBuffers
<1>1. [j EXCEPT !.level = level] \in JitterBuffers
  BY DEF GoodBuffers, JitterBuffers
<1>2. [j EXCEPT !.prefetching = prefetching, !.level = level] \in JitterBuffers
  BY DEF GoodBuffers, JitterBuffers
<1> QED
  BY <1>1, <1>2 DEF GoodBuffers, JitterBuffers, LevelsIn

(* The state a switch between putting and getting leaves.                  *)
LEMMA SwitchUpdateType ==
  ASSUME NEW j \in GoodBuffers, NEW oper \in {OP_PUT, OP_GET}, NEW cnt \in Nat,
         NEW status \in {INITIALIZING, PROCESSING}, NEW level \in Nat
  PROVE  [j EXCEPT !.last_op = oper, !.init_cycle_cnt = cnt,
                   !.status = status, !.level = level] \in GoodBuffers
<1>1. [j EXCEPT !.last_op = oper, !.init_cycle_cnt = cnt,
                !.status = status, !.level = level] \in JitterBuffers
  BY DEF GoodBuffers, JitterBuffers
<1> QED
  BY <1>1 DEF GoodBuffers, JitterBuffers, LevelsIn

(* jbuf_update, the common tail of put and get, returns a frame list and a *)
(* good buffer.                                                            *)
LEMMA UpdateType ==
  ASSUME NEW f \in FrameLists, NEW j \in GoodBuffers, NEW oper \in {OP_PUT, OP_GET}
  PROVE  jbuf_update(f, j, oper) \in Results
<1> DEFINE cycle == j.init_cycle_cnt + 1
           starts == j.status = INITIALIZING /\ cycle >= INIT_CYCLE /\ oper = OP_GET
           cnt == IF j.status = INITIALIZING THEN Smaller(cycle, INIT_CYCLE)
                  ELSE j.init_cycle_cnt
           status == IF starts THEN PROCESSING ELSE j.status
           level == IF starts THEN Smaller(j.level, j.max_burst) ELSE j.level
           j1 == [j EXCEPT !.last_op = oper, !.init_cycle_cnt = cnt,
                           !.status = status, !.level = level]
           j2 == IF oper = OP_GET /\ j1.level <= j1.max_burst
                 THEN jbuf_calculate_jitter(j1) ELSE j1
<1>1. 0 \in Nat
  OBVIOUS
<1>2. /\ j.init_cycle_cnt \in Nat /\ j.level \in Nat /\ j.max_burst \in Nat
      /\ j.status \in {INITIALIZING, PROCESSING} /\ INIT_CYCLE \in Nat
  BY JitterBufferAssumption DEF GoodBuffers, JitterBuffers
<1>3. cnt \in Nat /\ level \in Nat /\ status \in {INITIALIZING, PROCESSING}
  BY <1>2 DEF Smaller
<1>4. jbuf_update(f, j, oper) =
        IF j.last_op = oper THEN jb_discard_algo(f, j)
        ELSE IF j1.status = INITIALIZING THEN [fl |-> f, jb |-> [j1 EXCEPT !.level = 0]]
        ELSE jb_discard_algo(f, [j2 EXCEPT !.level = 0])
  BY DEF jbuf_update
<1> HIDE DEF cnt, level, status
<1>5. j1 \in GoodBuffers
  BY <1>3, SwitchUpdateType
<1> HIDE DEF j1
<1>6. j2 \in GoodBuffers
  BY <1>5, CalculateJitterType
<1> HIDE DEF j2
<1>7. [j1 EXCEPT !.level = 0] \in GoodBuffers /\ [j2 EXCEPT !.level = 0] \in GoodBuffers
  BY <1>1, <1>5, <1>6, BurstUpdateType
<1>8. [fl |-> f, jb |-> [j1 EXCEPT !.level = 0]] \in Results
  BY <1>7 DEF Results
<1>9. /\ jb_discard_algo(f, j) \in Results
      /\ jb_discard_algo(f, [j2 EXCEPT !.level = 0]) \in Results
  BY <1>7, DiscardAlgoType
<1> QED
  BY <1>4, <1>8, <1>9

-----------------------------------------------------------------------------
(* Making room makes enough of it: after it either nothing is left or the  *)
(* frame is MaxCount - 1 places behind the origin, so the second put_at is *)
(* never refused for lack of room.                                         *)
LEMMA TryPutType ==
  ASSUME NEW f \in FrameLists, NEW frame_seq \in Int
  PROVE  /\ TryPut(f, frame_seq).fl \in FrameLists
         /\ TryPut(f, frame_seq).status \in Statuses \ {ETOOMANY}
<1> DEFINE first == jb_framelist_put_at(f, frame_seq)
           room == MakeRoom(first.fl, frame_seq)
           second == jb_framelist_put_at(room, frame_seq)
<1>1. first.fl \in FrameLists /\ first.status \in Statuses
  BY PutAtType
<1>2. TryPut(f, frame_seq) = IF first.status = ETOOMANY THEN second ELSE first
  BY DEF TryPut
<1>3. CASE first.status # ETOOMANY
  BY <1>1, <1>2, <1>3
<1>4. CASE first.status = ETOOMANY
  <2> DEFINE count == frame_seq - first.fl.origin - MaxCount + 1
  <2>1. first.fl.size > 0 /\ frame_seq - first.fl.origin >= MaxCount
    BY <1>4, PutAtType
  <2> HIDE DEF first
  <2>2. /\ first.fl.origin \in Int /\ first.fl.size \in 0 .. MaxCount
        /\ MaxCount \in Nat \ {0}
    BY <1>1, FrameListAssumption DEF FrameLists
  <2>3. count \in Nat
    BY <2>1, <2>2
  <2>4. /\ room \in FrameLists
        /\ room.size = first.fl.size - (IF count > first.fl.size THEN first.fl.size ELSE count)
        /\ room.origin = first.fl.origin + (IF count > first.fl.size THEN first.fl.size ELSE count)
    BY <1>1, <2>3, RemoveHeadType DEF MakeRoom
  <2> HIDE DEF room
  <2>5. room.origin <= frame_seq /\ (room.size = 0 \/ frame_seq - room.origin < MaxCount)
    BY <2>1, <2>2, <2>4
  <2>6. second.fl \in FrameLists /\ second.status \in Statuses
    BY <2>4, PutAtType
  <2>7. second.status # ETOOMANY
    BY <2>4, <2>5, PutAtFits
  <2> QED
    BY <1>2, <1>4, <2>6, <2>7
<1> QED
  BY <1>3, <1>4

(* What the last call handed out lies in its type, and reports no full     *)
(* buffer, for the result codes of every call.                             *)
LEMMA OutTypes ==
  /\ {PREFETCH, EMPTY, NORMAL, MISSING, "removed", "nothing"}
       \cup (Statuses \ {ETOOMANY}) \subseteq
     (FrameTypes \cup {PREFETCH, EMPTY, SUCCESS, ETOOSMALL, ETOOMANY, EEXISTS,
                      "removed", "nothing"}) \ {ETOOMANY}
  /\ NoOut \in Outs /\ NoOut.type # ETOOMANY
  BY DEF PREFETCH, EMPTY, NORMAL, MISSING, DISCARDED, FrameTypes, Statuses, SUCCESS,
         ETOOSMALL, ETOOMANY, EEXISTS, NoOut, Outs

(* The inductive invariant, in the form the actions establish it.          *)
LEMMA Established ==
  ASSUME fl' \in FrameLists, jb' \in GoodBuffers, out' \in Outs, out'.type # ETOOMANY
  PROVE  IInv'
  BY DEF IInv, TypeOK, GoodBuffers, RoomIsMade

(* ... and in the form they use it.                                        *)
LEMMA Given ==
  ASSUME IInv
  PROVE  fl \in FrameLists /\ jb \in GoodBuffers
  BY DEF IInv, TypeOK, GoodBuffers

(* pjmedia_jbuf_put_frame3.                                                *)
LEMMA PutStep ==
  ASSUME IInv, NEW frame_seq \in 0 .. MaxSeq, Put(frame_seq)
  PROVE  IInv'
<1> DEFINE put == TryPut(fl, frame_seq)
           new_size == jb_framelist_eff_size(put.fl)
           grown == Larger(new_size - jb_framelist_eff_size(fl), 1)
           prefetching == jb.prefetching /\ new_size < jb.prefetch
           level == jb.level + grown
           j1 == [jb EXCEPT !.prefetching = prefetching, !.level = level]
           done == jbuf_update(put.fl, j1, OP_PUT)
<1>1. fl \in FrameLists /\ jb \in GoodBuffers /\ frame_seq \in Int
  BY Given, JitterBufferAssumption
<1>2. put.fl \in FrameLists /\ put.status \in Statuses \ {ETOOMANY}
  BY <1>1, TryPutType
<1>3. /\ out' = [NoOut EXCEPT !.type = put.status]
      /\ IF put.status = SUCCESS THEN fl' = done.fl /\ jb' = done.jb
         ELSE fl' = put.fl /\ jb' = jb
  BY DEF Put
<1> HIDE DEF put
<1>4. jb.level \in Nat /\ grown \in Nat
  <2>1. fl.size \in Int /\ fl.discarded_num \in Int
        /\ put.fl.size \in Int /\ put.fl.discarded_num \in Int
    BY <1>1, <1>2 DEF FrameLists
  <2>2. new_size - jb_framelist_eff_size(fl) \in Int
    BY <2>1 DEF jb_framelist_eff_size
  <2>3. grown \in Int /\ grown >= 1
    BY <2>2 DEF Larger
  <2> HIDE DEF grown
  <2> QED
    BY <1>1, <2>3 DEF GoodBuffers, JitterBuffers
<1>5. level \in Nat /\ prefetching \in BOOLEAN
  BY <1>4
<1> HIDE DEF level, prefetching
<1>6. j1 \in GoodBuffers
  BY <1>1, <1>5, BurstUpdateType
<1> HIDE DEF j1
<1>7. done \in Results
  BY <1>2, <1>6, UpdateType
<1> HIDE DEF done
<1>8. fl' \in FrameLists /\ jb' \in GoodBuffers
  BY <1>1, <1>2, <1>3, <1>7 DEF Results
<1>9. out' \in Outs /\ out'.type # ETOOMANY
  BY <1>2, <1>3, OutTypes DEF NoOut, Outs
<1> QED
  BY <1>8, <1>9, Established

(* pjmedia_jbuf_get_frame3.                                                *)
LEMMA GetStep ==
  ASSUME IInv, Get
  PROVE  IInv'
<1> DEFINE got == jb_framelist_get(fl)
           type == IF ~got.res THEN EMPTY
                   ELSE IF got.type = NORMAL THEN NORMAL ELSE MISSING
           prefetching == jb.prefetching \/ (~got.res /\ jb.prefetch # 0)
           level == jb.level + 1
           j1 == [jb EXCEPT !.prefetching = prefetching, !.level = level]
           f1 == IF jb.prefetching THEN fl ELSE got.fl
           done == jbuf_update(f1, j1, OP_GET)
<1>1. fl \in FrameLists /\ jb \in GoodBuffers
  BY Given
<1>2. got \in [fl : FrameLists, res : BOOLEAN, type : FrameTypes,
               frame : Int \cup {NoFrame}, seq : Int]
  BY <1>1, GetType
<1>3. /\ out' = IF jb.prefetching THEN [NoOut EXCEPT !.type = PREFETCH]
                ELSE [type |-> type, frame |-> got.frame, seq |-> got.seq]
      /\ fl' = done.fl /\ jb' = done.jb
  BY DEF Get
<1> HIDE DEF got
<1>4. level \in Nat /\ prefetching \in BOOLEAN
  BY <1>1, <1>2 DEF GoodBuffers, JitterBuffers
<1> HIDE DEF level, prefetching
<1>5. j1 \in GoodBuffers
  BY <1>1, <1>4, BurstUpdateType
<1> HIDE DEF j1
<1>6. f1 \in FrameLists
  BY <1>1, <1>2
<1> HIDE DEF f1
<1>7. done \in Results
  BY <1>5, <1>6, UpdateType
<1> HIDE DEF done
<1>8. fl' \in FrameLists /\ jb' \in GoodBuffers
  BY <1>3, <1>7 DEF Results
<1>9. out' \in Outs /\ out'.type # ETOOMANY
  <2>1. type \in {EMPTY, NORMAL, MISSING}
    OBVIOUS
  <2> HIDE DEF type
  <2> QED
    BY <1>2, <1>3, <2>1, OutTypes DEF NoOut, Outs
<1> QED
  BY <1>8, <1>9, Established

-----------------------------------------------------------------------------
(* One more slot adds at most one frame.                                   *)
LEMMA LiveAmongStep ==
  ASSUME NEW f, NEW n \in Nat
  PROVE  /\ LiveAmong(f, n) \in Nat
         /\ LiveAmong(f, 0) = 0
         /\ LiveAmong(f, n + 1) <= LiveAmong(f, n) + 1
<1> DEFINE Live(d) == f.type[SlotAt(f, d)] # DISCARDED
           Places(k) == {d \in 0 .. k - 1 : Live(d)}
<1>1. \A k \in Nat : IsFiniteSet(Places(k))
  <2>1. TAKE k \in Nat
  <2>2. IsFiniteSet(0 .. k - 1)
    BY FS_Interval
  <2>3. Places(k) \in SUBSET (0 .. k - 1)
    OBVIOUS
  <2> QED
    BY <2>2, <2>3, FS_Subset
<1>2. \A k \in Nat : LiveAmong(f, k) = Cardinality(Places(k))
  BY DEF LiveAmong
<1>3. LiveAmong(f, n) \in Nat
  BY <1>1, <1>2, FS_CardinalityType
<1>4. LiveAmong(f, 0) = 0
  <2>1. Places(0) = {}
    OBVIOUS
  <2> QED
    BY <1>2, <2>1, FS_EmptySet
<1>5. Places(n + 1) \in {Places(n), Places(n) \cup {n}}
  <2>1. 0 .. n = (0 .. n - 1) \cup {n}
    OBVIOUS
  <2> HIDE DEF Live
  <2>2. n + 1 - 1 = n
    OBVIOUS
  <2>3. Places(n + 1) = {d \in 0 .. n : Live(d)}
    BY <2>2
  <2>4. CASE Live(n)
    BY <2>1, <2>3, <2>4
  <2>5. CASE ~Live(n)
    BY <2>1, <2>3, <2>5
  <2> QED
    BY <2>4, <2>5
<1>6. n \notin Places(n)
  OBVIOUS
<1>7. n + 1 \in Nat
  OBVIOUS
<1> HIDE DEF Places
<1>8. Cardinality(Places(n + 1)) <= Cardinality(Places(n)) + 1
  <2>1. IsFiniteSet(Places(n)) /\ Cardinality(Places(n)) \in Nat
    BY <1>1, FS_CardinalityType
  <2>2. Cardinality(Places(n) \cup {n}) = Cardinality(Places(n)) + 1
    BY <1>6, <2>1, FS_AddElement
  <2>3. CASE Places(n + 1) = Places(n)
    BY <2>1, <2>3
  <2>4. CASE Places(n + 1) = Places(n) \cup {n}
    <3>1. Cardinality(Places(n + 1)) = Cardinality(Places(n)) + 1
      BY <2>2, <2>4, Zenon
    <3> QED
      BY <2>1, <3>1
  <2> QED
    BY <1>5, <2>3, <2>4
<1> QED
  BY <1>2, <1>3, <1>4, <1>7, <1>8

(* The loop of pjmedia_jbuf_remove_frame stops within the window.          *)
LEMMA SlotsHoldingType ==
  ASSUME NEW f \in FrameLists, NEW frame_cnt \in Nat \ {0}
  PROVE  LET n == SlotsHolding(f, frame_cnt)
         IN  /\ n \in 0 .. f.size
             /\ n = f.size \/ LiveAmong(f, n) = frame_cnt
             /\ \A m \in 0 .. n - 1 : LiveAmong(f, m) < frame_cnt
<1> DEFINE T == {n \in 0 .. f.size : n = f.size \/ LiveAmong(f, n) >= frame_cnt}
<1>1. f.size \in Nat
  BY FrameListAssumption DEF FrameLists
<1>2. PICK n \in T : \A m \in T : n <= m
  <2>1. T \in SUBSET Nat /\ f.size \in T
    BY <1>1
  <2> HIDE DEF T
  <2> QED
    BY <2>1, LeastElement
<1>3. \A m \in 0 .. n - 1 : LiveAmong(f, m) < frame_cnt
  <2>1. TAKE m \in 0 .. n - 1
  <2>2. m \in 0 .. f.size /\ m # f.size /\ m \in Nat /\ m \notin T
    BY <1>1, <1>2
  <2>3. LiveAmong(f, m) \in Nat
    BY <2>2, LiveAmongStep
  <2> QED
    BY <2>2, <2>3
<1>4. n = f.size \/ LiveAmong(f, n) = frame_cnt
  <2>1. SUFFICES ASSUME n # f.size PROVE LiveAmong(f, n) = frame_cnt
    OBVIOUS
  <2>2. n \in Nat /\ LiveAmong(f, n) >= frame_cnt
    BY <1>1, <1>2, <2>1
  <2>3. LiveAmong(f, 0) = 0
    BY <2>2, LiveAmongStep
  <2>4. n # 0
    BY <2>2, <2>3
  <2>5. n - 1 \in Nat /\ n - 1 \in 0 .. n - 1 /\ (n - 1) + 1 = n
    BY <2>2, <2>4
  <2>6. LiveAmong(f, n) <= LiveAmong(f, n - 1) + 1 /\ LiveAmong(f, n - 1) \in Nat
    BY <2>5, LiveAmongStep
  <2>7. LiveAmong(f, n - 1) < frame_cnt /\ LiveAmong(f, n) \in Nat
    BY <1>3, <2>2, <2>5, LiveAmongStep
  <2> QED
    BY <2>2, <2>6, <2>7
<1>5. n \in 0 .. f.size
  BY <1>2
<1> HIDE DEF T
<1> QED
  BY <1>3, <1>4, <1>5 DEF SlotsHolding

(* pjmedia_jbuf_remove_frame.                                              *)
LEMMA RemoveFrameStep ==
  ASSUME IInv, NEW frame_cnt \in 1 .. MaxCount, RemoveFrame(frame_cnt)
  PROVE  IInv'
<1> DEFINE n == SlotsHolding(fl, frame_cnt)
<1>1. fl \in FrameLists /\ jb \in GoodBuffers
  BY Given
<1>2. n \in Nat
  <2>1. frame_cnt \in Nat \ {0} /\ fl.size \in Nat
    BY <1>1, FrameListAssumption DEF FrameLists
  <2>2. n \in 0 .. fl.size
    BY <1>1, <2>1, SlotsHoldingType
  <2> QED
    BY <2>1, <2>2
<1>3. /\ fl' = jb_framelist_remove_head(fl, n)
      /\ out' = [NoOut EXCEPT !.type = "removed", !.seq = LiveAmong(fl, n)]
      /\ jb' = jb
  BY DEF RemoveFrame
<1> HIDE DEF n
<1>4. fl' \in FrameLists
  BY <1>1, <1>2, <1>3, RemoveHeadType
<1>5. LiveAmong(fl, n) \in Int
  BY <1>2, LiveAmongStep
<1>6. out' \in Outs /\ out'.type # ETOOMANY
  BY <1>3, <1>5, OutTypes DEF NoOut, Outs
<1> QED
  BY <1>1, <1>3, <1>4, <1>6, Established

-----------------------------------------------------------------------------
(* pjmedia_jbuf_reset.                                                     *)
LEMMA ResetStep ==
  ASSUME IInv, Reset
  PROVE  IInv'
<1>1. jb \in GoodBuffers
  BY Given
<1>2. jb' \in JitterBuffers
  <2> DEFINE prefetching == jb.prefetch # 0
  <2>1. jb \in JitterBuffers
    BY <1>1 DEF GoodBuffers
  <2>2. prefetching \in BOOLEAN
    OBVIOUS
  <2>3. jb' = [jb EXCEPT !.level = 0, !.last_op = OP_INIT, !.stable_hist = 0,
                        !.status = INITIALIZING, !.init_cycle_cnt = 0,
                        !.max_hist_level = 0, !.prefetching = prefetching,
                        !.discard_dist = 0]
    BY DEF Reset
  <2> HIDE DEF prefetching
  <2> QED
    BY <2>1, <2>2, <2>3 DEF JitterBuffers
<1>3. jb' \in GoodBuffers
  BY <1>1, <1>2 DEF Reset, GoodBuffers, LevelsIn, JitterBuffers
<1>4. fl' \in FrameLists /\ out' \in Outs /\ out'.type # ETOOMANY
  BY ResetType, OutTypes DEF Reset
<1> QED
  BY <1>3, <1>4, Established

(* pjmedia_jbuf_set_ptime.                                                 *)
LEMMA SetPtimeStep ==
  ASSUME IInv, NEW ptime \in PTimes, SetPtime(ptime)
  PROVE  IInv'
<1>1. fl \in FrameLists /\ jb \in GoodBuffers
  BY Given
<1>2. /\ ptime \in Nat \ {0} /\ MinShrinkGap(ptime) \in Nat \ {0}
      /\ MaxBurst(ptime) \in Nat
  BY MinShrinkGapType
<1>3. jb' \in JitterBuffers
  BY <1>1, <1>2 DEF SetPtime, GoodBuffers, JitterBuffers
<1>4. jb' \in GoodBuffers
  BY <1>1, <1>3 DEF SetPtime, GoodBuffers, LevelsIn, JitterBuffers
<1>5. fl' \in FrameLists /\ out' \in Outs /\ out'.type # ETOOMANY
  BY <1>1, OutTypes DEF SetPtime
<1> QED
  BY <1>4, <1>5, Established

(* pjmedia_jbuf_set_fixed.                                                 *)
LEMMA SetFixedStep ==
  ASSUME IInv, NEW prefetch \in Prefetches, SetFixed(prefetch)
  PROVE  IInv'
<1>1. fl \in FrameLists /\ jb \in GoodBuffers
  BY Given
<1>2. prefetch \in Nat /\ prefetch <= MaxCount
  BY JitterBufferAssumption DEF SetFixed
<1>3. jb' \in JitterBuffers
  BY <1>1, <1>2 DEF SetFixed, GoodBuffers, JitterBuffers
<1>4. /\ jb'.eff_level = jb.eff_level /\ jb'.prefetch = prefetch
      /\ jb'.min_prefetch = prefetch /\ jb'.max_prefetch = prefetch
  BY <1>1 DEF SetFixed, GoodBuffers, JitterBuffers
<1>5. jb' \in GoodBuffers
  BY <1>1, <1>2, <1>3, <1>4 DEF GoodBuffers, LevelsIn
<1>6. fl' \in FrameLists /\ out' \in Outs /\ out'.type # ETOOMANY
  BY <1>1, OutTypes DEF SetFixed
<1> QED
  BY <1>5, <1>6, Established

(* pjmedia_jbuf_set_adaptive.                                              *)
LEMMA SetAdaptiveStep ==
  ASSUME IInv, NEW p \in Prefetches, NEW lo \in Prefetches, NEW hi \in Prefetches,
         SetAdaptive(p, lo, hi)
  PROVE  IInv'
<1>1. fl \in FrameLists /\ jb \in GoodBuffers
  BY Given
<1>2. /\ p \in Nat /\ lo \in Nat /\ hi \in Nat
      /\ p <= hi /\ lo <= hi /\ hi <= MaxCount
  BY JitterBufferAssumption DEF SetAdaptive
<1>3. jb' \in JitterBuffers
  BY <1>1, <1>2 DEF SetAdaptive, GoodBuffers, JitterBuffers
<1>4. jb' \in GoodBuffers
  BY <1>1, <1>2, <1>3 DEF SetAdaptive, GoodBuffers, LevelsIn, JitterBuffers
<1>5. fl' \in FrameLists /\ out' \in Outs /\ out'.type # ETOOMANY
  BY <1>1, OutTypes DEF SetAdaptive
<1> QED
  BY <1>4, <1>5, Established

(* pjmedia_jbuf_set_discard.                                               *)
LEMMA SetDiscardStep ==
  ASSUME IInv, NEW algo \in Algos, SetDiscard(algo)
  PROVE  IInv'
<1>1. fl \in FrameLists /\ jb \in GoodBuffers
  BY Given
<1>2. algo \in {NONE, STATIC, PROGRESSIVE}
  BY JitterBufferAssumption
<1>3. jb' \in JitterBuffers
  BY <1>1, <1>2 DEF SetDiscard, GoodBuffers, JitterBuffers
<1>4. jb' \in GoodBuffers
  BY <1>1, <1>3 DEF SetDiscard, GoodBuffers, LevelsIn, JitterBuffers
<1>5. fl' \in FrameLists /\ out' \in Outs /\ out'.type # ETOOMANY
  BY <1>1, OutTypes DEF SetDiscard
<1> QED
  BY <1>4, <1>5, Established

-----------------------------------------------------------------------------
(* pjmedia_jbuf_create establishes the invariant.                          *)
LEMMA InitStep == Init => IInv
<1> SUFFICES ASSUME Init PROVE IInv
  OBVIOUS
<1>1. PICK ptime \in PTimes : jb = Created(ptime)
  BY DEF Init
<1> DEFINE delay == Smaller(DEFAULT_INIT_DELAY, LevelCap)
           gap == MinShrinkGap(ptime)
           burst == MaxBurst(ptime)
<1>2. /\ ptime \in Nat \ {0} /\ gap \in Nat \ {0} /\ burst \in Nat
  BY MinShrinkGapType
<1>3. /\ LevelCap \in Nat /\ LevelCap <= MaxCount
      /\ delay \in Nat /\ delay <= LevelCap /\ MaxCount \in Nat
  BY LevelCapType, JitterBufferAssumption, FrameListAssumption DEF Smaller
<1>4. jb = [ptime |-> ptime, init_prefetch |-> 0, min_prefetch |-> 0,
            max_prefetch |-> LevelCap, min_shrink_gap |-> gap, max_burst |-> burst,
            algo |-> PROGRESSIVE, prefetch |-> delay, prefetching |-> delay # 0,
            eff_level |-> 0, level |-> 0, max_hist_level |-> 0, stable_hist |-> 0,
            last_op |-> OP_INIT, status |-> INITIALIZING, init_cycle_cnt |-> 0,
            discard_ref |-> 0, discard_dist |-> 0]
  BY <1>1 DEF Created
<1> HIDE DEF delay, gap, burst
<1>5. jb \in JitterBuffers
  BY <1>2, <1>3, <1>4 DEF JitterBuffers
<1>6. LevelsIn(jb)
  BY <1>3, <1>4 DEF LevelsIn
<1>7. fl \in FrameLists /\ out \in Outs /\ out.type # ETOOMANY
  BY ResetType, OutTypes DEF Init
<1> QED
  BY <1>5, <1>6, <1>7 DEF IInv, TypeOK, RoomIsMade

(* Every call preserves it.                                                *)
LEMMA NextStep == IInv /\ [Next]_vars => IInv'
<1> SUFFICES ASSUME IInv, [Next]_vars PROVE IInv'
  OBVIOUS
<1>1. CASE \E s \in 0 .. MaxSeq : Put(s)
  BY <1>1, PutStep
<1>2. CASE Get
  BY <1>2, GetStep
<1>3. CASE \E n \in 1 .. MaxCount : RemoveFrame(n)
  BY <1>3, RemoveFrameStep
<1>4. CASE Reset
  BY <1>4, ResetStep
<1>5. CASE \E p \in PTimes : SetPtime(p)
  BY <1>5, SetPtimeStep
<1>6. CASE \E p \in Prefetches : SetFixed(p)
  BY <1>6, SetFixedStep
<1>7. CASE \E p, lo, hi \in Prefetches : SetAdaptive(p, lo, hi)
  BY <1>7, SetAdaptiveStep
<1>8. CASE \E a \in Algos : SetDiscard(a)
  BY <1>8, SetDiscardStep
<1>9. CASE UNCHANGED vars
  BY <1>9 DEF vars, IInv, TypeOK, RoomIsMade
<1> QED
  BY <1>1, <1>2, <1>3, <1>4, <1>5, <1>6, <1>7, <1>8, <1>9 DEF Next

(* Levels, types and room together, along every behaviour.                 *)
LEMMA Invariance == Spec => []IInv
  BY InitStep, NextStep, PTL DEF Spec

(* No call of the jitter buffer leaves a variable outside its type: the    *)
(* head stays in the array, the size within the capacity, the levels,      *)
(* counters and the distances of the discard plan never become negative.   *)
THEOREM TypeCorrect == Spec => []TypeOK
<1>1. IInv => TypeOK
  BY DEF IInv
<1> QED
  BY <1>1, Invariance, PTL

(* The effective level and the prefetch count that jbuf_calculate_jitter   *)
(* computes never exceed the capacity: a prefetch count above it could     *)
(* never be reached, and the buffer would prefetch for ever.               *)
THEOREM LevelsAreBounded == Spec => []LevelsBounded
<1>1. IInv => LevelsBounded
  BY DEF IInv, LevelsIn, LevelsBounded
<1> QED
  BY <1>1, Invariance, PTL

(* pjmedia_jbuf_put_frame3 never hands PJ_ETOOMANY to its caller: what it  *)
(* removes after the first refusal is enough for the second try.           *)
THEOREM RoomAlwaysMade == Spec => []RoomIsMade
<1>1. IInv => RoomIsMade
  BY DEF IInv
<1> QED
  BY <1>1, Invariance, PTL

-----------------------------------------------------------------------------
(***************************************************************************)
(* Theorems about the window of the jitter buffer, the slots between head  *)
(* and head + size: what lies in it and outside it (WindowIsSound,         *)
(* DiscardsAreSound), and what a call does to it (NothingIsReplayed,       *)
(* NothingIsLost).                                                         *)
(*                                                                         *)
(* The runs' properties are not inductive.  WInv adds to IInv that a slot  *)
(* marked as missing is empty (Emptied: jb_framelist_put_at looks at the   *)
(* mark, and writes the contents), and that no slot beyond the plan of     *)
(* the progressive algorithm is discarded (PlanOK: otherwise               *)
(* jb_framelist_discard could count a slot twice).  All is stated of the   *)
(* slots by their distances from the head, as every function of jbuf.c     *)
(* either moves the head on (MovedOn), renumbers (Rebased), stores one     *)
(* frame (StoredIn) or marks one (DiscardedAt).                            *)
(***************************************************************************)

(* What the slot d places after the head holds, and an empty slot.         *)
At(f, d) == [type |-> f.type[SlotAt(f, d)], frame |-> f.frame[SlotAt(f, d)]]
Blank == [type |-> MISSING, frame |-> NoFrame]
Distances == 0 .. MaxCount - 1

-----------------------------------------------------------------------------
(* The place of a slot less than two rounds from the start of the array.   *)
LEMMA OneRound ==
  ASSUME NEW a \in Nat, a < 2 * MaxCount
  PROVE  a % MaxCount = IF a < MaxCount THEN a ELSE a - MaxCount
<1>1. MaxCount \in Nat \ {0}
  BY FrameListAssumption
<1>2. CASE a < MaxCount
  <2>1. a \in 0 .. MaxCount - 1
    BY <1>1, <1>2
  <2> QED
    BY <1>1, <1>2, <2>1
<1>3. CASE ~(a < MaxCount)
  <2>1. a \in MaxCount .. 2 * MaxCount - 1
    BY <1>1, <1>3
  <2>2. ASSUME NEW n \in Nat \ {0}, NEW b \in n .. 2 * n - 1 PROVE b % n = b - n
    OBVIOUS
  <2> QED
    BY <1>1, <1>3, <2>1, <2>2
<1> QED
  BY <1>2, <1>3

(* The slot at a distance from the head.                                   *)
LEMMA SlotAtIs ==
  ASSUME NEW f, f.head \in Slots, NEW d \in 0 .. MaxCount
  PROVE  SlotAt(f, d) = IF f.head + d < MaxCount THEN f.head + d
                        ELSE f.head + d - MaxCount
<1>1. MaxCount \in Nat \ {0} /\ f.head \in 0 .. MaxCount - 1
  BY FrameListAssumption DEF Slots
<1>2. f.head + d \in Nat /\ f.head + d < 2 * MaxCount
  BY <1>1
<1>3. (f.head + d) % MaxCount = IF f.head + d < MaxCount THEN f.head + d
                                ELSE f.head + d - MaxCount
  BY <1>1, <1>2, OneRound
<1> QED
  BY <1>3 DEF SlotAt

(* Distances below the capacity and slots correspond one to one.           *)
LEMMA SlotAtInjective ==
  ASSUME NEW f, f.head \in Slots, NEW d \in Distances, NEW e \in Distances,
         SlotAt(f, d) = SlotAt(f, e)
  PROVE  d = e
<1>1. MaxCount \in Nat \ {0} /\ f.head \in 0 .. MaxCount - 1
      /\ d \in 0 .. MaxCount /\ e \in 0 .. MaxCount
  BY FrameListAssumption DEF Slots, Distances
<1> QED
  BY <1>1, SlotAtIs DEF Distances

(* Every slot of the array is at some distance from the head.              *)
LEMMA SlotAtOnto ==
  ASSUME NEW f, f.head \in Slots, NEW p \in Slots
  PROVE  \E d \in Distances : SlotAt(f, d) = p
<1>1. MaxCount \in Nat \ {0} /\ f.head \in 0 .. MaxCount - 1 /\ p \in 0 .. MaxCount - 1
  BY FrameListAssumption DEF Slots
<1> DEFINE d == IF p >= f.head THEN p - f.head ELSE p - f.head + MaxCount
<1>2. d \in Distances /\ d \in 0 .. MaxCount
  BY <1>1 DEF Distances
<1>3. SlotAt(f, d) = p
  <2>1. SlotAt(f, d) = IF f.head + d < MaxCount THEN f.head + d
                       ELSE f.head + d - MaxCount
    BY <1>2, SlotAtIs
  <2> QED
    BY <1>1, <2>1
<1> QED
  BY <1>2, <1>3

(* The place d of a list moved on by n is the place d + n of the list.     *)
LEMMA SlotAtMoved ==
  ASSUME NEW f, f.head \in Slots, NEW n \in 0 .. MaxCount,
         NEW g, g.head = SlotAt(f, n), NEW d \in Distances
  PROVE  /\ g.head \in Slots
         /\ d + n < MaxCount => SlotAt(g, d) = SlotAt(f, d + n)
         /\ d + n >= MaxCount => SlotAt(g, d) = SlotAt(f, d + n - MaxCount)
<1>1. MaxCount \in Nat \ {0} /\ f.head \in 0 .. MaxCount - 1
      /\ d \in 0 .. MaxCount - 1 /\ d \in 0 .. MaxCount
  BY FrameListAssumption DEF Slots, Distances
<1>2. g.head = IF f.head + n < MaxCount THEN f.head + n ELSE f.head + n - MaxCount
  BY SlotAtIs
<1>3. g.head \in Slots
  BY <1>1, <1>2 DEF Slots
<1>4. SlotAt(g, d) = IF g.head + d < MaxCount THEN g.head + d ELSE g.head + d - MaxCount
  BY <1>1, <1>3, SlotAtIs
<1>5. CASE d + n < MaxCount
  <2>1. d + n \in 0 .. MaxCount
    BY <1>1, <1>5
  <2>2. SlotAt(f, d + n) = IF f.head + (d + n) < MaxCount THEN f.head + (d + n)
                           ELSE f.head + (d + n) - MaxCount
    BY <2>1, SlotAtIs
  <2> QED
    BY <1>1, <1>2, <1>3, <1>4, <1>5, <2>2
<1>6. CASE d + n >= MaxCount
  <2> DEFINE e == d + n - MaxCount
  <2>1. e \in 0 .. MaxCount
    BY <1>1, <1>6
  <2>2. SlotAt(f, e) = IF f.head + e < MaxCount THEN f.head + e
                       ELSE f.head + e - MaxCount
    BY <2>1, SlotAtIs
  <2> QED
    BY <1>1, <1>2, <1>3, <1>4, <1>6, <2>2
<1> QED
  BY <1>1, <1>3, <1>5, <1>6

-----------------------------------------------------------------------------
(* g is f moved on by n places: what was n places further on is there, and *)
(* the slots that became free are empty.                                   *)
MovedOn(f, g, n) ==
  /\ g \in FrameLists /\ g.size = f.size - n /\ g.origin = f.origin + n
  /\ \A d \in Distances : At(g, d) = IF d + n < MaxCount THEN At(f, d + n) ELSE Blank

(* Clearing the n oldest slots and advancing moves a list on.              *)
LEMMA ClearedMoves ==
  ASSUME NEW f \in FrameLists, NEW n \in 0 .. f.size, NEW g \in FrameLists,
         g.head = SlotAt(f, n), g.size = f.size - n, g.origin = f.origin + n,
         \A p \in Slots : /\ g.type[p] = IF p \in Oldest(f, n) THEN MISSING ELSE f.type[p]
                          /\ g.frame[p] = IF p \in Oldest(f, n) THEN NoFrame ELSE f.frame[p]
  PROVE  MovedOn(f, g, n)
<1>1. MaxCount \in Nat \ {0} /\ n \in 0 .. MaxCount /\ f.head \in Slots
  BY FrameListAssumption DEF FrameLists
<1>2. ASSUME NEW d \in Distances
      PROVE  At(g, d) = IF d + n < MaxCount THEN At(f, d + n) ELSE Blank
  <2>1. d \in 0 .. MaxCount - 1 /\ SlotAt(g, d) \in Slots
    BY SlotAtType DEF Distances, FrameLists
  <2>2. CASE d + n < MaxCount
    <3>1. d + n \in Distances /\ SlotAt(g, d) = SlotAt(f, d + n)
      BY <1>1, <2>1, <2>2, SlotAtMoved DEF Distances
    <3>2. SlotAt(g, d) \notin Oldest(f, n)
      <4>1. SUFFICES ASSUME NEW e \in 0 .. n - 1, SlotAt(f, e) = SlotAt(f, d + n)
                     PROVE  FALSE
        BY <3>1 DEF Oldest
      <4>2. e \in Distances
        BY <1>1 DEF Distances
      <4>3. e = d + n
        BY <1>1, <3>1, <4>1, <4>2, SlotAtInjective
      <4> QED
        BY <1>1, <2>1, <4>3
    <3> QED
      BY <2>1, <2>2, <3>1, <3>2 DEF At
  <2>3. CASE ~(d + n < MaxCount)
    <3>1. d + n - MaxCount \in 0 .. n - 1 /\ SlotAt(g, d) = SlotAt(f, d + n - MaxCount)
      BY <1>1, <2>1, <2>3, SlotAtMoved
    <3>2. SlotAt(g, d) \in Oldest(f, n)
      BY <3>1 DEF Oldest
    <3> QED
      BY <2>1, <2>3, <3>2 DEF At, Blank
  <2> QED
    BY <2>2, <2>3
<1> QED
  BY <1>2 DEF MovedOn

(* The discarded slots of a list, and of a list with some slots cleared.   *)
DiscardedIn(f) == {p \in Slots : f.type[p] = DISCARDED}
Counted(f) == f.discarded_num = Cardinality(DiscardedIn(f))

(* The slots can be counted.                                               *)
LEMMA SlotsFinite ==
  IsFiniteSet(Slots) /\ \A S \in SUBSET Slots : IsFiniteSet(S) /\ Cardinality(S) \in Nat
<1>1. IsFiniteSet(Slots)
  BY FS_Interval, FrameListAssumption DEF Slots
<1> QED
  BY <1>1, FS_Subset, FS_CardinalityType

(* Slots that are cleared, and how many of them were discarded ones.       *)
LEMMA ClearedCounted ==
  ASSUME NEW f \in FrameLists, NEW g, NEW gone \in SUBSET Slots,
         \A p \in Slots : g.type[p] = IF p \in gone THEN MISSING ELSE f.type[p]
  PROVE  Cardinality(DiscardedIn(g)) =
           Cardinality(DiscardedIn(f)) - Cardinality({p \in gone : f.type[p] = DISCARDED})
<1> DEFINE S == {p \in gone : f.type[p] = DISCARDED}
<1>1. /\ S \subseteq DiscardedIn(f) /\ DiscardedIn(g) = DiscardedIn(f) \ S
  BY DEF DiscardedIn, MISSING, DISCARDED
<1>2. IsFiniteSet(DiscardedIn(f)) /\ Cardinality(DiscardedIn(f)) \in Nat
      /\ IsFiniteSet(S) /\ Cardinality(S) \in Nat
  <2>1. DiscardedIn(f) \in SUBSET Slots /\ S \in SUBSET Slots
    BY DEF DiscardedIn
  <2> HIDE DEF S
  <2> QED
    BY <2>1, SlotsFinite
<1> HIDE DEF S
<1>3. DiscardedIn(f) \cap S = S
  BY <1>1
<1>4. Cardinality(DiscardedIn(f) \ S) = Cardinality(DiscardedIn(f)) - Cardinality(DiscardedIn(f) \cap S)
  BY <1>2, FS_Difference
<1> QED
  BY <1>1, <1>3, <1>4 DEF S

(* jb_framelist_remove_head moves the list on and keeps its count.         *)
LEMMA RemoveHeadMoves ==
  ASSUME NEW f \in FrameLists, NEW count \in Nat
  PROVE  LET n == IF count > f.size THEN f.size ELSE count
             g == jb_framelist_remove_head(f, count)
         IN  n \in 0 .. f.size /\ MovedOn(f, g, n) /\ (Counted(f) => Counted(g))
<1> DEFINE n == IF count > f.size THEN f.size ELSE count
           gone == Oldest(f, n)
           discards == {p \in gone : f.type[p] = DISCARDED}
           g == jb_framelist_remove_head(f, count)
<1>1. n \in 0 .. f.size
  BY DEF FrameLists
<1>2. g \in FrameLists /\ g.size = f.size - n /\ g.origin = f.origin + n
  BY RemoveHeadType
<1>3. gone \subseteq Slots
  BY SlotAtType, <1>1 DEF FrameLists, Oldest
<1>4. /\ g.head = SlotAt(f, n)
      /\ g.discarded_num = f.discarded_num - Cardinality(discards)
      /\ \A p \in Slots : /\ g.type[p] = IF p \in gone THEN MISSING ELSE f.type[p]
                          /\ g.frame[p] = IF p \in gone THEN NoFrame ELSE f.frame[p]
  BY DEF jb_framelist_remove_head, Advance, SlotAt, FrameLists
<1>5. MovedOn(f, g, n)
  <2> HIDE DEF n, g
  <2> QED
    BY <1>1, <1>2, <1>4, ClearedMoves
<1>6. ASSUME Counted(f) PROVE Counted(g)
  <2>1. Cardinality(DiscardedIn(g)) = Cardinality(DiscardedIn(f)) - Cardinality(discards)
    <3>1. \A p \in Slots : g.type[p] = IF p \in gone THEN MISSING ELSE f.type[p]
      BY <1>4
    <3> HIDE DEF n, g, gone
    <3>2. gone \in SUBSET Slots
      BY <1>3
    <3> QED
      BY <3>1, <3>2, ClearedCounted, Zenon
  <2> QED
    BY <1>4, <1>6, <2>1 DEF Counted
<1> QED
  BY <1>1, <1>5, <1>6

(* A head that moves on twice.                                             *)
LEMMA MovedTwice ==
  ASSUME NEW f \in FrameLists, NEW n \in Nat, NEW m \in Nat, n + m <= f.size,
         NEW g, MovedOn(f, g, n), NEW h, MovedOn(g, h, m)
  PROVE  MovedOn(f, h, n + m)
<1>1. MaxCount \in Nat \ {0} /\ f.size \in 0 .. MaxCount /\ f.origin \in Int
  BY FrameListAssumption DEF FrameLists
<1>2. h \in FrameLists /\ h.size = f.size - (n + m) /\ h.origin = f.origin + (n + m)
  BY <1>1 DEF MovedOn
<1>3. ASSUME NEW d \in Distances
      PROVE  At(h, d) = IF d + (n + m) < MaxCount THEN At(f, d + (n + m)) ELSE Blank
  <2>1. At(h, d) = IF d + m < MaxCount THEN At(g, d + m) ELSE Blank
    BY DEF MovedOn
  <2>2. CASE d + m < MaxCount
    <3>1. d + m \in Distances
      BY <1>1, <2>2 DEF Distances
    <3>2. At(g, d + m) = IF (d + m) + n < MaxCount THEN At(f, (d + m) + n) ELSE Blank
      BY <3>1 DEF MovedOn
    <3>3. (d + m) + n = d + (n + m)
      BY DEF Distances
    <3> QED
      BY <2>1, <2>2, <3>2, <3>3
  <2>3. CASE ~(d + m < MaxCount)
    BY <1>1, <2>1, <2>3 DEF Distances
  <2> QED
    BY <2>2, <2>3
<1> QED
  BY <1>2, <1>3 DEF MovedOn

(* The slot taken by jb_framelist_get.                                     *)
LEMMA HeadTaken ==
  ASSUME NEW f \in FrameLists, f.size # 0
  PROVE  LET g == Advance([f EXCEPT !.type[f.head] = MISSING,
                                    !.frame[f.head] = NoFrame], 1)
         IN  /\ MovedOn(f, g, 1)
             /\ Counted(f) /\ f.type[f.head] # DISCARDED => Counted(g)
<1> DEFINE type == [f.type EXCEPT ![f.head] = MISSING]
           frame == [f.frame EXCEPT ![f.head] = NoFrame]
           f1 == [f EXCEPT !.type[f.head] = MISSING, !.frame[f.head] = NoFrame]
           g == Advance(f1, 1)
<1>1. MaxCount \in Nat \ {0} /\ f.size \in 0 .. MaxCount /\ f.origin \in Int
      /\ f.head \in Slots /\ f.discarded_num \in Int
  BY FrameListAssumption DEF FrameLists
<1>2. /\ type \in [Slots -> FrameTypes] /\ frame \in [Slots -> Int \cup {NoFrame}]
      /\ f1 = [f EXCEPT !.type = type, !.frame = frame]
  BY DEF FrameLists, FrameTypes
<1>3. \A p \in Slots : /\ type[p] = IF p = f.head THEN MISSING ELSE f.type[p]
                       /\ frame[p] = IF p = f.head THEN NoFrame ELSE f.frame[p]
  BY DEF FrameLists
<1> HIDE DEF type, frame, f1
<1>4. /\ f1 \in FrameLists /\ f1.head = f.head /\ f1.size = f.size
      /\ f1.origin = f.origin /\ f1.type = type /\ f1.frame = frame
      /\ f1.discarded_num = f.discarded_num
  BY <1>2 DEF FrameLists
<1>5. g \in FrameLists /\ g.size = f.size - 1 /\ g.origin = f.origin + 1
  <2>1. 1 \in 0 .. f1.size
    BY <1>1, <1>4
  <2> QED
    BY <1>4, <2>1, AdvanceType
<1>6. g.head = SlotAt(f1, 1) /\ g.type = type /\ g.frame = frame
      /\ g.discarded_num = f.discarded_num
  BY <1>4 DEF Advance, FrameLists
<1>7. SlotAt(f1, 1) = SlotAt(f, 1)
  BY <1>4 DEF SlotAt
<1>8. Oldest(f, 1) = {f.head}
  <2>1. SlotAt(f, 0) = f.head
    BY <1>1, SlotAtIs DEF Slots
  <2>2. 0 .. 1 - 1 = {0}
    OBVIOUS
  <2> QED
    BY <2>1, <2>2 DEF Oldest
<1> HIDE DEF g
<1>9. MovedOn(f, g, 1)
  <2>1. 1 \in 0 .. f.size
    BY <1>1
  <2>2. \A p \in Slots : /\ g.type[p] = IF p \in Oldest(f, 1) THEN MISSING ELSE f.type[p]
                         /\ g.frame[p] = IF p \in Oldest(f, 1) THEN NoFrame ELSE f.frame[p]
    BY <1>3, <1>6, <1>8
  <2> QED
    BY <1>5, <1>6, <1>7, <2>1, <2>2, ClearedMoves
<1>10. ASSUME Counted(f), f.type[f.head] # DISCARDED PROVE Counted(g)
  <2>1. DiscardedIn(g) = DiscardedIn(f)
    BY <1>3, <1>6, <1>10 DEF DiscardedIn, MISSING, DISCARDED
  <2> QED
    BY <1>6, <1>10, <2>1 DEF Counted
<1> QED
  BY <1>9, <1>10 DEF g, f1

(* What jb_framelist_get hands out, and the list it leaves.                *)
LEMMA GetMoves ==
  ASSUME NEW f \in FrameLists
  PROVE  LET got == jb_framelist_get(f)
             skip == LeadingDiscarded(f)
         IN  /\ MovedOn(f, got.fl, IF skip < f.size THEN skip + 1 ELSE skip)
             /\ Counted(f) => Counted(got.fl)
             /\ (got.res <=> skip < f.size)
             /\ got.res => /\ got.type = IF skip = 0 THEN At(f, 0).type ELSE MISSING
                           /\ got.frame = IF skip = 0 THEN At(f, 0).frame ELSE NoFrame
                           /\ got.seq = f.origin + skip
             /\ ~got.res => got.frame = NoFrame /\ got.seq = 0
<1> DEFINE skip == LeadingDiscarded(f)
           got == jb_framelist_get(f)
           f1 == jb_framelist_remove_head(f, skip)
           type == IF skip > 0 THEN MISSING ELSE f1.type[f1.head]
           f2 == Advance([f1 EXCEPT !.type[f1.head] = MISSING,
                                    !.frame[f1.head] = NoFrame], 1)
           Result == /\ MovedOn(f, got.fl, IF skip < f.size THEN skip + 1 ELSE skip)
                     /\ Counted(f) => Counted(got.fl)
                     /\ (got.res <=> skip < f.size)
                     /\ got.res => /\ got.type = IF skip = 0 THEN At(f, 0).type ELSE MISSING
                                   /\ got.frame = IF skip = 0 THEN At(f, 0).frame ELSE NoFrame
                                   /\ got.seq = f.origin + skip
                     /\ ~got.res => got.frame = NoFrame /\ got.seq = 0
<1>1. MaxCount \in Nat \ {0} /\ f.size \in 0 .. MaxCount /\ f.head \in Slots
  BY FrameListAssumption DEF FrameLists
<1>2. /\ skip \in 0 .. f.size /\ skip \in Nat
      /\ skip < f.size => At(f, skip).type # DISCARDED
  BY <1>1, LeadingDiscardedType DEF At
<1>3. got = IF f1.size = 0
            THEN [fl |-> f1, res |-> FALSE, type |-> MISSING, frame |-> NoFrame, seq |-> 0]
            ELSE [fl |-> f2, res |-> TRUE, type |-> type,
                  frame |-> IF skip > 0 THEN NoFrame ELSE f1.frame[f1.head],
                  seq |-> f1.origin]
  BY DEF jb_framelist_get
<1> HIDE DEF skip, got
<1>4. MovedOn(f, f1, skip) /\ (Counted(f) => Counted(f1))
  <2>1. (IF skip > f.size THEN f.size ELSE skip) = skip
    BY <1>1, <1>2
  <2> QED
    BY <1>2, <2>1, RemoveHeadMoves
<1> HIDE DEF f1
<1>5. f1 \in FrameLists /\ f1.size = f.size - skip /\ f1.origin = f.origin + skip
  BY <1>4 DEF MovedOn
<1>6. ASSUME skip = f.size PROVE Result
  <2>1. f1.size = 0
    BY <1>1, <1>5, <1>6
  <2>2. ~(skip < f.size)
    BY <1>1, <1>6
  <2>3. got.fl = f1 /\ got.res = FALSE /\ got.frame = NoFrame /\ got.seq = 0
    BY <1>3, <2>1
  <2>4. (IF skip < f.size THEN skip + 1 ELSE skip) = skip
    BY <2>2
  <2>5. MovedOn(f, got.fl, IF skip < f.size THEN skip + 1 ELSE skip)
    BY <1>4, <2>3, <2>4, Zenon
  <2>6. got.res <=> skip < f.size
    BY <2>2, <2>3
  <2> QED
    BY <1>4, <2>3, <2>5, <2>6
<1>7. ASSUME skip < f.size PROVE Result
  <2>1. f1.size # 0
    BY <1>1, <1>2, <1>5, <1>7
  <2>2. At(f1, 0) = At(f, skip) /\ SlotAt(f1, 0) = f1.head
    <3>1. 0 \in Distances /\ 0 + skip < MaxCount /\ 0 + skip = skip /\ 0 \in 0 .. MaxCount
      BY <1>1, <1>2, <1>7 DEF Distances
    <3>2. At(f1, 0) = At(f, skip)
      BY <1>4, <3>1 DEF MovedOn
    <3>3. f1.head \in 0 .. MaxCount - 1
      BY <1>5 DEF FrameLists, Slots
    <3>4. SlotAt(f1, 0) = IF f1.head + 0 < MaxCount THEN f1.head + 0 ELSE f1.head + 0 - MaxCount
      BY <3>1, <1>5, SlotAtIs DEF FrameLists
    <3> QED
      BY <1>1, <3>2, <3>3, <3>4
  <2>3. f1.type[f1.head] = At(f, skip).type /\ f1.frame[f1.head] = At(f, skip).frame
    BY <2>2 DEF At
  <2>4. MovedOn(f1, f2, 1) /\ (Counted(f1) => Counted(f2))
    BY <1>2, <1>5, <1>7, <2>1, <2>3, HeadTaken
  <2> HIDE DEF f2
  <2>5. MovedOn(f, f2, skip + 1)
    <3>1. skip + 1 <= f.size /\ 1 \in Nat
      BY <1>1, <1>2, <1>7
    <3> QED
      BY <1>2, <1>4, <2>4, <3>1, MovedTwice
  <2>6. got.fl = f2 /\ got.res = TRUE /\ got.seq = f.origin + skip
    BY <1>3, <1>5, <2>1
  <2>7. /\ got.type = IF skip = 0 THEN At(f, 0).type ELSE MISSING
        /\ got.frame = IF skip = 0 THEN At(f, 0).frame ELSE NoFrame
    BY <1>2, <1>3, <2>1, <2>3
  <2> QED
    BY <1>4, <1>7, <2>4, <2>5, <2>6, <2>7
<1>8. skip = f.size \/ skip < f.size
  BY <1>1, <1>2
<1> QED
  BY <1>6, <1>7, <1>8 DEF skip, got

-----------------------------------------------------------------------------
(* A sound list: nothing outside the window, no frame in a missing slot,   *)
(* every frame of the window at its place or MAX_MISORDER and more above.  *)
Clean(f) == \A d \in Distances : d >= f.size => At(f, d) = Blank
InPlace(f) ==
  \A d \in Distances :
    LET frame == At(f, d).frame
    IN  frame # NoFrame => frame = f.origin + d \/ frame >= f.origin + d + MAX_MISORDER
Emptied(f) == \A d \in Distances : At(f, d).type = MISSING => At(f, d) = Blank
Sound(f) == f \in FrameLists /\ Clean(f) /\ InPlace(f) /\ Emptied(f)

(* No place past ref is discarded.                                         *)
Behind(f, ref) == \A d \in Distances : At(f, d).type = DISCARDED => f.origin + d <= ref

(* What every operation on a sound list f must give for the list g it      *)
(* leaves: a sound list, a right count, and no discarded place further on. *)
Carries(f, g) ==
  /\ Sound(g) /\ (Counted(f) => Counted(g))
  /\ \A ref \in Int : Behind(f, ref) => Behind(g, ref)

(* Carrying over composes.                                                 *)
LEMMA CarriesOver ==
  ASSUME NEW f, NEW g, NEW h, Carries(f, g), Carries(g, h)
  PROVE  Carries(f, h)
  BY DEF Carries

(* A list carries over to itself.                                          *)
LEMMA CarriesSelf ==
  ASSUME NEW f, Sound(f)
  PROVE  Carries(f, f)
  BY DEF Carries

(* The contents of a place.                                                *)
LEMMA AtType ==
  ASSUME NEW f \in FrameLists, NEW d \in Distances
  PROVE  At(f, d) \in [type : FrameTypes, frame : Int \cup {NoFrame}]
<1>1. SlotAt(f, d) \in Slots
  BY SlotAtType DEF FrameLists, Distances
<1> QED
  BY <1>1 DEF At, FrameLists

(* A head that moves on carries the rest of the list over.                 *)
LEMMA MovedCarries ==
  ASSUME NEW f, Sound(f), NEW n \in 0 .. f.size, NEW g, MovedOn(f, g, n),
         Counted(f) => Counted(g)
  PROVE  Carries(f, g)
<1>1. MaxCount \in Nat \ {0} /\ f.size \in 0 .. MaxCount /\ f.origin \in Int
      /\ f \in FrameLists /\ n \in Nat
  BY FrameListAssumption DEF Sound, FrameLists
<1>2. g \in FrameLists /\ g.size = f.size - n /\ g.origin = f.origin + n
  BY DEF MovedOn
<1>3. ASSUME NEW d \in Distances
      PROVE  \/ At(g, d) = Blank
             \/ d + n \in Distances /\ At(g, d) = At(f, d + n)
  BY <1>1 DEF MovedOn, Distances
<1>4. Clean(g)
  <2>1. SUFFICES ASSUME NEW d \in Distances, d >= g.size PROVE At(g, d) = Blank
    BY DEF Clean
  <2>2. d + n \in Distances => At(f, d + n) = Blank
    BY <1>1, <1>2, <2>1 DEF Sound, Clean, Distances
  <2> QED
    BY <1>3, <2>2
<1>5. InPlace(g)
  <2>1. SUFFICES ASSUME NEW d \in Distances, At(g, d).frame # NoFrame
                 PROVE  \/ At(g, d).frame = g.origin + d
                        \/ At(g, d).frame >= g.origin + d + MAX_MISORDER
    BY DEF InPlace
  <2>2. d + n \in Distances /\ At(g, d) = At(f, d + n)
    BY <1>3, <2>1 DEF Blank
  <2>3. \/ At(g, d).frame = f.origin + (d + n)
        \/ At(g, d).frame >= f.origin + (d + n) + MAX_MISORDER
    BY <2>1, <2>2 DEF Sound, InPlace
  <2>4. f.origin + (d + n) = g.origin + d
    BY <1>1, <1>2 DEF Distances
  <2> QED
    BY <2>3, <2>4
<1>6. ASSUME NEW ref \in Int, Behind(f, ref) PROVE Behind(g, ref)
  <2>1. SUFFICES ASSUME NEW d \in Distances, At(g, d).type = DISCARDED
                 PROVE  g.origin + d <= ref
    BY DEF Behind
  <2>2. d + n \in Distances /\ At(g, d) = At(f, d + n)
    BY <1>3, <2>1 DEF Blank, MISSING, DISCARDED
  <2>3. f.origin + (d + n) <= ref
    BY <1>6, <2>1, <2>2 DEF Behind
  <2> QED
    BY <1>1, <1>2, <2>3 DEF Distances
<1>7. Emptied(g)
  BY <1>3 DEF Sound, Emptied
<1> QED
  BY <1>2, <1>4, <1>5, <1>6, <1>7 DEF Carries, Sound

(* jb_framelist_remove_head.                                               *)
LEMMA RemoveHeadCarries ==
  ASSUME NEW f, Sound(f), NEW count \in Nat
  PROVE  Carries(f, jb_framelist_remove_head(f, count))
<1>1. f \in FrameLists
  BY DEF Sound
<1> QED
  BY <1>1, RemoveHeadMoves, MovedCarries

(* jb_framelist_get.                                                       *)
LEMMA GetCarries ==
  ASSUME NEW f, Sound(f)
  PROVE  Carries(f, jb_framelist_get(f).fl)
<1> DEFINE skip == LeadingDiscarded(f)
           n == IF skip < f.size THEN skip + 1 ELSE skip
<1>1. f \in FrameLists /\ f.size \in Nat
  BY FrameListAssumption DEF Sound, FrameLists
<1>2. skip \in 0 .. f.size
  BY <1>1, LeadingDiscardedType
<1>3. n \in 0 .. f.size
  BY <1>1, <1>2
<1>4. MovedOn(f, jb_framelist_get(f).fl, n) /\ (Counted(f) => Counted(jb_framelist_get(f).fl))
  BY <1>1, GetMoves
<1> HIDE DEF n
<1> QED
  BY <1>3, <1>4, MovedCarries

(* Lists without frames.                                                   *)
LEMMA EmptyIsSound ==
  ASSUME NEW f \in FrameLists, \A d \in Distances : At(f, d) = Blank,
         f.discarded_num = 0
  PROVE  Sound(f) /\ Counted(f) /\ \A ref \in Int : Behind(f, ref)
<1>1. Sound(f)
  BY DEF Sound, Clean, InPlace, Emptied, Blank
<1>2. \A ref \in Int : Behind(f, ref)
  BY DEF Behind, Blank, MISSING, DISCARDED
<1>3. DiscardedIn(f) = {}
  <2>1. SUFFICES ASSUME NEW p \in Slots, f.type[p] = DISCARDED PROVE FALSE
    BY DEF DiscardedIn
  <2>2. PICK d \in Distances : SlotAt(f, d) = p
    BY SlotAtOnto DEF FrameLists
  <2> QED
    BY <2>1, <2>2 DEF At, Blank, MISSING, DISCARDED
<1>4. Counted(f)
  BY <1>3, FS_EmptySet DEF Counted
<1> QED
  BY <1>1, <1>2, <1>4

(* The empty list after a jump of the numbering.                           *)
LEMMA FarJumpSound ==
  ASSUME NEW index \in Int
  PROVE  /\ FarJump(index) \in FrameLists /\ FarJump(index).size = 0
         /\ FarJump(index).origin = index /\ FarJump(index).discarded_num = 0
         /\ \A d \in Distances : At(FarJump(index), d) = Blank
<1>1. FarJump(index) \in FrameLists /\ FarJump(index).size = 0 /\ FarJump(index).origin = index
  BY FarJumpType
<1>2. /\ FarJump(index).type = [p \in Slots |-> MISSING]
      /\ FarJump(index).frame = [p \in Slots |-> NoFrame]
      /\ FarJump(index).discarded_num = 0
  BY DEF FarJump, jb_framelist_reset
<1>3. ASSUME NEW d \in Distances PROVE SlotAt(FarJump(index), d) \in Slots
  BY <1>1, SlotAtType DEF FrameLists, Distances
<1> QED
  BY <1>1, <1>2, <1>3 DEF At, Blank

(* The empty list of jb_framelist_reset.                                   *)
LEMMA ResetSound ==
  /\ jb_framelist_reset \in FrameLists
  /\ jb_framelist_reset.size = 0 /\ jb_framelist_reset.discarded_num = 0
  /\ jb_framelist_reset.origin = INVALID_OFFSET
  /\ \A d \in Distances : At(jb_framelist_reset, d) = Blank
<1>1. /\ jb_framelist_reset.type = [p \in Slots |-> MISSING]
      /\ jb_framelist_reset.frame = [p \in Slots |-> NoFrame]
      /\ jb_framelist_reset.discarded_num = 0 /\ jb_framelist_reset.size = 0
      /\ jb_framelist_reset.origin = INVALID_OFFSET
  BY DEF jb_framelist_reset
<1>2. ASSUME NEW d \in Distances PROVE SlotAt(jb_framelist_reset, d) \in Slots
  BY ResetType, SlotAtType DEF FrameLists, Distances
<1> QED
  BY <1>1, <1>2, ResetType DEF At, Blank

(* The numbering that jb_framelist_put_at settles on: the one there is, a  *)
(* window moved up against a frame whose number wrapped, or an empty list  *)
(* that starts at the frame.                                               *)
Rebased(f, g, index) ==
  /\ g \in FrameLists /\ g.size = f.size /\ g.origin = index - f.size
  /\ \A d \in Distances : At(g, d) = At(f, d)
  /\ g.discarded_num = f.discarded_num /\ DiscardedIn(g) = DiscardedIn(f)

(* A change of origin alone rebases the list.                              *)
LEMMA RebasedTo ==
  ASSUME NEW f \in FrameLists, NEW index \in Int
  PROVE  Rebased(f, [f EXCEPT !.origin = index - f.size], index)
<1> DEFINE origin == index - f.size
<1>1. origin \in Int
  BY DEF FrameLists
<1> HIDE DEF origin
<1> DEFINE g == [f EXCEPT !.origin = origin]
<1>2. /\ g \in FrameLists /\ g.size = f.size /\ g.origin = origin /\ g.head = f.head
      /\ g.type = f.type /\ g.frame = f.frame /\ g.discarded_num = f.discarded_num
  BY <1>1 DEF FrameLists
<1> HIDE DEF g
<1>3. \A d \in Distances : At(g, d) = At(f, d)
  BY <1>2 DEF At, SlotAt
<1>4. DiscardedIn(g) = DiscardedIn(f)
  BY <1>2 DEF DiscardedIn
<1> QED
  BY <1>2, <1>3, <1>4 DEF Rebased, g, origin

(* The ways through the beginning of jb_framelist_put_at: the frame lies   *)
(* ahead, the numbering wrapped or restarts, or the list is empty.         *)
LEMMA RenumberCases ==
  ASSUME NEW f, Sound(f), NEW index \in Int
  PROVE  LET g == Renumber(f, index)
         IN  \/ f.size # 0 /\ index >= f.origin /\ g = f
             \/ f.size # 0 /\ index < f.origin /\ AtWrap(f) /\ Rebased(f, g, index)
             \/ f.size # 0 /\ index < f.origin /\ ~AtWrap(f) /\ g = FarJump(index)
             \/ f.size = 0 /\ (g = FarJump(index) \/ Rebased(f, g, index))
<1>1. /\ f \in FrameLists /\ f.origin \in Int /\ f.size \in Nat
      /\ MaxCount \in Nat \ {0}
  BY FrameListAssumption DEF Sound, FrameLists
<1> DEFINE shifted == [f EXCEPT !.origin = index - f.size]
           moved == IF index >= f.origin THEN f
                    ELSE IF AtWrap(f) THEN shifted ELSE FarJump(index)
           g == Renumber(f, index)
           Result ==
             \/ f.size # 0 /\ index >= f.origin /\ g = f
             \/ f.size # 0 /\ index < f.origin /\ AtWrap(f) /\ Rebased(f, g, index)
             \/ f.size # 0 /\ index < f.origin /\ ~AtWrap(f) /\ g = FarJump(index)
             \/ f.size = 0 /\ (g = FarJump(index) \/ Rebased(f, g, index))
<1>2. g = IF moved.size = 0 THEN [moved EXCEPT !.origin = index] ELSE moved
  BY DEF Renumber
<1>3. shifted.size = f.size /\ Rebased(f, shifted, index)
  BY <1>1, RebasedTo DEF Rebased
<1>4. /\ FarJump(index).size = 0
      /\ [FarJump(index) EXCEPT !.origin = index] = FarJump(index)
  BY DEF FarJump, jb_framelist_reset
<1>5. f.size = 0 => /\ [f EXCEPT !.origin = index] = shifted
                    /\ [shifted EXCEPT !.origin = index] = shifted
  <2>1. f.size = 0 => index - f.size = index
    OBVIOUS
  <2>2. [[f EXCEPT !.origin = index] EXCEPT !.origin = index] = [f EXCEPT !.origin = index]
    BY <1>1 DEF FrameLists
  <2> QED
    BY <2>1, <2>2
<1> HIDE DEF shifted, g
<1>6. ASSUME index >= f.origin PROVE Result
  BY <1>2, <1>3, <1>5, <1>6
<1>7. ASSUME index < f.origin, AtWrap(f) PROVE Result
  BY <1>1, <1>2, <1>3, <1>5, <1>7
<1>8. ASSUME index < f.origin, ~AtWrap(f) PROVE Result
  BY <1>1, <1>2, <1>4, <1>8
<1> QED
  BY <1>1, <1>6, <1>7, <1>8 DEF g

(* Frames of a list renumbered downwards lie at least MAX_MISORDER beyond  *)
(* their new numbers.                                                      *)
LEMMA RebasedCarries ==
  ASSUME NEW f, Sound(f), NEW index \in Int, NEW g, Rebased(f, g, index),
         f.size = 0 \/ index <= f.origin - MAX_MISORDER
  PROVE  Carries(f, g)
<1>1. /\ f \in FrameLists /\ f.origin \in Int /\ f.size \in Nat
      /\ MaxCount \in Nat \ {0} /\ MAX_MISORDER \in Nat \ {0}
      /\ \A d \in Distances : d \in Nat
      /\ g.size = f.size /\ g.origin = index - f.size /\ g \in FrameLists
      /\ \A d \in Distances : At(g, d) = At(f, d)
  BY FrameListAssumption DEF Sound, FrameLists, Distances, Rebased
<1>2. Clean(g)
  BY <1>1 DEF Sound, Clean
<1>3. InPlace(g)
  <2>1. SUFFICES ASSUME NEW d \in Distances, At(g, d).frame # NoFrame
                 PROVE  At(g, d).frame >= g.origin + d + MAX_MISORDER
    BY DEF InPlace
  <2>2. \/ At(f, d).frame = f.origin + d
        \/ At(f, d).frame >= f.origin + d + MAX_MISORDER
    BY <1>1, <2>1 DEF Sound, InPlace
  <2>3. d < f.size
    BY <1>1, <2>1 DEF Sound, Clean, Blank
  <2>4. At(f, d).frame \in Int
    BY <1>1, <2>1, AtType
  <2> QED
    BY <1>1, <2>2, <2>3, <2>4
<1>4. ASSUME NEW ref \in Int, Behind(f, ref) PROVE Behind(g, ref)
  <2>1. SUFFICES ASSUME NEW d \in Distances, At(g, d).type = DISCARDED
                 PROVE  g.origin + d <= ref
    BY DEF Behind
  <2>2. f.origin + d <= ref
    BY <1>1, <1>4, <2>1 DEF Behind
  <2>3. d < f.size
    BY <1>1, <2>1 DEF Sound, Clean, Blank, MISSING, DISCARDED
  <2> QED
    BY <1>1, <2>2, <2>3
<1>5. Counted(f) => Counted(g)
  BY DEF Counted, Rebased
<1>6. Emptied(g)
  BY <1>1 DEF Sound, Emptied
<1> QED
  BY <1>1, <1>2, <1>3, <1>4, <1>5, <1>6 DEF Carries, Sound

(* A list without frames carries anything over.                            *)
LEMMA EmptyCarries ==
  ASSUME NEW f, NEW g \in FrameLists, \A d \in Distances : At(g, d) = Blank,
         g.discarded_num = 0
  PROVE  Carries(f, g)
  BY EmptyIsSound DEF Carries

(* The beginning of jb_framelist_put_at carries the list over.             *)
LEMMA RenumberCarries ==
  ASSUME NEW f, Sound(f), NEW index \in Int, ~IsLate(f, index)
  PROVE  Carries(f, Renumber(f, index))
<1>1. f.size = 0 \/ index >= f.origin \/ index <= f.origin - MAX_MISORDER
  BY FrameListAssumption DEF IsLate, Sound, FrameLists
<1>2. Carries(f, f)
  BY CarriesSelf
<1>3. Carries(f, FarJump(index))
  BY FarJumpSound, EmptyCarries
<1>4. f.origin \in Int
  BY DEF Sound, FrameLists
<1> DEFINE g == Renumber(f, index)
<1>5. \/ f.size # 0 /\ index >= f.origin /\ g = f
      \/ f.size # 0 /\ index < f.origin /\ AtWrap(f) /\ Rebased(f, g, index)
      \/ f.size # 0 /\ index < f.origin /\ ~AtWrap(f) /\ g = FarJump(index)
      \/ f.size = 0 /\ (g = FarJump(index) \/ Rebased(f, g, index))
  BY RenumberCases
<1> SUFFICES Carries(f, g)
  OBVIOUS
<1> HIDE DEF g
<1>6. CASE g = f
  BY <1>2, <1>6
<1>7. CASE g = FarJump(index)
  BY <1>3, <1>7
<1>8. CASE f.size = 0 /\ Rebased(f, g, index)
  BY <1>8, RebasedCarries
<1>9. CASE f.size # 0 /\ index < f.origin /\ Rebased(f, g, index)
  BY <1>1, <1>4, <1>9, RebasedCarries
<1> QED
  BY <1>5, <1>6, <1>7, <1>8, <1>9

-----------------------------------------------------------------------------
(* g is f with the frame index stored at the distance dist.                *)
StoredIn(f, g, index, dist) ==
  /\ g \in FrameLists /\ g.origin = f.origin
  /\ g.size = IF f.size <= dist THEN dist + 1 ELSE f.size
  /\ \A d \in Distances :
       At(g, d) = IF d = dist THEN [type |-> NORMAL, frame |-> index] ELSE At(f, d)

(* A frame inside the capacity finds its slot taken or is stored in it.    *)
LEMMA StoreAtCases ==
  ASSUME NEW f \in FrameLists, NEW index \in Int,
         f.origin <= index, index - f.origin < MaxCount
  PROVE  LET dist == index - f.origin
             put == StoreAt(f, index)
         IN  /\ dist \in Distances
             /\ \/ /\ At(f, dist).type # MISSING
                   /\ put.fl = f /\ put.status = EEXISTS
                \/ /\ At(f, dist).type = MISSING
                   /\ put.status = SUCCESS /\ StoredIn(f, put.fl, index, dist)
                   /\ Counted(f) => Counted(put.fl)
<1> DEFINE dist == index - f.origin
           put == StoreAt(f, index)
           pos == SlotAt(f, dist)
           type == [f.type EXCEPT ![pos] = NORMAL]
           frame == [f.frame EXCEPT ![pos] = index]
           size == IF f.origin + f.size <= index THEN dist + 1 ELSE f.size
           g == [f EXCEPT !.type = type, !.frame = frame, !.size = size]
           Result == /\ dist \in Distances
                     /\ \/ /\ At(f, dist).type # MISSING
                           /\ put.fl = f /\ put.status = EEXISTS
                        \/ /\ At(f, dist).type = MISSING
                           /\ put.status = SUCCESS /\ StoredIn(f, put.fl, index, dist)
                           /\ Counted(f) => Counted(put.fl)
<1>1. /\ f.origin \in Int /\ f.size \in 0 .. MaxCount /\ f.head \in Slots
      /\ MaxCount \in Nat \ {0}
  BY FrameListAssumption DEF FrameLists
<1>2. dist \in Distances /\ dist \in Nat
  BY <1>1 DEF Distances
<1>3. pos \in Slots
  BY <1>1, <1>2, SlotAtType
<1>4. /\ type \in [Slots -> FrameTypes] /\ frame \in [Slots -> Int \cup {NoFrame}]
      /\ \A p \in Slots : /\ type[p] = IF p = pos THEN NORMAL ELSE f.type[p]
                          /\ frame[p] = IF p = pos THEN index ELSE f.frame[p]
  BY <1>3 DEF FrameLists, FrameTypes
<1>5. size \in 0 .. MaxCount /\ size = IF f.size <= dist THEN dist + 1 ELSE f.size
  BY <1>1
<1>6. put = IF f.type[pos] # MISSING THEN [fl |-> f, status |-> EEXISTS]
            ELSE [fl |-> g, status |-> SUCCESS]
  BY DEF StoreAt
<1>7. At(f, dist).type = f.type[pos]
  BY DEF At
<1> HIDE DEF type, frame, size, put
<1>8. /\ g \in FrameLists /\ g.origin = f.origin /\ g.size = size /\ g.head = f.head
      /\ g.type = type /\ g.frame = frame /\ g.discarded_num = f.discarded_num
  BY <1>4, <1>5 DEF FrameLists
<1> HIDE DEF g
<1>9. ASSUME NEW d \in Distances
      PROVE  At(g, d) = IF d = dist THEN [type |-> NORMAL, frame |-> index] ELSE At(f, d)
  <2>1. SlotAt(g, d) = SlotAt(f, d) /\ SlotAt(f, d) \in Slots
    BY <1>1, <1>8, SlotAtType DEF SlotAt, Distances
  <2>2. CASE d = dist
    BY <1>3, <1>4, <1>8, <2>1, <2>2 DEF At
  <2>3. CASE d # dist
    <3>1. SlotAt(f, d) # pos
      BY <1>1, <1>2, <2>3, SlotAtInjective
    <3> QED
      BY <1>4, <1>8, <2>1, <2>3, <3>1 DEF At
  <2> QED
    BY <2>2, <2>3
<1>10. StoredIn(f, g, index, dist)
  BY <1>5, <1>8, <1>9 DEF StoredIn
<1>11. ASSUME f.type[pos] = MISSING, Counted(f) PROVE Counted(g)
  <2>1. DiscardedIn(g) = DiscardedIn(f)
    BY <1>3, <1>4, <1>8, <1>11 DEF DiscardedIn, MISSING, DISCARDED, NORMAL
  <2> QED
    BY <1>8, <1>11, <2>1 DEF Counted
<1>12. CASE f.type[pos] # MISSING
  <2>1. put.fl = f /\ put.status = EEXISTS
    BY <1>6, <1>12
  <2>2. Result
    BY <1>2, <1>7, <1>12, <2>1
  <2> QED
    BY <2>2 DEF put
<1>13. CASE f.type[pos] = MISSING
  <2>1. put.fl = g /\ put.status = SUCCESS
    BY <1>6, <1>13
  <2>2. Result
    BY <1>2, <1>7, <1>10, <1>11, <1>13, <2>1
  <2> QED
    BY <2>2 DEF put
<1> QED
  BY <1>12, <1>13

(* A stored frame extends the window to its place, and everything else     *)
(* stays.                                                                  *)
LEMMA StoredCarries ==
  ASSUME NEW f, Sound(f), NEW index \in Int, NEW dist \in Distances,
         index = f.origin + dist, NEW g, StoredIn(f, g, index, dist),
         Counted(f) => Counted(g)
  PROVE  Carries(f, g)
<1>1. /\ f \in FrameLists /\ f.origin \in Int /\ f.size \in Nat
      /\ MaxCount \in Nat \ {0} /\ dist \in Nat
      /\ g \in FrameLists /\ g.origin = f.origin
      /\ g.size = IF f.size <= dist THEN dist + 1 ELSE f.size
      /\ \A d \in Distances :
           d \in Nat /\ At(g, d) = IF d = dist THEN [type |-> NORMAL, frame |-> index]
                                   ELSE At(f, d)
  BY FrameListAssumption DEF Sound, FrameLists, Distances, StoredIn
<1>2. Clean(g)
  BY <1>1 DEF Sound, Clean
<1>3. InPlace(g)
  BY <1>1 DEF Sound, InPlace
<1>4. \A ref \in Int : Behind(f, ref) => Behind(g, ref)
  BY <1>1 DEF Behind, NORMAL, DISCARDED
<1>5. Emptied(g)
  BY <1>1 DEF Sound, Emptied, NORMAL, MISSING
<1> QED
  BY <1>1, <1>2, <1>3, <1>4, <1>5 DEF Carries, Sound

(* The end of jb_framelist_put_at carries the list over.                   *)
LEMMA StoreAtCarries ==
  ASSUME NEW f, Sound(f), NEW index \in Int,
         f.origin <= index, index - f.origin < MaxCount
  PROVE  Carries(f, StoreAt(f, index).fl)
<1> DEFINE dist == index - f.origin
           put == StoreAt(f, index)
<1>1. f \in FrameLists /\ f.origin \in Int /\ index = f.origin + dist
  BY DEF Sound, FrameLists
<1>2. /\ dist \in Distances
      /\ \/ put.fl = f
         \/ StoredIn(f, put.fl, index, dist) /\ (Counted(f) => Counted(put.fl))
  BY <1>1, StoreAtCases
<1> HIDE DEF put, dist
<1> QED
  BY <1>1, <1>2, CarriesSelf, StoredCarries DEF put

(* jb_framelist_put_at.                                                    *)
LEMMA PutAtCarries ==
  ASSUME NEW f, Sound(f), NEW index \in Int
  PROVE  Carries(f, jb_framelist_put_at(f, index).fl)
<1> DEFINE f1 == Renumber(f, index)
           put == jb_framelist_put_at(f, index)
<1>1. f \in FrameLists
  BY DEF Sound
<1>2. CASE IsLate(f, index)
  BY <1>2, CarriesSelf DEF jb_framelist_put_at
<1>3. CASE ~IsLate(f, index)
  <2>1. Carries(f, f1) /\ f1.origin <= index
    BY <1>1, <1>3, RenumberCarries, RenumberType
  <2>2. Sound(f1) /\ f1.origin \in Int
    BY <2>1 DEF Carries, Sound, FrameLists
  <2>3. put.fl \in {StoreAt(f1, index).fl, StoreAt(FarJump(index), index).fl, f1}
        /\ ((put.fl = StoreAt(f1, index).fl /\ index - f1.origin < MaxCount)
              \/ put.fl = StoreAt(FarJump(index), index).fl \/ put.fl = f1)
    BY <1>3 DEF jb_framelist_put_at
  <2> HIDE DEF put, f1
  <2>4. Carries(f, FarJump(index)) /\ Sound(FarJump(index))
    BY FarJumpSound, EmptyCarries DEF Carries
  <2>5. Carries(FarJump(index), StoreAt(FarJump(index), index).fl)
    <3>1. FarJump(index).origin = index /\ index - index < MaxCount
      BY FarJumpSound, FrameListAssumption
    <3> QED
      BY <2>4, <3>1, StoreAtCarries
  <2>6. index - f1.origin < MaxCount => Carries(f1, StoreAt(f1, index).fl)
    BY <2>1, <2>2, StoreAtCarries
  <2>7. Carries(f, put.fl)
    BY <2>1, <2>3, <2>4, <2>5, <2>6, CarriesOver
  <2> QED
    BY <2>7 DEF put
<1> QED
  BY <1>2, <1>3

(* The two tries of pjmedia_jbuf_put_frame3.                               *)
LEMMA TryPutCarries ==
  ASSUME NEW f, Sound(f), NEW frame_seq \in Int
  PROVE  Carries(f, TryPut(f, frame_seq).fl)
<1> DEFINE first == jb_framelist_put_at(f, frame_seq)
           room == MakeRoom(first.fl, frame_seq)
           second == jb_framelist_put_at(room, frame_seq)
<1>1. Carries(f, first.fl) /\ Sound(first.fl) /\ first.fl \in FrameLists
  BY PutAtCarries DEF Carries, Sound
<1>2. first.status = ETOOMANY => frame_seq - first.fl.origin >= MaxCount
  BY PutAtType DEF Sound
<1>3. TryPut(f, frame_seq) = IF first.status = ETOOMANY THEN second ELSE first
  BY DEF TryPut
<1> HIDE DEF first
<1>4. CASE first.status = ETOOMANY
  <2>1. frame_seq - first.fl.origin - MaxCount + 1 \in Nat
    BY <1>1, <1>2, <1>4, FrameListAssumption DEF FrameLists
  <2>2. Carries(first.fl, room) /\ Sound(room)
    BY <1>1, <2>1, RemoveHeadCarries DEF MakeRoom, Carries
  <2> HIDE DEF room
  <2>3. Carries(room, second.fl)
    BY <2>2, PutAtCarries
  <2> HIDE DEF second
  <2> QED
    BY <1>1, <1>3, <1>4, <2>2, <2>3, CarriesOver
<1>5. CASE first.status # ETOOMANY
  BY <1>1, <1>3, <1>5
<1> QED
  BY <1>4, <1>5

-----------------------------------------------------------------------------
(* g is f with the place dist discarded once more.                         *)
DiscardedAt(f, g, dist) ==
  /\ g \in FrameLists /\ g.origin = f.origin /\ g.size = f.size
  /\ \A d \in Distances :
       At(g, d) = IF d = dist THEN [At(f, d) EXCEPT !.type = DISCARDED] ELSE At(f, d)

(* jb_framelist_discard leaves the list alone or marks the slot of one     *)
(* frame.                                                                  *)
LEMMA DiscardCases ==
  ASSUME NEW f \in FrameLists, NEW index \in Int
  PROVE  LET g == jb_framelist_discard(f, index)
             dist == index - f.origin
         IN  \/ g = f /\ (index < f.origin \/ index >= f.origin + f.size)
             \/ /\ dist \in 0 .. f.size - 1 /\ dist \in Distances
                /\ DiscardedAt(f, g, dist)
                /\ Counted(f) /\ At(f, dist).type # DISCARDED => Counted(g)
<1> DEFINE g == jb_framelist_discard(f, index)
           dist == index - f.origin
           pos == SlotAt(f, dist)
           num == f.discarded_num + 1
           type == [f.type EXCEPT ![pos] = DISCARDED]
           Result == \/ g = f /\ (index < f.origin \/ index >= f.origin + f.size)
                     \/ /\ dist \in 0 .. f.size - 1 /\ dist \in Distances
                        /\ DiscardedAt(f, g, dist)
                        /\ Counted(f) /\ At(f, dist).type # DISCARDED => Counted(g)
<1>1. /\ f.origin \in Int /\ f.size \in 0 .. MaxCount /\ f.head \in Slots
      /\ f.discarded_num \in Int /\ MaxCount \in Nat \ {0}
  BY FrameListAssumption DEF FrameLists
<1>2. CASE index < f.origin \/ index >= f.origin + f.size
  BY <1>2 DEF jb_framelist_discard
<1>3. CASE ~(index < f.origin \/ index >= f.origin + f.size)
  <2>1. dist \in 0 .. f.size - 1 /\ dist \in Distances
    BY <1>1, <1>3 DEF Distances
  <2>2. pos \in Slots /\ num \in Int
    BY <1>1, <2>1, SlotAtType
  <2>3. /\ type \in [Slots -> FrameTypes]
        /\ \A p \in Slots : type[p] = IF p = pos THEN DISCARDED ELSE f.type[p]
    BY <2>2 DEF FrameLists, FrameTypes
  <2>4. g = [f EXCEPT !.type = type, !.discarded_num = num]
    BY <1>3 DEF jb_framelist_discard
  <2>5. At(f, dist).type = f.type[pos]
    BY DEF At
  <2> HIDE DEF type, num, g
  <2>6. /\ g \in FrameLists /\ g.origin = f.origin /\ g.size = f.size /\ g.head = f.head
        /\ g.type = type /\ g.frame = f.frame /\ g.discarded_num = num
    BY <2>2, <2>3, <2>4 DEF FrameLists
  <2>7. ASSUME NEW d \in Distances
        PROVE  At(g, d) = IF d = dist THEN [At(f, d) EXCEPT !.type = DISCARDED] ELSE At(f, d)
    <3>1. SlotAt(g, d) = SlotAt(f, d) /\ SlotAt(f, d) \in Slots
      BY <1>1, <2>6, SlotAtType DEF SlotAt, Distances
    <3>2. CASE d = dist
      BY <2>2, <2>3, <2>6, <3>1, <3>2 DEF At
    <3>3. CASE d # dist
      <4>1. SlotAt(f, d) # pos
        BY <1>1, <2>1, <3>3, SlotAtInjective
      <4> QED
        BY <2>3, <2>6, <3>1, <3>3, <4>1 DEF At
    <3> QED
      BY <3>2, <3>3
  <2>8. DiscardedAt(f, g, dist)
    BY <2>6, <2>7 DEF DiscardedAt
  <2>9. ASSUME Counted(f), f.type[pos] # DISCARDED PROVE Counted(g)
    <3>1. DiscardedIn(g) = DiscardedIn(f) \cup {pos} /\ pos \notin DiscardedIn(f)
      BY <2>2, <2>3, <2>6, <2>9 DEF DiscardedIn
    <3>2. DiscardedIn(f) \in SUBSET Slots
      BY DEF DiscardedIn
    <3>3. Cardinality(DiscardedIn(g)) = Cardinality(DiscardedIn(f)) + 1
      BY <3>1, <3>2, SlotsFinite, FS_AddElement
    <3> QED
      BY <2>6, <2>9, <3>3 DEF Counted, num
  <2>10. Result
    BY <2>1, <2>5, <2>8, <2>9
  <2> QED
    BY <2>10 DEF g
<1> QED
  BY <1>2, <1>3

(* Discarding keeps a list sound; beyond every discarded place, it counts. *)
LEMMA DiscardSound ==
  ASSUME NEW f, Sound(f), NEW index \in Int
  PROVE  LET g == jb_framelist_discard(f, index)
         IN  /\ Sound(g)
             /\ \A ref \in Int :
                  Counted(f) /\ Behind(f, ref) /\ ref < index
                    => Counted(g) /\ Behind(g, index)
<1> DEFINE g == jb_framelist_discard(f, index)
           dist == index - f.origin
           Result == /\ Sound(g)
                     /\ \A ref \in Int :
                          Counted(f) /\ Behind(f, ref) /\ ref < index
                            => Counted(g) /\ Behind(g, index)
<1>1. /\ f \in FrameLists /\ f.origin \in Int /\ f.size \in Nat
      /\ MaxCount \in Nat \ {0} /\ index = f.origin + dist
      /\ \A d \in Distances : d \in Nat
  BY FrameListAssumption DEF Sound, FrameLists, Distances
<1>2. \/ g = f
      \/ /\ dist \in 0 .. f.size - 1 /\ dist \in Distances
         /\ DiscardedAt(f, g, dist)
         /\ Counted(f) /\ At(f, dist).type # DISCARDED => Counted(g)
  BY <1>1, DiscardCases
<1> HIDE DEF g, dist
<1>3. ASSUME g = f PROVE Result
  BY <1>1, <1>3 DEF Behind
<1>4. ASSUME dist \in 0 .. f.size - 1, dist \in Distances, DiscardedAt(f, g, dist),
             Counted(f) /\ At(f, dist).type # DISCARDED => Counted(g)
      PROVE  Result
  <2>1. /\ g \in FrameLists /\ g.origin = f.origin /\ g.size = f.size
        /\ \A d \in Distances :
             d # dist => At(g, d) = At(f, d)
        /\ At(g, dist) = [At(f, dist) EXCEPT !.type = DISCARDED]
    BY <1>4 DEF DiscardedAt
  <2>2. At(f, dist) \in [type : FrameTypes, frame : Int \cup {NoFrame}]
    BY <1>1, <1>4, AtType
  <2>3. At(g, dist).frame = At(f, dist).frame
    BY <2>1, <2>2
  <2>4. Clean(g)
    BY <1>1, <1>4, <2>1 DEF Sound, Clean
  <2>5. InPlace(g)
    BY <1>1, <1>4, <2>1, <2>3 DEF Sound, InPlace
  <2>6. ASSUME NEW ref \in Int, Counted(f), Behind(f, ref), ref < index
        PROVE  Counted(g) /\ Behind(g, index)
    <3>1. At(f, dist).type # DISCARDED
      BY <1>1, <1>4, <2>6 DEF Behind
    <3>2. Behind(g, index)
      BY <1>1, <1>4, <2>1, <2>6 DEF Behind
    <3> QED
      BY <1>4, <2>6, <3>1, <3>2
  <2>7. Emptied(g)
    <3>1. At(g, dist).type = DISCARDED
      BY <2>1, <2>2
    <3> QED
      BY <2>1, <3>1 DEF Sound, Emptied, MISSING, DISCARDED
  <2> QED
    BY <2>1, <2>4, <2>5, <2>6, <2>7 DEF Sound
<1> QED
  BY <1>2, <1>3, <1>4 DEF g, dist

-----------------------------------------------------------------------------
(* What the discard algorithms may do to a list, and what the progressive  *)
(* one keeps of its plan: the static algorithm, which stores its own       *)
(* reference in discard_ref, must never have run.                          *)
Policies(f) ==
  {f, jb_framelist_remove_head(f, 1)} \cup {jb_framelist_discard(f, i) : i \in Int}
Planned(f, j) ==
  /\ j.algo # STATIC /\ Counted(f)
  /\ j.discard_dist # 0 => Behind(f, j.discard_ref)

(* Both keep the list sound.                                               *)
LEMMA PoliciesSound ==
  ASSUME NEW f, Sound(f), NEW g \in Policies(f)
  PROVE  Sound(g)
<1>1. CASE g = f
  BY <1>1
<1>2. CASE g = jb_framelist_remove_head(f, 1)
  BY <1>2, RemoveHeadCarries DEF Carries
<1>3. ASSUME NEW i \in Int, g = jb_framelist_discard(f, i) PROVE Sound(g)
  BY <1>3, DiscardSound
<1> QED
  BY <1>1, <1>2, <1>3 DEF Policies

(* jbuf_discard_static.                                                    *)
LEMMA StaticKeeps ==
  ASSUME NEW f, Sound(f), NEW j \in GoodBuffers
  PROVE  jbuf_discard_static(f, j).fl \in Policies(f)
  BY DEF jbuf_discard_static, Policies

(* A plan runs from the last frame on, and each frame it discards lies     *)
(* beyond the one before: at least min_shrink_gap places beyond.           *)
LEMMA ProgressiveKeeps ==
  ASSUME NEW f, Sound(f), NEW j \in GoodBuffers
  PROVE  LET done == jbuf_discard_progressive(f, j)
         IN  done.fl \in Policies(f) /\ (Planned(f, j) => Planned(done.fl, done.jb))
<1> DEFINE size == jb_framelist_eff_size(f)
           burst == Larger(j.eff_level, j.level)
           last_seq == f.origin + f.size - 1
           ref == IF j.discard_dist = 0 THEN last_seq ELSE Smaller(j.discard_ref, last_seq)
           dist == DiscardDist(j, size - burst, burst)
           discard_seq == Larger(ref + dist, f.origin)
           done == jbuf_discard_progressive(f, j)
           Result == done.fl \in Policies(f) /\ (Planned(f, j) => Planned(done.fl, done.jb))
<1>1. /\ f \in FrameLists /\ f.origin \in Int /\ f.size \in Nat
      /\ size \in Int /\ burst \in Nat /\ last_seq \in Int /\ ref \in Int
      /\ j.discard_ref \in Int
  <2>1. /\ f \in FrameLists /\ f.size \in 0 .. MaxCount /\ MaxCount \in Nat
        /\ f.discarded_num \in Int /\ f.origin \in Int
        /\ j.eff_level \in Nat /\ j.level \in Nat /\ j.discard_ref \in Int
    BY FrameListAssumption DEF Sound, FrameLists, GoodBuffers, JitterBuffers
  <2> QED
    BY <2>1, LargerType DEF jb_framelist_eff_size
<1>2. Planned(f, j) => Behind(f, ref)
  <2>1. SUFFICES ASSUME Planned(f, j), NEW d \in Distances, At(f, d).type = DISCARDED
                 PROVE  f.origin + d <= ref
    BY DEF Behind
  <2>2. d < f.size /\ d \in Nat
    BY <1>1, <2>1 DEF Sound, Clean, Blank, MISSING, DISCARDED, Distances
  <2>3. f.origin + d <= last_seq
    BY <1>1, <2>2
  <2>4. CASE j.discard_dist = 0
    BY <2>3, <2>4
  <2>5. CASE j.discard_dist # 0
    <3>1. f.origin + d <= j.discard_ref
      BY <2>1, <2>5 DEF Planned, Behind
    <3>2. ref \in {j.discard_ref, last_seq}
      BY <2>5 DEF Smaller
    <3> QED
      BY <2>3, <3>1, <3>2
  <2> QED
    BY <2>4, <2>5
<1> HIDE DEF size, burst, last_seq, ref
<1>3. \A r, d : [j EXCEPT !.discard_ref = r, !.discard_dist = d].discard_ref = r
                   /\ [j EXCEPT !.discard_ref = r, !.discard_dist = d].discard_dist = d
                   /\ [j EXCEPT !.discard_ref = r, !.discard_dist = d].algo = j.algo
                   /\ [j EXCEPT !.discard_dist = d].discard_dist = d
                   /\ [j EXCEPT !.discard_dist = d].algo = j.algo
  BY DEF GoodBuffers, JitterBuffers
<1>4. CASE j.last_op # OP_PUT
  <2>1. done = [fl |-> f, jb |-> j]
    BY <1>4 DEF jbuf_discard_progressive
  <2> HIDE DEF done
  <2>2. Result
    BY <2>1 DEF Policies
  <2> QED
    BY <2>2 DEF done
<1>5. CASE j.last_op = OP_PUT /\ size <= burst
  <2>1. done = [fl |-> f, jb |-> [j EXCEPT !.discard_dist = 0]]
    BY <1>5 DEF jbuf_discard_progressive, size, burst
  <2> HIDE DEF done
  <2>2. done.fl = f /\ done.jb.discard_dist = 0 /\ done.jb.algo = j.algo
    BY <1>3, <2>1
  <2>3. Result
    BY <2>2 DEF Policies, Planned
  <2> QED
    BY <2>3 DEF done
<1>6. CASE j.last_op = OP_PUT /\ ~(size <= burst)
  <2>1. dist \in Nat \ {0}
    BY <1>1, <1>6, DiscardDistType
  <2>2. done = IF last_seq < ref + dist
               THEN [fl |-> f, jb |-> [j EXCEPT !.discard_ref = ref, !.discard_dist = dist]]
               ELSE [fl |-> jb_framelist_discard(f, discard_seq),
                     jb |-> [j EXCEPT !.discard_ref = discard_seq, !.discard_dist = dist]]
    BY <1>6 DEF jbuf_discard_progressive, size, burst, last_seq, ref
  <2> HIDE DEF dist, done
  <2>3. discard_seq \in Int /\ ref < discard_seq
    BY <1>1, <2>1, LargerType
  <2> HIDE DEF discard_seq
  <2>4. CASE last_seq < ref + dist
    <3> DEFINE k == [j EXCEPT !.discard_ref = ref, !.discard_dist = dist]
    <3>1. k.discard_ref = ref /\ k.algo = j.algo
      BY <1>3
    <3>2. done = [fl |-> f, jb |-> k]
      BY <2>2, <2>4
    <3> HIDE DEF k
    <3>3. done.fl = f /\ done.jb.discard_ref = ref /\ done.jb.algo = j.algo
      BY <3>1, <3>2
    <3>4. Result
      BY <1>2, <3>3 DEF Policies, Planned
    <3> QED
      BY <3>4 DEF done
  <2>5. CASE ~(last_seq < ref + dist)
    <3> DEFINE k == [j EXCEPT !.discard_ref = discard_seq, !.discard_dist = dist]
    <3>1. k.discard_ref = discard_seq /\ k.algo = j.algo
      BY <1>3
    <3>2. done = [fl |-> jb_framelist_discard(f, discard_seq), jb |-> k]
      BY <2>2, <2>5
    <3> HIDE DEF k
    <3>3. /\ done.fl = jb_framelist_discard(f, discard_seq)
          /\ done.jb.discard_ref = discard_seq /\ done.jb.algo = j.algo
      BY <3>1, <3>2
    <3>4. Planned(f, j) => Counted(done.fl) /\ Behind(done.fl, discard_seq)
      BY <1>1, <1>2, <2>3, <3>3, DiscardSound DEF Planned
    <3>5. Result
      BY <2>3, <3>3, <3>4 DEF Policies, Planned
    <3> QED
      BY <3>5 DEF done
  <2> QED
    BY <2>4, <2>5
<1> QED
  BY <1>4, <1>5, <1>6

(* The discard algorithm chosen by pjmedia_jbuf_set_discard.               *)
LEMMA AlgoKeeps ==
  ASSUME NEW f, Sound(f), NEW j \in GoodBuffers
  PROVE  LET done == jb_discard_algo(f, j)
         IN  /\ done.fl \in Policies(f)
             /\ j.algo = NONE => done.fl = f
             /\ Planned(f, j) => Planned(done.fl, done.jb)
<1> DEFINE done == jb_discard_algo(f, j)
<1>1. CASE Runs(j, STATIC)
  <2>1. done = jbuf_discard_static(f, j) /\ j.algo = STATIC /\ j.algo # NONE
    BY <1>1 DEF jb_discard_algo, Runs, NONE, STATIC, PROGRESSIVE
  <2> QED
    BY <2>1, StaticKeeps DEF Planned
<1>2. CASE ~Runs(j, STATIC) /\ Runs(j, PROGRESSIVE)
  <2>1. done = jbuf_discard_progressive(f, j) /\ j.algo # NONE
    BY <1>2 DEF jb_discard_algo, Runs, NONE, PROGRESSIVE
  <2> QED
    BY <2>1, ProgressiveKeeps
<1>3. CASE ~Runs(j, STATIC) /\ ~Runs(j, PROGRESSIVE)
  <2>1. done = [fl |-> f, jb |-> j]
    BY <1>3 DEF jb_discard_algo
  <2> QED
    BY <2>1 DEF Policies
<1> QED
  BY <1>1, <1>2, <1>3

(* Everything else the bookkeeping changes leaves the plan alone.          *)
SamePlan(j, k) ==
  k.algo = j.algo /\ k.discard_ref = j.discard_ref /\ k.discard_dist = j.discard_dist

(* Only discard_ref and discard_dist matter to a plan.                     *)
LEMMA SamePlanned ==
  ASSUME NEW f, NEW j, NEW k, SamePlan(j, k), Planned(f, j)
  PROVE  Planned(f, k)
  BY DEF SamePlan, Planned

(* The assignments to levels and statistics leave the plan alone.          *)
LEMMA BookkeepingKeeps ==
  ASSUME NEW j \in GoodBuffers, NEW a, NEW b, NEW c, NEW d
  PROVE  /\ SamePlan(j, [j EXCEPT !.level = a])
         /\ SamePlan(j, [j EXCEPT !.prefetching = a, !.level = b])
         /\ SamePlan(j, [j EXCEPT !.max_hist_level = a, !.stable_hist = b])
         /\ SamePlan(j, [j EXCEPT !.max_hist_level = a, !.stable_hist = b,
                                  !.eff_level = c, !.prefetch = d])
         /\ SamePlan(j, [j EXCEPT !.last_op = a, !.init_cycle_cnt = b,
                                  !.status = c, !.level = d])
  BY DEF GoodBuffers, JitterBuffers, SamePlan

(* jbuf_calculate_jitter leaves the plan alone.                            *)
LEMMA CalculateKeeps ==
  ASSUME NEW j \in GoodBuffers
  PROVE  SamePlan(j, jbuf_calculate_jitter(j))
<1> DEFINE hist == Larger(j.max_hist_level, j.level)
           lower == j.eff_level - Larger((j.eff_level - hist) \div 3, 1)
           higher == Smaller(hist, LevelCap)
           stable == j.stable_hist + 1
           low == Clamped(j, lower)
           high == Clamped(j, higher)
<1>1. jbuf_calculate_jitter(j) \in
        {[j EXCEPT !.max_hist_level = hist, !.stable_hist = stable],
         [j EXCEPT !.max_hist_level = 0, !.stable_hist = 0,
                   !.eff_level = lower, !.prefetch = low],
         [j EXCEPT !.max_hist_level = hist, !.stable_hist = 0,
                   !.eff_level = higher, !.prefetch = high],
         [j EXCEPT !.max_hist_level = hist, !.stable_hist = 0]}
  BY DEF jbuf_calculate_jitter
<1> HIDE DEF hist, lower, higher, stable, low, high
<1>2. SamePlan(j, [j EXCEPT !.max_hist_level = hist, !.stable_hist = stable])
  BY BookkeepingKeeps
<1>3. SamePlan(j, [j EXCEPT !.max_hist_level = 0, !.stable_hist = 0,
                            !.eff_level = lower, !.prefetch = low])
  BY BookkeepingKeeps
<1>4. SamePlan(j, [j EXCEPT !.max_hist_level = hist, !.stable_hist = 0,
                            !.eff_level = higher, !.prefetch = high])
  BY BookkeepingKeeps
<1>5. SamePlan(j, [j EXCEPT !.max_hist_level = hist, !.stable_hist = 0])
  BY BookkeepingKeeps
<1> QED
  BY <1>1, <1>2, <1>3, <1>4, <1>5, Zenon

(* jbuf_update, with the discard algorithm it calls.                       *)
LEMMA UpdateKeeps ==
  ASSUME NEW f, Sound(f), NEW j \in GoodBuffers, NEW oper \in {OP_PUT, OP_GET}
  PROVE  LET done == jbuf_update(f, j, oper)
         IN  /\ done.fl \in Policies(f)
             /\ j.algo = NONE => done.fl = f
             /\ Planned(f, j) => Planned(done.fl, done.jb)
<1> DEFINE cycle == j.init_cycle_cnt + 1
           starts == j.status = INITIALIZING /\ cycle >= INIT_CYCLE /\ oper = OP_GET
           cnt == IF j.status = INITIALIZING THEN Smaller(cycle, INIT_CYCLE)
                  ELSE j.init_cycle_cnt
           status == IF starts THEN PROCESSING ELSE j.status
           level == IF starts THEN Smaller(j.level, j.max_burst) ELSE j.level
           j1 == [j EXCEPT !.last_op = oper, !.init_cycle_cnt = cnt,
                           !.status = status, !.level = level]
           j2 == IF oper = OP_GET /\ j1.level <= j1.max_burst
                 THEN jbuf_calculate_jitter(j1) ELSE j1
           done == jbuf_update(f, j, oper)
           Kept(r, k) == /\ r.fl \in Policies(f)
                         /\ k.algo = NONE => r.fl = f
                         /\ Planned(f, k) => Planned(r.fl, r.jb)
<1>1. 0 \in Nat
  OBVIOUS
<1>2. /\ j.init_cycle_cnt \in Nat /\ j.level \in Nat /\ j.max_burst \in Nat
      /\ j.status \in {INITIALIZING, PROCESSING} /\ INIT_CYCLE \in Nat
  BY JitterBufferAssumption DEF GoodBuffers, JitterBuffers
<1>3. cnt \in Nat /\ level \in Nat /\ status \in {INITIALIZING, PROCESSING}
  BY <1>2 DEF Smaller
<1>4. done =
        IF j.last_op = oper THEN jb_discard_algo(f, j)
        ELSE IF j1.status = INITIALIZING THEN [fl |-> f, jb |-> [j1 EXCEPT !.level = 0]]
        ELSE jb_discard_algo(f, [j2 EXCEPT !.level = 0])
  BY DEF jbuf_update
<1> HIDE DEF cnt, level, status, done
<1>5. j1 \in GoodBuffers /\ SamePlan(j, j1)
  BY <1>3, SwitchUpdateType, BookkeepingKeeps
<1> HIDE DEF j1
<1>6. j2 \in GoodBuffers /\ SamePlan(j, j2)
  BY <1>5, CalculateJitterType, CalculateKeeps DEF SamePlan
<1> HIDE DEF j2
<1> DEFINE k1 == [j1 EXCEPT !.level = 0]
           k2 == [j2 EXCEPT !.level = 0]
<1>7. k1 \in GoodBuffers /\ k2 \in GoodBuffers
  BY <1>1, <1>5, <1>6, BurstUpdateType
<1>8. SamePlan(j, k1) /\ SamePlan(j, k2)
  <2>1. SamePlan(j1, k1) /\ SamePlan(j2, k2)
    BY <1>5, <1>6, BookkeepingKeeps
  <2> HIDE DEF k1, k2
  <2> QED
    BY <1>5, <1>6, <2>1 DEF SamePlan
<1> HIDE DEF k1, k2
<1>9. Kept(jb_discard_algo(f, j), j) /\ Kept(jb_discard_algo(f, k2), k2)
  BY <1>7, AlgoKeeps
<1>10. Kept([fl |-> f, jb |-> k1], k1)
  BY DEF Policies
<1>11. Kept(jb_discard_algo(f, k2), j) /\ Kept([fl |-> f, jb |-> k1], j)
  BY <1>8, <1>9, <1>10, SamePlanned DEF SamePlan
<1>12. done \in {jb_discard_algo(f, j), [fl |-> f, jb |-> k1], jb_discard_algo(f, k2)}
  BY <1>4 DEF k1, k2
<1>13. Kept(done, j)
  BY <1>9, <1>11, <1>12
<1> QED
  BY <1>13 DEF done

-----------------------------------------------------------------------------
(* The invariant: the list is sound and, unless the application may choose *)
(* the static algorithm, the plan of the progressive one is.               *)
PlanOK(f, j) == STATIC \notin Algos => Planned(f, j)
WInv == IInv /\ Sound(fl) /\ PlanOK(fl, jb)

(* A list that carries over leaves the plan valid.                         *)
LEMMA PlanCarries ==
  ASSUME NEW f, NEW j \in GoodBuffers, NEW g, Carries(f, g),
         NEW k, SamePlan(j, k), PlanOK(f, j)
  PROVE  PlanOK(g, k)
<1>1. j.discard_ref \in Int
  BY DEF GoodBuffers, JitterBuffers
<1> QED
  BY <1>1 DEF Carries, PlanOK, Planned, SamePlan

(* ... and so does the end of a put or a get.                              *)
LEMMA UpdateCarries ==
  ASSUME NEW f, Sound(f), NEW j \in GoodBuffers, PlanOK(f, j), NEW oper \in {OP_PUT, OP_GET}
  PROVE  LET done == jbuf_update(f, j, oper)
         IN  Sound(done.fl) /\ PlanOK(done.fl, done.jb)
  BY UpdateKeeps, PoliciesSound DEF PlanOK

(* What is left of put and get when the level and the prefetching flag are *)
(* written: the end they have in common.                                   *)
LEMMA PutUpdates ==
  ASSUME IInv, NEW frame_seq \in 0 .. MaxSeq, Put(frame_seq)
  PROVE  LET put == TryPut(fl, frame_seq)
         IN  \E j \in GoodBuffers :
               /\ SamePlan(jb, j)
               /\ IF put.status = SUCCESS
                  THEN /\ fl' = jbuf_update(put.fl, j, OP_PUT).fl
                       /\ jb' = jbuf_update(put.fl, j, OP_PUT).jb
                  ELSE fl' = put.fl /\ jb' = jb
<1> DEFINE put == TryPut(fl, frame_seq)
           new_size == jb_framelist_eff_size(put.fl)
           grown == Larger(new_size - jb_framelist_eff_size(fl), 1)
           prefetching == jb.prefetching /\ new_size < jb.prefetch
           level == jb.level + grown
           j1 == [jb EXCEPT !.prefetching = prefetching, !.level = level]
<1>1. fl \in FrameLists /\ jb \in GoodBuffers /\ frame_seq \in Int
  BY Given, JitterBufferAssumption
<1>2. put.fl \in FrameLists
  BY <1>1, TryPutType
<1>3. IF put.status = SUCCESS
      THEN fl' = jbuf_update(put.fl, j1, OP_PUT).fl /\ jb' = jbuf_update(put.fl, j1, OP_PUT).jb
      ELSE fl' = put.fl /\ jb' = jb
  BY DEF Put
<1> HIDE DEF put
<1>4. jb.level \in Nat /\ grown \in Nat
  <2>1. fl.size \in Int /\ fl.discarded_num \in Int
        /\ put.fl.size \in Int /\ put.fl.discarded_num \in Int
    BY <1>1, <1>2 DEF FrameLists
  <2>2. new_size - jb_framelist_eff_size(fl) \in Int
    BY <2>1 DEF jb_framelist_eff_size
  <2>3. grown \in Int /\ grown >= 1
    BY <2>2 DEF Larger
  <2> HIDE DEF grown
  <2> QED
    BY <1>1, <2>3 DEF GoodBuffers, JitterBuffers
<1>5. level \in Nat /\ prefetching \in BOOLEAN
  BY <1>4
<1> HIDE DEF level, prefetching
<1>6. j1 \in GoodBuffers /\ SamePlan(jb, j1)
  BY <1>1, <1>5, BurstUpdateType, BookkeepingKeeps
<1> HIDE DEF j1
<1> QED
  BY <1>3, <1>6 DEF put

(* A get is jb_framelist_get, unless the buffer prefetches, and then       *)
(* jbuf_update.                                                            *)
LEMMA GetUpdates ==
  ASSUME IInv, Get
  PROVE  \E j \in GoodBuffers :
           LET f == IF jb.prefetching THEN fl ELSE jb_framelist_get(fl).fl
           IN  /\ SamePlan(jb, j)
               /\ fl' = jbuf_update(f, j, OP_GET).fl /\ jb' = jbuf_update(f, j, OP_GET).jb
<1> DEFINE got == jb_framelist_get(fl)
           prefetching == jb.prefetching \/ (~got.res /\ jb.prefetch # 0)
           level == jb.level + 1
           j1 == [jb EXCEPT !.prefetching = prefetching, !.level = level]
           f1 == IF jb.prefetching THEN fl ELSE got.fl
           done == jbuf_update(f1, j1, OP_GET)
<1>1. fl \in FrameLists /\ jb \in GoodBuffers
  BY Given
<1>2. got.res \in BOOLEAN
  BY <1>1, GetType
<1>3. fl' = done.fl /\ jb' = done.jb
  BY DEF Get
<1> HIDE DEF got
<1>4. level \in Nat /\ prefetching \in BOOLEAN
  BY <1>1, <1>2 DEF GoodBuffers, JitterBuffers
<1> HIDE DEF level, prefetching
<1>5. j1 \in GoodBuffers /\ SamePlan(jb, j1)
  BY <1>1, <1>4, BurstUpdateType, BookkeepingKeeps
<1> HIDE DEF j1
<1> QED
  BY <1>3, <1>5 DEF got

(* pjmedia_jbuf_put_frame3 keeps the window sound.                         *)
LEMMA PutWindow ==
  ASSUME WInv, NEW frame_seq \in 0 .. MaxSeq, Put(frame_seq)
  PROVE  Sound(fl') /\ PlanOK(fl', jb')
<1> DEFINE put == TryPut(fl, frame_seq)
<1>1. IInv /\ jb \in GoodBuffers /\ frame_seq \in Int /\ Sound(fl) /\ PlanOK(fl, jb)
  BY Given, JitterBufferAssumption DEF WInv
<1>2. Carries(fl, put.fl) /\ Sound(put.fl)
  BY <1>1, TryPutCarries DEF Carries
<1>3. PICK j \in GoodBuffers :
        /\ SamePlan(jb, j)
        /\ IF put.status = SUCCESS
           THEN fl' = jbuf_update(put.fl, j, OP_PUT).fl /\ jb' = jbuf_update(put.fl, j, OP_PUT).jb
           ELSE fl' = put.fl /\ jb' = jb
  BY <1>1, PutUpdates
<1> HIDE DEF put
<1>4. PlanOK(put.fl, j) /\ PlanOK(put.fl, jb)
  BY <1>1, <1>2, <1>3, PlanCarries DEF SamePlan
<1> DEFINE done == jbuf_update(put.fl, j, OP_PUT)
<1>5. Sound(done.fl) /\ PlanOK(done.fl, done.jb)
  BY <1>2, <1>4, UpdateCarries
<1> HIDE DEF done
<1> QED
  BY <1>2, <1>3, <1>4, <1>5 DEF done

(* pjmedia_jbuf_get_frame3 keeps the window sound.                         *)
LEMMA GetWindow ==
  ASSUME WInv, Get
  PROVE  Sound(fl') /\ PlanOK(fl', jb')
<1> DEFINE f == IF jb.prefetching THEN fl ELSE jb_framelist_get(fl).fl
<1>1. IInv /\ jb \in GoodBuffers /\ Sound(fl) /\ PlanOK(fl, jb)
  BY Given DEF WInv
<1>2. Carries(fl, f)
  BY <1>1, GetCarries, CarriesSelf
<1>3. PICK j \in GoodBuffers :
        /\ SamePlan(jb, j)
        /\ fl' = jbuf_update(f, j, OP_GET).fl /\ jb' = jbuf_update(f, j, OP_GET).jb
  BY <1>1, GetUpdates
<1> HIDE DEF f
<1>4. Sound(f) /\ PlanOK(f, j)
  BY <1>1, <1>2, <1>3, PlanCarries DEF Carries
<1> DEFINE done == jbuf_update(f, j, OP_GET)
<1>5. Sound(done.fl) /\ PlanOK(done.fl, done.jb)
  BY <1>4, UpdateCarries
<1> QED
  BY <1>3, <1>5

(* pjmedia_jbuf_remove_frame keeps the window sound.                       *)
LEMMA RemoveWindow ==
  ASSUME WInv, NEW frame_cnt \in 1 .. MaxCount, RemoveFrame(frame_cnt)
  PROVE  Sound(fl') /\ PlanOK(fl', jb')
<1> DEFINE n == SlotsHolding(fl, frame_cnt)
<1>1. /\ fl \in FrameLists /\ jb \in GoodBuffers /\ Sound(fl) /\ PlanOK(fl, jb)
      /\ fl.size \in Nat /\ frame_cnt \in Nat \ {0}
  BY Given, FrameListAssumption DEF WInv, FrameLists
<1>2. n \in 0 .. fl.size
  BY <1>1, SlotsHoldingType
<1> HIDE DEF n
<1>3. fl' = jb_framelist_remove_head(fl, n) /\ jb' = jb
  BY DEF RemoveFrame, n
<1>4. n \in Nat
  BY <1>1, <1>2
<1>5. Carries(fl, fl')
  BY <1>1, <1>3, <1>4, RemoveHeadCarries
<1> QED
  BY <1>1, <1>3, <1>5, PlanCarries DEF Carries, SamePlan

(* A call that configures the buffer leaves the list alone.                *)
LEMMA ConfigureWindow ==
  ASSUME WInv, fl' = fl, jb'.discard_ref = jb.discard_ref,
         jb'.discard_dist = jb.discard_dist,
         jb'.algo = jb.algo \/ (STATIC \notin Algos => jb'.algo # STATIC)
  PROVE  Sound(fl') /\ PlanOK(fl', jb')
  BY DEF WInv, PlanOK, Planned

(* The invariant is inductive.                                             *)
LEMMA WindowNext == WInv /\ [Next]_vars => WInv'
<1> SUFFICES ASSUME WInv, [Next]_vars PROVE WInv'
  OBVIOUS
<1>1. IInv' /\ IInv /\ jb \in GoodBuffers
  BY NextStep, Given DEF WInv
<1>2. CASE \E s \in 0 .. MaxSeq : Put(s)
  BY <1>1, <1>2, PutWindow DEF WInv
<1>3. CASE Get
  BY <1>1, <1>3, GetWindow DEF WInv
<1>4. CASE \E n \in 1 .. MaxCount : RemoveFrame(n)
  BY <1>1, <1>4, RemoveWindow DEF WInv
<1>5. CASE Reset
  <2>1. /\ fl' = jb_framelist_reset /\ jb'.discard_dist = 0
        /\ jb'.algo = jb.algo
    BY <1>1, <1>5 DEF Reset, GoodBuffers, JitterBuffers
  <2>2. Sound(fl') /\ Counted(fl')
    BY <2>1, ResetSound, EmptyIsSound
  <2>3. PlanOK(fl', jb')
    BY <2>1, <2>2 DEF WInv, PlanOK, Planned
  <2> QED
    BY <1>1, <2>2, <2>3 DEF WInv
<1>6. CASE \/ \E p \in PTimes : SetPtime(p)
           \/ \E p \in Prefetches : SetFixed(p)
           \/ \E p, lo, hi \in Prefetches : SetAdaptive(p, lo, hi)
           \/ \E a \in Algos : SetDiscard(a)
  <2>1. /\ fl' = fl /\ jb'.discard_ref = jb.discard_ref
        /\ jb'.discard_dist = jb.discard_dist
        /\ jb'.algo = jb.algo \/ jb'.algo = NONE \/ jb'.algo \in Algos
    BY <1>1, <1>6 DEF SetPtime, SetFixed, SetAdaptive, SetDiscard, GoodBuffers, JitterBuffers
  <2>2. Sound(fl') /\ PlanOK(fl', jb')
    BY <2>1, ConfigureWindow DEF NONE, STATIC
  <2> QED
    BY <1>1, <2>2 DEF WInv
<1>7. CASE UNCHANGED vars
  BY <1>1, <1>7 DEF vars, WInv
<1> QED
  BY <1>2, <1>3, <1>4, <1>5, <1>6, <1>7 DEF Next

(* The invariant holds of a new jitter buffer.                             *)
LEMMA WindowInit == Init => WInv
<1> SUFFICES ASSUME Init PROVE WInv
  OBVIOUS
<1>1. IInv /\ fl = jb_framelist_reset
  BY InitStep DEF Init
<1>2. Sound(fl) /\ Counted(fl)
  BY <1>1, ResetSound, EmptyIsSound
<1>3. jb.algo = PROGRESSIVE /\ jb.discard_dist = 0
  BY DEF Init, Created
<1> QED
  BY <1>1, <1>2, <1>3 DEF WInv, PlanOK, Planned, STATIC, PROGRESSIVE

(* The invariant holds in every state.                                     *)
LEMMA WindowInvariance == Spec => []WInv
  BY WindowInit, WindowNext, PTL DEF Spec

-----------------------------------------------------------------------------
(* The circular array never holds anything outside its window, and every   *)
(* stored frame lies where its number says or was received before the      *)
(* numbering restarted: whatever jbuf.c does to head, size and origin.     *)
THEOREM WindowIsSound == Spec => []WindowSound
<1>1. WInv => WindowSound
  <2> SUFFICES ASSUME WInv PROVE WindowSound
    OBVIOUS
  <2>1. /\ fl \in FrameLists /\ Clean(fl) /\ InPlace(fl)
        /\ fl.size \in 0 .. MaxCount /\ MaxCount \in Nat \ {0} /\ fl.head \in Slots
    BY FrameListAssumption DEF WInv, Sound, FrameLists
  <2>2. ASSUME NEW p \in Slots \ Window
        PROVE  fl.type[p] = MISSING /\ fl.frame[p] = NoFrame
    <3>1. PICK d \in Distances : SlotAt(fl, d) = p
      BY <2>1, SlotAtOnto
    <3>2. ~(d \in 0 .. fl.size - 1)
      BY <2>2, <3>1 DEF Window
    <3>3. At(fl, d) = Blank
      BY <2>1, <3>2 DEF Clean, Distances
    <3> QED
      BY <3>1, <3>3 DEF At, Blank
  <2>3. ASSUME NEW d \in 0 .. fl.size - 1, fl.frame[SlotAt(fl, d)] # NoFrame
        PROVE  \/ fl.frame[SlotAt(fl, d)] = fl.origin + d
               \/ fl.frame[SlotAt(fl, d)] >= fl.origin + d + MAX_MISORDER
    <3>1. d \in Distances
      BY <2>1 DEF Distances
    <3> QED
      BY <2>1, <2>3, <3>1 DEF InPlace, At
  <2> QED
    BY <2>2, <2>3 DEF WindowSound, WindowClean, FramesInPlace
<1> QED
  BY <1>1, WindowInvariance, PTL

(* discarded_num counts the discarded slots and no slot is discarded twice *)
(* as long as the static algorithm, which overwrites the reference of the  *)
(* progressive one, is never chosen.                                       *)
THEOREM DiscardsAreSound ==
  ASSUME STATIC \notin Algos
  PROVE  Spec => []DiscardsSound
<1>1. WInv => DiscardsSound
  <2> SUFFICES ASSUME WInv PROVE DiscardsSound
    OBVIOUS
  <2>1. Planned(fl, jb) /\ fl.size \in 0 .. MaxCount /\ MaxCount \in Nat \ {0}
    BY FrameListAssumption DEF WInv, PlanOK, Sound, FrameLists
  <2>2. ASSUME jb.discard_dist # 0, NEW d \in 0 .. fl.size - 1,
               fl.type[SlotAt(fl, d)] = DISCARDED
        PROVE  fl.origin + d <= jb.discard_ref
    <3>1. d \in Distances
      BY <2>1 DEF Distances
    <3> QED
      BY <2>1, <2>2, <3>1 DEF Planned, Behind, At
  <2> QED
    BY <2>1, <2>2 DEF DiscardsSound, DiscardedExact, DiscardsBehindRef, Planned, Counted, DiscardedIn
<1> QED
  BY <1>1, WindowInvariance, PTL

-----------------------------------------------------------------------------
(* Where a window ends; and windows that did not move back, but end no     *)
(* later than a frame or than before.                                      *)
End(f) == f.origin + f.size
Forward(f, g, index) ==
  g.origin >= f.origin /\ (End(g) <= index + 1 \/ End(g) <= End(f))

(* The numbers of a list.                                                  *)
LEMMA ListNumbers ==
  ASSUME NEW f \in FrameLists
  PROVE  /\ f.origin \in Int /\ f.size \in Nat /\ f.size <= MaxCount /\ End(f) \in Int
         /\ MaxCount \in Nat \ {0} /\ MAX_MISORDER \in Nat \ {0}
<1>1. f.origin \in Int /\ f.size \in 0 .. MaxCount /\ MaxCount \in Nat \ {0}
      /\ MAX_MISORDER \in Nat \ {0}
  BY FrameListAssumption DEF FrameLists
<1> QED
  BY <1>1 DEF End

(* A head that moves on leaves the end of the window where it is.          *)
LEMMA MovedForward ==
  ASSUME NEW f \in FrameLists, NEW n \in 0 .. f.size, NEW g, MovedOn(f, g, n)
  PROVE  g \in FrameLists /\ g.origin >= f.origin /\ End(g) = End(f)
  BY ListNumbers DEF MovedOn, End

(* So does a discard policy.                                               *)
LEMMA PoliciesForward ==
  ASSUME NEW f \in FrameLists, NEW g \in Policies(f)
  PROVE  g \in FrameLists /\ g.origin >= f.origin /\ End(g) = End(f)
<1>1. f.origin \in Int
  BY ListNumbers
<1>2. CASE g = f
  BY <1>1, <1>2
<1>3. CASE g = jb_framelist_remove_head(f, 1)
  <2>1. 1 \in Nat
    OBVIOUS
  <2>2. PICK n : n \in 0 .. f.size /\ MovedOn(f, g, n)
    BY <1>3, <2>1, RemoveHeadMoves
  <2> QED
    BY <2>2, MovedForward
<1>4. ASSUME NEW i \in Int, g = jb_framelist_discard(f, i)
      PROVE  g \in FrameLists /\ g.origin >= f.origin /\ End(g) = End(f)
  <2>1. g = f \/ DiscardedAt(f, g, i - f.origin)
    BY <1>4, DiscardCases
  <2> QED
    BY <1>1, <1>2, <2>1 DEF DiscardedAt, End
<1> QED
  BY <1>2, <1>3, <1>4 DEF Policies

(* Once the numbering is settled, the frame extends the window to itself   *)
(* at most.                                                                *)
LEMMA StoreForward ==
  ASSUME NEW f \in FrameLists, NEW index \in Int,
         f.origin <= index, index - f.origin < MaxCount
  PROVE  Forward(f, StoreAt(f, index).fl, index)
<1> DEFINE dist == index - f.origin
           g == StoreAt(f, index).fl
<1>1. g = f \/ StoredIn(f, g, index, dist)
  BY StoreAtCases
<1>2. f.origin \in Int /\ f.size \in Nat
  BY ListNumbers
<1> HIDE DEF g
<1>3. Forward(f, g, index)
  BY <1>1, <1>2 DEF StoredIn, Forward, End
<1> QED
  BY <1>3 DEF g

(* After renumbering, jb_framelist_put_at moves neither end of the window  *)
(* back.                                                                   *)
LEMMA SettledForward ==
  ASSUME NEW f \in FrameLists, NEW index \in Int, ~IsLate(f, index)
  PROVE  Forward(Renumber(f, index), jb_framelist_put_at(f, index).fl, index)
<1> DEFINE f1 == Renumber(f, index)
           put == jb_framelist_put_at(f, index)
           jump == FarJump(index)
<1>1. f1 \in FrameLists /\ f1.origin <= index
  BY RenumberType
<1>2. f1.origin \in Int /\ End(f1) \in Int
  BY <1>1, ListNumbers
<1>3. \/ put.fl = StoreAt(f1, index).fl /\ index - f1.origin < MaxCount
      \/ put.fl = StoreAt(jump, index).fl
      \/ put.fl = f1
  BY DEF jb_framelist_put_at
<1> HIDE DEF f1, put
<1>4. jump \in FrameLists /\ jump.origin = index /\ jump.size = 0
  BY FarJumpSound
<1>5. Forward(jump, StoreAt(jump, index).fl, index)
  <2>1. jump.origin <= index /\ index - jump.origin < MaxCount
    BY <1>4, FrameListAssumption
  <2> HIDE DEF jump
  <2> QED
    BY <1>4, <2>1, StoreForward
<1>6. StoreAt(jump, index).fl \in FrameLists
  BY FarJumpType, StoreAtType, FrameListAssumption
<1> HIDE DEF jump
<1>7. Forward(f1, put.fl, index)
  <2>1. CASE put.fl = StoreAt(f1, index).fl /\ index - f1.origin < MaxCount
    BY <1>1, <2>1, StoreForward
  <2>2. CASE put.fl = StoreAt(jump, index).fl
    <3>1. StoreAt(jump, index).fl.origin >= index /\ End(StoreAt(jump, index).fl) <= index + 1
      BY <1>4, <1>5, <1>6, ListNumbers DEF Forward, End
    <3>2. StoreAt(jump, index).fl.origin \in Int
      BY <1>6, ListNumbers
    <3> QED
      BY <1>1, <1>2, <2>2, <3>1, <3>2 DEF Forward
  <2>3. CASE put.fl = f1
    BY <1>2, <2>3 DEF Forward
  <2> QED
    BY <1>3, <2>1, <2>2, <2>3
<1> QED
  BY <1>7 DEF f1, put

(* A put moves the window back only for a frame MAX_MISORDER behind, and   *)
(* then the window ends at the frame.                                      *)
LEMMA PutAtBack ==
  ASSUME NEW f, Sound(f), NEW index \in Int
  PROVE  LET g == jb_framelist_put_at(f, index).fl
         IN  \/ index >= f.origin /\ Forward(f, g, index)
             \/ index < f.origin /\ g = f
             \/ index <= f.origin - MAX_MISORDER /\ End(g) <= index + 1
<1> DEFINE f1 == Renumber(f, index)
           g == jb_framelist_put_at(f, index).fl
           Result == \/ index >= f.origin /\ Forward(f, g, index)
                     \/ index < f.origin /\ g = f
                     \/ index <= f.origin - MAX_MISORDER /\ End(g) <= index + 1
<1>1. f \in FrameLists /\ f.origin \in Int /\ f.size \in Nat /\ MAX_MISORDER \in Nat
      /\ End(f) \in Int
  BY ListNumbers DEF Sound
<1>2. CASE IsLate(f, index)
  <2>1. index < f.origin /\ g = f
    BY <1>2 DEF IsLate, jb_framelist_put_at
  <2> QED
    BY <2>1
<1>3. CASE ~IsLate(f, index)
  <2>1. Forward(f1, g, index) /\ f1 \in FrameLists /\ f1.origin <= index
    BY <1>1, <1>3, SettledForward, RenumberType
  <2>2. f1.origin \in Int /\ End(f1) \in Int /\ f1.size \in Nat
    BY <2>1, ListNumbers
  <2>3. g \in FrameLists
    BY <1>1, PutAtType
  <2>4. g.origin \in Int /\ End(g) \in Int
    BY <2>3, ListNumbers
  <2>5. \/ f1 = f \/ f1.origin + f1.size = index
    BY <1>1, RenumberCases, FarJumpSound DEF Rebased
  <2>6. index < f.origin => index <= f.origin - MAX_MISORDER
    BY <1>1, <1>3 DEF IsLate
  <2> HIDE DEF f1, g
  <2>7. CASE index >= f.origin
    <3>1. f1.origin >= f.origin /\ (End(f1) = End(f) \/ End(f1) = index)
      BY <1>1, <2>2, <2>5, <2>7, RenumberCases, FarJumpSound DEF Rebased, End, f1
    <3>2. Result
      BY <1>1, <2>1, <2>2, <2>4, <2>7, <3>1 DEF Forward
    <3> QED
      BY <3>2 DEF g
  <2>8. CASE index < f.origin
    <3>1. f1 # f
      BY <1>1, <2>1, <2>8
    <3>2. End(f1) = index
      BY <2>5, <3>1 DEF End
    <3>3. End(g) <= index + 1
      BY <2>1, <2>2, <2>4, <3>2 DEF Forward
    <3>4. Result
      BY <2>6, <2>8, <3>3
    <3> QED
      BY <3>4 DEF g
  <2> QED
    BY <1>1, <2>7, <2>8
<1> QED
  BY <1>2, <1>3

(* The two tries of pjmedia_jbuf_put_frame3.                               *)
LEMMA TryPutBack ==
  ASSUME NEW f, Sound(f), NEW index \in Int
  PROVE  LET g == TryPut(f, index).fl
         IN  g.origin >= f.origin \/ End(g) <= f.origin - MAX_MISORDER + 1
<1> DEFINE first == jb_framelist_put_at(f, index)
           count == index - first.fl.origin - MaxCount + 1
           room == MakeRoom(first.fl, index)
           second == jb_framelist_put_at(room, index)
           Back(g) == g.origin >= f.origin \/ End(g) <= f.origin - MAX_MISORDER + 1
<1>1. /\ f \in FrameLists /\ f.origin \in Int /\ MAX_MISORDER \in Nat \ {0}
      /\ MaxCount \in Nat \ {0} /\ End(f) \in Int
  BY ListNumbers DEF Sound
<1>2. /\ first.fl \in FrameLists /\ Sound(first.fl)
      /\ first.status = ETOOMANY => index - first.fl.origin >= MaxCount
  BY <1>1, PutAtType, PutAtCarries DEF Carries
<1>3. first.fl.origin \in Int /\ End(first.fl) \in Int
  BY <1>2, ListNumbers
<1>4. \/ index >= f.origin /\ Forward(f, first.fl, index)
      \/ index < f.origin /\ first.fl = f
      \/ index <= f.origin - MAX_MISORDER /\ End(first.fl) <= index + 1
  BY PutAtBack
<1>5. TryPut(f, index) = IF first.status = ETOOMANY THEN second ELSE first
  BY DEF TryPut
<1> HIDE DEF first
<1>6. Back(first.fl)
  BY <1>1, <1>3, <1>4 DEF Forward
<1>7. CASE first.status = ETOOMANY
  <2>1. count \in Nat /\ index - count <= index
    BY <1>1, <1>2, <1>3, <1>7
  <2>2. /\ Sound(room) /\ room \in FrameLists /\ room.origin >= first.fl.origin
        /\ room.origin <= first.fl.origin + count /\ End(room) = End(first.fl)
    <3> DEFINE n == IF count > first.fl.size THEN first.fl.size ELSE count
    <3>1. room = jb_framelist_remove_head(first.fl, count)
      BY DEF MakeRoom
    <3>2. n \in 0 .. first.fl.size /\ MovedOn(first.fl, room, n) /\ Sound(room)
      BY <1>2, <2>1, <3>1, RemoveHeadMoves, RemoveHeadCarries DEF Carries
    <3>3. n <= count /\ n \in Nat /\ first.fl.size \in Nat
      BY <1>2, <2>1, ListNumbers
    <3> HIDE DEF n
    <3>4. room.origin = first.fl.origin + n
      BY <3>2 DEF MovedOn
    <3> QED
      BY <1>2, <1>3, <2>1, <3>2, <3>3, <3>4, MovedForward
  <2>3. room.origin \in Int /\ End(room) \in Int
    BY <2>2, ListNumbers
  <2> HIDE DEF room
  <2>4. room.origin <= index
    BY <1>1, <1>3, <2>2, <2>3
  <2>5. Forward(room, second.fl, index)
    BY <2>2, <2>3, <2>4, PutAtBack, <1>1
  <2>6. second.fl.origin \in Int /\ End(second.fl) \in Int
    BY <2>2, PutAtType, ListNumbers
  <2> HIDE DEF second
  <2>7. Back(second.fl)
    <3>1. CASE first.fl.origin >= f.origin
      BY <1>1, <1>3, <2>2, <2>3, <2>5, <2>6, <3>1 DEF Forward
    <3>2. CASE ~(first.fl.origin >= f.origin)
      <4>1. index <= f.origin - MAX_MISORDER /\ End(first.fl) <= index + 1
        BY <1>1, <1>3, <1>4, <3>2 DEF Forward
      <4>2. End(second.fl) <= index + 1
        BY <1>3, <2>2, <2>3, <2>5, <2>6, <4>1 DEF Forward
      <4> QED
        BY <1>1, <2>6, <4>1, <4>2
    <3> QED
      BY <3>1, <3>2
  <2> QED
    BY <1>5, <1>7, <2>7
<1>8. CASE first.status # ETOOMANY
  BY <1>5, <1>6, <1>8
<1> QED
  BY <1>7, <1>8

(* The action that NoReplay allows.                                        *)
NoReplayStep ==
  fl'.origin < fl.origin =>
    \/ fl'.origin = INVALID_OFFSET /\ fl'.size = 0
    \/ fl'.origin + fl'.size <= fl.origin - MAX_MISORDER + 1

(* A put never moves the read position back, but for a restart of the      *)
(* numbering.                                                              *)
LEMMA PutReplaysNothing ==
  ASSUME WInv, NEW frame_seq \in 0 .. MaxSeq, Put(frame_seq)
  PROVE  NoReplayStep
<1> DEFINE put == TryPut(fl, frame_seq)
<1>1. IInv /\ fl \in FrameLists /\ frame_seq \in Int /\ Sound(fl)
  BY Given, JitterBufferAssumption DEF WInv
<1>2. /\ put.fl \in FrameLists /\ Sound(put.fl)
      /\ put.fl.origin >= fl.origin \/ End(put.fl) <= fl.origin - MAX_MISORDER + 1
  BY <1>1, TryPutCarries, TryPutBack DEF Carries, Sound
<1>3. fl' \in Policies(put.fl)
  <2>1. PICK j \in GoodBuffers : fl' \in {put.fl, jbuf_update(put.fl, j, OP_PUT).fl}
    BY <1>1, PutUpdates
  <2>2. put.fl \in Policies(put.fl)
    BY DEF Policies
  <2> HIDE DEF put
  <2>3. jbuf_update(put.fl, j, OP_PUT).fl \in Policies(put.fl)
    BY <1>2, UpdateKeeps
  <2> QED
    BY <2>1, <2>2, <2>3
<1> HIDE DEF put
<1>4. fl' \in FrameLists /\ fl'.origin >= put.fl.origin /\ End(fl') = End(put.fl)
  BY <1>2, <1>3, PoliciesForward
<1>5. /\ fl.origin \in Int /\ put.fl.origin \in Int /\ fl'.origin \in Int
      /\ MAX_MISORDER \in Nat
  BY <1>1, <1>2, <1>4, ListNumbers
<1> QED
  BY <1>2, <1>4, <1>5 DEF NoReplayStep, End

(* Nor does a get.                                                         *)
LEMMA GetReplaysNothing ==
  ASSUME WInv, Get
  PROVE  NoReplayStep
<1> DEFINE f == IF jb.prefetching THEN fl ELSE jb_framelist_get(fl).fl
<1>1. IInv /\ fl \in FrameLists /\ Sound(fl)
  BY Given DEF WInv
<1>2. Sound(f) /\ f \in FrameLists
  BY <1>1, GetCarries DEF Carries, Sound
<1>3. PICK j \in GoodBuffers : fl' = jbuf_update(f, j, OP_GET).fl
  BY <1>1, GetUpdates
<1>4. f.origin >= fl.origin
  <2>1. CASE jb.prefetching
    BY <1>1, <2>1, ListNumbers
  <2>2. CASE ~jb.prefetching
    <3>1. PICK n : n \in 0 .. fl.size /\ MovedOn(fl, jb_framelist_get(fl).fl, n)
      <4> DEFINE skip == LeadingDiscarded(fl)
                 n == IF skip < fl.size THEN skip + 1 ELSE skip
      <4>1. skip \in 0 .. fl.size /\ fl.size \in Nat
        BY <1>1, LeadingDiscardedType, ListNumbers
      <4>2. n \in 0 .. fl.size
        BY <4>1
      <4>3. MovedOn(fl, jb_framelist_get(fl).fl, n)
        BY <1>1, GetMoves
      <4> QED
        BY <4>2, <4>3
    <3> QED
      BY <1>1, <2>2, <3>1, MovedForward
  <2> QED
    BY <2>1, <2>2
<1> HIDE DEF f
<1>5. fl' \in FrameLists /\ fl'.origin >= f.origin
  BY <1>2, <1>3, UpdateKeeps, PoliciesForward
<1>6. fl.origin \in Int /\ f.origin \in Int /\ fl'.origin \in Int
  BY <1>1, <1>2, <1>5, ListNumbers
<1> QED
  BY <1>4, <1>5, <1>6 DEF NoReplayStep

(* Nor does any call.                                                      *)
LEMMA NextReplaysNothing == WInv /\ [Next]_vars => [NoReplayStep]_vars
<1> SUFFICES ASSUME WInv, Next PROVE NoReplayStep
  OBVIOUS
<1>1. /\ IInv /\ fl \in FrameLists /\ fl.origin \in Int /\ fl.size \in Nat
      /\ MaxCount \in Nat
  BY Given, ListNumbers DEF WInv
<1>2. CASE \E s \in 0 .. MaxSeq : Put(s)
  BY <1>2, PutReplaysNothing
<1>3. CASE Get
  BY <1>3, GetReplaysNothing
<1>4. ASSUME NEW n \in 1 .. MaxCount, RemoveFrame(n) PROVE NoReplayStep
  <2> DEFINE m == SlotsHolding(fl, n)
  <2>1. n \in Nat \ {0}
    BY <1>1
  <2>2. m \in 0 .. fl.size
    BY <1>1, <2>1, SlotsHoldingType
  <2>3. fl' = jb_framelist_remove_head(fl, m)
    BY <1>4 DEF RemoveFrame
  <2> HIDE DEF m
  <2>4. m \in Nat
    BY <1>1, <2>2
  <2>5. PICK k : k \in 0 .. fl.size /\ MovedOn(fl, fl', k)
    BY <1>1, <2>3, <2>4, RemoveHeadMoves
  <2>6. fl'.origin >= fl.origin /\ fl'.origin \in Int
    BY <1>1, <2>5, MovedForward, ListNumbers
  <2> QED
    BY <1>1, <2>6 DEF NoReplayStep
<1>5. CASE Reset
  BY <1>5, ResetSound DEF Reset, NoReplayStep
<1>6. CASE \/ \E p \in PTimes : SetPtime(p)
           \/ \E p \in Prefetches : SetFixed(p)
           \/ \E p, lo, hi \in Prefetches : SetAdaptive(p, lo, hi)
           \/ \E a \in Algos : SetDiscard(a)
  <2>1. fl' = fl
    BY <1>6 DEF SetPtime, SetFixed, SetAdaptive, SetDiscard
  <2> QED
    BY <1>1, <2>1 DEF NoReplayStep
<1> QED
  BY <1>2, <1>3, <1>4, <1>5, <1>6 DEF Next

(* The read position never runs back over frames that were played or given *)
(* up, except by a reset or for a frame MAX_MISORDER and more behind it:   *)
(* whatever a put renumbers, flushes, removes and stores.                  *)
THEOREM NothingIsReplayed == Spec => NoReplay
  BY WindowInvariance, NextReplaysNothing, PTL DEF Spec, NoReplay, NoReplayStep

-----------------------------------------------------------------------------
(* The frames stored in a list, by their distances.                        *)
LEMMA StoredAt ==
  ASSUME NEW f \in FrameLists
  PROVE  Stored(f) = {At(f, d).frame : d \in {e \in Distances : At(f, e).type = NORMAL}}
<1>1. ASSUME NEW p \in Slots, f.type[p] = NORMAL
      PROVE  \E d \in Distances : At(f, d).type = NORMAL /\ At(f, d).frame = f.frame[p]
  BY <1>1, SlotAtOnto DEF At, FrameLists
<1>2. ASSUME NEW d \in Distances
      PROVE  /\ SlotAt(f, d) \in Slots
             /\ At(f, d).type = f.type[SlotAt(f, d)] /\ At(f, d).frame = f.frame[SlotAt(f, d)]
  BY SlotAtType DEF At, FrameLists, Distances
<1> QED
  BY <1>1, <1>2 DEF Stored

(* A put that fits stores its frame beside those there are.                *)
LEMMA PutLosesNothing ==
  ASSUME WInv, NEW s \in 0 .. MaxSeq, Put(s), jb.algo = NONE,
         s >= fl.origin, s < fl.origin + MaxCount
  PROVE  Stored(fl) \subseteq Stored(fl')
<1> DEFINE put == TryPut(fl, s)
           at == jb_framelist_put_at(fl, s)
           f1 == Renumber(fl, s)
<1>1. /\ IInv /\ fl \in FrameLists /\ s \in Int /\ Sound(fl)
      /\ fl.origin \in Int /\ fl.size \in Nat /\ MaxCount \in Nat \ {0}
  BY Given, JitterBufferAssumption, ListNumbers DEF WInv
<1>2. ~IsLate(fl, s)
  BY <1>1 DEF IsLate
<1>3. f1 \in FrameLists /\ f1.origin \in Int /\ f1.origin <= s /\ s - f1.origin < MaxCount
  <2>1. f1 = fl \/ (f1.origin = s /\ f1.size = 0)
    BY <1>1, RenumberCases, FarJumpSound DEF Rebased
  <2>2. f1 \in FrameLists /\ f1.origin \in Int
    BY <1>1, <1>2, RenumberType, ListNumbers
  <2> HIDE DEF f1
  <2> QED
    BY <1>1, <2>1, <2>2
<1>4. at = StoreAt(f1, s)
  BY <1>2, <1>3 DEF jb_framelist_put_at
<1>5. /\ s - f1.origin \in Distances
      /\ \/ at.fl = f1
         \/ StoredIn(f1, at.fl, s, s - f1.origin) /\ At(f1, s - f1.origin).type = MISSING
  <2> HIDE DEF f1, at
  <2> QED
    BY <1>1, <1>3, <1>4, StoreAtCases
<1>6. at.status \in {SUCCESS, EEXISTS} /\ put = at
  <2>1. StoreAt(f1, s) \in [fl : FrameLists, status : {SUCCESS, EEXISTS}]
    <3> HIDE DEF f1
    <3> QED
      BY <1>1, <1>3, StoreAtType
  <2>2. at.status \in {SUCCESS, EEXISTS}
    BY <1>4, <2>1
  <2>3. put = IF at.status = ETOOMANY THEN jb_framelist_put_at(MakeRoom(at.fl, s), s) ELSE at
    BY DEF TryPut
  <2> HIDE DEF put, at
  <2> QED
    BY <2>2, <2>3 DEF SUCCESS, EEXISTS, ETOOMANY
<1>7. at.fl \in FrameLists /\ Sound(at.fl)
  BY <1>1, PutAtCarries DEF Carries, Sound
<1>8. fl' = at.fl
  <2>1. PICK j \in GoodBuffers :
          SamePlan(jb, j) /\ fl' \in {put.fl, jbuf_update(put.fl, j, OP_PUT).fl}
    BY <1>1, PutUpdates
  <2>2. j.algo = NONE
    BY <2>1 DEF SamePlan
  <2> HIDE DEF put, at
  <2> QED
    BY <1>6, <1>7, <2>1, <2>2, UpdateKeeps
<1>9. \A d \in Distances : At(fl, d).type = NORMAL => At(at.fl, d) = At(fl, d)
  <2>1. \A d \in Distances : At(fl, d).type = NORMAL => At(f1, d) = At(fl, d)
    <3>1. CASE fl.size = 0
      BY <1>1, <3>1 DEF Sound, Clean, Distances, Blank, MISSING, NORMAL
    <3>2. CASE fl.size # 0
      BY <1>1, <3>2, RenumberCases
    <3> QED
      BY <3>1, <3>2
  <2> HIDE DEF f1, at
  <2>2. \A d \in Distances : At(f1, d).type = NORMAL => At(at.fl, d) = At(f1, d)
    BY <1>5 DEF StoredIn, MISSING, NORMAL
  <2> QED
    BY <2>1, <2>2
<1> HIDE DEF at
<1>10. /\ Stored(fl) = {At(fl, d).frame : d \in {e \in Distances : At(fl, e).type = NORMAL}}
       /\ Stored(at.fl) = {At(at.fl, d).frame :
                             d \in {e \in Distances : At(at.fl, e).type = NORMAL}}
  BY <1>1, <1>7, StoredAt
<1> QED
  BY <1>8, <1>9, <1>10

(* While the discard algorithm is off a put that fits costs no frame.      *)
THEOREM NothingIsLost == Spec => NoSilentLoss
<1> DEFINE Lossless ==
      \A s \in 0 .. MaxSeq :
        (jb.algo = NONE /\ Put(s) /\ s >= fl.origin /\ s < fl.origin + MaxCount)
          => Stored(fl) \subseteq Stored(fl')
<1>1. WInv /\ [Next]_vars => [Lossless]_vars
  BY PutLosesNothing
<1> QED
  BY <1>1, WindowInvariance, PTL DEF Spec, NoSilentLoss

-----------------------------------------------------------------------------
(***************************************************************************)
(* The jitter buffer implements the queue of JbufQueue, for every capacity *)
(* and every tuning: each call maps to a step of the queue.                *)
(***************************************************************************)

(* The list as a state of the queue.                                       *)
View(f) == Queue!Places(f.origin, Queued(f))
Contents == [type : FrameTypes, frame : Int \cup {NoFrame}]

-----------------------------------------------------------------------------
(* A function on the first n numbers is a sequence of n.                   *)
LEMMA FunctionIsSeq ==
  ASSUME NEW S, NEW n \in Nat, NEW s \in [1 .. n -> S]
  PROVE  s \in Seq(S) /\ Len(s) = n
<1>1. s \in Seq(S)
  BY SeqDef
<1>2. Len(s) \in Nat /\ DOMAIN s = 1 .. Len(s)
  BY <1>1, LenProperties
<1>3. 1 .. Len(s) = 1 .. n
  BY <1>2
<1>4. Len(s) = n
  BY <1>2, <1>3
<1> QED
  BY <1>1, <1>4

(* The window as a sequence: its length is the size, its i-th element what *)
(* lies i - 1 places after the head.                                       *)
LEMMA QueuedSeq ==
  ASSUME NEW f \in FrameLists
  PROVE  /\ Queued(f) \in Seq(Contents)
         /\ Len(Queued(f)) = f.size /\ DOMAIN Queued(f) = 1 .. f.size
         /\ \A i \in 1 .. f.size :
              /\ i - 1 \in Distances /\ Queued(f)[i] = At(f, i - 1)
              /\ Queued(f)[i] \in Contents
<1>1. f.size \in Nat /\ f.size <= MaxCount /\ MaxCount \in Nat
  BY ListNumbers
<1>2. \A i \in 1 .. f.size : i - 1 \in Distances
  BY <1>1 DEF Distances
<1>3. \A i \in 1 .. f.size : At(f, i - 1) \in Contents
  BY <1>2, AtType DEF Contents
<1>4. Queued(f) = [i \in 1 .. f.size |-> At(f, i - 1)]
  BY DEF Queued, At
<1>5. Queued(f) \in [1 .. f.size -> Contents]
  BY <1>3, <1>4
<1>6. Queued(f) \in Seq(Contents) /\ Len(Queued(f)) = f.size
  BY <1>1, <1>5, FunctionIsSeq
<1>7. DOMAIN Queued(f) = 1 .. f.size /\ \A i \in 1 .. f.size : Queued(f)[i] = At(f, i - 1)
  BY <1>4
<1> QED
  BY <1>2, <1>3, <1>6, <1>7

(* A sequence with the elements of a window is that window.                *)
LEMMA QueuedIs ==
  ASSUME NEW f \in FrameLists, NEW s \in Seq(Contents), Len(s) = f.size,
         \A i \in 1 .. f.size : s[i] = At(f, i - 1)
  PROVE  s = Queued(f)
<1>1. Queued(f) \in Seq(Contents) /\ Len(Queued(f)) = f.size
      /\ \A i \in 1 .. f.size : Queued(f)[i] = At(f, i - 1)
  BY QueuedSeq
<1> HIDE DEF Queued
<1> QED
  BY <1>1, SeqEqual

(* Moving the window on drops the first places.                            *)
LEMMA MovedIsDropped ==
  ASSUME NEW f \in FrameLists, NEW n \in 0 .. f.size, NEW g, MovedOn(f, g, n)
  PROVE  View(g) = Queue!Dropped(View(f), n)
<1>1. /\ f.origin \in Int /\ f.size \in Nat /\ f.size <= MaxCount /\ MaxCount \in Nat
      /\ g \in FrameLists /\ g.size = f.size - n /\ g.origin = f.origin + n
  BY ListNumbers DEF MovedOn
<1>2. /\ Queued(f) \in Seq(Contents) /\ Len(Queued(f)) = f.size
      /\ \A i \in 1 .. f.size : Queued(f)[i] = At(f, i - 1) /\ Queued(f)[i] \in Contents
  BY QueuedSeq
<1>3. View(f).q = Queued(f) /\ View(f).first = f.origin
  BY DEF View, Queue!Places
<1>4. CASE n = f.size
  <2>1. Queued(g) = <<>>
    <3>1. Queued(g) \in Seq(Contents) /\ Len(Queued(g)) = 0
      BY <1>1, <1>4, QueuedSeq
    <3> QED
      BY <3>1, EmptySeq
  <2>2. View(g) = Queue!Places(f.origin + f.size, <<>>)
    BY <1>1, <1>4, <2>1 DEF View
  <2> QED
    BY <1>1, <1>2, <1>3, <1>4, <2>2 DEF Queue!Dropped
<1>5. CASE n < f.size
  <2> DEFINE s == SubSeq(Queued(f), n + 1, f.size)
  <2>1. \A i \in n + 1 .. f.size : Queued(f)[i] \in Contents
    BY <1>2
  <2>2. /\ s \in Seq(Contents) /\ Len(s) = g.size
        /\ \A i \in 1 .. g.size : s[i] = Queued(f)[n + i]
    <3>1. n + 1 \in Int /\ f.size \in Int /\ n + 1 <= f.size
          /\ f.size - (n + 1) + 1 = g.size /\ \A i \in 1 .. g.size : n + 1 + i - 1 = n + i
      BY <1>1, <1>5
    <3> QED
      BY <2>1, <3>1, SubSeqProperties
  <2>3. \A i \in 1 .. g.size : s[i] = At(g, i - 1)
    <3>1. TAKE i \in 1 .. g.size
    <3>2. i - 1 \in Distances /\ (i - 1) + n = (n + i) - 1 /\ n + i \in 1 .. f.size
          /\ (i - 1) + n < MaxCount
      BY <1>1 DEF Distances
    <3>3. At(g, i - 1) = At(f, (n + i) - 1)
      BY <3>2 DEF MovedOn
    <3> QED
      BY <1>2, <2>2, <3>2, <3>3
  <2> HIDE DEF s
  <2>4. s = Queued(g)
    BY <1>1, <2>2, <2>3, QueuedIs
  <2>5. Queue!Dropped(View(f), n) = Queue!Places(f.origin + n, s)
    <3>1. ~(n >= Len(View(f).q)) /\ Len(View(f).q) = f.size
      BY <1>1, <1>2, <1>3, <1>5
    <3> QED
      BY <1>3, <3>1 DEF Queue!Dropped, s
  <2> QED
    BY <1>1, <2>4, <2>5 DEF View
<1> QED
  BY <1>1, <1>4, <1>5

(* Discarding a slot discards its place.                                   *)
LEMMA DiscardedIsDiscarded ==
  ASSUME NEW f \in FrameLists, NEW dist \in 0 .. f.size - 1, NEW g, DiscardedAt(f, g, dist)
  PROVE  dist + 1 \in DOMAIN Queued(f) /\ View(g) = Queue!Discarded(View(f), dist + 1)
<1>1. /\ f.size \in Nat /\ g \in FrameLists /\ g.size = f.size /\ g.origin = f.origin
  BY ListNumbers DEF DiscardedAt
<1>2. /\ DOMAIN Queued(f) = 1 .. f.size
      /\ Queued(f) = [i \in 1 .. f.size |-> At(f, i - 1)]
      /\ Queued(g) = [i \in 1 .. f.size |-> At(g, i - 1)]
      /\ \A i \in 1 .. f.size : i - 1 \in Distances
  BY <1>1, QueuedSeq DEF Queued, At
<1> DEFINE s == [Queued(f) EXCEPT ![dist + 1].type = "discarded"]
<1>3. s = Queued(g)
  <2>1. ASSUME NEW i \in 1 .. f.size
        PROVE  s[i] = At(g, i - 1)
    <3>1. At(g, i - 1) = IF i - 1 = dist THEN [At(f, i - 1) EXCEPT !.type = DISCARDED]
                         ELSE At(f, i - 1)
      BY <1>2 DEF DiscardedAt
    <3>2. i - 1 = dist <=> i = dist + 1
      BY <1>1
    <3> QED
      BY <1>1, <1>2, <3>1, <3>2 DEF DISCARDED
  <2>2. s = [i \in 1 .. f.size |-> s[i]]
    BY <1>2
  <2> HIDE DEF s
  <2> QED
    BY <1>2, <2>1, <2>2
<1>4. Queue!Discarded(View(f), dist + 1) = [View(f) EXCEPT !.q = s]
  BY DEF Queue!Discarded, View, Queue!Places
<1> HIDE DEF s
<1>5. Queue!Discarded(View(f), dist + 1) = View(g)
  BY <1>1, <1>3, <1>4 DEF View, Queue!Places
<1> QED
  BY <1>1, <1>2, <1>5

(* The discard algorithms follow the policy the queue leaves open.         *)
LEMMA PolicyIsPolicy ==
  ASSUME NEW f \in FrameLists, NEW g \in Policies(f)
  PROVE  View(g) \in Queue!AfterPolicy(View(f))
<1>1. View(f).q = Queued(f)
  BY DEF View, Queue!Places
<1>2. CASE g = f
  BY <1>2 DEF Queue!AfterPolicy
<1>3. CASE g = jb_framelist_remove_head(f, 1)
  <2> DEFINE n == IF 1 > f.size THEN f.size ELSE 1
  <2>1. 1 \in Nat /\ f.size \in Nat
    BY ListNumbers
  <2>2. n \in 0 .. f.size /\ MovedOn(f, g, n)
    BY <1>3, <2>1, RemoveHeadMoves
  <2>3. View(g) = Queue!Dropped(View(f), n)
    <3> HIDE DEF n
    <3> QED
      BY <2>2, MovedIsDropped
  <2>4. n = 1 \/ (n = 0 /\ f.size = 0)
    BY <2>1
  <2> HIDE DEF n
  <2>5. CASE n = 1
    BY <2>3, <2>5 DEF Queue!AfterPolicy
  <2>6. CASE n = 0 /\ f.size = 0
    <3>1. Len(View(f).q) = 0
      BY <1>1, <2>6, QueuedSeq
    <3>2. Queue!Dropped(View(f), 0) = Queue!Dropped(View(f), 1)
      BY <3>1 DEF Queue!Dropped
    <3> QED
      BY <2>3, <2>6, <3>2 DEF Queue!AfterPolicy
  <2> QED
    BY <2>4, <2>5, <2>6
<1>4. ASSUME NEW i \in Int, g = jb_framelist_discard(f, i)
      PROVE  View(g) \in Queue!AfterPolicy(View(f))
  <2> DEFINE dist == i - f.origin
  <2>1. g = f \/ (dist \in 0 .. f.size - 1 /\ DiscardedAt(f, g, dist))
    BY <1>4, DiscardCases
  <2> HIDE DEF dist
  <2>2. CASE dist \in 0 .. f.size - 1 /\ DiscardedAt(f, g, dist)
    <3>1. dist + 1 \in DOMAIN View(f).q /\ View(g) = Queue!Discarded(View(f), dist + 1)
      BY <1>1, <2>2, DiscardedIsDiscarded
    <3> QED
      BY <3>1 DEF Queue!AfterPolicy
  <2> QED
    BY <1>2, <2>1, <2>2
<1> QED
  BY <1>2, <1>3, <1>4 DEF Policies

(* Storing a frame puts it at its place, behind gaps if need be.           *)
LEMMA StoredIsStored ==
  ASSUME NEW f, Sound(f), NEW index \in Int, NEW dist \in Distances,
         index = f.origin + dist, NEW g, StoredIn(f, g, index, dist)
  PROVE  View(g) = Queue!Stored(View(f), index)
<1>1. /\ f \in FrameLists /\ f.origin \in Int /\ f.size \in Nat /\ f.size <= MaxCount
      /\ g \in FrameLists /\ g.origin = f.origin /\ dist \in Nat
      /\ g.size = IF f.size <= dist THEN dist + 1 ELSE f.size
      /\ MaxCount \in Nat
  BY ListNumbers DEF Sound, StoredIn, Distances
<1>2. /\ Queued(f) \in Seq(Contents) /\ Len(Queued(f)) = f.size
      /\ \A i \in 1 .. f.size :
           /\ i - 1 \in Distances /\ Queued(f)[i] = At(f, i - 1)
           /\ Queued(f)[i] \in Contents
  BY <1>1, QueuedSeq
<1>3. View(f).q = Queued(f) /\ View(f).first = f.origin
  BY DEF View, Queue!Places
<1> DEFINE frame == [type |-> NORMAL, frame |-> index]
           place == dist + 1
<1>4. frame = Queue!Frame(index) /\ frame \in Contents /\ index - f.origin + 1 = place
      /\ Blank = Queue!Gap /\ Blank \in Contents
  BY <1>1 DEF Queue!Frame, Queue!Gap, NORMAL, MISSING, Blank, Contents, FrameTypes
<1>5. \A d \in Distances : At(g, d) = IF d = dist THEN frame ELSE At(f, d)
  BY DEF StoredIn
<1> HIDE DEF frame
<1>6. CASE place <= f.size
  <2> DEFINE s == [Queued(f) EXCEPT ![place] = frame]
  <2>1. place \in 1 .. Len(Queued(f)) /\ g.size = f.size
    BY <1>1, <1>2, <1>6
  <2>2. /\ s \in Seq(Contents) /\ Len(s) = g.size
        /\ \A i \in 1 .. f.size : s[i] = IF i = place THEN frame ELSE Queued(f)[i]
    BY <1>2, <1>4, <2>1, ExceptSeq
  <2>3. \A i \in 1 .. g.size : s[i] = At(g, i - 1)
    <3>1. TAKE i \in 1 .. g.size
    <3>2. i - 1 \in Distances /\ Queued(f)[i] = At(f, i - 1) /\ (i - 1 = dist <=> i = place)
          /\ i \in 1 .. f.size
      BY <1>1, <1>2, <2>1
    <3> QED
      BY <1>5, <2>2, <3>2
  <2>4. Queue!Stored(View(f), index) = [View(f) EXCEPT !.q = s]
    BY <1>2, <1>3, <1>4, <1>6 DEF Queue!Stored
  <2> HIDE DEF s
  <2>5. s = Queued(g)
    BY <1>1, <2>2, <2>3, QueuedIs
  <2> QED
    BY <1>1, <2>4, <2>5 DEF View, Queue!Places
<1>7. CASE ~(place <= f.size)
  <2> DEFINE more == dist - f.size
             gaps == [i \in 1 .. more |-> Blank]
             s == Queued(f) \o gaps \o <<frame>>
  <2>1. more \in Nat /\ g.size = f.size + more + 1 /\ place - 1 - f.size = more
    BY <1>1, <1>7
  <2>2. gaps \in Seq(Contents) /\ Len(gaps) = more /\ \A i \in 1 .. more : gaps[i] = Blank
    <3>1. gaps \in [1 .. more -> Contents] /\ \A i \in 1 .. more : gaps[i] = Blank
      BY <1>4
    <3> HIDE DEF more, gaps
    <3> QED
      BY <2>1, <3>1, FunctionIsSeq
  <2>3. <<frame>> \in Seq(Contents) /\ Len(<<frame>>) = 1 /\ <<frame>>[1] = frame
    BY <1>4
  <2>4. Queue!Stored(View(f), index) = [View(f) EXCEPT !.q = s]
    <3>1. Len(View(f).q) = f.size /\ View(f).first = f.origin
      BY <1>2, <1>3
    <3>2. /\ ~(index - f.origin + 1 <= f.size)
          /\ (index - f.origin + 1) - 1 - f.size = more
      BY <1>1, <1>4, <1>7, <2>1
    <3>3. /\ ~(index - View(f).first + 1 <= Len(View(f).q))
          /\ (index - View(f).first + 1) - 1 - Len(View(f).q) = more
      BY <3>1, <3>2
    <3> HIDE DEF more, place
    <3> QED
      BY <1>3, <1>4, <3>3 DEF Queue!Stored
  <2> HIDE DEF gaps, more
  <2> DEFINE t == Queued(f) \o gaps
  <2>5. /\ t \in Seq(Contents) /\ Len(t) = f.size + more
        /\ \A i \in 1 .. f.size + more : t[i] = IF i <= f.size THEN Queued(f)[i] ELSE gaps[i - f.size]
    <3>1. /\ Queued(f) \o gaps \in Seq(Contents)
          /\ Len(Queued(f) \o gaps) = Len(Queued(f)) + Len(gaps)
          /\ \A i \in 1 .. Len(Queued(f)) + Len(gaps) :
               (Queued(f) \o gaps)[i] = IF i <= Len(Queued(f)) THEN Queued(f)[i]
                                        ELSE gaps[i - Len(Queued(f))]
      BY <1>2, <2>2, ConcatProperties
    <3>2. Len(Queued(f)) = f.size /\ Len(gaps) = more
      BY <1>2, <2>2
    <3> QED
      BY <3>1, <3>2
  <2> HIDE DEF t
  <2>6. /\ s \in Seq(Contents) /\ Len(s) = g.size
        /\ \A i \in 1 .. g.size : s[i] = IF i <= f.size + more THEN t[i] ELSE <<frame>>[i - (f.size + more)]
    <3>1. /\ t \o <<frame>> \in Seq(Contents) /\ Len(t \o <<frame>>) = Len(t) + 1
          /\ \A i \in 1 .. Len(t) + 1 :
               (t \o <<frame>>)[i] = IF i <= Len(t) THEN t[i] ELSE <<frame>>[i - Len(t)]
      BY <2>3, <2>5, ConcatProperties
    <3>2. s = t \o <<frame>>
      BY DEF t
    <3> HIDE DEF s
    <3> QED
      BY <2>1, <2>5, <3>1, <3>2
  <2> HIDE DEF s
  <2>7. \A i \in 1 .. g.size : s[i] = At(g, i - 1)
    <3>1. SUFFICES ASSUME NEW i \in 1 .. g.size PROVE s[i] = At(g, i - 1)
      OBVIOUS
    <3>2. /\ i \in Nat /\ i - 1 \in Distances /\ i <= dist + 1 /\ f.size + more = dist
          /\ (i - 1 = dist <=> i = dist + 1)
      BY <1>1, <1>7, <2>1 DEF Distances, more
    <3>3. CASE i <= f.size
      <4>1. i \in 1 .. f.size /\ i <= f.size + more /\ i \in 1 .. f.size + more /\ i - 1 # dist
        BY <1>1, <1>7, <2>1, <3>1, <3>2, <3>3
      <4> QED
        BY <1>2, <1>5, <2>5, <2>6, <3>1, <3>2, <3>3, <4>1
    <3>4. CASE f.size < i /\ i <= dist
      <4>1. /\ i \in 1 .. f.size + more /\ i - f.size \in 1 .. more /\ i - 1 # dist
            /\ i - 1 >= f.size
        BY <1>1, <2>1, <3>1, <3>2, <3>4
      <4>2. s[i] = Blank
        <5>1. s[i] = t[i]
          BY <2>6, <3>2, <3>4
        <5>2. t[i] = gaps[i - f.size]
          BY <2>5, <4>1, <3>4, <1>1, <3>2
        <5>3. gaps[i - f.size] = Blank
          BY <2>2, <4>1
        <5> QED
          BY <5>1, <5>2, <5>3
      <4>3. At(f, i - 1) = Blank
        BY <3>2, <4>1 DEF Sound, Clean
      <4> QED
        BY <1>5, <3>2, <4>1, <4>2, <4>3
    <3>5. CASE i = dist + 1
      <4>1. i - (f.size + more) = 1 /\ ~(i <= f.size + more)
        BY <1>1, <3>2, <3>5
      <4>2. s[i] = frame
        BY <2>3, <2>6, <3>1, <4>1
      <4> QED
        BY <1>5, <3>2, <3>5, <4>2
    <3> QED
      BY <1>1, <3>2, <3>3, <3>4, <3>5
  <2>8. s = Queued(g)
    BY <1>1, <2>6, <2>7, QueuedIs
  <2> QED
    BY <1>1, <2>4, <2>8 DEF View, Queue!Places
<1> QED
  BY <1>6, <1>7

(* An empty window is an empty queue.                                      *)
LEMMA EmptyView ==
  ASSUME NEW f \in FrameLists, f.size = 0
  PROVE  View(f) = Queue!Places(f.origin, <<>>)
<1>1. Queued(f) \in Seq(Contents) /\ Len(Queued(f)) = 0
  BY QueuedSeq
<1>2. Queued(f) = <<>>
  BY <1>1, EmptySeq
<1> QED
  BY <1>2 DEF View

(* What the queue reads of the list.                                       *)
LEMMA ViewIs ==
  ASSUME NEW f \in FrameLists
  PROVE  /\ View(f).first = f.origin /\ View(f).q = Queued(f)
         /\ Len(View(f).q) = f.size /\ DOMAIN View(f).q = 1 .. f.size
         /\ (Queued(f) = <<>> <=> f.size = 0)
<1>1. View(f).first = f.origin /\ View(f).q = Queued(f)
  BY DEF View, Queue!Places
<1>2. Len(Queued(f)) = f.size /\ DOMAIN Queued(f) = 1 .. f.size /\ Queued(f) \in Seq(Contents)
  BY QueuedSeq
<1>3. Queued(f) = <<>> <=> Len(Queued(f)) = 0
  BY <1>2, EmptySeq
<1> QED
  BY <1>1, <1>2, <1>3

(* The numbering a put settles on.                                         *)
LEMMA RenumberedIs ==
  ASSUME Sound(fl), NEW s \in Int
  PROVE  View(Renumber(fl, s)) = Queue!Renumbered(s)
<1> DEFINE g == Renumber(fl, s)
<1>1. fl \in FrameLists /\ fl.origin \in Int /\ fl.size \in Nat
  BY ListNumbers DEF Sound
<1>2. /\ Len(Queued(fl)) = fl.size /\ (Queued(fl) = <<>> <=> fl.size = 0)
      /\ Queue!Now = View(fl)
  BY <1>1, ViewIs DEF Queue!Now, View
<1>3. Queue!AtWrap <=> AtWrap(fl)
  BY <1>2 DEF Queue!AtWrap, AtWrap
<1>4. \/ fl.size # 0 /\ s >= fl.origin /\ g = fl
      \/ fl.size # 0 /\ s < fl.origin /\ AtWrap(fl) /\ Rebased(fl, g, s)
      \/ fl.size # 0 /\ s < fl.origin /\ ~AtWrap(fl) /\ g = FarJump(s)
      \/ fl.size = 0 /\ (g = FarJump(s) \/ Rebased(fl, g, s))
  BY RenumberCases
<1> HIDE DEF g
<1>5. g = FarJump(s) => View(g) = Queue!Places(s, <<>>)
  BY FarJumpSound, EmptyView
<1>6. ASSUME Rebased(fl, g, s)
      PROVE  View(g) = Queue!Places(s - Len(Queued(fl)), Queued(fl))
  <2>1. /\ Queued(fl) \in Seq(Contents) /\ Len(Queued(fl)) = g.size
        /\ \A i \in 1 .. g.size : Queued(fl)[i] = At(g, i - 1)
    BY <1>1, <1>6, QueuedSeq DEF Rebased
  <2>2. Queued(fl) = Queued(g)
    BY <1>6, <2>1, QueuedIs DEF Rebased
  <2> QED
    BY <1>2, <1>6, <2>2 DEF View, Rebased
<1>7. CASE fl.size # 0 /\ s >= fl.origin /\ g = fl
  BY <1>2, <1>7 DEF Queue!Renumbered, g
<1>8. CASE fl.size # 0 /\ s < fl.origin /\ AtWrap(fl) /\ Rebased(fl, g, s)
  <2>1. ~(s >= fl.origin)
    BY <1>1, <1>8
  <2> QED
    BY <1>2, <1>3, <1>6, <1>8, <2>1, Zenon DEF Queue!Renumbered, g
<1>9. CASE fl.size # 0 /\ s < fl.origin /\ ~AtWrap(fl) /\ g = FarJump(s)
  <2>1. ~(s >= fl.origin)
    BY <1>1, <1>9
  <2> QED
    BY <1>2, <1>3, <1>5, <1>9, <2>1, Zenon DEF Queue!Renumbered, g
<1>10. CASE fl.size = 0 /\ (g = FarJump(s) \/ Rebased(fl, g, s))
  <2>1. Queue!Renumbered(s) = Queue!Places(s, <<>>)
    BY <1>2, <1>10 DEF Queue!Renumbered
  <2>2. CASE g = FarJump(s)
    BY <1>5, <2>1, <2>2 DEF g
  <2>3. CASE Rebased(fl, g, s)
    <3>1. g \in FrameLists /\ g.size = 0 /\ g.origin = s
      BY <1>10, <2>3 DEF Rebased
    <3> QED
      BY <2>1, <3>1, EmptyView DEF g
  <2> QED
    BY <1>10, <2>2, <2>3
<1> QED
  BY <1>4, <1>7, <1>8, <1>9, <1>10

(* pjmedia_jbuf_put_frame3 stores the frame in a list that has its place:  *)
(* the renumbered one, one started at the frame, or one moved on for it.   *)
LEMMA RoomIsRoom ==
  ASSUME Sound(fl), NEW s \in Int, ~IsLate(fl, s)
  PROVE  \E h : /\ Sound(h) /\ h.origin <= s /\ s - h.origin < MaxCount
                /\ View(h) = Queue!WithRoom(Queue!Renumbered(s), s)
                /\ TryPut(fl, s) = StoreAt(h, s)
                /\ h = fl \/ End(h) <= s
<1> DEFINE f1 == Renumber(fl, s)
           first == jb_framelist_put_at(fl, s)
           dist == s - f1.origin
           jump == FarJump(s)
           Room(h) == /\ Sound(h) /\ h.origin <= s /\ s - h.origin < MaxCount
                      /\ View(h) = Queue!WithRoom(View(f1), s)
                      /\ TryPut(fl, s) = StoreAt(h, s)
                      /\ h = fl \/ End(h) <= s
<1>1. fl \in FrameLists /\ fl.origin \in Int /\ fl.size \in Nat /\ MaxCount \in Nat \ {0}
      /\ MAX_DROPOUT \in Nat
  BY ListNumbers, FrameListAssumption DEF Sound
<1>2. Sound(f1) /\ f1 \in FrameLists /\ f1.origin <= s
  BY <1>1, RenumberCarries, RenumberType DEF Carries
<1>3. /\ f1.origin \in Int /\ f1.size \in Nat /\ f1.size <= MaxCount /\ dist \in Nat
      /\ End(f1) = f1.origin + f1.size
  BY <1>2, ListNumbers DEF End
<1>4. f1 = fl \/ End(f1) <= s
  <2>1. f1 = fl \/ (f1.size = 0 /\ f1.origin = s) \/ Rebased(fl, f1, s)
    BY <1>1, RenumberCases, FarJumpSound
  <2> HIDE DEF f1
  <2>2. Rebased(fl, f1, s) => f1.origin + f1.size = s
    BY <1>1, <1>3 DEF Rebased
  <2> QED
    BY <1>3, <2>1, <2>2
<1>5. first = IF dist < MaxCount THEN StoreAt(f1, s)
              ELSE IF dist > MAX_DROPOUT THEN StoreAt(jump, s)
              ELSE [fl |-> f1, status |-> ETOOMANY]
  BY DEF jb_framelist_put_at
<1>6. TryPut(fl, s) = IF first.status = ETOOMANY
                      THEN jb_framelist_put_at(MakeRoom(first.fl, s), s) ELSE first
  BY DEF TryPut
<1>7. /\ View(f1).first = f1.origin /\ View(f1).q = Queued(f1) /\ Len(View(f1).q) = f1.size
  BY <1>2, ViewIs
<1>8. View(f1) = Queue!Renumbered(s)
  BY RenumberedIs
<1>9. /\ jump \in FrameLists /\ Sound(jump) /\ jump.size = 0 /\ jump.origin = s
      /\ View(jump) = Queue!Places(s, <<>>)
  BY FarJumpSound, EmptyIsSound, EmptyView
<1> DEFINE v == View(f1)
<1>10. Queue!WithRoom(v, s) =
         IF dist < MaxCount THEN v
         ELSE IF dist > MAX_DROPOUT \/ dist - MaxCount + 1 >= f1.size
              THEN Queue!Places(s, <<>>)
         ELSE Queue!Dropped(v, dist - MaxCount + 1)
  BY <1>7 DEF Queue!WithRoom
<1> HIDE DEF first, f1, jump, v, dist
<1>11. CASE dist < MaxCount
  <2>1. first = StoreAt(f1, s) /\ first.status # ETOOMANY
    <3>1. s - f1.origin < MaxCount
      BY <1>11 DEF dist
    <3>2. StoreAt(f1, s).status # ETOOMANY
      BY <1>2, <3>1, StoreAtType DEF SUCCESS, EEXISTS, ETOOMANY
    <3> QED
      BY <1>5, <1>11, <3>2
  <2>2. s - f1.origin < MaxCount
    BY <1>11 DEF dist
  <2>3. View(f1) = Queue!WithRoom(View(f1), s)
    BY <1>10, <1>11 DEF v
  <2>4. TryPut(fl, s) = StoreAt(f1, s)
    BY <1>6, <2>1
  <2>5. Room(f1)
    BY <1>2, <1>4, <2>2, <2>3, <2>4
  <2> QED
    BY <1>8, <2>5
<1>12. CASE ~(dist < MaxCount) /\ dist > MAX_DROPOUT
  <2>1. first = StoreAt(jump, s)
    BY <1>5, <1>12
  <2>2. jump.origin <= s /\ s - jump.origin < MaxCount /\ End(jump) <= s
    BY <1>1, <1>9 DEF End
  <2>3. first.status # ETOOMANY
    BY <1>9, <2>1, <2>2, StoreAtType DEF SUCCESS, EEXISTS, ETOOMANY
  <2>4. View(jump) = Queue!WithRoom(View(f1), s)
    BY <1>9, <1>10, <1>12 DEF v
  <2>5. Room(jump)
    BY <1>6, <1>9, <2>1, <2>2, <2>3, <2>4
  <2> QED
    BY <1>8, <2>5
<1>13. CASE ~(dist < MaxCount) /\ ~(dist > MAX_DROPOUT)
  <2> DEFINE count == dist - MaxCount + 1
             room == jb_framelist_remove_head(f1, count)
             n == IF count > f1.size THEN f1.size ELSE count
             h == Renumber(room, s)
  <2>1. count \in Nat /\ count >= 1
    BY <1>1, <1>3, <1>13
  <2>2. TryPut(fl, s) = jb_framelist_put_at(room, s)
    BY <1>5, <1>6, <1>13 DEF MakeRoom, dist
  <2>3. n \in 0 .. f1.size /\ MovedOn(f1, room, n) /\ Sound(room)
    BY <1>2, <2>1, RemoveHeadMoves, RemoveHeadCarries DEF Carries
  <2>4. /\ room \in FrameLists /\ room.size = f1.size - n /\ room.origin = f1.origin + n
    BY <2>3 DEF MovedOn
  <2>5. /\ room.origin <= s /\ room.origin \in Int /\ room.size \in Nat
        /\ room.size # 0 => n = count /\ count < f1.size /\ s - room.origin < MaxCount
                            /\ room.origin + room.size <= s
        /\ room.size = 0 => n = f1.size /\ count >= f1.size
    BY <1>1, <1>3, <1>13, <2>1, <2>4 DEF dist
  <2> HIDE DEF room, n
  <2>6. ~IsLate(room, s)
    BY <2>5 DEF IsLate
  <2>7. Sound(h) /\ h \in FrameLists /\ h.origin <= s
        /\ (room.size = 0 => h.size = 0 /\ h.origin = s)
        /\ (room.size # 0 => h = room)
    <3>1. Sound(h) /\ h \in FrameLists /\ h.origin <= s
          /\ (s >= room.origin /\ room.size # 0 => h = room)
      BY <2>3, <2>4, <2>6, RenumberCarries, RenumberType DEF Carries
    <3>2. room.size = 0 => h.size = 0 /\ h.origin = s
      <4>1. room.size = 0 => h = FarJump(s) \/ Rebased(room, h, s)
        BY <2>3, RenumberCases
      <4>2. Rebased(room, h, s) /\ room.size = 0 => h.size = 0 /\ h.origin = s
        BY DEF Rebased
      <4> HIDE DEF h
      <4> QED
        BY <4>1, <4>2, FarJumpSound
    <3> HIDE DEF h
    <3> QED
      BY <2>5, <3>1, <3>2
  <2>8. jb_framelist_put_at(room, s) =
          IF s - h.origin < MaxCount THEN StoreAt(h, s)
          ELSE IF s - h.origin > MAX_DROPOUT THEN StoreAt(FarJump(s), s)
          ELSE [fl |-> h, status |-> ETOOMANY]
    BY <2>6 DEF jb_framelist_put_at
  <2> HIDE DEF h
  <2>9. s - h.origin < MaxCount /\ h.origin + h.size <= s
    BY <1>1, <2>5, <2>7
  <2>10. View(h) = Queue!WithRoom(v, s)
    <3>1. CASE room.size = 0
      <4>1. Queue!WithRoom(v, s) = Queue!Places(s, <<>>)
        BY <1>10, <1>13, <2>5, <3>1
      <4> QED
        BY <2>7, <3>1, <4>1, EmptyView
    <3>2. CASE room.size # 0
      <4>1. Queue!WithRoom(v, s) = Queue!Dropped(v, count)
        <5>1. ~(count >= f1.size)
          BY <1>3, <2>1, <2>5, <3>2
        <5> QED
          BY <1>10, <1>13, <5>1
      <4>2. View(room) = Queue!Dropped(v, n)
        BY <1>2, <2>3, MovedIsDropped DEF v
      <4> QED
        BY <2>5, <2>7, <3>2, <4>1, <4>2
    <3> QED
      BY <3>1, <3>2
  <2>11. TryPut(fl, s) = StoreAt(h, s)
    BY <2>2, <2>8, <2>9
  <2>12. Room(h)
    BY <2>7, <2>9, <2>10, <2>11 DEF v, End
  <2> QED
    BY <1>8, <2>12
<1> QED
  BY <1>11, <1>12, <1>13

(* What TryPut returns is what the queue answers.                          *)
LEMMA TryPutAnswers ==
  ASSUME Sound(fl), NEW s \in Int
  PROVE  LET put == TryPut(fl, s)
             w == Queue!WithRoom(Queue!Renumbered(s), s)
             place == s - w.first + 1
         IN  \/ /\ Queue!Late(s)
                /\ put.fl = fl /\ put.status = ETOOSMALL
             \/ /\ s - fl.origin + 1 \in DOMAIN Queued(fl)
                /\ Queued(fl)[s - fl.origin + 1] # Queue!Gap
                /\ put.fl = fl /\ put.status = EEXISTS
             \/ /\ ~Queue!Late(s) /\ (place > Len(w.q) \/ w.q[place] = Queue!Gap)
                /\ put.status = SUCCESS /\ Sound(put.fl)
                /\ View(put.fl) = Queue!Stored(w, s)
<1> DEFINE put == TryPut(fl, s)
           w == Queue!WithRoom(Queue!Renumbered(s), s)
           place == s - w.first + 1
           Result ==
             \/ /\ Queue!Late(s)
                /\ put.fl = fl /\ put.status = ETOOSMALL
             \/ /\ s - fl.origin + 1 \in DOMAIN Queued(fl)
                /\ Queued(fl)[s - fl.origin + 1] # Queue!Gap
                /\ put.fl = fl /\ put.status = EEXISTS
             \/ /\ ~Queue!Late(s) /\ (place > Len(w.q) \/ w.q[place] = Queue!Gap)
                /\ put.status = SUCCESS /\ Sound(put.fl)
                /\ View(put.fl) = Queue!Stored(w, s)
<1>1. Queue!Late(s) <=> IsLate(fl, s)
  BY DEF Queue!Late, IsLate
<1>2. ASSUME IsLate(fl, s) PROVE Result
  <2>1. jb_framelist_put_at(fl, s) = [fl |-> fl, status |-> ETOOSMALL]
    BY <1>2 DEF jb_framelist_put_at
  <2>2. put = jb_framelist_put_at(fl, s)
    BY <2>1 DEF TryPut, ETOOSMALL, ETOOMANY
  <2> HIDE DEF put
  <2> QED
    BY <1>1, <1>2, <2>1, <2>2
<1>3. ASSUME ~IsLate(fl, s) PROVE Result
  <2>1. PICK h : /\ Sound(h) /\ h.origin <= s /\ s - h.origin < MaxCount
                 /\ View(h) = w /\ put = StoreAt(h, s)
                 /\ h = fl \/ End(h) <= s
    BY <1>3, RoomIsRoom
  <2> DEFINE dist == s - h.origin
  <2>2. /\ h \in FrameLists /\ h.origin \in Int /\ h.size \in Nat /\ h.size <= MaxCount
        /\ dist \in Int /\ End(h) = h.origin + h.size
    BY <2>1, ListNumbers DEF Sound, End
  <2>3. /\ dist \in Distances
        /\ \/ /\ At(h, dist).type # MISSING
              /\ put.fl = h /\ put.status = EEXISTS
           \/ /\ At(h, dist).type = MISSING
              /\ put.status = SUCCESS /\ StoredIn(h, put.fl, s, dist)
    BY <2>1, <2>2, StoreAtCases
  <2>4. /\ w.first = h.origin /\ w.q = Queued(h) /\ Len(w.q) = h.size
        /\ DOMAIN Queued(h) = 1 .. h.size /\ place = dist + 1
    BY <2>1, <2>2, ViewIs
  <2>5. \A i \in 1 .. h.size : Queued(h)[i] = At(h, i - 1)
    BY <2>2, QueuedSeq
  <2>6. Blank = Queue!Gap
    BY DEF Blank, Queue!Gap, MISSING
  <2>7. dist + 1 \in Nat /\ dist + 1 - 1 = dist /\ s = h.origin + dist
        /\ (dist < h.size => dist + 1 \in 1 .. h.size)
    BY <2>2, <2>3 DEF Distances
  <2> HIDE DEF w, put, dist
  <2>8. dist < h.size => Queued(h)[dist + 1] = At(h, dist)
    <3>1. SUFFICES ASSUME dist < h.size PROVE Queued(h)[dist + 1] = At(h, dist)
      OBVIOUS
    <3> DEFINE i == dist + 1
    <3>2. i \in 1 .. h.size /\ i - 1 = dist
      BY <2>2, <2>3, <3>1 DEF Distances
    <3> HIDE DEF i
    <3>3. Queued(h)[i] = At(h, dist)
      BY <2>5, <3>2
    <3> QED
      BY <3>3 DEF i
  <2>9. CASE At(h, dist).type # MISSING
    <3>1. dist < h.size
      <4>1. SUFFICES ASSUME dist >= h.size PROVE FALSE
        BY <2>2
      <4>2. At(h, dist) = Blank
        BY <2>1, <2>3, <4>1 DEF Sound, Clean
      <4> QED
        BY <2>9, <4>2 DEF Blank
    <3>2. h = fl
      <4>1. ~(End(h) <= s)
        BY <2>2, <2>7, <3>1
      <4> QED
        BY <2>1, <4>1
    <3>3. Queued(h)[dist + 1] = At(h, dist)
      BY <2>8, <3>1
    <3>4. At(h, dist) # Blank
      BY <2>9 DEF Blank
    <3>5. put.fl = h /\ put.status = EEXISTS
      BY <2>3, <2>9
    <3>6. dist + 1 \in DOMAIN Queued(h) /\ Queued(h)[dist + 1] # Queue!Gap
      BY <2>4, <2>6, <2>7, <3>1, <3>3, <3>4
    <3>7. dist + 1 = s - fl.origin + 1
      BY <3>2 DEF dist
    <3> QED
      BY <3>2, <3>5, <3>6, <3>7
  <2>10. CASE At(h, dist).type = MISSING
    <3>1. place > Len(w.q) \/ w.q[place] = Queue!Gap
      <4>1. SUFFICES ASSUME ~(place > Len(w.q)) PROVE w.q[place] = Queue!Gap
        OBVIOUS
      <4>2. dist < h.size
        BY <2>2, <2>4, <4>1
      <4>3. w.q[place] = At(h, dist)
        BY <2>4, <2>8, <4>2
      <4>4. At(h, dist) = Blank
        BY <2>1, <2>3, <2>10 DEF Sound, Emptied
      <4> QED
        BY <2>6, <4>3, <4>4
    <3>2. put.status = SUCCESS /\ StoredIn(h, put.fl, s, dist)
      BY <2>3, <2>10
    <3>3. Sound(put.fl)
      BY <2>1, StoreAtCarries DEF Carries
    <3>4. View(put.fl) = Queue!Stored(w, s)
      BY <2>1, <2>3, <2>7, <3>2, StoredIsStored
    <3> QED
      BY <1>1, <1>3, <3>1, <3>2, <3>3, <3>4
  <2> QED
    BY <2>9, <2>10
<1> QED
  BY <1>2, <1>3

-----------------------------------------------------------------------------
(* The queue becomes what the list became.                                 *)
LEMMA BecomesView == Queue!Become(View(fl'))
  BY DEF Queue!Become, View, Queue!Places

(* What a discard policy does to the list is what the queue allows a       *)
(* policy to do.                                                           *)
LEMMA PolicyStep ==
  ASSUME NEW f, Sound(f), fl' \in Policies(f)
  PROVE  \E w \in Queue!AfterPolicy(View(f)) : Queue!Become(w)
<1>1. View(fl') \in Queue!AfterPolicy(View(f))
  BY PolicyIsPolicy DEF Sound
<1> QED
  BY <1>1, BecomesView

(* pjmedia_jbuf_put_frame3.                                                *)
LEMMA PutMaps ==
  ASSUME WInv, NEW s \in 0 .. MaxSeq, Put(s)
  PROVE  Queue!Accept(s) \/ Queue!Refuse(s)
<1> DEFINE put == TryPut(fl, s)
           w == Queue!WithRoom(Queue!Renumbered(s), s)
           place == s - w.first + 1
<1>1. IInv /\ Sound(fl) /\ s \in Int
  BY JitterBufferAssumption DEF WInv
<1>2. PICK j \in GoodBuffers :
        IF put.status = SUCCESS
        THEN /\ fl' = jbuf_update(put.fl, j, OP_PUT).fl
             /\ jb' = jbuf_update(put.fl, j, OP_PUT).jb
        ELSE fl' = put.fl /\ jb' = jb
  BY <1>1, PutUpdates
<1>3. out' = [NoOut EXCEPT !.type = put.status]
  BY DEF Put
<1>4. \/ /\ Queue!Late(s)
         /\ put.fl = fl /\ put.status = ETOOSMALL
      \/ /\ s - fl.origin + 1 \in DOMAIN Queued(fl)
         /\ Queued(fl)[s - fl.origin + 1] # Queue!Gap
         /\ put.fl = fl /\ put.status = EEXISTS
      \/ /\ ~Queue!Late(s) /\ (place > Len(w.q) \/ w.q[place] = Queue!Gap)
         /\ put.status = SUCCESS /\ Sound(put.fl)
         /\ View(put.fl) = Queue!Stored(w, s)
  BY <1>1, TryPutAnswers
<1> HIDE DEF put
<1>5. ASSUME put.fl = fl, put.status # SUCCESS
      PROVE  UNCHANGED <<fl.origin, Queued(fl)>>
  <2>1. fl' = fl
    BY <1>2, <1>5
  <2> QED
    BY <2>1 DEF Queued
<1>6. CASE Queue!Late(s) /\ put.fl = fl /\ put.status = ETOOSMALL
  <2>1. put.status # SUCCESS /\ out' = [NoOut EXCEPT !.type = "too_small"]
    BY <1>3, <1>6 DEF SUCCESS, ETOOSMALL
  <2> QED
    BY <1>5, <1>6, <2>1 DEF Queue!Refuse
<1>7. CASE /\ s - fl.origin + 1 \in DOMAIN Queued(fl)
           /\ Queued(fl)[s - fl.origin + 1] # Queue!Gap
           /\ put.fl = fl /\ put.status = EEXISTS
  <2>1. put.status # SUCCESS /\ out' = [NoOut EXCEPT !.type = "exists"]
    BY <1>3, <1>7 DEF SUCCESS, EEXISTS
  <2> QED
    BY <1>5, <1>7, <2>1 DEF Queue!Refuse
<1>8. CASE /\ ~Queue!Late(s) /\ (place > Len(w.q) \/ w.q[place] = Queue!Gap)
           /\ put.status = SUCCESS /\ Sound(put.fl)
           /\ View(put.fl) = Queue!Stored(w, s)
  <2>1. out' = [NoOut EXCEPT !.type = "success"]
    BY <1>3, <1>8 DEF SUCCESS
  <2>2. fl' \in Policies(put.fl)
    BY <1>2, <1>8, UpdateKeeps
  <2>3. \E w1 \in Queue!AfterPolicy(Queue!Stored(w, s)) : Queue!Become(w1)
    BY <1>8, <2>2, PolicyStep
  <2> QED
    BY <1>8, <2>1, <2>3 DEF Queue!Accept
<1> QED
  BY <1>4, <1>6, <1>7, <1>8

(* The first live place of the queue lies behind the leading discarded     *)
(* slots, and the places before it are discarded.                          *)
LEMMA LiveIs ==
  ASSUME fl \in FrameLists
  PROVE  /\ Queue!Live \subseteq 1 .. fl.size
         /\ \A i \in 1 .. fl.size : i \in Queue!Live <=> At(fl, i - 1).type # DISCARDED
<1>1. DOMAIN Queued(fl) = 1 .. fl.size /\ \A i \in 1 .. fl.size : Queued(fl)[i] = At(fl, i - 1)
  BY QueuedSeq
<1> QED
  BY <1>1 DEF Queue!Live, DISCARDED

(* The first place that is not discarded, which the loop of                *)
(* jb_framelist_get looks for.                                             *)
LEMMA FirstLive ==
  ASSUME fl \in FrameLists
  PROVE  LET skip == LeadingDiscarded(fl)
         IN  /\ skip \in 0 .. fl.size
             /\ skip = fl.size => Queue!Live = {}
             /\ skip < fl.size => /\ skip + 1 \in Queue!Live
                                  /\ \A j \in 1 .. skip : j \notin Queue!Live
<1> DEFINE skip == LeadingDiscarded(fl)
<1>1. /\ skip \in 0 .. fl.size
      /\ \A d \in 0 .. skip - 1 : fl.type[SlotAt(fl, d)] = DISCARDED
      /\ skip < fl.size => fl.type[SlotAt(fl, skip)] # DISCARDED
  BY LeadingDiscardedType
<1> HIDE DEF skip
<1>2. fl.size \in Nat
  BY ListNumbers
<1>3. /\ Queue!Live \subseteq 1 .. fl.size
      /\ \A i \in 1 .. fl.size : i \in Queue!Live <=> At(fl, i - 1).type # DISCARDED
  BY LiveIs
<1>4. ASSUME NEW j \in 1 .. skip PROVE j \notin Queue!Live
  <2>1. j - 1 \in 0 .. skip - 1 /\ j \in 1 .. fl.size
    BY <1>1, <1>2
  <2>2. At(fl, j - 1).type = DISCARDED
    BY <1>1, <2>1 DEF At
  <2> QED
    BY <1>3, <2>1, <2>2
<1>5. ASSUME skip < fl.size PROVE skip + 1 \in Queue!Live
  <2>1. skip + 1 \in 1 .. fl.size /\ (skip + 1) - 1 = skip
    BY <1>1, <1>2, <1>5
  <2>2. At(fl, skip).type # DISCARDED
    BY <1>1, <1>5 DEF At
  <2> QED
    BY <1>3, <2>1, <2>2
<1>6. skip = fl.size => Queue!Live = {}
  BY <1>3, <1>4
<1> QED
  BY <1>1, <1>4, <1>5, <1>6 DEF skip

(* pjmedia_jbuf_get_frame3.                                                *)
LEMMA GetMaps ==
  ASSUME WInv, Get
  PROVE  Queue!Hold \/ Queue!PlayEmpty \/ Queue!Play
<1> DEFINE got == jb_framelist_get(fl)
           skip == LeadingDiscarded(fl)
           n == IF skip < fl.size THEN skip + 1 ELSE skip
           f == IF jb.prefetching THEN fl ELSE got.fl
           type == IF ~got.res THEN EMPTY ELSE IF got.type = NORMAL THEN NORMAL ELSE MISSING
<1>1. IInv /\ Sound(fl) /\ fl \in FrameLists /\ fl.size \in Nat
  BY ListNumbers DEF WInv, Sound
<1>2. PICK j \in GoodBuffers : fl' = jbuf_update(f, j, OP_GET).fl
  BY <1>1, GetUpdates
<1>3. out' = IF jb.prefetching THEN [NoOut EXCEPT !.type = PREFETCH]
             ELSE [type |-> type, frame |-> got.frame, seq |-> got.seq]
  BY DEF Get
<1>4. Sound(f)
  BY <1>1, GetCarries DEF Carries
<1> HIDE DEF f
<1>5. \E w \in Queue!AfterPolicy(View(f)) : Queue!Become(w)
  <2>1. fl' \in Policies(f)
    BY <1>2, <1>4, UpdateKeeps
  <2> QED
    BY <1>4, <2>1, PolicyStep
<1>6. /\ Queue!Now = View(fl) /\ Len(Queued(fl)) = fl.size
      /\ DOMAIN Queued(fl) = 1 .. fl.size
      /\ \A i \in 1 .. fl.size : Queued(fl)[i] = At(fl, i - 1)
  BY <1>1, QueuedSeq DEF Queue!Now, View
<1>7. CASE jb.prefetching
  <2>1. View(f) = Queue!Now /\ out' = [NoOut EXCEPT !.type = "prefetch"]
    BY <1>3, <1>6, <1>7 DEF f, PREFETCH
  <2> QED
    BY <1>5, <2>1 DEF Queue!Hold
<1>8. CASE ~jb.prefetching
  <2>1. /\ f = got.fl /\ MovedOn(fl, got.fl, n)
        /\ (got.res <=> skip < fl.size)
        /\ got.res => /\ got.type = IF skip = 0 THEN At(fl, 0).type ELSE MISSING
                      /\ got.frame = IF skip = 0 THEN At(fl, 0).frame ELSE NoFrame
                      /\ got.seq = fl.origin + skip
        /\ ~got.res => got.frame = NoFrame /\ got.seq = 0
    BY <1>1, <1>8, GetMoves DEF f
  <2>2. /\ skip \in 0 .. fl.size
        /\ skip = fl.size => Queue!Live = {}
        /\ skip < fl.size => /\ skip + 1 \in Queue!Live
                             /\ \A j1 \in 1 .. skip : j1 \notin Queue!Live
    BY <1>1, FirstLive
  <2> HIDE DEF got, skip
  <2>3. n \in 0 .. fl.size
    BY <1>1, <2>2
  <2>4. View(f) = Queue!Dropped(Queue!Now, n)
    BY <1>1, <1>6, <2>1, <2>3, MovedIsDropped
  <2>5. CASE skip = fl.size
    <3>1. n = Len(Queued(fl)) /\ ~got.res
      BY <1>1, <1>6, <2>1, <2>5
    <3>2. out' = [NoOut EXCEPT !.type = "empty"]
      BY <1>3, <1>8, <2>1, <3>1 DEF EMPTY, NoOut
    <3> HIDE DEF n
    <3>3. \E w \in Queue!AfterPolicy(Queue!Dropped(Queue!Now, Len(Queued(fl)))) : Queue!Become(w)
      BY <1>5, <2>4, <3>1
    <3> QED
      BY <2>2, <2>5, <3>2, <3>3 DEF Queue!PlayEmpty
  <2>6. CASE skip < fl.size
    <3>1. n = skip + 1 /\ got.res /\ skip + 1 \in Queue!Live
          /\ \A j1 \in 1 .. skip : j1 \notin Queue!Live
      BY <2>1, <2>2, <2>6
    <3> HIDE DEF n
    <3>2. \E w \in Queue!AfterPolicy(Queue!Dropped(Queue!Now, skip + 1)) : Queue!Become(w)
      BY <1>5, <2>4, <3>1
    <3>3. out' = [type |-> IF got.type = NORMAL THEN NORMAL ELSE MISSING,
                  frame |-> got.frame, seq |-> got.seq]
      BY <1>3, <1>8, <3>1
    <3> DEFINE i == skip + 1
    <3>4. i - 1 = skip /\ (i = 1 <=> skip = 0) /\ fl.origin + i - 1 = fl.origin + skip
      BY <1>1, <2>2, ListNumbers
    <3>5. out' = [type |-> IF i = 1 THEN Queued(fl)[1].type ELSE "missing",
                  frame |-> IF i = 1 THEN Queued(fl)[1].frame ELSE NoFrame,
                  seq |-> fl.origin + i - 1]
      <4>1. got.seq = fl.origin + i - 1
        BY <2>1, <3>1, <3>4
      <4>2. CASE skip = 0
        <5>1. Queued(fl)[1] = At(fl, 0)
          BY <1>1, <1>6, <2>6, <4>2
        <5>2. At(fl, 0).type \in {NORMAL, MISSING}
          <6>1. 1 \in 1 .. fl.size /\ 1 \in Queue!Live
            BY <1>1, <2>6, <3>1, <4>2
          <6>2. At(fl, 1 - 1).type # DISCARDED
            BY <1>1, <6>1, LiveIs
          <6>3. 0 \in Distances
            BY FrameListAssumption DEF Distances
          <6> QED
            BY <1>1, <6>2, <6>3, AtType DEF FrameTypes
        <5> QED
          BY <2>1, <3>1, <3>3, <3>4, <4>1, <4>2, <5>1, <5>2 DEF NORMAL, MISSING
      <4>3. CASE skip # 0
        BY <2>1, <3>1, <3>3, <3>4, <4>1, <4>3 DEF NORMAL, MISSING
      <4> QED
        BY <4>2, <4>3
    <3>6. \A j1 \in 1 .. i - 1 : j1 \notin Queue!Live
      BY <3>1, <3>4
    <3>7. i \in Queue!Live /\ \E w \in Queue!AfterPolicy(Queue!Dropped(Queue!Now, i)) : Queue!Become(w)
      BY <3>1, <3>2
    <3> HIDE DEF i
    <3> QED
      BY <3>5, <3>6, <3>7 DEF Queue!Play
  <2> QED
    BY <1>1, <2>2, <2>5, <2>6
<1> QED
  BY <1>7, <1>8

(* The live places among the first k are as many as the live slots among   *)
(* the first k distances.                                                  *)
LEMMA LiveCount ==
  ASSUME fl \in FrameLists, NEW k \in 0 .. fl.size
  PROVE  Cardinality(Queue!Live \cap 1 .. k) = LiveAmong(fl, k)
<1> DEFINE S == {d \in 0 .. k - 1 : fl.type[SlotAt(fl, d)] # DISCARDED}
           T == Queue!Live \cap 1 .. k
           F == [d \in S |-> d + 1]
<1>1. fl.size \in Nat /\ k \in Nat
  BY ListNumbers
<1>2. \A i \in 1 .. k : i \in Queue!Live <=> fl.type[SlotAt(fl, i - 1)] # DISCARDED
  BY <1>1, LiveIs DEF At
<1>3. ASSUME NEW d \in S PROVE d + 1 \in T
  <2>1. d + 1 \in 1 .. k /\ (d + 1) - 1 = d
    BY <1>1
  <2> QED
    BY <1>2, <2>1
<1>4. ASSUME NEW t \in T PROVE \E d \in S : F[d] = t
  <2>1. t \in 1 .. k /\ t - 1 \in 0 .. k - 1 /\ (t - 1) + 1 = t
    BY <1>1
  <2>2. t - 1 \in S
    BY <1>2, <2>1
  <2> QED
    BY <2>1, <2>2
<1>5. F \in [S -> T]
  BY <1>3
<1>6. \A a, b \in S : F[a] = F[b] => a = b
  BY <1>1
<1>7. IsFiniteSet(S)
  <2>1. S \in SUBSET (0 .. k - 1)
    OBVIOUS
  <2>2. k - 1 \in Int
    BY <1>1
  <2>3. IsFiniteSet(0 .. k - 1)
    BY <2>2, FS_Interval
  <2> HIDE DEF S
  <2> QED
    BY <2>1, <2>3, FS_Subset
<1>8. LiveAmong(fl, k) = Cardinality(S)
  BY DEF LiveAmong
<1> HIDE DEF S, T, F
<1>9. F \in Bijection(S, T)
  BY <1>4, <1>5, <1>6, Fun_IsBij
<1>10. ExistsBijection(S, T)
  BY <1>9 DEF ExistsBijection
<1>11. Cardinality(T) = Cardinality(S)
  BY <1>7, <1>10, FS_Bijection
<1> QED
  BY <1>8, <1>11 DEF T

(* The cardinality the queue speaks of is the one the list speaks of.      *)
LEMMA SameCardinality ==
  ASSUME NEW S
  PROVE  Queue!Cardinality(S) = Cardinality(S)
  BY DEF Queue!Cardinality, Cardinality

(* pjmedia_jbuf_remove_frame.                                              *)
LEMMA RemoveMaps ==
  ASSUME WInv, NEW n \in 1 .. MaxCount, RemoveFrame(n)
  PROVE  Queue!Remove(n)
<1> DEFINE k == SlotsHolding(fl, n)
<1>1. fl \in FrameLists /\ fl.size \in Nat /\ n \in Nat \ {0}
  BY ListNumbers DEF WInv, Sound
<1>2. /\ k \in 0 .. fl.size
      /\ k = fl.size \/ LiveAmong(fl, k) = n
      /\ \A m \in 0 .. k - 1 : LiveAmong(fl, m) < n
  BY <1>1, SlotsHoldingType
<1>3. fl' = jb_framelist_remove_head(fl, k)
      /\ out' = [NoOut EXCEPT !.type = "removed", !.seq = LiveAmong(fl, k)]
  BY DEF RemoveFrame
<1> HIDE DEF k
<1>4. k \in Nat /\ LiveAmong(fl, k) \in Nat
  BY <1>1, <1>2, LiveAmongStep
<1>5. LiveAmong(fl, k) <= n
  <2>1. CASE k = 0
    BY <1>1, <1>4, <2>1, LiveAmongStep
  <2>2. CASE k # 0
    <3>1. k - 1 \in Nat /\ k - 1 \in 0 .. k - 1 /\ (k - 1) + 1 = k
      BY <1>4, <2>2
    <3>2. LiveAmong(fl, k) <= LiveAmong(fl, k - 1) + 1 /\ LiveAmong(fl, k - 1) \in Nat
      BY <3>1, LiveAmongStep
    <3>3. LiveAmong(fl, k - 1) < n
      BY <1>2, <3>1
    <3> QED
      BY <1>1, <1>4, <3>2, <3>3
  <2> QED
    BY <2>1, <2>2
<1>6. Cardinality(Queue!Live \cap 1 .. k) = LiveAmong(fl, k)
  BY <1>1, <1>2, LiveCount
<1>7. Len(Queued(fl)) = fl.size /\ Queue!Now = View(fl)
  BY <1>1, QueuedSeq DEF Queue!Now, View
<1>8. \/ Cardinality(Queue!Live \cap 1 .. k) = n
      \/ k = Len(Queued(fl)) /\ Cardinality(Queue!Live) < n
  <2>1. SUFFICES ASSUME LiveAmong(fl, k) # n
                 PROVE  k = Len(Queued(fl)) /\ Cardinality(Queue!Live) < n
    BY <1>6
  <2>2. k = fl.size /\ LiveAmong(fl, k) < n
    BY <1>1, <1>2, <1>4, <1>5, <2>1
  <2>3. Queue!Live \cap 1 .. k = Queue!Live
    BY <1>1, <2>2, LiveIs
  <2> QED
    BY <1>6, <1>7, <2>2, <2>3
<1>9. Queue!Become(Queue!Dropped(Queue!Now, k))
  <2> DEFINE m == IF k > fl.size THEN fl.size ELSE k
  <2>1. m = k
    BY <1>1, <1>2
  <2>2. MovedOn(fl, fl', m)
    BY <1>1, <1>3, <1>4, RemoveHeadMoves
  <2>3. View(fl') = Queue!Dropped(Queue!Now, k)
    BY <1>1, <1>2, <1>7, <2>1, <2>2, MovedIsDropped
  <2> QED
    BY <2>3, BecomesView
<1>10. k \in 0 .. Len(Queued(fl))
  BY <1>2, <1>7
<1>11. out' = [NoOut EXCEPT !.type = "removed", !.seq = Cardinality(Queue!Live \cap 1 .. k)]
  BY <1>3, <1>6
<1> QED
  BY <1>8, <1>9, <1>10, <1>11, SameCardinality, Zenon DEF Queue!Remove

-----------------------------------------------------------------------------
(* A new jitter buffer is a new queue.                                     *)
LEMMA QueueInit == Init => Queue!Init
<1> SUFFICES ASSUME Init PROVE Queue!Init
  OBVIOUS
<1>1. fl = jb_framelist_reset /\ out = NoOut
  BY DEF Init
<1>2. View(fl) = Queue!Places(INVALID_OFFSET, <<>>)
  BY <1>1, ResetSound, EmptyView
<1> QED
  BY <1>1, <1>2 DEF Queue!Init, View, Queue!Places, INVALID_OFFSET

(* Every call of the jitter buffer is a step of the queue or leaves it as  *)
(* it is.                                                                  *)
LEMMA QueueNext == WInv /\ [Next]_vars => [Queue!Next]_(Queue!vars)
<1> SUFFICES ASSUME WInv, [Next]_vars PROVE [Queue!Next]_(Queue!vars)
  OBVIOUS
<1>1. fl \in FrameLists
  BY DEF WInv, Sound
<1>2. ASSUME fl' = fl PROVE UNCHANGED <<fl.origin, Queued(fl)>>
  BY <1>2 DEF Queued
<1>3. CASE \E s \in 0 .. MaxSeq : Put(s)
  BY <1>3, PutMaps DEF Queue!Next
<1>4. CASE Get
  BY <1>4, GetMaps DEF Queue!Next
<1>5. CASE \E n \in 1 .. MaxCount : RemoveFrame(n)
  BY <1>5, RemoveMaps DEF Queue!Next
<1>6. CASE Reset
  <2>1. fl' = jb_framelist_reset /\ out' = NoOut
    BY <1>6 DEF Reset
  <2>2. View(fl') = Queue!Places(INVALID_OFFSET, <<>>)
    BY <2>1, ResetSound, EmptyView
  <2>3. Queue!Flush
    BY <2>1, <2>2 DEF Queue!Flush, View, Queue!Places, INVALID_OFFSET
  <2> QED
    BY <2>3 DEF Queue!Next
<1>7. CASE \/ \E p \in PTimes : SetPtime(p)
           \/ \E p \in Prefetches : SetFixed(p)
           \/ \E p, lo, hi \in Prefetches : SetAdaptive(p, lo, hi)
           \/ \E a \in Algos : SetDiscard(a)
  <2>1. fl' = fl /\ out' = NoOut
    BY <1>7 DEF SetPtime, SetFixed, SetAdaptive, SetDiscard
  <2>2. Queue!Configure
    BY <1>2, <2>1 DEF Queue!Configure
  <2> QED
    BY <2>2 DEF Queue!Next
<1>8. CASE UNCHANGED vars
  BY <1>2, <1>8 DEF vars, Queue!vars
<1> QED
  BY <1>3, <1>4, <1>5, <1>6, <1>7, <1>8 DEF Next

(* The circular array with its head, size and counters implements the      *)
(* queue: every call of jbuf.c plays, drops, refuses and renumbers frames  *)
(* as the queue would, whatever the capacity and the tuning.               *)
THEOREM QueueImplemented == Spec => ImplementsQueue
<1>1. Spec => []WInv
  BY WindowInvariance
<1> QED
  BY <1>1, QueueInit, QueueNext, PTL DEF Spec, ImplementsQueue, Queue!Spec

(***************************************************************************)
(* The removal loop of pjmedia_jbuf_remove_frame: that it comes to what    *)
(* RemoveFrame says, and agrees with jb_framelist_peek.  Its rounds are    *)
(* followed by the slots removed, of which so many are live and so many    *)
(* discarded.                                                              *)
(***************************************************************************)

(* The discarded slots among the n oldest.                                 *)
DeadPlaces(f, n) == {d \in 0 .. n - 1 : f.type[SlotAt(f, d)] = DISCARDED}
LivePlaces(f, n) == {d \in 0 .. n - 1 : f.type[SlotAt(f, d)] # DISCARDED}
DeadAmong(f, n) == Cardinality(DeadPlaces(f, n))

(* Each of the n oldest slots is live or discarded.                        *)
LEMMA PlacesCount ==
  ASSUME NEW f, NEW n \in Nat
  PROVE  /\ LiveAmong(f, n) \in Nat /\ DeadAmong(f, n) \in Nat
         /\ LiveAmong(f, n) + DeadAmong(f, n) = n
<1>1. PICK A, B, C : A = LivePlaces(f, n) /\ B = DeadPlaces(f, n) /\ C = 0 .. n - 1
  OBVIOUS
<1>2. A \cup B = C /\ A \cap B = {}
  BY <1>1 DEF LivePlaces, DeadPlaces
<1>3. IsFiniteSet(C) /\ Cardinality(C) = n
  <2>1. Cardinality(0 .. n - 1) = n /\ IsFiniteSet(0 .. n - 1)
    <3>1. CASE n = 0
      <4>1. 0 .. n - 1 = {}
        BY <3>1
      <4> QED
        BY <3>1, <4>1, FS_EmptySet
    <3>2. CASE n > 0
      <4>1. 0 \in Int /\ n - 1 \in Int
        OBVIOUS
      <4>2. IsFiniteSet(0 .. n - 1) /\ Cardinality(0 .. n - 1) = IF 0 > n - 1 THEN 0 ELSE n - 1 - 0 + 1
        BY <4>1, FS_Interval
      <4> QED
        BY <3>2, <4>2
    <3> QED
      BY <3>1, <3>2
  <2> QED
    BY <1>1, <2>1
<1>4. IsFiniteSet(A) /\ IsFiniteSet(B)
  <2>1. A \subseteq C /\ B \subseteq C
    BY <1>2
  <2> QED
    BY <1>3, <2>1, FS_Subset
<1>5. Cardinality(A \cup B) = Cardinality(A) + Cardinality(B) - Cardinality(A \cap B)
  BY <1>4, FS_Union
<1>6. Cardinality(A \cap B) = 0
  BY <1>2, FS_EmptySet
<1>7. Cardinality(A) \in Nat /\ Cardinality(B) \in Nat
  BY <1>4, FS_CardinalityType
<1>8. LiveAmong(f, n) = Cardinality(A) /\ DeadAmong(f, n) = Cardinality(B)
  BY <1>1 DEF LiveAmong, DeadAmong, LivePlaces
<1>9. Cardinality(A \cup B) = n
  BY <1>2, <1>3
<1>10. PICK x, y : x = Cardinality(A) /\ y = Cardinality(B)
  OBVIOUS
<1>11. x \in Nat /\ y \in Nat /\ x + y = n
  <2>1. n = x + y - 0
    BY <1>5, <1>6, <1>9, <1>10
  <2> QED
    BY <1>7, <1>10, <2>1
<1> QED
  BY <1>8, <1>10, <1>11

(* Both counts grow with the number of slots.                              *)
LEMMA CountsGrow ==
  ASSUME NEW f, NEW m \in Nat, NEW n \in Nat, m <= n
  PROVE  LiveAmong(f, m) <= LiveAmong(f, n) /\ DeadAmong(f, m) <= DeadAmong(f, n)
<1>1. LivePlaces(f, m) \subseteq LivePlaces(f, n) /\ DeadPlaces(f, m) \subseteq DeadPlaces(f, n)
  BY DEF LivePlaces, DeadPlaces
<1>2. IsFiniteSet(LivePlaces(f, n)) /\ IsFiniteSet(DeadPlaces(f, n))
  <2>1. IsFiniteSet(0 .. n - 1)
    <3>1. 0 \in Int /\ n - 1 \in Int
      OBVIOUS
    <3> QED
      BY <3>1, FS_Interval
  <2>2. LivePlaces(f, n) \subseteq 0 .. n - 1 /\ DeadPlaces(f, n) \subseteq 0 .. n - 1
    BY DEF LivePlaces, DeadPlaces
  <2> QED
    BY <2>1, <2>2, FS_Subset
<1>3. /\ Cardinality(LivePlaces(f, m)) <= Cardinality(LivePlaces(f, n))
      /\ Cardinality(DeadPlaces(f, m)) <= Cardinality(DeadPlaces(f, n))
  BY <1>1, <1>2, FS_Subset
<1> QED
  BY <1>3 DEF LiveAmong, DeadAmong, LivePlaces

(* A live slot counts.                                                     *)
LEMMA LiveCounts ==
  ASSUME NEW f, NEW d \in Nat
  PROVE  /\ f.type[SlotAt(f, d)] # DISCARDED => LiveAmong(f, d + 1) = LiveAmong(f, d) + 1
         /\ f.type[SlotAt(f, d)] = DISCARDED => LiveAmong(f, d + 1) = LiveAmong(f, d)
<1>1. d + 1 \in Nat /\ 0 .. (d + 1) - 1 = (0 .. d - 1) \cup {d} /\ d \notin 0 .. d - 1
  OBVIOUS
<1>2. PICK A, B : A = LivePlaces(f, d) /\ B = LivePlaces(f, d + 1)
  OBVIOUS
<1>3. /\ f.type[SlotAt(f, d)] # DISCARDED => B = A \cup {d}
      /\ f.type[SlotAt(f, d)] = DISCARDED => B = A
      /\ d \notin A
  BY <1>1, <1>2 DEF LivePlaces
<1>4. IsFiniteSet(A)
  <2>1. 0 \in Int /\ d - 1 \in Int
    OBVIOUS
  <2>2. IsFiniteSet(0 .. d - 1)
    BY <2>1, FS_Interval
  <2>3. A \subseteq 0 .. d - 1
    BY <1>2 DEF LivePlaces
  <2> QED
    BY <2>2, <2>3, FS_Subset
<1>5. Cardinality(A \cup {d}) = Cardinality(A) + 1
  BY <1>3, <1>4, FS_AddElement
<1>6. LiveAmong(f, d) = Cardinality(A) /\ LiveAmong(f, d + 1) = Cardinality(B)
  BY <1>2 DEF LiveAmong, LivePlaces
<1> QED
  BY <1>3, <1>5, <1>6

(* jb_framelist_remove_head takes the discarded slots it removes off the   *)
(* count.                                                                  *)
LEMMA RemoveHeadCounts ==
  ASSUME NEW f \in FrameLists, NEW n \in 0 .. f.size
  PROVE  /\ jb_framelist_remove_head(f, n).discarded_num = f.discarded_num - DeadAmong(f, n)
         /\ jb_framelist_remove_head(f, n).head = SlotAt(f, n)
<1>1. n \in Nat /\ ~(n > f.size) /\ f.size \in 0 .. MaxCount /\ MaxCount \in Nat /\ f.head \in Slots
  BY FrameListAssumption DEF FrameLists
<1>2. PICK S, T : S = DeadPlaces(f, n) /\ T = {p \in Oldest(f, n) : f.type[p] = DISCARDED}
  OBVIOUS
<1>3. /\ jb_framelist_remove_head(f, n).discarded_num = f.discarded_num - Cardinality(T)
      /\ jb_framelist_remove_head(f, n).head = SlotAt(f, n)
  BY <1>1, <1>2 DEF jb_framelist_remove_head, Advance, SlotAt, FrameLists
<1>4. S \subseteq 0 .. n - 1 /\ IsFiniteSet(S)
  <2>1. 0 \in Int /\ n - 1 \in Int
    BY <1>1
  <2>2. IsFiniteSet(0 .. n - 1)
    BY <2>1, FS_Interval
  <2>3. S \subseteq 0 .. n - 1
    BY <1>2 DEF DeadPlaces
  <2> QED
    BY <2>2, <2>3, FS_Subset
<1>5. PICK F : F = [d \in S |-> SlotAt(f, d)]
  OBVIOUS
<1>6. F \in [S -> T]
  BY <1>2, <1>4, <1>5 DEF DeadPlaces, Oldest
<1>7. \A t \in T : \E d \in S : F[d] = t
  BY <1>2, <1>5 DEF DeadPlaces, Oldest
<1>8. ASSUME NEW a \in S, NEW b \in S, F[a] = F[b]
      PROVE  a = b
  <2>1. a \in Distances /\ b \in Distances
    BY <1>1, <1>4 DEF Distances
  <2> QED
    BY <1>1, <1>5, <1>8, <2>1, SlotAtInjective
<1>9. F \in Bijection(S, T)
  BY <1>6, <1>7, <1>8, Fun_IsBij
<1>10. ExistsBijection(S, T)
  BY <1>9 DEF ExistsBijection
<1>11. Cardinality(T) = Cardinality(S)
  BY <1>4, <1>10, FS_Bijection
<1> QED
  BY <1>2, <1>3, <1>11 DEF DeadAmong

(* Lists with the same numbers and the same contents at every distance are *)
(* the same list.                                                          *)
LEMMA SameList ==
  ASSUME NEW f \in FrameLists, NEW g \in FrameLists,
         f.head = g.head, f.size = g.size, f.origin = g.origin, Counted(f), Counted(g),
         \A d \in Distances : At(f, d) = At(g, d)
  PROVE  f = g
<1>1. f.head \in Slots /\ g.head \in Slots
  BY DEF FrameLists
<1>2. ASSUME NEW p \in Slots
      PROVE  f.type[p] = g.type[p] /\ f.frame[p] = g.frame[p]
  <2>1. PICK d \in Distances : SlotAt(f, d) = p
    BY <1>1, SlotAtOnto
  <2>2. SlotAt(g, d) = p
    BY <2>1 DEF SlotAt
  <2>3. At(f, d) = At(g, d)
    OBVIOUS
  <2> QED
    BY <2>1, <2>2, <2>3 DEF At
<1>3. f.type = g.type /\ f.frame = g.frame
  <2>1. /\ f.type \in [Slots -> FrameTypes] /\ g.type \in [Slots -> FrameTypes]
        /\ f.frame \in [Slots -> Int \cup {NoFrame}] /\ g.frame \in [Slots -> Int \cup {NoFrame}]
    BY DEF FrameLists
  <2> QED
    BY <1>2, <2>1
<1>4. f.discarded_num = g.discarded_num
  BY <1>3 DEF Counted, DiscardedIn
<1> QED
  BY <1>3, <1>4 DEF FrameLists

(* Removing twice is removing at once.                                     *)
LEMMA RemovedTwice ==
  ASSUME NEW f \in FrameLists, Counted(f), NEW a \in 0 .. f.size, NEW b \in Nat,
         NEW c, c = IF a + b > f.size THEN f.size ELSE a + b
  PROVE  jb_framelist_remove_head(jb_framelist_remove_head(f, a), b)
           = jb_framelist_remove_head(f, c)
<1>1. f.size \in 0 .. MaxCount /\ MaxCount \in Nat \ {0} /\ a \in Nat /\ f.head \in Slots
      /\ c \in 0 .. f.size
  BY FrameListAssumption DEF FrameLists
<1>2. PICK g : g = jb_framelist_remove_head(f, a)
  OBVIOUS
<1>3. MovedOn(f, g, a) /\ Counted(g) /\ g.head = SlotAt(f, a)
  <2>1. ~(a > f.size)
    BY <1>1
  <2> QED
    BY <1>1, <1>2, <2>1, RemoveHeadMoves, RemoveHeadCounts
<1>4. g \in FrameLists /\ g.size = f.size - a
  BY <1>3 DEF MovedOn
<1>5. PICK m : m = c - a /\ m \in 0 .. g.size /\ m = IF b > g.size THEN g.size ELSE b
  BY <1>1, <1>4
<1>6. PICK h : h = jb_framelist_remove_head(g, b)
  OBVIOUS
<1>7. MovedOn(g, h, m) /\ Counted(h)
  BY <1>3, <1>4, <1>5, <1>6, RemoveHeadMoves
<1>8. h.head = SlotAt(g, m)
  <2>1. h = jb_framelist_remove_head(g, m)
    <3>1. (IF b > g.size THEN g.size ELSE b) = (IF m > g.size THEN g.size ELSE m)
      BY <1>4, <1>5, <1>1
    <3> QED
      BY <1>6, <3>1 DEF jb_framelist_remove_head
  <2> QED
    BY <1>4, <1>5, <2>1, RemoveHeadCounts
<1>9. PICK k : k = jb_framelist_remove_head(f, c)
  OBVIOUS
<1>10. MovedOn(f, k, c) /\ Counted(k) /\ k.head = SlotAt(f, c)
  <2>1. ~(c > f.size) /\ c \in Nat
    BY <1>1
  <2> QED
    BY <1>1, <1>9, <2>1, RemoveHeadMoves, RemoveHeadCounts
<1>11. MovedOn(f, h, c)
  <2>1. a + m = c /\ m \in Nat /\ a + m <= f.size
    BY <1>1, <1>4, <1>5
  <2>2. MovedOn(f, h, a + m)
    BY <1>1, <1>3, <1>7, <2>1, MovedTwice
  <2> QED
    BY <2>1, <2>2
<1>12. h.head = k.head
  <2>1. a \in 0 .. MaxCount /\ m \in 0 .. MaxCount /\ c \in 0 .. MaxCount /\ a + m = c /\ g.head \in Slots
    BY <1>1, <1>4, <1>5 DEF FrameLists
  <2>2. /\ g.head = IF f.head + a < MaxCount THEN f.head + a ELSE f.head + a - MaxCount
        /\ h.head = IF g.head + m < MaxCount THEN g.head + m ELSE g.head + m - MaxCount
        /\ k.head = IF f.head + c < MaxCount THEN f.head + c ELSE f.head + c - MaxCount
    BY <1>1, <1>3, <1>8, <1>10, <2>1, SlotAtIs
  <2>3. PICK x, y : x = f.head /\ y = g.head
    OBVIOUS
  <2>4. x \in 0 .. MaxCount - 1 /\ MaxCount \in Nat
    BY <1>1, <2>3 DEF Slots
  <2>5. /\ y = IF x + a < MaxCount THEN x + a ELSE x + a - MaxCount
        /\ h.head = IF y + m < MaxCount THEN y + m ELSE y + m - MaxCount
        /\ k.head = IF x + c < MaxCount THEN x + c ELSE x + c - MaxCount
    BY <2>2, <2>3
  <2>6. h.head = IF x + c < MaxCount THEN x + c ELSE x + c - MaxCount
    BY <2>1, <2>4, <2>5
  <2> QED
    BY <2>5, <2>6
<1>13. h = k
  <2>1. /\ h \in FrameLists /\ k \in FrameLists /\ h.size = k.size /\ h.origin = k.origin
        /\ \A d \in Distances : At(h, d) = At(k, d)
    BY <1>10, <1>11 DEF MovedOn
  <2> QED
    BY <1>7, <1>10, <1>12, <2>1, SameList
<1> QED
  BY <1>2, <1>6, <1>9, <1>13

(* The states of the loop: after k rounds or, if it ended before, at its   *)
(* end.                                                                    *)
Rounds(rounds, f, frame_cnt) ==
  \A k \in 0 .. f.size :
    rounds[k] = IF k = 0
                THEN LET first == jb_framelist_remove_head(f, frame_cnt)
                     IN  [fl |-> first, last_discard_num |-> f.discarded_num,
                          count |-> f.size - first.size]
                ELSE RemoveRound(rounds[k - 1])

(* The loop has these states.                                              *)
LEMMA RoundsExist ==
  ASSUME NEW f, f.size \in Nat, NEW frame_cnt
  PROVE  \E rounds : Rounds(rounds, f, frame_cnt)
                     /\ RemoveByRounds(f, frame_cnt) = rounds[f.size]
<1>1. PICK size, start : /\ size = f.size /\ size \in Nat
                         /\ start = [fl |-> jb_framelist_remove_head(f, frame_cnt),
                                     last_discard_num |-> f.discarded_num,
                                     count |-> f.size - jb_framelist_remove_head(f, frame_cnt).size]
  OBVIOUS
<1> DEFINE R(r, n) == r = [k \in 0 .. n |-> IF k = 0 THEN start ELSE RemoveRound(r[k - 1])]
           T == {n \in Nat : ~\E r : R(r, n)}
<1>2. ASSUME NEW n \in T, \A m \in T : n <= m
      PROVE  FALSE
  <2>1. PICK r : n > 0 => R(r, n - 1)
    <3>1. CASE n = 0
      BY <3>1
    <3>2. CASE n > 0
      <4>1. n - 1 \in Nat /\ ~(n <= n - 1)
        BY <3>2
      <4>2. n - 1 \notin T
        <5> HIDE DEF T
        <5> QED
          BY <1>2, <4>1
      <4> QED
        BY <4>1, <4>2
    <3> QED
      BY <3>1, <3>2
  <2> DEFINE g == [k \in 0 .. n |-> IF k = 0 THEN start ELSE RemoveRound(r[k - 1])]
  <2>2. \A k \in 0 .. n : k < n => g[k] = r[k]
    <3>1. ASSUME NEW k \in 0 .. n, k < n
          PROVE  k \in 0 .. n - 1 /\ n > 0
      BY <3>1
    <3> QED
      BY <2>1, <3>1
  <2>3. ASSUME NEW k \in 0 .. n, k > 0
        PROVE  g[k - 1] = r[k - 1]
    <3> HIDE DEF g
    <3>1. k - 1 \in 0 .. n /\ k - 1 < n
      BY <2>3
    <3> QED
      BY <2>2, <3>1
  <2>4. R(g, n)
    <3>1. ASSUME NEW k \in 0 .. n
          PROVE  (IF k = 0 THEN start ELSE RemoveRound(r[k - 1]))
                   = (IF k = 0 THEN start ELSE RemoveRound(g[k - 1]))
      <4> HIDE DEF g
      <4>1. CASE k = 0
        BY <4>1
      <4>2. CASE k > 0
        BY <2>3, <4>2
      <4> QED
        BY <4>1, <4>2
    <3>2. g = [k \in 0 .. n |-> IF k = 0 THEN start ELSE RemoveRound(r[k - 1])]
      OBVIOUS
    <3>3. [k \in 0 .. n |-> IF k = 0 THEN start ELSE RemoveRound(r[k - 1])]
            = [k \in 0 .. n |-> IF k = 0 THEN start ELSE RemoveRound(g[k - 1])]
      <4> HIDE DEF g
      <4> QED
        BY <3>1
    <3> QED
      <4> HIDE DEF g
      <4> QED
        BY <3>2, <3>3
  <2> QED
    BY <2>4
<1>3. size \notin T
  <2> HIDE DEF T
  <2>1. T \in SUBSET Nat
    BY DEF T
  <2> QED
    BY <1>2, <2>1, LeastElement
<1>4. \E r : R(r, size)
  BY <1>1, <1>3
<1>5. PICK rounds : /\ rounds = CHOOSE r : R(r, size)
                    /\ R(rounds, size)
  BY <1>4
<1>6. RemoveByRounds(f, frame_cnt) = rounds[f.size]
  BY <1>1, <1>5 DEF RemoveByRounds
<1>7. Rounds(rounds, f, frame_cnt)
  <2>1. R(rounds, f.size)
    BY <1>1, <1>5
  <2>2. ASSUME NEW k \in 0 .. f.size
        PROVE  rounds[k] = IF k = 0 THEN start ELSE RemoveRound(rounds[k - 1])
    BY <2>1
  <2> HIDE DEF R, T
  <2> QED
    BY <1>1, <2>2 DEF Rounds
<1> QED
  BY <1>6, <1>7

(* A state of the loop that removes n frames from the list f: the first j  *)
(* slots were removed before the last round and the first k with it, and   *)
(* fewer than k slots hold fewer than n frames.                            *)
LoopState(s, f, n, j, k) ==
  /\ j \in 0 .. f.size /\ k \in 0 .. f.size
  /\ s.fl = jb_framelist_remove_head(f, k)
  /\ s.last_discard_num = f.discarded_num - DeadAmong(f, j)
  /\ s.count = k - DeadAmong(f, j)
  /\ k = Smaller(n + DeadAmong(f, j), f.size)
  /\ \A m \in 0 .. k - 1 : LiveAmong(f, m) < n
  /\ j <= k

(* The counts of a list in one place.                                      *)
LEMMA Numbers ==
  ASSUME NEW f \in FrameLists, NEW n \in 0 .. f.size
  PROVE  /\ n \in Nat /\ f.size \in Nat /\ f.discarded_num \in Int
         /\ LiveAmong(f, n) \in Nat /\ DeadAmong(f, n) \in Nat
         /\ LiveAmong(f, n) + DeadAmong(f, n) = n
         /\ jb_framelist_remove_head(f, n).size = f.size - n
         /\ jb_framelist_remove_head(f, n).discarded_num = f.discarded_num - DeadAmong(f, n)
         /\ jb_framelist_remove_head(f, n) \in FrameLists
<1>1. n \in Nat /\ f.size \in Nat /\ f.discarded_num \in Int /\ ~(n > f.size)
  BY FrameListAssumption DEF FrameLists
<1>2. MovedOn(f, jb_framelist_remove_head(f, n), n)
  BY <1>1, RemoveHeadMoves
<1> QED
  BY <1>1, <1>2, PlacesCount, RemoveHeadCounts DEF MovedOn

(* It begins with the n oldest slots.                                      *)
LEMMA LoopStarts ==
  ASSUME NEW f \in FrameLists, NEW n \in Nat \ {0}, NEW s,
         s = [fl |-> jb_framelist_remove_head(f, n), last_discard_num |-> f.discarded_num,
              count |-> f.size - jb_framelist_remove_head(f, n).size]
  PROVE  \E k : LoopState(s, f, n, 0, k)
<1>1. 0 \in 0 .. f.size /\ f.size \in Nat /\ f.discarded_num \in Int
  BY FrameListAssumption DEF FrameLists
<1>2. DeadAmong(f, 0) = 0
  <2>1. /\ LiveAmong(f, 0) \in Nat /\ DeadAmong(f, 0) \in Nat
        /\ LiveAmong(f, 0) + DeadAmong(f, 0) = 0
    BY PlacesCount
  <2> QED
    BY <2>1
<1>3. PICK k : k = Smaller(n, f.size) /\ k \in 0 .. f.size /\ k <= n
  BY <1>1 DEF Smaller
<1>4. jb_framelist_remove_head(f, n) = jb_framelist_remove_head(f, k)
  <2>1. (IF n > f.size THEN f.size ELSE n) = (IF k > f.size THEN f.size ELSE k)
    BY <1>1, <1>3 DEF Smaller
  <2> QED
    BY <2>1 DEF jb_framelist_remove_head
<1>5. jb_framelist_remove_head(f, k).size = f.size - k
  BY <1>3, Numbers
<1>6. ASSUME NEW m \in 0 .. k - 1 PROVE LiveAmong(f, m) < n
  <2>1. m \in Nat /\ m < n
    BY <1>3
  <2>2. LiveAmong(f, m) \in Nat /\ DeadAmong(f, m) \in Nat /\ LiveAmong(f, m) + DeadAmong(f, m) = m
    BY <2>1, PlacesCount
  <2> QED
    BY <2>1, <2>2
<1>7. s.count = k /\ s.last_discard_num = f.discarded_num /\ s.fl = jb_framelist_remove_head(f, k)
  <2>1. f.size - (f.size - k) = k
    BY <1>1, <1>3
  <2> QED
    BY <1>4, <1>5, <2>1
<1> QED
  BY <1>1, <1>2, <1>3, <1>6, <1>7 DEF LoopState

(* A round.                                                                *)
LEMMA LoopGoesOn ==
  ASSUME NEW f \in FrameLists, Counted(f), NEW n \in Nat \ {0}, NEW s, NEW j, NEW k,
         LoopState(s, f, n, j, k), ~LoopEnded(s)
  PROVE  /\ \E i : LoopState(RemoveRound(s), f, n, k, i)
         /\ DeadAmong(f, j) < DeadAmong(f, k)
<1>1. /\ j \in 0 .. f.size /\ k \in 0 .. f.size /\ j <= k
      /\ s.fl = jb_framelist_remove_head(f, k)
      /\ s.last_discard_num = f.discarded_num - DeadAmong(f, j)
      /\ s.count = k - DeadAmong(f, j)
      /\ k = Smaller(n + DeadAmong(f, j), f.size)
      /\ \A m \in 0 .. k - 1 : LiveAmong(f, m) < n
  BY DEF LoopState
<1>2. PICK a, b, size, D : /\ a = DeadAmong(f, j) /\ b = DeadAmong(f, k) /\ size = f.size
                           /\ D = f.discarded_num
  OBVIOUS
<1>3. a \in Nat /\ b \in Nat /\ size \in Nat /\ D \in Int /\ k \in 0 .. size /\ j \in 0 .. size
  BY <1>1, <1>2, Numbers
<1>4. s.fl.discarded_num = D - b /\ s.fl.size = size - k
  BY <1>1, <1>2, Numbers
<1>5. a < b
  <2>1. ~(D - b >= D - a)
    BY <1>1, <1>2, <1>4 DEF LoopEnded
  <2> QED
    BY <1>3, <2>1
<1>6. PICK more : more = b - a /\ more \in Nat
  BY <1>3, <1>5
<1>7. PICK i : i = Smaller(n + b, size) /\ i \in 0 .. size /\ k <= i
               /\ i = IF k + more > size THEN size ELSE k + more
  <2>1. k = IF n + a < size THEN n + a ELSE size
    BY <1>1, <1>2 DEF Smaller
  <2> QED
    BY <1>3, <1>5, <1>6, <2>1 DEF Smaller
<1>8. PICK next : next = jb_framelist_remove_head(s.fl, more)
  OBVIOUS
<1>9. next = jb_framelist_remove_head(f, i)
  BY <1>1, <1>2, <1>6, <1>7, <1>8, RemovedTwice
<1>10. next.size = size - i
  BY <1>2, <1>7, <1>9, Numbers
<1>11. RemoveRound(s) = [fl |-> next, last_discard_num |-> D - b, count |-> i - b]
  <2>1. s.last_discard_num - s.fl.discarded_num = more
    BY <1>1, <1>2, <1>3, <1>4, <1>6
  <2>2. s.count - more + (s.fl.size - next.size) = i - b
    BY <1>1, <1>2, <1>3, <1>4, <1>6, <1>7, <1>10
  <2> QED
    BY <1>4, <1>8, <2>1, <2>2 DEF RemoveRound
<1>12. ASSUME NEW m \in 0 .. i - 1 PROVE LiveAmong(f, m) < n
  <2>1. CASE m \in 0 .. k - 1
    BY <1>1, <2>1
  <2>2. CASE m \notin 0 .. k - 1
    <3>1. m \in Nat /\ k \in Nat /\ k <= m /\ m < n + b
      BY <1>3, <1>7, <2>2 DEF Smaller
    <3>2. /\ LiveAmong(f, m) \in Nat /\ DeadAmong(f, m) \in Nat
          /\ LiveAmong(f, m) + DeadAmong(f, m) = m
      BY <3>1, PlacesCount
    <3>3. DeadAmong(f, k) <= DeadAmong(f, m)
      BY <3>1, CountsGrow
    <3> QED
      BY <1>2, <1>3, <3>1, <3>2, <3>3
  <2> QED
    BY <2>1, <2>2
<1>13. LoopState(RemoveRound(s), f, n, k, i)
  BY <1>1, <1>2, <1>7, <1>9, <1>11, <1>12 DEF LoopState
<1> QED
  BY <1>2, <1>5, <1>13

(* Every state of the loop is one, and unless it has ended the loop has    *)
(* come upon more discarded slots than it has made rounds.                 *)
LEMMA LoopStates ==
  ASSUME NEW f \in FrameLists, Counted(f), NEW n \in Nat \ {0}, NEW rounds, Rounds(rounds, f, n),
         NEW i \in 0 .. f.size
  PROVE  \E j, k : /\ LoopState(rounds[i], f, n, j, k)
                   /\ LoopEnded(rounds[i]) \/ DeadAmong(f, k) > i
<1> DEFINE Good(r) == \E j, k : /\ LoopState(rounds[r], f, n, j, k)
                                /\ LoopEnded(rounds[r]) \/ DeadAmong(f, k) > r
           T == {r \in 0 .. f.size : ~Good(r)}
<1>1. f.size \in Nat
  BY FrameListAssumption DEF FrameLists
<1>2. Good(0)
  <2>1. 0 \in 0 .. f.size
    BY <1>1
  <2>2. PICK s : s = rounds[0]
    OBVIOUS
  <2>3. s = [fl |-> jb_framelist_remove_head(f, n), last_discard_num |-> f.discarded_num,
             count |-> f.size - jb_framelist_remove_head(f, n).size]
    BY <2>1, <2>2 DEF Rounds
  <2>4. PICK k : LoopState(s, f, n, 0, k)
    BY <2>3, LoopStarts
  <2>5. ASSUME ~LoopEnded(s) PROVE DeadAmong(f, k) > 0
    <3>1. DeadAmong(f, 0) < DeadAmong(f, k)
      BY <2>4, <2>5, LoopGoesOn
    <3>2. k \in 0 .. f.size
      BY <2>4 DEF LoopState
    <3>3. DeadAmong(f, 0) \in Nat /\ DeadAmong(f, k) \in Nat
      BY <2>1, <3>2, Numbers
    <3> QED
      BY <3>1, <3>3
  <2> QED
    BY <2>2, <2>4, <2>5
<1>3. ASSUME NEW r \in 0 .. f.size, r > 0, Good(r - 1)
      PROVE  Good(r)
  <2>1. PICK s, t : s = rounds[r - 1] /\ t = rounds[r]
    OBVIOUS
  <2>2. t = RemoveRound(s)
    BY <1>3, <2>1 DEF Rounds
  <2>3. PICK j, k : LoopState(s, f, n, j, k) /\ (LoopEnded(s) \/ DeadAmong(f, k) > r - 1)
    BY <1>3, <2>1
  <2>4. CASE LoopEnded(s)
    <3>1. t = s
      BY <2>2, <2>4 DEF RemoveRound
    <3> QED
      BY <2>1, <2>3, <2>4, <3>1
  <2>5. CASE ~LoopEnded(s)
    <3>1. PICK l : LoopState(t, f, n, k, l)
      BY <2>2, <2>3, <2>5, LoopGoesOn
    <3>2. ASSUME ~LoopEnded(t) PROVE DeadAmong(f, l) > r
      <4>1. DeadAmong(f, k) < DeadAmong(f, l)
        BY <3>1, <3>2, LoopGoesOn
      <4>2. k \in 0 .. f.size /\ l \in 0 .. f.size
        BY <3>1 DEF LoopState
      <4>3. DeadAmong(f, k) \in Nat /\ DeadAmong(f, l) \in Nat
        BY <4>2, Numbers
      <4> QED
        BY <2>3, <2>5, <4>1, <4>3
    <3> QED
      BY <2>1, <3>1, <3>2
  <2> QED
    BY <2>4, <2>5
<1> HIDE DEF Good
<1>4. ASSUME NEW r \in T, \A m \in T : r <= m
      PROVE  FALSE
  <2>1. r \in 0 .. f.size /\ ~Good(r) /\ r # 0
    BY <1>2
  <2>2. r - 1 \in 0 .. f.size /\ ~(r <= r - 1) /\ r > 0
    BY <1>1, <2>1
  <2>3. Good(r - 1)
    BY <1>4, <2>2
  <2> QED
    BY <1>3, <2>1, <2>2, <2>3
<1>5. T = {}
  <2>1. T \in SUBSET Nat
    BY <1>1
  <2> HIDE DEF T
  <2> QED
    BY <1>4, <2>1, LeastElement
<1>6. Good(i)
  BY <1>5
<1> QED
  BY <1>6 DEF Good

(* The place SlotsHolding speaks of is the only one of its kind.           *)
LEMMA SlotsHoldingIs ==
  ASSUME NEW f \in FrameLists, NEW n \in Nat \ {0}, NEW k \in 0 .. f.size,
         k = f.size \/ LiveAmong(f, k) = n, \A m \in 0 .. k - 1 : LiveAmong(f, m) < n
  PROVE  SlotsHolding(f, n) = k
<1>1. PICK h : /\ h = SlotsHolding(f, n) /\ h \in 0 .. f.size
               /\ h = f.size \/ LiveAmong(f, h) = n
               /\ \A m \in 0 .. h - 1 : LiveAmong(f, m) < n
  BY SlotsHoldingType
<1>2. f.size \in Nat
  BY FrameListAssumption DEF FrameLists
<1>3. ASSUME h < k PROVE FALSE
  <2>1. h \in 0 .. k - 1 /\ h # f.size
    BY <1>1, <1>2, <1>3
  <2>2. LiveAmong(f, h) < n /\ LiveAmong(f, h) = n
    BY <1>1, <2>1
  <2> QED
    BY <2>2
<1>4. ASSUME k < h PROVE FALSE
  <2>1. k \in 0 .. h - 1 /\ k # f.size
    BY <1>1, <1>2, <1>4
  <2>2. LiveAmong(f, k) < n /\ LiveAmong(f, k) = n
    BY <1>1, <2>1
  <2> QED
    BY <2>2
<1> QED
  BY <1>1, <1>2, <1>3, <1>4

(* Where the loop ends: it has removed the slots that hold the frames      *)
(* asked for, and counted those that are not discarded.                    *)
LEMMA LoopEnds ==
  ASSUME NEW f \in FrameLists, Counted(f), NEW n \in Nat \ {0}
  PROVE  LET loop == RemoveByRounds(f, n)
             k == SlotsHolding(f, n)
         IN  /\ LoopEnded(loop) /\ loop.fl = jb_framelist_remove_head(f, k)
             /\ loop.count = LiveAmong(f, k)
<1>1. f.size \in Nat
  BY FrameListAssumption DEF FrameLists
<1>2. PICK rounds : Rounds(rounds, f, n) /\ RemoveByRounds(f, n) = rounds[f.size]
  BY <1>1, RoundsExist
<1>3. f.size \in 0 .. f.size
  BY <1>1
<1>4. PICK s : s = RemoveByRounds(f, n)
  OBVIOUS
<1>5. PICK j, k : LoopState(s, f, n, j, k) /\ (LoopEnded(s) \/ DeadAmong(f, k) > f.size)
  BY <1>2, <1>3, <1>4, LoopStates
<1>6. /\ j \in 0 .. f.size /\ k \in 0 .. f.size /\ j <= k
      /\ s.fl = jb_framelist_remove_head(f, k)
      /\ s.last_discard_num = f.discarded_num - DeadAmong(f, j)
      /\ s.count = k - DeadAmong(f, j)
      /\ k = Smaller(n + DeadAmong(f, j), f.size)
      /\ \A m \in 0 .. k - 1 : LiveAmong(f, m) < n
  BY <1>5 DEF LoopState
<1>7. PICK a, b, c, D : /\ a = DeadAmong(f, j) /\ b = DeadAmong(f, k) /\ c = LiveAmong(f, k)
                        /\ D = f.discarded_num
  OBVIOUS
<1>8. a \in Nat /\ b \in Nat /\ c \in Nat /\ D \in Int /\ c + b = k /\ j \in Nat /\ k \in Nat
  BY <1>6, <1>7, Numbers
<1>9. LoopEnded(s)
  BY <1>1, <1>5, <1>6, <1>7, <1>8
<1>10. a = b
  <2>1. a <= b
    BY <1>6, <1>7, <1>8, CountsGrow
  <2>2. s.fl.discarded_num = D - b
    BY <1>6, <1>7, Numbers
  <2>3. D - b >= D - a
    BY <1>6, <1>7, <1>9, <2>2 DEF LoopEnded
  <2> QED
    BY <1>8, <2>1, <2>3
<1>11. k = f.size \/ c = n
  BY <1>1, <1>6, <1>7, <1>8, <1>10 DEF Smaller
<1>12. SlotsHolding(f, n) = k
  BY <1>6, <1>7, <1>11, SlotsHoldingIs
<1>13. s.count = c
  BY <1>6, <1>7, <1>8, <1>10
<1> QED
  BY <1>4, <1>6, <1>7, <1>9, <1>12, <1>13

(* What a removal leaves counts on from where it stopped.                  *)
LEMMA LeftCounts ==
  ASSUME NEW f \in FrameLists, Counted(f), NEW k \in 0 .. f.size,
         NEW g, g = jb_framelist_remove_head(f, k), NEW d \in 0 .. f.size - k
  PROVE  LiveAmong(f, k + d) = LiveAmong(f, k) + LiveAmong(g, d)
<1>1. f.size \in Nat /\ k \in Nat /\ d \in Nat /\ k + d \in 0 .. f.size
  BY Numbers
<1>2. g \in FrameLists /\ g.size = f.size - k /\ d \in 0 .. g.size
  BY Numbers
<1>3. jb_framelist_remove_head(g, d) = jb_framelist_remove_head(f, k + d)
  <2>1. k + d = IF k + d > f.size THEN f.size ELSE k + d
    BY <1>1
  <2> QED
    BY <1>1, <2>1, RemovedTwice
<1>4. PICK D, a, b, c : /\ D = f.discarded_num /\ a = DeadAmong(f, k)
                        /\ b = DeadAmong(f, k + d) /\ c = DeadAmong(g, d)
  OBVIOUS
<1>5. PICK x, y, z : x = LiveAmong(f, k) /\ y = LiveAmong(f, k + d) /\ z = LiveAmong(g, d)
  OBVIOUS
<1>6. /\ a \in Nat /\ b \in Nat /\ c \in Nat /\ D \in Int /\ x \in Nat /\ y \in Nat /\ z \in Nat
      /\ x + a = k /\ y + b = k + d /\ z + c = d
  BY <1>1, <1>2, <1>4, <1>5, Numbers
<1>7. g.discarded_num = D - a /\ jb_framelist_remove_head(f, k + d).discarded_num = D - b
  BY <1>1, <1>4, Numbers
<1>8. jb_framelist_remove_head(g, d).discarded_num = g.discarded_num - c
  BY <1>2, <1>4, Numbers
<1>9. D - b = (D - a) - c
  BY <1>3, <1>7, <1>8
<1>10. y = x + z
  BY <1>1, <1>6, <1>9
<1> QED
  BY <1>5, <1>10

(* The effective size is the number of frames in the window.               *)
LEMMA EffSizeIs ==
  ASSUME NEW f, Sound(f), Counted(f)
  PROVE  jb_framelist_eff_size(f) = LiveAmong(f, f.size)
<1>1. f \in FrameLists
  BY DEF Sound
<1>2. f.size \in Nat /\ f.size \in 0 .. f.size /\ f.size <= MaxCount /\ MaxCount \in Nat \ {0}
  BY <1>1, FrameListAssumption DEF FrameLists
<1>3. PICK g : g = jb_framelist_remove_head(f, f.size)
  OBVIOUS
<1>4. Sound(g) /\ Counted(g) /\ g.size = 0
  <2>1. f.size - f.size = 0
    BY <1>2
  <2> QED
    BY <1>1, <1>2, <1>3, <2>1, RemoveHeadCarries, Numbers DEF Carries
<1>5. DiscardedIn(g) = {}
  <2>1. ASSUME NEW p \in Slots PROVE g.type[p] # DISCARDED
    <3>1. g.head \in Slots
      BY <1>4 DEF Sound, FrameLists
    <3>2. PICK d \in Distances : SlotAt(g, d) = p
      BY <3>1, SlotAtOnto
    <3>3. d >= g.size
      BY <1>2, <1>4 DEF Distances
    <3>4. At(g, d) = Blank
      BY <1>4, <3>3 DEF Sound, Clean
    <3>5. g.type[p] = MISSING
      BY <3>2, <3>4 DEF At, Blank
    <3> QED
      BY <3>5 DEF MISSING, DISCARDED
  <2> QED
    BY <2>1 DEF DiscardedIn
<1>6. g.discarded_num = 0
  BY <1>4, <1>5, FS_EmptySet DEF Counted
<1>7. PICK D, a, x, size : /\ D = f.discarded_num /\ a = DeadAmong(f, f.size)
                           /\ x = LiveAmong(f, f.size) /\ size = f.size
  OBVIOUS
<1>8. /\ D \in Int /\ a \in Nat /\ x \in Nat /\ size \in Nat /\ x + a = size
      /\ g.discarded_num = D - a
  BY <1>1, <1>2, <1>3, <1>7, Numbers
<1>9. size - D = x
  BY <1>6, <1>8
<1> QED
  BY <1>7, <1>9 DEF jb_framelist_eff_size

(* How many frames the slots hold that are removed: those asked for, or    *)
(* all there are.                                                          *)
LEMMA HeldFrames ==
  ASSUME NEW f \in FrameLists, NEW n \in Nat \ {0}
  PROVE  LET k == SlotsHolding(f, n)
         IN  k \in 0 .. f.size /\ LiveAmong(f, k) = Smaller(n, LiveAmong(f, f.size))
<1>1. PICK k : /\ k = SlotsHolding(f, n) /\ k \in 0 .. f.size
               /\ k = f.size \/ LiveAmong(f, k) = n
               /\ \A m \in 0 .. k - 1 : LiveAmong(f, m) < n
  BY SlotsHoldingType
<1>2. f.size \in 0 .. f.size /\ f.size \in Nat /\ k \in Nat /\ k <= f.size
  BY <1>1, FrameListAssumption DEF FrameLists
<1>3. PICK x, y : x = LiveAmong(f, k) /\ y = LiveAmong(f, f.size)
  OBVIOUS
<1>4. x \in Nat /\ y \in Nat /\ x <= y
  BY <1>1, <1>2, <1>3, Numbers, CountsGrow
<1>5. x <= n
  <2>1. CASE k = 0
    <3>1. x + DeadAmong(f, k) = 0 /\ DeadAmong(f, k) \in Nat
      BY <1>1, <1>3, <2>1, Numbers
    <3> QED
      BY <1>4, <3>1
  <2>2. CASE k # 0
    <3>1. k - 1 \in Nat /\ k - 1 \in 0 .. k - 1 /\ (k - 1) + 1 = k
      BY <1>2, <2>2
    <3>2. LiveAmong(f, k) <= LiveAmong(f, k - 1) + 1 /\ LiveAmong(f, k - 1) \in Nat
      BY <3>1, LiveAmongStep
    <3>3. LiveAmong(f, k - 1) < n
      BY <1>1, <3>1
    <3> QED
      BY <1>3, <1>4, <3>2, <3>3
  <2> QED
    BY <2>1, <2>2
<1>6. x = Smaller(n, y)
  BY <1>1, <1>3, <1>4, <1>5 DEF Smaller
<1> QED
  BY <1>1, <1>3, <1>6

(* The place of the frame that is i-th among the frames of a list.         *)
IsPlace(f, i, d) ==
  d \in 0 .. f.size - 1 /\ f.type[SlotAt(f, d)] # DISCARDED /\ LiveAmong(f, d) = i

(* There is one, if there are so many.                                     *)
LEMMA PlaceExists ==
  ASSUME NEW f \in FrameLists, NEW i \in Nat, i < LiveAmong(f, f.size)
  PROVE  \E d : IsPlace(f, i, d)
<1>1. f.size \in 0 .. f.size /\ f.size \in Nat
  BY FrameListAssumption DEF FrameLists
<1> DEFINE T == {m \in 0 .. f.size : LiveAmong(f, m) > i}
<1>2. PICK m \in T : \A l \in T : m <= l
  <2>1. T \in SUBSET Nat /\ f.size \in T
    BY <1>1
  <2> HIDE DEF T
  <2> QED
    BY <2>1, LeastElement
<1>3. m \in Nat /\ m \in 0 .. f.size /\ LiveAmong(f, m) > i /\ LiveAmong(f, m) \in Nat
  BY <1>1, Numbers
<1>4. m # 0
  <2>1. LiveAmong(f, 0) = 0
    BY <1>3, LiveAmongStep
  <2> QED
    BY <1>3, <2>1
<1>5. PICK d : d = m - 1 /\ d \in Nat /\ d \in 0 .. f.size - 1 /\ d + 1 = m /\ d \in 0 .. f.size
  BY <1>1, <1>3, <1>4
<1>6. ~(LiveAmong(f, d) > i) /\ LiveAmong(f, d) \in Nat
  <2>1. ~(m <= d)
    BY <1>3, <1>5
  <2>2. d \notin T
    BY <1>2, <2>1
  <2> QED
    BY <1>5, <2>2, Numbers
<1>7. f.type[SlotAt(f, d)] # DISCARDED /\ LiveAmong(f, d) = i
  <2>1. /\ f.type[SlotAt(f, d)] # DISCARDED => LiveAmong(f, m) = LiveAmong(f, d) + 1
        /\ f.type[SlotAt(f, d)] = DISCARDED => LiveAmong(f, m) = LiveAmong(f, d)
    BY <1>5, LiveCounts
  <2> QED
    BY <1>3, <1>6, <2>1
<1> QED
  BY <1>5, <1>7 DEF IsPlace

(* There is but one.                                                       *)
LEMMA PlaceUnique ==
  ASSUME NEW f \in FrameLists, NEW i, NEW d, NEW e, IsPlace(f, i, d), IsPlace(f, i, e)
  PROVE  d = e
<1>1. f.size \in Nat
  BY FrameListAssumption DEF FrameLists
<1>2. ASSUME NEW a, NEW b, IsPlace(f, i, a), IsPlace(f, i, b), a < b
      PROVE  FALSE
  <2>1. a \in Nat /\ b \in Nat /\ a + 1 \in Nat /\ a + 1 <= b
    BY <1>1, <1>2 DEF IsPlace
  <2>2. LiveAmong(f, a + 1) = LiveAmong(f, a) + 1 /\ LiveAmong(f, a) = i /\ LiveAmong(f, b) = i
    BY <1>2, <2>1, LiveCounts DEF IsPlace
  <2>3. LiveAmong(f, a + 1) <= LiveAmong(f, b) /\ LiveAmong(f, a) \in Nat
    BY <2>1, CountsGrow, LiveAmongStep
  <2> QED
    BY <2>2, <2>3
<1>3. d \in Nat /\ e \in Nat
  BY <1>1 DEF IsPlace
<1>4. ~(d < e) /\ ~(e < d)
  BY <1>2
<1> QED
  BY <1>3, <1>4

(* jb_framelist_peek finds it.                                             *)
LEMMA PeekIs ==
  ASSUME NEW f, Sound(f), Counted(f), NEW i \in Nat, NEW d, IsPlace(f, i, d)
  PROVE  /\ jb_framelist_peek(f, i).type = At(f, d).type
         /\ jb_framelist_peek(f, i).frame = At(f, d).frame
<1>1. f \in FrameLists
  BY DEF Sound
<1>2. PICK at : at = CHOOSE e \in 0 .. f.size - 1 :
                       /\ f.type[SlotAt(f, e)] # DISCARDED
                       /\ Cardinality({c \in 0 .. e - 1 : f.type[SlotAt(f, c)] # DISCARDED}) = i
  OBVIOUS
<1>3. IsPlace(f, i, at)
  BY <1>2 DEF IsPlace, LiveAmong
<1>4. at = d
  BY <1>1, <1>3, PlaceUnique
<1>5. ~(i >= jb_framelist_eff_size(f))
  <2>1. d \in Nat /\ d + 1 \in Nat /\ d + 1 <= f.size /\ f.size \in Nat /\ f.size \in 0 .. f.size
    BY <1>1, FrameListAssumption DEF FrameLists, IsPlace
  <2>2. LiveAmong(f, d + 1) = i + 1
    BY <2>1, LiveCounts DEF IsPlace
  <2>3. LiveAmong(f, d + 1) <= LiveAmong(f, f.size) /\ LiveAmong(f, f.size) \in Nat
    BY <1>1, <2>1, CountsGrow, Numbers
  <2> QED
    BY <2>2, <2>3, EffSizeIs
<1>6. jb_framelist_peek(f, i)
        = [res |-> TRUE, type |-> f.type[SlotAt(f, at)],
           frame |-> f.frame[SlotAt(f, at)], seq |-> f.origin + i]
  BY <1>2, <1>5, Zenon DEF jb_framelist_peek
<1> QED
  BY <1>4, <1>6 DEF At

(* After a removal of n frames the i-th frame left is what was the one n   *)
(* places further on.                                                      *)
LEMMA LeftPlace ==
  ASSUME NEW f, Sound(f), Counted(f), NEW k \in 0 .. f.size, NEW i \in Nat,
         NEW g, g = jb_framelist_remove_head(f, k), NEW d, IsPlace(g, i, d)
  PROVE  IsPlace(f, LiveAmong(f, k) + i, k + d) /\ At(g, d) = At(f, k + d)
<1>1. f \in FrameLists
  BY DEF Sound
<1>2. /\ f.size \in 0 .. MaxCount /\ MaxCount \in Nat \ {0} /\ k \in Nat
      /\ g.size = f.size - k /\ f.size \in Nat
  BY <1>1, FrameListAssumption, Numbers DEF FrameLists
<1>3. /\ d \in 0 .. f.size - k /\ k + d \in 0 .. f.size - 1
      /\ d \in Distances /\ d + k < MaxCount /\ d + k = k + d
  BY <1>2 DEF IsPlace, Distances
<1>4. MovedOn(f, g, k)
  <2>1. ~(k > f.size)
    BY <1>2
  <2> QED
    BY <1>1, <1>2, <2>1, RemoveHeadMoves
<1>5. At(g, d) = At(f, k + d)
  BY <1>3, <1>4 DEF MovedOn
<1>6. f.type[SlotAt(f, k + d)] # DISCARDED
  BY <1>5 DEF At, IsPlace
<1>7. LiveAmong(f, k + d) = LiveAmong(f, k) + i
  BY <1>1, <1>3, LeftCounts DEF IsPlace
<1> QED
  BY <1>3, <1>5, <1>6, <1>7 DEF IsPlace

(* The loop of pjmedia_jbuf_remove_frame ends, for every list and number   *)
(* of frames, with exactly the slots removed that hold the frames asked    *)
(* for, and with their number; and what jb_framelist_peek shows afterwards *)
(* is what it showed before, as many places on.  As for DiscardsAreSound,  *)
(* the static algorithm must not be chosen.                                *)
THEOREM RemovalIsSound ==
  ASSUME STATIC \notin Algos
  PROVE  Spec => []RemovalSound
<1>1. WInv => RemovalSound
  <2> SUFFICES ASSUME WInv PROVE RemovalSound
    OBVIOUS
  <2>1. Sound(fl) /\ Counted(fl) /\ fl \in FrameLists
    BY DEF WInv, PlanOK, Planned, Sound
  <2>2. jb_framelist_eff_size(fl) = LiveAmong(fl, fl.size) /\ LiveAmong(fl, fl.size) \in Nat
    <3>1. fl.size \in 0 .. fl.size
      BY <2>1, FrameListAssumption DEF FrameLists
    <3> QED
      BY <2>1, <3>1, EffSizeIs, Numbers
  <2>3. RemoveLoopCorrect
    <3>1. ASSUME NEW n \in 1 .. MaxCount
          PROVE  /\ LoopEnded(RemoveByRounds(fl, n))
                 /\ RemoveByRounds(fl, n).fl = jb_framelist_remove_head(fl, SlotsHolding(fl, n))
                 /\ RemoveByRounds(fl, n).count = Smaller(n, jb_framelist_eff_size(fl))
      <4>1. n \in Nat \ {0}
        BY FrameListAssumption
      <4> QED
        BY <2>1, <2>2, <4>1, LoopEnds, HeldFrames
    <3> QED
      BY <3>1 DEF RemoveLoopCorrect
  <2>4. PeekedIsRemoved
    <3>1. ASSUME NEW n \in 1 .. jb_framelist_eff_size(fl), NEW left, left = RemoveByRounds(fl, n).fl
          PROVE  /\ jb_framelist_eff_size(left) = jb_framelist_eff_size(fl) - n
                 /\ \A i \in 0 .. jb_framelist_eff_size(left) - 1 :
                      /\ jb_framelist_peek(left, i).type = jb_framelist_peek(fl, n + i).type
                      /\ jb_framelist_peek(left, i).frame = jb_framelist_peek(fl, n + i).frame
      <4>1. n \in Nat \ {0} /\ n <= LiveAmong(fl, fl.size)
        BY <2>2
      <4>2. PICK k : k = SlotsHolding(fl, n) /\ k \in 0 .. fl.size /\ LiveAmong(fl, k) = n
        BY <2>1, <2>2, <4>1, HeldFrames DEF Smaller
      <4>3. left = jb_framelist_remove_head(fl, k)
        BY <2>1, <3>1, <4>1, <4>2, LoopEnds
      <4>4. k \in Nat /\ fl.size \in Nat
        BY <2>1, <4>2, Numbers
      <4>5. Sound(left) /\ Counted(left) /\ left.size = fl.size - k /\ left \in FrameLists
        BY <2>1, <4>2, <4>3, <4>4, RemoveHeadCarries, Numbers DEF Carries
      <4>6. jb_framelist_eff_size(left) = jb_framelist_eff_size(fl) - n
        <5>1. PICK d, z : d = fl.size - k /\ z = fl.size
          OBVIOUS
        <5>2. z \in Nat /\ k \in 0 .. z /\ d = z - k
          BY <4>2, <4>4, <5>1
        <5>3. d \in Nat /\ d \in 0 .. z - k /\ k + d = z
          BY <5>2
        <5>4. LiveAmong(fl, fl.size) = n + LiveAmong(left, d)
          BY <2>1, <4>2, <4>3, <5>1, <5>3, LeftCounts
        <5>5. jb_framelist_eff_size(left) = LiveAmong(left, d) /\ LiveAmong(left, d) \in Nat
          BY <4>5, <5>1, <5>3, EffSizeIs, LiveAmongStep
        <5> QED
          BY <2>2, <4>1, <5>4, <5>5
      <4>7. ASSUME NEW i \in 0 .. jb_framelist_eff_size(left) - 1
            PROVE  /\ jb_framelist_peek(left, i).type = jb_framelist_peek(fl, n + i).type
                   /\ jb_framelist_peek(left, i).frame = jb_framelist_peek(fl, n + i).frame
        <5>1. i \in Nat /\ n + i \in Nat /\ i < LiveAmong(left, left.size)
          BY <2>2, <4>1, <4>5, <4>6, EffSizeIs
        <5>2. PICK d : IsPlace(left, i, d)
          BY <4>5, <5>1, PlaceExists
        <5>3. IsPlace(fl, n + i, k + d) /\ At(left, d) = At(fl, k + d)
          BY <2>1, <4>2, <4>3, <5>1, <5>2, LeftPlace
        <5>4. /\ jb_framelist_peek(left, i).type = At(left, d).type
              /\ jb_framelist_peek(left, i).frame = At(left, d).frame
          BY <4>5, <5>1, <5>2, PeekIs
        <5>5. /\ jb_framelist_peek(fl, n + i).type = At(fl, k + d).type
              /\ jb_framelist_peek(fl, n + i).frame = At(fl, k + d).frame
          BY <2>1, <5>1, <5>3, PeekIs
        <5> QED
          BY <5>3, <5>4, <5>5
      <4> QED
        BY <4>6, <4>7
    <3> QED
      BY <3>1 DEF PeekedIsRemoved
  <2> QED
    BY <2>3, <2>4 DEF RemovalSound
<1> QED
  BY <1>1, WindowInvariance, PTL
==============================================================================
