---------------------------- MODULE JbufFrameList ----------------------------
(***************************************************************************)
(* The frame list of the PJMEDIA jitter buffer (jb_framelist_t of jbuf.c): *)
(* a circular array of MaxCount slots, of which `size' starting at `head'  *)
(* form the window holding the frames origin .. origin + size - 1.         *)
(*                                                                         *)
(* A frame list is a record                                                *)
(*   type    what each slot holds (frame_type[]);                          *)
(*   frame   what can be read from each slot: content[] cut to             *)
(*           content_len[], so NoFrame where content_len is 0, and         *)
(*           otherwise the sequence number of the packet stored there;     *)
(*   head, size, origin, discarded_num   as in the code.                   *)
(* bit_info[] and ts[] travel with the content and are left out.           *)
(*                                                                         *)
(* The operators are the functions of jbuf.c: they take a frame list and   *)
(* return the one the call leaves behind, and its results.                 *)
(***************************************************************************)
EXTENDS Integers, FiniteSets

CONSTANTS MaxCount,         \* max_count: capacity, in frames
          MAX_MISORDER,     \* a frame this far behind origin is not "late"
          MAX_DROPOUT,      \* a frame this far ahead flushes the buffer
          MAX_FRAME_INDEX,  \* window end from which a jump back is a wrap
          NoFrame           \* content of a slot whose content_len is 0

(* The sentinel jb_framelist_reset stores in origin.                       *)
INVALID_OFFSET == -9999

ASSUME FrameListAssumption ==
  /\ MaxCount \in Nat \ {0}
  /\ MAX_MISORDER \in Nat \ {0}
  /\ MAX_DROPOUT \in Nat
  /\ MAX_FRAME_INDEX \in Nat
  /\ NoFrame \notin Int

MISSING   == "missing"      \* PJMEDIA_JB_MISSING_FRAME
NORMAL    == "normal"       \* PJMEDIA_JB_NORMAL_FRAME
DISCARDED == "discarded"    \* PJMEDIA_JB_DISCARDED_FRAME

SUCCESS   == "success"      \* PJ_SUCCESS
ETOOSMALL == "too_small"    \* PJ_ETOOSMALL: the frame is too late
ETOOMANY  == "too_many"     \* PJ_ETOOMANY: the buffer is full
EEXISTS   == "exists"       \* PJ_EEXISTS: the slot is taken

Slots == 0 .. MaxCount - 1
FrameTypes == {MISSING, NORMAL, DISCARDED}

FrameLists ==
  [type : [Slots -> FrameTypes], frame : [Slots -> Int \cup {NoFrame}],
   head : Slots, size : 0 .. MaxCount, origin : Int, discarded_num : Int]

(* The slot d places after the head.                                       *)
SlotAt(fl, d) == (fl.head + d) % MaxCount

-----------------------------------------------------------------------------
jb_framelist_reset ==
  [type |-> [p \in Slots |-> MISSING], frame |-> [p \in Slots |-> NoFrame],
   head |-> 0, size |-> 0, origin |-> INVALID_OFFSET, discarded_num |-> 0]

jb_framelist_eff_size(fl) == fl.size - fl.discarded_num

(* The slots of the n oldest frames.  (Fault: the part of the array after  *)
(* the wrap-around, step2 of the code, is forgotten.)                      *)
OldestUnwrapped(fl, n) == {p \in Slots : fl.head <= p /\ p < fl.head + n}
Oldest(fl, n) == {SlotAt(fl, d) : d \in 0 .. n - 1}

(* Move the window n places on.  (Fault: the origin stays behind.)         *)
AdvanceHeadOnly(fl, n) == [fl EXCEPT !.head = SlotAt(fl, n), !.size = @ - n]
Advance(fl, n) ==
  [fl EXCEPT !.head = SlotAt(fl, n), !.size = @ - n, !.origin = @ + n]

jb_framelist_remove_head(fl, count) ==
  LET n == IF count > fl.size THEN fl.size ELSE count
      removed == Oldest(fl, n)
      discards == {p \in removed : fl.type[p] = DISCARDED}
  IN  Advance([fl EXCEPT
                !.type  = [p \in Slots |-> IF p \in removed THEN MISSING ELSE @[p]],
                !.frame = [p \in Slots |-> IF p \in removed THEN NoFrame ELSE @[p]],
                !.discarded_num = @ - Cardinality(discards)], n)

(* How many slots the skipping loop of jb_framelist_get removes.  (Were a  *)
(* slot outside the window DISCARDED the loop would not end; WindowClean   *)
(* of JitterBuffer excludes it.  Fault: only one slot is skipped.)         *)
LeadingDiscardedOnce(fl) ==
  IF fl.size > 0 /\ fl.type[fl.head] = DISCARDED THEN 1 ELSE 0
LeadingDiscarded(fl) ==
  CHOOSE k \in 0 .. fl.size :
    /\ \A d \in 0 .. k - 1 : fl.type[SlotAt(fl, d)] = DISCARDED
    /\ k < fl.size => fl.type[SlotAt(fl, k)] # DISCARDED

(* res: was a slot consumed; type, frame, seq: what the caller is given.   *)
(* The slot that follows discarded ones is consumed but reported missing.  *)
jb_framelist_get(fl) ==
  LET skip == LeadingDiscarded(fl)
      fl1  == jb_framelist_remove_head(fl, skip)
      type == IF skip > 0 THEN MISSING ELSE fl1.type[fl1.head]
  IN  IF fl1.size = 0
      THEN [fl |-> fl1, res |-> FALSE, type |-> MISSING, frame |-> NoFrame, seq |-> 0]
      ELSE [fl |-> Advance([fl1 EXCEPT !.type[fl1.head] = MISSING,
                                       !.frame[fl1.head] = NoFrame], 1),
            res |-> TRUE, type |-> type,
            frame |-> IF skip > 0 THEN NoFrame ELSE fl1.frame[fl1.head],
            seq |-> fl1.origin]

(* The frame `offset' places after the oldest that is not discarded; seq   *)
(* is computed from offset alone, as in the code.  (Fault: discarded slots *)
(* are counted with the others.)                                           *)
PeekedUnskipped(fl, offset) ==
  [res |-> offset < jb_framelist_eff_size(fl), type |-> fl.type[SlotAt(fl, offset)],
   frame |-> fl.frame[SlotAt(fl, offset)], seq |-> fl.origin + offset]
jb_framelist_peek(fl, offset) ==
  LET Live(d) == fl.type[SlotAt(fl, d)] # DISCARDED
      at == CHOOSE d \in 0 .. fl.size - 1 :
              Live(d) /\ Cardinality({e \in 0 .. d - 1 : Live(e)}) = offset
  IN  IF offset >= jb_framelist_eff_size(fl)
      THEN [res |-> FALSE, type |-> MISSING, frame |-> NoFrame, seq |-> 0]
      ELSE [res |-> TRUE, type |-> fl.type[SlotAt(fl, at)],
            frame |-> fl.frame[SlotAt(fl, at)], seq |-> fl.origin + offset]

-----------------------------------------------------------------------------
(* Empty the buffer and restart the numbering at index.                    *)
FarJump(index) == [jb_framelist_reset EXCEPT !.origin = index]

(* Fault: the misorder tolerance is one frame short.                       *)
IsLateOffByOne(fl, index) ==
  index < fl.origin /\ fl.origin - index < MAX_MISORDER - 1
IsLate(fl, index) ==
  index < fl.origin /\ fl.origin - index < MAX_MISORDER

(* origin + size is compared as an unsigned number, so a negative window   *)
(* end counts as one past MAX_FRAME_INDEX.                                 *)
AtWrap(fl) ==
  fl.origin + fl.size < 0 \/ fl.origin + fl.size >= MAX_FRAME_INDEX

(* The numbering jb_framelist_put_at settles on before it looks for the    *)
(* slot: a frame far behind is a sequence restart, appended right behind   *)
(* the window, or a far jump; an empty buffer starts at the frame.         *)
Renumber(fl, index) ==
  LET moved == IF index >= fl.origin THEN fl
               ELSE IF AtWrap(fl) THEN [fl EXCEPT !.origin = index - fl.size]
               ELSE FarJump(index)
  IN  IF moved.size = 0 THEN [moved EXCEPT !.origin = index] ELSE moved

(* Store the frame index in the slot its distance from origin gives.       *)
StoreAt(fl, index) ==
  LET distance == index - fl.origin
      pos == SlotAt(fl, distance)
  IN  IF fl.type[pos] # MISSING
      THEN [fl |-> fl, status |-> EEXISTS]
      ELSE [fl |-> [fl EXCEPT !.type[pos] = NORMAL, !.frame[pos] = index,
                              !.size = IF fl.origin + fl.size <= index
                                       THEN distance + 1 ELSE fl.size],
            status |-> SUCCESS]

jb_framelist_put_at(fl, index) ==
  LET fl1 == Renumber(fl, index)
      distance == index - fl1.origin
  IN  IF IsLate(fl, index) THEN [fl |-> fl, status |-> ETOOSMALL]
      ELSE IF distance < MaxCount THEN StoreAt(fl1, index)
      ELSE IF distance > MAX_DROPOUT THEN StoreAt(FarJump(index), index)
      ELSE [fl |-> fl1, status |-> ETOOMANY]

(* Mark the frame index, which must lie in the window, as discarded.       *)
(* (Fault: the slot behind it is marked.)                                  *)
DiscardedNext(fl, index) ==
  LET pos == SlotAt(fl, index - fl.origin + 1)
  IN  IF index < fl.origin \/ index >= fl.origin + fl.size THEN fl
      ELSE [fl EXCEPT !.type[pos] = DISCARDED,
                      !.discarded_num = fl.discarded_num + 1]
jb_framelist_discard(fl, index) ==
  LET pos == SlotAt(fl, index - fl.origin)
  IN  IF index < fl.origin \/ index >= fl.origin + fl.size THEN fl
      ELSE [fl EXCEPT !.type[pos] = DISCARDED,
                      !.discarded_num = fl.discarded_num + 1]
=============================================================================
