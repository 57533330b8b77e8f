---------------------------- MODULE JitterBuffer ----------------------------
(***************************************************************************)
(* The PJMEDIA adaptive jitter buffer (jbuf.c).  The RTP receiver puts     *)
(* frames by sequence number, the playback clock gets one per period; the  *)
(* stream serialises the calls with its jb_mutex, so a call is one action. *)
(*                                                                         *)
(* `jb' is struct pjmedia_jbuf without the jb_ prefixes, `fl' its frame    *)
(* list.  `out' is what the last call handed to its caller.  The           *)
(* statistics (delay, burst, lost, discard, empty) are only reported,      *)
(* never read back, and are left out.                                      *)
(***************************************************************************)
EXTENDS JbufFrameList

CONSTANTS MAX_BURST_MSEC, INIT_CYCLE, STABLE_HISTORY_LIMIT,
          DEFAULT_INIT_DELAY,           \* PJMEDIA_JB_DEFAULT_INIT_DELAY
          DISC_MIN_GAP,                 \* PJMEDIA_JBUF_DISC_MIN_GAP
          PRO_DISC_MIN_BURST, PRO_DISC_MAX_BURST,
          PRO_DISC_T1, PRO_DISC_T2,
          PTimes,         \* frame times the stream may set, in ms
          Algos,          \* discard algorithms the application may set
          Prefetches,     \* prefetch values the application may set
          MaxSeq,         \* bound: frame_seq of a put lies in 0..MaxSeq
          MaxLevel        \* bound: no put or get once level reaches it

NONE        == "none"           \* PJMEDIA_JB_DISCARD_NONE
STATIC      == "static"         \* PJMEDIA_JB_DISCARD_STATIC
PROGRESSIVE == "progressive"    \* PJMEDIA_JB_DISCARD_PROGRESSIVE

(* A gap of at least one frame: no frame time exceeds DISC_MIN_GAP.        *)
ASSUME JitterBufferAssumption ==
  /\ PTimes \subseteq 1 .. DISC_MIN_GAP /\ PTimes # {}
  /\ Algos \subseteq {NONE, STATIC, PROGRESSIVE}
  /\ Prefetches \subseteq Nat
  /\ {MAX_BURST_MSEC, INIT_CYCLE, STABLE_HISTORY_LIMIT, DEFAULT_INIT_DELAY,
      DISC_MIN_GAP, PRO_DISC_MIN_BURST, PRO_DISC_MAX_BURST, PRO_DISC_T1,
      PRO_DISC_T2, MaxSeq, MaxLevel} \subseteq Nat
  /\ PRO_DISC_MIN_BURST < PRO_DISC_MAX_BURST /\ PRO_DISC_T1 <= PRO_DISC_T2

VARIABLES fl, jb, out
vars == <<fl, jb, out>>

Larger(a, b)  == IF a > b THEN a ELSE b      \* PJ_MAX
Smaller(a, b) == IF a < b THEN a ELSE b      \* PJ_MIN
LevelCap == (MaxCount * 4) \div 5

OP_INIT == "init"
OP_PUT  == "put"
OP_GET  == "get"
INITIALIZING == "initializing"
PROCESSING   == "processing"
PREFETCH == "prefetch"          \* PJMEDIA_JB_ZERO_PREFETCH_FRAME
EMPTY    == "empty"             \* PJMEDIA_JB_ZERO_EMPTY_FRAME
NoOut == [type |-> "nothing", frame |-> NoFrame, seq |-> 0]

MinShrinkGapInverted(ptime) == ptime \div DISC_MIN_GAP      \* fault: swapped
MinShrinkGap(ptime) == DISC_MIN_GAP \div ptime
MaxBurst(ptime) == Larger(MAX_BURST_MSEC \div ptime, (MaxCount * 3) \div 4)

(* pjmedia_jbuf_create, for a frame time of ptime.                         *)
Created(ptime) ==
  [ptime |-> ptime, init_prefetch |-> 0, min_prefetch |-> 0,
   max_prefetch |-> LevelCap, min_shrink_gap |-> MinShrinkGap(ptime),
   max_burst |-> MaxBurst(ptime), algo |-> PROGRESSIVE,
   prefetch |-> Smaller(DEFAULT_INIT_DELAY, LevelCap),
   prefetching |-> Smaller(DEFAULT_INIT_DELAY, LevelCap) # 0,
   eff_level |-> 0, level |-> 0, max_hist_level |-> 0, stable_hist |-> 0,
   last_op |-> OP_INIT, status |-> INITIALIZING, init_cycle_cnt |-> 0,
   discard_ref |-> 0, discard_dist |-> 0]

Init == /\ fl = jb_framelist_reset
        /\ jb \in {Created(ptime) : ptime \in PTimes}
        /\ out = NoOut

-----------------------------------------------------------------------------
(* jbuf_calculate_jitter: the effective level follows the burst level, up  *)
(* at once and down slowly, and drags the prefetch count along.            *)
ClampedFromBelow(j, level) ==                   \* fault: max_prefetch ignored
  IF j.init_prefetch = 0 THEN j.prefetch ELSE Larger(level, j.min_prefetch)
Clamped(j, level) ==
  IF j.init_prefetch = 0 THEN j.prefetch
  ELSE IF level < j.min_prefetch THEN j.min_prefetch
  ELSE IF level > j.max_prefetch THEN j.max_prefetch ELSE level

jbuf_calculate_jitter(j) ==
  LET hist == Larger(j.max_hist_level, j.level)
      lower == j.eff_level - Larger((j.eff_level - hist) \div 3, 1)
      higher == Smaller(hist, LevelCap)
  IN  IF j.level < j.eff_level /\ j.stable_hist < STABLE_HISTORY_LIMIT
      THEN [j EXCEPT !.max_hist_level = hist, !.stable_hist = j.stable_hist + 1]
      ELSE IF j.level < j.eff_level
      THEN [j EXCEPT !.max_hist_level = 0, !.stable_hist = 0,
                     !.eff_level = lower, !.prefetch = Clamped(j, lower)]
      ELSE IF j.level > j.eff_level
      THEN [j EXCEPT !.max_hist_level = hist, !.stable_hist = 0,
                     !.eff_level = higher, !.prefetch = Clamped(j, higher)]
      ELSE [j EXCEPT !.max_hist_level = hist, !.stable_hist = 0]

(* jbuf_discard_static: at most one frame every min_shrink_gap frames.     *)
jbuf_discard_static(f, j) ==
  LET burst == Larger(j.eff_level, j.level)
      ref == Smaller(j.discard_ref, f.origin)
      shrunk == jb_framelist_remove_head(f, 1)
  IN  IF jb_framelist_eff_size(f) - burst * 2 < 1 THEN [fl |-> f, jb |-> j]
      ELSE IF f.origin - ref < j.min_shrink_gap
      THEN [fl |-> f, jb |-> [j EXCEPT !.discard_ref = ref]]
      ELSE [fl |-> shrunk,
            jb |-> [j EXCEPT !.discard_ref = shrunk.origin]]

(* jbuf_discard_progressive: the T and dist arithmetic, then the plan.     *)
DiscardPeriod(burst) ==
  IF burst <= PRO_DISC_MIN_BURST THEN PRO_DISC_T1
  ELSE IF burst >= PRO_DISC_MAX_BURST THEN PRO_DISC_T2
  ELSE PRO_DISC_T1 + ((PRO_DISC_T2 - PRO_DISC_T1) * (burst - PRO_DISC_MIN_BURST))
                     \div (PRO_DISC_MAX_BURST - PRO_DISC_MIN_BURST)

DiscardDistNoGap(j, overflow, burst) ==         \* fault: min_shrink_gap ignored
  (DiscardPeriod(burst) \div overflow) \div j.ptime
DiscardDist(j, overflow, burst) ==
  Larger(j.min_shrink_gap, (DiscardPeriod(burst) \div overflow) \div j.ptime)

jbuf_discard_progressive(f, j) ==
  LET size == jb_framelist_eff_size(f)
      burst == Larger(j.eff_level, j.level)
      last_seq == f.origin + f.size - 1
      ref == IF j.discard_dist = 0 THEN last_seq
             ELSE Smaller(j.discard_ref, last_seq)
      dist == DiscardDist(j, size - burst, burst)
      discard_seq == Larger(ref + dist, f.origin)
  IN  IF j.last_op # OP_PUT THEN [fl |-> f, jb |-> j]
      ELSE IF size <= burst THEN [fl |-> f, jb |-> [j EXCEPT !.discard_dist = 0]]
      ELSE IF last_seq < ref + dist
      THEN [fl |-> f, jb |-> [j EXCEPT !.discard_ref = ref, !.discard_dist = dist]]
      ELSE [fl |-> jb_framelist_discard(f, discard_seq),
            jb |-> [j EXCEPT !.discard_ref = discard_seq, !.discard_dist = dist]]

RunsUnlessOther(j, algo) ==                     \* fault: NONE runs them all
  j.status = PROCESSING /\ j.algo \in {algo, NONE}
Runs(j, algo) == j.status = PROCESSING /\ j.algo = algo

jb_discard_algo(f, j) ==
  CASE Runs(j, STATIC) -> jbuf_discard_static(f, j)
    [] Runs(j, PROGRESSIVE) -> jbuf_discard_progressive(f, j)
    [] OTHER -> [fl |-> f, jb |-> j]

(* jbuf_update: the first operation of a run of equal operations ends the  *)
(* burst before it; the buffer starts processing on the INIT_CYCLE-th      *)
(* switch (or a later one) that is a get.                                  *)
jbuf_update(f, j, oper) ==
  LET cycle == j.init_cycle_cnt + 1
      starts == j.status = INITIALIZING /\ cycle >= INIT_CYCLE /\ oper = OP_GET
      j1 == [j EXCEPT !.last_op = oper,
                      !.init_cycle_cnt =
                        IF j.status = INITIALIZING THEN Smaller(cycle, INIT_CYCLE) ELSE @,
                      !.status = IF starts THEN PROCESSING ELSE @,
                      !.level = IF starts THEN Smaller(@, j.max_burst) ELSE @]
      j2 == IF oper = OP_GET /\ j1.level <= j1.max_burst
            THEN jbuf_calculate_jitter(j1) ELSE j1
  IN  IF j.last_op = oper THEN jb_discard_algo(f, j)
      ELSE IF j1.status = INITIALIZING THEN [fl |-> f, jb |-> [j1 EXCEPT !.level = 0]]
      ELSE jb_discard_algo(f, [j2 EXCEPT !.level = 0])
-----------------------------------------------------------------------------
(* pjmedia_jbuf_put_frame3.  A full buffer drops just enough of its oldest *)
(* frames and tries again; ETOOMANY is never seen twice.                   *)
MakeRoomShort(f, frame_seq) ==                  \* fault: one frame too few
  jb_framelist_remove_head(f, frame_seq - f.origin - MaxCount)
MakeRoom(f, frame_seq) ==
  jb_framelist_remove_head(f, frame_seq - f.origin - MaxCount + 1)

TryPut(f, frame_seq) ==
  LET first == jb_framelist_put_at(f, frame_seq)
  IN  IF first.status = ETOOMANY
      THEN jb_framelist_put_at(MakeRoom(first.fl, frame_seq), frame_seq)
      ELSE first

Put(frame_seq) ==
  LET put == TryPut(fl, frame_seq)
      new_size == jb_framelist_eff_size(put.fl)
      grown == Larger(new_size - jb_framelist_eff_size(fl), 1)
      j1 == [jb EXCEPT !.prefetching = @ /\ new_size < jb.prefetch,
                       !.level = @ + grown]
      done == jbuf_update(put.fl, j1, OP_PUT)
  IN  /\ jb.level < MaxLevel
      /\ out' = [NoOut EXCEPT !.type = put.status]
      /\ IF put.status = SUCCESS
         THEN fl' = done.fl /\ jb' = done.jb
         ELSE fl' = put.fl /\ jb' = jb

(* pjmedia_jbuf_get_frame3.                                                *)
Get ==
  LET got == jb_framelist_get(fl)
      type == IF ~got.res THEN EMPTY
              ELSE IF got.type = NORMAL THEN NORMAL ELSE MISSING
      j1 == [jb EXCEPT !.prefetching = @ \/ (~got.res /\ jb.prefetch # 0),
                       !.level = @ + 1]
      done == jbuf_update(IF jb.prefetching THEN fl ELSE got.fl, j1, OP_GET)
  IN  /\ jb.level < MaxLevel
      /\ out' = IF jb.prefetching THEN [NoOut EXCEPT !.type = PREFETCH]
                ELSE [type |-> type, frame |-> got.frame, seq |-> got.seq]
      /\ fl' = done.fl /\ jb' = done.jb

(* pjmedia_jbuf_remove_frame removes the frame_cnt oldest frames that are  *)
(* not discarded and the discarded ones met on the way: its loop, followed *)
(* below round by round, stops at this many slots.                         *)
LiveAmong(f, n) == Cardinality({d \in 0 .. n - 1 : f.type[SlotAt(f, d)] # DISCARDED})

SlotsHolding(f, frame_cnt) ==
  CHOOSE n \in 0 .. f.size :
    /\ n = f.size \/ LiveAmong(f, n) = frame_cnt
    /\ \A m \in 0 .. n - 1 : LiveAmong(f, m) < frame_cnt

RemoveFrame(frame_cnt) ==
  LET n == SlotsHolding(fl, frame_cnt)
  IN  /\ fl' = jb_framelist_remove_head(fl, n)
      /\ out' = [NoOut EXCEPT !.type = "removed", !.seq = LiveAmong(fl, n)]
      /\ UNCHANGED jb

(* That loop: a round removes as many slots again as the one before it     *)
(* found discarded.  It has ended after so many rounds as there are slots. *)
LoopEnded(s) == s.fl.discarded_num >= s.last_discard_num
RemoveRound(s) ==
  LET more == s.last_discard_num - s.fl.discarded_num
      next == jb_framelist_remove_head(s.fl, more)
  IN  IF LoopEnded(s) THEN s
      ELSE [fl |-> next, last_discard_num |-> s.fl.discarded_num,
            count |-> s.count - more + (s.fl.size - next.size)]

RemoveByRounds(f, frame_cnt) ==
  LET first == jb_framelist_remove_head(f, frame_cnt)
      rounds[k \in 0 .. f.size] ==
        IF k = 0
        THEN [fl |-> first, last_discard_num |-> f.discarded_num,
              count |-> f.size - first.size]
        ELSE RemoveRound(rounds[k - 1])
  IN  rounds[f.size]

Reset ==
  /\ fl' = jb_framelist_reset
  /\ jb' = [jb EXCEPT !.level = 0, !.last_op = OP_INIT, !.stable_hist = 0,
                      !.status = INITIALIZING, !.init_cycle_cnt = 0,
                      !.max_hist_level = 0, !.prefetching = jb.prefetch # 0,
                      !.discard_dist = 0]
  /\ out' = NoOut

SetPtime(ptime) ==
  /\ jb' = [jb EXCEPT !.ptime = ptime, !.min_shrink_gap = MinShrinkGap(ptime),
                      !.max_burst = MaxBurst(ptime)]
  /\ out' = NoOut
  /\ UNCHANGED fl

SetFixed(prefetch) ==
  /\ prefetch <= MaxCount
  /\ jb' = [jb EXCEPT !.min_prefetch = prefetch, !.max_prefetch = prefetch,
                      !.prefetch = prefetch, !.init_prefetch = prefetch,
                      !.algo = NONE]
  /\ out' = NoOut
  /\ UNCHANGED fl

SetAdaptive(prefetch, min_prefetch, max_prefetch) ==
  /\ min_prefetch <= max_prefetch
  /\ prefetch <= max_prefetch
  /\ max_prefetch <= MaxCount
  /\ jb' = [jb EXCEPT !.prefetch = prefetch, !.init_prefetch = prefetch,
                      !.min_prefetch = min_prefetch, !.max_prefetch = max_prefetch]
  /\ out' = NoOut
  /\ UNCHANGED fl

SetDiscard(algo) ==
  /\ jb' = [jb EXCEPT !.algo = algo]
  /\ out' = NoOut
  /\ UNCHANGED fl

Next == \/ \E s \in 0 .. MaxSeq : Put(s)
        \/ Get
        \/ \E n \in 1 .. MaxCount : RemoveFrame(n)
        \/ Reset
        \/ \E p \in PTimes : SetPtime(p)
        \/ \E p \in Prefetches : SetFixed(p)
        \/ \E p, lo, hi \in Prefetches : SetAdaptive(p, lo, hi)
        \/ \E a \in Algos : SetDiscard(a)

Spec == Init /\ [][Next]_vars

-----------------------------------------------------------------------------
(* Places of the window, and the stored frames.                            *)
Window == {SlotAt(fl, d) : d \in 0 .. fl.size - 1}
Stored(f) == {f.frame[p] : p \in {q \in Slots : f.type[q] = NORMAL}}

Outs == [type : FrameTypes \cup {PREFETCH, EMPTY, SUCCESS, ETOOSMALL, ETOOMANY,
                                 EEXISTS, "removed", "nothing"},
         frame : Int \cup {NoFrame}, seq : Int]

JitterBuffers ==
  [ptime : Nat \ {0}, init_prefetch : Nat, min_prefetch : Nat, max_prefetch : Nat,
   min_shrink_gap : Nat \ {0}, max_burst : Nat, algo : {NONE, STATIC, PROGRESSIVE},
   prefetch : Nat, prefetching : BOOLEAN, eff_level : Nat, level : Nat,
   max_hist_level : Nat, stable_hist : Nat, last_op : {OP_INIT, OP_PUT, OP_GET},
   status : {INITIALIZING, PROCESSING}, init_cycle_cnt : Nat, discard_ref : Int,
   discard_dist : Nat]

(* Every variable has its type: no negative level, no head or size outside *)
(* the array of the frame list.                                            *)
TypeOK == fl \in FrameLists /\ jb \in JitterBuffers /\ out \in Outs

(* A slot outside the window is MISSING and empty, so that a put never     *)
(* takes a fresh frame for a duplicate and the loop of jb_framelist_get    *)
(* that skips DISCARDED slots ends.                                        *)
WindowClean ==
  \A p \in Slots \ Window : fl.type[p] = MISSING /\ fl.frame[p] = NoFrame

(* discarded_num counts the DISCARDED slots, so that the unsigned          *)
(* size - discarded_num never wraps and jb_framelist_peek ends.            *)
DiscardedExact ==
  fl.discarded_num = Cardinality({p \in Slots : fl.type[p] = DISCARDED})

(* What keeps the progressive algorithm from marking a slot twice: while a *)
(* plan is active no slot past discard_ref is DISCARDED.                   *)
DiscardsBehindRef ==
  jb.discard_dist # 0 =>
    \A d \in 0 .. fl.size - 1 :
      fl.type[SlotAt(fl, d)] = DISCARDED => fl.origin + d <= jb.discard_ref

(* A stored frame lies at the place its sequence number gives, or it was   *)
(* received before a restart of the numbering, and its number is then at   *)
(* least MAX_MISORDER above its place.                                     *)
FramesInPlace ==
  \A d \in 0 .. fl.size - 1 :
    LET frame == fl.frame[SlotAt(fl, d)]
    IN  frame # NoFrame =>
          frame = fl.origin + d \/ frame >= fl.origin + d + MAX_MISORDER

(* The circular array as a whole: nothing outside the window, every frame  *)
(* of the window where its number says.                                    *)
WindowSound == WindowClean /\ FramesInPlace

(* The bookkeeping of the progressive algorithm, over calls that put, play, *)
(* renumber and reset in between: no slot is marked twice, none uncounted. *)
DiscardsSound == DiscardedExact /\ DiscardsBehindRef

(* The loop ends, removes exactly the slots that hold the frames asked for *)
(* and reports how many of them were frames: all that were asked for, or   *)
(* all there are, never one the discard algorithm had already given up.    *)
RemoveLoopCorrect ==
  \A n \in 1 .. MaxCount :
    LET loop == RemoveByRounds(fl, n)
    IN  /\ LoopEnded(loop)
        /\ loop.fl = jb_framelist_remove_head(fl, SlotsHolding(fl, n))
        /\ loop.count = Smaller(n, jb_framelist_eff_size(fl))

(* vid_stream.c peeks at the frames of a picture and then removes as many: *)
(* the removal takes exactly the frames that were peeked at, and the next  *)
(* peeks see the ones that followed, whatever was discarded in between.    *)
PeekedIsRemoved ==
  \A n \in 1 .. jb_framelist_eff_size(fl) :
    LET left == RemoveByRounds(fl, n).fl
        Seen(list, i) == [type  |-> jb_framelist_peek(list, i).type,
                          frame |-> jb_framelist_peek(list, i).frame]
    IN  /\ jb_framelist_eff_size(left) = jb_framelist_eff_size(fl) - n
        /\ \A i \in 0 .. jb_framelist_eff_size(left) - 1 : Seen(left, i) = Seen(fl, n + i)

(* Peeking, the loop that removes and the frames left agree, across the    *)
(* end of the array and across discarded slots.                            *)
RemovalSound == RemoveLoopCorrect /\ PeekedIsRemoved

(* The levels the adaptation computes stay within the capacity: a prefetch *)
(* count above it would keep the buffer prefetching, and silent, for ever. *)
LevelsBounded ==
  /\ jb.eff_level <= LevelCap
  /\ jb.prefetch <= jb.max_prefetch
  /\ jb.max_prefetch <= MaxCount

(* Making room once is enough for a put to a full buffer.                  *)
RoomIsMade == out.type # ETOOMANY

(* Playback never runs back over what was played or given up: the read     *)
(* position decreases only when the buffer is reset or a frame arrives     *)
(* that is at least MAX_MISORDER behind it.                                *)
NoReplay ==
  [][fl'.origin < fl.origin =>
       \/ fl'.origin = INVALID_OFFSET /\ fl'.size = 0
       \/ fl'.origin + fl'.size <= fl.origin - MAX_MISORDER + 1]_vars

(* While the discard algorithm is off, a received frame leaves the buffer  *)
(* only by being played or removed, by a reset, or to make room for a put  *)
(* that does not fit.                                                      *)
NoSilentLoss ==
  [][\A s \in 0 .. MaxSeq :
       (jb.algo = NONE /\ Put(s) /\ s >= fl.origin /\ s < fl.origin + MaxCount)
         => Stored(fl) \subseteq Stored(fl')]_vars

-----------------------------------------------------------------------------
(* The frame list seen as the queue of its window, oldest place first.     *)
Queued(f) == [i \in 1 .. f.size |-> [type  |-> f.type[SlotAt(f, i - 1)],
                                      frame |-> f.frame[SlotAt(f, i - 1)]]]

Queue == INSTANCE JbufQueue WITH
  MaxMisorder <- MAX_MISORDER, MaxDropout <- MAX_DROPOUT,
  WrapFrom <- MAX_FRAME_INDEX, first <- fl.origin, q <- Queued(fl)

(* The circular array, with its head, size and counters, plays and drops   *)
(* frames exactly as a queue would.                                        *)
ImplementsQueue == Queue!Spec
=============================================================================
