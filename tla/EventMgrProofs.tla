--------------------------- MODULE EventMgrProofs ---------------------------
(***************************************************************************)
(* Theorems about EventMgr, for every number of threads, subscribers and   *)
(* events and every capacity of the queues: the rings hold the events they *)
(* took in order, and the worker is woken once for each posted event.      *)
(***************************************************************************)
EXTENDS EventMgr, WellFoundedInduction, TLAPS

(* Events as the rings hold them, and the rings.                           *)
Events == [epub : Pubs, no : Nat]
Index == 0 .. (MAX_EVENTS - 1)
Rings == [events : [Index -> Events \cup {None}], head : Index, tail : Index,
          is_full : BOOLEAN]
RingSound(r, last) == /\ r \in Rings /\ (r.is_full => r.head = r.tail)
                      /\ Holds(r, last)

(* The members of a distribution that the walks and the removals keep.     *)
Active == th.at \in {"woken", "telling", "told"}
Fields == {"at", "by", "node", "next", "steady", "seen"}
Distributions ==
  /\ DOMAIN th = Fields /\ th.at \in {"idle", "woken", "telling", "told", "ended"}
  /\ DOMAIN pub = Fields /\ pub.at \in {"idle", "between", "telling", "told"}
  /\ pub.by = None <=> pub.at = "idle"

(* QueuesSound is not inductive: an event is removed from a ring because   *)
(* a distribution is under way, so the ring must not be empty then, also   *)
(* while the manager quits and the semaphore no longer counts; and the     *)
(* arithmetic of the ring needs its type and the meaning of is_full.       *)
IInv == /\ Distributions
        /\ posted \in Nat /\ published \in Nat /\ sem \in Nat /\ is_quitting \in BOOLEAN
        /\ RingSound(queue, posted)
        /\ RingSound(pubq, published) \/ pub.by = None
        /\ pub.by # None => Length(pubq) > 0
        /\ Active => Length(queue) > 0
        /\ WakeupsMatch

-----------------------------------------------------------------------------
(* The remainder, for the sums of two indices.                             *)
LEMMA Remainder ==
  ASSUME NEW m \in Nat \ {0}, NEW x \in Nat, x < m + m
  PROVE  x % m = IF x < m THEN x ELSE x - m
  OBVIOUS

(* The remainder of an index that is less than two rounds from the start.  *)
LEMMA Wrap ==
  ASSUME NEW m \in Nat \ {0}, NEW h \in 0 .. (m - 1), NEW i \in 0 .. m
  PROVE  (h + i) % m = IF h + i < m THEN h + i ELSE h + i - m
<1> DEFINE x == h + i
<1>1. x \in Nat /\ x < m + m
  OBVIOUS
<1> HIDE DEF x
<1>2. x % m = IF x < m THEN x ELSE x - m
  BY <1>1, Remainder
<1> QED
  BY <1>2 DEF x

(* The number of events of a ring.                                         *)
LEMMA LengthType ==
  ASSUME NEW r \in Rings, r.is_full => r.head = r.tail
  PROVE  /\ Length(r) \in 0 .. MAX_EVENTS
         /\ Length(r) = MAX_EVENTS <=> r.is_full
         /\ ~r.is_full => Length(r) = IF r.head <= r.tail THEN r.tail - r.head
                                     ELSE r.tail + MAX_EVENTS - r.head
<1> DEFINE M == MAX_EVENTS  h == r.head  t == r.tail
<1>1. /\ M \in Nat \ {0} /\ r.is_full \in BOOLEAN
      /\ h \in 0 .. (M - 1) /\ t \in 0 .. (M - 1)
  BY EventMgrAssumption DEF Rings, Index
<1>2. Length(r) = IF r.is_full THEN M ELSE (t + M - h) % M
  BY DEF Length
<1> HIDE DEF M, h, t
<1>3. t + (M - h) = t + M - h /\ M - h \in 0 .. M
  BY <1>1
<1>4. (t + M - h) % M = IF t + M - h < M THEN t + M - h ELSE t + M - h - M
  BY <1>1, <1>3, Wrap
<1>5. (t + M - h) % M = IF h <= t THEN t - h ELSE t + M - h
  BY <1>1, <1>4
<1> QED
  BY <1>1, <1>2, <1>5 DEF M, h, t

(* The place of the i-th event of a ring, and the place behind one.        *)
LEMMA PlaceType ==
  ASSUME NEW h \in Index, NEW i \in 0 .. MAX_EVENTS
  PROVE  (h + i) % MAX_EVENTS = IF h + i < MAX_EVENTS THEN h + i ELSE h + i - MAX_EVENTS
  BY EventMgrAssumption, Wrap DEF Index

(* The next index of the ring.                                             *)
LEMMA AfterType ==
  ASSUME NEW h \in Index
  PROVE  /\ After(h) \in Index
         /\ After(h) = IF h + 1 < MAX_EVENTS THEN h + 1 ELSE 0
<1>1. MAX_EVENTS \in Nat \ {0} /\ h \in 0 .. (MAX_EVENTS - 1)
  BY EventMgrAssumption DEF Index
<1>2. 1 \in 0 .. MAX_EVENTS
  BY <1>1
<1>3. After(h) = IF h + 1 < MAX_EVENTS THEN h + 1 ELSE h + 1 - MAX_EVENTS
  BY <1>2, PlaceType DEF After
<1> QED
  BY <1>1, <1>3 DEF Index

-----------------------------------------------------------------------------
(* event_queue_add_event appends the event at the tail.                    *)
LEMMA AddedSound ==
  ASSUME NEW r, NEW last \in Nat, RingSound(r, last), ~r.is_full,
         NEW e \in Events, e.no = last + 1
  PROVE  RingSound(Added(r, e), last + 1) /\ Length(Added(r, e)) = Length(r) + 1
<1> DEFINE q == Added(r, e)
<1>1. r \in Rings /\ MAX_EVENTS \in Nat \ {0} /\ Holds(r, last)
  BY EventMgrAssumption DEF RingSound
<1>2. /\ After(r.tail) \in Index
      /\ After(r.tail) = IF r.tail + 1 < MAX_EVENTS THEN r.tail + 1 ELSE 0
  BY <1>1, AfterType DEF Rings
<1>3. /\ q \in Rings /\ q.head = r.head /\ q.tail = After(r.tail)
      /\ q.is_full <=> After(r.tail) = r.head
      /\ q.events = [r.events EXCEPT ![r.tail] = e]
  BY <1>1, <1>2 DEF Added, Rings
<1>4. q.is_full => q.head = q.tail
  BY <1>3
<1>5. Length(r) \in 0 .. (MAX_EVENTS - 1) /\ Length(q) = Length(r) + 1
  <2>1. Length(r) = IF r.head <= r.tail THEN r.tail - r.head
                    ELSE r.tail + MAX_EVENTS - r.head
    BY <1>1, LengthType
  <2>2. IF q.is_full THEN Length(q) = MAX_EVENTS
        ELSE Length(q) = IF q.head <= q.tail THEN q.tail - q.head
                         ELSE q.tail + MAX_EVENTS - q.head
    BY <1>3, <1>4, LengthType
  <2>3. r.head \in 0 .. (MAX_EVENTS - 1) /\ r.tail \in 0 .. (MAX_EVENTS - 1)
    BY <1>1 DEF Rings, Index
  <2> HIDE DEF q
  <2> QED
    BY <1>1, <1>2, <1>3, <2>1, <2>2, <2>3
<1>6. ASSUME NEW i \in 0 .. Length(r)
      PROVE  At(q, i) = IF i = Length(r) THEN e ELSE At(r, i)
  <2>1. Length(r) = IF r.head <= r.tail THEN r.tail - r.head
                    ELSE r.tail + MAX_EVENTS - r.head
    BY <1>1, LengthType
  <2>2. (r.head + i) % MAX_EVENTS = IF r.head + i < MAX_EVENTS THEN r.head + i
                                    ELSE r.head + i - MAX_EVENTS
    BY <1>1, <1>5, PlaceType DEF Rings
  <2>3. /\ (r.head + i) % MAX_EVENTS \in Index
        /\ (r.head + i) % MAX_EVENTS = r.tail <=> i = Length(r)
    <3>1. r.head \in 0 .. (MAX_EVENTS - 1) /\ r.tail \in 0 .. (MAX_EVENTS - 1)
      BY <1>1 DEF Rings, Index
    <3> HIDE DEF q
    <3> QED
      BY <1>1, <1>5, <2>1, <2>2, <3>1 DEF Index
  <2> QED
    BY <1>1, <1>3, <2>3 DEF At, Rings
<1>7. Holds(q, last + 1)
  <2> SUFFICES \A i \in 0 .. (Length(q) - 1) :
                 At(q, i) # None /\ At(q, i).no = (last + 1) - Length(q) + 1 + i
    BY Zenon DEF Holds
  <2> HIDE DEF q
  <2> TAKE i \in 0 .. (Length(q) - 1)
  <2>1. CASE i = Length(r)
    BY <1>5, <1>6, <2>1, EventMgrAssumption DEF Events
  <2>2. CASE i # Length(r)
    <3>1. i \in 0 .. (Length(r) - 1)
      BY <1>5, <2>2
    <3> QED
      BY <1>1, <1>5, <1>6, <2>2, <3>1 DEF Holds
  <2> QED
    BY <2>1, <2>2
<1> QED
  BY <1>3, <1>4, <1>5, <1>7 DEF RingSound

(* The head of a ring is its oldest event; without it the others keep      *)
(* their order.                                                            *)
LEMMA DroppedSound ==
  ASSUME NEW r, NEW last \in Nat, RingSound(r, last), Length(r) > 0
  PROVE  RingSound(Dropped(r), last) /\ Length(Dropped(r)) = Length(r) - 1
<1> DEFINE q == Dropped(r)
<1>1. r \in Rings /\ MAX_EVENTS \in Nat \ {0} /\ Holds(r, last)
  BY EventMgrAssumption DEF RingSound
<1>2. /\ After(r.head) \in Index
      /\ After(r.head) = IF r.head + 1 < MAX_EVENTS THEN r.head + 1 ELSE 0
  BY <1>1, AfterType DEF Rings
<1>3. /\ q \in Rings /\ q.head = After(r.head) /\ q.tail = r.tail
      /\ ~q.is_full
      /\ q.events = [r.events EXCEPT ![r.head] = None]
  BY <1>1, <1>2 DEF Dropped, Rings
<1>4. /\ Length(r) \in 1 .. MAX_EVENTS
      /\ IF r.is_full THEN Length(r) = MAX_EVENTS /\ r.head = r.tail
         ELSE Length(r) = IF r.head <= r.tail THEN r.tail - r.head
                          ELSE r.tail + MAX_EVENTS - r.head
  BY <1>1, LengthType DEF RingSound
<1>5. Length(q) = Length(r) - 1
  <2>1. Length(q) = IF q.head <= q.tail THEN q.tail - q.head
                    ELSE q.tail + MAX_EVENTS - q.head
    BY <1>3, LengthType
  <2>2. r.head \in 0 .. (MAX_EVENTS - 1) /\ r.tail \in 0 .. (MAX_EVENTS - 1)
    BY <1>1 DEF Rings, Index
  <2> HIDE DEF q
  <2> QED
    BY <1>1, <1>2, <1>3, <1>4, <2>1, <2>2
<1>6. ASSUME NEW i \in 0 .. (Length(q) - 1)
      PROVE  At(q, i) = At(r, i + 1)
  <2>1. (q.head + i) % MAX_EVENTS = IF q.head + i < MAX_EVENTS THEN q.head + i
                                    ELSE q.head + i - MAX_EVENTS
    <3>1. i \in 0 .. MAX_EVENTS /\ q.head \in Index
      BY <1>1, <1>2, <1>3, <1>4, <1>5
    <3> QED
      BY <3>1, PlaceType
  <2>2. (r.head + (i + 1)) % MAX_EVENTS
          = IF r.head + (i + 1) < MAX_EVENTS THEN r.head + (i + 1)
            ELSE r.head + (i + 1) - MAX_EVENTS
    BY <1>1, <1>4, <1>5, PlaceType DEF Rings
  <2>3. /\ (q.head + i) % MAX_EVENTS = (r.head + (i + 1)) % MAX_EVENTS
        /\ (q.head + i) % MAX_EVENTS # r.head
        /\ (q.head + i) % MAX_EVENTS \in Index
    <3> DEFINE M == MAX_EVENTS  h == r.head  g == q.head  L == Length(r)
    <3>1. /\ M \in Nat \ {0} /\ h \in 0 .. (M - 1) /\ L \in 1 .. M
          /\ g = IF h + 1 < M THEN h + 1 ELSE 0
      BY <1>1, <1>2, <1>3, <1>4 DEF Rings, Index
    <3>2. i \in 0 .. (L - 2)
      BY <1>4, <1>5
    <3> SUFFICES LET p == IF g + i < M THEN g + i ELSE g + i - M
                     o == IF h + (i + 1) < M THEN h + (i + 1) ELSE h + (i + 1) - M
                 IN  p = o /\ p # h /\ p \in 0 .. (M - 1)
      BY <2>1, <2>2 DEF Index
    <3> HIDE DEF M, h, g, L
    <3> QED
      BY <3>1, <3>2
  <2> QED
    BY <1>1, <1>3, <2>3 DEF At, Rings
<1>7. Holds(q, last)
  <2> SUFFICES ASSUME NEW i \in 0 .. (Length(q) - 1)
               PROVE  At(q, i) # None /\ At(q, i).no = last - Length(q) + 1 + i
    BY DEF Holds
  <2>1. i + 1 \in 0 .. (Length(r) - 1)
    BY <1>4, <1>5
  <2>2. At(r, i + 1) # None /\ At(r, i + 1).no = last - Length(r) + 1 + (i + 1)
    BY <1>1, <2>1 DEF Holds
  <2> QED
    BY <1>4, <1>5, <1>6, <2>2
<1> QED
  BY <1>3, <1>5, <1>7 DEF RingSound

(* The ring before the first event.                                        *)
LEMMA EmptySound ==
  ASSUME NEW last \in Nat
  PROVE  RingSound(EmptyQueue, last) /\ Length(EmptyQueue) = 0 /\ ~EmptyQueue.is_full
<1>1. EmptyQueue \in Rings /\ ~EmptyQueue.is_full /\ EmptyQueue.head = EmptyQueue.tail
      /\ EmptyQueue.head = 0 /\ EmptyQueue.tail = 0
  BY EventMgrAssumption DEF EmptyQueue, Rings, Index
<1>2. Length(EmptyQueue) = 0
  <2> DEFINE r == EmptyQueue
  <2> HIDE DEF r
  <2>1. Length(r) = IF r.head <= r.tail THEN r.tail - r.head
                    ELSE r.tail + MAX_EVENTS - r.head
    BY <1>1, LengthType DEF r
  <2> QED
    BY <1>1, <2>1 DEF r
<1> QED
  BY <1>1, <1>2 DEF RingSound, Holds

-----------------------------------------------------------------------------
(* A walk tells a subscription or is done, and keeps whose it is; a        *)
(* removal moves a walk and leaves its stage alone.                        *)
LEMMA WalkedType ==
  ASSUME NEW d, DOMAIN d = Fields, NEW n, NEW e
  PROVE  /\ DOMAIN Walked(d, n, e) = Fields
         /\ Walked(d, n, e).by = d.by
         /\ ~Done(Walked(d, n, e)) => Walked(d, n, e).at = "telling"
  BY DEF Walked, Done, Fields

(* A distribution that begins.                                             *)
LEMMA BegunType ==
  ASSUME NEW by, NEW e
  PROVE  /\ DOMAIN Begun(by, e) = Fields
         /\ Begun(by, e).by = by
         /\ ~Done(Begun(by, e)) => Begun(by, e).at = "telling"
<1> DEFINE d == [Stopped EXCEPT !.by = by, !.steady = list]
<1>1. DOMAIN d = Fields /\ d.by = by
  BY DEF Stopped, Fields
<1> HIDE DEF d
<1>2. Begun(by, e) = Walked(d, First(list), e)
  BY Zenon DEF Begun, d
<1> QED
  BY <1>1, <1>2, WalkedType

(* A distribution from whose place a subscription is removed.              *)
LEMMA KeepType ==
  ASSUME NEW d, DOMAIN d = Fields, NEW gone
  PROVE  /\ DOMAIN Keep(d, gone) = Fields
         /\ Keep(d, gone).at = d.at /\ Keep(d, gone).by = d.by
  BY DEF Keep, Fields

(* A distribution that has told one subscriber.                            *)
LEMMA TellType ==
  ASSUME NEW d, DOMAIN d = Fields
  PROVE  DOMAIN Tell(d) = Fields /\ Tell(d).at = "told" /\ Tell(d).by = d.by
  BY DEF Tell, Fields

(* No distribution.                                                        *)
LEMMA StoppedType ==
  /\ DOMAIN Stopped = Fields /\ Stopped.at = "idle" /\ Stopped.by = None
  /\ \A t : LET d == [Stopped EXCEPT !.by = t, !.at = "between"]
            IN  DOMAIN d = Fields /\ d.at = "between" /\ d.by = t
  BY DEF Stopped, Fields

(* Both users of the ring leave it sound.                                  *)
LEMMA PublicationStep ==
  ASSUME IInv, NEW d, DOMAIN d = Fields, d.by = pub.by, pub.at # "idle",
         ~Done(d) => d.at = "telling", Proceed(d)
  PROVE  /\ DOMAIN pub' = Fields /\ pub'.at \in {"idle", "between", "telling", "told"}
         /\ (pub'.by = None <=> pub'.at = "idle")
         /\ RingSound(pubq', published) \/ pub'.by = None
         /\ pub'.by # None => Length(pubq') > 0
<1>1. pub.by # None /\ RingSound(pubq, published) /\ Length(pubq) > 0 /\ published \in Nat
  BY DEF IInv, Distributions
<1>2. RingSound(Dropped(pubq), published) /\ Length(Dropped(pubq)) \in Nat
  <2>1. Length(pubq) \in Nat /\ Length(Dropped(pubq)) = Length(pubq) - 1
    BY <1>1, DroppedSound, LengthType, EventMgrAssumption DEF RingSound
  <2> QED
    BY <1>1, <2>1, DroppedSound
<1>3. CASE ~Done(d)
  BY <1>1, <1>3 DEF Proceed
<1>4. CASE Done(d) /\ Length(Dropped(pubq)) = 0
  BY <1>4, StoppedType DEF Proceed
<1>5. CASE Done(d) /\ Length(Dropped(pubq)) # 0
  <2> DEFINE d1 == [Stopped EXCEPT !.by = pub.by, !.at = "between"]
  <2>1. DOMAIN d1 = Fields /\ d1.at = "between" /\ d1.by = pub.by
    BY StoppedType
  <2>2. pub' = d1 /\ pubq' = Dropped(pubq)
    BY <1>5 DEF Proceed
  <2> HIDE DEF d1
  <2> QED
    BY <1>1, <1>2, <1>5, <2>1, <2>2
<1> QED
  BY <1>3, <1>4, <1>5

(* The worker, that distributes from the queue of posted events.           *)
LEMMA DistributionStep ==
  ASSUME IInv, NEW d, DOMAIN d = Fields, ~Done(d) => d.at = "telling",
         Active, Distribute(d), UNCHANGED <<sem, is_quitting, posted>>
  PROVE  /\ DOMAIN th' = Fields
         /\ th'.at \in {"idle", "woken", "telling", "told", "ended"}
         /\ RingSound(queue', posted)
         /\ Active' => Length(queue') > 0
         /\ WakeupsMatch'
<1>1. /\ RingSound(queue, posted) /\ Length(queue) > 0 /\ posted \in Nat /\ sem \in Nat
      /\ ~is_quitting => Length(queue) = sem + 1
  BY DEF IInv, WakeupsMatch, Active
<1>2. CASE ~Done(d)
  BY <1>1, <1>2 DEF Distribute, Active, WakeupsMatch
<1>3. CASE Done(d)
  <2>1. RingSound(Dropped(queue), posted) /\ Length(Dropped(queue)) = Length(queue) - 1
    BY <1>1, DroppedSound
  <2>2. th' = Stopped /\ queue' = Dropped(queue)
    BY <1>3 DEF Distribute
  <2> QED
    BY <1>1, <2>1, <2>2, StoppedType DEF Active, WakeupsMatch
<1> QED
  BY <1>2, <1>3

-----------------------------------------------------------------------------
(* The invariant holds at first.                                           *)
LEMMA InitInv == Init => IInv
<1> SUFFICES ASSUME Init PROVE IInv
  OBVIOUS
<1>1. RingSound(queue, posted) /\ RingSound(pubq, published) /\ Length(queue) = 0
  <2>1. queue = EmptyQueue /\ pubq = EmptyQueue /\ posted = 0 /\ published = 0
    BY DEF Init, counts
  <2> QED
    BY <2>1, EmptySound
<1>2. th = Stopped /\ pub = Stopped
  BY DEF Init
<1>3. posted = 0 /\ published = 0 /\ sem = 0 /\ is_quitting = FALSE
  BY DEF Init, counts
<1>4. Distributions /\ ~Active /\ pub.by = None
  BY <1>2, StoppedType, Zenon DEF Distributions, Active
<1>5. th.at \notin {"woken", "telling", "told"}
  BY <1>4 DEF Active
<1>6. WakeupsMatch
  BY <1>1, <1>3, <1>5 DEF WakeupsMatch
<1>7. posted \in Nat /\ published \in Nat /\ sem \in Nat /\ is_quitting \in BOOLEAN
  BY <1>3
<1> QED
  BY <1>1, <1>4, <1>6, <1>7, Zenon DEF IInv

(* Post, by the application or by a callback, puts one event and one count *)
(* of the semaphore.                                                       *)
LEMMA PostStep ==
  ASSUME IInv, NEW t, NEW p \in Pubs, Post(t, p)
  PROVE  IInv'
<1> DEFINE e == Event(p, posted)
<1>1. posted \in Nat /\ RingSound(queue, posted) /\ ~queue.is_full
      /\ Length(queue) \in Nat
  BY EventMgrAssumption, LengthType DEF IInv, Post, RingSound
<1>2. e \in Events /\ e.no = posted + 1
  BY <1>1 DEF Event, Events
<1>3. RingSound(queue', posted') /\ Length(queue') = Length(queue) + 1
  BY <1>1, <1>2, AddedSound DEF Post
<1> QED
  BY <1>1, <1>3 DEF Post, Posted, IInv, Distributions, Active, WakeupsMatch

(* pjmedia_event_publish, whether it distributes, queues or posts.         *)
LEMMA PublishStep ==
  ASSUME IInv, NEW t \in Threads, NEW p \in Pubs, Publish(t, p) \/ PublishNested(t, p)
  PROVE  IInv'
<1> DEFINE e == Event(p, published)
<1>1. published \in Nat /\ e \in Events /\ e.no = published + 1 /\ t # None
  BY EventMgrAssumption DEF IInv, Event, Events, Threads
<1>2. CASE Publish(t, p)
  <2>1. RingSound(pubq', published') /\ Length(pubq') > 0
    BY <1>1, <1>2, AddedSound, EmptySound DEF Publish
  <2> QED
    BY <1>1, <1>2, <2>1, StoppedType
       DEF Publish, counts, IInv, Distributions, Active, WakeupsMatch
<1>3. CASE PublishNested(t, p)
  <2>1. RingSound(pubq, published) /\ Length(pubq) > 0 /\ ~pubq.is_full
        /\ Length(pubq) \in Nat
    BY <1>1, <1>3, EventMgrAssumption, LengthType DEF PublishNested, IInv, RingSound
  <2>2. RingSound(pubq', published') /\ Length(pubq') > 0
    BY <1>1, <1>3, <2>1, AddedSound DEF PublishNested
  <2> QED
    BY <1>1, <1>3, <2>2
       DEF PublishNested, IInv, Distributions, Active, WakeupsMatch
<1> QED
  BY <1>2, <1>3

(* The calls of a client or of a callback.                                 *)
LEMMA ClientStep ==
  ASSUME IInv, NEW t \in Threads, Client(t)
  PROVE  IInv'
<1>1. ASSUME NEW u, NEW e, Subscribe(t, u, e)
      PROVE  IInv'
  BY <1>1 DEF Subscribe, counts, IInv, Distributions, Active, WakeupsMatch
<1>2. ASSUME NEW u, NEW e, Unsubscribe(t, u, e)
      PROVE  IInv'
  <2> DEFINE gone == {n \in list : Matches(n, u, e)}
  <2>1. th' = Keep(th, gone) /\ pub' = Keep(pub, gone)
        /\ UNCHANGED <<queue, pubq, sem, is_quitting, posted, published>>
    BY <1>2, Zenon DEF Unsubscribe, Kept, counts
  <2>2. /\ DOMAIN th' = Fields /\ th'.at = th.at
        /\ DOMAIN pub' = Fields /\ pub'.at = pub.at /\ pub'.by = pub.by
    BY <2>1, KeepType DEF IInv, Distributions
  <2> QED
    BY <2>1, <2>2 DEF IInv, Distributions, Active, WakeupsMatch
<1>3. ASSUME NEW p \in Pubs, Post(t, p) \/ Publish(t, p) \/ PublishNested(t, p)
      PROVE  IInv'
  BY <1>3, PostStep, PublishStep
<1> QED
  BY <1>1, <1>2, <1>3 DEF Client

(* The steps of the worker.                                                *)
LEMMA WorkerInv ==
  ASSUME IInv, WorkerStep
  PROVE  IInv'
<1>1. CASE Wake
  BY <1>1, LengthType, EventMgrAssumption
     DEF Wake, counts, IInv, Distributions, Fields, Active, WakeupsMatch
<1>2. CASE BeginTh
  <2>1. Active /\ UNCHANGED <<sem, is_quitting, posted, published, pub, pubq>>
        /\ Distribute(Begun(None, HeadOf(queue)))
    BY <1>2 DEF BeginTh, counts, Active
  <2> QED
    BY <2>1, BegunType, DistributionStep DEF IInv, Distributions
<1>3. CASE TellTh
  BY <1>3, TellType DEF TellTh, counts, IInv, Distributions, Active, WakeupsMatch
<1>4. CASE ReturnTh
  <2>1. Active /\ UNCHANGED <<sem, is_quitting, posted, published, pub, pubq>>
        /\ Distribute(Walked(th, th.next, HeadOf(queue)))
    BY <1>4 DEF ReturnTh, counts, Active
  <2> QED
    BY <2>1, WalkedType, DistributionStep DEF IInv, Distributions
<1> QED
  BY <1>1, <1>2, <1>3, <1>4 DEF WorkerStep

(* The steps of a publisher that distributes.                              *)
LEMMA PublisherInv ==
  ASSUME IInv, PubStep
  PROVE  IInv'
<1>1. CASE NextPub
  <2>1. pub.at # "idle" /\ Proceed(Begun(pub.by, HeadOf(pubq)))
        /\ UNCHANGED <<sem, is_quitting, posted, published, th, queue>>
    BY <1>1 DEF NextPub, counts
  <2> QED
    BY <2>1, BegunType, PublicationStep DEF IInv, Distributions, Active, WakeupsMatch
<1>2. CASE TellPub
  BY <1>2, TellType DEF TellPub, counts, IInv, Distributions, Active, WakeupsMatch
<1>3. CASE ReturnPub
  <2>1. pub.at # "idle" /\ Proceed(Walked(pub, pub.next, HeadOf(pubq)))
        /\ UNCHANGED <<sem, is_quitting, posted, published, th, queue>>
    BY <1>3 DEF ReturnPub, counts
  <2> QED
    BY <2>1, WalkedType, PublicationStep DEF IInv, Distributions, Active, WakeupsMatch
<1> QED
  BY <1>1, <1>2, <1>3 DEF PubStep

(* The invariant is inductive.                                             *)
LEMMA NextInv ==
  ASSUME IInv, [Next]_vars
  PROVE  IInv'
<1>1. ASSUME NEW t, Destroy(t)
      PROVE  IInv'
  BY <1>1 DEF Destroy, counts, IInv, Distributions, Active, WakeupsMatch
<1>2. CASE UNCHANGED vars
  BY <1>2 DEF vars, counts, IInv, Distributions, Active, WakeupsMatch
<1> QED
  BY <1>1, <1>2, ClientStep, WorkerInv, PublisherInv DEF Next

-----------------------------------------------------------------------------
(* Neither ring loses, repeats or reorders an event, at its seam, when it  *)
(* has been full, or when a callback adds to the ring that is being told   *)
(* from; and until the manager quits its worker is woken once for each     *)
(* posted event (event_queue_add_event, event_worker_thread).              *)
THEOREM RingsAndWakeups == Spec => []QueuesSound
<1>1. IInv => QueuesSound
  BY DEF IInv, QueuesSound, QueuesOrdered, RingSound
<1> QED
  BY InitInv, NextInv, <1>1, PTL DEF Spec

-----------------------------------------------------------------------------
(* The list: its nodes have numbers of their own, a freed node is not one  *)
(* of them, and the subscriptions that a distribution counts on are there. *)
Numbered == /\ made \in Nat /\ End \notin list
            /\ list \subseteq Nodes /\ free \subseteq Nodes /\ list \cap free = {}
            /\ DOMAIN sub = Nodes
            /\ \A n \in list : sub[n].no \in 1 .. made
            /\ \A n, m \in list : sub[n].no = sub[m].no => n = m
Told == /\ th.steady \subseteq list /\ pub.steady \subseteq list
        /\ NobodyMissed
WInv == IInv /\ Numbered /\ Told

(* A set of nodes of the list has a first one.                             *)
LEMMA FirstIs ==
  ASSUME Numbered, NEW l \in SUBSET list, l # {}
  PROVE  First(l) \in l /\ First(l) # End /\ \A m \in l : sub[First(l)].no <= sub[m].no
<1> DEFINE nos == {sub[n].no : n \in l}
<1>1. nos \subseteq Nat /\ nos # {}
  BY DEF Numbered
<1> HIDE DEF nos
<1>2. PICK x \in nos : \A y \in nos : ~(<<y, x>> \in OpToRel(<, Nat))
  BY <1>1, NatLessThanWellFounded, WFMin
<1>3. \A y \in nos : x <= y
  <2>1. \A i, j \in Nat : <<i, j>> \in OpToRel(<, Nat) <=> i < j
    BY DEF OpToRel
  <2>2. \A y \in nos : x \in Nat /\ y \in Nat /\ ~(y < x)
    BY <1>1, <1>2, <2>1
  <2>3. \A i, j \in Nat : ~(j < i) => i <= j
    OBVIOUS
  <2> QED
    BY <2>2, <2>3
<1>4. \E n \in l : \A m \in l : sub[n].no <= sub[m].no
  BY <1>3 DEF nos
<1>5. First(l) = CHOOSE n \in l : \A m \in l : sub[n].no <= sub[m].no
  BY DEF First
<1>6. First(l) \in l /\ \A m \in l : sub[First(l)].no <= sub[m].no
  BY <1>4, <1>5
<1> QED
  BY <1>6 DEF Numbered

LEMMA FirstOfNone == First({}) = End
  BY DEF First

(* The nodes from the first one of a set on are, of that set, all.         *)
LEMMA FromFirst ==
  ASSUME Numbered, NEW l \in SUBSET list, NEW m \in l
  PROVE  m \in From(list, First(l)) /\ First(l) \in list
<1>1. First(l) \in l /\ First(l) # End /\ sub[First(l)].no <= sub[m].no
  BY FirstIs
<1> QED
  BY <1>1 DEF From, Numbered

(* Behind a node.                                                          *)
LEMMA NextIs ==
  ASSUME Numbered, NEW n \in list
  PROVE  /\ Next1(list, n) \in list \cup {End}
         /\ \A m \in list : m \in From(list, Next1(list, n)) <=> sub[m].no > sub[n].no
<1> DEFINE rest == From(list, n) \ {n}
<1>1. n # End /\ rest = {m \in list : sub[m].no > sub[n].no}
  BY DEF From, Numbered
<1>2. Next1(list, n) = First(rest)
  BY DEF Next1
<1> HIDE DEF rest
<1>3. CASE rest = {}
  BY <1>1, <1>2, <1>3, FirstOfNone DEF From
<1>4. CASE rest # {}
  <2> DEFINE f == First(rest)
  <2>1. f \in rest /\ f # End /\ \A m \in rest : sub[f].no <= sub[m].no
    BY <1>1, <1>4, FirstIs
  <2> HIDE DEF f
  <2>2. From(list, f) = {m \in list : sub[m].no >= sub[f].no}
    BY <2>1 DEF From
  <2>3. \A m \in list : sub[m].no >= sub[f].no <=> sub[m].no > sub[n].no
    BY <1>1, <2>1 DEF Numbered
  <2> QED
    BY <1>1, <1>2, <2>1, <2>2, <2>3 DEF f
<1> QED
  BY <1>3, <1>4

(* A walk that goes on at node n, when the interested subscriptions behind *)
(* n and no others are still to be told: one of them is next, or it ends   *)
(* and there was none.                                                     *)
LEMMA WalkedSound ==
  ASSUME Numbered, NEW d, DOMAIN d = Fields, d.steady \subseteq list, NEW n, NEW e,
         n \in list \cup {End},
         \A m \in d.steady : Interested(m, e) => (m \in d.seen <=> m \notin From(list, n))
  PROVE  /\ Walked(d, n, e).steady = d.steady
         /\ ~Misses(Walked(d, n, e), e)
         /\ ~Done(Walked(d, n, e)) => Sound(Walked(d, n, e), e)
<1> DEFINE w == Walked(d, n, e)
           todo == {m \in From(list, n) : Interested(m, e)}
<1>1. From(list, n) \subseteq list /\ todo \subseteq list
  BY DEF From
<1>2. CASE todo = {}
  <2>1. w.node = End /\ w.steady = d.steady /\ w.seen = d.seen
    BY <1>2 DEF Walked, Fields
  <2> QED
    BY <1>2, <2>1 DEF Done, Misses
<1>3. CASE todo # {}
  <2> DEFINE f == First(todo)
  <2>1. /\ w.at = "telling" /\ w.node = f /\ w.next = Next1(list, f)
        /\ w.steady = d.steady /\ w.seen = d.seen
    BY <1>3 DEF Walked, Fields
  <2> HIDE DEF w, todo
  <2>2. f \in todo /\ f # End /\ \A m \in todo : sub[f].no <= sub[m].no
    BY <1>1, <1>3, FirstIs
  <2> HIDE DEF f
  <2>3. /\ w.next \in list \cup {End}
        /\ \A m \in list : m \in From(list, w.next) <=> sub[m].no > sub[f].no
    BY <1>1, <2>1, <2>2, NextIs
  <2>4. ~Done(w)
    BY <2>1, <2>2 DEF Done
  <2>5. \A m \in list : sub[m].no \in Nat /\ (sub[m].no = sub[f].no => m = f)
    BY <1>1, <2>2 DEF Numbered
  <2>6. n # End /\ \A m \in From(list, n) : sub[m].no >= sub[n].no
    BY <2>2 DEF todo, From
  <2>7. \A m \in list : m \in From(list, n) <=> sub[m].no >= sub[n].no
    BY <2>6 DEF From
  <2>8. sub[f].no >= sub[n].no /\ f \in list /\ n \in list
    BY <1>1, <2>2, <2>6 DEF todo
  <2>9. ASSUME NEW m \in w.steady, Interested(m, e)
        PROVE  LET ahead == m \in From(list, w.next)
                   now   == w.at = "telling" /\ m = w.node
               IN  /\ m \in list
                   /\ m \in w.seen \/ now \/ ahead
                   /\ ~(m \in w.seen /\ (now \/ ahead)) /\ ~(now /\ ahead)
    <3>1. m \in list /\ (m \in w.seen <=> sub[m].no < sub[n].no)
      BY <2>1, <2>5, <2>7, <2>8, <2>9
    <3>2. m \in todo <=> sub[m].no >= sub[n].no
      BY <2>7, <2>9, <3>1 DEF todo
    <3>3. sub[m].no >= sub[n].no => sub[f].no <= sub[m].no
      BY <2>2, <3>2
    <3>4. m \in From(list, w.next) <=> sub[m].no > sub[f].no
      BY <2>3, <3>1
    <3> QED
      BY <2>1, <2>5, <2>8, <3>1, <3>3, <3>4
  <2>10. Sound(w, e)
    BY <2>3, <2>9 DEF Sound
  <2> QED
    BY <2>1, <2>4, <2>10 DEF Misses, w
<1> QED
  BY <1>2, <1>3

(* A distribution that begins counts on every subscription.                *)
LEMMA BegunSound ==
  ASSUME Numbered, NEW by, NEW e
  PROVE  /\ Begun(by, e).steady = list
         /\ ~Misses(Begun(by, e), e)
         /\ ~Done(Begun(by, e)) => Sound(Begun(by, e), e)
<1> DEFINE d == [Stopped EXCEPT !.by = by, !.steady = list]
<1>1. DOMAIN d = Fields /\ d.steady = list /\ d.seen = {}
  BY DEF Stopped, Fields
<1> HIDE DEF d
<1>2. Begun(by, e) = Walked(d, First(list), e)
  BY Zenon DEF Begun, d
<1>3. First(list) \in list \cup {End}
  BY FirstIs, FirstOfNone
<1>4. \A m \in list : m \in From(list, First(list))
  BY FromFirst
<1> QED
  BY <1>1, <1>2, <1>3, <1>4, WalkedSound

(* One that goes on after a callback.                                      *)
LEMMA ReturnSound ==
  ASSUME Numbered, NEW d, DOMAIN d = Fields, d.steady \subseteq list, NEW e,
         d.at = "told", Sound(d, e)
  PROVE  /\ Walked(d, d.next, e).steady = d.steady
         /\ ~Misses(Walked(d, d.next, e), e)
         /\ ~Done(Walked(d, d.next, e)) => Sound(Walked(d, d.next, e), e)
<1>1. /\ d.next \in list \cup {End}
      /\ \A m \in d.steady : Interested(m, e) => (m \in d.seen <=> m \notin From(list, d.next))
  BY DEF Sound, Walking
<1> QED
  BY <1>1, WalkedSound

(* One that calls back.                                                    *)
LEMMA TellSound ==
  ASSUME NEW d, DOMAIN d = Fields, NEW e, d.at = "telling", Sound(d, e)
  PROVE  Tell(d).steady = d.steady /\ Sound(Tell(d), e)
<1> DEFINE w == Tell(d)
<1>1. /\ w.at = "told" /\ w.next = d.next /\ w.steady = d.steady
      /\ w.seen = IF d.node \in d.steady THEN d.seen \cup {d.node} ELSE d.seen
  BY DEF Tell, Fields
<1> HIDE DEF w
<1>2. Sound(w, e)
  BY <1>1 DEF Sound, Walking
<1> QED
  BY <1>1, <1>2 DEF w

(* One from under which subscriptions are removed goes on behind them.     *)
LEMMA KeepSound ==
  ASSUME Numbered, NEW d, DOMAIN d = Fields, d.steady \subseteq list, NEW e, Sound(d, e),
         NEW gone \in SUBSET list, list' = list \ gone,
         \A n \in list \ gone : sub'[n] = sub[n],
         NEW w, w = Keep(d, gone)
  PROVE  w.steady \subseteq list' /\ Sound(w, e)'
<1> DEFINE rest == From(list, d.next) \ gone
<1>1. PICK f : f = First(rest)
  OBVIOUS
<1>2. /\ w.at = d.at /\ w.node = d.node /\ w.next = f
      /\ w.steady = d.steady \ gone /\ w.seen = d.seen \ gone
  BY <1>1 DEF Keep, Fields
<1>3. rest \subseteq list' /\ rest \subseteq list
  BY DEF From
<1>4. \A m \in list' : m \in rest <=> m \in From(list, d.next)
  OBVIOUS
<1>5. (rest = {} => f = End) /\
      (rest # {} => f \in rest /\ f # End /\ \A m \in rest : sub[f].no <= sub[m].no)
  <2> HIDE DEF rest
  <2> QED
    BY <1>1, <1>3, FirstIs, FirstOfNone
<1>6. CASE Walking(d)
  <2>1. d.next \in list \cup {End}
    BY <1>6 DEF Sound
  <2>2. f \in list' \cup {End} /\ \A m \in list' : m \in From(list, f)' <=> m \in rest
    <3>1. CASE rest = {}
      BY <1>5, <3>1 DEF From
    <3>2. CASE rest # {}
      <4>1. f \in rest /\ f # End /\ \A m \in rest : sub[f].no <= sub[m].no
        BY <1>5, <3>2
      <4>2. d.next # End /\ d.next \in list
        BY <2>1, <4>1 DEF From
      <4>3. \A m \in list' : m \in rest <=> sub[m].no >= sub[d.next].no
        BY <4>2 DEF From
      <4> HIDE DEF rest
      <4>4. \A m \in list' : sub'[m].no = sub[m].no /\ sub[m].no \in Nat
        BY DEF Numbered
      <4>5. sub[d.next].no \in Nat
        BY <4>2 DEF Numbered
      <4>6. \A m \in list' : sub[m].no >= sub[f].no <=> sub[m].no >= sub[d.next].no
        BY <1>3, <4>1, <4>3, <4>4, <4>5
      <4>7. From(list, f)' = {m \in list' : sub'[m].no >= sub'[f].no}
        BY <4>1 DEF From
      <4> QED
        BY <1>3, <4>1, <4>3, <4>4, <4>6, <4>7
    <3> QED
      BY <3>1, <3>2
  <2>3. \A m \in list' : Interested(m, e)' <=> Interested(m, e)
    BY DEF Interested
  <2>4. ASSUME NEW m \in w.steady, Interested(m, e)'
        PROVE  LET ahead == m \in From(list, f)'
                   now   == w.at = "telling" /\ m = w.node
               IN  /\ m \in list'
                   /\ m \in w.seen \/ now \/ ahead
                   /\ ~(m \in w.seen /\ (now \/ ahead)) /\ ~(now /\ ahead)
    <3>1. m \in list' /\ m \in d.steady /\ Interested(m, e)
      BY <1>2, <2>3, <2>4
    <3>2. LET ahead == m \in From(list, d.next)
              now   == d.at = "telling" /\ m = d.node
          IN  /\ m \in d.seen \/ now \/ ahead
              /\ ~(m \in d.seen /\ (now \/ ahead)) /\ ~(now /\ ahead)
      BY <1>6, <3>1 DEF Sound
    <3> HIDE DEF rest
    <3> QED
      BY <1>2, <1>4, <2>2, <3>1, <3>2
  <2> QED
    BY <1>2, <2>2, <2>4 DEF Sound
<1>7. CASE ~Walking(d)
  BY <1>2, <1>7 DEF Sound, Walking
<1> QED
  BY <1>2, <1>6, <1>7

(* One that a new subscription has come behind.                            *)
LEMMA SubscribeSound ==
  ASSUME Numbered, NEW d, d.steady \subseteq list, NEW e, Sound(d, e),
         NEW n \in Nodes \ list, list' = list \cup {n},
         \A m \in list : sub'[m] = sub[m]
  PROVE  Sound(d, e)'
<1>1. CASE ~Walking(d)
  BY <1>1 DEF Sound, Walking
<1>2. CASE Walking(d)
  <2>1. d.next \in list \cup {End}
    BY <1>2 DEF Sound
  <2>2. \A m \in list : /\ Interested(m, e)' <=> Interested(m, e)
                        /\ m \in From(list, d.next)' <=> m \in From(list, d.next)
    BY <2>1 DEF Interested, From
  <2> QED
    BY <1>2, <2>1, <2>2 DEF Sound, Walking
<1> QED
  BY <1>1, <1>2

(* The event that is being told stays at the head of its ring while others *)
(* are added.                                                              *)
LEMMA HeadKept ==
  ASSUME NEW r, NEW last, RingSound(r, last), ~r.is_full, Length(r) > 0, NEW e
  PROVE  HeadOf(Added(r, e)) = HeadOf(r)
<1>1. r \in Rings /\ MAX_EVENTS \in Nat \ {0}
  BY EventMgrAssumption DEF RingSound
<1>2. Length(r) = IF r.head <= r.tail THEN r.tail - r.head ELSE r.tail + MAX_EVENTS - r.head
  BY <1>1, LengthType
<1>3. r.head # r.tail
  BY <1>1, <1>2 DEF Rings, Index
<1> QED
  BY <1>1, <1>3 DEF HeadOf, Added, Rings

-----------------------------------------------------------------------------
(* What a step of the worker or of a publisher leaves.                     *)
LEMMA ToldBy ==
  ASSUME WInv, UNCHANGED <<list, free, sub, made>>, ~missed',
         NEW d, d = th', d.steady \subseteq list, NEW e, e = HeadOf(queue'), Sound(d, e),
         NEW c, c = pub', c.steady \subseteq list, NEW g, g = HeadOf(pubq'), Sound(c, g)
  PROVE  Numbered' /\ Told'
<1>1. Numbered'
  BY DEF WInv, Numbered
<1>2. Sound(d, e)' /\ Sound(c, g)'
  BY DEF Sound, Interested, From
<1>3. Sound(th, HeadOf(queue))' /\ Sound(pub, HeadOf(pubq))'
  BY <1>2 DEF Sound, Interested, From, Walking, HeadOf
<1> QED
  BY <1>1, <1>3 DEF Told, NobodyMissed

(* What WInv says of one distribution and of the other.                    *)
LEMMA WInvSays ==
  ASSUME WInv
  PROVE  /\ IInv /\ Numbered /\ ~missed
         /\ DOMAIN th = Fields /\ th.steady \subseteq list /\ Sound(th, HeadOf(queue))
         /\ DOMAIN pub = Fields /\ pub.steady \subseteq list /\ Sound(pub, HeadOf(pubq))
BY DEF WInv, Told, NobodyMissed, IInv, Distributions

-----------------------------------------------------------------------------
(* The list holds nothing at first, and nobody walks it.                   *)
LEMMA InitTold == Init => WInv
<1> SUFFICES ASSUME Init PROVE WInv
  OBVIOUS
<1>1. IInv
  BY InitInv
<1>2. Numbered
  BY EndAssumption DEF Init, Numbered
<1>3. th = Stopped /\ pub = Stopped /\ missed = FALSE
  BY DEF Init
<1>4. Stopped.steady = {} /\ Stopped.at = "idle"
  BY DEF Stopped
<1>5. Told
  BY <1>3, <1>4 DEF Told, NobodyMissed, Sound, Walking
<1> QED
  BY <1>1, <1>2, <1>5 DEF WInv

(* A subscription gets the next number and a node that is not in the list. *)
LEMMA SubscribeTold ==
  ASSUME WInv, NEW t, NEW u, NEW x, Subscribe(t, u, x)
  PROVE  Numbered' /\ Told'
<1>1. PICK n : /\ n \in Unused
               /\ sub' = [sub EXCEPT ![n] = [user |-> u, epub |-> x, no |-> made + 1]]
               /\ list' = list \cup {n} /\ free' = free \ {n}
  BY DEF Subscribe
<1>2. n \in Nodes \ list
  BY <1>1, WInvSays DEF Unused, Numbered
<1>3. /\ Numbered /\ ~missed
      /\ th.steady \subseteq list /\ Sound(th, HeadOf(queue))
      /\ pub.steady \subseteq list /\ Sound(pub, HeadOf(pubq))
      /\ UNCHANGED <<queue, pubq, th, pub, missed>> /\ made' = made + 1
  BY WInvSays DEF Subscribe
<1>4. \A m \in list : sub'[m] = sub[m]
  BY <1>1, <1>2, <1>3 DEF Numbered
<1>5. sub'[n].no = made + 1
  BY <1>1, <1>2, <1>3 DEF Numbered
<1>6. /\ DOMAIN sub' = Nodes /\ list' \subseteq Nodes /\ free' \subseteq Nodes
      /\ list' \cap free' = {} /\ End \notin list'
  BY <1>1, <1>2, <1>3, EndAssumption DEF Numbered
<1>7. Numbered'
  BY <1>1, <1>2, <1>3, <1>4, <1>5, <1>6 DEF Numbered
<1>8. PICK d, e, c, g : d = th /\ e = HeadOf(queue) /\ c = pub /\ g = HeadOf(pubq)
  OBVIOUS
<1>9. Sound(d, e)' /\ Sound(c, g)'
  BY <1>1, <1>2, <1>3, <1>4, <1>8, SubscribeSound
<1>10. Sound(th, HeadOf(queue))' /\ Sound(pub, HeadOf(pubq))'
  BY <1>3, <1>8, <1>9 DEF Sound, Interested, From, Walking, HeadOf
<1> QED
  BY <1>1, <1>3, <1>7, <1>10 DEF Told, NobodyMissed

(* A removal takes the nodes from the list, from both walks and from what  *)
(* they count on.                                                          *)
LEMMA UnsubscribeTold ==
  ASSUME WInv, NEW t, NEW u, NEW x, Unsubscribe(t, u, x)
  PROVE  Numbered' /\ Told'
<1> DEFINE gone == {n \in list : Matches(n, u, x)}
<1>1. /\ list' = list \ gone /\ free' = free \cup gone
      /\ th' = Keep(th, gone) /\ pub' = Keep(pub, gone)
      /\ sub' = [n \in Nodes |-> IF n \in gone THEN NoSub ELSE sub[n]]
      /\ UNCHANGED <<queue, pubq, made, missed>>
  BY Zenon DEF Unsubscribe, Kept
<1>2. gone \in SUBSET list
  OBVIOUS
<1> HIDE DEF gone
<1>3. /\ Numbered /\ ~missed
      /\ DOMAIN th = Fields /\ th.steady \subseteq list /\ Sound(th, HeadOf(queue))
      /\ DOMAIN pub = Fields /\ pub.steady \subseteq list /\ Sound(pub, HeadOf(pubq))
  BY WInvSays
<1>4. Numbered' /\ \A n \in list \ gone : sub'[n] = sub[n]
  BY <1>1, <1>2, <1>3 DEF Numbered
<1>5. PICK d, w, e : d = th /\ w = th' /\ e = HeadOf(queue)
  OBVIOUS
<1>6. w.steady \subseteq list' /\ Sound(w, e)'
  BY <1>1, <1>2, <1>3, <1>4, <1>5, KeepSound
<1>7. PICK c, v, g : c = pub /\ v = pub' /\ g = HeadOf(pubq)
  OBVIOUS
<1>8. v.steady \subseteq list' /\ Sound(v, g)'
  BY <1>1, <1>2, <1>3, <1>4, <1>7, KeepSound
<1>9. Sound(th, HeadOf(queue))' /\ Sound(pub, HeadOf(pubq))'
  BY <1>1, <1>5, <1>6, <1>7, <1>8 DEF Sound, Interested, From, Walking, HeadOf
<1> QED
  BY <1>1, <1>3, <1>4, <1>5, <1>6, <1>7, <1>8, <1>9 DEF Told, NobodyMissed

(* Post, publish and the calls nested in callbacks: an event that is being *)
(* told stays where it is.                                                 *)
LEMMA PublishTold ==
  ASSUME WInv, NEW t \in Threads, NEW p \in Pubs,
         Post(t, p) \/ Publish(t, p) \/ PublishNested(t, p)
  PROVE  Numbered' /\ Told'
<1>1. /\ IInv /\ Numbered /\ ~missed
      /\ th.steady \subseteq list /\ Sound(th, HeadOf(queue))
      /\ pub.steady \subseteq list /\ Sound(pub, HeadOf(pubq))
  BY WInvSays
<1>2. UNCHANGED <<list, free, sub, made, missed, th>>
  BY DEF Post, Publish, PublishNested
<1>3. Sound(th, HeadOf(queue'))
  <2>1. CASE Walking(th)
    <3>1. RingSound(queue, posted) /\ Length(queue) > 0
      BY <1>1, <2>1 DEF IInv, Active, Walking
    <3>2. HeadOf(queue') = HeadOf(queue)
      BY <3>1, HeadKept DEF Post, Publish, PublishNested
    <3> QED
      BY <1>1, <3>2
  <2>2. CASE ~Walking(th)
    BY <2>2 DEF Sound
  <2> QED
    BY <2>1, <2>2
<1>4. PICK c, g : c = pub' /\ g = HeadOf(pubq')
  OBVIOUS
<1>5. c.steady \subseteq list /\ Sound(c, g)
  <2>1. CASE Publish(t, p)
    <3>1. c = [Stopped EXCEPT !.by = t, !.at = "between"]
      BY <1>4, <2>1 DEF Publish
    <3>2. c.steady = {} /\ c.at = "between"
      BY <3>1 DEF Stopped
    <3> QED
      BY <3>2 DEF Sound, Walking
  <2>2. CASE Post(t, p)
    BY <1>1, <1>4, <2>2 DEF Post
  <2>3. CASE PublishNested(t, p)
    <3>1. pub.by # None /\ ~pubq.is_full /\ pub' = pub
      BY <2>3, EventMgrAssumption DEF PublishNested, Threads
    <3>2. HeadOf(pubq') = HeadOf(pubq)
      BY <1>1, <2>3, <3>1, HeadKept DEF PublishNested, IInv
    <3> QED
      BY <1>1, <1>4, <3>1, <3>2
  <2> QED
    BY <2>1, <2>2, <2>3
<1>6. PICK d, e : d = th' /\ e = HeadOf(queue')
  OBVIOUS
<1> QED
  BY <1>1, <1>2, <1>3, <1>4, <1>5, <1>6, ToldBy

(* The worker and a publisher begin or go on.                              *)
LEMMA WorkerTold ==
  ASSUME WInv, WorkerStep
  PROVE  Numbered' /\ Told'
<1>1. /\ IInv /\ Numbered /\ ~missed /\ DOMAIN th = Fields
      /\ th.steady \subseteq list /\ Sound(th, HeadOf(queue))
      /\ pub.steady \subseteq list /\ Sound(pub, HeadOf(pubq))
  BY WInvSays
<1>2. UNCHANGED <<list, free, sub, made, pub, pubq>>
  BY DEF WorkerStep, Wake, BeginTh, TellTh, ReturnTh
<1>3. PICK d, e : d = th' /\ e = HeadOf(queue')
  OBVIOUS
<1>4. ASSUME NEW w, Distribute(w), w.steady \subseteq list, ~Misses(w, HeadOf(queue)),
             ~Done(w) => Sound(w, HeadOf(queue))
      PROVE  ~missed' /\ d.steady \subseteq list /\ Sound(d, e)
  <2>1. Stopped.steady = {} /\ Stopped.at = "idle"
    BY DEF Stopped
  <2>2. CASE Done(w)
    BY <1>1, <1>3, <1>4, <2>1, <2>2 DEF Distribute, Sound, Walking
  <2>3. CASE ~Done(w)
    BY <1>1, <1>3, <1>4, <2>3 DEF Distribute
  <2> QED
    BY <2>2, <2>3
<1>5. ~missed' /\ d.steady \subseteq list /\ Sound(d, e)
  <2>1. CASE Wake
    <3>1. d.steady = th.steady /\ d.at \in {"woken", "ended"} /\ ~missed'
      BY <1>1, <1>3, <2>1 DEF Wake, Fields
    <3> QED
      BY <1>1, <3>1 DEF Sound, Walking
  <2>2. CASE TellTh
    BY <1>1, <1>3, <2>2, TellSound DEF TellTh
  <2>3. CASE BeginTh
    BY <1>1, <1>4, <2>3, BegunSound DEF BeginTh
  <2>4. CASE ReturnTh
    BY <1>1, <1>4, <2>4, ReturnSound DEF ReturnTh
  <2> QED
    BY <2>1, <2>2, <2>3, <2>4 DEF WorkerStep
<1>6. PICK c, g : c = pub' /\ g = HeadOf(pubq')
  OBVIOUS
<1> QED
  BY <1>1, <1>2, <1>3, <1>5, <1>6, ToldBy

LEMMA PublisherTold ==
  ASSUME WInv, PubStep
  PROVE  Numbered' /\ Told'
<1>1. /\ IInv /\ Numbered /\ ~missed /\ DOMAIN pub = Fields
      /\ th.steady \subseteq list /\ Sound(th, HeadOf(queue))
      /\ pub.steady \subseteq list /\ Sound(pub, HeadOf(pubq))
  BY WInvSays
<1>2. UNCHANGED <<list, free, sub, made, th, queue>>
  BY DEF PubStep, NextPub, TellPub, ReturnPub
<1>3. PICK d, e : d = pub' /\ e = HeadOf(pubq')
  OBVIOUS
<1>4. ASSUME NEW w, Proceed(w), w.steady \subseteq list, ~Misses(w, HeadOf(pubq)),
             ~Done(w) => Sound(w, HeadOf(pubq))
      PROVE  ~missed' /\ d.steady \subseteq list /\ Sound(d, e)
  <2>1. /\ Stopped.steady = {} /\ Stopped.at = "idle"
        /\ \A t : LET b == [Stopped EXCEPT !.by = t, !.at = "between"]
                  IN  b.steady = {} /\ b.at = "between"
    BY DEF Stopped
  <2>2. CASE Done(w)
    <3>1. d.steady = {} /\ d.at \in {"idle", "between"} /\ ~missed'
      BY <1>1, <1>3, <1>4, <2>1, <2>2 DEF Proceed
    <3> QED
      BY <3>1 DEF Sound, Walking
  <2>3. CASE ~Done(w)
    BY <1>1, <1>3, <1>4, <2>3 DEF Proceed
  <2> QED
    BY <2>2, <2>3
<1>5. ~missed' /\ d.steady \subseteq list /\ Sound(d, e)
  <2>1. CASE NextPub
    BY <1>1, <1>4, <2>1, BegunSound DEF NextPub
  <2>2. CASE TellPub
    BY <1>1, <1>3, <2>2, TellSound DEF TellPub
  <2>3. CASE ReturnPub
    BY <1>1, <1>4, <2>3, ReturnSound DEF ReturnPub
  <2> QED
    BY <2>1, <2>2, <2>3 DEF PubStep
<1>6. PICK c, g : c = th' /\ g = HeadOf(queue')
  OBVIOUS
<1> QED
  BY <1>1, <1>2, <1>3, <1>5, <1>6, ToldBy

LEMMA NextTold ==
  ASSUME WInv, [Next]_vars
  PROVE  WInv'
<1>1. IInv'
  BY NextInv DEF WInv
<1>2. ASSUME UNCHANGED <<list, free, sub, made, missed, th, pub, queue, pubq>>
      PROVE  Numbered' /\ Told'
  BY <1>2, WInvSays
     DEF Numbered, Told, NobodyMissed, Sound, Interested, From, Walking, HeadOf
<1>3. ASSUME NEW t, Destroy(t)
      PROVE  Numbered' /\ Told'
  BY <1>2, <1>3 DEF Destroy
<1>4. ASSUME UNCHANGED vars
      PROVE  Numbered' /\ Told'
  BY <1>2, <1>4 DEF vars
<1>5. ASSUME NEW t \in Threads, Client(t)
      PROVE  Numbered' /\ Told'
  BY <1>5, SubscribeTold, UnsubscribeTold, PublishTold DEF Client
<1>6. Numbered' /\ Told'
  BY <1>3, <1>4, <1>5, WorkerTold, PublisherTold DEF Next
<1> QED
  BY <1>1, <1>6 DEF WInv

(* Each subscription that is there while an event is told is told of it    *)
(* once, whatever the callbacks and the other threads subscribe and        *)
(* unsubscribe meanwhile (event_mgr_distribute_events, and the repair of   *)
(* th_next_sub and pub_next_sub by pjmedia_event_unsubscribe).             *)
THEOREM EverySubscriberTold == Spec => []NobodyMissed
<1>1. WInv => NobodyMissed
  BY DEF WInv, Told
<1> QED
  BY InitTold, NextTold, <1>1, PTL DEF Spec
=============================================================================
