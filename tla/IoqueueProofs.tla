--------------------------- MODULE IoqueueProofs ----------------------------
(***************************************************************************)
(* Theorems about Ioqueue, for any number of keys, sockets, group locks,   *)
(* pollers and clients: unregistering is safe (the reference counts of the *)
(* keys and of their groups are exact, the descriptor sets hold registered *)
(* sockets only), and without concurrency callbacks of a key exclude each  *)
(* other.                                                                  *)
(***************************************************************************)
EXTENDS Ioqueue, FiniteSetTheorems, TLAPS

(* The records of the model, and what they say at each place of a poll and *)
(* of a call.                                                              *)
Sets == [Events -> SUBSET (Fds \cup {NoFd})]
Found == [key : Keys, event : Events]
KeyRecords ==
  [fd : Fds \cup {NoFd}, closing : BOOLEAN, ref_count : Int, cb : BOOLEAN,
   connecting : BOOLEAN, grp_lock : Groups \cup {NoGroup}]
OpRecords == [op : Kinds \cup {"none"}, written : 0 .. OpSize]
LockRecords == [owner : Threads \cup {NoThread}, depth : Nat]
SockRecords ==
  [open : BOOLEAN, type : SockTypes \cup {"none"},
   conn : {"none", "pending", "up", "failed"}, data : 0 .. MaxData, room : 0 .. MaxRoom]
Outside == {"idle", "select", "collect"}
PollRecords ==
  [pc : Outside \cup {"dispatch", "send", "deliver", "callback", "release", "deref"},
   sets : Sets, events : Seq(Found), next : Nat, op : Ops \cup {NoOp},
   kind : Kinds \cup {"connect", "none"}, rc : {"ok", "again", "error"},
   has_lock : BOOLEAN]
ApiRecords ==
  [pc : {"idle", "unregister", "drop", "unlock", "send", "queue", "add", "connect", "posted"},
   key : Keys \cup {NoKey}, op : Ops \cup {NoOp}, kind : Kinds \cup {"connect", "none"}]

PollSound(p) ==
  /\ p \in PollRecords
  /\ IF p.pc \in Outside THEN p.events = <<>>
     ELSE Len(p.events) <= MaxEvents /\ p.next \in 1 .. Len(p.events)
  /\ p.pc = "send" => p.op \in Ops
  /\ p.pc \in {"deliver", "callback"} => p.has_lock = KeepsLock
ApiSound(a) ==
  /\ a \in ApiRecords
  /\ a.pc = "idle" <=> a.key = NoKey
  /\ a.pc \in {"send", "queue", "add"} => a.op \in Ops /\ a.kind \in Kinds

(* The types; a call is made by a thread outside poll or in a callback.    *)
TInv ==
  /\ {active_list, closing_list, free_list} \subseteq SUBSET Keys
  /\ count \in Int
  /\ fdset \in Sets
  /\ key \in [Keys -> KeyRecords]
  /\ list \in [Keys -> [Kinds -> Seq(Ops)]]
  /\ op \in [Ops -> OpRecords]
  /\ lock \in [Locks -> LockRecords]
  /\ refs \in [Groups -> Int]
  /\ sock \in [Fds -> SockRecords]
  /\ poll \in [Threads -> PollRecords] /\ api \in [Threads -> ApiRecords]
  /\ \A t \in Threads : /\ PollSound(poll[t]) /\ ApiSound(api[t])
                        /\ api[t].pc # "idle" => poll[t].pc \in {"idle", "callback"}

(* Who holds a lock: a poll from the dispatch of an event until its        *)
(* callback returned, and unregister.                                      *)
PollHolds(t, l) ==
  /\ poll[t].pc = "send" \/ (poll[t].pc \in {"deliver", "callback"} /\ poll[t].has_lock)
  /\ LockOf(Event(t).key) = l
CallHolds(t, l) ==
  /\ api[t].pc \in {"drop", "unlock"}
  /\ LockOf(api[t].key) = l
Holds(t, l) == PollHolds(t, l) \/ CallHolds(t, l)

(* A lock is owned by its only holder and nested as often as it is held.   *)
LInv ==
  \A l \in Locks :
    /\ lock[l].owner = NoThread => lock[l].depth = 0
    /\ \A t \in Threads :
         IF lock[l].owner = t
         THEN /\ Holds(t, l)
              /\ lock[l].depth = IF PollHolds(t, l) /\ CallHolds(t, l) THEN 2 ELSE 1
         ELSE ~Holds(t, l)

(* A key without descriptor is free, closing, or being closed; a key in    *)
(* use by a thread is not free.                                            *)
FInv ==
  /\ \A k \in Keys :
       /\ key[k].closing \/ k \in free_list => key[k].fd = NoFd
       /\ k \in closing_list => key[k].closing
       /\ ~key[k].closing /\ key[k].fd = NoFd =>
            k \in free_list \/ \E t \in Threads : api[t].pc = "drop" /\ api[t].key = k
  /\ \A t \in Threads :
       /\ api[t].pc # "idle" => api[t].key \notin free_list
       /\ api[t].pc = "drop" => key[api[t].key].fd = NoFd /\ ~key[api[t].key].closing
       /\ api[t].pc = "unlock" => key[api[t].key].closing
       /\ poll[t].pc = "send" => key[Event(t).key].fd # NoFd
       /\ poll[t].pc = "deref" => Event(t).key \notin free_list

(* A socket is open while it is registered, and under one key; the write a *)
(* poll sends from a stream socket stays in the list of the key.           *)
WInv ==
  /\ \A k \in Keys : key[k].fd # NoFd => sock[key[k].fd].open
  /\ \A j, k \in Keys : key[k].fd # NoFd /\ key[j].fd = key[k].fd => j = k
  /\ \A t \in Threads :
       LET k == Event(t).key
       IN  poll[t].pc = "send" /\ sock[key[k].fd].type # "dgram" => list[k]["write"] # <<>>

IInv == TInv /\ LInv /\ FInv /\ WInv /\ RefCountExact /\ GroupRefsExact /\ SetsSound

-----------------------------------------------------------------------------
(* The constants that a key, a lock or an event is compared with.          *)
LEMMA Constants ==
  /\ NoKey \notin Keys /\ NoFd \notin Fds /\ NoThread \notin Threads /\ NoOp \notin Ops
  /\ Keys \cap Groups = {} /\ NoGroup \notin Groups
  /\ IsFiniteSet(Keys) /\ IsFiniteSet(Threads)
  /\ MaxEvents \in Nat \ {0} /\ OpSize \in Nat \ {0} /\ MaxData \in Nat /\ MaxRoom \in Nat
  /\ KeepsLock \in BOOLEAN
  BY IoqueueAssumption DEF IoqueueAssumption, Groups, KeepsLock

(* The event a poll is at.                                                 *)
LEMMA EventType ==
  ASSUME NEW p, PollSound(p), p.pc \notin Outside
  PROVE  p.events[p.next] \in Found
<1>1. p.events \in Seq(Found) /\ p.next \in 1 .. Len(p.events)
  BY DEF PollSound, PollRecords
<1> QED
  BY <1>1

(* The key of that event.                                                  *)
LEMMA EventKey ==
  ASSUME TInv, NEW t \in Threads, poll[t].pc \notin Outside
  PROVE  Event(t) \in Found /\ Event(t).key \in Keys
<1>1. PollSound(poll[t])
  BY DEF TInv
<1>2. Event(t) \in Found
  BY <1>1, EventType DEF Event
<1> QED
  BY <1>2 DEF Found

(* The lock of a key is its own or that of its group.                      *)
LEMMA LockType ==
  ASSUME TInv, NEW k \in Keys
  PROVE  LockOf(k) \in Locks
<1>1. key[k] \in KeyRecords
  BY DEF TInv
<1>2. key[k].grp_lock \in Groups \cup {NoGroup}
  BY <1>1 DEF KeyRecords
<1> QED
  BY <1>2 DEF LockOf, Locks

(* Locking and unlocking a key, and changing the descriptor sets.          *)
LEMMA LockedType ==
  ASSUME TInv, NEW k \in Keys, NEW t \in Threads
  PROVE  Locked(t, k) \in [Locks -> LockRecords]
<1> DEFINE l == LockOf(k)
<1>1. l \in Locks /\ lock \in [Locks -> LockRecords]
  BY LockType DEF TInv
<1>2. lock[l].depth \in Nat
  BY <1>1 DEF LockRecords
<1>3. [owner |-> t, depth |-> lock[l].depth + 1] \in LockRecords
  BY <1>2 DEF LockRecords
<1> QED
  BY <1>1, <1>3 DEF Locked

(* Unlocking, of a lock that is held.                                      *)
LEMMA ReleasedType ==
  ASSUME TInv, NEW k \in Keys, lock[LockOf(k)].depth > 0
  PROVE  Released(k) \in [Locks -> LockRecords]
<1> DEFINE l == LockOf(k)
<1>1. l \in Locks /\ lock \in [Locks -> LockRecords]
  BY LockType DEF TInv
<1>2. lock[l].depth \in Nat /\ lock[l].owner \in Threads \cup {NoThread}
  BY <1>1 DEF LockRecords
<1>3. /\ [owner |-> lock[l].owner, depth |-> lock[l].depth - 1] \in LockRecords
      /\ Unlocked \in LockRecords
  BY <1>2 DEF LockRecords, Unlocked
<1> QED
  BY <1>1, <1>3 DEF Released

(* Bits set and cleared.                                                   *)
LEMMA SetsType ==
  ASSUME TInv, NEW f \in Fds \cup {NoFd}, NEW events
  PROVE  Set(f, events) \in Sets /\ Cleared(f, events) \in Sets
<1>1. fdset \in Sets
  BY DEF TInv
<1> QED
  BY <1>1 DEF Sets, Set, Cleared

(* The members of a key.                                                   *)
LEMMA KeyFields ==
  ASSUME TInv, NEW k \in Keys
  PROVE  /\ key[k].fd \in Fds \cup {NoFd} /\ key[k].closing \in BOOLEAN
         /\ key[k].ref_count \in Int /\ key[k].cb \in BOOLEAN
         /\ key[k].connecting \in BOOLEAN /\ key[k].grp_lock \in Groups \cup {NoGroup}
         /\ DOMAIN key[k] = {"fd", "closing", "ref_count", "cb", "connecting", "grp_lock"}
<1>1. key[k] \in KeyRecords
  BY DEF TInv
<1> QED
  BY <1>1 DEF KeyRecords

(* A record of the model with other members.                               *)
LEMMA KeyWith ==
  ASSUME NEW r \in KeyRecords
  PROVE  /\ \A n \in Int : [r EXCEPT !.ref_count = n] \in KeyRecords
         /\ \A b \in BOOLEAN : [r EXCEPT !.connecting = b] \in KeyRecords
         /\ [r EXCEPT !.fd = NoFd, !.cb = FALSE] \in KeyRecords
         /\ \A n \in Int : [r EXCEPT !.closing = TRUE, !.ref_count = n] \in KeyRecords
  BY DEF KeyRecords

(* A poll that goes on with the same event.                                *)
Moved(t, pc) ==
  /\ poll' \in [Threads -> PollRecords]
  /\ PollSound(poll[t])' /\ \A u \in Threads \ {t} : poll'[u] = poll[u]
  /\ poll'[t].pc = pc
  /\ poll'[t].events = poll[t].events /\ poll'[t].next = poll[t].next

(* A poll record with another place, still sound.                          *)
LEMMA PollWith ==
  ASSUME NEW r, PollSound(r), r.pc \notin Outside
  PROVE  /\ \A pc \in {"release", "deref"} : PollSound([r EXCEPT !.pc = pc])
         /\ r.pc = "deliver" => PollSound([r EXCEPT !.pc = "callback"])
         /\ PollSound([r EXCEPT !.pc = "release", !.op = NoOp])
         /\ \A o \in Ops : PollSound([r EXCEPT !.pc = "send", !.op = o])
         /\ \A o \in Ops \cup {NoOp}, kind \in Kinds \cup {"connect", "none"},
               rc \in {"ok", "again", "error"} :
              PollSound([r EXCEPT !.pc = "deliver", !.op = o, !.kind = kind, !.rc = rc,
                                  !.has_lock = KeepsLock])
<1>1. r \in PollRecords /\ Len(r.events) <= MaxEvents /\ r.next \in 1 .. Len(r.events)
  BY DEF PollSound
<1>2. \A pc \in {"release", "deref"} : PollSound([r EXCEPT !.pc = pc])
  BY <1>1 DEF PollSound, PollRecords, Outside
<1>3. r.pc = "deliver" => PollSound([r EXCEPT !.pc = "callback"])
  BY <1>1 DEF PollSound, PollRecords, Outside
<1>4. PollSound([r EXCEPT !.pc = "release", !.op = NoOp])
  BY <1>1 DEF PollSound, PollRecords, Outside
<1>5. \A o \in Ops : PollSound([r EXCEPT !.pc = "send", !.op = o])
  BY <1>1 DEF PollSound, PollRecords, Outside
<1>6. ASSUME NEW o \in Ops \cup {NoOp}, NEW kind \in Kinds \cup {"connect", "none"},
             NEW rc \in {"ok", "again", "error"}
      PROVE  PollSound([r EXCEPT !.pc = "deliver", !.op = o, !.kind = kind, !.rc = rc,
                                 !.has_lock = KeepsLock])
  <2> DEFINE q == [r EXCEPT !.pc = "deliver", !.op = o, !.kind = kind, !.rc = rc,
                            !.has_lock = KeepsLock]
  <2>1. q \in PollRecords
    BY <1>1, Constants DEF PollRecords
  <2>2. q.pc = "deliver" /\ q.events = r.events /\ q.next = r.next /\ q.has_lock = KeepsLock
    BY <1>1 DEF PollRecords
  <2> HIDE DEF q
  <2>3. PollSound(q)
    BY <1>1, <2>1, <2>2 DEF PollSound, Outside
  <2> QED
    BY <2>3 DEF q
<1> QED
  BY <1>2, <1>3, <1>4, <1>5, <1>6

(* A poll record put in its place.                                         *)
LEMMA MovedTo ==
  ASSUME TInv, NEW t \in Threads, NEW r, PollSound(r),
         poll' = [poll EXCEPT ![t] = r],
         r.events = poll[t].events, r.next = poll[t].next
  PROVE  Moved(t, r.pc)
<1>1. r \in PollRecords /\ poll \in [Threads -> PollRecords]
  BY DEF PollSound, TInv
<1>2. poll'[t] = r /\ poll' \in [Threads -> PollRecords]
  BY <1>1
<1>3. PollSound(poll[t])' <=> PollSound(r)
  BY <1>2 DEF PollSound, KeepsLock
<1> QED
  BY <1>1, <1>2, <1>3 DEF Moved

(* The places of a thread, in poll and in a call.                          *)
LEMMA PollTypes ==
  ASSUME TInv, NEW t \in Threads
  PROVE  /\ PollSound(poll[t]) /\ poll[t] \in PollRecords
         /\ ApiSound(api[t]) /\ api[t] \in ApiRecords
         /\ poll[t].pc \notin Outside \cup {"callback"} => api[t].pc = "idle"
  BY DEF TInv, Outside

(* A poll that goes on to give back the lock or the reference.             *)
LEMMA Releasing ==
  ASSUME TInv, NEW t \in Threads, poll[t].pc \notin Outside,
         NEW pc \in {"release", "deref"}, poll' = [poll EXCEPT ![t].pc = pc]
  PROVE  Moved(t, pc)
<1>1. PollSound(poll[t])
  BY PollTypes
<1>2. PICK r : r = [poll[t] EXCEPT !.pc = pc]
  OBVIOUS
<1>3. PollSound(r)
  BY <1>1, <1>2, PollWith
<1>4. r.events = poll[t].events /\ r.next = poll[t].next /\ r.pc = pc
  BY <1>2, PollTypes DEF PollRecords
<1>5. poll' = [poll EXCEPT ![t] = r]
  BY <1>2
<1> QED
  BY <1>3, <1>4, <1>5, MovedTo

(* A poll that is about to call back.                                      *)
LEMMA Delivered ==
  ASSUME TInv, NEW t \in Threads, poll[t].pc \notin Outside,
         NEW o \in Ops \cup {NoOp}, NEW kind \in Kinds \cup {"connect", "none"},
         NEW rc \in {"ok", "again", "error"}, ToDeliver(t, o, kind, rc)
  PROVE  Moved(t, "deliver") /\ poll'[t].has_lock = KeepsLock
<1>1. PollSound(poll[t])
  BY PollTypes
<1>2. PICK r : r = [poll[t] EXCEPT !.pc = "deliver", !.op = o, !.kind = kind, !.rc = rc,
                                   !.has_lock = KeepsLock]
  OBVIOUS
<1>3. PollSound(r)
  BY <1>1, <1>2, PollWith
<1>4. r.events = poll[t].events /\ r.next = poll[t].next /\ r.pc = "deliver"
      /\ r.has_lock = KeepsLock
  BY <1>2, PollTypes DEF PollRecords
<1>5. poll' = [poll EXCEPT ![t] = r]
  BY <1>2, PollTypes DEF ToDeliver, PollRecords, TInv
<1>6. poll'[t] = r
  BY <1>5 DEF TInv
<1> QED
  BY <1>3, <1>4, <1>5, <1>6, MovedTo

-----------------------------------------------------------------------------
(* The events that refer to a key and to a group, and the keys whose       *)
(* registration refers to a group.                                         *)
Held(k) == {x \in Slots : x[2] \in Unfinished(x[1]) /\ poll[x[1]].events[x[2]].key = k}
Passing(g) ==
  {x \in Slots : x[2] \in Unpassed(x[1]) /\ key[poll[x[1]].events[x[2]].key].grp_lock = g}
InUnlock(k) == \E t \in Threads : api[t].pc = "unlock" /\ api[t].key = k
InDrop(k) == \E t \in Threads : api[t].pc = "drop" /\ api[t].key = k
Owned(g) == {k \in Keys : key[k].grp_lock = g /\ (Registered(k) \/ InUnlock(k))}
Open == {k \in Keys : key[k].fd # NoFd}
One(b) == IF b THEN 1 ELSE 0

KeyCounts == \A k \in Keys : key[k].ref_count = One(Registered(k)) + Cardinality(Held(k))
KeyLists ==
  /\ active_list = {k \in Keys : key[k].ref_count > 0}
  /\ active_list \cup closing_list \cup free_list = Keys
  /\ active_list \cap closing_list = {}
  /\ free_list \cap (active_list \cup closing_list) = {}
  /\ count = Cardinality(Open)
GroupCounts == \A g \in Groups : refs[g] = Cardinality(Owned(g)) + Cardinality(Passing(g))

(* The two invariants of the model, in these terms.                        *)
LEMMA Exact ==
  /\ RefCountExact <=> KeyCounts /\ KeyLists
  /\ GroupRefsExact <=> GroupCounts
<1>1. KeyCounts <=>
        \A k \in Keys :
          key[k].ref_count =
            (IF Registered(k) THEN 1 ELSE 0)
            + Cardinality({x \in Slots : /\ x[2] \in Unfinished(x[1])
                                         /\ poll[x[1]].events[x[2]].key = k})
  BY DEF KeyCounts, One, Held
<1>2. ASSUME NEW g \in Groups
      PROVE  {k \in Keys : /\ key[k].grp_lock = g
                           /\ \/ Registered(k)
                              \/ \E t \in Threads : api[t].pc = "unlock" /\ api[t].key = k}
             = Owned(g)
  BY DEF Owned, InUnlock
<1>3. RefCountExact <=> KeyCounts /\ KeyLists
  BY <1>1 DEF RefCountExact, KeyLists, Open
<1>4. GroupRefsExact <=> GroupCounts
  BY <1>2 DEF GroupRefsExact, GroupCounts, Passing
<1> QED
  BY <1>3, <1>4

(* All these sets are finite.                                              *)
LEMMA FiniteSlots ==
  /\ IsFiniteSet(Slots) /\ IsFiniteSet(Keys) /\ IsFiniteSet(Threads)
  /\ \A k : IsFiniteSet(Held(k)) /\ Cardinality(Held(k)) \in Nat
  /\ \A g : IsFiniteSet(Passing(g)) /\ Cardinality(Passing(g)) \in Nat
  /\ \A g : IsFiniteSet(Owned(g)) /\ Cardinality(Owned(g)) \in Nat
  /\ IsFiniteSet(Open) /\ Cardinality(Open) \in Nat /\ Cardinality(Open) <= Cardinality(Keys)
<1>1. IsFiniteSet(Keys) /\ IsFiniteSet(Threads) /\ MaxEvents \in Nat
  BY Constants
<1>2. IsFiniteSet(1 .. MaxEvents)
  BY <1>1, FS_Interval
<1>3. IsFiniteSet(Slots)
  BY <1>1, <1>2, FS_Product DEF Slots
<1>4. ASSUME NEW S, S \subseteq Slots \/ S \subseteq Keys
      PROVE  IsFiniteSet(S) /\ Cardinality(S) \in Nat
  BY <1>1, <1>3, <1>4, FS_Subset, FS_CardinalityType
<1>5. \A k : Held(k) \subseteq Slots
  BY DEF Held
<1>6. \A g : Passing(g) \subseteq Slots
  BY DEF Passing
<1>7. \A g : Owned(g) \subseteq Keys
  BY DEF Owned
<1>8. Open \subseteq Keys
  BY DEF Open
<1>9. Cardinality(Open) <= Cardinality(Keys)
  BY <1>1, <1>8, FS_Subset
<1> QED
  BY <1>1, <1>3, <1>4, <1>5, <1>6, <1>7, <1>8, <1>9

(* A step that leaves all references as they are.                          *)
SameKeys ==
  \A k \in Keys : /\ key'[k].fd = key[k].fd /\ key'[k].closing = key[k].closing
                  /\ key'[k].grp_lock = key[k].grp_lock
SameCounts == \A k \in Keys : key'[k].ref_count = key[k].ref_count
SamePolls ==
  \A t \in Threads : /\ poll'[t].events = poll[t].events
                     /\ Unfinished(t)' = Unfinished(t) /\ Unpassed(t)' = Unpassed(t)
SameCalls ==
  \A t \in Threads :
    \/ api'[t] = api[t]
    \/ api[t].pc \notin {"drop", "unlock"} /\ api'[t].pc \notin {"drop", "unlock"}
SameLists == UNCHANGED <<active_list, closing_list, free_list, count>>
Quiet == SameKeys /\ SameCounts /\ SamePolls /\ SameCalls /\ SameLists /\ UNCHANGED refs

(* Then the same keys are registered, being unlocked and dropped,          *)
LEMMA SameRegistered ==
  ASSUME SameKeys, SameCalls, NEW k \in Keys
  PROVE  /\ Registered(k)' <=> Registered(k)
         /\ InUnlock(k)' <=> InUnlock(k)
         /\ InDrop(k)' <=> InDrop(k)
  BY DEF SameKeys, SameCalls, Registered, InUnlock, InDrop, IsOpen

(* An event a poll is not past is one of its list.                         *)
LEMMA UnpassedKeys ==
  ASSUME TInv, NEW t \in Threads, NEW i \in Unpassed(t)
  PROVE  /\ i \in 1 .. Len(poll[t].events) /\ poll[t].events[i] \in Found
         /\ poll[t].events[i].key \in Keys /\ i \in 1 .. MaxEvents
<1>1. PollSound(poll[t]) /\ poll[t].events \in Seq(Found)
  BY PollTypes DEF PollRecords
<1>2. i \in 1 .. Len(poll[t].events)
  BY <1>1 DEF Unpassed
<1>3. poll[t].pc \notin Outside /\ Len(poll[t].events) <= MaxEvents
  BY <1>1, <1>2 DEF PollSound
<1>4. poll[t].events[i] \in Found
  BY <1>1, <1>2
<1> QED
  BY <1>1, <1>2, <1>3, <1>4, Constants DEF Found

(* then the same events refer to keys and groups,                          *)
LEMMA SameHeld ==
  ASSUME TInv, SamePolls
  PROVE  /\ \A k : Held(k)' = Held(k)
         /\ SameKeys => \A g : Passing(g)' = Passing(g)
<1>1. ASSUME NEW x \in Slots
      PROVE  /\ poll'[x[1]].events = poll[x[1]].events
             /\ Unfinished(x[1])' = Unfinished(x[1]) /\ Unpassed(x[1])' = Unpassed(x[1])
             /\ x[2] \in Unpassed(x[1]) => poll[x[1]].events[x[2]].key \in Keys
  <2>1. x[1] \in Threads
    BY DEF Slots
  <2> QED
    BY <2>1, UnpassedKeys DEF SamePolls
<1>2. \A k : Held(k)' = Held(k)
  BY <1>1 DEF Held, Slots
<1>3. ASSUME SameKeys, NEW g
      PROVE  Passing(g)' = Passing(g)
  BY <1>1, <1>3 DEF Passing, SameKeys, Slots
<1> QED
  BY <1>2, <1>3

(* and the counts stay exact.                                              *)
LEMMA QuietCounts ==
  ASSUME TInv, Quiet, RefCountExact, GroupRefsExact
  PROVE  RefCountExact' /\ GroupRefsExact'
<1>1. /\ \A k : Held(k)' = Held(k)
      /\ \A g : Passing(g)' = Passing(g)
  BY SameHeld DEF Quiet
<1>2. \A k \in Keys : Registered(k)' <=> Registered(k)
  BY SameRegistered DEF Quiet
<1>3. \A k \in Keys : InUnlock(k)' <=> InUnlock(k)
  BY SameRegistered DEF Quiet
<1>4. KeyCounts'
  BY <1>1, <1>2, Exact DEF Quiet, SameCounts, KeyCounts, One
<1>5. Open' = Open
  BY DEF Quiet, SameKeys, Open
<1>6. KeyLists'
  BY <1>5, Exact DEF Quiet, SameCounts, SameLists, KeyLists
<1>7. \A g : Owned(g)' = Owned(g)
  BY <1>2, <1>3 DEF Quiet, SameKeys, Owned
<1>8. GroupCounts'
  BY <1>1, <1>7, Exact DEF Quiet, GroupCounts
<1>9. (RefCountExact <=> KeyCounts /\ KeyLists)' /\ (GroupRefsExact <=> GroupCounts)'
  BY Exact, PTL
<1> QED
  BY <1>4, <1>6, <1>8, <1>9

-----------------------------------------------------------------------------
(* What else a step keeps that leaves all references as they are.          *)
LEMMA QuietKeys ==
  ASSUME TInv, Quiet, FInv, NEW t \in Threads,
         \A u \in Threads \ {t} : poll'[u] = poll[u] /\ api'[u] = api[u],
         poll'[t].pc = "send" => Event(t)' = Event(t) /\ key[Event(t).key].fd # NoFd,
         poll'[t].pc = "deref" => Event(t)' = Event(t) /\ Event(t).key \notin free_list,
         api'[t].pc # "idle" => api'[t].key \notin free_list,
         \A u \in Threads : poll[u].pc = "send" => Event(u).key \in Keys,
         poll'[t].pc = "send" => Event(t).key \in Keys,
         \A u \in Threads : api[u].pc \in {"drop", "unlock"} => api[u].key \in Keys
  PROVE  FInv'
<1>1. \A k \in Keys : InDrop(k)' <=> InDrop(k)
  BY SameRegistered DEF Quiet
<1>2. free_list' = free_list /\ closing_list' = closing_list
  BY DEF Quiet, SameLists
<1>3. ASSUME NEW k \in Keys
      PROVE  (/\ key[k].closing \/ k \in free_list => key[k].fd = NoFd
              /\ k \in closing_list => key[k].closing
              /\ ~key[k].closing /\ key[k].fd = NoFd => k \in free_list \/ InDrop(k))'
  BY <1>1, <1>2 DEF FInv, InDrop, Quiet, SameKeys
<1>4. ASSUME NEW u \in Threads, u # t
      PROVE  Event(u)' = Event(u)
  BY <1>4 DEF Event
<1>5. ASSUME NEW u \in Threads
      PROVE  (/\ api[u].pc # "idle" => api[u].key \notin free_list
              /\ api[u].pc = "drop" => key[api[u].key].fd = NoFd /\ ~key[api[u].key].closing
              /\ api[u].pc = "unlock" => key[api[u].key].closing
              /\ poll[u].pc = "send" => key[Event(u).key].fd # NoFd
              /\ poll[u].pc = "deref" => Event(u).key \notin free_list)'
  <2>1. CASE u = t
    BY <1>2, <2>1 DEF FInv, Quiet, SameKeys, SameCalls
  <2>2. CASE u # t
    BY <1>2, <1>4, <2>2 DEF FInv, Quiet, SameKeys, SameCalls
  <2> QED
    BY <2>1, <2>2
<1> QED
  BY <1>3, <1>5 DEF FInv, InDrop

(* Bits are added for registered sockets only.                             *)
LEMMA QuietSets ==
  ASSUME \A k \in Keys : key'[k].fd = key[k].fd, SetsSound,
         \A e \in Events : \A f \in fdset'[e] :
           f \in fdset[e] \/ (f # NoFd /\ \E k \in Keys : key[k].fd = f)
  PROVE  SetsSound'
  BY DEF SetsSound

(* Locks: a step that neither takes nor gives back a lock, one that takes  *)
(* a lock, and one that gives it back.                                     *)
LEMMA LocksSame ==
  ASSUME LInv, lock' = lock,
         \A t \in Threads, l \in Locks :
           /\ PollHolds(t, l)' <=> PollHolds(t, l)
           /\ CallHolds(t, l)' <=> CallHolds(t, l)
  PROVE  LInv'
<1>1. ASSUME NEW l \in Locks, NEW t \in Threads
      PROVE  (IF lock[l].owner = t
              THEN /\ Holds(t, l)
                   /\ lock[l].depth = IF PollHolds(t, l) /\ CallHolds(t, l) THEN 2 ELSE 1
              ELSE ~Holds(t, l))'
  BY DEF LInv, Holds
<1> QED
  BY <1>1 DEF LInv

(* A thread locks: it holds the lock by its poll or by its call, once      *)
(* more.                                                                   *)
LEMMA LockTaken ==
  ASSUME TInv, LInv, NEW t \in Threads, NEW k \in Keys, Available(t, k),
         NEW m, m = LockOf(k), lock' = Locked(t, k),
         \A u \in Threads, l \in Locks :
           u # t \/ l # m =>
             /\ PollHolds(u, l)' <=> PollHolds(u, l)
             /\ CallHolds(u, l)' <=> CallHolds(u, l),
         \/ /\ ~PollHolds(t, m) /\ PollHolds(t, m)'
            /\ CallHolds(t, m)' <=> CallHolds(t, m)
         \/ /\ ~CallHolds(t, m) /\ CallHolds(t, m)'
            /\ PollHolds(t, m)' <=> PollHolds(t, m)
  PROVE  LInv'
<1>1. m \in Locks /\ lock \in [Locks -> LockRecords] /\ lock[m].depth \in Nat
  BY LockType DEF TInv, LockRecords
<1>2. /\ lock'[m].owner = t /\ lock'[m].depth = lock[m].depth + 1
      /\ \A l \in Locks \ {m} : lock'[l] = lock[l]
  BY <1>1 DEF Locked
<1>3. lock[m].owner \in {NoThread, t}
  BY DEF Available
<1>4. /\ lock[m].owner = NoThread => lock[m].depth = 0
      /\ \A u \in Threads : lock[m].owner # u => ~PollHolds(u, m) /\ ~CallHolds(u, m)
      /\ lock[m].owner = t => lock[m].depth = IF PollHolds(t, m) /\ CallHolds(t, m) THEN 2 ELSE 1
      /\ lock[m].owner = t => PollHolds(t, m) \/ CallHolds(t, m)
  BY <1>1 DEF LInv, Holds
<1>5. t # NoThread
  BY Constants
<1>6. /\ PollHolds(t, m)' \/ CallHolds(t, m)'
      /\ lock'[m].depth = IF PollHolds(t, m)' /\ CallHolds(t, m)' THEN 2 ELSE 1
  <2>1. CASE lock[m].owner = NoThread
    <3>1. ~PollHolds(t, m) /\ ~CallHolds(t, m)
      BY <1>4, <1>5, <2>1
    <3>2. (PollHolds(t, m)' \/ CallHolds(t, m)') /\ ~(PollHolds(t, m)' /\ CallHolds(t, m)')
      BY <3>1
    <3>3. lock'[m].depth = 1
      BY <1>2, <1>4, <2>1
    <3> QED
      BY <3>2, <3>3
  <2>2. CASE lock[m].owner = t
    <3>1. ~(PollHolds(t, m) /\ CallHolds(t, m))
      OBVIOUS
    <3>2. PollHolds(t, m)' /\ CallHolds(t, m)'
      BY <1>4, <2>2
    <3>3. lock[m].depth = 1
      BY <1>4, <2>2, <3>1
    <3>4. lock'[m].depth = 2
      BY <1>2, <3>3
    <3> QED
      BY <3>2, <3>4
  <2> QED
    BY <1>3, <2>1, <2>2
<1>7. ASSUME NEW u \in Threads, u # t
      PROVE  ~PollHolds(u, m)' /\ ~CallHolds(u, m)'
  BY <1>1, <1>3, <1>4, <1>5, <1>7, Constants
<1>8. ASSUME NEW l \in Locks
      PROVE  (/\ lock[l].owner = NoThread => lock[l].depth = 0
              /\ \A u \in Threads :
                   IF lock[l].owner = u
                   THEN /\ Holds(u, l)
                        /\ lock[l].depth = IF PollHolds(u, l) /\ CallHolds(u, l) THEN 2 ELSE 1
                   ELSE ~Holds(u, l))'
  <2>1. CASE l = m
    BY <1>2, <1>5, <1>6, <1>7, <2>1 DEF Holds
  <2>2. CASE l # m
    BY <1>2, <2>2 DEF LInv, Holds
  <2> QED
    BY <2>1, <2>2
<1> QED
  BY <1>8 DEF LInv

(* A thread unlocks.                                                       *)
LEMMA LockGiven ==
  ASSUME TInv, LInv, NEW t \in Threads, NEW k \in Keys, NEW m, m = LockOf(k),
         lock' = Released(k),
         \A u \in Threads, l \in Locks :
           u # t \/ l # m =>
             /\ PollHolds(u, l)' <=> PollHolds(u, l)
             /\ CallHolds(u, l)' <=> CallHolds(u, l),
         \/ /\ PollHolds(t, m) /\ ~PollHolds(t, m)'
            /\ CallHolds(t, m)' <=> CallHolds(t, m)
         \/ /\ CallHolds(t, m) /\ ~CallHolds(t, m)'
            /\ PollHolds(t, m)' <=> PollHolds(t, m)
  PROVE  LInv' /\ lock' \in [Locks -> LockRecords]
<1>1. m \in Locks /\ lock \in [Locks -> LockRecords] /\ lock[m].depth \in Nat
  BY LockType DEF TInv, LockRecords
<1>2. /\ lock'[m] = IF lock[m].depth = 1 THEN Unlocked
                    ELSE [owner |-> lock[m].owner, depth |-> lock[m].depth - 1]
      /\ \A l \in Locks \ {m} : lock'[l] = lock[l]
  BY <1>1 DEF Released
<1>3. /\ lock[m].owner = t
      /\ lock[m].depth = IF PollHolds(t, m) /\ CallHolds(t, m) THEN 2 ELSE 1
      /\ \A u \in Threads : t # u => ~PollHolds(u, m) /\ ~CallHolds(u, m)
  <2>1. PollHolds(t, m) \/ CallHolds(t, m)
    OBVIOUS
  <2>2. lock[m].owner = t
    BY <1>1, <2>1 DEF LInv, Holds
  <2> QED
    BY <1>1, <2>2 DEF LInv, Holds
<1>4. t # NoThread
  BY Constants
<1>5. IF lock[m].depth = 1
      THEN /\ lock'[m].owner = NoThread /\ lock'[m].depth = 0
           /\ ~PollHolds(t, m)' /\ ~CallHolds(t, m)'
      ELSE /\ lock'[m].owner = t /\ lock'[m].depth = 1
           /\ PollHolds(t, m)' \/ CallHolds(t, m)'
           /\ ~PollHolds(t, m)' \/ ~CallHolds(t, m)'
  <2>1. CASE PollHolds(t, m) /\ CallHolds(t, m)
    <3>1. lock[m].depth = 2
      BY <1>3, <2>1
    <3>2. lock'[m].owner = t /\ lock'[m].depth = 1
      BY <1>2, <1>3, <3>1
    <3>3. (PollHolds(t, m)' \/ CallHolds(t, m)') /\ (~PollHolds(t, m)' \/ ~CallHolds(t, m)')
      BY <2>1
    <3> QED
      BY <3>1, <3>2, <3>3
  <2>2. CASE ~(PollHolds(t, m) /\ CallHolds(t, m))
    <3>1. lock[m].depth = 1
      BY <1>3, <2>2
    <3>2. lock'[m].owner = NoThread /\ lock'[m].depth = 0
      BY <1>2, <3>1 DEF Unlocked
    <3>3. ~PollHolds(t, m)' /\ ~CallHolds(t, m)'
      BY <2>2
    <3> QED
      BY <3>1, <3>2, <3>3
  <2> QED
    BY <2>1, <2>2
<1>6. ASSUME NEW u \in Threads, u # t
      PROVE  ~PollHolds(u, m)' /\ ~CallHolds(u, m)'
  BY <1>1, <1>3, <1>6
<1>7. ASSUME NEW l \in Locks
      PROVE  (/\ lock[l].owner = NoThread => lock[l].depth = 0
              /\ \A u \in Threads :
                   IF lock[l].owner = u
                   THEN /\ Holds(u, l)
                        /\ lock[l].depth = IF PollHolds(u, l) /\ CallHolds(u, l) THEN 2 ELSE 1
                   ELSE ~Holds(u, l))'
  <2>1. CASE l = m
    BY <1>4, <1>5, <1>6, <2>1, Constants DEF Holds
  <2>2. CASE l # m
    BY <1>2, <2>2 DEF LInv, Holds
  <2> QED
    BY <2>1, <2>2
<1>8. lock' \in [Locks -> LockRecords]
  BY <1>3, ReleasedType
<1> QED
  BY <1>7, <1>8 DEF LInv

(* Who holds a lock depends on the places of the thread only.              *)
LEMMA HoldsSame ==
  ASSUME TInv, NEW t \in Threads, NEW l,
         \A k \in Keys : key'[k].grp_lock = key[k].grp_lock
  PROVE  /\ poll'[t] = poll[t] => (PollHolds(t, l)' <=> PollHolds(t, l))
         /\ api'[t] = api[t] => (CallHolds(t, l)' <=> CallHolds(t, l))
<1>1. \A k \in Keys : LockOf(k)' = LockOf(k)
  BY DEF LockOf
<1>2. ASSUME poll'[t] = poll[t]
      PROVE  PollHolds(t, l)' <=> PollHolds(t, l)
  <2>1. Event(t)' = Event(t)
    BY <1>2 DEF Event
  <2>2. CASE poll[t].pc \in {"send", "deliver", "callback"}
    <3>1. Event(t).key \in Keys
      BY <2>2, EventKey DEF Outside
    <3> QED
      BY <1>1, <1>2, <2>1, <3>1 DEF PollHolds
  <2> QED
    BY <1>2, <2>2 DEF PollHolds
<1>3. ASSUME api'[t] = api[t]
      PROVE  CallHolds(t, l)' <=> CallHolds(t, l)
  <2>1. CASE api[t].pc \in {"drop", "unlock"}
    <3>1. api[t].key \in Keys
      BY <2>1, PollTypes DEF ApiSound, ApiRecords
    <3> QED
      BY <1>1, <1>3, <3>1 DEF CallHolds
  <2> QED
    BY <1>3, <2>1 DEF CallHolds
<1> QED
  BY <1>2, <1>3

-----------------------------------------------------------------------------
(* A poll that goes on with its event, short of giving back the key.       *)
Lockholding(p) == p.pc = "send" \/ (p.pc \in {"deliver", "callback"} /\ p.has_lock)

(* The locks in a step of a poll that goes on with its event.              *)
LEMMA PollLocks ==
  ASSUME TInv, LInv, NEW t \in Threads, NEW pc, Moved(t, pc),
         poll[t].pc \notin Outside, pc \notin Outside,
         SameKeys, api' = api,
         NEW k, k = Event(t).key,
         \/ lock' = lock /\ (Lockholding(poll'[t]) <=> Lockholding(poll[t]))
         \/ /\ lock' = Locked(t, k) /\ Available(t, k)
            /\ ~Lockholding(poll[t]) /\ Lockholding(poll'[t])
         \/ lock' = Released(k) /\ Lockholding(poll[t]) /\ ~Lockholding(poll'[t])
  PROVE  LInv' /\ lock' \in [Locks -> LockRecords]
<1>1. k \in Keys
  BY EventKey
<1>2. PICK m : m = LockOf(k)
  OBVIOUS
<1>3. LockOf(k)' = m
  BY <1>1, <1>2 DEF LockOf, SameKeys
<1>4. Event(t)' = Event(t)
  BY DEF Event, Moved
<1>5. \A l \in Locks : /\ PollHolds(t, l) <=> Lockholding(poll[t]) /\ m = l
                       /\ PollHolds(t, l)' <=> Lockholding(poll'[t]) /\ m = l
  BY <1>2, <1>3, <1>4 DEF PollHolds, Lockholding
<1>6. ASSUME NEW u \in Threads, NEW l \in Locks
      PROVE  /\ u # t => (PollHolds(u, l)' <=> PollHolds(u, l))
             /\ CallHolds(u, l)' <=> CallHolds(u, l)
  BY HoldsSame DEF SameKeys, Moved
<1>7. m \in Locks
  BY <1>1, <1>2, LockType
<1>8. \A u \in Threads, l \in Locks :
        u # t \/ l # m => /\ PollHolds(u, l)' <=> PollHolds(u, l)
                          /\ CallHolds(u, l)' <=> CallHolds(u, l)
  BY <1>5, <1>6
<1>9. CASE lock' = lock /\ (Lockholding(poll'[t]) <=> Lockholding(poll[t]))
  <2>1. \A u \in Threads, l \in Locks : /\ PollHolds(u, l)' <=> PollHolds(u, l)
                                        /\ CallHolds(u, l)' <=> CallHolds(u, l)
    BY <1>5, <1>6, <1>9
  <2> QED
    BY <1>9, <2>1, LocksSame DEF TInv
<1>10. CASE /\ lock' = Locked(t, k) /\ Available(t, k)
            /\ ~Lockholding(poll[t]) /\ Lockholding(poll'[t])
  <2>1. /\ ~PollHolds(t, m) /\ PollHolds(t, m)'
        /\ CallHolds(t, m)' <=> CallHolds(t, m)
    BY <1>5, <1>6, <1>7, <1>10
  <2>2. LInv'
    BY <1>1, <1>2, <1>8, <1>10, <2>1, LockTaken
  <2> QED
    BY <1>1, <1>10, <2>2, LockedType
<1>11. CASE lock' = Released(k) /\ Lockholding(poll[t]) /\ ~Lockholding(poll'[t])
  <2>1. /\ PollHolds(t, m) /\ ~PollHolds(t, m)'
        /\ CallHolds(t, m)' <=> CallHolds(t, m)
    BY <1>5, <1>6, <1>7, <1>11
  <2> QED
    BY <1>1, <1>2, <1>8, <1>11, <2>1, LockGiven
<1> QED
  BY <1>9, <1>10, <1>11

(* The sets and records of the environment and of the lists keep their     *)
(* types, and the descriptors in the sets are those there were.            *)
DataSound == /\ key' \in [Keys -> KeyRecords] /\ fdset' \in Sets
             /\ list' \in [Keys -> [Kinds -> Seq(Ops)]]
             /\ op' \in [Ops -> OpRecords] /\ sock' \in [Fds -> SockRecords]
FewerBits == \A e \in Events : fdset'[e] \subseteq fdset[e]

(* The writes others are sending stay, and the sockets stay what they are. *)
Sends(t, k) == poll[t].pc = "send" /\ Event(t).key = k
WritesKept(t) ==
  /\ \A f \in Fds : sock'[f].open = sock[f].open /\ sock'[f].type = sock[f].type
  /\ \A k \in Keys : \/ list'[k]["write"] = list[k]["write"] \/ list'[k]["write"] # <<>>
                     \/ \A u \in Threads \ {t} : ~Sends(u, k)

(* The sockets stay open, and the write a poll sends stays first.          *)
LEMMA KeptWrites ==
  ASSUME TInv, FInv, WInv, NEW t, WritesKept(t), \A k \in Keys : key'[k].fd = key[k].fd,
         \A u \in Threads \ {t} : poll'[u] = poll[u],
         t \in Threads /\ poll'[t].pc = "send" =>
           /\ Event(t)' = Event(t) /\ Event(t).key \in Keys
           /\ key[Event(t).key].fd \in Fds
           /\ sock[key[Event(t).key].fd].type # "dgram" => list'[Event(t).key]["write"] # <<>>
  PROVE  WInv'
<1>1. \A k \in Keys : key'[k].fd = key[k].fd /\ (key[k].fd # NoFd => key[k].fd \in Fds)
  BY KeyFields
<1>2. (\A k \in Keys : key[k].fd # NoFd => sock[key[k].fd].open)'
  BY <1>1 DEF WInv, WritesKept
<1>3. (\A j, k \in Keys : key[k].fd # NoFd /\ key[j].fd = key[k].fd => j = k)'
  BY <1>1 DEF WInv
<1>4. ASSUME NEW u \in Threads, poll'[u].pc = "send", NEW k, k = Event(u)'.key,
             sock'[key'[k].fd].type # "dgram"
      PROVE  list'[k]["write"] # <<>>
  <2>1. CASE u = t
    BY <1>1, <1>4, <2>1 DEF WritesKept
  <2>2. CASE u # t
    <3>1. poll[u].pc = "send" /\ Event(u) = Event(u)'
      BY <1>4, <2>2 DEF Event
    <3>2. k \in Keys /\ key[k].fd # NoFd
      BY <1>4, <3>1, EventKey DEF Outside, FInv
    <3>3. sock[key[k].fd].type # "dgram"
      BY <1>1, <1>4, <3>2 DEF WritesKept
    <3>4. list[k]["write"] # <<>> /\ Sends(u, k)
      BY <1>4, <3>1, <3>3 DEF WInv, Sends
    <3> QED
      BY <2>2, <3>2, <3>4 DEF WritesKept
  <2> QED
    BY <2>1, <2>2
<1> QED
  BY <1>2, <1>3, <1>4 DEF WInv

(* A step of a poll that goes on with its event keeps the invariant.       *)
LEMMA PollStep ==
  ASSUME IInv, NEW t \in Threads, NEW pc, Moved(t, pc),
         poll[t].pc \notin Outside \cup {"deref"}, pc \notin Outside \cup {"deref"},
         api' = api, api[t].pc = "idle", SameKeys, SameCounts, SameLists, refs' = refs,
         DataSound, FewerBits, WritesKept(t),
         pc = "send" => /\ key[Event(t).key].fd # NoFd
                        /\ sock[key[Event(t).key].fd].type # "dgram" =>
                             list'[Event(t).key]["write"] # <<>>,
         NEW k, k = Event(t).key,
         \/ lock' = lock /\ (Lockholding(poll'[t]) <=> Lockholding(poll[t]))
         \/ /\ lock' = Locked(t, k) /\ Available(t, k)
            /\ ~Lockholding(poll[t]) /\ Lockholding(poll'[t])
         \/ lock' = Released(k) /\ Lockholding(poll[t]) /\ ~Lockholding(poll'[t])
  PROVE  IInv'
<1>1. TInv /\ LInv /\ FInv /\ WInv /\ RefCountExact /\ GroupRefsExact /\ SetsSound
  BY DEF IInv
<1>2. LInv' /\ lock' \in [Locks -> LockRecords]
  BY <1>1, PollLocks
<1>3. TInv'
  <2>1. ASSUME NEW u \in Threads
        PROVE  /\ PollSound(poll[u])' /\ ApiSound(api[u])'
               /\ api'[u].pc # "idle" => poll'[u].pc \in {"idle", "callback"}
    <3>1. /\ PollSound(poll[u]) /\ ApiSound(api[u])
          /\ api[u].pc # "idle" => poll[u].pc \in {"idle", "callback"}
      BY <1>1 DEF TInv
    <3>2. ApiSound(api[u])'
      BY <3>1 DEF ApiSound
    <3>3. CASE u = t
      BY <3>2, <3>3 DEF Moved
    <3>4. CASE u # t
      <4>1. poll'[u] = poll[u]
        BY <3>4 DEF Moved
      <4>2. PollSound(poll[u])'
        BY <3>1, <4>1 DEF PollSound, KeepsLock
      <4> QED
        BY <3>1, <3>2, <4>1, <4>2
    <3> QED
      BY <3>3, <3>4
  <2> QED
    BY <1>1, <1>2, <2>1 DEF TInv, DataSound, SameLists, Moved
<1>4. Event(t)' = Event(t) /\ Event(t).key \in Keys
  BY <1>1, EventKey DEF Event, Moved
<1>5. SamePolls
  BY DEF SamePolls, Moved, Unfinished, Unpassed, At
<1>6. Quiet
  BY <1>5 DEF Quiet, SameCalls
<1>7. RefCountExact' /\ GroupRefsExact'
  BY <1>1, <1>6, QuietCounts
<1>8. FInv'
  <2>1. \A u \in Threads \ {t} : poll'[u] = poll[u] /\ api'[u] = api[u]
    BY DEF Moved
  <2>2. \A u \in Threads : poll[u].pc = "send" => Event(u).key \in Keys
    BY <1>1, EventKey DEF Outside
  <2>3. \A u \in Threads : api[u].pc \in {"drop", "unlock"} => api[u].key \in Keys
    BY <1>1, PollTypes DEF ApiSound, ApiRecords
  <2>4. poll'[t].pc = "send" => Event(t)' = Event(t) /\ key[Event(t).key].fd # NoFd
    BY <1>4 DEF Moved
  <2>5. poll'[t].pc # "deref" /\ api'[t].pc = "idle"
    BY DEF Moved
  <2> QED
    BY <1>1, <1>4, <1>6, <2>1, <2>2, <2>3, <2>4, <2>5, QuietKeys
<1>9. SetsSound'
  BY <1>1, QuietSets DEF FewerBits, SameKeys
<1>10. WInv'
  <2>1. \A u \in Threads \ {t} : poll'[u] = poll[u]
    BY DEF Moved
  <2>2. poll'[t].pc = "send" => key[Event(t).key].fd \in Fds
    BY <1>1, <1>4, KeyFields DEF Moved
  <2> QED
    BY <1>1, <1>4, <2>1, <2>2, KeptWrites DEF Moved, SameKeys
<1> QED
  BY <1>2, <1>3, <1>7, <1>8, <1>9, <1>10 DEF IInv

(* A step of a call that does not give back the key.                       *)
LEMMA CallStep ==
  ASSUME IInv, NEW t \in Threads, NEW a, ApiSound(a), api' = [api EXCEPT ![t] = a],
         api[t].pc \notin {"drop", "unlock"}, a.pc \notin {"drop", "unlock"},
         a.pc # "idle" => poll[t].pc \in {"idle", "callback"} /\ a.key \notin free_list,
         poll' = poll, lock' = lock, SameKeys, SameCounts, SameLists, refs' = refs, DataSound,
         poll[t].pc # "send", WritesKept(t),
         \A e \in Events : \A f \in fdset'[e] :
           f \in fdset[e] \/ (f # NoFd /\ \E k \in Keys : key[k].fd = f)
  PROVE  IInv'
<1>1. TInv /\ LInv /\ FInv /\ WInv /\ RefCountExact /\ GroupRefsExact /\ SetsSound
  BY DEF IInv
<1>2. /\ api'[t] = a /\ \A u \in Threads \ {t} : api'[u] = api[u]
      /\ api' \in [Threads -> ApiRecords]
  BY <1>1 DEF TInv, ApiSound
<1>3. ASSUME NEW u \in Threads, NEW l \in Locks
      PROVE  /\ PollHolds(u, l)' <=> PollHolds(u, l)
             /\ CallHolds(u, l)' <=> CallHolds(u, l)
  <2>1. PollHolds(u, l)' <=> PollHolds(u, l)
    BY <1>1, HoldsSame DEF SameKeys
  <2>2. CASE u = t
    BY <1>2, <2>1, <2>2 DEF CallHolds
  <2>3. CASE u # t
    BY <1>1, <1>2, <2>1, <2>3, HoldsSame DEF SameKeys
  <2> QED
    BY <2>2, <2>3
<1>4. LInv'
  BY <1>1, <1>3, LocksSame
<1>5. TInv'
  <2>1. \A u \in Threads : /\ PollSound(poll[u])' /\ ApiSound(api[u])'
                           /\ api'[u].pc # "idle" => poll'[u].pc \in {"idle", "callback"}
    BY <1>1, <1>2 DEF TInv, PollSound, ApiSound, KeepsLock
  <2> QED
    BY <1>1, <1>2, <2>1 DEF TInv, DataSound, SameLists
<1>6. Quiet
  <2>1. SamePolls
    BY DEF SamePolls, Unfinished, Unpassed, At
  <2>2. SameCalls
    BY <1>2 DEF SameCalls
  <2> QED
    BY <2>1, <2>2 DEF Quiet
<1>7. RefCountExact' /\ GroupRefsExact'
  BY <1>1, <1>6, QuietCounts
<1>8. FInv'
  <2>1. \A u \in Threads \ {t} : poll'[u] = poll[u] /\ api'[u] = api[u]
    BY <1>2
  <2>2. \A u \in Threads : poll[u].pc = "send" => Event(u).key \in Keys
    BY <1>1, EventKey DEF Outside
  <2>3. \A u \in Threads : api[u].pc \in {"drop", "unlock"} => api[u].key \in Keys
    BY <1>1, PollTypes DEF ApiSound, ApiRecords
  <2>4. Event(t)' = Event(t)
    BY DEF Event
  <2>5. /\ poll'[t].pc = "send" => key[Event(t).key].fd # NoFd
        /\ poll'[t].pc = "deref" => Event(t).key \notin free_list
        /\ api'[t].pc # "idle" => api'[t].key \notin free_list
    BY <1>1, <1>2 DEF FInv
  <2> QED
    BY <1>1, <1>6, <2>1, <2>2, <2>3, <2>4, <2>5, QuietKeys
<1>9. SetsSound'
  BY <1>1, QuietSets DEF SameKeys
<1>10. WInv'
  BY <1>1, KeptWrites DEF SameKeys
<1> QED
  BY <1>4, <1>5, <1>7, <1>8, <1>9, <1>10 DEF IInv

-----------------------------------------------------------------------------
(* The key of an event is registered or held until it is given back.       *)
LEMMA Referenced ==
  ASSUME IInv, NEW t \in Threads, poll[t].pc \notin Outside \cup {"deref"}
  PROVE  /\ Event(t).key \in Keys /\ Event(t).key \in active_list
         /\ Event(t).key \notin free_list /\ Event(t).key \notin closing_list
         /\ <<t, poll[t].next>> \in Held(Event(t).key)
         /\ key[Event(t).key].ref_count = One(Registered(Event(t).key))
                                          + Cardinality(Held(Event(t).key))
         /\ Cardinality(Held(Event(t).key)) \in Nat \ {0}
<1>1. TInv /\ RefCountExact
  BY DEF IInv
<1>2. PICK k : k = Event(t).key
  OBVIOUS
<1>3. k \in Keys
  BY <1>1, <1>2, EventKey
<1>4. PollSound(poll[t]) /\ poll[t].events \in Seq(Found)
  BY <1>1, PollTypes DEF PollRecords
<1>5. Len(poll[t].events) <= MaxEvents /\ poll[t].next \in 1 .. Len(poll[t].events)
  BY <1>4 DEF PollSound
<1>6. poll[t].next \in Unfinished(t) /\ poll[t].next \in 1 .. MaxEvents
  BY <1>4, <1>5, Constants DEF Unfinished, At
<1>7. <<t, poll[t].next>> \in Held(k)
  BY <1>2, <1>6 DEF Held, Slots, Event
<1>8. Cardinality(Held(k)) \in Nat \ {0}
  <2>1. IsFiniteSet(Held(k)) /\ Cardinality(Held(k)) \in Nat
    BY FiniteSlots
  <2>2. Cardinality(Held(k)) # 0
    BY <1>7, <2>1, FS_EmptySet
  <2> QED
    BY <2>1, <2>2
<1>9. key[k].ref_count = One(Registered(k)) + Cardinality(Held(k)) /\ KeyLists
  BY <1>1, <1>3, Exact DEF KeyCounts
<1>10. One(Registered(k)) \in {0, 1}
  BY DEF One
<1>11. key[k].ref_count > 0
  BY <1>8, <1>9, <1>10
<1>12. k \in active_list /\ k \notin free_list /\ k \notin closing_list
  BY <1>3, <1>9, <1>11 DEF KeyLists
<1> QED
  BY <1>2, <1>3, <1>7, <1>8, <1>9, <1>12

(* A key that is not closing and can be locked has its descriptor.         *)
LEMMA Usable ==
  ASSUME IInv, NEW t \in Threads, NEW k \in Keys, k \notin free_list, ~key[k].closing,
         Available(t, k), api[t].pc # "drop"
  PROVE  key[k].fd \in Fds
<1>1. TInv /\ LInv /\ FInv
  BY DEF IInv
<1>2. SUFFICES ASSUME key[k].fd = NoFd
               PROVE  FALSE
  BY <1>1, KeyFields
<1>3. PICK u \in Threads : api[u].pc = "drop" /\ api[u].key = k
  BY <1>1, <1>2 DEF FInv
<1>4. LockOf(k) \in Locks /\ Holds(u, LockOf(k))
  BY <1>1, <1>3, LockType DEF Holds, CallHolds
<1>5. lock[LockOf(k)].owner = u
  BY <1>1, <1>4 DEF LInv
<1>6. u = t
  BY <1>5, Constants DEF Available
<1> QED
  BY <1>3, <1>6

(* A poll that serves a key may use it, and does not hold its lock yet.    *)
LEMMA Serving ==
  ASSUME IInv, NEW t \in Threads, MayServe(t)
  PROVE  /\ Event(t).key \in Keys /\ key[Event(t).key].fd \in Fds
         /\ key[Event(t).key].fd # NoFd
         /\ poll[t].pc = "dispatch" /\ api[t].pc = "idle" /\ ~Lockholding(poll[t])
         /\ Available(t, Event(t).key)
<1>1. poll[t].pc = "dispatch" /\ Available(t, Event(t).key) /\ ~key[Event(t).key].closing
  BY DEF MayServe, At
<1>2. Event(t).key \in Keys /\ Event(t).key \notin free_list
  BY <1>1, Referenced DEF Outside
<1>3. api[t].pc = "idle"
  BY <1>1, PollTypes DEF Outside, IInv
<1> QED
  BY <1>1, <1>2, <1>3, Usable, Constants DEF Lockholding

(* A key that is open is registered for a socket.                          *)
LEMMA OpenKey ==
  ASSUME IInv, NEW k \in Keys, IsOpen(k)
  PROVE  /\ key[k].fd \in Fds /\ key[k].fd # NoFd /\ k \notin free_list
         /\ k # NoKey
  BY KeyFields, Constants DEF IInv, IsOpen, FInv

(* Operations put on and taken off the lists.                              *)
LEMMA ListTypes ==
  ASSUME TInv, NEW k \in Keys, NEW kind \in Kinds
  PROVE  /\ list[k][kind] \in Seq(Ops)
         /\ \A o \in Ops : [list EXCEPT ![k][kind] = Append(@, o)]
                             \in [Keys -> [Kinds -> Seq(Ops)]]
         /\ list[k][kind] # <<>> => /\ Head(list[k][kind]) \in Ops
                                    /\ [list EXCEPT ![k][kind] = Tail(@)]
                                         \in [Keys -> [Kinds -> Seq(Ops)]]
         /\ \A i \in DOMAIN list[k][kind] :
              /\ list[k][kind][i] \in Ops
              /\ [list EXCEPT ![k][kind] = RemoveAt(@, i)] \in [Keys -> [Kinds -> Seq(Ops)]]
<1>1. list \in [Keys -> [Kinds -> Seq(Ops)]] /\ list[k][kind] \in Seq(Ops)
  BY DEF TInv
<1>2. ASSUME NEW s \in Seq(Ops)
      PROVE  [list EXCEPT ![k][kind] = s] \in [Keys -> [Kinds -> Seq(Ops)]]
  BY <1>1
<1>3. \A o \in Ops : Append(list[k][kind], o) \in Seq(Ops)
  BY <1>1
<1>4. list[k][kind] # <<>> => Head(list[k][kind]) \in Ops /\ Tail(list[k][kind]) \in Seq(Ops)
  BY <1>1
<1>5. ASSUME NEW i \in DOMAIN list[k][kind]
      PROVE  list[k][kind][i] \in Ops /\ RemoveAt(list[k][kind], i) \in Seq(Ops)
  <2>1. i \in 1 .. Len(list[k][kind])
    BY <1>1
  <2>2. /\ SubSeq(list[k][kind], 1, i - 1) \in Seq(Ops)
        /\ SubSeq(list[k][kind], i + 1, Len(list[k][kind])) \in Seq(Ops)
    BY <1>1, <2>1
  <2> QED
    BY <1>1, <2>1, <2>2 DEF RemoveAt
<1> QED
  BY <1>1, <1>2, <1>3, <1>4, <1>5

(* Taking the first operation off.                                         *)
LEMMA TakeOffTypes ==
  ASSUME TInv, NEW k \in Keys, NEW kind \in Kinds, NEW e \in Events,
         list[k][kind] # <<>>, TakeOff(k, kind, e)
  PROVE  list' \in [Keys -> [Kinds -> Seq(Ops)]] /\ fdset' \in Sets /\ FewerBits
<1>1. list' \in [Keys -> [Kinds -> Seq(Ops)]]
  BY ListTypes DEF TakeOff
<1>2. fdset \in Sets /\ Cleared(key[k].fd, {e}) \in Sets
  BY SetsType, KeyFields DEF TInv
<1>3. \A d \in Events : Cleared(key[k].fd, {e})[d] \subseteq fdset[d]
  BY DEF Cleared
<1> QED
  BY <1>1, <1>2, <1>3 DEF TakeOff, FewerBits

-----------------------------------------------------------------------------
(* The steps of a poll, one by one.                                        *)
LEMMA DataStays ==
  ASSUME IInv, UNCHANGED <<key, fdset, list, op, sock>>
  PROVE  DataSound /\ FewerBits /\ SameKeys /\ SameCounts /\ \A t : WritesKept(t)
  BY DEF IInv, TInv, DataSound, FewerBits, SameKeys, SameCounts, WritesKept

(* Skip: the poll goes on to give the key back.                            *)
LEMMA SkipStep ==
  ASSUME IInv, NEW t \in Threads, Skip(t)
  PROVE  IInv'
<1>1. poll[t].pc = "dispatch" /\ poll' = [poll EXCEPT ![t].pc = "release"]
  BY DEF Skip, At
<1>2. Moved(t, "release") /\ poll'[t].pc = "release"
  BY <1>1, Releasing DEF IInv, Outside, Moved
<1>3. api[t].pc = "idle"
  BY <1>1, PollTypes DEF IInv, Outside
<1>4. DataSound /\ FewerBits /\ SameKeys /\ SameCounts /\ WritesKept(t)
  BY DataStays DEF Skip
<1>5. lock' = lock /\ (Lockholding(poll'[t]) <=> Lockholding(poll[t]))
  BY <1>1, <1>2 DEF Skip, Lockholding
<1> QED
  BY <1>1, <1>2, <1>3, <1>4, <1>5, PollStep DEF Skip, queue, SameLists, Outside

(* Deliver: the callback is called, or the lock given back.                *)
LEMMA DeliverStep ==
  ASSUME IInv, NEW t \in Threads, Deliver(t)
  PROVE  IInv'
<1>1. poll[t].pc = "deliver"
  BY DEF Deliver, At
<1>2. api[t].pc = "idle" /\ PollSound(poll[t]) /\ poll[t] \in PollRecords /\ TInv
  BY <1>1, PollTypes DEF IInv, Outside
<1>3. DataSound /\ FewerBits /\ SameKeys /\ SameCounts /\ WritesKept(t)
  BY DataStays DEF Deliver
<1>4. CASE poll' = [poll EXCEPT ![t].pc = "callback"] /\ UNCHANGED lock
  <2>1. PICK r : r = [poll[t] EXCEPT !.pc = "callback"]
    OBVIOUS
  <2>2. PollSound(r)
    BY <1>1, <1>2, <2>1, PollWith DEF Outside
  <2>3. /\ r.events = poll[t].events /\ r.next = poll[t].next /\ r.pc = "callback"
        /\ r.has_lock = poll[t].has_lock
    BY <1>2, <2>1 DEF PollRecords
  <2>4. poll' = [poll EXCEPT ![t] = r]
    BY <1>4, <2>1
  <2>5. Moved(t, "callback")
    BY <1>2, <2>2, <2>3, <2>4, MovedTo
  <2>6. poll'[t] = r
    BY <1>2, <2>4 DEF TInv
  <2>7. lock' = lock /\ (Lockholding(poll'[t]) <=> Lockholding(poll[t]))
    BY <1>1, <1>4, <2>3, <2>6 DEF Lockholding
  <2> QED
    BY <1>1, <1>2, <1>3, <2>5, <2>7, PollStep DEF Deliver, queue, SameLists, Outside
<1>5. CASE /\ poll' = [poll EXCEPT ![t].pc = "release"]
           /\ lock' = IF poll[t].has_lock THEN Released(Event(t).key) ELSE lock
  <2>1. Moved(t, "release") /\ poll'[t].pc = "release"
    BY <1>1, <1>2, <1>5, Releasing DEF Outside, Moved
  <2>2. ~Lockholding(poll'[t]) /\ (Lockholding(poll[t]) <=> poll[t].has_lock)
    BY <1>1, <2>1 DEF Lockholding
  <2>3. \/ lock' = lock /\ (Lockholding(poll'[t]) <=> Lockholding(poll[t]))
        \/ lock' = Released(Event(t).key) /\ Lockholding(poll[t]) /\ ~Lockholding(poll'[t])
    BY <1>5, <2>2
  <2> QED
    BY <1>1, <1>2, <1>3, <2>1, <2>3, PollStep DEF Deliver, queue, SameLists, Outside
<1> QED
  BY <1>4, <1>5 DEF Deliver

(* CallbackReturns: the lock is given back.                                *)
LEMMA CallbackReturnsStep ==
  ASSUME IInv, NEW t \in Threads, CallbackReturns(t)
  PROVE  IInv'
<1>1. poll[t].pc = "callback" /\ api[t].pc = "idle"
  BY DEF CallbackReturns, At
<1>2. DataSound /\ FewerBits /\ SameKeys /\ SameCounts /\ WritesKept(t)
  BY DataStays DEF CallbackReturns
<1>3. Moved(t, "release") /\ poll'[t].pc = "release"
  BY <1>1, Releasing DEF CallbackReturns, Outside, Moved, IInv
<1>4. ~Lockholding(poll'[t]) /\ (Lockholding(poll[t]) <=> poll[t].has_lock)
  BY <1>1, <1>3 DEF Lockholding
<1>5. \/ lock' = lock /\ (Lockholding(poll'[t]) <=> Lockholding(poll[t]))
      \/ lock' = Released(Event(t).key) /\ Lockholding(poll[t]) /\ ~Lockholding(poll'[t])
  BY <1>4 DEF CallbackReturns
<1> QED
  BY <1>1, <1>2, <1>3, <1>5, PollStep DEF CallbackReturns, queue, SameLists, Outside

(* A poll that is about to call back keeps the lock it takes or not.       *)
LEMMA DeliverLock ==
  ASSUME NEW t, poll'[t].pc = "deliver", poll'[t].has_lock = KeepsLock
  PROVE  Lockholding(poll'[t]) <=> KeepsLock
  BY DEF Lockholding

(* ServeConnect: two bits are cleared, the lock kept or given back.        *)
LEMMA ServeConnectStep ==
  ASSUME IInv, NEW t \in Threads, ServeConnect(t)
  PROVE  IInv'
<1> DEFINE k == Event(t).key
<1>1. /\ k \in Keys /\ key[k].fd \in Fds /\ poll[t].pc = "dispatch" /\ api[t].pc = "idle"
      /\ ~Lockholding(poll[t]) /\ Available(t, k)
  BY Serving DEF ServeConnect
<1>2. TInv
  BY DEF IInv
<1>3. Moved(t, "deliver") /\ poll'[t].pc = "deliver" /\ poll'[t].has_lock = KeepsLock
  <2>1. NoOp \in Ops \cup {NoOp} /\ "connect" \in Kinds \cup {"connect", "none"}
    OBVIOUS
  <2>2. \E rc \in {"ok", "again", "error"} : ToDeliver(t, NoOp, "connect", rc)
    BY DEF ServeConnect
  <2>3. Moved(t, "deliver") /\ poll'[t].has_lock = KeepsLock
    BY <1>1, <1>2, <2>1, <2>2, Delivered DEF Outside
  <2> QED
    BY <2>3 DEF Moved
<1>4. key' \in [Keys -> KeyRecords] /\ SameKeys /\ SameCounts
  <2>1. key \in [Keys -> KeyRecords]
    BY <1>2 DEF TInv
  <2>2. PICK r : r = [key[k] EXCEPT !.connecting = FALSE]
    OBVIOUS
  <2>3. r \in KeyRecords
    BY <1>1, <2>1, <2>2, KeyWith
  <2>4. /\ r.fd = key[k].fd /\ r.closing = key[k].closing
        /\ r.ref_count = key[k].ref_count /\ r.grp_lock = key[k].grp_lock
    BY <1>1, <2>1, <2>2 DEF KeyRecords
  <2>5. key' = [key EXCEPT ![k] = r]
    BY <2>2 DEF ServeConnect
  <2> HIDE DEF k
  <2>6. SameKeys /\ SameCounts
    BY <1>1, <2>1, <2>4, <2>5 DEF SameKeys, SameCounts
  <2> QED
    BY <1>1, <2>1, <2>3, <2>5, <2>6
<1>5. DataSound /\ FewerBits /\ WritesKept(t)
  <2>1. fdset' = Cleared(key[k].fd, {"WRITEABLE", "EXCEPTION"})
    BY DEF ServeConnect
  <2>2. fdset' \in Sets
    BY <1>1, <1>2, <2>1, SetsType
  <2>3. FewerBits
    BY <2>1 DEF FewerBits, Cleared
  <2> QED
    BY <1>2, <1>4, <2>2, <2>3 DEF DataSound, ServeConnect, TInv, WritesKept
<1>6. \/ lock' = lock /\ (Lockholding(poll'[t]) <=> Lockholding(poll[t]))
      \/ /\ lock' = Locked(t, k) /\ Available(t, k)
         /\ ~Lockholding(poll[t]) /\ Lockholding(poll'[t])
  BY <1>1, <1>3, DeliverLock DEF ServeConnect
<1> QED
  BY <1>1, <1>3, <1>4, <1>5, <1>6, PollStep DEF ServeConnect, queue, SameLists, Outside

(* ServeRead: an operation leaves its list.                                *)
LEMMA ServeReadStep ==
  ASSUME IInv, NEW t \in Threads, ServeRead(t)
  PROVE  IInv'
<1>1. PICK k, kind : /\ k = Event(t).key
                     /\ kind = IF list[k]["accept"] # <<>> THEN "accept" ELSE "read"
  OBVIOUS
<1>2. /\ k \in Keys /\ key[k].fd \in Fds /\ poll[t].pc = "dispatch" /\ api[t].pc = "idle"
      /\ ~Lockholding(poll[t]) /\ Available(t, k)
  BY <1>1, Serving DEF ServeRead
<1>3. PICK o, f : o = Head(list[k][kind]) /\ f = key[k].fd
  OBVIOUS
<1>4. TInv /\ kind \in Kinds /\ list[k][kind] # <<>>
  BY <1>1 DEF IInv, Kinds, ServeRead
<1>5. o \in Ops
  BY <1>2, <1>3, <1>4, ListTypes
<1>6. /\ TakeOff(k, kind, "READABLE") /\ op' = [op EXCEPT ![o] = NoKind]
      /\ sock' = [sock EXCEPT ![f].data = IF @ > 0 THEN @ - 1 ELSE 0]
      /\ lock' = IF KeepsLock THEN Locked(t, k) ELSE lock
      /\ ToDeliver(t, o, kind, IF sock[f].data > 0 THEN "ok" ELSE "again")
      /\ UNCHANGED <<queue, key, refs, api>>
  BY <1>1, <1>3 DEF ServeRead
<1>7. Moved(t, "deliver") /\ poll'[t].pc = "deliver" /\ poll'[t].has_lock = KeepsLock
  <2>1. \E rc \in {"ok", "again", "error"} : ToDeliver(t, o, kind, rc)
    BY <1>6
  <2>2. Moved(t, "deliver") /\ poll'[t].has_lock = KeepsLock
    BY <1>2, <1>4, <1>5, <2>1, Delivered DEF Outside
  <2> QED
    BY <2>2 DEF Moved
<1>8. DataSound /\ FewerBits
  <2>1. list' \in [Keys -> [Kinds -> Seq(Ops)]] /\ fdset' \in Sets /\ FewerBits
    BY <1>2, <1>4, <1>6, TakeOffTypes DEF Events
  <2>2. op' \in [Ops -> OpRecords]
    BY <1>4, <1>5, <1>6, Constants DEF TInv, OpRecords, NoKind
  <2>3. sock' \in [Fds -> SockRecords]
    <3>1. sock \in [Fds -> SockRecords] /\ sock[f] \in SockRecords
      BY <1>2, <1>3, <1>4 DEF TInv
    <3>2. PICK d : d = IF sock[f].data > 0 THEN sock[f].data - 1 ELSE 0
      OBVIOUS
    <3>3. d \in 0 .. MaxData
      BY <3>1, <3>2, Constants DEF SockRecords
    <3>4. [sock[f] EXCEPT !.data = d] \in SockRecords
      BY <3>1, <3>3 DEF SockRecords
    <3> QED
      BY <1>2, <1>3, <1>6, <3>1, <3>2, <3>4
  <2> QED
    BY <1>4, <1>6, <2>1, <2>2, <2>3 DEF DataSound, TInv
<1>9. WritesKept(t)
  <2>1. \A j \in Keys : list'[j]["write"] = list[j]["write"]
    BY <1>1, <1>2, <1>4, <1>6 DEF TakeOff, TInv, Kinds
  <2>2. \A h \in Fds : sock'[h].open = sock[h].open /\ sock'[h].type = sock[h].type
    BY <1>2, <1>3, <1>4, <1>6 DEF TInv, SockRecords
  <2> QED
    BY <2>1, <2>2 DEF WritesKept
<1>10. SameKeys /\ SameCounts
  BY <1>6 DEF SameKeys, SameCounts
<1>11. \/ lock' = lock /\ (Lockholding(poll'[t]) <=> Lockholding(poll[t]))
       \/ /\ lock' = Locked(t, k) /\ Available(t, k)
          /\ ~Lockholding(poll[t]) /\ Lockholding(poll'[t])
  BY <1>2, <1>6, <1>7, DeliverLock
<1> QED
  BY <1>1, <1>2, <1>6, <1>7, <1>8, <1>9, <1>10, <1>11, PollStep DEF queue, SameLists, Outside

(* Only the owner of the lock of a key sends from it.                      *)
LEMMA SendsAlone ==
  ASSUME TInv, LInv, NEW t \in Threads, NEW k \in Keys, Available(t, k) \/ Sends(t, k)
  PROVE  \A u \in Threads \ {t} : ~Sends(u, k)
<1>1. \A u \in Threads : Sends(u, k) => lock[LockOf(k)].owner = u
  BY LockType DEF Sends, LInv, Holds, PollHolds
<1> QED
  BY <1>1, Constants DEF Available

(* ServeWrite: the write that is sent stays first, or is a datagram.       *)
LEMMA ServeWriteStep ==
  ASSUME IInv, NEW t \in Threads, ServeWrite(t)
  PROVE  IInv'
<1>1. PICK k, o : k = Event(t).key /\ o = Head(list[k]["write"])
  OBVIOUS
<1>2. /\ k \in Keys /\ key[k].fd \in Fds /\ key[k].fd # NoFd /\ poll[t].pc = "dispatch"
      /\ api[t].pc = "idle" /\ ~Lockholding(poll[t]) /\ Available(t, k)
  BY <1>1, Serving DEF ServeWrite
<1>3. TInv /\ "write" \in Kinds /\ "WRITEABLE" \in Events /\ list[k]["write"] # <<>>
  BY <1>1 DEF IInv, Kinds, Events, ServeWrite
<1>4. /\ IF sock[key[k].fd].type = "dgram" THEN TakeOff(k, "write", "WRITEABLE")
         ELSE UNCHANGED <<list, fdset>>
      /\ lock' = Locked(t, k)
      /\ poll' = [poll EXCEPT ![t].pc = "send", ![t].op = o]
      /\ UNCHANGED <<queue, key, op, refs, sock, api>>
  BY <1>1 DEF ServeWrite
<1>5. o \in Ops
  BY <1>1, <1>2, <1>3, ListTypes
<1>6. Moved(t, "send") /\ poll'[t].pc = "send"
  <2>1. PollSound(poll[t]) /\ poll[t] \in PollRecords
    BY <1>3, PollTypes
  <2>2. PICK r : r = [poll[t] EXCEPT !.pc = "send", !.op = o]
    OBVIOUS
  <2>3. PollSound(r)
    BY <1>2, <1>5, <2>1, <2>2, PollWith DEF Outside
  <2>4. r.events = poll[t].events /\ r.next = poll[t].next /\ r.pc = "send"
    BY <2>1, <2>2 DEF PollRecords
  <2>5. poll' = [poll EXCEPT ![t] = r]
    BY <1>3, <1>4, <2>1, <2>2 DEF PollRecords, TInv
  <2>6. Moved(t, "send")
    BY <1>3, <2>3, <2>4, <2>5, MovedTo
  <2> QED
    BY <2>6 DEF Moved
<1>7. DataSound /\ FewerBits
  <2>1. list' \in [Keys -> [Kinds -> Seq(Ops)]] /\ fdset' \in Sets /\ FewerBits
    <3>1. CASE TakeOff(k, "write", "WRITEABLE")
      BY <1>2, <1>3, <3>1, TakeOffTypes
    <3>2. CASE UNCHANGED <<list, fdset>>
      BY <1>3, <3>2 DEF TInv, FewerBits
    <3> QED
      BY <1>4, <3>1, <3>2
  <2> QED
    BY <1>3, <1>4, <2>1 DEF DataSound, TInv
<1>8. SameKeys /\ SameCounts
  BY <1>4 DEF SameKeys, SameCounts
<1>9. WritesKept(t)
  <2>1. \A u \in Threads \ {t} : ~Sends(u, k)
    BY <1>2, SendsAlone DEF IInv
  <2>2. \A j \in Keys \ {k} : list'[j]["write"] = list[j]["write"]
    BY <1>2, <1>3, <1>4 DEF TInv, TakeOff
  <2> QED
    BY <1>4, <2>1, <2>2 DEF WritesKept
<1>10. sock[key[k].fd].type # "dgram" => list'[k]["write"] # <<>>
  BY <1>3, <1>4
<1>11. Lockholding(poll'[t])
  BY <1>6 DEF Lockholding
<1> QED
  BY <1>1, <1>2, <1>4, <1>6, <1>7, <1>8, <1>11, <1>9, <1>10, PollStep DEF queue, SameLists, Outside

(* What is sent leaves the room of the socket and the rest of the write    *)
(* natural numbers.                                                        *)
LEMMA SentType ==
  ASSUME TInv, NEW f \in Fds, NEW o \in Ops, CanSend(f)
  PROVE  /\ sock[f].room - Sent(f, OpSize - op[o].written) \in 0 .. MaxRoom
         /\ Sent(f, OpSize - op[o].written) \in Nat
         /\ sock[f].type # "dgram" =>
              op[o].written + Sent(f, OpSize - op[o].written) \in 0 .. OpSize
         /\ sock[f].room - Sent(f, OpSize) \in 0 .. MaxRoom
<1>1. /\ sock[f].room \in 0 .. MaxRoom /\ sock[f].room > 0
      /\ op[o].written \in 0 .. OpSize
  BY DEF TInv, SockRecords, OpRecords, CanSend
<1> QED
  BY <1>1, Constants DEF Sent, Least

(* The room of a socket.                                                   *)
LEMMA RoomType ==
  ASSUME TInv, NEW f \in Fds, NEW n \in 0 .. MaxRoom
  PROVE  [sock EXCEPT ![f].room = n] \in [Fds -> SockRecords]
<1>1. sock \in [Fds -> SockRecords] /\ sock[f] \in SockRecords
  BY DEF TInv
<1>2. [sock[f] EXCEPT !.room = n] \in SockRecords
  BY <1>1 DEF SockRecords
<1> QED
  BY <1>1, <1>2

(* Transfer: the write ends and is delivered, or stays.                    *)
LEMMA TransferStep ==
  ASSUME IInv, NEW t \in Threads, Transfer(t)
  PROVE  IInv'
<1>1. PICK k, o, f : k = Event(t).key /\ o = poll[t].op /\ f = key[k].fd
  OBVIOUS
<1>2. PICK sent : sent = IF CanSend(f) THEN Sent(f, OpSize - op[o].written) ELSE 0
  OBVIOUS
<1>3. PICK written, rc :
        /\ written = op[o].written + sent
        /\ rc = IF CanSend(f) THEN "ok" ELSE IF WouldBlock(f) THEN "again" ELSE "error"
  OBVIOUS
<1>4. PICK over : over <=> rc # "ok" \/ written = OpSize \/ sock[f].type = "dgram"
  OBVIOUS
<1>5. /\ poll[t].pc = "send"
      /\ sock' = [sock EXCEPT ![f].room = @ - sent]
      /\ op' = [op EXCEPT ![o] = IF over THEN NoKind ELSE [@ EXCEPT !.written = written]]
      /\ IF over /\ sock[f].type # "dgram" THEN TakeOff(k, "write", "WRITEABLE")
         ELSE UNCHANGED <<list, fdset>>
      /\ lock' = IF over /\ KeepsLock THEN lock ELSE Released(k)
      /\ IF over THEN ToDeliver(t, o, "write", rc)
         ELSE poll' = [poll EXCEPT ![t].pc = "release", ![t].op = NoOp]
      /\ UNCHANGED <<queue, key, refs, api>>
  BY <1>1, <1>2, <1>3, <1>4 DEF Transfer, At
<1>6. TInv /\ FInv /\ LInv /\ WInv
  BY DEF IInv
<1>7. /\ k \in Keys /\ f \in Fds /\ o \in Ops /\ api[t].pc = "idle"
      /\ PollSound(poll[t]) /\ poll[t] \in PollRecords
  <2>1. k \in Keys
    BY <1>1, <1>5, <1>6, EventKey DEF Outside
  <2>2. key[k].fd # NoFd
    BY <1>1, <1>5, <1>6 DEF FInv
  <2>3. f \in Fds
    BY <1>1, <1>6, <2>1, <2>2, KeyFields
  <2>4. PollSound(poll[t]) /\ poll[t] \in PollRecords /\ api[t].pc = "idle"
    BY <1>5, <1>6, PollTypes DEF Outside
  <2>5. o \in Ops
    BY <1>1, <1>5, <2>4 DEF PollSound
  <2> QED
    BY <2>1, <2>3, <2>4, <2>5
<1>8. WritesKept(t)
  <2>1. Sends(t, k)
    BY <1>1, <1>5 DEF Sends
  <2>2. \A u \in Threads \ {t} : ~Sends(u, k)
    BY <1>6, <1>7, <2>1, SendsAlone
  <2>3. \A j \in Keys \ {k} : list'[j]["write"] = list[j]["write"]
    BY <1>5, <1>6, <1>7 DEF TInv, TakeOff
  <2>4. \A h \in Fds : sock'[h].open = sock[h].open /\ sock'[h].type = sock[h].type
    BY <1>5, <1>6, <1>7 DEF TInv, SockRecords
  <2> QED
    BY <2>2, <2>3, <2>4 DEF WritesKept
<1>9. CASE over
  <2>1. Moved(t, "deliver") /\ poll'[t].pc = "deliver" /\ poll'[t].has_lock = KeepsLock
    <3>1. rc \in {"ok", "again", "error"} /\ "write" \in Kinds \cup {"connect", "none"}
      BY <1>3 DEF Kinds
    <3>2. Moved(t, "deliver") /\ poll'[t].has_lock = KeepsLock
      BY <1>5, <1>6, <1>7, <1>9, <3>1, Delivered DEF Outside
    <3> QED
      BY <3>2 DEF Moved
  <2>2. op' \in [Ops -> OpRecords]
    BY <1>5, <1>6, <1>7, <1>9, Constants DEF TInv, OpRecords, NoKind
  <2>3. sock' \in [Fds -> SockRecords]
    <3>1. sock[f].room - sent \in 0 .. MaxRoom
      BY <1>2, <1>6, <1>7, SentType DEF TInv, SockRecords
    <3> QED
      BY <1>5, <1>6, <1>7, <3>1, RoomType
  <2>4. list' \in [Keys -> [Kinds -> Seq(Ops)]] /\ fdset' \in Sets /\ FewerBits
    <3>1. CASE sock[f].type # "dgram"
      <4>1. list[k]["write"] # <<>>
        BY <1>1, <1>5, <1>6, <3>1 DEF WInv
      <4> QED
        BY <1>5, <1>6, <1>7, <1>9, <3>1, <4>1, TakeOffTypes DEF Kinds, Events
    <3>2. CASE UNCHANGED <<list, fdset>>
      BY <1>6, <3>2 DEF TInv, FewerBits
    <3> QED
      BY <1>5, <3>1, <3>2
  <2>5. DataSound /\ SameKeys /\ SameCounts
    BY <1>5, <1>6, <2>2, <2>3, <2>4 DEF DataSound, TInv, SameKeys, SameCounts
  <2>6. \/ lock' = lock /\ (Lockholding(poll'[t]) <=> Lockholding(poll[t]))
        \/ lock' = Released(k) /\ Lockholding(poll[t]) /\ ~Lockholding(poll'[t])
    BY <1>5, <1>9, <2>1, DeliverLock DEF Lockholding
  <2> QED
    BY <1>1, <1>5, <1>7, <1>8, <2>1, <2>4, <2>5, <2>6, PollStep DEF queue, SameLists, Outside
<1>10. CASE ~over
  <2>1. Moved(t, "release") /\ poll'[t].pc = "release"
    <3>1. PICK r : r = [poll[t] EXCEPT !.pc = "release", !.op = NoOp]
      OBVIOUS
    <3>2. PollSound(r)
      BY <1>5, <1>7, <3>1, PollWith DEF Outside
    <3>3. r.events = poll[t].events /\ r.next = poll[t].next /\ r.pc = "release"
      BY <1>7, <3>1 DEF PollRecords
    <3>4. poll' = [poll EXCEPT ![t] = r]
      BY <1>5, <1>6, <1>7, <1>10, <3>1 DEF PollRecords, TInv
    <3>5. Moved(t, "release")
      BY <1>6, <3>2, <3>3, <3>4, MovedTo
    <3> QED
      BY <3>5 DEF Moved
  <2>2. CanSend(f) /\ sock[f].type # "dgram"
    BY <1>3, <1>4, <1>10
  <2>3. op' \in [Ops -> OpRecords]
    <3>1. written \in 0 .. OpSize
      BY <1>2, <1>3, <1>6, <1>7, <2>2, SentType
    <3>2. op \in [Ops -> OpRecords] /\ [op[o] EXCEPT !.written = written] \in OpRecords
      BY <1>6, <1>7, <3>1 DEF TInv, OpRecords
    <3> QED
      BY <1>5, <1>7, <1>10, <3>2
  <2>4. sock' \in [Fds -> SockRecords]
    <3>1. sock[f].room - sent \in 0 .. MaxRoom
      BY <1>2, <1>6, <1>7, <2>2, SentType
    <3> QED
      BY <1>5, <1>6, <1>7, <3>1, RoomType
  <2>5. DataSound /\ SameKeys /\ SameCounts /\ FewerBits
    BY <1>5, <1>6, <1>10, <2>3, <2>4 DEF DataSound, TInv, SameKeys, SameCounts, FewerBits
  <2>6. lock' = Released(k) /\ Lockholding(poll[t]) /\ ~Lockholding(poll'[t])
    BY <1>5, <1>10, <2>1 DEF Lockholding
  <2> QED
    BY <1>1, <1>5, <1>7, <1>8, <2>1, <2>5, <2>6, PollStep DEF queue, SameLists, Outside
<1> QED
  BY <1>9, <1>10

-----------------------------------------------------------------------------
(* A poll outside the dispatch of events holds no event.                   *)
LEMMA OutsideStep ==
  ASSUME IInv, NEW t \in Threads, NEW r, PollSound(r), r.pc \in Outside,
         poll[t].pc \in Outside, api[t].pc = "idle", poll' = [poll EXCEPT ![t] = r],
         SameLists, UNCHANGED <<fdset, key, list, op, lock, refs, sock, api>>
  PROVE  IInv'
<1>1. TInv /\ LInv /\ FInv /\ WInv /\ RefCountExact /\ GroupRefsExact /\ SetsSound
  BY DEF IInv
<1>2. /\ poll'[t] = r /\ \A u \in Threads \ {t} : poll'[u] = poll[u]
      /\ poll' \in [Threads -> PollRecords]
  BY <1>1 DEF TInv, PollSound
<1>3. poll[t].events = <<>> /\ r.events = <<>>
  BY <1>1, PollTypes DEF PollSound
<1>4. ASSUME NEW u \in Threads, NEW l \in Locks
      PROVE  /\ PollHolds(u, l)' <=> PollHolds(u, l)
             /\ CallHolds(u, l)' <=> CallHolds(u, l)
  <2>1. CallHolds(u, l)' <=> CallHolds(u, l)
    BY <1>1, HoldsSame
  <2>2. CASE u = t
    BY <1>2, <2>1, <2>2 DEF PollHolds, Outside
  <2>3. CASE u # t
    BY <1>1, <1>2, <2>1, <2>3, HoldsSame
  <2> QED
    BY <2>2, <2>3
<1>5. LInv'
  BY <1>1, <1>4, LocksSame
<1>6. TInv'
  <2>1. \A u \in Threads : /\ PollSound(poll[u])' /\ ApiSound(api[u])'
                           /\ api'[u].pc # "idle" => poll'[u].pc \in {"idle", "callback"}
    BY <1>1, <1>2 DEF TInv, PollSound, ApiSound, KeepsLock
  <2> QED
    BY <1>1, <1>2, <2>1 DEF TInv, SameLists
<1>7. Quiet
  <2>1. ASSUME NEW u \in Threads
        PROVE  /\ poll'[u].events = poll[u].events
               /\ Unfinished(u)' = Unfinished(u) /\ Unpassed(u)' = Unpassed(u)
    <3>1. CASE u = t
      BY <1>2, <1>3, <3>1 DEF Unfinished, Unpassed
    <3>2. CASE u # t
      BY <1>2, <3>2 DEF Unfinished, Unpassed, At
    <3> QED
      BY <3>1, <3>2
  <2> QED
    BY <2>1 DEF Quiet, SameKeys, SameCounts, SamePolls, SameCalls
<1>8. RefCountExact' /\ GroupRefsExact'
  BY <1>1, <1>7, QuietCounts
<1>9. FInv'
  <2>1. \A u \in Threads : poll[u].pc = "send" => Event(u).key \in Keys
    BY <1>1, EventKey DEF Outside
  <2>2. \A u \in Threads : api[u].pc \in {"drop", "unlock"} => api[u].key \in Keys
    BY <1>1, PollTypes DEF ApiSound, ApiRecords
  <2>3. poll'[t].pc # "deref" /\ poll'[t].pc # "send"
    BY <1>2 DEF Outside
  <2> QED
    BY <1>1, <1>2, <1>7, <2>1, <2>2, <2>3, QuietKeys
<1>10. WInv'
  <2>1. WritesKept(t) /\ SameKeys
    BY DEF WritesKept, SameKeys
  <2>2. poll'[t].pc # "send"
    BY <1>2 DEF Outside
  <2> QED
    BY <1>1, <1>2, <2>1, <2>2, KeptWrites DEF SameKeys
<1>11. SetsSound'
  BY <1>1, QuietSets DEF SameKeys
<1> QED
  BY <1>5, <1>6, <1>8, <1>9, <1>10, <1>11 DEF IInv

(* A poll outside.                                                         *)
LEMMA IdleSound ==
  PollSound(PollIdle) /\ PollIdle.pc = "idle"
<1>1. NoSets \in Sets
  BY DEF NoSets, Sets
<1>2. PollIdle \in PollRecords
  BY <1>1 DEF PollIdle, PollRecords, Outside
<1> QED
  BY <1>2 DEF PollSound, PollIdle, Outside

(* Select: only the sets of the poll change.                               *)
LEMMA SelectStep ==
  ASSUME IInv, NEW t \in Threads, Select(t)
  PROVE  IInv'
<1>1. TInv /\ poll[t].pc = "select"
  BY DEF IInv, Select
<1>2. PollSound(poll[t]) /\ api[t].pc = "idle" /\ poll[t] \in PollRecords
  BY <1>1 DEF TInv
<1>3. PICK ready : /\ ready = [e \in Events |-> {f \in poll[t].sets[e] : Ready(e, f)}]
                   /\ \/ poll' = [poll EXCEPT ![t].pc = "collect", ![t].sets = ready]
                      \/ poll' = [poll EXCEPT ![t] = PollIdle]
  BY DEF Select
<1>4. CASE poll' = [poll EXCEPT ![t].pc = "collect", ![t].sets = ready]
  <2>1. ready \in Sets
    BY <1>2, <1>3 DEF PollRecords, Sets
  <2>2. PICK r : r = [poll[t] EXCEPT !.pc = "collect", !.sets = ready]
    OBVIOUS
  <2>3. r \in PollRecords /\ r.pc = "collect" /\ r.events = poll[t].events
    BY <1>2, <2>1, <2>2 DEF PollRecords, Outside
  <2>4. PollSound(r)
    BY <1>1, <1>2, <2>3 DEF PollSound, Outside
  <2>5. poll' = [poll EXCEPT ![t] = r]
    BY <1>1, <1>2, <1>4, <2>2 DEF PollRecords, TInv
  <2> QED
    BY <1>1, <1>2, <2>3, <2>4, <2>5, OutsideStep DEF Outside, Select, queue, SameLists
<1>5. CASE poll' = [poll EXCEPT ![t] = PollIdle]
  BY <1>1, <1>2, <1>5, IdleSound, OutsideStep DEF Outside, Select, queue, SameLists
<1> QED
  BY <1>3, <1>4, <1>5

-----------------------------------------------------------------------------
(* A key that may be registered next is not used any more.                 *)
LEMMA Spare ==
  ASSUME IInv, NEW k \in free_list \cup Expired
  PROVE  /\ k \in Keys /\ key[k].fd = NoFd /\ k \notin active_list
         /\ key[k].ref_count = 0 /\ ~Registered(k) /\ Held(k) = {}
         /\ \A t \in Threads : api[t].key # k
         /\ \A t \in Threads : \A i \in Unpassed(t) : poll[t].events[i].key # k
<1>1. TInv /\ FInv /\ KeyLists /\ KeyCounts
  BY Exact DEF IInv
<1>2. k \in Keys /\ k \notin active_list
  BY <1>1 DEF TInv, KeyLists, Expired
<1>3. key[k].fd = NoFd
  BY <1>1, <1>2 DEF FInv, Expired
<1>4. \A t \in Threads : api[t].key # k
  <2>1. ASSUME NEW t \in Threads
        PROVE  api[t].key # k
    <3>1. CASE k \in free_list
      <4>1. api[t].pc = "idle" => api[t].key = NoKey
        BY <1>1, PollTypes DEF ApiSound
      <4> QED
        BY <1>1, <1>2, <3>1, <4>1, Constants DEF FInv
    <3>2. CASE k \in Expired
      BY <3>2 DEF Expired, StillUsed
    <3> QED
      BY <3>1, <3>2
  <2> QED
    BY <2>1
<1>5. key[k].ref_count = 0 /\ ~Registered(k) /\ Cardinality(Held(k)) = 0
  <2>1. key[k].ref_count = One(Registered(k)) + Cardinality(Held(k))
    BY <1>1, <1>2 DEF KeyCounts
  <2>2. ~(key[k].ref_count > 0)
    BY <1>1, <1>2 DEF KeyLists
  <2>3. Cardinality(Held(k)) \in Nat /\ One(Registered(k)) \in {0, 1}
    BY FiniteSlots DEF One
  <2>4. key[k].ref_count = 0 /\ Cardinality(Held(k)) = 0 /\ One(Registered(k)) = 0
    BY <2>1, <2>2, <2>3
  <2> QED
    BY <2>4 DEF One
<1>6. Held(k) = {}
  BY <1>5, FiniteSlots, FS_EmptySet
<1>7. ASSUME NEW t \in Threads, NEW i \in Unpassed(t), poll[t].events[i].key = k
      PROVE  FALSE
  <2>1. i \in 1 .. Len(poll[t].events) /\ i \in 1 .. MaxEvents /\ PollSound(poll[t])
        /\ poll[t].events \in Seq(Found)
    BY <1>1, UnpassedKeys, PollTypes DEF PollRecords
  <2>2. poll[t].next \in Nat
    BY <2>1 DEF PollSound, PollRecords
  <2>3. CASE i \in Unfinished(t)
    <3>1. <<t, i>> \in Held(k)
      BY <1>7, <2>1, <2>3 DEF Held, Slots
    <3> QED
      BY <1>6, <3>1
  <2>4. CASE i \notin Unfinished(t)
    <3>1. i = poll[t].next /\ poll[t].pc = "deref"
      BY <2>1, <2>2, <2>4 DEF Unpassed, Unfinished, At
    <3>2. Event(t).key = k
      BY <1>7, <3>1 DEF Event
    <3> QED
      BY <1>1, <3>1, <3>2 DEF FInv, Expired, StillUsed
  <2> QED
    BY <2>3, <2>4
<1> QED
  BY <1>2, <1>3, <1>4, <1>5, <1>6, <1>7

(* Closing keys become free: no thread refers to them.                     *)
LEMMA ScanStep ==
  ASSUME IInv, NEW keys \in SUBSET Expired, Scanned(keys),
         UNCHANGED <<active_list, count, fdset, key, list, op, lock, refs, sock, poll, api>>
  PROVE  IInv'
<1>1. TInv /\ LInv /\ FInv /\ WInv /\ RefCountExact /\ GroupRefsExact /\ SetsSound /\ KeyLists
  BY Exact DEF IInv
<1>2. /\ closing_list' = closing_list \ keys /\ free_list' = free_list \cup keys
      /\ keys \subseteq closing_list
  BY DEF Scanned, Expired
<1>3. TInv'
  <2>1. \A u \in Threads : /\ PollSound(poll[u])' /\ ApiSound(api[u])'
                           /\ api'[u].pc # "idle" => poll'[u].pc \in {"idle", "callback"}
    BY <1>1 DEF TInv, PollSound, ApiSound, KeepsLock
  <2> QED
    BY <1>1, <1>2, <2>1 DEF TInv
<1>4. LInv' /\ GroupRefsExact' /\ SetsSound'
  <2>1. \A u \in Threads, l \in Locks : /\ PollHolds(u, l)' <=> PollHolds(u, l)
                                        /\ CallHolds(u, l)' <=> CallHolds(u, l)
    BY <1>1, HoldsSame
  <2>2. LInv'
    BY <1>1, <2>1, LocksSame
  <2>3. GroupRefsExact'
    BY <1>1 DEF GroupRefsExact, Registered, IsOpen, Unpassed
  <2> QED
    BY <1>1, <2>2, <2>3 DEF SetsSound
<1>5. WInv'
  BY <1>1 DEF WInv, Event
<1>6. FInv'
  <2>1. \A k \in keys : /\ key[k].fd = NoFd
                        /\ \A t \in Threads : api[t].key # k
                        /\ \A t \in Threads : poll[t].pc = "deref" => Event(t).key # k
    BY Spare DEF Expired, StillUsed
  <2>2. \A u \in Threads : Event(u)' = Event(u)
    BY DEF Event
  <2> QED
    BY <1>1, <1>2, <2>1, <2>2 DEF FInv
<1>7. RefCountExact'
  <2>1. KeyCounts'
    BY <1>1, Exact DEF KeyCounts, Registered, IsOpen, Held, Unfinished, At, One
  <2>2. KeyLists'
    BY <1>1, <1>2 DEF KeyLists, Open
  <2>3. (RefCountExact <=> KeyCounts /\ KeyLists)'
    BY Exact, PTL
  <2> QED
    BY <2>1, <2>2, <2>3
<1> QED
  BY <1>3, <1>4, <1>5, <1>6, <1>7 DEF IInv

(* PollStart.                                                              *)
LEMMA PollStartStep ==
  ASSUME IInv, NEW t \in Threads, PollStart(t)
  PROVE  IInv'
<1>1. TInv /\ poll[t].pc = "idle" /\ api[t].pc = "idle"
  BY DEF IInv, PollStart
<1>2. CASE fdset = NoSets
  <2>1. PICK keys \in SUBSET Expired : Scanned(keys)
    BY <1>2 DEF PollStart
  <2> QED
    BY <1>2, <2>1, ScanStep DEF PollStart
<1>3. CASE fdset # NoSets
  <2>1. PollSound(poll[t]) /\ poll[t] \in PollRecords /\ fdset \in Sets
    BY <1>1, PollTypes DEF TInv
  <2>2. PICK r : r = [poll[t] EXCEPT !.pc = "select", !.sets = fdset]
    OBVIOUS
  <2>3. r \in PollRecords /\ r.pc = "select" /\ r.events = poll[t].events
    BY <2>1, <2>2 DEF PollRecords, Outside
  <2>4. PollSound(r)
    BY <1>1, <2>1, <2>3 DEF PollSound, Outside
  <2>5. poll' = [poll EXCEPT ![t] = r]
    BY <1>1, <1>3, <2>1, <2>2 DEF PollRecords, TInv, PollStart
  <2> QED
    BY <1>1, <1>3, <2>3, <2>4, <2>5, OutsideStep DEF Outside, PollStart, queue, SameLists
<1> QED
  BY <1>2, <1>3

-----------------------------------------------------------------------------
(* A poll that neither holds a lock nor comes to hold one.                 *)
LEMMA PollFree ==
  ASSUME IInv, NEW t \in Threads, NEW r, PollSound(r), poll' = [poll EXCEPT ![t] = r],
         ~Lockholding(poll[t]), ~Lockholding(r), r.pc # "send", api[t].pc = "idle",
         r.pc = "deref" => r.events[r.next].key \notin free_list,
         UNCHANGED <<free_list, count, fdset, list, op, lock, sock, api>>, SameKeys,
         active_list' \subseteq Keys, closing_list' \subseteq Keys,
         key' \in [Keys -> KeyRecords], refs' \in [Groups -> Int],
         \A k \in closing_list' : k \in closing_list \/ key[k].closing
  PROVE  /\ TInv' /\ LInv' /\ FInv' /\ WInv' /\ SetsSound'
         /\ poll'[t] = r /\ \A u \in Threads \ {t} : poll'[u] = poll[u]
<1>1. TInv /\ LInv /\ FInv /\ WInv /\ SetsSound
  BY DEF IInv
<1>2. /\ poll'[t] = r /\ \A u \in Threads \ {t} : poll'[u] = poll[u]
      /\ poll' \in [Threads -> PollRecords]
  BY <1>1 DEF TInv, PollSound
<1>3. ASSUME NEW u \in Threads, NEW l \in Locks
      PROVE  /\ PollHolds(u, l)' <=> PollHolds(u, l)
             /\ CallHolds(u, l)' <=> CallHolds(u, l)
  <2>1. CallHolds(u, l)' <=> CallHolds(u, l)
    BY <1>1, HoldsSame DEF SameKeys
  <2>2. CASE u = t
    BY <1>2, <2>1, <2>2 DEF PollHolds, Lockholding
  <2>3. CASE u # t
    BY <1>1, <1>2, <2>1, <2>3, HoldsSame DEF SameKeys
  <2> QED
    BY <2>2, <2>3
<1>4. LInv'
  BY <1>1, <1>3, LocksSame
<1>5. TInv'
  <2>1. \A u \in Threads : /\ PollSound(poll[u])' /\ ApiSound(api[u])'
                           /\ api'[u].pc # "idle" => poll'[u].pc \in {"idle", "callback"}
    BY <1>1, <1>2 DEF TInv, PollSound, ApiSound, KeepsLock
  <2> QED
    BY <1>1, <1>2, <2>1 DEF TInv
<1>6. FInv'
  <2>1. ASSUME NEW u \in Threads, u # t
        PROVE  Event(u)' = Event(u)
    BY <1>2, <2>1 DEF Event
  <2>2. Event(t)' = r.events[r.next]
    BY <1>2 DEF Event
  <2>3. ASSUME NEW k \in Keys
        PROVE  (/\ key[k].closing \/ k \in free_list => key[k].fd = NoFd
                /\ k \in closing_list => key[k].closing
                /\ ~key[k].closing /\ key[k].fd = NoFd =>
                     k \in free_list \/ \E u \in Threads : api[u].pc = "drop" /\ api[u].key = k)'
    BY <1>1 DEF FInv, SameKeys
  <2>4. ASSUME NEW u \in Threads
        PROVE  (/\ api[u].pc # "idle" => api[u].key \notin free_list
                /\ api[u].pc = "drop" => key[api[u].key].fd = NoFd /\ ~key[api[u].key].closing
                /\ api[u].pc = "unlock" => key[api[u].key].closing)'
    <3>1. api[u].pc # "idle" => api[u].key \in Keys
      BY <1>1, PollTypes DEF ApiSound, ApiRecords
    <3> QED
      BY <1>1, <3>1 DEF FInv, SameKeys
  <2>5. ASSUME NEW u \in Threads
        PROVE  (/\ poll[u].pc = "send" => key[Event(u).key].fd # NoFd
                /\ poll[u].pc = "deref" => Event(u).key \notin free_list)'
    <3>1. CASE u = t
      BY <1>2, <2>2, <3>1
    <3>2. CASE u # t
      <4>1. poll[u].pc = "send" => Event(u).key \in Keys
        BY <1>1, EventKey DEF Outside
      <4> QED
        BY <1>1, <1>2, <2>1, <3>2, <4>1 DEF FInv, SameKeys
    <3> QED
      BY <3>1, <3>2
  <2> QED
    BY <2>3, <2>4, <2>5 DEF FInv
<1>7. WInv'
  <2>1. WritesKept(t) /\ poll'[t].pc # "send"
    BY <1>2 DEF WritesKept
  <2> QED
    BY <1>1, <1>2, <2>1, KeptWrites DEF SameKeys
<1>8. SetsSound'
  BY <1>1, QuietSets DEF SameKeys
<1> QED
  BY <1>2, <1>4, <1>5, <1>6, <1>7, <1>8

(* The lists of the keys after the last reference was given back or not.   *)
LEMMA Dropped ==
  ASSUME KeyLists, NEW k \in active_list, MovedByLast(k), free_list' = free_list, count' = count,
         \A j \in Keys : key'[j].fd = key[j].fd,
         \A j \in Keys \ {k} : key'[j].ref_count = key[j].ref_count,
         key'[k].ref_count = key[k].ref_count - 1, key[k].ref_count \in Int
  PROVE  /\ KeyLists'
         /\ active_list' \subseteq Keys /\ (closing_list \subseteq Keys => closing_list' \subseteq Keys)
         /\ closing_list' # closing_list =>
              closing_list' = closing_list \cup {k} /\ key[k].ref_count = 1
<1>1. k \in Keys /\ key[k].ref_count > 0 /\ k \notin free_list /\ k \notin closing_list
  BY DEF KeyLists
<1>2. Open' = Open
  BY DEF Open
<1>3. CASE key[k].ref_count > 1
  <2>1. active_list' = active_list /\ closing_list' = closing_list
    BY <1>3 DEF MovedByLast
  <2>2. active_list' = {j \in Keys : key'[j].ref_count > 0}
    BY <1>1, <1>3, <2>1 DEF KeyLists
  <2> QED
    BY <1>2, <2>1, <2>2 DEF KeyLists
<1>4. CASE ~(key[k].ref_count > 1)
  <2>1. /\ active_list' = active_list \ {k} /\ closing_list' = closing_list \cup {k}
        /\ key[k].ref_count = 1
    BY <1>1, <1>4 DEF MovedByLast
  <2>2. active_list' = {j \in Keys : key'[j].ref_count > 0}
    BY <1>1, <2>1 DEF KeyLists
  <2> QED
    BY <1>1, <1>2, <2>1, <2>2 DEF KeyLists
<1> QED
  BY <1>3, <1>4

(* Release: the reference of the key is given back, maybe the last.        *)
LEMMA ReleaseStep ==
  ASSUME IInv, NEW t \in Threads, Release(t)
  PROVE  IInv'
<1>1. PICK k, n : k = Event(t).key /\ n = poll[t].next
  OBVIOUS
<1>2. /\ TInv /\ FInv /\ KeyLists /\ KeyCounts /\ GroupCounts
      /\ poll[t].pc = "release" /\ api[t].pc = "idle"
      /\ PollSound(poll[t]) /\ poll[t] \in PollRecords
  <2>1. poll[t].pc = "release" /\ TInv
    BY DEF IInv, Release, At
  <2> QED
    BY <2>1, PollTypes, Exact DEF IInv, Outside
<1>3. /\ k \in Keys /\ k \in active_list /\ k \notin free_list /\ <<t, n>> \in Held(k)
      /\ key[k].ref_count = One(Registered(k)) + Cardinality(Held(k))
      /\ Cardinality(Held(k)) \in Nat \ {0}
  BY <1>1, <1>2, Referenced DEF Outside
<1>4. key[k].ref_count \in Int /\ key \in [Keys -> KeyRecords]
  BY <1>2, <1>3, KeyFields DEF TInv
<1>5. /\ key' \in [Keys -> KeyRecords] /\ SameKeys
      /\ key'[k].ref_count = key[k].ref_count - 1
      /\ \A j \in Keys \ {k} : key'[j] = key[j]
  <2>1. PICK r : r = [key[k] EXCEPT !.ref_count = key[k].ref_count - 1]
    OBVIOUS
  <2>2. key[k] \in KeyRecords /\ key[k].ref_count - 1 \in Int
    BY <1>3, <1>4
  <2>3. r \in KeyRecords /\ key[k] \in KeyRecords
    BY <2>1, <2>2, KeyWith
  <2>4. /\ r.fd = key[k].fd /\ r.closing = key[k].closing
        /\ r.ref_count = key[k].ref_count - 1 /\ r.grp_lock = key[k].grp_lock
    BY <2>1, <2>3 DEF KeyRecords
  <2>5. key' = [key EXCEPT ![k] = r]
    BY <1>1, <2>1 DEF Release
  <2> QED
    BY <1>3, <1>4, <2>3, <2>4, <2>5 DEF SameKeys
<1>6. MovedByLast(k) /\ UNCHANGED <<free_list, count, fdset, list, op, lock, refs, sock, api>>
  BY <1>1 DEF Release
<1>7. /\ KeyLists' /\ active_list' \subseteq Keys /\ closing_list' \subseteq Keys
      /\ closing_list' # closing_list => /\ closing_list' = closing_list \cup {k}
                                         /\ key[k].ref_count = 1
  BY <1>2, <1>3, <1>4, <1>5, <1>6, Dropped DEF SameKeys, TInv
<1>8. key[k].ref_count = 1 => key[k].closing
  <2>1. ASSUME key[k].ref_count = 1
        PROVE  ~Registered(k)
    <3>1. One(Registered(k)) = 0
      BY <1>3, <2>1 DEF One
    <3> QED
      BY <3>1 DEF One
  <2> QED
    BY <1>2, <1>3, <2>1 DEF Registered, IsOpen, FInv
<1>9. PICK r : r = [poll[t] EXCEPT !.pc = "deref"]
  OBVIOUS
<1>10. /\ PollSound(r) /\ r.pc = "deref" /\ r.events = poll[t].events /\ r.next = poll[t].next
       /\ poll' = [poll EXCEPT ![t] = r]
  BY <1>2, <1>9, PollWith DEF PollRecords, Outside, Release
<1>11. /\ TInv' /\ LInv' /\ FInv' /\ WInv' /\ SetsSound'
       /\ poll'[t] = r /\ \A u \in Threads \ {t} : poll'[u] = poll[u]
  <2>1. ~Lockholding(poll[t]) /\ ~Lockholding(r) /\ r.pc # "send"
    BY <1>2, <1>10 DEF Lockholding
  <2>2. r.events[r.next].key \notin free_list
    BY <1>1, <1>3, <1>10 DEF Event
  <2>3. \A j \in closing_list' : j \in closing_list \/ key[j].closing
    BY <1>7, <1>8
  <2>4. refs' \in [Groups -> Int]
    BY <1>2, <1>6 DEF TInv
  <2> QED
    BY <1>2, <1>5, <1>6, <1>7, <1>10, <2>1, <2>2, <2>3, <2>4, PollFree
<1>12. /\ Unfinished(t)' = Unfinished(t) \ {n} /\ Unpassed(t)' = Unpassed(t)
       /\ \A u \in Threads \ {t} : /\ Unfinished(u)' = Unfinished(u)
                                   /\ Unpassed(u)' = Unpassed(u)
  <2>1. n \in Nat /\ DOMAIN poll[t].events \subseteq Nat
    BY <1>1, <1>2 DEF PollSound, PollRecords
  <2> QED
    BY <1>1, <1>2, <1>10, <1>11, <2>1 DEF Unfinished, Unpassed, At
<1>13. Held(k)' = Held(k) \ {<<t, n>>}
  BY <1>10, <1>11, <1>12 DEF Held, Slots
<1>14. \A j \in Keys \ {k} : Held(j)' = Held(j)
  <2>1. poll[t].events[n].key = k
    BY <1>1 DEF Event
  <2> QED
    BY <1>10, <1>11, <1>12, <2>1 DEF Held, Slots
<1>15. SameCalls
  BY <1>6 DEF SameCalls
<1>16. KeyCounts'
  <2>1. \A j \in Keys : One(Registered(j))' = One(Registered(j))
    BY <1>5, <1>15, SameRegistered DEF One
  <2>2. Cardinality(Held(k))' = Cardinality(Held(k)) - 1
    <3>1. IsFiniteSet(Held(k)) /\ <<t, n>> \in Held(k)
      BY <1>3, FiniteSlots
    <3> QED
      BY <1>13, <3>1, FS_RemoveElement
  <2>3. One(Registered(k)) \in Nat
    BY DEF One
  <2>4. key'[k].ref_count = One(Registered(k))' + Cardinality(Held(k))'
    BY <1>3, <1>5, <2>1, <2>2, <2>3
  <2> QED
    BY <1>2, <1>5, <1>14, <2>1, <2>4 DEF KeyCounts
<1>17. GroupCounts'
  <2>1. \A g : Owned(g)' = Owned(g)
    BY <1>5, <1>15, SameRegistered DEF Owned, SameKeys
  <2>2. \A g : Passing(g)' = Passing(g)
    <3>1. ASSUME NEW x \in Slots
          PROVE  /\ poll'[x[1]].events = poll[x[1]].events
                 /\ Unpassed(x[1])' = Unpassed(x[1])
                 /\ x[2] \in Unpassed(x[1]) => poll[x[1]].events[x[2]].key \in Keys
      BY <1>2, <1>10, <1>11, <1>12, UnpassedKeys DEF Slots
    <3> QED
      BY <1>5, <3>1 DEF Passing, SameKeys
  <2> QED
    BY <1>2, <1>6, <2>1, <2>2 DEF GroupCounts
<1>18. (RefCountExact <=> KeyCounts /\ KeyLists)' /\ (GroupRefsExact <=> GroupCounts)'
  BY Exact, PTL
<1> QED
  BY <1>7, <1>11, <1>16, <1>17, <1>18 DEF IInv

(* A poll at its next event, or at none.                                   *)
LEMMA AtEvents ==
  ASSUME NEW events \in Seq(Found), Len(events) <= MaxEvents, NEW next \in Nat \ {0},
         NEW r, r = IF next > Len(events) THEN PollIdle
                    ELSE [PollIdle EXCEPT !.pc = "dispatch", !.events = events, !.next = next]
  PROVE  /\ PollSound(r) /\ ~Lockholding(r) /\ r.pc \in {"idle", "dispatch"}
         /\ r.events = IF next > Len(events) THEN <<>> ELSE events
         /\ next <= Len(events) => r.next = next
<1>1. PollSound(PollIdle) /\ PollIdle.pc = "idle" /\ PollIdle \in PollRecords
      /\ PollIdle.events = <<>>
  BY IdleSound DEF PollSound, PollIdle
<1>2. CASE next > Len(events)
  BY <1>1, <1>2 DEF Lockholding
<1>3. CASE ~(next > Len(events))
  <2>1. r = [PollIdle EXCEPT !.pc = "dispatch", !.events = events, !.next = next]
    BY <1>3
  <2>2. /\ r \in PollRecords /\ r.pc = "dispatch" /\ r.events = events /\ r.next = next
    BY <1>1, <2>1 DEF PollRecords
  <2>3. next \in 1 .. Len(events)
    BY <1>3
  <2> QED
    BY <1>3, <2>2, <2>3 DEF PollSound, Outside, Lockholding
<1> QED
  BY <1>2, <1>3

(* Deref: the reference of the group is given back.                        *)
LEMMA DerefStep ==
  ASSUME IInv, NEW t \in Threads, Deref(t)
  PROVE  IInv'
<1>1. PICK k, n, events : k = Event(t).key /\ n = poll[t].next /\ events = poll[t].events
  OBVIOUS
<1>2. /\ TInv /\ FInv /\ KeyLists /\ KeyCounts /\ GroupCounts
      /\ poll[t].pc = "deref" /\ api[t].pc = "idle"
      /\ PollSound(poll[t]) /\ poll[t] \in PollRecords
  <2>1. poll[t].pc = "deref" /\ TInv
    BY DEF IInv, Deref, At
  <2> QED
    BY <2>1, PollTypes, Exact DEF IInv, Outside
<1>3. /\ events \in Seq(Found) /\ Len(events) <= MaxEvents /\ n \in 1 .. Len(events)
      /\ k \in Keys /\ events[n].key = k
  BY <1>1, <1>2, EventKey DEF PollSound, PollRecords, Outside, Event
<1>4. PICK r : r = IF n + 1 > Len(events) THEN PollIdle
                   ELSE [PollIdle EXCEPT !.pc = "dispatch", !.events = events, !.next = n + 1]
  OBVIOUS
<1>5. poll' = [poll EXCEPT ![t] = r] /\ refs' = LessRef(k)
  BY <1>1, <1>4 DEF Deref
<1>6. /\ PollSound(r) /\ ~Lockholding(r) /\ r.pc \in {"idle", "dispatch"}
      /\ r.events = IF n + 1 > Len(events) THEN <<>> ELSE events
      /\ n + 1 <= Len(events) => r.next = n + 1
  <2>1. PICK next : next = n + 1
    OBVIOUS
  <2>2. next \in Nat \ {0}
    BY <1>3, <2>1
  <2>3. r = IF next > Len(events) THEN PollIdle
            ELSE [PollIdle EXCEPT !.pc = "dispatch", !.events = events, !.next = next]
    BY <1>4, <2>1
  <2>4. /\ PollSound(r) /\ ~Lockholding(r) /\ r.pc \in {"idle", "dispatch"}
        /\ r.events = IF next > Len(events) THEN <<>> ELSE events
        /\ next <= Len(events) => r.next = next
    BY <1>3, <2>2, <2>3, AtEvents, ZenonT(30)
  <2> QED
    BY <2>1, <2>4
<1>7. UNCHANGED <<active_list, closing_list, free_list, count, fdset, key, list, op, lock, sock,
                  api>>
  BY DEF Deref, queue
<1>8. /\ TInv' /\ LInv' /\ FInv' /\ WInv' /\ SetsSound'
      /\ poll'[t] = r /\ \A u \in Threads \ {t} : poll'[u] = poll[u]
  <2>1. refs' \in [Groups -> Int]
    BY <1>2, <1>5 DEF LessRef, TInv
  <2>2. ~Lockholding(poll[t]) /\ SameKeys
    BY <1>2, <1>7 DEF Lockholding, SameKeys
  <2>3. active_list' \subseteq Keys /\ closing_list' \subseteq Keys /\ key' \in [Keys -> KeyRecords]
    BY <1>2, <1>7 DEF TInv
  <2> QED
    BY <1>2, <1>5, <1>6, <1>7, <2>1, <2>2, <2>3, PollFree
<1>9. /\ Unfinished(t)' = Unfinished(t) /\ Unpassed(t)' = Unpassed(t) \ {n}
      /\ \A i \in Unpassed(t)' : poll'[t].events = events
      /\ \A i \in Unfinished(t)' : poll'[t].events = events
      /\ n \in Unpassed(t)
      /\ \A u \in Threads \ {t} : /\ Unfinished(u)' = Unfinished(u)
                                  /\ Unpassed(u)' = Unpassed(u)
  <2>1. /\ DOMAIN events = 1 .. Len(events) /\ n \in Nat /\ Len(events) \in Nat
        /\ DOMAIN <<>> = {}
    BY <1>3
  <2>2. /\ Unfinished(t) = {i \in 1 .. Len(events) : i > n}
        /\ Unpassed(t) = {i \in 1 .. Len(events) : i >= n}
    BY <1>1, <1>2, <2>1 DEF Unfinished, Unpassed, At
  <2>3. \A u \in Threads \ {t} : Unfinished(u)' = Unfinished(u) /\ Unpassed(u)' = Unpassed(u)
    BY <1>8 DEF Unfinished, Unpassed, At
  <2>4. CASE n + 1 > Len(events)
    <3>1. poll'[t].events = <<>>
      BY <1>6, <1>8, <2>4
    <3>2. Unfinished(t)' = {} /\ Unpassed(t)' = {}
      BY <2>1, <3>1 DEF Unfinished, Unpassed
    <3> QED
      BY <1>3, <2>1, <2>2, <2>3, <2>4, <3>2
  <2>5. CASE ~(n + 1 > Len(events))
    <3>1. poll'[t].events = events /\ poll'[t].next = n + 1 /\ poll'[t].pc # "deref"
      BY <1>3, <1>6, <1>8, <2>5
    <3>2. /\ Unfinished(t)' = {i \in 1 .. Len(events) : i > n + 1 \/ i = n + 1}
          /\ Unpassed(t)' = {i \in 1 .. Len(events) : i >= n + 1}
      BY <2>1, <3>1 DEF Unfinished, Unpassed, At
    <3> QED
      BY <1>3, <2>1, <2>2, <2>3, <3>1, <3>2
  <2> QED
    BY <2>4, <2>5
<1>10. \A j : Held(j)' = Held(j)
  BY <1>1, <1>8, <1>9 DEF Held, Slots
<1>11. \A g : Passing(g)' = Passing(g) \ {<<t, n>>}
  BY <1>1, <1>7, <1>8, <1>9 DEF Passing, Slots
<1>12. \A g : <<t, n>> \in Passing(g) <=> key[k].grp_lock = g
  <2>1. n \in 1 .. MaxEvents
    BY <1>3, Constants
  <2> QED
    BY <1>1, <1>3, <1>9, <2>1 DEF Passing, Slots
<1>13. RefCountExact'
  <2>1. KeyCounts'
    BY <1>2, <1>7, <1>10 DEF KeyCounts, Registered, IsOpen, One
  <2>2. KeyLists'
    BY <1>2, <1>7 DEF KeyLists, Open
  <2>3. (RefCountExact <=> KeyCounts /\ KeyLists)'
    BY Exact, PTL
  <2> QED
    BY <2>1, <2>2, <2>3
<1>14. GroupRefsExact'
  <2>1. \A g : Owned(g)' = Owned(g)
    BY <1>7 DEF Owned, Registered, IsOpen, InUnlock
  <2>2. ASSUME NEW g \in Groups
        PROVE  refs'[g] = Cardinality(Owned(g))' + Cardinality(Passing(g))'
    <3>1. refs[g] = Cardinality(Owned(g)) + Cardinality(Passing(g))
      BY <1>2 DEF GroupCounts
    <3>2. Cardinality(Passing(g))' = IF key[k].grp_lock = g THEN Cardinality(Passing(g)) - 1
                                     ELSE Cardinality(Passing(g))
      BY <1>11, <1>12, FiniteSlots, FS_RemoveElement
    <3>3. refs'[g] = IF key[k].grp_lock = g THEN refs[g] - 1 ELSE refs[g]
      BY <1>5 DEF LessRef
    <3>4. Cardinality(Owned(g))' = Cardinality(Owned(g))
      BY <2>1
    <3> QED
      BY <3>1, <3>2, <3>3, <3>4, FiniteSlots
  <2>3. (GroupRefsExact <=> GroupCounts)'
    BY Exact, PTL
  <2> QED
    BY <2>2, <2>3 DEF GroupCounts
<1> QED
  BY <1>8, <1>13, <1>14 DEF IInv

(* As many pairs with a thread as there are indices.                       *)
LEMMA PairCardinality ==
  ASSUME NEW S, IsFiniteSet(S), NEW t, NEW P, \A x : x \in P <=> \E i \in S : x = <<t, i>>
  PROVE  IsFiniteSet(P) /\ Cardinality(P) = Cardinality(S)
<1>1. PICK f : f = [i \in S |-> <<t, i>>]
  OBVIOUS
<1>2. f \in [S -> P] /\ (\A i, j \in S : f[i] = f[j] => i = j) /\ \A x \in P : \E i \in S : f[i] = x
  BY <1>1
<1>3. f \in Bijection(S, P)
  BY <1>2 DEF Bijection, Injection, Surjection, IsInjective
<1> QED
  BY <1>3, FS_Bijection DEF ExistsBijection

(* What the scan collects: events of active keys, MaxEvents at most.       *)
LEMMA CandidateTypes ==
  ASSUME TInv, NEW sets, NEW events \in Candidates(sets)
  PROVE  /\ events \in Seq(Found) /\ Len(events) <= MaxEvents
         /\ \A i \in DOMAIN events : events[i].key \in active_list
<1>1. PICK found, n : /\ found \subseteq [key : active_list, event : Events]
                      /\ n = Least(MaxEvents, Cardinality(found)) /\ IsFiniteSet(found)
                      /\ events \in [1 .. n -> found]
  <2>1. PICK found : /\ found = {c \in [key : active_list, event : Events] :
                                   HasEvent(c.key, c.event, sets)}
    OBVIOUS
  <2>2. events \in [1 .. Least(MaxEvents, Cardinality(found)) -> found]
    BY <2>1 DEF Candidates
  <2>3. IsFiniteSet(found)
    <3>1. IsFiniteSet(active_list) /\ active_list \subseteq Keys
      BY Constants, FS_Subset DEF TInv
    <3>2. IsFiniteSet(Events)
      <4>1. IsFiniteSet({"READABLE"})
        BY FS_Singleton
      <4>2. IsFiniteSet({"READABLE"} \cup {"WRITEABLE"})
        BY <4>1, FS_AddElement
      <4>3. IsFiniteSet(({"READABLE"} \cup {"WRITEABLE"}) \cup {"EXCEPTION"})
        BY <4>2, FS_AddElement
      <4>4. ({"READABLE"} \cup {"WRITEABLE"}) \cup {"EXCEPTION"} = Events
        BY DEF Events
      <4> QED
        BY <4>3, <4>4
    <3>3. IsFiniteSet(active_list \X Events)
      BY <3>1, <3>2, FS_Product
    <3>4. PICK f : f = [x \in active_list \X Events |-> [key |-> x[1], event |-> x[2]]]
      OBVIOUS
    <3>5. f \in Surjection(active_list \X Events, [key : active_list, event : Events])
      <4>1. f \in [active_list \X Events -> [key : active_list, event : Events]]
        BY <3>4
      <4>2. ASSUME NEW c \in [key : active_list, event : Events]
            PROVE  \E x \in active_list \X Events : f[x] = c
        <5>1. <<c.key, c.event>> \in active_list \X Events
          OBVIOUS
        <5>2. f[<<c.key, c.event>>] = [key |-> c.key, event |-> c.event]
          BY <3>4, <5>1
        <5>3. c = [key |-> c.key, event |-> c.event]
          OBVIOUS
        <5> QED
          BY <5>1, <5>2, <5>3
      <4> QED
        BY <4>1, <4>2 DEF Surjection
    <3>6. IsFiniteSet([key : active_list, event : Events])
      BY <3>3, <3>5, FS_Surjection
    <3> QED
      BY <2>1, <3>6, FS_Subset
  <2> QED
    BY <2>1, <2>2, <2>3
<1>2. n \in Nat /\ n <= MaxEvents
  BY <1>1, FS_CardinalityType, Constants DEF Least
<1>3. found \subseteq Found
  BY <1>1 DEF TInv, Found
<1>4. events \in Seq(Found) /\ Len(events) = n
  BY <1>1, <1>2, <1>3
<1>5. \A i \in DOMAIN events : events[i] \in found
  BY <1>1
<1> QED
  BY <1>1, <1>2, <1>4, <1>5

(* Collect: a reference for each event that was found.                     *)
LEMMA CollectStep ==
  ASSUME IInv, NEW t \in Threads, Collect(t)
  PROVE  IInv'
<1>1. PICK events \in Candidates(poll[t].sets) :
        /\ Counted(events)
        /\ poll' = [poll EXCEPT ![t] = IF events = <<>> THEN PollIdle
                        ELSE [PollIdle EXCEPT !.pc = "dispatch", !.events = events]]
  BY DEF Collect
<1>2. /\ TInv /\ FInv /\ KeyLists /\ KeyCounts /\ GroupCounts
      /\ poll[t].pc = "collect" /\ api[t].pc = "idle"
      /\ PollSound(poll[t]) /\ poll[t].events = <<>>
  <2>1. poll[t].pc = "collect" /\ TInv
    BY DEF IInv, Collect
  <2>2. PollSound(poll[t]) /\ api[t].pc = "idle"
    BY <2>1 DEF TInv
  <2> QED
    BY <2>1, <2>2, Exact DEF IInv, Outside, PollSound
<1>3. /\ events \in Seq(Found) /\ Len(events) <= MaxEvents
      /\ \A i \in DOMAIN events : events[i].key \in active_list
  BY <1>2, CandidateTypes
<1>4. UNCHANGED <<active_list, closing_list, free_list, count, fdset, list, op, lock, sock, api>>
  BY DEF Collect, queue
<1>5. PICK r : r = IF events = <<>> THEN PollIdle
                   ELSE [PollIdle EXCEPT !.pc = "dispatch", !.events = events]
  OBVIOUS
<1>6. /\ PollSound(r) /\ ~Lockholding(r) /\ r.pc \in {"idle", "dispatch"}
      /\ r.events = events /\ (events # <<>> => r.next = 1)
  <2>1. PollIdle.next = 1 /\ PollIdle \in PollRecords /\ PollIdle.pc = "idle"
        /\ PollSound(PollIdle) /\ PollIdle.events = <<>>
    BY IdleSound DEF PollIdle, PollSound
  <2>2. CASE events = <<>>
    BY <1>5, <2>1, <2>2 DEF Lockholding
  <2>3. CASE events # <<>>
    <3>1. r = [PollIdle EXCEPT !.pc = "dispatch", !.events = events]
      BY <1>5, <2>3
    <3>2. r \in PollRecords /\ r.pc = "dispatch" /\ r.events = events /\ r.next = 1
      BY <1>3, <2>1, <3>1 DEF PollRecords
    <3>3. 1 \in 1 .. Len(events)
      BY <1>3, <2>3
    <3> QED
      BY <1>3, <3>2, <3>3 DEF PollSound, Outside, Lockholding
  <2> QED
    BY <2>2, <2>3
<1>7. poll' = [poll EXCEPT ![t] = r]
  BY <1>1, <1>5
<1>8. DOMAIN events = 1 .. Len(events) /\ IsFiniteSet(DOMAIN events)
  <2>1. DOMAIN events = 1 .. Len(events) /\ Len(events) \in Nat
    BY <1>3
  <2> QED
    BY <2>1, FS_Interval
<1>9. /\ \A k : EventsOn(events, k) \in Nat
      /\ \A g : GroupEvents(events, g) \in Nat
  <2>1. \A S \in SUBSET DOMAIN events : Cardinality(S) \in Nat
    BY <1>8, FS_Subset, FS_CardinalityType
  <2> QED
    BY <2>1 DEF EventsOn, GroupEvents
<1>10. /\ key' \in [Keys -> KeyRecords] /\ SameKeys
       /\ \A k \in Keys : key'[k].ref_count = key[k].ref_count + EventsOn(events, k)
  <2>1. key \in [Keys -> KeyRecords]
    BY <1>2 DEF TInv
  <2>2. ASSUME NEW k \in Keys
        PROVE  /\ key'[k] \in KeyRecords
               /\ key'[k].fd = key[k].fd /\ key'[k].closing = key[k].closing
               /\ key'[k].grp_lock = key[k].grp_lock
               /\ key'[k].ref_count = key[k].ref_count + EventsOn(events, k)
    <3>1. PICK n : n = key[k].ref_count + EventsOn(events, k)
      OBVIOUS
    <3>2. n \in Int /\ key[k] \in KeyRecords
      BY <1>2, <1>9, <2>1, <3>1, KeyFields
    <3>3. PICK q : q = [key[k] EXCEPT !.ref_count = n]
      OBVIOUS
    <3>4. /\ q \in KeyRecords /\ q.fd = key[k].fd /\ q.closing = key[k].closing
          /\ q.grp_lock = key[k].grp_lock /\ q.ref_count = n
      BY <3>2, <3>3 DEF KeyRecords
    <3>5. key'[k] = q
      BY <1>1, <3>1, <3>3 DEF Counted
    <3> QED
      BY <3>1, <3>4, <3>5
  <2>3. key' \in [Keys -> KeyRecords]
    BY <1>1, <2>2 DEF Counted
  <2> QED
    BY <2>2, <2>3 DEF SameKeys
<1>11. /\ refs' \in [Groups -> Int]
       /\ \A g \in Groups : refs'[g] = refs[g] + GroupEvents(events, g)
  <2>1. refs \in [Groups -> Int]
    BY <1>2 DEF TInv
  <2>2. refs' = [g \in Groups |-> refs[g] + GroupEvents(events, g)]
    BY <1>1 DEF Counted
  <2> QED
    BY <1>9, <2>1, <2>2
<1>12. /\ TInv' /\ LInv' /\ FInv' /\ WInv' /\ SetsSound'
       /\ poll'[t] = r /\ \A u \in Threads \ {t} : poll'[u] = poll[u]
  <2>1. ~Lockholding(poll[t]) /\ r.pc # "deref" /\ r.pc # "send"
    BY <1>2, <1>6 DEF Lockholding
  <2>2. active_list' \subseteq Keys /\ closing_list' \subseteq Keys
    BY <1>2, <1>4 DEF TInv
  <2> QED
    BY <1>2, <1>4, <1>6, <1>7, <1>10, <1>11, <2>1, <2>2, PollFree
<1>13. /\ Unfinished(t) = {} /\ Unpassed(t) = {}
       /\ Unfinished(t)' = DOMAIN events /\ Unpassed(t)' = DOMAIN events
       /\ poll'[t].events = events
       /\ \A u \in Threads \ {t} : /\ Unfinished(u)' = Unfinished(u)
                                   /\ Unpassed(u)' = Unpassed(u)
  <2>1. DOMAIN poll[t].events = {}
    BY <1>2
  <2>2. poll'[t].events = events /\ poll'[t].pc # "deref"
    BY <1>6, <1>12
  <2>3. ASSUME NEW i \in DOMAIN events
        PROVE  poll'[t].next = 1 /\ i \in Nat /\ i >= 1
    BY <1>3, <1>6, <1>8, <1>12, <2>3
  <2>4. Unfinished(t)' = DOMAIN events /\ Unpassed(t)' = DOMAIN events
    BY <2>2, <2>3 DEF Unfinished, Unpassed, At
  <2> QED
    BY <1>12, <2>1, <2>2, <2>4 DEF Unfinished, Unpassed, At
<1>14. DOMAIN events \subseteq 1 .. MaxEvents
  BY <1>3, <1>8, Constants
<1>15. SameCalls
  BY <1>4 DEF SameCalls
<1>16. ASSUME NEW k \in Keys
       PROVE  Cardinality(Held(k))' = Cardinality(Held(k)) + EventsOn(events, k)
  <2>1. PICK S, P : S = {i \in DOMAIN events : events[i].key = k} /\ P = {<<t, i>> : i \in S}
    OBVIOUS
  <2>2. IsFiniteSet(S) /\ EventsOn(events, k) = Cardinality(S)
    BY <1>8, <2>1, FS_Subset DEF EventsOn
  <2>3. IsFiniteSet(P) /\ Cardinality(P) = Cardinality(S)
    <3>1. \A x : x \in P <=> \E i \in S : x = <<t, i>>
      BY <2>1
    <3> QED
      BY <2>2, <3>1, PairCardinality
  <2>4. Held(k)' = Held(k) \cup P
    BY <1>12, <1>13, <1>14, <2>1 DEF Held, Slots
  <2>5. Held(k) \cap P = {}
    BY <1>13, <2>1 DEF Held
  <2>6. Cardinality(Held(k) \cup P) = Cardinality(Held(k)) + Cardinality(P) - Cardinality({})
    BY <2>3, <2>5, FiniteSlots, FS_Union
  <2> QED
    BY <2>2, <2>3, <2>4, <2>6, FiniteSlots, FS_EmptySet, FS_CardinalityType
<1>17. ASSUME NEW g \in Groups
       PROVE  Cardinality(Passing(g))' = Cardinality(Passing(g)) + GroupEvents(events, g)
  <2>1. PICK S, P : /\ S = {i \in DOMAIN events : key[events[i].key].grp_lock = g}
                    /\ P = {<<t, i>> : i \in S}
    OBVIOUS
  <2>2. IsFiniteSet(S) /\ GroupEvents(events, g) = Cardinality(S)
    BY <1>8, <2>1, FS_Subset DEF GroupEvents
  <2>3. IsFiniteSet(P) /\ Cardinality(P) = Cardinality(S)
    <3>1. \A x : x \in P <=> \E i \in S : x = <<t, i>>
      BY <2>1
    <3> QED
      BY <2>2, <3>1, PairCardinality
  <2>4. Passing(g)' = Passing(g) \cup P
    <3>1. \A i \in DOMAIN events : events[i].key \in Keys
      BY <1>2, <1>3 DEF TInv
    <3>2. ASSUME NEW x \in Slots, x[2] \in Unpassed(x[1])'
          PROVE  key'[poll'[x[1]].events[x[2]].key].grp_lock
                   = key[poll'[x[1]].events[x[2]].key].grp_lock
      <4>1. CASE x[1] = t
        BY <1>10, <1>13, <3>1, <3>2, <4>1 DEF SameKeys
      <4>2. CASE x[1] # t
        <5>1. x[1] \in Threads \ {t}
          BY <4>2 DEF Slots
        <5>2. poll[x[1]].events[x[2]].key \in Keys
          BY <1>2, <1>13, <3>2, <5>1, UnpassedKeys
        <5> QED
          BY <1>10, <1>12, <5>1, <5>2 DEF SameKeys
      <4> QED
        BY <4>1, <4>2
    <3>3. \A x \in Slots : x \in Passing(g)' <=> x \in Passing(g) \/ x \in P
      <4>1. ASSUME NEW x \in Slots, x[1] = t
            PROVE  x \in Passing(g)' <=> x \in Passing(g) \/ x \in P
        <5>1. x \notin Passing(g)
          BY <1>13, <4>1 DEF Passing
        <5>2. x = <<t, x[2]>>
          BY <4>1 DEF Slots
        <5>3. x \in P <=> x[2] \in S
          BY <2>1, <5>2
        <5>4. x \in Passing(g)' <=> x[2] \in Unpassed(t)' /\ key'[poll'[t].events[x[2]].key].grp_lock = g
          BY <4>1 DEF Passing, Slots
        <5>5. x \in Passing(g)' <=> x[2] \in DOMAIN events /\ key'[events[x[2]].key].grp_lock = g
          BY <1>13, <5>4
        <5>6. x[2] \in DOMAIN events => key'[events[x[2]].key].grp_lock = key[events[x[2]].key].grp_lock
          BY <1>13, <3>2, <4>1
        <5> QED
          BY <2>1, <5>1, <5>3, <5>5, <5>6
      <4>2. ASSUME NEW x \in Slots, x[1] # t
            PROVE  x \in Passing(g)' <=> x \in Passing(g) \/ x \in P
        <5>1. x[1] \in Threads \ {t}
          BY <4>2 DEF Slots
        <5>2. x \notin P
          BY <2>1, <4>2
        <5>3. Unpassed(x[1])' = Unpassed(x[1]) /\ poll'[x[1]] = poll[x[1]]
          BY <1>12, <1>13, <5>1
        <5>4. x \in Passing(g)' <=> x \in Passing(g)
          BY <3>2, <5>3 DEF Passing, Slots
        <5> QED
          BY <5>2, <5>4
      <4> QED
        BY <4>1, <4>2
    <3>4. P \subseteq Slots
      BY <1>14, <2>1 DEF Slots
    <3> QED
      BY <3>3, <3>4 DEF Passing
  <2>5. Passing(g) \cap P = {}
    BY <1>13, <2>1 DEF Passing
  <2>6. Cardinality(Passing(g) \cup P)
          = Cardinality(Passing(g)) + Cardinality(P) - Cardinality({})
    BY <2>3, <2>5, FiniteSlots, FS_Union
  <2> QED
    BY <2>2, <2>3, <2>4, <2>6, FiniteSlots, FS_EmptySet, FS_CardinalityType
<1>18. KeyCounts'
  <2>1. \A k \in Keys : One(Registered(k))' = One(Registered(k)) /\ One(Registered(k)) \in {0, 1}
    BY <1>10, <1>15, SameRegistered DEF One
  <2>2. ASSUME NEW k \in Keys
        PROVE  key'[k].ref_count = One(Registered(k))' + Cardinality(Held(k))'
    BY <1>2, <1>9, <1>10, <1>16, <2>1, FiniteSlots DEF KeyCounts
  <2> QED
    BY <2>2 DEF KeyCounts
<1>19. KeyLists'
  <2>1. ASSUME NEW k \in Keys
        PROVE  key'[k].ref_count > 0 <=> key[k].ref_count > 0
    <3>1. key[k].ref_count = One(Registered(k)) + Cardinality(Held(k))
      BY <1>2 DEF KeyCounts
    <3>2. Cardinality(Held(k)) \in Nat /\ One(Registered(k)) \in {0, 1}
      BY FiniteSlots DEF One
    <3>3. CASE EventsOn(events, k) = 0
      BY <1>10, <3>1, <3>2, <3>3
    <3>4. CASE EventsOn(events, k) # 0
      <4>1. PICK S : S = {i \in DOMAIN events : events[i].key = k}
        OBVIOUS
      <4>2. S # {}
        BY <3>4, <4>1, FS_EmptySet DEF EventsOn
      <4>3. k \in active_list
        BY <1>3, <4>1, <4>2
      <4>4. key[k].ref_count > 0
        BY <1>2, <4>3 DEF KeyLists
      <4> QED
        BY <1>9, <1>10, <3>1, <3>2, <4>4
    <3> QED
      BY <3>3, <3>4
  <2>2. Open' = Open
    BY <1>10 DEF Open, SameKeys
  <2> QED
    BY <1>2, <1>4, <2>1, <2>2 DEF KeyLists
<1>20. GroupCounts'
  <2>1. \A g : Owned(g)' = Owned(g)
    BY <1>10, <1>15, SameRegistered DEF Owned, SameKeys
  <2>2. ASSUME NEW g \in Groups
        PROVE  refs'[g] = Cardinality(Owned(g))' + Cardinality(Passing(g))'
    <3>1. Cardinality(Owned(g))' = Cardinality(Owned(g))
      BY <2>1
    <3> QED
      BY <1>2, <1>9, <1>11, <1>17, <3>1, FiniteSlots DEF GroupCounts
  <2> QED
    BY <2>2 DEF GroupCounts
<1>21. (RefCountExact <=> KeyCounts /\ KeyLists)' /\ (GroupRefsExact <=> GroupCounts)'
  BY Exact, PTL
<1> QED
  BY <1>12, <1>18, <1>19, <1>20, <1>21 DEF IInv

-----------------------------------------------------------------------------
(* Steps of the network, and calls that return at once.                    *)
LEMMA DataStep ==
  ASSUME IInv, UNCHANGED <<queue, fdset, key, list, lock, refs, poll, api>>,
         op' \in [Ops -> OpRecords], sock' \in [Fds -> SockRecords],
         \A f \in Fds : sock'[f].open = sock[f].open /\ sock'[f].type = sock[f].type
  PROVE  IInv'
<1>1. TInv /\ LInv /\ FInv /\ WInv /\ RefCountExact /\ GroupRefsExact /\ SetsSound
  BY DEF IInv
<1>2. SameKeys /\ SameCounts /\ SameLists /\ SameCalls /\ SamePolls
  BY DEF queue, SameKeys, SameCounts, SameLists, SameCalls, SamePolls, Unfinished, Unpassed, At
<1>3. RefCountExact' /\ GroupRefsExact'
  BY <1>1, <1>2, QuietCounts DEF Quiet
<1>4. LInv'
  BY <1>1, HoldsSame, LocksSame
<1>5. TInv'
  <2>1. \A u \in Threads : /\ PollSound(poll[u])' /\ ApiSound(api[u])'
                           /\ api'[u].pc # "idle" => poll'[u].pc \in {"idle", "callback"}
    BY <1>1 DEF TInv, PollSound, ApiSound, KeepsLock
  <2> QED
    BY <1>1, <2>1 DEF TInv, queue
<1>6. FInv'
  BY <1>1 DEF FInv, queue, Event
<1>7. WInv'
  <2>1. WritesKept(NoThread)
    BY DEF WritesKept
  <2> QED
    BY <1>1, <1>2, <2>1, KeptWrites, Constants DEF SameKeys
<1>8. SetsSound'
  BY <1>1 DEF SetsSound
<1> QED
  BY <1>3, <1>4, <1>5, <1>6, <1>7, <1>8 DEF IInv

(* The members of a socket.                                                *)
LEMMA SockFields ==
  ASSUME TInv, NEW f \in Fds
  PROVE  /\ sock[f] \in SockRecords /\ sock \in [Fds -> SockRecords]
         /\ sock[f].data \in 0 .. MaxData /\ sock[f].room \in 0 .. MaxRoom
         /\ \A n \in 0 .. MaxData : [sock[f] EXCEPT !.data = n] \in SockRecords
         /\ \A n \in 0 .. MaxRoom : [sock[f] EXCEPT !.room = n] \in SockRecords
         /\ \A c \in {"pending", "up", "failed"} : [sock[f] EXCEPT !.conn = c] \in SockRecords
<1>1. sock[f] \in SockRecords /\ sock \in [Fds -> SockRecords]
  BY DEF TInv
<1> QED
  BY <1>1 DEF SockRecords

(* A socket of which only the data, the room or the connection changed.    *)
LEMMA SockKept ==
  ASSUME TInv, NEW f \in Fds,
         \/ \E n \in 0 .. MaxData : sock' = [sock EXCEPT ![f].data = n]
         \/ \E n \in 0 .. MaxRoom : sock' = [sock EXCEPT ![f].room = n]
         \/ \E c \in {"pending", "up", "failed"} : sock' = [sock EXCEPT ![f].conn = c]
  PROVE  /\ sock' \in [Fds -> SockRecords]
         /\ \A h \in Fds : sock'[h].open = sock[h].open /\ sock'[h].type = sock[h].type
<1>1. PICK r \in SockRecords : /\ sock' = [sock EXCEPT ![f] = r]
                               /\ r.open = sock[f].open /\ r.type = sock[f].type
  <2>1. CASE \E n \in 0 .. MaxData : sock' = [sock EXCEPT ![f].data = n]
    <3>1. PICK n \in 0 .. MaxData : sock' = [sock EXCEPT ![f].data = n]
      BY <2>1
    <3>2. PICK r : r = [sock[f] EXCEPT !.data = n]
      OBVIOUS
    <3>3. r \in SockRecords /\ r.open = sock[f].open /\ r.type = sock[f].type
      <4>1. r \in SockRecords /\ sock[f] \in SockRecords
        BY <3>2, SockFields
      <4> QED
        BY <3>2, <4>1 DEF SockRecords
    <3> QED
      BY <3>1, <3>2, <3>3
  <2>2. CASE \E n \in 0 .. MaxRoom : sock' = [sock EXCEPT ![f].room = n]
    <3>1. PICK n \in 0 .. MaxRoom : sock' = [sock EXCEPT ![f].room = n]
      BY <2>2
    <3>2. PICK r : r = [sock[f] EXCEPT !.room = n]
      OBVIOUS
    <3>3. r \in SockRecords /\ r.open = sock[f].open /\ r.type = sock[f].type
      <4>1. r \in SockRecords /\ sock[f] \in SockRecords
        BY <3>2, SockFields
      <4> QED
        BY <3>2, <4>1 DEF SockRecords
    <3> QED
      BY <3>1, <3>2, <3>3
  <2>3. CASE \E c \in {"pending", "up", "failed"} : sock' = [sock EXCEPT ![f].conn = c]
    <3>1. PICK c \in {"pending", "up", "failed"} : sock' = [sock EXCEPT ![f].conn = c]
      BY <2>3
    <3>2. PICK r : r = [sock[f] EXCEPT !.conn = c]
      OBVIOUS
    <3>3. r \in SockRecords /\ r.open = sock[f].open /\ r.type = sock[f].type
      <4>1. r \in SockRecords /\ sock[f] \in SockRecords
        BY <3>2, SockFields
      <4> QED
        BY <3>2, <4>1 DEF SockRecords
    <3> QED
      BY <3>1, <3>2, <3>3
  <2> QED
    BY <2>1, <2>2, <2>3
<1>2. sock \in [Fds -> SockRecords]
  BY DEF TInv
<1> QED
  BY <1>1, <1>2

(* The network changes no socket but in its data.                          *)
LEMMA NetworkStep ==
  ASSUME IInv, NEW f \in Fds, Network(f)
  PROVE  IInv'
<1>1. TInv
  BY DEF IInv
<1>2. sock[f].data \in 0 .. MaxData /\ sock[f].room \in 0 .. MaxRoom
  BY <1>1, SockFields
<1>3. \/ \E n \in 0 .. MaxData : sock' = [sock EXCEPT ![f].data = n]
      \/ \E n \in 0 .. MaxRoom : sock' = [sock EXCEPT ![f].room = n]
      \/ \E c \in {"pending", "up", "failed"} : sock' = [sock EXCEPT ![f].conn = c]
  <2>1. CASE Arrive(f)
    <3>1. sock[f].data + 1 \in 0 .. MaxData /\ sock' = [sock EXCEPT ![f].data = sock[f].data + 1]
      BY <1>2, <2>1, Constants DEF Arrive
    <3> QED
      BY <3>1
  <2>2. CASE Drain(f)
    <3>1. sock[f].room + 1 \in 0 .. MaxRoom /\ sock' = [sock EXCEPT ![f].room = sock[f].room + 1]
      BY <1>2, <2>2, Constants DEF Drain
    <3> QED
      BY <3>1
  <2>3. CASE ConnectEnds(f)
    BY <2>3 DEF ConnectEnds
  <2> QED
    BY <2>1, <2>2, <2>3 DEF Network
<1>4. /\ sock' \in [Fds -> SockRecords]
      /\ \A h \in Fds : sock'[h].open = sock[h].open /\ sock'[h].type = sock[h].type
  BY <1>1, <1>3, SockKept
<1> QED
  BY <1>1, <1>4, DataStep DEF Network, TInv

(* ReceiveNow.                                                             *)
LEMMA ReceiveNowStep ==
  ASSUME IInv, NEW t \in Threads, NEW k \in Keys, ReceiveNow(t, k)
  PROVE  IInv'
<1>1. PICK f : f = key[k].fd
  OBVIOUS
<1>2. TInv /\ f \in Fds
  BY <1>1, OpenKey DEF IInv, ReceiveNow
<1>3. /\ sock[f].data \in 0 .. MaxData /\ sock[f].data > 0
      /\ sock' = [sock EXCEPT ![f].data = sock[f].data - 1]
  BY <1>1, <1>2, SockFields DEF ReceiveNow
<1>4. sock[f].data - 1 \in 0 .. MaxData
  BY <1>3, Constants
<1>5. /\ sock' \in [Fds -> SockRecords]
      /\ \A h \in Fds : sock'[h].open = sock[h].open /\ sock'[h].type = sock[h].type
  BY <1>2, <1>3, <1>4, SockKept
<1> QED
  BY <1>2, <1>5, DataStep DEF ReceiveNow, TInv

(* OpKeyInit.                                                              *)
LEMMA OpKeyInitStep ==
  ASSUME IInv, NEW t \in Threads, NEW o \in Ops, OpKeyInit(t, o)
  PROVE  IInv'
<1>1. op \in [Ops -> OpRecords] /\ sock \in [Fds -> SockRecords] /\ NoKind \in OpRecords
  BY Constants DEF IInv, TInv, NoKind, OpRecords
<1>2. op' \in [Ops -> OpRecords]
  BY <1>1 DEF OpKeyInit
<1>3. sock' = sock
  BY DEF OpKeyInit
<1> QED
  BY <1>1, <1>2, <1>3, DataStep DEF OpKeyInit

-----------------------------------------------------------------------------
(* The steps of a call, one by one.                                        *)
LEMMA Calling ==
  ASSUME TInv, NEW t \in Threads
  PROVE  /\ api[t] \in ApiRecords /\ ApiSound(api[t]) /\ api \in [Threads -> ApiRecords]
         /\ api[t].pc # "idle" => /\ poll[t].pc \in {"idle", "callback"} /\ poll[t].pc # "send"
                                  /\ api[t].key \in Keys
         /\ \A call : MayCall(t, call) =>
              /\ api[t].pc = "idle" /\ poll[t].pc \in {"idle", "callback"} /\ poll[t].pc # "send"
<1>1. api[t] \in ApiRecords /\ ApiSound(api[t]) /\ api \in [Threads -> ApiRecords]
  BY DEF TInv
<1> QED
  BY <1>1 DEF TInv, MayCall, At, ApiSound, ApiRecords

(* A call that begins, waiting at its first place.                         *)
LEMMA Waiting ==
  ASSUME NEW k \in Keys, NEW o \in Ops \cup {NoOp}, NEW kind \in Kinds \cup {"connect", "none"},
         NEW pc \in {"unregister", "send", "queue", "add", "connect", "posted"},
         pc \in {"send", "queue", "add"} => o \in Ops /\ kind \in Kinds,
         NEW a, a = [pc |-> pc, key |-> k, op |-> o, kind |-> kind]
  PROVE  ApiSound(a) /\ a.pc = pc /\ a.key = k
<1>1. a \in ApiRecords
  BY DEF ApiRecords
<1> QED
  BY <1>1, Constants DEF ApiSound

(* A call that returned.                                                   *)
LEMMA Returning ==
  ApiSound(ApiIdle) /\ ApiIdle.pc = "idle"
  BY DEF ApiSound, ApiIdle, ApiRecords

(* A call that only changes its own place.                                 *)
LEMMA OnlyCall ==
  ASSUME IInv, NEW t \in Threads, NEW a, ApiSound(a), api' = [api EXCEPT ![t] = a],
         api[t].pc \notin {"drop", "unlock"}, a.pc \notin {"drop", "unlock"},
         a.pc # "idle" => poll[t].pc \in {"idle", "callback"} /\ a.key \notin free_list,
         poll[t].pc # "send",
         UNCHANGED <<queue, fdset, key, list, lock, refs, poll>>,
         op' \in [Ops -> OpRecords], sock' \in [Fds -> SockRecords],
         \A f \in Fds : sock'[f].open = sock[f].open /\ sock'[f].type = sock[f].type
  PROVE  IInv'
<1>1. SameKeys /\ SameCounts /\ SameLists
  BY DEF queue, SameKeys, SameCounts, SameLists
<1>2. DataSound /\ WritesKept(t)
  BY DEF IInv, TInv, DataSound, WritesKept
<1> QED
  BY <1>1, <1>2, CallStep

(* Unregister begins.                                                      *)
LEMMA UnregisterStep ==
  ASSUME IInv, NEW t \in Threads, NEW k \in Keys, Unregister(t, k)
  PROVE  IInv'
<1>1. TInv /\ op \in [Ops -> OpRecords] /\ sock \in [Fds -> SockRecords]
  BY DEF IInv, TInv
<1>2. PICK a : a = [pc |-> "unregister", key |-> k, op |-> NoOp, kind |-> "none"]
  OBVIOUS
<1>3. ApiSound(a) /\ a.pc = "unregister" /\ a.key = k
  BY <1>2, Waiting
<1>4. api[t].pc = "idle" /\ poll[t].pc \in {"idle", "callback"} /\ poll[t].pc # "send"
  BY <1>1, Calling DEF Unregister
<1>5. k \notin free_list
  BY OpenKey DEF Unregister
<1> QED
  BY <1>1, <1>2, <1>3, <1>4, <1>5, OnlyCall DEF Unregister, Waits

(* UnregisterAgain returns.                                                *)
LEMMA UnregisterAgainStep ==
  ASSUME IInv, NEW t \in Threads, UnregisterAgain(t)
  PROVE  IInv'
<1>1. TInv /\ op \in [Ops -> OpRecords] /\ sock \in [Fds -> SockRecords]
  BY DEF IInv, TInv
<1>2. api[t].pc = "unregister" /\ poll[t].pc # "send"
  BY <1>1, Calling DEF UnregisterAgain
<1> QED
  BY <1>1, <1>2, Returning, OnlyCall DEF UnregisterAgain, Returns

(* PostReturns.                                                            *)
LEMMA PostReturnsStep ==
  ASSUME IInv, NEW t \in Threads, PostReturns(t)
  PROVE  IInv'
<1>1. TInv /\ op \in [Ops -> OpRecords] /\ sock \in [Fds -> SockRecords]
  BY DEF IInv, TInv
<1>2. api[t].pc = "posted" /\ poll[t].pc # "send"
  BY <1>1, Calling DEF PostReturns
<1> QED
  BY <1>1, <1>2, Returning, OnlyCall DEF PostReturns, Returns

(* Receive begins.                                                         *)
LEMMA ReceiveStep ==
  ASSUME IInv, NEW t \in Threads, NEW k \in Keys, NEW o \in Ops, NEW kind \in {"read", "accept"},
         Receive(t, k, o, kind)
  PROVE  IInv'
<1>1. TInv /\ op \in [Ops -> OpRecords] /\ sock \in [Fds -> SockRecords]
  BY DEF IInv, TInv
<1>2. PICK a : a = [pc |-> "add", key |-> k, op |-> o, kind |-> kind]
  OBVIOUS
<1>3. ApiSound(a) /\ a.pc = "add" /\ a.key = k
  BY <1>2, Waiting DEF Kinds
<1>4. api[t].pc = "idle" /\ poll[t].pc \in {"idle", "callback"} /\ poll[t].pc # "send"
  BY <1>1, Calling DEF Receive
<1>5. k \notin free_list
  BY OpenKey DEF Receive
<1>6. op' \in [Ops -> OpRecords]
  <2>1. op[o] \in OpRecords /\ [op[o] EXCEPT !.op = kind] \in OpRecords
    BY <1>1 DEF OpRecords, Kinds
  <2> QED
    BY <1>1, <2>1 DEF Receive
<1> QED
  BY <1>1, <1>2, <1>3, <1>4, <1>5, <1>6, OnlyCall DEF Receive, Waits

(* Send begins.                                                            *)
LEMMA SendStep ==
  ASSUME IInv, NEW t \in Threads, NEW k \in Keys, NEW o \in Ops, Send(t, k, o)
  PROVE  IInv'
<1>1. TInv /\ op \in [Ops -> OpRecords] /\ sock \in [Fds -> SockRecords]
  BY DEF IInv, TInv
<1>2. PICK pc \in {"send", "queue"} : Waits(t, pc, k, o, "write")
  BY DEF Send
<1>3. PICK a : a = [pc |-> pc, key |-> k, op |-> o, kind |-> "write"]
  OBVIOUS
<1>4. ApiSound(a) /\ a.pc \in {"send", "queue"} /\ a.key = k
  BY <1>2, <1>3, Waiting DEF Kinds
<1>5. api[t].pc = "idle" /\ poll[t].pc \in {"idle", "callback"} /\ poll[t].pc # "send"
  BY <1>1, Calling DEF Send
<1>6. k \notin free_list
  BY OpenKey DEF Send
<1> QED
  BY <1>1, <1>2, <1>3, <1>4, <1>5, <1>6, OnlyCall DEF Send, Waits

(* A call that goes on with its key.                                       *)
LEMMA GoingOn ==
  ASSUME TInv, NEW t \in Threads, api[t].pc \in {"send", "queue", "add"},
         NEW pc \in {"queue", "add"}, NEW a, a = [api[t] EXCEPT !.pc = pc]
  PROVE  ApiSound(a) /\ a.pc = pc /\ a.key = api[t].key
<1>1. api[t] \in ApiRecords /\ ApiSound(api[t])
  BY Calling
<1>2. a \in ApiRecords /\ a.pc = pc /\ a.key = api[t].key /\ a.op = api[t].op
      /\ a.kind = api[t].kind
  BY <1>1 DEF ApiRecords
<1> QED
  BY <1>1, <1>2 DEF ApiSound

(* SendNow: at once, or not.                                               *)
LEMMA SendNowStep ==
  ASSUME IInv, NEW t \in Threads, SendNow(t)
  PROVE  IInv'
<1>1. TInv /\ FInv /\ op \in [Ops -> OpRecords] /\ sock \in [Fds -> SockRecords]
      /\ api \in [Threads -> ApiRecords]
  BY DEF IInv, TInv
<1>2. /\ api[t].pc = "send" /\ poll[t].pc \in {"idle", "callback"} /\ poll[t].pc # "send"
      /\ api[t].key \in Keys /\ api[t].op \in Ops
  <2>1. api[t].pc = "send"
    BY DEF SendNow
  <2> QED
    BY <1>1, <2>1, Calling DEF ApiSound
<1>3. PICK f : f = key[api[t].key].fd
  OBVIOUS
<1>4. CASE api' = [api EXCEPT ![t].pc = "queue"] /\ UNCHANGED sock
  <2>1. PICK a : a = [api[t] EXCEPT !.pc = "queue"]
    OBVIOUS
  <2>2. ApiSound(a) /\ a.pc = "queue" /\ a.key = api[t].key
    BY <1>1, <1>2, <2>1, GoingOn
  <2>3. api' = [api EXCEPT ![t] = a]
    BY <1>4, <2>1
  <2>4. a.key \notin free_list
    BY <1>1, <1>2, <2>2 DEF FInv
  <2> QED
    BY <1>1, <1>2, <1>4, <2>2, <2>3, <2>4, OnlyCall DEF SendNow
<1>5. CASE /\ sock' = IF f # NoFd /\ CanSend(f)
                      THEN [sock EXCEPT ![f].room = @ - Sent(f, OpSize)] ELSE sock
           /\ Returns(t)
  <2>1. /\ sock' \in [Fds -> SockRecords]
        /\ \A h \in Fds : sock'[h].open = sock[h].open /\ sock'[h].type = sock[h].type
    <3>1. CASE f # NoFd /\ CanSend(f)
      <4>1. f \in Fds
        BY <1>1, <1>2, <1>3, <3>1, KeyFields
      <4>2. sock[f].room - Sent(f, OpSize) \in 0 .. MaxRoom
        BY <1>1, <1>2, <3>1, <4>1, SentType
      <4>3. sock' = [sock EXCEPT ![f].room = sock[f].room - Sent(f, OpSize)]
        BY <1>5, <3>1
      <4> QED
        BY <1>1, <4>1, <4>2, <4>3, SockKept
    <3>2. CASE ~(f # NoFd /\ CanSend(f))
      BY <1>1, <1>5, <3>2
    <3> QED
      BY <3>1, <3>2
  <2> QED
    BY <1>1, <1>2, <1>5, <2>1, Returning, OnlyCall DEF SendNow, Returns
<1> QED
  BY <1>3, <1>4, <1>5 DEF SendNow

(* SendQueued: the operation is marked, or busy.                           *)
LEMMA SendQueuedStep ==
  ASSUME IInv, NEW t \in Threads, SendQueued(t)
  PROVE  IInv'
<1>1. TInv /\ FInv /\ op \in [Ops -> OpRecords] /\ sock \in [Fds -> SockRecords]
      /\ api \in [Threads -> ApiRecords]
  BY DEF IInv, TInv
<1>2. /\ api[t].pc = "queue" /\ poll[t].pc \in {"idle", "callback"} /\ poll[t].pc # "send"
      /\ api[t].key \in Keys /\ api[t].op \in Ops
  <2>1. api[t].pc = "queue"
    BY DEF SendQueued
  <2> QED
    BY <1>1, <2>1, Calling DEF ApiSound
<1>3. CASE /\ op' = [op EXCEPT ![api[t].op] = [op |-> "write", written |-> 0]]
           /\ api' = [api EXCEPT ![t].pc = "add"]
  <2>1. PICK a : a = [api[t] EXCEPT !.pc = "add"]
    OBVIOUS
  <2>2. ApiSound(a) /\ a.pc = "add" /\ a.key = api[t].key
    BY <1>1, <1>2, <2>1, GoingOn
  <2>3. api' = [api EXCEPT ![t] = a]
    BY <1>3, <2>1
  <2>4. a.key \notin free_list
    BY <1>1, <1>2, <2>2 DEF FInv
  <2>5. op' \in [Ops -> OpRecords]
    <3>1. [op |-> "write", written |-> 0] \in OpRecords
      BY Constants DEF OpRecords, Kinds
    <3> QED
      BY <1>1, <1>2, <1>3, <3>1
  <2> QED
    BY <1>1, <1>2, <2>2, <2>3, <2>4, <2>5, OnlyCall DEF SendQueued
<1>4. CASE Returns(t) /\ UNCHANGED op
  BY <1>1, <1>2, <1>4, Returning, OnlyCall DEF SendQueued, Returns
<1> QED
  BY <1>3, <1>4 DEF SendQueued

(* Connect begins.                                                         *)
LEMMA ConnectStep ==
  ASSUME IInv, NEW t \in Threads, NEW k \in Keys, Connect(t, k)
  PROVE  IInv'
<1>1. TInv /\ op \in [Ops -> OpRecords]
  BY DEF IInv, TInv
<1>2. PICK a : a = [pc |-> "connect", key |-> k, op |-> NoOp, kind |-> "connect"]
  OBVIOUS
<1>3. ApiSound(a) /\ a.pc = "connect" /\ a.key = k
  BY <1>2, Waiting
<1>4. api[t].pc = "idle" /\ poll[t].pc \in {"idle", "callback"} /\ poll[t].pc # "send"
  BY <1>1, Calling DEF Connect
<1>5. k \notin free_list /\ key[k].fd \in Fds
  BY OpenKey DEF Connect
<1>6. /\ sock' \in [Fds -> SockRecords]
      /\ \A h \in Fds : sock'[h].open = sock[h].open /\ sock'[h].type = sock[h].type
  <2>1. \E c \in {"pending", "up", "failed"} : sock' = [sock EXCEPT ![key[k].fd].conn = c]
    BY DEF Connect
  <2> QED
    BY <1>1, <1>5, <2>1, SockKept
<1> QED
  BY <1>1, <1>2, <1>3, <1>4, <1>5, <1>6, OnlyCall DEF Connect, Waits

(* A call that could lock its key and found it not closing.                *)
LEMMA CallUsable ==
  ASSUME IInv, NEW t \in Threads, api[t].pc \notin {"idle", "drop"},
         Available(t, api[t].key), ~key[api[t].key].closing
  PROVE  /\ api[t].key \in Keys /\ key[api[t].key].fd \in Fds /\ key[api[t].key].fd # NoFd
<1>1. api[t].key \in Keys /\ api[t].key \notin free_list
  BY Calling DEF IInv, FInv
<1> QED
  BY <1>1, Usable, Constants

(* The bits of a registered socket are set.                                *)
LEMMA SetBits ==
  ASSUME TInv, NEW k \in Keys, key[k].fd \in Fds, key[k].fd # NoFd, NEW events,
         fdset' = Set(key[k].fd, events)
  PROVE  /\ fdset' \in Sets
         /\ \A e \in Events : \A f \in fdset'[e] :
              f \in fdset[e] \/ (f # NoFd /\ \E j \in Keys : key[j].fd = f)
<1>1. fdset' \in Sets
  BY SetsType
<1>2. \A e \in Events : \A f \in fdset'[e] : f \in fdset[e] \/ f = key[k].fd
  BY DEF Set
<1> QED
  BY <1>1, <1>2

(* Add: the bit is set for a key that is not closing, whose socket is      *)
(* open.                                                                   *)
LEMMA AddStep ==
  ASSUME IInv, NEW t \in Threads, Add(t)
  PROVE  IInv'
<1>1. PICK k, o, kind : k = api[t].key /\ o = api[t].op /\ kind = api[t].kind
  OBVIOUS
<1>2. TInv /\ FInv
  BY DEF IInv
<1>3. /\ api[t].pc = "add" /\ Available(t, k) /\ poll[t].pc # "send" /\ Returns(t)
      /\ UNCHANGED <<queue, key, op, lock, refs, sock, poll>>
      /\ k \in Keys /\ o \in Ops /\ kind \in Kinds
  <2>1. api[t].pc = "add"
    BY DEF Add
  <2> QED
    BY <1>1, <1>2, <2>1, Calling DEF ApiSound, Add
<1>4. SameKeys /\ SameCounts /\ SameLists
  BY <1>3 DEF queue, SameKeys, SameCounts, SameLists
<1>5. CASE ClosedMeanwhile(k)
  <2>1. list' = list /\ fdset' = fdset
    BY <1>1, <1>5 DEF Add
  <2>2. DataSound /\ WritesKept(t)
    BY <1>2, <1>3, <2>1 DEF TInv, DataSound, WritesKept
  <2> QED
    BY <1>3, <1>4, <2>1, <2>2, CallStep, Returning DEF Returns
<1>6. CASE ~ClosedMeanwhile(k)
  <2>1. /\ list' = [list EXCEPT ![k][kind] = Append(@, o)]
        /\ fdset' = Set(key[k].fd, {Bit(kind)})
    BY <1>1, <1>6 DEF Add
  <2>2. key[k].fd \in Fds /\ key[k].fd # NoFd
    BY <1>1, <1>3, <1>6, CallUsable DEF ClosedMeanwhile
  <2>3. /\ fdset' \in Sets
        /\ \A e \in Events : \A f \in fdset'[e] :
             f \in fdset[e] \/ (f # NoFd /\ \E j \in Keys : key[j].fd = f)
    BY <1>2, <1>3, <2>1, <2>2, SetBits
  <2>4. list' \in [Keys -> [Kinds -> Seq(Ops)]]
    BY <1>2, <1>3, <2>1, ListTypes
  <2>5. DataSound
    BY <1>2, <1>3, <2>3, <2>4 DEF TInv, DataSound
  <2>6. WritesKept(t)
    <3>1. \A j \in Keys : list'[j]["write"] = list[j]["write"] \/ list'[j]["write"] # <<>>
      <4>1. list \in [Keys -> [Kinds -> Seq(Ops)]] /\ "write" \in Kinds
        BY <1>2 DEF TInv, Kinds
      <4>2. \A j \in Keys : j # k \/ kind # "write" => list'[j]["write"] = list[j]["write"]
        BY <1>3, <2>1, <4>1
      <4>3. kind = "write" => list'[k]["write"] = Append(list[k]["write"], o)
        BY <1>3, <2>1, <4>1
      <4>4. Append(list[k]["write"], o) # <<>>
        <5>1. ASSUME NEW s \in Seq(Ops)
              PROVE  Len(Append(s, o)) # 0
          BY <1>3, <5>1
        <5>2. list[k]["write"] \in Seq(Ops) /\ Len(<<>>) = 0
          BY <1>3, <4>1
        <5> QED
          BY <5>1, <5>2
      <4> QED
        BY <4>2, <4>3, <4>4
    <3> QED
      BY <1>3, <3>1 DEF WritesKept
  <2> QED
    BY <1>3, <1>4, <2>3, <2>5, <2>6, CallStep, Returning DEF Returns
<1> QED
  BY <1>5, <1>6

(* AddConnect: the same, for two bits.                                     *)
LEMMA AddConnectStep ==
  ASSUME IInv, NEW t \in Threads, AddConnect(t)
  PROVE  IInv'
<1>1. PICK k : k = api[t].key
  OBVIOUS
<1>2. TInv /\ FInv /\ key \in [Keys -> KeyRecords]
  BY DEF IInv, TInv
<1>3. /\ api[t].pc = "connect" /\ Available(t, k) /\ poll[t].pc # "send" /\ Returns(t)
      /\ UNCHANGED <<queue, list, op, lock, refs, sock, poll>> /\ k \in Keys
  <2>1. api[t].pc = "connect"
    BY DEF AddConnect
  <2> QED
    BY <1>1, <1>2, <2>1, Calling DEF AddConnect
<1>4. WritesKept(t) /\ SameLists
  BY <1>3 DEF WritesKept, queue, SameLists
<1>5. CASE ClosedMeanwhile(k)
  <2>1. key' = key /\ fdset' = fdset
    BY <1>1, <1>5 DEF AddConnect
  <2>2. DataSound /\ SameKeys /\ SameCounts
    BY <1>2, <1>3, <2>1 DEF TInv, DataSound, SameKeys, SameCounts
  <2> QED
    BY <1>3, <1>4, <2>1, <2>2, CallStep, Returning DEF Returns
<1>6. CASE ~ClosedMeanwhile(k)
  <2>1. /\ key' = [key EXCEPT ![k].connecting = TRUE]
        /\ fdset' = Set(key[k].fd, {"WRITEABLE", "EXCEPTION"})
    BY <1>1, <1>6 DEF AddConnect
  <2>2. key[k].fd \in Fds /\ key[k].fd # NoFd
    BY <1>1, <1>3, <1>6, CallUsable DEF ClosedMeanwhile
  <2>3. /\ fdset' \in Sets
        /\ \A e \in Events : \A f \in fdset'[e] :
             f \in fdset[e] \/ (f # NoFd /\ \E j \in Keys : key[j].fd = f)
    BY <1>2, <1>3, <2>1, <2>2, SetBits
  <2>4. key' \in [Keys -> KeyRecords] /\ SameKeys /\ SameCounts
    <3>1. PICK r : r = [key[k] EXCEPT !.connecting = TRUE]
      OBVIOUS
    <3>2. r \in KeyRecords
      BY <1>2, <1>3, <3>1, KeyWith
    <3>3. /\ r.fd = key[k].fd /\ r.closing = key[k].closing
          /\ r.ref_count = key[k].ref_count /\ r.grp_lock = key[k].grp_lock
      BY <1>2, <1>3, <3>1 DEF KeyRecords
    <3>4. key' = [key EXCEPT ![k] = r]
      BY <2>1, <3>1
    <3> QED
      BY <1>2, <1>3, <3>2, <3>3, <3>4 DEF SameKeys, SameCounts
  <2>5. DataSound
    BY <1>2, <1>3, <2>3, <2>4 DEF TInv, DataSound
  <2> QED
    BY <1>3, <1>4, <2>3, <2>4, <2>5, CallStep, Returning DEF Returns
<1> QED
  BY <1>5, <1>6

(* PostCompletion: an operation leaves its list, its bits stay.            *)
LEMMA PostCompletionStep ==
  ASSUME IInv, NEW t \in Threads, NEW k \in Keys, NEW o \in Ops, PostCompletion(t, k, o)
  PROVE  IInv'
<1>1. TInv /\ FInv /\ LInv
  BY DEF IInv
<1>2. PICK kind \in Kinds : \E i \in DOMAIN list[k][kind] :
        /\ list' = [list EXCEPT ![k][kind] = RemoveAt(@, i)]
        /\ Waits(t, "posted", k, o, kind)
  BY DEF PostCompletion
<1>3. PICK i \in DOMAIN list[k][kind] :
        /\ list' = [list EXCEPT ![k][kind] = RemoveAt(@, i)]
        /\ Waits(t, "posted", k, o, kind)
  BY <1>2
<1>4. /\ api[t].pc = "idle" /\ poll[t].pc \in {"idle", "callback"} /\ poll[t].pc # "send"
      /\ Available(t, k) /\ k \notin free_list
      /\ op' = [op EXCEPT ![o] = NoKind]
      /\ UNCHANGED <<queue, fdset, key, lock, refs, sock, poll>>
  BY <1>1, Calling, OpenKey DEF PostCompletion
<1>5. PICK a : a = [pc |-> "posted", key |-> k, op |-> o, kind |-> kind]
  OBVIOUS
<1>6. ApiSound(a) /\ a.pc = "posted" /\ a.key = k /\ api' = [api EXCEPT ![t] = a]
  BY <1>3, <1>5, Waiting DEF Waits
<1>7. list' \in [Keys -> [Kinds -> Seq(Ops)]]
  BY <1>1, <1>3, ListTypes
<1>8. DataSound
  <2>1. op' \in [Ops -> OpRecords]
    BY <1>1, <1>4, Constants DEF TInv, OpRecords, NoKind
  <2> QED
    BY <1>1, <1>4, <1>7, <2>1 DEF TInv, DataSound
<1>9. WritesKept(t)
  <2>1. \A u \in Threads \ {t} : ~Sends(u, k)
    BY <1>1, <1>4, SendsAlone
  <2>2. \A j \in Keys \ {k} : list'[j]["write"] = list[j]["write"]
    BY <1>1, <1>3 DEF TInv
  <2> QED
    BY <1>4, <2>1, <2>2 DEF WritesKept
<1>10. SameKeys /\ SameCounts /\ SameLists
  BY <1>4 DEF queue, SameKeys, SameCounts, SameLists
<1> QED
  BY <1>4, <1>6, <1>8, <1>9, <1>10, CallStep

-----------------------------------------------------------------------------
(* Unregistering, past the tests of pj_ioqueue_unregister.                 *)
LEMMA CallType ==
  ASSUME TInv, NEW t \in Threads, api[t].pc # "idle",
         NEW pc \in {"drop", "unlock"}, api' = [api EXCEPT ![t].pc = pc], poll' = poll
  PROVE  /\ api' \in [Threads -> ApiRecords]
         /\ api'[t].pc = pc /\ api'[t].key = api[t].key
         /\ \A u \in Threads \ {t} : api'[u] = api[u]
         /\ \A u \in Threads : /\ PollSound(poll[u])' /\ ApiSound(api[u])'
                               /\ api'[u].pc # "idle" => poll'[u].pc \in {"idle", "callback"}
<1>1. PICK a : a = [api[t] EXCEPT !.pc = pc]
  OBVIOUS
<1>2. api[t] \in ApiRecords /\ ApiSound(api[t]) /\ api \in [Threads -> ApiRecords]
  BY Calling
<1>3. a \in ApiRecords /\ a.pc = pc /\ a.key = api[t].key
  BY <1>1, <1>2 DEF ApiRecords
<1>4. ApiSound(a)
  BY <1>2, <1>3 DEF ApiSound
<1>5. api' = [api EXCEPT ![t] = a]
  BY <1>1
<1>6. /\ api' \in [Threads -> ApiRecords]
      /\ api'[t] = a
      /\ \A u \in Threads \ {t} : api'[u] = api[u]
  BY <1>2, <1>3, <1>5
<1>7. ASSUME NEW u \in Threads
      PROVE  /\ PollSound(poll[u])' /\ ApiSound(api[u])'
             /\ api'[u].pc # "idle" => poll'[u].pc \in {"idle", "callback"}
  <2>1. PollSound(poll[u])'
    BY DEF TInv, PollSound, KeepsLock
  <2>2. CASE u = t
    BY <1>4, <1>6, <2>1, <2>2 DEF TInv, ApiSound
  <2>3. CASE u # t
    BY <1>6, <2>1, <2>3 DEF TInv, ApiSound
  <2> QED
    BY <2>2, <2>3
<1> QED
  BY <1>3, <1>6, <1>7

(* No other thread is past the lock in unregister.                         *)
LEMMA ClosesAlone ==
  ASSUME TInv, LInv, NEW t \in Threads, NEW k \in Keys,
         Available(t, k) \/ (api[t].pc \in {"drop", "unlock"} /\ api[t].key = k)
  PROVE  \A u \in Threads \ {t} : ~(api[u].pc \in {"drop", "unlock"} /\ api[u].key = k)
<1>1. \A u \in Threads : api[u].pc \in {"drop", "unlock"} /\ api[u].key = k =>
                           lock[LockOf(k)].owner = u
  BY LockType DEF LInv, Holds, CallHolds
<1> QED
  BY <1>1, Constants DEF Available

(* UnregisterClose: the lock is taken, the socket closed, its bits         *)
(* cleared.                                                                *)
LEMMA UnregisterCloseStep ==
  ASSUME IInv, NEW t \in Threads, UnregisterClose(t)
  PROVE  IInv'
<1>1. PICK k, f : k = api[t].key /\ f = key[k].fd
  OBVIOUS
<1>2. /\ TInv /\ LInv /\ FInv /\ WInv /\ SetsSound /\ KeyLists /\ KeyCounts /\ GroupCounts
      /\ key \in [Keys -> KeyRecords] /\ sock \in [Fds -> SockRecords]
      /\ api \in [Threads -> ApiRecords]
  BY Exact DEF IInv, TInv
<1>3. /\ api[t].pc = "unregister" /\ Available(t, k) /\ ~key[k].closing
      /\ lock' = Locked(t, k)
      /\ count' = IF count > 0 THEN count - 1 ELSE count
      /\ fdset' = Cleared(f, Events) /\ sock' = [sock EXCEPT ![f] = Closed]
      /\ key' = [key EXCEPT ![k].fd = NoFd, ![k].cb = FALSE]
      /\ api' = [api EXCEPT ![t].pc = "drop"]
      /\ UNCHANGED <<active_list, closing_list, free_list, list, op, refs, poll>>
  BY <1>1 DEF UnregisterClose, IsClosing
<1>4. k \in Keys /\ f \in Fds /\ f # NoFd /\ poll[t].pc # "send" /\ k \notin free_list
  BY <1>1, <1>2, <1>3, CallUsable, Calling DEF FInv
<1>5. /\ key' \in [Keys -> KeyRecords]
      /\ key'[k].fd = NoFd /\ key'[k].closing = key[k].closing
      /\ key'[k].ref_count = key[k].ref_count /\ key'[k].grp_lock = key[k].grp_lock
      /\ \A j \in Keys \ {k} : key'[j] = key[j]
  <2>1. key[k] \in KeyRecords
    BY <1>2, <1>4
  <2>2. PICK r : r = [key[k] EXCEPT !.fd = NoFd, !.cb = FALSE]
    OBVIOUS
  <2>3. r \in KeyRecords
    BY <2>1, <2>2, KeyWith
  <2>4. /\ r.fd = NoFd /\ r.closing = key[k].closing
        /\ r.ref_count = key[k].ref_count /\ r.grp_lock = key[k].grp_lock
    BY <2>1, <2>2 DEF KeyRecords
  <2>5. key' = [key EXCEPT ![k] = r]
    BY <1>2, <1>3, <1>4, <2>1, <2>2 DEF KeyRecords
  <2> QED
    BY <1>2, <1>4, <2>3, <2>4, <2>5
<1>6. /\ api' \in [Threads -> ApiRecords] /\ api'[t].pc = "drop" /\ api'[t].key = k
      /\ \A u \in Threads \ {t} : api'[u] = api[u]
      /\ \A u \in Threads : /\ PollSound(poll[u])' /\ ApiSound(api[u])'
                            /\ api'[u].pc # "idle" => poll'[u].pc \in {"idle", "callback"}
  BY <1>1, <1>2, <1>3, CallType
<1>7. ASSUME NEW u \in Threads, NEW l
      PROVE  /\ PollHolds(u, l)' <=> PollHolds(u, l)
             /\ u # t => (CallHolds(u, l)' <=> CallHolds(u, l))
  BY <1>2, <1>3, <1>5, <1>6, HoldsSame
<1>8. LInv'
  <2>1. PICK m : m = LockOf(k)
    OBVIOUS
  <2>2. ASSUME NEW l
        PROVE  (CallHolds(t, l)' <=> l = m) /\ ~CallHolds(t, l)
    BY <1>3, <1>4, <1>5, <1>6, <2>1 DEF CallHolds, LockOf
  <2>3. \A u \in Threads, l \in Locks :
          u # t \/ l # m => /\ PollHolds(u, l)' <=> PollHolds(u, l)
                            /\ CallHolds(u, l)' <=> CallHolds(u, l)
    BY <1>7, <2>2
  <2>4. /\ ~CallHolds(t, m) /\ CallHolds(t, m)'
        /\ PollHolds(t, m)' <=> PollHolds(t, m)
    BY <1>7, <2>2
  <2> QED
    BY <1>2, <1>3, <1>4, <2>1, <2>3, <2>4, LockTaken
<1>9. TInv'
  <2>1. lock' \in [Locks -> LockRecords] /\ fdset' \in Sets
    BY <1>2, <1>3, <1>4, LockedType, SetsType
  <2>2. sock' \in [Fds -> SockRecords]
    <3>1. Closed \in SockRecords
      BY Constants DEF Closed, SockRecords
    <3> QED
      BY <1>2, <1>3, <1>4, <3>1
  <2>3. count' \in Int
    BY <1>2, <1>3 DEF TInv
  <2> QED
    BY <1>2, <1>3, <1>5, <1>6, <2>1, <2>2, <2>3 DEF TInv
<1>10. \A u \in Threads \ {t} : ~Sends(u, k)
  BY <1>2, <1>3, <1>4, SendsAlone
<1>11. \A u \in Threads : Event(u)' = Event(u)
  BY <1>3 DEF Event
<1>12. \A u \in Threads \ {t} : ~(api[u].pc \in {"drop", "unlock"} /\ api[u].key = k)
  BY <1>2, <1>3, <1>4, ClosesAlone
<1>13. FInv'
  <2>1. ASSUME NEW j \in Keys
        PROVE  (/\ key[j].closing \/ j \in free_list => key[j].fd = NoFd
                /\ j \in closing_list => key[j].closing
                /\ ~key[j].closing /\ key[j].fd = NoFd =>
                     j \in free_list \/ \E u \in Threads : api[u].pc = "drop" /\ api[u].key = j)'
    <3>1. CASE j = k
      BY <1>2, <1>3, <1>5, <1>6, <3>1 DEF FInv
    <3>2. CASE j # k
      BY <1>1, <1>2, <1>3, <1>5, <1>6, <3>2 DEF FInv
    <3> QED
      BY <3>1, <3>2
  <2>2. ASSUME NEW u \in Threads
        PROVE  (/\ api[u].pc # "idle" => api[u].key \notin free_list
                /\ api[u].pc = "drop" => key[api[u].key].fd = NoFd /\ ~key[api[u].key].closing
                /\ api[u].pc = "unlock" => key[api[u].key].closing)'
    <3>1. CASE u = t
      BY <1>3, <1>4, <1>5, <1>6, <3>1
    <3>2. CASE u # t
      <4>1. api[u].pc # "idle" => api[u].key \in Keys
        BY <1>2, Calling
      <4> QED
        BY <1>2, <1>3, <1>5, <1>6, <1>12, <3>2, <4>1 DEF FInv
    <3> QED
      BY <3>1, <3>2
  <2>3. ASSUME NEW u \in Threads
        PROVE  (/\ poll[u].pc = "send" => key[Event(u).key].fd # NoFd
                /\ poll[u].pc = "deref" => Event(u).key \notin free_list)'
    <3>1. poll[u].pc = "send" => Event(u).key \in Keys /\ Event(u).key # k
      BY <1>2, <1>4, <1>10, EventKey DEF Outside, Sends
    <3> QED
      BY <1>2, <1>3, <1>5, <1>11, <3>1 DEF FInv
  <2> QED
    BY <2>1, <2>2, <2>3 DEF FInv
<1>14. WInv'
  <2>1. \A j \in Keys \ {k} : key[j].fd # NoFd => key[j].fd # f /\ key[j].fd \in Fds
    BY <1>1, <1>2, <1>4, KeyFields DEF WInv
  <2>2. \A h \in Fds \ {f} : sock'[h] = sock[h]
    BY <1>2, <1>3
  <2>3. (\A j \in Keys : key[j].fd # NoFd => sock[key[j].fd].open)'
    BY <1>2, <1>5, <2>1, <2>2 DEF WInv
  <2>4. (\A i, j \in Keys : key[j].fd # NoFd /\ key[i].fd = key[j].fd => i = j)'
    BY <1>2, <1>5 DEF WInv
  <2>5. ASSUME NEW u \in Threads, poll'[u].pc = "send", NEW j, j = Event(u)'.key,
               sock'[key'[j].fd].type # "dgram"
        PROVE  list'[j]["write"] # <<>>
    <3>1. poll[u].pc = "send" /\ j = Event(u).key
      BY <1>3, <1>11, <2>5
    <3>2. j \in Keys /\ j # k /\ key[j].fd # NoFd
      BY <1>2, <1>4, <1>10, <3>1, EventKey DEF Outside, Sends, FInv
    <3>3. sock[key[j].fd].type # "dgram"
      BY <1>5, <2>1, <2>2, <2>5, <3>2
    <3> QED
      BY <1>2, <1>3, <3>1, <3>3 DEF WInv
  <2> QED
    BY <2>3, <2>4, <2>5 DEF WInv
<1>15. SetsSound'
  <2>1. \A e \in Events : \A h \in fdset'[e] : h \in fdset[e] /\ h # f
    BY <1>3 DEF Cleared
  <2> QED
    BY <1>1, <1>2, <1>5, <2>1 DEF SetsSound
<1>16. ASSUME NEW j \in Keys
       PROVE  (Registered(j)' <=> Registered(j)) /\ (InUnlock(j)' <=> InUnlock(j))
  <2>1. InUnlock(j)' <=> InUnlock(j)
    BY <1>3, <1>6 DEF InUnlock
  <2>2. CASE j = k
    BY <1>1, <1>3, <1>4, <1>6, <2>1, <2>2 DEF Registered, IsOpen
  <2>3. CASE j # k
    BY <1>1, <1>3, <1>5, <1>6, <2>1, <2>3 DEF Registered, IsOpen
  <2> QED
    BY <2>2, <2>3
<1>17. SamePolls
  BY <1>3 DEF SamePolls, Unfinished, Unpassed, At
<1>18. KeyCounts'
  <2>1. \A j : Held(j)' = Held(j)
    BY <1>2, <1>17, SameHeld
  <2>2. \A j \in Keys : key'[j].ref_count = key[j].ref_count
    BY <1>5
  <2> QED
    BY <1>2, <1>16, <2>1, <2>2 DEF KeyCounts, One
<1>19. KeyLists'
  <2>1. Open' = Open \ {k} /\ k \in Open
    BY <1>1, <1>4, <1>5 DEF Open
  <2>2. Cardinality(Open)' = Cardinality(Open) - 1 /\ Cardinality(Open) # 0
    BY <2>1, FiniteSlots, FS_RemoveElement, FS_EmptySet
  <2>3. count = Cardinality(Open) /\ Cardinality(Open) \in Nat
    BY <1>2, FiniteSlots DEF KeyLists
  <2>4. count' = Cardinality(Open)'
    BY <1>3, <2>2, <2>3
  <2>5. \A j \in Keys : key'[j].ref_count = key[j].ref_count
    BY <1>5
  <2> QED
    BY <1>2, <1>3, <2>4, <2>5 DEF KeyLists
<1>20. GroupCounts'
  <2>1. \A g : Owned(g)' = Owned(g)
    BY <1>5, <1>16 DEF Owned
  <2>2. ASSUME NEW x \in Slots, x[2] \in Unpassed(x[1])
        PROVE  key'[poll[x[1]].events[x[2]].key].grp_lock = key[poll[x[1]].events[x[2]].key].grp_lock
    <3>1. x[1] \in Threads
      BY DEF Slots
    <3>2. poll[x[1]].events[x[2]].key \in Keys
      BY <1>2, <2>2, <3>1, UnpassedKeys
    <3> QED
      BY <1>5, <3>2
  <2>3. \A g : Passing(g)' = Passing(g)
    BY <1>3, <2>2 DEF Passing, Unpassed
  <2> QED
    BY <1>2, <1>3, <2>1, <2>3 DEF GroupCounts
<1>21. (RefCountExact <=> KeyCounts /\ KeyLists)' /\ (GroupRefsExact <=> GroupCounts)'
  BY Exact, PTL
<1> QED
  BY <1>8, <1>9, <1>13, <1>14, <1>15, <1>18, <1>19, <1>20, <1>21 DEF IInv

(* UnregisterDrop: the reference of the registration is given back.        *)
LEMMA UnregisterDropStep ==
  ASSUME IInv, NEW t \in Threads, UnregisterDrop(t)
  PROVE  IInv'
<1>1. PICK k : k = api[t].key
  OBVIOUS
<1>2. /\ TInv /\ LInv /\ FInv /\ WInv /\ SetsSound /\ KeyLists /\ KeyCounts /\ GroupCounts
      /\ key \in [Keys -> KeyRecords]
  BY Exact DEF IInv, TInv
<1>3. /\ api[t].pc = "drop"
      /\ key' = [key EXCEPT ![k].closing = TRUE, ![k].ref_count = @ - 1]
      /\ MovedByLast(k)
      /\ api' = [api EXCEPT ![t].pc = "unlock"]
      /\ UNCHANGED <<free_list, count, fdset, list, op, lock, refs, sock, poll>>
  BY <1>1 DEF UnregisterDrop
<1>4. /\ k \in Keys /\ k \notin free_list /\ key[k].fd = NoFd /\ ~key[k].closing
      /\ key[k].ref_count \in Int /\ poll[t].pc # "send"
  BY <1>1, <1>2, <1>3, Calling, KeyFields DEF FInv
<1>5. /\ key' \in [Keys -> KeyRecords]
      /\ key'[k].fd = key[k].fd /\ key'[k].closing = TRUE
      /\ key'[k].ref_count = key[k].ref_count - 1 /\ key'[k].grp_lock = key[k].grp_lock
      /\ \A j \in Keys \ {k} : key'[j] = key[j]
  <2>1. key[k] \in KeyRecords /\ key[k].ref_count - 1 \in Int
    BY <1>2, <1>4
  <2>2. PICK r : r = [key[k] EXCEPT !.closing = TRUE, !.ref_count = key[k].ref_count - 1]
    OBVIOUS
  <2>3. r \in KeyRecords
    BY <2>1, <2>2, KeyWith
  <2>4. r.closing = TRUE
    BY <2>1, <2>2 DEF KeyRecords
  <2>5. /\ r.fd = key[k].fd /\ r.grp_lock = key[k].grp_lock
        /\ r.ref_count = key[k].ref_count - 1
    BY <2>1, <2>2 DEF KeyRecords
  <2>6. key' = [key EXCEPT ![k] = r]
    BY <1>2, <1>3, <1>4, <2>1, <2>2 DEF KeyRecords
  <2> QED
    BY <1>2, <1>4, <2>3, <2>4, <2>5, <2>6
<1>6. /\ api' \in [Threads -> ApiRecords] /\ api'[t].pc = "unlock" /\ api'[t].key = k
      /\ \A u \in Threads \ {t} : api'[u] = api[u]
      /\ \A u \in Threads : /\ PollSound(poll[u])' /\ ApiSound(api[u])'
                            /\ api'[u].pc # "idle" => poll'[u].pc \in {"idle", "callback"}
  BY <1>1, <1>2, <1>3, CallType
<1>7. SamePolls
  BY <1>3 DEF SamePolls, Unfinished, Unpassed, At
<1>8. \A j : Held(j)' = Held(j)
  BY <1>2, <1>7, SameHeld
<1>9. \A u \in Threads \ {t} : ~(api[u].pc \in {"drop", "unlock"} /\ api[u].key = k)
  BY <1>1, <1>2, <1>3, <1>4, ClosesAlone
<1>10. /\ Registered(k) /\ ~Registered(k)' /\ InUnlock(k)' /\ ~InUnlock(k)
       /\ \A j \in Keys \ {k} : /\ Registered(j)' <=> Registered(j)
                                /\ InUnlock(j)' <=> InUnlock(j)
  <2>1. Registered(k) /\ InUnlock(k)' /\ ~InUnlock(k)
    BY <1>1, <1>3, <1>6, <1>9 DEF Registered, InUnlock
  <2>2. ~Registered(k)'
    BY <1>4, <1>5, <1>6, <1>9 DEF Registered, IsOpen
  <2>3. ASSUME NEW j \in Keys \ {k}
        PROVE  (Registered(j)' <=> Registered(j)) /\ (InUnlock(j)' <=> InUnlock(j))
    BY <1>1, <1>3, <1>5, <1>6 DEF Registered, IsOpen, InUnlock
  <2> QED
    BY <2>1, <2>2, <2>3
<1>11. key[k].ref_count = 1 + Cardinality(Held(k)) /\ Cardinality(Held(k)) \in Nat
  BY <1>2, <1>4, <1>10, FiniteSlots DEF KeyCounts, One
<1>12. k \in active_list
  BY <1>2, <1>4, <1>11 DEF KeyLists
<1>13. /\ KeyLists' /\ active_list' \subseteq Keys /\ closing_list' \subseteq Keys
       /\ closing_list' # closing_list => closing_list' = closing_list \cup {k}
  BY <1>2, <1>3, <1>4, <1>5, <1>12, Dropped, ZenonT(30) DEF TInv
<1>14. TInv'
  <2>1. /\ {active_list, closing_list, free_list} \subseteq SUBSET Keys
        /\ count \in Int /\ fdset \in Sets /\ list \in [Keys -> [Kinds -> Seq(Ops)]]
        /\ op \in [Ops -> OpRecords] /\ lock \in [Locks -> LockRecords]
        /\ refs \in [Groups -> Int] /\ sock \in [Fds -> SockRecords]
        /\ poll \in [Threads -> PollRecords]
    BY <1>2 DEF TInv
  <2>2. /\ count' \in Int /\ fdset' \in Sets /\ list' \in [Keys -> [Kinds -> Seq(Ops)]]
        /\ op' \in [Ops -> OpRecords] /\ lock' \in [Locks -> LockRecords]
        /\ refs' \in [Groups -> Int] /\ sock' \in [Fds -> SockRecords]
        /\ poll' \in [Threads -> PollRecords]
    BY <1>3, <2>1
  <2>3. {active_list, closing_list, free_list}' \subseteq SUBSET Keys
    BY <1>3, <1>13, <2>1
  <2> QED
    BY <1>5, <1>6, <2>2, <2>3 DEF TInv
<1>15. LInv'
  <2>1. ASSUME NEW u \in Threads, NEW l
        PROVE  /\ PollHolds(u, l)' <=> PollHolds(u, l)
               /\ CallHolds(u, l)' <=> CallHolds(u, l)
    <3>1. /\ PollHolds(u, l)' <=> PollHolds(u, l)
          /\ u # t => (CallHolds(u, l)' <=> CallHolds(u, l))
      BY <1>2, <1>3, <1>5, <1>6, HoldsSame
    <3>2. CallHolds(t, l)' <=> CallHolds(t, l)
      BY <1>1, <1>3, <1>4, <1>5, <1>6 DEF CallHolds, LockOf
    <3> QED
      BY <3>1, <3>2
  <2> QED
    BY <1>2, <1>3, <2>1, LocksSame
<1>16. FInv'
  <2>1. ASSUME NEW j \in Keys
        PROVE  (/\ key[j].closing \/ j \in free_list => key[j].fd = NoFd
                /\ j \in closing_list => key[j].closing
                /\ ~key[j].closing /\ key[j].fd = NoFd =>
                     j \in free_list \/ \E u \in Threads : api[u].pc = "drop" /\ api[u].key = j)'
    <3>1. CASE j = k
      BY <1>4, <1>5, <3>1
    <3>2. CASE j # k
      <4>1. /\ key'[j] = key[j] /\ free_list' = free_list
            /\ j \in closing_list' => j \in closing_list
        BY <1>3, <1>5, <1>13, <3>2
      <4>2. /\ key[j].closing \/ j \in free_list => key[j].fd = NoFd
            /\ j \in closing_list => key[j].closing
        BY <1>2 DEF FInv
      <4>3. ASSUME ~key[j].closing, key[j].fd = NoFd, j \notin free_list
            PROVE  \E u \in Threads : api'[u].pc = "drop" /\ api'[u].key = j
        <5>1. PICK u \in Threads : api[u].pc = "drop" /\ api[u].key = j
          BY <1>2, <4>3 DEF FInv
        <5> QED
          BY <1>1, <1>6, <3>2, <5>1
      <4> QED
        BY <4>1, <4>2, <4>3
    <3> QED
      BY <3>1, <3>2
  <2>2. ASSUME NEW u \in Threads
        PROVE  (/\ api[u].pc # "idle" => api[u].key \notin free_list
                /\ api[u].pc = "drop" => key[api[u].key].fd = NoFd /\ ~key[api[u].key].closing
                /\ api[u].pc = "unlock" => key[api[u].key].closing)'
    <3>1. CASE u = t
      BY <1>3, <1>4, <1>5, <1>6, <3>1
    <3>2. CASE u # t
      <4>1. api[u].pc # "idle" => api[u].key \in Keys
        BY <1>2, Calling
      <4> QED
        BY <1>2, <1>3, <1>5, <1>6, <1>9, <3>2, <4>1 DEF FInv
    <3> QED
      BY <3>1, <3>2
  <2>3. ASSUME NEW u \in Threads
        PROVE  (/\ poll[u].pc = "send" => key[Event(u).key].fd # NoFd
                /\ poll[u].pc = "deref" => Event(u).key \notin free_list)'
    <3>1. poll[u].pc = "send" => Event(u).key \in Keys
      BY <1>2, EventKey DEF Outside
    <3>2. Event(u)' = Event(u)
      BY <1>3 DEF Event
    <3> QED
      BY <1>2, <1>3, <1>5, <3>1, <3>2 DEF FInv
  <2> QED
    BY <2>1, <2>2, <2>3 DEF FInv
<1>17. \A j \in Keys : key'[j].fd = key[j].fd
  BY <1>5
<1>18. WInv'
  <2>1. WritesKept(t) /\ poll'[t].pc # "send" /\ \A u \in Threads : poll'[u] = poll[u]
    BY <1>3, <1>4 DEF WritesKept
  <2> QED
    BY <1>2, <1>17, <2>1, KeptWrites
<1>19. SetsSound'
  BY <1>2, <1>3, <1>17, QuietSets
<1>20. KeyCounts'
  <2>1. key'[k].ref_count = One(Registered(k)') + Cardinality(Held(k))
    BY <1>5, <1>10, <1>11 DEF One
  <2> QED
    BY <1>2, <1>5, <1>8, <1>10, <2>1 DEF KeyCounts, One
<1>21. GroupCounts'
  <2>1. \A g : Owned(g)' = Owned(g)
    BY <1>5, <1>10 DEF Owned
  <2>2. ASSUME NEW x \in Slots, x[2] \in Unpassed(x[1])
        PROVE  key'[poll[x[1]].events[x[2]].key].grp_lock = key[poll[x[1]].events[x[2]].key].grp_lock
    <3>1. x[1] \in Threads
      BY DEF Slots
    <3>2. poll[x[1]].events[x[2]].key \in Keys
      BY <1>2, <2>2, <3>1, UnpassedKeys
    <3> QED
      BY <1>5, <3>2
  <2>3. \A g : Passing(g)' = Passing(g)
    BY <1>3, <2>2 DEF Passing, Unpassed
  <2> QED
    BY <1>2, <1>3, <2>1, <2>3 DEF GroupCounts
<1>22. (RefCountExact <=> KeyCounts /\ KeyLists)' /\ (GroupRefsExact <=> GroupCounts)'
  BY Exact, PTL
<1> QED
  BY <1>13, <1>14, <1>15, <1>16, <1>18, <1>19, <1>20, <1>21, <1>22 DEF IInv

(* UnregisterEnd: the reference of the group, and the lock, are given      *)
(* back.                                                                   *)
LEMMA UnregisterEndStep ==
  ASSUME IInv, NEW t \in Threads, UnregisterEnd(t)
  PROVE  IInv'
<1>1. PICK k : k = api[t].key
  OBVIOUS
<1>2. /\ TInv /\ LInv /\ FInv /\ WInv /\ SetsSound /\ KeyLists /\ KeyCounts /\ GroupCounts
      /\ key \in [Keys -> KeyRecords] /\ api \in [Threads -> ApiRecords]
      /\ refs \in [Groups -> Int]
  BY Exact DEF IInv, TInv
<1>3. /\ api[t].pc = "unlock" /\ refs' = LessRef(k) /\ lock' = Released(k)
      /\ api' = [api EXCEPT ![t] = ApiIdle]
      /\ UNCHANGED <<active_list, closing_list, free_list, count, fdset, key, list, op, sock,
                     poll>>
  BY <1>1 DEF UnregisterEnd, Returns, queue
<1>4. k \in Keys /\ key[k].closing /\ key[k].fd = NoFd /\ poll[t].pc # "send"
  BY <1>1, <1>2, <1>3, Calling DEF FInv
<1>5. /\ api'[t] = ApiIdle /\ ApiSound(ApiIdle) /\ ApiIdle.pc = "idle"
      /\ \A u \in Threads \ {t} : api'[u] = api[u]
  BY <1>2, <1>3, Returning
<1>6. \A u \in Threads \ {t} : ~(api[u].pc \in {"drop", "unlock"} /\ api[u].key = k)
  BY <1>1, <1>2, <1>3, <1>4, ClosesAlone
<1>7. LInv' /\ lock' \in [Locks -> LockRecords]
  <2>1. PICK m : m = LockOf(k)
    OBVIOUS
  <2>2. ASSUME NEW l
        PROVE  ~CallHolds(t, l)' /\ (CallHolds(t, l) <=> l = m)
    BY <1>1, <1>3, <1>5, <2>1 DEF CallHolds
  <2>3. ASSUME NEW u \in Threads, NEW l
        PROVE  /\ PollHolds(u, l)' <=> PollHolds(u, l)
               /\ u # t => (CallHolds(u, l)' <=> CallHolds(u, l))
    BY <1>2, <1>3, <1>5, HoldsSame
  <2>4. \A u \in Threads, l \in Locks :
          u # t \/ l # m => /\ PollHolds(u, l)' <=> PollHolds(u, l)
                            /\ CallHolds(u, l)' <=> CallHolds(u, l)
    BY <2>2, <2>3
  <2>5. /\ CallHolds(t, m) /\ ~CallHolds(t, m)'
        /\ PollHolds(t, m)' <=> PollHolds(t, m)
    BY <2>2, <2>3
  <2> QED
    BY <1>2, <1>3, <1>4, <2>1, <2>4, <2>5, LockGiven
<1>8. TInv'
  <2>1. \A u \in Threads : /\ PollSound(poll[u])' /\ ApiSound(api[u])'
                           /\ api'[u].pc # "idle" => poll'[u].pc \in {"idle", "callback"}
    BY <1>2, <1>3, <1>5 DEF TInv, PollSound, ApiSound, KeepsLock
  <2>2. api' \in [Threads -> ApiRecords]
    BY <1>2, <1>3, <1>5 DEF ApiSound
  <2>3. refs' \in [Groups -> Int]
    BY <1>2, <1>3 DEF LessRef
  <2> QED
    BY <1>2, <1>3, <1>7, <2>1, <2>2, <2>3 DEF TInv
<1>9. FInv'
  <2>1. \A u \in Threads : Event(u)' = Event(u)
    BY <1>3 DEF Event
  <2>2. ASSUME NEW j \in Keys
        PROVE  (\E u \in Threads : api[u].pc = "drop" /\ api[u].key = j) =>
                 \E u \in Threads : api'[u].pc = "drop" /\ api'[u].key = j
    BY <1>3, <1>5
  <2> QED
    BY <1>2, <1>3, <1>5, <2>1, <2>2 DEF FInv
<1>10. WInv' /\ SetsSound'
  BY <1>2, <1>3 DEF WInv, SetsSound, Event
<1>11. ASSUME NEW j \in Keys
       PROVE  /\ Registered(j)' <=> Registered(j)
              /\ j # k => (InUnlock(j)' <=> InUnlock(j))
  BY <1>1, <1>3, <1>5 DEF Registered, IsOpen, InUnlock
<1>12. InUnlock(k) /\ ~InUnlock(k)' /\ ~Registered(k)
  BY <1>1, <1>3, <1>4, <1>5, <1>6 DEF Registered, IsOpen, InUnlock
<1>13. KeyCounts' /\ KeyLists'
  <2>1. KeyCounts'
    BY <1>2, <1>3, <1>11 DEF KeyCounts, Held, Unfinished, At, One
  <2> QED
    BY <1>2, <1>3, <2>1 DEF KeyLists, Open
<1>14. GroupCounts'
  <2>1. ASSUME NEW g \in Groups
        PROVE  refs'[g] = Cardinality(Owned(g))' + Cardinality(Passing(g))'
    <3>1. Passing(g)' = Passing(g)
      BY <1>3 DEF Passing, Unpassed
    <3>2. Owned(g)' = Owned(g) \ {k} /\ (k \in Owned(g) <=> key[k].grp_lock = g)
      BY <1>3, <1>4, <1>11, <1>12 DEF Owned
    <3>3. Cardinality(Owned(g))' = IF key[k].grp_lock = g THEN Cardinality(Owned(g)) - 1
                                   ELSE Cardinality(Owned(g))
      BY <3>2, FiniteSlots, FS_RemoveElement
    <3>4. refs'[g] = IF key[k].grp_lock = g THEN refs[g] - 1 ELSE refs[g]
      BY <1>3 DEF LessRef
    <3> QED
      BY <1>2, <3>1, <3>3, <3>4, FiniteSlots DEF GroupCounts
  <2> QED
    BY <2>1 DEF GroupCounts
<1>15. (RefCountExact <=> KeyCounts /\ KeyLists)' /\ (GroupRefsExact <=> GroupCounts)'
  BY Exact, PTL
<1> QED
  BY <1>7, <1>8, <1>9, <1>10, <1>13, <1>14, <1>15 DEF IInv

(* A key that was free, or closed long ago, is registered for a new socket. *)
LEMMA RegisterStep ==
  ASSUME IInv, NEW t \in Threads, NEW f \in Fds, NEW g \in KeyGroups, Register(t, f, g)
  PROVE  IInv'
<1>1. PICK keys \in SUBSET Expired : \E k \in free_list \cup keys :
        /\ closing_list' = closing_list \ keys
        /\ free_list' = (free_list \cup keys) \ {k}
        /\ active_list' = active_list \cup {k}
        /\ InitKey(k, f, g)
  BY DEF Register
<1>2. PICK k \in free_list \cup keys :
        /\ closing_list' = closing_list \ keys
        /\ free_list' = (free_list \cup keys) \ {k}
        /\ active_list' = active_list \cup {k}
        /\ InitKey(k, f, g)
  BY <1>1
<1>3. /\ TInv /\ LInv /\ FInv /\ WInv /\ SetsSound /\ KeyLists /\ KeyCounts /\ GroupCounts
      /\ key \in [Keys -> KeyRecords] /\ sock \in [Fds -> SockRecords]
      /\ list \in [Keys -> [Kinds -> Seq(Ops)]] /\ refs \in [Groups -> Int]
  BY Exact DEF IInv, TInv
<1>4. /\ ~sock[f].open /\ count' = count + 1
      /\ UNCHANGED <<fdset, op, lock, poll, api>>
  BY DEF Register
<1>5. PICK s \in NewSockets : sock' = [sock EXCEPT ![f] = s]
  BY DEF Register
<1>6. /\ k \in Keys /\ key[k].fd = NoFd /\ k \notin active_list
      /\ key[k].ref_count = 0 /\ ~Registered(k) /\ Held(k) = {}
      /\ \A u \in Threads : api[u].key # k
      /\ \A u \in Threads : \A i \in Unpassed(u) : poll[u].events[i].key # k
  BY <1>2, Spare
<1>7. /\ f # NoFd /\ g \in Groups \cup {NoGroup} /\ keys \subseteq closing_list
      /\ \A j \in Keys : key[j].fd # f
  BY <1>3, <1>4, Constants DEF WInv, Groups, Expired
<1>8. /\ key' \in [Keys -> KeyRecords]
      /\ key'[k].fd = f /\ key'[k].ref_count = 1 /\ key'[k].grp_lock = g
      /\ \A j \in Keys \ {k} : key'[j] = key[j]
  <2>1. PICK r : r = [fd |-> f, closing |-> FALSE, ref_count |-> 1,
                      cb |-> TRUE, connecting |-> FALSE, grp_lock |-> g]
    OBVIOUS
  <2>2. r \in KeyRecords
    BY <1>7, <2>1 DEF KeyRecords
  <2>3. r.fd = f /\ r.ref_count = 1 /\ r.grp_lock = g
    BY <2>1
  <2>4. key' = [key EXCEPT ![k] = r]
    BY <1>2, <1>3, <1>6, <2>1 DEF InitKey
  <2> QED
    BY <1>3, <1>6, <2>2, <2>3, <2>4
<1>9. key'[k].closing = FALSE
  BY <1>2, <1>3, <1>6 DEF InitKey
<1>10. /\ list' \in [Keys -> [Kinds -> Seq(Ops)]]
      /\ \A j \in Keys \ {k} : list'[j] = list[j]
  BY <1>2, <1>3, <1>6 DEF InitKey
<1>11. /\ sock' \in [Fds -> SockRecords] /\ sock'[f].open
       /\ \A h \in Fds \ {f} : sock'[h] = sock[h]
  <2>1. 0 \in 0 .. MaxData /\ MaxRoom \in 0 .. MaxRoom
    BY Constants
  <2>2. s \in SockRecords
    BY <2>1 DEF NewSockets, SockRecords
  <2>3. s.open
    BY DEF NewSockets
  <2> QED
    BY <1>3, <1>5, <2>2, <2>3
<1>12. ASSUME NEW u \in Threads
       PROVE  /\ Event(u)' = Event(u)
              /\ poll[u].pc \notin Outside => Event(u).key \in Keys \ {k}
              /\ api[u].pc # "idle" => api[u].key \in Keys \ {k}
  <2>1. Event(u)' = Event(u)
    BY <1>4 DEF Event
  <2>2. ASSUME poll[u].pc \notin Outside
        PROVE  Event(u).key \in Keys \ {k}
    <3>1. poll[u].next \in DOMAIN poll[u].events /\ poll[u].next \in Nat
      BY <1>3, <2>2, PollTypes DEF PollSound, PollRecords
    <3>2. poll[u].next \in Unpassed(u)
      BY <3>1 DEF Unpassed
    <3> QED
      BY <1>3, <1>6, <2>2, <3>2, EventKey DEF Event
  <2>3. api[u].pc # "idle" => api[u].key \in Keys \ {k}
    BY <1>3, <1>6, Calling
  <2> QED
    BY <2>1, <2>2, <2>3
<1>13. TInv'
  <2>1. \A u \in Threads : /\ PollSound(poll[u])' /\ ApiSound(api[u])'
                           /\ api'[u].pc # "idle" => poll'[u].pc \in {"idle", "callback"}
    BY <1>3, <1>4 DEF TInv, PollSound, ApiSound, KeepsLock
  <2>2. {active_list, closing_list, free_list}' \subseteq SUBSET Keys
    BY <1>2, <1>3, <1>6, <1>7 DEF TInv
  <2>3. count' \in Int
    BY <1>3, <1>4 DEF TInv
  <2>4. refs' \in [Groups -> Int]
    BY <1>2, <1>3 DEF InitKey
  <2>5. /\ fdset \in Sets /\ op \in [Ops -> OpRecords] /\ lock \in [Locks -> LockRecords]
        /\ poll \in [Threads -> PollRecords] /\ api \in [Threads -> ApiRecords]
    BY <1>3 DEF TInv
  <2>6. /\ fdset' \in Sets /\ op' \in [Ops -> OpRecords] /\ lock' \in [Locks -> LockRecords]
        /\ poll' \in [Threads -> PollRecords] /\ api' \in [Threads -> ApiRecords]
    BY <1>4, <2>5
  <2> QED
    BY <1>8, <1>10, <1>11, <2>1, <2>2, <2>3, <2>4, <2>6 DEF TInv
<1>14. LInv'
  <2>1. ASSUME NEW u \in Threads, NEW l
        PROVE  /\ PollHolds(u, l)' <=> PollHolds(u, l)
               /\ CallHolds(u, l)' <=> CallHolds(u, l)
    <3>1. \A j \in Keys \ {k} : LockOf(j)' = LockOf(j)
      BY <1>8 DEF LockOf
    <3>2. PollHolds(u, l)' <=> PollHolds(u, l)
      <4>1. CASE poll[u].pc \notin Outside
        <5>1. LockOf(Event(u).key)' = LockOf(Event(u).key)
          BY <1>12, <3>1, <4>1
        <5> QED
          BY <1>4, <5>1 DEF PollHolds
      <4>2. CASE poll[u].pc \in Outside
        BY <1>4, <4>2 DEF PollHolds, Outside
      <4> QED
        BY <4>1, <4>2
    <3>3. CallHolds(u, l)' <=> CallHolds(u, l)
      <4>1. CASE api[u].pc # "idle"
        <5>1. LockOf(api[u].key)' = LockOf(api[u].key)
          BY <1>4, <1>12, <3>1, <4>1
        <5> QED
          BY <1>4, <5>1 DEF CallHolds
      <4>2. CASE api[u].pc = "idle"
        BY <1>4, <4>2 DEF CallHolds
      <4> QED
        BY <4>1, <4>2
    <3> QED
      BY <3>2, <3>3
  <2> QED
    BY <1>3, <1>4, <2>1, LocksSame
<1>15. FInv'
  <2>1. ASSUME NEW j \in Keys
        PROVE  (/\ key[j].closing \/ j \in free_list => key[j].fd = NoFd
                /\ j \in closing_list => key[j].closing
                /\ ~key[j].closing /\ key[j].fd = NoFd =>
                     j \in free_list \/ \E u \in Threads : api[u].pc = "drop" /\ api[u].key = j)'
    <3>1. CASE j = k
      <4>1. k \notin free_list' /\ k \notin closing_list'
        BY <1>2, <1>3 DEF KeyLists
      <4> QED
        BY <1>7, <1>8, <1>9, <3>1, <4>1
    <3>2. CASE j # k
      <4>1. /\ key'[j] = key[j] /\ (j \in closing_list' => j \in closing_list)
            /\ j \in free_list' <=> j \in free_list \/ j \in keys
            /\ j \in keys => key[j].fd = NoFd
        BY <1>2, <1>3, <1>7, <1>8, <3>2 DEF FInv
      <4> QED
        BY <1>3, <1>4, <4>1 DEF FInv
    <3> QED
      BY <3>1, <3>2
  <2>2. ASSUME NEW u \in Threads
        PROVE  (/\ api[u].pc # "idle" => api[u].key \notin free_list
                /\ api[u].pc = "drop" => key[api[u].key].fd = NoFd /\ ~key[api[u].key].closing
                /\ api[u].pc = "unlock" => key[api[u].key].closing)'
    <3>1. api[u].key \notin keys
      BY DEF Expired, StillUsed
    <3>2. CASE api[u].pc # "idle"
      <4>1. key'[api[u].key] = key[api[u].key]
        BY <1>8, <1>12, <3>2
      <4> QED
        BY <1>2, <1>3, <1>4, <3>1, <4>1 DEF FInv
    <3>3. CASE api[u].pc = "idle"
      BY <1>4, <3>3
    <3> QED
      BY <3>2, <3>3
  <2>3. ASSUME NEW u \in Threads
        PROVE  (/\ poll[u].pc = "send" => key[Event(u).key].fd # NoFd
                /\ poll[u].pc = "deref" => Event(u).key \notin free_list)'
    <3>1. poll[u].pc = "deref" => Event(u).key \notin keys
      BY DEF Expired, StillUsed
    <3>2. poll[u].pc = "send" => key'[Event(u).key] = key[Event(u).key]
      BY <1>8, <1>12 DEF Outside
    <3> QED
      BY <1>2, <1>3, <1>4, <1>12, <3>1, <3>2 DEF FInv
  <2> QED
    BY <2>1, <2>2, <2>3 DEF FInv
<1>16. WInv'
  <2>1. (\A j \in Keys : key[j].fd # NoFd => sock[key[j].fd].open)'
    <3>1. ASSUME NEW j \in Keys \ {k}, key[j].fd # NoFd
          PROVE  sock'[key[j].fd].open
      BY <1>3, <1>7, <1>11, <3>1, KeyFields DEF WInv
    <3> QED
      BY <1>8, <1>11, <3>1
  <2>2. (\A i, j \in Keys : key[j].fd # NoFd /\ key[i].fd = key[j].fd => i = j)'
    BY <1>3, <1>7, <1>8 DEF WInv
  <2>3. ASSUME NEW u \in Threads, poll'[u].pc = "send", NEW j, j = Event(u)'.key,
               sock'[key'[j].fd].type # "dgram"
        PROVE  list'[j]["write"] # <<>>
    <3>1. poll[u].pc = "send" /\ j = Event(u).key
      BY <1>4, <1>12, <2>3
    <3>2. j \in Keys \ {k} /\ key[j].fd # NoFd
      BY <1>3, <1>12, <3>1 DEF Outside, FInv
    <3>3. key[j].fd \in Fds \ {f} /\ key'[j] = key[j] /\ list'[j] = list[j]
      BY <1>3, <1>7, <1>8, <1>10, <3>2, KeyFields
    <3> QED
      BY <1>3, <1>11, <2>3, <3>1, <3>3 DEF WInv
  <2> QED
    BY <2>1, <2>2, <2>3 DEF WInv
<1>17. SetsSound'
  <2>1. ASSUME NEW j \in Keys, key[j].fd # NoFd
        PROVE  key'[j].fd = key[j].fd
    BY <1>6, <1>8, <2>1
  <2> QED
    BY <1>3, <1>4, <2>1 DEF SetsSound
<1>18. /\ Registered(k)' /\ \A j \in Keys \ {k} : Registered(j)' <=> Registered(j)
       /\ \A j \in Keys : InUnlock(j)' <=> InUnlock(j)
  BY <1>4, <1>7, <1>8, <1>9 DEF Registered, IsOpen, InUnlock
<1>19. SamePolls
  BY <1>4 DEF SamePolls, Unfinished, Unpassed, At
<1>20. KeyCounts'
  <2>1. \A j : Held(j)' = Held(j)
    BY <1>3, <1>19, SameHeld
  <2>2. key'[k].ref_count = One(Registered(k)') + Cardinality(Held(k)')
    BY <1>6, <1>8, <1>18, <2>1, FS_EmptySet DEF One
  <2>3. ASSUME NEW j \in Keys \ {k}
        PROVE  key'[j].ref_count = One(Registered(j)') + Cardinality(Held(j)')
    BY <1>3, <1>8, <1>18, <2>1 DEF KeyCounts, One
  <2> QED
    BY <2>2, <2>3 DEF KeyCounts, One
<1>21. KeyLists'
  <2>1. Open' = Open \cup {k} /\ k \notin Open
    BY <1>6, <1>7, <1>8 DEF Open
  <2>2. Cardinality(Open)' = Cardinality(Open) + 1
    BY <2>1, FiniteSlots, FS_AddElement
  <2>3. active_list' = {j \in Keys : key'[j].ref_count > 0}
    BY <1>2, <1>3, <1>6, <1>8 DEF KeyLists
  <2>4. /\ active_list' \cup closing_list' \cup free_list' = Keys
        /\ active_list' \cap closing_list' = {}
        /\ free_list' \cap (active_list' \cup closing_list') = {}
    BY <1>2, <1>3, <1>6, <1>7 DEF KeyLists
  <2> QED
    BY <1>3, <1>4, <2>2, <2>3, <2>4 DEF KeyLists
<1>22. GroupCounts'
  <2>1. ASSUME NEW h \in Groups
        PROVE  refs'[h] = Cardinality(Owned(h))' + Cardinality(Passing(h))'
    <3>1. ASSUME NEW x \in Slots, x[2] \in Unpassed(x[1])
          PROVE  key'[poll[x[1]].events[x[2]].key].grp_lock
                 = key[poll[x[1]].events[x[2]].key].grp_lock
      <4>1. x[1] \in Threads
        BY DEF Slots
      <4>2. poll[x[1]].events[x[2]].key \in Keys \ {k}
        BY <1>3, <1>6, <3>1, <4>1, UnpassedKeys
      <4> QED
        BY <1>8, <4>2
    <3>2. Passing(h)' = Passing(h)
      BY <1>4, <3>1 DEF Passing, Unpassed
    <3>3. ~InUnlock(k)
      BY <1>6 DEF InUnlock
    <3>4. k \notin Owned(h)
      BY <1>6, <3>3 DEF Owned
    <3>5. CASE h = g
      <4>1. Owned(h)' = Owned(h) \cup {k}
        BY <1>6, <1>8, <1>18, <3>5 DEF Owned
      <4>2. Cardinality(Owned(h))' = Cardinality(Owned(h)) + 1
        BY <3>4, <4>1, FiniteSlots, FS_AddElement
      <4>3. refs'[h] = refs[h] + 1
        BY <1>2, <3>5 DEF InitKey
      <4> QED
        BY <1>3, <3>2, <4>2, <4>3, FiniteSlots DEF GroupCounts
    <3>6. CASE h # g
      <4>1. Owned(h)' = Owned(h)
        BY <1>6, <1>8, <1>18, <3>4, <3>6 DEF Owned
      <4>2. refs'[h] = refs[h]
        BY <1>2, <3>6 DEF InitKey
      <4> QED
        BY <1>3, <3>2, <4>1, <4>2 DEF GroupCounts
    <3> QED
      BY <3>5, <3>6
  <2> QED
    BY <2>1 DEF GroupCounts
<1>23. (RefCountExact <=> KeyCounts /\ KeyLists)' /\ (GroupRefsExact <=> GroupCounts)'
  BY Exact, PTL
<1> QED
  BY <1>13, <1>14, <1>15, <1>16, <1>17, <1>20, <1>21, <1>22, <1>23 DEF IInv

-----------------------------------------------------------------------------
(* The invariant at the start, and in every step.                          *)
LEMMA Start == Init => IInv
<1> SUFFICES ASSUME Init PROVE IInv
  OBVIOUS
<1>1. /\ active_list = {} /\ closing_list = {} /\ count = 0 /\ free_list = Keys
      /\ fdset = NoSets
      /\ \A k \in Keys : /\ key[k].fd = NoFd /\ key[k].closing = FALSE
                         /\ key[k].ref_count = 0 /\ key[k].grp_lock = NoGroup
      /\ \A l \in Locks : lock[l] = Unlocked
      /\ \A g \in Groups : refs[g] = 0
      /\ \A t \in Threads : poll[t] = PollIdle /\ api[t] = ApiIdle
  BY DEF Init
<1>2. /\ PollIdle.pc = "idle" /\ PollIdle.events = <<>> /\ ApiIdle.pc = "idle"
      /\ PollSound(PollIdle) /\ ApiSound(ApiIdle)
  <2>1. PollIdle.pc = "idle" /\ PollIdle.events = <<>> /\ ApiIdle.pc = "idle"
    BY DEF PollIdle, ApiIdle
  <2> QED
    BY <2>1, IdleSound, Returning
<1>3. TInv
  <2>1. /\ NoSets \in Sets
        /\ [fd |-> NoFd, closing |-> FALSE, ref_count |-> 0, cb |-> FALSE,
            connecting |-> FALSE, grp_lock |-> NoGroup] \in KeyRecords
        /\ NoKind \in OpRecords /\ Unlocked \in LockRecords
    BY Constants DEF NoSets, Sets, KeyRecords, NoKind, OpRecords, Unlocked, LockRecords
  <2>2. Closed \in SockRecords
    BY Constants DEF Closed, SockRecords
  <2>3. PollIdle \in PollRecords /\ ApiIdle \in ApiRecords
    BY <1>2 DEF PollSound, ApiSound
  <2>4. /\ key \in [Keys -> KeyRecords] /\ list \in [Keys -> [Kinds -> Seq(Ops)]]
        /\ op \in [Ops -> OpRecords] /\ lock \in [Locks -> LockRecords]
        /\ refs \in [Groups -> Int] /\ sock \in [Fds -> SockRecords]
        /\ poll \in [Threads -> PollRecords] /\ api \in [Threads -> ApiRecords]
    BY <2>1, <2>2, <2>3 DEF Init
  <2>5. {active_list, closing_list, free_list} \subseteq SUBSET Keys /\ count \in Int
        /\ fdset \in Sets
    BY <1>1, <2>1
  <2> QED
    BY <1>1, <1>2, <2>4, <2>5 DEF TInv
<1>4. LInv
  <2>1. \A l \in Locks : lock[l].owner = NoThread /\ lock[l].depth = 0
    BY <1>1 DEF Unlocked
  <2>2. \A t \in Threads, l \in Locks : ~Holds(t, l)
    BY <1>1, <1>2 DEF Holds, PollHolds, CallHolds
  <2> QED
    BY <2>1, <2>2, Constants DEF LInv
<1>5. FInv /\ WInv
  BY <1>1, <1>2 DEF FInv, WInv
<1>6. SetsSound
  BY <1>1 DEF SetsSound, NoSets
<1>7. ASSUME NEW k \in Keys
      PROVE  ~Registered(k) /\ ~InUnlock(k)
  BY <1>1, <1>2 DEF Registered, IsOpen, InUnlock
<1>8. Open = {} /\ \A k : Held(k) = {}
  BY <1>1, <1>2 DEF Open, Held, Unfinished, Slots
<1>9. \A g : Owned(g) = {} /\ Passing(g) = {}
  BY <1>1, <1>2, <1>7 DEF Owned, Passing, Unpassed, Slots
<1>10. KeyCounts /\ KeyLists /\ GroupCounts
  <2>1. Cardinality({}) = 0
    BY FS_EmptySet
  <2>2. KeyCounts
    <3>1. ASSUME NEW k \in Keys
          PROVE  key[k].ref_count = One(Registered(k)) + Cardinality(Held(k))
      <4>1. key[k].ref_count = 0 /\ One(Registered(k)) = 0
        BY <1>1, <1>7 DEF One
      <4>2. Cardinality(Held(k)) = 0
        BY <1>8, <2>1
      <4> QED
        BY <4>1, <4>2
    <3> QED
      BY <3>1 DEF KeyCounts
  <2>3. KeyLists
    BY <1>1, <1>8, <2>1 DEF KeyLists
  <2>4. GroupCounts
    <3>1. ASSUME NEW g \in Groups
          PROVE  refs[g] = Cardinality(Owned(g)) + Cardinality(Passing(g))
      <4>1. Cardinality(Owned(g)) = 0 /\ Cardinality(Passing(g)) = 0
        BY <1>9, <2>1
      <4> QED
        BY <1>1, <4>1
    <3> QED
      BY <3>1 DEF GroupCounts
  <2> QED
    BY <2>2, <2>3, <2>4
<1> QED
  BY <1>3, <1>4, <1>5, <1>6, <1>10, Exact DEF IInv

(* A step that changes nothing keeps the invariant.                        *)
LEMMA Stays ==
  ASSUME IInv, UNCHANGED vars
  PROVE  IInv'
<1>1. op \in [Ops -> OpRecords] /\ sock \in [Fds -> SockRecords]
  BY DEF IInv, TInv
<1>2. UNCHANGED <<queue, fdset, key, list, op, lock, refs, sock, poll, api>>
  BY DEF vars, queue
<1> QED
  BY <1>1, <1>2, DataStep

(* Every step keeps the invariant.                                         *)
LEMMA Inductive == IInv /\ [Next]_vars => IInv'
<1> SUFFICES ASSUME IInv, [Next]_vars PROVE IInv'
  OBVIOUS
<1>1. ASSUME NEW t \in Threads, Poll(t)
      PROVE  IInv'
  BY <1>1, PollStartStep, SelectStep, CollectStep, SkipStep, ServeConnectStep, ServeReadStep,
     ServeWriteStep, TransferStep, DeliverStep, CallbackReturnsStep, ReleaseStep, DerefStep
     DEF Poll
<1>2. ASSUME NEW t \in Threads, Goes(t)
      PROVE  IInv'
  BY <1>2, UnregisterAgainStep, UnregisterCloseStep, UnregisterDropStep, UnregisterEndStep,
     SendNowStep, SendQueuedStep, AddStep, AddConnectStep, PostReturnsStep DEF Goes
<1>3. ASSUME NEW t \in Threads, Begins(t)
      PROVE  IInv'
  <2>1. CASE \E f \in Fds, g \in KeyGroups : Register(t, f, g)
    BY <2>1, RegisterStep
  <2>2. CASE \E k \in Keys : Unregister(t, k) \/ ReceiveNow(t, k) \/ Connect(t, k)
    BY <2>2, UnregisterStep, ReceiveNowStep, ConnectStep
  <2>3. CASE \E k \in Keys, o \in Ops :
               \/ Send(t, k, o) \/ PostCompletion(t, k, o)
               \/ \E kind \in {"read", "accept"} : Receive(t, k, o, kind)
    BY <2>3, SendStep, PostCompletionStep, ReceiveStep
  <2>4. CASE \E o \in Ops : OpKeyInit(t, o)
    BY <2>4, OpKeyInitStep
  <2> QED
    BY <1>3, <2>1, <2>2, <2>3, <2>4 DEF Begins
<1>4. ASSUME NEW f \in Fds, Network(f)
      PROVE  IInv'
  BY <1>4, NetworkStep
<1>5. CASE UNCHANGED vars
  BY <1>5, Stays
<1> QED
  BY <1>1, <1>2, <1>3, <1>4, <1>5 DEF Next

(* The counts are not negative, and count is at most the number of keys.   *)
LEMMA Typed == IInv => TypeOK
<1> SUFFICES ASSUME IInv PROVE TypeOK
  OBVIOUS
<1>1. TInv /\ KeyLists /\ KeyCounts /\ GroupCounts
  BY Exact DEF IInv
<1>2. count \in 0 .. Cardinality(Keys)
  <2>1. Cardinality(Keys) \in Nat
    BY FiniteSlots, FS_CardinalityType
  <2> QED
    BY <1>1, <2>1, FiniteSlots DEF KeyLists
<1>3. \A k \in Keys : key[k].ref_count \in Nat
  BY <1>1, FiniteSlots DEF KeyCounts, One
<1>4. \A g \in Groups : refs[g] \in Nat
  BY <1>1, FiniteSlots DEF GroupCounts
<1>5. key \in [Keys -> [fd : Fds \cup {NoFd}, closing : BOOLEAN, ref_count : Nat,
                        cb : BOOLEAN, connecting : BOOLEAN, grp_lock : Groups \cup {NoGroup}]]
  <2>1. ASSUME NEW k \in Keys
        PROVE  key[k] \in [fd : Fds \cup {NoFd}, closing : BOOLEAN, ref_count : Nat,
                           cb : BOOLEAN, connecting : BOOLEAN, grp_lock : Groups \cup {NoGroup}]
    <3>1. key[k] \in KeyRecords /\ key[k].ref_count \in Nat
      BY <1>1, <1>3 DEF TInv
    <3> QED
      BY <3>1 DEF KeyRecords
  <2> QED
    BY <1>1, <2>1 DEF TInv
<1>6. refs \in [Groups -> Nat]
  BY <1>1, <1>4 DEF TInv
<1>7. \A k \in Keys, c \in Kinds : list[k][c] \in Seq(Ops)
  BY <1>1 DEF TInv
<1>8. ASSUME NEW t \in Threads
      PROVE  poll[t].sets \in Sets /\ Len(poll[t].events) <= MaxEvents
  <2>1. PollSound(poll[t]) /\ poll[t] \in PollRecords
    BY <1>1, PollTypes
  <2> QED
    BY <2>1, Constants DEF PollSound, PollRecords
<1>9. /\ op \in [Ops -> OpRecords] /\ lock \in [Locks -> LockRecords]
      /\ sock \in [Fds -> SockRecords] /\ fdset \in Sets
      /\ {active_list, closing_list, free_list} \subseteq SUBSET Keys
  BY <1>1 DEF TInv
<1> QED
  BY <1>2, <1>5, <1>6, <1>7, <1>8, <1>9
     DEF TypeOK, OpRecords, LockRecords, SockRecords, Sets

(* A callback that runs with the lock of its key has it for itself.        *)
LEMMA Exclusive == IInv => CallbacksExclusive
<1> SUFFICES ASSUME IInv, ~AllowConcurrent,
                    NEW t \in Threads, NEW u \in Threads, NEW k \in Keys, t # u,
                    InCallback(t, k)
             PROVE  /\ ~InCallback(u, k)
                    /\ ~(api[u].key = k /\ api[u].pc \in {"drop", "unlock"})
  BY DEF CallbacksExclusive
<1>1. TInv /\ LInv /\ LockOf(k) \in Locks
  BY LockType DEF IInv
<1>2. ASSUME NEW v \in Threads, InCallback(v, k)
      PROVE  PollHolds(v, LockOf(k))
  <2>1. poll[v].pc = "callback" /\ Event(v).key = k
    BY <1>2 DEF InCallback, At
  <2>2. poll[v].has_lock
    BY <1>1, <2>1, PollTypes DEF PollSound, KeepsLock
  <2> QED
    BY <2>1, <2>2 DEF PollHolds
<1>3. \A v \in Threads : Holds(v, LockOf(k)) => lock[LockOf(k)].owner = v
  BY <1>1 DEF LInv
<1>4. Holds(t, LockOf(k))
  BY <1>2 DEF Holds
<1>5. ~Holds(u, LockOf(k))
  BY <1>3, <1>4
<1> QED
  BY <1>2, <1>5 DEF Holds, CallHolds

(* In every behaviour unregistering a key is safe (pj_ioqueue_unregister,  *)
(* decrement_counter, scan_closing_keys): its count is its registration    *)
(* and the events in flight, whichever threads still deliver them; the     *)
(* references of its group are as exact; the key is in one list; and no    *)
(* call that races with it puts a closed socket back into the sets.        *)
THEOREM UnregisterSafe == Spec => []UnregisterSound
<1>1. IInv => UnregisterSound
  BY Typed DEF UnregisterSound, IInv
<1> QED
  BY Start, Inductive, <1>1, PTL DEF Spec

(* In every behaviour, with concurrency disabled, callbacks of one key run *)
(* one at a time, and none runs while another thread is past the lock of   *)
(* pj_ioqueue_unregister.                                                  *)
THEOREM CallbacksOneAtATime == Spec => []CallbacksExclusive
  BY Start, Inductive, Exclusive, PTL DEF Spec

=============================================================================
