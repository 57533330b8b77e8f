------------------------------- MODULE Ioqueue -------------------------------
(***************************************************************************)
(* The I/O queue of PJLIB with its select() back end (ioqueue_select.c,    *)
(* ioqueue_common_abs.c): sockets are registered under keys, operations    *)
(* that would block wait in lists of the key with the socket's bit set in  *)
(* the descriptor sets, and polling threads select(), collect the events   *)
(* and complete the operations with callbacks.                             *)
(*                                                                         *)
(* Each section under ioqueue->lock is one step, and so is each stretch    *)
(* under a key's lock in which no other thread can see an intermediate     *)
(* state.  A read or an accept moves one unit of data, a write OpSize      *)
(* units.  Sockets and the network are the environment.  The three lists   *)
(* of keys are kept as sets: in which order they are scanned is left open. *)
(*                                                                         *)
(* PJ_IOQUEUE_KEY_FREE_DELAY (500 ms) is taken to outlast any call in      *)
(* progress: a closed key is not recycled while a thread still refers to   *)
(* it (StillUsed).                                                         *)
(***************************************************************************)
EXTENDS Integers, FiniteSets, SequencesExt

CONSTANTS Keys,             \* the keys created with the queue; max of them
          Fds, SockTypes,   \* descriptors, and the types of the sockets opened
          KeyGroups,        \* the group locks keys are registered with, or NoGroup
          Ops, NoOp,        \* operation keys
          Pollers, Clients, \* threads that poll; threads that make calls
          NoThread, NoFd, NoKey, NoGroup,
          Calls,            \* the calls made by clients and by callbacks
          SendsEarly,       \* clients send on a socket that is still connecting
          AllowConcurrent,  \* key->allow_concurrent
          MaxEvents,        \* PJ_IOQUEUE_MAX_CAND_EVENTS
          OpSize,           \* size of a write
          MaxData, MaxRoom  \* bounds of a socket's buffers

Threads == Pollers \cup Clients
Groups == KeyGroups \ {NoGroup}
Locks == Keys \cup Groups
Kinds == {"read", "write", "accept"}
Events == {"READABLE", "WRITEABLE", "EXCEPTION"}

ASSUME IoqueueAssumption ==
  /\ IsFiniteSet(Keys) /\ IsFiniteSet(Threads) /\ Keys \cap Groups = {}
  /\ NoKey \notin Keys /\ NoFd \notin Fds
  /\ NoOp \notin Ops /\ NoThread \notin Threads
  /\ SockTypes \subseteq {"dgram", "stream", "listen"}
  /\ Calls \in [{"client", "callback"} -> SUBSET {"register", "unregister", "read",
                                                  "write", "connect", "post"}]
  /\ SendsEarly \in BOOLEAN /\ AllowConcurrent \in BOOLEAN
  /\ MaxEvents \in Nat \ {0} /\ OpSize \in Nat \ {0}
  /\ MaxData \in Nat /\ MaxRoom \in Nat

VARIABLES
  active_list, closing_list, free_list, count,
  fdset,          \* rfdset, wfdset and xfdset, by event
  key, list,      \* the keys, and the read, write and accept list of each
  op,             \* each operation key: its op field and what is written
  lock,           \* key locks and group locks: owner and nesting
  refs,           \* references the queue has on each group lock
  sock,           \* environment: the sockets
  poll, api       \* where each thread is in pj_ioqueue_poll, in a call
vars == <<active_list, closing_list, free_list, count, fdset, key, list, op,
          lock, refs, sock, poll, api>>

queue == <<active_list, closing_list, free_list, count>>

NoSets == [e \in Events |-> {}]
PollIdle == [pc |-> "idle", sets |-> NoSets, events |-> <<>>, next |-> 1,
             op |-> NoOp, kind |-> "none", rc |-> "ok", has_lock |-> FALSE]
ApiIdle == [pc |-> "idle", key |-> NoKey, op |-> NoOp, kind |-> "none"]
Unlocked == [owner |-> NoThread, depth |-> 0]
Closed == [open |-> FALSE, type |-> "none", conn |-> "none", data |-> 0, room |-> 0]
NoKind == [op |-> "none", written |-> 0]

(* pj_ioqueue_create: every key is made at once and put in the free list.  *)
Init == /\ active_list = {} /\ closing_list = {} /\ count = 0
        /\ free_list = Keys
        /\ fdset = NoSets
        /\ key = [k \in Keys |-> [fd |-> NoFd, closing |-> FALSE, ref_count |-> 0,
                                  cb |-> FALSE, connecting |-> FALSE, grp_lock |-> NoGroup]]
        /\ list = [k \in Keys |-> [c \in Kinds |-> <<>>]]
        /\ op = [o \in Ops |-> NoKind]
        /\ lock = [l \in Locks |-> Unlocked]
        /\ refs = [g \in Groups |-> 0]
        /\ sock = [f \in Fds |-> Closed]
        /\ poll = [t \in Threads |-> PollIdle]
        /\ api = [t \in Threads |-> ApiIdle]

-----------------------------------------------------------------------------
(* pj_ioqueue_lock_key, _trylock_key and _unlock_key.                      *)
LockOf(k) == IF key[k].grp_lock = NoGroup THEN k ELSE key[k].grp_lock
Available(t, k) == lock[LockOf(k)].owner \in {NoThread, t}
Locked(t, k) == [lock EXCEPT ![LockOf(k)] = [owner |-> t, depth |-> @.depth + 1]]
Released(k) ==
  [lock EXCEPT ![LockOf(k)] =
     IF @.depth = 1 THEN Unlocked ELSE [owner |-> @.owner, depth |-> @.depth - 1]]

(* ioqueue_add_to_set and ioqueue_remove_from_set.                         *)
Set(f, events) == [e \in Events |-> IF e \in events THEN fdset[e] \cup {f} ELSE fdset[e]]
Cleared(f, events) == [e \in Events |-> IF e \in events THEN fdset[e] \ {f} ELSE fdset[e]]

(* The calls the socket functions of the system answer.                    *)
CanSend(f) == sock[f].conn = "up" /\ sock[f].room > 0
WouldBlock(f) == sock[f].conn = "pending" \/ (sock[f].conn = "up" /\ sock[f].room = 0)
Ready(e, f) ==
  /\ sock[f].open
  /\ CASE e = "READABLE"  -> sock[f].data > 0
       [] e = "WRITEABLE" -> CanSend(f) \/ sock[f].conn = "failed"
       [] e = "EXCEPTION" -> sock[f].conn = "failed"

Least(m, n) == IF m < n THEN m ELSE n

(* scan_closing_keys: keys whose time has come are free again.             *)
Event(t) == poll[t].events[poll[t].next]
StillUsed(k) ==
  \E t \in Threads :
    \/ poll[t].pc = "deref" /\ Event(t).key = k
    \/ api[t].key = k
Expired == {k \in closing_list : ~StillUsed(k)}
Scanned(keys) == /\ closing_list' = closing_list \ keys
                 /\ free_list' = free_list \cup keys

-----------------------------------------------------------------------------
(* pj_ioqueue_poll, up to select(): copy the sets, or only look after the  *)
(* closing keys when no descriptor is set.                                 *)
PollStart(t) ==
  /\ t \in Pollers /\ poll[t].pc = "idle" /\ api[t].pc = "idle"
  /\ IF fdset = NoSets
     THEN (\E keys \in SUBSET Expired : Scanned(keys)) /\ UNCHANGED <<active_list, count, poll>>
     ELSE /\ poll' = [poll EXCEPT ![t].pc = "select", ![t].sets = fdset]
          /\ UNCHANGED queue
  /\ UNCHANGED <<fdset, key, list, op, lock, refs, sock, api>>

(* select() returns the ready sockets, nothing when the time is out, or an *)
(* error when a descriptor was closed meanwhile.                           *)
Select(t) ==
  LET ready == [e \in Events |-> {f \in poll[t].sets[e] : Ready(e, f)}]
  IN  /\ poll[t].pc = "select"
      /\ \/ ready # NoSets /\ poll' = [poll EXCEPT ![t].pc = "collect", ![t].sets = ready]
         \/ ready = NoSets /\ poll' = [poll EXCEPT ![t] = PollIdle]
         \/ /\ \E e \in Events : \E f \in poll[t].sets[e] : ~sock[f].open
            /\ poll' = [poll EXCEPT ![t] = PollIdle]
      /\ UNCHANGED <<queue, fdset, key, list, op, lock, refs, sock, api>>

(* The scan of the active keys against the sets select() left: writeable,  *)
(* readable and exception events of each key, the first MaxEvents of them. *)
(* (Fault: a socket that only connects is not looked at.)                  *)
PendingWriteOnly(k) == list[k]["write"] # <<>>
PendingWrite(k) == list[k]["write"] # <<>> \/ key[k].connecting
PendingRead(k) == list[k]["read"] # <<>> \/ list[k]["accept"] # <<>>

HasEvent(k, e, sets) ==
  /\ key[k].fd \in sets[e] /\ ~key[k].closing
  /\ \/ e = "WRITEABLE" /\ PendingWrite(k)
     \/ e = "READABLE" /\ PendingRead(k)
     \/ e = "EXCEPTION" /\ key[k].connecting

Rank == [WRITEABLE |-> 1, READABLE |-> 2, EXCEPTION |-> 3]
Candidates(sets) ==
  LET found == {c \in [key : active_list, event : Events] : HasEvent(c.key, c.event, sets)}
      before(place, x, y) == \/ place[x.key] < place[y.key]
                             \/ x.key = y.key /\ Rank[x.event] < Rank[y.event]
  IN  {s \in [1 .. Least(MaxEvents, Cardinality(found)) -> found] :
         \E place \in Injection(active_list, 1 .. Cardinality(active_list)) :
           /\ \A i, j \in DOMAIN s : i < j => before(place, s[i], s[j])
           /\ \A c \in found : \/ \E i \in DOMAIN s : s[i] = c
                              \/ \A i \in DOMAIN s : before(place, s[i], c)}

EventsOn(events, k) == Cardinality({i \in DOMAIN events : events[i].key = k})
GroupEvents(events, g) ==
  Cardinality({i \in DOMAIN events : key[events[i].key].grp_lock = g})

(* The references every event takes on its key and on the key's group.     *)
(* (Fault: the group is not referenced.)                                   *)
CountedKeys(events) ==
  /\ key' = [k \in Keys |-> [key[k] EXCEPT !.ref_count = @ + EventsOn(events, k)]]
  /\ UNCHANGED refs
Counted(events) ==
  /\ key' = [k \in Keys |-> [key[k] EXCEPT !.ref_count = @ + EventsOn(events, k)]]
  /\ refs' = [g \in Groups |-> refs[g] + GroupEvents(events, g)]

Collect(t) ==
  /\ poll[t].pc = "collect"
  /\ \E events \in Candidates(poll[t].sets) :
       /\ Counted(events)
       /\ poll' = [poll EXCEPT ![t] = IF events = <<>> THEN PollIdle
                       ELSE [PollIdle EXCEPT !.pc = "dispatch", !.events = events]]
  /\ UNCHANGED <<queue, fdset, list, op, lock, sock, api>>

-----------------------------------------------------------------------------
(* ioqueue_dispatch_write_event, _read_event and _exception_event.         *)
At(t, pc) == poll[t].pc = pc

HasWork(k, e) ==
  \/ e # "READABLE" /\ key[k].connecting
  \/ e = "WRITEABLE" /\ list[k]["write"] # <<>>
  \/ e = "READABLE" /\ PendingRead(k)

(* The key is locked by another thread, closing, or served by another.     *)
Skip(t) ==
  LET k == Event(t).key
  IN  /\ At(t, "dispatch")
      /\ ~Available(t, k) \/ key[k].closing \/ ~HasWork(k, Event(t).event)
      /\ poll' = [poll EXCEPT ![t].pc = "release"]
      /\ UNCHANGED <<queue, fdset, key, list, op, lock, refs, sock, api>>

MayServe(t) == /\ At(t, "dispatch")
               /\ Available(t, Event(t).key) /\ ~key[Event(t).key].closing

(* The callback is called with the lock only if concurrency is disabled.   *)
(* (Fault: the lock is always given up first.)                             *)
KeepsLockNever == FALSE
KeepsLock == ~AllowConcurrent
ToDeliver(t, o, kind, rc) ==
  poll' = [poll EXCEPT ![t].pc = "deliver", ![t].op = o, ![t].kind = kind,
                       ![t].rc = rc, ![t].has_lock = KeepsLock]

(* The connect() ended, well or badly.                                     *)
ServeConnect(t) ==
  LET k == Event(t).key
  IN  /\ MayServe(t) /\ Event(t).event # "READABLE" /\ key[k].connecting
      /\ key' = [key EXCEPT ![k].connecting = FALSE]
      /\ fdset' = Cleared(key[k].fd, {"WRITEABLE", "EXCEPTION"})
      /\ lock' = IF KeepsLock THEN Locked(t, k) ELSE lock
      /\ ToDeliver(t, NoOp, "connect", IF sock[key[k].fd].conn = "up" THEN "ok" ELSE "error")
      /\ UNCHANGED <<queue, list, op, refs, sock, api>>

(* Take the first operation of a list off it; the socket's bit is cleared  *)
(* with the last.  (Fault: it is cleared with any.)                        *)
TakeOffClearing(k, kind, e) ==
  /\ list' = [list EXCEPT ![k][kind] = Tail(@)]
  /\ fdset' = Cleared(key[k].fd, {e})
TakeOff(k, kind, e) ==
  /\ list' = [list EXCEPT ![k][kind] = Tail(@)]
  /\ fdset' = IF Len(list[k][kind]) = 1 THEN Cleared(key[k].fd, {e}) ELSE fdset

ServeRead(t) ==
  LET k == Event(t).key
      kind == IF list[k]["accept"] # <<>> THEN "accept" ELSE "read"
      o == Head(list[k][kind])
      f == key[k].fd
  IN  /\ MayServe(t) /\ Event(t).event = "READABLE" /\ list[k][kind] # <<>>
      /\ TakeOff(k, kind, "READABLE")
      /\ op' = [op EXCEPT ![o] = NoKind]
      /\ sock' = [sock EXCEPT ![f].data = IF @ > 0 THEN @ - 1 ELSE 0]
      /\ lock' = IF KeepsLock THEN Locked(t, k) ELSE lock
      /\ ToDeliver(t, o, kind, IF sock[f].data > 0 THEN "ok" ELSE "again")
      /\ UNCHANGED <<queue, key, refs, api>>

(* The first write is chosen, and for a datagram taken off the list.       *)
ServeWrite(t) ==
  LET k == Event(t).key
  IN  /\ MayServe(t) /\ Event(t).event = "WRITEABLE"
      /\ ~key[k].connecting /\ list[k]["write"] # <<>>
      /\ IF sock[key[k].fd].type = "dgram" THEN TakeOff(k, "write", "WRITEABLE")
                                          ELSE UNCHANGED <<list, fdset>>
      /\ lock' = Locked(t, k)
      /\ poll' = [poll EXCEPT ![t].pc = "send", ![t].op = Head(list[k]["write"])]
      /\ UNCHANGED <<queue, key, op, refs, sock, api>>

(* What a stream socket takes of a write, and the whole of a datagram.     *)
Sent(f, size) == IF sock[f].type = "dgram" THEN 1 ELSE Least(sock[f].room, size)

(* The write itself.  It is over when all is written or send() fails, even *)
(* if it failed because the socket was full; else it stays first.          *)
Transfer(t) ==
  LET k == Event(t).key
      o == poll[t].op
      f == key[k].fd
      sent == IF CanSend(f) THEN Sent(f, OpSize - op[o].written) ELSE 0
      written == op[o].written + sent
      rc == IF CanSend(f) THEN "ok" ELSE IF WouldBlock(f) THEN "again" ELSE "error"
      over == rc # "ok" \/ written = OpSize \/ sock[f].type = "dgram"
  IN  /\ At(t, "send")
      /\ sock' = [sock EXCEPT ![f].room = @ - sent]
      /\ op' = [op EXCEPT ![o] = IF over THEN NoKind ELSE [@ EXCEPT !.written = written]]
      /\ IF over /\ sock[f].type # "dgram" THEN TakeOff(k, "write", "WRITEABLE")
                                          ELSE UNCHANGED <<list, fdset>>
      /\ lock' = IF over /\ KeepsLock THEN lock ELSE Released(k)
      /\ IF over THEN ToDeliver(t, o, "write", rc)
                 ELSE poll' = [poll EXCEPT ![t].pc = "release", ![t].op = NoOp]
      /\ UNCHANGED <<queue, key, refs, api>>

(* The callback is called if it is set and the key is not closing.         *)
Deliver(t) ==
  LET k == Event(t).key
  IN  /\ At(t, "deliver")
      /\ IF key[k].cb /\ ~key[k].closing
         THEN /\ poll' = [poll EXCEPT ![t].pc = "callback"]
              /\ UNCHANGED lock
         ELSE /\ poll' = [poll EXCEPT ![t].pc = "release"]
              /\ lock' = IF poll[t].has_lock THEN Released(k) ELSE lock
      /\ UNCHANGED <<queue, fdset, key, list, op, refs, sock, api>>

CallbackReturns(t) ==
  /\ At(t, "callback") /\ api[t].pc = "idle"
  /\ poll' = [poll EXCEPT ![t].pc = "release"]
  /\ lock' = IF poll[t].has_lock THEN Released(Event(t).key) ELSE lock
  /\ UNCHANGED <<queue, fdset, key, list, op, refs, sock, api>>

(* decrement_counter: the last reference moves the key to the closing      *)
(* list.  (Fault: unregister moves it, whatever is in flight.)             *)
MovedByOwner(k) ==
  IF key[k].closing THEN UNCHANGED <<active_list, closing_list>>
  ELSE active_list' = active_list \ {k} /\ closing_list' = closing_list \cup {k}
MovedByLast(k) ==
  IF key[k].ref_count > 1 THEN UNCHANGED <<active_list, closing_list>>
  ELSE active_list' = active_list \ {k} /\ closing_list' = closing_list \cup {k}

Release(t) ==
  /\ At(t, "release")
  /\ key' = [key EXCEPT ![Event(t).key].ref_count = @ - 1]
  /\ MovedByLast(Event(t).key)
  /\ UNCHANGED <<free_list, count>>
  /\ poll' = [poll EXCEPT ![t].pc = "deref"]
  /\ UNCHANGED <<fdset, list, op, lock, refs, sock, api>>

(* The group of the key is read again after the key was given back.        *)
LessRef(k) ==
  [g \in Groups |-> IF g = key[k].grp_lock THEN refs[g] - 1 ELSE refs[g]]

Deref(t) ==
  LET events == poll[t].events
      next == poll[t].next + 1
  IN  /\ At(t, "deref")
      /\ refs' = LessRef(Event(t).key)
      /\ poll' = [poll EXCEPT ![t] = IF next > Len(events) THEN PollIdle
                      ELSE [PollIdle EXCEPT !.pc = "dispatch", !.events = events, !.next = next]]
      /\ UNCHANGED <<queue, fdset, key, list, op, lock, sock, api>>

-----------------------------------------------------------------------------
(* Calls, made by a client or by a callback.                               *)
MayCall(t, call) ==
  /\ api[t].pc = "idle"
  /\ \/ At(t, "callback") /\ call \in Calls.callback
     \/ t \in Clients /\ At(t, "idle") /\ call \in Calls.client

(* The client calls on keys it has registered and not unregistered yet;    *)
(* the functions test closing first, and a socket closed meanwhile fails.  *)
IsOpen(k) == key[k].fd # NoFd /\ ~key[k].closing

Waits(t, pc, k, o, kind) ==
  api' = [api EXCEPT ![t] = [pc |-> pc, key |-> k, op |-> o, kind |-> kind]]
Returns(t) == api' = [api EXCEPT ![t] = ApiIdle]

(* pj_ioqueue_register_sock2 of a new socket, with ioqueue_init_key.  It   *)
(* fails, and changes nothing, when there are max keys or none is free.    *)
(* External: ioctl(FIONBIO) succeeds on a socket that is open.  (If it     *)
(* failed, :364-367 and :380-385, the key would be in no list any more.)   *)
NewSockets ==
  [open : {TRUE}, type : SockTypes, conn : {"none", "up"}, data : {0}, room : {MaxRoom}]
Startable(s) == s.conn = "none" => s.type = "stream" /\ "connect" \in Calls.client

InitKey(k, f, g) ==
  /\ key' = [key EXCEPT ![k] = [fd |-> f, closing |-> FALSE, ref_count |-> @.ref_count + 1,
                                cb |-> TRUE, connecting |-> FALSE, grp_lock |-> g]]
  /\ list' = [list EXCEPT ![k] = [c \in Kinds |-> <<>>]]
  /\ refs' = [h \in Groups |-> IF h = g THEN refs[h] + 1 ELSE refs[h]]

Register(t, f, g) ==
  /\ MayCall(t, "register") /\ ~sock[f].open
  /\ count < Cardinality(Keys)
  /\ \E keys \in SUBSET Expired : \E k \in free_list \cup keys :
       /\ closing_list' = closing_list \ keys
       /\ free_list' = (free_list \cup keys) \ {k}
       /\ active_list' = active_list \cup {k}
       /\ InitKey(k, f, g)
  /\ count' = count + 1
  /\ \E s \in NewSockets : Startable(s) /\ sock' = [sock EXCEPT ![f] = s]
  /\ UNCHANGED <<fdset, op, lock, poll, api>>

(* pj_ioqueue_unregister.                                                  *)
Unregister(t, k) ==
  /\ MayCall(t, "unregister") /\ IsOpen(k)
  /\ Waits(t, "unregister", k, NoOp, "none")
  /\ UNCHANGED <<queue, fdset, key, list, op, lock, refs, sock, poll>>

(* Unregistered twice, by two threads.  (Fault: it is not noticed.)        *)
NeverClosing(k) == FALSE
IsClosing(k) == key[k].closing

UnregisterAgain(t) ==
  LET k == api[t].key
  IN  /\ api[t].pc = "unregister" /\ Available(t, k) /\ IsClosing(k)
      /\ Returns(t)
      /\ UNCHANGED <<queue, fdset, key, list, op, lock, refs, sock, poll>>

(* Close the socket, clear its bits and the callbacks.                     *)
UnregisterClose(t) ==
  LET k == api[t].key
  IN  /\ api[t].pc = "unregister" /\ Available(t, k) /\ ~IsClosing(k)
      /\ lock' = Locked(t, k)
      /\ count' = IF count > 0 THEN count - 1 ELSE count
      /\ fdset' = Cleared(key[k].fd, Events)
      /\ sock' = [sock EXCEPT ![key[k].fd] = Closed]
      /\ key' = [key EXCEPT ![k].fd = NoFd, ![k].cb = FALSE]
      /\ api' = [api EXCEPT ![t].pc = "drop"]
      /\ UNCHANGED <<active_list, closing_list, free_list, list, op, refs, poll>>

UnregisterDrop(t) ==
  LET k == api[t].key
  IN  /\ api[t].pc = "drop"
      /\ key' = [key EXCEPT ![k].closing = TRUE, ![k].ref_count = @ - 1]
      /\ MovedByLast(k)
      /\ api' = [api EXCEPT ![t].pc = "unlock"]
      /\ UNCHANGED <<free_list, count, fdset, list, op, lock, refs, sock, poll>>

UnregisterEnd(t) ==
  LET k == api[t].key
  IN  /\ api[t].pc = "unlock"
      /\ refs' = LessRef(k)
      /\ lock' = Released(k)
      /\ Returns(t)
      /\ UNCHANGED <<queue, fdset, key, list, op, sock, poll>>

(* pj_ioqueue_recv, _recvfrom and _accept: at once if the socket has data. *)
Bit(kind) == IF kind = "write" THEN "WRITEABLE" ELSE "READABLE"
Suits(kind, f) ==
  CASE kind = "accept" -> sock[f].type = "listen"
    [] kind = "read"   -> sock[f].type # "listen"

ReceiveNow(t, k) ==
  LET f == key[k].fd
  IN  /\ MayCall(t, "read") /\ IsOpen(k) /\ sock[f].data > 0
      /\ sock[f].type = "listen" => list[k]["accept"] = <<>>
      /\ sock' = [sock EXCEPT ![f].data = @ - 1]
      /\ UNCHANGED <<queue, fdset, key, list, op, lock, refs, poll, api>>

(* Else the operation is marked, before the key is locked.  A read may be  *)
(* marked at once (PJ_IOQUEUE_ALWAYS_ASYNC), an accept if others wait.     *)
Receive(t, k, o, kind) ==
  LET f == key[k].fd
  IN  /\ MayCall(t, "read") /\ IsOpen(k) /\ op[o].op = "none"
      /\ Suits(kind, f)
      /\ kind = "accept" => sock[f].data = 0 \/ list[k]["accept"] # <<>>
      /\ op' = [op EXCEPT ![o].op = kind]
      /\ Waits(t, "add", k, o, kind)
      /\ UNCHANGED <<queue, fdset, key, list, lock, refs, sock, poll>>

(* pj_ioqueue_send and _sendto: the unlocked look at the write list, then  *)
(* the attempt to send at once.  (Fault: no look at the list.)             *)
AlwaysTries(k) == TRUE
MayTry(k) == list[k]["write"] = <<>>

Send(t, k, o) ==
  /\ MayCall(t, "write") /\ IsOpen(k)
  /\ sock[key[k].fd].type # "listen"
  /\ SendsEarly \/ (~key[k].connecting /\ sock[key[k].fd].conn # "pending")
  /\ Waits(t, IF MayTry(k) THEN "send" ELSE "queue", k, o, "write")
  /\ UNCHANGED <<queue, fdset, key, list, op, lock, refs, sock, poll>>

SendNow(t) ==
  LET k == api[t].key
      f == key[k].fd
  IN  /\ api[t].pc = "send"
      /\ IF f # NoFd /\ WouldBlock(f)
         THEN /\ api' = [api EXCEPT ![t].pc = "queue"]
              /\ UNCHANGED sock
         ELSE /\ sock' = IF f # NoFd /\ CanSend(f)
                         THEN [sock EXCEPT ![f].room = @ - Sent(f, OpSize)] ELSE sock
              /\ Returns(t)
      /\ UNCHANGED <<queue, fdset, key, list, op, lock, refs, poll>>

(* PJ_EBUSY when the operation key is still in use.                        *)
SendQueued(t) ==
  LET o == api[t].op
  IN  /\ api[t].pc = "queue"
      /\ IF op[o].op = "none"
         THEN /\ op' = [op EXCEPT ![o] = [op |-> "write", written |-> 0]]
              /\ api' = [api EXCEPT ![t].pc = "add"]
         ELSE Returns(t) /\ UNCHANGED op
      /\ UNCHANGED <<queue, fdset, key, list, lock, refs, sock, poll>>

(* With the key locked, closing is tested again: PJ_ECANCELLED leaves the  *)
(* operation marked.  (Fault: it is not tested.)                           *)
NotTested(k) == FALSE
ClosedMeanwhile(k) == key[k].closing

Add(t) ==
  LET k == api[t].key
      kind == api[t].kind
  IN  /\ api[t].pc = "add" /\ Available(t, k)
      /\ IF ClosedMeanwhile(k) THEN UNCHANGED <<list, fdset>>
         ELSE /\ list' = [list EXCEPT ![k][kind] = Append(@, api[t].op)]
              /\ fdset' = Set(key[k].fd, {Bit(kind)})
      /\ Returns(t)
      /\ UNCHANGED <<queue, key, op, lock, refs, sock, poll>>

(* pj_ioqueue_connect.                                                     *)
Connect(t, k) ==
  LET f == key[k].fd
  IN  /\ MayCall(t, "connect") /\ IsOpen(k) /\ ~key[k].connecting
      /\ sock[f].type = "stream" /\ sock[f].conn = "none"
      /\ sock' = [sock EXCEPT ![f].conn = "pending"]
      /\ Waits(t, "connect", k, NoOp, "connect")
      /\ UNCHANGED <<queue, fdset, key, list, op, lock, refs, poll>>

AddConnect(t) ==
  LET k == api[t].key
  IN  /\ api[t].pc = "connect" /\ Available(t, k)
      /\ IF ClosedMeanwhile(k) THEN UNCHANGED <<key, fdset>>
         ELSE /\ key' = [key EXCEPT ![k].connecting = TRUE]
              /\ fdset' = Set(key[k].fd, {"WRITEABLE", "EXCEPTION"})
      /\ Returns(t)
      /\ UNCHANGED <<queue, list, op, lock, refs, sock, poll>>

(* pj_ioqueue_post_completion: the operation is taken off its list and its *)
(* callback called, without the lock.  The bits of the socket stay.        *)
PostCompletion(t, k, o) ==
  /\ MayCall(t, "post") /\ IsOpen(k) /\ Available(t, k)
  /\ \E kind \in Kinds : \E i \in DOMAIN list[k][kind] :
       /\ list[k][kind][i] = o
       /\ list' = [list EXCEPT ![k][kind] = RemoveAt(@, i)]
       /\ Waits(t, "posted", k, o, kind)
  /\ op' = [op EXCEPT ![o] = NoKind]
  /\ UNCHANGED <<queue, fdset, key, lock, refs, sock, poll>>

PostReturns(t) ==
  /\ api[t].pc = "posted"
  /\ Returns(t)
  /\ UNCHANGED <<queue, fdset, key, list, op, lock, refs, sock, poll>>

(* pj_ioqueue_op_key_init, of an operation left marked by a closed key.    *)
OpKeyInit(t, o) ==
  /\ op[o].op # "none"
  /\ MayCall(t, "read") \/ MayCall(t, "write")
  /\ \A k \in Keys : IsOpen(k) => \A c \in Kinds : ~Contains(list[k][c], o)
  /\ \A u \in Threads : api[u].op # o /\ poll[u].op # o
  /\ op' = [op EXCEPT ![o] = NoKind]
  /\ UNCHANGED <<queue, fdset, key, list, lock, refs, sock, poll, api>>

-----------------------------------------------------------------------------
(* The network.                                                            *)
Arrive(f) == /\ sock[f].open /\ sock[f].conn = "up" /\ sock[f].data < MaxData
             /\ sock' = [sock EXCEPT ![f].data = @ + 1]
Drain(f) == /\ sock[f].open /\ sock[f].room < MaxRoom
            /\ sock' = [sock EXCEPT ![f].room = @ + 1]
ConnectEnds(f) == /\ sock[f].conn = "pending"
                  /\ \E c \in {"up", "failed"} : sock' = [sock EXCEPT ![f].conn = c]
Network(f) == /\ Arrive(f) \/ Drain(f) \/ ConnectEnds(f)
              /\ UNCHANGED <<queue, fdset, key, list, op, lock, refs, poll, api>>

Poll(t) ==
  \/ PollStart(t) \/ Select(t) \/ Collect(t) \/ Skip(t)
  \/ ServeConnect(t) \/ ServeRead(t) \/ ServeWrite(t) \/ Transfer(t)
  \/ Deliver(t) \/ CallbackReturns(t) \/ Release(t) \/ Deref(t)

(* The rest of a call once begun.                                          *)
Goes(t) ==
  \/ UnregisterAgain(t) \/ UnregisterClose(t) \/ UnregisterDrop(t) \/ UnregisterEnd(t)
  \/ SendNow(t) \/ SendQueued(t) \/ Add(t) \/ AddConnect(t) \/ PostReturns(t)

Begins(t) ==
  \/ \E f \in Fds, g \in KeyGroups : Register(t, f, g)
  \/ \E k \in Keys : Unregister(t, k) \/ ReceiveNow(t, k) \/ Connect(t, k)
  \/ \E k \in Keys, o \in Ops :
       \/ Send(t, k, o) \/ PostCompletion(t, k, o)
       \/ \E kind \in {"read", "accept"} : Receive(t, k, o, kind)
  \/ \E o \in Ops : OpKeyInit(t, o)

Next == \/ \E t \in Threads : Poll(t) \/ Goes(t) \/ Begins(t)
        \/ \E f \in Fds : Network(f)

Spec == Init /\ [][Next]_vars
Fairness == \A t \in Threads : WF_vars(Poll(t)) /\ WF_vars(Goes(t))
FairSpec == Spec /\ Fairness

-----------------------------------------------------------------------------
(* The lists, counts, sets and records hold what they may, and no poll     *)
(* collects more than PJ_IOQUEUE_MAX_CAND_EVENTS events.                   *)
TypeOK ==
  /\ {active_list, closing_list, free_list} \subseteq SUBSET Keys
  /\ count \in 0 .. Cardinality(Keys)
  /\ fdset \in [Events -> SUBSET (Fds \cup {NoFd})]
  /\ key \in [Keys -> [fd : Fds \cup {NoFd}, closing : BOOLEAN, ref_count : Nat,
                       cb : BOOLEAN, connecting : BOOLEAN, grp_lock : Groups \cup {NoGroup}]]
  /\ \A k \in Keys, c \in Kinds : list[k][c] \in Seq(Ops)
  /\ op \in [Ops -> [op : Kinds \cup {"none"}, written : 0 .. OpSize]]
  /\ lock \in [Locks -> [owner : Threads \cup {NoThread}, depth : Nat]]
  /\ refs \in [Groups -> Nat]
  /\ sock \in [Fds -> [open : BOOLEAN, type : SockTypes \cup {"none"},
                       conn : {"none", "pending", "up", "failed"},
                       data : 0 .. MaxData, room : 0 .. MaxRoom]]
  /\ \A t \in Threads : poll[t].sets \in [Events -> SUBSET (Fds \cup {NoFd})]
                        /\ Len(poll[t].events) <= MaxEvents

(* Safe unregistration: the reference count of a key is its registration,  *)
(* until unregister gives that back, and each event collected and not yet  *)
(* finished by any thread; the key stays in the active list while it is    *)
(* referenced and is in one list only; count is the sockets registered.    *)
Registered(k) ==
  \/ IsOpen(k)
  \/ \E t \in Threads : api[t].pc = "drop" /\ api[t].key = k
Unfinished(t) ==
  {i \in DOMAIN poll[t].events : i > poll[t].next \/ (i = poll[t].next /\ ~At(t, "deref"))}
Unpassed(t) == {i \in DOMAIN poll[t].events : i >= poll[t].next}
Slots == Threads \X (1 .. MaxEvents)

RefCountExact ==
  /\ \A k \in Keys :
       key[k].ref_count =
         (IF Registered(k) THEN 1 ELSE 0)
         + Cardinality({x \in Slots : /\ x[2] \in Unfinished(x[1])
                                      /\ poll[x[1]].events[x[2]].key = k})
  /\ active_list = {k \in Keys : key[k].ref_count > 0}
  /\ active_list \cup closing_list \cup free_list = Keys
  /\ active_list \cap closing_list = {}
  /\ free_list \cap (active_list \cup closing_list) = {}
  /\ count = Cardinality({k \in Keys : key[k].fd # NoFd})

(* The references the queue has on a group lock: one for each key until    *)
(* the end of its unregister, one for each event until it is past the last *)
(* look at the key's group, also when the key was given back before.       *)
GroupRefsExact ==
  \A g \in Groups :
    refs[g] =
      Cardinality({k \in Keys : /\ key[k].grp_lock = g
                                /\ \/ Registered(k)
                                   \/ \E t \in Threads : api[t].pc = "unlock" /\ api[t].key = k})
      + Cardinality({x \in Slots : /\ x[2] \in Unpassed(x[1])
                                   /\ key[poll[x[1]].events[x[2]].key].grp_lock = g})

(* A descriptor in the sets is that of a registered socket, whatever calls *)
(* race with unregister (a bad handle "will corrupt the ioqueue set").     *)
SetsSound ==
  \A e \in Events : \A f \in fdset[e] :
    f # NoFd /\ \E k \in Keys : key[k].fd = f

(* Unregistering, by a client or in a callback, while others are past the  *)
(* test of closing or hold events of the key: both counts stay exact, and  *)
(* the descriptor does not come back into the sets.                        *)
UnregisterSound == TypeOK /\ RefCountExact /\ GroupRefsExact /\ SetsSound

(* A socket with something to wait for is in the sets (the first halves of *)
(* the tests of validate_sets): else no poll would ever complete it.       *)
NoLostWakeup ==
  \A k \in Keys : key[k].fd # NoFd =>
    /\ PendingRead(k) => key[k].fd \in fdset["READABLE"]
    /\ list[k]["write"] # <<>> \/ key[k].connecting => key[k].fd \in fdset["WRITEABLE"]
    /\ key[k].connecting => key[k].fd \in fdset["EXCEPTION"]

(* Without concurrency one thread at a time delivers to a key, and none    *)
(* does while another has got past the lock in unregister; callbacks of    *)
(* pj_ioqueue_post_completion apart, which are called without the lock.    *)
InCallback(t, k) == At(t, "callback") /\ Event(t).key = k
CallbacksExclusive ==
  ~AllowConcurrent => \A t, u \in Threads, k \in Keys : t # u =>
    /\ ~(InCallback(t, k) /\ InCallback(u, k))
    /\ ~(InCallback(t, k) /\ api[u].key = k /\ api[u].pc \in {"drop", "unlock"})

(* While a write is partly done nothing but its rest goes out on its       *)
(* socket.                                                                 *)
Partly(k) == /\ list[k]["write"] # <<>> /\ key[k].fd # NoFd
             /\ op[Head(list[k]["write"])].written > 0
BytesInOrder ==
  [][\A k \in Keys :
       Partly(k) /\ sock'[key[k].fd].open /\ sock'[key[k].fd].room < sock[key[k].fd].room
         => \E t \in Threads : At(t, "send") /\ ~At(t, "send")' /\ Event(t).key = k]_vars

(* An operation its socket could complete does not stay so: it is          *)
(* completed, or the socket stops being ready, or the key is closed.       *)
Answerable(o) ==
  \E k \in Keys, kind \in Kinds :
    IsOpen(k) /\ Contains(list[k][kind], o) /\ Ready(Bit(kind), key[k].fd)
Connectable(k) == IsOpen(k) /\ key[k].connecting /\ Ready("WRITEABLE", key[k].fd)
NoStall == /\ \A o \in Ops : Answerable(o) ~> ~Answerable(o)
           /\ \A k \in Keys : Connectable(k) ~> ~Connectable(k)
=============================================================================
