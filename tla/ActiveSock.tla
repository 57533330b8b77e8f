------------------------------ MODULE ActiveSock ------------------------------
(***************************************************************************)
(* The active socket (activesock.c): one socket that is read for ever and  *)
(* sends whole blocks, with the options of pj_activesock_cfg_default.      *)
(*                                                                         *)
(* asock is the pj_activesock_t, rd its only read operation, op the keys   *)
(* of the sends.  key is what the I/O queue keeps for the socket, module   *)
(* Ioqueue has it in full: with whole_data concurrency is off, so that a   *)
(* worker keeps the lock of the key while it delivers an event, callback   *)
(* included.  poll[w] is the worker w in an event, api[t] the thread t in  *)
(* a call of the active socket, which may be made from a callback.         *)
(*                                                                         *)
(* The peer sends units numbered from 1, of which the socket has passed on *)
(* `read'; room is what can be written.  kept is what a callback left in   *)
(* the buffer and eaten the units that the application is done with.       *)
(* closed is history: the threads a close has returned to.                 *)
(***************************************************************************)
EXTENDS Integers, Sequences

CONSTANTS Workers, Clients,   \* threads that poll, and others
          Ops,                \* op keys of the application
          Len0,               \* length of a block
          MaxSize,            \* size of the read buffer
          MaxKeep,            \* what a callback leaves in it at most
          MaxLoop,            \* PJ_ACTIVESOCK_MAX_LOOP
          MaxUnits, MaxRoom,  \* bounds: units of the peer, room of the socket
          None

ASSUME ActiveSockAssumption ==
  /\ {Len0, MaxSize, MaxLoop} \subseteq Nat \ {0} /\ {MaxKeep, MaxUnits, MaxRoom} \subseteq Nat
  /\ MaxKeep < MaxSize /\ None \notin Workers \cup Clients \cup Ops

VARIABLES stream, asock, rd, op, key, peer, poll, api, eaten, closed
vars == <<stream, asock, rd, op, key, peer, poll, api, eaten, closed>>

Threads == Workers \cup Clients
Smaller(a, b) == IF a < b THEN a ELSE b

IdlePoll == [pc |-> "idle", status |-> "none", loop |-> 0, op |-> None, sent |-> 0]
IdleApi  == [pc |-> "idle", op |-> None, size |-> 0]

Init ==
  /\ stream \in BOOLEAN
  /\ asock = [key |-> TRUE, shutdown |-> FALSE, len |-> 0, sent |-> 0]
  /\ rd = [started |-> FALSE, pending |-> FALSE, pkt |-> <<>>]
  /\ op = [o \in Ops |-> [data |-> FALSE, wire |-> 0, busy |-> FALSE]]
  /\ key = [lock |-> None, closing |-> FALSE, list |-> <<>>]
  /\ peer = [state |-> "up", sent |-> 0, read |-> 0, room |-> MaxRoom]
  /\ poll = [w \in Workers |-> IdlePoll] /\ api = [t \in Threads |-> IdleApi]
  /\ eaten = 0 /\ closed = {}

(* (Fault: the lock of the key is not waited for.)                         *)
CanLockAlways(t) == TRUE
CanLock(t) == key.lock \in {None, t}
InCallback(t) == t \in Workers /\ poll[t].pc \in {"read_cb", "sent_cb"}
CanAct(t) == api[t].pc = "idle" /\ (t \in Clients \/ InCallback(t))
Call(t, pc, o, size) == api' = [api EXCEPT ![t] = [pc |-> pc, op |-> o, size |-> size]]
Return(t) == api' = [api EXCEPT ![t] = IdleApi]

-----------------------------------------------------------------------------
(* Reading.  What recv() comes to with pkt in the buffer: the number of    *)
(* units, a final status, or nothing yet.  A buffer that is full reads 0   *)
(* units, which is what the end of the stream is, too.                     *)
Recv(pkt) ==
  LET left == peer.sent - peer.read
      n == IF stream THEN Smaller(left, MaxSize - Len(pkt)) ELSE 1
  IN  CASE left > 0 /\ n > 0 -> [status |-> "data", n |-> n]
        [] stream /\ Len(pkt) = MaxSize -> [status |-> "eof", n |-> 0]
        [] OTHER -> [status |-> IF peer.state = "up" THEN "again" ELSE peer.state, n |-> 0]
Units(n) == [i \in 1 .. n |-> peer.read + i]

(* pj_activesock_start_read.                                               *)
StartRead(t) ==
  /\ t \in Clients /\ CanAct(t) /\ ~asock.shutdown /\ ~rd.started
  /\ rd' = [rd EXCEPT !.started = TRUE, !.pending = TRUE]
  /\ UNCHANGED <<stream, asock, op, key, peer, poll, api, eaten, closed>>

(* The callback of the application is called for what was received; size   *)
(* is what was left in the buffer before.                                  *)
Deliver(w, pkt, got, loop) ==
  /\ rd' = [rd EXCEPT !.pkt = pkt \o Units(got.n), !.pending = FALSE]
  /\ peer' = [peer EXCEPT !.read = @ + got.n]
  /\ poll' = [poll EXCEPT ![w] = [IdlePoll EXCEPT !.pc = "read_cb", !.status = got.status,
                                                  !.loop = loop]]
  /\ key' = [key EXCEPT !.lock = w]
EventDone(w) == poll' = [poll EXCEPT ![w] = IdlePoll] /\ key' = [key EXCEPT !.lock = None]

(* (Fault: the callback is called after a shutdown, too.)                  *)
NeverIgnored == FALSE
Ignored == asock.shutdown

(* The event of the I/O queue, and ioqueue_on_read_complete up to the      *)
(* first callback.                                                         *)
PollRead(w) ==
  /\ poll[w].pc = "idle" /\ key.lock = None /\ ~key.closing /\ rd.pending
  /\ Recv(rd.pkt).status # "again"
  /\ IF Ignored
     THEN /\ rd' = [rd EXCEPT !.pending = FALSE]
          /\ peer' = [peer EXCEPT !.read = @ + Recv(rd.pkt).n]
          /\ UNCHANGED <<key, poll>>
     ELSE Deliver(w, rd.pkt, Recv(rd.pkt), 0)
  /\ UNCHANGED <<stream, asock, op, api, eaten, closed>>

(* The rest of the loop, with what the callback kept.  The operation stays *)
(* with the queue if there is nothing to read, or after MaxLoop rounds     *)
(* (so that the counter does not wrap).                                    *)
(* (Fault: the loop is never left while there is something.)               *)
AsyncNever(loop) == FALSE
ForcedAsync(loop) == loop >= MaxLoop

ReadNext(w, pkt) ==
  LET got == Recv(pkt)
      loop == (poll[w].loop + 1) % (MaxLoop + 1)
  IN  IF key.closing
      THEN /\ rd' = [rd EXCEPT !.pkt = pkt] /\ EventDone(w)
           /\ UNCHANGED peer
      ELSE IF ForcedAsync(loop) \/ got.status = "again"
      THEN /\ rd' = [rd EXCEPT !.pkt = pkt, !.pending = TRUE] /\ EventDone(w)
           /\ UNCHANGED peer
      ELSE Deliver(w, pkt, got, loop)

(* The application answers that it wants no more, having closed or not,    *)
(* or it has left the last units in front of the buffer.                   *)
ReadCbFalse(w) ==
  /\ poll[w].pc = "read_cb" /\ api[w].pc = "idle"
  /\ EventDone(w)
  /\ UNCHANGED <<stream, asock, rd, op, peer, api, eaten, closed>>

(* (Fault: the remainder is forgotten.)                                    *)
KeptNothing(n) == <<>>
Kept(n) == SubSeq(rd.pkt, Len(rd.pkt) - n + 1, Len(rd.pkt))

ReadCbTrue(w, n) ==
  /\ poll[w].pc = "read_cb" /\ api[w].pc = "idle"
  /\ n <= Len(rd.pkt) /\ (stream \/ n = 0)
  /\ eaten' = eaten + Len(rd.pkt) - n
  /\ IF poll[w].status # "data" /\ asock.shutdown
     THEN EventDone(w) /\ UNCHANGED <<rd, peer>>
     ELSE ReadNext(w, Kept(n))
  /\ UNCHANGED <<stream, asock, op, api, closed>>

-----------------------------------------------------------------------------
(* Sending on a stream.  The application has one block under way at a      *)
(* time: send_data is a member of the socket.                              *)
Send(t, o) ==
  /\ CanAct(t) /\ stream /\ ~asock.shutdown
  /\ \A p \in Ops : ~op[p].busy
  /\ op' = [op EXCEPT ![o] = [data |-> FALSE, wire |-> 0, busy |-> TRUE]]
  /\ Call(t, "send", o, Len0)
  /\ UNCHANGED <<stream, asock, rd, key, peer, poll, eaten, closed>>

Wired(o, n) == /\ op' = [op EXCEPT ![o].wire = @ + n]
               /\ peer' = [peer EXCEPT !.room = @ - n]
Fails == ~asock.key \/ key.closing \/ peer.state = "reset"
Failed(t, o) == /\ op' = [op EXCEPT ![o].busy = FALSE, ![o].data = FALSE]
                /\ Return(t)
                /\ UNCHANGED peer

(* pj_ioqueue_send: at once if nothing waits and there is room.            *)
SendFirst(t) ==
  LET o == api[t].op
      n == Smaller(peer.room, Len0)
  IN  /\ api[t].pc = "send"
      /\ IF Fails THEN Failed(t, o)
         ELSE IF key.list = <<>> /\ n > 0
         THEN Wired(o, n) /\ Call(t, IF n = Len0 THEN "sent" ELSE "partial", o, n)
         ELSE Call(t, "queue", o, Len0) /\ UNCHANGED <<op, peer>>
      /\ UNCHANGED <<stream, asock, rd, key, poll, eaten, closed>>

(* A part was sent.  (Fault: the key does not get to know it.)             *)
NotLinked(o) == op
Linked(o) == [op EXCEPT ![o].data = TRUE]
SetSendData(t) ==
  /\ api[t].pc = "partial"
  /\ asock' = [asock EXCEPT !.len = Len0, !.sent = api[t].size]
  /\ op' = Linked(api[t].op)
  /\ Call(t, "remaining", api[t].op, 0)
  /\ UNCHANGED <<stream, rd, key, peer, poll, eaten, closed>>

SendRemaining(t) ==
  LET o == api[t].op
      size == asock.len - asock.sent
      n == Smaller(peer.room, size)
  IN  /\ api[t].pc = "remaining"
      /\ IF Fails THEN Failed(t, o) /\ UNCHANGED asock
         ELSE IF key.list = <<>> /\ n > 0
         THEN /\ Wired(o, n)
              /\ asock' = [asock EXCEPT !.sent = @ + n]
              /\ IF n = size THEN Call(t, "sent", o, Len0) ELSE UNCHANGED api
         ELSE Call(t, "queue", o, size) /\ UNCHANGED <<asock, op, peer>>
      /\ UNCHANGED <<stream, rd, key, poll, eaten, closed>>

(* The rest waits in the list of the key.                                  *)
Queue(t) ==
  LET o == api[t].op
  IN  /\ api[t].pc = "queue" /\ CanLock(t)
      /\ IF key.closing
         THEN Failed(t, o) /\ UNCHANGED key
         ELSE /\ key' = [key EXCEPT !.list =
                           Append(@, [op |-> o, len |-> api[t].size, written |-> 0])]
              /\ Return(t)
              /\ UNCHANGED <<op, peer>>
      /\ UNCHANGED <<stream, asock, rd, poll, eaten, closed>>

(* pj_activesock_send returns PJ_SUCCESS with the size it sent.            *)
SendReturns(t) ==
  /\ api[t].pc = "sent"
  /\ op' = [op EXCEPT ![api[t].op].busy = FALSE]
  /\ Return(t)
  /\ UNCHANGED <<stream, asock, rd, key, peer, poll, eaten, closed>>

(* The I/O queue writes the head of the list, and reports it when all of   *)
(* it has been written or when that fails.                                 *)
PollWrite(w) ==
  LET head == Head(key.list)
      n == Smaller(peer.room, head.len - head.written)
      ends == peer.state = "reset" \/ head.written + n = head.len
      result == IF peer.state = "reset" THEN -1 ELSE head.len
  IN  /\ poll[w].pc = "idle" /\ key.lock = None /\ ~key.closing /\ key.list # <<>>
      /\ peer.state = "reset" \/ n > 0
      /\ IF peer.state = "reset" THEN UNCHANGED <<op, peer>> ELSE Wired(head.op, n)
      /\ IF ends
         THEN /\ key' = [key EXCEPT !.list = Tail(@), !.lock = w]
              /\ poll' = [poll EXCEPT ![w] = [IdlePoll EXCEPT !.pc = "written", !.op = head.op,
                                                              !.sent = result]]
         ELSE /\ key' = [key EXCEPT !.list[1].written = @ + n]
              /\ UNCHANGED poll
      /\ UNCHANGED <<stream, asock, rd, api, eaten, closed>>

(* ioqueue_on_write_complete.  Its branch for a completion with less than  *)
(* the rest of the block (:733-746) is not here: PollWrite completes an    *)
(* operation only when it fails or its last unit is out (ioqueue_common_   *)
(* abs.c:326-329), and SentWhole says that the sum is then the block.      *)
WriteComplete(w) ==
  LET o == poll[w].op
      sent == IF op[o].data /\ poll[w].sent > 0 THEN asock.sent + poll[w].sent ELSE poll[w].sent
  IN  /\ poll[w].pc = "written"
      /\ IF Ignored THEN EventDone(w) /\ UNCHANGED <<op, asock>>
         ELSE /\ poll' = [poll EXCEPT ![w].pc = "sent_cb", ![w].sent = sent]
              /\ asock' = IF op[o].data THEN [asock EXCEPT !.sent = sent] ELSE asock
              /\ op' = [op EXCEPT ![o].data = FALSE, ![o].busy = FALSE]
              /\ UNCHANGED key
      /\ UNCHANGED <<stream, rd, peer, api, eaten, closed>>

SentCbReturns(w) ==
  /\ poll[w].pc = "sent_cb" /\ api[w].pc = "idle"
  /\ EventDone(w)
  /\ UNCHANGED <<stream, asock, rd, op, peer, api, eaten, closed>>

-----------------------------------------------------------------------------
(* pj_activesock_close: the key is taken away under its lock, so that one  *)
(* thread only unregisters it.                                             *)
Close(t) ==
  /\ CanAct(t)
  /\ asock' = [asock EXCEPT !.shutdown = TRUE]
  /\ IF asock.key THEN Call(t, "close", None, 0) /\ UNCHANGED closed
                  ELSE closed' = closed \cup {t} /\ UNCHANGED api
  /\ UNCHANGED <<stream, rd, op, key, peer, poll, eaten>>

TakeKey(t) ==
  /\ api[t].pc = "close" /\ CanLock(t)
  /\ asock' = [asock EXCEPT !.key = FALSE]
  /\ IF asock.key THEN Call(t, "unregister", None, 0) /\ UNCHANGED closed
                  ELSE Return(t) /\ closed' = closed \cup {t}
  /\ UNCHANGED <<stream, rd, op, key, peer, poll, eaten>>

(* pj_ioqueue_unregister.                                                  *)
Unregister(t) ==
  /\ api[t].pc = "unregister" /\ CanLock(t)
  /\ key' = [key EXCEPT !.closing = TRUE, !.list = <<>>]
  /\ Return(t) /\ closed' = closed \cup {t}
  /\ UNCHANGED <<stream, asock, rd, op, peer, poll, eaten>>

(* The peer and the network.                                               *)
PeerSends == /\ peer.state = "up" /\ peer.sent < MaxUnits
             /\ peer' = [peer EXCEPT !.sent = @ + 1]
             /\ UNCHANGED <<stream, asock, rd, op, key, poll, api, eaten, closed>>
PeerEnds(state) == /\ peer.state = "up" /\ stream
                   /\ peer' = [peer EXCEPT !.state = state]
                   /\ UNCHANGED <<stream, asock, rd, op, key, poll, api, eaten, closed>>
Drain == /\ peer.room < MaxRoom
         /\ peer' = [peer EXCEPT !.room = @ + 1]
         /\ UNCHANGED <<stream, asock, rd, op, key, poll, api, eaten, closed>>

ApiStep(t) == SendFirst(t) \/ SetSendData(t) \/ SendRemaining(t) \/ Queue(t) \/ SendReturns(t)
              \/ TakeKey(t) \/ Unregister(t)
CbReturns(w) == ReadCbFalse(w) \/ SentCbReturns(w) \/ \E n \in 0 .. MaxKeep : ReadCbTrue(w, n)

Next ==
  \/ \E t \in Threads : StartRead(t) \/ Close(t) \/ ApiStep(t) \/ \E o \in Ops : Send(t, o)
  \/ \E w \in Workers : PollRead(w) \/ PollWrite(w) \/ WriteComplete(w) \/ CbReturns(w)
  \/ PeerSends \/ Drain \/ \E state \in {"eof", "reset"} : PeerEnds(state)

Spec == Init /\ [][Next]_vars

(* Threads go on with what they have begun, and callbacks return.          *)
FairSpec == /\ Spec
            /\ \A t \in Threads : WF_vars(ApiStep(t))
            /\ \A w \in Workers : WF_vars(WriteComplete(w)) /\ SF_vars(CbReturns(w))

-----------------------------------------------------------------------------
(* The buffer holds, in their order, the units that the application has    *)
(* not eaten, none lost and none twice over any number of callbacks that   *)
(* leave a part of them behind; and the end of the stream is reported only *)
(* when the peer has ended it and all of it was read.                      *)
ReadSound ==
  /\ ~asock.shutdown =>
       /\ rd.pkt = [i \in 1 .. Len(rd.pkt) |-> eaten + i]
       /\ eaten + Len(rd.pkt) = peer.read
  /\ \A w \in Workers : poll[w].pc = "read_cb" /\ poll[w].status = "eof" =>
       peer.state = "eof" /\ peer.read = peer.sent

(* activesock.h, whole_data: a block is reported as sent, by the callback  *)
(* or by the return of the call, once all of it has gone to the socket and *)
(* with its whole size, through whatever parts it went.                    *)
SentWhole ==
  /\ \A w \in Workers : poll[w].pc = "sent_cb" /\ poll[w].sent > 0 =>
       poll[w].sent = Len0
  /\ \A w \in Workers : poll[w].pc = "written" /\ op[poll[w].op].data /\ poll[w].sent > 0 =>
       asock.sent + poll[w].sent = asock.len
  /\ \A t \in Threads : api[t].pc = "sent" => op[api[t].op].wire = Len0
  /\ \A e \in {key.list[i] : i \in DOMAIN key.list} :
       op[e.op].wire + e.len - e.written = Len0

(* activesock.c:286-295 takes the key away under its lock and unregisters  *)
(* it.  Once a close has returned, to any of several threads, the only     *)
(* callback still running is that of a worker which itself has closed the  *)
(* socket or is about to unregister it, the unregistration (or the loss of *)
(* the race for the key) having waited for every other; and no callback is *)
(* begun, that one's worker being given no further round of its loop.      *)
ClosedIt(w) == w \in closed \/ api[w].pc = "unregister"
ClosedQuiet ==
  [][closed' # {} => \A w \in Workers : InCallback(w)' =>
       /\ ClosedIt(w)'
       /\ closed # {} => InCallback(w) /\ poll'[w].loop = poll[w].loop]_vars

(* A worker gets back to its other work, whatever arrives and whatever its *)
(* callbacks answer.                                                       *)
WorkersReturn == \A w \in Workers : poll[w].pc # "idle" ~> poll[w].pc = "idle"
=============================================================================
