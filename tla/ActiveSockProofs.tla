-------------------------- MODULE ActiveSockProofs --------------------------
(***************************************************************************)
(* Theorems about ActiveSock, for every number of threads, every block and *)
(* buffer size and every schedule: what is read reaches the application    *)
(* whole and in order, a block is reported as sent when all of it has gone *)
(* to the socket, and once a close has returned no callback begins and     *)
(* none is running but one that has closed the socket itself.              *)
(***************************************************************************)
EXTENDS ActiveSock, TLAPS

Sending == {"send", "partial", "remaining", "queue", "sent"}
Statuses == {"none", "data", "up", "eof", "reset"}
Blocks == [op : Ops, len : Int, written : Int]

Asocks == [key : BOOLEAN, shutdown : BOOLEAN, len : Int, sent : Int]
Reading == [started : BOOLEAN, pending : BOOLEAN, pkt : Seq(Int)]
OpKeys == [data : BOOLEAN, wire : Int, busy : BOOLEAN]
Keys == [lock : Workers \cup {None}, closing : BOOLEAN, list : Seq(Blocks)]
Peers == [state : {"up", "eof", "reset"}, sent : Nat, read : Nat, room : Nat]
Polls == [pc : {"idle", "read_cb", "written", "sent_cb"}, status : Statuses, loop : Nat,
          op : Ops \cup {None}, sent : Int]
Apis == [pc : Sending \cup {"idle", "close", "unregister"}, op : Ops \cup {None}, size : Int]
OpOfPoll == \A w \in Workers : poll[w].pc = "written" => poll[w].op \in Ops
OpOfCall == \A t \in Threads : api[t].pc \in Sending => api[t].op \in Ops

Types ==
  /\ stream \in BOOLEAN /\ eaten \in Int /\ closed \subseteq Threads
  /\ asock \in Asocks /\ rd \in Reading /\ op \in [Ops -> OpKeys]
  /\ key \in Keys /\ peer \in Peers
  /\ poll \in [Workers -> Polls] /\ api \in [Threads -> Apis]
  /\ OpOfPoll /\ OpOfCall

(* An event is delivered under the lock of the key.                        *)
Locks == \A w \in Workers : poll[w].pc # "idle" => key.lock = w

(* ReadSound, with what keeps the end of the stream from being reported by *)
(* a full buffer: a read operation that waits has room in its buffer.      *)
Reads ==
  /\ ReadSound
  /\ peer.read <= peer.sent
  /\ rd.pending => Len(rd.pkt) <= MaxKeep
  /\ ~rd.started => rd.pkt = <<>> /\ ~rd.pending
  /\ \A w \in Workers : poll[w].pc = "read_cb" => rd.started /\ ~rd.pending

(* SentWhole, with where a block can be: with the call that sends it, in   *)
(* the list of the key or with the worker that reports it, and only one    *)
(* block at a time; and what asock, whose send_data there is only one of,  *)
(* says of it.                                                             *)
InCall == {t \in Threads : api[t].pc \in Sending}
Reporting == {w \in Workers : poll[w].pc = "written"}
Rest(o, len) == IF op[o].data THEN asock.sent + len = Len0 /\ asock.len = Len0
                              ELSE len = Len0
Calls ==
  \A t \in InCall :
    LET o == api[t].op
        n == api[t].size
    IN  /\ op[o].busy
        /\ api[t].pc = "send" => ~op[o].data /\ op[o].wire = 0 /\ n = Len0
        /\ api[t].pc = "partial" => ~op[o].data /\ op[o].wire = n
        /\ api[t].pc = "remaining" => op[o].data /\ op[o].wire = asock.sent /\ asock.len = Len0
        /\ api[t].pc = "queue" => op[o].wire + n = Len0 /\ Rest(o, n)
        /\ api[t].pc = "sent" => op[o].wire = Len0
Listed ==
  key.list # <<>> =>
    LET b == key.list[1]
    IN  /\ Len(key.list) = 1 /\ op[b.op].busy /\ Rest(b.op, b.len)
        /\ op[b.op].wire + b.len - b.written = Len0
Reports ==
  \A w \in Reporting :
    op[poll[w].op].busy /\ (poll[w].sent > 0 => Rest(poll[w].op, poll[w].sent))
Told == \A w \in Workers : poll[w].pc = "sent_cb" /\ poll[w].sent > 0 => poll[w].sent = Len0
OneBlock ==
  /\ \A t, s \in InCall : t = s
  /\ InCall # {} => key.list = <<>> /\ Reporting = {}
  /\ Reporting # {} => key.list = <<>>
Sends == Calls /\ Listed /\ Reports /\ Told /\ OneBlock

(* Once the key is taken away, a worker in a callback finds it closing     *)
(* when it goes on, or is itself about to unregister it.                   *)
Closes ==
  /\ ~asock.key => asock.shutdown
  /\ closed # {} => ~asock.key
  /\ \A t \in Threads : api[t].pc = "unregister" => ~asock.key
  /\ \A t \in Threads : api[t].pc \in {"close", "unregister"} => asock.shutdown
  /\ \A w \in Workers : ~asock.key /\ poll[w].pc = "read_cb" =>
       key.closing \/ api[w].pc = "unregister"

(* Without the key, only a worker that took part in the closing is in a    *)
(* callback.                                                               *)
Theirs == \A w \in Workers : ~asock.key /\ InCallback(w) => ClosedIt(w)

IInv == Types /\ Locks /\ Reads /\ Sends /\ Closes /\ Theirs

-----------------------------------------------------------------------------
(* The lesser of two numbers.                                              *)
LEMMA SmallerType ==
  ASSUME NEW a \in Int, NEW b \in Int
  PROVE  Smaller(a, b) \in {a, b} /\ Smaller(a, b) <= a /\ Smaller(a, b) <= b
  BY DEF Smaller

(* What is received is there to be received.                               *)
LEMMA RecvType ==
  ASSUME Types, NEW pkt \in Seq(Int)
  PROVE  /\ Recv(pkt).status \in {"data", "eof", "again", "reset"}
         /\ Recv(pkt).n \in Nat
         /\ peer.read <= peer.sent => Recv(pkt).n <= peer.sent - peer.read
         /\ Recv(pkt).status = "eof" /\ peer.read <= peer.sent /\ Len(pkt) < MaxSize =>
              peer.state = "eof" /\ peer.read = peer.sent
<1> DEFINE left == peer.sent - peer.read
           n == IF stream THEN Smaller(left, MaxSize - Len(pkt)) ELSE 1
<1>1. left \in Int /\ MaxSize \in Nat \ {0} /\ Len(pkt) \in Nat
      /\ peer.state \in {"up", "eof", "reset"}
  BY ActiveSockAssumption DEF Types, Peers
<1>2. n \in Int /\ (left > 0 => n <= left)
      /\ (left > 0 /\ Len(pkt) < MaxSize => n > 0)
  BY <1>1, SmallerType DEF Smaller
<1>3. Recv(pkt) = CASE left > 0 /\ n > 0 -> [status |-> "data", n |-> n]
        [] stream /\ Len(pkt) = MaxSize -> [status |-> "eof", n |-> 0]
        [] OTHER -> [status |-> IF peer.state = "up" THEN "again" ELSE peer.state, n |-> 0]
  BY DEF Recv
<1>4. peer.read \in Nat /\ peer.sent \in Nat
  BY DEF Types, Peers
<1> HIDE DEF n
<1>5. CASE left > 0 /\ n > 0
  BY <1>1, <1>2, <1>3, <1>4, <1>5
<1>6. CASE ~(left > 0 /\ n > 0) /\ stream /\ Len(pkt) = MaxSize
  BY <1>1, <1>2, <1>3, <1>4, <1>6
<1>7. CASE ~(left > 0 /\ n > 0) /\ ~(stream /\ Len(pkt) = MaxSize)
  <2>1. Recv(pkt) = [status |-> IF peer.state = "up" THEN "again" ELSE peer.state, n |-> 0]
    BY <1>3, <1>7
  <2> QED
    BY <1>1, <1>2, <1>4, <1>7, <2>1
<1> QED
  BY <1>5, <1>6, <1>7

(* What a callback keeps are the last units of the buffer.                 *)
LEMMA KeptType ==
  ASSUME Types, NEW n \in Nat, n <= Len(rd.pkt)
  PROVE  /\ Kept(n) \in Seq(Int) /\ Len(Kept(n)) = n
         /\ \A i \in 1 .. n : Kept(n)[i] = rd.pkt[Len(rd.pkt) - n + i]
<1> DEFINE pkt == rd.pkt  m == Len(rd.pkt) - n + 1
<1>1. pkt \in Seq(Int) /\ Len(pkt) \in Nat /\ m \in 1 .. Len(pkt) + 1
  BY DEF Types, Reading
<1>2. \A i \in 1 .. n : m + i - 1 \in 1 .. Len(pkt) /\ m + i - 1 = Len(pkt) - n + i
  BY <1>1
<1>3. Kept(n) = SubSeq(pkt, m, Len(pkt))
  BY DEF Kept
<1> HIDE DEF pkt, m
<1>4. /\ SubSeq(pkt, m, Len(pkt)) \in Seq(Int)
      /\ Len(SubSeq(pkt, m, Len(pkt))) = IF m <= Len(pkt) THEN Len(pkt) - m + 1 ELSE 0
      /\ \A i \in 1 .. Len(pkt) - m + 1 : SubSeq(pkt, m, Len(pkt))[i] = pkt[m + i - 1]
  BY <1>1
<1>5. Len(pkt) - m + 1 = n /\ (m <= Len(pkt) \/ n = 0)
  BY <1>1 DEF m, pkt
<1>6. Len(Kept(n)) = n
  BY <1>1, <1>3, <1>4, <1>5
<1>7. ASSUME NEW i \in 1 .. n PROVE Kept(n)[i] = pkt[Len(pkt) - n + i]
  BY <1>2, <1>3, <1>4, <1>5
<1> QED
  BY <1>3, <1>4, <1>6, <1>7 DEF pkt

(* The buffer after a reception.                                           *)
LEMMA ReceivedType ==
  ASSUME Types, NEW pkt \in Seq(Int), NEW n \in Nat
  PROVE  /\ Units(n) \in Seq(Int) /\ Len(Units(n)) = n
         /\ pkt \o Units(n) \in Seq(Int) /\ Len(pkt \o Units(n)) = Len(pkt) + n
         /\ \A i \in 1 .. Len(pkt) + n :
              (pkt \o Units(n))[i] = IF i <= Len(pkt) THEN pkt[i] ELSE peer.read + (i - Len(pkt))
<1>1. peer.read \in Nat
  BY DEF Types, Peers
<1>2. Units(n) \in Seq(Int) /\ Len(Units(n)) = n
      /\ \A i \in 1 .. n : Units(n)[i] = peer.read + i
  BY <1>1 DEF Units
<1> HIDE DEF Units
<1> QED
  BY <1>1, <1>2

-----------------------------------------------------------------------------
(* The types, action by action.                                            *)
LEMMA DeliverTypes ==
  ASSUME Types, NEW w \in Workers, NEW pkt \in Seq(Int), NEW loop \in Nat,
         Recv(pkt).status # "again", Deliver(w, pkt, Recv(pkt), loop),
         UNCHANGED <<stream, asock, op, api, closed>>, eaten' \in Int
  PROVE  Types'
<1> DEFINE got == Recv(pkt)
           p == [IdlePoll EXCEPT !.pc = "read_cb", !.status = got.status, !.loop = loop]
<1>1. got.status \in Statuses /\ got.n \in Nat
  BY RecvType DEF Statuses
<1>2. p \in Polls /\ p.pc = "read_cb"
  <2> HIDE DEF got
  <2>1. IdlePoll \in Polls
    BY DEF IdlePoll, Polls, Statuses
  <2> QED
    BY <1>1, <2>1 DEF Polls
<1>3. /\ rd' = [rd EXCEPT !.pkt = pkt \o Units(got.n), !.pending = FALSE]
      /\ peer' = [peer EXCEPT !.read = @ + got.n]
      /\ poll' = [poll EXCEPT ![w] = p]
      /\ key' = [key EXCEPT !.lock = w]
  BY DEF Deliver
<1>4. pkt \o Units(got.n) \in Seq(Int)
  BY <1>1, ReceivedType
<1> HIDE DEF got, p
<1>5. rd' \in Reading
  BY <1>3, <1>4 DEF Types, Reading
<1>6. peer' \in Peers
  <2>1. peer \in Peers /\ peer.read + got.n \in Nat
    BY <1>1 DEF Types, Peers
  <2> QED
    BY <1>3, <2>1 DEF Peers
<1>7. key' \in Keys
  BY <1>3 DEF Types, Keys
<1>8. poll' \in [Workers -> Polls] /\ OpOfPoll'
  BY <1>2, <1>3 DEF Types, OpOfPoll
<1> QED
  BY <1>5, <1>6, <1>7, <1>8 DEF Types, OpOfCall

(* The end of an event: it gives the key's lock back and the worker        *)
(* returns to its poll.                                                    *)
LEMMA EventDoneTypes ==
  ASSUME Types, NEW w \in Workers, EventDone(w)
  PROVE  poll' \in [Workers -> Polls] /\ OpOfPoll' /\ key' \in Keys
<1>1. IdlePoll \in Polls /\ IdlePoll.pc = "idle"
  BY DEF IdlePoll, Polls, Statuses
<1>2. key' \in Keys
  BY DEF EventDone, Types, Keys
<1> QED
  BY <1>1, <1>2 DEF EventDone, Types, OpOfPoll

(* The beginning of a call of the client or of a callback.                 *)
LEMMA CallTypes ==
  ASSUME Types, NEW t \in Threads, NEW pc \in Sending \cup {"close", "unregister"},
         NEW o \in Ops \cup {None}, NEW n \in Int, pc \in Sending => o \in Ops,
         Call(t, pc, o, n)
  PROVE  api' \in [Threads -> Apis] /\ OpOfCall'
<1>1. [pc |-> pc, op |-> o, size |-> n] \in Apis
  BY DEF Apis
<1> QED
  BY <1>1 DEF Call, Types, OpOfCall

(* The end of a call.                                                      *)
LEMMA ReturnTypes ==
  ASSUME Types, NEW t \in Threads, Return(t)
  PROVE  api' \in [Threads -> Apis] /\ OpOfCall'
<1>1. IdleApi \in Apis /\ IdleApi.pc \notin Sending
  BY DEF Apis, IdleApi, Sending
<1> QED
  BY <1>1 DEF Return, Types, OpOfCall

(* Units that send() has taken.                                            *)
LEMMA WiredTypes ==
  ASSUME Types, NEW o \in Ops, NEW n \in Nat, n <= peer.room, Wired(o, n)
  PROVE  op' \in [Ops -> OpKeys] /\ peer' \in Peers
<1>1. peer' \in Peers
  BY DEF Wired, Types, Peers
<1>2. [op[o] EXCEPT !.wire = @ + n] \in OpKeys
  BY DEF Types, OpKeys
<1>3. op' = [op EXCEPT ![o] = [op[o] EXCEPT !.wire = @ + n]]
  BY DEF Wired, Types
<1> QED
  BY <1>1, <1>2, <1>3 DEF Types

(* A call that ends with an error of the socket.                           *)
LEMMA FailedTypes ==
  ASSUME Types, NEW t \in Threads, NEW o \in Ops, Failed(t, o)
  PROVE  op' \in [Ops -> OpKeys] /\ api' \in [Threads -> Apis] /\ OpOfCall'
         /\ UNCHANGED peer
<1>1. [op[o] EXCEPT !.busy = FALSE, !.data = FALSE] \in OpKeys
  BY DEF Types, OpKeys
<1>2. op' = [op EXCEPT ![o] = [op[o] EXCEPT !.busy = FALSE, !.data = FALSE]]
  BY DEF Failed, Types
<1> QED
  BY <1>1, <1>2, ReturnTypes DEF Failed, Types

(* The steps of ioqueue_on_read_complete.                                  *)
LEMMA ReadTypes ==
  ASSUME Types, NEW w \in Workers, PollRead(w) \/ CbReturns(w)
  PROVE  Types'
<1>1. CASE PollRead(w)
  <2>1. CASE Ignored
    <3>1. Recv(rd.pkt).n \in Nat
      BY RecvType DEF Types, Reading
    <3>2. rd' = [rd EXCEPT !.pending = FALSE]
          /\ peer' = [peer EXCEPT !.read = @ + Recv(rd.pkt).n]
          /\ UNCHANGED <<key, poll, stream, asock, op, api, eaten, closed>>
      BY <1>1, <2>1 DEF PollRead
    <3>3. rd' \in Reading
      BY <3>2 DEF Types, Reading
    <3>4. peer' \in Peers
      BY <3>1, <3>2 DEF Types, Peers
    <3> QED
      BY <3>2, <3>3, <3>4 DEF Types, OpOfPoll, OpOfCall
  <2>2. CASE ~Ignored
    <3>1. rd.pkt \in Seq(Int) /\ 0 \in Nat /\ eaten' \in Int
      BY <1>1 DEF PollRead, Types, Reading
    <3>2. Recv(rd.pkt).status # "again" /\ Deliver(w, rd.pkt, Recv(rd.pkt), 0)
          /\ UNCHANGED <<stream, asock, op, api, closed>>
      BY <1>1, <2>2 DEF PollRead
    <3> QED
      BY <3>1, <3>2, DeliverTypes
  <2> QED
    BY <2>1, <2>2
<1>2. CASE ReadCbFalse(w) \/ SentCbReturns(w)
  BY <1>2, EventDoneTypes DEF ReadCbFalse, SentCbReturns, Types, OpOfCall
<1>3. ASSUME NEW n \in 0 .. MaxKeep, ReadCbTrue(w, n)
      PROVE  Types'
  <2>1. /\ n \in Nat /\ n <= Len(rd.pkt) /\ eaten' = eaten + Len(rd.pkt) - n
        /\ UNCHANGED <<stream, asock, op, api, closed>>
        /\ \/ EventDone(w) /\ UNCHANGED <<rd, peer>>
           \/ ReadNext(w, Kept(n))
    BY <1>3 DEF ReadCbTrue
  <2>2. eaten' \in Int
    BY <2>1 DEF Types, Reading
  <2>3. CASE EventDone(w) /\ UNCHANGED <<rd, peer>>
    BY <2>1, <2>2, <2>3, EventDoneTypes DEF Types, OpOfCall
  <2>4. CASE ReadNext(w, Kept(n))
    <3> DEFINE loop == (poll[w].loop + 1) % (MaxLoop + 1)
    <3>1. Kept(n) \in Seq(Int)
      BY <2>1, KeptType
    <3>2. loop \in Nat
      <4>1. poll[w].loop + 1 \in Nat /\ MaxLoop + 1 \in Nat \ {0}
        BY ActiveSockAssumption DEF Types, Polls
      <4> QED
        BY <4>1
    <3>3. CASE /\ EventDone(w) /\ UNCHANGED peer
               /\ \/ rd' = [rd EXCEPT !.pkt = Kept(n)]
                  \/ rd' = [rd EXCEPT !.pkt = Kept(n), !.pending = TRUE]
      <4>1. rd' \in Reading
        BY <3>1, <3>3 DEF Types, Reading
      <4> QED
        BY <2>1, <2>2, <3>3, <4>1, EventDoneTypes DEF Types, OpOfCall
    <3>4. CASE Recv(Kept(n)).status # "again" /\ Deliver(w, Kept(n), Recv(Kept(n)), loop)
      BY <2>1, <2>2, <3>1, <3>2, <3>4, DeliverTypes
    <3> QED
      BY <2>4, <3>3, <3>4 DEF ReadNext
  <2> QED
    BY <2>1, <2>3, <2>4
<1> QED
  BY <1>1, <1>2, <1>3 DEF CbReturns

(* The steps of pj_activesock_send after the first.                        *)
LEMMA SendTypes ==
  ASSUME Types, NEW t \in Threads,
         SendFirst(t) \/ SetSendData(t) \/ SendRemaining(t) \/ Queue(t) \/ SendReturns(t)
  PROVE  Types'
<1> DEFINE o == api[t].op
<1>1. api[t].pc \in Sending => o \in Ops
  BY DEF Types, OpOfCall
<1>2. Len0 \in Nat \ {0} /\ peer.room \in Nat /\ asock.len \in Int /\ asock.sent \in Int
      /\ api[t].size \in Int
  BY ActiveSockAssumption DEF Types, Peers, Asocks, Apis
<1>3. CASE SendFirst(t)
  <2> DEFINE n == Smaller(peer.room, Len0)
  <2>1. o \in Ops /\ n \in Nat /\ n <= peer.room
    BY <1>1, <1>2, <1>3, SmallerType DEF SendFirst, Sending
  <2>2. UNCHANGED <<stream, asock, rd, key, poll, eaten, closed>>
    BY <1>3 DEF SendFirst
  <2>3. \/ Failed(t, o)
        \/ Wired(o, n) /\ Call(t, IF n = Len0 THEN "sent" ELSE "partial", o, n)
        \/ Call(t, "queue", o, Len0) /\ UNCHANGED <<op, peer>>
    BY <1>3 DEF SendFirst
  <2>4. \A p \in Sending : Call(t, p, o, n) \/ Call(t, p, o, Len0) =>
          api' \in [Threads -> Apis] /\ OpOfCall'
    BY <1>2, <2>1, CallTypes
  <2>5. (IF n = Len0 THEN "sent" ELSE "partial") \in Sending /\ "queue" \in Sending
    BY DEF Sending
  <2> HIDE DEF o, n
  <2> QED
    BY <2>1, <2>2, <2>3, <2>4, <2>5, FailedTypes, WiredTypes DEF Types, OpOfPoll
<1>4. CASE SetSendData(t)
  <2>1. o \in Ops /\ "remaining" \in Sending
    BY <1>1, <1>4 DEF SetSendData, Sending
  <2>2. api' \in [Threads -> Apis] /\ OpOfCall'
    BY <1>4, <2>1, CallTypes DEF SetSendData
  <2>3. asock' \in Asocks
    <3> DEFINE n == api[t].size
    <3>1. asock' = [asock EXCEPT !.len = Len0, !.sent = n] /\ asock \in Asocks
      BY <1>4 DEF SetSendData, Types
    <3>2. Len0 \in Int /\ n \in Int
      BY <1>2
    <3> HIDE DEF n
    <3>3. [asock EXCEPT !.len = Len0] \in Asocks
      BY <3>1, <3>2 DEF Asocks
    <3>4. asock' = [[asock EXCEPT !.len = Len0] EXCEPT !.sent = n]
      BY <3>1, Zenon
    <3> QED
      BY <3>2, <3>3, <3>4 DEF Asocks
  <2>4. op' \in [Ops -> OpKeys]
    BY <1>4, <2>1 DEF SetSendData, Linked, Types, OpKeys
  <2> QED
    BY <1>4, <2>2, <2>3, <2>4 DEF SetSendData, Types, OpOfPoll
<1>5. CASE SendRemaining(t)
  <2> DEFINE size == asock.len - asock.sent
             n == Smaller(peer.room, size)
  <2>1. o \in Ops /\ size \in Int /\ n \in Int /\ n <= peer.room
    BY <1>1, <1>2, <1>5, SmallerType DEF SendRemaining, Sending
  <2>2. UNCHANGED <<stream, rd, key, poll, eaten, closed>>
    BY <1>5 DEF SendRemaining
  <2>3. \/ Failed(t, o) /\ UNCHANGED asock
        \/ /\ Wired(o, n) /\ n > 0
           /\ asock' = [asock EXCEPT !.sent = @ + n]
           /\ Call(t, "sent", o, Len0) \/ UNCHANGED api
        \/ Call(t, "queue", o, size) /\ UNCHANGED <<asock, op, peer>>
    BY <1>5 DEF SendRemaining
  <2>4. \A p \in Sending : Call(t, p, o, size) \/ Call(t, p, o, Len0) =>
          api' \in [Threads -> Apis] /\ OpOfCall'
    BY <1>2, <2>1, CallTypes
  <2>5. UNCHANGED api => api' \in [Threads -> Apis] /\ OpOfCall'
    BY DEF Types, OpOfCall
  <2>6. asock' \in Asocks
    <3> HIDE DEF n, o, size
    <3> QED
      BY <1>2, <2>1, <2>3 DEF Types, Asocks
  <2>7. "sent" \in Sending /\ "queue" \in Sending
    BY DEF Sending
  <2> HIDE DEF o, n, size
  <2> QED
    BY <2>1, <2>2, <2>3, <2>4, <2>5, <2>6, <2>7, FailedTypes, WiredTypes DEF Types, OpOfPoll
<1>6. CASE Queue(t)
  <2>1. o \in Ops
    BY <1>1, <1>6 DEF Queue, Sending
  <2>2. UNCHANGED <<stream, asock, rd, poll, eaten, closed>>
    BY <1>6 DEF Queue
  <2> DEFINE b == [op |-> o, len |-> api[t].size, written |-> 0]
  <2>3. \/ Failed(t, o) /\ UNCHANGED key
        \/ /\ key' = [key EXCEPT !.list = Append(@, b)]
           /\ Return(t) /\ UNCHANGED <<op, peer>>
    BY <1>6 DEF Queue
  <2>4. b \in Blocks
    BY <1>2, <2>1 DEF Blocks
  <2> HIDE DEF o, b
  <2>5. key' \in Keys
    <3>1. key \in Keys /\ Append(key.list, b) \in Seq(Blocks)
      BY <2>4 DEF Types, Keys
    <3> QED
      BY <2>3, <3>1 DEF Keys
  <2> QED
    BY <2>1, <2>2, <2>3, <2>5, FailedTypes, ReturnTypes DEF Types, OpOfPoll
<1>7. CASE SendReturns(t)
  <2>1. o \in Ops
    BY <1>1, <1>7 DEF SendReturns, Sending
  <2>2. op' \in [Ops -> OpKeys]
    BY <1>7, <2>1 DEF SendReturns, Types, OpKeys
  <2> QED
    BY <1>7, <2>2, ReturnTypes DEF SendReturns, Types, OpOfPoll
<1> QED
  BY <1>3, <1>4, <1>5, <1>6, <1>7

(* The steps of ioqueue_on_write_complete.                                 *)
LEMMA WriteTypes ==
  ASSUME Types, NEW w \in Workers, PollWrite(w) \/ WriteComplete(w)
  PROVE  Types'
<1>1. CASE PollWrite(w)
  <2> DEFINE head == Head(key.list)
             n == Smaller(peer.room, head.len - head.written)
             result == IF peer.state = "reset" THEN -1 ELSE head.len
  <2>1. head \in Blocks /\ head.op \in Ops
    <3>1. key.list \in Seq(Blocks) /\ key.list # <<>>
      BY <1>1 DEF PollWrite, Types, Keys
    <3>2. head \in Blocks
      BY <3>1
    <3> QED
      BY <3>2 DEF Blocks
  <2>2. peer.room \in Nat /\ n \in Int /\ n <= peer.room /\ result \in Int
    <3>1. peer.room \in Nat /\ head.len \in Int /\ head.written \in Int
      BY <2>1 DEF Types, Peers, Blocks
    <3> QED
      BY <3>1, SmallerType
  <2> DEFINE p == [IdlePoll EXCEPT !.pc = "written", !.op = head.op, !.sent = result]
  <2>3. /\ UNCHANGED <<stream, asock, rd, api, eaten, closed>>
        /\ UNCHANGED <<op, peer>> \/ (n > 0 /\ Wired(head.op, n))
        /\ key.list # <<>>
        /\ \/ /\ key' = [key EXCEPT !.list = Tail(@), !.lock = w]
              /\ poll' = [poll EXCEPT ![w] = p]
           \/ key' = [key EXCEPT !.list[1].written = @ + n] /\ UNCHANGED poll
    BY <1>1 DEF PollWrite
  <2>4. p \in Polls /\ p.pc = "written" /\ p.op \in Ops
    <3>1. IdlePoll \in Polls
      BY DEF IdlePoll, Polls, Statuses
    <3> HIDE DEF head, result
    <3> QED
      BY <2>1, <2>2, <3>1 DEF Polls
  <2>5. key' \in Keys
    <3>1. key \in Keys /\ key.list \in Seq(Blocks) /\ key.list # <<>>
      BY <2>3 DEF Types, Keys
    <3>2. Tail(key.list) \in Seq(Blocks)
      BY <3>1
    <3>3. [key.list EXCEPT ![1].written = @ + n] \in Seq(Blocks)
      <4> DEFINE b == [key.list[1] EXCEPT !.written = @ + n]
      <4>1. Len(key.list) \in Nat /\ 1 \in 1 .. Len(key.list) /\ key.list[1] \in Blocks
        BY <3>1
      <4> HIDE DEF n
      <4>2. b \in Blocks
        BY <2>2, <4>1 DEF Blocks
      <4>3. [key.list EXCEPT ![1].written = @ + n] = [key.list EXCEPT ![1] = b]
        BY Zenon
      <4> HIDE DEF b
      <4> QED
        BY <3>1, <4>1, <4>2, <4>3
    <3> HIDE DEF n, p
    <3> QED
      BY <2>3, <3>1, <3>2, <3>3 DEF Keys
  <2> HIDE DEF n, p, head
  <2>6. poll' \in [Workers -> Polls] /\ OpOfPoll'
    BY <2>3, <2>4 DEF Types, OpOfPoll
  <2>7. op' \in [Ops -> OpKeys] /\ peer' \in Peers
    BY <2>1, <2>2, <2>3, WiredTypes DEF Types
  <2> QED
    BY <2>3, <2>5, <2>6, <2>7 DEF Types, OpOfCall
<1>2. CASE WriteComplete(w)
  <2> DEFINE o == poll[w].op
             sent == IF op[o].data /\ poll[w].sent > 0 THEN asock.sent + poll[w].sent
                     ELSE poll[w].sent
  <2>1. o \in Ops /\ sent \in Int
    BY <1>2 DEF WriteComplete, Types, OpOfPoll, Polls, Asocks
  <2>2. UNCHANGED <<stream, rd, peer, api, eaten, closed>>
    BY <1>2 DEF WriteComplete
  <2>3. CASE EventDone(w) /\ UNCHANGED <<op, asock>>
    BY <2>2, <2>3, EventDoneTypes DEF Types, OpOfCall
  <2>4. CASE /\ poll' = [poll EXCEPT ![w].pc = "sent_cb", ![w].sent = sent]
             /\ asock' = IF op[o].data THEN [asock EXCEPT !.sent = sent] ELSE asock
             /\ op' = [op EXCEPT ![o].data = FALSE, ![o].busy = FALSE]
             /\ UNCHANGED key
    <3> HIDE DEF o, sent
    <3>1. asock' \in Asocks
      BY <2>1, <2>4 DEF Types, Asocks
    <3>2. op' \in [Ops -> OpKeys]
      BY <2>1, <2>4 DEF Types, OpKeys
    <3>3. poll' \in [Workers -> Polls] /\ OpOfPoll'
      <4>1. [poll[w] EXCEPT !.pc = "sent_cb", !.sent = sent] \in Polls
        BY <2>1 DEF Types, Polls
      <4>2. poll' = [poll EXCEPT ![w] = [poll[w] EXCEPT !.pc = "sent_cb", !.sent = sent]]
        BY <2>4
      <4> QED
        BY <4>1, <4>2 DEF Types, Polls, OpOfPoll
    <3> QED
      BY <2>2, <2>4, <3>1, <3>2, <3>3 DEF Types, OpOfCall
  <2> QED
    BY <1>2, <2>3, <2>4 DEF WriteComplete
<1> QED
  BY <1>1, <1>2

(* The other calls: pj_activesock_start_read, pj_activesock_close, and the *)
(* beginning of a send.                                                    *)
LEMMA CloseTypes ==
  ASSUME Types, NEW t \in Threads,
         StartRead(t) \/ Close(t) \/ TakeKey(t) \/ Unregister(t) \/ \E o \in Ops : Send(t, o)
  PROVE  Types'
<1> USE DEF OpOfPoll
<1>1. CASE StartRead(t)
  <2>1. rd' \in Reading
    BY <1>1 DEF StartRead, Types, Reading
  <2> QED
    BY <1>1, <2>1 DEF StartRead, Types, OpOfCall
<1>2. asock \in Asocks /\ [asock EXCEPT !.shutdown = TRUE] \in Asocks
      /\ [asock EXCEPT !.key = FALSE] \in Asocks
  BY DEF Types, Asocks
<1>3. Call(t, "close", None, 0) \/ Call(t, "unregister", None, 0) \/ Return(t) \/ UNCHANGED api
        => api' \in [Threads -> Apis] /\ OpOfCall'
  <2>1. "close" \notin Sending /\ "unregister" \notin Sending
    BY DEF Sending
  <2>2. Call(t, "close", None, 0) \/ Call(t, "unregister", None, 0)
          => api' \in [Threads -> Apis] /\ OpOfCall'
    BY <2>1, CallTypes
  <2> QED
    BY <2>2, ReturnTypes DEF Types, OpOfCall
<1>4. CASE Close(t)
  BY <1>2, <1>3, <1>4 DEF Close, Types
<1>5. CASE TakeKey(t)
  BY <1>2, <1>3, <1>5 DEF TakeKey, Types
<1>6. CASE Unregister(t)
  <2>1. key' \in Keys
    <3>1. <<>> \in Seq(Blocks) /\ key \in Keys
      BY DEF Types
    <3> QED
      BY <1>6, <3>1 DEF Unregister, Keys
  <2> QED
    BY <1>3, <1>6, <2>1 DEF Unregister, Types
<1>7. ASSUME NEW o \in Ops, Send(t, o)
      PROVE  Types'
  <2>1. "send" \in Sending /\ Len0 \in Int
    BY ActiveSockAssumption DEF Sending
  <2>2. api' \in [Threads -> Apis] /\ OpOfCall'
    BY <1>7, <2>1, CallTypes DEF Send
  <2>3. op' \in [Ops -> OpKeys]
    BY <1>7 DEF Send, Types, OpKeys
  <2> QED
    BY <1>7, <2>2, <2>3 DEF Send, Types
<1> QED
  BY <1>1, <1>4, <1>5, <1>6, <1>7

(* The steps of the other end.                                             *)
LEMMA PeerTypes ==
  ASSUME Types, PeerSends \/ Drain \/ \E state \in {"eof", "reset"} : PeerEnds(state)
  PROVE  Types'
<1>1. peer' \in Peers
  BY DEF PeerSends, Drain, PeerEnds, Types, Peers
<1> QED
  BY <1>1 DEF PeerSends, Drain, PeerEnds, Types, OpOfPoll, OpOfCall

(* Every step keeps the types.                                             *)
LEMMA NextTypes ==
  ASSUME Types, [Next]_vars
  PROVE  Types'
<1>1. CASE UNCHANGED vars
  BY <1>1 DEF vars, Types, OpOfPoll, OpOfCall
<1> QED
  BY <1>1, CloseTypes, SendTypes, ReadTypes, WriteTypes, PeerTypes DEF Next, ApiStep

-----------------------------------------------------------------------------
(* The initial states.                                                     *)
LEMMA InitInv == Init => IInv
<1> SUFFICES ASSUME Init PROVE IInv
  OBVIOUS
<1>1. /\ \A w \in Workers : poll[w] = IdlePoll
      /\ \A t \in Threads : api[t] = IdleApi
      /\ key.list = <<>> /\ rd.pkt = <<>> /\ eaten = 0 /\ peer.read = 0 /\ peer.sent = 0
      /\ rd.pending = FALSE /\ asock.key = TRUE /\ asock.shutdown = FALSE /\ closed = {}
  BY DEF Init
<1>2. IdlePoll \in Polls /\ IdlePoll.pc = "idle" /\ IdlePoll.sent = 0
  BY DEF IdlePoll, Polls, Statuses
<1>3. IdleApi \in Apis /\ IdleApi.pc = "idle" /\ "idle" \notin Sending
  BY DEF IdleApi, Apis, Sending
<1>4. Types
  <2>1. asock \in Asocks
    BY DEF Init, Asocks
  <2>2. rd \in Reading
    BY DEF Init, Reading
  <2>3. op \in [Ops -> OpKeys]
    BY DEF Init, OpKeys
  <2>4. key \in Keys
    BY DEF Init, Keys
  <2>5. peer \in Peers
    BY ActiveSockAssumption DEF Init, Peers
  <2>6. poll \in [Workers -> Polls] /\ api \in [Threads -> Apis]
    BY <1>2, <1>3 DEF Init
  <2>7. stream \in BOOLEAN /\ eaten \in Int /\ closed \subseteq Threads
    <3>1. eaten \in Int
      BY <1>1
    <3> QED
      BY <3>1, Zenon DEF Init
  <2>8. OpOfPoll /\ OpOfCall
    BY <1>1, <1>2, <1>3 DEF OpOfPoll, OpOfCall
  <2> QED
    BY <2>1, <2>2, <2>3, <2>4, <2>5, <2>6, <2>7, <2>8, Zenon DEF Types
<1>5. Reads
  BY <1>1, <1>2, ActiveSockAssumption DEF Reads, ReadSound
<1>6. Sends
  <2>1. InCall = {} /\ Reporting = {}
    BY <1>1, <1>2, <1>3 DEF InCall, Reporting
  <2> QED
    BY <1>1, <1>2, <2>1 DEF Sends, Calls, Listed, Reports, Told, OneBlock
<1> QED
  BY <1>1, <1>2, <1>3, <1>4, <1>5, <1>6 DEF IInv, Locks, Closes, Theirs

-----------------------------------------------------------------------------
(* The lock of the key changes hands only between events.                  *)
LEMMA NextLocks ==
  ASSUME Types, Locks, [Next]_vars
  PROVE  Locks'
<1>1. ASSUME NEW w \in Workers, EventDone(w), poll[w].pc # "idle"
      PROVE  Locks'
  <2>1. \A v \in Workers : v # w => poll[v].pc = "idle" /\ poll'[v] = poll[v]
    BY <1>1, ActiveSockAssumption DEF Locks, EventDone, Types
  <2>2. poll'[w].pc = "idle"
    BY <1>1 DEF EventDone, IdlePoll, Types
  <2> QED
    BY <2>1, <2>2 DEF Locks
<1>2. ASSUME NEW w \in Workers, key.lock \in {None, w}, key'.lock = w,
             \A v \in Workers : v # w => poll'[v] = poll[v]
      PROVE  Locks'
  BY <1>2, ActiveSockAssumption DEF Locks
<1>3. ASSUME UNCHANGED poll, key'.lock = key.lock
      PROVE  Locks'
  BY <1>3 DEF Locks
<1>4. ASSUME NEW w \in Workers, NEW pkt, NEW got, NEW loop, Deliver(w, pkt, got, loop),
             key.lock \in {None, w}
      PROVE  Locks'
  <2>1. key'.lock = w /\ \A v \in Workers : v # w => poll'[v] = poll[v]
    BY <1>4 DEF Deliver, Types, Keys
  <2> QED
    BY <1>2, <1>4, <2>1
<1>5. ASSUME NEW w \in Workers, PollRead(w)
      PROVE  Locks'
  BY <1>3, <1>4, <1>5 DEF PollRead
<1>6. ASSUME NEW w \in Workers, CbReturns(w)
      PROVE  Locks'
  <2>1. poll[w].pc # "idle" /\ key.lock = w
    BY <1>6 DEF CbReturns, ReadCbFalse, SentCbReturns, ReadCbTrue, Locks
  <2>2. EventDone(w) \/ \E pkt, got, loop : Deliver(w, pkt, got, loop)
    BY <1>6 DEF CbReturns, ReadCbFalse, SentCbReturns, ReadCbTrue, ReadNext
  <2> QED
    BY <1>1, <1>4, <2>1, <2>2
<1>7. ASSUME NEW w \in Workers, PollWrite(w)
      PROVE  Locks'
  <2>1. CASE UNCHANGED poll /\ \E n : key' = [key EXCEPT !.list[1].written = @ + n]
    BY <1>3, <2>1 DEF Types, Keys
  <2>2. CASE key' = [key EXCEPT !.list = Tail(@), !.lock = w]
             /\ \A v \in Workers : v # w => poll'[v] = poll[v]
    BY <1>2, <1>7, <2>2 DEF PollWrite, Types, Keys
  <2> QED
    BY <1>7, <2>1, <2>2 DEF PollWrite, Types
<1>8. ASSUME NEW w \in Workers, WriteComplete(w)
      PROVE  Locks'
  <2>1. poll[w].pc # "idle" /\ key.lock = w
    BY <1>8 DEF WriteComplete, Locks
  <2>2. EventDone(w) \/ (UNCHANGED key /\ \A v \in Workers : v # w => poll'[v] = poll[v])
    BY <1>8 DEF WriteComplete, Types
  <2> QED
    BY <1>1, <1>2, <2>1, <2>2
<1>9. ASSUME NEW t \in Threads, StartRead(t) \/ Close(t) \/ ApiStep(t)
             \/ \E o \in Ops : Send(t, o)
      PROVE  Locks'
  <2>1. UNCHANGED poll /\ key'.lock = key.lock
    BY <1>9 DEF StartRead, Close, ApiStep, Send, SendFirst, SetSendData, SendRemaining, Queue,
                SendReturns, TakeKey, Unregister, Types, Keys
  <2> QED
    BY <1>3, <2>1
<1>10. CASE PeerSends \/ Drain \/ (\E state \in {"eof", "reset"} : PeerEnds(state))
            \/ UNCHANGED vars
  BY <1>3, <1>10 DEF PeerSends, Drain, PeerEnds, vars
<1> QED
  BY <1>5, <1>6, <1>7, <1>8, <1>9, <1>10 DEF Next

-----------------------------------------------------------------------------
(* The key is taken away while no other worker is in a callback.           *)
LEMMA NextCloses ==
  ASSUME Types, Locks, Closes, [Next]_vars
  PROVE  Closes'
<1>1. ASSUME UNCHANGED <<asock, api, closed>>, key'.closing = key.closing,
             \A w \in Workers : poll'[w].pc = "read_cb" => poll[w].pc = "read_cb" \/ asock.key
      PROVE  Closes'
  BY <1>1 DEF Closes
<1>2. ASSUME NEW w \in Workers, NEW pkt, NEW got, NEW loop, Deliver(w, pkt, got, loop)
      PROVE  key'.closing = key.closing /\ \A v \in Workers : v # w => poll'[v] = poll[v]
  BY <1>2 DEF Deliver, Types, Keys
<1>3. ASSUME NEW w \in Workers, EventDone(w)
      PROVE  /\ key'.closing = key.closing
             /\ \A v \in Workers : poll'[v].pc = "read_cb" => poll[v].pc = "read_cb"
  BY <1>3 DEF EventDone, IdlePoll, Types, Keys
<1>4. ASSUME NEW w \in Workers, PollRead(w)
      PROVE  Closes'
  <2>1. CASE Ignored
    BY <1>1, <1>4, <2>1 DEF PollRead
  <2>2. CASE ~Ignored
    <3>1. asock.key /\ Deliver(w, rd.pkt, Recv(rd.pkt), 0)
          /\ UNCHANGED <<asock, api, closed>>
      BY <1>4, <2>2 DEF PollRead, Ignored, Closes
    <3> QED
      BY <1>1, <1>2, <3>1
  <2> QED
    BY <2>1, <2>2
<1>5. ASSUME NEW w \in Workers, CbReturns(w)
      PROVE  Closes'
  <2>1. UNCHANGED <<asock, api, closed>>
    BY <1>5 DEF CbReturns, ReadCbFalse, SentCbReturns, ReadCbTrue
  <2>2. CASE EventDone(w)
    BY <1>1, <1>3, <2>1, <2>2
  <2>3. CASE ~EventDone(w)
    <3>1. /\ poll[w].pc = "read_cb" /\ \E pkt, got, loop : Deliver(w, pkt, got, loop)
      BY <1>5, <2>3 DEF CbReturns, ReadCbFalse, SentCbReturns, ReadCbTrue, ReadNext
    <3> QED
      BY <1>1, <1>2, <2>1, <3>1
  <2> QED
    BY <2>2, <2>3
<1>6. ASSUME NEW w \in Workers, PollWrite(w)
      PROVE  Closes'
  <2>1. key'.closing = key.closing /\ UNCHANGED <<asock, api, closed>>
    BY <1>6 DEF PollWrite, Types, Keys
  <2>2. \A v \in Workers : poll'[v].pc = "read_cb" => poll[v].pc = "read_cb"
    BY <1>6 DEF PollWrite, IdlePoll, Types
  <2> QED
    BY <1>1, <2>1, <2>2
<1>7. ASSUME NEW w \in Workers, WriteComplete(w)
      PROVE  Closes'
  <2>1. UNCHANGED <<api, closed>> /\ asock'.key = asock.key /\ asock'.shutdown = asock.shutdown
        /\ key'.closing = key.closing
    BY <1>3, <1>7 DEF WriteComplete, Types, Asocks
  <2>2. \A v \in Workers : poll'[v].pc = "read_cb" => poll[v].pc = "read_cb"
    BY <1>3, <1>7 DEF WriteComplete, Types, Polls
  <2> QED
    BY <2>1, <2>2 DEF Closes
<1>8. ASSUME NEW t \in Threads, NEW o,
             StartRead(t) \/ Send(t, o) \/ SendFirst(t) \/ SetSendData(t) \/ SendRemaining(t)
               \/ Queue(t) \/ SendReturns(t)
      PROVE  Closes'
  <2>1. /\ UNCHANGED <<poll, closed>> /\ key'.closing = key.closing
        /\ asock'.key = asock.key /\ asock'.shutdown = asock.shutdown
    BY <1>8 DEF StartRead, Send, SendFirst, SetSendData, SendRemaining, Queue, SendReturns,
                Types, Keys, Asocks
  <2>2. api[t].pc # "unregister"
    BY <1>8 DEF StartRead, CanAct, Send, SendFirst, SetSendData, SendRemaining, Queue, SendReturns
  <2>3. \A s \in Threads : api'[s] = api[s] \/ (s = t /\ api'[s].pc \notin {"close", "unregister"})
    BY <1>8 DEF StartRead, Send, SendFirst, SetSendData, SendRemaining, Queue, SendReturns,
                Failed, Call, Return, IdleApi, Types
  <2>4. Workers \subseteq Threads
    BY DEF Threads
  <2> QED
    BY <2>1, <2>2, <2>3, <2>4 DEF Closes
<1>9. ASSUME NEW t \in Threads, Close(t)
      PROVE  Closes'
  <2>1. /\ UNCHANGED <<key, poll>> /\ asock'.key = asock.key /\ asock'.shutdown = TRUE
        /\ closed' # {} => ~asock.key
        /\ api[t].pc = "idle"
        /\ \A s \in Threads : api'[s] = api[s] \/ (s = t /\ api'[s].pc = "close")
    BY <1>9 DEF Close, CanAct, Call, Types, Asocks, Closes
  <2>2. Workers \subseteq Threads
    BY DEF Threads
  <2> QED
    BY <2>1, <2>2 DEF Closes
<1>10. ASSUME NEW t \in Threads, TakeKey(t)
       PROVE  Closes'
  <2>1. /\ UNCHANGED <<key, poll>> /\ asock'.key = FALSE /\ asock'.shutdown = TRUE
        /\ api[t].pc = "close" /\ key.lock \in {None, t}
        /\ \A s \in Threads : s # t => api'[s] = api[s]
        /\ asock.key => api'[t].pc = "unregister"
    BY <1>10 DEF TakeKey, Call, Return, CanLock, Types, Asocks, Closes
  <2>2. \A w \in Workers : poll[w].pc = "read_cb" => w = t
    BY <2>1, ActiveSockAssumption DEF Locks
  <2>3. Workers \subseteq Threads
    BY DEF Threads
  <2> QED
    BY <2>1, <2>2, <2>3 DEF Closes
<1>11. ASSUME NEW t \in Threads, Unregister(t)
       PROVE  Closes'
  <2>1. /\ UNCHANGED <<asock, poll>> /\ key'.closing = TRUE /\ api[t].pc = "unregister"
        /\ \A s \in Threads : api'[s] = api[s] \/ api'[s].pc = "idle"
    BY <1>11 DEF Unregister, Return, IdleApi, Types, Keys
  <2> QED
    BY <2>1 DEF Closes
<1>12. CASE PeerSends \/ Drain \/ (\E state \in {"eof", "reset"} : PeerEnds(state))
            \/ UNCHANGED vars
  BY <1>12 DEF PeerSends, Drain, PeerEnds, vars, Closes
<1> QED
  BY <1>4, <1>5, <1>6, <1>7, <1>8, <1>9, <1>10, <1>11, <1>12 DEF Next, ApiStep

(* A step after the key has been taken away begins no callback.            *)
LEMMA QuietStep ==
  ASSUME Types, Closes, ~asock.key, [Next]_vars, NEW w \in Workers, InCallback(w)'
  PROVE  InCallback(w) /\ poll'[w].loop = poll[w].loop
<1>1. asock.shutdown /\ ~asock.key
  BY DEF Closes
<1>2. poll'[w].pc \in {"read_cb", "sent_cb"}
  BY DEF InCallback
<1>3. ASSUME poll'[w] = poll[w]
      PROVE  InCallback(w) /\ poll'[w].loop = poll[w].loop
  BY <1>2, <1>3 DEF InCallback
<1>4. ASSUME NEW v \in Workers, EventDone(v)
      PROVE  InCallback(w) /\ poll'[w].loop = poll[w].loop
  BY <1>2, <1>3, <1>4 DEF EventDone, IdlePoll, Types
<1>5. ASSUME NEW v \in Workers, PollRead(v)
      PROVE  InCallback(w) /\ poll'[w].loop = poll[w].loop
  BY <1>1, <1>3, <1>5 DEF PollRead, Ignored
<1>6. ASSUME NEW v \in Workers, CbReturns(v)
      PROVE  InCallback(w) /\ poll'[w].loop = poll[w].loop
  <2>1. CASE EventDone(v)
    BY <1>4, <2>1
  <2>2. CASE ~EventDone(v)
    <3>1. poll[v].pc = "read_cb" /\ api[v].pc = "idle" /\ ~key.closing
      BY <1>6, <2>2 DEF CbReturns, ReadCbFalse, SentCbReturns, ReadCbTrue, ReadNext
    <3> QED
      BY <1>1, <3>1 DEF Closes
  <2> QED
    BY <2>1, <2>2
<1>7. ASSUME NEW v \in Workers, PollWrite(v) \/ WriteComplete(v)
      PROVE  InCallback(w) /\ poll'[w].loop = poll[w].loop
  <2>1. CASE PollWrite(v)
    <3>1. poll'[w] = poll[w] \/ poll'[w].pc = "written"
      <4>1. \/ UNCHANGED poll
            \/ \E r : r.pc = "written" /\ poll' = [poll EXCEPT ![v] = r]
        BY <2>1 DEF PollWrite, IdlePoll
      <4> QED
        BY <4>1 DEF Types
    <3> QED
      BY <1>2, <1>3, <3>1
  <2>2. CASE WriteComplete(v)
    BY <1>1, <1>4, <2>2 DEF WriteComplete, Ignored
  <2> QED
    BY <1>7, <2>1, <2>2
<1>8. ASSUME UNCHANGED poll
      PROVE  InCallback(w) /\ poll'[w].loop = poll[w].loop
  BY <1>3, <1>8
<1>9. ASSUME NEW t \in Threads, StartRead(t) \/ Close(t) \/ ApiStep(t) \/ \E o \in Ops : Send(t, o)
      PROVE  UNCHANGED poll
  BY <1>9 DEF StartRead, Close, ApiStep, Send, SendFirst, SetSendData, SendRemaining, Queue,
              SendReturns, TakeKey, Unregister
<1>10. CASE PeerSends \/ Drain \/ (\E state \in {"eof", "reset"} : PeerEnds(state))
            \/ UNCHANGED vars
  BY <1>8, <1>10 DEF PeerSends, Drain, PeerEnds, vars
<1> QED
  BY <1>5, <1>6, <1>7, <1>8, <1>9, <1>10 DEF Next

(* The key is taken away by a thread that waited for every callback but    *)
(* its own, and what it has begun it ends.                                 *)
LEMMA NextTheirs ==
  ASSUME Types, Locks, Closes, Theirs, [Next]_vars
  PROVE  Theirs'
<1> SUFFICES ASSUME NEW w \in Workers, ~asock'.key, InCallback(w)'
             PROVE  ClosedIt(w)'
  BY DEF Theirs
<1>1. CASE ~asock.key
  <2>1. ClosedIt(w)
    BY <1>1, QuietStep DEF Theirs
  <2>2. ASSUME NEW t \in Threads, Unregister(t)
        PROVE  ClosedIt(w)'
    BY <2>1, <2>2 DEF Unregister, Return, ClosedIt, Types
  <2>3. ASSUME NEW t \in Threads, TakeKey(t) \/ Close(t)
        PROVE  ClosedIt(w)'
    <3>1. closed' = closed \cup {t} /\ api[t].pc # "unregister"
      BY <1>1, <2>3 DEF TakeKey, Close, CanAct
    <3>2. \A v \in Threads : v # t => api'[v] = api[v]
      BY <1>1, <2>3 DEF TakeKey, Close, Return, Types
    <3> QED
      BY <2>1, <3>1, <3>2 DEF ClosedIt, Threads
  <2>4. ASSUME UNCHANGED <<api, closed>>
        PROVE  ClosedIt(w)'
    BY <2>1, <2>4 DEF ClosedIt
  <2>5. ASSUME NEW t \in Threads, NEW o,
               StartRead(t) \/ Send(t, o) \/ SendFirst(t) \/ SetSendData(t) \/ SendRemaining(t)
                 \/ Queue(t) \/ SendReturns(t)
        PROVE  ClosedIt(w)'
    <3>1. UNCHANGED closed /\ api[t].pc # "unregister"
      BY <2>5 DEF StartRead, CanAct, Send, SendFirst, SetSendData, SendRemaining, Queue, SendReturns
    <3>2. \A v \in Threads : v # t => api'[v] = api[v]
      BY <2>5 DEF StartRead, Send, SendFirst, SetSendData, SendRemaining, Queue, SendReturns,
                  Failed, Call, Return, Types
    <3> QED
      BY <2>1, <3>1, <3>2 DEF ClosedIt, Threads
  <2>6. ASSUME NEW v \in Workers, PollRead(v) \/ PollWrite(v) \/ WriteComplete(v) \/ CbReturns(v)
        PROVE  UNCHANGED <<api, closed>>
    BY <2>6 DEF PollRead, PollWrite, WriteComplete, CbReturns, ReadCbFalse, SentCbReturns, ReadCbTrue
  <2>7. CASE PeerSends \/ Drain \/ (\E state \in {"eof", "reset"} : PeerEnds(state))
             \/ UNCHANGED vars
    BY <2>4, <2>7 DEF PeerSends, Drain, PeerEnds, vars
  <2> QED
    BY <2>2, <2>3, <2>4, <2>5, <2>6, <2>7 DEF Next, ApiStep
<1>2. CASE asock.key
  <2>1. PICK t \in Threads : TakeKey(t)
    <3>1. ASSUME NEW v \in Workers, WriteComplete(v)
          PROVE  asock'.key = asock.key
      BY <3>1 DEF WriteComplete, Types, Asocks
    <3>2. ASSUME NEW t \in Threads, NEW o,
                 StartRead(t) \/ Close(t) \/ Send(t, o) \/ SendFirst(t) \/ SetSendData(t)
                   \/ SendRemaining(t) \/ Queue(t) \/ SendReturns(t) \/ Unregister(t)
          PROVE  asock'.key = asock.key
      BY <3>2 DEF StartRead, Close, Send, SendFirst, SetSendData, SendRemaining, Queue,
                  SendReturns, Unregister, Types, Asocks
    <3>3. ASSUME NEW v \in Workers, PollRead(v) \/ PollWrite(v) \/ CbReturns(v)
          PROVE  asock'.key = asock.key
      BY <3>3 DEF PollRead, PollWrite, CbReturns, ReadCbFalse, SentCbReturns, ReadCbTrue
    <3>4. CASE PeerSends \/ Drain \/ (\E state \in {"eof", "reset"} : PeerEnds(state))
               \/ UNCHANGED vars
      BY <1>2, <3>4 DEF PeerSends, Drain, PeerEnds, vars
    <3> QED
      BY <1>2, <3>1, <3>2, <3>3, <3>4 DEF Next, ApiStep
  <2>2. UNCHANGED poll /\ key.lock \in {None, t} /\ api'[t].pc = "unregister"
    BY <1>2, <2>1 DEF TakeKey, CanLock, Call, Types
  <2>3. w = t
    BY <2>2, ActiveSockAssumption DEF InCallback, Locks
  <2> QED
    BY <2>2, <2>3 DEF ClosedIt
<1> QED
  BY <1>1, <1>2

-----------------------------------------------------------------------------
(* Reading.  Of the units that a callback kept and of those that follow    *)
(* them none is lost and none is read twice.                               *)
InOrder == /\ rd.pkt = [i \in 1 .. Len(rd.pkt) |-> eaten + i]
           /\ eaten + Len(rd.pkt) = peer.read

(* What a callback leaves in the buffer is the last part of what it was    *)
(* given.                                                                  *)
LEMMA KeptInOrder ==
  ASSUME Types, InOrder, NEW n \in Nat, n <= Len(rd.pkt)
  PROVE  /\ Kept(n) = [i \in 1 .. Len(Kept(n)) |-> eaten + Len(rd.pkt) - n + i]
         /\ eaten + Len(rd.pkt) - n + Len(Kept(n)) = peer.read
<1> DEFINE pkt == rd.pkt  kept == Kept(n)
<1>1. pkt \in Seq(Int) /\ Len(pkt) \in Nat /\ eaten \in Int
  BY DEF Types, Reading
<1>2. kept \in Seq(Int) /\ Len(kept) = n /\ \A i \in 1 .. n : kept[i] = pkt[Len(pkt) - n + i]
  BY KeptType
<1>3. \A i \in 1 .. Len(pkt) : pkt[i] = eaten + i
  BY DEF InOrder
<1> HIDE DEF pkt, kept
<1>4. \A i \in 1 .. n : kept[i] = eaten + Len(pkt) - n + i
  <2> TAKE i \in 1 .. n
  <2> DEFINE j == Len(pkt) - n + i
  <2>1. j \in 1 .. Len(pkt) /\ eaten + j = eaten + Len(pkt) - n + i
    BY <1>1 DEF pkt
  <2>2. kept[i] = pkt[j]
    BY <1>2
  <2> HIDE DEF j
  <2>3. pkt[j] = eaten + j
    BY <1>3, <2>1
  <2> QED
    BY <2>1, <2>2, <2>3
<1>5. kept = [i \in 1 .. n |-> eaten + Len(pkt) - n + i]
  BY <1>2, <1>4
<1> QED
  BY <1>1, <1>2, <1>5 DEF pkt, kept, InOrder

(* What recv() appends to the buffer continues it.                         *)
LEMMA ReceivedInOrder ==
  ASSUME Types, NEW pkt \in Seq(Int), NEW n \in Nat, NEW e \in Int,
         pkt = [i \in 1 .. Len(pkt) |-> e + i], e + Len(pkt) = peer.read
  PROVE  LET got == pkt \o Units(n)
         IN  got = [i \in 1 .. Len(got) |-> e + i] /\ e + Len(got) = peer.read + n
<1> DEFINE got == pkt \o Units(n)
<1>1. got \in Seq(Int) /\ Len(got) = Len(pkt) + n
      /\ \A i \in 1 .. Len(pkt) + n :
           got[i] = IF i <= Len(pkt) THEN pkt[i] ELSE peer.read + (i - Len(pkt))
  BY ReceivedType, Zenon
<1>2. \A i \in 1 .. Len(pkt) : pkt[i] = e + i
  OBVIOUS
<1> HIDE DEF got
<1>3. \A i \in 1 .. Len(got) : got[i] = e + i
  BY <1>1, <1>2
<1>4. got = [i \in 1 .. Len(got) |-> e + i]
  BY <1>1, <1>3
<1>5. e + Len(got) = peer.read + n
  <2>1. Len(pkt) \in Nat
    OBVIOUS
  <2> QED
    BY <1>1, <2>1
<1> QED
  BY <1>4, <1>5, Zenon DEF got

(* A packet delivered to the callback is sound if the buffer was, and the  *)
(* operation is in the hands of one worker then.                           *)
LEMMA DeliverReads ==
  ASSUME Types, Locks, Reads, NEW w \in Workers, NEW pkt \in Seq(Int), NEW loop,
         Deliver(w, pkt, Recv(pkt), loop), key.lock \in {None, w}, rd.started,
         Len(pkt) <= MaxKeep, eaten' \in Int, UNCHANGED asock,
         ~asock.shutdown => /\ pkt = [i \in 1 .. Len(pkt) |-> eaten' + i]
                            /\ eaten' + Len(pkt) = peer.read
  PROVE  Reads'
<1> DEFINE got == Recv(pkt)
<1>1. /\ got.n \in Nat /\ got.n <= peer.sent - peer.read
      /\ got.status = "eof" => peer.state = "eof" /\ peer.read = peer.sent
      /\ peer.read \in Nat /\ peer.sent \in Nat
  <2>1. Len(pkt) < MaxSize /\ peer.read <= peer.sent /\ peer.read \in Nat /\ peer.sent \in Nat
    <3>1. Len(pkt) \in Nat /\ MaxKeep \in Nat /\ MaxSize \in Nat /\ MaxKeep < MaxSize
      BY ActiveSockAssumption
    <3> QED
      BY <3>1 DEF Reads, Types, Peers
  <2> QED
    BY <2>1, RecvType
<1>2. ~asock.shutdown =>
        LET new == pkt \o Units(got.n)
        IN  new = [i \in 1 .. Len(new) |-> eaten' + i] /\ eaten' + Len(new) = peer.read + got.n
  BY <1>1, ReceivedInOrder
<1> HIDE DEF got
<1>3. /\ rd'.pkt = pkt \o Units(got.n) /\ ~rd'.pending /\ rd'.started
      /\ peer'.read = peer.read + got.n /\ peer'.sent = peer.sent /\ peer'.state = peer.state
  BY DEF Deliver, Types, Reading, Peers, got
<1>4. /\ poll'[w].status = got.status
      /\ \A v \in Workers : v # w => poll'[v].pc = "idle"
  <2>1. \A v \in Workers : v # w => poll[v].pc = "idle"
    BY ActiveSockAssumption DEF Locks
  <2>2. \A v \in Workers : v # w => poll'[v] = poll[v]
    BY DEF Deliver, Types
  <2>3. poll'[w].status = got.status
    BY DEF Deliver, Types, got, IdlePoll
  <2> QED
    BY <2>1, <2>2, <2>3
<1>5. peer'.read <= peer'.sent
  BY <1>1, <1>3
<1>6. ASSUME NEW v \in Workers, poll'[v].pc = "read_cb", poll'[v].status = "eof"
      PROVE  peer'.state = "eof" /\ peer'.read = peer'.sent
  <2>1. v = w /\ got.status = "eof"
    BY <1>4, <1>6
  <2> QED
    BY <1>1, <1>3, <2>1
<1>7. ~asock'.shutdown => /\ rd'.pkt = [i \in 1 .. Len(rd'.pkt) |-> eaten' + i]
                          /\ eaten' + Len(rd'.pkt) = peer'.read
  BY <1>2, <1>3, Zenon
<1> QED
  BY <1>3, <1>5, <1>6, <1>7 DEF Reads, ReadSound

(* Steps that leave the buffer alone and begin no read callback.           *)
LEMMA ReadsApart ==
  ASSUME Types, Reads, UNCHANGED <<rd, eaten>>, asock.shutdown => asock'.shutdown,
         peer'.read = peer.read, peer'.sent \in Nat, peer'.sent >= peer.sent,
         peer.state # "up" => peer'.state = peer.state /\ peer'.sent = peer.sent,
         \A w \in Workers : poll'[w].pc = "read_cb" => poll'[w] = poll[w]
  PROVE  Reads'
<1>1. peer.read \in Nat /\ peer.sent \in Nat /\ peer'.read <= peer'.sent
  BY DEF Reads, Types, Peers
<1>2. ASSUME NEW v \in Workers, poll'[v].pc = "read_cb", poll'[v].status = "eof"
      PROVE  peer'.state = "eof" /\ peer'.read = peer'.sent
  BY <1>2 DEF Reads, ReadSound
<1>3. ~asock'.shutdown => /\ rd'.pkt = [i \in 1 .. Len(rd'.pkt) |-> eaten' + i]
                          /\ eaten' + Len(rd'.pkt) = peer'.read
  BY Zenon DEF Reads, ReadSound
<1> QED
  BY <1>1, <1>2, <1>3 DEF Reads, ReadSound

(* Every step keeps the read side sound.                                   *)
LEMMA NextReads ==
  ASSUME Types, Locks, Reads, [Next]_vars
  PROVE  Reads'
<1>1. /\ rd.pkt \in Seq(Int) /\ Len(rd.pkt) \in Nat /\ eaten \in Int
      /\ peer.sent \in Nat /\ peer.read \in Nat
  BY DEF Types, Reading, Peers
<1>2. ASSUME NEW w \in Workers, EventDone(w)
      PROVE  \A v \in Workers : poll'[v].pc = "read_cb" => v # w /\ poll'[v] = poll[v]
  BY <1>2 DEF EventDone, IdlePoll, Types
<1>3. ASSUME NEW w \in Workers, PollRead(w)
      PROVE  Reads'
  <2>1. CASE Ignored
    <3>1. /\ asock.shutdown /\ UNCHANGED <<asock, eaten, poll>>
          /\ rd'.pkt = rd.pkt /\ ~rd'.pending /\ rd'.started = rd.started
          /\ peer'.read = peer.read + Recv(rd.pkt).n /\ peer'.sent = peer.sent
          /\ peer'.state = peer.state
      BY <1>3, <2>1 DEF PollRead, Ignored, Types, Reading, Peers
    <3>2. Recv(rd.pkt).n \in Nat /\ Recv(rd.pkt).n <= peer.sent - peer.read
      BY <1>1, RecvType DEF Reads
    <3>3. \A v \in Workers : poll[v].pc # "read_cb"
      BY <1>3 DEF PollRead, Reads
    <3> HIDE DEF Recv
    <3> QED
      BY <1>1, <3>1, <3>2, <3>3 DEF Reads, ReadSound
  <2>2. CASE ~Ignored
    <3>1. Deliver(w, rd.pkt, Recv(rd.pkt), 0) /\ key.lock = None /\ rd.pending
          /\ UNCHANGED <<asock, eaten>>
      BY <1>3, <2>2 DEF PollRead
    <3>2. rd.started /\ Len(rd.pkt) <= MaxKeep
      BY <1>1, <3>1, ActiveSockAssumption DEF Reads, StartRead
    <3>3. ~asock.shutdown => /\ rd.pkt = [i \in 1 .. Len(rd.pkt) |-> eaten' + i]
                             /\ eaten' + Len(rd.pkt) = peer.read
      BY <3>1, Zenon DEF Reads, ReadSound
    <3> QED
      BY <1>1, <3>1, <3>2, <3>3, DeliverReads
  <2> QED
    BY <2>1, <2>2
<1>4. ASSUME NEW w \in Workers, ReadCbFalse(w) \/ SentCbReturns(w)
      PROVE  Reads'
  <2>1. EventDone(w) /\ UNCHANGED <<asock, rd, peer, eaten>>
    BY <1>4 DEF ReadCbFalse, SentCbReturns
  <2> QED
    BY <1>1, <1>2, <2>1, ReadsApart
<1>5. ASSUME NEW w \in Workers, NEW n \in 0 .. MaxKeep, ReadCbTrue(w, n)
      PROVE  Reads'
  <2>1. /\ n \in Nat /\ n <= MaxKeep /\ n <= Len(rd.pkt) /\ poll[w].pc = "read_cb"
        /\ eaten' = eaten + Len(rd.pkt) - n /\ UNCHANGED asock
        /\ \/ asock.shutdown /\ EventDone(w) /\ UNCHANGED <<rd, peer>>
           \/ ReadNext(w, Kept(n))
    BY <1>5, ActiveSockAssumption DEF ReadCbTrue
  <2>2. rd.started /\ ~rd.pending /\ key.lock = w /\ eaten' \in Int
    BY <1>1, <2>1 DEF Reads, Locks
  <2>3. Kept(n) \in Seq(Int) /\ Len(Kept(n)) = n
    BY <2>1, KeptType
  <2>4. ~asock.shutdown => /\ Kept(n) = [i \in 1 .. Len(Kept(n)) |-> eaten' + i]
                           /\ eaten' + Len(Kept(n)) = peer.read
    <3>1. ~asock.shutdown => InOrder
      BY Zenon DEF Reads, ReadSound, InOrder
    <3>2. ~asock.shutdown =>
            /\ Kept(n) = [i \in 1 .. Len(Kept(n)) |-> eaten + Len(rd.pkt) - n + i]
            /\ eaten + Len(rd.pkt) - n + Len(Kept(n)) = peer.read
      BY <2>1, <3>1, KeptInOrder
    <3> QED
      BY <2>1, <3>2, Zenon
  <2>5. \A v \in Workers : v # w => poll[v].pc = "idle"
    BY <2>2, ActiveSockAssumption DEF Locks
  <2>6. CASE EventDone(w) /\ UNCHANGED peer
             /\ \/ asock.shutdown /\ UNCHANGED rd
                \/ rd' = [rd EXCEPT !.pkt = Kept(n)]
                \/ rd' = [rd EXCEPT !.pkt = Kept(n), !.pending = TRUE]
    <3>1. \A v \in Workers : poll'[v].pc # "read_cb"
      BY <1>2, <2>5, <2>6
    <3>2. /\ rd'.started /\ (rd'.pending => Len(rd'.pkt) <= MaxKeep)
          /\ asock.shutdown \/ rd'.pkt = Kept(n)
      BY <2>1, <2>2, <2>3, <2>6 DEF Types, Reading
    <3>3. ~asock'.shutdown => /\ rd'.pkt = [i \in 1 .. Len(rd'.pkt) |-> eaten' + i]
                              /\ eaten' + Len(rd'.pkt) = peer'.read
      BY <2>1, <2>4, <2>6, <3>2, Zenon
    <3> QED
      BY <2>6, <3>1, <3>2, <3>3 DEF Reads, ReadSound
  <2>7. CASE \E loop : Deliver(w, Kept(n), Recv(Kept(n)), loop)
    BY <2>1, <2>2, <2>3, <2>4, <2>7, DeliverReads
  <2> QED
    BY <2>1, <2>6, <2>7 DEF ReadNext
<1>6. ASSUME NEW w \in Workers, PollWrite(w) \/ WriteComplete(w)
      PROVE  Reads'
  <2>1. UNCHANGED <<rd, eaten>> /\ asock'.shutdown = asock.shutdown
    BY <1>6 DEF PollWrite, WriteComplete, Types, Asocks
  <2>2. peer'.read = peer.read /\ peer'.sent = peer.sent /\ peer'.state = peer.state
    BY <1>6 DEF PollWrite, WriteComplete, Wired, Types, Peers
  <2>3. \A v \in Workers : poll'[v].pc = "read_cb" => poll'[v] = poll[v]
    <3>1. CASE PollWrite(w)
      BY <3>1 DEF PollWrite, IdlePoll, Types
    <3>2. CASE WriteComplete(w)
      <4>1. EventDone(w) \/ \E sent : poll' = [poll EXCEPT ![w].pc = "sent_cb", ![w].sent = sent]
        BY <3>2 DEF WriteComplete
      <4> QED
        BY <1>2, <4>1 DEF Types, Polls
    <3> QED
      BY <1>6, <3>1, <3>2
  <2> QED
    BY <1>1, <2>1, <2>2, <2>3, ReadsApart
<1>7. ASSUME NEW t \in Threads, Close(t) \/ ApiStep(t) \/ \E o \in Ops : Send(t, o)
      PROVE  Reads'
  <2>1. UNCHANGED <<rd, eaten, poll>>
    BY <1>7 DEF Close, ApiStep, Send, SendFirst, SetSendData, SendRemaining, Queue, SendReturns,
                TakeKey, Unregister
  <2>2. asock.shutdown => asock'.shutdown
    BY <1>7 DEF Close, ApiStep, Send, SendFirst, SetSendData, SendRemaining, Queue, SendReturns,
                TakeKey, Unregister, Types, Asocks
  <2>3. peer'.read = peer.read /\ peer'.sent = peer.sent /\ peer'.state = peer.state
    BY <1>7 DEF Close, ApiStep, Send, SendFirst, SetSendData, SendRemaining, Queue, SendReturns,
                TakeKey, Unregister, Wired, Failed, Types, Peers
  <2> QED
    BY <1>1, <2>1, <2>2, <2>3, ReadsApart
<1>8. ASSUME NEW t \in Threads, StartRead(t)
      PROVE  Reads'
  <2>1. /\ UNCHANGED <<asock, peer, poll, eaten>> /\ ~rd.started
        /\ rd'.pkt = rd.pkt /\ rd'.started /\ rd'.pending
    BY <1>8 DEF StartRead, Types, Reading
  <2>2. rd.pkt = <<>> /\ \A w \in Workers : poll[w].pc # "read_cb"
    BY <2>1 DEF Reads
  <2>3. Len(rd'.pkt) <= MaxKeep
    BY <2>1, <2>2, ActiveSockAssumption
  <2>4. ~asock'.shutdown => /\ rd'.pkt = [i \in 1 .. Len(rd'.pkt) |-> eaten' + i]
                            /\ eaten' + Len(rd'.pkt) = peer'.read
    BY <2>1, Zenon DEF Reads, ReadSound
  <2> QED
    BY <2>1, <2>2, <2>3, <2>4 DEF Reads, ReadSound
<1>9. CASE PeerSends \/ Drain \/ \E state \in {"eof", "reset"} : PeerEnds(state)
  <2>1. UNCHANGED <<rd, eaten, asock, poll>>
    BY <1>9 DEF PeerSends, Drain, PeerEnds
  <2>2. /\ peer'.read = peer.read /\ peer'.sent \in Nat /\ peer'.sent >= peer.sent
        /\ peer.state # "up" => peer'.state = peer.state /\ peer'.sent = peer.sent
    BY <1>1, <1>9 DEF PeerSends, Drain, PeerEnds, Types, Peers
  <2> QED
    BY <2>1, <2>2, ReadsApart
<1>10. CASE UNCHANGED vars
  <2>1. UNCHANGED <<rd, eaten, asock, poll, peer>>
    BY <1>10 DEF vars
  <2> QED
    BY <1>1, <2>1, ReadsApart
<1> QED
  BY <1>3, <1>4, <1>5, <1>6, <1>7, <1>8, <1>9, <1>10 DEF Next, CbReturns

-----------------------------------------------------------------------------
(* Sending.  A step that leaves the block where it is.                     *)
LEMMA SendsApart ==
  ASSUME Sends, UNCHANGED op, asock'.len = asock.len, asock'.sent = asock.sent,
         key'.list \in {key.list, <<>>},
         \A t \in Threads : api'[t].pc \in Sending => api'[t] = api[t],
         \A w \in Workers : poll'[w].pc \in {"written", "sent_cb"} => poll'[w] = poll[w]
  PROVE  Sends'
<1>1. InCall' \subseteq InCall /\ Reporting' \subseteq Reporting
  BY DEF InCall, Reporting
<1>2. \A t \in InCall' : t \in InCall /\ api'[t] = api[t]
  BY <1>1 DEF InCall
<1>3. Calls'
  BY <1>2 DEF Sends, Calls, Rest
<1>4. Listed'
  BY DEF Sends, Listed, Rest
<1>5. Reports'
  BY <1>1 DEF Sends, Reports, Reporting, Rest
<1>6. Told'
  BY DEF Sends, Told
<1>7. OneBlock'
  BY <1>1 DEF Sends, OneBlock
<1> QED
  BY <1>3, <1>4, <1>5, <1>6, <1>7 DEF Sends

(* A step after which the block is nowhere, only with thread t, or only in *)
(* the list.                                                               *)
LEMMA SendsOnly ==
  ASSUME Told', NEW t, InCall' \subseteq {t}, Calls', Reporting' = {}, key'.list = <<>>
  PROVE  Sends'
  BY DEF Sends, Listed, Reports, OneBlock

(* With no call and no completion in between, the send side is what the    *)
(* list of pending operations says.                                        *)
LEMMA SendsListed ==
  ASSUME Told', InCall' = {}, Reporting' = {}, Listed'
  PROVE  Sends'
  BY DEF Sends, Calls, Reports, OneBlock

(* The call of thread t goes on with the block.                            *)
LEMMA CallSends ==
  ASSUME Types, Sends, NEW t \in Threads,
         SendFirst(t) \/ SetSendData(t) \/ SendRemaining(t) \/ Queue(t) \/ SendReturns(t)
  PROVE  Sends'
<1> DEFINE o == api[t].op
           n == api[t].size
<1>1. t \in InCall /\ o \in Ops /\ n \in Int
  BY DEF SendFirst, SetSendData, SendRemaining, Queue, SendReturns, Sending, InCall,
         Types, OpOfCall, Apis
<1>2. InCall = {t} /\ key.list = <<>> /\ Reporting = {}
  BY <1>1 DEF Sends, OneBlock
<1>3. /\ op[o].busy
      /\ api[t].pc = "send" => ~op[o].data /\ op[o].wire = 0 /\ n = Len0
      /\ api[t].pc = "partial" => ~op[o].data /\ op[o].wire = n
      /\ api[t].pc = "remaining" => op[o].data /\ op[o].wire = asock.sent /\ asock.len = Len0
      /\ api[t].pc = "queue" => op[o].wire + n = Len0 /\ Rest(o, n)
      /\ api[t].pc = "sent" => op[o].wire = Len0
  BY <1>1 DEF Sends, Calls
<1>4. /\ Len0 \in Nat \ {0} /\ peer.room \in Nat /\ asock.len \in Int /\ asock.sent \in Int
      /\ op[o] \in OpKeys /\ op[o].wire \in Int
  BY <1>1, ActiveSockAssumption DEF Types, Peers, Asocks, OpKeys
<1>5. UNCHANGED poll
  BY DEF SendFirst, SetSendData, SendRemaining, Queue, SendReturns
<1>6. Told' /\ Reporting' = {}
  BY <1>2, <1>5 DEF Sends, Told, Reporting
<1>7. \A s \in Threads : s # t => api'[s] = api[s]
  BY DEF SendFirst, SetSendData, SendRemaining, Queue, SendReturns, Failed, Return, Call, Types
<1>8. InCall' \subseteq {t}
  BY <1>2, <1>7 DEF InCall
<1>9. ASSUME Return(t)
      PROVE  InCall' = {}
  BY <1>8, <1>9 DEF Return, IdleApi, InCall, Sending, Types
<1>10. ASSUME Return(t), key'.list = <<>>
       PROVE  Sends'
  BY <1>6, <1>9, <1>10, SendsOnly DEF Calls
<1>11. ASSUME NEW pc, NEW m, Call(t, pc, o, m), key'.list = <<>>,
              op'[o].busy,
              pc \in {"sent", "partial", "remaining", "queue"},
              pc = "sent" => op'[o].wire = Len0,
              pc = "partial" => ~op'[o].data /\ op'[o].wire = m,
              pc = "remaining" => op'[o].data /\ op'[o].wire = asock'.sent /\ asock'.len = Len0,
              pc = "queue" => op'[o].wire + m = Len0
                              /\ IF op'[o].data THEN asock'.sent + m = Len0 /\ asock'.len = Len0
                                               ELSE m = Len0
       PROVE  Sends'
  <2>1. api'[t].pc = pc /\ api'[t].op = o /\ api'[t].size = m
    BY <1>11 DEF Call, Types
  <2>2. Calls'
    BY <1>8, <1>11, <2>1 DEF Calls, Rest
  <2> QED
    BY <1>6, <1>8, <1>11, <2>2, SendsOnly
<1>12. CASE SendFirst(t)
  <2> DEFINE k == Smaller(peer.room, Len0)
  <2>1. /\ UNCHANGED <<asock, key>>
        /\ \/ Failed(t, o)
           \/ Wired(o, k) /\ Call(t, IF k = Len0 THEN "sent" ELSE "partial", o, k)
           \/ Call(t, "queue", o, Len0) /\ UNCHANGED op
    BY <1>12 DEF SendFirst
  <2>2. api[t].pc = "send" /\ k \in Int
    BY <1>4, <1>12, SmallerType DEF SendFirst
  <2> HIDE DEF k
  <2>3. Wired(o, k) => op'[o].wire = op[o].wire + k /\ op'[o].data = op[o].data
                       /\ op'[o].busy = op[o].busy
    BY <1>1, <1>4 DEF Wired, OpKeys, Types
  <2>4. CASE Failed(t, o)
    BY <1>2, <1>10, <2>1, <2>4 DEF Failed
  <2>5. CASE Wired(o, k) /\ Call(t, IF k = Len0 THEN "sent" ELSE "partial", o, k)
    <3> DEFINE pc == IF k = Len0 THEN "sent" ELSE "partial"
    <3>1. op'[o].wire = k /\ ~op'[o].data /\ op'[o].busy /\ key'.list = <<>>
      <4>1. ~op[o].data /\ op[o].wire = 0 /\ op[o].busy
        BY <1>3, <2>2
      <4>2. op'[o].wire = op[o].wire + k /\ op'[o].data = op[o].data /\ op'[o].busy = op[o].busy
        BY <2>3, <2>5
      <4> HIDE DEF o
      <4> QED
        BY <1>2, <2>1, <2>2, <4>1, <4>2
    <3>2. pc \in {"sent", "partial"} /\ (pc = "sent" => k = Len0)
      OBVIOUS
    <3>3. Call(t, pc, o, k)
      BY <2>5
    <3> HIDE DEF o, n, pc
    <3> QED
      BY <1>11, <3>1, <3>2, <3>3
  <2>6. CASE Call(t, "queue", o, Len0) /\ UNCHANGED op
    <3>1. op'[o].wire + Len0 = Len0 /\ ~op'[o].data /\ op'[o].busy /\ key'.list = <<>>
      BY <1>2, <1>3, <1>4, <2>1, <2>2, <2>6
    <3> HIDE DEF o, n
    <3> QED
      BY <1>11, <2>6, <3>1
  <2> QED
    BY <2>1, <2>4, <2>5, <2>6
<1>13. CASE SetSendData(t)
  <2>1. /\ UNCHANGED key /\ api[t].pc = "partial"
        /\ asock'.len = Len0 /\ asock'.sent = n
        /\ op'[o].data /\ op'[o].wire = op[o].wire /\ op'[o].busy = op[o].busy
        /\ Call(t, "remaining", o, 0)
    BY <1>1, <1>4, <1>13 DEF SetSendData, Linked, Types, Asocks, OpKeys
  <2> HIDE DEF o, n
  <2> QED
    BY <1>2, <1>3, <1>11, <2>1
<1>14. CASE SendRemaining(t)
  <2> DEFINE size == asock.len - asock.sent
             k == Smaller(peer.room, size)
  <2>1. api[t].pc = "remaining" /\ size \in Int /\ k \in Int /\ UNCHANGED key
    BY <1>4, <1>14, SmallerType DEF SendRemaining
  <2>2. Wired(o, k) => op'[o].wire = op[o].wire + k /\ op'[o].data = op[o].data
                       /\ op'[o].busy = op[o].busy
    BY <1>1, <1>4 DEF Wired, OpKeys, Types
  <2>3. CASE Failed(t, o)
    BY <1>2, <1>10, <2>1, <2>3 DEF Failed
  <2>4. CASE /\ Wired(o, k) /\ asock' = [asock EXCEPT !.sent = @ + k]
             /\ IF k = size THEN Call(t, "sent", o, Len0) ELSE UNCHANGED api
    <3>1. asock'.sent = asock.sent + k /\ asock'.len = asock.len
      BY <2>4 DEF Types, Asocks
    <3> HIDE DEF k
    <3>2. CASE k = size
      <4>1. op'[o].wire = Len0 /\ op'[o].busy /\ key'.list = <<>>
        <5>1. op[o].wire = asock.sent /\ asock.len = Len0 /\ op[o].busy
          BY <1>3, <2>1
        <5>2. op'[o].wire = op[o].wire + size /\ op'[o].busy = op[o].busy
          BY <2>2, <2>4, <3>2
        <5> HIDE DEF o
        <5> QED
          BY <1>2, <1>4, <2>1, <5>1, <5>2
      <4> HIDE DEF o
      <4> QED
        BY <1>11, <2>4, <3>2, <4>1
    <3>3. CASE k # size
      <4>1. op'[o].wire = asock'.sent /\ op'[o].data /\ op'[o].busy /\ asock'.len = Len0
        BY <1>3, <1>4, <2>1, <2>2, <2>4, <3>1
      <4>2. Calls'
        BY <1>8, <2>1, <2>4, <3>3, <4>1 DEF Calls
      <4> QED
        BY <1>2, <1>6, <1>8, <2>1, <4>2, SendsOnly
    <3> QED
      BY <3>2, <3>3
  <2>5. CASE Call(t, "queue", o, size) /\ UNCHANGED <<asock, op>>
    <3>1. op[o].wire + size = Len0 /\ asock.sent + size = Len0
      BY <1>3, <1>4, <2>1
    <3> HIDE DEF o, size
    <3> QED
      BY <1>2, <1>3, <1>11, <2>1, <2>5, <3>1
  <2> QED
    BY <1>14, <2>3, <2>4, <2>5 DEF SendRemaining
<1>15. CASE Queue(t)
  <2> DEFINE b == [op |-> o, len |-> n, written |-> 0]
  <2>1. CASE Failed(t, o) /\ UNCHANGED key
    BY <1>2, <1>10, <2>1 DEF Failed
  <2>2. CASE key' = [key EXCEPT !.list = Append(@, b)] /\ Return(t) /\ UNCHANGED op
    <3>1. key'.list = <<b>>
      <4>1. key'.list = Append(key.list, b)
        BY <2>2 DEF Types, Keys
      <4> QED
        BY <1>2, <4>1
    <3>2. UNCHANGED asock /\ api[t].pc = "queue"
      BY <1>15 DEF Queue
    <3>3. key'.list[1] = b /\ Len(key'.list) = 1
      BY <3>1
    <3>4. Listed'
      BY <1>3, <1>4, <1>1, <2>2, <3>2, <3>3 DEF Listed, Rest
    <3> QED
      BY <1>6, <1>9, <2>2, <3>4, SendsListed
  <2> QED
    BY <1>15, <2>1, <2>2 DEF Queue
<1>16. CASE SendReturns(t)
  BY <1>2, <1>10, <1>16 DEF SendReturns
<1> QED
  BY <1>12, <1>13, <1>14, <1>15, <1>16

(* The I/O queue goes on with the block that its key has listed.           *)
LEMMA PollSends ==
  ASSUME Types, Locks, Sends, NEW w \in Workers, PollWrite(w)
  PROVE  Sends'
<1> DEFINE b == key.list[1]
           n == Smaller(peer.room, b.len - b.written)
<1>1. key.list \in Seq(Blocks) /\ key.list # <<>> /\ Len(key.list) = 1 /\ Head(key.list) = b
  BY DEF PollWrite, Types, Keys, Sends, Listed
<1>2. b \in Blocks /\ b.op \in Ops /\ b.len \in Int /\ b.written \in Int
  <2>1. b \in Blocks
    BY <1>1
  <2> QED
    BY <2>1 DEF Blocks
<1>3. InCall = {} /\ Reporting = {}
  BY <1>1 DEF Sends, OneBlock
<1>4. op[b.op].busy /\ Rest(b.op, b.len) /\ op[b.op].wire + b.len - b.written = Len0
  BY <1>1 DEF Sends, Listed
<1>5. UNCHANGED <<asock, api>> /\ InCall' = {} /\ key.lock = None
  BY <1>3 DEF PollWrite, InCall
<1>6. n \in Int /\ op[b.op].wire \in Int
  <2>1. peer.room \in Int /\ b.len - b.written \in Int
    BY <1>2 DEF Types, Peers
  <2> QED
    BY <1>2, <2>1, SmallerType DEF Types, OpKeys
<1> DEFINE m == IF peer.state = "reset" THEN 0 ELSE n
<1>7. /\ op'[b.op].wire = op[b.op].wire + m /\ op'[b.op].busy = op[b.op].busy
      /\ op'[b.op].data = op[b.op].data
  <2>1. IF peer.state = "reset" THEN UNCHANGED op ELSE Wired(b.op, n)
    BY <1>1 DEF PollWrite
  <2> HIDE DEF n, b
  <2> QED
    BY <1>2, <1>6, <2>1 DEF Wired, Types, OpKeys
<1>8. IF op'[b.op].data THEN asock'.sent + b.len = Len0 /\ asock'.len = Len0 ELSE b.len = Len0
  <2> HIDE DEF b
  <2>1. op'[b.op].data = op[b.op].data /\ UNCHANGED asock
    BY <1>5, <1>7
  <2> QED
    BY <1>4, <2>1 DEF Rest
<1>9. CASE peer.state = "reset" \/ b.written + n = b.len
  <2> DEFINE result == IF peer.state = "reset" THEN -1 ELSE b.len
             p == [IdlePoll EXCEPT !.pc = "written", !.op = b.op, !.sent = result]
  <2>1. key' = [key EXCEPT !.list = Tail(@), !.lock = w] /\ poll' = [poll EXCEPT ![w] = p]
    BY <1>1, <1>9 DEF PollWrite
  <2>2. key'.list = <<>>
    <3>1. key'.list = Tail(key.list)
      BY <2>1 DEF Types, Keys
    <3> DEFINE rest == Tail(key.list)
    <3>2. rest \in Seq(Blocks) /\ Len(rest) = 0
      BY <1>1
    <3> HIDE DEF rest
    <3>3. rest = <<>>
      BY <3>2
    <3> QED
      BY <3>1, <3>3 DEF rest
  <2>3. p.pc = "written" /\ p.op = b.op /\ p.sent = result /\ (result > 0 => result = b.len)
    BY <1>2 DEF IdlePoll
  <2> HIDE DEF p, result, b
  <2>4. /\ poll'[w] = p /\ \A v \in Workers : v # w => poll'[v] = poll[v]
    BY <2>1 DEF Types
  <2>5. Told'
    BY <2>3, <2>4 DEF Sends, Told
  <2>6. Reporting' \subseteq {w}
    BY <1>3, <2>4 DEF Reporting
  <2>7. Reports'
    <3>1. \A v \in Reporting' : v = w /\ poll'[v] = p
      BY <2>4, <2>6
    <3>2. op'[p.op].busy
          /\ (p.sent > 0 => IF op'[p.op].data THEN asock'.sent + p.sent = Len0 /\ asock'.len = Len0
                            ELSE p.sent = Len0)
      BY <1>4, <1>7, <1>8, <2>3
    <3> QED
      BY <3>1, <3>2 DEF Reports, Rest
  <2> QED
    BY <1>5, <2>2, <2>5, <2>7 DEF Sends, Calls, Listed, OneBlock
<1>10. CASE ~(peer.state = "reset" \/ b.written + n = b.len)
  <2>1. key' = [key EXCEPT !.list[1].written = @ + n] /\ UNCHANGED poll
    BY <1>1, <1>10 DEF PollWrite
  <2> DEFINE c == [b EXCEPT !.written = @ + n]
  <2>2. key'.list = [key.list EXCEPT ![1] = c]
    BY <2>1 DEF Types, Keys
  <2>3. key'.list[1] = c /\ Len(key'.list) = 1
    <3> HIDE DEF c
    <3>1. 1 \in DOMAIN key.list
      BY <1>1
    <3> QED
      BY <1>1, <2>2, <3>1
  <2>4. c.op = b.op /\ c.len = b.len /\ c.written = b.written + n
    <3> HIDE DEF b, n
    <3> QED
      BY <1>2 DEF Blocks
  <2> HIDE DEF c
  <2>5. op'[c.op].wire + c.len - c.written = Len0
    <3> HIDE DEF b, n
    <3> QED
      BY <1>2, <1>4, <1>6, <1>7, <1>10, <2>4
  <2>6. Listed'
    <3>1. op'[c.op].busy /\ IF op'[c.op].data THEN asock'.sent + c.len = Len0 /\ asock'.len = Len0
                            ELSE c.len = Len0
      <4> HIDE DEF b
      <4> QED
        BY <1>4, <1>7, <1>8, <2>4
    <3> QED
      BY <2>3, <2>5, <3>1 DEF Listed, Rest
  <2>7. Told' /\ Reporting' = {}
    BY <1>3, <2>1 DEF Sends, Told, Reporting
  <2> QED
    BY <1>5, <2>6, <2>7, SendsListed
<1> QED
  BY <1>9, <1>10

(* The worker reports the block, with its whole size or a failure.         *)
LEMMA ReportSends ==
  ASSUME Types, Locks, Sends, NEW w \in Workers, WriteComplete(w)
  PROVE  Sends'
<1> DEFINE o == poll[w].op
           size == poll[w].sent
           sent == IF op[o].data /\ size > 0 THEN asock.sent + size ELSE size
<1>1. w \in Reporting /\ o \in Ops /\ size \in Int
  BY DEF WriteComplete, Reporting, Types, OpOfPoll, Polls
<1>2. key.list = <<>> /\ InCall = {} /\ \A v \in Workers : v # w => poll[v].pc = "idle"
  BY <1>1, ActiveSockAssumption DEF Sends, OneBlock, Locks, Reporting
<1>3. size > 0 => Rest(o, size)
  BY <1>1 DEF Sends, Reports
<1>4. key'.list = <<>> /\ UNCHANGED api
  BY <1>2 DEF WriteComplete, EventDone, Types, Keys
<1>5. InCall' = {} /\ Calls'
  BY <1>2, <1>4 DEF InCall, Calls
<1>6. /\ \A v \in Workers : v # w => poll'[v] = poll[v]
      /\ poll'[w].pc \in {"idle", "sent_cb"}
      /\ poll'[w].pc = "sent_cb" => poll'[w].sent = sent
  <2>1. EventDone(w) \/ poll' = [poll EXCEPT ![w].pc = "sent_cb", ![w].sent = sent]
    BY DEF WriteComplete
  <2> HIDE DEF sent
  <2> QED
    BY <2>1 DEF EventDone, IdlePoll, Types, Polls
<1>7. Reporting' = {}
  BY <1>2, <1>6 DEF Reporting
<1>8. sent > 0 => sent = Len0
  <2>1. asock.sent \in Int
    BY DEF Types, Asocks
  <2> QED
    BY <1>1, <1>3, <2>1 DEF Rest
<1> HIDE DEF sent
<1>9. Told'
  BY <1>2, <1>6, <1>8 DEF Told
<1> QED
  BY <1>4, <1>5, <1>7, <1>9, SendsOnly

(* Every step keeps the send side sound.                                   *)
LEMMA NextSends ==
  ASSUME Types, Locks, Sends, [Next]_vars
  PROVE  Sends'
<1>1. ASSUME NEW w \in Workers, PollRead(w) \/ CbReturns(w)
      PROVE  Sends'
  <2>1. UNCHANGED <<asock, op, api>> /\ key'.list = key.list
    BY <1>1 DEF PollRead, CbReturns, ReadCbFalse, SentCbReturns, ReadCbTrue, ReadNext, Deliver,
                EventDone, Types, Keys
  <2>2. EventDone(w) \/ UNCHANGED poll \/ \E pkt, got, loop : Deliver(w, pkt, got, loop)
    BY <1>1 DEF PollRead, CbReturns, ReadCbFalse, SentCbReturns, ReadCbTrue, ReadNext
  <2>3. \A v \in Workers : poll'[v].pc \in {"written", "sent_cb"} => poll'[v] = poll[v]
    <3>1. CASE EventDone(w)
      BY <3>1 DEF EventDone, IdlePoll, Types
    <3>2. CASE \E pkt, got, loop : Deliver(w, pkt, got, loop)
      <4>1. poll'[w].pc = "read_cb" /\ \A v \in Workers : v # w => poll'[v] = poll[v]
        BY <3>2 DEF Deliver, IdlePoll, Types
      <4> QED
        BY <4>1
    <3> QED
      BY <2>2, <3>1, <3>2
  <2> QED
    BY <2>1, <2>3, SendsApart
<1>2. ASSUME NEW t \in Threads, StartRead(t) \/ Close(t) \/ TakeKey(t) \/ Unregister(t)
      PROVE  Sends'
  <2>1. UNCHANGED <<op, poll>> /\ key'.list \in {key.list, <<>>}
        /\ asock'.len = asock.len /\ asock'.sent = asock.sent
    BY <1>2 DEF StartRead, Close, TakeKey, Unregister, Types, Keys, Asocks
  <2>2. \A s \in Threads : api'[s].pc \in Sending => api'[s] = api[s]
    BY <1>2 DEF StartRead, Close, TakeKey, Unregister, Call, Return, IdleApi, Sending, Types
  <2> QED
    BY <2>1, <2>2, SendsApart
<1>3. ASSUME NEW t \in Threads, NEW o \in Ops, Send(t, o)
      PROVE  Sends'
  <2>1. InCall = {} /\ Reporting = {} /\ key.list = <<>>
    <3>1. \A p \in Ops : ~op[p].busy
      BY <1>3 DEF Send
    <3>2. InCall = {}
      BY <3>1 DEF Sends, Calls, InCall, Types, OpOfCall
    <3>3. Reporting = {}
      BY <3>1 DEF Sends, Reports, Reporting, Types, OpOfPoll
    <3>4. key.list # <<>> => key.list[1] \in Blocks
      BY DEF Types, Keys
    <3> QED
      BY <3>1, <3>2, <3>3, <3>4 DEF Sends, Listed, Blocks
  <2>2. /\ UNCHANGED <<key, poll>> /\ api'[t] = [pc |-> "send", op |-> o, size |-> Len0]
        /\ \A s \in Threads : s # t => api'[s] = api[s]
        /\ op'[o] = [data |-> FALSE, wire |-> 0, busy |-> TRUE]
    BY <1>3 DEF Send, Call, Types
  <2>3. InCall' \subseteq {t} /\ Reporting' = {} /\ Told'
    BY <2>1, <2>2 DEF InCall, Reporting, Sends, Told
  <2>4. Calls'
    BY <2>2, <2>3 DEF Calls
  <2> QED
    BY <2>1, <2>2, <2>3, <2>4, SendsOnly
<1>4. CASE PeerSends \/ Drain \/ (\E state \in {"eof", "reset"} : PeerEnds(state))
           \/ UNCHANGED vars
  <2>1. UNCHANGED <<asock, op, key, poll, api>>
    BY <1>4 DEF PeerSends, Drain, PeerEnds, vars
  <2> QED
    BY <2>1, SendsApart
<1> QED
  BY <1>1, <1>2, <1>3, <1>4, CallSends, PollSends, ReportSends DEF Next, ApiStep

-----------------------------------------------------------------------------
(* The invariant is inductive.                                             *)
LEMMA NextInv ==
  ASSUME IInv, [Next]_vars
  PROVE  IInv'
  BY NextTypes, NextLocks, NextReads, NextSends, NextCloses, NextTheirs DEF IInv

(* An active socket loses and repeats nothing of what it reads, whatever   *)
(* its callbacks leave in the buffer, and reports the end of a stream only *)
(* at its end (ioqueue_on_read_complete).                                  *)
THEOREM ReadsAreSound == Spec => []ReadSound
<1>1. IInv => ReadSound
  BY DEF IInv, Reads
<1> QED
  BY InitInv, NextInv, <1>1, PTL DEF Spec

(* With whole_data a block is reported as sent when all of it has gone to  *)
(* the socket, through whatever parts (send_remaining,                     *)
(* ioqueue_on_write_complete).                                             *)
THEOREM BlocksAreWhole == Spec => []SentWhole
<1>1. ASSUME IInv
      PROVE  SentWhole
  <2>1. \A t \in Threads : api[t].pc = "sent" => op[api[t].op].wire = Len0
    BY <1>1 DEF IInv, Sends, Calls, InCall, Sending
  <2>2. \A e \in {key.list[i] : i \in DOMAIN key.list} : op[e.op].wire + e.len - e.written = Len0
    <3>1. key.list \in Seq(Blocks) /\ (key.list # <<>> => Len(key.list) = 1)
      BY <1>1 DEF IInv, Types, Keys, Sends, Listed
    <3>2. \A i \in DOMAIN key.list : i = 1 /\ key.list # <<>>
      BY <3>1
    <3> QED
      BY <1>1, <3>2 DEF IInv, Sends, Listed
  <2>3. \A w \in Workers : poll[w].pc = "written" /\ op[poll[w].op].data /\ poll[w].sent > 0 =>
          asock.sent + poll[w].sent = asock.len
    BY <1>1 DEF IInv, Sends, Reports, Reporting, Rest
  <2> QED
    BY <1>1, <2>1, <2>2, <2>3 DEF IInv, Sends, Told, SentWhole
<1> QED
  BY InitInv, NextInv, <1>1, PTL DEF Spec

(* Once a call of pj_activesock_close has returned, be it the second of    *)
(* two, no callback begins, and none is running but one that has closed    *)
(* the socket or is about to unregister its key.                           *)
THEOREM ClosedIsQuiet == Spec => ClosedQuiet
<1>1. ASSUME IInv, IInv', [Next]_vars, closed' # {}, NEW w \in Workers, InCallback(w)'
      PROVE  /\ ClosedIt(w)'
             /\ closed # {} => InCallback(w) /\ poll'[w].loop = poll[w].loop
  <2>1. ClosedIt(w)'
    BY <1>1 DEF IInv, Closes, Theirs
  <2>2. ASSUME closed # {}
        PROVE  InCallback(w) /\ poll'[w].loop = poll[w].loop
    <3>1. ~asock.key
      BY <1>1, <2>2 DEF IInv, Closes
    <3> QED
      BY <1>1, <3>1, QuietStep DEF IInv
  <2> QED
    BY <2>1, <2>2
<1>2. IInv /\ IInv' /\ [Next]_vars =>
        [closed' # {} => \A w \in Workers : InCallback(w)' =>
           /\ ClosedIt(w)'
           /\ closed # {} => InCallback(w) /\ poll'[w].loop = poll[w].loop]_vars
  BY <1>1
<1> QED
  BY InitInv, NextInv, <1>2, PTL DEF Spec, ClosedQuiet
=============================================================================
