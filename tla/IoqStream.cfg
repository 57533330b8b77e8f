\* One poller and a client; every kind of socket; writes, connects and liveness.
CONSTANTS
  o1 = o1
  o2 = o2
  p1 = p1
  p2 = p2
  Keys = {k1}
  Fds = {f1}
  SockTypes = {"dgram", "stream", "listen"}
  KeyGroups = {NoGroup}
  NoGroup = NoGroup
  Ops = {o1, o2}
  NoOp = NoOp
  Pollers = {p1}
  Clients = {c}
  NoThread = NoThread
  NoFd = NoFd
  NoKey = NoKey
  Calls <- WriteCalls
  SendsEarly = FALSE
  AllowConcurrent = TRUE
  MaxEvents = 2
  OpSize = 2
  MaxData = 1
  MaxRoom = 1
SPECIFICATION FairSpec
INVARIANT NoLostWakeup
PROPERTIES BytesInOrder NoStall
