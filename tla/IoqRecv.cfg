\* Two pollers and a client; reads, posts and unregistration; no concurrency.
CONSTANTS
  o1 = o1
  o2 = o2
  p1 = p1
  p2 = p2
  Keys = {k1, k2}
  Fds = {f1}
  SockTypes = {"dgram"}
  KeyGroups = {g}
  NoGroup = NoGroup
  Ops = {o1, o2}
  NoOp = NoOp
  Pollers = {p1, p2}
  Clients = {c}
  NoThread = NoThread
  NoFd = NoFd
  NoKey = NoKey
  Calls <- ReadCalls
  SendsEarly = FALSE
  AllowConcurrent = FALSE
  MaxEvents = 2
  OpSize = 1
  MaxData = 1
  MaxRoom = 1
SYMMETRY Symmetry
SPECIFICATION Spec
INVARIANTS UnregisterSound CallbacksExclusive
