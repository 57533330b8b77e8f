\* Two workers and a client; blocks of three units, a read buffer of two.
SPECIFICATION FairSpec
CONSTANTS
  Workers = {w1, w2}
  Clients = {c1}
  Ops = {o1}
  Len0 = 3
  MaxSize = 2
  MaxKeep = 1
  MaxLoop = 2
  MaxUnits = 3
  MaxRoom = 1
  None = None
INVARIANTS ReadSound SentWhole
PROPERTIES ClosedQuiet WorkersReturn
CHECK_DEADLOCK FALSE
