\* Two users, a publisher, queues of two events.
SPECIFICATION FairSpec
CONSTANTS
  Apps = {a1}
  Worker = w
  Nodes = {1, 2, 3}
  Users = {u1, u2}
  Pubs = {p1}
  MAX_EVENTS = 2
  MaxPublish = 3
  MaxSubscribe = 3
  None = None
INVARIANTS NobodyMissed QueuesSound
PROPERTY PostedAreTold
CHECK_DEADLOCK FALSE
