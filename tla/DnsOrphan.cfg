\* The second query joins a pending one that is cancelled.
SPECIFICATION FairSpec
CONSTANTS
  Queries = {t1, t2}
  Keys = {k1}
  Nodes = {1, 2}
  Entries = {1, 2, 3}
  Servers = {s1}
  Workers = {w1, w2}
  RetrCount = 2
  MaxId = 2
  None = None
PROPERTY EveryQueryAnswered
CHECK_DEADLOCK FALSE
