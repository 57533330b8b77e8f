\* Two workers, on the resolver's own heap or on one that is shared.
SPECIFICATION FairSpec
CONSTANTS
  Queries = {t1, t2}
  Keys = {k1}
  Nodes = {1, 2}
  Entries = {1, 2, 3}
  Servers = {s1}
  Workers = {w1, w2}
  RetrCount = 2
  MaxId = 2
  None = None
INVARIANTS NodesSound ToldOnce CacheSound TimeoutIsOwn
PROPERTIES AnsweredUnlessOrphaned
CHECK_DEADLOCK FALSE
