\* Two threads, two handlers, and a lock chained and unchained after the group.
CONSTANTS
  Threads = {t1, t2}
  NoThread = NoThread
  x = x
  ExtLocks = {x}
  Pos <- AfterGroup
  Handlers = {h1, h2}
  MaxRef = 1
  MaxHold = 2
SPECIFICATION FairSpec
INVARIANTS RefsExact Ownership LockOrder QuietDestroy
PROPERTY DestroyCompletes
