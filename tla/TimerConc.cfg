\* Two threads schedule, cancel and poll two timers; the heap never fills.
CONSTANTS
  Entries = {e1, e2}
  Grouped = {e1}
  Threads = {t1, t2}
  NoEntry = NoEntry
  Size = 3
  Delays = {0, 1}
  MaxPerPoll = 2
  MaxLate = 0
  Serialised = TRUE
  Beyond = {0, 1}
SPECIFICATION Spec
SYMMETRY Symmetric
INVARIANTS IdsSound GroupRefsExact HeapOpsCorrect
