\* One thread; the heap grows on the first schedule.
CONSTANTS
  Entries = {e1, e2}
  Grouped = {e1}
  Threads = {t1}
  NoEntry = NoEntry
  Size = 0
  Delays = {0, 1, 2}
  MaxPerPoll = 1
  MaxLate = 2
  Serialised = TRUE
  Beyond = {0, 1}
SPECIFICATION FairSpec
PROPERTIES ImplementsQueue NoTimerForgotten
