\* Discarding static or, with a fixed prefetch, off.
CONSTANTS
  MaxCount = 3
  MAX_MISORDER = 2
  MAX_DROPOUT = 3
  MAX_FRAME_INDEX = 4
  NoFrame = NoFrame
  MAX_BURST_MSEC = 200
  INIT_CYCLE = 2
  STABLE_HISTORY_LIMIT = 0
  DEFAULT_INIT_DELAY = 1
  DISC_MIN_GAP = 200
  PRO_DISC_MIN_BURST = 1
  PRO_DISC_MAX_BURST = 3
  PRO_DISC_T1 = 200
  PRO_DISC_T2 = 400
  PTimes = {200}
  Algos = {"static"}
  Prefetches = {1}
  MaxSeq = 4
  MaxLevel = 2
SPECIFICATION Spec
INVARIANTS RoomIsMade LevelsBounded
PROPERTIES NoReplay NoSilentLoss
