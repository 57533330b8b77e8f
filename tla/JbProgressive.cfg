\* Progressive discarding, frame times of one and two frames per gap.
CONSTANTS
  MaxCount = 3
  MAX_MISORDER = 2
  MAX_DROPOUT = 3
  MAX_FRAME_INDEX = 4
  NoFrame = NoFrame
  MAX_BURST_MSEC = 200
  INIT_CYCLE = 2
  STABLE_HISTORY_LIMIT = 1
  DEFAULT_INIT_DELAY = 2
  DISC_MIN_GAP = 200
  PRO_DISC_MIN_BURST = 1
  PRO_DISC_MAX_BURST = 3
  PRO_DISC_T1 = 100
  PRO_DISC_T2 = 400
  PTimes = {100, 200}
  Algos = {"progressive"}
  Prefetches = {}
  MaxSeq = 4
  MaxLevel = 2
SPECIFICATION Spec
INVARIANTS TypeOK WindowSound DiscardsSound RemovalSound
PROPERTY ImplementsQueue
