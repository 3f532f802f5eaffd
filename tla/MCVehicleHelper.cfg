CONSTANTS
  app = app
  helper = helper
  loop1 = loop1
  loop2 = loop2
  Apps <- TwoApps
  Owner = app
  Loops <- TwoLoops
  Receiver = Receiver
  NoThread = NoThread
  Commands <- FullSpeed
  MaxCommand = 2
  Accel = 1
  Decel = 2
  Watchdog = 1
  UnlockReps = 2
  StopReps = 2
  EStopReps = 1
  Calls <- HelperCalls
  CloseFirst = TRUE
  Prompt = TRUE
SPECIFICATION Spec
SYMMETRY LoopSymmetry
INVARIANTS
  ClosesStopped
