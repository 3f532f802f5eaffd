CONSTANTS
  app = app
  helper = helper
  loop1 = loop1
  loop2 = loop2
  Apps <- OneApp
  Owner = app
  Loops <- TwoLoops
  Receiver = Receiver
  NoThread = NoThread
  Commands <- BothWays
  MaxCommand = 2
  Accel = 1
  Decel = 2
  Watchdog = 1
  UnlockReps = 2
  StopReps = 2
  EStopReps = 1
  Calls <- AllCalls
  CloseFirst = TRUE
  Prompt = FALSE
SPECIFICATION Spec
SYMMETRY LoopSymmetry
INVARIANTS
  TypeOK
  LatchedIsStill
  OneControlLoop
  LinkHasLoop
PROPERTIES
  ImplementsContract
