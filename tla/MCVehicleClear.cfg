CONSTANTS
  app = app
  helper = helper
  loop1 = loop1
  loop2 = loop2
  Apps <- OneApp
  Owner = app
  Loops <- TwoLoops
  Receiver = Receiver
  NoThread = NoThread
  Commands <- ForwardOnly
  MaxCommand = 2
  Accel = 1
  Decel = 2
  Watchdog = 1
  UnlockReps = 1
  StopReps = 1
  EStopReps = 1
  Calls <- CoreCalls
  CloseFirst = TRUE
  Prompt = FALSE
SPECIFICATION Spec
PROPERTIES ClearedOnlyWithoutFault
