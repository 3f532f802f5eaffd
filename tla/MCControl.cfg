CONSTANTS
  s1 = s1
  s2 = s2
  r1 = r1
  r2 = r2
  Socks <- TwoSocks
  NoSock = NoSock
  Receivers <- TwoReceivers
  NoThread = NoThread
  CloseFirst = TRUE
  Browsers = {x, y}
  Orders = {go, halt}
  None = None
  MaxLinks = 2
  Bearings <- SomeBearings
  Scenes <- SomeScenes
  ScanDepth = 2
  RelayDepth = 1
  Patient = 1
  Full = 4
  MaxStep = 2
  MaxMoved = 11
  Ticks = 1
  ZeroCount = 1
  Backlog = 1
  Grace = 1
  Ports = {p, q}
  Configured = AutoPort
  AutoPort = AutoPort
  NoPort = NoPort
  Garbled = TRUE
  Commands <- BothWays
  Accel = 1
  Decel = 2
  Depth = 2
  Limit = 1
  OdomBound = 1
SPECIFICATION CommandSpec
INVARIANTS
  LastOrderWins
  EitherConvention
  NeverShort
  MeasuredAtRest
  DrivesLastCommand
  NothingLeaks
  NoStrayClose
  ClosedIsQuiet
PROPERTIES
  CommandAnswered
  ObstacleStops
  BlindStops
  SilenceStops
  Heals
  LossNoticed
  CloseReturns
  ImplementsLink
  UnplugNoticed
CHECK_DEADLOCK FALSE
