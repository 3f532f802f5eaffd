CONSTANTS
  Points = 2
  Patience <- LegTicks
  Wait = 1
  Zeros = 2
  Depth = 2
  Limit = 1
  Places = {1, 2, 3}
  Near <- SomeNear
  MaxPoints = 3
  Readings <- SomeReadings
  Noise <- SomeNoise
  Chunks <- SomeChunks
  MaxStream = 30
  MaxNoise = 6
  MaxSession = 2
  Peers = {p, q, r}
  NoPeer = NoPeer
  Clients = {b, d}
  Returning = {b}
  Feeders = {d}
  StaleAfter = 0
  Nobody = Nobody
  Raw <- SomeRaw
  MaxFlips = 2
  Turn = 12
  OutCount = 4
  MinPoints = 2
  MaxBeams = 6
SPECIFICATION PatrolSpec
INVARIANTS
  StillWhenIdle
  ReturnEndsAtOrigin
  RetracesRoute
  OnlineMeansLinked
  GreedyParse
  ReadingsSurvive
  OnePair
  ReadingArrives
  CorruptionRefused
  NearestBeam
PROPERTIES
  PatrolEnds
  LeftAloneStops
  StaleShown
  GhostsForgotten
CHECK_DEADLOCK FALSE
