CONSTANTS
  Full = 4
  MaxStep = 2
  MaxMoved = 11
  Ticks = 1
  ZeroCount = 1
  Backlog = 1
  Grace = 1
SPECIFICATION CalibSpec
INVARIANTS TurnsOnce
CHECK_DEADLOCK FALSE
