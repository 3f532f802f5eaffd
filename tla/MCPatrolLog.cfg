SPECIFICATION PlayerSpec
CONSTANTS
  Points = 1
  Patience <- LegTicks
  Wait = 1
  Zeros = 2
  Depth = 2
  Limit = 1
INVARIANTS
  DirectReportsArrival
