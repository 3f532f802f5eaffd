CONSTANTS
  Bearings <- SomeBearings
  Scenes <- SomeScenes
  ScanDepth = 1
  RelayDepth = 1
  Patient = 1
SPECIFICATION AvoidanceSpec
PROPERTIES ForwardsTheLidar
