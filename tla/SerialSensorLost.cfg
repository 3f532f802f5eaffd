CONSTANTS
  Ports = {p, q}
  Configured = AutoPort
  AutoPort = AutoPort
  NoPort = NoPort
  Garbled = FALSE
SPECIFICATION SensorSpec
PROPERTIES SensorFound
