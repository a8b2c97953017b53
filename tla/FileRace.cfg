SPECIFICATION SessionSpec
CONSTANTS
  MicrosPerSecond = 2
  DurationMax = 1
  CounterMax = 3
  Address <- MCAddress
  Port <- MCPort
  MaxFlows = 1
  Packets <- MCPackets
  Limits <- MCLimits
  MaxPackets = 2
  MaxSignals = 1
PROPERTIES
  OthersFilesUntouched
CHECK_DEADLOCK FALSE
