SPECIFICATION Spec
CONSTANTS
  MicrosPerSecond = 2
  DurationMax = 1
  CounterMax = 3
  ExactBelow = 3
  Address <- MCAddress
  Port <- MCPort
  Packets <- MCPackets
  MaxFlows = 1
  MaxPackets = 4
INVARIANTS
  ReadBackwardsSameFlows
CHECK_DEADLOCK FALSE
