SPECIFICATION Spec
CONSTANTS
  MicrosPerSecond = 2
  DurationMax = 1
  CounterMax = 2
  Packets <- MCPackets
  Limits <- MCLimits
  Calendar <- MCCalendar
  DriverCounts <- MCDriverCounts
  MaxPackets = 3
  MaxSignals = 2
INVARIANTS
  LimitIsTheMost
CHECK_DEADLOCK FALSE
