SPECIFICATION FairSpec
CONSTANTS
  MicrosPerSecond = 2
  DurationMax = 1
  CounterMax = 2
  Packets <- MCPackets
  Limits <- MCLimits
  Calendar <- MCCalendar
  DriverCounts <- MCDriverCounts
  MaxPackets = 3
  MaxSignals = 2
INVARIANTS
  TypeOK
  SavedIsWhatWasCounted
  ShownInOrder
  AtMostOneLatePacket
  InterruptNeverMisreported
  NeverOverLimit
  SummaryTellsTheRun
PROPERTIES
  KeepsThePromise
  InterruptEndsRun
  FileReadEnds
CHECK_DEADLOCK FALSE
