SPECIFICATION Spec
CONSTANTS
  MicrosPerSecond = 2
  DurationMax = 1
  CounterMax = 3
  ExactBelow = 3
  Address <- MCAddress
  Port <- MCPort
  Packets <- MCPackets
  MaxFlows = 2
  MaxPackets = 4
INVARIANTS
  TypeOK
  EveryPacketCounted
  FlowsSummariseTheirPackets
  NoPartialFlow
  FirstConversationsKept
  MirroredTrafficMirrorsFlows
  OrderIrrelevantUnlessRefused
  ListingIsReproducible
  ReportAddsUp
CHECK_DEADLOCK FALSE
