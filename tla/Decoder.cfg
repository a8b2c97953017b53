SPECIFICATION Spec
CONSTANTS
  CapLengths <- MCCapLengths
  LinkHeaders <- MCLinkHeaders
  Ipv4Headers <- MCIpv4Headers
  Ipv6Headers <- MCIpv6Headers
  ArpPackets <- MCArpPackets
  ExtensionHeaders <- MCExtensionHeaders
  TransportHeaders <- MCTransportHeaders
INVARIANTS
  TypeOK
  AnswersAreShapes
  CutFramesNeverMislead
  NothingReadPastTheEnd
  LaterFragmentsCarryNoTransport
  LinesNeverMislead
CHECK_DEADLOCK FALSE
