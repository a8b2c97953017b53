SPECIFICATION Spec
CONSTANTS
  Word <- MCWord
  Numeral <- MCNumeral
  Width <- MCWidth
  Widest = 3
  Devices <- MCDevices
  Commands <- MCCommands
  MIN_SNAPLEN = 1
  MAX_SNAPLEN = 2
  CountMax = 1
  MaxListed = 2
  MaxChanges = 2
INVARIANTS
  StartupTypeOK
  OpensWhatWasAsked
  ListingLeadsBack
  DiagnosisWasTrue
  AdviceFitsTheCause
  RefusalsTouchNothing
PROPERTIES
  StartsASession
CHECK_DEADLOCK FALSE
