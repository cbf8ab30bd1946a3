SPECIFICATION DemoSpec
CONSTANTS
  IdentMax = 6
  MaxAttempts = 3
  Openings <- MCOpenings
  Targets <- MCTargets
  UserSize = 3
  HostSize = 3
  MaxPort = 65535
  IntMod = 1048576
  LongMod = 16777216
  Body <- MCBody
INVARIANTS
  TypeOK
  NoJunkAccepted
  Agreement
  PacketsLeftUnread
  TargetHonoured
  EchoMeansDelivered
  EchoArrives
PROPERTIES
  RfcPeersAccepted
  ProgramsEnd
