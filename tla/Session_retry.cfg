SPECIFICATION Spec
CONSTANTS
  Payload <- MCPayloadFew
  NewKeys = "newkeys"
  Blocks <- MCBlocks
  MacEpochs = {1, 2}
  SeqMod = 3
  Disconnect = FALSE
  EarlyInstall = FALSE
  Faults = {"write", "alloc", "keys", "flip"}
  MaxFaults = 2
  MaxSends = 3
  MaxJunk = 1
  WireCap = 2
INVARIANTS
  TypeOK
  AuthenticUnderMac
  NoKeystreamReuse
\* A reader misled by damaged bytes may never return.
CHECK_DEADLOCK FALSE
