SPECIFICATION Spec
CONSTANTS
  Payload <- MCPayloadFew
  NewKeys = "newkeys"
  Blocks <- MCBlocks
  MacEpochs = {1, 2}
  SeqMod = 3
  Disconnect = TRUE
  EarlyInstall = TRUE
  Faults = {"flip", "write"}
  MaxFaults = 2
  MaxSends = 4
  MaxJunk = 1
  WireCap = 2
INVARIANTS
  NoGapUnderMac
\* A reader misled by damaged bytes may never return.
CHECK_DEADLOCK FALSE
