SPECIFICATION Spec
CONSTANTS
  Payload <- MCPayload
  NewKeys = "newkeys"
  Blocks <- MCBlocks
  MacEpochs = {1, 2}
  SeqMod = 3
  Disconnect = TRUE
  EarlyInstall = TRUE
  Faults = {}
  MaxFaults = 0
  MaxSends = 3
  MaxJunk = 0
  WireCap = 3
INVARIANTS
  KeysFollowNewKeys
