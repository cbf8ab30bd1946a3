SPECIFICATION FairSpec
CONSTANTS
  Payload <- MCPayload
  NewKeys = "newkeys"
  Blocks <- MCBlocks
  MacEpochs = {1}
  SeqMod = 3
  Disconnect = TRUE
  EarlyInstall = FALSE
  Faults = {"write", "alloc", "keys"}
  MaxFaults = 2
  MaxSends = 5
  MaxJunk = 2
  WireCap = 3
INVARIANTS
  KeysFollowNewKeys
  InSync
  SeqCountsCalls
PROPERTIES
  ImplementsOrderedDelivery
  EventuallyDelivered
