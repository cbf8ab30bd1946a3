SPECIFICATION FairSpec
CONSTANTS
  MAX_PAYLOAD_SIZE = 32768
  MAX_PACKET_SIZE = 35000
  FieldMod <- MCFieldMod
  SizeMod <- MCSizeMod
  Lens <- MCLens
  BlockSizes <- MCBlockSizes
  PeerFrames <- MCOddFrames
  Caps <- MCCaps
PROPERTIES
  MalformedRejected
\* One frame for each behaviour: it ends when the receiver returns.
CHECK_DEADLOCK FALSE
