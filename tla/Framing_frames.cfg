SPECIFICATION FairSpec
CONSTANTS
  MAX_PAYLOAD_SIZE = 32768
  MAX_PACKET_SIZE = 35000
  FieldMod <- MCFieldMod
  SizeMod <- MCSizeMod
  Lens <- MCLens
  BlockSizes <- MCBlockSizes
  PeerFrames <- MCPeerFrames
  Caps <- MCCaps
INVARIANTS
  TypeOK
  RoundTrip
  
  CopyInBounds
PROPERTIES
  RecvReturns
\* One frame for each behaviour: it ends when the receiver returns.
CHECK_DEADLOCK FALSE
