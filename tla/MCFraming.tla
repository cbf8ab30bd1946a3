------------------------------ MODULE MCFraming ------------------------------
(* Values for TLC: the code's limits, size_t scaled to 30 bits (TLC's        *)
(* integers have 32) and packet_length to 18, lengths around every boundary  *)
(* the code tests and around those where the two words wrap.                 *)
EXTENDS Framing

MCSizeMod == 2 ^ 30
MCFieldMod == 2 ^ 18
MCLens ==
  (0 .. 40) \cup (250 .. 260) \cup (32760 .. 32770) \cup (34980 .. 35000)
    \cup (MCFieldMod - 20 .. MCFieldMod + 20) \cup (MCSizeMod - 10 .. MCSizeMod)
MCBlockSizes == {0, 13, 16, 252, 253, 300, MCSizeMod - 1}
MCCaps == {0, 100, 40000}

MCPeerFrames == [plen : (0 .. 20) \cup (252 .. 260) \cup (34999 .. 35001),
                 pad : (0 .. 20) \cup (253 .. 255)]
MCOddFrames == {f \in MCPeerFrames : f.plen \in 10 .. 14}
=============================================================================
