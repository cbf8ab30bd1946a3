------------------------------ MODULE MCSession ------------------------------
(* Values for TLC.  "a" fills one cipher block, so that its packet has no    *)
(* rest to read after the first block; "b" fills two.                        *)
EXTENDS Session

MCPayload == {"a", "b", "newkeys"}
MCPayloadFew == {"b", "newkeys"}
MCBlocks == [p \in Payload |-> IF p = "b" THEN 2 ELSE 1]
=============================================================================
