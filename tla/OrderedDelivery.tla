--------------------------- MODULE OrderedDelivery ---------------------------
(***************************************************************************)
(* What one direction of an SSH transport promises its caller, with none   *)
(* of the machinery: payloads are handed over in some order, and a prefix  *)
(* of exactly that sequence comes out at the other end.  Either end may    *)
(* stop at any time, so delivery is promised only by the liveness property *)
(* of the specification that implements this one.                          *)
(***************************************************************************)
EXTENDS Naturals, Sequences

CONSTANT Payload        \* the payloads a caller may hand over

VARIABLES sent,         \* the payloads handed over so far
          delivered     \* the payloads that came out so far

vars == <<sent, delivered>>

Init == sent = <<>> /\ delivered = <<>>

Accept(p) == sent' = Append(sent, p) /\ UNCHANGED delivered

Deliver ==
  /\ Len(delivered) < Len(sent)
  /\ delivered' = Append(delivered, sent[Len(delivered) + 1])
  /\ UNCHANGED sent

Next == (\E p \in Payload : Accept(p)) \/ Deliver

Spec == Init /\ [][Next]_vars
=============================================================================
