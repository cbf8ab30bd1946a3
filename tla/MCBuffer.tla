------------------------------- MODULE MCBuffer -------------------------------
(* Values for TLC: bytes of two bits, lengths of two bytes.                   *)
EXTENDS Buffer

MCValues ==
  {[type |-> "u8", val |-> 3], [type |-> "u32", val |-> 9],
   [type |-> "u64", val |-> 77]}
  \cup {[type |-> "string", val |-> s] : s \in {<<>>, <<2>>, <<0, 1, 3>>}}
  \cup {[type |-> "raw", val |-> s] : s \in {<<>>, <<3, 2>>}}
  \cup {[type |-> "mpint", val |-> s] :
          s \in {<<0, 0>>, <<0, 1>>, <<0, 3, 1>>, <<1, 0>>}}
=============================================================================
