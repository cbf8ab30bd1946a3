------------------------------ MODULE MCStreams ------------------------------
(* Values for TLC: blocks of four and five bytes with one or two words of     *)
(* length, the low word of SHA-512 overflowing at every eighth byte; a digest *)
(* of two bytes, so that a key of five takes three rounds.                    *)
EXTENDS Streams

MCSha256 == [block |-> 4, words |-> 1, mod |-> 1024]
MCSha512 == [block |-> 5, words |-> 2, mod |-> 64]
MCSecrets == [k : {1, 4}, h : {2, 3}, sid : {0, 2, 5}]

\* No byte to five, with capacities for the text that are one short or enough.
MCTexts ==
  [src : {<<>>, <<255>>, <<0, 129>>, <<1, 2, 3>>, <<250, 0, 7, 64, 33>>},
   room : {4, 5, 8, 9}, cap : {2, 5}]
=============================================================================
