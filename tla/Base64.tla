-------------------------------- MODULE Base64 --------------------------------
(***************************************************************************)
(* src/base64.c.  A letter is its place in the alphabet, 0 to 63; Pad is   *)
(* the equals sign, Newline a CR or LF, Other any character else.          *)
(***************************************************************************)
EXTENDS Integers, Sequences, SequencesExt

Pad == 64
Newline == 65
Other == 66
Failed == <<-1>>

\* The four characters of the g-th three bytes, or of what is left of them.
Group(src, g) ==
  LET at(i) == IF i <= Len(src) THEN src[i] ELSE 0
      v == at(3 * g - 2) * 2^16 + at(3 * g - 1) * 2^8 + at(3 * g)
  IN [i \in 1 .. 4 |->
        IF 3 * (g - 1) + i <= Len(src) + 1 THEN (v \div 64^(4 - i)) % 64 ELSE Pad]

\* base64_encode needs room for a NUL after the text.
Encode(src, cap) ==
  LET groups == (Len(src) + 2) \div 3
  IN IF 4 * groups + 1 > cap THEN Failed
     ELSE [j \in 1 .. 4 * groups |-> Group(src, (j - 1) \div 4 + 1)[((j - 1) % 4) + 1]]

\* One character of base64_decode; no more than 14 bits of acc are ever used.
DecodeChar(d, c, cap) ==
  LET acc == (d.acc * 64 + c) % 2^14
      left == d.bits + 6 - 8
  IN CASE d.failed \/ c = Newline -> d
       [] ~d.failed /\ c = Pad -> [d EXCEPT !.pad = @ + 1]
       [] ~d.failed /\ c \notin {Newline, Pad} ->
            IF c = Other \/ d.pad > 0 \/ (left >= 0 /\ Len(d.out) >= cap)
            THEN [d EXCEPT !.failed = TRUE]
            ELSE [d EXCEPT !.acc = acc,
                           !.bits = IF left >= 0 THEN left ELSE @ + 6,
                           !.out = IF left >= 0
                                   THEN Append(@, (acc \div 2^left) % 256) ELSE @]

Decoded(text, cap) ==
  LET d[k \in 0 .. Len(text)] ==
        IF k = 0 THEN [out |-> <<>>, acc |-> 0, bits |-> 0, pad |-> 0, failed |-> FALSE]
        ELSE DecodeChar(d[k - 1], text[k], cap)
  IN d[Len(text)]

\* A mutant: a letter left over is not noticed.
DecodeLoose(text, cap) ==
  LET d == Decoded(text, cap)
  IN IF d.failed \/ d.pad > 2 THEN Failed ELSE d.out

Decode(text, cap) ==
  LET d == Decoded(text, cap)
  IN IF d.failed \/ d.bits >= 6 \/ d.pad > 2 THEN Failed ELSE d.out

===============================================================================
