------------------------------- MODULE MCCurves -------------------------------
\* The instance p = 2^12 - 3 with a24 = 67, the smallest field and curve with
\* everything the code relies on; see Bounds in README.md.
EXTENDS Curves

MCRandomKeys == [A |-> {77, 3000}, B |-> {5212}]

\* Zero, a number not below p, and one with the top bit set; the second is on
\* the twist and the third on the curve.
MCStrangers == {0, 4095, 5000}

\* A mixing of the input in place of the digest.
MCSha512(input) ==
  FoldLeft(LAMBDA h, word : ((h % 2^14) * 40503 + word * 7937 + h \div 2^14) % 2^26,
           123457, input)

\* The neutral element, also with p added, the point of order 2 with the wrong
\* sign, and a string that is no point; the failed generator gives one of order 4.
MCForeignKeys == {1, 4094, 8188, 2}
MCForeignPoints == {1, 4094}

\* What DecodingIsRfc8032 in CurvesProofs asks of the constants of the code.
ASSUME InstanceRoots ==
  /\ (Written(SqrtM1) * Written(SqrtM1)) % P = P - 1
  /\ P % 2 = 1
===============================================================================
