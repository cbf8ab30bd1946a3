------------------------------ MODULE Field25519 ------------------------------
(***************************************************************************)
(* src/fe25519.c: numbers modulo p in a few limbs of a machine word, added *)
(* and subtracted without a carry.  The code has Limbs = 5, Bits = 51,     *)
(* Fold = 19, Word = 64 and A24 = 121666; a string of 32 bytes is the      *)
(* number below 2^(N + 1) that it writes, little end first.  Every limb is *)
(* taken modulo the word that holds it, so that a sum that is too big or a *)
(* difference below zero wraps as it does in C.                            *)
(***************************************************************************)
EXTENDS Integers, Sequences, SequencesExt

CONSTANTS Limbs, Bits, Fold, Word, A24

N == Limbs * Bits                \* 255
Radix == 2^Bits
Weight[i \in 0 .. Limbs] == IF i = 0 THEN 1 ELSE Radix * Weight[i - 1]
P == Weight[Limbs] - Fold        \* the prime

\* The last four are the room that a word has for the carry of a product.
ASSUME FieldAssumption ==
  /\ {Limbs, Bits, Fold, Word, A24} \subseteq Nat \ {0}
  /\ 5 * Fold <= Radix
  /\ 2^Word <= Weight[Limbs]
  /\ 16 * Limbs * Fold * (Radix + 2 * Fold + 2) + Radix <= 2^Word
  /\ 16 * Limbs * Radix * Radix * (Fold + 2) <= 2^(2 * Word)
  /\ 4 * Fold * A24 + Radix <= 2^Word
  /\ 4 * Radix * A24 <= 2^(2 * Word)

\* f[1] + ... + f[Limbs]
Total(f) ==
  LET sum[k \in 0 .. Limbs] == IF k = 0 THEN 0 ELSE sum[k - 1] + f[k]
  IN sum[Limbs]

Strings == 0 .. 2^(N + 1) - 1    \* what 32 bytes hold
Elements == [1 .. Limbs -> 0 .. 2^Word - 1]

\* A mutant: p in limbs, as a subtraction of fully carried limbs needs it.
POnce == [i \in 1 .. Limbs |-> Radix - (IF i = 1 THEN Fold ELSE 1)]

\* 2p in limbs: what a subtraction adds so that no limb falls below zero.
P2 == [i \in 1 .. Limbs |-> 2 * Radix - (IF i = 1 THEN 2 * Fold ELSE 2)]

FromBytes(s) == [i \in 1 .. Limbs |-> (s \div Weight[i - 1]) % Radix]

\* The code sets the lowest limb; all its numbers, A24 the greatest, are below
\* Radix there.  In a small instance they take more limbs.
FromU64(v) == FromBytes(v)
Zero == FromU64(0)
One == FromU64(1)

\* One pass of carries from the lowest limb up, over limbs of w bits.
Carried(t, w) ==
  LET done[k \in 0 .. Limbs] ==
        IF k = 0 THEN [limbs |-> <<>>, carry |-> 0]
        ELSE LET v == (t[k] + done[k - 1].carry) % 2^w
             IN [limbs |-> Append(done[k - 1].limbs, v % Radix), carry |-> v \div Radix]
  IN done[Limbs]

\* The carry out of the top limb comes back at the bottom: 2^N = Fold.
Folded(c) == [c.limbs EXCEPT ![1] = (@ + c.carry * Fold) % 2^Word]
CarryPass(t, w) == Folded(Carried(t, w))

Add(a, b) == [i \in 1 .. Limbs |-> (a[i] + b[i]) % 2^Word]
Sub(a, b) == [i \in 1 .. Limbs |-> (a[i] + P2[i] - b[i]) % 2^Word]
Neg(a) == Sub(Zero, a)

\* The products of limbs whose places add up to k.
Column(a, b, k) ==
  Total([i \in 1 .. Limbs |-> IF k - i \in 1 .. Limbs THEN a[i] * b[k - i] ELSE 0])

Mul(a, b) ==
  LET t == [i \in 1 .. Limbs |->
              Column(a, b, i + 1) + Fold * Column(a, b, i + 1 + Limbs)]
  IN CarryPass(CarryPass(t, 2 * Word), Word)

Sq(a) == Mul(a, a)

\* A mutant: RFC 7748's a24, which goes with AA and not with BB.
Mul121665(a) ==
  CarryPass(CarryPass([i \in 1 .. Limbs |-> a[i] * (A24 - 1)], 2 * Word), Word)

Mul121666(a) ==
  CarryPass(CarryPass([i \in 1 .. Limbs |-> a[i] * A24], 2 * Word), Word)

\* Adding Fold carries out of the top limb exactly when the number is not
\* below p, and then leaves the number less p.
Lesser(a, less) == IF less.carry # 0 THEN less.limbs ELSE a
LessP(a) == Lesser(a, Carried([a EXCEPT ![1] = @ + Fold], Word))
Canonical(a) == LessP(CarryPass(CarryPass(a, Word), Word))

Written(c) == Total([i \in 1 .. Limbs |-> c[i] * Weight[i - 1]])
ToBytes(a) == Written(Canonical(a))

Bit(s, i) == (s \div 2^i) % 2

\* The bits i .. 0 of a string in the order the loops take them.
BitsDown(s, i) == [k \in 1 .. i + 1 |-> Bit(s, i + 1 - k)]

Pow(a, e) ==
  LET next[r \in Elements] == [bit \in 0 .. 1 |-> IF bit = 1 THEN Mul(Sq(r), a) ELSE Sq(r)]
      power[k \in 0 .. N + 1] ==
        IF k = 0 THEN One ELSE next[power[k - 1]][Bit(e, N + 1 - k)]
  IN power[N + 1]

Invert(a) == Pow(a, P - 2)
IsZero(a) == ToBytes(a) = 0
Parity(a) == ToBytes(a) % 2
Equal(a, b) == ToBytes(a) = ToBytes(b)
Cswap(pair, swap) == IF swap = 1 THEN <<pair[2], pair[1]>> ELSE pair

\* Clamping, on a string: e[0] &= 248; e[31] &= 127; e[31] |= 64
Clamp(s) == 2^(N - 1) + 8 * ((s % 2^(N - 1)) \div 8)

-------------------------------------------------------------------------------
\* The reference: numbers modulo P.

\* b to the power e: the squares of b, and the product of those that e asks for.
Power(b, e) ==
  LET next(q, bit) == <<(q[1] * q[1]) % P, (q[2] * (IF bit = 1 THEN q[1] ELSE 1)) % P>>
      power[k \in 0 .. N + 1] ==
        IF k = 0 THEN <<b, 1>> ELSE next(power[k - 1], Bit(e, k - 1))
  IN power[N + 1][2]

Over(a, b) == ((a % P) * Power(b % P, P - 2)) % P

\* Limbs that a subtraction may take away without falling below zero, and that
\* every product has.
Tight(a) == \A i \in 1 .. Limbs : a[i] < Radix + (IF i = 1 THEN Fold ELSE 0)

===============================================================================
