---------------------------- MODULE StreamsProofs ----------------------------
(***************************************************************************)
(* The primitives of module Streams compute what their standards say of    *)
(* the whole input, for every size of block, digest, key and message and   *)
(* however the callers cut the data.                                       *)
(***************************************************************************)
EXTENDS Streams, SequenceTheorems, WellFoundedInduction, TLAPS

(* Arithmetic.                                                              *)

LEMMA MinOfTwo ==
  ASSUME NEW x \in Int, NEW y \in Int
  PROVE  Min({x, y}) = IF x <= y THEN x ELSE y
<1>1. CASE x <= y
  <2>1. x \in {x, y} /\ \A z \in {x, y} : x <= z
    BY <1>1
  <2>2. \A z \in {x, y} : (\A u \in {x, y} : z <= u) => z = x
    BY <1>1
  <2>3. Min({x, y}) = x
    BY <2>1, <2>2 DEF Min
  <2>. QED
    BY <1>1, <2>3
<1>2. CASE ~(x <= y)
  <2>1. y \in {x, y} /\ \A z \in {x, y} : y <= z
    BY <1>2
  <2>2. \A z \in {x, y} : (\A u \in {x, y} : z <= u) => z = y
    BY <1>2
  <2>3. Min({x, y}) = y
    BY <2>1, <2>2 DEF Min
  <2>. QED
    BY <1>2, <2>3
<1>. QED
  BY <1>1, <1>2

\* Division with remainder, and that there is only one way to do it.
LEMMA Divide ==
  ASSUME NEW a \in Nat, NEW b \in Nat \ {0}
  PROVE  /\ a = (a \div b) * b + (a % b)
         /\ a \div b \in Nat /\ a % b \in 0 .. b - 1
OBVIOUS

LEMMA Quotient ==
  ASSUME NEW b \in Nat \ {0}, NEW k \in Nat, NEW r \in 0 .. b - 1
  PROVE  (k * b + r) \div b = k /\ (k * b + r) % b = r
OBVIOUS

LEMMA InPiece ==
  ASSUME NEW m \in Nat, NEW b \in Nat, NEW n \in Nat, m + b <= n, NEW j \in 1 .. b
  PROVE  m + j \in 1 .. n
OBVIOUS

LEMMA Within ==
  ASSUME NEW b \in Nat \ {0}, NEW q \in Nat, NEW i \in 1 .. q, NEW n \in Nat, q * b <= n
  PROVE  /\ (i - 1) * b \in Nat /\ i * b = (i - 1) * b + b
         /\ (i - 1) * b + b <= n
<1>1. (i - 1) * b \in Nat /\ i * b = (i - 1) * b + b
  OBVIOUS
<1>2. (q - i) * b \in Nat
  OBVIOUS
<1>3. q * b = i * b + (q - i) * b
  OBVIOUS
<1>4. i * b \in Int /\ q * b \in Int
  OBVIOUS
<1>. QED
  BY <1>1, <1>2, <1>3, <1>4

-----------------------------------------------------------------------------
(* Cutting into blocks.                                                     *)

LEMMA Piece ==
  ASSUME NEW S, NEW s \in Seq(S), NEW m \in Nat, NEW n \in Nat, m + n <= Len(s)
  PROVE  /\ SubSeq(s, m + 1, m + n) \in Seq(S) /\ Len(SubSeq(s, m + 1, m + n)) = n
         /\ \A j \in 1 .. n : SubSeq(s, m + 1, m + n)[j] = s[m + j]
<1>1. \A i \in m + 1 .. m + n : s[i] \in S
  OBVIOUS
<1>2. /\ SubSeq(s, m + 1, m + n) \in Seq(S)
      /\ Len(SubSeq(s, m + 1, m + n)) = IF m + 1 <= m + n THEN m + n - (m + 1) + 1 ELSE 0
      /\ \A j \in 1 .. m + n - (m + 1) + 1 : SubSeq(s, m + 1, m + n)[j] = s[m + 1 + j - 1]
  BY <1>1, SubSeqProperties
<1>. QED
  BY <1>2

LEMMA BlocksAre ==
  ASSUME NEW b \in Nat \ {0}, NEW S, NEW s \in Seq(S)
  PROVE  /\ Blocks(b, s) \in Seq(Seq(S)) /\ Len(Blocks(b, s)) = Len(s) \div b
         /\ Len(s) \div b \in Nat
         /\ \A i \in 1 .. Len(s) \div b :
              /\ Blocks(b, s)[i] \in Seq(S) /\ Len(Blocks(b, s)[i]) = b
              /\ \A j \in 1 .. b : Blocks(b, s)[i][j] = s[(i - 1) * b + j]
              /\ (i - 1) * b \in Nat /\ (i - 1) * b + b <= Len(s)
<1>. DEFINE q == Len(s) \div b
<1>1. q \in Nat /\ Len(s) \in Nat /\ q * b <= Len(s)
  <2>1. Len(s) \in Nat
    OBVIOUS
  <2>2. /\ Len(s) = q * b + (Len(s) % b) /\ q \in Nat /\ Len(s) % b \in 0 .. b - 1
    BY <2>1, Divide
  <2>3. q * b \in Int
    BY <2>2
  <2>. QED
    BY <2>1, <2>2, <2>3
<1>2. Blocks(b, s) = [i \in 1 .. q |-> SubSeq(s, (i - 1) * b + 1, i * b)]
  BY DEF Blocks
<1>. HIDE DEF q
<1>3. ASSUME NEW i \in 1 .. q
      PROVE  /\ Blocks(b, s)[i] \in Seq(S) /\ Len(Blocks(b, s)[i]) = b
             /\ \A j \in 1 .. b : Blocks(b, s)[i][j] = s[(i - 1) * b + j]
             /\ (i - 1) * b \in Nat /\ (i - 1) * b + b <= Len(s)
  <2>. DEFINE m == (i - 1) * b
  <2>1. m \in Nat /\ i * b = m + b /\ m + b <= Len(s)
    BY <1>1, Within
  <2>2. Blocks(b, s)[i] = SubSeq(s, m + 1, m + b)
    BY <1>2, <2>1
  <2>. HIDE DEF m
  <2>3. /\ SubSeq(s, m + 1, m + b) \in Seq(S) /\ Len(SubSeq(s, m + 1, m + b)) = b
        /\ \A j \in 1 .. b : SubSeq(s, m + 1, m + b)[j] = s[m + j]
    BY <2>1, Piece
  <2>. QED
    BY <2>1, <2>2, <2>3 DEF m
<1>4. Blocks(b, s) \in Seq(Seq(S)) /\ Len(Blocks(b, s)) = q
  <2>1. Blocks(b, s) \in [1 .. q -> Seq(S)]
    BY <1>2, <1>3, Zenon
  <2>. QED
    BY <2>1, <1>1
<1>. QED
  BY <1>1, <1>3, <1>4 DEF q

\* A sequence of blocks is the cut of s if the bytes are in the same places.
LEMMA BlocksBe ==
  ASSUME NEW b \in Nat \ {0}, NEW S, NEW s \in Seq(S), NEW x \in Seq(Seq(S)),
         Len(x) = Len(s) \div b,
         \A i \in 1 .. Len(s) \div b :
           Len(x[i]) = b /\ \A j \in 1 .. b : x[i][j] = s[(i - 1) * b + j]
  PROVE  x = Blocks(b, s)
<1>. DEFINE y == Blocks(b, s)
            q == Len(s) \div b
<1>1. /\ y \in Seq(Seq(S)) /\ Len(y) = q /\ q \in Nat
      /\ \A i \in 1 .. q : /\ y[i] \in Seq(S) /\ Len(y[i]) = b
                           /\ \A j \in 1 .. b : y[i][j] = s[(i - 1) * b + j]
  BY BlocksAre
<1>2. /\ Len(x) = q
      /\ \A i \in 1 .. q : /\ Len(x[i]) = b
                           /\ \A j \in 1 .. b : x[i][j] = s[(i - 1) * b + j]
  OBVIOUS
<1>. HIDE DEF y, q
<1>3. ASSUME NEW i \in 1 .. q
      PROVE  x[i] = y[i]
  <2>1. /\ x[i] \in Seq(S) /\ y[i] \in Seq(S) /\ Len(x[i]) = Len(y[i])
    BY <1>1, <1>2
  <2>2. ASSUME NEW j \in 1 .. Len(x[i])
        PROVE  x[i][j] = y[i][j]
    <3>1. j \in 1 .. b
      BY <1>2
    <3>. QED
      BY <3>1, <1>1, <1>2, Zenon
  <2>. QED
    BY <2>1, <2>2, SeqEqual
<1>4. x = y
  BY <1>1, <1>2, <1>3, SeqEqual
<1>. QED
  BY <1>4 DEF y

LEMMA Join ==
  ASSUME NEW S, NEW s \in Seq(S), NEW t \in Seq(S)
  PROVE  /\ s \o t \in Seq(S) /\ Len(s \o t) = Len(s) + Len(t)
         /\ \A i \in 1 .. Len(s) : (s \o t)[i] = s[i]
         /\ \A i \in 1 .. Len(t) : (s \o t)[Len(s) + i] = t[i]
<1>. QED
  BY ConcatProperties

\* Whole blocks in front are cut on their own.
LEMMA BlocksConcatAt ==
  ASSUME NEW b \in Nat \ {0}, NEW S, NEW h \in Seq(S), NEW t \in Seq(S),
         NEW k \in Nat, Len(h) = k * b
  PROVE  /\ Blocks(b, h \o t) = Blocks(b, h) \o Blocks(b, t)
         /\ Len(h \o t) % b = Len(t) % b
<1>. DEFINE q == Len(t) \div b
            x == Blocks(b, h)
            y == Blocks(b, t)
<1>1. /\ Len(h \o t) \div b = k + q /\ Len(h \o t) % b = Len(t) % b
      /\ Len(h) \div b = k
  <2>1. Len(t) \in Nat /\ Len(h \o t) = Len(h) + Len(t)
    OBVIOUS
  <2>2. Len(t) = q * b + (Len(t) % b) /\ q \in Nat /\ Len(t) % b \in 0 .. b - 1
    BY <2>1, Divide
  <2>3. k * b + q * b = (k + q) * b /\ k * b + 0 = k * b
    BY <2>2
  <2>4. Len(h \o t) = (k + q) * b + (Len(t) % b)
    BY <2>1, <2>2, <2>3
  <2>5. k + q \in Nat /\ 0 \in 0 .. b - 1
    BY <2>2
  <2>6. ((k + q) * b + (Len(t) % b)) \div b = k + q /\ ((k + q) * b + (Len(t) % b)) % b = Len(t) % b
    BY <2>2, <2>5, Quotient
  <2>7. (k * b + 0) \div b = k
    BY <2>5, Quotient
  <2>. QED
    BY <2>3, <2>4, <2>6, <2>7
<1>2. /\ x \in Seq(Seq(S)) /\ Len(x) = k
      /\ \A i \in 1 .. k : /\ x[i] \in Seq(S) /\ Len(x[i]) = b
                           /\ \A j \in 1 .. b : x[i][j] = h[(i - 1) * b + j]
                           /\ (i - 1) * b \in Nat /\ (i - 1) * b + b <= Len(h)
  BY <1>1, BlocksAre
<1>3. /\ y \in Seq(Seq(S)) /\ Len(y) = q /\ q \in Nat
      /\ \A i \in 1 .. q : /\ y[i] \in Seq(S) /\ Len(y[i]) = b
                           /\ \A j \in 1 .. b : y[i][j] = t[(i - 1) * b + j]
                           /\ (i - 1) * b \in Nat /\ (i - 1) * b + b <= Len(t)
  BY BlocksAre
<1>. HIDE DEF x, y, q
<1>4. /\ x \o y \in Seq(Seq(S)) /\ Len(x \o y) = k + q
      /\ \A i \in 1 .. k : (x \o y)[i] = x[i]
      /\ \A i \in 1 .. q : (x \o y)[k + i] = y[i]
  <2>. DEFINE SS == Seq(S)
  <2>1. x \in Seq(SS) /\ y \in Seq(SS) /\ Len(x) = k /\ Len(y) = q
    BY <1>2, <1>3, Zenon
  <2>. HIDE DEF SS
  <2>2. /\ x \o y \in Seq(SS)
        /\ Len(x \o y) = Len(x) + Len(y)
    BY <2>1, ConcatProperties, Zenon
  <2>3. \A i \in 1 .. Len(x) : (x \o y)[i] = x[i]
    BY <2>1
  <2>4. \A i \in 1 .. Len(y) : (x \o y)[Len(x) + i] = y[i]
    BY <2>1
  <2>. QED
    BY <2>1, <2>2, <2>3, <2>4 DEF SS
<1>5. /\ h \o t \in Seq(S)
      /\ \A i \in 1 .. Len(h) : (h \o t)[i] = h[i]
      /\ \A i \in 1 .. Len(t) : (h \o t)[Len(h) + i] = t[i]
  BY Join
<1>6. ASSUME NEW i \in 1 .. k + q
      PROVE  /\ Len((x \o y)[i]) = b
             /\ \A j \in 1 .. b : (x \o y)[i][j] = (h \o t)[(i - 1) * b + j]
  <2>1. CASE i <= k
    <3>1. i \in 1 .. k
      BY <2>1
    <3>2. (x \o y)[i] = x[i] /\ Len(x[i]) = b
      BY <3>1, <1>2, <1>4
    <3>3. ASSUME NEW j \in 1 .. b
          PROVE  x[i][j] = (h \o t)[(i - 1) * b + j]
      <4>1. (i - 1) * b + j \in 1 .. Len(h)
        <5>1. (i - 1) * b \in Nat /\ (i - 1) * b + b <= Len(h) /\ b \in Nat /\ Len(h) \in Nat
          BY <3>1, <1>2
        <5>. QED
          BY <5>1, InPiece, Zenon
      <4>2. x[i][j] = h[(i - 1) * b + j]
        BY <3>1, <1>2
      <4>. QED
        BY <4>1, <4>2, <1>5, Zenon
    <3>. QED
      BY <3>2, <3>3
  <2>2. CASE i > k
    <3>. DEFINE u == i - k
    <3>1. u \in 1 .. q /\ i = k + u
      BY <2>2, <1>3
    <3>2. (i - 1) * b = Len(h) + (u - 1) * b
      BY <3>1
    <3>. HIDE DEF u
    <3>3. (x \o y)[i] = y[u] /\ Len(y[u]) = b
      BY <3>1, <1>3, <1>4
    <3>4. ASSUME NEW j \in 1 .. b
          PROVE  y[u][j] = (h \o t)[(i - 1) * b + j]
      <4>1. (u - 1) * b + j \in 1 .. Len(t)
        <5>1. (u - 1) * b \in Nat /\ (u - 1) * b + b <= Len(t) /\ b \in Nat /\ Len(t) \in Nat
          <6>1. (u - 1) * b \in Nat /\ (u - 1) * b + b <= Len(t)
            BY <3>1, <1>3, Zenon
          <6>. QED
            BY <6>1
        <5>. QED
          BY <5>1, InPiece, Zenon
      <4>2. (i - 1) * b + j = Len(h) + ((u - 1) * b + j)
        BY <3>1, <3>2, <1>3
      <4>3. y[u][j] = t[(u - 1) * b + j]
        BY <3>1, <1>3
      <4>. QED
        BY <4>1, <4>2, <4>3, <1>5, Zenon
    <3>. QED
      BY <3>3, <3>4
  <2>3. i <= k \/ i > k
    BY <1>3
  <2>. QED
    BY <2>1, <2>2, <2>3, Zenon
<1>7. x \o y = Blocks(b, h \o t)
  BY <1>1, <1>4, <1>5, <1>6, BlocksBe
<1>. QED
  BY <1>1, <1>7 DEF x, y

Whole(b, s) == \E k \in Nat : Len(s) = k * b

LEMMA BlocksConcat ==
  ASSUME NEW b \in Nat \ {0}, NEW S, NEW h \in Seq(S), NEW t \in Seq(S), Whole(b, h)
  PROVE  /\ Blocks(b, h \o t) = Blocks(b, h) \o Blocks(b, t)
         /\ Len(h \o t) % b = Len(t) % b
BY BlocksConcatAt DEF Whole

LEMMA BlocksShort ==
  ASSUME NEW b \in Nat \ {0}, NEW S, NEW s \in Seq(S), Len(s) < b
  PROVE  Blocks(b, s) = <<>> /\ Len(s) % b = Len(s)
<1>1. Len(s) = 0 * b + Len(s) /\ Len(s) \in 0 .. b - 1
  OBVIOUS
<1>2. Len(s) \div b = 0 /\ Len(s) % b = Len(s)
  BY <1>1, Quotient
<1>3. Blocks(b, s) \in Seq(Seq(S)) /\ Len(Blocks(b, s)) = 0
  BY <1>2, BlocksAre
<1>. QED
  BY <1>2, <1>3

LEMMA BlocksOne ==
  ASSUME NEW b \in Nat \ {0}, NEW S, NEW s \in Seq(S), Len(s) = b
  PROVE  Blocks(b, s) = <<s>> /\ Len(s) % b = 0
<1>1. Len(s) = 1 * b + 0 /\ 0 \in 0 .. b - 1
  OBVIOUS
<1>2. Len(s) \div b = 1 /\ Len(s) % b = 0
  BY <1>1, Quotient
<1>3. <<s>> \in Seq(Seq(S)) /\ Len(<<s>>) = 1
  OBVIOUS
<1>4. \A i \in 1 .. 1 : Len(<<s>>[i]) = b /\ \A j \in 1 .. b : <<s>>[i][j] = s[(i - 1) * b + j]
  OBVIOUS
<1>. QED
  <2>1. Len(<<s>>) = Len(s) \div b
    BY <1>2, <1>3
  <2>2. \A i \in 1 .. Len(s) \div b :
          Len(<<s>>[i]) = b /\ \A j \in 1 .. b : <<s>>[i][j] = s[(i - 1) * b + j]
    BY <1>2, <1>4
  <2>3. <<s>> = Blocks(b, s)
    BY <1>3, <2>1, <2>2, BlocksBe, Zenon
  <2>. QED
    BY <1>2, <2>3

LEMMA Cut ==
  ASSUME NEW S, NEW s \in Seq(S), NEW n \in 0 .. Len(s)
  PROVE  /\ SubSeq(s, 1, n) \in Seq(S) /\ Len(SubSeq(s, 1, n)) = n
         /\ SubSeq(s, n + 1, Len(s)) \in Seq(S) /\ Len(SubSeq(s, n + 1, Len(s))) = Len(s) - n
         /\ s = SubSeq(s, 1, n) \o SubSeq(s, n + 1, Len(s))
<1>. DEFINE h == SubSeq(s, 1, n)
            t == SubSeq(s, n + 1, Len(s))
<1>1. /\ h \in Seq(S) /\ Len(h) = n /\ \A j \in 1 .. n : h[j] = s[j]
  <2>1. /\ SubSeq(s, 0 + 1, 0 + n) \in Seq(S) /\ Len(SubSeq(s, 0 + 1, 0 + n)) = n
        /\ \A j \in 1 .. n : SubSeq(s, 0 + 1, 0 + n)[j] = s[0 + j]
    BY Piece
  <2>. QED
    BY <2>1
<1>2. /\ t \in Seq(S) /\ Len(t) = Len(s) - n /\ \A j \in 1 .. Len(s) - n : t[j] = s[n + j]
  <2>. DEFINE w == Len(s) - n
  <2>1. w \in Nat /\ n + w = Len(s) /\ n \in Nat /\ n + w <= Len(s)
    OBVIOUS
  <2>. HIDE DEF w
  <2>2. /\ SubSeq(s, n + 1, n + w) \in Seq(S)
        /\ Len(SubSeq(s, n + 1, n + w)) = w
        /\ \A j \in 1 .. w : SubSeq(s, n + 1, n + w)[j] = s[n + j]
    BY <2>1, Piece, ZenonT(30)
  <2>. QED
    BY <2>1, <2>2 DEF w
<1>. HIDE DEF h, t
<1>3. s = h \o t
  <2>1. h \o t \in Seq(S) /\ Len(h \o t) = Len(s)
    BY <1>1, <1>2
  <2>2. ASSUME NEW i \in 1 .. Len(s)
        PROVE  s[i] = (h \o t)[i]
    <3>1. CASE i <= n
      BY <3>1, <1>1, <1>2
    <3>2. CASE i > n
      <4>1. i - n \in 1 .. Len(s) - n /\ n + (i - n) = i
        BY <3>2
      <4>2. t[i - n] = s[i]
        BY <4>1, <1>2
      <4>. QED
        BY <3>2, <4>1, <4>2, <1>1, <1>2
    <3>3. i <= n \/ i > n
      OBVIOUS
    <3>. QED
      BY <3>1, <3>2, <3>3, Zenon
  <2>. QED
    BY <2>1, <2>2, SeqEqual
<1>. QED
  BY <1>1, <1>2, <1>3 DEF h, t

-----------------------------------------------------------------------------
(* The bytes that wait for their block to fill.                             *)

Rest(b, s) == SubSeq(s, Len(s) - (Len(s) % b) + 1, Len(s))

LEMMA RestIs ==
  ASSUME NEW b \in Nat \ {0}, NEW S, NEW s \in Seq(S)
  PROVE  /\ Rest(b, s) \in Seq(S) /\ Len(Rest(b, s)) = Len(s) % b
         /\ Len(s) % b \in 0 .. b - 1
         /\ \E f \in Seq(S) : Whole(b, f) /\ s = f \o Rest(b, s)
<1>. DEFINE r == Len(s) % b
            k == Len(s) \div b
            n == Len(s) - r
<1>1. /\ Len(s) = k * b + r /\ k \in Nat /\ r \in 0 .. b - 1 /\ Len(s) \in Nat
  <2>1. Len(s) \in Nat
    OBVIOUS
  <2>. QED
    BY <2>1, Divide
<1>2. k * b \in Nat
  BY <1>1
<1>. HIDE DEF r, k
<1>3. n \in 0 .. Len(s) /\ n = k * b /\ Len(s) - n = r
  BY <1>1, <1>2
<1>4. Rest(b, s) = SubSeq(s, n + 1, Len(s))
  BY DEF Rest, r
<1>. HIDE DEF n
<1>5. /\ SubSeq(s, 1, n) \in Seq(S) /\ Len(SubSeq(s, 1, n)) = n
      /\ SubSeq(s, n + 1, Len(s)) \in Seq(S) /\ Len(SubSeq(s, n + 1, Len(s))) = Len(s) - n
      /\ s = SubSeq(s, 1, n) \o SubSeq(s, n + 1, Len(s))
  BY <1>3, Cut, ZenonT(30)
<1>6. /\ Rest(b, s) \in Seq(S) /\ Len(Rest(b, s)) = r
  BY <1>3, <1>4, <1>5
<1>7. Len(SubSeq(s, 1, n)) = k * b /\ s = SubSeq(s, 1, n) \o Rest(b, s)
  BY <1>3, <1>4, <1>5, Zenon
<1>8. \E f \in Seq(S) : Whole(b, f) /\ s = f \o Rest(b, s)
  BY <1>1, <1>5, <1>7, Zenon DEF Whole
<1>. QED
  BY <1>1, <1>6, <1>8 DEF r

LEMMA RestBe ==
  ASSUME NEW b \in Nat \ {0}, NEW S, NEW f \in Seq(S), NEW s \in Seq(S),
         Whole(b, f), Len(s) < b
  PROVE  /\ Rest(b, f \o s) = s /\ Blocks(b, f \o s) = Blocks(b, f)
<1>1. Blocks(b, s) = <<>> /\ Len(s) % b = Len(s)
  BY BlocksShort
<1>2. Blocks(b, f \o s) = Blocks(b, f) \o Blocks(b, s) /\ Len(f \o s) % b = Len(s)
  BY <1>1, BlocksConcat
<1>3. Blocks(b, f) \in Seq(Seq(S))
  BY BlocksAre
<1>4. Blocks(b, f \o s) = Blocks(b, f)
  BY <1>1, <1>2, <1>3
<1>5. Rest(b, f \o s) = s
  <2>1. Len(f \o s) = Len(f) + Len(s) /\ Len(f) \in Nat /\ Len(s) \in Nat /\ f \o s \in Seq(S)
    OBVIOUS
  <2>2. Rest(b, f \o s) = SubSeq(f \o s, Len(f) + 1, Len(f) + Len(s))
    <3>1. Len(f \o s) % b = Len(s)
      BY <1>2, Zenon
    <3>2. Len(f \o s) - (Len(f \o s) % b) + 1 = Len(f) + 1
      BY <2>1, <3>1
    <3>. QED
      BY <2>1, <3>2 DEF Rest
  <2>3. /\ SubSeq(f \o s, Len(f) + 1, Len(f) + Len(s)) \in Seq(S)
        /\ Len(SubSeq(f \o s, Len(f) + 1, Len(f) + Len(s))) = Len(s)
        /\ \A j \in 1 .. Len(s) : SubSeq(f \o s, Len(f) + 1, Len(f) + Len(s))[j] = (f \o s)[Len(f) + j]
    BY <2>1, Piece
  <2>4. \A j \in 1 .. Len(s) : (f \o s)[Len(f) + j] = s[j]
    BY Join
  <2>. QED
    BY <2>2, <2>3, <2>4, SeqEqual
<1>. QED
  BY <1>4, <1>5

LEMMA WholeConcat ==
  ASSUME NEW b \in Nat \ {0}, NEW S, NEW f \in Seq(S), NEW g \in Seq(S),
         Whole(b, f), Whole(b, g)
  PROVE  f \o g \in Seq(S) /\ Whole(b, f \o g)
<1>1. PICK k \in Nat : Len(f) = k * b
  BY DEF Whole
<1>2. PICK u \in Nat : Len(g) = u * b
  BY DEF Whole
<1>3. k * b + u * b = (k + u) * b /\ k + u \in Nat
  OBVIOUS
<1>4. f \o g \in Seq(S) /\ Len(f \o g) = Len(f) + Len(g)
  BY Join, Zenon
<1>5. Len(f \o g) = (k + u) * b
  BY <1>1, <1>2, <1>3, <1>4
<1>. QED
  BY <1>3, <1>4, <1>5, Zenon DEF Whole

LEMMA RestConcat ==
  ASSUME NEW b \in Nat \ {0}, NEW S, NEW f \in Seq(S), NEW s \in Seq(S), Whole(b, f)
  PROVE  Rest(b, f \o s) = Rest(b, s)
<1>1. PICK g \in Seq(S) : Whole(b, g) /\ s = g \o Rest(b, s)
  BY RestIs, Zenon
<1>2. Rest(b, s) \in Seq(S) /\ Len(Rest(b, s)) < b
  <2>1. Rest(b, s) \in Seq(S) /\ Len(Rest(b, s)) = Len(s) % b /\ Len(s) % b \in 0 .. b - 1
    BY RestIs
  <2>. QED
    BY <2>1
<1>. DEFINE r == Rest(b, s)
            fg == f \o g
<1>3. r \in Seq(S) /\ Len(r) < b /\ s = g \o r
  BY <1>1, <1>2
<1>. HIDE DEF r
<1>4. f \o s = fg \o r
  BY <1>1, <1>3, SMTT(30)
<1>5. fg \in Seq(S) /\ Whole(b, fg)
  BY <1>1, WholeConcat, Zenon
<1>. HIDE DEF fg
<1>6. Rest(b, fg \o r) = r
  BY <1>3, <1>5, RestBe
<1>. QED
  BY <1>4, <1>6 DEF r

-----------------------------------------------------------------------------
(* The count of bits.                                                       *)

IsHash(a) ==
  /\ a \in [block : Nat, words : {1, 2}, mod : Nat \ {0}]
  /\ a.block > a.words

\* hi and lo hold the number of bits of n bytes, as far as the words reach.
Counts(a, hi, lo, n) ==
  /\ lo = (8 * n) % a.mod
  /\ hi = IF a.words = 2 THEN (8 * n) \div a.mod ELSE 0

\* Adding with a carry.
LEMMA Carry ==
  ASSUME NEW m \in Nat \ {0}, NEW h \in Nat, NEW q \in Nat,
         NEW x \in 0 .. m - 1, NEW y \in 0 .. m - 1
  PROVE  LET z == (x + y) % m
             carry == IF z < y THEN 1 ELSE 0
         IN /\ ((h * m + x) + (q * m + y)) % m = z
            /\ ((h * m + x) + (q * m + y)) \div m = h + q + carry
<1>1. (h * m + x) + (q * m + y) = (h + q) * m + (x + y)
  OBVIOUS
<1>2. CASE x + y < m
  <2>1. x + y \in 0 .. m - 1 /\ h + q \in Nat
    BY <1>2
  <2>2. ((h + q) * m + (x + y)) \div m = h + q /\ ((h + q) * m + (x + y)) % m = x + y
    BY <2>1, Quotient
  <2>3. (x + y) % m = x + y
    BY <1>2
  <2>4. ~(x + y < y)
    OBVIOUS
  <2>. QED
    BY <1>1, <2>2, <2>3, <2>4
<1>3. CASE ~(x + y < m)
  <2>. DEFINE d == x + y - m
  <2>1. d \in 0 .. m - 1 /\ h + q + 1 \in Nat /\ d < y /\ x + y = m + d
    BY <1>3
  <2>2. (h + q) * m + (m + d) = (h + q + 1) * m + d
    OBVIOUS
  <2>. HIDE DEF d
  <2>3. ((h + q + 1) * m + d) \div m = h + q + 1 /\ ((h + q + 1) * m + d) % m = d
    BY <2>1, Quotient
  <2>4. (m + d) % m = d
    <3>1. m + d = 1 * m + d /\ 1 \in Nat
      BY <2>1
    <3>2. (1 * m + d) % m = d
      BY <2>1, Quotient
    <3>. QED
      BY <3>1, <3>2
  <2>5. (x + y) % m = d
    BY <2>1, <2>4
  <2>6. (h * m + x) + (q * m + y) = (h + q + 1) * m + d
    BY <1>1, <2>1, <2>2
  <2>. QED
    BY <2>1, <2>3, <2>5, <2>6
<1>. QED
  BY <1>2, <1>3

LEMMA CountAdds ==
  ASSUME NEW a, IsHash(a), NEW c, NEW n \in Nat, NEW k \in Nat, Counts(a, c.hi, c.lo, n)
  PROVE  Counts(a, CountBits(a, c, k).hi, CountBits(a, c, k).lo, n + k)
<1>. DEFINE m == a.mod
            h == (8 * n) \div m
            x == (8 * n) % m
            q == (8 * k) \div m
            y == (8 * k) % m
            z == (x + y) % m
            carry == IF z < y THEN 1 ELSE 0
<1>1. m \in Nat \ {0} /\ a.words \in {1, 2}
  BY DEF IsHash
<1>2. /\ 8 * n = h * m + x /\ h \in Nat /\ x \in 0 .. m - 1
      /\ 8 * k = q * m + y /\ q \in Nat /\ y \in 0 .. m - 1
  <2>1. 8 * n \in Nat /\ 8 * k \in Nat
    OBVIOUS
  <2>. QED
    BY <1>1, <2>1, Divide
<1>3. c.lo = x /\ c.hi = IF a.words = 2 THEN h ELSE 0
  BY DEF Counts
<1>4. /\ CountBits(a, c, k).lo = (c.lo + y) % m
      /\ CountBits(a, c, k).hi =
           IF a.words = 2 THEN c.hi + q + (IF (c.lo + y) % m < y THEN 1 ELSE 0) ELSE c.hi
  BY DEF CountBits
<1>5. 8 * (n + k) = 8 * n + 8 * k
  OBVIOUS
<1>. HIDE DEF m, h, x, q, y
<1>6. (8 * (n + k)) % m = z /\ (8 * (n + k)) \div m = h + q + carry
  <2>1. /\ ((h * m + x) + (q * m + y)) % m = z
        /\ ((h * m + x) + (q * m + y)) \div m = h + q + carry
    BY <1>1, <1>2, Carry, SMTT(30)
  <2>. QED
    BY <1>2, <1>5, <2>1
<1>7. CountBits(a, c, k).lo = z /\ CountBits(a, c, k).hi = IF a.words = 2 THEN h + q + carry ELSE 0
  BY <1>1, <1>3, <1>4
<1>. QED
  BY <1>1, <1>6, <1>7 DEF Counts, m

-----------------------------------------------------------------------------
(* What a context holds.                                                    *)

\* The buffer of b bytes begins with s.
Holds(buf, b, s) ==
  buf = [i \in 1 .. b |-> IF i \in 1 .. Len(s) THEN s[i] ELSE buf[i]]

\* The context has taken the bytes m: their whole blocks are in the state, the
\* others in the buffer, and the words count all their bits.
HasTaken(a, c, m) ==
  /\ c.state = Blocks(a.block, m)
  /\ c.buflen = Len(Rest(a.block, m))
  /\ Holds(c.buf, a.block, Rest(a.block, m))
  /\ Counts(a, c.hi, c.lo, Len(m))

LEMMA HoldsNothing ==
  ASSUME NEW b \in Nat, NEW f
  PROVE  Holds([i \in 1 .. b |-> f], b, <<>>)
BY DEF Holds

LEMMA IntoHolds ==
  ASSUME NEW b \in Nat, NEW S, NEW buf, NEW s \in Seq(S), NEW t \in Seq(S),
         Holds(buf, b, s), Len(s) + Len(t) <= b
  PROVE  Holds(Into(buf, Len(s), t), b, s \o t)
<1>. DEFINE r == Into(buf, Len(s), t)
<1>1. DOMAIN buf = 1 .. b /\ \A i \in 1 .. b : i \in 1 .. Len(s) => buf[i] = s[i]
  BY Zenon DEF Holds
<1>2. r = [i \in 1 .. b |-> IF i \in Len(s) + 1 .. Len(s) + Len(t) THEN t[i - Len(s)] ELSE buf[i]]
  BY <1>1 DEF Into
<1>. HIDE DEF r
<1>3. /\ Len(s \o t) = Len(s) + Len(t) /\ Len(s) \in Nat /\ Len(t) \in Nat
      /\ \A i \in 1 .. Len(s) : (s \o t)[i] = s[i]
      /\ \A i \in 1 .. Len(t) : (s \o t)[Len(s) + i] = t[i]
  <2>1. Len(s) \in Nat /\ Len(t) \in Nat
    OBVIOUS
  <2>. QED
    BY <2>1, Join
<1>4. ASSUME NEW i \in 1 .. b, i \in 1 .. Len(s \o t)
      PROVE  r[i] = (s \o t)[i]
  <2>1. CASE i <= Len(s)
    <3>1. i \in 1 .. Len(s) /\ i \notin Len(s) + 1 .. Len(s) + Len(t)
      BY <2>1, <1>3
    <3>2. r[i] = buf[i]
      BY <3>1, <1>2
    <3>. QED
      BY <3>1, <3>2, <1>1, <1>3
  <2>2. CASE ~(i <= Len(s))
    <3>1. /\ i - Len(s) \in 1 .. Len(t) /\ Len(s) + (i - Len(s)) = i
          /\ i \in Len(s) + 1 .. Len(s) + Len(t)
      BY <2>2, <1>3, <1>4
    <3>2. r[i] = t[i - Len(s)]
      BY <3>1, <1>2
    <3>3. (s \o t)[Len(s) + (i - Len(s))] = t[i - Len(s)]
      BY <3>1, <1>3, Zenon
    <3>. QED
      BY <3>1, <3>2, <3>3
  <2>. QED
    BY <2>1, <2>2
<1>5. r = [i \in 1 .. b |-> IF i \in 1 .. Len(s \o t) THEN (s \o t)[i] ELSE r[i]]
  <2>1. \A i \in 1 .. b : r[i] = IF i \in 1 .. Len(s \o t) THEN (s \o t)[i] ELSE r[i]
    BY <1>4, Zenon
  <2>2. r = [i \in 1 .. b |-> r[i]]
    BY <1>2, Zenon
  <2>. QED
    BY <2>1, <2>2, Zenon
<1>. QED
  BY <1>5, Zenon DEF Holds, r

\* A full buffer is what was put there.
LEMMA HoldsAll ==
  ASSUME NEW S, NEW s \in Seq(S), NEW buf, Holds(buf, Len(s), s)
  PROVE  buf = s
<1>1. buf = [i \in 1 .. Len(s) |-> IF i \in 1 .. Len(s) THEN s[i] ELSE buf[i]]
  BY Zenon DEF Holds
<1>2. buf = [i \in 1 .. Len(s) |-> s[i]]
  BY <1>1, Zenon
<1>3. s = [i \in 1 .. Len(s) |-> s[i]]
  OBVIOUS
<1>. QED
  BY <1>2, <1>3, Zenon

\* What is at the front may be written over.
LEMMA HoldsLess ==
  ASSUME NEW S, NEW s \in Seq(S), NEW b \in Nat, NEW buf, Holds(buf, b, s)
  PROVE  Holds(buf, b, <<>>)
<1>1. buf = [i \in 1 .. b |-> IF i \in 1 .. Len(s) THEN s[i] ELSE buf[i]]
  BY Zenon DEF Holds
<1>2. buf = [i \in 1 .. b |-> buf[i]]
  BY <1>1, Zenon
<1>3. \A i \in 1 .. b : i \notin 1 .. Len(<<>>)
  OBVIOUS
<1>. QED
  BY <1>2, <1>3, Zenon DEF Holds

LEMMA InitTakes ==
  ASSUME NEW a, IsHash(a)
  PROVE  HasTaken(a, HashInit(a), <<>>)
<1>. DEFINE b == a.block
<1>1. b \in Nat \ {0} /\ a.mod \in Nat \ {0}
  BY DEF IsHash
<1>2. <<>> \in Seq(Int) /\ Len(<<>>) = 0 /\ Len(<<>>) < b
  BY <1>1
<1>. HIDE DEF b
<1>3. Blocks(b, <<>>) = <<>> /\ Len(<<>>) % b = Len(<<>>)
  BY <1>1, <1>2, BlocksShort
<1>4. Rest(b, <<>>) = <<>>
  <2>1. Rest(b, <<>>) \in Seq(Int) /\ Len(Rest(b, <<>>)) = Len(<<>>) % b
    BY <1>1, <1>2, RestIs
  <2>. QED
    BY <2>1, <1>2, <1>3
<1>5. Counts(a, 0, 0, 0)
  <2>1. 8 * 0 = 0 * a.mod + 0 /\ 0 \in 0 .. a.mod - 1 /\ 0 \in Nat
    BY <1>1
  <2>2. (0 * a.mod + 0) \div a.mod = 0 /\ (0 * a.mod + 0) % a.mod = 0
    BY <1>1, <2>1, Quotient
  <2>. QED
    BY <2>1, <2>2 DEF Counts
<1>6. Holds([i \in 1 .. b |-> <<-1>>], b, <<>>)
  BY <1>1, HoldsNothing
<1>7. /\ HashInit(a).state = <<>> /\ HashInit(a).buflen = 0
      /\ HashInit(a).buf = [i \in 1 .. b |-> <<-1>>]
      /\ HashInit(a).hi = 0 /\ HashInit(a).lo = 0
  BY DEF HashInit, b
<1>8. Holds(HashInit(a).buf, b, <<>>) /\ Counts(a, HashInit(a).hi, HashInit(a).lo, Len(<<>>))
  BY <1>2, <1>5, <1>6, <1>7
<1>. QED
  BY <1>2, <1>3, <1>4, <1>7, <1>8 DEF HasTaken, b

LEMMA IntoNothing ==
  ASSUME NEW b \in Nat, NEW S, NEW buf, NEW s \in Seq(S), Holds(buf, b, s)
  PROVE  Holds(Into(buf, Len(s), <<>>), b, s)
<1>1. DOMAIN buf = 1 .. b
  BY Zenon DEF Holds
<1>2. Len(s) \in Nat /\ \A i : i \notin Len(s) + 1 .. Len(s) + Len(<<>>)
  OBVIOUS
<1>3. Into(buf, Len(s), <<>>) = [i \in 1 .. b |-> buf[i]]
  BY <1>1, <1>2, Zenon DEF Into
<1>4. buf = [i \in 1 .. b |-> IF i \in 1 .. Len(s) THEN s[i] ELSE buf[i]]
  BY Zenon DEF Holds
<1>5. buf = [i \in 1 .. b |-> buf[i]]
  BY <1>4, Zenon
<1>. QED
  BY <1>3, <1>5, Zenon

LEMMA IntoFront ==
  ASSUME NEW b \in Nat, NEW S, NEW buf, NEW s \in Seq(S), NEW t \in Seq(S),
         Holds(buf, b, t), Len(s) <= b
  PROVE  Holds(Into(buf, 0, s), b, s)
<1>1. Holds(buf, b, <<>>)
  BY HoldsLess
<1>2. <<>> \in Seq(S) /\ Len(<<>>) = 0 /\ <<>> \o s = s
  OBVIOUS
<1>3. Len(<<>>) + Len(s) <= b
  BY <1>2
<1>. DEFINE e == <<>>
<1>4. e \in Seq(S) /\ Holds(buf, b, e) /\ Len(e) + Len(s) <= b /\ e \o s = s /\ Len(e) = 0
  BY <1>1, <1>2, <1>3
<1>. HIDE DEF e
<1>5. Holds(Into(buf, Len(e), s), b, e \o s)
  BY <1>4, IntoHolds
<1>. QED
  BY <1>4, <1>5

LEMMA ConcatThree ==
  ASSUME NEW S, NEW s \in Seq(S), NEW t \in Seq(S), NEW u \in Seq(S)
  PROVE  (s \o t) \o u = s \o (t \o u)
OBVIOUS

\* The block that fills is one more.
LEMMA OneMore ==
  ASSUME NEW b \in Nat \ {0}, NEW S, NEW f \in Seq(S), NEW first \in Seq(S),
         Whole(b, f), Len(first) = b
  PROVE  /\ Blocks(b, f \o first) = Blocks(b, f) \o <<first>>
         /\ f \o first \in Seq(S) /\ Whole(b, f \o first)
<1>1. Blocks(b, f \o first) = Blocks(b, f) \o Blocks(b, first)
  BY BlocksConcat
<1>2. Blocks(b, first) = <<first>>
  BY BlocksOne
<1>3. Whole(b, first)
  BY DEF Whole
<1>4. f \o first \in Seq(S) /\ Whole(b, f \o first)
  BY <1>3, WholeConcat
<1>. QED
  BY <1>1, <1>2, <1>4

\* An update takes its bytes, whether they fill the block or not.
LEMMA UpdateTakes ==
  ASSUME NEW a, IsHash(a), NEW S, NEW c, NEW m \in Seq(S), NEW s \in Seq(S),
         HasTaken(a, c, m)
  PROVE  HasTaken(a, HashUpdate(a, c, s), m \o s)
<1>. DEFINE b == a.block
            old == Rest(b, m)
            take == IF c.buflen > 0 THEN Min({Len(s), b - c.buflen}) ELSE 0
            head == SubSeq(s, 1, take)
            filled == Into(c.buf, c.buflen, head)
            held == c.buflen + take
            full == held = b
            rest == SubSeq(s, take + 1, Len(s))
            left == Len(rest) % b
            new == HashUpdate(a, c, s)
<1>1. b \in Nat \ {0}
  BY DEF IsHash
<1>2. /\ old \in Seq(S) /\ Len(old) < b /\ Len(old) \in Nat
      /\ \E f \in Seq(S) : Whole(b, f) /\ m = f \o old
  <2>1. /\ Rest(b, m) \in Seq(S) /\ Len(Rest(b, m)) = Len(m) % b /\ Len(m) % b \in 0 .. b - 1
        /\ \E f \in Seq(S) : Whole(b, f) /\ m = f \o Rest(b, m)
    BY <1>1, RestIs
  <2>2. Len(old) < b /\ Len(old) \in Nat
    BY <2>1, <1>1
  <2>. QED
    BY <2>1, <2>2, Zenon
<1>3. /\ c.state = Blocks(b, m) /\ c.buflen = Len(old) /\ Holds(c.buf, b, old)
      /\ Counts(a, c.hi, c.lo, Len(m))
  BY DEF HasTaken
<1>4. /\ new.state = c.state \o (IF full THEN <<filled>> ELSE <<>>) \o Blocks(b, rest)
      /\ new.buf = Into(filled, 0, SubSeq(rest, Len(rest) - left + 1, Len(rest)))
      /\ new.buflen = IF left > 0 THEN left ELSE IF full THEN 0 ELSE held
      /\ new.hi = CountBits(a, c, Len(s)).hi /\ new.lo = CountBits(a, c, Len(s)).lo
  BY Zenon DEF HashUpdate
<1>5. Counts(a, new.hi, new.lo, Len(m \o s))
  <2>1. Len(m) \in Nat /\ Len(s) \in Nat /\ Len(m \o s) = Len(m) + Len(s)
    OBVIOUS
  <2>2. Counts(a, CountBits(a, c, Len(s)).hi, CountBits(a, c, Len(s)).lo, Len(m) + Len(s))
    BY <1>3, <2>1, CountAdds
  <2>. QED
    BY <1>4, <2>1, <2>2
<1>6. /\ take \in 0 .. Len(s) /\ held <= b
      /\ held < b => (Len(old) = 0 /\ take = 0) \/ take = Len(s)
  <2>1. Min({Len(s), b - c.buflen}) = IF Len(s) <= b - c.buflen THEN Len(s) ELSE b - c.buflen
    <3>1. Len(s) \in Int /\ b - c.buflen \in Int
      BY <1>1, <1>2, <1>3
    <3>. QED
      BY <3>1, MinOfTwo, Zenon
  <2>. QED
    BY <1>1, <1>2, <1>3, <2>1
<1>7. /\ head \in Seq(S) /\ Len(head) = take
      /\ rest \in Seq(S) /\ Len(rest) = Len(s) - take /\ s = head \o rest
  BY <1>6, Cut, ZenonT(30)
<1>8. /\ new.buf = Into(filled, 0, Rest(b, rest)) /\ left = Len(Rest(b, rest))
      /\ left \in 0 .. b - 1 /\ Len(Rest(b, rest)) <= b
  <2>1. Len(Rest(b, rest)) = Len(rest) % b /\ Len(rest) % b \in 0 .. b - 1
    BY <1>1, <1>7, RestIs
  <2>2. Len(Rest(b, rest)) <= b
    <3>. DEFINE w == Len(Rest(b, rest))
    <3>1. w \in 0 .. b - 1
      BY <2>1, Zenon
    <3>. HIDE DEF w
    <3>2. w <= b
      BY <1>1, <3>1
    <3>. QED
      BY <3>2 DEF w
  <2>. QED
    BY <1>4, <2>1, <2>2 DEF Rest
<1>9. filled = Into(c.buf, Len(old), head) /\ held = Len(old) + Len(head)
  BY <1>3, <1>7
<1>10. PICK f \in Seq(S) : Whole(b, f) /\ m = f \o old
  BY <1>2, Zenon
<1>11. Holds(filled, b, old \o head) /\ old \o head \in Seq(S) /\ Len(old \o head) = held
  <2>1. Len(old) + Len(head) <= b
    BY <1>6, <1>9
  <2>2. Holds(Into(c.buf, Len(old), head), b, old \o head)
    BY <1>1, <1>2, <1>3, <1>7, <2>1, IntoHolds
  <2>3. old \o head \in Seq(S) /\ Len(old \o head) = Len(old) + Len(head)
    <3>1. old \in Seq(S) /\ head \in Seq(S)
      BY <1>2, <1>7, Zenon
    <3>. HIDE DEF old, head
    <3>. QED
      BY <3>1
  <2>. QED
    BY <1>9, <2>2, <2>3
<1>12. Rest(b, rest) \in Seq(S) /\ Holds(new.buf, b, Rest(b, rest))
  <2>1. Rest(b, rest) \in Seq(S)
    BY <1>1, <1>7, RestIs
  <2>2. Holds(Into(filled, 0, Rest(b, rest)), b, Rest(b, rest))
    BY <1>1, <1>8, <1>11, <2>1, IntoFront
  <2>. QED
    BY <1>8, <2>1, <2>2
<1>. HIDE DEF b, old, take, head, filled, held, rest, left, new
<1>13. Blocks(b, m) = Blocks(b, f) /\ Blocks(b, f) \in Seq(Seq(S))
  <2>1. Blocks(b, f) \in Seq(Seq(S))
    BY <1>1, BlocksAre
  <2>2. Rest(b, f \o old) = old /\ Blocks(b, f \o old) = Blocks(b, f)
    BY <1>1, <1>2, <1>10, RestBe
  <2>. QED
    BY <1>10, <2>1, <2>2
<1>14. m \o s \in Seq(S)
  OBVIOUS
<1>15. CASE full
  <2>1. filled \in Seq(S) /\ Len(filled) = b /\ filled = old \o head
    <3>1. Len(old \o head) = b /\ old \o head \in Seq(S)
      BY <1>11, <1>15
    <3>2. Holds(filled, Len(old \o head), old \o head)
      BY <1>11, <3>1
    <3>3. filled = old \o head
      BY <3>1, <3>2, HoldsAll, Zenon
    <3>. QED
      BY <3>1, <3>3
  <2>2. f \in Seq(S) /\ old \in Seq(S) /\ head \in Seq(S) /\ rest \in Seq(S)
    BY <1>2, <1>7, <1>10
  <2>3. m = f \o old /\ s = head \o rest /\ Whole(b, f)
    BY <1>7, <1>10
  <2>. DEFINE front == f \o filled
  <2>4. m \o s = front \o rest
    <3>1. ((f \o old) \o head) \o rest = (f \o old) \o (head \o rest)
      <4>1. f \o old \in Seq(S)
        BY <2>2
      <4>. QED
        BY <2>2, <4>1, SMTT(60)
    <3>2. (f \o old) \o head = f \o (old \o head)
      BY <2>2, SMTT(30)
    <3>. QED
      BY <2>1, <2>3, <3>1, <3>2
  <2>5. /\ Blocks(b, front) = Blocks(b, f) \o <<filled>>
        /\ front \in Seq(S) /\ Whole(b, front)
    <3>1. filled \in Seq(S) /\ Len(filled) = b /\ f \in Seq(S)
      BY <2>1, <2>2
    <3>2. Whole(b, f)
      BY <2>3
    <3>. QED
      BY <1>1, <3>1, <3>2, OneMore
  <2>. HIDE DEF front
  <2>8. /\ Blocks(b, front \o rest) = Blocks(b, front) \o Blocks(b, rest)
        /\ Rest(b, front \o rest) = Rest(b, rest)
    BY <1>1, <2>2, <2>5, BlocksConcat, RestConcat
  <2>6. new.state = Blocks(b, m \o s)
    BY <1>3, <1>4, <1>13, <1>15, <2>4, <2>5, <2>8
  <2>7. new.buflen = Len(Rest(b, m \o s)) /\ Holds(new.buf, b, Rest(b, m \o s))
    <3>1. new.buflen = left
      BY <1>4, <1>8, <1>15
    <3>. QED
      BY <1>8, <1>12, <2>4, <2>8, <3>1
  <2>. QED
    BY <2>6, <2>7, <1>5, Zenon DEF HasTaken, b, new
<1>16. CASE ~full /\ Len(old) = 0 /\ take = 0
  <2>1. m = f /\ s = rest /\ held = 0
    <3>1. old = <<>> /\ head = <<>>
      BY <1>2, <1>7, <1>16
    <3>2. held = 0
      BY <1>7, <1>9, <1>16
    <3>. QED
      BY <1>7, <1>10, <3>1, <3>2
  <2>2. /\ Blocks(b, m \o s) = Blocks(b, m) \o Blocks(b, s)
        /\ Rest(b, m \o s) = Rest(b, s)
    <3>1. /\ Blocks(b, f \o s) = Blocks(b, f) \o Blocks(b, s)
          /\ Rest(b, f \o s) = Rest(b, s)
      BY <1>1, <1>10, BlocksConcat, RestConcat, SMTT(30)
    <3>. QED
      BY <2>1, <3>1
  <2>3. Blocks(b, m) \in Seq(Seq(S))
    BY <1>13
  <2>4. new.state = Blocks(b, m \o s)
    <3>1. c.state \o <<>> = c.state
      BY <1>3, <2>3
    <3>. QED
      BY <1>3, <1>4, <1>16, <2>1, <2>2, <3>1
  <2>5. new.buflen = left
    BY <1>4, <1>8, <1>16, <2>1
  <2>6. new.buflen = Len(Rest(b, m \o s)) /\ Holds(new.buf, b, Rest(b, m \o s))
    BY <1>8, <1>12, <2>1, <2>2, <2>5
  <2>. QED
    BY <2>4, <2>6, <1>5, Zenon DEF HasTaken, b, new
<1>17. CASE ~full /\ take = Len(s)
  <2>1. head = s /\ rest = <<>>
    <3>1. rest = <<>>
      BY <1>7, <1>17
    <3>2. s = head
      BY <1>7, <3>1
    <3>. QED
      BY <3>1, <3>2
  <2>2. Blocks(b, rest) = <<>> /\ Rest(b, rest) = <<>> /\ left = 0
    <3>1. Len(rest) < b /\ Len(rest) = 0
      BY <1>1, <2>1
    <3>2. Blocks(b, rest) = <<>> /\ Len(rest) % b = Len(rest)
      BY <1>1, <1>7, <3>1, BlocksShort
    <3>3. Len(Rest(b, rest)) = Len(rest) % b
      BY <1>1, <1>7, RestIs
    <3>4. Rest(b, rest) = <<>>
      BY <1>12, <3>1, <3>2, <3>3
    <3>. QED
      BY <1>8, <3>1, <3>2, <3>3, <3>4
  <2>3. Len(old \o s) < b /\ old \o s \in Seq(S) /\ held = Len(old \o s)
    <3>1. held < b
      BY <1>1, <1>2, <1>6, <1>7, <1>9, <1>17
    <3>. QED
      BY <1>11, <2>1, <3>1
  <2>4. m \o s = f \o (old \o s)
    BY <1>2, <1>10, ConcatAssociative
  <2>5. Rest(b, m \o s) = old \o s /\ Blocks(b, m \o s) = Blocks(b, f)
    <3>. DEFINE t == old \o s
    <3>1. t \in Seq(S) /\ Len(t) < b
      BY <2>3
    <3>. HIDE DEF t
    <3>2. Rest(b, f \o t) = t /\ Blocks(b, f \o t) = Blocks(b, f)
      BY <1>1, <1>10, <3>1, RestBe
    <3>. QED
      BY <2>4, <3>2 DEF t
  <2>6. new.state = Blocks(b, m \o s)
    <3>1. c.state \o <<>> \o <<>> = c.state
      BY <1>3, <1>13
    <3>. QED
      BY <1>3, <1>4, <1>13, <1>17, <2>2, <2>5, <3>1
  <2>7. new.buflen = Len(Rest(b, m \o s))
    BY <1>4, <1>17, <2>2, <2>3, <2>5
  <2>8. Holds(new.buf, b, Rest(b, m \o s))
    <3>1. Holds(filled, b, old \o s)
      BY <1>11, <2>1
    <3>2. new.buf = Into(filled, 0, <<>>)
      BY <1>8, <2>2
    <3>3. Into(filled, 0, <<>>) = Into(filled, Len(old \o s), <<>>)
      BY DEF Into
    <3>. QED
      BY <1>1, <2>3, <2>5, <3>1, <3>2, <3>3, IntoNothing
  <2>. QED
    BY <2>6, <2>7, <2>8, <1>5, Zenon DEF HasTaken, b, new
<1>18. full \/ (~full /\ Len(old) = 0 /\ take = 0) \/ (~full /\ take = Len(s))
  <2>1. held < b \/ full
    BY <1>1, <1>2, <1>6, <1>7, <1>9
  <2>. QED
    BY <1>6, <2>1
<1>19. HasTaken(a, new, m \o s)
  BY <1>15, <1>16, <1>17, <1>18, Zenon DEF new
<1>. QED
  BY <1>19 DEF new

-----------------------------------------------------------------------------
(* The padding.                                                             *)

LEMMA Gap ==
  ASSUME NEW b \in Nat \ {0}, NEW w \in Nat, w < b, NEW m \in Nat,
         NEW r \in 0 .. b - 1, r = m % b
  PROVE  (b - ((m + 1 + w) % b)) % b =
           IF r + 1 > b - w THEN (b - (r + 1)) + (b - w) ELSE b - w - (r + 1)
<1>. DEFINE q == m \div b
            u == m + 1 + w
<1>1. m = q * b + r /\ q \in Nat
  BY Divide
<1>. HIDE DEF q
<1>2. ASSUME NEW x \in 0 .. b - 1
      PROVE  x % b = x
  <2>1. (0 * b + x) % b = x
    BY <1>2, Quotient
  <2>. QED
    BY <2>1
<1>3. CASE r + 1 + w < b
  <2>1. u = q * b + (r + 1 + w) /\ r + 1 + w \in 0 .. b - 1
    BY <1>1, <1>3
  <2>2. (q * b + (r + 1 + w)) % b = r + 1 + w
    BY <1>1, <2>1, Quotient
  <2>3. (b - (r + 1 + w)) % b = b - (r + 1 + w)
    <3>1. b - (r + 1 + w) \in 0 .. b - 1
      BY <2>1
    <3>. QED
      BY <3>1, <1>2
  <2>4. ~(r + 1 > b - w) /\ b - (r + 1 + w) = b - w - (r + 1)
    BY <1>3
  <2>. HIDE DEF u
  <2>5. u % b = r + 1 + w
    BY <2>1, <2>2
  <2>. QED
    BY <2>3, <2>4, <2>5 DEF u
<1>4. CASE r + 1 + w = b
  <2>1. u = (q + 1) * b + 0 /\ q + 1 \in Nat /\ 0 \in 0 .. b - 1
    <3>1. (q + 1) * b = q * b + b
      BY <1>1
    <3>. QED
      BY <1>1, <1>4, <3>1
  <2>2. ((q + 1) * b + 0) % b = 0
    BY <2>1, Quotient
  <2>3. b % b = 0
    <3>1. b = 1 * b + 0 /\ 1 \in Nat
      OBVIOUS
    <3>2. (1 * b + 0) % b = 0
      BY <2>1, <3>1, Quotient
    <3>. QED
      BY <3>1, <3>2
  <2>4. ~(r + 1 > b - w) /\ b - w - (r + 1) = 0 /\ b - 0 = b
    BY <1>4
  <2>. HIDE DEF u
  <2>5. u % b = 0
    BY <2>1, <2>2
  <2>. QED
    BY <2>3, <2>4, <2>5 DEF u
<1>5. CASE r + 1 + w > b
  <2>. DEFINE x == r + 1 + w - b
  <2>1. u = (q + 1) * b + x /\ q + 1 \in Nat /\ x \in 1 .. b - 1
    <3>1. (q + 1) * b = q * b + b
      BY <1>1
    <3>. QED
      BY <1>1, <1>5, <3>1
  <2>2. ((q + 1) * b + x) % b = x
    <3>. HIDE DEF x
    <3>1. x \in 0 .. b - 1
      BY <2>1
    <3>. QED
      BY <2>1, <3>1, Quotient
  <2>3. (b - x) % b = b - x
    <3>1. b - x \in 0 .. b - 1
      BY <2>1
    <3>. QED
      BY <3>1, <1>2
  <2>4. r + 1 > b - w /\ b - x = (b - (r + 1)) + (b - w)
    BY <1>5
  <2>. HIDE DEF u, x
  <2>5. u % b = x
    BY <2>1, <2>2
  <2>. QED
    BY <2>3, <2>4, <2>5 DEF u
<1>. QED
  BY <1>3, <1>4, <1>5

\* The zeros between the mark and the length, and what they are for a rest of r bytes
ZerosOf(b, w, m) == (b - ((m + 1 + w) % b)) % b
ZerosFor(b, w, r) == IF r + 1 > b - w THEN (b - (r + 1)) + (b - w) ELSE b - w - (r + 1)

LEMMA Zeros ==
  ASSUME NEW b \in Nat \ {0}, NEW w \in Nat, w < b, NEW m \in Nat,
         NEW r \in 0 .. b - 1, r = m % b
  PROVE  ZerosOf(b, w, m) = ZerosFor(b, w, r)
BY Gap, ZenonT(30) DEF ZerosOf, ZerosFor

LEMMA FillIs ==
  ASSUME NEW S, Seq(Int) \subseteq S, NEW n \in Nat
  PROVE  Fill(n) \in Seq(S) /\ Len(Fill(n)) = n
<1>1. Zero \in S
  <2>1. <<0>> \in Seq(Int)
    OBVIOUS
  <2>. QED
    BY <2>1 DEF Zero
<1>2. Fill(n) = [i \in 1 .. n |-> Zero]
  BY DEF Fill
<1>3. Fill(n) \in [1 .. n -> S]
  BY <1>1, <1>2
<1>. QED
  BY <1>3, <1>2

LEMMA FillAdds ==
  ASSUME NEW x \in Nat, NEW y \in Nat
  PROVE  Fill(x) \o Fill(y) = Fill(x + y)
<1>. DEFINE S == Seq(Int)
<1>1. /\ Fill(x) \in Seq(S) /\ Len(Fill(x)) = x
      /\ Fill(y) \in Seq(S) /\ Len(Fill(y)) = y
      /\ Fill(x + y) \in Seq(S) /\ Len(Fill(x + y)) = x + y
  BY FillIs
<1>2. ASSUME NEW n \in Nat, NEW i \in 1 .. n
      PROVE  Fill(n)[i] = Zero
  BY DEF Fill
<1>3. /\ Fill(x) \o Fill(y) \in Seq(S) /\ Len(Fill(x) \o Fill(y)) = x + y
      /\ \A i \in 1 .. x : (Fill(x) \o Fill(y))[i] = Fill(x)[i]
      /\ \A i \in 1 .. y : (Fill(x) \o Fill(y))[x + i] = Fill(y)[i]
  <2>. DEFINE f == Fill(x)
              g == Fill(y)
  <2>1. f \in Seq(S) /\ g \in Seq(S) /\ Len(f) = x /\ Len(g) = y
    BY <1>1
  <2>. HIDE DEF S, f, g
  <2>2. f \o g \in Seq(S) /\ Len(f \o g) = x + y
    BY <2>1
  <2>3. \A i \in 1 .. x : (f \o g)[i] = f[i]
    BY <2>1
  <2>4. \A i \in 1 .. y : (f \o g)[x + i] = g[i]
    BY <2>1
  <2>. QED
    BY <2>2, <2>3, <2>4 DEF f, g
<1>4. ASSUME NEW i \in 1 .. x + y
      PROVE  (Fill(x) \o Fill(y))[i] = Fill(x + y)[i]
  <2>1. Fill(x + y)[i] = Zero
    BY <1>2
  <2>2. CASE i <= x
    BY <2>1, <2>2, <1>2, <1>3
  <2>3. CASE ~(i <= x)
    <3>1. i - x \in 1 .. y /\ x + (i - x) = i
      BY <2>3
    <3>2. (Fill(x) \o Fill(y))[x + (i - x)] = Fill(y)[i - x]
      BY <3>1, <1>3, Zenon
    <3>. QED
      BY <2>1, <3>1, <3>2, <1>2
  <2>. QED
    BY <2>2, <2>3
<1>. HIDE DEF S
<1>. QED
  BY <1>1, <1>3, <1>4, SeqEqual

\* The last piece of a block
LEMMA LastPiece ==
  ASSUME NEW b \in Nat, NEW S, NEW buf, NEW x \in Seq(S), NEW z \in Seq(S),
         NEW n, n = Len(x), Holds(buf, b, x), n + Len(z) = b
  PROVE  Into(buf, n, z) = x \o z /\ x \o z \in Seq(S) /\ Len(x \o z) = b
<1>1. x \o z \in Seq(S) /\ Len(x \o z) = b
  OBVIOUS
<1>2. Len(x) + Len(z) <= b
  OBVIOUS
<1>3. Holds(Into(buf, n, z), b, x \o z)
  BY <1>2, IntoHolds
<1>. DEFINE y == x \o z
            t == Into(buf, n, z)
<1>4. y \in Seq(S) /\ Holds(t, Len(y), y) /\ Len(y) = b
  BY <1>1, <1>3
<1>. HIDE DEF y, t
<1>5. t = y
  BY <1>4, HoldsAll, Zenon
<1>. QED
  BY <1>1, <1>5 DEF y, t

\* The words of the length
LengthOf(a, bits) ==
  IF a.words = 2 THEN <<<<bits \div a.mod>>, <<bits % a.mod>>>> ELSE <<<<bits>>>>

LEMMA LengthIs ==
  ASSUME NEW a, IsHash(a), NEW S, Seq(Int) \subseteq S, NEW bits \in Nat
  PROVE  LengthOf(a, bits) \in Seq(S) /\ Len(LengthOf(a, bits)) = a.words
<1>. DEFINE h == bits \div a.mod
            l == bits % a.mod
<1>1. h \in Nat /\ l \in Nat /\ a.words \in {1, 2}
  <2>1. a.mod \in Nat \ {0} /\ a.words \in {1, 2}
    BY DEF IsHash
  <2>2. bits \div a.mod \in Nat /\ bits % a.mod \in 0 .. a.mod - 1
    BY <2>1, Divide
  <2>. QED
    BY <2>1, <2>2
<1>. HIDE DEF h, l
<1>2. <<h>> \in S /\ <<l>> \in S /\ <<bits>> \in S
  <2>1. <<h>> \in Seq(Int) /\ <<l>> \in Seq(Int) /\ <<bits>> \in Seq(Int)
    BY <1>1
  <2>. QED
    BY <2>1
<1>3. LengthOf(a, bits) = IF a.words = 2 THEN <<<<h>>, <<l>>>> ELSE <<<<bits>>>>
  BY DEF LengthOf, h, l
<1>. DEFINE u == <<h>>
            v == <<l>>
            w == <<bits>>
<1>. HIDE DEF u, v, w
<1>4. <<u, v>> \in Seq(S) /\ Len(<<u, v>>) = 2 /\ <<w>> \in Seq(S) /\ Len(<<w>>) = 1
  BY <1>2 DEF u, v, w
<1>. QED
  BY <1>1, <1>3, <1>4 DEF u, v, w

\* The words of a context that counts all its bits
LEMMA LengthCounted ==
  ASSUME NEW a, IsHash(a), NEW n \in Nat, Countable(a, n), NEW c, Counts(a, c.hi, c.lo, n)
  PROVE  (IF a.words = 2 THEN <<<<c.hi>>, <<c.lo>>>> ELSE <<<<c.lo>>>>) = LengthOf(a, 8 * n)
<1>1. a.words \in {1, 2} /\ a.mod \in Nat \ {0}
  BY DEF IsHash
<1>2. c.lo = (8 * n) % a.mod /\ (a.words = 2 => c.hi = (8 * n) \div a.mod)
  BY DEF Counts
<1>3. CASE a.words = 2
  BY <1>2, <1>3 DEF LengthOf
<1>4. CASE a.words = 1
  <2>1. 8 * n = 0 * a.mod + 8 * n /\ 8 * n \in 0 .. a.mod - 1
    BY <1>1, <1>4 DEF Countable
  <2>2. (0 * a.mod + 8 * n) % a.mod = 8 * n
    BY <1>1, <2>1, Quotient
  <2>3. c.lo = 8 * n
    BY <1>2, <2>1, <2>2
  <2>. QED
    BY <1>4, <2>3 DEF LengthOf
<1>. QED
  BY <1>1, <1>3, <1>4

\* final computes the state of the padded message.
LEMMA FinalIs ==
  ASSUME NEW a, IsHash(a), NEW S, Seq(Int) \subseteq S, NEW c, NEW m \in Seq(S),
         HasTaken(a, c, m), Countable(a, Len(m))
  PROVE  HashFinal(a, c) = RefState(a, m)
<1>. DEFINE b == a.block
            w == a.words
            old == Rest(b, m)
            r == Len(old)
            n == r + 1
            mk == <<Mark>>
            x == old \o mk
            len == LengthOf(a, 8 * Len(m))
            marked == Into(c.buf, c.buflen, mk)
            tight == n > b - w
            gap == (b - ((Len(m) + 1 + w) % b)) % b
            final == HashFinal(a, c)
<1>1. b \in Nat \ {0} /\ w \in {1, 2} /\ w < b
  BY DEF IsHash
<1>2. Len(m) \in Nat
  OBVIOUS
<1>3. /\ old \in Seq(S) /\ r \in 0 .. b - 1 /\ r = Len(m) % b
      /\ \E f \in Seq(S) : Whole(b, f) /\ m = f \o old
  <2>1. /\ Rest(b, m) \in Seq(S) /\ Len(Rest(b, m)) = Len(m) % b /\ Len(m) % b \in 0 .. b - 1
        /\ \E f \in Seq(S) : Whole(b, f) /\ m = f \o Rest(b, m)
    BY <1>1, RestIs
  <2>. QED
    BY <2>1
<1>4. /\ c.state = Blocks(b, m) /\ c.buflen = r /\ Holds(c.buf, b, old)
      /\ Counts(a, c.hi, c.lo, Len(m))
  BY DEF HasTaken
<1>5. (IF w = 2 THEN <<<<c.hi>>, <<c.lo>>>> ELSE <<<<c.lo>>>>) = len
  BY <1>2, <1>4, LengthCounted
<1>6. len \in Seq(S) /\ Len(len) = w
  <2>1. 8 * Len(m) \in Nat
    BY <1>2
  <2>. QED
    BY <2>1, LengthIs
<1>7. final = c.state \o (IF tight THEN <<Into(marked, n, Fill(b - n))>> ELSE <<>>)
                \o <<Into(Into(IF tight THEN Fill(b) ELSE marked, IF tight THEN 0 ELSE n,
                               Fill(b - w - (IF tight THEN 0 ELSE n))), b - w, len)>>
  BY <1>4, <1>5 DEF HashFinal, Tight
<1>8. RefState(a, m) = Blocks(b, ((m \o mk) \o Fill(gap)) \o len)
  BY DEF RefState, Padded, LengthOf
<1>9. mk \in Seq(S) /\ Len(mk) = 1
  <2>1. <<128>> \in Seq(Int)
    OBVIOUS
  <2>2. Mark \in S
    BY <2>1 DEF Mark
  <2>. QED
    BY <2>2
<1>10. gap = IF tight THEN (b - n) + (b - w) ELSE b - w - n
  <2>. DEFINE mm == Len(m)
  <2>1. mm \in Nat /\ r \in 0 .. b - 1 /\ r = mm % b
    BY <1>2, <1>3
  <2>2. w \in Nat /\ w < b /\ b \in Nat \ {0}
    BY <1>1
  <2>. HIDE DEF mm, r, b, w
  <2>3. (b - ((mm + 1 + w) % b)) % b =
          IF r + 1 > b - w THEN (b - (r + 1)) + (b - w) ELSE b - w - (r + 1)
    <3>1. ZerosOf(b, w, mm) = ZerosFor(b, w, r)
      BY <2>1, <2>2, Zeros, Zenon
    <3>. QED
      BY <3>1, Zenon DEF ZerosOf, ZerosFor
  <2>. QED
    BY <2>3 DEF mm
<1>11. PICK f \in Seq(S) : Whole(b, f) /\ m = f \o old
  BY <1>3, Zenon
<1>. HIDE DEF b, w, old, mk, len, gap, final
<1>12. Blocks(b, m) = Blocks(b, f) /\ Blocks(b, f) \in Seq(Seq(S))
  <2>1. Rest(b, f \o old) = old /\ Blocks(b, f \o old) = Blocks(b, f)
    <3>1. Len(old) < b
      BY <1>1, <1>3
    <3>. QED
      BY <1>1, <1>3, <1>11, <3>1, RestBe
  <2>2. Blocks(b, f) \in Seq(Seq(S))
    BY <1>1, BlocksAre
  <2>. QED
    BY <1>11, <2>1, <2>2
<1>13. x \in Seq(S) /\ Len(x) = n /\ Holds(marked, b, x)
  <2>1. Holds(Into(c.buf, Len(old), mk), b, old \o mk)
    <3>1. Len(old) + Len(mk) <= b
      BY <1>1, <1>3, <1>9
    <3>. QED
      BY <1>1, <1>3, <1>4, <1>9, <3>1, IntoHolds
  <2>2. Holds(marked, b, x)
    BY <1>4, <2>1
  <2>3. old \o mk \in Seq(S) /\ Len(old \o mk) = Len(old) + Len(mk)
    <3>1. old \in Seq(S) /\ mk \in Seq(S)
      BY <1>3, <1>9
    <3>. QED
      BY <3>1
  <2>. QED
    BY <1>9, <2>2, <2>3
<1>14. m \o mk = f \o x
  BY <1>3, <1>9, <1>11, SMTT(30)
<1>. HIDE DEF x, marked, r
<1>15. CASE ~tight
  <2>. DEFINE g == Fill(b - w - n)
              blk == (x \o g) \o len
              z == Into(Into(marked, n, g), b - w, len)
  <2>1. b - w - n \in Nat /\ gap = b - w - n
    BY <1>1, <1>3, <1>10, <1>15
  <2>2. g \in Seq(S) /\ Len(g) = b - w - n
    BY <2>1, FillIs
  <2>3. final = c.state \o <<z>>
    <3>1. final = (c.state \o <<>>) \o <<z>>
      BY <1>7, <1>15
    <3>2. c.state \o <<>> = c.state
      BY <1>4, <1>12
    <3>. QED
      BY <3>1, <3>2
  <2>. HIDE DEF g
  <2>4. z = blk /\ blk \in Seq(S) /\ Len(blk) = b
    <3>. DEFINE xg == x \o g
    <3>1. x \in Seq(S) /\ Len(x) = n /\ Holds(marked, b, x)
      BY <1>13
    <3>. DEFINE d == b - w
    <3>2. g \in Seq(S) /\ Len(g) = b - w - n
      BY <2>2
    <3>3. b \in Nat /\ n \in Nat /\ n + Len(g) <= b /\ n + Len(g) = d /\ d + Len(len) = b
      <4>1. r \in Nat /\ b \in Nat /\ w \in Nat /\ Len(len) = w
        BY <1>1, <1>3, <1>6
      <4>. QED
        BY <3>2, <4>1
    <3>4. xg \in Seq(S) /\ Len(xg) = Len(x) + Len(g)
      <4>1. x \in Seq(S) /\ g \in Seq(S)
        BY <3>1, <3>2
      <4>. QED
        BY <4>1
    <3>5. d = Len(xg)
      BY <3>1, <3>3, <3>4
    <3>6. Holds(Into(marked, n, g), b, xg)
      BY <3>1, <3>2, <3>3, IntoHolds
    <3>. HIDE DEF xg, d
    <3>7. /\ Into(Into(marked, n, g), d, len) = xg \o len
          /\ xg \o len \in Seq(S) /\ Len(xg \o len) = b
      <4>. DEFINE buf == Into(marked, n, g)
      <4>1. Holds(buf, b, xg) /\ d + Len(len) = b /\ b \in Nat
        BY <3>3, <3>6
      <4>2. xg \in Seq(S) /\ d = Len(xg) /\ len \in Seq(S)
        BY <1>6, <3>4, <3>5
      <4>. HIDE DEF buf, blk, z
      <4>3. Into(buf, d, len) = xg \o len /\ xg \o len \in Seq(S) /\ Len(xg \o len) = b
        <5>. DEFINE y == xg \o len
                    t == Into(buf, d, len)
        <5>1. y \in Seq(S) /\ Len(y) = b
          BY <4>1, <4>2
        <5>2. Len(xg) + Len(len) <= b
          BY <4>1, <4>2
        <5>3. Holds(t, b, y)
          BY <4>1, <4>2, <5>2, IntoHolds
        <5>4. Holds(t, Len(y), y)
          BY <5>1, <5>3
        <5>. HIDE DEF t, y
        <5>5. t = y
          BY <5>1, <5>4, HoldsAll, Zenon
        <5>. QED
          BY <5>1, <5>5 DEF t, y
      <4>. QED
        BY <4>3 DEF buf
    <3>. QED
      BY <3>7 DEF xg, d
  <2>5. ((f \o x) \o g) \o len = f \o blk
    <3>1. (f \o x) \o g = f \o (x \o g)
      BY <1>11, <1>13, <2>2
    <3>2. (f \o (x \o g)) \o len = f \o ((x \o g) \o len)
      <4>1. x \o g \in Seq(S)
        BY <1>13, <2>2
      <4>. QED
        BY <1>6, <1>11, <4>1
    <3>. QED
      BY <3>1, <3>2
  <2>. HIDE DEF blk, z
  <2>6. Blocks(b, f \o blk) = Blocks(b, f) \o <<blk>>
    BY <1>1, <1>11, <2>4, OneMore
  <2>7. RefState(a, m) = Blocks(b, f \o blk)
    BY <1>8, <1>14, <2>1, <2>5 DEF g
  <2>. QED
    BY <1>4, <1>12, <2>3, <2>4, <2>6, <2>7 DEF final
<1>16. CASE tight
  <2>. DEFINE g == Fill(b - n)
              h == Fill(b - w)
              one == x \o g
              two == h \o len
              y == Into(marked, n, g)
              z == Into(Into(Fill(b), 0, h), b - w, len)
  <2>1. b - n \in Nat /\ b - w \in Nat /\ gap = (b - n) + (b - w) /\ b \in Nat
    BY <1>1, <1>3, <1>10, <1>16
  <2>2. /\ g \in Seq(S) /\ Len(g) = b - n /\ h \in Seq(S) /\ Len(h) = b - w
        /\ g \o h = Fill(gap)
    BY <2>1, FillIs, FillAdds
  <2>3. final = (c.state \o <<y>>) \o <<z>>
    <3>1. b - w - 0 = b - w
      BY <2>1
    <3>2. final = (c.state \o <<y>>) \o <<Into(Into(Fill(b), 0, Fill(b - w - 0)), b - w, len)>>
      BY <1>7, <1>16, Zenon
    <3>. QED
      BY <3>1, <3>2
  <2>. HIDE DEF g, h
  <2>4. y = one /\ one \in Seq(S) /\ Len(one) = b
    <3>1. x \in Seq(S) /\ n = Len(x) /\ Holds(marked, b, x)
      BY <1>13
    <3>2. n + Len(g) = b /\ b \in Nat /\ g \in Seq(S)
      BY <1>3, <2>1, <2>2 DEF r
    <3>. QED
      BY <3>1, <3>2, LastPiece
  <2>5. z = two /\ two \in Seq(S) /\ Len(two) = b
    <3>. DEFINE buf == Fill(b)
    <3>1. Holds(buf, b, <<>>)
      <4>1. Holds([i \in 1 .. b |-> Zero], b, <<>>)
        BY <2>1, HoldsNothing
      <4>. QED
        BY <4>1 DEF Fill
    <3>. HIDE DEF buf
    <3>2. h \in Seq(S) /\ Len(h) = b - w /\ Len(h) <= b /\ b \in Nat /\ <<>> \in Seq(S)
      BY <1>1, <2>2
    <3>3. Holds(Into(buf, 0, h), b, h)
      BY <3>1, <3>2, IntoFront
    <3>. DEFINE d == b - w
    <3>4. d + Len(len) = b /\ d = Len(h)
      BY <1>1, <1>6, <3>2
    <3>. HIDE DEF d
    <3>5. Into(Into(buf, 0, h), d, len) = h \o len /\ h \o len \in Seq(S) /\ Len(h \o len) = b
      BY <1>6, <3>2, <3>3, <3>4, LastPiece, SMTT(30)
    <3>. QED
      BY <3>5 DEF buf, d
  <2>6. ((f \o x) \o Fill(gap)) \o len = (f \o one) \o two
    <3>1. (f \o x) \o (g \o h) = ((f \o x) \o g) \o h
      <4>1. f \o x \in Seq(S)
        BY <1>11, <1>13
      <4>2. g \in Seq(S) /\ h \in Seq(S)
        BY <2>2
      <4>. HIDE DEF two, one
      <4>. QED
        BY <4>1, <4>2
    <3>2. (f \o x) \o g = f \o one
      BY <1>11, <1>13, <2>2, SMTT(30)
    <3>3. ((f \o one) \o h) \o len = (f \o one) \o (h \o len)
      <4>1. f \o one \in Seq(S)
        BY <1>11, <2>4
      <4>. QED
        BY <1>6, <2>2, <4>1, SMTT(30)
    <3>. QED
      BY <2>2, <3>1, <3>2, <3>3
  <2>. HIDE DEF one, two, y, z
  <2>7. /\ Blocks(b, f \o one) = Blocks(b, f) \o <<one>>
        /\ f \o one \in Seq(S) /\ Whole(b, f \o one)
    BY <1>1, <1>11, <2>4, OneMore
  <2>8. Blocks(b, (f \o one) \o two) = Blocks(b, f \o one) \o <<two>>
    <3>. DEFINE front == f \o one
    <3>1. front \in Seq(S) /\ Whole(b, front)
      BY <2>7
    <3>. HIDE DEF front
    <3>2. Blocks(b, front \o two) = Blocks(b, front) \o <<two>>
      BY <1>1, <2>5, <3>1, OneMore
    <3>. QED
      BY <3>2 DEF front
  <2>9. RefState(a, m) = Blocks(b, (f \o one) \o two)
    BY <1>8, <1>14, <2>6
  <2>. QED
    BY <1>4, <1>12, <2>3, <2>4, <2>5, <2>7, <2>8, <2>9 DEF final
<1>. QED
  BY <1>15, <1>16

-----------------------------------------------------------------------------
(* The inductive invariant.                                                 *)

IsSequence(s) == s \in Seq({s[i] : i \in DOMAIN s})

Sized(a, c) == c.buflen \in 0 .. a.block - 1 /\ Len(c.buf) = a.block

Kinds ==
  /\ job \in Jobs \/ (job.kind = "base64" /\ DOMAIN job = {"kind", "of", "text"})
  /\ fed \in 0 .. MaxLen
  /\ pc = "more" => job.kind = "derive"
  /\ pc \in {"text", "edited"} => job.kind = "base64"
  /\ pc = "crypt" => job.kind = "ctr"
  /\ job.kind = "ctr" => pc \in {"ready", "crypt"}

\* What each job's contexts have taken
Contexts ==
  /\ job.kind = "digest" => HasTaken(job.algo, ctx, Message(fed))
  /\ job.kind = "mac" =>
       /\ HasTaken(Sha256, ctx, Masked(MacKey(job.key), "ipad") \o Message(fed))
       /\ HasTaken(Sha256, outer, Masked(MacKey(job.key), "opad"))
  /\ Sized(Algo, ctx) /\ Sized(Algo, outer)

\* Between the rounds a key consists of whole digests.
Rounds ==
  job.kind = "derive" =>
    /\ IsSequence(out) /\ KeyOfRfc4253
    /\ pc = "ready" => out = <<>>
    /\ pc = "more" =>
         /\ Len(out) \in 1 .. job.len - 1
         /\ Len(out) % DigestSize = 0

\* The value of the counter k blocks after iv
Place(iv, k) ==
  LET block == (iv[1] * CtrBase + iv[2] + k) % (CtrBase * CtrBase)
  IN <<block \div CtrBase, block % CtrBase>>

\* Where a stream stands: the counter is that of the next block to be encrypted.
Position ==
  job.kind = "ctr" =>
    /\ DOMAIN ctr = {"nonce", "stream", "offset", "left"}
    /\ IsSequence(out) /\ ctr.left \in Nat /\ Len(out) + ctr.left = fed
    /\ pc = "ready" <=> ctr.left = 0
    /\ ctr.offset = Len(out) % AES_BLOCK_SIZE
    /\ ctr.offset # 0 => ctr.stream = Place(job.iv, Len(out) \div AES_BLOCK_SIZE)
    /\ ctr.nonce = Place(job.iv, Len(out) \div AES_BLOCK_SIZE + (IF ctr.offset = 0 THEN 0 ELSE 1))
    /\ \A j \in DOMAIN out :
         out[j] = <<Place(job.iv, (j - 1) \div AES_BLOCK_SIZE), (j - 1) % AES_BLOCK_SIZE>>

Results ==
  /\ pc = "done" /\ job.kind = "digest" =>
       out = Digest(RefState(job.algo, Message(fed)))
  /\ MacOfWhole

StreamsInv == Kinds /\ Contexts /\ Rounds /\ Position /\ Results

-----------------------------------------------------------------------------
(* The algorithms and their inputs.                                         *)

LEMMA Hashes ==
  /\ IsHash(Sha256) /\ IsHash(Sha512)
  /\ DigestSize \in 1 .. Sha256.block /\ Sha256.block \in Nat \ {0}
  /\ MaxLen \in Nat
  /\ \A j \in Jobs : j.kind = "digest" => IsHash(j.algo)
<1>1. IsHash(Sha256) /\ IsHash(Sha512)
  BY StreamsAssumption DEF IsHash
<1>2. Sha256.block \in Nat \ {0}
  BY <1>1 DEF IsHash
<1>3. \A j \in Jobs : j.kind = "digest" => j.algo \in {Sha256, Sha512}
  BY DEF Jobs
<1>. QED
  BY <1>1, <1>2, <1>3, StreamsAssumption

LEMMA Fewer ==
  ASSUME NEW a, IsHash(a), NEW n \in Nat, NEW k \in Nat, k <= n, Countable(a, n)
  PROVE  Countable(a, k)
<1>1. a.mod \in Nat
  BY DEF IsHash
<1>. QED
  BY <1>1 DEF Countable

LEMMA TakenSized ==
  ASSUME NEW a, IsHash(a), NEW S, NEW c, NEW m \in Seq(S), HasTaken(a, c, m)
  PROVE  Sized(a, c)
<1>. DEFINE b == a.block
            old == Rest(b, m)
<1>1. b \in Nat \ {0}
  BY DEF IsHash
<1>2. c.buflen = Len(old) /\ Holds(c.buf, b, old)
  BY DEF HasTaken
<1>3. Len(old) \in 0 .. b - 1
  <2>1. Len(old) = Len(m) % b /\ Len(m) % b \in 0 .. b - 1
    BY <1>1, RestIs
  <2>. QED
    BY <2>1
<1>. HIDE DEF b, old
<1>4. Len(c.buf) = b
  <2>. DEFINE T == {c.buf[i] : i \in 1 .. b}
  <2>1. DOMAIN c.buf = 1 .. b /\ c.buf = [i \in 1 .. b |-> c.buf[i]]
    BY <1>2, Zenon DEF Holds
  <2>2. c.buf \in [1 .. b -> T]
    BY <2>1, Zenon
  <2>. HIDE DEF T
  <2>3. c.buf \in Seq(T)
    BY <1>1, <2>2
  <2>. QED
    BY <1>1, <2>1, <2>3
<1>. QED
  BY <1>2, <1>3, <1>4 DEF Sized, b

LEMMA DataIs ==
  ASSUME NEW S, Seq(Int) \subseteq S, NEW x \in Int, NEW n \in Nat
  PROVE  Data(x, n) \in Seq(S) /\ Len(Data(x, n)) = n
<1>1. \A i \in 1 .. n : <<x + i>> \in S
  <2>1. \A i \in 1 .. n : x + i \in Int
    OBVIOUS
  <2>2. \A z \in Int : <<z>> \in Seq(Int)
    OBVIOUS
  <2>. QED
    BY <2>1, <2>2
<1>2. Data(x, n) = [i \in 1 .. n |-> <<x + i>>]
  BY DEF Data
<1>3. Data(x, n) \in [1 .. n -> S]
  BY <1>1, <1>2
<1>. DEFINE d == Data(x, n)
<1>4. d \in [1 .. n -> S]
  BY <1>3
<1>. HIDE DEF d
<1>5. d \in Seq(S) /\ Len(d) = n
  BY <1>4
<1>. QED
  BY <1>5 DEF d

\* One call after another hands over the message.
LEMMA DataAdds ==
  ASSUME NEW n \in Nat, NEW k \in Nat
  PROVE  Message(n) \o Data(n, k) = Message(n + k)
<1>. DEFINE S == Seq(Int)
            f == Message(n)
            g == Data(n, k)
            h == Message(n + k)
<1>1. /\ f \in Seq(S) /\ Len(f) = n /\ g \in Seq(S) /\ Len(g) = k
      /\ h \in Seq(S) /\ Len(h) = n + k
  BY DataIs DEF Message
<1>2. /\ \A i \in 1 .. n : f[i] = <<0 + i>>
      /\ \A i \in 1 .. k : g[i] = <<n + i>>
      /\ \A i \in 1 .. n + k : h[i] = <<0 + i>>
  BY DEF Message, Data
<1>. HIDE DEF S, f, g, h
<1>3. /\ f \o g \in Seq(S) /\ Len(f \o g) = n + k
      /\ \A i \in 1 .. n : (f \o g)[i] = f[i]
      /\ \A i \in 1 .. k : (f \o g)[n + i] = g[i]
  BY <1>1, SMTT(30)
<1>4. ASSUME NEW i \in 1 .. n + k
      PROVE  (f \o g)[i] = h[i]
  <2>1. CASE i <= n
    <3>1. i \in 1 .. n
      BY <2>1
    <3>. QED
      BY <3>1, <1>2, <1>3
  <2>2. CASE ~(i <= n)
    <3>. DEFINE u == i - n
    <3>1. u \in 1 .. k /\ i = n + u /\ 0 + i = n + u
      BY <2>2
    <3>. HIDE DEF u
    <3>2. (f \o g)[n + u] = <<n + u>>
      BY <3>1, <1>2, <1>3
    <3>3. h[i] = <<0 + i>>
      BY <1>2
    <3>. QED
      BY <3>1, <3>2, <3>3
  <2>. QED
    BY <2>1, <2>2
<1>5. f \o g = h
  BY <1>1, <1>3, <1>4, SeqEqual
<1>. QED
  BY <1>5 DEF f, g, h

\* What a context computes of one piece
LEMMA OnePiece ==
  ASSUME NEW a, IsHash(a), NEW S, NEW s \in Seq(S)
  PROVE  HasTaken(a, HashUpdate(a, HashInit(a), s), s)
<1>. DEFINE e == <<>>
<1>1. e \in Seq(S) /\ e \o s = s
  OBVIOUS
<1>2. HasTaken(a, HashInit(a), e)
  BY InitTakes
<1>. HIDE DEF e
<1>3. HasTaken(a, HashUpdate(a, HashInit(a), s), e \o s)
  BY <1>1, <1>2, UpdateTakes
<1>. QED
  BY <1>1, <1>3

LEMMA HashOf ==
  ASSUME NEW S, Seq(Int) \subseteq S, NEW s \in Seq(S), Countable(Sha256, Len(s))
  PROVE  Sha256Of(s) = RefHash(s)
<1>1. HasTaken(Sha256, HashUpdate(Sha256, HashInit(Sha256), s), s)
  BY Hashes, OnePiece
<1>2. HashFinal(Sha256, HashUpdate(Sha256, HashInit(Sha256), s)) = RefState(Sha256, s)
  BY <1>1, Hashes, FinalIs
<1>. QED
  BY <1>2 DEF Sha256Of, RefHash

LEMMA DigestIs ==
  ASSUME NEW x, NEW T, \A i \in 1 .. DigestSize : <<x, i>> \in T
  PROVE  Digest(x) \in Seq(T) /\ Len(Digest(x)) = DigestSize
<1>1. DigestSize \in Nat
  BY Hashes
<1>2. Digest(x) = [i \in 1 .. DigestSize |-> <<x, i>>]
  BY DEF Digest
<1>3. Digest(x) \in [1 .. DigestSize -> T]
  BY <1>2
<1>. QED
  BY <1>1, <1>2, <1>3

-----------------------------------------------------------------------------
(* HMAC.                                                                    *)

LEMMA KeyBlockIs ==
  ASSUME NEW S, Seq(Int) \subseteq S, NEW key \in Seq(S), Countable(Sha256, Len(key))
  PROVE  KeyBlock(key) = RefKeyBlock(key)
<1>. DEFINE b == Sha256.block
            k == IF LongKey(key) THEN Sha256Of(key) ELSE key
            T == S \cup {<<RefState(Sha256, key), i>> : i \in 1 .. DigestSize}
            f == Fill(b - Len(k))
<1>1. b \in Nat /\ DigestSize <= b /\ DigestSize \in Nat
  BY Hashes
<1>2. k = IF Len(key) <= b THEN key ELSE RefHash(key)
  <2>1. Len(key) \in Nat
    OBVIOUS
  <2>. QED
    BY <1>1, <2>1, HashOf DEF LongKey
<1>3. k \in Seq(T) /\ Len(k) \in 0 .. b
  <2>1. key \in Seq(T) /\ Len(key) \in Nat
    OBVIOUS
  <2>2. RefHash(key) \in Seq(T) /\ Len(RefHash(key)) = DigestSize
    <3>1. \A i \in 1 .. DigestSize : <<RefState(Sha256, key), i>> \in T
      OBVIOUS
    <3>. HIDE DEF T
    <3>. QED
      BY <3>1, DigestIs DEF RefHash
  <2>. HIDE DEF k, T, b
  <2>. QED
    BY <1>1, <1>2, <2>1, <2>2
<1>4. KeyBlock(key) = k \o f
  BY DEF KeyBlock
<1>5. RefKeyBlock(key) = [i \in 1 .. b |-> IF i <= Len(k) THEN k[i] ELSE Zero]
  BY <1>2 DEF RefKeyBlock
<1>. HIDE DEF k
<1>6. f \in Seq(T) /\ Len(f) = b - Len(k) /\ \A i \in 1 .. b - Len(k) : f[i] = Zero
  <2>1. Seq(Int) \subseteq T /\ b - Len(k) \in Nat
    BY <1>1, <1>3
  <2>2. \A i \in 1 .. b - Len(k) : f[i] = Zero
    BY DEF Fill
  <2>. HIDE DEF T
  <2>. QED
    BY <2>1, <2>2, FillIs
<1>. HIDE DEF T, b, f
<1>7. /\ k \o f \in Seq(T) /\ Len(k \o f) = b
      /\ \A i \in 1 .. Len(k) : (k \o f)[i] = k[i]
      /\ \A i \in 1 .. b - Len(k) : (k \o f)[Len(k) + i] = f[i]
  BY <1>1, <1>3, <1>6
<1>8. ASSUME NEW i \in 1 .. b
      PROVE  (k \o f)[i] = IF i <= Len(k) THEN k[i] ELSE Zero
  <2>1. CASE i <= Len(k)
    BY <2>1, <1>3, <1>7
  <2>2. CASE ~(i <= Len(k))
    <3>. DEFINE u == i - Len(k)
    <3>1. u \in 1 .. b - Len(k) /\ i = Len(k) + u
      BY <2>2, <1>1, <1>3
    <3>. HIDE DEF u
    <3>2. (k \o f)[Len(k) + u] = Zero
      BY <3>1, <1>6, <1>7
    <3>. QED
      BY <2>2, <3>1, <3>2
  <2>. QED
    BY <2>1, <2>2
<1>9. k \o f = [i \in 1 .. b |-> (k \o f)[i]]
  <2>. DEFINE v == k \o f
  <2>1. v \in Seq(T) /\ Len(v) = b
    BY <1>7
  <2>. HIDE DEF v
  <2>2. v = [i \in 1 .. b |-> v[i]]
    BY <2>1
  <2>. QED
    BY <2>2 DEF v
<1>10. k \o f = [i \in 1 .. b |-> IF i <= Len(k) THEN k[i] ELSE Zero]
  BY <1>8, <1>9
<1>. QED
  BY <1>4, <1>5, <1>10

\* The bytes of both masked keys, and of data
MaskedBytes(key) ==
  Seq(Int) \cup {Masked(key, m)[i] : m \in {"ipad", "opad"}, i \in 1 .. Sha256.block}

LEMMA MaskedIs ==
  ASSUME NEW key, NEW m \in {"ipad", "opad"}, NEW S, MaskedBytes(key) \subseteq S
  PROVE  Masked(key, m) \in Seq(S) /\ Len(Masked(key, m)) = Sha256.block
<1>. DEFINE x == Masked(key, m)
            b == Sha256.block
<1>1. b \in Nat
  BY Hashes
<1>2. x = [i \in 1 .. b |-> <<"xor", KeyBlock(key)[i], m>>]
  BY DEF Masked
<1>3. \A i \in 1 .. b : x[i] \in S
  BY DEF MaskedBytes
<1>. HIDE DEF x, b
<1>4. x \in [1 .. b -> S]
  BY <1>2, <1>3
<1>5. x \in Seq(S) /\ Len(x) = b
  BY <1>1, <1>4
<1>. QED
  BY <1>5 DEF x, b

LEMMA RefMacIs ==
  ASSUME NEW S, Seq(Int) \subseteq S, NEW key \in Seq(S), Countable(Sha256, Len(key)), NEW s
  PROVE  RefMac(key, s) = RefHash(Masked(key, "opad") \o RefHash(Masked(key, "ipad") \o s))
<1>1. KeyBlock(key) = RefKeyBlock(key)
  BY KeyBlockIs
<1>. QED
  BY <1>1, Zenon DEF RefMac, Masked

\* A finished HMAC is that of the message.
LEMMA HmacIs ==
  ASSUME NEW key, NEW inner, NEW o, NEW s \in Seq(Seq(Int)),
         HasTaken(Sha256, inner, Masked(key, "ipad") \o s),
         HasTaken(Sha256, o, Masked(key, "opad")),
         Countable(Sha256, Sha256.block + Len(s)),
         Countable(Sha256, Sha256.block + DigestSize)
  PROVE  HmacFinal(inner, o) =
           RefHash(Masked(key, "opad") \o RefHash(Masked(key, "ipad") \o s))
<1>. DEFINE S == MaskedBytes(key)
            b == Sha256.block
            x == Masked(key, "ipad") \o s
            d == RefHash(x)
            T == S \cup {<<RefState(Sha256, x), i>> : i \in 1 .. DigestSize}
            y == Masked(key, "opad")
<1>1. /\ Masked(key, "ipad") \in Seq(S) /\ Len(Masked(key, "ipad")) = b
      /\ y \in Seq(T) /\ Len(y) = b
  BY MaskedIs
<1>2. Seq(Int) \subseteq S /\ Seq(Int) \subseteq T /\ s \in Seq(S)
  BY DEF MaskedBytes
<1>3. x \in Seq(S) /\ Len(x) = b + Len(s)
  <2>. HIDE DEF S
  <2>. QED
    BY <1>1, <1>2
<1>4. HashFinal(Sha256, inner) = RefState(Sha256, x)
  <2>1. HasTaken(Sha256, inner, x) /\ Countable(Sha256, Len(x))
    BY <1>3
  <2>. HIDE DEF S, x
  <2>. QED
    BY <1>2, <1>3, <2>1, Hashes, FinalIs
<1>5. d \in Seq(T) /\ Len(d) = DigestSize
  <2>1. \A i \in 1 .. DigestSize : <<RefState(Sha256, x), i>> \in T
    OBVIOUS
  <2>. HIDE DEF T, x
  <2>. QED
    BY <2>1, DigestIs DEF RefHash
<1>6. d = Digest(HashFinal(Sha256, inner))
  BY <1>4 DEF RefHash
<1>. HIDE DEF S, T, x, d, y, b
<1>7. HasTaken(Sha256, HashUpdate(Sha256, o, d), y \o d)
  <2>1. HasTaken(Sha256, o, y)
    BY DEF y
  <2>. QED
    BY <1>1, <1>5, <2>1, Hashes, UpdateTakes
<1>8. y \o d \in Seq(T) /\ Len(y \o d) = b + DigestSize
  BY <1>1, <1>5
<1>9. HashFinal(Sha256, HashUpdate(Sha256, o, d)) = RefState(Sha256, y \o d)
  <2>. DEFINE yd == y \o d
  <2>1. yd \in Seq(T) /\ HasTaken(Sha256, HashUpdate(Sha256, o, d), yd) /\ Countable(Sha256, Len(yd))
    BY <1>7, <1>8 DEF b
  <2>. HIDE DEF yd
  <2>. QED
    BY <1>2, <2>1, Hashes, FinalIs DEF yd
<1>10. HmacFinal(inner, o) = RefHash(y \o d)
  BY <1>6, <1>9 DEF HmacFinal, RefHash
<1>. QED
  BY <1>10 DEF y, d, x

-----------------------------------------------------------------------------
(* The initial states.                                                      *)

LEMMA JobIs ==
  ASSUME NEW j \in Jobs
  PROVE  /\ j.kind \in {"digest", "mac", "derive", "ctr", "base64"}
         /\ j.kind = "digest" => j.algo \in {Sha256, Sha512}
         /\ j.kind = "mac" => j.key \in MacKeyLens
         /\ j.kind = "derive" => j.secrets \in Secrets /\ j.len \in KeyLens
         /\ j.kind = "ctr" => j.iv \in Iv
BY DEF Jobs

LEMMA AlgoIs ==
  ASSUME Kinds
  PROVE  IsHash(Algo) /\ (job.kind = "digest" => Algo = job.algo)
                      /\ (job.kind # "digest" => Algo = Sha256)
BY JobIs, Hashes DEF Kinds, Algo

LEMMA Empty ==
  Message(0) = <<>> /\ IsSequence(<<>>)
<1>1. Data(0, 0) \in Seq(Seq(Int)) /\ Len(Data(0, 0)) = 0
  BY DataIs
<1>2. <<>> \in Seq({<<>>[i] : i \in DOMAIN <<>>})
  OBVIOUS
<1>. QED
  BY <1>1, <1>2 DEF Message, IsSequence

LEMMA HmacStarts ==
  ASSUME NEW key, NEW m \in {"ipad", "opad"}
  PROVE  HasTaken(Sha256, HmacInit(key, m), Masked(key, m))
<1>. DEFINE S == MaskedBytes(key)
<1>1. Masked(key, m) \in Seq(S)
  BY MaskedIs
<1>. QED
  BY <1>1, Hashes, OnePiece DEF HmacInit

LEMMA InitContexts ==
  ASSUME Init, Kinds
  PROVE  Contexts
<1>1. IsHash(Algo) /\ IsHash(Sha256)
  BY AlgoIs, Hashes
<1>2. HasTaken(Algo, HashInit(Algo), <<>>)
  BY <1>1, InitTakes
<1>3. CASE job.kind = "mac"
  <2>. DEFINE key == MacKey(job.key)
              x == Masked(key, "ipad")
              y == Masked(key, "opad")
              S == MaskedBytes(key)
  <2>1. ctx = HmacInit(key, "ipad") /\ outer = HmacInit(key, "opad") /\ fed = 0
    BY <1>3 DEF Init
  <2>2. HasTaken(Sha256, ctx, x) /\ HasTaken(Sha256, outer, y)
    BY <2>1, HmacStarts
  <2>3. x \in Seq(S) /\ y \in Seq(S)
    BY MaskedIs
  <2>4. x \o Message(fed) = x
    <3>. HIDE DEF x, S
    <3>1. x \o <<>> = x
      BY <2>3
    <3>. QED
      BY <2>1, <3>1, Empty
  <2>5. Sized(Sha256, ctx) /\ Sized(Sha256, outer)
    <3>. HIDE DEF x, y, S
    <3>. QED
      BY <1>1, <2>2, <2>3, TakenSized
  <2>6. Algo = Sha256
    BY <1>3 DEF Algo
  <2>. QED
    BY <1>3, <2>2, <2>4, <2>5, <2>6 DEF Contexts
<1>4. CASE job.kind # "mac"
  <2>1. ctx = HashInit(Algo) /\ outer = ctx /\ fed = 0
    BY <1>4 DEF Init
  <2>2. Sized(Algo, ctx) /\ Sized(Algo, outer)
    <3>1. <<>> \in Seq(Int)
      OBVIOUS
    <3>. QED
      BY <1>1, <1>2, <2>1, <3>1, TakenSized
  <2>3. job.kind = "digest" => HasTaken(job.algo, ctx, Message(fed))
    BY <1>2, <2>1, Empty DEF Algo
  <2>. QED
    BY <1>4, <2>2, <2>3 DEF Contexts
<1>. QED
  BY <1>3, <1>4

LEMMA PlaceOfStart ==
  ASSUME NEW iv \in Iv
  PROVE  Place(iv, 0) = iv
<1>. DEFINE C == CtrBase
            h == iv[1]
            l == iv[2]
<1>1. C \in Nat \ {0, 1} /\ h \in 0 .. C - 1 /\ l \in 0 .. C - 1 /\ iv = <<h, l>>
  BY StreamsAssumption DEF Iv
<1>2. Place(iv, 0) = <<((h * C + l + 0) % (C * C)) \div C, ((h * C + l + 0) % (C * C)) % C>>
  BY DEF Place
<1>. HIDE DEF C, h, l
<1>3. (h * C + l) \div C = h /\ (h * C + l) % C = l
  BY <1>1, Quotient, SMTT(30)
<1>4. h * C + l \in 0 .. C * C - 1
  <2>1. (C - 1 - h) * C \in Nat /\ h * C \in Nat
    BY <1>1
  <2>2. h * C + (C - 1 - h) * C = C * C - C
    BY <1>1
  <2>3. C * C \in Nat
    BY <1>1
  <2>. QED
    BY <1>1, <2>1, <2>2, <2>3
<1>5. (h * C + l + 0) % (C * C) = h * C + l
  <2>. DEFINE n == h * C + l
              m == C * C
  <2>1. n \in 0 .. m - 1 /\ m \in Nat \ {0} /\ n + 0 = n
    BY <1>1, <1>4
  <2>. HIDE DEF n, m
  <2>2. (0 * m + n) % m = n
    BY <2>1, Quotient
  <2>3. n % m = n
    BY <2>1, <2>2
  <2>. QED
    BY <2>1, <2>3 DEF n, m
<1>. QED
  BY <1>1, <1>2, <1>3, <1>5

LEMMA InitHolds ==
  ASSUME Init
  PROVE  StreamsInv
<1>1. /\ job \in Jobs /\ fed = 0 /\ out = <<>> /\ pc = "ready"
      /\ ctr.offset = 0 /\ ctr.left = 0
      /\ DOMAIN ctr = {"nonce", "stream", "offset", "left"}
      /\ job.kind = "ctr" => ctr.nonce = job.iv
  BY DEF Init
<1>2. Kinds
  BY <1>1, Hashes DEF Kinds
<1>3. Contexts
  BY <1>2, InitContexts
<1>4. Rounds
  BY <1>1, Empty DEF Rounds, KeyOfRfc4253
<1>5. Position
  <2>. SUFFICES ASSUME job.kind = "ctr" PROVE Position
    BY DEF Position
  <2>1. ctr.nonce = Place(job.iv, 0)
    BY <1>1, JobIs, PlaceOfStart
  <2>2. Len(out) = 0 /\ 0 \div AES_BLOCK_SIZE = 0 /\ 0 % AES_BLOCK_SIZE = 0
    <3>. DEFINE b == AES_BLOCK_SIZE
    <3>1. b \in Nat \ {0}
      BY StreamsAssumption
    <3>. HIDE DEF b
    <3>2. (0 * b + 0) \div b = 0 /\ (0 * b + 0) % b = 0
      BY <3>1, Quotient
    <3>3. 0 \div b = 0 /\ 0 % b = 0
      BY <3>1, <3>2
    <3>. QED
      BY <1>1, <3>3 DEF b
  <2>3. DOMAIN out = {}
    BY <1>1
  <2>. QED
    BY <1>1, <2>1, <2>2, <2>3, Empty DEF Position
<1>6. Results
  BY <1>1 DEF Results, MacOfWhole
<1>. QED
  BY <1>2, <1>3, <1>4, <1>5, <1>6 DEF StreamsInv

-----------------------------------------------------------------------------
(* Digests and MACs.                                                        *)

LEMMA MessageIs ==
  ASSUME NEW S, Seq(Int) \subseteq S, NEW n \in Nat
  PROVE  Message(n) \in Seq(S) /\ Len(Message(n)) = n
BY DataIs DEF Message

LEMMA UpdateKeeps ==
  ASSUME StreamsInv, NEW n \in 1 .. MaxLen, Update(n)
  PROVE  StreamsInv'
<1>. DEFINE s == Data(fed, n)
<1>1. /\ pc = "ready" /\ pc' = pc /\ job' = job /\ out' = out /\ outer' = outer
      /\ job.kind \in {"digest", "mac"} /\ fed' = fed + n /\ fed + n <= MaxLen
      /\ ctx' = HashUpdate(Algo, ctx, s) /\ Algo' = Algo
  BY DEF Update, Algo
<1>2. Kinds /\ Contexts /\ fed \in Nat /\ n \in Nat /\ MaxLen \in Nat
  BY Hashes DEF StreamsInv, Kinds
<1>3. Kinds'
  BY <1>1, <1>2 DEF Kinds
<1>4. Message(fed) \o s = Message(fed')
  BY <1>1, <1>2, DataAdds
<1>. HIDE DEF s
<1>5. Contexts'
  <2>1. CASE job.kind = "digest"
    <3>. DEFINE S == Seq(Int)
                m == Message(fed)
                a == job.algo
    <3>1. m \in Seq(S) /\ s \in Seq(S)
      BY <1>2, MessageIs, DataIs DEF s
    <3>2. HasTaken(a, ctx, m) /\ IsHash(a) /\ Algo = a
      BY <1>2, <2>1, AlgoIs DEF Contexts
    <3>3. m \o s \in Seq(S)
      BY <3>1
    <3>. HIDE DEF S, m, a
    <3>4. HasTaken(a, ctx', m \o s)
      BY <1>1, <3>1, <3>2, UpdateTakes
    <3>5. Sized(a, ctx')
      BY <3>2, <3>3, <3>4, TakenSized
    <3>. QED
      BY <1>1, <1>2, <1>4, <2>1, <3>2, <3>4, <3>5 DEF Contexts, m, a
  <2>2. CASE job.kind = "mac"
    <3>. DEFINE key == MacKey(job.key)
                S == MaskedBytes(key)
                x == Masked(key, "ipad")
                m == Message(fed)
                xm == x \o m
    <3>1. Seq(Int) \subseteq S
      BY DEF MaskedBytes
    <3>2. x \in Seq(S) /\ m \in Seq(S) /\ s \in Seq(S)
      <4>1. x \in Seq(S)
        BY MaskedIs
      <4>. HIDE DEF S
      <4>2. m \in Seq(S) /\ s \in Seq(S)
        BY <1>2, <3>1, MessageIs, DataIs DEF s
      <4>. QED
        BY <4>1, <4>2
    <3>3. HasTaken(Sha256, ctx, xm) /\ Algo = Sha256
      BY <1>2, <2>2, AlgoIs DEF Contexts
    <3>. HIDE DEF S, x, m
    <3>4. xm \in Seq(S) /\ xm \o s = x \o (m \o s)
      BY <3>2
    <3>5. x \o (m \o s) = x \o Message(fed')
      BY <1>4 DEF m
    <3>. HIDE DEF xm
    <3>6. HasTaken(Sha256, ctx', xm \o s)
      BY <1>1, <3>2, <3>3, <3>4, Hashes, UpdateTakes
    <3>7. xm \o s \in Seq(S)
      BY <3>2, <3>4
    <3>8. Sized(Sha256, ctx')
      BY <3>6, <3>7, Hashes, TakenSized
    <3>9. HasTaken(Sha256, ctx', x \o Message(fed'))
      BY <3>4, <3>5, <3>6
    <3>. QED
      BY <1>1, <1>2, <2>2, <3>3, <3>8, <3>9 DEF Contexts, x
  <2>. QED
    BY <1>1, <2>1, <2>2
<1>6. Rounds' /\ Position' /\ Results'
  BY <1>1 DEF Rounds, Position, Results, MacOfWhole
<1>. QED
  BY <1>3, <1>5, <1>6 DEF StreamsInv

LEMMA FinalKeeps ==
  ASSUME StreamsInv, Final
  PROVE  StreamsInv'
<1>1. /\ pc = "ready" /\ pc' = "done" /\ job' = job /\ fed' = fed
      /\ ctx' = ctx /\ outer' = outer /\ job.kind \in {"digest", "mac"}
      /\ Algo' = Algo
      /\ out' = IF job.kind = "digest" THEN Digest(HashFinal(Algo, ctx)) ELSE HmacFinal(ctx, outer)
  BY DEF Final, Algo
<1>2. Kinds /\ Contexts /\ fed \in 0 .. MaxLen /\ MaxLen \in Nat /\ fed \in Nat
  BY Hashes DEF StreamsInv, Kinds
<1>3. Kinds'
  BY <1>1, <1>2 DEF Kinds
<1>4. Contexts'
  BY <1>1, <1>2 DEF Contexts
<1>5. CASE job.kind = "digest"
  <2>. DEFINE S == Seq(Int)
              m == Message(fed)
              a == job.algo
  <2>1. m \in Seq(S) /\ Len(m) = fed
    BY <1>2, MessageIs
  <2>2. HasTaken(a, ctx, m) /\ IsHash(a) /\ Algo = a /\ a \in {Sha256, Sha512}
    BY <1>2, <1>5, AlgoIs, JobIs DEF Contexts, Kinds
  <2>3. Countable(a, fed)
    <3>1. Countable(Sha256, Sha256.block + MaxLen) /\ Countable(Sha512, MaxLen)
      BY StreamsAssumption
    <3>2. /\ Sha256.block + MaxLen \in Nat /\ fed <= Sha256.block + MaxLen
          /\ fed <= MaxLen
      BY <1>2, Hashes
    <3>3. Countable(Sha256, fed) /\ Countable(Sha512, fed)
      BY <1>2, <3>1, <3>2, Hashes, Fewer
    <3>. QED
      BY <2>2, <3>3
  <2>. HIDE DEF S, m, a
  <2>4. HashFinal(a, ctx) = RefState(a, m)
    BY <2>1, <2>2, <2>3, FinalIs DEF S
  <2>5. out' = Digest(RefState(job.algo, Message(fed)))
    BY <1>1, <1>5, <2>2, <2>4 DEF m, a
  <2>6. Results'
    BY <1>1, <1>5, <2>5 DEF Results, MacOfWhole
  <2>7. Rounds' /\ Position'
    BY <1>1, <1>5 DEF Rounds, Position
  <2>. QED
    BY <1>3, <1>4, <2>6, <2>7 DEF StreamsInv
<1>6. CASE job.kind = "mac"
  <2>. DEFINE key == MacKey(job.key)
              m == Message(fed)
  <2>1. m \in Seq(Seq(Int)) /\ Len(m) = fed
    BY <1>2, MessageIs
  <2>2. /\ HasTaken(Sha256, ctx, Masked(key, "ipad") \o m)
        /\ HasTaken(Sha256, outer, Masked(key, "opad"))
    BY <1>2, <1>6 DEF Contexts
  <2>3. job.key \in MacKeyLens /\ job.key \in Nat /\ Countable(Sha256, job.key)
    BY <1>2, <1>6, JobIs, StreamsAssumption DEF Kinds
  <2>4. key \in Seq(Seq(Int)) /\ Len(key) = job.key
    <3>. DEFINE n == job.key
    <3>1. n \in Nat /\ 200 \in Int /\ Seq(Int) \subseteq Seq(Int)
      BY <2>3
    <3>. HIDE DEF n
    <3>2. Data(200, n) \in Seq(Seq(Int)) /\ Len(Data(200, n)) = n
      BY <3>1, DataIs
    <3>. QED
      BY <3>2 DEF MacKey, n
  <2>5. /\ Countable(Sha256, Sha256.block + fed)
        /\ Countable(Sha256, Sha256.block + DigestSize)
    <3>1. /\ Countable(Sha256, Sha256.block + MaxLen)
          /\ Countable(Sha256, Sha256.block + DigestSize)
      BY StreamsAssumption
    <3>2. /\ Sha256.block + MaxLen \in Nat /\ Sha256.block + fed \in Nat
          /\ Sha256.block + fed <= Sha256.block + MaxLen
      BY <1>2, Hashes
    <3>. QED
      BY <3>1, <3>2, Hashes, Fewer
  <2>. HIDE DEF key, m
  <2>6. HmacFinal(ctx, outer) =
          RefHash(Masked(key, "opad") \o RefHash(Masked(key, "ipad") \o m))
    BY <2>1, <2>2, <2>5, HmacIs
  <2>7. RefMac(key, m) = RefHash(Masked(key, "opad") \o RefHash(Masked(key, "ipad") \o m))
    BY <2>3, <2>4, RefMacIs
  <2>8. out' = RefMac(MacKey(job.key), Message(fed))
    BY <1>1, <1>6, <2>6, <2>7 DEF key, m
  <2>9. Results'
    BY <1>1, <1>6, <2>8 DEF Results, MacOfWhole
  <2>10. Rounds' /\ Position'
    BY <1>1, <1>6 DEF Rounds, Position
  <2>. QED
    BY <1>3, <1>4, <2>9, <2>10 DEF StreamsInv
<1>. QED
  BY <1>1, <1>5, <1>6

LEMMA Base64Job ==
  ASSUME NEW j \in Jobs, j.kind = "base64"
  PROVE  DOMAIN j = {"kind", "of", "text"}
<1>1. \/ \E a \in {Sha256, Sha512} : j = [kind |-> "digest", algo |-> a]
      \/ \E n \in MacKeyLens : j = [kind |-> "mac", key |-> n]
      \/ \E s \in Secrets, n \in KeyLens : j = [kind |-> "derive", secrets |-> s, len |-> n]
      \/ \E iv \in Iv : j = [kind |-> "ctr", iv |-> iv]
      \/ \E t \in Texts : j = [kind |-> "base64", of |-> t, text |-> <<>>]
  BY DEF Jobs
<1>. QED
  BY <1>1

LEMMA OthersKeep ==
  ASSUME StreamsInv, EncodeCall \/ Edit \/ DecodeCall
  PROVE  StreamsInv'
<1>1. /\ job.kind = "base64" /\ job'.kind = "base64" /\ fed' = fed
      /\ ctx' = ctx /\ outer' = outer /\ pc' \in {"failed", "text", "edited", "done"}
      /\ Kinds /\ Contexts /\ DOMAIN job' = {"kind", "of", "text"}
  <2>1. Kinds /\ Contexts /\ job.kind = "base64"
    BY DEF StreamsInv, Kinds, EncodeCall, Edit, DecodeCall
  <2>2. DOMAIN job = {"kind", "of", "text"}
    BY <2>1, Base64Job DEF Kinds
  <2>3. fed' = fed /\ ctx' = ctx /\ outer' = outer /\ pc' \in {"failed", "text", "edited", "done"}
    BY DEF EncodeCall, Edit, DecodeCall
  <2>4. job' = job \/ \E t : job' = [job EXCEPT !.text = t]
    BY DEF EncodeCall, Edit, DecodeCall
  <2>5. DOMAIN job' = {"kind", "of", "text"} /\ job'.kind = job.kind
    BY <2>2, <2>4
  <2>. QED
    BY <2>1, <2>3, <2>5
<1>2. Algo' = Algo
  BY <1>1 DEF Algo
<1>3. Kinds' /\ Contexts'
  BY <1>1, <1>2 DEF Kinds, Contexts
<1>4. Rounds' /\ Position' /\ Results'
  BY <1>1 DEF Rounds, Position, Results, MacOfWhole
<1>. QED
  BY <1>3, <1>4 DEF StreamsInv

-----------------------------------------------------------------------------
(* Keys.                                                                    *)

LEMMA SecretsAre ==
  ASSUME Kinds, job.kind = "derive"
  PROVE  /\ K \in Seq(Seq(Int)) /\ H \in Seq(Seq(Int)) /\ SessionId \in Seq(Seq(Int))
         /\ Letter \in Seq(Seq(Int)) /\ Len(Letter) = 1
         /\ job.len \in Nat
         /\ \A n \in 0 .. job.len : Countable(Sha256, Len(K) + Len(H) + 1 + Len(SessionId) + n)
         /\ \A n \in 0 .. job.len : Countable(Sha256, Len(K) + Len(H) + n)
<1>. DEFINE k == job.secrets.k
            h == job.secrets.h
            sid == job.secrets.sid
            len == job.len
<1>1. job.secrets \in Secrets /\ len \in KeyLens
  BY JobIs DEF Kinds
<1>2. k \in Nat /\ h \in Nat /\ sid \in Nat /\ len \in Nat
  BY <1>1, StreamsAssumption
<1>3. Countable(Sha256, k + h + 1 + sid + len)
  BY <1>1, StreamsAssumption
<1>4. K = Data(300, k) /\ H = Data(400, h) /\ SessionId = Data(600, sid)
  BY DEF K, H, SessionId
<1>. HIDE DEF k, h, sid, len
<1>5. \A x \in Int, n \in Nat : Data(x, n) \in Seq(Seq(Int)) /\ Len(Data(x, n)) = n
  BY DataIs
<1>6. /\ K \in Seq(Seq(Int)) /\ H \in Seq(Seq(Int)) /\ SessionId \in Seq(Seq(Int))
      /\ Len(K) = k /\ Len(H) = h /\ Len(SessionId) = sid
  BY <1>2, <1>4, <1>5
<1>7. Letter \in Seq(Seq(Int)) /\ Len(Letter) = 1
  <2>1. <<500>> \in Seq(Int)
    OBVIOUS
  <2>. QED
    BY <2>1 DEF Letter
<1>8. ASSUME NEW n \in 0 .. len
      PROVE  Countable(Sha256, k + h + 1 + sid + n) /\ Countable(Sha256, k + h + n)
  <2>1. /\ k + h + 1 + sid + len \in Nat /\ k + h + 1 + sid + n \in Nat /\ k + h + n \in Nat
        /\ k + h + 1 + sid + n <= k + h + 1 + sid + len
        /\ k + h + n <= k + h + 1 + sid + len
    BY <1>2
  <2>. QED
    BY <1>3, <2>1, Hashes, Fewer
<1>. QED
  BY <1>2, <1>6, <1>7, <1>8 DEF len

LEMMA HashedTwo ==
  ASSUME NEW S, NEW s \in Seq(S), NEW t \in Seq(S)
  PROVE  HasTaken(Sha256, Hashed2(s, t), s \o t)
<1>1. HasTaken(Sha256, HashUpdate(Sha256, HashInit(Sha256), s), s)
  BY Hashes, OnePiece
<1>. QED
  BY <1>1, Hashes, UpdateTakes DEF Hashed2

\* v is s with t after it.
Continues(v, s, t) ==
  /\ IsSequence(v) /\ Len(v) = Len(s) + Len(t)
  /\ \A i \in 1 .. Len(s) : v[i] = s[i]
  /\ \A i \in 1 .. Len(t) : v[Len(s) + i] = t[i]

LEMMA Appended ==
  ASSUME NEW s, IsSequence(s), NEW T, NEW t \in Seq(T)
  PROVE  Continues(s \o t, s, t)
<1>. DEFINE S == {s[i] : i \in DOMAIN s} \cup T
            v == s \o t
<1>1. s \in Seq({s[i] : i \in DOMAIN s})
  BY DEF IsSequence
<1>2. s \in Seq(S) /\ t \in Seq(S)
  BY <1>1
<1>. HIDE DEF S
<1>3. v \in Seq(S)
  BY <1>2
<1>4. /\ Len(v) = Len(s) + Len(t)
      /\ \A i \in 1 .. Len(s) : v[i] = s[i]
      /\ \A i \in 1 .. Len(t) : v[Len(s) + i] = t[i]
  BY <1>2, Join
<1>. HIDE DEF v
<1>5. v \in Seq({v[i] : i \in DOMAIN v})
  BY <1>3
<1>. QED
  BY <1>4, <1>5 DEF v, IsSequence, Continues

\* A round appends the start of its digest.
LEMMA ExtendedIs ==
  ASSUME NEW key, IsSequence(key), NEW c, NEW x, Digest(HashFinal(Sha256, c)) = RefHash(x),
         job.len \in Nat, Len(key) < job.len
  PROVE  LET new == Extended(key, c)
             left == job.len - Len(key)
             take == IF left <= DigestSize THEN left ELSE DigestSize
         IN /\ IsSequence(new) /\ Len(new) = Len(key) + take
            /\ \A i \in 1 .. Len(key) : new[i] = key[i]
            /\ \A i \in 1 .. take : new[Len(key) + i] = RefHash(x)[i]
<1>. DEFINE new == Extended(key, c)
            left == job.len - Len(key)
            D == DigestSize
            take == IF left <= D THEN left ELSE D
            d == RefHash(x)
            T == {<<RefState(Sha256, x), i>> : i \in 1 .. D}
            piece == SubSeq(d, 1, take)
<1>1. D \in Nat
  BY Hashes
<1>2. Len(key) \in Nat
  BY DEF IsSequence
<1>3. d \in Seq(T) /\ Len(d) = D
  <2>1. \A i \in 1 .. DigestSize : <<RefState(Sha256, x), i>> \in T
    OBVIOUS
  <2>. HIDE DEF T
  <2>. QED
    BY <2>1, DigestIs DEF RefHash
<1>. HIDE DEF T
<1>4. left \in Nat \ {0} /\ take \in 0 .. D /\ take \in Nat
  BY <1>1, <1>2
<1>5. Min({left, D}) = take
  BY <1>1, <1>4, MinOfTwo
<1>6. new = key \o piece
  BY <1>5 DEF Extended
<1>. HIDE DEF d, D, take, left
<1>7. piece \in Seq(T) /\ Len(piece) = take /\ \A i \in 1 .. take : piece[i] = d[i]
  <2>1. take \in Nat /\ 0 + take <= Len(d) /\ 0 \in Nat
    BY <1>1, <1>3, <1>4
  <2>2. /\ SubSeq(d, 0 + 1, 0 + take) \in Seq(T) /\ Len(SubSeq(d, 0 + 1, 0 + take)) = take
        /\ \A j \in 1 .. take : SubSeq(d, 0 + 1, 0 + take)[j] = d[0 + j]
    BY <1>3, <2>1, Piece
  <2>3. 0 + take = take /\ 0 + 1 = 1
    BY <1>4
  <2>4. \A j \in 1 .. take : 0 + j = j
    OBVIOUS
  <2>. QED
    BY <2>2, <2>3, <2>4
<1>. HIDE DEF piece
<1>8. /\ IsSequence(new) /\ Len(new) = Len(key) + take
      /\ \A i \in 1 .. Len(key) : new[i] = key[i]
      /\ \A i \in 1 .. take : new[Len(key) + i] = piece[i]
  <2>1. Continues(key \o piece, key, piece)
    BY <1>7, Appended, Zenon
  <2>. HIDE DEF new
  <2>2. Continues(new, key, piece) /\ Len(piece) = take
    BY <1>6, <1>7, <2>1
  <2>. QED
    BY <2>2 DEF Continues
<1>. HIDE DEF new
<1>9. \A i \in 1 .. take : new[Len(key) + i] = d[i]
  BY <1>7, <1>8
<1>. QED
  BY <1>8, <1>9, Zenon DEF new, take, left, D, d

LEMMA SameStart ==
  ASSUME NEW s, IsSequence(s), NEW t, IsSequence(t), NEW n \in Nat, n <= Len(s), n <= Len(t),
         \A i \in 1 .. n : t[i] = s[i]
  PROVE  /\ SubSeq(t, 1, n) = SubSeq(s, 1, n)
         /\ n = Len(s) => SubSeq(s, 1, n) = s
<1>. DEFINE T == {s[i] : i \in DOMAIN s} \cup {t[i] : i \in DOMAIN t}
<1>1. s \in Seq(T) /\ t \in Seq(T)
  <2>1. s \in Seq({s[i] : i \in DOMAIN s}) /\ t \in Seq({t[i] : i \in DOMAIN t})
    BY DEF IsSequence
  <2>. QED
    BY <2>1
<1>. HIDE DEF T
<1>. DEFINE x == SubSeq(s, 1, n)
            y == SubSeq(t, 1, n)
<1>2. /\ x \in Seq(T) /\ Len(x) = n /\ \A i \in 1 .. n : x[i] = s[i]
      /\ y \in Seq(T) /\ Len(y) = n /\ \A i \in 1 .. n : y[i] = t[i]
  BY <1>1
<1>. HIDE DEF x, y
<1>3. \A i \in 1 .. n : y[i] = x[i]
  BY <1>2
<1>4. y = x
  BY <1>2, <1>3, SeqEqual
<1>5. ASSUME n = Len(s)
      PROVE  x = s
  <2>1. Len(x) = Len(s) /\ \A i \in 1 .. Len(x) : x[i] = s[i]
    BY <1>2, <1>5
  <2>. QED
    BY <1>1, <1>2, <2>1, SeqEqual
<1>. QED
  BY <1>4, <1>5 DEF x, y

\* What RFC 4253 says of byte i of a key
KeyByte(key, i) ==
  LET before == ((i - 1) \div DigestSize) * DigestSize
      said == IF before = 0 THEN Letter \o SessionId ELSE SubSeq(key, 1, before)
  IN key[i] = RefHash(K \o H \o said)[i - before]

\* The digest that comes after a number of whole ones.
LEMMA NextDigest ==
  ASSUME NEW q \in Nat, NEW D \in Nat \ {0}, NEW j \in 1 .. D
  PROVE  ((q * D + j - 1) \div D) * D = q * D
<1>1. j - 1 \in 0 .. D - 1
  OBVIOUS
<1>2. (q * D + (j - 1)) \div D = q
  BY <1>1, Quotient
<1>3. q * D + j - 1 = q * D + (j - 1)
  OBVIOUS
<1>. QED
  BY <1>2, <1>3

LEMMA DigestBefore ==
  ASSUME NEW i \in Nat \ {0}, NEW D \in Nat \ {0}
  PROVE  ((i - 1) \div D) * D \in 0 .. i - 1
<1>. DEFINE n == i - 1
            u == n \div D
            r == n % D
<1>1. n \in Nat
  OBVIOUS
<1>2. n = u * D + r /\ u \in Nat /\ r \in 0 .. D - 1
  BY <1>1, Divide
<1>. HIDE DEF u, r
<1>3. u * D \in Nat /\ u * D + r = n
  BY <1>2
<1>4. u * D \in 0 .. n
  BY <1>1, <1>2, <1>3
<1>. QED
  BY <1>4 DEF u

\* A digest more keeps a key what it has to be.
LEMMA KeyBytes ==
  ASSUME NEW key, IsSequence(key), NEW q \in Nat, Len(key) = q * DigestSize,
         \A i \in 1 .. Len(key) : KeyByte(key, i),
         NEW d, d = RefHash(K \o H \o (IF Len(key) = 0 THEN Letter \o SessionId ELSE key)),
         NEW new, IsSequence(new), NEW take \in 1 .. DigestSize, Len(new) = Len(key) + take,
         \A i \in 1 .. Len(key) : new[i] = key[i],
         \A i \in 1 .. take : new[Len(key) + i] = d[i]
  PROVE  \A i \in 1 .. Len(new) : KeyByte(new, i)
<1>. DEFINE D == DigestSize
            L == Len(key)
<1>1. D \in Nat \ {0} /\ L \in Nat /\ take \in Nat /\ Len(new) = L + take
  <2>1. Len(key) \in Nat
    BY DEF IsSequence
  <2>. QED
    BY <2>1, Hashes
<1>2. ASSUME NEW n \in 0 .. L
      PROVE  SubSeq(new, 1, n) = SubSeq(key, 1, n) /\ (n = L => SubSeq(new, 1, n) = key)
  <2>1. n \in Nat /\ n <= Len(key) /\ n <= Len(new) /\ \A i \in 1 .. n : new[i] = key[i]
    BY <1>1
  <2>. QED
    BY <2>1, SameStart
<1>3. ASSUME NEW i \in 1 .. L
      PROVE  KeyByte(new, i)
  <2>. DEFINE before == ((i - 1) \div D) * D
  <2>1. i \in Nat \ {0}
    BY <1>1
  <2>2. before \in 0 .. i - 1
    BY <1>1, <2>1, DigestBefore
  <2>. HIDE DEF before
  <2>3. before \in 0 .. L
    BY <1>1, <2>1, <2>2
  <2>4. SubSeq(new, 1, before) = SubSeq(key, 1, before) /\ new[i] = key[i]
    BY <1>2, <2>3
  <2>5. KeyByte(key, i)
    OBVIOUS
  <2>. QED
    BY <2>4, <2>5, Zenon DEF KeyByte, before, D
<1>4. ASSUME NEW j \in 1 .. take
      PROVE  KeyByte(new, L + j)
  <2>. DEFINE i == L + j
              before == ((i - 1) \div D) * D
              s == IF before = 0 THEN Letter \o SessionId ELSE SubSeq(new, 1, before)
  <2>1. before = L
    <3>1. j \in 1 .. D /\ L = q * D
      BY <1>1
    <3>2. ((q * D + j - 1) \div D) * D = q * D
      BY <1>1, <3>1, NextDigest
    <3>. QED
      BY <3>1, <3>2
  <2>2. i - before = j
    BY <1>1, <2>1
  <2>. HIDE DEF before
  <2>3. SubSeq(new, 1, L) = key
    <3>1. L \in 0 .. L
      BY <1>1
    <3>. QED
      BY <1>2, <3>1
  <2>4. s = IF Len(key) = 0 THEN Letter \o SessionId ELSE key
    BY <2>1, <2>3
  <2>. HIDE DEF s
  <2>5. d = RefHash(K \o H \o s)
    BY <2>4
  <2>6. new[i] = RefHash(K \o H \o s)[i - before]
    BY <2>2, <2>5
  <2>. QED
    BY <2>6, Zenon DEF KeyByte, before, D, s
<1>5. ASSUME NEW i \in 1 .. Len(new)
      PROVE  KeyByte(new, i)
  <2>1. CASE i <= L
    <3>1. i \in 1 .. L
      BY <1>1, <2>1
    <3>. QED
      BY <1>3, <3>1
  <2>2. CASE ~(i <= L)
    <3>. DEFINE j == i - L
    <3>1. j \in 1 .. take /\ i = L + j
      BY <1>1, <2>2
    <3>. HIDE DEF j
    <3>. QED
      BY <1>4, <3>1
  <2>. QED
    BY <2>1, <2>2
<1>. QED
  BY <1>5

\* A key of whole digests with one more of them, or with part of one at its end.
LEMMA RoundKeeps ==
  ASSUME Kinds, job.kind = "derive", job' = job,
         IsSequence(out), Len(out) < job.len, KeyOfRfc4253,
         NEW q \in Nat, Len(out) = q * DigestSize,
         NEW said, said = IF Len(out) = 0 THEN Letter \o SessionId ELSE out,
         NEW c, Digest(HashFinal(Sha256, c)) = RefHash(K \o H \o said),
         out' = Extended(out, c), DerivedSome(out')
  PROVE  Rounds' /\ pc' \in {"more", "done"}
<1>. DEFINE D == DigestSize
            L == Len(out)
            N == job.len
            left == N - L
            take == IF left <= D THEN left ELSE D
            x == K \o H \o said
            new == Extended(out, c)
<1>1. N \in Nat /\ L \in Nat /\ D \in Nat \ {0} /\ L < N
  <2>1. Len(out) \in Nat
    BY DEF IsSequence
  <2>. QED
    BY <2>1, SecretsAre, Hashes
<1>2. /\ IsSequence(new) /\ Len(new) = L + take
      /\ \A i \in 1 .. L : new[i] = out[i]
      /\ \A i \in 1 .. take : new[L + i] = RefHash(x)[i]
  BY <1>1, ExtendedIs, SMTT(30)
<1>3. take \in 1 .. D /\ L + take <= N /\ (L + take < N => take = D)
  BY <1>1
<1>4. \A i \in 1 .. L : KeyByte(out, i)
  <2>1. DOMAIN out = 1 .. L
    BY DEF IsSequence
  <2>2. L # 0 => out # <<>>
    OBVIOUS
  <2>3. ASSUME NEW i \in 1 .. L
        PROVE  KeyByte(out, i)
    <3>1. L # 0
      BY <1>1
    <3>2. out # <<>>
      BY <3>1, <2>2
    <3>. HIDE DEF L
    <3>3. i \in DOMAIN out
      BY <2>1
    <3>. QED
      BY <3>2, <3>3, Zenon DEF KeyOfRfc4253, KeyByte
  <2>. QED
    BY <2>3
<1>. HIDE DEF new, take
<1>5. \A i \in 1 .. Len(new) : KeyByte(new, i)
  <2>. DEFINE d == RefHash(x)
  <2>1. take \in 1 .. DigestSize /\ Len(new) = Len(out) + take
    BY <1>2, <1>3
  <2>2. d = RefHash(K \o H \o (IF Len(out) = 0 THEN Letter \o SessionId ELSE out))
    OBVIOUS
  <2>. HIDE DEF d
  <2>3. \A i \in 1 .. take : new[Len(out) + i] = d[i]
    BY <1>2 DEF d
  <2>. QED
    BY <1>2, <1>4, <2>1, <2>2, <2>3, KeyBytes, ZenonT(30)
<1>6. out' = new
  BY DEF new
<1>7. DOMAIN new = 1 .. Len(new) /\ Len(new) # 0 /\ new # <<>>
  <2>1. L + take # 0
    BY <1>1, <1>3
  <2>2. Len(new) # 0
    BY <1>2, <2>1
  <2>3. DOMAIN new = 1 .. Len(new)
    BY <1>2 DEF IsSequence
  <2>. QED
    BY <2>2, <2>3
<1>8. pc' = IF Len(new) < N THEN "more" ELSE "done"
  BY <1>6 DEF DerivedSome
<1>9. pc' = "done" => Len(new) = N
  BY <1>1, <1>2, <1>3, <1>8
<1>10. pc' = "more" => Len(new) \in 1 .. N - 1 /\ Len(new) % D = 0
  <2>. SUFFICES ASSUME pc' = "more" PROVE Len(new) \in 1 .. N - 1 /\ Len(new) % D = 0
    OBVIOUS
  <2>1. Len(new) < N
    BY <1>8
  <2>2. take = D
    BY <1>2, <1>3, <2>1
  <2>3. Len(new) \in 1 .. N - 1
    BY <1>1, <1>2, <2>1, <2>2
  <2>4. Len(new) = (q + 1) * D + 0
    <3>1. q * D \in Int /\ (q + 1) * D + 0 = q * D + D
      BY <1>1
    <3>2. Len(new) = q * D + D
      BY <1>2, <2>2
    <3>. QED
      BY <3>1, <3>2
  <2>5. q + 1 \in Nat /\ 0 \in 0 .. D - 1
    BY <1>1
  <2>6. ((q + 1) * D + 0) % D = 0
    BY <1>1, <2>5, Quotient
  <2>. QED
    BY <2>3, <2>4, <2>6
<1>11. /\ K' = K /\ H' = H /\ SessionId' = SessionId /\ Letter' = Letter
       /\ job'.kind = "derive" /\ job'.len = N
  BY DEF K, H, SessionId, Letter
<1>. HIDE DEF N, D
<1>12. KeyOfRfc4253'
  <2>1. \A i \in DOMAIN out' : KeyByte(out', i)
    BY <1>5, <1>6, <1>7
  <2>2. pc' = "done" => Len(out') = job'.len
    BY <1>6, <1>9, <1>11
  <2>. QED
    BY <1>11, <2>1, <2>2 DEF KeyOfRfc4253, KeyByte
<1>13. Rounds'
  <2>1. IsSequence(out')
    BY <1>2, <1>6
  <2>. QED
    BY <1>6, <1>7, <1>8, <1>10, <1>11, <1>12, <2>1 DEF Rounds, D
<1>. QED
  BY <1>8, <1>13

\* The digest of what a context has taken
LEMMA RoundHash ==
  ASSUME NEW S, Seq(Int) \subseteq S, NEW c, NEW m \in Seq(S), HasTaken(Sha256, c, m),
         Countable(Sha256, Len(m))
  PROVE  Digest(HashFinal(Sha256, c)) = RefHash(m) /\ Sized(Sha256, c)
<1>1. HashFinal(Sha256, c) = RefState(Sha256, m) /\ Sized(Sha256, c)
  BY Hashes, FinalIs, TakenSized
<1>. QED
  BY <1>1 DEF RefHash

LEMMA DeriveKeeps ==
  ASSUME StreamsInv, job.kind = "derive", job' = job, outer' = outer, fed' = fed,
         Sized(Sha256, ctx'), Rounds', pc' \in {"more", "done", "failed"}
  PROVE  StreamsInv'
<1>1. Kinds /\ Contexts
  BY DEF StreamsInv
<1>2. Kinds'
  BY <1>1 DEF Kinds
<1>3. Algo = Sha256 /\ Algo' = Sha256
  BY DEF Algo
<1>4. Contexts'
  BY <1>1, <1>3 DEF Contexts
<1>5. Position' /\ Results'
  BY DEF Position, Results, MacOfWhole
<1>. QED
  BY <1>2, <1>4, <1>5 DEF StreamsInv

LEMMA DeriveFirstKeeps ==
  ASSUME StreamsInv, DeriveFirst
  PROVE  StreamsInv'
<1>1. /\ pc = "ready" /\ job.kind = "derive" /\ job' = job /\ outer' = outer /\ fed' = fed
      /\ IF job.len = 0 THEN pc' = "failed" /\ UNCHANGED <<out, ctx>>
         ELSE /\ ctx' = HashUpdate(Sha256, HashUpdate(Sha256, Hashed2(K, H), Letter), SessionId)
              /\ out' = Extended(<<>>, ctx')
              /\ DerivedSome(out')
  BY Zenon DEF DeriveFirst
<1>2. Kinds /\ Contexts /\ Rounds
  BY DEF StreamsInv
<1>3. out = <<>> /\ IsSequence(out) /\ Len(out) = 0
  BY <1>1, <1>2 DEF Rounds
<1>4. CASE job.len = 0
  <2>1. pc' = "failed" /\ out' = out /\ ctx' = ctx
    BY <1>1, <1>4
  <2>2. Sized(Sha256, ctx')
    BY <1>1, <1>2, <2>1 DEF Contexts, Algo
  <2>3. Rounds'
    BY <1>3, <2>1 DEF Rounds, KeyOfRfc4253
  <2>. QED
    BY <1>1, <2>1, <2>2, <2>3, DeriveKeeps
<1>5. CASE job.len # 0
  <2>. DEFINE S == Seq(Int)
              k == K
              h == H
              x == Letter
              sid == SessionId
              kh == k \o h
              khx == kh \o x
              u == HashUpdate(Sha256, Hashed2(k, h), x)
  <2>1. /\ k \in Seq(S) /\ h \in Seq(S) /\ x \in Seq(S) /\ sid \in Seq(S) /\ Len(x) = 1
        /\ job.len \in Nat
        /\ \A n \in 0 .. job.len : Countable(Sha256, Len(k) + Len(h) + 1 + Len(sid) + n)
    BY <1>1, <1>2, SecretsAre
  <2>2. ctx' = HashUpdate(Sha256, u, sid)
    BY <1>1, <1>5
  <2>. HIDE DEF k, h, x, sid, S, u
  <2>3. kh \in Seq(S) /\ Len(kh) = Len(k) + Len(h)
    BY <2>1
  <2>4. HasTaken(Sha256, Hashed2(k, h), kh)
    BY <2>1, HashedTwo
  <2>. HIDE DEF kh
  <2>5. khx \in Seq(S)
    BY <2>1, <2>3
  <2>6. HasTaken(Sha256, u, khx)
    BY <2>1, <2>3, <2>4, Hashes, UpdateTakes DEF u
  <2>7. khx \o sid = kh \o (x \o sid)
    BY <2>1, <2>3, SMTT(30)
  <2>8. /\ kh \o (x \o sid) \in Seq(S)
        /\ Len(kh \o (x \o sid)) = Len(k) + Len(h) + 1 + Len(sid) + 0
    <3>. DEFINE xs == x \o sid
    <3>1. xs \in Seq(S) /\ Len(xs) = Len(x) + Len(sid)
      BY <2>1, Join
    <3>2. Len(k) \in Nat /\ Len(h) \in Nat /\ Len(sid) \in Nat /\ Len(x) = 1
      BY <2>1
    <3>. HIDE DEF xs
    <3>3. kh \o xs \in Seq(S) /\ Len(kh \o xs) = Len(kh) + Len(xs)
      BY <2>3, <3>1
    <3>4. Len(kh \o xs) = Len(k) + Len(h) + 1 + Len(sid) + 0
      <4>. DEFINE nk == Len(k)
                  nh == Len(h)
                  ns == Len(sid)
                  nx == Len(x)
                  n == Len(kh \o xs)
      <4>1. nk \in Nat /\ nh \in Nat /\ ns \in Nat /\ nx = 1 /\ n = nk + nh + (nx + ns)
        BY <2>3, <3>1, <3>2, <3>3, Zenon
      <4>. HIDE DEF nk, nh, ns, nx, n
      <4>2. n = nk + nh + 1 + ns + 0
        BY <4>1
      <4>. QED
        BY <4>2 DEF nk, nh, ns, nx, n
    <3>. QED
      BY <3>3, <3>4 DEF xs
  <2>. HIDE DEF khx
  <2>. DEFINE m == kh \o (x \o sid)
  <2>9. m \in Seq(S) /\ Len(m) = Len(k) + Len(h) + 1 + Len(sid) + 0 /\ khx \o sid = m
    BY <2>7, <2>8
  <2>. HIDE DEF m
  <2>10. HasTaken(Sha256, ctx', m)
    <3>1. HasTaken(Sha256, HashUpdate(Sha256, u, sid), khx \o sid)
      BY <2>1, <2>5, <2>6, Hashes, UpdateTakes
    <3>. QED
      BY <2>2, <2>9, <3>1
  <2>11. Countable(Sha256, Len(m))
    <3>1. 0 \in 0 .. job.len
      BY <2>1
    <3>. QED
      BY <2>1, <2>9, <3>1
  <2>12. Digest(HashFinal(Sha256, ctx')) = RefHash(m) /\ Sized(Sha256, ctx')
    BY <2>9, <2>10, <2>11, RoundHash DEF S
  <2>. DEFINE said == IF Len(out) = 0 THEN Letter \o SessionId ELSE out
  <2>13. Digest(HashFinal(Sha256, ctx')) = RefHash(K \o H \o said)
    BY <1>3, <2>12 DEF m, kh, k, h, x, sid
  <2>14. Len(out) = 0 * DigestSize /\ Len(out) < job.len
    BY <1>3, <1>5, <2>1, Hashes
  <2>15. KeyOfRfc4253 /\ out' = Extended(out, ctx') /\ DerivedSome(out')
    BY <1>1, <1>2, <1>3, <1>5 DEF Rounds
  <2>. HIDE DEF said
  <2>16. Rounds' /\ pc' \in {"more", "done"}
    BY <1>1, <1>2, <1>3, <2>13, <2>14, <2>15, RoundKeeps DEF said
  <2>. QED
    BY <1>1, <2>12, <2>16, DeriveKeeps
<1>. QED
  BY <1>4, <1>5

LEMMA DeriveMoreKeeps ==
  ASSUME StreamsInv, DeriveMore
  PROVE  StreamsInv'
<1>1. /\ pc = "more" /\ job' = job /\ outer' = outer /\ fed' = fed
      /\ ctx' = HashUpdate(Sha256, Hashed2(K, H), out)
      /\ out' = Extended(out, ctx') /\ DerivedSome(out')
  BY DEF DeriveMore, RoundInput
<1>2. Kinds /\ Contexts /\ Rounds /\ job.kind = "derive"
  BY <1>1 DEF StreamsInv, Kinds
<1>3. IsSequence(out) /\ Len(out) \in 1 .. job.len - 1 /\ Len(out) % DigestSize = 0 /\ KeyOfRfc4253
  BY <1>1, <1>2 DEF Rounds
<1>. DEFINE S == Seq(Int) \cup {out[i] : i \in DOMAIN out}
            k == K
            h == H
            kh == k \o h
            m == kh \o out
<1>4. /\ k \in Seq(Seq(Int)) /\ h \in Seq(Seq(Int)) /\ job.len \in Nat
      /\ \A n \in 0 .. job.len : Countable(Sha256, Len(k) + Len(h) + n)
  BY <1>2, SecretsAre
<1>5. k \in Seq(S) /\ h \in Seq(S) /\ out \in Seq(S) /\ Seq(Int) \subseteq S
  <2>. HIDE DEF k, h
  <2>1. out \in Seq({out[i] : i \in DOMAIN out})
    BY <1>3 DEF IsSequence
  <2>. QED
    BY <1>4, <2>1
<1>. HIDE DEF S, k, h
<1>6. kh \in Seq(S) /\ Len(kh) = Len(k) + Len(h)
  BY <1>5
<1>7. HasTaken(Sha256, Hashed2(k, h), kh)
  BY <1>5, HashedTwo
<1>. HIDE DEF kh
<1>8. m \in Seq(S) /\ Len(m) = Len(k) + Len(h) + Len(out)
  <2>1. m \in Seq(S)
    BY <1>5, <1>6
  <2>2. Len(m) = Len(kh) + Len(out)
    BY <1>5, <1>6, Join
  <2>. HIDE DEF m
  <2>. QED
    BY <1>6, <2>1, <2>2
<1>9. HasTaken(Sha256, ctx', m)
  BY <1>1, <1>5, <1>6, <1>7, Hashes, UpdateTakes DEF k, h
<1>10. Len(out) \in 0 .. job.len /\ Len(out) < job.len
  BY <1>3, <1>4
<1>. HIDE DEF m
<1>11. Countable(Sha256, Len(m))
  BY <1>4, <1>8, <1>10
<1>12. Digest(HashFinal(Sha256, ctx')) = RefHash(m) /\ Sized(Sha256, ctx')
  BY <1>5, <1>8, <1>9, <1>11, RoundHash
<1>. DEFINE said == IF Len(out) = 0 THEN Letter \o SessionId ELSE out
            q == Len(out) \div DigestSize
<1>13. Digest(HashFinal(Sha256, ctx')) = RefHash(K \o H \o said)
  <2>1. said = out
    BY <1>3
  <2>. QED
    BY <1>12, <2>1 DEF m, kh, k, h
<1>14. q \in Nat /\ Len(out) = q * DigestSize
  <2>. DEFINE n == Len(out)
              b == DigestSize
  <2>1. n \in Nat /\ b \in Nat \ {0} /\ n % b = 0
    BY <1>3, <1>10, Hashes
  <2>. HIDE DEF n, b
  <2>2. n = (n \div b) * b + (n % b) /\ n \div b \in Nat
    BY <2>1, Divide
  <2>3. (n \div b) * b \in Int
    BY <2>1, <2>2
  <2>4. n = (n \div b) * b
    BY <2>1, <2>2, <2>3
  <2>. QED
    BY <2>2, <2>4 DEF n, b
<1>. HIDE DEF said, q
<1>15. Rounds' /\ pc' \in {"more", "done"}
  BY <1>1, <1>2, <1>3, <1>10, <1>13, <1>14, RoundKeeps DEF said
<1>. QED
  BY <1>1, <1>2, <1>12, <1>15, DeriveKeeps

-----------------------------------------------------------------------------
(* Counter mode.                                                            *)

LEMMA Succ ==
  ASSUME NEW n \in Nat, NEW m \in Nat \ {0}
  PROVE  /\ (n + 1) % m = IF n % m = m - 1 THEN 0 ELSE (n % m) + 1
         /\ (n + 1) \div m = IF n % m = m - 1 THEN n \div m + 1 ELSE n \div m
<1>. DEFINE q == n \div m
            r == n % m
<1>1. n = q * m + r /\ q \in Nat /\ r \in 0 .. m - 1
  BY Divide
<1>. HIDE DEF q, r
<1>2. CASE r = m - 1
  <2>1. q + 1 \in Nat /\ 0 \in 0 .. m - 1 /\ n + 1 = (q + 1) * m + 0
    BY <1>1, <1>2
  <2>2. ((q + 1) * m + 0) \div m = q + 1 /\ ((q + 1) * m + 0) % m = 0
    BY <2>1, Quotient
  <2>. QED
    BY <1>2, <2>1, <2>2 DEF q, r
<1>3. CASE r # m - 1
  <2>1. r + 1 \in 0 .. m - 1 /\ n + 1 = q * m + (r + 1)
    <3>1. q * m \in Int
      BY <1>1
    <3>. QED
      BY <1>1, <1>3, <3>1
  <2>2. (q * m + (r + 1)) \div m = q /\ (q * m + (r + 1)) % m = r + 1
    BY <1>1, <2>1, Quotient
  <2>. QED
    BY <1>3, <2>1, <2>2 DEF q, r
<1>. QED
  BY <1>2, <1>3

\* The digits of a number of two.
LEMMA Digits ==
  ASSUME NEW C \in Nat \ {0}, NEW v \in 0 .. C * C - 1
  PROVE  /\ v \div C \in 0 .. C - 1 /\ v % C \in 0 .. C - 1
         /\ (v \div C = C - 1 /\ v % C = C - 1) <=> v = C * C - 1
<1>. DEFINE a == v \div C
            b == v % C
<1>1. C * C \in Nat /\ v \in Nat /\ v < C * C
  OBVIOUS
<1>2. v = a * C + b /\ a \in Nat /\ b \in 0 .. C - 1
  BY <1>1, Divide
<1>. HIDE DEF a, b
<1>3. a \in 0 .. C - 1
  <2>. SUFFICES ASSUME ~(a <= C - 1) PROVE FALSE
    BY <1>2
  <2>1. a - C \in Nat /\ (a - C) * C \in Nat /\ a * C = C * C + (a - C) * C
    BY <1>2
  <2>2. a * C \in Int
    BY <1>2
  <2>. QED
    BY <1>1, <1>2, <2>1, <2>2
<1>4. ASSUME a = C - 1, b = C - 1
      PROVE  v = C * C - 1
  BY <1>2, <1>4
<1>5. ASSUME v = C * C - 1
      PROVE  a = C - 1 /\ b = C - 1
  <2>1. v = (C - 1) * C + (C - 1) /\ C - 1 \in Nat /\ C - 1 \in 0 .. C - 1
    BY <1>5
  <2>2. ((C - 1) * C + (C - 1)) \div C = C - 1 /\ ((C - 1) * C + (C - 1)) % C = C - 1
    BY <2>1, Quotient
  <2>. QED
    BY <2>1, <2>2 DEF a, b
<1>. QED
  BY <1>2, <1>3, <1>4, <1>5 DEF a, b

\* The counter runs through its values, in the order of the numbers they are.
LEMMA IncrementPlace ==
  ASSUME NEW iv \in Iv, NEW k \in Nat
  PROVE  Increment(Place(iv, k)) = Place(iv, k + 1)
<1>. DEFINE C == CtrBase
            M == C * C
            n == iv[1] * C + iv[2] + k
            v == n % M
            a == v \div C
            b == v % C
            c == Place(iv, k)
<1>1. C \in Nat \ {0, 1} /\ M \in Nat \ {0} /\ n \in Nat
  <2>1. C \in Nat \ {0, 1} /\ iv[1] \in Nat /\ iv[2] \in Nat
    BY StreamsAssumption DEF Iv
  <2>. QED
    BY <2>1
<1>2. iv[1] * C + iv[2] + (k + 1) = n + 1
  <2>1. iv[1] \in Nat /\ iv[2] \in Nat /\ C \in Nat
    BY <1>1 DEF Iv
  <2>2. iv[1] * C \in Nat
    BY <2>1
  <2>. QED
    BY <2>1, <2>2
<1>3. Place(iv, k + 1) = <<((n + 1) % M) \div C, ((n + 1) % M) % C>> /\ c = <<a, b>>
  BY <1>2 DEF Place
<1>4. Increment(c) = <<IF b = C - 1 THEN (a + 1) % C ELSE a, (b + 1) % C>>
  <2>. HIDE DEF a, b, c
  <2>1. DOMAIN c = 1 .. 2 /\ c[1] = a /\ c[2] = b
    BY <1>3
  <2>2. (\A j \in DOMAIN c : j > 1 => c[j] = C - 1) <=> b = C - 1
    BY <2>1
  <2>3. \A j \in DOMAIN c : j > 2 => c[j] = C - 1
    BY <2>1
  <2>. DEFINE e == Increment(c)
  <2>4. e = [i \in 1 .. 2 |-> IF \A j \in DOMAIN c : j > i => c[j] = C - 1
                              THEN (c[i] + 1) % C ELSE c[i]]
    BY <2>1 DEF Increment
  <2>. HIDE DEF e
  <2>5. e[1] = (IF b = C - 1 THEN (a + 1) % C ELSE a) /\ e[2] = (b + 1) % C
    BY <2>1, <2>2, <2>3, <2>4
  <2>. QED
    BY <2>4, <2>5 DEF e
<1>. HIDE DEF n
<1>5. v \in 0 .. M - 1 /\ (n + 1) % M = IF v = M - 1 THEN 0 ELSE v + 1
  <2>. HIDE DEF M
  <2>. QED
    BY <1>1, Succ, Divide
<1>. HIDE DEF v
<1>6. /\ a \in 0 .. C - 1 /\ b \in 0 .. C - 1
      /\ (a = C - 1 /\ b = C - 1) <=> v = M - 1
  BY <1>1, <1>5, Digits
<1>7. /\ (v + 1) % C = IF b = C - 1 THEN 0 ELSE b + 1
      /\ (v + 1) \div C = IF b = C - 1 THEN a + 1 ELSE a
  <2>1. v \in Nat /\ C \in Nat \ {0}
    BY <1>1, <1>5
  <2>. HIDE DEF C
  <2>. QED
    BY <2>1, Succ
<1>8. /\ 0 \div C = 0 /\ 0 % C = 0
      /\ \A i \in 0 .. C - 1 : (i + 1) % C = IF i = C - 1 THEN 0 ELSE i + 1
  BY <1>1
<1>. HIDE DEF C, M, a, b
<1>9. CASE v = M - 1
  BY <1>3, <1>4, <1>5, <1>6, <1>8, <1>9
<1>10. CASE v # M - 1
  <2>1. Place(iv, k + 1) = <<(v + 1) \div C, (v + 1) % C>>
    BY <1>3, <1>5, <1>10
  <2>2. CASE b = C - 1
    <3>1. a # C - 1
      BY <1>6, <1>10, <2>2
    <3>2. (a + 1) % C = a + 1 /\ (b + 1) % C = 0
      BY <1>6, <1>8, <2>2, <3>1
    <3>. QED
      BY <1>4, <1>7, <2>1, <2>2, <3>2
  <2>3. CASE b # C - 1
    <3>1. (b + 1) % C = b + 1
      BY <1>6, <1>8, <2>3
    <3>. QED
      BY <1>4, <1>7, <2>1, <2>3, <3>1
  <2>. QED
    BY <2>2, <2>3
<1>. QED
  BY <1>9, <1>10

StreamByte(iv, s, j) ==
  s[j] = <<Place(iv, (j - 1) \div AES_BLOCK_SIZE), (j - 1) % AES_BLOCK_SIZE>>

\* s is the first n bytes of the stream.
StreamAfter(iv, s, n) ==
  IsSequence(s) /\ Len(s) = n /\ \A j \in 1 .. Len(s) : StreamByte(iv, s, j)

\* The bytes of one block that a round takes
LEMMA StreamBytes ==
  ASSUME NEW iv, NEW s, IsSequence(s), NEW q \in Nat, NEW o \in 0 .. AES_BLOCK_SIZE - 1,
         Len(s) = q * AES_BLOCK_SIZE + o, \A j \in 1 .. Len(s) : StreamByte(iv, s, j),
         NEW take \in 0 .. AES_BLOCK_SIZE - o,
         NEW new, new = s \o [i \in 1 .. take |-> <<Place(iv, q), o + i - 1>>]
  PROVE  StreamAfter(iv, new, Len(s) + take)
<1>. DEFINE b == AES_BLOCK_SIZE
            p == Place(iv, q)
            t == [i \in 1 .. take |-> <<p, o + i - 1>>]
            T == {<<p, o + i - 1>> : i \in 1 .. take}
            L == Len(s)
<1>1. b \in Nat \ {0} /\ L \in Nat /\ take \in Nat /\ o \in Nat
  <2>1. Len(s) \in Nat
    BY DEF IsSequence
  <2>. QED
    BY <2>1, StreamsAssumption
<1>2. t \in [1 .. take -> T] /\ \A i \in 1 .. take : t[i] = <<p, o + i - 1>>
  BY Zenon
<1>. HIDE DEF t, T, p
<1>3. t \in Seq(T) /\ Len(t) = take
  BY <1>1, <1>2
<1>4. new = s \o t
  BY DEF t, p
<1>5. Continues(new, s, t)
  BY <1>3, <1>4, Appended, Zenon
<1>6. /\ IsSequence(new) /\ Len(new) = L + take
      /\ \A i \in 1 .. L : new[i] = s[i]
      /\ \A i \in 1 .. take : new[L + i] = <<p, o + i - 1>>
  BY <1>2, <1>3, <1>5 DEF Continues
<1>7. ASSUME NEW j \in 1 .. Len(new)
      PROVE  StreamByte(iv, new, j)
  <2>1. CASE j <= L
    <3>1. j \in 1 .. Len(s)
      BY <1>1, <2>1
    <3>2. new[j] = s[j] /\ StreamByte(iv, s, j)
      BY <1>6, <3>1
    <3>. QED
      BY <3>2, Zenon DEF StreamByte
  <2>2. CASE ~(j <= L)
    <3>. DEFINE i == j - L
                r == o + i - 1
    <3>1. i \in 1 .. take /\ j = L + i /\ r \in 0 .. b - 1
      BY <1>1, <1>6, <2>2
    <3>2. j - 1 = q * b + r
      <4>1. q * b \in Int
        BY <1>1
      <4>2. L = q * b + o
        OBVIOUS
      <4>. HIDE DEF L
      <4>. QED
        BY <1>1, <3>1, <4>1, <4>2
    <3>. HIDE DEF i, r, b
    <3>3. (q * b + r) \div b = q /\ (q * b + r) % b = r
      BY <1>1, <3>1, Quotient
    <3>4. (j - 1) \div b = q /\ (j - 1) % b = r
      BY <3>2, <3>3
    <3>5. new[j] = <<p, o + i - 1>>
      BY <1>6, <3>1
    <3>6. new[j] = <<p, r>>
      BY <3>5 DEF r
    <3>. QED
      BY <3>4, <3>6 DEF StreamByte, p, b
  <2>. QED
    BY <2>1, <2>2
<1>. QED
  BY <1>6, <1>7 DEF StreamAfter

\* What Position says of a stream, with its parts named.
LEMMA Stands ==
  ASSUME NEW q \in Nat, NEW o \in 0 .. AES_BLOCK_SIZE - 1, NEW n, n = q * AES_BLOCK_SIZE + o
  PROVE  n \div AES_BLOCK_SIZE = q /\ n % AES_BLOCK_SIZE = o
<1>. DEFINE b == AES_BLOCK_SIZE
<1>1. b \in Nat \ {0}
  BY StreamsAssumption
<1>. HIDE DEF b
<1>2. (q * b + o) \div b = q /\ (q * b + o) % b = o
  BY <1>1, Quotient DEF b
<1>. QED
  BY <1>2 DEF b

LEMMA CryptKeeps ==
  ASSUME StreamsInv, NEW n \in 1 .. MaxLen, Crypt(n)
  PROVE  StreamsInv'
<1>1. /\ pc = "ready" /\ pc' = "crypt" /\ job' = job /\ out' = out /\ outer' = outer
      /\ ctx' = ctx /\ job.kind = "ctr" /\ fed' = fed + n /\ fed + n <= MaxLen
      /\ ctr' = [ctr EXCEPT !.left = n] /\ Algo' = Algo
  BY DEF Crypt, Algo
<1>2. Kinds /\ Contexts /\ Position /\ fed \in Nat /\ n \in Nat \ {0} /\ MaxLen \in Nat
  BY Hashes DEF StreamsInv, Kinds
<1>3. Kinds'
  BY <1>1, <1>2 DEF Kinds
<1>4. Contexts'
  BY <1>1, <1>2 DEF Contexts
<1>5. DOMAIN ctr = {"nonce", "stream", "offset", "left"} /\ ctr.left = 0 /\ Len(out) + ctr.left = fed
  BY <1>1, <1>2 DEF Position
<1>6. /\ DOMAIN ctr' = DOMAIN ctr /\ ctr'.left = n /\ ctr'.offset = ctr.offset
      /\ ctr'.stream = ctr.stream /\ ctr'.nonce = ctr.nonce
  BY <1>1, <1>5
<1>7. Len(out) + n = fed + n
  <2>1. Len(out) \in Nat
    BY <1>1, <1>2 DEF Position, IsSequence
  <2>. QED
    BY <1>2, <1>5, <2>1
<1>8. Position'
  BY <1>1, <1>2, <1>6, <1>7, Zenon DEF Position
<1>9. Rounds' /\ Results'
  BY <1>1 DEF Rounds, Results, MacOfWhole
<1>. QED
  BY <1>3, <1>4, <1>8, <1>9 DEF StreamsInv

LEMMA CryptLoopKeeps ==
  ASSUME StreamsInv, CryptLoop
  PROVE  StreamsInv'
<1>. DEFINE b == AES_BLOCK_SIZE
            iv == job.iv
            L == Len(out)
            q == L \div b
            o == ctr.offset
            left == ctr.left
            take == Min({b - o, left})
            stream == IF o = 0 THEN ctr.nonce ELSE ctr.stream
<1>1. /\ pc = "crypt" /\ job' = job /\ outer' = outer /\ ctx' = ctx /\ fed' = fed
      /\ ctr' = [nonce |-> IF o = 0 THEN Increment(ctr.nonce) ELSE ctr.nonce,
                 stream |-> stream, offset |-> (o + take) % b, left |-> left - take]
      /\ out' = out \o [i \in 1 .. take |-> <<stream, o + i - 1>>]
      /\ pc' = IF take = left THEN "ready" ELSE "crypt"
      /\ Algo' = Algo
  BY Zenon DEF CryptLoop, Offset, Algo
<1>2. Kinds /\ Contexts /\ Position /\ job.kind = "ctr" /\ iv \in Iv
  BY <1>1, JobIs DEF StreamsInv, Kinds
<1>3. /\ IsSequence(out) /\ left \in Nat /\ left # 0 /\ L + left = fed
      /\ o = L % b
      /\ o # 0 => ctr.stream = Place(iv, q)
      /\ ctr.nonce = Place(iv, q + (IF o = 0 THEN 0 ELSE 1))
      /\ \A j \in DOMAIN out : StreamByte(iv, out, j)
  BY <1>1, <1>2, Zenon DEF Position, StreamByte
<1>4. b \in Nat \ {0} /\ L \in Nat /\ DOMAIN out = 1 .. L
  BY <1>3, StreamsAssumption DEF IsSequence
<1>5. q \in Nat /\ o \in 0 .. b - 1 /\ L = q * b + o
  <2>1. L = q * b + (L % b) /\ q \in Nat /\ L % b \in 0 .. b - 1
    <3>. HIDE DEF L, b
    <3>. QED
      BY <1>4, Divide
  <2>. QED
    BY <1>3, <2>1
<1>. HIDE DEF q, o, L, left, b, iv
<1>6. take \in 1 .. b - o /\ take <= left /\ take = Min({b - o, left})
  <2>1. b - o \in Int /\ left \in Int /\ b - o >= 1 /\ left >= 1
    BY <1>3, <1>4, <1>5
  <2>2. take = IF b - o <= left THEN b - o ELSE left
    BY <2>1, MinOfTwo
  <2>. QED
    BY <2>1, <2>2
<1>. HIDE DEF take
<1>7. stream = Place(iv, q)
  <2>1. q + 0 = q
    BY <1>5
  <2>. QED
    BY <1>3, <2>1
<1>. HIDE DEF stream
<1>8. out' = out \o [i \in 1 .. take |-> <<Place(iv, q), o + i - 1>>]
  BY <1>1, <1>7
<1>9. /\ IsSequence(out') /\ Len(out') = L + take
      /\ \A j \in 1 .. Len(out') : StreamByte(iv, out', j)
  <2>1. /\ o \in 0 .. AES_BLOCK_SIZE - 1 /\ take \in 0 .. AES_BLOCK_SIZE - o
        /\ Len(out) = q * AES_BLOCK_SIZE + o
        /\ \A j \in 1 .. Len(out) : StreamByte(iv, out, j)
    BY <1>3, <1>4, <1>5, <1>6 DEF b, L
  <2>. DEFINE new == out \o [i \in 1 .. take |-> <<Place(iv, q), o + i - 1>>]
  <2>2. out' = new
    BY <1>8
  <2>3. new = out \o [i \in 1 .. take |-> <<Place(iv, q), o + i - 1>>]
    OBVIOUS
  <2>. HIDE DEF new
  <2>4. StreamAfter(iv, new, Len(out) + take)
    BY <1>3, <1>5, <2>1, <2>3, StreamBytes
  <2>. QED
    BY <2>2, <2>4 DEF L, StreamAfter
<1>10. ctr'.nonce = Place(iv, q + 1)
  <2>1. CASE o = 0
    <3>1. ctr.nonce = Place(iv, q)
      <4>1. q + 0 = q
        BY <1>5
      <4>. QED
        BY <1>3, <2>1, <4>1
    <3>2. Increment(Place(iv, q)) = Place(iv, q + 1)
      BY <1>2, <1>5, IncrementPlace DEF iv
    <3>. QED
      BY <1>1, <2>1, <3>1, <3>2
  <2>2. CASE o # 0
    BY <1>1, <1>3, <2>2
  <2>. QED
    BY <2>1, <2>2
<1>11. /\ ctr'.stream = Place(iv, q) /\ ctr'.offset = (o + take) % b /\ ctr'.left = left - take
       /\ DOMAIN ctr' = {"nonce", "stream", "offset", "left"}
  BY <1>1, <1>7
<1>. DEFINE M == Len(out')
<1>12. /\ ctr'.offset = M % b
       /\ ctr'.offset # 0 => ctr'.stream = Place(iv, M \div b)
       /\ ctr'.nonce = Place(iv, M \div b + (IF ctr'.offset = 0 THEN 0 ELSE 1))
  <2>1. CASE take < b - o
    <3>1. o + take \in 0 .. b - 1 /\ o + take # 0 /\ M = q * b + (o + take)
      <4>1. q * b \in Int /\ o \in Int
        BY <1>4, <1>5
      <4>. QED
        BY <1>4, <1>5, <1>6, <1>9, <2>1, <4>1
    <3>. HIDE DEF M
    <3>2. M \div b = q /\ M % b = o + take
      BY <1>5, <3>1, Stands DEF b
    <3>3. (o + take) % b = o + take
      BY <1>4, <3>1
    <3>. QED
      BY <1>10, <1>11, <3>1, <3>2, <3>3
  <2>2. CASE take = b - o
    <3>1. q + 1 \in Nat /\ 0 \in 0 .. b - 1 /\ M = (q + 1) * b + 0
      <4>1. q * b \in Int /\ o \in Int /\ (q + 1) * b + 0 = q * b + b
        BY <1>4, <1>5
      <4>. QED
        BY <1>4, <1>5, <1>6, <1>9, <2>2, <4>1
    <3>. HIDE DEF M
    <3>2. M \div b = q + 1 /\ M % b = 0
      BY <3>1, Stands DEF b
    <3>3. (o + take) % b = 0 /\ q + 1 + 0 = q + 1
      <4>1. o + take = b /\ b % b = 0
        BY <1>4, <1>5, <2>2
      <4>. QED
        BY <1>5, <4>1
    <3>. QED
      BY <1>10, <1>11, <3>2, <3>3
  <2>. QED
    BY <1>6, <1>4, <1>5, <2>1, <2>2
<1>13. M + (left - take) = fed /\ left - take \in Nat /\ (pc' = "ready" <=> left - take = 0)
  <2>1. left \in Nat /\ take \in Nat /\ take <= left /\ L \in Nat /\ M = L + take /\ L + left = fed
    BY <1>3, <1>4, <1>5, <1>6, <1>9
  <2>2. pc' = "ready" <=> take = left
    BY <1>1 DEF left
  <2>. HIDE DEF M
  <2>. QED
    BY <2>1, <2>2
<1>14. Position'
  <2>1. \A j \in DOMAIN out' : StreamByte(iv, out', j)
    BY <1>9 DEF IsSequence
  <2>2. job' = job /\ fed' = fed
    BY <1>1
  <2>3. job'.kind = "ctr" /\ iv = job'.iv
    BY <1>1, <1>2 DEF iv
  <2>. QED
    BY <1>9, <1>11, <1>12, <1>13, <2>1, <2>2, <2>3, Zenon DEF Position, StreamByte, b, M
<1>15. Kinds'
  BY <1>1, <1>2 DEF Kinds
<1>16. Contexts'
  BY <1>1, <1>2 DEF Contexts
<1>17. Rounds' /\ Results'
  BY <1>1, <1>2 DEF Rounds, Results, MacOfWhole
<1>. QED
  BY <1>14, <1>15, <1>16, <1>17 DEF StreamsInv

-----------------------------------------------------------------------------
(* The theorems.                                                            *)

LEMMA StreamsStep ==
  ASSUME StreamsInv, [Next]_vars
  PROVE  StreamsInv'
<1>1. CASE UNCHANGED vars
  BY <1>1 DEF vars, StreamsInv, Kinds, Contexts, Rounds, KeyOfRfc4253, Position, Results,
              MacOfWhole, Algo, K, H, Letter, SessionId
<1>2. ASSUME NEW n \in 1 .. MaxLen, Update(n) PROVE StreamsInv'
  BY <1>2, UpdateKeeps
<1>3. ASSUME NEW n \in 1 .. MaxLen, Crypt(n) PROVE StreamsInv'
  BY <1>3, CryptKeeps
<1>4. CASE Final
  BY <1>4, FinalKeeps
<1>5. CASE DeriveFirst
  BY <1>5, DeriveFirstKeeps
<1>6. CASE DeriveMore
  BY <1>6, DeriveMoreKeeps
<1>7. CASE CryptLoop
  BY <1>7, CryptLoopKeeps
<1>8. CASE EncodeCall \/ Edit \/ DecodeCall
  BY <1>8, OthersKeep
<1>. QED
  BY <1>1, <1>2, <1>3, <1>4, <1>5, <1>6, <1>7, <1>8 DEF Next, Ended

\* Between any two calls the contexts have taken all the bytes handed over, a
\* key being derived consists of whole digests, and the counter is that of the
\* next block of the stream.
THEOREM StreamsInvariant == Spec => []StreamsInv
<1>1. Init => StreamsInv
  BY InitHolds
<1>2. StreamsInv /\ [Next]_vars => StreamsInv'
  BY StreamsStep
<1>. QED
  BY <1>1, <1>2, PTL DEF Spec

\* sha256_final and sha512_final give the digest of all that sha256_update and
\* sha512_update were called with, in whatever pieces, and find room for the mark
\* in the block buffer.
THEOREM DigestsOfWhole == Spec => []DigestOfWhole
<1>1. StreamsInv => DigestOfWhole
  BY DEF StreamsInv, Contexts, Sized, Results, DigestOfWhole
<1>. QED
  BY <1>1, StreamsInvariant, PTL

\* hmac_sha256_final gives the MAC of RFC 2104 of all that hmac_sha256_update was
\* called with, for keys shorter than a block, as long as one and longer.
THEOREM MacsOfWhole == Spec => []MacOfWhole
<1>1. StreamsInv => MacOfWhole
  BY DEF StreamsInv, Results
<1>. QED
  BY <1>1, StreamsInvariant, PTL

\* kex_derive_key gives the key of RFC 4253, section 7.2, of every length.
THEOREM KeysOfRfc4253 == Spec => []KeyOfRfc4253
<1>1. StreamsInv => KeyOfRfc4253
  BY DEF StreamsInv, Rounds, KeyOfRfc4253
<1>. QED
  BY <1>1, StreamsInvariant, PTL

\* Whatever calls of aes_ctr_crypt a stream is cut into, each byte meets the byte
\* of the keystream with its own number.
THEOREM StreamPositions == Spec => []StreamPosition
<1>1. ASSUME StreamsInv
      PROVE  StreamPosition
  <2>. SUFFICES ASSUME job.kind = "ctr" PROVE StreamPosition
    BY DEF StreamPosition
  <2>1. Position
    BY <1>1 DEF StreamsInv
  <2>2. pc = "ready" => Len(out) = fed
    <3>1. Len(out) \in Nat
      BY <2>1 DEF Position, IsSequence
    <3>. QED
      BY <2>1, <3>1 DEF Position
  <2>3. \A j \in DOMAIN out :
          out[j] = <<Place(job.iv, (j - 1) \div AES_BLOCK_SIZE), (j - 1) % AES_BLOCK_SIZE>>
    BY <2>1 DEF Position
  <2>. QED
    BY <2>2, <2>3, Zenon DEF StreamPosition, Place
<1>. QED
  BY <1>1, StreamsInvariant, PTL

-----------------------------------------------------------------------------
(* Base64.                                                                  *)

LEMMA LessThanWellFounded ==
  IsWellFoundedOn({ss \in Nat \X Nat : ss[1] < ss[2]}, Nat)
BY NatLessThanWellFounded DEF OpToRel

LEMMA Smallest ==
  ASSUME NEW S, S \subseteq Nat, S # {}
  PROVE  \E x \in S : \A y \in S : x <= y
<1>. DEFINE R == {ss \in Nat \X Nat : ss[1] < ss[2]}
<1>1. IsWellFoundedOn(R, Nat)
  BY LessThanWellFounded
<1>2. PICK x \in S : \A y \in S : <<y, x>> \notin R
  <2>. HIDE DEF R
  <2>. QED
    BY <1>1, WFMin
<1>3. ASSUME NEW y \in S PROVE x <= y
  <2>1. /\ <<y, x>> \in Nat \X Nat /\ <<y, x>>[1] = y /\ <<y, x>>[2] = x
        /\ x \in Nat /\ y \in Nat
    OBVIOUS
  <2>2. ~(y < x)
    BY <2>1, <1>2
  <2>. QED
    BY <2>1, <2>2
<1>. QED
  BY <1>3

\* What holds of 0, and of k if of k - 1, holds of all numbers up to n.
LEMMA Counting ==
  ASSUME NEW n \in Nat, NEW S, 0 \in S, \A k \in 1 .. n : k - 1 \in S => k \in S
  PROVE  \A k \in 0 .. n : k \in S
<1>. DEFINE T == {k \in 0 .. n : k \notin S}
<1>1. SUFFICES ASSUME T # {} PROVE FALSE
  OBVIOUS
<1>2. T \subseteq Nat
  OBVIOUS
<1>3. PICK x \in T : \A y \in T : x <= y
  <2>. HIDE DEF T
  <2>. QED
    BY <1>1, <1>2, Smallest
<1>4. x \in 1 .. n /\ x - 1 \in 0 .. n
  OBVIOUS
<1>5. x - 1 \notin T
  BY <1>3, <1>4
<1>. QED
  BY <1>4, <1>5

\* g goes from x by the steps S[1], ..., S[n].
Stepwise(g, n, x, S) == g[0] = x /\ \A k \in 1 .. n : g[k] = S[k][g[k - 1]]

\* A function that is defined by steps exists.
LEMMA StepsExist ==
  ASSUME NEW n \in Nat, NEW V, NEW x \in V, NEW S \in [1 .. n -> [V -> V]]
  PROVE  \E g \in [0 .. n -> V] : Stepwise(g, n, x, S)
<1>. DEFINE Steps(g, m) ==
              g[0] = x /\ \A k \in 1 .. m : g[k] = S[k][g[k - 1]]
            T == {m \in 0 .. n : \E g \in [0 .. m -> V] : Steps(g, m)}
<1>1. 0 \in T
  <2>1. [k \in 0 .. 0 |-> x] \in [0 .. 0 -> V] /\ Steps([k \in 0 .. 0 |-> x], 0)
    OBVIOUS
  <2>2. \E g \in [0 .. 0 -> V] : Steps(g, 0)
    <3>. HIDE DEF Steps
    <3>. QED
      BY <2>1
  <2>. HIDE DEF Steps
  <2>. QED
    BY <2>2
<1>2. ASSUME NEW m \in 1 .. n, m - 1 \in T PROVE m \in T
  <2>1. PICK g \in [0 .. m - 1 -> V] : Steps(g, m - 1)
    BY <1>2
  <2>. DEFINE h == [k \in 0 .. m |-> IF k = m THEN S[m][g[m - 1]] ELSE g[k]]
  <2>2. m - 1 \in 0 .. m - 1 /\ g[m - 1] \in V /\ S[m] \in [V -> V]
    OBVIOUS
  <2>3. \A k \in 0 .. m : k # m => k \in 0 .. m - 1
    OBVIOUS
  <2>4. h \in [0 .. m -> V]
    BY <2>2, <2>3
  <2>5. h[0] = x
    <3>1. 0 \in 0 .. m /\ 0 # m
      OBVIOUS
    <3>. QED
      BY <3>1, <2>1
  <2>6. ASSUME NEW k \in 1 .. m PROVE h[k] = S[k][h[k - 1]]
    <3>1. k \in 0 .. m /\ k - 1 \in 0 .. m /\ k - 1 # m /\ h[k - 1] = g[k - 1]
      OBVIOUS
    <3>2. k # m => k \in 1 .. m - 1 /\ h[k] = g[k]
      BY <3>1
    <3>3. k = m => h[k] = S[m][g[m - 1]]
      BY <3>1
    <3>. HIDE DEF h
    <3>. QED
      BY <3>1, <3>2, <3>3, <2>1
  <2>7. Steps(h, m)
    BY <2>5, <2>6
  <2>. HIDE DEF h, Steps
  <2>. QED
    BY <2>4, <2>7
<1>3. n \in T
  <2>1. \A k \in 0 .. n : k \in T
    <3>. HIDE DEF T
    <3>. QED
      BY <1>1, <1>2, Counting
  <2>. QED
    BY <2>1
<1>4. PICK g \in [0 .. n -> V] : Steps(g, n)
  BY <1>3
<1>. QED
  BY <1>4 DEF Stepwise
-----------------------------------------------------------------------------
(* Base64.                                                                  *)

\* The six bits of a letter.
LEMMA SixBits ==
  ASSUME NEW x \in 0 .. 63
  PROVE  LET b(i) == (x \div 2^(5 - i)) % 2
         IN /\ x \div 16 = 2 * b(0) + b(1)
            /\ x \div 4 = 8 * b(0) + 4 * b(1) + 2 * b(2) + b(3)
            /\ x = 32 * b(0) + 16 * b(1) + 8 * b(2) + 4 * b(3) + 2 * b(4) + b(5)
            /\ x % 16 = 8 * b(2) + 4 * b(3) + 2 * b(4) + b(5)
            /\ x % 4 = 2 * b(4) + b(5)
<1>1. /\ 2^(5 - 0) = 32 /\ 2^(5 - 1) = 16 /\ 2^(5 - 2) = 8 /\ 2^(5 - 3) = 4
      /\ 2^(5 - 4) = 2 /\ 2^(5 - 5) = 1
  OBVIOUS
<1>. QED
  BY <1>1

\* The place of bit i of 24, which four letters have.
LEMMA BitPlace ==
  ASSUME NEW q \in Nat, NEW j \in 0 .. 3, NEW r \in 0 .. 5
  PROVE  /\ (24 * q + 6 * j + r) \div 6 + 1 = 4 * q + j + 1
         /\ (24 * q + 6 * j + r) % 6 = r
OBVIOUS

\* The byte that the bits of two letters make, when the first letter has 6 - 2 j
\* bits that are not in a byte yet.
Joined(j, x, y) ==
  CASE j = 0 -> 4 * x + y \div 16
    [] j = 1 -> 16 * (x % 16) + y \div 4
    [] j = 2 -> 64 * (x % 4) + y

\* What the second of two letters adds to the bits of the first.
Shifted(acc, c) == (acc * 64 + c) % 2^14

TopByte(a, j) == (a \div 2^(4 - 2 * j)) % 256
Lowest(a) == a % 64

LEMMA AccByte ==
  ASSUME NEW acc \in Nat, NEW c \in 0 .. 63
  PROVE  /\ Shifted(acc, c) \in Nat /\ Shifted(acc, c) % 64 = c
         /\ \A j \in 0 .. 2 : TopByte(Shifted(acc, c), j) = Joined(j, Lowest(acc), c)
<1>. DEFINE x == acc % 64
            a == Shifted(acc, c)
<1>1. 2^14 = 16384 /\ 2^4 = 16 /\ 2^2 = 4 /\ 2^0 = 1
  OBVIOUS
<1>2. /\ a \in Nat /\ a % 64 = c
      /\ (a \div 2^4) % 256 = 4 * x + c \div 16
      /\ (a \div 2^2) % 256 = 16 * (x % 16) + c \div 4
      /\ (a \div 2^0) % 256 = 64 * (x % 4) + c
  <2>. DEFINE z == acc % 256
  <2>1. a = 64 * z + c /\ z \in 0 .. 255 /\ x = z % 64
    BY <1>1 DEF Shifted
  <2>. HIDE DEF x, z, a
  <2>2. /\ a \in Nat /\ a % 64 = c
        /\ (a \div 16) % 256 = 4 * (z % 64) + c \div 16
    BY <2>1
  <2>3. (a \div 4) % 256 = 16 * ((z % 64) % 16) + c \div 4
    BY <2>1
  <2>4. (a \div 1) % 256 = 64 * ((z % 64) % 4) + c
    BY <2>1
  <2>. QED
    BY <1>1, <2>1, <2>2, <2>3, <2>4
<1>. HIDE DEF x, a
<1>3. ASSUME NEW j \in 0 .. 2 PROVE (a \div 2^(4 - 2 * j)) % 256 = Joined(j, x, c)
  <2>1. CASE j = 0
    BY <1>2, <2>1 DEF Joined
  <2>2. CASE j = 1
    BY <1>2, <2>2 DEF Joined
  <2>3. CASE j = 2
    BY <1>2, <2>3 DEF Joined
  <2>. QED
    BY <2>1, <2>2, <2>3
<1>. QED
  BY <1>2, <1>3 DEF x, a, TopByte, Lowest

LEMMA JoinedIs ==
  ASSUME NEW j \in 0 .. 2, NEW x \in Int, NEW y \in 0 .. 63
  PROVE  Joined(j, x, y) \in Int
<1>1. j = 0 \/ j = 1 \/ j = 2
  OBVIOUS
<1>2. /\ 4 * x + y \div 16 \in Int /\ 16 * (x % 16) + y \div 4 \in Int
      /\ 64 * (x % 4) + y \in Int
  OBVIOUS
<1>. QED
  BY <1>1, <1>2 DEF Joined

LEMMA LetterByteIs ==
  ASSUME NEW s, NEW q \in Nat, NEW j \in 0 .. 2,
         s[4 * q + j + 1] \in 0 .. 63, s[4 * q + j + 2] \in 0 .. 63
  PROVE  LetterByte(s, 24 * q + 8 * j) = Joined(j, s[4 * q + j + 1], s[4 * q + j + 2])
<1>. DEFINE bit(x, r) == (x \div 2^(5 - r)) % 2
            x == s[4 * q + j + 1]
            y == s[4 * q + j + 2]
<1>1. \A k \in 0 .. 3, r \in 0 .. 5 :
        LetterBit(s, 24 * q + 6 * k + r) = bit(s[4 * q + k + 1], r)
  BY BitPlace DEF LetterBit
<1>. HIDE DEF bit
<1>2. \A r \in 0 .. 5 : /\ LetterBit(s, 24 * q + 6 * j + r) = bit(x, r)
                        /\ LetterBit(s, 24 * q + 6 * j + 6 + r) = bit(y, r)
  <2>1. j \in 0 .. 3 /\ j + 1 \in 0 .. 3 /\ 4 * q + (j + 1) + 1 = 4 * q + j + 2
        /\ \A r \in 0 .. 5 : 24 * q + 6 * (j + 1) + r = 24 * q + 6 * j + 6 + r
    OBVIOUS
  <2>. QED
    BY <1>1, <2>1
<1>3. /\ x \div 16 = 2 * bit(x, 0) + bit(x, 1)
      /\ x \div 4 = 8 * bit(x, 0) + 4 * bit(x, 1) + 2 * bit(x, 2) + bit(x, 3)
      /\ x = 32 * bit(x, 0) + 16 * bit(x, 1) + 8 * bit(x, 2) + 4 * bit(x, 3)
               + 2 * bit(x, 4) + bit(x, 5)
      /\ x % 16 = 8 * bit(x, 2) + 4 * bit(x, 3) + 2 * bit(x, 4) + bit(x, 5)
      /\ x % 4 = 2 * bit(x, 4) + bit(x, 5)
  BY SixBits DEF bit
<1>4. /\ y \div 16 = 2 * bit(y, 0) + bit(y, 1)
      /\ y \div 4 = 8 * bit(y, 0) + 4 * bit(y, 1) + 2 * bit(y, 2) + bit(y, 3)
      /\ y = 32 * bit(y, 0) + 16 * bit(y, 1) + 8 * bit(y, 2) + 4 * bit(y, 3)
               + 2 * bit(y, 4) + bit(y, 5)
  BY SixBits DEF bit
<1>5. \A r \in 0 .. 5 : bit(x, r) \in Int /\ bit(y, r) \in Int
  <2>1. \A r \in 0 .. 5 : 2^(5 - r) \in {1, 2, 4, 8, 16, 32}
    <3>1. /\ 2^(5 - 0) = 32 /\ 2^(5 - 1) = 16 /\ 2^(5 - 2) = 8 /\ 2^(5 - 3) = 4
          /\ 2^(5 - 4) = 2 /\ 2^(5 - 5) = 1
      OBVIOUS
    <3>2. ASSUME NEW r \in 0 .. 5
          PROVE  r = 0 \/ r = 1 \/ r = 2 \/ r = 3 \/ r = 4 \/ r = 5
      OBVIOUS
    <3>. QED
      BY <3>1, <3>2
  <2>2. \A z \in 0 .. 63, u \in {1, 2, 4, 8, 16, 32} : (z \div u) % 2 \in Int
    OBVIOUS
  <2>. QED
    BY <2>1, <2>2 DEF bit
<1>. DEFINE at == 24 * q + 8 * j
<1>6. LetterByte(s, at) =
        128 * LetterBit(s, at) + 64 * LetterBit(s, at + 1) + 32 * LetterBit(s, at + 2)
          + 16 * LetterBit(s, at + 3) + 8 * LetterBit(s, at + 4) + 4 * LetterBit(s, at + 5)
          + 2 * LetterBit(s, at + 6) + LetterBit(s, at + 7)
  BY DEF LetterByte
<1>7. CASE j = 0
  <2>1. /\ LetterBit(s, at) = bit(x, 0) /\ LetterBit(s, at + 1) = bit(x, 1)
        /\ LetterBit(s, at + 2) = bit(x, 2) /\ LetterBit(s, at + 3) = bit(x, 3)
        /\ LetterBit(s, at + 4) = bit(x, 4) /\ LetterBit(s, at + 5) = bit(x, 5)
        /\ LetterBit(s, at + 6) = bit(y, 0) /\ LetterBit(s, at + 7) = bit(y, 1)
    <3>1. /\ at = 24 * q + 6 * j + 0 /\ at + 1 = 24 * q + 6 * j + 1
          /\ at + 2 = 24 * q + 6 * j + 2 /\ at + 3 = 24 * q + 6 * j + 3
          /\ at + 4 = 24 * q + 6 * j + 4 /\ at + 5 = 24 * q + 6 * j + 5
          /\ at + 6 = 24 * q + 6 * j + 6 + 0 /\ at + 7 = 24 * q + 6 * j + 6 + 1
      BY <1>7
    <3>. HIDE DEF at, x, y
    <3>. QED
      BY <1>2, <3>1
  <2>. HIDE DEF at, x, y
  <2>2. LetterByte(s, at) = 4 * x + y \div 16
    BY <1>3, <1>4, <1>5, <1>6, <2>1
  <2>. QED
    BY <1>7, <2>2 DEF at, x, y, Joined
<1>8. CASE j = 1
  <2>1. /\ LetterBit(s, at) = bit(x, 2) /\ LetterBit(s, at + 1) = bit(x, 3)
        /\ LetterBit(s, at + 2) = bit(x, 4) /\ LetterBit(s, at + 3) = bit(x, 5)
        /\ LetterBit(s, at + 4) = bit(y, 0) /\ LetterBit(s, at + 5) = bit(y, 1)
        /\ LetterBit(s, at + 6) = bit(y, 2) /\ LetterBit(s, at + 7) = bit(y, 3)
    <3>1. /\ at = 24 * q + 6 * j + 2 /\ at + 1 = 24 * q + 6 * j + 3
          /\ at + 2 = 24 * q + 6 * j + 4 /\ at + 3 = 24 * q + 6 * j + 5
          /\ at + 4 = 24 * q + 6 * j + 6 + 0 /\ at + 5 = 24 * q + 6 * j + 6 + 1
          /\ at + 6 = 24 * q + 6 * j + 6 + 2 /\ at + 7 = 24 * q + 6 * j + 6 + 3
      BY <1>8
    <3>. HIDE DEF at, x, y
    <3>. QED
      BY <1>2, <3>1
  <2>. HIDE DEF at, x, y
  <2>2. LetterByte(s, at) = 16 * (x % 16) + y \div 4
    BY <1>3, <1>4, <1>5, <1>6, <2>1
  <2>. QED
    BY <1>8, <2>2 DEF at, x, y, Joined
<1>9. CASE j = 2
  <2>1. /\ LetterBit(s, at) = bit(x, 4) /\ LetterBit(s, at + 1) = bit(x, 5)
        /\ LetterBit(s, at + 2) = bit(y, 0) /\ LetterBit(s, at + 3) = bit(y, 1)
        /\ LetterBit(s, at + 4) = bit(y, 2) /\ LetterBit(s, at + 5) = bit(y, 3)
        /\ LetterBit(s, at + 6) = bit(y, 4) /\ LetterBit(s, at + 7) = bit(y, 5)
    <3>1. /\ at = 24 * q + 6 * j + 4 /\ at + 1 = 24 * q + 6 * j + 5
          /\ at + 2 = 24 * q + 6 * j + 6 + 0 /\ at + 3 = 24 * q + 6 * j + 6 + 1
          /\ at + 4 = 24 * q + 6 * j + 6 + 2 /\ at + 5 = 24 * q + 6 * j + 6 + 3
          /\ at + 6 = 24 * q + 6 * j + 6 + 4 /\ at + 7 = 24 * q + 6 * j + 6 + 5
      BY <1>9
    <3>. HIDE DEF at, x, y
    <3>. QED
      BY <1>2, <3>1
  <2>. HIDE DEF at, x, y
  <2>2. LetterByte(s, at) = 64 * (x % 4) + y
    BY <1>3, <1>4, <1>5, <1>6, <2>1
  <2>. QED
    BY <1>9, <2>2 DEF at, x, y, Joined
<1>. QED
  BY <1>7, <1>8, <1>9

\* How many bytes m letters hold, and how many bits more.
LEMMA Sixes ==
  ASSUME NEW m \in Nat
  PROVE  LET q == m \div 4
             j == (m % 4) - 1
         IN /\ q \in Nat
            /\ m % 4 = 0 => /\ m = 4 * q
                            /\ (6 * m) % 8 = 0 /\ (6 * (m + 1)) % 8 = 6
                            /\ (6 * (m + 1)) \div 8 = (6 * m) \div 8
            /\ m % 4 # 0 => /\ j \in 0 .. 2 /\ m = 4 * q + j + 1
                            /\ (6 * m) % 8 = 6 - 2 * j /\ (6 * (m + 1)) % 8 = 4 - 2 * j
                            /\ (6 * m) \div 8 = 3 * q + j
                            /\ (6 * (m + 1)) \div 8 = 3 * q + j + 1
            /\ (6 * m) \div 8 \in Nat /\ (6 * m) % 8 \in 0 .. 6
            /\ (6 * m) % 8 >= 6 <=> m % 4 = 1
OBVIOUS

\* A byte depends on the letters that hold its bits only.
LEMMA BytesOfFront ==
  ASSUME NEW s, NEW t, NEW m \in Nat, \A i \in 1 .. m : s[i] = t[i],
         NEW k \in 1 .. (6 * m) \div 8
  PROVE  LetterByte(s, 8 * (k - 1)) = LetterByte(t, 8 * (k - 1))
<1>. DEFINE at == 8 * (k - 1)
<1>1. at \in Nat /\ at + 7 < 6 * m
  OBVIOUS
<1>. HIDE DEF at
<1>2. ASSUME NEW i \in at .. at + 7 PROVE LetterBit(s, i) = LetterBit(t, i)
  <2>1. i \div 6 + 1 \in 1 .. m
    BY <1>1
  <2>. QED
    BY <2>1 DEF LetterBit
<1>3. \A r \in 0 .. 7 : at + r \in at .. at + 7
  BY <1>1
<1>4. /\ at \in at .. at + 7 /\ at + 1 \in at .. at + 7 /\ at + 2 \in at .. at + 7
      /\ at + 3 \in at .. at + 7 /\ at + 4 \in at .. at + 7 /\ at + 5 \in at .. at + 7
      /\ at + 6 \in at .. at + 7 /\ at + 7 \in at .. at + 7
  BY <1>1
<1>. QED
  BY <1>2, <1>4 DEF LetterByte, at

Chars == 0 .. Other

\* What Seen and Decoded go through.
NextSeen(s, c) == IF c = Newline THEN s ELSE Append(s, c)
SeenBy(text) ==
  CHOOSE seen : seen = [k \in 0 .. Len(text) |->
    IF k = 0 THEN <<>> ELSE NextSeen(seen[k - 1], text[k])]

NoState == [out |-> <<>>, acc |-> 0, bits |-> 0, pad |-> 0, failed |-> FALSE]
States == [out : Seq(Int), acc : Nat, bits : 0 .. 7, pad : Nat, failed : BOOLEAN]
DecodedBy(text, cap) ==
  CHOOSE d : d = [k \in 0 .. Len(text) |->
    IF k = 0 THEN NoState ELSE DecodeChar(d[k - 1], text[k], cap)]

LEMMA SeenLast == \A text : Seen(text) = SeenBy(text)[Len(text)]
BY DEF Seen, SeenBy, NextSeen

LEMMA DecodedLast == \A text, cap : Decoded(text, cap) = DecodedBy(text, cap)[Len(text)]
BY DEF Decoded, DecodedBy, NoState

LEMMA SeenSteps ==
  ASSUME NEW text \in Seq(Chars)
  PROVE  LET f == SeenBy(text)
         IN /\ f[0] = <<>> /\ \A k \in 0 .. Len(text) : f[k] \in Seq(Chars)
            /\ \A k \in 1 .. Len(text) : f[k] = NextSeen(f[k - 1], text[k])
<1>. DEFINE n == Len(text)
            V == Seq(Chars)
            S == [k \in 1 .. n |-> [s \in V |-> NextSeen(s, text[k])]]
            F(f) == [k \in 0 .. n |-> IF k = 0 THEN <<>> ELSE NextSeen(f[k - 1], text[k])]
<1>0. /\ n \in Nat /\ \A k \in 1 .. n : k \in 0 .. n /\ k - 1 \in 0 .. n /\ k # 0
      /\ 0 \in 0 .. n /\ \A k \in 0 .. n : k # 0 => k \in 1 .. n
  OBVIOUS
<1>1. ASSUME NEW k \in 1 .. n, NEW s \in V PROVE NextSeen(s, text[k]) \in V
  <2>1. text[k] \in Chars
    OBVIOUS
  <2>. QED
    BY <2>1 DEF NextSeen
<1>2. S \in [1 .. n -> [V -> V]] /\ <<>> \in V
  BY <1>1
<1>3. \A k \in 1 .. n, s \in V : S[k][s] = NextSeen(s, text[k])
  OBVIOUS
<1>. HIDE DEF S, V, n
<1>4. PICK g \in [0 .. n -> V] : Stepwise(g, n, <<>>, S)
  BY <1>0, <1>2, StepsExist
<1>5. g[0] = <<>> /\ \A k \in 1 .. n : g[k] = NextSeen(g[k - 1], text[k])
  BY <1>0, <1>3, <1>4 DEF Stepwise
<1>6. g = F(g)
  <2>1. g = [k \in 0 .. n |-> g[k]]
    BY <1>4
  <2>2. \A k \in 0 .. n : g[k] = IF k = 0 THEN <<>> ELSE NextSeen(g[k - 1], text[k])
    BY <1>0, <1>5
  <2>. QED
    BY <2>1, <2>2
<1>. DEFINE h == SeenBy(text)
<1>7. h = F(h)
  <2>. DEFINE Q(f) == f = F(f)
  <2>1. Q(g)
    BY <1>6
  <2>2. h = CHOOSE f : Q(f)
    BY DEF SeenBy, n
  <2>3. Q(h)
    <3>. HIDE DEF Q, h
    <3>. QED
      BY <2>1, <2>2
  <2>. QED
    BY <2>3
<1>. HIDE DEF h
<1>8. h[0] = <<>> /\ \A k \in 1 .. n : h[k] = NextSeen(h[k - 1], text[k])
  BY <1>0, <1>7
<1>. DEFINE T == {k \in 0 .. n : h[k] \in V}
<1>9. \A k \in 1 .. n : k - 1 \in T => k \in T
  BY <1>0, <1>1, <1>8
<1>10. 0 \in T
  BY <1>0, <1>2, <1>8
<1>11. \A k \in 0 .. n : k \in T
  <2>. HIDE DEF T
  <2>. QED
    BY <1>0, <1>9, <1>10, Counting
<1>. QED
  BY <1>8, <1>11 DEF h, n, V

LEMMA DecodeCharStays ==
  ASSUME NEW d \in States, NEW c \in Chars, NEW cap
  PROVE  DecodeChar(d, c, cap) \in States
<1>1. d.bits \in 0 .. 7 /\ d.pad \in Nat /\ d.acc \in Nat /\ d.out \in Seq(Int)
      /\ d.failed \in BOOLEAN /\ c \in Int
  BY DEF States, Chars, Other
<1>2. CASE d.failed \/ c = Newline
  <2>1. Newline # Pad
    BY DEF Newline, Pad
  <2>2. DecodeChar(d, c, cap) = d
    BY <1>2, <2>1, Zenon DEF DecodeChar
  <2>. QED
    BY <2>2
<1>3. CASE ~d.failed /\ c = Pad
  <2>1. DecodeChar(d, c, cap) = [d EXCEPT !.pad = d.pad + 1]
    <3>1. c # Newline
      BY <1>3 DEF Pad, Newline
    <3>. QED
      BY <1>3, <3>1, Zenon DEF DecodeChar
  <2>2. d.pad + 1 \in Nat
    BY <1>1
  <2>3. [d EXCEPT !.pad = d.pad + 1] \in States
    BY <2>2 DEF States
  <2>. QED
    BY <2>1, <2>3
<1>4. CASE ~d.failed /\ c \notin {Newline, Pad}
  <2>. DEFINE acc == (d.acc * 64 + c) % 2^14
              left == d.bits + 6 - 8
              x == (acc \div 2^left) % 256
  <2>1. \/ DecodeChar(d, c, cap) = [d EXCEPT !.failed = TRUE]
        \/ DecodeChar(d, c, cap) =
             [d EXCEPT !.acc = acc, !.bits = IF left >= 0 THEN left ELSE d.bits + 6,
                       !.out = IF left >= 0 THEN Append(d.out, x) ELSE d.out]
    BY <1>4, Zenon DEF DecodeChar
  <2>2. acc \in Nat
    <3>1. 2^14 = 16384
      OBVIOUS
    <3>. QED
      BY <1>1, <3>1
  <2>3. left >= 0 => left \in 0 .. 5 /\ x \in Int
    <3>1. left >= 0 => left \in 0 .. 5
      BY <1>1
    <3>2. 2^0 = 1 /\ 2^1 = 2 /\ 2^2 = 4 /\ 2^3 = 8 /\ 2^4 = 16 /\ 2^5 = 32
      OBVIOUS
    <3>3. left \in 0 .. 5 => 2^left \in {1, 2, 4, 8, 16, 32}
      <4>. HIDE DEF left
      <4>1. left \in 0 .. 5 => left = 0 \/ left = 1 \/ left = 2 \/ left = 3 \/ left = 4 \/ left = 5
        OBVIOUS
      <4>. QED
        BY <3>2, <4>1
    <3>4. \A a \in Int, u \in {1, 2, 4, 8, 16, 32} : (a \div u) % 256 \in Int
      OBVIOUS
    <3>5. acc \in Int
      BY <2>2
    <3>. HIDE DEF acc, left
    <3>. QED
      BY <3>1, <3>3, <3>4, <3>5
  <2>4. (IF left >= 0 THEN left ELSE d.bits + 6) \in 0 .. 7
    BY <1>1
  <2>. HIDE DEF acc, left, x
  <2>5. (IF left >= 0 THEN Append(d.out, x) ELSE d.out) \in Seq(Int)
    BY <1>1, <2>3
  <2>. QED
    BY <2>1, <2>2, <2>4, <2>5 DEF States
<1>. QED
  BY <1>1, <1>2, <1>3, <1>4

LEMMA DecodedSteps ==
  ASSUME NEW text \in Seq(Chars), NEW cap
  PROVE  LET f == DecodedBy(text, cap)
         IN /\ f[0] = NoState /\ \A k \in 0 .. Len(text) : f[k] \in States
            /\ \A k \in 1 .. Len(text) : f[k] = DecodeChar(f[k - 1], text[k], cap)
<1>. DEFINE n == Len(text)
            V == States
            S == [k \in 1 .. n |-> [s \in V |-> DecodeChar(s, text[k], cap)]]
            F(f) == [k \in 0 .. n |-> IF k = 0 THEN NoState ELSE DecodeChar(f[k - 1], text[k], cap)]
<1>0. /\ n \in Nat /\ \A k \in 1 .. n : k \in 0 .. n /\ k - 1 \in 0 .. n /\ k # 0
      /\ 0 \in 0 .. n /\ \A k \in 0 .. n : k # 0 => k \in 1 .. n
  OBVIOUS
<1>1. ASSUME NEW k \in 1 .. n, NEW s \in V PROVE DecodeChar(s, text[k], cap) \in V
  <2>1. text[k] \in Chars
    OBVIOUS
  <2>. QED
    BY <2>1, DecodeCharStays
<1>2. S \in [1 .. n -> [V -> V]] /\ NoState \in V
  <2>1. NoState \in V
    BY DEF NoState, States
  <2>. HIDE DEF V
  <2>. QED
    BY <1>1, <2>1
<1>3. \A k \in 1 .. n, s \in V : S[k][s] = DecodeChar(s, text[k], cap)
  OBVIOUS
<1>. HIDE DEF S, V, n
<1>4. PICK g \in [0 .. n -> V] : Stepwise(g, n, NoState, S)
  BY <1>0, <1>2, StepsExist
<1>5. g[0] = NoState /\ \A k \in 1 .. n : g[k] = DecodeChar(g[k - 1], text[k], cap)
  BY <1>0, <1>3, <1>4 DEF Stepwise
<1>6. g = F(g)
  <2>1. g = [k \in 0 .. n |-> g[k]]
    BY <1>4
  <2>2. \A k \in 0 .. n : g[k] = IF k = 0 THEN NoState ELSE DecodeChar(g[k - 1], text[k], cap)
    BY <1>0, <1>5
  <2>. QED
    BY <2>1, <2>2
<1>. DEFINE h == DecodedBy(text, cap)
<1>7. h = F(h)
  <2>. DEFINE Q(f) == f = F(f)
  <2>1. Q(g)
    BY <1>6
  <2>2. h = CHOOSE f : Q(f)
    BY DEF DecodedBy, n
  <2>3. Q(h)
    <3>. HIDE DEF Q, h
    <3>. QED
      BY <2>1, <2>2
  <2>. QED
    BY <2>3
<1>. HIDE DEF h
<1>8. h[0] = NoState /\ \A k \in 1 .. n : h[k] = DecodeChar(h[k - 1], text[k], cap)
  BY <1>0, <1>7
<1>. DEFINE T == {k \in 0 .. n : h[k] \in V}
<1>9. \A k \in 1 .. n : k - 1 \in T => k \in T
  BY <1>0, <1>1, <1>8
<1>10. 0 \in T
  BY <1>0, <1>2, <1>8
<1>11. \A k \in 0 .. n : k \in T
  <2>. HIDE DEF T
  <2>. QED
    BY <1>0, <1>9, <1>10, Counting
<1>. QED
  BY <1>8, <1>11 DEF h, n, V

\* The first m characters are letters and the others padding.
Lettered(s, m) ==
  /\ m \in 0 .. Len(s)
  /\ \A i \in 1 .. m : s[i] < Pad
  /\ \A i \in m + 1 .. Len(s) : s[i] = Pad

\* What base64_decode has when it has not failed ...
Read(s, d, cap, m) ==
  /\ Lettered(s, m)
  /\ d.pad = Len(s) - m /\ d.bits = (6 * m) % 8
  /\ Len(d.out) = (6 * m) \div 8 /\ Len(d.out) <= cap
  /\ m > 0 => d.acc % 64 = s[m]
  /\ \A k \in 1 .. Len(d.out) : d.out[k] = LetterByte(s, 8 * (k - 1))

\* ... and why it has, whatever comes behind.
Doomed(s, cap) ==
  \/ \E i \in 1 .. Len(s) : s[i] = Other
  \/ \E i, j \in 1 .. Len(s) : i < j /\ s[i] = Pad /\ s[j] < Pad
  \/ \E n \in 1 .. Len(s) : (\A i \in 1 .. n : s[i] < Pad) /\ (6 * n) \div 8 > cap

InLoop(s, d, cap) ==
  /\ d.failed => Doomed(s, cap)
  /\ ~d.failed => \E m \in Nat : Read(s, d, cap, m)

LEMMA Behind ==
  ASSUME NEW s \in Seq(Chars), NEW c \in Chars
  PROVE  LET t == Append(s, c)
         IN /\ Len(t) = Len(s) + 1 /\ t[Len(s) + 1] = c /\ t \in Seq(Chars)
            /\ \A i \in 1 .. Len(s) : t[i] = s[i]
OBVIOUS

LEMMA DoomedStays ==
  ASSUME NEW s \in Seq(Chars), NEW c \in Chars, NEW cap, Doomed(s, cap)
  PROVE  Doomed(Append(s, c), cap)
<1>. DEFINE t == Append(s, c)
<1>1. /\ Len(s) \in Nat /\ Len(t) = Len(s) + 1 /\ \A i \in 1 .. Len(s) : t[i] = s[i]
      /\ 1 .. Len(s) \subseteq 1 .. Len(t)
  BY Behind
<1>. HIDE DEF t
<1>2. CASE \E i \in 1 .. Len(s) : s[i] = Other
  BY <1>1, <1>2 DEF Doomed, t
<1>3. CASE \E i, j \in 1 .. Len(s) : i < j /\ s[i] = Pad /\ s[j] < Pad
  <2>1. PICK i \in 1 .. Len(s), j \in 1 .. Len(s) : i < j /\ s[i] = Pad /\ s[j] < Pad
    BY <1>3
  <2>2. i \in 1 .. Len(t) /\ j \in 1 .. Len(t) /\ i < j /\ t[i] = Pad /\ t[j] < Pad
    BY <1>1, <2>1
  <2>. QED
    BY <2>2 DEF Doomed, t
<1>4. CASE \E n \in 1 .. Len(s) : (\A i \in 1 .. n : s[i] < Pad) /\ (6 * n) \div 8 > cap
  <2>1. PICK n \in 1 .. Len(s) : (\A i \in 1 .. n : s[i] < Pad) /\ (6 * n) \div 8 > cap
    BY <1>4
  <2>2. n \in 1 .. Len(t) /\ \A i \in 1 .. n : t[i] < Pad
    <3>1. \A i \in 1 .. n : i \in 1 .. Len(s)
      BY <1>1
    <3>. QED
      BY <1>1, <2>1, <3>1
  <2>. QED
    BY <2>1, <2>2 DEF Doomed, t
<1>. QED
  BY <1>2, <1>3, <1>4 DEF Doomed

\* A letter that base64_decode takes.
Taken(d, c) ==
  LET left == d.bits + 6 - 8
      acc == (d.acc * 64 + c) % 2^14
  IN [d EXCEPT !.acc = acc,
               !.bits = IF left >= 0 THEN left ELSE @ + 6,
               !.out = IF left >= 0 THEN Append(@, (acc \div 2^left) % 256) ELSE @]

LEMMA LetterTaken ==
  ASSUME NEW s \in Seq(Chars), NEW d \in States, NEW c \in 0 .. 63, NEW cap \in Nat,
         Read(s, d, cap, Len(s)),
         ~(d.bits >= 2 /\ Len(d.out) >= cap)
  PROVE  Read(Append(s, c), Taken(d, c), cap, Len(s) + 1)
<1>. DEFINE m == Len(s)
            e == Taken(d, c)
            left == d.bits + 6 - 8
            acc == Shifted(d.acc, c)
            x == (acc \div 2^left) % 256
            bits == IF left >= 0 THEN left ELSE d.bits + 6
            bytes == IF left >= 0 THEN Append(d.out, x) ELSE d.out
            t == Append(s, c)
            q == m \div 4
            j == (m % 4) - 1
            n == Len(d.out)
            o == d.out
<1>1. /\ m \in Nat /\ d.acc \in Nat /\ o \in Seq(Int) /\ n \in Nat
      /\ n = (6 * m) \div 8 /\ n <= cap
  BY DEF Read, Lettered, States
<1>2. d.bits = (6 * m) % 8 /\ d.pad = 0
  BY <1>1 DEF Read, Lettered
<1>3. /\ m > 0 => d.acc % 64 = s[m]
      /\ \A k \in 1 .. n : o[k] = LetterByte(s, 8 * (k - 1))
      /\ \A i \in 1 .. m : s[i] < Pad
  BY DEF Read, Lettered
<1>4. /\ Len(t) = m + 1 /\ t[m + 1] = c /\ t \in Seq(Chars)
      /\ \A i \in 1 .. m : t[i] = s[i]
  <2>1. c \in Chars
    BY DEF Chars, Other
  <2>. QED
    BY <2>1, Behind
<1>5. e.acc = acc /\ e.bits = bits /\ e.out = bytes /\ e.pad = d.pad
  <2>1. e = [d EXCEPT !.acc = acc, !.bits = bits, !.out = bytes]
    BY DEF Taken, Shifted
  <2>. HIDE DEF e, acc, bits, bytes
  <2>. QED
    BY <2>1 DEF States
<1>. HIDE DEF acc, bits, bytes, x
<1>6. /\ acc % 64 = c /\ acc \in Nat
      /\ \A i \in 0 .. 2 : TopByte(acc, i) = Joined(i, Lowest(d.acc), c)
  <2>1. d.acc \in Nat
    BY <1>1
  <2>. QED
    BY <2>1, AccByte DEF acc
<1>. HIDE DEF t, m, e, n, o, left
<1>7. ASSUME NEW k \in 1 .. n PROVE o[k] = LetterByte(t, 8 * (k - 1))
  <2>1. k \in 1 .. (6 * m) \div 8 /\ m \in Nat
    BY <1>1
  <2>2. \A i \in 1 .. m : s[i] = t[i]
    BY <1>4
  <2>3. LetterByte(s, 8 * (k - 1)) = LetterByte(t, 8 * (k - 1))
    BY <2>1, <2>2, BytesOfFront
  <2>. QED
    BY <1>3, <2>3
<1>8. Lettered(t, m + 1)
  <2>1. m \in Nat /\ c < Pad
    BY <1>1 DEF Pad
  <2>2. \A i \in 1 .. m + 1 : i \in 1 .. m \/ i = m + 1
    BY <2>1
  <2>3. \A i \in 1 .. m + 1 : t[i] < Pad
    BY <1>3, <1>4, <2>1, <2>2
  <2>4. m + 1 \in 0 .. Len(t) /\ \A i \in m + 1 + 1 .. Len(t) : FALSE
    BY <1>4, <2>1
  <2>. QED
    BY <2>3, <2>4 DEF Lettered
<1>9. /\ m % 4 = 0 => /\ (6 * m) % 8 = 0 /\ (6 * (m + 1)) % 8 = 6
                      /\ (6 * (m + 1)) \div 8 = (6 * m) \div 8
      /\ m % 4 # 0 => /\ j \in 0 .. 2 /\ m = 4 * q + j + 1 /\ q \in Nat
                      /\ (6 * m) % 8 = 6 - 2 * j /\ (6 * (m + 1)) % 8 = 4 - 2 * j
                      /\ (6 * m) \div 8 = 3 * q + j
                      /\ (6 * (m + 1)) \div 8 = 3 * q + j + 1
  <2>1. m \in Nat
    BY <1>1
  <2>. QED
    BY <2>1, Sixes
<1>. HIDE DEF q, j
<1>10. e.pad = Len(t) - (m + 1) /\ e.acc % 64 = t[m + 1]
  BY <1>1, <1>2, <1>4, <1>5, <1>6
<1>11. CASE m % 4 = 0
  <2>1. d.bits = 0 /\ (6 * (m + 1)) % 8 = 6 /\ (6 * (m + 1)) \div 8 = n
    BY <1>1, <1>2, <1>9, <1>11
  <2>2. left < 0 /\ bits = 6 /\ bytes = o
    BY <2>1 DEF o, left, bits, bytes
  <2>3. e.bits = (6 * (m + 1)) % 8 /\ e.out = o /\ Len(e.out) = (6 * (m + 1)) \div 8
    BY <1>5, <2>1, <2>2 DEF n, o
  <2>. QED
    BY <1>1, <1>7, <1>8, <1>10, <2>1, <2>3 DEF Read, e, t, m
<1>12. CASE m % 4 # 0
  <2>1. /\ q \in Nat /\ j \in 0 .. 2 /\ m = 4 * q + j + 1 /\ d.bits = 6 - 2 * j
        /\ (6 * (m + 1)) % 8 = 4 - 2 * j /\ n = 3 * q + j
        /\ (6 * (m + 1)) \div 8 = n + 1
    BY <1>1, <1>2, <1>9, <1>12
  <2>2. left = 4 - 2 * j /\ left >= 0
    BY <2>1 DEF left
  <2>3. bits = 4 - 2 * j /\ bytes = Append(o, x)
    BY <2>2 DEF o, bits, bytes
  <2>4. n + 1 <= cap
    BY <1>1, <2>1 DEF n, o
  <2>5. x = Joined(j, d.acc % 64, c)
    BY <1>6, <2>1, <2>2 DEF x, TopByte, Lowest
  <2>6. x \in Int
    <3>1. d.acc % 64 \in Int
      BY <1>1
    <3>. QED
      BY <2>1, <2>5, <3>1, JoinedIs
  <2>7. x = LetterByte(t, 8 * n)
    <3>1. m \in 1 .. m /\ m + 1 = 4 * q + j + 2 /\ m > 0
      BY <2>1
    <3>2. d.acc % 64 = t[m] /\ t[m] < Pad
      BY <1>3, <1>4, <3>1
    <3>3. t[m] \in 0 .. 63
      <4>1. \A u \in Nat : u % 64 \in 0 .. 63
        OBVIOUS
      <4>. QED
        BY <1>1, <3>2, <4>1
    <3>4. /\ t[4 * q + j + 1] = t[m] /\ t[4 * q + j + 2] = c
          /\ t[4 * q + j + 1] \in 0 .. 63 /\ t[4 * q + j + 2] \in 0 .. 63
      BY <1>4, <2>1, <3>1, <3>3
    <3>5. LetterByte(t, 24 * q + 8 * j) = Joined(j, t[4 * q + j + 1], t[4 * q + j + 2])
      BY <2>1, <3>4, LetterByteIs
    <3>6. 24 * q + 8 * j = 8 * n
      BY <2>1
    <3>. QED
      BY <2>5, <3>2, <3>4, <3>5, <3>6
  <2>8. /\ Len(bytes) = n + 1 /\ bytes[n + 1] = x
        /\ \A k \in 1 .. n : bytes[k] = o[k]
    <3>1. o \in Seq(Int) /\ n = Len(o) /\ x \in Int /\ bytes = Append(o, x)
      BY <1>1, <2>3, <2>6 DEF n, o
    <3>. QED
      BY <3>1
  <2>9. ASSUME NEW k \in 1 .. n + 1 PROVE bytes[k] = LetterByte(t, 8 * (k - 1))
    <3>1. CASE k \in 1 .. n
      BY <1>7, <2>8, <3>1
    <3>2. CASE k = n + 1
      <4>1. 8 * (k - 1) = 8 * n
        BY <1>1, <3>2
      <4>. QED
        BY <2>7, <2>8, <3>2, <4>1
    <3>. QED
      BY <1>1, <3>1, <3>2
  <2>10. e.bits = (6 * (m + 1)) % 8 /\ Len(e.out) = (6 * (m + 1)) \div 8 /\ Len(e.out) = n + 1
    BY <1>5, <2>1, <2>3, <2>8
  <2>11. \A k \in 1 .. Len(e.out) : e.out[k] = LetterByte(t, 8 * (k - 1))
    BY <1>5, <2>9, <2>10
  <2>12. m + 1 > 0 => e.acc % 64 = t[m + 1]
    BY <1>10
  <2>13. e.pad = Len(t) - (m + 1) /\ Len(e.out) <= cap
    BY <1>10, <2>4, <2>10
  <2>14. Read(t, e, cap, m + 1)
    BY <1>8, <2>10, <2>11, <2>12, <2>13 DEF Read
  <2>. QED
    BY <2>14 DEF e, t, m
<1>. QED
  BY <1>11, <1>12

\* One round of the loop of base64_decode.
LEMMA LoopKeeps ==
  ASSUME NEW s \in Seq(Chars), NEW d \in States, NEW c \in Chars, NEW cap \in Nat,
         InLoop(s, d, cap)
  PROVE  InLoop(NextSeen(s, c), DecodeChar(d, c, cap), cap)
<1>. DEFINE t == Append(s, c)
            e == DecodeChar(d, c, cap)
<1>1. /\ Len(t) = Len(s) + 1 /\ t[Len(s) + 1] = c /\ t \in Seq(Chars)
      /\ \A i \in 1 .. Len(s) : t[i] = s[i]
  BY Behind
<1>2. Newline # Pad /\ Len(s) \in Nat /\ d.pad \in Nat /\ d.failed \in BOOLEAN
  BY DEF Newline, Pad, States
<1>. HIDE DEF t, e
<1>3. CASE c = Newline
  <2>1. e = d
    BY <1>2, <1>3, Zenon DEF DecodeChar, e
  <2>2. NextSeen(s, c) = s
    BY <1>3 DEF NextSeen
  <2>. QED
    BY <2>1, <2>2 DEF e
<1>4. ASSUME c # Newline PROVE NextSeen(s, c) = t
  BY <1>4 DEF NextSeen, t
<1>5. CASE c # Newline /\ d.failed
  <2>1. e = d
    BY <1>5, Zenon DEF DecodeChar, e
  <2>2. Doomed(t, cap)
    BY <1>5, DoomedStays DEF InLoop, t
  <2>. QED
    BY <1>4, <1>5, <2>1, <2>2 DEF InLoop, e
<1>6. CASE ~d.failed /\ c = Pad
  <2>1. e = [d EXCEPT !.pad = d.pad + 1]
    BY <1>2, <1>6, Zenon DEF DecodeChar, e
  <2>2. /\ e.pad = d.pad + 1 /\ e.failed = d.failed /\ e.bits = d.bits
        /\ e.out = d.out /\ e.acc = d.acc
    BY <2>1 DEF States
  <2>3. PICK m \in Nat : Read(s, d, cap, m)
    BY <1>6 DEF InLoop
  <2>4. Lettered(s, m) /\ m \in 0 .. Len(s)
    BY <2>3 DEF Read, Lettered
  <2>5. Lettered(t, m)
    <3>1. \A i \in 1 .. m : i \in 1 .. Len(s)
      BY <1>2, <2>4
    <3>2. \A i \in 1 .. m : t[i] < Pad
      BY <1>1, <2>4, <3>1 DEF Lettered
    <3>3. \A i \in m + 1 .. Len(t) : i \in m + 1 .. Len(s) \/ i = Len(s) + 1
      BY <1>1, <1>2, <2>4
    <3>4. \A i \in m + 1 .. Len(t) : t[i] = Pad
      <4>1. ASSUME NEW i \in m + 1 .. Len(t) PROVE t[i] = Pad
        <5>1. CASE i \in m + 1 .. Len(s)
          <6>1. i \in 1 .. Len(s) /\ s[i] = Pad
            BY <1>2, <2>4, <5>1 DEF Lettered
          <6>. QED
            BY <1>1, <6>1
        <5>2. CASE i = Len(s) + 1
          BY <1>1, <1>6, <5>2
        <5>. QED
          BY <3>3, <5>1, <5>2
      <4>. QED
        BY <4>1
    <3>5. m \in 0 .. Len(t)
      BY <1>1, <1>2, <2>4
    <3>. QED
      BY <3>2, <3>4, <3>5 DEF Lettered
  <2>6. e.pad = Len(t) - m
    <3>1. d.pad = Len(s) - m
      BY <2>3 DEF Read
    <3>. QED
      BY <1>1, <1>2, <2>2, <2>4, <3>1
  <2>7. m > 0 => e.acc % 64 = t[m]
    <3>1. m > 0 => d.acc % 64 = s[m] /\ m \in 1 .. Len(s)
      BY <1>2, <2>3, <2>4 DEF Read
    <3>. QED
      BY <1>1, <2>2, <3>1
  <2>8. /\ e.bits = (6 * m) % 8 /\ Len(e.out) = (6 * m) \div 8 /\ Len(e.out) <= cap
        /\ \A k \in 1 .. Len(e.out) : e.out[k] = LetterByte(s, 8 * (k - 1))
    BY <2>2, <2>3 DEF Read
  <2>9. ASSUME NEW k \in 1 .. Len(e.out) PROVE e.out[k] = LetterByte(t, 8 * (k - 1))
    <3>1. k \in 1 .. (6 * m) \div 8
      BY <2>8
    <3>2. \A i \in 1 .. m : s[i] = t[i]
      BY <1>1, <1>2, <2>4
    <3>3. LetterByte(s, 8 * (k - 1)) = LetterByte(t, 8 * (k - 1))
      BY <3>1, <3>2, BytesOfFront
    <3>. QED
      BY <2>8, <3>3
  <2>10. Read(t, e, cap, m)
    BY <2>5, <2>6, <2>7, <2>8, <2>9 DEF Read
  <2>. QED
    BY <1>2, <1>4, <1>6, <2>2, <2>10 DEF InLoop, e
<1>7. CASE ~d.failed /\ c \notin {Newline, Pad}
  <2>. DEFINE left == d.bits + 6 - 8
              full == c = Other \/ d.pad > 0 \/ (left >= 0 /\ Len(d.out) >= cap)
  <2>1. e = IF full THEN [d EXCEPT !.failed = TRUE] ELSE Taken(d, c)
    BY <1>7, Zenon DEF DecodeChar, e, Taken
  <2>2. PICK m \in Nat : Read(s, d, cap, m)
    BY <1>7 DEF InLoop
  <2>3. Lettered(s, m) /\ m \in 0 .. Len(s) /\ d.pad = Len(s) - m
    BY <2>2 DEF Read, Lettered
  <2>4. c # Other => c \in 0 .. 63
    BY <1>7 DEF Chars, Other, Newline, Pad
  <2>5. Len(s) + 1 \in 1 .. Len(t)
    BY <1>1, <1>2
  <2>6. CASE c = Other
    <3>1. Doomed(t, cap)
      BY <1>1, <2>5, <2>6 DEF Doomed
    <3>2. e.failed
      BY <2>1, <2>6 DEF States
    <3>. QED
      BY <1>4, <1>7, <3>1, <3>2 DEF InLoop, e
  <2>7. CASE c # Other /\ d.pad > 0
    <3>1. m + 1 \in 1 .. Len(s) /\ s[m + 1] = Pad
      <4>1. m + 1 \in m + 1 .. Len(s)
        BY <1>2, <2>3, <2>7
      <4>. QED
        BY <1>2, <2>3, <4>1 DEF Lettered
    <3>2. t[m + 1] = Pad /\ t[Len(s) + 1] < Pad /\ m + 1 < Len(s) + 1 /\ m + 1 \in 1 .. Len(t)
      <4>1. c \in 0 .. 63
        BY <2>4, <2>7
      <4>2. c < Pad
        BY <4>1 DEF Pad
      <4>. QED
        BY <1>1, <1>2, <3>1, <4>2
    <3>3. Doomed(t, cap)
      BY <2>5, <3>2 DEF Doomed
    <3>4. e.failed
      BY <2>1, <2>7 DEF States
    <3>. QED
      BY <1>4, <1>7, <3>3, <3>4 DEF InLoop, e
  <2>8. ASSUME c # Other, ~(d.pad > 0) PROVE m = Len(s) /\ c \in 0 .. 63 /\ \A i \in 1 .. Len(t) : t[i] < Pad
    <3>1. m = Len(s) /\ c \in 0 .. 63
      BY <1>2, <2>3, <2>4, <2>8
    <3>2. c < Pad
      BY <3>1 DEF Pad
    <3>3. \A i \in 1 .. Len(t) : i \in 1 .. Len(s) \/ i = Len(s) + 1
      BY <1>1, <1>2
    <3>4. \A i \in 1 .. Len(s) : s[i] < Pad
      BY <2>3, <3>1 DEF Lettered
    <3>5. \A i \in 1 .. Len(t) : t[i] < Pad
      BY <1>1, <3>2, <3>3, <3>4
    <3>. QED
      BY <3>1, <3>5
  <2>9. CASE c # Other /\ ~(d.pad > 0) /\ left >= 0 /\ Len(d.out) >= cap
    <3>1. m = Len(s) /\ \A i \in 1 .. Len(t) : t[i] < Pad
      BY <2>8, <2>9
    <3>2. d.bits = (6 * m) % 8 /\ Len(d.out) = (6 * m) \div 8 /\ d.bits >= 2
      BY <2>2, <2>9 DEF Read, States
    <3>3. (6 * (m + 1)) \div 8 = (6 * m) \div 8 + 1 /\ (6 * m) \div 8 \in Nat
      BY <3>2, Sixes
    <3>4. (6 * (m + 1)) \div 8 > cap
      <4>1. Len(d.out) >= cap
        BY <2>9
      <4>. HIDE DEF left
      <4>. QED
        BY <3>2, <3>3, <4>1
    <3>5. Len(t) = m + 1 /\ Len(t) \in 1 .. Len(t)
      BY <1>1, <1>2, <3>1
    <3>6. Doomed(t, cap)
      BY <3>1, <3>4, <3>5 DEF Doomed
    <3>7. e.failed
      BY <2>1, <2>9 DEF States
    <3>. QED
      BY <1>4, <1>7, <3>6, <3>7 DEF InLoop, e
  <2>10. CASE c # Other /\ ~(d.pad > 0) /\ ~(left >= 0 /\ Len(d.out) >= cap)
    <3>1. m = Len(s) /\ c \in 0 .. 63
      BY <2>8, <2>10
    <3>2. e = Taken(d, c)
      BY <2>1, <2>10
    <3>3. d.bits \in Int
      BY DEF States
    <3>4. ~(d.bits >= 2 /\ Len(d.out) >= cap)
      BY <2>10, <3>3
    <3>5. Read(t, e, cap, Len(s) + 1)
      BY <2>2, <3>1, <3>2, <3>4, LetterTaken DEF t
    <3>6. e.failed = d.failed
      BY <3>2 DEF Taken, States
    <3>7. Len(s) + 1 \in Nat
      BY <1>2
    <3>. QED
      BY <1>4, <1>7, <3>5, <3>6, <3>7 DEF InLoop, e
  <2>. QED
    BY <2>6, <2>7, <2>9, <2>10
<1>. QED
  BY <1>2, <1>3, <1>5, <1>6, <1>7

LEMMA LetteredOnce ==
  ASSUME NEW s, Len(s) \in Nat, NEW m, NEW n, Lettered(s, m), Lettered(s, n)
  PROVE  m = n
<1>1. m \in 0 .. Len(s) /\ n \in 0 .. Len(s) /\ Pad \in Int
  BY DEF Lettered, Pad
<1>2. ASSUME m < n PROVE FALSE
  <2>1. m + 1 \in 1 .. n /\ m + 1 \in m + 1 .. Len(s)
    BY <1>1, <1>2
  <2>2. s[m + 1] < Pad /\ s[m + 1] = Pad
    BY <2>1 DEF Lettered
  <2>. QED
    BY <1>1, <2>2
<1>3. ASSUME n < m PROVE FALSE
  <2>1. n + 1 \in 1 .. m /\ n + 1 \in n + 1 .. Len(s)
    BY <1>1, <1>3
  <2>2. s[n + 1] < Pad /\ s[n + 1] = Pad
    BY <2>1 DEF Lettered
  <2>. QED
    BY <1>1, <2>2
<1>. QED
  BY <1>1, <1>2, <1>3

LEMMA DecodedInLoop ==
  ASSUME NEW text \in Seq(Chars), NEW cap \in Nat
  PROVE  /\ Seen(text) \in Seq(Chars) /\ Decoded(text, cap) \in States
         /\ InLoop(Seen(text), Decoded(text, cap), cap)
<1>. DEFINE n == Len(text)
            f == SeenBy(text)
            g == DecodedBy(text, cap)
            T == {k \in 0 .. n : InLoop(f[k], g[k], cap)}
<1>1. /\ f[0] = <<>> /\ g[0] = NoState
      /\ \A k \in 0 .. n : f[k] \in Seq(Chars) /\ g[k] \in States
      /\ \A k \in 1 .. n : /\ f[k] = NextSeen(f[k - 1], text[k])
                           /\ g[k] = DecodeChar(g[k - 1], text[k], cap)
  BY SeenSteps, DecodedSteps
<1>2. /\ n \in Nat /\ \A k \in 1 .. n : k \in 0 .. n /\ k - 1 \in 0 .. n /\ text[k] \in Chars
      /\ 0 \in 0 .. n /\ n \in 0 .. n
  OBVIOUS
<1>3. Seen(text) = f[n] /\ Decoded(text, cap) = g[n]
  BY SeenLast, DecodedLast
<1>. HIDE DEF n, f, g
<1>4. InLoop(<<>>, NoState, cap)
  <2>1. /\ NoState.pad = 0 /\ NoState.bits = 0 /\ NoState.out = <<>>
        /\ NoState.failed = FALSE
    BY DEF NoState
  <2>2. Lettered(<<>>, 0)
    BY DEF Lettered
  <2>3. Read(<<>>, NoState, cap, 0)
    <3>1. (6 * 0) % 8 = 0 /\ (6 * 0) \div 8 = 0 /\ Len(<<>>) = 0 /\ 0 <= cap
      OBVIOUS
    <3>. QED
      BY <2>1, <2>2, <3>1 DEF Read
  <2>. QED
    BY <2>1, <2>3 DEF InLoop
<1>5. 0 \in T
  BY <1>1, <1>2, <1>4
<1>6. ASSUME NEW k \in 1 .. n, k - 1 \in T PROVE k \in T
  <2>1. InLoop(f[k - 1], g[k - 1], cap)
    BY <1>6
  <2>2. /\ f[k - 1] \in Seq(Chars) /\ g[k - 1] \in States /\ text[k] \in Chars
        /\ f[k] = NextSeen(f[k - 1], text[k])
        /\ g[k] = DecodeChar(g[k - 1], text[k], cap) /\ k \in 0 .. n
    BY <1>1, <1>2
  <2>3. InLoop(f[k], g[k], cap)
    BY <2>1, <2>2, LoopKeeps
  <2>. QED
    BY <2>2, <2>3
<1>7. n \in T
  <2>1. \A k \in 0 .. n : k \in T
    <3>. HIDE DEF T
    <3>. QED
      BY <1>2, <1>5, <1>6, Counting
  <2>. QED
    BY <1>2, <2>1
<1>. QED
  BY <1>1, <1>2, <1>3, <1>7

Lengths(s) == {n \in 0 .. Len(s) : LettersThenPads(s, n)}

LEMMA LettersSayIs ==
  ASSUME NEW text, NEW s, s = Seen(text), Len(s) \in Nat
  PROVE  /\ \A n \in Lengths(s) : Lettered(s, n) /\ Len(s) <= n + 2 /\ n % 4 # 1
         /\ Lengths(s) = {} => LettersSay(text) = Failed
         /\ \A n \in Lengths(s) :
              LettersSay(text) = [k \in 1 .. (6 * n) \div 8 |-> LetterByte(s, 8 * (k - 1))]
<1>1. \A n \in Lengths(s) : Lettered(s, n) /\ Len(s) <= n + 2 /\ n % 4 # 1
  BY DEF Lengths, LettersThenPads, Lettered
<1>2. Lengths(s) = {} => LettersSay(text) = Failed
  BY DEF Lengths, LettersSay
<1>3. ASSUME NEW n \in Lengths(s)
      PROVE  LettersSay(text) = [k \in 1 .. (6 * n) \div 8 |-> LetterByte(s, 8 * (k - 1))]
  <2>. DEFINE c == CHOOSE m \in Lengths(s) : TRUE
  <2>1. LettersSay(text) = [k \in 1 .. (6 * c) \div 8 |-> LetterByte(s, 8 * (k - 1))]
    BY <1>3 DEF LettersSay, Lengths
  <2>2. c \in Lengths(s)
    BY <1>3
  <2>3. c = n
    <3>. HIDE DEF c
    <3>. QED
      BY <1>1, <2>2, LetteredOnce
  <2>. QED
    BY <2>1, <2>3
<1>. QED
  BY <1>1, <1>2, <1>3

\* What base64_decode returns is what the text says, if that fits.
LEMMA DecodeIsRef ==
  ASSUME NEW text \in Seq(Chars), NEW cap \in Nat
  PROVE  Decode(text, cap) =
           IF Len(LettersSay(text)) > cap THEN Failed ELSE LettersSay(text)
<1>. DEFINE s == Seen(text)
            d == Decoded(text, cap)
            ref == LettersSay(text)
            bytes(n) == [k \in 1 .. (6 * n) \div 8 |-> LetterByte(s, 8 * (k - 1))]
            bad == d.failed \/ d.bits >= 6 \/ d.pad > 2
<1>1. s \in Seq(Chars) /\ d \in States /\ InLoop(s, d, cap)
  BY DecodedInLoop
<1>2. Len(s) \in Nat
  BY <1>1
<1>3. /\ \A n \in Lengths(s) : Lettered(s, n) /\ Len(s) <= n + 2 /\ n % 4 # 1
      /\ Lengths(s) = {} => ref = Failed
      /\ \A n \in Lengths(s) : ref = bytes(n)
  BY <1>2, LettersSayIs
<1>4. Decode(text, cap) = IF bad THEN Failed ELSE d.out
  BY DEF Decode
<1>5. /\ d.failed \in BOOLEAN /\ d.out \in Seq(Int)
      /\ d.bits \in Nat /\ d.pad \in Nat
  BY <1>1 DEF States
<1>. HIDE DEF s, d, ref
<1>6. \A n \in Lengths(s) : n \in Nat /\ n \in 0 .. Len(s)
  BY <1>2 DEF Lengths
<1>7. ASSUME NEW n \in Lengths(s)
      PROVE  /\ ref = bytes(n) /\ Len(ref) = (6 * n) \div 8
             /\ (6 * n) \div 8 \in Nat
  <2>1. n \in Nat
    BY <1>6
  <2>2. (6 * n) \div 8 \in Nat
    BY <2>1
  <2>. QED
    BY <1>3, <2>2
<1>8. CASE Lengths(s) = {}
  <2>1. ref = Failed
    BY <1>3, <1>8
  <2>2. bad
    <3>1. SUFFICES ASSUME ~bad PROVE FALSE
      OBVIOUS
    <3>2. PICK m \in Nat : Read(s, d, cap, m)
      BY <1>1, <1>5, <3>1 DEF InLoop
    <3>3. Lettered(s, m) /\ d.pad = Len(s) - m /\ d.bits = (6 * m) % 8 /\ m \in 0 .. Len(s)
      BY <3>2 DEF Read, Lettered
    <3>4. m % 4 # 1
      <4>1. ~((6 * m) % 8 >= 6)
        BY <3>1, <3>3
      <4>. QED
        BY <4>1, Sixes
    <3>5. Len(s) <= m + 2
      BY <1>2, <1>5, <3>1, <3>3
    <3>6. LettersThenPads(s, m)
      BY <3>3, <3>4, <3>5 DEF LettersThenPads, Lettered
    <3>. QED
      BY <1>8, <3>3, <3>6 DEF Lengths
  <2>. HIDE DEF bad
  <2>. QED
    BY <1>4, <2>1, <2>2 DEF ref
<1>9. ASSUME NEW n \in Lengths(s)
      PROVE  Decode(text, cap) = IF Len(ref) > cap THEN Failed ELSE ref
  <2>1. Lettered(s, n) /\ Len(s) <= n + 2 /\ n % 4 # 1 /\ n \in 0 .. Len(s)
    BY <1>3, <1>6
  <2>2. CASE d.failed
    <3>1. Doomed(s, cap)
      BY <1>1, <2>2 DEF InLoop
    <3>2. \A i \in 1 .. Len(s) : s[i] # Other
      <4>1. ASSUME NEW i \in 1 .. Len(s) PROVE s[i] # Other
        <5>1. i \in 1 .. n \/ i \in n + 1 .. Len(s)
          BY <1>2, <2>1
        <5>2. s[i] < Pad \/ s[i] = Pad
          BY <2>1, <5>1 DEF Lettered
        <5>. QED
          BY <5>2 DEF Pad, Other
      <4>. QED
        BY <4>1
    <3>3. ASSUME NEW i \in 1 .. Len(s), NEW j \in 1 .. Len(s), i < j, s[i] = Pad, s[j] < Pad
          PROVE  FALSE
      <4>1. ~(i \in 1 .. n) /\ ~(j \in n + 1 .. Len(s))
        <5>1. ~(Pad < Pad)
          BY DEF Pad
        <5>. QED
          BY <2>1, <3>3, <5>1 DEF Lettered
      <4>. QED
        BY <1>2, <2>1, <3>3, <4>1
    <3>4. PICK k \in 1 .. Len(s) : (\A i \in 1 .. k : s[i] < Pad) /\ (6 * k) \div 8 > cap
      BY <3>1, <3>2, <3>3 DEF Doomed
    <3>5. k <= n
      <4>1. SUFFICES ASSUME n < k PROVE FALSE
        BY <1>2, <2>1
      <4>2. n + 1 \in 1 .. k /\ n + 1 \in n + 1 .. Len(s)
        BY <1>2, <2>1, <4>1
      <4>3. s[n + 1] < Pad /\ s[n + 1] = Pad
        BY <2>1, <3>4, <4>2 DEF Lettered
      <4>. QED
        BY <4>3 DEF Pad
    <3>6. (6 * k) \div 8 <= (6 * n) \div 8 /\ (6 * k) \div 8 \in Nat
      BY <1>2, <2>1, <3>5
    <3>7. Len(ref) > cap
      <4>1. Len(ref) = (6 * n) \div 8 /\ (6 * n) \div 8 \in Nat
        BY <1>7
      <4>. QED
        BY <3>4, <3>6, <4>1
    <3>. QED
      BY <1>4, <2>2, <3>7
  <2>3. CASE ~d.failed
    <3>1. PICK m \in Nat : Read(s, d, cap, m)
      BY <1>1, <2>3 DEF InLoop
    <3>2. /\ Lettered(s, m) /\ d.pad = Len(s) - m /\ d.bits = (6 * m) % 8
          /\ Len(d.out) = (6 * m) \div 8 /\ Len(d.out) <= cap
          /\ \A k \in 1 .. Len(d.out) : d.out[k] = LetterByte(s, 8 * (k - 1))
      BY <3>1 DEF Read
    <3>3. m = n
      BY <1>2, <2>1, <3>2, LetteredOnce
    <3>4. ~(d.bits >= 6)
      <4>1. m % 4 # 1
        BY <2>1, <3>3
      <4>. QED
        BY <3>2, <4>1, Sixes
    <3>5. ~(d.pad > 2)
      BY <1>2, <2>1, <3>2, <3>3
    <3>6. Decode(text, cap) = d.out
      BY <1>4, <2>3, <3>4, <3>5
    <3>7. Len(d.out) = (6 * n) \div 8 /\ \A k \in 1 .. (6 * n) \div 8 : d.out[k] = bytes(n)[k]
      BY <3>2, <3>3
    <3>8. d.out = bytes(n)
      <4>1. DOMAIN d.out = 1 .. (6 * n) \div 8 /\ d.out = [k \in DOMAIN d.out |-> d.out[k]]
        BY <1>5, <3>7
      <4>. QED
        BY <3>7, <4>1
    <3>9. ref = d.out /\ ~(Len(ref) > cap)
      <4>1. ref = bytes(n) /\ Len(ref) = (6 * n) \div 8 /\ (6 * n) \div 8 \in Nat
        BY <1>7
      <4>2. Len(d.out) <= cap
        BY <3>2
      <4>. QED
        BY <3>7, <3>8, <4>1, <4>2
    <3>. QED
      BY <3>6, <3>9
  <2>. QED
    BY <2>2, <2>3
<1>. QED
  BY <1>8, <1>9 DEF ref

\* The letters of three bytes.
Byte(src, i) == IF i <= Len(src) THEN src[i] ELSE 0
Sextet(a, b, c, i) == ((a * 2^16 + b * 2^8 + c) \div 64^(4 - i)) % 64

LEMMA FourLetters ==
  ASSUME NEW a \in 0 .. 255, NEW b \in 0 .. 255, NEW c \in 0 .. 255
  PROVE  /\ Sextet(a, b, c, 1) = a \div 4
         /\ Sextet(a, b, c, 2) = 16 * (a % 4) + b \div 16
         /\ Sextet(a, b, c, 3) = 4 * (b % 16) + c \div 64
         /\ Sextet(a, b, c, 4) = c % 64
<1>. DEFINE v == a * 65536 + b * 256 + c
<1>1. /\ 2^16 = 65536 /\ 2^8 = 256 /\ 64^3 = 262144 /\ 64^2 = 4096 /\ 64^1 = 64
      /\ 64^0 = 1
  OBVIOUS
<1>2. (v \div 262144) % 64 = a \div 4
  <2>1. v \div 262144 = a \div 4 /\ a \div 4 \in 0 .. 63
    OBVIOUS
  <2>. QED
    BY <2>1
<1>3. (v \div 4096) % 64 = 16 * (a % 4) + b \div 16
  <2>1. v \div 4096 = 16 * a + b \div 16
    OBVIOUS
  <2>. QED
    BY <2>1
<1>4. (v \div 64) % 64 = 4 * (b % 16) + c \div 64
  <2>1. v \div 64 = 1024 * a + 4 * b + c \div 64
    OBVIOUS
  <2>. QED
    BY <2>1
<1>5. (v \div 1) % 64 = c % 64
  OBVIOUS
<1>. HIDE DEF v
<1>. QED
  BY <1>1, <1>2, <1>3, <1>4, <1>5 DEF v, Sextet

\* The letters of a group, and the bytes that can be read off them.
LEMMA GroupLetters ==
  ASSUME NEW src \in Seq(0 .. 255), NEW q \in Nat
  PROVE  LET a == Byte(src, 3 * q + 1)
             b == Byte(src, 3 * q + 2)
             c == Byte(src, 3 * q + 3)
             letter == [i \in 1 .. 4 |->
                          CASE i = 1 -> a \div 4
                            [] i = 2 -> 16 * (a % 4) + b \div 16
                            [] i = 3 -> 4 * (b % 16) + c \div 64
                            [] i = 4 -> c % 64]
         IN \A i \in 1 .. 4 :
              /\ letter[i] \in 0 .. 63
              /\ Group(src, q + 1)[i] =
                   IF 3 * q + i <= Len(src) + 1 THEN letter[i] ELSE Pad
              /\ i <= 3 => Joined(i - 1, letter[i], letter[i + 1]) = Byte(src, 3 * q + i)
<1>. DEFINE a == Byte(src, 3 * q + 1)
            b == Byte(src, 3 * q + 2)
            c == Byte(src, 3 * q + 3)
            letter == [i \in 1 .. 4 |->
                          CASE i = 1 -> a \div 4
                            [] i = 2 -> 16 * (a % 4) + b \div 16
                            [] i = 3 -> 4 * (b % 16) + c \div 64
                            [] i = 4 -> c % 64]
<1>1. \A i \in Nat \ {0} : Byte(src, i) \in 0 .. 255
  <2>1. ASSUME NEW i \in Nat \ {0}, i <= Len(src) PROVE src[i] \in 0 .. 255
    <3>1. Len(src) \in Nat
      OBVIOUS
    <3>2. i \in 1 .. Len(src)
      BY <2>1, <3>1
    <3>. QED
      BY <3>2, ElementOfSeq
  <2>. QED
    BY <2>1 DEF Byte
<1>2. a \in 0 .. 255 /\ b \in 0 .. 255 /\ c \in 0 .. 255
  <2>1. 3 * q + 1 \in Nat \ {0} /\ 3 * q + 2 \in Nat \ {0} /\ 3 * q + 3 \in Nat \ {0}
    OBVIOUS
  <2>. QED
    BY <1>1, <2>1
<1>3. \A i \in 1 .. 4 : Group(src, q + 1)[i] =
        IF 3 * q + i <= Len(src) + 1 THEN Sextet(a, b, c, i) ELSE Pad
  <2>1. /\ 3 * (q + 1) - 2 = 3 * q + 1 /\ 3 * (q + 1) - 1 = 3 * q + 2
        /\ 3 * (q + 1) = 3 * q + 3 /\ 3 * (q + 1 - 1) = 3 * q
    OBVIOUS
  <2>2. Group(src, q + 1) =
          [i \in 1 .. 4 |-> IF 3 * (q + 1 - 1) + i <= Len(src) + 1
                            THEN Sextet(Byte(src, 3 * (q + 1) - 2),
                                        Byte(src, 3 * (q + 1) - 1),
                                        Byte(src, 3 * (q + 1)), i)
                            ELSE Pad]
    BY DEF Group, Byte, Sextet
  <2>. QED
    BY <2>1, <2>2
<1>. HIDE DEF a, b, c
<1>4. /\ Sextet(a, b, c, 1) = a \div 4
      /\ Sextet(a, b, c, 2) = 16 * (a % 4) + b \div 16
      /\ Sextet(a, b, c, 3) = 4 * (b % 16) + c \div 64
      /\ Sextet(a, b, c, 4) = c % 64
  BY <1>2, FourLetters
<1>5. /\ letter[1] = a \div 4 /\ letter[2] = 16 * (a % 4) + b \div 16
      /\ letter[3] = 4 * (b % 16) + c \div 64 /\ letter[4] = c % 64
  OBVIOUS
<1>6. /\ a \div 4 \in 0 .. 63 /\ 16 * (a % 4) + b \div 16 \in 0 .. 63
      /\ 4 * (b % 16) + c \div 64 \in 0 .. 63 /\ c % 64 \in 0 .. 63
  BY <1>2
<1>. HIDE DEF letter
<1>7. /\ Joined(0, letter[1], letter[2]) = a
      /\ Joined(1, letter[2], letter[3]) = b
      /\ Joined(2, letter[3], letter[4]) = c
  <2>1. /\ 4 * (a \div 4) + (16 * (a % 4) + b \div 16) \div 16 = a
        /\ (16 * (a % 4) + b \div 16) % 16 = b \div 16
    BY <1>2
  <2>2. /\ 16 * (b \div 16) + (4 * (b % 16) + c \div 64) \div 4 = b
        /\ (4 * (b % 16) + c \div 64) % 4 = c \div 64
    BY <1>2
  <2>3. 64 * (c \div 64) + (c % 64) = c
    BY <1>2
  <2>. QED
    BY <1>5, <2>1, <2>2, <2>3 DEF Joined
<1>8. ASSUME NEW i \in 1 .. 4
      PROVE  /\ letter[i] \in 0 .. 63
             /\ Group(src, q + 1)[i] =
                  IF 3 * q + i <= Len(src) + 1 THEN letter[i] ELSE Pad
             /\ i <= 3 => Joined(i - 1, letter[i], letter[i + 1]) = Byte(src, 3 * q + i)
  <2>0. i = 1 \/ i = 2 \/ i = 3 \/ i = 4
    OBVIOUS
  <2>1. letter[i] \in 0 .. 63
    BY <1>5, <1>6, <2>0
  <2>2. Sextet(a, b, c, i) = letter[i]
    <3>1. CASE i = 1
      BY <1>4, <1>5, <3>1
    <3>2. CASE i = 2
      BY <1>4, <1>5, <3>2
    <3>3. CASE i = 3
      BY <1>4, <1>5, <3>3
    <3>4. CASE i = 4
      BY <1>4, <1>5, <3>4
    <3>. QED
      BY <2>0, <3>1, <3>2, <3>3, <3>4
  <2>3. i <= 3 => Joined(i - 1, letter[i], letter[i + 1]) = Byte(src, 3 * q + i)
    <3>1. CASE i = 1
      BY <1>7, <3>1 DEF a
    <3>2. CASE i = 2
      BY <1>7, <3>2 DEF b
    <3>3. CASE i = 3
      BY <1>7, <3>3 DEF c
    <3>. QED
      BY <2>0, <3>1, <3>2, <3>3
  <2>. QED
    BY <1>3, <2>1, <2>2, <2>3
<1>. QED
  BY <1>8 DEF letter, a, b, c

LEMMA SeenItself ==
  ASSUME NEW text \in Seq(Chars), \A i \in 1 .. Len(text) : text[i] # Newline
  PROVE  Seen(text) = text
<1>. DEFINE n == Len(text)
            f == SeenBy(text)
            T == {k \in 0 .. n : Len(f[k]) = k /\ \A i \in 1 .. k : f[k][i] = text[i]}
<1>1. /\ f[0] = <<>> /\ \A k \in 0 .. n : f[k] \in Seq(Chars)
      /\ \A k \in 1 .. n : f[k] = NextSeen(f[k - 1], text[k])
  BY SeenSteps
<1>2. n \in Nat /\ 0 \in 0 .. n /\ n \in 0 .. n
  OBVIOUS
<1>3. Seen(text) = f[n]
  BY SeenLast
<1>4. \A k \in 1 .. n : text[k] \in Chars /\ text[k] # Newline
  BY ElementOfSeq
<1>. HIDE DEF f, n
<1>5. 0 \in T
  BY <1>1, <1>2
<1>6. ASSUME NEW k \in 1 .. n, k - 1 \in T PROVE k \in T
  <2>1. k \in 0 .. n /\ k - 1 \in 0 .. n
    BY <1>2
  <2>2. /\ f[k - 1] \in Seq(Chars) /\ Len(f[k - 1]) = k - 1
        /\ \A i \in 1 .. k - 1 : f[k - 1][i] = text[i]
    BY <1>1, <1>6, <2>1
  <2>3. f[k] = Append(f[k - 1], text[k])
    BY <1>1, <1>4 DEF NextSeen
  <2>4. /\ Len(f[k]) = k - 1 + 1 /\ f[k][k - 1 + 1] = text[k]
        /\ \A i \in 1 .. k - 1 : f[k][i] = f[k - 1][i]
    BY <1>4, <2>2, <2>3, Behind
  <2>5. Len(f[k]) = k /\ f[k][k] = text[k]
    BY <1>2, <2>4
  <2>6. \A i \in 1 .. k : i = k \/ i \in 1 .. k - 1
    BY <1>2
  <2>. QED
    BY <2>1, <2>2, <2>4, <2>5, <2>6
<1>7. n \in T
  <2>1. \A k \in 0 .. n : k \in T
    <3>. HIDE DEF T
    <3>. QED
      BY <1>2, <1>5, <1>6, Counting
  <2>. QED
    BY <1>2, <2>1
<1>8. f[n] \in Seq(Chars) /\ Len(f[n]) = n /\ \A i \in 1 .. n : f[n][i] = text[i]
  BY <1>1, <1>2, <1>7
<1>9. f[n] = text
  BY <1>8, SeqEqual DEF n
<1>. QED
  BY <1>3, <1>9

\* How many letters n bytes have.
Letters(n) == (4 * n + 2) \div 3
Groups(n) == (n + 2) \div 3

LEMMA LettersOf ==
  ASSUME NEW n \in Nat
  PROVE  /\ Letters(n) \in Nat /\ Letters(n) <= 4 * Groups(n)
         /\ 4 * Groups(n) <= Letters(n) + 2 /\ Letters(n) % 4 # 1
         /\ (6 * Letters(n)) \div 8 = n
<1>1. PICK q \in Nat, r \in 0 .. 2 : n = 3 * q + r
  <2>1. n \div 3 \in Nat /\ n % 3 \in 0 .. 2 /\ n = 3 * (n \div 3) + (n % 3)
    OBVIOUS
  <2>. QED
    BY <2>1
<1>2. CASE r = 0
  <2>1. Letters(n) = 4 * q /\ Groups(n) = q
    BY <1>1, <1>2 DEF Letters, Groups
  <2>. QED
    BY <1>1, <1>2, <2>1
<1>3. CASE r = 1
  <2>1. Letters(n) = 4 * q + 2 /\ Groups(n) = q + 1
    BY <1>1, <1>3 DEF Letters, Groups
  <2>. QED
    BY <1>1, <1>3, <2>1
<1>4. CASE r = 2
  <2>1. Letters(n) = 4 * q + 3 /\ Groups(n) = q + 1
    BY <1>1, <1>4 DEF Letters, Groups
  <2>. QED
    BY <1>1, <1>4, <2>1
<1>. QED
  BY <1>2, <1>3, <1>4

\* The j-th character is the i-th of group q + 1.
LEMMA LetterOrPad ==
  ASSUME NEW n \in Nat, NEW q \in Nat, NEW i \in 1 .. 4
  PROVE  4 * q + i <= 4 * Groups(n) =>
           (3 * q + i <= n + 1 <=> 4 * q + i <= Letters(n))
<1>1. PICK p \in Nat, r \in 0 .. 2 : n = 3 * p + r
  <2>1. n \div 3 \in Nat /\ n % 3 \in 0 .. 2 /\ n = 3 * (n \div 3) + (n % 3)
    OBVIOUS
  <2>. QED
    BY <2>1
<1>2. CASE r = 0
  <2>1. Letters(n) = 4 * p /\ Groups(n) = p
    BY <1>1, <1>2 DEF Letters, Groups
  <2>. QED
    BY <1>1, <1>2, <2>1
<1>3. CASE r = 1
  <2>1. Letters(n) = 4 * p + 2 /\ Groups(n) = p + 1
    BY <1>1, <1>3 DEF Letters, Groups
  <2>. QED
    BY <1>1, <1>3, <2>1
<1>4. CASE r = 2
  <2>1. Letters(n) = 4 * p + 3 /\ Groups(n) = p + 1
    BY <1>1, <1>4 DEF Letters, Groups
  <2>. QED
    BY <1>1, <1>4, <2>1
<1>. QED
  BY <1>2, <1>3, <1>4

\* What base64_encode writes.
LEMMA EncodeWrites ==
  ASSUME NEW src \in Seq(0 .. 255), NEW cap \in Nat, ~(4 * Groups(Len(src)) + 1 > cap)
  PROVE  LET text == Encode(src, cap)
         IN /\ text \in Seq(Chars) /\ Len(text) = 4 * Groups(Len(src))
            /\ \A q \in Nat, i \in 1 .. 4 : 4 * q + i <= Len(text) =>
                 text[4 * q + i] = Group(src, q + 1)[i]
            /\ \A i \in 1 .. Letters(Len(src)) : text[i] \in 0 .. 63
            /\ \A i \in Letters(Len(src)) + 1 .. Len(text) : text[i] = Pad
<1>. DEFINE n == Len(src)
            text == Encode(src, cap)
            at(j) == Group(src, (j - 1) \div 4 + 1)[((j - 1) % 4) + 1]
<1>1. n \in Nat
  OBVIOUS
<1>2. text = [j \in 1 .. 4 * Groups(n) |-> at(j)]
  BY DEF Encode, Groups
<1>. HIDE DEF n, text
<1>3. Groups(n) \in Nat /\ 4 * Groups(n) \in Nat
  BY <1>1 DEF Groups
<1>4. \A q \in Nat, i \in 1 .. 4 :
        (4 * q + i - 1) \div 4 = q /\ ((4 * q + i - 1) % 4) + 1 = i
  OBVIOUS
<1>5. \A q \in Nat, i \in 1 .. 4 : 4 * q + i <= 4 * Groups(n) =>
        text[4 * q + i] = Group(src, q + 1)[i]
  <2>1. ASSUME NEW q \in Nat, NEW i \in 1 .. 4, 4 * q + i <= 4 * Groups(n)
        PROVE  text[4 * q + i] = Group(src, q + 1)[i]
    <3>1. 4 * q + i \in 1 .. 4 * Groups(n)
      BY <1>3, <2>1
    <3>2. text[4 * q + i] = at(4 * q + i)
      BY <1>2, <3>1
    <3>3. at(4 * q + i) = Group(src, q + 1)[i]
      BY <1>4
    <3>. QED
      BY <3>2, <3>3
  <2>. QED
    BY <2>1
<1>6. ASSUME NEW j \in 1 .. 4 * Groups(n)
      PROVE  IF j <= Letters(n) THEN text[j] \in 0 .. 63 ELSE text[j] = Pad
  <2>1. PICK q \in Nat, i \in 1 .. 4 : j = 4 * q + i
    <3>1. /\ (j - 1) \div 4 \in Nat /\ ((j - 1) % 4) + 1 \in 1 .. 4
          /\ j = 4 * ((j - 1) \div 4) + (((j - 1) % 4) + 1)
      BY <1>3
    <3>. QED
      BY <3>1
  <2>2. text[j] = Group(src, q + 1)[i] /\ 4 * q + i <= 4 * Groups(n)
    <3>1. 4 * q + i <= 4 * Groups(n)
      BY <1>3, <2>1
    <3>. QED
      BY <1>5, <2>1, <3>1
  <2>3. 3 * q + i <= n + 1 <=> j <= Letters(n)
    BY <1>1, <2>1, <2>2, LetterOrPad
  <2>4. /\ 3 * q + i <= n + 1 => Group(src, q + 1)[i] \in 0 .. 63
        /\ ~(3 * q + i <= n + 1) => Group(src, q + 1)[i] = Pad
    BY GroupLetters DEF n
  <2>. QED
    BY <2>2, <2>3, <2>4
<1>7. Letters(n) \in Nat /\ Letters(n) <= 4 * Groups(n)
  BY <1>1, LettersOf
<1>8. \A i \in 1 .. Letters(n) : text[i] \in 0 .. 63
  <2>1. \A i \in 1 .. Letters(n) : i \in 1 .. 4 * Groups(n) /\ i <= Letters(n)
    BY <1>3, <1>7
  <2>. QED
    BY <1>6, <2>1
<1>9. \A i \in Letters(n) + 1 .. 4 * Groups(n) : text[i] = Pad
  <2>1. \A i \in Letters(n) + 1 .. 4 * Groups(n) :
          i \in 1 .. 4 * Groups(n) /\ ~(i <= Letters(n))
    BY <1>3, <1>7
  <2>. QED
    BY <1>6, <2>1
<1>10. text \in Seq(Chars) /\ Len(text) = 4 * Groups(n)
  <2>1. \A j \in 1 .. 4 * Groups(n) : text[j] \in Chars
    <3>1. Pad \in Chars /\ 0 .. 63 \subseteq Chars
      BY DEF Pad, Chars, Other
    <3>. QED
      BY <1>6, <3>1
  <2>2. text = [j \in 1 .. 4 * Groups(n) |-> text[j]]
    BY <1>2
  <2>3. text \in [1 .. 4 * Groups(n) -> Chars]
    BY <2>1, <2>2
  <2>. QED
    BY <1>3, <2>3
<1>. QED
  BY <1>5, <1>8, <1>9, <1>10 DEF n, text

\* What base64_encode writes says its bytes.
LEMMA EncodeSays ==
  ASSUME NEW src \in Seq(0 .. 255), NEW cap \in Nat, ~(4 * Groups(Len(src)) + 1 > cap)
  PROVE  RefDecode(Encode(src, cap)) = src
<1>. DEFINE n == Len(src)
            m == Letters(n)
            text == Encode(src, cap)
            bytes == [k \in 1 .. (6 * m) \div 8 |-> LetterByte(text, 8 * (k - 1))]
<1>1. /\ text \in Seq(Chars) /\ Len(text) = 4 * Groups(n)
      /\ \A q \in Nat, i \in 1 .. 4 : 4 * q + i <= Len(text) =>
           text[4 * q + i] = Group(src, q + 1)[i]
      /\ \A i \in 1 .. m : text[i] \in 0 .. 63
      /\ \A i \in m + 1 .. Len(text) : text[i] = Pad
  BY EncodeWrites
<1>2. n \in Nat
  OBVIOUS
<1>. HIDE DEF n, text
<1>3. /\ m \in Nat /\ m <= Len(text) /\ Len(text) <= m + 2 /\ m % 4 # 1
      /\ (6 * m) \div 8 = n
  BY <1>1, <1>2, LettersOf
<1>. HIDE DEF m
<1>4. Seen(text) = text
  <2>1. ASSUME NEW i \in 1 .. Len(text) PROVE text[i] # Newline
    <3>1. i \in 1 .. m \/ i \in m + 1 .. Len(text)
      BY <1>1, <1>3
    <3>2. text[i] \in 0 .. 63 \/ text[i] = Pad
      BY <1>1, <3>1
    <3>3. \A c \in 0 .. 63 : c # Newline
      BY DEF Newline
    <3>4. Pad # Newline
      BY DEF Pad, Newline
    <3>. QED
      BY <3>2, <3>3, <3>4
  <2>. QED
    BY <1>1, <2>1, SeenItself
<1>5. m \in Lengths(text)
  <2>1. \A i \in 1 .. m : text[i] < Pad
    <3>1. \A c \in 0 .. 63 : c < Pad
      BY DEF Pad
    <3>. QED
      BY <1>1, <3>1
  <2>2. m \in 0 .. Len(text)
    BY <1>1, <1>3
  <2>. QED
    BY <1>1, <1>3, <2>1, <2>2 DEF Lengths, LettersThenPads
<1>6. LettersSay(text) = bytes
  BY <1>1, <1>4, <1>5, LettersSayIs
<1>7. ASSUME NEW k \in 1 .. n PROVE bytes[k] = src[k]
  <2>1. PICK q \in Nat, j \in 0 .. 2 : k - 1 = 3 * q + j
    <3>1. /\ (k - 1) \div 3 \in Nat /\ (k - 1) % 3 \in 0 .. 2
          /\ k - 1 = 3 * ((k - 1) \div 3) + ((k - 1) % 3)
      BY <1>2
    <3>. QED
      BY <3>1
  <2>2. 4 * q + j + 2 <= m /\ k = 3 * q + j + 1 /\ 8 * (k - 1) = 24 * q + 8 * j
    BY <1>2, <1>3, <2>1
  <2>3. /\ text[4 * q + j + 1] \in 0 .. 63 /\ text[4 * q + j + 2] \in 0 .. 63
        /\ text[4 * q + (j + 1)] \in 0 .. 63 /\ text[4 * q + (j + 2)] \in 0 .. 63
        /\ text[4 * q + j + 1] = text[4 * q + (j + 1)]
        /\ text[4 * q + j + 2] = text[4 * q + (j + 2)]
    <3>1. /\ 4 * q + j + 1 \in 1 .. m /\ 4 * q + j + 2 \in 1 .. m
          /\ 4 * q + (j + 1) = 4 * q + j + 1 /\ 4 * q + (j + 2) = 4 * q + j + 2
      BY <1>3, <2>1, <2>2
    <3>. QED
      BY <1>1, <3>1
  <2>4. bytes[k] = Joined(j, text[4 * q + j + 1], text[4 * q + j + 2])
    <3>1. bytes[k] = LetterByte(text, 8 * (k - 1))
      BY <1>3
    <3>2. LetterByte(text, 24 * q + 8 * j)
            = Joined(j, text[4 * q + j + 1], text[4 * q + j + 2])
      BY <2>3, LetterByteIs
    <3>. QED
      BY <2>2, <3>1, <3>2
  <2>5. /\ text[4 * q + (j + 1)] = Group(src, q + 1)[j + 1]
        /\ text[4 * q + (j + 2)] = Group(src, q + 1)[j + 2]
    <3>0. Len(text) \in Nat
      BY <1>1
    <3>1. /\ j + 1 \in 1 .. 4 /\ j + 2 \in 1 .. 4
          /\ 4 * q + (j + 1) <= Len(text) /\ 4 * q + (j + 2) <= Len(text)
      BY <3>0, <1>3, <2>1, <2>2
    <3>. QED
      BY <1>1, <3>1
  <2>6. Joined(j, Group(src, q + 1)[j + 1], Group(src, q + 1)[j + 2])
          = Byte(src, 3 * q + (j + 1))
    <3>. DEFINE a == Byte(src, 3 * q + 1)
                b == Byte(src, 3 * q + 2)
                c == Byte(src, 3 * q + 3)
                letter == [i \in 1 .. 4 |->
                             CASE i = 1 -> a \div 4
                               [] i = 2 -> 16 * (a % 4) + b \div 16
                               [] i = 3 -> 4 * (b % 16) + c \div 64
                               [] i = 4 -> c % 64]
    <3>1. \A i \in 1 .. 4 :
            /\ Group(src, q + 1)[i] = IF 3 * q + i <= Len(src) + 1 THEN letter[i] ELSE Pad
            /\ i <= 3 => Joined(i - 1, letter[i], letter[i + 1]) = Byte(src, 3 * q + i)
      BY GroupLetters
    <3>. HIDE DEF letter, a, b, c
    <3>2. /\ j + 1 \in 1 .. 4 /\ j + 1 + 1 \in 1 .. 4 /\ j + 1 <= 3 /\ j + 1 - 1 = j
          /\ j + 1 + 1 = j + 2 /\ 3 * q + (j + 1) <= n + 1 /\ 3 * q + (j + 2) <= n + 1
      BY <1>2, <2>1, <2>2
    <3>3. /\ Group(src, q + 1)[j + 1] = letter[j + 1]
          /\ Group(src, q + 1)[j + 2] = letter[j + 2]
      BY <3>1, <3>2 DEF n
    <3>4. Joined(j + 1 - 1, letter[j + 1], letter[j + 1 + 1]) = Byte(src, 3 * q + (j + 1))
      <4>. DEFINE Back(i) ==
                    Joined(i - 1, letter[i], letter[i + 1]) = Byte(src, 3 * q + i)
      <4>1. \A i \in 1 .. 4 : i <= 3 => Back(i)
        BY <3>1
      <4>. HIDE DEF Back
      <4>2. Back(j + 1)
        BY <3>2, <4>1
      <4>. QED
        BY <4>2 DEF Back
    <3>. QED
      BY <3>2, <3>3, <3>4
  <2>7. Byte(src, 3 * q + (j + 1)) = src[k]
    <3>1. 3 * q + (j + 1) = k /\ k <= n
      BY <1>2, <2>1, <2>2
    <3>. QED
      BY <3>1 DEF Byte, n
  <2>. HIDE DEF bytes
  <2>. QED
    BY <2>3, <2>4, <2>5, <2>6, <2>7
<1>8. bytes = src
  <2>1. bytes = [k \in 1 .. n |-> bytes[k]]
    BY <1>3
  <2>2. src = [k \in 1 .. n |-> src[k]]
    <3>1. src \in [1 .. n -> 0 .. 255]
      BY LenProperties DEF n
    <3>. QED
      BY <3>1
  <2>. HIDE DEF bytes
  <2>. QED
    BY <1>7, <2>1, <2>2
<1>9. Len(text) % 4 = 0
  <2>1. \A g \in Nat : (4 * g) % 4 = 0
    OBVIOUS
  <2>2. Groups(n) \in Nat
    BY <1>2 DEF Groups
  <2>. QED
    BY <1>1, <2>1, <2>2
<1>10. RefDecode(text) = LettersSay(text)
  BY <1>4, <1>9 DEF RefDecode
<1>. QED
  BY <1>6, <1>8, <1>10 DEF text

\* Where a text is between the calls.
TextJob ==
  /\ pc \in {"text", "edited"} => job.kind = "base64"
  /\ job.kind = "base64" =>
       /\ job \in [kind : {"base64"}, of : Texts, text : Seq(Chars)]
       /\ pc \in {"ready", "text", "edited", "done", "failed"}
       /\ pc # "ready" => (pc = "failed" <=> 4 * Groups(Len(job.of.src)) + 1 > job.of.room)
       /\ pc = "text" => out = job.text /\ job.text = Encode(job.of.src, job.of.room)
       /\ pc = "done" => out = Decode(job.text, job.of.cap)

LEMMA TextsAre ==
  ASSUME NEW t \in Texts
  PROVE  t.src \in Seq(0 .. 255) /\ t.room \in Nat /\ t.cap \in Nat
BY StreamsAssumption

\* base64_encode fails when there is no room, and only then.
LEMMA EncodeFails ==
  ASSUME NEW src \in Seq(0 .. 255), NEW cap \in Nat
  PROVE  Encode(src, cap) = Failed <=> 4 * Groups(Len(src)) + 1 > cap
<1>1. CASE 4 * Groups(Len(src)) + 1 > cap
  BY <1>1 DEF Encode, Groups
<1>2. CASE ~(4 * Groups(Len(src)) + 1 > cap)
  <2>1. Len(Encode(src, cap)) = 4 * Groups(Len(src))
    BY <1>2, EncodeWrites
  <2>2. Groups(Len(src)) \in Nat /\ Len(Failed) = 1
    BY DEF Groups, Failed
  <2>3. 4 * Groups(Len(src)) # 1
    BY <2>2
  <2>. QED
    BY <1>2, <2>1, <2>2, <2>3
<1>. QED
  BY <1>1, <1>2

\* A text stays one when a character comes in or goes.
LEMMA EditedTexts ==
  ASSUME NEW text \in Seq(Chars)
  PROVE  /\ \A i \in 1 .. Len(text) + 1, c \in Chars : InsertAt(text, i, c) \in Seq(Chars)
         /\ \A i \in 1 .. Len(text) : RemoveAt(text, i) \in Seq(Chars)
<1>1. Len(text) \in Nat
  OBVIOUS
<1>2. ASSUME NEW m \in Nat \ {0}, NEW n \in 0 .. Len(text)
      PROVE  SubSeq(text, m, n) \in Seq(Chars)
  <2>1. \A i \in m .. n : i \in 1 .. Len(text)
    BY <1>1
  <2>2. \A i \in m .. n : text[i] \in Chars
    BY <2>1, ElementOfSeq
  <2>3. m \in Int /\ n \in Int
    BY <1>1
  <2>. QED
    BY <2>2, <2>3, SubSeqProperties
<1>3. ASSUME NEW i \in 1 .. Len(text) + 1, NEW c \in Chars
      PROVE  InsertAt(text, i, c) \in Seq(Chars)
  <2>1. /\ 1 \in Nat \ {0} /\ i \in Nat \ {0} /\ i - 1 \in 0 .. Len(text)
        /\ Len(text) \in 0 .. Len(text)
    BY <1>1
  <2>2. SubSeq(text, 1, i - 1) \in Seq(Chars) /\ SubSeq(text, i, Len(text)) \in Seq(Chars)
    BY <1>2, <2>1
  <2>3. <<c>> \in Seq(Chars)
    OBVIOUS
  <2>. QED
    BY <2>2, <2>3, ConcatProperties DEF InsertAt
<1>4. ASSUME NEW i \in 1 .. Len(text)
      PROVE  RemoveAt(text, i) \in Seq(Chars)
  <2>1. /\ 1 \in Nat \ {0} /\ i + 1 \in Nat \ {0} /\ i - 1 \in 0 .. Len(text)
        /\ Len(text) \in 0 .. Len(text)
    BY <1>1
  <2>2. SubSeq(text, 1, i - 1) \in Seq(Chars) /\ SubSeq(text, i + 1, Len(text)) \in Seq(Chars)
    BY <1>2, <2>1
  <2>. QED
    BY <2>2, ConcatProperties DEF RemoveAt
<1>. QED
  BY <1>3, <1>4

LEMMA TextJobsOf ==
  ASSUME NEW j \in Jobs, j.kind = "base64"
  PROVE  j \in [kind : {"base64"}, of : Texts, text : Seq(Chars)]
<1>1. \/ \E a \in {Sha256, Sha512} : j = [kind |-> "digest", algo |-> a]
      \/ \E n \in MacKeyLens : j = [kind |-> "mac", key |-> n]
      \/ \E s \in Secrets, n \in KeyLens : j = [kind |-> "derive", secrets |-> s, len |-> n]
      \/ \E iv \in Iv : j = [kind |-> "ctr", iv |-> iv]
      \/ \E t \in Texts : j = [kind |-> "base64", of |-> t, text |-> <<>>]
  BY DEF Jobs
<1>2. PICK t \in Texts : j = [kind |-> "base64", of |-> t, text |-> <<>>]
  BY <1>1
<1>3. <<>> \in Seq(Chars)
  OBVIOUS
<1>. QED
  BY <1>2, <1>3

LEMMA TextJobStarts == Init => TextJob
<1> SUFFICES ASSUME Init PROVE TextJob
  OBVIOUS
<1>1. job \in Jobs /\ pc = "ready"
  BY DEF Init
<1>. QED
  BY <1>1, TextJobsOf DEF TextJob

LEMMA TextJobKept ==
  ASSUME TextJob, [Next]_vars
  PROVE  TextJob'
<1>1. CASE EncodeCall
  <2>. DEFINE text == Encode(job.of.src, job.of.room)
              full == 4 * Groups(Len(job.of.src)) + 1 > job.of.room
  <2>1. /\ pc = "ready" /\ job.kind = "base64"
        /\ job \in [kind : {"base64"}, of : Texts, text : Seq(Chars)]
    BY <1>1 DEF EncodeCall, TextJob
  <2>2. /\ job.of \in Texts /\ job.of.src \in Seq(0 .. 255) /\ job.of.room \in Nat
    BY <2>1, TextsAre
  <2>3. text = Failed <=> full
    BY <2>2, EncodeFails
  <2>4. ~full => text \in Seq(Chars)
    BY <2>2, EncodeWrites
  <2>5. CASE text = Failed
    <3>1. pc' = "failed" /\ job' = job /\ out' = out
      BY <1>1, <2>5 DEF EncodeCall
    <3>2. full
      BY <2>3, <2>5
    <3>. QED
      BY <2>1, <3>1, <3>2 DEF TextJob
  <2>6. CASE text # Failed
    <3>1. pc' = "text" /\ job' = [job EXCEPT !.text = text] /\ out' = text
      BY <1>1, <2>6 DEF EncodeCall
    <3>2. ~full /\ text \in Seq(Chars)
      BY <2>3, <2>4, <2>6
    <3>. HIDE DEF text
    <3>3. /\ job' \in [kind : {"base64"}, of : Texts, text : Seq(Chars)]
          /\ job'.text = text /\ job'.of = job.of /\ job'.kind = "base64"
      BY <2>1, <3>1, <3>2
    <3>. QED
      BY <3>1, <3>2, <3>3 DEF TextJob, text
  <2>. QED
    BY <2>5, <2>6
<1>2. CASE Edit
  <2>1. /\ pc = "text" /\ pc' = "edited" /\ out' = out /\ job.kind = "base64"
        /\ job \in [kind : {"base64"}, of : Texts, text : Seq(Chars)]
        /\ ~(4 * Groups(Len(job.of.src)) + 1 > job.of.room)
    BY <1>2 DEF Edit, TextJob
  <2>2. job.text \in Seq(Chars) /\ DOMAIN job.text = 1 .. Len(job.text)
    BY <2>1
  <2>3. {0, 63, Pad, Newline, Other} \subseteq Chars
    BY DEF Pad, Newline, Other, Chars
  <2>4. PICK t \in Seq(Chars) : job' = [job EXCEPT !.text = t]
    <3>1. \/ \E i \in 1 .. Len(job.text) + 1, c \in Chars :
               job' = [job EXCEPT !.text = InsertAt(job.text, i, c)]
          \/ \E i \in 1 .. Len(job.text) :
               job' = [job EXCEPT !.text = RemoveAt(job.text, i)]
      BY <1>2, <2>2, <2>3 DEF Edit
    <3>. QED
      BY <2>2, <3>1, EditedTexts
  <2>5. /\ job' \in [kind : {"base64"}, of : Texts, text : Seq(Chars)]
        /\ job'.of = job.of /\ job'.kind = "base64"
    BY <2>1, <2>4
  <2>. QED
    BY <2>1, <2>5 DEF TextJob
<1>3. CASE DecodeCall
  <2>1. /\ pc \in {"text", "edited"} /\ pc' = "done" /\ job' = job
        /\ out' = Decode(job.text, job.of.cap)
    BY <1>3 DEF DecodeCall
  <2>2. /\ job.kind = "base64"
        /\ job \in [kind : {"base64"}, of : Texts, text : Seq(Chars)]
        /\ ~(4 * Groups(Len(job.of.src)) + 1 > job.of.room)
    BY <2>1 DEF TextJob
  <2>. QED
    BY <2>1, <2>2 DEF TextJob
<1>4. CASE UNCHANGED vars
  BY <1>4 DEF TextJob, vars
<1>5. ASSUME NEW n, Update(n) \/ Crypt(n) \/ Final \/ DeriveFirst \/ DeriveMore \/ CryptLoop
      PROVE  TextJob'
  <2>1. job' = job /\ pc' \notin {"text", "edited"}
    BY <1>5 DEF Update, Crypt, Final, DeriveFirst, DeriveMore, CryptLoop, DerivedSome
  <2>2. job.kind # "base64"
    BY <1>5 DEF Update, Crypt, Final, DeriveFirst, DeriveMore, CryptLoop, TextJob
  <2>. QED
    BY <2>1, <2>2 DEF TextJob
<1>. QED
  BY <1>1, <1>2, <1>3, <1>4, <1>5 DEF Next, Ended

\* base64_encode writes the text of its bytes, or fails for lack of room only;
\* base64_decode gives what a text of RFC 4648 says, whatever lines it is cut into,
\* and from no text more than its letters say or than there is room for; for bytes
\* and texts of every length.
THEOREM Base64RoundTrip == Spec => []Base64OfRfc4648
<1>1. TextJob => Base64OfRfc4648
  <2>. DEFINE chars == 4 * ((Len(job.of.src) + 2) \div 3)
              full == 4 * Groups(Len(job.of.src)) + 1 > job.of.room
              said == LettersSay(job.text)
              ref == RefDecode(job.text)
  <2>1. SUFFICES ASSUME TextJob, job.kind = "base64"
                 PROVE  /\ pc # "ready" => (pc = "failed" <=> job.of.room <= chars)
                        /\ pc = "text" => Len(out) = chars /\ ref = job.of.src
                        /\ pc = "done" /\ ref # Failed =>
                             out = IF Len(ref) > job.of.cap THEN Failed ELSE ref
                        /\ pc = "done" /\ out # Failed =>
                             Len(out) <= job.of.cap /\ out = said
    BY DEF Base64OfRfc4648
  <2>2. /\ job \in [kind : {"base64"}, of : Texts, text : Seq(Chars)]
        /\ pc # "ready" => (pc = "failed" <=> full)
        /\ pc = "text" => out = job.text /\ job.text = Encode(job.of.src, job.of.room)
        /\ pc = "done" => out = Decode(job.text, job.of.cap)
    BY <2>1 DEF TextJob
  <2>3. /\ job.of.src \in Seq(0 .. 255) /\ job.of.room \in Nat /\ job.of.cap \in Nat
        /\ job.text \in Seq(Chars)
    BY <2>2, TextsAre
  <2>4. chars = 4 * Groups(Len(job.of.src)) /\ chars \in Nat
    <3>1. Len(job.of.src) \in Nat
      BY <2>3
    <3>2. \A n \in Nat : 4 * ((n + 2) \div 3) \in Nat
      OBVIOUS
    <3>. QED
      BY <3>1, <3>2 DEF Groups
  <2>5. full <=> job.of.room <= chars
    <3>. HIDE DEF chars
    <3>. QED
      BY <2>3, <2>4
  <2>6. pc = "text" => Len(out) = chars /\ ref = job.of.src
    <3>1. SUFFICES ASSUME pc = "text" PROVE Len(out) = chars /\ ref = job.of.src
      OBVIOUS
    <3>2. ~full /\ out = job.text /\ job.text = Encode(job.of.src, job.of.room)
      BY <2>2, <3>1
    <3>3. RefDecode(Encode(job.of.src, job.of.room)) = job.of.src
      BY <2>3, <3>2, EncodeSays
    <3>4. Len(Encode(job.of.src, job.of.room)) = 4 * Groups(Len(job.of.src))
      BY <2>3, <3>2, EncodeWrites
    <3>. QED
      BY <2>4, <3>2, <3>3, <3>4
  <2>7. pc = "done" => out = IF Len(said) > job.of.cap THEN Failed ELSE said
    BY <2>2, <2>3, DecodeIsRef
  <2>8. Len(said) \in Nat \/ said = Failed
    <3>0. Seen(job.text) \in Seq(Chars) /\ Len(Seen(job.text)) \in Nat
      BY <2>3, DecodedInLoop
    <3>1. Lengths(Seen(job.text)) = {} => said = Failed
      BY <3>0, LettersSayIs
    <3>2. ASSUME NEW n \in Lengths(Seen(job.text)) PROVE Len(said) \in Nat
      <4>1. said = [k \in 1 .. (6 * n) \div 8 |-> LetterByte(Seen(job.text), 8 * (k - 1))]
        BY <3>0, LettersSayIs
      <4>2. (6 * n) \div 8 \in Nat
        BY <3>0 DEF Lengths
      <4>. QED
        BY <4>1, <4>2
    <3>. QED
      BY <3>1, <3>2
  <2>9. ref # Failed => ref = said
    BY DEF RefDecode
  <2>. HIDE DEF full, chars, said, ref
  <2>10. pc = "done" /\ out # Failed => Len(out) <= job.of.cap /\ out = said
    BY <2>3, <2>7, <2>8
  <2>. QED
    BY <2>2, <2>5, <2>6, <2>7, <2>9, <2>10
<1>2. Init => TextJob
  BY TextJobStarts
<1>3. TextJob /\ [Next]_vars => TextJob'
  BY TextJobKept
<1>. QED
  BY <1>1, <1>2, <1>3, PTL DEF Spec
=============================================================================
