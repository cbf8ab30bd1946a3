---------------------------- MODULE BufferProofs ----------------------------
(***************************************************************************)
(* Theorems about ssh_buf_t.  The first part is about the functions that   *)
(* count: a function defined by its value at 0 and a step exists, and has  *)
(* the type its step has.                                                  *)
(***************************************************************************)
EXTENDS Buffer, SequenceTheorems, WellFoundedInduction, TLAPS

-----------------------------------------------------------------------------
(* Minima.                                                                  *)

LEMMA LessThanWellFounded ==
  IsWellFoundedOn({ss \in Nat \X Nat : ss[1] < ss[2]}, Nat)
BY NatLessThanWellFounded DEF OpToRel

LEMMA Smallest ==
  ASSUME NEW S, S \subseteq Nat, S # {}
  PROVE  \E x \in S : \A y \in S : x <= y
<1>. DEFINE R == {ss \in Nat \X Nat : ss[1] < ss[2]}
<1>1. IsWellFoundedOn(R, Nat)
  BY LessThanWellFounded
<1>2. PICK x \in S : \A y \in S : <<y, x>> \notin R
  <2>. HIDE DEF R
  <2>. QED
    BY <1>1, WFMin
<1>3. ASSUME NEW y \in S PROVE x <= y
  <2>1. /\ <<y, x>> \in Nat \X Nat /\ <<y, x>>[1] = y /\ <<y, x>>[2] = x
        /\ x \in Nat /\ y \in Nat
    OBVIOUS
  <2>2. ~(y < x)
    BY <2>1, <1>2
  <2>. QED
    BY <2>1, <2>2
<1>. QED
  BY <1>3

LEMMA MinIs ==
  ASSUME NEW S, S \subseteq Nat, S # {}
  PROVE  Min(S) \in S /\ \A y \in S : Min(S) <= y
BY Smallest DEF Min

\* A set that has 0 and with a number the next one, up to n, has all of them.
LEMMA Counting ==
  ASSUME NEW n \in Nat, NEW P, 0 \in P,
         \A k \in 1 .. n : k - 1 \in P => k \in P
  PROVE  \A k \in 0 .. n : k \in P
<1>. DEFINE Wrong == {k \in 0 .. n : k \notin P}
<1>1. SUFFICES ASSUME Wrong # {} PROVE FALSE
  OBVIOUS
<1>2. Wrong \subseteq Nat
  OBVIOUS
<1>3. PICK k \in Wrong : \A j \in Wrong : k <= j
  <2>. HIDE DEF Wrong
  <2>. QED
    BY <1>1, <1>2, Smallest
<1>4. k \in 1 .. n
  BY <1>3
<1>5. k - 1 \notin Wrong
  <2>1. k - 1 < k
    BY <1>4
  <2>. QED
    BY <2>1, <1>3, <1>4
<1>6. k - 1 \in P
  BY <1>4, <1>5
<1>. QED
  BY <1>4, <1>6

-----------------------------------------------------------------------------
(* Recursive functions on 0 .. n.                                           *)

\* g begins with x and goes on with step[index][value].
Recurs(g, x, step, n) ==
  g = [k \in 0 .. n |-> IF k = 0 THEN x ELSE step[k][g[k - 1]]]

LEMMA RecursExists ==
  ASSUME NEW x, NEW step, NEW n \in Nat
  PROVE  \E g : Recurs(g, x, step, n)
<1>. DEFINE P == {k \in Nat : \E g : Recurs(g, x, step, k)}
<1>1. 0 \in P
  <2>1. Recurs([k \in 0 .. 0 |-> x], x, step, 0)
    BY DEF Recurs
  <2>. QED
    BY <2>1
<1>2. ASSUME NEW k \in 1 .. n, k - 1 \in P PROVE k \in P
  <2>1. PICK g : Recurs(g, x, step, k - 1)
    BY <1>2
  <2>. DEFINE h == [i \in 0 .. k |-> IF i = k THEN step[k][g[k - 1]] ELSE g[i]]
  <2>2. ASSUME NEW i \in 0 .. k
        PROVE  h[i] = IF i = 0 THEN x ELSE step[i][h[i - 1]]
    <3>1. CASE i = k
      BY <3>1
    <3>2. CASE i < k
      <4>1. i \in 0 .. k - 1
        BY <3>2
      <4>2. g[i] = IF i = 0 THEN x ELSE step[i][g[i - 1]]
        BY <4>1, <2>1 DEF Recurs
      <4>. QED
        BY <4>1, <4>2
    <3>. QED
      BY <3>1, <3>2
  <2>3. Recurs(h, x, step, k)
    <3>1. h = [i \in 0 .. k |-> h[i]]
      OBVIOUS
    <3>. HIDE DEF h
    <3>. QED
      BY <3>1, <2>2 DEF Recurs
  <2>. QED
    BY <2>3
<1>3. n \in P
  <2>. HIDE DEF P
  <2>. QED
    BY <1>1, <1>2, Counting
<1>. QED
  BY <1>3

LEMMA RecursType ==
  ASSUME NEW S, NEW x \in S, NEW n \in Nat, NEW step, NEW g,
         \A y \in S : \A k \in 1 .. n : step[k][y] \in S,
         Recurs(g, x, step, n)
  PROVE  g \in [0 .. n -> S]
<1>. DEFINE P == {k \in 0 .. n : g[k] \in S}
<1>1. 0 \in P
  BY DEF Recurs
<1>2. ASSUME NEW k \in 1 .. n, k - 1 \in P PROVE k \in P
  BY <1>2 DEF Recurs
<1>3. \A k \in 0 .. n : k \in P
  <2>. HIDE DEF P
  <2>. QED
    BY <1>1, <1>2, Counting
<1>. QED
  BY <1>3 DEF Recurs

LEMMA IteratesAre ==
  ASSUME NEW x, NEW step, NEW n \in Nat
  PROVE  /\ Iterates(step, x, n)[0] = x
         /\ \A k \in 1 .. n :
              Iterates(step, x, n)[k] = step[Iterates(step, x, n)[k - 1]]
<1>. DEFINE st == [k \in 1 .. n |-> step]
            Is(g) == g = [k \in 0 .. n |-> IF k = 0 THEN x ELSE step[g[k - 1]]]
<1>1. PICK g : Recurs(g, x, st, n)
  BY RecursExists
<1>2. Is(g)
  <2>1. \A k \in 0 .. n : g[k] = IF k = 0 THEN x ELSE step[g[k - 1]]
    BY <1>1 DEF Recurs
  <2>2. g = [k \in 0 .. n |-> g[k]]
    BY <1>1 DEF Recurs
  <2>. QED
    BY <2>1, <2>2
<1>3. Iterates(step, x, n) = CHOOSE I : Is(I)
  BY DEF Iterates
<1>4. Is(Iterates(step, x, n))
  <2>. HIDE DEF Is
  <2>. QED
    BY <1>2, <1>3
<1>. QED
  <2>. DEFINE I == Iterates(step, x, n)
  <2>1. I = [k \in 0 .. n |-> IF k = 0 THEN x ELSE step[I[k - 1]]]
    BY <1>4
  <2>. HIDE DEF I
  <2>2. I[0] = x /\ \A k \in 1 .. n : I[k] = step[I[k - 1]]
    BY <2>1
  <2>. QED
    BY <2>2 DEF I

LEMMA IteratesType ==
  ASSUME NEW S, NEW x \in S, NEW n \in Nat, NEW step \in [S -> S]
  PROVE  \A k \in 0 .. n : Iterates(step, x, n)[k] \in S
<1>. DEFINE I == Iterates(step, x, n)
            P == {k \in 0 .. n : I[k] \in S}
<1>1. I[0] = x /\ \A k \in 1 .. n : I[k] = step[I[k - 1]]
  BY IteratesAre
<1>. HIDE DEF I
<1>2. 0 \in P /\ \A k \in 1 .. n : k - 1 \in P => k \in P
  BY <1>1
<1>3. \A k \in 0 .. n : k \in P
  <2>. HIDE DEF P
  <2>. QED
    BY <1>2, Counting
<1>. QED
  BY <1>3 DEF I

-----------------------------------------------------------------------------
(* Numbers and bytes.                                                       *)

LEMMA ShiftType == Shift \in [Nat -> Nat]
BY BufferAssumption DEF Shift

\* The value of the first i bytes of s
LEMMA NumberIs ==
  ASSUME NEW s \in Seq(Byte)
  PROVE  \E N \in [0 .. Len(s) -> Nat] :
           /\ N[0] = 0
           /\ \A i \in 1 .. Len(s) : N[i] = N[i - 1] * Base + s[i]
           /\ Number(s) = N[Len(s)]
<1>. DEFINE st == [k \in 1 .. Len(s) |-> [y \in Nat |-> y * Base + s[k]]]
            Is(g) == g = [i \in 0 .. Len(s) |->
                            IF i = 0 THEN 0 ELSE g[i - 1] * Base + s[i]]
<1>n. Len(s) \in Nat
  OBVIOUS
<1>b. Base \in Nat
  BY BufferAssumption
<1>s. \A k \in 1 .. Len(s) : s[k] \in Nat
  BY <1>b DEF Byte
<1>t. \A y \in Nat : \A k \in 1 .. Len(s) :
        st[k][y] = y * Base + s[k] /\ st[k][y] \in Nat
  BY <1>s, <1>b
<1>1. PICK g : Recurs(g, 0, st, Len(s))
  BY <1>n, RecursExists
<1>2. g \in [0 .. Len(s) -> Nat]
  <2>. HIDE DEF st
  <2>. QED
    BY <1>1, <1>n, <1>t, RecursType
<1>3. Is(g)
  <2>. HIDE DEF st
  <2>1. ASSUME NEW i \in 0 .. Len(s)
        PROVE  g[i] = IF i = 0 THEN 0 ELSE g[i - 1] * Base + s[i]
    <3>1. CASE i = 0
      BY <3>1, <1>1, <1>n DEF Recurs
    <3>2. CASE i # 0
      <4>1. i \in 1 .. Len(s) /\ i - 1 \in 0 .. Len(s)
        BY <3>2, <1>n
      <4>2. g[i - 1] \in Nat
        BY <4>1, <1>2
      <4>3. g[i] = st[i][g[i - 1]]
        BY <4>1, <3>2, <1>1 DEF Recurs
      <4>. QED
        BY <4>1, <4>2, <4>3, <3>2, <1>t
    <3>. QED
      BY <3>1, <3>2
  <2>. QED
    BY <2>1, <1>2
<1>4. \E N : Is(N)
  BY <1>3
<1>. DEFINE N == CHOOSE f : Is(f)
<1>5. Number(s) = N[Len(s)]
  BY DEF Number
<1>6. Is(N)
  <2>. HIDE DEF Is
  <2>. QED
    BY <1>4
<1>. HIDE DEF N
<1>7. /\ N = [i \in 0 .. Len(s) |-> N[i]] /\ N[0] = 0
      /\ \A i \in 1 .. Len(s) : N[i] = N[i - 1] * Base + s[i]
  BY <1>6, <1>n
<1>8. N \in [0 .. Len(s) -> Nat]
  <2>. DEFINE P == {i \in 0 .. Len(s) : N[i] \in Nat}
  <2>1. 0 \in P
    BY <1>7, <1>n
  <2>3. ASSUME NEW i \in 1 .. Len(s), i - 1 \in P PROVE i \in P
    <3>1. N[i - 1] \in Nat /\ s[i] \in Nat /\ N[i] = N[i - 1] * Base + s[i]
      BY <2>3, <1>7, <1>s
    <3>2. N[i] \in Nat
      BY <3>1, <1>b
    <3>. QED
      BY <3>2, <1>n
  <2>2. \A i \in 0 .. Len(s) : i \in P
    <3>. HIDE DEF P
    <3>. QED
      BY <2>1, <2>3, <1>n, Counting
  <2>. QED
    BY <2>2, <1>7
<1>. QED
  BY <1>5, <1>7, <1>8

LEMMA NumberType == \A s \in Seq(Byte) : Number(s) \in Nat
<1>1. TAKE s \in Seq(Byte)
<1>2. PICK N \in [0 .. Len(s) -> Nat] : Number(s) = N[Len(s)]
  BY NumberIs
<1>3. Len(s) \in 0 .. Len(s)
  OBVIOUS
<1>. QED
  BY <1>2, <1>3

LEMMA BigEndianType ==
  ASSUME NEW v \in Nat, NEW w \in Nat
  PROVE  BigEndian(v, w) \in Seq(Byte) /\ Len(BigEndian(v, w)) = w
<1>. DEFINE I == Iterates(Shift, v, w)
<1>1. \A k \in 0 .. w : I[k] \in Nat
  BY ShiftType, IteratesType
<1>. HIDE DEF I
<1>2. ASSUME NEW i \in 1 .. w PROVE I[w - i] % Base \in Byte
  BY <1>1, BufferAssumption DEF Byte
<1>3. BigEndian(v, w) = [i \in 1 .. w |-> I[w - i] % Base]
  BY DEF BigEndian, I
<1>. QED
  BY <1>2, <1>3

-----------------------------------------------------------------------------
(* Growing.                                                                 *)

Buffers == [data : Seq(Byte), rpos : Nat, cap : Nat]

\* The cursor is within the bytes written and these within the memory.
Sound(b) == b \in Buffers /\ b.rpos <= Len(b.data) /\ Len(b.data) <= b.cap

\* Doubling passes every length.
LEMMA TwiceGrows ==
  ASSUME NEW x \in Nat, x > 0, NEW n \in Nat
  PROVE  \A k \in 0 .. n :
           Iterates(Twice, x, n)[k] \in Nat /\ Iterates(Twice, x, n)[k] > k
<1>. DEFINE I == Iterates(Twice, x, n)
            P == {k \in 0 .. n : I[k] \in Nat /\ I[k] > k}
<1>1. I[0] = x /\ \A k \in 1 .. n : I[k] = Twice[I[k - 1]]
  BY IteratesAre
<1>. HIDE DEF I
<1>2. 0 \in P
  BY <1>1
<1>3. ASSUME NEW k \in 1 .. n, k - 1 \in P PROVE k \in P
  <2>1. I[k - 1] \in Nat /\ I[k - 1] > k - 1
    BY <1>3
  <2>2. I[k] = I[k - 1] * 2
    BY <1>1, <2>1 DEF Twice
  <2>. QED
    BY <2>1, <2>2
<1>4. \A k \in 0 .. n : k \in P
  <2>. HIDE DEF P
  <2>. QED
    BY <1>2, <1>3, Counting
<1>. QED
  BY <1>4 DEF I

LEMMA GrownFits ==
  ASSUME NEW b \in Buffers, NEW n \in Nat
  PROVE  Grown(b, n) \in Nat /\ Grown(b, n) >= Len(b.data) + n
<1>. DEFINE first == IF b.cap > 0 THEN b.cap * 2 ELSE MinCap
            need == Len(b.data) + n
            caps == Iterates(Twice, first, need)
            C == {c \in {caps[k] : k \in 0 .. need} : c >= need}
<1>1. first \in Nat /\ first > 0 /\ need \in Nat
  BY BufferAssumption DEF Buffers
<1>2. Grown(b, n) = Min(C)
  BY DEF Grown
<1>. HIDE DEF first, need
<1>3. \A k \in 0 .. need : caps[k] \in Nat /\ caps[k] > k
  BY <1>1, TwiceGrows
<1>. HIDE DEF caps
<1>4. C \subseteq Nat
  BY <1>3
<1>5. caps[need] \in C
  BY <1>1, <1>3
<1>6. Min(C) \in C
  <2>. HIDE DEF C
  <2>. QED
    BY <1>4, <1>5, MinIs
<1>7. Min(C) \in Nat /\ Min(C) >= need
  BY <1>4, <1>6
<1>. QED
  BY <1>2, <1>7 DEF need

LEMMA Extended ==
  ASSUME NEW b, Sound(b), NEW s \in Seq(Byte)
  PROVE  /\ Sound(Extend(b, s))
         /\ Extend(b, s).data = b.data \o s /\ Extend(b, s).rpos = b.rpos
<1>. DEFINE c == IF Fits(b, Len(s)) THEN b.cap ELSE Grown(b, Len(s))
<1>1. /\ b \in Buffers /\ b.data \in Seq(Byte) /\ b.rpos \in Nat
      /\ b.cap \in Nat /\ Len(s) \in Nat /\ Len(b.data) \in Nat
  BY DEF Sound, Buffers
<1>2. c \in Nat /\ Len(b.data) + Len(s) <= c
  <2>1. CASE Fits(b, Len(s))
    BY <2>1, <1>1 DEF Fits
  <2>2. CASE ~Fits(b, Len(s))
    BY <2>2, <1>1, GrownFits
  <2>. QED
    BY <2>1, <2>2
<1>3. Extend(b, s) = [data |-> b.data \o s, rpos |-> b.rpos, cap |-> c]
  <2>1. b = [data |-> b.data, rpos |-> b.rpos, cap |-> b.cap]
    BY <1>1 DEF Buffers
  <2>2. Extend(b, s) = [b EXCEPT !.data = b.data \o s, !.cap = c]
    BY <2>1 DEF Extend
  <2>. HIDE DEF c
  <2>. QED
    BY <2>1, <2>2
<1>. HIDE DEF c
<1>4. b.data \o s \in Seq(Byte) /\ Len(b.data \o s) = Len(b.data) + Len(s)
  BY <1>1
<1>5. b.rpos <= Len(b.data)
  BY DEF Sound
<1>6. b.rpos <= Len(b.data \o s) /\ Len(b.data \o s) <= c
  <2>. HIDE <1>3
  <2>. QED
    BY <1>1, <1>2, <1>4, <1>5
<1>. QED
  BY <1>1, <1>2, <1>3, <1>4, <1>6 DEF Sound, Buffers

-----------------------------------------------------------------------------
(* What a writer appends.                                                   *)

\* b is the buffer with more bytes behind those it holds.
Extends(b) ==
  /\ Sound(b) /\ b.rpos = buf.rpos
  /\ \E t \in Seq(Byte) : b.data = buf.data \o t

LEMMA Joined ==
  ASSUME NEW a \in Seq(Byte), NEW b \in Seq(Byte), NEW c \in Seq(Byte)
  PROVE  (a \o b) \o c = a \o (b \o c) /\ b \o c \in Seq(Byte)
BY ConcatAssociative

LEMMA AppendedAre ==
  ASSUME Sound(buf), NEW p \in Seq(Seq(Byte))
  PROVE  /\ Appended(p)[0] = buf
         /\ \A k \in 1 .. Len(p) :
              Appended(p)[k] = Extend(Appended(p)[k - 1], p[k])
         /\ \A k \in 0 .. Len(p) : Extends(Appended(p)[k])
<1>. DEFINE S == {b \in Buffers : Extends(b)}
            st == [k \in 1 .. Len(p) |-> [b \in S |-> Extend(b, p[k])]]
            Is(g) == g = [k \in 0 .. Len(p) |->
                            IF k = 0 THEN buf ELSE Extend(g[k - 1], p[k])]
            A == Appended(p)
<1>n. Len(p) \in Nat /\ \A k \in 1 .. Len(p) : p[k] \in Seq(Byte)
  OBVIOUS
<1>d. buf.data \in Seq(Byte) /\ buf \in Buffers
  BY DEF Sound, Buffers
<1>0. buf \in S
  <2>1. buf.data = buf.data \o << >> /\ << >> \in Seq(Byte)
    BY <1>d
  <2>. QED
    BY <2>1, <1>d DEF Extends
<1>t. ASSUME NEW b \in S, NEW s \in Seq(Byte) PROVE Extend(b, s) \in S
  <2>1. PICK t \in Seq(Byte) : b.data = buf.data \o t
    BY DEF Extends
  <2>2. /\ Sound(Extend(b, s)) /\ Extend(b, s).data = b.data \o s
        /\ Extend(b, s).rpos = buf.rpos
    BY Extended DEF Extends
  <2>3. (buf.data \o t) \o s = buf.data \o (t \o s) /\ t \o s \in Seq(Byte)
    BY <1>d, Joined
  <2>4. Extends(Extend(b, s))
    BY <2>1, <2>2, <2>3 DEF Extends
  <2>. QED
    BY <2>4, <2>2 DEF Sound
<1>u. \A b \in S : \A k \in 1 .. Len(p) :
        st[k][b] = Extend(b, p[k]) /\ st[k][b] \in S
  <2>. HIDE DEF S
  <2>. QED
    BY <1>t, <1>n
<1>. HIDE DEF S, st
<1>1. PICK g : Recurs(g, buf, st, Len(p))
  BY <1>n, RecursExists
<1>2. g \in [0 .. Len(p) -> S]
  BY <1>1, <1>n, <1>0, <1>u, RecursType
<1>3. Is(g)
  <2>1. ASSUME NEW k \in 0 .. Len(p)
        PROVE  g[k] = IF k = 0 THEN buf ELSE Extend(g[k - 1], p[k])
    <3>1. CASE k = 0
      BY <3>1, <1>1, <1>n DEF Recurs
    <3>2. CASE k # 0
      <4>1. k \in 1 .. Len(p) /\ k - 1 \in 0 .. Len(p)
        BY <3>2, <1>n
      <4>2. g[k] = st[k][g[k - 1]]
        BY <4>1, <3>2, <1>1 DEF Recurs
      <4>. QED
        BY <4>1, <4>2, <3>2, <1>2, <1>u
    <3>. QED
      BY <3>1, <3>2
  <2>. QED
    BY <2>1, <1>2
<1>4. A = CHOOSE f : Is(f)
  BY DEF Appended
<1>5. Is(A)
  <2>. HIDE DEF Is, A
  <2>. QED
    BY <1>3, <1>4
<1>. HIDE DEF A
<1>6. A[0] = buf /\ \A k \in 1 .. Len(p) : A[k] = Extend(A[k - 1], p[k])
  <2>1. \A k \in 0 .. Len(p) : A[k] = IF k = 0 THEN buf ELSE Extend(A[k - 1], p[k])
    BY <1>5, Zenon
  <2>2. 0 \in 0 .. Len(p) /\ \A k \in 1 .. Len(p) : k \in 0 .. Len(p) /\ k # 0
    BY <1>n
  <2>. QED
    BY <2>1, <2>2, Zenon
<1>7. \A k \in 0 .. Len(p) : A[k] \in S
  <2>. DEFINE P == {k \in 0 .. Len(p) : A[k] \in S}
  <2>1. 0 \in P
    BY <1>6, <1>0, <1>n
  <2>2. ASSUME NEW k \in 1 .. Len(p), k - 1 \in P PROVE k \in P
    BY <2>2, <1>6, <1>t, <1>n
  <2>3. \A k \in 0 .. Len(p) : k \in P
    <3>. HIDE DEF P
    <3>. QED
      BY <2>1, <2>2, <1>n, Counting
  <2>. QED
    BY <2>3
<1>. QED
  BY <1>6, <1>7 DEF A, S

-----------------------------------------------------------------------------
(* The invariant: where each value of the log lies.                         *)

\* What an mpint is read back as
Canonical(s) ==
  LET z == StripZeros(s)
  IN IF z = <<>> THEN <<>> ELSE IF NeedPad(z) THEN <<0>> \o z ELSE z

Decoded(v) == IF v.type = "mpint" THEN Canonical(v.val) ELSE v.val

\* The bytes of a value
Encoding(v) ==
  CASE v.type \in IntTypes -> BigEndian(v.val, Bytes(v.type))
    [] v.type = "raw" -> v.val
    [] v.type \in {"string", "mpint"} ->
         BigEndian(Len(Decoded(v)), Width) \o Decoded(v)

\* The values of l lie one behind the other from the start of d; pos[i] is
\* where the first i end.
Lies(pos, l, d) ==
  /\ pos \in [0 .. Len(l) -> 0 .. Len(d)] /\ pos[0] = 0
  /\ \A i \in 1 .. Len(l) :
       /\ pos[i] = pos[i - 1] + Len(Encoding(l[i]))
       /\ SubSeq(d, pos[i - 1] + 1, pos[i]) = Encoding(l[i])

LogInv ==
  \E pos \in [0 .. Len(log) -> 0 .. Len(buf.data)] :
    /\ Lies(pos, log, buf.data)
    /\ ~torn => pos[Len(log)] = Len(buf.data)
    /\ ~lost => buf.rpos = pos[Len(got)]

GotInv ==
  \E n \in 0 .. Len(log) :
    got = [i \in 1 .. n |-> [is |-> "read", val |-> Decoded(log[i])]]

BufferInv ==
  /\ Sound(buf) /\ log \in Seq(Values) /\ torn \in BOOLEAN /\ lost \in BOOLEAN
  /\ GotInv /\ LogInv

-----------------------------------------------------------------------------
(* Values and their bytes.                                                  *)

LEMMA Stripped ==
  ASSUME NEW s \in Seq(Byte)
  PROVE  \E m \in 0 .. Len(s) :
           /\ StripZeros(s) = SubSeq(s, m + 1, Len(s))
           /\ \A i \in 1 .. m : s[i] = 0
           /\ m < Len(s) => s[m + 1] # 0
<1>. DEFINE C == {i \in DOMAIN s : s[i] # 0} \cup {Len(s) + 1}
            f == Min(C)
<1>1. C \subseteq 1 .. Len(s) + 1 /\ C # {} /\ Len(s) \in Nat
  OBVIOUS
<1>2. f \in C /\ \A j \in C : f <= j
  <2>1. C \subseteq Nat
    BY <1>1
  <2>. HIDE DEF C
  <2>. QED
    BY <2>1, <1>1, MinIs
<1>3. f = FirstNonZero(s)
  BY DEF FirstNonZero
<1>. HIDE DEF f
<1>4. f \in 1 .. Len(s) + 1 /\ f - 1 \in 0 .. Len(s) /\ (f - 1) + 1 = f
  <2>. HIDE DEF C
  <2>. QED
    BY <1>1, <1>2
<1>5. ASSUME NEW i \in 1 .. f - 1 PROVE s[i] = 0
  <2>1. i \in 1 .. Len(s) /\ ~(f <= i)
    BY <1>1, <1>4
  <2>2. i \notin C
    BY <2>1, <1>2
  <2>. QED
    BY <2>1, <2>2
<1>6. f - 1 < Len(s) => s[f] # 0
  BY <1>2, <1>4
<1>7. StripZeros(s) = SubSeq(s, f, Len(s))
  BY <1>3 DEF StripZeros
<1>. QED
  BY <1>4, <1>5, <1>6, <1>7

LEMMA SuffixType ==
  ASSUME NEW s \in Seq(Byte), NEW m \in 0 .. Len(s)
  PROVE  /\ SubSeq(s, m + 1, Len(s)) \in Seq(Byte)
         /\ Len(SubSeq(s, m + 1, Len(s))) = Len(s) - m
         /\ \A i \in 1 .. Len(s) - m : SubSeq(s, m + 1, Len(s))[i] = s[m + i]
<1>1. Len(s) \in Nat /\ m \in Nat /\ \A i \in 1 .. Len(s) : s[i] \in Byte
  OBVIOUS
<1>2. \A i \in 1 .. Len(s) - m : m + i \in 1 .. Len(s)
  BY <1>1
<1>. DEFINE t == [i \in 1 .. Len(s) - m |-> s[m + i]]
<1>3. SubSeq(s, m + 1, Len(s)) = t
  BY <1>1
<1>4. t \in Seq(Byte) /\ Len(t) = Len(s) - m
  BY <1>1, <1>2
<1>. QED
  BY <1>3, <1>4

\* Zeros in front do not change a number.
LEMMA ZerosInFront ==
  ASSUME NEW s \in Seq(Byte), NEW m \in 0 .. Len(s), \A i \in 1 .. m : s[i] = 0
  PROVE  Number(SubSeq(s, m + 1, Len(s))) = Number(s)
<1>. DEFINE t == SubSeq(s, m + 1, Len(s))
<1>1. /\ t \in Seq(Byte) /\ Len(t) = Len(s) - m /\ Len(s) \in Nat
      /\ \A i \in 1 .. Len(s) - m : t[i] = s[m + i]
  BY SuffixType
<1>. HIDE DEF t
<1>2. PICK N \in [0 .. Len(s) -> Nat] :
        /\ N[0] = 0
        /\ \A i \in 1 .. Len(s) : N[i] = N[i - 1] * Base + s[i]
        /\ Number(s) = N[Len(s)]
  BY NumberIs
<1>3. PICK M \in [0 .. Len(t) -> Nat] :
        /\ M[0] = 0
        /\ \A i \in 1 .. Len(t) : M[i] = M[i - 1] * Base + t[i]
        /\ Number(t) = M[Len(t)]
  BY <1>1, NumberIs
<1>b. Base \in Nat
  BY BufferAssumption
<1>4. \A i \in 0 .. m : N[i] = 0
  <2>. DEFINE P == {i \in 0 .. m : N[i] = 0}
  <2>1. 0 \in P
    BY <1>2
  <2>2. ASSUME NEW i \in 1 .. m, i - 1 \in P PROVE i \in P
    <3>1. i \in 1 .. Len(s)
      BY <1>1
    <3>2. N[i] = N[i - 1] * Base + s[i] /\ N[i - 1] = 0 /\ s[i] = 0
      BY <3>1, <2>2, <1>2
    <3>. QED
      BY <3>2, <1>b
  <2>3. \A i \in 0 .. m : i \in P
    <3>1. m \in Nat
      BY <1>1
    <3>. HIDE DEF P
    <3>. QED
      BY <3>1, <2>1, <2>2, Counting
  <2>. QED
    BY <2>3
<1>5. \A j \in 0 .. Len(t) : N[m + j] = M[j]
  <2>. DEFINE P == {j \in 0 .. Len(t) : N[m + j] = M[j]}
  <2>n. m \in Nat /\ Len(t) \in Nat
    BY <1>1
  <2>1. 0 \in P
    BY <1>3, <1>4, <2>n
  <2>2. ASSUME NEW j \in 1 .. Len(t), j - 1 \in P PROVE j \in P
    <3>1. m + j \in 1 .. Len(s) /\ (m + j) - 1 = m + (j - 1) /\ j \in 1 .. Len(s) - m
      BY <1>1, <2>n
    <3>2. N[m + j] = N[m + (j - 1)] * Base + s[m + j]
      BY <3>1, <1>2
    <3>3. N[m + (j - 1)] = M[j - 1]
      BY <2>2
    <3>4. M[j] = M[j - 1] * Base + t[j] /\ t[j] = s[m + j]
      BY <3>1, <1>1, <1>3
    <3>5. N[m + j] = M[j]
      BY <3>2, <3>3, <3>4
    <3>. QED
      BY <3>5, <2>n
  <2>3. \A j \in 0 .. Len(t) : j \in P
    <3>. HIDE DEF P
    <3>. QED
      BY <2>1, <2>2, <2>n, Counting
  <2>. QED
    BY <2>3
<1>6. m + Len(t) = Len(s) /\ Len(t) \in 0 .. Len(t)
  BY <1>1
<1>. QED
  BY <1>2, <1>3, <1>5, <1>6 DEF t

\* The bytes of a number that fits say the number.
LEMMA NumberReadBack ==
  ASSUME NEW v \in Nat, NEW w \in Nat, InBytes(v, w)
  PROVE  Number(BigEndian(v, w)) = v
<1>. DEFINE I == Iterates(Shift, v, w)
            s == BigEndian(v, w)
<1>1. /\ I[0] = v /\ I[w] = 0
      /\ \A k \in 1 .. w : I[k] = Shift[I[k - 1]]
  BY IteratesAre DEF InBytes
<1>2. \A k \in 0 .. w : I[k] \in Nat
  BY ShiftType, IteratesType
<1>3. s = [i \in 1 .. w |-> I[w - i] % Base]
  BY DEF BigEndian
<1>. HIDE DEF I
<1>4. s \in Seq(Byte) /\ Len(s) = w
  BY BigEndianType
<1>. HIDE DEF s
<1>5. PICK N \in [0 .. Len(s) -> Nat] :
        /\ N[0] = 0
        /\ \A i \in 1 .. Len(s) : N[i] = N[i - 1] * Base + s[i]
        /\ Number(s) = N[Len(s)]
  BY <1>4, NumberIs
<1>b. Base \in Nat /\ Base > 0
  BY BufferAssumption
<1>6. \A i \in 0 .. w : N[i] = I[w - i]
  <2>. DEFINE P == {i \in 0 .. w : N[i] = I[w - i]}
  <2>1. 0 \in P
    BY <1>1, <1>5
  <2>2. ASSUME NEW i \in 1 .. w, i - 1 \in P PROVE i \in P
    <3>1. /\ w - (i - 1) \in 1 .. w /\ w - (i - 1) - 1 = w - i /\ w - i \in 0 .. w
          /\ i \in 1 .. Len(s)
      BY <1>4
    <3>2. N[i] = N[i - 1] * Base + s[i] /\ s[i] = I[w - i] % Base
      BY <3>1, <1>5, <1>3
    <3>3. N[i - 1] = I[w - (i - 1)]
      BY <2>2
    <3>4. I[w - (i - 1)] = Shift[I[w - i]] /\ I[w - i] \in Nat
      BY <3>1, <1>1, <1>2
    <3>5. Shift[I[w - i]] = I[w - i] \div Base
      BY <3>4 DEF Shift
    <3>6. ASSUME NEW x \in Nat PROVE (x \div Base) * Base + (x % Base) = x
      BY <1>b
    <3>7. N[i] = I[w - i]
      BY <3>2, <3>3, <3>4, <3>5, <3>6
    <3>. QED
      BY <3>7
  <2>3. \A i \in 0 .. w : i \in P
    <3>. HIDE DEF P
    <3>. QED
      BY <2>1, <2>2, Counting
  <2>. QED
    BY <2>3
<1>. QED
  BY <1>1, <1>4, <1>5, <1>6 DEF s

\* A big number is written in RFC 4251's form and keeps its value.
LEMMA CanonicalIs ==
  ASSUME NEW s \in Seq(Byte)
  PROVE  /\ StripZeros(s) \in Seq(Byte)
         /\ Canonical(s) \in Seq(Byte) /\ Len(Canonical(s)) \in 0 .. Len(s) + 1
         /\ IsMpint(Canonical(s)) /\ Number(Canonical(s)) = Number(s)
<1>. DEFINE z == StripZeros(s)
            c == Canonical(s)
<1>1. PICK m \in 0 .. Len(s) :
        /\ StripZeros(s) = SubSeq(s, m + 1, Len(s))
        /\ \A i \in 1 .. m : s[i] = 0
        /\ m < Len(s) => s[m + 1] # 0
  BY Stripped
<1>2. /\ z \in Seq(Byte) /\ Len(z) = Len(s) - m
      /\ \A i \in 1 .. Len(s) - m : z[i] = s[m + i]
  BY <1>1, SuffixType
<1>3. Number(z) = Number(s)
  BY <1>1, ZerosInFront
<1>4. z # <<>> => z[1] # 0 /\ z[1] \in Byte /\ Len(z) > 0
  <2>. SUFFICES ASSUME z # <<>> PROVE z[1] # 0 /\ z[1] \in Byte /\ Len(z) > 0
    OBVIOUS
  <2>1. Len(z) \in Nat /\ Len(z) > 0 /\ z[1] \in Byte
    <3>. HIDE DEF z
    <3>. QED
      BY <1>2
  <2>2. m \in Nat /\ Len(s) \in Nat
    OBVIOUS
  <2>3. 1 \in 1 .. Len(s) - m /\ m < Len(s)
    <3>1. Len(s) - m > 0
      BY <2>1, <1>2
    <3>. QED
      BY <3>1, <2>2
  <2>4. z[1] = s[m + 1]
    BY <2>3, <1>2
  <2>. QED
    BY <2>1, <2>3, <2>4, <1>1
<1>5. Len(z) \in 0 .. Len(s) /\ Len(s) \in Nat
  BY <1>2
<1>6. c = IF z = <<>> THEN <<>> ELSE IF NeedPad(z) THEN <<0>> \o z ELSE z
  BY DEF Canonical
<1>h. Half \in Nat /\ Half > 0 /\ 0 \in Byte
  BY BufferAssumption DEF Half, Byte
<1>. HIDE DEF z, c
<1>7. c \in Seq(Byte) /\ Len(c) \in 0 .. Len(s) + 1 /\ IsMpint(c) /\ Number(c) = Number(z)
  <2>1. CASE z = <<>>
    <3>1. c = z /\ Len(c) = 0
      BY <2>1, <1>6
    <3>2. IsMpint(c)
      BY <3>1, <2>1 DEF IsMpint
    <3>3. Len(c) \in 0 .. Len(s) + 1
      BY <3>1, <1>5
    <3>. QED
      BY <3>1, <3>2, <3>3, <1>2
  <2>2. CASE z # <<>> /\ ~NeedPad(z)
    <3>1. c = z
      BY <2>2, <1>6
    <3>2. IsMpint(c)
      <4>1. z[1] < Half
        BY <2>2, <1>4, <1>h, BufferAssumption DEF NeedPad, Byte
      <4>. QED
        BY <3>1, <4>1, <1>4, <2>2 DEF IsMpint
    <3>3. Len(c) \in 0 .. Len(s) + 1
      BY <3>1, <1>5
    <3>. QED
      BY <3>1, <3>2, <3>3, <1>2
  <2>3. CASE z # <<>> /\ NeedPad(z)
    <3>1. c = <<0>> \o z
      BY <2>3, <1>6
    <3>2. c \in Seq(Byte) /\ Len(c) = 1 + Len(z) /\ c[1] = 0 /\ c[2] = z[1]
      <4>1. <<0>> \in Seq(Byte) /\ Len(<<0>>) = 1
        BY <1>h
      <4>2. /\ c \in Seq(Byte) /\ Len(c) = 1 + Len(z)
            /\ \A i \in 1 .. 1 + Len(z) : c[i] = IF i <= 1 THEN <<0>>[i] ELSE z[i - 1]
        <5>1. /\ <<0>> \o z \in Seq(Byte) /\ Len(<<0>> \o z) = Len(<<0>>) + Len(z)
              /\ \A i \in 1 .. Len(<<0>>) + Len(z) :
                   (<<0>> \o z)[i] = IF i <= Len(<<0>>) THEN <<0>>[i]
                                      ELSE z[i - Len(<<0>>)]
          BY <4>1, <1>2, ConcatProperties, Zenon
        <5>. QED
          BY <3>1, <4>1, <5>1, Zenon
      <4>3. 1 \in 1 .. 1 + Len(z) /\ 2 \in 1 .. 1 + Len(z)
        BY <1>4, <2>3, <1>5
      <4>4. c[1] = <<0>>[1] /\ c[2] = z[2 - 1]
        BY <4>2, <4>3
      <4>. QED
        BY <4>2, <4>4
    <3>3. IsMpint(c)
      <4>1. z[1] >= Half /\ Len(c) > 1
        BY <2>3, <3>2, <1>4, <1>5 DEF NeedPad
      <4>. QED
        BY <4>1, <3>2, <1>h DEF IsMpint
    <3>4. SubSeq(c, 2, Len(c)) = z
      <4>1. /\ SubSeq(c, 1 + 1, Len(c)) \in Seq(Byte)
            /\ Len(SubSeq(c, 1 + 1, Len(c))) = Len(c) - 1
            /\ \A i \in 1 .. Len(c) - 1 : SubSeq(c, 1 + 1, Len(c))[i] = c[1 + i]
        <5>1. 1 \in 0 .. Len(c)
          BY <3>2, <1>5
        <5>. QED
          BY <5>1, <3>2, SuffixType
      <4>. DEFINE u == SubSeq(c, 2, Len(c))
      <4>2. u \in Seq(Byte) /\ Len(u) = Len(z) /\ \A i \in 1 .. Len(z) : u[i] = c[1 + i]
        BY <4>1, <3>2, <1>5
      <4>. HIDE DEF u
      <4>3. ASSUME NEW i \in 1 .. Len(z) PROVE c[1 + i] = z[i]
        <5>1. 1 + i \in 1 .. 1 + Len(z) /\ ~(1 + i <= 1) /\ (1 + i) - 1 = i
          BY <1>5
        <5>2. <<0>> \in Seq(Byte) /\ Len(<<0>>) = 1
          BY <1>h
        <5>3. \A j \in 1 .. 1 + Len(z) : c[j] = IF j <= 1 THEN <<0>>[j] ELSE z[j - 1]
          BY <5>2, <3>1, <1>2, ConcatProperties
        <5>. QED
          BY <5>1, <5>3
      <4>4. u = z
        BY <4>2, <4>3, <1>2, SeqEqual
      <4>. QED
        BY <4>4 DEF u
    <3>5. Number(SubSeq(c, 1 + 1, Len(c))) = Number(c)
      <4>1. 1 \in 0 .. Len(c) /\ \A i \in 1 .. 1 : c[i] = 0
        BY <3>2, <1>5
      <4>. QED
        BY <4>1, <3>2, ZerosInFront
    <3>6. Len(c) \in 0 .. Len(s) + 1
      BY <3>2, <1>5
    <3>7. Number(c) = Number(z)
      <4>1. 1 + 1 = 2
        OBVIOUS
      <4>. QED
        BY <4>1, <3>4, <3>5, Zenon
    <3>. QED
      BY <3>2, <3>3, <3>6, <3>7
  <2>. QED
    BY <2>1, <2>2, <2>3
<1>. QED
  BY <1>2, <1>3, <1>7 DEF z, c

\* Every value that is put has its bytes, and they say it.
LEMMA ValueKinds ==
  ASSUME NEW v \in Values
  PROVE  \/ /\ v.type \in IntTypes /\ v.val \in Nat
            /\ InBytes(v.val, Bytes(v.type)) /\ Bytes(v.type) \in Nat \ {0}
         \/ /\ v.type \in {"raw", "string", "mpint"} /\ v.val \in Seq(Byte)
            /\ \A n \in 0 .. Len(v.val) + 1 : InBytes(n, Width)
<1>1. \A t \in IntTypes : Bytes(t) \in Nat \ {0}
  BY BufferAssumption DEF IntTypes, Bytes
<1>2. Types \ IntTypes = {"raw", "string", "mpint"}
  BY DEF Types, IntTypes
<1>3. \/ v.type \in IntTypes /\ v.val \in Nat /\ InBytes(v.val, Bytes(v.type))
      \/ /\ v.type \in Types \ IntTypes /\ v.val \in Seq(Byte)
         /\ \A n \in 0 .. Len(v.val) + 1 : InBytes(n, Width)
  BY BufferAssumption
<1>. QED
  BY <1>1, <1>2, <1>3

LEMMA DecodedType ==
  ASSUME NEW v \in Values, v.type \in {"string", "mpint"}
  PROVE  /\ Decoded(v) \in Seq(Byte) /\ Len(Decoded(v)) \in Nat
         /\ InBytes(Len(Decoded(v)), Width)
<1>1. v.val \in Seq(Byte) /\ \A n \in 0 .. Len(v.val) + 1 : InBytes(n, Width)
  BY ValueKinds DEF IntTypes
<1>2. Len(v.val) \in Nat
  BY <1>1
<1>3. CASE v.type = "string"
  <2>1. Decoded(v) = v.val
    BY <1>3 DEF Decoded
  <2>2. Len(v.val) \in 0 .. Len(v.val) + 1
    BY <1>2
  <2>. QED
    BY <2>1, <2>2, <1>1, <1>2
<1>4. CASE v.type = "mpint"
  <2>1. Decoded(v) = Canonical(v.val)
    BY <1>4 DEF Decoded
  <2>2. Canonical(v.val) \in Seq(Byte) /\ Len(Canonical(v.val)) \in 0 .. Len(v.val) + 1
    BY <1>1, CanonicalIs
  <2>3. InBytes(Len(Canonical(v.val)), Width)
    BY <2>2, <1>1
  <2>. QED
    BY <2>1, <2>2, <2>3
<1>. QED
  BY <1>3, <1>4

LEMMA EncodingType ==
  ASSUME NEW v \in Values
  PROVE  Encoding(v) \in Seq(Byte) /\ Len(Encoding(v)) \in Nat
<1>0. Width \in Nat
  BY BufferAssumption
<1>1. CASE v.type \in IntTypes
  <2>1. v.val \in Nat /\ Bytes(v.type) \in Nat
    BY <1>1, ValueKinds DEF IntTypes
  <2>2. Encoding(v) = BigEndian(v.val, Bytes(v.type))
    BY <1>1 DEF Encoding, IntTypes
  <2>. QED
    BY <2>1, <2>2, BigEndianType
<1>2. CASE v.type = "raw"
  BY <1>2, ValueKinds DEF Encoding, IntTypes
<1>3. CASE v.type \in {"string", "mpint"}
  <2>1. Encoding(v) = BigEndian(Len(Decoded(v)), Width) \o Decoded(v)
    BY <1>3 DEF Encoding, IntTypes
  <2>2. Decoded(v) \in Seq(Byte) /\ BigEndian(Len(Decoded(v)), Width) \in Seq(Byte)
    BY <1>3, <1>0, DecodedType, BigEndianType
  <2>3. Encoding(v) \in Seq(Byte)
    BY <2>1, <2>2
  <2>. QED
    BY <2>3
<1>. QED
  BY <1>1, <1>2, <1>3, ValueKinds

-----------------------------------------------------------------------------
(* A writer that gets all the memory it needs appends the bytes of its      *)
(* value, whichever pieces it makes of them.                                *)

All(p) == Appended(p)[Len(p)].data

LEMMA NoPiece ==
  ASSUME Sound(buf)
  PROVE  << >> \in Seq(Seq(Byte)) /\ All(<< >>) = buf.data \o << >>
<1>1. << >> \in Seq(Seq(Byte)) /\ Len(<< >>) = 0
  OBVIOUS
<1>2. Appended(<< >>)[0] = buf
  BY <1>1, AppendedAre
<1>3. buf.data \in Seq(Byte)
  BY DEF Sound, Buffers
<1>4. buf.data \o << >> = buf.data
  BY <1>3
<1>. QED
  BY <1>1, <1>2, <1>4 DEF All

LEMMA OnePiece ==
  ASSUME Sound(buf), NEW a \in Seq(Byte)
  PROVE  <<a>> \in Seq(Seq(Byte)) /\ All(<<a>>) = buf.data \o a
<1>. DEFINE p == <<a>>
<1>1. p \in Seq(Seq(Byte)) /\ Len(p) = 1 /\ p[1] = a
  OBVIOUS
<1>. HIDE DEF p
<1>2. Appended(p)[0] = buf /\ Appended(p)[1] = Extend(Appended(p)[0], p[1])
  <2>1. 1 \in 1 .. Len(p) /\ 1 - 1 = 0
    BY <1>1
  <2>2. /\ Appended(p)[0] = buf
        /\ \A k \in 1 .. Len(p) : Appended(p)[k] = Extend(Appended(p)[k - 1], p[k])
    BY <1>1, AppendedAre
  <2>. QED
    BY <2>1, <2>2
<1>3. Appended(p)[1].data = buf.data \o a
  BY <1>1, <1>2, Extended
<1>. QED
  BY <1>1, <1>3 DEF All, p

LEMMA TwoPieces ==
  ASSUME Sound(buf), NEW a \in Seq(Byte), NEW b \in Seq(Byte)
  PROVE  <<a, b>> \in Seq(Seq(Byte)) /\ All(<<a, b>>) = buf.data \o (a \o b)
<1>. DEFINE p == <<a, b>>
            A == Appended(p)
<1>1. p \in Seq(Seq(Byte)) /\ Len(p) = 2 /\ p[1] = a /\ p[2] = b
  OBVIOUS
<1>. HIDE DEF p
<1>2. A[0] = buf /\ A[1] = Extend(A[0], p[1]) /\ A[2] = Extend(A[1], p[2])
  <2>1. 1 \in 1 .. Len(p) /\ 1 - 1 = 0 /\ 2 \in 1 .. Len(p) /\ 2 - 1 = 1
    BY <1>1
  <2>2. A[0] = buf /\ \A k \in 1 .. Len(p) : A[k] = Extend(A[k - 1], p[k])
    BY <1>1, AppendedAre
  <2>. HIDE DEF A
  <2>. QED
    BY <2>1, <2>2
<1>. HIDE DEF A
<1>3. Sound(A[1]) /\ A[1].data = buf.data \o a
  BY <1>1, <1>2, Extended
<1>4. A[2].data = (buf.data \o a) \o b
  <2>1. A[2] = Extend(A[1], b)
    BY <1>1, <1>2, Zenon
  <2>2. Extend(A[1], b).data = A[1].data \o b
    BY <1>3, Extended
  <2>. QED
    BY <2>1, <2>2, <1>3, Zenon
<1>5. buf.data \in Seq(Byte)
  BY DEF Sound, Buffers
<1>6. (buf.data \o a) \o b = buf.data \o (a \o b)
  BY <1>5, Joined
<1>. QED
  BY <1>1, <1>4, <1>6 DEF All, p, A

LEMMA ThreePieces ==
  ASSUME Sound(buf), NEW a \in Seq(Byte), NEW b \in Seq(Byte), NEW c \in Seq(Byte)
  PROVE  /\ <<a, b, c>> \in Seq(Seq(Byte))
         /\ All(<<a, b, c>>) = buf.data \o (a \o (b \o c))
<1>. DEFINE p == <<a, b, c>>
            A == Appended(p)
<1>1. p \in Seq(Seq(Byte)) /\ Len(p) = 3 /\ p[1] = a /\ p[2] = b /\ p[3] = c
  OBVIOUS
<1>. HIDE DEF p
<1>2. /\ A[0] = buf /\ A[1] = Extend(A[0], p[1])
      /\ A[2] = Extend(A[1], p[2]) /\ A[3] = Extend(A[2], p[3])
  <2>1. /\ 1 \in 1 .. Len(p) /\ 1 - 1 = 0 /\ 2 \in 1 .. Len(p) /\ 2 - 1 = 1
        /\ 3 \in 1 .. Len(p) /\ 3 - 1 = 2
    BY <1>1
  <2>2. A[0] = buf /\ \A k \in 1 .. Len(p) : A[k] = Extend(A[k - 1], p[k])
    BY <1>1, AppendedAre
  <2>. HIDE DEF A
  <2>. QED
    BY <2>1, <2>2
<1>. HIDE DEF A
<1>3. Sound(A[1]) /\ A[1].data = buf.data \o a
  <2>1. A[1] = Extend(buf, a)
    BY <1>1, <1>2, Zenon
  <2>. QED
    BY <2>1, Extended, Zenon
<1>4. Sound(A[2]) /\ A[2].data = (buf.data \o a) \o b
  <2>1. A[2] = Extend(A[1], b)
    BY <1>1, <1>2, Zenon
  <2>2. Sound(Extend(A[1], b)) /\ Extend(A[1], b).data = A[1].data \o b
    BY <1>3, Extended
  <2>. QED
    BY <2>1, <2>2, <1>3, Zenon
<1>5. A[3].data = ((buf.data \o a) \o b) \o c
  <2>1. A[3] = Extend(A[2], c)
    BY <1>1, <1>2, Zenon
  <2>2. Extend(A[2], c).data = A[2].data \o c
    BY <1>4, Extended
  <2>. QED
    BY <2>1, <2>2, <1>4, Zenon
<1>6. buf.data \in Seq(Byte)
  BY DEF Sound, Buffers
<1>7. (buf.data \o a) \o b = buf.data \o (a \o b) /\ a \o b \in Seq(Byte)
  BY <1>6, Joined
<1>8. (buf.data \o (a \o b)) \o c = buf.data \o ((a \o b) \o c)
  BY <1>6, <1>7, Joined
<1>9. (a \o b) \o c = a \o (b \o c)
  BY Joined
<1>10. A[3].data = buf.data \o (a \o (b \o c))
  BY <1>5, <1>7, <1>8, <1>9, Zenon
<1>. QED
  BY <1>1, <1>10 DEF All, p, A

LEMMA Pair ==
  ASSUME NEW a \in Seq(Byte), NEW b \in Seq(Byte)
  PROVE  <<a>> \o <<b>> = <<a, b>>
<1>. DEFINE t == <<a>> \o <<b>>
            u == <<a, b>>
<1>1. u \in Seq(Seq(Byte)) /\ Len(u) = 2 /\ u[1] = a /\ u[2] = b
  OBVIOUS
<1>2. t \in Seq(Seq(Byte)) /\ Len(t) = 2 /\ t[1] = a /\ t[2] = b
  <2>. DEFINE x == <<a>>
              y == <<b>>
  <2>1. /\ x \in Seq(Seq(Byte)) /\ Len(x) = 1 /\ x[1] = a
        /\ y \in Seq(Seq(Byte)) /\ Len(y) = 1 /\ y[1] = b
    OBVIOUS
  <2>. HIDE DEF x, y
  <2>2. /\ x \o y \in Seq(Seq(Byte)) /\ Len(x \o y) = Len(x) + Len(y)
        /\ \A i \in 1 .. Len(x) + Len(y) :
             (x \o y)[i] = IF i <= Len(x) THEN x[i] ELSE y[i - Len(x)]
    BY <2>1, ConcatProperties
  <2>3. Len(x \o y) = 2 /\ (x \o y)[1] = a /\ (x \o y)[2] = b
    BY <2>1, <2>2
  <2>. QED
    BY <2>2, <2>3 DEF x, y
<1>. HIDE DEF t, u
<1>3. \A i \in 1 .. Len(t) : t[i] = u[i]
  BY <1>1, <1>2
<1>4. t = u
  BY <1>1, <1>2, <1>3, SeqEqual
<1>. QED
  BY <1>4 DEF t, u

LEMMA StringWritten ==
  ASSUME Sound(buf), NEW s \in Seq(Byte)
  PROVE  /\ StringPieces(s) \in Seq(Seq(Byte))
         /\ All(StringPieces(s)) = buf.data \o (BigEndian(Len(s), Width) \o s)
<1>1. BigEndian(Len(s), Width) \in Seq(Byte)
  BY BufferAssumption, BigEndianType
<1>. DEFINE h == BigEndian(Len(s), Width)
<1>. HIDE DEF h
<1>2. CASE s = << >>
  <2>1. StringPieces(s) = <<h>>
    BY <1>2 DEF StringPieces, h
  <2>2. h \o s = h
    BY <1>1, <1>2 DEF h
  <2>. QED
    BY <2>1, <2>2, <1>1, OnePiece DEF h
<1>3. CASE s # << >>
  <2>1. StringPieces(s) = <<h, s>>
    <3>1. StringPieces(s) = <<h>> \o <<s>>
      BY <1>3 DEF StringPieces, h
    <3>2. <<h>> \o <<s>> = <<h, s>>
      BY <1>1, Pair DEF h
    <3>. QED
      BY <3>1, <3>2
  <2>. QED
    BY <2>1, <1>1, TwoPieces DEF h
<1>. QED
  BY <1>2, <1>3

LEMMA MpintWritten ==
  ASSUME Sound(buf), NEW s \in Seq(Byte)
  PROVE  /\ MpintPieces(StripZeros(s)) \in Seq(Seq(Byte))
         /\ All(MpintPieces(StripZeros(s)))
              = buf.data \o (BigEndian(Len(Canonical(s)), Width) \o Canonical(s))
<1>. DEFINE z == StripZeros(s)
            h == BigEndian(Len(Canonical(s)), Width)
<1>1. z \in Seq(Byte) /\ h \in Seq(Byte)
  BY CanonicalIs, BufferAssumption, BigEndianType
<1>2. Canonical(s) = IF z = <<>> THEN <<>> ELSE IF NeedPad(z) THEN <<0>> \o z ELSE z
  BY DEF Canonical
<1>. HIDE DEF z
<1>0. <<0>> \in Seq(Byte) /\ Len(<<0>>) = 1
  BY BufferAssumption DEF Byte
<1>3. CASE z = << >>
  <2>1. MpintPieces(z) = <<h>>
    BY <1>2, <1>3 DEF MpintPieces
  <2>. HIDE DEF h
  <2>2. h \o Canonical(s) = h
    BY <1>1, <1>2, <1>3
  <2>3. MpintPieces(z) \in Seq(Seq(Byte)) /\ All(MpintPieces(z)) = buf.data \o h
    BY <2>1, <1>1, OnePiece
  <2>. QED
    BY <2>2, <2>3 DEF h, z
<1>4. CASE z # << >> /\ ~NeedPad(z)
  <2>1. MpintPieces(z) = <<h, z>> /\ Canonical(s) = z
    BY <1>2, <1>4 DEF MpintPieces
  <2>. HIDE DEF h
  <2>3. MpintPieces(z) \in Seq(Seq(Byte)) /\ All(MpintPieces(z)) = buf.data \o (h \o z)
    BY <2>1, <1>1, TwoPieces
  <2>4. All(MpintPieces(z)) = buf.data \o (h \o Canonical(s))
    BY <2>1, <2>3
  <2>. QED
    BY <2>3, <2>4 DEF h, z
<1>5. CASE z # << >> /\ NeedPad(z)
  <2>1. Canonical(s) = <<0>> \o z
    BY <1>2, <1>5
  <2>2. Len(Canonical(s)) = Len(z) + 1
    BY <2>1, <1>0, <1>1
  <2>3. MpintPieces(z) = <<h, <<0>>, z>>
    BY <2>2, <1>5 DEF MpintPieces
  <2>. HIDE DEF h
  <2>4. /\ MpintPieces(z) \in Seq(Seq(Byte))
        /\ All(MpintPieces(z)) = buf.data \o (h \o (<<0>> \o z))
    <3>. DEFINE o == <<0>>
    <3>1. o \in Seq(Byte)
      BY <1>0
    <3>. HIDE DEF o
    <3>2. /\ <<h, o, z>> \in Seq(Seq(Byte))
          /\ All(<<h, o, z>>) = buf.data \o (h \o (o \o z))
      BY <3>1, <1>1, ThreePieces
    <3>. QED
      BY <3>2, <2>3 DEF o
  <2>5. All(MpintPieces(z)) = buf.data \o (h \o Canonical(s))
    BY <2>1, <2>4, Zenon
  <2>. QED
    BY <2>4, <2>5 DEF h, z
<1>. QED
  BY <1>3, <1>4, <1>5

LEMMA Written ==
  ASSUME Sound(buf), NEW v \in Values
  PROVE  /\ Pieces(v) \in Seq(Seq(Byte))
         /\ All(Pieces(v)) = buf.data \o Encoding(v)
<1>1. CASE v.type \in IntTypes
  <2>1. /\ Pieces(v) = <<BigEndian(v.val, Bytes(v.type))>>
        /\ Encoding(v) = BigEndian(v.val, Bytes(v.type))
    BY <1>1 DEF Pieces, Encoding, IntTypes
  <2>2. Encoding(v) \in Seq(Byte)
    BY EncodingType
  <2>. QED
    BY <2>1, <2>2, OnePiece
<1>2. CASE v.type = "raw"
  <2>1. Pieces(v) = (IF v.val = <<>> THEN <<>> ELSE <<v.val>>) /\ Encoding(v) = v.val
    BY <1>2 DEF Pieces, Encoding, IntTypes
  <2>2. v.val \in Seq(Byte)
    BY <2>1, EncodingType
  <2>. QED
    BY <2>1, <2>2, NoPiece, OnePiece
<1>3. CASE v.type = "string"
  <2>1. v.val \in Seq(Byte)
    BY <1>3, ValueKinds DEF IntTypes
  <2>2. /\ Pieces(v) = StringPieces(v.val)
        /\ Encoding(v) = BigEndian(Len(v.val), Width) \o v.val
    BY <1>3 DEF Pieces, Encoding, Decoded, IntTypes
  <2>. QED
    BY <2>1, <2>2, StringWritten
<1>4. CASE v.type = "mpint"
  <2>1. v.val \in Seq(Byte)
    BY <1>4, ValueKinds DEF IntTypes
  <2>2. /\ Pieces(v) = MpintPieces(StripZeros(v.val))
        /\ Encoding(v) = BigEndian(Len(Canonical(v.val)), Width) \o Canonical(v.val)
    BY <1>4 DEF Pieces, Encoding, Decoded, IntTypes
  <2>. QED
    BY <2>1, <2>2, MpintWritten
<1>. QED
  BY <1>1, <1>2, <1>3, <1>4, ValueKinds

-----------------------------------------------------------------------------
(* Steps.                                                                   *)

LEMMA WindowKept ==
  ASSUME NEW d \in Seq(Byte), NEW t \in Seq(Byte), NEW m \in Nat, NEW n \in 0 .. Len(d)
  PROVE  SubSeq(d \o t, m + 1, n) = SubSeq(d, m + 1, n)
<1>1. \A i \in 1 .. n - m : (d \o t)[m + i] = d[m + i]
  <2>1. ASSUME NEW i \in 1 .. n - m PROVE (d \o t)[m + i] = d[m + i]
    <3>1. Len(d) \in Nat /\ Len(t) \in Nat
      OBVIOUS
    <3>2. m + i \in 1 .. Len(d) + Len(t) /\ m + i <= Len(d)
      BY <3>1
    <3>. QED
      BY <3>2, ConcatProperties
  <2>. QED
    BY <2>1
<1>. DEFINE e == d \o t
<1>. HIDE DEF e
<1>2. SubSeq(e, m + 1, n) = [i \in 1 .. n - m |-> e[m + i]]
  OBVIOUS
<1>3. SubSeq(d, m + 1, n) = [i \in 1 .. n - m |-> d[m + i]]
  OBVIOUS
<1>. QED
  BY <1>1, <1>2, <1>3 DEF e

LEMMA WindowLast ==
  ASSUME NEW d \in Seq(Byte), NEW t \in Seq(Byte)
  PROVE  SubSeq(d \o t, Len(d) + 1, Len(d) + Len(t)) = t
<1>1. Len(d) \in Nat /\ Len(t) \in Nat /\ (Len(d) + Len(t)) - Len(d) = Len(t)
  OBVIOUS
<1>2. ASSUME NEW i \in 1 .. Len(t) PROVE (d \o t)[Len(d) + i] = t[i]
  <2>1. /\ Len(d) + i \in 1 .. Len(d) + Len(t) /\ ~(Len(d) + i <= Len(d))
        /\ (Len(d) + i) - Len(d) = i
    BY <1>1
  <2>. QED
    BY <2>1, ConcatProperties
<1>. DEFINE e == d \o t
            m == Len(d)
            n == Len(t)
<1>. HIDE DEF e, m, n
<1>3. SubSeq(e, m + 1, m + n) = [i \in 1 .. n |-> e[m + i]]
  <2>1. m \in Nat /\ n \in Nat
    BY <1>1 DEF m, n
  <2>. QED
    BY <2>1
<1>4. t = [i \in 1 .. n |-> t[i]]
  BY DEF n
<1>. QED
  BY <1>2, <1>3, <1>4 DEF e, m, n

LEMMA LiesLonger ==
  ASSUME NEW l \in Seq(Values), NEW d \in Seq(Byte), NEW t \in Seq(Byte),
         NEW pos, Lies(pos, l, d)
  PROVE  Lies(pos, l, d \o t)
<1>1. Len(d) \in Nat /\ Len(t) \in Nat /\ Len(l) \in Nat
  OBVIOUS
<1>2. Len(d \o t) = Len(d) + Len(t)
  OBVIOUS
<1>3. 0 .. Len(d) \subseteq 0 .. Len(d \o t)
  BY <1>1, <1>2
<1>4. pos \in [0 .. Len(l) -> 0 .. Len(d \o t)]
  BY <1>3 DEF Lies
<1>5. ASSUME NEW i \in 1 .. Len(l)
      PROVE  SubSeq(d \o t, pos[i - 1] + 1, pos[i]) = SubSeq(d, pos[i - 1] + 1, pos[i])
  <2>1. i \in 0 .. Len(l) /\ i - 1 \in 0 .. Len(l)
    BY <1>1
  <2>2. pos[i - 1] \in 0 .. Len(d) /\ pos[i] \in 0 .. Len(d)
    BY <2>1 DEF Lies
  <2>. DEFINE m == pos[i - 1]
              n == pos[i]
  <2>3. m \in Nat /\ n \in 0 .. Len(d)
    BY <2>2, <1>1
  <2>. HIDE DEF m, n
  <2>4. SubSeq(d \o t, m + 1, n) = SubSeq(d, m + 1, n)
    BY <2>3, WindowKept
  <2>. QED
    BY <2>4 DEF m, n
<1>. QED
  BY <1>4, <1>5 DEF Lies

\* q is pos and the place of one more value.
Continues(q, pos, l, d, v) ==
  /\ Lies(q, Append(l, v), d \o Encoding(v))
  /\ q[Len(l) + 1] = Len(d \o Encoding(v))
  /\ \A i \in 0 .. Len(l) : q[i] = pos[i]

LEMMA LiesAppend ==
  ASSUME NEW l \in Seq(Values), NEW d \in Seq(Byte), NEW v \in Values,
         NEW pos, Lies(pos, l, d), pos[Len(l)] = Len(d)
  PROVE  \E q : Continues(q, pos, l, d, v)
<1>. DEFINE e == Encoding(v)
            f == d \o e
            L == Len(l)
            q == [i \in 0 .. L + 1 |-> IF i = L + 1 THEN Len(f) ELSE pos[i]]
            k == Append(l, v)
<1>1. e \in Seq(Byte)
  BY EncodingType
<1>. HIDE DEF e
<1>2. /\ f \in Seq(Byte) /\ Len(f) = Len(d) + Len(e)
      /\ Len(d) \in Nat /\ Len(e) \in Nat /\ L \in Nat
  BY <1>1
<1>3. Lies(pos, l, f)
  BY <1>1, LiesLonger
<1>4. Len(k) = L + 1 /\ (\A i \in 1 .. L : k[i] = l[i]) /\ k[L + 1] = v
  BY AppendProperties
<1>5. SubSeq(f, Len(d) + 1, Len(f)) = e
  BY <1>1, <1>2, WindowLast
<1>. HIDE DEF f, k, L
<1>6. \A i \in 0 .. L : q[i] = pos[i] /\ pos[i] \in 0 .. Len(f)
  <2>1. TAKE i \in 0 .. L
  <2>2. i \in 0 .. L + 1 /\ i # L + 1
    BY <1>2
  <2>3. q[i] = pos[i]
    BY <2>2
  <2>4. pos \in [0 .. L -> 0 .. Len(f)]
    BY <1>3 DEF Lies, L
  <2>. QED
    BY <2>3, <2>4
<1>7. q[L + 1] = Len(f)
  BY <1>2
<1>8. q \in [0 .. L + 1 -> 0 .. Len(f)] /\ q[0] = 0
  <2>1. \A i \in 0 .. L + 1 : i \in 0 .. L \/ i = L + 1
    BY <1>2
  <2>2. \A i \in 0 .. L + 1 : q[i] \in 0 .. Len(f)
    <3>1. Len(f) \in 0 .. Len(f)
      BY <1>2
    <3>2. \A i \in 0 .. L : q[i] \in 0 .. Len(f)
      BY <1>6, Zenon
    <3>. QED
      BY <2>1, <3>1, <3>2, <1>7, Zenon
  <2>3. q[0] = 0
    BY <1>2, <1>6 DEF Lies
  <2>. QED
    BY <2>2, <2>3
<1>. HIDE DEF q
<1>9. ASSUME NEW i \in 1 .. L + 1
      PROVE  /\ q[i] = q[i - 1] + Len(Encoding(k[i]))
             /\ SubSeq(f, q[i - 1] + 1, q[i]) = Encoding(k[i])
  <2>1. CASE i \in 1 .. L
    <3>1. i \in 0 .. L /\ i - 1 \in 0 .. L
      BY <2>1, <1>2
    <3>2. q[i] = pos[i] /\ q[i - 1] = pos[i - 1] /\ k[i] = l[i]
      BY <3>1, <2>1, <1>4, <1>6
    <3>3. /\ pos[i] = pos[i - 1] + Len(Encoding(l[i]))
          /\ SubSeq(f, pos[i - 1] + 1, pos[i]) = Encoding(l[i])
      BY <2>1, <1>3 DEF Lies, L
    <3>. QED
      BY <3>2, <3>3
  <2>2. CASE i = L + 1
    <3>1. i - 1 = L /\ L \in 0 .. L
      BY <2>2, <1>2
    <3>2. q[i] = Len(f) /\ q[i - 1] = Len(d) /\ k[i] = v
      BY <2>2, <3>1, <1>4, <1>6, <1>7 DEF L
    <3>. QED
      BY <3>2, <1>2, <1>5 DEF e
  <2>. QED
    BY <2>1, <2>2, <1>2
<1>10. Lies(q, k, f)
  BY <1>4, <1>8, <1>9 DEF Lies
<1>. QED
  <2>1. Continues(q, pos, l, d, v)
    BY <1>6, <1>7, <1>10 DEF Continues, e, f, k, L
  <2>. QED
    BY <2>1

LEMMA PutEffect ==
  ASSUME Sound(buf), NEW v \in Values, Put(v)
  PROVE  /\ Sound(buf') /\ buf'.rpos = buf.rpos /\ UNCHANGED <<got, lost>>
         /\ \/ buf'.data = buf.data \o Encoding(v) /\ ~torn /\ torn' = torn
               /\ log' = Append(log, v)
            \/ /\ \E t \in Seq(Byte) : buf'.data = buf.data \o t
               /\ torn' /\ torn' \in BOOLEAN /\ log' = log
<1>. DEFINE p == Pieces(v)
            A == Appended(p)
<1>1. p \in Seq(Seq(Byte)) /\ A[Len(p)].data = buf.data \o Encoding(v)
  BY Written DEF All
<1>2. Len(p) \in Nat /\ Len(p) \in 0 .. Len(p)
  BY <1>1
<1>3. \A k \in 0 .. Len(p) : Extends(A[k])
  BY <1>1, AppendedAre
<1>4. /\ UNCHANGED <<got, lost>>
      /\ \/ /\ buf' = A[Len(p)]
            /\ log' = IF torn THEN log ELSE Append(log, v)
            /\ UNCHANGED torn
         \/ /\ \E k \in 0 .. Len(p) - 1 : buf' = A[k]
            /\ torn' = TRUE /\ UNCHANGED log
  BY DEF Put, PutFailed
<1>. HIDE DEF A, p
<1>5. Extends(buf')
  <2>1. \A k \in 0 .. Len(p) - 1 : k \in 0 .. Len(p)
    BY <1>2
  <2>. QED
    BY <2>1, <1>2, <1>3, <1>4
<1>6. /\ Sound(buf') /\ buf'.rpos = buf.rpos
      /\ \E t \in Seq(Byte) : buf'.data = buf.data \o t
  BY <1>5 DEF Extends
<1>7. CASE torn
  BY <1>4, <1>6, <1>7
<1>8. CASE ~torn
  BY <1>1, <1>4, <1>6, <1>8
<1>. QED
  BY <1>7, <1>8

LEMMA PutStep ==
  ASSUME BufferInv, NEW v \in Values, Put(v)
  PROVE  BufferInv'
<1>1. /\ Sound(buf) /\ log \in Seq(Values) /\ torn \in BOOLEAN /\ lost \in BOOLEAN
      /\ GotInv /\ LogInv
  BY DEF BufferInv
<1>2. /\ Sound(buf') /\ buf'.rpos = buf.rpos /\ UNCHANGED <<got, lost>>
      /\ \/ buf'.data = buf.data \o Encoding(v) /\ ~torn /\ torn' = torn
            /\ log' = Append(log, v)
         \/ /\ \E t \in Seq(Byte) : buf'.data = buf.data \o t
            /\ torn' /\ torn' \in BOOLEAN /\ log' = log
  BY <1>1, PutEffect
<1>3. buf.data \in Seq(Byte) /\ Len(log) \in Nat
  BY <1>1 DEF Sound, Buffers
<1>4. PICK pos \in [0 .. Len(log) -> 0 .. Len(buf.data)] :
        /\ Lies(pos, log, buf.data)
        /\ ~torn => pos[Len(log)] = Len(buf.data)
        /\ ~lost => buf.rpos = pos[Len(got)]
  BY <1>1 DEF LogInv
<1>5. PICK n \in 0 .. Len(log) :
        got = [i \in 1 .. n |-> [is |-> "read", val |-> Decoded(log[i])]]
  BY <1>1 DEF GotInv
<1>6. Len(got) = n /\ n \in Nat
  BY <1>5, <1>3
<1>7. CASE \E t \in Seq(Byte) : buf'.data = buf.data \o t /\ torn' /\ torn' \in BOOLEAN /\ log' = log
  <2>1. PICK t \in Seq(Byte) : buf'.data = buf.data \o t
    BY <1>7
  <2>2. Lies(pos, log', buf'.data)
    BY <2>1, <1>1, <1>3, <1>4, <1>7, LiesLonger
  <2>3. pos \in [0 .. Len(log') -> 0 .. Len(buf'.data)]
    BY <2>2 DEF Lies
  <2>4. ~lost' => buf'.rpos = pos[Len(got')]
    BY <1>2, <1>4
  <2>5. LogInv'
    BY <2>2, <2>3, <2>4, <1>7 DEF LogInv
  <2>6. GotInv'
    BY <1>2, <1>5, <1>7 DEF GotInv
  <2>. QED
    BY <2>5, <2>6, <1>1, <1>2, <1>7 DEF BufferInv
<1>8. CASE buf'.data = buf.data \o Encoding(v) /\ ~torn /\ torn' = torn
           /\ log' = Append(log, v)
  <2>1. PICK q : /\ Lies(q, Append(log, v), buf.data \o Encoding(v))
                 /\ q[Len(log) + 1] = Len(buf.data \o Encoding(v))
                 /\ \A i \in 0 .. Len(log) : q[i] = pos[i]
    <3>. DEFINE d == buf.data
    <3>1. log \in Seq(Values) /\ d \in Seq(Byte) /\ Lies(pos, log, d) /\ pos[Len(log)] = Len(d)
      BY <1>1, <1>3, <1>4, <1>8
    <3>. HIDE DEF d
    <3>2. \E q : Continues(q, pos, log, d, v)
      BY <3>1, LiesAppend
    <3>. QED
      BY <3>2 DEF Continues, d
  <2>2. /\ Len(log') = Len(log) + 1 /\ log' \in Seq(Values)
        /\ \A i \in 1 .. Len(log) : log'[i] = log[i]
    BY <1>1, <1>8, AppendProperties
  <2>3. Lies(q, log', buf'.data) /\ q[Len(log')] = Len(buf'.data)
    BY <2>1, <2>2, <1>8
  <2>4. q \in [0 .. Len(log') -> 0 .. Len(buf'.data)]
    BY <2>3 DEF Lies
  <2>5. ~lost' => buf'.rpos = q[Len(got')]
    BY <2>1, <1>2, <1>4, <1>5, <1>6
  <2>6. LogInv'
    BY <2>3, <2>4, <2>5 DEF LogInv
  <2>7. GotInv'
    <3>1. n \in 0 .. Len(log')
      BY <2>2, <1>3
    <3>2. \A i \in 1 .. n : i \in 1 .. Len(log)
      BY <1>3
    <3>3. got' = [i \in 1 .. n |-> [is |-> "read", val |-> Decoded(log'[i])]]
      BY <3>2, <2>2, <1>2, <1>5
    <3>. QED
      BY <3>1, <3>3 DEF GotInv
  <2>. QED
    BY <2>2, <2>6, <2>7, <1>1, <1>2, <1>8 DEF BufferInv
<1>. QED
  BY <1>2, <1>7, <1>8

\* A window that holds two strings one behind the other
LEMMA WindowParts ==
  ASSUME NEW d \in Seq(Byte), NEW x \in Seq(Byte), NEW y \in Seq(Byte), NEW m \in Nat,
         m + (Len(x) + Len(y)) <= Len(d),
         SubSeq(d, m + 1, m + (Len(x) + Len(y))) = x \o y
  PROVE  /\ SubSeq(d, m + 1, m + Len(x)) = x
         /\ SubSeq(d, (m + Len(x)) + 1, (m + Len(x)) + Len(y)) = y
<1>. DEFINE a == Len(x)
            b == Len(y)
            e == x \o y
<1>1. a \in Nat /\ b \in Nat
  OBVIOUS
<1>2. /\ x = [i \in 1 .. a |-> x[i]] /\ y = [i \in 1 .. b |-> y[i]]
      /\ (\A i \in 1 .. a : x[i] \in Byte) /\ (\A i \in 1 .. b : y[i] \in Byte)
  OBVIOUS
<1>3. \A i \in 1 .. a + b : e[i] = IF i <= a THEN x[i] ELSE y[i - a]
  BY ConcatProperties
<1>4. SubSeq(d, m + 1, m + (a + b)) = e
  OBVIOUS
<1>. HIDE DEF a, b, e
<1>5. \A i \in 1 .. a + b : e[i] = d[m + i]
  <2>1. SubSeq(d, m + 1, m + (a + b)) = [i \in 1 .. a + b |-> d[m + i]]
    BY <1>1
  <2>. QED
    BY <1>4, <2>1
<1>6. ASSUME NEW i \in 1 .. a PROVE d[m + i] = x[i]
  <2>1. i \in 1 .. a + b /\ i <= a
    BY <1>1
  <2>. QED
    BY <2>1, <1>3, <1>5
<1>7. ASSUME NEW i \in 1 .. b PROVE d[m + a + i] = y[i]
  <2>1. a + i \in 1 .. a + b /\ ~(a + i <= a) /\ (a + i) - a = i /\ m + (a + i) = m + a + i
    BY <1>1
  <2>. QED
    BY <2>1, <1>3, <1>5
<1>8. SubSeq(d, m + 1, m + a) = [i \in 1 .. a |-> d[m + i]]
  BY <1>1
<1>9. SubSeq(d, (m + a) + 1, (m + a) + b) = [i \in 1 .. b |-> d[m + a + i]]
  BY <1>1
<1>10. SubSeq(d, m + 1, m + a) = x
  BY <1>2, <1>6, <1>8
<1>11. SubSeq(d, (m + a) + 1, (m + a) + b) = y
  BY <1>2, <1>7, <1>9
<1>. QED
  BY <1>10, <1>11 DEF a, b

LEMMA WindowType ==
  ASSUME Sound(buf), NEW at \in Nat, NEW n \in Nat, at + n <= Len(buf.data)
  PROVE  Window(at, n) \in Seq(Byte)
<1>1. buf.data \in Seq(Byte) /\ Len(buf.data) \in Nat
  BY DEF Sound, Buffers
<1>2. Window(at, n) = [i \in 1 .. n |-> buf.data[at + i]]
  BY <1>1 DEF Window
<1>3. \A i \in 1 .. n : buf.data[at + i] \in Byte
  <2>1. \A i \in 1 .. n : at + i \in 1 .. Len(buf.data)
    BY <1>1
  <2>. QED
    BY <2>1, <1>1
<1>. QED
  BY <1>2, <1>3

LEMMA ReadFields ==
  ASSUME NEW x, NEW at
  PROVE  /\ Read(x, at).is = "read" /\ Read(x, at).val = x /\ Read(x, at).rpos = at
         /\ NoValue(x, at).is = x /\ NoValue(x, at).rpos = at
BY DEF Read, NoValue

LEMMA IntRead ==
  ASSUME Sound(buf), NEW w \in Nat
  PROVE  \/ /\ buf.rpos + w <= Len(buf.data)
            /\ IntResult(w) = Read(Number(Window(buf.rpos, w)), buf.rpos + w)
            /\ Number(Window(buf.rpos, w)) \in Nat
         \/ /\ ~(buf.rpos + w <= Len(buf.data))
            /\ IntResult(w) = NoValue("underflow", buf.rpos)
<1>1. /\ buf.rpos \in Nat /\ Len(buf.data) \in Nat
      /\ buf.rpos <= Len(buf.data)
  BY DEF Sound, Buffers
<1>2. CASE buf.rpos + w <= Len(buf.data)
  <2>1. Number(Window(buf.rpos, w)) \in Nat
    BY <1>1, <1>2, WindowType, NumberType
  <2>2. ~(Readable < w)
    BY <1>1, <1>2 DEF Readable
  <2>. QED
    BY <1>2, <2>1, <2>2 DEF IntResult
<1>3. CASE ~(buf.rpos + w <= Len(buf.data))
  <2>1. Readable < w
    BY <1>1, <1>3 DEF Readable
  <2>. QED
    BY <1>3, <2>1 DEF IntResult
<1>. QED
  BY <1>2, <1>3

\* No read takes the cursor past the bytes written.
LEMMA CursorWithin ==
  ASSUME Sound(buf), NEW type \in Types, NEW n \in Nat, NEW r \in Results(type, n)
  PROVE  r.rpos \in Nat /\ r.rpos <= Len(buf.data)
<1>1. /\ buf.rpos \in Nat /\ Len(buf.data) \in Nat
      /\ buf.rpos <= Len(buf.data) /\ Width \in Nat
  BY BufferAssumption DEF Sound, Buffers
<1>2. ASSUME NEW w \in Nat
      PROVE  IntResult(w).rpos \in Nat /\ IntResult(w).rpos <= Len(buf.data)
  BY <1>1, IntRead DEF Read, NoValue
<1>3. CASE type \in IntTypes
  <2>1. Bytes(type) \in Nat
    BY <1>3, BufferAssumption DEF IntTypes, Bytes
  <2>2. r = IntResult(Bytes(type))
    BY <1>3 DEF Results, IntTypes
  <2>. QED
    BY <2>1, <2>2, <1>2
<1>4. CASE type = "raw"
  <2>1. r = RawResult(n)
    BY <1>4 DEF Results, IntTypes
  <2>. QED
    BY <2>1, <1>1 DEF RawResult, Readable, Read, NoValue
<1>5. CASE type \in {"string", "mpint"}
  <2>1. r \in StringResults
    BY <1>5 DEF Results, IntTypes
  <2>2. CASE IntResult(Width).is # "read"
    <3>1. r = IntResult(Width)
      BY <2>1, <2>2 DEF StringResults
    <3>. QED
      BY <3>1, <1>1, <1>2
  <2>3. CASE IntResult(Width).is = "read"
    <3>. DEFINE l == Number(Window(buf.rpos, Width))
                at == buf.rpos + Width
    <3>1. IntResult(Width) = Read(l, at) /\ l \in Nat /\ at <= Len(buf.data)
      BY <2>3, <1>1, IntRead DEF NoValue
    <3>2. IntResult(Width).val = l /\ IntResult(Width).rpos = at /\ at \in Nat
      BY <3>1, <1>1 DEF Read
    <3>. HIDE DEF l
    <3>3. \/ ~Enough(l) /\ r = NoValue("underflow", at)
          \/ Enough(l) /\ r \in {Read(Window(at, l), at + l), NoValue("nomemory", at)}
      BY <2>1, <2>3, <3>2 DEF StringResults
    <3>4. r.rpos = at \/ (Enough(l) /\ r.rpos = at + l)
      BY <3>3 DEF Read, NoValue
    <3>5. Enough(l) => at + l <= Len(buf.data)
      BY <3>1, <1>1 DEF Enough, Readable
    <3>. QED
      BY <3>1, <3>2, <3>4, <3>5, <1>1
  <2>. QED
    BY <2>2, <2>3
<1>. QED
  BY <1>3, <1>4, <1>5 DEF Types, IntTypes

\* The bytes of the value are at the cursor.
Ahead(v) ==
  /\ buf.rpos + Len(Encoding(v)) <= Len(buf.data)
  /\ Window(buf.rpos, Len(Encoding(v))) = Encoding(v)

\* A reader of its type returns the value that is at the cursor and stops behind
\* it, unless it has no memory to return it in.
LEMMA NextRead ==
  ASSUME Sound(buf), NEW v \in Values, NEW n \in Nat, Ahead(v),
         v.type = "raw" => n = Len(v.val),
         NEW r \in Results(v.type, n), r.is # "nomemory"
  PROVE  /\ r.is = "read" /\ r.val = Decoded(v)
         /\ r.rpos = buf.rpos + Len(Encoding(v))
<1>1. /\ buf.rpos \in Nat /\ Len(buf.data) \in Nat /\ buf.data \in Seq(Byte)
      /\ buf.rpos <= Len(buf.data) /\ Width \in Nat
  BY BufferAssumption DEF Sound, Buffers
<1>2. CASE v.type \in IntTypes
  <2>. DEFINE w == Bytes(v.type)
  <2>1. /\ v.val \in Nat /\ InBytes(v.val, w) /\ w \in Nat
    BY <1>2, ValueKinds DEF IntTypes
  <2>2. r = IntResult(w) /\ Encoding(v) = BigEndian(v.val, w) /\ Decoded(v) = v.val
    BY <1>2 DEF Results, Encoding, Decoded, IntTypes
  <2>. HIDE DEF w
  <2>3. Len(Encoding(v)) = w /\ Number(Encoding(v)) = v.val
    BY <2>1, <2>2, BigEndianType, NumberReadBack
  <2>4. IntResult(w) = Read(Number(Window(buf.rpos, w)), buf.rpos + w)
    <3>1. buf.rpos + w <= Len(buf.data)
      BY <2>3 DEF Ahead
    <3>. QED
      BY <2>1, <3>1, IntRead
  <2>5. IntResult(w) = Read(v.val, buf.rpos + w)
    BY <2>3, <2>4 DEF Ahead
  <2>. QED
    BY <2>2, <2>3, <2>5, ReadFields
<1>3. CASE v.type = "raw"
  <2>1. Encoding(v) = v.val /\ Decoded(v) = v.val /\ r = RawResult(n) /\ n = Len(v.val)
    BY <1>3 DEF Results, Encoding, Decoded, IntTypes
  <2>2. buf.rpos + n <= Len(buf.data) /\ Window(buf.rpos, n) = v.val
    BY <2>1 DEF Ahead
  <2>3. ~(Readable < n)
    BY <2>2, <1>1 DEF Readable
  <2>4. r = Read(v.val, buf.rpos + n)
    BY <2>1, <2>2, <2>3 DEF RawResult
  <2>. QED
    BY <2>1, <2>4, ReadFields
<1>4. CASE v.type \in {"string", "mpint"}
  <2>. DEFINE c == Decoded(v)
              l == Len(c)
              h == BigEndian(l, Width)
              at == buf.rpos + Width
              d == buf.data
              m == buf.rpos
  <2>1. c \in Seq(Byte) /\ l \in Nat /\ InBytes(l, Width)
    BY <1>4, DecodedType
  <2>2. Encoding(v) = h \o c
    BY <1>4 DEF Encoding, IntTypes
  <2>3. h \in Seq(Byte) /\ Len(h) = Width /\ Number(h) = l
    <3>. HIDE DEF l
    <3>. QED
      BY <2>1, <1>1, BigEndianType, NumberReadBack
  <2>4. r \in StringResults
    BY <1>4 DEF Results, IntTypes
  <2>. HIDE DEF h
  <2>5. Len(Encoding(v)) = Width + l
    <3>1. Len(h \o c) = Len(h) + Len(c)
      BY <2>1, <2>3, ConcatProperties
    <3>. QED
      BY <2>2, <2>3, <3>1
  <2>l. l = Len(c)
    OBVIOUS
  <2>. HIDE DEF c, l
  <2>6. /\ SubSeq(d, m + 1, m + Width) = h
        /\ SubSeq(d, (m + Width) + 1, (m + Width) + l) = c
        /\ m + (Width + l) <= Len(d)
    <3>1. m + (Len(h) + Len(c)) <= Len(d)
      BY <2>3, <2>5, <2>l DEF Ahead
    <3>2. SubSeq(d, m + 1, m + (Len(h) + Len(c))) = h \o c
      BY <2>2, <2>3, <2>5, <2>l DEF Window, Ahead
    <3>3. d \in Seq(Byte) /\ m \in Nat
      BY <1>1
    <3>. HIDE DEF d, m
    <3>4. /\ SubSeq(d, m + 1, m + Len(h)) = h
          /\ SubSeq(d, (m + Len(h)) + 1, (m + Len(h)) + Len(c)) = c
      BY <2>1, <2>3, <3>1, <3>2, <3>3, WindowParts
    <3>. QED
      BY <2>3, <2>l, <3>1, <3>4
  <2>m. m + (Width + l) <= Len(d)
    BY <2>6
  <2>7. IntResult(Width) = Read(l, at)
    <3>1. m + Width <= Len(d)
      BY <1>1, <2>1, <2>m
    <3>2. IntResult(Width) = Read(Number(Window(m, Width)), m + Width)
      BY <3>1, <1>1, IntRead
    <3>3. Window(m, Width) = h
      BY <2>6 DEF Window
    <3>. QED
      BY <2>3, <3>2, <3>3
  <2>8. Enough(l)
    BY <1>1, <2>1, <2>m DEF Enough, Readable
  <2>9. IntResult(Width).is = "read" /\ IntResult(Width).val = l /\ IntResult(Width).rpos = at
    BY <2>7, ReadFields
  <2>10. r \in {Read(Window(at, l), at + l), NoValue("nomemory", at)}
    BY <2>4, <2>8, <2>9 DEF StringResults
  <2>11. r = Read(Window(at, l), at + l)
    BY <2>10, ReadFields
  <2>12. Window(at, l) = c
    BY <2>6 DEF Window
  <2>13. at + l = buf.rpos + Len(Encoding(v))
    BY <1>1, <2>1, <2>5
  <2>. QED
    BY <2>11, <2>12, <2>13, ReadFields DEF c
<1>. QED
  BY <1>2, <1>3, <1>4, ValueKinds

\* The next value is at the cursor of a reader that is in step.
LEMMA InStepAhead ==
  ASSUME BufferInv, NEW type, NEW n, InStep(type, n)
  PROVE  Len(got) + 1 \in 1 .. Len(log) /\ Ahead(log[Len(got) + 1])
<1>. DEFINE k == Len(got) + 1
            e == Encoding(log[k])
<1>1. /\ log \in Seq(Values) /\ Len(log) \in Nat /\ ~lost /\ Len(got) < Len(log)
  BY DEF BufferInv, InStep
<1>2. Len(got) \in Nat
  <2>1. PICK m \in 0 .. Len(log) :
          got = [i \in 1 .. m |-> [is |-> "read", val |-> Decoded(log[i])]]
    BY DEF BufferInv, GotInv
  <2>2. m \in Nat
    BY <2>1, <1>1
  <2>. QED
    BY <2>1, <2>2
<1>3. k \in 1 .. Len(log) /\ k - 1 = Len(got) /\ k \in 0 .. Len(log) /\ k - 1 \in 0 .. Len(log)
  BY <1>1, <1>2
<1>4. PICK pos \in [0 .. Len(log) -> 0 .. Len(buf.data)] :
        Lies(pos, log, buf.data) /\ buf.rpos = pos[Len(got)]
  BY <1>1 DEF BufferInv, LogInv
<1>. HIDE DEF k
<1>5. pos[k] = pos[k - 1] + Len(e) /\ SubSeq(buf.data, pos[k - 1] + 1, pos[k]) = e
  BY <1>3, <1>4 DEF Lies
<1>6. pos[k] \in 0 .. Len(buf.data) /\ pos[k - 1] = buf.rpos
  BY <1>3, <1>4
<1>7. pos[k] <= Len(buf.data)
  BY <1>6
<1>8. Ahead(log[k])
  BY <1>5, <1>6, <1>7 DEF Ahead, Window
<1>. QED
  BY <1>3, <1>8 DEF k

LEMMA GetStep ==
  ASSUME BufferInv, NEW type \in Types, NEW n \in Nat, Get(type, n)
  PROVE  BufferInv'
<1>1. /\ Sound(buf) /\ log \in Seq(Values) /\ torn \in BOOLEAN /\ lost \in BOOLEAN
      /\ GotInv /\ LogInv
  BY DEF BufferInv
<1>2. PICK r \in Results(type, n) :
       /\ buf' = [buf EXCEPT !.rpos = r.rpos]
       /\ got' = IF InStep(type, n) /\ r.is # "nomemory"
                 THEN Append(got, [is |-> r.is, val |-> r.val]) ELSE got
       /\ lost' = (lost \/ (r.rpos # buf.rpos /\ ~(InStep(type, n) /\ r.is = "read")))
       /\ log' = log /\ torn' = torn
  BY DEF Get
<1>3. r.rpos \in Nat /\ r.rpos <= Len(buf.data)
  BY <1>1, CursorWithin
<1>4. /\ buf'.data = buf.data /\ buf'.rpos = r.rpos /\ Sound(buf')
  BY <1>1, <1>2, <1>3 DEF Sound, Buffers
<1>5. lost' \in BOOLEAN
  BY <1>1, <1>2
<1>6. PICK pos \in [0 .. Len(log) -> 0 .. Len(buf.data)] :
        /\ Lies(pos, log, buf.data)
        /\ ~torn => pos[Len(log)] = Len(buf.data)
        /\ ~lost => buf.rpos = pos[Len(got)]
  BY <1>1 DEF LogInv
<1>7. PICK m \in 0 .. Len(log) :
        got = [i \in 1 .. m |-> [is |-> "read", val |-> Decoded(log[i])]]
  BY <1>1 DEF GotInv
<1>8. m \in Nat /\ Len(log) \in Nat
  BY <1>1
<1>9. Len(got) = m
  BY <1>7, <1>8
<1>10. CASE ~(InStep(type, n) /\ r.is # "nomemory")
  <2>1. got' = got
    BY <1>2, <1>10
  <2>2. ~lost' => ~lost /\ r.rpos = buf.rpos
    <3>1. r.is = "read" => r.is # "nomemory"
      OBVIOUS
    <3>. QED
      BY <3>1, <1>2, <1>10
  <2>3. GotInv'
    BY <2>1, <1>2, <1>7 DEF GotInv
  <2>4. LogInv'
    BY <2>1, <2>2, <1>2, <1>4, <1>6 DEF LogInv
  <2>. QED
    BY <2>3, <2>4, <1>1, <1>2, <1>4, <1>5 DEF BufferInv
<1>11. CASE InStep(type, n) /\ r.is # "nomemory"
  <2>. DEFINE k == m + 1
              v == log[k]
  <2>1. k \in 1 .. Len(log) /\ Ahead(v)
    BY <1>9, <1>11, InStepAhead
  <2>2. v \in Values /\ v.type = type /\ (type = "raw" => n = Len(v.val)) /\ ~lost
    BY <2>1, <1>1, <1>9, <1>11 DEF InStep
  <2>3. /\ r.is = "read" /\ r.val = Decoded(v)
        /\ r.rpos = buf.rpos + Len(Encoding(v))
    BY <2>1, <2>2, <1>1, <1>11, NextRead
  <2>4. r.rpos = pos[k]
    <3>1. k - 1 = m
      BY <1>8
    <3>2. pos[k] = pos[k - 1] + Len(Encoding(v))
      BY <2>1, <1>6 DEF Lies
    <3>. QED
      BY <3>1, <3>2, <2>2, <2>3, <1>6, <1>9
  <2>5. got' = [i \in 1 .. k |-> [is |-> "read", val |-> Decoded(log[i])]]
    <3>. DEFINE x == [is |-> "read", val |-> Decoded(v)]
                f == [i \in 1 .. k |-> [is |-> "read", val |-> Decoded(log[i])]]
    <3>1. got' = Append(got, x)
      BY <2>3, <1>2, <1>11
    <3>2. \A i \in 1 .. m : got[i] = f[i]
      BY <1>7, <1>8
    <3>3. f[k] = x
      BY <1>8
    <3>4. f = [i \in 1 .. k |-> f[i]]
      OBVIOUS
    <3>5. got = [i \in 1 .. m |-> got[i]]
      BY <1>7
    <3>. HIDE DEF f, x
    <3>6. Append(got, x) = [i \in 1 .. k |-> IF i = k THEN x ELSE got[i]]
      BY <3>5, <1>8, <1>9
    <3>7. \A i \in 1 .. k : i \in 1 .. m \/ i = k
      BY <1>8
    <3>8. \A i \in 1 .. k : f[i] = IF i = k THEN x ELSE got[i]
      BY <3>2, <3>3, <3>7, Zenon
    <3>9. [i \in 1 .. k |-> f[i]] = [i \in 1 .. k |-> IF i = k THEN x ELSE got[i]]
      BY <3>8, Zenon
    <3>. QED
      BY <3>1, <3>4, <3>6, <3>9, Zenon DEF f
  <2>6. Len(got') = k
    BY <2>5, <1>8
  <2>7. GotInv'
    <3>1. k \in 0 .. Len(log')
      BY <2>1, <1>2
    <3>. QED
      BY <3>1, <2>5, <1>2 DEF GotInv
  <2>8. LogInv'
    BY <2>4, <2>6, <1>2, <1>4, <1>6 DEF LogInv
  <2>. QED
    BY <2>7, <2>8, <1>1, <1>2, <1>4, <1>5 DEF BufferInv
<1>. QED
  BY <1>10, <1>11

LEMMA ConsumeStep ==
  ASSUME BufferInv, NEW n \in 1 .. MaxRaw, Consume(n)
  PROVE  BufferInv'
<1>1. /\ Sound(buf) /\ log \in Seq(Values) /\ torn \in BOOLEAN
      /\ GotInv /\ LogInv /\ n \in Nat
  BY BufferAssumption DEF BufferInv
<1>2. /\ buf.rpos + n <= Len(buf.data) /\ buf' = [buf EXCEPT !.rpos = buf.rpos + n]
      /\ lost' = TRUE /\ log' = log /\ torn' = torn /\ got' = got
  BY DEF Consume
<1>3. buf'.data = buf.data /\ Sound(buf')
  BY <1>1, <1>2 DEF Sound, Buffers
<1>4. GotInv'
  BY <1>1, <1>2 DEF GotInv
<1>5. LogInv'
  BY <1>1, <1>2, <1>3 DEF LogInv
<1>. QED
  BY <1>1, <1>2, <1>3, <1>4, <1>5 DEF BufferInv

\* A buffer without bytes and without values
Blank ==
  /\ Sound(buf) /\ buf.data = << >> /\ buf.rpos = 0
  /\ log = << >> /\ torn = FALSE /\ got = << >> /\ lost = FALSE

LEMMA NothingYet == Blank => BufferInv
<1>. SUFFICES ASSUME Blank PROVE BufferInv
  OBVIOUS
<1>. USE DEF Blank
<1>0. Len(log) = 0 /\ Len(got) = 0 /\ Len(buf.data) = 0 /\ log \in Seq(Values)
  OBVIOUS
<1>1. GotInv
  <2>1. 0 \in 0 .. Len(log)
    BY <1>0
  <2>2. got = [i \in 1 .. 0 |-> [is |-> "read", val |-> Decoded(log[i])]]
    OBVIOUS
  <2>. QED
    BY <2>1, <2>2 DEF GotInv
<1>2. LogInv
  <2>. DEFINE pos == [i \in 0 .. 0 |-> 0]
  <2>1. pos \in [0 .. Len(log) -> 0 .. Len(buf.data)] /\ pos[0] = 0
    BY <1>0
  <2>2. Lies(pos, log, buf.data)
    BY <1>0, <2>1 DEF Lies
  <2>. HIDE DEF pos
  <2>. QED
    BY <1>0, <2>1, <2>2 DEF LogInv
<1>. QED
  BY <1>0, <1>1, <1>2 DEF BufferInv

LEMMA EmptyStep ==
  ASSUME NEW b, Sound(b), b.data = << >>, b.rpos = 0, Empty(b)
  PROVE  BufferInv'
<1>1. /\ buf' = b /\ log' = << >> /\ torn' = FALSE /\ got' = << >> /\ lost' = FALSE
  BY DEF Empty
<1>2. Blank'
  BY <1>1 DEF Blank, Sound, Buffers
<1>. QED
  BY <1>2, NothingYet, PTL

LEMMA ResetStep ==
  ASSUME BufferInv, Reset
  PROVE  BufferInv'
<1>1. buf \in Buffers /\ Sound(buf)
  BY DEF BufferInv, Sound
<1>2. /\ Sound(ResetBuf) /\ ResetBuf.data = << >> /\ ResetBuf.rpos = 0
  <2>1. ResetBuf = [data |-> << >>, rpos |-> 0, cap |-> buf.cap]
    <3>1. buf = [data |-> buf.data, rpos |-> buf.rpos, cap |-> buf.cap]
      BY <1>1 DEF Buffers
    <3>2. [buf EXCEPT !.data = << >>] = [data |-> << >>, rpos |-> buf.rpos, cap |-> buf.cap]
      BY <3>1
    <3>3. ResetBuf = [[buf EXCEPT !.data = << >>] EXCEPT !.rpos = 0]
      BY <1>1 DEF ResetBuf, Buffers
    <3>. QED
      BY <3>2, <3>3
  <2>2. buf.cap \in Nat
    BY <1>1 DEF Buffers
  <2>. QED
    BY <2>1, <2>2 DEF Sound, Buffers
<1>. QED
  BY <1>2, EmptyStep DEF Reset

LEMMA FreeStep ==
  ASSUME Free
  PROVE  BufferInv'
<1>. DEFINE b == [data |-> << >>, rpos |-> 0, cap |-> 0]
<1>1. Sound(b) /\ b.data = << >> /\ b.rpos = 0
  BY DEF Sound, Buffers
<1>2. Empty(b)
  BY DEF Free
<1>. HIDE DEF b
<1>. QED
  BY <1>1, <1>2, EmptyStep

LEMMA InitInv ==
  ASSUME Init
  PROVE  BufferInv
<1>1. PICK c \in InitCaps : buf = [data |-> << >>, rpos |-> 0, cap |-> Max({c, MinCap})]
  BY DEF Init
<1>2. c \in Nat /\ MinCap \in Nat
  BY BufferAssumption
<1>3. Max({c, MinCap}) \in Nat
  <2>1. CASE c >= MinCap
    <3>1. \E x \in {c, MinCap} : \A y \in {c, MinCap} : x >= y
      BY <2>1, <1>2
    <3>. QED
      BY <3>1, <1>2 DEF Max
  <2>2. CASE MinCap >= c
    <3>1. \E x \in {c, MinCap} : \A y \in {c, MinCap} : x >= y
      BY <2>2, <1>2
    <3>. QED
      BY <3>1, <1>2 DEF Max
  <2>. QED
    BY <2>1, <2>2, <1>2
<1>4. Sound(buf) /\ buf.data = << >> /\ buf.rpos = 0
  <2>. DEFINE m == Max({c, MinCap})
  <2>. HIDE DEF m
  <2>1. m \in Nat /\ buf = [data |-> << >>, rpos |-> 0, cap |-> m]
    BY <1>1, <1>3 DEF m
  <2>. QED
    BY <2>1 DEF Sound, Buffers
<1>. QED
  BY <1>4, NothingYet DEF Init, Blank

LEMMA Step ==
  ASSUME BufferInv, [Next]_vars
  PROVE  BufferInv'
<1>1. ASSUME NEW v \in Values, Put(v) PROVE BufferInv'
  BY <1>1, PutStep
<1>2. ASSUME NEW t \in Types, NEW n \in IF t = "raw" THEN 0 .. MaxRaw ELSE {0}, Get(t, n)
      PROVE  BufferInv'
  <2>1. n \in Nat
    BY BufferAssumption
  <2>. QED
    BY <2>1, <1>2, GetStep
<1>3. ASSUME NEW n \in 1 .. MaxRaw, Consume(n) PROVE BufferInv'
  BY <1>3, ConsumeStep
<1>4. CASE UNCHANGED vars
  BY <1>4 DEF vars, BufferInv, GotInv, LogInv
<1>. QED
  BY <1>1, <1>2, <1>3, <1>4, ResetStep, FreeStep DEF Next

-----------------------------------------------------------------------------
(* Theorems.                                                                *)

LEMMA Invariant == Spec => []BufferInv
<1>1. Init => BufferInv
  BY InitInv
<1>2. BufferInv /\ [Next]_vars => BufferInv'
  BY Step
<1>. QED
  BY <1>1, <1>2, PTL DEF Spec

LEMMA InvTypes == BufferInv => TypeOK
<1>. SUFFICES ASSUME BufferInv PROVE TypeOK
  OBVIOUS
<1>1. PICK n \in 0 .. Len(log) :
        got = [i \in 1 .. n |-> [is |-> "read", val |-> Decoded(log[i])]]
  BY DEF BufferInv, GotInv
<1>2. Len(log) \in Nat
  BY DEF BufferInv
<1>3. Len(got) <= Len(log)
  <2>1. n \in Nat /\ n <= Len(log)
    BY <1>2
  <2>. QED
    BY <2>1, <1>1
<1>. QED
  BY <1>3 DEF BufferInv, Sound, Buffers, TypeOK

\* No sequence of calls, failed ones and calls on a freed buffer included, lets
\* the cursor of an ssh_buf_t pass its bytes or these its memory, whatever the
\* sizes of what is put and the capacities asked for (buf_reserve, buf_get_*).
THEOREM TypeCorrect == Spec => []TypeOK
BY Invariant, InvTypes, PTL

LEMMA InvReadsBack == BufferInv => ReadsBack
<1>. SUFFICES ASSUME BufferInv PROVE ReadsBack
  OBVIOUS
<1>1. PICK n \in 0 .. Len(log) :
        got = [i \in 1 .. n |-> [is |-> "read", val |-> Decoded(log[i])]]
  BY DEF BufferInv, GotInv
<1>2. Len(log) \in Nat /\ log \in Seq(Values)
  BY DEF BufferInv
<1>3. ASSUME NEW i \in DOMAIN got
      PROVE  /\ got[i].is = "read" /\ got[i].val = Decoded(log[i])
             /\ log[i] \in Values
  <2>1. i \in 1 .. n /\ i \in 1 .. Len(log)
    BY <1>1, <1>2
  <2>. QED
    BY <2>1, <1>1, <1>2
<1>4. ASSUME NEW v \in Values, v.type = "mpint"
      PROVE  IsMpint(Decoded(v)) /\ Number(Decoded(v)) = Number(v.val)
  <2>1. v.val \in Seq(Byte)
    BY <1>4, ValueKinds DEF IntTypes
  <2>2. Decoded(v) = Canonical(v.val)
    BY <1>4 DEF Decoded
  <2>. QED
    BY <2>1, <2>2, CanonicalIs
<1>5. ASSUME NEW v \in Values, v.type # "mpint" PROVE Decoded(v) = v.val
  BY <1>5 DEF Decoded
<1>. QED
  BY <1>3, <1>4, <1>5 DEF ReadsBack

\* What is put into a buffer is what the readers of its types return, in order
\* and without a failure, for every size of a byte, of a length and of the
\* values, whatever reallocations and failed calls come between; an mpint comes
\* back as the same number in RFC 4251's form (buf_put_*, buf_get_*).
THEOREM RoundTrips == Spec => []ReadsBack
BY Invariant, InvReadsBack, PTL

LEMMA AppendOnly ==
  ASSUME BufferInv, [Next]_vars
  PROVE  [Len(buf'.data) > 0 =>
            /\ Len(buf.data) <= Len(buf'.data)
            /\ SubSeq(buf'.data, 1, Len(buf.data)) = buf.data]_vars
<1>. DEFINE Goal == /\ Len(buf.data) <= Len(buf'.data)
                    /\ SubSeq(buf'.data, 1, Len(buf.data)) = buf.data
<1>1. buf.data \in Seq(Byte) /\ Sound(buf) /\ buf \in Buffers
  BY DEF BufferInv, Sound, Buffers
<1>2. ASSUME NEW t \in Seq(Byte), buf'.data = buf.data \o t PROVE Goal
  <2>. DEFINE d == buf.data
  <2>1. d \in Seq(Byte) /\ buf'.data = d \o t
    BY <1>1, <1>2
  <2>. HIDE DEF d
  <2>2. Len(d \o t) = Len(d) + Len(t) /\ Len(d) \in Nat /\ Len(t) \in Nat
    BY <2>1
  <2>3. SubSeq(d \o t, 0 + 1, Len(d)) = SubSeq(d, 0 + 1, Len(d))
    <3>1. Len(d) \in 0 .. Len(d)
      BY <2>2
    <3>. QED
      BY <3>1, <2>1, WindowKept
  <2>4. SubSeq(d, 1, Len(d)) = d
    BY <2>1, SubSeqFull
  <2>5. SubSeq(d \o t, 1, Len(d)) = d
    BY <2>3, <2>4
  <2>6. Len(d) <= Len(d \o t)
    BY <2>2
  <2>. QED
    BY <2>1, <2>5, <2>6 DEF d
<1>3. buf'.data = buf.data => Goal
  <2>1. << >> \in Seq(Byte) /\ buf.data = buf.data \o << >>
    BY <1>1
  <2>. QED
    BY <2>1, <1>2
<1>4. ASSUME NEW v \in Values, Put(v) PROVE Goal
  <2>1. Encoding(v) \in Seq(Byte)
    BY EncodingType
  <2>2. \E t \in Seq(Byte) : buf'.data = buf.data \o t
    BY <2>1, <1>1, <1>4, PutEffect
  <2>. QED
    BY <2>2, <1>2
<1>5. ASSUME NEW t, NEW n, Get(t, n) PROVE Goal
  BY <1>1, <1>3, <1>5 DEF Get, Buffers
<1>6. ASSUME NEW n, Consume(n) PROVE Goal
  BY <1>1, <1>3, <1>6 DEF Consume, Buffers
<1>7. ASSUME Reset \/ Free PROVE Len(buf'.data) > 0 => Goal
  <2>1. buf'.data = << >>
    <3>1. Reset => buf'.data = << >>
      BY <1>1 DEF Reset, Empty, ResetBuf, Buffers
    <3>2. Free => buf'.data = << >>
      BY DEF Free, Empty
    <3>. QED
      BY <3>1, <3>2, <1>7
  <2>2. Len(buf'.data) = 0
    BY <2>1
  <2>. QED
    BY <2>2
<1>. HIDE DEF Goal
<1>8. [Len(buf'.data) > 0 => Goal]_vars
  BY <1>4, <1>5, <1>6, <1>7 DEF Next
<1>. QED
  BY <1>8 DEF Goal

\* No writer, and no writer that fails, takes back or changes a byte that was
\* readable (buf_put_*; the pieces before a failed realloc stay).
THEOREM WritersAppend == Spec => PutsOnlyAppend
<1>1. BufferInv /\ [Next]_vars =>
        [Len(buf'.data) > 0 =>
           /\ Len(buf.data) <= Len(buf'.data)
           /\ SubSeq(buf'.data, 1, Len(buf.data)) = buf.data]_vars
  BY AppendOnly
<1>. QED
  BY <1>1, Invariant, PTL DEF Spec, PutsOnlyAppend

=============================================================================
