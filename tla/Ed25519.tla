-------------------------------- MODULE Ed25519 --------------------------------
(***************************************************************************)
(* src/ed25519.c: a key pair, signatures and their verification, on points *)
(* in extended coordinates and scalars modulo Order.  SHA-512 is a         *)
(* constant: any function of the strings it is given.  An encoded point is *)
(* the number that its 32 bytes write; N + 1 bits, the last the sign.      *)
(***************************************************************************)
EXTENDS Field25519

CONSTANTS Order,            \* SC_L, the order of the base point
          Sha512(_),        \* of a sequence of strings and messages
          Seeds,            \* what rand_bytes may fill a seed with
          Messages,
          ForeignKeys,      \* public keys that verify may be given
          ForeignPoints     \* first halves of signatures it may be given

ASSUME EdAssumption ==
  /\ Order \in 1 .. 2^(N - 2)
  /\ Seeds \cup ForeignKeys \cup ForeignPoints \subseteq Strings

VARIABLES seed,       \* the seed of ed25519_keypair, or NoKey
          pub,        \* its public key
          signed,     \* [Messages -> signature or NoSignature]
          verdict     \* the last call of ed25519_verify and what it returned

edVars == <<seed, pub, signed, verdict>>

NoKey == -1
NoSignature == <<>>
NoVerdict == [accepted |-> FALSE, given |-> <<>>]

-------------------------------------------------------------------------------
\* Scalars modulo Order.  Here and below a function of one argument is taken
\* where TLC must know its value before it goes on.

WideBits == 2 * (N + 1)     \* 64 bytes

ScReduceWide[v \in Nat] ==
  LET next(s) == IF s >= Order THEN s - Order ELSE s
      rest[k \in 0 .. WideBits] ==
        IF k = 0 THEN 0 ELSE next(2 * rest[k - 1] + Bit(v, WideBits - k))
  IN rest[WideBits]

ScMuladd(a, b, c) == ScReduceWide[(a * b + c) % 2^WideBits]

\* A mutant: equal counts as less.
ScLeL(s) == s <= Order

ScLtL(s) == s < Order

-------------------------------------------------------------------------------
\* Points (X : Y : Z : T) with X Y = Z T.

Points == [X : Elements, Y : Elements, Z : Elements, T : Elements]

\* ed_init
D == Mul(Neg(FromU64(A24 - 1)), Invert(FromU64(A24)))
Twice(a) == Add(a, a)
D2 == Twice(D)
SqrtM1 == Pow(FromU64(2), (P - 1) \div 4)

GeIdentity == [X |-> Zero, Y |-> One, Z |-> One, T |-> Zero]

\* ge_add, with the code's names for what it goes through.
Product(e, f, g, h) ==
  [X |-> Mul(e, f), Y |-> Mul(g, h), T |-> Mul(e, h), Z |-> Mul(f, g)]

Sum(a, b, c, d) == Product(Sub(b, a), Sub(d, c), Add(d, c), Add(b, a))

GeAdd(p, q) ==
  Sum(Mul(Sub(p.Y, p.X), Sub(q.Y, q.X)),
      Mul(Add(p.Y, p.X), Add(q.Y, q.X)),
      Mul(Mul(p.T, q.T), D2),
      Twice(Mul(p.Z, q.Z)))

GeNegate(p) == [p EXCEPT !.X = Neg(@), !.T = Neg(@)]

\* One bit of the ladder: the second point is always the first plus p.
GeStep(r) == <<GeAdd(r[1], r[1]), GeAdd(r[1], r[2])>>
GeLadder(p, scalar, top) ==
  LET next[bit \in 0 .. 1] ==
        [r \in Points \X Points |-> Cswap(GeStep(Cswap(r, bit)), bit)]
      ladder[k \in 0 .. top + 1] ==
        IF k = 0 THEN <<GeIdentity, p>>
        ELSE next[Bit(scalar, top + 1 - k)][ladder[k - 1]]
  IN ladder[top + 1][1]

\* A mutant: the top bit, which clamping sets, is left out.
GeScalarmultShort(p, scalar) == GeLadder(p, scalar, N - 2)

GeScalarmult(p, scalar) == GeLadder(p, scalar, N - 1)

Compressed(p, zi) ==
  ToBytes(Mul(p.Y, zi)) + 2^N * Parity(Mul(p.X, zi))
GeToBytes(p) ==
  LET bytes[q \in Points] == Compressed(q, Invert(q.Z)) IN bytes[p]

\* u / v, the square of the x that goes with a y
SquareX(y2) == Mul(Sub(y2, One), Invert(Add(Mul(y2, D), One)))

\* Its root, none or one: cand or, where the square of cand is -x2, cand times
\* the root of -1.
RootFrom(cand, cand2, x2) ==
  CASE Equal(cand2, x2) -> {cand}
    [] ~Equal(cand2, x2) /\ Equal(cand2, Neg(x2)) -> {Mul(cand, SqrtM1)}
    [] OTHER -> {}
Candidate(x2) == Pow(x2, (P + 3) \div 8)
Roots(x2) ==
  LET roots[x \in Elements] == RootFrom(Candidate(x), Sq(Candidate(x)), x) IN roots[x2]

WithSign(x, sign) == IF Parity(x) # sign THEN Neg(x) ELSE x
Affine(x, y) == [X |-> x, Y |-> y, Z |-> One, T |-> Mul(x, y)]

\* The point that a string encodes: none or one.
GeFromBytes(s) ==
  {Affine(WithSign(x, Bit(s, N)), FromBytes(s)) :
     x \in {x \in Roots(SquareX(Sq(FromBytes(s)))) : ~(IsZero(x) /\ Bit(s, N) = 1)}}

\* ED25519_B_COMPRESSED, y = 4 / 5 and x even.
BCompressed == ToBytes(Mul(FromU64(4), Invert(FromU64(5))))
B == CHOOSE p \in GeFromBytes(BCompressed) : TRUE

-------------------------------------------------------------------------------
\* The calls.

\* expand_seed: the secret scalar and the prefix.
Scalar(s) == Clamp(Sha512(<<s>>) % 2^(N + 1))
Prefix(s) == Sha512(<<s>>) \div 2^(N + 1)

PubkeyFromSeed(s) == GeToBytes(GeScalarmult(B, Scalar(s)))

\* k = SHA512(R || A || M) mod L
Challenge(R, key, m) == ScReduceWide[Sha512(<<R, key, m>>)]

SignatureOf(s, m, r, R) ==
  [R |-> R, S |-> ScMuladd(Challenge(R, PubkeyFromSeed(s), m), Scalar(s), r)]
SignWith(s, m, r) == SignatureOf(s, m, r, GeToBytes(GeScalarmult(B, r)))
Signature(s, m) == SignWith(s, m, ScReduceWide[Sha512(<<Prefix(s), m>>)])

Verify(key, sig, m) ==
  /\ ScLtL(sig.S)
  /\ \E q \in GeFromBytes(key) :
       GeToBytes(GeAdd(GeScalarmult(B, sig.S),
                       GeNegate(GeScalarmult(q, Challenge(sig.R, key, m))))) = sig.R

EdInit ==
  /\ seed = NoKey
  /\ pub = NoKey
  /\ signed = [m \in Messages |-> NoSignature]
  /\ verdict = NoVerdict

\* A generator that fails leaves zeros in both, and the caller is not told.
Keypair ==
  /\ seed = NoKey
  /\ \/ \E s \in Seeds : seed' = s /\ pub' = PubkeyFromSeed(s)
     \/ seed' = 0 /\ pub' = 0
  /\ UNCHANGED <<signed, verdict>>

Sign(m) ==
  /\ seed # NoKey
  /\ signed[m] = NoSignature
  /\ signed' = [signed EXCEPT ![m] = Signature(seed, m)]
  /\ UNCHANGED <<seed, pub, verdict>>

\* What verify may be given: the halves of the signatures made, in any
\* combination, the same S in the next place of its class modulo Order, and
\* other points.
Candidates ==
  LET made == {signed[m] : m \in Messages} \ {NoSignature}
  IN [R : {g.R : g \in made} \cup ForeignPoints,
      S : {g.S : g \in made} \cup {g.S + Order : g \in made} \cup {0, Order}]

VerifyCall ==
  /\ seed # NoKey
  /\ verdict = NoVerdict
  /\ \E sig \in Candidates, key \in ForeignKeys \cup {pub}, m \in Messages :
       verdict' = [given |-> <<key, sig, m>>, accepted |-> Verify(key, sig, m)]
  /\ UNCHANGED <<seed, pub, signed>>

EdNext == Keypair \/ (\E m \in Messages : Sign(m)) \/ VerifyCall

-------------------------------------------------------------------------------
\* The reference: points <<x, y>> of -x^2 + y^2 = 1 + d x^2 y^2 modulo P.

EdwardsD == Over(1 - A24, A24)

OnCurve(x, y) ==
  (y * y - x * x) % P = (1 + EdwardsD * ((((x * x) % P) * ((y * y) % P)) % P)) % P

EdwardsSum(p, q) ==
  LET product == (EdwardsD * ((((p[1] * q[1]) % P) * ((p[2] * q[2]) % P)) % P)) % P
  IN <<Over(p[1] * q[2] + q[1] * p[2], 1 + product),
       Over(p[2] * q[2] + p[1] * q[1], 1 - product)>>

EdwardsMultiple(m, p) ==
  LET next[q \in (0 .. P - 1) \X (0 .. P - 1), bit \in 0 .. 1] ==
        LET twice == EdwardsSum(q, q)
        IN IF bit = 1 THEN EdwardsSum(twice, p) ELSE twice
  IN FoldLeft(LAMBDA q, bit : next[q, bit], <<0, 1>>, BitsDown(m, N))

Encoded(p) == p[2] + 2^N * (p[1] % 2)

\* The points that a string stands for; y may be written with p added.
Decoded(s) ==
  LET y == (s % 2^N) % P
  IN {q \in (0 .. P - 1) \X {y} : OnCurve(q[1], y) /\ q[1] % 2 = s \div 2^N}

EdwardsBase == <<CHOOSE x \in 0 .. P - 1 : x % 2 = 0 /\ OnCurve(x, Over(4, 5)), Over(4, 5)>>

\* RFC 8032's equation without the cofactor: S B = R + k A.
Valid(key, sig, m) ==
  /\ sig.S \in 0 .. Order - 1
  /\ \E a \in Decoded(key), r \in Decoded(sig.R) :
       /\ Encoded(r) = sig.R
       /\ EdwardsMultiple(sig.S, EdwardsBase)
            = EdwardsSum(r, EdwardsMultiple(Challenge(sig.R, key, m), a))

===============================================================================
