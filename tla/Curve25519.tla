------------------------------ MODULE Curve25519 ------------------------------
(***************************************************************************)
(* src/curve25519.c: two ends agree on a secret with X25519.  One call of  *)
(* curve25519_eval is a state machine that takes one bit of the scalar in  *)
(* a step; the reference it is held against is the group law of the curve  *)
(* by chord and tangent, on numbers modulo P.                              *)
(***************************************************************************)
EXTENDS Field25519

CONSTANTS RandomKeys,   \* what rand_bytes may fill the key of an end with
          Strangers     \* strings that arrive instead of the peer's public key

Ends == {"A", "B"}

ASSUME CurveAssumption ==
  RandomKeys \in [Ends -> SUBSET Strings] /\ Strangers \subseteq Strings

Peer(e) == CHOOSE f \in Ends : f # e
None == -1

VARIABLES private,    \* [Ends -> string or None]
          public,     \* [Ends -> string or None]
          heard,      \* the public key an end got from its peer
          shared,     \* [Ends -> string or None]
          call        \* the call of curve25519_eval under way, or Returned

curveVars == <<private, public, heard, shared, call>>

Returned == [bit |-> None]

BasePoint == 9

CurveInit ==
  /\ private = [e \in Ends |-> None]
  /\ public = private
  /\ heard = private
  /\ shared = private
  /\ call = Returned

\* A generator that fails leaves a key of zeros, and the caller is not told.
GeneratePrivate(e) ==
  /\ call = Returned
  /\ private[e] = None
  /\ \E key \in {Clamp(r) : r \in RandomKeys[e]} \cup {0} :
       private' = [private EXCEPT ![e] = key]
  /\ UNCHANGED <<public, heard, shared, call>>

\* A mutant: the scalar is not clamped again.
EvalUnclamped(e, result, point) ==
  /\ call = Returned
  /\ private[e] # None
  /\ call' = [by |-> e, result |-> result, scalar |-> private[e],
              bit |-> N - 1, point |-> point, x1 |-> FromBytes(point),
              x |-> <<One, FromBytes(point)>>, z |-> <<Zero, One>>, swap |-> 0]
  /\ UNCHANGED <<private, public, shared>>

\* The beginning of curve25519_eval; result is the variable its caller fills.
Eval(e, result, point) ==
  /\ call = Returned
  /\ private[e] # None
  /\ call' = [by |-> e, result |-> result, scalar |-> Clamp(private[e]),
              bit |-> N - 1, point |-> point, x1 |-> FromBytes(point),
              x |-> <<One, FromBytes(point)>>, z |-> <<Zero, One>>, swap |-> 0]
  /\ UNCHANGED <<private, public, shared>>

Base(e) ==
  /\ public[e] = None
  /\ Eval(e, "public", BasePoint)
  /\ UNCHANGED heard

\* An end has its own key, which it sends, before it uses its peer's.
Agree(e) ==
  /\ public[e] # None
  /\ shared[e] = None
  /\ \E s \in Strangers \cup ({public[Peer(e)]} \ {None}) :
       /\ heard' = [heard EXCEPT ![e] = s]
       /\ Eval(e, "shared", s)

\* The two pairs of the ladder after one bit: the double of the first point
\* and the sum of the two, whose difference is the point x1.
Doubled(x, z) ==
  LET aa == Sq(Add(x, z))
      bb == Sq(Sub(x, z))
      e  == Sub(aa, bb)
  IN <<Mul(aa, bb), Mul(e, Add(bb, Mul121666(e)))>>

Summed(x, z, x1) ==
  LET da == Mul(Sub(x[2], z[2]), Add(x[1], z[1]))
      cb == Mul(Add(x[2], z[2]), Sub(x[1], z[1]))
  IN <<Sq(Add(da, cb)), Mul(x1, Sq(Sub(da, cb)))>>

LadderStep ==
  /\ call.bit >= 0
  /\ LET bit == Bit(call.scalar, call.bit)
         flip == (call.swap + bit) % 2
         x == Cswap(call.x, flip)
         z == Cswap(call.z, flip)
         double == Doubled(x[1], z[1])
         sum == Summed(x, z, call.x1)
     IN call' = [call EXCEPT !.bit = @ - 1, !.swap = bit,
                             !.x = <<double[1], sum[1]>>,
                             !.z = <<double[2], sum[2]>>]
  /\ UNCHANGED <<private, public, heard, shared>>

\* The end of curve25519_eval; for both pairs at once only the first counts.
LadderResult(c) ==
  LET x == Cswap(c.x, c.swap)
      z == Cswap(c.z, c.swap)
  IN ToBytes(Mul(x[1], Invert(z[1])))

Store(e, result) ==
  /\ call # Returned
  /\ call.bit = -1
  /\ call.by = e /\ call.result = result
  /\ LET value == LadderResult(call)
     IN IF result = "public"
        THEN public' = [public EXCEPT ![e] = value] /\ UNCHANGED shared
        ELSE shared' = [shared EXCEPT ![e] = value] /\ UNCHANGED public
  /\ call' = Returned
  /\ UNCHANGED <<private, heard>>

CurveNext ==
  \/ LadderStep
  \/ \E e \in Ends :
       \/ GeneratePrivate(e) \/ Base(e) \/ Agree(e)
       \/ \E result \in {"public", "shared"} : Store(e, result)

-------------------------------------------------------------------------------
\* The reference: the group of b y^2 = x^3 + A x^2 + x modulo P, where b is
\* chosen so that the point (u, 1) is on the curve, which makes a curve or its
\* twist of every u.

A == 4 * A24 - 2
Infinity == <<>>
Twist(u) == ((((u + A) * u + 1) % P) * u) % P

\* The third point on a line of the given slope, reflected.
OnLine(slope, p, q, b) ==
  LET x == (((slope * slope) % P) * b - A - p[1] - q[1]) % P
  IN <<x, (slope * (p[1] - x) - p[2]) % P>>

GroupSum(p, q, b) ==
  CASE p = Infinity -> q
    [] q = Infinity -> p
    [] p # Infinity /\ q # Infinity /\ p[1] # q[1] ->
         OnLine(Over(q[2] - p[2], q[1] - p[1]), p, q, b)
    [] p = q /\ p # Infinity /\ p[2] # 0 ->
         OnLine(Over(((3 * p[1] + 2 * A) * p[1] + 1) % P, (2 * b * p[2]) % P), p, q, b)
    [] OTHER -> Infinity

Multiple(m, u) ==
  LET start == <<u, IF u = 0 THEN 0 ELSE 1>>
      next[q \in {Infinity} \cup ((0 .. P - 1) \X (0 .. P - 1)), bit \in 0 .. 1] ==
        LET twice == GroupSum(q, q, Twist(u))
        IN IF bit = 1 THEN GroupSum(twice, start, Twist(u)) ELSE twice
  IN FoldLeft(LAMBDA q, bit : next[q, bit], Infinity, BitsDown(m, N))

\* What RFC 7748 calls X25519(scalar, u).
X25519(scalar, s) ==
  LET q == Multiple(Clamp(scalar), (s % 2^N) % P)
  IN IF q = Infinity THEN 0 ELSE q[1]

\* The projective pair x / z is the first coordinate of q.
Stands(x, z, q) ==
  IF q = Infinity THEN IsZero(z) /\ ~IsZero(x)
  ELSE ~IsZero(z) /\ ToBytes(x) = (q[1] * ToBytes(z)) % P
===============================================================================
