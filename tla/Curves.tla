-------------------------------- MODULE Curves --------------------------------
(***************************************************************************)
(* What the two users of src/fe25519.c promise, checked side by side: an   *)
(* agreement with X25519 or a life of an Ed25519 key.  Nothing in src/     *)
(* calls one from the other, so a behaviour is one of the two.             *)
(***************************************************************************)
EXTENDS Curve25519, Ed25519

VARIABLE job

vars == <<job, curveVars, edVars>>

Init == job \in {"agree", "sign"} /\ CurveInit /\ EdInit

Next ==
  \/ job = "agree" /\ CurveNext /\ UNCHANGED <<job, edVars>>
  \/ job = "sign" /\ EdNext /\ UNCHANGED <<job, curveVars>>

Spec == Init /\ [][Next]_vars

-------------------------------------------------------------------------------
\* Between two bits the ladder of curve25519_eval holds, in projective form, the
\* multiple of the point by the bits taken so far and by one more, for the
\* points of the curve and of its twist (curve25519.c:29-60), in limbs small
\* enough to be subtracted (the precondition of fe25519_sub, fe25519.c:117).
LadderKeepsMultiples ==
  LET u == (call.point % 2^N) % P
      m == call.scalar \div 2^(call.bit + 1)
      x == Cswap(call.x, call.swap)
      z == Cswap(call.z, call.swap)
  IN call # Returned =>
       /\ \A i \in 1 .. 2 : Tight(x[i]) /\ Tight(z[i])
       /\ u # 0 => /\ Stands(x[1], z[1], Multiple(m, u))
                  /\ Stands(x[2], z[2], Multiple(m + 1, u))

\* A step of the ladder makes of limbs what RFC 7748's formulas make of the numbers
\* that the limbs write, modulo P, and the string that is written out in the end is
\* the one below P: no sum, difference, product or carry on the way outgrows the
\* word that holds it or falls below zero (fe25519.c:100-236, curve25519.c:29-66).
StepIsRfc7748(c) ==
  LET flip == (c.swap + Bit(c.scalar, c.bit)) % 2
      x == Cswap(c.x, flip)
      z == Cswap(c.z, flip)
      double == Doubled(x[1], z[1])
      sum == Summed(x, z, c.x1)
      a == Written(x[1]) + Written(z[1])
      b == Written(x[1]) - Written(z[1])
      aa == (a * a) % P
      bb == (b * b) % P
      e == aa - bb
      da == ((Written(x[2]) - Written(z[2])) * a) % P
      cb == ((Written(x[2]) + Written(z[2])) * b) % P
  IN /\ Written(double[1]) % P = (aa * bb) % P
     /\ Written(double[2]) % P = (e * ((bb + A24 * e) % P)) % P
     /\ Written(sum[1]) % P = ((da + cb) * (da + cb)) % P
     /\ Written(sum[2]) % P = (Written(c.x1) * (((da - cb) * (da - cb)) % P)) % P

ResultIsRfc7748(c) ==
  LET x == Cswap(c.x, c.swap)[1]
      z == Cswap(c.z, c.swap)[1]
  IN LadderResult(c) = ((Written(x) % P) * Power(Written(z) % P, P - 2)) % P

LadderIsRfc7748 ==
  /\ call.bit >= 0 => StepIsRfc7748(call)
  /\ call # Returned /\ call.bit = -1 => ResultIsRfc7748(call)

\* Every result of curve25519_base and curve25519_eval is the one of RFC 7748,
\* whatever string came for the peer's key and whether or not the generator
\* worked; so two ends that use each other's public key hold the same secret.
AgreedSecret ==
  /\ \A e \in Ends :
       /\ public[e] # None => public[e] = X25519(private[e], BasePoint)
       /\ shared[e] # None => shared[e] = X25519(private[e], heard[e])
  /\ (\A e \in Ends : shared[e] # None /\ heard[e] = public[Peer(e)]) =>
       shared["A"] = shared["B"]

\* What ed25519_sign makes with a seed, ed25519_verify accepts with the public
\* key of the same seed, unless the generator failed and left both zero.
SignaturesVerify ==
  \A m \in Messages :
    verdict.given = <<pub, signed[m], m>> /\ ~(seed = 0 /\ pub = 0) =>
      verdict.accepted

\* ed25519_verify accepts exactly what satisfies RFC 8032's equation, without
\* the cofactor and with an S below the order: no signature has a second form.
VerdictIsRfc8032 ==
  verdict # NoVerdict =>
    (verdict.accepted
       <=> Valid(verdict.given[1], verdict.given[2], verdict.given[3]))

===============================================================================
