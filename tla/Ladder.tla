------------------------------- MODULE Ladder --------------------------------
(***************************************************************************)
(* Ladder: protocol/x25519.rs over a small field.  The Montgomery ladder of  *)
(* scalarmult, a turn of its loop at a time, from a private key and a        *)
(* peer's public key to the secret they agree, or to none.                   *)
(*                                                                         *)
(* The field operations are fiat-crypto's and taken to be what they are      *)
(* proved to be; their limbs and magnitudes are left out.                    *)
(***************************************************************************)
EXTENDS Integers

CONSTANTS
  P,          \* the prime: 2^255 - 19
  CurveA,     \* the curve's coefficient: 486662
  A24,        \* (CurveA + 2) / 4: 121666
  Bits,       \* bits of a clamped scalar: 255
  Scalars,    \* private keys, of one bit more
  PublicKeys  \* peers' public keys, as numbers of as many bits as 2 P has

ASSUME LadderAssumption ==
  /\ P \in Nat /\ P > 3 /\ CurveA \in 0..(P - 1) /\ A24 \in 0..(P - 1)
  /\ (4 * A24) % P = (CurveA + 2) % P
  /\ Bits \in Nat /\ Bits > 3
  /\ Scalars \subseteq 0..(2^(Bits + 1) - 1)
  /\ PublicKeys \subseteq Nat

VARIABLES
  scalar, point,    \* the arguments
  pos,              \* the bit the next turn looks at; -1 when the loop is over
  swap,             \* whether the pairs are exchanged
  x2, z2, x3, z3,   \* the two points, in projective coordinates
  status, secret    \* the answer: "pending", "small_order", or "agreed" and the secret

ladderVars == <<scalar, point, pos, swap, x2, z2, x3, z3, status, secret>>
arguments == <<scalar, point>>
----------------------------------------------------------------------------
(* The field.                                                                *)
Field == 0..(P - 1)
Add(a, b) == (a + b) % P
Sub(a, b) == (a - b) % P
Mul(a, b) == (a * b) % P
Sq(a) == Mul(a, a)

\* a^(P-2), which is zero for zero.
Invert(a) == LET Power[n \in Nat] == IF n = 0 THEN 1 ELSE Mul(a, Power[n - 1])
             IN  Power[P - 2]

\* The least number of bits a field element fits in; what is above is masked.
KeyBits == CHOOSE n \in 1..P : 2^n > P /\ 2^(n - 1) <= P
FromBytes(b) == (b % 2^KeyBits) % P

Bit(k, i) == (k \div 2^i) % 2

\* Mutant: the low bits stay.
ClampTopOnly(k) == LET low == k % 2^(Bits - 1) IN low + 2^(Bits - 1)

\* The low three bits and the one above the top are cleared, the top is set.
Clamp(k) == LET low == k % 2^(Bits - 1) IN 8 * (low \div 8) + 2^(Bits - 1)
----------------------------------------------------------------------------
LadderInit == /\ scalar \in Scalars /\ point \in PublicKeys
              /\ pos = Bits - 1 /\ swap = 0
              /\ x2 = 1 /\ z2 = 0
              /\ x3 = FromBytes(point) /\ z3 = 1
              /\ status = "pending" /\ secret = 0

\* What a turn makes of the points p and q, in this order, whose difference is x1.
Doubled(p) ==
  LET aa == Sq(Add(p[1], p[2]))
      bb == Sq(Sub(p[1], p[2]))
      e  == Sub(aa, bb)
  IN  <<Mul(aa, bb), Mul(e, Add(bb, Mul(A24, e)))>>

Added(p, q, x1) ==
  LET da == Mul(Sub(q[1], q[2]), Add(p[1], p[2]))
      cb == Mul(Add(q[1], q[2]), Sub(p[1], p[2]))
  IN  <<Sq(Add(da, cb)), Mul(x1, Sq(Sub(da, cb)))>>

CSwap(s, p, q) == IF s = 0 THEN <<p, q>> ELSE <<q, p>>

\* The pairs are exchanged when this bit differs from the last.
Turn ==
  /\ pos >= 0
  /\ LET bit == Bit(Clamp(scalar), pos)
         pair == CSwap((swap + bit) % 2, <<x2, z2>>, <<x3, z3>>)
         double == Doubled(pair[1])
         sum == Added(pair[1], pair[2], FromBytes(point))
     IN  /\ swap' = bit
         /\ x2' = double[1] /\ z2' = double[2]
         /\ x3' = sum[1] /\ z3' = sum[2]
  /\ pos' = pos - 1
  /\ UNCHANGED <<arguments, status, secret>>

\* An all-zero secret is refused.
Finish ==
  /\ pos < 0 /\ status = "pending"
  /\ LET first == CSwap(swap, <<x2, z2>>, <<x3, z3>>)[1]
         shared == Mul(first[1], Invert(first[2]))
     IN  /\ secret' = shared
         /\ status' = IF shared = 0 THEN "small_order" ELSE "agreed"
  /\ UNCHANGED <<arguments, pos, swap, x2, z2, x3, z3>>

LadderNext == Turn \/ Finish

LadderSpec == LadderInit /\ [][LadderNext]_ladderVars
----------------------------------------------------------------------------
(* Properties.  The reference is the group law on the curve through a point:  *)
(* d y^2 = x^3 + A x^2 + x, with the d that puts the point at y = 1.  It is     *)
(* the curve for some x and its twist for the others.                        *)
Inverses == [a \in 1..(P - 1) |-> CHOOSE b \in 1..(P - 1) : Mul(a, b) = 1]
Infinity == <<>>

Rhs(x) == Mul(x, Add(Add(Sq(x), Mul(CurveA, x)), 1))

PointSum(d, p, q) ==
  IF p = Infinity THEN q ELSE IF q = Infinity THEN p
  ELSE IF p[1] = q[1] /\ Add(p[2], q[2]) = 0 THEN Infinity
  ELSE LET slope == IF p = q
                    THEN Mul(Add(Add(3 * Sq(p[1]), 2 * CurveA * p[1]), 1), Inverses[Mul(2 * d, p[2])])
                    ELSE Mul(Sub(q[2], p[2]), Inverses[Sub(q[1], p[1])])
           x == Sub(Sub(Sub(Mul(d, Sq(slope)), CurveA), p[1]), q[1])
       IN  <<x, Sub(Mul(slope, Sub(p[1], x)), p[2])>>

Multiple(k, x) ==
  LET d == IF Rhs(x) = 0 THEN 1 ELSE Rhs(x)
      base == <<x, IF Rhs(x) = 0 THEN 0 ELSE 1>>
      Times[n \in 0..k] == IF n = 0 THEN Infinity ELSE PointSum(d, Times[n - 1], base)
  IN  Times[k]

\* The secret is the x-coordinate of the peer's point taken as often as the clamped
\* key says, whatever bits are set above the field and whichever curve the point
\* is on; and there is none exactly for the points whose order divides eight, which
\* every clamped key sends to zero (x25519.rs:227-229, 313-320).
AgreesWithTheCurve ==
  status # "pending" =>
    LET x == FromBytes(point)
    IN  IF Multiple(8, x) = Infinity THEN status = "small_order"
        ELSE status = "agreed" /\ secret = Multiple(Clamp(scalar), x)[1]
=============================================================================
