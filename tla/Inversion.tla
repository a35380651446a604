------------------------------ MODULE Inversion ------------------------------
(***************************************************************************)
(* Inversion: the addition chain of invert (protocol/x25519.rs), by the       *)
(* exponents of its registers.  An exponent is the set of the bits that are   *)
(* one: squaring n times moves them up by n, and a product of two powers whose *)
(* exponents share no bit has the bits of both.                              *)
(***************************************************************************)
EXTENDS Integers

Squared(e, n) == {b + n : b \in e}
Disjoint(e, f) == e \cap f = {}

\* The registers of the chain, for an a whose exponent is {0}.
Z1 == {0}
Z2 == Squared(Z1, 1)
Z8 == Squared(Squared(Z2, 1), 1)
Z9 == Z8 \cup Z1
Z11 == Z9 \cup Z2
Z22 == Squared(Z11, 1)
Z5 == Z22 \cup Z9
Z10 == Squared(Squared(Z5, 1), 4) \cup Z5
Z20 == Squared(Squared(Z10, 1), 9) \cup Z10
Z40 == Squared(Squared(Z20, 1), 19) \cup Z20
Z50 == Squared(Squared(Z40, 1), 9) \cup Z10
Z100 == Squared(Squared(Z50, 1), 49) \cup Z50
Z200 == Squared(Squared(Z100, 1), 99) \cup Z100
Z250 == Squared(Squared(Z200, 1), 49) \cup Z50
Inverted == Squared(Squared(Z250, 1), 4) \cup Z11

\* The products whose exponents are added.
NoCarry ==
  /\ Disjoint(Z8, Z1) /\ Disjoint(Z9, Z2) /\ Disjoint(Z22, Z9)
  /\ Disjoint(Squared(Squared(Z5, 1), 4), Z5)
  /\ Disjoint(Squared(Squared(Z10, 1), 9), Z10)
  /\ Disjoint(Squared(Squared(Z20, 1), 19), Z20)
  /\ Disjoint(Squared(Squared(Z40, 1), 9), Z10)
  /\ Disjoint(Squared(Squared(Z50, 1), 49), Z50)
  /\ Disjoint(Squared(Squared(Z100, 1), 99), Z100)
  /\ Disjoint(Squared(Squared(Z200, 1), 49), Z50)
  /\ Disjoint(Squared(Squared(Z250, 1), 4), Z11)
=============================================================================
