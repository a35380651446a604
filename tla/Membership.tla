----------------------------- MODULE Membership -----------------------------
(***************************************************************************)
(* What a group's roster promises: a set of at most Capacity members with    *)
(* one key each, and an epoch that only grows and has an end.                *)
(***************************************************************************)
EXTENDS Naturals, FiniteSets

CONSTANTS
  Nodes,       \* node numbers
  PublicKeys,  \* keys a member can have
  Capacity,    \* how many members there can be
  MaxEpoch     \* the last epoch

VARIABLES
  keyOf,       \* the members' keys: a function from the set of members
  epoch        \* the current epoch

vars == <<keyOf, epoch>>

Init == /\ DOMAIN keyOf = {}
        /\ epoch = 0

\* A new member, or a new key of an old one.
Add(n, key) ==
  /\ Cardinality(DOMAIN keyOf \cup {n}) <= Capacity
  /\ keyOf' = [m \in DOMAIN keyOf \cup {n} |-> IF m = n THEN key ELSE keyOf[m]]
  /\ UNCHANGED epoch

Remove(n) == /\ n \in DOMAIN keyOf
             /\ keyOf' = [m \in DOMAIN keyOf \ {n} |-> keyOf[m]]
             /\ UNCHANGED epoch

Bump == /\ epoch < MaxEpoch
        /\ epoch' = epoch + 1
        /\ UNCHANGED keyOf

Next == \/ \E n \in Nodes, key \in PublicKeys : Add(n, key)
        \/ \E n \in Nodes : Remove(n)
        \/ Bump

Spec == Init /\ [][Next]_vars
=============================================================================
