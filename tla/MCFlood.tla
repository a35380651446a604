------------------------------ MODULE MCFlood -------------------------------
(***************************************************************************)
(* Flood on small meshes: a ring, whose opposite corners two routes join,   *)
(* a kite, and lines of three and of five nodes.                           *)
(***************************************************************************)
EXTENDS Flood

CONSTANTS a, b, c, d, e, p, q, none

Ring == [n \in {a, b, c, d} |-> CASE n = a -> {b, d} [] n = b -> {a, c}
                                  [] n = c -> {b, d} [] n = d -> {c, a}]
\* A line of five: its ends are four transmissions apart.
Row == [n \in {a, b, c, d, e} |-> CASE n = a -> {b} [] n = b -> {a, c}
                                    [] n = c -> {b, d} [] n = d -> {c, e}
                                    [] n = e -> {d}]
Line == [n \in {a, b, c} |-> CASE n = a -> {b} [] n = b -> {a, c} [] n = c -> {b}]
\* Of the kite, a and c are linked both directly and through b, and d hangs on c.
Kite == [n \in {a, b, c, d} |-> CASE n = a -> {b, c} [] n = b -> {a, c}
                                  [] n = c -> {a, b, d} [] n = d -> {c}]

OneKey == {p, none}
TwoKeys == {p, q, none}
FromCorner == [k \in {p} |-> a]
FromEnds == [k \in {p, q} |-> IF k = p THEN a ELSE c]
FromOuter == [k \in {p, q} |-> IF k = p THEN a ELSE e]

Routers == [n \in Node |-> "Router"]
\* One client, which defers, among infrastructure.
Mixed == [n \in Node |-> IF n = b THEN "Client" ELSE "Repeater"]
Clients == [n \in Node |-> "Client"]
=============================================================================
