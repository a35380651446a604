----------------------------- MODULE MCDelivery -----------------------------
(***************************************************************************)
(* Delivery from node 1 to node 2, with node 257 in between: its low byte is *)
(* that of node 1, and it uses the same identifiers.                         *)
(***************************************************************************)
EXTENDS Delivery, TLC

Item(mode, to, wantAck, payload, size) ==
  [mode |-> mode, to |-> to, wantAck |-> wantAck, payload |-> payload, size |-> size,
   portnum |-> 256, extra |-> 7]

\* Node 1 has a text with identifier 0; or two texts for one slot; or a direct
\* message too long for the outbox and one that fits; or an extension too long
\* for a frame and a text, while node 257 sends a text with the same id, to node
\* 2 after it has announced itself, or to node 1.
Big == Item("extension", 2, TRUE, "big", 229)

MCTraffics ==
  { (1 :> <<Item("text", 2, TRUE, "zero", 5)>>) @@ (2 :> <<>>) @@ (257 :> <<>>),
    (1 :> <<Item("text", 2, FALSE, "zero", 5), Item("text", 2, TRUE, "one", 5)>>)
    @@ (2 :> <<>>) @@ (257 :> <<>>),
    (1 :> <<Item("sealed", 2, FALSE, "long", 226), Item("sealed", 2, TRUE, "two", 5)>>)
    @@ (2 :> <<>>) @@ (257 :> <<>>),
    (1 :> <<Big, Item("text", 2, TRUE, "one", 5)>>)
    @@ (2 :> <<>>)
    @@ (257 :> <<Item("nodeinfo", BROADCAST_ADDR, FALSE, "me", 60),
                 Item("text", 2, TRUE, "other", 5)>>),
    (1 :> <<Big, Item("text", 2, TRUE, "one", 5)>>)
    @@ (2 :> <<>>)
    @@ (257 :> <<Big, Item("text", 1, TRUE, "other", 5)>>) }

MCPackets == {<<1, 0>>, <<1, 1>>}
MCIdOf == [p \in MCPackets |-> p[2]]

\* "LongFast", and a name that folds to the same byte as the key.
MCNames == {<<76, 111, 110, 103, 70, 97, 115, 116>>, <<97, 99>>}
=============================================================================
