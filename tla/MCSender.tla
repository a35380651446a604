------------------------------- MODULE MCSender -----------------------------
(***************************************************************************)
(* Sender with three packets in two slots: the outbox fills and refuses.    *)
(***************************************************************************)
EXTENDS Sender, TLC

CONSTANTS p1, p2, p3

MCPackets == {p1, p2, p3}
MCIdOf == [p \in MCPackets |-> p]
=============================================================================
