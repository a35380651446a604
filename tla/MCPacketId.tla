----------------------------- MODULE MCPacketId -----------------------------
(***************************************************************************)
(* PacketId on a small identifier space.  Two seeds (the bottom of the      *)
(* space, and one close to its end) and three block settings (the default,  *)
(* a block of one, and one that does not divide the space) reach the short  *)
(* last block, exhaustion, and restarts with another block size.            *)
(***************************************************************************)
EXTENDS PacketId

MCBlocks == {0, 1, 3}
MCSeeds == {0, 5}
=============================================================================
