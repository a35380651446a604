------------------------------- MODULE Header -------------------------------
(***************************************************************************)
(* The packed header of protocol/header.rs and what a relay changes in it.   *)
(* Addresses and identifiers are left whole; the flags are one byte of four  *)
(* fields, and a number written into fewer bits than it has loses the rest.  *)
(***************************************************************************)
EXTENDS Integers

CONSTANT BROADCAST_ADDR

HEADER_LEN == 16
MAX_PAYLOAD == 233
MAX_FRAME == HEADER_LEN + MAX_PAYLOAD

Ok(value) == [ok |-> TRUE, value |-> value]
Failed(code) == [ok |-> FALSE, code |-> code]

LowByte(n) == n % 256
Bit(b) == IF b THEN 1 ELSE 0

Flags(h) == (h.hopLimit % 8) + 8 * Bit(h.wantAck) + 16 * Bit(h.viaMqtt) + 32 * (h.hopStart % 8)

EncodeHeader(h) ==
  [to |-> h.to, from |-> h.from, id |-> h.id, flags |-> Flags(h),
   channel |-> h.channel, nextHop |-> h.nextHop, relayNode |-> h.relayNode]

DecodeHeader(w) ==
  [to |-> w.to, from |-> w.from, id |-> w.id,
   hopLimit |-> w.flags % 8, wantAck |-> (w.flags \div 8) % 2 = 1,
   viaMqtt |-> (w.flags \div 16) % 2 = 1, hopStart |-> w.flags \div 32,
   channel |-> w.channel, nextHop |-> w.nextHop, relayNode |-> w.relayNode]

IsBroadcast(h) == h.to = BROADCAST_ADDR

\* The header every encoder of the ABI gives a frame of its own.
OwnHeader(from, to, id, hopLimit, channel, wantAck) ==
  [to |-> to, from |-> from, id |-> id, hopLimit |-> hopLimit, wantAck |-> wantAck,
   viaMqtt |-> FALSE, hopStart |-> hopLimit, channel |-> channel,
   nextHop |-> 0, relayNode |-> LowByte(from)]

Peek(f) == DecodeHeader(f.head)

RelayPrepare(f, hopLimit, node) ==
  [f EXCEPT !.head = EncodeHeader([Peek(f) EXCEPT !.hopLimit = hopLimit,
                                                  !.relayNode = LowByte(node)])]

RelayedBy(f, node) ==
  IF Peek(f).hopLimit = 0 THEN Failed("TM_SUPPRESSED_HOP_LIMIT")
                          ELSE Ok(RelayPrepare(f, Peek(f).hopLimit - 1, node))
=============================================================================
