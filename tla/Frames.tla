------------------------------- MODULE Frames -------------------------------
(***************************************************************************)
(* Frames: protocol/frame.rs and channel.rs, and the encoders and openers    *)
(* that c-api/src/lib.rs builds on them.                                     *)
(*                                                                         *)
(* A frame is a packed header and a body.  A body is its content and the     *)
(* keystreams that lie over it: AES-CTR applied twice is undone, whatever    *)
(* else was applied, and a body under any stream reads as noise.  What CCM   *)
(* seals names the key and nonce without which it does not open; the extra   *)
(* nonce travels behind its tag.                                             *)
(***************************************************************************)
EXTENDS Header, Sequences, FiniteSetsExt

PLAIN_LEN == 240      \* the buffer an encoder puts the plaintext into
USER_LEN == 160       \* the buffer tm_nodeinfo_encode puts the User into
TAG_LEN == 8
EXTRA_LEN == 4

TEXT_MESSAGE_APP == 1
NODEINFO_APP == 4
ROUTING_APP == 5
----------------------------------------------------------------------------
(* Channel keys and hashes.                                                  *)
DEFAULT_PSK == <<212, 241, 187, 58, 32, 41, 7, 89, 240, 188, 255, 171, 207, 78, 105, 1>>

KeyFromIndex(index) ==
  IF index \in 1..10 THEN Ok([DEFAULT_PSK EXCEPT ![16] = (@ + index - 1) % 256])
                     ELSE Failed("TM_E_BAD_INDEX")

\* A bit of the fold is one when an odd number of the bytes have it.
XorFold(bytes) ==
  MapThenSumSet(LAMBDA b : 2^b * (Cardinality({i \in DOMAIN bytes :
                                                 (bytes[i] \div 2^b) % 2 = 1}) % 2), 0..7)

ChannelHash(name, psk) == XorFold(<<XorFold(name), XorFold(psk)>>)
----------------------------------------------------------------------------
(* Data, with the length it encodes to.                                      *)
Data(portnum, payload, size) ==
  [kind |-> "Data", portnum |-> portnum, payload |-> payload, size |-> size, requestId |-> 0]

\* The length of a bytes field that proto3 leaves out when it is empty.
FieldLength(size) == IF size = 0 THEN 0 ELSE size + (IF size < 128 THEN 2 ELSE 3)

DataLength(d) == (IF d.portnum < 128 THEN 2 ELSE 3) + FieldLength(d.size)
                 + (IF d.requestId = 0 THEN 0 ELSE 5)

Acknowledgement(requestId) ==
  [Data(ROUTING_APP, "ACCEPTED", 2) EXCEPT !.requestId = requestId]

Acknowledges(d) == d.portnum = ROUTING_APP /\ d.requestId # 0
----------------------------------------------------------------------------
(* The frame cipher.                                                         *)
\* Mutant: identifiers are taken to be unique in the mesh.
NonceById(id, from, extra) == <<id, extra>>

Nonce(id, from, extra) == <<id, from, extra>>

Plain(content, extra) == [content |-> content, extra |-> extra, streams |-> {}]
CtrApply(body, key, nonce) ==
  [body EXCEPT !.streams = (@ \ {<<key, nonce>>}) \cup ({<<key, nonce>>} \ @)]

EncodeFrame(h, d, key, room) ==
  IF \/ DataLength(d) > PLAIN_LEN
     \/ DataLength(d) > MAX_PAYLOAD
     \/ room < HEADER_LEN + DataLength(d)
  THEN Failed("TM_E_ARG")
  ELSE Ok([head |-> EncodeHeader(h), size |-> HEADER_LEN + DataLength(d),
           body |-> CtrApply(Plain(d, 0), key, Nonce(h.id, h.from, 0))])

\* CTR decrypts anything; only what is left without a stream can be decoded.
FrameDecrypt(f, key) ==
  LET body == CtrApply(f.body, key, Nonce(f.head.id, f.head.from, 0))
  IN  IF body.streams = {} /\ body.content.kind = "Data" THEN Ok(body.content)
                                                         ELSE Failed("TM_E_ARG")

TextEncode(from, to, id, hopLimit, hash, wantAck, key, text, size, room) ==
  EncodeFrame(OwnHeader(from, to, id, hopLimit, hash, wantAck),
              Data(TEXT_MESSAGE_APP, text, size), key, room)

ExtensionEncode(from, to, id, hopLimit, hash, wantAck, portnum, key, payload, size, room) ==
  IF portnum < 256 THEN Failed("TM_E_RESERVED_PORTNUM")
  ELSE EncodeFrame(OwnHeader(from, to, id, hopLimit, hash, wantAck),
                   Data(portnum, payload, size), key, room)

NodeinfoEncode(from, to, id, hopLimit, hash, key, user, size, room) ==
  IF size > USER_LEN THEN Failed("TM_E_SHORT")
  ELSE EncodeFrame(OwnHeader(from, to, id, hopLimit, hash, FALSE),
                   Data(NODEINFO_APP, user, size), key, room)

\* Mutant: an acknowledgement asks for an acknowledgement.
AckEncodeWantsAck(from, to, id, requestId, hopLimit, hash, key, room) ==
  EncodeFrame(OwnHeader(from, to, id, hopLimit, hash, TRUE),
              Acknowledgement(requestId), key, room)

AckEncode(from, to, id, requestId, hopLimit, hash, key, room) ==
  EncodeFrame(OwnHeader(from, to, id, hopLimit, hash, FALSE),
              Acknowledgement(requestId), key, room)
----------------------------------------------------------------------------
(* Direct messages under the key two nodes agree.                            *)
PkiAgree(x, y) == {x, y}

Sealed(key, nonce, d) == [kind |-> "Sealed", key |-> key, nonce |-> nonce, data |-> d]

\* The plaintext and its tag must fit the work buffer; nothing compares them
\* with MAX_PAYLOAD.
PkiEncode(from, to, id, hopLimit, wantAck, key, extra, portnum, payload, size, room) ==
  LET d == Data(portnum, payload, size)
      total == HEADER_LEN + DataLength(d) + TAG_LEN + EXTRA_LEN
  IN  IF DataLength(d) + TAG_LEN > PLAIN_LEN \/ room < total THEN Failed("TM_E_SHORT")
      ELSE Ok([head |-> EncodeHeader(OwnHeader(from, to, id, hopLimit, 0, wantAck)),
               size |-> total,
               body |-> Plain(Sealed(key, Nonce(id, from, extra), d), extra)])

\* Mutant: the address is not looked at.
IsPkiByHash(f) == f.head.channel = 0

IsPki(f) == f.head.channel = 0 /\ ~IsBroadcast(f.head)

PkiDecrypt(f, key) ==
  IF f.size < HEADER_LEN + TAG_LEN + EXTRA_LEN THEN Failed("TM_E_SHORT")
  ELSE LET c == f.body.content
       IN  IF /\ c.kind = "Sealed" /\ f.body.streams = {}
              /\ c.key = key /\ c.nonce = Nonce(f.head.id, f.head.from, f.body.extra)
           THEN Ok(c.data) ELSE Failed("TM_E_UNAUTHENTIC")

WantsAcknowledgement(f, node) == Peek(f).wantAck /\ f.head.to = node
=============================================================================
