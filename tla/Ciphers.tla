------------------------------- MODULE Ciphers -------------------------------
(***************************************************************************)
(* Ciphers: what protocol/crypto.rs builds from a block cipher.  AES-CTR     *)
(* covers the channel traffic, AES-CCM the direct messages of the C ABI and  *)
(* the envelopes of the groups.  A node frames packets with all three, and   *)
(* what it puts on the air is received as it was sent or altered.            *)
(*                                                                         *)
(* The block cipher is ideal: distinct keys or blocks have unrelated         *)
(* encryptions.  A byte is a set of atoms, and XOR is symmetric difference:  *)
(* an atom is a number, a byte of a text, noise, or a byte of an encrypted   *)
(* block.                                                                  *)
(***************************************************************************)
EXTENDS Integers, SequencesExt

CONSTANTS
  Block,     \* BLOCK, in bytes
  WordLen,   \* bytes in a u32
  Radix,     \* values of a byte, where numbers are put into bytes
  TagLen,    \* CCM_TAG_LEN
  Packets,   \* packet numbers, the (from, id) pairs: never used twice by a sender
  Epochs,    \* epochs of the group, and extra nonces of direct messages
  Texts,     \* plaintexts, as sequences of bytes
  Rests,     \* lengths of what is authenticated besides sender and identifier
  MaxSent    \* how many frames are sent

\* The number a right shift by some bytes leaves; a number fits as many bytes as
\* leave nothing of it.
Shifted(n, bytes) ==
  LET Rest[k \in 0..bytes] == IF k = 0 THEN n ELSE Rest[k - 1] \div Radix
  IN  Rest[bytes]

Fits(n, bytes) == Shifted(n, bytes) = 0

\* How many blocks a text of some length takes, the last one cut short.
BlocksOf(len) == (len + Block - 1) \div Block

\* A nonce holds three words, a tag four bytes at the least, and the blocks of a
\* text can be counted in a word and in two bytes.
ASSUME CiphersAssumption ==
  /\ Block \in Nat /\ WordLen \in Nat \ {0} /\ Radix \in Nat \ {0, 1}
  /\ Block >= 3 * WordLen + 3
  /\ TagLen \in 4..Block /\ MaxSent \in Nat
  /\ Packets \subseteq {p \in [from : Nat, id : Nat] : Fits(p.from, WordLen) /\ Fits(p.id, WordLen)}
  /\ Epochs \subseteq 0..(Radix - 1)
  /\ Rests \subseteq {n \in Nat : n >= WordLen}
  /\ \A text \in Texts : /\ text \in Seq(Range(text))
                         /\ Fits(BlocksOf(Len(text)), WordLen) /\ Fits(BlocksOf(Len(text)), 2)

VARIABLES
  air,       \* the frames that were sent
  received   \* the frame that was received since the last was sent, if any: as it
             \* arrived and what opening it gave

cipherVars == <<air, received>>
----------------------------------------------------------------------------
(* Bytes and blocks.                                                         *)
Byte(n) == IF n = 0 THEN {} ELSE {<<"number", n>>}
Xor(a, b) == (a \ b) \cup (b \ a)

\* to_le_bytes, and the two digits of a length or counter, greatest first.
LittleEndian(n, len) == [i \in 1..len |-> Byte(Shifted(n, i - 1) % Radix)]
TwoBytes(n) == <<Byte((n \div Radix) % Radix), Byte(n % Radix)>>
Zeros(n) == [i \in 1..n |-> {}]

\* An encrypted block, known by the key and the block, and its bytes.  XOR of a
\* chunk onto an encrypted block is known by the two: what a chunk is short of a
\* block is zero.
Encrypt(key, block) == <<key, block>>
ByteOf(e, i) == {<<"cipher", e, i>>}
Onto(e, chunk) == <<e, chunk \o Zeros(Block - Len(chunk))>>

Chunks(s) == [i \in 1..BlocksOf(Len(s)) |->
                SubSeq(s, (i - 1) * Block + 1, IF i * Block <= Len(s) THEN i * Block ELSE Len(s))]

\* The data under the keystream of a sequence of blocks.
UnderStream(key, blocks, data) ==
  [i \in 1..Len(data) |->
     Xor(data[i], ByteOf(Encrypt(key, blocks[((i - 1) \div Block) + 1]), ((i - 1) % Block) + 1))]
----------------------------------------------------------------------------
(* CTR: the nonce is a number of as many digits as the block, counted up.     *)
CtrNonce(id, from, extra) == LittleEndian(id, Block - 2 * WordLen)
                             \o LittleEndian(from, WordLen) \o LittleEndian(extra, WordLen)

Incremented(byte) == Byte((CHOOSE n \in 1..Radix : Byte(n - 1) = byte) % Radix)

\* Mutant: the counter goes up from its first byte.
IncrementFirst(c) ==
  [i \in 1..Block |-> IF \A j \in 1..(i - 1) : c[j] = Byte(Radix - 1) THEN Incremented(c[i]) ELSE c[i]]

\* The carry goes from the last byte back.
Increment(c) ==
  [i \in 1..Block |-> IF \A j \in (i + 1)..Block : c[j] = Byte(Radix - 1) THEN Incremented(c[i]) ELSE c[i]]

CtrBlocks(nonce, data) ==
  LET Counter[k \in 1..(Len(Chunks(data)) + 1)] == IF k = 1 THEN nonce ELSE Increment(Counter[k - 1])
  IN  [k \in 1..Len(Chunks(data)) |-> Counter[k]]

CtrApply(key, nonce, data) == UnderStream(key, CtrBlocks(nonce, data), data)
----------------------------------------------------------------------------
(* CCM: a CBC-MAC over lengths, header fields and text, and a counter mode    *)
(* whose block zero covers the tag.                                          *)
NonceLen == Block - 3
PkiNonce(id, extra, from) ==
  LittleEndian(id, WordLen) \o LittleEndian(extra, WordLen) \o LittleEndian(from, WordLen)
  \o Zeros(NonceLen - 3 * WordLen)
GroupNonce(from, id, epoch) ==
  LittleEndian(from, WordLen) \o LittleEndian(id, WordLen) \o <<Byte(epoch)>>
  \o Zeros(NonceLen - 2 * WordLen - 1)

\* The first block of the MAC, and the blocks of the counter.
B0(nonce, len, aad) ==
  <<Byte((IF aad = <<>> THEN 0 ELSE 64) + 8 * ((TagLen - 2) \div 2) + 1)>> \o nonce \o TwoBytes(len)
A(nonce, i) == <<Byte(1)>> \o nonce \o TwoBytes(i)

\* Mutant: only the first block of the authenticated data is taken in.
FirstAadChunk(aad) == IF aad = <<>> THEN <<>> ELSE <<Chunks(TwoBytes(Len(aad)) \o aad)[1]>>

AadChunks(aad) == IF aad = <<>> THEN <<>> ELSE Chunks(TwoBytes(Len(aad)) \o aad)

CbcMac(key, b0, aad, text) ==
  LET chunks == AadChunks(aad) \o Chunks(text)
      Mac[k \in 0..Len(chunks)] == IF k = 0 THEN Encrypt(key, b0)
                                   ELSE Encrypt(key, Onto(Mac[k - 1], chunks[k]))
  IN  Mac[Len(chunks)]

CcmBlocks(nonce, text) == [i \in 1..Len(Chunks(text)) |-> A(nonce, i)]
CtrXor(key, nonce, text) == UnderStream(key, CcmBlocks(nonce, text), text)

Tag(key, nonce, aad, text) ==
  LET mac == CbcMac(key, B0(nonce, Len(text), aad), aad, text)
  IN  [i \in 1..TagLen |-> Xor(ByteOf(mac, i), ByteOf(Encrypt(key, A(nonce, 0)), i))]

CcmEncrypt(key, nonce, aad, text) == CtrXor(key, nonce, text) \o Tag(key, nonce, aad, text)

CcmDecrypt(key, nonce, aad, buf) ==
  LET len == Len(buf) - TagLen
      text == CtrXor(key, nonce, SubSeq(buf, 1, len))
  IN  IF len < 0 THEN [ok |-> FALSE, error |-> "TooShort"]
      ELSE IF Tag(key, nonce, aad, text) # SubSeq(buf, len + 1, Len(buf))
      THEN [ok |-> FALSE, error |-> "Unauthentic"]
      ELSE [ok |-> TRUE, text |-> text]
----------------------------------------------------------------------------
(* The frames of the nodes: who seals what, with which key and nonce.         *)
\* What a group authenticates of a header: the destination, the sender, the
\* identifier and two bytes, which fill a block with the two of their length.
\* The function takes more, too.
AadFromHeader(f) == SubSeq(f.rest, 1, WordLen)
                    \o LittleEndian(f.packet.from, WordLen) \o LittleEndian(f.packet.id, WordLen)
                    \o SubSeq(f.rest, WordLen + 1, Len(f.rest))

\* A frame on the air: its kind, a key, the fields it carries in clear, a body.
\* extra is the extra nonce of a direct message and the epoch of an envelope,
\* rest the fields besides sender and identifier that a group authenticates.
Frame(kind, p, extra, n) == [kind |-> kind, key |-> <<kind, 0>>, packet |-> p, extra |-> extra,
                             rest |-> [i \in 1..n |-> Byte(i)], body |-> <<>>]

FrameKey(f) == IF f.kind = "group" THEN Append(f.key, f.extra) ELSE f.key
FrameNonce(f) == IF f.kind = "channel" THEN CtrNonce(f.packet.id, f.packet.from, f.extra)
                 ELSE IF f.kind = "direct" THEN PkiNonce(f.packet.id, f.extra, f.packet.from)
                 ELSE GroupNonce(f.packet.from, f.packet.id, f.extra)
FrameAad(f) == IF f.kind = "group" THEN AadFromHeader(f) ELSE <<>>

Seal(f, text) == IF f.kind = "channel" THEN CtrApply(FrameKey(f), FrameNonce(f), text)
                 ELSE CcmEncrypt(FrameKey(f), FrameNonce(f), FrameAad(f), text)
Open(f) == IF f.kind = "channel" THEN [ok |-> TRUE, text |-> CtrApply(FrameKey(f), FrameNonce(f), f.body)]
           ELSE CcmDecrypt(FrameKey(f), FrameNonce(f), FrameAad(f), f.body)

\* A packet is framed once: its identifier is used up.
Send(kind, p, extra, n, text) ==
  /\ Cardinality(air) < MaxSent /\ \A s \in air : s.frame.packet # p
  /\ LET f == Frame(kind, p, extra, n)
     IN  air' = air \cup {[frame |-> [f EXCEPT !.body = Seal(f, text)], text |-> text]}
  /\ received' = {}

\* On its way a frame may have any one field or byte changed, or its end.
Noise == {<<"noise", 1>>}
Arrivals(f) ==
  {f} \cup {[f EXCEPT !.body[i] = Xor(@, Noise)] : i \in 1..Len(f.body)}
      \cup {[f EXCEPT !.body = SubSeq(@, 1, n)] : n \in {TagLen - 1, Len(f.body) - 1} \cap (0..Len(f.body))}
      \cup {[f EXCEPT !.body = Append(@, b)] : b \in {{}, Noise}}
      \cup {[f EXCEPT !.rest[i] = Xor(@, Noise)] : i \in 1..Len(f.rest)}
      \cup {[f EXCEPT !.packet = p] : p \in Packets}
      \cup {[f EXCEPT !.extra = e] : e \in Epochs}
      \cup {[f EXCEPT !.key[2] = 1]}

Receive(s, f) == /\ received = {}
                 /\ received' = {[sent |-> s, frame |-> f, result |-> Open(f)]}
                 /\ UNCHANGED air

CipherInit == air = {} /\ received = {}

CipherNext == \/ \E p \in Packets, text \in Texts :
                   \/ Send("channel", p, 0, WordLen, text)
                   \/ \E e \in Epochs : Send("direct", p, e, WordLen, text)
                   \/ \E e \in Epochs, n \in Rests : Send("group", p, e, n, text)
              \/ \E s \in air : \E f \in Arrivals(s.frame) : Receive(s, f)

CipherSpec == CipherInit /\ [][CipherNext]_cipherVars
----------------------------------------------------------------------------
(* Properties.                                                               *)
\* The blocks whose encryptions a frame shows: those of its keystream, with the
\* one that covers the tag.
StreamBlocks(s) ==
  LET n == FrameNonce(s.frame)
  IN  IF s.frame.kind = "channel" THEN CtrBlocks(n, s.text) ELSE <<A(n, 0)>> \o CcmBlocks(n, s.text)

\* No block is encrypted twice under one key to cover anything: not by two frames
\* of any two senders, not twice in one, not for a body and for its tag, and the
\* first block of no MAC is ever one of them.  The caller's side is that a sender
\* uses an identifier once (crypto.rs:39-41, groups lib.rs:219-222).
KeystreamOnce ==
  \A s \in air, t \in air :
    FrameKey(s.frame) = FrameKey(t.frame) =>
      /\ \A i \in DOMAIN StreamBlocks(s), j \in DOMAIN StreamBlocks(t) :
           StreamBlocks(s)[i] = StreamBlocks(t)[j] => s = t /\ i = j
      /\ t.frame.kind # "channel" =>
           B0(FrameNonce(t.frame), Len(t.text), FrameAad(t.frame)) \notin Range(StreamBlocks(s))

\* A direct message opens to its text exactly when its body, its identifier and
\* sender, the extra nonce and the key are those it was sealed with; an envelope
\* of a group when the rest of its header is, too.  A channel frame opens to its
\* text when nothing was changed (crypto.rs:496-516, groups SPEC.md section 6).
Authentic(s, f) == [f EXCEPT !.rest = s.frame.rest] = s.frame
                   /\ (f.kind = "group" => f.rest = s.frame.rest)
AlteredIsRefused ==
  \A r \in received :
    /\ Authentic(r.sent, r.frame) => r.result.ok /\ r.result.text = r.sent.text
    /\ r.frame.kind # "channel" /\ ~Authentic(r.sent, r.frame) => ~r.result.ok
=============================================================================
