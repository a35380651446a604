----------------------------- MODULE ProtoWire -----------------------------
(***************************************************************************)
(* The protobuf wire format of protocol/protobuf.rs, as functions on        *)
(* sequences of bytes: the Reader, which takes one field at a time off a     *)
(* buffer it does not trust, and the Writer.  Bytes and groups of seven bits *)
(* are those of the wire; the width of a word, 64 bits in the code, is a     *)
(* constant, so that an instance can reach its end in a few bytes.  What     *)
(* matters is kept: the last group of a longest varint has room for fewer    *)
(* bits than it carries (64 = 9 * 7 + 1).                                    *)
(***************************************************************************)
EXTENDS Naturals, Sequences, SequencesExt, FiniteSetsExt

CONSTANTS WordBits,   \* width of a varint: u64
          U32Bits     \* width of a u32

\* A word holds every tag a wrapper writes (the greatest field is 23), and a u32
\* every number.
ASSUME WidthAssumption ==
  /\ WordBits \in Nat /\ WordBits >= 8 /\ U32Bits \in 5..WordBits
  /\ WordBits % 7 # 0

Byte == 0..255

\* Wire types.
VARINT == 0
FIXED64 == 1
LEN == 2
FIXED32 == 5

\* A varint has one byte more while the next shift stays below the word.
MaxVarint == CHOOSE n \in 1..WordBits : 7 * n >= WordBits /\ 7 * (n - 1) < WordBits

Ok(value, next) == [ok |-> TRUE, value |-> value, next |-> next]
Failed(error) == [ok |-> FALSE, error |-> error]

\* Each byte adds seven bits at the next shift.
Joined(bytes) ==
  LET Upto[i \in 0..Len(bytes)] ==
        IF i = 0 THEN 0 ELSE Upto[i - 1] + (bytes[i] % 128) * 2^(7 * (i - 1))
  IN  Upto[Len(bytes)]

\* The bits a shift pushes out of the word are lost, not reported.
ReadVarint(buf, pos) ==
  LET ends == {n \in 1..MaxVarint : pos + n <= Len(buf) /\ buf[pos + n] < 128}
  IN  IF ends # {}
      THEN LET next == pos + Min(ends)
           IN  Ok(Joined(SubSeq(buf, pos + 1, next)) % 2^WordBits, next)
      ELSE Failed(IF pos + MaxVarint <= Len(buf) THEN "MalformedVarint" ELSE "Truncated")

\* Whether the varint at pos carries more than a word.
Overflows(buf, pos) ==
  LET v == ReadVarint(buf, pos)
  IN  v.ok /\ Joined(SubSeq(buf, pos + 1, v.next)) >= 2^WordBits

Take(buf, pos, n) ==
  IF pos + n <= Len(buf) THEN Ok(SubSeq(buf, pos + 1, pos + n), pos + n)
                         ELSE Failed("Truncated")

ReadValue(wireType, buf, pos) ==
  CASE wireType = VARINT -> ReadVarint(buf, pos)
    [] wireType = FIXED64 -> Take(buf, pos, 8)
    [] wireType = FIXED32 -> Take(buf, pos, 4)
    [] wireType = LEN -> LET len == ReadVarint(buf, pos)
                         IN  IF len.ok THEN Take(buf, len.next, len.value) ELSE len
    [] OTHER -> Failed("UnsupportedWireType")

Field(number, wireType, value) ==
  [number |-> number, wireType |-> wireType, value |-> value]

\* Whether a varint of the field at pos, its tag, value or length, overflows.
OverflowsIn(buf, pos) ==
  LET tag == ReadVarint(buf, pos)
  IN  \/ Overflows(buf, pos)
      \/ tag.ok /\ tag.value % 8 \in {VARINT, LEN} /\ Overflows(buf, tag.next)

NextField(buf, pos) ==
  LET tag == ReadVarint(buf, pos)
      number == tag.value \div 8
      value == ReadValue(tag.value % 8, buf, tag.next)
  IN  IF ~tag.ok THEN tag
      ELSE IF number \notin 1..(2^U32Bits - 1) THEN Failed("ZeroFieldNumber")
      ELSE IF ~value.ok THEN value
      ELSE Ok(Field(number, tag.value % 8, value.value), value.next)
----------------------------------------------------------------------------
VarintLength(v) ==
  CHOOSE n \in 1..MaxVarint : v < 2^(7 * n) /\ (n > 1 => v >= 2^(7 * (n - 1)))

WriteVarint(v) ==
  LET n == VarintLength(v)
  IN  [i \in 1..n |-> ((v \div 2^(7 * (i - 1))) % 128) + (IF i < n THEN 128 ELSE 0)]

WriteField(f) ==
  WriteVarint(8 * f.number + f.wireType) \o
  CASE f.wireType = VARINT -> WriteVarint(f.value)
    [] f.wireType = LEN -> WriteVarint(Len(f.value)) \o f.value
    [] OTHER -> f.value

\* Writing stops at the first byte the caller's buffer has no room for.
WriteFields(written, room) ==
  LET bytes == FlattenSeq(written)
  IN  IF Len(bytes) <= room THEN Ok(bytes, Len(bytes)) ELSE Failed("BufferTooSmall")
=============================================================================
