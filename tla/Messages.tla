------------------------------ MODULE Messages ------------------------------
(***************************************************************************)
(* The message wrappers of protocol/message.rs over ProtoWire.  A wrapper    *)
(* knows some field numbers: each is read when its wire type is the expected *)
(* one, the last occurrence wins, and everything else is dropped; it writes  *)
(* the fields it holds in ascending order, leaving out what proto3 leaves    *)
(* out.  The state machine is a message on a path of nodes that each decode  *)
(* it and encode it again, field by field, from bytes nobody vouches for.    *)
(***************************************************************************)
EXTENDS ProtoWire

CONSTANTS Absent,       \* the value of an optional field that did not arrive
          Inputs,       \* per message, the byte strings that may arrive
          RequestIds,   \* packet identifiers that may be acknowledged
          Nodes,        \* how many nodes decode and encode the message
          Room          \* bytes of the buffer a node encodes into

VARIABLES name,         \* which wrapper reads the bytes
          origin,       \* the bytes that arrived at the first node
          wire,         \* the bytes the current node reads
          pos,          \* Reader position: bytes consumed
          message,      \* the wrapper's fields so far
          status,       \* "reading", "decoded", "encoded" or an error
          hop,          \* how many nodes have encoded it
          arrived,      \* the message the first node decoded
          fields,       \* the fields that arrived at the first node
          overflowed    \* whether a varint among them was wider than a word

ghosts == <<arrived, fields, overflowed>>
vars == <<name, origin, wire, pos, message, status, hop, ghosts>>
----------------------------------------------------------------------------
(* The wrappers' fields: kind, and when the field is written: "present" when *)
(* it arrived (an Option), "always", or else when it is not the default.     *)
Implicit(kind) == [kind |-> kind, written |-> "nonDefault"]
Optional(kind) == [kind |-> kind, written |-> "present"]

Data == [n \in 1..10 |->
  CASE n = 1 -> Implicit("u32") [] n = 3 -> Implicit("bool")
    [] n \in {2, 10} -> Implicit("bytes") [] n \in 4..8 -> Implicit("fixed32")
    [] n = 9 -> Optional("u32")]

User == [n \in 1..9 |->
  CASE n \in {1, 2, 3, 4, 8} -> Implicit("bytes") [] n \in {5, 7} -> Implicit("u32")
    [] n = 6 -> Implicit("bool") [] n = 9 -> Optional("bool")]

Position == [n \in {1, 2, 3, 4, 23} |->
  IF n \in {3, 23} THEN Implicit("u32") ELSE Implicit("fixed32")]

ChannelSettings == [n \in 2..7 |->
  CASE n \in {2, 3, 7} -> Implicit("bytes") [] n = 4 -> Implicit("fixed32")
    [] n \in {5, 6} -> Implicit("bool")]

\* The status is written even when it is zero, unlike every other scalar.
Routing == [n \in {3} |-> [kind |-> "u32", written |-> "always"]]

NodeInfo == [n \in {1, 2, 3, 10} |->
  CASE n = 1 -> Implicit("u32") [] n \in {2, 3} -> Optional("bytes")
    [] n = 10 -> Optional("bool")]

MeshPacket == [n \in {1, 2, 3, 5, 6, 11, 19} |->
  CASE n \in {1, 2, 6} -> Implicit("fixed32") [] n = 5 -> Implicit("bytes")
    [] n \in {3, 11, 19} -> Implicit("u32")]

Schema == [Data |-> Data, User |-> User, Position |-> Position,
           ChannelSettings |-> ChannelSettings, Routing |-> Routing,
           NodeInfo |-> NodeInfo, MeshPacket |-> MeshPacket]

WireTypeOf(kind) == CASE kind \in {"u32", "bool"} -> VARINT
                      [] kind = "fixed32" -> FIXED32
                      [] kind = "bytes" -> LEN

Default(kind) == CASE kind \in {"u32", "bool"} -> 0
                   [] kind = "fixed32" -> <<0, 0, 0, 0>>
                   [] kind = "bytes" -> <<>>

\* A varint is narrowed to the field it is read into, never refused.
Narrow(kind, v) == CASE kind = "u32" -> v % 2^U32Bits
                     [] kind = "bool" -> IF v = 0 THEN 0 ELSE 1
                     [] OTHER -> v

Blank(schema) ==
  [n \in DOMAIN schema |-> IF schema[n].written = "present" THEN Absent
                                                            ELSE Default(schema[n].kind)]

\* Mutant: a field keeps the whole word its varint had.
StoredWide(schema, m, f) ==
  IF f.number \in DOMAIN schema /\ f.wireType = WireTypeOf(schema[f.number].kind)
  THEN [m EXCEPT ![f.number] = f.value]
  ELSE m

Stored(schema, m, f) ==
  IF f.number \in DOMAIN schema /\ f.wireType = WireTypeOf(schema[f.number].kind)
  THEN [m EXCEPT ![f.number] = Narrow(schema[f.number].kind, f.value)]
  ELSE m

\* Mutant: every field is left out when it holds the default, as proto3 would.
WrittenNonDefault(schema, m, n) == m[n] # Absent /\ m[n] # Default(schema[n].kind)

Written(schema, m, n) ==
  CASE schema[n].written = "always" -> TRUE
    [] schema[n].written = "present" -> m[n] # Absent
    [] OTHER -> m[n] # Default(schema[n].kind)

\* A turn of encode: the fields in ascending order, each written or left out.
FieldBytes(schema, m, n) ==
  IF n \in DOMAIN schema /\ Written(schema, m, n)
  THEN WriteField(Field(n, WireTypeOf(schema[n].kind), m[n]))
  ELSE <<>>

Encode(schema, m, room) ==
  WriteFields([n \in 1..Max(DOMAIN schema) |-> FieldBytes(schema, m, n)], room)

\* The whole of a decode loop at once, for a message inside another.
Decode(schema, bytes) ==
  LET After[n \in 0..Len(bytes)] ==      \* after at most n turns of the loop
        IF n = 0 THEN Ok(Blank(schema), 0)
        ELSE LET before == After[n - 1]
             IN  IF ~before.ok \/ before.next = Len(bytes) THEN before
                 ELSE LET field == NextField(bytes, before.next)
                      IN  IF field.ok THEN Ok(Stored(schema, before.value, field.value), field.next)
                                      ELSE field
  IN  After[Len(bytes)]

\* What arrives is bytes, and an identifier is four of them; a field that did not
\* arrive holds no value.
ASSUME ValuesAssumption ==
  /\ \A m \in DOMAIN Schema : \A bytes \in Inputs[m] : bytes \in Seq(Byte)
  /\ RequestIds \subseteq [1..4 -> Byte]
  /\ Nodes \in Nat /\ Room \in Nat
  /\ Absent \notin Nat /\ Absent \notin Seq(Byte)
----------------------------------------------------------------------------
(* Acknowledgements: a Data on the routing port that names a request.        *)
ROUTING_APP == 5
ACK_PAYLOAD == <<24, 0>>

Acknowledgement(id) == [Blank(Data) EXCEPT ![1] = ROUTING_APP, ![2] = ACK_PAYLOAD, ![6] = id]
AckBytes(id) == Encode(Data, Acknowledgement(id), 64).value

\* Mutant: a request is recognised only when its payload decodes to a rejection.
AcknowledgesOnPayload(m) ==
  LET routing == Decode(Routing, m[2])
  IN  IF m[1] # ROUTING_APP \/ ~routing.ok \/ routing.value[3] = 0 THEN Absent
      ELSE [request |-> m[6], status |-> routing.value[3]]

Acknowledges(m) ==
  LET routing == Decode(Routing, m[2])
  IN  IF m[1] # ROUTING_APP \/ m[6] = Default("fixed32") THEN Absent
      ELSE [request |-> m[6], status |-> IF routing.ok THEN routing.value[3] ELSE 0]
----------------------------------------------------------------------------
Init == /\ name \in DOMAIN Schema
        /\ origin \in Inputs[name]
        /\ wire = origin
        /\ pos = 0
        /\ message = Blank(Schema[name])
        /\ status = "reading"
        /\ hop = 0
        /\ arrived = Absent
        /\ fields = <<>>
        /\ overflowed = FALSE

\* decode: one turn of its loop over the Reader.
Read == /\ status = "reading"
        /\ pos < Len(wire)
        /\ LET field == NextField(wire, pos)
           IN  IF field.ok
               THEN /\ message' = Stored(Schema[name], message, field.value)
                    /\ pos' = field.next
                    /\ UNCHANGED status
                    /\ fields' = IF hop = 0 THEN Append(fields, field.value) ELSE fields
                    /\ overflowed' = (overflowed \/ (hop = 0 /\ OverflowsIn(wire, pos)))
               ELSE /\ status' = field.error
                    /\ UNCHANGED <<message, pos, fields, overflowed>>
        /\ UNCHANGED <<name, origin, wire, hop, arrived>>

\* decode: the reader is empty.
Decoded == /\ status = "reading"
           /\ pos >= Len(wire)
           /\ status' = "decoded"
           /\ arrived' = IF hop = 0 THEN message ELSE arrived
           /\ UNCHANGED <<name, origin, wire, pos, message, hop, fields, overflowed>>

\* encode, into the buffer the node has.
Reencode == /\ status = "decoded"
            /\ hop < Nodes
            /\ LET bytes == Encode(Schema[name], message, Room)
               IN  /\ status' = IF bytes.ok THEN "encoded" ELSE bytes.error
                   /\ wire' = IF bytes.ok THEN bytes.value ELSE wire
            /\ hop' = hop + 1
            /\ UNCHANGED <<name, origin, pos, message, ghosts>>

\* The bytes are what the next node decodes.
Forward == /\ status = "encoded"
           /\ status' = "reading"
           /\ pos' = 0
           /\ message' = Blank(Schema[name])
           /\ UNCHANGED <<name, origin, wire, hop, ghosts>>

Next == Read \/ Decoded \/ Reencode \/ Forward

Spec == Init /\ [][Next]_vars
----------------------------------------------------------------------------
\* Unknown fields are lost at the first node and nothing at any later one:
\* whatever bytes arrived, with fields unknown, repeated, mistyped, oversized or
\* out of order, a node that re-encodes a message passes on exactly the message it
\* decoded, and nodes after it neither lose nor invent a field (message.rs:10-35).
NodesAgree == status = "decoded" => message = arrived

\* Whether the bytes that arrived are those a canonical encoder emits for this
\* wrapper: nothing unknown, numbers ascending, no field written that proto3
\* leaves out, and not a byte more than their fields need.
LeastLength(f) ==
  VarintLength(8 * f.number + f.wireType) +
  CASE f.wireType = VARINT -> VarintLength(f.value)
    [] f.wireType = LEN -> VarintLength(Len(f.value)) + Len(f.value)
    [] f.wireType = FIXED32 -> 4
    [] f.wireType = FIXED64 -> 8

Canonical(schema) ==
  /\ \A i \in DOMAIN fields :
       LET f == fields[i] IN
       /\ f.number \in DOMAIN schema
       /\ f.wireType = WireTypeOf(schema[f.number].kind)
       /\ f.wireType = VARINT => f.value = Narrow(schema[f.number].kind, f.value)
       /\ schema[f.number].written = "nonDefault" => f.value # Default(schema[f.number].kind)
       /\ i > 1 => fields[i - 1].number < f.number
  /\ \A n \in DOMAIN schema : schema[n].written = "always" =>
       \E i \in DOMAIN fields : fields[i].number = n
  /\ LET Sum[i \in 0..Len(fields)] == IF i = 0 THEN 0 ELSE Sum[i - 1] + LeastLength(fields[i])
     IN  Len(origin) = Sum[Len(fields)]
  /\ ~overflowed

\* A canonical message is re-encoded byte for byte, an empty submessage and an
\* explicit zero status included: the round trip the corpus of captured messages
\* is checked against (message.rs:29-35, message.rs:541-546, message.rs:606-609).
\* And only a canonical one is: the bits of a varint beyond its word, and those
\* of a number beyond 32, are cut off without an error (protobuf.rs:143,
\* message.rs:448-460), and what is left never passes for what arrived.
CanonicalIsBitIdentical ==
  status = "encoded" => (wire = origin <=> Canonical(Schema[name]))

\* The acknowledgement of every identifier but 0 is recognised by whoever
\* decodes it, also after other nodes have encoded it again, and says accepted;
\* the acknowledgement of identifier 0 is one of nothing (delivery.rs:296-336).
AckIsRecognised ==
  \A id \in RequestIds :
    name = "Data" /\ status = "decoded" /\ origin = AckBytes(id) =>
      Acknowledges(message) =
        IF id = Default("fixed32") THEN Absent ELSE [request |-> id, status |-> 0]
=============================================================================
