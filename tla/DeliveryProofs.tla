--------------------------- MODULE DeliveryProofs ---------------------------
(***************************************************************************)
(* A delivery from end to end, for every set of nodes, traffic, channel     *)
(* name and key, hop limit, history, capacity, policy, and number of        *)
(* relays, replies and restarts.                                                           *)
(*                                                                         *)
(* What is on the air is known from its sender and identifier: a copy of    *)
(* the frame a packet was first sent as, or an acknowledgement, which takes *)
(* an identifier of its own and names a packet its sender has processed.    *)
(***************************************************************************)
EXTENDS Delivery, SequenceTheorems, TLAPS

Stages == {"fresh", "sent", "refused", "pending", "untracked", "acked", "gaveUp", "forgotten"}
Entries == [state : {"Pending"}, packet : Packets, attempts : Nat, due : Nat]

DeliveryType ==
  /\ traffic \in Traffics
  /\ seen \in [Nodes -> Seq(Nodes \X Nat)]
  /\ issued \in [Nodes -> Nat]
  /\ acks \in [Nodes -> Nat]
  /\ slots \in [Slots -> {Free} \cup Entries]
  /\ stage \in [Packets -> Stages]
  /\ sent \in [Packets -> Nat]
  /\ short \in [Packets -> Nat]
  /\ restarts \in Nat
  /\ processed \in [Nodes -> [AllPackets -> Nat]]
  /\ dropped \in [Nodes -> SUBSET air]
  /\ answered \subseteq Packets
----------------------------------------------------------------------------
(* What is on the air.                                                       *)

\* A frame as its packet was first sent, whoever relayed it since.
Copy(f, g) ==
  /\ f = [head |-> f.head, size |-> g.size, body |-> g.body]
  /\ f.head.flags \in 0..255
  /\ f.head.to = g.head.to /\ f.head.from = g.head.from
  /\ f.head.id = g.head.id /\ f.head.channel = g.head.channel
  /\ Peek(f).wantAck <=> Peek(g).wantAck

First(p) == Encoded(p[1], p[2], ItemOf(p))

OwnFrame(f) == /\ PacketOf(f) \in AllPackets
               /\ First(PacketOf(f)).ok
               /\ Copy(f, First(PacketOf(f)).value)

\* The packet an acknowledgement names.
Named(f) == <<f.head.to, f.body.content.requestId>>

AckFrame(f) ==
  /\ f = [head |-> f.head, size |-> f.size, body |-> f.body]
  /\ f.head.flags \in 0..255 /\ f.head.from \in Nodes
  /\ f.head.id \in Len(traffic[f.head.from])..(Len(traffic[f.head.from]) + acks[f.head.from] - 1)
  /\ f.head.channel = hash /\ ~Peek(f).wantAck
  /\ f.body = CtrApply(Plain(Acknowledgement(f.body.content.requestId), 0),
                       Key, Nonce(f.head.id, f.head.from, 0))
  /\ Named(f) \in AllPackets /\ f.head.to # f.head.from
  /\ ItemOf(Named(f)).wantAck /\ ItemOf(Named(f)).to = f.head.from
  /\ f.head.from # Sender => processed[f.head.from][Named(f)] > 0

AirOK == /\ \A f \in air : OwnFrame(f) \/ AckFrame(f)
         /\ \A f, g \in air : AckFrame(f) /\ AckFrame(g) /\ PacketOf(f) = PacketOf(g)
                                => f.body = g.body
----------------------------------------------------------------------------
(* What was received.                                                        *)

\* Whether a node can open a packet and take it for a message.
Opens(n, p) == /\ First(p).ok /\ Opened(n, First(p).value).ok
               /\ ItemOf(p).to \in {n, BROADCAST_ADDR} /\ p[1] # n

\* The first sightings after which a packet can be processed for the k-th time.
Needed(k) == (k - 1) * (HISTORY + 1)

\* A packet that was processed k times was sighted after the Needed(k) first.
Witnessed(s, p, k) == \E i \in 1..Len(s) : s[i] = p /\ Needed(k) < i

ReceivedOK ==
  \A n \in Nodes, p \in AllPackets :
    /\ ItemOf(p).to \notin {n, BROADCAST_ADDR} => processed[n][p] = 0
    /\ processed[n][p] > 0 => Witnessed(seen[n], p, processed[n][p])
    /\ Opens(n, p) /\ p \in Sighted(seen[n]) => processed[n][p] > 0
----------------------------------------------------------------------------
(* The outbox.                                                               *)
OutboxOK ==
  /\ \A i \in PendingSlots :
       /\ stage[slots[i].packet] = "pending"
       /\ slots[i].attempts = sent[slots[i].packet] + short[slots[i].packet]
       /\ slots[i].attempts <= MaxAttempts
  /\ \A i, j \in PendingSlots : slots[i].packet = slots[j].packet => i = j
  /\ \A p \in Packets :
       /\ stage[p] = "sent" => sent[p] = 1 /\ short[p] = 0
       /\ stage[p] = "fresh" => short[p] = 0
       /\ p[2] >= issued[Sender] => stage[p] = "fresh"
       /\ stage[p] = "gaveUp" => sent[p] + short[p] = MaxAttempts

AnswersOK ==
  /\ \A p \in answered : p[2] # 0 => stage[p] = "acked"
  /\ \A p \in Packets :
       stage[p] = "acked" => /\ p[2] # 0 /\ p \in AllPackets /\ p \in answered
                             /\ ItemOf(p).to \in Nodes \ {Sender}
                             /\ processed[ItemOf(p).to][p] > 0

IInv == /\ DeliveryType /\ AirOK /\ ReceivedOK /\ OutboxOK /\ AnswersOK
        /\ OnlyZeroHashIsMisread
----------------------------------------------------------------------------
(* The history.                                                              *)

LEMMA NeededGrows ==
  /\ Needed(1) = 0
  /\ \A k \in Nat \ {0} : Needed(k) \in Nat /\ Needed(k + 1) = Needed(k) + HISTORY + 1
<1>1. PICK h \in Nat : h = HISTORY
  BY HistoryAssumption
<1>2. Needed(1) = 0
  BY <1>1 DEF Needed
<1>3. ASSUME NEW k \in Nat \ {0}
      PROVE  Needed(k) \in Nat /\ Needed(k + 1) = Needed(k) + HISTORY + 1
  <2>1. PICK j \in Nat : k = j + 1
    <3>1. k - 1 \in Nat /\ k = (k - 1) + 1
      OBVIOUS
    <3>2. QED
      BY <3>1
  <2>2. Needed(k) = j * (h + 1) /\ Needed(k + 1) = (j + 1) * (h + 1)
    BY <1>1, <2>1 DEF Needed
  <2>3. j * (h + 1) \in Nat /\ (j + 1) * (h + 1) = j * (h + 1) + h + 1
    OBVIOUS
  <2>4. QED
    BY <1>1, <2>2, <2>3
<1>4. QED
  BY <1>2, <1>3

\* A history that was added to.
Extends(s, t) == /\ Len(s) \in Nat /\ Len(t) \in Nat /\ Len(s) <= Len(t)
                 /\ \A i \in 1..Len(s) : t[i] = s[i]

LEMMA ExtendsAgain ==
  ASSUME NEW s, NEW t, NEW u, Extends(s, t), Extends(t, u)
  PROVE  Extends(s, u)
<1>1. \A i \in 1..Len(s) : i \in 1..Len(t)
  BY DEF Extends
<1>2. QED
  BY <1>1 DEF Extends

LEMMA StillWitnessed ==
  ASSUME NEW s, NEW t, Extends(s, t), NEW p, NEW k, Witnessed(s, p, k)
  PROVE  Witnessed(t, p, k)
<1>1. PICK i \in 1..Len(s) : s[i] = p /\ Needed(k) < i
  BY DEF Witnessed
<1>2. i \in 1..Len(t) /\ t[i] = p
  BY <1>1 DEF Extends
<1>3. QED
  BY <1>1, <1>2 DEF Witnessed

\* What a node notes is added to its history, unless it remembers it.
LEMMA NotedFacts ==
  ASSUME NEW S, NEW s \in Seq(S), NEW p \in S, NEW t, t = Noted(s, p)
  PROVE  /\ t \in Seq(S) /\ Extends(s, t)
         /\ p \in Sighted(t) /\ \A q \in Sighted(t) : q \in Sighted(s) \/ q = p
         /\ p \notin Remembered(s) => Len(t) = Len(s) + 1 /\ t[Len(s) + 1] = p
<1>1. Len(s) \in Nat
  BY LenProperties
<1>2. CASE p \in Remembered(s)
  <2>1. t = s
    BY <1>2 DEF Noted
  <2>2. p \in Sighted(s)
    BY <1>2 DEF Remembered, Sighted
  <2>3. QED
    BY <1>1, <1>2, <2>1, <2>2 DEF Extends
<1>3. CASE p \notin Remembered(s)
  <2>1. t = Append(s, p)
    BY <1>3 DEF Noted
  <2>2. /\ t \in Seq(S) /\ Len(t) = Len(s) + 1 /\ t[Len(s) + 1] = p
        /\ \A i \in 1..Len(s) : t[i] = s[i]
    BY <2>1, AppendProperties
  <2>3. Extends(s, t)
    BY <1>1, <2>2 DEF Extends
  <2>4. p \in Sighted(t)
    <3>1. Len(s) + 1 \in 1..Len(t)
      BY <1>1, <2>2
    <3>2. QED
      BY <2>2, <3>1 DEF Sighted
  <2>5. ASSUME NEW q \in Sighted(t) PROVE q \in Sighted(s) \/ q = p
    <3>1. PICK i \in 1..Len(t) : q = t[i]
      BY DEF Sighted
    <3>2. i \in 1..Len(s) \/ i = Len(s) + 1
      BY <1>1, <2>2
    <3>3. QED
      BY <2>2, <3>1, <3>2 DEF Sighted
  <2>6. QED
    BY <2>2, <2>3, <2>4, <2>5
<1>4. QED
  BY <1>2, <1>3

\* The first sighting of a packet that was processed before comes HISTORY first
\* sightings after the last one that was.
LEMMA SightedAnew ==
  ASSUME NEW S, NEW s \in Seq(S), NEW p \in S, p \notin Remembered(s), NEW k \in Nat,
         k > 0 => Witnessed(s, p, k)
  PROVE  Witnessed(Noted(s, p), p, k + 1)
<1>1. PICK t : t = Noted(s, p)
  OBVIOUS
<1>2. Len(s) \in Nat /\ Len(t) = Len(s) + 1 /\ t[Len(s) + 1] = p
  BY <1>1, NotedFacts, LenProperties
<1>3. Needed(k + 1) < Len(s) + 1
  <2>1. CASE k = 0
    BY <1>2, <2>1, NeededGrows
  <2>2. CASE k # 0
    <3>1. PICK i \in 1..Len(s) : s[i] = p /\ Needed(k) < i
      BY <2>2 DEF Witnessed
    <3>2. ~(i > Len(s) - HISTORY)
      BY <3>1 DEF Remembered
    <3>3. Needed(k) \in Nat /\ Needed(k + 1) = Needed(k) + HISTORY + 1
      BY <2>2, NeededGrows
    <3>4. QED
      BY <1>2, <3>1, <3>2, <3>3, HistoryAssumption
  <2>3. QED
    BY <2>1, <2>2
<1>4. Len(s) + 1 \in 1..Len(t)
  BY <1>2
<1>5. QED
  BY <1>1, <1>2, <1>3, <1>4 DEF Witnessed

\* One node notes a packet.
Notes(h, g, n, p) == n \in Nodes /\ p \in Nodes \X Nat /\ g = [h EXCEPT ![n] = Noted(h[n], p)]

Histories == [Nodes -> Seq(Nodes \X Nat)]

LEMMA NotesFacts ==
  ASSUME NEW h, h \in Histories, NEW g, NEW n, NEW p, Notes(h, g, n, p)
  PROVE  /\ g \in Histories
         /\ \A m \in Nodes : m # n => g[m] = h[m]
         /\ Extends(h[n], g[n])
         /\ \A q \in Sighted(g[n]) : q \in Sighted(h[n]) \/ q = p
<1>1. PICK S, s, t : S = Nodes \X Nat /\ s = h[n] /\ t = Noted(s, p)
  OBVIOUS
<1>2. n \in Nodes /\ p \in S /\ s \in Seq(S) /\ h \in [Nodes -> Seq(S)]
      /\ g = [h EXCEPT ![n] = t]
  BY <1>1 DEF Notes, Histories
<1>3. t = Noted(s, p)
  BY <1>1
<1>4. t \in Seq(S) /\ Extends(s, t) /\ \A q \in Sighted(t) : q \in Sighted(s) \/ q = p
  BY ONLY <1>2, <1>3, NotedFacts
<1>5. g[n] = t /\ g \in [Nodes -> Seq(S)] /\ \A m \in Nodes : m # n => g[m] = h[m]
  BY <1>2, <1>4
<1>6. QED
  BY <1>1, <1>4, <1>5 DEF Histories
----------------------------------------------------------------------------
(* Headers.                                                                  *)

LEMMA LowBits ==
  ASSUME NEW low \in 0..7, NEW high \in 0..31
  PROVE  low + 8 * high \in 0..255 /\ (low + 8 * high) \div 8 = high
OBVIOUS

\* The bit that asks for an acknowledgement, among the flags of a header.
LEMMA WantsBit ==
  ASSUME NEW hops \in Nat, NEW ack \in 0..1, NEW mqtt \in 0..1, NEW start \in Nat,
         NEW flags, flags = (hops % 8) + 8 * ack + 16 * mqtt + 32 * (start % 8)
  PROVE  flags \in 0..255 /\ (flags \div 8) % 2 = ack
<1> DEFINE low == hops % 8
           top == start % 8
           high == ack + 2 * (mqtt + 2 * top)
<1>1. low \in 0..7 /\ top \in 0..7
  OBVIOUS
<1>2. high \in 0..31 /\ high % 2 = ack
  <2> HIDE DEF top
  <2>1. mqtt + 2 * top \in 0..15
    BY <1>1
  <2>2. \A r \in 0..15 : ack + 2 * r \in 0..31 /\ (ack + 2 * r) % 2 = ack
    OBVIOUS
  <2>3. QED
    BY <2>1, <2>2
<1>3. flags = low + 8 * high
  <2> HIDE DEF low, top
  <2>1. flags = low + 8 * ack + 16 * mqtt + 32 * top
    BY DEF low, top
  <2>2. QED
    BY <1>1, <2>1
<1> HIDE DEF low, high
<1>4. QED
  BY <1>1, <1>2, <1>3, LowBits

LEMMA OwnHead ==
  ASSUME NEW from, NEW to, NEW id, NEW channel, NEW wantAck \in BOOLEAN, NEW f,
         f.head = EncodeHeader(OwnHeader(from, to, id, HopStart, channel, wantAck))
  PROVE  /\ f.head.to = to /\ f.head.from = from /\ f.head.id = id
         /\ f.head.channel = channel /\ f.head.flags \in 0..255
         /\ Peek(f).wantAck <=> wantAck
<1> DEFINE ack == Bit(wantAck)
           flags == f.head.flags
<1>1. /\ f.head.to = to /\ f.head.from = from /\ f.head.id = id /\ f.head.channel = channel
      /\ flags = (HopStart % 8) + 8 * ack + 16 * 0 + 32 * (HopStart % 8)
  BY DEF EncodeHeader, OwnHeader, Flags, Bit
<1>2. ack \in 0..1 /\ (ack = 1 <=> wantAck)
  BY DEF Bit
<1>3. Peek(f).wantAck <=> (flags \div 8) % 2 = 1
  BY DEF Peek, DecodeHeader
<1> HIDE DEF ack, flags
<1>4. flags \in 0..255 /\ (flags \div 8) % 2 = ack
  BY <1>1, <1>2, HopAssumption, WantsBit
<1>5. QED
  BY <1>1, <1>2, <1>3, <1>4 DEF flags

LEMMA RelayKeepsBit ==
  ASSUME NEW old \in 0..255, old % 8 # 0,
         NEW flags, flags = (((old % 8) - 1) % 8) + 8 * Bit((old \div 8) % 2 = 1)
                            + 16 * Bit((old \div 16) % 2 = 1) + 32 * ((old \div 32) % 8)
  PROVE  flags \in 0..255 /\ (flags \div 8) % 2 = (old \div 8) % 2
<1> DEFINE ack == (old \div 8) % 2
           mqtt == (old \div 16) % 2
           hops == (old % 8) - 1
           start == old \div 32
<1>1. ack \in 0..1 /\ mqtt \in 0..1 /\ hops \in Nat /\ start \in Nat
  OBVIOUS
<1>2. Bit(ack = 1) = ack /\ Bit(mqtt = 1) = mqtt
  BY <1>1 DEF Bit
<1>3. flags = (hops % 8) + 8 * ack + 16 * mqtt + 32 * (start % 8)
  BY <1>2
<1> HIDE DEF hops, mqtt, start
<1>4. flags \in 0..255 /\ (flags \div 8) % 2 = ack
  <2> HIDE DEF ack
  <2>1. QED
    BY <1>1, <1>3, WantsBit
<1>5. QED
  BY <1>4

\* A relay changes how many hops are left and who relayed last.
LEMMA RelayedFrame ==
  ASSUME NEW f, f = [head |-> f.head, size |-> f.size, body |-> f.body],
         f.head.flags \in 0..255, NEW n, RelayedBy(f, n).ok
  PROVE  Copy(RelayedBy(f, n).value, f)
<1> DEFINE g == RelayedBy(f, n).value
           h == [Peek(f) EXCEPT !.hopLimit = (f.head.flags % 8) - 1, !.relayNode = LowByte(n)]
<1>1. f.head.flags % 8 # 0
  BY DEF RelayedBy, Peek, DecodeHeader, Failed
<1>2. g = RelayPrepare(f, (f.head.flags % 8) - 1, n)
  BY <1>1 DEF RelayedBy, Peek, DecodeHeader, Ok
<1>3. g = [head |-> EncodeHeader(h), size |-> f.size, body |-> f.body]
  BY <1>2 DEF RelayPrepare
<1>4. /\ g.head.to = f.head.to /\ g.head.from = f.head.from /\ g.head.id = f.head.id
      /\ g.head.channel = f.head.channel
      /\ g.head.flags = (((f.head.flags % 8) - 1) % 8) + 8 * Bit((f.head.flags \div 8) % 2 = 1)
                        + 16 * Bit((f.head.flags \div 16) % 2 = 1)
                        + 32 * ((f.head.flags \div 32) % 8)
  BY <1>3 DEF EncodeHeader, Peek, DecodeHeader, Flags
<1> HIDE DEF g
<1>5. /\ g.head.flags \in 0..255
      /\ (g.head.flags \div 8) % 2 = (f.head.flags \div 8) % 2
  BY <1>1, <1>4, RelayKeepsBit
<1>6. Peek(g).wantAck <=> Peek(f).wantAck
  BY <1>5 DEF Peek, DecodeHeader
<1>7. g = [head |-> g.head, size |-> f.size, body |-> f.body]
  BY <1>3
<1> HIDE DEF h
<1>8. Copy(g, f)
  BY <1>4, <1>5, <1>6, <1>7 DEF Copy
<1>9. QED
  BY <1>8 DEF g
----------------------------------------------------------------------------
(* Bodies.                                                                   *)

\* A content under the one keystream of its frame.
Streamed(f, d) == f.body = CtrApply(Plain(d, 0), Key, Nonce(f.head.id, f.head.from, 0))

LEMMA CtrProperties ==
  ASSUME NEW content, NEW extra, NEW streams, NEW key, NEW nonce
  PROVE  CtrApply([content |-> content, extra |-> extra, streams |-> streams], key, nonce)
           = [content |-> content, extra |-> extra,
              streams |-> (streams \ {<<key, nonce>>}) \cup ({<<key, nonce>>} \ streams)]
BY DEF CtrApply

LEMMA StreamedBody ==
  ASSUME NEW f, NEW d, Streamed(f, d)
  PROVE  /\ f.body = [content |-> d, extra |-> 0,
                      streams |-> {<<Key, Nonce(f.head.id, f.head.from, 0)>>}]
         /\ d.kind = "Data" => FrameDecrypt(f, Key) = Ok(d)
<1> DEFINE nonce == Nonce(f.head.id, f.head.from, 0)
           s == <<Key, nonce>>
<1> HIDE DEF nonce
<1>1. f.body = [content |-> d, extra |-> 0, streams |-> ({} \ {s}) \cup ({s} \ {})]
  BY CtrProperties DEF Streamed, Plain, nonce
<1>2. f.body = [content |-> d, extra |-> 0, streams |-> {s}]
  BY <1>1
<1>3. CtrApply(f.body, Key, nonce)
        = [content |-> d, extra |-> 0, streams |-> ({s} \ {s}) \cup ({s} \ {s})]
  BY <1>2, CtrProperties
<1>4. ({s} \ {s}) \cup ({s} \ {s}) = {}
  OBVIOUS
<1>5. CtrApply(f.body, Key, nonce) = [content |-> d, extra |-> 0, streams |-> {}]
  BY <1>3, <1>4
<1>6. d.kind = "Data" => FrameDecrypt(f, Key) = Ok(d)
  BY <1>5 DEF FrameDecrypt, nonce
<1>7. QED
  BY <1>2, <1>6 DEF nonce

\* Anything that is not sealed is refused as a direct message.
LEMMA NotSealed ==
  ASSUME NEW f, NEW key, f.body.content.kind # "Sealed"
  PROVE  ~PkiDecrypt(f, key).ok
BY DEF PkiDecrypt, Failed
----------------------------------------------------------------------------
(* What the encoders put into a frame, and what opening it gives.            *)
IsMessage(d) == d.portnum # ROUTING_APP

ChannelFrame(f) == /\ f.head.channel = hash
                   /\ \E d : Streamed(f, d) /\ d.kind = "Data" /\ IsMessage(d)

DirectFrame(f) ==
  /\ f.head.channel = 0 /\ f.head.to \in Nodes
  /\ f.size \in Nat /\ f.size >= HEADER_LEN + TAG_LEN + EXTRA_LEN
  /\ \E d, extra : /\ IsMessage(d)
                   /\ f.body = Plain(Sealed(PkiAgree(f.head.from, f.head.to),
                                            Nonce(f.head.id, f.head.from, extra), d), extra)

LEMMA FrameEncoded ==
  ASSUME NEW h, NEW d, NEW key, NEW room, EncodeFrame(h, d, key, room).ok
  PROVE  EncodeFrame(h, d, key, room).value
           = [head |-> EncodeHeader(h), size |-> HEADER_LEN + DataLength(d),
              body |-> CtrApply(Plain(d, 0), key, Nonce(h.id, h.from, 0))]
BY DEF EncodeFrame, Ok, Failed

\* A frame as it leaves a node, for whom, and whether it asks for an acknowledgement.
Sent(f, n, to, id, wantAck) ==
  /\ f = [head |-> f.head, size |-> f.size, body |-> f.body]
  /\ f.head.to = to /\ f.head.from = n /\ f.head.id = id
  /\ f.head.flags \in 0..255 /\ (Peek(f).wantAck => wantAck)

\* A frame on the channel.
LEMMA ChannelEncoded ==
  ASSUME NEW n, NEW to, NEW id, NEW wantAck \in BOOLEAN, NEW d,
         d.kind = "Data", IsMessage(d),
         NEW r, r = EncodeFrame(OwnHeader(n, to, id, HopStart, hash, wantAck), d, Key, Room),
         r.ok
  PROVE  Sent(r.value, n, to, id, wantAck) /\ ChannelFrame(r.value)
<1> DEFINE h == OwnHeader(n, to, id, HopStart, hash, wantAck)
           f == r.value
<1>1. h.id = id /\ h.from = n
  BY DEF OwnHeader
<1>2. f = [head |-> EncodeHeader(h), size |-> HEADER_LEN + DataLength(d),
           body |-> CtrApply(Plain(d, 0), Key, Nonce(id, n, 0))]
  BY <1>1, FrameEncoded
<1>3. f.head = EncodeHeader(h)
  BY <1>2
<1>4. /\ f.head.to = to /\ f.head.from = n /\ f.head.id = id /\ f.head.channel = hash
      /\ f.head.flags \in 0..255 /\ (Peek(f).wantAck <=> wantAck)
  BY <1>3, OwnHead
<1>5. Streamed(f, d)
  BY <1>2, <1>4 DEF Streamed
<1>6. ChannelFrame(f)
  BY <1>4, <1>5 DEF ChannelFrame
<1>7. f = [head |-> f.head, size |-> f.size, body |-> f.body]
  BY <1>2
<1> HIDE DEF h, f
<1>8. Sent(f, n, to, id, wantAck)
  BY <1>4, <1>7 DEF Sent
<1>9. QED
  BY <1>6, <1>8 DEF f

LEMMA LengthIsNat ==
  ASSUME NEW portnum \in Nat, NEW payload, NEW size \in Nat
  PROVE  DataLength(Data(portnum, payload, size)) \in Nat
BY DEF DataLength, Data, FieldLength

LEMMA DirectEncoded ==
  ASSUME NEW n, NEW to \in Nodes, NEW id, NEW wantAck \in BOOLEAN, NEW extra, NEW payload,
         NEW size \in Nat,
         NEW r, r = PkiEncode(n, to, id, HopStart, wantAck, PkiAgree(n, to), extra,
                              TEXT_MESSAGE_APP, payload, size, Room),
         r.ok
  PROVE  Sent(r.value, n, to, id, wantAck) /\ DirectFrame(r.value)
<1> DEFINE h == OwnHeader(n, to, id, HopStart, 0, wantAck)
           d == Data(TEXT_MESSAGE_APP, payload, size)
           f == r.value
<1>1. f = [head |-> EncodeHeader(h), size |-> HEADER_LEN + DataLength(d) + TAG_LEN + EXTRA_LEN,
           body |-> Plain(Sealed(PkiAgree(n, to), Nonce(id, n, extra), d), extra)]
  BY DEF PkiEncode, Ok, Failed
<1>2. f.head = EncodeHeader(h)
  BY <1>1
<1>3. /\ f.head.to = to /\ f.head.from = n /\ f.head.id = id /\ f.head.channel = 0
      /\ f.head.flags \in 0..255 /\ (Peek(f).wantAck <=> wantAck)
  BY <1>2, OwnHead
<1>4. IsMessage(d)
  BY DEF IsMessage, Data, TEXT_MESSAGE_APP, ROUTING_APP
<1>5. DataLength(d) \in Nat
  BY LengthIsNat DEF TEXT_MESSAGE_APP
<1> HIDE DEF d, f
<1>6. f.size \in Nat /\ f.size >= HEADER_LEN + TAG_LEN + EXTRA_LEN
  BY <1>1, <1>5 DEF HEADER_LEN, TAG_LEN, EXTRA_LEN
<1>7. DirectFrame(f)
  BY <1>1, <1>3, <1>4, <1>6 DEF DirectFrame
<1>8. f = [head |-> f.head, size |-> f.size, body |-> f.body]
  BY <1>1
<1> HIDE DEF h
<1>9. Sent(f, n, to, id, wantAck)
  BY <1>3, <1>8 DEF Sent
<1>10. QED
  BY <1>7, <1>9 DEF f

\* A message from a node, as the item it was to send says.
SentAs(f, n, id, item) == /\ Sent(f, n, item.to, id, item.wantAck)
                          /\ ChannelFrame(f) \/ DirectFrame(f)

\* Every frame a node sends of its own is a message, on the channel or direct.
LEMMA EncodedFrame ==
  ASSUME NEW n, NEW id, NEW item \in Items, NEW r, r = Encoded(n, id, item), r.ok
  PROVE  SentAs(r.value, n, id, item)
<1> DEFINE to == item.to
           asks == item.wantAck
           none == FALSE
           extra == item.extra
           payload == item.payload
           size == item.size
<1> SUFFICES Sent(r.value, n, to, id, asks) /\ (ChannelFrame(r.value) \/ DirectFrame(r.value))
  BY DEF SentAs
<1>1. /\ item.mode \in {"text", "extension", "nodeinfo", "sealed"}
      /\ asks \in BOOLEAN /\ none \in BOOLEAN /\ size \in Nat /\ item.portnum \in Nat
      /\ item.mode = "sealed" => to \in Nodes
  BY DEF Items
<1>2. CASE item.mode = "text"
  <2> DEFINE d == Data(TEXT_MESSAGE_APP, payload, size)
  <2>1. r = EncodeFrame(OwnHeader(n, to, id, HopStart, hash, asks), d, Key, Room)
    BY <1>2 DEF Encoded, TextEncode
  <2>2. d.kind = "Data" /\ IsMessage(d)
    BY DEF Data, IsMessage, TEXT_MESSAGE_APP, ROUTING_APP
  <2> HIDE DEF d, to, asks, payload, size
  <2>3. QED
    BY <1>1, <2>1, <2>2, ChannelEncoded
<1>3. CASE item.mode = "extension"
  <2> DEFINE d == Data(item.portnum, payload, size)
  <2>1. /\ item.portnum >= 256
        /\ r = EncodeFrame(OwnHeader(n, to, id, HopStart, hash, asks), d, Key, Room)
    BY <1>1, <1>3 DEF Encoded, ExtensionEncode, Failed
  <2>2. d.kind = "Data" /\ IsMessage(d)
    BY <1>1, <2>1 DEF Data, IsMessage, ROUTING_APP
  <2> HIDE DEF d, to, asks, payload, size
  <2>3. QED
    BY <1>1, <2>1, <2>2, ChannelEncoded
<1>4. CASE item.mode = "nodeinfo"
  <2> DEFINE d == Data(NODEINFO_APP, payload, size)
  <2>1. r = EncodeFrame(OwnHeader(n, to, id, HopStart, hash, none), d, Key, Room)
    BY <1>4 DEF Encoded, NodeinfoEncode, Failed
  <2>2. d.kind = "Data" /\ IsMessage(d)
    BY DEF Data, IsMessage, NODEINFO_APP, ROUTING_APP
  <2>3. ~none
    OBVIOUS
  <2> HIDE DEF d, to, asks, none, payload, size
  <2>4. Sent(r.value, n, to, id, none) /\ ChannelFrame(r.value)
    BY <1>1, <2>1, <2>2, ChannelEncoded
  <2>5. Sent(r.value, n, to, id, asks)
    BY <2>3, <2>4 DEF Sent
  <2>6. QED
    BY <2>4, <2>5
<1>5. CASE item.mode = "sealed"
  <2>1. r = PkiEncode(n, to, id, HopStart, asks, PkiAgree(n, to), extra, TEXT_MESSAGE_APP,
                      payload, size, Room)
    BY <1>5 DEF Encoded
  <2>2. to \in Nodes /\ asks \in BOOLEAN /\ size \in Nat
    BY <1>1, <1>5
  <2> HIDE DEF to, asks, extra, payload, size
  <2>3. QED
    BY <2>1, <2>2, DirectEncoded
<1>6. QED
  BY <1>1, <1>2, <1>3, <1>4, <1>5

\* A channel frame opens everywhere, unless its hash makes it look direct.
LEMMA ChannelOpens ==
  ASSUME NEW n, NEW f, f.head.channel = hash, NEW d, Streamed(f, d), d.kind = "Data"
  PROVE  /\ Opened(n, f).ok => Opened(n, f).value = d
         /\ ~Opened(n, f).ok => hash = 0 /\ ~IsBroadcast(f.head)
<1>1. FrameDecrypt(f, Key) = Ok(d) /\ f.body.content = d
  <2>1. f.body = [content |-> d, extra |-> 0,
                  streams |-> {<<Key, Nonce(f.head.id, f.head.from, 0)>>}]
    BY StreamedBody
  <2>2. f.body.content = d
    BY <2>1
  <2>3. QED
    BY <2>2, StreamedBody
<1>2. CASE IsPki(f)
  <2>1. ~PkiDecrypt(f, PkiAgree(f.head.from, n)).ok
    BY <1>1, NotSealed
  <2>2. QED
    BY <1>2, <2>1 DEF Opened, IsPki
<1>3. CASE ~IsPki(f)
  BY <1>1, <1>3 DEF Opened, Ok
<1>4. QED
  BY <1>2, <1>3

\* A direct message opens where it is addressed, and as a message.
LEMMA DirectOpens ==
  ASSUME NEW n, NEW f, DirectFrame(f)
  PROVE  /\ Opened(n, f).ok => IsMessage(Opened(n, f).value)
         /\ f.head.to = n => Opened(n, f).ok
<1>1. IsPki(f)
  BY NodesAssumption DEF DirectFrame, IsPki, IsBroadcast
<1>2. PICK d, extra : /\ IsMessage(d)
                      /\ f.body = Plain(Sealed(PkiAgree(f.head.from, f.head.to),
                                               Nonce(f.head.id, f.head.from, extra), d), extra)
  BY DEF DirectFrame
<1>3. /\ f.body.extra = extra /\ f.body.streams = {} /\ f.body.content.kind = "Sealed"
      /\ f.body.content.key = PkiAgree(f.head.from, f.head.to)
      /\ f.body.content.nonce = Nonce(f.head.id, f.head.from, extra)
      /\ f.body.content.data = d
  BY <1>2 DEF Plain, Sealed
<1>4. f.head.to = n => Opened(n, f).ok
  <2>1. ~(f.size < HEADER_LEN + TAG_LEN + EXTRA_LEN)
    BY DEF DirectFrame, HEADER_LEN, TAG_LEN, EXTRA_LEN
  <2>2. QED
    BY <1>1, <1>3, <2>1 DEF Opened, PkiDecrypt, Ok
<1>5. Opened(n, f).ok => Opened(n, f).value = d
  BY <1>1, <1>3 DEF Opened, PkiDecrypt, Ok, Failed
<1>6. QED
  BY <1>2, <1>4, <1>5

LEMMA CopyOpens ==
  ASSUME NEW n, NEW f, NEW g, Copy(f, g)
  PROVE  Opened(n, f) = Opened(n, g)
<1>1. f.body = g.body /\ f.size = g.size
  BY DEF Copy
<1>2. QED
  BY <1>1 DEF Copy, Opened, IsPki, IsBroadcast, PkiDecrypt, FrameDecrypt
----------------------------------------------------------------------------
(* The frames on the air, and what a node makes of them.                     *)
LEMMA TrafficFacts ==
  ASSUME DeliveryType
  PROVE  /\ \A n \in Nodes : traffic[n] \in Seq(Items) /\ Len(traffic[n]) \in Nat
         /\ \A n \in Nodes, k \in Nat : <<n, k>> \in AllPackets <=> k < Len(traffic[n])
         /\ \A p \in AllPackets : /\ p[1] \in Nodes /\ p[2] \in Nat /\ p = <<p[1], p[2]>>
                                  /\ ItemOf(p) \in Items
<1>1. \A n \in Nodes : traffic[n] \in Seq(Items)
  BY TrafficAssumption DEF DeliveryType
<1>2. \A n \in Nodes : Len(traffic[n]) \in Nat
  BY <1>1, LenProperties
<1>3. ASSUME NEW p \in AllPackets
      PROVE  /\ p[1] \in Nodes /\ p[2] \in Nat /\ p = <<p[1], p[2]>>
             /\ p[2] < Len(traffic[p[1]])
  <2>1. PICK n \in Nodes : p \in {n} \X (0..(Len(traffic[n]) - 1))
    BY DEF AllPackets
  <2>2. QED
    BY <1>2, <2>1
<1>4. ASSUME NEW n \in Nodes, NEW k \in Nat, k < Len(traffic[n]) PROVE <<n, k>> \in AllPackets
  <2>1. <<n, k>> \in {n} \X (0..(Len(traffic[n]) - 1))
    BY <1>2, <1>4
  <2>2. QED
    BY <2>1 DEF AllPackets
<1>5. ASSUME NEW p \in AllPackets PROVE ItemOf(p) \in Items
  <2>1. p[1] \in Nodes /\ p[2] + 1 \in 1..Len(traffic[p[1]])
    BY <1>2, <1>3
  <2>2. QED
    BY <1>1, <2>1, ElementOfSeq DEF ItemOf
<1>6. \A n \in Nodes, k \in Nat : <<n, k>> \in AllPackets => k < Len(traffic[n])
  <2> TAKE n \in Nodes, k \in Nat
  <2>1. <<n, k>>[1] = n /\ <<n, k>>[2] = k
    OBVIOUS
  <2>2. QED
    BY <1>3, <2>1
<1>7. QED
  BY <1>1, <1>2, <1>3, <1>4, <1>5, <1>6

LEMMA OwnFacts ==
  ASSUME DeliveryType, NEW f, OwnFrame(f)
  PROVE  /\ f = [head |-> f.head, size |-> f.size, body |-> f.body]
         /\ f.head.flags \in 0..255
         /\ f.head.from \in Nodes /\ f.head.id \in Nat
         /\ f.head.id < Len(traffic[f.head.from])
         /\ f.head.to = ItemOf(PacketOf(f)).to
         /\ Peek(f).wantAck => ItemOf(PacketOf(f)).wantAck
         /\ ChannelFrame(f) \/ DirectFrame(f)
<1> DEFINE p == PacketOf(f)
           g == First(p).value
<1>1. p \in AllPackets /\ First(p).ok /\ Copy(f, g)
  BY DEF OwnFrame
<1>2. p[1] = f.head.from /\ p[2] = f.head.id
  BY DEF PacketOf
<1>3. /\ f.head.from \in Nodes /\ f.head.id \in Nat /\ ItemOf(p) \in Items
      /\ f.head.id < Len(traffic[f.head.from])
  BY <1>1, <1>2, TrafficFacts DEF PacketOf
<1>4. /\ g.head.to = ItemOf(p).to /\ (Peek(g).wantAck => ItemOf(p).wantAck)
      /\ ChannelFrame(g) \/ DirectFrame(g)
  <2>1. PICK n, id, item, r : n = p[1] /\ id = p[2] /\ item = ItemOf(p) /\ r = First(p)
    OBVIOUS
  <2>2. r = Encoded(n, id, item) /\ r.ok /\ item \in Items /\ g = r.value
    BY <1>1, <1>3, <2>1 DEF First
  <2>3. SentAs(r.value, n, id, item)
    BY ONLY <2>2, EncodedFrame
  <2>4. QED
    BY <2>1, <2>2, <2>3 DEF SentAs, Sent
<1> HIDE DEF p, g
<1>5. /\ f = [head |-> f.head, size |-> g.size, body |-> g.body]
      /\ f.head.flags \in 0..255
      /\ f.head.to = g.head.to /\ f.head.from = g.head.from
      /\ f.head.id = g.head.id /\ f.head.channel = g.head.channel
      /\ Peek(f).wantAck <=> Peek(g).wantAck
  BY <1>1 DEF Copy
<1>6. f.size = g.size /\ f.body = g.body
  BY <1>5
<1>7. ChannelFrame(f) \/ DirectFrame(f)
  <2>1. CASE ChannelFrame(g)
    BY <1>5, <1>6, <2>1 DEF ChannelFrame, Streamed
  <2>2. CASE DirectFrame(g)
    BY <1>5, <1>6, <2>2 DEF DirectFrame
  <2>3. QED
    BY <1>4, <2>1, <2>2
<1>8. QED
  BY <1>3, <1>4, <1>5, <1>6, <1>7 DEF p

\* The packet of a message is never that of an acknowledgement.
LEMMA AckFacts ==
  ASSUME DeliveryType, NEW f, AckFrame(f)
  PROVE  /\ f.head.from \in Nodes /\ f.head.id \in Nat
         /\ PacketOf(f) \notin AllPackets
         /\ Streamed(f, f.body.content)
         /\ f.body.content.kind = "Data" /\ f.body.content.portnum = ROUTING_APP
<1>1. /\ f.head.from \in Nodes /\ Len(traffic[f.head.from]) \in Nat /\ acks[f.head.from] \in Nat
      /\ f.head.id \in Len(traffic[f.head.from])..(Len(traffic[f.head.from])
                                                    + acks[f.head.from] - 1)
  BY TrafficFacts DEF AckFrame, DeliveryType
<1>2. f.head.id \in Nat /\ ~(f.head.id < Len(traffic[f.head.from]))
  BY <1>1
<1>3. PacketOf(f) \notin AllPackets
  BY <1>1, <1>2, TrafficFacts DEF PacketOf
<1> DEFINE d == Acknowledgement(f.body.content.requestId)
<1>4. Streamed(f, d)
  BY DEF AckFrame, Streamed
<1>5. f.body = [content |-> d, extra |-> 0,
                streams |-> {<<Key, Nonce(f.head.id, f.head.from, 0)>>}]
  BY <1>4, StreamedBody
<1>6. f.body.content = d
  BY <1>5
<1>7. d.kind = "Data" /\ d.portnum = ROUTING_APP
  BY DEF Acknowledgement, Data
<1>8. QED
  BY <1>1, <1>2, <1>3, <1>4, <1>6, <1>7

LEMMA Exclusive ==
  ASSUME DeliveryType, NEW f, OwnFrame(f), AckFrame(f)
  PROVE  FALSE
BY AckFacts DEF OwnFrame

\* What a node reads as a message is one, and the same for every copy.
LEMMA OwnOpens ==
  ASSUME DeliveryType, NEW f, OwnFrame(f), NEW n
  PROVE  /\ Opened(n, f) = Opened(n, First(PacketOf(f)).value)
         /\ Opened(n, f).ok => Opened(n, f).value.portnum # ROUTING_APP
         /\ ~Opened(n, f).ok /\ ForUs(n, f) =>
              hash = 0 /\ f.head.to = n /\ f.body.content.kind = "Data"
<1>1. Opened(n, f) = Opened(n, First(PacketOf(f)).value)
  BY CopyOpens DEF OwnFrame
<1>2. CASE ChannelFrame(f)
  <2>1. PICK d : Streamed(f, d) /\ d.kind = "Data" /\ IsMessage(d)
    BY <1>2 DEF ChannelFrame
  <2>2. /\ Opened(n, f).ok => Opened(n, f).value = d
        /\ ~Opened(n, f).ok => hash = 0 /\ ~IsBroadcast(f.head)
    BY <1>2, <2>1, ChannelOpens DEF ChannelFrame
  <2>3. f.body = [content |-> d, extra |-> 0,
                  streams |-> {<<Key, Nonce(f.head.id, f.head.from, 0)>>}]
    BY <2>1, StreamedBody
  <2>4. f.body.content = d
    BY <2>3
  <2>5. QED
    BY <1>1, <2>1, <2>2, <2>4 DEF IsMessage, ForUs
<1>3. CASE DirectFrame(f)
  <2>1. ForUs(n, f) => f.head.to = n
    BY <1>3, NodesAssumption DEF DirectFrame, ForUs, IsBroadcast
  <2>2. QED
    BY <1>1, <1>3, <2>1, DirectOpens DEF IsMessage
<1>4. QED
  BY <1>2, <1>3, OwnFacts

LEMMA AckOpens ==
  ASSUME DeliveryType, NEW f, AckFrame(f), NEW n
  PROVE  /\ Opened(n, f).ok => Opened(n, f).value = f.body.content
         /\ ~Opened(n, f).ok /\ ForUs(n, f) =>
              hash = 0 /\ f.head.to = n /\ f.body.content.kind = "Data"
<1>1. Streamed(f, f.body.content) /\ f.body.content.kind = "Data" /\ f.head.channel = hash
  BY AckFacts DEF AckFrame
<1>2. QED
  BY <1>1, ChannelOpens DEF ForUs

\* What is received as an acknowledgement is one, and what is received as a
\* message is the node's own.
LEMMA ReceivedAs ==
  ASSUME DeliveryType, AirOK, NEW f \in air, NEW n, Opened(n, f).ok
  PROVE  IF Opened(n, f).value.portnum = ROUTING_APP
         THEN AckFrame(f) /\ Opened(n, f).value = f.body.content
         ELSE OwnFrame(f)
BY OwnOpens, AckOpens, AckFacts DEF AirOK
----------------------------------------------------------------------------
(* Steps.                                                                    *)
LEMMA Unmoved ==
  ASSUME UNCHANGED fixed
  PROVE  /\ AllPackets' = AllPackets
         /\ \A p : ItemOf(p)' = ItemOf(p) /\ First(p)' = First(p)
         /\ \A f : OwnFrame(f)' <=> OwnFrame(f)
         /\ \A n, p : Opens(n, p)' <=> Opens(n, p)
<1>1. traffic' = traffic /\ hash' = hash
  BY DEF fixed
<1>2. AllPackets' = AllPackets
  BY <1>1 DEF AllPackets
<1>3. ASSUME NEW p PROVE ItemOf(p)' = ItemOf(p) /\ First(p)' = First(p)
  <2>1. ItemOf(p)' = ItemOf(p)
    BY <1>1 DEF ItemOf
  <2>2. QED
    BY <1>1, <2>1 DEF First, Encoded
<1>4. ASSUME NEW f PROVE OwnFrame(f)' <=> OwnFrame(f)
  BY <1>2, <1>3 DEF OwnFrame
<1>5. ASSUME NEW n, NEW p PROVE Opens(n, p)' <=> Opens(n, p)
  BY <1>3 DEF Opens
<1>6. QED
  BY <1>2, <1>3, <1>4, <1>5

\* Neither acknowledgements nor what those to the sender stand for are taken back.
NothingTakenBack ==
  \A n \in Nodes : /\ acks'[n] \in Nat /\ acks[n] <= acks'[n]
                   /\ n # Sender =>
                        \A p \in AllPackets : /\ processed'[n][p] \in Nat
                                              /\ processed[n][p] <= processed'[n][p]

LEMMA AckStays ==
  ASSUME DeliveryType, UNCHANGED fixed, NothingTakenBack, NEW f, AckFrame(f)
  PROVE  AckFrame(f)'
<1> DEFINE n == f.head.from
           p == Named(f)
<1>1. n \in Nodes /\ p \in AllPackets
  BY DEF AckFrame
<1>2. /\ Len(traffic[n]) \in Nat /\ acks[n] \in Nat /\ acks'[n] \in Nat /\ acks[n] <= acks'[n]
      /\ processed[n][p] \in Nat
      /\ n # Sender => processed'[n][p] \in Nat /\ processed[n][p] <= processed'[n][p]
  BY <1>1, TrafficFacts DEF DeliveryType, NothingTakenBack
<1>3. /\ f.head.id \in Len(traffic[n])..(Len(traffic[n]) + acks'[n] - 1)
      /\ n # Sender => processed'[n][p] > 0
  <2>1. f.head.id \in Len(traffic[n])..(Len(traffic[n]) + acks[n] - 1)
    BY DEF AckFrame
  <2>2. n # Sender => processed[n][p] > 0
    BY DEF AckFrame
  <2> HIDE DEF n, p
  <2>3. f.head.id \in Len(traffic[n])..(Len(traffic[n]) + acks'[n] - 1)
    BY <1>2, <2>1
  <2>4. n # Sender => processed'[n][p] > 0
    BY <1>2, <2>2
  <2>5. QED
    BY <2>3, <2>4
<1>4. p \in AllPackets' /\ ItemOf(p)' = ItemOf(p) /\ traffic' = traffic /\ hash' = hash
  BY <1>1, Unmoved DEF fixed
<1>5. QED
  BY <1>3, <1>4 DEF AckFrame

\* What comes on the air is a copy of a packet, or an acknowledgement that reads
\* as those of its identifier do.
LEMMA AirGrows ==
  ASSUME DeliveryType, AirOK, UNCHANGED fixed, NothingTakenBack, air \subseteq air',
         \A h, g \in air' : h \notin air /\ g \notin air => h = g,
         \A h \in air' : h \notin air =>
           \/ OwnFrame(h)
           \/ /\ AckFrame(h)'
              /\ \A g \in air : AckFrame(g) /\ PacketOf(g) = PacketOf(h) => g.body = h.body
  PROVE  AirOK'
<1>1. ASSUME NEW h \in air' PROVE OwnFrame(h)' \/ AckFrame(h)'
  <2>1. OwnFrame(h) \/ AckFrame(h) \/ AckFrame(h)'
    BY DEF AirOK
  <2>2. QED
    BY <2>1, AckStays, Unmoved
<1>2. ASSUME NEW g, AckFrame(g)' PROVE ~OwnFrame(g)
  <2>2. OwnFrame(g) => g.head.from \in Nodes /\ g.head.id \in Nat
                       /\ g.head.id < Len(traffic[g.head.from])
    BY OwnFacts
  <2>3. g.head.from \in Nodes /\ Len(traffic[g.head.from]) \in Nat
    BY <1>2, TrafficFacts DEF AckFrame
  <2>4. acks'[g.head.from] \in Nat
    BY <2>3 DEF NothingTakenBack
  <2>5. g.head.id \in Len(traffic[g.head.from])..(Len(traffic[g.head.from])
                                                     + acks'[g.head.from] - 1)
    BY <1>2 DEF AckFrame, fixed
  <2>6. QED
    BY <2>2, <2>3, <2>4, <2>5
<1>3. ASSUME NEW f \in air', NEW g \in air', AckFrame(f)', AckFrame(g)', PacketOf(f) = PacketOf(g)
      PROVE  f.body = g.body
  <2>1. ~OwnFrame(f) /\ ~OwnFrame(g)
    BY <1>2, <1>3
  <2>2. CASE f \in air /\ g \in air
    BY <1>3, <2>1, <2>2 DEF AirOK
  <2>3. CASE f \in air /\ g \notin air
    <3>1. AckFrame(f)
      BY <2>1, <2>3 DEF AirOK
    <3>2. QED
      BY <1>3, <2>1, <2>3, <3>1
  <2>4. CASE f \notin air /\ g \in air
    <3>1. AckFrame(g)
      BY <2>1, <2>4 DEF AirOK
    <3>2. QED
      BY <1>3, <2>1, <2>4, <3>1
  <2>5. CASE f \notin air /\ g \notin air
    BY <2>5
  <2>6. QED
    BY <2>2, <2>3, <2>4, <2>5
<1>4. QED
  BY <1>1, <1>3 DEF AirOK

\* A packet that is heard of and not processed is one the node cannot open.
LEMMA HeardOf ==
  ASSUME ReceivedOK, UNCHANGED fixed, processed' = processed, DeliveryType,
         \/ seen' = seen
         \/ \E n, p : Notes(seen, seen', n, p) /\ (p \in AllPackets => ~Opens(n, p))
  PROVE  ReceivedOK'
<1> SUFFICES ASSUME NEW n \in Nodes, NEW p \in AllPackets
             PROVE  /\ ItemOf(p).to \notin {n, BROADCAST_ADDR} => processed[n][p] = 0
                    /\ processed[n][p] > 0 => Witnessed(seen'[n], p, processed[n][p])
                    /\ Opens(n, p) /\ p \in Sighted(seen'[n]) => processed[n][p] > 0
  BY Unmoved DEF ReceivedOK
<1>1. CASE seen'[n] = seen[n]
  BY <1>1 DEF ReceivedOK
<1>2. CASE seen'[n] # seen[n]
  <2>1. PICK m, q : Notes(seen, seen', m, q) /\ (q \in AllPackets => ~Opens(m, q))
    BY <1>2
  <2>2. /\ \A l \in Nodes : l # m => seen'[l] = seen[l]
        /\ Extends(seen[m], seen'[m])
        /\ \A r \in Sighted(seen'[m]) : r \in Sighted(seen[m]) \/ r = q
    <3>1. PICK h, g : h = seen /\ g = seen'
      OBVIOUS
    <3>2. h \in Histories /\ Notes(h, g, m, q)
      BY <2>1, <3>1 DEF DeliveryType, Histories
    <3>3. /\ \A l \in Nodes : l # m => g[l] = h[l]
          /\ Extends(h[m], g[m])
          /\ \A r \in Sighted(g[m]) : r \in Sighted(h[m]) \/ r = q
      BY ONLY <3>2, NotesFacts
    <3>4. QED
      BY <3>1, <3>3
  <2>3. m = n
    BY <1>2, <2>2
  <2>4. processed[n][p] > 0 => Witnessed(seen'[n], p, processed[n][p])
    BY <2>2, <2>3, StillWitnessed DEF ReceivedOK
  <2>5. QED
    BY <2>1, <2>2, <2>3, <2>4 DEF ReceivedOK
<1>3. QED
  BY <1>1, <1>2

LEMMA AnswersKept ==
  ASSUME DeliveryType, AnswersOK, UNCHANGED <<fixed, answered, stage>>, NothingTakenBack
  PROVE  AnswersOK'
<1>1. ASSUME NEW p \in Packets, stage[p] = "acked"
      PROVE  processed'[ItemOf(p).to][p] > 0
  <2>1. PICK n : n = ItemOf(p).to
    OBVIOUS
  <2>2. p \in AllPackets /\ n \in Nodes \ {Sender} /\ processed[n][p] > 0
    BY <1>1, <2>1 DEF AnswersOK
  <2>3. /\ processed[n][p] \in Nat /\ processed'[n][p] \in Nat
        /\ processed[n][p] <= processed'[n][p]
    BY <2>2 DEF NothingTakenBack, DeliveryType
  <2>4. processed'[n][p] > 0
    BY <2>2, <2>3
  <2>5. QED
    BY <2>1, <2>4
<1>2. QED
  BY <1>1, Unmoved DEF AnswersOK

LEMMA PendingFacts ==
  ASSUME DeliveryType, NEW i \in PendingSlots
  PROVE  /\ i \in Slots /\ slots[i] = Pending(slots[i].packet, slots[i].attempts, slots[i].due)
         /\ slots[i].packet \in Packets /\ slots[i].attempts \in Nat /\ slots[i].due \in Nat
<1>1. i \in Slots /\ slots[i] \in {Free} \cup Entries /\ slots[i].state = "Pending"
  BY DEF DeliveryType, PendingSlots
<1>2. slots[i] \in Entries
  BY <1>1 DEF Free
<1>3. QED
  BY <1>1, <1>2 DEF Entries, Pending

LEMMA SentFrame ==
  ASSUME DeliveryType, NEW n \in Nodes, NEW k \in Nat, k < Len(traffic[n]),
         NEW r, r = Encoded(n, k, ItemOf(<<n, k>>)), r.ok
  PROVE  OwnFrame(r.value) /\ PacketOf(r.value) = <<n, k>>
<1> DEFINE p == <<n, k>>
           f == r.value
<1>1. p \in AllPackets /\ ItemOf(p) \in Items /\ p[1] = n /\ p[2] = k
  BY TrafficFacts
<1>2. r = First(p)
  BY <1>1 DEF First
<1>3. PICK item : item = ItemOf(p)
  OBVIOUS
<1>4. SentAs(f, n, k, item)
  BY <1>1, <1>3, EncodedFrame
<1>5. PacketOf(f) = p
  BY <1>4 DEF SentAs, Sent, PacketOf
<1>6. Copy(f, f)
  BY <1>4 DEF SentAs, Sent, Copy
<1>7. QED
  BY <1>1, <1>2, <1>5, <1>6 DEF OwnFrame

LEMMA OriginateStep ==
  ASSUME IInv, NEW n \in Nodes, Originate(n)
  PROVE  IInv'
<1> DEFINE k == issued[n]
           p == <<n, k>>
           r == Encoded(n, k, ItemOf(p))
           f == r.value
<1> USE DEF IInv
<1>1. k \in Nat /\ Len(traffic[n]) \in Nat /\ k < Len(traffic[n])
      /\ p \in AllPackets /\ p \in Nodes \X Nat /\ p[1] = n /\ p[2] = k
  BY TrafficFacts DEF DeliveryType, Originate
<1>2. /\ UNCHANGED <<fixed, acks, slots, duty, short, restarts, ghosts>>
      /\ issued' = [issued EXCEPT ![n] = k + 1]
      /\ IF r.ok THEN air' = air \cup {f} /\ seen' = [seen EXCEPT ![n] = Noted(seen[n], PacketOf(f))]
                 ELSE UNCHANGED <<air, seen>>
      /\ IF n = Sender
         THEN /\ stage' = [stage EXCEPT ![p] = IF r.ok THEN "sent" ELSE "refused"]
              /\ sent' = [sent EXCEPT ![p] = Bit(r.ok)]
         ELSE UNCHANGED <<stage, sent>>
  BY DEF Originate, Transmitted
<1>3. r.ok => OwnFrame(f) /\ PacketOf(f) = p
  BY <1>1, SentFrame
<1> HIDE DEF r, f
<1>4. /\ traffic' = traffic /\ acks' = acks /\ slots' = slots /\ short' = short
      /\ restarts' = restarts /\ processed' = processed /\ dropped' = dropped
      /\ answered' = answered /\ UNCHANGED fixed /\ hash' = hash
  BY <1>2 DEF fixed, ghosts
<1>5. NothingTakenBack
  BY <1>4 DEF NothingTakenBack, DeliveryType
<1>6. seen' = seen \/ Notes(seen, seen', n, p)
  BY <1>1, <1>2, <1>3 DEF Notes
<1>7. DeliveryType'
  <2>1. issued' \in [Nodes -> Nat]
    BY <1>1, <1>2 DEF DeliveryType
  <2>2. seen' \in [Nodes -> Seq(Nodes \X Nat)]
    BY <1>6, NotesFacts DEF DeliveryType, Histories
  <2>3. stage' \in [Packets -> Stages] /\ sent' \in [Packets -> Nat]
    <3>1. /\ stage' = stage \/ \E new \in Stages : stage' = [stage EXCEPT ![p] = new]
          /\ sent' = sent \/ \E new \in Nat : sent' = [sent EXCEPT ![p] = new]
      BY <1>2 DEF Stages, Bit
    <3> HIDE DEF p
    <3>2. QED
      BY <3>1 DEF DeliveryType
  <2>4. air \subseteq air'
    BY <1>2
  <2>5. QED
    BY <1>4, <2>1, <2>2, <2>3, <2>4, Unmoved DEF DeliveryType, Entries, Slots
<1>8. AirOK'
  BY <1>2, <1>3, <1>4, <1>5, AirGrows
<1>9. ReceivedOK'
  <2>1. ~Opens(n, p)
    BY <1>1 DEF Opens
  <2>2. QED
    BY <1>4, <1>6, <2>1, HeardOf
<1>10. CASE n # Sender
  <2>1. stage' = stage /\ sent' = sent /\ issued'[Sender] = issued[Sender]
    BY <1>2, <1>10, NodesAssumption DEF DeliveryType
  <2>2. OutboxOK'
    BY <1>4, <2>1 DEF OutboxOK, PendingSlots, Slots
  <2>3. AnswersOK'
    BY <1>4, <1>5, <2>1, AnswersKept
  <2>4. QED
    BY <1>4, <1>7, <1>8, <1>9, <2>2, <2>3 DEF OnlyZeroHashIsMisread
<1>11. CASE n = Sender
  <2>1. /\ \A q \in Packets : q # p => stage'[q] = stage[q] /\ sent'[q] = sent[q]
        /\ p \in Packets => /\ stage[p] = "fresh" /\ short[p] = 0
                            /\ stage'[p] \in {"sent", "refused"}
                            /\ stage'[p] = "sent" => sent'[p] = 1
    BY <1>1, <1>2, <1>11 DEF DeliveryType, OutboxOK, Bit
  <2>2. \A q \in Packets : q[2] >= k + 1 => q # p /\ q[2] >= k
    BY <1>1, PacketsAssumption
  <2>3. issued'[Sender] = k + 1 /\ issued[Sender] = k
    BY <1>2, <1>11 DEF DeliveryType
  <2>4. OutboxOK'
    <3>1. \A i \in PendingSlots : slots[i].packet \in Packets /\ slots[i].packet # p
      BY <2>1, PendingFacts DEF OutboxOK
    <3>2. PendingSlots' = PendingSlots
      BY <1>4 DEF PendingSlots, Slots
    <3>3. QED
      BY <1>4, <2>1, <2>2, <2>3, <3>1, <3>2 DEF OutboxOK
  <2>5. AnswersOK'
    BY <1>4, <2>1, Unmoved DEF AnswersOK, DeliveryType
  <2>6. QED
    BY <1>4, <1>7, <1>8, <1>9, <2>4, <2>5 DEF OnlyZeroHashIsMisread
<1>12. QED
  BY <1>10, <1>11

\* Steps of the outbox alone, none of which retires a packet as answered.
LEMMA OutboxSteps ==
  ASSUME IInv, UNCHANGED <<fixed, air, seen, issued, acks, restarts, ghosts>>,
         slots' \in [Slots -> {Free} \cup Entries], stage' \in [Packets -> Stages],
         sent' \in [Packets -> Nat], short' \in [Packets -> Nat],
         \A p \in Packets : stage'[p] = "acked" <=> stage[p] = "acked",
         OutboxOK'
  PROVE  IInv'
<1> USE DEF IInv
<1>1. /\ traffic' = traffic /\ hash' = hash /\ air' = air /\ seen' = seen /\ issued' = issued
      /\ acks' = acks /\ restarts' = restarts /\ processed' = processed /\ dropped' = dropped
      /\ answered' = answered /\ UNCHANGED fixed
  BY DEF fixed, ghosts
<1>2. NothingTakenBack
  BY <1>1 DEF NothingTakenBack, DeliveryType
<1>3. DeliveryType'
  BY <1>1, Unmoved DEF DeliveryType, Entries, Slots
<1>4. AirOK'
  BY <1>1, <1>2, AirGrows
<1>5. ReceivedOK'
  BY <1>1, HeardOf
<1>6. AnswersOK'
  BY <1>1, Unmoved DEF AnswersOK, DeliveryType
<1>7. OnlyZeroHashIsMisread'
  BY <1>1 DEF OnlyZeroHashIsMisread
<1>8. QED
  BY <1>3, <1>4, <1>5, <1>6, <1>7

LEMMA TrackStep ==
  ASSUME IInv, NEW p \in Packets, Track(p)
  PROVE  IInv'
<1> USE DEF IInv
<1>1. /\ UNCHANGED <<fixed, air, seen, issued, acks, restarts, ghosts>>
      /\ sent' = sent /\ short' = short /\ stage[p] = "sent"
      /\ issued' = issued
  BY DEF Track
<1>2. sent[p] = 1 /\ short[p] = 0
  BY <1>1 DEF OutboxOK
<1>3. ASSUME NEW i \in PendingSlots
      PROVE  slots[i].packet \in Packets /\ slots[i].packet # p
  BY <1>1, PendingFacts DEF OutboxOK
<1>4. CASE TrackOk(p, 0) /\ stage' = [stage EXCEPT ![p] = "pending"]
  <2>1. PICK i \in Slots : /\ slots[i].state = "Free"
                           /\ slots' = [slots EXCEPT ![i] = Pending(p, 1, Interval)]
    <3>1. 0 + Interval = Interval
      BY PolicyAssumption
    <3>2. QED
      BY <1>4, <3>1 DEF TrackOk, IsFirst, FreeSlots
  <2> DEFINE entry == Pending(p, 1, Interval)
  <2>2. entry \in Entries /\ entry.state = "Pending" /\ entry.packet = p /\ entry.attempts = 1
    BY PolicyAssumption DEF Pending, Entries
  <2> HIDE DEF entry
  <2>3. slots' \in [Slots -> {Free} \cup Entries] /\ stage' \in [Packets -> Stages]
    BY <1>4, <2>1, <2>2 DEF DeliveryType, Stages, entry
  <2>4. /\ slots'[i] = entry /\ \A j \in Slots : j # i => slots'[j] = slots[j]
        /\ stage'[p] = "pending" /\ \A q \in Packets : q # p => stage'[q] = stage[q]
    BY <1>4, <2>1 DEF DeliveryType, entry
  <2>5. ASSUME NEW j \in PendingSlots'
        PROVE  j = i \/ (j # i /\ j \in PendingSlots /\ slots'[j] = slots[j])
    BY <2>4 DEF PendingSlots, Slots
  <2>6. OutboxOK'
    <3>1. \A j \in PendingSlots' :
            /\ stage'[slots'[j].packet] = "pending"
            /\ slots'[j].attempts = sent[slots'[j].packet] + short[slots'[j].packet]
            /\ slots'[j].attempts <= MaxAttempts
      BY <1>2, <1>3, <2>2, <2>4, <2>5, AttemptsAssumption DEF OutboxOK
    <3>2. \A j, k \in PendingSlots' : slots'[j].packet = slots'[k].packet => j = k
      BY <1>3, <2>2, <2>4, <2>5 DEF OutboxOK
    <3>3. \A q \in Packets :
            /\ stage'[q] = "sent" => sent[q] = 1 /\ short[q] = 0
            /\ stage'[q] = "fresh" => short[q] = 0
            /\ q[2] >= issued[Sender] => stage'[q] = "fresh"
            /\ stage'[q] = "gaveUp" => sent[q] + short[q] = MaxAttempts
      BY <1>1, <2>4 DEF OutboxOK
    <3>4. QED
      BY <1>1, <3>1, <3>2, <3>3 DEF OutboxOK
  <2>7. \A q \in Packets : stage'[q] = "acked" <=> stage[q] = "acked"
    BY <1>1, <2>4
  <2>8. QED
    BY <1>1, <2>3, <2>6, <2>7, OutboxSteps DEF DeliveryType
<1>5. CASE slots' = slots /\ stage' = [stage EXCEPT ![p] = "untracked"]
  <2>1. stage'[p] = "untracked" /\ \A q \in Packets : q # p => stage'[q] = stage[q]
    BY <1>5 DEF DeliveryType
  <2>2. PendingSlots' = PendingSlots
    BY <1>5 DEF PendingSlots, Slots
  <2>3. OutboxOK'
    BY <1>1, <1>3, <1>5, <2>1, <2>2 DEF OutboxOK
  <2>4. stage' \in [Packets -> Stages]
    BY <1>5 DEF DeliveryType, Stages
  <2>5. \A q \in Packets : stage'[q] = "acked" <=> stage[q] = "acked"
    BY <1>1, <2>1
  <2>6. QED
    BY <1>1, <1>5, <2>3, <2>4, <2>5, OutboxSteps DEF DeliveryType
<1>6. QED
  BY <1>4, <1>5 DEF Track, TrackRefused

\* An attempt is taken for a slot, and either the packet is transmitted or the
\* buffer was too short for it.
LEMMA AttemptStep ==
  ASSUME IInv, Poll \/ PollShort
  PROVE  IInv'
<1> USE DEF IInv
<1>1. PICK i \in Slots :
        /\ NextDue(i, 0, 0)
        /\ \/ sent' = [sent EXCEPT ![slots[i].packet] = @ + 1] /\ short' = short
           \/ short' = [short EXCEPT ![slots[i].packet] = @ + 1] /\ sent' = sent
  BY DEF Poll, PollShort
<1>2. /\ UNCHANGED <<fixed, air, seen, issued, acks, restarts, ghosts>>
      /\ stage' = stage /\ issued' = issued
  BY DEF Poll, PollShort
<1> DEFINE p == slots[i].packet
           k == slots[i].attempts
           entry == Pending(p, k + 1, Interval)
<1>3. /\ i \in PendingSlots /\ k < MaxAttempts
      /\ slots' = [slots EXCEPT ![i] = entry]
  <2>1. 0 + Interval = Interval
    BY PolicyAssumption
  <2>2. QED
    BY <1>1, <2>1 DEF NextDue, IsFirst, Due
<1>4. p \in Packets /\ k \in Nat /\ k + 1 \in Nat
  BY <1>3, PendingFacts
<1>5. entry \in Entries /\ entry.state = "Pending" /\ entry.packet = p /\ entry.attempts = k + 1
  BY <1>4, PolicyAssumption DEF Pending, Entries
<1>6. /\ stage[p] = "pending" /\ k = sent[p] + short[p]
      /\ \A j \in PendingSlots : slots[j].packet = p => i = j
  BY <1>3 DEF OutboxOK
<1>7. /\ sent[p] \in Nat /\ short[p] \in Nat /\ MaxAttempts \in Nat
  BY <1>4, AttemptsAssumption DEF DeliveryType
<1> HIDE DEF p, k, entry
<1>8. /\ slots'[i] = entry /\ \A j \in Slots : j # i => slots'[j] = slots[j]
      /\ slots' \in [Slots -> {Free} \cup Entries]
  BY <1>3, <1>5 DEF DeliveryType
<1>9. /\ sent' \in [Packets -> Nat] /\ short' \in [Packets -> Nat]
      /\ sent'[p] + short'[p] = k + 1
      /\ \A q \in Packets : q # p => sent'[q] = sent[q] /\ short'[q] = short[q]
  <2>1. \/ sent' = [sent EXCEPT ![p] = sent[p] + 1] /\ short' = short
        \/ short' = [short EXCEPT ![p] = short[p] + 1] /\ sent' = sent
    BY <1>1 DEF p
  <2>2. /\ sent \in [Packets -> Nat] /\ short \in [Packets -> Nat]
        /\ sent[p] + 1 \in Nat /\ short[p] + 1 \in Nat
    BY <1>7 DEF DeliveryType
  <2>3. CASE sent' = [sent EXCEPT ![p] = sent[p] + 1] /\ short' = short
    BY <1>4, <1>6, <1>7, <2>2, <2>3
  <2>4. CASE short' = [short EXCEPT ![p] = short[p] + 1] /\ sent' = sent
    BY <1>4, <1>6, <1>7, <2>2, <2>4
  <2>5. QED
    BY <2>1, <2>3, <2>4
<1>10. PendingSlots' = PendingSlots
  BY <1>3, <1>5, <1>8 DEF PendingSlots, Slots
<1>11. ASSUME NEW j \in PendingSlots, j # i
       PROVE  slots'[j] = slots[j] /\ slots[j].packet \in Packets /\ slots[j].packet # p
  BY <1>6, <1>8, <1>11, PendingFacts DEF PendingSlots
<1>12. OutboxOK'
  <2>1. ASSUME NEW j \in PendingSlots
        PROVE  /\ stage[slots'[j].packet] = "pending"
               /\ slots'[j].attempts = sent'[slots'[j].packet] + short'[slots'[j].packet]
               /\ slots'[j].attempts <= MaxAttempts
    <3>1. CASE j = i
      BY <1>3, <1>4, <1>5, <1>6, <1>7, <1>8, <1>9, <3>1 DEF k
    <3>2. CASE j # i
      BY <1>9, <1>11, <3>2 DEF OutboxOK
    <3>3. QED
      BY <3>1, <3>2
  <2>2. \A j, l \in PendingSlots : slots'[j].packet = slots'[l].packet => j = l
    BY <1>5, <1>8, <1>11 DEF OutboxOK
  <2>3. \A q \in Packets :
          /\ stage[q] = "sent" => sent'[q] = 1 /\ short'[q] = 0
          /\ stage[q] = "fresh" => short'[q] = 0
          /\ q[2] >= issued[Sender] => stage[q] = "fresh"
          /\ stage[q] = "gaveUp" => sent'[q] + short'[q] = MaxAttempts
    BY <1>6, <1>9 DEF OutboxOK
  <2>4. QED
    BY <1>2, <1>10, <2>1, <2>2, <2>3 DEF OutboxOK
<1>13. QED
  BY <1>2, <1>8, <1>9, <1>12, OutboxSteps DEF DeliveryType

LEMMA GiveUpStep ==
  ASSUME IInv, GiveUp
  PROVE  IInv'
<1> USE DEF IInv
<1>1. PICK i \in Slots : Reap(i, 0) /\ stage' = [stage EXCEPT ![slots[i].packet] = "gaveUp"]
  BY DEF GiveUp
<1>2. /\ UNCHANGED <<fixed, air, seen, issued, acks, restarts, ghosts>>
      /\ sent' = sent /\ short' = short /\ issued' = issued
  BY DEF GiveUp
<1> DEFINE p == slots[i].packet
<1>3. /\ i \in PendingSlots /\ slots[i].attempts >= MaxAttempts
      /\ slots' = [slots EXCEPT ![i] = Free]
  BY <1>1 DEF Reap, IsFirst, Spent
<1>4. p \in Packets /\ slots[i].attempts \in Nat
  BY <1>3, PendingFacts
<1>5. /\ stage[p] = "pending" /\ slots[i].attempts = sent[p] + short[p]
      /\ slots[i].attempts <= MaxAttempts
      /\ \A j \in PendingSlots : slots[j].packet = p => i = j
  BY <1>3 DEF OutboxOK
<1>6. sent[p] + short[p] = MaxAttempts
  BY <1>3, <1>4, <1>5, AttemptsAssumption
<1> HIDE DEF p
<1>7. /\ slots'[i] = Free /\ \A j \in Slots : j # i => slots'[j] = slots[j]
      /\ slots' \in [Slots -> {Free} \cup Entries]
      /\ stage' \in [Packets -> Stages]
      /\ stage'[p] = "gaveUp" /\ \A q \in Packets : q # p => stage'[q] = stage[q]
  BY <1>1, <1>3, <1>4 DEF DeliveryType, Stages, p
<1>8. ASSUME NEW j \in PendingSlots'
      PROVE  /\ j \in PendingSlots /\ j # i /\ slots'[j] = slots[j]
             /\ slots[j].packet \in Packets /\ slots[j].packet # p
  <2>1. j \in PendingSlots /\ j # i /\ slots'[j] = slots[j]
    BY <1>7 DEF PendingSlots, Slots, Free
  <2>2. QED
    BY <1>5, <2>1, PendingFacts
<1>9. OutboxOK'
  <2>1. \A j \in PendingSlots' :
          /\ stage'[slots'[j].packet] = "pending"
          /\ slots'[j].attempts = sent[slots'[j].packet] + short[slots'[j].packet]
          /\ slots'[j].attempts <= MaxAttempts
    BY <1>7, <1>8 DEF OutboxOK
  <2>2. \A j, k \in PendingSlots' : slots'[j].packet = slots'[k].packet => j = k
    BY <1>8 DEF OutboxOK
  <2>3. \A q \in Packets :
          /\ stage'[q] = "sent" => sent[q] = 1 /\ short[q] = 0
          /\ stage'[q] = "fresh" => short[q] = 0
          /\ q[2] >= issued[Sender] => stage'[q] = "fresh"
          /\ stage'[q] = "gaveUp" => sent[q] + short[q] = MaxAttempts
    BY <1>5, <1>6, <1>7 DEF OutboxOK
  <2>4. QED
    BY <1>2, <2>1, <2>2, <2>3 DEF OutboxOK
<1>10. \A q \in Packets : stage'[q] = "acked" <=> stage[q] = "acked"
  BY <1>5, <1>7
<1>11. QED
  BY <1>2, <1>7, <1>9, <1>10, OutboxSteps DEF DeliveryType

\* A restart forgets the outbox, what was heard and what was processed.
LEMMA RestartStep ==
  ASSUME IInv, Restart
  PROVE  IInv'
<1> USE DEF IInv
<1>1. /\ UNCHANGED fixed /\ air' = air /\ issued' = issued /\ acks' = acks
      /\ traffic' = traffic /\ hash' = hash
      /\ sent' = sent /\ short' = short /\ restarts' = restarts + 1
      /\ dropped' = dropped /\ answered' = answered
      /\ processed' = [processed EXCEPT ![Sender] = [p \in AllPackets |-> 0]]
      /\ slots' = [i \in Slots |-> Free]
      /\ stage' = [p \in Packets |-> IF stage[p] \in {"sent", "pending"} THEN "forgotten"
                                                                        ELSE stage[p]]
      /\ seen' = [seen EXCEPT ![Sender] = <<>>]
  BY DEF Restart, fixed
<1>2. /\ processed'[Sender] = [p \in AllPackets |-> 0] /\ seen'[Sender] = <<>>
       /\ \A n \in Nodes : n # Sender => processed'[n] = processed[n] /\ seen'[n] = seen[n]
  BY <1>1, NodesAssumption DEF DeliveryType
<1>3. NothingTakenBack
  BY <1>1, <1>2 DEF NothingTakenBack, DeliveryType
<1>4. restarts \in Nat /\ restarts' \in Nat
  BY <1>1 DEF DeliveryType
<1>5. DeliveryType'
  <2>1. stage' \in [Packets -> Stages]
    BY <1>1 DEF DeliveryType, Stages
  <2>2. seen' \in [Nodes -> Seq(Nodes \X Nat)]
    <3>1. PICK H : H = Seq(Nodes \X Nat)
      OBVIOUS
    <3>2. <<>> \in H /\ seen \in [Nodes -> H]
      BY <3>1, EmptySeq DEF DeliveryType
    <3>3. seen' \in [Nodes -> H]
      BY <1>1, <3>2
    <3>4. QED
      BY <3>1, <3>3
  <2>3. slots' \in [Slots -> {Free} \cup Entries]
    BY <1>1
  <2>4. processed' \in [Nodes -> [AllPackets -> Nat]]
    BY <1>1 DEF DeliveryType
  <2>5. QED
    BY <1>1, <1>4, <2>1, <2>2, <2>3, <2>4, Unmoved DEF DeliveryType, Entries, Slots
<1>6. AirOK'
  BY <1>1, <1>3, AirGrows
<1>7. ReceivedOK'
  <2> SUFFICES ASSUME NEW n \in Nodes, NEW p \in AllPackets
               PROVE  /\ ItemOf(p).to \notin {n, BROADCAST_ADDR} => processed'[n][p] = 0
                      /\ processed'[n][p] > 0 => Witnessed(seen'[n], p, processed'[n][p])
                      /\ Opens(n, p) /\ p \in Sighted(seen'[n]) => processed'[n][p] > 0
    BY <1>1, Unmoved DEF ReceivedOK
  <2>1. CASE n = Sender
    <3>1. processed'[n][p] = 0
      BY <1>2, <2>1
    <3>2. Sighted(seen'[n]) = {}
      BY <1>2, <2>1 DEF Sighted
    <3>3. QED
      BY <3>1, <3>2
  <2>2. CASE n # Sender
    BY <1>2, <2>2 DEF ReceivedOK
  <2>3. QED
    BY <2>1, <2>2
<1>8. OutboxOK'
  <2>1. PendingSlots' = {}
    BY <1>1 DEF PendingSlots, Free, Slots
  <2>2. QED
    BY <1>1, <2>1 DEF OutboxOK
<1>9. AnswersOK'
  <2>1. \A p \in Packets : stage'[p] = "acked" <=> stage[p] = "acked"
    BY <1>1
  <2>2. \A p \in Packets : stage[p] = "acked" => processed'[ItemOf(p).to][p] > 0
    BY <1>2 DEF AnswersOK
  <2>3. QED
    BY <1>1, <2>1, <2>2, Unmoved DEF AnswersOK, DeliveryType
<1>10. OnlyZeroHashIsMisread'
  BY <1>1 DEF OnlyZeroHashIsMisread
<1>11. QED
  BY <1>5, <1>6, <1>7, <1>8, <1>9, <1>10

\* What the outbox and its packets are is left alone, and what is processed or
\* acknowledged is not taken back.
LEMMA OutboxKept ==
  ASSUME DeliveryType, OutboxOK, AnswersOK, UNCHANGED <<fixed, issued, sender, answered>>,
         NothingTakenBack
  PROVE  OutboxOK' /\ AnswersOK'
<1>1. /\ slots' = slots /\ stage' = stage /\ sent' = sent /\ short' = short
      /\ issued' = issued /\ UNCHANGED <<fixed, answered, stage>>
  BY DEF sender
<1>2. OutboxOK'
  BY <1>1 DEF OutboxOK, PendingSlots, Slots
<1>3. QED
  BY <1>1, <1>2, AnswersKept

LEMMA RelayStep ==
  ASSUME IInv, NEW n \in Relays, NEW f \in air, Relay(n, f)
  PROVE  IInv'
<1> DEFINE g == RelayedBy(f, n).value
<1> USE DEF IInv
<1>1. /\ UNCHANGED <<fixed, issued, sender, answered>> /\ air' = air \cup {g}
      /\ seen' = seen /\ acks' = acks /\ restarts' = restarts
      /\ slots' = slots /\ stage' = stage /\ sent' = sent /\ short' = short /\ issued' = issued
      /\ traffic' = traffic /\ hash' = hash
      /\ processed' = processed /\ dropped' = dropped /\ answered' = answered
      /\ RelayedBy(f, n).ok
  BY DEF Relay, fixed, ghosts, sender
<1>2. NothingTakenBack
  BY <1>1 DEF NothingTakenBack, DeliveryType
<1>3. DeliveryType'
  BY <1>1, Unmoved DEF DeliveryType, Entries, Slots
<1>4. f = [head |-> f.head, size |-> f.size, body |-> f.body] /\ f.head.flags \in 0..255
  BY OwnFacts DEF AirOK, AckFrame
<1>5. Copy(g, f)
  BY <1>1, <1>4, RelayedFrame
<1> HIDE DEF g
<1>6. /\ PacketOf(g) = PacketOf(f) /\ g.body = f.body /\ g.size = f.size
      /\ g = [head |-> g.head, size |-> g.size, body |-> g.body]
      /\ g.head.flags \in 0..255
      /\ g.head.to = f.head.to /\ g.head.from = f.head.from
      /\ g.head.id = f.head.id /\ g.head.channel = f.head.channel
      /\ Peek(g).wantAck <=> Peek(f).wantAck
  <2>1. /\ g = [head |-> g.head, size |-> f.size, body |-> f.body]
        /\ g.head.to = f.head.to /\ g.head.from = f.head.from
        /\ g.head.id = f.head.id /\ g.head.channel = f.head.channel
        /\ g.head.flags \in 0..255 /\ (Peek(g).wantAck <=> Peek(f).wantAck)
    BY <1>5 DEF Copy
  <2>2. g.size = f.size /\ g.body = f.body
    BY <2>1
  <2>3. QED
    BY <2>1, <2>2 DEF PacketOf
<1>7. OwnFrame(f) => OwnFrame(g)
  <2>1. SUFFICES ASSUME OwnFrame(f) PROVE Copy(g, First(PacketOf(f)).value)
    BY <1>6 DEF OwnFrame
  <2>2. Copy(f, First(PacketOf(f)).value)
    BY <2>1 DEF OwnFrame
  <2>3. PICK first : first = First(PacketOf(f)).value
    OBVIOUS
  <2>4. /\ f = [head |-> f.head, size |-> first.size, body |-> first.body]
        /\ f.head.to = first.head.to /\ f.head.from = first.head.from
        /\ f.head.id = first.head.id /\ f.head.channel = first.head.channel
        /\ Peek(f).wantAck <=> Peek(first).wantAck
    BY <2>2, <2>3 DEF Copy
  <2>5. f.size = first.size /\ f.body = first.body
    BY <2>4
  <2>6. g = [head |-> g.head, size |-> first.size, body |-> first.body]
    BY <1>6, <2>5
  <2>7. Copy(g, first)
    BY <1>6, <2>4, <2>6 DEF Copy
  <2>8. QED
    BY <2>3, <2>7
<1>8. AckFrame(f) => AckFrame(g)
  BY <1>6 DEF AckFrame, Named
<1>9. AirOK'
  <2>1. OwnFrame(g) \/ AckFrame(g)
    BY <1>7, <1>8 DEF AirOK
  <2>2. AckFrame(g) =>
          \A h \in air : AckFrame(h) /\ PacketOf(h) = PacketOf(g) => h.body = g.body
    <3>1. SUFFICES ASSUME AckFrame(g) PROVE AckFrame(f)
      BY <1>6 DEF AirOK
    <3>2. ~OwnFrame(g)
      BY <3>1, Exclusive
    <3>3. QED
      BY <1>7, <3>2 DEF AirOK
  <2>3. AckFrame(g) => AckFrame(g)'
    BY <1>1, <1>2, AckStays
  <2>4. QED
    BY <1>1, <1>2, <2>1, <2>2, <2>3, AirGrows
<1>10. ReceivedOK'
  BY <1>1, HeardOf
<1>11. OutboxOK' /\ AnswersOK'
  BY <1>1, <1>2, OutboxKept
<1>12. OnlyZeroHashIsMisread'
  BY <1>1 DEF OnlyZeroHashIsMisread
<1>13. QED
  BY <1>3, <1>9, <1>10, <1>11, <1>12

LEMMA UndecodableStep ==
  ASSUME IInv, NEW n \in Nodes, NEW f \in air, Undecodable(n, f)
  PROVE  IInv'
<1> USE DEF IInv
<1>1. /\ UNCHANGED <<fixed, issued, sender, answered>> /\ air' = air
      /\ acks' = acks /\ restarts' = restarts
      /\ slots' = slots /\ stage' = stage /\ sent' = sent /\ short' = short /\ issued' = issued
      /\ traffic' = traffic /\ hash' = hash
      /\ processed' = processed /\ answered' = answered
      /\ ~Opened(n, f).ok
      /\ seen' = [seen EXCEPT ![n] = Noted(seen[n], PacketOf(f))]
      /\ \/ dropped' = dropped
         \/ ForUs(n, f) /\ dropped' = [dropped EXCEPT ![n] = @ \cup {f}]
  <2>1. /\ ~Opened(n, f).ok
        /\ seen' = [seen EXCEPT ![n] = Noted(seen[n], PacketOf(f))]
        /\ dropped' = IF ForUs(n, f) THEN [dropped EXCEPT ![n] = @ \cup {f}] ELSE dropped
        /\ UNCHANGED <<fixed, air, issued, acks, sender, restarts, processed, answered>>
    BY DEF Undecodable, Heard
  <2>2. \/ dropped' = dropped
        \/ ForUs(n, f) /\ dropped' = [dropped EXCEPT ![n] = @ \cup {f}]
    BY <2>1
  <2>3. QED
    BY <2>1, <2>2 DEF fixed, sender
<1>2. NothingTakenBack
  BY <1>1 DEF NothingTakenBack, DeliveryType
<1>3. OwnFrame(f) \/ AckFrame(f)
  BY DEF AirOK
<1>4. PICK p : p = PacketOf(f)
  OBVIOUS
<1>5. p \in Nodes \X Nat
  BY <1>3, <1>4, OwnFacts, AckFacts DEF PacketOf
<1>6. Notes(seen, seen', n, p)
  BY <1>1, <1>4, <1>5 DEF Notes
<1>7. DeliveryType'
  <2>1. seen' \in [Nodes -> Seq(Nodes \X Nat)]
    BY <1>6, NotesFacts DEF DeliveryType, Histories
  <2>2. dropped' \in [Nodes -> SUBSET air]
    BY <1>1 DEF DeliveryType
  <2>3. QED
    BY <1>1, <2>1, <2>2, Unmoved DEF DeliveryType, Entries, Slots
<1>8. AirOK'
  BY <1>1, <1>2, AirGrows
<1>9. ReceivedOK'
  <2>1. p \in AllPackets => ~Opens(n, p)
    BY <1>1, <1>3, <1>4, AckFacts, OwnOpens DEF Opens
  <2>2. QED
    BY <1>1, <1>6, <2>1, HeardOf
<1>10. OutboxOK' /\ AnswersOK'
  BY <1>1, <1>2, OutboxKept
<1>11. OnlyZeroHashIsMisread'
  <2>1. ForUs(n, f) => hash = 0 /\ f.head.to = n /\ f.body.content.kind = "Data"
    BY <1>1, <1>3, OwnOpens, AckOpens
  <2>2. ASSUME NEW m \in Nodes, NEW g \in dropped'[m]
        PROVE  g \in dropped[m] \/ (m = n /\ g = f /\ ForUs(n, f))
    BY <1>1 DEF DeliveryType
  <2>3. QED
    BY <1>1, <2>1, <2>2 DEF OnlyZeroHashIsMisread
<1>12. QED
  BY <1>7, <1>8, <1>9, <1>10, <1>11

\* An acknowledgement retires the packet it names, if that waits for one.
LEMMA AnswerStep ==
  ASSUME IInv, NEW n \in Nodes, NEW f \in air, f.head.from # n, Answer(n, f)
  PROVE  IInv'
<1> USE DEF IInv
<1> DEFINE d == f.body.content
           p == <<Sender, d.requestId>>
           ours == n = Sender /\ f.head.to = n
           retired == Matching(d.requestId)
<1>1. AckFrame(f) /\ Opened(n, f).value = d /\ d.portnum = ROUTING_APP
  BY ReceivedAs DEF Answer
<1>2. ~WantsAcknowledgement(f, n)
  BY <1>1 DEF AckFrame, WantsAcknowledgement
<1>3. /\ UNCHANGED <<fixed, issued, sent, short, restarts, processed, dropped>>
      /\ air' = air /\ acks' = acks
      /\ seen' = [seen EXCEPT ![n] = Noted(seen[n], PacketOf(f))]
      /\ answered' = IF ours /\ Tracking(p) THEN answered \cup {p} ELSE answered
      /\ IF ours /\ Acknowledges(d)
         THEN /\ Acknowledge(d.requestId)
              /\ stage' = [q \in Packets |->
                             IF \E i \in retired : slots[i].packet = q THEN "acked" ELSE stage[q]]
         ELSE slots' = slots /\ stage' = stage
  BY <1>1, <1>2 DEF Answer, Replied, Heard
<1>4. /\ issued' = issued /\ sent' = sent /\ short' = short /\ restarts' = restarts
      /\ processed' = processed /\ dropped' = dropped
      /\ traffic' = traffic /\ hash' = hash /\ UNCHANGED fixed
  BY <1>3 DEF fixed
<1>5. NothingTakenBack
  BY <1>3, <1>4 DEF NothingTakenBack, DeliveryType
<1>6. PICK a : a = PacketOf(f)
  OBVIOUS
<1>7. a \in Nodes \X Nat /\ a \notin AllPackets
  BY <1>1, <1>6, AckFacts DEF PacketOf
<1>8. AirOK'
  BY <1>3, <1>4, <1>5, AirGrows
<1>9. Notes(seen, seen', n, a)
  BY <1>3, <1>6, <1>7 DEF Notes
<1>10. ReceivedOK'
  BY <1>4, <1>7, <1>9, HeardOf
<1>11. OnlyZeroHashIsMisread'
  BY <1>4 DEF OnlyZeroHashIsMisread
<1>12. ASSUME NEW i \in PendingSlots, slots[i].packet[2] = d.requestId
       PROVE  slots[i].packet = p
  BY <1>12, PendingFacts, PacketsAssumption
<1>13. Tracking(p) => p \in Packets
  BY PendingFacts DEF Tracking
<1>14. answered' \subseteq Packets
  BY <1>3, <1>13 DEF DeliveryType
<1>15. seen' \in [Nodes -> Seq(Nodes \X Nat)]
  BY <1>9, NotesFacts DEF DeliveryType, Histories
<1>16. CASE ours /\ Acknowledges(d)
  <2>1. d.requestId # 0
    BY <1>16 DEF Acknowledges
  <2>2. \A i \in Slots : i \in retired <=> i \in PendingSlots /\ slots[i].packet = p
    <3>1. \A i \in PendingSlots : IdOf[slots[i].packet] = slots[i].packet[2]
      BY PendingFacts, PacketsAssumption
    <3>2. p[2] = d.requestId
      OBVIOUS
    <3>3. QED
      BY <1>12, <3>1, <3>2, PendingFacts DEF Matching
  <2>3. /\ p \in AllPackets /\ ItemOf(p).to = f.head.from /\ f.head.from \in Nodes \ {Sender}
        /\ processed[f.head.from][p] > 0
    BY <1>1, <1>16 DEF AckFrame, Named
  <2>4. p[2] = d.requestId
    OBVIOUS
  <2> HIDE DEF p, d, retired, ours
  <2>5. /\ slots' = [i \in Slots |-> IF i \in retired THEN Free ELSE slots[i]]
        /\ stage' = [q \in Packets |->
                       IF \E i \in retired : slots[i].packet = q THEN "acked" ELSE stage[q]]
    BY <1>3, <1>16 DEF Acknowledge, retired
  <2>6. \A q \in Packets : \/ stage'[q] = stage[q]
                           \/ q = p /\ Tracking(p) /\ stage'[q] = "acked"
    <3>1. retired \subseteq Slots
      BY DEF retired, Matching, PendingSlots
    <3>2. \A q : (\E i \in retired : slots[i].packet = q) => q = p /\ Tracking(p)
      BY <2>2, <3>1 DEF Tracking
    <3>3. \A q \in Packets : stage'[q] = IF \E i \in retired : slots[i].packet = q
                                         THEN "acked" ELSE stage[q]
      BY <2>5
    <3>4. QED
      BY <3>2, <3>3
  <2>7. \A i \in PendingSlots' : /\ i \in PendingSlots /\ slots'[i] = slots[i]
                                 /\ slots[i].packet # p
    BY <2>2, <2>5 DEF PendingSlots, Free, Slots
  <2>8. Tracking(p) => stage[p] = "pending" /\ p \in Packets
    BY <1>13 DEF Tracking, OutboxOK
  <2>9. Tracking(p) => stage'[p] = "acked"
    BY <1>13, <2>2, <2>5 DEF Tracking, PendingSlots
  <2>10. slots' \in [Slots -> {Free} \cup Entries] /\ stage' \in [Packets -> Stages]
    BY <2>5 DEF DeliveryType, Stages
  <2>11. DeliveryType'
    BY <1>3, <1>4, <1>14, <1>15, <2>10, Unmoved DEF DeliveryType, Entries, Slots
  <2>12. OutboxOK'
    <3>1. \A i \in PendingSlots' :
            /\ stage'[slots'[i].packet] = "pending"
            /\ slots'[i].attempts = sent[slots'[i].packet] + short[slots'[i].packet]
            /\ slots'[i].attempts <= MaxAttempts
      BY <2>6, <2>7, PendingFacts DEF OutboxOK
    <3>2. \A i, j \in PendingSlots' : slots'[i].packet = slots'[j].packet => i = j
      BY <2>7 DEF OutboxOK
    <3>3. \A q \in Packets :
            /\ stage'[q] = "sent" => sent[q] = 1 /\ short[q] = 0
            /\ stage'[q] = "fresh" => short[q] = 0
            /\ q[2] >= issued[Sender] => stage'[q] = "fresh"
            /\ stage'[q] = "gaveUp" => sent[q] + short[q] = MaxAttempts
      BY <2>6, <2>8 DEF OutboxOK
    <3>4. QED
      BY <1>4, <3>1, <3>2, <3>3 DEF OutboxOK
  <2>13. AnswersOK'
    <3>1. \A q \in answered' : q[2] # 0 => stage'[q] = "acked"
      BY <1>3, <1>13, <2>6, <2>9 DEF AnswersOK, DeliveryType
    <3>2. \A q \in Packets :
            stage'[q] = "acked" => /\ q[2] # 0 /\ q \in AllPackets /\ q \in answered'
                                   /\ ItemOf(q).to \in Nodes \ {Sender}
                                   /\ processed[ItemOf(q).to][q] > 0
      BY <1>3, <1>16, <2>1, <2>3, <2>4, <2>6 DEF AnswersOK
    <3>3. QED
      BY <1>4, <3>1, <3>2, Unmoved DEF AnswersOK
  <2>14. QED
    BY <1>8, <1>10, <1>11, <2>11, <2>12, <2>13
<1>17. CASE ~(ours /\ Acknowledges(d))
  <2>1. slots' = slots /\ stage' = stage
    BY <1>3, <1>17
  <2>2. DeliveryType'
    BY <1>3, <1>4, <1>14, <1>15, <2>1, Unmoved DEF DeliveryType, Entries, Slots
  <2>3. OutboxOK'
    BY <1>4, <2>1 DEF OutboxOK, PendingSlots, Slots
  <2>4. \A q \in answered' : q \in answered \/ q[2] = 0
    BY <1>1, <1>3, <1>17 DEF Acknowledges
  <2>5. answered \subseteq answered'
    BY <1>3
  <2>6. AnswersOK'
    BY <1>4, <2>1, <2>4, <2>5, Unmoved DEF AnswersOK
  <2>7. QED
    BY <1>8, <1>10, <1>11, <2>2, <2>3, <2>6
<1>18. QED
  BY <1>16, <1>17

\* The acknowledgement of a frame.
Answers(r, n, f) ==
  /\ r = [head |-> r.head, size |-> r.size, body |-> r.body]
  /\ r.head.to = f.head.from /\ r.head.from = n
  /\ r.head.id = Len(traffic[n]) + acks[n] /\ r.head.channel = hash
  /\ r.head.flags \in 0..255 /\ ~Peek(r).wantAck
  /\ r.body = CtrApply(Plain(Acknowledgement(f.head.id), 0), Key, Nonce(r.head.id, n, 0))
  /\ r.body.content.requestId = f.head.id

LEMMA ReplyIs ==
  ASSUME NEW n, NEW f, NEW r, r = Reply(n, f)
  PROVE  Answers(r, n, f)
<1> DEFINE id == Len(traffic[n]) + acks[n]
           d == Acknowledgement(f.head.id)
           asks == FALSE
           h == OwnHeader(n, f.head.from, id, HopStart, hash, asks)
           e == EncodeFrame(h, d, Key, Room)
<1>1. r = e.value
  BY DEF Reply, AckEncode
<1>2. DataLength(d) \in 0..11 /\ d.requestId = f.head.id
  BY DEF DataLength, Acknowledgement, Data, FieldLength, ROUTING_APP
<1>3. e.ok
  <2>1. /\ ~(DataLength(d) > PLAIN_LEN) /\ ~(DataLength(d) > MAX_PAYLOAD)
        /\ ~(Room < HEADER_LEN + DataLength(d))
    <3> HIDE DEF d
    <3>1. QED
      BY <1>2 DEF PLAIN_LEN, MAX_PAYLOAD, Room, HEADER_LEN
  <2> HIDE DEF d, h
  <2>2. QED
    BY <2>1 DEF EncodeFrame, Ok
<1>4. h.id = id /\ h.from = n
  BY DEF OwnHeader
<1>5. r = [head |-> EncodeHeader(h), size |-> HEADER_LEN + DataLength(d),
           body |-> CtrApply(Plain(d, 0), Key, Nonce(id, n, 0))]
  <2> HIDE DEF d, h, id
  <2>1. QED
    BY <1>1, <1>3, <1>4, FrameEncoded
<1> HIDE DEF d, id, e
<1>6. asks \in BOOLEAN /\ ~asks
  OBVIOUS
<1>7. r.head = EncodeHeader(h)
  BY <1>5
<1> HIDE DEF asks
<1>8. /\ r.head.to = f.head.from /\ r.head.from = n /\ r.head.id = id
      /\ r.head.channel = hash /\ r.head.flags \in 0..255 /\ ~Peek(r).wantAck
  BY <1>6, <1>7, OwnHead
<1>9. r.body = CtrApply(Plain(d, 0), Key, Nonce(r.head.id, n, 0))
  BY <1>5, <1>8
<1>10. Streamed(r, d)
  BY <1>8, <1>9 DEF Streamed
<1>11. r.body = [content |-> d, extra |-> 0,
                 streams |-> {<<Key, Nonce(r.head.id, r.head.from, 0)>>}]
  BY <1>10, StreamedBody
<1>12. r.body.content = d
  BY <1>11
<1>13. QED
  BY <1>2, <1>5, <1>8, <1>9, <1>12 DEF id, d, Answers

\* A message for the node is processed at its first sighting, and what asks for
\* it is acknowledged once it was.
LEMMA MessageStep ==
  ASSUME IInv, NEW n \in Nodes, NEW f \in air, f.head.from # n, Message(n, f)
  PROVE  IInv'
<1> USE DEF IInv
<1>1. PICK p, r : p = PacketOf(f) /\ r = Reply(n, f)
  OBVIOUS
<1> DEFINE replies == WantsAcknowledgement(f, n) /\ acks[n] < MaxAcks
           new == ForUs(n, f) /\ p \notin Remembered(seen[n])
           heard == Noted(seen[n], p)
<1>2. OwnFrame(f) /\ Opened(n, f).ok
  BY ReceivedAs DEF Message
<1>3. /\ UNCHANGED <<fixed, issued, sender, answered>> /\ traffic' = traffic /\ hash' = hash
      /\ restarts' = restarts /\ dropped' = dropped /\ answered' = answered
      /\ slots' = slots /\ stage' = stage /\ sent' = sent /\ short' = short /\ issued' = issued
  BY DEF Message, fixed, sender
<1>4. /\ processed' = IF new THEN [processed EXCEPT ![n][p] = @ + 1] ELSE processed
      /\ IF replies
         THEN /\ air' = air \cup {r} /\ acks' = [acks EXCEPT ![n] = @ + 1]
              /\ seen' = [seen EXCEPT ![n] = Noted(heard, PacketOf(r))]
         ELSE /\ seen' = [seen EXCEPT ![n] = heard]
              /\ UNCHANGED <<air, acks>>
  BY <1>1 DEF Message, Replied, Heard, FirstSighting
<1>5. /\ p \in AllPackets /\ p \in Nodes \X Nat /\ p[1] # n
      /\ f.head.to = ItemOf(p).to /\ (Peek(f).wantAck => ItemOf(p).wantAck)
      /\ p = <<f.head.from, f.head.id>>
  <2>1. p \in AllPackets /\ p = <<f.head.from, f.head.id>>
    BY <1>1, <1>2 DEF OwnFrame, PacketOf
  <2>2. p[1] # n
    BY <2>1
  <2>3. p \in Nodes \X Nat
    BY <2>1, TrafficFacts
  <2>4. QED
    BY <1>1, <1>2, <2>1, <2>2, <2>3, OwnFacts
<1>6. /\ Len(traffic[n]) \in Nat /\ acks[n] \in Nat
      /\ processed \in [Nodes -> [AllPackets -> Nat]]
  BY TrafficFacts DEF DeliveryType
<1>7. /\ processed' \in [Nodes -> [AllPackets -> Nat]]
      /\ new => processed'[n][p] = processed[n][p] + 1
      /\ ~new => processed'[n][p] = processed[n][p]
      /\ \A m \in Nodes, q \in AllPackets :
           m # n \/ q # p => processed'[m][q] = processed[m][q]
  <2> HIDE DEF new
  <2>1. QED
    BY <1>4, <1>5, <1>6
<1>8. /\ acks' \in [Nodes -> Nat] /\ \A m \in Nodes : acks'[m] >= acks[m]
      /\ replies => acks'[n] = acks[n] + 1
  <2>1. CASE replies
    <3>1. acks' = [acks EXCEPT ![n] = acks[n] + 1]
      BY <1>4, <2>1
    <3>2. QED
      BY <1>6, <3>1 DEF DeliveryType
  <2>2. CASE ~replies
    BY <1>4, <2>2 DEF DeliveryType
  <2>3. QED
    BY <2>1, <2>2
<1>9. NothingTakenBack
  <2>1. \A m \in Nodes, q \in AllPackets : /\ processed'[m][q] \in Nat /\ processed[m][q] \in Nat
                                           /\ processed[m][q] <= processed'[m][q]
    <3> HIDE DEF new
    <3> SUFFICES ASSUME NEW m \in Nodes, NEW q \in AllPackets
                 PROVE  /\ processed'[m][q] \in Nat /\ processed[m][q] \in Nat
                        /\ processed[m][q] <= processed'[m][q]
      OBVIOUS
    <3>1. processed'[m][q] \in Nat /\ processed[m][q] \in Nat
      BY <1>6, <1>7
    <3>2. processed'[m][q] = processed[m][q] \/ processed'[m][q] = processed[m][q] + 1
      BY <1>7
    <3>3. QED
      BY <3>1, <3>2
  <2>2. \A m \in Nodes : acks'[m] \in Nat /\ acks[m] <= acks'[m]
    BY <1>8 DEF DeliveryType
  <2>3. QED
    BY <2>1, <2>2 DEF NothingTakenBack
<1>10. PICK a : a = <<n, Len(traffic[n]) + acks[n]>>
  OBVIOUS
<1>11. a \in Nodes \X Nat /\ a \notin AllPackets
  BY <1>6, <1>10, TrafficFacts
<1>12. PacketOf(r) = a
  BY <1>1, <1>10, ReplyIs DEF PacketOf, Answers
<1>13. /\ seen' \in [Nodes -> Seq(Nodes \X Nat)]
       /\ \A m \in Nodes : m # n => seen'[m] = seen[m]
       /\ Extends(seen[n], seen'[n]) /\ Extends(heard, seen'[n])
       /\ p \in Sighted(seen'[n])
       /\ \A q \in Sighted(seen'[n]) : q \in Sighted(seen[n]) \/ q = p \/ q = a
  <2>1. PICK S, t : S = Nodes \X Nat /\ seen' = [seen EXCEPT ![n] = t]
                    /\ t = IF replies THEN Noted(heard, a) ELSE heard
    <3>1. CASE replies
      BY <1>4, <1>12, <3>1
    <3>2. CASE ~replies
      BY <1>4, <3>2
    <3>3. QED
      BY <3>1, <3>2
  <2>2. seen \in [Nodes -> Seq(S)] /\ p \in S /\ a \in S
    BY <1>5, <1>11, <2>1 DEF DeliveryType
  <2>3. /\ heard \in Seq(S) /\ Extends(seen[n], heard) /\ p \in Sighted(heard)
        /\ \A q \in Sighted(heard) : q \in Sighted(seen[n]) \/ q = p
    BY <2>2, NotedFacts
  <2> HIDE DEF replies, heard
  <2>4. /\ t \in Seq(S) /\ Extends(heard, t)
        /\ \A q \in Sighted(t) : q \in Sighted(heard) \/ q = a
    <3>1. CASE replies
      <4>1. t = Noted(heard, a)
        BY <2>1, <3>1
      <4>2. QED
        BY ONLY <2>2, <2>3, <4>1, NotedFacts
    <3>2. CASE ~replies
      BY <2>1, <2>3, <3>2 DEF Extends
    <3>3. QED
      BY <3>1, <3>2
  <2>5. Extends(seen[n], t)
    BY <2>3, <2>4, ExtendsAgain
  <2>6. p \in Sighted(t)
    <3>1. PICK i \in 1..Len(heard) : p = heard[i]
      BY <2>3 DEF Sighted
    <3>2. i \in 1..Len(t) /\ t[i] = p
      BY <2>4, <3>1 DEF Extends
    <3>3. QED
      BY <3>2 DEF Sighted
  <2>7. seen' \in [Nodes -> Seq(S)] /\ seen'[n] = t /\ \A m \in Nodes : m # n => seen'[m] = seen[m]
    BY <2>1, <2>2, <2>4
  <2>8. QED
    BY <2>1, <2>3, <2>4, <2>5, <2>6, <2>7
<1> HIDE DEF new
<1>14. DeliveryType'
  <2>1. air \subseteq air'
    BY <1>4
  <2>2. QED
    BY <1>3, <1>7, <1>8, <1>13, <2>1, Unmoved DEF DeliveryType, Entries, Slots
<1>15. new => Witnessed(seen'[n], p, processed[n][p] + 1)
  <2>1. SUFFICES ASSUME new PROVE Witnessed(heard, p, processed[n][p] + 1)
    BY <1>13, StillWitnessed
  <2>2. PICK S, k : S = Nodes \X Nat /\ k = processed[n][p]
    OBVIOUS
  <2>3. seen[n] \in Seq(S) /\ p \in S /\ p \notin Remembered(seen[n]) /\ k \in Nat
    BY <1>5, <1>6, <2>1, <2>2 DEF DeliveryType, new
  <2>4. k > 0 => Witnessed(seen[n], p, k)
    BY <1>5, <2>2 DEF ReceivedOK
  <2>5. QED
    BY <2>2, <2>3, <2>4, SightedAnew
<1> HIDE DEF heard
<1>16. ReceivedOK'
  <2> SUFFICES ASSUME NEW m \in Nodes, NEW q \in AllPackets
               PROVE  /\ ItemOf(q).to \notin {m, BROADCAST_ADDR} => processed'[m][q] = 0
                      /\ processed'[m][q] > 0 => Witnessed(seen'[m], q, processed'[m][q])
                      /\ Opens(m, q) /\ q \in Sighted(seen'[m]) => processed'[m][q] > 0
    BY <1>3, Unmoved DEF ReceivedOK
  <2>1. CASE m # n \/ q # p
    <3>1. processed'[m][q] = processed[m][q]
      BY <1>7, <2>1
    <3>2. q \in Sighted(seen'[m]) => q \in Sighted(seen[m])
      BY <1>11, <1>13, <2>1
    <3>3. processed[m][q] > 0 => Witnessed(seen'[m], q, processed[m][q])
      BY <1>13, StillWitnessed DEF ReceivedOK
    <3>4. QED
      BY <3>1, <3>2, <3>3 DEF ReceivedOK
  <2>2. CASE m = n /\ q = p
    <3>1. new => ItemOf(p).to \in {n, BROADCAST_ADDR}
      BY <1>5 DEF new, ForUs, IsBroadcast
    <3>2. ~new => p \in Sighted(seen[n]) \/ ItemOf(p).to \notin {n, BROADCAST_ADDR}
      BY <1>5 DEF new, ForUs, IsBroadcast, Remembered, Sighted
    <3>3. /\ ItemOf(p).to \notin {n, BROADCAST_ADDR} => processed[n][p] = 0
          /\ processed[n][p] > 0 => Witnessed(seen'[n], p, processed[n][p])
          /\ Opens(n, p) /\ p \in Sighted(seen[n]) => processed[n][p] > 0
      BY <1>5, <1>13, StillWitnessed DEF ReceivedOK
    <3>4. processed[n][p] \in Nat
      BY <1>5, <1>6
    <3>5. CASE new
      BY <1>7, <1>15, <2>2, <3>1, <3>4, <3>5
    <3>6. CASE ~new
      <4>1. processed'[n][p] = processed[n][p]
        BY <1>7, <3>6
      <4>2. Opens(n, p) => ItemOf(p).to \in {n, BROADCAST_ADDR}
        BY DEF Opens
      <4>3. QED
        BY <2>2, <3>2, <3>3, <3>6, <4>1, <4>2
    <3>7. QED
      BY <3>5, <3>6
  <2>3. QED
    BY <2>1, <2>2
<1>17. ASSUME replies
       PROVE  /\ AckFrame(r)'
              /\ \A g \in air : AckFrame(g) => PacketOf(g) # PacketOf(r)
  <2>1. Peek(f).wantAck /\ f.head.to = n
    BY <1>17 DEF WantsAcknowledgement
  <2>2. Opens(n, p) /\ p \in Sighted(seen'[n])
    <3>1. First(p).ok /\ Opened(n, f) = Opened(n, First(p).value)
      BY <1>1, <1>2, OwnOpens DEF OwnFrame
    <3>2. QED
      BY <1>2, <1>5, <1>13, <2>1, <3>1 DEF Opens
  <2>3. processed'[n][p] > 0
    BY <1>3, <1>5, <1>16, <2>2, Unmoved DEF ReceivedOK
  <2>4. /\ r = [head |-> r.head, size |-> r.size, body |-> r.body]
        /\ r.head.to = f.head.from /\ r.head.from = n
        /\ r.head.id = Len(traffic[n]) + acks[n] /\ r.head.channel = hash
        /\ r.head.flags \in 0..255 /\ ~Peek(r).wantAck
        /\ r.body = CtrApply(Plain(Acknowledgement(f.head.id), 0), Key, Nonce(r.head.id, n, 0))
        /\ r.body.content.requestId = f.head.id
    <3>1. Answers(r, n, f)
      BY <1>1, ReplyIs
    <3>2. QED
      BY ONLY <3>1 DEF Answers
  <2>5. Named(r) = p
    BY <1>5, <2>4 DEF Named
  <2>6. r.head.id \in Len(traffic[n])..(Len(traffic[n]) + acks'[n] - 1)
    BY <1>6, <1>8, <1>17, <2>4
  <2>7. AckFrame(r)'
    BY <1>3, <1>5, <2>1, <2>3, <2>4, <2>5, <2>6, Unmoved DEF AckFrame
  <2>8. ASSUME NEW g \in air, AckFrame(g), PacketOf(g) = PacketOf(r)
        PROVE  FALSE
    <3>1. g.head.from = n /\ g.head.id = Len(traffic[n]) + acks[n]
      BY <2>4, <2>8 DEF PacketOf
    <3>2. g.head.id \in Len(traffic[n])..(Len(traffic[n]) + acks[n] - 1)
      BY <2>8, <3>1 DEF AckFrame
    <3>3. QED
      BY <1>6, <3>1, <3>2
  <2>9. QED
    BY <2>7, <2>8
<1>18. AirOK'
  <2>1. CASE replies
    BY <1>3, <1>4, <1>9, <1>17, <2>1, AirGrows
  <2>2. CASE ~replies
    <3>1. air' = air
      BY <1>4, <2>2
    <3>2. QED
      BY <1>3, <1>9, <3>1, AirGrows
  <2>3. QED
    BY <2>1, <2>2
<1>19. OutboxOK' /\ AnswersOK'
  BY <1>3, <1>9, OutboxKept
<1>20. OnlyZeroHashIsMisread'
  BY <1>3 DEF OnlyZeroHashIsMisread
<1>21. QED
  BY <1>14, <1>16, <1>18, <1>19, <1>20
----------------------------------------------------------------------------
(* The invariant.                                                            *)
LEMMA InitIInv == Init => IInv
<1> SUFFICES ASSUME Init PROVE IInv
  OBVIOUS
<1>1. /\ traffic \in Traffics /\ air = {} /\ seen = [n \in Nodes |-> <<>>]
      /\ issued = [n \in Nodes |-> 0] /\ acks = [n \in Nodes |-> 0]
      /\ slots = [i \in Slots |-> Free] /\ stage = [p \in Packets |-> "fresh"]
      /\ sent = [p \in Packets |-> 0] /\ short = [p \in Packets |-> 0] /\ restarts = 0
      /\ processed = [n \in Nodes |-> [p \in AllPackets |-> 0]]
      /\ dropped = [n \in Nodes |-> {}] /\ answered = {}
  BY DEF Init, OutboxInit
<1>2. DeliveryType
  <2>1. seen \in [Nodes -> Seq(Nodes \X Nat)]
    BY <1>1, EmptySeq
  <2>2. QED
    BY <1>1, <2>1 DEF DeliveryType, Stages
<1>3. AirOK
  BY <1>1 DEF AirOK
<1>4. ReceivedOK
  <2>1. \A n \in Nodes : Sighted(seen[n]) = {}
    BY <1>1 DEF Sighted
  <2>2. QED
    BY <1>1, <2>1 DEF ReceivedOK
<1>5. OutboxOK
  <2>1. PendingSlots = {}
    BY <1>1 DEF PendingSlots, Free
  <2>2. QED
    BY <1>1, <2>1 DEF OutboxOK
<1>6. AnswersOK
  BY <1>1 DEF AnswersOK
<1>7. OnlyZeroHashIsMisread
  BY <1>1 DEF OnlyZeroHashIsMisread
<1>8. QED
  BY <1>2, <1>3, <1>4, <1>5, <1>6, <1>7 DEF IInv

LEMMA NextIInv == IInv /\ [Next]_vars => IInv'
<1> SUFFICES ASSUME IInv, [Next]_vars PROVE IInv'
  OBVIOUS
<1>1. ASSUME NEW n \in Nodes, Originate(n) PROVE IInv'
  BY <1>1, OriginateStep
<1>2. ASSUME NEW p \in Packets, Track(p) PROVE IInv'
  BY <1>2, TrackStep
<1>3. CASE Poll \/ PollShort
  BY <1>3, AttemptStep
<1>4. CASE GiveUp
  BY <1>4, GiveUpStep
<1>5. CASE Restart
  BY <1>5, RestartStep
<1>6. ASSUME NEW n \in Nodes, NEW f \in air, Receive(n, f) PROVE IInv'
  BY <1>6, UndecodableStep, AnswerStep, MessageStep DEF Receive
<1>7. ASSUME NEW n \in Relays, NEW f \in air, Relay(n, f) PROVE IInv'
  BY <1>7, RelayStep
<1>8. CASE UNCHANGED vars
  <2>1. /\ UNCHANGED <<fixed, air, seen, issued, acks, restarts, ghosts>>
        /\ slots' = slots /\ stage' = stage /\ sent' = sent /\ short' = short /\ issued' = issued
    BY <1>8 DEF vars, sender
  <2>2. OutboxOK'
    BY <2>1 DEF OutboxOK, PendingSlots, Slots, IInv
  <2>3. QED
    BY <2>1, <2>2, OutboxSteps DEF IInv, DeliveryType
<1>9. QED
  BY <1>1, <1>2, <1>3, <1>4, <1>5, <1>6, <1>7, <1>8 DEF Next

LEMMA Invariance == Spec => []IInv
<1>1. Init => IInv
  BY InitIInv
<1>2. IInv /\ [Next]_vars => IInv'
  BY NextIInv
<1>3. QED
  BY <1>1, <1>2, PTL DEF Spec
----------------------------------------------------------------------------
\* A packet retired by an acknowledgement has been processed at its destination,
\* whatever the medium does, whoever uses the same identifiers, and whenever the
\* sender restarts (delivery.rs:224-238, 341-344).
THEOREM AckedIsDelivered == Spec => []AckMeansProcessed
<1>1. IInv => AckMeansProcessed
  <2> SUFFICES ASSUME IInv, NEW p \in Packets, stage[p] = "acked"
               PROVE  processed[ItemOf(p).to][p] > 0
    BY DEF AckMeansProcessed
  <2>1. QED
    BY DEF IInv, AnswersOK
<1>2. QED
  BY <1>1, Invariance, PTL

\* A node processes only what is addressed to it or to all, and a packet k times
\* in a life only after more than (k - 1) * (HISTORY + 1) first sightings: once
\* while its history holds them all (lib.rs:496, history.rs:20-24).
THEOREM DeliveredOnce == Spec => []ProcessedOnce
<1>1. IInv => ProcessedOnce
  <2> SUFFICES ASSUME IInv, NEW n \in Nodes, NEW p \in AllPackets, processed[n][p] > 0
               PROVE  /\ ItemOf(p).to \in {n, BROADCAST_ADDR}
                      /\ Needed(processed[n][p]) < Len(seen[n])
    BY DEF ProcessedOnce, Needed
  <2>1. ItemOf(p).to \in {n, BROADCAST_ADDR}
    BY DEF IInv, ReceivedOK
  <2>2. PICK i \in 1..Len(seen[n]) : Needed(processed[n][p]) < i
    BY DEF IInv, ReceivedOK, Witnessed
  <2>3. processed[n][p] \in Nat \ {0} /\ seen[n] \in Seq(Nodes \X Nat)
    BY DEF IInv, DeliveryType
  <2>4. Needed(processed[n][p]) \in Nat /\ Len(seen[n]) \in Nat
    BY <2>3, NeededGrows, LenProperties
  <2>5. QED
    BY <2>1, <2>2, <2>4
<1>2. QED
  BY <1>1, Invariance, PTL

\* An answer that arrives while its packet is pending retires it: what is given
\* up was not answered, but for identifier 0 (delivery.rs:330).
THEOREM NoAnswerIsLost == Spec => []GivenUpWasNotAnswered
<1>1. IInv => GivenUpWasNotAnswered
  BY DEF IInv, AnswersOK, GivenUpWasNotAnswered
<1>2. QED
  BY <1>1, Invariance, PTL

\* What a node it is meant for cannot open is a frame to a single node on a
\* channel whose hash is 0 (lib.rs:1466-1476).
THEOREM OthersOpen == Spec => []OnlyZeroHashIsMisread
<1>1. IInv => OnlyZeroHashIsMisread
  BY DEF IInv
<1>2. QED
  BY <1>1, Invariance, PTL

\* No keystream lies over two contents, however many nodes share identifiers and
\* a key, and whatever is relayed or answered (header.rs:66-67).
THEOREM KeystreamsAreApart == Spec => []NoKeystreamTwice
<1>1. ASSUME IInv, NEW f \in air
      PROVE  f.body.streams \subseteq {<<Key, Nonce(f.head.id, f.head.from, 0)>>}
  <2>1. ASSUME NEW d, Streamed(f, d)
        PROVE  f.body.streams \subseteq {<<Key, Nonce(f.head.id, f.head.from, 0)>>}
    <3>1. f.body = [content |-> d, extra |-> 0,
                    streams |-> {<<Key, Nonce(f.head.id, f.head.from, 0)>>}]
      BY <2>1, StreamedBody
    <3>2. f.body.streams = {<<Key, Nonce(f.head.id, f.head.from, 0)>>}
      BY <3>1
    <3>3. QED
      BY <3>2
  <2>2. CASE DirectFrame(f)
    BY <2>2 DEF DirectFrame, Plain
  <2>3. CASE ChannelFrame(f)
    BY <2>1, <2>3 DEF ChannelFrame
  <2>4. CASE AckFrame(f)
    BY <1>1, <2>1, <2>4, AckFacts DEF IInv
  <2>5. QED
    BY <1>1, <2>2, <2>3, <2>4, OwnFacts DEF IInv, AirOK
<1>2. ASSUME IInv, NEW f \in air, NEW g \in air, f.body.streams \cap g.body.streams # {}
      PROVE  f.body.content = g.body.content
  <2>1. PacketOf(f) = PacketOf(g)
    <3>1. PICK s : s \in f.body.streams /\ s \in g.body.streams
      BY <1>2
    <3>2. /\ s = <<Key, Nonce(f.head.id, f.head.from, 0)>>
          /\ s = <<Key, Nonce(g.head.id, g.head.from, 0)>>
      BY <1>1, <1>2, <3>1
    <3>3. Nonce(f.head.id, f.head.from, 0) = Nonce(g.head.id, g.head.from, 0)
      BY <3>2
    <3>4. QED
      BY <3>3 DEF Nonce, PacketOf
  <2>2. CASE OwnFrame(f) /\ OwnFrame(g)
    <3>1. ASSUME NEW h, OwnFrame(h) PROVE h.body = First(PacketOf(h)).value.body
      <4>1. PICK first : first = First(PacketOf(h)).value
        OBVIOUS
      <4>2. Copy(h, first)
        BY <3>1, <4>1 DEF OwnFrame
      <4>3. h = [head |-> h.head, size |-> first.size, body |-> first.body]
        BY <4>2 DEF Copy
      <4>4. h.body = first.body
        BY <4>3
      <4>5. QED
        BY <4>1, <4>4
    <3>2. f.body = g.body
      BY <2>1, <2>2, <3>1
    <3>3. QED
      BY <3>2
  <2>3. CASE AckFrame(f) /\ AckFrame(g)
    <3>1. f.body = g.body
      BY <1>2, <2>1, <2>3 DEF IInv, AirOK
    <3>2. QED
      BY <3>1
  <2>4. ~(OwnFrame(f) /\ AckFrame(g)) /\ ~(OwnFrame(g) /\ AckFrame(f))
    BY <1>2, <2>1, AckFacts DEF IInv, OwnFrame
  <2>5. QED
    BY <1>2, <2>2, <2>3, <2>4 DEF IInv, AirOK
<1>3. IInv => NoKeystreamTwice
  BY <1>2 DEF NoKeystreamTwice
<1>4. QED
  BY <1>3, Invariance, PTL

\* An acknowledgement names a packet that asked for one, of the node it goes to;
\* none answers an acknowledgement (lib.rs:1129-1130).
THEOREM NoAckOfAnAck == Spec => []AcksAreFinal
<1>1. ASSUME IInv, NEW f \in air, f.body.content.kind = "Data",
             f.body.content.portnum = ROUTING_APP
      PROVE  AckFrame(f)
  <2>1. ~DirectFrame(f)
    <3>1. ASSUME NEW key, NEW nonce, NEW d, NEW extra,
                 f.body = Plain(Sealed(key, nonce, d), extra)
          PROVE  f.body.content.kind = "Sealed"
      BY <3>1 DEF Plain, Sealed
    <3>2. QED
      BY <1>1, <3>1 DEF DirectFrame
  <2>2. ~ChannelFrame(f)
    <3>1. ASSUME NEW d, Streamed(f, d), IsMessage(d) PROVE FALSE
      <4>1. f.body = [content |-> d, extra |-> 0,
                      streams |-> {<<Key, Nonce(f.head.id, f.head.from, 0)>>}]
        BY <3>1, StreamedBody
      <4>2. f.body.content = d
        BY <4>1
      <4>3. QED
        BY <1>1, <3>1, <4>2 DEF IsMessage
    <3>2. QED
      BY <3>1 DEF ChannelFrame
  <2>3. QED
    BY <1>1, <2>1, <2>2, OwnFacts DEF IInv, AirOK
<1>2. IInv => AcksAreFinal
  BY <1>1 DEF AcksAreFinal, AckFrame, Named
<1>3. QED
  BY <1>2, Invariance, PTL

\* An attempt is a transmission or was lost to a short buffer, and a packet is
\* given up after as many of the two as the policy has (lib.rs:1052-1056).
THEOREM EveryAttemptCounts == Spec => []AttemptsAreAccounted
<1>1. IInv => AttemptsAreAccounted
  BY DEF IInv, OutboxOK, AttemptsAreAccounted
<1>2. QED
  BY <1>1, Invariance, PTL
=============================================================================
