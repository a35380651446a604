------------------------------ MODULE Delivery ------------------------------
(***************************************************************************)
(* A delivery from end to end: the C ABI of three kinds of caller on one     *)
(* channel.  Sender tracks what it sends and waits for acknowledgements;     *)
(* others send, relay and acknowledge.  Frames lie on the air for good and   *)
(* are received by anyone, in any order, any number of times or never: the   *)
(* medium loses, delays, reorders and repeats.  The clock is left out: every *)
(* interval has passed when the outbox is polled, and airtime costs nothing. *)
(*                                                                         *)
(* A caller passes what it hears to tm_rx_observe, opens what is addressed   *)
(* to it or to all, and acknowledges every copy that asks for it, since its  *)
(* earlier acknowledgement may have been lost.                               *)
(***************************************************************************)
EXTENDS Frames, Outbox

CONSTANTS
  Nodes,       \* node numbers
  Sender,      \* the node with the outbox
  Relays,      \* the nodes that relay
  Traffics,    \* what the nodes may have to send: per node, items in the order of their ids
  Names,       \* channel names
  KeyIndex,    \* shorthand index of the channel key
  HopStart,    \* hop limit of a new frame
  HISTORY,     \* entries in the history of a node: 400 in the C ABI (lib.rs:432)
  MaxAcks,     \* bound: acknowledgements a node transmits
  MaxRelayed,  \* bound: relayed frames on the air
  MaxHeard,    \* bound: first sightings of a node by reception, in one life
  MaxRestarts  \* bound: restarts of Sender

ASSUME NodesAssumption ==
  /\ Nodes \subseteq Nat /\ BROADCAST_ADDR \notin Nodes
  /\ Sender \in Nodes /\ Relays \subseteq Nodes

\* A key is agreed with one node, so a direct message is addressed to one.
Items == {item \in [mode : {"text", "extension", "nodeinfo", "sealed"},
                    to : Nodes \cup {BROADCAST_ADDR}, wantAck : BOOLEAN, payload : STRING,
                    size : Nat, portnum : Nat, extra : Nat] :
            item.mode = "sealed" => item.to \in Nodes}

ASSUME TrafficAssumption == Traffics \subseteq [Nodes -> Seq(Items)]
ASSUME PacketsAssumption ==
  Packets \subseteq {Sender} \X Nat /\ IdOf = [p \in Packets |-> p[2]]
ASSUME HopAssumption == HopStart \in Nat
ASSUME HistoryAssumption == HISTORY \in Nat

\* resolve_retry_policy refuses a policy without an attempt.
ASSUME AttemptsAssumption == MaxAttempts \in Nat \ {0}

VARIABLES
  hash,        \* the channel hash all nodes compute
  traffic,     \* what each node has to send
  air,         \* frames that were transmitted
  seen,        \* per node, its first sightings since it started: (from, id) pairs
  issued,      \* per node, how much of its traffic it has encoded
  acks,        \* per node, how many acknowledgements it transmitted
  stage,       \* of each packet of Sender
  sent,        \* how often each packet of Sender was transmitted
  short,       \* how often it was handed out to a buffer too short for it
  restarts,    \* restarts of Sender so far
  processed,   \* per node, how often each packet was processed since it started
  dropped,     \* per node, frames meant for it that it could not open
  answered     \* packets of Sender whose answer arrived while they were pending

sender == <<slots, duty, stage, sent, short>>
ghosts == <<processed, dropped, answered>>
fixed == <<hash, traffic>>
vars == <<fixed, air, seen, issued, acks, sender, restarts, ghosts>>

Key == KeyFromIndex(KeyIndex).value
Room == 300   \* the callers' buffers
PacketOf(f) == <<f.head.from, f.head.id>>
ItemOf(p) == traffic[p[1]][p[2] + 1]
AllPackets == UNION {{n} \X (0..(Len(traffic[n]) - 1)) : n \in Nodes}

Init == /\ \E name \in Names : hash = ChannelHash(name, Key)
        /\ traffic \in Traffics
        /\ air = {}
        /\ seen = [n \in Nodes |-> <<>>]
        /\ issued = [n \in Nodes |-> 0]
        /\ acks = [n \in Nodes |-> 0]
        /\ OutboxInit
        /\ duty = NewDuty(0)
        /\ stage = [p \in Packets |-> "fresh"]
        /\ sent = [p \in Packets |-> 0]
        /\ short = [p \in Packets |-> 0]
        /\ restarts = 0
        /\ processed = [n \in Nodes |-> [p \in AllPackets |-> 0]]
        /\ dropped = [n \in Nodes |-> {}]
        /\ answered = {}
----------------------------------------------------------------------------
(* The history.  Of its first sightings a node remembers the last HISTORY:   *)
(* what the ring buffer of history.rs holds, which the module Context checks *)
(* against RecentPackets.  What it has evicted is a first sighting again.    *)

Remembered(s) == {s[i] : i \in {k \in 1..Len(s) : k > Len(s) - HISTORY}}

Sighted(s) == {s[i] : i \in 1..Len(s)}

Noted(s, p) == IF p \in Remembered(s) THEN s ELSE Append(s, p)
----------------------------------------------------------------------------
(* Sending.                                                                  *)

Encoded(n, id, item) ==
  CASE item.mode = "text" ->
         TextEncode(n, item.to, id, HopStart, hash, item.wantAck, Key, item.payload,
                    item.size, Room)
    [] item.mode = "extension" ->
         ExtensionEncode(n, item.to, id, HopStart, hash, item.wantAck, item.portnum, Key,
                         item.payload, item.size, Room)
    [] item.mode = "nodeinfo" ->
         NodeinfoEncode(n, item.to, id, HopStart, hash, Key, item.payload, item.size, Room)
    [] item.mode = "sealed" ->
         PkiEncode(n, item.to, id, HopStart, item.wantAck, PkiAgree(n, item.to), item.extra,
                   TEXT_MESSAGE_APP, item.payload, item.size, Room)

Transmitted(n, f) == /\ air' = air \cup {f}
                     /\ seen' = [seen EXCEPT ![n] = Noted(@, PacketOf(f))]

\* A node encodes the next of its traffic and, if that succeeds, transmits it
\* and notes it as its own.
Originate(n) ==
  /\ issued[n] < Len(traffic[n])
  /\ issued' = [issued EXCEPT ![n] = @ + 1]
  /\ LET p == <<n, issued[n]>>
         frame == Encoded(n, issued[n], ItemOf(p))
     IN  /\ IF frame.ok THEN Transmitted(n, frame.value) ELSE UNCHANGED <<air, seen>>
         /\ IF n = Sender
            THEN /\ stage' = [stage EXCEPT ![p] = IF frame.ok THEN "sent" ELSE "refused"]
                 /\ sent' = [sent EXCEPT ![p] = Bit(frame.ok)]
            ELSE UNCHANGED <<stage, sent>>
  /\ UNCHANGED <<fixed, acks, slots, duty, short, restarts, ghosts>>

Fits(p) == \E f \in air : PacketOf(f) = p /\ f.size \in HEADER_LEN..MAX_FRAME

Track(p) == /\ stage[p] = "sent"
            /\ \/ /\ Fits(p) /\ TrackOk(p, 0)
                  /\ stage' = [stage EXCEPT ![p] = "pending"]
               \/ /\ (~Fits(p) /\ UNCHANGED <<slots, duty>>) \/ TrackRefused(p)
                  /\ stage' = [stage EXCEPT ![p] = "untracked"]
            /\ UNCHANGED <<fixed, air, seen, issued, acks, sent, short, restarts, ghosts>>

\* tm_outbox_next_due fills the buffer, and the frame is on the air once more.
Poll == /\ \E i \in Slots : /\ NextDue(i, 0, 0)
                            /\ sent' = [sent EXCEPT ![slots[i].packet] = @ + 1]
        /\ UNCHANGED <<fixed, air, seen, issued, acks, stage, short, restarts, ghosts>>

\* The buffer turns out too short when the attempt is marked already.
PollShort == /\ \E i \in Slots : /\ NextDue(i, 0, 0)
                                 /\ short' = [short EXCEPT ![slots[i].packet] = @ + 1]
             /\ UNCHANGED <<fixed, air, seen, issued, acks, stage, sent, restarts, ghosts>>

GiveUp == /\ \E i \in Slots : /\ Reap(i, 0)
                              /\ stage' = [stage EXCEPT ![slots[i].packet] = "gaveUp"]
          /\ UNCHANGED <<fixed, air, seen, issued, acks, sent, short, restarts, ghosts>>

\* Power loss: history and outbox start empty; identifiers do not return.
Restart == /\ restarts < MaxRestarts
           /\ restarts' = restarts + 1
           /\ slots' = [i \in Slots |-> Free]
           /\ duty' = NewDuty(0)
           /\ stage' = [p \in Packets |-> IF stage[p] \in {"sent", "pending"} THEN "forgotten"
                                                                             ELSE stage[p]]
           /\ seen' = [seen EXCEPT ![Sender] = <<>>]
           /\ processed' = [processed EXCEPT ![Sender] = [p \in AllPackets |-> 0]]
           /\ UNCHANGED <<fixed, air, issued, acks, sent, short, dropped, answered>>
----------------------------------------------------------------------------
(* Receiving.                                                                *)

\* Mutant: a packet is known by its id alone.
FirstSightingById(n, f) == \A p \in Remembered(seen[n]) : p[2] # f.head.id

FirstSighting(n, f) == PacketOf(f) \notin Remembered(seen[n])

\* Mutant: only a frame that could be relayed is recorded.
HeardIfRelayable(n, f) ==
  IF Peek(f).hopLimit > 0 THEN Noted(seen[n], PacketOf(f)) ELSE seen[n]

Heard(n, f) == Noted(seen[n], PacketOf(f))

ForUs(n, f) == f.head.to = n \/ IsBroadcast(f.head)

Opened(n, f) == IF IsPki(f) THEN PkiDecrypt(f, PkiAgree(f.head.from, n))
                            ELSE FrameDecrypt(f, Key)

\* Acknowledgements take identifiers of their own.
Reply(n, f) == AckEncode(n, f.head.from, Len(traffic[n]) + acks[n], f.head.id, HopStart, hash,
                         Key, Room).value

\* Every copy that asks us for it is acknowledged, and the acknowledgement noted
\* as our own.
Replied(n, f) ==
  IF WantsAcknowledgement(f, n) /\ acks[n] < MaxAcks
  THEN /\ air' = air \cup {Reply(n, f)}
       /\ acks' = [acks EXCEPT ![n] = @ + 1]
       /\ seen' = [seen EXCEPT ![n] = Noted(Heard(n, f), PacketOf(Reply(n, f)))]
  ELSE /\ seen' = [seen EXCEPT ![n] = Heard(n, f)]
       /\ UNCHANGED <<air, acks>>

\* The frame does not open: not for us, or noise.
Undecodable(n, f) ==
  /\ ~Opened(n, f).ok
  /\ seen' = [seen EXCEPT ![n] = Heard(n, f)]
  /\ dropped' = IF ForUs(n, f) THEN [dropped EXCEPT ![n] = @ \cup {f}] ELSE dropped
  /\ UNCHANGED <<fixed, air, issued, acks, sender, restarts, processed, answered>>

\* tm_acknowledges recognises an acknowledgement; the outbox has it when it is
\* addressed to us.
Answer(n, f) ==
  /\ Opened(n, f).ok
  /\ Opened(n, f).value.portnum = ROUTING_APP
  /\ LET data == Opened(n, f).value
         p == <<Sender, data.requestId>>
         ours == n = Sender /\ f.head.to = n
     IN  /\ answered' = IF ours /\ Tracking(p) THEN answered \cup {p} ELSE answered
         /\ IF ours /\ Acknowledges(data)
            THEN /\ Acknowledge(data.requestId)
                 /\ stage' = [q \in Packets |->
                                IF \E i \in Matching(data.requestId) : slots[i].packet = q
                                THEN "acked" ELSE stage[q]]
            ELSE UNCHANGED <<slots, duty, stage>>
  /\ Replied(n, f)
  /\ UNCHANGED <<fixed, issued, sent, short, restarts, processed, dropped>>

\* A message: a new one for us is processed.
Message(n, f) ==
  /\ Opened(n, f).ok
  /\ Opened(n, f).value.portnum # ROUTING_APP
  /\ processed' = IF ForUs(n, f) /\ FirstSighting(n, f)
                  THEN [processed EXCEPT ![n][PacketOf(f)] = @ + 1] ELSE processed
  /\ Replied(n, f)
  /\ UNCHANGED <<fixed, issued, sender, restarts, dropped, answered>>

Receive(n, f) == /\ f \in air /\ f.head.from # n
                 /\ Len(Heard(n, f)) <= MaxHeard
                 /\ Undecodable(n, f) \/ Answer(n, f) \/ Message(n, f)

\* A relay forwards what it has heard, whether it can open it or not.  Its caller
\* waits with the frame at hand, whatever the history has evicted since.
Relay(n, f) == /\ f \in air /\ f.head.from # n /\ PacketOf(f) \in Sighted(seen[n])
               /\ RelayedBy(f, n).ok
               /\ Cardinality({g \in air : Peek(g).hopLimit < Peek(g).hopStart}) < MaxRelayed
               /\ air' = air \cup {RelayedBy(f, n).value}
               /\ UNCHANGED <<fixed, seen, issued, acks, sender, restarts, ghosts>>

Next == \/ \E n \in Nodes : Originate(n)
        \/ \E p \in Packets : Track(p)
        \/ Poll \/ PollShort \/ GiveUp \/ Restart
        \/ \E n \in Nodes : \E f \in air : Receive(n, f)
        \/ \E n \in Relays : \E f \in air : Relay(n, f)

Spec == Init /\ [][Next]_vars
----------------------------------------------------------------------------
\* Whatever is lost, repeated, relayed or reordered, whoever else uses the same
\* identifiers, and whenever the sender restarts: a packet retired by an
\* acknowledgement has been processed at its destination (delivery.rs:224-238,
\* which matches the identifier alone; delivery.rs:341-344, which answers for
\* frames addressed to the node alone).
AckMeansProcessed ==
  \A p \in Packets : stage[p] = "acked" => processed[ItemOf(p).to][p] > 0

\* However many copies of a packet arrive, by whatever route, a node processes
\* none that is addressed to another, and one again only when HISTORY other first
\* sightings have pushed it out of its history: once in a life that has no more
\* than HISTORY of them, and k times only in one of more than (k - 1) * (HISTORY + 1)
\* (lib.rs:496, "duplicate"; history.rs:20-24).
ProcessedOnce ==
  \A n \in Nodes, p \in AllPackets :
    processed[n][p] > 0 => /\ ItemOf(p).to \in {n, BROADCAST_ADDR}
                           /\ (processed[n][p] - 1) * (HISTORY + 1) < Len(seen[n])

\* An answer that arrives while its packet is pending is never lost on it, also
\* after the last attempt: what is given up was not answered then.  One that
\* arrives before the caller has tracked the frame it transmitted, or after a
\* restart, retires nothing: only an answer while it is pending does
\* (delivery.rs:201, 224-238).  The exception is identifier 0, whose
\* acknowledgement is that of nothing (delivery.rs:330): its packet can only be
\* given up.
GivenUpWasNotAnswered ==
  \A p \in Packets : /\ stage[p] = "gaveUp" /\ p \in answered => p[2] = 0
                     /\ stage[p] = "acked" => p[2] # 0 /\ p \in answered

\* A frame that reached a node it is meant for opens there, relayed or not,
\* under the right one of the two ciphers; the one exception is a channel whose
\* hash is 0: what it carries to a single node is taken for a direct message
\* (lib.rs:1466-1476).
OnlyZeroHashIsMisread ==
  \A n \in Nodes : \A f \in dropped[n] :
    hash = 0 /\ f.head.to = n /\ f.body.content.kind = "Data"

\* No keystream lies over two different contents: what shares identifier and key
\* on the air differs in its sender or is the same packet (header.rs:66-67).
NoKeystreamTwice ==
  \A f, g \in air : f.body.streams \cap g.body.streams # {} => f.body.content = g.body.content

\* Acknowledgements are not acknowledged, though identifiers collide: each names
\* a packet that asked for one, of the node it is addressed to
\* (lib.rs:1129-1130).
AcksAreFinal ==
  \A f \in air : f.body.content.kind = "Data" /\ f.body.content.portnum = ROUTING_APP =>
    LET p == <<f.head.to, f.body.content.requestId>>
    IN  p \in AllPackets /\ ItemOf(p).wantAck /\ ItemOf(p).to = f.head.from

\* An attempt is a transmission or was lost to a buffer too short for the frame:
\* a packet is given up after exactly as many of the two as the policy has
\* attempts (lib.rs:1052-1056).
AttemptsAreAccounted ==
  /\ \A i \in PendingSlots :
       LET p == slots[i].packet IN slots[i].attempts = sent[p] + short[p]
  /\ \A p \in Packets : stage[p] = "gaveUp" => sent[p] + short[p] = MaxAttempts
=============================================================================
