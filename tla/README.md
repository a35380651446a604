# TLA+ models of tethermesh

tethermesh is a `no_std` library that speaks the wire protocol of a LoRa flood
mesh: it frames, encrypts, suppresses duplicates, decides what to relay, and
retransmits what was not acknowledged.  It has no clock, no radio, no storage and
no threads.  All of those belong to the caller, and so does the order in which
the library is called.  The models therefore consist of the library's objects
*and* of the caller around them, who does what the source's comments ask of it,
in any order they leave open.

Paths below are relative to the repository; `code/protocol/` is the core crate.

## Inventory

| Part | State it keeps | Operations | What must hold |
|---|---|---|---|
| Packet identifiers, `packet_id.rs` | `next`, `block_end`, `block`; a durable mark in the caller's storage | `resume`, `issue`, `persisted` | no identifier is issued twice, whenever power fails; a restart loses at most a block |
| Duplicate suppression, `history.rs` | a ring of `(from, id)`, a cursor, a length | `observe`, `contains`, `clear` | exactly the last N first sightings are remembered |
| Duty budget, `airtime.rs` | airtime used and the start of the window | `would_permit`, `charge` | the budget of a window is never exceeded; a permission stays good |
| Time on air, `airtime.rs` | none | `ModemParams::airtime_us` | the formula of the modem |
| Retransmission, `delivery.rs` | slots of frames that wait for an acknowledgement | `track`, `acknowledge`, `next_due`, `reap` | no entry lost or kept twice, no attempt beyond the policy, none beyond the budget but what other traffic overtook, every entry is retired |
| Acknowledgements, `delivery.rs`, `message.rs` | none | `acknowledgement`, `acknowledges`, `wants_acknowledgement` | an acknowledgement names the packet it answers, and is not answered itself |
| Messages, `message.rs`, `protobuf.rs` | a reader's position, a writer's length | `next_field`, `field`, `decode` and `encode` of seven wrappers | reading ends inside the input; nothing known is lost; canonical bytes, and no others, come back unchanged |
| Relaying, `routing.rs` | none of its own: history and budget are passed in | `should_relay`, `slots_for_snr` | each node relays a packet once, no farther than its hop limit; the weaker the signal, the earlier it may |
| Header and frame, `header.rs`, `frame.rs` | none | `encode`, `decode`, `relayed_by`, `encode_bounded` | the packed fields survive a round trip; a relay changes two of them; a frame fits |
| C ABI, `code/c-api` | `TmCtx` (history, budget, role), `TmOutbox` | `tm_rx_observe`, `tm_relay_prepare`, `tm_note_originated`, `tm_outbox_*`, encoders and openers | the composition of the above; a frame is opened with the right cipher |
| Groups, `code/groups` | a roster and an epoch number | `add`, `remove`, `bump_epoch`, `seal`, `parse`, `open_in_place` | the roster is a set of members; no nonce is used twice; who opens what |
| Ciphers, `crypto.rs` | none | `nonce`, `ctr_apply`, `ccm_encrypt_in_place_aad`, `ccm_decrypt_in_place_aad` | no block is encrypted twice under a key; what was altered is refused |
| Key agreement, `x25519.rs` | none | `clamp`, `scalarmult`, `x25519` | the multiple on the curve; no secret with a point of small order |
| AES, SHA-256, `backend.rs` | none | primitives and their hardware seam | the algorithms themselves |

How they interact.  A node *sends* a packet by asking its identifier source for
an id (storing the mark first when told to), framing it, transmitting it,
charging the budget, noting it in its own history and tracking it in the outbox.
A node that *hears* a frame passes it to `tm_rx_observe`, which records it in the
history and decides, with the budget, whether to relay; the caller waits out a
random backoff, listens for another node's relay, patches the header and
transmits.  Acknowledgements travel back as packets of their own and reach the
outbox as a bare id.  Budget and history are shared by all of it.

What is hard here: power failing between any two steps of the persistence
protocol; the budget being checked before a wait and charged after it; copies of
one packet coming by several routes, in any order, lost or repeated;
acknowledgements racing retransmission, tracking and giving up; bounded rings and
slots that overflow; nodes that restart and forget; identifiers that are unique
for one sender only; bytes from the air that nobody vouches for; invites that
overtake the removal of their addressee.

## Modules

| Module | What it is |
|---|---|
| `IdStream` | abstract: a strictly increasing stream of identifiers |
| `PacketId` | `PacketIdSource` with the caller's storage and power loss; implements `IdStream` |
| `MCPacketId` | its small instance |
| `PacketIdProofs` | its inductive invariant and theorems |
| `RecentPackets` | abstract: the last N first sightings, as a sequence |
| `HistoryOps` | the operations of `PacketHistory`, on the record of its fields |
| `PacketHistory` | one history and what its node hears; implements `RecentPackets` |
| `DutyOps` | the operations of `DutyCycle`, on the record of its changing fields |
| `DutyCycle` | one budget, its caller's clock, checks and charges |
| `Context` | a history and a budget in one `TmCtx` |
| `ContextProofs` | the invariants and theorems of the history, of the budget and of both |
| `Outbox` | `delivery.rs`: one action per outcome of each method of `Outbox` |
| `Sender`, `MCSender` | the outbox with its caller: transmission, polling, acknowledgements, other traffic, time |
| `SenderProofs` | its inductive invariant and theorems |
| `Flood`, `MCFlood` | a mesh of nodes, each with a history and a budget, over a lossy medium |
| `FloodProofs` | how far packets come, how much airtime a node takes and how often it relays, in any mesh |
| `ProtoWire` | `protobuf.rs`: `Reader` and `Writer` on sequences of bytes |
| `Messages`, `MCMessages` | `message.rs`: the wrappers, on a path of nodes that decode and encode |
| `MessagesProofs` | what is encoded reads back, on any path and from any bytes |
| `Header` | `header.rs`: packing, and what a relay changes |
| `Frames` | `frame.rs`, `channel.rs` and the encoders and openers of the C ABI |
| `Delivery`, `MCDelivery` | a packet and its acknowledgement end to end: `Frames` and `Outbox` at a sender, a receiver and a relay |
| `DeliveryProofs` | its inductive invariant, preserved by each action, and theorems |
| `Membership` | abstract: a set of members with keys, and an epoch |
| `Roster` | `Roster<N>`: the slots; implements `Membership` |
| `Groups`, `MCGroups` | sealing and opening, the roster's owner, invites, relays; composed of `Header` and `Roster` |
| `GroupsProofs` | the invariants and theorems of the roster and of the group |
| `Radio` | the time on air of a frame and the width of the contention window |
| `Ciphers` | CTR and CCM over an ideal block cipher, with the nonces of channels, direct messages and groups |
| `Ladder` | the X25519 ladder over a small field |
| `Calculations`, `MCCalculations` | `Radio`, `Ciphers` and `Ladder`, of which a caller uses one at a time |
| `Inversion` | the addition chain of the field inversion, at full size |
| `CalculationsProofs` | the window follows the signal, the time on air is the formula, the addition chain inverts, no keystream is used twice and nothing altered opens |

Definitions whose comment starts with `Mutant:` are not part of a model.  Each is
a plausible mistake in the definition it precedes; replacing that definition by
it makes a run fail, which shows that the run's property depends on the code.

### Correspondence

`PacketId`: `IssueReady`, `IssuePersistFirst` and `IssueExhausted` are the three
results of `issue`, `Persisted` is `persisted`, `Restart` is a power loss followed
by `resume`.  `Store` is the caller's write.  `durable` is what the storage
holds; `written` remembers every mark it held, so that the caller may confirm an
old one late; `log` is the history of issued identifiers.

`HistoryOps`, `PacketHistory`: a history is the record of the fields of the
struct.  `RecentOf` reads it as the sequence of remembered packets and is the
refinement mapping to `RecentPackets`.

`DutyOps`, `DutyCycle`: likewise.  `onAir` and `permit` are history variables:
`onAir` is the airtime charged before each instant, so that a stretch of time
carries the difference of two of its values; `setBack` says whether the caller's
clock ever went back.  The sums saturate in the code; they stay far below the
width of a `u64` because the budget is below a `u32` of milliseconds, so the model
uses plain addition.

`Outbox`: a slot is free or holds a packet, its attempts and its deadline.  The
first slot that qualifies is taken, as in the code.  `Sender` conjoins what the
caller does with each answer; `stage`, `sent` and `handed` record what happened to
each packet.  Its caller may hold up to `MaxTaken` frames that it took from `next_due`, while
it originates others and other traffic goes on, and transmits each of them because
`next_due` says that it must (`delivery.rs:260-261`), also when the charge is refused by
then.  `beyond` is a history variable: the frames that went out so, and the window
they fell into.

`Flood`: `Receive` is `tm_rx_observe` with everything it calls: the history is
updated first, then `should_relay` decides and, if it gets that far, rolls the
window of the budget.  What follows is the caller: it queues the frame, or
cancels a queued one when a client hears another node's relay.  `Originate`
transmits and notes the packet in one step, since one task does both before it
looks at the radio again.  A relay whose charge is refused when its wait is over is
dropped.  `aired` is a history variable, the airtime of what was actually transmitted,
which is not read from the budget.  `Reboot` is `tm_ctx_init` after a loss of power.
`hopLimit` is the header's; `relay` stands for `relay_node` and is the node
itself, not its low byte, so two nodes with the same low byte are not confused in
the model though they may be on the air (`Delivery` has the byte).  How far a packet
may come is told by the walks from its originator.  Time on air and the length of a
backoff are left out: any waiting relay may be next.

`ProtoWire`: a function of the reader takes the buffer and a position and returns
the value and the next position, or the error.  A varint longer than its word
loses bits, as a shift does; `WordBits` and `U32Bits` are 64 and 32 in the code and
15 and 10 in the run, where 15 = 2 * 7 + 1 has the same short last group as
64 = 9 * 7 + 1.  `Messages`: a wrapper is a table of its fields, with the wire type
each is read as and when it is written; `Read` is a turn of a `decode` loop,
`FieldBytes` what a turn of `encode` writes, and `Reencode` is `encode` into a buffer
of `Room` bytes.  Strings and byte fields are
the same; that a `&str` must be UTF-8 is left out.

`Header`: flags are a number of eight bits put together and taken apart as in the
code.  Addresses and identifiers are whole numbers, except where a low byte is
taken.  `Frames`: the body of a frame is its content under a set of keystreams, so
that decrypting twice, or under another key, leaves what it would leave; lengths
are computed as the encoders compute them and compared with the same bounds.
The channel hash is an XOR, each bit of it the parity of that bit in the bytes.
What CCM seals opens under its key, nonce and header fields only: `Ciphers` shows
it of the construction.

`Delivery`: frames stay on the air for good and may be received at any time, any
number of times.  `Undecodable`, `Answer` and `Message` are what a caller does after
`tm_rx_observe`: the frame does not open, it is an acknowledgement, it is a
message.  A caller acknowledges every copy that asks for it, with an identifier of
its own, and processes first sightings only.  `seen` lists the first sightings of a
node's present life, its own packets and acknowledgements among them, of which the history
holds the last `HISTORY` (`Remembered`): what was evicted is a first sighting again.  That the ring of
`history.rs` is this is what `Context` shows.  A relay may send what it once heard,
evicted or not, since its wait is the caller's.  The clock is left out (`Interval = 0`:
each deadline has passed); `Sender` has it.  `PollShort` is `tm_outbox_next_due` with
a buffer that is too short.

`Roster`: a call that is refused changes nothing, and `AddError` says why.  The actor
of a call is an argument, as in the code.  `Groups` adds `SPEC.md`'s callers: `Invite`
and `Accept` carry the group key, since `open_in_place` needs it (`lib.rs` calls it
"the wrapped epoch key", section 5 of `SPEC.md` the wrapped key of the group);
`Rotate` is the owner's new group key, which the library leaves to it; a
receiver tries all keys it has.  `former`, `shutOut` and `revoked` are history
variables: who was removed and not added again, now, when a group key came into
use, and when an epoch did.

`Radio`: `Measure` and `Hear` are calls of the two calculations, whose arguments and
results are the state.  Of the two `u32` conversions of the code one is the bound on
a symbol, the other that on the sum.  Signals have the width of an `i16`, scaled
down.

`Ciphers`: a byte is a set of atoms and XOR the symmetric difference, so that what is
covered by a keystream and what is left after uncovering it are computed as in the
code.  The encryption of a block is an atom of its own for each key and block: the
block cipher is ideal, and no byte of an encryption is known from another.  A chain
of CBC-MAC is known by the blocks that went in, each filled up with zeros.  Numbers
are put into bytes digit by digit, by shifts (`Shifted`); a number of more digits than
it is given loses them, and `Fits` says that it does not.  `Block`, `WordLen` and `Radix` are 16, 4 and 256 in
the code and 7, 1 and 4 in the run, which keeps the layout: what a group authenticates
fills a block with the two bytes of its length, and the nonce of CCM is three bytes shorter
than a block.  `Arrivals` alters any one part of a frame.  The assumptions on the sizes
are the code's: a nonce holds three words, a tag is at least as long as the
shortest CCM has, addresses and identifiers are words, and the blocks of a text can
be counted (the wire allows 233 bytes).

`Ladder`: `Turn` is a turn of the loop of `scalarmult`, `Finish` what follows it and the
check of `x25519`.  The field has 89 elements; the operations on limbs are
fiat-crypto's and are taken for the field's.  `Inversion` follows the registers of
`invert` by the exponents of their powers.

## Runs

| Run | Configuration | Shows |
|---|---|---|
| `packet_id` | `PacketId.cfg` | 8 identifiers, blocks of 1, 2 and 3, seeds at the bottom and near the end: no reissue, at most a block skipped, short last block, exhaustion, and that a caller who follows the protocol is answered |
| `context` | `Context.cfg` | a ring of two among four packets, the zero key included: wraps, repeats, clears; a window of two ticks that rolls twice, airtimes of 1 and 2 in a budget of 2, a clock that may step back; in any order |
| `sender` | `Sender.cfg` | three frames in two slots, two attempts, a budget of two frames per window, up to two frames taken and not yet transmitted, polls up to one tick late, other traffic at any point; safety and retirement |
| `flood` | `Flood.cfg` | a ring of four, three repeaters and a client, losses, a retry, one restart of each node, a budget of one frame per window, which its own retry and a relay compete for once it has restarted |
| `flood_reaches_all` | `FloodLossless.cfg` | a kite of four routers without losses |
| `flood_forgets` | `FloodForgets.cfg` | a line of five with histories of one entry, two packets crossing, retries, no budget |
| `messages` | `Messages.cfg` | every wrapper on all byte strings of two fields from known, unknown, mistyped and overlong ones, and on strings that break off; two nodes, buffers of 16 bytes |
| `delivery` | `Delivery.cfg` | a sender with one slot and two attempts, a receiver, a relay with the low byte and the identifiers of the sender; texts, extensions, node information and direct messages, some too long; histories of one entry, up to three first sightings by reception in a life; a channel that hashes to 8 and one to 0; one restart |
| `groups` | `Groups.cfg` | an owner, two other nodes and a roster of two slots; two group keys of two epochs; two invites on the air; two packets, relayed; a payload of another application |
| `calculations` | `Calculations.cfg` | *Radio:* two presets, a bandwidth that does not divide a symbol, an implicit header, two modems that do not exist; ten lengths up to a whole frame; windows that are regular, flat, inverted, empty and twice as wide as a signed number holds.  *Ciphers:* two frames of two senders with the same identifiers, of three kinds; texts of no byte, part of a block, with and without a zero behind it, and more than a block; authenticated data of exactly a block and more.  *Ladder:* all public keys of eight bits, above the prime and with the top bit set included; four private keys |
| `groups_bumped` | `GroupsBumped.cfg` | violation, see below |
| `flood_throttled` | `FloodThrottled.cfg` | violation, see below |

Why the bounds are enough. A ring of two wraps, is cleared half full and holds a
packet at each position; the theorem is about every length. Eight identifiers hold a
full block, a short one and the end of the space. Three frames in two slots fill the
outbox, make `track` refuse, and let a second entry wait behind the first that is
due. A window that rolls twice has two boundaries, which is where a fixed window
lets airtime add up. A ring and a kite are the smallest meshes with two routes of
the same and of different length; a line of five is longer than a hop limit of two
reaches. Two fields are enough for a repetition, for a wrong order and for a field
before and after an unknown one. Two packets of one sender, with identifiers 0 and
1, and a stranger's packet with identifier 1 are what an acknowledgement can be
mistaken for. A history of one entry forgets a packet as soon as another one is
seen or an acknowledgement is sent, and three first sightings are enough for the same
packet, another and the same again. Two slots have a hole before a member; three nodes exceed them. Two
keys and two epochs make an old and a new one of each. Two frames are all that a
block can be shared by. The curve over 89 elements has 8 times 11 points and its
twist 4 times 23; as with 2^255 - 19 the cofactors are 8 and 4 and what remains is prime, so
that a clamped key sends the points of small order, and only those, to zero.
Deadlock is not checked where clock, packets and attempts are bounded: those models
do come to an end.

Fairness.  `PacketId`: a caller that asks, stores and confirms, which is its side
of the `NextId` contract; nothing is owed by restarts.  `Sender`: the caller's
task keeps polling, transmitting and reaping and its clock advances.  Other
traffic must end (`QuietAfter`) for `EventuallyRetired`: while the budget is
refused, `next_due` neither resends nor retires an entry, and `reap` only takes
entries whose attempts are used up, so a node that is busy for good keeps the
slot for good.  `Flood`: receptions and waits end; loss is never required.

`EverybodyHears` needs a hop limit of at least two less than the number of nodes.
With a smaller one it fails even without losses, where the distances would
allow it: the copy with fewer hops left, by a longer but faster route, may come
first, and the better copy is then a duplicate.  It also needs nobody to defer: a
client that hears another's relay stays silent even for a neighbour who could
hear only it.

### Where code and documents disagree

* `flood_throttled`: `routing.rs:192-196` says that a frame suppressed for the
  budget "arriving a minute later may well be relayed".  `tm_rx_observe` has put
  it in the history by then, so it is a duplicate.
* `groups_bumped`: `lib.rs:552` says that a new epoch "is what actually revokes", and
  `SPEC.md:296` that a revoked member cannot read a later epoch.  Each epoch's key
  is derived from the group key and the epoch's number, which the envelope
  carries in clear; a former member has the group key.  `RotationRevokes` is what
  the code does give: a node that was removed when a new *group key* came into use
  opens nothing under it until it is added again.  Taking and sending that key is
  the caller's.
* `airtime.rs:167-168` says that `airtime_us` returns `None` for
  parameters out of range.  The coding rate is looked at only if the frame has more
  bits than its first eight symbols hold (`airtime.rs:199-210`).  A bandwidth is
  only tested for zero.
* `routing.rs:160-162` says that an inverted or empty range of
  signals gets the widest window.  The comparisons with floor and ceiling come first
  and leave nothing for that branch: at the floor the window is the narrowest.
* The C ABI defines `heard_relayed` as "I already have this frame queued for relay
  and have now heard somebody else send it" (`lib.rs:520-527`).  A queued frame is
  in the history, and `should_relay` tests for duplicates first (`routing.rs:271`),
  so `AlreadyRelayedByAnother` is not reported under that definition.  The relay is
  suppressed all the same; only the reason differs.
* `delivery.rs:39-41` says each retry is rebroadcast by every neighbour that hears
  it.  A neighbour that heard an earlier attempt suppresses it.  A retry is cheaper
  than documented, and does not repair a loss beyond the first hop.
* `PLAN.md:255` says that a retransmission "must be charged through
  `DutyCycle` like any other transmission" and that a retry policy that can outrun the
  budget "is a bug".  `next_due` asks the budget and reserves nothing
  (`delivery.rs:281`): what else the node transmits may spend it before the frame is on the
  air, and two frames that are taken together are permitted against the same room.  The caller
  has been told to transmit them, so the charge of one is refused in `Sender`, with
  `MaxTaken = 1` already.  A caller that drops them instead keeps the budget and
  loses their attempts, which are marked by then.  `OverrunIsWhatWasTaken` is what the code does give: no
  window carries more frames beyond its budget than the caller holds at once.
* `protobuf.rs:47` documents `MalformedVarint` for a varint that
  "would overflow 64 bits", and `protobuf.rs:135-136` refuses bits shifted past 64
  "rather than wrapping".  `checked_shl` (`protobuf.rs:143`) refuses only the shift itself; the
  upper bits of the tenth byte are dropped without an error.  What is left decodes the same
  everywhere (`NodesAgree`) and is never encoded as the bytes that arrived
  (`CanonicalIsBitIdentical`).
* `SPEC.md` section 6.3 says that the epoch wraps; `bump_epoch` refuses instead.  A
  roster always starts at epoch 0, so an owner that restarts must take a new
  group key.
* A negative `altitude` is encoded as five bytes, where a protobuf `int32` takes ten.
* A channel key of 32 bytes is cut to 16 (`lib.rs:390-392`).

Three consequences of the code that a caller should know.  Identifier 0 can be
tracked but never acknowledged, and on a channel whose hash is 0 what is addressed
to one node is taken for a direct message and does not open: each is an exception
in a property of `Delivery`.  `tm_pki_encode` may return up to 260 bytes, 11 more
than the outbox takes, and `Track` of `Delivery` refuses such a frame.  And `Outbox::acknowledge` compares identifiers only: that the
acknowledgement is addressed to this node is the caller's to check, and
`AckMeansProcessed` depends on it.

## Proofs

For every value of the constants, within their assumptions:

* `PacketIdProofs`.  The invariant: the block end never passes the durable mark,
  or nothing was issued yet in a first start; everything issued is below `next`
  and below the durable mark; the identifiers increase; a pending answer lies
  between.  From it: `TypeCorrect`, `AlwaysIssuedBelowDurable`, the refinement of
  `IdStream`, and `RestartBound`.  `IssuedBelowDurable` alone is not inductive: it
  needs to know that what may be issued next is already covered by the mark.
* `ContextProofs`.  *The history:* the cursor is within the ring and equals the length
  until the ring is full, and the entries below the length are distinct.  From it:
  `TypeCorrect`, `NoPacketIsKeptTwice`, and `Refinement`, that of `RecentPackets` for every
  capacity, zero included; the lemma `RecordRecent` is its heart, where the ring's
  index arithmetic is read as append and tail.  *The budget:* there is room for what
  the last check permitted, whence `NeverOverBudget` and `PermissionIsKept`, for any
  movement of the clock.  `StraddlesTwoWindows` is about a clock that was never set
  back.  Its invariant `Past` says of every stretch of time what the bound says, and
  what makes that inductive: what was charged since the window began is `used`, and
  what was charged less than a window's length before it is at most one
  budget.  *Both:* `ContextIsBoth`, so that each theorem holds of a `TmCtx`, too.
* `SenderProofs`.  The invariant: a packet is tracked if and only if it is in a slot, and in
  one only; a slot's attempts are the packet's transmissions and those its
  caller still owes, no more than the policy allows; a slot's deadline is an interval
  after it was last handed out.  From it: `OneSlotEach`, `CeilingHolds`,
  `HandingOutWaits` and `GivingUpIsEvidence`, for any number of packets and slots and
  any caller.  `OverrunIsBounded` holds for every `MaxTaken`.  It adds to the invariant
  that, once a frame of the present window went out beyond the budget, the window has no room
  for another until it rolls, so that what is still owed was taken before: what
  went beyond and what is still held are together no more than `MaxTaken`.
* `FloodProofs`.  For every mesh, every number of packets and every history:
  `ReachIsBounded`, by walks whose lengths are the hops a frame has spent, on the air and in
  the queues; and `AirtimeIsLimited`, whose invariant is that what a node was on the air for
  before its present window is at most the budget of the windows since, and the rest of it is
  what that window was charged.  `OnePerLife` has the hypothesis that the history
  holds as many packets as there are, which its property begins with; shorter
  histories do forget (`flood_forgets`).  Its invariant is an account for each node and
  packet: what was relayed, what waits and what the node originated are covered
  by what it knows in its history and by its restarts.  It is not inductive without
  knowing that nothing that waits was forgotten, for which the remembered packets and
  the slots they take are counted.
* `DeliveryProofs`.  For any nodes, traffic, keys, policy and number of slots.
  The invariant `IInv` relates what is on the air, what the receivers did and what the
  outbox holds.  `AirOK`: every frame ever transmitted is a copy of its packet's
  first frame, altered only where a relay alters it, or an acknowledgement with an
  identifier of its own that names a packet which asked for it and which its sender has
  processed.  `ReceivedOK`: a packet that was sighted was processed if it opens, and k
  times only if it was sighted once more after the first (k - 1) * (`HISTORY` + 1) first sightings,
  since `HISTORY` others lie between two sightings of one packet.  `OutboxOK`: attempts are accounted for.
  `AnswersOK`: what was answered is not pending, and what was acknowledged was answered.  `AckMeansProcessed` is not inductive
  without all that: an acknowledgement is matched by a bare identifier, so every
  frame that could match must be known to be about that packet.  Each action has a lemma.
  From it all seven properties of the run: `AckedIsDelivered`, `DeliveredOnce`,
  `NoAnswerIsLost`, `OthersOpen`, `KeystreamsAreApart`, `NoAckOfAnAck` and
  `EveryAttemptCounts`.  No length of the history
  is assumed: `DeliveredOnce` says how many first sightings it takes to process a packet
  again: with the code's 400 entries, 401 for each further time.  What is assumed of the constants: nodes are numbers other
  than the broadcast address, the traffic consists of what the encoders take, a
  direct message has one addressee, the packets of the outbox are the sender's, and a
  policy has an attempt.
* `GroupsProofs`.  The invariant of the roster: the slots are typed and no
  node is in two.  From it: `OneSlotEach`; `FullIsFull`, for which the members and the
  slots that hold them are put in bijection; and `RosterIsMembership`, the refinement
  of `Membership`.  `TypeCorrect` and `EpochsOnlyAdvance` are about `Groups` as a
  whole.  `NoNonceTwice` and `OpensExactly` rest on the invariant `AirOK`: an identifier of
  a sender seals one text, and every envelope on the air is one that was sealed, with the
  fields it authenticates unchanged, so that a relay, which takes a hop from the packed
  flags, does not touch them (`RelayKeepsFlags`).  `ShutOutOfTheKey` rests on `KeysOK`: nobody has
  or is being sent a key it is shut out of, and no key is known before its time.
* `CalculationsProofs`.  `WidthFollowsSignal`: for every window, also where the span of its
  signals saturates.  A quotient grows with what is divided, and a saturated distance
  below a saturated span stays below it.  `EstimateIsTheFormula`: for every modem and
  length.  The quotient rounded up is the datasheet's least number of steps
  (`FewestSteps`), and each of the two roundings down loses less than one of what it
  divides by.  `ChainIsFermat`: exponents are sets of bits, runs of ones that the chain
  doubles; no product carries, and what is computed is the power 2^255 - 21, two
  less than the field has elements, hence the inverse.  `KeystreamNeverTwice` and
  `AlteredIsAlwaysRefused` hold over the ideal block cipher, whatever the sizes.  Their
  invariant `CipherInv`: what is on the air was sealed from a packet that nothing
  else on it has, and what was received is one of those, altered or not, with
  what opening it gave.  *Keystreams:* counting up with a carry adds one to the number that the
  digits are (`CounterAt`), so a block of a counter tells the nonce and how far it
  was counted; a nonce of each kind tells the packet, its identifier and extra
  nonce; and the first block of a MAC differs from every counter block in its first byte.
  *Tags:* a byte of a tag tells the MAC, the key and the nonce, because no chain of a MAC is the
  encryption of a counter block; a chain tells its blocks, its first block the lengths
  and the nonce, and its other blocks the authenticated data and the text, in
  which the lengths say where the padding begins.  Hence every byte of the tag depends on
  each field, on each byte of the text and, when the end of a frame was moved, on the length.
* `MessagesProofs`.  For every wrapper, every input, any number of nodes and buffer,
  and any word that is, as 32 and 64 are, no multiple of seven bits.  The
  invariant `IInv`: after the first node, what is on the way is the encoding of what it
  decoded (`OnItsWay`), and a decoder in the middle of the encoding of a message
  holds its first fields and blanks for the others (`ReadsBack`).  That one is kept because a
  varint, a field and a nested message read back as they were written, whatever
  follows them, and the encoding is read field by field (`ReadStep`).  From it
  `NodesAlwaysAgree` and `AckAlwaysRecognised`.  That canonical bytes are written
  again bit by bit needs `FieldsInv`: what the first node has read takes no fewer
  bytes than its fields written anew, and equals them when they are as many
  (`Fits`), and the message holds exactly these fields.  That only canonical bytes are
  needs the other direction: bytes that are the encoding of a message are read as its
  fields one after the other, with no bit lost (`Retraced`), so they are canonical, and bytes
  that lost a bit are the encoding of nothing.  From both `CanonicalIsAlwaysIdentical`.

The library states induction for a property that is an operator, which the provers
cannot instantiate.  `MessagesProofs` and `CalculationsProofs` take the set of numbers that
have the property instead (`SetInduction`, from the well-foundedness of the naturals), and
describe each recursive function by a start and a step.  So what digits, counters, chains and
messages of any length come to is proved, too.

The type invariants of `PacketId`, `PacketHistory` and `Groups`, that no packet takes two
slots of a history (`NoPacketIsKeptTwice`), that the roster is full exactly when it says
so (`FullIsFull`) and the addition chain are proved and in no run.

Only model-checked: liveness (`KeepsAnswering`, `EventuallyRetired`, `FloodEnds`,
`EverybodyHears`), which is outside what the prover does; and `AgreesWithTheCurve` of
`Ladder`, for the run's field: that the ladder computes multiples of a point rests on the
group law of the curve, identities of high degree over a finite field.  Two properties
are stated to be refuted, by the runs that expect a violation.

## Not modelled

* The rounds of AES, SHA-256, the limbs of the field and the hardware seam:
  algorithms without state, checked in the repository against published vectors,
  and a trait whose defaults call them.  That CCM and CTR are right does rest on AES.
* The policy a caller may ask the C ABI for, and how long a relay waits: attempts and
  airtimes are arbitrary where they matter, and waits end in any order.
* The panic-freedom and bounds that the repository's own Kani harnesses cover.
* `peek`, `reserved_until`, `tm_outbox_pending` and other getters.
* The checks of the C ABI for null pointers, its version and layout.  The ABI
  exports nothing that charges the budget in its context, so a C caller's budget
  is never spent; the models have the caller charge, as the Rust API lets it.

## Plan

1. Done: identifiers, history, budget, outbox and sender, flooding, messages,
   frames and delivery, groups, time on air and contention window, ciphers and key
   agreement.
2. Done: proofs of the safety and action properties of the identifiers, the
   context, the outbox and its caller, flooding, delivery, groups and of the radio's
   calculations, each for every value of the constants.
3. Done: proofs about what recurses over data, the messages and the ciphers.
4. Left: the step of the ladder as an identity of the curve, for fields beyond that
   of the run.
