------------------------------- MODULE Flood --------------------------------
(***************************************************************************)
(* Managed flooding: nodes that share a lossy medium, each with the history *)
(* of code/protocol/history.rs, the duty budget of airtime.rs and the       *)
(* rebroadcast decision of routing.rs, put together as the C ABI puts them  *)
(* together in tm_rx_observe, tm_note_originated and tm_relay_prepare.      *)
(*                                                                         *)
(* The radio and the task that waits out the backoff belong to the caller;  *)
(* they follow what the source asks of it: "wait a backoff drawn from this  *)
(* window, then transmit if nobody else did" (c-api lib.rs:524-526), charge *)
(* on actual transmission (routing.rs:255-259) and transmit no relay whose  *)
(* charge is refused, which is what charge is fallible for                  *)
(* (airtime.rs:309-314).  How long a relay waits is left open: any order of *)
(* the waiting relays may happen.                                          *)
(***************************************************************************)
EXTENDS HistoryOps, DutyOps

CONSTANTS
  Node,
  Neighbours,    \* of each node, the nodes that can hear it
  RoleOf,        \* of each node
  Packets,
  From,          \* the originator of each packet
  HopStart,      \* the hop limit a packet is originated with
  MaxAttempts,   \* how often its originator transmits a packet
  Airtime,       \* the airtime of a frame: 0 leaves the budget out
  Lossy,         \* whether a reception may fail
  MaxReboots,    \* bound of the restarts of each node
  MaxTime,       \* bound of the clock
  Counted        \* bound of the count of relays: 0 leaves them uncounted

Roles == {"Client", "Router", "Repeater"}

ASSUME NeighboursAssumption == Neighbours \in [Node -> SUBSET Node]
ASSUME RoleAssumption == RoleOf \in [Node -> Roles]
ASSUME PacketsAssumption == Packets \subseteq Keys
ASSUME FromAssumption == From \in [Packets -> Node]
ASSUME HopAssumption == HopStart \in 0..7
ASSUME AirtimeAssumption == Airtime \in Nat
ASSUME LossyAssumption == Lossy \in BOOLEAN
ASSUME BoundsAssumption ==
  MaxAttempts \in Nat /\ MaxReboots \in Nat /\ MaxTime \in Nat /\ Counted \in Nat

VARIABLES
  history,    \* TmCtx.history of each node
  duty,       \* TmCtx.duty of each node
  waiting,    \* the frames each caller has prepared and waits to relay
  air,        \* receptions: a frame, and a node it may still reach
  attempts,   \* how often each packet's originator transmitted it
  now,        \* the clock
  relays,     \* how often each node relayed each packet, counted to Counted
  reached,    \* the nodes each packet has reached
  throttled,  \* the packets each node suppressed for its budget
  aired,      \* ghost: the airtime each node was on the air for since it started
  reboots     \* how often each node restarted

vars == <<history, duty, waiting, air, attempts, now,
          relays, reached, throttled, aired, reboots>>

Init == /\ history = [n \in Node |-> NewHistory]
        /\ now = 0
        /\ duty = [n \in Node |-> NewDuty(now)]
        /\ waiting = [n \in Node |-> {}]
        /\ air = {}
        /\ attempts = [p \in Packets |-> 0]
        /\ relays = [n \in Node |-> [p \in Packets |-> 0]]
        /\ reached = [p \in Packets |-> {From[p]}]
        /\ throttled = [n \in Node |-> {}]
        /\ aired = [n \in Node |-> 0]
        /\ reboots = [n \in Node |-> 0]

\* What a node puts on the air may reach each of its neighbours.
OnAir(n, frame) == {[to |-> m, frame |-> frame] : m \in Neighbours[n]}

(***************************************************************************)
(* should_relay: the reason not to, or "After".                            *)
(***************************************************************************)
DefersToOthers(role) == role = "Client"

\* Mutant: the last hop is not taken.
BeforeBudgetShort(duplicate, hopLimit, heardRelayed, role) ==
  IF duplicate THEN "Duplicate"
  ELSE IF hopLimit <= 1 THEN "HopLimitExhausted"
  ELSE IF heardRelayed /\ DefersToOthers(role) THEN "AlreadyRelayedByAnother"
  ELSE "After"

BeforeBudget(duplicate, hopLimit, heardRelayed, role) ==
  IF duplicate THEN "Duplicate"
  ELSE IF hopLimit = 0 THEN "HopLimitExhausted"
  ELSE IF heardRelayed /\ DefersToOthers(role) THEN "AlreadyRelayedByAnother"
  ELSE "After"

\* The budget is consulted, and its window rolled, only when nothing else
\* suppresses the frame.
ShouldRelay(duplicate, hopLimit, heardRelayed, role, d) ==
  LET verdict == BeforeBudget(duplicate, hopLimit, heardRelayed, role)
  IN  IF verdict = "After" /\ ~WouldPermit(d, now, Airtime)
      THEN "DutyBudgetExhausted" ELSE verdict

\* Mutant: the hop limit is carried like the rest of the header.
PreparedUnspent(n, f) == [packet |-> f.packet, hopLimit |-> f.hopLimit, relay |-> n]

\* tm_relay_prepare: one hop spent, our relay byte, the packet untouched.
Prepared(n, f) == [packet |-> f.packet, hopLimit |-> f.hopLimit - 1, relay |-> n]

(***************************************************************************)
(* Originating.  The caller transmits and notes the packet as its own; a    *)
(* later attempt resends the stored frame verbatim.                        *)
(***************************************************************************)
Send(p) ==
  LET n == From[p]
      frame == [packet |-> p, hopLimit |-> HopStart, relay |-> n]
  IN  /\ attempts[p] < MaxAttempts
      /\ WouldPermit(duty[n], now, Airtime)
      /\ duty' = [duty EXCEPT ![n] = Charged(@, now, Airtime)]
      /\ aired' = [aired EXCEPT ![n] = @ + Airtime]
      /\ attempts' = [attempts EXCEPT ![p] = @ + 1]
      /\ air' = air \cup OnAir(n, frame)

\* Mutant: a packet of our own is not noted.
OriginateUnnoted(p) ==
  /\ attempts[p] = 0
  /\ Send(p)
  /\ UNCHANGED <<history, waiting, now, relays, reached, throttled, reboots>>

Originate(p) ==
  /\ attempts[p] = 0
  /\ Send(p)
  /\ history' = [history EXCEPT ![From[p]] = Observe(@, p)]
  /\ UNCHANGED <<waiting, now, relays, reached, throttled, reboots>>

Resend(p) ==
  /\ attempts[p] > 0
  /\ Send(p)
  /\ UNCHANGED <<history, waiting, now, relays, reached, throttled, reboots>>

(***************************************************************************)
(* tm_rx_observe, and what its caller does with the answer.                 *)
(***************************************************************************)
Queued(n, p) == {w \in waiting[n] : w.packet = p}

\* "I already have this frame queued for relay and have now heard somebody else
\* send it" (c-api lib.rs:520-522): somebody other than its originator.
HeardRelayed(n, f) == Queued(n, f.packet) # {} /\ f.relay # From[f.packet]

Duplicate(n, f) == Contains(history[n], f.packet)

Verdict(n, f) == ShouldRelay(Duplicate(n, f), f.hopLimit, HeardRelayed(n, f),
                             RoleOf[n], duty[n])

Observed(n, f) ==
  /\ history' = [history EXCEPT ![n] = Observe(@, f.packet)]
  /\ duty' = [duty EXCEPT ![n] =
                IF BeforeBudget(Duplicate(n, f), f.hopLimit, HeardRelayed(n, f),
                                RoleOf[n]) = "After"
                THEN Roll(@, now) ELSE @]

Receive(n, f) ==
  LET r == [to |-> n, frame |-> f]
  IN  /\ r \in air
      /\ air' = air \ {r}
      /\ Observed(n, f)
      /\ waiting' = [waiting EXCEPT ![n] =
           CASE Verdict(n, f) = "After" -> @ \cup {Prepared(n, f)}
             [] Verdict(n, f) # "After" /\ HeardRelayed(n, f)
                  /\ DefersToOthers(RoleOf[n]) -> @ \ Queued(n, f.packet)
             [] OTHER -> @]
      /\ reached' = [reached EXCEPT ![f.packet] = @ \cup {n}]
      /\ throttled' = [throttled EXCEPT ![n] =
           IF Verdict(n, f) = "DutyBudgetExhausted" THEN @ \cup {f.packet} ELSE @]
      /\ UNCHANGED <<attempts, now, relays, aired, reboots>>

Lose(r) == /\ Lossy
           /\ r \in air
           /\ air' = air \ {r}
           /\ UNCHANGED <<history, duty, waiting, attempts, now,
                          relays, reached, throttled, aired, reboots>>

(***************************************************************************)
(* The wait of a relay ends.  Its charge may be refused by now, whatever    *)
(* the decision saw: the frame is then dropped.                            *)
(***************************************************************************)
\* Mutant: a relay is sent because it was decided on, whatever the charge says.
RelayAsDecided(n, w) ==
  /\ w \in waiting[n]
  /\ air' = air \cup OnAir(n, w)
  /\ relays' = [relays EXCEPT ![n][w.packet] = IF @ < Counted THEN @ + 1 ELSE @]
  /\ aired' = [aired EXCEPT ![n] = @ + Airtime]
  /\ duty' = [duty EXCEPT ![n] = Charged(@, now, Airtime)]
  /\ waiting' = [waiting EXCEPT ![n] = @ \ {w}]
  /\ UNCHANGED <<history, attempts, now, reached, throttled, reboots>>

Relay(n, w) ==
  /\ w \in waiting[n]
  /\ WouldPermit(duty[n], now, Airtime)
  /\ air' = air \cup OnAir(n, w)
  /\ relays' = [relays EXCEPT ![n][w.packet] = IF @ < Counted THEN @ + 1 ELSE @]
  /\ aired' = [aired EXCEPT ![n] = @ + Airtime]
  /\ duty' = [duty EXCEPT ![n] = Charged(@, now, Airtime)]
  /\ waiting' = [waiting EXCEPT ![n] = @ \ {w}]
  /\ UNCHANGED <<history, attempts, now, reached, throttled, reboots>>

RelayRefused(n, w) ==
  /\ w \in waiting[n]
  /\ ~WouldPermit(duty[n], now, Airtime)
  /\ duty' = [duty EXCEPT ![n] = Charged(@, now, Airtime)]
  /\ waiting' = [waiting EXCEPT ![n] = @ \ {w}]
  /\ UNCHANGED <<history, air, attempts, now, relays, reached, throttled, aired, reboots>>

(***************************************************************************)
(* A restart: tm_ctx_init writes a new context, and the caller's queue was  *)
(* in memory.  Whatever was noted or seen is forgotten.                    *)
(***************************************************************************)
Reboot(n) ==
  /\ reboots[n] < MaxReboots
  /\ reboots' = [reboots EXCEPT ![n] = @ + 1]
  /\ history' = [history EXCEPT ![n] = NewHistory]
  /\ duty' = [duty EXCEPT ![n] = NewDuty(0)]
  /\ waiting' = [waiting EXCEPT ![n] = {}]
  /\ throttled' = [throttled EXCEPT ![n] = {}]
  /\ aired' = [aired EXCEPT ![n] = 0]
  /\ UNCHANGED <<air, attempts, now, relays, reached>>

Tick == /\ now < MaxTime
        /\ now' = now + 1
        /\ UNCHANGED <<history, duty, waiting, air, attempts,
                       relays, reached, throttled, aired, reboots>>

Transmission == \E n \in Node : \E w \in waiting[n] : Relay(n, w) \/ RelayRefused(n, w)
Reception == \E r \in air : Receive(r.to, r.frame)

Next == \/ \E p \in Packets : Originate(p) \/ Resend(p)
        \/ Reception
        \/ \E r \in air : Lose(r)
        \/ Transmission
        \/ \E n \in Node : Reboot(n)
        \/ Tick

Spec == Init /\ [][Next]_vars

\* The radio delivers or loses what is on the air, and every wait is finite.
FairSpec == Spec /\ WF_vars(Reception) /\ WF_vars(Transmission)

(***************************************************************************)
(* Properties.                                                             *)
(***************************************************************************)

\* While its history holds as many packets as there are, a node relays a packet
\* at most once, and never its own: however often, in whatever order and by
\* whatever routes copies of it return, and whatever its originator resends
\* (history.rs:6-9, c-api lib.rs:850-860).  A restart forgets, and costs at most
\* one more relay.
RelayedOncePerLife ==
  \A n \in Node, p \in Packets :
    relays[n][p] <= reboots[n] + (IF n = From[p] THEN 0 ELSE 1)

\* The nodes within k transmissions of n.
Walks(n, k) == {walk \in [0..k -> Node] :
                  /\ walk[0] = n
                  /\ \A i \in 1..k : walk[i] \in {walk[i - 1]} \cup Neighbours[walk[i - 1]]}
Within(n, k) == {walk[k] : walk \in Walks(n, k)}

\* As far as a packet's first hop limit takes it.
InReach == [n \in Node |-> Within(n, HopStart + 1)]

\* A packet travels no farther than its originator allowed, whatever nodes
\* forgot: hop_limit relays, and so one transmission more (routing.rs:184-186).
WithinReach ==
  \A p \in Packets : reached[p] \subseteq InReach[From[p]]

\* The airtime of a node keeps to the share of the time its limit allows, and one
\* window's budget more: its own packets, their retries and the relays it decided
\* on together, however many of them were decided while there was room for one
\* and waited out their backoff past that (routing.rs:255-259, airtime.rs:309-314).
AiredWithinLimit ==
  \A n \in Node : aired[n] * Window <= Budget * (now + Window)

\* A flood ends: at last nothing is on the air and nothing waits, even when the
\* histories are too short to recognise what returns.  Only the hop limit is
\* left to end it then (history.rs:6-9).
FloodEnds == <>[](air = {} /\ \A n \in Node : waiting[n] = {})

\* Without losses, restarts or exhausted budgets, a packet that may be relayed
\* by every node reaches every node, provided nobody defers: an early copy over
\* a long route never shuts out the nodes that its shorter route would reach.
EverybodyHears ==
  \A p \in Packets : attempts[p] > 0 ~> reached[p] = Node

\* A frame that only the budget suppressed is relayed when it arrives again and
\* the budget permits: "the same frame arriving a minute later may well be
\* relayed" (routing.rs:192-196).
ThrottledIsRelayedLater ==
  [][\A r \in air :
       /\ Receive(r.to, r.frame)
       /\ r.frame.packet \in throttled[r.to]
       /\ r.frame.hopLimit > 0
       /\ WouldPermit(duty[r.to], now, Airtime)
       => waiting'[r.to] # waiting[r.to]]_vars
=============================================================================
