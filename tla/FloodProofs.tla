---------------------------- MODULE FloodProofs -----------------------------
(***************************************************************************)
(* Managed flooding for every mesh, set of packets, role of a node, budget  *)
(* and number of restarts, retries and losses.                              *)
(*                                                                         *)
(* The reach of a packet is kept frame by frame: the hops a frame has spent *)
(* are at least the transmissions between its originator and whoever holds  *)
(* it.  That a node relays once is an account: each relay, a relay still    *)
(* waiting and a packet of its own are paid for by a restart or by the one  *)
(* place the packet has in the history of this life.                       *)
(***************************************************************************)
EXTENDS Flood, FiniteSetTheorems, TLAPS

USE CapacityAssumption, ZeroKeyAssumption, NeighboursAssumption, PacketsAssumption,
    FromAssumption, HopAssumption, AirtimeAssumption, BoundsAssumption

Carried == [packet : Packets, hopLimit : 0..HopStart, relay : Node]

FloodType == /\ history \in [Node -> History]
             /\ duty \in [Node -> Duty]
             /\ now \in Nat
             /\ waiting \in [Node -> SUBSET Carried]
             /\ air \subseteq [to : Node, frame : Carried]
             /\ attempts \in [Packets -> Nat]
             /\ relays \in [Node -> [Packets -> Nat]]
             /\ reached \in [Packets -> SUBSET Node]
             /\ aired \in [Node -> Nat]
             /\ reboots \in [Node -> Nat]
----------------------------------------------------------------------------
(* Types.                                                                    *)

LEMMA BudgetIsNat == Budget \in Nat
<1>1. Window * LimitPermille \in Nat
  BY WindowAssumption, LimitAssumption
<1>2. QED
  BY <1>1 DEF Budget

LEMMA DutyProperties ==
  ASSUME NEW d \in Duty, NEW t \in Nat
  PROVE  /\ Roll(d, t) \in Duty
         /\ Charged(d, t, Airtime) \in Duty
BY DEF Duty, Roll, NewDuty, Charged, WouldPermit

LEMMA HistoryProperties ==
  /\ NewHistory \in History
  /\ \A h \in History, key \in Keys : Observe(h, key) \in History
BY DEF NewHistory, History, Slots, Observe, Record

\* A relay is decided only for a packet not seen before and with a hop to spend.
LEMMA AfterMeans ==
  ASSUME NEW n, NEW f, Verdict(n, f) = "After"
  PROVE  ~Duplicate(n, f) /\ f.hopLimit # 0
BY DEF Verdict, ShouldRelay, BeforeBudget

\* A reception leaves of the receiver's queue what it held, without the packet,
\* or adds to it the relay it has decided on.
LEMMA QueueAfter ==
  ASSUME FloodType, NEW n \in Node, NEW f, Receive(n, f)
  PROVE  /\ \A m \in Node : m # n => waiting'[m] = waiting[m]
         /\ \/ waiting'[n] = waiting[n] \cup {Prepared(n, f)} /\ Verdict(n, f) = "After"
            \/ waiting'[n] \subseteq waiting[n]
BY DEF FloodType, Receive

LEMMA ReceivedType ==
  ASSUME FloodType, NEW n, NEW f, Receive(n, f)
  PROVE  /\ n \in Node /\ f \in Carried
         /\ f.packet \in Packets /\ f.hopLimit \in 0..HopStart /\ f.relay \in Node
<1>1. [to |-> n, frame |-> f] \in [to : Node, frame : Carried]
  BY DEF Receive, FloodType
<1>2. n \in Node /\ f \in Carried
  BY <1>1
<1>3. QED
  BY <1>2 DEF Carried

LEMMA PreparedType ==
  ASSUME NEW n \in Node, NEW f \in Carried, f.hopLimit # 0
  PROVE  /\ Prepared(n, f) \in Carried
         /\ Prepared(n, f).packet = f.packet
         /\ Prepared(n, f).hopLimit = f.hopLimit - 1
         /\ Prepared(n, f).hopLimit \in 0..HopStart
BY DEF Prepared, Carried

LEMMA OnAirType ==
  ASSUME NEW n \in Node, NEW f \in Carried
  PROVE  OnAir(n, f) \subseteq [to : Node, frame : Carried]
BY DEF OnAir

LEMMA TypeInit == Init => FloodType
<1> SUFFICES ASSUME Init PROVE FloodType
  OBVIOUS
<1>1. history \in [Node -> History]
  BY HistoryProperties DEF Init
<1>2. duty \in [Node -> Duty] /\ now \in Nat
  BY DEF Init, Duty, NewDuty
<1>3. QED
  BY <1>1, <1>2 DEF Init, FloodType

LEMMA SendType ==
  ASSUME FloodType, NEW p \in Packets, Send(p)
  PROVE  /\ duty' \in [Node -> Duty]
         /\ attempts' \in [Packets -> Nat]
         /\ aired' \in [Node -> Nat]
         /\ air' \subseteq [to : Node, frame : Carried]
<1> DEFINE f == [packet |-> p, hopLimit |-> HopStart, relay |-> From[p]]
<1>1. From[p] \in Node /\ f \in Carried
  BY DEF Carried
<1>2. duty[From[p]] \in Duty /\ now \in Nat
  BY <1>1 DEF FloodType
<1>3. Charged(duty[From[p]], now, Airtime) \in Duty
  BY <1>2, DutyProperties
<1>4. duty' \in [Node -> Duty]
  BY <1>3 DEF FloodType, Send
<1>5. attempts' \in [Packets -> Nat] /\ aired' \in [Node -> Nat]
  BY DEF FloodType, Send
<1>6. OnAir(From[p], f) \subseteq [to : Node, frame : Carried]
  BY <1>1, OnAirType
<1>7. air' \subseteq [to : Node, frame : Carried]
  BY <1>6 DEF FloodType, Send
<1>8. QED
  BY <1>4, <1>5, <1>7

LEMMA TypeStep == FloodType /\ [Next]_vars => FloodType'
<1> SUFFICES ASSUME FloodType, [Next]_vars PROVE FloodType'
  OBVIOUS
<1>1. ASSUME NEW p \in Packets, Originate(p) PROVE FloodType'
  <2>1. From[p] \in Node /\ history[From[p]] \in History /\ p \in Keys
    BY DEF FloodType
  <2>2. history' \in [Node -> History]
    BY <1>1, <2>1, HistoryProperties DEF Originate, FloodType
  <2>3. QED
    BY <1>1, <2>2, SendType DEF Originate, FloodType
<1>2. ASSUME NEW p \in Packets, Resend(p) PROVE FloodType'
  BY <1>2, SendType DEF Resend, FloodType
<1>3. ASSUME NEW n, NEW f, Receive(n, f) PROVE FloodType'
  <2>1. n \in Node /\ f \in Carried /\ f.packet \in Packets /\ f.packet \in Keys
    BY <1>3, ReceivedType
  <2>2. history[n] \in History /\ duty[n] \in Duty /\ now \in Nat
    BY <2>1 DEF FloodType
  <2>3. history' \in [Node -> History]
    BY <1>3, <2>1, <2>2, HistoryProperties DEF Receive, Observed, FloodType
  <2>4. duty' \in [Node -> Duty]
    BY <1>3, <2>1, <2>2, DutyProperties DEF Receive, Observed, FloodType
  <2>5. waiting' \in [Node -> SUBSET Carried]
    <3>1. waiting'[n] \subseteq Carried
      BY <1>3, <2>1, QueueAfter, AfterMeans, PreparedType DEF FloodType
    <3>2. \A m \in Node : waiting'[m] \in SUBSET Carried
      BY <1>3, <2>1, <3>1, QueueAfter DEF FloodType
    <3>3. DOMAIN waiting' = Node /\ waiting' = [m \in Node |-> waiting'[m]]
      BY <1>3 DEF Receive, FloodType
    <3>4. QED
      BY <3>2, <3>3
  <2>6. reached' \in [Packets -> SUBSET Node]
    BY <1>3, <2>1 DEF Receive, FloodType
  <2>7. QED
    BY <1>3, <2>3, <2>4, <2>5, <2>6 DEF Receive, FloodType
<1>4. ASSUME NEW r \in air, Lose(r) PROVE FloodType'
  BY <1>4 DEF Lose, FloodType
<1>5. ASSUME NEW n \in Node, NEW w \in waiting[n], Relay(n, w) PROVE FloodType'
  <2>1. w \in Carried /\ w.packet \in Packets /\ duty[n] \in Duty
    BY DEF FloodType, Carried
  <2>2. OnAir(n, w) \subseteq [to : Node, frame : Carried]
    BY <2>1, OnAirType
  <2>3. duty' \in [Node -> Duty]
    BY <1>5, <2>1, DutyProperties DEF Relay, FloodType
  <2>4. relays' \in [Node -> [Packets -> Nat]]
    BY <1>5, <2>1 DEF Relay, FloodType
  <2>5. QED
    BY <1>5, <2>2, <2>3, <2>4 DEF Relay, FloodType
<1>6. ASSUME NEW n \in Node, NEW w \in waiting[n], RelayRefused(n, w) PROVE FloodType'
  <2>1. duty' \in [Node -> Duty]
    BY <1>6, DutyProperties DEF RelayRefused, FloodType
  <2>2. QED
    BY <1>6, <2>1 DEF RelayRefused, FloodType
<1>7. ASSUME NEW n \in Node, Reboot(n) PROVE FloodType'
  <2>1. NewDuty(0) \in Duty
    BY DEF NewDuty, Duty
  <2>2. QED
    BY <1>7, <2>1, HistoryProperties DEF Reboot, FloodType
<1>8. CASE Tick
  BY <1>8 DEF Tick, FloodType
<1>9. CASE UNCHANGED vars
  BY <1>9 DEF vars, FloodType
<1>10. QED
  BY <1>1, <1>2, <1>3, <1>4, <1>5, <1>6, <1>7, <1>8, <1>9
     DEF Next, Reception, Transmission

LEMMA TypeInvariant == Spec => []FloodType
BY TypeInit, TypeStep, PTL DEF Spec
----------------------------------------------------------------------------
(* The reach of a packet.                                                    *)

\* Where a walk of k transmissions ends, one more leads to a neighbour.
LEMMA OneTransmission ==
  ASSUME NEW n \in Node, NEW k \in Nat, NEW m \in Within(n, k), NEW to \in Neighbours[m]
  PROVE  to \in Within(n, k + 1)
<1>1. PICK walk \in Walks(n, k) : m = walk[k]
  BY DEF Within
<1> DEFINE longer == [i \in 0..(k + 1) |-> IF i = k + 1 THEN to ELSE walk[i]]
<1>2. /\ walk \in [0..k -> Node] /\ walk[0] = n
      /\ \A i \in 1..k : walk[i] \in {walk[i - 1]} \cup Neighbours[walk[i - 1]]
  BY DEF Walks
<1>3. m \in Node /\ to \in Node
  BY <1>1, <1>2
<1>4. longer \in [0..(k + 1) -> Node] /\ longer[0] = n /\ longer[k + 1] = to
  BY <1>2, <1>3
<1>5. ASSUME NEW i \in 1..(k + 1)
      PROVE  longer[i] \in {longer[i - 1]} \cup Neighbours[longer[i - 1]]
  <2>1. CASE i = k + 1
    BY <1>1, <1>2, <2>1
  <2>2. CASE i # k + 1
    <3>1. i \in 1..k /\ longer[i] = walk[i] /\ longer[i - 1] = walk[i - 1]
      BY <2>2
    <3>2. QED
      BY <1>2, <3>1
  <2>3. QED
    BY <2>1, <2>2
<1>6. longer \in Walks(n, k + 1)
  BY <1>4, <1>5 DEF Walks
<1>7. QED
  BY <1>4, <1>6 DEF Within

\* Transmissions that are left over may be spent standing still.
LEMMA StandingStill ==
  ASSUME NEW n \in Node, NEW j \in Nat, NEW k \in 0..j
  PROVE  Within(n, k) \subseteq Within(n, j)
<1> SUFFICES ASSUME NEW m \in Within(n, k) PROVE m \in Within(n, j)
  OBVIOUS
<1>1. PICK walk \in Walks(n, k) : m = walk[k]
  BY DEF Within
<1> DEFINE longer == [i \in 0..j |-> IF i <= k THEN walk[i] ELSE m]
<1>2. /\ walk \in [0..k -> Node] /\ walk[0] = n
      /\ \A i \in 1..k : walk[i] \in {walk[i - 1]} \cup Neighbours[walk[i - 1]]
  BY DEF Walks
<1>3. longer \in [0..j -> Node] /\ longer[0] = n /\ longer[j] = m
  BY <1>1, <1>2
<1>4. ASSUME NEW i \in 1..j
      PROVE  longer[i] \in {longer[i - 1]} \cup Neighbours[longer[i - 1]]
  <2>1. CASE i <= k
    <3>1. i \in 1..k /\ longer[i] = walk[i] /\ longer[i - 1] = walk[i - 1]
      BY <2>1
    <3>2. QED
      BY <1>2, <3>1
  <2>2. CASE ~(i <= k)
    <3>1. longer[i] = m /\ longer[i - 1] = m
      BY <1>1, <2>2
    <3>2. QED
      BY <3>1
  <2>3. QED
    BY <2>1, <2>2
<1>5. longer \in Walks(n, j)
  BY <1>3, <1>4 DEF Walks
<1>6. QED
  BY <1>3, <1>5 DEF Within

LEMMA AtHome == ASSUME NEW n \in Node PROVE n \in Within(n, 0)
<1> DEFINE walk == [i \in 0..0 |-> n]
<1>1. walk \in Walks(n, 0) /\ walk[0] = n
  BY DEF Walks
<1>2. QED
  BY <1>1 DEF Within

\* The hops a frame has spent.
Spent(f) == HopStart - f.hopLimit

ReachOK ==
  /\ \A r \in air : r.to \in Within(From[r.frame.packet], Spent(r.frame) + 1)
  /\ \A n \in Node : \A w \in waiting[n] : n \in Within(From[w.packet], Spent(w))
  /\ WithinReach

\* What a node puts on the air is heard one transmission farther away.
LEMMA HeardNextDoor ==
  ASSUME NEW n \in Node, NEW f \in Carried, n \in Within(From[f.packet], Spent(f)),
         NEW r \in OnAir(n, f)
  PROVE  r.to \in Within(From[r.frame.packet], Spent(r.frame) + 1)
<1>1. r.frame = f /\ r.to \in Neighbours[n]
  BY DEF OnAir
<1>2. From[f.packet] \in Node /\ Spent(f) \in Nat
  BY DEF Carried, Spent
<1>3. QED
  BY <1>1, <1>2, OneTransmission

LEMMA SendReach ==
  ASSUME FloodType, ReachOK, NEW p \in Packets, Send(p)
  PROVE  \A r \in air' : r.to \in Within(From[r.frame.packet], Spent(r.frame) + 1)
<1> DEFINE f == [packet |-> p, hopLimit |-> HopStart, relay |-> From[p]]
<1>1. f \in Carried /\ f.packet = p /\ Spent(f) = 0 /\ From[p] \in Node
  BY DEF Carried, Spent
<1>2. From[p] \in Within(From[f.packet], Spent(f))
  BY <1>1, AtHome
<1>3. air' = air \cup OnAir(From[p], f)
  BY DEF Send
<1> HIDE DEF f
<1>4. \A r \in OnAir(From[p], f) :
         r.to \in Within(From[r.frame.packet], Spent(r.frame) + 1)
  BY <1>1, <1>2, HeardNextDoor
<1>5. QED
  BY <1>3, <1>4 DEF ReachOK

LEMMA ReachStep == FloodType /\ ReachOK /\ [Next]_vars => ReachOK'
<1> SUFFICES ASSUME FloodType, ReachOK, [Next]_vars PROVE ReachOK'
  OBVIOUS
<1>1. ASSUME NEW p \in Packets, Originate(p) \/ Resend(p) PROVE ReachOK'
  <2>1. Send(p) /\ waiting' = waiting /\ reached' = reached
    BY <1>1 DEF Originate, Resend
  <2>2. QED
    BY <2>1, SendReach DEF ReachOK, WithinReach
<1>2. ASSUME NEW n, NEW f, Receive(n, f) PROVE ReachOK'
  <2>1. /\ n \in Node /\ f \in Carried
        /\ f.packet \in Packets /\ f.hopLimit \in 0..HopStart
        /\ From[f.packet] \in Node /\ Spent(f) \in Nat
    BY <1>2, ReceivedType DEF Spent
  <2>2. n \in Within(From[f.packet], Spent(f) + 1)
    BY <1>2 DEF Receive, ReachOK
  <2>3. air' \subseteq air
    BY <1>2 DEF Receive
  <2>4. ASSUME NEW m \in Node, NEW w \in waiting'[m] PROVE m \in Within(From[w.packet], Spent(w))
    <3>1. CASE w \in waiting[m]
      BY <3>1 DEF ReachOK
    <3>2. CASE w \notin waiting[m]
      <4>1. m = n /\ w = Prepared(n, f) /\ Verdict(n, f) = "After"
        BY <1>2, <2>1, <3>2, QueueAfter
      <4>2. w.packet = f.packet /\ Spent(w) = Spent(f) + 1
        BY <2>1, <4>1, AfterMeans, PreparedType DEF Spent
      <4>3. QED
        BY <2>2, <4>1, <4>2
    <3>3. QED
      BY <3>1, <3>2
  <2>5. Spent(f) + 1 \in 0..(HopStart + 1)
    BY <2>1 DEF Spent
  <2>6. n \in InReach[From[f.packet]]
    BY <2>1, <2>2, <2>5, StandingStill DEF InReach
  <2>7. WithinReach'
    BY <1>2, <2>1, <2>6 DEF Receive, ReachOK, WithinReach, FloodType
  <2>8. QED
    BY <2>3, <2>4, <2>7 DEF ReachOK
<1>3. ASSUME NEW r \in air, Lose(r) PROVE ReachOK'
  BY <1>3 DEF Lose, ReachOK, WithinReach
<1>4. ASSUME NEW n \in Node, NEW w \in waiting[n], Relay(n, w) PROVE ReachOK'
  <2>1. w \in Carried /\ n \in Within(From[w.packet], Spent(w))
    BY DEF FloodType, ReachOK
  <2>2. \A r \in OnAir(n, w) : r.to \in Within(From[r.frame.packet], Spent(r.frame) + 1)
    BY <2>1, HeardNextDoor
  <2>3. \A m \in Node : waiting'[m] \subseteq waiting[m]
    BY <1>4 DEF Relay, FloodType
  <2>4. QED
    BY <1>4, <2>2, <2>3 DEF Relay, ReachOK, WithinReach
<1>5. ASSUME NEW n \in Node, NEW w \in waiting[n], RelayRefused(n, w) PROVE ReachOK'
  <2>1. \A m \in Node : waiting'[m] \subseteq waiting[m]
    BY <1>5 DEF RelayRefused, FloodType
  <2>2. QED
    BY <1>5, <2>1 DEF RelayRefused, ReachOK, WithinReach
<1>6. ASSUME NEW n \in Node, Reboot(n) PROVE ReachOK'
  <2>1. \A m \in Node : waiting'[m] \subseteq waiting[m]
    BY <1>6 DEF Reboot, FloodType
  <2>2. QED
    BY <1>6, <2>1 DEF Reboot, ReachOK, WithinReach
<1>7. CASE Tick
  BY <1>7 DEF Tick, ReachOK, WithinReach
<1>8. CASE UNCHANGED vars
  BY <1>8 DEF vars, ReachOK, WithinReach
<1>9. QED
  BY <1>1, <1>2, <1>3, <1>4, <1>5, <1>6, <1>7, <1>8 DEF Next, Reception, Transmission

LEMMA ReachInit == Init => ReachOK
<1> SUFFICES ASSUME Init PROVE ReachOK
  OBVIOUS
<1>1. \A p \in Packets : From[p] \in InReach[From[p]]
  BY AtHome, StandingStill DEF InReach
<1>2. QED
  BY <1>1 DEF Init, ReachOK, WithinReach

\* However the mesh is linked, whatever is forgotten, lost or sent again, a
\* packet is heard no farther from its originator than the transmissions its
\* first hop limit pays for (routing.rs:184-186).
THEOREM ReachIsBounded == Spec => []WithinReach
<1>1. ReachOK => WithinReach
  BY DEF ReachOK
<1>2. QED
  BY <1>1, TypeInvariant, ReachInit, ReachStep, PTL DEF Spec
----------------------------------------------------------------------------
(* The airtime of a node.                                                    *)

\* What a node was on the air for in this window is what it charged; for the
\* time before, it kept to its share.
AiredOK == \A n \in Node :
             /\ duty[n].used <= Budget
             /\ duty[n].started <= now
             /\ aired[n] * Window <= Budget * duty[n].started + duty[n].used * Window

\* A window that rolls has lasted its time.
LEMMA AiredRolled ==
  ASSUME NEW d \in Duty, NEW t \in Nat, NEW a \in Nat, d.used <= Budget, d.started <= t,
         a * Window <= Budget * d.started + d.used * Window
  PROVE  /\ Roll(d, t) \in Duty
         /\ Roll(d, t).used <= Budget /\ Roll(d, t).started <= t
         /\ a * Window <= Budget * Roll(d, t).started + Roll(d, t).used * Window
<1>1. /\ Budget \in Nat /\ Window \in Nat
      /\ d.used \in Nat /\ d.started \in Nat /\ Roll(d, t) \in Duty
  BY BudgetIsNat, WindowAssumption, DutyProperties DEF Duty
<1>2. CASE Elapsed(d, t) >= Window
  <2>1. Roll(d, t) = [used |-> 0, started |-> t]
    BY <1>2 DEF Roll, NewDuty
  <2>2. PICK k \in Nat : t = d.started + Window + k
    <3>1. t - (d.started + Window) \in Nat
      BY <1>1, <1>2 DEF Elapsed
    <3>2. QED
      BY <1>1, <3>1
  <2>3. Budget * t = Budget * d.started + Budget * Window + Budget * k
    BY <1>1, <2>2
  <2>4. d.used * Window <= Budget * Window
    BY <1>1
  <2>5. a * Window <= Budget * t
    <3> DEFINE x == Budget * d.started
               y == Budget * Window
               z == Budget * k
               u == d.used * Window
               v == a * Window
    <3>1. x \in Nat /\ y \in Nat /\ z \in Nat /\ u \in Nat /\ v \in Nat
      BY <1>1, <2>2
    <3>2. v <= x + u /\ u <= y /\ Budget * t = x + y + z
      BY <2>3, <2>4
    <3> HIDE DEF x, y, z, u, v
    <3>3. v <= Budget * t
      BY <3>1, <3>2
    <3>4. QED
      BY <3>3 DEF v
  <2>6. QED
    BY <1>1, <2>1, <2>5
<1>3. CASE ~(Elapsed(d, t) >= Window)
  BY <1>1, <1>3 DEF Roll
<1>4. QED
  BY <1>2, <1>3

\* What is charged may be on the air; a refused charge leaves the roll.
LEMMA AiredCharged ==
  ASSUME NEW d \in Duty, NEW t \in Nat, NEW a \in Nat, d.used <= Budget, d.started <= t,
         a * Window <= Budget * d.started + d.used * Window
  PROVE  LET c == Charged(d, t, Airtime)
             b == IF WouldPermit(d, t, Airtime) THEN a + Airtime ELSE a
         IN  /\ c.used <= Budget /\ c.started <= t
             /\ b * Window <= Budget * c.started + c.used * Window
<1> DEFINE r == Roll(d, t)
<1>1. /\ r \in Duty /\ r.used <= Budget /\ r.started <= t
      /\ a * Window <= Budget * r.started + r.used * Window
  BY AiredRolled
<1>2. /\ Budget \in Nat /\ Window \in Nat /\ r.used \in Nat /\ r.started \in Nat
  BY <1>1, BudgetIsNat, WindowAssumption DEF Duty
<1>3. CASE WouldPermit(d, t, Airtime)
  <2>1. /\ Charged(d, t, Airtime) = [used |-> r.used + Airtime, started |-> r.started]
        /\ r.used + Airtime <= Budget
    BY <1>3 DEF Charged, WouldPermit
  <2> HIDE DEF r
  <2>2. /\ (a + Airtime) * Window = a * Window + Airtime * Window
        /\ (r.used + Airtime) * Window = r.used * Window + Airtime * Window
    BY <1>2
  <2>3. (a + Airtime) * Window <= Budget * r.started + (r.used + Airtime) * Window
    <3> DEFINE x == Budget * r.started
               u == r.used * Window
               w == Airtime * Window
               v == a * Window
    <3>1. x \in Nat /\ u \in Nat /\ w \in Nat /\ v \in Nat /\ v <= x + u
      BY <1>1, <1>2
    <3> HIDE DEF x, u, w, v
    <3>2. v + w <= x + (u + w)
      BY <3>1
    <3>3. QED
      BY <2>2, <3>2 DEF x, u, w, v
  <2>4. QED
    BY <1>1, <1>3, <2>1, <2>3
<1>4. CASE ~WouldPermit(d, t, Airtime)
  BY <1>1, <1>4 DEF Charged
<1>5. QED
  BY <1>3, <1>4

\* What node n charges does not disturb the account of the others.
LEMMA AiredOne ==
  ASSUME FloodType, AiredOK, NEW n \in Node, now' = now,
         duty' = [duty EXCEPT ![n] = Charged(@, now, Airtime)],
         aired' = IF WouldPermit(duty[n], now, Airtime)
                  THEN [aired EXCEPT ![n] = @ + Airtime] ELSE aired
  PROVE  AiredOK'
<1>1. /\ duty[n] \in Duty /\ now \in Nat /\ aired[n] \in Nat
      /\ duty[n].used <= Budget /\ duty[n].started <= now
      /\ aired[n] * Window <= Budget * duty[n].started + duty[n].used * Window
  BY DEF FloodType, AiredOK
<1>2. /\ duty'[n] = Charged(duty[n], now, Airtime)
      /\ aired'[n] = IF WouldPermit(duty[n], now, Airtime) THEN aired[n] + Airtime
                                                           ELSE aired[n]
      /\ \A m \in Node : m # n => duty'[m] = duty[m] /\ aired'[m] = aired[m]
  BY DEF FloodType
<1>3. /\ duty'[n].used <= Budget /\ duty'[n].started <= now
      /\ aired'[n] * Window <= Budget * duty'[n].started + duty'[n].used * Window
  BY <1>1, <1>2, AiredCharged
<1>4. Budget' = Budget
  BY DEF Budget
<1>5. QED
  BY <1>2, <1>3, <1>4 DEF AiredOK

LEMMA AiredStep == FloodType /\ AiredOK /\ [Next]_vars => AiredOK'
<1> SUFFICES ASSUME FloodType, AiredOK, [Next]_vars PROVE AiredOK'
  OBVIOUS
<1>0. Budget' = Budget /\ now \in Nat /\ \A n \in Node : duty[n] \in Duty /\ aired[n] \in Nat
  BY DEF Budget, FloodType
<1>1. ASSUME NEW p \in Packets, Originate(p) \/ Resend(p) PROVE AiredOK'
  <2>1. Send(p) /\ now' = now
    BY <1>1 DEF Originate, Resend
  <2>2. QED
    BY <2>1, AiredOne DEF Send
<1>2. ASSUME NEW n \in Node, NEW w \in waiting[n], Relay(n, w) \/ RelayRefused(n, w)
      PROVE  AiredOK'
  BY <1>2, AiredOne DEF Relay, RelayRefused
<1>3. ASSUME NEW n, NEW f, Receive(n, f) PROVE AiredOK'
  <2>1. n \in Node /\ now' = now /\ aired' = aired
    BY <1>3, ReceivedType DEF Receive
  <2>2. /\ duty'[n] \in {duty[n], Roll(duty[n], now)}
        /\ \A m \in Node : m # n => duty'[m] = duty[m]
    BY <1>3, <2>1 DEF Receive, Observed, FloodType
  <2>3. /\ duty[n] \in Duty /\ duty[n].used <= Budget /\ duty[n].started <= now
        /\ aired[n] * Window <= Budget * duty[n].started + duty[n].used * Window
    BY <1>0, <2>1 DEF AiredOK
  <2>4. /\ duty'[n].used <= Budget /\ duty'[n].started <= now
        /\ aired[n] * Window <= Budget * duty'[n].started + duty'[n].used * Window
    BY <1>0, <2>1, <2>2, <2>3, AiredRolled
  <2>5. QED
    BY <1>0, <2>1, <2>2, <2>4 DEF AiredOK
<1>4. ASSUME NEW n \in Node, Reboot(n) PROVE AiredOK'
  <2>1. /\ duty'[n] = [used |-> 0, started |-> 0] /\ aired'[n] = 0 /\ now' = now
        /\ \A m \in Node : m # n => duty'[m] = duty[m] /\ aired'[m] = aired[m]
    BY <1>4 DEF Reboot, NewDuty, FloodType
  <2>2. Budget \in Nat /\ Window \in Nat
    BY BudgetIsNat, WindowAssumption
  <2>3. QED
    BY <1>0, <2>1, <2>2 DEF AiredOK
<1>5. CASE Tick
  <2>1. now' = now + 1 /\ duty' = duty /\ aired' = aired
    BY <1>5 DEF Tick
  <2>2. ASSUME NEW n \in Node PROVE duty[n].started <= now + 1
    BY <1>0 DEF AiredOK, Duty
  <2>3. QED
    BY <1>0, <2>1, <2>2 DEF AiredOK
<1>6. CASE UNCHANGED <<duty, aired, now>>
  BY <1>0, <1>6 DEF AiredOK
<1>7. QED
  BY <1>1, <1>2, <1>3, <1>4, <1>5, <1>6 DEF Next, Reception, Transmission, Lose, vars

\* Whatever a node transmits, packets of its own, their retries and relays decided
\* on before a wait, it is on the air for no more than the share of the time its
\* limit allows and one window's budget (routing.rs:255-259, airtime.rs:309-321).
THEOREM AirtimeIsLimited == Spec => []AiredWithinLimit
<1>1. Init => AiredOK
  <2> SUFFICES ASSUME Init PROVE AiredOK
    OBVIOUS
  <2>1. Budget \in Nat /\ Window \in Nat
    BY BudgetIsNat, WindowAssumption
  <2>2. now = 0 /\ \A n \in Node : duty[n] = [used |-> 0, started |-> 0] /\ aired[n] = 0
    BY DEF Init, NewDuty
  <2>3. QED
    BY <2>1, <2>2 DEF AiredOK
<1>2. FloodType /\ AiredOK => AiredWithinLimit
  <2> SUFFICES ASSUME FloodType, AiredOK, NEW n \in Node
               PROVE  aired[n] * Window <= Budget * (now + Window)
    BY DEF AiredWithinLimit
  <2>1. /\ Budget \in Nat /\ Window \in Nat /\ now \in Nat /\ aired[n] \in Nat
        /\ duty[n].used \in Nat /\ duty[n].started \in Nat
    BY BudgetIsNat, WindowAssumption DEF FloodType, Duty
  <2> DEFINE x == Budget * duty[n].started
             u == duty[n].used * Window
             v == aired[n] * Window
             y == Budget * Window
             z == Budget * now
  <2>2. x \in Nat /\ u \in Nat /\ v \in Nat /\ y \in Nat /\ z \in Nat
    BY <2>1
  <2>3. x <= z /\ u <= y
    BY <2>1 DEF AiredOK
  <2>4. v <= x + u
    BY DEF AiredOK
  <2>5. Budget * (now + Window) = z + y
    BY <2>1
  <2> HIDE DEF x, u, v, y, z
  <2>6. v <= z + y
    BY <2>2, <2>3, <2>4
  <2>7. QED
    BY <2>5, <2>6 DEF v
<1>3. QED
  BY <1>1, <1>2, AiredStep, TypeInvariant, PTL DEF Spec
----------------------------------------------------------------------------
(* A history that has room for every packet.                                 *)

Room == IsFiniteSet(Packets) /\ Cardinality(Packets) <= N

\* Nothing was evicted: the packets stand in the order they were first seen.
Whole(h) == /\ h \in History
            /\ h.len < N => h.cursor = h.len
            /\ \A i \in 0..(h.len - 1) : h.entries[i] \in Packets
            /\ \A i, j \in 0..(h.len - 1) : h.entries[i] = h.entries[j] => i = j

\* A packet that is not contained finds a free slot.
LEMMA FreeSlot ==
  ASSUME Room, NEW h, Whole(h), NEW p \in Packets, ~Contains(h, p)
  PROVE  h.len < N
<1> DEFINE S == {h.entries[i] : i \in 0..(h.len - 1)}
           Rest == Packets \ {p}
           place == [k \in 1..h.len |-> h.entries[k - 1]]
<1>1. h.len \in Nat /\ h.len <= N
  BY DEF Whole, History
<1>2. place \in Bijection(1..h.len, S)
  <2>1. \A k \in 1..h.len : k - 1 \in 0..(h.len - 1) /\ place[k] = h.entries[k - 1]
    BY <1>1
  <2>2. place \in [1..h.len -> S]
    BY <2>1
  <2>3. \A j, k \in 1..h.len : place[j] = place[k] => j = k
    <3> TAKE j \in 1..h.len, k \in 1..h.len
    <3>1. h.entries[j - 1] = h.entries[k - 1] => j - 1 = k - 1
      BY <2>1 DEF Whole
    <3>2. QED
      BY <2>1, <3>1
  <2>4. ASSUME NEW e \in S PROVE \E k \in 1..h.len : place[k] = e
    <3>1. PICK i \in 0..(h.len - 1) : e = h.entries[i]
      OBVIOUS
    <3>2. i + 1 \in 1..h.len /\ (i + 1) - 1 = i
      BY <1>1
    <3>3. place[i + 1] = e
      BY <2>1, <3>1, <3>2
    <3>4. QED
      BY <3>2, <3>3
  <2>5. QED
    BY <2>2, <2>3, <2>4 DEF Bijection, Injection, IsInjective, Surjection
<1>3. IsFiniteSet(S) /\ Cardinality(S) = h.len
  <2>1. ExistsBijection(1..h.len, S)
    BY <1>2 DEF ExistsBijection
  <2>2. IsFiniteSet(S)
    <3>1. IsFiniteSet(1..h.len)
      BY FS_Interval, <1>1
    <3>2. QED
      BY <2>1, <3>1, FS_Bijection
  <2>3. QED
    BY <1>1, <2>1, <2>2, FS_CountingElements
<1>4. S \subseteq Rest
  BY DEF Whole, Contains
<1>5. IsFiniteSet(Rest) /\ Cardinality(Rest) = Cardinality(Packets) - 1
  BY FS_RemoveElement DEF Room
<1>6. Cardinality(S) <= Cardinality(Rest)
  BY <1>4, <1>5, FS_Subset
<1>7. Cardinality(Packets) \in Nat
  BY FS_CardinalityType DEF Room
<1>8. QED
  BY <1>1, <1>3, <1>5, <1>6, <1>7 DEF Room

\* Observing a packet adds it to what is contained, and forgets nothing.
LEMMA ObserveAdds ==
  ASSUME Room, NEW h, Whole(h), NEW p \in Packets
  PROVE  /\ Whole(Observe(h, p))
         /\ \A q : Contains(Observe(h, p), q) <=> Contains(h, q) \/ q = p
<1>1. CASE Contains(h, p)
  BY <1>1 DEF Observe
<1>2. CASE ~Contains(h, p)
  <2> DEFINE g == Record(h, p)
  <2>1. /\ h.len \in Nat /\ h.len < N /\ h.cursor = h.len
        /\ h.entries \in [Slots -> Keys]
    BY <1>2, FreeSlot DEF Whole, History
  <2>2. /\ g \in History /\ g.len = h.len + 1
        /\ g.cursor = IF g.len < N THEN g.len ELSE 0
        /\ g.entries[h.len] = p
        /\ \A i \in 0..(h.len - 1) : g.entries[i] = h.entries[i]
    BY <2>1 DEF Record, History, Slots
  <2> HIDE DEF g
  <2>3. \A i \in 0..(g.len - 1) : i = h.len \/ i \in 0..(h.len - 1)
    BY <2>1, <2>2
  <2>4. Whole(g)
    <3>1. \A i \in 0..(g.len - 1) : g.entries[i] \in Packets
      BY <2>2, <2>3 DEF Whole
    <3>2. ASSUME NEW i \in 0..(g.len - 1), NEW j \in 0..(g.len - 1),
                 g.entries[i] = g.entries[j]
          PROVE  i = j
      BY <1>2, <2>2, <2>3, <3>2 DEF Whole, Contains
    <3>3. QED
      BY <2>2, <3>1, <3>2 DEF Whole
  <2>5. \A q : Contains(g, q) <=> Contains(h, q) \/ q = p
    <3> TAKE q
    <3>1. h.len \in 0..(g.len - 1) /\ \A i \in 0..(h.len - 1) : i \in 0..(g.len - 1)
      BY <2>1, <2>2
    <3>2. QED
      BY <2>2, <2>3, <3>1 DEF Contains
  <2>6. QED
    BY <1>2, <2>4, <2>5 DEF Observe, g
<1>3. QED
  BY <1>1, <1>2

LEMMA NothingContained ==
  Whole(NewHistory) /\ \A q : ~Contains(NewHistory, q)
<1>1. NewHistory \in History /\ NewHistory.len = 0 /\ NewHistory.cursor = 0
  BY HistoryProperties DEF NewHistory
<1>2. QED
  BY <1>1 DEF Whole, Contains
----------------------------------------------------------------------------
(* The account of the relays.                                                *)

\* What is in a node's queue is in its history, and a packet is there once.
QueueOK(n) ==
  /\ Whole(history[n])
  /\ \A w \in waiting[n] : Contains(history[n], w.packet)
  /\ \A v, w \in waiting[n] : v.packet = w.packet => v = w

\* No packet is anywhere before its originator has sent it.
SentFirst ==
  /\ \A r \in air : attempts[r.frame.packet] > 0
  /\ \A n \in Node, p \in Packets : Contains(history[n], p) => attempts[p] > 0

Waits(n, p) == IF Queued(n, p) = {} THEN 0 ELSE 1
Owns(n, p) == IF n = From[p] /\ attempts[p] > 0 THEN 1 ELSE 0
Knows(n, p) == IF Contains(history[n], p) THEN 1 ELSE 0

Account(n, p) ==
  relays[n][p] + Waits(n, p) + Owns(n, p) <= reboots[n] + Knows(n, p)

OnceOK == /\ SentFirst
          /\ \A n \in Node : QueueOK(n)
          /\ \A n \in Node, p \in Packets : Account(n, p)

LEMMA OnceInit == Init => OnceOK
<1> SUFFICES ASSUME Init PROVE OnceOK
  OBVIOUS
<1>1. \A n \in Node : /\ Whole(history[n]) /\ waiting[n] = {}
                      /\ \A q : ~Contains(history[n], q)
  BY NothingContained DEF Init
<1>2. \A n \in Node, p \in Packets : Account(n, p)
  BY <1>1 DEF Init, Account, Waits, Owns, Knows, Queued
<1>3. QED
  BY <1>1, <1>2 DEF Init, OnceOK, SentFirst, QueueOK

LEMMA OnceOriginate ==
  ASSUME Room, FloodType, OnceOK, NEW p \in Packets, Originate(p)
  PROVE  OnceOK'
<1> DEFINE n == From[p]
           f == [packet |-> p, hopLimit |-> HopStart, relay |-> n]
<1>1. /\ n \in Node /\ attempts[p] = 0
      /\ history' = [history EXCEPT ![n] = Observe(@, p)]
      /\ attempts' = [attempts EXCEPT ![p] = @ + 1]
      /\ air' = air \cup OnAir(n, f)
      /\ UNCHANGED <<waiting, relays, reboots>>
  BY DEF Originate, Send
<1>2. Whole(history[n]) /\ history'[n] = Observe(history[n], p)
  BY <1>1 DEF OnceOK, QueueOK, FloodType
<1>3. /\ Whole(history'[n])
      /\ \A q : Contains(history'[n], q) <=> Contains(history[n], q) \/ q = p
  BY <1>2, ObserveAdds
<1>4. \A m \in Node : m # n => history'[m] = history[m]
  BY <1>1 DEF FloodType
<1>5. \A q \in Packets : attempts'[q] = IF q = p THEN 1 ELSE attempts[q]
  BY <1>1 DEF FloodType
<1>6. \A r \in OnAir(n, f) : r.frame.packet = p
  BY DEF OnAir
<1>7. \A r \in air : r.frame.packet \in Packets
  BY DEF FloodType, Carried
<1>8. SentFirst'
  BY <1>1, <1>3, <1>4, <1>5, <1>6, <1>7 DEF OnceOK, SentFirst
<1>9. \A m \in Node : QueueOK(m)'
  BY <1>1, <1>3, <1>4 DEF OnceOK, QueueOK
<1>10. ASSUME NEW m \in Node, NEW q \in Packets PROVE Account(m, q)'
  <2>1. Account(m, q) /\ relays[m][q] \in Nat /\ reboots[m] \in Nat
    BY DEF OnceOK, FloodType
  <2>2. Waits(m, q)' = Waits(m, q)
    BY <1>1 DEF Waits, Queued
  <2>3. CASE m = n /\ q = p
    <3>1. Knows(m, q)' = 1 /\ Owns(m, q)' <= 1 /\ Owns(m, q)' \in Nat
      BY <1>3, <2>3 DEF Knows, Owns
    <3>2. Knows(m, q) = 0 /\ Owns(m, q) = 0
      BY <1>1, <2>3 DEF Knows, Owns, OnceOK, SentFirst
    <3>3. Waits(m, q) \in Nat
      BY DEF Waits
    <3>4. QED
      BY <1>1, <2>1, <2>2, <3>1, <3>2, <3>3 DEF Account
  <2>4. CASE ~(m = n /\ q = p)
    <3>1. Knows(m, q)' = Knows(m, q)
      BY <1>3, <1>4, <2>4 DEF Knows
    <3>2. Owns(m, q)' = Owns(m, q)
      BY <1>5, <2>4 DEF Owns
    <3>3. QED
      BY <1>1, <2>1, <2>2, <3>1, <3>2 DEF Account
  <2>5. QED
    BY <2>3, <2>4
<1>11. QED
  BY <1>8, <1>9, <1>10 DEF OnceOK

LEMMA OnceResend ==
  ASSUME FloodType, OnceOK, NEW p \in Packets, Resend(p)
  PROVE  OnceOK'
<1> DEFINE n == From[p]
           f == [packet |-> p, hopLimit |-> HopStart, relay |-> n]
<1>1. /\ attempts[p] > 0
      /\ attempts' = [attempts EXCEPT ![p] = @ + 1]
      /\ air' = air \cup OnAir(n, f)
      /\ UNCHANGED <<history, waiting, relays, reboots>>
  BY DEF Resend, Send
<1>2. \A q \in Packets : attempts'[q] > 0 <=> attempts[q] > 0
  BY <1>1 DEF FloodType
<1>3. \A r \in OnAir(n, f) : r.frame.packet = p
  BY DEF OnAir
<1>4. \A r \in air : r.frame.packet \in Packets
  BY DEF FloodType, Carried
<1>5. SentFirst'
  BY <1>1, <1>2, <1>3, <1>4 DEF OnceOK, SentFirst
<1>6. \A m \in Node : QueueOK(m)'
  BY <1>1 DEF OnceOK, QueueOK
<1>7. \A m \in Node, q \in Packets : Account(m, q)'
  BY <1>1, <1>2 DEF OnceOK, Account, Waits, Queued, Owns, Knows
<1>8. QED
  BY <1>5, <1>6, <1>7 DEF OnceOK

LEMMA OnceReceive ==
  ASSUME Room, FloodType, OnceOK, NEW n, NEW f, Receive(n, f)
  PROVE  OnceOK'
<1> DEFINE p == f.packet
<1>1. /\ n \in Node /\ f \in Carried /\ p \in Packets
      /\ attempts[p] > 0
      /\ history' = [history EXCEPT ![n] = Observe(@, p)]
      /\ air' \subseteq air
      /\ UNCHANGED <<attempts, relays, reboots>>
  BY ReceivedType DEF Receive, Observed, OnceOK, SentFirst
<1>2. Whole(history[n]) /\ history'[n] = Observe(history[n], p)
  BY <1>1 DEF OnceOK, QueueOK, FloodType
<1>3. /\ Whole(history'[n])
      /\ \A q : Contains(history'[n], q) <=> Contains(history[n], q) \/ q = p
  BY <1>1, <1>2, ObserveAdds
<1>4. \A m \in Node : m # n => history'[m] = history[m] /\ waiting'[m] = waiting[m]
  BY <1>1, QueueAfter DEF FloodType
<1>5. \/ /\ waiting'[n] = waiting[n] \cup {Prepared(n, f)}
         /\ ~Contains(history[n], p)
      \/ waiting'[n] \subseteq waiting[n]
  BY <1>1, QueueAfter, AfterMeans DEF Duplicate
<1>6. /\ Prepared(n, f).packet = p
      /\ ~Contains(history[n], p) => Queued(n, p) = {}
  BY <1>1 DEF Prepared, Queued, OnceOK, QueueOK
<1> HIDE DEF p
<1>7. SentFirst'
  BY <1>1, <1>3, <1>4 DEF OnceOK, SentFirst
<1>8. QueueOK(n)'
  <2>1. QueueOK(n)
    BY <1>1 DEF OnceOK
  <2>2. CASE waiting'[n] \subseteq waiting[n]
    BY <1>3, <2>1, <2>2 DEF QueueOK
  <2>3. CASE waiting'[n] = waiting[n] \cup {Prepared(n, f)} /\ ~Contains(history[n], p)
    BY <1>3, <1>6, <2>1, <2>3 DEF QueueOK, Queued
  <2>4. QED
    BY <1>5, <2>2, <2>3
<1>9. \A m \in Node : m # n => QueueOK(m)'
  BY <1>4 DEF OnceOK, QueueOK
<1>10. ASSUME NEW m \in Node, NEW q \in Packets PROVE Account(m, q)'
  <2>1. Account(m, q) /\ relays[m][q] \in Nat /\ reboots[m] \in Nat
    BY DEF OnceOK, FloodType
  <2>2. Owns(m, q)' = Owns(m, q)
    BY <1>1 DEF Owns
  <2>3. Knows(m, q) <= Knows(m, q)' /\ Knows(m, q) \in Nat /\ Knows(m, q)' \in Nat
    BY <1>3, <1>4 DEF Knows
  <2>4. Waits(m, q) \in 0..1 /\ Waits(m, q)' \in 0..1 /\ Owns(m, q) \in Nat
    BY DEF Waits, Owns
  <2>5. CASE m = n /\ q = p /\ ~Contains(history[n], p)
    <3>1. Knows(m, q) = 0 /\ Knows(m, q)' = 1
      BY <1>3, <2>5 DEF Knows
    <3>2. Waits(m, q) = 0
      BY <1>6, <2>5 DEF Waits
    <3>3. QED
      BY <1>1, <2>1, <2>2, <2>4, <3>1, <3>2 DEF Account
  <2>6. CASE ~(m = n /\ q = p /\ ~Contains(history[n], p))
    <3>1. Queued(m, q)' \subseteq Queued(m, q)
      BY <1>4, <1>5, <1>6, <2>6 DEF Queued
    <3>2. Waits(m, q)' <= Waits(m, q)
      BY <3>1 DEF Waits
    <3>3. QED
      BY <1>1, <2>1, <2>2, <2>3, <2>4, <3>2 DEF Account
  <2>7. QED
    BY <2>5, <2>6
<1>11. QED
  BY <1>7, <1>8, <1>9, <1>10 DEF OnceOK

\* A frame that leaves the queue was the only one of its packet.
LEMMA Dequeued ==
  ASSUME FloodType, OnceOK, NEW n \in Node, NEW w \in waiting[n],
         waiting' = [waiting EXCEPT ![n] = @ \ {w}], history' = history
  PROVE  /\ \A m \in Node : QueueOK(m)'
         /\ \A m \in Node, q \in Packets : Waits(m, q)' <= Waits(m, q)
         /\ Waits(n, w.packet) = 1 /\ Waits(n, w.packet)' = 0
<1>1. \A m \in Node : waiting'[m] = IF m = n THEN waiting[m] \ {w} ELSE waiting[m]
  BY DEF FloodType
<1>2. \A m \in Node : QueueOK(m)'
  BY <1>1 DEF OnceOK, QueueOK
<1>3. ASSUME NEW m \in Node, NEW q \in Packets PROVE Waits(m, q)' <= Waits(m, q)
  <2>1. Queued(m, q)' \subseteq Queued(m, q)
    BY <1>1 DEF Queued
  <2>2. QED
    BY <2>1 DEF Waits
<1>4. w \in Queued(n, w.packet)
  BY DEF Queued
<1>5. Queued(n, w.packet)' = {}
  <2>1. \A v \in waiting[n] : v.packet = w.packet => v = w
    BY DEF OnceOK, QueueOK
  <2>2. Queued(n, w.packet)' = {v \in waiting[n] \ {w} : v.packet = w.packet}
    BY <1>1 DEF Queued
  <2>3. QED
    BY <2>1, <2>2
<1>6. QED
  BY <1>2, <1>3, <1>4, <1>5 DEF Waits

LEMMA OnceRelay ==
  ASSUME FloodType, OnceOK, NEW n \in Node, NEW w \in waiting[n], Relay(n, w)
  PROVE  OnceOK'
<1> DEFINE p == w.packet
<1>1. /\ w \in Carried /\ p \in Packets
      /\ waiting' = [waiting EXCEPT ![n] = @ \ {w}]
      /\ air' = air \cup OnAir(n, w)
      /\ relays' = [relays EXCEPT ![n][p] = IF @ < Counted THEN @ + 1 ELSE @]
      /\ UNCHANGED <<history, attempts, reboots>>
  BY DEF Relay, FloodType, Carried
<1>2. /\ \A m \in Node : QueueOK(m)'
      /\ \A m \in Node, q \in Packets : Waits(m, q)' <= Waits(m, q)
      /\ Waits(n, p) = 1 /\ Waits(n, p)' = 0
  BY <1>1, Dequeued
<1>3. \A r \in OnAir(n, w) : r.frame.packet = p
  BY DEF OnAir
<1>4. attempts[p] > 0
  BY <1>1 DEF OnceOK, SentFirst, QueueOK
<1>5. SentFirst'
  BY <1>1, <1>3, <1>4 DEF OnceOK, SentFirst
<1>6. ASSUME NEW m \in Node, NEW q \in Packets PROVE Account(m, q)'
  <2>1. /\ Account(m, q) /\ relays[m][q] \in Nat /\ reboots[m] \in Nat
        /\ Waits(m, q) \in Nat /\ Waits(m, q)' \in Nat
    BY DEF OnceOK, FloodType, Waits
  <2>2. Owns(m, q)' = Owns(m, q) /\ Knows(m, q)' = Knows(m, q)
    BY <1>1 DEF Owns, Knows
  <2>3. Owns(m, q) \in Nat /\ Knows(m, q) \in Nat
    BY DEF Owns, Knows
  <2>4. CASE m = n /\ q = p
    <3>1. relays'[m][q] \in Nat /\ relays'[m][q] <= relays[m][q] + 1
      BY <1>1, <2>1, <2>4 DEF FloodType
    <3>2. QED
      BY <1>1, <1>2, <2>1, <2>2, <2>3, <2>4, <3>1 DEF Account
  <2>5. CASE ~(m = n /\ q = p)
    <3>1. relays'[m][q] = relays[m][q]
      BY <1>1, <2>5 DEF FloodType
    <3>2. QED
      BY <1>1, <1>2, <2>1, <2>2, <2>3, <3>1 DEF Account
  <2>6. QED
    BY <2>4, <2>5
<1>7. QED
  BY <1>2, <1>5, <1>6 DEF OnceOK

LEMMA OnceRefused ==
  ASSUME FloodType, OnceOK, NEW n \in Node, NEW w \in waiting[n], RelayRefused(n, w)
  PROVE  OnceOK'
<1>1. /\ waiting' = [waiting EXCEPT ![n] = @ \ {w}]
      /\ UNCHANGED <<history, air, attempts, relays, reboots>>
  BY DEF RelayRefused
<1>2. /\ \A m \in Node : QueueOK(m)'
      /\ \A m \in Node, q \in Packets : Waits(m, q)' <= Waits(m, q)
  BY <1>1, Dequeued
<1>3. SentFirst'
  BY <1>1 DEF OnceOK, SentFirst
<1>4. ASSUME NEW m \in Node, NEW q \in Packets PROVE Account(m, q)'
  <2>1. /\ Account(m, q) /\ relays[m][q] \in Nat /\ reboots[m] \in Nat
        /\ Waits(m, q) \in Nat /\ Waits(m, q)' \in Nat
        /\ Owns(m, q) \in Nat /\ Knows(m, q) \in Nat
    BY DEF OnceOK, FloodType, Waits, Owns, Knows
  <2>2. Owns(m, q)' = Owns(m, q) /\ Knows(m, q)' = Knows(m, q)
    BY <1>1 DEF Owns, Knows
  <2>3. QED
    BY <1>1, <1>2, <2>1, <2>2 DEF Account
<1>5. QED
  BY <1>2, <1>3, <1>4 DEF OnceOK

LEMMA OnceReboot ==
  ASSUME FloodType, OnceOK, NEW n \in Node, Reboot(n)
  PROVE  OnceOK'
<1>1. /\ history' = [history EXCEPT ![n] = NewHistory]
      /\ waiting' = [waiting EXCEPT ![n] = {}]
      /\ reboots' = [reboots EXCEPT ![n] = @ + 1]
      /\ UNCHANGED <<air, attempts, relays>>
  BY DEF Reboot
<1>2. /\ Whole(history'[n]) /\ waiting'[n] = {}
      /\ \A q : ~Contains(history'[n], q)
      /\ reboots'[n] = reboots[n] + 1
  BY <1>1, NothingContained DEF FloodType
<1>3. \A m \in Node : m # n => /\ history'[m] = history[m]
                               /\ waiting'[m] = waiting[m]
                               /\ reboots'[m] = reboots[m]
  BY <1>1 DEF FloodType
<1>4. SentFirst'
  BY <1>1, <1>2, <1>3 DEF OnceOK, SentFirst
<1>5. \A m \in Node : QueueOK(m)'
  BY <1>2, <1>3 DEF OnceOK, QueueOK
<1>6. ASSUME NEW m \in Node, NEW q \in Packets PROVE Account(m, q)'
  <2>1. /\ Account(m, q) /\ relays[m][q] \in Nat /\ reboots[m] \in Nat
        /\ Waits(m, q) \in Nat /\ Owns(m, q) \in Nat /\ Knows(m, q) \in 0..1
    BY DEF OnceOK, FloodType, Waits, Owns, Knows
  <2>2. Owns(m, q)' = Owns(m, q)
    BY <1>1 DEF Owns
  <2>3. CASE m = n
    <3>1. Knows(m, q)' = 0 /\ Waits(m, q)' = 0
      BY <1>2, <2>3 DEF Knows, Waits, Queued
    <3>2. QED
      BY <1>1, <1>2, <2>1, <2>2, <2>3, <3>1 DEF Account
  <2>4. CASE m # n
    <3>1. Knows(m, q)' = Knows(m, q) /\ Waits(m, q)' = Waits(m, q)
      BY <1>3, <2>4 DEF Knows, Waits, Queued
    <3>2. QED
      BY <1>1, <1>3, <2>1, <2>2, <2>4, <3>1 DEF Account
  <2>5. QED
    BY <2>3, <2>4
<1>7. QED
  BY <1>4, <1>5, <1>6 DEF OnceOK

LEMMA OnceStep == Room /\ FloodType /\ OnceOK /\ [Next]_vars => OnceOK'
<1> SUFFICES ASSUME Room, FloodType, OnceOK, [Next]_vars PROVE OnceOK'
  OBVIOUS
<1>1. ASSUME NEW p \in Packets, Originate(p) \/ Resend(p) PROVE OnceOK'
  BY <1>1, OnceOriginate, OnceResend
<1>2. ASSUME NEW n, NEW f, Receive(n, f) PROVE OnceOK'
  BY <1>2, OnceReceive
<1>3. ASSUME air' \subseteq air,
             UNCHANGED <<history, waiting, attempts, relays, reboots>>
      PROVE  OnceOK'
  <2>1. SentFirst'
    BY <1>3 DEF OnceOK, SentFirst
  <2>2. \A m \in Node : QueueOK(m)'
    BY <1>3 DEF OnceOK, QueueOK
  <2>3. \A m \in Node, q \in Packets : Account(m, q)'
    BY <1>3 DEF OnceOK, Account, Waits, Queued, Owns, Knows
  <2>4. QED
    BY <2>1, <2>2, <2>3 DEF OnceOK
<1>4. ASSUME NEW r \in air, Lose(r) PROVE OnceOK'
  BY <1>3, <1>4 DEF Lose
<1>5. ASSUME NEW n \in Node, NEW w \in waiting[n], Relay(n, w) \/ RelayRefused(n, w)
      PROVE  OnceOK'
  BY <1>5, OnceRelay, OnceRefused
<1>6. ASSUME NEW n \in Node, Reboot(n) PROVE OnceOK'
  BY <1>6, OnceReboot
<1>7. CASE Tick \/ UNCHANGED vars
  BY <1>3, <1>7 DEF Tick, vars
<1>8. QED
  BY <1>1, <1>2, <1>4, <1>5, <1>6, <1>7 DEF Next, Reception, Transmission

\* Where a history has room for every packet, a node relays a packet at most
\* once in each of its lives and never its own before it has restarted, however
\* often and by whatever routes copies of it return (history.rs:6-9,
\* c-api lib.rs:850-860).
THEOREM OnePerLife ==
  ASSUME IsFiniteSet(Packets), Cardinality(Packets) <= N
  PROVE  Spec => []RelayedOncePerLife
<1>1. Room
  BY DEF Room
<1>2. FloodType /\ OnceOK => RelayedOncePerLife
  <2> SUFFICES ASSUME FloodType, OnceOK, NEW n \in Node, NEW p \in Packets
               PROVE  relays[n][p] <= reboots[n] + (IF n = From[p] THEN 0 ELSE 1)
    BY DEF RelayedOncePerLife
  <2>1. /\ Account(n, p) /\ relays[n][p] \in Nat /\ reboots[n] \in Nat
        /\ Waits(n, p) \in Nat /\ attempts[p] \in Nat
    BY DEF OnceOK, FloodType, Waits
  <2>2. Contains(history[n], p) => attempts[p] > 0
    BY DEF OnceOK, SentFirst
  <2>3. QED
    BY <2>1, <2>2 DEF Account, Owns, Knows
<1>3. FloodType /\ OnceOK /\ [Next]_vars => OnceOK'
  BY <1>1, OnceStep
<1>4. QED
  BY <1>2, <1>3, TypeInvariant, OnceInit, PTL DEF Spec
=============================================================================
