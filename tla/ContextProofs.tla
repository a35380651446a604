---------------------------- MODULE ContextProofs ----------------------------
(***************************************************************************)
(* The history and the budget of a context.                                 *)
(*                                                                         *)
(* The ring implements the memory of the last N first sightings, for every  *)
(* capacity N (zero included) and every set of packets.  TypeOK does not    *)
(* say where the oldest packet is; WellFormed does: the cursor stays inside *)
(* the ring, and until the ring is full it stands at the first free slot.   *)
(*                                                                         *)
(* The budget is kept for every window, limit, set of airtimes and clock.   *)
(* Its invariant keeps room for the airtime the last check permitted, so a  *)
(* later charge of it fits whether or not the window rolls in between; and  *)
(* it splits the past at the start of the window, before which as much was  *)
(* charged in a window's length as may be charged after it.                 *)
(***************************************************************************)
EXTENDS Context, SequenceTheorems, TLAPS

USE CapacityAssumption, ZeroKeyAssumption
----------------------------------------------------------------------------
(* The history.                                                              *)
WellFormed(h) == /\ h \in History
                 /\ h.cursor < N \/ (N = 0 /\ h.cursor = 0)
                 /\ h.len < N => h.cursor = h.len

Distinct(h) == \A i, j \in 0..(h.len - 1) : h.entries[i] = h.entries[j] => i = j

HistoryInv == /\ WellFormed(history)
        /\ Distinct(history)
        /\ answer \in {"None", "New", "Duplicate"}

\* Recording keeps the cursor inside the ring.
LEMMA RecordWellFormed ==
  ASSUME NEW h, WellFormed(h), NEW key \in Keys
  PROVE  WellFormed(Record(h, key))
BY DEF WellFormed, History, Record, Slots

\* The meaning of a history is a sequence of len packets.
LEMMA RecentIsSeq ==
  ASSUME NEW h, WellFormed(h)
  PROVE  /\ RecentOf(h) \in Seq(Keys)
         /\ Len(RecentOf(h)) = h.len
         /\ \A i \in 1..h.len :
              RecentOf(h)[i] = h.entries[Wrapped(Oldest(h) + i - 1)]
<1> DEFINE slot(i) == Wrapped(Oldest(h) + i - 1)
<1>1. h.len \in Nat /\ h.len <= N /\ h.cursor \in Nat
  BY DEF WellFormed, History
<1>2. \A i \in 1..h.len : slot(i) \in Slots
  BY <1>1 DEF WellFormed, Wrapped, Oldest, Slots
<1>3. h.entries \in [Slots -> Keys]
  BY DEF WellFormed, History
<1>4. RecentOf(h) \in [1..h.len -> Keys]
  BY <1>2, <1>3 DEF RecentOf
<1>5. RecentOf(h) \in Seq(Keys)
  BY <1>1, <1>4, SeqDef
<1>6. QED
  BY <1>1, <1>4, <1>5, LenProperties DEF RecentOf

\* A packet is contained in the ring exactly when it is among the remembered.
LEMMA ContainsRecent ==
  ASSUME NEW h, WellFormed(h), NEW key
  PROVE  Contains(h, key) <=>
           \E i \in 1..Len(RecentOf(h)) : RecentOf(h)[i] = key
<1>1. h.len \in Nat /\ h.len <= N /\ h.cursor \in Nat
  BY DEF WellFormed, History
<1>2. ASSUME NEW i \in 0..(h.len - 1), h.entries[i] = key
      PROVE  \E k \in 1..h.len : RecentOf(h)[k] = key
  <2> DEFINE k == IF Oldest(h) <= i THEN i - Oldest(h) + 1
                                    ELSE i + N - Oldest(h) + 1
  <2>1. k \in 1..h.len /\ Wrapped(Oldest(h) + k - 1) = i
    BY <1>1 DEF WellFormed, Oldest, Wrapped
  <2>2. QED
    BY <1>2, <2>1, RecentIsSeq
<1>3. ASSUME NEW k \in 1..h.len, RecentOf(h)[k] = key
      PROVE  \E i \in 0..(h.len - 1) : h.entries[i] = key
  <2>1. Wrapped(Oldest(h) + k - 1) \in 0..(h.len - 1)
    BY <1>1 DEF WellFormed, Oldest, Wrapped
  <2>2. QED
    BY <1>3, <2>1, RecentIsSeq
<1>4. QED
  BY <1>2, <1>3, RecentIsSeq DEF Contains

\* Recording a first sighting appends it, and drops the oldest packet when the
\* ring is full.
LEMMA RecordRecent ==
  ASSUME NEW h, WellFormed(h), NEW key \in Keys
  PROVE  RecentOf(Record(h, key)) =
           RecentPacketsSpec!Newest(Append(RecentOf(h), key))
<1> DEFINE r == RecentOf(h)
           g == Record(h, key)
           s == Append(r, key)
           t == RecentPacketsSpec!Newest(s)
<1>1. /\ h.len \in Nat /\ h.len <= N /\ h.cursor \in Nat
      /\ h.cursor < N \/ N = 0
      /\ h.len < N => h.cursor = h.len
  BY DEF WellFormed, History
<1>2. /\ r \in Seq(Keys)
      /\ Len(r) = h.len
      /\ \A i \in 1..h.len : r[i] = h.entries[Wrapped(Oldest(h) + i - 1)]
  BY RecentIsSeq
<1>3. WellFormed(g)
  BY RecordWellFormed
<1>4. /\ RecentOf(g) \in Seq(Keys)
      /\ Len(RecentOf(g)) = g.len
      /\ \A i \in 1..g.len : RecentOf(g)[i] = g.entries[Wrapped(Oldest(g) + i - 1)]
  BY <1>3, RecentIsSeq
<1>5. /\ g.len = IF h.len < N THEN h.len + 1 ELSE h.len
      /\ g.cursor = IF h.cursor + 1 < N THEN h.cursor + 1 ELSE 0
      /\ \A i \in Slots : g.entries[i] = IF i = h.cursor THEN key ELSE h.entries[i]
  BY DEF Record
<1>6. /\ s \in Seq(Keys)
      /\ Len(s) = h.len + 1
      /\ \A i \in 1..h.len : s[i] = r[i]
      /\ s[h.len + 1] = key
  BY <1>2
<1> HIDE DEF r, g, s
<1>7. ASSUME h.len < N PROVE RecentOf(g) = t
  <2>1. t = s
    BY <1>1, <1>6, <1>7 DEF RecentPacketsSpec!Newest
  <2>2. \A i \in 1..h.len : RecentOf(g)[i] = s[i]
    <3> SUFFICES ASSUME NEW i \in 1..h.len PROVE RecentOf(g)[i] = s[i]
      OBVIOUS
    <3>1. Wrapped(Oldest(h) + i - 1) = i - 1
      BY <1>1, <1>7 DEF Wrapped, Oldest
    <3>2. Wrapped(Oldest(g) + i - 1) = i - 1
      BY <1>1, <1>5, <1>7 DEF Wrapped, Oldest
    <3>3. i - 1 \in Slots /\ i - 1 # h.cursor
      BY <1>1, <1>7 DEF Slots
    <3>4. RecentOf(g)[i] = g.entries[i - 1]
      BY <1>1, <1>4, <1>5, <1>7, <3>2
    <3>5. s[i] = h.entries[i - 1]
      BY <1>2, <1>6, <3>1
    <3>6. QED
      BY <1>5, <3>3, <3>4, <3>5
  <2>3. RecentOf(g)[h.len + 1] = key
    <3>1. Wrapped(Oldest(g) + (h.len + 1) - 1) = h.cursor
      BY <1>1, <1>5, <1>7 DEF Wrapped, Oldest
    <3>2. h.cursor \in Slots
      BY <1>1, <1>7 DEF Slots
    <3>3. QED
      BY <1>1, <1>4, <1>5, <1>7, <3>1, <3>2
  <2>4. Len(RecentOf(g)) = Len(s) /\ Len(s) = h.len + 1
    BY <1>4, <1>5, <1>6, <1>7
  <2>5. \A i \in 1..Len(s) : RecentOf(g)[i] = s[i]
    BY <1>1, <1>6, <2>2, <2>3, <2>4
  <2>6. RecentOf(g) = s
    BY <1>4, <1>6, <2>4, <2>5, SeqEqual
  <2>7. QED
    BY <2>1, <2>6
<1>8. ASSUME ~(h.len < N) PROVE RecentOf(g) = t
  <2>1. h.len = N /\ t = Tail(s)
    BY <1>1, <1>6, <1>8 DEF RecentPacketsSpec!Newest
  <2>2. /\ Tail(s) \in Seq(Keys)
        /\ Len(Tail(s)) = N
        /\ \A i \in 1..N : Tail(s)[i] = s[i + 1]
    BY <1>1, <1>6, <2>1
  <2>3. ASSUME NEW i \in 1..N PROVE RecentOf(g)[i] = s[i + 1]
    <3>1. h.cursor \in Slots /\ N # 0
      BY <1>1 DEF Slots
    <3>2. CASE i < N
      <4>1. Wrapped(Oldest(g) + i - 1) = Wrapped(Oldest(h) + (i + 1) - 1)
        BY <1>1, <1>5, <2>1, <3>1, <3>2 DEF Wrapped, Oldest
      <4>2. /\ Wrapped(Oldest(h) + (i + 1) - 1) \in Slots
            /\ Wrapped(Oldest(h) + (i + 1) - 1) # h.cursor
        BY <1>1, <2>1, <3>1, <3>2 DEF Wrapped, Oldest, Slots
      <4> DEFINE x == Wrapped(Oldest(h) + (i + 1) - 1)
      <4> HIDE DEF x
      <4>3. RecentOf(g)[i] = g.entries[x]
        BY <1>1, <1>4, <1>5, <2>1, <4>1 DEF x
      <4>4. i + 1 \in 1..h.len /\ r[i + 1] = h.entries[x]
        BY <1>1, <1>2, <2>1, <3>2 DEF x
      <4>5. g.entries[x] = h.entries[x]
        BY <1>5, <4>2 DEF x
      <4>6. QED
        BY <1>6, <4>3, <4>4, <4>5
    <3>3. CASE i = N
      <4>1. Wrapped(Oldest(g) + i - 1) = h.cursor
        BY <1>1, <1>5, <2>1, <3>1, <3>3 DEF Wrapped, Oldest
      <4>2. QED
        BY <1>1, <1>4, <1>5, <1>6, <2>1, <3>1, <3>3, <4>1
    <3>4. QED
      BY <3>2, <3>3
  <2>4. QED
    BY <1>1, <1>4, <1>5, <1>8, <2>1, <2>2, <2>3, SeqEqual
<1>9. QED
  BY <1>7, <1>8 DEF g, s, r

\* A new packet does not duplicate one the ring holds, and overwrites one.
LEMMA RecordDistinct ==
  ASSUME NEW h, WellFormed(h), Distinct(h), NEW key \in Keys, ~Contains(h, key)
  PROVE  Distinct(Record(h, key))
BY DEF WellFormed, History, Record, Slots, Distinct, Contains

LEMMA ObserveKeepsHistory ==
  ASSUME HistoryInv, NEW key \in Keys, ObservePacket(key)
  PROVE  HistoryInv'
<1>1. answer' \in {"None", "New", "Duplicate"}
  BY DEF ObservePacket, Seen
<1>2. CASE Contains(history, key)
  BY <1>1, <1>2 DEF HistoryInv, ObservePacket, Observe
<1>3. CASE ~Contains(history, key)
  <2>1. history' = Record(history, key)
    BY <1>3 DEF ObservePacket, Observe
  <2>2. WellFormed(Record(history, key)) /\ Distinct(Record(history, key))
    BY <1>3, RecordWellFormed, RecordDistinct DEF HistoryInv
  <2>3. QED
    BY <1>1, <2>1, <2>2 DEF HistoryInv
<1>4. QED
  BY <1>2, <1>3

LEMMA ClearKeepsHistory == HistoryInv /\ Clear => HistoryInv'
BY DEF HistoryInv, Clear, Cleared, WellFormed, History, Distinct

LEMMA InitHistory == Init => HistoryInv
BY DEF Init, HistoryInv, WellFormed, Distinct, History, NewHistory, Slots

LEMMA NextHistory == HistoryInv /\ [Next]_vars => HistoryInv'
<1> SUFFICES ASSUME HistoryInv, [Next]_vars PROVE HistoryInv'
  OBVIOUS
<1>1. ASSUME NEW key \in Keys, ObservePacket(key) PROVE HistoryInv'
  BY <1>1, ObserveKeepsHistory
<1>2. CASE Clear
  BY <1>2, ClearKeepsHistory
<1>3. CASE UNCHANGED vars
  BY <1>3 DEF vars, HistoryInv
<1>4. QED
  BY <1>1, <1>2, <1>3 DEF Next

\* The strengthened invariant holds in every reachable state.
LEMMA HistoryInvariance == Spec => []HistoryInv
BY InitHistory, NextHistory, PTL DEF Spec

\* The cursor and the length stay within the ring (history.rs:139-145).
THEOREM TypeCorrect == Spec => []TypeOK
<1>1. HistoryInv => TypeOK
  BY DEF HistoryInv, WellFormed, TypeOK
<1>2. QED
  BY <1>1, HistoryInvariance, PTL

\* No packet ever takes two slots of the ring (history.rs:127-131).
THEOREM NoPacketIsKeptTwice == Spec => []NoPacketTwice
<1>1. HistoryInv => NoPacketTwice
  BY DEF HistoryInv, Distinct, NoPacketTwice
<1>2. QED
  BY <1>1, HistoryInvariance, PTL

\* The ring implements the memory of the last N first sightings, whatever the
\* capacity: eviction is oldest first, a repeat refreshes nothing, and nothing
\* cleared comes back (history.rs:20-22, 125-147).
THEOREM Refinement == Spec => RemembersTheLastN
<1> DEFINE r == RecentOf(history)
<1>1. Init => RecentPacketsSpec!Init
  <2> SUFFICES ASSUME Init PROVE RecentPacketsSpec!Init
    OBVIOUS
  <2>1. WellFormed(history) /\ history.len = 0
    BY InitHistory DEF HistoryInv, Init, NewHistory
  <2>2. r = <<>>
    BY <2>1, RecentIsSeq, EmptySeq
  <2>3. QED
    BY <2>2 DEF Init, RecentPacketsSpec!Init
<1>2. HistoryInv /\ [Next]_vars => [RecentPacketsSpec!Next]_<<r, answer>>
  <2> SUFFICES ASSUME HistoryInv, [Next]_vars
               PROVE  [RecentPacketsSpec!Next]_<<r, answer>>
    OBVIOUS
  <2>1. ASSUME NEW key \in Keys, ObservePacket(key)
        PROVE  RecentPacketsSpec!Next
    <3>1. Contains(history, key) <=> RecentPacketsSpec!Remembered(key)
      BY ContainsRecent DEF HistoryInv, RecentPacketsSpec!Remembered
    <3>2. CASE Contains(history, key)
      <4>1. history' = history /\ answer' = "Duplicate"
        BY <2>1, <3>2 DEF ObservePacket, Observe, Seen
      <4>2. RecentPacketsSpec!ObserveDuplicate(key)
        BY <3>1, <3>2, <4>1 DEF RecentPacketsSpec!ObserveDuplicate
      <4>3. QED
        BY <4>2 DEF RecentPacketsSpec!Next
    <3>3. CASE ~Contains(history, key)
      <4>1. history' = Record(history, key) /\ answer' = "New"
        BY <2>1, <3>3 DEF ObservePacket, Observe, Seen
      <4>2. r' = RecentPacketsSpec!Newest(Append(r, key))
        BY <4>1, RecordRecent DEF HistoryInv
      <4>3. RecentPacketsSpec!ObserveNew(key)
        BY <3>1, <3>3, <4>1, <4>2 DEF RecentPacketsSpec!ObserveNew
      <4>4. QED
        BY <4>3 DEF RecentPacketsSpec!Next
    <3>4. QED
      BY <3>2, <3>3
  <2>2. ASSUME Clear PROVE RecentPacketsSpec!Next
    <3>1. WellFormed(history') /\ history'.len = 0
      BY <2>2, ClearKeepsHistory DEF HistoryInv, Clear, Cleared, WellFormed, History
    <3>2. r' = <<>>
      BY <3>1, RecentIsSeq, EmptySeq
    <3>3. QED
      BY <2>2, <3>2 DEF Clear, RecentPacketsSpec!Next, RecentPacketsSpec!Clear
  <2>3. CASE UNCHANGED vars
    BY <2>3 DEF vars
  <2>4. QED
    BY <2>1, <2>2, <2>3 DEF Next
<1>3. QED
  BY <1>1, <1>2, HistoryInvariance, PTL DEF Spec, RemembersTheLastN, RecentPacketsSpec!Spec
----------------------------------------------------------------------------
(* The budget.                                                               *)
USE WindowAssumption, LimitAssumption, AirtimesAssumption, MaxTimeAssumption

\* What was charged before each instant, as a caller whose clock is at n and was
\* never set back knows it.  The window d began when a window's length had passed
\* since the one before it: what was charged since is used, and what was charged
\* within a window's length before is within the budget of one window.
Past(d, charged, n) ==
  /\ d.started <= n
  /\ \A t, u \in Instants : t <= u => charged[t] <= charged[u]
  /\ \A t \in Instants : n < t \/ d.started + Window <= t => charged[t] = charged[MaxTime + 1]
  /\ charged[MaxTime + 1] - charged[d.started] = d.used
  /\ \A t \in Instants :
       t <= d.started /\ d.started - t < Window => charged[d.started] - charged[t] <= Budget
  /\ \A t, u \in Instants :
       t <= u /\ u - t <= Window => charged[u] - charged[t] <= 2 * Budget

DutyInv == /\ DutyType
           /\ duty.used + permit <= Budget
           /\ ~setBack => Past(duty, onAir, now)

LEMMA BudgetIsNat == Budget \in Nat
<1>1. Window * LimitPermille \in Nat
  OBVIOUS
<1>2. \A n \in Nat : n \div 1000 \in Nat
  OBVIOUS
<1>3. QED
  BY <1>1, <1>2 DEF Budget

\* Rolling a duty cycle leaves a duty cycle and never raises what is used.
LEMMA RollProperties ==
  ASSUME NEW d \in Duty, NEW t \in Nat
  PROVE  /\ Roll(d, t) \in Duty
         /\ Roll(d, t).used <= d.used
BY DEF Duty, Roll, NewDuty

\* A charge leaves a duty cycle within the budget it was within.
LEMMA ChargedProperties ==
  ASSUME NEW d \in Duty, NEW t \in Nat, NEW a \in Nat, d.used <= Budget
  PROVE  /\ Charged(d, t, a) \in Duty
         /\ Charged(d, t, a).used <= Budget
<1>1. Budget \in Nat /\ Roll(d, t) \in Duty /\ Roll(d, t).used <= d.used
  BY BudgetIsNat, RollProperties
<1>2. QED
  BY <1>1 DEF Charged, WouldPermit, Duty

\* A window that rolls leaves behind what it used.
LEMMA RollKeepsPast ==
  ASSUME NEW d \in Duty, d.used <= Budget, NEW charged \in [Instants -> Nat],
         NEW n \in Times, Past(d, charged, n)
  PROVE  /\ Past(Roll(d, n), charged, n)
         /\ n < Roll(d, n).started + Window
<1> DEFINE last == MaxTime + 1
           e == NewDuty(n)
<1>1. /\ d.started \in Nat /\ d.started <= n /\ n \in Nat /\ n <= MaxTime
      /\ last \in Instants /\ n \in Instants /\ d.started \in Instants /\ d.used \in Nat
      /\ Budget \in Nat
  BY BudgetIsNat DEF Duty, Times, Instants, Past
<1>2. CASE Elapsed(d, n) < Window
  BY <1>1, <1>2 DEF Elapsed, Roll
<1>3. CASE ~(Elapsed(d, n) < Window)
  <2>1. d.started + Window <= n /\ Roll(d, n) = e /\ e.started = n /\ e.used = 0
    BY <1>1, <1>3 DEF Elapsed, Roll, NewDuty
  <2>2. /\ \A t \in Instants : t \in Nat /\ charged[t] \in Nat
        /\ \A t, u \in Instants : t <= u => charged[t] <= charged[u]
        /\ charged[n] = charged[last]
        /\ charged[last] - charged[d.started] = d.used
    BY <1>1, <2>1, SMTT(30) DEF Past, Instants
  <2> HIDE DEF last, e
  <2>3. ASSUME NEW t \in Instants, t <= n, n - t < Window
        PROVE  charged[n] - charged[t] <= Budget
    <3>1. d.started <= t
      BY <1>1, <2>1, <2>2, <2>3
    <3>2. charged[d.started] <= charged[t]
      BY <1>1, <2>2, <3>1
    <3>3. QED
      BY <1>1, <2>2, <3>2
  <2>4. \A t \in Instants : n < t \/ n + Window <= t => charged[t] = charged[last]
    BY <1>1, <2>1, <2>2 DEF Past, last
  <2>5. charged[last] - charged[n] = 0
    BY <1>1, <2>2
  <2>6. Past(e, charged, n)
    BY <1>1, <2>1, <2>2, <2>3, <2>4, <2>5 DEF Past, last
  <2>7. QED
    BY <1>1, <2>1, <2>6
<1>4. QED
  BY <1>2, <1>3

\* A charge is within the window's length of every other of its window.
LEMMA ChargeKeepsPast ==
  ASSUME NEW d \in Duty, NEW charged \in [Instants -> Nat], NEW n \in Times,
         Past(d, charged, n), n < d.started + Window, NEW a \in Nat, d.used + a <= Budget
  PROVE  Past([used |-> d.used + a, started |-> d.started],
              [t \in Instants |-> IF n < t THEN charged[t] + a ELSE charged[t]], n)
<1> DEFINE last == MaxTime + 1
           s == d.started
           e == [used |-> d.used + a, started |-> d.started]
           g == [t \in Instants |-> IF n < t THEN charged[t] + a ELSE charged[t]]
<1>1. /\ s \in Nat /\ s <= n /\ n \in Nat /\ n < last /\ last \in Instants
      /\ n \in Instants /\ s \in Instants /\ d.used \in Nat
      /\ Budget \in Nat /\ e.used = d.used + a /\ e.started = s
  BY BudgetIsNat DEF Duty, Times, Instants, Past
<1>2. /\ \A t \in Instants : t \in Nat /\ charged[t] \in Nat
      /\ \A t, u \in Instants : t <= u => charged[t] <= charged[u]
      /\ \A t \in Instants : n < t \/ s + Window <= t => charged[t] = charged[last]
      /\ charged[last] - charged[s] = d.used
      /\ \A t \in Instants : t <= s /\ s - t < Window => charged[s] - charged[t] <= Budget
      /\ \A t, u \in Instants :
           t <= u /\ u - t <= Window => charged[u] - charged[t] <= 2 * Budget
  BY DEF Past, Instants
<1>3. /\ \A t \in Instants : ~(n < t) => g[t] = charged[t]
      /\ \A t \in Instants : n < t => g[t] = charged[t] + a
      /\ \A t \in Instants : g[t] \in Nat
  BY <1>2
<1> HIDE DEF last, e, g, s
<1>4. g[s] = charged[s] /\ g[last] = charged[last] + a
  BY <1>1, <1>3
<1>5. \A t, u \in Instants : t <= u => g[t] <= g[u]
  <2> TAKE t, u \in Instants
  <2>1. t \in Nat /\ u \in Nat /\ charged[t] \in Nat /\ charged[u] \in Nat
        /\ (t <= u => charged[t] <= charged[u])
    BY <1>2
  <2>2. QED
    BY <1>1, <1>3, <2>1
<1>6. \A t \in Instants : n < t \/ s + Window <= t => g[t] = g[last]
  <2> TAKE t \in Instants
  <2>1. t \in Nat /\ (s + Window <= t => n < t)
    BY <1>1, <1>2 DEF s
  <2>2. QED
    BY <1>2, <1>3, <1>4, <2>1
<1>7. g[last] - g[s] = d.used + a
  BY <1>1, <1>2, <1>4
<1>8. \A t \in Instants : t <= s /\ s - t < Window => g[s] - g[t] <= Budget
  <2> TAKE t \in Instants
  <2>1. t \in Nat /\ (t <= s => ~(n < t))
    BY <1>1, <1>2
  <2>2. QED
    BY <1>2, <1>3, <1>4, <2>1
<1>9. ASSUME NEW t \in Instants, NEW u \in Instants, t <= u, u - t <= Window
      PROVE  g[u] - g[t] <= 2 * Budget
  <2>1. /\ t \in Nat /\ u \in Nat /\ charged[t] \in Nat /\ charged[u] \in Nat
        /\ charged[s] \in Nat /\ charged[last] \in Nat
        /\ g[t] \in Nat /\ g[u] \in Nat
        /\ charged[u] - charged[t] <= 2 * Budget
    BY <1>1, <1>2, <1>3, <1>9
  <2>2. CASE ~(n < u)
    BY <1>1, <1>3, <1>9, <2>1, <2>2
  <2>3. CASE n < t
    BY <1>1, <1>3, <1>9, <2>1, <2>3
  <2>4. CASE n < u /\ ~(n < t)
    <3>1. g[u] = g[last]
      BY <1>6, <2>4
    <3>2. CASE s <= t
      <4>1. g[s] <= g[t]
        BY <1>1, <1>5, <3>2
      <4>2. QED
        BY <1>1, <1>4, <1>7, <2>1, <3>1, <4>1
    <3>3. CASE t < s
      <4>1. s - t < Window
        BY <1>1, <1>9, <2>1, <2>4
      <4>2. g[s] - g[t] <= Budget
        BY <1>1, <1>8, <2>1, <3>3, <4>1
      <4>3. QED
        BY <1>1, <1>4, <1>7, <2>1, <3>1, <4>2
    <3>4. QED
      BY <1>1, <2>1, <3>2, <3>3
  <2>5. QED
    BY <2>2, <2>3, <2>4
<1>10. Past(e, g, n)
  BY <1>1, <1>5, <1>6, <1>7, <1>8, <1>9 DEF Past, last
<1>11. QED
  BY <1>10 DEF e, g

LEMMA TimeKeepsPast ==
  ASSUME NEW d \in Duty, NEW charged \in [Instants -> Nat], NEW n \in Times,
         Past(d, charged, n), NEW m \in Times, n <= m
  PROVE  Past(d, charged, m)
BY DEF Past, Duty, Times, Instants

LEMMA InitDuty == DutyInit => DutyInv
<1> SUFFICES ASSUME DutyInit PROVE DutyInv
  OBVIOUS
<1>1. /\ now \in Times /\ permit = 0
      /\ onAir = [t \in Instants |-> 0] /\ onAir \in [Instants -> Nat]
      /\ duty.used = 0 /\ duty.started = now
  BY DEF DutyInit, NewDuty
<1>2. duty \in Duty /\ duty.used + permit <= Budget
  BY BudgetIsNat DEF DutyInit, Times, NewDuty, Duty
<1>3. setBack \in BOOLEAN
  BY Zenon DEF DutyInit
<1>4. Past(duty, onAir, now)
  <2>1. now \in Instants /\ MaxTime + 1 \in Instants /\ now <= now
    BY <1>1 DEF Times, Instants
  <2>2. QED
    BY <1>1, <2>1, BudgetIsNat DEF Past
<1>5. QED
  BY <1>1, <1>2, <1>3, <1>4 DEF DutyInv, DutyType

LEMMA NextDuty == DutyInv /\ [DutyNext]_dutyVars => DutyInv'
<1> SUFFICES ASSUME DutyInv, [DutyNext]_dutyVars PROVE DutyInv'
  OBVIOUS
<1>1. /\ now \in Nat /\ now \in Times
      /\ duty \in Duty
      /\ duty.used \in Nat
      /\ permit \in Nat
      /\ Budget \in Nat
      /\ duty.used <= Budget
      /\ onAir \in [Instants -> Nat]
  BY BudgetIsNat DEF DutyInv, DutyType, Times, Duty
<1>2. ASSUME NEW airtime \in Airtimes, Check(airtime) PROVE DutyInv'
  <2>1. Roll(duty, now) \in Duty /\ Roll(duty, now).used <= duty.used
    BY <1>1, RollProperties
  <2>2. (duty.used + permit <= Budget)'
    BY <1>1, <1>2, <2>1 DEF Check, WouldPermit, Duty
  <2>3. DutyType'
    BY <1>2, <2>1 DEF DutyInv, DutyType, Check
  <2>4. ~setBack' => Past(duty', onAir', now')
    BY <1>1, <1>2, RollKeepsPast DEF Check, DutyInv
  <2>5. QED
    BY <2>2, <2>3, <2>4 DEF DutyInv, Budget
<1>3. ASSUME NEW airtime \in Airtimes, Charge(airtime) PROVE DutyInv'
  <2> DEFINE rolled == Roll(duty, now)
             charged == [t \in Instants |-> IF now < t THEN onAir[t] + airtime ELSE onAir[t]]
  <2>1. Charged(duty, now, airtime) \in Duty /\ Charged(duty, now, airtime).used <= Budget
    BY <1>1, ChargedProperties
  <2>2. (duty.used + permit <= Budget)'
    BY <1>1, <1>3, <2>1 DEF Charge, Duty
  <2>3. onAir' \in [Instants -> Nat]
    BY <1>1, <1>3 DEF Charge
  <2>4. DutyType'
    BY <1>3, <2>1, <2>3 DEF DutyInv, DutyType, Charge
  <2>5. rolled \in Duty /\ rolled.used <= duty.used
    BY <1>1, RollProperties
  <2>6. ~setBack => Past(rolled, onAir, now) /\ now < rolled.started + Window
    BY <1>1, RollKeepsPast DEF DutyInv
  <2>7. setBack' = setBack /\ now' = now
    BY <1>3 DEF Charge
  <2>8. CASE WouldPermit(duty, now, airtime)
    <3>1. /\ duty' = [used |-> rolled.used + airtime, started |-> rolled.started]
          /\ onAir' = charged /\ rolled.used + airtime <= Budget
      BY <1>3, <2>8 DEF Charge, Charged, WouldPermit
    <3> HIDE DEF rolled
    <3>2. ~setBack => Past([used |-> rolled.used + airtime, started |-> rolled.started],
                           charged, now)
      BY <1>1, <2>5, <2>6, <3>1, ChargeKeepsPast
    <3>3. QED
      BY <2>2, <2>4, <2>7, <3>1, <3>2 DEF DutyInv
  <2>9. CASE ~WouldPermit(duty, now, airtime)
    <3>1. duty' = rolled /\ onAir' = onAir
      BY <1>3, <2>9 DEF Charge, Charged
    <3>2. QED
      BY <2>2, <2>4, <2>6, <2>7, <3>1 DEF DutyInv
  <2>10. QED
    BY <2>8, <2>9
<1>4. CASE ReadClock
  <2>1. now' \in Times /\ setBack' = (setBack \/ now' < now)
        /\ duty' = duty /\ permit' = permit /\ onAir' = onAir
    BY <1>4 DEF ReadClock
  <2>2. DutyType'
    BY <2>1 DEF DutyInv, DutyType
  <2>3. ~setBack' => ~setBack /\ now <= now'
    <3>1. now' \in Nat
      BY <2>1 DEF Times
    <3>2. ~setBack' => ~setBack /\ ~(now' < now)
      BY <2>1, Zenon
    <3>3. QED
      BY <1>1, <3>1, <3>2
  <2>4. ~setBack' => Past(duty', onAir', now')
    BY <1>1, <2>1, <2>3, TimeKeepsPast DEF DutyInv
  <2>5. QED
    BY <2>1, <2>2, <2>4 DEF DutyInv
<1>5. CASE UNCHANGED dutyVars
  BY <1>5 DEF DutyInv, DutyType, dutyVars, Budget
<1>6. QED
  BY <1>2, <1>3, <1>4, <1>5 DEF DutyNext

LEMMA DutyInvariance == DutySpec => []DutyInv
BY InitDuty, NextDuty, PTL DEF DutySpec

\* However it checks, charges and waits, and whichever way its clock moves, a
\* caller never has more airtime charged in a window than the budget
\* (airtime.rs:313-316).
THEOREM NeverOverBudget == DutySpec => []WithinBudget
<1>1. DutyInv => WithinBudget
  BY BudgetIsNat DEF DutyInv, DutyType, Duty, WithinBudget
<1>2. QED
  BY <1>1, DutyInvariance, PTL

\* Wherever a window's length is laid, as long as the clock was never set back it
\* holds at most the airtime of two windows (airtime.rs:240-242).
THEOREM StraddlesTwoWindows == DutySpec => []AtMostTwiceTheBudget
<1>1. DutyInv => AtMostTwiceTheBudget
  BY DEF DutyInv, Past, AtMostTwiceTheBudget
<1>2. QED
  BY <1>1, DutyInvariance, PTL

\* What a check permitted can still be charged later, if nothing was charged
\* in between (routing.rs:255-259, delivery.rs:260-264).
THEOREM PermissionIsKept == DutySpec => PermissionKeeps
<1>1. DutyInv /\ [DutyNext]_dutyVars =>
        [\A airtime \in Airtimes :
           Charge(airtime) /\ airtime <= permit => onAir' # onAir]_dutyVars
  <2> SUFFICES ASSUME DutyInv, NEW airtime \in Airtimes, Charge(airtime),
                      airtime <= permit
               PROVE  onAir' # onAir
    OBVIOUS
  <2>1. now \in Nat /\ now \in Times /\ duty \in Duty /\ permit \in Nat
        /\ Budget \in Nat /\ onAir \in [Instants -> Nat]
        /\ duty.used + permit <= Budget
    BY BudgetIsNat DEF DutyInv, DutyType, Times
  <2>2. Roll(duty, now) \in Duty /\ Roll(duty, now).used <= duty.used
    BY <2>1, RollProperties
  <2>3. WouldPermit(duty, now, airtime)
    BY <2>1, <2>2 DEF WouldPermit, Duty
  <2>4. MaxTime + 1 \in Instants /\ now < MaxTime + 1
    BY <2>1 DEF Times, Instants
  <2>5. onAir'[MaxTime + 1] = onAir[MaxTime + 1] + airtime
    BY <2>3, <2>4 DEF Charge
  <2>6. onAir[MaxTime + 1] \in Nat /\ airtime \in Nat \ {0}
    BY <2>1, <2>4
  <2>7. QED
    BY <2>5, <2>6
<1>2. QED
  BY <1>1, DutyInvariance, PTL DEF DutySpec, PermissionKeeps
----------------------------------------------------------------------------
\* A context is a history and a budget that do not disturb each other: what is
\* proved of either holds of a caller that uses both, in any order
\* (c-api lib.rs:435-441).
THEOREM ContextIsBoth == CtxSpec => Spec /\ DutySpec
<1>1. CtxInit => Init /\ DutyInit
  BY DEF CtxInit
<1>2. [CtxNext]_<<vars, dutyVars>> => [Next]_vars /\ [DutyNext]_dutyVars
  BY DEF CtxNext
<1>3. QED
  BY <1>1, <1>2, PTL DEF CtxSpec, Spec, DutySpec
=============================================================================
