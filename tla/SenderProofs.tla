---------------------------- MODULE SenderProofs ----------------------------
(***************************************************************************)
(* An outbox and its caller, for every number of packets, slots, attempts   *)
(* and frames taken ahead, every interval, budget and clock.                *)
(*                                                                         *)
(* The invariant follows a packet through its stages: while it is pending   *)
(* it has one slot, the attempts counted there are its transmissions and    *)
(* the copies its caller still owes, and its deadline is an interval after  *)
(* it was last handed out.                                                  *)
(***************************************************************************)
EXTENDS Sender, FiniteSetTheorems, SequenceTheorems, TLAPS

USE WellSizedAssumption, CapacityAssumption, PolicyAssumption,
    AirtimeAssumption, MaxTakenAssumption, TimeAssumption

Stages == {"fresh", "sent", "pending", "acked", "gaveUp", "untracked"}
Entries == [state : {"Pending"}, packet : Packets, attempts : Nat, due : Nat]

SenderType == /\ slots \in [Slots -> {Free} \cup Entries]
              /\ duty \in Duty
              /\ now \in Nat
              /\ stage \in [Packets -> Stages]
              /\ taken \in Seq(Packets) /\ Len(taken) <= MaxTaken
              /\ sent \in [Packets -> Nat]
              /\ handed \in [Packets -> Nat]
              /\ beyond \in [started : Nat, frames : Nat]

\* The most transmissions of a packet: its caller's own is always one.
Ceiling == IF MaxAttempts > 1 THEN MaxAttempts ELSE 1

\* How often a packet is in a sequence.
Count(s, p) == Cardinality({k \in 1..Len(s) : s[k] = p})

\* A packet's transmissions, and those its caller owes.
Spending(p) == sent[p] + Count(taken, p)

SpentAtMost ==
  \A p \in Packets : /\ Spending(p) <= Ceiling
                     /\ stage[p] = "fresh" => Spending(p) = 0
                     /\ stage[p] = "sent" => Spending(p) = 1

SlotsAgree ==
  \A i \in PendingSlots : /\ slots[i].attempts = Spending(slots[i].packet)
                          /\ slots[i].due = handed[slots[i].packet] + Interval

\* Frames go beyond the budget of a window only once it is spent; none is handed
\* out after that, so there were no more of them than the caller held.
OverrunBounded ==
  /\ taken # <<>> => Airtime <= Budget
  /\ beyond.frames <= MaxTaken
  /\ beyond.started <= duty.started
  /\ beyond.frames > 0 /\ beyond.started = duty.started
       => /\ duty.used + Airtime > Budget
          /\ beyond.frames + Len(taken) <= MaxTaken

IInv == SenderType /\ EachPendingInOneSlot /\ SpentAtMost /\ SlotsAgree
----------------------------------------------------------------------------
(* Copies in a sequence.                                                     *)

LEMMA CountType ==
  ASSUME NEW s \in Seq(Packets), NEW p
  PROVE  /\ IsFiniteSet({k \in 1..Len(s) : s[k] = p})
         /\ Count(s, p) \in Nat
<1>1. IsFiniteSet(1..Len(s))
  BY FS_Interval, LenProperties
<1>2. IsFiniteSet({k \in 1..Len(s) : s[k] = p})
  BY <1>1, FS_Subset
<1>3. QED
  BY <1>2, FS_CardinalityType DEF Count

LEMMA CountEmpty == \A p : Count(<<>>, p) = 0
<1> TAKE p
<1>1. {k \in 1..Len(<<>>) : <<>>[k] = p} = {}
  OBVIOUS
<1>2. QED
  BY <1>1, FS_EmptySet DEF Count

LEMMA CountAppend ==
  ASSUME NEW s \in Seq(Packets), NEW q \in Packets, NEW p
  PROVE  Count(Append(s, q), p) = IF p = q THEN Count(s, p) + 1 ELSE Count(s, p)
<1> DEFINE At == {k \in 1..Len(s) : s[k] = p}
           t == Append(s, q)
           AtT == {k \in 1..Len(t) : t[k] = p}
<1>1. Len(s) \in Nat /\ Len(t) = Len(s) + 1
  BY AppendProperties, LenProperties
<1>2. \A k \in 1..Len(t) : t[k] = IF k = Len(s) + 1 THEN q ELSE s[k]
  BY AppendProperties, <1>1
<1>3. IsFiniteSet(At) /\ Len(s) + 1 \notin At
  <2>1. Len(s) + 1 \notin 1..Len(s)
    BY <1>1
  <2>2. QED
    BY <2>1, CountType
<1>4. CASE p = q
  <2>1. AtT = At \cup {Len(s) + 1}
    BY <1>1, <1>2, <1>4
  <2>2. QED
    BY <1>3, <1>4, <2>1, FS_AddElement DEF Count
<1>5. CASE p # q
  <2>1. AtT = At
    BY <1>1, <1>2, <1>5
  <2>2. QED
    BY <1>5, <2>1 DEF Count
<1>6. QED
  BY <1>4, <1>5

LEMMA CountTail ==
  ASSUME NEW s \in Seq(Packets), s # <<>>, NEW p
  PROVE  Count(s, p) = IF p = Head(s) THEN Count(Tail(s), p) + 1 ELSE Count(Tail(s), p)
<1> DEFINE t == Tail(s)
           At == {k \in 1..Len(s) : s[k] = p}
           AtT == {k \in 1..Len(t) : t[k] = p}
           Later == {k \in 2..Len(s) : s[k] = p}
           f == [k \in AtT |-> k + 1]
<1>1. /\ t \in Seq(Packets) /\ Len(s) \in Nat /\ Len(s) # 0 /\ Len(t) = Len(s) - 1
      /\ Head(s) = s[1] /\ \A k \in 1..Len(t) : t[k] = s[k + 1]
  BY HeadTailProperties, LenProperties, EmptySeq
<1>2. IsFiniteSet(AtT)
  BY <1>1, CountType
<1>3. f \in Bijection(AtT, Later)
  <2>1. \A k \in AtT : k \in Nat /\ k + 1 \in Later
    BY <1>1
  <2>2. f \in Injection(AtT, Later)
    BY <2>1 DEF Injection, IsInjective
  <2>3. ASSUME NEW k \in Later PROVE \E j \in AtT : f[j] = k
    <3>1. k - 1 \in 1..Len(t) /\ t[k - 1] = s[k]
      BY <1>1
    <3>2. k - 1 \in AtT /\ f[k - 1] = k
      BY <3>1
    <3>3. QED
      BY <3>2
  <2>4. QED
    BY <2>1, <2>2, <2>3 DEF Bijection, Surjection
<1>4. IsFiniteSet(Later) /\ Cardinality(Later) = Cardinality(AtT)
  <2>1. ExistsBijection(AtT, Later)
    BY <1>3 DEF ExistsBijection
  <2>2. QED
    BY <1>2, <2>1, FS_Bijection
<1>5. 1 \notin Later
  OBVIOUS
<1>6. At = Later \cup (IF p = s[1] THEN {1} ELSE {})
  BY <1>1
<1>7. CASE p = s[1]
  BY <1>1, <1>4, <1>5, <1>6, <1>7, FS_AddElement DEF Count
<1>8. CASE p # s[1]
  BY <1>1, <1>4, <1>6, <1>8 DEF Count
<1>9. QED
  BY <1>7, <1>8
----------------------------------------------------------------------------
(* The budget.                                                               *)

LEMMA BudgetIsNat == Budget \in Nat
<1>1. Window * LimitPermille \in Nat
  BY WindowAssumption, LimitAssumption
<1>2. QED
  BY <1>1 DEF Budget

LEMMA DutyProperties ==
  ASSUME NEW d \in Duty, NEW t \in Nat
  PROVE  /\ Roll(d, t) \in Duty /\ Roll(d, t).used <= d.used
         /\ Charged(d, t, Airtime) \in Duty
BY DEF Duty, Roll, NewDuty, Charged, WouldPermit
----------------------------------------------------------------------------
(* The slots.                                                                *)

LEMMA EntryOfSlot ==
  ASSUME SenderType, NEW i \in PendingSlots
  PROVE  /\ i \in Slots /\ slots[i] \in Entries
         /\ slots[i].packet \in Packets /\ slots[i].attempts \in Nat /\ slots[i].due \in Nat
BY DEF SenderType, PendingSlots, Entries, Free

LEMMA TypeStep == SenderType /\ [Next]_vars => SenderType'
<1> SUFFICES ASSUME SenderType, [Next]_vars PROVE SenderType'
  OBVIOUS
<1>0. /\ Roll(duty, now) \in Duty /\ Charged(duty, now, Airtime) \in Duty
      /\ now \in Nat /\ duty \in Duty
  BY DutyProperties DEF SenderType
<1>1. ASSUME NEW p \in Packets, Originate(p) PROVE SenderType'
  BY <1>0, <1>1 DEF Originate, PutOnAir, SenderType, Stages
<1>2. ASSUME NEW p \in Packets, Track(p) PROVE SenderType'
  <2>1. slots' \in [Slots -> {Free} \cup Entries]
    <3>1. CASE TrackOk(p, now)
      <4>1. Pending(p, 1, now + Interval) \in Entries
        BY <1>0 DEF Pending, Entries
      <4>2. QED
        BY <3>1, <4>1 DEF TrackOk, SenderType
    <3>2. CASE TrackRefused(p)
      BY <3>2 DEF TrackRefused, SenderType
    <3>3. QED
      BY <1>2, <3>1, <3>2 DEF Track
  <2>2. UNCHANGED <<duty, now, taken, sent, beyond>>
    BY <1>2 DEF Track, TrackOk, TrackRefused
  <2>3. stage' \in [Packets -> Stages] /\ handed' \in [Packets -> Nat]
    BY <1>2 DEF Track, SenderType, Stages
  <2>4. QED
    BY <2>1, <2>2, <2>3 DEF SenderType
<1>3. ASSUME NEW p \in Packets, AckArrives(p) PROVE SenderType'
  <2>1. slots' \in [Slots -> {Free} \cup Entries]
    BY <1>3 DEF AckArrives, Acknowledge, SenderType
  <2>2. stage' \in [Packets -> Stages]
    BY <1>3 DEF AckArrives, SenderType, Stages
  <2>3. QED
    BY <1>3, <2>1, <2>2 DEF AckArrives, Acknowledge, SenderType
<1>4. CASE Poll
  <2>1. PICK i \in Slots : /\ NextDue(i, now, Airtime)
                           /\ taken' = Append(taken, slots[i].packet)
                           /\ handed' = [handed EXCEPT ![slots[i].packet] = now]
    BY <1>4 DEF Poll
  <2>2. i \in PendingSlots
    BY <2>1 DEF NextDue, IsFirst, Due
  <2>3. Pending(slots[i].packet, slots[i].attempts + 1, now + Interval) \in Entries
    BY <1>0, <2>2, EntryOfSlot DEF Pending, Entries
  <2>4. slots' \in [Slots -> {Free} \cup Entries] /\ duty' \in Duty
    BY <1>0, <2>1, <2>3 DEF NextDue, SenderType
  <2>5. /\ taken' \in Seq(Packets) /\ Len(taken') <= MaxTaken
        /\ handed' \in [Packets -> Nat]
    <3>1. taken' \in Seq(Packets) /\ Len(taken') = Len(taken) + 1
      BY <2>1, <2>2, EntryOfSlot, AppendProperties DEF SenderType
    <3>2. Len(taken) \in Nat /\ Len(taken) < MaxTaken
      BY <1>4, LenProperties DEF Poll, SenderType
    <3>3. QED
      BY <2>1, <3>1, <3>2 DEF SenderType
  <2>6. QED
    BY <1>4, <2>4, <2>5 DEF Poll, SenderType
<1>5. CASE PollRefused
  BY <1>0, <1>5 DEF PollRefused, NextDueRefused, callerVars, SenderType
<1>6. CASE Retransmit
  <2>1. /\ Tail(taken) \in Seq(Packets) /\ Len(Tail(taken)) = Len(taken) - 1
        /\ Len(taken) \in Nat
    BY <1>6, HeadTailProperties, LenProperties DEF Retransmit, SenderType
  <2>2. Beyond \in [started : Nat, frames : Nat]
    BY <1>0 DEF Beyond, Duty, SenderType
  <2>3. beyond' \in [started : Nat, frames : Nat]
    BY <1>6, <2>2 DEF Retransmit, SenderType
  <2>4. QED
    BY <1>0, <1>6, <2>1, <2>3 DEF Retransmit, PutOnAir, SenderType
<1>7. CASE GiveUp
  <2>1. PICK i \in Slots : Reap(i, now) /\ stage' = [stage EXCEPT ![slots[i].packet] = "gaveUp"]
    BY <1>7 DEF GiveUp
  <2>2. QED
    BY <1>7, <2>1 DEF GiveUp, Reap, SenderType, Stages
<1>8. CASE OtherTraffic
  BY <1>0, <1>8 DEF OtherTraffic, SenderType
<1>9. CASE Tick
  BY <1>9 DEF Tick, SenderType
<1>10. CASE UNCHANGED vars
  BY <1>10 DEF vars, SenderType
<1>11. QED
  BY <1>1, <1>2, <1>3, <1>4, <1>5, <1>6, <1>7, <1>8, <1>9, <1>10 DEF Next
----------------------------------------------------------------------------
(* One slot for each pending packet.                                         *)

LEMMA OneSlotStep ==
  ASSUME SenderType, EachPendingInOneSlot, [Next]_vars
  PROVE  EachPendingInOneSlot'
<1>0. \A i \in PendingSlots : /\ i \in Slots /\ slots[i].state = "Pending"
                              /\ slots[i].packet \in Packets
  BY EntryOfSlot DEF PendingSlots
<1>1. ASSUME NEW p \in Packets, Track(p) PROVE EachPendingInOneSlot'
  <2>1. stage[p] = "sent" /\ ~Tracking(p)
    BY <1>1 DEF Track, EachPendingInOneSlot
  <2>2. CASE TrackOk(p, now) /\ stage' = [stage EXCEPT ![p] = "pending"]
    <3>1. PICK i \in FreeSlots : slots' = [slots EXCEPT ![i] = Pending(p, 1, now + Interval)]
      BY <2>2 DEF TrackOk, IsFirst
    <3>2. /\ i \in Slots /\ i \notin PendingSlots
          /\ slots'[i].state = "Pending" /\ slots'[i].packet = p
          /\ \A j \in Slots : j # i => slots'[j] = slots[j]
      BY <3>1 DEF FreeSlots, PendingSlots, Pending, SenderType
    <3>3. /\ PendingSlots' = PendingSlots \cup {i}
          /\ \A j \in PendingSlots : slots'[j] = slots[j]
      BY <3>2 DEF PendingSlots
    <3>4. \A q \in Packets : Tracking(q)' <=> q = p \/ Tracking(q)
      BY <3>2, <3>3 DEF Tracking
    <3>5. \A q \in Packets : stage'[q] = "pending" <=> q = p \/ stage[q] = "pending"
      BY <2>2 DEF SenderType
    <3>6. \A j \in PendingSlots : slots[j].packet # p
      BY <2>1 DEF Tracking
    <3>7. QED
      BY <3>2, <3>3, <3>4, <3>5, <3>6 DEF EachPendingInOneSlot
  <2>3. CASE TrackRefused(p) /\ stage' = [stage EXCEPT ![p] = "untracked"]
    <3>1. PendingSlots' = PendingSlots /\ \A q : Tracking(q)' <=> Tracking(q)
      BY <2>3 DEF TrackRefused, PendingSlots, Tracking
    <3>2. \A q \in Packets : stage'[q] = "pending" <=> stage[q] = "pending"
      BY <2>1, <2>3 DEF SenderType
    <3>3. QED
      BY <2>3, <3>1, <3>2 DEF EachPendingInOneSlot, TrackRefused
  <2>4. QED
    BY <1>1, <2>2, <2>3 DEF Track
<1>2. ASSUME NEW p \in Packets, AckArrives(p) PROVE EachPendingInOneSlot'
  <2> DEFINE M == Matching(IdOf[p])
  <2>1. /\ \A i \in Slots : slots'[i] = IF i \in M THEN Free ELSE slots[i]
        /\ \A q \in Packets : stage'[q] = IF \E i \in M : slots[i].packet = q
                                          THEN "acked" ELSE stage[q]
    BY <1>2 DEF AckArrives, Acknowledge
  <2>2. PendingSlots' = PendingSlots \ M /\ \A i \in PendingSlots \ M : slots'[i] = slots[i]
    BY <2>1 DEF PendingSlots, Free
  <2>3. M \subseteq PendingSlots
    BY DEF Matching
  <2>4. \A q \in Packets : Tracking(q)' <=> Tracking(q) /\ ~\E i \in M : slots[i].packet = q
    BY <2>2, <2>3 DEF Tracking, EachPendingInOneSlot
  <2>5. \A q \in Packets :
          stage'[q] = "pending" <=> stage[q] = "pending" /\ ~\E i \in M : slots[i].packet = q
    BY <2>1
  <2>6. QED
    BY <2>2, <2>4, <2>5 DEF EachPendingInOneSlot
<1>3. CASE Poll
  <2>1. PICK i \in Slots : NextDue(i, now, Airtime)
    BY <1>3 DEF Poll
  <2>2. /\ i \in PendingSlots
        /\ slots' = [slots EXCEPT ![i] = Pending(slots[i].packet, slots[i].attempts + 1,
                                                 now + Interval)]
    BY <2>1 DEF NextDue, IsFirst, Due
  <2>3. /\ PendingSlots' = PendingSlots
        /\ \A j \in PendingSlots : slots'[j].packet = slots[j].packet
    BY <2>2 DEF PendingSlots, Pending, SenderType
  <2>4. \A q \in Packets : Tracking(q)' <=> Tracking(q)
    BY <2>3 DEF Tracking
  <2>5. QED
    BY <1>3, <2>3, <2>4 DEF EachPendingInOneSlot, Poll
<1>4. CASE GiveUp
  <2>1. PICK i \in Slots : Reap(i, now) /\ stage' = [stage EXCEPT ![slots[i].packet] = "gaveUp"]
    BY <1>4 DEF GiveUp
  <2>2. i \in PendingSlots /\ slots' = [slots EXCEPT ![i] = Free]
    BY <2>1 DEF Reap, IsFirst, Spent
  <2>3. /\ PendingSlots' = PendingSlots \ {i}
        /\ \A j \in PendingSlots \ {i} : slots'[j] = slots[j]
    BY <2>2 DEF PendingSlots, Free, SenderType
  <2>4. \A q \in Packets : Tracking(q)' <=> Tracking(q) /\ q # slots[i].packet
    BY <2>2, <2>3 DEF Tracking, EachPendingInOneSlot
  <2>5. \A q \in Packets : stage'[q] = "pending" <=> stage[q] = "pending" /\ q # slots[i].packet
    BY <1>0, <2>1, <2>2 DEF SenderType
  <2>6. QED
    BY <2>3, <2>4, <2>5 DEF EachPendingInOneSlot
<1>5. ASSUME NEW p \in Packets, Originate(p) PROVE EachPendingInOneSlot'
  <2>1. \A q \in Packets : stage'[q] = "pending" <=> stage[q] = "pending"
    BY <1>5 DEF Originate, SenderType
  <2>2. UNCHANGED slots
    BY <1>5 DEF Originate
  <2>3. QED
    BY <2>1, <2>2 DEF EachPendingInOneSlot, Tracking, PendingSlots
<1>6. CASE UNCHANGED <<slots, stage>>
  BY <1>6 DEF EachPendingInOneSlot, Tracking, PendingSlots
<1>7. QED
  BY <1>1, <1>2, <1>3, <1>4, <1>5, <1>6
     DEF Next, PollRefused, NextDueRefused, Retransmit, OtherTraffic, Tick, vars, callerVars
----------------------------------------------------------------------------
(* Attempts and deadlines.                                                   *)

LEMMA SpendingType ==
  ASSUME SenderType, NEW p \in Packets
  PROVE  Count(taken, p) \in Nat /\ sent[p] \in Nat /\ Spending(p) \in Nat
<1>1. taken \in Seq(Packets) /\ sent[p] \in Nat
  BY DEF SenderType
<1>2. Count(taken, p) \in Nat
  BY <1>1, CountType
<1>3. QED
  BY <1>1, <1>2 DEF Spending

\* A step that changes neither slots nor counts.
LEMMA SpendingKept ==
  ASSUME SpentAtMost, SlotsAgree,
         \A p \in Packets : /\ Spending(p)' = Spending(p)
                            /\ stage'[p] = "fresh" => stage[p] = "fresh"
                            /\ stage'[p] = "sent" => stage[p] = "sent",
         \A i \in PendingSlots' : i \in PendingSlots /\ slots'[i] = slots[i],
         \A i \in PendingSlots : slots[i].packet \in Packets,
         UNCHANGED handed
  PROVE  SpentAtMost' /\ SlotsAgree'
BY DEF SpentAtMost, SlotsAgree

LEMMA SpendingStep ==
  ASSUME IInv, [Next]_vars
  PROVE  SpentAtMost' /\ SlotsAgree'
<1> USE DEF IInv
<1>0. \A i \in PendingSlots : slots[i].packet \in Packets /\ slots[i].attempts \in Nat
  BY EntryOfSlot
<1>1. ASSUME NEW p \in Packets, Originate(p) PROVE SpentAtMost' /\ SlotsAgree'
  <2>1. /\ stage[p] = "fresh" /\ UNCHANGED <<slots, taken>>
        /\ sent' = [sent EXCEPT ![p] = @ + 1] /\ stage' = [stage EXCEPT ![p] = "sent"]
        /\ handed' = [handed EXCEPT ![p] = now]
    BY <1>1 DEF Originate, PutOnAir
  <2>2. \A q \in Packets : Spending(q)' = IF q = p THEN 1 ELSE Spending(q)
    <3>1. \A q \in Packets : /\ Spending(q) = sent[q] + Count(taken, q)
                             /\ Spending(q)' = sent'[q] + Count(taken, q)
                             /\ sent[q] \in Nat /\ Count(taken, q) \in Nat
      BY <2>1, SpendingType DEF Spending
    <3>2. Spending(p) = 0
      BY <2>1 DEF SpentAtMost
    <3>3. \A q \in Packets : sent'[q] = IF q = p THEN sent[q] + 1 ELSE sent[q]
      BY <2>1 DEF SenderType
    <3>4. QED
      BY <3>1, <3>2, <3>3
  <2>3. ~Tracking(p)
    BY <2>1 DEF EachPendingInOneSlot
  <2>4. SpentAtMost'
    BY <2>1, <2>2 DEF SpentAtMost, Ceiling, SenderType
  <2>5. SlotsAgree'
    <3>1. PendingSlots' = PendingSlots /\ \A i \in PendingSlots : slots[i].packet # p
      BY <2>1, <2>3 DEF PendingSlots, Tracking
    <3>2. QED
      BY <1>0, <2>1, <2>2, <3>1 DEF SlotsAgree, SenderType
  <2>6. QED
    BY <2>4, <2>5
<1>2. ASSUME NEW p \in Packets, Track(p) PROVE SpentAtMost' /\ SlotsAgree'
  <2>1. stage[p] = "sent" /\ UNCHANGED <<taken, sent>>
    BY <1>2 DEF Track
  <2>2. \A q \in Packets : Spending(q)' = Spending(q)
    BY <2>1 DEF Spending
  <2>3. Spending(p) = 1 /\ ~Tracking(p)
    BY <2>1 DEF SpentAtMost, EachPendingInOneSlot
  <2>4. CASE /\ TrackOk(p, now) /\ stage' = [stage EXCEPT ![p] = "pending"]
             /\ handed' = [handed EXCEPT ![p] = now]
    <3>1. PICK i \in FreeSlots : slots' = [slots EXCEPT ![i] = Pending(p, 1, now + Interval)]
      BY <2>4 DEF TrackOk, IsFirst
    <3>2. /\ i \in Slots /\ slots'[i] = Pending(p, 1, now + Interval)
          /\ \A j \in Slots : j # i => slots'[j] = slots[j]
      BY <3>1 DEF FreeSlots, SenderType
    <3>3. \A j \in PendingSlots' :
            j = i \/ (j \in PendingSlots /\ slots'[j] = slots[j] /\ slots[j].packet # p)
      BY <2>3, <3>2 DEF PendingSlots, Tracking
    <3>4. SlotsAgree'
      <4>1. /\ slots'[i].packet = p /\ slots'[i].attempts = 1
            /\ slots'[i].due = now + Interval
        BY <3>2 DEF Pending
      <4>2. handed'[p] = now /\ \A q \in Packets : q # p => handed'[q] = handed[q]
        BY <2>4 DEF SenderType
      <4>3. QED
        BY <1>0, <2>2, <2>3, <3>3, <4>1, <4>2 DEF SlotsAgree
    <3>5. SpentAtMost'
      BY <2>2, <2>4 DEF SpentAtMost, SenderType
    <3>6. QED
      BY <3>4, <3>5
  <2>5. CASE /\ TrackRefused(p) /\ stage' = [stage EXCEPT ![p] = "untracked"]
             /\ UNCHANGED handed
    <3>1. UNCHANGED slots
      BY <2>5 DEF TrackRefused
    <3>2. PendingSlots' = PendingSlots
      BY <3>1 DEF PendingSlots
    <3>3. QED
      BY <1>0, <2>2, <2>5, <3>1, <3>2, SpendingKept DEF SenderType
  <2>6. QED
    BY <1>2, <2>4, <2>5 DEF Track
<1>3. ASSUME NEW p \in Packets, AckArrives(p) PROVE SpentAtMost' /\ SlotsAgree'
  <2>1. /\ \A q \in Packets : Spending(q)' = Spending(q)
        /\ UNCHANGED handed
    BY <1>3 DEF AckArrives, Spending
  <2>2. \A i \in PendingSlots' : i \in PendingSlots /\ slots'[i] = slots[i]
    BY <1>3 DEF AckArrives, Acknowledge, PendingSlots, Free
  <2>3. \A q \in Packets : stage'[q] \in {"acked", stage[q]}
    BY <1>3 DEF AckArrives
  <2>4. QED
    BY <1>0, <2>1, <2>2, <2>3, SpendingKept
<1>4. CASE Poll
  <2>1. PICK i \in Slots : /\ NextDue(i, now, Airtime)
                           /\ taken' = Append(taken, slots[i].packet)
                           /\ handed' = [handed EXCEPT ![slots[i].packet] = now]
    BY <1>4 DEF Poll
  <2> DEFINE p == slots[i].packet
  <2>2. /\ i \in PendingSlots /\ p \in Packets /\ slots[i].attempts < MaxAttempts
        /\ slots' = [slots EXCEPT ![i] = Pending(p, slots[i].attempts + 1, now + Interval)]
        /\ UNCHANGED <<sent, stage>>
    BY <1>0, <1>4, <2>1 DEF NextDue, IsFirst, Due, Poll
  <2>3. stage[p] = "pending"
    BY <2>2 DEF EachPendingInOneSlot, Tracking
  <2>4. \A q \in Packets : Spending(q)' = IF q = p THEN Spending(q) + 1 ELSE Spending(q)
    <3>1. \A q \in Packets : Count(taken', q) = IF q = p THEN Count(taken, q) + 1
                                                         ELSE Count(taken, q)
      BY <2>1, <2>2, CountAppend DEF SenderType
    <3>2. QED
      BY <2>2, <3>1, SpendingType DEF Spending
  <2>5. Spending(p) = slots[i].attempts
    BY <2>2 DEF SlotsAgree
  <2>6. SpentAtMost'
    <3>1. Spending(p) + 1 <= Ceiling
      BY <1>0, <2>2, <2>5 DEF Ceiling
    <3>2. QED
      BY <2>2, <2>3, <2>4, <3>1 DEF SpentAtMost
  <2>7. SlotsAgree'
    <3>1. /\ slots'[i].packet = p /\ slots'[i].attempts = slots[i].attempts + 1
          /\ slots'[i].due = now + Interval
          /\ \A j \in Slots : j # i => slots'[j] = slots[j]
      BY <2>2 DEF Pending, SenderType
    <3>2. \A j \in PendingSlots' :
            j = i \/ (j \in PendingSlots /\ slots'[j] = slots[j] /\ slots[j].packet # p)
      BY <2>2, <3>1 DEF PendingSlots, EachPendingInOneSlot
    <3>3. handed'[p] = now /\ \A q \in Packets : q # p => handed'[q] = handed[q]
      BY <2>1, <2>2 DEF SenderType
    <3>4. QED
      BY <1>0, <2>2, <2>4, <2>5, <3>1, <3>2, <3>3 DEF SlotsAgree
  <2>8. QED
    BY <2>6, <2>7
<1>5. CASE Retransmit
  <2>1. /\ taken # <<>> /\ taken' = Tail(taken) /\ sent' = [sent EXCEPT ![Head(taken)] = @ + 1]
        /\ UNCHANGED <<slots, stage, handed>>
    BY <1>5 DEF Retransmit, PutOnAir
  <2>2. Head(taken) \in Packets /\ Tail(taken) \in Seq(Packets)
    BY <2>1, HeadTailProperties DEF SenderType
  <2>3. ASSUME NEW q \in Packets PROVE Spending(q)' = Spending(q)
    <3>1. Count(taken, q) = IF q = Head(taken) THEN Count(taken', q) + 1 ELSE Count(taken', q)
      BY <2>1, CountTail DEF SenderType
    <3>2. Count(taken', q) \in Nat
      BY <2>1, <2>2, CountType
    <3>3. sent'[q] = IF q = Head(taken) THEN sent[q] + 1 ELSE sent[q]
      BY <2>1, <2>2 DEF SenderType
    <3>4. QED
      BY <3>1, <3>2, <3>3, SpendingType DEF Spending
  <2>4. PendingSlots' = PendingSlots
    BY <2>1 DEF PendingSlots
  <2>5. QED
    BY <1>0, <2>1, <2>3, <2>4, SpendingKept
<1>6. CASE GiveUp
  <2>1. PICK i \in Slots : Reap(i, now) /\ stage' = [stage EXCEPT ![slots[i].packet] = "gaveUp"]
    BY <1>6 DEF GiveUp
  <2>2. \A j \in PendingSlots' : j \in PendingSlots /\ slots'[j] = slots[j]
    BY <2>1 DEF Reap, PendingSlots, Free, SenderType
  <2>3. \A q \in Packets : stage'[q] \in {"gaveUp", stage[q]} /\ Spending(q)' = Spending(q)
    BY <1>6, <2>1 DEF GiveUp, SenderType, Spending
  <2>4. UNCHANGED handed
    BY <1>6 DEF GiveUp
  <2>5. QED
    BY <1>0, <2>2, <2>3, <2>4, SpendingKept
<1>7. CASE UNCHANGED <<slots, stage, taken, sent, handed>>
  <2>1. PendingSlots' = PendingSlots /\ \A q \in Packets : Spending(q)' = Spending(q)
    BY <1>7 DEF PendingSlots, Spending
  <2>2. QED
    BY <1>0, <1>7, <2>1, SpendingKept
<1>8. QED
  BY <1>1, <1>2, <1>3, <1>4, <1>5, <1>6, <1>7
     DEF Next, PollRefused, NextDueRefused, OtherTraffic, Tick, vars, callerVars
----------------------------------------------------------------------------
\* The strengthened invariant holds in every reachable state.
LEMMA Invariance == Spec => []IInv
<1>1. Init => IInv
  <2> SUFFICES ASSUME Init PROVE IInv
    OBVIOUS
  <2>1. SenderType
    <3>1. duty \in Duty
      BY DEF Init, NewDuty, Duty
    <3>2. taken \in Seq(Packets) /\ Len(taken) <= MaxTaken
      BY EmptySeq DEF Init
    <3>3. QED
      BY <3>1, <3>2 DEF Init, OutboxInit, SenderType, Stages
  <2>2. PendingSlots = {}
    BY DEF Init, OutboxInit, PendingSlots, Free
  <2>3. EachPendingInOneSlot /\ SlotsAgree
    BY <2>2 DEF Init, EachPendingInOneSlot, Tracking, SlotsAgree
  <2>4. SpentAtMost
    <3>1. \A p \in Packets : Spending(p) = 0
      BY CountEmpty DEF Init, Spending
    <3>2. QED
      BY <3>1 DEF Init, SpentAtMost, Ceiling
  <2>5. QED
    BY <2>1, <2>3, <2>4 DEF IInv
<1>2. IInv /\ [Next]_vars => IInv'
  BY TypeStep, OneSlotStep, SpendingStep DEF IInv
<1>3. QED
  BY <1>1, <1>2, PTL DEF Spec

\* A packet the outbox accepted is in exactly one slot until it is retired
\* (delivery.rs:109-112, 188-238).
THEOREM OneSlotEach == Spec => []EachPendingInOneSlot
BY Invariance, PTL DEF IInv

\* No packet is transmitted more often than the policy allows
\* (delivery.rs:86, 278-297).
THEOREM CeilingHolds == Spec => []NeverBeyondTheCeiling
<1>1. IInv => NeverBeyondTheCeiling
  BY SpendingType DEF IInv, SpentAtMost, Ceiling, Spending, NeverBeyondTheCeiling
<1>2. QED
  BY <1>1, Invariance, PTL

\* Nothing is handed out early, or after it was answered or given up
\* (delivery.rs:278-297).
THEOREM HandingOutWaits == Spec => HandedOutInTime
<1>1. IInv /\ [Next]_vars =>
        [\A p \in Packets :
           taken' # taken /\ Len(taken') > Len(taken) /\ taken'[Len(taken')] = p
             => /\ now >= handed[p] + Interval
                /\ stage[p] = "pending"]_vars
  <2> SUFFICES ASSUME IInv, [Next]_vars, NEW p \in Packets, Len(taken') > Len(taken),
                      taken'[Len(taken')] = p
               PROVE  now >= handed[p] + Interval /\ stage[p] = "pending"
    OBVIOUS
  <2>1. Len(taken) \in Nat
    BY LenProperties DEF IInv, SenderType
  <2>2. CASE Poll
    <3>1. PICK i \in Slots : /\ NextDue(i, now, Airtime)
                             /\ taken' = Append(taken, slots[i].packet)
      BY <2>2 DEF Poll
    <3>2. i \in PendingSlots /\ now >= slots[i].due
      BY <3>1 DEF NextDue, IsFirst, Due
    <3>3. slots[i].packet = p
      BY <2>1, <3>1, <3>2, EntryOfSlot, AppendProperties DEF IInv, SenderType
    <3>4. QED
      BY <3>2, <3>3 DEF IInv, SlotsAgree, EachPendingInOneSlot, Tracking
  <2>3. CASE Retransmit
    <3>1. Len(taken') = Len(taken) - 1
      BY <2>3, HeadTailProperties DEF Retransmit, IInv, SenderType
    <3>2. QED
      BY <2>1, <3>1
  <2>4. CASE UNCHANGED taken
    BY <2>1, <2>4
  <2>5. QED
    BY <2>2, <2>3, <2>4 DEF Next, Originate, Track, AckArrives, PollRefused, GiveUp,
                            OtherTraffic, Tick, vars, callerVars
<1>2. QED
  BY <1>1, Invariance, PTL DEF Spec, HandedOutInTime

\* Giving up is reported of a packet that is pending, whose attempts were all
\* handed out and whose last interval has passed (delivery.rs:240-263).
THEOREM GivingUpIsEvidence == Spec => GiveUpIsEvidence
<1>1. IInv /\ [Next]_vars =>
        [\A p \in Packets :
           stage[p] # "gaveUp" /\ stage'[p] = "gaveUp"
             => /\ stage[p] = "pending"
                /\ sent[p] + CopiesOf(p) >= MaxAttempts
                /\ now >= handed[p] + Interval]_vars
  <2> SUFFICES ASSUME IInv, [Next]_vars, NEW p \in Packets,
                      stage[p] # "gaveUp", stage'[p] = "gaveUp"
               PROVE  /\ stage[p] = "pending"
                      /\ sent[p] + CopiesOf(p) >= MaxAttempts
                      /\ now >= handed[p] + Interval
    OBVIOUS
  <2>1. CASE GiveUp
    <3>1. PICK i \in Slots : /\ Reap(i, now)
                             /\ stage' = [stage EXCEPT ![slots[i].packet] = "gaveUp"]
      BY <2>1 DEF GiveUp
    <3>2. /\ i \in PendingSlots /\ now >= slots[i].due /\ slots[i].attempts >= MaxAttempts
      BY <3>1 DEF Reap, IsFirst, Spent
    <3>3. slots[i].packet = p
      BY <3>1 DEF IInv, SenderType
    <3>4. sent[p] + CopiesOf(p) = slots[i].attempts
      BY <3>2, <3>3 DEF IInv, SlotsAgree, Spending, Count, CopiesOf
    <3>5. QED
      BY <3>2, <3>3, <3>4 DEF IInv, SlotsAgree, EachPendingInOneSlot, Tracking
  <2>2. CASE \E q \in Packets : Originate(q) \/ Track(q) \/ AckArrives(q)
    BY <2>2 DEF Originate, Track, AckArrives, IInv, SenderType
  <2>3. CASE UNCHANGED stage
    BY <2>3
  <2>4. QED
    BY <2>1, <2>2, <2>3 DEF Next, Poll, PollRefused, Retransmit, OtherTraffic, Tick, vars,
                            callerVars
<1>2. QED
  BY <1>1, Invariance, PTL DEF Spec, GiveUpIsEvidence
----------------------------------------------------------------------------
(* What the budget of a window may be overrun by.                            *)

LEMMA RollProperties ==
  ASSUME NEW d \in Duty, NEW t \in Nat
  PROVE  /\ Roll(d, t) \in Duty /\ Roll(d, t).started \in Nat /\ d.started \in Nat
         /\ Roll(d, t).started >= d.started
         /\ Roll(d, t).started = d.started => Roll(d, t) = d
         /\ Roll(d, t).started # d.started => Roll(d, t).used = 0
<1>1. CASE Elapsed(d, t) >= Window
  <2>1. t > d.started
    BY <1>1, WindowAssumption DEF Elapsed, Duty
  <2>2. QED
    BY <1>1, <2>1 DEF Roll, NewDuty, Duty
<1>2. CASE ~(Elapsed(d, t) >= Window)
  BY <1>2 DEF Roll, Duty
<1>3. QED
  BY <1>1, <1>2

\* A charge moves on to the rolled window and never takes anything back.
LEMMA ChargeProperties ==
  ASSUME NEW d \in Duty, NEW t \in Nat
  PROVE  /\ Charged(d, t, Airtime).started = Roll(d, t).started
         /\ Charged(d, t, Airtime).used >= Roll(d, t).used
         /\ Charged(d, t, Airtime).used \in Nat
<1>1. Roll(d, t).used \in Nat
  BY RollProperties DEF Duty
<1>2. QED
  BY <1>1 DEF Charged

LEMMA OverrunStep ==
  ASSUME SenderType, OverrunBounded, [Next]_vars
  PROVE  OverrunBounded'
<1>0. /\ duty \in Duty /\ now \in Nat /\ Budget \in Nat /\ Len(taken) \in Nat
      /\ duty.used \in Nat /\ duty.started \in Nat
      /\ beyond.frames \in Nat /\ beyond.started \in Nat
  BY BudgetIsNat, LenProperties DEF SenderType, Duty
<1>1. /\ Roll(duty, now).started \in Nat /\ Roll(duty, now).used \in Nat
      /\ Roll(duty, now).started >= duty.started
      /\ Roll(duty, now).started = duty.started => Roll(duty, now) = duty
      /\ Roll(duty, now).started # duty.started => Roll(duty, now).used = 0
  BY <1>0, RollProperties DEF Duty
<1>2. /\ Charged(duty, now, Airtime).started = Roll(duty, now).started
      /\ Charged(duty, now, Airtime).used >= Roll(duty, now).used
      /\ Charged(duty, now, Airtime).used \in Nat
  BY <1>0, ChargeProperties
<1>3. Budget' = Budget
  BY DEF Budget
\* The budget may roll and be charged: either way its window is no more spent.
<1>4. ASSUME duty'.started = Roll(duty, now).started, duty'.used >= Roll(duty, now).used,
             duty'.used \in Nat, UNCHANGED <<taken, beyond>>
      PROVE  OverrunBounded'
  <2>1. duty'.started = duty.started => duty'.used >= duty.used
    BY <1>0, <1>1, <1>4
  <2>2. QED
    BY <1>0, <1>1, <1>3, <1>4, <2>1 DEF OverrunBounded
<1>5. CASE Poll
  <2>1. PICK i \in Slots : /\ NextDue(i, now, Airtime)
                           /\ taken' = Append(taken, slots[i].packet)
    BY <1>5 DEF Poll
  <2>2. /\ duty' = Roll(duty, now) /\ Roll(duty, now).used + Airtime <= Budget
        /\ UNCHANGED beyond
    BY <1>5, <2>1 DEF NextDue, WouldPermit, Poll
  <2>3. Airtime <= Budget
    BY <1>0, <1>1, <2>2
  <2>4. ~(beyond.frames > 0 /\ beyond.started = duty'.started)
    BY <1>0, <1>1, <2>2 DEF OverrunBounded
  <2>5. QED
    BY <1>0, <1>1, <1>3, <2>2, <2>3, <2>4 DEF OverrunBounded
<1>6. CASE Retransmit
  <2>1. /\ taken # <<>> /\ taken' = Tail(taken) /\ duty' = Charged(duty, now, Airtime)
        /\ beyond' = IF WouldPermit(duty, now, Airtime) THEN beyond ELSE Beyond
    BY <1>6 DEF Retransmit, PutOnAir
  <2>2. Len(taken') = Len(taken) - 1 /\ Len(taken) > 0 /\ Len(taken) <= MaxTaken
    BY <1>0, <2>1, HeadTailProperties, EmptySeq DEF SenderType
  <2>3. Airtime <= Budget
    BY <2>1 DEF OverrunBounded
  <2>4. CASE WouldPermit(duty, now, Airtime)
    <3>1. duty'.started = duty.started => duty'.used >= duty.used
      BY <1>0, <1>1, <1>2, <2>1
    <3>2. QED
      BY <1>0, <1>1, <1>2, <1>3, <2>1, <2>2, <2>3, <2>4, <3>1 DEF OverrunBounded
  <2>5. CASE ~WouldPermit(duty, now, Airtime)
    <3>1. Roll(duty, now).used + Airtime > Budget
      BY <1>0, <1>1, <2>5 DEF WouldPermit
    <3>2. Roll(duty, now) = duty
      BY <1>0, <1>1, <2>3, <3>1
    <3>3. duty' = duty
      BY <2>1, <2>5, <3>2 DEF Charged
    <3>4. beyond'.started = duty.started
          /\ beyond'.frames = (IF beyond.started = duty.started THEN beyond.frames + 1 ELSE 1)
      BY <2>1, <2>5, <3>2 DEF Beyond
    <3>5. beyond'.frames + Len(taken') <= MaxTaken
      BY <1>0, <2>2, <3>4 DEF OverrunBounded
    <3>6. QED
      BY <1>0, <1>3, <2>2, <2>3, <3>1, <3>2, <3>3, <3>4, <3>5 DEF OverrunBounded
  <2>6. QED
    BY <2>4, <2>5
<1>7. CASE \/ \E p \in Packets : Originate(p)
           \/ OtherTraffic
  <2>1. duty' = Charged(duty, now, Airtime) /\ UNCHANGED <<taken, beyond>>
    BY <1>7 DEF Originate, PutOnAir, OtherTraffic
  <2>2. QED
    BY <1>2, <1>4, <2>1
<1>8. CASE PollRefused
  <2>1. duty' = Roll(duty, now) /\ UNCHANGED <<taken, beyond>>
    BY <1>8 DEF PollRefused, NextDueRefused, callerVars
  <2>2. QED
    BY <1>1, <1>4, <2>1
<1>9. CASE UNCHANGED <<duty, taken, beyond>>
  BY <1>3, <1>9 DEF OverrunBounded
<1>10. QED
  BY <1>5, <1>6, <1>7, <1>8, <1>9
     DEF Next, Track, TrackOk, TrackRefused, AckArrives, Acknowledge, GiveUp, Reap, Tick, vars

\* Whatever other traffic and new frames spend between a poll and the
\* retransmission, no budget window carries more frames beyond its budget than
\* the caller holds at once (delivery.rs:258-264, 281).
THEOREM OverrunIsBounded == Spec => []OverrunIsWhatWasTaken
<1>1. Init => OverrunBounded
  <2> SUFFICES ASSUME Init PROVE OverrunBounded
    OBVIOUS
  <2>1. taken = <<>> /\ beyond = [started |-> 0, frames |-> 0] /\ duty.started = 0
    BY DEF Init, NewDuty
  <2>2. QED
    BY <2>1, MaxTakenAssumption DEF OverrunBounded
<1>2. IInv /\ OverrunBounded /\ [Next]_vars => OverrunBounded'
  BY OverrunStep DEF IInv
<1>3. OverrunBounded => OverrunIsWhatWasTaken
  BY DEF OverrunBounded, OverrunIsWhatWasTaken
<1>4. QED
  BY <1>1, <1>2, <1>3, Invariance, PTL DEF Spec
=============================================================================
