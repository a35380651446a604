------------------------------- MODULE Sender -------------------------------
(***************************************************************************)
(* The Outbox of delivery.rs in the hands of its caller: one task that owns *)
(* the clock and the radio, transmits a frame once, tracks it, polls for    *)
(* retransmissions, reaps what was given up, and is interrupted by          *)
(* acknowledgements, by the other traffic of the node and by time.          *)
(*                                                                         *)
(* The caller of this module follows the contract of next_due: "a caller    *)
(* that takes a frame must transmit it" and charges the budget when it      *)
(* does (delivery.rs:260-264).  MaxTaken is how many frames it takes before *)
(* it transmits them.  next_due asks the budget and reserves nothing: other *)
(* traffic may spend it before the frame is on the air, and the caller then *)
(* transmits what it must, beyond the budget.                               *)
(***************************************************************************)
EXTENDS Outbox, Sequences, FiniteSets

CONSTANTS
  Airtime,     \* the airtime of a frame
  MaxTaken,    \* frames taken from next_due and not yet on the air
  MaxTime,     \* bound of the clock
  QuietAfter,  \* when new frames and other traffic end: MaxTime for never
  Lateness     \* how long the caller may leave undone what it can do

ASSUME AirtimeAssumption == Airtime \in Nat \ {0}
ASSUME MaxTakenAssumption == MaxTaken \in Nat \ {0}
ASSUME TimeAssumption == MaxTime \in Nat /\ QuietAfter \in Nat /\ Lateness \in Nat

VARIABLES
  now,       \* the caller's clock
  stage,     \* of each packet: fresh, sent, pending, acked, gaveUp, untracked
  taken,     \* packets next_due handed out and not yet transmitted, in order
  sent,      \* how often each packet was on the air
  handed,    \* when each packet was originated, tracked or last handed out
  beyond     \* ghost: the frames put on the air after their charge was refused,
             \* and the start of the budget window they were put there in

vars == <<slots, duty, now, stage, taken, sent, handed, beyond>>
callerVars == <<now, stage, taken, sent, handed, beyond>>

Init == /\ OutboxInit
        /\ now = 0
        /\ duty = NewDuty(now)
        /\ stage = [p \in Packets |-> "fresh"]
        /\ taken = <<>>
        /\ sent = [p \in Packets |-> 0]
        /\ handed = [p \in Packets |-> 0]
        /\ beyond = [started |-> 0, frames |-> 0]

PutOnAir(p) == /\ sent' = [sent EXCEPT ![p] = @ + 1]
               /\ duty' = Charged(duty, now, Airtime)

\* The first transmission is the caller's own, within the budget.
Originate(p) == /\ stage[p] = "fresh"
                /\ now <= QuietAfter
                /\ WouldPermit(duty, now, Airtime)
                /\ PutOnAir(p)
                /\ stage' = [stage EXCEPT ![p] = "sent"]
                /\ handed' = [handed EXCEPT ![p] = now]
                /\ UNCHANGED <<slots, now, taken, beyond>>

\* The caller records the frame after it has been transmitted; by then an
\* acknowledgement may already have come and matched nothing.
Track(p) == /\ stage[p] = "sent"
            /\ \/ /\ TrackOk(p, now)
                  /\ stage' = [stage EXCEPT ![p] = "pending"]
                  /\ handed' = [handed EXCEPT ![p] = now]
               \/ /\ TrackRefused(p)
                  /\ stage' = [stage EXCEPT ![p] = "untracked"]
                  /\ UNCHANGED handed
            /\ UNCHANGED <<now, taken, sent, beyond>>

\* The caller polls, and is handed the frame of the first due slot.
Poll == /\ Len(taken) < MaxTaken
        /\ \E i \in Slots :
             /\ NextDue(i, now, Airtime)
             /\ taken' = Append(taken, slots[i].packet)
             /\ handed' = [handed EXCEPT ![slots[i].packet] = now]
        /\ UNCHANGED <<now, stage, sent, beyond>>

PollRefused == /\ Len(taken) < MaxTaken
               /\ NextDueRefused(now, Airtime)
               /\ UNCHANGED callerVars

\* A frame that was taken is transmitted whatever the charge returns.
Beyond == LET window == Roll(duty, now).started
          IN  [started |-> window,
               frames |-> IF beyond.started = window THEN beyond.frames + 1 ELSE 1]

Retransmit == /\ taken # <<>>
              /\ PutOnAir(Head(taken))
              /\ taken' = Tail(taken)
              /\ beyond' = IF WouldPermit(duty, now, Airtime) THEN beyond ELSE Beyond
              /\ UNCHANGED <<slots, now, stage, handed>>

GiveUp == /\ \E i \in Slots :
               /\ Reap(i, now)
               /\ stage' = [stage EXCEPT ![slots[i].packet] = "gaveUp"]
          /\ UNCHANGED <<now, taken, sent, handed, beyond>>

\* An acknowledgement of a packet that was on the air: the first, a repeated or
\* a late one.  acknowledge retires whatever pending entries carry its id.
AckArrives(p) == /\ sent[p] > 0
                 /\ Acknowledge(IdOf[p])
                 /\ stage' = [q \in Packets |->
                                IF \E i \in Matching(IdOf[p]) : slots[i].packet = q
                                THEN "acked" ELSE stage[q]]
                 /\ UNCHANGED <<now, taken, sent, handed, beyond>>

\* Relays and everything else the node transmits share the budget, and spend
\* it between a poll and the retransmission as at any other time.
OtherTraffic == /\ now <= QuietAfter
                /\ WouldPermit(duty, now, Airtime)
                /\ duty' = Charged(duty, now, Airtime)
                /\ UNCHANGED <<slots, now, stage, taken, sent, handed, beyond>>

\* Time passes.  The caller records a frame, polls for one that the budget
\* permits and reaps one that is spent within Lateness of being able to.
Prompt == /\ \A p \in Packets : stage[p] = "sent" => now < handed[p] + Lateness
          /\ \A i \in Spent(now) : now < slots[i].due + Lateness
          /\ WouldPermit(duty, now, Airtime) =>
               \A i \in Due(now) : now < slots[i].due + Lateness

Tick == /\ now < MaxTime
        /\ Prompt
        /\ now' = now + 1
        /\ UNCHANGED <<slots, duty, stage, taken, sent, handed, beyond>>

Next == \/ \E p \in Packets : Originate(p) \/ Track(p) \/ AckArrives(p)
        \/ Poll
        \/ PollRefused
        \/ Retransmit
        \/ GiveUp
        \/ OtherTraffic
        \/ Tick

Spec == Init /\ [][Next]_vars

\* The caller's task keeps running and its clock keeps going: it records what
\* it sent, polls, transmits what it took and reaps.
Fairness == /\ \A p \in Packets : WF_vars(Track(p))
            /\ WF_vars(Poll)
            /\ WF_vars(Retransmit)
            /\ WF_vars(GiveUp)
            /\ WF_vars(Tick)

FairSpec == Spec /\ Fairness

(***************************************************************************)
(* Properties.                                                             *)
(***************************************************************************)

\* Every packet the outbox accepted is in exactly one slot until it is retired:
\* none is lost, overwritten by a later track or held by two slots, and nothing
\* retired keeps a slot (delivery.rs:109-112, "growing it would mean
\* allocating"; the refusal must not cost another entry).
EachPendingInOneSlot ==
  /\ \A p \in Packets : stage[p] = "pending" <=> Tracking(p)
  /\ \A i, j \in PendingSlots : slots[i].packet = slots[j].packet => i = j

\* The copies of a packet the caller still owes.
CopiesOf(p) == Cardinality({k \in 1..Len(taken) : taken[k] = p})

\* No packet is ever on the air more often than the policy allows: the measured
\* behaviour is "a ceiling, not a recommendation" (delivery.rs:86), and a packet
\* is always transmitted once by the caller.
NeverBeyondTheCeiling ==
  \A p \in Packets : sent[p] <= IF MaxAttempts > 1 THEN MaxAttempts ELSE 1

\* A frame is handed out again only after the interval has passed since it was
\* tracked or last handed out, and only while it is unanswered: nothing already
\* acknowledged or given up is ever handed out.
HandedOutInTime ==
  [][\A p \in Packets :
       taken' # taken /\ Len(taken') > Len(taken) /\ taken'[Len(taken')] = p
         => /\ now >= handed[p] + Interval
            /\ stage[p] = "pending"]_vars

\* Giving up is the evidence that a frame was not answered: it is reported of a
\* packet once, only when all its attempts were handed out, the last at least an
\* interval ago, and never of a packet an acknowledgement retired
\* (delivery.rs:240-244).
GiveUpIsEvidence ==
  [][\A p \in Packets :
       stage[p] # "gaveUp" /\ stage'[p] = "gaveUp"
         => /\ stage[p] = "pending"
            /\ sent[p] + CopiesOf(p) >= MaxAttempts
            /\ now >= handed[p] + Interval]_vars

\* The check of next_due bounds what it cannot prevent: whatever other traffic
\* spends between a poll and the retransmission, no budget window ever carries
\* more frames beyond its budget than the caller holds at once, for once the
\* budget is spent next_due hands out no more (delivery.rs:258-264, 281).
OverrunIsWhatWasTaken == beyond.frames <= MaxTaken

\* Every packet the outbox accepted is eventually acknowledged or given up: its
\* slot comes free again.
EventuallyRetired ==
  \A p \in Packets : stage[p] = "pending" ~> stage[p] \in {"acked", "gaveUp"}
=============================================================================
