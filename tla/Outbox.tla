------------------------------- MODULE Outbox -------------------------------
(***************************************************************************)
(* code/protocol/delivery.rs: Outbox<N>, the frames of a node that wait for *)
(* an acknowledgement, and the duty budget its retransmissions must fit.    *)
(*                                                                         *)
(* One action per outcome of each method.  A module that composes the       *)
(* outbox with its caller conjoins what the caller does with the answer.    *)
(* A frame is its (from, id) pair: it is stored and resent verbatim, so     *)
(* nothing here tells its other bytes apart but their number.               *)
(***************************************************************************)
EXTENDS DutyOps

CONSTANTS
  Packets,       \* the (from, id) pairs of the frames
  IdOf,          \* the id of each packet
  WellSized,     \* the packets whose frame holds a header and fits MAX_FRAME
  Capacity,      \* N
  MaxAttempts,   \* policy.max_attempts
  Interval       \* policy.interval_us

ASSUME WellSizedAssumption == WellSized \subseteq Packets
ASSUME CapacityAssumption == Capacity \in Nat
ASSUME PolicyAssumption == MaxAttempts \in Nat /\ Interval \in Nat

VARIABLES
  slots,    \* Outbox.slots
  duty      \* the DutyCycle handed to next_due

Slots == 1..Capacity

(***************************************************************************)
(* Slots.  Nothing reads the fields of a free slot, so a slot that is freed *)
(* is the empty one again.                                                 *)
(***************************************************************************)
Free == [state |-> "Free"]
Pending(p, attempts, due) ==
  [state |-> "Pending", packet |-> p, attempts |-> attempts, due |-> due]

FreeSlots == {i \in Slots : slots[i].state = "Free"}
PendingSlots == {i \in Slots : slots[i].state = "Pending"}
Tracking(p) == \E i \in PendingSlots : slots[i].packet = p

\* Mutant: one attempt too many.
DueOnceMore(now) == {i \in PendingSlots : /\ slots[i].attempts <= MaxAttempts
                                          /\ now >= slots[i].due}

\* Mutant: the interval is not waited out.
DueAtOnce(now) == {i \in PendingSlots : slots[i].attempts < MaxAttempts}

Due(now) == {i \in PendingSlots : /\ slots[i].attempts < MaxAttempts
                                  /\ now >= slots[i].due}
\* Mutant: an entry is spent only past the last attempt, which never comes.
SpentTooLate(now) == {i \in PendingSlots : /\ slots[i].attempts > MaxAttempts
                                           /\ now >= slots[i].due}

\* Mutant: the last interval is not waited out.
SpentAtOnce(now) == {i \in PendingSlots : slots[i].attempts >= MaxAttempts}

Spent(now) == {i \in PendingSlots : /\ slots[i].attempts >= MaxAttempts
                                    /\ now >= slots[i].due}

\* Mutant: an entry that has used up its attempts is no longer looked at.
MatchingUnspent(id) == {i \in PendingSlots : /\ IdOf[slots[i].packet] = id
                                             /\ slots[i].attempts < MaxAttempts}

Matching(id) == {i \in PendingSlots : IdOf[slots[i].packet] = id}

\* The slots are scanned in order: the first one that qualifies is taken.
IsFirst(i, S) == i \in S /\ \A j \in S : i <= j

OutboxInit == slots = [i \in Slots |-> Free]

(***************************************************************************)
(* track                                                                   *)
(***************************************************************************)
\* Mutant: the first slot is taken, free or not.
TrackOverwrites(p, now) ==
  /\ p \in WellSized
  /\ \E i \in Slots : /\ IsFirst(i, Slots)
                      /\ slots' = [slots EXCEPT ![i] = Pending(p, 1, now + Interval)]
  /\ UNCHANGED duty

\* Mutant: the transmission of the caller is not counted.
TrackFromZero(p, now) ==
  /\ p \in WellSized
  /\ \E i \in Slots : /\ IsFirst(i, FreeSlots)
                      /\ slots' = [slots EXCEPT ![i] = Pending(p, 0, now + Interval)]
  /\ UNCHANGED duty

TrackOk(p, now) ==
  /\ p \in WellSized
  /\ \E i \in Slots : /\ IsFirst(i, FreeSlots)
                      /\ slots' = [slots EXCEPT ![i] = Pending(p, 1, now + Interval)]
  /\ UNCHANGED duty

\* Error::BadFrame or Error::Full: nothing is stored, nothing is dropped.
TrackRefused(p) == /\ p \notin WellSized \/ FreeSlots = {}
                   /\ UNCHANGED <<slots, duty>>

(***************************************************************************)
(* acknowledge retires every entry with the id, whatever the status was.    *)
(***************************************************************************)
Acknowledge(id) ==
  /\ slots' = [i \in Slots |-> IF i \in Matching(id) THEN Free ELSE slots[i]]
  /\ UNCHANGED duty

(***************************************************************************)
(* reap returning Some((from, id)) of slot i.  Returning None changes       *)
(* nothing.                                                                *)
(***************************************************************************)
Reap(i, now) == /\ IsFirst(i, Spent(now))
                /\ slots' = [slots EXCEPT ![i] = Free]
                /\ UNCHANGED duty

(***************************************************************************)
(* next_due.  Only the first due entry is considered; when the budget does  *)
(* not permit it, the call returns None and only the window may have        *)
(* rolled.  With nothing due the budget is not consulted at all.            *)
(***************************************************************************)
\* Mutant: the budget is not consulted.
NextDueUnchecked(i, now, airtime) ==
  /\ IsFirst(i, Due(now))
  /\ slots' = [slots EXCEPT ![i] = Pending(slots[i].packet, slots[i].attempts + 1,
                                           now + Interval)]
  /\ duty' = Roll(duty, now)

NextDue(i, now, airtime) ==
  /\ IsFirst(i, Due(now))
  /\ WouldPermit(duty, now, airtime)
  /\ slots' = [slots EXCEPT ![i] = Pending(slots[i].packet, slots[i].attempts + 1,
                                           now + Interval)]
  /\ duty' = Roll(duty, now)

NextDueRefused(now, airtime) == /\ Due(now) # {}
                                /\ ~WouldPermit(duty, now, airtime)
                                /\ duty' = Roll(duty, now)
                                /\ UNCHANGED slots
=============================================================================
