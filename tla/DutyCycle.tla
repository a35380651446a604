------------------------------ MODULE DutyCycle -----------------------------
(***************************************************************************)
(* code/protocol/airtime.rs: one DutyCycle, the clock its caller reads and  *)
(* the checks and charges it makes, each at whatever the clock says then.   *)
(*                                                                         *)
(* A caller checks before a wait (should_relay, next_due) and charges when  *)
(* it transmits, so time passes, and the window may roll, between the two.   *)
(***************************************************************************)
EXTENDS DutyOps

CONSTANTS
  Airtimes,          \* the airtimes the caller asks about
  MaxTime            \* bound of the clock

ASSUME AirtimesAssumption == Airtimes \subseteq Nat \ {0}
ASSUME MaxTimeAssumption == MaxTime \in Nat

VARIABLES
  now,       \* the caller's clock
  duty,      \* the DutyCycle
  permit,    \* the airtime the last check permitted, until the next charge
  onAir,     \* the airtime charged before each instant
  setBack    \* whether the clock was ever set back

dutyVars == <<now, duty, permit, onAir, setBack>>

Times == 0..MaxTime
Instants == 0..(MaxTime + 1)

DutyInit == /\ now \in Times
            /\ duty = NewDuty(now)
            /\ permit = 0
            /\ onAir = [t \in Instants |-> 0]
            /\ setBack = FALSE

\* Mutant: a check compares the airtime with the whole budget.
CheckWholeBudget(airtime) ==
  /\ duty' = Roll(duty, now)
  /\ permit' = IF airtime <= Budget THEN airtime ELSE 0
  /\ UNCHANGED <<now, onAir, setBack>>

Check(airtime) ==
  /\ duty' = Roll(duty, now)
  /\ permit' = IF WouldPermit(duty, now, airtime) THEN airtime ELSE 0
  /\ UNCHANGED <<now, onAir, setBack>>

Charge(airtime) ==
  /\ duty' = Charged(duty, now, airtime)
  /\ onAir' = IF WouldPermit(duty, now, airtime)
              THEN [t \in Instants |-> IF now < t THEN onAir[t] + airtime ELSE onAir[t]]
              ELSE onAir
  /\ permit' = 0
  /\ UNCHANGED <<now, setBack>>

\* Whatever the caller's clock reads next, it may be less than before.
ReadClock == /\ \E t \in Times : /\ now' = t
                                 /\ setBack' = (setBack \/ t < now)
             /\ UNCHANGED <<duty, permit, onAir>>

DutyNext == \/ \E airtime \in Airtimes : Check(airtime)
            \/ \E airtime \in Airtimes : Charge(airtime)
            \/ ReadClock

DutySpec == DutyInit /\ [][DutyNext]_dutyVars

(***************************************************************************)
(* Properties.                                                             *)
(***************************************************************************)

DutyType == /\ now \in Times
            /\ duty \in Duty
            /\ permit \in Nat
            /\ onAir \in [Instants -> Nat]
            /\ setBack \in BOOLEAN

\* The airtime charged in a window never exceeds its budget, whatever the
\* caller checked, charged or waited (airtime.rs:313-316), and whichever way
\* its clock moved.
WithinBudget == duty.used <= Budget

\* "A fixed window can permit up to twice the budget across a boundary in the
\* worst case" (airtime.rs:240-242): that, and no more, in any stretch of time
\* as long as a window.
AtMostTwiceTheBudget ==
  ~setBack =>
    \A t, u \in Instants :
      t <= u /\ u - t <= Window => onAir[u] - onAir[t] <= 2 * Budget

\* A permission stays good: what a check permitted can be charged at any later
\* time, if nothing was charged in between.  should_relay and next_due rely on
\* it, since they check before a wait (routing.rs:255-259, delivery.rs:260-264).
PermissionKeeps ==
  [][\A airtime \in Airtimes :
       Charge(airtime) /\ airtime <= permit => onAir' # onAir]_dutyVars
=============================================================================
