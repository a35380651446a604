------------------------------- MODULE DutyOps ------------------------------
(***************************************************************************)
(* code/protocol/airtime.rs: the operations of DutyCycle, as operators on   *)
(* the record of its two changing fields.  The limit and the window never   *)
(* change once new has accepted them, so they are constants here.           *)
(*                                                                         *)
(* The sums of the code saturate at the width of a u64.  They never reach   *)
(* it: used stays within the budget, the budget within the window, and the  *)
(* window is a u32 of milliseconds.                                        *)
(***************************************************************************)
EXTENDS Integers

CONSTANTS
  Window,          \* window_us
  LimitPermille    \* limit_permille

\* new refuses an empty window and a limit above a thousand.
ASSUME WindowAssumption == Window \in Nat \ {0}
ASSUME LimitAssumption == LimitPermille \in 0..1000

Duty == [used : Nat, started : Nat]

Budget == (Window * LimitPermille) \div 1000

NewDuty(now) == [used |-> 0, started |-> now]

\* saturating_sub: a clock that went back has not elapsed at all.
Elapsed(duty, now) == IF now >= duty.started THEN now - duty.started ELSE 0

\* Mutant: a new window does not start at the present.
RollKeepsStart(duty, now) == IF Elapsed(duty, now) >= Window
                             THEN NewDuty(duty.started) ELSE duty

Roll(duty, now) == IF Elapsed(duty, now) >= Window THEN NewDuty(now) ELSE duty

\* Mutant: the airtime asked for is not counted.
WouldPermitOnUsed(duty, now, airtime) == Roll(duty, now).used <= Budget

WouldPermit(duty, now, airtime) == Roll(duty, now).used + airtime <= Budget

\* Mutant: the charge is added to what the window held before it rolled.
ChargedOnStale(duty, now, airtime) ==
  IF WouldPermit(duty, now, airtime)
  THEN [used |-> duty.used + airtime, started |-> Roll(duty, now).started]
  ELSE Roll(duty, now)

\* The budget after a charge: refused, only the roll of its check remains.
Charged(duty, now, airtime) ==
  LET rolled == Roll(duty, now)
  IN  IF WouldPermit(duty, now, airtime)
      THEN [used |-> rolled.used + airtime, started |-> rolled.started]
      ELSE rolled
=============================================================================
