-------------------------------- MODULE Radio --------------------------------
(***************************************************************************)
(* Radio: the two calculations the relay and the budget take from the        *)
(* modem.  ModemParams::airtime_us (protocol/airtime.rs) says how long a     *)
(* frame occupies the channel; ContentionWindow::slots_for_snr               *)
(* (protocol/routing.rs) how wide a window the backoff of a relay is drawn   *)
(* from.  A node computes the first for frames of any length and the second  *)
(* for frames heard at any strength, one after the other.                    *)
(***************************************************************************)
EXTENDS Integers

CONSTANTS
  Second,      \* microseconds in a second, over the unit of the bandwidths
  MaxMicros,   \* u32::MAX
  MaxSignal,   \* i16::MAX; signals are in quarter-decibels
  Modems,      \* the modem parameters a caller may state
  Lengths,     \* lengths of frames
  Windows,     \* the contention windows a caller may configure
  Signals      \* strengths at which frames are heard

ASSUME RadioAssumption ==
  /\ Second \in Nat \ {0} /\ MaxMicros \in Nat /\ MaxSignal \in Nat \ {0}
  /\ Lengths \subseteq Nat
  /\ Modems \subseteq [sf : Nat, bandwidth : Nat, codingRate : Nat, preamble : Nat,
                       crc : BOOLEAN, implicitHeader : BOOLEAN, lowDataRate : BOOLEAN]
  /\ Signals \subseteq (-MaxSignal - 1)..MaxSignal
  /\ Windows \subseteq [min : Nat, max : Nat, floor : Signals, ceil : Signals]

VARIABLES
  modem,     \* the ModemParams of the caller
  length,    \* the frame last measured
  airtime,   \* its time on air, or None
  window,    \* the ContentionWindow of the caller
  snr,       \* the strength of the frame last heard
  slots      \* the width of the window for it

radioVars == <<modem, length, airtime, window, snr, slots>>
----------------------------------------------------------------------------
(* Time on air.                                                              *)
None == -1

SymbolTime(m) ==
  LET us == (2^m.sf * Second) \div m.bandwidth
  IN  IF m.sf \notin 7..12 \/ m.bandwidth = 0 THEN None
      ELSE IF us > MaxMicros THEN None ELSE us

\* The bits beyond the eight symbols every frame has, which a short frame at a
\* high spreading factor does not fill, and the bits that fit one step of them.
PayloadBits(m, len) == 8 * len - 4 * m.sf + 28 + (IF m.crc THEN 16 ELSE 0)
                                        - (IF m.implicitHeader THEN 20 ELSE 0)
StepBits(m) == 4 * (m.sf - (IF m.lowDataRate THEN 2 ELSE 0))

\* Mutant: the last step is counted only when it is full.
SymbolsOfFullSteps(m, len) ==
  IF PayloadBits(m, len) <= 0 THEN 8
  ELSE 8 + (PayloadBits(m, len) \div StepBits(m)) * (m.codingRate + 4)

Symbols(m, len) ==
  IF PayloadBits(m, len) <= 0 THEN 8
  ELSE 8 + ((PayloadBits(m, len) + StepBits(m) - 1) \div StepBits(m)) * (m.codingRate + 4)

\* The coding rate is looked at only when it is used.
AirtimeOf(m, len) ==
  LET sym == SymbolTime(m)
      total == ((4 * m.preamble + 17) * sym) \div 4 + Symbols(m, len) * sym
  IN  IF \/ sym = None
         \/ PayloadBits(m, len) > 0 /\ m.codingRate \notin 1..4
         \/ total > MaxMicros
      THEN None ELSE total
----------------------------------------------------------------------------
(* The contention window.                                                    *)
\* saturating_sub of two signals.
SatSub(a, b) == IF a - b > MaxSignal THEN MaxSignal
                ELSE IF a - b < -MaxSignal - 1 THEN -MaxSignal - 1 ELSE a - b

\* Mutant: the distance from the floor is not held to the range of the span.
SlotsUnsaturated(w, s) ==
  IF s <= w.floor THEN w.min
  ELSE IF s >= w.ceil \/ w.max < w.min THEN w.max
  ELSE w.min + ((s - w.floor) * (w.max - w.min)) \div SatSub(w.ceil, w.floor)

\* Between a floor and a ceiling the span is positive, so that of the degenerate
\* configurations only max < min reaches its own branch.
SlotsForSnr(w, s) ==
  IF s <= w.floor THEN w.min
  ELSE IF s >= w.ceil \/ w.max < w.min THEN w.max
  ELSE w.min + (SatSub(s, w.floor) * (w.max - w.min)) \div SatSub(w.ceil, w.floor)
----------------------------------------------------------------------------
\* As if an empty frame had been measured, and a frame heard at the floor.
RadioInit == /\ modem \in Modems
             /\ length = 0 /\ airtime = AirtimeOf(modem, 0)
             /\ window \in Windows
             /\ snr = window.floor /\ slots = SlotsForSnr(window, window.floor)

Measure(len) == /\ length' = len
                /\ airtime' = AirtimeOf(modem, len)
                /\ UNCHANGED <<modem, window, snr, slots>>

Hear(s) == /\ snr' = s
           /\ slots' = SlotsForSnr(window, s)
           /\ UNCHANGED <<modem, length, airtime, window>>

RadioNext == (\E len \in Lengths : Measure(len)) \/ (\E s \in Signals : Hear(s))

RadioSpec == RadioInit /\ [][RadioNext]_radioVars
----------------------------------------------------------------------------
(* Properties.                                                               *)
Supported(m) == m.sf \in 7..12 /\ m.bandwidth # 0 /\ m.codingRate \in 1..4

\* The datasheet's number of payload symbols: the fewest steps that hold the bits.
PayloadSymbols(m, len) ==
  LET steps == CHOOSE k \in 0..(PayloadBits(m, len) + 100) :
                 /\ k * StepBits(m) >= PayloadBits(m, len)
                 /\ \A j \in 0..(k - 1) : j * StepBits(m) < PayloadBits(m, len)
  IN  8 + steps * (m.codingRate + 4)

\* The budget is charged what the frame takes (airtime.rs:20-24), short of it by
\* less than a microsecond for each symbol and one more, and never beyond it.
\* No answer is given only where the modem is unsupported or the time too long.
AirtimeIsTheFormula ==
  Supported(modem) =>
    LET quarters == 4 * (modem.preamble + PayloadSymbols(modem, length)) + 17
        exact == quarters * 2^modem.sf * Second   \* times 4 * bandwidth
    IN  IF airtime = None THEN exact > 4 * modem.bandwidth * MaxMicros
        ELSE /\ 4 * modem.bandwidth * airtime <= exact
             /\ exact < 4 * modem.bandwidth * (airtime + 1) + modem.bandwidth * quarters

\* Whatever the range, and also where the span of the signals exceeds what an i16
\* holds, the window stays between its ends and a weaker signal never has the
\* wider one: the far node may draw the early slots (routing.rs:133-137).
WindowFollowsSignal ==
  [][window.min <= window.max =>
       /\ slots' \in window.min..window.max
       /\ snr' <= snr => slots' <= slots]_radioVars
=============================================================================
