-------------------------- MODULE CalculationsProofs --------------------------
(***************************************************************************)
(* What the calculations compute, proved for every argument: the contention   *)
(* window follows the signal, for every window, every strength and every width *)
(* of the signals; the time on air is the datasheet's formula; the addition   *)
(* chain of invert is Fermat's inversion; and of the frames no block is ever   *)
(* encrypted twice under a key, and none that was altered opens, for blocks,   *)
(* words, tags, packets and texts of every size that fits.                    *)
(***************************************************************************)
EXTENDS Radio, Inversion, Ciphers, FiniteSets, FiniteSetTheorems,
        WellFoundedInduction, TLAPS

----------------------------------------------------------------------------
(* The contention window.                                                    *)

\* A quotient grows with what is divided, and is bounded by the factor it is
\* divided out of.
LEMMA DivMonotone ==
  ASSUME NEW a \in Nat, NEW b \in Nat, a <= b, NEW d \in Nat \ {0}
  PROVE  a \div d <= b \div d
OBVIOUS

LEMMA DivBounded ==
  ASSUME NEW o \in Nat, NEW d \in Nat \ {0}, o <= d, NEW k \in Nat
  PROVE  (o * k) \div d \in 0..k
<1>1. o * k <= k * d /\ o * k \in Nat
  OBVIOUS
<1>2. (k * d) \div d = k
  OBVIOUS
<1> QED
  BY <1>1, <1>2, DivMonotone

\* Two signals between the floor and the ceiling are at saturated distances in
\* the order of the signals, and within the saturated span.
LEMMA SatSubOrders ==
  ASSUME NEW f \in Int, NEW c \in Int, NEW s \in Int, NEW t \in Int,
         f < s, s <= t, t < c
  PROVE  /\ SatSub(s, f) \in Nat /\ SatSub(t, f) \in Nat
         /\ SatSub(c, f) \in Nat \ {0}
         /\ SatSub(s, f) <= SatSub(t, f) /\ SatSub(t, f) <= SatSub(c, f)
BY RadioAssumption DEF RadioAssumption, SatSub

LEMMA Typed == /\ \A s \in Signals : s \in Int
               /\ \A w \in Windows : /\ w.min \in Nat /\ w.max \in Nat
                                      /\ w.floor \in Signals /\ w.ceil \in Signals
<1>1. \A s \in Signals : s \in (-MaxSignal - 1)..MaxSignal
  BY RadioAssumption DEF RadioAssumption
<1>2. \A w \in Windows : w \in [min : Nat, max : Nat, floor : Signals, ceil : Signals]
  BY RadioAssumption DEF RadioAssumption
<1> QED
  BY <1>1, <1>2

\* The window between its ends, and its order.
LEMMA WindowWithinEnds ==
  ASSUME NEW w \in Windows, NEW s \in Signals, w.min <= w.max
  PROVE  SlotsForSnr(w, s) \in w.min..w.max
<1>1. w.min \in Nat /\ w.max \in Nat /\ w.floor \in Int /\ w.ceil \in Int /\ s \in Int
  BY Typed
<1>2. CASE s <= w.floor \/ s >= w.ceil
  BY <1>1, <1>2 DEF SlotsForSnr
<1>3. CASE w.floor < s /\ s < w.ceil
  <2>1. /\ SatSub(s, w.floor) \in Nat /\ SatSub(w.ceil, w.floor) \in Nat \ {0}
        /\ SatSub(s, w.floor) <= SatSub(w.ceil, w.floor)
    BY <1>1, <1>3, SatSubOrders, SMTT(30)
  <2>2. (SatSub(s, w.floor) * (w.max - w.min)) \div SatSub(w.ceil, w.floor) \in 0..(w.max - w.min)
    <3> DEFINE o == SatSub(s, w.floor)
               d == SatSub(w.ceil, w.floor)
               k == w.max - w.min
    <3>1. o \in Nat /\ d \in Nat \ {0} /\ o <= d /\ k \in Nat
      BY <1>1, <2>1
    <3> HIDE DEF o, d, k
    <3>2. (o * k) \div d \in 0..k
      BY <3>1, DivBounded
    <3> QED
      BY <3>2 DEF o, d, k
  <2>3. SlotsForSnr(w, s)
          = w.min + (SatSub(s, w.floor) * (w.max - w.min)) \div SatSub(w.ceil, w.floor)
    BY <1>1, <1>3 DEF SlotsForSnr
  <2> QED
    BY <1>1, <2>2, <2>3
<1> QED
  BY <1>1, <1>2, <1>3

LEMMA WindowMonotone ==
  ASSUME NEW w \in Windows, NEW s \in Signals, NEW t \in Signals, s <= t, w.min <= w.max
  PROVE  SlotsForSnr(w, s) <= SlotsForSnr(w, t)
<1>1. w.min \in Nat /\ w.max \in Nat /\ w.floor \in Int /\ w.ceil \in Int /\ s \in Int /\ t \in Int
  BY Typed
<1>2. SlotsForSnr(w, s) \in w.min..w.max /\ SlotsForSnr(w, t) \in w.min..w.max
  BY WindowWithinEnds
<1>3. CASE s <= w.floor
  BY <1>1, <1>2, <1>3 DEF SlotsForSnr
<1>4. CASE t > w.floor /\ t >= w.ceil
  BY <1>1, <1>2, <1>4 DEF SlotsForSnr
<1>5. CASE w.floor < s /\ t < w.ceil
  <2> DEFINE span == SatSub(w.ceil, w.floor)
             Part(x) == SatSub(x, w.floor) * (w.max - w.min)
  <2>1. /\ SatSub(s, w.floor) \in Nat /\ SatSub(t, w.floor) \in Nat /\ span \in Nat \ {0}
        /\ SatSub(s, w.floor) <= SatSub(t, w.floor)
    BY <1>1, <1>5, SatSubOrders
  <2>2. Part(s) \in Nat /\ Part(t) \in Nat /\ Part(s) <= Part(t)
    BY <1>1, <2>1
  <2>3. Part(s) \div span <= Part(t) \div span
    BY <2>1, <2>2, DivMonotone
  <2>4. Part(s) \div span \in Int /\ Part(t) \div span \in Int
    BY <2>1, <2>2
  <2>5. /\ SlotsForSnr(w, s) = w.min + Part(s) \div span
        /\ SlotsForSnr(w, t) = w.min + Part(t) \div span
    BY <1>1, <1>5 DEF SlotsForSnr
  <2> QED
    BY <1>1, <2>3, <2>4, <2>5
<1> QED
  BY <1>1, <1>3, <1>4, <1>5

\* Between the calls: the window belongs to the caller and its width to the
\* signal last heard.
Consistent == /\ window \in Windows /\ snr \in Signals
              /\ slots = SlotsForSnr(window, snr)

LEMMA ConsistentStep == Consistent /\ [RadioNext]_radioVars => Consistent' /\ UNCHANGED window
<1> SUFFICES ASSUME Consistent, [RadioNext]_radioVars PROVE Consistent' /\ UNCHANGED window
  OBVIOUS
<1>1. ASSUME NEW len \in Lengths, Measure(len) PROVE Consistent' /\ UNCHANGED window
  BY <1>1 DEF Measure, Consistent
<1>2. ASSUME NEW s \in Signals, Hear(s) PROVE Consistent' /\ UNCHANGED window
  BY <1>2 DEF Hear, Consistent
<1>3. CASE UNCHANGED radioVars
  BY <1>3 DEF Consistent, radioVars
<1> QED
  BY <1>1, <1>2, <1>3 DEF RadioNext

\* For every window whose ends are in order, the width stays between them and
\* never grows as the signal weakens: slots_for_snr (routing.rs:143-176).
THEOREM WidthFollowsSignal == RadioSpec => WindowFollowsSignal
<1>1. RadioInit => Consistent
  BY RadioAssumption DEF RadioAssumption, RadioInit, Consistent
<1>2. Consistent /\ [RadioNext]_radioVars
        => [window.min <= window.max =>
              /\ slots' \in window.min..window.max
              /\ snr' <= snr => slots' <= slots]_radioVars
  <2> SUFFICES ASSUME Consistent, [RadioNext]_radioVars, window.min <= window.max
               PROVE  /\ slots' \in window.min..window.max
                      /\ snr' <= snr => slots' <= slots
    BY DEF radioVars
  <2>1. Consistent' /\ window' = window
    BY ConsistentStep
  <2>2. window \in Windows /\ snr \in Signals /\ snr' \in Signals
        /\ slots = SlotsForSnr(window, snr) /\ slots' = SlotsForSnr(window, snr')
    BY <2>1 DEF Consistent
  <2>3. slots' \in window.min..window.max
    BY <2>2, WindowWithinEnds
  <2>4. ASSUME snr' <= snr PROVE slots' <= slots
    BY <2>2, <2>4, WindowMonotone
  <2> QED
    BY <2>3, <2>4
<1> QED
  BY <1>1, <1>2, ConsistentStep, PTL DEF RadioSpec, WindowFollowsSignal
----------------------------------------------------------------------------
(* Time on air.                                                              *)

\* A power of two is a number: it counts the subsets of a set.
LEMMA PowerOfTwo == ASSUME NEW n \in Nat PROVE 2^n \in Nat
<1>1. IsFiniteSet(1..n) /\ Cardinality(1..n) = n
  BY FS_Interval
<1> QED
  BY <1>1, FS_SUBSET, FS_CardinalityType

\* A quotient rounds down, by less than what is divided by.
LEMMA RoundsDown ==
  ASSUME NEW x \in Nat, NEW d \in Nat \ {0}
  PROVE  /\ x \div d \in Nat
         /\ d * (x \div d) <= x /\ x < d * (x \div d + 1)
OBVIOUS

LEMMA TimesMonotone ==
  ASSUME NEW x \in Nat, NEW y \in Nat, NEW k \in Nat, x <= y
  PROVE  k * x \in Nat /\ k * y \in Nat /\ k * x <= k * y
OBVIOUS

\* The datasheet's least number of steps is the quotient rounded up.
Holds(k, b, d) == /\ k * d >= b
                  /\ \A j \in 0..(k - 1) : j * d < b

LEMMA RoundedUp ==
  ASSUME NEW b \in Nat \ {0}, NEW d \in Nat \ {0}
  PROVE  (b + d - 1) \div d \in 0..b /\ Holds((b + d - 1) \div d, b, d)
<1> DEFINE q == (b + d - 1) \div d
<1>1. q \in Nat /\ d * q <= b + d - 1 /\ b + d - 1 < d * (q + 1)
  BY RoundsDown, b + d - 1 \in Nat
<1> HIDE DEF q
<1>2. q * d >= b
  BY <1>1
<1>3. ASSUME NEW j \in 0..(q - 1) PROVE j * d < b
  <2>1. d * (j + 1) <= d * q
    BY <1>1, TimesMonotone, j + 1 \in Nat, j + 1 <= q
  <2>2. d * (j + 1) = j * d + d
    OBVIOUS
  <2> QED
    BY <1>1, <2>1, <2>2
<1>4. q <= b
  <2>1. ASSUME q > b PROVE FALSE
    <3>1. d * (b + 1) <= d * q
      BY <1>1, <2>1, TimesMonotone
    <3>2. d * (b + 1) = d * b + d /\ d * b >= b
      BY TimesMonotone
    <3> QED
      BY <1>1, <3>1, <3>2
  <2> QED
    BY <1>1, <2>1
<1>5. q \in 0..b /\ Holds(q, b, d)
  BY <1>1, <1>2, <1>3, <1>4 DEF Holds
<1> QED
  BY <1>5 DEF q

\* No other number of steps holds the bits and no fewer.
LEMMA OneFewest ==
  ASSUME NEW b \in Int, NEW d \in Nat \ {0}, NEW k \in Nat, NEW l \in Nat,
         Holds(k, b, d), Holds(l, b, d)
  PROVE  k = l
<1>1. ASSUME NEW m \in Nat, NEW n \in Nat, Holds(m, b, d), Holds(n, b, d), m < n PROVE FALSE
  <2>1. m \in 0..(n - 1)
    BY <1>1
  <2>2. m * d < b /\ m * d >= b
    BY <1>1, <2>1 DEF Holds
  <2>3. m * d \in Int
    BY <1>1
  <2> QED
    BY <2>2, <2>3
<1> QED
  BY <1>1

LEMMA FewestSteps ==
  ASSUME NEW b \in Int, b >= -100, NEW d \in Nat \ {0}
  PROVE  (CHOOSE k \in 0..(b + 100) : Holds(k, b, d))
           = IF b <= 0 THEN 0 ELSE (b + d - 1) \div d
<1> DEFINE q == IF b <= 0 THEN 0 ELSE (b + d - 1) \div d
           c == CHOOSE k \in 0..(b + 100) : Holds(k, b, d)
<1>1. q \in 0..(b + 100) /\ Holds(q, b, d)
  <2>1. CASE b <= 0
    BY <2>1 DEF Holds
  <2>2. CASE b > 0
    BY <2>2, RoundedUp
  <2> QED
    BY <2>1, <2>2
<1> HIDE DEF q
<1>2. c \in 0..(b + 100) /\ Holds(c, b, d)
  BY <1>1
<1> HIDE DEF c
<1>3. c = q
  BY <1>1, <1>2, OneFewest
<1> QED
  BY <1>3 DEF c, q

LEMMA ModemTyped == \A m \in Modems :
  /\ m.sf \in Nat /\ m.bandwidth \in Nat /\ m.codingRate \in Nat /\ m.preamble \in Nat
  /\ m.crc \in BOOLEAN /\ m.implicitHeader \in BOOLEAN /\ m.lowDataRate \in BOOLEAN
BY RadioAssumption DEF RadioAssumption

\* The code counts the datasheet's symbols.
LEMMA SymbolsAreTheFewest ==
  ASSUME NEW m \in Modems, NEW len \in Nat, Supported(m)
  PROVE  Symbols(m, len) = PayloadSymbols(m, len) /\ Symbols(m, len) \in Nat /\ Symbols(m, len) >= 8
<1> DEFINE b == PayloadBits(m, len)
           d == StepBits(m)
           r == m.codingRate + 4
<1>1. m.sf \in 7..12 /\ r \in 5..8
  BY DEF Supported
<1>2. b \in Int /\ b >= -100
  BY <1>1, ModemTyped DEF PayloadBits
<1>3. d \in Nat \ {0}
  BY <1>1 DEF StepBits
<1>4. Symbols(m, len) = IF b <= 0 THEN 8 ELSE 8 + ((b + d - 1) \div d) * r
  BY DEF Symbols
<1>5. PayloadSymbols(m, len) = 8 + (CHOOSE k \in 0..(b + 100) : Holds(k, b, d)) * r
  BY DEF PayloadSymbols, Holds
<1> HIDE DEF b, d, r
<1>6. PayloadSymbols(m, len) = 8 + (IF b <= 0 THEN 0 ELSE (b + d - 1) \div d) * r
  BY <1>2, <1>3, <1>5, FewestSteps
<1>7. CASE b <= 0
  BY <1>1, <1>4, <1>6, <1>7
<1>8. CASE b > 0
  <2>1. (b + d - 1) \div d \in Nat
    BY <1>2, <1>3, <1>8, RoundedUp
  <2> QED
    BY <1>1, <1>4, <1>6, <1>8, <2>1
<1> QED
  BY <1>2, <1>7, <1>8

\* The arithmetic of the estimate: X is the duration of a symbol before it is
\* divided by the bandwidth w, s after, p the preamble and n the payload's symbols.
LEMMA Estimate ==
  ASSUME NEW X \in Nat, NEW w \in Nat \ {0}, NEW p \in Nat, NEW n \in Nat,
         NEW s \in Nat, w * s <= X, X < w * (s + 1)
  PROVE  LET total == ((4 * p + 17) * s) \div 4 + n * s
             Q == 4 * (p + n) + 17
         IN  /\ total \in Nat
             /\ 4 * w * total <= Q * X
             /\ Q * X < 4 * w * (total + 1) + w * Q
<1> DEFINE t == ((4 * p + 17) * s) \div 4
           Q == 4 * (p + n) + 17
           total == t + n * s
<1>1. (4 * p + 17) * s \in Nat /\ n * s \in Nat /\ Q \in Nat \ {0}
  OBVIOUS
<1>2. t \in Nat /\ 4 * t <= (4 * p + 17) * s /\ (4 * p + 17) * s < 4 * t + 4
  BY <1>1, RoundsDown
<1>3. Q * s = (4 * p + 17) * s + 4 * (n * s)
  OBVIOUS
<1> HIDE DEF t, Q
<1>4. total \in Nat /\ 4 * total <= Q * s /\ Q * s <= 4 * total + 3
  BY <1>1, <1>2, <1>3
<1> HIDE DEF total
<1>5. /\ w * (4 * total) <= w * (Q * s)
      /\ w * (Q * s) <= w * (4 * total + 3)
  BY <1>1, <1>4, TimesMonotone, Q * s \in Nat, 4 * total \in Nat, 4 * total + 3 \in Nat
<1>6. Q * (w * s) <= Q * X /\ Q * (X + 1) <= Q * (w * (s + 1))
  BY <1>1, TimesMonotone, w * s \in Nat, w * (s + 1) \in Nat, X + 1 \in Nat, X + 1 <= w * (s + 1)
<1>7. Q * (w * s) = w * (Q * s) /\ Q * (w * (s + 1)) = w * (Q * s) + w * Q /\ Q * (X + 1) = Q * X + Q
  BY <1>1
<1>8. w * (4 * total) = 4 * w * total /\ w * (4 * total + 3) = 4 * w * total + 3 * w
      /\ 4 * w * (total + 1) = 4 * w * total + 4 * w
  BY <1>4
<1>9. w * (Q * s) \in Int /\ w * Q \in Int /\ Q * X \in Int /\ w * total \in Int
  BY <1>1, <1>4
<1>10. 4 * w * total <= Q * X
  BY <1>5, <1>6, <1>7, <1>8, <1>9, <1>4, <1>1
<1>11. Q * X < 4 * w * (total + 1) + w * Q
  BY <1>5, <1>6, <1>7, <1>8, <1>9, <1>4, <1>1
<1> QED
  BY <1>4, <1>10, <1>11 DEF total, t, Q

\* An estimate that does not fit, of the symbol or of the frame, is too long.
LEMMA TooLong ==
  ASSUME NEW X \in Nat, NEW w \in Nat \ {0}, NEW Q \in Nat, Q >= 4, NEW s \in Nat,
         w * s <= X, NEW u \in Nat, s > u
  PROVE  Q * X > 4 * w * u
<1>1. w * (u + 1) <= w * s
  BY TimesMonotone, u + 1 \in Nat, u + 1 <= s
<1>2. w * (u + 1) = w * u + w /\ w * u \in Nat /\ w * s \in Nat
  OBVIOUS
<1>3. X > w * u
  BY <1>1, <1>2
<1>4. X * 4 <= X * Q
  BY TimesMonotone
<1>5. X * Q = Q * X /\ X * Q \in Nat /\ 4 * w * u = 4 * (w * u)
  OBVIOUS
<1> QED
  BY <1>2, <1>3, <1>4, <1>5

\* The caller's modem, and the estimate for the frame last measured.
Measured == /\ modem \in Modems /\ length \in Nat
            /\ airtime = AirtimeOf(modem, length)

LEMMA FormulaHolds == Measured => AirtimeIsTheFormula
<1> SUFFICES ASSUME Measured, Supported(modem) PROVE AirtimeIsTheFormula
  BY DEF AirtimeIsTheFormula
<1> DEFINE X == 2^modem.sf * Second
           w == modem.bandwidth
           p == modem.preamble
           n == Symbols(modem, length)
           s == X \div w
           sym == SymbolTime(modem)
           total == ((4 * p + 17) * s) \div 4 + n * s
           Q == 4 * (p + n) + 17
<1>1. /\ modem.sf \in 7..12 /\ w \in Nat \ {0} /\ p \in Nat /\ modem.codingRate \in 1..4
      /\ MaxMicros \in Nat
  BY ModemTyped, RadioAssumption DEF Measured, Supported, RadioAssumption
<1>2. X \in Nat
  <2>1. 2^modem.sf \in Nat
    BY <1>1, PowerOfTwo
  <2> QED
    BY <2>1, RadioAssumption DEF RadioAssumption
<1>3. n = PayloadSymbols(modem, length) /\ n \in Nat
  BY SymbolsAreTheFewest DEF Measured
<1>4. sym = IF s > MaxMicros THEN None ELSE s
  BY <1>1 DEF SymbolTime
<1>5. airtime = IF sym = None \/ ((4 * p + 17) * sym) \div 4 + n * sym > MaxMicros THEN None
                ELSE ((4 * p + 17) * sym) \div 4 + n * sym
  BY <1>1 DEF Measured, AirtimeOf
<1>6. AirtimeIsTheFormula
        <=> IF airtime = None THEN Q * 2^modem.sf * Second > 4 * w * MaxMicros
            ELSE /\ 4 * w * airtime <= Q * 2^modem.sf * Second
                 /\ Q * 2^modem.sf * Second < 4 * w * (airtime + 1) + w * Q
  BY <1>3 DEF AirtimeIsTheFormula
<1>7. Q * 2^modem.sf * Second = Q * X /\ Q \in Nat /\ Q >= 17
  <2>1. 2^modem.sf \in Nat /\ Second \in Nat
    BY <1>1, PowerOfTwo, RadioAssumption DEF RadioAssumption
  <2>2. Q \in Nat /\ Q >= 17
    BY <1>1, <1>3
  <2> HIDE DEF Q
  <2> QED
    BY <2>1, <2>2
<1> HIDE DEF X, w, p, n, sym, Q
<1>8. s \in Nat /\ w * s <= X /\ X < w * (s + 1)
  BY <1>1, <1>2, RoundsDown
<1> HIDE DEF s
<1>9. total \in Nat /\ 4 * w * total <= Q * X /\ Q * X < 4 * w * (total + 1) + w * Q
  BY <1>1, <1>2, <1>3, <1>8, Estimate DEF Q
<1> HIDE DEF total
<1>10. CASE s > MaxMicros
  <2>1. airtime = None
    BY <1>4, <1>5, <1>10
  <2>2. Q * X > 4 * w * MaxMicros
    BY <1>1, <1>2, <1>7, <1>8, <1>10, TooLong
  <2> QED
    BY <1>6, <1>7, <2>1, <2>2
<1>11. CASE ~(s > MaxMicros)
  <2>1. sym = s /\ sym # None
    BY <1>4, <1>8, <1>11 DEF None
  <2>2. airtime = IF total > MaxMicros THEN None ELSE total
    BY <1>5, <2>1 DEF total
  <2>3. CASE total > MaxMicros
    <3>1. w * MaxMicros <= w * total /\ w * total # w * MaxMicros
      BY <1>1, <1>9, <2>3, TimesMonotone
    <3>2. Q * X > 4 * w * MaxMicros
      <4>1. w * MaxMicros \in Int /\ w * total \in Int /\ Q * X \in Int
        BY <1>1, <1>2, <1>7, <1>9
      <4>2. 4 * w * total = 4 * (w * total) /\ 4 * w * MaxMicros = 4 * (w * MaxMicros)
        BY <1>1, <1>9
      <4> QED
        BY <1>9, <3>1, <4>1, <4>2
    <3> QED
      BY <1>6, <1>7, <2>2, <2>3, <3>2
  <2>4. CASE ~(total > MaxMicros)
    <3>1. airtime = total /\ airtime # None
      BY <1>9, <2>2, <2>4 DEF None
    <3> QED
      BY <1>6, <1>7, <1>9, <3>1
  <2> QED
    BY <2>3, <2>4
<1> QED
  BY <1>10, <1>11

\* For every modem and every length, the estimate the budget is charged is the
\* datasheet's formula to within the rounding, and no answer is given only where
\* there is none to give: ModemParams::airtime_us (airtime.rs:146-233).
THEOREM EstimateIsTheFormula == RadioSpec => []AirtimeIsTheFormula
<1>1. RadioInit => Measured
  BY DEF RadioInit, Measured
<1>2. Measured /\ [RadioNext]_radioVars => Measured'
  <2> SUFFICES ASSUME Measured, [RadioNext]_radioVars PROVE Measured'
    OBVIOUS
  <2>1. ASSUME NEW len \in Lengths, Measure(len) PROVE Measured'
    BY <2>1, RadioAssumption DEF Measure, Measured, RadioAssumption
  <2>2. ASSUME NEW s \in Signals, Hear(s) PROVE Measured'
    BY <2>2 DEF Hear, Measured
  <2>3. CASE UNCHANGED radioVars
    BY <2>3 DEF Measured, radioVars
  <2> QED
    BY <2>1, <2>2, <2>3 DEF RadioNext
<1> QED
  BY <1>1, <1>2, FormulaHolds, PTL DEF RadioSpec
----------------------------------------------------------------------------
(* The addition chain.                                                       *)

LEMMA FirstRegisters == /\ Z8 = {3} /\ Z9 = {0, 3} /\ Z2 = {1} /\ Z11 = {0, 1, 3}
                        /\ Z22 = {1, 2, 4} /\ Z5 = 0..4
<1>1. Z2 = {1} /\ Z8 = {3}
  BY DEF Z2, Z8, Z1, Squared
<1>2. Z9 = {0, 3} /\ Z11 = {0, 1, 3}
  BY <1>1 DEF Z9, Z11, Z1
<1>3. Z22 = {1, 2, 4}
  BY <1>2 DEF Z22, Squared
<1>4. Z5 = 0..4
  BY <1>2, <1>3 DEF Z5
<1> QED
  BY <1>1, <1>2, <1>3, <1>4

\* A run of ones is squared once, then as often as it takes to clear the run that
\* it is multiplied with.
LEMMA Moved == /\ Squared(Squared(0..4, 1), 4) = 5..9
               /\ Squared(Squared(0..9, 1), 9) = 10..19
               /\ Squared(Squared(0..19, 1), 19) = 20..39
               /\ Squared(Squared(0..39, 1), 9) = 10..49
               /\ Squared(Squared(0..49, 1), 49) = 50..99
               /\ Squared(Squared(0..99, 1), 99) = 100..199
               /\ Squared(Squared(0..199, 1), 49) = 50..249
               /\ Squared(Squared(0..249, 1), 4) = 5..254
<1>1. Squared(Squared(0..4, 1), 4) = 5..9
  <2>1. Squared(0..4, 1) = 1..5
    BY DEF Squared
  <2>2. Squared(1..5, 4) = 5..9
    BY DEF Squared
  <2> QED
    BY <2>1, <2>2
<1>2. Squared(Squared(0..9, 1), 9) = 10..19
  <2>1. Squared(0..9, 1) = 1..10
    BY DEF Squared
  <2>2. Squared(1..10, 9) = 10..19
    BY DEF Squared
  <2> QED
    BY <2>1, <2>2
<1>3. Squared(Squared(0..19, 1), 19) = 20..39
  <2>1. Squared(0..19, 1) = 1..20
    BY DEF Squared
  <2>2. Squared(1..20, 19) = 20..39
    BY DEF Squared
  <2> QED
    BY <2>1, <2>2
<1>4. Squared(Squared(0..39, 1), 9) = 10..49
  <2>1. Squared(0..39, 1) = 1..40
    BY DEF Squared
  <2>2. Squared(1..40, 9) = 10..49
    BY DEF Squared
  <2> QED
    BY <2>1, <2>2
<1>5. Squared(Squared(0..49, 1), 49) = 50..99
  <2>1. Squared(0..49, 1) = 1..50
    BY DEF Squared
  <2>2. Squared(1..50, 49) = 50..99
    BY DEF Squared
  <2> QED
    BY <2>1, <2>2
<1>6. Squared(Squared(0..99, 1), 99) = 100..199
  <2>1. Squared(0..99, 1) = 1..100
    BY DEF Squared
  <2>2. Squared(1..100, 99) = 100..199
    BY DEF Squared
  <2> QED
    BY <2>1, <2>2
<1>7. Squared(Squared(0..199, 1), 49) = 50..249
  <2>1. Squared(0..199, 1) = 1..200
    BY DEF Squared
  <2>2. Squared(1..200, 49) = 50..249
    BY DEF Squared
  <2> QED
    BY <2>1, <2>2
<1>8. Squared(Squared(0..249, 1), 4) = 5..254
  <2>1. Squared(0..249, 1) = 1..250
    BY DEF Squared
  <2>2. Squared(1..250, 4) = 5..254
    BY DEF Squared
  <2> QED
    BY <2>1, <2>2
<1> QED
  BY <1>1, <1>2, <1>3, <1>4, <1>5, <1>6, <1>7, <1>8

LEMMA Runs == /\ Z10 = 0..9 /\ Z20 = 0..19 /\ Z40 = 0..39 /\ Z50 = 0..49
              /\ Z100 = 0..99 /\ Z200 = 0..199 /\ Z250 = 0..249
<1>1. Z10 = 0..9
  <2>1. 5..9 \cup 0..4 = 0..9
    OBVIOUS
  <2> QED
    BY <2>1, Moved, FirstRegisters DEF Z10
<1>2. Z20 = 0..19
  <2>1. 10..19 \cup 0..9 = 0..19
    OBVIOUS
  <2> QED
    BY <2>1, Moved, <1>1 DEF Z20
<1>3. Z40 = 0..39
  <2>1. 20..39 \cup 0..19 = 0..39
    OBVIOUS
  <2> QED
    BY <2>1, Moved, <1>2 DEF Z40
<1>4. Z50 = 0..49
  <2>1. 10..49 \cup 0..9 = 0..49
    OBVIOUS
  <2> QED
    BY <2>1, Moved, <1>1, <1>3 DEF Z50
<1>5. Z100 = 0..99
  <2>1. 50..99 \cup 0..49 = 0..99
    OBVIOUS
  <2> QED
    BY <2>1, Moved, <1>4 DEF Z100
<1>6. Z200 = 0..199
  <2>1. 100..199 \cup 0..99 = 0..199
    OBVIOUS
  <2> QED
    BY <2>1, Moved, <1>5 DEF Z200
<1>7. Z250 = 0..249
  <2>1. 50..249 \cup 0..49 = 0..249
    OBVIOUS
  <2> QED
    BY <2>1, Moved, <1>4, <1>6 DEF Z250
<1> QED
  BY <1>1, <1>2, <1>3, <1>4, <1>5, <1>6, <1>7

\* The chain raises to 2^255 - 21, which is the field's prime less two: all of
\* the bits below 255 but those of 20.  So what it computes is the inverse
\* (x25519.rs:148-151).
THEOREM ChainIsFermat == NoCarry /\ Inverted = (0..254) \ {2, 4}
<1>1. /\ Squared(Squared(Z5, 1), 4) = 5..9 /\ Squared(Squared(Z10, 1), 9) = 10..19
      /\ Squared(Squared(Z20, 1), 19) = 20..39 /\ Squared(Squared(Z40, 1), 9) = 10..49
      /\ Squared(Squared(Z50, 1), 49) = 50..99 /\ Squared(Squared(Z100, 1), 99) = 100..199
      /\ Squared(Squared(Z200, 1), 49) = 50..249 /\ Squared(Squared(Z250, 1), 4) = 5..254
  BY FirstRegisters, Runs, Moved
<1>2. NoCarry
  BY <1>1, FirstRegisters, Runs, SMTT(30) DEF NoCarry, Disjoint, Z1
<1>3. Inverted = (0..254) \ {2, 4}
  BY <1>1, FirstRegisters DEF Inverted
<1> QED
  BY <1>2, <1>3

----------------------------------------------------------------------------
(* Sequences of bytes, whatever a byte is.                                   *)

IsSeq(s) == \E S : s \in Seq(S)

LEMMA SeqFacts == ASSUME NEW s, IsSeq(s)
                  PROVE  Len(s) \in Nat /\ DOMAIN s = 1..Len(s)
BY DEF IsSeq

\* A function on 1..n is a sequence.
LEMMA FunctionIsSeq ==
  ASSUME NEW n \in Nat, NEW f, f = [i \in 1..n |-> f[i]]
  PROVE  IsSeq(f) /\ Len(f) = n
<1> DEFINE S == {f[i] : i \in 1..n}
<1>1. f \in [1..n -> S]
  OBVIOUS
<1>2. f \in Seq(S)
  BY <1>1
<1>3. Len(f) = n
  BY <1>1, <1>2
<1> QED
  BY <1>2, <1>3 DEF IsSeq

LEMMA SameSequence ==
  ASSUME NEW s, IsSeq(s), NEW t, IsSeq(t), Len(s) = Len(t),
         \A i \in 1..Len(s) : s[i] = t[i]
  PROVE  s = t
<1>1. PICK S : s \in Seq(S)
  BY DEF IsSeq
<1>2. PICK T : t \in Seq(T)
  BY DEF IsSeq
<1>3. s = [i \in 1..Len(s) |-> s[i]] /\ t = [i \in 1..Len(t) |-> t[i]]
  BY <1>1, <1>2
<1>4. [i \in 1..Len(s) |-> s[i]] = [i \in 1..Len(s) |-> t[i]]
  OBVIOUS
<1>5. s = [i \in 1..Len(s) |-> t[i]]
  BY <1>3, <1>4, Zenon
<1> QED
  BY <1>3, <1>5, Zenon

LEMMA JoinedSequence ==
  ASSUME NEW s, IsSeq(s), NEW t, IsSeq(t)
  PROVE  /\ IsSeq(s \o t) /\ Len(s \o t) = Len(s) + Len(t)
         /\ \A i \in 1..Len(s) : (s \o t)[i] = s[i]
<1>1. PICK S : s \in Seq(S)
  BY DEF IsSeq
<1>2. PICK T : t \in Seq(T)
  BY DEF IsSeq
<1>3. s \in Seq(S \cup T) /\ t \in Seq(S \cup T)
  BY <1>1, <1>2
<1>4. s \o t \in Seq(S \cup T)
  BY <1>3
<1> QED
  BY <1>3, <1>4 DEF IsSeq

LEMMA JoinedSecond ==
  ASSUME NEW s, IsSeq(s), NEW t, IsSeq(t), NEW i \in 1..Len(t), NEW j, j = Len(s) + i
  PROVE  (s \o t)[j] = t[i]
<1>1. PICK S : s \in Seq(S)
  BY DEF IsSeq
<1>2. PICK T : t \in Seq(T)
  BY DEF IsSeq
<1>3. s \in Seq(S \cup T) /\ t \in Seq(S \cup T)
  BY <1>1, <1>2
<1> QED
  BY <1>3

\* Two concatenations that agree, and break at the same place, have equal parts.
LEMMA PartsEqual ==
  ASSUME NEW s, IsSeq(s), NEW t, IsSeq(t), NEW u, IsSeq(u), NEW v, IsSeq(v),
         Len(s) = Len(u), s \o t = u \o v
  PROVE  s = u /\ t = v
<1>1. Len(s \o t) = Len(s) + Len(t) /\ Len(u \o v) = Len(u) + Len(v)
  BY JoinedSequence
<1>2. Len(s) \in Nat /\ Len(t) \in Nat /\ Len(u) \in Nat /\ Len(v) \in Nat
  BY SeqFacts
<1>3. Len(t) = Len(v)
  BY <1>1, <1>2
<1>4. ASSUME NEW i \in 1..Len(s) PROVE s[i] = u[i]
  <2>1. (s \o t)[i] = s[i] /\ (u \o v)[i] = u[i]
    BY JoinedSequence
  <2> QED
    BY <2>1
<1>5. ASSUME NEW i \in 1..Len(t) PROVE t[i] = v[i]
  <2>1. (s \o t)[Len(s) + i] = t[i]
    BY JoinedSecond
  <2>2. i \in 1..Len(v)
    BY <1>3
  <2>3. (u \o v)[Len(u) + i] = v[i]
    BY <2>2, JoinedSecond
  <2> QED
    BY <2>1, <2>3
<1>6. s = u
  BY <1>4, SameSequence, Zenon
<1>7. t = v
  BY <1>3, <1>5, SameSequence, Zenon
<1> QED
  BY <1>6, <1>7

LEMMA Prefix ==
  ASSUME NEW s, IsSeq(s), NEW n \in 0..Len(s)
  PROVE  /\ IsSeq(SubSeq(s, 1, n)) /\ Len(SubSeq(s, 1, n)) = n
         /\ \A i \in 1..n : SubSeq(s, 1, n)[i] = s[i]
<1>1. PICK S : s \in Seq(S)
  BY DEF IsSeq
<1>2. SubSeq(s, 1, n) \in Seq(S)
  BY <1>1
<1> QED
  BY <1>1, <1>2 DEF IsSeq

LEMMA Part ==
  ASSUME NEW s, IsSeq(s), NEW m \in Nat, NEW n \in Nat, m <= n, n <= Len(s)
  PROVE  /\ IsSeq(SubSeq(s, m + 1, n)) /\ Len(SubSeq(s, m + 1, n)) = n - m
         /\ \A i \in 1..(n - m) : SubSeq(s, m + 1, n)[i] = s[m + i]
<1>1. PICK S : s \in Seq(S)
  BY DEF IsSeq
<1>2. SubSeq(s, m + 1, n) \in Seq(S)
  BY <1>1
<1>3. Len(SubSeq(s, m + 1, n)) = n - m
  BY <1>1
<1>4. ASSUME NEW i \in 1..(n - m) PROVE SubSeq(s, m + 1, n)[i] = s[m + i]
  <2>1. SubSeq(s, m + 1, n)[i] = s[(m + 1) + i - 1]
    BY <1>1
  <2>2. (m + 1) + i - 1 = m + i
    OBVIOUS
  <2> QED
    BY <2>1, <2>2
<1> QED
  BY <1>2, <1>3, <1>4 DEF IsSeq

LEMMA RestEqual ==
  ASSUME NEW s, IsSeq(s), NEW t, IsSeq(t), NEW u, IsSeq(u), s \o t = s \o u
  PROVE  t = u
BY PartsEqual

LEMMA Singles == \A a : IsSeq(<<a>>) /\ Len(<<a>>) = 1 /\ <<a>>[1] = a
<1> TAKE a
<1>1. <<a>> \in Seq({a})
  OBVIOUS
<1> QED
  BY <1>1 DEF IsSeq

LEMMA Pairs == \A a, b : IsSeq(<<a, b>>) /\ Len(<<a, b>>) = 2 /\ <<a, b>>[1] = a /\ <<a, b>>[2] = b
<1> TAKE a, b
<1>1. <<a, b>> \in Seq({a, b})
  OBVIOUS
<1> QED
  BY <1>1 DEF IsSeq
----------------------------------------------------------------------------
(* Induction.  The library's theorems take the property as an operator; here *)
(* it is a set.                                                              *)

\* A set of numbers with 0 and every successor is all of them.
LEMMA SetInduction ==
  ASSUME NEW T, 0 \in T, \A n \in Nat : n \in T => n + 1 \in T
  PROVE  Nat \subseteq T
<1> DEFINE R == {p \in Nat \X Nat : p[1] < p[2]}
           M == {n \in Nat : n \notin T}
<1>1. IsWellFoundedOn(R, Nat)
  BY NatLessThanWellFounded DEF OpToRel
<1>2. ASSUME M # {} PROVE FALSE
  <2>1. PICK x \in M : \A y \in M : <<y, x>> \notin R
    BY <1>1, <1>2, WFMin
  <2>2. x # 0 /\ x - 1 \in Nat
    OBVIOUS
  <2>3. <<x - 1, x>> \in R
    BY <2>2
  <2>4. x - 1 \in T
    BY <2>1, <2>2, <2>3
  <2> QED
    BY <2>2, <2>4
<1> QED
  BY <1>2

----------------------------------------------------------------------------
(* The bytes of numbers.                                                     *)

\* The numbers a right shift leaves, a byte at a time.
IsOn(k, f) == f = [i \in 0..k |-> f[i]]
Quotients(n, k, f) ==
  IsOn(k, f) /\ f[0] = n /\ \A i \in 1..k : f[i] = f[i - 1] \div Radix

\* A constant number of bytes is enough for the facts about division to be found.
LEMMA RadixIs == Radix \in Nat /\ Radix >= 2
BY CiphersAssumption DEF CiphersAssumption

LEMMA DivisionIs ==
  ASSUME NEW a \in Nat, NEW d \in Nat, d >= 1
  PROVE  /\ a \div d \in Nat /\ a % d \in 0..(d - 1) /\ a = d * (a \div d) + (a % d)
         /\ a % d \in Nat
<1>1. a \div d \in Nat
  OBVIOUS
<1>2. a % d \in 0..(d - 1)
  OBVIOUS
<1>3. a = d * (a \div d) + (a % d)
  OBVIOUS
<1> QED
  BY <1>1, <1>2, <1>3

LEMMA QuotientsExist ==
  ASSUME NEW n \in Nat, NEW k \in Nat
  PROVE  \E f : Quotients(n, k, f)
<1> DEFINE T == {j \in Nat : \E f : Quotients(n, j, f)}
<1>1. 0 \in T
  <2>1. Quotients(n, 0, [i \in 0..0 |-> n])
    BY DEF Quotients, IsOn
  <2> QED
    BY <2>1
<1>2. ASSUME NEW j \in Nat, j \in T PROVE j + 1 \in T
  <2>1. PICK f : Quotients(n, j, f)
    BY <1>2
  <2> DEFINE g == [i \in 0..(j + 1) |-> IF i = j + 1 THEN f[j] \div Radix ELSE f[i]]
  <2>2. g[j + 1] = f[j] \div Radix /\ \A i \in 0..j : g[i] = f[i]
    OBVIOUS
  <2>3. g = [i \in 0..(j + 1) |-> g[i]]
    OBVIOUS
  <2> HIDE DEF g
  <2>4. g[0] = n
    BY <2>1, <2>2 DEF Quotients
  <2>5. ASSUME NEW i \in 1..(j + 1) PROVE g[i] = g[i - 1] \div Radix
    <3>1. i - 1 \in 0..j /\ (i \in 1..j \/ i = j + 1)
      OBVIOUS
    <3>2. g[i - 1] = f[i - 1]
      BY <2>2, <3>1
    <3>3. CASE i \in 1..j
      BY <2>1, <2>2, <3>2, <3>3 DEF Quotients
    <3>4. CASE i = j + 1
      BY <2>2, <3>2, <3>4
    <3> QED
      BY <3>1, <3>3, <3>4
  <2>6. Quotients(n, j + 1, g)
    BY <2>3, <2>4, <2>5 DEF Quotients, IsOn
  <2> QED
    BY <2>6
<1>3. Nat \subseteq T
  <2> HIDE DEF T
  <2> QED
    BY <1>1, <1>2, SetInduction
<1> QED
  BY <1>3

\* Two functions from the same number have the same quotients.
LEMMA QuotientsAgree ==
  ASSUME NEW n, NEW k \in Nat, NEW l \in Nat, k <= l,
         NEW f, Quotients(n, k, f), NEW g, Quotients(n, l, g)
  PROVE  f[k] = g[k]
<1> DEFINE T == {j \in Nat : j <= k => f[j] = g[j]}
<1>1. 0 \in T
  BY DEF Quotients
<1>2. ASSUME NEW j \in Nat, j \in T PROVE j + 1 \in T
  <2> SUFFICES ASSUME j + 1 <= k PROVE f[j + 1] = g[j + 1]
    OBVIOUS
  <2>1. j + 1 \in 1..k /\ j + 1 \in 1..l /\ (j + 1) - 1 = j
    OBVIOUS
  <2>2. f[j] = g[j]
    BY <1>2
  <2> QED
    BY <2>1, <2>2 DEF Quotients
<1>3. Nat \subseteq T
  <2> HIDE DEF T
  <2> QED
    BY <1>1, <1>2, SetInduction
<1> QED
  BY <1>3

LEMMA ShiftedIs ==
  ASSUME NEW n \in Nat, NEW k \in Nat
  PROVE  \E f : Quotients(n, k, f) /\ Shifted(n, k) = f[k]
<1> DEFINE Rest(g) == [i \in 0..k |-> IF i = 0 THEN n ELSE g[i - 1] \div Radix]
           h == CHOOSE g : g = Rest(g)
<1>1. PICK f : Quotients(n, k, f)
  BY QuotientsExist
<1>2. f = Rest(f)
  <2>1. f = [i \in 0..k |-> f[i]] /\ f[0] = n /\ \A i \in 1..k : f[i] = f[i - 1] \div Radix
    BY <1>1 DEF Quotients, IsOn
  <2>2. \A i \in 0..k : f[i] = IF i = 0 THEN n ELSE f[i - 1] \div Radix
    BY <1>1 DEF Quotients
  <2> QED
    BY <2>1, <2>2
<1>3. h = Rest(h)
  <2> HIDE DEF Rest
  <2> QED
    BY <1>2
<1>4. Quotients(n, k, h)
  <2> HIDE DEF h
  <2>1. h = [i \in 0..k |-> h[i]]
    BY <1>3
  <2>2. \A i \in 0..k : h[i] = IF i = 0 THEN n ELSE h[i - 1] \div Radix
    BY <1>3
  <2>3. IsOn(k, h)
    BY <2>1 DEF IsOn
  <2>4. h[0] = n /\ \A i \in 1..k : h[i] = h[i - 1] \div Radix
    BY <2>2
  <2> QED
    BY <2>3, <2>4 DEF Quotients
<1>5. Shifted(n, k) = h[k]
  BY DEF Shifted
<1> QED
  BY <1>4, <1>5

\* A shift by one byte more divides once more.
LEMMA ShiftedStep ==
  ASSUME NEW n \in Nat, NEW k \in Nat
  PROVE  Shifted(n, 0) = n /\ Shifted(n, k + 1) = Shifted(n, k) \div Radix
<1>1. PICK f : Quotients(n, k, f) /\ Shifted(n, k) = f[k]
  BY ShiftedIs
<1>2. PICK g : Quotients(n, k + 1, g) /\ Shifted(n, k + 1) = g[k + 1]
  BY ShiftedIs
<1>3. PICK h : Quotients(n, 0, h) /\ Shifted(n, 0) = h[0]
  BY ShiftedIs
<1>4. f[k] = g[k]
  BY <1>1, <1>2, QuotientsAgree
<1>5. g[k + 1] = g[k] \div Radix
  <2>1. k + 1 \in 1..(k + 1) /\ (k + 1) - 1 = k
    OBVIOUS
  <2> QED
    BY <1>2, <2>1 DEF Quotients
<1> QED
  BY <1>1, <1>2, <1>3, <1>4, <1>5 DEF Quotients

LEMMA ShiftedInNat ==
  ASSUME NEW n \in Nat, NEW k \in Nat
  PROVE  Shifted(n, k) \in Nat
<1> DEFINE T == {j \in Nat : Shifted(n, j) \in Nat}
<1>1. 0 \in T
  BY ShiftedStep
<1>2. ASSUME NEW j \in Nat, j \in T PROVE j + 1 \in T
  <2> DEFINE q == Shifted(n, j)
  <2>1. q \in Nat /\ Shifted(n, j + 1) = q \div Radix
    BY <1>2, ShiftedStep
  <2> HIDE DEF q
  <2>2. q \div Radix \in Nat
    BY <2>1, RadixIs
  <2> QED
    BY <2>1, <2>2
<1>3. Nat \subseteq T
  <2> HIDE DEF T
  <2> QED
    BY <1>1, <1>2, SetInduction
<1> QED
  BY <1>3
LEMMA ByteInjective ==
  ASSUME NEW a \in Nat, NEW b \in Nat, Byte(a) = Byte(b)
  PROVE  a = b
<1>1. CASE a = 0 \/ b = 0
  BY <1>1 DEF Byte
<1>2. CASE a # 0 /\ b # 0
  <2>1. {<<"number", a>>} = {<<"number", b>>}
    BY <1>2 DEF Byte
  <2>2. <<"number", a>> = <<"number", b>>
    BY <2>1
  <2> QED
    BY <2>2
<1> QED
  BY <1>1, <1>2

\* A byte of a number.
Digit(n, k) == Shifted(n, k) % Radix

LEMMA DigitIs ==
  ASSUME NEW n \in Nat, NEW k \in Nat
  PROVE  /\ Digit(n, k) \in Nat /\ Digit(n, k) <= Radix - 1
         /\ Shifted(n, k) = Radix * Shifted(n, k + 1) + Digit(n, k)
<1> DEFINE q == Shifted(n, k)
<1>1. q \in Nat /\ Shifted(n, k + 1) = q \div Radix
  BY ShiftedInNat, ShiftedStep
<1>2. Digit(n, k) = q % Radix
  BY DEF Digit
<1> HIDE DEF q
<1>3. q % Radix \in 0..(Radix - 1) /\ q = Radix * (q \div Radix) + (q % Radix)
  BY <1>1, RadixIs, DivisionIs
<1> QED
  BY <1>1, <1>2, <1>3, RadixIs DEF q

LEMMA LittleEndianIs ==
  ASSUME NEW n \in Nat, NEW len \in Nat
  PROVE  /\ IsSeq(LittleEndian(n, len)) /\ Len(LittleEndian(n, len)) = len
         /\ \A i \in 1..len : LittleEndian(n, len)[i] = Byte(Digit(n, i - 1))
<1> DEFINE f == LittleEndian(n, len)
<1>1. f = [i \in 1..len |-> Byte(Digit(n, i - 1))]
  BY DEF LittleEndian, Digit
<1>2. \A i \in 1..len : f[i] = Byte(Digit(n, i - 1))
  BY <1>1
<1>3. f = [i \in 1..len |-> f[i]]
  BY <1>1
<1> HIDE DEF f
<1>4. IsSeq(f) /\ Len(f) = len
  BY <1>3, FunctionIsSeq
<1> QED
  BY <1>2, <1>4 DEF f

\* Numbers that fit and have the same bytes are the same.
LEMMA LittleEndianInjective ==
  ASSUME NEW n \in Nat, NEW m \in Nat, NEW len \in Nat, Fits(n, len), Fits(m, len),
         LittleEndian(n, len) = LittleEndian(m, len)
  PROVE  n = m
<1> DEFINE T == {j \in Nat : j <= len => Shifted(n, len - j) = Shifted(m, len - j)}
<1>1. 0 \in T
  BY DEF Fits
<1>2. ASSUME NEW j \in Nat, j \in T PROVE j + 1 \in T
  <2> SUFFICES ASSUME j + 1 <= len
               PROVE  Shifted(n, len - (j + 1)) = Shifted(m, len - (j + 1))
    OBVIOUS
  <2> DEFINE k == len - (j + 1)
  <2>1. k \in Nat /\ k + 1 = len - j /\ k + 1 \in 1..len /\ (k + 1) - 1 = k
    OBVIOUS
  <2> HIDE DEF k
  <2>2. Shifted(n, k + 1) = Shifted(m, k + 1)
    BY <1>2, <2>1
  <2>3. LittleEndian(n, len)[k + 1] = Byte(Digit(n, k)) /\ LittleEndian(m, len)[k + 1] = Byte(Digit(m, k))
    BY <2>1, LittleEndianIs
  <2>4. Digit(n, k) \in Nat /\ Digit(m, k) \in Nat
    BY <2>1, DigitIs
  <2>5. Digit(n, k) = Digit(m, k)
    BY <2>3, <2>4, ByteInjective
  <2>6. /\ Shifted(n, k) = Radix * Shifted(n, k + 1) + Digit(n, k)
        /\ Shifted(m, k) = Radix * Shifted(m, k + 1) + Digit(m, k)
    BY <2>1, DigitIs
  <2>7. Shifted(n, k) = Shifted(m, k)
    BY <2>2, <2>5, <2>6
  <2> QED
    BY <2>7 DEF k
<1>3. Nat \subseteq T
  <2> HIDE DEF T
  <2> QED
    BY <1>1, <1>2, SetInduction
<1>4. Shifted(n, len - len) = Shifted(m, len - len) /\ len - len = 0
  BY <1>3
<1> QED
  BY <1>4, ShiftedStep

\* A greater number leaves no less.
LEMMA QuotientGrows ==
  ASSUME NEW a \in Nat, NEW b \in Nat, a <= b, NEW d \in Nat, d >= 1
  PROVE  a \div d <= b \div d
OBVIOUS

LEMMA ShiftedGrows ==
  ASSUME NEW n \in Nat, NEW m \in Nat, n <= m, NEW k \in Nat
  PROVE  Shifted(n, k) <= Shifted(m, k)
<1> DEFINE T == {j \in Nat : Shifted(n, j) <= Shifted(m, j)}
<1>1. 0 \in T
  BY ShiftedStep
<1>2. ASSUME NEW j \in Nat, j \in T PROVE j + 1 \in T
  <2> DEFINE a == Shifted(n, j)
             b == Shifted(m, j)
  <2>1. /\ a \in Nat /\ b \in Nat /\ a <= b
        /\ Shifted(n, j + 1) = a \div Radix /\ Shifted(m, j + 1) = b \div Radix
    BY <1>2, ShiftedInNat, ShiftedStep
  <2> HIDE DEF a, b
  <2>2. a \div Radix <= b \div Radix
    BY <2>1, RadixIs, QuotientGrows
  <2> QED
    BY <2>1, <2>2
<1>3. Nat \subseteq T
  <2> HIDE DEF T
  <2> QED
    BY <1>1, <1>2, SetInduction
<1> QED
  BY <1>3

LEMMA SmallerFits ==
  ASSUME NEW n \in Nat, NEW m \in Nat, n <= m, NEW k \in Nat, Fits(m, k)
  PROVE  Fits(n, k)
BY ShiftedGrows, ShiftedInNat DEF Fits

\* The carry of one more: it goes on while the bytes are the greatest.
AllGreatest(n, k) == \A l \in 0..(k - 1) : Digit(n, l) = Radix - 1

LEMMA CarryOfOne ==
  ASSUME NEW q \in Nat, NEW d \in Nat, d >= 2
  PROVE  /\ q % d = d - 1 => (q + 1) \div d = (q \div d) + 1 /\ (q + 1) % d = 0
         /\ q % d # d - 1 => (q + 1) \div d = q \div d /\ (q + 1) % d = (q % d) + 1
<1> DEFINE a == q \div d
           r == q % d
<1>1. a \in Nat /\ r \in 0..(d - 1) /\ q = d * a + r
  <2>1. d >= 1
    OBVIOUS
  <2> QED
    BY <2>1, DivisionIs
<1> HIDE DEF a, r
<1>2. CASE r = d - 1
  <2>1. q + 1 = d * (a + 1)
    BY <1>1, <1>2
  <2>2. (d * (a + 1)) \div d = a + 1 /\ (d * (a + 1)) % d = 0
    BY <1>1
  <2> QED
    BY <1>2, <2>1, <2>2 DEF a, r
<1>3. CASE r # d - 1
  <2>1. q + 1 = d * a + (r + 1) /\ r + 1 \in 0..(d - 1)
    BY <1>1, <1>3
  <2>2. (d * a + (r + 1)) \div d = a /\ (d * a + (r + 1)) % d = r + 1
    BY <1>1, <2>1
  <2> QED
    BY <1>3, <2>1, <2>2 DEF a, r
<1> QED
  BY <1>2, <1>3

LEMMA CarryIs ==
  ASSUME NEW n \in Nat, NEW k \in Nat
  PROVE  Shifted(n + 1, k) = IF AllGreatest(n, k) THEN Shifted(n, k) + 1 ELSE Shifted(n, k)
<1> DEFINE T == {j \in Nat : Shifted(n + 1, j) = IF AllGreatest(n, j) THEN Shifted(n, j) + 1
                                                                       ELSE Shifted(n, j)}
<1>1. 0 \in T
  <2>1. AllGreatest(n, 0)
    BY DEF AllGreatest
  <2> QED
    BY <2>1, ShiftedStep
<1>2. ASSUME NEW j \in Nat, j \in T PROVE j + 1 \in T
  <2> DEFINE q == Shifted(n, j)
  <2>1. /\ q \in Nat /\ Shifted(n, j + 1) = q \div Radix /\ Digit(n, j) = q % Radix
        /\ Shifted(n + 1, j + 1) = Shifted(n + 1, j) \div Radix
    <3>1. n + 1 \in Nat
      OBVIOUS
    <3>2. Shifted(n + 1, j + 1) = Shifted(n + 1, j) \div Radix
      BY <3>1, ShiftedStep
    <3> QED
      BY <3>2, ShiftedInNat, ShiftedStep DEF Digit
  <2>2. Shifted(n + 1, j) = IF AllGreatest(n, j) THEN q + 1 ELSE q
    BY <1>2
  <2>3. AllGreatest(n, j + 1) <=> AllGreatest(n, j) /\ Digit(n, j) = Radix - 1
    <3>1. \A l \in 0..((j + 1) - 1) : l \in 0..(j - 1) \/ l = j
      OBVIOUS
    <3>2. \A l \in 0..(j - 1) : l \in 0..((j + 1) - 1)
      OBVIOUS
    <3>3. j \in 0..((j + 1) - 1)
      OBVIOUS
    <3> QED
      BY <3>1, <3>2, <3>3 DEF AllGreatest
  <2> HIDE DEF q
  <2>4. /\ q % Radix = Radix - 1 => (q + 1) \div Radix = (q \div Radix) + 1
        /\ q % Radix # Radix - 1 => (q + 1) \div Radix = q \div Radix
    BY <2>1, RadixIs, CarryOfOne
  <2>5. Shifted(n + 1, j + 1) = IF AllGreatest(n, j + 1) THEN Shifted(n, j + 1) + 1
                                                         ELSE Shifted(n, j + 1)
    BY <2>1, <2>2, <2>3, <2>4
  <2> QED
    BY <2>5
<1>3. Nat \subseteq T
  <2> HIDE DEF T
  <2> QED
    BY <1>1, <1>2, SetInduction
<1> QED
  BY <1>3

\* The bytes of one more.
LEMMA DigitOfOneMore ==
  ASSUME NEW n \in Nat, NEW k \in Nat
  PROVE  Digit(n + 1, k) = IF AllGreatest(n, k) THEN (Digit(n, k) + 1) % Radix ELSE Digit(n, k)
<1> DEFINE q == Shifted(n, k)
<1>1. q \in Nat /\ Digit(n, k) = q % Radix /\ Digit(n + 1, k) = Shifted(n + 1, k) % Radix
  BY ShiftedInNat DEF Digit
<1>2. Shifted(n + 1, k) = IF AllGreatest(n, k) THEN q + 1 ELSE q
  BY CarryIs
<1> HIDE DEF q
<1>3. (q + 1) % Radix = ((q % Radix) + 1) % Radix
  <2>1. /\ q % Radix = Radix - 1 => (q + 1) % Radix = 0
        /\ q % Radix # Radix - 1 => (q + 1) % Radix = (q % Radix) + 1
        /\ q % Radix \in 0..(Radix - 1)
    <3>1. q % Radix \in 0..(Radix - 1)
      BY <1>1, RadixIs
    <3> QED
      BY <1>1, <3>1, RadixIs, CarryOfOne
  <2>2. CASE q % Radix = Radix - 1
    <3>1. ((q % Radix) + 1) % Radix = 0
      BY <2>2, RadixIs
    <3> QED
      BY <2>1, <2>2, <3>1
  <2>3. CASE q % Radix # Radix - 1
    <3>1. PICK r \in 0..(Radix - 1) : r = q % Radix
      BY <2>1
    <3>2. r + 1 \in 0..(Radix - 1)
      BY <2>3, <3>1, RadixIs
    <3>3. (r + 1) % Radix = r + 1
      BY <3>2, RadixIs
    <3> QED
      BY <2>1, <2>3, <3>1, <3>3
  <2> QED
    BY <2>2, <2>3
<1> QED
  BY <1>1, <1>2, <1>3
LEMMA ZeroFits == \A k \in Nat : Shifted(0, k) = 0 /\ Digit(0, k) = 0
<1> DEFINE T == {j \in Nat : Shifted(0, j) = 0}
<1>0. 0 \div Radix = 0 /\ 0 % Radix = 0
  BY RadixIs
<1>1. 0 \in T
  BY ShiftedStep
<1>2. ASSUME NEW j \in Nat, j \in T PROVE j + 1 \in T
  BY <1>0, <1>2, ShiftedStep
<1>3. Nat \subseteq T
  <2> HIDE DEF T
  <2> QED
    BY <1>1, <1>2, SetInduction
<1> QED
  BY <1>0, <1>3 DEF Digit

\* What fits, fits more bytes.
LEMMA FitsMore ==
  ASSUME NEW n \in Nat, NEW k \in Nat, Fits(n, k), NEW l \in Nat, k <= l
  PROVE  Fits(n, l)
<1> DEFINE T == {j \in Nat : Shifted(n, k + j) = 0}
<1>0. 0 \div Radix = 0
  BY RadixIs
<1>1. 0 \in T
  BY DEF Fits
<1>2. ASSUME NEW j \in Nat, j \in T PROVE j + 1 \in T
  <2>1. k + j \in Nat /\ k + (j + 1) = (k + j) + 1 /\ Shifted(n, k + j) = 0
    BY <1>2
  <2>2. Shifted(n, (k + j) + 1) = Shifted(n, k + j) \div Radix
    BY <2>1, ShiftedStep
  <2> QED
    BY <1>0, <2>1, <2>2
<1>3. Nat \subseteq T
  <2> HIDE DEF T
  <2> QED
    BY <1>1, <1>2, SetInduction
<1>4. l - k \in T /\ k + (l - k) = l
  BY <1>3
<1> QED
  BY <1>4 DEF Fits

----------------------------------------------------------------------------
(* The counter of CTR.                                                       *)

LEMMA Widths == /\ Block \in Nat /\ WordLen \in Nat /\ WordLen >= 1 /\ Block >= 3 * WordLen + 3
                /\ TagLen \in Nat /\ TagLen >= 4 /\ TagLen <= Block
BY CiphersAssumption DEF CiphersAssumption

\* A counter is a nonce but for its last word, which is a number, greatest byte first.
CounterAt(nonce, v, c) ==
  /\ IsSeq(c) /\ Len(c) = Block
  /\ \A i \in 1..(Block - WordLen) : c[i] = nonce[i]
  /\ \A j \in 0..(WordLen - 1) : c[Block - j] = Byte(Digit(v, j))

LEMMA IncrementedByte ==
  ASSUME NEW d \in Nat, d <= Radix - 1
  PROVE  Incremented(Byte(d)) = Byte((d + 1) % Radix)
<1> DEFINE n == CHOOSE k \in 1..Radix : Byte(k - 1) = Byte(d)
<1>1. d + 1 \in 1..Radix /\ (d + 1) - 1 = d
  BY RadixIs
<1>2. n \in 1..Radix /\ Byte(n - 1) = Byte(d)
  BY <1>1
<1> HIDE DEF n
<1>3. n - 1 \in Nat
  BY <1>2, RadixIs
<1>4. n - 1 = d
  BY <1>2, <1>3, ByteInjective
<1>5. n = d + 1
  BY <1>2, <1>4, RadixIs
<1>6. Incremented(Byte(d)) = Byte(n % Radix)
  BY DEF Incremented, n
<1> QED
  BY <1>5, <1>6

LEMMA IncrementIs ==
  ASSUME NEW nonce, NEW v \in Nat, NEW c, CounterAt(nonce, v, c), Fits(v + 1, WordLen)
  PROVE  CounterAt(nonce, v + 1, Increment(c))
<1> DEFINE d == Increment(c)
           Carried(i) == \A j \in (i + 1)..Block : c[j] = Byte(Radix - 1)
<1>1. d = [i \in 1..Block |-> IF Carried(i) THEN Incremented(c[i]) ELSE c[i]]
  BY DEF Increment
<1>2. \A i \in 1..Block : d[i] = IF Carried(i) THEN Incremented(c[i]) ELSE c[i]
  BY <1>1
<1>3. IsSeq(d) /\ Len(d) = Block
  <2>1. d = [i \in 1..Block |-> d[i]]
    BY <1>1
  <2> HIDE DEF d
  <2> QED
    BY <2>1, Widths, FunctionIsSeq
\* A byte of the word is carried to when the bytes below it are the greatest.
<1>4. ASSUME NEW k \in 0..WordLen
      PROVE  Carried(Block - k) <=> AllGreatest(v, k)
  <2>1. ASSUME NEW l \in 0..(k - 1)
        PROVE  c[Block - l] = Byte(Radix - 1) <=> Digit(v, l) = Radix - 1
    <3>1. l \in 0..(WordLen - 1) /\ l \in Nat
      BY Widths
    <3>2. c[Block - l] = Byte(Digit(v, l)) /\ Digit(v, l) \in Nat /\ Radix - 1 \in Nat
      <4>1. c[Block - l] = Byte(Digit(v, l))
        BY <3>1, Zenon DEF CounterAt
      <4> QED
        BY <3>1, <4>1, DigitIs, RadixIs
    <3>3. ASSUME Byte(Digit(v, l)) = Byte(Radix - 1) PROVE Digit(v, l) = Radix - 1
      BY <3>2, <3>3, ByteInjective
    <3> QED
      BY <3>2, <3>3
  <2>2. \A j \in (Block - k + 1)..Block : Block - j \in 0..(k - 1) /\ Block - (Block - j) = j
    BY Widths
  <2>3. \A l \in 0..(k - 1) : Block - l \in (Block - k + 1)..Block
    BY Widths
  <2>4. ASSUME Carried(Block - k) PROVE AllGreatest(v, k)
    BY <2>1, <2>3, <2>4 DEF AllGreatest
  <2>5. ASSUME AllGreatest(v, k) PROVE Carried(Block - k)
    <3> SUFFICES ASSUME NEW j \in (Block - k + 1)..Block PROVE c[j] = Byte(Radix - 1)
      OBVIOUS
    <3>1. PICK l \in 0..(k - 1) : l = Block - j /\ Block - l = j
      BY <2>2
    <3> QED
      BY <2>1, <2>5, <3>1 DEF AllGreatest
  <2> QED
    BY <2>4, <2>5
<1>5. ~AllGreatest(v, WordLen)
  <2>1. Shifted(v + 1, WordLen) = IF AllGreatest(v, WordLen) THEN Shifted(v, WordLen) + 1
                                                             ELSE Shifted(v, WordLen)
    BY Widths, CarryIs
  <2>2. Shifted(v, WordLen) \in Nat
    BY Widths, ShiftedInNat
  <2> QED
    BY <2>1, <2>2 DEF Fits
<1>6. ASSUME NEW i \in 1..(Block - WordLen) PROVE d[i] = nonce[i]
  <2>1. ~Carried(Block - WordLen)
    BY <1>4, <1>5, Widths
  <2>2. i \in 1..Block /\ \A j \in (Block - WordLen + 1)..Block : j \in (i + 1)..Block
    BY Widths
  <2>3. ~Carried(i)
    BY <2>1, <2>2
  <2>4. d[i] = c[i]
    BY <1>2, <2>2, <2>3
  <2> QED
    BY <2>4 DEF CounterAt
<1>7. ASSUME NEW j \in 0..(WordLen - 1) PROVE d[Block - j] = Byte(Digit(v + 1, j))
  <2>1. j \in Nat /\ j \in 0..WordLen /\ Block - j \in 1..Block
    BY Widths
  <2>2. c[Block - j] = Byte(Digit(v, j)) /\ Digit(v, j) \in Nat /\ Digit(v, j) <= Radix - 1
    BY <2>1, DigitIs DEF CounterAt
  <2>3. Carried(Block - j) <=> AllGreatest(v, j)
    BY <1>4, <2>1
  <2>4. d[Block - j] = IF Carried(Block - j) THEN Incremented(c[Block - j]) ELSE c[Block - j]
    BY <1>2, <2>1
  <2>5. Digit(v + 1, j) = IF AllGreatest(v, j) THEN (Digit(v, j) + 1) % Radix ELSE Digit(v, j)
    BY <2>1, DigitOfOneMore
  <2>6. Incremented(c[Block - j]) = Byte((Digit(v, j) + 1) % Radix)
    BY <2>2, IncrementedByte
  <2> HIDE DEF d, Carried
  <2> QED
    BY <2>2, <2>3, <2>4, <2>5, <2>6
<1> HIDE DEF d
<1>8. CounterAt(nonce, v + 1, d)
  BY <1>3, <1>6, <1>7 DEF CounterAt
<1> QED
  BY <1>8 DEF d
\* The blocks of a text, and the block of each of its bytes.
LEMMA BlocksOfIs ==
  ASSUME NEW len \in Nat
  PROVE  BlocksOf(len) \in Nat /\ \A i \in 1..len : ((i - 1) \div Block) + 1 \in 1..BlocksOf(len)
<1>1. Block \in Nat /\ Block >= 1
  BY Widths
<1>2. BlocksOf(len) \in Nat
  <2>1. len + Block - 1 \in Nat
    BY <1>1
  <2>2. (len + Block - 1) \div Block \in Nat
    BY <1>1, <2>1
  <2> QED
    BY <2>2 DEF BlocksOf
<1>3. ASSUME NEW i \in 1..len PROVE ((i - 1) \div Block) + 1 \in 1..BlocksOf(len)
  <2> DEFINE q == (i - 1) \div Block
             z == len + Block - 1
             y == (i - 1) + Block
  <2>1. i - 1 \in Nat /\ y \in Nat /\ z \in Nat /\ y <= z
    BY <1>1
  <2>2. q \in Nat
    BY <1>1, <2>1
  <2>3. y \div Block = q + 1
    <3>1. PICK r \in Nat : r < Block /\ i - 1 = Block * q + r
      <4>1. (i - 1) % Block \in 0..(Block - 1) /\ i - 1 = Block * q + ((i - 1) % Block)
        BY <1>1, <2>1, DivisionIs
      <4> HIDE DEF q
      <4> QED
        BY <1>1, <4>1
    <3> HIDE DEF q
    <3>2. y = Block * (q + 1) + r
      BY <1>1, <2>2, <3>1
    <3>3. (Block * (q + 1) + r) \div Block = q + 1
      BY <1>1, <2>2, <3>1
    <3> HIDE DEF y
    <3> QED
      BY <3>2, <3>3
  <2>4. y \div Block <= z \div Block
    <3> HIDE DEF y, z
    <3> QED
      BY <1>1, <2>1, QuotientGrows
  <2>5. BlocksOf(len) = z \div Block
    BY DEF BlocksOf
  <2> HIDE DEF q, y, z
  <2>6. q + 1 <= BlocksOf(len)
    BY <2>3, <2>4, <2>5
  <2>7. q + 1 \in 1..BlocksOf(len)
    BY <1>2, <2>2, <2>6
  <2> QED
    BY <2>7 DEF q
<1> QED
  BY <1>2, <1>3

\* The first block of a channel frame, and those after it.
Counts(nonce, n, f) ==
  f[1] = nonce /\ \A k \in 2..n : f[k] = Increment(f[k - 1])

LEMMA CountsExist ==
  ASSUME NEW nonce, NEW n \in Nat
  PROVE  \E f : f = [k \in 1..(n + 1) |-> f[k]] /\ Counts(nonce, n + 1, f)
<1> DEFINE T == {j \in Nat : \E f : f = [k \in 1..(j + 1) |-> f[k]] /\ Counts(nonce, j + 1, f)}
<1>1. 0 \in T
  <2> DEFINE f == [k \in 1..(0 + 1) |-> nonce]
  <2>1. f = [k \in 1..(0 + 1) |-> f[k]] /\ f[1] = nonce
    OBVIOUS
  <2> HIDE DEF f
  <2>2. Counts(nonce, 0 + 1, f)
    BY <2>1 DEF Counts
  <2> QED
    BY <2>1, <2>2
<1>2. ASSUME NEW j \in Nat, j \in T PROVE j + 1 \in T
  <2>1. PICK f : Counts(nonce, j + 1, f)
    BY <1>2
  <2> DEFINE g == [k \in 1..((j + 1) + 1) |-> IF k = (j + 1) + 1 THEN Increment(f[j + 1]) ELSE f[k]]
  <2>2. g[(j + 1) + 1] = Increment(f[j + 1]) /\ \A k \in 1..(j + 1) : g[k] = f[k]
    OBVIOUS
  <2>3. g = [k \in 1..((j + 1) + 1) |-> g[k]]
    OBVIOUS
  <2> HIDE DEF g
  <2>4. g[1] = nonce
    <3>1. 1 \in 1..(j + 1)
      OBVIOUS
    <3> QED
      BY <2>1, <2>2, <3>1 DEF Counts
  <2>5. ASSUME NEW k \in 2..((j + 1) + 1) PROVE g[k] = Increment(g[k - 1])
    <3>1. k - 1 \in 1..(j + 1) /\ (k \in 2..(j + 1) \/ k = (j + 1) + 1)
      OBVIOUS
    <3>2. g[k - 1] = f[k - 1]
      BY <2>2, <3>1
    <3>3. CASE k \in 2..(j + 1)
      <4>1. k \in 1..(j + 1)
        BY <3>3
      <4> QED
        BY <2>1, <2>2, <3>2, <3>3, <4>1 DEF Counts
    <3>4. CASE k = (j + 1) + 1
      BY <2>2, <3>2, <3>4
    <3> QED
      BY <3>1, <3>3, <3>4
  <2>6. Counts(nonce, (j + 1) + 1, g)
    BY <2>4, <2>5 DEF Counts
  <2> QED
    BY <2>3, <2>6
<1>3. Nat \subseteq T
  <2> HIDE DEF T
  <2> QED
    BY <1>1, <1>2, SetInduction
<1> QED
  BY <1>3

\* A text has as many chunks as blocks.
LEMMA ChunksAre ==
  ASSUME NEW s, IsSeq(s)
  PROVE  /\ IsSeq(Chunks(s)) /\ Len(Chunks(s)) = BlocksOf(Len(s))
         /\ \A k \in 1..BlocksOf(Len(s)) :
              Chunks(s)[k] = SubSeq(s, (k - 1) * Block + 1,
                                    IF k * Block <= Len(s) THEN k * Block ELSE Len(s))
<1> DEFINE f == Chunks(s)
           n == BlocksOf(Len(s))
<1>1. n \in Nat
  BY SeqFacts, BlocksOfIs
<1>2. f = [k \in 1..n |-> SubSeq(s, (k - 1) * Block + 1,
                                 IF k * Block <= Len(s) THEN k * Block ELSE Len(s))]
  BY DEF Chunks
<1>3. \A k \in 1..n : f[k] = SubSeq(s, (k - 1) * Block + 1,
                                    IF k * Block <= Len(s) THEN k * Block ELSE Len(s))
  BY <1>2
<1>4. f = [k \in 1..n |-> f[k]]
  BY <1>2
<1> HIDE DEF f, n
<1>5. IsSeq(f) /\ Len(f) = n
  BY <1>1, <1>4, FunctionIsSeq
<1> QED
  BY <1>3, <1>5 DEF f, n

\* The blocks of a channel frame are the nonce and the numbers after it.
LEMMA CtrBlocksAre ==
  ASSUME NEW nonce, CounterAt(nonce, 0, nonce), NEW data, IsSeq(data),
         Fits(BlocksOf(Len(data)), WordLen)
  PROVE  /\ IsSeq(CtrBlocks(nonce, data)) /\ Len(CtrBlocks(nonce, data)) = BlocksOf(Len(data))
         /\ \A k \in 1..BlocksOf(Len(data)) : CounterAt(nonce, k - 1, CtrBlocks(nonce, data)[k])
<1> DEFINE n == BlocksOf(Len(data))
           Counter(g) == [k \in 1..(n + 1) |-> IF k = 1 THEN nonce ELSE Increment(g[k - 1])]
           h == CHOOSE g : g = Counter(g)
           b == CtrBlocks(nonce, data)
<1>1. n \in Nat /\ Len(Chunks(data)) = n
  BY SeqFacts, BlocksOfIs, ChunksAre
<1>2. b = [k \in 1..n |-> h[k]]
  <2>1. b = [k \in 1..Len(Chunks(data)) |->
               (CHOOSE g : g = [i \in 1..(Len(Chunks(data)) + 1) |->
                                  IF i = 1 THEN nonce ELSE Increment(g[i - 1])])[k]]
    BY DEF CtrBlocks
  <2> HIDE DEF b
  <2> QED
    BY <1>1, <2>1
<1>3. h = Counter(h)
  <2> HIDE DEF n
  <2>1. PICK f : f = [k \in 1..(n + 1) |-> f[k]] /\ Counts(nonce, n + 1, f)
    BY <1>1, CountsExist
  <2>2. \A k \in 1..(n + 1) : f[k] = IF k = 1 THEN nonce ELSE Increment(f[k - 1])
    <3> SUFFICES ASSUME NEW k \in 1..(n + 1)
                 PROVE  f[k] = IF k = 1 THEN nonce ELSE Increment(f[k - 1])
      OBVIOUS
    <3>1. Counts(nonce, n + 1, f)
      BY <2>1
    <3>2. k = 1 \/ k \in 2..(n + 1)
      BY <1>1
    <3> QED
      BY <3>1, <3>2 DEF Counts
  <2>3. f = Counter(f)
    BY <2>1, <2>2
  <2> HIDE DEF Counter
  <2> QED
    BY <2>3
<1> HIDE DEF h, b, n
<1>4. h[1] = nonce /\ \A k \in 2..(n + 1) : h[k] = Increment(h[k - 1])
  BY <1>1, <1>3
<1> HIDE DEF Counter
<1>5. ASSUME NEW k \in 1..n PROVE CounterAt(nonce, k - 1, h[k])
  <2> DEFINE T == {j \in Nat : j < n => CounterAt(nonce, j, h[j + 1])}
  <2>1. 0 \in T
    BY <1>4
  <2>2. ASSUME NEW j \in Nat, j \in T PROVE j + 1 \in T
    <3> SUFFICES ASSUME j + 1 < n PROVE CounterAt(nonce, j + 1, h[(j + 1) + 1])
      OBVIOUS
    <3>1. CounterAt(nonce, j, h[j + 1])
      BY <1>1, <2>2
    <3>2. Fits(j + 1, WordLen)
      <4>1. Fits(n, WordLen)
        BY DEF n
      <4> QED
        BY <1>1, <4>1, Widths, SmallerFits
    <3>3. h[(j + 1) + 1] = Increment(h[j + 1])
      <4>1. (j + 1) + 1 \in 2..(n + 1) /\ ((j + 1) + 1) - 1 = j + 1
        BY <1>1
      <4> QED
        BY <1>4, <4>1
    <3> QED
      BY <3>1, <3>2, <3>3, IncrementIs
  <2>3. Nat \subseteq T
    <3> HIDE DEF T
    <3> QED
      BY <2>1, <2>2, SetInduction
  <2>4. k - 1 \in T /\ k - 1 < n /\ (k - 1) + 1 = k
    BY <1>1, <2>3
  <2> QED
    BY <2>4
<1>6. \A k \in 1..n : b[k] = h[k]
  BY <1>2
<1>7. b = [k \in 1..n |-> b[k]]
  BY <1>2
<1>8. IsSeq(b) /\ Len(b) = n
  BY <1>1, <1>7, FunctionIsSeq
<1>9. \A k \in 1..n : CounterAt(nonce, k - 1, b[k])
  BY <1>5, <1>6
<1> QED
  BY <1>8, <1>9 DEF b, n
\* A channel's nonce counts from zero.
LEMMA CtrNonceIs ==
  ASSUME NEW id \in Nat, NEW from \in Nat
  PROVE  LET n == CtrNonce(id, from, 0) IN CounterAt(n, 0, n)
<1> DEFINE s == LittleEndian(id, Block - 2 * WordLen)
           t == LittleEndian(from, WordLen)
           u == LittleEndian(0, WordLen)
           n == CtrNonce(id, from, 0)
<1>1. Block - 2 * WordLen \in Nat /\ WordLen \in Nat /\ 0 \in Nat
  BY Widths
<1>2. /\ IsSeq(s) /\ Len(s) = Block - 2 * WordLen /\ IsSeq(t) /\ Len(t) = WordLen
      /\ IsSeq(u) /\ Len(u) = WordLen
  BY <1>1, LittleEndianIs
<1>7. \A i \in 1..WordLen : u[i] = Byte(Digit(0, i - 1))
  BY <1>1, LittleEndianIs
<1>3. n = s \o t \o u
  BY DEF CtrNonce
<1> HIDE DEF s, t, u, n
<1>4. IsSeq(s \o t \o u) /\ Len(s \o t \o u) = Block /\ IsSeq(s \o t) /\ Len(s \o t) = Block - WordLen
  <2>1. IsSeq(s \o t) /\ Len(s \o t) = Len(s) + Len(t)
    BY <1>2, JoinedSequence
  <2>2. IsSeq(s \o t \o u) /\ Len(s \o t \o u) = Len(s \o t) + Len(u)
    BY <1>2, <2>1, JoinedSequence
  <2> QED
    BY <1>2, <2>1, <2>2, Widths
<1>5. ASSUME NEW j \in 0..(WordLen - 1) PROVE n[Block - j] = Byte(Digit(0, j))
  <2>1. WordLen - j \in 1..WordLen /\ Block - j = Len(s \o t) + (WordLen - j)
    BY <1>4, Widths
  <2>2. (s \o t \o u)[Block - j] = u[WordLen - j]
    <3>1. PICK i : i = WordLen - j
      OBVIOUS
    <3>2. PICK k : k = Block - j
      OBVIOUS
    <3>3. IsSeq(s \o t) /\ IsSeq(u) /\ i \in 1..Len(u) /\ k = Len(s \o t) + i
      BY <1>2, <1>4, <2>1, <3>1, <3>2
    <3>4. ((s \o t) \o u)[k] = u[i]
      BY ONLY <3>3, JoinedSecond
    <3> QED
      BY <3>1, <3>2, <3>4
  <2>3. u[WordLen - j] = Byte(Digit(0, (WordLen - j) - 1))
    BY <1>7, <2>1
  <2>4. Digit(0, (WordLen - j) - 1) = 0 /\ Digit(0, j) = 0
    BY <2>1, Widths, ZeroFits
  <2> QED
    BY <1>3, <2>2, <2>3, <2>4
<1>6. CounterAt(n, 0, n)
  BY <1>3, <1>4, <1>5 DEF CounterAt
<1> QED
  BY <1>6 DEF n

\* c is block v of the counter that starts at the nonce of a packet.
CounterOf(id, from, v, c) ==
  /\ id \in Nat /\ from \in Nat /\ v \in Nat
  /\ Fits(id, WordLen) /\ Fits(from, WordLen) /\ Fits(v, WordLen)
  /\ CounterAt(CtrNonce(id, from, 0), v, c)

\* A block that two channel frames reach is the same block of the same packet.
LEMMA CountersApart ==
  ASSUME NEW id, NEW from, NEW v, NEW id2, NEW from2, NEW w, NEW c,
         CounterOf(id, from, v, c), CounterOf(id2, from2, w, c)
  PROVE  id = id2 /\ from = from2 /\ v = w
<1>10. /\ id \in Nat /\ from \in Nat /\ v \in Nat
       /\ Fits(id, WordLen) /\ Fits(from, WordLen) /\ Fits(v, WordLen)
       /\ CounterAt(CtrNonce(id, from, 0), v, c)
  BY DEF CounterOf
<1>11. /\ id2 \in Nat /\ from2 \in Nat /\ w \in Nat
       /\ Fits(id2, WordLen) /\ Fits(from2, WordLen) /\ Fits(w, WordLen)
       /\ CounterAt(CtrNonce(id2, from2, 0), w, c)
  BY DEF CounterOf
<1> USE <1>10, <1>11
<1> DEFINE n == CtrNonce(id, from, 0)
           m == CtrNonce(id2, from2, 0)
           l == Block - 2 * WordLen
<1>1. CounterAt(n, 0, n) /\ CounterAt(m, 0, m) /\ CounterAt(n, v, c) /\ CounterAt(m, w, c)
  BY CtrNonceIs
<1>2. /\ n = LittleEndian(id, l) \o LittleEndian(from, WordLen) \o LittleEndian(0, WordLen)
      /\ m = LittleEndian(id2, l) \o LittleEndian(from2, WordLen) \o LittleEndian(0, WordLen)
  BY DEF CtrNonce
<1>3. l \in Nat /\ WordLen \in Nat /\ 0 \in Nat /\ WordLen <= l
  BY Widths
<1> HIDE DEF n, m, l
<1>4. n = m
  <2>1. IsSeq(n) /\ IsSeq(m) /\ Len(n) = Block /\ Len(m) = Block
    BY <1>1 DEF CounterAt
  <2>2. ASSUME NEW i \in 1..Block PROVE n[i] = m[i]
    <3>1. CASE i \in 1..(Block - WordLen)
      BY <1>1, <3>1 DEF CounterAt
    <3>2. CASE i \notin 1..(Block - WordLen)
      <4>1. PICK j \in 0..(WordLen - 1) : i = Block - j
        <5>1. Block - i \in 0..(WordLen - 1) /\ i = Block - (Block - i)
          BY <3>2, Widths
        <5> QED
          BY <5>1
      <4>2. n[Block - j] = Byte(Digit(0, j)) /\ m[Block - j] = Byte(Digit(0, j))
        BY <1>1 DEF CounterAt
      <4> QED
        BY <4>1, <4>2
    <3> QED
      BY <3>1, <3>2
  <2> QED
    BY <2>1, <2>2, SameSequence
<1>5. /\ LittleEndian(id, l) = LittleEndian(id2, l)
      /\ LittleEndian(from, WordLen) = LittleEndian(from2, WordLen)
  <2> DEFINE s == LittleEndian(id, l)
             t == LittleEndian(from, WordLen)
             u == LittleEndian(0, WordLen)
             s2 == LittleEndian(id2, l)
             t2 == LittleEndian(from2, WordLen)
  <2>1. /\ IsSeq(s) /\ IsSeq(t) /\ IsSeq(u) /\ IsSeq(s2) /\ IsSeq(t2)
        /\ Len(s) = l /\ Len(s2) = l /\ Len(t) = WordLen /\ Len(t2) = WordLen
    BY <1>3, LittleEndianIs
  <2>2. s \o t \o u = s2 \o t2 \o u
    BY <1>2, <1>4
  <2> HIDE DEF s, t, u, s2, t2
  <2>3. IsSeq(s \o t) /\ IsSeq(s2 \o t2) /\ Len(s \o t) = l + WordLen /\ Len(s2 \o t2) = l + WordLen
    BY <2>1, JoinedSequence
  <2>4. s \o t = s2 \o t2
    BY <2>1, <2>2, <2>3, PartsEqual
  <2>5. s = s2 /\ t = t2
    BY <2>1, <2>4, PartsEqual
  <2> QED
    BY <2>5 DEF s, t, s2, t2
<1>6. id = id2
  <2>1. Fits(id, l) /\ Fits(id2, l)
    BY <1>3, FitsMore
  <2> QED
    BY <1>3, <1>5, <2>1, LittleEndianInjective
<1>7. from = from2
  BY <1>3, <1>5, LittleEndianInjective
<1>8. LittleEndian(v, WordLen) = LittleEndian(w, WordLen)
  <2> DEFINE s == LittleEndian(v, WordLen)
             t == LittleEndian(w, WordLen)
  <2>1. /\ IsSeq(s) /\ IsSeq(t) /\ Len(s) = WordLen /\ Len(t) = WordLen
        /\ \A i \in 1..WordLen : s[i] = Byte(Digit(v, i - 1))
        /\ \A i \in 1..WordLen : t[i] = Byte(Digit(w, i - 1))
    BY <1>3, LittleEndianIs
  <2>2. ASSUME NEW i \in 1..WordLen PROVE s[i] = t[i]
    <3>1. i - 1 \in 0..(WordLen - 1)
      BY <1>3
    <3>2. c[Block - (i - 1)] = Byte(Digit(v, i - 1)) /\ c[Block - (i - 1)] = Byte(Digit(w, i - 1))
      BY <1>1, <3>1 DEF CounterAt
    <3> QED
      BY <2>1, <3>2
  <2> HIDE DEF s, t
  <2>3. s = t
    BY <2>1, <2>2, SameSequence
  <2> QED
    BY <2>3 DEF s, t
<1>9. v = w
  BY <1>3, <1>8, LittleEndianInjective
<1> QED
  BY <1>6, <1>7, <1>9

----------------------------------------------------------------------------
(* The nonces and blocks of CCM.                                             *)

NonceOK(n) == IsSeq(n) /\ Len(n) = NonceLen

LEMMA ZerosAre == ASSUME NEW n \in Nat PROVE IsSeq(Zeros(n)) /\ Len(Zeros(n)) = n
<1> DEFINE f == Zeros(n)
<1>1. f = [i \in 1..n |-> f[i]]
  BY DEF Zeros
<1> HIDE DEF f
<1>2. IsSeq(f) /\ Len(f) = n
  BY <1>1, FunctionIsSeq
<1> QED
  BY <1>2 DEF f

\* Four parts that agree, and break at the same places.
FourParts(a, s, t, u, z) ==
  /\ IsSeq(s) /\ IsSeq(t) /\ IsSeq(u) /\ IsSeq(z) /\ a = s \o t \o u \o z

LEMMA FourPartsEqual ==
  ASSUME NEW a, NEW z, NEW s, NEW t, NEW u, FourParts(a, s, t, u, z),
         NEW s2, NEW t2, NEW u2, FourParts(a, s2, t2, u2, z),
         Len(s) = Len(s2), Len(t) = Len(t2), Len(u) = Len(u2)
  PROVE  s = s2 /\ t = t2 /\ u = u2
<1>0. /\ IsSeq(s) /\ IsSeq(t) /\ IsSeq(u) /\ IsSeq(z) /\ IsSeq(s2) /\ IsSeq(t2) /\ IsSeq(u2)
      /\ s \o t \o u \o z = s2 \o t2 \o u2 \o z
  BY DEF FourParts
<1>1. IsSeq(s \o t) /\ Len(s \o t) = Len(s) + Len(t)
  BY <1>0, JoinedSequence
<1>2. IsSeq(s2 \o t2) /\ Len(s2 \o t2) = Len(s2) + Len(t2)
  BY <1>0, JoinedSequence
<1>3. IsSeq(s \o t \o u) /\ Len(s \o t \o u) = Len(s \o t) + Len(u)
  BY <1>0, <1>1, JoinedSequence
<1>4. IsSeq(s2 \o t2 \o u2) /\ Len(s2 \o t2 \o u2) = Len(s2 \o t2) + Len(u2)
  BY <1>0, <1>2, JoinedSequence
<1>5. Len(s \o t) = Len(s2 \o t2)
  BY <1>1, <1>2
<1>6. Len(s \o t \o u) = Len(s2 \o t2 \o u2)
  BY <1>3, <1>4, <1>5
<1>7. s \o t \o u = s2 \o t2 \o u2
  <2> DEFINE x == s \o t \o u
             y == s2 \o t2 \o u2
  <2>1. IsSeq(x) /\ IsSeq(y) /\ Len(x) = Len(y) /\ IsSeq(z)
    BY <1>0, <1>3, <1>4, <1>6
  <2>2. x \o z = y \o z
    BY <1>0
  <2> HIDE DEF x, y
  <2>3. x = y
    BY <2>1, <2>2, PartsEqual
  <2> QED
    BY <2>3 DEF x, y
<1>8. s \o t = s2 \o t2 /\ u = u2
  <2> DEFINE x == s \o t
             y == s2 \o t2
  <2>1. IsSeq(x) /\ IsSeq(y) /\ Len(x) = Len(y) /\ IsSeq(u) /\ IsSeq(u2)
    BY <1>0, <1>1, <1>2, <1>5
  <2>2. x \o u = y \o u2
    BY <1>7
  <2> HIDE DEF x, y
  <2>3. x = y /\ u = u2
    BY <2>1, <2>2, PartsEqual
  <2> QED
    BY <2>3 DEF x, y
<1>9. s = s2 /\ t = t2
  BY <1>0, <1>8, PartsEqual
<1> QED
  BY <1>8, <1>9

LEMMA PkiNonceIs ==
  ASSUME NEW id \in Nat, NEW extra \in Nat, NEW from \in Nat
  PROVE  NonceOK(PkiNonce(id, extra, from))
<1> DEFINE s == LittleEndian(id, WordLen)
           t == LittleEndian(extra, WordLen)
           u == LittleEndian(from, WordLen)
           z == Zeros(NonceLen - 3 * WordLen)
<1>1. NonceLen - 3 * WordLen \in Nat /\ NonceLen \in Nat /\ WordLen \in Nat
  BY Widths DEF NonceLen
<1>2. /\ IsSeq(s) /\ Len(s) = WordLen /\ IsSeq(t) /\ Len(t) = WordLen
      /\ IsSeq(u) /\ Len(u) = WordLen /\ IsSeq(z) /\ Len(z) = NonceLen - 3 * WordLen
  BY <1>1, LittleEndianIs, ZerosAre
<1>3. PkiNonce(id, extra, from) = s \o t \o u \o z
  BY DEF PkiNonce
<1> HIDE DEF s, t, u, z
<1>4. IsSeq(s \o t) /\ Len(s \o t) = Len(s) + Len(t)
  BY <1>2, JoinedSequence
<1>5. IsSeq(s \o t \o u) /\ Len(s \o t \o u) = Len(s \o t) + Len(u)
  BY <1>2, <1>4, JoinedSequence
<1>6. IsSeq(s \o t \o u \o z) /\ Len(s \o t \o u \o z) = Len(s \o t \o u) + Len(z)
  BY <1>2, <1>5, JoinedSequence
<1>7. Len(s \o t \o u \o z) = NonceLen
  BY <1>1, <1>2, <1>4, <1>5, <1>6
<1> QED
  BY <1>3, <1>6, <1>7 DEF NonceOK

LEMMA PkiNonceApart ==
  ASSUME NEW id \in Nat, NEW extra \in Nat, NEW from \in Nat,
         NEW id2 \in Nat, NEW extra2 \in Nat, NEW from2 \in Nat,
         Fits(id, WordLen), Fits(extra, WordLen), Fits(from, WordLen),
         Fits(id2, WordLen), Fits(extra2, WordLen), Fits(from2, WordLen),
         PkiNonce(id, extra, from) = PkiNonce(id2, extra2, from2)
  PROVE  id = id2 /\ extra = extra2 /\ from = from2
<1> DEFINE s == LittleEndian(id, WordLen)
           t == LittleEndian(extra, WordLen)
           u == LittleEndian(from, WordLen)
           s2 == LittleEndian(id2, WordLen)
           t2 == LittleEndian(extra2, WordLen)
           u2 == LittleEndian(from2, WordLen)
           z == Zeros(NonceLen - 3 * WordLen)
<1>1. NonceLen - 3 * WordLen \in Nat /\ WordLen \in Nat
  BY Widths DEF NonceLen
<1>2. /\ IsSeq(s) /\ Len(s) = WordLen /\ IsSeq(t) /\ Len(t) = WordLen
      /\ IsSeq(u) /\ Len(u) = WordLen /\ IsSeq(z)
      /\ IsSeq(s2) /\ Len(s2) = WordLen /\ IsSeq(t2) /\ Len(t2) = WordLen
      /\ IsSeq(u2) /\ Len(u2) = WordLen
  BY <1>1, LittleEndianIs, ZerosAre
<1>3. s \o t \o u \o z = s2 \o t2 \o u2 \o z
  BY DEF PkiNonce
<1>4. /\ s = s2 => id = id2
      /\ t = t2 => extra = extra2
      /\ u = u2 => from = from2
  BY <1>1, LittleEndianInjective
<1> HIDE DEF s, t, u, z, s2, t2, u2
<1>5. Len(s) = Len(s2) /\ Len(t) = Len(t2) /\ Len(u) = Len(u2)
  BY <1>2
<1>6. s = s2 /\ t = t2 /\ u = u2
  <2> DEFINE x == s \o t \o u \o z
  <2>1. FourParts(x, s, t, u, z)
    BY <1>2 DEF FourParts
  <2>2. FourParts(x, s2, t2, u2, z)
    BY <1>2, <1>3 DEF FourParts
  <2> HIDE DEF x
  <2> QED
    BY <2>1, <2>2, <1>5, FourPartsEqual
<1> QED
  BY <1>4, <1>6

LEMMA GroupNonceIs ==
  ASSUME NEW from \in Nat, NEW id \in Nat, NEW epoch
  PROVE  NonceOK(GroupNonce(from, id, epoch))
<1> DEFINE s == LittleEndian(from, WordLen)
           t == LittleEndian(id, WordLen)
           u == <<Byte(epoch)>>
           z == Zeros(NonceLen - 2 * WordLen - 1)
<1>1. NonceLen - 2 * WordLen - 1 \in Nat /\ NonceLen \in Nat /\ WordLen \in Nat
  BY Widths DEF NonceLen
<1>2. /\ IsSeq(s) /\ Len(s) = WordLen /\ IsSeq(t) /\ Len(t) = WordLen
      /\ IsSeq(u) /\ Len(u) = 1 /\ IsSeq(z) /\ Len(z) = NonceLen - 2 * WordLen - 1
  BY <1>1, LittleEndianIs, ZerosAre, Singles
<1>3. GroupNonce(from, id, epoch) = s \o t \o u \o z
  BY DEF GroupNonce
<1> HIDE DEF s, t, u, z
<1>4. IsSeq(s \o t) /\ Len(s \o t) = Len(s) + Len(t)
  BY <1>2, JoinedSequence
<1>5. IsSeq(s \o t \o u) /\ Len(s \o t \o u) = Len(s \o t) + Len(u)
  BY <1>2, <1>4, JoinedSequence
<1>6. IsSeq(s \o t \o u \o z) /\ Len(s \o t \o u \o z) = Len(s \o t \o u) + Len(z)
  BY <1>2, <1>5, JoinedSequence
<1>7. Len(s \o t \o u \o z) = NonceLen
  BY <1>1, <1>2, <1>4, <1>5, <1>6
<1> QED
  BY <1>3, <1>6, <1>7 DEF NonceOK

LEMMA GroupNonceApart ==
  ASSUME NEW from \in Nat, NEW id \in Nat, NEW epoch,
         NEW from2 \in Nat, NEW id2 \in Nat, NEW epoch2,
         Fits(id, WordLen), Fits(from, WordLen), Fits(id2, WordLen), Fits(from2, WordLen),
         GroupNonce(from, id, epoch) = GroupNonce(from2, id2, epoch2)
  PROVE  from = from2 /\ id = id2
<1> DEFINE s == LittleEndian(from, WordLen)
           t == LittleEndian(id, WordLen)
           u == <<Byte(epoch)>>
           s2 == LittleEndian(from2, WordLen)
           t2 == LittleEndian(id2, WordLen)
           u2 == <<Byte(epoch2)>>
           z == Zeros(NonceLen - 2 * WordLen - 1)
<1>1. NonceLen - 2 * WordLen - 1 \in Nat /\ WordLen \in Nat
  BY Widths DEF NonceLen
<1>2. /\ IsSeq(s) /\ Len(s) = WordLen /\ IsSeq(t) /\ Len(t) = WordLen
      /\ IsSeq(u) /\ Len(u) = 1 /\ IsSeq(z)
      /\ IsSeq(s2) /\ Len(s2) = WordLen /\ IsSeq(t2) /\ Len(t2) = WordLen
      /\ IsSeq(u2) /\ Len(u2) = 1
  BY <1>1, LittleEndianIs, ZerosAre, Singles
<1>3. s \o t \o u \o z = s2 \o t2 \o u2 \o z
  BY DEF GroupNonce
<1>4. /\ s = s2 => from = from2
      /\ t = t2 => id = id2
  BY <1>1, LittleEndianInjective
<1> HIDE DEF s, t, u, z, s2, t2, u2
<1>5. Len(s) = Len(s2) /\ Len(t) = Len(t2) /\ Len(u) = Len(u2)
  BY <1>2
<1>6. s = s2 /\ t = t2 /\ u = u2
  <2> DEFINE x == s \o t \o u \o z
  <2>1. FourParts(x, s, t, u, z)
    BY <1>2 DEF FourParts
  <2>2. FourParts(x, s2, t2, u2, z)
    BY <1>2, <1>3 DEF FourParts
  <2> HIDE DEF x
  <2> QED
    BY <2>1, <2>2, <1>5, FourPartsEqual
<1> QED
  BY <1>4, <1>6

\* A number that fits two bytes is known by them.
LEMMA TwoBytesAre ==
  ASSUME NEW n \in Nat
  PROVE  /\ TwoBytes(n) = <<Byte(Digit(n, 1)), Byte(Digit(n, 0))>>
         /\ IsSeq(TwoBytes(n)) /\ Len(TwoBytes(n)) = 2
<1>1. Shifted(n, 0) = n /\ Shifted(n, 0 + 1) = n \div Radix /\ 0 + 1 = 1
  BY ShiftedStep
<1>2. TwoBytes(n) = <<Byte(Digit(n, 1)), Byte(Digit(n, 0))>>
  BY <1>1 DEF TwoBytes, Digit
<1> QED
  BY <1>2, Pairs

LEMMA TwoBytesApart ==
  ASSUME NEW n \in Nat, NEW m \in Nat, Fits(n, 2), Fits(m, 2), TwoBytes(n) = TwoBytes(m)
  PROVE  n = m
<1>1. /\ TwoBytes(n)[1] = Byte(Digit(n, 1)) /\ TwoBytes(n)[2] = Byte(Digit(n, 0))
      /\ TwoBytes(m)[1] = Byte(Digit(m, 1)) /\ TwoBytes(m)[2] = Byte(Digit(m, 0))
  BY TwoBytesAre, Pairs
<1>2. /\ Digit(n, 1) \in Nat /\ Digit(n, 0) \in Nat /\ Digit(m, 1) \in Nat /\ Digit(m, 0) \in Nat
  BY DigitIs
<1>3. Digit(n, 1) = Digit(m, 1) /\ Digit(n, 0) = Digit(m, 0)
  BY <1>1, <1>2, ByteInjective
<1>4. /\ Shifted(n, 0) = Radix * Shifted(n, 0 + 1) + Digit(n, 0)
      /\ Shifted(m, 0) = Radix * Shifted(m, 0 + 1) + Digit(m, 0)
      /\ Shifted(n, 1) = Radix * Shifted(n, 1 + 1) + Digit(n, 1)
      /\ Shifted(m, 1) = Radix * Shifted(m, 1 + 1) + Digit(m, 1)
  BY DigitIs
<1>5. Shifted(n, 2) = 0 /\ Shifted(m, 2) = 0 /\ 1 + 1 = 2 /\ 0 + 1 = 1
  BY DEF Fits
<1>6. Shifted(n, 1) = Shifted(m, 1)
  BY <1>3, <1>4, <1>5
<1>7. Shifted(n, 0) = n /\ Shifted(m, 0) = m
  BY ShiftedStep
<1> QED
  BY <1>3, <1>4, <1>5, <1>6, <1>7

\* A block of CCM: a byte of flags, the nonce and a number.
LEMMA BlockIs ==
  ASSUME NEW byte, NEW nonce, NonceOK(nonce), NEW i \in Nat
  PROVE  LET b == <<byte>> \o nonce \o TwoBytes(i)
         IN  /\ IsSeq(b) /\ Len(b) = Block /\ b[1] = byte
             /\ IsSeq(<<byte>> \o nonce) /\ Len(<<byte>> \o nonce) = Block - 2
<1> DEFINE s == <<byte>>
           t == TwoBytes(i)
<1>1. IsSeq(s) /\ Len(s) = 1 /\ s[1] = byte /\ IsSeq(t) /\ Len(t) = 2
  BY Singles, TwoBytesAre
<1>2. IsSeq(nonce) /\ Len(nonce) = Block - 3
  BY DEF NonceOK, NonceLen
<1> HIDE DEF s, t
<1>3. IsSeq(s \o nonce) /\ Len(s \o nonce) = Len(s) + Len(nonce) /\ (s \o nonce)[1] = s[1]
  <2>1. 1 \in 1..Len(s)
    BY <1>1
  <2>2. IsSeq(s) /\ IsSeq(nonce)
    BY <1>1, <1>2
  <2>3. (s \o nonce)[1] = s[1]
    BY <2>1, <2>2, JoinedSequence
  <2>4. IsSeq(s \o nonce) /\ Len(s \o nonce) = Len(s) + Len(nonce)
    BY <2>2, JoinedSequence
  <2> QED
    BY <2>3, <2>4
<1>4. Len(s \o nonce) = Block - 2
  BY <1>1, <1>2, <1>3, Widths
<1>5. /\ IsSeq(s \o nonce \o t) /\ Len(s \o nonce \o t) = Len(s \o nonce) + Len(t)
      /\ (s \o nonce \o t)[1] = (s \o nonce)[1]
  <2>1. 1 \in 1..Len(s \o nonce)
    BY <1>4, Widths
  <2> QED
    BY <1>1, <1>3, <2>1, JoinedSequence
<1>6. Len(s \o nonce \o t) = Block
  BY <1>1, <1>4, <1>5, Widths
<1> QED
  BY <1>1, <1>3, <1>4, <1>5, <1>6 DEF s, t

LEMMA AIs ==
  ASSUME NEW nonce, NonceOK(nonce), NEW i \in Nat
  PROVE  IsSeq(A(nonce, i)) /\ Len(A(nonce, i)) = Block /\ A(nonce, i)[1] = Byte(1)
BY BlockIs DEF A

\* Blocks of the counter are the same only for the same nonce and number.
LEMMA AApart ==
  ASSUME NEW n, NonceOK(n), NEW i \in Nat, NEW m, NonceOK(m), NEW j \in Nat,
         A(n, i) = A(m, j)
  PROVE  n = m /\ (Fits(i, 2) /\ Fits(j, 2) => i = j)
<1> DEFINE s == <<Byte(1)>>
<1>1. IsSeq(s \o n) /\ Len(s \o n) = Block - 2 /\ IsSeq(s \o m) /\ Len(s \o m) = Block - 2
  BY BlockIs
<1>2. IsSeq(TwoBytes(i)) /\ IsSeq(TwoBytes(j)) /\ IsSeq(n) /\ IsSeq(m) /\ IsSeq(s)
  BY TwoBytesAre, Singles DEF NonceOK
<1>3. s \o n \o TwoBytes(i) = s \o m \o TwoBytes(j)
  BY DEF A
<1> HIDE DEF s
<1>4. s \o n = s \o m /\ TwoBytes(i) = TwoBytes(j)
  BY <1>1, <1>2, <1>3, PartsEqual
<1>5. n = m
  BY <1>2, <1>4, PartsEqual
<1> QED
  BY <1>4, <1>5, TwoBytesApart

\* The first block of a MAC is no block of a counter.
LEMMA B0Is ==
  ASSUME NEW nonce, NonceOK(nonce), NEW len \in Nat, NEW aad
  PROVE  /\ IsSeq(B0(nonce, len, aad)) /\ Len(B0(nonce, len, aad)) = Block
         /\ \A m, i : NonceOK(m) /\ i \in Nat => B0(nonce, len, aad) # A(m, i)
<1> DEFINE x == (IF aad = <<>> THEN 0 ELSE 64) + 8 * ((TagLen - 2) \div 2) + 1
<1>1. B0(nonce, len, aad) = <<Byte(x)>> \o nonce \o TwoBytes(len)
  BY DEF B0
<1>2. x \in Nat /\ x # 1
  <2> DEFINE h == (TagLen - 2) \div 2
  <2>1. h \in Nat /\ h >= 1
    BY Widths
  <2> HIDE DEF h
  <2> QED
    BY <2>1 DEF h
<1> HIDE DEF x
<1>3. Byte(x) # Byte(1)
  BY <1>2, ByteInjective
<1>4. /\ IsSeq(B0(nonce, len, aad)) /\ Len(B0(nonce, len, aad)) = Block
      /\ B0(nonce, len, aad)[1] = Byte(x)
  BY <1>1, BlockIs
<1>5. ASSUME NEW m, NEW i, NonceOK(m), i \in Nat PROVE B0(nonce, len, aad) # A(m, i)
  BY <1>3, <1>4, <1>5, AIs
<1> QED
  BY <1>4, <1>5

----------------------------------------------------------------------------
(* The keystreams.                                                           *)

LEMMA UnderStreamIs ==
  ASSUME NEW key, NEW blocks, NEW data, IsSeq(data)
  PROVE  /\ IsSeq(UnderStream(key, blocks, data)) /\ Len(UnderStream(key, blocks, data)) = Len(data)
         /\ \A i \in 1..Len(data) :
              UnderStream(key, blocks, data)[i] =
                Xor(data[i], ByteOf(Encrypt(key, blocks[((i - 1) \div Block) + 1]), ((i - 1) % Block) + 1))
<1> DEFINE u == UnderStream(key, blocks, data)
           e(i) == Xor(data[i], ByteOf(Encrypt(key, blocks[((i - 1) \div Block) + 1]), ((i - 1) % Block) + 1))
<1>1. Len(data) \in Nat
  BY SeqFacts
<1>2. u = [i \in 1..Len(data) |-> e(i)]
  BY DEF UnderStream
<1> HIDE DEF e, u
<1>3. \A i \in 1..Len(data) : u[i] = e(i)
  BY <1>2
<1>4. u = [i \in 1..Len(data) |-> u[i]]
  BY <1>2
<1>5. IsSeq(u) /\ Len(u) = Len(data)
  BY <1>1, <1>4, FunctionIsSeq
<1> QED
  BY <1>3, <1>5 DEF e, u

LEMMA CcmBlocksAre ==
  ASSUME NEW nonce, NEW text, IsSeq(text)
  PROVE  /\ IsSeq(CcmBlocks(nonce, text)) /\ Len(CcmBlocks(nonce, text)) = BlocksOf(Len(text))
         /\ \A i \in 1..BlocksOf(Len(text)) : CcmBlocks(nonce, text)[i] = A(nonce, i)
<1> DEFINE b == CcmBlocks(nonce, text)
           n == BlocksOf(Len(text))
<1>1. n \in Nat /\ Len(Chunks(text)) = n
  BY SeqFacts, BlocksOfIs, ChunksAre
<1>2. b = [i \in 1..n |-> A(nonce, i)]
  BY <1>1 DEF CcmBlocks
<1> HIDE DEF b, n
<1>3. \A i \in 1..n : b[i] = A(nonce, i)
  BY <1>2
<1>4. b = [i \in 1..n |-> b[i]]
  BY <1>2
<1>5. IsSeq(b) /\ Len(b) = n
  BY <1>1, <1>4, FunctionIsSeq
<1> QED
  BY <1>3, <1>5 DEF b, n

\* With the block that covers the tag.
LEMMA CcmStreamIs ==
  ASSUME NEW nonce, NEW text, IsSeq(text)
  PROVE  LET b == <<A(nonce, 0)>> \o CcmBlocks(nonce, text)
         IN  /\ DOMAIN b = 1..(BlocksOf(Len(text)) + 1)
             /\ \A k \in 1..(BlocksOf(Len(text)) + 1) : b[k] = A(nonce, k - 1)
<1> DEFINE s == <<A(nonce, 0)>>
           t == CcmBlocks(nonce, text)
           n == BlocksOf(Len(text))
<1>1. IsSeq(s) /\ Len(s) = 1 /\ s[1] = A(nonce, 0)
  BY Singles
<1>2. IsSeq(t) /\ Len(t) = n
  BY CcmBlocksAre
<1>3. \A i \in 1..n : t[i] = A(nonce, i)
  BY CcmBlocksAre
<1>4. n \in Nat
  BY SeqFacts, BlocksOfIs
<1> HIDE DEF s, t, n
<1>5. IsSeq(s \o t) /\ Len(s \o t) = Len(s) + Len(t)
  BY <1>1, <1>2, JoinedSequence
<1>6. DOMAIN (s \o t) = 1..(n + 1)
  BY <1>1, <1>2, <1>4, <1>5, SeqFacts
<1>7. ASSUME NEW k \in 1..(n + 1) PROVE (s \o t)[k] = A(nonce, k - 1)
  <2>1. CASE k = 1
    <3>1. 1 \in 1..Len(s)
      BY <1>1
    <3>2. (s \o t)[1] = s[1]
      BY <1>1, <1>2, <3>1, JoinedSequence
    <3> QED
      BY <2>1, <1>1, <3>2
  <2>2. CASE k # 1
    <3>1. PICK i \in 1..n : i = k - 1
      BY <1>4, <2>2
    <3>2. i \in 1..Len(t) /\ k = Len(s) + i
      BY <1>1, <1>2, <1>4, <3>1
    <3>3. IsSeq(s) /\ IsSeq(t)
      BY <1>1, <1>2
    <3>4. (s \o t)[k] = t[i]
      BY <3>2, <3>3, JoinedSecond
    <3> QED
      BY <1>3, <3>1, <3>4
  <2> QED
    BY <2>1, <2>2
<1> QED
  BY <1>6, <1>7 DEF s, t, n

----------------------------------------------------------------------------
(* What is on the air, and what arrived.                                     *)

Kinds == {"channel", "direct", "group"}

Sealed(f, kind, p, extra, n, text) ==
  /\ kind \in Kinds /\ p \in Packets /\ extra \in Epochs \cup {0} /\ n \in Rests \cup {WordLen}
  /\ text \in Texts /\ (kind = "channel" => extra = 0)
  /\ f = [Frame(kind, p, extra, n) EXCEPT !.body = Seal(Frame(kind, p, extra, n), text)]

SentOK(s) == \E kind, p, extra, n, text :
               /\ Sealed(s.frame, kind, p, extra, n, text)
               /\ s = [frame |-> s.frame, text |-> text]

CipherInv ==
  /\ \A s \in air : SentOK(s)
  /\ \A s, t \in air : s.frame.packet = t.frame.packet => s = t
  /\ \A r \in received : /\ r.sent \in air /\ r.frame \in Arrivals(r.sent.frame)
                         /\ r.result = Open(r.frame)

LEMMA CipherInitInv == ASSUME CipherInit PROVE CipherInv
BY DEF CipherInit, CipherInv

LEMMA SendInv ==
  ASSUME CipherInv, NEW kind, NEW p, NEW extra, NEW n, NEW text,
         kind \in Kinds, p \in Packets, extra \in Epochs \cup {0}, n \in Rests \cup {WordLen},
         text \in Texts, kind = "channel" => extra = 0, Send(kind, p, extra, n, text)
  PROVE  CipherInv'
<1> DEFINE g == Frame(kind, p, extra, n)
           f == [g EXCEPT !.body = Seal(g, text)]
           new == [frame |-> f, text |-> text]
<1>1. /\ air' = air \cup {new} /\ received' = {}
      /\ \A s \in air : s.frame.packet # p
  BY DEF Send
<1>2. new.frame = f /\ new.text = text /\ new = [frame |-> new.frame, text |-> text]
  OBVIOUS
<1>3. f.packet = p
  BY DEF Frame
<1>4. Sealed(f, kind, p, extra, n, text)
  BY DEF Sealed
<1> HIDE DEF g, f, new
<1>5. SentOK(new)
  BY <1>2, <1>4 DEF SentOK
<1>6. \A s \in air' : SentOK(s)
  BY <1>1, <1>5 DEF CipherInv
<1>7. new.frame.packet = p
  BY <1>2, <1>3
<1>8. \A s, t \in air' : s.frame.packet = t.frame.packet => s = t
  BY <1>1, <1>7 DEF CipherInv
<1> QED
  BY <1>1, <1>6, <1>8 DEF CipherInv

LEMMA ReceiveInv ==
  ASSUME CipherInv, NEW s \in air, NEW f \in Arrivals(s.frame), Receive(s, f)
  PROVE  CipherInv'
<1> DEFINE r == [sent |-> s, frame |-> f, result |-> Open(f)]
<1>1. received' = {r} /\ air' = air
  BY DEF Receive
<1>2. r.sent = s /\ r.frame = f /\ r.result = Open(f)
  OBVIOUS
<1> HIDE DEF r
<1>3. \A x \in received' : /\ x.sent \in air /\ x.frame \in Arrivals(x.sent.frame)
                           /\ x.result = Open(x.frame)
  BY <1>1, <1>2
<1> QED
  BY <1>1, <1>3 DEF CipherInv

LEMMA CipherNextInv == ASSUME CipherInv, [CipherNext]_cipherVars PROVE CipherInv'
<1>1. CASE UNCHANGED cipherVars
  BY <1>1 DEF cipherVars, CipherInv
<1>2. ASSUME NEW p \in Packets, NEW text \in Texts, Send("channel", p, 0, WordLen, text)
      PROVE  CipherInv'
  BY <1>2, SendInv DEF Kinds
<1>3. ASSUME NEW p \in Packets, NEW text \in Texts, NEW e \in Epochs,
             Send("direct", p, e, WordLen, text)
      PROVE  CipherInv'
  <2>1. "direct" \in Kinds /\ "direct" # "channel" /\ e \in Epochs \cup {0} /\ WordLen \in Rests \cup {WordLen}
    BY DEF Kinds
  <2> QED
    BY <1>3, <2>1, SendInv
<1>4. ASSUME NEW p \in Packets, NEW text \in Texts, NEW e \in Epochs, NEW n \in Rests,
             Send("group", p, e, n, text)
      PROVE  CipherInv'
  <2>1. "group" \in Kinds /\ "group" # "channel" /\ e \in Epochs \cup {0} /\ n \in Rests \cup {WordLen}
    BY DEF Kinds
  <2> QED
    BY <1>4, <2>1, SendInv
<1>5. ASSUME NEW s \in air, NEW f \in Arrivals(s.frame), Receive(s, f) PROVE CipherInv'
  BY <1>5, ReceiveInv
<1> QED
  BY <1>1, <1>2, <1>3, <1>4, <1>5 DEF CipherNext

\* Every frame on the air is what Send framed of a packet used once, and what is
\* received is one of them, altered or not, with what opening it gave.
THEOREM CipherInvariance == CipherSpec => []CipherInv
<1>1. CipherInit => CipherInv
  BY CipherInitInv
<1>2. CipherInv /\ [CipherNext]_cipherVars => CipherInv'
  BY CipherNextInv
<1> QED
  BY <1>1, <1>2, PTL DEF CipherSpec

----------------------------------------------------------------------------
(* What a frame is made of.                                                  *)

\* A record with the fields of a frame.
Rec(kind, key, packet, extra, rest, body) ==
  [kind |-> kind, key |-> key, packet |-> packet, extra |-> extra, rest |-> rest, body |-> body]

IsRec(g) == g = Rec(g.kind, g.key, g.packet, g.extra, g.rest, g.body)

LEMMA SealedFrame ==
  ASSUME NEW f, NEW kind, NEW p, NEW extra, NEW n, NEW text, Sealed(f, kind, p, extra, n, text)
  PROVE  /\ f.kind = kind /\ f.packet = p /\ f.extra = extra /\ f.key = <<kind, 0>>
         /\ f.rest = [i \in 1..n |-> Byte(i)] /\ f.body = Seal(f, text)
         /\ IsRec(f)
<1> DEFINE g == Frame(kind, p, extra, n)
           x == <<kind, 0>>
           z == [i \in 1..n |-> Byte(i)]
           b == Seal(g, text)
<1>1. g = [kind |-> kind, key |-> x, packet |-> p, extra |-> extra, rest |-> z, body |-> <<>>]
  BY DEF Frame
<1>2. f = [g EXCEPT !.body = b]
  BY DEF Sealed
<1> HIDE DEF g, x, z, b
<1>3. f = [kind |-> kind, key |-> x, packet |-> p, extra |-> extra, rest |-> z, body |-> b]
  BY <1>1, <1>2
<1>4. /\ f.kind = kind /\ f.packet = p /\ f.extra = extra /\ f.key = x /\ f.rest = z /\ f.body = b
  BY <1>3
<1>5. /\ g.kind = f.kind /\ g.packet = f.packet /\ g.extra = f.extra /\ g.key = f.key /\ g.rest = f.rest
  BY <1>1, <1>4
<1>6. FrameKey(g) = FrameKey(f) /\ FrameNonce(g) = FrameNonce(f)
  BY <1>5 DEF FrameKey, FrameNonce
<1>7. FrameAad(g) = FrameAad(f)
  BY <1>5 DEF FrameAad, AadFromHeader
<1>8. Seal(g, text) = Seal(f, text)
  BY <1>5, <1>6, <1>7 DEF Seal
<1>9. b = Seal(f, text)
  BY <1>8 DEF b
<1>10. IsRec(f)
  BY <1>3, <1>4 DEF IsRec, Rec
<1> QED
  BY <1>4, <1>9, <1>10 DEF x, z

LEMMA Constants ==
  /\ \A p \in Packets : /\ p.from \in Nat /\ p.id \in Nat /\ Fits(p.from, WordLen) /\ Fits(p.id, WordLen)
                        /\ p = [from |-> p.from, id |-> p.id]
  /\ \A n \in Rests \cup {WordLen} : n \in Nat /\ n >= WordLen
  /\ \A e \in Epochs \cup {0} : e \in Nat /\ e <= Radix - 1
<1>1. WordLen \in Nat /\ WordLen >= WordLen
  BY Widths
<1>2. \A n \in Rests \cup {WordLen} : n \in Nat /\ n >= WordLen
  BY <1>1, CiphersAssumption DEF CiphersAssumption
<1>3. \A e \in Epochs \cup {0} : e \in Nat /\ e <= Radix - 1
  BY RadixIs, CiphersAssumption DEF CiphersAssumption
<1>4. ASSUME NEW p \in Packets
      PROVE  /\ p.from \in Nat /\ p.id \in Nat /\ Fits(p.from, WordLen) /\ Fits(p.id, WordLen)
             /\ p = [from |-> p.from, id |-> p.id]
  <2>1. p \in [from : Nat, id : Nat] /\ Fits(p.from, WordLen) /\ Fits(p.id, WordLen)
    BY CiphersAssumption DEF CiphersAssumption
  <2> QED
    BY <2>1
<1> QED
  BY <1>2, <1>3, <1>4

LEMMA EpochFits == \A e \in Epochs \cup {0} : e \in Nat /\ Fits(e, WordLen)
<1> SUFFICES ASSUME NEW e \in Epochs \cup {0} PROVE e \in Nat /\ Fits(e, WordLen)
  OBVIOUS
<1>1. e \in Nat /\ e <= Radix - 1 /\ Radix \in Nat /\ Radix >= 2
  BY Constants, RadixIs
<1>2. e \div Radix = 0
  BY <1>1
<1>3. Shifted(e, 0) = e /\ Shifted(e, 0 + 1) = Shifted(e, 0) \div Radix
  BY <1>1, ShiftedStep
<1>4. Fits(e, 1)
  BY <1>2, <1>3 DEF Fits
<1> QED
  BY <1>1, <1>4, Widths, FitsMore

LEMMA TextIs ==
  ASSUME NEW text \in Texts
  PROVE  /\ IsSeq(text) /\ Len(text) \in Nat /\ BlocksOf(Len(text)) \in Nat
         /\ Fits(BlocksOf(Len(text)), WordLen) /\ Fits(BlocksOf(Len(text)), 2)
<1>1. /\ text \in Seq(Range(text))
      /\ Fits(BlocksOf(Len(text)), WordLen) /\ Fits(BlocksOf(Len(text)), 2)
  BY CiphersAssumption DEF CiphersAssumption
<1>2. IsSeq(text)
  BY <1>1 DEF IsSeq
<1> QED
  BY <1>1, <1>2, SeqFacts, BlocksOfIs

LEMMA Appended ==
  ASSUME NEW s, IsSeq(s), NEW x
  PROVE  /\ IsSeq(Append(s, x)) /\ Len(Append(s, x)) = Len(s) + 1 /\ Append(s, x)[Len(s) + 1] = x
         /\ \A i \in 1..Len(s) : Append(s, x)[i] = s[i]
<1>1. PICK S : s \in Seq(S)
  BY DEF IsSeq
<1>2. s \in Seq(S \cup {x}) /\ x \in S \cup {x}
  BY <1>1
<1>3. /\ Append(s, x) \in Seq(S \cup {x}) /\ Len(Append(s, x)) = Len(s) + 1
      /\ Append(s, x)[Len(s) + 1] = x /\ \A i \in 1..Len(s) : Append(s, x)[i] = s[i]
  BY <1>2
<1> QED
  BY <1>3 DEF IsSeq

\* The key tells the kind, and the epoch of a group.
LEMMA KeyIs ==
  ASSUME NEW f, NEW kind, NEW flag, f.kind = kind, f.key = <<kind, flag>>
  PROVE  /\ FrameKey(f)[1] = kind /\ FrameKey(f)[2] = flag
         /\ kind = "group" => FrameKey(f)[3] = f.extra
<1> DEFINE k == <<kind, flag>>
<1>1. IsSeq(k) /\ Len(k) = 2 /\ k[1] = kind /\ k[2] = flag
  BY Pairs
<1>2. FrameKey(f) = IF kind = "group" THEN Append(k, f.extra) ELSE k
  BY DEF FrameKey
<1> HIDE DEF k
<1>3. /\ Append(k, f.extra)[1] = kind /\ Append(k, f.extra)[2] = flag
      /\ Append(k, f.extra)[2 + 1] = f.extra
  <2>1. 1 \in 1..Len(k) /\ 2 \in 1..Len(k)
    BY <1>1
  <2>2. ASSUME NEW i \in 1..Len(k) PROVE Append(k, f.extra)[i] = k[i]
    <3>1. IsSeq(k)
      BY <1>1
    <3> QED
      BY <3>1, Appended
  <2>3. Append(k, f.extra)[Len(k) + 1] = f.extra
    BY <1>1, Appended
  <2> QED
    BY <1>1, <2>1, <2>2, <2>3
<1> QED
  BY <1>1, <1>2, <1>3

LEMMA KeyTells ==
  ASSUME NEW f, NEW kind, NEW g, NEW kind2, NEW flag, NEW flag2,
         f.kind = kind, f.key = <<kind, flag>>, g.kind = kind2, g.key = <<kind2, flag2>>,
         FrameKey(f) = FrameKey(g)
  PROVE  kind = kind2 /\ flag = flag2 /\ (kind = "group" => f.extra = g.extra)
<1>1. FrameKey(f)[1] = kind /\ FrameKey(f)[2] = flag /\ (kind = "group" => FrameKey(f)[3] = f.extra)
  BY KeyIs
<1>2. FrameKey(g)[1] = kind2 /\ FrameKey(g)[2] = flag2 /\ (kind2 = "group" => FrameKey(g)[3] = g.extra)
  BY KeyIs
<1> QED
  BY <1>1, <1>2

LEMMA NonceIs ==
  ASSUME NEW f, f.packet \in Packets, f.extra \in Epochs \cup {0}, f.kind \in Kinds, f.kind # "channel"
  PROVE  NonceOK(FrameNonce(f))
<1>1. /\ f.packet.from \in Nat /\ f.packet.id \in Nat /\ f.extra \in Nat
  BY Constants
<1>2. CASE f.kind = "direct"
  BY <1>1, <1>2, PkiNonceIs DEF FrameNonce
<1>3. CASE f.kind = "group"
  BY <1>1, <1>3, GroupNonceIs DEF FrameNonce
<1> QED
  BY <1>2, <1>3 DEF Kinds

\* Two frames of a kind that have a nonce in common are the same packet, and
\* direct messages have the same extra nonce.
LEMMA NonceApart ==
  ASSUME NEW f, f.packet \in Packets, f.extra \in Epochs \cup {0}, f.kind \in Kinds, f.kind # "channel",
         NEW g, g.packet \in Packets, g.extra \in Epochs \cup {0}, g.kind = f.kind,
         FrameNonce(f) = FrameNonce(g)
  PROVE  f.packet = g.packet /\ (f.kind = "direct" => f.extra = g.extra)
<1> DEFINE id == f.packet.id
           from == f.packet.from
           id2 == g.packet.id
           from2 == g.packet.from
           x == f.extra
           y == g.extra
<1>1. /\ from \in Nat /\ id \in Nat /\ Fits(from, WordLen) /\ Fits(id, WordLen)
      /\ f.packet = [from |-> from, id |-> id]
  BY Constants
<1>2. /\ from2 \in Nat /\ id2 \in Nat /\ Fits(from2, WordLen) /\ Fits(id2, WordLen)
      /\ g.packet = [from |-> from2, id |-> id2]
  BY Constants
<1>3. x \in Nat /\ y \in Nat /\ Fits(x, WordLen) /\ Fits(y, WordLen)
  BY EpochFits
<1>4. CASE f.kind = "direct"
  <2>1. PkiNonce(id, x, from) = PkiNonce(id2, y, from2)
    BY <1>4 DEF FrameNonce
  <2> HIDE DEF id, from, id2, from2, x, y
  <2>2. id = id2 /\ x = y /\ from = from2
    BY <1>1, <1>2, <1>3, <2>1, PkiNonceApart
  <2> QED
    BY <1>1, <1>2, <2>2 DEF x, y
<1>5. CASE f.kind = "group"
  <2>1. GroupNonce(from, id, x) = GroupNonce(from2, id2, y)
    BY <1>5 DEF FrameNonce
  <2> HIDE DEF id, from, id2, from2, x, y
  <2>2. id = id2 /\ from = from2
    BY <1>1, <1>2, <1>3, <2>1, GroupNonceApart
  <2> QED
    BY <1>1, <1>2, <1>5, <2>2
<1> QED
  BY <1>4, <1>5 DEF Kinds

----------------------------------------------------------------------------
(* No block of a keystream is encrypted twice.                               *)

\* The frames that two keystreams belong to, with what they were sealed from.
FrameOf(s, kind, p, extra, text) ==
  /\ kind \in Kinds /\ p \in Packets /\ extra \in Epochs \cup {0} /\ text \in Texts
  /\ kind = "channel" => extra = 0
  /\ s.frame.kind = kind /\ s.frame.packet = p /\ s.frame.extra = extra /\ s.frame.key = <<kind, 0>>
  /\ s.text = text

LEMMA SentFrame ==
  ASSUME NEW s, SentOK(s)
  PROVE  \E kind, p, extra, text : FrameOf(s, kind, p, extra, text)
<1>1. PICK kind, p, extra, n, text : /\ Sealed(s.frame, kind, p, extra, n, text)
                                     /\ s = [frame |-> s.frame, text |-> text]
  BY DEF SentOK
<1>2. s.text = text
  BY <1>1
<1>3. /\ s.frame.kind = kind /\ s.frame.packet = p /\ s.frame.extra = extra
      /\ s.frame.key = <<kind, 0>>
  BY <1>1, SealedFrame
<1>4. FrameOf(s, kind, p, extra, text)
  BY <1>1, <1>2, <1>3 DEF FrameOf, Sealed
<1> QED
  BY <1>4

LEMMA ChannelBlocks ==
  ASSUME NEW s, NEW p, NEW text, FrameOf(s, "channel", p, 0, text)
  PROVE  /\ DOMAIN StreamBlocks(s) = 1..BlocksOf(Len(text))
         /\ \A i \in 1..BlocksOf(Len(text)) :
              CounterAt(CtrNonce(p.id, p.from, 0), i - 1, StreamBlocks(s)[i])
<1> DEFINE c == CtrNonce(p.id, p.from, 0)
<1>1. StreamBlocks(s) = CtrBlocks(c, text)
  BY DEF StreamBlocks, FrameNonce, FrameOf
<1>2. p.id \in Nat /\ p.from \in Nat
  BY Constants DEF FrameOf
<1>3. CounterAt(c, 0, c)
  BY <1>2, CtrNonceIs
<1>4. IsSeq(text) /\ Fits(BlocksOf(Len(text)), WordLen)
  BY TextIs DEF FrameOf
<1> HIDE DEF c
<1>5. /\ IsSeq(CtrBlocks(c, text)) /\ Len(CtrBlocks(c, text)) = BlocksOf(Len(text))
      /\ \A k \in 1..BlocksOf(Len(text)) : CounterAt(c, k - 1, CtrBlocks(c, text)[k])
  BY <1>3, <1>4, CtrBlocksAre
<1>6. DOMAIN CtrBlocks(c, text) = 1..BlocksOf(Len(text))
  BY <1>5, SeqFacts
<1> QED
  BY <1>1, <1>5, <1>6 DEF c

LEMMA CcmBlocksOf ==
  ASSUME NEW s, NEW kind, NEW p, NEW extra, NEW text, FrameOf(s, kind, p, extra, text), kind # "channel"
  PROVE  /\ DOMAIN StreamBlocks(s) = 1..(BlocksOf(Len(text)) + 1)
         /\ \A i \in 1..(BlocksOf(Len(text)) + 1) : StreamBlocks(s)[i] = A(FrameNonce(s.frame), i - 1)
<1>1. StreamBlocks(s) = <<A(FrameNonce(s.frame), 0)>> \o CcmBlocks(FrameNonce(s.frame), text)
  BY DEF StreamBlocks, FrameOf
<1>2. IsSeq(text)
  BY TextIs DEF FrameOf
<1> QED
  BY <1>1, <1>2, CcmStreamIs

LEMMA ChannelApart ==
  ASSUME NEW s, NEW p, NEW text, FrameOf(s, "channel", p, 0, text),
         NEW t, NEW q, NEW text2, FrameOf(t, "channel", q, 0, text2),
         NEW i \in 1..BlocksOf(Len(text)), NEW j \in 1..BlocksOf(Len(text2)),
         StreamBlocks(s)[i] = StreamBlocks(t)[j]
  PROVE  p = q /\ i = j
<1> DEFINE c == StreamBlocks(s)[i]
           v == i - 1
           w == j - 1
<1>1. CounterAt(CtrNonce(p.id, p.from, 0), v, c)
  BY ChannelBlocks
<1>2. CounterAt(CtrNonce(q.id, q.from, 0), w, c)
  BY ChannelBlocks
<1>3. p.from \in Nat /\ p.id \in Nat /\ Fits(p.from, WordLen) /\ Fits(p.id, WordLen)
  BY Constants DEF FrameOf
<1>4. q.from \in Nat /\ q.id \in Nat /\ Fits(q.from, WordLen) /\ Fits(q.id, WordLen)
  BY Constants DEF FrameOf
<1>10. p = [from |-> p.from, id |-> p.id] /\ q = [from |-> q.from, id |-> q.id]
  BY Constants DEF FrameOf
<1>5. v \in Nat /\ Fits(v, WordLen)
  <2>1. BlocksOf(Len(text)) \in Nat /\ Fits(BlocksOf(Len(text)), WordLen)
    BY TextIs DEF FrameOf
  <2>2. v \in Nat /\ v <= BlocksOf(Len(text))
    BY <2>1
  <2> QED
    BY <2>1, <2>2, Widths, SmallerFits
<1>6. w \in Nat /\ Fits(w, WordLen)
  <2>1. BlocksOf(Len(text2)) \in Nat /\ Fits(BlocksOf(Len(text2)), WordLen)
    BY TextIs DEF FrameOf
  <2>2. w \in Nat /\ w <= BlocksOf(Len(text2))
    BY <2>1
  <2> QED
    BY <2>1, <2>2, Widths, SmallerFits
<1> HIDE DEF c, v, w
<1>7. p.id = q.id /\ p.from = q.from /\ v = w
  <2>1. CounterOf(p.id, p.from, v, c)
    BY <1>1, <1>3, <1>5 DEF CounterOf
  <2>2. CounterOf(q.id, q.from, w, c)
    BY <1>2, <1>4, <1>6 DEF CounterOf
  <2> QED
    BY <2>1, <2>2, CountersApart
<1>8. p = q
  BY <1>7, <1>10
<1>9. i = j
  BY <1>7 DEF v, w
<1> QED
  BY <1>8, <1>9

LEMMA CcmApart ==
  ASSUME NEW s, NEW kind, NEW p, NEW extra, NEW text, FrameOf(s, kind, p, extra, text),
         NEW t, NEW q, NEW extra2, NEW text2, FrameOf(t, kind, q, extra2, text2), kind # "channel",
         NEW i \in 1..(BlocksOf(Len(text)) + 1), NEW j \in 1..(BlocksOf(Len(text2)) + 1),
         StreamBlocks(s)[i] = StreamBlocks(t)[j]
  PROVE  p = q /\ i = j
<1> DEFINE v == i - 1
           w == j - 1
           n == FrameNonce(s.frame)
           m == FrameNonce(t.frame)
<1>1. StreamBlocks(s)[i] = A(n, v)
  BY CcmBlocksOf
<1>2. StreamBlocks(t)[j] = A(m, w)
  BY CcmBlocksOf
<1>3. NonceOK(n) /\ NonceOK(m)
  BY NonceIs DEF FrameOf
<1>4. v \in Nat /\ Fits(v, 2)
  <2>1. BlocksOf(Len(text)) \in Nat /\ Fits(BlocksOf(Len(text)), 2)
    BY TextIs DEF FrameOf
  <2>2. v \in Nat /\ v <= BlocksOf(Len(text))
    BY <2>1
  <2> QED
    BY <2>1, <2>2, SmallerFits
<1>5. w \in Nat /\ Fits(w, 2)
  <2>1. BlocksOf(Len(text2)) \in Nat /\ Fits(BlocksOf(Len(text2)), 2)
    BY TextIs DEF FrameOf
  <2>2. w \in Nat /\ w <= BlocksOf(Len(text2))
    BY <2>1
  <2> QED
    BY <2>1, <2>2, SmallerFits
<1> HIDE DEF v, w, n, m
<1>6. A(n, v) = A(m, w)
  BY <1>1, <1>2
<1>7. n = m /\ v = w
  BY <1>3, <1>4, <1>5, <1>6, AApart
<1>8. i = j
  BY <1>7 DEF v, w
<1>9. s.frame.packet = t.frame.packet
  BY <1>7, NonceApart DEF n, m, FrameOf
<1> QED
  BY <1>8, <1>9 DEF FrameOf

LEMMA KeystreamOnceHolds == ASSUME CipherInv PROVE KeystreamOnce
<1> SUFFICES ASSUME NEW s \in air, NEW t \in air, FrameKey(s.frame) = FrameKey(t.frame)
             PROVE  /\ \A i \in DOMAIN StreamBlocks(s), j \in DOMAIN StreamBlocks(t) :
                         StreamBlocks(s)[i] = StreamBlocks(t)[j] => s = t /\ i = j
                    /\ t.frame.kind # "channel" =>
                         B0(FrameNonce(t.frame), Len(t.text), FrameAad(t.frame)) \notin Range(StreamBlocks(s))
  BY DEF KeystreamOnce
<1>1. SentOK(s) /\ SentOK(t) /\ (s.frame.packet = t.frame.packet => s = t)
  BY DEF CipherInv
<1>2. PICK kind, p, extra, text : FrameOf(s, kind, p, extra, text)
  BY <1>1, SentFrame
<1>3. PICK kind2, q, extra2, text2 : FrameOf(t, kind2, q, extra2, text2)
  BY <1>1, SentFrame
<1>4. kind = kind2
  <2>1. s.frame.kind = kind /\ s.frame.key = <<kind, 0>>
    BY <1>2 DEF FrameOf
  <2>2. t.frame.kind = kind2 /\ t.frame.key = <<kind2, 0>>
    BY <1>3 DEF FrameOf
  <2> QED
    BY <2>1, <2>2, KeyTells
<1>5. ASSUME NEW i \in DOMAIN StreamBlocks(s), NEW j \in DOMAIN StreamBlocks(t),
             StreamBlocks(s)[i] = StreamBlocks(t)[j]
      PROVE  s = t /\ i = j
  <2>1. CASE kind = "channel"
    <3>1. FrameOf(s, "channel", p, 0, text) /\ FrameOf(t, "channel", q, 0, text2)
      BY <1>2, <1>3, <1>4, <2>1 DEF FrameOf
    <3>2. i \in 1..BlocksOf(Len(text)) /\ j \in 1..BlocksOf(Len(text2))
      BY <3>1, ChannelBlocks
    <3>3. p = q /\ i = j
      BY <1>5, <3>1, <3>2, ChannelApart
    <3> QED
      BY <1>1, <1>2, <1>3, <3>3 DEF FrameOf
  <2>2. CASE kind # "channel"
    <3>1. FrameOf(s, kind, p, extra, text) /\ FrameOf(t, kind, q, extra2, text2)
      BY <1>2, <1>3, <1>4
    <3>2. i \in 1..(BlocksOf(Len(text)) + 1) /\ j \in 1..(BlocksOf(Len(text2)) + 1)
      BY <2>2, <3>1, CcmBlocksOf
    <3>3. p = q /\ i = j
      BY <1>5, <2>2, <3>1, <3>2, CcmApart
    <3> QED
      BY <1>1, <1>2, <1>3, <3>3 DEF FrameOf
  <2> QED
    BY <2>1, <2>2
<1>6. ASSUME t.frame.kind # "channel"
      PROVE  B0(FrameNonce(t.frame), Len(t.text), FrameAad(t.frame)) \notin Range(StreamBlocks(s))
  <2>1. kind2 # "channel" /\ kind # "channel"
    BY <1>3, <1>4, <1>6 DEF FrameOf
  <2>2. NonceOK(FrameNonce(t.frame)) /\ NonceOK(FrameNonce(s.frame))
    BY <1>2, <1>3, <2>1, NonceIs DEF FrameOf
  <2>3. Len(t.text) \in Nat /\ BlocksOf(Len(text)) \in Nat
    BY <1>2, <1>3, TextIs DEF FrameOf
  <2> DEFINE b == B0(FrameNonce(t.frame), Len(t.text), FrameAad(t.frame))
             aad == FrameAad(t.frame)
             n == FrameNonce(t.frame)
             len == Len(t.text)
  <2>4. ASSUME NEW m, NonceOK(m), NEW k \in Nat PROVE b # A(m, k)
    <3> HIDE DEF aad, n, len
    <3> QED
      BY <2>2, <2>3, <2>4, B0Is DEF aad, n, len
  <2> HIDE DEF b
  <2>5. ASSUME NEW k \in DOMAIN StreamBlocks(s) PROVE b # StreamBlocks(s)[k]
    <3>1. k \in 1..(BlocksOf(Len(text)) + 1) /\ StreamBlocks(s)[k] = A(FrameNonce(s.frame), k - 1)
      BY <1>2, <2>1, CcmBlocksOf
    <3>2. k - 1 \in Nat
      BY <2>3, <3>1
    <3> QED
      BY <2>2, <2>4, <3>1, <3>2
  <2>6. b \notin Range(StreamBlocks(s))
    BY <2>5 DEF Range
  <2> QED
    BY <2>6 DEF b
<1> QED
  BY <1>5, <1>6

\* No frames of any senders ever show one block under one key twice, and the
\* first block of no MAC is one of them.  A nonce tells sender and identifier
\* because each of them fits its bytes, and the counter of no text runs over.
THEOREM KeystreamNeverTwice == CipherSpec => []KeystreamOnce
<1>1. CipherInv => KeystreamOnce
  BY KeystreamOnceHolds
<1> QED
  BY <1>1, CipherInvariance, PTL

----------------------------------------------------------------------------
(* What a MAC tells of the chunks it took in.                                *)

ChunkAt(s, m, c) ==
  /\ IsSeq(c) /\ m \in Nat /\ m < Len(s)
  /\ Len(c) = IF m + Block <= Len(s) THEN Block ELSE Len(s) - m
  /\ \A i \in 1..Len(c) : c[i] = s[m + i]

LEMMA ChunkIs ==
  ASSUME NEW s, IsSeq(s), NEW k \in 1..BlocksOf(Len(s)), NEW m, m = (k - 1) * Block
  PROVE  ChunkAt(s, m, Chunks(s)[k])
<1> DEFINE n == BlocksOf(Len(s))
           len == Len(s)
           e == IF k * Block <= Len(s) THEN k * Block ELSE Len(s)
           c == Chunks(s)[k]
<1>1. len \in Nat /\ n \in Nat /\ Block \in Nat /\ Block >= 1
  BY SeqFacts, BlocksOfIs, Widths
<1>2. c = SubSeq(s, (k - 1) * Block + 1, e)
  BY ChunksAre
<1>3. n = (len + Block - 1) \div Block
  BY DEF BlocksOf
<1> HIDE DEF n, len, c
<1>4. k \in Nat /\ k >= 1 /\ k <= n
  BY <1>1 DEF n
<1>5. k * Block = m + Block /\ m \in Nat
  <2>1. PICK j \in Nat : k = j + 1
    <3>1. k - 1 \in Nat /\ k = (k - 1) + 1
      BY <1>4
    <3> QED
      BY <3>1
  <2>2. m = j * Block /\ (j + 1) * Block = j * Block + Block /\ j * Block \in Nat
    BY <1>1, <2>1
  <2> QED
    BY <2>1, <2>2
<1>6. m < len
  <2>1. PICK d \in Nat : n = k + d
    <3>1. n - k \in Nat /\ n = k + (n - k)
      BY <1>1, <1>4
    <3> QED
      BY <3>1
  <2>2. len + Block - 1 \in Nat
    BY <1>1
  <2>3. Block * n <= len + Block - 1
    <3> DEFINE z == len + Block - 1
    <3>1. z \in Nat /\ n = z \div Block
      BY <1>3, <2>2
    <3> HIDE DEF z
    <3>2. z % Block \in Nat /\ z = Block * n + (z % Block)
      BY <1>1, <3>1, DivisionIs
    <3>3. Block * n \in Nat
      BY <1>1
    <3>4. Block * n <= z
      BY <3>1, <3>2, <3>3
    <3> QED
      BY <3>4 DEF z
  <2>4. Block * n = k * Block + d * Block /\ d * Block \in Nat
    BY <1>1, <1>4, <2>1
  <2>5. k * Block <= len + Block - 1
    BY <1>1, <1>5, <2>3, <2>4
  <2> QED
    BY <1>1, <1>5, <2>5
<1>7. e = IF m + Block <= len THEN m + Block ELSE len
  BY <1>5 DEF len
<1> HIDE DEF e
<1>8. e \in Nat /\ m <= e /\ e <= len /\ c = SubSeq(s, m + 1, e)
  BY <1>1, <1>2, <1>5, <1>6, <1>7
<1>9. /\ IsSeq(c) /\ Len(c) = e - m
      /\ \A i \in 1..(e - m) : c[i] = s[m + i]
  <2>1. e <= Len(s)
    BY <1>8 DEF len
  <2>2. m \in Nat /\ e \in Nat /\ m <= e
    BY <1>5, <1>8
  <2> DEFINE x == SubSeq(s, m + 1, e)
  <2>3. /\ IsSeq(x) /\ Len(x) = e - m
        /\ \A i \in 1..(e - m) : x[i] = s[m + i]
    BY <2>1, <2>2, Part
  <2>4. c = x
    BY <1>8
  <2> QED
    BY <2>3, <2>4
<1>10. Len(c) = IF m + Block <= len THEN Block ELSE len - m
  BY <1>1, <1>5, <1>7, <1>9
<1>11. ChunkAt(s, m, c)
  BY <1>5, <1>6, <1>9, <1>10 DEF ChunkAt, len
<1> QED
  BY <1>11 DEF c

Padded(c) == c \o Zeros(Block - Len(c))

\* Texts of one length, whose chunks filled up with zeros agree, are the same.
LEMMA ChunksTell ==
  ASSUME NEW s, IsSeq(s), NEW t, IsSeq(t), Len(s) = Len(t),
         \A k \in 1..BlocksOf(Len(s)) : Padded(Chunks(s)[k]) = Padded(Chunks(t)[k])
  PROVE  s = t
<1>1. Len(s) \in Nat /\ Block \in Nat /\ Block >= 1
  BY SeqFacts, Widths
<1>2. ASSUME NEW i \in 1..Len(s) PROVE s[i] = t[i]
  <2> DEFINE q == (i - 1) \div Block
             r == (i - 1) % Block
             k == q + 1
             m == (k - 1) * Block
             c == Chunks(s)[k]
             d == Chunks(t)[k]
  <2>1. q \in Nat /\ r \in Nat /\ r <= Block - 1 /\ i - 1 = Block * q + r
    <3> DEFINE z == i - 1
    <3>1. z \in Nat
      BY <1>1
    <3> HIDE DEF z
    <3>2. z \div Block \in Nat /\ z % Block \in 0..(Block - 1) /\ z = Block * (z \div Block) + (z % Block)
      BY <1>1, <3>1, DivisionIs
    <3>3. q = z \div Block /\ r = z % Block
      BY DEF z
    <3> HIDE DEF q, r
    <3>4. z = i - 1
      BY DEF z
    <3> QED
      BY <1>1, <3>2, <3>3, <3>4
  <2>2. k \in 1..BlocksOf(Len(s))
    BY <1>1, BlocksOfIs
  <2> HIDE DEF q, r
  <2>3. i = m + (r + 1)
    BY <1>1, <2>1
  <2>4. k \in 1..BlocksOf(Len(t)) /\ Padded(c) = Padded(d)
    BY <2>2
  <2> HIDE DEF k, c, d
  <2>5. m = (k - 1) * Block
    OBVIOUS
  <2> HIDE DEF m
  <2>6. /\ IsSeq(c) /\ m \in Nat /\ m < Len(s)
        /\ Len(c) = IF m + Block <= Len(s) THEN Block ELSE Len(s) - m
        /\ \A j \in 1..Len(c) : c[j] = s[m + j]
    <3>1. ChunkAt(s, m, c)
      BY <2>2, <2>5, ChunkIs DEF c
    <3> QED
      BY <3>1 DEF ChunkAt
  <2>7. /\ IsSeq(d)
        /\ Len(d) = IF m + Block <= Len(t) THEN Block ELSE Len(t) - m
        /\ \A j \in 1..Len(d) : d[j] = t[m + j]
    <3>1. ChunkAt(t, m, d)
      BY <2>4, <2>5, ChunkIs DEF d
    <3> QED
      BY <3>1 DEF ChunkAt
  <2>8. Len(c) = Len(d) /\ Block - Len(c) \in Nat
    BY <1>1, <2>6, <2>7
  <2>9. c = d
    <3> DEFINE z == Zeros(Block - Len(c))
    <3>1. IsSeq(z)
      BY <2>8, ZerosAre
    <3>2. c \o z = d \o z
      BY <2>4, <2>8 DEF Padded
    <3> HIDE DEF z
    <3> QED
      BY <2>6, <2>7, <2>8, <3>1, <3>2, PartsEqual
  <2>10. r + 1 \in 1..Len(c)
    BY <1>1, <2>1, <2>3, <2>6
  <2>11. c[r + 1] = s[m + (r + 1)] /\ d[r + 1] = t[m + (r + 1)]
    BY <2>6, <2>7, <2>8, <2>10
  <2> QED
    BY <2>3, <2>9, <2>11
<1> QED
  BY <1>2, SameSequence

\* The chain of a MAC: the encryption of its first block, then of each onto the next.
Chain(key, b0, chunks, n, h) ==
  h[0] = Encrypt(key, b0) /\ \A k \in 1..n : h[k] = Encrypt(key, Onto(h[k - 1], chunks[k]))

LEMMA ChainsExist ==
  ASSUME NEW key, NEW b0, NEW chunks, NEW n \in Nat
  PROVE  \E f : f = [k \in 0..n |-> f[k]] /\ Chain(key, b0, chunks, n, f)
<1> DEFINE T == {j \in Nat : \E f : f = [k \in 0..j |-> f[k]] /\ Chain(key, b0, chunks, j, f)}
<1>1. 0 \in T
  <2> DEFINE f == [k \in 0..0 |-> Encrypt(key, b0)]
  <2>1. f = [k \in 0..0 |-> f[k]] /\ f[0] = Encrypt(key, b0)
    OBVIOUS
  <2> HIDE DEF f
  <2>2. Chain(key, b0, chunks, 0, f)
    BY <2>1 DEF Chain
  <2> QED
    BY <2>1, <2>2
<1>2. ASSUME NEW j \in Nat, j \in T PROVE j + 1 \in T
  <2>1. PICK f : Chain(key, b0, chunks, j, f)
    BY <1>2
  <2> DEFINE e == Encrypt(key, Onto(f[j], chunks[j + 1]))
             g == [k \in 0..(j + 1) |-> IF k = j + 1 THEN e ELSE f[k]]
  <2>2. g[j + 1] = e /\ \A k \in 0..j : g[k] = f[k]
    OBVIOUS
  <2>3. g = [k \in 0..(j + 1) |-> g[k]]
    OBVIOUS
  <2> HIDE DEF g
  <2>4. g[0] = Encrypt(key, b0)
    <3>1. 0 \in 0..j
      OBVIOUS
    <3> QED
      BY <2>1, <2>2, <3>1 DEF Chain
  <2>5. ASSUME NEW k \in 1..(j + 1) PROVE g[k] = Encrypt(key, Onto(g[k - 1], chunks[k]))
    <3>1. k - 1 \in 0..j /\ (k \in 1..j \/ k = j + 1)
      OBVIOUS
    <3>2. g[k - 1] = f[k - 1]
      BY <2>2, <3>1
    <3>3. CASE k \in 1..j
      <4>1. k \in 0..j
        BY <3>3
      <4>2. f[k] = Encrypt(key, Onto(f[k - 1], chunks[k]))
        BY <2>1, <3>3 DEF Chain
      <4> QED
        BY <2>2, <3>2, <4>1, <4>2
    <3>4. CASE k = j + 1
      <4>1. k - 1 = j
        BY <3>4
      <4> QED
        BY <2>2, <3>2, <3>4, <4>1
    <3> QED
      BY <3>1, <3>3, <3>4
  <2>6. Chain(key, b0, chunks, j + 1, g)
    BY <2>4, <2>5 DEF Chain
  <2> QED
    BY <2>3, <2>6
<1>3. Nat \subseteq T
  <2> HIDE DEF T
  <2> QED
    BY <1>1, <1>2, SetInduction
<1> QED
  BY <1>3

MacChunks(aad, text) == AadChunks(aad) \o Chunks(text)

LEMMA AadChunksAre ==
  ASSUME NEW aad, IsSeq(aad)
  PROVE  /\ IsSeq(AadChunks(aad))
         /\ Len(AadChunks(aad)) = IF aad = <<>> THEN 0 ELSE BlocksOf(2 + Len(aad))
<1> DEFINE s == TwoBytes(Len(aad))
<1>1. Len(aad) \in Nat
  BY SeqFacts
<1>2. IsSeq(s) /\ Len(s) = 2
  BY <1>1, TwoBytesAre
<1> HIDE DEF s
<1>3. IsSeq(s \o aad) /\ Len(s \o aad) = Len(s) + Len(aad)
  BY <1>2, JoinedSequence
<1>4. IsSeq(Chunks(s \o aad)) /\ Len(Chunks(s \o aad)) = BlocksOf(Len(s \o aad))
  BY <1>3, ChunksAre
<1>5. CASE aad = <<>>
  <2>1. AadChunks(aad) = <<>>
    BY <1>5 DEF AadChunks
  <2>2. <<>> \in Seq({}) /\ Len(<<>>) = 0
    OBVIOUS
  <2>3. IsSeq(<<>>)
    BY <2>2 DEF IsSeq
  <2>4. IsSeq(AadChunks(aad)) /\ Len(AadChunks(aad)) = 0
    BY <2>1, <2>2, <2>3, Zenon
  <2> QED
    BY <1>5, <2>4
<1>6. CASE aad # <<>>
  <2>1. AadChunks(aad) = Chunks(s \o aad)
    BY <1>6 DEF AadChunks, s
  <2>2. Len(s \o aad) = 2 + Len(aad)
    BY <1>2, <1>3
  <2> QED
    BY <1>4, <1>6, <2>1, <2>2
<1> QED
  BY <1>5, <1>6

LEMMA MacChunksAre ==
  ASSUME NEW aad, IsSeq(aad), NEW text, IsSeq(text)
  PROVE  /\ IsSeq(MacChunks(aad, text)) /\ Len(MacChunks(aad, text)) \in Nat
         /\ Len(MacChunks(aad, text)) = Len(AadChunks(aad)) + BlocksOf(Len(text))
         /\ \A k \in 1..Len(AadChunks(aad)) : MacChunks(aad, text)[k] = AadChunks(aad)[k]
         /\ \A k \in 1..BlocksOf(Len(text)), j \in Int :
              j = Len(AadChunks(aad)) + k => MacChunks(aad, text)[j] = Chunks(text)[k]
<1> DEFINE s == AadChunks(aad)
           t == Chunks(text)
<1>1. IsSeq(s) /\ IsSeq(t) /\ Len(t) = BlocksOf(Len(text))
  BY AadChunksAre, ChunksAre
<1> HIDE DEF s, t
<1>2. IsSeq(s \o t) /\ Len(s \o t) = Len(s) + Len(t)
  BY <1>1, JoinedSequence
<1>3. ASSUME NEW k \in 1..Len(s) PROVE (s \o t)[k] = s[k]
  BY <1>1, JoinedSequence
<1>4. ASSUME NEW k \in 1..Len(t), NEW j \in Int, j = Len(s) + k PROVE (s \o t)[j] = t[k]
  BY <1>1, <1>4, JoinedSecond
<1>5. MacChunks(aad, text) = s \o t
  BY DEF MacChunks, s, t
<1>6. Len(s \o t) \in Nat
  BY <1>2, SeqFacts
<1> QED
  BY <1>1, <1>2, <1>3, <1>4, <1>5, <1>6 DEF s, t

LEMMA MacChunkBefore ==
  ASSUME NEW aad, IsSeq(aad), NEW text, IsSeq(text), NEW k \in 1..Len(AadChunks(aad))
  PROVE  MacChunks(aad, text)[k] = AadChunks(aad)[k]
BY MacChunksAre

LEMMA MacChunkAfter ==
  ASSUME NEW aad, IsSeq(aad), NEW text, IsSeq(text), NEW k \in 1..BlocksOf(Len(text)),
         NEW j \in Int, j = Len(AadChunks(aad)) + k
  PROVE  MacChunks(aad, text)[j] = Chunks(text)[k]
BY MacChunksAre

LEMMA MacIs ==
  ASSUME NEW key, NEW b0, NEW aad, NEW text, NEW n \in Nat, n = Len(MacChunks(aad, text))
  PROVE  \E h : Chain(key, b0, MacChunks(aad, text), n, h) /\ CbcMac(key, b0, aad, text) = h[n]
<1> DEFINE c == MacChunks(aad, text)
           Links(g) == [k \in 0..n |-> IF k = 0 THEN Encrypt(key, b0) ELSE Encrypt(key, Onto(g[k - 1], c[k]))]
           h == CHOOSE g : g = Links(g)
<1>1. CbcMac(key, b0, aad, text) = h[n]
  <2> DEFINE d == AadChunks(aad) \o Chunks(text)
  <2>1. CbcMac(key, b0, aad, text) =
          (CHOOSE g : g = [k \in 0..Len(d) |-> IF k = 0 THEN Encrypt(key, b0)
                                               ELSE Encrypt(key, Onto(g[k - 1], d[k]))])[Len(d)]
    BY DEF CbcMac
  <2>2. d = c /\ Len(d) = n
    BY DEF MacChunks
  <2> HIDE DEF d, c
  <2> QED
    BY <2>1, <2>2
<1> HIDE DEF c
<1>2. h = Links(h)
  <2>1. PICK f : f = [k \in 0..n |-> f[k]] /\ Chain(key, b0, c, n, f)
    BY ChainsExist
  <2>2. \A k \in 0..n : f[k] = IF k = 0 THEN Encrypt(key, b0) ELSE Encrypt(key, Onto(f[k - 1], c[k]))
    <3> SUFFICES ASSUME NEW k \in 0..n
                 PROVE  f[k] = IF k = 0 THEN Encrypt(key, b0) ELSE Encrypt(key, Onto(f[k - 1], c[k]))
      OBVIOUS
    <3>1. Chain(key, b0, c, n, f)
      BY <2>1
    <3>2. k = 0 \/ k \in 1..n
      OBVIOUS
    <3> QED
      BY <3>1, <3>2 DEF Chain
  <2>3. f = Links(f)
    BY <2>1, <2>2
  <2> HIDE DEF Links
  <2> QED
    BY <2>3
<1> HIDE DEF h
<1>3. Chain(key, b0, c, n, h)
  <2>1. h[0] = Encrypt(key, b0) /\ \A k \in 1..n : h[k] = Encrypt(key, Onto(h[k - 1], c[k]))
    BY <1>2
  <2> QED
    BY <2>1 DEF Chain
<1> QED
  BY <1>1, <1>3 DEF c

LEMMA OntoIs == \A e, c : Onto(e, c) = <<e, Padded(c)>>
BY DEF Onto, Padded

LEMMA PairsTell == \A a, b, c, d : <<a, b>> = <<c, d>> => a = c /\ b = d
OBVIOUS

SamePadded(c, d, n) == \A k \in 1..n : Padded(c[k]) = Padded(d[k])

\* Chains that end in one block have taken in the same.
LEMMA ChainsTell ==
  ASSUME NEW key, NEW b0, NEW c, NEW key2, NEW b1, NEW d, NEW n \in Nat,
         NEW h, Chain(key, b0, c, n, h), NEW g, Chain(key2, b1, d, n, g), h[n] = g[n]
  PROVE  SamePadded(c, d, n)
<1>1. ASSUME NEW k \in 1..n, h[k] = g[k] PROVE h[k - 1] = g[k - 1] /\ Padded(c[k]) = Padded(d[k])
  <2>1. h[k] = Encrypt(key, Onto(h[k - 1], c[k])) /\ g[k] = Encrypt(key2, Onto(g[k - 1], d[k]))
    BY DEF Chain
  <2>2. <<key, Onto(h[k - 1], c[k])>> = <<key2, Onto(g[k - 1], d[k])>>
    BY <1>1, <2>1 DEF Encrypt
  <2>3. Onto(h[k - 1], c[k]) = Onto(g[k - 1], d[k])
    BY <2>2, PairsTell, Zenon
  <2>4. <<h[k - 1], Padded(c[k])>> = <<g[k - 1], Padded(d[k])>>
    BY <2>3, OntoIs, Zenon
  <2> QED
    BY <2>4, PairsTell, Zenon
<1> DEFINE T == {j \in Nat : j <= n => h[n - j] = g[n - j]}
<1>2. 0 \in T
  OBVIOUS
<1>3. ASSUME NEW j \in Nat, j \in T PROVE j + 1 \in T
  <2> SUFFICES ASSUME j + 1 <= n PROVE h[n - (j + 1)] = g[n - (j + 1)]
    OBVIOUS
  <2>1. n - j \in 1..n /\ (n - j) - 1 = n - (j + 1)
    OBVIOUS
  <2>2. h[n - j] = g[n - j]
    BY <1>3
  <2> DEFINE k == n - j
  <2> HIDE DEF T
  <2>3. k \in 1..n /\ h[k] = g[k] /\ k - 1 = n - (j + 1)
    BY <2>1, <2>2
  <2> HIDE DEF k
  <2> QED
    BY <1>1, <2>3
<1>4. Nat \subseteq T
  <2> HIDE DEF T
  <2> QED
    BY <1>2, <1>3, SetInduction
<1>5. ASSUME NEW k \in 1..n PROVE h[k] = g[k]
  <2>1. n - k \in T /\ n - k <= n /\ n - (n - k) = k
    BY <1>4
  <2> QED
    BY <2>1
<1> HIDE DEF T
<1> QED
  BY <1>1, <1>5 DEF SamePadded

\* No MAC is the encryption of a block of the counter.
LEMMA MacApart ==
  ASSUME NEW key, NEW nonce, NonceOK(nonce), NEW len \in Nat, NEW aad, IsSeq(aad), NEW text, IsSeq(text),
         NEW key2, NEW m, NonceOK(m), NEW i \in Nat
  PROVE  CbcMac(key, B0(nonce, len, aad), aad, text) # Encrypt(key2, A(m, i))
<1> DEFINE c == MacChunks(aad, text)
           n == Len(c)
           b == B0(nonce, len, aad)
           mac == CbcMac(key, b, aad, text)
<1>1. n \in Nat
  BY MacChunksAre
<1>2. b # A(m, i) /\ Len(A(m, i)) = Block
  BY B0Is, AIs
<1>3. PICK h : Chain(key, b, c, n, h) /\ mac = h[n]
  BY <1>1, MacIs
<1> HIDE DEF c, n, b, mac
<1>4. Encrypt(key2, A(m, i)) = <<key2, A(m, i)>>
  BY DEF Encrypt
<1>5. CASE n = 0
  <2>1. mac = <<key, b>>
    BY <1>3, <1>5 DEF Chain, Encrypt
  <2>2. <<key, b>> # <<key2, A(m, i)>>
    BY <1>2, PairsTell, Zenon
  <2> QED
    BY <1>4, <2>1, <2>2 DEF mac, b
<1>6. CASE n # 0
  <2>1. n \in 1..n
    BY <1>1, <1>6
  <2> DEFINE x == Onto(h[n - 1], c[n])
  <2>2. mac = <<key, x>>
    BY <1>3, <2>1 DEF Chain, Encrypt
  <2>3. Len(x) = 2
    BY OntoIs, Pairs
  <2> HIDE DEF x
  <2>4. x # A(m, i)
    <3>1. Block # 2
      BY Widths
    <3> QED
      BY <1>2, <2>3, <3>1
  <2>5. <<key, x>> # <<key2, A(m, i)>>
    BY <2>4, PairsTell, Zenon
  <2> QED
    BY <1>4, <2>2, <2>5 DEF mac, b
<1> QED
  BY <1>5, <1>6

----------------------------------------------------------------------------
(* What a tag tells.                                                         *)

\* Two pairs of different atoms have the same XOR only when they are the same pair.
LEMMA XorPairs ==
  ASSUME NEW a, NEW b, NEW c, NEW d, a # b, a # d, Xor({a}, {b}) = Xor({c}, {d})
  PROVE  a = c /\ b = d
<1>1. a \in Xor({a}, {b}) /\ b \in Xor({a}, {b})
  BY DEF Xor
<1>2. \A x \in Xor({c}, {d}) : x = c \/ x = d
  BY DEF Xor
<1>3. a = c
  BY <1>1, <1>2
<1>4. b = d
  BY <1>1, <1>2, <1>3
<1> QED
  BY <1>3, <1>4

LEMMA XorBack == \A a, b : Xor(Xor(a, b), b) = a
BY DEF Xor

LEMMA NoiseShows == \A a, b : Xor(a, Noise) # a /\ Xor(Xor(Xor(a, b), Noise), b) # a
<1> SUFFICES ASSUME NEW a, NEW b PROVE Xor(a, Noise) # a /\ Xor(Xor(Xor(a, b), Noise), b) # a
  OBVIOUS
<1> DEFINE x == <<"noise", 1>>
<1>1. x \in Noise
  BY DEF Noise
<1> HIDE DEF x
<1> QED
  BY <1>1 DEF Xor

LEMMA AtomsTell ==
  ASSUME NEW e, NEW i, NEW f, NEW j, <<"cipher", e, i>> = <<"cipher", f, j>>
  PROVE  e = f /\ i = j
OBVIOUS

LEMMA TagIs ==
  ASSUME NEW key, NEW nonce, NEW aad, NEW text
  PROVE  /\ IsSeq(Tag(key, nonce, aad, text)) /\ Len(Tag(key, nonce, aad, text)) = TagLen
         /\ \A i \in 1..TagLen :
              Tag(key, nonce, aad, text)[i] =
                Xor({<<"cipher", CbcMac(key, B0(nonce, Len(text), aad), aad, text), i>>},
                    {<<"cipher", Encrypt(key, A(nonce, 0)), i>>})
<1> DEFINE mac == CbcMac(key, B0(nonce, Len(text), aad), aad, text)
           x(i) == {<<"cipher", mac, i>>}
           y(i) == {<<"cipher", Encrypt(key, A(nonce, 0)), i>>}
           t == Tag(key, nonce, aad, text)
<1>1. TagLen \in Nat
  BY Widths
<1>2. t = [i \in 1..TagLen |-> Xor(ByteOf(mac, i), ByteOf(Encrypt(key, A(nonce, 0)), i))]
  BY DEF Tag
<1>3. \A i : ByteOf(mac, i) = x(i) /\ ByteOf(Encrypt(key, A(nonce, 0)), i) = y(i)
  BY DEF ByteOf
<1> HIDE DEF x, y, t, mac
<1>4. \A i \in 1..TagLen : t[i] = Xor(x(i), y(i))
  BY <1>2, <1>3
<1>5. t = [i \in 1..TagLen |-> t[i]]
  BY <1>2
<1>6. IsSeq(t) /\ Len(t) = TagLen
  BY <1>1, <1>5, FunctionIsSeq
<1> QED
  BY <1>4, <1>6 DEF x, y, t, mac

\* The same byte of two tags tells that their MACs, keys and nonces are the same,
LEMMA TagsTell ==
  ASSUME NEW key, NEW nonce, NonceOK(nonce), NEW aad, IsSeq(aad), NEW text, IsSeq(text),
         NEW key2, NEW nonce2, NonceOK(nonce2), NEW aad2, IsSeq(aad2), NEW text2, IsSeq(text2),
         NEW i \in 1..TagLen, Tag(key, nonce, aad, text)[i] = Tag(key2, nonce2, aad2, text2)[i]
  PROVE  /\ CbcMac(key, B0(nonce, Len(text), aad), aad, text)
            = CbcMac(key2, B0(nonce2, Len(text2), aad2), aad2, text2)
         /\ key = key2 /\ nonce = nonce2
<1> DEFINE mac == CbcMac(key, B0(nonce, Len(text), aad), aad, text)
           mac2 == CbcMac(key2, B0(nonce2, Len(text2), aad2), aad2, text2)
           e == Encrypt(key, A(nonce, 0))
           e2 == Encrypt(key2, A(nonce2, 0))
           a == <<"cipher", mac, i>>
           b == <<"cipher", e, i>>
           c == <<"cipher", mac2, i>>
           d == <<"cipher", e2, i>>
<1>1. Tag(key, nonce, aad, text)[i] = Xor({a}, {b})
  BY TagIs
<1>2. Tag(key2, nonce2, aad2, text2)[i] = Xor({c}, {d})
  BY TagIs
<1>3. Len(text) \in Nat /\ 0 \in Nat
  BY SeqFacts
<1>4. mac # e /\ mac # e2
  BY <1>3, MacApart
<1>5. e = <<key, A(nonce, 0)>> /\ e2 = <<key2, A(nonce2, 0)>>
  BY DEF Encrypt
<1> HIDE DEF mac, mac2, e, e2
<1>6. a # b /\ a # d
  BY <1>4, AtomsTell, Zenon
<1>7. a = c => mac = mac2
  BY AtomsTell, Zenon
<1>8. b = d => e = e2
  BY AtomsTell, Zenon
<1> HIDE DEF a, b, c, d
<1>9. a = c /\ b = d
  BY <1>1, <1>2, <1>6, XorPairs
<1>10. key = key2 /\ A(nonce, 0) = A(nonce2, 0)
  BY <1>5, <1>8, <1>9, PairsTell, Zenon
<1>11. nonce = nonce2
  BY <1>3, <1>10, AApart
<1> QED
  BY <1>7, <1>9, <1>10, <1>11 DEF mac, mac2

\* and no byte of a tag is another one's of any tag.
LEMMA TagBytesApart ==
  ASSUME NEW key, NEW nonce, NonceOK(nonce), NEW aad, IsSeq(aad), NEW text, IsSeq(text),
         NEW key2, NEW nonce2, NEW aad2, NEW text2,
         NEW i \in 1..TagLen, NEW j \in 1..TagLen, i # j
  PROVE  Tag(key, nonce, aad, text)[i] # Tag(key2, nonce2, aad2, text2)[j]
<1> DEFINE mac == CbcMac(key, B0(nonce, Len(text), aad), aad, text)
           mac2 == CbcMac(key2, B0(nonce2, Len(text2), aad2), aad2, text2)
           e == Encrypt(key, A(nonce, 0))
           e2 == Encrypt(key2, A(nonce2, 0))
           a == <<"cipher", mac, i>>
           b == <<"cipher", e, i>>
           c == <<"cipher", mac2, j>>
           d == <<"cipher", e2, j>>
<1>1. Tag(key, nonce, aad, text)[i] = Xor({a}, {b})
  BY TagIs
<1>2. Tag(key2, nonce2, aad2, text2)[j] = Xor({c}, {d})
  BY TagIs
<1>3. Len(text) \in Nat /\ 0 \in Nat
  BY SeqFacts
<1>4. mac # e
  BY <1>3, MacApart
<1> HIDE DEF mac, mac2, e, e2
<1>5. a # b /\ a # c /\ a # d
  BY <1>4, AtomsTell, Zenon
<1> HIDE DEF a, b, c, d
<1>6. a \in Xor({a}, {b}) /\ a \notin Xor({c}, {d})
  BY <1>5 DEF Xor
<1> QED
  BY <1>1, <1>2, <1>6

Alike(aad, aad2) == Len(aad) = Len(aad2) /\ (aad = <<>> <=> aad2 = <<>>)

\* Texts and authenticated data of the same lengths with one MAC are the same.
LEMMA MacTells ==
  ASSUME NEW key, NEW b0, NEW aad, IsSeq(aad), NEW text, IsSeq(text),
         NEW b1, NEW aad2, IsSeq(aad2), NEW text2, IsSeq(text2),
         Len(text) = Len(text2), Alike(aad, aad2),
         CbcMac(key, b0, aad, text) = CbcMac(key, b1, aad2, text2)
  PROVE  text = text2 /\ aad = aad2
<1> DEFINE c == MacChunks(aad, text)
           d == MacChunks(aad2, text2)
           n == Len(c)
           m == Len(AadChunks(aad))
<1>1. m = Len(AadChunks(aad2)) /\ m \in Nat
  <2>1. m = Len(AadChunks(aad2))
    BY AadChunksAre DEF Alike
  <2>2. IsSeq(AadChunks(aad))
    BY AadChunksAre
  <2> QED
    BY <2>1, <2>2, SeqFacts
<1>2. n \in Nat /\ n = m + BlocksOf(Len(text)) /\ BlocksOf(Len(text)) \in Nat
  <2>1. n \in Nat /\ n = m + BlocksOf(Len(text))
    BY MacChunksAre
  <2> QED
    BY <2>1, SeqFacts, BlocksOfIs
<1>3. n = Len(d)
  <2>1. Len(d) = Len(AadChunks(aad2)) + BlocksOf(Len(text2))
    BY MacChunksAre
  <2> HIDE DEF d, n, m
  <2> QED
    BY <1>1, <1>2, <2>1
<1>4. SamePadded(c, d, n)
  <2>1. PICK h : Chain(key, b0, c, n, h) /\ CbcMac(key, b0, aad, text) = h[n]
    BY <1>2, MacIs
  <2>2. PICK g : Chain(key, b1, d, n, g) /\ CbcMac(key, b1, aad2, text2) = g[n]
    BY <1>2, <1>3, MacIs
  <2> HIDE DEF c, d, n
  <2>3. h[n] = g[n] /\ n \in Nat
    BY <1>2, <2>1, <2>2
  <2>4. Chain(key, b0, c, n, h) /\ Chain(key, b1, d, n, g)
    BY <2>1, <2>2
  <2> QED
    BY <2>3, <2>4, ChainsTell
<1>5. text = text2
  <2>1. ASSUME NEW k \in 1..BlocksOf(Len(text))
        PROVE  Padded(Chunks(text)[k]) = Padded(Chunks(text2)[k])
    <3> DEFINE j == m + k
    <3>1. j \in 1..n /\ j \in Int
      <4> HIDE DEF m, n
      <4> QED
        BY <1>1, <1>2
    <3>2. c[j] = Chunks(text)[k]
      BY <3>1, MacChunksAre
    <3>3. j = Len(AadChunks(aad2)) + k /\ k \in 1..BlocksOf(Len(text2))
      BY <1>1
    <3>4. d[j] = Chunks(text2)[k]
      <4> HIDE DEF j, n, m
      <4>1. j \in Int
        BY <3>1
      <4> QED
        BY <3>3, <4>1, MacChunkAfter
    <3> HIDE DEF j, n, c, d
    <3> QED
      BY <1>4, <3>1, <3>2, <3>4 DEF SamePadded
  <2> QED
    BY <2>1, ChunksTell
<1>6. aad = aad2
  <2>1. CASE aad = <<>>
    BY <2>1 DEF Alike
  <2>2. CASE aad # <<>>
    <3> DEFINE x == TwoBytes(Len(aad))
               s == x \o aad
               t == x \o aad2
    <3>1. IsSeq(x) /\ Len(aad) \in Nat
      BY SeqFacts, TwoBytesAre
    <3>2. AadChunks(aad) = Chunks(s) /\ AadChunks(aad2) = Chunks(t) /\ Len(aad) = Len(aad2)
      BY <2>2 DEF AadChunks, Alike
    <3> HIDE DEF x
    <3>3. IsSeq(s) /\ Len(s) = Len(x) + Len(aad)
      BY <3>1, JoinedSequence
    <3>4. IsSeq(t) /\ Len(t) = Len(x) + Len(aad2)
      BY <3>1, JoinedSequence
    <3> HIDE DEF s, t
    <3>5. Len(s) = Len(t)
      BY <3>2, <3>3, <3>4
    <3>6. m = BlocksOf(Len(s))
      BY <3>2, <3>3, ChunksAre
    <3>7. ASSUME NEW k \in 1..BlocksOf(Len(s)) PROVE Padded(Chunks(s)[k]) = Padded(Chunks(t)[k])
      <4>1. k \in 1..n /\ k \in 1..m
        <5> HIDE DEF m, n
        <5> QED
          BY <1>1, <1>2, <3>6
      <4>2. c[k] = Chunks(s)[k]
        BY <3>2, <4>1, MacChunkBefore
      <4>3. k \in 1..Len(AadChunks(aad2))
        BY <1>1, <4>1
      <4>4. d[k] = Chunks(t)[k]
        BY <3>2, <4>3, MacChunkBefore
      <4> HIDE DEF n, c, d
      <4> QED
        BY <1>4, <4>1, <4>2, <4>4 DEF SamePadded
    <3>8. s = t
      BY <3>3, <3>4, <3>5, <3>7, ChunksTell
    <3>9. x \o aad = x \o aad2
      BY <3>8 DEF s, t
    <3>10. IsSeq(x)
      BY <3>1
    <3> QED
      BY <3>9, <3>10, RestEqual
  <2> QED
    BY <2>1, <2>2
<1> QED
  BY <1>5, <1>6

----------------------------------------------------------------------------
(* Opening what was sealed.                                                  *)

StreamByte(key, nonce, i) ==
  ByteOf(Encrypt(key, A(nonce, ((i - 1) \div Block) + 1)), ((i - 1) % Block) + 1)

LEMMA CtrXorIs ==
  ASSUME NEW key, NEW nonce, NEW text, IsSeq(text)
  PROVE  /\ IsSeq(CtrXor(key, nonce, text)) /\ Len(CtrXor(key, nonce, text)) = Len(text)
         /\ \A i \in 1..Len(text) : CtrXor(key, nonce, text)[i] = Xor(text[i], StreamByte(key, nonce, i))
<1> DEFINE b == CcmBlocks(nonce, text)
<1>1. CtrXor(key, nonce, text) = UnderStream(key, b, text)
  BY DEF CtrXor
<1>2. Len(text) \in Nat
  BY SeqFacts
<1>3. ASSUME NEW i \in 1..Len(text)
      PROVE  UnderStream(key, b, text)[i] = Xor(text[i], StreamByte(key, nonce, i))
  <2> DEFINE q == ((i - 1) \div Block) + 1
  <2>1. UnderStream(key, b, text)[i] = Xor(text[i], ByteOf(Encrypt(key, b[q]), ((i - 1) % Block) + 1))
    BY UnderStreamIs
  <2>2. q \in 1..BlocksOf(Len(text))
    BY <1>2, BlocksOfIs
  <2>3. StreamByte(key, nonce, i) = ByteOf(Encrypt(key, A(nonce, q)), ((i - 1) % Block) + 1)
    BY DEF StreamByte
  <2> HIDE DEF q
  <2>4. b[q] = A(nonce, q)
    BY <2>2, CcmBlocksAre
  <2> QED
    BY <2>1, <2>3, <2>4
<1>4. IsSeq(UnderStream(key, b, text)) /\ Len(UnderStream(key, b, text)) = Len(text)
  BY UnderStreamIs
<1> QED
  BY <1>1, <1>3, <1>4

\* A sealed body: the text under its keystream, and the tag.
SealedBody(b, key, nonce, aad, text, len) ==
  /\ IsSeq(b) /\ IsSeq(text) /\ IsSeq(aad) /\ NonceOK(nonce)
  /\ len \in Nat /\ Len(text) = len /\ Len(b) = len + TagLen
  /\ \A i \in 1..len : b[i] = Xor(text[i], StreamByte(key, nonce, i))
  /\ \A i \in 1..TagLen, j \in Int : j = len + i => b[j] = Tag(key, nonce, aad, text)[i]

LEMMA CcmEncryptIs ==
  ASSUME NEW key, NEW nonce, NonceOK(nonce), NEW aad, IsSeq(aad), NEW text, IsSeq(text)
  PROVE  SealedBody(CcmEncrypt(key, nonce, aad, text), key, nonce, aad, text, Len(text))
<1> DEFINE s == CtrXor(key, nonce, text)
           t == Tag(key, nonce, aad, text)
           len == Len(text)
<1>1. IsSeq(s) /\ Len(s) = len /\ len \in Nat
  BY CtrXorIs, SeqFacts
<1>2. \A i \in 1..len : s[i] = Xor(text[i], StreamByte(key, nonce, i))
  BY CtrXorIs
<1>3. IsSeq(t) /\ Len(t) = TagLen
  BY TagIs
<1>4. CcmEncrypt(key, nonce, aad, text) = s \o t
  BY DEF CcmEncrypt
<1> HIDE DEF s, t, len
<1>5. IsSeq(s \o t) /\ Len(s \o t) = Len(s) + Len(t)
  BY <1>1, <1>3, JoinedSequence
<1>6. ASSUME NEW i \in 1..len PROVE (s \o t)[i] = Xor(text[i], StreamByte(key, nonce, i))
  <2>1. i \in 1..Len(s) /\ IsSeq(s) /\ IsSeq(t)
    BY <1>1, <1>3
  <2>2. (s \o t)[i] = s[i]
    BY <2>1, JoinedSequence
  <2> QED
    BY <1>2, <2>2
<1>7. ASSUME NEW i \in 1..TagLen, NEW j \in Int, j = len + i PROVE (s \o t)[j] = t[i]
  <2>1. i \in 1..Len(t) /\ IsSeq(s) /\ IsSeq(t) /\ j = Len(s) + i
    BY <1>1, <1>3, <1>7
  <2> QED
    BY <2>1, JoinedSecond
<1>8. SealedBody(s \o t, key, nonce, aad, text, len)
  <2>1. Len(text) = len
    BY DEF len
  <2>2. \A i \in 1..TagLen, j \in Int : j = len + i => (s \o t)[j] = Tag(key, nonce, aad, text)[i]
    BY <1>7 DEF t
  <2> QED
    BY <1>1, <1>3, <1>5, <1>6, <2>1, <2>2 DEF SealedBody
<1> QED
  BY <1>4, <1>8 DEF len

Plain(key, nonce, buf, len) == CtrXor(key, nonce, SubSeq(buf, 1, len))

LEMMA PlainIs ==
  ASSUME NEW key, NEW nonce, NEW buf, IsSeq(buf), NEW len \in Nat, len <= Len(buf)
  PROVE  /\ IsSeq(Plain(key, nonce, buf, len)) /\ Len(Plain(key, nonce, buf, len)) = len
         /\ \A i \in 1..len : Plain(key, nonce, buf, len)[i] = Xor(buf[i], StreamByte(key, nonce, i))
<1> DEFINE s == SubSeq(buf, 1, len)
<1>1. len \in 0..Len(buf)
  BY SeqFacts
<1>2. /\ IsSeq(s) /\ Len(s) = len
      /\ \A i \in 1..len : s[i] = buf[i]
  BY <1>1, Prefix
<1>3. Plain(key, nonce, buf, len) = CtrXor(key, nonce, s)
  BY DEF Plain
<1> HIDE DEF s
<1>4. IsSeq(CtrXor(key, nonce, s)) /\ Len(CtrXor(key, nonce, s)) = Len(s)
  BY <1>2, CtrXorIs
<1>5. ASSUME NEW i \in 1..len PROVE CtrXor(key, nonce, s)[i] = Xor(buf[i], StreamByte(key, nonce, i))
  <2>1. i \in 1..Len(s) /\ IsSeq(s) /\ s[i] = buf[i]
    BY <1>2
  <2>2. CtrXor(key, nonce, s)[i] = Xor(s[i], StreamByte(key, nonce, i))
    BY <2>1, CtrXorIs
  <2> QED
    BY <2>1, <2>2
<1> QED
  BY <1>2, <1>3, <1>4, <1>5

LEMMA DecryptIs ==
  ASSUME NEW key, NEW nonce, NEW aad, NEW buf, NEW len \in Nat, Len(buf) \in Nat, Len(buf) = len + TagLen
  PROVE  CcmDecrypt(key, nonce, aad, buf) =
           IF Tag(key, nonce, aad, Plain(key, nonce, buf, len)) # SubSeq(buf, len + 1, Len(buf))
           THEN [ok |-> FALSE, error |-> "Unauthentic"]
           ELSE [ok |-> TRUE, text |-> Plain(key, nonce, buf, len)]
<1> DEFINE x == Len(buf) - TagLen
<1>1. x = len /\ ~(x < 0)
  BY Widths
<1>2. CcmDecrypt(key, nonce, aad, buf) =
        IF x < 0 THEN [ok |-> FALSE, error |-> "TooShort"]
        ELSE IF Tag(key, nonce, aad, CtrXor(key, nonce, SubSeq(buf, 1, x))) # SubSeq(buf, x + 1, Len(buf))
        THEN [ok |-> FALSE, error |-> "Unauthentic"]
        ELSE [ok |-> TRUE, text |-> CtrXor(key, nonce, SubSeq(buf, 1, x))]
  BY DEF CcmDecrypt
<1>3. CcmDecrypt(key, nonce, aad, buf) =
        IF Tag(key, nonce, aad, CtrXor(key, nonce, SubSeq(buf, 1, x))) # SubSeq(buf, x + 1, Len(buf))
        THEN [ok |-> FALSE, error |-> "Unauthentic"]
        ELSE [ok |-> TRUE, text |-> CtrXor(key, nonce, SubSeq(buf, 1, x))]
  <2> HIDE DEF x
  <2> QED
    BY <1>1, <1>2
<1> HIDE DEF x
<1> QED
  BY <1>1, <1>3 DEF Plain

\* A body whose last bytes are not the tag of what it opens to is refused,
LEMMA WrongTagRefused ==
  ASSUME NEW key, NEW nonce, NEW aad, NEW buf, IsSeq(buf), NEW len \in Nat, Len(buf) = len + TagLen,
         NEW i \in 1..TagLen, Tag(key, nonce, aad, Plain(key, nonce, buf, len))[i] # buf[len + i]
  PROVE  ~CcmDecrypt(key, nonce, aad, buf).ok
<1> DEFINE t == Tag(key, nonce, aad, Plain(key, nonce, buf, len))
           s == SubSeq(buf, len + 1, Len(buf))
<1>1. Len(buf) \in Nat /\ TagLen \in Nat
  BY SeqFacts, Widths
<1>2. CcmDecrypt(key, nonce, aad, buf) =
        IF t # s THEN [ok |-> FALSE, error |-> "Unauthentic"]
        ELSE [ok |-> TRUE, text |-> Plain(key, nonce, buf, len)]
  BY <1>1, DecryptIs
<1>3. s[i] = buf[len + i]
  <2> DEFINE n == Len(buf)
  <2>1. n \in Nat /\ len <= n /\ n <= Len(buf) /\ n - len = TagLen
    BY <1>1
  <2>2. s = SubSeq(buf, len + 1, n)
    OBVIOUS
  <2> HIDE DEF n, s
  <2>3. \A j \in 1..(n - len) : SubSeq(buf, len + 1, n)[j] = buf[len + j]
    BY <2>1, Part
  <2> QED
    BY <2>1, <2>2, <2>3
<1>4. t # s
  BY <1>3
<1> HIDE DEF t, s
<1> QED
  BY <1>2, <1>4

\* and so is one with no room for a tag.
LEMMA TooShortRefused ==
  ASSUME NEW key, NEW nonce, NEW aad, NEW buf, Len(buf) \in Nat, Len(buf) < TagLen
  PROVE  ~CcmDecrypt(key, nonce, aad, buf).ok
<1> DEFINE x == Len(buf) - TagLen
<1>1. x < 0
  BY Widths
<1>2. CcmDecrypt(key, nonce, aad, buf) =
        IF x < 0 THEN [ok |-> FALSE, error |-> "TooShort"]
        ELSE IF Tag(key, nonce, aad, CtrXor(key, nonce, SubSeq(buf, 1, x))) # SubSeq(buf, x + 1, Len(buf))
        THEN [ok |-> FALSE, error |-> "Unauthentic"]
        ELSE [ok |-> TRUE, text |-> CtrXor(key, nonce, SubSeq(buf, 1, x))]
  BY DEF CcmDecrypt
<1>3. CcmDecrypt(key, nonce, aad, buf) = [ok |-> FALSE, error |-> "TooShort"]
  <2> HIDE DEF x
  <2> QED
    BY <1>1, <1>2
<1> QED
  BY <1>3

\* The text bytes of a body are those of the text when they are as sealed.
LEMMA SealedPlain ==
  ASSUME NEW b, NEW key, NEW nonce, NEW aad, NEW text, NEW len, SealedBody(b, key, nonce, aad, text, len),
         NEW buf, IsSeq(buf), NEW n \in Nat, n <= Len(buf), NEW i \in 1..n, i <= len, buf[i] = b[i]
  PROVE  Plain(key, nonce, buf, n)[i] = text[i]
<1>1. i \in 1..len
  BY DEF SealedBody
<1>2. b[i] = Xor(text[i], StreamByte(key, nonce, i))
  BY <1>1 DEF SealedBody
<1>3. Plain(key, nonce, buf, n)[i] = Xor(buf[i], StreamByte(key, nonce, i))
  BY PlainIs
<1> QED
  BY <1>2, <1>3, XorBack

LEMMA SealedOpens ==
  ASSUME NEW b, NEW key, NEW nonce, NEW aad, NEW text, NEW len, SealedBody(b, key, nonce, aad, text, len)
  PROVE  CcmDecrypt(key, nonce, aad, b) = [ok |-> TRUE, text |-> text]
<1> DEFINE p == Plain(key, nonce, b, len)
           t == Tag(key, nonce, aad, text)
           s == SubSeq(b, len + 1, Len(b))
<1>1. /\ IsSeq(b) /\ IsSeq(text) /\ len \in Nat /\ Len(text) = len /\ Len(b) = len + TagLen
      /\ Len(b) \in Nat /\ TagLen \in Nat /\ len <= Len(b)
  BY SeqFacts, Widths DEF SealedBody
<1>2. p = text
  <2>1. IsSeq(p) /\ Len(p) = len
    BY <1>1, PlainIs
  <2>2. ASSUME NEW i \in 1..len PROVE p[i] = text[i]
    <3>1. i <= len /\ b[i] = b[i] /\ IsSeq(b) /\ len \in Nat /\ len <= Len(b)
      BY <1>1
    <3> QED
      BY <3>1, SealedPlain
  <2> HIDE DEF p
  <2> QED
    BY <1>1, <2>1, <2>2, SameSequence
<1>3. t = s
  <2> DEFINE n == Len(b)
  <2>1. n \in Nat /\ len <= n /\ n <= Len(b) /\ n - len = TagLen
    BY <1>1
  <2>2. s = SubSeq(b, len + 1, n)
    OBVIOUS
  <2>3. IsSeq(t) /\ Len(t) = TagLen
    BY TagIs
  <2> HIDE DEF n
  <2>4. IsSeq(s) /\ Len(s) = TagLen
    <3>1. IsSeq(SubSeq(b, len + 1, n)) /\ Len(SubSeq(b, len + 1, n)) = n - len
      BY <1>1, <2>1, Part
    <3> HIDE DEF s
    <3> QED
      BY <2>1, <2>2, <3>1
  <2>5. \A j \in 1..(n - len) : SubSeq(b, len + 1, n)[j] = b[len + j]
    BY <1>1, <2>1, Part
  <2> HIDE DEF s, t
  <2>6. ASSUME NEW i \in 1..TagLen PROVE t[i] = s[i]
    <3>1. len + i \in Int
      BY <1>1
    <3>2. b[len + i] = t[i]
      BY <3>1 DEF SealedBody, t
    <3> QED
      BY <2>1, <2>2, <2>5, <3>2
  <2> QED
    BY <2>3, <2>4, <2>6, SameSequence
<1>4. CcmDecrypt(key, nonce, aad, b) =
        IF Tag(key, nonce, aad, p) # s THEN [ok |-> FALSE, error |-> "Unauthentic"]
        ELSE [ok |-> TRUE, text |-> p]
  <2>1. Len(b) \in Nat /\ Len(b) = len + TagLen /\ len \in Nat
    BY <1>1
  <2> QED
    BY <2>1, DecryptIs
<1> HIDE DEF p, s
<1>5. Tag(key, nonce, aad, p) = s
  BY <1>2, <1>3
<1> QED
  BY <1>2, <1>4, <1>5

----------------------------------------------------------------------------
(* Opening what was altered.                                                 *)

LEMMA FlippedByteRefused ==
  ASSUME NEW b, NEW key, NEW nonce, NEW aad, NEW text, NEW len, SealedBody(b, key, nonce, aad, text, len),
         NEW i \in 1..Len(b), NEW buf, buf = [b EXCEPT ![i] = Xor(b[i], Noise)]
  PROVE  ~CcmDecrypt(key, nonce, aad, buf).ok
<1> DEFINE p == Plain(key, nonce, buf, len)
           t == Tag(key, nonce, aad, text)
<1>1. /\ IsSeq(b) /\ IsSeq(text) /\ IsSeq(aad) /\ NonceOK(nonce) /\ len \in Nat /\ Len(text) = len
      /\ Len(b) = len + TagLen /\ Len(b) \in Nat /\ TagLen \in Nat /\ TagLen >= 4 /\ len <= Len(b)
  BY SeqFacts, Widths DEF SealedBody
<1>2. IsSeq(buf) /\ Len(buf) = Len(b) /\ buf[i] = Xor(b[i], Noise)
      /\ \A j \in 1..Len(b) : j # i => buf[j] = b[j]
  <2>1. DOMAIN b = 1..Len(b)
    BY <1>1, SeqFacts
  <2>2. PICK S : b \in Seq(S)
    BY <1>1 DEF IsSeq
  <2>3. b = [j \in 1..Len(b) |-> b[j]]
    BY <2>2
  <2>4. buf = [j \in 1..Len(b) |-> IF j = i THEN Xor(b[i], Noise) ELSE b[j]]
    BY <2>3
  <2>5. buf = [j \in 1..Len(b) |-> buf[j]]
    BY <2>4
  <2>6. IsSeq(buf) /\ Len(buf) = Len(b)
    BY <1>1, <2>5, FunctionIsSeq
  <2> QED
    BY <2>4, <2>6
<1>3. IsSeq(p) /\ Len(p) = len
  <2>1. IsSeq(buf) /\ len <= Len(buf) /\ len \in Nat
    BY <1>1, <1>2
  <2> QED
    BY <2>1, PlainIs
<1>4. \A k \in 1..TagLen, j \in Int : j = len + k => b[j] = t[k]
  BY DEF SealedBody
<1>5. CASE i \in 1..len
  <2>1. p # text
    <3>1. b[i] = Xor(text[i], StreamByte(key, nonce, i))
      BY <1>5 DEF SealedBody
    <3>2. p[i] = Xor(buf[i], StreamByte(key, nonce, i))
      <4>1. IsSeq(buf) /\ len <= Len(buf) /\ len \in Nat
        BY <1>1, <1>2
      <4> QED
        BY <1>5, <4>1, PlainIs
    <3>3. p[i] = Xor(Xor(Xor(text[i], StreamByte(key, nonce, i)), Noise), StreamByte(key, nonce, i))
      BY <1>2, <3>1, <3>2
    <3>4. p[i] # text[i]
      BY <3>3, NoiseShows
    <3> QED
      BY <3>4
  <2>2. 1 \in 1..TagLen /\ len + 1 \in Int /\ len + 1 \in 1..Len(b) /\ len + 1 # i
    BY <1>1, <1>5
  <2>3. buf[len + 1] = t[1]
    BY <1>2, <1>4, <2>2
  <2>4. Tag(key, nonce, aad, p)[1] # t[1]
    <3> SUFFICES ASSUME Tag(key, nonce, aad, p)[1] = Tag(key, nonce, aad, text)[1] PROVE FALSE
      OBVIOUS
    <3> HIDE DEF p
    <3>1. IsSeq(p) /\ IsSeq(text) /\ IsSeq(aad) /\ NonceOK(nonce) /\ 1 \in 1..TagLen
      BY <1>1, <1>3, <2>2
    <3> DEFINE b0 == B0(nonce, Len(p), aad)
               b1 == B0(nonce, Len(text), aad)
    <3>2. CbcMac(key, b0, aad, p) = CbcMac(key, b1, aad, text)
      BY <3>1, TagsTell
    <3> HIDE DEF b0, b1
    <3>3. Len(p) = Len(text) /\ Alike(aad, aad)
      BY <1>1, <1>3 DEF Alike
    <3>4. p = text
      BY <3>1, <3>2, <3>3, MacTells
    <3> QED
      BY <2>1, <3>4
  <2> HIDE DEF t
  <2>5. Tag(key, nonce, aad, p)[1] # buf[len + 1]
    BY <2>3, <2>4
  <2>6. IsSeq(buf) /\ len \in Nat /\ Len(buf) = len + TagLen
    BY <1>1, <1>2
  <2> QED
    BY <2>2, <2>5, <2>6, WrongTagRefused
<1>6. CASE i \notin 1..len
  <2>1. PICK k \in 1..TagLen : i = len + k
    <3>1. i - len \in 1..TagLen /\ i = len + (i - len)
      BY <1>1, <1>6
    <3> QED
      BY <3>1
  <2>2. b[i] = t[k]
    BY <1>1, <1>4, <2>1
  <2>3. buf[len + k] = Xor(t[k], Noise)
    BY <1>2, <2>1, <2>2
  <2>4. p = text
    <3>1. IsSeq(buf) /\ len <= Len(buf) /\ len \in Nat
      BY <1>1, <1>2
    <3>2. ASSUME NEW j \in 1..len PROVE p[j] = text[j]
      <4>1. j \in 1..Len(b) /\ j # i /\ j <= len
        BY <1>1, <1>6
      <4>2. buf[j] = b[j]
        BY <1>2, <4>1
      <4>3. p[j] = Xor(buf[j], StreamByte(key, nonce, j))
        BY <3>1, PlainIs
      <4>4. b[j] = Xor(text[j], StreamByte(key, nonce, j))
        BY DEF SealedBody
      <4> HIDE DEF p
      <4>5. p[j] = Xor(Xor(text[j], StreamByte(key, nonce, j)), StreamByte(key, nonce, j))
        BY <4>2, <4>3, <4>4
      <4> QED
        BY <4>5, XorBack, Zenon
    <3> HIDE DEF p
    <3>3. IsSeq(p) /\ IsSeq(text) /\ Len(p) = len /\ Len(text) = len
      BY <1>1, <1>3
    <3> QED
      BY <3>2, <3>3, SameSequence
  <2>5. Tag(key, nonce, aad, p)[k] # buf[len + k]
    <3>1. Tag(key, nonce, aad, p)[k] = t[k]
      BY <2>4
    <3> HIDE DEF t, p
    <3> QED
      BY <2>3, <3>1, NoiseShows
  <2>6. IsSeq(buf) /\ len \in Nat /\ Len(buf) = len + TagLen
    BY <1>1, <1>2
  <2> QED
    BY <2>1, <2>5, <2>6, WrongTagRefused
<1> QED
  BY <1>5, <1>6

LEMMA ShortenedRefused ==
  ASSUME NEW b, NEW key, NEW nonce, NEW aad, NEW text, NEW len, SealedBody(b, key, nonce, aad, text, len),
         NEW n \in Nat, n < TagLen \/ n = Len(b) - 1, NEW buf, buf = SubSeq(b, 1, n), n <= Len(b)
  PROVE  ~CcmDecrypt(key, nonce, aad, buf).ok
<1>1. /\ IsSeq(b) /\ IsSeq(text) /\ IsSeq(aad) /\ NonceOK(nonce) /\ len \in Nat /\ Len(text) = len
      /\ Len(b) = len + TagLen /\ Len(b) \in Nat /\ TagLen \in Nat /\ TagLen >= 4 /\ len <= Len(b)
  BY SeqFacts, Widths DEF SealedBody
<1>2. /\ IsSeq(buf) /\ Len(buf) = n
      /\ \A j \in 1..n : buf[j] = b[j]
  <2>1. n \in 0..Len(b)
    BY <1>1
  <2>2. /\ IsSeq(SubSeq(b, 1, n)) /\ Len(SubSeq(b, 1, n)) = n
        /\ \A j \in 1..n : SubSeq(b, 1, n)[j] = b[j]
    BY <1>1, <2>1, Prefix
  <2> QED
    BY <2>2
<1>3. CASE n < TagLen
  BY <1>2, <1>3, TooShortRefused
<1>4. CASE ~(n < TagLen)
  <2>1. PICK l \in Nat : len = l + 1 /\ n = l + TagLen
    <3>1. n = Len(b) - 1
      BY <1>4
    <3>2. len - 1 \in Nat /\ len = (len - 1) + 1 /\ n = (len - 1) + TagLen
      BY <1>1, <1>4, <3>1
    <3> QED
      BY <3>2
  <2> DEFINE p == Plain(key, nonce, buf, l)
  <2>2. IsSeq(p)
    <3>1. IsSeq(buf) /\ l <= Len(buf)
      BY <1>1, <1>2, <2>1
    <3> QED
      BY <3>1, PlainIs
  <2>3. buf[l + 2] = Tag(key, nonce, aad, text)[1]
    <3>1. l + 2 \in 1..n /\ 1 \in 1..TagLen /\ l + 2 \in Int /\ l + 2 = len + 1
      BY <1>1, <2>1
    <3>2. b[l + 2] = Tag(key, nonce, aad, text)[1]
      BY <3>1 DEF SealedBody
    <3> QED
      BY <1>2, <3>1, <3>2
  <2> HIDE DEF p
  <2>4. 1 \in 1..TagLen /\ 2 \in 1..TagLen /\ 2 # 1
    BY <1>1
  <2>5. Tag(key, nonce, aad, p)[2] # Tag(key, nonce, aad, text)[1]
    BY <1>1, <2>2, <2>4, TagBytesApart
  <2>6. Tag(key, nonce, aad, p)[2] # buf[l + 2]
    BY <2>3, <2>5
  <2>7. IsSeq(buf) /\ Len(buf) = l + TagLen
    BY <1>2, <2>1
  <2> QED
    BY <2>4, <2>6, <2>7, WrongTagRefused DEF p
<1> QED
  BY <1>3, <1>4

LEMMA LengthenedRefused ==
  ASSUME NEW b, NEW key, NEW nonce, NEW aad, NEW text, NEW len, SealedBody(b, key, nonce, aad, text, len),
         NEW x, NEW buf, buf = Append(b, x)
  PROVE  ~CcmDecrypt(key, nonce, aad, buf).ok
<1>1. /\ IsSeq(b) /\ IsSeq(text) /\ IsSeq(aad) /\ NonceOK(nonce) /\ len \in Nat /\ Len(text) = len
      /\ Len(b) = len + TagLen /\ Len(b) \in Nat /\ TagLen \in Nat /\ TagLen >= 4 /\ len <= Len(b)
  BY SeqFacts, Widths DEF SealedBody
<1>2. IsSeq(buf) /\ Len(buf) = Len(b) + 1
  BY <1>1, Appended
<1>3. \A j \in 1..Len(b) : buf[j] = b[j]
  <2>1. \A j \in 1..Len(b) : Append(b, x)[j] = b[j]
    BY <1>1, Appended
  <2> QED
    BY <2>1
<1> DEFINE l == len + 1
           p == Plain(key, nonce, buf, l)
<1>4. l \in Nat /\ l <= Len(buf) /\ Len(buf) = l + TagLen /\ l + 1 = len + 2
  BY <1>1, <1>2
<1> HIDE DEF l
<1>5. IsSeq(p)
  BY <1>2, <1>4, PlainIs
<1> HIDE DEF p
<1>6. 1 \in 1..TagLen /\ 2 \in 1..TagLen /\ 1 # 2
  BY <1>1
<1>7. buf[l + 1] = Tag(key, nonce, aad, text)[2]
  <2>1. len + 2 \in 1..Len(b) /\ len + 2 \in Int
    BY <1>1
  <2>2. b[len + 2] = Tag(key, nonce, aad, text)[2]
    BY <1>6, <2>1 DEF SealedBody
  <2> QED
    BY <1>3, <1>4, <2>1, <2>2
<1>8. Tag(key, nonce, aad, p)[1] # Tag(key, nonce, aad, text)[2]
  BY <1>1, <1>5, <1>6, TagBytesApart
<1>9. Tag(key, nonce, aad, p)[1] # buf[l + 1]
  BY <1>7, <1>8
<1> QED
  BY <1>2, <1>4, <1>6, <1>9, WrongTagRefused DEF p

SameTagByte(key, nonce, aad, text, key2, nonce2, aad2, text2, i) ==
  /\ NonceOK(nonce) /\ IsSeq(aad) /\ IsSeq(text) /\ NonceOK(nonce2) /\ IsSeq(aad2) /\ IsSeq(text2)
  /\ Len(text) = Len(text2) /\ Alike(aad, aad2)
  /\ i \in 1..TagLen /\ Tag(key, nonce, aad, text)[i] = Tag(key2, nonce2, aad2, text2)[i]

LEMMA TagsTellAll ==
  ASSUME NEW key, NEW nonce, NEW aad, NEW text, NEW key2, NEW nonce2, NEW aad2, NEW text2, NEW i,
         SameTagByte(key, nonce, aad, text, key2, nonce2, aad2, text2, i)
  PROVE  key = key2 /\ nonce = nonce2 /\ aad = aad2
<1>0. /\ NonceOK(nonce) /\ IsSeq(aad) /\ IsSeq(text) /\ NonceOK(nonce2) /\ IsSeq(aad2) /\ IsSeq(text2)
      /\ Len(text) = Len(text2) /\ Alike(aad, aad2)
      /\ i \in 1..TagLen /\ Tag(key, nonce, aad, text)[i] = Tag(key2, nonce2, aad2, text2)[i]
  BY DEF SameTagByte
<1>1. key = key2 /\ nonce = nonce2
  BY <1>0, TagsTell
<1> DEFINE b0 == B0(nonce, Len(text), aad)
           b1 == B0(nonce2, Len(text2), aad2)
<1>2. CbcMac(key, b0, aad, text) = CbcMac(key2, b1, aad2, text2)
  BY <1>0, TagsTell
<1> HIDE DEF b0, b1
<1>3. CbcMac(key, b0, aad, text) = CbcMac(key, b1, aad2, text2)
  BY <1>1, <1>2
<1>4. aad = aad2
  BY <1>0, <1>3, MacTells
<1> QED
  BY <1>1, <1>4

\* With another key, nonce or other authenticated data of the same length.
LEMMA OtherRefused ==
  ASSUME NEW b, NEW key, NEW nonce, NEW aad, NEW text, NEW len, SealedBody(b, key, nonce, aad, text, len),
         NEW key2, NEW nonce2, NonceOK(nonce2), NEW aad2, IsSeq(aad2),
         Alike(aad, aad2), ~(key = key2 /\ nonce = nonce2 /\ aad = aad2)
  PROVE  ~CcmDecrypt(key2, nonce2, aad2, b).ok
<1> DEFINE p == Plain(key2, nonce2, b, len)
<1>1. /\ IsSeq(b) /\ IsSeq(text) /\ IsSeq(aad) /\ NonceOK(nonce) /\ len \in Nat /\ Len(text) = len
      /\ Len(b) = len + TagLen /\ Len(b) \in Nat /\ TagLen \in Nat /\ TagLen >= 4 /\ len <= Len(b)
  BY SeqFacts, Widths DEF SealedBody
<1>2. IsSeq(p) /\ Len(p) = len
  BY <1>1, PlainIs
<1> HIDE DEF p
<1>3. PICK i \in 1..TagLen : len + i \in Int
  <2>1. 1 \in 1..TagLen /\ len + 1 \in Int
    BY <1>1
  <2> QED
    BY <2>1
<1>4. b[len + i] = Tag(key, nonce, aad, text)[i]
  BY <1>3 DEF SealedBody
<1>5. Tag(key2, nonce2, aad2, p)[i] # Tag(key, nonce, aad, text)[i]
  <2> SUFFICES ASSUME Tag(key, nonce, aad, text)[i] = Tag(key2, nonce2, aad2, p)[i] PROVE FALSE
    OBVIOUS
  <2>1. SameTagByte(key, nonce, aad, text, key2, nonce2, aad2, p, i)
    BY <1>1, <1>2 DEF SameTagByte
  <2>2. key = key2 /\ nonce = nonce2 /\ aad = aad2
    BY <2>1, TagsTellAll
  <2> QED
    BY <2>2
<1>6. Tag(key2, nonce2, aad2, p)[i] # b[len + i]
  BY <1>4, <1>5
<1> QED
  BY <1>1, <1>3, <1>6, WrongTagRefused DEF p

----------------------------------------------------------------------------
(* What arrives.                                                             *)

\* A frame as it is sent, and what opening it takes.
LEMMA RecIs ==
  ASSUME NEW kind, NEW key, NEW packet, NEW extra, NEW rest, NEW body,
         NEW f, f = Rec(kind, key, packet, extra, rest, body)
  PROVE  /\ f.kind = kind /\ f.key = key /\ f.packet = packet /\ f.extra = extra /\ f.rest = rest /\ f.body = body
BY DEF Rec

LEMMA RecExcept ==
  ASSUME NEW g, IsRec(g), NEW x
  PROVE  /\ [g EXCEPT !.body = x] = Rec(g.kind, g.key, g.packet, g.extra, g.rest, x)
         /\ [g EXCEPT !.rest = x] = Rec(g.kind, g.key, g.packet, g.extra, x, g.body)
         /\ [g EXCEPT !.packet = x] = Rec(g.kind, g.key, x, g.extra, g.rest, g.body)
         /\ [g EXCEPT !.extra = x] = Rec(g.kind, g.key, g.packet, x, g.rest, g.body)
         /\ [g EXCEPT !.key = x] = Rec(g.kind, x, g.packet, g.extra, g.rest, g.body)
BY DEF IsRec, Rec

FlippedBody(f, g) == \E i \in 1..Len(g.body) : f = Rec(g.kind, g.key, g.packet, g.extra, g.rest,
                                                       [g.body EXCEPT ![i] = Xor(g.body[i], Noise)])
ShortBody(f, g) == \E n \in {TagLen - 1, Len(g.body) - 1} \cap (0..Len(g.body)) :
                     f = Rec(g.kind, g.key, g.packet, g.extra, g.rest, SubSeq(g.body, 1, n))
LongBody(f, g) == \E b : f = Rec(g.kind, g.key, g.packet, g.extra, g.rest, Append(g.body, b))
OtherRest(f, g) == \E i \in 1..Len(g.rest) : f = Rec(g.kind, g.key, g.packet, g.extra,
                                                     [g.rest EXCEPT ![i] = Xor(g.rest[i], Noise)], g.body)
OtherPacket(f, g) == \E p \in Packets : f = Rec(g.kind, g.key, p, g.extra, g.rest, g.body)
OtherExtra(f, g) == \E e \in Epochs : f = Rec(g.kind, g.key, g.packet, e, g.rest, g.body)
OtherKey(f, g) == f = Rec(g.kind, [g.key EXCEPT ![2] = 1], g.packet, g.extra, g.rest, g.body)

LEMMA ArrivalIs ==
  ASSUME NEW g, IsRec(g), NEW f \in Arrivals(g)
  PROVE  \/ f = g \/ FlippedBody(f, g) \/ ShortBody(f, g) \/ LongBody(f, g)
         \/ OtherRest(f, g) \/ OtherPacket(f, g) \/ OtherExtra(f, g) \/ OtherKey(f, g)
<1>1. ASSUME NEW i \in 1..Len(g.body), f = [g EXCEPT !.body[i] = Xor(@, Noise)] PROVE FlippedBody(f, g)
  <2>1. f = [g EXCEPT !.body = [g.body EXCEPT ![i] = Xor(g.body[i], Noise)]]
    BY <1>1
  <2> DEFINE x == [g.body EXCEPT ![i] = Xor(g.body[i], Noise)]
  <2>2. f = [g EXCEPT !.body = x]
    BY <2>1
  <2> HIDE DEF x
  <2>3. f = Rec(g.kind, g.key, g.packet, g.extra, g.rest, x)
    BY <2>2, RecExcept
  <2> QED
    BY <2>3 DEF FlippedBody, x
<1>2. ASSUME NEW n \in {TagLen - 1, Len(g.body) - 1} \cap (0..Len(g.body)),
             f = [g EXCEPT !.body = SubSeq(@, 1, n)]
      PROVE  ShortBody(f, g)
  <2> DEFINE x == SubSeq(g.body, 1, n)
  <2>1. f = [g EXCEPT !.body = x]
    BY <1>2
  <2> HIDE DEF x
  <2>2. f = Rec(g.kind, g.key, g.packet, g.extra, g.rest, x)
    BY <2>1, RecExcept
  <2> QED
    BY <2>2 DEF ShortBody, x
<1>3. ASSUME NEW b, f = [g EXCEPT !.body = Append(@, b)] PROVE LongBody(f, g)
  <2> DEFINE x == Append(g.body, b)
  <2>1. f = [g EXCEPT !.body = x]
    BY <1>3
  <2> HIDE DEF x
  <2>2. f = Rec(g.kind, g.key, g.packet, g.extra, g.rest, x)
    BY <2>1, RecExcept
  <2> QED
    BY <2>2 DEF LongBody, x
<1>4. ASSUME NEW i \in 1..Len(g.rest), f = [g EXCEPT !.rest[i] = Xor(@, Noise)] PROVE OtherRest(f, g)
  <2>1. f = [g EXCEPT !.rest = [g.rest EXCEPT ![i] = Xor(g.rest[i], Noise)]]
    BY <1>4
  <2> DEFINE x == [g.rest EXCEPT ![i] = Xor(g.rest[i], Noise)]
  <2>2. f = [g EXCEPT !.rest = x]
    BY <2>1
  <2> HIDE DEF x
  <2>3. f = Rec(g.kind, g.key, g.packet, g.extra, x, g.body)
    BY <2>2, RecExcept
  <2> QED
    BY <2>3 DEF OtherRest, x
<1>5. ASSUME NEW p \in Packets, f = [g EXCEPT !.packet = p] PROVE OtherPacket(f, g)
  <2>1. f = Rec(g.kind, g.key, p, g.extra, g.rest, g.body)
    BY <1>5, RecExcept
  <2> QED
    BY <2>1 DEF OtherPacket
<1>6. ASSUME NEW e \in Epochs, f = [g EXCEPT !.extra = e] PROVE OtherExtra(f, g)
  <2>1. f = Rec(g.kind, g.key, g.packet, e, g.rest, g.body)
    BY <1>6, RecExcept
  <2> QED
    BY <2>1 DEF OtherExtra
<1>7. ASSUME f = [g EXCEPT !.key[2] = 1] PROVE OtherKey(f, g)
  <2> DEFINE x == [g.key EXCEPT ![2] = 1]
  <2>1. f = [g EXCEPT !.key = x]
    BY <1>7
  <2> HIDE DEF x
  <2>2. f = Rec(g.kind, x, g.packet, g.extra, g.rest, g.body)
    BY <2>1, RecExcept
  <2> QED
    BY <2>2 DEF OtherKey, x
<1>8. \/ f = g
      \/ \E i \in 1..Len(g.body) : f = [g EXCEPT !.body[i] = Xor(@, Noise)]
      \/ \E n \in {TagLen - 1, Len(g.body) - 1} \cap (0..Len(g.body)) : f = [g EXCEPT !.body = SubSeq(@, 1, n)]
      \/ \E b \in {{}, Noise} : f = [g EXCEPT !.body = Append(@, b)]
      \/ \E i \in 1..Len(g.rest) : f = [g EXCEPT !.rest[i] = Xor(@, Noise)]
      \/ \E p \in Packets : f = [g EXCEPT !.packet = p]
      \/ \E e \in Epochs : f = [g EXCEPT !.extra = e]
      \/ f = [g EXCEPT !.key[2] = 1]
  BY Zenon DEF Arrivals
<1> QED
  BY <1>1, <1>2, <1>3, <1>4, <1>5, <1>6, <1>7, <1>8, Zenon

----------------------------------------------------------------------------
(* What is authenticated besides the text.                                   *)

RestOK(rest) == IsSeq(rest) /\ Len(rest) \in Nat /\ Len(rest) >= WordLen

LEMMA AadIs ==
  ASSUME NEW f, RestOK(f.rest), f.packet.from \in Nat, f.packet.id \in Nat
  PROVE  /\ IsSeq(AadFromHeader(f)) /\ Len(AadFromHeader(f)) = Len(f.rest) + 2 * WordLen
         /\ AadFromHeader(f) # <<>>
<1> DEFINE s == SubSeq(f.rest, 1, WordLen)
           t == LittleEndian(f.packet.from, WordLen)
           u == LittleEndian(f.packet.id, WordLen)
           z == SubSeq(f.rest, WordLen + 1, Len(f.rest))
           rest == f.rest
<1>1. /\ IsSeq(rest) /\ Len(rest) \in Nat /\ WordLen \in 0..Len(rest) /\ WordLen \in Nat /\ WordLen >= 1
      /\ WordLen <= Len(rest)
  BY Widths DEF RestOK
<1>2. IsSeq(s) /\ Len(s) = WordLen
  BY <1>1, Prefix
<1>3. IsSeq(t) /\ Len(t) = WordLen /\ IsSeq(u) /\ Len(u) = WordLen
  BY <1>1, LittleEndianIs
<1>4. IsSeq(z) /\ Len(z) = Len(rest) - WordLen
  <2> DEFINE n == Len(rest)
  <2>1. n \in Nat /\ WordLen <= n /\ n <= Len(rest) /\ z = SubSeq(rest, WordLen + 1, n)
    BY <1>1
  <2> HIDE DEF n, z, rest
  <2>2. IsSeq(SubSeq(rest, WordLen + 1, n)) /\ Len(SubSeq(rest, WordLen + 1, n)) = n - WordLen
    BY <1>1, <2>1, Part
  <2> QED
    BY <2>1, <2>2 DEF n
<1>5. AadFromHeader(f) = s \o t \o u \o z
  BY DEF AadFromHeader
<1> HIDE DEF s, t, u, z, rest
<1>6. IsSeq(s \o t) /\ Len(s \o t) = Len(s) + Len(t)
  BY <1>2, <1>3, JoinedSequence
<1>7. IsSeq(s \o t \o u) /\ Len(s \o t \o u) = Len(s \o t) + Len(u)
  BY <1>3, <1>6, JoinedSequence
<1>8. IsSeq(s \o t \o u \o z) /\ Len(s \o t \o u \o z) = Len(s \o t \o u) + Len(z)
  BY <1>4, <1>7, JoinedSequence
<1>9. Len(s \o t \o u \o z) = Len(rest) + 2 * WordLen
  BY <1>1, <1>2, <1>3, <1>4, <1>6, <1>7, <1>8
<1>10. Len(s \o t \o u \o z) # 0
  BY <1>1, <1>9
<1>11. s \o t \o u \o z # <<>>
  BY <1>10
<1> QED
  BY <1>5, <1>8, <1>9, <1>11 DEF rest

\* It tells the fields it was made from.
LEMMA AadTells ==
  ASSUME NEW f, RestOK(f.rest), NEW g, RestOK(g.rest), Len(f.rest) = Len(g.rest),
         f.packet.from \in Nat, f.packet.id \in Nat, f.packet = g.packet,
         AadFromHeader(f) = AadFromHeader(g)
  PROVE  f.rest = g.rest
<1> DEFINE a == f.rest
           b == g.rest
           s == SubSeq(a, 1, WordLen)
           s2 == SubSeq(b, 1, WordLen)
           t == LittleEndian(f.packet.from, WordLen)
           u == LittleEndian(f.packet.id, WordLen)
           n == Len(a)
           z == SubSeq(a, WordLen + 1, n)
           z2 == SubSeq(b, WordLen + 1, n)
<1>1. IsSeq(t) /\ Len(t) = WordLen /\ IsSeq(u) /\ Len(u) = WordLen
  BY Widths, LittleEndianIs
<1>2. s \o t \o u \o z = s2 \o t \o u \o z2
  BY DEF AadFromHeader
<1>3. /\ IsSeq(a) /\ IsSeq(b) /\ Len(a) = n /\ Len(b) = n /\ n \in Nat
      /\ WordLen \in 0..n /\ WordLen \in Nat /\ WordLen <= n
  BY Widths DEF RestOK
<1> HIDE DEF a, b, t, u, n
<1>4. IsSeq(s) /\ Len(s) = WordLen /\ \A i \in 1..WordLen : s[i] = a[i]
  BY <1>3, Prefix
<1>5. IsSeq(s2) /\ Len(s2) = WordLen /\ \A i \in 1..WordLen : s2[i] = b[i]
  BY <1>3, Prefix
<1>6. IsSeq(z) /\ \A i \in 1..(n - WordLen) : z[i] = a[WordLen + i]
  BY <1>3, Part
<1>7. IsSeq(z2) /\ \A i \in 1..(n - WordLen) : z2[i] = b[WordLen + i]
  BY <1>3, Part
<1> HIDE DEF s, s2, z, z2
<1>8. s = s2 /\ z = z2
  <2> DEFINE x == s \o t
             x2 == s2 \o t
             y == x \o u
             y2 == x2 \o u
  <2>0. IsSeq(s) /\ IsSeq(s2) /\ IsSeq(t) /\ IsSeq(u) /\ Len(s) = Len(s2) /\ IsSeq(z) /\ IsSeq(z2)
    BY <1>1, <1>4, <1>5, <1>6, <1>7
  <2>1. IsSeq(x) /\ Len(x) = Len(s) + Len(t)
    BY <2>0, JoinedSequence
  <2>2. IsSeq(x2) /\ Len(x2) = Len(s2) + Len(t)
    BY <2>0, JoinedSequence
  <2>3. y \o z = y2 \o z2
    BY <1>2
  <2>4. x = x2 => s = s2
    <3> SUFFICES ASSUME s \o t = s2 \o t PROVE s = s2
      OBVIOUS
    <3> QED
      BY <2>0, PartsEqual
  <2> HIDE DEF x, x2
  <2>5. IsSeq(y) /\ Len(y) = Len(x) + Len(u)
    BY <2>0, <2>1, JoinedSequence
  <2>6. IsSeq(y2) /\ Len(y2) = Len(x2) + Len(u)
    BY <2>0, <2>2, JoinedSequence
  <2>7. Len(x) = Len(x2)
    BY <2>0, <2>1, <2>2
  <2>8. y = y2 => x = x2
    <3> SUFFICES ASSUME x \o u = x2 \o u PROVE x = x2
      OBVIOUS
    <3> QED
      BY <2>0, <2>1, <2>2, <2>7, PartsEqual
  <2> HIDE DEF y, y2
  <2>9. Len(y) = Len(y2)
    BY <2>5, <2>6, <2>7
  <2>10. y = y2 /\ z = z2
    BY <2>0, <2>3, <2>5, <2>6, <2>9, PartsEqual
  <2> QED
    BY <2>4, <2>8, <2>10
<1>9. ASSUME NEW i \in 1..n PROVE a[i] = b[i]
  <2>1. CASE i \in 1..WordLen
    BY <1>4, <1>5, <1>8, <2>1
  <2>2. CASE i \notin 1..WordLen
    <3>1. PICK j \in 1..(n - WordLen) : i = WordLen + j
      <4>1. i - WordLen \in 1..(n - WordLen) /\ i = WordLen + (i - WordLen)
        BY <1>3, <2>2
      <4> QED
        BY <4>1
    <3> QED
      BY <1>6, <1>7, <1>8, <3>1
  <2> QED
    BY <2>1, <2>2
<1>10. a = b
  BY <1>3, <1>9, SameSequence
<1> QED
  BY <1>10 DEF a, b

----------------------------------------------------------------------------
(* What is altered is refused.                                               *)

\* What is needed of a frame that was sent.
SentFrameOK(g, text) ==
  /\ IsRec(g) /\ g.kind \in Kinds /\ g.packet \in Packets /\ g.extra \in Epochs \cup {0}
  /\ g.key = <<g.kind, 0>> /\ RestOK(g.rest) /\ IsSeq(text) /\ g.body = Seal(g, text)
  /\ Fits(BlocksOf(Len(text)), WordLen)

LEMMA SentFrameIs ==
  ASSUME NEW s, SentOK(s)
  PROVE  SentFrameOK(s.frame, s.text)
<1>1. PICK kind, p, extra, n, text : /\ Sealed(s.frame, kind, p, extra, n, text)
                                     /\ s = [frame |-> s.frame, text |-> text]
  BY DEF SentOK
<1> DEFINE g == s.frame
           rest == [i \in 1..n |-> Byte(i)]
<1>2. s.text = text
  BY <1>1
<1>3. /\ g.kind = kind /\ g.packet = p /\ g.extra = extra /\ g.key = <<kind, 0>>
      /\ g.rest = rest /\ g.body = Seal(g, text)
  BY <1>1, SealedFrame
<1>4. IsRec(g)
  BY <1>1, SealedFrame
<1>5. /\ kind \in Kinds /\ p \in Packets /\ extra \in Epochs \cup {0} /\ n \in Rests \cup {WordLen}
      /\ text \in Texts
  BY <1>1 DEF Sealed
<1>6. IsSeq(text) /\ Fits(BlocksOf(Len(text)), WordLen)
  BY <1>5, TextIs
<1>7. RestOK(rest)
  <2>1. n \in Nat /\ n >= WordLen
    BY <1>5, Constants
  <2>2. rest = [i \in 1..n |-> rest[i]]
    OBVIOUS
  <2> HIDE DEF rest
  <2>3. IsSeq(rest) /\ Len(rest) = n
    BY <2>1, <2>2, FunctionIsSeq
  <2> QED
    BY <2>1, <2>3 DEF RestOK
<1> HIDE DEF g, rest
<1>8. SentFrameOK(g, text)
  BY <1>3, <1>4, <1>5, <1>6, <1>7 DEF SentFrameOK
<1> QED
  BY <1>2, <1>8 DEF g

LEMMA FrameAadIs ==
  ASSUME NEW f, f.packet \in Packets, RestOK(f.rest)
  PROVE  /\ IsSeq(FrameAad(f))
         /\ f.kind # "group" => FrameAad(f) = <<>>
         /\ f.kind = "group" => /\ FrameAad(f) = AadFromHeader(f) /\ FrameAad(f) # <<>>
                                /\ Len(FrameAad(f)) = Len(f.rest) + 2 * WordLen
<1>1. f.packet.from \in Nat /\ f.packet.id \in Nat
  BY Constants
<1>2. /\ IsSeq(AadFromHeader(f)) /\ Len(AadFromHeader(f)) = Len(f.rest) + 2 * WordLen
      /\ AadFromHeader(f) # <<>>
  BY <1>1, AadIs
<1>3. IsSeq(<<>>)
  <2>1. <<>> \in Seq({})
    OBVIOUS
  <2> QED
    BY <2>1 DEF IsSeq
<1>4. CASE f.kind = "group"
  BY <1>2, <1>4 DEF FrameAad
<1>5. CASE f.kind # "group"
  <2>1. FrameAad(f) = <<>>
    BY <1>5 DEF FrameAad
  <2> QED
    BY <1>3, <1>5, <2>1, Zenon
<1> QED
  BY <1>4, <1>5

LEMMA AadsAlike ==
  ASSUME NEW f, f.packet \in Packets, RestOK(f.rest), NEW g, g.packet \in Packets, RestOK(g.rest),
         f.kind = g.kind, Len(f.rest) = Len(g.rest)
  PROVE  Alike(FrameAad(g), FrameAad(f))
<1>1. CASE f.kind = "group"
  <2>1. FrameAad(f) # <<>> /\ Len(FrameAad(f)) = Len(f.rest) + 2 * WordLen
    BY <1>1, FrameAadIs
  <2>2. FrameAad(g) # <<>> /\ Len(FrameAad(g)) = Len(g.rest) + 2 * WordLen
    BY <1>1, FrameAadIs
  <2> QED
    BY <2>1, <2>2 DEF Alike
<1>2. CASE f.kind # "group"
  <2>1. FrameAad(f) = <<>> /\ FrameAad(g) = <<>>
    BY <1>2, FrameAadIs
  <2> QED
    BY <2>1 DEF Alike
<1> QED
  BY <1>1, <1>2

LEMMA SentBody ==
  ASSUME NEW g, NEW text, SentFrameOK(g, text), g.kind # "channel"
  PROVE  SealedBody(g.body, FrameKey(g), FrameNonce(g), FrameAad(g), text, Len(text))
<1>1. NonceOK(FrameNonce(g))
  BY NonceIs DEF SentFrameOK
<1>2. IsSeq(FrameAad(g))
  BY FrameAadIs DEF SentFrameOK
<1>3. g.body = CcmEncrypt(FrameKey(g), FrameNonce(g), FrameAad(g), text)
  BY DEF SentFrameOK, Seal
<1>4. IsSeq(text)
  BY DEF SentFrameOK
<1> QED
  BY <1>1, <1>2, <1>3, <1>4, CcmEncryptIs

\* Opening depends on the fields that were altered only.
LEMMA SameFields ==
  ASSUME NEW f, NEW g, f.kind = g.kind, f.key = g.key, f.packet = g.packet, f.extra = g.extra,
         f.kind = "group" => f.rest = g.rest
  PROVE  FrameKey(f) = FrameKey(g) /\ FrameNonce(f) = FrameNonce(g) /\ FrameAad(f) = FrameAad(g)
<1>1. FrameKey(f) = FrameKey(g) /\ FrameNonce(f) = FrameNonce(g)
  BY DEF FrameKey, FrameNonce
<1>2. CASE f.kind = "group"
  <2>1. AadFromHeader(f) = AadFromHeader(g)
    BY <1>2 DEF AadFromHeader
  <2> QED
    BY <1>1, <1>2, <2>1 DEF FrameAad
<1>3. CASE f.kind # "group"
  BY <1>1, <1>3 DEF FrameAad
<1> QED
  BY <1>2, <1>3

LEMMA OpenIs ==
  ASSUME NEW f, f.kind # "channel"
  PROVE  Open(f) = CcmDecrypt(FrameKey(f), FrameNonce(f), FrameAad(f), f.body)
BY DEF Open

LEMMA BodyRefused ==
  ASSUME NEW g, NEW text, SentFrameOK(g, text), g.kind # "channel",
         NEW f, FlippedBody(f, g) \/ ShortBody(f, g) \/ LongBody(f, g)
  PROVE  ~Open(f).ok
<1>1. PICK b : /\ f = Rec(g.kind, g.key, g.packet, g.extra, g.rest, b)
               /\ \/ \E i \in 1..Len(g.body) : b = [g.body EXCEPT ![i] = Xor(g.body[i], Noise)]
                  \/ \E n \in {TagLen - 1, Len(g.body) - 1} \cap (0..Len(g.body)) : b = SubSeq(g.body, 1, n)
                  \/ \E x : b = Append(g.body, x)
  <2>2. CASE FlippedBody(f, g)
    BY <2>2, Zenon DEF FlippedBody
  <2>3. CASE ShortBody(f, g)
    BY <2>3, Zenon DEF ShortBody
  <2>4. CASE LongBody(f, g)
    BY <2>4, Zenon DEF LongBody
  <2> QED
    BY <2>2, <2>3, <2>4
<1>2. f.kind = g.kind /\ f.key = g.key /\ f.packet = g.packet /\ f.extra = g.extra /\ f.rest = g.rest /\ f.body = b
  BY <1>1, RecIs
<1> DEFINE k == FrameKey(g)
           nonce == FrameNonce(g)
           aad == FrameAad(g)
<1>3. Open(f) = CcmDecrypt(k, nonce, aad, b)
  <2>1. FrameKey(f) = k /\ FrameNonce(f) = nonce /\ FrameAad(f) = aad
    BY <1>2, SameFields
  <2> QED
    BY <1>2, <2>1, OpenIs
<1>4. SealedBody(g.body, k, nonce, aad, text, Len(text))
  BY SentBody
<1> HIDE DEF k, nonce, aad
<1>5. ASSUME NEW i \in 1..Len(g.body), b = [g.body EXCEPT ![i] = Xor(g.body[i], Noise)]
      PROVE  ~CcmDecrypt(k, nonce, aad, b).ok
  BY <1>4, <1>5, FlippedByteRefused
<1>6. ASSUME NEW n \in {TagLen - 1, Len(g.body) - 1} \cap (0..Len(g.body)), b = SubSeq(g.body, 1, n)
      PROVE  ~CcmDecrypt(k, nonce, aad, b).ok
  <2>1. n \in Nat /\ n <= Len(g.body) /\ (n < TagLen \/ n = Len(g.body) - 1)
    <3>1. Len(g.body) \in Nat /\ TagLen \in Nat
      BY <1>4, SeqFacts, Widths DEF SealedBody
    <3> QED
      BY <3>1
  <2> QED
    BY <1>4, <1>6, <2>1, ShortenedRefused
<1>7. ASSUME NEW x, b = Append(g.body, x) PROVE ~CcmDecrypt(k, nonce, aad, b).ok
  BY <1>4, <1>7, LengthenedRefused
<1>8. ~CcmDecrypt(k, nonce, aad, b).ok
  BY <1>1, <1>5, <1>6, <1>7
<1> QED
  BY <1>3, <1>8

\* A frame of which a field was altered opens with another key, nonce or other
\* authenticated data.
LEMMA OtherFieldRefused ==
  ASSUME NEW g, NEW text, SentFrameOK(g, text), g.kind # "channel",
         NEW f, f.kind = g.kind, f.body = g.body, f.packet \in Packets, f.extra \in Epochs \cup {0},
         RestOK(f.rest), Len(f.rest) = Len(g.rest),
         ~(FrameKey(g) = FrameKey(f) /\ FrameNonce(g) = FrameNonce(f) /\ FrameAad(g) = FrameAad(f))
  PROVE  ~Open(f).ok
<1> DEFINE k == FrameKey(g)
           nonce == FrameNonce(g)
           aad == FrameAad(g)
           k2 == FrameKey(f)
           nonce2 == FrameNonce(f)
           aad2 == FrameAad(f)
<1>1. SealedBody(g.body, k, nonce, aad, text, Len(text))
  BY SentBody
<1>2. NonceOK(nonce2)
  BY NonceIs DEF SentFrameOK
<1>3. IsSeq(aad2)
  BY FrameAadIs
<1>4. Alike(aad, aad2)
  BY AadsAlike DEF SentFrameOK
<1>5. Open(f) = CcmDecrypt(k2, nonce2, aad2, g.body)
  BY OpenIs
<1>6. ~(k = k2 /\ nonce = nonce2 /\ aad = aad2)
  OBVIOUS
<1> HIDE DEF k, nonce, aad, k2, nonce2, aad2
<1>7. ~CcmDecrypt(k2, nonce2, aad2, g.body).ok
  BY <1>1, <1>2, <1>3, <1>4, <1>6, OtherRefused
<1> QED
  BY <1>5, <1>7

\* A byte of a sequence changed.
LEMMA ChangedByte ==
  ASSUME NEW s, IsSeq(s), NEW i \in 1..Len(s), NEW t, t = [s EXCEPT ![i] = Xor(s[i], Noise)]
  PROVE  IsSeq(t) /\ Len(t) = Len(s) /\ s # t
<1>1. PICK S : s \in Seq(S)
  BY DEF IsSeq
<1>2. Len(s) \in Nat
  BY SeqFacts
<1>3. s = [j \in 1..Len(s) |-> s[j]]
  BY <1>1
<1>4. t = [j \in 1..Len(s) |-> IF j = i THEN Xor(s[i], Noise) ELSE s[j]]
  BY <1>3
<1>5. t = [j \in 1..Len(s) |-> t[j]]
  BY <1>4
<1>6. IsSeq(t) /\ Len(t) = Len(s)
  BY <1>2, <1>5, FunctionIsSeq
<1>7. t[i] = Xor(s[i], Noise)
  BY <1>4
<1>8. t[i] # s[i]
  BY <1>7, NoiseShows
<1> QED
  BY <1>6, <1>8

LEMMA SecondChanged ==
  ASSUME NEW a, NEW b, NEW c
  PROVE  [<<a, b>> EXCEPT ![2] = c] = <<a, c>>
OBVIOUS

\* What Authentic says of a frame that arrived.
LEMMA AuthenticIs ==
  ASSUME NEW s, IsRec(s.frame), NEW f, IsRec(f)
  PROVE  Authentic(s, f) <=>
           /\ f.kind = s.frame.kind /\ f.key = s.frame.key /\ f.packet = s.frame.packet
           /\ f.extra = s.frame.extra /\ f.body = s.frame.body
           /\ f.kind = "group" => f.rest = s.frame.rest
<1> DEFINE g == s.frame
<1>1. [f EXCEPT !.rest = g.rest] = Rec(f.kind, f.key, f.packet, f.extra, g.rest, f.body)
  BY RecExcept
<1>2. g = Rec(g.kind, g.key, g.packet, g.extra, g.rest, g.body)
  BY DEF IsRec
<1>3. [f EXCEPT !.rest = g.rest] = g <=>
        /\ f.kind = g.kind /\ f.key = g.key /\ f.packet = g.packet
        /\ f.extra = g.extra /\ f.body = g.body
  <2> HIDE DEF g
  <2>1. ASSUME /\ f.kind = g.kind /\ f.key = g.key /\ f.packet = g.packet
               /\ f.extra = g.extra /\ f.body = g.body
        PROVE  [f EXCEPT !.rest = g.rest] = g
    BY <1>1, <1>2, <2>1
  <2>2. ASSUME [f EXCEPT !.rest = g.rest] = g
        PROVE  /\ f.kind = g.kind /\ f.key = g.key /\ f.packet = g.packet
               /\ f.extra = g.extra /\ f.body = g.body
    <3>1. g = Rec(f.kind, f.key, f.packet, f.extra, g.rest, f.body)
      BY <1>1, <2>2
    <3> QED
      BY <3>1, RecIs
  <2> QED
    BY <2>1, <2>2
<1> QED
  BY <1>3 DEF Authentic

LEMMA ArrivalIsRec ==
  ASSUME NEW g, IsRec(g), NEW f \in Arrivals(g)
  PROVE  IsRec(f)
<1>1. ASSUME NEW kind, NEW key, NEW packet, NEW extra, NEW rest, NEW body,
             f = Rec(kind, key, packet, extra, rest, body)
      PROVE  IsRec(f)
  BY <1>1, RecIs DEF IsRec
<1>2. CASE f = g
  BY <1>2
<1>3. CASE FlippedBody(f, g)
  BY <1>1, <1>3 DEF FlippedBody
<1>4. CASE ShortBody(f, g)
  BY <1>1, <1>4 DEF ShortBody
<1>5. CASE LongBody(f, g)
  BY <1>1, <1>5 DEF LongBody
<1>6. CASE OtherRest(f, g)
  BY <1>1, <1>6 DEF OtherRest
<1>7. CASE OtherPacket(f, g)
  BY <1>1, <1>7 DEF OtherPacket
<1>8. CASE OtherExtra(f, g)
  BY <1>1, <1>8 DEF OtherExtra
<1>9. CASE OtherKey(f, g)
  BY <1>1, <1>9 DEF OtherKey
<1> QED
  BY <1>2, <1>3, <1>4, <1>5, <1>6, <1>7, <1>8, <1>9, ArrivalIs

LEMMA AlteredRefused ==
  ASSUME NEW s, SentOK(s), NEW f \in Arrivals(s.frame), f.kind # "channel", ~Authentic(s, f)
  PROVE  ~Open(f).ok
<1> DEFINE g == s.frame
           text == s.text
<1>1. SentFrameOK(g, text)
  BY SentFrameIs
<1>2. IsRec(g) /\ IsRec(f)
  BY <1>1, ArrivalIsRec DEF SentFrameOK
<1>3. ~(/\ f.kind = g.kind /\ f.key = g.key /\ f.packet = g.packet
        /\ f.extra = g.extra /\ f.body = g.body
        /\ f.kind = "group" => f.rest = g.rest)
  BY <1>2, AuthenticIs
<1>4. \/ f = g \/ FlippedBody(f, g) \/ ShortBody(f, g) \/ LongBody(f, g)
      \/ OtherRest(f, g) \/ OtherPacket(f, g) \/ OtherExtra(f, g) \/ OtherKey(f, g)
  BY <1>2, ArrivalIs
<1> HIDE DEF g, text
<1>5. /\ g.kind \in Kinds /\ g.packet \in Packets /\ g.extra \in Epochs \cup {0}
      /\ g.key = <<g.kind, 0>> /\ RestOK(g.rest)
  BY <1>1 DEF SentFrameOK
<1>6. CASE f = g
  BY <1>3, <1>6
<1>7. CASE FlippedBody(f, g) \/ ShortBody(f, g) \/ LongBody(f, g)
  <2>1. f.kind = g.kind
    <3>1. ASSUME NEW b, f = Rec(g.kind, g.key, g.packet, g.extra, g.rest, b) PROVE f.kind = g.kind
      BY <3>1, RecIs
    <3>2. CASE FlippedBody(f, g)
      BY <3>1, <3>2 DEF FlippedBody
    <3>3. CASE ShortBody(f, g)
      BY <3>1, <3>3 DEF ShortBody
    <3>4. CASE LongBody(f, g)
      BY <3>1, <3>4 DEF LongBody
    <3> QED
      BY <1>7, <3>2, <3>3, <3>4
  <2>2. g.kind # "channel"
    BY <2>1
  <2> QED
    BY <1>1, <1>7, <2>2, BodyRefused
<1>8. CASE OtherRest(f, g)
  <2>1. PICK i \in 1..Len(g.rest) : f = Rec(g.kind, g.key, g.packet, g.extra,
                                            [g.rest EXCEPT ![i] = Xor(g.rest[i], Noise)], g.body)
    BY <1>8 DEF OtherRest
  <2>2. /\ f.kind = g.kind /\ f.key = g.key /\ f.packet = g.packet /\ f.extra = g.extra /\ f.body = g.body
        /\ f.rest = [g.rest EXCEPT ![i] = Xor(g.rest[i], Noise)]
    BY <2>1, RecIs
  <2>3. IsSeq(f.rest) /\ Len(f.rest) = Len(g.rest) /\ g.rest # f.rest
    BY <1>5, <2>2, ChangedByte DEF RestOK
  <2>4. RestOK(f.rest)
    BY <1>5, <2>3 DEF RestOK
  <2>5. f.kind = "group"
    BY <1>3, <2>2
  <2>6. FrameAad(g) # FrameAad(f)
    <3>1. FrameAad(f) = AadFromHeader(f) /\ FrameAad(g) = AadFromHeader(g)
      BY <2>2, <2>5 DEF FrameAad
    <3>2. f.packet.from \in Nat /\ f.packet.id \in Nat
      BY <1>5, <2>2, Constants
    <3> QED
      BY <1>5, <2>2, <2>3, <2>4, <3>1, <3>2, AadTells
  <2>7. f.packet \in Packets /\ f.extra \in Epochs \cup {0} /\ g.kind # "channel"
    BY <1>5, <2>2
  <2> QED
    BY <1>1, <2>2, <2>3, <2>4, <2>6, <2>7, OtherFieldRefused
<1>9. CASE OtherPacket(f, g)
  <2>1. PICK p \in Packets : f = Rec(g.kind, g.key, p, g.extra, g.rest, g.body)
    BY <1>9 DEF OtherPacket
  <2>2. /\ f.kind = g.kind /\ f.key = g.key /\ f.packet = p /\ f.extra = g.extra /\ f.body = g.body
        /\ f.rest = g.rest
    BY <2>1, RecIs
  <2>3. f.packet # g.packet
    BY <1>3, <2>2
  <2>4. FrameNonce(g) # FrameNonce(f)
    BY <1>5, <2>2, <2>3, NonceApart
  <2>5. f.packet \in Packets /\ f.extra \in Epochs \cup {0} /\ g.kind # "channel" /\ RestOK(f.rest)
    BY <1>5, <2>2
  <2> QED
    BY <1>1, <2>2, <2>4, <2>5, OtherFieldRefused
<1>10. CASE OtherExtra(f, g)
  <2>1. PICK e \in Epochs : f = Rec(g.kind, g.key, g.packet, e, g.rest, g.body)
    BY <1>10 DEF OtherExtra
  <2>2. /\ f.kind = g.kind /\ f.key = g.key /\ f.packet = g.packet /\ f.extra = e /\ f.body = g.body
        /\ f.rest = g.rest
    BY <2>1, RecIs
  <2>3. f.extra # g.extra
    BY <1>3, <2>2
  <2>4. f.packet \in Packets /\ f.extra \in Epochs \cup {0} /\ g.kind # "channel" /\ RestOK(f.rest)
    BY <1>5, <2>2
  <2>5. ~(FrameKey(g) = FrameKey(f) /\ FrameNonce(g) = FrameNonce(f))
    <3>1. CASE f.kind = "direct"
      BY <1>5, <2>2, <2>3, <2>4, <3>1, NonceApart
    <3>2. CASE f.kind = "group"
      <4>1. f.key = <<f.kind, 0>> /\ g.key = <<g.kind, 0>>
        BY <1>5, <2>2
      <4>2. g.kind = "group"
        BY <2>2, <3>2
      <4>3. ASSUME FrameKey(g) = FrameKey(f) PROVE g.extra = f.extra
        BY <4>1, <4>2, <4>3, KeyTells
      <4> QED
        BY <2>3, <4>3
    <3> QED
      BY <1>5, <2>2, <3>1, <3>2 DEF Kinds
  <2> QED
    BY <1>1, <2>2, <2>4, <2>5, OtherFieldRefused
<1>11. CASE OtherKey(f, g)
  <2>1. f = Rec(g.kind, [g.key EXCEPT ![2] = 1], g.packet, g.extra, g.rest, g.body)
    BY <1>11 DEF OtherKey
  <2>2. /\ f.kind = g.kind /\ f.packet = g.packet /\ f.extra = g.extra /\ f.body = g.body
        /\ f.rest = g.rest /\ f.key = [g.key EXCEPT ![2] = 1]
    BY <2>1, RecIs
  <2>3. f.key = <<f.kind, 1>>
    BY <1>5, <2>2, SecondChanged
  <2>4. FrameKey(g) # FrameKey(f)
    <3>1. ASSUME FrameKey(g) = FrameKey(f) PROVE 0 = 1
      BY <1>5, <2>3, <3>1, KeyTells
    <3> QED
      BY <3>1
  <2>5. f.packet \in Packets /\ f.extra \in Epochs \cup {0} /\ g.kind # "channel" /\ RestOK(f.rest)
    BY <1>5, <2>2
  <2> QED
    BY <1>1, <2>2, <2>4, <2>5, OtherFieldRefused
<1> QED
  BY <1>4, <1>6, <1>7, <1>8, <1>9, <1>10, <1>11

----------------------------------------------------------------------------
(* What was not altered opens.                                               *)

LEMMA CtrOpens ==
  ASSUME NEW key, NEW nonce, NEW text, IsSeq(text)
  PROVE  CtrApply(key, nonce, CtrApply(key, nonce, text)) = text
<1> DEFINE b == CtrBlocks(nonce, text)
           d == CtrApply(key, nonce, text)
           x == UnderStream(key, b, d)
           e(i) == ByteOf(Encrypt(key, b[((i - 1) \div Block) + 1]), ((i - 1) % Block) + 1)
<1>1. d = UnderStream(key, b, text)
  BY DEF CtrApply
<1>2. IsSeq(d) /\ Len(d) = Len(text)
  BY <1>1, UnderStreamIs
<1>3. ASSUME NEW i \in 1..Len(text) PROVE d[i] = Xor(text[i], e(i))
  <2> HIDE DEF d, b
  <2> QED
    BY <1>1, UnderStreamIs
<1>4. Len(Chunks(d)) = Len(Chunks(text))
  <2> HIDE DEF d
  <2>1. Len(Chunks(d)) = BlocksOf(Len(d))
    BY <1>2, ChunksAre
  <2>2. Len(Chunks(text)) = BlocksOf(Len(text))
    BY ChunksAre
  <2> QED
    BY <1>2, <2>1, <2>2
<1>5. CtrBlocks(nonce, d) = b
  <2> HIDE DEF d
  <2> QED
    BY <1>4 DEF CtrBlocks
<1>6. CtrApply(key, nonce, d) = x
  <2> HIDE DEF d, b
  <2> QED
    BY <1>5 DEF CtrApply
<1> HIDE DEF d, b
<1>7. IsSeq(x) /\ Len(x) = Len(d)
  BY <1>2, UnderStreamIs
<1>8. ASSUME NEW i \in 1..Len(text) PROVE x[i] = text[i]
  <2>1. i \in 1..Len(d)
    BY <1>2
  <2>2. x[i] = Xor(d[i], e(i))
    BY <1>2, <2>1, UnderStreamIs
  <2> HIDE DEF x, e
  <2> QED
    BY <1>3, <2>2, XorBack
<1> HIDE DEF x
<1>9. x = text
  BY <1>2, <1>7, <1>8, SameSequence
<1> QED
  BY <1>6, <1>9 DEF d

LEMMA AuthenticOpens ==
  ASSUME NEW s, SentOK(s), NEW f \in Arrivals(s.frame), Authentic(s, f)
  PROVE  Open(f) = [ok |-> TRUE, text |-> s.text]
<1> DEFINE g == s.frame
           text == s.text
<1>1. SentFrameOK(g, text)
  BY SentFrameIs
<1>2. IsRec(g) /\ IsRec(f)
  BY <1>1, ArrivalIsRec DEF SentFrameOK
<1>3. /\ f.kind = g.kind /\ f.key = g.key /\ f.packet = g.packet
      /\ f.extra = g.extra /\ f.body = g.body
      /\ f.kind = "group" => f.rest = g.rest
  BY <1>2, AuthenticIs
<1> HIDE DEF g, text
<1>4. FrameKey(f) = FrameKey(g) /\ FrameNonce(f) = FrameNonce(g) /\ FrameAad(f) = FrameAad(g)
  BY <1>3, SameFields
<1>5. CASE f.kind = "channel"
  <2>1. g.body = CtrApply(FrameKey(g), FrameNonce(g), text)
    BY <1>1, <1>3, <1>5 DEF SentFrameOK, Seal
  <2>2. IsSeq(text)
    BY <1>1 DEF SentFrameOK
  <2>3. Open(f) = [ok |-> TRUE, text |-> CtrApply(FrameKey(g), FrameNonce(g), g.body)]
    BY <1>3, <1>4, <1>5 DEF Open
  <2>4. CtrApply(FrameKey(g), FrameNonce(g), g.body) = text
    BY <2>1, <2>2, CtrOpens
  <2> QED
    BY <2>3, <2>4 DEF text
<1>6. CASE f.kind # "channel"
  <2>1. Open(f) = CcmDecrypt(FrameKey(g), FrameNonce(g), FrameAad(g), g.body)
    BY <1>3, <1>4, <1>6, OpenIs
  <2>2. SealedBody(g.body, FrameKey(g), FrameNonce(g), FrameAad(g), text, Len(text))
    BY <1>1, <1>3, <1>6, SentBody
  <2> QED
    BY <2>1, <2>2, SealedOpens DEF text
<1> QED
  BY <1>5, <1>6

\* A direct message or an envelope that was altered on its way, in any field that
\* is authenticated, in any byte of its body or in its length, does not open; one
\* that was not opens to its text.
THEOREM AlteredIsAlwaysRefused == CipherSpec => []AlteredIsRefused
<1>1. CipherInv => AlteredIsRefused
  <2> SUFFICES ASSUME CipherInv, NEW r \in received
               PROVE  /\ Authentic(r.sent, r.frame) => r.result.ok /\ r.result.text = r.sent.text
                      /\ r.frame.kind # "channel" /\ ~Authentic(r.sent, r.frame) => ~r.result.ok
    BY DEF AlteredIsRefused
  <2>1. r.sent \in air /\ r.frame \in Arrivals(r.sent.frame) /\ r.result = Open(r.frame)
    BY DEF CipherInv
  <2>2. SentOK(r.sent)
    BY <2>1 DEF CipherInv
  <2>3. ASSUME Authentic(r.sent, r.frame) PROVE r.result = [ok |-> TRUE, text |-> r.sent.text]
    BY <2>1, <2>2, <2>3, AuthenticOpens
  <2>4. ASSUME r.frame.kind # "channel", ~Authentic(r.sent, r.frame) PROVE ~r.result.ok
    BY <2>1, <2>2, <2>4, AlteredRefused
  <2> QED
    BY <2>3, <2>4
<1> QED
  BY <1>1, CipherInvariance, PTL
=============================================================================
