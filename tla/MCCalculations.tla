---------------------------- MODULE MCCalculations ---------------------------
EXTENDS Calculations

(* Two presets with exact symbol times, a bandwidth that does not divide them, *)
(* a slow modem whose long frames overflow, and two modems that do not exist.  *)
(* Bandwidths count 125 kHz, so that a second is eight.                        *)
LongFast == [sf |-> 11, bandwidth |-> 2, codingRate |-> 1, preamble |-> 16,
             crc |-> TRUE, implicitHeader |-> FALSE, lowDataRate |-> FALSE]
LongSlow == [LongFast EXCEPT !.sf = 12, !.bandwidth = 1, !.lowDataRate = TRUE]
ShortOdd == [LongFast EXCEPT !.sf = 7, !.bandwidth = 3, !.codingRate = 4]
Implicit == [LongSlow EXCEPT !.implicitHeader = TRUE, !.crc = FALSE]
NoRate   == [Implicit EXCEPT !.codingRate = 9]
NoSpread == [LongFast EXCEPT !.sf = 13]

MCModems == {LongFast, LongSlow, ShortOdd, Implicit, NoRate, NoSpread}
MCLengths == {0, 1, 2, 3, 5, 8, 16, 17, 70, 249}
MCSignals == -11..10

Window(min, max, floor, ceil) == [min |-> min, max |-> max, floor |-> floor, ceil |-> ceil]
MCWindows == {Window(2, 9, -6, 4),      \* MESHTASTIC_SHAPE, on a smaller scale
              Window(0, 5, -11, 10),    \* a span of twice the greatest signal
              Window(3, 3, -2, 8),
              Window(9, 2, -6, 4),      \* inverted slots
              Window(2, 9, 4, -6),      \* an inverted range
              Window(2, 9, 4, 4)}       \* an empty one

(* Two senders with the same identifiers; texts of no byte, of less than a     *)
(* block, with and without a zero behind it, and of two blocks.                *)
MCPackets == [from : {1, 2}, id : {0, 1}]
Text(n) == [i \in 1..n |-> {<<"text", i>>}]
MCTexts == {<<>>, Text(2), Text(2) \o <<{}>>, Text(8)}

(* y^2 = x^3 + 8 x^2 + x over 89 elements has 8 * 11 points, and its twist       *)
(* 4 * 23, prime factors above every 2^-3 of a scalar, as 2^255 - 19 has.        *)
MCScalars == {0, 45, 50, 127}
MCPublicKeys == 0..255
=============================================================================
