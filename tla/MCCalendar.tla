----------------------------- MODULE MCCalendar -----------------------------
(***************************************************************************)
(* A calendar of two days of two minutes of two seconds, in binary, and    *)
(* floats of three bits: most differences of more than two seconds are     *)
(* rounded.                                                                *)
(***************************************************************************)
EXTENDS Calendar

CONSTANT MaxDuration

\* The nearest float with half even, by the size of the number.
Grain(n) == IF n <= Mantissa THEN 1 ELSE IF n <= 2 * Mantissa THEN 2 ELSE 4

Nearest(n) ==
  LET grain == Grain(n)
      low   == n \div grain
      twice == 2 * (n % grain)
  IN  grain * (IF twice > grain \/ (twice = grain /\ low % 2 = 1) THEN low + 1 ELSE low)

MCFloat == [n \in -Span .. Span |-> IF n < 0 THEN -Nearest(-n) ELSE Nearest(n)]

MCOffsets   == {-3, 1}
MCDurations == -MaxDuration .. MaxDuration
===============================================================================
