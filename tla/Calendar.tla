------------------------------ MODULE Calendar ------------------------------
(***************************************************************************)
(* Epoch (core/epoch.py) and SameScaleCalendarTimeAdapter                  *)
(* (engine/scheduling.py): how a written date becomes the one normal form  *)
(* of an instant, how Core orders normal forms, and the adapter's          *)
(* arithmetic on them.                                                     *)
(*                                                                         *)
(* A date is a day of the calendar, a minute of the day, a second of the   *)
(* minute (the last one a leap second) and the digits of a fraction, with  *)
(* few days, minutes, seconds and digits, all digits ASCII.  A program     *)
(* reads and adds; epochs holds two of its Epoch objects.                  *)
(***************************************************************************)
EXTENDS Integers, Sequences, SequencesExt

CONSTANTS
  Days,         \* the calendar has days 1 .. Days (date.min to date.max)
  Minutes,      \* minutes of a day
  Seconds,      \* seconds of a minute, which numbers a leap second
  Base,         \* digits are 0 .. Base - 1
  Places,       \* longest fraction considered
  Offsets,      \* numeric UTC offsets, in minutes
  Durations,    \* offsets given to add_seconds, in units of the last place
  Precision,    \* significant digits of the default decimal context
  Float,        \* what str writes for the float nearest to a number of units
  Mantissa      \* numbers of a place up to this one survive that (10^15 - 1)

VARIABLES
  epochs,       \* two Epoch objects, as normalized
  answer,       \* of the last operation
  instants,     \* history: the instants the two objects stand for
  outside       \* history: whether the last operation led off the calendar

calendarVars == <<epochs, answer, instants, outside>>

ASSUME CalendarAssumption ==
  /\ Days \in Nat \ {0} /\ Minutes \in Nat \ {0} /\ Seconds \in Nat \ {0}
  /\ Base \in Nat \ {0, 1} /\ Places \in Nat /\ Precision \in Nat \ {0}
  /\ Offsets \subseteq Int /\ Durations \subseteq Int

Power[n \in 0 .. Places] == IF n = 0 THEN 1 ELSE Base * Power[n - 1]

Unit      == Power[Places]           \* units of the last place in a second
DayLength == Minutes * Seconds
Span      == Days * DayLength * Unit \* units in the calendar

\* A number with few significant digits.
Exact(n) == \E k \in 0 .. Places : n % Power[k] = 0 /\ n \div Power[k] \in -Mantissa .. Mantissa

\* Python's floats: to the nearest one keeps the order, and what has few digits.
\* For binary64 that is so of fractions of up to 290 places; far below them the
\* smallest float is.
ASSUME FloatAssumption ==
  /\ Mantissa \in Nat \ {0}
  /\ Float \in [-Span .. Span -> Int]
  /\ \A m, n \in -Span .. Span : m <= n => Float[m] <= Float[n]
  /\ \A n \in -Span .. Span : Exact(n) => Float[n] = n

Objects   == {"left", "right"}
Digits    == UNION {[1 .. n -> 0 .. Base - 1] : n \in 0 .. Places}
Scales    == {"UTC", "TAI"}
Zones     == {"none", "Z", "numeric"}

\* What the first digits after the point are worth, and all of them.
Digit(digits, k) == IF k \in DOMAIN digits THEN digits[k] ELSE 0

Units(digits) ==
  LET units[k \in 0 .. Places] == IF k = 0 THEN 0 ELSE Base * units[k - 1] + Digit(digits, k)
  IN  units

Value(digits) == Units(digits)[Places]

\* _canonical_fraction, and rstrip("0") in _serialize_calendar.
Canonical(digits) ==
  SubSeq(digits, 1, Max({0} \cup {i \in DOMAIN digits : digits[i] # 0}))

\* The fraction of n units, as format(fraction, "f") without trailing zeros.
Quotients(n) ==
  LET left[k \in 0 .. Places] == IF k = 0 THEN n ELSE left[k - 1] \div Base
  IN  left

Fraction(n) == Canonical([i \in 1 .. Places |-> Quotients(n)[Places - i] % Base])

-------------------------------------------------------------------------------
(* Reading: text is what an Epoch holds or is given. *)

\* datetime accepts no second 60, and the leap-second pattern wants a Z.
Readable(text) ==
  /\ text.second = Seconds => text.zone = "Z"
  /\ (text.scale = "UTC") <=> (text.zone # "none")

\* astimezone(UTC), as minutes since the calendar began.
UtcMinute(text) == (text.day - 1) * Minutes + text.minute - text.offset

OnCalendar(minute) == minute \in 0 .. Days * Minutes - 1

\* Variant: the date is converted and keeps its offset.
NormalizeKeepsOffset(text) ==
  [text EXCEPT !.day    = UtcMinute(text) \div Minutes + 1,
               !.minute = UtcMinute(text) % Minutes,
               !.digits = Canonical(@)]

\* _normalize_utc writes a converted date with strftime, but a leap second and
\* a TAI or TT date keep the digits they came with.
Normalize(text) ==
  LET minute == UtcMinute(text)
      day    == minute \div Minutes + 1
  IN  [text EXCEPT !.day    = day,
                   !.minute = minute % Minutes,
                   !.digits = Canonical(@),
                   !.zone   = IF text.scale = "UTC" THEN "Z" ELSE "none",
                   !.offset = 0]

Written ==
  {text \in [scale : Scales, day : 1 .. Days, minute : 0 .. Minutes - 1,
             second : 0 .. Seconds, digits : Digits, zone : Zones,
             offset : Offsets \cup {0}] :
     Readable(text) /\ (text.zone # "numeric" => text.offset = 0)}

\* The reference: an instant is a minute and the units since it began.
InstantOf(text) ==
  [scale |-> text.scale, minute |-> (text.day - 1) * Minutes + text.minute - text.offset,
   units |-> text.second * Unit + Value(text.digits)]

Origin == [scale |-> "TAI", day |-> 1, minute |-> 0, second |-> 0, digits |-> << >>,
           zone |-> "none", offset |-> 0]

CalendarInit ==
  /\ epochs = [o \in Objects |-> Origin]
  /\ answer = "done"
  /\ instants = [o \in Objects |-> InstantOf(Origin)]
  /\ outside = FALSE

\* What an operation leaves in object o: an Epoch of an instant, or an error.
Hold(o, text, instant) ==
  /\ epochs' = [epochs EXCEPT ![o] = text]
  /\ instants' = [instants EXCEPT ![o] = instant]
  /\ outside' = ~OnCalendar(instant.minute)
  /\ answer' = "done"

Refuse(why, instant) ==
  /\ answer' = why /\ outside' = ~OnCalendar(instant.minute)
  /\ UNCHANGED <<epochs, instants>>

\* Epoch(value=..., time_scale=...) on a well-formed value.
Read(o, text) ==
  \/ OnCalendar(UtcMinute(text)) /\ Hold(o, Normalize(text), InstantOf(text))
  \/ ~OnCalendar(UtcMinute(text)) /\ Refuse("range", InstantOf(text))

\* model_validate of a dumped Epoch: its own text is read again.
Reload(o) == Readable(epochs[o]) /\ Hold(o, Normalize(epochs[o]), instants[o])

-------------------------------------------------------------------------------
(* Ordering and arithmetic. *)

\* Variant: fractions are compared as numbers written by their digits.
KeyByNumber(text) ==
  <<text.day, text.minute, text.second, FoldLeft(LAMBDA n, d : n * Base + d, 0, text.digits)>>

\* _epoch_calendar_key: the components, then the digits.
Key(text) == <<text.day, text.minute, text.second>> \o text.digits

\* The order of Python's tuples.
TupleLess(a, b) ==
  \E i \in 1 .. Len(b) :
    /\ \A j \in 1 .. i - 1 : j <= Len(a) /\ a[j] = b[j]
    /\ i > Len(a) \/ a[i] < b[i]

\* _is_strictly_before_same_scale.
Before(l, r) == TupleLess(Key(l), Key(r))

\* _require_same_scale and _parse_calendar.
Supported(text) == text.second # Seconds
Comparable(l, r) == l.scale = r.scale /\ Supported(l) /\ Supported(r)

\* _CalendarMoment.
Moment(text) ==
  [ordinal |-> text.day, second |-> text.minute * Seconds + text.second,
   fraction |-> Value(text.digits)]

\* compare, as -1, 0 or 1.
Compare(l, r) ==
  LET a == Moment(l) b == Moment(r)
      ka == <<a.ordinal, a.second, a.fraction>>
      kb == <<b.ordinal, b.second, b.fraction>>
  IN  IF TupleLess(ka, kb) THEN -1 ELSE IF ka = kb THEN 0 ELSE 1

\* The decimal difference of seconds_between, in a context that holds it.
Difference(l, r) ==
  LET a == Moment(l) b == Moment(r)
  IN  ((b.ordinal - a.ordinal) * DayLength + b.second - a.second) * Unit
        + b.fraction - a.fraction

\* seconds_between: the float nearest to it, as add_seconds reads it again.
Between(l, r) == Float[Difference(l, r)]

\* n, a number below one, to the precision of the decimal context (half even).
Rounded(n) ==
  LET length == CHOOSE k \in 0 .. Places :
                  n < Power[k] /\ \A j \in 0 .. k - 1 : n >= Power[j]
      grain  == IF length <= Precision THEN 1 ELSE Power[length - Precision]
      low    == n \div grain
      twice  == 2 * (n % grain)
  IN  grain * (IF twice > grain \/ (twice = grain /\ low % 2 = 1) THEN low + 1 ELSE low)

\* Variant: the fractions' carry does not reach the seconds.
SumDropsCarry(text, duration) ==
  LET moment   == Moment(text)
      whole    == duration \div Unit
      fraction == moment.fraction + Rounded(duration % Unit)
      seconds  == moment.second + whole
  IN  [ordinal |-> moment.ordinal + seconds \div DayLength,
       second |-> seconds % DayLength, fraction |-> fraction % Unit]

\* add_seconds up to the serialization: the offset is floored, its fraction
\* computed in the default context, and carries go to the second and the day.
Sum(text, duration) ==
  LET moment   == Moment(text)
      whole    == duration \div Unit
      fraction == moment.fraction + Rounded(duration % Unit)
      seconds  == moment.second + whole + fraction \div Unit
  IN  [ordinal |-> moment.ordinal + seconds \div DayLength,
       second |-> seconds % DayLength, fraction |-> fraction % Unit]

\* The range check of _serialize_calendar, and the text it writes.
InRange(moment) == moment.ordinal \in 1 .. Days

Serialized(moment, scale) ==
  [scale |-> scale, day |-> moment.ordinal,
   minute |-> moment.second \div Seconds, second |-> moment.second % Seconds,
   digits |-> Fraction(moment.fraction),
   zone |-> IF scale = "UTC" THEN "Z" ELSE "none", offset |-> 0]

\* The reference for an addition: time flows evenly over the minutes.
Later(instant, duration) ==
  LET units == instant.minute * Seconds * Unit + instant.units + duration
  IN  [instant EXCEPT !.minute = units \div (Seconds * Unit),
                      !.units  = units % (Seconds * Unit)]

\* add_seconds; the text it writes is read by Epoch again.
Add(o, duration) ==
  LET text   == epochs[o]
      moment == Sum(text, duration)
      wanted == Later(instants[o], duration)
  IN  \/ ~Supported(text) /\ Refuse("unsupported", instants[o])
      \/ Supported(text) /\ ~InRange(moment) /\ Refuse("range", wanted)
      \/ /\ Supported(text) /\ InRange(moment)
         /\ Hold(o, Normalize(Serialized(moment, text.scale)), wanted)

CalendarNext ==
  \E o \in Objects :
    \/ \E text \in Written : Read(o, text)
    \/ Reload(o)
    \/ \E duration \in Durations : Add(o, duration)

CalendarSpec == CalendarInit /\ [][CalendarNext]_calendarVars

-------------------------------------------------------------------------------
Left  == epochs["left"]
Right == epochs["right"]
SameScale == Left.scale = Right.scale

\* The order of instants: a leap second comes after the last second of its
\* minute and before the next minute.
Earlier(i, j) == \/ i.minute < j.minute
                 \/ i.minute = j.minute /\ i.units < j.units

\* However an epoch was written and whatever was added since, it is the instant
\* it should be, to the last place: offsets, carries and trailing zeros lose
\* nothing.  An operation refuses a range only when the instant asked for is
\* off the calendar, and then it does refuse.
KeepsInstants ==
  /\ \A o \in Objects : InstantOf(epochs[o]) = instants[o]
  /\ (answer = "range") <=> outside

\* Core's order of normal forms, the adapter's order and the equality of texts,
\* which hashes and equality of manifests rest on, all are the order of time.
\* Core orders leap seconds too; the adapter refuses them.  The seconds between
\* two epochs are rounded, but their sign is the order: a sampler that has not
\* reached the end is never told that nothing remains.  And where few digits
\* write them, adding them to the first epoch gives the second.
OrdersAgree ==
  SameScale =>
    /\ Before(Left, Right) <=> Earlier(instants["left"], instants["right"])
    /\ Left = Right <=> instants["left"] = instants["right"]
    /\ Comparable(Left, Right) =>
         /\ (Compare(Left, Right) = -1) <=> Before(Left, Right)
         /\ (Compare(Left, Right) = 0)  <=> (Left = Right)
         /\ Between(Left, Right) > 0 <=> Before(Left, Right)
         /\ Between(Left, Right) = 0 <=> Left = Right
         /\ Exact(Difference(Left, Right)) => Sum(Left, Between(Left, Right)) = Moment(Right)

\* An Epoch that was accepted can be dumped and read again, and stays the same.
ReadsBack ==
  \A o \in Objects : Readable(epochs[o]) /\ Normalize(epochs[o]) = epochs[o]
===============================================================================
