----------------------------- MODULE Observation ------------------------------
(***************************************************************************)
(* The artifacts of one observation (core/observations.py): measurements,  *)
(* the covariance declared for their residual error, the Ideal and the     *)
(* Reported observation.                                                   *)
(*                                                                         *)
(* What forms them is outside the repository's source: a producer that may *)
(* hand Core any of Inputs.  Core refuses a malformed one, and the rest is *)
(* what an algorithm may read.                                             *)
(*                                                                         *)
(* Floats are multiples of the smallest one, which is exact for the tiny   *)
(* numbers where a square can vanish: One of them is 1.0, and a number     *)
(* over Largest is not finite.  Angles are integers, Turn of them make 2   *)
(* pi.  A covariance is held against the source's tolerance, which numpy's *)
(* arithmetic may move by its own error; the unit vector, whose tolerance  *)
(* no property tells apart, is exact.                                      *)
(***************************************************************************)
EXTENDS Integers, Sequences, SequencesExt

CONSTANTS
  Inputs,       \* measurements a producer may hand over
  Deviations,   \* sequences of standard deviations
  Declarations, \* [names, units, covariance] declared directly
  Weights,      \* of the components of a sum
  One, Largest, \* the floats
  Turn,         \* 2 pi, a multiple of 4
  Fine,         \* how many parts of 1.0 the tolerance is counted in (10^12)
  Tolerance,    \* 1e-12, in these parts
  Rounding      \* and what numpy may err by in a comparison with it

VARIABLES
  ideal,        \* the measurement of the Ideal observation
  uncertainty,  \* the declared residual covariance
  reported,     \* the measurement and uncertainty of the Reported observation
  refused,      \* whether Core refused the last artifact

\* History variable, read by the properties only.
  deviations    \* the standard deviations the uncertainty was made from

observationVars == <<ideal, uncertainty, reported, refused, deviations>>

None == [kind |-> "none"]

ASSUME ObservationAssumption ==
  /\ One \in Nat \ {0} /\ Largest \in Nat
  /\ Turn \in Nat \ {0} /\ Turn % 4 = 0
  /\ Fine \in Nat \ {0} /\ Tolerance \in Nat /\ Rounding \in 0 .. Tolerance
  /\ Deviations \subseteq Seq(Int) /\ Weights \subseteq Int
  /\ \A d \in Declarations : d.covariance \in Seq(Seq(Int))

-------------------------------------------------------------------------------
\* The standard measurements: components, units, qualifiers and frames.  A
\* frame is "none" where the measurement accepts no frame.
Shape == [
  ANGLES_RA_DEC   |-> [names |-> <<"right_ascension", "declination">>, units |-> <<"rad", "rad">>,
                       qualifiers |-> {}, frames |-> {"J2000"}],
  ANGLES_AZ_EL    |-> [names |-> <<"azimuth", "elevation">>, units |-> <<"rad", "rad">>,
                       qualifiers |-> {"angle_convention_id"}, frames |-> {"SENSOR", "BODY"}],
  RANGE           |-> [names |-> <<"range">>, units |-> <<"m">>,
                       qualifiers |-> {"path_kind"}, frames |-> {"none"}],
  RANGE_RATE      |-> [names |-> <<"range_rate">>, units |-> <<"m/s">>,
                       qualifiers |-> {"path_kind", "sign_convention", "integration_interval_s"},
                       frames |-> {"none"}],
  LOS_UNIT_VECTOR |-> [names |-> <<"los_x", "los_y", "los_z">>, units |-> <<"1", "1", "1">>,
                       qualifiers |-> {}, frames |-> {"J2000", "SENSOR"}]]

Standard == DOMAIN Shape

\* What the values of a standard qualifier may be.
Allowed == [angle_convention_id    |-> {"org.example/AXES"},
            path_kind              |-> {"ONE_WAY", "TWO_WAY"},
            sign_convention        |-> {"POSITIVE_RECEDING", "POSITIVE_CLOSING"},
            integration_interval_s |-> {"positive"}]

\* _validate_ra_dec, _validate_az_el: a longitude in a turn and a latitude.
OnSphere(v) ==
  Len(v) = 2 /\ v[1] \in 0 .. Turn - 1 /\ v[2] \in -(Turn \div 4) .. Turn \div 4

\* The number of values and their range.
InDomain(type, v) ==
  CASE type \in {"ANGLES_RA_DEC", "ANGLES_AZ_EL"} -> OnSphere(v)
    [] type = "RANGE"                             -> Len(v) = 1 /\ v[1] >= 0
    [] type = "RANGE_RATE"                        -> Len(v) = 1
    [] type = "LOS_UNIT_VECTOR" ->
         Len(v) = 3 /\ v[1] * v[1] + v[2] * v[2] + v[3] * v[3] = One * One

\* _require_standard_shape and the frame, value and qualifier checks of a type.
WellFormed(m) ==
  /\ m.names = Shape[m.type].names /\ m.units = Shape[m.type].units
  /\ DOMAIN m.qualifiers = Shape[m.type].qualifiers
  /\ m.custom = {}
  /\ m.frame \in Shape[m.type].frames
  /\ InDomain(m.type, m.values)
  /\ \A q \in DOMAIN m.qualifiers : m.qualifiers[q] \in Allowed[q]

\* A custom measurement names its type and its schema; its shape is free.
ValidMeasurement(m) ==
  IF m.type = "CUSTOM" THEN m.custom = {"custom_type", "custom_schema_ref"} ELSE WellFormed(m)

-------------------------------------------------------------------------------
\* A quotient of naturals rounded to the nearest integer, halves to even.
Quotient(a, b) ==
  LET q == a \div b
      r == 2 * (a % b)
  IN  IF r > b \/ (r = b /\ q % 2 = 1) THEN q + 1 ELSE q

\* _square_standard_deviation: the float nearest to the exact square.
Square(d) == Quotient(d * d, One)

\* Variant: a square that rounds to zero is returned.
RepresentableAnyway(d) == Square(d) <= Largest

\* It is refused if it is not finite, or vanishes although the deviation does not.
Representable(d) == Square(d) <= Largest /\ (d # 0 => Square(d) # 0)

\* A symmetric matrix after elimination of its first components, one by one and
\* without fractions.
Eliminated(c) ==
  LET stage[k \in 0 .. Len(c)] ==
        IF k = 0 THEN c
        ELSE LET s == stage[k - 1] IN
             IF s[k][k] = 0 THEN s
             ELSE [i \in DOMAIN c |-> [j \in DOMAIN c |->
                    s[k][k] * s[i][j] - s[i][k] * s[k][j]]]
  IN  stage

\* The smallest eigenvalue of a symmetric matrix is nonnegative: no pivot is
\* negative, and the row of a zero one is zero.
Semidefinite(c) ==
  LET stage == Eliminated(c) IN
  \A k \in DOMAIN c :
    LET row == stage[k - 1][k] IN
    row[k] >= 0 /\ (row[k] = 0 => \A j \in DOMAIN c : row[j] = 0)

Magnitude(x) == IF x < 0 THEN -x ELSE x

\* The largest entry, at least 1.0: what a tolerance is relative to.
Scale(c) == Max({One} \cup {Magnitude(x) : x \in UNION {ToSet(row) : row \in ToSet(c)}})

\* Variant: the matrix is not made symmetric, and eigvalsh reads its lower part.
ShiftedLower(c, tolerance) ==
  [i \in DOMAIN c |-> [j \in DOMAIN c |->
    2 * Fine * (IF i < j THEN c[j][i] ELSE c[i][j])
      + IF i = j THEN 2 * tolerance * Scale(c) ELSE 0]]

\* Twice the symmetric part of a matrix, in fine parts, with eigenvalues raised
\* by a tolerance of its scale: semidefinite exactly if the smallest eigenvalue
\* of the symmetric part of c / Scale(c) is at least -tolerance.
Shifted(c, tolerance) ==
  [i \in DOMAIN c |-> [j \in DOMAIN c |->
    Fine * (c[i][j] + c[j][i]) + IF i = j THEN 2 * tolerance * Scale(c) ELSE 0]]

\* What a comparison with the tolerance may amount to in numpy's arithmetic.
Tolerances == Tolerance - Rounding .. Tolerance + Rounding

\* _validate_covariance_semantics: symmetric by np.allclose, and no eigenvalue
\* of the symmetric part below -tolerance.
ValidUncertainty(u, symmetry, eigenvalue) ==
  LET c == u.covariance IN
  /\ c # <<>>
  /\ \A i \in DOMAIN c : Len(c[i]) = Len(c)
  /\ Len(u.names) = Len(c) /\ Len(u.units) = Len(c)
  /\ \A i \in DOMAIN c : c[i][i] >= 0
  /\ \A i, j \in DOMAIN c : Fine * Magnitude(c[i][j] - c[j][i]) <= symmetry * Scale(c)
  /\ Semidefinite(Shifted(c, eigenvalue))

Diagonal(ds) ==
  [i \in DOMAIN ds |-> [j \in DOMAIN ds |-> IF i = j THEN Square(ds[i]) ELSE 0]]

\* Variant: components are compared as sets.
AlignedInAnyOrder(u, m) ==
  u.kind = "none" \/ (ToSet(u.names) = ToSet(m.names) /\ ToSet(u.units) = ToSet(m.units))

\* _validate_uncertainty_components: same components, same units, same order.
Aligned(u, m) == u.kind = "none" \/ (u.names = m.names /\ u.units = m.units)

-------------------------------------------------------------------------------
ObservationInit ==
  /\ ideal = None /\ uncertainty = None /\ reported = None
  /\ refused = FALSE
  /\ deviations = <<>>

\* IdealObservation revalidates its measurement.
FormIdeal(m) ==
  /\ ideal = None
  /\ IF ValidMeasurement(m)
     THEN ideal' = [kind |-> "ideal", measurement |-> m] /\ refused' = FALSE
     ELSE ideal' = ideal /\ refused' = TRUE
  /\ UNCHANGED <<uncertainty, reported, deviations>>

\* from_standard_deviations: one variance per deviation given, named after the
\* components of the measurement.
FromStandardDeviations(ds) ==
  /\ ideal # None /\ uncertainty = None
  /\ \E s, t \in Tolerances :
     LET u == [kind |-> "covariance", covariance |-> Diagonal(ds),
               names |-> ideal.measurement.names, units |-> ideal.measurement.units]
     IN  IF /\ \A i \in DOMAIN ds : ds[i] >= 0 /\ Representable(ds[i])
            /\ ValidUncertainty(u, s, t)
         THEN uncertainty' = u /\ deviations' = ds /\ refused' = FALSE
         ELSE refused' = TRUE /\ UNCHANGED <<uncertainty, deviations>>
  /\ UNCHANGED <<ideal, reported>>

\* A covariance supplied as a matrix.
Declare(d) ==
  /\ ideal # None /\ uncertainty = None
  /\ \E s, t \in Tolerances :
     LET u == [kind |-> "covariance", covariance |-> d.covariance,
               names |-> d.names, units |-> d.units]
     IN  IF ValidUncertainty(u, s, t)
         THEN uncertainty' = u /\ refused' = FALSE
         ELSE refused' = TRUE /\ UNCHANGED uncertainty
  /\ UNCHANGED <<ideal, reported, deviations>>

\* ReportedObservation revalidates both, and aligns them.
FormReported(m) ==
  /\ ideal # None /\ reported = None
  /\ IF ValidMeasurement(m) /\ Aligned(uncertainty, m)
     THEN reported' = [kind |-> "reported", measurement |-> m, uncertainty |-> uncertainty]
          /\ refused' = FALSE
     ELSE refused' = TRUE /\ UNCHANGED reported
  /\ UNCHANGED <<ideal, uncertainty, deviations>>

ObservationNext ==
  \/ \E m \in Inputs : FormIdeal(m) \/ FormReported(m)
  \/ \E ds \in Deviations : FromStandardDeviations(ds)
  \/ \E d \in Declarations : Declare(d)

ObservationSpec == ObservationInit /\ [][ObservationNext]_observationVars

-------------------------------------------------------------------------------
\* The covariance an algorithm reads beside the values of a standard measurement
\* has one row for each value, in the order of the values: it was aligned with
\* the names, and the names were tied to the values by another check, of another
\* artifact.
RowsMatchValues ==
  reported # None /\ reported.uncertainty # None /\ reported.measurement.type \in Standard =>
    LET m == reported.measurement
        u == reported.uncertainty
    IN  /\ Len(u.covariance) = Len(m.values)
        /\ \A i \in DOMAIN m.values : u.names[i] = Shape[m.type].names[i]

\* A variance made from a standard deviation is zero exactly if the deviation
\* is: an algorithm that trusts a component without error was told so (a zero
\* covariance declares a known-zero residual, core README), and it is finite.
ZeroMeansKnownZero ==
  deviations # <<>> =>
    \A i \in DOMAIN deviations :
      /\ uncertainty.covariance[i][i] \in 0 .. Largest
      /\ uncertainty.covariance[i][i] = 0 <=> deviations[i] = 0

\* The variance of a weighted sum of the components, from the rows as declared.
Combined(c, w) ==
  SumFunction([i \in DOMAIN c |->
    w[i] * SumFunction([j \in DOMAIN c |-> w[j] * c[i][j]])])

\* An algorithm that combines the components of a declared covariance gets no
\* variance further below zero than the tolerance, relative to the largest entry
\* or 1.0 and to the weights, although it reads the matrix as declared and Core
\* judged the symmetric part of it, each with its own tolerance.  Of a covariance
\* far below 1.0 this says little: the tolerance does not shrink with it.
VarianceWithinTolerance ==
  uncertainty # None =>
    LET c == uncertainty.covariance IN
    \A w \in [DOMAIN c -> Weights] :
      Fine * Combined(c, w)
        >= -((Tolerance + Rounding) * Scale(c) * SumFunction([i \in DOMAIN c |-> w[i] * w[i]]))
===============================================================================
