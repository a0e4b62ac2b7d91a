---------------------------- MODULE MCObservation -----------------------------
(***************************************************************************)
(* A measurement of each kind with every malformation its checks name,     *)
(* deviations whose squares vanish, round or overflow, and covariances of  *)
(* one to three components, pairs in both orders, symmetric, almost and    *)
(* not, with eigenvalues on both sides of the tolerance: a tenth of 1.0 or *)
(* of the largest entry, which numpy may take for nothing or for twice.    *)
(***************************************************************************)
EXTENDS Observation, TLC

NoQualifiers == [q \in {} |-> "none"]
Measured(type, values, frame, qualifiers) ==
  [type |-> type, names |-> Shape[type].names, units |-> Shape[type].units,
   values |-> values, frame |-> frame, qualifiers |-> qualifiers, custom |-> {}]

RaDec     == Measured("ANGLES_RA_DEC", <<7, -2>>, "J2000", NoQualifiers)
AzEl      == Measured("ANGLES_AZ_EL", <<0, 2>>, "SENSOR",
                      [angle_convention_id |-> "org.example/AXES"])
Distance  == Measured("RANGE", <<0>>, "none", [path_kind |-> "TWO_WAY"])
RangeRate == Measured("RANGE_RATE", <<-3>>, "none",
               [path_kind |-> "ONE_WAY", sign_convention |-> "POSITIVE_CLOSING",
                integration_interval_s |-> "positive"])
Los       == Measured("LOS_UNIT_VECTOR", <<0, 0, -One>>, "SENSOR", NoQualifiers)
Custom    == [type |-> "CUSTOM", names |-> <<"x", "y">>, units |-> <<"px", "px">>,
              values |-> <<1>>, frame |-> "none", qualifiers |-> NoQualifiers,
              custom |-> {"custom_type", "custom_schema_ref"}]

Good == {RaDec, AzEl, Distance, RangeRate, Los, Custom}
Bad ==
  {[RaDec EXCEPT !.values = v] : v \in {<<8, 0>>, <<-1, 0>>, <<0, 3>>, <<0>>, <<0, 0, 0>>}} \cup
  {[RaDec EXCEPT !.names = <<"declination", "right_ascension">>],
   [RaDec EXCEPT !.units = <<"rad", "m">>],
   [RaDec EXCEPT !.frame = "BODY"], [RaDec EXCEPT !.frame = "none"],
   [RaDec EXCEPT !.custom = {"custom_type"}],
   [AzEl EXCEPT !.qualifiers = NoQualifiers], [AzEl EXCEPT !.frame = "J2000"],
   [AzEl EXCEPT !.qualifiers = [angle_convention_id |-> "AXES"]],
   [Distance EXCEPT !.values = <<-1>>], [Distance EXCEPT !.frame = "J2000"],
   [Distance EXCEPT !.qualifiers = [path_kind |-> "THREE_WAY"]],
   [RangeRate EXCEPT !.values = <<1, 2>>],
   [RangeRate EXCEPT !.qualifiers.integration_interval_s = "zero"],
   [RangeRate EXCEPT !.qualifiers = @ @@ [angle_convention_id |-> "org.example/AXES"]],
   [Los EXCEPT !.values = <<One, One, 0>>], [Los EXCEPT !.values = <<One>>],
   [Custom EXCEPT !.custom = {"custom_type"}]}
MCInputs == Good \cup Bad

\* With One = 10: 2 and its square, 0.4, vanish; 5 rounds to even; 17 is the
\* largest whose square is finite.
MCDeviations ==
  {<<d>> : d \in {-1, 0, 2, 3, 5, 17, 18}} \cup
  {<<a, b>> : a, b \in {0, 2, 3, 17}} \cup {<<3, 0, 5>>, <<0, 0, 2>>, <<>>}

MCDeclarations ==
  {[names |-> Shape[type].names, units |-> Shape[type].units, covariance |-> <<<<v>>>>] :
     type \in {"RANGE", "RANGE_RATE", "ANGLES_RA_DEC"}, v \in {-1, 0, 4}} \cup
  {[names |-> names, units |-> <<"rad", "rad">>, covariance |-> <<<<a, b>>, <<c, d>>>>] :
     names \in {Shape["ANGLES_RA_DEC"].names, Reverse(Shape["ANGLES_RA_DEC"].names)},
     a, d \in {-1, 0, 1, 4}, b, c \in {-4, -2, -1, 0}} \cup
  {[names |-> Shape["ANGLES_RA_DEC"].names, units |-> <<"rad", "rad">>,
    covariance |-> <<<<30, a>>, <<b, c>>>>] : a, b \in {-9, -6, 0}, c \in 0 .. 2} \cup
  {[names |-> Shape["RANGE"].names, units |-> Shape["RANGE"].units, covariance |-> <<>>],
   [names |-> <<"x", "y">>, units |-> <<"px", "px">>, covariance |-> <<<<1, 0>>, <<0>>>>]} \cup
  {[names |-> Shape["LOS_UNIT_VECTOR"].names, units |-> Shape["LOS_UNIT_VECTOR"].units,
    covariance |-> <<<<2, a, b>>, <<a, d, c>>, <<b, c, 2>>>>] :
     d \in {0, 2}, a, b, c \in {-2, -1, 0, 1}}

MCWeights == -2 .. 2
===============================================================================
