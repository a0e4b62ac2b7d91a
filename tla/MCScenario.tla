------------------------------ MODULE MCScenario ------------------------------
(***************************************************************************)
(* Drafts around one spacecraft with a sensor, and a draft with a debris   *)
(* and a ground station too, with up to three items added: good ones, and  *)
(* one for each way an item may clash with the others or with itself.      *)
(***************************************************************************)
EXTENDS Scenario, TLC

U(n) == [scale |-> "UTC", at |-> n]
T(n) == [scale |-> "TAI", at |-> n]

J2000 == [kind |-> "J2000", representation |-> "CARTESIAN", earthFixed |-> FALSE,
          ellipsoid |-> FALSE, owner |-> {}, at |-> {}]
Fixed == [J2000 EXCEPT !.kind = "EARTH_FIXED", !.earthFixed = TRUE]
Body(owner, n) == [J2000 EXCEPT !.kind = "BODY", !.owner = {owner}, !.at = {U(n)}]

Sensor(id) == [id |-> id, measures |-> <<"angles", "range">>, errors |-> <<"noise">>]
Craft(id, sensors) ==
  [id |-> id, kind |-> "SPACECRAFT", epoch |-> U(0), frame |-> J2000, models |-> "fake",
   capability |-> {"IMPULSIVE"}, sensors |-> sensors, environment |-> <<>>]
Debris  == [Craft("D", <<>>) EXCEPT !.kind = "OTHER_SPACE_OBJECT"]
Station == [Craft("G", <<Sensor("dish")>>) EXCEPT !.kind = "GROUND_STATION",
                                                  !.environment = <<"air">>]

MCEntities == {
  Debris, Station, Craft("A", <<>>), Craft("B", <<Sensor("eye")>>), Craft("B", <<Sensor("A")>>),
  Craft("B", <<Sensor("x"), Sensor("x")>>), [Craft("eye", <<>>) EXCEPT !.capability = {}],
  [Craft("B", <<>>) EXCEPT !.epoch = U(1)], [Craft("B", <<>>) EXCEPT !.epoch = T(0)],
  [Craft("B", <<>>) EXCEPT !.frame = Fixed], [Craft("B", <<>>) EXCEPT !.frame.at = {U(0)}],
  [Craft("B", <<>>) EXCEPT !.models = "others"],
  [Craft("B", <<>>) EXCEPT !.capability = {"IMPULSIVE", "FINITE_BURN"}],
  [Craft("B", <<[Sensor("x") EXCEPT !.measures = <<>>]>>) EXCEPT !.capability = {}],
  [Station EXCEPT !.sensors = <<Sensor("eye")>>], [Station EXCEPT !.environment = <<"air", "air">>]}

Burn(id, craft, epoch) ==
  [id |-> id, spacecraft |-> craft, epoch |-> epoch, type |-> "IMPULSIVE", frame |-> J2000,
   zero |-> FALSE]
MCManeuvers == {
  Burn("m", "A", U(1)), Burn("n", "B", U(1)), Burn("n", "A", U(-1)), Burn("n", "D", U(2)),
  Burn("n", "A", T(2)), [Burn("n", "A", U(1)) EXCEPT !.zero = TRUE],
  [Burn("n", "B", U(2)) EXCEPT !.type = "FINITE_BURN"],
  [Burn("n", "A", U(2)) EXCEPT !.frame = Body("A", 2)],
  [Burn("n", "A", U(2)) EXCEPT !.frame = Body("A", 1)],
  [Burn("n", "A", U(2)) EXCEPT !.frame = Body("B", 2)],
  [Burn("n", "A", U(2)) EXCEPT !.frame = [Fixed EXCEPT !.representation = "GEODETIC",
                                                       !.ellipsoid = TRUE]]}

Explicit(id, epochs) ==
  [id |-> id, sensor |-> "eye", target |-> "D", measure |-> "angles", error |-> {}, link |-> {},
   kind |-> "EXPLICIT", epochs |-> epochs, cadence |-> 1]
Periodic(start, end) ==
  [Explicit("p", <<start, end>>) EXCEPT !.kind = "PERIODIC", !.cadence = 3, !.error = {"noise"}]
MCSchedules ==
  {Explicit("s", epochs) : epochs \in {
     <<U(0), U(4)>>, <<U(2), T(9), U(1)>>, <<T(9), U(1), T(8)>>, <<U(2), U(1)>>, <<U(2), U(2)>>,
     <<U(1), T(7), U(3), T(8)>>, <<U(2), U(5)>>, <<U(-1)>>, <<>>}} \cup
  {Periodic(U(0), U(4)), Periodic(U(1), U(5)), Periodic(U(3), U(1)), Periodic(U(1), T(0)),
   [Explicit("p", <<U(1)>>) EXCEPT !.link = {"radio"}],
   [Explicit("p", <<U(1)>>) EXCEPT !.error = {"bias"}],
   [Explicit("p", <<U(1)>>) EXCEPT !.measure = "doppler"],
   [Explicit("p", <<U(1)>>) EXCEPT !.sensor = "dish", !.target = "A"],
   [Explicit("p", <<U(1)>>) EXCEPT !.target = "G"]}

MCSettings == {
  <<"start", U(2)>>, <<"start", U(-1)>>, <<"start", T(3)>>, <<"end", U(0)>>, <<"sync", U(3)>>,
  <<"outputs", {"TRUTH", "ATTITUDE"}>>, <<"products", <<"TRUTH", "ATTITUDE">>>>,
  <<"products", <<"TRUTH", "TRUTH">>>>, <<"outputs", {"DIAGNOSTICS", "TRUTH"}>>,
  <<"environment", [models |-> <<"gravity">>, data |-> <<"eop">>]>>,
  <<"environment", [models |-> <<"gravity">>, data |-> <<"eop", "eop">>]>>,
  <<"backend", "another">>}

Minimal ==
  [sync |-> U(0), start |-> U(0), end |-> U(4), entities |-> <<Craft("A", <<Sensor("eye")>>)>>,
   environment |-> [models |-> <<>>, data |-> <<>>],
   planned |-> <<>>, commands |-> <<>>, schedules |-> <<>>, links |-> <<>>,
   products |-> <<"TRUTH">>, outputs |-> {"TRUTH"}, backend |-> "fake"]
MCDrafts ==
  {Minimal, [Minimal EXCEPT !.entities = @ \o <<Debris, Station>>]}
===============================================================================
