---------------------------- MODULE MCBatchRunner ----------------------------
(***************************************************************************)
(* Instances of the batch runner: a sync epoch before the formal start, a  *)
(* prestart maneuver, two maneuvers of one object and one of another in    *)
(* one group, groups without samples, and every batch size from one record *)
(* to more than the run produces.                                          *)
(***************************************************************************)
EXTENDS BatchRunnerProperties

Mv(event, entity) == [event |-> event, entity |-> entity]
Gr(at, maneuvers, products) ==
  [epoch |-> at, maneuvers |-> maneuvers, products |-> products]

Truth == {"truth_states"}
Both  == {"truth_states", "attitude_states"}

\* Prestart maneuver, busy middle group, mixed cadences.
Busy == << Gr(1, <<Mv("m1", "a")>>, {}),
           Gr(2, <<Mv("m2", "a"), Mv("m3", "b"), Mv("m4", "a")>>, Both),
           Gr(3, <<>>, Truth) >>
\* No maneuver at all; the two products share only the end.
Quiet == << Gr(1, <<>>, Both), Gr(2, <<>>, Truth), Gr(3, <<>>, Both) >>
\* More output than any of the others.
Full == << Gr(1, <<>>, Both), Gr(2, <<Mv("m1", "a")>>, Both), Gr(3, <<>>, Both) >>
\* A maneuver at the very end.
AtEnd == << Gr(0, <<>>, Truth), Gr(3, <<Mv("m1", "b")>>, Truth) >>

MCSpaceObjects == <<"a", "b">>

MCInputs == [groups : {Busy, Quiet, AtEnd}, batchSize : 1 .. 3]
              \cup [groups : {Full}, batchSize : {3}]
===============================================================================
