------------------------------- MODULE Scenario -------------------------------
(***************************************************************************)
(* What may be run: the physical world and the run request around it       *)
(* (core/simulations.py, entities.py, sensors.py, frames.py, maneuvers.py, *)
(* schedules.py, execution.py), and the part of it the fake backend        *)
(* supports (FakeBackendConfigurationValidator, testing/fake_backend.py).  *)
(*                                                                         *)
(* An author edits a draft, one item at a time and without any check, as   *)
(* copies with changed fields are made.  Construct builds the request from *)
(* the draft, where every nested model is validated again; Admit asks the  *)
(* backend.                                                                *)
(*                                                                         *)
(* An epoch is [scale, at].  An optional field is a set of at most one     *)
(* element, a model its id, a capability the set of supported types, empty *)
(* for none.  Numbers, names and the convention of a local frame (given    *)
(* with its owner) are left out.                                           *)
(***************************************************************************)
EXTENDS Integers, Sequences, FiniteSets, SequencesExt

CONSTANTS
  Drafts,     \* drafts an author starts from
  Entities, Maneuvers, Schedules, Links, Settings,  \* items an author may add
  MaxEdits    \* bound on the items added

VARIABLES
  draft,      \* the fields of the request, world included
  edits,      \* items added so far
  verdict     \* what became of the draft as it is

vars == <<draft, edits, verdict>>

Verdicts == {"draft", "accepted", "refused", "admitted", "rejected"}

Instants == [scale : STRING, at : Int]

\* The types of the fields: a schedule lists epochs, a periodic one its start
\* and its end, with a positive cadence; a platform lists its sensors.
TypedSchedule(s) ==
  /\ s.kind \in {"EXPLICIT", "PERIODIC"}
  /\ s.epochs \in Seq(Instants)
  /\ s.kind = "PERIODIC" => Len(s.epochs) = 2 /\ s.cadence \in Nat \ {0}
TypedEntity(e) == e.sensors \in Seq(Range(e.sensors))

Fields == {"sync", "start", "end", "entities", "environment", "planned", "commands",
           "schedules", "links", "products", "outputs", "backend"}
Lists  == {"entities", "planned", "commands", "schedules", "links"}

\* What a list of a draft may hold: items it starts with, and items added.
Listable(list, items) == items \cup UNION {Range(d[list]) : d \in Drafts}

ASSUME ScenarioAssumption ==
  /\ MaxEdits \in Nat
  /\ \A d \in Drafts : /\ DOMAIN d = Fields
                       /\ d.start \in Instants /\ d.end \in Instants
                       /\ \A list \in Lists : d[list] \in Seq(Range(d[list]))
  /\ \A s \in Listable("schedules", Schedules) : TypedSchedule(s)
  /\ \A e \in Listable("entities", Entities) : TypedEntity(e)
  /\ \A f \in Settings : /\ f[1] \in Fields \ Lists
                         /\ f[1] \in {"start", "end"} => f[2] \in Instants

-------------------------------------------------------------------------------
\* _is_strictly_before_same_scale.
Before(a, b) == a.scale = b.scale /\ a.at < b.at

Field(seq, f) == [i \in DOMAIN seq |-> seq[i][f]]
Ids(seq)      == {seq[i].id : i \in DOMAIN seq}
Unique(seq)   == IsInjective(seq)

Local == {"LVLH", "VVLH", "BODY", "SENSOR"}

\* FrameRef._validate_metadata_combination.
ValidFrame(f) ==
  /\ f.kind = "J2000" =>
       /\ f.representation = "CARTESIAN"
       /\ ~f.earthFixed /\ ~f.ellipsoid /\ f.owner = {} /\ f.at = {}
  /\ f.kind = "EARTH_FIXED" =>
       /\ f.earthFixed /\ f.owner = {} /\ f.at = {}
       /\ f.ellipsoid <=> f.representation = "GEODETIC"
  /\ f.kind \in Local =>
       /\ f.representation = "CARTESIAN"
       /\ f.owner # {} /\ f.at # {} /\ ~f.earthFixed /\ ~f.ellipsoid

Hosts      == {"SPACECRAFT", "GROUND_STATION"}
Propagated == {"SPACECRAFT", "OTHER_SPACE_OBJECT"}

\* SensorDefinition: ideal measurement models, optional error profiles.
ValidSensor(s) == s.measures # <<>> /\ Unique(s.measures) /\ Unique(s.errors)

\* The definitions of spacecraft, other space objects and ground stations.
ValidEntity(e) ==
  /\ e.kind \in Propagated => ValidFrame(e.frame) /\ e.frame.representation = "CARTESIAN"
  /\ e.kind \in Hosts => /\ \A i \in DOMAIN e.sensors : ValidSensor(e.sensors[i])
                         /\ Unique(Field(e.sensors, "id"))
  /\ e.kind = "GROUND_STATION" => Unique(e.environment)

\* _validate_maneuver_frame, with the spacecraft and the epoch known.
OwnFrame(m) ==
  /\ m.frame.representation = "CARTESIAN" /\ m.frame.kind # "SENSOR"
  /\ m.frame.kind \in Local => m.frame.owner = {m.spacecraft} /\ m.frame.at = {m.epoch}

\* A maneuver specification in its planned maneuver or command.
ValidManeuver(m) == ValidFrame(m.frame) /\ ~m.zero /\ OwnFrame(m)

-------------------------------------------------------------------------------
\* What a dictionary built from a sequence in its order returns for an id.
Found(seq, id) == seq[Max({i \in DOMAIN seq : seq[i].id = id})]

\* _validate_maneuver_binding: the spacecraft the maneuver is for can do it.
Bound(m, entities) ==
  /\ m.spacecraft \in Ids(entities)
  /\ Found(entities, m.spacecraft).kind = "SPACECRAFT"
  /\ m.type \in Found(entities, m.spacecraft).capability

\* _collect_sensor_ids: the sensors of all hosts, in order.
Sensors(entities) ==
  FlattenSeq([i \in DOMAIN entities |->
                IF entities[i].kind \in Hosts THEN entities[i].sensors ELSE <<>>])

\* Variant: sensor ids are unique within each host only.
ValidWorldHostByHost(w) ==
  /\ Unique(w.environment.models) /\ Unique(w.environment.data)
  /\ \A i \in DOMAIN w.entities : ValidEntity(w.entities[i])
  /\ Unique(Field(w.entities, "id"))
  /\ Ids(w.entities) \cap Ids(Sensors(w.entities)) = {}
  /\ \E i \in DOMAIN w.entities : w.entities[i].kind \in Propagated
  /\ \A i \in DOMAIN w.entities : w.entities[i].kind \in Propagated => w.entities[i].epoch = w.sync
  /\ Unique(Field(w.planned, "id"))
  /\ \A i \in DOMAIN w.planned :
       /\ ValidManeuver(w.planned[i]) /\ Bound(w.planned[i], w.entities)
       /\ ~Before(w.planned[i].epoch, w.sync)

\* EnvironmentDefinition and SimulationDefinition.validate_world_consistency.
ValidWorld(w) ==
  /\ Unique(w.environment.models) /\ Unique(w.environment.data)
  /\ \A i \in DOMAIN w.entities : ValidEntity(w.entities[i])
  /\ Unique(Field(w.entities, "id"))
  /\ Unique(Field(Sensors(w.entities), "id"))
  /\ Ids(w.entities) \cap Ids(Sensors(w.entities)) = {}
  /\ \E i \in DOMAIN w.entities : w.entities[i].kind \in Propagated
  /\ \A i \in DOMAIN w.entities : w.entities[i].kind \in Propagated => w.entities[i].epoch = w.sync
  /\ Unique(Field(w.planned, "id"))
  /\ \A i \in DOMAIN w.planned :
       /\ ValidManeuver(w.planned[i]) /\ Bound(w.planned[i], w.entities)
       /\ ~Before(w.planned[i].epoch, w.sync)

-------------------------------------------------------------------------------
\* Variant: an epoch is compared with its neighbour, whatever that one's scale.
IncreasingNeighbours(epochs) ==
  /\ Unique(epochs)
  /\ \A i \in 2 .. Len(epochs) :
       epochs[i - 1].scale = epochs[i].scale => Before(epochs[i - 1], epochs[i])

\* ExplicitObservationSchedule.validate_epochs: each epoch is after the last
\* one before it of its own scale.
Increasing(epochs) ==
  /\ Unique(epochs)
  /\ \A i \in DOMAIN epochs :
       LET same == {j \in 1 .. i - 1 : epochs[j].scale = epochs[i].scale}
       IN  same # {} => Before(epochs[Max(same)], epochs[i])

\* SimulationTimeRange and PeriodicObservationSchedule: not empty, if the two
\* ends can be compared.
NonEmpty(start, end) == start.scale = end.scale => Before(start, end)

\* A schedule; the epochs of a periodic one are its start and its end.
ValidSchedule(s) ==
  IF s.kind = "PERIODIC" THEN NonEmpty(s.epochs[1], s.epochs[2])
  ELSE s.epochs # <<>> /\ Increasing(s.epochs)

\* The references of a schedule, and its epochs in the range of the request.
Resolved(s, r) ==
  /\ \A i \in DOMAIN s.epochs : ~Before(s.epochs[i], r.start) /\ ~Before(r.end, s.epochs[i])
  /\ s.sensor \in Ids(Sensors(r.entities))
  /\ s.target \in Ids(r.entities) /\ Found(r.entities, s.target).kind \in Propagated
  /\ LET sensor == Found(Sensors(r.entities), s.sensor) IN
     /\ s.measure \in Range(sensor.measures)
     /\ s.error \subseteq Range(sensor.errors)
  /\ s.link \subseteq Range(r.links)

\* _SAMPLING_REQUIREMENTS; a product is called after its output.
Sampled == {"TRUTH", "ATTITUDE", "GEOMETRY"}

\* SimulationRunRequest.validate_request_consistency, after the validation of
\* its fields.
ValidRequest(r) ==
  /\ ValidWorld(r)
  /\ NonEmpty(r.start, r.end) /\ ~Before(r.start, r.sync)
  /\ Unique(r.products) /\ r.outputs # {}
  /\ \A p \in Sampled : p \in Range(r.products) <=> p \in r.outputs
  /\ Unique(r.links)
  /\ Unique(Field(r.schedules, "id"))
  /\ \A i \in DOMAIN r.schedules : ValidSchedule(r.schedules[i]) /\ Resolved(r.schedules[i], r)
  /\ Unique(Field(r.commands, "id")) /\ Ids(r.planned) \cap Ids(r.commands) = {}
  /\ \A i \in DOMAIN r.commands : ValidManeuver(r.commands[i]) /\ Bound(r.commands[i], r.entities)

-------------------------------------------------------------------------------
SpacecraftIds(r) ==
  {r.entities[i].id : i \in {i \in DOMAIN r.entities : r.entities[i].kind = "SPACECRAFT"}}

\* _validate_fake_maneuver.
FakeManeuver(m, r) ==
  m.type = "IMPULSIVE" /\ m.frame.kind = "J2000" /\ m.spacecraft \in SpacecraftIds(r)

\* The entity-owned models and states FakeBackend supports.
FakeEntity(e) ==
  e.kind \in Propagated =>
    /\ e.frame.kind = "J2000" /\ e.models = "fake"
    /\ e.kind = "SPACECRAFT" => e.capability \subseteq {"IMPULSIVE"}

\* Variant: the epochs of commands are left out.
RequestEpochsUncommanded(r) ==
  {r.sync, r.start, r.end} \cup {r.planned[i].epoch : i \in DOMAIN r.planned}

\* _request_epochs.
RequestEpochs(r) ==
  {r.sync, r.start, r.end} \cup
  {r.entities[i].epoch : i \in {i \in DOMAIN r.entities : r.entities[i].kind \in Propagated}} \cup
  {r.planned[i].epoch : i \in DOMAIN r.planned} \cup
  {r.commands[i].epoch : i \in DOMAIN r.commands}

\* FakeBackendConfigurationValidator.validate.
FakeSupports(r) ==
  /\ r.backend = "fake"
  /\ r.schedules = <<>> /\ r.links = <<>>
  /\ r.environment.models = <<>> /\ r.environment.data = <<>>
  /\ "TRUTH" \in r.outputs /\ r.outputs \subseteq {"TRUTH", "ATTITUDE"}
  /\ Range(r.products) = r.outputs
  /\ \A i \in DOMAIN r.entities : FakeEntity(r.entities[i])
  /\ \A i \in DOMAIN r.planned  : FakeManeuver(r.planned[i], r)
  /\ \A i \in DOMAIN r.commands : FakeManeuver(r.commands[i], r)
  /\ \A e \in RequestEpochs(r) : e.scale = r.sync.scale

-------------------------------------------------------------------------------
Init == draft \in Drafts /\ edits = 0 /\ verdict = "draft"

Edit(changed) ==
  /\ edits < MaxEdits
  /\ draft' = changed
  /\ edits' = edits + 1 /\ verdict' = "draft"

AddEntity(e)   == Edit([draft EXCEPT !.entities = Append(@, e)])
AddPlanned(m)  == Edit([draft EXCEPT !.planned = Append(@, m)])
AddCommand(m)  == Edit([draft EXCEPT !.commands = Append(@, m)])
AddSchedule(s) == Edit([draft EXCEPT !.schedules = Append(@, s)])
AddLink(l)     == Edit([draft EXCEPT !.links = Append(@, l)])
Set(field)     == Edit([draft EXCEPT ![field[1]] = field[2]])

\* SimulationRunRequest(...).
Construct ==
  /\ verdict = "draft"
  /\ verdict' = IF ValidRequest(draft) THEN "accepted" ELSE "refused"
  /\ UNCHANGED <<draft, edits>>

\* The backend's validator, as the preparer and the runtime factory ask it.
Admit ==
  /\ verdict = "accepted"
  /\ verdict' = IF FakeSupports(draft) THEN "admitted" ELSE "rejected"
  /\ UNCHANGED <<draft, edits>>

Next ==
  \/ \E e \in Entities : AddEntity(e)
  \/ \E m \in Maneuvers : AddPlanned(m) \/ AddCommand(m)
  \/ \E s \in Schedules : AddSchedule(s)
  \/ \E l \in Links : AddLink(l)
  \/ \E f \in Settings : Set(f)
  \/ Construct \/ Admit

Spec == Init /\ [][Next]_vars

-------------------------------------------------------------------------------
Accepted == verdict \in {"accepted", "admitted", "rejected"}

\* Every id an accepted request refers to names one thing: the sensor of a
\* schedule is mounted on one platform only, and is no platform; a target and
\* the spacecraft of a maneuver are one entity; an event id in the results is
\* one maneuver.  The lookups of the code, which keep one of several things of
\* an id, can lose nothing.
ReferencesHaveOneReading ==
  Accepted =>
    LET Named(id) == {i \in DOMAIN draft.entities : draft.entities[i].id = id}
        Mounted(id) == UNION {
          {<<i, j>> : j \in {j \in DOMAIN draft.entities[i].sensors :
                               draft.entities[i].sensors[j].id = id}} :
            i \in {i \in DOMAIN draft.entities : draft.entities[i].kind \in Hosts}}
    IN  /\ \A k \in DOMAIN draft.schedules :
             /\ Cardinality(Mounted(draft.schedules[k].sensor)) = 1
             /\ Named(draft.schedules[k].sensor) = {}
             /\ Cardinality(Named(draft.schedules[k].target)) = 1
        /\ \A m \in Range(draft.planned) \cup Range(draft.commands) :
             /\ Cardinality(Named(m.spacecraft)) = 1
             /\ Cardinality({k \in DOMAIN draft.planned : draft.planned[k].id = m.id}) +
                  Cardinality({k \in DOMAIN draft.commands : draft.commands[k].id = m.id}) = 1

\* The epochs at which a schedule attempts an observation.
Attempts(s) ==
  IF s.kind = "EXPLICIT" THEN s.epochs
  ELSE [k \in 1 .. 1 + (s.epochs[2].at - s.epochs[1].at) \div s.cadence |->
          [scale |-> s.epochs[1].scale, at |-> s.epochs[1].at + (k - 1) * s.cadence]]

\* In an accepted request whose scales leave no doubt, no schedule attempts an
\* observation outside the range of the run, and the attempts of one scale never
\* go back in time, however they are interleaved with those of another.
AttemptsRunForward ==
  Accepted =>
    \A k \in DOMAIN draft.schedules :
      LET s == draft.schedules[k] IN
      s.kind = "EXPLICIT" \/ s.epochs[1].scale = s.epochs[2].scale =>
        /\ \A i, j \in DOMAIN Attempts(s) :
             i < j /\ Attempts(s)[i].scale = Attempts(s)[j].scale =>
               Attempts(s)[i].at < Attempts(s)[j].at
        /\ \A i \in DOMAIN Attempts(s) :
             /\ Attempts(s)[i].scale = draft.start.scale => Attempts(s)[i].at >= draft.start.at
             /\ Attempts(s)[i].scale = draft.end.scale => Attempts(s)[i].at <= draft.end.at

\* What the runtime refuses of a maneuver, at the epoch it was prepared for.
RuntimeRefuses(m, r) ==
  \/ m.type # "IMPULSIVE" \/ m.frame.kind # "J2000"
  \/ m.spacecraft \notin SpacecraftIds(r)
  \/ m.epoch.scale # r.sync.scale

\* A request the validator admits gives the runtime nothing to refuse: all
\* objects start at one epoch, and every maneuver, planned or commanded, is one
\* it can execute, on a spacecraft whose propulsion allows it.
AdmittedRunsAreSupported ==
  verdict = "admitted" =>
    /\ \A i \in DOMAIN draft.entities :
         draft.entities[i].kind \in Propagated => draft.entities[i].epoch = draft.sync
    /\ \A m \in Range(draft.planned) \cup Range(draft.commands) :
         /\ ~RuntimeRefuses(m, draft)
         /\ m.type \in Found(draft.entities, m.spacecraft).capability
    /\ draft.end.scale = draft.sync.scale /\ draft.start.scale = draft.sync.scale
===============================================================================
