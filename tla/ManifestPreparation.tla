------------------------- MODULE ManifestPreparation -------------------------
(***************************************************************************)
(* ManifestPreparer.prepare (engine/preparation.py), the manifest it       *)
(* creates (SimulationExecutionManifest, core/execution.py), and what      *)
(* BatchRunner.run checks of the manifest it is given (engine/execution.py)*)
(*                                                                         *)
(* Between the two calls the manifest is a value in its holder's hands:    *)
(* stored, reloaded, copied with changed fields, perhaps run by another    *)
(* engine.  A digest is modelled by the value it digests, so equal digests *)
(* mean equal contents.                                                    *)
(***************************************************************************)
EXTENDS Integers, Sequences, FiniteSets, SequencesExt

CONSTANTS
  Requests,       \* requests a client may build
  Registries,     \* registries an engine may have: registrations by reference
  Incomparable,   \* epochs of another scale than the others
  Changes(_),     \* manifest bodies a holder may turn a body into
  MaxChanges      \* bound on the changes of one manifest

VARIABLES
  request,    \* the request to prepare
  registry,   \* the registry of the engine at work
  stage,      \* the next check of prepare, then of run
  error,      \* the code of the error raised
  entries,    \* prepared_maneuvers
  prepared,   \* the manifest prepare returned
  held,       \* the manifest its holder has

\* History variables, read by the properties only.
  changes,    \* changes of the manifest so far
  rehashed,   \* whether the holder computed a content hash of its own
  moved       \* whether it is run by another engine

prepareVars == <<request, entries, prepared>>
holderVars  == <<held, changes, rehashed, moved>>
vars == <<registry, stage, error, prepareVars, holderVars>>

PrepareStages == <<"request", "resolve", "snapshot", "scope", "capabilities",
                   "configuration", "epochs", "merge", "create">>
Stages == {PrepareStages[i] : i \in DOMAIN PrepareStages}
            \cup {"held", "validate", "locate", "provenance", "accepted", "failed", "rejected"}
NoManifest == [body |-> <<>>, contentHash |-> <<>>]

ASSUME PreparationAssumption == MaxChanges \in Nat

-------------------------------------------------------------------------------
\* _is_strictly_before_same_scale: epochs of different scales have no order.
Before(a, b) == a \notin Incomparable /\ b \notin Incomparable /\ a < b

Ids(events) == {events[i].id : i \in DOMAIN events}
AllEvents(r) == r.planned \o r.commands

\* Validation of a request by Core: the epochs it can order (planned maneuvers
\* are not before the synchronization, commands may be), identities, and a
\* sampling rule for exactly the sampled outputs.
Valid(r) ==
  /\ Before(r.start, r.end) \/ {r.start, r.end} \cap Incomparable # {}
  /\ ~Before(r.start, r.sync)
  /\ \A i \in DOMAIN r.planned : ~Before(r.planned[i].epoch, r.sync)
  /\ Cardinality(Ids(AllEvents(r))) = Len(AllEvents(r))
  /\ r.outputs # {}
  /\ \A p \in {"TRUTH", "ATTITUDE", "GEOMETRY"} : p \in r.outputs <=> p \in DOMAIN r.sampling

\* _validate_v01_scope; features stands for observations, links, other frames
\* and finite burns.
InScope(r) ==
  /\ r.features = {}
  /\ "TRUTH" \in r.outputs /\ r.outputs \subseteq {"TRUTH", "ATTITUDE"}

\* _required_backend_capabilities.
Required(r) ==
  {"base"} \cup {"attitude" : p \in r.outputs \cap {"ATTITUDE"}}
           \cup {"impulse" : i \in DOMAIN AllEvents(r)}

Registration == registry[request.backend]

\* _consumed_epochs, each compared with the synchronization epoch; that of an
\* initial state is the synchronization epoch itself (SimulationDefinition).
Consumed(r) ==
  {r.sync, r.start, r.end} \cup {AllEvents(r)[i].epoch : i \in DOMAIN AllEvents(r)}

-------------------------------------------------------------------------------
\* Source events: an event with its list and its position in that list.
Source(r) ==
  {[source |-> "PLANNED", position |-> i, event |-> r.planned[i]] : i \in DOMAIN r.planned}
    \cup
  {[source |-> "COMMAND", position |-> i, event |-> r.commands[i]] : i \in DOMAIN r.commands}

\* Variant of _candidate_order: commands first.
PrecedesCommandFirst(a, b) ==
  \/ a.event.epoch < b.event.epoch
  \/ /\ a.event.epoch = b.event.epoch
     /\ \/ a.source = "COMMAND" /\ b.source = "PLANNED"
        \/ a.source = b.source /\ a.position < b.position

\* _candidate_order: the epoch, planned before commands, the source position.
Precedes(a, b) ==
  \/ a.event.epoch < b.event.epoch
  \/ /\ a.event.epoch = b.event.epoch
     /\ \/ a.source = "PLANNED" /\ b.source = "COMMAND"
        \/ a.source = b.source /\ a.position < b.position

\* _prepare_maneuvers: the source events in that order, numbered from 0.
Merged(r) ==
  LET ordered == CHOOSE s \in SetToSeqs(Source(r)) :
                   \A i, j \in DOMAIN s : i < j => Precedes(s[i], s[j])
  IN  [i \in DOMAIN ordered |->
         [order |-> i - 1, source |-> ordered[i].source,
          id |-> ordered[i].event.id, epoch |-> ordered[i].event.epoch]]

\* SimulationExecutionManifest.create: everything is digested, the source
\* request and its definition on their own too.
Body(r, timeline) ==
  [request |-> r, requestHash |-> r, definitionHash |-> <<r.sync, r.planned>>,
   plugin |-> [ref |-> r.backend, configuration |-> r.configuration],
   outputs |-> r.outputs, sampling |-> r.sampling, timeline |-> timeline]

Sealed(body) == [body |-> body, contentHash |-> body]

\* A maneuver as the cross-check of a manifest compares it.
SourceManeuvers(r) ==
  {[source |-> s.source, id |-> s.event.id, epoch |-> s.event.epoch] : s \in Source(r)}
PreparedManeuvers(timeline) ==
  {[source |-> timeline[i].source, id |-> timeline[i].id, epoch |-> timeline[i].epoch] :
     i \in DOMAIN timeline}

\* Variant of the cross-check: maneuvers are compared by identity only.
IntactByIdentity(m) ==
  /\ Valid(m.body.request)
  /\ \A i \in DOMAIN m.body.timeline : m.body.timeline[i].order = i - 1
  /\ Cardinality(Ids(m.body.timeline)) = Len(m.body.timeline)
  /\ m.body.outputs = m.body.request.outputs /\ m.body.sampling = m.body.request.sampling
  /\ Ids(m.body.timeline) = Ids(AllEvents(m.body.request))
  /\ m.body.requestHash = m.body.request
  /\ m.body.definitionHash = <<m.body.request.sync, m.body.request.planned>>
  /\ m.contentHash = m.body

\* Validation of a manifest: order indices and identities of the timeline, its
\* maneuvers as a mapping, so not their order, and the three digests.
Intact(m) ==
  /\ Valid(m.body.request)
  /\ \A i \in DOMAIN m.body.timeline : m.body.timeline[i].order = i - 1
  /\ Cardinality(Ids(m.body.timeline)) = Len(m.body.timeline)
  /\ m.body.outputs = m.body.request.outputs /\ m.body.sampling = m.body.request.sampling
  /\ PreparedManeuvers(m.body.timeline) = SourceManeuvers(m.body.request)
  /\ m.body.requestHash = m.body.request
  /\ m.body.definitionHash = <<m.body.request.sync, m.body.request.planned>>
  /\ m.contentHash = m.body

\* Variant: a backend is expected to have no configuration.
ProvenanceUnconfigured(body) == body.plugin = [ref |-> body.request.backend, configuration |-> {}]

\* _validate_backend_provenance: the record of the backend in the manifest.
Provenance(body) ==
  body.plugin = [ref |-> body.request.backend, configuration |-> body.request.configuration]

-------------------------------------------------------------------------------
Init ==
  /\ request \in Requests /\ registry \in Registries
  /\ stage = "request" /\ error = "none"
  /\ entries = <<>> /\ prepared = NoManifest /\ held = NoManifest
  /\ changes = 0 /\ rehashed = FALSE /\ moved = FALSE

\* One check of prepare or run: the next stage if it holds, else an error.
Check(from, holds, next, failure, code) ==
  /\ stage = from
  /\ \/ holds /\ stage' = next /\ UNCHANGED error
     \/ ~holds /\ stage' = failure /\ error' = code

Prepares(from, holds, next, code) ==
  /\ Check(from, holds, next, "failed", code)
  /\ UNCHANGED <<registry, request, entries, prepared, holderVars>>

CheckRequest ==
  Prepares("request", Valid(request), "resolve", "request_invalid")

ResolveBackend ==
  Prepares("resolve", request.backend \in DOMAIN registry, "snapshot", "backend_missing")

SnapshotPlugin ==
  Prepares("snapshot", Registration.valid, "scope", "backend_manifest_invalid")

CheckScope ==
  Prepares("scope", InScope(request), "capabilities", "unsupported")

CheckCapabilities ==
  Prepares("capabilities",
    Required(request) \subseteq Registration.capabilities /\ Registration.deterministic,
    "configuration", "capabilities_missing")

\* The validator of the plugin accepts, refuses with its own error, or raises
\* something else, which becomes an internal error.
CheckConfiguration ==
  Prepares("configuration", Registration.validator = "accepts", "epochs",
    IF Registration.validator = "refuses" THEN "plugin_error" ELSE "internal_error")

\* So does the time adapter of the plugin.
CheckEpochs ==
  Prepares("epochs",
    Registration.adapter = "works" /\ Consumed(request) \cap Incomparable = {}, "merge",
    IF Registration.adapter = "works" THEN "time_incompatible" ELSE "internal_error")

Merge ==
  /\ stage = "merge" /\ stage' = "create"
  /\ entries' = Merged(request)
  /\ UNCHANGED <<registry, error, request, prepared, holderVars>>

\* The manifest that Core creates validates itself.
Create ==
  /\ stage = "create"
  /\ LET m == Sealed(Body(request, entries)) IN
     \/ /\ Intact(m)
        /\ stage' = "held" /\ prepared' = m /\ held' = m
        /\ UNCHANGED error
     \/ /\ ~Intact(m)
        /\ stage' = "failed" /\ error' = "preparation_invalid"
        /\ UNCHANGED <<prepared, held>>
  /\ UNCHANGED <<registry, request, entries, changes, rehashed, moved>>

-------------------------------------------------------------------------------
\* The holder copies the manifest with changed fields.
Change ==
  /\ stage = "held" /\ changes < MaxChanges
  /\ \E body \in Changes(held.body) : held' = [held EXCEPT !.body = body]
  /\ changes' = changes + 1
  /\ UNCHANGED <<registry, stage, error, prepareVars, rehashed, moved>>

\* It computes the content hash of what it has.
Rehash ==
  /\ stage = "held" /\ held.contentHash # held.body
  /\ held' = Sealed(held.body)
  /\ rehashed' = TRUE
  /\ UNCHANGED <<registry, stage, error, prepareVars, changes, moved>>

\* It takes the manifest to another engine.
Move ==
  /\ stage = "held"
  /\ registry' \in Registries /\ moved' = TRUE
  /\ UNCHANGED <<stage, error, prepareVars, held, changes, rehashed>>

Run ==
  /\ stage = "held" /\ stage' = "validate"
  /\ UNCHANGED <<registry, error, prepareVars, holderVars>>

Runs(from, holds, next, code) ==
  /\ Check(from, holds, next, "rejected", code)
  /\ UNCHANGED <<registry, prepareVars, holderVars>>

ValidateManifest == Runs("validate", Intact(held), "locate", "manifest_invalid")

LocateBackend ==
  Runs("locate", held.body.request.backend \in DOMAIN registry, "provenance", "backend_missing")

CheckProvenance ==
  Runs("provenance", Provenance(held.body), "accepted", "backend_provenance_mismatch")

Done == stage \in {"accepted", "failed", "rejected"} /\ UNCHANGED vars

Next ==
  \/ CheckRequest \/ ResolveBackend \/ SnapshotPlugin \/ CheckScope \/ CheckCapabilities
  \/ CheckConfiguration \/ CheckEpochs \/ Merge \/ Create
  \/ Change \/ Rehash \/ Move
  \/ Run \/ ValidateManifest \/ LocateBackend \/ CheckProvenance
  \/ Done

Spec == Init /\ [][Next]_vars

-------------------------------------------------------------------------------
PreparationTypeOK ==
  /\ request \in Requests /\ registry \in Registries
  /\ stage \in Stages
  /\ rehashed \in BOOLEAN /\ moved \in BOOLEAN
  /\ changes \in 0 .. MaxChanges
  /\ error = "none" <=> stage \notin {"failed", "rejected"}

\* The timeline is in the order the runner executes it: by instant, planned
\* maneuvers before commands, each list in the order its author gave it.
TimelineOrdered ==
  prepared # NoManifest =>
    LET timeline == prepared.body.timeline
        Place(source, events, k) == CHOOSE i \in DOMAIN timeline :
          timeline[i].source = source /\ timeline[i].id = events[k].id
    IN  /\ \A i, j \in DOMAIN timeline : i < j =>
             \/ timeline[i].epoch < timeline[j].epoch
             \/ /\ timeline[i].epoch = timeline[j].epoch
                /\ timeline[i].source = "PLANNED" \/ timeline[j].source = "COMMAND"
        /\ \A j, k \in DOMAIN request.planned :
             j < k /\ request.planned[j].epoch = request.planned[k].epoch =>
               Place("PLANNED", request.planned, j) < Place("PLANNED", request.planned, k)
        /\ \A j, k \in DOMAIN request.commands :
             j < k /\ request.commands[j].epoch = request.commands[k].epoch =>
               Place("COMMAND", request.commands, j) < Place("COMMAND", request.commands, k)

\* What passed every check of prepare can form a manifest, which goes through
\* run as it left prepare: where Engine and Core derive the same thing from the
\* request by different code, they agree.
EngineAgreesWithCore ==
  /\ error # "preparation_invalid"
  /\ stage = "rejected" => changes > 0 \/ moved

\* Whatever its holder did, a manifest that run accepts has every maneuver of
\* its source request exactly once and nothing else, its outputs, its sampling
\* and the backend it was resolved to.
AcceptedIsConsistent ==
  stage = "accepted" =>
    LET body == held.body
        r    == body.request
    IN  /\ Valid(r)
        /\ Len(body.timeline) = Len(AllEvents(r))
        /\ \A e \in SourceManeuvers(r) :
             \E i \in DOMAIN body.timeline :
               /\ body.timeline[i].source = e.source
               /\ body.timeline[i].id = e.id /\ body.timeline[i].epoch = e.epoch
        /\ body.outputs = r.outputs /\ body.sampling = r.sampling
        /\ body.plugin = [ref |-> r.backend, configuration |-> r.configuration]
        /\ r.backend \in DOMAIN registry

\* A changed manifest whose hash was not computed again is never executed.
HashProtects == stage = "accepted" /\ ~rehashed => held = prepared
===============================================================================
