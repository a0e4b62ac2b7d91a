# A TLA+ verification of the SycaSphere Engine

SycaSphere (`packages/sycasphere-core`, `packages/sycasphere-engine`) validates a
simulation request, prepares an immutable manifest from it, and executes the
manifest synchronously against a science backend, streaming Truth states,
attitudes and executed maneuvers into an output sink. Another thread may cancel
a run. This directory models the preparation and the execution of a manifest and
states what makes them correct. Paths below are relative to `packages/sycasphere-engine/src/sycasphere/engine`
(E) and `packages/sycasphere-core/src/sycasphere/core` (C).

## 1. Inventory

| component | state | operations | interacts with | hard behaviour |
|---|---|---|---|---|
| batch runner (E/execution.py) | locals of one `run()`: runtime, `close_attempted`, `sink_begun`, the three output buffers and their counters | `run` | calls the registry, the runtime, the schedule generator, the sink; reads the token | every call may raise; the token is set by another thread between any two steps; clean-up may fail; groups are atomic but flushes happen inside them |
| output sinks (E/sinks.py) | `_status`, retained records | begin, three writes, commit, abort | called by the runner or a composite | single use, shared bound over three channels, self-abort on overflow |
| composite sink (E/sinks.py) | `_child_statuses` and the children | the same | forwards to children in order | partial begin, write and commit; rollback that fails |
| event schedule (E/scheduling.py) | one look-ahead per sampler, a maneuver cursor | advance the generator | consumed lazily by the runner; calls the time adapter | ties between cadences and maneuvers, boundaries of the range, rounding of durations |
| cancellation token (E/cancellation.py) | one event | `cancel`, `is_cancelled` | set by the caller, read by runner and runtime | races with the commit |
| backend ports (E/backend.py) | the runtime's epoch and states | initialize, propagate, execute, snapshot, close | driven by the runner | may break its contract: the runner checks its answers |
| manifest preparation (E/preparation.py, the manifest of C/execution.py) | none; the manifest it returns stays with its holder | `prepare`; the checks at the head of `run` | registry, time adapter and validator of the plugin | order of validation stages, stable merge of planned and commanded maneuvers, manifests that are changed or run by another engine |
| fake backend (E/testing/fake_backend.py) | lifecycle, entity states | the runtime port, its validator | driven by the runner, asked by preparation | all-or-nothing propagation with two token reads; a validator and a runtime that must agree |
| time (C/epoch.py, C/schedules.py, the adapter of E/scheduling.py) | none | reading, normalisation, ordering, addition | everywhere | many notations of one instant, carries, fractions of any length, leap seconds, two orders by different code |
| scenario and request (C/simulations.py, entities.py, sensors.py, frames.py, maneuvers.py, schedules.py, C/execution.py) | none | validation of immutable values that refer to one another | request, preparation, fake validator | identities across lists and hosts, epochs of several scales |
| observation contracts (C/observations.py) | none | measurements, covariances, ideal and reported observations | produced outside this repository, read by algorithms | alignment by position, underflow, covariances that are none |
| delivery contracts (C/delivery.py) | none | records, summaries, envelopes | the same | which combinations of fields tell a possible history |
| registry, api, errors (E) | immutable lookup table | resolve, `prepare`, `run` | delegate to the above | none |
| serialisation and helpers (rest of C) | none | canonical JSON, digests, field checks | all of Core | local to one value |

What makes each correct:

* runner - output is published whole or not at all, complete and in order; a
  request for cancellation is honoured at the next boundary and always prevents
  a commit it can still prevent; the runtime is closed once on every way out;
  the outcome agrees with the sink; the first failure is the one reported.
* sink - the single-use lifecycle and the bound; nothing is lost silently.
* composite - looks like one sink; never leaves a child open; children it
  committed agree; others' sinks are not touched.
* schedule - groups strictly increase; every maneuver that runs is in exactly
  the group of its instant; every cadence covers its range including both ends.
* preparation - the timeline is in the order the schedule relies on, with ties
  broken by source and by the author's order; foreign code is asked only about
  requests that passed the checks before it; what `run` accepts is consistent
  with its source request, and what `prepare` returned is accepted.
* fake runtime - positions depend on when burns were due, never on how a run was
  cut into propagations; all objects move or none; one lifetime.
  A step that fails in the middle makes the runtime unusable, never wrong.
* a run as a whole - committed Truth is what the manifest's maneuvers do to the
  initial states, at every sample; a manifest as prepared runs to its end, one
  that was reordered is never published.
* time - an epoch is the instant it was written as, whatever the notation;
  equality, Core's order and the adapter's order are the order of time; additions
  are exact.
* scenario - each reference in an accepted request names one thing; schedules
  go forward and stay in range; what the validator admits the runtime executes.
* observation - a covariance row belongs to the value at its place; no variance
  is further below zero than the tolerance, and zero means certainty that was
  declared.
* delivery - what is accepted tells a history that can happen, and every history
  that can happen is accepted.

`PROJECT.json` lists the hazards behind these, each at its line.

## 2. Modules

| module | models |
|---|---|
| `OutputSink` | `_LifecycleOutputSink` and `InMemoryOutputSink`: one action per operation, parameterised by the outcome the caller sees |
| `CompositeSink` | `CompositeOutputSink`: EXTENDS `OutputSink` for its own lifecycle and INSTANCEs it once per child |
| `EventSchedule` | `iter_event_groups` with its samplers |
| `BatchRunner` | `BatchRunner.run` with `_OutputBuffers`; EXTENDS `OutputSink` and uses its operations as parts of its own steps |
| `BatchRunnerProperties` | types, safety and liveness properties of a run, refinement mapping |
| `AtomicRun` | abstract contract of a run |
| `BatchRunnerInvariant` | the inductive invariant |
| `BatchRunnerProofs`, `EventScheduleProofs` | theorems; the first about `OutputSink` too |
| `SequenceLemmas` | lemmas on numbers, `FlattenSeq`, sums over sets and elements of sequences, which other proofs cite |
| `ManifestPreparation` | `ManifestPreparer.prepare`, `SimulationExecutionManifest.create` and its validation, the registry, and the manifest checks of `BatchRunner.run` |
| `FakeRuntime` | `_FakeScienceBackendRuntime`: initialize, propagate_to, execute_impulsive_maneuver, close |
| `RuntimeContract` | abstract contract of a `ScienceBackendRuntime` |
| `FakeRuntimeProofs`, `ManifestPreparationProofs`, `CompositeSinkProofs` | theorems |
| `EngineRun` | `BatchRunner.run` composed with `EventSchedule`, `FakeRuntime` and `OutputSink`, each by INSTANCE |
| `Calendar` | `Epoch` and `SameScaleCalendarTimeAdapter` |
| `Scenario` | `SimulationDefinition`, `SimulationRunRequest` and the fake backend's validator |
| `Observation` | `ObservationMeasurement`, `MeasurementUncertainty`, `IdealObservation`, `ReportedObservation` |
| `Delivery` | `ObservationDeliveryRecord`, `DeliverySummary`, `StreamingObservationEnvelope` |
| `EngineRunProofs`, `ContractProofs` | theorems; the second about `Scenario`, `Observation` and `Delivery` |
| `MC*` | instances for TLC |

### BatchRunner

`pc` names the next call that leaves the runner or the next read of the token,
in the order of the source: entry, create, initialize, ... , close, lastCheck,
commit, return, and the two clean-up paths `cancelClose/cancelAbort`
(`cancel_active`) and `failClose/failAbort` (the `except Exception` block). What
happens between two such points touches only locals, so it is one action. The
schedule is `input.groups`; a backend answer is an existential choice, restricted
to good answers unless `Faults` admits others. A record is what tells outputs
apart: object, instant, number of maneuvers executed before it (a sample), or
event, object, instant and the states around it (a maneuver). `Cancel` is the
other thread, `Interrupt` a `BaseException`, which no handler of `run()` catches.

The result is built before `sink.commit` in the code; only its status and
summary matter here, and both are fixed by then, so `ReturnCompleted` records
them after the commit.

`mark`, `writes`, `closeCalls` and `raised` are history variables: no guard
reads them except `First`, which only fills `raised`.

### CompositeSink

One action per child call, because each may raise. The client is a runner: it
begins, writes, commits, aborts after a failure, and does not abort a sink whose
`begin` raised. `ChildStates` lets a child be in any state when the composite
gets it. `stored` stands for what the composite forwarded to all its children.
`failures` is history: the child calls of the operation that raised, in order, of
which `error`, the exception the code carries to its `raise`, should be the first.

### EventSchedule

Instants are numbers, compared exactly as the adapter does with decimals.
`seconds_between` returns a float, so `AfterSample` allows it to be off by up to
`Ulp`. `remaining` is `maneuvers[maneuver_cursor:]` as a set of `order_index`
values; order inside a group is the order of the indices.

### ManifestPreparation

`stage` is the next check of `prepare`, in the order of the source, then the
holder's turn, then the next check of `run`; each check is an action that goes on
or ends with its error code. The plugin's validator and time adapter are foreign
code that may accept, refuse or raise. Between the calls the manifest is a value:
`Change` is `model_copy(update=...)`, which validates nothing, or an edited file;
`Rehash` computes the content hash of what is there; `Move` hands it to an engine
with another registry.

Epochs are integers, with values of another scale that compare with nothing. A
digest is the value it digests, so digests are injective by assumption. A
maneuver keeps its identity and its epoch; its vector and spacecraft travel with
them. `features` stands for everything `_validate_v01_scope` refuses besides the
outputs. `Intact` compares the timeline with the request as the code does, as a
mapping from identity to content, hence not its order. The token that `run` reads
between validation and lookup belongs to `BatchRunner`.

`TimelineOrdered` includes what `EventSchedule` assumes of a timeline
(`Prepared`): never back in time.

### FakeRuntime

`_states` is one function per field. No operation mixes components of a vector,
so vectors have one component; numbers are exact integers, and a magnitude above
`Limit` stands for a non-finite float. `propagate_to` is cut at its second token
read and inside its update loop. `MayFailCopy` lets an array copy of that loop
fail, the one way to leave objects at two epochs. The runtime implements
`RuntimeContract` in either case, with the least epoch of its objects as the epoch
reached: that of before the call while the loop runs, and for good if it fails.
`impulse` and `moment` are history: the sums of deltaV and
of deltaV times the epoch of the burn, from which `Ballistic` derives where an
object must be.

### EngineRun

`BatchRunner` shows what the runner does whatever its environment answers; here
the environment is the real one. The schedule's `YieldGroup`, the runtime's
`Propagate`, `Decide`, `Update`, `Execute` and the sink's operations are used as
they stand, so a change of any of these modules is a change of the composition.
The runner's part is `BatchRunner`'s with `batch_size` 1, and its steps between
two points another thread can see are joined. A manifest is `start`, `end`,
cadence and a timeline, in any order.

### Calendar

A date is a day, a minute of that day, a second of that minute (the last one a
leap second) and digits, with bounds that make every carry and every border near.
`Written` are the notations; `Normalize` and `Serialized` are what the two writers
of the code produce; `Precision` is that of the default decimal context, in which
`add_seconds` computes the fraction of its offset. `instants` is history: what the
two epochs should stand for, by arithmetic on a row of units. `Units` and
`Quotients` are the two readings of a fraction, digits to number and number to
digits, as recursive functions of the place. `seconds_between` returns
`Float[Difference(l, r)]`, where `Float` is any conversion that keeps the order and
leaves numbers of few digits (`Exact`) alone; TLC takes three significant bits,
rounded half to even. `%Y` is taken to write four digits (see Findings), and digits
are ASCII (see Not modelled).

### Scenario

A draft grows item by item without checks, is constructed (`ValidRequest`: all
validators, nested ones first), then shown to the fake backend
(`FakeSupports`). Constructing and admitting change only `verdict`; what is
modelled is which drafts pass. An epoch is a scale and a number, with two scales,
because Core leaves cross-scale order open and compares what it can. Conventions
of frames, numbers and names inside one value are left out.

### Observation and Delivery

Who produces observations and delivery records is outside the repository's
source; the modules let a producer offer any value of a bounded shape, right or
wrong, and state what is known of those Core accepts. In `Observation`, floats
are multiples of the smallest one: exact where a square underflows, and where it
overflows. A covariance is accepted with the tolerance of the code, `Tolerance`
parts of 1.0 in `Fine` (10^12) relative to its largest entry or 1.0 (`Scale`).
numpy decides on rounded numbers, so the outcome of each of its two comparisons is
that of a tolerance within `Rounding` of the stated one (`Tolerances`), chosen anew
each time. The smallest eigenvalue is at least `-t` exactly if the matrix raised by
`t` on its diagonal is semidefinite: `Shifted` builds that matrix of the symmetric
part, in integers, and `Semidefinite` decides it for any number of components by
elimination without fractions (`Eliminated`). `Weights` are the coefficients with
which an algorithm may combine components. Unit vectors are exactly of length 1.0;
no property depends on their tolerance.

In `Delivery`, a producer hands Core one artifact and Core judges it alone: nothing
in the source holds an envelope or a summary against records. `Histories` enumerates
what may happen to one event (geometry, sensor, quality, link, in that order), and
`FactsTellHistories` compares it with what is accepted, in both directions. Its
comment says what it leaves open because the code does: the latency of a record is
not tied to its epochs, the reason of a delivered event is any, and counts may be
wrong if their sum is right.

## 3. Runs

| run | question | bounds |
|---|---|---|
| `composite` | partial failures, rollback, and refinement of a single sink | 3 children, of which one overflows and some are not NEW, 3 writes |
| `schedule` | merge of cadences and maneuvers | ranges of 0 to 4 instants, cadences that divide, do not divide or exceed them, up to 3 maneuvers around every boundary, rounded durations |
| `runner_faults` | safety with every fault | 4 schedules, batch sizes 1 to 3: batches that end inside a group, at its end and never; a sink that the largest schedule overflows |
| `runner_recovers` | cancellation timing, termination, atomicity to the caller | as above, one state; calls may raise but answer what they promise |
| `fake_runtime` | ballistic paths, atomic propagation, cancellation, failed copies, the runtime contract | 2 spacecraft and 1 other object, epochs 0 to 4 around a start at 1 and one of another scale, burns that are late, early, unsupported, of unknown objects or too strong, `Limit` small enough that propagation and burns overflow |
| `preparation` | order and agreement of preparation, and what the checks of `run` guarantee | up to 4 maneuvers with ties in and across both lists, before the synchronization or of another scale; colliding ids; 8 registries, one without the backend; 2 changes of 15 kinds |
| `engine_run` | is what is committed the physics asked for; do prepared runs complete and reordered ones fail | ranges of 2 or 3 instants, two cadences, every timeline of two entries, triples in and out of order, two spacecraft, a sink that the largest runs overflow |
| `calendar` | notations, carries, order, addition | 2 days of 2 minutes of 2 seconds with a leap second, 2 binary digits, floats of 3 bits, so that most differences over two seconds are rounded, offsets over a day border both ways, sums past both ends of the calendar |
| `calendar_precision` | the same with fractions longer than the decimal context; expected to fail | one significant digit |
| `observation` | alignment, underflow and overflow of variances, how negative a variance may be | every standard measurement and a custom one, 20 wrong ones, deviations at each rounding border, covariances of one to three components, among them asymmetric and indefinite ones on both sides of the tolerance and some with a largest entry above 1.0, combined with weights from -2 to 2; the tolerance is a tenth and numpy may err by all of it |
| `delivery` | which histories records, envelopes and counts stand for | 2 events, 3 epochs of one scale and one of another, counts to 2 |
| `scenario` | identities, schedule epochs, validator and runtime | up to 3 items of six kinds added to 2 worlds |

The schedules of `MCBatchRunner` contain a maneuver before the first sample, a
group with two maneuvers of one object around one of another, a group without
maneuvers and one at the very end; three groups are enough for a boundary before,
between and after groups. Batch sizes above the records of a run behave like its
largest one. All actions and disjuncts fire in the runs.

The two runs of the runner differ in what its environment may do. Where a
backend may answer wrongly (`drift`, `outcome`) a run can report CANCELLED without
a request and its epochs are not those of its groups, so the properties that
relate a run to its schedule and to its caller's request are checked in
`runner_recovers`; the ones that must hold whatever happens, in `runner_faults`.
Both admit an escaping `BaseException`, which skips the clean-up by design and
must still not lead to a commit.

Deadlock checking is off where the system really stops: a client of a composite
that is done, a scenario, observation or delivery whose bounded inputs are used up.

Fairness, in `runner_recovers` and `engine_run`, is weak fairness of the runner's own step. `run()` is a single
synchronous thread and every call it makes is assumed to return; nothing is
assumed of the cancelling thread or of interrupts.

Each property has a mutant in `PROJECT.json`: a variant of one mapped
definition, written before it in its module (its comment starts with "Variant"),
under which TLC finds the property violated. The specifications never use them.

### Findings

`calendar_precision`: `add_seconds` (E/scheduling.py:244) subtracts the floor of
its offset in the default context of 28 digits, before it opens a context with the
digits it needs. A small negative offset is cut, although the class promises exact
arithmetic (E/scheduling.py:186). The samplers add positive intervals only, for
which the subtraction is exact. `calendar` has digits enough and shows everything
else of the addition to be right.

Not a run, as it depends on the platform: `strftime("%Y")` in C/epoch.py:158 and
E/scheduling.py:175 does not pad years below 1000 with every C library, and `Epoch`
would not read its own normal form again.

## 4. Theorems

All for every value of the constants allowed by the modules' assumptions
(`SinkAssumption`, `RunnerAssumption`, `ScheduleAssumption`, `RuntimeAssumption`,
`PreparationAssumption`, `CompositeAssumption`, `ManifestAssumption`,
`ObjectsAssumption`, `ScenarioAssumption`, `ObservationAssumption`,
`DeliveryAssumption`, `CalendarAssumption`, `FloatAssumption`): any number of
groups, maneuvers, objects, records, drafts and items, any bound, batch size and set
of faults. TLC evaluates each assumption in a run. `FloatAssumption` says of
Python's `float` that it is monotone and that `Decimal(str(float(d)))` is `d` for a
decimal of at most 15 significant digits, which IEEE 754 and Python's shortest
`repr` provide down to the smallest normal float (fractions of up to about 290
places). `ObservationAssumption` says of numpy that it errs by no more than the
tolerance itself, 1e-12 of a number near 1, which is far above the error of its
eigenvalues for matrices of the few components a measurement has. Some theorems have a hypothesis
besides; it is named below where it is used, with what in the code provides it.

* **Sink** - `SinkTyping`, `SinkStoreBounded`, `SinkFinalIsFinal`: directly
  inductive; `TotalExtended` does the arithmetic of the shared bound.
* **Runner types** - `RunnerTyping`, one lemma per group of actions.
* **Runner safety** - `RunnerSafe` proves `RunnerTypeOK /\ SafetyInv`. The
  properties are not inductive by themselves. That nothing is committed before
  the runtime is closed needs to know at which positions the sink is WRITING and
  the runtime live (`SinkInv`, `RuntimeInv`). That COMPLETED counts what was
  committed needs the buffers to be empty at the commit, which follows from the
  order of the residual flush (`DrainInv`) and from the accounting of every
  record between counter, buffer and sink (`AccountInv`). That a request prevents
  the commit needs `TokenInv`: a request made before the last read keeps the
  runner away from the positions after it. `ReportInv` ties the reported failure
  to the first one raised. From it follow `RecordsAccounted`,
  `OutcomeAgreesWithSink`, `CommitNeedsClosedRuntime`,
  `RuntimeClosedExactlyOnce`, `CancellationPreventsCommit`,
  `FirstFailureReported` and the action property `SinkOfOthersUntouched`.
  `CancellationHonouredAtOnce` needs an invariant of its own, `PromptInv`: the
  property allows one more write, so one must know that the runner, once a
  request was made, is never about to start a group or a second residual write.
* **Runner output** - `RunnerWorks` proves `WorkInv`: what buffers and sink hold
  together is the output of the finished groups and of the part of the group in
  progress that was accepted (`OutputInv`, as a concatenation per channel), what
  was executed is a prefix of the group's maneuvers in which each continues the
  one before (`ExecutionInv`), and the runtime's epoch is that of the group
  (`EpochInv`). The content of a schedule is a `FlattenSeq`, a recursive function;
  that one more group appends its records (`FlattenStep`) and stays typed
  (`FlattenTyped`) is proved in `SequenceLemmas` by well-founded induction over
  sets of numbers. From it follow `CommittedOutputComplete`,
  `CommittedManeuversContinue` and, with `StopInv`, which says what a run that is
  stopping has finished, `CancelledStopsBetweenGroups`. The last two assume
  `TimelyInputs`, that the groups of a schedule come in order of time: the
  runner does not look back, the generator provides it (`ScheduleIncreases`), and
  `BatchRunner` is not composed with it. `RunnerIsAtomic` is the refinement of
  `AtomicRun`: every step before the commit, or before the end of a failed run, is
  a stutter (`InnerMoves`) and that one is the step of the contract
  (`OuterSteps`). It assumes that the backend does not answer CANCELLED without a
  request (`~May("outcome")`): `run` does turn such an answer into a cancelled
  result, so a run against such a backend is not the contract's.
* **Composite** - `CompositeInvariant` proves `Inv`. A call forwards to the
  children in order, so what marks and stores look like depends on the side of
  the child the call has reached (`MarkerInv`, `StoredInv`); `ClientInv` ties the
  position of the client to the composite's own status, so that an exception
  finds the children where `_abort_writing_children` expects them. From it follow
  `CompositeLeavesNothingOpen`, `CommittedChildrenAreWhole`,
  `FirstChildFailureRaised` (`error` is the first of `failures`, and an operation
  that succeeded has none), and `CompositeIsOneSink`: to its client the composite
  is one `OutputSink`, provided the bound of that sink is not below the capacity
  of every child (what passed all children then fits) and batches are sequences.
* **Schedule** - `ScheduleSafe` proves `ScheduleInv`: what is still to be
  scheduled is later than every group yielded (`NothingLate`), and each maneuver
  is waiting or in the group of its instant (`WaitingInv`, `ExactGroups`). That
  the merge may look at the maneuver under the cursor only is where the sorted
  timeline is used; the least waiting index exists by well-foundedness of the
  naturals (`LeastIndex`). From it follow `ScheduleIncreases` and
  `ScheduleRunsManeuvers`. `ScheduleKeepsCadence` needs in addition where each
  sampler stands: its look-ahead is the start, a step inside the range, or the
  end, and every certain step before it was sampled. `ScheduleStaysInRun` bounds
  the groups by the synchronization epoch and the end.
* **Calendar** - in `EventScheduleProofs`, as the adapter is the other half of
  scheduling.py. The invariant is `NormalForms`, both epochs are in normal form
  (`Normal`), and `TimeKept`, they stand for the instants they should. Under it are
  facts about digits: `Units` is bounded by the powers of the base (`UnitsBelow`) and
  ordered as the digits at the first place that differs (`UnitsOrder`), by
  induction over places; without trailing zeros a fraction is written in one way
  (`StrippedSame`) and Python's order of tuples is that of the numbers
  (`StrippedOrder`); and the two readings are inverse (`FractionExact`). Days,
  minutes, seconds and units are then quotients and remainders of one number
  (`ComposedOrder`, `DivisionUnique`), so a sum with all its carries adds exactly the
  duration (`SumAdds`) and leaves the calendar when the instant does
  (`AddKeepsTime`). `EpochsReadBack` needs no hypothesis. `InstantsKept` assumes
  `ShortDurations`: the fraction of each duration added, less its trailing zeros,
  fits the decimal context (`RoundedTyped`). For a positive number of seconds that is
  a float it does, as its text has 17 digits and the context 28; for a small
  negative one it need not, which is the finding of `calendar_precision`.
  `OrdersOfTime` assumes a digit for every place (`AllShort`), because it adds
  seconds between any two epochs. They are rounded to a float: a difference of one
  unit has one digit, so a conversion that keeps the order keeps the sign
  (`FloatKeepsSign`, `BetweenOrders`); that they lead from one epoch to the other is
  claimed, and true, only of differences with few digits (`BetweenReaches`).
* **Fake runtime** - `RuntimeInvariant` proves `Inv`. The properties speak of
  states between operations; inside `propagate_to` one must know that the
  candidates lie on the paths at the target and that objects not yet reached are
  still at the start (`InFlight`), that nothing has moved before the decision
  (`Computed`) and that what is being stored is finite (`Stored`). `Ballistic`
  then is two identities of integers (`BurnAddsNothingYet`, `MoveAlongPath`).
  From it follow `PathsAreBallistic`, `StatesStayFinite`, `PropagationIsAtomic`,
  the action property `TornStaysUntouched`, and
  `RuntimeKeepsContract`, that every step is a step of `RuntimeContract` or a
  stutter, with `Reached`, the least epoch of the objects, as the epoch reached
  (`ReachedIsLeast`, `ReachedWhileUpdating`, `ReachedIsLater`).
* **Preparation** - `PreparationTyping` is directly inductive. `HashGuardsManifest`: whatever the holder did, a manifest it
  did not rehash runs only as `prepare` made it. The invariant `HashInv` follows
  the hash from `Create` to the holder and to the stages after `ValidateManifest`.
  `AcceptedAgreesWithItself`: what each check of `run` established still holds when
  the next one passes (`CheckedInv`). That no maneuver stands twice needs no
  counting: the timeline and the request have the same identities
  (`SourceIds`, `TimelineIds`), and each has as many identities as entries. It
  assumes that the holder's changes leave a request's maneuvers two lists, which
  Core's own types guarantee. So do `PreparedTimelineOrdered`, the timeline is
  ordered as the schedule needs it, by the sort of `prepare` and not by luck of
  the inputs, and `PreparedAgreesWithCore`, Core's validation and `run` accept
  whatever `prepare` made; both take the epochs that can be compared to be numbers.
* **Engine run** - `RunInvariant` proves `RunInv`, for timelines in any order:
  indices are consumed in their order, so a maneuver of an earlier group has a
  smaller index (`ConsumedInv`); when the runner has reached a group, the groups so
  far go forward in time, because the runtime is at the last one and refuses a
  target before it (`ForwardInv`, `RunPropagate`); and nothing is committed before
  the schedule is exhausted (`OutcomeInv`). Two maneuvers against the order of
  time would have to be in groups against the order of time, so
  `ReorderedIsRefused`. `CommittedTruthHolds` proves `CommittedTruthIsBallistic`
  on four more invariants, each on the ones before. `CadenceInv`, in `RunInv`: no
  instant comes twice in a row, which makes the order of groups strict, and the
  sampler ends with a sample at the end. `PathInv`: between two operations every
  object is on its path, and in the middle of an update those that have moved are
  at the target, on theirs. `BurnInv`: the runtime's `impulse` and `moment` are the
  sums over the maneuvers executed, each of which is executed once (`BurnsOnce`).
  `OutputInv`: every record that is stored or about to be is the state after the
  maneuvers of all groups up to its own (`SampledAfter`: the snapshot is taken when
  all maneuvers of its group are executed), and no sample of a group is missing.
  When the schedule is exhausted the groups up to an instant hold the maneuvers
  due up to it (`RanIsDue`), and the two sums make the one of the closed form
  (`SumLinear`). The numbers of a manifest are taken to be integers and its objects
  finitely many (`ObjectsAssumption`).
* **Contracts** - `ScenarioInvariant` proves `DraftInv`: what an accepted request
  was refused for is not in it. `ReferencesNameOneThing` goes from uniqueness per
  list to uniqueness of the flattened list of sensors (`SensorPlaces`, on
  `FlattenPlaces`) and to the places that refer to a name; `SchedulesRunForward`
  reduces a periodic schedule to its steps (`CadenceSteps`) and an explicit one to
  a sorted list (`IncreasingIsSorted`). `AdmittedRequestsRun` relates the two
  validators. `ReportedRowsMatch` and
  `DeclaredZeroIsZero` are short; the last is about rounding to the nearest
  multiple of any unit (`SquareIsVariance`). `AcceptedFactsHappen` has two sides.
  A record that passes is told by a history that is constructed for it, and each
  history passes (`RecordsTell`), given that some latency is not negative, as
  every real one. An envelope that
  passes hands over some delivered event, and the other way round (`EnvelopesTell`).
  A summary that adds up is the histogram of some assignment of ends, which
  is built event by event (`EndsExist`), and each histogram adds up (`EndsAddUp`).
  `DeclaredVariances` is about matrices of any size: a step of the elimination
  multiplies the quadratic form by its pivot and splits a square off
  (`SquareCompleted`), so that a form whose pivots are not negative is not
  (`EliminationDecides`). That is applied to the raised matrix: its form is that of
  the matrix as declared, which need not be symmetric, plus the tolerance times the
  squares of the weights (`FormOfShifted`). Every covariance that exists passed the
  check with some tolerance of `Tolerances` (`Declared`), those made from standard
  deviations too. The sums rest on `SumAddsUp`: what the fold behind `SumFunction`
  returns, in whatever order it takes the elements.

The type invariants are proved (`SinkTyping`, `RunnerTyping`, `ScheduleSafe`,
`RuntimeInvariant`, `PreparationTyping`), so no run repeats them; neither does one
repeat the proved properties whose instances the other runs exercise
(`FinalIsFinal`, `StoreBounded`, `OutputAccounted`, `ForeignSinkUntouched`,
`StatesFinite`, `HashProtects`).

Model-checked only: the liveness properties, which need fairness. Every safety
invariant, action property and refinement that a run checks is a theorem.

## 5. Not modelled

* Texts and contexts of error details, canonical JSON and the bytes of digests:
  a digest is the value it digests.
* Floating-point rounding of physical states; coordinates, attitudes, geometry
  and truth records, whose validators look at the numbers of one value.
* Plugin manifests, external data locks and random streams, which v0.1 of the
  Engine leaves empty.
* The fake backend's factory, which repeats provenance checks that
  `ManifestPreparation` models for the engine.
* The table of leap seconds and the Gregorian calendar.
* Decimal digits outside ASCII. `\d` in the patterns of C/epoch.py:50 matches them;
  in a fraction, where `datetime` does not look, they are kept, so that two texts of
  one instant may differ. What `Calendar` says is about ASCII digits.
* Whether a backend that passed the validator supports what it is asked: the
  maneuvers of `EngineRun` are of a kind and spacecraft the fake backend supports, so
  a disagreement of its validator with its runtime would not show there.
  `AdmittedRunsAreSupported` compares the two.
* The tolerance of the unit norm of a line of sight.
* The registry's check for duplicates and the two delegating functions of api.py.

## 6. Plan

1. Core of the Engine: sink, runner, atomic contract, composite, schedule (done).
2. `ManifestPreparation` and `FakeRuntime` (done).
3. `EngineRun`, `Calendar`, `Scenario`, `Observation`, `Delivery` (done).
4. Proofs of all safety properties and refinements (done).
