---------------------------- MODULE EventSchedule ----------------------------
(***************************************************************************)
(* iter_event_groups and iter_sampling_epochs (engine/scheduling.py): the  *)
(* lazy merge of one cadence per output product with the prepared          *)
(* maneuvers into groups of one instant each, which BatchRunner consumes.  *)
(*                                                                         *)
(* The generator holds one look-ahead epoch per sampler and the maneuvers  *)
(* its cursor has not passed yet, as order_index values.  Instants are     *)
(* numbers: a time adapter compares and adds them exactly, but the         *)
(* duration it reports is a float and may be off by up to Ulp.             *)
(***************************************************************************)
EXTENDS Integers, Sequences

CONSTANTS
  Requests,    \* manifests: [start, end, sync, intervals, timeline]
  Products,    \* output products that may be sampled
  Ulp,         \* largest rounding error of seconds_between
  MayRaise     \* whether a call of the time adapter may raise

VARIABLES
  request,     \* the manifest
  phase,       \* of the generator
  lookahead,   \* sample_lookaheads: the next epoch of each sampler
  remaining,   \* maneuvers[maneuver_cursor:], by order_index
  groups       \* the groups yielded so far

vars == <<request, phase, lookahead, remaining, groups>>

Phases    == {"ready", "running", "exhausted", "raised"}
Exhausted == -1   \* the look-ahead of a sampler that has ended
Nothing   == [p \in Products |-> Exhausted]

Entries == [epoch : Nat, source : {"PLANNED", "COMMAND"}]

\* A prepared manifest: the maneuvers are sorted by epoch, no planned one
\* precedes the synchronization epoch, which is not after the start, and a rule
\* has a positive interval.
Prepared(r) ==
  /\ r.start \in Nat /\ r.end \in Nat /\ r.sync \in Nat
  /\ r.sync <= r.start /\ r.start <= r.end
  /\ DOMAIN r.intervals \subseteq Products
  /\ \A p \in DOMAIN r.intervals : r.intervals[p] \in Nat \ {0}
  /\ r.timeline \in Seq(Entries)
  /\ \A i, j \in DOMAIN r.timeline : i <= j => r.timeline[i].epoch <= r.timeline[j].epoch
  /\ \A i \in DOMAIN r.timeline :
       r.timeline[i].source = "PLANNED" => r.timeline[i].epoch >= r.sync

ASSUME ScheduleAssumption ==
  /\ Ulp \in Nat
  /\ MayRaise \in BOOLEAN
  /\ \A r \in Requests : Prepared(r)

Rules    == DOMAIN request.intervals
Timeline == request.timeline

\* Variant: commands are executed before the start too.
ExecutableAnySource(entry) ==
  entry.epoch >= request.sync /\ entry.epoch <= request.end

\* _is_executable_maneuver: planned maneuvers from the synchronization epoch
\* on, commands only within the closed range of the run.
Executable(entry) ==
  /\ entry.epoch >= request.sync
  /\ IF entry.epoch < request.start THEN entry.source = "PLANNED"
                                    ELSE entry.epoch <= request.end

\* Variant: a step over the end finishes the cadence without sampling there.
AfterSampleDropsEnd(p, at) ==
  IF at + request.intervals[p] > request.end THEN {Exhausted}
  ELSE {at + request.intervals[p]}

\* What the sampler of p may yield after epoch at: the end, once the interval
\* covers the reported duration or steps to or over the end; otherwise the next
\* step; and nothing after the end.
AfterSample(p, at) ==
  LET interval  == request.intervals[p]
      duration  == request.end - at
      reported  == {d \in duration - Ulp .. duration + Ulp : d > 0}
  IN  IF at = request.end THEN {Exhausted}
      ELSE {IF interval >= d \/ at + interval >= request.end THEN request.end
            ELSE at + interval : d \in reported}

-------------------------------------------------------------------------------
Init ==
  /\ request \in Requests
  /\ phase = "ready"
  /\ lookahead = Nothing
  /\ remaining = {}
  /\ groups = <<>>

\* The code before the loop: every sampler yields the start, and the maneuvers
\* to execute are filtered.
Prime ==
  /\ phase = "ready"
  /\ phase' = "running"
  /\ lookahead' = [p \in Products |-> IF p \in Rules THEN request.start ELSE Exhausted]
  /\ remaining' = {i \in DOMAIN Timeline : Executable(Timeline[i])}
  /\ UNCHANGED <<request, groups>>

\* candidate_epochs: the look-aheads, and the maneuver at the cursor.
AtCursor == {i \in remaining : \A j \in remaining : i <= j}
Candidates ==
  ({lookahead[p] : p \in Products} \ {Exhausted}) \cup {Timeline[i].epoch : i \in AtCursor}

\* Variant: one maneuver per group.
LeadingOneByOne(at) == {i \in AtCursor : Timeline[i].epoch = at}

\* The maneuvers from the cursor on, as far as they share the instant at.
Leading(at) ==
  {i \in remaining : \A j \in remaining : j <= i => Timeline[j].epoch = at}

\* Products due at an instant.
Due(at) == {p \in Products : lookahead[p] = at}

\* One turn of the loop: the earliest instant with everything due at it.
YieldGroup(at) ==
  /\ phase = "running"
  /\ \A e \in Candidates : at <= e
  /\ remaining' = remaining \ Leading(at)
  /\ lookahead' \in
       {next \in [Products -> {lookahead[p] : p \in Products} \cup
                              UNION {AfterSample(p, at) : p \in Due(at)}] :
          \A p \in Products :
            IF p \in Due(at) THEN next[p] \in AfterSample(p, at)
                             ELSE next[p] = lookahead[p]}
  /\ groups' = Append(groups,
                 [epoch |-> at, maneuvers |-> Leading(at), products |-> Due(at)])
  /\ UNCHANGED <<request, phase>>

Exhaust ==
  /\ phase = "running" /\ Candidates = {}
  /\ phase' = "exhausted"
  /\ UNCHANGED <<request, lookahead, remaining, groups>>

\* The time adapter raises, in the middle of a turn or before the first: the
\* generator is over and the group it was building is lost.
Raise ==
  /\ MayRaise
  /\ phase \in {"ready", "running"}
  /\ phase' = "raised"
  /\ UNCHANGED <<request, lookahead, remaining, groups>>

Ended == phase \in {"exhausted", "raised"} /\ UNCHANGED vars

Next ==
  \/ Prime \/ Exhaust \/ Raise \/ Ended
  \/ \E at \in Candidates : YieldGroup(at)

Spec == Init /\ [][Next]_vars

-------------------------------------------------------------------------------
Group == [epoch : Nat, maneuvers : SUBSET Nat, products : SUBSET Products]

ScheduleTypeOK ==
  /\ request \in Requests
  /\ phase \in Phases
  /\ lookahead \in [Products -> Nat \cup {Exhausted}]
  /\ remaining \subseteq DOMAIN Timeline
  /\ groups \in Seq(Group)

\* Every group is strictly later than the one before it: no instant is split
\* over two groups and the runtime is never asked to propagate backwards.
GroupsIncrease ==
  \A i, j \in DOMAIN groups : i < j => groups[i].epoch < groups[j].epoch

\* The maneuvers that run: planned ones up to the end, commands from the start
\* to the end.
Runs(entry) ==
  /\ entry.epoch <= request.end
  /\ entry.source = "PLANNED" \/ entry.epoch >= request.start

\* A group holds every maneuver that runs at its instant and no other, and when
\* the schedule is exhausted every maneuver that runs was in a group.
ManeuversOnTime ==
  /\ \A k \in DOMAIN groups :
       groups[k].maneuvers =
         {i \in DOMAIN Timeline : Runs(Timeline[i]) /\ Timeline[i].epoch = groups[k].epoch}
  /\ phase = "exhausted" =>
       \A i \in DOMAIN Timeline :
         Runs(Timeline[i]) => \E k \in DOMAIN groups : i \in groups[k].maneuvers

\* The instants product p was sampled at.
Sampled(p) == {groups[k].epoch : k \in {k \in DOMAIN groups : p \in groups[k].products}}

\* Every sampled product is sampled at the start, at every interval after that,
\* and at the end; rounding can only drop a last sample within Ulp of the end.
CadenceKept ==
  \A p \in Rules :
    LET interval == request.intervals[p]
        steps    == {request.start + k * interval : k \in 0 .. request.end - request.start}
        inside   == {e \in steps : e < request.end}
        certain  == {e \in inside : e = request.start \/ e < request.end - Ulp}
    IN  /\ Sampled(p) \subseteq inside \cup {request.end}
        /\ phase = "exhausted" => certain \cup {request.end} \subseteq Sampled(p)
===============================================================================
