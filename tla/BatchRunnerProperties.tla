------------------------ MODULE BatchRunnerProperties ------------------------
(***************************************************************************)
(* What a run of BatchRunner must guarantee: its type invariant, its       *)
(* safety and liveness properties, and that it implements AtomicRun.       *)
(***************************************************************************)
EXTENDS BatchRunner

SampleRecord == [entity : Entities, epoch : Epochs, applied : Nat]
ManeuverRecord ==
  [event : STRING, entity : Entities, epoch : Epochs, before : States, after : States]
OutputRecord  == SampleRecord \cup ManeuverRecord
PendingRecord == [channel : Channels, record : OutputRecord]

ControlTypeOK ==
  /\ input \in Inputs
  /\ pc \in PCs
  /\ cancelled \in BOOLEAN
  /\ mark \in [at : PCs \cup {"never"}, group : Nat, writes : Nat]

ResourceTypeOK ==
  /\ runtime \in {"none", "live", "closed", "close_failed"}
  /\ epoch \in Epochs
  /\ applied \in Nat
  /\ closeAttempted \in BOOLEAN
  /\ closeCalls \in Nat
  /\ sinkBegun \in BOOLEAN

GroupTypeOK ==
  /\ group \in 0 .. Len(Groups)
  /\ pc \in {"propagate", "maneuver"} => group > 0
  /\ executed \in Seq(ManeuverRecord)
  /\ pending \in Seq(PendingRecord)

BufferTypeOK ==
  /\ buffer \in [Channels -> Seq(OutputRecord)]
  /\ count \in [Channels -> Nat]
  /\ writes \in Nat
  /\ channel \in 1 .. Len(FlushOrder) + 1
  /\ pc = "flushWrite" => channel <= Len(FlushOrder)

EndTypeOK ==
  /\ finalEpoch \in Epochs
  /\ cause \in Causes
  /\ raised \in Causes
  /\ result \in [status : Statuses, final : Epochs, summary : [Channels -> Nat]]

RunnerTypeOK ==
  /\ ControlTypeOK
  /\ ResourceTypeOK
  /\ SinkTypeOK(OutputRecord)
  /\ GroupTypeOK
  /\ BufferTypeOK
  /\ EndTypeOK

-------------------------------------------------------------------------------
\* The output a schedule of groups calls for.

\* Maneuvers scheduled in the first k groups.
ManeuversThrough(groups, k) == FlattenSeq([i \in 1 .. k |-> groups[i].maneuvers])

GroupOutput(groups, k, c) ==
  IF c = "truth_maneuvers"
  THEN [j \in DOMAIN groups[k].maneuvers |->
          [event |-> groups[k].maneuvers[j].event,
           entity |-> groups[k].maneuvers[j].entity, epoch |-> groups[k].epoch]]
  ELSE IF c \in groups[k].products
  THEN [i \in DOMAIN SpaceObjects |->
          [entity |-> SpaceObjects[i], epoch |-> groups[k].epoch,
           applied |-> Len(ManeuversThrough(groups, k))]]
  ELSE <<>>

\* The first k groups' output on channel c, in order.
Expected(groups, k, c) == FlattenSeq([i \in 1 .. k |-> GroupOutput(groups, i, c)])

\* A stored sequence with the physical states of the backend left out.
Identified(c, records) ==
  IF c # "truth_maneuvers" THEN records
  ELSE [i \in DOMAIN records |->
          [event |-> records[i].event, entity |-> records[i].entity,
           epoch |-> records[i].epoch]]

\* Records of channel c the sink retains, and records in its open batch.
Kept(c) == Len(stored[c])
Open(c) == Len(buffer[c])

Published == sinkBegun /\ status = "COMMITTED"
Returned  == result.status \in {"COMPLETED", "CANCELLED", "ERROR"}

-------------------------------------------------------------------------------
\* No record is lost or duplicated between the counters, the open batches and
\* the sink, through every threshold flush, failed write and residual flush;
\* a batch is never larger than batch_size.
OutputAccounted ==
  /\ sinkBegun /\ status # "ABORTED" =>
       \A c \in Channels : count[c] = Kept(c) + Open(c)
  /\ \A c \in Channels : Open(c) <= input.batchSize

\* Whatever the batch size, the faults and the cancellation requests, output
\* that is committed is exactly what the schedule calls for: every group, in
\* order, samples taken after all maneuvers of their own and earlier groups.
CommittedIsComplete ==
  Published => \A c \in Channels :
                 Identified(c, stored[c]) = Expected(Groups, Len(Groups), c)

\* Maneuvers of one object at one instant continue each other.
Chained(done) ==
  \A i, j \in DOMAIN done :
    /\ i < j
    /\ done[i].entity = done[j].entity /\ done[i].epoch = done[j].epoch
    /\ \A k \in i + 1 .. j - 1 : done[k].entity # done[i].entity
    => done[j].before = done[i].after

\* Committed maneuvers of one object at one instant form a chain of states.
CommittedManeuversChain == Published => Chained(stored["truth_maneuvers"])

\* COMPLETED is returned only for committed output, with the counts of what
\* was committed and a runtime closed without error at the end of the range;
\* CANCELLED and ERROR never leave this run's output committed and count none.
OutcomeMatchesSink ==
  /\ result.status = "COMPLETED" =>
       /\ Published
       /\ runtime = "closed"
       /\ result.final = EndEpoch
       /\ \A c \in Channels : result.summary[c] = Kept(c)
  /\ result.status \in {"CANCELLED", "ERROR"} =>
       /\ ~Published
       /\ result.summary = ZeroCount

\* Output is only ever committed after the runtime was closed successfully.
CommitAfterClose ==
  Published => runtime = "closed"

\* close() is called at most once, and on every way out of run() other than an
\* escaping BaseException it has been called on the runtime that was created.
RuntimeClosedOnce ==
  /\ closeCalls <= 1
  /\ Returned => (runtime = "none" \/ closeCalls = 1)

\* A request that arrives before the last read of the token always prevents
\* the commit, at whichever of the earlier steps it arrived.
RequestBeforeSealPreventsCommit ==
  mark.at \notin {"never", "commit", "return"} => ~Published

GroupSteps == {"propagate", "maneuver", "accept"}

\* A request is honoured at once: no group starts after it, and outside a group
\* the sink receives at most the one batch whose write was already decided.
CancellationIsPrompt ==
  cancelled =>
    /\ group = mark.group
    /\ mark.at \notin GroupSteps \cup {"flushWrite"} => writes = mark.writes
    /\ mark.at = "flushWrite" => writes <= mark.writes + 1

EpochAfter(groups, k) == IF k = 0 THEN SyncEpoch ELSE groups[k].epoch

\* What was executed and accepted is that of a whole number of groups, and the
\* instant at lies between the last of them and the next one.
StoppedBetweenGroups(at) ==
  \E k \in 0 .. Len(Groups) :
    /\ applied = Len(ManeuversThrough(Groups, k))
    /\ \A c \in Channels : count[c] = Len(Expected(Groups, k, c))
    /\ ~May("drift") =>
         /\ EpochAfter(Groups, k) <= at
         /\ k < Len(Groups) => at <= EpochAfter(Groups, k + 1)

\* A run that reports CANCELLED stopped between two groups: the maneuvers the
\* runtime executed and the records the buffers accepted are those of a whole
\* number of groups, and the final epoch lies between the last of them and the
\* next one.
CancelledBetweenGroups ==
  result.status = "CANCELLED" => StoppedBetweenGroups(result.final)

\* The detail of the error raised is the first thing that went wrong, whatever
\* fails later during the clean-up.
FirstCauseSurvives ==
  result.status = "ERROR" => cause # "none" /\ cause = raised

\* A sink this run did not begin is not the run's to write, commit or abort.
ForeignSinkUntouched ==
  [][~sinkBegun' => UNCHANGED sinkVars]_vars

\* The run always ends, as long as every call it makes returns.
RunEnds == <>(pc = "done")

\* A runtime that was created is closed, on whatever way the run ends, unless a
\* BaseException escapes.
RuntimeEventuallyClosed ==
  (runtime = "live") ~> (closeCalls = 1 \/ result.status = "ESCAPED")

-------------------------------------------------------------------------------
\* The run as its caller sees it.
Atomic == INSTANCE AtomicRun WITH
  token   <- cancelled,
  sealed  <- pc \in {"commit", "return"} \/ cause = "commit" \/ Published,
  whole   <- [c \in Channels |-> Expected(Groups, Len(Groups), c)],
  public  <- Published,
  output  <- IF Published THEN [c \in Channels |-> Identified(c, stored[c])]
                          ELSE Empty,
  outcome <- result.status

\* Each run, however its steps interleave with the cancelling thread and
\* whatever fails, is a run of the atomic contract.
ImplementsAtomicRun == Atomic!AtomicSpec
===============================================================================
