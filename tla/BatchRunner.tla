----------------------------- MODULE BatchRunner -----------------------------
(***************************************************************************)
(* BatchRunner.run (engine/execution.py): one synchronous run of a         *)
(* prepared manifest against a science-backend runtime and an output sink, *)
(* while another thread may set the cancellation token at any moment.      *)
(*                                                                         *)
(* One action per call that leaves the runner (runtime, sink, schedule     *)
(* generator) and per read of the token, so that the token can be set      *)
(* between any two of them.  The runtime is the environment's: it may      *)
(* raise, answer with values the runner rejects, and move its own epoch.   *)
(* Faults says which of these an instance lets happen.                     *)
(***************************************************************************)
EXTENDS OutputSink, SequencesExt

CONSTANTS
  Inputs,        \* the runs to consider: [groups, batchSize]
  SpaceObjects,  \* expected_entity_ids: the propagated objects, in id order
  States,        \* physical states a maneuver response may carry
  Epochs,        \* instants, as numbers
  SyncEpoch,     \* synchronization_epoch of the definition
  EndEpoch,      \* time_range.end
  Faults         \* which environment faults may happen

VARIABLES
  input,         \* the schedule of the manifest and the runner's batch size
  pc,            \* the call or token read the runner does next
  cancelled,     \* the CancellationToken
  runtime,       \* the runtime resource, "none" until the factory created it
  epoch,         \* runtime.current_epoch
  applied,       \* impulsive maneuvers the runtime has executed
  closeAttempted, sinkBegun,        \* the locals of the same names
  group,         \* groups taken from the schedule so far
  executed,      \* maneuver_records of the current group
  pending,       \* records of the current group not yet accepted
  buffer, count, \* _OutputBuffers: the open batch and the counter per channel
  channel,       \* position of flush_remaining
  finalEpoch,    \* final_epoch, or the argument of cancel_active
  cause,         \* detail of the failure being reported
  result         \* what run() returned or raised

\* History variables, read by the properties only.
VARIABLES
  mark,          \* where the runner was when the token was set
  writes,        \* sink writes that succeeded
  closeCalls,    \* calls of runtime.close()
  raised         \* the first exception of the run

tokenVars   == <<cancelled, mark>>
runtimeVars == <<runtime, epoch, applied>>
closeVars   == <<closeAttempted, closeCalls>>
groupVars   == <<group, executed, pending>>
bufferVars  == <<buffer, count, writes>>
endVars     == <<finalEpoch, cause, result, raised>>

vars == <<input, pc, tokenVars, runtimeVars, closeVars, sinkVars, sinkBegun,
          groupVars, bufferVars, channel, endVars>>

FaultKinds ==
  {"manifest",     \* the manifest fails revalidation
   "backend",      \* a runtime call raises or answers with a rejected value
   "drift",        \* the runtime's epoch moves where it should stand still
   "outcome",      \* propagate_to reports CANCELLED without a request
   "schedule",     \* the lazy schedule raises while the run consumes it
   "close",        \* runtime.close() raises
   "reused_sink",  \* the caller passes a sink that is not NEW
   "interrupt"}    \* a BaseException, such as KeyboardInterrupt, escapes

May(fault) == fault \in Faults

PCs == {"entry", "create", "initialize", "initCheck", "begin", "next",
        "propagate", "maneuver", "accept", "endCheck", "flush", "flushWrite",
        "finalCheck", "finalEpoch", "close", "lastCheck", "commit", "return",
        "cancelClose", "cancelAbort", "failClose", "failAbort", "done"}

Causes == {"none", "manifest", "create", "initialize", "begin", "schedule",
           "epoch", "propagate", "cancellation_epoch", "maneuver",
           "maneuver_chain", "maneuver_epoch", "snapshot", "write",
           "final_epoch", "close", "commit", "abort"}

Statuses == {"RUNNING", "COMPLETED", "CANCELLED", "ERROR", "ESCAPED"}

FlushOrder == <<"truth_states", "attitude_states", "truth_maneuvers">>
ZeroCount  == [c \in Channels |-> 0]

Groups == input.groups
Group  == Groups[group]

Entities  == {SpaceObjects[i] : i \in DOMAIN SpaceObjects}
Maneuvers == [event : STRING, entity : Entities]
Products  == {"truth_states", "attitude_states"}
ScheduledGroups ==
  [epoch : Epochs, maneuvers : Seq(Maneuvers), products : SUBSET Products]

ASSUME RunnerAssumption ==
  /\ Epochs \subseteq Nat /\ SyncEpoch \in Epochs /\ EndEpoch \in Epochs
  /\ \A a, b \in Epochs : a .. b \subseteq Epochs
  /\ SpaceObjects \in Seq(STRING)
  /\ Faults \subseteq FaultKinds
  /\ Inputs \subseteq [groups : Seq(ScheduledGroups), batchSize : Nat \ {0}]

-------------------------------------------------------------------------------
\* Control flow: go on, enter the `except Exception` clean-up, enter
\* cancel_active, or leave run().

First(e) == IF raised = "none" THEN e ELSE raised

Proceed(label) == pc' = label /\ UNCHANGED endVars

\* Variant: a failure goes straight to the sink and forgets the runtime.
FailSkippingClose(e) ==
  /\ pc' = "failAbort"
  /\ cause' = e
  /\ raised' = First(e)
  /\ UNCHANGED <<finalEpoch, result>>

Fail(e) ==
  /\ pc' = "failClose"
  /\ cause' = e
  /\ raised' = First(e)
  /\ UNCHANGED <<finalEpoch, result>>

CancelAt(e) ==
  /\ pc' = "cancelClose"
  /\ finalEpoch' = e
  /\ UNCHANGED <<cause, result, raised>>

\* cancel_active(_snapshot_runtime_epoch(runtime.current_epoch)): reading the
\* epoch may itself fail, and then the run reports a failure.
CancelHere ==
  \/ CancelAt(epoch)
  \/ May("backend") /\ Fail("epoch")

Return(status_, summary) ==
  /\ pc' = "done"
  /\ result' = [status |-> status_, final |-> finalEpoch, summary |-> summary]
  /\ UNCHANGED finalEpoch

\* Where the runtime's epoch may be after a call that should leave it in good.
Moved(good) == IF May("drift") THEN Epochs ELSE good

\* Variant: the attempt is recorded only once close() has returned.
CloseOnceRecordedLate(outcome) ==
  \/ /\ runtime = "none" \/ closeAttempted
     /\ outcome = "ok"
     /\ UNCHANGED <<closeVars, runtime>>
  \/ /\ runtime # "none" /\ ~closeAttempted
     /\ closeCalls' = closeCalls + 1
     /\ \/ outcome = "ok" /\ runtime' = "closed" /\ closeAttempted' = TRUE
        \/ /\ outcome = "raise" /\ May("close") /\ runtime' = "close_failed"
           /\ UNCHANGED closeAttempted

\* close_runtime_once: the attempt is recorded before close() is called.
CloseOnce(outcome) ==
  \/ /\ runtime = "none" \/ closeAttempted
     /\ outcome = "ok"
     /\ UNCHANGED <<closeVars, runtime>>
  \/ /\ runtime # "none" /\ ~closeAttempted
     /\ closeAttempted' = TRUE
     /\ closeCalls' = closeCalls + 1
     /\ \/ outcome = "ok" /\ runtime' = "closed"
        \/ outcome = "raise" /\ May("close") /\ runtime' = "close_failed"

-------------------------------------------------------------------------------
Init ==
  /\ input \in Inputs
  /\ pc = "entry"
  /\ cancelled = FALSE
  /\ runtime = "none" /\ epoch = SyncEpoch /\ applied = 0
  /\ closeAttempted = FALSE /\ sinkBegun = FALSE
  /\ group = 0 /\ executed = <<>> /\ pending = <<>>
  /\ buffer = Empty /\ count = ZeroCount /\ channel = 1
  /\ finalEpoch = SyncEpoch /\ cause = "none"
  /\ result = [status |-> "RUNNING", final |-> SyncEpoch, summary |-> ZeroCount]
  /\ status \in IF May("reused_sink") THEN SinkStatus ELSE {"NEW"}
  /\ stored = Empty
  /\ mark = [at |-> "never", group |-> 0, writes |-> 0]
  /\ writes = 0 /\ closeCalls = 0 /\ raised = "none"

\* The caller's thread: CancellationToken.cancel(), monotonic.
Cancel ==
  /\ ~cancelled
  /\ pc # "done"
  /\ cancelled' = TRUE
  /\ mark' = [at |-> pc, group |-> group, writes |-> writes]
  /\ UNCHANGED <<input, pc, runtimeVars, closeVars, sinkVars, sinkBegun,
                 groupVars, bufferVars, channel, endVars>>

\* Snapshot the manifest and read the token before any resource exists.
Enter ==
  /\ pc = "entry"
  /\ \/ /\ May("manifest")
        /\ cause' = "manifest" /\ raised' = "manifest"
        /\ Return("ERROR", ZeroCount)
     \/ cancelled /\ Return("CANCELLED", ZeroCount) /\ UNCHANGED <<cause, raised>>
     \/ ~cancelled /\ Proceed("create")
  /\ UNCHANGED <<input, tokenVars, runtimeVars, closeVars, sinkVars, sinkBegun,
                 groupVars, bufferVars, channel>>

\* Resolve the registration, check its provenance and create the runtime.
CreateRuntime ==
  /\ pc = "create"
  /\ \/ May("backend") /\ Fail("create") /\ UNCHANGED runtime
     \/ Proceed("initialize") /\ runtime' = "live"
  /\ UNCHANGED <<input, tokenVars, epoch, applied, closeVars, sinkVars,
                 sinkBegun, groupVars, bufferVars, channel>>

\* initialize(), then current_epoch must be the synchronization epoch.
InitializeRuntime ==
  /\ pc = "initialize"
  /\ \/ May("backend") /\ Fail("initialize") /\ UNCHANGED epoch
     \/ /\ epoch' \in Moved({SyncEpoch})
        /\ \/ epoch' = SyncEpoch /\ Proceed("initCheck")
           \/ epoch' # SyncEpoch /\ Fail("epoch")
  /\ UNCHANGED <<input, tokenVars, runtime, applied, closeVars, sinkVars,
                 sinkBegun, groupVars, bufferVars, channel>>

CheckInitialized ==
  /\ pc = "initCheck"
  /\ \/ cancelled /\ CancelAt(epoch)
     \/ ~cancelled /\ Proceed("begin")
  /\ UNCHANGED <<input, tokenVars, runtimeVars, closeVars, sinkVars, sinkBegun,
                 groupVars, bufferVars, channel>>

BeginSink ==
  /\ pc = "begin"
  /\ \/ SinkBegin("ok") /\ sinkBegun' = TRUE /\ Proceed("next")
     \/ SinkBegin("raise") /\ Fail("begin") /\ UNCHANGED sinkBegun
  /\ UNCHANGED <<input, tokenVars, runtimeVars, closeVars, groupVars,
                 bufferVars, channel>>

\* Variant: the token is not read when the schedule yields a group.
NextGroupUnchecked ==
  /\ pc = "next"
  /\ \/ May("schedule") /\ Fail("schedule") /\ UNCHANGED group
     \/ group = Len(Groups) /\ Proceed("endCheck") /\ UNCHANGED group
     \/ group < Len(Groups) /\ Proceed("propagate") /\ group' = group + 1
  /\ UNCHANGED <<input, tokenVars, runtimeVars, closeVars, sinkVars, sinkBegun,
                 executed, pending, bufferVars, channel>>

\* Advance the lazy schedule; the token is read only when it yields a group.
NextGroup ==
  /\ pc = "next"
  /\ \/ May("schedule") /\ Fail("schedule") /\ UNCHANGED group
     \/ group = Len(Groups) /\ Proceed("endCheck") /\ UNCHANGED group
     \/ group < Len(Groups) /\ cancelled /\ CancelHere /\ UNCHANGED group
     \/ group < Len(Groups) /\ ~cancelled /\ Proceed("propagate") /\ group' = group + 1
  /\ UNCHANGED <<input, tokenVars, runtimeVars, closeVars, sinkVars, sinkBegun,
                 executed, pending, bufferVars, channel>>

\* propagate_to(group.epoch, cancellation) and the checks of its outcome.
Propagate ==
  /\ pc = "propagate"
  /\ \/ May("backend") /\ Fail("propagate") /\ UNCHANGED <<epoch, executed>>
     \/ \* REACHED_TARGET
        /\ epoch' \in Moved({Group.epoch})
        /\ executed' = <<>>
        /\ \/ epoch' = Group.epoch /\ Proceed("maneuver")
           \/ epoch' # Group.epoch /\ Fail("epoch")
     \/ \* CANCELLED at a safe point on the way
        /\ cancelled \/ May("outcome")
        /\ epoch' \in Moved(epoch .. Group.epoch)
        /\ \/ epoch' \in epoch .. Group.epoch /\ CancelAt(epoch')
           \/ epoch' \notin epoch .. Group.epoch /\ Fail("cancellation_epoch")
        /\ UNCHANGED executed
  /\ UNCHANGED <<input, tokenVars, runtime, applied, closeVars, sinkVars,
                 sinkBegun, group, pending, bufferVars, channel>>

\* Variant: a maneuver is compared with the previous one of the group only,
\* whichever object that one moved.
ContinuesPrevious(entity, before) ==
  executed # <<>> /\ Last(executed).entity = entity => Last(executed).after = before

\* Within one group each object's maneuvers chain: state_before equals the
\* state_after of the object's previous maneuver, if there is one.
Continues(entity, before) ==
  LET earlier == {i \in DOMAIN executed : executed[i].entity = entity}
  IN  earlier # {} => executed[Max(earlier)].after = before

ExecuteManeuver ==
  /\ pc = "maneuver"
  /\ Len(executed) < Len(Group.maneuvers)
  /\ LET entry == Group.maneuvers[Len(executed) + 1] IN
     \/ May("backend") /\ Fail("maneuver") /\ UNCHANGED <<epoch, applied, executed>>
     \/ \E before, after \in States :
          /\ May("backend") \/ Continues(entry.entity, before)
          /\ applied' = applied + 1
          /\ epoch' \in Moved({epoch})
          /\ \/ /\ ~Continues(entry.entity, before)
                /\ Fail("maneuver_chain") /\ UNCHANGED executed
             \/ /\ Continues(entry.entity, before) /\ epoch' # Group.epoch
                /\ Fail("maneuver_epoch") /\ UNCHANGED executed
             \/ /\ Continues(entry.entity, before) /\ epoch' = Group.epoch
                /\ executed' = Append(executed,
                     [event |-> entry.event, entity |-> entry.entity,
                      epoch |-> Group.epoch, before |-> before, after |-> after])
                /\ Proceed("maneuver")
  /\ UNCHANGED <<input, tokenVars, runtime, closeVars, sinkVars, sinkBegun,
                 group, pending, bufferVars, channel>>

\* One accepted snapshot: a record per space object, at the group's epoch and
\* after the maneuvers the runtime has executed.
Snapshot(c) ==
  IF c \in Group.products
  THEN [i \in DOMAIN SpaceObjects |->
          [channel |-> c,
           record |-> [entity |-> SpaceObjects[i], epoch |-> Group.epoch,
                       applied |-> applied]]]
  ELSE <<>>

\* Variant: the token is also read inside the group, before its samples.
TakeSamplesUnlessCancelled ==
  /\ pc = "maneuver"
  /\ Len(executed) = Len(Group.maneuvers)
  /\ \/ cancelled /\ CancelHere /\ UNCHANGED pending
     \/ /\ ~cancelled
        /\ pending' = [i \in DOMAIN executed |->
                         [channel |-> "truth_maneuvers", record |-> executed[i]]]
                      \o Snapshot("truth_states") \o Snapshot("attitude_states")
        /\ Proceed("accept")
  /\ UNCHANGED <<input, tokenVars, runtimeVars, closeVars, sinkVars,
                 sinkBegun, group, executed, bufferVars, channel>>

\* All snapshots are taken and checked before the first record is accepted.
TakeSamples ==
  /\ pc = "maneuver"
  /\ Len(executed) = Len(Group.maneuvers)
  /\ \/ /\ May("backend") /\ Group.products # {}
        /\ Fail("snapshot") /\ UNCHANGED <<epoch, pending>>
     \/ /\ pending' = [i \in DOMAIN executed |->
                         [channel |-> "truth_maneuvers", record |-> executed[i]]]
                      \o Snapshot("truth_states") \o Snapshot("attitude_states")
        /\ epoch' \in Moved({epoch})
        /\ Proceed("accept")
  /\ UNCHANGED <<input, tokenVars, runtime, applied, closeVars, sinkVars,
                 sinkBegun, group, executed, bufferVars, channel>>

\* Write the open batch of c and clear it, or fail and keep it.
Flush(c, batch, next) ==
  \/ /\ SinkWrite(c, batch, "ok")
     /\ buffer' = [buffer EXCEPT ![c] = <<>>]
     /\ writes' = writes + 1
     /\ Proceed(next)
  \/ /\ SinkWrite(c, batch, "raise")
     /\ buffer' = [buffer EXCEPT ![c] = batch]
     /\ Fail("write")
     /\ UNCHANGED writes

\* accept_*: append, count, and flush the batch the moment it is full.
Accept ==
  /\ pc = "accept" /\ pending # <<>>
  /\ LET c     == Head(pending).channel
         batch == Append(buffer[c], Head(pending).record)
     IN  /\ count' = [count EXCEPT ![c] = @ + 1]
         /\ \/ /\ Len(batch) # input.batchSize
               /\ buffer' = [buffer EXCEPT ![c] = batch]
               /\ Proceed("accept")
               /\ UNCHANGED <<sinkVars, writes>>
            \/ Len(batch) = input.batchSize /\ Flush(c, batch, "accept")
  /\ pending' = Tail(pending)
  /\ UNCHANGED <<input, tokenVars, runtimeVars, closeVars, sinkBegun, group,
                 executed, channel>>

\* The token is read after the whole group, never inside it.
FinishGroup ==
  /\ pc = "accept" /\ pending = <<>>
  /\ \/ cancelled /\ CancelHere
     \/ ~cancelled /\ Proceed("next")
  /\ UNCHANGED <<input, tokenVars, runtimeVars, closeVars, sinkVars, sinkBegun,
                 groupVars, bufferVars, channel>>

\* Variant: the residual flush is forgotten.
CheckScheduleEndNoFlush ==
  /\ pc = "endCheck"
  /\ \/ cancelled /\ CancelHere
     \/ ~cancelled /\ Proceed("finalCheck")
  /\ UNCHANGED <<input, tokenVars, runtimeVars, closeVars, sinkVars, sinkBegun,
                 groupVars, bufferVars, channel>>

CheckScheduleEnd ==
  /\ pc = "endCheck"
  /\ \/ cancelled /\ CancelHere
     \/ ~cancelled /\ Proceed("flush")
  /\ UNCHANGED <<input, tokenVars, runtimeVars, closeVars, sinkVars, sinkBegun,
                 groupVars, bufferVars, channel>>

\* Variant: an empty channel is skipped without moving on to the next.
FlushCheckStuck ==
  /\ pc = "flush"
  /\ \/ channel > Len(FlushOrder) /\ Proceed("finalCheck")
     \/ /\ channel <= Len(FlushOrder)
        /\ \/ buffer[FlushOrder[channel]] = <<>> /\ Proceed("flush")
           \/ /\ buffer[FlushOrder[channel]] # <<>>
              /\ \/ cancelled /\ CancelHere
                 \/ ~cancelled /\ Proceed("flushWrite")
  /\ UNCHANGED <<input, tokenVars, runtimeVars, closeVars, sinkVars, sinkBegun,
                 groupVars, bufferVars, channel>>

\* flush_remaining: the channels in order, skipping empty ones, with a read of
\* the token before each write.
FlushCheck ==
  /\ pc = "flush"
  /\ \/ channel > Len(FlushOrder) /\ Proceed("finalCheck") /\ UNCHANGED channel
     \/ /\ channel <= Len(FlushOrder)
        /\ \/ /\ buffer[FlushOrder[channel]] = <<>>
              /\ channel' = channel + 1
              /\ Proceed("flush")
           \/ /\ buffer[FlushOrder[channel]] # <<>>
              /\ \/ cancelled /\ CancelHere
                 \/ ~cancelled /\ Proceed("flushWrite")
              /\ UNCHANGED channel
  /\ UNCHANGED <<input, tokenVars, runtimeVars, closeVars, sinkVars, sinkBegun,
                 groupVars, bufferVars>>

FlushWrite ==
  /\ pc = "flushWrite"
  /\ Flush(FlushOrder[channel], buffer[FlushOrder[channel]], "flush")
  /\ channel' = channel + 1
  /\ UNCHANGED <<input, tokenVars, runtimeVars, closeVars, sinkBegun, groupVars,
                 count>>

CheckFlushed ==
  /\ pc = "finalCheck"
  /\ \/ cancelled /\ CancelHere
     \/ ~cancelled /\ Proceed("finalEpoch")
  /\ UNCHANGED <<input, tokenVars, runtimeVars, closeVars, sinkVars, sinkBegun,
                 groupVars, bufferVars, channel>>

CheckFinalEpoch ==
  /\ pc = "finalEpoch"
  /\ \/ (epoch # EndEpoch \/ May("backend")) /\ Fail("final_epoch")
     \/ /\ epoch = EndEpoch
        /\ finalEpoch' = epoch
        /\ pc' = "close"
        /\ UNCHANGED <<cause, result, raised>>
  /\ UNCHANGED <<input, tokenVars, runtimeVars, closeVars, sinkVars, sinkBegun,
                 groupVars, bufferVars, channel>>

\* Variant: a failing close() is suppressed, as it is during the clean-up.
CloseRuntimeSuppressed ==
  /\ pc = "close"
  /\ CloseOnce("ok") \/ CloseOnce("raise")
  /\ Proceed("lastCheck")
  /\ UNCHANGED <<input, tokenVars, epoch, applied, sinkVars, sinkBegun,
                 groupVars, bufferVars, channel>>

\* The runtime is closed before the output is committed; a failure to close it
\* prevents the commit.
CloseRuntime ==
  /\ pc = "close"
  /\ \/ CloseOnce("ok") /\ Proceed("lastCheck")
     \/ CloseOnce("raise") /\ Fail("close")
  /\ UNCHANGED <<input, tokenVars, epoch, applied, sinkVars, sinkBegun,
                 groupVars, bufferVars, channel>>

\* Variant: the token is not read again after the runtime was closed.
LastCheckDropped ==
  /\ pc = "lastCheck"
  /\ Proceed("commit")
  /\ UNCHANGED <<input, tokenVars, runtimeVars, closeVars, sinkVars, sinkBegun,
                 groupVars, bufferVars, channel>>

\* The last read of the token: later requests lose the race with the commit.
LastCheck ==
  /\ pc = "lastCheck"
  /\ \/ cancelled /\ CancelAt(finalEpoch)
     \/ ~cancelled /\ Proceed("commit")
  /\ UNCHANGED <<input, tokenVars, runtimeVars, closeVars, sinkVars, sinkBegun,
                 groupVars, bufferVars, channel>>

\* Variant: a failing commit is suppressed.
CommitSinkSuppressed ==
  /\ pc = "commit"
  /\ SinkCommit("ok") \/ SinkCommit("raise")
  /\ Proceed("return")
  /\ UNCHANGED <<input, tokenVars, runtimeVars, closeVars, sinkBegun, groupVars,
                 bufferVars, channel>>

CommitSink ==
  /\ pc = "commit"
  /\ \/ SinkCommit("ok") /\ Proceed("return")
     \/ SinkCommit("raise") /\ Fail("commit")
  /\ UNCHANGED <<input, tokenVars, runtimeVars, closeVars, sinkBegun, groupVars,
                 bufferVars, channel>>

ReturnCompleted ==
  /\ pc = "return"
  /\ Return("COMPLETED", count)
  /\ UNCHANGED <<input, tokenVars, runtimeVars, closeVars, sinkVars, sinkBegun,
                 groupVars, bufferVars, channel, cause, raised>>

\* Variant: an exception of the clean-up replaces the cause.
CleanRuntimeReplacesCause ==
  /\ pc \in {"cancelClose", "failClose"}
  /\ \/ CloseOnce("ok") /\ UNCHANGED <<cause, raised>>
     \/ CloseOnce("raise") /\ cause' = "close" /\ raised' = First("close")
  /\ pc' = IF pc = "cancelClose" THEN "cancelAbort" ELSE "failAbort"
  /\ UNCHANGED <<input, tokenVars, epoch, applied, sinkVars, sinkBegun,
                 groupVars, bufferVars, channel, finalEpoch, result>>

\* Clean-up, first half: close the runtime unless that was tried already; an
\* exception is suppressed and never replaces the cause.
CleanRuntime ==
  /\ pc \in {"cancelClose", "failClose"}
  /\ \/ CloseOnce("ok") /\ UNCHANGED raised
     \/ CloseOnce("raise") /\ raised' = First("close")
  /\ pc' = IF pc = "cancelClose" THEN "cancelAbort" ELSE "failAbort"
  /\ UNCHANGED <<input, tokenVars, epoch, applied, sinkVars, sinkBegun,
                 groupVars, bufferVars, channel, finalEpoch, cause, result>>

\* Clean-up, second half: abort the sink if this run began it, and leave.
CleanSink ==
  /\ pc \in {"cancelAbort", "failAbort"}
  /\ \/ ~sinkBegun /\ UNCHANGED <<sinkVars, raised>>
     \/ sinkBegun /\ SinkAbort("ok") /\ UNCHANGED raised
     \/ sinkBegun /\ SinkAbort("raise") /\ raised' = First("abort")
  /\ Return(IF pc = "cancelAbort" THEN "CANCELLED" ELSE "ERROR", ZeroCount)
  /\ UNCHANGED <<input, tokenVars, runtimeVars, closeVars, sinkBegun, groupVars,
                 bufferVars, channel, cause>>

\* `except Exception` does not catch a BaseException: it leaves run() at once,
\* with no clean-up, wherever the run was.
Interrupt ==
  /\ May("interrupt")
  /\ pc # "done"
  /\ pc' = "done"
  /\ result' = [result EXCEPT !.status = "ESCAPED"]
  /\ UNCHANGED <<input, tokenVars, runtimeVars, closeVars, sinkVars, sinkBegun,
                 groupVars, bufferVars, channel, finalEpoch, cause, raised>>

Terminated == pc = "done" /\ UNCHANGED vars

RunnerStep ==
  \/ Enter \/ CreateRuntime \/ InitializeRuntime \/ CheckInitialized
  \/ BeginSink \/ NextGroup \/ Propagate \/ ExecuteManeuver \/ TakeSamples
  \/ Accept \/ FinishGroup \/ CheckScheduleEnd \/ FlushCheck \/ FlushWrite
  \/ CheckFlushed \/ CheckFinalEpoch \/ CloseRuntime \/ LastCheck
  \/ CommitSink \/ ReturnCompleted \/ CleanRuntime \/ CleanSink

Next == RunnerStep \/ Cancel \/ Interrupt \/ Terminated

\* Every call the runner makes returns, so the runner keeps stepping; nothing
\* obliges the other thread to cancel or an interrupt to arrive.
Spec     == Init /\ [][Next]_vars
FairSpec == Spec /\ WF_vars(RunnerStep)
===============================================================================
