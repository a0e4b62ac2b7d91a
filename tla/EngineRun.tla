------------------------------ MODULE EngineRun ------------------------------
(***************************************************************************)
(* One run of the Engine with its parts composed: BatchRunner.run          *)
(* (engine/execution.py) drives the event schedule of a manifest           *)
(* (EventSchedule), the fake science-backend runtime (FakeRuntime) and an  *)
(* output sink (OutputSink), and another thread may cancel.                *)
(*                                                                         *)
(* BatchRunner checks the runner against an environment that may answer    *)
(* anything.  Here the environment is the real one, so that what is        *)
(* committed can be compared with the physics the manifest asks for.  The  *)
(* runner is BatchRunner's with batch_size 1, where every record is        *)
(* written as it is accepted, and with two steps taken as one when nothing *)
(* outside can see the state between them.                                 *)
(***************************************************************************)
EXTENDS Integers, Sequences, FiniteSets, SequencesExt

CONSTANTS
  Manifests,    \* [start, end, sync, intervals, timeline, burns]
  Spacecraft, OtherObjects, Initial, Sync, LastEpoch, Limit, Ulp, MaxRecords

VARIABLES
  request, phase, lookahead, remaining, groups,          \* EventSchedule
  lifecycle, position, velocity, epoch, cancelled, call, \* FakeRuntime
  start, target, candidates, pending, answer,
  atCall, impulse, moment,
  status, stored,                                        \* OutputSink
  pc,          \* the runner's next step
  executed,    \* the maneuver records of the group
  unwritten,   \* records of the group the sink has not received
  outcome      \* what the run returned or raised

scheduleVars == <<request, phase, lookahead, remaining, groups>>
runtimeVars  == <<lifecycle, position, velocity, epoch, call, start, target, candidates,
                  pending, answer, atCall, impulse, moment>>
sinkVars     == <<status, stored>>
recordVars   == <<executed, unwritten>>
vars == <<scheduleVars, runtimeVars, cancelled, sinkVars, recordVars, pc, outcome>>

Sampled  == "truth_states"
Schedule == INSTANCE EventSchedule WITH
              Requests <- Manifests, Products <- {Sampled}, MayRaise <- FALSE
Runtime  == INSTANCE FakeRuntime WITH
              Targets <- 0 .. LastEpoch, Incomparable <- {}, Entries <- {},
              MayFailCopy <- FALSE
Sink     == INSTANCE OutputSink WITH SinkFaults <- {}

\* The order of the maneuvers is left open: a manifest whose content hash is
\* right may hold them in any order (ManifestPreparation).  Its request is valid:
\* no planned maneuver is before the synchronization epoch (Scenario).
ASSUME ManifestAssumption ==
  /\ Sync \in Nat /\ LastEpoch \in Nat
  /\ \A m \in Manifests :
       /\ m.start \in Nat /\ m.end \in Nat
       /\ m.sync = Sync /\ Sync <= m.start /\ m.start < m.end /\ m.end <= LastEpoch
       /\ DOMAIN m.intervals = {Sampled} /\ m.intervals[Sampled] \in Nat \ {0}
       /\ m.timeline \in Seq(Schedule!Entries)
       /\ \A i \in DOMAIN m.timeline :
            m.timeline[i].source = "PLANNED" => m.timeline[i].epoch >= Sync
       /\ DOMAIN m.burns = DOMAIN m.timeline
       /\ \A i \in DOMAIN m.burns : /\ m.burns[i].spacecraft \in Spacecraft
                                    /\ m.burns[i].deltaV \in Int

\* The objects a manifest propagates are finitely many.
ASSUME ObjectsAssumption ==
  /\ IsFiniteSet(Spacecraft \cup OtherObjects)
  /\ Initial \in [Spacecraft \cup OtherObjects -> [position : Int, velocity : Int]]

Group == Last(groups)

\* The maneuver of entry i, as the runtime receives it.
Burn(i) ==
  [spacecraft |-> request.burns[i].spacecraft, deltaV |-> request.burns[i].deltaV,
   epoch |-> request.timeline[i].epoch, supported |-> TRUE]

-------------------------------------------------------------------------------
Init ==
  /\ request \in Manifests
  /\ phase = "ready" /\ lookahead = [p \in {Sampled} |-> Schedule!Exhausted]
  /\ remaining = {} /\ groups = <<>>
  /\ Runtime!Init /\ Sink!SinkInit
  /\ pc = "entry" /\ executed = <<>> /\ unwritten = <<>> /\ outcome = "RUNNING"

Proceed(label) == pc' = label /\ UNCHANGED outcome
Stop(reason)   == pc' = "cleanUp" /\ outcome' = reason

\* A read of the token: cancel_active, or go on.
Unless(label) == IF cancelled THEN Stop("CANCELLED") ELSE Proceed(label)

\* The other thread.
Cancel ==
  /\ pc # "done" /\ ~cancelled
  /\ Runtime!Cancel
  /\ UNCHANGED <<scheduleVars, sinkVars, recordVars, pc, outcome>>

\* The first read of the token, before the runtime is created.
Enter ==
  /\ pc = "entry"
  /\ IF cancelled THEN pc' = "done" /\ outcome' = "CANCELLED" ELSE Proceed("initialize")
  /\ UNCHANGED <<scheduleVars, runtimeVars, cancelled, sinkVars, recordVars>>

Initialize ==
  /\ pc = "initialize"
  /\ Runtime!Initialize /\ Proceed("initialized")
  /\ UNCHANGED <<scheduleVars, sinkVars, recordVars>>

\* The epoch check after initialize, the read of the token, sink.begin.
Begin ==
  /\ pc = "initialized"
  /\ IF Runtime!Now = Sync /\ ~cancelled THEN Sink!SinkBegin("ok") /\ Proceed("next")
     ELSE /\ Stop(IF Runtime!Now # Sync THEN "ERROR" ELSE "CANCELLED")
          /\ UNCHANGED sinkVars
  /\ UNCHANGED <<scheduleVars, runtimeVars, cancelled, recordVars>>

\* The generator runs up to its loop when it is first advanced.
Prime ==
  /\ pc = "next"
  /\ Schedule!Prime
  /\ UNCHANGED <<runtimeVars, cancelled, sinkVars, recordVars, pc, outcome>>

\* The schedule yields a group, and the token is read.
NextGroup ==
  /\ pc = "next"
  /\ \E at \in Schedule!Candidates : Schedule!YieldGroup(at)
  /\ Unless("propagate")
  /\ executed' = <<>>
  /\ UNCHANGED <<runtimeVars, cancelled, sinkVars, unwritten>>

EndOfSchedule ==
  /\ pc = "next"
  /\ Schedule!Exhaust /\ Proceed("end")
  /\ UNCHANGED <<runtimeVars, cancelled, sinkVars, recordVars>>

Propagate ==
  /\ pc = "propagate"
  /\ Runtime!Propagate(Group.epoch) /\ Proceed("moving")
  /\ UNCHANGED <<scheduleVars, sinkVars, recordVars>>

\* The runtime works.
Move ==
  /\ pc = "moving" /\ call # "none"
  /\ Runtime!Decide \/ \E o \in Runtime!Objects : Runtime!Update(o)
  /\ UNCHANGED <<scheduleVars, sinkVars, recordVars, pc, outcome>>

\* What the runner makes of the answer, and of the runtime's epoch then.
Arrive ==
  /\ pc = "moving" /\ call = "none"
  /\ IF answer = "REACHED_TARGET" /\ Runtime!Now = Group.epoch THEN Proceed("maneuver")
     ELSE Stop(IF answer = "CANCELLED" THEN "CANCELLED" ELSE "ERROR")
  /\ UNCHANGED <<scheduleVars, runtimeVars, cancelled, sinkVars, recordVars>>

\* Maneuvers of the group that remain to be executed.
Rest == Group.maneuvers \ {executed[i].entry : i \in DOMAIN executed}

ExecuteManeuver ==
  /\ pc = "maneuver" /\ Rest # {}
  /\ LET i      == Min(Rest)
         object == request.burns[i].spacecraft
     IN  /\ Runtime!Execute(Burn(i))
         /\ IF answer' = "done"
            THEN /\ executed' = Append(executed,
                      [entry |-> i, epoch |-> Group.epoch,
                       before |-> velocity[object], after |-> velocity'[object]])
                 /\ Proceed("maneuver")
            ELSE Stop("ERROR") /\ UNCHANGED executed
  /\ UNCHANGED <<scheduleVars, sinkVars, unwritten>>

\* truth_states of the runtime.
TruthStates ==
  [i \in DOMAIN SetToSeq(Runtime!Objects) |->
     LET o == SetToSeq(Runtime!Objects)[i]
     IN  [object |-> o, epoch |-> epoch[o], position |-> position[o], velocity |-> velocity[o]]]

\* Variant: the states are read before the maneuvers are executed.
SampledBefore == [i \in DOMAIN TruthStates |->
  LET o    == TruthStates[i].object
      mine == {k \in DOMAIN executed : request.burns[executed[k].entry].spacecraft = o}
  IN  IF mine = {} THEN TruthStates[i]
      ELSE [TruthStates[i] EXCEPT !.velocity = executed[Min(mine)].before]]

\* The snapshot a group's sample is made of.
Snapshot == TruthStates

\* The states are read once every maneuver of the group is executed.
TakeSamples ==
  /\ pc = "maneuver" /\ Rest = {}
  /\ unwritten' =
       [i \in DOMAIN executed |-> <<"truth_maneuvers", executed[i]>>] \o
       (IF Group.products = {} THEN <<>>
        ELSE [i \in DOMAIN Snapshot |-> <<Sampled, Snapshot[i]>>])
  /\ Proceed("write")
  /\ UNCHANGED <<scheduleVars, runtimeVars, cancelled, sinkVars, executed>>

Write ==
  /\ pc = "write" /\ unwritten # <<>>
  /\ \/ Sink!SinkWrite(Head(unwritten)[1], <<Head(unwritten)[2]>>, "ok") /\ Proceed("write")
     \/ Sink!SinkWrite(Head(unwritten)[1], <<Head(unwritten)[2]>>, "raise") /\ Stop("ERROR")
  /\ unwritten' = Tail(unwritten)
  /\ UNCHANGED <<scheduleVars, runtimeVars, cancelled, executed>>

FinishGroup ==
  /\ pc = "write" /\ unwritten = <<>>
  /\ Unless("next")
  /\ UNCHANGED <<scheduleVars, runtimeVars, cancelled, sinkVars, recordVars>>

\* Nothing is left to flush; the final epoch must be the end of the range.
End ==
  /\ pc = "end"
  /\ IF Runtime!Now = request.end \/ cancelled THEN Unless("close") ELSE Stop("ERROR")
  /\ UNCHANGED <<scheduleVars, runtimeVars, cancelled, sinkVars, recordVars>>

Close ==
  /\ pc = "close"
  /\ Runtime!Close /\ Proceed("last")
  /\ UNCHANGED <<scheduleVars, sinkVars, recordVars>>

\* The last read of the token, and the commit.
Commit ==
  /\ pc = "last"
  /\ \/ cancelled /\ Stop("CANCELLED") /\ UNCHANGED sinkVars
     \/ ~cancelled /\ Sink!SinkCommit("ok") /\ pc' = "done" /\ outcome' = "COMPLETED"
  /\ UNCHANGED <<scheduleVars, runtimeVars, cancelled, recordVars>>

\* The runtime is closed unless it was, and a sink that was begun is aborted.
CleanUp ==
  /\ pc = "cleanUp" /\ pc' = "done"
  /\ IF lifecycle = "CLOSED" THEN UNCHANGED <<runtimeVars, cancelled>> ELSE Runtime!Close
  /\ IF status = "NEW" THEN UNCHANGED sinkVars ELSE Sink!SinkAbort("ok")
  /\ UNCHANGED <<scheduleVars, recordVars, outcome>>

Terminated == pc = "done" /\ UNCHANGED vars

Step ==
  \/ Enter \/ Initialize \/ Begin \/ Prime \/ NextGroup \/ EndOfSchedule
  \/ Propagate \/ Move \/ Arrive \/ ExecuteManeuver \/ TakeSamples \/ Write
  \/ FinishGroup \/ End \/ Close \/ Commit \/ CleanUp

Next == Step \/ Cancel \/ Terminated

\* Every call returns; nothing obliges the other thread to cancel.
Spec == Init /\ [][Next]_vars /\ WF_vars(Step)

-------------------------------------------------------------------------------
\* The maneuvers of the manifest that a run executes, and those of object o it
\* executes up to instant t, both straight from the manifest.
Scheduled == {i \in DOMAIN request.timeline : Schedule!Runs(request.timeline[i])}
BurnsOf(o, t) ==
  {i \in Scheduled : request.burns[i].spacecraft = o /\ request.timeline[i].epoch <= t}

\* What each of them adds to a velocity, and to the position at instant t.
Impulses  == [i \in DOMAIN request.burns |-> request.burns[i].deltaV]
Shifts(t) == [i \in DOMAIN request.burns |-> Impulses[i] * (t - request.timeline[i].epoch)]

\* Every committed state is the closed form of its initial state and of the
\* maneuvers due up to its epoch, those at its epoch included: whatever the
\* grouping of instants, the cuts of propagation, the cadence, the commands
\* before the start and the entries beyond the end, and however the manifest
\* orders them.  The last instant of the range is among the samples.
CommittedTruthIsBallistic ==
  status = "COMMITTED" =>
    /\ \A k \in DOMAIN stored[Sampled] :
         LET s == stored[Sampled][k]
             b == BurnsOf(s.object, s.epoch)
         IN  /\ s.velocity = Initial[s.object].velocity + SumFunctionOnSet(Impulses, b)
             /\ s.position = Initial[s.object].position
                             + Initial[s.object].velocity * (s.epoch - Sync)
                             + SumFunctionOnSet(Shifts(s.epoch), b)
    /\ \A o \in Runtime!Objects :
         \E k \in DOMAIN stored[Sampled] :
           stored[Sampled][k].object = o /\ stored[Sampled][k].epoch = request.end
    /\ {stored["truth_maneuvers"][k].entry : k \in DOMAIN stored["truth_maneuvers"]} = Scheduled

\* A timeline that goes back in time, though Core accepts its manifest, never
\* gets its output committed: the run ends in an error or is cancelled.
GoesBack ==
  \E i, j \in Scheduled : i < j /\ request.timeline[j].epoch < request.timeline[i].epoch
ReorderedNeverCommits ==
  GoesBack => status # "COMMITTED" /\ (pc = "done" => outcome \in {"ERROR", "CANCELLED"})

\* A manifest as prepare makes it runs to the end if the sink has room for what
\* it asks for: no check of the runner and no refusal of the runtime stops it,
\* only a request for cancellation does.
Cadence == {e \in request.start .. request.end :
              e = request.end \/ (e - request.start) % request.intervals[Sampled] = 0}
Volume  == Cardinality(Scheduled) + Cardinality(Cadence) * Cardinality(Runtime!Objects)
PreparedRunsComplete ==
  Schedule!Prepared(request) /\ Volume <= MaxRecords => <>(outcome = "COMPLETED" \/ cancelled)
===============================================================================
