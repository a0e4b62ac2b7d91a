------------------------- MODULE BatchRunnerInvariant -------------------------
(***************************************************************************)
(* The inductive invariant behind the safety properties of a run: what the *)
(* position of the runner says about the sink, the runtime, the token, the *)
(* buffers and the failure being reported.                                 *)
(***************************************************************************)
EXTENDS BatchRunnerProperties

\* Positions of the runner, by what it holds there.
BeforeSink == {"entry", "create", "initialize", "initCheck", "begin"}
Producing  == {"next", "propagate", "maneuver", "accept", "endCheck", "flush",
               "flushWrite", "finalCheck", "finalEpoch", "close", "lastCheck",
               "commit"}
BeforeRuntime == {"entry", "create"}
RuntimeLive   == {"initialize", "initCheck", "begin", "next", "propagate",
                  "maneuver", "accept", "endCheck", "flush", "flushWrite",
                  "finalCheck", "finalEpoch", "close"}
RuntimeClosed == {"lastCheck", "commit", "return"}
Reporting     == {"failClose", "failAbort"}
Cancelling    == {"cancelClose", "cancelAbort"}
Sealed        == {"commit", "return"}
AtTheEnd      == {"close", "lastCheck", "commit", "return"}
Drained       == {"finalCheck", "finalEpoch", "close", "lastCheck", "commit", "return"}

SinkInv ==
  /\ pc \in BeforeSink => ~sinkBegun
  /\ pc \in Producing  => sinkBegun /\ status = "WRITING"
  /\ pc = "return"     => Published
  /\ Published         => pc \in {"return", "done"} /\ runtime = "closed"
  /\ sinkBegun         => status # "NEW"

RuntimeInv ==
  /\ closeCalls = IF closeAttempted THEN 1 ELSE 0
  /\ pc \in BeforeRuntime => runtime = "none" /\ ~closeAttempted
  /\ pc \in RuntimeLive   => runtime = "live" /\ ~closeAttempted
  /\ pc \in RuntimeClosed => runtime = "closed" /\ closeAttempted
  /\ pc \in {"cancelAbort", "failAbort"} => runtime = "none" \/ closeAttempted

\* A request made before the seal keeps the runner away from the commit.
TokenInv ==
  /\ cancelled = (mark.at # "never")
  /\ mark.at \notin Sealed \cup {"never"} => pc \notin Sealed /\ ~Published

\* A run is only cancelled on request, provided propagate_to reports CANCELLED
\* only on request.
RequestInv == ~May("outcome") /\ pc \in Cancelling => cancelled

\* What is reported, and when.
ReportInv ==
  /\ (result.status = "RUNNING") = (pc # "done")
  /\ pc \in AtTheEnd => finalEpoch = EndEpoch
  /\ pc \notin Reporting \cup {"done"} => cause = "none"
  /\ pc \notin Reporting \cup Cancelling \cup {"done"} => raised = "none"
  /\ pc = "cancelClose" => raised = "none"
  /\ pc \in Reporting => cause # "none" /\ cause = raised

\* Every accepted record is in the sink or in an open batch that still has room.
AccountInv ==
  /\ ~sinkBegun => /\ \A c \in Channels : /\ count[c] = 0
                                          /\ Kept(c) = 0
                                          /\ Open(c) = 0
  /\ pc \in Producing => \A c \in Channels : Open(c) < input.batchSize
  /\ OutputAccounted

\* The residual flush empties the channels in order.
DrainInv ==
  /\ pc \in Producing \ (Drained \cup {"flush", "flushWrite"}) => channel = 1
  /\ pc \in BeforeSink => channel = 1
  /\ pc \in {"flush", "flushWrite"} =>
       \A i \in 1 .. Len(FlushOrder) : i < channel => Open(FlushOrder[i]) = 0
  /\ pc \in Drained => \A c \in Channels : Open(c) = 0

\* After a request the runner enters neither a group nor a residual write: it
\* only finishes the one it was in.
PromptInv ==
  cancelled =>
    /\ group = mark.group
    /\ mark.at \notin GroupSteps \cup {"flushWrite"} =>
         pc \notin GroupSteps \cup {"flushWrite"} /\ writes = mark.writes
    /\ mark.at = "flushWrite" =>
         /\ pc \notin GroupSteps
         /\ pc = "flushWrite" => writes = mark.writes
         /\ writes <= mark.writes + 1

SafetyInv ==
  /\ SinkInv
  /\ RuntimeInv
  /\ TokenInv
  /\ ReportInv
  /\ AccountInv
  /\ DrainInv
  /\ OutcomeMatchesSink
  /\ RuntimeClosedOnce
  /\ FirstCauseSurvives

-------------------------------------------------------------------------------
\* What the run has produced, at each position of the runner.

AfterGroups == {"endCheck", "flush", "flushWrite", "finalCheck", "finalEpoch",
                "close", "lastCheck", "commit"}
BetweenGroups == {"next"} \cup AfterGroups

\* The groups come in order of time, none before the synchronization epoch.
Timely(groups) ==
  /\ \A i, j \in DOMAIN groups : i < j => groups[i].epoch < groups[j].epoch
  /\ \A i \in DOMAIN groups : SyncEpoch <= groups[i].epoch

\* The accepted records of each channel, in the sink or in the open batch.
Written == [c \in Channels |-> stored[c] \o buffer[c]]

Tagged(c, records) == [i \in DOMAIN records |-> [channel |-> c, record |-> records[i]]]

\* The records not yet accepted are rest, channel by channel.
Awaits(rest) ==
  pending = Tagged("truth_maneuvers", rest["truth_maneuvers"])
              \o Tagged("truth_states", rest["truth_states"])
              \o Tagged("attitude_states", rest["attitude_states"])

Joined(first, rest) == [c \in Channels |-> first[c] \o rest[c]]

\* output is what the first k groups call for.
Whole(groups, k, output) ==
  /\ \A c \in Channels : Identified(c, output[c]) = Expected(groups, k, c)
  /\ \A i \in DOMAIN output["truth_maneuvers"] :
       \E g \in 1 .. k : output["truth_maneuvers"][i].epoch = groups[g].epoch
  /\ Timely(groups) => Chained(output["truth_maneuvers"])

OutputInv ==
  /\ pc \in BeforeSink => group = 0
  /\ pc \in BetweenGroups => Whole(Groups, group, Written)
  /\ pc \in {"propagate", "maneuver"} => Whole(Groups, group - 1, Written)
  /\ pc = "accept" => \E rest \in [Channels -> Seq(OutputRecord)] :
                        Awaits(rest) /\ Whole(Groups, group, Joined(Written, rest))
  /\ pc \in AfterGroups => group = Len(Groups)
  /\ Published => Whole(Groups, Len(Groups), stored)

\* done are the first maneuvers of the group g.
Follows(g, done) ==
  /\ Len(done) <= Len(g.maneuvers)
  /\ \A i \in DOMAIN done : /\ done[i].event = g.maneuvers[i].event
                            /\ done[i].entity = g.maneuvers[i].entity
                            /\ done[i].epoch = g.epoch
  /\ Chained(done)

\* The maneuvers the runtime has executed.
ExecutionInv ==
  /\ pc \in BeforeSink => applied = 0
  /\ pc = "propagate" => applied = Len(ManeuversThrough(Groups, group - 1))
  /\ pc = "maneuver" =>
       /\ Follows(Group, executed)
       /\ applied = Len(ManeuversThrough(Groups, group - 1)) + Len(executed)
  /\ pc \in BetweenGroups \cup {"accept"} =>
       applied = Len(ManeuversThrough(Groups, group))

\* Where a runtime that does not drift is in time.
EpochInv ==
  /\ pc = "entry" => finalEpoch = SyncEpoch
  /\ pc \in AtTheEnd => finalEpoch = epoch
  /\ ~May("drift") =>
       /\ pc \in BeforeSink => epoch = SyncEpoch
       /\ pc = "propagate" => epoch = EpochAfter(Groups, group - 1)
       /\ pc \in BetweenGroups \cup {"maneuver", "accept"} =>
            epoch = EpochAfter(Groups, group)

\* A run that stops on request stops between two groups.
StopInv ==
  Timely(Groups) =>
    /\ pc \in Cancelling => StoppedBetweenGroups(finalEpoch)
    /\ result.status = "CANCELLED" => StoppedBetweenGroups(result.final)

ProductionInv == OutputInv /\ ExecutionInv /\ EpochInv /\ StopInv
===============================================================================
