------------------------------ MODULE OutputSink ------------------------------
(***************************************************************************)
(* One single-use output sink of the Engine: the lifecycle of              *)
(* _LifecycleOutputSink and the bounded store of InMemoryOutputSink        *)
(* (engine/sinks.py).                                                      *)
(*                                                                         *)
(* Every operation takes the outcome the caller sees, "ok" or "raise", so  *)
(* that the batch runner and the composite sink can react to it.  An       *)
(* operation raises when the lifecycle refuses it, when the store is full, *)
(* or when the implementation hook behind it raises; hooks are the         *)
(* overridable part of the class, and SinkFaults names those that may fail.*)
(***************************************************************************)
EXTENDS Naturals, Sequences

CONSTANTS
  MaxRecords,  \* InMemoryOutputSink.max_records, over all channels together
  SinkFaults   \* the operations whose hook may raise

VARIABLES
  status,      \* _status
  stored       \* the retained records of each channel, in write order

sinkVars == <<status, stored>>

\* The typed channels: one write operation and one retained list each.
Channels == {"truth_states", "attitude_states", "truth_maneuvers"}

SinkStatus == {"NEW", "WRITING", "COMMITTED", "ABORTED"}
Operations == {"begin", "write", "commit", "abort"}
Outcomes   == {"ok", "raise"}
Empty      == [c \in Channels |-> <<>>]

ASSUME SinkAssumption ==
  /\ MaxRecords \in Nat \ {0}
  /\ SinkFaults \subseteq Operations

\* Number of records of a per-channel store, over all channels.
Total(store) ==
  Len(store["truth_states"]) + Len(store["attitude_states"]) + Len(store["truth_maneuvers"])

SinkInit == status = "NEW" /\ stored = Empty

\* The call raises and leaves the sink as it was: the lifecycle refuses the
\* operation, or the operation is allowed and its hook fails.
Refused(op, allowed) ==
  /\ ~allowed \/ op \in SinkFaults
  /\ UNCHANGED sinkVars

SinkBegin(outcome) ==
  \/ /\ outcome = "ok"
     /\ status = "NEW"
     /\ status' = "WRITING"
     /\ UNCHANGED stored
  \/ outcome = "raise" /\ Refused("begin", status = "NEW")

\* Room for a batch within the bound that all channels share.
Fits(batch) == Total(stored) + Len(batch) <= MaxRecords

\* A batch that does not fit makes the sink discard everything it retains and
\* abort itself before it raises.
SinkWrite(c, batch, outcome) ==
  \/ /\ outcome = "ok"
     /\ status = "WRITING"
     /\ batch # <<>>
     /\ Fits(batch)
     /\ stored' = [stored EXCEPT ![c] = @ \o batch]
     /\ UNCHANGED status
  \/ /\ outcome = "raise"
     /\ status = "WRITING"
     /\ batch # <<>>
     /\ ~Fits(batch)
     /\ status' = "ABORTED"
     /\ stored' = Empty
  \/ outcome = "raise" /\ Refused("write", status = "WRITING" /\ batch # <<>>)

SinkCommit(outcome) ==
  \/ /\ outcome = "ok"
     /\ status = "WRITING"
     /\ status' = "COMMITTED"
     /\ UNCHANGED stored
  \/ outcome = "raise" /\ Refused("commit", status = "WRITING")

\* abort is idempotent once the sink is ABORTED and refused outside WRITING.
SinkAbort(outcome) ==
  \/ /\ outcome = "ok"
     /\ status = "WRITING"
     /\ status' = "ABORTED"
     /\ stored' = Empty
  \/ outcome = "ok" /\ status = "ABORTED" /\ UNCHANGED sinkVars
  \/ outcome = "raise" /\ status # "ABORTED" /\ Refused("abort", status = "WRITING")

\* A client free to call any operation at any time; batches bounds its writes.
SinkStep(batches) ==
  \E outcome \in Outcomes :
    \/ SinkBegin(outcome)
    \/ SinkCommit(outcome)
    \/ SinkAbort(outcome)
    \/ \E c \in Channels, batch \in batches : SinkWrite(c, batch, outcome)

SinkTypeOK(records) ==
  /\ status \in SinkStatus
  /\ stored \in [Channels -> Seq(records)]

-------------------------------------------------------------------------------
\* The single-use contract: once COMMITTED or ABORTED the sink never changes
\* again, whatever is called on it.
FinalIsFinal ==
  [][(status \in {"COMMITTED", "ABORTED"}) => UNCHANGED sinkVars]_sinkVars

\* InMemoryOutputSink never retains more than max_records, and an aborted one
\* retains nothing, whether abort() or an overflowing write aborted it.
StoreBounded ==
  /\ Total(stored) <= MaxRecords
  /\ status \in {"NEW", "ABORTED"} => stored = Empty
===============================================================================
