-------------------------- MODULE BatchRunnerProofs --------------------------
(***************************************************************************)
(* Proofs about BatchRunner.run for every schedule, batch size, sink bound *)
(* and combination of faults: the sink it writes to, for any client; type  *)
(* correctness of the runner; its safety properties, from the inductive    *)
(* invariant of BatchRunnerInvariant; and what it commits: the whole       *)
(* output of the schedule and nothing else, as one atomic step, and what a *)
(* cancelled run leaves behind.                                            *)
(***************************************************************************)
EXTENDS BatchRunnerInvariant, SequenceLemmas

\* The empty store is typed, and has no record.
LEMMA EmptyStore ==
  ASSUME NEW records
  PROVE  Empty \in [Channels -> Seq(records)] /\ Total(Empty) = 0
BY DEF Empty, Total, Channels

\* Extending one channel by n records adds n to the total.
LEMMA TotalExtended ==
  ASSUME NEW old, NEW new, NEW n \in Nat,
         Len(old["truth_states"]) \in Nat,
         Len(old["attitude_states"]) \in Nat,
         Len(old["truth_maneuvers"]) \in Nat,
         \/ /\ Len(new["truth_states"]) = Len(old["truth_states"]) + n
            /\ Len(new["attitude_states"]) = Len(old["attitude_states"])
            /\ Len(new["truth_maneuvers"]) = Len(old["truth_maneuvers"])
         \/ /\ Len(new["truth_states"]) = Len(old["truth_states"])
            /\ Len(new["attitude_states"]) = Len(old["attitude_states"]) + n
            /\ Len(new["truth_maneuvers"]) = Len(old["truth_maneuvers"])
         \/ /\ Len(new["truth_states"]) = Len(old["truth_states"])
            /\ Len(new["attitude_states"]) = Len(old["attitude_states"])
            /\ Len(new["truth_maneuvers"]) = Len(old["truth_maneuvers"]) + n
  PROVE  Total(new) = Total(old) + n
<1> DEFINE t(f) == Len(f["truth_states"])
           a(f) == Len(f["attitude_states"])
           m(f) == Len(f["truth_maneuvers"])
<1>1. t(old) \in Nat /\ a(old) \in Nat /\ m(old) \in Nat
  OBVIOUS
<1>2. \/ t(new) = t(old) + n /\ a(new) = a(old) /\ m(new) = m(old)
      \/ t(new) = t(old) /\ a(new) = a(old) + n /\ m(new) = m(old)
      \/ t(new) = t(old) /\ a(new) = a(old) /\ m(new) = m(old) + n
  OBVIOUS
<1>3. Total(old) = t(old) + a(old) + m(old) /\ Total(new) = t(new) + a(new) + m(new)
  BY DEF Total
<1> HIDE DEF t, a, m
<1>4. t(new) \in Nat /\ a(new) \in Nat /\ m(new) \in Nat
  BY <1>1, <1>2
<1>5. t(new) + a(new) + m(new) = t(old) + a(old) + m(old) + n
  BY <1>1, <1>2, <1>4
<1> QED
  BY <1>3, <1>5

\* An operation of the sink keeps the sink's type.
LEMMA SinkOperationsTyped ==
  ASSUME NEW records, SinkTypeOK(records), NEW outcome,
         NEW c \in Channels, NEW batch \in Seq(records),
         \/ SinkBegin(outcome) \/ SinkCommit(outcome)
         \/ SinkAbort(outcome) \/ SinkWrite(c, batch, outcome)
  PROVE  SinkTypeOK(records)'
<1> USE DEF SinkTypeOK, SinkStatus, Refused, sinkVars
<1>1. CASE SinkBegin(outcome)
  BY <1>1 DEF SinkBegin
<1>2. CASE SinkCommit(outcome)
  BY <1>2 DEF SinkCommit
<1>3. CASE SinkAbort(outcome)
  BY <1>3, EmptyStore DEF SinkAbort
<1>4. CASE SinkWrite(c, batch, outcome)
  <2>1. stored[c] \o batch \in Seq(records)
    OBVIOUS
  <2> QED
    BY <1>4, <2>1, EmptyStore DEF SinkWrite
<1> QED
  BY <1>1, <1>2, <1>3, <1>4

\* What a successful write adds: the batch, at the end of its own channel.
LEMMA SinkWriteAppends ==
  ASSUME NEW records, SinkTypeOK(records),
         NEW c \in Channels, NEW batch \in Seq(records),
         SinkWrite(c, batch, "ok")
  PROVE  /\ status = "WRITING" /\ status' = "WRITING"
         /\ Total(stored) + Len(batch) <= MaxRecords
         /\ Len(stored'[c]) = Len(stored[c]) + Len(batch)
         /\ \A d \in Channels \ {c} : stored'[d] = stored[d]
<1>1. stored' = [stored EXCEPT ![c] = @ \o batch] /\ Fits(batch)
  BY DEF SinkWrite
<1>2. status = "WRITING" /\ status' = "WRITING"
  BY DEF SinkWrite
<1>3. stored[c] \in Seq(records)
  BY DEF SinkTypeOK
<1> QED
  BY <1>1, <1>2, <1>3 DEF SinkTypeOK, Fits

-------------------------------------------------------------------------------
\* Type correctness of the sink, whatever its client does with batches of
\* records.
THEOREM SinkTyping ==
  ASSUME NEW records, NEW batches, batches \subseteq Seq(records)
  PROVE  SinkInit /\ [][SinkStep(batches)]_sinkVars => []SinkTypeOK(records)
<1>1. SinkInit => SinkTypeOK(records)
  BY EmptyStore DEF SinkInit, SinkTypeOK, SinkStatus
<1>2. SinkTypeOK(records) /\ [SinkStep(batches)]_sinkVars => SinkTypeOK(records)'
  <2> SUFFICES ASSUME SinkTypeOK(records), [SinkStep(batches)]_sinkVars
               PROVE  SinkTypeOK(records)'
    OBVIOUS
  <2>1. CASE SinkStep(batches)
    <3>1. PICK outcome \in Outcomes :
            \/ SinkBegin(outcome)
            \/ SinkCommit(outcome)
            \/ SinkAbort(outcome)
            \/ \E c \in Channels, batch \in batches : SinkWrite(c, batch, outcome)
      BY <2>1 DEF SinkStep
    <3>2. CASE \E c \in Channels, batch \in batches : SinkWrite(c, batch, outcome)
      BY <3>2, SinkOperationsTyped
    <3>3. CASE SinkBegin(outcome) \/ SinkCommit(outcome) \/ SinkAbort(outcome)
      <4>1. "truth_states" \in Channels /\ <<>> \in Seq(records)
        BY DEF Channels
      <4> QED
        BY <3>3, <4>1, SinkOperationsTyped
    <3> QED
      BY <3>1, <3>2, <3>3
  <2>2. CASE UNCHANGED sinkVars
    BY <2>2 DEF sinkVars, SinkTypeOK
  <2> QED
    BY <2>1, <2>2
<1> QED
  BY <1>1, <1>2, PTL

\* The store never exceeds its bound and is empty unless the sink is writing or
\* committed: an overflow can leave neither a partial nor an oversized output.
THEOREM SinkStoreBounded ==
  ASSUME NEW records, NEW batches, batches \subseteq Seq(records)
  PROVE  SinkInit /\ [][SinkStep(batches)]_sinkVars => []StoreBounded
<1>1. SinkInit => StoreBounded
  BY EmptyStore, SinkAssumption DEF SinkInit, StoreBounded
<1>2. /\ SinkTypeOK(records) /\ StoreBounded
      /\ [SinkStep(batches)]_sinkVars
      => StoreBounded'
  <2> SUFFICES ASSUME SinkTypeOK(records), StoreBounded, [SinkStep(batches)]_sinkVars
               PROVE  StoreBounded'
    OBVIOUS
  <2> USE DEF StoreBounded
  <2>1. CASE UNCHANGED sinkVars
    BY <2>1 DEF sinkVars, Total
  <2>2. ASSUME NEW outcome \in Outcomes,
               SinkBegin(outcome) \/ SinkCommit(outcome) \/ SinkAbort(outcome)
        PROVE  StoreBounded'
    <3>1. stored' = stored \/ stored' = Empty
      BY <2>2 DEF SinkBegin, SinkCommit, SinkAbort, Refused, sinkVars
    <3>2. Total(stored') <= MaxRecords
      BY <3>1, EmptyStore, SinkAssumption
    <3>3. status' \in {"NEW", "ABORTED"} => stored' = Empty
      BY <2>2 DEF SinkBegin, SinkCommit, SinkAbort, Refused, sinkVars
    <3> QED
      BY <3>2, <3>3 DEF Total
  <2>3. ASSUME NEW outcome \in Outcomes, NEW c \in Channels, NEW batch \in batches,
               SinkWrite(c, batch, outcome)
        PROVE  StoreBounded'
    <3>1. CASE outcome = "ok"
      <4>1. SinkWrite(c, batch, "ok") /\ batch \in Seq(records)
        BY <2>3, <3>1
      <4>2. /\ status' = "WRITING"
            /\ Total(stored) + Len(batch) <= MaxRecords
            /\ Len(stored'[c]) = Len(stored[c]) + Len(batch)
            /\ \A d \in Channels \ {c} : stored'[d] = stored[d]
        BY <4>1, SinkWriteAppends
      <4>3. \A d \in Channels : Len(stored[d]) \in Nat
        BY DEF SinkTypeOK
      <4>4. Len(batch) \in Nat
        BY <4>1
      <4>5. \/ /\ Len(stored'["truth_states"]) = Len(stored["truth_states"]) + Len(batch)
               /\ Len(stored'["attitude_states"]) = Len(stored["attitude_states"])
               /\ Len(stored'["truth_maneuvers"]) = Len(stored["truth_maneuvers"])
            \/ /\ Len(stored'["truth_states"]) = Len(stored["truth_states"])
               /\ Len(stored'["attitude_states"]) = Len(stored["attitude_states"]) + Len(batch)
               /\ Len(stored'["truth_maneuvers"]) = Len(stored["truth_maneuvers"])
            \/ /\ Len(stored'["truth_states"]) = Len(stored["truth_states"])
               /\ Len(stored'["attitude_states"]) = Len(stored["attitude_states"])
               /\ Len(stored'["truth_maneuvers"]) = Len(stored["truth_maneuvers"]) + Len(batch)
        BY <4>2 DEF Channels
      <4>6. Total(stored') = Total(stored) + Len(batch)
        BY <4>3, <4>4, <4>5, TotalExtended DEF Channels
      <4>7. Total(stored)' = Total(stored')
        BY DEF Total
      <4> QED
        BY <4>2, <4>6, <4>7
    <3>2. CASE outcome # "ok"
      <4>1. \/ stored' = Empty
            \/ stored' = stored /\ status' = status
        BY <2>3, <3>2 DEF SinkWrite, Refused, sinkVars
      <4>2. CASE stored' = Empty
        <5>1. Total(stored)' = 0
          BY <4>2, EmptyStore DEF Total
        <5> QED
          BY <4>2, <5>1, SinkAssumption
      <4>3. CASE stored' = stored /\ status' = status
        BY <4>3 DEF Total
      <4> QED
        BY <4>1, <4>2, <4>3
    <3> QED
      BY <3>1, <3>2
  <2> QED
    BY <2>1, <2>2, <2>3 DEF SinkStep
<1> QED
  BY <1>1, <1>2, SinkTyping, PTL

\* A finished sink is never changed again, by any operation of any client.
THEOREM SinkFinalIsFinal ==
  ASSUME NEW batches
  PROVE  SinkInit /\ [][SinkStep(batches)]_sinkVars => FinalIsFinal
<1>1. [SinkStep(batches)]_sinkVars =>
        [(status \in {"COMMITTED", "ABORTED"}) => UNCHANGED sinkVars]_sinkVars
  BY DEF SinkStep, SinkBegin, SinkCommit, SinkAbort, SinkWrite, Refused, sinkVars
<1> QED
  BY <1>1, PTL DEF FinalIsFinal

-------------------------------------------------------------------------------
\* A fact about sequences, stated where no record is in sight.
LEMMA SeqJoined ==
  ASSUME NEW S, NEW a \in Seq(S), NEW b \in Seq(S), NEW c \in Seq(S)
  PROVE  a \o b \o c \in Seq(S)
OBVIOUS

\* What the assumption on Inputs gives for the run's own input.
LEMMA InputTyped ==
  ASSUME ControlTypeOK
  PROVE  /\ Groups \in Seq(ScheduledGroups)
         /\ input.batchSize \in Nat \ {0}
BY RunnerAssumption DEF ControlTypeOK, Groups

\* The group being executed is one of the schedule.
LEMMA CurrentGroupTyped ==
  ASSUME ControlTypeOK, GroupTypeOK, pc \in {"propagate", "maneuver"}
  PROVE  /\ Group.epoch \in Epochs
         /\ Group.maneuvers \in Seq(Maneuvers)
         /\ Group.products \subseteq Products
<1>1. group \in 1 .. Len(Groups)
  BY InputTyped DEF GroupTypeOK
<1>2. Groups[group] \in ScheduledGroups
  BY <1>1, InputTyped
<1> QED
  BY <1>2 DEF Group, ScheduledGroups

\* The ways control leaves an action keep the outcome variables typed.
LEMMA ExitsTyped ==
  ASSUME EndTypeOK, NEW label \in PCs, NEW e \in Causes, NEW at \in Epochs,
         Proceed(label) \/ Fail(e) \/ CancelAt(at)
  PROVE  EndTypeOK' /\ pc' \in PCs
BY DEF EndTypeOK, Proceed, Fail, CancelAt, First, endVars, PCs

\* close_runtime_once keeps the resource variables typed.
LEMMA CloseOnceTyped ==
  ASSUME ResourceTypeOK, NEW outcome, CloseOnce(outcome)
  PROVE  /\ runtime' \in {"none", "live", "closed", "close_failed"}
         /\ closeAttempted' \in BOOLEAN
         /\ closeCalls' \in Nat
<1>1. CASE UNCHANGED <<closeVars, runtime>>
  BY <1>1 DEF ResourceTypeOK, closeVars
<1>2. CASE ~ UNCHANGED <<closeVars, runtime>>
  <2>1. /\ closeAttempted' = TRUE
        /\ closeCalls' = closeCalls + 1
        /\ runtime' \in {"closed", "close_failed"}
    BY <1>2 DEF CloseOnce
  <2> QED
    BY <2>1 DEF ResourceTypeOK
<1> QED
  BY <1>1, <1>2

\* A flush keeps everything it touches typed.
LEMMA FlushTyped ==
  ASSUME RunnerTypeOK, NEW c \in Channels, NEW batch \in Seq(OutputRecord),
         NEW next \in PCs, Flush(c, batch, next)
  PROVE  /\ SinkTypeOK(OutputRecord)'
         /\ buffer' \in [Channels -> Seq(OutputRecord)]
         /\ writes' \in Nat
         /\ pc' \in {next, "failClose"}
         /\ EndTypeOK'
<1> USE DEF RunnerTypeOK
<1>1. PICK outcome \in {"ok", "raise"} : SinkWrite(c, batch, outcome)
  BY DEF Flush
<1>2. SinkTypeOK(OutputRecord)'
  BY <1>1, SinkOperationsTyped
<1>3. buffer' \in [Channels -> Seq(OutputRecord)] /\ writes' \in Nat
  <2>1. \/ buffer' = [buffer EXCEPT ![c] = <<>>] /\ writes' = writes + 1
        \/ buffer' = [buffer EXCEPT ![c] = batch] /\ writes' = writes
    BY DEF Flush
  <2>2. buffer \in [Channels -> Seq(OutputRecord)] /\ writes \in Nat
    BY DEF BufferTypeOK
  <2>3. <<>> \in Seq(OutputRecord)
    OBVIOUS
  <2>4. writes' \in Nat
    BY <2>1, <2>2
  <2>5. buffer' \in [Channels -> Seq(OutputRecord)]
    BY <2>1, <2>2, <2>3
  <2> QED
    BY <2>4, <2>5
<1>4. Proceed(next) \/ Fail("write")
  BY DEF Flush
<1>5. EndTypeOK'
  <2>1. "write" \in Causes
    BY DEF Causes
  <2>2. SyncEpoch \in Epochs
    BY RunnerAssumption
  <2> QED
    BY <1>4, <2>1, <2>2, ExitsTyped
<1>6. pc' \in {next, "failClose"}
  BY <1>4 DEF Proceed, Fail
<1> QED
  BY <1>2, <1>3, <1>5, <1>6

\* Steps that leave the stores alone: their frame, and their exits.
LEMMA PlainStepsTyped ==
  ASSUME RunnerTypeOK,
         \/ Enter \/ CreateRuntime \/ InitializeRuntime \/ CheckInitialized
         \/ NextGroup \/ FinishGroup \/ CheckScheduleEnd \/ FlushCheck
         \/ CheckFlushed \/ CheckFinalEpoch \/ LastCheck \/ Interrupt
  PROVE  RunnerTypeOK'
<1> USE RunnerAssumption
    DEF RunnerTypeOK, tokenVars, runtimeVars, closeVars, sinkVars, groupVars, bufferVars

<1>1. CASE Enter
  <2>1. ControlTypeOK'
    BY <1>1 DEF Enter, ControlTypeOK, Proceed, Fail, CancelAt, CancelHere, Return, PCs
  <2>2. EndTypeOK'
    BY <1>1 DEF Enter, ControlTypeOK, ResourceTypeOK, EndTypeOK, Proceed, Fail, First, CancelAt, CancelHere, Return, endVars,
       Causes, Statuses, ZeroCount
  <2>3. ResourceTypeOK' /\ SinkTypeOK(OutputRecord)'
    BY <1>1 DEF Enter, ResourceTypeOK, SinkTypeOK
  <2>4. GroupTypeOK' /\ BufferTypeOK'
    BY <1>1 DEF Enter, GroupTypeOK, BufferTypeOK, Groups, Proceed, Fail, CancelAt,
       CancelHere, Return
  <2> QED
    BY <2>1, <2>2, <2>3, <2>4
<1>2. CASE CreateRuntime
  <2>1. ControlTypeOK'
    BY <1>2 DEF CreateRuntime, ControlTypeOK, Proceed, Fail, CancelAt, CancelHere, Return, PCs
  <2>2. EndTypeOK'
    BY <1>2 DEF CreateRuntime, ControlTypeOK, ResourceTypeOK, EndTypeOK, Proceed, Fail, First, CancelAt, CancelHere, Return, endVars,
       Causes, Statuses, ZeroCount
  <2>3. ResourceTypeOK' /\ SinkTypeOK(OutputRecord)'
    BY <1>2 DEF CreateRuntime, ResourceTypeOK, SinkTypeOK
  <2>4. GroupTypeOK' /\ BufferTypeOK'
    BY <1>2 DEF CreateRuntime, GroupTypeOK, BufferTypeOK, Groups, Proceed, Fail, CancelAt,
       CancelHere, Return
  <2> QED
    BY <2>1, <2>2, <2>3, <2>4
<1>3. CASE InitializeRuntime
  <2>1. ControlTypeOK'
    BY <1>3 DEF InitializeRuntime, ControlTypeOK, Proceed, Fail, CancelAt, CancelHere, Return, PCs
  <2>2. EndTypeOK'
    BY <1>3 DEF InitializeRuntime, ControlTypeOK, ResourceTypeOK, EndTypeOK, Proceed, Fail, First, CancelAt, CancelHere, Return, endVars,
       Causes, Statuses, ZeroCount
  <2>3. ResourceTypeOK' /\ SinkTypeOK(OutputRecord)'
    BY <1>3 DEF InitializeRuntime, ResourceTypeOK, SinkTypeOK, Moved
  <2>4. GroupTypeOK' /\ BufferTypeOK'
    BY <1>3 DEF InitializeRuntime, GroupTypeOK, BufferTypeOK, Groups, Proceed, Fail, CancelAt,
       CancelHere, Return
  <2> QED
    BY <2>1, <2>2, <2>3, <2>4
<1>4. CASE CheckInitialized
  <2>1. ControlTypeOK'
    BY <1>4 DEF CheckInitialized, ControlTypeOK, Proceed, Fail, CancelAt, CancelHere, Return, PCs
  <2>2. EndTypeOK'
    BY <1>4 DEF CheckInitialized, ControlTypeOK, ResourceTypeOK, EndTypeOK, Proceed, Fail, First, CancelAt, CancelHere, Return, endVars,
       Causes, Statuses, ZeroCount
  <2>3. ResourceTypeOK' /\ SinkTypeOK(OutputRecord)'
    BY <1>4 DEF CheckInitialized, ResourceTypeOK, SinkTypeOK
  <2>4. GroupTypeOK' /\ BufferTypeOK'
    BY <1>4 DEF CheckInitialized, GroupTypeOK, BufferTypeOK, Groups, Proceed, Fail, CancelAt,
       CancelHere, Return
  <2> QED
    BY <2>1, <2>2, <2>3, <2>4
<1>5. CASE NextGroup
  <2>1. ControlTypeOK'
    BY <1>5 DEF NextGroup, ControlTypeOK, Proceed, Fail, CancelAt, CancelHere, Return, PCs
  <2>2. EndTypeOK'
    BY <1>5 DEF NextGroup, ControlTypeOK, ResourceTypeOK, EndTypeOK, Proceed, Fail, First, CancelAt, CancelHere, Return, endVars,
       Causes, Statuses, ZeroCount
  <2>3. ResourceTypeOK' /\ SinkTypeOK(OutputRecord)'
    BY <1>5 DEF NextGroup, ResourceTypeOK, SinkTypeOK
  <2>4. GroupTypeOK' /\ BufferTypeOK'
    BY <1>5 DEF NextGroup, GroupTypeOK, BufferTypeOK, Groups, Proceed, Fail, CancelAt,
       CancelHere, Return
  <2> QED
    BY <2>1, <2>2, <2>3, <2>4
<1>6. CASE FinishGroup
  <2>1. ControlTypeOK'
    BY <1>6 DEF FinishGroup, ControlTypeOK, Proceed, Fail, CancelAt, CancelHere, Return, PCs
  <2>2. EndTypeOK'
    BY <1>6 DEF FinishGroup, ControlTypeOK, ResourceTypeOK, EndTypeOK, Proceed, Fail, First, CancelAt, CancelHere, Return, endVars,
       Causes, Statuses, ZeroCount
  <2>3. ResourceTypeOK' /\ SinkTypeOK(OutputRecord)'
    BY <1>6 DEF FinishGroup, ResourceTypeOK, SinkTypeOK
  <2>4. GroupTypeOK' /\ BufferTypeOK'
    BY <1>6 DEF FinishGroup, GroupTypeOK, BufferTypeOK, Groups, Proceed, Fail, CancelAt,
       CancelHere, Return
  <2> QED
    BY <2>1, <2>2, <2>3, <2>4
<1>7. CASE CheckScheduleEnd
  <2>1. ControlTypeOK'
    BY <1>7 DEF CheckScheduleEnd, ControlTypeOK, Proceed, Fail, CancelAt, CancelHere, Return, PCs
  <2>2. EndTypeOK'
    BY <1>7 DEF CheckScheduleEnd, ControlTypeOK, ResourceTypeOK, EndTypeOK, Proceed, Fail, First, CancelAt, CancelHere, Return, endVars,
       Causes, Statuses, ZeroCount
  <2>3. ResourceTypeOK' /\ SinkTypeOK(OutputRecord)'
    BY <1>7 DEF CheckScheduleEnd, ResourceTypeOK, SinkTypeOK
  <2>4. GroupTypeOK' /\ BufferTypeOK'
    BY <1>7 DEF CheckScheduleEnd, GroupTypeOK, BufferTypeOK, Groups, Proceed, Fail, CancelAt,
       CancelHere, Return
  <2> QED
    BY <2>1, <2>2, <2>3, <2>4
<1>8. CASE FlushCheck
  <2>1. ControlTypeOK'
    BY <1>8 DEF FlushCheck, ControlTypeOK, Proceed, Fail, CancelAt, CancelHere, Return, PCs
  <2>2. EndTypeOK'
    BY <1>8 DEF FlushCheck, ControlTypeOK, ResourceTypeOK, EndTypeOK, Proceed, Fail, First, CancelAt, CancelHere, Return, endVars,
       Causes, Statuses, ZeroCount
  <2>3. ResourceTypeOK' /\ SinkTypeOK(OutputRecord)'
    BY <1>8 DEF FlushCheck, ResourceTypeOK, SinkTypeOK
  <2>4. GroupTypeOK' /\ BufferTypeOK'
    BY <1>8 DEF FlushCheck, GroupTypeOK, BufferTypeOK, Groups, Proceed, Fail, CancelAt,
       CancelHere, Return
  <2> QED
    BY <2>1, <2>2, <2>3, <2>4
<1>9. CASE CheckFlushed
  <2>1. ControlTypeOK'
    BY <1>9 DEF CheckFlushed, ControlTypeOK, Proceed, Fail, CancelAt, CancelHere, Return, PCs
  <2>2. EndTypeOK'
    BY <1>9 DEF CheckFlushed, ControlTypeOK, ResourceTypeOK, EndTypeOK, Proceed, Fail, First, CancelAt, CancelHere, Return, endVars,
       Causes, Statuses, ZeroCount
  <2>3. ResourceTypeOK' /\ SinkTypeOK(OutputRecord)'
    BY <1>9 DEF CheckFlushed, ResourceTypeOK, SinkTypeOK
  <2>4. GroupTypeOK' /\ BufferTypeOK'
    BY <1>9 DEF CheckFlushed, GroupTypeOK, BufferTypeOK, Groups, Proceed, Fail, CancelAt,
       CancelHere, Return
  <2> QED
    BY <2>1, <2>2, <2>3, <2>4
<1>10. CASE CheckFinalEpoch
  <2>1. ControlTypeOK'
    BY <1>10 DEF CheckFinalEpoch, ControlTypeOK, Proceed, Fail, CancelAt, CancelHere, Return, PCs
  <2>2. EndTypeOK'
    BY <1>10 DEF CheckFinalEpoch, ControlTypeOK, ResourceTypeOK, EndTypeOK, Proceed, Fail, First, CancelAt, CancelHere, Return, endVars,
       Causes, Statuses, ZeroCount
  <2>3. ResourceTypeOK' /\ SinkTypeOK(OutputRecord)'
    BY <1>10 DEF CheckFinalEpoch, ResourceTypeOK, SinkTypeOK
  <2>4. GroupTypeOK' /\ BufferTypeOK'
    BY <1>10 DEF CheckFinalEpoch, GroupTypeOK, BufferTypeOK, Groups, Proceed, Fail, CancelAt,
       CancelHere, Return
  <2> QED
    BY <2>1, <2>2, <2>3, <2>4
<1>11. CASE LastCheck
  <2>1. ControlTypeOK'
    BY <1>11 DEF LastCheck, ControlTypeOK, Proceed, Fail, CancelAt, CancelHere, Return, PCs
  <2>2. EndTypeOK'
    BY <1>11 DEF LastCheck, ControlTypeOK, ResourceTypeOK, EndTypeOK, Proceed, Fail, First, CancelAt, CancelHere, Return, endVars,
       Causes, Statuses, ZeroCount
  <2>3. ResourceTypeOK' /\ SinkTypeOK(OutputRecord)'
    BY <1>11 DEF LastCheck, ResourceTypeOK, SinkTypeOK
  <2>4. GroupTypeOK' /\ BufferTypeOK'
    BY <1>11 DEF LastCheck, GroupTypeOK, BufferTypeOK, Groups, Proceed, Fail, CancelAt,
       CancelHere, Return
  <2> QED
    BY <2>1, <2>2, <2>3, <2>4
<1>12. CASE Interrupt
  <2>1. ControlTypeOK'
    BY <1>12 DEF Interrupt, ControlTypeOK, Proceed, Fail, CancelAt, CancelHere, Return, PCs
  <2>2. EndTypeOK'
    BY <1>12 DEF Interrupt, ControlTypeOK, ResourceTypeOK, EndTypeOK, Proceed, Fail, First, CancelAt, CancelHere, Return, endVars,
       Causes, Statuses, ZeroCount
  <2>3. ResourceTypeOK' /\ SinkTypeOK(OutputRecord)'
    BY <1>12 DEF Interrupt, ResourceTypeOK, SinkTypeOK
  <2>4. GroupTypeOK' /\ BufferTypeOK'
    BY <1>12 DEF Interrupt, GroupTypeOK, BufferTypeOK, Groups, Proceed, Fail, CancelAt,
       CancelHere, Return
  <2> QED
    BY <2>1, <2>2, <2>3, <2>4
<1> QED
  BY <1>1, <1>2, <1>3, <1>4, <1>5, <1>6, <1>7, <1>8, <1>9, <1>10, <1>11, <1>12
\* Steps that call the sink's lifecycle operations.
LEMMA SinkStepsTyped ==
  ASSUME RunnerTypeOK, BeginSink \/ CommitSink \/ CleanSink
  PROVE  RunnerTypeOK'
<1> USE RunnerAssumption
    DEF RunnerTypeOK, tokenVars, runtimeVars, closeVars, sinkVars, groupVars, bufferVars
<1>1. "truth_states" \in Channels /\ <<>> \in Seq(OutputRecord)
  BY DEF Channels
<1>2. CASE BeginSink
  <2>1. ControlTypeOK' /\ ResourceTypeOK'
    <3>1. sinkBegun' \in BOOLEAN
      BY <1>2 DEF BeginSink, ResourceTypeOK
    <3>2. ResourceTypeOK'
      BY <1>2, <3>1 DEF BeginSink, ResourceTypeOK
    <3>3. ControlTypeOK'
      BY <1>2 DEF BeginSink, ControlTypeOK, Proceed, Fail, PCs
    <3> QED
      BY <3>2, <3>3
  <2>2. EndTypeOK'
    BY <1>2 DEF BeginSink, EndTypeOK, Proceed, Fail, First, endVars, Causes
  <2>3. SinkTypeOK(OutputRecord)'
    <3>1. PICK outcome \in {"ok", "raise"} : SinkBegin(outcome)
      BY <1>2 DEF BeginSink
    <3> QED
      BY <1>1, <3>1, SinkOperationsTyped
  <2>4. GroupTypeOK' /\ BufferTypeOK'
    BY <1>2 DEF BeginSink, GroupTypeOK, BufferTypeOK, Groups, Proceed, Fail
  <2> QED
    BY <2>1, <2>2, <2>3, <2>4
<1>3. CASE CommitSink
  <2>1. ControlTypeOK' /\ ResourceTypeOK'
    BY <1>3 DEF CommitSink, ControlTypeOK, ResourceTypeOK, Proceed, Fail, PCs
  <2>2. EndTypeOK'
    BY <1>3 DEF CommitSink, EndTypeOK, Proceed, Fail, First, endVars, Causes
  <2>3. SinkTypeOK(OutputRecord)'
    <3>1. PICK outcome \in {"ok", "raise"} : SinkCommit(outcome)
      BY <1>3 DEF CommitSink
    <3> QED
      BY <1>1, <3>1, SinkOperationsTyped
  <2>4. GroupTypeOK' /\ BufferTypeOK'
    BY <1>3 DEF CommitSink, GroupTypeOK, BufferTypeOK, Groups, Proceed, Fail
  <2> QED
    BY <2>1, <2>2, <2>3, <2>4
<1>4. CASE CleanSink
  <2>1. ControlTypeOK' /\ ResourceTypeOK'
    BY <1>4 DEF CleanSink, ControlTypeOK, ResourceTypeOK, Return, PCs
  <2>2. EndTypeOK'
    BY <1>4 DEF CleanSink, EndTypeOK, Return, First, Causes, Statuses, ZeroCount
  <2>3. SinkTypeOK(OutputRecord)'
    <3>1. CASE UNCHANGED sinkVars
      BY <3>1 DEF SinkTypeOK
    <3>2. CASE \E outcome \in {"ok", "raise"} : SinkAbort(outcome)
      BY <1>1, <3>2, SinkOperationsTyped
    <3> QED
      BY <1>4, <3>1, <3>2 DEF CleanSink
  <2>4. GroupTypeOK' /\ BufferTypeOK'
    BY <1>4 DEF CleanSink, GroupTypeOK, BufferTypeOK, Groups, Return
  <2> QED
    BY <2>1, <2>2, <2>3, <2>4
<1> QED
  BY <1>2, <1>3, <1>4

\* Steps that close the runtime, and the steps that only report.
LEMMA ClosingStepsTyped ==
  ASSUME RunnerTypeOK, CloseRuntime \/ CleanRuntime \/ ReturnCompleted \/ Cancel
  PROVE  RunnerTypeOK'
<1> USE RunnerAssumption
    DEF RunnerTypeOK, tokenVars, runtimeVars, closeVars, sinkVars, groupVars, bufferVars
<1>1. CASE CloseRuntime
  <2>1. ControlTypeOK' /\ SinkTypeOK(OutputRecord)'
    BY <1>1 DEF CloseRuntime, ControlTypeOK, SinkTypeOK, Proceed, Fail, PCs
  <2>2. EndTypeOK'
    BY <1>1 DEF CloseRuntime, EndTypeOK, Proceed, Fail, First, endVars, Causes
  <2>3. ResourceTypeOK'
    <3>1. PICK outcome \in {"ok", "raise"} : CloseOnce(outcome)
      BY <1>1 DEF CloseRuntime
    <3>2. UNCHANGED <<epoch, applied, sinkBegun>>
      BY <1>1 DEF CloseRuntime
    <3> QED
      BY <3>1, <3>2, CloseOnceTyped DEF ResourceTypeOK
  <2>4. GroupTypeOK' /\ BufferTypeOK'
    BY <1>1 DEF CloseRuntime, GroupTypeOK, BufferTypeOK, Groups, Proceed, Fail
  <2> QED
    BY <2>1, <2>2, <2>3, <2>4
<1>2. CASE CleanRuntime
  <2>1. ControlTypeOK' /\ SinkTypeOK(OutputRecord)'
    BY <1>2 DEF CleanRuntime, ControlTypeOK, SinkTypeOK, PCs
  <2>2. EndTypeOK'
    BY <1>2 DEF CleanRuntime, EndTypeOK, First, Causes
  <2>3. ResourceTypeOK'
    <3>1. PICK outcome \in {"ok", "raise"} : CloseOnce(outcome)
      BY <1>2 DEF CleanRuntime
    <3>2. UNCHANGED <<epoch, applied, sinkBegun>>
      BY <1>2 DEF CleanRuntime
    <3> QED
      BY <3>1, <3>2, CloseOnceTyped DEF ResourceTypeOK
  <2>4. GroupTypeOK' /\ BufferTypeOK'
    BY <1>2 DEF CleanRuntime, GroupTypeOK, BufferTypeOK, Groups
  <2> QED
    BY <2>1, <2>2, <2>3, <2>4
<1>3. CASE ReturnCompleted
  <2>1. ControlTypeOK' /\ ResourceTypeOK' /\ SinkTypeOK(OutputRecord)'
    BY <1>3 DEF ReturnCompleted, ControlTypeOK, ResourceTypeOK, SinkTypeOK, Return, PCs
  <2>2. EndTypeOK'
    BY <1>3 DEF ReturnCompleted, EndTypeOK, BufferTypeOK, Return, Statuses
  <2>3. GroupTypeOK' /\ BufferTypeOK'
    BY <1>3 DEF ReturnCompleted, GroupTypeOK, BufferTypeOK, Groups, Return
  <2> QED
    BY <2>1, <2>2, <2>3
<1>4. CASE Cancel
  <2>1. group \in Nat /\ writes \in Nat
    BY InputTyped DEF GroupTypeOK, BufferTypeOK
  <2>2. ControlTypeOK'
    BY <1>4, <2>1 DEF Cancel, ControlTypeOK
  <2>3. ResourceTypeOK' /\ SinkTypeOK(OutputRecord)' /\ EndTypeOK'
    BY <1>4 DEF Cancel, ResourceTypeOK, SinkTypeOK, EndTypeOK, endVars
  <2>4. GroupTypeOK' /\ BufferTypeOK'
    BY <1>4 DEF Cancel, GroupTypeOK, BufferTypeOK, Groups
  <2> QED
    BY <2>2, <2>3, <2>4
<1> QED
  BY <1>1, <1>2, <1>3, <1>4

\* Propagation only moves the epoch, within Epochs.
LEMMA PropagateTyped ==
  ASSUME RunnerTypeOK, Propagate
  PROVE  RunnerTypeOK'
<1> USE RunnerAssumption
    DEF RunnerTypeOK, tokenVars, runtimeVars, closeVars, sinkVars, groupVars, bufferVars
<1>1. epoch' \in Epochs
  <2>1. Group.epoch \in Epochs
    BY CurrentGroupTyped DEF Propagate
  <2>2. epoch \in Epochs
    BY DEF ResourceTypeOK
  <2>3. epoch .. Group.epoch \subseteq Epochs
    BY <2>1, <2>2
  <2>4. \/ epoch' = epoch
        \/ epoch' \in Moved({Group.epoch})
        \/ epoch' \in Moved(epoch .. Group.epoch)
    BY DEF Propagate
  <2> QED
    BY <2>1, <2>2, <2>3, <2>4 DEF Moved
<1>2. \/ Proceed("maneuver") \/ CancelAt(epoch')
      \/ Fail("propagate") \/ Fail("epoch") \/ Fail("cancellation_epoch")
  BY DEF Propagate
<1>3. ControlTypeOK'
  BY <1>2 DEF Propagate, ControlTypeOK, Proceed, Fail, CancelAt, PCs
<1>4. EndTypeOK'
  BY <1>1, <1>2 DEF EndTypeOK, Proceed, Fail, First, CancelAt, endVars, Causes
<1>5. ResourceTypeOK' /\ SinkTypeOK(OutputRecord)'
  BY <1>1 DEF Propagate, ResourceTypeOK, SinkTypeOK
<1>6. GroupTypeOK'
  <2>1. executed' = <<>> \/ executed' = executed
    BY DEF Propagate
  <2>2. executed' \in Seq(ManeuverRecord)
    <3>1. <<>> \in Seq(ManeuverRecord)
      OBVIOUS
    <3>2. executed \in Seq(ManeuverRecord)
      BY DEF GroupTypeOK
    <3> QED
      BY <2>1, <3>1, <3>2
  <2>3. pc' \in {"propagate", "maneuver"} => group' > 0
    BY DEF Propagate, GroupTypeOK
  <2> QED
    BY <2>2, <2>3 DEF Propagate, GroupTypeOK, Groups
<1>7. BufferTypeOK'
  BY <1>2 DEF Propagate, BufferTypeOK, Proceed, Fail, CancelAt
<1> QED
  BY <1>3, <1>4, <1>5, <1>6, <1>7

\* A maneuver response is recorded with the scheduled event and the epoch of
\* its group.
LEMMA ExecuteManeuverTyped ==
  ASSUME RunnerTypeOK, ExecuteManeuver
  PROVE  RunnerTypeOK'
<1> USE RunnerAssumption
    DEF RunnerTypeOK, tokenVars, runtimeVars, closeVars, sinkVars, groupVars, bufferVars
<1>1. /\ Group.epoch \in Epochs
      /\ Group.maneuvers \in Seq(Maneuvers)
  BY CurrentGroupTyped DEF ExecuteManeuver
<1>2. epoch' \in Epochs /\ applied' \in Nat
  <2>1. \/ epoch' = epoch /\ applied' = applied
        \/ epoch' \in Moved({epoch}) /\ applied' = applied + 1
    BY DEF ExecuteManeuver
  <2> QED
    BY <2>1 DEF Moved, ResourceTypeOK
<1>3. \/ Proceed("maneuver")
      \/ Fail("maneuver") \/ Fail("maneuver_chain") \/ Fail("maneuver_epoch")
  BY DEF ExecuteManeuver
<1>4. ControlTypeOK'
  BY <1>3 DEF ExecuteManeuver, ControlTypeOK, Proceed, Fail, PCs
<1>5. EndTypeOK'
  BY <1>3 DEF EndTypeOK, Proceed, Fail, First, endVars, Causes
<1>6. ResourceTypeOK' /\ SinkTypeOK(OutputRecord)'
  BY <1>2 DEF ExecuteManeuver, ResourceTypeOK, SinkTypeOK
<1>7. GroupTypeOK'
  <2> DEFINE entry == Group.maneuvers[Len(executed) + 1]
             answer(before, after) ==
               [event |-> entry.event, entity |-> entry.entity,
                epoch |-> Group.epoch, before |-> before, after |-> after]
  <2>1. executed \in Seq(ManeuverRecord)
    BY DEF GroupTypeOK
  <2>2. Len(executed) < Len(Group.maneuvers)
    BY DEF ExecuteManeuver
  <2>3. entry \in Maneuvers
    BY <1>1, <2>1, <2>2
  <2>4. ASSUME NEW before \in States, NEW after \in States
        PROVE  answer(before, after) \in ManeuverRecord
    BY <1>1, <2>3 DEF Maneuvers, ManeuverRecord
  <2>5. \/ executed' = executed
        \/ \E before, after \in States :
             executed' = Append(executed, answer(before, after))
    BY DEF ExecuteManeuver
  <2>6. executed' \in Seq(ManeuverRecord)
    <3> HIDE DEF answer
    <3> QED
      BY <2>1, <2>4, <2>5
  <2>7. pc' \in {"propagate", "maneuver"} => group' > 0
    BY DEF ExecuteManeuver, GroupTypeOK
  <2> QED
    BY <2>6, <2>7 DEF ExecuteManeuver, GroupTypeOK, Groups
<1>8. BufferTypeOK'
  BY <1>3 DEF ExecuteManeuver, BufferTypeOK, Proceed, Fail
<1> QED
  BY <1>4, <1>5, <1>6, <1>7, <1>8

\* The records of a group are built from its maneuver responses and the
\* snapshots of every space object.
LEMMA TakeSamplesTyped ==
  ASSUME RunnerTypeOK, TakeSamples
  PROVE  RunnerTypeOK'
<1> USE RunnerAssumption
    DEF RunnerTypeOK, tokenVars, runtimeVars, closeVars, sinkVars, groupVars, bufferVars
<1>1. Group.epoch \in Epochs
  BY CurrentGroupTyped DEF TakeSamples
<1>2. Proceed("accept") \/ Fail("snapshot")
  BY DEF TakeSamples
<1>3. ControlTypeOK'
  BY <1>2 DEF TakeSamples, ControlTypeOK, Proceed, Fail, PCs
<1>4. EndTypeOK'
  BY <1>2 DEF EndTypeOK, Proceed, Fail, First, endVars, Causes
<1>5. ResourceTypeOK' /\ SinkTypeOK(OutputRecord)'
  <2>1. epoch' = epoch \/ epoch' \in Moved({epoch})
    BY DEF TakeSamples
  <2>2. epoch' \in Epochs
    BY <2>1 DEF Moved, ResourceTypeOK
  <2> QED
    BY <2>2 DEF TakeSamples, ResourceTypeOK, SinkTypeOK
<1>6. GroupTypeOK'
  <2> DEFINE maneuverPart ==
        [i \in DOMAIN executed |->
           [channel |-> "truth_maneuvers", record |-> executed[i]]]
  <2>1. maneuverPart \in Seq(PendingRecord)
    <3> DEFINE tagged(i) == [channel |-> "truth_maneuvers", record |-> executed[i]]
    <3>1. executed \in Seq(ManeuverRecord)
      BY DEF GroupTypeOK
    <3>2. \A i \in 1 .. Len(executed) : executed[i] \in OutputRecord
      BY <3>1 DEF OutputRecord
    <3>3. \A i \in 1 .. Len(executed) : tagged(i) \in PendingRecord
      BY <3>2 DEF Channels, PendingRecord
    <3>4. maneuverPart = [i \in 1 .. Len(executed) |-> tagged(i)]
      BY <3>1
    <3>5. Len(executed) \in Nat
      BY <3>1
    <3> HIDE DEF tagged, maneuverPart
    <3>6. [i \in 1 .. Len(executed) |-> tagged(i)] \in Seq(PendingRecord)
      BY <3>3, <3>5
    <3> QED
      BY <3>4, <3>6
  <2>2. ASSUME NEW c \in Channels
        PROVE  Snapshot(c) \in Seq(PendingRecord)
    <3> DEFINE n         == Len(SpaceObjects)
               tagged(i) == [channel |-> c,
                             record |-> [entity |-> SpaceObjects[i],
                                         epoch |-> Group.epoch, applied |-> applied]]
    <3>1. n \in Nat /\ DOMAIN SpaceObjects = 1 .. n
      OBVIOUS
    <3>2. ASSUME NEW i \in 1 .. n
          PROVE  tagged(i) \in PendingRecord
      <4>1. SpaceObjects[i] \in Entities /\ applied \in Nat
        BY <3>1 DEF Entities, ResourceTypeOK
      <4>2. [entity |-> SpaceObjects[i], epoch |-> Group.epoch, applied |-> applied]
              \in SampleRecord
        BY <1>1, <4>1 DEF SampleRecord
      <4> QED
        BY <4>2 DEF OutputRecord, PendingRecord
    <3>3. Snapshot(c) = <<>> \/ Snapshot(c) = [i \in 1 .. n |-> tagged(i)]
      BY <3>1 DEF Snapshot
    <3> HIDE DEF tagged, n
    <3>4. [i \in 1 .. n |-> tagged(i)] \in Seq(PendingRecord)
      BY <3>1, <3>2
    <3>5. <<>> \in Seq(PendingRecord)
      OBVIOUS
    <3> QED
      BY <3>3, <3>4, <3>5
  <2>3. Snapshot("truth_states") \in Seq(PendingRecord)
    BY <2>2 DEF Channels
  <2>4. Snapshot("attitude_states") \in Seq(PendingRecord)
    BY <2>2 DEF Channels
  <2>5. \/ pending' = pending
        \/ pending' = maneuverPart \o Snapshot("truth_states")
                        \o Snapshot("attitude_states")
    BY DEF TakeSamples
  <2>6. pending' \in Seq(PendingRecord)
    <3>1. pending \in Seq(PendingRecord)
      BY DEF GroupTypeOK
    <3> HIDE DEF maneuverPart
    <3>2. maneuverPart \o Snapshot("truth_states") \o Snapshot("attitude_states")
            \in Seq(PendingRecord)
      BY <2>1, <2>3, <2>4, SeqJoined
    <3> QED
      BY <2>5, <3>1, <3>2
  <2>7. pc' \in {"propagate", "maneuver"} => group' > 0
    BY DEF TakeSamples, GroupTypeOK
  <2> QED
    BY <2>6, <2>7 DEF TakeSamples, GroupTypeOK, Groups
<1>7. BufferTypeOK'
  BY <1>2 DEF TakeSamples, BufferTypeOK, Proceed, Fail
<1> QED
  BY <1>3, <1>4, <1>5, <1>6, <1>7

\* An accepted record goes to the open batch of its channel, and a full batch
\* to the sink.
LEMMA AcceptTyped ==
  ASSUME RunnerTypeOK, Accept
  PROVE  RunnerTypeOK'
<1> USE RunnerAssumption
    DEF RunnerTypeOK, tokenVars, runtimeVars, closeVars, sinkVars, groupVars, bufferVars
<1> DEFINE c     == Head(pending).channel
           batch == Append(buffer[c], Head(pending).record)
<1>1. /\ c \in Channels
      /\ batch \in Seq(OutputRecord)
      /\ Tail(pending) \in Seq(PendingRecord)
  <2>1. pending # <<>> /\ pending \in Seq(PendingRecord)
    BY DEF Accept, GroupTypeOK
  <2>2. Head(pending) \in PendingRecord
    BY <2>1
  <2>3. /\ Head(pending).channel \in Channels
        /\ Head(pending).record \in OutputRecord
    BY <2>2 DEF PendingRecord
  <2>4. buffer[c] \in Seq(OutputRecord)
    BY <2>3 DEF BufferTypeOK
  <2> QED
    BY <2>1, <2>3, <2>4
<1>2. /\ SinkTypeOK(OutputRecord)'
      /\ buffer' \in [Channels -> Seq(OutputRecord)]
      /\ writes' \in Nat
      /\ pc' \in {"accept", "failClose"}
      /\ EndTypeOK'
  <2>1. CASE Flush(c, batch, "accept")
    <3>1. "accept" \in PCs
      BY DEF PCs
    <3> HIDE DEF c, batch
    <3> QED
      BY <1>1, <2>1, <3>1, FlushTyped
  <2>2. CASE /\ buffer' = [buffer EXCEPT ![c] = batch]
             /\ Proceed("accept")
             /\ UNCHANGED <<sinkVars, writes>>
    <3>1. SinkTypeOK(OutputRecord)' /\ writes' \in Nat
      BY <2>2 DEF SinkTypeOK, BufferTypeOK
    <3>2. buffer' \in [Channels -> Seq(OutputRecord)]
      BY <1>1, <2>2 DEF BufferTypeOK
    <3>3. pc' \in {"accept", "failClose"} /\ EndTypeOK'
      BY <2>2 DEF Proceed, EndTypeOK, endVars
    <3> QED
      BY <3>1, <3>2, <3>3
  <2> QED
    BY <2>1, <2>2 DEF Accept
<1>3. ControlTypeOK'
  BY <1>2 DEF Accept, ControlTypeOK, PCs
<1>4. ResourceTypeOK'
  BY DEF Accept, ResourceTypeOK
<1>5. GroupTypeOK'
  <2>1. pending' \in Seq(PendingRecord)
    BY <1>1 DEF Accept
  <2>2. pc' \notin {"propagate", "maneuver"}
    BY <1>2
  <2> QED
    BY <2>1, <2>2 DEF Accept, GroupTypeOK, Groups
<1>6. BufferTypeOK'
  <2>1. count' \in [Channels -> Nat]
    <3>1. count' = [count EXCEPT ![c] = @ + 1]
      BY DEF Accept
    <3> QED
      BY <1>1, <3>1 DEF BufferTypeOK
  <2> QED
    BY <1>2, <2>1 DEF Accept, BufferTypeOK
<1> QED
  BY <1>2, <1>3, <1>4, <1>5, <1>6

\* The residual flush writes one open batch and moves to the next channel.
LEMMA FlushWriteTyped ==
  ASSUME RunnerTypeOK, FlushWrite
  PROVE  RunnerTypeOK'
<1> USE RunnerAssumption
    DEF RunnerTypeOK, tokenVars, runtimeVars, closeVars, sinkVars, groupVars, bufferVars
<1> DEFINE c == FlushOrder[channel]
<1>1. channel \in 1 .. Len(FlushOrder)
  BY DEF FlushWrite, BufferTypeOK, FlushOrder
<1>2. c \in Channels /\ buffer[c] \in Seq(OutputRecord)
  BY <1>1 DEF FlushOrder, Channels, BufferTypeOK
<1>3. /\ SinkTypeOK(OutputRecord)'
      /\ buffer' \in [Channels -> Seq(OutputRecord)]
      /\ writes' \in Nat
      /\ pc' \in {"flush", "failClose"}
      /\ EndTypeOK'
  <2>1. Flush(c, buffer[c], "flush")
    BY DEF FlushWrite
  <2>2. "flush" \in PCs
    BY DEF PCs
  <2> HIDE DEF c
  <2> QED
    BY <1>2, <2>1, <2>2, FlushTyped
<1>4. ControlTypeOK'
  BY <1>3 DEF FlushWrite, ControlTypeOK, PCs
<1>5. ResourceTypeOK'
  BY DEF FlushWrite, ResourceTypeOK
<1>6. GroupTypeOK'
  BY <1>3 DEF FlushWrite, GroupTypeOK, Groups
<1>7. BufferTypeOK'
  BY <1>1, <1>3 DEF FlushWrite, BufferTypeOK, FlushOrder
<1> QED
  BY <1>3, <1>4, <1>5, <1>6, <1>7

\* A run starts well typed.
LEMMA InitTyped ==
  ASSUME Init
  PROVE  RunnerTypeOK
<1>1. ControlTypeOK
  BY DEF Init, ControlTypeOK, PCs
<1>2. ResourceTypeOK
  BY RunnerAssumption DEF Init, ResourceTypeOK
<1>3. SinkTypeOK(OutputRecord)
  <2>1. status \in SinkStatus
    BY DEF Init, SinkStatus
  <2>2. stored = Empty
    BY DEF Init
  <2> QED
    BY <2>1, <2>2 DEF SinkTypeOK, Empty
<1>4. GroupTypeOK
  <2>1. Len(Groups) \in Nat
    BY <1>1, InputTyped
  <2> QED
    BY <2>1 DEF Init, GroupTypeOK
<1>5. BufferTypeOK
  BY DEF Init, BufferTypeOK, Empty, ZeroCount, FlushOrder
<1>6. EndTypeOK
  BY RunnerAssumption DEF Init, EndTypeOK, Causes, Statuses, ZeroCount
<1> QED
  BY <1>1, <1>2, <1>3, <1>4, <1>5, <1>6 DEF RunnerTypeOK

\* Every step of the runner, the other thread or an interrupt keeps the types.
LEMMA NextTyped ==
  ASSUME RunnerTypeOK, [Next]_vars
  PROVE  RunnerTypeOK'
<1>1. CASE \/ Enter \/ CreateRuntime \/ InitializeRuntime \/ CheckInitialized
           \/ NextGroup \/ FinishGroup \/ CheckScheduleEnd \/ FlushCheck
           \/ CheckFlushed \/ CheckFinalEpoch \/ LastCheck \/ Interrupt
  BY <1>1, PlainStepsTyped
<1>2. CASE BeginSink \/ CommitSink \/ CleanSink
  BY <1>2, SinkStepsTyped
<1>3. CASE CloseRuntime \/ CleanRuntime \/ ReturnCompleted \/ Cancel
  BY <1>3, ClosingStepsTyped
<1>4. CASE Propagate
  BY <1>4, PropagateTyped
<1>5. CASE ExecuteManeuver
  BY <1>5, ExecuteManeuverTyped
<1>6. CASE TakeSamples
  BY <1>6, TakeSamplesTyped
<1>7. CASE Accept
  BY <1>7, AcceptTyped
<1>8. CASE FlushWrite
  BY <1>8, FlushWriteTyped
<1>9. CASE UNCHANGED vars
  BY <1>9 DEF vars, tokenVars, runtimeVars, closeVars, sinkVars, groupVars,
     bufferVars, endVars, RunnerTypeOK, ControlTypeOK, ResourceTypeOK,
     SinkTypeOK, GroupTypeOK, BufferTypeOK, EndTypeOK, Groups
<1> QED
  BY <1>1, <1>2, <1>3, <1>4, <1>5, <1>6, <1>7, <1>8, <1>9
     DEF Next, RunnerStep, Terminated

\* Type correctness of a run: the buffers, counters, epochs, outcomes and the
\* sink stay within their types whatever the runtime and the sink do, for every
\* schedule and every batch size.
THEOREM RunnerTyping == Spec => []RunnerTypeOK
<1>1. Init => RunnerTypeOK
  BY InitTyped
<1>2. RunnerTypeOK /\ [Next]_vars => RunnerTypeOK'
  BY NextTyped
<1> QED
  BY <1>1, <1>2, PTL DEF Spec

-------------------------------------------------------------------------------
\* The sink is WRITING while the run produces, and committed output is only
\* ever seen at the very end, with the runtime closed.
LEMMA SinkInvKept ==
  ASSUME RunnerTypeOK, SafetyInv, [Next]_vars
  PROVE  SinkInv'
<1> USE DEF SafetyInv, RunnerTypeOK, ControlTypeOK, SinkInv, Published, PCs,
            BeforeSink, Producing, tokenVars, runtimeVars, closeVars, sinkVars,
            groupVars, bufferVars
<1>1. CASE Enter \/ CreateRuntime \/ InitializeRuntime \/ CheckInitialized
  BY <1>1 DEF Enter, CreateRuntime, InitializeRuntime, CheckInitialized,
     Proceed, Fail, CancelAt, Return
<1>2. CASE BeginSink
  BY <1>2 DEF BeginSink, SinkBegin, Refused, Proceed, Fail
<1>3. CASE NextGroup \/ Propagate \/ ExecuteManeuver \/ TakeSamples \/ FinishGroup
  BY <1>3 DEF NextGroup, Propagate, ExecuteManeuver, TakeSamples, FinishGroup,
     CancelHere, Proceed, Fail, CancelAt
<1>4. CASE Accept \/ FlushWrite
  <2>1. \/ UNCHANGED status /\ pc' \in {"accept", "flush", "failClose"}
        \/ status' = "ABORTED" /\ pc' = "failClose"
    BY <1>4 DEF Accept, FlushWrite, Flush, SinkWrite, Refused, Proceed, Fail
  <2>2. UNCHANGED <<sinkBegun, runtime>> /\ pc \in {"accept", "flushWrite"}
    BY <1>4 DEF Accept, FlushWrite
  <2> QED
    BY <2>1, <2>2
<1>5. CASE CheckScheduleEnd \/ FlushCheck \/ CheckFlushed \/ CheckFinalEpoch
  BY <1>5 DEF CheckScheduleEnd, FlushCheck, CheckFlushed, CheckFinalEpoch,
     CancelHere, Proceed, Fail, CancelAt
<1>6. CASE CloseRuntime \/ LastCheck
  BY <1>6 DEF CloseRuntime, LastCheck, Proceed, Fail, CancelAt
<1>7. CASE CommitSink
  BY <1>7 DEF CommitSink, SinkCommit, Refused, Proceed, Fail, RuntimeInv, RuntimeClosed
<1>8. CASE ReturnCompleted \/ CleanRuntime \/ CleanSink
  BY <1>8 DEF ReturnCompleted, CleanRuntime, CleanSink, SinkAbort, Refused, Return
<1>9. CASE Cancel \/ Interrupt \/ UNCHANGED vars
  BY <1>9 DEF Cancel, Interrupt, vars
<1> QED
  BY <1>1, <1>2, <1>3, <1>4, <1>5, <1>6, <1>7, <1>8, <1>9 DEF Next, RunnerStep, Terminated

\* close() is attempted at most once, and whoever needs the runtime finds it
\* in the state its position promises.
LEMMA RuntimeInvKept ==
  ASSUME RunnerTypeOK, SafetyInv, [Next]_vars
  PROVE  RuntimeInv'
<1> USE DEF SafetyInv, RunnerTypeOK, ControlTypeOK, ResourceTypeOK, RuntimeInv,
            PCs, BeforeRuntime, RuntimeLive, RuntimeClosed, tokenVars, runtimeVars,
            closeVars, sinkVars, groupVars, bufferVars
<1>1. CASE Enter \/ CreateRuntime \/ InitializeRuntime \/ CheckInitialized \/ BeginSink
  <2>1. CASE Enter
    BY <2>1 DEF Enter, Proceed, Return
  <2>2. CASE CreateRuntime
    BY <2>2 DEF CreateRuntime, Proceed, Fail
  <2>3. CASE InitializeRuntime \/ CheckInitialized \/ BeginSink
    BY <2>3 DEF InitializeRuntime, CheckInitialized, BeginSink, Proceed, Fail, CancelAt
  <2> QED
    BY <1>1, <2>1, <2>2, <2>3
<1>2. CASE NextGroup \/ Propagate \/ ExecuteManeuver \/ TakeSamples \/ FinishGroup
  <2>1. UNCHANGED <<runtime, closeAttempted, closeCalls>> /\ pc \in RuntimeLive
    BY <1>2 DEF NextGroup, Propagate, ExecuteManeuver, TakeSamples, FinishGroup
  <2>2. pc' \in {"endCheck", "propagate", "maneuver", "accept", "next",
                 "cancelClose", "failClose"}
    BY <1>2 DEF NextGroup, Propagate, ExecuteManeuver, TakeSamples, FinishGroup,
       CancelHere, Proceed, Fail, CancelAt
  <2> QED
    BY <2>1, <2>2
<1>3. CASE Accept \/ FlushWrite
  <2>1. UNCHANGED <<runtime, closeAttempted, closeCalls>> /\ pc \in RuntimeLive
    BY <1>3 DEF Accept, FlushWrite
  <2>2. pc' \in {"accept", "flush", "failClose"}
    BY <1>3 DEF Accept, FlushWrite, Flush, Proceed, Fail
  <2> QED
    BY <2>1, <2>2
<1>4. CASE CheckScheduleEnd \/ FlushCheck \/ CheckFlushed \/ CheckFinalEpoch
  BY <1>4 DEF CheckScheduleEnd, FlushCheck, CheckFlushed, CheckFinalEpoch,
     CancelHere, Proceed, Fail, CancelAt
<1>5. CASE CloseRuntime
  <2>1. CASE CloseOnce("ok") /\ Proceed("lastCheck")
    <3>1. pc = "close" /\ pc' = "lastCheck"
      BY <1>5, <2>1 DEF CloseRuntime, Proceed
    <3>2. runtime = "live" /\ ~closeAttempted /\ closeCalls = 0
      BY <3>1
    <3>3. runtime' = "closed" /\ closeAttempted' = TRUE /\ closeCalls' = 1
      BY <2>1, <3>2 DEF CloseOnce
    <3> QED
      BY <3>1, <3>3
  <2>2. CASE CloseOnce("raise") /\ Fail("close")
    <3>1. pc = "close" /\ pc' = "failClose"
      BY <1>5, <2>2 DEF CloseRuntime, Fail
    <3>2. runtime = "live" /\ ~closeAttempted /\ closeCalls = 0
      BY <3>1
    <3>3. closeAttempted' = TRUE /\ closeCalls' = 1
      BY <2>2, <3>2 DEF CloseOnce
    <3> QED
      BY <3>1, <3>3
  <2> QED
    BY <1>5, <2>1, <2>2 DEF CloseRuntime
<1>6. CASE LastCheck \/ CommitSink \/ ReturnCompleted
  BY <1>6 DEF LastCheck, CommitSink, ReturnCompleted, Proceed, Fail, CancelAt, Return
<1>7. CASE CleanRuntime
  <2>1. PICK outcome \in Outcomes : CloseOnce(outcome)
    BY <1>7 DEF CleanRuntime, Outcomes
  <2>2. pc' \in {"cancelAbort", "failAbort"}
    BY <1>7 DEF CleanRuntime
  <2>3. closeCalls' = (IF closeAttempted' THEN 1 ELSE 0)
        /\ (runtime' = "none" \/ closeAttempted' = TRUE)
    BY <2>1 DEF CloseOnce
  <2> QED
    BY <2>2, <2>3
<1>8. CASE CleanSink
  BY <1>8 DEF CleanSink, Return
<1>9. CASE Cancel \/ Interrupt \/ UNCHANGED vars
  BY <1>9 DEF Cancel, Interrupt, vars
<1> QED
  BY <1>1, <1>2, <1>3, <1>4, <1>5, <1>6, <1>7, <1>8, <1>9 DEF Next, RunnerStep, Terminated

\* Only LastCheck enters the sealed positions, and it sees the token unset.
LEMMA TokenInvKept ==
  ASSUME RunnerTypeOK, SafetyInv, [Next]_vars
  PROVE  TokenInv'
<1> USE DEF SafetyInv, RunnerTypeOK, ControlTypeOK, TokenInv, Sealed, PCs, tokenVars
<1>1. CASE LastCheck
  BY <1>1 DEF LastCheck, Proceed, CancelAt, Published, sinkVars, SinkInv, Producing
<1>2. CASE CommitSink
  BY <1>2 DEF CommitSink, Proceed, Fail, Published, SinkCommit, Refused, sinkVars
<1>3. CASE ReturnCompleted \/ Interrupt
  BY <1>3 DEF ReturnCompleted, Interrupt, Return, Published, sinkVars
<1>4. CASE Cancel
  BY <1>4 DEF Cancel, Published, sinkVars, SinkInv
<1>5. CASE UNCHANGED vars
  BY <1>5 DEF vars, Published, sinkVars
<1>6. CASE ~ (LastCheck \/ CommitSink \/ ReturnCompleted \/ Interrupt \/ Cancel
              \/ UNCHANGED vars)
  <2>1. UNCHANGED <<cancelled, mark>> /\ pc' \notin Sealed
    <3>1. CASE Enter \/ CreateRuntime \/ InitializeRuntime \/ CheckInitialized \/ BeginSink
      BY <3>1 DEF Enter, CreateRuntime, InitializeRuntime, CheckInitialized,
         BeginSink, Proceed, Fail, CancelAt, Return
    <3>2. CASE NextGroup \/ Propagate \/ ExecuteManeuver \/ TakeSamples \/ FinishGroup
      BY <3>2 DEF NextGroup, Propagate, ExecuteManeuver, TakeSamples, FinishGroup,
         CancelHere, Proceed, Fail, CancelAt
    <3>3. CASE Accept \/ FlushWrite
      BY <3>3 DEF Accept, FlushWrite, Flush, Proceed, Fail
    <3>4. CASE \/ CheckScheduleEnd \/ FlushCheck \/ CheckFlushed
               \/ CheckFinalEpoch \/ CloseRuntime
      BY <3>4 DEF CheckScheduleEnd, FlushCheck, CheckFlushed, CheckFinalEpoch,
         CloseRuntime, CancelHere, Proceed, Fail, CancelAt
    <3>5. CASE CleanRuntime \/ CleanSink
      BY <3>5 DEF CleanRuntime, CleanSink, Return
    <3> QED
      BY <1>6, <3>1, <3>2, <3>3, <3>4, <3>5 DEF Next, RunnerStep, Terminated
  <2>2. Published' => Published
    <3>1. Published' => pc' \in {"return", "done"}
      BY SinkInvKept DEF SinkInv
    <3>2. CASE Enter \/ CleanSink
      BY <3>2 DEF Enter, CleanSink, SinkAbort, Refused, Published, sinkVars
    <3>3. CASE ~ (Enter \/ CleanSink)
      <4>1. pc' # "done"
        BY <1>6, <2>1, <3>3 DEF Next, RunnerStep, Terminated, CreateRuntime,
           InitializeRuntime, CheckInitialized, BeginSink, NextGroup, Propagate,
           ExecuteManeuver, TakeSamples, Accept, FinishGroup, CheckScheduleEnd,
           FlushCheck, FlushWrite, Flush, CheckFlushed, CheckFinalEpoch,
           CloseRuntime, CleanRuntime, CancelHere, Proceed, Fail, CancelAt
      <4> QED
        BY <2>1, <3>1, <4>1
    <3> QED
      BY <3>2, <3>3
  <2> QED
    BY <2>1, <2>2
<1> QED
  BY <1>1, <1>2, <1>3, <1>4, <1>5, <1>6

\* The detail reported is the first failure of the run; COMPLETED is reported
\* with the end of the range.
LEMMA ReportInvKept ==
  ASSUME RunnerTypeOK, SafetyInv, [Next]_vars
  PROVE  ReportInv'
<1> USE DEF SafetyInv, RunnerTypeOK, ControlTypeOK, EndTypeOK, ReportInv, PCs,
            Causes, AtTheEnd, Reporting, Cancelling, First, endVars
<1>1. CASE Enter
  BY <1>1 DEF Enter, Proceed, Return
<1>2. CASE CreateRuntime \/ InitializeRuntime \/ CheckInitialized \/ BeginSink
  BY <1>2 DEF CreateRuntime, InitializeRuntime, CheckInitialized, BeginSink,
     Proceed, Fail, CancelAt
<1>3. CASE NextGroup \/ Propagate \/ ExecuteManeuver \/ TakeSamples \/ FinishGroup
  BY <1>3 DEF NextGroup, Propagate, ExecuteManeuver, TakeSamples, FinishGroup,
     CancelHere, Proceed, Fail, CancelAt
<1>4. CASE Accept \/ FlushWrite
  BY <1>4 DEF Accept, FlushWrite, Flush, Proceed, Fail
<1>5. CASE CheckScheduleEnd \/ FlushCheck \/ CheckFlushed \/ CheckFinalEpoch
  BY <1>5 DEF CheckScheduleEnd, FlushCheck, CheckFlushed, CheckFinalEpoch,
     CancelHere, Proceed, Fail, CancelAt
<1>6. CASE CloseRuntime \/ LastCheck \/ CommitSink
  BY <1>6 DEF CloseRuntime, LastCheck, CommitSink, Proceed, Fail, CancelAt
<1>7. CASE ReturnCompleted
  BY <1>7 DEF ReturnCompleted, Return
<1>8. CASE CleanRuntime
  BY <1>8 DEF CleanRuntime
<1>9. CASE CleanSink
  BY <1>9 DEF CleanSink, Return
<1>10. CASE Cancel \/ Interrupt \/ UNCHANGED vars
  BY <1>10 DEF Cancel, Interrupt, vars
<1> QED
  BY <1>1, <1>2, <1>3, <1>4, <1>5, <1>6, <1>7, <1>8, <1>9, <1>10
     DEF Next, RunnerStep, Terminated

-------------------------------------------------------------------------------
\* The channels of S keep their open batch, or what the sink retains of them.
SameOpen(S) == \A d \in S : Open(d)' = Open(d)
SameKept(S) == \A d \in S : Kept(d)' = Kept(d)

\* Retained and open records are counted by natural numbers.
LEMMA LengthsTyped ==
  ASSUME RunnerTypeOK
  PROVE  /\ \A c \in Channels : Kept(c) \in Nat /\ Open(c) \in Nat /\ count[c] \in Nat
         /\ input.batchSize \in Nat \ {0}
BY InputTyped DEF RunnerTypeOK, SinkTypeOK, BufferTypeOK, Kept, Open

\* What a flush does to the lengths: the batch moves from the open batch to the
\* sink, or the flush fails and leaves the clean-up to come.
LEMMA FlushMovesBatch ==
  ASSUME RunnerTypeOK, NEW c \in Channels, NEW batch \in Seq(OutputRecord),
         NEW next \in PCs, Flush(c, batch, next)
  PROVE  /\ SameOpen(Channels \ {c})
         /\ \/ /\ pc' = next /\ status' = "WRITING"
               /\ Open(c)' = 0
               /\ Kept(c)' = Kept(c) + Len(batch)
               /\ SameKept(Channels \ {c})
            \/ /\ pc' = "failClose"
               /\ Open(c)' = Len(batch)
               /\ status' = "ABORTED" \/ (status' = status /\ SameKept(Channels))
<1> USE DEF SameOpen, SameKept, Kept, Open
<1>1. buffer \in [Channels -> Seq(OutputRecord)] /\ SinkTypeOK(OutputRecord)
  BY DEF RunnerTypeOK, BufferTypeOK
<1>2. CASE /\ SinkWrite(c, batch, "ok")
           /\ buffer' = [buffer EXCEPT ![c] = <<>>]
           /\ Proceed(next)
  BY <1>1, <1>2, SinkWriteAppends DEF Proceed
<1>3. CASE /\ SinkWrite(c, batch, "raise")
           /\ buffer' = [buffer EXCEPT ![c] = batch]
           /\ Fail("write")
  BY <1>1, <1>3 DEF SinkWrite, Refused, Fail, sinkVars
<1> QED
  BY <1>2, <1>3 DEF Flush

\* Steps that accept and write nothing.
LEMMA StoreFrame ==
  ASSUME RunnerTypeOK, SafetyInv, [Next]_vars,
         ~ (Accept \/ FlushWrite \/ BeginSink)
  PROVE  /\ UNCHANGED <<input, count, sinkBegun>> /\ SameOpen(Channels)
         /\ SameKept(Channels) \/ (sinkBegun /\ status' = "ABORTED")
         /\ status' # "ABORTED" => status # "ABORTED"
         /\ pc' \in Producing => pc \in Producing
         /\ ~ UNCHANGED channel => FlushCheck
<1> USE DEF bufferVars, sinkVars, Producing, SameOpen, SameKept, Open, Kept
<1>1. CASE Enter \/ CreateRuntime \/ InitializeRuntime \/ CheckInitialized
  BY <1>1 DEF Enter, CreateRuntime, InitializeRuntime, CheckInitialized,
     Proceed, Fail, CancelAt, Return
<1>2. CASE NextGroup \/ Propagate \/ ExecuteManeuver \/ TakeSamples \/ FinishGroup
  BY <1>2 DEF NextGroup, Propagate, ExecuteManeuver, TakeSamples, FinishGroup,
     CancelHere, Proceed, Fail, CancelAt
<1>3. CASE CheckScheduleEnd \/ FlushCheck \/ CheckFlushed \/ CheckFinalEpoch
  BY <1>3 DEF CheckScheduleEnd, FlushCheck, CheckFlushed, CheckFinalEpoch,
     CancelHere, Proceed, Fail, CancelAt
<1>4. CASE CloseRuntime \/ LastCheck
  BY <1>4 DEF CloseRuntime, LastCheck, Proceed, Fail, CancelAt
<1>5. CASE CommitSink
  BY <1>5 DEF CommitSink, SinkCommit, Refused, Proceed, Fail
<1>6. CASE ReturnCompleted \/ CleanRuntime
  BY <1>6 DEF ReturnCompleted, CleanRuntime, Return
<1>7. CASE CleanSink
  BY <1>7 DEF CleanSink, SinkAbort, Refused, Return
<1>8. CASE Cancel \/ Interrupt \/ UNCHANGED vars
  BY <1>8 DEF Cancel, Interrupt, vars
<1> QED
  BY <1>1, <1>2, <1>3, <1>4, <1>5, <1>6, <1>7, <1>8 DEF Next, RunnerStep, Terminated

\* An accepted record and the batch it completes, in lengths.
LEMMA AcceptCounts ==
  ASSUME RunnerTypeOK, SafetyInv, Accept
  PROVE  \E c \in Channels :
           /\ count'[c] = count[c] + 1
           /\ \A d \in Channels \ {c} : count'[d] = count[d]
           /\ SameOpen(Channels \ {c})
           /\ \/ /\ pc' = "accept" /\ status' = status
                 /\ Open(c)' = Open(c) + 1 /\ Open(c)' < input.batchSize
                 /\ SameKept(Channels)
              \/ /\ pc' = "accept" /\ status' = "WRITING"
                 /\ Open(c)' = 0
                 /\ Kept(c)' = Kept(c) + Open(c) + 1
                 /\ SameKept(Channels \ {c})
              \/ /\ pc' = "failClose"
                 /\ Open(c)' = Open(c) + 1 /\ Open(c)' = input.batchSize
                 /\ status' = "ABORTED" \/ (status' = status /\ SameKept(Channels))
<1>0. PICK c \in Channels, batch \in Seq(OutputRecord) :
        /\ c = Head(pending).channel
        /\ batch = Append(buffer[c], Head(pending).record)
  <2>1. pending # <<>> /\ pending \in Seq(PendingRecord)
    BY DEF RunnerTypeOK, Accept, GroupTypeOK
  <2>2. Head(pending) \in PendingRecord
    BY <2>1
  <2>3. Head(pending).channel \in Channels /\ Head(pending).record \in OutputRecord
    BY <2>2 DEF PendingRecord
  <2>4. buffer[Head(pending).channel] \in Seq(OutputRecord)
    BY <2>3 DEF RunnerTypeOK, BufferTypeOK
  <2>5. Append(buffer[Head(pending).channel], Head(pending).record) \in Seq(OutputRecord)
    BY <2>3, <2>4
  <2> QED
    BY <2>3, <2>5
<1>1. buffer \in [Channels -> Seq(OutputRecord)] /\ Len(batch) = Open(c) + 1
  <2>1. buffer \in [Channels -> Seq(OutputRecord)]
    BY DEF RunnerTypeOK, BufferTypeOK
  <2>2. buffer[c] \in Seq(OutputRecord)
    BY <2>1
  <2> QED
    BY <1>0, <2>1, <2>2 DEF Open
<1>2. /\ input.batchSize \in Nat \ {0}
      /\ Open(c) \in Nat /\ Kept(c) \in Nat
      /\ Open(c) < input.batchSize
  BY LengthsTyped DEF SafetyInv, AccountInv, Accept, Producing
<1>3. count' = [count EXCEPT ![c] = @ + 1]
  BY <1>0 DEF Accept
<1>4. count'[c] = count[c] + 1 /\ \A d \in Channels \ {c} : count'[d] = count[d]
  BY <1>3 DEF RunnerTypeOK, BufferTypeOK
<1>5. CASE Len(batch) = input.batchSize /\ Flush(c, batch, "accept")
  <2>1. "accept" \in PCs
    BY DEF PCs
  <2>2. /\ SameOpen(Channels \ {c})
        /\ \/ /\ pc' = "accept" /\ status' = "WRITING"
              /\ Open(c)' = 0
              /\ Kept(c)' = Kept(c) + Len(batch)
              /\ SameKept(Channels \ {c})
           \/ /\ pc' = "failClose"
              /\ Open(c)' = Len(batch)
              /\ status' = "ABORTED" \/ (status' = status /\ SameKept(Channels))
    BY <1>1, <1>5, <2>1, FlushMovesBatch
  <2>3. Kept(c) + Len(batch) = Kept(c) + Open(c) + 1
    BY <1>1, <1>2
  <2> QED
    BY <1>1, <1>4, <1>5, <2>2, <2>3
<1>6. CASE /\ Len(batch) # input.batchSize
           /\ buffer' = [buffer EXCEPT ![c] = batch]
           /\ Proceed("accept")
           /\ UNCHANGED <<sinkVars, writes>>
  <2>1. Open(c)' = Len(batch) /\ SameOpen(Channels \ {c})
    BY <1>1, <1>6 DEF Open, SameOpen
  <2>2. Open(c)' = Open(c) + 1 /\ Open(c)' < input.batchSize
    BY <1>1, <1>2, <1>6, <2>1
  <2>3. pc' = "accept" /\ status' = status /\ SameKept(Channels)
    BY <1>6 DEF Proceed, SameKept, Kept, sinkVars
  <2> QED
    BY <1>1, <1>4, <2>1, <2>2, <2>3
<1> QED
  BY <1>0, <1>5, <1>6 DEF Accept

\* The residual flush of a channel keeps the records accounted for.
LEMMA FlushWriteCounts ==
  ASSUME RunnerTypeOK, FlushWrite
  PROVE  /\ channel \in 1 .. Len(FlushOrder) /\ channel' = channel + 1
         /\ UNCHANGED <<count, input, sinkBegun>>
         /\ \E c \in Channels :
              /\ c = FlushOrder[channel]
              /\ SameOpen(Channels \ {c})
              /\ \/ /\ pc' = "flush" /\ status' = "WRITING"
                    /\ Open(c)' = 0
                    /\ Kept(c)' = Kept(c) + Open(c)
                    /\ SameKept(Channels \ {c})
                 \/ /\ pc' = "failClose"
                    /\ Open(c)' = Open(c)
                    /\ status' = "ABORTED" \/ (status' = status /\ SameKept(Channels))
<1>1. channel \in 1 .. Len(FlushOrder)
  BY DEF RunnerTypeOK, FlushWrite, BufferTypeOK, FlushOrder
<1>2. PICK c \in Channels : c = FlushOrder[channel]
  BY <1>1 DEF FlushOrder, Channels
<1>3. PICK batch \in Seq(OutputRecord) : batch = buffer[c]
  BY DEF RunnerTypeOK, BufferTypeOK
<1>4. Flush(c, batch, "flush") /\ "flush" \in PCs
  BY <1>2, <1>3 DEF FlushWrite, PCs
<1>5. channel' = channel + 1 /\ UNCHANGED <<count, input, sinkBegun>>
  BY DEF FlushWrite
<1>6. Len(batch) = Open(c)
  BY <1>3 DEF Open
<1>7. /\ SameOpen(Channels \ {c})
      /\ \/ /\ pc' = "flush" /\ status' = "WRITING"
            /\ Open(c)' = 0
            /\ Kept(c)' = Kept(c) + Len(batch)
            /\ SameKept(Channels \ {c})
         \/ /\ pc' = "failClose"
            /\ Open(c)' = Len(batch)
            /\ status' = "ABORTED" \/ (status' = status /\ SameKept(Channels))
  BY <1>4, FlushMovesBatch
<1> QED
  BY <1>1, <1>2, <1>5, <1>6, <1>7

\* The accounting of records survives every step.
LEMMA AccountInvKept ==
  ASSUME RunnerTypeOK, SafetyInv, [Next]_vars
  PROVE  AccountInv'
<1>1. AccountInv /\ SinkInv
  BY DEF SafetyInv
<1>2. CASE BeginSink
  <2>1. /\ UNCHANGED <<input, count>>
        /\ SameOpen(Channels) /\ SameKept(Channels)
        /\ pc' \in {"next", "failClose"} /\ pc = "begin"
    BY <1>2 DEF BeginSink, SinkBegin, Refused, sinkVars, bufferVars, Proceed, Fail,
       SameOpen, SameKept, Open, Kept
  <2>2. \A c \in Channels : count[c] = 0 /\ Kept(c) = 0 /\ Open(c) = 0
    BY <1>1, <2>1 DEF SinkInv, BeforeSink, AccountInv
  <2>3. \A c \in Channels : count'[c] = 0 /\ Kept(c)' = 0 /\ Open(c)' = 0
    BY <2>1, <2>2 DEF SameOpen, SameKept
  <2>4. input'.batchSize \in Nat \ {0}
    BY <2>1, LengthsTyped
  <2> QED
    BY <2>3, <2>4 DEF AccountInv, OutputAccounted
<1>3. CASE Accept \/ FlushWrite
  <2>1. sinkBegun /\ status = "WRITING" /\ pc \in Producing
    BY <1>1, <1>3 DEF Accept, FlushWrite, SinkInv, Producing
  <2>2. UNCHANGED <<input, sinkBegun>>
    BY <1>3 DEF Accept, FlushWrite
  <2>3. \A c \in Channels : count[c] = Kept(c) + Open(c) /\ Open(c) < input.batchSize
    BY <1>1, <2>1 DEF AccountInv, OutputAccounted
  <2>4. status' # "ABORTED" => \A c \in Channels : count'[c] = Kept(c)' + Open(c)'
    <3>1. CASE Accept
      BY <2>3, <3>1, AcceptCounts, LengthsTyped DEF SameOpen, SameKept
    <3>2. CASE FlushWrite
      BY <2>3, <3>2, FlushWriteCounts, LengthsTyped DEF SameOpen, SameKept
    <3> QED
      BY <1>3, <3>1, <3>2
  <2>5. /\ \A c \in Channels : Open(c)' <= input.batchSize
        /\ pc' \in Producing => \A c \in Channels : Open(c)' < input.batchSize
    <3>1. PICK c \in Channels :
            /\ SameOpen(Channels \ {c})
            /\ \/ Open(c)' = 0
               \/ Open(c)' = Open(c)
               \/ Open(c)' = Open(c) + 1 /\ Open(c)' < input.batchSize
               \/ Open(c)' = input.batchSize /\ pc' = "failClose"
      BY <1>3, AcceptCounts, FlushWriteCounts
    <3>2. \A d \in Channels \ {c} : Open(d)' = Open(d)
      BY <3>1 DEF SameOpen
    <3>3. Open(c)' <= input.batchSize
      BY <2>3, <3>1, LengthsTyped
    <3>4. pc' \in Producing => Open(c)' < input.batchSize
      BY <2>3, <3>1, LengthsTyped DEF Producing
    <3>5. \A d \in Channels \ {c} : Open(d)' <= input.batchSize /\ Open(d)' < input.batchSize
      BY <2>3, <3>2, LengthsTyped
    <3> QED
      BY <3>3, <3>4, <3>5
  <2> QED
    BY <2>1, <2>2, <2>4, <2>5 DEF AccountInv, OutputAccounted
<1>4. CASE ~ (Accept \/ FlushWrite \/ BeginSink)
  <2>1. /\ UNCHANGED <<input, count, sinkBegun>> /\ SameOpen(Channels)
        /\ SameKept(Channels) \/ (sinkBegun /\ status' = "ABORTED")
        /\ status' # "ABORTED" => status # "ABORTED"
        /\ pc' \in Producing => pc \in Producing
    BY <1>4, StoreFrame
  <2> QED
    BY <1>1, <2>1 DEF AccountInv, OutputAccounted, SameOpen, SameKept
<1> QED
  BY <1>2, <1>3, <1>4

\* The residual flush leaves nothing behind.
LEMMA DrainInvKept ==
  ASSUME RunnerTypeOK, SafetyInv, [Next]_vars
  PROVE  DrainInv'
<1> USE DEF SafetyInv, RunnerTypeOK, ControlTypeOK, DrainInv, PCs, Producing,
            BeforeSink, Drained, SameOpen
<1>0. \A i \in 1 .. Len(FlushOrder) : FlushOrder[i] \in Channels
  BY DEF FlushOrder, Channels
<1>1. CASE FlushWrite
  <2>1. pc = "flushWrite" /\ channel \in Nat
    BY <1>1, FlushWriteCounts DEF FlushWrite
  <2>2. channel' = channel + 1
    BY <1>1, FlushWriteCounts
  <2>3. PICK c \in Channels :
          /\ c = FlushOrder[channel]
          /\ SameOpen(Channels \ {c})
          /\ \/ pc' = "flush" /\ Open(c)' = 0
             \/ pc' = "failClose"
    BY <1>1, FlushWriteCounts
  <2>5. Len(FlushOrder) \in Nat
    BY DEF FlushOrder
  <2>6. CASE pc' = "flush"
    <3>1. ASSUME NEW i \in 1 .. Len(FlushOrder), i < channel + 1
          PROVE  Open(FlushOrder[i])' = 0
      <4>1. CASE FlushOrder[i] = c
        BY <2>3, <2>6, <4>1
      <4>2. CASE FlushOrder[i] # c
        <5>1. i < channel
          BY <2>1, <2>3, <2>5, <3>1, <4>2
        <5> QED
          BY <1>0, <2>1, <2>3, <4>2, <5>1
      <4> QED
        BY <4>1, <4>2
    <3> QED
      BY <2>2, <2>6, <3>1
  <2>7. CASE pc' = "failClose"
    BY <2>7
  <2> QED
    BY <2>3, <2>6, <2>7
<1>2. CASE Accept
  BY <1>2, AcceptCounts DEF Accept
<1>3. CASE BeginSink
  BY <1>3 DEF BeginSink, Proceed, Fail, bufferVars, Open
<1>4. CASE FlushCheck
  <2>1. pc = "flush" /\ SameOpen(Channels) /\ channel \in Nat
    BY <1>4 DEF FlushCheck, bufferVars, BufferTypeOK, SameOpen, Open
  <2>2. CASE channel > Len(FlushOrder) /\ pc' = "finalCheck" /\ UNCHANGED channel
    <3>1. \A c \in Channels : \E i \in 1 .. Len(FlushOrder) : c = FlushOrder[i]
      BY DEF FlushOrder, Channels
    <3>2. Len(FlushOrder) \in Nat
      BY DEF FlushOrder
    <3>3. \A i \in 1 .. Len(FlushOrder) : Open(FlushOrder[i]) = 0
      BY <2>1, <2>2, <3>2
    <3> QED
      BY <2>1, <2>2, <3>1, <3>3
  <2>3. CASE /\ channel <= Len(FlushOrder)
             /\ buffer[FlushOrder[channel]] = <<>>
             /\ channel' = channel + 1
             /\ pc' = "flush"
    <3>1. \A i \in 1 .. Len(FlushOrder) : i < channel + 1 => i < channel \/ i = channel
      BY <2>1 DEF FlushOrder
    <3>2. Open(FlushOrder[channel]) = 0
      BY <2>3 DEF Open
    <3> QED
      BY <1>0, <2>1, <2>3, <3>1, <3>2
  <2>4. CASE UNCHANGED channel /\ pc' \in {"cancelClose", "failClose", "flushWrite"}
    BY <1>0, <2>1, <2>4
  <2> QED
    BY <1>4, <2>2, <2>3, <2>4 DEF FlushCheck, Proceed, Fail, CancelHere, CancelAt
<1>5. CASE ~ (Accept \/ FlushWrite \/ BeginSink \/ FlushCheck)
  <2>1. SameOpen(Channels) /\ UNCHANGED channel
    BY <1>5, StoreFrame
  <2>2. \/ pc' \in Drained /\ pc \in Drained
        \/ pc' \in Producing \ (Drained \cup {"flush", "flushWrite"}) /\ pc \in
             Producing \ (Drained \cup {"flush", "flushWrite"})
        \/ pc' \in BeforeSink /\ pc \in BeforeSink
        \/ pc' = "flush" /\ pc = "endCheck"
        \/ pc' = pc
        \/ pc' \notin Producing \cup Drained \cup BeforeSink
    <3>1. CASE Enter \/ CreateRuntime \/ InitializeRuntime \/ CheckInitialized
      BY <3>1 DEF Enter, CreateRuntime, InitializeRuntime, CheckInitialized,
         Proceed, Fail, CancelAt, Return
    <3>2. CASE NextGroup \/ Propagate \/ ExecuteManeuver \/ TakeSamples \/ FinishGroup
      BY <3>2 DEF NextGroup, Propagate, ExecuteManeuver, TakeSamples, FinishGroup,
         CancelHere, Proceed, Fail, CancelAt
    <3>3. CASE CheckScheduleEnd \/ CheckFlushed \/ CheckFinalEpoch
      BY <3>3 DEF CheckScheduleEnd, CheckFlushed, CheckFinalEpoch,
         CancelHere, Proceed, Fail, CancelAt
    <3>4. CASE CloseRuntime \/ LastCheck \/ CommitSink
      BY <3>4 DEF CloseRuntime, LastCheck, CommitSink, Proceed, Fail, CancelAt
    <3>5. CASE ReturnCompleted \/ CleanRuntime \/ CleanSink
      BY <3>5 DEF ReturnCompleted, CleanRuntime, CleanSink, Return
    <3>6. CASE Cancel \/ Interrupt \/ UNCHANGED vars
      BY <3>6 DEF Cancel, Interrupt, vars
    <3> QED
      BY <1>5, <3>1, <3>2, <3>3, <3>4, <3>5, <3>6 DEF Next, RunnerStep, Terminated
  <2>3. CASE pc' = "flush" /\ pc = "endCheck"
    <3>1. channel = 1
      BY <2>3
    <3>2. \A i \in 1 .. Len(FlushOrder) : ~ (i < 1)
      BY DEF FlushOrder
    <3> QED
      BY <2>1, <2>3, <3>1, <3>2
  <2> QED
    BY <1>0, <2>1, <2>2, <2>3
<1> QED
  BY <1>1, <1>2, <1>3, <1>4, <1>5

-------------------------------------------------------------------------------
\* The properties reported on return follow from what holds just before it.
LEMMA OutcomeKept ==
  ASSUME RunnerTypeOK, SafetyInv, [Next]_vars
  PROVE  OutcomeMatchesSink' /\ RuntimeClosedOnce' /\ FirstCauseSurvives'
<1> USE DEF SafetyInv, Returned, Reporting, Cancelling
<1>1. SinkInv' /\ RuntimeInv' /\ ReportInv'
  BY SinkInvKept, RuntimeInvKept, ReportInvKept
<1>2. closeCalls' <= 1
  BY <1>1 DEF RuntimeInv
<1>3. CASE pc' # "done"
  <2>1. result'.status = "RUNNING"
    BY <1>1, <1>3 DEF ReportInv
  <2> QED
    BY <1>2, <2>1 DEF OutcomeMatchesSink, RuntimeClosedOnce, FirstCauseSurvives
<1>4. CASE Enter /\ pc' = "done"
  <2>1. /\ pc = "entry" /\ ~Published'
        /\ runtime' = "none"
        /\ result'.summary = ZeroCount
        /\ \/ result'.status = "ERROR" /\ cause' = "manifest" /\ raised' = "manifest"
           \/ result'.status = "CANCELLED"
    BY <1>4 DEF Enter, Return, Proceed, Published, SinkInv, BeforeSink, RuntimeInv,
       BeforeRuntime, sinkVars, runtimeVars
  <2> QED
    BY <1>2, <2>1 DEF OutcomeMatchesSink, RuntimeClosedOnce, FirstCauseSurvives
<1>5. CASE ReturnCompleted
  <2>1. /\ Published' /\ runtime' = "closed" /\ closeCalls' = 1
        /\ result' = [status |-> "COMPLETED", final |-> EndEpoch, summary |-> count]
        /\ UNCHANGED <<count, stored, buffer>>
    BY <1>5 DEF ReturnCompleted, Return, Published, SinkInv, RuntimeInv, RuntimeClosed,
       ReportInv, AtTheEnd, sinkVars, runtimeVars, closeVars, bufferVars
  <2>2. \A c \in Channels : count[c] = Kept(c)
    <3>1. pc = "return" /\ Published
      BY <1>5 DEF ReturnCompleted, SinkInv
    <3>2. \A c \in Channels : Open(c) = 0 /\ count[c] = Kept(c) + Open(c)
      BY <3>1 DEF DrainInv, Drained, AccountInv, OutputAccounted, Published
    <3> QED
      BY <3>2, LengthsTyped
  <2>3. \A c \in Channels : Kept(c)' = Kept(c)
    BY <2>1 DEF Kept
  <2> QED
    BY <1>2, <2>1, <2>2, <2>3
       DEF OutcomeMatchesSink, RuntimeClosedOnce, FirstCauseSurvives
<1>6. CASE CleanSink
  <2>1. /\ ~Published'
        /\ runtime' = "none" \/ closeCalls' = 1
        /\ result'.summary = ZeroCount
        /\ pc = "failAbort" => cause' # "none" /\ cause' = raised'
        /\ \/ pc = "failAbort" /\ result'.status = "ERROR"
           \/ pc = "cancelAbort" /\ result'.status = "CANCELLED"
    <3>1. ~Published /\ pc \in {"cancelAbort", "failAbort"}
      BY <1>6 DEF CleanSink, SinkInv
    <3>2. ~Published'
      BY <1>6, <3>1 DEF CleanSink, SinkAbort, Refused, Published, sinkVars
    <3>3. runtime' = "none" \/ closeCalls' = 1
      BY <1>6, <3>1 DEF CleanSink, RuntimeInv, runtimeVars, closeVars
    <3>4. /\ result'.summary = ZeroCount
          /\ \/ pc = "failAbort" /\ result'.status = "ERROR"
             \/ pc = "cancelAbort" /\ result'.status = "CANCELLED"
      BY <1>6, <3>1 DEF CleanSink, Return
    <3>5. pc = "failAbort" => cause' # "none" /\ cause' = raised'
      BY <1>6 DEF CleanSink, ReportInv, First
    <3> QED
      BY <3>2, <3>3, <3>4, <3>5
  <2> QED
    BY <1>2, <2>1 DEF OutcomeMatchesSink, RuntimeClosedOnce, FirstCauseSurvives
<1>7. CASE Interrupt
  <2>1. result'.status = "ESCAPED"
    BY <1>7 DEF Interrupt, RunnerTypeOK, EndTypeOK
  <2> QED
    BY <1>2, <2>1 DEF OutcomeMatchesSink, RuntimeClosedOnce, FirstCauseSurvives
<1>8. CASE UNCHANGED vars
  <2>1. UNCHANGED <<result, runtime, closeCalls, cause, raised, sinkBegun, status,
                    stored, count>>
    BY <1>8 DEF vars, runtimeVars, closeVars, sinkVars, bufferVars, endVars
  <2>2. \A c \in Channels : Kept(c)' = Kept(c)
    BY <2>1 DEF Kept
  <2> QED
    BY <2>1, <2>2 DEF OutcomeMatchesSink, RuntimeClosedOnce, FirstCauseSurvives, Published
<1>9. CASE ~ (Enter \/ ReturnCompleted \/ CleanSink \/ Interrupt \/ UNCHANGED vars)
  <2>1. pc' # "done"
    <3>1. CASE CreateRuntime \/ InitializeRuntime \/ CheckInitialized \/ BeginSink
      BY <3>1 DEF CreateRuntime, InitializeRuntime, CheckInitialized, BeginSink,
         Proceed, Fail, CancelAt
    <3>2. CASE NextGroup \/ Propagate \/ ExecuteManeuver \/ TakeSamples \/ FinishGroup
      BY <3>2 DEF NextGroup, Propagate, ExecuteManeuver, TakeSamples, FinishGroup,
         CancelHere, Proceed, Fail, CancelAt
    <3>3. CASE Accept \/ FlushWrite
      BY <3>3 DEF Accept, FlushWrite, Flush, Proceed, Fail
    <3>4. CASE CheckScheduleEnd \/ FlushCheck \/ CheckFlushed \/ CheckFinalEpoch
      BY <3>4 DEF CheckScheduleEnd, FlushCheck, CheckFlushed, CheckFinalEpoch,
         CancelHere, Proceed, Fail, CancelAt
    <3>5. CASE CloseRuntime \/ LastCheck \/ CommitSink \/ CleanRuntime \/ Cancel
      BY <3>5 DEF CloseRuntime, LastCheck, CommitSink, CleanRuntime, Cancel,
         Proceed, Fail, CancelAt
    <3> QED
      BY <1>9, <3>1, <3>2, <3>3, <3>4, <3>5 DEF Next, RunnerStep, Terminated
  <2> QED
    BY <1>3, <2>1
<1> QED
  BY <1>3, <1>4, <1>5, <1>6, <1>7, <1>8, <1>9

\* The invariant holds when a run starts.
LEMMA InitSafe ==
  ASSUME Init
  PROVE  SafetyInv
<1>1. RunnerTypeOK
  BY InitTyped
<1>2. \A c \in Channels : Kept(c) = 0 /\ Open(c) = 0 /\ count[c] = 0
  BY DEF Init, Kept, Open, Empty, ZeroCount
<1>3. AccountInv
  BY <1>1, <1>2, LengthsTyped DEF Init, AccountInv, OutputAccounted, Producing
<1>4. SinkInv /\ RuntimeInv /\ TokenInv
  BY DEF Init, SinkInv, RuntimeInv, TokenInv, Published, BeforeSink, Producing,
     BeforeRuntime, RuntimeLive, RuntimeClosed, Sealed
<1>5. ReportInv /\ DrainInv
  BY DEF Init, ReportInv, DrainInv, AtTheEnd, Reporting, Cancelling, BeforeSink,
     Producing, Drained
<1>6. OutcomeMatchesSink /\ RuntimeClosedOnce /\ FirstCauseSurvives
  BY DEF Init, OutcomeMatchesSink, RuntimeClosedOnce, FirstCauseSurvives, Returned
<1> QED
  BY <1>3, <1>4, <1>5, <1>6 DEF SafetyInv

\* Every step keeps the invariant.
LEMMA SafetyInductive ==
  ASSUME RunnerTypeOK, SafetyInv, [Next]_vars
  PROVE  SafetyInv'
BY SinkInvKept, RuntimeInvKept, TokenInvKept, ReportInvKept, AccountInvKept,
   DrainInvKept, OutcomeKept DEF SafetyInv

\* The inductive invariant holds in every run: what the runner's position says
\* about sink, runtime, token, buffers and the failure being reported.
THEOREM RunnerSafe == Spec => [](RunnerTypeOK /\ SafetyInv)
<1>1. Init => RunnerTypeOK /\ SafetyInv
  BY InitTyped, InitSafe
<1>2. RunnerTypeOK /\ SafetyInv /\ [Next]_vars => (RunnerTypeOK /\ SafetyInv)'
  BY NextTyped, SafetyInductive
<1> QED
  BY <1>1, <1>2, PTL DEF Spec

-------------------------------------------------------------------------------
\* No record is lost or duplicated between counters, open batches and sink.
THEOREM RecordsAccounted == Spec => []OutputAccounted
<1>1. SafetyInv => OutputAccounted
  BY DEF SafetyInv, AccountInv
<1> QED
  BY <1>1, RunnerSafe, PTL

\* COMPLETED means committed, CANCELLED and ERROR mean not committed, and the
\* counts returned are those of the committed output.
THEOREM OutcomeAgreesWithSink == Spec => []OutcomeMatchesSink
<1>1. SafetyInv => OutcomeMatchesSink
  BY DEF SafetyInv
<1> QED
  BY <1>1, RunnerSafe, PTL

\* The output is committed only after the runtime closed without error.
THEOREM CommitNeedsClosedRuntime == Spec => []CommitAfterClose
<1>1. SafetyInv => CommitAfterClose
  BY DEF SafetyInv, SinkInv, CommitAfterClose
<1> QED
  BY <1>1, RunnerSafe, PTL

\* The runtime is closed at most once, and exactly once on every return.
THEOREM RuntimeClosedExactlyOnce == Spec => []RuntimeClosedOnce
<1>1. SafetyInv => RuntimeClosedOnce
  BY DEF SafetyInv
<1> QED
  BY <1>1, RunnerSafe, PTL

\* A cancellation request that precedes the last read of the token prevents the
\* commit, wherever the runner was.
THEOREM CancellationPreventsCommit == Spec => []RequestBeforeSealPreventsCommit
<1>1. SafetyInv => RequestBeforeSealPreventsCommit
  BY DEF SafetyInv, TokenInv, Sealed, RequestBeforeSealPreventsCommit
<1> QED
  BY <1>1, RunnerSafe, PTL

\* The error raised carries the first failure, not one of the clean-up.
THEOREM FirstFailureReported == Spec => []FirstCauseSurvives
<1>1. SafetyInv => FirstCauseSurvives
  BY DEF SafetyInv
<1> QED
  BY <1>1, RunnerSafe, PTL

\* A sink that the run did not begin is left exactly as it was.
THEOREM SinkOfOthersUntouched == Spec => ForeignSinkUntouched
<1>1. SafetyInv /\ [Next]_vars => [~sinkBegun' => UNCHANGED sinkVars]_vars
  <2> SUFFICES ASSUME SafetyInv, [Next]_vars, ~sinkBegun'
               PROVE  UNCHANGED sinkVars
    OBVIOUS
  <2>1. SinkInv
    BY DEF SafetyInv
  <2>2. CASE Accept \/ FlushWrite \/ CommitSink
    BY <2>1, <2>2 DEF Accept, FlushWrite, CommitSink, SinkInv, Producing
  <2>3. CASE BeginSink
    BY <2>3 DEF BeginSink, SinkBegin, Refused
  <2>4. CASE CleanSink
    BY <2>4 DEF CleanSink
  <2>5. CASE ~ (Accept \/ FlushWrite \/ CommitSink \/ BeginSink \/ CleanSink)
    BY <2>5 DEF Next, RunnerStep, Terminated, vars, Enter, CreateRuntime,
       InitializeRuntime, CheckInitialized, NextGroup, Propagate, ExecuteManeuver,
       TakeSamples, FinishGroup, CheckScheduleEnd, FlushCheck, CheckFlushed,
       CheckFinalEpoch, CloseRuntime, LastCheck, ReturnCompleted, CleanRuntime,
       Cancel, Interrupt
  <2> QED
    BY <2>2, <2>3, <2>4, <2>5
<1> QED
  BY <1>1, RunnerSafe, PTL DEF Spec, ForeignSinkUntouched
-------------------------------------------------------------------------------
\* A request already made is never undone, and the next read of the token sends
\* the runner to the clean-up: no action of the runner enters a group or a
\* residual write any more.
LEMMA PromptKept ==
  ASSUME RunnerTypeOK, PromptInv, [Next]_vars
  PROVE  PromptInv'
<1> USE DEF PromptInv, GroupSteps, RunnerTypeOK, ControlTypeOK, BufferTypeOK, GroupTypeOK
<1>1. CASE UNCHANGED vars
  BY <1>1 DEF vars, tokenVars, groupVars, bufferVars
<1>2. CASE Cancel
  <2>1. /\ mark' = [at |-> pc, group |-> group, writes |-> writes]
        /\ UNCHANGED <<pc, group, writes>>
    BY <1>2 DEF Cancel, groupVars, bufferVars
  <2>2. mark'.at = pc /\ mark'.group = group /\ mark'.writes = writes
    BY <2>1
  <2>3. writes <= writes + 1
    OBVIOUS
  <2> QED
    BY <2>1, <2>2, <2>3
<1>3. CASE Next /\ ~Cancel /\ cancelled
  <2>1. CASE Enter \/ CreateRuntime \/ InitializeRuntime \/ CheckInitialized \/ BeginSink
    BY <1>3, <2>1 DEF Enter, CreateRuntime, InitializeRuntime, CheckInitialized,
       BeginSink, Proceed, Fail, CancelAt, Return, tokenVars, groupVars, bufferVars
  <2>2. CASE NextGroup \/ FinishGroup \/ CheckScheduleEnd \/ FlushCheck \/ CheckFlushed
    BY <1>3, <2>2 DEF NextGroup, FinishGroup, CheckScheduleEnd, FlushCheck, CheckFlushed,
       CancelHere, Proceed, Fail, CancelAt, tokenVars, groupVars, bufferVars
  <2>3. CASE Propagate \/ ExecuteManeuver \/ TakeSamples
    <3>1. pc \in GroupSteps /\ UNCHANGED <<cancelled, mark, group>>
      BY <2>3 DEF Propagate, ExecuteManeuver, TakeSamples, tokenVars
    <3> QED
      BY <1>3, <3>1
  <2>4. CASE Accept
    <3>1. pc \in GroupSteps /\ UNCHANGED <<cancelled, mark, group>>
      BY <2>4 DEF Accept, tokenVars
    <3> QED
      BY <1>3, <3>1
  <2>5. CASE FlushWrite
    <3>1. /\ pc = "flushWrite" /\ pc' \in {"flush", "failClose"}
          /\ UNCHANGED <<cancelled, mark, group>>
          /\ writes' = writes + 1 \/ writes' = writes
      BY <2>5 DEF FlushWrite, Flush, Proceed, Fail, tokenVars, groupVars
    <3>2. mark.at = "flushWrite" => writes' <= mark.writes + 1
      BY <1>3, <3>1
    <3> QED
      BY <1>3, <3>1, <3>2
  <2>6. CASE CheckFinalEpoch \/ CloseRuntime \/ LastCheck \/ CommitSink
    BY <1>3, <2>6 DEF CheckFinalEpoch, CloseRuntime, LastCheck, CommitSink, Proceed,
       Fail, CancelAt, tokenVars, groupVars, bufferVars
  <2>7. CASE ReturnCompleted \/ CleanRuntime \/ CleanSink \/ Interrupt \/ Terminated
    BY <1>3, <2>7 DEF ReturnCompleted, CleanRuntime, CleanSink, Interrupt, Terminated,
       Return, vars, tokenVars, groupVars, bufferVars
  <2> QED
    BY <1>3, <2>1, <2>2, <2>3, <2>4, <2>5, <2>6, <2>7 DEF Next, RunnerStep
<1>4. CASE Next /\ ~Cancel /\ ~cancelled
  <2>1. UNCHANGED cancelled
    BY <1>4 DEF Next, RunnerStep, Enter, CreateRuntime, InitializeRuntime,
       CheckInitialized, BeginSink, NextGroup, Propagate, ExecuteManeuver, TakeSamples,
       Accept, FinishGroup, CheckScheduleEnd, FlushCheck, FlushWrite, CheckFlushed,
       CheckFinalEpoch, CloseRuntime, LastCheck, CommitSink, ReturnCompleted,
       CleanRuntime, CleanSink, Interrupt, Terminated, vars, tokenVars
  <2> QED
    BY <1>4, <2>1
<1> QED
  BY <1>1, <1>2, <1>3, <1>4

\* A request is honoured at once: no group starts after it, and outside a group
\* at most the one batch whose write was already decided reaches the sink.
THEOREM CancellationHonouredAtOnce == Spec => []CancellationIsPrompt
<1>1. Init => PromptInv
  BY DEF Init, PromptInv
<1>2. RunnerTypeOK /\ PromptInv /\ [Next]_vars => PromptInv'
  BY PromptKept
<1>3. PromptInv => CancellationIsPrompt
  BY DEF PromptInv, CancellationIsPrompt
<1> QED
  BY <1>1, <1>2, <1>3, RunnerTyping, PTL DEF Spec

-------------------------------------------------------------------------------
\* What a schedule calls for, group by group.

IdentifiedRecord == [event : STRING, entity : Entities, epoch : Epochs] \cup SampleRecord

LEMMA GroupTyped ==
  ASSUME NEW groups \in Seq(ScheduledGroups), NEW k \in 1 .. Len(groups)
  PROVE  /\ groups[k].epoch \in Epochs
         /\ groups[k].maneuvers \in Seq(Maneuvers)
         /\ groups[k].products \subseteq Products
<1>1. groups[k] \in ScheduledGroups
  OBVIOUS
<1> QED
  BY <1>1 DEF ScheduledGroups

\* The maneuvers of one group more.
LEMMA ManeuversTyped ==
  ASSUME NEW groups \in Seq(ScheduledGroups), NEW k \in 0 .. Len(groups)
  PROVE  ManeuversThrough(groups, k) \in Seq(Maneuvers)
<1> DEFINE s == [i \in 1 .. k |-> groups[i].maneuvers]
<1>1. \A i \in 1 .. k : groups[i].maneuvers \in Seq(Maneuvers)
  BY GroupTyped
<1>2. s \in [1 .. k -> Seq(Maneuvers)]
  BY <1>1
<1>3. ManeuversThrough(groups, k) = FlattenSeq(s)
  BY DEF ManeuversThrough
<1> HIDE DEF s
<1> QED
  BY <1>2, <1>3, FlattenTyped

LEMMA ManeuversStep ==
  ASSUME NEW groups \in Seq(ScheduledGroups), NEW k \in Nat, k < Len(groups)
  PROVE  ManeuversThrough(groups, k + 1) = ManeuversThrough(groups, k) \o groups[k + 1].maneuvers
<1> DEFINE s == [i \in 1 .. k |-> groups[i].maneuvers]
           t == [i \in 1 .. k + 1 |-> groups[i].maneuvers]
<1>1. \A i \in 1 .. k + 1 : groups[i].maneuvers \in Seq(Maneuvers)
  BY GroupTyped
<1>2. s \in [1 .. k -> Seq(Maneuvers)] /\ t \in [1 .. k + 1 -> Seq(Maneuvers)]
  BY <1>1
<1>3. (\A i \in 1 .. k : s[i] = t[i]) /\ t[k + 1] = groups[k + 1].maneuvers
  OBVIOUS
<1>4. ManeuversThrough(groups, k) = FlattenSeq(s) /\ ManeuversThrough(groups, k + 1) = FlattenSeq(t)
  BY DEF ManeuversThrough
<1> HIDE DEF s, t
<1>5. FlattenSeq(t) = FlattenSeq(s) \o t[k + 1]
  BY <1>2, <1>3, FlattenStep
<1> QED
  BY <1>3, <1>4, <1>5

LEMMA OutputTyped ==
  ASSUME NEW groups \in Seq(ScheduledGroups), NEW k \in 1 .. Len(groups), NEW c
  PROVE  GroupOutput(groups, k, c) \in Seq(IdentifiedRecord)
<1>1. Len(ManeuversThrough(groups, k)) \in Nat
  <2>1. k \in 0 .. Len(groups)
    OBVIOUS
  <2> QED
    BY <2>1, ManeuversTyped
<1>2. CASE c = "truth_maneuvers"
  <2> DEFINE g == groups[k]
  <2>1. g.maneuvers \in Seq(Maneuvers) /\ g.epoch \in Epochs
    BY GroupTyped
  <2> HIDE DEF g
  <2>2. \A j \in DOMAIN g.maneuvers : g.maneuvers[j].event \in STRING /\ g.maneuvers[j].entity \in Entities
    <3> TAKE j \in DOMAIN g.maneuvers
    <3>1. g.maneuvers[j] \in Maneuvers
      BY <2>1
    <3> QED
      BY <3>1 DEF Maneuvers
  <2>3. \A j \in DOMAIN g.maneuvers :
          [event |-> g.maneuvers[j].event, entity |-> g.maneuvers[j].entity,
           epoch |-> g.epoch] \in IdentifiedRecord
    <3> TAKE j \in DOMAIN g.maneuvers
    <3>1. g.maneuvers[j].event \in STRING /\ g.maneuvers[j].entity \in Entities /\ g.epoch \in Epochs
      BY <2>1, <2>2
    <3>2. [event |-> g.maneuvers[j].event, entity |-> g.maneuvers[j].entity, epoch |-> g.epoch]
            \in [event : STRING, entity : Entities, epoch : Epochs]
      BY <3>1
    <3> QED
      BY <3>2 DEF IdentifiedRecord
  <2> DEFINE records == [j \in DOMAIN g.maneuvers |->
                           [event |-> g.maneuvers[j].event,
                            entity |-> g.maneuvers[j].entity, epoch |-> g.epoch]]
  <2>4. DOMAIN g.maneuvers = 1 .. Len(g.maneuvers) /\ Len(g.maneuvers) \in Nat
    BY <2>1
  <2>5. records \in Seq(IdentifiedRecord)
    BY <2>3, <2>4
  <2> QED
    BY <1>2, <2>5 DEF GroupOutput, g
<1>3. CASE c # "truth_maneuvers" /\ c \in groups[k].products
  <2> DEFINE at == groups[k].epoch
             done == Len(ManeuversThrough(groups, k))
             records == [i \in DOMAIN SpaceObjects |->
                           [entity |-> SpaceObjects[i], epoch |-> at, applied |-> done]]
  <2>1. at \in Epochs /\ done \in Nat
    BY <1>1, GroupTyped
  <2>2. SpaceObjects \in Seq(STRING) /\ DOMAIN SpaceObjects = 1 .. Len(SpaceObjects)
        /\ Len(SpaceObjects) \in Nat
    BY RunnerAssumption
  <2>3. GroupOutput(groups, k, c) = records
    BY <1>3 DEF GroupOutput
  <2> HIDE DEF at, done
  <2>4. \A i \in DOMAIN SpaceObjects :
          [entity |-> SpaceObjects[i], epoch |-> at, applied |-> done] \in IdentifiedRecord
    BY <2>1 DEF IdentifiedRecord, SampleRecord, Entities
  <2>5. records \in Seq(IdentifiedRecord)
    BY <2>2, <2>4
  <2> QED
    BY <2>3, <2>5
<1>4. CASE c # "truth_maneuvers" /\ c \notin groups[k].products
  <2>1. GroupOutput(groups, k, c) = <<>>
    BY <1>4 DEF GroupOutput
  <2> QED
    BY <2>1
<1> QED
  BY <1>2, <1>3, <1>4

LEMMA ExpectedTyped ==
  ASSUME NEW groups \in Seq(ScheduledGroups), NEW k \in 0 .. Len(groups), NEW c
  PROVE  Expected(groups, k, c) \in Seq(IdentifiedRecord)
<1> DEFINE s == [i \in 1 .. k |-> GroupOutput(groups, i, c)]
<1>1. \A i \in 1 .. k : GroupOutput(groups, i, c) \in Seq(IdentifiedRecord)
  BY OutputTyped
<1>2. s \in [1 .. k -> Seq(IdentifiedRecord)]
  BY <1>1
<1>3. Expected(groups, k, c) = FlattenSeq(s)
  BY DEF Expected
<1> HIDE DEF s
<1> QED
  BY <1>2, <1>3, FlattenTyped

LEMMA ExpectedStep ==
  ASSUME NEW groups \in Seq(ScheduledGroups), NEW k \in Nat, k < Len(groups), NEW c
  PROVE  Expected(groups, k + 1, c) = Expected(groups, k, c) \o GroupOutput(groups, k + 1, c)
<1> DEFINE s == [i \in 1 .. k |-> GroupOutput(groups, i, c)]
           t == [i \in 1 .. k + 1 |-> GroupOutput(groups, i, c)]
<1>1. \A i \in 1 .. k + 1 : GroupOutput(groups, i, c) \in Seq(IdentifiedRecord)
  BY OutputTyped
<1>2. s \in [1 .. k -> Seq(IdentifiedRecord)] /\ t \in [1 .. k + 1 -> Seq(IdentifiedRecord)]
  BY <1>1
<1>3. (\A i \in 1 .. k : s[i] = t[i]) /\ t[k + 1] = GroupOutput(groups, k + 1, c)
  OBVIOUS
<1>4. Expected(groups, k, c) = FlattenSeq(s) /\ Expected(groups, k + 1, c) = FlattenSeq(t)
  BY DEF Expected
<1> HIDE DEF s, t
<1>5. FlattenSeq(t) = FlattenSeq(s) \o t[k + 1]
  BY <1>2, <1>3, FlattenStep
<1> QED
  BY <1>3, <1>4, <1>5

\* Nothing is called for before the first group.
LEMMA NothingYet ==
  ASSUME NEW groups, NEW c
  PROVE  Expected(groups, 0, c) = <<>> /\ ManeuversThrough(groups, 0) = <<>>
<1> DEFINE s == [i \in 1 .. 0 |-> GroupOutput(groups, i, c)]
           t == [i \in 1 .. 0 |-> groups[i].maneuvers]
<1>1. s = <<>> /\ t = <<>> /\ Len(s) = 0 /\ Len(t) = 0
  OBVIOUS
<1> HIDE DEF s, t
<1>2. FlattenSeq(s) = <<>> /\ FlattenSeq(t) = <<>>
  BY <1>1 DEF FlattenSeq
<1> QED
  BY <1>2 DEF Expected, ManeuversThrough, s, t

\* Leaving out the physical states commutes with concatenation.
LEMMA IdentifiedJoined ==
  ASSUME NEW S, NEW a \in Seq(S), NEW b \in Seq(S), NEW c
  PROVE  /\ Identified(c, a \o b) = Identified(c, a) \o Identified(c, b)
         /\ Len(Identified(c, a)) = Len(a)
<1>1. CASE c # "truth_maneuvers"
  BY <1>1 DEF Identified
<1>2. CASE c = "truth_maneuvers"
  <2> DEFINE Id(r) == [event |-> r.event, entity |-> r.entity, epoch |-> r.epoch]
  <2>1. \A r : Identified(c, r) = [i \in DOMAIN r |-> Id(r[i])]
    BY <1>2 DEF Identified
  <2> HIDE DEF Id
  <2>2. Len(a) \in Nat /\ Len(b) \in Nat /\ DOMAIN a = 1 .. Len(a) /\ DOMAIN b = 1 .. Len(b)
        /\ DOMAIN (a \o b) = 1 .. Len(a) + Len(b)
    OBVIOUS
  <2> DEFINE ia == [i \in 1 .. Len(a) |-> Id(a[i])]
             ib == [i \in 1 .. Len(b) |-> Id(b[i])]
             R == {Id(x) : x \in S}
             j  == [i \in 1 .. Len(a) + Len(b) |-> Id((a \o b)[i])]
  <2>3. /\ ia \in Seq(R) /\ Len(ia) = Len(a) /\ \A i \in 1 .. Len(a) : ia[i] = Id(a[i])
        /\ ib \in Seq(R) /\ Len(ib) = Len(b) /\ \A i \in 1 .. Len(b) : ib[i] = Id(b[i])
    BY <2>2
  <2>4. j \in Seq(R) /\ Len(j) = Len(a) + Len(b)
        /\ \A i \in 1 .. Len(a) + Len(b) : j[i] = Id((a \o b)[i])
    <3>1. a \o b \in Seq(S) /\ Len(a \o b) = Len(a) + Len(b)
      BY <2>2
    <3>2. \A i \in 1 .. Len(a) + Len(b) : (a \o b)[i] \in S
      BY <3>1
    <3>3. \A i \in 1 .. Len(a) + Len(b) : Id((a \o b)[i]) \in R
      BY <3>2
    <3> HIDE DEF R
    <3> QED
      BY <2>2, <3>3
  <2>5. Identified(c, a) = ia /\ Identified(c, b) = ib /\ Identified(c, a \o b) = j
    BY <2>1, <2>2
  <2> HIDE DEF ia, ib, j, R
  <2>6. ASSUME NEW i \in 1 .. Len(a) + Len(b)
        PROVE  j[i] = (ia \o ib)[i]
    <3>1. /\ i <= Len(a) => i \in 1 .. Len(a) /\ (a \o b)[i] = a[i]
          /\ ~(i <= Len(a)) => i - Len(a) \in 1 .. Len(b) /\ (a \o b)[i] = b[i - Len(a)]
      BY ConcatAt
    <3>2. /\ i <= Len(a) => (ia \o ib)[i] = ia[i]
          /\ ~(i <= Len(a)) => (ia \o ib)[i] = ib[i - Len(a)]
      <4>1. PICK p \in Seq(R), q \in Seq(R) :
              p = ia /\ q = ib /\ Len(p) = Len(a) /\ Len(q) = Len(b)
        BY <2>3
      <4> QED
        BY <4>1, ConcatAt
    <3> QED
      BY <2>3, <2>4, <3>1, <3>2
  <2>7. ia \o ib \in Seq(R) /\ Len(ia \o ib) = Len(a) + Len(b)
    <3>1. PICK p \in Seq(R) : p = ia /\ Len(p) = Len(a)
      BY <2>3
    <3>2. PICK q \in Seq(R) : q = ib /\ Len(q) = Len(b)
      BY <2>3
    <3>3. p \o q \in Seq(R)
      OBVIOUS
    <3>4. Len(p \o q) = Len(p) + Len(q)
      OBVIOUS
    <3> QED
      BY <3>1, <3>2, <3>3, <3>4
  <2>8. j = ia \o ib
    BY <2>2, <2>4, <2>6, <2>7, SeqEqual
  <2> QED
    BY <2>3, <2>5, <2>8
<1> QED
  BY <1>1, <1>2

-------------------------------------------------------------------------------
\* Chains of maneuvers.

\* Two chains with no instant in common make one.
LEMMA ChainJoined ==
  ASSUME NEW S, NEW a \in Seq(S), NEW b \in Seq(S), Chained(a), Chained(b),
         \A i \in DOMAIN a, j \in DOMAIN b : a[i].epoch # b[j].epoch
  PROVE  Chained(a \o b)
<1> DEFINE d == a \o b
           n == Len(a)
<1>1. /\ n \in Nat /\ Len(b) \in Nat /\ DOMAIN a = 1 .. n /\ DOMAIN b = 1 .. Len(b)
      /\ DOMAIN d = 1 .. n + Len(b)
  OBVIOUS
<1>2. \A i \in 1 .. n : d[i] = a[i]
  BY <1>1
<1>3. \A i \in 1 .. Len(b) : d[n + i] = b[i]
  BY <1>1
<1> HIDE DEF d, n
<1> SUFFICES ASSUME NEW i \in DOMAIN d, NEW j \in DOMAIN d, i < j,
                    d[i].entity = d[j].entity, d[i].epoch = d[j].epoch,
                    \A k \in i + 1 .. j - 1 : d[k].entity # d[i].entity
             PROVE  d[j].before = d[i].after
  BY DEF Chained, d
<1>4. CASE j <= n
  <2>1. i \in DOMAIN a /\ j \in DOMAIN a /\ d[i] = a[i] /\ d[j] = a[j]
    BY <1>1, <1>2, <1>4
  <2>2. \A k \in i + 1 .. j - 1 : a[k].entity # a[i].entity
    <3> TAKE k \in i + 1 .. j - 1
    <3>1. k \in 1 .. n
      BY <1>1, <1>4
    <3> QED
      BY <1>2, <2>1, <3>1
  <2> QED
    BY <2>1, <2>2 DEF Chained
<1>5. CASE i > n
  <2> DEFINE p == i - n
             q == j - n
  <2>0. i \in Nat /\ j \in Nat /\ i <= n + Len(b) /\ j <= n + Len(b) /\ j > n
    BY <1>1, <1>5
  <2>1. /\ p \in DOMAIN b /\ q \in DOMAIN b /\ p < q /\ n + p = i /\ n + q = j
    BY <1>1, <1>5, <2>0
  <2>2. d[i] = b[p] /\ d[j] = b[q]
    BY <1>1, <1>3, <2>1
  <2>3. \A k \in p + 1 .. q - 1 : b[k].entity # b[p].entity
    <3> TAKE k \in p + 1 .. q - 1
    <3>1. k \in 1 .. Len(b) /\ n + k \in i + 1 .. j - 1
      <4>1. i \in Nat /\ j \in Nat /\ n \in Nat /\ k \in Int
        BY <1>1
      <4>2. p + 1 <= k /\ k <= q - 1
        OBVIOUS
      <4> QED
        BY <1>1, <2>1, <4>1, <4>2
    <3>2. d[n + k] = b[k]
      BY <1>3, <3>1
    <3> QED
      BY <2>2, <3>1, <3>2
  <2> HIDE DEF p, q
  <2> QED
    BY <2>1, <2>2, <2>3 DEF Chained
<1>6. CASE i <= n /\ j > n
  <2>1. i \in DOMAIN a /\ d[i] = a[i]
    BY <1>1, <1>2, <1>6
  <2>2. j - n \in DOMAIN b /\ n + (j - n) = j
    BY <1>1, <1>6
  <2>3. d[j] = b[j - n]
    BY <1>1, <1>3, <2>2
  <2> QED
    BY <2>1, <2>2, <2>3
<1>7. i \in Int /\ j \in Int /\ n \in Int
  BY <1>1
<1> QED
  BY <1>4, <1>5, <1>6, <1>7

\* A chain grows by a maneuver that continues the last one of its object.
LEMMA ChainAppended ==
  ASSUME NEW S, NEW done \in Seq(S), NEW r \in S, Chained(done),
         \A i \in DOMAIN done :
           /\ done[i].entity = r.entity
           /\ \A k \in i + 1 .. Len(done) : done[k].entity # r.entity
           => done[i].after = r.before
  PROVE  Chained(Append(done, r))
<1> DEFINE d == Append(done, r)
           n == Len(done)
<1>1. n \in Nat /\ DOMAIN done = 1 .. n /\ DOMAIN d = 1 .. n + 1
  OBVIOUS
<1>2. (\A i \in 1 .. n : d[i] = done[i]) /\ d[n + 1] = r
  OBVIOUS
<1> HIDE DEF d
<1> SUFFICES ASSUME NEW i \in DOMAIN d, NEW j \in DOMAIN d, i < j,
                    d[i].entity = d[j].entity, d[i].epoch = d[j].epoch,
                    \A k \in i + 1 .. j - 1 : d[k].entity # d[i].entity
             PROVE  d[j].before = d[i].after
  BY DEF Chained, d
<1>3. i \in DOMAIN done /\ d[i] = done[i]
  BY <1>1, <1>2
<1>4. \A k \in i + 1 .. j - 1 : k \in 1 .. n /\ done[k].entity # done[i].entity
  <2> TAKE k \in i + 1 .. j - 1
  <2>1. k \in 1 .. n
    BY <1>1
  <2> QED
    BY <1>2, <1>3, <2>1
<1>5. CASE j <= n
  <2>1. j \in DOMAIN done /\ d[j] = done[j]
    BY <1>1, <1>2, <1>5
  <2> QED
    BY <1>3, <1>4, <2>1 DEF Chained
<1>6. CASE j = n + 1
  <2>1. d[j] = r /\ j - 1 = n
    BY <1>1, <1>2, <1>6
  <2> QED
    BY <1>1, <1>3, <1>4, <2>1
<1> QED
  BY <1>1, <1>5, <1>6

\* What the check of the runner says of the maneuver it is applied to.
LEMMA ContinuesLast ==
  ASSUME NEW entity, NEW before, executed \in Seq(ManeuverRecord),
         Continues(entity, before),
         NEW i \in DOMAIN executed, executed[i].entity = entity,
         \A k \in i + 1 .. Len(executed) : executed[k].entity # entity
  PROVE  executed[i].after = before
<1> DEFINE earlier == {k \in DOMAIN executed : executed[k].entity = entity}
<1>1. i \in earlier /\ earlier \subseteq Nat
  OBVIOUS
<1>2. \A k \in earlier : i >= k
  OBVIOUS
<1>3. \A x \in earlier : (\A y \in earlier : x >= y) => x = i
  BY <1>1, <1>2
<1>4. executed[Max(earlier)].after = before
  BY <1>1 DEF Continues
<1> HIDE DEF earlier
<1>5. Max(earlier) = i
  BY <1>1, <1>2, <1>3 DEF Max
<1> QED
  BY <1>4, <1>5

-------------------------------------------------------------------------------
\* One group more.
LEMMA WholeMore ==
  ASSUME NEW groups \in Seq(ScheduledGroups), NEW k \in Nat, k < Len(groups),
         NEW before \in [Channels -> Seq(OutputRecord)],
         NEW rest \in [Channels -> Seq(OutputRecord)],
         Whole(groups, k, before),
         Follows(groups[k + 1], rest["truth_maneuvers"]),
         Len(rest["truth_maneuvers"]) = Len(groups[k + 1].maneuvers),
         \A c \in Products : rest[c] = GroupOutput(groups, k + 1, c)
  PROVE  Whole(groups, k + 1, Joined(before, rest))
<1> DEFINE g == groups[k + 1]
           M == "truth_maneuvers"
<1>1. M \in Channels /\ Channels = Products \cup {M}
  BY DEF Channels, Products
<1>2. k + 1 \in 1 .. Len(groups) /\ k + 1 \in DOMAIN groups
  OBVIOUS
<1>3. g.maneuvers \in Seq(Maneuvers)
  BY <1>2, GroupTyped
<1>4. Identified(M, rest[M]) = GroupOutput(groups, k + 1, M)
  <2>1. DOMAIN rest[M] = 1 .. Len(rest[M]) /\ DOMAIN g.maneuvers = 1 .. Len(g.maneuvers)
    BY <1>1, <1>3
  <2>2. DOMAIN rest[M] = DOMAIN g.maneuvers
    BY <2>1
  <2> DEFINE had(i)    == [event |-> rest[M][i].event, entity |-> rest[M][i].entity,
                           epoch |-> rest[M][i].epoch]
             wanted(i) == [event |-> g.maneuvers[i].event, entity |-> g.maneuvers[i].entity,
                           epoch |-> g.epoch]
  <2>3. Identified(M, rest[M]) = [i \in DOMAIN rest[M] |-> had(i)]
    BY DEF Identified
  <2>4. GroupOutput(groups, k + 1, M) = [i \in DOMAIN g.maneuvers |-> wanted(i)]
    BY DEF GroupOutput
  <2>5. \A i \in DOMAIN rest[M] : had(i) = wanted(i)
    BY DEF Follows
  <2> HIDE DEF M, g, had, wanted
  <2> QED
    BY <2>2, <2>3, <2>4, <2>5
<1>5. ASSUME NEW c \in Channels
      PROVE  Identified(c, rest[c]) = GroupOutput(groups, k + 1, c)
  <2>1. CASE c = M
    BY <1>4, <2>1
  <2>2. CASE c \in Products
    BY <2>2 DEF Identified, Products
  <2> QED
    BY <1>1, <2>1, <2>2
<1>6. ASSUME NEW c \in Channels
      PROVE  Identified(c, Joined(before, rest)[c]) = Expected(groups, k + 1, c)
  <2>1. Joined(before, rest)[c] = before[c] \o rest[c]
    BY DEF Joined
  <2>2. before[c] \in Seq(OutputRecord) /\ rest[c] \in Seq(OutputRecord)
    OBVIOUS
  <2>3. Identified(c, before[c] \o rest[c]) = Identified(c, before[c]) \o Identified(c, rest[c])
    BY <2>2, IdentifiedJoined
  <2>4. Identified(c, before[c]) = Expected(groups, k, c)
    BY DEF Whole
  <2>5. Expected(groups, k + 1, c) = Expected(groups, k, c) \o GroupOutput(groups, k + 1, c)
    BY ExpectedStep
  <2> QED
    BY <1>5, <2>1, <2>3, <2>4, <2>5
<1> DEFINE a == before[M]
           b == rest[M]
<1>7. a \in Seq(OutputRecord) /\ b \in Seq(OutputRecord) /\ Joined(before, rest)[M] = a \o b
  BY <1>1 DEF Joined
<1>8. \A i \in DOMAIN a : \E h \in 1 .. k : a[i].epoch = groups[h].epoch
  BY DEF Whole
<1>9. \A i \in DOMAIN b : b[i].epoch = groups[k + 1].epoch
  BY DEF Follows
<1>10. Timely(groups) => Chained(a)
  BY DEF Whole
<1>11. Chained(b)
  BY DEF Follows
<1> HIDE DEF a, b, M, g
<1>12. \A i \in DOMAIN (a \o b) : \E h \in 1 .. k + 1 : (a \o b)[i].epoch = groups[h].epoch
  <2> TAKE i \in DOMAIN (a \o b)
  <2>1. CASE i \in DOMAIN a
    <3>1. (a \o b)[i] = a[i]
      BY <1>7, <2>1
    <3>2. PICK h \in 1 .. k : a[i].epoch = groups[h].epoch
      BY <1>8, <2>1
    <3>3. h \in 1 .. k + 1
      OBVIOUS
    <3> QED
      BY <3>1, <3>2, <3>3
  <2>2. CASE i \notin DOMAIN a
    <3>1. i - Len(a) \in DOMAIN b /\ (a \o b)[i] = b[i - Len(a)]
      BY <1>7, <2>2
    <3>2. k + 1 \in 1 .. k + 1
      OBVIOUS
    <3> QED
      BY <1>9, <3>1, <3>2
  <2> QED
    BY <2>1, <2>2
<1>13. Timely(groups) => Chained(a \o b)
  <2> SUFFICES ASSUME Timely(groups)
               PROVE  Chained(a \o b)
    OBVIOUS
  <2>1. ASSUME NEW i \in DOMAIN a, NEW j \in DOMAIN b
        PROVE  a[i].epoch # b[j].epoch
    <3>1. PICK h \in 1 .. k : a[i].epoch = groups[h].epoch
      BY <1>8
    <3>2. h \in DOMAIN groups /\ h < k + 1 /\ h \in 1 .. Len(groups)
      OBVIOUS
    <3>3. groups[h].epoch < groups[k + 1].epoch
      BY <1>2, <3>2 DEF Timely
    <3>4. groups[h].epoch \in Nat /\ groups[k + 1].epoch \in Nat
      BY <1>2, <3>2, GroupTyped, RunnerAssumption
    <3> QED
      BY <1>9, <3>1, <3>3, <3>4
  <2> QED
    BY <1>7, <1>10, <1>11, <2>1, ChainJoined
<1> QED
  BY <1>6, <1>7, <1>12, <1>13 DEF Whole, M

-------------------------------------------------------------------------------
\* Steps that neither produce nor write a record.

\* Everything the output and its execution consist of.
workVars == <<input, group, applied, executed, pending, buffer, stored, count>>

Passive ==
  \/ Enter \/ CreateRuntime \/ InitializeRuntime \/ CheckInitialized
  \/ FinishGroup \/ CheckScheduleEnd \/ FlushCheck \/ CheckFlushed
  \/ CheckFinalEpoch \/ CloseRuntime \/ LastCheck \/ CommitSink
  \/ ReturnCompleted \/ CleanRuntime \/ Interrupt \/ Cancel \/ UNCHANGED vars

\* Where such a step may lead.
LEMMA PassiveMoves ==
  ASSUME ControlTypeOK, Passive
  PROVE  /\ UNCHANGED workVars
         /\ pc' \in BeforeSink => pc \in BeforeSink
         /\ pc' \in GroupSteps => pc' = pc
         /\ pc' \in BetweenGroups => pc \in BetweenGroups \/ (pc = "accept" /\ pending = <<>>)
         /\ pc' \in AfterGroups => pc \in AfterGroups
         /\ pc' = "entry" => pc = "entry"
<1> USE DEF workVars, tokenVars, runtimeVars, closeVars, sinkVars, groupVars,
            bufferVars, BeforeSink, GroupSteps, BetweenGroups, AfterGroups,
            ControlTypeOK, PCs
<1>1. CASE Enter \/ CreateRuntime \/ InitializeRuntime \/ CheckInitialized
  BY <1>1 DEF Enter, CreateRuntime, InitializeRuntime, CheckInitialized, Proceed,
     Fail, CancelAt, Return
<1>2. CASE FinishGroup \/ CheckScheduleEnd \/ FlushCheck \/ CheckFlushed \/ LastCheck
  BY <1>2 DEF FinishGroup, CheckScheduleEnd, FlushCheck, CheckFlushed, LastCheck,
     Proceed, Fail, CancelAt, CancelHere
<1>3. CASE CheckFinalEpoch
  BY <1>3 DEF CheckFinalEpoch, Fail
<1>4. CASE CloseRuntime
  BY <1>4 DEF CloseRuntime, Proceed, Fail
<1>5. CASE CommitSink
  BY <1>5 DEF CommitSink, SinkCommit, Refused, Proceed, Fail
<1>6. CASE ReturnCompleted \/ Interrupt
  BY <1>6 DEF ReturnCompleted, Interrupt, Return
<1>7. CASE CleanRuntime
  BY <1>7 DEF CleanRuntime
<1>8. CASE Cancel \/ UNCHANGED vars
  BY <1>8 DEF Cancel, vars
<1> QED
  BY <1>1, <1>2, <1>3, <1>4, <1>5, <1>6, <1>7, <1>8 DEF Passive

\* Records with their channel.
LEMMA TaggedTyped ==
  ASSUME NEW S, NEW r \in Seq(S), NEW c \in Channels
  PROVE  /\ Tagged(c, r) \in Seq([channel : Channels, record : S])
         /\ Len(Tagged(c, r)) = Len(r)
         /\ \A i \in 1 .. Len(r) : Tagged(c, r)[i] = [channel |-> c, record |-> r[i]]
<1>1. DOMAIN r = 1 .. Len(r) /\ Len(r) \in Nat /\ \A i \in 1 .. Len(r) : r[i] \in S
  OBVIOUS
<1>2. Tagged(c, r) = [i \in 1 .. Len(r) |-> [channel |-> c, record |-> r[i]]]
  BY <1>1 DEF Tagged
<1>3. \A i \in 1 .. Len(r) : [channel |-> c, record |-> r[i]] \in [channel : Channels, record : S]
  BY <1>1
<1> QED
  BY <1>1, <1>2, <1>3

LEMMA ThreeEmpty ==
  ASSUME NEW S, NEW a \in Seq(S), NEW b \in Seq(S), NEW c \in Seq(S), a \o b \o c = <<>>
  PROVE  a = <<>> /\ b = <<>> /\ c = <<>>
<1>1. Len(a \o b \o c) = Len(a) + Len(b) + Len(c)
  OBVIOUS
<1>2. Len(a) = 0 /\ Len(b) = 0 /\ Len(c) = 0
  BY <1>1
<1> QED
  BY <1>2

\* A group whose records are all accepted makes no difference any more.
LEMMA NothingMore ==
  ASSUME RunnerTypeOK, NEW rest \in [Channels -> Seq(OutputRecord)], Awaits(rest),
         pending = <<>>
  PROVE  Joined(Written, rest) = Written
<1> DEFINE t(c) == Tagged(c, rest[c])
           R == [channel : Channels, record : OutputRecord]
<1>1. "truth_maneuvers" \in Channels /\ "truth_states" \in Channels
      /\ "attitude_states" \in Channels
      /\ \A c \in Channels : c \in {"truth_maneuvers", "truth_states", "attitude_states"}
  BY DEF Channels
<1>2. \A c \in Channels : rest[c] \in Seq(OutputRecord)
  OBVIOUS
<1>3. \A c \in Channels : t(c) \in Seq(R) /\ Len(t(c)) = Len(rest[c])
  BY <1>2, TaggedTyped
<1> HIDE DEF t, R
<1>4. <<>> = t("truth_maneuvers") \o t("truth_states") \o t("attitude_states")
  BY DEF Awaits, t
<1>5. PICK x \in Seq(R), y \in Seq(R), z \in Seq(R) :
        x = t("truth_maneuvers") /\ y = t("truth_states") /\ z = t("attitude_states")
  BY <1>1, <1>3
<1>6. x = <<>> /\ y = <<>> /\ z = <<>>
  BY <1>4, <1>5, ThreeEmpty
<1>7. \A c \in Channels : Len(rest[c]) = 0
  BY <1>1, <1>3, <1>5, <1>6
<1>8. \A c \in Channels : rest[c] = <<>>
  BY <1>2, <1>7
<1>9. ASSUME NEW c \in Channels
      PROVE  Written[c] \o rest[c] = stored[c] \o buffer[c]
  <2>1. stored[c] \o buffer[c] \in Seq(OutputRecord)
    BY DEF RunnerTypeOK, SinkTypeOK, BufferTypeOK
  <2>2. Written[c] = stored[c] \o buffer[c]
    BY DEF Written
  <2> QED
    BY <1>8, <2>1, <2>2, ConcatEmptySeq
<1> QED
  BY <1>9 DEF Joined, Written

\* A drained runner has everything in the sink.
LEMMA AllStored ==
  ASSUME RunnerTypeOK, \A c \in Channels : Open(c) = 0
  PROVE  Written = stored
<1> USE DEF RunnerTypeOK, SinkTypeOK, BufferTypeOK
<1>1. \A c \in Channels : buffer[c] = <<>>
  BY DEF Open
<1>2. \A c \in Channels : stored[c] \o buffer[c] = stored[c]
  BY <1>1
<1> QED
  BY <1>2 DEF Written

\* Such a step keeps what the position says of the output.
LEMMA PassiveKeepsOutput ==
  ASSUME RunnerTypeOK, SafetyInv, OutputInv, Passive
  PROVE  OutputInv'
<1> USE DEF RunnerTypeOK
<1>1. /\ UNCHANGED workVars
      /\ pc' \in BeforeSink => pc \in BeforeSink
      /\ pc' \in GroupSteps => pc' = pc
      /\ pc' \in BetweenGroups => pc \in BetweenGroups \/ (pc = "accept" /\ pending = <<>>)
      /\ pc' \in AfterGroups => pc \in AfterGroups
  BY PassiveMoves
<1>2. Groups' = Groups /\ Written' = Written /\ group' = group /\ stored' = stored
  BY <1>1 DEF workVars, Groups, Written
<1>3. \A rest : Awaits(rest)' = Awaits(rest)
  BY <1>1 DEF workVars, Awaits
<1>4. pc' \in BeforeSink => group' = 0
  BY <1>1, <1>2 DEF OutputInv
<1>5. pc' \in BetweenGroups => Whole(Groups, group, Written)'
  <2>1. CASE pc \in BetweenGroups
    BY <1>2, <2>1 DEF OutputInv
  <2>2. CASE pc = "accept" /\ pending = <<>>
    <3>1. PICK rest \in [Channels -> Seq(OutputRecord)] :
            Awaits(rest) /\ Whole(Groups, group, Joined(Written, rest))
      BY <2>2 DEF OutputInv
    <3>2. Joined(Written, rest) = Written
      BY <2>2, <3>1, NothingMore
    <3> QED
      BY <1>2, <3>1, <3>2
  <2> QED
    BY <1>1, <2>1, <2>2
<1>6. pc' \in {"propagate", "maneuver"} => Whole(Groups, group - 1, Written)'
  BY <1>1, <1>2 DEF OutputInv, GroupSteps
<1>7. pc' = "accept" => \E rest \in [Channels -> Seq(OutputRecord)] :
                          (Awaits(rest) /\ Whole(Groups, group, Joined(Written, rest)))'
  <2> SUFFICES ASSUME pc' = "accept"
               PROVE  \E rest \in [Channels -> Seq(OutputRecord)] :
                        (Awaits(rest) /\ Whole(Groups, group, Joined(Written, rest)))'
    OBVIOUS
  <2>1. pc = "accept"
    BY <1>1 DEF GroupSteps
  <2>2. PICK rest \in [Channels -> Seq(OutputRecord)] :
          Awaits(rest) /\ Whole(Groups, group, Joined(Written, rest))
    BY <2>1 DEF OutputInv
  <2>3. Awaits(rest)' /\ Whole(Groups, group, Joined(Written, rest))'
    BY <1>2, <1>3, <2>2
  <2> QED
    BY <2>3
<1>8. pc' \in AfterGroups => group' = Len(Groups)'
  BY <1>1, <1>2 DEF OutputInv
<1>9. Published' => Whole(Groups, Len(Groups), stored)'
  <2>1. CASE Published
    BY <1>2, <2>1 DEF OutputInv
  <2>2. CASE CommitSink
    <3>1. pc = "commit"
      BY <2>2 DEF CommitSink
    <3>2. group = Len(Groups) /\ Whole(Groups, group, Written)
      BY <3>1 DEF OutputInv, BetweenGroups, AfterGroups
    <3>3. Written = stored
      BY <3>1, AllStored DEF SafetyInv, DrainInv, Drained
    <3> QED
      BY <1>2, <3>2, <3>3
  <2>3. CASE ~ CommitSink
    <3>1. UNCHANGED <<status, sinkBegun>>
      BY <2>3 DEF Passive, Enter, CreateRuntime, InitializeRuntime, CheckInitialized,
         FinishGroup, CheckScheduleEnd, FlushCheck, CheckFlushed, CheckFinalEpoch,
         CloseRuntime, LastCheck, ReturnCompleted, CleanRuntime, Interrupt, Cancel,
         vars, sinkVars
    <3> QED
      BY <2>1, <3>1 DEF Published
  <2> QED
    BY <2>2, <2>3
<1> QED
  BY <1>4, <1>5, <1>6, <1>7, <1>8, <1>9 DEF OutputInv

LEMMA PassiveKeepsExecution ==
  ASSUME RunnerTypeOK, SafetyInv, ExecutionInv, EpochInv, Passive
  PROVE  ExecutionInv' /\ EpochInv'
<1> USE DEF RunnerTypeOK
<1>1. /\ UNCHANGED workVars
      /\ pc' \in BeforeSink => pc \in BeforeSink
      /\ pc' \in GroupSteps => pc' = pc
      /\ pc' \in BetweenGroups => pc \in BetweenGroups \/ (pc = "accept" /\ pending = <<>>)
      /\ pc' = "entry" => pc = "entry"
  BY PassiveMoves
<1>2. Groups' = Groups /\ Group' = Group /\ group' = group /\ applied' = applied
      /\ executed' = executed
  BY <1>1 DEF workVars, Groups, Group
<1>3. ExecutionInv'
  BY <1>1, <1>2 DEF ExecutionInv, GroupSteps
<1>4. CASE InitializeRuntime
  <2>1. pc = "initialize" /\ pc' \in {"initCheck", "failClose"}
    BY <1>4 DEF InitializeRuntime, Proceed, Fail
  <2>2. ~ May("drift") /\ pc = "initialize" => epoch = SyncEpoch
    BY DEF EpochInv, BeforeSink
  <2>3. ~ May("drift") => epoch' = SyncEpoch
    BY <1>4, <2>1, <2>2 DEF InitializeRuntime, Moved
  <2>4. EpochInv'
    BY <2>1, <2>3 DEF EpochInv, AtTheEnd, BeforeSink, BetweenGroups, AfterGroups
  <2> QED
    BY <1>3, <2>4
<1>5. CASE ~ InitializeRuntime
  <2> USE DEF tokenVars, runtimeVars, endVars, AtTheEnd
  <2>1. epoch' = epoch
    BY <1>5 DEF Passive, Enter, CreateRuntime, CheckInitialized, FinishGroup,
       CheckScheduleEnd, FlushCheck, CheckFlushed, CheckFinalEpoch, CloseRuntime,
       LastCheck, CommitSink, ReturnCompleted, CleanRuntime, Interrupt, Cancel, vars
  <2>2. pc' \in AtTheEnd => \/ pc \in AtTheEnd /\ finalEpoch' = finalEpoch
                            \/ finalEpoch' = epoch
    <3>1. CASE CheckFinalEpoch
      BY <3>1 DEF CheckFinalEpoch, Fail
    <3>2. CASE CloseRuntime \/ LastCheck \/ CommitSink \/ ReturnCompleted
      BY <3>2 DEF CloseRuntime, LastCheck, CommitSink, ReturnCompleted, Proceed,
         Fail, CancelAt, Return
    <3>3. CASE Cancel \/ UNCHANGED vars
      BY <3>3 DEF Cancel, vars
    <3>4. CASE Enter \/ CreateRuntime \/ CheckInitialized
      BY <3>4 DEF Enter, CreateRuntime, CheckInitialized, Proceed, Fail, CancelAt, Return
    <3>5. CASE FinishGroup \/ CheckScheduleEnd \/ FlushCheck \/ CheckFlushed
      BY <3>5 DEF FinishGroup, CheckScheduleEnd, FlushCheck, CheckFlushed, Proceed,
         Fail, CancelAt, CancelHere
    <3>6. CASE CleanRuntime \/ Interrupt
      BY <3>6 DEF CleanRuntime, Interrupt
    <3> QED
      BY <1>5, <3>1, <3>2, <3>3, <3>4, <3>5, <3>6 DEF Passive
  <2>3. pc' = "entry" => finalEpoch' = finalEpoch
    <3> SUFFICES ASSUME pc' = "entry"
                 PROVE  finalEpoch' = finalEpoch
      OBVIOUS
    <3>1. pc = "entry"
      BY <1>1
    <3>2. Enter \/ Interrupt \/ Cancel \/ UNCHANGED vars
      BY <1>5, <3>1 DEF Passive, CreateRuntime, CheckInitialized, FinishGroup,
         CheckScheduleEnd, FlushCheck, CheckFlushed, CheckFinalEpoch, CloseRuntime,
         LastCheck, CommitSink, ReturnCompleted, CleanRuntime
    <3> QED
      BY <3>2 DEF Enter, Proceed, Return, Interrupt, Cancel, vars
  <2>4. EpochInv'
    BY <1>1, <1>2, <2>1, <2>2, <2>3 DEF EpochInv, GroupSteps
  <2> QED
    BY <1>3, <2>4
<1> QED
  BY <1>4, <1>5

-------------------------------------------------------------------------------
\* Steps that take a group from the schedule and execute it.

WorkInv == OutputInv /\ ExecutionInv /\ EpochInv

\* Once the run is being abandoned, nothing is claimed of its output.
LEMMA Abandoned ==
  ASSUME SinkInv', pc' \in {"failClose", "cancelClose"}
  PROVE  WorkInv'
<1>1. ~ Published'
  BY DEF SinkInv
<1> QED
  BY <1>1 DEF WorkInv, OutputInv, ExecutionInv, EpochInv, BeforeSink, BetweenGroups,
     AfterGroups, AtTheEnd

\* The sink is begun before the first group, with nothing in it.
LEMMA BeginKeepsWork ==
  ASSUME RunnerTypeOK, SafetyInv, SafetyInv', WorkInv, BeginSink
  PROVE  WorkInv'
<1> USE DEF RunnerTypeOK
<1>1. SinkInv' /\ ~ sinkBegun /\ pc = "begin"
  BY DEF SafetyInv, SinkInv, BeginSink, BeforeSink
<1>2. CASE pc' # "next"
  <2>1. pc' = "failClose"
    BY <1>2 DEF BeginSink, Proceed, Fail
  <2> QED
    BY <1>1, <2>1, Abandoned
<1>3. CASE pc' = "next"
  <2>1. UNCHANGED <<input, group, applied, buffer, stored, epoch>>
    BY <1>3 DEF BeginSink, Fail, SinkBegin, Refused, sinkVars, groupVars, bufferVars, runtimeVars
  <2>2. \A c \in Channels : Kept(c) = 0 /\ Open(c) = 0
    BY <1>1 DEF SafetyInv, AccountInv
  <2>3. \A c \in Channels : stored[c] = <<>> /\ buffer[c] = <<>>
    BY <2>2 DEF Kept, Open, SinkTypeOK, BufferTypeOK
  <2>4. Written' = [c \in Channels |-> <<>>]
    BY <2>1, <2>3 DEF Written
  <2>5. Groups' = Groups /\ group' = 0 /\ applied' = 0
    BY <1>1, <2>1 DEF Groups, WorkInv, OutputInv, ExecutionInv, BeforeSink
  <2>6. Whole(Groups, group, Written)'
    <3>1. \A c \in Channels : Identified(c, <<>>) = <<>>
      BY DEF Identified
    <3>2. \A c \in Channels : Expected(Groups', 0, c) = <<>>
      BY NothingYet
    <3>3. Chained(<<>>)
      BY DEF Chained
    <3>4. "truth_maneuvers" \in Channels /\ DOMAIN <<>> = {}
      BY DEF Channels
    <3>5. /\ \A c \in Channels : Written'[c] = <<>>
          /\ Written'["truth_maneuvers"] = <<>>
      BY <2>4, <3>4
    <3> QED
      BY <2>5, <3>1, <3>2, <3>3, <3>4, <3>5 DEF Whole
  <2>7. ~ Published'
    BY <1>1, <1>3 DEF SinkInv
  <2>8. OutputInv'
    BY <1>3, <2>6, <2>7 DEF OutputInv, BeforeSink, BetweenGroups, AfterGroups
  <2>9. Len(ManeuversThrough(Groups', 0)) = 0
    BY NothingYet
  <2>10. ExecutionInv'
    BY <1>3, <2>5, <2>9 DEF ExecutionInv, BeforeSink, BetweenGroups
  <2>11. EpochInv'
    BY <1>1, <1>3, <2>1, <2>5 DEF WorkInv, EpochInv, EpochAfter, BeforeSink,
       BetweenGroups, AfterGroups, AtTheEnd
  <2> QED
    BY <2>8, <2>10, <2>11 DEF WorkInv
<1> QED
  BY <1>2, <1>3

LEMMA NextGroupKeepsWork ==
  ASSUME RunnerTypeOK, SafetyInv, SafetyInv', WorkInv, NextGroup
  PROVE  WorkInv'
<1> USE DEF RunnerTypeOK
<1>1. SinkInv' /\ pc = "next"
  BY DEF SafetyInv, NextGroup
<1>2. UNCHANGED <<input, applied, executed, buffer, stored, epoch>>
  BY DEF NextGroup, bufferVars, sinkVars, runtimeVars
<1>3. Groups' = Groups /\ Written' = Written
  BY <1>2 DEF Groups, Written
<1>4. Whole(Groups, group, Written) /\ applied = Len(ManeuversThrough(Groups, group))
      /\ (~ May("drift") => epoch = EpochAfter(Groups, group))
  BY <1>1 DEF WorkInv, OutputInv, ExecutionInv, EpochInv, BetweenGroups
<1>5. CASE pc' \in {"failClose", "cancelClose"}
  BY <1>1, <1>5, Abandoned
<1>6. CASE pc' \notin {"failClose", "cancelClose"}
  <2>1. \/ pc' = "endCheck" /\ group' = group /\ group = Len(Groups)
        \/ pc' = "propagate" /\ group' = group + 1
    BY <1>6 DEF NextGroup, Proceed, Fail, CancelHere, CancelAt
  <2>2. ~ Published'
    BY <1>1, <2>1 DEF SinkInv
  <2>3. CASE pc' = "endCheck"
    BY <1>2, <1>3, <1>4, <2>1, <2>2, <2>3 DEF WorkInv, OutputInv, ExecutionInv, EpochInv,
       BeforeSink, BetweenGroups, AfterGroups, AtTheEnd
  <2>4. CASE pc' = "propagate"
    <3>1. group' - 1 = group
      <4>1. group \in Nat
        BY DEF GroupTypeOK
      <4> QED
        BY <2>1, <2>4, <4>1
    <3> QED
      BY <1>2, <1>3, <1>4, <2>2, <2>4, <3>1 DEF WorkInv, OutputInv, ExecutionInv, EpochInv,
       BeforeSink, BetweenGroups, AfterGroups, AtTheEnd
  <2> QED
    BY <2>1, <2>3, <2>4
<1> QED
  BY <1>5, <1>6

LEMMA PropagateKeepsWork ==
  ASSUME RunnerTypeOK, SafetyInv, SafetyInv', WorkInv, Propagate
  PROVE  WorkInv'
<1> USE DEF RunnerTypeOK
<1>1. SinkInv' /\ pc = "propagate"
  BY DEF SafetyInv, Propagate
<1>2. UNCHANGED <<input, group, applied, buffer, stored>>
  BY DEF Propagate, bufferVars, sinkVars
<1>3. Groups' = Groups /\ Group' = Group /\ Written' = Written
  BY <1>2 DEF Groups, Group, Written
<1>4. Whole(Groups, group - 1, Written) /\ applied = Len(ManeuversThrough(Groups, group - 1))
  BY <1>1 DEF WorkInv, OutputInv, ExecutionInv
<1>5. CASE pc' \in {"failClose", "cancelClose"}
  BY <1>1, <1>5, Abandoned
<1>6. CASE pc' \notin {"failClose", "cancelClose"}
  <2>1. pc' = "maneuver" /\ executed' = <<>> /\ epoch' = Group.epoch
    BY <1>6 DEF Propagate, Proceed, Fail, CancelAt
  <2>2. ~ Published'
    BY <1>1, <2>1 DEF SinkInv
  <2>3. Follows(Group, <<>>)
    <3>1. Len(Group.maneuvers) \in Nat
      BY <1>1, CurrentGroupTyped
    <3> QED
      BY <3>1 DEF Follows, Chained
  <2>4. applied = Len(ManeuversThrough(Groups, group - 1)) + 0
    <3>1. applied \in Nat
      BY DEF ResourceTypeOK
    <3> QED
      BY <1>4, <3>1
  <2>5. OutputInv'
    BY <1>2, <1>3, <1>4, <2>1, <2>2 DEF OutputInv, BeforeSink, BetweenGroups, AfterGroups
  <2>6. Len(<<>>) = 0
    OBVIOUS
  <2>7. ExecutionInv'
    BY <1>2, <1>3, <2>1, <2>3, <2>4, <2>6 DEF ExecutionInv, BeforeSink, BetweenGroups, AfterGroups
  <2>8. group > 0
    BY <1>1 DEF GroupTypeOK
  <2>9. EpochAfter(Groups, group) = Group.epoch
    BY <2>8 DEF EpochAfter, Group
  <2>10. EpochInv'
    BY <1>2, <1>3, <2>1, <2>9 DEF EpochInv, BeforeSink, BetweenGroups, AfterGroups, AtTheEnd
  <2> QED
    BY <2>5, <2>7, <2>10 DEF WorkInv
<1> QED
  BY <1>5, <1>6

\* One maneuver more of the group.
LEMMA FollowsMore ==
  ASSUME RunnerTypeOK, pc = "maneuver", Follows(Group, executed),
         Len(executed) < Len(Group.maneuvers),
         NEW before \in States, NEW after \in States,
         Continues(Group.maneuvers[Len(executed) + 1].entity, before)
  PROVE  LET entry == Group.maneuvers[Len(executed) + 1] IN
         Follows(Group, Append(executed,
                   [event |-> entry.event, entity |-> entry.entity,
                    epoch |-> Group.epoch, before |-> before, after |-> after]))
<1> USE DEF RunnerTypeOK, GroupTypeOK
<1> DEFINE n == Len(executed)
           entry == Group.maneuvers[n + 1]
           r == [event |-> entry.event, entity |-> entry.entity,
                 epoch |-> Group.epoch, before |-> before, after |-> after]
           longer == Append(executed, r)
<1>1. Group.epoch \in Epochs /\ Group.maneuvers \in Seq(Maneuvers)
  BY CurrentGroupTyped
<1>2. executed \in Seq(ManeuverRecord) /\ n \in Nat /\ n + 1 \in 1 .. Len(Group.maneuvers)
  BY <1>1
<1>3. entry \in Maneuvers
  BY <1>1, <1>2
<1>4. r \in ManeuverRecord
  BY <1>1, <1>3 DEF Maneuvers, ManeuverRecord
<1>5. r.entity = entry.entity /\ r.event = entry.event /\ r.epoch = Group.epoch
      /\ r.before = before
  OBVIOUS
<1>6. Continues(r.entity, r.before)
  BY <1>5
<1> HIDE DEF r, entry
<1>7. \A i \in DOMAIN executed :
        /\ executed[i].entity = r.entity
        /\ \A k \in i + 1 .. Len(executed) : executed[k].entity # r.entity
        => executed[i].after = r.before
  BY <1>2, <1>6, ContinuesLast
<1>8. Chained(longer)
  BY <1>2, <1>4, <1>7, ChainAppended DEF Follows
<1>9. Len(longer) = n + 1 /\ DOMAIN longer = 1 .. n + 1 /\ longer[n + 1] = r
      /\ \A i \in 1 .. n : longer[i] = executed[i] /\ i \in DOMAIN executed
  BY <1>2
<1>10. Len(longer) <= Len(Group.maneuvers)
  BY <1>2, <1>9
<1> HIDE DEF longer
<1>11. ASSUME NEW i \in DOMAIN longer
       PROVE  /\ longer[i].event = Group.maneuvers[i].event
              /\ longer[i].entity = Group.maneuvers[i].entity
              /\ longer[i].epoch = Group.epoch
  <2>1. CASE i \in 1 .. n
    BY <1>9, <2>1 DEF Follows
  <2>2. CASE i = n + 1
    BY <1>5, <1>9, <2>2 DEF entry
  <2> QED
    BY <1>2, <1>9, <2>1, <2>2
<1>12. Follows(Group, longer)
  BY <1>8, <1>10, <1>11 DEF Follows
<1> QED
  BY <1>12 DEF longer, r, entry

LEMMA ManeuverKeepsWork ==
  ASSUME RunnerTypeOK, SafetyInv, SafetyInv', WorkInv, ExecuteManeuver
  PROVE  WorkInv'
<1> USE DEF RunnerTypeOK
<1>1. SinkInv' /\ pc = "maneuver"
  BY DEF SafetyInv, ExecuteManeuver
<1>2. UNCHANGED <<input, group, buffer, stored>>
  BY DEF ExecuteManeuver, bufferVars, sinkVars
<1>3. Groups' = Groups /\ Group' = Group /\ Written' = Written
  BY <1>2 DEF Groups, Group, Written
<1>4. /\ Whole(Groups, group - 1, Written)
      /\ Follows(Group, executed)
      /\ applied = Len(ManeuversThrough(Groups, group - 1)) + Len(executed)
  BY <1>1 DEF WorkInv, OutputInv, ExecutionInv
<1>5. CASE pc' = "failClose"
  BY <1>1, <1>5, Abandoned
<1>6. CASE pc' # "failClose"
  <2> DEFINE entry == Group.maneuvers[Len(executed) + 1]
             record(before, after) ==
               [event |-> entry.event, entity |-> entry.entity,
                epoch |-> Group.epoch, before |-> before, after |-> after]
  <2>1. PICK before \in States, after \in States :
          /\ pc' = "maneuver" /\ epoch' = Group.epoch /\ applied' = applied + 1
          /\ Continues(entry.entity, before) /\ Len(executed) < Len(Group.maneuvers)
          /\ executed' = Append(executed, record(before, after))
    BY <1>6 DEF ExecuteManeuver, Proceed, Fail
  <2>2. Follows(Group, Append(executed, record(before, after)))
    BY <1>1, <1>4, <2>1, FollowsMore
  <2> HIDE DEF entry, record
  <2>3. Follows(Group, executed)'
    BY <1>3, <2>1, <2>2
  <2>4. applied' = Len(ManeuversThrough(Groups, group - 1)) + Len(executed')
    <3>1. executed \in Seq(ManeuverRecord) /\ Len(executed) \in Nat
      BY DEF GroupTypeOK
    <3>2. Len(executed') = Len(executed) + 1
      BY <2>1, <3>1
    <3>3. Len(ManeuversThrough(Groups, group - 1)) \in Nat
      <4>1. group - 1 \in 0 .. Len(Groups) /\ Groups \in Seq(ScheduledGroups)
        BY <1>1, InputTyped DEF GroupTypeOK
      <4> QED
        BY <4>1, ManeuversTyped
    <3> QED
      BY <1>4, <2>1, <3>1, <3>2, <3>3
  <2>5. ~ Published'
    BY <1>1, <2>1 DEF SinkInv
  <2>6. OutputInv'
    BY <1>2, <1>3, <1>4, <2>1, <2>5 DEF OutputInv, BeforeSink, BetweenGroups, AfterGroups
  <2>7. ExecutionInv'
    BY <1>2, <1>3, <2>1, <2>3, <2>4 DEF ExecutionInv, BeforeSink, BetweenGroups, AfterGroups
  <2>8. EpochAfter(Groups, group) = Group.epoch
    BY <1>1 DEF EpochAfter, Group, GroupTypeOK
  <2>9. EpochInv'
    BY <1>2, <1>3, <2>1, <2>8 DEF EpochInv, BeforeSink, BetweenGroups, AfterGroups, AtTheEnd
  <2> QED
    BY <2>6, <2>7, <2>9 DEF WorkInv
<1> QED
  BY <1>5, <1>6

\* What the snapshots of the current group hold is what the schedule calls for.
LEMMA SnapshotExpected ==
  ASSUME RunnerTypeOK, pc = "maneuver", applied = Len(ManeuversThrough(Groups, group)),
         NEW c \in Products
  PROVE  /\ Snapshot(c) = Tagged(c, GroupOutput(Groups, group, c))
         /\ GroupOutput(Groups, group, c) \in Seq(OutputRecord)
<1> DEFINE record(i) == [entity |-> SpaceObjects[i], epoch |-> Group.epoch, applied |-> applied]
<1>1. c # "truth_maneuvers"
  BY DEF Products
<1>2. SpaceObjects \in Seq(STRING) /\ DOMAIN SpaceObjects = 1 .. Len(SpaceObjects)
      /\ Len(SpaceObjects) \in Nat
  BY RunnerAssumption
<1>3. Group.epoch \in Epochs /\ applied \in Nat
  BY CurrentGroupTyped DEF RunnerTypeOK, ResourceTypeOK
<1>4. \A i \in DOMAIN SpaceObjects : record(i) \in OutputRecord
  BY <1>3 DEF OutputRecord, SampleRecord, Entities
<1>5. CASE c \in Group.products
  <2>1. GroupOutput(Groups, group, c) = [i \in DOMAIN SpaceObjects |-> record(i)]
    BY <1>1, <1>5 DEF GroupOutput, Group
  <2>2. Snapshot(c) = [i \in DOMAIN SpaceObjects |-> [channel |-> c, record |-> record(i)]]
    BY <1>5 DEF Snapshot
  <2> HIDE DEF record
  <2> DEFINE s == [i \in DOMAIN SpaceObjects |-> record(i)]
  <2>3. Tagged(c, s) = [i \in DOMAIN SpaceObjects |-> [channel |-> c, record |-> record(i)]]
    BY DEF Tagged
  <2>4. s \in Seq(OutputRecord)
    BY <1>2, <1>4
  <2> QED
    BY <2>1, <2>2, <2>3, <2>4
<1>6. CASE c \notin Group.products
  <2>1. GroupOutput(Groups, group, c) = <<>> /\ Snapshot(c) = <<>>
    BY <1>1, <1>6 DEF GroupOutput, Snapshot, Group
  <2>2. Tagged(c, <<>>) = <<>>
    BY DEF Tagged
  <2> QED
    BY <2>1, <2>2
<1> QED
  BY <1>5, <1>6

LEMMA SamplesKeepWork ==
  ASSUME RunnerTypeOK, SafetyInv, SafetyInv', WorkInv, TakeSamples
  PROVE  WorkInv'
<1> USE DEF RunnerTypeOK
<1>1. SinkInv' /\ pc = "maneuver" /\ Len(executed) = Len(Group.maneuvers)
  BY DEF SafetyInv, TakeSamples
<1>2. UNCHANGED <<input, group, applied, executed, buffer, stored>>
  BY DEF TakeSamples, bufferVars, sinkVars
<1>3. Groups' = Groups /\ Group' = Group /\ Written' = Written
  BY <1>2 DEF Groups, Group, Written
<1>4. /\ Whole(Groups, group - 1, Written)
      /\ Follows(Group, executed)
      /\ applied = Len(ManeuversThrough(Groups, group - 1)) + Len(executed)
  BY <1>1 DEF WorkInv, OutputInv, ExecutionInv
<1>5. CASE pc' = "failClose"
  BY <1>1, <1>5, Abandoned
<1>6. CASE pc' # "failClose"
  <2> DEFINE k == group - 1
  <2>0. /\ Groups \in Seq(ScheduledGroups) /\ k \in Nat /\ k < Len(Groups)
        /\ k + 1 = group /\ group \in Nat /\ group > 0
    BY <1>1, InputTyped DEF GroupTypeOK
  <2>1. applied = Len(ManeuversThrough(Groups, group))
    <3>1. ManeuversThrough(Groups, k + 1) = ManeuversThrough(Groups, k) \o Groups[k + 1].maneuvers
      BY <2>0, ManeuversStep
    <3>2. ManeuversThrough(Groups, k) \in Seq(Maneuvers)
      <4>1. k \in 0 .. Len(Groups)
        BY <2>0
      <4> QED
        BY <2>0, <4>1, ManeuversTyped
    <3>3. Groups[group].maneuvers \in Seq(Maneuvers) /\ Groups[group] = Group
      BY <1>1, CurrentGroupTyped DEF Group
    <3> DEFINE m == ManeuversThrough(Groups, k)
               g == Groups[group].maneuvers
    <3>4. Len(m \o g) = Len(m) + Len(g)
      BY <3>2, <3>3
    <3> QED
      BY <1>1, <1>4, <2>0, <3>1, <3>3, <3>4
  <2>2. /\ pc' = "accept"
        /\ pending' = [i \in DOMAIN executed |->
                         [channel |-> "truth_maneuvers", record |-> executed[i]]]
                      \o Snapshot("truth_states") \o Snapshot("attitude_states")
        /\ epoch' \in Moved({epoch})
    BY <1>6 DEF TakeSamples, Proceed, Fail
  <2>3. "truth_maneuvers" \in Channels /\ "truth_states" \in Products
        /\ "attitude_states" \in Products /\ Products \subseteq Channels
        /\ "truth_maneuvers" \notin Products /\ Channels = Products \cup {"truth_maneuvers"}
    BY DEF Channels, Products
  <2>4. executed \in Seq(OutputRecord)
    BY DEF GroupTypeOK, OutputRecord
  <2>5. \A c \in Products : /\ Snapshot(c) = Tagged(c, GroupOutput(Groups, group, c))
                            /\ GroupOutput(Groups, group, c) \in Seq(OutputRecord)
    BY <1>1, <2>1, SnapshotExpected
  <2>6. PICK rest \in [Channels -> Seq(OutputRecord)] :
          rest = [c \in Channels |-> IF c = "truth_maneuvers" THEN executed
                                     ELSE GroupOutput(Groups, group, c)]
    BY <2>3, <2>4, <2>5
  <2>7. rest["truth_maneuvers"] = executed
        /\ \A c \in Products : rest[c] = GroupOutput(Groups, group, c)
    BY <2>3, <2>6
  <2>8. Awaits(rest)'
    <3>1. pending' = Tagged("truth_maneuvers", executed)
            \o Snapshot("truth_states") \o Snapshot("attitude_states")
      BY <2>2 DEF Tagged
    <3> QED
      BY <2>3, <2>5, <2>7, <3>1 DEF Awaits
  <2>9. Written \in [Channels -> Seq(OutputRecord)]
    <3>1. \A c \in Channels : stored[c] \o buffer[c] \in Seq(OutputRecord)
      BY DEF SinkTypeOK, BufferTypeOK
    <3> QED
      BY <3>1 DEF Written
  <2>10. Whole(Groups, group, Joined(Written, rest))
    <3>1. /\ Follows(Groups[k + 1], rest["truth_maneuvers"])
          /\ Len(rest["truth_maneuvers"]) = Len(Groups[k + 1].maneuvers)
          /\ \A c \in Products : rest[c] = GroupOutput(Groups, k + 1, c)
      BY <1>1, <1>4, <2>0, <2>7 DEF Group
    <3>2. Whole(Groups, k, Written)
      BY <1>4
    <3> HIDE DEF k
    <3> QED
      BY <2>0, <2>6, <2>9, <3>1, <3>2, WholeMore
  <2>11. ~ Published'
    BY <1>1, <2>2 DEF SinkInv
  <2>12. Whole(Groups, group, Joined(Written, rest))'
    BY <1>2, <1>3, <2>10
  <2>13. OutputInv'
    BY <2>2, <2>6, <2>8, <2>11, <2>12 DEF OutputInv, BeforeSink, BetweenGroups, AfterGroups
  <2>14. ExecutionInv'
    BY <1>2, <1>3, <2>1, <2>2 DEF ExecutionInv, BeforeSink, BetweenGroups, AfterGroups
  <2>15. EpochInv'
    <3>1. ~ May("drift") => epoch' = epoch /\ epoch = EpochAfter(Groups, group)
      BY <1>1, <2>2 DEF WorkInv, EpochInv, Moved
    <3> QED
      BY <1>2, <1>3, <2>2, <3>1 DEF EpochInv, BeforeSink, BetweenGroups, AfterGroups, AtTheEnd
  <2> QED
    BY <2>13, <2>14, <2>15 DEF WorkInv
<1> QED
  BY <1>5, <1>6

-------------------------------------------------------------------------------
\* Steps that accept and write records.

LEMMA AppendJoined ==
  ASSUME NEW S, NEW a \in Seq(S), NEW b \in Seq(S), NEW r \in S
  PROVE  /\ a \o Append(b, r) = Append(a \o b, r)
         /\ Append(b, r) \in Seq(S)
<1>1. PICK e \in Seq(S) : e = <<r>>
  <2>1. <<r>> \in Seq(S)
    OBVIOUS
  <2> QED
    BY <2>1
<1>2. Append(b, r) = b \o e /\ Append(b, r) \in Seq(S)
  BY <1>1, AppendIsConcat, AppendProperties
<1>3. a \o b \in Seq(S)
  BY ConcatProperties
<1>4. Append(a \o b, r) = (a \o b) \o e
  BY <1>1, <1>3, AppendIsConcat
<1>5. (a \o b) \o e = a \o (b \o e)
  BY ConcatAssociative
<1> QED
  BY <1>2, <1>4, <1>5

LEMMA Retaken ==
  ASSUME NEW S, NEW a \in Seq(S), NEW b \in Seq(S), b # <<>>
  PROVE  Append(a, Head(b)) \o Tail(b) = a \o b
<1>1. Head(b) \in S /\ Tail(b) \in Seq(S) /\ Len(b) \in Nat \ {0} /\ Head(b) = b[1]
      /\ Len(Tail(b)) = Len(b) - 1 /\ \A i \in 1 .. Len(b) - 1 : Tail(b)[i] = b[i + 1]
  OBVIOUS
<1>2. PICK h \in S, t \in Seq(S) : h = Head(b) /\ t = Tail(b)
  BY <1>1
<1>3. PICK e \in Seq(S) : e = <<h>>
  <2>1. <<h>> \in Seq(S)
    OBVIOUS
  <2> QED
    BY <2>1
<1>4. e \o t = b
  <2>1. Len(e) = 1 /\ e[1] = h
    BY <1>3
  <2>2. /\ e \o t \in Seq(S) /\ Len(e \o t) = 1 + Len(t)
        /\ \A i \in 1 .. 1 + Len(t) : (e \o t)[i] = IF i <= 1 THEN e[i] ELSE t[i - 1]
    <3>1. /\ e \o t \in Seq(S) /\ Len(e \o t) = Len(e) + Len(t)
          /\ \A i \in 1 .. Len(e) + Len(t) :
               (e \o t)[i] = IF i <= Len(e) THEN e[i] ELSE t[i - Len(e)]
      BY ConcatProperties, Zenon
    <3> QED
      BY <2>1, <3>1
  <2>3. Len(t) = Len(b) - 1 /\ 1 + Len(t) = Len(b)
    BY <1>1, <1>2
  <2>4. \A i \in 1 .. Len(b) - 1 : t[i] = b[i + 1]
    BY <1>1, <1>2
  <2>5. ASSUME NEW i \in 1 .. Len(b)
        PROVE  (e \o t)[i] = b[i]
    <3>1. CASE i = 1
      BY <1>1, <1>2, <2>1, <2>2, <2>3, <3>1
    <3>2. CASE i # 1
      <4>1. i - 1 \in 1 .. Len(b) - 1 /\ (i - 1) + 1 = i /\ ~ (i <= 1)
        BY <1>1, <3>2
      <4> QED
        BY <2>2, <2>3, <2>4, <4>1
    <3> QED
      BY <3>1, <3>2
  <2> QED
    BY <2>2, <2>3, <2>5, SeqEqual
<1>5. Append(a, h) = a \o e
  BY <1>3, AppendIsConcat
<1>6. (a \o e) \o t = a \o (e \o t)
  BY ConcatAssociative
<1> QED
  BY <1>2, <1>4, <1>5, <1>6

\* Taking the head of three sequences takes it from the first that has one.
TakenFrom(a, b, c, p) ==
  \/ a # <<>> /\ Head(p) = Head(a) /\ Tail(p) = Tail(a) \o b \o c
  \/ a = <<>> /\ b # <<>> /\ Head(p) = Head(b) /\ Tail(p) = a \o Tail(b) \o c
  \/ a = <<>> /\ b = <<>> /\ c # <<>> /\ Head(p) = Head(c) /\ Tail(p) = a \o b \o Tail(c)

LEMMA HeadOfThree ==
  ASSUME NEW S, NEW a \in Seq(S), NEW b \in Seq(S), NEW c \in Seq(S),
         NEW p, p = a \o b \o c, p # <<>>
  PROVE  TakenFrom(a, b, c, p)
<1> USE DEF TakenFrom
<1>1. ASSUME NEW x \in Seq(S), NEW y \in Seq(S), x # <<>>
      PROVE  Head(x \o y) = Head(x) /\ Tail(x \o y) = Tail(x) \o y /\ x \o y # <<>>
  <2>1. Len(x) > 0 /\ Len(x \o y) = Len(x) + Len(y) /\ x \o y \in Seq(S)
        /\ Tail(x) \in Seq(S) /\ Len(Tail(x)) = Len(x) - 1 /\ Tail(x) \o y \in Seq(S)
        /\ \A i \in 1 .. Len(x) - 1 : Tail(x)[i] = x[i + 1]
    BY <1>1
  <2>2. x \o y # <<>>
    BY <2>1
  <2>3. Head(x \o y) = Head(x)
    BY <2>1
  <2> DEFINE l == Tail(x \o y)
             r == Tail(x) \o y
  <2>4. l \in Seq(S) /\ Len(l) = Len(x) + Len(y) - 1
        /\ \A i \in 1 .. Len(x) + Len(y) - 1 : l[i] = (x \o y)[i + 1]
    BY <2>1, <2>2
  <2>5. r \in Seq(S) /\ Len(r) = Len(x) + Len(y) - 1
    BY <2>1
  <2>6. \A i \in 1 .. Len(x) + Len(y) - 1 : (x \o y)[i + 1] = r[i]
    BY <2>1
  <2> HIDE DEF l, r
  <2>7. l = r
    BY <2>4, <2>5, <2>6, SeqEqual
  <2> QED
    BY <2>2, <2>3, <2>7 DEF l, r
<1>2. a # <<>> => a \o b \in Seq(S) /\ Tail(a) \o b \in Seq(S)
  OBVIOUS
<1>3. CASE a # <<>>
  <2>1. Head(a \o b) = Head(a) /\ Tail(a \o b) = Tail(a) \o b /\ a \o b # <<>>
    BY <1>1, <1>3
  <2>2. a \o b \in Seq(S)
    OBVIOUS
  <2> QED
    BY <1>1, <1>3, <2>1, <2>2
<1>4. CASE a = <<>> /\ b # <<>>
  <2>1. p = b \o c /\ a \o Tail(b) = Tail(b)
    BY <1>4
  <2> QED
    BY <1>1, <1>4, <2>1
<1>5. CASE a = <<>> /\ b = <<>>
  <2>1. p = c
    BY <1>5
  <2>2. Tail(c) = a \o b \o Tail(c)
    <3>1. c # <<>>
      BY <2>1
    <3>2. Tail(c) \in Seq(S)
      BY <3>1
    <3> QED
      BY <1>5, <3>2
  <2> QED
    BY <1>5, <2>1, <2>2
<1> QED
  BY <1>3, <1>4, <1>5

\* A record that is accepted is appended to what is written, flushed or not.
LEMMA AcceptAppends ==
  ASSUME RunnerTypeOK, Accept, pc' # "failClose"
  PROVE  /\ Head(pending) \in PendingRecord
         /\ Written' = [Written EXCEPT ![Head(pending).channel] = Append(@, Head(pending).record)]
         /\ pc' = "accept" /\ pending # <<>> /\ pending' = Tail(pending)
         /\ UNCHANGED <<input, group, applied, executed, epoch>>
<1> USE DEF RunnerTypeOK
<1> DEFINE c == Head(pending).channel
           r == Head(pending).record
           batch == Append(buffer[c], r)
<1>1. /\ pending # <<>> /\ pending' = Tail(pending)
      /\ UNCHANGED <<input, group, applied, executed, epoch>>
  BY DEF Accept, runtimeVars
<1>2. Head(pending) \in PendingRecord
  BY <1>1 DEF GroupTypeOK
<1>3. c \in Channels /\ r \in OutputRecord
  BY <1>2 DEF PendingRecord
<1>4. /\ stored \in [Channels -> Seq(OutputRecord)]
      /\ buffer \in [Channels -> Seq(OutputRecord)]
  BY DEF SinkTypeOK, BufferTypeOK
<1>5. pc' = "accept"
      /\ \/ buffer' = [buffer EXCEPT ![c] = batch] /\ stored' = stored
         \/ buffer' = [buffer EXCEPT ![c] = <<>>] /\ stored' = [stored EXCEPT ![c] = @ \o batch]
  BY DEF Accept, Flush, SinkWrite, Proceed, Fail, sinkVars
<1> HIDE DEF c, r
<1>6. stored[c] \in Seq(OutputRecord) /\ buffer[c] \in Seq(OutputRecord)
  BY <1>3, <1>4
<1>7. batch \in Seq(OutputRecord) /\ stored[c] \o batch = Append(stored[c] \o buffer[c], r)
  <2>1. \A x, y \in Seq(OutputRecord) :
          x \o Append(y, r) = Append(x \o y, r) /\ Append(y, r) \in Seq(OutputRecord)
    BY <1>3, AppendJoined
  <2> QED
    BY <1>6, <2>1
<1>8. stored[c] \o batch \in Seq(OutputRecord)
  BY <1>6, <1>7
<1> HIDE DEF batch
<1>9. stored'[c] \o buffer'[c] = stored[c] \o batch
  <2>1. CASE buffer' = [buffer EXCEPT ![c] = batch] /\ stored' = stored
    BY <1>3, <1>4, <2>1
  <2>2. CASE buffer' = [buffer EXCEPT ![c] = <<>>] /\ stored' = [stored EXCEPT ![c] = @ \o batch]
    <3>1. stored'[c] = stored[c] \o batch /\ buffer'[c] = <<>>
      BY <1>3, <1>4, <2>2
    <3> QED
      BY <1>8, <3>1, ConcatEmptySeq
  <2> QED
    BY <1>5, <2>1, <2>2
<1>10. \A d \in Channels \ {c} : stored'[d] = stored[d] /\ buffer'[d] = buffer[d]
  BY <1>4, <1>5
<1>11. Written' = [Written EXCEPT ![c] = Append(@, r)]
  BY <1>3, <1>7, <1>9, <1>10 DEF Written
<1> QED
  BY <1>1, <1>2, <1>5, <1>11 DEF c, r

\* Head and tail of the tagged records.
LEMMA TaggedHead ==
  ASSUME NEW S, NEW q \in Seq(S), q # <<>>, NEW c \in Channels
  PROVE  /\ Tail(Tagged(c, q)) = Tagged(c, Tail(q))
         /\ Head(Tagged(c, q)) = [channel |-> c, record |-> Head(q)]
<1> DEFINE R == [channel : Channels, record : S]
           n == Len(q)
           tq == Tagged(c, q)
           rq == Tagged(c, Tail(q))
<1>2. n \in Nat /\ n > 0 /\ Tail(q) \in Seq(S) /\ Len(Tail(q)) = n - 1
      /\ Head(q) = q[1] /\ \A i \in 1 .. n - 1 : Tail(q)[i] = q[i + 1]
  OBVIOUS
<1>3. /\ tq \in Seq(R) /\ Len(tq) = n
      /\ \A i \in 1 .. n : tq[i] = [channel |-> c, record |-> q[i]]
  BY TaggedTyped
<1>4. /\ rq \in Seq(R) /\ Len(rq) = n - 1
      /\ \A i \in 1 .. n - 1 : rq[i] = [channel |-> c, record |-> q[i + 1]]
  <2>1. PICK t \in Seq(S) : t = Tail(q)
    BY <1>2
  <2>2. /\ Tagged(c, t) \in Seq(R) /\ Len(Tagged(c, t)) = Len(t)
        /\ \A i \in 1 .. Len(t) : Tagged(c, t)[i] = [channel |-> c, record |-> t[i]]
    BY TaggedTyped
  <2> HIDE DEF n, R
  <2> QED
    BY <1>2, <2>1, <2>2
<1> HIDE DEF tq, rq, R, n
<1>5. tq # <<>> /\ Tail(tq) \in Seq(R) /\ Len(Tail(tq)) = n - 1
      /\ Head(tq) = tq[1] /\ \A i \in 1 .. n - 1 : Tail(tq)[i] = tq[i + 1]
  BY <1>2, <1>3
<1>6. \A i \in 1 .. n - 1 : Tail(tq)[i] = rq[i]
  BY <1>2, <1>3, <1>4, <1>5
<1>7. Tail(tq) = rq
  BY <1>4, <1>5, <1>6, SeqEqual
<1>8. Head(tq) = [channel |-> c, record |-> Head(q)]
  BY <1>2, <1>3, <1>5
<1> QED
  BY <1>7, <1>8 DEF tq, rq

\* Accepting the first record of rest leaves the same output to come.
LEMMA AcceptTakesFirst ==
  ASSUME NEW before \in [Channels -> Seq(OutputRecord)],
         NEW after, NEW c \in Channels,
         NEW rest \in [Channels -> Seq(OutputRecord)], rest[c] # <<>>,
         after = [before EXCEPT ![c] = Append(@, Head(rest[c]))]
  PROVE  /\ Joined(after, [rest EXCEPT ![c] = Tail(@)]) = Joined(before, rest)
         /\ [rest EXCEPT ![c] = Tail(@)] \in [Channels -> Seq(OutputRecord)]
<1> DEFINE less == [rest EXCEPT ![c] = Tail(@)]
<1>1. rest[c] \in Seq(OutputRecord) /\ before[c] \in Seq(OutputRecord)
  OBVIOUS
<1>2. Tail(rest[c]) \in Seq(OutputRecord)
  BY <1>1
<1>3. Append(before[c], Head(rest[c])) \o Tail(rest[c]) = before[c] \o rest[c]
  BY <1>1, Retaken
<1>4. \A d \in Channels : after[d] \o less[d] = before[d] \o rest[d]
  BY <1>3
<1>5. Joined(after, less) = Joined(before, rest)
  BY <1>4 DEF Joined
<1> QED
  BY <1>2, <1>5

LEMMA WrittenTyped ==
  ASSUME RunnerTypeOK
  PROVE  Written \in [Channels -> Seq(OutputRecord)]
<1>1. \A c \in Channels : stored[c] \in Seq(OutputRecord) /\ buffer[c] \in Seq(OutputRecord)
  BY DEF RunnerTypeOK, SinkTypeOK, BufferTypeOK
<1>2. \A c \in Channels : stored[c] \o buffer[c] \in Seq(OutputRecord)
  BY <1>1, ConcatProperties
<1> QED
  BY <1>2 DEF Written

LEMMA AcceptKeepsWork ==
  ASSUME RunnerTypeOK, SafetyInv, SafetyInv', WorkInv, Accept
  PROVE  WorkInv'
<1> USE DEF RunnerTypeOK
<1>1. SinkInv' /\ pc = "accept"
  BY DEF SafetyInv, Accept
<1>2. CASE pc' = "failClose"
  BY <1>1, <1>2, Abandoned
<1>3. CASE pc' # "failClose"
  <2> DEFINE h == Head(pending)
  <2>1. /\ h \in PendingRecord
        /\ Written' = [Written EXCEPT ![h.channel] = Append(@, h.record)]
        /\ pc' = "accept" /\ pending # <<>> /\ pending' = Tail(pending)
        /\ UNCHANGED <<input, group, applied, executed, epoch>>
    BY <1>3, AcceptAppends
  <2> HIDE DEF h
  <2>2. PICK rest \in [Channels -> Seq(OutputRecord)] :
          Awaits(rest) /\ Whole(Groups, group, Joined(Written, rest))
    BY <1>1 DEF WorkInv, OutputInv
  <2>3. Written \in [Channels -> Seq(OutputRecord)]
    BY WrittenTyped
  <2>4. Groups' = Groups /\ group' = group
    BY <2>1 DEF Groups
  <2> DEFINE M == "truth_maneuvers"
             T == "truth_states"
             A == "attitude_states"
  <2>5. M \in Channels /\ T \in Channels /\ A \in Channels
    BY DEF Channels
  <2> DEFINE R == [channel : Channels, record : OutputRecord]
  <2>6. PICK x \in Seq(R), y \in Seq(R), z \in Seq(R) :
          x = Tagged(M, rest[M]) /\ y = Tagged(T, rest[T]) /\ z = Tagged(A, rest[A])
    <3>1. \A c \in Channels : rest[c] \in Seq(OutputRecord)
      OBVIOUS
    <3>2. \A c \in Channels : Tagged(c, rest[c]) \in Seq(R)
      BY <3>1, TaggedTyped
    <3> QED
      BY <2>5, <3>2
  <2>7. \A c \in Channels : Tagged(c, rest[c]) # <<>> => rest[c] # <<>>
    BY DEF Tagged
  <2>8. pending = x \o y \o z
    BY <2>2, <2>6 DEF Awaits
  <2> HIDE DEF R
  <2>9. \/ x # <<>> /\ h = Head(x) /\ pending' = Tail(x) \o y \o z
        \/ y # <<>> /\ h = Head(y) /\ pending' = x \o Tail(y) \o z
        \/ z # <<>> /\ h = Head(z) /\ pending' = x \o y \o Tail(z)
    <3>1. TakenFrom(x, y, z, pending)
      BY <2>1, <2>8, HeadOfThree
    <3> QED
      BY <2>1, <3>1 DEF h, TakenFrom
  <2>10. ASSUME NEW c \in Channels, Tagged(c, rest[c]) # <<>>, h = Head(Tagged(c, rest[c]))
         PROVE  /\ Joined(Written', [rest EXCEPT ![c] = Tail(@)]) = Joined(Written, rest)
                /\ [rest EXCEPT ![c] = Tail(@)] \in [Channels -> Seq(OutputRecord)]
                /\ Tail(Tagged(c, rest[c])) = Tagged(c, Tail(rest[c]))
    <3>0. rest[c] \in Seq(OutputRecord)
      OBVIOUS
    <3>1. rest[c] # <<>>
      BY <2>7, <2>10
    <3>2. /\ Tail(Tagged(c, rest[c])) = Tagged(c, Tail(rest[c]))
          /\ Head(Tagged(c, rest[c])) = [channel |-> c, record |-> Head(rest[c])]
      <4>1. \A q \in Seq(OutputRecord) : q # <<>> =>
              /\ Tail(Tagged(c, q)) = Tagged(c, Tail(q))
              /\ Head(Tagged(c, q)) = [channel |-> c, record |-> Head(q)]
        BY TaggedHead
      <4> QED
        BY <3>0, <3>1, <4>1
    <3>3. h.channel = c /\ h.record = Head(rest[c])
      BY <2>10, <3>2
    <3>4. Written' = [Written EXCEPT ![c] = Append(@, Head(rest[c]))]
      BY <2>1, <3>3
    <3>5. \A v \in [Channels -> Seq(OutputRecord)] : \A w :
            w = [v EXCEPT ![c] = Append(@, Head(rest[c]))] =>
              /\ Joined(w, [rest EXCEPT ![c] = Tail(@)]) = Joined(v, rest)
              /\ [rest EXCEPT ![c] = Tail(@)] \in [Channels -> Seq(OutputRecord)]
      BY <3>1, AcceptTakesFirst
    <3> QED
      BY <2>3, <3>2, <3>4, <3>5
  <2>11. PICK less \in [Channels -> Seq(OutputRecord)] :
           /\ Joined(Written', less) = Joined(Written, rest)
           /\ pending' = Tagged(M, less[M]) \o Tagged(T, less[T]) \o Tagged(A, less[A])
    <3>1. CASE x # <<>> /\ h = Head(x) /\ pending' = Tail(x) \o y \o z
      <4> DEFINE less == [rest EXCEPT ![M] = Tail(@)]
      <4>1. /\ Joined(Written', less) = Joined(Written, rest)
            /\ less \in [Channels -> Seq(OutputRecord)]
            /\ Tail(x) = Tagged(M, Tail(rest[M]))
        BY <2>5, <2>6, <2>10, <3>1
      <4>2. less[M] = Tail(rest[M]) /\ less[T] = rest[T] /\ less[A] = rest[A]
        BY <2>5
      <4> HIDE DEF less
      <4> QED
        BY <2>6, <3>1, <4>1, <4>2
    <3>2. CASE y # <<>> /\ h = Head(y) /\ pending' = x \o Tail(y) \o z
      <4> DEFINE less == [rest EXCEPT ![T] = Tail(@)]
      <4>1. /\ Joined(Written', less) = Joined(Written, rest)
            /\ less \in [Channels -> Seq(OutputRecord)]
            /\ Tail(y) = Tagged(T, Tail(rest[T]))
        BY <2>5, <2>6, <2>10, <3>2
      <4>2. less[M] = rest[M] /\ less[T] = Tail(rest[T]) /\ less[A] = rest[A]
        BY <2>5
      <4> HIDE DEF less
      <4> QED
        BY <2>6, <3>2, <4>1, <4>2
    <3>3. CASE z # <<>> /\ h = Head(z) /\ pending' = x \o y \o Tail(z)
      <4> DEFINE less == [rest EXCEPT ![A] = Tail(@)]
      <4>1. /\ Joined(Written', less) = Joined(Written, rest)
            /\ less \in [Channels -> Seq(OutputRecord)]
            /\ Tail(z) = Tagged(A, Tail(rest[A]))
        BY <2>5, <2>6, <2>10, <3>3
      <4>2. less[M] = rest[M] /\ less[T] = rest[T] /\ less[A] = Tail(rest[A])
        BY <2>5
      <4> HIDE DEF less
      <4> QED
        BY <2>6, <3>3, <4>1, <4>2
    <3> QED
      BY <2>9, <3>1, <3>2, <3>3
  <2>12. Awaits(less)'
    BY <2>11 DEF Awaits
  <2>13. Whole(Groups, group, Joined(Written, less))'
    BY <2>2, <2>4, <2>11
  <2>14. ~ Published'
    BY <1>1, <2>1 DEF SinkInv
  <2>15. OutputInv'
    BY <2>1, <2>12, <2>13, <2>14 DEF OutputInv, BeforeSink, BetweenGroups, AfterGroups
  <2>16. ExecutionInv'
    BY <1>1, <2>1, <2>4 DEF WorkInv, ExecutionInv, BeforeSink, BetweenGroups, AfterGroups
  <2>17. EpochInv'
    BY <1>1, <2>1, <2>4 DEF WorkInv, EpochInv, BeforeSink, BetweenGroups, AfterGroups, AtTheEnd
  <2> QED
    BY <2>15, <2>16, <2>17 DEF WorkInv
<1>4. pc' \in {"accept", "failClose"}
  BY DEF Accept, Flush, Proceed, Fail
<1> QED
  BY <1>2, <1>3

\* A residual flush moves an open batch to the sink.
LEMMA FlushKeepsWork ==
  ASSUME RunnerTypeOK, SafetyInv, SafetyInv', WorkInv, FlushWrite
  PROVE  WorkInv'
<1> USE DEF RunnerTypeOK
<1>1. SinkInv' /\ pc = "flushWrite"
  BY DEF SafetyInv, FlushWrite
<1>2. UNCHANGED <<input, group, applied, executed, pending, epoch>>
  BY DEF FlushWrite, groupVars, runtimeVars
<1>3. CASE pc' = "failClose"
  BY <1>1, <1>3, Abandoned
<1>4. CASE pc' # "failClose"
  <2> DEFINE c == FlushOrder[channel]
  <2>1. c \in Channels
    BY <1>1 DEF BufferTypeOK, FlushOrder, Channels
  <2>2. /\ pc' = "flush"
        /\ buffer' = [buffer EXCEPT ![c] = <<>>]
        /\ stored' = [stored EXCEPT ![c] = @ \o buffer[c]]
    BY <1>4 DEF FlushWrite, Flush, SinkWrite, Proceed, Fail
  <2> HIDE DEF c
  <2>3. /\ stored \in [Channels -> Seq(OutputRecord)]
        /\ buffer \in [Channels -> Seq(OutputRecord)]
    BY DEF SinkTypeOK, BufferTypeOK
  <2>4. ASSUME NEW d \in Channels
        PROVE  stored'[d] \o buffer'[d] = stored[d] \o buffer[d]
    <3>1. CASE d = c
      <4>1. stored'[d] = stored[d] \o buffer[d] /\ buffer'[d] = <<>>
        BY <2>1, <2>2, <2>3, <3>1
      <4>2. stored[d] \o buffer[d] \in Seq(OutputRecord)
        <5>1. stored[d] \in Seq(OutputRecord) /\ buffer[d] \in Seq(OutputRecord)
          BY <2>3
        <5> QED
          BY <5>1, ConcatProperties
      <4> QED
        BY <4>1, <4>2, ConcatEmptySeq
    <3>2. CASE d # c
      BY <2>2, <2>3, <3>2
    <3> QED
      BY <3>1, <3>2
  <2>5. Written' = Written
    BY <2>4 DEF Written
  <2>6. Groups' = Groups
    BY <1>2 DEF Groups
  <2>7. ~ Published'
    BY <1>1, <2>2 DEF SinkInv
  <2> QED
    BY <1>1, <1>2, <2>2, <2>5, <2>6, <2>7 DEF WorkInv, OutputInv, ExecutionInv, EpochInv,
       BeforeSink, BetweenGroups, AfterGroups, AtTheEnd
<1> QED
  BY <1>3, <1>4

\* Every step keeps what the runner's position says of the output.
LEMMA WorkKept ==
  ASSUME RunnerTypeOK, SafetyInv, WorkInv, [Next]_vars
  PROVE  WorkInv'
<1>1. SafetyInv'
  BY SafetyInductive
<1>2. CASE Passive
  BY <1>2, PassiveKeepsOutput, PassiveKeepsExecution DEF WorkInv
<1>3. CASE CleanSink
  <2>1. pc' = "done" /\ pc \in {"cancelAbort", "failAbort"}
    BY <1>3 DEF CleanSink, Return
  <2>2. ~ Published
    BY <2>1 DEF SafetyInv, SinkInv
  <2>3. status' \in {status, "ABORTED"} /\ sinkBegun' = sinkBegun
    BY <1>3 DEF CleanSink, SinkAbort, Refused, sinkVars
  <2>4. ~ Published'
    BY <2>2, <2>3 DEF Published
  <2> QED
    BY <2>1, <2>4 DEF WorkInv, OutputInv, ExecutionInv, EpochInv, BeforeSink, BetweenGroups,
       AfterGroups, AtTheEnd
<1>4. CASE BeginSink \/ NextGroup \/ Propagate \/ ExecuteManeuver \/ TakeSamples
           \/ Accept \/ FlushWrite
  BY <1>1, <1>4, BeginKeepsWork, NextGroupKeepsWork, PropagateKeepsWork,
     ManeuverKeepsWork, SamplesKeepWork, AcceptKeepsWork, FlushKeepsWork
<1> QED
  BY <1>2, <1>3, <1>4 DEF Next, RunnerStep, Passive, Terminated

LEMMA InitWorks ==
  ASSUME Init
  PROVE  WorkInv
<1>1. ~ Published
  BY DEF Init, Published
<1> QED
  BY <1>1 DEF Init, WorkInv, OutputInv, ExecutionInv, EpochInv, BeforeSink, BetweenGroups,
     AfterGroups, AtTheEnd

\* What the position of the runner says of the output, in every run.
LEMMA RunnerWorks == Spec => [](RunnerTypeOK /\ SafetyInv /\ WorkInv)
<1>1. Init => RunnerTypeOK /\ SafetyInv /\ WorkInv
  BY InitTyped, InitSafe, InitWorks
<1>2. RunnerTypeOK /\ SafetyInv /\ WorkInv /\ [Next]_vars
        => (RunnerTypeOK /\ SafetyInv /\ WorkInv)'
  BY NextTyped, SafetyInductive, WorkKept
<1> QED
  BY <1>1, <1>2, PTL DEF Spec

\* Output that is committed is exactly what the schedule calls for: every group
\* of it, in order, on every channel, for every batch size and sink bound and
\* however the run is disturbed.
THEOREM CommittedOutputComplete == Spec => []CommittedIsComplete
<1>1. OutputInv => CommittedIsComplete
  BY DEF OutputInv, Whole, CommittedIsComplete
<1> QED
  BY <1>1, RunnerWorks, PTL DEF WorkInv

\* The groups of a schedule come in order of time; the schedule generator sees
\* to that (EventScheduleProofs).
TimelyInputs == \A i \in Inputs : Timely(i.groups)

\* The committed maneuvers of an object at one instant continue each other.
THEOREM CommittedManeuversContinue ==
  ASSUME TimelyInputs
  PROVE  Spec => []CommittedManeuversChain
<1>1. RunnerTypeOK /\ WorkInv => CommittedManeuversChain
  <2> SUFFICES ASSUME RunnerTypeOK, WorkInv, Published
               PROVE  Chained(stored["truth_maneuvers"])
    BY DEF CommittedManeuversChain
  <2>1. Timely(Groups)
    BY DEF TimelyInputs, Groups, RunnerTypeOK, ControlTypeOK
  <2> QED
    BY <2>1 DEF WorkInv, OutputInv, Whole
<1> QED
  BY <1>1, RunnerWorks, PTL

-------------------------------------------------------------------------------
\* A run that stops on request.

\* Records are counted as they are accepted.
LEMMA CountsWhole ==
  ASSUME RunnerTypeOK, SafetyInv, pc \in Producing, NEW k, Whole(Groups, k, Written)
  PROVE  \A c \in Channels : count[c] = Len(Expected(Groups, k, c))
<1> TAKE c \in Channels
<1>1. count[c] = Kept(c) + Open(c)
  BY DEF SafetyInv, SinkInv, AccountInv, OutputAccounted
<1>2. stored[c] \in Seq(OutputRecord) /\ buffer[c] \in Seq(OutputRecord)
  BY DEF RunnerTypeOK, SinkTypeOK, BufferTypeOK
<1>3. Len(stored[c] \o buffer[c]) = Len(stored[c]) + Len(buffer[c])
      /\ stored[c] \o buffer[c] \in Seq(OutputRecord)
  BY <1>2, ConcatProperties
<1>4. Written[c] = stored[c] \o buffer[c]
  BY DEF Written
<1>5. Len(Identified(c, Written[c])) = Len(Written[c])
  <2>1. PICK w \in Seq(OutputRecord) : w = Written[c]
    BY <1>3, <1>4
  <2>2. Len(Identified(c, w)) = Len(w)
    BY IdentifiedJoined
  <2> QED
    BY <2>1, <2>2
<1>6. Identified(c, Written[c]) = Expected(Groups, k, c)
  BY DEF Whole
<1> QED
  BY <1>1, <1>3, <1>4, <1>5, <1>6 DEF Kept, Open

\* At the end of a group the runtime's clock shows the group's instant.
LEMMA StopsAfterGroup ==
  ASSUME RunnerTypeOK, Timely(Groups), NEW k \in 0 .. Len(Groups), NEW at \in Epochs,
         applied = Len(ManeuversThrough(Groups, k)),
         \A c \in Channels : count[c] = Len(Expected(Groups, k, c)),
         ~ May("drift") => at = EpochAfter(Groups, k)
  PROVE  StoppedBetweenGroups(at)
<1>1. Groups \in Seq(ScheduledGroups)
  BY InputTyped DEF RunnerTypeOK
<1>2. \A i \in 1 .. Len(Groups) : Groups[i].epoch \in Nat
  BY <1>1, GroupTyped, RunnerAssumption
<1>3. at \in Nat /\ SyncEpoch \in Nat
  BY RunnerAssumption
<1>4. k < Len(Groups) => EpochAfter(Groups, k) <= EpochAfter(Groups, k + 1)
  <2> SUFFICES ASSUME k < Len(Groups)
               PROVE  EpochAfter(Groups, k) <= EpochAfter(Groups, k + 1)
    OBVIOUS
  <2>1. k + 1 \in 1 .. Len(Groups) /\ k + 1 \in DOMAIN Groups /\ k + 1 # 0
    BY <1>1
  <2>2. EpochAfter(Groups, k + 1) = Groups[k + 1].epoch
    BY <2>1 DEF EpochAfter
  <2>3. CASE k = 0
    BY <2>1, <2>2, <2>3 DEF EpochAfter, Timely
  <2>4. CASE k # 0
    <3>1. k \in 1 .. Len(Groups) /\ k \in DOMAIN Groups /\ k < k + 1
      BY <1>1, <2>4
    <3>2. Groups[k].epoch < Groups[k + 1].epoch
      BY <2>1, <3>1 DEF Timely
    <3>3. EpochAfter(Groups, k) = Groups[k].epoch
      BY <2>4 DEF EpochAfter
    <3> QED
      BY <1>2, <2>1, <2>2, <3>1, <3>2, <3>3
  <2> QED
    BY <2>3, <2>4
<1>5. EpochAfter(Groups, k) \in Nat
  BY <1>2, <1>3 DEF EpochAfter
<1>6. ~ May("drift") => EpochAfter(Groups, k) <= at
                         /\ (k < Len(Groups) => at <= EpochAfter(Groups, k + 1))
  BY <1>3, <1>4, <1>5
<1> QED
  BY <1>6 DEF StoppedBetweenGroups

\* Every read of the token that may stop the run is between two groups.
LEMMA RequestStops ==
  ASSUME RunnerTypeOK, SafetyInv, WorkInv, Timely(Groups),
         \/ CheckInitialized \/ NextGroup \/ FinishGroup \/ CheckScheduleEnd
         \/ FlushCheck \/ CheckFlushed \/ LastCheck,
         pc' = "cancelClose"
  PROVE  /\ UNCHANGED <<input, applied, count>>
         /\ StoppedBetweenGroups(finalEpoch')
<1> USE DEF RunnerTypeOK
<1>1. /\ UNCHANGED <<input, applied, count>>
      /\ \/ pc = "initCheck" /\ finalEpoch' = epoch
         \/ pc \in BetweenGroups /\ finalEpoch' = epoch
         \/ pc = "accept" /\ pending = <<>> /\ finalEpoch' = epoch
         \/ pc = "lastCheck" /\ finalEpoch' = finalEpoch
  BY DEF CheckInitialized, NextGroup, FinishGroup, CheckScheduleEnd, FlushCheck,
     CheckFlushed, LastCheck, CancelHere, CancelAt, Proceed, Fail, runtimeVars,
     bufferVars, BetweenGroups, AfterGroups
<1>2. finalEpoch' = epoch
  BY <1>1 DEF WorkInv, EpochInv, AtTheEnd
<1>3. epoch \in Epochs /\ group \in 0 .. Len(Groups)
  BY DEF ResourceTypeOK, GroupTypeOK
<1>4. CASE pc = "initCheck"
  <2>1. group = 0 /\ applied = 0 /\ ~ sinkBegun /\ (~ May("drift") => epoch = SyncEpoch)
    BY <1>4 DEF WorkInv, OutputInv, ExecutionInv, EpochInv, SafetyInv, SinkInv, BeforeSink
  <2>2. \A c \in Channels : count[c] = 0
    BY <2>1 DEF SafetyInv, AccountInv
  <2>3. applied = Len(ManeuversThrough(Groups, 0))
        /\ \A c \in Channels : count[c] = Len(Expected(Groups, 0, c))
    BY <2>1, <2>2, NothingYet
  <2>4. ~ May("drift") => epoch = EpochAfter(Groups, 0)
    BY <2>1 DEF EpochAfter
  <2>5. 0 \in 0 .. Len(Groups)
    BY <1>3
  <2> QED
    BY <1>1, <1>2, <1>3, <2>3, <2>4, <2>5, StopsAfterGroup
<1>5. CASE pc # "initCheck"
  <2>1. pc \in BetweenGroups \/ (pc = "accept" /\ pending = <<>>)
    BY <1>1, <1>5 DEF BetweenGroups, AfterGroups
  <2>2. pc \in Producing
    BY <2>1 DEF BetweenGroups, AfterGroups, Producing
  <2>3. Whole(Groups, group, Written)
    <3>1. CASE pc \in BetweenGroups
      BY <3>1 DEF WorkInv, OutputInv
    <3>2. CASE pc = "accept" /\ pending = <<>>
      <4>1. PICK rest \in [Channels -> Seq(OutputRecord)] :
              Awaits(rest) /\ Whole(Groups, group, Joined(Written, rest))
        BY <3>2 DEF WorkInv, OutputInv
      <4>2. Joined(Written, rest) = Written
        BY <3>2, <4>1, NothingMore
      <4> QED
        BY <4>1, <4>2
    <3> QED
      BY <2>1, <3>1, <3>2
  <2>4. \A c \in Channels : count[c] = Len(Expected(Groups, group, c))
    BY <2>2, <2>3, CountsWhole
  <2>5. applied = Len(ManeuversThrough(Groups, group))
        /\ (~ May("drift") => epoch = EpochAfter(Groups, group))
    BY <2>1 DEF WorkInv, ExecutionInv, EpochInv
  <2> QED
    BY <1>1, <1>2, <1>3, <2>4, <2>5, StopsAfterGroup
<1> QED
  BY <1>4, <1>5

\* A runtime that stops on its way to a group leaves it untouched.
LEMMA PropagationStops ==
  ASSUME RunnerTypeOK, SafetyInv, WorkInv, Propagate, pc' = "cancelClose"
  PROVE  /\ UNCHANGED <<input, applied, count>>
         /\ StoppedBetweenGroups(finalEpoch')
<1> USE DEF RunnerTypeOK
<1>1. /\ UNCHANGED <<input, applied, count>> /\ pc = "propagate"
      /\ finalEpoch' = epoch' /\ epoch' \in epoch .. Group.epoch
  BY DEF Propagate, CancelAt, Proceed, Fail, bufferVars
<1>2. group \in 1 .. Len(Groups)
  BY <1>1, InputTyped DEF GroupTypeOK
<1>3. Whole(Groups, group - 1, Written) /\ applied = Len(ManeuversThrough(Groups, group - 1))
      /\ (~ May("drift") => epoch = EpochAfter(Groups, group - 1))
  BY <1>1 DEF WorkInv, OutputInv, ExecutionInv, EpochInv
<1>4. \A c \in Channels : count[c] = Len(Expected(Groups, group - 1, c))
  BY <1>1, <1>3, CountsWhole DEF Producing
<1> DEFINE k == group - 1
<1>5. k \in 0 .. Len(Groups) /\ k + 1 = group /\ group # 0
  BY <1>2
<1>6. epoch <= epoch' /\ epoch' <= EpochAfter(Groups, group)
  BY <1>1, <1>5 DEF EpochAfter, Group
<1>7. ~ May("drift") => EpochAfter(Groups, k) <= finalEpoch' /\ finalEpoch' <= EpochAfter(Groups, k + 1)
  BY <1>1, <1>3, <1>5, <1>6
<1>8. applied = Len(ManeuversThrough(Groups, k))
      /\ \A c \in Channels : count[c] = Len(Expected(Groups, k, c))
  BY <1>3, <1>4
<1> HIDE DEF k
<1> QED
  BY <1>1, <1>5, <1>7, <1>8 DEF StoppedBetweenGroups

LEMMA StopFrame ==
  ASSUME UNCHANGED <<input, applied, count>>
  PROVE  \A at : StoppedBetweenGroups(at)' = StoppedBetweenGroups(at)
BY DEF StoppedBetweenGroups, Groups

\* The clean-up leaves what was produced, and only repeats the epoch.
LEMMA StopKept ==
  ASSUME RunnerTypeOK, SafetyInv, WorkInv, StopInv, [Next]_vars
  PROVE  StopInv'
<1> USE DEF RunnerTypeOK
<1> DEFINE Stopping == \/ CheckInitialized \/ NextGroup \/ FinishGroup \/ CheckScheduleEnd
                       \/ FlushCheck \/ CheckFlushed \/ LastCheck \/ Propagate
<1>1. input' = input
  BY DEF Next, RunnerStep, Enter, CreateRuntime, InitializeRuntime, CheckInitialized, BeginSink,
     NextGroup, Propagate, ExecuteManeuver, TakeSamples, Accept, FinishGroup,
     CheckScheduleEnd, FlushCheck, FlushWrite, CheckFlushed, CheckFinalEpoch,
     CloseRuntime, LastCheck, CommitSink, ReturnCompleted, CleanRuntime, CleanSink,
     Cancel, Interrupt, Terminated, vars
<1>2. Groups' = Groups
  BY <1>1 DEF Groups
<1> SUFFICES ASSUME Timely(Groups)
             PROVE  /\ pc' \in Cancelling => StoppedBetweenGroups(finalEpoch)'
                    /\ result'.status = "CANCELLED" => StoppedBetweenGroups(result.final)'
  BY <1>2 DEF StopInv
<1>3. /\ pc \in Cancelling => StoppedBetweenGroups(finalEpoch)
      /\ result.status = "CANCELLED" => StoppedBetweenGroups(result.final)
  BY DEF StopInv
<1>4. (result.status = "RUNNING") = (pc # "done")
  BY DEF SafetyInv, ReportInv
<1>5. CASE Stopping
  <2>1. UNCHANGED result /\ pc # "done"
    BY <1>5 DEF CheckInitialized, NextGroup, FinishGroup, CheckScheduleEnd, FlushCheck,
       CheckFlushed, LastCheck, Propagate, CancelHere, CancelAt, Proceed, Fail, endVars
  <2>2. result'.status # "CANCELLED"
    BY <1>4, <2>1
  <2>3. pc' # "cancelAbort"
    BY <1>5 DEF CheckInitialized, NextGroup, FinishGroup, CheckScheduleEnd, FlushCheck,
       CheckFlushed, LastCheck, Propagate, CancelHere, CancelAt, Proceed, Fail
  <2>4. CASE pc' = "cancelClose"
    <3>1. UNCHANGED <<input, applied, count>> /\ StoppedBetweenGroups(finalEpoch')
      BY <1>5, <2>4, RequestStops, PropagationStops
    <3> QED
      BY <2>2, <3>1, StopFrame
  <2> QED
    BY <2>2, <2>3, <2>4 DEF Cancelling
<1>6. CASE CleanRuntime \/ CleanSink \/ Cancel \/ UNCHANGED vars \/ Interrupt
  <2>1. UNCHANGED <<input, applied, count>>
    BY <1>6 DEF CleanRuntime, CleanSink, Cancel, Interrupt, vars, runtimeVars, bufferVars
  <2>2. /\ pc' \in Cancelling => pc \in Cancelling /\ finalEpoch' = finalEpoch
        /\ result'.status = "CANCELLED" =>
             \/ pc = "cancelAbort" /\ result'.final = finalEpoch
             \/ result' = result
    <3>1. CASE CleanRuntime
      BY <1>4, <3>1 DEF CleanRuntime, Cancelling
    <3>2. CASE CleanSink
      BY <3>2 DEF CleanSink, Return, Cancelling
    <3>3. CASE Cancel \/ UNCHANGED vars
      BY <3>3 DEF Cancel, vars, endVars
    <3>4. CASE Interrupt
      <4>1. pc' = "done" /\ result'.status = "ESCAPED"
        BY <3>4 DEF Interrupt, EndTypeOK
      <4> QED
        BY <4>1 DEF Cancelling
    <3> QED
      BY <1>6, <3>1, <3>2, <3>3, <3>4
  <2> QED
    BY <1>3, <2>1, <2>2, StopFrame DEF Cancelling
<1>7. CASE Enter
  <2>1. UNCHANGED <<input, applied, count>> /\ pc = "entry" /\ pc' \notin Cancelling
    BY <1>7 DEF Enter, Proceed, Return, runtimeVars, bufferVars, Cancelling
  <2>2. result'.status = "CANCELLED" => result'.final = finalEpoch
    BY <1>4, <1>7, <2>1 DEF Enter, Proceed, Return, endVars
  <2>3. StoppedBetweenGroups(finalEpoch)
    <3>1. finalEpoch = SyncEpoch /\ applied = 0 /\ ~ sinkBegun /\ finalEpoch \in Epochs
      BY <2>1 DEF WorkInv, ExecutionInv, EpochInv, SafetyInv, SinkInv, BeforeSink, EndTypeOK
    <3>2. \A c \in Channels : count[c] = 0
      BY <3>1 DEF SafetyInv, AccountInv
    <3>3. applied = Len(ManeuversThrough(Groups, 0))
          /\ \A c \in Channels : count[c] = Len(Expected(Groups, 0, c))
      BY <3>1, <3>2, NothingYet
    <3>4. finalEpoch = EpochAfter(Groups, 0)
      BY <3>1 DEF EpochAfter
    <3>5. 0 \in 0 .. Len(Groups)
      BY InputTyped
    <3> QED
      BY <3>1, <3>3, <3>4, <3>5, StopsAfterGroup
  <2> QED
    BY <2>1, <2>2, <2>3, StopFrame
<1>8. CASE \/ CreateRuntime \/ InitializeRuntime \/ BeginSink \/ ExecuteManeuver \/ TakeSamples
           \/ Accept \/ FlushWrite \/ CheckFinalEpoch \/ CloseRuntime \/ CommitSink
  <2>1. pc' \notin Cancelling /\ result' = result /\ pc # "done"
    BY <1>8 DEF CreateRuntime, InitializeRuntime, BeginSink, ExecuteManeuver, TakeSamples,
       Accept, Flush, FlushWrite, CheckFinalEpoch, CloseRuntime, CommitSink, Proceed, Fail,
       endVars, Cancelling
  <2> QED
    BY <1>4, <2>1
<1>9. CASE ReturnCompleted
  BY <1>9 DEF ReturnCompleted, Return, Cancelling
<1> QED
  BY <1>5, <1>6, <1>7, <1>8, <1>9 DEF Next, RunnerStep, Terminated

\* A run that reports CANCELLED stopped between two groups: what the runtime has
\* executed and the buffers have accepted is that of a whole number of groups,
\* and the final epoch reported lies between them.
THEOREM CancelledStopsBetweenGroups ==
  ASSUME TimelyInputs
  PROVE  Spec => []CancelledBetweenGroups
<1>1. Init => StopInv
  BY DEF Init, StopInv, Cancelling
<1>2. RunnerTypeOK /\ SafetyInv /\ WorkInv /\ StopInv /\ [Next]_vars => StopInv'
  BY StopKept
<1>3. RunnerTypeOK /\ StopInv => CancelledBetweenGroups
  <2> SUFFICES ASSUME RunnerTypeOK, StopInv
               PROVE  CancelledBetweenGroups
    OBVIOUS
  <2>1. Timely(Groups)
    BY DEF TimelyInputs, Groups, RunnerTypeOK, ControlTypeOK
  <2> QED
    BY <2>1 DEF StopInv, CancelledBetweenGroups
<1> QED
  BY <1>1, <1>2, <1>3, RunnerWorks, PTL DEF Spec
-------------------------------------------------------------------------------
\* The run as its caller sees it.

LEMMA InputKept ==
  ASSUME [Next]_vars
  PROVE  input' = input
BY DEF Next, RunnerStep, Enter, CreateRuntime, InitializeRuntime, CheckInitialized, BeginSink,
   NextGroup, Propagate, ExecuteManeuver, TakeSamples, Accept, FinishGroup, CheckScheduleEnd,
   FlushCheck, FlushWrite, CheckFlushed, CheckFinalEpoch, CloseRuntime, LastCheck, CommitSink,
   ReturnCompleted, CleanRuntime, CleanSink, Cancel, Interrupt, Terminated, vars

\* The steps before the seal and of the clean-up that the caller cannot see.
Inner ==
  \/ CreateRuntime \/ InitializeRuntime \/ CheckInitialized \/ BeginSink
  \/ NextGroup \/ Propagate \/ ExecuteManeuver \/ TakeSamples \/ Accept
  \/ FinishGroup \/ CheckScheduleEnd \/ FlushCheck \/ FlushWrite \/ CheckFlushed
  \/ CheckFinalEpoch \/ CloseRuntime

LEMMA InnerMoves ==
  ASSUME Inner
  PROVE  /\ UNCHANGED <<cancelled, result>>
         /\ pc \notin Sealed \cup Reporting \cup {"done"}
         /\ pc' \notin Sealed \cup {"done"}
         /\ ~ May("outcome") /\ pc' \in Cancelling => cancelled
         /\ cause' = cause \/ cause' # "commit"
<1> USE DEF Sealed, Reporting, Cancelling, tokenVars, endVars, Proceed, Fail, CancelAt, CancelHere
<1>1. CASE CreateRuntime \/ InitializeRuntime \/ CheckInitialized \/ BeginSink
  BY <1>1 DEF CreateRuntime, InitializeRuntime, CheckInitialized, BeginSink
<1>2. CASE NextGroup \/ Propagate \/ FinishGroup \/ CheckScheduleEnd
  BY <1>2 DEF NextGroup, Propagate, FinishGroup, CheckScheduleEnd
<1>3. CASE ExecuteManeuver \/ TakeSamples
  BY <1>3 DEF ExecuteManeuver, TakeSamples
<1>4. CASE Accept \/ FlushWrite
  BY <1>4 DEF Accept, FlushWrite, Flush
<1>5. CASE FlushCheck \/ CheckFlushed \/ CheckFinalEpoch \/ CloseRuntime
  BY <1>5 DEF FlushCheck, CheckFlushed, CheckFinalEpoch, CloseRuntime
<1> QED
  BY <1>1, <1>2, <1>3, <1>4, <1>5 DEF Inner

\* The clean-up of a cancelled run starts where the token was read and set, or
\* where the runtime stopped on it.
LEMMA RequestKept ==
  ASSUME RequestInv, [Next]_vars
  PROVE  RequestInv'
<1> SUFFICES ASSUME ~ May("outcome"), pc' \in Cancelling
             PROVE  cancelled'
  BY DEF RequestInv, May
<1>1. pc \in Cancelling => cancelled
  BY DEF RequestInv
<1>2. CASE Inner
  BY <1>2, InnerMoves
<1>3. CASE Enter \/ LastCheck \/ CommitSink \/ ReturnCompleted
  BY <1>3 DEF Enter, LastCheck, CommitSink, ReturnCompleted, tokenVars, Proceed, Fail,
     CancelAt, Return, Cancelling
<1>4. CASE CleanRuntime \/ CleanSink
  BY <1>1, <1>4 DEF CleanRuntime, CleanSink, Return, tokenVars, Cancelling
<1>5. CASE Cancel \/ Interrupt \/ UNCHANGED vars
  BY <1>1, <1>5 DEF Cancel, Interrupt, vars, tokenVars, Cancelling
<1> QED
  BY <1>2, <1>3, <1>4, <1>5 DEF Next, RunnerStep, Terminated, Inner

\* The whole output of the run, and the output its caller can read.
Called == [c \in Channels |-> Expected(Groups, Len(Groups), c)]
Readable == IF Published THEN [c \in Channels |-> Identified(c, stored[c])] ELSE Empty
PastRequest == pc \in {"commit", "return"} \/ cause = "commit" \/ Published

CallerInv == RunnerTypeOK /\ SafetyInv /\ CommittedIsComplete /\ RequestInv

LEMMA SameTruth ==
  /\ (Published' <=> Published) => Published' = Published
  /\ (PastRequest' <=> PastRequest) => PastRequest' = PastRequest
BY DEF Published, PastRequest

\* An inner step is no step for the caller.
LEMMA InnerStutters ==
  ASSUME CallerInv, CallerInv', Inner, input' = input
  PROVE  UNCHANGED <<cancelled, PastRequest, Called, Published, Readable, result>>
<1>1. /\ UNCHANGED <<cancelled, result>>
      /\ pc \notin Sealed \cup Reporting \cup {"done"}
      /\ pc' \notin Sealed \cup {"done"}
      /\ cause' = cause \/ cause' # "commit"
  BY InnerMoves
<1>2. ~ Published /\ ~ Published' /\ cause = "none"
  BY <1>1 DEF CallerInv, SafetyInv, SinkInv, ReportInv, Sealed
<1>3. ~ PastRequest /\ ~ PastRequest'
  BY <1>1, <1>2 DEF PastRequest, Sealed
<1>4. Readable = Empty /\ Readable' = Empty /\ Empty' = Empty
  BY <1>2 DEF Readable, Empty
<1>5. Called' = Called
  BY DEF Called, Expected, GroupOutput, ManeuversThrough, Groups
<1> QED
  BY <1>1, <1>2, <1>3, <1>4, <1>5, SameTruth

\* What the caller sees of the other steps of the runner.
LEMMA OuterSteps ==
  ASSUME CallerInv, CallerInv', [Next]_vars, ~ May("outcome"), ~ Inner
  PROVE  \/ UNCHANGED <<cancelled, PastRequest, Published, Readable, result>>
         \/ /\ ~ cancelled /\ cancelled'
            /\ UNCHANGED <<PastRequest, Published, Readable, result>>
         \/ /\ pc # "done" /\ ~ cancelled /\ ~ PastRequest /\ PastRequest'
            /\ UNCHANGED <<cancelled, Published, Readable, result>>
         \/ /\ pc # "done" /\ PastRequest /\ ~ Published /\ Published'
            /\ UNCHANGED <<cancelled, PastRequest, result>>
         \/ /\ pc # "done"
            /\ \/ Published /\ result'.status = "COMPLETED"
               \/ cancelled /\ ~ PastRequest /\ ~ Published /\ result'.status = "CANCELLED"
               \/ ~ Published /\ result'.status = "ERROR"
            /\ UNCHANGED <<cancelled, PastRequest, Published, Readable>>
         \/ /\ pc # "done" /\ result'.status = "ESCAPED"
            /\ UNCHANGED <<cancelled, Published, Readable>>
<1>1. /\ (result.status = "RUNNING") = (pc # "done")
      /\ pc \notin Reporting \cup {"done"} => cause = "none"
      /\ Published => pc \in {"return", "done"}
      /\ pc = "return" => Published
      /\ cancelled \in BOOLEAN /\ cancelled' \in BOOLEAN
  BY DEF CallerInv, SafetyInv, SinkInv, ReportInv, RunnerTypeOK, ControlTypeOK
<1> USE DEF Reporting
<1>2. CASE Enter
  <2>1. /\ pc = "entry" /\ pc' \in {"create", "done"} /\ cause' \in {cause, "manifest"}
        /\ UNCHANGED <<cancelled, sinkBegun, status, stored>>
        /\ \/ UNCHANGED result
           \/ cancelled /\ result'.status = "CANCELLED"
           \/ result'.status = "ERROR"
    BY <1>2 DEF Enter, Proceed, Return, tokenVars, sinkVars, endVars
  <2>2. ~ Published /\ ~ Published' /\ Readable' = Readable
    BY <1>1, <2>1 DEF Published, Readable, Empty
  <2>3. ~ PastRequest /\ ~ PastRequest'
    BY <1>1, <2>1, <2>2 DEF PastRequest
  <2> QED
    BY <2>1, <2>2, <2>3, SameTruth
<1>3. CASE LastCheck
  <2>1. /\ pc = "lastCheck" /\ UNCHANGED <<cancelled, sinkBegun, status, stored, cause, result>>
        /\ \/ cancelled /\ pc' = "cancelClose"
           \/ ~ cancelled /\ pc' = "commit"
    BY <1>3 DEF LastCheck, CancelAt, Proceed, tokenVars, sinkVars, endVars
  <2>2. ~ Published /\ ~ Published' /\ Readable' = Readable
    BY <1>1, <2>1 DEF Published, Readable, Empty
  <2>3. ~ PastRequest /\ (PastRequest' <=> ~ cancelled)
    BY <1>1, <2>1, <2>2 DEF PastRequest
  <2> QED
    BY <2>1, <2>2, <2>3, SameTruth
<1>4. CASE CommitSink
  <2>1. /\ pc = "commit" /\ UNCHANGED <<cancelled, sinkBegun, stored, result>>
        /\ \/ pc' = "return" /\ status' = "COMMITTED"
           \/ pc' = "failClose" /\ cause' = "commit" /\ status' = status
    BY <1>4 DEF CommitSink, SinkCommit, Refused, Proceed, Fail, tokenVars, sinkVars, endVars
  <2>2. ~ Published /\ PastRequest /\ PastRequest'
    BY <1>1, <2>1 DEF PastRequest
  <2>3. CASE pc' = "return"
    <3>1. sinkBegun
      BY <2>1 DEF CallerInv, SafetyInv, SinkInv, Producing
    <3>2. Published'
      BY <2>1, <2>3, <3>1 DEF Published
    <3> QED
      BY <2>1, <2>2, <3>2, SameTruth
  <2>4. CASE pc' # "return"
    <3>1. ~ Published' /\ Readable' = Readable
      BY <2>1, <2>2, <2>4 DEF Published, Readable, Empty
    <3> QED
      BY <2>1, <2>2, <3>1, SameTruth
  <2> QED
    BY <2>3, <2>4
<1>5. CASE ReturnCompleted
  <2>1. /\ pc = "return" /\ UNCHANGED <<cancelled, sinkBegun, status, stored, cause>>
        /\ result'.status = "COMPLETED"
    BY <1>5 DEF ReturnCompleted, Return, tokenVars, sinkVars
  <2>2. Published /\ Published' /\ PastRequest /\ PastRequest'
    BY <1>1, <2>1 DEF Published, PastRequest
  <2>3. Readable' = Readable
    BY <2>1, <2>2 DEF Readable, Identified
  <2> QED
    BY <2>1, <2>2, <2>3, SameTruth
<1>6. CASE CleanRuntime \/ CleanSink
  <2>1. /\ pc \in {"cancelClose", "failClose", "cancelAbort", "failAbort"}
        /\ UNCHANGED <<cancelled, sinkBegun, cause>>
        /\ status' \in {status, "ABORTED"}
        /\ pc' \in {"cancelAbort", "failAbort", "done"}
        /\ \/ UNCHANGED result
           \/ result'.status = (IF pc = "cancelAbort" THEN "CANCELLED" ELSE "ERROR")
    BY <1>6 DEF CleanRuntime, CleanSink, SinkAbort, Refused, Return, tokenVars, sinkVars
  <2>2. ~ Published /\ ~ Published'
    BY <1>1, <2>1 DEF Published
  <2>3. Readable' = Readable
    BY <2>2 DEF Readable, Empty
  <2>4. PastRequest' <=> PastRequest
    BY <2>1, <2>2 DEF PastRequest
  <2>5. pc \in {"cancelClose", "cancelAbort"} => cancelled /\ ~ PastRequest
    BY <1>1, <2>2 DEF CallerInv, RequestInv, Cancelling, PastRequest
  <2> QED
    BY <2>1, <2>2, <2>3, <2>4, <2>5, SameTruth
<1>7. CASE Cancel \/ UNCHANGED vars
  <2>1. /\ UNCHANGED <<pc, sinkBegun, status, stored, cause, result>>
        /\ cancelled' = cancelled \/ (~ cancelled /\ cancelled')
    BY <1>7 DEF Cancel, vars, tokenVars, sinkVars, endVars
  <2>2. Published' <=> Published
    BY <2>1 DEF Published
  <2>3. PastRequest' <=> PastRequest
    BY <2>1, <2>2 DEF PastRequest
  <2>4. Readable' = Readable
    BY <2>1, <2>2 DEF Readable, Identified, Empty
  <2> QED
    BY <2>1, <2>2, <2>3, <2>4, SameTruth
<1>8. CASE Interrupt
  <2>1. /\ pc # "done" /\ UNCHANGED <<cancelled, sinkBegun, status, stored>>
        /\ result'.status = "ESCAPED"
    BY <1>8 DEF Interrupt, CallerInv, RunnerTypeOK, EndTypeOK, tokenVars, sinkVars
  <2>2. Published' <=> Published
    BY <2>1 DEF Published
  <2>3. Readable' = Readable
    BY <2>1, <2>2 DEF Readable, Identified, Empty
  <2> QED
    BY <2>1, <2>2, <2>3, SameTruth
<1> QED
  BY <1>2, <1>3, <1>4, <1>5, <1>6, <1>7, <1>8 DEF Next, RunnerStep, Terminated, Inner

\* Each step of a run is a step of the atomic contract, or one its caller does
\* not see.
LEMMA StepIsAtomic ==
  ASSUME CallerInv, CallerInv', [Next]_vars, ~ May("outcome")
  PROVE  [Atomic!AtomicNext]_(Atomic!atomicVars)
<1>0. input' = input
  BY InputKept
<1>1. Called' = Called
  BY <1>0 DEF Called, Expected, GroupOutput, ManeuversThrough, Groups
<1>2. Published' => Readable' = Called
  <2> SUFFICES ASSUME Published'
               PROVE  Readable' = Called
    OBVIOUS
  <2>1. Readable' = Called'
    BY DEF CallerInv, CommittedIsComplete, Readable, Called
  <2> QED
    BY <1>1, <2>1
<1>3. (result.status = "RUNNING") = (pc # "done")
  BY DEF CallerInv, SafetyInv, ReportInv
<1> USE DEF Atomic!atomicVars, Atomic!AtomicNext, Atomic!Running, PastRequest, Readable, Called
<1>4. CASE Inner
  BY <1>0, <1>4, InnerStutters
<1>5. CASE ~ Inner
  BY <1>1, <1>2, <1>3, <1>5, OuterSteps DEF Atomic!Request, Atomic!Seal, Atomic!Publish,
     Atomic!Stop, Atomic!Complete, Atomic!StopOnRequest, Atomic!StopOnError, Atomic!Escape
<1> QED
  BY <1>4, <1>5

\* Provided propagate_to reports CANCELLED only on request, a run is a run of the
\* atomic contract: its whole output becomes public in one step or none of it
\* does, the step that seals it sees the token unset, and the outcome reported
\* agrees with both.
THEOREM RunnerIsAtomic ==
  ASSUME ~ May("outcome")
  PROVE  Spec => ImplementsAtomicRun
<1>1. Init => RequestInv
  BY DEF Init, RequestInv, Cancelling
<1>2. RequestInv /\ [Next]_vars => RequestInv'
  BY RequestKept
<1>3. Init => Atomic!AtomicInit
  <2> SUFFICES ASSUME Init
               PROVE  Atomic!AtomicInit
    OBVIOUS
  <2>1. pc = "entry" /\ cause = "none" /\ ~ sinkBegun /\ cancelled = FALSE
        /\ result.status = "RUNNING"
    BY DEF Init
  <2> QED
    BY <2>1 DEF Atomic!AtomicInit, Published
<1>4. CallerInv /\ CallerInv' /\ [Next]_vars => [Atomic!AtomicNext]_(Atomic!atomicVars)
  BY StepIsAtomic
<1>5. RunnerTypeOK /\ SafetyInv /\ WorkInv /\ RequestInv => CallerInv
  BY DEF CallerInv, WorkInv, OutputInv, Whole, CommittedIsComplete
<1> QED
  BY <1>1, <1>2, <1>3, <1>4, <1>5, RunnerWorks, PTL
     DEF Spec, ImplementsAtomicRun, Atomic!AtomicSpec
================================================================================
