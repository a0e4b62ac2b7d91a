---------------------------- MODULE CompositeSink ----------------------------
(***************************************************************************)
(* CompositeOutputSink (engine/sinks.py): one sink that forwards to        *)
(* ordered children, each an OutputSink of its own, driven the way         *)
(* BatchRunner drives a sink: begin, writes, commit, and abort after the   *)
(* first failure or a cancellation, but only if begin succeeded.           *)
(*                                                                         *)
(* status is the composite's own _status; stored is what the composite     *)
(* forwarded to all its children, which retain it.  One action per call of *)
(* a child, because any of them may raise.                                 *)
(***************************************************************************)
EXTENDS OutputSink

CONSTANTS
  Children,     \* number of children
  Capacity,     \* max_records of each child
  Batches,      \* batches a client may write: [channel, records]
  MaxWrites,    \* bound on the writes of one run
  ChildFaults,  \* child operations whose hook may raise
  ChildStates,  \* states the children may be in when the composite gets them
  MayInterrupt  \* whether a BaseException may escape from a child call

VARIABLES
  child,        \* state of each child: [status, stored]
  marker,       \* _child_statuses
  call, at,     \* the operation in progress and the child it has reached
  batch,        \* the batch being written
  error,        \* the child failure the operation is going to raise
  client,       \* what the client may still call

\* History variables, read by the properties only.
  writes,       \* writes begun
  forwarded,    \* everything forwarded to all children
  refused,      \* children whose abort raised
  failures      \* child calls of the operation that raised, in order

childVars   == <<child, marker>>
callVars    == <<call, at, batch, error, client>>
historyVars == <<writes, forwarded, refused, failures>>
vars == <<sinkVars, childVars, callVars, historyVars>>

Sinks   == 1 .. Children
NoError == [op |-> "none", child |-> 0]
NoBatch == [channel |-> "none", records |-> <<>>]

ASSUME CompositeAssumption ==
  /\ Children \in Nat /\ MaxWrites \in Nat
  /\ Capacity \in [Sinks -> Nat \ {0}]
  /\ ChildFaults \subseteq Operations
  /\ MayInterrupt \in BOOLEAN
  /\ \A s \in ChildStates : s.status = "NEW" => s.stored = Empty
  /\ \A b \in Batches : b.channel \in Channels /\ Len(b.records) > 0

Child(i) == INSTANCE OutputSink WITH
  status     <- child[i].status,
  stored     <- child[i].stored,
  MaxRecords <- Capacity[i],
  SinkFaults <- ChildFaults

\* A store with one more batch on its channel.
Extended(store, b) == [store EXCEPT ![b.channel] = @ \o b.records]

\* Child i, and only child i, may change; its own module says how.
OnlyChild(i) ==
  \E s \in SinkStatus,
     kept \in {child[i].stored, Empty} \cup
              (IF batch = NoBatch THEN {} ELSE {Extended(child[i].stored, batch)}) :
    child' = [child EXCEPT ![i] = [status |-> s, stored |-> kept]]

-------------------------------------------------------------------------------
Init ==
  /\ SinkInit
  /\ child \in [Sinks -> ChildStates]
  /\ marker = [i \in Sinks |-> "NEW"]
  /\ call = "none" /\ at = 0 /\ batch = NoBatch /\ error = NoError
  /\ client = "fresh"
  /\ writes = 0 /\ forwarded = Empty /\ refused = {} /\ failures = <<>>

\* The client calls an operation, which starts at child i.
Call(op, i) ==
  /\ call = "none"
  /\ call' = op /\ at' = i
  /\ error' = NoError /\ failures' = <<>>
  /\ UNCHANGED <<sinkVars, childVars, client, forwarded, refused>>

CallBegin == client = "fresh" /\ Call("begin", 1) /\ UNCHANGED <<batch, writes>>

CallWrite ==
  /\ client = "open" /\ writes < MaxWrites
  /\ batch' \in Batches
  /\ writes' = writes + 1
  /\ Call("write", 1)

CallCommit == client = "open" /\ Call("commit", 1) /\ UNCHANGED <<batch, writes>>

\* After a failure, or for a cancellation.
CallAbort ==
  /\ client \in {"open", "failed"}
  /\ Call("abort", Children)
  /\ UNCHANGED <<batch, writes>>

\* The operation is over; next is what the client may do then.
Return(next) ==
  /\ call' = "none" /\ client' = next /\ batch' = NoBatch
  /\ UNCHANGED <<at, error, failures>>

\* Child `at` raised during op.
Failure(op) == [op |-> op, child |-> at]
Fail(op) == failures' = Append(failures, Failure(op))

\* The handler of begin, write and commit keeps that error, to raise it again.
Raise(op) == Fail(op) /\ error' = Failure(op)

-------------------------------------------------------------------------------
\* Variant: a child that fails to begin leaves the others open.
BeginChildNoRollback(i) ==
  /\ call = "begin" /\ at = i
  /\ OnlyChild(i)
  /\ \/ /\ Child(i)!SinkBegin("ok")
        /\ marker' = [marker EXCEPT ![i] = "WRITING"]
        /\ at' = i + 1
        /\ UNCHANGED <<call, error, failures, client>>
     \/ /\ Child(i)!SinkBegin("raise")
        /\ Raise("begin")
        /\ call' = "none" /\ client' = "ended"
        /\ UNCHANGED <<marker, at>>
  /\ UNCHANGED <<sinkVars, batch, writes, forwarded, refused>>

\* Children begin in order; a failure aborts those that did, in reverse.
BeginChild(i) ==
  /\ call = "begin" /\ at = i
  /\ OnlyChild(i)
  /\ \/ /\ Child(i)!SinkBegin("ok")
        /\ marker' = [marker EXCEPT ![i] = "WRITING"]
        /\ at' = i + 1
        /\ UNCHANGED <<call, error, failures>>
     \/ /\ Child(i)!SinkBegin("raise")
        /\ Raise("begin")
        /\ call' = "undoBegin" /\ at' = i - 1
        /\ UNCHANGED marker
  /\ UNCHANGED <<sinkVars, batch, client, writes, forwarded, refused>>

FinishBegin ==
  /\ call = "begin" /\ at = Children + 1
  /\ status' = "WRITING"
  /\ Return("open")
  /\ UNCHANGED <<stored, childVars, writes, forwarded, refused>>

\* Variant: a child that raises is passed over.
WriteChildBestEffort(i, b) ==
  /\ call = "write" /\ at = i /\ batch = b
  /\ OnlyChild(i)
  /\ \E outcome \in Outcomes : Child(i)!SinkWrite(b.channel, b.records, outcome)
  /\ at' = i + 1
  /\ UNCHANGED <<sinkVars, marker, call, batch, client, error, historyVars>>

\* A write stops at the first child that raises; earlier children keep theirs.
WriteChild(i, b) ==
  /\ call = "write" /\ at = i /\ batch = b
  /\ OnlyChild(i)
  /\ \/ /\ Child(i)!SinkWrite(b.channel, b.records, "ok")
        /\ at' = i + 1
        /\ UNCHANGED <<call, batch, client, error, failures>>
     \/ /\ Child(i)!SinkWrite(b.channel, b.records, "raise")
        /\ Raise("write")
        /\ call' = "none" /\ client' = "failed" /\ batch' = NoBatch
        /\ UNCHANGED at
  /\ UNCHANGED <<sinkVars, marker, writes, forwarded, refused>>

FinishWrite ==
  /\ call = "write" /\ at = Children + 1
  /\ stored' = Extended(stored, batch)
  /\ forwarded' = Extended(forwarded, batch)
  /\ Return("open")
  /\ UNCHANGED <<status, childVars, writes, refused>>

\* Children commit in order; a failure aborts those that did not.
CommitChild(i) ==
  /\ call = "commit" /\ at = i
  /\ OnlyChild(i)
  /\ \/ /\ Child(i)!SinkCommit("ok")
        /\ marker' = [marker EXCEPT ![i] = "COMMITTED"]
        /\ at' = i + 1
        /\ UNCHANGED <<call, error, failures>>
     \/ /\ Child(i)!SinkCommit("raise")
        /\ Raise("commit")
        /\ call' = "undoCommit" /\ at' = Children
        /\ UNCHANGED marker
  /\ UNCHANGED <<sinkVars, batch, client, writes, forwarded, refused>>

FinishCommit ==
  /\ call = "commit" /\ at = Children + 1
  /\ status' = "COMMITTED"
  /\ Return("ended")
  /\ UNCHANGED <<stored, childVars, writes, forwarded, refused>>

\* Variant of the clean-up: the last failure is kept.
AbortChildKeepsLast(i) ==
  /\ call \in {"abort", "undoBegin", "undoCommit"} /\ at = i
  /\ \/ /\ marker[i] # "WRITING"
        /\ UNCHANGED <<childVars, error, failures, refused>>
     \/ /\ marker[i] = "WRITING"
        /\ OnlyChild(i)
        /\ \/ /\ Child(i)!SinkAbort("ok")
              /\ marker' = [marker EXCEPT ![i] = "ABORTED"]
              /\ UNCHANGED <<error, failures, refused>>
           \/ /\ Child(i)!SinkAbort("raise")
              /\ refused' = refused \cup {i}
              /\ Raise("abort")
              /\ UNCHANGED marker
  /\ at' = i - 1
  /\ UNCHANGED <<sinkVars, call, batch, client, writes, forwarded>>

\* _abort_writing_children: best effort over the children marked WRITING.  Only
\* the first failure is kept, and none replaces one the operation already has.
AbortChild(i) ==
  /\ call \in {"abort", "undoBegin", "undoCommit"} /\ at = i
  /\ \/ /\ marker[i] # "WRITING"
        /\ UNCHANGED <<childVars, error, failures, refused>>
     \/ /\ marker[i] = "WRITING"
        /\ OnlyChild(i)
        /\ \/ /\ Child(i)!SinkAbort("ok")
              /\ marker' = [marker EXCEPT ![i] = "ABORTED"]
              /\ UNCHANGED <<error, failures, refused>>
           \/ /\ Child(i)!SinkAbort("raise")
              /\ refused' = refused \cup {i}
              /\ Fail("abort")
              /\ error' = IF error = NoError THEN Failure("abort") ELSE error
              /\ UNCHANGED marker
  /\ at' = i - 1
  /\ UNCHANGED <<sinkVars, call, batch, client, writes, forwarded>>

\* Variant: a composite whose begin was rolled back counts as aborted.
FinishUndoAborted ==
  /\ call \in {"undoBegin", "undoCommit"} /\ at = 0
  /\ status' = "ABORTED"
  /\ Return(IF call = "undoBegin" THEN "ended" ELSE "failed")
  /\ UNCHANGED <<stored, childVars, writes, forwarded, refused>>

\* begin and commit raise their own error after the clean-up.  A failed begin
\* leaves the composite NEW, so its client does not abort it.
FinishUndo ==
  /\ call \in {"undoBegin", "undoCommit"} /\ at = 0
  /\ Return(IF call = "undoBegin" THEN "ended" ELSE "failed")
  /\ UNCHANGED <<sinkVars, childVars, writes, forwarded, refused>>

FinishAbort ==
  /\ call = "abort" /\ at = 0
  /\ \/ error = NoError /\ status' = "ABORTED" /\ stored' = Empty
     \/ error # NoError /\ UNCHANGED sinkVars
  /\ Return("ended")
  /\ UNCHANGED <<childVars, writes, forwarded, refused>>

\* `except Exception` does not catch a BaseException raised by a child.
Interrupt ==
  /\ MayInterrupt /\ call # "none"
  /\ call' = "none" /\ client' = "escaped" /\ batch' = NoBatch
  /\ UNCHANGED <<sinkVars, childVars, at, error, historyVars>>

Next ==
  \/ CallBegin \/ CallWrite \/ CallCommit \/ CallAbort
  \/ FinishBegin \/ FinishWrite \/ FinishCommit \/ FinishUndo \/ FinishAbort
  \/ \E i \in Sinks :
       \/ BeginChild(i) \/ CommitChild(i) \/ AbortChild(i)
       \/ \E b \in Batches : WriteChild(i, b)
  \/ Interrupt

Spec == Init /\ [][Next]_vars

-------------------------------------------------------------------------------
\* To its client the composite is one single-use sink: whatever its children
\* do, each of its operations either takes the effect of a sink's operation or
\* raises and takes none.
ImplementsSink ==
  SinkInit /\ [][SinkStep({b.records : b \in Batches})]_sinkVars

\* A committed composite has committed all its children, and every child it
\* committed, also in a commit that failed later, retains the whole output.
CommittedChildrenAgree ==
  /\ status = "COMMITTED" => \A i \in Sinks : marker[i] = "COMMITTED"
  /\ \A i \in Sinks : marker[i] = "COMMITTED" =>
       child[i].status = "COMMITTED" /\ child[i].stored = forwarded

\* When the client is done, no child that the composite began is left open,
\* other than one whose own abort raised; that includes a failed begin, after
\* which the client does not call abort.
NothingLeftOpen ==
  client = "ended" =>
    \A i \in Sinks : marker[i] = "WRITING" => i \in refused

\* Of all the child calls of an operation that raised, those of its rollback
\* included, the operation raises the first; and none is swallowed: an operation
\* that succeeded saw no child raise.
OriginalErrorRaised ==
  /\ failures = <<>> => error = NoError
  /\ failures # <<>> => error = Head(failures)
  /\ call = "none" /\ (client = "open" \/ status \in {"COMMITTED", "ABORTED"}) => failures = <<>>
===============================================================================
