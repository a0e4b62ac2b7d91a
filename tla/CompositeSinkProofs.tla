------------------------- MODULE CompositeSinkProofs -------------------------
(***************************************************************************)
(* The composite sink, for any number of children of any capacity, any     *)
(* batches and any failures: what a client, the children and the marks of  *)
(* the composite can be at each point of each operation, and from it that  *)
(* nothing is left open, that committed children agree, that the first     *)
(* failure is the one raised, and that the composite is one sink.          *)
(***************************************************************************)
EXTENDS CompositeSink, TLAPS

Undoing == {"undoBegin", "undoCommit", "abort"}

\* The children are where they were or where an operation of their own put
\* them, and a NEW one retains nothing.
ShapeInv ==
  /\ DOMAIN child = Sinks /\ DOMAIN marker = Sinks
  /\ at \in 0 .. Children + 1
  /\ \A j \in Sinks : child[j].status = "NEW" => child[j].stored = Empty

\* What an operation in progress says about the client, and the client about
\* the composite's own status and store.
ClientInv ==
  /\ call \in {"none", "begin", "write", "commit"} \cup Undoing
  /\ call \in {"begin", "undoBegin"} => client = "fresh"
  /\ call \in {"write", "commit", "undoCommit"} => client = "open"
  /\ call = "abort" => client \in {"open", "failed"}
  /\ client = "fresh" => status = "NEW" /\ forwarded = Empty
  /\ client \in {"open", "failed"} => status = "WRITING"
  /\ status = "COMMITTED" => client = "ended"
  /\ status # "ABORTED" => stored = forwarded

\* The marks on the two sides of the child an operation has reached.
MarkerInv ==
  /\ client = "fresh" /\ call = "none" => \A j \in Sinks : marker[j] = "NEW"
  /\ call = "begin"  => \A j \in Sinks : marker[j] = IF j < at THEN "WRITING" ELSE "NEW"
  /\ client = "open" /\ call \in {"none", "write"} => \A j \in Sinks : marker[j] = "WRITING"
  /\ call = "commit" => \A j \in Sinks : marker[j] = IF j < at THEN "COMMITTED" ELSE "WRITING"
  /\ call \in Undoing => \A j \in Sinks : j > at /\ marker[j] = "WRITING" => j \in refused

\* What the children retain on the two sides of the child it has reached.
StoredInv ==
  /\ call = "begin" => \A j \in Sinks : j < at => child[j].stored = forwarded
  /\ client = "open" /\ call = "none" => \A j \in Sinks : child[j].stored = forwarded
  /\ call = "write" =>
       /\ batch \in Batches
       /\ \A j \in Sinks :
            /\ child[j].stored = IF j < at THEN Extended(forwarded, batch) ELSE forwarded
            /\ j < at => Total(forwarded) + Len(batch.records) <= Capacity[j]
  /\ call = "commit" => \A j \in Sinks : j >= at => child[j].stored = forwarded

Inv == ShapeInv /\ ClientInv /\ MarkerInv /\ StoredInv
       /\ NothingLeftOpen /\ CommittedChildrenAgree

-------------------------------------------------------------------------------
\* A step of child i leaves the other children, and their number, alone.
LEMMA OthersKept ==
  ASSUME ShapeInv, NEW i \in Sinks, OnlyChild(i)
  PROVE  /\ DOMAIN child' = Sinks
         /\ \A j \in Sinks : j # i => child'[j] = child[j]
BY DEF ShapeInv, OnlyChild

\* What a child that begins, writes, commits or aborts without raising retains.
LEMMA ChildBegins ==
  ASSUME NEW i \in Sinks, Child(i)!SinkBegin("ok")
  PROVE  /\ child[i].status = "NEW" /\ child'[i].status = "WRITING"
         /\ child'[i].stored = child[i].stored
BY DEF Child!SinkBegin

LEMMA ChildWrites ==
  ASSUME NEW i \in Sinks, NEW b, Child(i)!SinkWrite(b.channel, b.records, "ok")
  PROVE  /\ child'[i].stored = Extended(child[i].stored, b)
         /\ child'[i].status = "WRITING" /\ b.records # <<>>
         /\ Total(child[i].stored) + Len(b.records) <= Capacity[i]
BY DEF Child!SinkWrite, Child!Fits, Child!Total, Total, Extended

LEMMA ChildCommits ==
  ASSUME NEW i \in Sinks, Child(i)!SinkCommit("ok")
  PROVE  /\ child'[i].status = "COMMITTED"
         /\ child'[i].stored = child[i].stored
BY DEF Child!SinkCommit

\* A child that raises is as it was, or discarded everything and is aborted; it
\* is never NEW with something retained.
LEMMA ChildRaises ==
  ASSUME NEW i \in Sinks, NEW b,
         child[i].status = "NEW" => child[i].stored = Empty,
         \/ \E outcome \in Outcomes : Child(i)!SinkAbort(outcome)
         \/ Child(i)!SinkBegin("raise")
         \/ Child(i)!SinkWrite(b.channel, b.records, "raise")
         \/ Child(i)!SinkCommit("raise")
  PROVE  child'[i].status = "NEW" => child'[i].stored = Empty
BY DEF Child!SinkAbort, Child!SinkBegin, Child!SinkWrite, Child!SinkCommit,
       Child!Refused, Child!sinkVars, Child!Empty, Child!Channels, Empty, Channels

-------------------------------------------------------------------------------
LEMMA InvInit == Init => Inv
BY CompositeAssumption
   DEF Init, Inv, ShapeInv, ClientInv, MarkerInv, StoredInv, SinkInit, Sinks, Undoing,
       NothingLeftOpen, CommittedChildrenAgree

\* A call starts an operation at its first child.
LEMMA CallsKeepInv ==
  ASSUME Inv, CallBegin \/ CallWrite \/ CallCommit \/ CallAbort
  PROVE  Inv'
<1> USE CompositeAssumption
    DEF Inv, ShapeInv, ClientInv, MarkerInv, StoredInv, Sinks, Undoing, Call, sinkVars, childVars,
        NothingLeftOpen, CommittedChildrenAgree
<1>1. CASE CallBegin
  BY <1>1 DEF CallBegin
<1>2. CASE CallWrite
  BY <1>2 DEF CallWrite
<1>3. CASE CallCommit
  BY <1>3 DEF CallCommit
<1>4. CASE CallAbort
  BY <1>4 DEF CallAbort
<1> QED
  BY <1>1, <1>2, <1>3, <1>4

\* An operation over all children ends, or a BaseException ends it.
LEMMA EndsKeepInv ==
  ASSUME Inv, FinishBegin \/ FinishWrite \/ FinishCommit \/ FinishUndo \/ FinishAbort \/ Interrupt
  PROVE  Inv'
<1> USE CompositeAssumption
    DEF Inv, ShapeInv, ClientInv, MarkerInv, StoredInv, Sinks, Undoing, Return, sinkVars, childVars,
        historyVars, NothingLeftOpen, CommittedChildrenAgree
<1>1. CASE FinishBegin
  BY <1>1 DEF FinishBegin
<1>2. CASE FinishWrite
  BY <1>2 DEF FinishWrite
<1>3. CASE FinishCommit
  BY <1>3 DEF FinishCommit
<1>4. CASE FinishUndo
  BY <1>4 DEF FinishUndo
<1>5. CASE FinishAbort
  BY <1>5 DEF FinishAbort
<1>6. CASE Interrupt
  BY <1>6 DEF Interrupt
<1> QED
  BY <1>1, <1>2, <1>3, <1>4, <1>5, <1>6

\* The composite's own status, store and client stay while a child is called;
\* a write that fails tells the client.
LEMMA BeginKeepsInv ==
  ASSUME Inv, NEW i \in Sinks, BeginChild(i)
  PROVE  Inv'
<1> USE CompositeAssumption
    DEF Inv, ShapeInv, ClientInv, MarkerInv, StoredInv, Sinks, Undoing, sinkVars,
        NothingLeftOpen, CommittedChildrenAgree
<1>1. /\ DOMAIN child' = Sinks /\ \A j \in Sinks : j # i => child'[j] = child[j]
      /\ call = "begin" /\ at = i /\ client = "fresh"
      /\ UNCHANGED <<status, stored, batch, client, writes, forwarded, refused>>
  BY OthersKept DEF BeginChild
<1>2. ASSUME Child(i)!SinkBegin("ok"), marker' = [marker EXCEPT ![i] = "WRITING"],
             at' = i + 1, UNCHANGED <<call, error, failures>>
      PROVE  Inv'
  <2>1. child[i].status = "NEW" /\ child'[i].status = "WRITING"
        /\ child'[i].stored = child[i].stored
    BY <1>2, ChildBegins
  <2>2. ShapeInv'
    <3>1. DOMAIN marker' = Sinks /\ at' \in 0 .. Children + 1
      BY <1>1, <1>2
    <3>2. \A j \in Sinks : child'[j].status = "NEW" => child'[j].stored = Empty'
      BY <1>1, <2>1 DEF Empty
    <3> QED
      BY <1>1, <3>1, <3>2
  <2>3. ClientInv'
    BY <1>1, <1>2, <2>1
  <2>4. MarkerInv' /\ NothingLeftOpen'
    BY <1>1, <1>2, <2>1
  <2>5. StoredInv' /\ CommittedChildrenAgree'
    BY <1>1, <1>2, <2>1
  <2> QED
    BY <2>2, <2>3, <2>4, <2>5
<1>3. ASSUME Child(i)!SinkBegin("raise"), Raise("begin"), call' = "undoBegin", at' = i - 1,
             UNCHANGED marker
      PROVE  Inv'
  <2>1. child'[i].status = "NEW" => child'[i].stored = Empty
    BY <1>3, ChildRaises
  <2>2. ShapeInv'
    BY <1>1, <1>3, <2>1
  <2>3. ClientInv'
    BY <1>1, <1>3
  <2>4. MarkerInv' /\ NothingLeftOpen'
    BY <1>1, <1>3
  <2>5. StoredInv' /\ CommittedChildrenAgree'
    BY <1>1, <1>3
  <2> QED
    BY <2>2, <2>3, <2>4, <2>5
<1> QED
  BY <1>2, <1>3 DEF BeginChild

LEMMA WriteKeepsInv ==
  ASSUME Inv, NEW i \in Sinks, NEW b \in Batches, WriteChild(i, b)
  PROVE  Inv'
<1> USE CompositeAssumption
    DEF Inv, ShapeInv, ClientInv, MarkerInv, StoredInv, Sinks, Undoing, sinkVars,
        NothingLeftOpen, CommittedChildrenAgree
<1>1. /\ DOMAIN child' = Sinks /\ \A j \in Sinks : j # i => child'[j] = child[j]
      /\ call = "write" /\ at = i /\ batch = b /\ client = "open"
      /\ UNCHANGED <<status, stored, marker, writes, forwarded, refused>>
  BY OthersKept DEF WriteChild
<1>2. ASSUME Child(i)!SinkWrite(b.channel, b.records, "ok"), at' = i + 1,
             UNCHANGED <<call, batch, client, error, failures>>
      PROVE  Inv'
  <2>1. /\ child'[i].stored = Extended(child[i].stored, b)
        /\ child'[i].status = "WRITING" /\ b.records # <<>>
        /\ Total(child[i].stored) + Len(b.records) <= Capacity[i]
    BY <1>2, ChildWrites
  <2>2. ShapeInv'
    <3>1. at' \in 0 .. Children + 1
      BY <1>2
    <3>2. ASSUME NEW j \in Sinks, child'[j].status = "NEW"
          PROVE  child'[j].stored = Empty
      <4>1. j # i /\ child'[j] = child[j]
        BY <1>1, <2>1, <3>2
      <4> QED
        BY <3>2, <4>1
    <3> QED
      BY <1>1, <3>1, <3>2
  <2>3. ClientInv'
    BY <1>1, <1>2
  <2>4. MarkerInv' /\ NothingLeftOpen'
    BY <1>1, <1>2
  <2>5. StoredInv'
    <3>1. /\ child'[i].stored = Extended(forwarded, b)
          /\ Total(forwarded) + Len(b.records) <= Capacity[i]
      BY <1>1, <2>1
    <3>2. batch' \in Batches /\ call' = "write" /\ client' = "open" /\ forwarded' = forwarded
      BY <1>1, <1>2
    <3>3. \A j \in Sinks :
            /\ child'[j].stored = IF j < at' THEN Extended(forwarded, b) ELSE forwarded
            /\ j < at' => Total(forwarded) + Len(b.records) <= Capacity[j]
      BY <1>1, <1>2, <3>1
    <3> QED
      BY <1>1, <1>2, <3>2, <3>3 DEF Extended, Total
  <2>6. CommittedChildrenAgree'
    BY <1>1, <1>2, <2>1
  <2> QED
    BY <2>2, <2>3, <2>4, <2>5, <2>6
<1>3. ASSUME Child(i)!SinkWrite(b.channel, b.records, "raise"), Raise("write"),
             call' = "none", client' = "failed", batch' = NoBatch, UNCHANGED at
      PROVE  Inv'
  <2>1. child'[i].status = "NEW" => child'[i].stored = Empty
    BY <1>3, ChildRaises
  <2> QED
    BY <1>1, <1>3, <2>1
<1> QED
  BY <1>2, <1>3 DEF WriteChild

LEMMA CommitKeepsInv ==
  ASSUME Inv, NEW i \in Sinks, CommitChild(i)
  PROVE  Inv'
<1> USE CompositeAssumption
    DEF Inv, ShapeInv, ClientInv, MarkerInv, StoredInv, Sinks, Undoing, sinkVars,
        NothingLeftOpen, CommittedChildrenAgree
<1>1. /\ DOMAIN child' = Sinks /\ \A j \in Sinks : j # i => child'[j] = child[j]
      /\ call = "commit" /\ at = i /\ client = "open"
      /\ UNCHANGED <<status, stored, batch, client, writes, forwarded, refused>>
  BY OthersKept DEF CommitChild
<1>2. ASSUME Child(i)!SinkCommit("ok"), marker' = [marker EXCEPT ![i] = "COMMITTED"],
             at' = i + 1, UNCHANGED <<call, error, failures>>
      PROVE  Inv'
  <2>1. child'[i].status = "COMMITTED" /\ child'[i].stored = child[i].stored
    BY <1>2, ChildCommits
  <2>2. ShapeInv'
    BY <1>1, <1>2, <2>1
  <2>3. ClientInv'
    BY <1>1, <1>2, <2>1
  <2>4. MarkerInv' /\ NothingLeftOpen'
    BY <1>1, <1>2, <2>1
  <2>5. StoredInv' /\ CommittedChildrenAgree'
    BY <1>1, <1>2, <2>1
  <2> QED
    BY <2>2, <2>3, <2>4, <2>5
<1>3. ASSUME Child(i)!SinkCommit("raise"), Raise("commit"), call' = "undoCommit",
             at' = Children, UNCHANGED marker
      PROVE  Inv'
  <2>1. child'[i].status = "NEW" => child'[i].stored = Empty
    BY <1>3, ChildRaises
  <2>2. ShapeInv'
    BY <1>1, <1>3, <2>1
  <2>3. ClientInv'
    BY <1>1, <1>3, <2>1
  <2>4. MarkerInv' /\ NothingLeftOpen'
    BY <1>1, <1>3, <2>1
  <2>5. StoredInv' /\ CommittedChildrenAgree'
    BY <1>1, <1>3, <2>1
  <2> QED
    BY <2>2, <2>3, <2>4, <2>5
<1> QED
  BY <1>2, <1>3 DEF CommitChild

LEMMA AbortKeepsInv ==
  ASSUME Inv, NEW i \in Sinks, AbortChild(i)
  PROVE  Inv'
<1> USE CompositeAssumption
    DEF Inv, ShapeInv, ClientInv, MarkerInv, StoredInv, Sinks, Undoing, sinkVars, childVars,
        NothingLeftOpen, CommittedChildrenAgree
<1>1. /\ call \in Undoing /\ at = i /\ at' = i - 1
      /\ UNCHANGED <<status, stored, call, batch, client, writes, forwarded>>
  BY DEF AbortChild
<1>2. CASE marker[i] # "WRITING"
  BY <1>1, <1>2 DEF AbortChild
<1>3. CASE marker[i] = "WRITING"
  <2>1. DOMAIN child' = Sinks /\ \A j \in Sinks : j # i => child'[j] = child[j]
    BY <1>3, OthersKept DEF AbortChild
  <2>2. \E outcome \in Outcomes : Child(i)!SinkAbort(outcome)
    BY <1>3 DEF AbortChild, Outcomes
  <2>3. child'[i].status = "NEW" => child'[i].stored = Empty
    BY <2>2, ChildRaises
  <2>4. ASSUME marker' = [marker EXCEPT ![i] = "ABORTED"], UNCHANGED <<error, failures, refused>>
        PROVE  Inv'
    BY <1>1, <1>3, <2>1, <2>3, <2>4
  <2>5. ASSUME refused' = refused \cup {i}, UNCHANGED marker
        PROVE  Inv'
    BY <1>1, <1>3, <2>1, <2>3, <2>5
  <2> QED
    BY <1>3, <2>4, <2>5 DEF AbortChild
<1> QED
  BY <1>2, <1>3

-------------------------------------------------------------------------------
LEMMA StepKeepsInv == Inv /\ [Next]_vars => Inv'
<1> SUFFICES ASSUME Inv, [Next]_vars PROVE Inv'
  OBVIOUS
<1>1. CASE UNCHANGED vars
  BY <1>1 DEF vars, sinkVars, childVars, callVars, historyVars, Inv, ShapeInv, ClientInv,
      MarkerInv, StoredInv, NothingLeftOpen, CommittedChildrenAgree
<1>2. CASE Next
  BY <1>2, CallsKeepInv, EndsKeepInv, BeginKeepsInv, WriteKeepsInv, CommitKeepsInv,
     AbortKeepsInv DEF Next
<1> QED
  BY <1>1, <1>2

LEMMA CompositeInvariant == Spec => []Inv
<1> QED
  BY InvInit, StepKeepsInv, PTL DEF Spec

\* No child that a composite began is left open when its client is done, other
\* than one whose abort raised: begin, commit and abort clean up after any child.
THEOREM CompositeLeavesNothingOpen == Spec => []NothingLeftOpen
<1>1. Inv => NothingLeftOpen
  BY DEF Inv
<1> QED
  BY <1>1, CompositeInvariant, PTL

\* Children a composite committed are committed with the whole output, also when
\* a later child failed to commit.
THEOREM CommittedChildrenAreWhole == Spec => []CommittedChildrenAgree
<1>1. Inv => CommittedChildrenAgree
  BY DEF Inv
<1> QED
  BY <1>1, CompositeInvariant, PTL

-------------------------------------------------------------------------------
\* An operation has failed once it undoes what it did, and not while it goes on
\* from child to child or after it succeeded; the error kept is that of the
\* first child that raised.
ChildErrors == [op : {"begin", "write", "commit", "abort"}, child : Nat]

FailureInv ==
  /\ failures \in Seq(ChildErrors)
  /\ IF failures = <<>> THEN error = NoError ELSE error = Head(failures)
  /\ call \in {"begin", "write", "commit"} => failures = <<>>
  /\ call = "none" /\ client = "open" => failures = <<>>
  /\ status \in {"COMMITTED", "ABORTED"} => client = "ended" /\ failures = <<>>

\* One child that raised more: the first stays the first, and is an error.
LEMMA FailuresGrow ==
  ASSUME NEW f \in Seq(ChildErrors), NEW e \in ChildErrors
  PROVE  /\ Append(f, e) \in Seq(ChildErrors) /\ Append(f, e) # <<>>
         /\ Head(Append(f, e)) = IF f = <<>> THEN e ELSE Head(f)
         /\ f # <<>> => Head(f) # NoError
<1>1. PICK n \in Nat : n = Len(f)
  OBVIOUS
<1>2. /\ Append(f, e) \in Seq(ChildErrors) /\ Len(Append(f, e)) = n + 1
      /\ Append(f, e)[1] = IF n = 0 THEN e ELSE f[1]
  BY <1>1
<1>3. f = <<>> <=> n = 0
  BY <1>1
<1>4. n # 0 => f[1] \in ChildErrors
  BY <1>1
<1> QED
  BY <1>1, <1>2, <1>3, <1>4 DEF ChildErrors, NoError

LEMMA FailureInit == Init => FailureInv
BY DEF Init, SinkInit, FailureInv

LEMMA FailureKept == Inv /\ FailureInv /\ [Next]_vars => FailureInv'
<1> SUFFICES ASSUME Inv, FailureInv, [Next]_vars
             PROVE  FailureInv'
  OBVIOUS
<1>1. /\ call \in {"none", "begin", "write", "commit", "undoBegin", "undoCommit", "abort"}
      /\ call \in {"begin", "undoBegin"} => client = "fresh"
      /\ call \in {"write", "commit", "undoCommit"} => client = "open"
      /\ call = "abort" => client \in {"open", "failed"}
      /\ at \in Nat
  BY CompositeAssumption DEF Inv, ShapeInv, ClientInv, Undoing
<1>2. ASSUME NEW op \in {"begin", "write", "commit", "abort"}
      PROVE  Failure(op) \in ChildErrors
  BY <1>1 DEF Failure, ChildErrors
<1>3. CASE CallBegin \/ CallWrite \/ CallCommit \/ CallAbort
  <2>1. /\ error' = NoError /\ failures' = <<>> /\ status' = status
        /\ status \notin {"COMMITTED", "ABORTED"}
    BY <1>1, <1>3 DEF FailureInv, CallBegin, CallWrite, CallCommit, CallAbort, Call, sinkVars
  <2> QED
    BY <2>1 DEF FailureInv
<1>4. CASE \/ FinishBegin \/ FinishWrite \/ FinishCommit \/ FinishUndo \/ FinishAbort
           \/ Interrupt \/ UNCHANGED vars
  <2>1. error' = error /\ failures' = failures
    BY <1>4 DEF FinishBegin, FinishWrite, FinishCommit, FinishUndo, FinishAbort, Interrupt, Return,
      vars, callVars, historyVars
  <2>2. FinishAbort /\ status' = "ABORTED" => failures = <<>>
    BY <1>1, FailuresGrow DEF FinishAbort, FailureInv, sinkVars
  <2> QED
    BY <1>1, <1>4, <2>1, <2>2 DEF FinishBegin, FinishWrite, FinishCommit, FinishUndo, FinishAbort,
      Interrupt, Return, vars, callVars, sinkVars, FailureInv
<1>5. ASSUME NEW i \in Sinks, BeginChild(i) \/ CommitChild(i) \/ \E b \in Batches : WriteChild(i, b)
      PROVE  FailureInv'
  <2>1. failures = <<>> /\ status' = status /\ client' \in {client, "failed"}
    BY <1>5 DEF FailureInv, BeginChild, CommitChild, WriteChild, sinkVars
  <2>2. CASE failures' = failures /\ error' = error /\ call' = call /\ client' = client
    BY <2>1, <2>2 DEF FailureInv
  <2>3. CASE /\ \E op \in {"begin", "write", "commit"} : Raise(op)
             /\ call' \in {"undoBegin", "undoCommit", "none"}
             /\ call' = "none" => client' = "failed"
    <3>1. PICK op \in {"begin", "write", "commit"} : Raise(op)
      BY <2>3
    <3>2. failures' = Append(failures, Failure(op)) /\ error' = Failure(op)
      BY <3>1 DEF Raise, Fail
    <3>3. failures' \in Seq(ChildErrors) /\ failures' # <<>> /\ error' = Head(failures')
      BY <1>2, <2>1, <3>2, FailuresGrow DEF FailureInv
    <3>4. status' \notin {"COMMITTED", "ABORTED"}
      BY <1>1, <1>5, <2>1 DEF FailureInv, BeginChild, CommitChild, WriteChild
    <3> QED
      BY <2>1, <2>3, <3>3, <3>4 DEF FailureInv
  <2> QED
    BY <1>5, <2>2, <2>3 DEF BeginChild, CommitChild, WriteChild
<1>6. ASSUME NEW i \in Sinks, AbortChild(i)
      PROVE  FailureInv'
  <2>1. /\ status' = status /\ client' = client /\ call' = call
        /\ call \in {"abort", "undoBegin", "undoCommit"}
    BY <1>6 DEF AbortChild, sinkVars
  <2>2. CASE failures' = failures /\ error' = error
    BY <2>1, <2>2 DEF FailureInv
  <2>3. CASE Fail("abort") /\ error' = IF error = NoError THEN Failure("abort") ELSE error
    <3>1. failures' = Append(failures, Failure("abort")) /\ Failure("abort") \in ChildErrors
      BY <1>2, <2>3 DEF Fail
    <3>2. failures' \in Seq(ChildErrors) /\ failures' # <<>> /\ error' = Head(failures')
      BY <2>3, <3>1, FailuresGrow DEF FailureInv
    <3> QED
      BY <1>1, <2>1, <3>2 DEF FailureInv
  <2> QED
    BY <1>6, <2>2, <2>3 DEF AbortChild
<1> QED
  BY <1>3, <1>4, <1>5, <1>6 DEF Next

\* An operation raises the first of all its children's failures, whatever fails
\* in the rollback, and succeeds only if no child raised.
THEOREM FirstChildFailureRaised == Spec => []OriginalErrorRaised
<1>1. FailureInv => OriginalErrorRaised
  BY DEF FailureInv, OriginalErrorRaised
<1>2. Spec => []FailureInv
  BY FailureInit, FailureKept, CompositeInvariant, PTL DEF Spec
<1> QED
  BY <1>1, <1>2, PTL

-------------------------------------------------------------------------------
\* What is forwarded is typed, if the batches are.
LEMMA ForwardedTyped ==
  ASSUME NEW records, \A b \in Batches : b.records \in Seq(records)
  PROVE  Spec => [](forwarded \in [Channels -> Seq(records)])
<1> DEFINE Typed == forwarded \in [Channels -> Seq(records)]
<1>1. Init => Typed
  BY DEF Init, Empty
<1>2. Inv /\ Typed /\ [Next]_vars => Typed'
  <2> SUFFICES ASSUME Inv, Typed, [Next]_vars PROVE Typed'
    OBVIOUS
  <2>1. CASE FinishWrite
    <3>1. batch \in Batches /\ batch.channel \in Channels /\ batch.records \in Seq(records)
      BY <2>1, CompositeAssumption DEF FinishWrite, Inv, StoredInv
    <3>2. forwarded[batch.channel] \o batch.records \in Seq(records)
      BY <3>1
    <3> QED
      BY <2>1, <3>1, <3>2 DEF FinishWrite, Extended
  <2>2. CASE ~FinishWrite
    <3>1. UNCHANGED forwarded
      BY <2>2 DEF Next, vars, historyVars, CallBegin, CallWrite, CallCommit, CallAbort, Call,
         FinishBegin, FinishCommit, FinishUndo, FinishAbort, Interrupt,
         BeginChild, WriteChild, CommitChild, AbortChild
    <3> QED
      BY <3>1
  <2> QED
    BY <2>1, <2>2
<1> QED
  BY <1>1, <1>2, CompositeInvariant, PTL DEF Spec

\* To its client a composite is one sink with the bound of any of its children,
\* or a larger one, whatever its children do.
THEOREM CompositeIsOneSink ==
  ASSUME NEW k \in Sinks, Capacity[k] <= MaxRecords,
         NEW records, \A b \in Batches : b.records \in Seq(records)
  PROVE  Spec => ImplementsSink
<1> DEFINE Typed == forwarded \in [Channels -> Seq(records)]
           Batched == {b.records : b \in Batches}
<1>1. Init => SinkInit
  BY DEF Init
<1>2. Inv /\ Typed /\ [Next]_vars => [SinkStep(Batched)]_sinkVars
  <2> SUFFICES ASSUME Inv, Typed, [Next]_vars, ~UNCHANGED sinkVars
               PROVE  SinkStep(Batched)
    OBVIOUS
  <2>1. FinishBegin \/ FinishWrite \/ FinishCommit \/ FinishAbort
    BY DEF Next, vars, CallBegin, CallWrite, CallCommit, CallAbort, Call, FinishUndo, Interrupt,
       BeginChild, WriteChild, CommitChild, AbortChild
  <2>2. CASE FinishBegin
    BY <2>2 DEF FinishBegin, SinkStep, SinkBegin, Outcomes, Inv, ClientInv
  <2>3. CASE FinishWrite
    <3>1. /\ call = "write" /\ at = Children + 1 /\ status = "WRITING" /\ UNCHANGED status
          /\ stored' = Extended(stored, batch) /\ stored = forwarded
          /\ batch \in Batches /\ batch.channel \in Channels /\ Len(batch.records) > 0
          /\ batch.records \in Seq(records)
      BY <2>3, CompositeAssumption DEF FinishWrite, Inv, ClientInv, StoredInv
    <3>2. k < at /\ Capacity[k] \in Nat /\ MaxRecords \in Nat
      BY <3>1, CompositeAssumption, SinkAssumption DEF Sinks
    <3>3. Total(forwarded) + Len(batch.records) <= Capacity[k]
      BY <3>1, <3>2 DEF Inv, StoredInv
    <3>4. Total(forwarded) \in Nat /\ Len(batch.records) \in Nat
      BY <3>1 DEF Total, Channels
    <3>5. Fits(batch.records)
      BY <3>1, <3>2, <3>3, <3>4 DEF Fits
    <3>6. batch.records # <<>>
      BY <3>1
    <3>7. SinkWrite(batch.channel, batch.records, "ok")
      BY <3>1, <3>5, <3>6 DEF SinkWrite, Extended
    <3> QED
      BY <3>1, <3>7 DEF SinkStep, Outcomes
  <2>4. CASE FinishCommit
    BY <2>4 DEF FinishCommit, SinkStep, SinkCommit, Outcomes, Inv, ClientInv
  <2>5. CASE FinishAbort
    BY <2>5 DEF FinishAbort, SinkStep, SinkAbort, Outcomes, Inv, ClientInv, Undoing
  <2> QED
    BY <2>1, <2>2, <2>3, <2>4, <2>5
<1> QED
  BY <1>1, <1>2, CompositeInvariant, ForwardedTyped, PTL DEF Spec, ImplementsSink
===============================================================================
