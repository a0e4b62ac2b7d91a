------------------------- MODULE EventScheduleProofs -------------------------
(***************************************************************************)
(* The event schedule for every manifest, every cadence and every rounding *)
(* of the time adapter: groups strictly increase, and every maneuver that  *)
(* runs is in the one group of its instant.  Then the calendar that the    *)
(* adapter computes with: its texts are normal, and its instants exact.    *)
(***************************************************************************)
EXTENDS EventSchedule, Calendar, SequenceLemmas

\* The maneuvers the generator keeps when it starts.
ToRun == {i \in DOMAIN Timeline : Executable(Timeline[i])}

\* Look-aheads stay inside the range of the run.
LookaheadInv ==
  \A p \in Products : lookahead[p] # Exhausted =>
    p \in Rules /\ lookahead[p] >= request.start /\ lookahead[p] <= request.end

\* Everything still to be scheduled is later than every group yielded.
NothingLate ==
  \A k \in DOMAIN groups :
    /\ \A p \in Products : lookahead[p] # Exhausted => groups[k].epoch < lookahead[p]
    /\ \A i \in remaining : groups[k].epoch < Timeline[i].epoch

\* A maneuver to run is either waiting or in the group of its instant.
WaitingInv ==
  /\ remaining \subseteq ToRun
  /\ phase = "ready" => groups = <<>>
  /\ phase = "running" =>
       \A i \in ToRun : i \in remaining \/ \E k \in DOMAIN groups : i \in groups[k].maneuvers
  /\ phase = "exhausted" =>
       \A i \in ToRun : \E k \in DOMAIN groups : i \in groups[k].maneuvers

ExactGroups ==
  \A k \in DOMAIN groups :
    groups[k].maneuvers = {i \in ToRun : Timeline[i].epoch = groups[k].epoch}

ScheduleInv ==
  /\ ScheduleTypeOK
  /\ LookaheadInv
  /\ NothingLate
  /\ GroupsIncrease
  /\ WaitingInv
  /\ ExactGroups

-------------------------------------------------------------------------------
\* A nonempty set of order indices has a least one.
LEMMA LeastIndex ==
  ASSUME NEW S \in SUBSET Nat, S # {}
  PROVE  \E m \in S : \A n \in S : m <= n
<1> DEFINE Less == {ss \in Nat \X Nat : ss[1] < ss[2]}
<1>1. IsWellFoundedOn(Less, Nat)
  BY NatLessThanWellFounded DEF OpToRel
<1>2. PICK m \in S : \A n \in S : ~ (<<n, m>> \in Less)
  <2> HIDE DEF Less
  <2> QED
    BY <1>1, WFMin
<1>3. ASSUME NEW n \in S
      PROVE  m <= n
  <2>1. m \in Nat /\ n \in Nat
    OBVIOUS
  <2>2. n < m => <<n, m>> \in Less
    BY <2>1
  <2> QED
    BY <1>2, <2>1, <2>2
<1> QED
  BY <1>3

\* The prepared manifest in the form the proofs use it.
LEMMA PreparedRequest ==
  ASSUME ScheduleTypeOK
  PROVE  /\ Ulp \in Nat
         /\ request.start \in Nat /\ request.end \in Nat /\ request.sync \in Nat
         /\ request.sync <= request.start /\ request.start <= request.end
         /\ Rules \subseteq Products
         /\ \A p \in Rules : request.intervals[p] \in Nat \ {0}
         /\ DOMAIN Timeline \subseteq Nat
         /\ \A i \in DOMAIN Timeline : Timeline[i] \in Entries
         /\ \A i, j \in DOMAIN Timeline : i <= j => Timeline[i].epoch <= Timeline[j].epoch
         /\ \A i \in DOMAIN Timeline :
              Timeline[i].source = "PLANNED" => Timeline[i].epoch >= request.sync
<1>1. Prepared(request) /\ Ulp \in Nat
  BY ScheduleAssumption DEF ScheduleTypeOK
<1>2. Timeline \in Seq(Entries)
  BY <1>1 DEF Prepared, Timeline
<1> QED
  BY <1>1, <1>2 DEF Prepared, Rules, Timeline

\* What the code filters for is what the manifest says runs.
LEMMA ExecutableRuns ==
  ASSUME ScheduleTypeOK, NEW i \in DOMAIN Timeline
  PROVE  Executable(Timeline[i]) <=> Runs(Timeline[i])
<1>1. Timeline[i] \in Entries
  BY PreparedRequest
<1>2. Timeline[i].epoch \in Nat /\ Timeline[i].source \in {"PLANNED", "COMMAND"}
  BY <1>1 DEF Entries
<1> QED
  BY <1>2, PreparedRequest DEF Executable, Runs

\* A sampler only moves forward, and never past the end.
LEMMA SamplerAdvances ==
  ASSUME ScheduleTypeOK, NEW p \in Rules, NEW at \in Nat, at <= request.end,
         NEW next \in AfterSample(p, at)
  PROVE  next = Exhausted \/ (next \in Nat /\ at < next /\ next <= request.end)
<1> USE PreparedRequest
<1>1. CASE at = request.end
  BY <1>1 DEF AfterSample
<1>2. CASE at # request.end
  <2>1. next \in {request.end, at + request.intervals[p]}
    BY <1>2 DEF AfterSample
  <2>2. CASE next = request.end
    BY <1>2, <2>2
  <2>3. CASE next # request.end
    <3>1. at + request.intervals[p] < request.end /\ next = at + request.intervals[p]
      BY <1>2, <2>3 DEF AfterSample
    <3> QED
      BY <3>1
  <2> QED
    BY <2>1, <2>2, <2>3
<1> QED
  BY <1>1, <1>2

-------------------------------------------------------------------------------
\* What holds of the instant a turn of the loop picks.
LEMMA EarliestInstant ==
  ASSUME ScheduleInv, NEW at \in Candidates, \A e \in Candidates : at <= e
  PROVE  /\ at \in Nat
         /\ \A k \in DOMAIN groups : groups[k].epoch < at
         /\ \A p \in Products : lookahead[p] # Exhausted => at <= lookahead[p]
         /\ \A i \in remaining : at <= Timeline[i].epoch
         /\ Leading(at) = {i \in remaining : Timeline[i].epoch = at}
<1> USE PreparedRequest DEF ScheduleInv
<1>0. ScheduleTypeOK
  OBVIOUS
<1>1. remaining \in SUBSET Nat /\ \A i \in remaining : Timeline[i].epoch \in Nat
  BY <1>0 DEF ScheduleTypeOK, Entries
<1>2. \A p \in Products : lookahead[p] # Exhausted => lookahead[p] \in Nat
  BY <1>0 DEF ScheduleTypeOK
<1>3. at \in Nat
  BY <1>1, <1>2 DEF Candidates, AtCursor
<1>4. \A k \in DOMAIN groups : groups[k].epoch < at
  BY DEF NothingLate, Candidates, AtCursor
<1>5. \A p \in Products : lookahead[p] # Exhausted => at <= lookahead[p]
  BY DEF Candidates
<1>6. \A i \in remaining : at <= Timeline[i].epoch
  <2> SUFFICES ASSUME NEW i \in remaining
               PROVE  at <= Timeline[i].epoch
    OBVIOUS
  <2>1. PICK m \in remaining : \A j \in remaining : m <= j
    BY <1>1, LeastIndex
  <2>2. at <= Timeline[m].epoch
    BY <2>1 DEF Candidates, AtCursor
  <2>3. Timeline[m].epoch <= Timeline[i].epoch
    BY <1>0, <2>1 DEF ScheduleTypeOK
  <2> QED
    BY <1>1, <1>3, <2>2, <2>3
<1>7. Leading(at) = {i \in remaining : Timeline[i].epoch = at}
  <2>1. ASSUME NEW i \in remaining, Timeline[i].epoch = at, NEW j \in remaining, j <= i
        PROVE  Timeline[j].epoch = at
    <3>1. Timeline[j].epoch <= Timeline[i].epoch
      BY <1>0, <2>1 DEF ScheduleTypeOK
    <3> QED
      BY <1>1, <1>3, <1>6, <2>1, <3>1
  <2>2. \A i \in remaining : i <= i
    BY <1>1
  <2> QED
    BY <2>1, <2>2 DEF Leading
<1> QED
  BY <1>3, <1>4, <1>5, <1>6, <1>7

-------------------------------------------------------------------------------
\* The group a turn yields, appended to those before it.
LEMMA Yielded ==
  ASSUME ScheduleInv, NEW at \in Candidates, YieldGroup(at)
  PROVE  /\ groups' \in Seq(Group)
         /\ DOMAIN groups' = DOMAIN groups \cup {Len(groups) + 1}
         /\ DOMAIN groups = 1 .. Len(groups) /\ Len(groups) \in Nat
         /\ \A k \in DOMAIN groups : groups'[k] = groups[k]
         /\ groups'[Len(groups) + 1] =
              [epoch |-> at, maneuvers |-> Leading(at), products |-> Due(at)]
<1> DEFINE g == [epoch |-> at, maneuvers |-> Leading(at), products |-> Due(at)]
<1>0. ScheduleTypeOK
  BY DEF ScheduleInv
<1>1. groups \in Seq(Group)
  BY <1>0 DEF ScheduleTypeOK
<1>2. groups' = Append(groups, g)
  BY DEF YieldGroup
<1>3. at \in Nat
  BY EarliestInstant DEF YieldGroup
<1>4. Leading(at) \in SUBSET Nat
  BY <1>0, PreparedRequest DEF ScheduleTypeOK, Leading
<1>5. Due(at) \in SUBSET Products
  BY DEF Due
<1>6. g \in Group
  BY <1>3, <1>4, <1>5 DEF Group
<1> HIDE DEF g
<1>7. /\ groups' \in Seq(Group)
      /\ DOMAIN groups' = DOMAIN groups \cup {Len(groups) + 1}
      /\ DOMAIN groups = 1 .. Len(groups) /\ Len(groups) \in Nat
      /\ \A k \in DOMAIN groups : groups'[k] = groups[k]
      /\ groups'[Len(groups) + 1] = g
  BY <1>1, <1>2, <1>6
<1> QED
  BY <1>7 DEF g

\* Where the look-aheads are after a turn.
LEMMA LookaheadsAfter ==
  ASSUME ScheduleInv, NEW at \in Candidates, YieldGroup(at), NEW p \in Products
  PROVE  /\ lookahead'[p] \in Nat \cup {Exhausted}
         /\ lookahead'[p] # Exhausted =>
              /\ p \in Rules
              /\ at < lookahead'[p]
              /\ lookahead'[p] >= request.start /\ lookahead'[p] <= request.end
<1>0. ScheduleTypeOK /\ LookaheadInv
  BY DEF ScheduleInv
<1>1. /\ at \in Nat
      /\ lookahead[p] # Exhausted => at <= lookahead[p]
  BY EarliestInstant DEF YieldGroup
<1>2. IF p \in Due(at) THEN lookahead'[p] \in AfterSample(p, at)
                       ELSE lookahead'[p] = lookahead[p]
  BY DEF YieldGroup
<1>3. lookahead[p] \in Nat \cup {Exhausted}
  BY <1>0 DEF ScheduleTypeOK
<1>4. request.start \in Nat /\ request.end \in Nat
  BY <1>0, PreparedRequest
<1>5. CASE p \in Due(at)
  <2>1. lookahead[p] = at /\ at # Exhausted
    BY <1>1, <1>5 DEF Due, Exhausted
  <2>2. p \in Rules /\ at >= request.start /\ at <= request.end
    BY <1>0, <2>1 DEF LookaheadInv
  <2>3. \/ lookahead'[p] = Exhausted
        \/ lookahead'[p] \in Nat /\ at < lookahead'[p] /\ lookahead'[p] <= request.end
    BY <1>0, <1>1, <1>2, <1>5, <2>2, SamplerAdvances
  <2> QED
    BY <1>1, <1>4, <2>2, <2>3
<1>6. CASE p \notin Due(at)
  <2>1. lookahead'[p] = lookahead[p] /\ lookahead[p] # at
    BY <1>2, <1>6 DEF Due
  <2>2. lookahead[p] # Exhausted =>
          p \in Rules /\ lookahead[p] >= request.start /\ lookahead[p] <= request.end
    BY <1>0 DEF LookaheadInv
  <2> QED
    BY <1>1, <1>3, <2>1, <2>2
<1> QED
  BY <1>5, <1>6

\* The invariant holds before the generator is advanced.
LEMMA ScheduleInit == Init => ScheduleInv
<1> SUFFICES ASSUME Init
             PROVE  ScheduleInv
  OBVIOUS
<1> USE DEF Init
<1>1. ScheduleTypeOK
  <2>1. lookahead \in [Products -> Nat \cup {Exhausted}]
    BY DEF Nothing
  <2>2. groups \in Seq(Group)
    OBVIOUS
  <2> QED
    BY <2>1, <2>2 DEF ScheduleTypeOK, Phases
<1>2. LookaheadInv
  BY DEF LookaheadInv, Nothing
<1>3. NothingLate /\ GroupsIncrease /\ ExactGroups
  BY DEF NothingLate, GroupsIncrease, ExactGroups
<1>4. WaitingInv
  BY DEF WaitingInv
<1> QED
  BY <1>1, <1>2, <1>3, <1>4 DEF ScheduleInv

\* Priming the look-aheads and filtering the maneuvers keeps it.
LEMMA PrimeStep == ScheduleInv /\ Prime => ScheduleInv'
<1> SUFFICES ASSUME ScheduleInv, Prime
             PROVE  ScheduleInv'
  OBVIOUS
<1>0. ScheduleTypeOK /\ WaitingInv
  BY DEF ScheduleInv
<1>1. /\ phase = "ready" /\ phase' = "running"
      /\ request' = request /\ groups' = groups /\ groups = <<>>
      /\ remaining' = ToRun
      /\ lookahead' = [p \in Products |-> IF p \in Rules THEN request.start ELSE Exhausted]
  BY <1>0 DEF Prime, WaitingInv, ToRun
<1>2. Timeline' = Timeline /\ Rules' = Rules /\ ToRun' = ToRun
  BY <1>1 DEF Timeline, Rules, ToRun, Executable
<1>3. request.start \in Nat /\ request.end \in Nat /\ request.start <= request.end
  BY <1>0, PreparedRequest
<1>4. ScheduleTypeOK'
  <2>1. lookahead' \in [Products -> Nat \cup {Exhausted}]
    BY <1>1, <1>3
  <2>2. remaining' \subseteq DOMAIN Timeline'
    BY <1>1, <1>2 DEF ToRun
  <2>3. request' \in Requests /\ groups' \in Seq(Group) /\ phase' \in Phases
    BY <1>0, <1>1 DEF ScheduleTypeOK, Phases
  <2> QED
    BY <2>1, <2>2, <2>3 DEF ScheduleTypeOK
<1>5. LookaheadInv'
  BY <1>1, <1>2, <1>3 DEF LookaheadInv
<1>6. NothingLate' /\ GroupsIncrease' /\ ExactGroups'
  BY <1>1 DEF NothingLate, GroupsIncrease, ExactGroups
<1>7. WaitingInv'
  BY <1>1, <1>2 DEF WaitingInv
<1> QED
  BY <1>4, <1>5, <1>6, <1>7 DEF ScheduleInv

\* Each turn of the loop keeps it: the new group is later than all before it.
LEMMA YieldStep ==
  ASSUME ScheduleInv, NEW at \in Candidates, YieldGroup(at)
  PROVE  ScheduleInv'
<1> DEFINE n == Len(groups) + 1
<1>0. /\ ScheduleTypeOK /\ LookaheadInv /\ NothingLate
      /\ GroupsIncrease /\ WaitingInv /\ ExactGroups
  BY DEF ScheduleInv
<1>1. /\ phase = "running" /\ phase' = phase
      /\ request' = request
      /\ remaining' = remaining \ Leading(at)
  BY DEF YieldGroup
<1>2. Timeline' = Timeline /\ Rules' = Rules /\ ToRun' = ToRun
  BY <1>1 DEF Timeline, Rules, ToRun, Executable
<1>3. /\ at \in Nat
      /\ \A k \in DOMAIN groups : groups[k].epoch < at
      /\ \A i \in remaining : at <= Timeline[i].epoch
      /\ Leading(at) = {i \in remaining : Timeline[i].epoch = at}
  BY EarliestInstant DEF YieldGroup
<1>4. /\ groups' \in Seq(Group)
      /\ DOMAIN groups' = DOMAIN groups \cup {n}
      /\ DOMAIN groups = 1 .. Len(groups) /\ Len(groups) \in Nat
      /\ \A k \in DOMAIN groups : groups'[k] = groups[k]
      /\ groups'[n].epoch = at /\ groups'[n].maneuvers = Leading(at)
  <2>1. groups' \in Seq(Group) /\ DOMAIN groups' = DOMAIN groups \cup {n}
    BY Yielded
  <2>2. DOMAIN groups = 1 .. Len(groups) /\ Len(groups) \in Nat
    BY Yielded
  <2>3. \A k \in DOMAIN groups : groups'[k] = groups[k]
    BY Yielded
  <2>4. groups'[n] = [epoch |-> at, maneuvers |-> Leading(at), products |-> Due(at)]
    BY Yielded
  <2>5. groups'[n].epoch = at /\ groups'[n].maneuvers = Leading(at)
    BY <2>4
  <2> HIDE DEF n
  <2> QED
    BY <2>1, <2>2, <2>3, <2>5
<1>5. \A k \in DOMAIN groups : groups[k].epoch \in Nat
  <2> SUFFICES ASSUME NEW k \in DOMAIN groups
               PROVE  groups[k].epoch \in Nat
    OBVIOUS
  <2>1. groups \in Seq(Group)
    BY <1>0 DEF ScheduleTypeOK
  <2>2. groups[k] \in Group
    BY <2>1
  <2> QED
    BY <2>2 DEF Group
<1>6. remaining \subseteq DOMAIN Timeline /\ \A i \in remaining : Timeline[i].epoch \in Nat
  BY <1>0, PreparedRequest DEF ScheduleTypeOK, Entries
<1>7. ScheduleTypeOK'
  <2>1. lookahead' \in [Products -> Nat \cup {Exhausted}]
    <3>1. \E S : lookahead' \in [Products -> S]
      BY DEF YieldGroup
    <3>2. \A p \in Products : lookahead'[p] \in Nat \cup {Exhausted}
      BY LookaheadsAfter
    <3> QED
      BY <3>1, <3>2
  <2>2. remaining' \subseteq DOMAIN Timeline'
    <3>1. DOMAIN Timeline' = DOMAIN Timeline
      BY <1>2
    <3> QED
      BY <1>1, <1>6, <3>1
  <2>3. request' \in Requests /\ phase' \in Phases
    BY <1>0, <1>1 DEF ScheduleTypeOK
  <2>4. groups' \in Seq(Group)
    BY <1>4
  <2> QED
    BY <2>1, <2>2, <2>3, <2>4 DEF ScheduleTypeOK
<1>8. LookaheadInv'
  BY <1>1, <1>2, LookaheadsAfter DEF LookaheadInv
<1>9. NothingLate'
  <2> SUFFICES ASSUME NEW k \in DOMAIN groups'
               PROVE  /\ \A p \in Products :
                           lookahead'[p] # Exhausted => groups'[k].epoch < lookahead'[p]
                      /\ \A i \in remaining' : groups'[k].epoch < Timeline'[i].epoch
    BY DEF NothingLate
  <2>1. groups'[k].epoch \in Nat /\ groups'[k].epoch <= at
    BY <1>3, <1>4, <1>5
  <2>2. ASSUME NEW p \in Products, lookahead'[p] # Exhausted
        PROVE  groups'[k].epoch < lookahead'[p]
    <3>1. lookahead'[p] \in Nat /\ at < lookahead'[p]
      BY <2>2, LookaheadsAfter
    <3> QED
      BY <1>3, <2>1, <3>1
  <2>3. ASSUME NEW i \in remaining'
        PROVE  groups'[k].epoch < Timeline'[i].epoch
    <3>1. i \in remaining /\ Timeline[i].epoch # at
      BY <1>1, <1>3, <2>3
    <3> QED
      BY <1>2, <1>3, <1>6, <2>1, <3>1
  <2> QED
    BY <2>2, <2>3
<1>10. GroupsIncrease'
  <2> SUFFICES ASSUME NEW i \in DOMAIN groups', NEW j \in DOMAIN groups', i < j
               PROVE  groups'[i].epoch < groups'[j].epoch
    BY DEF GroupsIncrease
  <2>1. i \in DOMAIN groups
    BY <1>4
  <2>2. CASE j \in DOMAIN groups
    BY <1>0, <1>4, <2>1, <2>2 DEF GroupsIncrease
  <2>3. CASE j = n
    BY <1>3, <1>4, <2>1, <2>3
  <2> QED
    BY <1>4, <2>2, <2>3
<1>11. ExactGroups'
  <2> SUFFICES ASSUME NEW k \in DOMAIN groups'
               PROVE  groups'[k].maneuvers = {i \in ToRun : Timeline[i].epoch = groups'[k].epoch}
    BY <1>2 DEF ExactGroups
  <2>1. CASE k \in DOMAIN groups
    BY <1>0, <1>4, <2>1 DEF ExactGroups
  <2>2. CASE k = n
    <3>1. ASSUME NEW i \in ToRun, Timeline[i].epoch = at
          PROVE  i \in remaining
      <4>1. i \in remaining \/ \E m \in DOMAIN groups : i \in groups[m].maneuvers
        BY <1>0, <1>1 DEF WaitingInv
      <4>2. \A m \in DOMAIN groups : i \in groups[m].maneuvers => groups[m].epoch = at
        BY <1>0, <3>1 DEF ExactGroups
      <4> QED
        BY <1>3, <4>1, <4>2
    <3>2. remaining \subseteq ToRun
      BY <1>0 DEF WaitingInv
    <3> QED
      BY <1>3, <1>4, <2>2, <3>1, <3>2
  <2> QED
    BY <1>4, <2>1, <2>2
<1>12. WaitingInv'
  <2>1. remaining' \subseteq ToRun'
    BY <1>0, <1>1, <1>2 DEF WaitingInv
  <2>2. ASSUME NEW i \in ToRun
        PROVE  i \in remaining' \/ \E k \in DOMAIN groups' : i \in groups'[k].maneuvers
    <3>1. CASE i \in Leading(at)
      BY <1>4, <3>1
    <3>2. CASE i \in remaining \ Leading(at)
      BY <1>1, <3>2
    <3>3. CASE \E k \in DOMAIN groups : i \in groups[k].maneuvers
      BY <1>4, <3>3
    <3> QED
      BY <1>0, <1>1, <3>1, <3>2, <3>3 DEF WaitingInv
  <2> QED
    BY <1>1, <1>2, <2>1, <2>2 DEF WaitingInv
<1> QED
  BY <1>7, <1>8, <1>9, <1>10, <1>11, <1>12 DEF ScheduleInv

\* The end of the generator keeps it.
LEMMA EndStep == ScheduleInv /\ (Exhaust \/ Raise \/ UNCHANGED vars) => ScheduleInv'
<1> SUFFICES ASSUME ScheduleInv, Exhaust \/ Raise \/ UNCHANGED vars
             PROVE  ScheduleInv'
  OBVIOUS
<1>0. /\ ScheduleTypeOK /\ LookaheadInv /\ NothingLate
      /\ GroupsIncrease /\ WaitingInv /\ ExactGroups
  BY DEF ScheduleInv
<1>1. /\ request' = request /\ lookahead' = lookahead
      /\ remaining' = remaining /\ groups' = groups
  BY DEF Exhaust, Raise, vars
<1>2. Timeline' = Timeline /\ Rules' = Rules /\ ToRun' = ToRun
  BY <1>1 DEF Timeline, Rules, ToRun, Executable
<1>3. phase' \in Phases
  BY <1>0 DEF Exhaust, Raise, vars, Phases, ScheduleTypeOK
<1>4. ScheduleTypeOK'
  BY <1>0, <1>1, <1>2, <1>3 DEF ScheduleTypeOK
<1>5. LookaheadInv' /\ NothingLate'
  BY <1>0, <1>1, <1>2 DEF LookaheadInv, NothingLate
<1>6. GroupsIncrease' /\ ExactGroups'
  BY <1>0, <1>1, <1>2 DEF GroupsIncrease, ExactGroups
<1>7. WaitingInv'
  <2>1. CASE Exhaust
    <3>1. remaining = {}
      <4>1. AtCursor = {}
        BY <2>1 DEF Exhaust, Candidates
      <4>2. remaining \in SUBSET Nat
        BY <1>0, PreparedRequest DEF ScheduleTypeOK
      <4> QED
        BY <4>1, <4>2, LeastIndex DEF AtCursor
    <3>2. phase = "running" /\ phase' = "exhausted"
      BY <2>1 DEF Exhaust
    <3> QED
      BY <1>0, <1>1, <1>2, <3>1, <3>2 DEF WaitingInv
  <2>2. CASE Raise
    BY <1>0, <1>1, <1>2, <2>2 DEF WaitingInv, Raise
  <2>3. CASE UNCHANGED vars
    BY <1>0, <1>1, <1>2, <2>3 DEF WaitingInv, vars
  <2> QED
    BY <2>1, <2>2, <2>3
<1> QED
  BY <1>4, <1>5, <1>6, <1>7 DEF ScheduleInv

-------------------------------------------------------------------------------
\* The inductive invariant of the merge holds throughout.
THEOREM ScheduleSafe == Spec => []ScheduleInv
<1>1. Init => ScheduleInv
  BY ScheduleInit
<1>2. ScheduleInv /\ [Next]_vars => ScheduleInv'
  BY PrimeStep, YieldStep, EndStep DEF Next, Ended
<1> QED
  BY <1>1, <1>2, PTL DEF Spec

\* iter_event_groups yields groups of strictly increasing instants, whatever
\* the cadences and however the remaining durations are rounded.
THEOREM ScheduleIncreases == Spec => []GroupsIncrease
<1>1. ScheduleInv => GroupsIncrease
  BY DEF ScheduleInv
<1> QED
  BY <1>1, ScheduleSafe, PTL

\* Each maneuver that runs is in the group of its instant and no other maneuver
\* is in any group; an exhausted schedule leaves none out.
THEOREM ScheduleRunsManeuvers == Spec => []ManeuversOnTime
<1>1. ScheduleInv => ManeuversOnTime
  <2> SUFFICES ASSUME ScheduleInv
               PROVE  ManeuversOnTime
    OBVIOUS
  <2>0. ScheduleTypeOK /\ ExactGroups /\ WaitingInv
    BY DEF ScheduleInv
  <2>1. ToRun = {i \in DOMAIN Timeline : Runs(Timeline[i])}
    BY <2>0, ExecutableRuns DEF ToRun
  <2>2. \A k \in DOMAIN groups :
          groups[k].maneuvers =
            {i \in DOMAIN Timeline : Runs(Timeline[i]) /\ Timeline[i].epoch = groups[k].epoch}
    BY <2>0, <2>1 DEF ExactGroups
  <2>3. phase = "exhausted" =>
          \A i \in DOMAIN Timeline :
            Runs(Timeline[i]) => \E k \in DOMAIN groups : i \in groups[k].maneuvers
    BY <2>0, <2>1 DEF WaitingInv
  <2> QED
    BY <2>2, <2>3 DEF ManeuversOnTime
<1> QED
  BY <1>1, ScheduleSafe, PTL

-------------------------------------------------------------------------------
\* The cadence of p inside the run, and the part of it that rounding cannot drop.
Inside(p) ==
  {e \in {request.start + k * request.intervals[p] : k \in 0 .. request.end - request.start} :
     e < request.end}
Certain(p) == {e \in Inside(p) : e = request.start \/ e < request.end - Ulp}

\* Every sampler stands on its cadence, or at the end, with the certain part of
\* the cadence before it sampled already; a sampler that has ended sampled it all.
OnCadence(p) ==
  /\ Sampled(p) \subseteq Inside(p) \cup {request.end}
  /\ phase \in {"running", "exhausted"} =>
       /\ lookahead[p] # Exhausted =>
            /\ lookahead[p] \in Inside(p) \cup {request.end}
            /\ \A e \in Certain(p) : e < lookahead[p] => e \in Sampled(p)
       /\ lookahead[p] = Exhausted => Certain(p) \cup {request.end} \subseteq Sampled(p)
  /\ phase = "exhausted" => lookahead[p] = Exhausted

CadenceInv == \A p \in Rules : OnCadence(p)

\* Multiples of an interval are at least an interval apart.
LEMMA Multiples ==
  ASSUME NEW interval \in Nat \ {0}, NEW j \in Nat, NEW k \in Nat
  PROVE  /\ j * interval \in Nat
         /\ (k + 1) * interval = k * interval + interval
         /\ k <= k * interval
         /\ j <= k => j * interval <= k * interval
         /\ j > k => j * interval >= k * interval + interval
<1>1. ASSUME NEW a \in Nat, NEW b \in Nat
      PROVE  a * b \in Nat
  BY <1>1
<1>2. ASSUME NEW a \in Nat, NEW b \in Nat, a <= b
      PROVE  a * interval <= b * interval
  <2>1. (b - a) * interval \in Nat
    BY <1>1, <1>2
  <2>2. b * interval = a * interval + (b - a) * interval
    BY <1>2
  <2> QED
    BY <1>1, <2>1, <2>2
<1>3. (k + 1) * interval = k * interval + interval
  OBVIOUS
<1>4. k <= k * interval
  <2>1. k * (interval - 1) \in Nat
    BY <1>1
  <2>2. k * interval = k + k * (interval - 1)
    OBVIOUS
  <2> QED
    BY <1>1, <2>1, <2>2
<1>5. j > k => j * interval >= k * interval + interval
  BY <1>2, <1>3
<1> QED
  BY <1>1, <1>2, <1>3, <1>4, <1>5

\* Where the sampler of p goes from a point of its cadence: to the end, or one
\* interval on, and never over an epoch that rounding cannot drop.
LEMMA SamplerKeepsCadence ==
  ASSUME ScheduleTypeOK, NEW p \in Rules, NEW at \in Inside(p) \cup {request.end},
         NEW next \in AfterSample(p, at)
  PROVE  /\ next = Exhausted <=> at = request.end
         /\ next # Exhausted => next \in Inside(p) \cup {request.end}
         /\ next # Exhausted => \A e \in Certain(p) : e < next => e <= at
<1> DEFINE I == request.intervals[p]
<1>1. /\ request.start \in Nat /\ request.end \in Nat /\ Ulp \in Nat
      /\ request.start <= request.end /\ I \in Nat \ {0}
  BY PreparedRequest
<1>2. CASE at = request.end
  BY <1>1, <1>2 DEF AfterSample, Exhausted
<1>3. CASE at # request.end
  <2>1. PICK k \in Nat : at = request.start + k * I
    BY <1>1, <1>3 DEF Inside
  <2>2. at \in Nat /\ at < request.end /\ k * I \in Nat
    BY <1>1, <1>3, <2>1, Multiples DEF Inside
  <2>3. PICK d \in Int :
          /\ d >= request.end - at - Ulp
          /\ next = IF I >= d \/ at + I >= request.end THEN request.end ELSE at + I
    BY <1>1, <1>3, <2>2 DEF AfterSample
  <2>4. next # Exhausted
    BY <1>1, <2>2, <2>3 DEF Exhausted
  <2>5. next \in Inside(p) \cup {request.end}
    <3> SUFFICES ASSUME next # request.end
                 PROVE  next \in Inside(p)
      OBVIOUS
    <3>1. next = at + I /\ at + I < request.end
      BY <1>1, <2>2, <2>3
    <3>2. k + 1 \in Nat /\ next = request.start + (k + 1) * I
      <4>1. (k + 1) * I = k * I + I
        BY <1>1, Multiples
      <4> HIDE DEF I
      <4> QED
        BY <1>1, <2>1, <2>2, <3>1, <4>1
    <3>3. k + 1 <= (k + 1) * I /\ (k + 1) * I \in Nat
      BY <1>1, <3>2, Multiples
    <3>4. k + 1 \in 0 .. request.end - request.start
      BY <1>1, <3>1, <3>2, <3>3
    <3> QED
      BY <3>1, <3>2, <3>4 DEF Inside
  <2>6. ASSUME NEW e \in Certain(p), e < next
        PROVE  e <= at
    <3>1. PICK j \in Nat : e = request.start + j * I
      BY <1>1 DEF Certain, Inside
    <3>2. j * I \in Nat /\ e \in Nat /\ e < request.end
      BY <1>1, <3>1, Multiples DEF Certain, Inside
    <3>3. e = request.start \/ e < request.end - Ulp
      BY DEF Certain
    <3>4. CASE j <= k
      BY <1>1, <2>1, <2>2, <3>1, <3>2, <3>4, Multiples
    <3>5. CASE j > k
      <4>1. j * I >= k * I + I
        BY <1>1, <3>5, Multiples
      <4>2. e >= at + I
        BY <1>1, <2>1, <2>2, <3>1, <3>2, <4>1
      <4>3. I >= d
        BY <1>1, <2>2, <2>3, <2>6, <3>2, <4>2
      <4>4. e >= request.end - Ulp /\ e # request.start
        BY <1>1, <2>1, <2>2, <2>3, <3>2, <4>2, <4>3
      <4> QED
        BY <1>1, <3>2, <3>3, <4>4
    <3> QED
      BY <3>4, <3>5
  <2> QED
    BY <1>3, <2>4, <2>5, <2>6
<1> QED
  BY <1>2, <1>3

\* A turn samples exactly the products due at its instant.
LEMMA SampledAfter ==
  ASSUME ScheduleInv, NEW at \in Candidates, YieldGroup(at), NEW p \in Products
  PROVE  Sampled(p)' = Sampled(p) \cup (IF lookahead[p] = at THEN {at} ELSE {})
<1> DEFINE n == Len(groups) + 1
           g == [epoch |-> at, maneuvers |-> Leading(at), products |-> Due(at)]
<1>1. DOMAIN groups' = DOMAIN groups \cup {n} /\ groups'[n] = g
  BY Yielded
<1>2. \A k \in DOMAIN groups : groups'[k] = groups[k]
  BY Yielded
<1>3. n \notin DOMAIN groups
  <2>1. DOMAIN groups = 1 .. Len(groups) /\ Len(groups) \in Nat
    BY Yielded
  <2> QED
    BY <2>1
<1>4. g.epoch = at /\ (p \in g.products <=> lookahead[p] = at)
  BY DEF Due
<1> HIDE DEF n, g
<1>5. Sampled(p)' = {groups'[k].epoch : k \in {k \in DOMAIN groups' : p \in groups'[k].products}}
  BY DEF Sampled
<1> QED
  BY <1>1, <1>2, <1>3, <1>4, <1>5 DEF Sampled

\* Priming puts every sampler on the start, with nothing before it.
LEMMA CadencePrime ==
  ASSUME ScheduleInv, CadenceInv, Prime, NEW p \in Rules
  PROVE  OnCadence(p)'
<1>0. ScheduleTypeOK /\ WaitingInv
  BY DEF ScheduleInv
<1>1. /\ groups' = groups /\ groups = <<>> /\ request' = request
      /\ phase' = "running"
      /\ p \in Products /\ lookahead'[p] = request.start
  BY <1>0, PreparedRequest DEF Prime, WaitingInv
<1>2. Inside(p)' = Inside(p) /\ Certain(p)' = Certain(p)
  BY <1>1 DEF Inside, Certain
<1>3. /\ request.start \in Nat /\ request.end \in Nat /\ request.start <= request.end
      /\ request.intervals[p] \in Nat \ {0}
  BY <1>0, PreparedRequest
<1>4. Sampled(p)' = {}
  BY <1>1 DEF Sampled
<1>5. request.start \in Inside(p) \cup {request.end}
  <2>1. 0 \in 0 .. request.end - request.start /\ request.start = request.start + 0 * request.intervals[p]
    BY <1>3
  <2> QED
    BY <1>3, <2>1 DEF Inside
<1>6. \A e \in Certain(p) : ~ (e < request.start)
  <2> SUFFICES ASSUME NEW e \in Certain(p)
               PROVE  ~ (e < request.start)
    OBVIOUS
  <2>1. PICK j \in Nat : e = request.start + j * request.intervals[p]
    BY <1>3 DEF Certain, Inside
  <2>2. j * request.intervals[p] \in Nat
    BY <1>3, Multiples
  <2> QED
    BY <1>3, <2>1, <2>2
<1>7. lookahead'[p] # Exhausted
  BY <1>1, <1>3 DEF Exhausted
<1> QED
  BY <1>1, <1>2, <1>4, <1>5, <1>6, <1>7 DEF OnCadence

\* A turn moves a due sampler one point on, having sampled the point it was at.
LEMMA CadenceYield ==
  ASSUME ScheduleInv, CadenceInv, NEW at \in Candidates, YieldGroup(at), NEW p \in Rules
  PROVE  OnCadence(p)'
<1>0. ScheduleTypeOK /\ LookaheadInv /\ OnCadence(p)
  BY DEF ScheduleInv, CadenceInv
<1>1. p \in Products
  BY <1>0, PreparedRequest
<1>2. phase = "running" /\ phase' = phase /\ request' = request
  BY DEF YieldGroup
<1>3. Inside(p)' = Inside(p) /\ Certain(p)' = Certain(p)
  BY <1>2 DEF Inside, Certain
<1>4. at \in Nat
  BY EarliestInstant DEF YieldGroup
<1>5. IF p \in Due(at) THEN lookahead'[p] \in AfterSample(p, at)
                       ELSE lookahead'[p] = lookahead[p]
  BY <1>1 DEF YieldGroup
<1>6. Sampled(p)' = Sampled(p) \cup (IF lookahead[p] = at THEN {at} ELSE {})
  BY <1>1, SampledAfter
<1>7. /\ lookahead[p] # Exhausted =>
           /\ lookahead[p] \in Inside(p) \cup {request.end}
           /\ \A e \in Certain(p) : e < lookahead[p] => e \in Sampled(p)
      /\ lookahead[p] = Exhausted => Certain(p) \cup {request.end} \subseteq Sampled(p)
      /\ Sampled(p) \subseteq Inside(p) \cup {request.end}
  BY <1>0, <1>2 DEF OnCadence
<1>8. CASE lookahead[p] # at
  <2>1. lookahead'[p] = lookahead[p] /\ Sampled(p)' = Sampled(p)
    BY <1>5, <1>6, <1>8 DEF Due
  <2> QED
    BY <1>2, <1>3, <1>7, <2>1 DEF OnCadence
<1>9. CASE lookahead[p] = at
  <2>1. at # Exhausted /\ at \in Inside(p) \cup {request.end}
    BY <1>4, <1>7, <1>9 DEF Exhausted
  <2>2. lookahead'[p] \in AfterSample(p, at)
    BY <1>1, <1>5, <1>9 DEF Due
  <2>3. Sampled(p)' = Sampled(p) \cup {at}
    BY <1>6, <1>9
  <2>4. /\ lookahead'[p] = Exhausted <=> at = request.end
        /\ lookahead'[p] # Exhausted => lookahead'[p] \in Inside(p) \cup {request.end}
        /\ lookahead'[p] # Exhausted => \A e \in Certain(p) : e < lookahead'[p] => e <= at
    BY <1>0, <2>1, <2>2, SamplerKeepsCadence
  <2>5. \A e \in Certain(p) : e \in Int /\ e < request.end
    <3> SUFFICES ASSUME NEW e \in Certain(p)
                 PROVE  e \in Int /\ e < request.end
      OBVIOUS
    <3>1. request.start \in Nat /\ request.end \in Nat /\ request.intervals[p] \in Nat \ {0}
      BY <1>0, PreparedRequest
    <3>2. PICK j \in Nat : e = request.start + j * request.intervals[p]
      BY <3>1 DEF Certain, Inside
    <3>3. j * request.intervals[p] \in Nat
      BY <3>1, Multiples
    <3> QED
      BY <3>1, <3>2, <3>3 DEF Certain, Inside
  <2>6. \A e \in Certain(p) : e <= at => e \in Sampled(p)'
    <3> SUFFICES ASSUME NEW e \in Certain(p), e <= at
                 PROVE  e \in Sampled(p)'
      OBVIOUS
    <3>1. e = at \/ e < at
      BY <1>4, <2>5
    <3> QED
      BY <1>7, <1>9, <2>1, <2>3, <3>1
  <2>7. lookahead'[p] = Exhausted => Certain(p) \cup {request.end} \subseteq Sampled(p)'
    BY <1>4, <2>3, <2>4, <2>5, <2>6
  <2>8. lookahead'[p] # Exhausted => \A e \in Certain(p) : e < lookahead'[p] => e \in Sampled(p)'
    BY <2>4, <2>6
  <2>9. Sampled(p)' \subseteq Inside(p) \cup {request.end}
    BY <1>7, <2>1, <2>3
  <2> QED
    BY <1>2, <1>3, <2>4, <2>7, <2>8, <2>9 DEF OnCadence
<1> QED
  BY <1>8, <1>9

\* The generator ends only once every sampler has.
LEMMA CadenceEnd ==
  ASSUME ScheduleInv, CadenceInv, Exhaust \/ Raise \/ UNCHANGED vars, NEW p \in Rules
  PROVE  OnCadence(p)'
<1>0. ScheduleTypeOK /\ OnCadence(p)
  BY DEF ScheduleInv, CadenceInv
<1>1. request' = request /\ lookahead' = lookahead /\ groups' = groups
  BY DEF Exhaust, Raise, vars
<1>2. Inside(p)' = Inside(p) /\ Certain(p)' = Certain(p) /\ Sampled(p)' = Sampled(p)
  BY <1>1 DEF Inside, Certain, Sampled
<1>3. CASE Exhaust
  <2>1. lookahead[p] = Exhausted
    <3>1. p \in Products /\ Candidates = {}
      BY <1>0, <1>3, PreparedRequest DEF Exhaust
    <3> QED
      BY <3>1 DEF Candidates
  <2>2. phase = "running" /\ phase' = "exhausted"
    BY <1>3 DEF Exhaust
  <2> QED
    BY <1>0, <1>1, <1>2, <2>1, <2>2 DEF OnCadence
<1>4. CASE Raise
  BY <1>0, <1>1, <1>2, <1>4 DEF OnCadence, Raise
<1>5. CASE UNCHANGED vars
  BY <1>0, <1>1, <1>2, <1>5 DEF OnCadence, vars
<1> QED
  BY <1>3, <1>4, <1>5

\* iter_sampling_epochs samples every product at the start, at every interval
\* after it and at the end; rounding of the reported duration can only drop a
\* point closer than Ulp to the end.
THEOREM ScheduleKeepsCadence == Spec => []CadenceKept
<1>1. Init => CadenceInv
  BY DEF Init, CadenceInv, OnCadence, Sampled
<1>2. ScheduleInv /\ CadenceInv /\ [Next]_vars => CadenceInv'
  <2> SUFFICES ASSUME ScheduleInv, CadenceInv, [Next]_vars
               PROVE  CadenceInv'
    OBVIOUS
  <2>1. Rules' = Rules
    BY DEF Next, Prime, YieldGroup, Exhaust, Raise, Ended, vars, Rules
  <2>2. \A p \in Rules : OnCadence(p)'
    BY CadencePrime, CadenceYield, CadenceEnd DEF Next, Ended
  <2> QED
    BY <2>1, <2>2 DEF CadenceInv
<1>3. ScheduleInv /\ CadenceInv => CadenceKept
  <2> SUFFICES ASSUME CadenceInv, NEW p \in Rules
               PROVE  /\ Sampled(p) \subseteq Inside(p) \cup {request.end}
                      /\ phase = "exhausted" =>
                           Certain(p) \cup {request.end} \subseteq Sampled(p)
    BY DEF CadenceKept, Inside, Certain
  <2> QED
    BY DEF CadenceInv, OnCadence
<1> QED
  BY <1>1, <1>2, <1>3, ScheduleSafe, PTL DEF Spec

-------------------------------------------------------------------------------
\* Every group lies between the synchronization epoch and the end of the run.
GroupsInRun ==
  \A k \in DOMAIN groups : request.sync <= groups[k].epoch /\ groups[k].epoch <= request.end

LEMMA CandidateInRun ==
  ASSUME ScheduleInv, NEW at \in Candidates
  PROVE  request.sync <= at /\ at <= request.end
<1>0. ScheduleTypeOK /\ LookaheadInv /\ WaitingInv
  BY DEF ScheduleInv
<1>1. /\ request.start \in Nat /\ request.end \in Nat /\ request.sync \in Nat
      /\ request.sync <= request.start /\ request.start <= request.end
  BY <1>0, ScheduleAssumption DEF ScheduleTypeOK, Prepared
<1>2. CASE at \in {lookahead[p] : p \in Products} \ {Exhausted}
  <2>1. PICK p \in Products : at = lookahead[p] /\ lookahead[p] # Exhausted
    BY <1>2
  <2>2. at \in Nat /\ at >= request.start /\ at <= request.end
    BY <1>0, <2>1 DEF ScheduleTypeOK, LookaheadInv
  <2> QED
    BY <1>1, <2>2
<1>3. CASE at \in {Timeline[i].epoch : i \in AtCursor}
  <2>1. PICK i \in AtCursor : at = Timeline[i].epoch
    BY <1>3
  <2>2. i \in DOMAIN Timeline /\ Executable(Timeline[i])
    BY <1>0, <2>1 DEF AtCursor, WaitingInv, ToRun
  <2>3. Timeline[i].epoch \in Nat
    <3>1. Timeline[i] \in Entries
      BY <1>0, <2>2, PreparedRequest
    <3> QED
      BY <3>1 DEF Entries
  <2> QED
    BY <1>1, <2>1, <2>2, <2>3 DEF Executable
<1> QED
  BY <1>2, <1>3 DEF Candidates

\* No group precedes the synchronization epoch, where the runtime starts, and
\* none follows the end of the run.
THEOREM ScheduleStaysInRun == Spec => []GroupsInRun
<1>1. Init => GroupsInRun
  BY DEF Init, GroupsInRun
<1>2. ScheduleInv /\ GroupsInRun /\ [Next]_vars => GroupsInRun'
  <2> SUFFICES ASSUME ScheduleInv, GroupsInRun, [Next]_vars
               PROVE  GroupsInRun'
    OBVIOUS
  <2>1. CASE \E at \in Candidates : YieldGroup(at)
    <3>1. PICK at \in Candidates : YieldGroup(at)
      BY <2>1
    <3>2. request' = request
      BY <3>1 DEF YieldGroup
    <3>3. request.sync <= at /\ at <= request.end
      BY CandidateInRun
    <3>4. /\ DOMAIN groups' = DOMAIN groups \cup {Len(groups) + 1}
          /\ \A k \in DOMAIN groups : groups'[k] = groups[k]
          /\ groups'[Len(groups) + 1] =
               [epoch |-> at, maneuvers |-> Leading(at), products |-> Due(at)]
      <4>1. YieldGroup(at)
        BY <3>1
      <4> QED
        BY <4>1, Yielded
    <3> QED
      BY <3>2, <3>3, <3>4 DEF GroupsInRun
  <2>2. CASE Prime \/ Exhaust \/ Raise \/ UNCHANGED vars
    BY <2>2 DEF Prime, Exhaust, Raise, vars, GroupsInRun
  <2> QED
    BY <2>1, <2>2 DEF Next, Ended
<1> QED
  BY <1>1, <1>2, ScheduleSafe, PTL DEF Spec

-------------------------------------------------------------------------------
(* Powers of the base, and what digits are worth. *)

LEMMA PowersExist ==
  /\ Power \in [0 .. Places -> Nat \ {0}] /\ Power[0] = 1
  /\ \A k \in 1 .. Places : Power[k] = Base * Power[k - 1]
<1>1. PICK n \in Nat : n = Places
  BY CalendarAssumption
<1>2. PICK b \in Nat \ {0} : b = Base
  BY CalendarAssumption
<1> DEFINE S == Nat \ {0}
           step == [a \in (1 .. n) \X S |-> b * a[2]]
           Powers(s) == s = [k \in 0 .. n |-> IF k = 0 THEN 1 ELSE b * s[k - 1]]
<1>3. step \in [(1 .. n) \X S -> S]
  OBVIOUS
<1>4. PICK s : Recursion(s, 1, step, n, S)
  <2>1. 1 \in S
    OBVIOUS
  <2> HIDE DEF S, step
  <2> QED
    BY <1>3, <2>1, RecursionExists
<1>5. Powers(s)
  <2>1. \A k \in 1 .. n : s[k] = b * s[k - 1]
    <3> TAKE k \in 1 .. n
    <3>1. <<k, s[k - 1]>> \in (1 .. n) \X S
      BY <1>4 DEF Recursion
    <3> QED
      BY <1>4, <3>1 DEF Recursion
  <2> QED
    BY <1>4, <2>1 DEF Recursion
<1>6. Power = CHOOSE r : Powers(r)
  BY <1>1, <1>2 DEF Power
<1>7. Powers(Power)
  BY <1>5, <1>6
<1> DEFINE T == {k \in Nat : k <= n => Power[k] \in S}
<1>8. 0 \in T
  BY <1>7
<1>9. ASSUME NEW k \in Nat, k \in T
      PROVE  k + 1 \in T
  <2> SUFFICES ASSUME k + 1 <= n
               PROVE  Power[k + 1] \in S
    OBVIOUS
  <2>1. Power[k + 1] = b * Power[k] /\ Power[k] \in S
    BY <1>7, <1>9
  <2> QED
    BY <2>1
<1>10. Nat \subseteq T
  <2> HIDE DEF T
  <2> QED
    BY <1>8, <1>9, EveryNumber
<1> QED
  BY <1>1, <1>2, <1>7, <1>10

\* A fraction that is a sequence of digits, seen as one digit for each place.
InBase(d) == \A k \in 1 .. Places : Digit(d, k) \in 0 .. Base - 1

LEMMA UnitsExist ==
  ASSUME NEW d, InBase(d)
  PROVE  /\ Units(d) \in [0 .. Places -> Nat] /\ Units(d)[0] = 0
         /\ \A k \in 1 .. Places : Units(d)[k] = Composed(Base, Units(d)[k - 1], Digit(d, k))
<1>1. PICK n \in Nat : n = Places
  BY CalendarAssumption
<1>2. PICK b \in Nat \ {0} : b = Base
  BY CalendarAssumption
<1>3. PICK f \in [1 .. n -> 0 .. b - 1] : \A k \in 1 .. n : f[k] = Digit(d, k)
  <2> DEFINE f == [k \in 1 .. n |-> Digit(d, k)]
  <2>1. f \in [1 .. n -> 0 .. b - 1] /\ \A k \in 1 .. n : f[k] = Digit(d, k)
    BY <1>1, <1>2 DEF InBase
  <2> QED
    BY <2>1
<1> DEFINE step == [a \in (1 .. n) \X Nat |-> b * a[2] + f[a[1]]]
           Sums(s) == s = [k \in 0 .. n |-> IF k = 0 THEN 0 ELSE b * s[k - 1] + Digit(d, k)]
<1>4. step \in [(1 .. n) \X Nat -> Nat]
  OBVIOUS
<1>5. PICK s : Recursion(s, 0, step, n, Nat)
  <2> HIDE DEF step
  <2> QED
    BY <1>4, RecursionExists
<1>6. Sums(s)
  <2>1. \A k \in 1 .. n : s[k] = b * s[k - 1] + Digit(d, k)
    <3> TAKE k \in 1 .. n
    <3>1. <<k, s[k - 1]>> \in (1 .. n) \X Nat
      BY <1>5 DEF Recursion
    <3> QED
      BY <1>3, <1>5, <3>1 DEF Recursion
  <2> QED
    BY <1>5, <2>1 DEF Recursion
<1>7. Units(d) = CHOOSE r : Sums(r)
  BY <1>1, <1>2 DEF Units
<1>8. PICK r : r = Units(d) /\ Sums(r)
  BY <1>6, <1>7
<1>9. r[0] = 0 /\ \A k \in 1 .. n : r[k] = b * r[k - 1] + f[k]
  BY <1>3, <1>8
<1> DEFINE T == {k \in Nat : k <= n => r[k] \in Nat}
<1>10. 0 \in T
  BY <1>9
<1>11. ASSUME NEW k \in Nat, k \in T
       PROVE  k + 1 \in T
  <2> SUFFICES ASSUME k + 1 <= n
               PROVE  r[k + 1] \in Nat
    OBVIOUS
  <2>1. k + 1 \in 1 .. n /\ (k + 1) - 1 = k /\ r[k] \in Nat
    BY <1>11
  <2>2. r[k + 1] = b * r[k] + f[k + 1] /\ f[k + 1] \in Nat
    BY <1>9, <2>1
  <2>3. PICK p \in Nat, q \in Nat : p = r[k] /\ q = f[k + 1]
    BY <2>1, <2>2
  <2>4. b * p + q \in Nat
    OBVIOUS
  <2> QED
    BY <2>2, <2>3, <2>4
<1>12. Nat \subseteq T
  <2> HIDE DEF T
  <2> QED
    BY <1>10, <1>11, EveryNumber
<1>13. r \in [0 .. n -> Nat]
  <2>1. r = [k \in 0 .. n |-> r[k]] /\ \A k \in 0 .. n : r[k] \in Nat
    BY <1>8, <1>12
  <2> QED
    BY <2>1
<1> HIDE DEF Sums
<1> QED
  BY <1>1, <1>2, <1>3, <1>8, <1>9, <1>13 DEF Composed

LEMMA UnitsBelow ==
  ASSUME NEW d, InBase(d)
  PROVE  \A k \in 0 .. Places : Units(d)[k] < Power[k]
<1>1. PICK n \in Nat : n = Places
  BY CalendarAssumption
<1>2. PICK b \in Nat \ {0} : b = Base
  BY CalendarAssumption
<1>3. PICK u \in [0 .. n -> Nat] :
        u = Units(d) /\ u[0] = 0 /\ \A k \in 1 .. n : u[k] = Composed(b, u[k - 1], Digit(d, k))
  BY <1>1, <1>2, UnitsExist
<1>4. PICK p \in [0 .. n -> Nat \ {0}] :
        p = Power /\ p[0] = 1 /\ \A k \in 1 .. n : p[k] = b * p[k - 1]
  BY <1>1, <1>2, PowersExist
<1> DEFINE T == {k \in Nat : k <= n => u[k] < p[k]}
<1>5. 0 \in T
  BY <1>3, <1>4
<1>6. ASSUME NEW k \in Nat, k \in T
      PROVE  k + 1 \in T
  <2> SUFFICES ASSUME k + 1 <= n
               PROVE  u[k + 1] < p[k + 1]
    OBVIOUS
  <2>1. k + 1 \in 1 .. n /\ (k + 1) - 1 = k /\ k \in 0 .. n /\ u[k] < p[k]
    BY <1>6
  <2>2. PICK x \in Nat, y \in Nat : x = u[k] /\ y = p[k] /\ x < y
    BY <1>3, <1>4, <2>1
  <2>3. PICK s \in 0 .. b - 1 : s = Digit(d, k + 1)
    BY <1>1, <1>2, <2>1 DEF InBase
  <2>4. u[k + 1] = Composed(b, x, s) /\ p[k + 1] = b * y
    BY <1>3, <1>4, <2>1, <2>2, <2>3
  <2>5. 0 \in 0 .. b - 1 /\ Composed(b, y, 0) = b * y
    BY DEF Composed
  <2>6. Composed(b, x, s) < Composed(b, y, 0)
    BY <2>2, <2>5, ComposedOrder
  <2> QED
    BY <2>4, <2>5, <2>6
<1>7. Nat \subseteq T
  <2> HIDE DEF T
  <2> QED
    BY <1>5, <1>6, EveryNumber
<1> QED
  BY <1>1, <1>3, <1>4, <1>7

\* Digits agree up to a place, or are lower at the first place where they differ.
SameDigits(a, c, k) == \A j \in 1 .. k : Digit(a, j) = Digit(c, j)
Lower(a, c, k)      == \E i \in 1 .. k : Digit(a, i) < Digit(c, i) /\ SameDigits(a, c, i - 1)

LEMMA UnitsOrder ==
  ASSUME NEW a, InBase(a), NEW c, InBase(c)
  PROVE  \A k \in 0 .. Places : /\ Units(a)[k] = Units(c)[k] <=> SameDigits(a, c, k)
                                /\ Units(a)[k] < Units(c)[k] <=> Lower(a, c, k)
<1>1. PICK n \in Nat : n = Places
  BY CalendarAssumption
<1>2. PICK b \in Nat \ {0} : b = Base
  BY CalendarAssumption
<1>3. PICK u \in [0 .. n -> Nat] :
        u = Units(a) /\ u[0] = 0 /\ \A k \in 1 .. n : u[k] = Composed(b, u[k - 1], Digit(a, k))
  BY <1>1, <1>2, UnitsExist
<1>4. PICK v \in [0 .. n -> Nat] :
        v = Units(c) /\ v[0] = 0 /\ \A k \in 1 .. n : v[k] = Composed(b, v[k - 1], Digit(c, k))
  BY <1>1, <1>2, UnitsExist
<1> DEFINE T == {k \in Nat : k <= n => /\ u[k] = v[k] <=> SameDigits(a, c, k)
                                       /\ u[k] < v[k] <=> Lower(a, c, k)}
<1>5. 0 \in T
  BY <1>3, <1>4 DEF SameDigits, Lower
<1>6. ASSUME NEW k \in Nat, k \in T
      PROVE  k + 1 \in T
  <2> SUFFICES ASSUME k + 1 <= n
               PROVE  /\ u[k + 1] = v[k + 1] <=> SameDigits(a, c, k + 1)
                      /\ u[k + 1] < v[k + 1] <=> Lower(a, c, k + 1)
    OBVIOUS
  <2>1. k + 1 \in 1 .. n /\ (k + 1) - 1 = k /\ k \in 0 .. n
    OBVIOUS
  <2>2. PICK x \in Nat, y \in Nat : x = u[k] /\ y = v[k]
    BY <1>3, <1>4, <2>1
  <2>3. (x = y <=> SameDigits(a, c, k)) /\ (x < y <=> Lower(a, c, k))
    BY <1>6, <2>1, <2>2
  <2>4. PICK s \in 0 .. b - 1, t \in 0 .. b - 1 : s = Digit(a, k + 1) /\ t = Digit(c, k + 1)
    BY <1>1, <1>2, <2>1 DEF InBase
  <2>5. u[k + 1] = Composed(b, x, s) /\ v[k + 1] = Composed(b, y, t)
    BY <1>3, <1>4, <2>1, <2>2, <2>4
  <2>6. /\ Composed(b, x, s) < Composed(b, y, t) <=> x < y \/ (x = y /\ s < t)
        /\ Composed(b, x, s) = Composed(b, y, t) <=> x = y /\ s = t
    <3>1. x \in Int /\ y \in Int
      OBVIOUS
    <3> QED
      BY <3>1, ComposedOrder
  <2>7. 1 .. k + 1 = (1 .. k) \cup {k + 1}
    OBVIOUS
  <2>8. SameDigits(a, c, k + 1) <=> SameDigits(a, c, k) /\ s = t
    BY <2>4, <2>7 DEF SameDigits
  <2>9. Lower(a, c, k + 1) <=> Lower(a, c, k) \/ (SameDigits(a, c, k) /\ s < t)
    BY <2>1, <2>4, <2>7 DEF Lower
  <2> QED
    BY <2>3, <2>5, <2>6, <2>8, <2>9
<1>7. Nat \subseteq T
  <2> HIDE DEF T
  <2> QED
    BY <1>5, <1>6, EveryNumber
<1> QED
  BY <1>1, <1>3, <1>4, <1>7

\* Digits without trailing zeros: what _canonical_fraction returns.
Stripped(d) == Len(d) # 0 => d[Len(d)] # 0

LEMMA DigitsTyped ==
  ASSUME NEW d \in Digits
  PROVE  /\ Len(d) \in 0 .. Places /\ d \in [1 .. Len(d) -> 0 .. Base - 1]
         /\ InBase(d) /\ DOMAIN d = 1 .. Len(d)
         /\ \A k \in 1 .. Places : Digit(d, k) = IF k <= Len(d) THEN d[k] ELSE 0
<1>1. PICK n \in 0 .. Places : d \in [1 .. n -> 0 .. Base - 1]
  BY DEF Digits
<1>2. Places \in Nat /\ n \in Nat /\ Base \in Nat \ {0, 1}
  BY CalendarAssumption
<1>3. Len(d) = n /\ DOMAIN d = 1 .. n
  BY <1>1, <1>2
<1>4. \A k \in 1 .. Places : Digit(d, k) = IF k <= n THEN d[k] ELSE 0
  BY <1>2, <1>3 DEF Digit
<1>5. \A k \in 1 .. Places : k <= n => k \in 1 .. n
  BY <1>2
<1> QED
  BY <1>1, <1>2, <1>3, <1>4, <1>5 DEF InBase

\* Trailing zeros are dropped, and no digit changes.
LEMMA CanonicalStrips ==
  ASSUME NEW d \in Digits
  PROVE  /\ Canonical(d) \in Digits /\ Stripped(Canonical(d))
         /\ SameDigits(Canonical(d), d, Places)
<1>1. PICK n \in 0 .. Places : n = Len(d) /\ d \in [1 .. n -> 0 .. Base - 1]
  BY DigitsTyped
<1>2. Places \in Nat /\ n \in Nat /\ Base \in Nat \ {0, 1}
  BY CalendarAssumption
<1> DEFINE S == {0} \cup {i \in DOMAIN d : d[i] # 0}
<1>3. S \in SUBSET (0 .. n) /\ S # {}
  BY <1>1, <1>2
<1>4. PICK m \in 0 .. n : m = Max(S) /\ m \in S /\ \A x \in S : x <= m
  <2> HIDE DEF S
  <2> QED
    BY <1>2, <1>3, GreatestNumber
<1>5. \A i \in 1 .. n : i > m => d[i] = 0
  BY <1>1, <1>2, <1>4
<1>6. m # 0 => d[m] # 0
  BY <1>4
<1>7. PICK c : c = Canonical(d)
  OBVIOUS
<1>8. c = SubSeq(d, 1, m)
  BY <1>4, <1>7 DEF Canonical
<1>9. c = [i \in 1 .. m |-> d[i]]
  <2>1. d \in Seq(0 .. Base - 1)
    BY <1>1, <1>2
  <2>2. m \in Nat /\ m <= Len(d)
    BY <1>1, <1>2
  <2> QED
    BY <1>8, <2>1, <2>2
<1>10. Len(c) = m /\ DOMAIN c = 1 .. m
  BY <1>2, <1>9
<1>11. c \in Digits
  <2>1. \A i \in 1 .. m : d[i] \in 0 .. Base - 1
    BY <1>1, <1>2
  <2>2. m \in 0 .. Places
    BY <1>1, <1>2
  <2> QED
    BY <1>9, <2>1, <2>2 DEF Digits
<1>12. Stripped(c)
  BY <1>2, <1>6, <1>9, <1>10 DEF Stripped
<1>13. SameDigits(c, d, Places)
  <2>1. ASSUME NEW k \in 1 .. Places
        PROVE  Digit(c, k) = Digit(d, k)
    <3>1. Digit(d, k) = IF k <= n THEN d[k] ELSE 0
      BY <1>1, DigitsTyped
    <3>2. Digit(c, k) = IF k <= m THEN c[k] ELSE 0
      BY <1>2, <1>10 DEF Digit
    <3>3. k \in Nat \ {0} /\ m <= n
      BY <1>2, <1>4
    <3> QED
      BY <1>2, <1>5, <1>9, <3>1, <3>2, <3>3
  <2> QED
    BY <2>1 DEF SameDigits
<1> QED
  BY <1>7, <1>11, <1>12, <1>13

\* Without trailing zeros the digits of a fraction are written in one way.
LEMMA StrippedSame ==
  ASSUME NEW a \in Digits, NEW c \in Digits, Stripped(a), Stripped(c), SameDigits(a, c, Places)
  PROVE  a = c
<1>1. PICK m \in 0 .. Places, n \in 0 .. Places : m = Len(a) /\ n = Len(c)
  BY DigitsTyped
<1>2. Places \in Nat /\ m \in Nat /\ n \in Nat
  BY CalendarAssumption
<1>3. /\ DOMAIN a = 1 .. m /\ DOMAIN c = 1 .. n
      /\ a \in [1 .. m -> 0 .. Base - 1] /\ c \in [1 .. n -> 0 .. Base - 1]
  BY <1>1, DigitsTyped
<1>4. \A k \in 1 .. Places : (IF k <= m THEN a[k] ELSE 0) = (IF k <= n THEN c[k] ELSE 0)
  BY <1>1, DigitsTyped DEF SameDigits
<1>5. ~ (m < n)
  <2> SUFFICES ASSUME m < n
               PROVE  FALSE
    OBVIOUS
  <2>1. n \in 1 .. Places /\ ~ (n <= m) /\ n <= n /\ n # 0
    BY <1>2
  <2>2. c[n] = 0
    BY <1>4, <2>1
  <2> QED
    BY <1>1, <2>1, <2>2 DEF Stripped
<1>6. ~ (n < m)
  <2> SUFFICES ASSUME n < m
               PROVE  FALSE
    OBVIOUS
  <2>1. m \in 1 .. Places /\ ~ (m <= n) /\ m <= m /\ m # 0
    BY <1>2
  <2>2. a[m] = 0
    BY <1>4, <2>1
  <2> QED
    BY <1>1, <2>1, <2>2 DEF Stripped
<1>7. m = n
  BY <1>2, <1>5, <1>6
<1>8. \A k \in 1 .. n : a[k] = c[k]
  <2> TAKE k \in 1 .. n
  <2>1. k \in 1 .. Places /\ k <= n
    BY <1>2
  <2> QED
    BY <1>4, <1>7, <2>1
<1> QED
  BY <1>3, <1>7, <1>8

LEMMA CanonicalOnce ==
  ASSUME NEW d \in Digits, Stripped(d)
  PROVE  Canonical(d) = d
BY CanonicalStrips, StrippedSame

\* The order of digits as Python compares tuples is the order of the numbers.
LEMMA StrippedOrder ==
  ASSUME NEW a \in Digits, NEW c \in Digits, Stripped(a), Stripped(c)
  PROVE  TupleLess(a, c) <=> Lower(a, c, Places)
<1>1. PICK m \in 0 .. Places, n \in 0 .. Places : m = Len(a) /\ n = Len(c)
  BY DigitsTyped
<1>2. Places \in Nat /\ m \in Nat /\ n \in Nat /\ Base \in Nat \ {0, 1}
  BY CalendarAssumption
<1>3. /\ a \in [1 .. m -> 0 .. Base - 1] /\ c \in [1 .. n -> 0 .. Base - 1]
      /\ \A k \in 1 .. Places : Digit(a, k) = IF k <= m THEN a[k] ELSE 0
      /\ \A k \in 1 .. Places : Digit(c, k) = IF k <= n THEN c[k] ELSE 0
  BY <1>1, DigitsTyped
<1>4. /\ \A k \in 1 .. m : k \in 1 .. Places /\ a[k] \in Nat
      /\ \A k \in 1 .. n : k \in 1 .. Places /\ c[k] \in Nat
  BY <1>2, <1>3
<1>5. /\ \A k \in 1 .. m : Digit(a, k) = a[k]
      /\ \A k \in 1 .. Places : k > m => Digit(a, k) = 0
      /\ \A k \in 1 .. n : Digit(c, k) = c[k]
      /\ \A k \in 1 .. Places : k > n => Digit(c, k) = 0
  BY <1>2, <1>3, <1>4
<1>6. n # 0 => c[n] # 0
  BY <1>1 DEF Stripped
<1>7. ASSUME TupleLess(a, c)
      PROVE  Lower(a, c, Places)
  <2>1. PICK i \in 1 .. n : /\ \A j \in 1 .. i - 1 : j <= m /\ a[j] = c[j]
                            /\ i > m \/ a[i] < c[i]
    BY <1>1, <1>7 DEF TupleLess
  <2>2. \A j \in 1 .. i - 1 : Digit(a, j) = Digit(c, j)
    <3> TAKE j \in 1 .. i - 1
    <3>1. j \in 1 .. m /\ j \in 1 .. n
      BY <1>2, <2>1
    <3> QED
      BY <1>5, <2>1, <3>1
  <2>3. CASE ~ (i > m)
    <3>1. i \in 1 .. m /\ i \in 1 .. Places
      BY <1>2, <2>3
    <3> QED
      BY <1>5, <2>1, <2>2, <2>3, <3>1 DEF Lower, SameDigits
  <2>4. CASE i > m
    <3> DEFINE S == {k \in i .. n : c[k] # 0}
    <3>1. S \in SUBSET Nat /\ n \in S
      BY <1>2, <1>6
    <3>2. PICK k \in S : \A x \in S : k <= x
      <4> HIDE DEF S
      <4> QED
        BY <3>1, LeastNumber
    <3>3. k \in 1 .. Places /\ k \in 1 .. n /\ k > m /\ k >= i
      BY <1>2, <2>4, <3>2
    <3>4. Digit(a, k) < Digit(c, k)
      BY <1>4, <1>5, <3>2, <3>3
    <3>5. ASSUME NEW j \in 1 .. k - 1
          PROVE  Digit(a, j) = Digit(c, j)
      <4>1. CASE j < i
        BY <1>2, <2>2, <4>1
      <4>2. CASE j >= i
        <5>1. j \in i .. n /\ j \in 1 .. n /\ j \in 1 .. Places /\ j > m
          BY <1>2, <2>4, <3>3, <4>2
        <5>2. c[j] = 0
          BY <3>2, <3>3, <5>1
        <5> QED
          BY <1>5, <5>1, <5>2
      <4> QED
        BY <3>3, <4>1, <4>2
    <3> QED
      BY <3>3, <3>4, <3>5 DEF Lower, SameDigits
  <2> QED
    BY <2>3, <2>4
<1>8. ASSUME Lower(a, c, Places)
      PROVE  TupleLess(a, c)
  <2>1. PICK i \in 1 .. Places :
          Digit(a, i) < Digit(c, i) /\ \A j \in 1 .. i - 1 : Digit(a, j) = Digit(c, j)
    BY <1>8 DEF Lower, SameDigits
  <2>2. i \in 1 .. n
    <3>1. Digit(a, i) \in Nat
      BY <1>2, <1>3, <1>4, <1>5
    <3> QED
      BY <1>2, <1>5, <2>1, <3>1
  <2>3. CASE ~ (i > m)
    <3>1. i \in 1 .. m /\ a[i] < c[i]
      BY <1>2, <1>5, <2>1, <2>2, <2>3
    <3>2. \A j \in 1 .. i - 1 : j <= m /\ a[j] = c[j]
      <4> TAKE j \in 1 .. i - 1
      <4>1. j \in 1 .. m /\ j \in 1 .. n
        BY <1>2, <2>2, <3>1
      <4> QED
        BY <1>5, <2>1, <4>1
    <3> QED
      BY <1>1, <2>2, <3>1, <3>2 DEF TupleLess
  <2>4. CASE i > m
    <3>1. m + 1 \in 1 .. n /\ m + 1 > m /\ (m + 1) - 1 = m
      BY <1>2, <2>2, <2>4
    <3>2. \A j \in 1 .. m : j <= m /\ a[j] = c[j]
      <4> TAKE j \in 1 .. m
      <4>1. j \in 1 .. i - 1 /\ j \in 1 .. n /\ j <= m
        BY <1>2, <2>2, <2>4
      <4> QED
        BY <1>5, <2>1, <4>1
    <3> QED
      BY <1>1, <3>1, <3>2 DEF TupleLess
  <2> QED
    BY <2>3, <2>4
<1> QED
  BY <1>7, <1>8

LEMMA ValueTyped ==
  /\ Unit \in Nat \ {0}
  /\ \A d \in Digits : Value(d) \in 0 .. Unit - 1
<1>1. Places \in Nat /\ Places \in 0 .. Places
  BY CalendarAssumption
<1>2. Unit \in Nat \ {0}
  BY <1>1, PowersExist DEF Unit
<1>3. ASSUME NEW d \in Digits
      PROVE  Value(d) \in Nat /\ Value(d) < Unit
  <2>1. InBase(d)
    BY DigitsTyped
  <2> QED
    BY <1>1, <2>1, UnitsExist, UnitsBelow DEF Value, Unit
<1> QED
  BY <1>2, <1>3

LEMMA ValueOrder ==
  ASSUME NEW a \in Digits, NEW c \in Digits, Stripped(a), Stripped(c)
  PROVE  /\ Value(a) = Value(c) <=> a = c
         /\ Value(a) < Value(c) <=> TupleLess(a, c)
<1>1. Places \in 0 .. Places /\ InBase(a) /\ InBase(c)
  BY CalendarAssumption, DigitsTyped
<1>2. /\ Value(a) = Value(c) <=> SameDigits(a, c, Places)
      /\ Value(a) < Value(c) <=> Lower(a, c, Places)
  BY <1>1, UnitsOrder DEF Value
<1>3. TupleLess(a, c) <=> Lower(a, c, Places)
  BY StrippedOrder
<1>4. SameDigits(a, c, Places) => a = c
  BY StrippedSame
<1>5. a = c => SameDigits(a, c, Places)
  BY DEF SameDigits
<1> QED
  BY <1>2, <1>3, <1>4, <1>5

LEMMA ValueCanonical ==
  ASSUME NEW d \in Digits
  PROVE  Value(Canonical(d)) = Value(d)
<1>1. PICK c \in Digits : c = Canonical(d) /\ SameDigits(c, d, Places)
  BY CanonicalStrips
<1>2. Places \in 0 .. Places /\ InBase(c) /\ InBase(d)
  BY CalendarAssumption, DigitsTyped
<1> QED
  BY <1>1, <1>2, UnitsOrder DEF Value

-------------------------------------------------------------------------------
(* Numbers below the unit as digits, and to the precision of the context. *)

LEMMA QuotientsExist ==
  ASSUME NEW x \in Nat
  PROVE  /\ Quotients(x) \in [0 .. Places -> Nat] /\ Quotients(x)[0] = x
         /\ \A k \in 1 .. Places : Quotients(x)[k] = Quotients(x)[k - 1] \div Base
<1>1. PICK n \in Nat : n = Places
  BY CalendarAssumption
<1>2. PICK b \in Nat \ {0} : b = Base
  BY CalendarAssumption
<1>3. \A y \in Nat : y \div b \in Nat
  OBVIOUS
<1> DEFINE step == [a \in (1 .. n) \X Nat |-> a[2] \div b]
           Divides(s) == s = [k \in 0 .. n |-> IF k = 0 THEN x ELSE s[k - 1] \div b]
<1>4. step \in [(1 .. n) \X Nat -> Nat]
  BY <1>3
<1>5. PICK s : Recursion(s, x, step, n, Nat)
  <2> HIDE DEF step
  <2> QED
    BY <1>4, RecursionExists
<1>6. Divides(s)
  <2>1. \A k \in 1 .. n : s[k] = s[k - 1] \div b
    <3> TAKE k \in 1 .. n
    <3>1. <<k, s[k - 1]>> \in (1 .. n) \X Nat
      BY <1>5 DEF Recursion
    <3> QED
      BY <1>5, <3>1 DEF Recursion
  <2> QED
    BY <1>5, <2>1 DEF Recursion
<1>7. Quotients(x) = CHOOSE r : Divides(r)
  BY <1>1, <1>2 DEF Quotients
<1>8. PICK r : r = Quotients(x) /\ Divides(r)
  BY <1>6, <1>7
<1>9. r[0] = x /\ \A k \in 1 .. n : r[k] = r[k - 1] \div b
  <2>1. \A k \in 0 .. n : r[k] = IF k = 0 THEN x ELSE r[k - 1] \div b
    BY <1>8
  <2>2. 0 \in 0 .. n /\ \A k \in 1 .. n : k \in 0 .. n /\ k # 0
    OBVIOUS
  <2> QED
    BY <2>1, <2>2
<1> DEFINE T == {k \in Nat : k <= n => r[k] \in Nat}
<1>10. 0 \in T
  BY <1>9
<1>11. ASSUME NEW k \in Nat, k \in T
       PROVE  k + 1 \in T
  <2> SUFFICES ASSUME k + 1 <= n
               PROVE  r[k + 1] \in Nat
    OBVIOUS
  <2>1. k + 1 \in 1 .. n /\ (k + 1) - 1 = k /\ r[k] \in Nat
    BY <1>11
  <2> QED
    BY <1>3, <1>9, <2>1
<1>12. Nat \subseteq T
  <2> HIDE DEF T
  <2> QED
    BY <1>10, <1>11, EveryNumber
<1>13. r \in [0 .. n -> Nat]
  <2>1. r = [k \in 0 .. n |-> r[k]] /\ \A k \in 0 .. n : r[k] \in Nat
    BY <1>8, <1>12
  <2> QED
    BY <2>1
<1> HIDE DEF Divides
<1> QED
  BY <1>1, <1>2, <1>8, <1>9, <1>13

\* The text of a fraction is one that Core leaves alone, and it is exact.
LEMMA FractionExact ==
  ASSUME NEW x \in 0 .. Unit - 1
  PROVE  Fraction(x) \in Digits /\ Stripped(Fraction(x)) /\ Value(Fraction(x)) = x
<1>1. PICK n \in Nat : n = Places
  BY CalendarAssumption
<1>2. PICK b \in Nat \ {0} : b = Base
  BY CalendarAssumption
<1>3. PICK p \in [0 .. n -> Nat \ {0}] :
        p = Power /\ p[0] = 1 /\ p[n] = Unit /\ \A k \in 1 .. n : p[k] = b * p[k - 1]
  BY <1>1, <1>2, PowersExist DEF Unit
<1>4. x \in Nat /\ x < p[n]
  BY <1>1, <1>3
<1>5. PICK q \in [0 .. n -> Nat] :
        q = Quotients(x) /\ q[0] = x /\ \A k \in 1 .. n : q[k] = q[k - 1] \div b
  <2>1. /\ Quotients(x) \in [0 .. Places -> Nat] /\ Quotients(x)[0] = x
        /\ \A k \in 1 .. Places : Quotients(x)[k] = Quotients(x)[k - 1] \div Base
    BY <1>4, QuotientsExist
  <2> QED
    BY <1>1, <1>2, <2>1
<1>6. q[n] = 0
  <2> DEFINE T == {k \in Nat : k <= n => q[k] < p[n - k]}
  <2>1. 0 \in T
    BY <1>4, <1>5
  <2>2. ASSUME NEW k \in Nat, k \in T
        PROVE  k + 1 \in T
    <3> SUFFICES ASSUME k + 1 <= n
                 PROVE  q[k + 1] < p[n - (k + 1)]
      OBVIOUS
    <3>1. /\ k + 1 \in 1 .. n /\ (k + 1) - 1 = k /\ k \in 0 .. n /\ q[k] < p[n - k]
          /\ n - k \in 1 .. n /\ (n - k) - 1 = n - (k + 1) /\ n - (k + 1) \in 0 .. n
      BY <2>2
    <3>2. PICK y \in Nat, z \in Nat \ {0} : y = q[k] /\ z = p[n - (k + 1)]
      BY <1>3, <1>5, <3>1
    <3>3. y < b * z
      BY <1>3, <3>1, <3>2
    <3>4. y \div b < z
      <4>0. y \in Int
        OBVIOUS
      <4>1. y \div b \in Int /\ y % b \in 0 .. b - 1 /\ Composed(b, y \div b, y % b) = y
        BY <4>0, Division
      <4>2. PICK d \in Int, r \in 0 .. b - 1 : d = y \div b /\ r = y % b
        BY <4>1
      <4>3. Composed(b, d, r) < Composed(b, z, 0)
        BY <3>3, <4>1, <4>2 DEF Composed
      <4>4. 0 \in 0 .. b - 1 /\ z \in Int
        OBVIOUS
      <4>5. d < z \/ (d = z /\ r < 0)
        BY <4>3, <4>4, ComposedOrder
      <4> QED
        BY <4>2, <4>5
    <3>5. q[k + 1] = y \div b
      BY <1>5, <3>1, <3>2
    <3> QED
      BY <3>2, <3>4, <3>5
  <2>3. Nat \subseteq T
    <3> HIDE DEF T
    <3> QED
      BY <2>1, <2>2, EveryNumber
  <2>4. q[n] < p[n - n] /\ n - n = 0
    BY <2>3
  <2> QED
    BY <1>3, <1>5, <2>4
<1> DEFINE rest(i) == q[n - i] % b
<1>7. PICK d : d = [i \in 1 .. n |-> rest(i)]
  OBVIOUS
<1>8. d \in [1 .. n -> 0 .. b - 1]
  <2>1. \A i \in 1 .. n : q[n - i] % b \in 0 .. b - 1
    <3> TAKE i \in 1 .. n
    <3>1. PICK y \in Nat : y = q[n - i]
      BY <1>5
    <3>2. y % b \in 0 .. b - 1
      OBVIOUS
    <3> QED
      BY <3>1, <3>2
  <2>2. \A i \in 1 .. n : rest(i) \in 0 .. b - 1
    BY <2>1
  <2> HIDE DEF rest
  <2> QED
    BY <1>7, <2>2
<1>9. d \in Digits
  <2>1. n \in 0 .. Places
    BY <1>1
  <2> HIDE DEF rest
  <2> QED
    BY <1>2, <1>8, <2>1 DEF Digits
<1>10. Len(d) = n /\ \A i \in 1 .. n : Digit(d, i) = d[i]
  BY <1>8 DEF Digit
<1>11. PICK u \in [0 .. n -> Nat] :
         u = Units(d) /\ u[0] = 0 /\ \A k \in 1 .. n : u[k] = Composed(b, u[k - 1], Digit(d, k))
  BY <1>1, <1>2, <1>9, DigitsTyped, UnitsExist
<1> DEFINE T == {k \in Nat : k <= n => u[k] = q[n - k]}
<1>12. 0 \in T
  BY <1>6, <1>11
<1>13. ASSUME NEW k \in Nat, k \in T
       PROVE  k + 1 \in T
  <2> SUFFICES ASSUME k + 1 <= n
               PROVE  u[k + 1] = q[n - (k + 1)]
    OBVIOUS
  <2>1. /\ k + 1 \in 1 .. n /\ (k + 1) - 1 = k /\ u[k] = q[n - k]
        /\ n - k \in 1 .. n /\ (n - k) - 1 = n - (k + 1) /\ n - (k + 1) \in 0 .. n
    BY <1>13
  <2>2. PICK y \in Nat : y = q[n - (k + 1)]
    BY <1>5, <2>1
  <2>3. q[n - k] = y \div b /\ Digit(d, k + 1) = y % b
    BY <1>5, <1>7, <1>10, <2>1, <2>2
  <2>4. u[k + 1] = Composed(b, y \div b, y % b)
    BY <1>11, <2>1, <2>3
  <2> QED
    BY <2>2, <2>4, Division
<1>14. Nat \subseteq T
  <2> HIDE DEF T
  <2> QED
    BY <1>12, <1>13, EveryNumber
<1>15. Value(d) = x
  <2>1. n - n = 0 /\ u[n] = q[n - n]
    BY <1>14
  <2> QED
    BY <1>1, <1>5, <1>11, <2>1 DEF Value
<1>16. Fraction(x) = Canonical(d)
  BY <1>1, <1>2, <1>5, <1>7 DEF Fraction
<1> QED
  BY <1>9, <1>15, <1>16, CanonicalStrips, ValueCanonical

\* The digits of a fraction without the zeros after them fit the precision.
Short(x) ==
  \E z \in 0 .. Places : /\ x % Power[z] = 0
                         /\ z + Precision <= Places => x < Power[z + Precision]

LEMMA PowersDivide ==
  ASSUME NEW a \in 0 .. Places, NEW z \in a .. Places
  PROVE  \E q \in Nat : Power[z] = Composed(Power[a], q, 0)
<1>1. PICK n \in Nat : n = Places
  BY CalendarAssumption
<1>2. PICK b \in Nat \ {0} : b = Base
  BY CalendarAssumption
<1>3. PICK p \in [0 .. n -> Nat \ {0}] : p = Power /\ \A k \in 1 .. n : p[k] = b * p[k - 1]
  BY <1>1, <1>2, PowersExist
<1>4. a \in 0 .. n /\ a \in Nat /\ z \in a .. n
  BY <1>1
<1>5. PICK g \in Nat : g = p[a]
  BY <1>3, <1>4
<1> DEFINE T == {k \in Nat : a + k <= n => \E q \in Nat : p[a + k] = g * q}
<1>6. 0 \in T
  <2>1. p[a + 0] = g * 1 /\ 1 \in Nat
    BY <1>4, <1>5
  <2> QED
    BY <2>1
<1>7. ASSUME NEW k \in Nat, k \in T
      PROVE  k + 1 \in T
  <2> SUFFICES ASSUME a + (k + 1) <= n
               PROVE  \E q \in Nat : p[a + (k + 1)] = g * q
    OBVIOUS
  <2>1. a + k <= n /\ a + (k + 1) \in 1 .. n /\ (a + (k + 1)) - 1 = a + k
    BY <1>4
  <2>2. PICK q \in Nat : p[a + k] = g * q
    BY <1>7, <2>1
  <2>3. p[a + (k + 1)] = b * p[a + k]
    BY <1>3, <2>1
  <2>4. b * (g * q) = g * (b * q) /\ b * q \in Nat
    OBVIOUS
  <2> QED
    BY <2>2, <2>3, <2>4
<1>8. Nat \subseteq T
  <2> HIDE DEF T
  <2> QED
    BY <1>6, <1>7, EveryNumber
<1>9. z - a \in Nat /\ a + (z - a) = z /\ z <= n
  BY <1>4
<1>10. PICK q \in Nat : p[z] = g * q
  BY <1>8, <1>9
<1>11. g * q = Composed(g, q, 0)
  BY DEF Composed
<1> QED
  BY <1>3, <1>5, <1>10, <1>11

\* Rounding gives a number, and changes none that the precision can write.
LEMMA RoundedTyped ==
  ASSUME NEW x \in 0 .. Unit - 1
  PROVE  Rounded(x) \in Nat /\ (Short(x) => Rounded(x) = x)
<1>1. PICK n \in Nat : n = Places
  BY CalendarAssumption
<1>2. PICK p \in [0 .. n -> Nat \ {0}] : p = Power /\ p[n] = Unit
  BY <1>1, PowersExist DEF Unit
<1>3. Precision \in Nat \ {0} /\ x \in Nat /\ x < p[n]
  BY <1>2, CalendarAssumption
<1> DEFINE S == {k \in 0 .. n : x < p[k]}
<1>4. PICK l \in S : \A k \in S : l <= k
  <2>1. S \in SUBSET Nat /\ n \in S
    BY <1>3
  <2> HIDE DEF S
  <2> QED
    BY <2>1, LeastNumber
<1> DEFINE Long(k) == x < p[k] /\ \A j \in 0 .. k - 1 : x >= p[j]
           length == CHOOSE k \in 0 .. n : Long(k)
<1>5. \E k \in 0 .. n : Long(k)
  <2>1. \A j \in 0 .. l - 1 : x >= p[j]
    <3> TAKE j \in 0 .. l - 1
    <3>1. j \in 0 .. n /\ ~ (l <= j)
      BY <1>4
    <3>2. PICK y \in Nat : y = p[j]
      BY <1>2, <3>1
    <3> QED
      BY <1>3, <1>4, <3>1, <3>2
  <2> QED
    BY <1>4, <2>1
<1>6. length \in 0 .. n /\ Long(length)
  BY <1>5
<1> DEFINE grain == IF length <= Precision THEN 1 ELSE p[length - Precision]
           low   == x \div grain
           twice == 2 * (x % grain)
<1>7. Rounded(x) =
        grain * (IF twice > grain \/ (twice = grain /\ low % 2 = 1) THEN low + 1 ELSE low)
  BY <1>1, <1>2 DEF Rounded
<1>8. PICK m \in 0 .. n : m = length /\ \A j \in 0 .. m - 1 : x >= p[j]
  <2>1. PICK m : m = length
    OBVIOUS
  <2> HIDE DEF length
  <2> QED
    BY <1>6, <2>1
<1>9. PICK g \in Nat \ {0} :
        g = grain /\ IF m <= Precision THEN g = 1 ELSE g = p[m - Precision]
  <2>1. CASE m <= Precision
    BY <1>8, <2>1
  <2>2. CASE ~ (m <= Precision)
    <3>1. m - Precision \in 0 .. n
      BY <1>3, <2>2
    <3>2. p[m - Precision] \in Nat \ {0}
      BY <1>2, <3>1
    <3>3. grain = p[m - Precision]
      BY <1>8, <2>2
    <3> HIDE DEF grain
    <3> QED
      BY <2>2, <3>2, <3>3
  <2> QED
    BY <2>1, <2>2
<1>10. PICK a \in Nat : a = low
  <2>1. x \div g \in Nat
    BY <1>3
  <2> QED
    BY <1>9, <2>1
<1>11. PICK c \in {a, a + 1} :
         c = IF twice > grain \/ (twice = grain /\ low % 2 = 1) THEN low + 1 ELSE low
  BY <1>10
<1>12. Rounded(x) = g * c
  BY <1>7, <1>9, <1>11
<1>13. g * c \in Nat
  OBVIOUS
<1>14. ASSUME Short(x)
       PROVE  Rounded(x) = x
  <2>1. PICK w \in Nat : x = Composed(g, w, 0)
    <3>1. CASE m <= Precision
      <4>1. g = 1 /\ x = Composed(1, x, 0)
        BY <1>3, <1>9, <3>1 DEF Composed
      <4> QED
        BY <1>3, <4>1
    <3>2. CASE ~ (m <= Precision)
      <4>1. PICK z \in 0 .. n : x % p[z] = 0 /\ (z + Precision <= n => x < p[z + Precision])
        BY <1>1, <1>2, <1>14 DEF Short
      <4>2. m - Precision \in 0 .. n /\ z \in m - Precision .. n
        <5>1. CASE z + Precision <= n
          <6>1. z + Precision \in 0 .. n /\ x < p[z + Precision]
            BY <1>3, <4>1, <5>1
          <6>2. PICK j \in 0 .. n, y \in Nat : j = z + Precision /\ y = p[j] /\ x < y
            BY <1>2, <6>1
          <6>3. ~ (j \in 0 .. m - 1)
            <7>1. j \in 0 .. m - 1 => x >= p[j]
              BY <1>8
            <7>2. ~ (x >= y)
              BY <1>3, <6>2
            <7> QED
              BY <6>2, <7>1, <7>2
          <6> QED
            BY <1>3, <3>2, <6>2, <6>3
        <5>2. CASE ~ (z + Precision <= n)
          BY <1>3, <3>2, <5>2
        <5> QED
          BY <5>1, <5>2
      <4>3. PICK q \in Nat : p[z] = Composed(g, q, 0)
        <5>1. \E q \in Nat : p[z] = Composed(p[m - Precision], q, 0)
          BY <1>1, <1>2, <4>2, PowersDivide
        <5> QED
          BY <1>9, <3>2, <5>1
      <4>4. PICK h \in Nat \ {0} : h = p[z]
        BY <1>2
      <4>5. PICK r \in Int : x = Composed(h, r, 0)
        <5>1. x \in Int
          BY <1>3
        <5>2. x \div h \in Int /\ Composed(h, x \div h, x % h) = x
          BY <5>1, Division
        <5> QED
          BY <4>1, <4>4, <5>2
      <4>6. x = h * r /\ h = g * q
        BY <4>3, <4>4, <4>5 DEF Composed
      <4>7. r >= 0
        BY <1>3, <4>6
      <4>8. h * r = g * (q * r) /\ q * r \in Nat
        BY <4>6, <4>7
      <4>9. x = Composed(g, q * r, 0)
        BY <4>6, <4>8 DEF Composed
      <4> QED
        BY <4>8, <4>9
    <3> QED
      BY <3>1, <3>2
  <2>2. x \div g = w /\ x % g = 0
    <3>1. 0 \in 0 .. g - 1 /\ w \in Int
      OBVIOUS
    <3> QED
      BY <2>1, <3>1, DivisionUnique
  <2>3. a = w /\ twice = 0 /\ grain = g
    BY <1>9, <1>10, <2>2
  <2>4. c = w
    <3>1. ~ (twice > grain) /\ ~ (twice = grain) /\ low = w
      BY <1>10, <2>3
    <3> HIDE DEF twice, grain, low
    <3> QED
      BY <1>11, <3>1
  <2>5. x = g * w
    BY <2>1 DEF Composed
  <2> QED
    BY <1>12, <2>4, <2>5
<1> QED
  BY <1>12, <1>13, <1>14

\* With places within the precision every fraction is short.
LEMMA AllShort ==
  ASSUME Places <= Precision, NEW x \in 0 .. Unit - 1
  PROVE  Short(x)
<1>1. Places \in Nat /\ Precision \in Nat \ {0} /\ 0 \in 0 .. Places
  BY CalendarAssumption
<1>2. x \in Nat /\ Power[0] = 1 /\ Power[Places] = Unit /\ x < Unit
  BY ValueTyped, PowersExist DEF Unit
<1>3. x % 1 = 0
  BY <1>2
<1>4. 0 + Precision <= Places => 0 + Precision = Places
  BY <1>1
<1> QED
  BY <1>1, <1>2, <1>3, <1>4 DEF Short

-------------------------------------------------------------------------------
(* Normal forms, and the instants they stand for. *)

Normal(t) ==
  /\ t \in [scale : Scales, day : 1 .. Days, minute : 0 .. Minutes - 1, second : 0 .. Seconds,
            digits : Digits, zone : {"none", "Z"}, offset : {0}]
  /\ Stripped(t.digits)
  /\ t.zone = IF t.scale = "UTC" THEN "Z" ELSE "none"
  /\ t.second = Seconds => t.zone = "Z"

\* Days and minutes are the parts of the minute since the calendar began.
LEMMA CalendarDays ==
  ASSUME NEW x \in Int
  PROVE  /\ OnCalendar(x) <=> x \div Minutes + 1 \in 1 .. Days
         /\ Composed(Minutes, x \div Minutes, x % Minutes) = x
         /\ x \div Minutes \in Int /\ x % Minutes \in 0 .. Minutes - 1
<1>1. PICK m \in Nat \ {0}, d \in Nat \ {0} : m = Minutes /\ d = Days
  BY CalendarAssumption
<1>2. x \div m \in Int /\ x % m \in 0 .. m - 1 /\ Composed(m, x \div m, x % m) = x
  BY Division
<1>3. PICK q \in Int, r \in 0 .. m - 1 : q = x \div m /\ r = x % m /\ Composed(m, q, r) = x
  BY <1>2
<1>4. 0 \in 0 .. m - 1 /\ Composed(m, 0, 0) = 0 /\ Composed(m, d, 0) = d * m /\ d * m \in Int
  BY DEF Composed
<1>5. Composed(m, q, r) < Composed(m, 0, 0) <=> q < 0 \/ (q = 0 /\ r < 0)
  BY <1>4, ComposedOrder
<1>6. Composed(m, q, r) < Composed(m, d, 0) <=> q < d \/ (q = d /\ r < 0)
  BY <1>4, ComposedOrder
<1>7. (x < 0 <=> q < 0) /\ (x < d * m <=> q < d)
  BY <1>3, <1>4, <1>5, <1>6
<1>8. PICK e \in Int : e = d * m
  BY <1>4
<1>9. x \in 0 .. e - 1 <=> q + 1 \in 1 .. d
  BY <1>7, <1>8
<1> QED
  BY <1>1, <1>2, <1>3, <1>8, <1>9 DEF OnCalendar

LEMMA NormalKept ==
  ASSUME NEW t, Normal(t)
  PROVE  Readable(t) /\ Normalize(t) = t
<1>1. PICK m \in Nat \ {0} : m = Minutes
  BY CalendarAssumption
<1>2. PICK d \in Int, u \in 0 .. m - 1 : d = t.day - 1 /\ u = t.minute
  <2>1. t.day \in 1 .. Days /\ t.minute \in 0 .. m - 1 /\ Days \in Nat
    BY <1>1, CalendarAssumption DEF Normal
  <2> QED
    BY <2>1
<1>3. UtcMinute(t) = Composed(m, d, u)
  <2>1. t.offset = 0 /\ UtcMinute(t) = d * m + u - t.offset
    BY <1>1, <1>2 DEF UtcMinute, Normal
  <2> QED
    BY <2>1 DEF Composed
<1>4. UtcMinute(t) \div m = d /\ UtcMinute(t) % m = u
  BY <1>3, DivisionUnique
<1>5. t.day \in Int /\ d + 1 = t.day
  BY <1>2, CalendarAssumption DEF Normal
<1>6. Canonical(t.digits) = t.digits
  BY CanonicalOnce DEF Normal
<1>7. Normalize(t) = [t EXCEPT !.day = t.day, !.minute = t.minute, !.digits = t.digits,
                               !.zone = t.zone, !.offset = t.offset]
  BY <1>1, <1>2, <1>4, <1>5, <1>6 DEF Normalize, Normal
<1>8. Normalize(t) = t
  BY <1>7 DEF Normal
<1>9. Readable(t)
  BY DEF Readable, Normal, Scales
<1> QED
  BY <1>8, <1>9

LEMMA NormalizeNormal ==
  ASSUME NEW t \in Written, OnCalendar(UtcMinute(t))
  PROVE  Normal(Normalize(t)) /\ InstantOf(Normalize(t)) = InstantOf(t)
<1>0. /\ t \in [scale : Scales, day : 1 .. Days, minute : 0 .. Minutes - 1,
                second : 0 .. Seconds, digits : Digits, zone : Zones,
                offset : Offsets \cup {0}]
      /\ Readable(t)
  BY DEF Written
<1>1. PICK x \in Int : x = UtcMinute(t)
  <2>1. PICK day \in Int, minute \in Int, offset \in Int, m \in Int :
          day = t.day /\ minute = t.minute /\ offset = t.offset /\ m = Minutes
    <3>1. t.day \in 1 .. Days /\ t.minute \in 0 .. Minutes - 1 /\ t.offset \in Offsets \cup {0}
      BY <1>0
    <3>2. Days \in Nat /\ Minutes \in Nat /\ Offsets \subseteq Int
      BY CalendarAssumption
    <3>3. t.day \in Int /\ t.minute \in Int
      BY <3>1, <3>2
    <3>4. t.offset \in Int
      <4>1. CASE t.offset \in Offsets
        BY <3>2, <4>1
      <4>2. CASE t.offset = 0
        BY <4>2
      <4> QED
        BY <3>1, <4>1, <4>2
    <3> QED
      BY <3>2, <3>3, <3>4
  <2>2. (day - 1) * m + minute - offset \in Int
    OBVIOUS
  <2> QED
    BY <2>1, <2>2 DEF UtcMinute
<1>2. PICK day \in 1 .. Days, minute \in 0 .. Minutes - 1 :
        day = x \div Minutes + 1 /\ minute = x % Minutes /\ Composed(Minutes, day - 1, minute) = x
  <2>1. PICK q \in Int : q = x \div Minutes
    BY CalendarDays
  <2>2. q + 1 \in 1 .. Days /\ (q + 1) - 1 = q
    BY <1>1, <2>1, CalendarDays
  <2> QED
    BY <2>1, <2>2, CalendarDays
<1>3. PICK c \in Digits : c = Canonical(t.digits) /\ Stripped(c) /\ Value(c) = Value(t.digits)
  BY <1>0, CanonicalStrips, ValueCanonical
<1>4. PICK n : n = Normalize(t)
  OBVIOUS
<1>5. /\ n.scale = t.scale /\ n.day = day /\ n.minute = minute /\ n.second = t.second
      /\ n.digits = c /\ n.offset = 0
      /\ n.zone = IF t.scale = "UTC" THEN "Z" ELSE "none"
      /\ n = [scale |-> n.scale, day |-> n.day, minute |-> n.minute, second |-> n.second,
              digits |-> n.digits, zone |-> n.zone, offset |-> n.offset]
  BY <1>0, <1>1, <1>2, <1>3, <1>4 DEF Normalize
<1>6. n.zone \in {"none", "Z"} /\ (n.second = Seconds => n.zone = "Z")
  BY <1>0, <1>5 DEF Readable
<1>7. Normal(n)
  BY <1>0, <1>3, <1>5, <1>6 DEF Normal
<1>8. InstantOf(n) = InstantOf(t)
  <2>1. (n.day - 1) * Minutes + n.minute - n.offset = x
    <3>1. PICK m \in Nat, p \in Int, u \in Int : m = Minutes /\ p = day - 1 /\ u = minute
      BY <1>2, CalendarAssumption
    <3>2. p * m + u - 0 = Composed(m, p, u)
      BY DEF Composed
    <3> QED
      BY <1>2, <1>5, <3>1, <3>2
  <2>2. x = (t.day - 1) * Minutes + t.minute - t.offset
    BY <1>1 DEF UtcMinute
  <2> QED
    BY <1>3, <1>5, <2>1, <2>2 DEF InstantOf
<1> QED
  BY <1>4, <1>7, <1>8

\* What the adapter writes is already normal.
Moments == [ordinal : Int, second : 0 .. DayLength - 1, fraction : 0 .. Unit - 1]

LEMMA SerializedNormal ==
  ASSUME NEW moment \in Moments, InRange(moment), NEW scale \in Scales
  PROVE  /\ Normal(Serialized(moment, scale))
         /\ Serialized(moment, scale).second \in 0 .. Seconds - 1
<1>1. PICK m \in Nat \ {0}, s \in Nat \ {0} : m = Minutes /\ s = Seconds
  BY CalendarAssumption
<1>2. PICK x \in Nat : x = moment.second /\ x < m * s
  BY <1>1 DEF Moments, DayLength
<1>3. PICK q \in Int, r \in 0 .. s - 1 : q = x \div s /\ r = x % s /\ Composed(s, q, r) = x
  <2>1. x \in Int
    OBVIOUS
  <2> QED
    BY <2>1, Division
<1>4. q \in 0 .. m - 1
  <2>1. 0 \in 0 .. s - 1 /\ Composed(s, m, 0) = m * s /\ Composed(s, 0, 0) = 0
    BY DEF Composed
  <2>2. ~ (Composed(s, q, r) < Composed(s, 0, 0)) /\ Composed(s, q, r) < Composed(s, m, 0)
    BY <1>2, <1>3, <2>1
  <2>3. /\ Composed(s, q, r) < Composed(s, 0, 0) <=> q < 0 \/ (q = 0 /\ r < 0)
        /\ Composed(s, q, r) < Composed(s, m, 0) <=> q < m \/ (q = m /\ r < 0)
    <3>1. m \in Int
      OBVIOUS
    <3> QED
      BY <2>1, <3>1, ComposedOrder
  <2> QED
    BY <2>2, <2>3
<1>5. PICK c \in Digits : c = Fraction(moment.fraction) /\ Stripped(c)
  BY FractionExact DEF Moments
<1>6. PICK n : n = Serialized(moment, scale)
  OBVIOUS
<1>7. n = [scale |-> scale, day |-> moment.ordinal, minute |-> q, second |-> r, digits |-> c,
           zone |-> IF scale = "UTC" THEN "Z" ELSE "none", offset |-> 0]
  BY <1>1, <1>2, <1>3, <1>5, <1>6 DEF Serialized
<1>8. moment.ordinal \in 1 .. Days /\ r \in 0 .. s /\ r # s
  BY DEF InRange
<1>9. n.zone \in {"none", "Z"}
  BY <1>7
<1>10. Normal(n)
  BY <1>1, <1>4, <1>5, <1>7, <1>8, <1>9 DEF Normal
<1> QED
  BY <1>1, <1>6, <1>7, <1>10

-------------------------------------------------------------------------------
(* Adding a duration. *)

\* The units since the calendar began, counting the days from zero.
Total(moment) ==
  Composed(Unit, Composed(DayLength, moment.ordinal, moment.second), moment.fraction)

\* Counting days or counting minutes makes one day of difference.
LEMMA DaysAndMinutes ==
  ASSUME NEW u \in Nat, NEW m \in Nat, NEW s \in Nat,
         NEW o \in Int, NEW x \in Int, NEW y \in Int, NEW v \in Int
  PROVE  Composed(u, Composed(m * s, o, Composed(s, x, y)), v)
           = Composed(s * u, Composed(m, o - 1, x), Composed(u, y, v)) + u * (m * s)
<1>1. u * ((m * s) * o + (s * x + y)) + v
        = ((s * u) * (m * (o - 1) + x) + (u * y + v)) + u * (m * s)
  OBVIOUS
<1> QED
  BY <1>1 DEF Composed

LEMMA MomentTyped ==
  ASSUME NEW t, Normal(t), Supported(t)
  PROVE  /\ Moment(t) \in Moments
         /\ Moment(t) = [ordinal |-> t.day, second |-> Composed(Seconds, t.minute, t.second),
                         fraction |-> Value(t.digits)]
<1>1. PICK m \in Nat \ {0}, s \in Nat \ {0} : m = Minutes /\ s = Seconds
  BY CalendarAssumption
<1>2. PICK x \in 0 .. m - 1, y \in 0 .. s - 1 : x = t.minute /\ y = t.second
  <2>1. t.minute \in 0 .. m - 1 /\ t.second \in 0 .. s /\ t.second # s
    BY <1>1 DEF Normal, Supported
  <2> QED
    BY <2>1
<1>3. x * s + y \in 0 .. m * s - 1
  <2>1. PICK z \in Nat : m = x + 1 + z
    <3>1. m - x - 1 \in Nat /\ m = x + 1 + (m - x - 1)
      OBVIOUS
    <3> QED
      BY <3>1
  <2>2. m * s = x * s + s + z * s /\ z * s \in Nat /\ x * s \in Nat
    BY <2>1
  <2> QED
    BY <2>2
<1>4. t.day \in Int /\ Value(t.digits) \in 0 .. Unit - 1
  BY ValueTyped, CalendarAssumption DEF Normal
<1>5. PICK e : e = x * s + y
  OBVIOUS
<1>6. e \in 0 .. DayLength - 1 /\ e = Composed(Seconds, t.minute, t.second)
  BY <1>1, <1>2, <1>3, <1>5 DEF DayLength, Composed
<1>7. Moment(t) = [ordinal |-> t.day, second |-> e, fraction |-> Value(t.digits)]
  BY <1>1, <1>2, <1>5 DEF Moment
<1> QED
  BY <1>4, <1>6, <1>7 DEF Moments

LEMMA TotalTyped ==
  ASSUME NEW a \in Moments
  PROVE  Total(a) \in Int
<1>1. PICK u \in Nat, l \in Nat : u = Unit /\ l = DayLength
  <2>1. PICK m \in Nat, s \in Nat : m = Minutes /\ s = Seconds
    BY CalendarAssumption
  <2>2. m * s \in Nat
    OBVIOUS
  <2> QED
    BY <2>1, <2>2, ValueTyped DEF DayLength
<1>2. PICK o \in Int, x \in Int, f \in Int : o = a.ordinal /\ x = a.second /\ f = a.fraction
  BY <1>1 DEF Moments
<1>3. u * (l * o + x) + f \in Int
  OBVIOUS
<1> QED
  BY <1>1, <1>2, <1>3 DEF Total, Composed

\* The floor, the rounded fraction and the two carries add the duration up.
LEMMA SumAdds ==
  ASSUME NEW t, Normal(t), Supported(t), NEW duration \in Int
  PROVE  /\ Sum(t, duration) \in Moments
         /\ Short(duration % Unit) => Total(Sum(t, duration)) = Total(Moment(t)) + duration
<1>1. PICK u \in Nat \ {0}, l \in Nat \ {0} : u = Unit /\ l = DayLength
  <2>1. PICK m \in Nat \ {0}, s \in Nat \ {0} : m = Minutes /\ s = Seconds
    BY CalendarAssumption
  <2>2. m * s \in Nat \ {0}
    OBVIOUS
  <2> QED
    BY <2>1, <2>2, ValueTyped DEF DayLength
<1>2. PICK o \in Int, x \in Nat, f \in Nat :
        Moment(t) = [ordinal |-> o, second |-> x, fraction |-> f]
  BY <1>1, MomentTyped DEF Moments
<1>3. PICK w \in Int, g \in 0 .. u - 1 :
        w = duration \div u /\ g = duration % u /\ u * w + g = duration
  BY Division DEF Composed
<1>4. PICK r \in Nat : r = Rounded(g) /\ (Short(g) => r = g)
  BY <1>1, <1>3, RoundedTyped
<1>5. PICK sum \in Int : sum = f + r
  OBVIOUS
<1>6. PICK c \in Int, h \in 0 .. u - 1 : c = sum \div u /\ h = sum % u /\ u * c + h = sum
  BY Division DEF Composed
<1>7. PICK n \in Int : n = x + w + c
  OBVIOUS
<1>8. PICK e \in Int, k \in 0 .. l - 1 : e = n \div l /\ k = n % l /\ l * e + k = n
  BY Division DEF Composed
<1>9. Sum(t, duration) = [ordinal |-> o + e, second |-> k, fraction |-> h]
  BY <1>1, <1>2, <1>3, <1>4, <1>5, <1>6, <1>7, <1>8 DEF Sum
<1>10. Sum(t, duration) \in Moments
  BY <1>1, <1>9 DEF Moments
<1>11. ASSUME Short(duration % Unit)
       PROVE  Total(Sum(t, duration)) = Total(Moment(t)) + duration
  <2>1. Total(Sum(t, duration)) = u * (l * (o + e) + k) + h
    BY <1>1, <1>9 DEF Total, Composed
  <2>2. Total(Moment(t)) = u * (l * o + x) + f
    BY <1>1, <1>2 DEF Total, Composed
  <2>3. l * (o + e) + k = l * o + x + w + c
    BY <1>7, <1>8
  <2>4. PICK p \in Int : p = l * o
    OBVIOUS
  <2>5. u * (p + x + w + c) = u * (p + x) + u * w + u * c
    OBVIOUS
  <2>6. u * c + h = f + g
    BY <1>1, <1>3, <1>4, <1>5, <1>6, <1>11
  <2>7. PICK z \in Int, i \in Int, j \in Int : z = u * (p + x) /\ i = u * w /\ j = u * c
    OBVIOUS
  <2> QED
    BY <1>3, <2>1, <2>2, <2>3, <2>4, <2>5, <2>6, <2>7
<1> QED
  BY <1>10, <1>11

LEMMA MomentsOrder ==
  ASSUME NEW a \in Moments, NEW c \in Moments
  PROVE  /\ Total(a) = Total(c) <=> a = c
         /\ Total(a) < Total(c) <=> \/ a.ordinal < c.ordinal
                                    \/ a.ordinal = c.ordinal /\ a.second < c.second
                                    \/ /\ a.ordinal = c.ordinal /\ a.second = c.second
                                       /\ a.fraction < c.fraction
<1>1. PICK u \in Nat \ {0}, l \in Nat \ {0} : u = Unit /\ l = DayLength
  <2>1. PICK m \in Nat \ {0}, s \in Nat \ {0} : m = Minutes /\ s = Seconds
    BY CalendarAssumption
  <2>2. m * s \in Nat \ {0}
    OBVIOUS
  <2> QED
    BY <2>1, <2>2, ValueTyped DEF DayLength
<1>2. PICK o \in Int, x \in 0 .. l - 1, f \in 0 .. u - 1 :
        a = [ordinal |-> o, second |-> x, fraction |-> f]
  BY <1>1 DEF Moments
<1>3. PICK p \in Int, y \in 0 .. l - 1, g \in 0 .. u - 1 :
        c = [ordinal |-> p, second |-> y, fraction |-> g]
  BY <1>1 DEF Moments
<1>4. PICK i \in Int, j \in Int : i = Composed(l, o, x) /\ j = Composed(l, p, y)
  <2>1. l * o + x \in Int /\ l * p + y \in Int
    OBVIOUS
  <2> QED
    BY <2>1 DEF Composed
<1>5. (i < j <=> o < p \/ (o = p /\ x < y)) /\ (i = j <=> o = p /\ x = y)
  BY <1>4, ComposedOrder
<1>6. /\ Composed(u, i, f) < Composed(u, j, g) <=> i < j \/ (i = j /\ f < g)
      /\ Composed(u, i, f) = Composed(u, j, g) <=> i = j /\ f = g
  BY ComposedOrder
<1>7. Total(a) = Composed(u, i, f) /\ Total(c) = Composed(u, j, g)
  BY <1>1, <1>2, <1>3, <1>4 DEF Total
<1>8. a = c <=> o = p /\ x = y /\ f = g
  BY <1>2, <1>3
<1> QED
  BY <1>2, <1>3, <1>5, <1>6, <1>7, <1>8

LEMMA InstantOfNormal ==
  ASSUME NEW t, Normal(t)
  PROVE  InstantOf(t) = [scale |-> t.scale, minute |-> Composed(Minutes, t.day - 1, t.minute),
                         units |-> Composed(Unit, t.second, Value(t.digits))]
<1>1. PICK m \in Nat, u \in Nat : m = Minutes /\ u = Unit
  BY CalendarAssumption, ValueTyped
<1>2. PICK d \in Int, x \in Int, y \in Int, v \in Int :
        d = t.day - 1 /\ x = t.minute /\ y = t.second /\ v = Value(t.digits)
  <2>1. t.day \in 1 .. Days /\ t.minute \in 0 .. m - 1 /\ t.second \in 0 .. Seconds
    BY <1>1 DEF Normal
  <2>2. Value(t.digits) \in 0 .. u - 1
    BY <1>1, ValueTyped DEF Normal
  <2>3. Days \in Nat /\ Seconds \in Nat
    BY CalendarAssumption
  <2> QED
    BY <2>1, <2>2, <2>3
<1>3. d * m + x - 0 = Composed(m, d, x) /\ y * u + v = Composed(u, y, v)
  BY DEF Composed
<1>4. t.offset = 0
  BY DEF Normal
<1> QED
  BY <1>1, <1>2, <1>3, <1>4 DEF InstantOf

\* Within the precision of the context an addition moves the instant by the
\* duration, and leaves the calendar exactly when the instant does.
LEMMA AddKeepsTime ==
  ASSUME NEW t, Normal(t), Supported(t), NEW duration \in Int, Short(duration % Unit)
  PROVE  LET moment == Sum(t, duration)
             wanted == Later(InstantOf(t), duration)
         IN  /\ OnCalendar(wanted.minute) <=> InRange(moment)
             /\ InRange(moment) => InstantOf(Serialized(moment, t.scale)) = wanted
<1>1. PICK m \in Nat \ {0}, s \in Nat \ {0}, u \in Nat \ {0} :
        m = Minutes /\ s = Seconds /\ u = Unit
  BY CalendarAssumption, ValueTyped
<1>2. PICK before \in Moments, after \in Moments :
        /\ before = Moment(t) /\ after = Sum(t, duration)
        /\ Total(after) = Total(before) + duration
  BY MomentTyped, SumAdds
<1>3. PICK d \in Int, x \in Int, y \in Int, v \in Int :
        d = t.day /\ x = t.minute /\ y = t.second /\ v = Value(t.digits)
  <2>1. t.day \in 1 .. Days /\ t.minute \in 0 .. m - 1 /\ t.second \in 0 .. s
    BY <1>1 DEF Normal
  <2>2. Value(t.digits) \in 0 .. u - 1
    BY <1>1, ValueTyped DEF Normal
  <2>3. Days \in Nat
    BY CalendarAssumption
  <2> QED
    BY <2>1, <2>2, <2>3
<1>4. before = [ordinal |-> d, second |-> Composed(s, x, y), fraction |-> v]
  BY <1>1, <1>2, <1>3, MomentTyped
<1>5. PICK o \in Int, n \in Nat, f \in 0 .. u - 1 :
        after = [ordinal |-> o, second |-> n, fraction |-> f] /\ n \in 0 .. DayLength - 1
  BY <1>1 DEF Moments
<1>6. PICK p \in Int, q \in 0 .. s - 1 : p = n \div s /\ q = n % s /\ Composed(s, p, q) = n
  <2>1. n \in Int
    OBVIOUS
  <2> QED
    BY <2>1, Division
<1>7. PICK b \in Nat \ {0} : b = s * u
  <2>1. s * u \in Nat \ {0}
    OBVIOUS
  <2> QED
    BY <2>1
<1>8. DayLength = m * s
  BY <1>1 DEF DayLength
<1>9. PICK i \in Int, j \in Int : i = Composed(m, d - 1, x) /\ j = Composed(u, y, v)
  <2>1. m * (d - 1) + x \in Int /\ u * y + v \in Int
    OBVIOUS
  <2> QED
    BY <2>1 DEF Composed
<1>10. PICK k \in Int, z \in Int : k = Composed(m, o - 1, p) /\ z = Composed(u, q, f)
  <2>1. m * (o - 1) + p \in Int /\ u * q + f \in Int
    OBVIOUS
  <2> QED
    BY <2>1 DEF Composed
<1>11. z \in 0 .. b - 1
  <2>1. PICK w \in Nat : s = q + 1 + w
    <3>1. s - q - 1 \in Nat /\ s = q + 1 + (s - q - 1)
      OBVIOUS
    <3> QED
      BY <3>1
  <2>2. s * u = q * u + u + w * u /\ w * u \in Nat /\ q * u \in Nat /\ u * q = q * u
    BY <2>1
  <2>3. z = u * q + f
    BY <1>10 DEF Composed
  <2> QED
    BY <1>7, <2>2, <2>3
<1>12. PICK e \in Int : e = u * (m * s)
  OBVIOUS
<1>13. Total(before) = Composed(b, i, j) + e
  <2>1. Total(before) = Composed(u, Composed(m * s, d, Composed(s, x, y)), v)
    BY <1>1, <1>4, <1>8 DEF Total
  <2>2. Composed(u, Composed(m * s, d, Composed(s, x, y)), v)
          = Composed(s * u, Composed(m, d - 1, x), Composed(u, y, v)) + u * (m * s)
    BY DaysAndMinutes
  <2> QED
    BY <1>7, <1>9, <1>12, <2>1, <2>2
<1>14. Total(after) = Composed(b, k, z) + e
  <2>1. Total(after) = Composed(u, Composed(m * s, o, Composed(s, p, q)), f)
    BY <1>1, <1>5, <1>6, <1>8 DEF Total
  <2>2. Composed(u, Composed(m * s, o, Composed(s, p, q)), f)
          = Composed(s * u, Composed(m, o - 1, p), Composed(u, q, f)) + u * (m * s)
    BY DaysAndMinutes
  <2> QED
    BY <1>7, <1>10, <1>12, <2>1, <2>2
<1>15. Composed(b, k, z) = Composed(b, i, j) + duration
  <2>1. Composed(b, k, z) \in Int /\ Composed(b, i, j) \in Int
    <3>1. b * k + z \in Int /\ b * i + j \in Int
      OBVIOUS
    <3> QED
      BY <3>1 DEF Composed
  <2> QED
    BY <1>2, <1>13, <1>14, <2>1
<1>16. InstantOf(t) = [scale |-> t.scale, minute |-> i, units |-> j]
  BY <1>1, <1>3, <1>9, InstantOfNormal
<1>17. i * s * u + j + duration = Composed(b, k, z)
  <2>1. i * s * u = b * i
    BY <1>7
  <2> QED
    BY <1>15, <2>1 DEF Composed
<1>18. Composed(b, k, z) \div b = k /\ Composed(b, k, z) % b = z
  BY <1>11, DivisionUnique
<1>19. Later(InstantOf(t), duration) = [scale |-> t.scale, minute |-> k, units |-> z]
  <2>1. PICK instant : instant = [scale |-> t.scale, minute |-> i, units |-> j]
    OBVIOUS
  <2>2. PICK w : w = Composed(b, k, z) /\ w \div b = k /\ w % b = z
    BY <1>18
  <2>3. instant.minute * Seconds * Unit + instant.units + duration = w
    BY <1>1, <1>17, <2>1, <2>2
  <2>4. Later(instant, duration) = [instant EXCEPT !.minute = w \div b, !.units = w % b]
    BY <1>1, <1>7, <2>3 DEF Later
  <2> QED
    BY <1>16, <2>1, <2>2, <2>4
<1>20. OnCalendar(k) <=> InRange(after)
  <2>1. OnCalendar(k) <=> k \div m + 1 \in 1 .. Days
    BY <1>1, CalendarDays
  <2>2. p \in 0 .. m - 1
    <3>1. 0 \in 0 .. s - 1 /\ Composed(s, m, 0) = m * s /\ Composed(s, 0, 0) = 0
      BY DEF Composed
    <3>2. ~ (Composed(s, p, q) < Composed(s, 0, 0)) /\ Composed(s, p, q) < Composed(s, m, 0)
      BY <1>5, <1>6, <1>8, <3>1
    <3>3. /\ Composed(s, p, q) < Composed(s, 0, 0) <=> p < 0 \/ (p = 0 /\ q < 0)
          /\ Composed(s, p, q) < Composed(s, m, 0) <=> p < m \/ (p = m /\ q < 0)
      <4>1. m \in Int
        OBVIOUS
      <4> QED
        BY <3>1, <4>1, ComposedOrder
    <3> QED
      BY <3>2, <3>3
  <2>3. PICK c \in Int : c = o - 1 /\ c + 1 = o
    OBVIOUS
  <2>4. k \div m = c
    BY <1>10, <2>2, <2>3, DivisionUnique
  <2> QED
    BY <1>5, <2>1, <2>3, <2>4 DEF InRange
<1>21. ASSUME InRange(after)
       PROVE  InstantOf(Serialized(after, t.scale)) = [scale |-> t.scale, minute |-> k, units |-> z]
  <2>1. PICK r : r = Serialized(after, t.scale)
    OBVIOUS
  <2>2. Normal(r)
    <3>1. t.scale \in Scales
      BY DEF Normal
    <3> QED
      BY <1>21, <2>1, <3>1, SerializedNormal
  <2>3. /\ r.scale = t.scale /\ r.day = o /\ r.minute = p /\ r.second = q
        /\ r.digits = Fraction(f)
    BY <1>1, <1>5, <1>6, <2>1 DEF Serialized
  <2>4. Value(Fraction(f)) = f
    BY <1>1, FractionExact
  <2> QED
    BY <1>1, <1>10, <2>1, <2>2, <2>3, <2>4, InstantOfNormal
<1> QED
  BY <1>2, <1>19, <1>20, <1>21

-------------------------------------------------------------------------------
(* Orders. *)

\* The order of triples.
Precedes(x, y) ==
  \/ x[1] < y[1]
  \/ x[1] = y[1] /\ x[2] < y[2]
  \/ x[1] = y[1] /\ x[2] = y[2] /\ x[3] < y[3]

LEMMA TriplesOrder ==
  ASSUME NEW x \in Int \X Int \X Int, NEW y \in Int \X Int \X Int
  PROVE  TupleLess(x, y) <=> Precedes(x, y)
<1>1. Len(y) = 3 /\ Len(x) = 3 /\ 1 .. 3 = {1, 2, 3}
  OBVIOUS
<1>2. 1 .. 1 - 1 = {} /\ 1 .. 2 - 1 = {1} /\ 1 .. 3 - 1 = {1, 2}
  OBVIOUS
<1>3. TupleLess(x, y) <=>
        \E i \in {1, 2, 3} : (\A j \in 1 .. i - 1 : j <= 3 /\ x[j] = y[j]) /\ (i > 3 \/ x[i] < y[i])
  BY <1>1 DEF TupleLess
<1> QED
  BY <1>2, <1>3 DEF Precedes

\* Keys are compared by their first three parts, and then by their digits.
LEMMA KeysOrder ==
  ASSUME NEW x \in Int \X Int \X Int, NEW y \in Int \X Int \X Int,
         NEW a \in Digits, NEW c \in Digits
  PROVE  TupleLess(x \o a, y \o c) <=> Precedes(x, y) \/ (x = y /\ TupleLess(a, c))
<1>1. PICK m \in Nat, n \in Nat : m = Len(a) /\ n = Len(c)
  BY CalendarAssumption, DigitsTyped
<1>2. PICK p, q : p = x \o a /\ q = y \o c
  OBVIOUS
<1>3. /\ Len(p) = 3 + m /\ Len(q) = 3 + n
      /\ \A i \in 1 .. 3 : p[i] = x[i] /\ q[i] = y[i]
      /\ \A i \in 1 .. m : p[3 + i] = a[i]
      /\ \A i \in 1 .. n : q[3 + i] = c[i]
  <2>1. ASSUME NEW d \in Digits
        PROVE  d \in Seq(Int)
    <3>1. PICK k \in Nat : k = Len(d) /\ d \in [1 .. k -> 0 .. Base - 1]
      <4>1. Len(d) \in Nat /\ d \in [1 .. Len(d) -> 0 .. Base - 1]
        BY CalendarAssumption, DigitsTyped
      <4> QED
        BY <4>1
    <3>2. \A b \in 0 .. Base - 1 : b \in Int
      BY CalendarAssumption
    <3>3. d \in [1 .. k -> Int]
      BY <3>1, <3>2
    <3> QED
      BY <3>3
  <2>2. ASSUME NEW z \in Int \X Int \X Int
        PROVE  z \in Seq(Int) /\ Len(z) = 3
    <3>1. PICK z1 \in Int, z2 \in Int, z3 \in Int : z = <<z1, z2, z3>>
      OBVIOUS
    <3> QED
      BY <3>1
  <2>3. PICK I : I = Int
    OBVIOUS
  <2>4. x \in Seq(I) /\ y \in Seq(I) /\ a \in Seq(I) /\ c \in Seq(I)
    BY <2>1, <2>2, <2>3
  <2>5. Len(x) = 3 /\ Len(y) = 3
    BY <2>2
  <2>6. /\ Len(p) = 3 + m /\ \A i \in 1 .. 3 : p[i] = x[i]
        /\ \A i \in 1 .. m : p[3 + i] = a[i]
    <3>1. /\ Len(p) = Len(x) + Len(a) /\ \A i \in 1 .. Len(x) : p[i] = x[i]
          /\ \A i \in 1 .. Len(a) : p[Len(x) + i] = a[i]
      BY <1>2, <2>4, Appended
    <3> QED
      BY <1>1, <2>5, <3>1
  <2>7. /\ Len(q) = 3 + n /\ \A i \in 1 .. 3 : q[i] = y[i]
        /\ \A i \in 1 .. n : q[3 + i] = c[i]
    <3>1. /\ Len(q) = Len(y) + Len(c) /\ \A i \in 1 .. Len(y) : q[i] = y[i]
          /\ \A i \in 1 .. Len(c) : q[Len(y) + i] = c[i]
      BY <1>2, <2>4, Appended
    <3> QED
      BY <1>1, <2>5, <3>1
  <2> QED
    BY <2>6, <2>7
<1>4. /\ p[1] = x[1] /\ p[2] = x[2] /\ p[3] = x[3]
      /\ q[1] = y[1] /\ q[2] = y[2] /\ q[3] = y[3]
  BY <1>3
<1>5. ASSUME NEW i \in 1 .. 3
      PROVE  /\ i \in 1 .. 3 + n /\ ~ (i > 3 + m)
             /\ \A j \in 1 .. i - 1 : j <= 3 + m
  BY <1>1
<1>6. TupleLess(p, q) <=>
        \E i \in 1 .. 3 + n : /\ \A j \in 1 .. i - 1 : j <= 3 + m /\ p[j] = q[j]
                              /\ i > 3 + m \/ p[i] < q[i]
  BY <1>3 DEF TupleLess
<1>7. ASSUME TupleLess(p, q)
      PROVE  Precedes(x, y) \/ (x = y /\ TupleLess(a, c))
  <2>1. PICK i \in 1 .. 3 + n : /\ \A j \in 1 .. i - 1 : j <= 3 + m /\ p[j] = q[j]
                                /\ i > 3 + m \/ p[i] < q[i]
    BY <1>6, <1>7
  <2>2. CASE i \in 1 .. 3
    <3>1. p[i] < q[i] /\ \A j \in 1 .. i - 1 : p[j] = q[j]
      BY <1>5, <2>1, <2>2
    <3>2. i = 1 \/ (i = 2 /\ 1 \in 1 .. i - 1) \/ (i = 3 /\ 1 \in 1 .. i - 1 /\ 2 \in 1 .. i - 1)
      BY <2>2
    <3> QED
      BY <1>4, <3>1, <3>2 DEF Precedes
  <2>3. CASE i \notin 1 .. 3
    <3>1. PICK k \in 1 .. n : i = 3 + k
      <4>1. i - 3 \in 1 .. n /\ i = 3 + (i - 3)
        BY <1>1, <2>3
      <4> QED
        BY <4>1
    <3>2. 1 \in 1 .. i - 1 /\ 2 \in 1 .. i - 1 /\ 3 \in 1 .. i - 1
      BY <1>1, <3>1
    <3>3. x = y
      BY <1>4, <2>1, <3>2
    <3>4. \A j \in 1 .. k - 1 : j <= m /\ a[j] = c[j]
      <4> TAKE j \in 1 .. k - 1
      <4>1. 3 + j \in 1 .. i - 1 /\ j \in 1 .. n
        BY <1>1, <3>1
      <4>2. 3 + j <= 3 + m /\ p[3 + j] = q[3 + j]
        BY <2>1, <4>1
      <4>3. j <= m /\ j \in 1 .. m
        BY <1>1, <4>1, <4>2
      <4> QED
        BY <1>3, <4>1, <4>2, <4>3
    <3>5. k > m \/ a[k] < c[k]
      <4>1. CASE i > 3 + m
        BY <1>1, <3>1, <4>1
      <4>2. CASE p[i] < q[i] /\ ~ (i > 3 + m)
        <5>1. k \in 1 .. m
          BY <1>1, <3>1, <4>2
        <5> QED
          BY <1>3, <3>1, <4>2, <5>1
      <4> QED
        BY <2>1, <4>1, <4>2
    <3>6. TupleLess(a, c)
      BY <1>1, <3>4, <3>5 DEF TupleLess
    <3> QED
      BY <3>3, <3>6
  <2> QED
    BY <2>2, <2>3
<1>8. ASSUME Precedes(x, y)
      PROVE  TupleLess(p, q)
  <2>1. /\ 1 \in 1 .. 3 /\ 2 \in 1 .. 3 /\ 3 \in 1 .. 3
        /\ 1 .. 1 - 1 = {} /\ 1 .. 2 - 1 = {1} /\ 1 .. 3 - 1 = {1, 2}
    OBVIOUS
  <2>2. \E i \in 1 .. 3 : p[i] < q[i] /\ \A j \in 1 .. i - 1 : p[j] = q[j]
    BY <1>4, <1>8, <2>1 DEF Precedes
  <2> QED
    BY <1>5, <1>6, <2>2
<1>9. ASSUME x = y, TupleLess(a, c)
      PROVE  TupleLess(p, q)
  <2>1. PICK k \in 1 .. n : /\ \A j \in 1 .. k - 1 : j <= m /\ a[j] = c[j]
                            /\ k > m \/ a[k] < c[k]
    BY <1>1, <1>9 DEF TupleLess
  <2>2. 3 + k \in 1 .. 3 + n
    BY <1>1
  <2>3. \A j \in 1 .. (3 + k) - 1 : j <= 3 + m /\ p[j] = q[j]
    <3> TAKE j \in 1 .. (3 + k) - 1
    <3>1. CASE j \in 1 .. 3
      BY <1>3, <1>5, <1>9, <3>1, <1>1
    <3>2. CASE j \notin 1 .. 3
      <4>1. PICK h \in 1 .. k - 1 : j = 3 + h
        <5>1. j - 3 \in 1 .. k - 1 /\ j = 3 + (j - 3)
          BY <1>1, <3>2
        <5> QED
          BY <5>1
      <4>2. h \in 1 .. m /\ h \in 1 .. n /\ a[h] = c[h]
        BY <1>1, <2>1, <4>1
      <4> QED
        BY <1>1, <1>3, <4>1, <4>2
    <3> QED
      BY <3>1, <3>2
  <2>4. 3 + k > 3 + m \/ p[3 + k] < q[3 + k]
    <3>1. CASE k > m
      BY <1>1, <3>1
    <3>2. CASE ~ (k > m) /\ a[k] < c[k]
      <4>1. k \in 1 .. m
        BY <1>1, <3>2
      <4> QED
        BY <1>3, <3>2, <4>1
    <3> QED
      BY <2>1, <3>1, <3>2
  <2> QED
    BY <1>6, <2>2, <2>3, <2>4
<1> QED
  BY <1>2, <1>7, <1>8, <1>9

LEMMA NormalTyped ==
  ASSUME NEW t, Normal(t)
  PROVE  /\ t.scale \in Scales /\ t.day - 1 \in Int /\ (t.day - 1) + 1 = t.day
         /\ t.minute \in 0 .. Minutes - 1 /\ t.second \in Nat
         /\ t.digits \in Digits /\ Stripped(t.digits) /\ Value(t.digits) \in 0 .. Unit - 1
<1>1. t.day \in 1 .. Days /\ t.second \in 0 .. Seconds /\ Days \in Nat /\ Seconds \in Nat
  BY CalendarAssumption DEF Normal
<1>2. t.day - 1 \in Int /\ (t.day - 1) + 1 = t.day /\ t.second \in Nat
  BY <1>1
<1> QED
  BY <1>2, ValueTyped DEF Normal

\* Core's order of normal forms is the order of time, and two normal forms of
\* one scale are equal exactly when they stand for one instant.
LEMMA BeforeIsEarlier ==
  ASSUME NEW l, Normal(l), NEW r, Normal(r)
  PROVE  /\ Before(l, r) <=> Earlier(InstantOf(l), InstantOf(r))
         /\ l.scale = r.scale => (l = r <=> InstantOf(l) = InstantOf(r))
<1>1. PICK m \in Nat \ {0}, u \in Nat \ {0} : m = Minutes /\ u = Unit
  BY CalendarAssumption, ValueTyped
<1>2. PICK d1 \in Int, x1 \in 0 .. m - 1, y1 \in Nat, v1 \in 0 .. u - 1, a \in Digits :
        /\ d1 = l.day - 1 /\ d1 + 1 = l.day /\ x1 = l.minute /\ y1 = l.second
        /\ a = l.digits /\ v1 = Value(a) /\ Stripped(a)
  BY <1>1, NormalTyped
<1>3. PICK d2 \in Int, x2 \in 0 .. m - 1, y2 \in Nat, v2 \in 0 .. u - 1, c \in Digits :
        /\ d2 = r.day - 1 /\ d2 + 1 = r.day /\ x2 = r.minute /\ y2 = r.second
        /\ c = r.digits /\ v2 = Value(c) /\ Stripped(c)
  BY <1>1, NormalTyped
<1>4. /\ InstantOf(l) = [scale |-> l.scale, minute |-> Composed(m, d1, x1),
                         units |-> Composed(u, y1, v1)]
      /\ InstantOf(r) = [scale |-> r.scale, minute |-> Composed(m, d2, x2),
                         units |-> Composed(u, y2, v2)]
  BY <1>1, <1>2, <1>3, InstantOfNormal
<1>5. /\ Composed(m, d1, x1) < Composed(m, d2, x2) <=> d1 < d2 \/ (d1 = d2 /\ x1 < x2)
      /\ Composed(m, d1, x1) = Composed(m, d2, x2) <=> d1 = d2 /\ x1 = x2
  BY ComposedOrder
<1>6. /\ Composed(u, y1, v1) < Composed(u, y2, v2) <=> y1 < y2 \/ (y1 = y2 /\ v1 < v2)
      /\ Composed(u, y1, v1) = Composed(u, y2, v2) <=> y1 = y2 /\ v1 = v2
  <2>1. y1 \in Int /\ y2 \in Int
    OBVIOUS
  <2> QED
    BY <2>1, ComposedOrder
<1>7. (v1 = v2 <=> a = c) /\ (v1 < v2 <=> TupleLess(a, c))
  BY <1>2, <1>3, ValueOrder
<1>8. Before(l, r) <=> Earlier(InstantOf(l), InstantOf(r))
  <2>1. PICK x, y : x = <<d1 + 1, x1, y1>> /\ y = <<d2 + 1, x2, y2>>
    OBVIOUS
  <2>2. x \in Int \X Int \X Int /\ y \in Int \X Int \X Int
    BY <2>1
  <2>3. Before(l, r) <=> TupleLess(x \o a, y \o c)
    BY <1>2, <1>3, <2>1 DEF Before, Key
  <2>4. Before(l, r) <=> Precedes(x, y) \/ (x = y /\ TupleLess(a, c))
    BY <2>2, <2>3, KeysOrder
  <2>5. /\ Precedes(x, y) <=> \/ d1 < d2
                              \/ d1 = d2 /\ x1 < x2
                              \/ d1 = d2 /\ x1 = x2 /\ y1 < y2
        /\ x = y <=> d1 = d2 /\ x1 = x2 /\ y1 = y2
    BY <2>1 DEF Precedes
  <2>6. Earlier(InstantOf(l), InstantOf(r)) <=>
          \/ Composed(m, d1, x1) < Composed(m, d2, x2)
          \/ Composed(m, d1, x1) = Composed(m, d2, x2) /\ Composed(u, y1, v1) < Composed(u, y2, v2)
    BY <1>4 DEF Earlier
  <2>7. Earlier(InstantOf(l), InstantOf(r)) <=>
          \/ d1 < d2 \/ (d1 = d2 /\ x1 < x2)
          \/ (d1 = d2 /\ x1 = x2) /\ (y1 < y2 \/ (y1 = y2 /\ v1 < v2))
    BY <1>5, <1>6, <2>6
  <2> QED
    BY <1>7, <2>4, <2>5, <2>7
<1>9. ASSUME l.scale = r.scale, InstantOf(l) = InstantOf(r)
      PROVE  l = r
  <2>1. Composed(m, d1, x1) = Composed(m, d2, x2) /\ Composed(u, y1, v1) = Composed(u, y2, v2)
    BY <1>4, <1>9
  <2>2. d1 = d2 /\ x1 = x2 /\ y1 = y2 /\ a = c
    BY <1>5, <1>6, <1>7, <2>1
  <2>3. /\ l.day = r.day /\ l.minute = r.minute /\ l.second = r.second /\ l.digits = r.digits
    BY <1>2, <1>3, <2>2
  <2>4. l.zone = r.zone /\ l.offset = r.offset
    BY <1>9 DEF Normal
  <2> QED
    BY <1>9, <2>3, <2>4 DEF Normal
<1> QED
  BY <1>8, <1>9

\* The adapter's order of what it accepts is Core's.
LEMMA CompareIsBefore ==
  ASSUME NEW l, Normal(l), Supported(l), NEW r, Normal(r), Supported(r)
  PROVE  /\ Moment(l) = Moment(r) <=> InstantOf(l) = [InstantOf(r) EXCEPT !.scale = l.scale]
         /\ Compare(l, r) = -1 <=> Before(l, r)
         /\ Compare(l, r) = 0 <=> Moment(l) = Moment(r)
<1>1. PICK m \in Nat \ {0}, u \in Nat \ {0}, s \in Nat \ {0} :
        m = Minutes /\ u = Unit /\ s = Seconds
  BY CalendarAssumption, ValueTyped
<1>2. PICK d1 \in Int, x1 \in 0 .. m - 1, y1 \in 0 .. s - 1, v1 \in 0 .. u - 1 :
        /\ d1 = l.day - 1 /\ d1 + 1 = l.day /\ x1 = l.minute /\ y1 = l.second
        /\ v1 = Value(l.digits)
  <2>1. l.second \in 0 .. s /\ l.second # s
    BY <1>1 DEF Normal, Supported
  <2>2. l.second \in 0 .. s - 1
    BY <2>1
  <2> QED
    BY <1>1, <2>2, NormalTyped
<1>3. PICK d2 \in Int, x2 \in 0 .. m - 1, y2 \in 0 .. s - 1, v2 \in 0 .. u - 1 :
        /\ d2 = r.day - 1 /\ d2 + 1 = r.day /\ x2 = r.minute /\ y2 = r.second
        /\ v2 = Value(r.digits)
  <2>1. r.second \in 0 .. s /\ r.second # s
    BY <1>1 DEF Normal, Supported
  <2>2. r.second \in 0 .. s - 1
    BY <2>1
  <2> QED
    BY <1>1, <2>2, NormalTyped
<1>4. /\ InstantOf(l) = [scale |-> l.scale, minute |-> Composed(m, d1, x1),
                         units |-> Composed(u, y1, v1)]
      /\ InstantOf(r) = [scale |-> r.scale, minute |-> Composed(m, d2, x2),
                         units |-> Composed(u, y2, v2)]
  BY <1>1, <1>2, <1>3, InstantOfNormal
<1>5. /\ Composed(m, d1, x1) < Composed(m, d2, x2) <=> d1 < d2 \/ (d1 = d2 /\ x1 < x2)
      /\ Composed(m, d1, x1) = Composed(m, d2, x2) <=> d1 = d2 /\ x1 = x2
  BY ComposedOrder
<1>6. /\ Composed(u, y1, v1) < Composed(u, y2, v2) <=> y1 < y2 \/ (y1 = y2 /\ v1 < v2)
      /\ Composed(u, y1, v1) = Composed(u, y2, v2) <=> y1 = y2 /\ v1 = v2
  <2>1. y1 \in Int /\ y2 \in Int
    OBVIOUS
  <2> QED
    BY <2>1, ComposedOrder
<1>7. PICK p1 \in Int, p2 \in Int : p1 = Composed(s, x1, y1) /\ p2 = Composed(s, x2, y2)
  <2>1. s * x1 + y1 \in Int /\ s * x2 + y2 \in Int
    OBVIOUS
  <2> QED
    BY <2>1 DEF Composed
<1>8. (p1 < p2 <=> x1 < x2 \/ (x1 = x2 /\ y1 < y2)) /\ (p1 = p2 <=> x1 = x2 /\ y1 = y2)
  <2>1. x1 \in Int /\ x2 \in Int
    OBVIOUS
  <2> QED
    BY <1>7, <2>1, ComposedOrder
<1>9. /\ Moment(l) = [ordinal |-> d1 + 1, second |-> p1, fraction |-> v1]
      /\ Moment(r) = [ordinal |-> d2 + 1, second |-> p2, fraction |-> v2]
  BY <1>1, <1>2, <1>3, <1>7, MomentTyped
<1>10. Moment(l) = Moment(r) <=> d1 = d2 /\ p1 = p2 /\ v1 = v2
  BY <1>9
<1>11. Moment(l) = Moment(r) <=> InstantOf(l) = [InstantOf(r) EXCEPT !.scale = l.scale]
  <2>1. [InstantOf(r) EXCEPT !.scale = l.scale]
          = [scale |-> l.scale, minute |-> Composed(m, d2, x2), units |-> Composed(u, y2, v2)]
    BY <1>4
  <2>2. InstantOf(l) = [InstantOf(r) EXCEPT !.scale = l.scale] <=>
          Composed(m, d1, x1) = Composed(m, d2, x2) /\ Composed(u, y1, v1) = Composed(u, y2, v2)
    BY <1>4, <2>1
  <2> QED
    BY <1>5, <1>6, <1>8, <1>10, <2>2
<1>12. PICK ka, kb : ka = <<d1 + 1, p1, v1>> /\ kb = <<d2 + 1, p2, v2>>
  OBVIOUS
<1>13. TupleLess(ka, kb) <=> Precedes(ka, kb)
  <2>1. ka \in Int \X Int \X Int /\ kb \in Int \X Int \X Int
    BY <1>12
  <2> QED
    BY <2>1, TriplesOrder
<1>14. Precedes(ka, kb) <=> \/ d1 < d2
                            \/ d1 = d2 /\ p1 < p2
                            \/ d1 = d2 /\ p1 = p2 /\ v1 < v2
  BY <1>12 DEF Precedes
<1>15. Compare(l, r) = IF TupleLess(ka, kb) THEN -1 ELSE IF ka = kb THEN 0 ELSE 1
  BY <1>9, <1>12 DEF Compare
<1>16. ka = kb <=> d1 = d2 /\ p1 = p2 /\ v1 = v2
  BY <1>12
<1>17. Earlier(InstantOf(l), InstantOf(r)) <=>
         \/ Composed(m, d1, x1) < Composed(m, d2, x2)
         \/ Composed(m, d1, x1) = Composed(m, d2, x2) /\ Composed(u, y1, v1) < Composed(u, y2, v2)
  BY <1>4 DEF Earlier
<1>18. Earlier(InstantOf(l), InstantOf(r)) <=> Precedes(ka, kb)
  BY <1>5, <1>6, <1>8, <1>14, <1>17
<1>19. Before(l, r) <=> TupleLess(ka, kb)
  BY <1>13, <1>18, BeforeIsEarlier
<1>20. ~ (TupleLess(ka, kb) /\ ka = kb)
  BY <1>13, <1>14, <1>16
<1> QED
  BY <1>10, <1>11, <1>15, <1>16, <1>19, <1>20

\* The difference of two epochs is that of their places in the calendar, and less
\* than the calendar is long.
LEMMA TotalBounds ==
  ASSUME NEW a \in Moments, InRange(a)
  PROVE  \E first \in Int : Total(a) >= first /\ Total(a) < first + Span
                            /\ first = Unit * DayLength /\ Span \in Nat
<1>1. PICK u \in Nat \ {0}, l \in Nat \ {0}, d \in Nat : u = Unit /\ l = DayLength /\ d = Days
  <2>1. PICK m \in Nat \ {0}, s \in Nat \ {0} : m = Minutes /\ s = Seconds
    BY CalendarAssumption
  <2>2. m * s \in Nat \ {0}
    OBVIOUS
  <2> QED
    BY <2>1, <2>2, ValueTyped, CalendarAssumption DEF DayLength
<1>2. PICK o \in 1 .. d, x \in 0 .. l - 1, f \in 0 .. u - 1 :
        a = [ordinal |-> o, second |-> x, fraction |-> f]
  BY <1>1 DEF Moments, InRange
<1>3. PICK z \in Nat, y \in Nat : o = 1 + z /\ d = o + y
  <2>1. o - 1 \in Nat /\ d - o \in Nat /\ o = 1 + (o - 1) /\ d = o + (d - o)
    OBVIOUS
  <2> QED
    BY <2>1
<1>4. PICK p \in Nat, q \in Nat : p = l * z /\ q = l * y
  <2>1. l * z \in Nat /\ l * y \in Nat
    OBVIOUS
  <2> QED
    BY <2>1
<1>5. l * o + x = l + p + x /\ l * d = l + p + q
  <2>1. l * (1 + z) = l + l * z /\ l * (1 + z + y) = l + l * z + l * y
    OBVIOUS
  <2> QED
    BY <1>3, <1>4, <2>1
<1>6. PICK i \in Nat, j \in Nat : i = p + x /\ j = (l - 1 - x) + q
  <2>1. l - 1 - x \in Nat
    OBVIOUS
  <2> QED
    BY <2>1
<1>7. PICK v \in Nat, w \in Nat, e \in Nat : v = u * i /\ w = u * j /\ e = u * l
  <2>1. u * i \in Nat /\ u * j \in Nat /\ u * l \in Nat
    OBVIOUS
  <2> QED
    BY <2>1
<1>8. Total(a) = e + v + f
  <2>1. Total(a) = u * (l * o + x) + f
    BY <1>1, <1>2 DEF Total, Composed
  <2>2. l * o + x = l + i
    BY <1>5, <1>6
  <2>3. u * (l + i) = u * l + u * i
    OBVIOUS
  <2> QED
    BY <1>7, <2>1, <2>2, <2>3
<1>9. Span = v + w + u
  <2>1. l * d = i + j + 1
    BY <1>5, <1>6
  <2>2. Span = d * l * u
    BY <1>1 DEF Span
  <2>3. d * l * u = u * (l * d)
    OBVIOUS
  <2>4. u * (i + j + 1) = u * i + u * j + u
    OBVIOUS
  <2> QED
    BY <1>7, <2>1, <2>2, <2>3, <2>4
<1>10. e = Unit * DayLength
  BY <1>1, <1>7
<1> QED
  BY <1>8, <1>9, <1>10

LEMMA DifferenceIsTotal ==
  ASSUME NEW l, Normal(l), Supported(l), NEW r, Normal(r), Supported(r)
  PROVE  /\ Difference(l, r) = Total(Moment(r)) - Total(Moment(l))
         /\ Difference(l, r) \in -Span .. Span /\ Span \in Nat \ {0}
<1>1. PICK a \in Moments, c \in Moments : a = Moment(l) /\ c = Moment(r)
  BY MomentTyped
<1>2. PICK t1 \in Int, t2 \in Int : t1 = Total(a) /\ t2 = Total(c)
  BY TotalTyped
<1>3. Difference(l, r) = t2 - t1
  <2>1. PICK u \in Int, n \in Int : u = Unit /\ n = DayLength
    <3>1. PICK m \in Int, s \in Int : m = Minutes /\ s = Seconds
      BY CalendarAssumption
    <3>2. m * s \in Int
      OBVIOUS
    <3> QED
      BY <3>1, <3>2, ValueTyped DEF DayLength
  <2>2. PICK o \in Int, x \in Int, f \in Int : a = [ordinal |-> o, second |-> x, fraction |-> f]
    BY <2>1 DEF Moments
  <2>3. PICK p \in Int, y \in Int, g \in Int : c = [ordinal |-> p, second |-> y, fraction |-> g]
    BY <2>1 DEF Moments
  <2>4. t1 = u * (n * o + x) + f /\ t2 = u * (n * p + y) + g
    BY <1>2, <2>1, <2>2, <2>3 DEF Total, Composed
  <2>5. Difference(l, r) = ((p - o) * n + y - x) * u + g - f
    BY <1>1, <2>1, <2>2, <2>3 DEF Difference
  <2>6. ((p - o) * n + y - x) * u + g - f = (u * (n * p + y) + g) - (u * (n * o + x) + f)
    OBVIOUS
  <2> QED
    BY <2>4, <2>5, <2>6
<1>4. InRange(a) /\ InRange(c)
  <2>1. a.ordinal = l.day /\ c.ordinal = r.day
    BY <1>1, MomentTyped
  <2> QED
    BY <2>1 DEF InRange, Normal
<1>5. PICK first \in Int, s \in Nat :
        /\ first = Unit * DayLength /\ s = Span
        /\ t1 >= first /\ t1 < first + s /\ t2 >= first /\ t2 < first + s
  BY <1>2, <1>4, TotalBounds
<1>6. t2 - t1 \in -s .. s /\ s # 0
  BY <1>5
<1> QED
  BY <1>1, <1>2, <1>3, <1>5, <1>6

\* Rounded to a float, the difference keeps its sign.
LEMMA FloatKeepsSign ==
  ASSUME NEW n \in -Span .. Span, Span \in Nat \ {0}
  PROVE  /\ Float[n] \in Int
         /\ Float[n] > 0 <=> n > 0
         /\ Float[n] = 0 <=> n = 0
<1>1. PICK s \in Nat \ {0} : s = Span
  OBVIOUS
<1>2. 0 \in -s .. s /\ 1 \in -s .. s /\ -1 \in -s .. s /\ n \in -s .. s
  BY <1>1
<1>3. ASSUME NEW k \in {0, 1, -1}
      PROVE  Float[k] = k
  <2>1. 0 \in 0 .. Places /\ Power[0] = 1 /\ Mantissa \in Nat \ {0}
    BY CalendarAssumption, FloatAssumption, PowersExist
  <2>2. k % 1 = 0 /\ k \div 1 = k
    <3>1. \A i \in Int : i % 1 = 0 /\ i \div 1 = i
      OBVIOUS
    <3> QED
      BY <3>1
  <2>3. k \in -Mantissa .. Mantissa
    BY <2>1
  <2>4. Exact(k)
    BY <2>1, <2>2, <2>3 DEF Exact
  <2> QED
    BY <1>1, <1>2, <2>4, FloatAssumption
<1>4. Float[0] = 0 /\ Float[1] = 1 /\ Float[-1] = -1
  BY <1>3
<1>5. \A i, j \in -s .. s : i <= j => Float[i] <= Float[j]
  BY <1>1, FloatAssumption
<1>6. Float[n] \in Int
  BY <1>1, <1>2, FloatAssumption
<1>7. n > 0 => Float[n] >= 1
  BY <1>2, <1>4, <1>5
<1>8. n < 0 => Float[n] <= -1
  <2> SUFFICES ASSUME n < 0
               PROVE  Float[n] <= -1
    OBVIOUS
  <2>1. n <= -1
    BY <1>2
  <2> QED
    BY <1>2, <1>4, <1>5, <2>1
<1>9. n \in Int
  BY <1>2
<1> QED
  BY <1>4, <1>6, <1>7, <1>8, <1>9

\* The sign of the rounded seconds is the order of the epochs.
LEMMA BetweenOrders ==
  ASSUME NEW l, Normal(l), Supported(l), NEW r, Normal(r), Supported(r)
  PROVE  /\ Between(l, r) > 0 <=> Compare(l, r) = -1
         /\ Between(l, r) = 0 <=> Moment(l) = Moment(r)
<1>1. PICK a \in Moments, c \in Moments : a = Moment(l) /\ c = Moment(r)
  BY MomentTyped
<1>2. PICK t1 \in Int, t2 \in Int : t1 = Total(a) /\ t2 = Total(c)
  BY TotalTyped
<1>3. Difference(l, r) = t2 - t1
  BY <1>1, <1>2, DifferenceIsTotal
<1>4. Between(l, r) > 0 <=> t2 - t1 > 0
  BY <1>3, DifferenceIsTotal, FloatKeepsSign DEF Between
<1>5. Between(l, r) = 0 <=> t2 - t1 = 0
  BY <1>3, DifferenceIsTotal, FloatKeepsSign DEF Between
<1>6. t1 = t2 <=> a = c
  BY <1>2, MomentsOrder
<1>7. PICK ka, kb : /\ ka = <<a.ordinal, a.second, a.fraction>>
                    /\ kb = <<c.ordinal, c.second, c.fraction>>
  OBVIOUS
<1>8. ka \in Int \X Int \X Int /\ kb \in Int \X Int \X Int
  <2>1. DayLength \in Int /\ Unit \in Int
    <3>1. PICK m \in Int, s \in Int : m = Minutes /\ s = Seconds
      BY CalendarAssumption
    <3>2. m * s \in Int
      OBVIOUS
    <3> QED
      BY <3>1, <3>2, ValueTyped DEF DayLength
  <2>2. \A b \in Moments : b.ordinal \in Int /\ b.second \in Int /\ b.fraction \in Int
    BY <2>1 DEF Moments
  <2> QED
    BY <1>7, <2>2
<1>9. TupleLess(ka, kb) <=> t1 < t2
  <2>1. TupleLess(ka, kb) <=> Precedes(ka, kb)
    BY <1>8, TriplesOrder
  <2>2. Precedes(ka, kb) <=> \/ a.ordinal < c.ordinal
                             \/ a.ordinal = c.ordinal /\ a.second < c.second
                             \/ /\ a.ordinal = c.ordinal /\ a.second = c.second
                                /\ a.fraction < c.fraction
    BY <1>7 DEF Precedes
  <2> QED
    BY <1>2, <2>1, <2>2, MomentsOrder
<1>10. Compare(l, r) = -1 <=> TupleLess(ka, kb)
  BY <1>1, <1>7 DEF Compare
<1> QED
  BY <1>1, <1>4, <1>5, <1>6, <1>9, <1>10

\* Seconds that few digits write lead from the first epoch to the second.
LEMMA BetweenReaches ==
  ASSUME NEW l, Normal(l), Supported(l), NEW r, Normal(r), Supported(r), Places <= Precision,
         Exact(Difference(l, r))
  PROVE  Sum(l, Between(l, r)) = Moment(r)
<1>1. PICK a \in Moments, c \in Moments : a = Moment(l) /\ c = Moment(r)
  BY MomentTyped
<1>2. PICK t1 \in Int, t2 \in Int : t1 = Total(a) /\ t2 = Total(c)
  BY TotalTyped
<1>3. Between(l, r) = t2 - t1
  BY <1>1, <1>2, DifferenceIsTotal, FloatAssumption DEF Between
<1>4. PICK b \in Moments : b = Sum(l, Between(l, r)) /\ Total(b) = t1 + (t2 - t1)
  <2>1. PICK duration \in Int : duration = Between(l, r) /\ duration = t2 - t1
    BY <1>3
  <2>2. PICK u \in Nat \ {0} : u = Unit
    BY ValueTyped
  <2>3. duration % u \in 0 .. u - 1
    OBVIOUS
  <2>4. Short(duration % Unit)
    BY <2>2, <2>3, AllShort
  <2> QED
    BY <1>1, <1>2, <2>1, <2>4, SumAdds
<1>5. Total(b) = Total(c)
  BY <1>2, <1>4
<1> QED
  BY <1>1, <1>4, <1>5, MomentsOrder

-------------------------------------------------------------------------------
(* The program that reads and adds. *)

NormalForms ==
  /\ epochs = [o \in Objects |-> epochs[o]]
  /\ \A o \in Objects : Normal(epochs[o])

TimeKept ==
  /\ instants = [o \in Objects |-> InstantOf(epochs[o])]
  /\ (answer = "range") <=> outside

\* The fractions of the durations added fit the precision, as do those of positive
\* numbers of seconds with few digits; those of negative ones may not.
ShortDurations == \A duration \in Durations : Short(duration % Unit)

LEMMA NormalOnCalendar ==
  ASSUME NEW t, Normal(t)
  PROVE  OnCalendar(InstantOf(t).minute)
<1>1. PICK m \in Nat \ {0} : m = Minutes
  BY CalendarAssumption
<1>2. PICK d \in Int, x \in 0 .. m - 1 : d = t.day - 1 /\ d + 1 = t.day /\ x = t.minute
  BY <1>1, NormalTyped
<1>3. PICK k \in Int : k = Composed(m, d, x)
  <2>1. m * d + x \in Int
    OBVIOUS
  <2> QED
    BY <2>1 DEF Composed
<1>4. InstantOf(t).minute = k
  BY <1>1, <1>2, <1>3, InstantOfNormal
<1>5. k \div m = d
  BY <1>3, DivisionUnique
<1>6. t.day \in 1 .. Days
  BY DEF Normal
<1> QED
  BY <1>1, <1>2, <1>4, <1>5, <1>6, CalendarDays

LEMMA OriginNormal == Normal(Origin)
<1>1. << >> \in Digits
  <2>1. 0 \in 0 .. Places /\ 1 .. 0 = {}
    BY CalendarAssumption
  <2>2. << >> \in [1 .. 0 -> 0 .. Base - 1]
    BY <2>1
  <2> QED
    BY <2>1, <2>2 DEF Digits
<1>2. Stripped(<< >>)
  BY DEF Stripped
<1>3. 1 \in 1 .. Days /\ 0 \in 0 .. Minutes - 1 /\ 0 \in 0 .. Seconds /\ Seconds # 0
  BY CalendarAssumption
<1> QED
  BY <1>1, <1>2, <1>3 DEF Normal, Origin, Scales

\* An object that takes a normal text: what every operation but a refusal does.
LEMMA Held ==
  ASSUME NormalForms, NEW o \in Objects, NEW text, NEW instant, Normal(text),
         Hold(o, text, instant)
  PROVE  /\ NormalForms'
         /\ TimeKept /\ InstantOf(text) = instant => TimeKept'
<1>1. epochs' = [epochs EXCEPT ![o] = text] /\ instants' = [instants EXCEPT ![o] = instant]
  BY DEF Hold
<1>2. epochs' = [p \in Objects |-> IF p = o THEN text ELSE epochs[p]]
  BY <1>1 DEF NormalForms
<1>3. NormalForms'
  BY <1>2 DEF NormalForms
<1>4. ASSUME TimeKept, InstantOf(text) = instant
      PROVE  TimeKept'
  <2>1. instants' = [p \in Objects |-> IF p = o THEN instant ELSE instants[p]]
    BY <1>1, <1>4 DEF TimeKept
  <2>2. \A p \in Objects : instants'[p] = InstantOf(epochs'[p])
    BY <1>2, <1>4, <2>1 DEF TimeKept
  <2>3. instants' = [p \in Objects |-> InstantOf(epochs'[p])]
    BY <2>1, <2>2
  <2>4. OnCalendar(instant.minute)
    BY <1>4, NormalOnCalendar
  <2>5. answer' = "done" /\ outside' = ~ OnCalendar(instant.minute)
    BY DEF Hold
  <2> QED
    BY <2>3, <2>4, <2>5 DEF TimeKept
<1> QED
  BY <1>3, <1>4

LEMMA CalendarKept ==
  ASSUME NormalForms, [CalendarNext]_calendarVars
  PROVE  NormalForms' /\ (ShortDurations /\ TimeKept => TimeKept')
<1>1. CASE UNCHANGED calendarVars
  BY <1>1 DEF NormalForms, TimeKept, calendarVars
<1>2. ASSUME NEW o \in Objects, NEW text \in Written, Read(o, text)
      PROVE  NormalForms' /\ (TimeKept => TimeKept')
  <2>1. CASE OnCalendar(UtcMinute(text)) /\ Hold(o, Normalize(text), InstantOf(text))
    <3>1. Normal(Normalize(text)) /\ InstantOf(Normalize(text)) = InstantOf(text)
      BY <2>1, NormalizeNormal
    <3> QED
      BY <2>1, <3>1, Held
  <2>2. CASE ~ OnCalendar(UtcMinute(text)) /\ Refuse("range", InstantOf(text))
    <3>1. InstantOf(text).minute = UtcMinute(text)
      BY DEF InstantOf, UtcMinute
    <3> QED
      BY <2>2, <3>1 DEF Refuse, NormalForms, TimeKept
  <2> QED
    BY <1>2, <2>1, <2>2 DEF Read
<1>3. ASSUME NEW o \in Objects, Reload(o)
      PROVE  NormalForms' /\ (TimeKept => TimeKept')
  <2>1. Normal(epochs[o]) /\ Normalize(epochs[o]) = epochs[o]
    BY NormalKept DEF NormalForms
  <2>2. Hold(o, epochs[o], instants[o])
    BY <1>3, <2>1 DEF Reload
  <2>3. TimeKept => InstantOf(epochs[o]) = instants[o]
    BY DEF TimeKept
  <2> QED
    BY <2>1, <2>2, <2>3, Held
<1>4. ASSUME NEW o \in Objects, NEW duration \in Durations, Add(o, duration)
      PROVE  NormalForms' /\ (ShortDurations /\ TimeKept => TimeKept')
  <2>1. PICK text : text = epochs[o] /\ Normal(text)
    BY DEF NormalForms
  <2>2. TimeKept => instants[o] = InstantOf(text)
    BY <2>1 DEF TimeKept
  <2>3. PICK moment : moment = Sum(text, duration)
    OBVIOUS
  <2>4. PICK wanted : wanted = Later(instants[o], duration)
    OBVIOUS
  <2>5. duration \in Int
    BY CalendarAssumption
  <2>6. CASE ~ Supported(text) /\ Refuse("unsupported", instants[o])
    <3>1. TimeKept => OnCalendar(instants[o].minute)
      BY <2>1, <2>2, NormalOnCalendar
    <3> QED
      BY <2>6, <3>1 DEF Refuse, NormalForms, TimeKept
  <2>7. CASE Supported(text) /\ ~ InRange(moment) /\ Refuse("range", wanted)
    <3>1. TimeKept /\ ShortDurations => ~ OnCalendar(wanted.minute)
      BY <2>1, <2>2, <2>3, <2>4, <2>5, <2>7, AddKeepsTime DEF ShortDurations
    <3> QED
      BY <2>7, <3>1 DEF Refuse, NormalForms, TimeKept
  <2>8. CASE /\ Supported(text) /\ InRange(moment)
             /\ Hold(o, Normalize(Serialized(moment, text.scale)), wanted)
    <3>1. PICK result : result = Serialized(moment, text.scale)
      OBVIOUS
    <3>2. moment \in Moments /\ text.scale \in Scales
      BY <2>1, <2>3, <2>5, <2>8, SumAdds, NormalTyped
    <3>3. Normal(result) /\ Normalize(result) = result
      BY <2>8, <3>1, <3>2, SerializedNormal, NormalKept
    <3>4. TimeKept /\ ShortDurations => InstantOf(result) = wanted
      BY <2>1, <2>2, <2>3, <2>4, <2>5, <2>8, <3>1, AddKeepsTime DEF ShortDurations
    <3>5. Hold(o, result, wanted)
      BY <2>8, <3>1, <3>3
    <3> QED
      BY <3>3, <3>4, <3>5, Held
  <2> QED
    BY <1>4, <2>1, <2>3, <2>4, <2>6, <2>7, <2>8 DEF Add
<1> QED
  BY <1>1, <1>2, <1>3, <1>4 DEF CalendarNext

LEMMA CalendarStarts ==
  ASSUME CalendarInit
  PROVE  NormalForms /\ TimeKept
BY OriginNormal, NormalOnCalendar DEF CalendarInit, NormalForms, TimeKept

\* Every Epoch that was accepted or computed, however rough the decimal context,
\* is in normal form: its dump is read again and stays the same.
THEOREM EpochsReadBack == CalendarSpec => []ReadsBack
<1>1. CalendarInit => NormalForms
  BY CalendarStarts
<1>2. NormalForms /\ [CalendarNext]_calendarVars => NormalForms'
  BY CalendarKept
<1>3. NormalForms => ReadsBack
  BY NormalKept DEF NormalForms, ReadsBack
<1> QED
  BY <1>1, <1>2, <1>3, PTL DEF CalendarSpec

\* On every calendar, with any offsets and fractions, an Epoch is the instant that
\* was read or computed to the last place, and a range is refused exactly when that
\* instant is off the calendar: as long as the fractions of the durations added fit
\* the decimal context, which calendar_precision shows is needed.
THEOREM InstantsKept ==
  ASSUME ShortDurations
  PROVE  CalendarSpec => []KeepsInstants
<1> DEFINE Inv == NormalForms /\ TimeKept
<1>1. CalendarInit => Inv
  BY CalendarStarts
<1>2. Inv /\ [CalendarNext]_calendarVars => Inv'
  BY CalendarKept
<1>3. Inv => KeepsInstants
  BY DEF TimeKept, KeepsInstants
<1> QED
  BY <1>1, <1>2, <1>3, PTL DEF CalendarSpec

\* Where the context has a digit for every place, Core's order, the adapter's
\* order and the equality of texts are the order of time, the rounded seconds
\* between two epochs have the sign of that order, however long the calendar, and
\* they lead from one to the other where few digits write them.
THEOREM OrdersOfTime ==
  ASSUME Places <= Precision
  PROVE  CalendarSpec => []OrdersAgree
<1> DEFINE Inv == NormalForms /\ TimeKept
<1>1. CalendarInit => Inv
  BY CalendarStarts
<1>0. ShortDurations
  <2>1. PICK u \in Nat \ {0} : u = Unit
    BY ValueTyped
  <2>2. \A duration \in Int : duration % u \in 0 .. u - 1
    OBVIOUS
  <2> QED
    BY <2>1, <2>2, AllShort, CalendarAssumption DEF ShortDurations
<1>2. Inv /\ [CalendarNext]_calendarVars => Inv'
  BY <1>0, CalendarKept
<1>3. Inv => OrdersAgree
  <2> SUFFICES ASSUME Inv, SameScale
               PROVE  /\ Before(Left, Right) <=> Earlier(instants["left"], instants["right"])
                      /\ Left = Right <=> instants["left"] = instants["right"]
                      /\ Comparable(Left, Right) =>
                           /\ (Compare(Left, Right) = -1) <=> Before(Left, Right)
                           /\ (Compare(Left, Right) = 0)  <=> (Left = Right)
                           /\ Between(Left, Right) > 0 <=> Before(Left, Right)
                           /\ Between(Left, Right) = 0 <=> Left = Right
                           /\ Exact(Difference(Left, Right)) =>
                                Sum(Left, Between(Left, Right)) = Moment(Right)
    BY DEF OrdersAgree
  <2>1. PICK l, r : l = Left /\ r = Right /\ l.scale = r.scale /\ Normal(l) /\ Normal(r)
    BY DEF SameScale, Left, Right, NormalForms, Objects
  <2>2. instants["left"] = InstantOf(l) /\ instants["right"] = InstantOf(r)
    BY <2>1 DEF TimeKept, Left, Right, Objects
  <2>3. /\ Before(l, r) <=> Earlier(InstantOf(l), InstantOf(r))
        /\ l = r <=> InstantOf(l) = InstantOf(r)
    BY <2>1, BeforeIsEarlier
  <2>4. ASSUME Comparable(l, r)
        PROVE  /\ (Compare(l, r) = -1) <=> Before(l, r)
               /\ (Compare(l, r) = 0)  <=> (l = r)
               /\ Between(l, r) > 0 <=> Before(l, r)
               /\ Between(l, r) = 0 <=> l = r
               /\ Exact(Difference(l, r)) => Sum(l, Between(l, r)) = Moment(r)
    <3>1. Supported(l) /\ Supported(r)
      BY <2>4 DEF Comparable
    <3>2. [InstantOf(r) EXCEPT !.scale = l.scale] = InstantOf(r)
      BY <2>1, InstantOfNormal
    <3>3. Moment(l) = Moment(r) <=> l = r
      BY <2>1, <2>3, <3>1, <3>2, CompareIsBefore
    <3> QED
      BY <2>1, <3>1, <3>3, CompareIsBefore, BetweenOrders, BetweenReaches
  <2> QED
    BY <2>1, <2>2, <2>3, <2>4
<1> QED
  BY <1>1, <1>2, <1>3, PTL DEF CalendarSpec
===============================================================================
