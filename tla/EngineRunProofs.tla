--------------------------- MODULE EngineRunProofs ---------------------------
(***************************************************************************)
(* What a whole run of the Engine guarantees, for all manifests in any     *)
(* order, all objects, burns and sinks.                                    *)
(***************************************************************************)
EXTENDS EngineRun, SequenceLemmas

GroupType == [epoch : Nat, maneuvers : SUBSET Nat, products : SUBSET {Sampled}]

\* Where the schedule stands.
ScheduleType ==
  /\ request \in Manifests
  /\ phase \in {"ready", "running", "exhausted"}
  /\ lookahead \in [{Sampled} -> Nat \cup {Schedule!Exhausted}]
  /\ remaining \subseteq Scheduled
  /\ groups \in Seq(GroupType)

\* The schedule consumes the maneuvers by their index: each that runs waits or
\* is in a group of its instant, after those of the groups before.
ConsumedInv ==
  /\ phase = "ready" => groups = <<>>
  /\ phase # "ready" =>
       \A i \in Scheduled : i \in remaining \/ \E k \in DOMAIN groups : i \in groups[k].maneuvers
  /\ phase = "exhausted" => remaining = {}
  /\ \A k \in DOMAIN groups : \A i \in groups[k].maneuvers :
       /\ i \in Scheduled /\ request.timeline[i].epoch = groups[k].epoch
       /\ \A j \in remaining : i < j
       /\ \A l \in DOMAIN groups : k < l => \A j \in groups[l].maneuvers : i < j

\* No instant comes twice in a row, and the end is sampled before the sampler ends.
CadenceInv ==
  /\ groups # <<>> => Group.epoch \notin Schedule!Candidates
  /\ \A k \in 1 .. Len(groups) - 1 : groups[k].epoch # groups[k + 1].epoch
  /\ phase # "ready" /\ lookahead[Sampled] = Schedule!Exhausted =>
       \E k \in DOMAIN groups : Sampled \in groups[k].products /\ groups[k].epoch = request.end
  /\ phase = "exhausted" => lookahead[Sampled] = Schedule!Exhausted

\* The first n groups go forward in time.
Forward(n) == \A k, l \in 1 .. n : k < l => groups[k].epoch < groups[l].epoch

\* While the runner works, the runtime is at the last group it reached, and has
\* reached them in the order of time.
ForwardInv ==
  /\ pc \in {"entry", "initialize", "initialized"} => phase = "ready"
  /\ pc \in {"next", "maneuver", "write", "end"} =>
       /\ Forward(Len(groups))
       /\ groups # <<>> => Runtime!Now = Group.epoch
  /\ pc \in {"maneuver", "write"} => groups # <<>>
  /\ pc = "propagate" =>
       /\ groups # <<>> /\ Forward(Len(groups) - 1)
       /\ Len(groups) > 1 => Runtime!Now = groups[Len(groups) - 1].epoch
  /\ pc = "moving" =>
       /\ groups # <<>> /\ Forward(Len(groups) - 1)
       /\ call # "none" \/ answer = "REACHED_TARGET" => Forward(Len(groups))
  /\ pc \in {"close", "last"} => Forward(Len(groups))
  /\ pc \in {"end", "close", "last"} => phase = "exhausted"

\* What was returned is what became of the output.
OutcomeInv ==
  /\ pc \notin {"cleanUp", "done"} => outcome = "RUNNING" /\ status # "COMMITTED"
  /\ pc = "cleanUp" => outcome \in {"ERROR", "CANCELLED"} /\ status # "COMMITTED"
  /\ pc = "done" => /\ outcome \in {"ERROR", "CANCELLED", "COMPLETED"}
                    /\ outcome = "COMPLETED" <=> status = "COMMITTED"
  /\ status = "COMMITTED" => phase = "exhausted" /\ Forward(Len(groups))

RunInv == ScheduleType /\ ConsumedInv /\ CadenceInv /\ ForwardInv /\ OutcomeInv

-------------------------------------------------------------------------------
\* The runtime is used from its initialization to its end; the output counts
\* while the run may still commit it.
Live    == {"initialized", "next", "propagate", "moving", "maneuver", "write", "end", "close"}
Working == Live \cup {"last"}

\* Where object o is at instant t, if it is not burned again.
Path(o, t) == Initial[o].position + Initial[o].velocity * (t - Sync) + impulse[o] * t - moment[o]

\* Every object is on its path, and those a propagation has moved at its target.
PathInv ==
  /\ pc # "moving" => call = "none"
  /\ pc \in {"entry", "initialize"} => impulse = Runtime!Zero /\ moment = Runtime!Zero
  /\ pc \in Live =>
       /\ position \in [Runtime!Objects -> Int] /\ velocity \in [Runtime!Objects -> Int]
       /\ epoch \in [Runtime!Objects -> Int]
       /\ impulse \in [Runtime!Objects -> Int] /\ moment \in [Runtime!Objects -> Int]
       /\ \A o \in Runtime!Objects :
            velocity[o] = Initial[o].velocity + impulse[o] /\ position[o] = Path(o, epoch[o])
       /\ call # "updating" => Runtime!Synchronized
       /\ call # "none" =>
            /\ target \in Int /\ candidates \in [Runtime!Objects -> Int]
            /\ \A o \in Runtime!Objects :
                 candidates[o] = Path(o, target) /\ (o \notin pending => epoch[o] = target)

\* The maneuvers of the first k groups, those of the group executed so far, and
\* all that were executed; and the maneuvers of object o.
Ran(k)    == UNION {groups[l].maneuvers : l \in 1 .. k}
Current   == {executed[i].entry : i \in DOMAIN executed}
Burned    == Ran(Len(groups) - 1) \cup Current
BurnsOn(o) == {i \in DOMAIN request.burns : request.burns[i].spacecraft = o}

\* What each maneuver adds to moment.
Moments == [i \in DOMAIN request.burns |-> Impulses[i] * request.timeline[i].epoch]

Execution == [entry : Nat, epoch : Nat, before : Int, after : Int]

\* What the runtime adds up is what was executed.
BurnInv ==
  /\ executed \in Seq(Execution)
  /\ pc \in {"entry", "initialize", "initialized", "propagate", "moving"} => executed = <<>>
  /\ pc = "maneuver" => Current \subseteq Group.maneuvers
  /\ pc \in {"next", "write", "end", "close", "last"} =>
       Current = IF groups = <<>> THEN {} ELSE Group.maneuvers
  /\ pc \in Live =>
       \A o \in Runtime!Objects :
         /\ impulse[o] = SumFunctionOnSet(Impulses, Burned \cap BurnsOn(o))
         /\ moment[o] = SumFunctionOnSet(Moments, Burned \cap BurnsOn(o))

Sample == [object : Runtime!Objects, epoch : Int, position : Int, velocity : Int]

Records == ({Sampled} \X Sample) \cup ({"truth_maneuvers"} \X Execution)

\* The records of a channel the sink has, or is about to get.
Payloads(R, c) == {r[2] : r \in {r \in R : r[1] = c}}
Sent(c) == ToSet(stored[c]) \cup Payloads(ToSet(unwritten), c)

\* The number of groups whose records are sent.
Reported == IF pc \in {"propagate", "moving", "maneuver"} THEN Len(groups) - 1 ELSE Len(groups)

\* A state is that after the maneuvers of all groups up to its own.
After(s) ==
  \E k \in DOMAIN groups :
    LET b == Ran(k) \cap BurnsOn(s.object)
    IN  /\ s.epoch = groups[k].epoch
        /\ s.velocity = Initial[s.object].velocity + SumFunctionOnSet(Impulses, b)
        /\ s.position = Initial[s.object].position + Initial[s.object].velocity * (s.epoch - Sync)
                        + SumFunctionOnSet(Impulses, b) * s.epoch - SumFunctionOnSet(Moments, b)

OutputType ==
  /\ DOMAIN stored = Sink!Channels
  /\ stored[Sampled] \in Seq(Sample) /\ stored["truth_maneuvers"] \in Seq(Execution)
  /\ unwritten \in Seq(Records)
  /\ pc # "write" => unwritten = <<>>

\* The output of the groups reported: their samples, and their maneuvers.
OutputKept ==
  /\ \A s \in Sent(Sampled) : After(s)
  /\ \A k \in 1 .. Reported : Sampled \in groups[k].products =>
       \A o \in Runtime!Objects : \E s \in Sent(Sampled) :
         s.object = o /\ s.epoch = groups[k].epoch
  /\ {m.entry : m \in Sent("truth_maneuvers")} = Ran(Reported)

OutputInv ==
  /\ pc \in {"entry", "initialize"} => stored = Sink!Empty /\ unwritten = <<>>
  /\ pc \in Working \/ status = "COMMITTED" => OutputType /\ OutputKept

-------------------------------------------------------------------------------
\* What the actions that leave the schedule alone leave of the invariant.
LEMMA SameSchedule ==
  ASSUME UNCHANGED scheduleVars
  PROVE  /\ ScheduleType => ScheduleType'
         /\ ConsumedInv => ConsumedInv'
         /\ CadenceInv => CadenceInv'
         /\ groups' = groups /\ phase' = phase /\ request' = request
         /\ \A n : Forward(n) <=> Forward(n)'
<1>1. /\ request' = request /\ phase' = phase /\ lookahead' = lookahead
      /\ remaining' = remaining /\ groups' = groups
  BY DEF scheduleVars
<1>2. Scheduled' = Scheduled
  BY <1>1 DEF Scheduled, Schedule!Runs
<1>3. ScheduleType => ScheduleType'
  BY <1>1, <1>2 DEF ScheduleType
<1>4. ConsumedInv => ConsumedInv'
  BY <1>1, <1>2 DEF ConsumedInv
<1>5. CadenceInv => CadenceInv'
  BY <1>1 DEF CadenceInv, Group, Schedule!Candidates, Schedule!AtCursor, Schedule!Timeline
<1> QED
  BY <1>1, <1>3, <1>4, <1>5 DEF Forward

LEMMA RunInit == Init => RunInv
<1> SUFFICES ASSUME Init
             PROVE  RunInv
  OBVIOUS
<1>1. ScheduleType
  BY DEF Init, ScheduleType, Schedule!Exhausted
<1>2. ConsumedInv /\ CadenceInv
  BY DEF Init, ConsumedInv, CadenceInv
<1>3. ForwardInv
  BY DEF Init, ForwardInv
<1>4. OutcomeInv
  BY DEF Init, OutcomeInv, Sink!SinkInit
<1> QED
  BY <1>1, <1>2, <1>3, <1>4 DEF RunInv

-------------------------------------------------------------------------------
\* What a manifest is made of.
LEMMA ManifestTyped ==
  ASSUME NEW m \in Manifests
  PROVE  /\ m.start \in Nat /\ m.end \in Nat /\ m.sync = Sync /\ Sync \in Nat
         /\ DOMAIN m.intervals = {Sampled} /\ m.intervals[Sampled] \in Nat \ {0}
         /\ DOMAIN m.timeline \subseteq Nat
         /\ \A i \in DOMAIN m.timeline :
              /\ m.timeline[i].epoch \in Nat
              /\ m.timeline[i].source \in {"PLANNED", "COMMAND"}
              /\ m.timeline[i].source = "PLANNED" => m.timeline[i].epoch >= Sync
<1>1. m.timeline \in Seq(Schedule!Entries)
  BY ManifestAssumption
<1>2. \A i \in DOMAIN m.timeline : m.timeline[i] \in Schedule!Entries
  BY <1>1
<1>3. DOMAIN m.timeline \subseteq Nat
  BY <1>1
<1> QED
  BY <1>2, <1>3, ManifestAssumption DEF Schedule!Entries

\* Every maneuver that runs is executable.
LEMMA PrimeConsumes ==
  ASSUME ScheduleType, ConsumedInv, Schedule!Prime
  PROVE  ScheduleType' /\ ConsumedInv' /\ CadenceInv' /\ groups' = groups /\ groups = <<>>
<1>1. /\ phase = "ready" /\ phase' = "running" /\ request' = request /\ groups' = groups
      /\ lookahead' = [p \in {Sampled} |-> IF p \in Schedule!Rules THEN request.start
                                           ELSE Schedule!Exhausted]
      /\ remaining' = {i \in DOMAIN request.timeline : Schedule!Executable(request.timeline[i])}
  BY DEF Schedule!Prime, Schedule!Timeline
<1>2. request \in Manifests /\ groups \in Seq(GroupType)
  BY DEF ScheduleType
<1>3. groups = <<>>
  BY <1>1 DEF ConsumedInv
<1>4. Scheduled' = Scheduled
  BY <1>1 DEF Scheduled, Schedule!Runs
<1>5. ASSUME NEW i \in DOMAIN request.timeline
      PROVE  Schedule!Executable(request.timeline[i]) <=> Schedule!Runs(request.timeline[i])
  <2>1. /\ request.start \in Nat /\ request.end \in Nat /\ request.sync = Sync
        /\ Sync \in Nat /\ Sync <= request.start /\ request.start < request.end
    BY <1>2, ManifestAssumption
  <2>2. PICK entry : /\ entry = request.timeline[i] /\ entry.epoch \in Nat
                     /\ entry.source = "PLANNED" => entry.epoch >= Sync
    BY <1>2, ManifestTyped
  <2>3. Schedule!Executable(entry) <=> Schedule!Runs(entry)
    BY <2>1, <2>2 DEF Schedule!Executable, Schedule!Runs
  <2> QED
    BY <2>2, <2>3
<1>6. remaining' = Scheduled
  BY <1>1, <1>5 DEF Scheduled
<1>7. lookahead'[Sampled] \in Nat /\ lookahead' \in [{Sampled} -> Nat \cup {Schedule!Exhausted}]
  <2>1. request.start \in Nat /\ Sampled \in Schedule!Rules
    BY <1>2, ManifestTyped DEF Schedule!Rules
  <2> QED
    BY <1>1, <2>1
<1>8. ScheduleType'
  BY <1>1, <1>2, <1>4, <1>6, <1>7 DEF ScheduleType
<1>9. ConsumedInv'
  BY <1>1, <1>3, <1>4, <1>6 DEF ConsumedInv
<1>10. CadenceInv'
  <2>1. lookahead'[Sampled] # Schedule!Exhausted
    BY <1>7 DEF Schedule!Exhausted
  <2> QED
    BY <1>1, <1>3, <2>1 DEF CadenceInv
<1> QED
  BY <1>1, <1>3, <1>8, <1>9, <1>10

\* A group takes the first of the remaining maneuvers.
LEMMA YieldConsumes ==
  ASSUME ScheduleType, ConsumedInv, CadenceInv,
         NEW at \in Schedule!Candidates, Schedule!YieldGroup(at)
  PROVE  /\ ScheduleType' /\ ConsumedInv' /\ CadenceInv' /\ phase' = "running"
         /\ request' = request /\ \E g \in GroupType : groups' = Append(groups, g)
<1>1. /\ phase = "running" /\ phase' = "running" /\ request' = request
      /\ remaining' = remaining \ Schedule!Leading(at)
      /\ groups' = Append(groups, [epoch |-> at, maneuvers |-> Schedule!Leading(at),
                                   products |-> Schedule!Due(at)])
  BY DEF Schedule!YieldGroup
<1>2. /\ request \in Manifests /\ groups \in Seq(GroupType)
      /\ lookahead \in [{Sampled} -> Nat \cup {Schedule!Exhausted}]
      /\ remaining \subseteq Scheduled /\ remaining \subseteq DOMAIN request.timeline
  BY DEF ScheduleType, Scheduled
<1>3. remaining \subseteq Nat /\ \A i \in remaining : request.timeline[i].epoch \in Nat
  BY <1>2, ManifestTyped
<1>4. at \in Nat
  BY <1>2, <1>3 DEF Schedule!Candidates, Schedule!AtCursor, Schedule!Timeline
<1>5. PICK g \in GroupType : /\ groups' = Append(groups, g)
                             /\ g.epoch = at /\ g.maneuvers = Schedule!Leading(at)
                             /\ g.products = Schedule!Due(at)
  <2>1. Schedule!Leading(at) \in SUBSET Nat
    BY <1>3 DEF Schedule!Leading
  <2>2. Schedule!Due(at) \in SUBSET {Sampled}
    BY DEF Schedule!Due
  <2> QED
    BY <1>1, <1>4, <2>1, <2>2 DEF GroupType
<1>6. /\ lookahead' \in [{Sampled} -> Nat \cup {Schedule!Exhausted}]
      /\ lookahead'[Sampled] # at
      /\ lookahead'[Sampled] = Schedule!Exhausted =>
           \/ lookahead[Sampled] = Schedule!Exhausted
           \/ Sampled \in Schedule!Due(at) /\ at = request.end
  <2>1. PICK next :
          /\ next \in [{Sampled} -> {lookahead[p] : p \in {Sampled}} \cup
                           UNION {Schedule!AfterSample(p, at) : p \in Schedule!Due(at)}]
          /\ next = lookahead'
          /\ IF Sampled \in Schedule!Due(at) THEN next[Sampled] \in Schedule!AfterSample(Sampled, at)
             ELSE next[Sampled] = lookahead[Sampled]
    BY DEF Schedule!YieldGroup
  <2>2. CASE Sampled \notin Schedule!Due(at)
    <3>1. next[Sampled] = lookahead[Sampled] /\ lookahead[Sampled] # at
      BY <2>1, <2>2 DEF Schedule!Due
    <3> QED
      BY <1>2, <2>1, <3>1
  <2>3. CASE Sampled \in Schedule!Due(at)
    <3>1. /\ request.end \in Nat /\ request.intervals[Sampled] \in Nat \ {0}
      BY <1>2, ManifestTyped
    <3>2. next[Sampled] \in Schedule!AfterSample(Sampled, at)
      BY <2>1, <2>3
    <3>3. IF at = request.end THEN next[Sampled] = Schedule!Exhausted
          ELSE next[Sampled] \in {request.end, at + request.intervals[Sampled]}
      BY <3>2 DEF Schedule!AfterSample
    <3>4. /\ next[Sampled] \in Nat \cup {Schedule!Exhausted} /\ next[Sampled] # at
          /\ next[Sampled] = Schedule!Exhausted => at = request.end
      BY <1>4, <3>1, <3>3 DEF Schedule!Exhausted
    <3> QED
      BY <2>1, <2>3, <3>4
  <2> QED
    BY <2>2, <2>3
<1>7. groups' \in Seq(GroupType)
  BY <1>2, <1>5
<1>8. ScheduleType'
  <2>1. Scheduled' = Scheduled /\ phase' = "running" /\ remaining' \subseteq remaining
    BY <1>1 DEF Scheduled, Schedule!Runs
  <2> QED
    BY <1>1, <1>2, <1>6, <1>7, <2>1 DEF ScheduleType
<1>9. \A i \in Schedule!Leading(at) :
        /\ i \in remaining /\ request.timeline[i].epoch = at
        /\ \A j \in remaining' : i < j
  <2> SUFFICES ASSUME NEW i \in Schedule!Leading(at)
               PROVE  /\ i \in remaining /\ request.timeline[i].epoch = at
                      /\ \A j \in remaining' : i < j
    OBVIOUS
  <2>1. i \in remaining /\ \A j \in remaining : j <= i => request.timeline[j].epoch = at
    BY DEF Schedule!Leading, Schedule!Timeline
  <2>2. ASSUME NEW j \in remaining, j <= i
        PROVE  j \in Schedule!Leading(at)
    BY <1>3, <2>1, <2>2 DEF Schedule!Leading, Schedule!Timeline
  <2>3. ASSUME NEW j \in remaining'
        PROVE  i < j
    <3>1. j \in remaining /\ j \notin Schedule!Leading(at)
      BY <1>1
    <3>2. ~(j <= i)
      BY <2>2, <3>1
    <3>3. i \in Nat /\ j \in Nat
      BY <1>3, <2>1, <3>1
    <3> QED
      BY <3>2, <3>3
  <2> QED
    BY <1>3, <2>1, <2>3
<1>10. Scheduled' = Scheduled
  BY <1>1 DEF Scheduled, Schedule!Runs
<1>11. PICK n \in Nat : n = Len(groups) /\ DOMAIN groups = 1 .. n
  BY <1>2
<1>12. /\ DOMAIN groups' = 1 .. n + 1 /\ groups'[n + 1] = g
       /\ \A k \in 1 .. n : groups'[k] = groups[k]
  BY <1>2, <1>5, <1>11
<1>13. \A i \in Scheduled :
         i \in remaining' \/ \E k \in DOMAIN groups' : i \in groups'[k].maneuvers
  <2> SUFFICES ASSUME NEW i \in Scheduled, i \notin remaining'
               PROVE  \E k \in DOMAIN groups' : i \in groups'[k].maneuvers
    OBVIOUS
  <2>1. i \in remaining \/ \E k \in DOMAIN groups : i \in groups[k].maneuvers
    BY <1>1 DEF ConsumedInv
  <2>2. CASE i \in remaining
    <3>1. i \in Schedule!Leading(at)
      BY <1>1, <2>2
    <3> QED
      BY <1>5, <1>12, <3>1
  <2> QED
    BY <1>11, <1>12, <2>1, <2>2
<1>14. \A k \in DOMAIN groups' : \A i \in groups'[k].maneuvers :
         /\ i \in Scheduled /\ request.timeline[i].epoch = groups'[k].epoch
         /\ \A j \in remaining' : i < j
         /\ \A l \in DOMAIN groups' : k < l => \A j \in groups'[l].maneuvers : i < j
  <2> SUFFICES ASSUME NEW k \in 1 .. n + 1, NEW i \in groups'[k].maneuvers
               PROVE  /\ i \in Scheduled /\ request.timeline[i].epoch = groups'[k].epoch
                      /\ \A j \in remaining' : i < j
                      /\ \A l \in 1 .. n + 1 : k < l => \A j \in groups'[l].maneuvers : i < j
    BY <1>12
  <2>1. CASE k = n + 1
    <3>1. \A l \in 1 .. n + 1 : ~(k < l)
      BY <2>1
    <3> QED
      BY <1>2, <1>5, <1>9, <1>12, <2>1, <3>1
  <2>2. CASE k \in 1 .. n
    <3>1. /\ i \in Scheduled /\ request.timeline[i].epoch = groups[k].epoch
          /\ \A j \in remaining : i < j
          /\ \A l \in 1 .. n : k < l => \A j \in groups[l].maneuvers : i < j
      BY <1>11, <1>12, <2>2 DEF ConsumedInv
    <3>2. ASSUME NEW l \in 1 .. n + 1, k < l, NEW j \in groups'[l].maneuvers
          PROVE  i < j
      <4>1. CASE l = n + 1
        BY <1>5, <1>9, <1>12, <3>1, <4>1
      <4>2. CASE l \in 1 .. n
        BY <1>12, <3>1, <3>2, <4>2
      <4> QED
        BY <4>1, <4>2
    <3> QED
      BY <1>1, <1>12, <2>2, <3>1, <3>2
  <2> QED
    BY <2>1, <2>2
<1>15. ConsumedInv'
  BY <1>1, <1>10, <1>13, <1>14 DEF ConsumedInv
<1>16. CadenceInv'
  <2>1. Group' = g
    BY <1>5, <1>7, <1>11, <1>12 DEF Group, Last
  <2>2. at \notin Schedule!Candidates'
    <3>1. ASSUME NEW i \in remaining', request.timeline[i].epoch = at,
                 \A j \in remaining' : i <= j
          PROVE  FALSE
      <4>1. i \in remaining /\ i \notin Schedule!Leading(at) /\ i \in Nat
        BY <1>1, <1>3
      <4>2. ASSUME NEW j \in remaining, j <= i
            PROVE  request.timeline[j].epoch = at
        <5>1. CASE j \in Schedule!Leading(at)
          BY <1>9, <5>1
        <5>2. CASE j \notin Schedule!Leading(at)
          <6>1. j \in remaining' /\ j \in Nat
            BY <1>1, <1>3, <5>2
          <6>2. i <= j
            BY <3>1, <6>1
          <6>3. i = j
            BY <4>1, <4>2, <6>1, <6>2
          <6> QED
            BY <3>1, <6>3
        <5> QED
          BY <5>1, <5>2
      <4>3. i \in Schedule!Leading(at)
        BY <4>1, <4>2 DEF Schedule!Leading, Schedule!Timeline
      <4> QED
        BY <4>1, <4>3
    <3>2. at \notin {request'.timeline[i].epoch : i \in Schedule!AtCursor'}
      BY <1>1, <3>1 DEF Schedule!AtCursor
    <3> QED
      BY <1>6, <3>2 DEF Schedule!Candidates, Schedule!Timeline
  <2>3. ASSUME NEW k \in 1 .. n
        PROVE  groups'[k].epoch # groups'[k + 1].epoch
    <3>1. CASE k = n
      <4>1. groups # <<>> /\ Group = groups[n]
        BY <1>11, <3>1 DEF Group, Last
      <4>2. groups[n].epoch # at
        BY <4>1 DEF CadenceInv
      <4> QED
        BY <1>5, <1>12, <3>1, <4>2
    <3>2. CASE k \in 1 .. n - 1
      <4>1. k + 1 \in 1 .. n /\ groups[k].epoch # groups[k + 1].epoch
        BY <1>11, <3>2 DEF CadenceInv
      <4> QED
        BY <1>12, <4>1
    <3> QED
      BY <1>11, <3>1, <3>2
  <2>4. ASSUME lookahead'[Sampled] = Schedule!Exhausted
        PROVE  \E k \in DOMAIN groups' :
                 Sampled \in groups'[k].products /\ groups'[k].epoch = request.end
    <3>1. CASE lookahead[Sampled] = Schedule!Exhausted
      <4>1. PICK k \in DOMAIN groups :
              Sampled \in groups[k].products /\ groups[k].epoch = request.end
        BY <1>1, <3>1 DEF CadenceInv
      <4> QED
        BY <1>11, <1>12, <4>1
    <3>2. CASE Sampled \in Schedule!Due(at) /\ at = request.end
      BY <1>5, <1>11, <1>12, <3>2
    <3> QED
      BY <1>6, <2>4, <3>1, <3>2
  <2>5. Len(groups') - 1 = n
    BY <1>7, <1>11, <1>12
  <2> QED
    BY <1>1, <1>5, <2>1, <2>2, <2>3, <2>4, <2>5 DEF CadenceInv
<1> QED
  BY <1>1, <1>5, <1>8, <1>15, <1>16

\* The generator ends when no maneuver is left.
LEMMA ExhaustConsumes ==
  ASSUME ScheduleType, ConsumedInv, CadenceInv, Schedule!Exhaust
  PROVE  /\ ScheduleType' /\ ConsumedInv' /\ CadenceInv' /\ phase' = "exhausted"
         /\ groups' = groups /\ request' = request
<1>1. /\ phase = "running" /\ phase' = "exhausted" /\ Schedule!Candidates = {}
      /\ request' = request /\ lookahead' = lookahead /\ remaining' = remaining
      /\ groups' = groups
  BY DEF Schedule!Exhaust
<1>2. remaining \in SUBSET Nat
  BY ManifestTyped DEF ScheduleType, Scheduled
<1>3. remaining = {}
  <2> SUFFICES ASSUME remaining # {}
               PROVE  FALSE
    OBVIOUS
  <2>1. PICK i \in remaining : \A j \in remaining : i <= j
    BY <1>2, LeastNumber
  <2>2. request.timeline[i].epoch \in Schedule!Candidates
    BY <2>1 DEF Schedule!Candidates, Schedule!AtCursor, Schedule!Timeline
  <2> QED
    BY <1>1, <2>2
<1>4. Scheduled' = Scheduled
  BY <1>1 DEF Scheduled, Schedule!Runs
<1>5. ConsumedInv'
  BY <1>1, <1>3, <1>4 DEF ConsumedInv
<1>6. ScheduleType'
  BY <1>1, <1>4 DEF ScheduleType
<1>7. lookahead[Sampled] = Schedule!Exhausted
  BY <1>1 DEF Schedule!Candidates
<1>8. Group' = Group /\ Schedule!Candidates' = {}
  BY <1>1 DEF Group, Schedule!Candidates, Schedule!AtCursor, Schedule!Timeline
<1>9. CadenceInv'
  BY <1>1, <1>7, <1>8 DEF CadenceInv
<1> QED
  BY <1>1, <1>5, <1>6, <1>9

-------------------------------------------------------------------------------
\* A step that leaves the schedule alone keeps what concerns it alone.
LEMMA SameScheduleStep ==
  ASSUME RunInv, UNCHANGED scheduleVars, ForwardInv', OutcomeInv'
  PROVE  RunInv'
BY SameSchedule DEF RunInv

LEMMA SameGroups ==
  ASSUME UNCHANGED scheduleVars
  PROVE  groups' = groups /\ phase' = phase /\ Group' = Group
BY DEF scheduleVars, Group

LEMMA SameNow ==
  ASSUME UNCHANGED epoch
  PROVE  Runtime!Now' = Runtime!Now
BY DEF Runtime!Now

LEMMA RunCancel == RunInv /\ Cancel => RunInv'
<1> SUFFICES ASSUME RunInv, Cancel
             PROVE  RunInv'
  OBVIOUS
<1>1. /\ UNCHANGED scheduleVars /\ status' = status /\ pc' = pc /\ outcome' = outcome
      /\ epoch' = epoch /\ call' = call /\ answer' = answer
  BY DEF Cancel, Runtime!Cancel, Runtime!stateVars, Runtime!callVars, sinkVars
<1>2. groups' = groups /\ phase' = phase /\ Group' = Group /\ Runtime!Now' = Runtime!Now
  BY <1>1, SameGroups, SameNow
<1>3. ForwardInv' /\ OutcomeInv'
  BY <1>1, <1>2 DEF RunInv, ForwardInv, OutcomeInv, Forward
<1> QED
  BY <1>1, <1>3, SameScheduleStep

LEMMA RunEnter == RunInv /\ Enter => RunInv'
<1> SUFFICES ASSUME RunInv, Enter
             PROVE  RunInv'
  OBVIOUS
<1>1. /\ UNCHANGED scheduleVars /\ status' = status /\ pc = "entry"
      /\ \/ pc' = "done" /\ outcome' = "CANCELLED"
         \/ pc' = "initialize" /\ outcome' = outcome
  BY DEF Enter, Proceed, sinkVars
<1>2. groups' = groups /\ phase' = phase
  BY <1>1, SameGroups
<1>3. ForwardInv'
  BY <1>1, <1>2 DEF RunInv, ForwardInv
<1>4. OutcomeInv'
  BY <1>1 DEF RunInv, OutcomeInv
<1> QED
  BY <1>1, <1>3, <1>4, SameScheduleStep

LEMMA RunInitialize == RunInv /\ Initialize => RunInv'
<1> SUFFICES ASSUME RunInv, Initialize
             PROVE  RunInv'
  OBVIOUS
<1>1. /\ UNCHANGED scheduleVars /\ status' = status
      /\ pc = "initialize" /\ pc' = "initialized" /\ outcome' = outcome
  BY DEF Initialize, Proceed, sinkVars
<1>2. groups' = groups /\ phase' = phase
  BY <1>1, SameGroups
<1>3. ForwardInv'
  BY <1>1, <1>2 DEF RunInv, ForwardInv
<1>4. OutcomeInv'
  BY <1>1 DEF RunInv, OutcomeInv
<1> QED
  BY <1>1, <1>3, <1>4, SameScheduleStep

LEMMA RunBegin == RunInv /\ Begin => RunInv'
<1> SUFFICES ASSUME RunInv, Begin
             PROVE  RunInv'
  OBVIOUS
<1>1. /\ UNCHANGED scheduleVars /\ pc = "initialized"
      /\ \/ pc' = "next" /\ outcome' = outcome /\ status' = "WRITING"
         \/ pc' = "cleanUp" /\ outcome' \in {"ERROR", "CANCELLED"} /\ status' = status
  BY DEF Begin, Proceed, Stop, sinkVars, Sink!SinkBegin
<1>2. groups' = groups /\ phase' = phase /\ groups = <<>>
  BY <1>1, SameGroups DEF RunInv, ForwardInv, ConsumedInv
<1>3. ForwardInv'
  BY <1>1, <1>2 DEF RunInv, ForwardInv, Forward
<1>4. OutcomeInv'
  BY <1>1 DEF RunInv, OutcomeInv
<1> QED
  BY <1>1, <1>3, <1>4, SameScheduleStep

LEMMA RunPrime == RunInv /\ Prime => RunInv'
<1> SUFFICES ASSUME RunInv, Prime
             PROVE  RunInv'
  OBVIOUS
<1>1. /\ Schedule!Prime /\ pc = "next" /\ pc' = pc /\ outcome' = outcome /\ status' = status
      /\ status # "COMMITTED"
  BY DEF Prime, sinkVars, RunInv, OutcomeInv
<1>2. ScheduleType' /\ ConsumedInv' /\ CadenceInv' /\ groups' = groups /\ groups = <<>>
  BY <1>1, PrimeConsumes DEF RunInv
<1>3. ForwardInv'
  BY <1>1, <1>2 DEF RunInv, ForwardInv, Forward
<1>4. OutcomeInv'
  BY <1>1 DEF RunInv, OutcomeInv
<1> QED
  BY <1>2, <1>3, <1>4 DEF RunInv

LEMMA RunNextGroup == RunInv /\ NextGroup => RunInv'
<1> SUFFICES ASSUME RunInv, NextGroup
             PROVE  RunInv'
  OBVIOUS
<1>1. PICK at \in Schedule!Candidates : Schedule!YieldGroup(at)
  BY DEF NextGroup
<1>2. /\ pc = "next" /\ epoch' = epoch /\ status' = status /\ status # "COMMITTED"
      /\ \/ pc' = "propagate" /\ outcome' = outcome
         \/ pc' = "cleanUp" /\ outcome' = "CANCELLED"
  BY DEF NextGroup, Unless, Proceed, Stop, runtimeVars, sinkVars, RunInv, OutcomeInv
<1>3. /\ ScheduleType' /\ ConsumedInv' /\ CadenceInv'
      /\ \E g \in GroupType : groups' = Append(groups, g)
  BY <1>1, YieldConsumes DEF RunInv
<1>4. PICK g \in GroupType : groups' = Append(groups, g)
  BY <1>3
<1>5. PICK n \in Nat : n = Len(groups)
  BY DEF RunInv, ScheduleType
<1>6. /\ Len(groups') = n + 1 /\ groups' # <<>> /\ (n + 1) - 1 = n
      /\ \A k \in 1 .. n : groups'[k] = groups[k]
  BY <1>4, <1>5 DEF RunInv, ScheduleType
<1>7. Forward(n) /\ (groups # <<>> => Runtime!Now = Group.epoch)
  BY <1>2, <1>5 DEF RunInv, ForwardInv
<1>8. Forward(n)'
  BY <1>6, <1>7 DEF Forward
<1>9. n + 1 > 1 => Runtime!Now' = groups'[n].epoch
  <2> SUFFICES ASSUME n + 1 > 1
               PROVE  Runtime!Now' = groups'[n].epoch
    OBVIOUS
  <2>1. n \in 1 .. n /\ groups # <<>> /\ Group = groups[n]
    BY <1>5 DEF Group, Last
  <2> QED
    BY <1>2, <1>6, <1>7, <2>1, SameNow
<1>10. ForwardInv'
  <2>1. /\ groups' # <<>> /\ Forward(Len(groups) - 1)'
        /\ Len(groups') > 1 => Runtime!Now' = groups'[Len(groups') - 1].epoch
    BY <1>6, <1>8, <1>9 DEF Forward
  <2> QED
    BY <1>2, <2>1 DEF ForwardInv
<1>11. OutcomeInv'
  BY <1>2 DEF RunInv, OutcomeInv
<1> QED
  BY <1>3, <1>10, <1>11 DEF RunInv

LEMMA RunEndOfSchedule == RunInv /\ EndOfSchedule => RunInv'
<1> SUFFICES ASSUME RunInv, EndOfSchedule
             PROVE  RunInv'
  OBVIOUS
<1>1. /\ Schedule!Exhaust /\ pc = "next" /\ pc' = "end" /\ outcome' = outcome
      /\ status' = status /\ epoch' = epoch /\ status # "COMMITTED"
  BY DEF EndOfSchedule, Proceed, runtimeVars, sinkVars, RunInv, OutcomeInv
<1>2. ScheduleType' /\ ConsumedInv' /\ CadenceInv' /\ phase' = "exhausted" /\ groups' = groups
  BY <1>1, ExhaustConsumes DEF RunInv
<1>3. Group' = Group /\ Runtime!Now' = Runtime!Now
  BY <1>1, <1>2, SameNow DEF Group
<1>4. ForwardInv'
  BY <1>1, <1>2, <1>3 DEF RunInv, ForwardInv, Forward
<1>5. OutcomeInv'
  BY <1>1 DEF RunInv, OutcomeInv
<1> QED
  BY <1>2, <1>4, <1>5 DEF RunInv

\* The runtime answers for no target before its epoch.
LEMMA PropagatesForward ==
  ASSUME NEW t, Runtime!Propagate(t), call' # "none" \/ answer' = "REACHED_TARGET"
  PROVE  t >= Runtime!Now
<1> SUFFICES ASSUME ~(Runtime!Synchronized /\ Runtime!Comparable(t) /\ t >= Runtime!Now)
             PROVE  FALSE
  OBVIOUS
<1>1. call = "none" /\ call' = call /\ answer' = "raised"
  BY Zenon DEF Runtime!Propagate, Runtime!Answer
<1> QED
  BY <1>1

\* The runtime refuses a group that is before the last one.
LEMMA RunPropagate == RunInv /\ Propagate => RunInv'
<1> SUFFICES ASSUME RunInv, Propagate
             PROVE  RunInv'
  OBVIOUS
<1>1. /\ UNCHANGED scheduleVars /\ pc = "propagate" /\ pc' = "moving"
      /\ outcome' = outcome /\ status' = status /\ status # "COMMITTED"
  BY DEF Propagate, Proceed, sinkVars, RunInv, OutcomeInv
<1>2. groups' = groups /\ phase' = phase
  BY <1>1, SameGroups
<1>3. PICK n \in Nat : n = Len(groups)
  BY DEF RunInv, ScheduleType
<1>4. /\ groups # <<>> /\ n > 0 /\ Forward(n - 1)
      /\ n > 1 => Runtime!Now = groups[n - 1].epoch
  BY <1>1, <1>3 DEF RunInv, ForwardInv, ScheduleType
<1>5. ASSUME call' # "none" \/ answer' = "REACHED_TARGET"
      PROVE  Forward(n)
  <2>1. Group.epoch >= Runtime!Now
    <3>1. PICK t : t = Group.epoch
      OBVIOUS
    <3>2. Runtime!Propagate(t)
      BY <3>1 DEF Propagate
    <3>3. t >= Runtime!Now
      BY <1>5, <3>2, PropagatesForward
    <3> QED
      BY <3>1, <3>3
  <2>2. Group = groups[n] /\ \A k \in 1 .. n : groups[k].epoch \in Int
    <3>1. Group = groups[n]
      BY <1>3 DEF Group, Last
    <3>2. \A k \in 1 .. n : groups[k] \in GroupType
      BY <1>3 DEF RunInv, ScheduleType
    <3> QED
      BY <3>1, <3>2 DEF GroupType
  <2>3. n > 1 => groups[n - 1].epoch < groups[n].epoch
    <3> SUFFICES ASSUME n > 1
                 PROVE  groups[n - 1].epoch < groups[n].epoch
      OBVIOUS
    <3>1. n - 1 \in 1 .. Len(groups) - 1 /\ (n - 1) + 1 = n
      BY <1>3
    <3>2. groups[n - 1].epoch # groups[n].epoch
      BY <3>1 DEF RunInv, CadenceInv
    <3>3. n - 1 \in 1 .. n /\ n \in 1 .. n /\ groups[n - 1].epoch \in Int /\ groups[n].epoch \in Int
      BY <2>2
    <3> QED
      BY <1>4, <2>1, <2>2, <3>2, <3>3
  <2>4. ASSUME NEW k \in 1 .. n, NEW l \in 1 .. n, k < l
        PROVE  groups[k].epoch < groups[l].epoch
    <3>1. CASE l \in 1 .. n - 1
      <4>1. k \in 1 .. n - 1
        BY <2>4, <3>1
      <4> QED
        BY <1>4, <2>4, <3>1, <4>1 DEF Forward
    <3>2. CASE l = n
      <4>1. n > 1 /\ k \in 1 .. n - 1 /\ n - 1 \in 1 .. n - 1
        BY <2>4, <3>2
      <4>2. CASE k = n - 1
        BY <2>3, <3>2, <4>1, <4>2
      <4>3. CASE k < n - 1
        <5>1. groups[k].epoch < groups[n - 1].epoch
          BY <1>4, <4>1, <4>3 DEF Forward
        <5>2. groups[n - 1].epoch \in Int /\ groups[k].epoch \in Int /\ groups[n].epoch \in Int
          BY <2>2, <4>1
        <5> QED
          BY <2>3, <3>2, <4>1, <5>1, <5>2
      <4> QED
        BY <4>1, <4>2, <4>3
    <3> QED
      BY <3>1, <3>2
  <2> QED
    BY <2>4 DEF Forward
<1>6. ForwardInv'
  BY <1>1, <1>2, <1>3, <1>4, <1>5 DEF ForwardInv, Forward
<1>7. OutcomeInv'
  BY <1>1 DEF RunInv, OutcomeInv
<1> QED
  BY <1>1, <1>6, <1>7, SameScheduleStep

LEMMA RunMove == RunInv /\ Move => RunInv'
<1> SUFFICES ASSUME RunInv, Move
             PROVE  RunInv'
  OBVIOUS
<1>1. /\ UNCHANGED scheduleVars /\ pc = "moving" /\ pc' = pc /\ call # "none"
      /\ outcome' = outcome /\ status' = status
  BY DEF Move, sinkVars
<1>2. groups' = groups /\ phase' = phase
  BY <1>1, SameGroups
<1>3. ForwardInv'
  BY <1>1, <1>2 DEF RunInv, ForwardInv, Forward
<1>4. OutcomeInv'
  BY <1>1 DEF RunInv, OutcomeInv
<1> QED
  BY <1>1, <1>3, <1>4, SameScheduleStep

LEMMA RunArrive == RunInv /\ Arrive => RunInv'
<1> SUFFICES ASSUME RunInv, Arrive
             PROVE  RunInv'
  OBVIOUS
<1>1. /\ UNCHANGED scheduleVars /\ pc = "moving" /\ call = "none" /\ epoch' = epoch
      /\ status' = status /\ status # "COMMITTED"
      /\ \/ /\ pc' = "maneuver" /\ outcome' = outcome
            /\ answer = "REACHED_TARGET" /\ Runtime!Now = Group.epoch
         \/ pc' = "cleanUp" /\ outcome' \in {"ERROR", "CANCELLED"}
  BY DEF Arrive, Proceed, Stop, runtimeVars, sinkVars, RunInv, OutcomeInv
<1>2. groups' = groups /\ phase' = phase /\ Group' = Group /\ Runtime!Now' = Runtime!Now
  BY <1>1, SameGroups, SameNow
<1>3. ForwardInv'
  BY <1>1, <1>2 DEF RunInv, ForwardInv, Forward
<1>4. OutcomeInv'
  BY <1>1 DEF RunInv, OutcomeInv
<1> QED
  BY <1>1, <1>3, <1>4, SameScheduleStep

LEMMA RunExecuteManeuver == RunInv /\ ExecuteManeuver => RunInv'
<1> SUFFICES ASSUME RunInv, ExecuteManeuver
             PROVE  RunInv'
  OBVIOUS
<1>1. /\ UNCHANGED scheduleVars /\ pc = "maneuver" /\ status' = status /\ status # "COMMITTED"
      /\ \/ pc' = "maneuver" /\ outcome' = outcome
         \/ pc' = "cleanUp" /\ outcome' = "ERROR"
  BY DEF ExecuteManeuver, Proceed, Stop, sinkVars, RunInv, OutcomeInv
<1>2. epoch' = epoch
  BY DEF ExecuteManeuver, Runtime!Execute, Runtime!Answer, Runtime!stateVars
<1>3. groups' = groups /\ phase' = phase /\ Group' = Group /\ Runtime!Now' = Runtime!Now
  BY <1>1, <1>2, SameGroups, SameNow
<1>4. ForwardInv'
  BY <1>1, <1>3 DEF RunInv, ForwardInv, Forward
<1>5. OutcomeInv'
  BY <1>1 DEF RunInv, OutcomeInv
<1> QED
  BY <1>1, <1>4, <1>5, SameScheduleStep

LEMMA RunTakeSamples == RunInv /\ TakeSamples => RunInv'
<1> SUFFICES ASSUME RunInv, TakeSamples
             PROVE  RunInv'
  OBVIOUS
<1>1. /\ UNCHANGED scheduleVars /\ pc = "maneuver" /\ pc' = "write" /\ epoch' = epoch
      /\ status' = status /\ outcome' = outcome
  BY DEF TakeSamples, Proceed, runtimeVars, sinkVars
<1>2. groups' = groups /\ phase' = phase /\ Group' = Group /\ Runtime!Now' = Runtime!Now
  BY <1>1, SameGroups, SameNow
<1>3. ForwardInv'
  BY <1>1, <1>2 DEF RunInv, ForwardInv, Forward
<1>4. OutcomeInv'
  BY <1>1 DEF RunInv, OutcomeInv
<1> QED
  BY <1>1, <1>3, <1>4, SameScheduleStep

LEMMA RunWrite == RunInv /\ Write => RunInv'
<1> SUFFICES ASSUME RunInv, Write
             PROVE  RunInv'
  OBVIOUS
<1>1. /\ UNCHANGED scheduleVars /\ pc = "write" /\ epoch' = epoch
      /\ \/ pc' = "write" /\ outcome' = outcome
         \/ pc' = "cleanUp" /\ outcome' = "ERROR"
  BY DEF Write, Proceed, Stop, runtimeVars
<1>2. status # "COMMITTED"
  BY <1>1 DEF RunInv, OutcomeInv
<1>3. status' # "COMMITTED"
  BY <1>2 DEF Write, Sink!SinkWrite, Sink!Refused, Sink!sinkVars
<1>4. groups' = groups /\ phase' = phase /\ Group' = Group /\ Runtime!Now' = Runtime!Now
  BY <1>1, SameGroups, SameNow
<1>5. ForwardInv'
  BY <1>1, <1>4 DEF RunInv, ForwardInv, Forward
<1>6. OutcomeInv'
  BY <1>1, <1>3 DEF RunInv, OutcomeInv
<1> QED
  BY <1>1, <1>5, <1>6, SameScheduleStep

LEMMA RunFinishGroup == RunInv /\ FinishGroup => RunInv'
<1> SUFFICES ASSUME RunInv, FinishGroup
             PROVE  RunInv'
  OBVIOUS
<1>1. /\ UNCHANGED scheduleVars /\ pc = "write" /\ epoch' = epoch /\ status' = status
      /\ status # "COMMITTED"
      /\ \/ pc' = "next" /\ outcome' = outcome
         \/ pc' = "cleanUp" /\ outcome' = "CANCELLED"
  BY DEF FinishGroup, Unless, Proceed, Stop, runtimeVars, sinkVars, RunInv, OutcomeInv
<1>2. groups' = groups /\ phase' = phase /\ Group' = Group /\ Runtime!Now' = Runtime!Now
  BY <1>1, SameGroups, SameNow
<1>3. ForwardInv'
  BY <1>1, <1>2 DEF RunInv, ForwardInv, Forward
<1>4. OutcomeInv'
  BY <1>1 DEF RunInv, OutcomeInv
<1> QED
  BY <1>1, <1>3, <1>4, SameScheduleStep

LEMMA RunEnd == RunInv /\ End => RunInv'
<1> SUFFICES ASSUME RunInv, End
             PROVE  RunInv'
  OBVIOUS
<1>1. /\ UNCHANGED scheduleVars /\ pc = "end" /\ status' = status /\ status # "COMMITTED"
      /\ \/ pc' = "close" /\ outcome' = outcome
         \/ pc' = "cleanUp" /\ outcome' \in {"ERROR", "CANCELLED"}
  BY DEF End, Unless, Proceed, Stop, sinkVars, RunInv, OutcomeInv
<1>2. groups' = groups /\ phase' = phase
  BY <1>1, SameGroups
<1>3. ForwardInv'
  BY <1>1, <1>2 DEF RunInv, ForwardInv, Forward
<1>4. OutcomeInv'
  BY <1>1 DEF RunInv, OutcomeInv
<1> QED
  BY <1>1, <1>3, <1>4, SameScheduleStep

LEMMA RunClose == RunInv /\ Close => RunInv'
<1> SUFFICES ASSUME RunInv, Close
             PROVE  RunInv'
  OBVIOUS
<1>1. /\ UNCHANGED scheduleVars /\ pc = "close" /\ pc' = "last" /\ status' = status
      /\ outcome' = outcome
  BY DEF Close, Proceed, sinkVars
<1>2. groups' = groups /\ phase' = phase
  BY <1>1, SameGroups
<1>3. ForwardInv'
  BY <1>1, <1>2 DEF RunInv, ForwardInv, Forward
<1>4. OutcomeInv'
  BY <1>1 DEF RunInv, OutcomeInv
<1> QED
  BY <1>1, <1>3, <1>4, SameScheduleStep

LEMMA RunCommit == RunInv /\ Commit => RunInv'
<1> SUFFICES ASSUME RunInv, Commit
             PROVE  RunInv'
  OBVIOUS
<1>1. /\ UNCHANGED scheduleVars /\ pc = "last"
      /\ \/ pc' = "cleanUp" /\ outcome' = "CANCELLED" /\ status' = status
         \/ pc' = "done" /\ outcome' = "COMPLETED" /\ status' = "COMMITTED"
  BY DEF Commit, Stop, sinkVars, Sink!SinkCommit
<1>2. groups' = groups /\ phase' = phase /\ phase = "exhausted" /\ Forward(Len(groups))
  BY <1>1, SameGroups DEF RunInv, ForwardInv
<1>3. ForwardInv'
  BY <1>1, <1>2 DEF ForwardInv
<1>4. OutcomeInv'
  BY <1>1, <1>2 DEF RunInv, OutcomeInv, Forward
<1> QED
  BY <1>1, <1>3, <1>4, SameScheduleStep

LEMMA RunCleanUp == RunInv /\ CleanUp => RunInv'
<1> SUFFICES ASSUME RunInv, CleanUp
             PROVE  RunInv'
  OBVIOUS
<1>1. /\ UNCHANGED scheduleVars /\ pc = "cleanUp" /\ pc' = "done" /\ outcome' = outcome
      /\ status # "COMMITTED"
  BY DEF CleanUp, RunInv, OutcomeInv
<1>2. status' # "COMMITTED"
  BY <1>1 DEF CleanUp, sinkVars, Sink!SinkAbort, Sink!sinkVars
<1>3. ForwardInv'
  BY <1>1 DEF ForwardInv
<1>4. OutcomeInv'
  BY <1>1, <1>2 DEF RunInv, OutcomeInv
<1> QED
  BY <1>1, <1>3, <1>4, SameScheduleStep

LEMMA RunStutters == RunInv /\ UNCHANGED vars => RunInv'
<1> SUFFICES ASSUME RunInv, UNCHANGED vars
             PROVE  RunInv'
  OBVIOUS
<1>1. /\ UNCHANGED scheduleVars /\ status' = status /\ pc' = pc /\ outcome' = outcome
      /\ epoch' = epoch /\ call' = call /\ answer' = answer
  BY DEF vars, runtimeVars, sinkVars
<1>2. groups' = groups /\ phase' = phase /\ Group' = Group /\ Runtime!Now' = Runtime!Now
  BY <1>1, SameGroups, SameNow
<1>3. ForwardInv' /\ OutcomeInv'
  BY <1>1, <1>2 DEF RunInv, ForwardInv, OutcomeInv, Forward
<1> QED
  BY <1>1, <1>3, SameScheduleStep

\* The schedule is consumed by index, and its groups are reached in the order of time.
THEOREM RunInvariant == Spec => []RunInv
<1>1. RunInv /\ [Next]_vars => RunInv'
  BY RunCancel, RunEnter, RunInitialize, RunBegin, RunPrime, RunNextGroup, RunEndOfSchedule,
     RunPropagate, RunMove, RunArrive, RunExecuteManeuver, RunTakeSamples, RunWrite,
     RunFinishGroup, RunEnd, RunClose, RunCommit, RunCleanUp, RunStutters
     DEF Next, Step, Terminated
<1> QED
  BY RunInit, <1>1, PTL DEF Spec

\* A manifest that goes back in time, though Core accepts it, is never committed.
THEOREM ReorderedIsRefused == Spec => []ReorderedNeverCommits
<1>1. RunInv => ReorderedNeverCommits
  <2> SUFFICES ASSUME RunInv, GoesBack
               PROVE  status # "COMMITTED" /\ (pc = "done" => outcome \in {"ERROR", "CANCELLED"})
    BY DEF ReorderedNeverCommits
  <2>1. status # "COMMITTED"
    <3> SUFFICES ASSUME status = "COMMITTED"
                 PROVE  FALSE
      OBVIOUS
    <3>1. PICK i \in Scheduled, j \in Scheduled :
            i < j /\ request.timeline[j].epoch < request.timeline[i].epoch
      BY DEF GoesBack
    <3>2. phase = "exhausted" /\ Forward(Len(groups)) /\ remaining = {}
      BY DEF RunInv, OutcomeInv, ConsumedInv
    <3>3. PICK k \in DOMAIN groups, l \in DOMAIN groups :
            i \in groups[k].maneuvers /\ j \in groups[l].maneuvers
      BY <3>2 DEF RunInv, ConsumedInv
    <3>4. /\ k \in 1 .. Len(groups) /\ l \in 1 .. Len(groups)
          /\ groups[k].epoch \in Int /\ groups[l].epoch \in Int
          /\ i \in Nat /\ j \in Nat
      <4>1. groups[k] \in GroupType /\ groups[l] \in GroupType
        BY DEF RunInv, ScheduleType
      <4>2. k \in 1 .. Len(groups) /\ l \in 1 .. Len(groups)
        BY DEF RunInv, ScheduleType
      <4> QED
        BY <3>3, <4>1, <4>2 DEF GroupType
    <3>5. /\ request.timeline[i].epoch = groups[k].epoch
          /\ request.timeline[j].epoch = groups[l].epoch
          /\ l < k => j < i
      BY <3>3 DEF RunInv, ConsumedInv
    <3>6. k < l => groups[k].epoch < groups[l].epoch
      BY <3>2, <3>4 DEF Forward
    <3> QED
      BY <3>1, <3>4, <3>5, <3>6
  <2> QED
    BY <2>1 DEF RunInv, OutcomeInv
<1> QED
  BY <1>1, RunInvariant, PTL

-------------------------------------------------------------------------------
\* Where the objects are.

LEMMA PathInit == Init => PathInv
BY DEF Init, PathInv, Runtime!Init, Live

LEMMA PathFrame ==
  ASSUME PathInv, UNCHANGED runtimeVars, pc' \in Live => pc \in Live,
         pc' # "moving" => pc # "moving" \/ call = "none",
         pc' \in {"entry", "initialize"} => pc \in {"entry", "initialize"}
  PROVE  PathInv'
<1>1. /\ position' = position /\ velocity' = velocity /\ epoch' = epoch /\ call' = call
      /\ target' = target /\ candidates' = candidates /\ pending' = pending
      /\ impulse' = impulse /\ moment' = moment
  BY DEF runtimeVars
<1>2. \A o, t : Path(o, t)' = Path(o, t)
  BY <1>1 DEF Path
<1>3. Runtime!Synchronized' = Runtime!Synchronized
  BY <1>1 DEF Runtime!Synchronized, Runtime!Now
<1> QED
  BY <1>1, <1>3 DEF PathInv, Path

LEMMA PathInitialize == PathInv /\ Initialize => PathInv'
<1> SUFFICES ASSUME PathInv, Initialize
             PROVE  PathInv'
  OBVIOUS
<1>1. /\ pc = "initialize" /\ pc' = "initialized" /\ call = "none" /\ call' = call
      /\ impulse' = Runtime!Zero /\ moment' = Runtime!Zero
      /\ position' = [o \in Runtime!Objects |-> Initial[o].position]
      /\ velocity' = [o \in Runtime!Objects |-> Initial[o].velocity]
      /\ epoch' = [o \in Runtime!Objects |-> Sync]
  BY DEF Initialize, Proceed, Runtime!Initialize, Runtime!callVars, Runtime!historyVars, PathInv
<1>2. \A o \in Runtime!Objects : Initial[o].position \in Int /\ Initial[o].velocity \in Int
  BY ObjectsAssumption DEF Runtime!Objects
<1>3. Sync \in Int
  BY ManifestAssumption
<1>4. Runtime!Zero \in [Runtime!Objects -> Int] /\ \A o \in Runtime!Objects : Runtime!Zero[o] = 0
  BY DEF Runtime!Zero
<1>5. ASSUME NEW o \in Runtime!Objects
      PROVE  velocity'[o] = Initial[o].velocity + impulse'[o] /\ position'[o] = Path(o, epoch[o])'
  <2>1. \A a, b, c \in Int : a = a + b * (c - c) + 0 * c - 0 /\ a = a + 0
    OBVIOUS
  <2> QED
    BY <1>1, <1>2, <1>3, <1>4, <2>1 DEF Path
<1>6. Runtime!Synchronized'
  BY <1>1 DEF Runtime!Synchronized, Runtime!Now
<1> QED
  BY <1>1, <1>2, <1>3, <1>4, <1>5, <1>6 DEF PathInv

LEMMA GroupTyped ==
  ASSUME RunInv, groups # <<>>
  PROVE  /\ Len(groups) \in 1 .. Len(groups) /\ Group = groups[Len(groups)]
         /\ Group \in GroupType /\ Group.epoch \in Nat /\ Group.epoch \in Int
         /\ Group.maneuvers \subseteq Scheduled /\ Group.maneuvers \subseteq Nat
<1>1. groups \in Seq(GroupType)
  BY DEF RunInv, ScheduleType
<1>2. Len(groups) \in 1 .. Len(groups) /\ Group = groups[Len(groups)]
  BY <1>1 DEF Group, Last
<1>3. Group \in GroupType
  BY <1>1, <1>2
<1>4. Group.maneuvers \subseteq Scheduled
  BY <1>1, <1>2 DEF RunInv, ConsumedInv
<1> QED
  BY <1>2, <1>3, <1>4 DEF GroupType

\* The candidates are the places on the paths at the target.
LEMMA PathPropagate == RunInv /\ PathInv /\ Propagate => PathInv'
<1> SUFFICES ASSUME RunInv, PathInv, Propagate
             PROVE  PathInv'
  OBVIOUS
<1>1. PICK t : t = Group.epoch
  OBVIOUS
<1>2. Runtime!Propagate(t) /\ pc = "propagate" /\ pc' = "moving"
  BY <1>1 DEF Propagate, Proceed
<1>3. t \in Int
  BY <1>1, <1>2, GroupTyped DEF RunInv, ForwardInv
<1>4. /\ position' = position /\ velocity' = velocity /\ epoch' = epoch
      /\ impulse' = impulse /\ moment' = moment /\ target' = t /\ call = "none"
      /\ \/ call' = "none"
         \/ /\ call' = "computed" /\ pending' = Runtime!Objects
            /\ candidates' = Runtime!Advanced(t) /\ Runtime!Synchronized
  BY <1>2 DEF Runtime!Propagate, Runtime!Answer, Runtime!stateVars
<1>5. /\ position \in [Runtime!Objects -> Int] /\ velocity \in [Runtime!Objects -> Int]
      /\ epoch \in [Runtime!Objects -> Int] /\ Runtime!Synchronized
      /\ impulse \in [Runtime!Objects -> Int] /\ moment \in [Runtime!Objects -> Int]
      /\ \A o \in Runtime!Objects :
            velocity[o] = Initial[o].velocity + impulse[o] /\ position[o] = Path(o, epoch[o])
  BY <1>2, <1>4 DEF PathInv, Live
<1>6. ASSUME NEW o \in Runtime!Objects
      PROVE  /\ position[o] + velocity[o] * (t - Runtime!Now) \in Int
             /\ position[o] + velocity[o] * (t - Runtime!Now) = Path(o, t)
  <2>1. PICK e \in Int : e = epoch[o]
    BY <1>5
  <2>2. Runtime!Now = e
    BY <1>5, <2>1 DEF Runtime!Synchronized
  <2>3. PICK x \in Int, v \in Int, i \in Int, m \in Int, s \in Int :
          x = Initial[o].position /\ v = Initial[o].velocity /\ i = impulse[o] /\ m = moment[o]
          /\ s = Sync
    BY <1>5, ObjectsAssumption, ManifestAssumption DEF Runtime!Objects
  <2>4. velocity[o] = v + i /\ position[o] = x + v * (e - s) + i * e - m
    BY <1>5, <2>1, <2>3 DEF Path
  <2>5. (x + v * (e - s) + i * e - m) + (v + i) * (t - e) = x + v * (t - s) + i * t - m
    <3>1. /\ v * (e - s) + v * (t - e) = v * (t - s) /\ i * e + i * (t - e) = i * t
          /\ (v + i) * (t - e) = v * (t - e) + i * (t - e)
      BY <1>3
    <3>2. /\ v * (e - s) \in Int /\ v * (t - e) \in Int /\ v * (t - s) \in Int
          /\ i * e \in Int /\ i * (t - e) \in Int /\ i * t \in Int /\ (v + i) * (t - e) \in Int
      BY <1>3
    <3> QED
      BY <3>1, <3>2
  <2>6. x + v * (t - s) + i * t - m \in Int
    BY <1>3
  <2>7. Path(o, t) = x + v * (t - s) + i * t - m
    BY <2>3 DEF Path
  <2>8. position[o] + velocity[o] * (t - Runtime!Now)
          = (x + v * (e - s) + i * e - m) + (v + i) * (t - e)
    BY <2>2, <2>4
  <2> QED
    BY <2>5, <2>6, <2>7, <2>8
<1>7. call' # "none" =>
        /\ candidates' \in [Runtime!Objects -> Int]
        /\ \A o \in Runtime!Objects :
             candidates'[o] = Path(o, target)' /\ (o \notin pending' => epoch'[o] = target')
  <2> SUFFICES ASSUME call' # "none"
               PROVE  /\ candidates' \in [Runtime!Objects -> Int]
                      /\ \A o \in Runtime!Objects :
                           /\ candidates'[o] = Path(o, target)'
                           /\ o \notin pending' => epoch'[o] = target'
    OBVIOUS
  <2>1. \A o \in Runtime!Objects : Path(o, target)' = Path(o, t)
    BY <1>4 DEF Path
  <2>2. candidates' = [o \in Runtime!Objects |-> position[o] + velocity[o] * (t - Runtime!Now)]
    BY <1>4 DEF Runtime!Advanced
  <2> QED
    BY <1>4, <1>6, <2>1, <2>2
<1>8. Runtime!Synchronized'
  BY <1>4, <1>5 DEF Runtime!Synchronized, Runtime!Now
<1>9. \A o \in Runtime!Objects : Path(o, epoch[o])' = Path(o, epoch[o])
  BY <1>4 DEF Path
<1> QED
  BY <1>2, <1>3, <1>4, <1>5, <1>7, <1>8, <1>9 DEF PathInv, Live

LEMMA PathMove == RunInv /\ PathInv /\ Move => PathInv'
<1> SUFFICES ASSUME RunInv, PathInv, Move
             PROVE  PathInv'
  OBVIOUS
<1>1. pc = "moving" /\ pc' = pc /\ pc \in Live /\ call # "none"
  BY DEF Move, Live
<1>2. /\ position \in [Runtime!Objects -> Int] /\ velocity \in [Runtime!Objects -> Int]
      /\ epoch \in [Runtime!Objects -> Int]
      /\ impulse \in [Runtime!Objects -> Int] /\ moment \in [Runtime!Objects -> Int]
      /\ \A o \in Runtime!Objects :
           velocity[o] = Initial[o].velocity + impulse[o] /\ position[o] = Path(o, epoch[o])
      /\ call # "updating" => Runtime!Synchronized
      /\ target \in Int /\ candidates \in [Runtime!Objects -> Int]
      /\ \A o \in Runtime!Objects :
           candidates[o] = Path(o, target) /\ (o \notin pending => epoch[o] = target)
  BY <1>1 DEF PathInv
<1>3. CASE Runtime!Decide
  <2>1. /\ position' = position /\ velocity' = velocity /\ epoch' = epoch /\ target' = target
        /\ candidates' = candidates /\ pending' = pending /\ impulse' = impulse
        /\ moment' = moment /\ call = "computed" /\ call' \in {"none", "updating"}
    BY <1>3 DEF Runtime!Decide, Runtime!Answer, Runtime!EndCall, Runtime!stateVars
  <2>2. Runtime!Synchronized'
    BY <1>2, <2>1 DEF Runtime!Synchronized, Runtime!Now
  <2>3. \A o \in Runtime!Objects : /\ Path(o, target)' = Path(o, target)
                                  /\ Path(o, epoch[o])' = Path(o, epoch[o])
    BY <2>1 DEF Path
  <2> QED
    BY <1>1, <1>2, <2>1, <2>2, <2>3 DEF PathInv
<1>4. ASSUME NEW u \in Runtime!Objects, Runtime!Update(u)
      PROVE  PathInv'
  <2>1. /\ position' = [position EXCEPT ![u] = candidates[u]] /\ velocity' = velocity
        /\ epoch' = [epoch EXCEPT ![u] = target] /\ pending' = pending \ {u}
        /\ target' = target /\ candidates' = candidates /\ impulse' = impulse
        /\ moment' = moment /\ call = "updating"
        /\ pending' = {} => call' = "none"
        /\ pending' # {} => call' = "updating"
    BY <1>4 DEF Runtime!Update, Runtime!historyVars
  <2>2. \A o \in Runtime!Objects : /\ Path(o, target)' = Path(o, target)
                                  /\ Path(o, epoch[o])' = Path(o, epoch'[o])
    BY <2>1 DEF Path
  <2>3. /\ position' \in [Runtime!Objects -> Int] /\ epoch' \in [Runtime!Objects -> Int]
    BY <1>2, <2>1
  <2>4. \A o \in Runtime!Objects : o \notin pending' => epoch'[o] = target
    BY <1>2, <2>1
  <2>5. \A o \in Runtime!Objects : position'[o] = Path(o, epoch[o])'
    BY <1>2, <2>1, <2>2
  <2>6. call' # "updating" => Runtime!Synchronized'
    <3> SUFFICES ASSUME call' # "updating"
                 PROVE  Runtime!Synchronized'
      OBVIOUS
    <3>1. \A o \in Runtime!Objects : epoch'[o] = target
      BY <2>1, <2>4
    <3>2. (CHOOSE o \in Runtime!Objects : TRUE) \in Runtime!Objects
      OBVIOUS
    <3> QED
      BY <3>1, <3>2 DEF Runtime!Synchronized, Runtime!Now
  <2> QED
    BY <1>1, <1>2, <2>1, <2>2, <2>3, <2>4, <2>5, <2>6 DEF PathInv
<1> QED
  BY <1>3, <1>4 DEF Move

LEMMA NextBurn ==
  ASSUME RunInv, pc = "maneuver", Rest # {}
  PROVE  /\ Min(Rest) \in Group.maneuvers /\ Min(Rest) \notin Current
         /\ Min(Rest) \in Scheduled /\ Min(Rest) \in DOMAIN request.burns
         /\ request.burns[Min(Rest)].spacecraft \in Spacecraft
         /\ request.burns[Min(Rest)].deltaV \in Int
         /\ request.timeline[Min(Rest)].epoch \in Nat
<1>1. groups # <<>>
  BY DEF RunInv, ForwardInv
<1>2. Rest \in SUBSET Nat
  BY <1>1, GroupTyped DEF Rest
<1>3. Min(Rest) \in Rest
  BY <1>2, LeastNumber DEF Min
<1>4. Min(Rest) \in Group.maneuvers /\ Min(Rest) \notin Current
  BY <1>3 DEF Rest, Current
<1>5. Min(Rest) \in Scheduled /\ Min(Rest) \in DOMAIN request.timeline
  BY <1>1, <1>4, GroupTyped DEF Scheduled
<1>6. request \in Manifests
  BY DEF RunInv, ScheduleType
<1> QED
  BY <1>4, <1>5, <1>6, ManifestAssumption, ManifestTyped

\* A burn bends the path where the object is.
LEMMA PathExecuteManeuver == RunInv /\ PathInv /\ ExecuteManeuver => PathInv'
<1> SUFFICES ASSUME RunInv, PathInv, ExecuteManeuver
             PROVE  PathInv'
  OBVIOUS
<1>1. PICK i : i = Min(Rest)
  OBVIOUS
<1>2. PICK m : m = Burn(i)
  OBVIOUS
<1>3. /\ pc = "maneuver" /\ Rest # {} /\ Runtime!Execute(m)
      /\ pc' \in {"maneuver", "cleanUp"} /\ call = "none"
  BY <1>1, <1>2 DEF ExecuteManeuver, Proceed, Stop, PathInv
<1>4. /\ m.spacecraft \in Runtime!Objects /\ m.deltaV \in Int /\ m.epoch \in Int
  BY <1>1, <1>2, <1>3, NextBurn DEF Burn, Runtime!Objects
<1>5. /\ position \in [Runtime!Objects -> Int] /\ velocity \in [Runtime!Objects -> Int]
      /\ epoch \in [Runtime!Objects -> Int] /\ Runtime!Synchronized
      /\ impulse \in [Runtime!Objects -> Int] /\ moment \in [Runtime!Objects -> Int]
      /\ \A o \in Runtime!Objects :
            velocity[o] = Initial[o].velocity + impulse[o] /\ position[o] = Path(o, epoch[o])
  BY <1>3 DEF PathInv, Live
<1>6. /\ call' = "none" /\ epoch' = epoch /\ position' = position
      /\ \/ velocity' = velocity /\ impulse' = impulse /\ moment' = moment
         \/ /\ Runtime!Accepted(m)
            /\ velocity' = [velocity EXCEPT ![m.spacecraft] = @ + m.deltaV]
            /\ impulse'  = [impulse  EXCEPT ![m.spacecraft] = @ + m.deltaV]
            /\ moment'   = [moment   EXCEPT ![m.spacecraft] = @ + m.deltaV * m.epoch]
  BY <1>3 DEF Runtime!Execute, Runtime!Answer, Runtime!stateVars, Runtime!callVars
<1>7. Runtime!Synchronized'
  BY <1>5, <1>6 DEF Runtime!Synchronized, Runtime!Now
<1>8. /\ velocity' \in [Runtime!Objects -> Int] /\ impulse' \in [Runtime!Objects -> Int]
      /\ moment' \in [Runtime!Objects -> Int]
  BY <1>4, <1>5, <1>6
<1>9. ASSUME NEW o \in Runtime!Objects
      PROVE  velocity'[o] = Initial[o].velocity + impulse'[o] /\ position'[o] = Path(o, epoch[o])'
  <2>1. CASE impulse'[o] = impulse[o] /\ moment'[o] = moment[o] /\ velocity'[o] = velocity[o]
    BY <1>5, <1>6, <2>1 DEF Path
  <2>2. CASE /\ Runtime!Accepted(m)
             /\ velocity'[o] = velocity[o] + m.deltaV /\ impulse'[o] = impulse[o] + m.deltaV
             /\ moment'[o] = moment[o] + m.deltaV * m.epoch
    <3>1. PICK e \in Int : e = epoch[o]
      BY <1>5
    <3>2. m.epoch = e
      BY <1>5, <2>2, <3>1 DEF Runtime!Accepted, Runtime!Synchronized
    <3>3. PICK x \in Int, v \in Int, p \in Int, q \in Int, s \in Int, d \in Int :
            x = Initial[o].position /\ v = Initial[o].velocity /\ p = impulse[o] /\ q = moment[o]
            /\ s = Sync /\ d = m.deltaV
      <4>1. /\ Initial[o].position \in Int /\ Initial[o].velocity \in Int
            /\ impulse[o] \in Int /\ moment[o] \in Int /\ Sync \in Int /\ m.deltaV \in Int
        BY <1>4, <1>5, ObjectsAssumption, ManifestAssumption DEF Runtime!Objects
      <4> QED
        BY <4>1, Zenon
    <3>4. position'[o] = x + v * (e - s) + p * e - q /\ velocity'[o] = (v + p) + d
      BY <1>5, <1>6, <2>2, <3>1, <3>3 DEF Path
    <3>5. Path(o, epoch[o])' = x + v * (e - s) + (p + d) * e - (q + d * e)
      BY <1>6, <2>2, <3>1, <3>2, <3>3 DEF Path
    <3>6. x + v * (e - s) + (p + d) * e - (q + d * e) = x + v * (e - s) + p * e - q
      <4>1. (p + d) * e = p * e + d * e /\ p * e \in Int /\ d * e \in Int /\ v * (e - s) \in Int
            /\ (p + d) * e \in Int
        OBVIOUS
      <4> QED
        BY <4>1
    <3> QED
      BY <2>2, <3>3, <3>4, <3>5, <3>6
  <2> QED
    BY <1>4, <1>5, <1>6, <2>1, <2>2
<1> QED
  BY <1>3, <1>5, <1>6, <1>7, <1>8, <1>9 DEF PathInv

LEMMA PathEnds == PathInv /\ (Close \/ CleanUp) => PathInv'
<1> SUFFICES ASSUME PathInv, Close \/ CleanUp
             PROVE  PathInv'
  OBVIOUS
<1>1. pc' \in {"last", "done"} /\ call = "none" /\ call' = call
  BY DEF Close, CleanUp, Proceed, Runtime!Close, Runtime!callVars, runtimeVars, PathInv
<1> QED
  BY <1>1 DEF PathInv, Live

LEMMA PathCancel == PathInv /\ Cancel => PathInv'
<1> SUFFICES ASSUME PathInv, Cancel
             PROVE  PathInv'
  OBVIOUS
<1>1. UNCHANGED runtimeVars /\ pc' = pc
  BY DEF Cancel, Runtime!Cancel, Runtime!stateVars, Runtime!callVars, Runtime!historyVars,
         runtimeVars
<1> QED
  BY <1>1, PathFrame

\* Between two operations of the runtime every object is on its path.
THEOREM PathInvariant == Spec => []PathInv
<1>1. ASSUME RunInv, PathInv, [Next]_vars
      PROVE  PathInv'
  <2>1. CASE \/ Enter \/ Begin \/ Prime \/ NextGroup \/ EndOfSchedule \/ Arrive
             \/ TakeSamples \/ Write \/ FinishGroup \/ End \/ Commit
    <3>1. UNCHANGED runtimeVars
      BY <2>1 DEF Enter, Begin, Prime, NextGroup, EndOfSchedule, Arrive, TakeSamples, Write,
                  FinishGroup, End, Commit
    <3>2. /\ pc' \in Live => pc \in Live
          /\ pc' # "moving" => pc # "moving" \/ call = "none"
          /\ pc' \in {"entry", "initialize"} => pc \in {"entry", "initialize"}
      BY <2>1 DEF Enter, Begin, Prime, NextGroup, EndOfSchedule, Arrive, TakeSamples, Write,
                  FinishGroup, End, Commit, Unless, Proceed, Stop, Live
    <3> QED
      BY <1>1, <3>1, <3>2, PathFrame
  <2>2. CASE UNCHANGED vars
    <3>1. UNCHANGED runtimeVars /\ pc' = pc
      BY <2>2 DEF vars
    <3> QED
      BY <1>1, <3>1, PathFrame
  <2> QED
    BY <1>1, <2>1, <2>2, PathInitialize, PathPropagate, PathMove, PathExecuteManeuver, PathEnds,
       PathCancel DEF Next, Step, Terminated
<1> QED
  BY PathInit, <1>1, RunInvariant, PTL DEF Spec

-------------------------------------------------------------------------------
\* What the runtime adds up.

\* The functions that are summed.
LEMMA BurnsTyped ==
  ASSUME RunInv
  PROVE  \E n \in Nat :
           /\ DOMAIN request.burns = 1 .. n /\ DOMAIN request.timeline = 1 .. n
           /\ Impulses \in [1 .. n -> Int] /\ Moments \in [1 .. n -> Int]
           /\ \A i \in 1 .. n : /\ Impulses[i] = request.burns[i].deltaV
                                /\ Moments[i] = Impulses[i] * request.timeline[i].epoch
                                /\ request.timeline[i].epoch \in Nat
           /\ \A o : BurnsOn(o) \subseteq 1 .. n
<1>1. request \in Manifests
  BY DEF RunInv, ScheduleType
<1>2. /\ request.timeline \in Seq(Schedule!Entries) /\ DOMAIN request.burns = DOMAIN request.timeline
      /\ \A i \in DOMAIN request.burns : request.burns[i].deltaV \in Int
  BY <1>1, ManifestAssumption
<1>3. \A i \in DOMAIN request.timeline : request.timeline[i].epoch \in Nat
  BY <1>1, ManifestTyped
<1>4. PICK n \in Nat : DOMAIN request.timeline = 1 .. n
  BY <1>2
<1>5. Impulses \in [1 .. n -> Int] /\ \A i \in 1 .. n : Impulses[i] = request.burns[i].deltaV
  BY <1>2, <1>4 DEF Impulses
<1>6. \A i \in 1 .. n : Impulses[i] * request.timeline[i].epoch \in Int
  BY <1>3, <1>4, <1>5
<1>7. /\ Moments \in [1 .. n -> Int]
      /\ \A i \in 1 .. n : Moments[i] = Impulses[i] * request.timeline[i].epoch
  BY <1>2, <1>4, <1>6 DEF Moments
<1> QED
  BY <1>2, <1>3, <1>4, <1>5, <1>7 DEF BurnsOn

LEMMA RanMore ==
  /\ Ran(-1) = {} /\ Ran(0) = {}
  /\ \A n \in Nat : Ran(n + 1) = Ran(n) \cup groups[n + 1].maneuvers
<1>1. 1 .. -1 = {} /\ 1 .. 0 = {}
  OBVIOUS
<1>2. \A n \in Nat : 1 .. n + 1 = (1 .. n) \cup {n + 1}
  OBVIOUS
<1>3. ASSUME NEW n \in Nat
      PROVE  Ran(n + 1) = Ran(n) \cup groups[n + 1].maneuvers
  <2>1. 1 .. n + 1 = (1 .. n) \cup {n + 1}
    BY <1>2
  <2> QED
    BY <2>1 DEF Ran
<1> QED
  BY <1>1, <1>3 DEF Ran

LEMMA BurnInit == Init => BurnInv
BY DEF Init, BurnInv, Live

\* The maneuvers of the group, none before the first.
Newest == IF groups = <<>> THEN {} ELSE Group.maneuvers

LEMMA BurnFrame ==
  ASSUME BurnInv, groups' = groups, request' = request, executed' = executed,
         impulse' = impulse, moment' = moment, pc' \in Live => pc \in Live,
         pc' \in {"entry", "initialize", "initialized", "propagate", "moving"} => executed = <<>>,
         pc' = "maneuver" => Current \subseteq Group.maneuvers,
         pc' \in {"next", "write", "end", "close", "last"} => Current = Newest
  PROVE  BurnInv'
<1>1. /\ Burned' = Burned /\ Current' = Current /\ Group' = Group
      /\ Impulses' = Impulses /\ Moments' = Moments
  BY DEF Burned, Ran, Current, Group, Impulses, Moments
<1>2. \A o : BurnsOn(o)' = BurnsOn(o)
  BY DEF BurnsOn
<1>3. pc' \in Live => \A o \in Runtime!Objects :
        /\ impulse'[o] = SumFunctionOnSet(Impulses, Burned \cap BurnsOn(o))
        /\ moment'[o] = SumFunctionOnSet(Moments, Burned \cap BurnsOn(o))
  BY DEF BurnInv
<1>4. executed' \in Seq(Execution)
  BY DEF BurnInv
<1> QED
  BY <1>1, <1>2, <1>3, <1>4 DEF BurnInv, Newest, BurnsOn

\* Nothing is executed yet.
LEMMA BurnInitialize == RunInv /\ PathInv /\ BurnInv /\ Initialize => BurnInv'
<1> SUFFICES ASSUME RunInv, PathInv, BurnInv, Initialize
             PROVE  BurnInv'
  OBVIOUS
<1>1. /\ pc = "initialize" /\ pc' = "initialized" /\ executed' = executed /\ groups' = groups
      /\ request' = request /\ impulse' = impulse /\ moment' = moment
      /\ impulse = Runtime!Zero /\ moment = Runtime!Zero
  BY DEF Initialize, Proceed, Runtime!Initialize, Runtime!historyVars, scheduleVars, recordVars,
         PathInv
<1>2. executed = <<>> /\ groups = <<>>
  BY <1>1 DEF BurnInv, RunInv, ForwardInv, ConsumedInv
<1>3. Current = {} /\ Burned = {}
  <2>1. Current = {}
    BY <1>2 DEF Current
  <2>2. Len(groups) - 1 = -1
    BY <1>2
  <2> QED
    BY <2>1, <2>2, RanMore DEF Burned
<1>4. /\ Current' = Current /\ Burned' = Burned /\ Impulses' = Impulses /\ Moments' = Moments
  BY <1>1 DEF Current, Burned, Ran, Impulses, Moments
<1>5. SumFunctionOnSet(Impulses, {}) = 0 /\ SumFunctionOnSet(Moments, {}) = 0
  <2>1. PICK n \in Nat : Impulses \in [1 .. n -> Int] /\ Moments \in [1 .. n -> Int]
    BY BurnsTyped
  <2> QED
    BY <2>1, SumTyped
<1>6. \A o : Burned' \cap BurnsOn(o)' = {}
  BY <1>3, <1>4
<1>7. \A o \in Runtime!Objects : impulse'[o] = 0 /\ moment'[o] = 0
  BY <1>1 DEF Runtime!Zero
<1> QED
  BY <1>1, <1>2, <1>4, <1>5, <1>6, <1>7 DEF BurnInv

\* The maneuvers of a group count as those of the groups before, once the next is taken.
LEMMA BurnNextGroup == RunInv /\ BurnInv /\ NextGroup => BurnInv'
<1> SUFFICES ASSUME RunInv, BurnInv, NextGroup
             PROVE  BurnInv'
  OBVIOUS
<1>1. PICK at \in Schedule!Candidates : Schedule!YieldGroup(at)
  BY DEF NextGroup
<1>2. /\ pc = "next" /\ pc' \in {"propagate", "cleanUp"} /\ executed' = <<>>
      /\ impulse' = impulse /\ moment' = moment
  BY DEF NextGroup, Unless, Proceed, Stop, runtimeVars
<1>3. request' = request /\ \E g \in GroupType : groups' = Append(groups, g)
  BY <1>1, YieldConsumes DEF RunInv
<1>4. PICK g \in GroupType : groups' = Append(groups, g)
  BY <1>3
<1>5. PICK n \in Nat : n = Len(groups) /\ groups \in Seq(GroupType)
  BY DEF RunInv, ScheduleType
<1>6. Len(groups') - 1 = n /\ \A k \in 1 .. n : groups'[k] = groups[k]
  BY <1>4, <1>5
<1>7. Ran(n)' = Ran(n)
  BY <1>6 DEF Ran
<1>8. Burned = Ran(n)
  <2>1. CASE groups = <<>>
    <3>1. n = 0 /\ n - 1 = -1 /\ Current = {}
      BY <1>2, <1>5, <2>1 DEF BurnInv
    <3> QED
      BY <1>5, <3>1, RanMore DEF Burned
  <2>2. CASE groups # <<>>
    <3>1. n - 1 \in Nat /\ (n - 1) + 1 = n /\ Group = groups[n]
      BY <1>5, <2>2 DEF Group, Last
    <3>2. Current = groups[n].maneuvers
      BY <1>2, <2>2, <3>1 DEF BurnInv
    <3> QED
      BY <1>5, <3>1, <3>2, RanMore DEF Burned
  <2> QED
    BY <2>1, <2>2
<1>9. Current' = {} /\ Burned' = Burned
  <2>1. Current' = {}
    BY <1>2 DEF Current
  <2>2. Burned' = Ran(n)'
    BY <1>6, <2>1 DEF Burned, Ran
  <2> QED
    BY <1>7, <1>8, <2>1, <2>2
<1>10. /\ Impulses' = Impulses /\ Moments' = Moments /\ \A o : BurnsOn(o)' = BurnsOn(o)
  BY <1>3 DEF Impulses, Moments, BurnsOn
<1>11. \A o \in Runtime!Objects :
         /\ impulse'[o] = SumFunctionOnSet(Impulses, Burned \cap BurnsOn(o))
         /\ moment'[o] = SumFunctionOnSet(Moments, Burned \cap BurnsOn(o))
  BY <1>2 DEF BurnInv, Live
<1>12. /\ executed' \in Seq(Execution)
       /\ pc' \notin {"maneuver", "next", "write", "end", "close", "last"}
  BY <1>2
<1> QED
  BY <1>2, <1>9, <1>10, <1>11, <1>12 DEF BurnInv

\* A maneuver is executed once.
LEMMA BurnsOnce ==
  ASSUME RunInv, pc = "maneuver", Rest # {}
  PROVE  Min(Rest) \notin Burned
<1>1. groups # <<>>
  BY DEF RunInv, ForwardInv
<1>2. Min(Rest) \in Group.maneuvers /\ Min(Rest) \notin Current /\ Min(Rest) \in Nat
  BY <1>1, NextBurn, GroupTyped
<1>3. ASSUME NEW l \in 1 .. Len(groups) - 1, Min(Rest) \in groups[l].maneuvers
      PROVE  FALSE
  <2>1. groups \in Seq(GroupType)
    BY DEF RunInv, ScheduleType
  <2>2. /\ l \in DOMAIN groups /\ Len(groups) \in DOMAIN groups /\ l < Len(groups)
        /\ Group = groups[Len(groups)]
    BY <1>1, <2>1 DEF Group, Last
  <2>3. Min(Rest) < Min(Rest)
    BY <1>2, <1>3, <2>2 DEF RunInv, ConsumedInv
  <2> QED
    BY <1>2, <2>3
<1> QED
  BY <1>2, <1>3 DEF Burned, Ran

LEMMA BurnExecuteManeuver == RunInv /\ PathInv /\ BurnInv /\ ExecuteManeuver => BurnInv'
<1> SUFFICES ASSUME RunInv, PathInv, BurnInv, ExecuteManeuver
             PROVE  BurnInv'
  OBVIOUS
<1>1. PICK i : i = Min(Rest)
  OBVIOUS
<1>2. PICK m : m = Burn(i)
  OBVIOUS
<1>3. PICK c : c = request.burns[i].spacecraft
  OBVIOUS
<1>4. /\ pc = "maneuver" /\ Rest # {} /\ Runtime!Execute(m) /\ groups' = groups
      /\ request' = request
      /\ \/ /\ answer' = "done" /\ pc' = "maneuver"
            /\ executed' = Append(executed, [entry |-> i, epoch |-> Group.epoch,
                                             before |-> velocity[c], after |-> velocity'[c]])
         \/ pc' = "cleanUp" /\ executed' = executed
  BY <1>1, <1>2, <1>3 DEF ExecuteManeuver, Proceed, Stop, scheduleVars
<1>5. /\ i \in Group.maneuvers /\ i \notin Burned /\ i \in Nat /\ i \in DOMAIN request.burns
      /\ c \in Runtime!Objects /\ Group.epoch \in Nat
  BY <1>1, <1>3, <1>4, NextBurn, BurnsOnce, GroupTyped DEF RunInv, ForwardInv, Runtime!Objects
<1>6. executed \in Seq(Execution) /\ Current \subseteq Group.maneuvers
  BY <1>4 DEF BurnInv
<1>7. CASE pc' = "cleanUp" /\ executed' = executed
  BY <1>6, <1>7 DEF BurnInv, Live
<1>8. CASE /\ answer' = "done" /\ pc' = "maneuver"
           /\ executed' = Append(executed, [entry |-> i, epoch |-> Group.epoch,
                                            before |-> velocity[c], after |-> velocity'[c]])
  <2>1. /\ velocity' = [velocity EXCEPT ![m.spacecraft] = @ + m.deltaV]
        /\ impulse'  = [impulse  EXCEPT ![m.spacecraft] = @ + m.deltaV]
        /\ moment'   = [moment   EXCEPT ![m.spacecraft] = @ + m.deltaV * m.epoch]
    BY <1>4, <1>8 DEF Runtime!Execute, Runtime!Answer
  <2>2. m.spacecraft = c /\ m.deltaV = request.burns[i].deltaV /\ m.epoch = request.timeline[i].epoch
    BY <1>2, <1>3 DEF Burn
  <2>3. /\ velocity \in [Runtime!Objects -> Int] /\ impulse \in [Runtime!Objects -> Int]
        /\ moment \in [Runtime!Objects -> Int]
    BY <1>4 DEF PathInv, Live
  <2>4. PICK n \in Nat :
          /\ DOMAIN request.burns = 1 .. n
          /\ Impulses \in [1 .. n -> Int] /\ Moments \in [1 .. n -> Int]
          /\ \A k \in 1 .. n : /\ Impulses[k] = request.burns[k].deltaV
                               /\ Moments[k] = Impulses[k] * request.timeline[k].epoch
          /\ \A o : BurnsOn(o) \subseteq 1 .. n
    BY BurnsTyped
  <2>5. i \in 1 .. n /\ Impulses[i] = m.deltaV /\ Moments[i] = m.deltaV * m.epoch
        /\ Impulses[i] \in Int /\ Moments[i] \in Int
    BY <1>5, <2>2, <2>4
  <2>6. velocity[c] \in Int /\ velocity'[c] \in Int
    BY <1>5, <2>1, <2>2, <2>3, <2>5
  <2>7. executed' \in Seq(Execution)
    <3>1. [entry |-> i, epoch |-> Group.epoch,
           before |-> velocity[c], after |-> velocity'[c]] \in Execution
      BY <1>5, <2>6 DEF Execution
    <3> QED
      BY <1>6, <1>8, <3>1
  <2>8. Current' = Current \cup {i}
    <3>1. /\ Len(executed) \in Nat /\ DOMAIN executed = 1 .. Len(executed)
          /\ DOMAIN executed' = 1 .. Len(executed) + 1
          /\ executed'[Len(executed) + 1].entry = i
          /\ \A k \in 1 .. Len(executed) : executed'[k] = executed[k]
      BY <1>6, <1>8
    <3> QED
      BY <3>1 DEF Current
  <2>9. Burned' = Burned \cup {i} /\ Group' = Group
    BY <1>4, <2>8 DEF Burned, Ran, Group
  <2>10. Impulses' = Impulses /\ Moments' = Moments /\ \A o : BurnsOn(o)' = BurnsOn(o)
    BY <1>4 DEF Impulses, Moments, BurnsOn
  <2>11. ASSUME NEW o \in Runtime!Objects
         PROVE  /\ impulse'[o] = SumFunctionOnSet(Impulses, Burned' \cap BurnsOn(o))
                /\ moment'[o] = SumFunctionOnSet(Moments, Burned' \cap BurnsOn(o))
    <3>1. /\ impulse[o] = SumFunctionOnSet(Impulses, Burned \cap BurnsOn(o))
          /\ moment[o] = SumFunctionOnSet(Moments, Burned \cap BurnsOn(o))
      BY <1>4 DEF BurnInv, Live
    <3>2. CASE o = c
      <4>1. i \in BurnsOn(o) /\ Burned' \cap BurnsOn(o) = (Burned \cap BurnsOn(o)) \cup {i}
        BY <1>3, <1>5, <2>9, <3>2 DEF BurnsOn
      <4>2. Burned \cap BurnsOn(o) \in SUBSET (1 .. n) /\ i \notin Burned \cap BurnsOn(o)
        BY <1>5, <2>4
      <4>3. /\ SumFunctionOnSet(Impulses, (Burned \cap BurnsOn(o)) \cup {i})
                 = SumFunctionOnSet(Impulses, Burned \cap BurnsOn(o)) + Impulses[i]
            /\ SumFunctionOnSet(Moments, (Burned \cap BurnsOn(o)) \cup {i})
                 = SumFunctionOnSet(Moments, Burned \cap BurnsOn(o)) + Moments[i]
        BY <2>4, <2>5, <4>2, SumMore
      <4>4. impulse'[o] = impulse[o] + m.deltaV /\ moment'[o] = moment[o] + m.deltaV * m.epoch
        BY <2>1, <2>2, <2>3, <3>2
      <4> QED
        BY <2>5, <3>1, <4>1, <4>3, <4>4
    <3>3. CASE o # c
      <4>1. Burned' \cap BurnsOn(o) = Burned \cap BurnsOn(o)
        BY <1>3, <2>9, <3>3 DEF BurnsOn
      <4>2. impulse'[o] = impulse[o] /\ moment'[o] = moment[o]
        BY <2>1, <2>2, <2>3, <3>3
      <4> QED
        BY <3>1, <4>1, <4>2
    <3> QED
      BY <3>2, <3>3
  <2> QED
    BY <1>5, <1>6, <1>8, <2>7, <2>8, <2>9, <2>10, <2>11 DEF BurnInv
<1> QED
  BY <1>4, <1>7, <1>8

\* When the records of the group are taken, all its maneuvers are executed.
LEMMA BurnTakeSamples == RunInv /\ BurnInv /\ TakeSamples => BurnInv'
<1> SUFFICES ASSUME RunInv, BurnInv, TakeSamples
             PROVE  BurnInv'
  OBVIOUS
<1>1. /\ pc = "maneuver" /\ pc' = "write" /\ Rest = {} /\ groups' = groups
      /\ request' = request /\ executed' = executed /\ impulse' = impulse /\ moment' = moment
  BY DEF TakeSamples, Proceed, scheduleVars, runtimeVars
<1>2. groups # <<>> /\ Current \subseteq Group.maneuvers
  BY <1>1 DEF RunInv, ForwardInv, BurnInv
<1>3. Current = Newest
  BY <1>1, <1>2 DEF Rest, Current, Newest
<1> QED
  BY <1>1, <1>3, BurnFrame DEF Live

LEMMA BurnEnds == BurnInv /\ (Close \/ CleanUp) => BurnInv'
<1> SUFFICES ASSUME BurnInv, Close \/ CleanUp
             PROVE  BurnInv'
  OBVIOUS
<1>1. /\ pc \in {"close", "cleanUp"} /\ pc' = (IF pc = "close" THEN "last" ELSE "done")
      /\ groups' = groups /\ request' = request /\ executed' = executed
      /\ impulse' = impulse /\ moment' = moment
  BY DEF Close, CleanUp, Proceed, Runtime!Close, Runtime!historyVars, runtimeVars, scheduleVars,
         recordVars
<1>2. pc' = "last" => Current = Newest
  BY <1>1 DEF BurnInv, Newest
<1> QED
  BY <1>1, <1>2, BurnFrame DEF Live

\* What the runtime adds up is the sum over the maneuvers executed, each once.
THEOREM BurnInvariant == Spec => []BurnInv
<1>1. ASSUME RunInv, PathInv, BurnInv, [Next]_vars
      PROVE  BurnInv'
  <2>1. CASE \/ Cancel \/ Enter \/ Begin \/ Prime \/ EndOfSchedule \/ Propagate \/ Move \/ Arrive
             \/ Write \/ FinishGroup \/ End \/ Commit \/ UNCHANGED vars
    <3>1. executed' = executed /\ impulse' = impulse /\ moment' = moment
      <4>1. CASE \/ Cancel \/ Propagate \/ Move
        BY <4>1 DEF Cancel, Propagate, Move, Runtime!Cancel, Runtime!Propagate, Runtime!Decide,
                    Runtime!Update, Runtime!EndCall, Runtime!Answer, Runtime!historyVars, recordVars
      <4> QED
        BY <2>1, <4>1 DEF Enter, Begin, Prime, EndOfSchedule, Arrive, Write, FinishGroup, End,
                          Commit, recordVars, runtimeVars, vars
    <3>2. groups' = groups /\ request' = request
      BY <2>1 DEF Cancel, Enter, Begin, Prime, EndOfSchedule, Propagate, Move, Arrive, Write,
                  FinishGroup, End, Commit, scheduleVars, vars, Schedule!Prime, Schedule!Exhaust
    <3>3. /\ pc' \in Live => pc \in Live
          /\ pc' = "maneuver" => pc \in {"maneuver", "moving"}
          /\ pc' \in {"entry", "initialize", "initialized", "propagate", "moving"} =>
               pc \in {"entry", "initialize", "initialized", "propagate", "moving"}
          /\ pc' \in {"next", "write", "end", "close", "last"} =>
               pc \in {"initialized", "next", "write", "end", "close", "last"}
      BY <2>1 DEF Cancel, Enter, Begin, Prime, EndOfSchedule, Propagate, Move, Arrive, Write,
                  FinishGroup, End, Commit, Unless, Proceed, Stop, Live, vars
    <3>4. pc' = "maneuver" => Current \subseteq Group.maneuvers
      BY <1>1, <3>3 DEF BurnInv, Current
    <3>5. pc = "initialized" => Current = Newest
      BY <1>1 DEF BurnInv, RunInv, ForwardInv, ConsumedInv, Current, Newest
    <3>6. pc' \in {"next", "write", "end", "close", "last"} => Current = Newest
      BY <1>1, <3>3, <3>5 DEF BurnInv, Newest
    <3>7. pc' \in {"entry", "initialize", "initialized", "propagate", "moving"} => executed = <<>>
      BY <1>1, <3>3 DEF BurnInv
    <3> QED
      BY <1>1, <3>1, <3>2, <3>3, <3>4, <3>6, <3>7, BurnFrame
  <2> QED
    BY <1>1, <2>1, BurnInitialize, BurnNextGroup, BurnExecuteManeuver, BurnTakeSamples, BurnEnds
       DEF Next, Step, Terminated
<1> QED
  BY BurnInit, <1>1, RunInvariant, PathInvariant, PTL DEF Spec

-------------------------------------------------------------------------------
\* What is in the output.

LEMMA OutputInit == Init => OutputInv
BY DEF Init, OutputInv, Sink!SinkInit, Working, Live

LEMMA OutputFrame ==
  ASSUME OutputInv, groups' = groups, request' = request, stored' = stored,
         unwritten' = unwritten, Reported' = Reported,
         pc' \in {"entry", "initialize"} => pc \in {"entry", "initialize"},
         pc' \in Working \/ status' = "COMMITTED" => pc \in Working \/ status = "COMMITTED",
         pc' # "write" => pc # "write" \/ unwritten = <<>>
  PROVE  OutputInv'
<1>1. Impulses' = Impulses /\ Moments' = Moments
  BY DEF Impulses, Moments
<1>2. \A o : BurnsOn(o)' = BurnsOn(o)
  BY DEF BurnsOn
<1>3. \A k : Ran(k)' = Ran(k)
  BY DEF Ran
<1>4. \A s : After(s)' = After(s)
  BY <1>1, <1>2, <1>3 DEF After
<1>5. \A c : Sent(c)' = Sent(c)
  BY DEF Sent
<1>6. OutputType => OutputType'
  BY DEF OutputType
<1>7. Ran(Reported)' = Ran(Reported)
  BY <1>3 DEF Ran
<1>8. OutputKept => OutputKept'
  BY <1>4, <1>5, <1>7 DEF OutputKept
<1> QED
  BY <1>6, <1>8 DEF OutputInv

\* The output no longer counts.
LEMMA OutputLost ==
  ASSUME pc' \in {"cleanUp", "done"}, status' # "COMMITTED"
  PROVE  OutputInv'
BY DEF OutputInv, Working, Live

LEMMA EndsLost == RunInv /\ RunInv' /\ CleanUp => OutputInv'
<1> SUFFICES ASSUME RunInv, RunInv', CleanUp
             PROVE  OutputInv'
  OBVIOUS
<1>1. pc' = "done" /\ outcome' = outcome /\ outcome # "COMPLETED"
  BY DEF CleanUp, RunInv, OutcomeInv
<1> QED
  BY <1>1, OutputLost DEF RunInv, OutcomeInv

LEMMA OutputInitialize == RunInv /\ OutputInv /\ Initialize => OutputInv'
<1> SUFFICES ASSUME RunInv, OutputInv, Initialize
             PROVE  OutputInv'
  OBVIOUS
<1>1. /\ pc = "initialize" /\ pc' = "initialized" /\ stored' = stored /\ groups' = groups
      /\ unwritten' = unwritten
  BY DEF Initialize, Proceed, scheduleVars, recordVars, sinkVars
<1>2. groups' = <<>> /\ stored' = Sink!Empty /\ unwritten' = <<>>
  BY <1>1 DEF OutputInv, RunInv, ForwardInv, ConsumedInv
<1>3. /\ DOMAIN stored' = Sink!Channels /\ stored'[Sampled] = <<>>
      /\ stored'["truth_maneuvers"] = <<>>
  BY <1>2 DEF Sink!Empty, Sink!Channels, Sampled
<1>4. OutputType'
  BY <1>2, <1>3 DEF OutputType
<1>5. Sent(Sampled)' = {} /\ Sent("truth_maneuvers")' = {}
  BY <1>2, <1>3 DEF Sent, Payloads, ToSet
<1>6. Reported' = 0 /\ Ran(Reported)' = {}
  BY <1>1, <1>2 DEF Reported, Ran
<1>7. 1 .. Reported' = {}
  BY <1>6
<1>8. OutputKept'
  BY <1>5, <1>6, <1>7 DEF OutputKept
<1> QED
  BY <1>1, <1>4, <1>8 DEF OutputInv

\* The next group is not reported yet.
LEMMA OutputNextGroup == RunInv /\ OutputInv /\ NextGroup => OutputInv'
<1> SUFFICES ASSUME RunInv, OutputInv, NextGroup
             PROVE  OutputInv'
  OBVIOUS
<1>1. PICK at \in Schedule!Candidates : Schedule!YieldGroup(at)
  BY DEF NextGroup
<1>2. /\ pc = "next" /\ pc' \in {"propagate", "cleanUp"} /\ stored' = stored
      /\ unwritten' = unwritten /\ status' = status /\ status # "COMMITTED"
  BY DEF NextGroup, Unless, Proceed, Stop, sinkVars, RunInv, OutcomeInv
<1>3. request' = request /\ \E g \in GroupType : groups' = Append(groups, g)
  BY <1>1, YieldConsumes DEF RunInv
<1>4. PICK g \in GroupType : groups' = Append(groups, g)
  BY <1>3
<1>5. PICK n \in Nat : n = Len(groups) /\ groups \in Seq(GroupType) /\ DOMAIN groups = 1 .. n
  BY DEF RunInv, ScheduleType
<1>6. /\ Len(groups') - 1 = n /\ \A k \in 1 .. n : groups'[k] = groups[k]
      /\ DOMAIN groups' = 1 .. n + 1
  BY <1>4, <1>5
<1>7. \A k \in 1 .. n : Ran(k)' = Ran(k)
  BY <1>5, <1>6 DEF Ran
<1>8. Ran(n)' = Ran(n)
  BY <1>6 DEF Ran
<1>9. CASE pc' = "cleanUp"
  BY <1>2, <1>9, OutputLost
<1>10. CASE pc' = "propagate"
  <2>1. OutputType /\ OutputKept
    BY <1>2 DEF OutputInv, Working, Live
  <2>2. OutputType'
    BY <1>2, <1>10, <2>1 DEF OutputType
  <2>3. \A c : Sent(c)' = Sent(c)
    BY <1>2 DEF Sent
  <2>4. Reported = n /\ Reported' = n
    BY <1>2, <1>5, <1>6, <1>10 DEF Reported
  <2>5. Impulses' = Impulses /\ Moments' = Moments /\ \A o : BurnsOn(o)' = BurnsOn(o)
    BY <1>3 DEF Impulses, Moments, BurnsOn
  <2>6. ASSUME NEW s, After(s)
        PROVE  After(s)'
    <3>1. PICK k \in 1 .. n :
            /\ s.epoch = groups[k].epoch
            /\ s.velocity = Initial[s.object].velocity
                            + SumFunctionOnSet(Impulses, Ran(k) \cap BurnsOn(s.object))
            /\ s.position = Initial[s.object].position + Initial[s.object].velocity * (s.epoch - Sync)
                            + SumFunctionOnSet(Impulses, Ran(k) \cap BurnsOn(s.object)) * s.epoch
                            - SumFunctionOnSet(Moments, Ran(k) \cap BurnsOn(s.object))
      BY <1>5, <2>6 DEF After
    <3>2. k \in DOMAIN groups' /\ Ran(k)' = Ran(k) /\ groups'[k] = groups[k]
      BY <1>6, <1>7
    <3> QED
      BY <2>5, <3>1, <3>2 DEF After
  <2>7. Ran(Reported)' = Ran(n)
    BY <1>8, <2>4 DEF Ran
  <2>8. OutputKept'
    BY <1>6, <2>1, <2>3, <2>4, <2>6, <2>7 DEF OutputKept
  <2> QED
    BY <1>10, <2>2, <2>8 DEF OutputInv
<1> QED
  BY <1>2, <1>9, <1>10

\* The state of object o in a snapshot.
State(o) == [object |-> o, epoch |-> epoch[o], position |-> position[o], velocity |-> velocity[o]]

LEMMA SnapshotOfAll ==
  ASSUME PathInv, pc = "maneuver"
  PROVE  Snapshot \in Seq(Sample) /\ ToSet(Snapshot) = {State(o) : o \in Runtime!Objects}
<1>1. PICK q : q = SetToSeq(Runtime!Objects)
  OBVIOUS
<1>2. q \in Seq(Runtime!Objects) /\ ToSet(q) = Runtime!Objects
  BY <1>1, ObjectsAssumption, SetInOrder DEF Runtime!Objects
<1>3. Snapshot = [i \in DOMAIN q |-> State(q[i])]
  BY <1>1 DEF Snapshot, TruthStates, State
<1>4. \A o \in Runtime!Objects : State(o) \in Sample
  BY DEF PathInv, Live, State, Sample
<1>5. PICK n \in Nat : DOMAIN q = 1 .. n /\ \A i \in 1 .. n : q[i] \in Runtime!Objects
  BY <1>2
<1>6. Snapshot \in Seq(Sample)
  <2>1. \A i \in 1 .. n : State(q[i]) \in Sample
    BY <1>4, <1>5
  <2> QED
    BY <1>3, <1>5, <2>1
<1>7. ToSet(Snapshot) = {State(o) : o \in Runtime!Objects}
  BY <1>2, <1>3, <1>5 DEF ToSet
<1> QED
  BY <1>6, <1>7

\* A sample is the state after the maneuvers of its group.
LEMMA SampledAfter ==
  ASSUME RunInv, PathInv, BurnInv, pc = "maneuver", Rest = {}
  PROVE  /\ Current = Group.maneuvers
         /\ \A o \in Runtime!Objects : epoch[o] = Group.epoch /\ After(State(o))
<1>1. groups # <<>> /\ Current \subseteq Group.maneuvers /\ Runtime!Now = Group.epoch
  BY DEF RunInv, ForwardInv, BurnInv
<1>2. Current = Group.maneuvers
  BY <1>1 DEF Rest, Current
<1>3. PICK n \in Nat \ {0} : n = Len(groups) /\ n \in DOMAIN groups /\ Group = groups[n]
  BY <1>1, GroupTyped DEF RunInv, ScheduleType
<1>4. Burned = Ran(n)
  <2>1. n - 1 \in Nat /\ (n - 1) + 1 = n
    OBVIOUS
  <2> QED
    BY <1>2, <1>3, <2>1, RanMore DEF Burned
<1>5. ASSUME NEW o \in Runtime!Objects
      PROVE  epoch[o] = Group.epoch /\ After(State(o))
  <2>1. epoch[o] = Group.epoch
    BY <1>1 DEF PathInv, Live, Runtime!Synchronized
  <2>2. /\ velocity[o] = Initial[o].velocity + impulse[o] /\ position[o] = Path(o, epoch[o])
    BY DEF PathInv, Live
  <2>3. /\ impulse[o] = SumFunctionOnSet(Impulses, Ran(n) \cap BurnsOn(o))
        /\ moment[o] = SumFunctionOnSet(Moments, Ran(n) \cap BurnsOn(o))
    BY <1>4 DEF BurnInv, Live
  <2>4. /\ State(o).object = o /\ State(o).epoch = epoch[o] /\ State(o).position = position[o]
        /\ State(o).velocity = velocity[o]
    BY DEF State
  <2> QED
    BY <1>3, <2>1, <2>2, <2>3, <2>4 DEF After, Path
<1> QED
  BY <1>2, <1>5

\* The records of one channel among others.
LEMMA RecordsOfOne ==
  ASSUME NEW c, NEW A, NEW R, \A x \in A : <<c, x>> \in R,
         \A r \in R : r[1] = c => \E x \in A : r = <<c, x>>
  PROVE  Payloads(R, c) = A
<1>1. ASSUME NEW x \in A
      PROVE  x \in Payloads(R, c)
  <2>1. <<c, x>> \in R /\ <<c, x>>[1] = c /\ <<c, x>>[2] = x
    OBVIOUS
  <2> QED
    BY <2>1 DEF Payloads
<1>2. ASSUME NEW r \in R, r[1] = c
      PROVE  r[2] \in A
  BY <1>2
<1> QED
  BY <1>1, <1>2 DEF Payloads

LEMMA OutputTakeSamples ==
  RunInv /\ PathInv /\ BurnInv /\ OutputInv /\ TakeSamples => OutputInv'
<1> SUFFICES ASSUME RunInv, PathInv, BurnInv, OutputInv, TakeSamples
             PROVE  OutputInv'
  OBVIOUS
<1>1. PICK a, b :
        /\ a = [i \in DOMAIN executed |-> <<"truth_maneuvers", executed[i]>>]
        /\ b = IF Group.products = {} THEN <<>>
               ELSE [i \in DOMAIN Snapshot |-> <<Sampled, Snapshot[i]>>]
  OBVIOUS
<1>2. /\ pc = "maneuver" /\ pc' = "write" /\ Rest = {} /\ groups' = groups
      /\ request' = request /\ stored' = stored /\ unwritten' = a \o b
  BY <1>1 DEF TakeSamples, Proceed, scheduleVars, sinkVars
<1>3. OutputType /\ OutputKept /\ unwritten = <<>>
  BY <1>2 DEF OutputInv, OutputType, Working, Live
<1>4. PICK n \in Nat \ {0} : /\ n = Len(groups) /\ Group = groups[n] /\ Group \in GroupType
                              /\ n - 1 \in Nat /\ (n - 1) + 1 = n
  BY <1>2, GroupTyped DEF RunInv, ForwardInv, ScheduleType
<1>5. executed \in Seq(Execution)
  BY DEF BurnInv
<1>6. a \in Seq(Records) /\ ToSet(a) = {<<"truth_maneuvers", x>> : x \in ToSet(executed)}
  <2>1. PICK l \in Nat : DOMAIN executed = 1 .. l /\ \A i \in 1 .. l : executed[i] \in Execution
    BY <1>5
  <2>2. \A i \in 1 .. l : <<"truth_maneuvers", executed[i]>> \in Records
    BY <2>1 DEF Records
  <2>3. a \in Seq(Records)
    BY <1>1, <2>1, <2>2
  <2> QED
    BY <1>1, <2>1, <2>3 DEF ToSet
<1>7. Snapshot \in Seq(Sample) /\ ToSet(Snapshot) = {State(o) : o \in Runtime!Objects}
  BY <1>2, SnapshotOfAll
<1>8. /\ b \in Seq(Records)
      /\ ToSet(b) = IF Group.products = {} THEN {}
                    ELSE {<<Sampled, x>> : x \in ToSet(Snapshot)}
  <2>1. CASE Group.products = {}
    BY <1>1, <2>1 DEF ToSet
  <2>2. CASE Group.products # {}
    <3>1. PICK l \in Nat : DOMAIN Snapshot = 1 .. l /\ \A i \in 1 .. l : Snapshot[i] \in Sample
      BY <1>7
    <3>2. \A i \in 1 .. l : <<Sampled, Snapshot[i]>> \in Records
      BY <3>1 DEF Records
    <3>3. b = [i \in 1 .. l |-> <<Sampled, Snapshot[i]>>]
      BY <1>1, <2>2, <3>1
    <3>4. b \in Seq(Records)
      BY <3>2, <3>3
    <3> QED
      BY <2>2, <3>1, <3>3, <3>4 DEF ToSet
  <2> QED
    BY <2>1, <2>2
<1>9. unwritten' \in Seq(Records) /\ ToSet(unwritten') = ToSet(a) \cup ToSet(b)
  BY <1>2, <1>6, <1>8, ElementsConcat
<1>10. PICK u, x, y :
         /\ u = ToSet(unwritten') /\ x = ToSet(executed)
         /\ y = IF Group.products = {} THEN {} ELSE ToSet(Snapshot)
  OBVIOUS
<1>11. Sent(Sampled) = ToSet(stored[Sampled])
       /\ Sent("truth_maneuvers") = ToSet(stored["truth_maneuvers"])
  BY <1>3 DEF Sent, Payloads, ToSet
<1>12. Sent("truth_maneuvers")' = Sent("truth_maneuvers") \cup ToSet(executed)
  <2>1. Payloads(u, "truth_maneuvers") = x
    <3>1. /\ ToSet(a) = {<<"truth_maneuvers", e>> : e \in x}
          /\ ToSet(b) = {<<Sampled, e>> : e \in y} /\ u = ToSet(a) \cup ToSet(b)
      BY <1>6, <1>8, <1>9, <1>10
    <3>2. Sampled # "truth_maneuvers"
      BY DEF Sampled
    <3>3. /\ \A e \in x : <<"truth_maneuvers", e>> \in u
          /\ \A r \in u : r[1] = "truth_maneuvers" => \E e \in x : r = <<"truth_maneuvers", e>>
      BY <3>1, <3>2
    <3> QED
      BY <3>3, RecordsOfOne
  <2> QED
    BY <1>2, <1>10, <1>11, <2>1 DEF Sent
<1>13. Sent(Sampled)' = Sent(Sampled) \cup (IF Group.products = {} THEN {} ELSE ToSet(Snapshot))
  <2>1. Payloads(u, Sampled) = y
    <3>1. /\ ToSet(a) = {<<"truth_maneuvers", e>> : e \in x}
          /\ ToSet(b) = {<<Sampled, e>> : e \in y} /\ u = ToSet(a) \cup ToSet(b)
      BY <1>6, <1>8, <1>9, <1>10
    <3>2. Sampled # "truth_maneuvers"
      BY DEF Sampled
    <3>3. /\ \A e \in y : <<Sampled, e>> \in u
          /\ \A r \in u : r[1] = Sampled => \E e \in y : r = <<Sampled, e>>
      BY <3>1, <3>2
    <3> QED
      BY <3>3, RecordsOfOne
  <2> QED
    BY <1>2, <1>10, <1>11, <2>1 DEF Sent
<1>14. Reported = n - 1 /\ Reported' = n
  BY <1>2, <1>4 DEF Reported
<1>15. /\ Impulses' = Impulses /\ Moments' = Moments /\ \A o : BurnsOn(o)' = BurnsOn(o)
       /\ \A k : Ran(k)' = Ran(k)
  BY <1>2 DEF Impulses, Moments, BurnsOn, Ran
<1>16. \A s : After(s)' = After(s)
  BY <1>2, <1>15 DEF After
<1>17. /\ Current = Group.maneuvers
       /\ \A o \in Runtime!Objects : epoch[o] = Group.epoch /\ After(State(o))
  BY <1>2, SampledAfter
<1>18. \A s \in Sent(Sampled)' : After(s)'
  BY <1>3, <1>7, <1>13, <1>16, <1>17 DEF OutputKept
<1>19. ASSUME NEW k \in 1 .. n, Sampled \in groups[k].products, NEW o \in Runtime!Objects
       PROVE  \E s \in Sent(Sampled)' : s.object = o /\ s.epoch = groups[k].epoch
  <2>1. CASE k = n
    <3>1. Group.products # {} /\ State(o) \in Sent(Sampled)'
      BY <1>4, <1>7, <1>13, <1>19, <2>1
    <3>2. State(o).object = o /\ State(o).epoch = Group.epoch
      BY <1>17 DEF State
    <3> QED
      BY <1>4, <2>1, <3>1, <3>2
  <2>2. CASE k \in 1 .. n - 1
    BY <1>3, <1>13, <1>14, <1>19, <2>2 DEF OutputKept
  <2> QED
    BY <2>1, <2>2
<1>20. {m.entry : m \in Sent("truth_maneuvers")'} = Ran(n)
  <2>1. Ran(n) = Ran(n - 1) \cup Current
    BY <1>4, <1>17, RanMore
  <2>2. {m.entry : m \in ToSet(executed)} = Current
    BY DEF ToSet, Current
  <2>3. {m.entry : m \in Sent("truth_maneuvers")} = Ran(n - 1)
    BY <1>3, <1>14 DEF OutputKept
  <2> QED
    BY <1>12, <2>1, <2>2, <2>3
<1>21. Ran(Reported)' = Ran(n)
  BY <1>2, <1>14 DEF Ran
<1>22. OutputKept'
  BY <1>2, <1>14, <1>18, <1>19, <1>20, <1>21 DEF OutputKept
<1>23. OutputType'
  BY <1>2, <1>3, <1>9 DEF OutputType
<1> QED
  BY <1>2, <1>22, <1>23 DEF OutputInv

\* A record that is written goes from the ones to write to the sink.
LEMMA OutputWrite == RunInv /\ RunInv' /\ OutputInv /\ Write => OutputInv'
<1> SUFFICES ASSUME RunInv, RunInv', OutputInv, Write
             PROVE  OutputInv'
  OBVIOUS
<1>1. PICK c, r : c = Head(unwritten)[1] /\ r = Head(unwritten)[2]
  OBVIOUS
<1>2. /\ pc = "write" /\ unwritten # <<>> /\ unwritten' = Tail(unwritten)
      /\ groups' = groups /\ request' = request
      /\ \/ pc' = "write" /\ Sink!SinkWrite(c, <<r>>, "ok")
         \/ pc' = "cleanUp"
  BY <1>1 DEF Write, Proceed, Stop, scheduleVars
<1>3. CASE pc' = "cleanUp"
  BY <1>3, OutputLost DEF RunInv, OutcomeInv
<1>4. CASE pc' = "write" /\ Sink!SinkWrite(c, <<r>>, "ok")
  <2>1. OutputType /\ OutputKept
    BY <1>2 DEF OutputInv, Working, Live
  <2>2. stored' = [stored EXCEPT ![c] = @ \o <<r>>]
    BY <1>4 DEF Sink!SinkWrite
  <2>3. /\ Head(unwritten) \in Records /\ unwritten' \in Seq(Records)
        /\ ToSet(unwritten) = {Head(unwritten)} \cup ToSet(unwritten')
    BY <1>2, <2>1, ElementsTail DEF OutputType
  <2>4. \/ c = Sampled /\ r \in Sample
        \/ c = "truth_maneuvers" /\ r \in Execution
    BY <1>1, <2>3 DEF Records
  <2>5. c \in Sink!Channels
    BY <2>4 DEF Sink!Channels, Sampled
  <2>6. /\ DOMAIN stored' = Sink!Channels /\ stored'[c] = stored[c] \o <<r>>
        /\ \A d \in Sink!Channels : d # c => stored'[d] = stored[d]
    BY <2>1, <2>2, <2>5 DEF OutputType
  <2>7. /\ stored'[c] \in Seq(IF c = Sampled THEN Sample ELSE Execution)
        /\ ToSet(stored'[c]) = ToSet(stored[c]) \cup {r}
    <3>1. PICK T : T = IF c = Sampled THEN Sample ELSE Execution
      OBVIOUS
    <3>2. stored[c] \in Seq(T) /\ r \in T
      <4>1. CASE c = Sampled /\ r \in Sample
        BY <2>1, <3>1, <4>1 DEF OutputType
      <4>2. CASE c = "truth_maneuvers" /\ r \in Execution
        <5>1. c # Sampled
          BY <4>2 DEF Sampled
        <5> QED
          BY <2>1, <3>1, <4>2, <5>1 DEF OutputType
      <4> QED
        BY <2>4, <4>1, <4>2
    <3>3. PICK p \in Seq(T), q \in Seq(T) : p = stored[c] /\ q = <<r>>
      <4>1. stored[c] \in Seq(T) /\ <<r>> \in Seq(T)
        BY <3>2
      <4> QED
        BY <4>1, Zenon
    <3>4. ToSet(q) = {r}
      BY <3>3 DEF ToSet
    <3>5. p \o q \in Seq(T) /\ ToSet(p \o q) = ToSet(p) \cup ToSet(q)
      BY ElementsConcat
    <3> QED
      BY <2>6, <3>1, <3>3, <3>4, <3>5
  <2>8. ASSUME NEW d \in {Sampled, "truth_maneuvers"}
        PROVE  Sent(d)' = Sent(d)
    <3>1. d \in Sink!Channels
      BY DEF Sink!Channels, Sampled
    <3>2. CASE d = c
      BY <1>1, <2>3, <2>7, <3>2 DEF Sent, Payloads
    <3>3. CASE d # c
      <4>1. stored'[d] = stored[d]
        BY <2>6, <3>1, <3>3
      <4> QED
        BY <1>1, <2>3, <3>3, <4>1 DEF Sent, Payloads
    <3> QED
      BY <3>2, <3>3
  <2>9. OutputType'
    BY <1>4, <2>1, <2>3, <2>4, <2>6, <2>7 DEF OutputType, Sink!Channels, Sampled
  <2>10. /\ Impulses' = Impulses /\ Moments' = Moments /\ \A o : BurnsOn(o)' = BurnsOn(o)
         /\ \A k : Ran(k)' = Ran(k)
    BY <1>2 DEF Impulses, Moments, BurnsOn, Ran
  <2>11. \A s : After(s)' = After(s)
    BY <1>2, <2>10 DEF After
  <2>12. Reported' = Reported /\ Ran(Reported)' = Ran(Reported)
    BY <1>2, <1>4 DEF Reported, Ran
  <2>13. OutputKept'
    BY <1>2, <2>1, <2>8, <2>11, <2>12 DEF OutputKept
  <2> QED
    BY <1>4, <2>9, <2>13 DEF OutputInv
<1> QED
  BY <1>2, <1>3, <1>4

\* Every record is the state after the maneuvers of all groups up to its own, and
\* no record of a reported group is missing.
THEOREM OutputInvariant == Spec => []OutputInv
<1>1. ASSUME RunInv, RunInv', PathInv, BurnInv, OutputInv, [Next]_vars
      PROVE  OutputInv'
  <2>1. CASE \/ Cancel \/ Enter \/ Begin \/ Prime \/ EndOfSchedule \/ Propagate \/ Move \/ Arrive
             \/ ExecuteManeuver \/ FinishGroup \/ End \/ Close \/ Commit \/ UNCHANGED vars
    <3>1. stored' = stored /\ unwritten' = unwritten
      BY <2>1 DEF Cancel, Enter, Begin, Prime, EndOfSchedule, Propagate, Move, Arrive,
                  ExecuteManeuver, FinishGroup, End, Close, Commit, Sink!SinkBegin,
                  Sink!SinkCommit, sinkVars, recordVars, vars
    <3>2. groups' = groups /\ request' = request
      BY <2>1 DEF Cancel, Enter, Begin, Prime, EndOfSchedule, Propagate, Move, Arrive,
                  ExecuteManeuver, FinishGroup, End, Close, Commit, scheduleVars, vars,
                  Schedule!Prime, Schedule!Exhaust
    <3>3. CASE pc' = "cleanUp"
      BY <1>1, <3>3, OutputLost DEF RunInv, OutcomeInv
    <3>4. CASE pc' # "cleanUp"
      <4>1. /\ pc' \in Working => pc \in Working
            /\ pc' \in {"entry", "initialize"} => pc \in {"entry", "initialize"}
            /\ pc' # "write" => pc # "write" \/ unwritten = <<>>
            /\ pc' \in {"propagate", "moving", "maneuver"}
                 <=> pc \in {"propagate", "moving", "maneuver"}
        BY <2>1, <3>4 DEF Cancel, Enter, Begin, Prime, EndOfSchedule, Propagate, Move, Arrive,
                          ExecuteManeuver, FinishGroup, End, Close, Commit, Unless, Proceed, Stop,
                          Working, Live, vars
      <4>2. status' = "COMMITTED" => pc \in Working \/ status = "COMMITTED"
        BY <2>1 DEF Cancel, Enter, Begin, Prime, EndOfSchedule, Propagate, Move, Arrive,
                    ExecuteManeuver, FinishGroup, End, Close, Commit, Sink!SinkBegin, sinkVars,
                    Working, vars
      <4>3. Reported' = Reported
        BY <3>2, <4>1 DEF Reported
      <4> QED
        BY <1>1, <3>1, <3>2, <4>1, <4>2, <4>3, OutputFrame
    <3> QED
      BY <3>3, <3>4
  <2> QED
    BY <1>1, <2>1, OutputInitialize, OutputNextGroup, OutputTakeSamples, OutputWrite, EndsLost
       DEF Next, Step, Terminated
<1> QED
  BY OutputInit, <1>1, RunInvariant, PathInvariant, BurnInvariant, PTL DEF Spec

-------------------------------------------------------------------------------
\* The output tells of the manifest.

\* The maneuvers of object o up to the instant of group k are those of the groups up to k.
LEMMA RanIsDue ==
  ASSUME RunInv, status = "COMMITTED", NEW k \in DOMAIN groups, NEW o
  PROVE  BurnsOf(o, groups[k].epoch) = Ran(k) \cap BurnsOn(o)
<1>1. phase = "exhausted" /\ Forward(Len(groups)) /\ remaining = {}
  BY DEF RunInv, OutcomeInv, ConsumedInv
<1>2. PICK n \in Nat : n = Len(groups) /\ DOMAIN groups = 1 .. n
  BY DEF RunInv, ScheduleType
<1>3. \A l \in 1 .. n : groups[l].epoch \in Nat
  <2>1. \A l \in 1 .. n : groups[l] \in GroupType
    BY <1>2 DEF RunInv, ScheduleType
  <2> QED
    BY <2>1 DEF GroupType
<1>4. k \in 1 .. n
  BY <1>2
<1>5. DOMAIN request.burns = DOMAIN request.timeline
  BY ManifestAssumption DEF RunInv, ScheduleType
<1>6. ASSUME NEW i \in BurnsOf(o, groups[k].epoch)
      PROVE  i \in Ran(k) \cap BurnsOn(o)
  <2>1. /\ i \in Scheduled /\ request.burns[i].spacecraft = o
        /\ request.timeline[i].epoch <= groups[k].epoch
    BY DEF BurnsOf
  <2>2. PICK l \in 1 .. n : i \in groups[l].maneuvers
    BY <1>1, <1>2, <2>1 DEF RunInv, ConsumedInv
  <2>3. request.timeline[i].epoch = groups[l].epoch
    BY <1>2, <2>2 DEF RunInv, ConsumedInv
  <2>4. k < l => groups[k].epoch < groups[l].epoch
    BY <1>1, <1>2, <1>4 DEF Forward
  <2>5. l \in 1 .. k
    BY <1>3, <1>4, <2>1, <2>3, <2>4
  <2>6. i \in DOMAIN request.burns
    BY <1>5, <2>1 DEF Scheduled
  <2> QED
    BY <2>1, <2>2, <2>5, <2>6 DEF Ran, BurnsOn
<1>7. ASSUME NEW i \in Ran(k) \cap BurnsOn(o)
      PROVE  i \in BurnsOf(o, groups[k].epoch)
  <2>1. PICK l \in 1 .. k : i \in groups[l].maneuvers
    BY DEF Ran
  <2>2. l \in 1 .. n
    BY <1>4
  <2>3. i \in Scheduled /\ request.timeline[i].epoch = groups[l].epoch
    BY <1>2, <2>1, <2>2 DEF RunInv, ConsumedInv
  <2>4. l < k => groups[l].epoch < groups[k].epoch
    BY <1>1, <1>2, <1>4, <2>2 DEF Forward
  <2>5. groups[l].epoch <= groups[k].epoch
    BY <1>3, <1>4, <2>2, <2>4
  <2> QED
    BY <2>3, <2>5 DEF BurnsOf, BurnsOn
<1> QED
  BY <1>6, <1>7

\* Every state that is committed is where its burns put it, the last instant is
\* sampled, and every maneuver that runs is recorded.
THEOREM CommittedTruthHolds == Spec => []CommittedTruthIsBallistic
<1>1. RunInv /\ OutputInv => CommittedTruthIsBallistic
  <2> SUFFICES ASSUME RunInv, OutputInv, status = "COMMITTED"
               PROVE  CommittedTruthIsBallistic
    BY DEF CommittedTruthIsBallistic
  <2>1. /\ pc = "done" /\ phase = "exhausted" /\ remaining = {}
    BY DEF RunInv, OutcomeInv, ConsumedInv
  <2>2. OutputType /\ OutputKept /\ unwritten = <<>>
    BY <2>1 DEF OutputInv, OutputType
  <2>3. /\ Sent(Sampled) = ToSet(stored[Sampled])
        /\ Sent("truth_maneuvers") = ToSet(stored["truth_maneuvers"])
    BY <2>2 DEF Sent, Payloads, ToSet
  <2>4. PICK n \in Nat : n = Len(groups) /\ DOMAIN groups = 1 .. n /\ Reported = n
    BY <2>1 DEF RunInv, ScheduleType, Reported
  <2>5. ASSUME NEW k \in DOMAIN stored[Sampled]
        PROVE  LET s == stored[Sampled][k]
                   b == BurnsOf(s.object, s.epoch)
               IN  /\ s.velocity = Initial[s.object].velocity + SumFunctionOnSet(Impulses, b)
                   /\ s.position = Initial[s.object].position
                                   + Initial[s.object].velocity * (s.epoch - Sync)
                                   + SumFunctionOnSet(Shifts(s.epoch), b)
    <3>1. PICK s \in Sample : s = stored[Sampled][k] /\ s \in Sent(Sampled)
      BY <2>2, <2>3 DEF OutputType, ToSet
    <3>2. PICK l \in DOMAIN groups :
            /\ s.epoch = groups[l].epoch
            /\ s.velocity = Initial[s.object].velocity
                            + SumFunctionOnSet(Impulses, Ran(l) \cap BurnsOn(s.object))
            /\ s.position = Initial[s.object].position + Initial[s.object].velocity * (s.epoch - Sync)
                            + SumFunctionOnSet(Impulses, Ran(l) \cap BurnsOn(s.object)) * s.epoch
                            - SumFunctionOnSet(Moments, Ran(l) \cap BurnsOn(s.object))
      BY <2>2, <3>1 DEF OutputKept, After
    <3>3. PICK b : b = BurnsOf(s.object, s.epoch)
      OBVIOUS
    <3>4. b = Ran(l) \cap BurnsOn(s.object)
      BY <3>2, <3>3, RanIsDue
    <3>5. PICK m \in Nat :
            /\ DOMAIN request.burns = 1 .. m
            /\ Impulses \in [1 .. m -> Int] /\ Moments \in [1 .. m -> Int]
            /\ \A i \in 1 .. m : /\ Moments[i] = Impulses[i] * request.timeline[i].epoch
                                 /\ request.timeline[i].epoch \in Nat
            /\ \A o : BurnsOn(o) \subseteq 1 .. m
      BY BurnsTyped
    <3>6. PICK t \in Int : t = s.epoch
      BY <3>1 DEF Sample
    <3>7. PICK f, g, h : f = Impulses /\ g = Moments /\ h = Shifts(t)
      OBVIOUS
    <3>8. ASSUME NEW i \in 1 .. m
          PROVE  h[i] = f[i] * t - g[i] /\ h[i] \in Int
      <4>1. h[i] = f[i] * (t - request.timeline[i].epoch)
        BY <3>5, <3>7 DEF Shifts
      <4>2. PICK x \in Int, e \in Int : x = f[i] /\ e = request.timeline[i].epoch
        BY <3>5, <3>7
      <4>3. x * (t - e) = x * t - x * e /\ x * (t - e) \in Int
        OBVIOUS
      <4> QED
        BY <3>5, <3>7, <4>1, <4>2, <4>3
    <3>9. h \in [1 .. m -> Int]
      BY <3>5, <3>7, <3>8 DEF Shifts
    <3>10. b \in SUBSET (1 .. m)
      BY <3>4, <3>5
    <3>11. /\ SumFunctionOnSet(h, b) = SumFunctionOnSet(f, b) * t - SumFunctionOnSet(g, b)
           /\ SumFunctionOnSet(f, b) \in Int /\ SumFunctionOnSet(g, b) \in Int
      <4>1. f \in [1 .. m -> Int] /\ g \in [1 .. m -> Int] /\ b \in SUBSET (1 .. m)
        BY <3>5, <3>7, <3>10
      <4>2. SumFunctionOnSet(f, b) \in Int /\ SumFunctionOnSet(g, b) \in Int
        BY <4>1, SumTyped
      <4>3. Combines(h, f, t, g, 1, m)
        <5>1. \A x, y \in Int : x * t - y = x * t - y * 1
          BY <3>7
        <5>2. \A i \in 1 .. m : f[i] \in Int /\ g[i] \in Int
          BY <4>1
        <5>3. \A i \in 1 .. m : h[i] = f[i] * t - g[i] * 1
          BY <3>8, <5>1, <5>2
        <5> QED
          BY <3>5, <3>7, <3>9, <4>1, <5>3 DEF Combines
      <4>4. SumFunctionOnSet(h, b) =
              Reduced(SumFunctionOnSet(f, b), t, SumFunctionOnSet(g, b), 1)
        BY <4>1, <4>3, SumLinear
      <4> QED
        BY <4>2, <4>4 DEF Reduced
    <3>12. /\ s.velocity = Initial[s.object].velocity + SumFunctionOnSet(Impulses, b)
           /\ s.position = Initial[s.object].position
                           + Initial[s.object].velocity * (s.epoch - Sync)
                           + SumFunctionOnSet(Shifts(s.epoch), b)
      <4>1. PICK x \in Int, v \in Int, d \in Int :
              /\ x = Initial[s.object].position /\ v = Initial[s.object].velocity
              /\ d = v * (t - Sync)
        <5>1. /\ Initial[s.object].position \in Int /\ Initial[s.object].velocity \in Int
          BY <3>1, ObjectsAssumption DEF Sample, Runtime!Objects
        <5>2. Initial[s.object].velocity * (t - Sync) \in Int
          BY <5>1, ManifestAssumption
        <5> QED
          BY <5>1, <5>2
      <4>2. PICK p \in Int, q \in Int :
              p = SumFunctionOnSet(f, b) * t /\ q = SumFunctionOnSet(g, b)
        BY <3>11
      <4>3. s.position = x + d + p - q /\ SumFunctionOnSet(Shifts(s.epoch), b) = p - q
        BY <3>2, <3>4, <3>6, <3>7, <3>11, <4>1, <4>2
      <4> QED
        BY <3>2, <3>4, <3>6, <4>1, <4>2, <4>3
    <3> QED
      BY <3>1, <3>3, <3>12
  <2>6. ASSUME NEW o \in Runtime!Objects
        PROVE  \E k \in DOMAIN stored[Sampled] :
                 stored[Sampled][k].object = o /\ stored[Sampled][k].epoch = request.end
    <3>1. PICK k \in 1 .. n : Sampled \in groups[k].products /\ groups[k].epoch = request.end
      BY <2>1, <2>4 DEF RunInv, CadenceInv
    <3>2. PICK s \in Sent(Sampled) : s.object = o /\ s.epoch = request.end
      BY <2>2, <2>4, <3>1 DEF OutputKept
    <3> QED
      BY <2>3, <3>2 DEF ToSet
  <2>7. {stored["truth_maneuvers"][k].entry : k \in DOMAIN stored["truth_maneuvers"]} = Scheduled
    <3>1. {m.entry : m \in ToSet(stored["truth_maneuvers"])} = Ran(n)
      BY <2>2, <2>3, <2>4 DEF OutputKept
    <3>2. Ran(n) = Scheduled
      BY <2>1, <2>4 DEF Ran, RunInv, ConsumedInv
    <3> QED
      BY <3>1, <3>2 DEF ToSet
  <2> QED
    BY <2>5, <2>6, <2>7 DEF CommittedTruthIsBallistic
<1> QED
  BY <1>1, RunInvariant, OutputInvariant, PTL

===============================================================================
