---------------------------- MODULE ContractProofs ----------------------------
(***************************************************************************)
(* What Core's contracts guarantee their readers, for all drafts, items,   *)
(* producers and numbers: the scenario contracts, then the delivery and    *)
(* observation contracts.                                                  *)
(***************************************************************************)
EXTENDS Scenario, Delivery, Observation, SequenceLemmas, FiniteSetTheorems

\* What a request was refused for is not in the draft it was accepted as.
DraftInv ==
  /\ DOMAIN draft = Fields /\ draft.start \in Instants /\ draft.end \in Instants
  /\ draft.schedules \in Seq(Listable("schedules", Schedules))
  /\ draft.entities \in Seq(Listable("entities", Entities))
  /\ Accepted => ValidRequest(draft)
  /\ verdict = "admitted" => FakeSupports(draft)

LEMMA DraftInit == Init => DraftInv
<1> SUFFICES ASSUME Init
             PROVE  DraftInv
  OBVIOUS
<1>1. draft \in Drafts /\ verdict = "draft"
  BY DEF Init
<1>2. /\ DOMAIN draft = Fields /\ draft.start \in Instants /\ draft.end \in Instants
      /\ \A list \in Lists : draft[list] \in Seq(Range(draft[list]))
  BY <1>1, ScenarioAssumption
<1>3. ASSUME NEW list, NEW items
      PROVE  Range(draft[list]) \subseteq Listable(list, items)
  BY <1>1 DEF Listable
<1>4. ASSUME NEW list \in Lists, NEW items
      PROVE  draft[list] \in Seq(Listable(list, items))
  <2>1. ASSUME NEW S, NEW T, S \subseteq T, NEW s \in Seq(S)
        PROVE  s \in Seq(T)
    BY <2>1
  <2> QED
    BY <1>2, <1>3, <2>1
<1> QED
  BY <1>1, <1>2, <1>4 DEF DraftInv, Accepted, Lists

LEMMA DraftKept == DraftInv /\ [Next]_vars => DraftInv'
<1> SUFFICES ASSUME DraftInv, [Next]_vars
             PROVE  DraftInv'
  OBVIOUS
<1> USE DEF DraftInv
<1>1. ASSUME NEW list \in Lists, NEW item, Edit([draft EXCEPT ![list] = Append(@, item)]),
             list = "schedules" => item \in Schedules,
             list = "entities" => item \in Entities
      PROVE  DraftInv'
  <2>1. /\ draft' = [draft EXCEPT ![list] = Append(@, item)] /\ verdict' = "draft"
        /\ list \in Fields
    BY <1>1 DEF Edit, Lists, Fields
  <2>2. /\ DOMAIN draft' = Fields
        /\ \A f \in Fields : draft'[f] = IF f = list THEN Append(draft[f], item) ELSE draft[f]
    BY <2>1
  <2>3. draft'.start = draft.start /\ draft'.end = draft.end
    BY <1>1, <2>2 DEF Fields, Lists
  <2>4. draft'.schedules \in Seq(Listable("schedules", Schedules))
    BY <1>1, <2>2 DEF Fields, Listable
  <2>5. draft'.entities \in Seq(Listable("entities", Entities))
    BY <1>1, <2>2 DEF Fields, Listable
  <2> QED
    BY <2>1, <2>2, <2>3, <2>4, <2>5 DEF Accepted
<1>2. ASSUME NEW f \in Settings, Set(f)
      PROVE  DraftInv'
  <2>1. /\ f[1] \in Fields \ Lists
        /\ f[1] \in {"start", "end"} => f[2] \in Instants
    BY ScenarioAssumption
  <2>2. /\ DOMAIN draft' = Fields /\ verdict' = "draft"
        /\ \A g \in Fields : draft'[g] = IF g = f[1] THEN f[2] ELSE draft[g]
    BY <1>2, <2>1 DEF Set, Edit
  <2>3. /\ draft'.start \in Instants /\ draft'.end \in Instants
        /\ draft'.schedules = draft.schedules /\ draft'.entities = draft.entities
    BY <2>1, <2>2 DEF Fields, Lists
  <2> QED
    BY <2>2, <2>3 DEF Accepted
<1>3. CASE Construct
  BY <1>3 DEF Construct, Accepted
<1>4. CASE Admit
  BY <1>4 DEF Admit, Accepted
<1>5. CASE UNCHANGED vars
  BY <1>5 DEF vars, Accepted
<1> QED
  BY <1>1, <1>2, <1>3, <1>4, <1>5
     DEF Next, AddEntity, AddPlanned, AddCommand, AddSchedule, AddLink, Lists

LEMMA ScenarioInvariant == Spec => []DraftInv
BY DraftInit, DraftKept, PTL DEF Spec

\* A request the fake backend's validator admits gives the runtime nothing to
\* refuse: its objects start at one epoch, its epochs share one scale, and every
\* maneuver is one the runtime can execute on its spacecraft.
THEOREM AdmittedRequestsRun == Spec => []AdmittedRunsAreSupported
<1>1. DraftInv => AdmittedRunsAreSupported
  <2> SUFFICES ASSUME DraftInv, verdict = "admitted"
               PROVE  AdmittedRunsAreSupported
    BY DEF AdmittedRunsAreSupported
  <2>1. ValidWorld(draft) /\ ValidRequest(draft) /\ FakeSupports(draft)
    BY DEF DraftInv, Accepted, ValidRequest
  <2>2. \A i \in DOMAIN draft.entities :
          draft.entities[i].kind \in Propagated => draft.entities[i].epoch = draft.sync
    BY <2>1 DEF ValidWorld
  <2>3. \A e \in RequestEpochs(draft) : e.scale = draft.sync.scale
    BY <2>1 DEF FakeSupports
  <2>4. ASSUME NEW m, FakeManeuver(m, draft), Bound(m, draft.entities),
               m.epoch \in RequestEpochs(draft)
        PROVE  /\ ~ RuntimeRefuses(m, draft)
               /\ m.type \in Found(draft.entities, m.spacecraft).capability
    BY <2>3, <2>4 DEF RuntimeRefuses, FakeManeuver, Bound
  <2>5. ASSUME NEW m \in Range(draft.planned) \cup Range(draft.commands)
        PROVE  /\ FakeManeuver(m, draft) /\ Bound(m, draft.entities)
               /\ m.epoch \in RequestEpochs(draft)
    <3>1. CASE m \in Range(draft.planned)
      <4>1. PICK i \in DOMAIN draft.planned : m = draft.planned[i]
        BY <3>1 DEF Range
      <4> QED
        BY <2>1, <4>1 DEF ValidWorld, FakeSupports, RequestEpochs
    <3>2. CASE m \in Range(draft.commands)
      <4>1. PICK i \in DOMAIN draft.commands : m = draft.commands[i]
        BY <3>2 DEF Range
      <4> QED
        BY <2>1, <4>1 DEF ValidRequest, FakeSupports, RequestEpochs
    <3> QED
      BY <3>1, <3>2
  <2>6. draft.end.scale = draft.sync.scale /\ draft.start.scale = draft.sync.scale
    BY <2>3 DEF RequestEpochs
  <2> QED
    BY <2>2, <2>4, <2>5, <2>6 DEF AdmittedRunsAreSupported
<1> QED
  BY <1>1, ScenarioInvariant, PTL

-------------------------------------------------------------------------------
\* Comparing each epoch with the last one of its scale orders all of that scale.
LEMMA IncreasingIsSorted ==
  ASSUME NEW s \in Seq(Instants), Increasing(s)
  PROVE  \A i, j \in DOMAIN s : i < j /\ s[i].scale = s[j].scale => s[i].at < s[j].at
<1> DEFINE Wrong == {j \in DOMAIN s : \E i \in DOMAIN s :
                       i < j /\ s[i].scale = s[j].scale /\ ~ (s[i].at < s[j].at)}
<1>0. DOMAIN s = 1 .. Len(s) /\ Len(s) \in Nat /\ \A i \in DOMAIN s : s[i].at \in Int
  <2>1. \A i \in DOMAIN s : s[i] \in Instants
    OBVIOUS
  <2> QED
    BY <2>1 DEF Instants
<1> SUFFICES ASSUME Wrong # {}
             PROVE  FALSE
  OBVIOUS
<1>1. PICK j \in Wrong : \A k \in Wrong : j <= k
  <2>1. Wrong \in SUBSET Nat
    BY <1>0
  <2> HIDE DEF Wrong
  <2> QED
    BY <2>1, LeastNumber
<1>2. PICK i \in DOMAIN s : i < j /\ s[i].scale = s[j].scale /\ ~ (s[i].at < s[j].at)
  OBVIOUS
<1> DEFINE same == {k \in 1 .. j - 1 : s[k].scale = s[j].scale}
<1>3. j \in 1 .. Len(s) /\ j - 1 \in Nat /\ same \in SUBSET (0 .. j - 1) /\ i \in same
  BY <1>0, <1>2
<1>4. PICK p \in same : p = Max(same) /\ \A x \in same : x <= p
  <2> HIDE DEF same
  <2> QED
    BY <1>3, GreatestNumber
<1>5. p \in DOMAIN s /\ p < j /\ s[p].scale = s[j].scale
  BY <1>0, <1>3
<1>6. s[p].at < s[j].at
  <2>1. same # {} => Before(s[Max(same)], s[j])
    BY <1>0, <1>3 DEF Increasing
  <2>2. Before(s[p], s[j])
    BY <1>4, <2>1
  <2> QED
    BY <2>2 DEF Before
<1>7. i < p /\ s[i].scale = s[p].scale
  <2>1. i # p
    BY <1>2, <1>6
  <2>2. i <= p
    BY <1>3, <1>4
  <2> QED
    BY <1>0, <1>2, <1>5, <2>1, <2>2
<1>8. p \notin Wrong
  <2>1. ~ (j <= p)
    BY <1>0, <1>3, <1>5
  <2> HIDE DEF Wrong
  <2> QED
    BY <1>1, <2>1
<1>9. s[i].at < s[p].at
  BY <1>5, <1>7, <1>8
<1>10. s[i].at \in Int /\ s[p].at \in Int /\ s[j].at \in Int /\ ~ (s[i].at < s[j].at)
  BY <1>0, <1>2, <1>3, <1>5
<1> QED
  BY <1>6, <1>9, <1>10

\* What a positive cadence makes of a range.
LEMMA CadenceSteps ==
  ASSUME NEW a \in Int, NEW b \in Int, a <= b, NEW c \in Nat \ {0},
         NEW i \in 1 .. 1 + (b - a) \div c
  PROVE  /\ a <= a + (i - 1) * c /\ a + (i - 1) * c <= b
         /\ \A j \in 1 .. 1 + (b - a) \div c : i < j => a + (i - 1) * c < a + (j - 1) * c
<1> DEFINE q == (b - a) \div c
<1>1. q \in Nat /\ q * c <= b - a
  BY DEF q
<1>2. ASSUME NEW x \in Nat, NEW y \in Nat, x <= y
      PROVE  /\ x * c <= y * c
             /\ x < y => x * c < y * c
  <2>1. (y - x) * c \in Nat /\ (x < y => (y - x) * c > 0)
    BY <1>2
  <2>2. y * c = x * c + (y - x) * c
    BY <1>2
  <2>3. x * c \in Nat /\ y * c \in Nat
    BY <1>2
  <2> QED
    BY <2>1, <2>2, <2>3
<1>3. i - 1 \in Nat /\ i - 1 <= q /\ 0 <= i - 1
  BY <1>1
<1>4. 0 * c <= (i - 1) * c /\ (i - 1) * c <= q * c
  BY <1>1, <1>2, <1>3
<1>5. (i - 1) * c \in Int /\ q * c \in Int /\ 0 * c = 0
  BY <1>1, <1>3
<1>6. a <= a + (i - 1) * c /\ a + (i - 1) * c <= b
  BY <1>1, <1>4, <1>5
<1>7. ASSUME NEW j \in 1 .. 1 + q, i < j
      PROVE  a + (i - 1) * c < a + (j - 1) * c
  <2>1. j - 1 \in Nat /\ i - 1 < j - 1 /\ i - 1 <= j - 1
    BY <1>1, <1>3, <1>7
  <2>2. (i - 1) * c < (j - 1) * c /\ (j - 1) * c \in Int
    BY <1>2, <1>3, <2>1
  <2> QED
    BY <1>5, <2>2
<1> QED
  BY <1>6, <1>7

\* The attempts of a schedule of an accepted request.
LEMMA AttemptsOrdered ==
  ASSUME NEW s, TypedSchedule(s), ValidSchedule(s), NEW start \in Instants, NEW end \in Instants,
         \A i \in DOMAIN s.epochs : ~ Before(s.epochs[i], start) /\ ~ Before(end, s.epochs[i]),
         s.kind = "EXPLICIT" \/ s.epochs[1].scale = s.epochs[2].scale
  PROVE  /\ \A i, j \in DOMAIN Attempts(s) :
              i < j /\ Attempts(s)[i].scale = Attempts(s)[j].scale =>
                Attempts(s)[i].at < Attempts(s)[j].at
         /\ \A i \in DOMAIN Attempts(s) :
              /\ Attempts(s)[i].scale = start.scale => Attempts(s)[i].at >= start.at
              /\ Attempts(s)[i].scale = end.scale => Attempts(s)[i].at <= end.at
<1>0. s.epochs \in Seq(Instants) /\ start.at \in Int /\ end.at \in Int
  BY DEF TypedSchedule, Instants
<1>1. CASE s.kind = "EXPLICIT"
  <2>1. Attempts(s) = s.epochs /\ Increasing(s.epochs)
    BY <1>1 DEF Attempts, ValidSchedule
  <2>2. \A i, j \in DOMAIN s.epochs :
          i < j /\ s.epochs[i].scale = s.epochs[j].scale => s.epochs[i].at < s.epochs[j].at
    BY <1>0, <2>1, IncreasingIsSorted
  <2>3. \A i \in DOMAIN s.epochs : s.epochs[i].at \in Int
    <3>1. \A i \in DOMAIN s.epochs : s.epochs[i] \in Instants
      BY <1>0
    <3> QED
      BY <3>1 DEF Instants
  <2>4. \A i \in DOMAIN s.epochs :
          /\ s.epochs[i].scale = start.scale => s.epochs[i].at >= start.at
          /\ s.epochs[i].scale = end.scale => s.epochs[i].at <= end.at
    BY <1>0, <2>3 DEF Before
  <2> QED
    BY <2>1, <2>2, <2>4
<1>2. CASE s.kind = "PERIODIC"
  <2> DEFINE a == s.epochs[1]
             b == s.epochs[2]
             n == 1 + (b.at - a.at) \div s.cadence
  <2>1. /\ 1 \in DOMAIN s.epochs /\ 2 \in DOMAIN s.epochs
        /\ a.at \in Int /\ b.at \in Int /\ s.cadence \in Nat \ {0}
    <3>1. Len(s.epochs) = 2 /\ s.cadence \in Nat \ {0}
      BY <1>2 DEF TypedSchedule
    <3>2. 1 \in DOMAIN s.epochs /\ 2 \in DOMAIN s.epochs
      BY <1>0, <3>1
    <3>3. a \in Instants /\ b \in Instants
      BY <1>0, <3>2
    <3> QED
      BY <3>1, <3>2, <3>3 DEF Instants
  <2>2. a.scale = b.scale /\ a.at < b.at
    BY <1>2 DEF ValidSchedule, NonEmpty, Before
  <2>3. Attempts(s) = [k \in 1 .. n |-> [scale |-> a.scale, at |-> a.at + (k - 1) * s.cadence]]
    BY <1>2 DEF Attempts
  <2>4. /\ a.scale = start.scale => a.at >= start.at
        /\ a.scale = end.scale => b.at <= end.at
    BY <1>0, <2>1, <2>2 DEF Before
  <2> HIDE DEF a, b
  <2>5. a.at <= b.at
    BY <2>1, <2>2
  <2>6. \A i \in 1 .. n :
          /\ a.at <= a.at + (i - 1) * s.cadence /\ a.at + (i - 1) * s.cadence <= b.at
          /\ \A j \in 1 .. n : i < j => a.at + (i - 1) * s.cadence < a.at + (j - 1) * s.cadence
    BY <2>1, <2>5, CadenceSteps
  <2>7. n \in Int /\ \A i \in 1 .. n : a.at + (i - 1) * s.cadence \in Int
    BY <2>1
  <2>8. /\ DOMAIN Attempts(s) = 1 .. n
        /\ \A i \in 1 .. n : /\ Attempts(s)[i].scale = a.scale
                             /\ Attempts(s)[i].at = a.at + (i - 1) * s.cadence
    BY <2>3
  <2> HIDE DEF n
  <2>9. \A i, j \in 1 .. n : i < j => Attempts(s)[i].at < Attempts(s)[j].at
    BY <2>6, <2>8
  <2>10. ASSUME NEW i \in 1 .. n
         PROVE  /\ Attempts(s)[i].scale = start.scale => Attempts(s)[i].at >= start.at
                /\ Attempts(s)[i].scale = end.scale => Attempts(s)[i].at <= end.at
    <3>1. PICK t : t = a.at + (i - 1) * s.cadence
      OBVIOUS
    <3>2. t \in Int /\ a.at <= t /\ t <= b.at
      BY <2>6, <2>7, <3>1
    <3>3. Attempts(s)[i].scale = a.scale /\ Attempts(s)[i].at = t
      BY <2>8, <3>1
    <3> QED
      BY <1>0, <2>1, <2>4, <3>2, <3>3
  <2> QED
    BY <2>8, <2>9, <2>10
<1> QED
  BY <1>1, <1>2 DEF TypedSchedule

\* No schedule of an accepted request attempts an observation outside the range
\* of the run or goes back in time within a scale, explicit and periodic ones
\* alike, where the scales leave no doubt.
THEOREM SchedulesRunForward == Spec => []AttemptsRunForward
<1>1. DraftInv => AttemptsRunForward
  <2> SUFFICES ASSUME DraftInv, Accepted, NEW k \in DOMAIN draft.schedules
               PROVE  LET s == draft.schedules[k] IN
                      s.kind = "EXPLICIT" \/ s.epochs[1].scale = s.epochs[2].scale =>
                        /\ \A i, j \in DOMAIN Attempts(s) :
                             i < j /\ Attempts(s)[i].scale = Attempts(s)[j].scale =>
                               Attempts(s)[i].at < Attempts(s)[j].at
                        /\ \A i \in DOMAIN Attempts(s) :
                             /\ Attempts(s)[i].scale = draft.start.scale =>
                                  Attempts(s)[i].at >= draft.start.at
                             /\ Attempts(s)[i].scale = draft.end.scale =>
                                  Attempts(s)[i].at <= draft.end.at
    BY DEF AttemptsRunForward
  <2>1. draft.schedules[k] \in Listable("schedules", Schedules)
    BY DEF DraftInv
  <2>2. PICK s : s = draft.schedules[k]
    OBVIOUS
  <2>3. TypedSchedule(s)
    BY <2>1, <2>2, ScenarioAssumption
  <2>4. ValidSchedule(s) /\ Resolved(s, draft)
    BY <2>2 DEF DraftInv, ValidRequest
  <2>5. draft.start \in Instants /\ draft.end \in Instants
    BY DEF DraftInv
  <2> QED
    BY <2>2, <2>3, <2>4, <2>5, AttemptsOrdered DEF Resolved
<1> QED
  BY <1>1, ScenarioInvariant, PTL

-------------------------------------------------------------------------------
\* The sensors of the hosts, taken together, are at as many places as apart.
LEMMA SensorPlaces ==
  ASSUME NEW entities, entities \in Seq(Listable("entities", Entities))
  PROVE  LET s == [i \in DOMAIN entities |->
                     IF entities[i].kind \in Hosts THEN entities[i].sensors ELSE <<>>]
         IN  PlacesOf(Sensors(entities), s, Len(entities))
<1> DEFINE s == [i \in DOMAIN entities |->
                  IF entities[i].kind \in Hosts THEN entities[i].sensors ELSE <<>>]
           All == UNION {Range(entities[i].sensors) : i \in DOMAIN entities}
<1>1. PICK n \in Nat : n = Len(entities) /\ DOMAIN entities = 1 .. n
  OBVIOUS
<1>2. ASSUME NEW i \in DOMAIN entities
      PROVE  s[i] \in Seq(All)
  <2>1. entities[i] \in Listable("entities", Entities)
    OBVIOUS
  <2>2. entities[i].sensors \in Seq(Range(entities[i].sensors))
    BY <2>1, ScenarioAssumption DEF TypedEntity
  <2>3. Range(entities[i].sensors) \subseteq All
    OBVIOUS
  <2>4. ASSUME NEW R, NEW q \in Seq(R), R \subseteq All
        PROVE  q \in Seq(All)
    BY <2>4
  <2>5. entities[i].sensors \in Seq(All)
    BY <2>2, <2>3, <2>4
  <2>6. <<>> \in Seq(All)
    OBVIOUS
  <2> HIDE DEF All
  <2> QED
    BY <2>5, <2>6
<1>3. s \in [1 .. n -> Seq(All)]
  <2>1. s = [i \in 1 .. n |-> s[i]] /\ \A i \in 1 .. n : s[i] \in Seq(All)
    BY <1>1, <1>2
  <2> HIDE DEF s, All
  <2> QED
    BY <2>1
<1>4. Sensors(entities) = FlattenSeq(s)
  BY DEF Sensors
<1> HIDE DEF s, All
<1>5. PlacesOf(FlattenSeq(s), s, n)
  BY <1>3, FlattenPlaces
<1> QED
  BY <1>1, <1>4, <1>5 DEF s

\* Ids given once name one thing.
LEMMA OneNamed ==
  ASSUME NEW seq, Unique(Field(seq, "id")), NEW id \in Ids(seq)
  PROVE  Cardinality({i \in DOMAIN seq : seq[i].id = id}) = 1
<1>1. PICK k \in DOMAIN seq : seq[k].id = id
  BY DEF Ids
<1>2. \A i \in DOMAIN seq : seq[i].id = id => i = k
  <2>1. /\ DOMAIN Field(seq, "id") = DOMAIN seq
        /\ \A i \in DOMAIN seq : Field(seq, "id")[i] = seq[i].id
    BY DEF Field
  <2> QED
    BY <1>1, <2>1 DEF Unique, IsInjective
<1>3. {i \in DOMAIN seq : seq[i].id = id} = {k}
  BY <1>1, <1>2
<1> QED
  BY <1>3, FS_Singleton

\* A sensor id of a world is mounted at one place of one host.
LEMMA OneMounted ==
  ASSUME NEW entities, entities \in Seq(Listable("entities", Entities)),
         Unique(Field(Sensors(entities), "id")), NEW id \in Ids(Sensors(entities))
  PROVE  Cardinality(UNION {
           {<<i, j>> : j \in {j \in DOMAIN entities[i].sensors :
                                entities[i].sensors[j].id = id}} :
             i \in {i \in DOMAIN entities : entities[i].kind \in Hosts}}) = 1
<1> DEFINE s == [i \in DOMAIN entities |->
                  IF entities[i].kind \in Hosts THEN entities[i].sensors ELSE <<>>]
           All == Sensors(entities)
           Mounted == UNION {
             {<<i, j>> : j \in {j \in DOMAIN entities[i].sensors :
                                  entities[i].sensors[j].id = id}} :
               i \in {i \in DOMAIN entities : entities[i].kind \in Hosts}}
<1>1. PlacesOf(All, s, Len(entities)) /\ DOMAIN entities = 1 .. Len(entities)
  BY SensorPlaces
<1>2. \A p, q \in DOMAIN All : All[p].id = All[q].id => p = q
  <2>1. /\ DOMAIN Field(All, "id") = DOMAIN All
        /\ \A i \in DOMAIN All : Field(All, "id")[i] = All[i].id
    BY DEF Field
  <2> QED
    BY <2>1 DEF Unique, IsInjective
<1>3. PICK p \in DOMAIN All : All[p].id = id
  BY DEF Ids
<1> HIDE DEF All
<1>4. \A i \in DOMAIN entities : \A j \in DOMAIN s[i] :
        entities[i].kind \in Hosts /\ s[i] = entities[i].sensors
  OBVIOUS
<1>5. \A i \in DOMAIN entities : entities[i].kind \in Hosts => s[i] = entities[i].sensors
  OBVIOUS
<1>6. PICK i \in DOMAIN entities : \E j \in DOMAIN s[i] : All[p] = s[i][j]
  BY <1>1 DEF PlacesOf
<1>7. PICK j \in DOMAIN s[i] : All[p] = s[i][j]
  BY <1>6
<1>8. \A h \in DOMAIN entities : \A g \in DOMAIN s[h] : s[h][g].id = id => h = i /\ g = j
  <2> SUFFICES ASSUME NEW h \in DOMAIN entities, NEW g \in DOMAIN s[h], s[h][g].id = id,
                      i # h \/ j # g
               PROVE  FALSE
    OBVIOUS
  <2>1. PICK x \in DOMAIN All, y \in DOMAIN All : x # y /\ All[x] = s[i][j] /\ All[y] = s[h][g]
    BY <1>1 DEF PlacesOf
  <2> QED
    BY <1>2, <1>3, <1>7, <2>1
<1>9. Mounted = {<<i, j>>}
  <2>1. <<i, j>> \in Mounted
    <3>1. entities[i].kind \in Hosts /\ s[i] = entities[i].sensors
      BY <1>4
    <3>2. j \in DOMAIN entities[i].sensors /\ entities[i].sensors[j].id = id
      BY <1>3, <1>7, <3>1
    <3> DEFINE at == {<<i, x>> : x \in {x \in DOMAIN entities[i].sensors :
                                        entities[i].sensors[x].id = id}}
    <3>3. <<i, j>> \in at
      BY <3>2
    <3>4. at \subseteq Mounted
      BY <3>1
    <3> HIDE DEF at, Mounted
    <3> QED
      BY <3>3, <3>4
  <2>2. ASSUME NEW m \in Mounted
        PROVE  m = <<i, j>>
    <3>1. PICK h, g :
            /\ h \in DOMAIN entities /\ entities[h].kind \in Hosts /\ g \in DOMAIN entities[h].sensors
            /\ entities[h].sensors[g].id = id /\ m = <<h, g>>
      <4>1. PICK h \in {h \in DOMAIN entities : entities[h].kind \in Hosts} :
              m \in {<<h, x>> : x \in {x \in DOMAIN entities[h].sensors :
                                       entities[h].sensors[x].id = id}}
        OBVIOUS
      <4>2. PICK g \in {g \in DOMAIN entities[h].sensors : entities[h].sensors[g].id = id} :
              m = <<h, g>>
        BY <4>1
      <4> QED
        BY <4>1, <4>2
    <3>2. h \in DOMAIN entities /\ g \in DOMAIN s[h] /\ s[h][g].id = id
      <4>1. s[h] = entities[h].sensors
        BY <1>5, <3>1
      <4> QED
        BY <3>1, <4>1
    <3>3. h = i /\ g = j
      BY <1>8, <3>2
    <3> QED
      BY <3>1, <3>3
  <2> HIDE DEF Mounted
  <2> QED
    BY <2>1, <2>2
<1> HIDE DEF Mounted
<1>10. Cardinality(Mounted) = 1
  BY <1>9, FS_Singleton
<1> QED
  BY <1>10 DEF Mounted

\* Every id an accepted request refers to names one thing, so that a lookup that
\* keeps one of several things of an id loses none: sensors are unique across
\* their hosts and no platform, targets and spacecraft are one entity, and a
\* planned maneuver and a command never share their id.
THEOREM ReferencesNameOneThing == Spec => []ReferencesHaveOneReading
<1>1. DraftInv => ReferencesHaveOneReading
  <2> SUFFICES ASSUME DraftInv, Accepted
               PROVE  ReferencesHaveOneReading
    BY DEF ReferencesHaveOneReading
  <2>1. ValidWorld(draft) /\ ValidRequest(draft)
        /\ draft.entities \in Seq(Listable("entities", Entities))
    BY DEF DraftInv, ValidRequest
  <2>2. /\ Unique(Field(draft.entities, "id")) /\ Unique(Field(draft.planned, "id"))
        /\ Unique(Field(Sensors(draft.entities), "id"))
        /\ Ids(draft.entities) \cap Ids(Sensors(draft.entities)) = {}
        /\ \A i \in DOMAIN draft.planned : Bound(draft.planned[i], draft.entities)
    BY <2>1 DEF ValidWorld
  <2>3. /\ Unique(Field(draft.commands, "id")) /\ Ids(draft.planned) \cap Ids(draft.commands) = {}
        /\ \A i \in DOMAIN draft.commands : Bound(draft.commands[i], draft.entities)
        /\ \A k \in DOMAIN draft.schedules : Resolved(draft.schedules[k], draft)
    BY <2>1 DEF ValidRequest
  <2>4. ASSUME NEW k \in DOMAIN draft.schedules
        PROVE  /\ draft.schedules[k].sensor \in Ids(Sensors(draft.entities))
               /\ draft.schedules[k].target \in Ids(draft.entities)
    BY <2>3 DEF Resolved
  <2>5. ASSUME NEW k \in DOMAIN draft.schedules
        PROVE  {i \in DOMAIN draft.entities :
                  draft.entities[i].id = draft.schedules[k].sensor} = {}
    BY <2>2, <2>4 DEF Ids
  <2>6. ASSUME NEW m \in Range(draft.planned) \cup Range(draft.commands)
        PROVE  m.spacecraft \in Ids(draft.entities)
    BY <2>2, <2>3 DEF Bound, Range
  <2>7. ASSUME NEW id, id \in Ids(draft.planned) \cup Ids(draft.commands)
        PROVE  Cardinality({k \in DOMAIN draft.planned : draft.planned[k].id = id}) +
                 Cardinality({k \in DOMAIN draft.commands : draft.commands[k].id = id}) = 1
    <3>1. CASE id \in Ids(draft.planned)
      <4>1. {k \in DOMAIN draft.commands : draft.commands[k].id = id} = {}
        BY <2>3, <3>1 DEF Ids
      <4>2. Cardinality({k \in DOMAIN draft.planned : draft.planned[k].id = id}) = 1
        BY <2>2, <3>1, OneNamed
      <4> QED
        BY <4>1, <4>2, FS_EmptySet
    <3>2. CASE id \in Ids(draft.commands)
      <4>1. {k \in DOMAIN draft.planned : draft.planned[k].id = id} = {}
        BY <2>3, <3>2 DEF Ids
      <4>2. Cardinality({k \in DOMAIN draft.commands : draft.commands[k].id = id}) = 1
        BY <2>3, <3>2, OneNamed
      <4>3. Cardinality({k \in DOMAIN draft.planned : draft.planned[k].id = id}) = 0
        BY <4>1, FS_EmptySet
      <4> QED
        BY <4>2, <4>3
    <3> QED
      BY <2>7, <3>1, <3>2
  <2>8. \A m \in Range(draft.planned) \cup Range(draft.commands) :
          m.id \in Ids(draft.planned) \cup Ids(draft.commands)
    BY DEF Range, Ids
  <2>9. \A id \in Ids(draft.entities) :
          Cardinality({i \in DOMAIN draft.entities : draft.entities[i].id = id}) = 1
    BY <2>2, OneNamed
  <2>10. \A id \in Ids(Sensors(draft.entities)) :
           Cardinality(UNION {
             {<<i, j>> : j \in {j \in DOMAIN draft.entities[i].sensors :
                                  draft.entities[i].sensors[j].id = id}} :
               i \in {i \in DOMAIN draft.entities : draft.entities[i].kind \in Hosts}}) = 1
    <3>1. PICK entities : entities = draft.entities
      OBVIOUS
    <3> QED
      BY <2>1, <2>2, <3>1, OneMounted
  <2> QED
    BY <2>4, <2>5, <2>6, <2>7, <2>8, <2>9, <2>10 DEF ReferencesHaveOneReading
<1> QED
  BY <1>1, ScenarioInvariant, PTL

-------------------------------------------------------------------------------
\* Core's verdict is on the artifact in its hands.
FactInv ==
  /\ record # Absent => record \in Records /\ accepted = ValidRecord(record)
  /\ envelope # Absent => envelope \in Envelopes /\ accepted = ValidEnvelope(envelope)
  /\ summary # Absent => summary \in Summaries /\ accepted = Conserved(summary)

LEMMA FactInit == DeliveryInit => FactInv
BY DEF DeliveryInit, FactInv

LEMMA FactKept == FactInv /\ [DeliveryNext]_deliveryVars => FactInv'
<1> SUFFICES ASSUME FactInv, [DeliveryNext]_deliveryVars
             PROVE  FactInv'
  OBVIOUS
<1>1. ASSUME NEW r \in Records, Record(r)
      PROVE  FactInv'
  BY <1>1 DEF FactInv, Record, Nothing, Absent, ValidRecord, GeometryRejected,
    ErrorPipelineRejection, PayloadTerminal, Untimed, InTime
<1>2. ASSUME NEW e \in Envelopes, Stream(e)
      PROVE  FactInv'
  BY <1>2 DEF FactInv, Stream, Nothing, Absent, ValidEnvelope, InTime
<1>3. ASSUME NEW s \in Summaries, Summarize(s)
      PROVE  FactInv'
  BY <1>3 DEF FactInv, Summarize, Nothing, Absent, Conserved
<1>4. CASE UNCHANGED deliveryVars
  BY <1>4 DEF FactInv, deliveryVars, Absent, ValidRecord, GeometryRejected,
    ErrorPipelineRejection, PayloadTerminal, Untimed, InTime, ValidEnvelope, Conserved
<1> QED
  BY <1>1, <1>2, <1>3, <1>4 DEF DeliveryNext

\* Core's checks of a record leave exactly those that tell a history.
LEMMA RecordsTell ==
  ASSUME NEW r \in Records
  PROVE  ValidRecord(r) <=> r \in Tellable
<1>0. /\ r.event \in Events /\ r.channel \in Channels /\ r.outcome \in Outcomes
      /\ r.measured \in Epochs /\ r.delivery \in Optional(Epochs) /\ r.latency \in Optional(Latencies)
      /\ r.idealId \in BOOLEAN /\ r.reportedId \in BOOLEAN /\ r.hash \in BOOLEAN
      /\ r.reason \in Reasons
  BY DEF Records
<1>1. ASSUME NEW h \in Histories, Causal(h), r = Told(h)
      PROVE  ValidRecord(r)
  <2>1. /\ r.channel = h.channel /\ r.outcome = h.end /\ r.measured = h.measured
        /\ r.delivery = (IF h.end = "DELIVERED" THEN {h.delivery} ELSE {})
        /\ r.latency = (IF h.end = "DELIVERED" THEN {h.latency} ELSE {})
        /\ r.idealId = (h.end # "GEOMETRY_REJECTED")
        /\ r.reportedId = (h.channel = "REPORTED" /\ Sent(h))
        /\ r.hash = (Sent(h) \/ (h.noted /\ h.end # "GEOMETRY_REJECTED"))
        /\ r.reason = (IF h.end = "GEOMETRY_REJECTED" THEN "geometry" ELSE h.reason)
    BY <1>1 DEF Told
  <2>2. /\ h.end \in Ends(h.channel) /\ h.latency \in Nat /\ h.channel \in Channels
        /\ h.measured \in Epochs /\ h.delivery \in Epochs
    BY DEF Histories
  <2>3. CASE h.end = "GEOMETRY_REJECTED"
    BY <2>1, <2>3 DEF ValidRecord, GeometryRejected, Untimed, Sent
  <2>4. CASE h.end \in {"SENSOR_MISSED", "QUALITY_REJECTED"}
    <3>1. h.channel = "REPORTED"
      BY <2>2, <2>4 DEF Ends, Channels
    <3> QED
      BY <2>1, <2>4, <3>1 DEF ValidRecord, ErrorPipelineRejection, Untimed, Sent
  <2>5. CASE h.end = "LINK_DROPPED"
    BY <2>1, <2>5 DEF ValidRecord, PayloadTerminal, Untimed, Sent
  <2>6. CASE h.end = "DELIVERED"
    <3>1. h.measured.at \in Int /\ h.delivery.at \in Int
      BY <2>2, DeliveryAssumption
    <3>2. InTime(h.measured, h.delivery)
      BY <1>1, <2>6, <3>1 DEF Causal, InTime
    <3>3. /\ r.delivery = {h.delivery} /\ r.latency = {h.latency} /\ r.measured = h.measured
          /\ r.outcome = "DELIVERED" /\ r.idealId /\ r.hash
          /\ r.reportedId = (r.channel = "REPORTED")
      BY <2>1, <2>6 DEF Sent
    <3>4. PayloadTerminal(r)
      BY <2>2, <3>2, <3>3 DEF PayloadTerminal
    <3> QED
      BY <3>3, <3>4 DEF ValidRecord
  <2>7. h.end \in Outcomes
    BY <2>2 DEF Ends
  <2> QED
    BY <2>3, <2>4, <2>5, <2>6, <2>7 DEF Outcomes
<1>2. ASSUME ValidRecord(r)
      PROVE  \E h \in Histories : Causal(h) /\ r = Told(h)
  <2>1. PICK latency \in Latencies \cap Nat : r.outcome = "DELIVERED" => r.latency = {latency}
    <3>1. CASE r.outcome = "DELIVERED"
      <4>1. r.latency # {} /\ \A s \in r.latency : s >= 0
        BY <1>2, <3>1 DEF ValidRecord, PayloadTerminal
      <4>2. PICK s \in Latencies : r.latency = {s}
        BY <1>0, <4>1 DEF Optional
      <4>3. s \in Nat
        BY <4>1, <4>2, DeliveryAssumption
      <4> QED
        BY <4>2, <4>3
    <3>2. CASE r.outcome # "DELIVERED"
      BY <3>2, DeliveryAssumption
    <3> QED
      BY <3>1, <3>2
  <2>2. PICK delivery \in Epochs :
          r.outcome = "DELIVERED" =>
            r.delivery = {delivery} /\ delivery.scale = r.measured.scale
              /\ delivery.at >= r.measured.at
    <3>1. CASE r.outcome = "DELIVERED"
      <4>1. r.delivery # {} /\ \A d \in r.delivery : InTime(r.measured, d)
        BY <1>2, <3>1 DEF ValidRecord, PayloadTerminal
      <4>2. PICK d \in Epochs : r.delivery = {d}
        BY <1>0, <4>1 DEF Optional
      <4>3. d.scale = r.measured.scale /\ ~ (d.at < r.measured.at)
        BY <4>1, <4>2 DEF InTime
      <4>4. d.at \in Int /\ r.measured.at \in Int
        BY <1>0, <4>2, DeliveryAssumption
      <4> QED
        BY <3>1, <4>2, <4>3, <4>4
    <3>2. CASE r.outcome # "DELIVERED"
      BY <1>0, <3>2
    <3> QED
      BY <3>1, <3>2
  <2> DEFINE h == [event |-> r.event, channel |-> r.channel, end |-> r.outcome, measured |-> r.measured,
                   latency |-> latency, delivery |-> delivery, noted |-> r.hash,
                   reason |-> r.reason]
  <2>3. r.outcome \in Ends(r.channel)
    <3>1. r.outcome \in {"SENSOR_MISSED", "QUALITY_REJECTED"} => r.channel = "REPORTED"
      BY <1>2 DEF ValidRecord, ErrorPipelineRejection
    <3> QED
      BY <1>0, <3>1 DEF Ends
  <2>4. h \in Histories
    <3>1. h \in [event : Events, channel : {r.channel}, end : Ends(r.channel), measured : Epochs,
                 latency : Latencies \cap Nat, delivery : Epochs, noted : BOOLEAN,
                 reason : Reasons]
      BY <1>0, <2>3
    <3> HIDE DEF h
    <3> QED
      BY <1>0, <3>1 DEF Histories
  <2>5. Causal(h)
    BY <2>2 DEF Causal
  <2>6. Told(h) = [event |-> r.event, channel |-> r.channel, outcome |-> r.outcome,
          measured   |-> r.measured,
          delivery   |-> IF r.outcome = "DELIVERED" THEN {delivery} ELSE {},
          latency    |-> IF r.outcome = "DELIVERED" THEN {latency} ELSE {},
          idealId    |-> r.outcome # "GEOMETRY_REJECTED",
          reportedId |-> r.channel = "REPORTED" /\ r.outcome \in {"LINK_DROPPED", "DELIVERED"},
          hash       |-> r.outcome \in {"LINK_DROPPED", "DELIVERED"}
                           \/ (r.hash /\ r.outcome # "GEOMETRY_REJECTED"),
          reason     |-> IF r.outcome = "GEOMETRY_REJECTED" THEN "geometry" ELSE r.reason]
    BY DEF Told, Sent
  <2>7. /\ r.delivery = (IF r.outcome = "DELIVERED" THEN {delivery} ELSE {})
        /\ r.latency = (IF r.outcome = "DELIVERED" THEN {latency} ELSE {})
    <3>1. r.outcome # "DELIVERED" => Untimed(r)
      BY <1>0, <1>2 DEF ValidRecord, GeometryRejected, ErrorPipelineRejection, PayloadTerminal
    <3> QED
      BY <2>1, <2>2, <3>1 DEF Untimed
  <2>8. /\ r.idealId = (r.outcome # "GEOMETRY_REJECTED")
        /\ r.reportedId = (r.channel = "REPORTED" /\ r.outcome \in {"LINK_DROPPED", "DELIVERED"})
        /\ r.hash = (r.outcome \in {"LINK_DROPPED", "DELIVERED"}
                       \/ (r.hash /\ r.outcome # "GEOMETRY_REJECTED"))
        /\ r.reason = (IF r.outcome = "GEOMETRY_REJECTED" THEN "geometry" ELSE r.reason)
    <3>1. CASE r.outcome = "GEOMETRY_REJECTED"
      BY <1>0, <1>2, <3>1 DEF ValidRecord, GeometryRejected
    <3>2. CASE r.outcome \in {"SENSOR_MISSED", "QUALITY_REJECTED"}
      BY <1>0, <1>2, <3>2 DEF ValidRecord, ErrorPipelineRejection
    <3>3. CASE r.outcome \in {"LINK_DROPPED", "DELIVERED"}
      BY <1>0, <1>2, <3>3 DEF ValidRecord, PayloadTerminal
    <3> QED
      BY <1>0, <3>1, <3>2, <3>3 DEF Outcomes
  <2>9. r = [event |-> r.event, channel |-> r.channel, outcome |-> r.outcome,
             measured |-> r.measured,
             delivery |-> r.delivery, latency |-> r.latency, idealId |-> r.idealId,
             reportedId |-> r.reportedId, hash |-> r.hash, reason |-> r.reason]
    BY DEF Records
  <2> HIDE DEF h
  <2> QED
    BY <2>4, <2>5, <2>6, <2>7, <2>8, <2>9
<1> QED
  BY <1>1, <1>2 DEF Tellable

\* Core's checks of an envelope leave exactly those that hand over the
\* observation of an event that can be delivered so.
LEMMA EnvelopesTell ==
  ASSUME NEW e \in Envelopes
  PROVE  ValidEnvelope(e) <=> e \in Handable
<1>1. /\ e.event \in Events /\ e.delivery \in Epochs
      /\ e.observation \in [event : Events, measured : Epochs]
      /\ e = [event |-> e.event, delivery |-> e.delivery, observation |-> e.observation]
  BY DEF Envelopes
<1>2. /\ e.observation.measured \in Epochs
      /\ e.observation = [event |-> e.observation.event, measured |-> e.observation.measured]
  BY <1>1
<1>3. e.delivery.at \in Int /\ e.observation.measured.at \in Int
  BY <1>1, <1>2, DeliveryAssumption
<1>4. ASSUME NEW h \in Histories, Causal(h), h.end = "DELIVERED", e = Handed(h)
      PROVE  ValidEnvelope(e)
  <2>1. /\ e.event = e.observation.event
        /\ h.measured = e.observation.measured /\ h.delivery = e.delivery
    BY <1>4 DEF Handed
  <2> QED
    BY <1>3, <1>4, <2>1 DEF Causal, ValidEnvelope, InTime
<1>5. ASSUME ValidEnvelope(e)
      PROVE  \E h \in Histories : (Causal(h) /\ h.end = "DELIVERED") /\ e = Handed(h)
  <2>1. PICK latency \in Latencies \cap Nat : TRUE
    BY DeliveryAssumption
  <2> DEFINE h == [event |-> e.event, channel |-> "IDEAL", end |-> "DELIVERED",
                   measured |-> e.observation.measured, latency |-> latency,
                   delivery |-> e.delivery, noted |-> TRUE, reason |-> "other"]
  <2>2. h \in Histories
    <3>1. "DELIVERED" \in Ends("IDEAL") /\ "IDEAL" \in Channels /\ "other" \in Reasons
      BY DEF Ends, Outcomes, Channels, Reasons
    <3>2. h \in [event : Events, channel : {"IDEAL"}, end : Ends("IDEAL"),
                 measured : Epochs, latency : Latencies \cap Nat, delivery : Epochs,
                 noted : BOOLEAN, reason : Reasons]
      BY <1>1, <1>2, <2>1, <3>1
    <3> HIDE DEF h
    <3> QED
      BY <3>1, <3>2 DEF Histories
  <2>3. e.event = e.observation.event /\ InTime(e.observation.measured, e.delivery)
    BY <1>5 DEF ValidEnvelope
  <2>4. Causal(h)
    BY <1>3, <2>3 DEF Causal, InTime
  <2>5. e = Handed(h)
    BY <1>1, <1>2, <2>3 DEF Handed
  <2> QED
    BY <2>2, <2>4, <2>5
<1> QED
  BY <1>4, <1>5 DEF Handable

\* The events that ended one way.
Ended(ends, o) == {e \in DOMAIN ends : ends[e] = o}

\* Every event ends one way, so the counts of the ways add up to the events.
LEMMA EndsAddUp ==
  ASSUME NEW n \in Nat, NEW ends \in [1 .. n -> Outcomes]
  PROVE  Cardinality(Ended(ends, "DELIVERED")) + Cardinality(Ended(ends, "GEOMETRY_REJECTED"))
           + Cardinality(Ended(ends, "SENSOR_MISSED"))
           + Cardinality(Ended(ends, "QUALITY_REJECTED"))
           + Cardinality(Ended(ends, "LINK_DROPPED")) = n
<1> DEFINE E(o) == Ended(ends, o)
<1>1. IsFiniteSet(1 .. n) /\ Cardinality(1 .. n) = n
  BY FS_Interval
<1>2. ASSUME NEW o
      PROVE  IsFiniteSet(E(o)) /\ Cardinality(E(o)) \in Nat
  <2>1. E(o) \in SUBSET (1 .. n)
    BY DEF Ended
  <2> QED
    BY <1>1, <2>1, FS_Subset, FS_CardinalityType
<1>3. ASSUME NEW S, NEW T, IsFiniteSet(S), IsFiniteSet(T), S \cap T = {}
      PROVE  IsFiniteSet(S \cup T) /\ Cardinality(S \cup T) = Cardinality(S) + Cardinality(T)
  <2>1. /\ IsFiniteSet(S \cup T)
        /\ Cardinality(S \cup T) = Cardinality(S) + Cardinality(T) - Cardinality(S \cap T)
    BY <1>3, FS_Union
  <2>2. Cardinality(S \cap T) = 0 /\ Cardinality(S) \in Nat /\ Cardinality(T) \in Nat
    BY <1>3, FS_EmptySet, FS_CardinalityType
  <2> QED
    BY <2>1, <2>2
<1>4. PICK A, B, C, D, F :
        /\ A = E("DELIVERED") /\ B = E("GEOMETRY_REJECTED") /\ C = E("SENSOR_MISSED")
        /\ D = E("QUALITY_REJECTED") /\ F = E("LINK_DROPPED")
  OBVIOUS
<1>5. /\ A \cap B = {} /\ (A \cup B) \cap C = {} /\ ((A \cup B) \cup C) \cap D = {}
      /\ (((A \cup B) \cup C) \cup D) \cap F = {}
  BY <1>4 DEF Ended
<1>6. (((A \cup B) \cup C) \cup D) \cup F = 1 .. n
  BY <1>4 DEF Ended, Outcomes
<1>7. /\ IsFiniteSet(A) /\ IsFiniteSet(B) /\ IsFiniteSet(C) /\ IsFiniteSet(D) /\ IsFiniteSet(F)
      /\ Cardinality(A) \in Nat /\ Cardinality(B) \in Nat /\ Cardinality(C) \in Nat
      /\ Cardinality(D) \in Nat /\ Cardinality(F) \in Nat
  BY <1>2, <1>4
<1> HIDE DEF E
<1>8. IsFiniteSet(A \cup B) /\ Cardinality(A \cup B) = Cardinality(A) + Cardinality(B)
  BY <1>3, <1>5, <1>7
<1>9. /\ IsFiniteSet((A \cup B) \cup C)
      /\ Cardinality((A \cup B) \cup C) = Cardinality(A) + Cardinality(B) + Cardinality(C)
  BY <1>3, <1>5, <1>7, <1>8
<1>10. /\ IsFiniteSet(((A \cup B) \cup C) \cup D)
       /\ Cardinality(((A \cup B) \cup C) \cup D) =
            Cardinality(A) + Cardinality(B) + Cardinality(C) + Cardinality(D)
  BY <1>3, <1>5, <1>7, <1>9
<1>11. Cardinality((((A \cup B) \cup C) \cup D) \cup F) =
         Cardinality(A) + Cardinality(B) + Cardinality(C) + Cardinality(D) + Cardinality(F)
  BY <1>3, <1>5, <1>7, <1>10
<1>12. Cardinality(A) + Cardinality(B) + Cardinality(C) + Cardinality(D) + Cardinality(F) = n
  BY <1>1, <1>6, <1>11
<1> QED
  BY <1>4, <1>12 DEF E

\* Numbers that add up to n count the ends of n events: the first of them ended
\* one way, the next ones another.
LEMMA EndsExist ==
  ASSUME NEW n \in Nat, NEW counts \in [Outcomes -> Nat],
         counts["DELIVERED"] + counts["GEOMETRY_REJECTED"] + counts["SENSOR_MISSED"]
           + counts["QUALITY_REJECTED"] + counts["LINK_DROPPED"] = n
  PROVE  \E ends \in [1 .. n -> Outcomes] :
           \A o \in Outcomes : Cardinality(Ended(ends, o)) = counts[o]
<1>1. PICK a \in Nat, b \in Nat, c \in Nat, d \in Nat, f \in Nat :
        /\ a = counts["DELIVERED"] /\ b = counts["GEOMETRY_REJECTED"]
        /\ c = counts["SENSOR_MISSED"] /\ d = counts["QUALITY_REJECTED"]
        /\ f = counts["LINK_DROPPED"] /\ a + b + c + d + f = n
  BY DEF Outcomes
<1> DEFINE end(e) == IF e <= a THEN "DELIVERED"
                     ELSE IF e <= a + b THEN "GEOMETRY_REJECTED"
                     ELSE IF e <= a + b + c THEN "SENSOR_MISSED"
                     ELSE IF e <= a + b + c + d THEN "QUALITY_REJECTED" ELSE "LINK_DROPPED"
           ends == [e \in 1 .. n |-> end(e)]
<1>2. ends \in [1 .. n -> Outcomes]
  BY DEF Outcomes
<1>3. /\ Ended(ends, "DELIVERED") = 1 .. a
      /\ Ended(ends, "GEOMETRY_REJECTED") = a + 1 .. a + b
      /\ Ended(ends, "SENSOR_MISSED") = a + b + 1 .. a + b + c
      /\ Ended(ends, "QUALITY_REJECTED") = a + b + c + 1 .. a + b + c + d
      /\ Ended(ends, "LINK_DROPPED") = a + b + c + d + 1 .. n
  <2>1. ASSUME NEW o
        PROVE  Ended(ends, o) = {e \in 1 .. n : end(e) = o}
    BY DEF Ended
  <2>2. {e \in 1 .. n : end(e) = "DELIVERED"} = 1 .. a
    BY <1>1
  <2>3. {e \in 1 .. n : end(e) = "GEOMETRY_REJECTED"} = a + 1 .. a + b
    BY <1>1
  <2>4. {e \in 1 .. n : end(e) = "SENSOR_MISSED"} = a + b + 1 .. a + b + c
    BY <1>1
  <2>5. {e \in 1 .. n : end(e) = "QUALITY_REJECTED"} = a + b + c + 1 .. a + b + c + d
    BY <1>1
  <2>6. {e \in 1 .. n : end(e) = "LINK_DROPPED"} = a + b + c + d + 1 .. n
    BY <1>1
  <2> HIDE DEF ends, end
  <2> QED
    BY <2>1, <2>2, <2>3, <2>4, <2>5, <2>6
<1>4. ASSUME NEW x \in Nat, NEW y \in Nat
      PROVE  Cardinality(x + 1 .. x + y) = y
  BY FS_Interval
<1>5. /\ Cardinality(1 .. a) = a
      /\ Cardinality(a + 1 .. a + b) = b
      /\ Cardinality(a + b + 1 .. a + b + c) = c
      /\ Cardinality(a + b + c + 1 .. a + b + c + d) = d
      /\ Cardinality(a + b + c + d + 1 .. n) = f
  <2>1. Cardinality(0 + 1 .. 0 + a) = a
    BY <1>4
  <2>2. 0 + 1 = 1 /\ 0 + a = a
    OBVIOUS
  <2>3. a + b \in Nat /\ a + b + c \in Nat /\ a + b + c + d \in Nat
    OBVIOUS
  <2>4. Cardinality(a + b + c + d + 1 .. a + b + c + d + f) = f
    BY <1>4, <2>3
  <2> QED
    BY <1>1, <1>4, <2>1, <2>2, <2>3, <2>4
<1> HIDE DEF ends
<1>6. \A o \in Outcomes : Cardinality(Ended(ends, o)) = counts[o]
  BY <1>1, <1>3, <1>5 DEF Outcomes
<1> QED
  BY <1>2, <1>6

\* A sum of counts that is the total is all that makes a summary one of events.
LEMMA SummariesCount ==
  ASSUME NEW s \in Summaries
  PROVE  Conserved(s) <=>
           \E ends \in [1 .. s.total -> Outcomes] : s.counts = Histogram(ends)
<1>1. PICK n, counts : n = s.total /\ counts = s.counts
  OBVIOUS
<1>2. n \in Nat /\ counts \in [Outcomes -> Nat]
  BY <1>1, DeliveryAssumption DEF Summaries
<1>3. ASSUME NEW ends
      PROVE  Histogram(ends) = [o \in Outcomes |-> Cardinality(Ended(ends, o))]
  BY DEF Histogram, Ended
<1>4. ASSUME NEW ends \in [1 .. n -> Outcomes], counts = Histogram(ends)
      PROVE  Conserved(s)
  <2>1. \A o \in Outcomes : counts[o] = Cardinality(Ended(ends, o))
    BY <1>3, <1>4
  <2>2. /\ "DELIVERED" \in Outcomes /\ "GEOMETRY_REJECTED" \in Outcomes
        /\ "SENSOR_MISSED" \in Outcomes /\ "QUALITY_REJECTED" \in Outcomes
        /\ "LINK_DROPPED" \in Outcomes
    BY DEF Outcomes
  <2> QED
    BY <1>1, <1>2, <2>1, <2>2, EndsAddUp DEF Conserved
<1>5. ASSUME Conserved(s)
      PROVE  \E ends \in [1 .. n -> Outcomes] : counts = Histogram(ends)
  <2>1. counts["DELIVERED"] + counts["GEOMETRY_REJECTED"] + counts["SENSOR_MISSED"]
          + counts["QUALITY_REJECTED"] + counts["LINK_DROPPED"] = n
    BY <1>1, <1>5 DEF Conserved
  <2>2. PICK ends \in [1 .. n -> Outcomes] :
          \A o \in Outcomes : Cardinality(Ended(ends, o)) = counts[o]
    BY <1>2, <2>1, EndsExist
  <2>3. counts = [o \in Outcomes |-> counts[o]]
    BY <1>2
  <2>4. counts = Histogram(ends)
    BY <1>3, <2>2, <2>3
  <2> QED
    BY <2>4
<1> QED
  BY <1>1, <1>4, <1>5

\* Core accepts a record exactly if it tells something that can happen to an
\* event, an envelope exactly if some event can be delivered so, and a summary
\* exactly if its counts are those of some events, each with one end: whatever a
\* producer writes, over all epochs and latencies and however many events.
THEOREM AcceptedFactsHappen == DeliverySpec => []FactsTellHistories
<1>1. FactInv => FactsTellHistories
  <2> SUFFICES ASSUME FactInv
               PROVE  FactsTellHistories
    OBVIOUS
  <2>1. record # Absent => (accepted <=> record \in Tellable)
    BY RecordsTell DEF FactInv
  <2>2. envelope # Absent => (accepted <=> envelope \in Handable)
    BY EnvelopesTell DEF FactInv
  <2>3. summary # Absent =>
          (accepted <=> \E ends \in [1 .. summary.total -> Outcomes] :
                          summary.counts = Histogram(ends))
    BY SummariesCount DEF FactInv
  <2> QED
    BY <2>1, <2>2, <2>3 DEF FactsTellHistories
<1> QED
  BY <1>1, FactInit, FactKept, PTL DEF DeliverySpec

-------------------------------------------------------------------------------
\* Squaring a deviation never gives a negative variance, and nothing for none.
LEMMA SquareIsVariance ==
  ASSUME NEW d \in Int
  PROVE  Square(d) \in Nat /\ (d = 0 => Square(d) = 0)
<1>1. PICK a \in Nat : a = d * d /\ (d = 0 => a = 0)
  <2>1. d * d \in Nat
    OBVIOUS
  <2> QED
    BY <2>1
<1>2. One \in Nat \ {0}
  BY ObservationAssumption
<1>3. Quotient(a, One) \in Nat
  <2>1. a \div One \in Nat /\ a % One \in Nat
    BY <1>2
  <2> QED
    BY <2>1 DEF Quotient
<1>4. a = 0 => a \div One = 0 /\ a % One = 0
  BY <1>2
<1>5. a = 0 => Quotient(a, One) = 0
  BY <1>2, <1>4 DEF Quotient
<1> QED
  BY <1>1, <1>3, <1>5 DEF Square

LEMMA DiagonalTyped ==
  ASSUME NEW ds \in Deviations
  PROVE  Diagonal(ds) \in Seq(Seq(Int))
<1>1. PICK n \in Nat : n = Len(ds) /\ DOMAIN ds = 1 .. n /\ \A i \in 1 .. n : ds[i] \in Int
  BY ObservationAssumption
<1>2. \A i, j \in 1 .. n : (IF i = j THEN Square(ds[i]) ELSE 0) \in Int
  <2>1. \A i \in 1 .. n : Square(ds[i]) \in Int
    BY <1>1, SquareIsVariance
  <2> QED
    BY <2>1
<1>3. Diagonal(ds) \in [1 .. n -> [1 .. n -> Int]]
  BY <1>1, <1>2 DEF Diagonal
<1> QED
  BY <1>3

\* A covariance was declared: it passed Core's checks, and has numbers.
Declared(u) ==
  /\ u.kind = "covariance" /\ u.covariance \in Seq(Seq(Int))
  /\ \E s, t \in Tolerances : ValidUncertainty(u, s, t)

\* What is reported was checked against what it is reported with, and a
\* covariance made from deviations is theirs.
ReportInv ==
  /\ uncertainty # None => Declared(uncertainty)
  /\ reported # None =>
       /\ ValidMeasurement(reported.measurement)
       /\ Aligned(reported.uncertainty, reported.measurement)
       /\ reported.uncertainty # None => Declared(reported.uncertainty)
  /\ deviations # <<>> =>
       /\ uncertainty # None /\ deviations \in Deviations
       /\ uncertainty.covariance = Diagonal(deviations)
       /\ \A i \in DOMAIN deviations : deviations[i] >= 0 /\ Representable(deviations[i])

LEMMA ReportInit == ObservationInit => ReportInv
BY DEF ObservationInit, ReportInv

LEMMA ReportKept == ReportInv /\ [ObservationNext]_observationVars => ReportInv'
<1> SUFFICES ASSUME ReportInv, [ObservationNext]_observationVars
             PROVE  ReportInv'
  OBVIOUS
<1>1. ASSUME NEW m \in Inputs, FormIdeal(m)
      PROVE  ReportInv'
  <2>1. uncertainty' = uncertainty /\ reported' = reported /\ deviations' = deviations
    BY <1>1 DEF FormIdeal
  <2> QED
    BY <2>1 DEF ReportInv
<1>2. ASSUME NEW m \in Inputs, FormReported(m)
      PROVE  ReportInv'
  <2>1. uncertainty' = uncertainty /\ deviations' = deviations
    BY <1>2 DEF FormReported
  <2>2. \/ reported' = reported
        \/ /\ reported' = [kind |-> "reported", measurement |-> m, uncertainty |-> uncertainty]
           /\ ValidMeasurement(m) /\ Aligned(uncertainty, m)
    BY <1>2 DEF FormReported
  <2> QED
    BY <2>1, <2>2 DEF ReportInv
<1>3. ASSUME NEW ds \in Deviations, FromStandardDeviations(ds)
      PROVE  ReportInv'
  <2>1. reported' = reported
    BY <1>3 DEF FromStandardDeviations
  <2>2. CASE uncertainty' = uncertainty /\ deviations' = deviations
    BY <2>1, <2>2 DEF ReportInv
  <2>3. CASE ~ (uncertainty' = uncertainty /\ deviations' = deviations)
    <3>1. PICK u : /\ u = [kind |-> "covariance", covariance |-> Diagonal(ds),
                            names |-> ideal.measurement.names, units |-> ideal.measurement.units]
                   /\ uncertainty' = u /\ deviations' = ds
                   /\ \E s, t \in Tolerances : ValidUncertainty(u, s, t)
                   /\ \A i \in DOMAIN ds : ds[i] >= 0 /\ Representable(ds[i])
      BY <1>3, <2>3 DEF FromStandardDeviations
    <3>2. u.kind = "covariance" /\ u.covariance = Diagonal(ds) /\ u # None
      BY <3>1 DEF None
    <3>3. u.covariance \in Seq(Seq(Int))
      BY <3>2, DiagonalTyped
    <3> QED
      BY <2>1, <3>1, <3>2, <3>3 DEF ReportInv, Declared
  <2> QED
    BY <2>2, <2>3
<1>4. ASSUME NEW d \in Declarations, Declare(d)
      PROVE  ReportInv'
  <2>1. reported' = reported /\ deviations' = deviations /\ uncertainty = None
    BY <1>4 DEF Declare
  <2>2. CASE uncertainty' = uncertainty
    BY <2>1, <2>2 DEF ReportInv
  <2>3. CASE uncertainty' # uncertainty
    <3>1. PICK u : /\ u = [kind |-> "covariance", covariance |-> d.covariance,
                            names |-> d.names, units |-> d.units]
                   /\ uncertainty' = u
                   /\ \E s, t \in Tolerances : ValidUncertainty(u, s, t)
      BY <1>4, <2>3 DEF Declare
    <3>2. deviations = <<>>
      BY <2>1 DEF ReportInv
    <3>3. u.covariance \in Seq(Seq(Int))
      BY <3>1, ObservationAssumption
    <3> QED
      BY <2>1, <3>1, <3>2, <3>3 DEF ReportInv, Declared
  <2> QED
    BY <2>2, <2>3
<1>5. CASE UNCHANGED observationVars
  BY <1>5 DEF ReportInv, observationVars
<1> QED
  BY <1>1, <1>2, <1>3, <1>4, <1>5 DEF ObservationNext

LEMMA ReportInvariant == ObservationSpec => []ReportInv
BY ReportInit, ReportKept, PTL DEF ObservationSpec

\* A well formed standard measurement has a value for each component.
LEMMA ValuePerName ==
  ASSUME NEW m, m.type \in Standard, WellFormed(m)
  PROVE  Len(m.values) = Len(m.names)
<1>1. /\ m.type \in {"ANGLES_RA_DEC", "ANGLES_AZ_EL", "RANGE", "RANGE_RATE", "LOS_UNIT_VECTOR"}
      /\ m.names = Shape[m.type].names /\ InDomain(m.type, m.values)
  <2>1. Standard =
          {"ANGLES_RA_DEC", "ANGLES_AZ_EL", "RANGE", "RANGE_RATE", "LOS_UNIT_VECTOR"}
    BY DEF Standard, Shape
  <2> QED
    BY <2>1 DEF WellFormed
<1>2. CASE m.type \in {"ANGLES_RA_DEC", "ANGLES_AZ_EL"}
  <2>1. Len(m.values) = 2
    BY <1>1, <1>2 DEF InDomain, OnSphere
  <2>2. Len(Shape[m.type].names) = 2
    BY <1>2 DEF Shape
  <2> QED
    BY <1>1, <2>1, <2>2
<1>3. CASE m.type = "RANGE"
  BY <1>1, <1>3 DEF InDomain, Shape
<1>4. CASE m.type = "RANGE_RATE"
  BY <1>1, <1>4 DEF InDomain, Shape
<1>5. CASE m.type = "LOS_UNIT_VECTOR"
  BY <1>1, <1>5 DEF InDomain, Shape
<1> QED
  BY <1>1, <1>2, <1>3, <1>4, <1>5

\* The covariance beside the values of a reported standard measurement has one
\* row for each of them, in their order, whoever declared it and from whatever.
THEOREM ReportedRowsMatch == ObservationSpec => []RowsMatchValues
<1>1. ReportInv => RowsMatchValues
  <2> SUFFICES ASSUME ReportInv, reported # None, reported.uncertainty # None,
                      reported.measurement.type \in Standard
               PROVE  RowsMatchValues
    BY DEF RowsMatchValues
  <2>1. PICK m, u : m = reported.measurement /\ u = reported.uncertainty
    OBVIOUS
  <2>2. /\ ValidMeasurement(m) /\ Aligned(u, m)
        /\ u.kind = "covariance" /\ \E s, t \in Tolerances : ValidUncertainty(u, s, t)
    BY <2>1 DEF ReportInv, Declared
  <2>3. m.type # "CUSTOM"
    BY <2>1 DEF Standard, Shape
  <2>4. WellFormed(m) /\ u.names = m.names
    BY <2>2, <2>3 DEF ValidMeasurement, Aligned
  <2>5. Len(m.values) = Len(m.names)
    BY <2>1, <2>4, ValuePerName
  <2>6. Len(u.names) = Len(u.covariance) /\ m.names = Shape[m.type].names
    BY <2>2, <2>4 DEF ValidUncertainty, WellFormed
  <2> QED
    BY <2>1, <2>4, <2>5, <2>6 DEF RowsMatchValues
<1> QED
  BY <1>1, ReportInvariant, PTL

\* A variance made from a standard deviation is finite, and zero exactly if the
\* deviation is: no rounding turns a small error into a known-zero one.
THEOREM DeclaredZeroIsZero == ObservationSpec => []ZeroMeansKnownZero
<1>1. ReportInv => ZeroMeansKnownZero
  <2> SUFFICES ASSUME ReportInv, deviations # <<>>, NEW i \in DOMAIN deviations
               PROVE  /\ uncertainty.covariance[i][i] \in 0 .. Largest
                      /\ uncertainty.covariance[i][i] = 0 <=> deviations[i] = 0
    BY DEF ZeroMeansKnownZero
  <2>1. /\ deviations \in Deviations /\ uncertainty.covariance = Diagonal(deviations)
        /\ Representable(deviations[i])
    BY DEF ReportInv
  <2>2. deviations[i] \in Int /\ Largest \in Nat
    BY <2>1, ObservationAssumption
  <2>3. uncertainty.covariance[i][i] = Square(deviations[i])
    BY <2>1 DEF Diagonal
  <2>4. Square(deviations[i]) \in Nat /\ (deviations[i] = 0 => Square(deviations[i]) = 0)
    BY <2>2, SquareIsVariance
  <2> QED
    BY <2>1, <2>2, <2>3, <2>4 DEF Representable
<1> QED
  BY <1>1, ReportInvariant, PTL

-------------------------------------------------------------------------------
\* Rows of a matrix weighted by w, and its weighted sum.
Matrices(n) == [1 .. n -> [1 .. n -> Int]]
Weighted(c, n, w, i) == [j \in 1 .. n |-> w[j] * c[i][j]]
Row(c, n, w, i) == SumOf(Weighted(c, n, w, i), n)
Rows(c, n, w) == [i \in 1 .. n |-> w[i] * Row(c, n, w, i)]
Form(c, n, w) == SumOf(Rows(c, n, w), n)

Symmetric(c, n) == c \in Matrices(n) /\ \A i, j \in 1 .. n : c[i][j] = c[j][i]

\* d is c after elimination of component k.
Eliminates(d, c, k, n) ==
  d \in Matrices(n) /\ \A i, j \in 1 .. n : d[i][j] = c[k][k] * c[i][j] - c[i][k] * c[k][j]

LEMMA RowTyped ==
  ASSUME NEW n \in Nat, NEW c \in Matrices(n), NEW w \in [1 .. n -> Int], NEW i \in 1 .. n
  PROVE  /\ Weighted(c, n, w, i) \in [1 .. n -> Int]
         /\ Row(c, n, w, i) \in Int
<1>1. \A j \in 1 .. n : w[j] * c[i][j] \in Int
  <2> TAKE j \in 1 .. n
  <2>1. w[j] \in Int /\ c[i][j] \in Int
    BY DEF Matrices
  <2> QED
    BY <2>1
<1>2. Weighted(c, n, w, i) \in [1 .. n -> Int]
  BY <1>1 DEF Weighted
<1> QED
  BY <1>2, SumOfTyped DEF Row

LEMMA FormTyped ==
  ASSUME NEW n \in Nat, NEW c \in Matrices(n), NEW w \in [1 .. n -> Int]
  PROVE  /\ Rows(c, n, w) \in [1 .. n -> Int]
         /\ Form(c, n, w) \in Int
<1>1. \A i \in 1 .. n : w[i] * Row(c, n, w, i) \in Int
  <2> TAKE i \in 1 .. n
  <2>1. w[i] \in Int /\ Row(c, n, w, i) \in Int
    BY RowTyped
  <2> QED
    BY <2>1
<1>2. Rows(c, n, w) \in [1 .. n -> Int]
  BY <1>1 DEF Rows
<1> QED
  BY <1>2, SumOfTyped DEF Form

\* Completing the square: elimination of a component with pivot p leaves p times
\* the weighted sum, less the square of a number.
LEMMA SquareCompleted ==
  ASSUME NEW n \in Nat, NEW c, Symmetric(c, n), NEW k \in 1 .. n, NEW d, Eliminates(d, c, k, n),
         NEW w \in [1 .. n -> Int]
  PROVE  Form(d, n, w) = Reduced(Form(c, n, w), c[k][k], Row(c, n, w, k), Row(c, n, w, k))
<1>1. c \in Matrices(n) /\ d \in Matrices(n)
  BY DEF Symmetric, Eliminates
<1>2. PICK p \in Int, L \in Int : p = c[k][k] /\ L = Row(c, n, w, k)
  BY <1>1, RowTyped DEF Matrices
<1>3. ASSUME NEW i \in 1 .. n
      PROVE  Row(d, n, w, i) = Row(c, n, w, i) * p - L * c[i][k]
  <2>1. PICK h, f, g : /\ h = Weighted(d, n, w, i)
                       /\ f = Weighted(c, n, w, i)
                       /\ g = Weighted(c, n, w, k)
    OBVIOUS
  <2>2. h \in [1 .. n -> Int] /\ f \in [1 .. n -> Int] /\ g \in [1 .. n -> Int]
    BY <1>1, <2>1, RowTyped
  <2>3. PICK u \in Int : u = c[i][k]
    BY <1>1 DEF Matrices
  <2>4. ASSUME NEW j \in 1 .. n
        PROVE  h[j] = f[j] * p - g[j] * u
    <3>1. PICK x \in Int, a \in Int, b \in Int : x = w[j] /\ a = c[i][j] /\ b = c[k][j]
      BY <1>1 DEF Matrices
    <3>2. d[i][j] = p * a - u * b
      BY <1>2, <2>3, <3>1 DEF Eliminates
    <3>3. h[j] = x * (p * a - u * b) /\ f[j] = x * a /\ g[j] = x * b
      BY <2>1, <3>1, <3>2 DEF Weighted
    <3>4. x * (p * a - u * b) = (x * a) * p - (x * b) * u
      OBVIOUS
    <3> QED
      BY <3>3, <3>4
  <2>5. Combines(h, f, p, g, u, n)
    BY <2>2, <2>4 DEF Combines
  <2>6. SumOf(h, n) = Reduced(SumOf(f, n), p, SumOf(g, n), u)
    BY <2>5, SumOfLinear
  <2>7. Row(d, n, w, i) = SumOf(h, n) /\ Row(c, n, w, i) = SumOf(f, n) /\ L = SumOf(g, n)
    BY <1>2, <2>1 DEF Row
  <2> QED
    BY <2>3, <2>6, <2>7 DEF Reduced
<1>4. PICK h, f, g : /\ h = Rows(d, n, w)
                     /\ f = Rows(c, n, w)
                     /\ g = Weighted(c, n, w, k)
  OBVIOUS
<1>5. h \in [1 .. n -> Int] /\ f \in [1 .. n -> Int] /\ g \in [1 .. n -> Int]
  BY <1>1, <1>4, RowTyped, FormTyped
<1>6. ASSUME NEW i \in 1 .. n
      PROVE  h[i] = f[i] * p - g[i] * L
  <2>1. PICK x \in Int, a \in Int, b \in Int :
          x = w[i] /\ a = Row(c, n, w, i) /\ b = c[i][k]
    <3>1. c[i][k] \in Int
      BY <1>1 DEF Matrices
    <3>2. w[i] \in Int /\ Row(c, n, w, i) \in Int
      BY <1>1, RowTyped
    <3> QED
      BY <3>1, <3>2
  <2>2. b = c[k][i]
    BY <2>1 DEF Symmetric
  <2>3. h[i] = x * (a * p - L * b) /\ f[i] = x * a /\ g[i] = x * b
    BY <1>3, <1>4, <2>1, <2>2 DEF Rows, Weighted
  <2>4. x * (a * p - L * b) = (x * a) * p - (x * b) * L
    OBVIOUS
  <2> QED
    BY <2>3, <2>4
<1>7. Combines(h, f, p, g, L, n)
  BY <1>5, <1>6 DEF Combines
<1>8. SumOf(h, n) = Reduced(SumOf(f, n), p, SumOf(g, n), L)
  BY <1>7, SumOfLinear
<1>9. Form(d, n, w) = SumOf(h, n) /\ Form(c, n, w) = SumOf(f, n) /\ L = SumOf(g, n)
  BY <1>2, <1>4 DEF Form, Row
<1> QED
  BY <1>2, <1>8, <1>9

\* What is left when every component is eliminated.
LEMMA NothingLeft ==
  ASSUME NEW n \in Nat, NEW c \in Matrices(n), \A i, j \in 1 .. n : c[i][j] = 0,
         NEW w \in [1 .. n -> Int]
  PROVE  Form(c, n, w) = 0
<1>1. ASSUME NEW i \in 1 .. n
      PROVE  Row(c, n, w, i) = 0
  <2>1. PICK f : f = Weighted(c, n, w, i)
    OBVIOUS
  <2>2. f \in [1 .. n -> Int]
    BY <2>1, RowTyped
  <2>3. \A j \in 1 .. n : f[j] = 0
    BY <2>1 DEF Weighted
  <2> QED
    BY <2>1, <2>2, <2>3, SumOfZeros DEF Row, SumOf
<1>2. PICK f : f = Rows(c, n, w)
  OBVIOUS
<1>3. f \in [1 .. n -> Int]
  BY <1>2, FormTyped
<1>4. \A i \in 1 .. n : f[i] = 0
  BY <1>1, <1>2 DEF Rows
<1> QED
  BY <1>2, <1>3, <1>4, SumOfZeros DEF Form, SumOf

\* One stage of Eliminated.
After(s, k, n) ==
  IF s[k][k] = 0 THEN s
  ELSE [i \in 1 .. n |-> [j \in 1 .. n |-> s[k][k] * s[i][j] - s[i][k] * s[k][j]]]

LEMMA AfterTyped ==
  ASSUME NEW n \in Nat, NEW s \in Matrices(n), NEW k \in 1 .. n
  PROVE  After(s, k, n) \in Matrices(n)
<1>1. \A i, j \in 1 .. n : s[k][k] * s[i][j] - s[i][k] * s[k][j] \in Int
  <2> TAKE i, j \in 1 .. n
  <2>1. s[k][k] \in Int /\ s[i][j] \in Int /\ s[i][k] \in Int /\ s[k][j] \in Int
    BY DEF Matrices
  <2> QED
    BY <2>1
<1> QED
  BY <1>1 DEF After, Matrices

LEMMA StagesExist ==
  ASSUME NEW c, c \in Matrices(Len(c)), Len(c) \in Nat
  PROVE  /\ Eliminated(c)[0] = c
         /\ \A k \in 1 .. Len(c) : Eliminated(c)[k] = After(Eliminated(c)[k - 1], k, Len(c))
         /\ \A k \in 0 .. Len(c) : Eliminated(c)[k] \in Matrices(Len(c))
<1>1. PICK n \in Nat : n = Len(c) /\ DOMAIN c = 1 .. n
  BY DEF Matrices
<1> DEFINE step == [a \in (1 .. n) \X Matrices(n) |-> After(a[2], a[1], n)]
           Stages(s) == s = [k \in 0 .. n |-> IF k = 0 THEN c ELSE After(s[k - 1], k, n)]
<1>2. step \in [(1 .. n) \X Matrices(n) -> Matrices(n)]
  BY AfterTyped
<1>3. PICK s \in [0 .. n -> Matrices(n)] :
        s[0] = c /\ \A k \in 1 .. n : s[k] = step[<<k, s[k - 1]>>]
  <2>1. PICK M, F : M = Matrices(n) /\ F = step
    OBVIOUS
  <2>2. c \in M /\ F \in [(1 .. n) \X M -> M]
    BY <1>1, <1>2, <2>1
  <2>3. \E s : Recursion(s, c, F, n, M)
    BY <2>2, RecursionExists
  <2> HIDE DEF step
  <2> QED
    BY <2>1, <2>3 DEF Recursion
<1>4. Stages(s)
  <2>1. \A k \in 1 .. n : s[k] = After(s[k - 1], k, n)
    <3> TAKE k \in 1 .. n
    <3>1. k - 1 \in 0 .. n
      OBVIOUS
    <3>2. <<k, s[k - 1]>> \in (1 .. n) \X Matrices(n)
      BY <1>3, <3>1
    <3> QED
      BY <1>3, <3>2
  <2>2. \A k \in 0 .. n : s[k] = IF k = 0 THEN c ELSE After(s[k - 1], k, n)
    BY <1>3, <2>1
  <2> QED
    BY <1>3, <2>2
<1>5. Eliminated(c) = CHOOSE r : Stages(r)
  BY <1>1 DEF Eliminated, After
<1>6. PICK r : r = Eliminated(c) /\ Stages(r)
  BY <1>4, <1>5
<1>7. r[0] = c /\ \A k \in 1 .. n : r[k] = After(r[k - 1], k, n)
  BY <1>6
<1> DEFINE T == {k \in Nat : k <= n => r[k] \in Matrices(n)}
<1>8. 0 \in T
  BY <1>1, <1>7
<1>9. ASSUME NEW k \in Nat, k \in T
      PROVE  k + 1 \in T
  <2> SUFFICES ASSUME k + 1 <= n
               PROVE  r[k + 1] \in Matrices(n)
    OBVIOUS
  <2>1. k + 1 \in 1 .. n /\ (k + 1) - 1 = k /\ r[k] \in Matrices(n)
    BY <1>9
  <2>2. r[k + 1] = After(r[k], k + 1, n)
    BY <1>7, <2>1
  <2> QED
    BY <2>1, <2>2, AfterTyped
<1>10. Nat \subseteq T
  <2> HIDE DEF T
  <2> QED
    BY <1>8, <1>9, EveryNumber
<1> HIDE DEF Stages
<1> QED
  BY <1>1, <1>6, <1>7, <1>10

\* No weighted sum of a matrix that passes the elimination is negative, for any
\* number of components.
LEMMA EliminationDecides ==
  ASSUME NEW n \in Nat, NEW c, Symmetric(c, n), Len(c) = n, Semidefinite(c),
         NEW w \in [1 .. n -> Int]
  PROVE  Form(c, n, w) >= 0
<1>0. c \in Matrices(n) /\ DOMAIN c = 1 .. n
  BY DEF Symmetric, Matrices
<1>1. PICK s : s = Eliminated(c)
  OBVIOUS
<1>2. /\ s[0] = c
      /\ \A k \in 1 .. n : s[k] = After(s[k - 1], k, n)
      /\ \A k \in 0 .. n : s[k] \in Matrices(n)
  BY <1>0, <1>1, StagesExist
<1>3. \A k \in 1 .. n :
        /\ s[k - 1][k][k] >= 0
        /\ s[k - 1][k][k] = 0 => \A j \in 1 .. n : s[k - 1][k][j] = 0
  BY <1>0, <1>1 DEF Semidefinite
\* Eliminated components leave zeros, and symmetry.
<1> DEFINE Cleared(k) ==
      Symmetric(s[k], n) /\ \A i \in 1 .. k : \A j \in 1 .. n : s[k][i][j] = 0
<1>4. ASSUME NEW k \in 1 .. n, Cleared(k - 1)
      PROVE  Cleared(k)
  <2>1. PICK a, b : a = s[k - 1] /\ b = s[k]
    OBVIOUS
  <2>2. /\ Symmetric(a, n) /\ a \in Matrices(n) /\ b \in Matrices(n) /\ b = After(a, k, n)
        /\ \A i \in 1 .. k - 1 : \A j \in 1 .. n : a[i][j] = 0
        /\ a[k][k] = 0 => \A j \in 1 .. n : a[k][j] = 0
    BY <1>2, <1>3, <1>4, <2>1 DEF Symmetric
  <2>3. CASE a[k][k] = 0
    <3>1. a = b /\ \A j \in 1 .. n : b[k][j] = 0
      BY <2>2, <2>3 DEF After
    <3>2. \A i \in 1 .. k : i \in 1 .. k - 1 \/ i = k
      OBVIOUS
    <3> QED
      BY <2>1, <2>2, <3>1, <3>2
  <2>4. CASE a[k][k] # 0
    <3>1. \A i, j \in 1 .. n : b[i][j] = a[k][k] * a[i][j] - a[i][k] * a[k][j]
      BY <2>2, <2>4 DEF After
    <3>2. \A i, j \in 1 .. n : a[i][j] \in Int /\ a[i][j] = a[j][i]
      <4>1. \A i, j \in 1 .. n : a[i][j] \in Int
        BY <2>2 DEF Matrices
      <4> QED
        BY <2>2, <4>1 DEF Symmetric
    <3>3. \A i, j \in 1 .. n : b[i][j] = b[j][i]
      <4> TAKE i, j \in 1 .. n
      <4>1. PICK x \in Int, y \in Int, z \in Int, p \in Int :
              x = a[i][j] /\ y = a[i][k] /\ z = a[k][j] /\ p = a[k][k]
        BY <3>2
      <4>2. x = a[j][i] /\ y = a[k][i] /\ z = a[j][k]
        BY <3>2, <4>1
      <4>3. b[i][j] = p * x - y * z /\ b[j][i] = p * x - z * y
        BY <3>1, <4>1, <4>2
      <4> QED
        BY <4>3
    <3>4. \A i \in 1 .. k : \A j \in 1 .. n : b[i][j] = 0
      <4> TAKE i \in 1 .. k
      <4> TAKE j \in 1 .. n
      <4>0. i \in 1 .. n
        OBVIOUS
      <4>1. PICK y \in Int, z \in Int, p \in Int : y = a[i][k] /\ z = a[k][j] /\ p = a[k][k]
        BY <3>2, <4>0
      <4>2. CASE i = k
        <5>1. b[i][j] = p * z - p * z
          BY <3>1, <4>1, <4>2
        <5> QED
          BY <5>1
      <4>3. CASE i \in 1 .. k - 1
        <5>1. a[i][j] = 0 /\ y = 0
          BY <2>2, <4>1, <4>3
        <5>2. b[i][j] = p * a[i][j] - y * z
          BY <3>1, <4>0, <4>1
        <5>3. p * 0 - 0 * z = 0
          OBVIOUS
        <5> QED
          BY <5>1, <5>2, <5>3
      <4> QED
        BY <4>2, <4>3
    <3> QED
      BY <2>1, <2>2, <3>3, <3>4 DEF Symmetric
  <2> QED
    BY <2>3, <2>4
<1>5. \A k \in 0 .. n : Cleared(k)
  <2> DEFINE T == {k \in Nat : k <= n => Cleared(k)}
  <2>1. 0 \in T
    BY <1>2
  <2>2. ASSUME NEW k \in Nat, k \in T
        PROVE  k + 1 \in T
    <3> HIDE DEF Cleared
    <3> SUFFICES ASSUME k + 1 <= n
                 PROVE  Cleared(k + 1)
      OBVIOUS
    <3>1. k + 1 \in 1 .. n /\ (k + 1) - 1 = k /\ Cleared(k)
      BY <2>2
    <3> QED
      BY <1>4, <3>1
  <2>3. Nat \subseteq T
    <3> HIDE DEF T
    <3> QED
      BY <2>1, <2>2, EveryNumber
  <2> HIDE DEF Cleared
  <2> QED
    BY <2>3
\* Backwards: a stage is what is left of the stage before it, plus a square.
<1> DEFINE U == {m \in Nat : m <= n => Form(s[n - m], n, w) >= 0}
<1>6. 0 \in U
  <2>1. PICK a : a = s[n]
    OBVIOUS
  <2>2. n - 0 = n /\ a \in Matrices(n) /\ \A i, j \in 1 .. n : a[i][j] = 0
    <3>1. n \in 0 .. n
      OBVIOUS
    <3>2. Cleared(n)
      BY <1>5, <3>1
    <3>3. \A i, j \in 1 .. n : s[n][i][j] = 0
      BY <3>2
    <3> QED
      BY <1>2, <2>1, <3>1, <3>3
  <2>3. Form(a, n, w) = 0
    BY <2>2, NothingLeft
  <2> QED
    BY <2>1, <2>2, <2>3
<1>7. ASSUME NEW m \in Nat, m \in U
      PROVE  m + 1 \in U
  <2> SUFFICES ASSUME m + 1 <= n
               PROVE  Form(s[n - (m + 1)], n, w) >= 0
    OBVIOUS
  <2>1. PICK k \in 1 .. n : k = n - m /\ k - 1 = n - (m + 1)
    OBVIOUS
  <2>2. PICK a, b : a = s[k - 1] /\ b = s[k]
    OBVIOUS
  <2>3. k - 1 \in 0 .. n
    OBVIOUS
  <2>4. Symmetric(a, n)
    BY <1>5, <2>2, <2>3
  <2>5. /\ a \in Matrices(n) /\ b \in Matrices(n) /\ b = After(a, k, n) /\ a[k][k] >= 0
    BY <1>2, <1>3, <2>2, <2>3
  <2>6. Form(b, n, w) >= 0
    BY <1>7, <2>1, <2>2
  <2>7. CASE a[k][k] = 0
    BY <2>1, <2>2, <2>5, <2>6, <2>7 DEF After
  <2>8. CASE a[k][k] # 0
    <3>1. Eliminates(b, a, k, n)
      BY <2>5, <2>8 DEF After, Eliminates
    <3>2. PICK p \in Int, L \in Int, x \in Int, y \in Int :
            p = a[k][k] /\ L = Row(a, n, w, k) /\ x = Form(a, n, w) /\ y = Form(b, n, w)
      <4>1. a[k][k] \in Int
        BY <2>5 DEF Matrices
      <4>2. Row(a, n, w, k) \in Int /\ Form(a, n, w) \in Int /\ Form(b, n, w) \in Int
        BY <2>5, RowTyped, FormTyped
      <4> QED
        BY <4>1, <4>2
    <3>3. y = x * p - L * L
      <4>1. y = Reduced(x, p, L, L)
        BY <2>4, <3>1, <3>2, SquareCompleted
      <4> QED
        BY <4>1 DEF Reduced
    <3>4. p > 0 /\ y >= 0 /\ L * L >= 0
      BY <2>5, <2>6, <2>8, <3>2
    <3>5. x * p >= 0
      BY <3>3, <3>4
    <3>6. x >= 0
      BY <3>4, <3>5
    <3> QED
      BY <2>1, <2>2, <3>2, <3>6
  <2> QED
    BY <2>7, <2>8
<1>8. Nat \subseteq U
  <2> HIDE DEF U
  <2> QED
    BY <1>6, <1>7, EveryNumber
<1>9. n \in U /\ n - n = 0
  BY <1>8
<1> QED
  BY <1>2, <1>9

\* What an algorithm combines is that sum.
LEMMA CombinedIsForm ==
  ASSUME NEW n \in Nat, NEW c, DOMAIN c = 1 .. n, NEW w
  PROVE  Combined(c, w) = Form(c, n, w)
<1>1. \A i \in 1 .. n :
        SumFunction([j \in 1 .. n |-> w[j] * c[i][j]]) = Row(c, n, w, i)
  BY DEF SumFunction, Row, SumOf, Weighted
<1>2. [i \in 1 .. n |-> w[i] * SumFunction([j \in 1 .. n |-> w[j] * c[i][j]])] = Rows(c, n, w)
  BY <1>1 DEF Rows
<1>3. Combined(c, w) = SumFunction(Rows(c, n, w))
  BY <1>2 DEF Combined
<1> QED
  BY <1>3 DEF SumFunction, Form, SumOf, Rows

-------------------------------------------------------------------------------
\* A weighted sum is linear in the matrix.
Mixes(e, c, t, d, u, n) ==
  /\ c \in Matrices(n) /\ d \in Matrices(n) /\ e \in Matrices(n)
  /\ t \in Int /\ u \in Int
  /\ \A i, j \in 1 .. n : e[i][j] = c[i][j] * t - d[i][j] * u

LEMMA FormLinear ==
  ASSUME NEW n \in Nat, NEW c, NEW d, NEW e, NEW t, NEW u, Mixes(e, c, t, d, u, n),
         NEW w \in [1 .. n -> Int]
  PROVE  Form(e, n, w) = Reduced(Form(c, n, w), t, Form(d, n, w), u)
<1> /\ c \in Matrices(n) /\ d \in Matrices(n) /\ e \in Matrices(n)
    /\ t \in Int /\ u \in Int
    /\ \A i, j \in 1 .. n : e[i][j] = c[i][j] * t - d[i][j] * u
  BY DEF Mixes
<1>1. ASSUME NEW i \in 1 .. n
      PROVE  Row(e, n, w, i) = Row(c, n, w, i) * t - Row(d, n, w, i) * u
  <2>1. PICK h, f, g : /\ h = Weighted(e, n, w, i)
                       /\ f = Weighted(c, n, w, i)
                       /\ g = Weighted(d, n, w, i)
    OBVIOUS
  <2>2. h \in [1 .. n -> Int] /\ f \in [1 .. n -> Int] /\ g \in [1 .. n -> Int]
    BY <2>1, RowTyped
  <2>3. ASSUME NEW j \in 1 .. n
        PROVE  h[j] = f[j] * t - g[j] * u
    <3>1. PICK x \in Int, a \in Int, b \in Int : x = w[j] /\ a = c[i][j] /\ b = d[i][j]
      BY DEF Matrices
    <3>2. h[j] = x * (a * t - b * u) /\ f[j] = x * a /\ g[j] = x * b
      BY <2>1, <3>1 DEF Weighted
    <3>3. x * (a * t - b * u) = (x * a) * t - (x * b) * u
      OBVIOUS
    <3> QED
      BY <3>2, <3>3
  <2>4. Combines(h, f, t, g, u, n)
    BY <2>2, <2>3 DEF Combines
  <2>5. SumOf(h, n) = Reduced(SumOf(f, n), t, SumOf(g, n), u)
    BY <2>4, SumOfLinear
  <2> QED
    BY <2>1, <2>5 DEF Row, Reduced
<1>2. PICK h, f, g : h = Rows(e, n, w) /\ f = Rows(c, n, w) /\ g = Rows(d, n, w)
  OBVIOUS
<1>3. h \in [1 .. n -> Int] /\ f \in [1 .. n -> Int] /\ g \in [1 .. n -> Int]
  BY <1>2, FormTyped
<1>4. ASSUME NEW i \in 1 .. n
      PROVE  h[i] = f[i] * t - g[i] * u
  <2>1. PICK x \in Int, a \in Int, b \in Int :
          x = w[i] /\ a = Row(c, n, w, i) /\ b = Row(d, n, w, i)
    BY RowTyped
  <2>2. h[i] = x * (a * t - b * u) /\ f[i] = x * a /\ g[i] = x * b
    BY <1>1, <1>2, <2>1 DEF Rows
  <2>3. x * (a * t - b * u) = (x * a) * t - (x * b) * u
    OBVIOUS
  <2> QED
    BY <2>2, <2>3
<1>5. Combines(h, f, t, g, u, n)
  BY <1>3, <1>4 DEF Combines
<1> QED
  BY <1>2, <1>5, SumOfLinear DEF Form

\* A weighted sum is the sum of one number for each pair of components.
Products(c, n, w) == [i \in 1 .. n |-> [j \in 1 .. n |-> w[i] * (w[j] * c[i][j])]]

LEMMA FormOfProducts ==
  ASSUME NEW n \in Nat, NEW c \in Matrices(n), NEW w \in [1 .. n -> Int]
  PROVE  /\ Products(c, n, w) \in Matrices(n)
         /\ Form(c, n, w) = SumOf([i \in 1 .. n |-> SumOf(Products(c, n, w)[i], n)], n)
<1>1. \A i, j \in 1 .. n : w[i] * (w[j] * c[i][j]) \in Int
  <2> TAKE i, j \in 1 .. n
  <2>1. w[i] \in Int /\ w[j] \in Int /\ c[i][j] \in Int
    BY DEF Matrices
  <2>2. \A x, y, z \in Int : x * (y * z) \in Int
    OBVIOUS
  <2> QED
    BY <2>1, <2>2
<1>2. Products(c, n, w) \in Matrices(n)
  BY <1>1 DEF Products, Matrices
<1>3. ASSUME NEW i \in 1 .. n
      PROVE  w[i] * Row(c, n, w, i) = SumOf(Products(c, n, w)[i], n)
  <2>1. PICK h, f : h = Products(c, n, w)[i] /\ f = Weighted(c, n, w, i)
    OBVIOUS
  <2>2. h \in [1 .. n -> Int] /\ f \in [1 .. n -> Int]
    BY <1>2, <2>1, RowTyped DEF Matrices
  <2>3. PICK x \in Int, zero \in Int : x = w[i] /\ zero = 0
    OBVIOUS
  <2>4. \A j \in 1 .. n : h[j] = f[j] * x - f[j] * zero
    <3> TAKE j \in 1 .. n
    <3>1. PICK y \in Int : y = f[j]
      BY <2>2
    <3>2. h[j] = x * y
      BY <2>1, <2>3, <3>1 DEF Products, Weighted
    <3>3. x * y = y * x - y * 0
      OBVIOUS
    <3> QED
      BY <2>3, <3>1, <3>2, <3>3
  <2>5. Combines(h, f, x, f, zero, n)
    BY <2>2, <2>4 DEF Combines
  <2>6. SumOf(h, n) = Reduced(SumOf(f, n), x, SumOf(f, n), zero)
    BY <2>5, SumOfLinear
  <2>7. PICK y \in Int : y = SumOf(f, n)
    BY <2>2, SumOfTyped
  <2>8. SumOf(h, n) = x * y
    <3>1. y * x - y * 0 = x * y
      OBVIOUS
    <3> QED
      BY <2>3, <2>6, <2>7, <3>1 DEF Reduced
  <2> QED
    BY <2>1, <2>3, <2>7, <2>8 DEF Row
<1>4. Rows(c, n, w) = [i \in 1 .. n |-> SumOf(Products(c, n, w)[i], n)]
  BY <1>3 DEF Rows
<1> QED
  BY <1>2, <1>4 DEF Form

\* It does not see which triangle of the matrix a number is in.
LEMMA FormOfTransposed ==
  ASSUME NEW n \in Nat, NEW c \in Matrices(n), NEW d \in Matrices(n),
         \A i, j \in 1 .. n : d[i][j] = c[j][i], NEW w \in [1 .. n -> Int]
  PROVE  Form(d, n, w) = Form(c, n, w)
<1>1. PICK a, b : a = Products(c, n, w) /\ b = Products(d, n, w)
  OBVIOUS
<1>2. a \in Matrices(n) /\ b \in Matrices(n)
  BY <1>1, FormOfProducts
<1>3. \A i, j \in 1 .. n : b[i][j] = a[j][i]
  <2> TAKE i, j \in 1 .. n
  <2>1. PICK x \in Int, y \in Int, z \in Int : x = w[i] /\ y = w[j] /\ z = c[j][i]
    BY DEF Matrices
  <2>2. b[i][j] = x * (y * z) /\ a[j][i] = y * (x * z)
    BY <1>1, <2>1 DEF Products
  <2>3. x * (y * z) = y * (x * z)
    OBVIOUS
  <2> QED
    BY <2>2, <2>3
<1>4. ASSUME NEW j \in 1 .. n
      PROVE  b[j] = [i \in 1 .. n |-> a[i][j]]
  <2>1. b[j] = [i \in 1 .. n |-> b[j][i]]
    BY <1>2 DEF Matrices
  <2> QED
    BY <1>3, <2>1
<1>5. SumOf([i \in 1 .. n |-> SumOf(a[i], n)], n)
        = SumOf([j \in 1 .. n |-> SumOf([i \in 1 .. n |-> a[i][j]], n)], n)
  BY <1>2, SumOfSquare DEF Matrices
<1>6. [j \in 1 .. n |-> SumOf([i \in 1 .. n |-> a[i][j]], n)] = [j \in 1 .. n |-> SumOf(b[j], n)]
  BY <1>4
<1>7. /\ Form(c, n, w) = SumOf([i \in 1 .. n |-> SumOf(a[i], n)], n)
      /\ Form(d, n, w) = SumOf([i \in 1 .. n |-> SumOf(b[i], n)], n)
  BY <1>1, FormOfProducts
<1> QED
  BY <1>5, <1>6, <1>7

\* The squares of the weights are the weighted sum of the unit matrix.
Unit(n) == [i \in 1 .. n |-> [j \in 1 .. n |-> IF i = j THEN 1 ELSE 0]]
Squares(n, w) == [i \in 1 .. n |-> w[i] * w[i]]

LEMMA FormOfUnit ==
  ASSUME NEW n \in Nat, NEW w \in [1 .. n -> Int]
  PROVE  /\ Unit(n) \in Matrices(n)
         /\ Form(Unit(n), n, w) = SumOf(Squares(n, w), n)
         /\ SumOf(Squares(n, w), n) \in Nat
<1>1. Unit(n) \in Matrices(n)
  BY DEF Unit, Matrices
<1>2. ASSUME NEW i \in 1 .. n
      PROVE  Row(Unit(n), n, w, i) = w[i]
  <2>1. PICK f : f = Weighted(Unit(n), n, w, i)
    OBVIOUS
  <2>2. f \in [1 .. n -> Int]
    BY <1>1, <2>1, RowTyped
  <2>3. \A j \in 1 .. n : f[j] = w[j] * (IF i = j THEN 1 ELSE 0)
    BY <2>1 DEF Weighted, Unit
  <2>4. \A x \in Int : x * 1 = x /\ x * 0 = 0
    OBVIOUS
  <2>5. f[i] = w[i] /\ \A j \in 1 .. n : j # i => f[j] = 0
    BY <2>3, <2>4
  <2>6. SumOf(f, n) = f[i]
    BY <2>2, <2>5, SumOfSingle
  <2> QED
    BY <2>1, <2>5, <2>6 DEF Row
<1>3. Rows(Unit(n), n, w) = Squares(n, w)
  BY <1>2 DEF Rows, Squares
<1>4. Squares(n, w) \in [1 .. n -> Nat]
  <2>1. \A x \in Int : x * x \in Nat
    OBVIOUS
  <2> QED
    BY <2>1 DEF Squares
<1> QED
  BY <1>1, <1>3, <1>4, SumOfNaturals DEF Form

\* The scale of a matrix is a number, and positive.
LEMMA ScaleTyped ==
  ASSUME NEW n \in Nat, NEW c \in Matrices(n)
  PROVE  Scale(c) \in Nat
<1> DEFINE entries == {Magnitude(x) : x \in UNION {ToSet(r) : r \in ToSet(c)}}
           row(i) == [j \in 1 .. n |-> Magnitude(c[i][j])]
           bounds(i) == {b \in Nat : \A j \in 1 .. n : row(i)[j] <= b}
           bound == [i \in 1 .. n |-> CHOOSE b : b \in bounds(i)]
<1>1. ASSUME NEW i \in 1 .. n, NEW j \in 1 .. n
      PROVE  Magnitude(c[i][j]) \in Nat
  <2>1. c[i][j] \in Int
    BY DEF Matrices
  <2> QED
    BY <2>1 DEF Magnitude
<1>2. ASSUME NEW i \in 1 .. n
      PROVE  bound[i] \in bounds(i)
  <2>1. row(i) \in [1 .. n -> Nat]
    BY <1>1
  <2>2. \E b \in Nat : \A j \in 1 .. n : row(i)[j] <= b
    <3> HIDE DEF row
    <3> QED
      BY <2>1, NumbersBounded
  <2>3. \E b : b \in bounds(i)
    BY <2>2
  <2> HIDE DEF bounds
  <2> QED
    BY <2>3
<1>3. bound \in [1 .. n -> Nat]
  BY <1>2
<1>4. PICK top \in Nat : \A i \in 1 .. n : bound[i] <= top
  <2> HIDE DEF bound
  <2> QED
    BY <1>3, NumbersBounded
<1>5. One \in Nat
  BY ObservationAssumption
<1>6. PICK m \in Nat : m = top + One
  BY <1>5
<1>7. ASSUME NEW i \in 1 .. n, NEW j \in 1 .. n
      PROVE  Magnitude(c[i][j]) \in 0 .. m
  <2>1. bound[i] \in Nat /\ Magnitude(c[i][j]) <= bound[i]
    <3>1. row(i)[j] <= bound[i] /\ bound[i] \in Nat
      BY <1>2
    <3> HIDE DEF bound
    <3> QED
      BY <3>1
  <2>2. bound[i] <= top
    BY <1>4
  <2> HIDE DEF bound
  <2> QED
    BY <1>1, <1>5, <1>6, <2>1, <2>2
<1>8. DOMAIN c = 1 .. n /\ \A i \in 1 .. n : DOMAIN c[i] = 1 .. n
  BY DEF Matrices
<1>9. {One} \cup entries \in SUBSET (0 .. m) /\ {One} \cup entries # {}
  <2>1. ASSUME NEW x \in entries
        PROVE  x \in 0 .. m
    <3>1. PICK r \in ToSet(c) : \E y \in ToSet(r) : x = Magnitude(y)
      OBVIOUS
    <3>2. PICK i \in 1 .. n : r = c[i]
      BY <1>8 DEF ToSet
    <3>3. PICK j \in 1 .. n : x = Magnitude(c[i][j])
      BY <1>8, <3>1, <3>2 DEF ToSet
    <3> QED
      BY <1>7, <3>3
  <2>2. One \in 0 .. m
    BY <1>5, <1>6
  <2> HIDE DEF entries
  <2> QED
    BY <2>1, <2>2
<1>10. Max({One} \cup entries) \in 0 .. m
  <2> HIDE DEF entries
  <2> QED
    BY <1>9, GreatestNumber
<1>11. Scale(c) = Max({One} \cup entries)
  BY DEF Scale
<1> HIDE DEF entries
<1> QED
  BY <1>10, <1>11

\* What Core holds against zero, in terms of the matrix as declared.
LEMMA FormOfShifted ==
  ASSUME NEW n \in Nat, NEW c \in Matrices(n), NEW t \in Int, NEW w \in [1 .. n -> Int]
  PROVE  /\ Symmetric(Shifted(c, t), n) /\ Len(Shifted(c, t)) = n
         /\ Form(Shifted(c, t), n, w)
              = 2 * (Fine * Form(c, n, w)) + 2 * (t * Scale(c) * SumOf(Squares(n, w), n))
<1>1. PICK F \in Int, s \in Int : F = Fine /\ s = Scale(c)
  BY ScaleTyped, ObservationAssumption
<1>2. PICK raise \in Int : raise = 2 * t * s
  BY <1>1
<1>3. PICK u : u = Shifted(c, t)
  OBVIOUS
<1> DEFINE flipped == [i \in 1 .. n |-> [j \in 1 .. n |-> c[j][i]]]
           both == [i \in 1 .. n |-> [j \in 1 .. n |-> F * (c[i][j] + c[j][i])]]
<1>4. /\ DOMAIN c = 1 .. n
      /\ \A i, j \in 1 .. n : c[i][j] \in Int
  BY DEF Matrices
<1>5. u = [i \in 1 .. n |-> [j \in 1 .. n |->
            F * (c[i][j] + c[j][i]) + IF i = j THEN raise ELSE 0]]
  BY <1>1, <1>2, <1>3, <1>4 DEF Shifted
<1>6. ASSUME NEW i \in 1 .. n, NEW j \in 1 .. n
      PROVE  /\ F * (c[i][j] + c[j][i]) \in Int
             /\ F * (c[i][j] + c[j][i]) = F * (c[j][i] + c[i][j])
             /\ F * (c[i][j] + c[j][i]) = c[i][j] * F - c[j][i] * (-F)
  <2>1. PICK x \in Int, y \in Int : x = c[i][j] /\ y = c[j][i]
    BY <1>4
  <2>2. /\ F * (x + y) \in Int /\ F * (x + y) = F * (y + x)
        /\ F * (x + y) = x * F - y * (-F)
    OBVIOUS
  <2> QED
    BY <2>1, <2>2
<1>7. flipped \in Matrices(n) /\ both \in Matrices(n)
  BY <1>4, <1>6 DEF Matrices
<1>8. \A i, j \in 1 .. n :
        u[i][j] \in Int /\ u[i][j] = F * (c[i][j] + c[j][i]) + IF i = j THEN raise ELSE 0
  BY <1>5, <1>6
<1>9. u \in Matrices(n)
  BY <1>5, <1>8 DEF Matrices
<1>10. Symmetric(u, n) /\ Len(u) = n
  <2>1. \A i, j \in 1 .. n : u[i][j] = u[j][i]
    <3> TAKE i, j \in 1 .. n
    <3>1. PICK x : x = F * (c[i][j] + c[j][i]) /\ x = F * (c[j][i] + c[i][j])
      BY <1>6
    <3>2. /\ u[i][j] = x + IF i = j THEN raise ELSE 0
          /\ u[j][i] = x + IF j = i THEN raise ELSE 0
      BY <1>8, <3>1
    <3> QED
      BY <3>2
  <2>2. Len(u) = n
    BY <1>5
  <2> QED
    BY <1>9, <2>1, <2>2 DEF Symmetric
<1>11. PICK f \in Int, q \in Int :
         f = Form(c, n, w) /\ q = SumOf(Squares(n, w), n)
  BY FormTyped, FormOfUnit
<1>12. Form(both, n, w) = f * F - f * (-F)
  <2>1. PICK d, e : d = flipped /\ e = both
    OBVIOUS
  <2>2. PICK less \in Int : less = -F
    OBVIOUS
  <2>3. /\ d \in Matrices(n) /\ e \in Matrices(n)
        /\ \A i, j \in 1 .. n : d[i][j] = c[j][i]
        /\ \A i, j \in 1 .. n : e[i][j] = c[i][j] * F - d[i][j] * less
    BY <1>6, <1>7, <2>1, <2>2
  <2>4. Form(d, n, w) = f
    BY <1>11, <2>3, FormOfTransposed
  <2>5. Form(e, n, w) = Reduced(Form(c, n, w), F, Form(d, n, w), less)
    <3>1. Mixes(e, c, F, d, less, n)
      BY <2>3 DEF Mixes
    <3> QED
      BY <3>1, FormLinear
  <2> QED
    BY <1>11, <2>1, <2>2, <2>4, <2>5 DEF Reduced
<1>13. Form(u, n, w) = Form(both, n, w) * 1 - q * (-raise)
  <2>1. PICK e, o : e = both /\ o = Unit(n)
    OBVIOUS
  <2>2. e \in Matrices(n) /\ o \in Matrices(n) /\ Form(o, n, w) = q
    BY <1>7, <1>11, <2>1, FormOfUnit
  <2>3. PICK one \in Int, less \in Int : one = 1 /\ less = -raise
    OBVIOUS
  <2>4. \A i, j \in 1 .. n : u[i][j] = e[i][j] * one - o[i][j] * less
    <3> TAKE i, j \in 1 .. n
    <3>1. PICK x \in Int : x = e[i][j] /\ x = F * (c[i][j] + c[j][i])
      BY <1>6, <2>1
    <3>2. u[i][j] = x + (IF i = j THEN raise ELSE 0)
      BY <1>8, <3>1
    <3>3. o[i][j] = IF i = j THEN 1 ELSE 0
      BY <2>1 DEF Unit
    <3>4. CASE i = j
      <4>1. u[i][j] = x + raise /\ o[i][j] = 1
        BY <3>2, <3>3, <3>4
      <4>2. x + raise = x * 1 - 1 * (-raise)
        OBVIOUS
      <4> QED
        BY <2>3, <3>1, <4>1, <4>2
    <3>5. CASE i # j
      <4>1. u[i][j] = x /\ o[i][j] = 0
        BY <3>1, <3>2, <3>3, <3>5
      <4>2. x = x * 1 - 0 * (-raise)
        OBVIOUS
      <4> QED
        BY <2>3, <3>1, <4>1, <4>2
    <3> QED
      BY <3>4, <3>5
  <2>5. Form(u, n, w) = Reduced(Form(e, n, w), one, Form(o, n, w), less)
    <3>1. Mixes(u, e, one, o, less, n)
      BY <1>9, <2>2, <2>4 DEF Mixes
    <3> QED
      BY <3>1, FormLinear
  <2> QED
    BY <2>1, <2>2, <2>3, <2>5 DEF Reduced
<1>14. Form(u, n, w) = 2 * (F * f) + 2 * (t * s * q)
  <2>1. f * F - f * (-F) = 2 * (F * f)
    OBVIOUS
  <2>2. (2 * (F * f)) * 1 - q * (-raise) = 2 * (F * f) + q * raise
    OBVIOUS
  <2>3. q * (2 * t * s) = 2 * (t * s * q)
    OBVIOUS
  <2> QED
    BY <1>2, <1>12, <1>13, <2>1, <2>2, <2>3
<1> QED
  BY <1>1, <1>3, <1>10, <1>11, <1>14

\* No weighted sum of the components of a declared covariance has a variance
\* below the tolerance, for any number of components, whatever they were
\* declared from, and although the matrix may be neither symmetric nor
\* semidefinite: what numpy errs by is the only addition to Core's tolerance.
THEOREM DeclaredVariances == ObservationSpec => []VarianceWithinTolerance
<1>1. ReportInv => VarianceWithinTolerance
  <2> SUFFICES ASSUME ReportInv, uncertainty # None,
                      NEW w \in [DOMAIN uncertainty.covariance -> Weights]
               PROVE  LET c == uncertainty.covariance IN
                      Fine * Combined(c, w)
                        >= -((Tolerance + Rounding) * Scale(c)
                               * SumFunction([i \in DOMAIN c |-> w[i] * w[i]]))
    BY DEF VarianceWithinTolerance
  <2>1. PICK c, v : c = uncertainty.covariance /\ v = w
    OBVIOUS
  <2>2. PICK t \in Tolerances :
          /\ c \in Seq(Seq(Int)) /\ \A i \in DOMAIN c : Len(c[i]) = Len(c)
          /\ Semidefinite(Shifted(c, t))
    BY <2>1 DEF ReportInv, Declared, ValidUncertainty
  <2>3. PICK n \in Nat : n = Len(c) /\ DOMAIN c = 1 .. n
    BY <2>2
  <2>4. c \in Matrices(n)
    <3>1. ASSUME NEW i \in 1 .. n
          PROVE  c[i] \in [1 .. n -> Int]
      <4>1. PICK T : T = Seq(Int)
        OBVIOUS
      <4>2. c \in Seq(T) /\ i \in DOMAIN c
        BY <2>2, <2>3, <4>1
      <4>3. c[i] \in T
        BY <4>2
      <4>4. PICK r : r = c[i]
        OBVIOUS
      <4>5. r \in Seq(Int) /\ Len(r) = n
        BY <2>2, <2>3, <4>1, <4>3, <4>4
      <4> QED
        BY <4>4, <4>5
    <3> QED
      BY <2>2, <2>3, <3>1 DEF Matrices
  <2>5. v \in [1 .. n -> Int]
    <3>1. v \in [1 .. n -> Weights] /\ Weights \subseteq Int
      BY <2>1, <2>3, ObservationAssumption
    <3> QED
      BY <3>1
  <2>6. PICK limit \in Nat : limit = Tolerance + Rounding /\ t \in Int /\ t <= limit
    BY ObservationAssumption DEF Tolerances
  <2>7. PICK F \in Int, s \in Nat, f \in Int, q \in Nat :
          F = Fine /\ s = Scale(c) /\ f = Form(c, n, v) /\ q = SumOf(Squares(n, v), n)
    <3>1. Fine \in Int /\ Scale(c) \in Nat
      BY <2>4, ObservationAssumption, ScaleTyped
    <3>2. Form(c, n, v) \in Int /\ SumOf(Squares(n, v), n) \in Nat
      BY <2>4, <2>5, FormTyped, FormOfUnit
    <3> QED
      BY <3>1, <3>2
  <2>8. 2 * (F * f) + 2 * (t * s * q) >= 0
    <3>1. PICK u : u = Shifted(c, t)
      OBVIOUS
    <3>2. /\ Symmetric(u, n) /\ Len(u) = n /\ Semidefinite(u)
          /\ Form(u, n, v) = 2 * (F * f) + 2 * (t * s * q)
      BY <2>2, <2>4, <2>5, <2>6, <2>7, <3>1, FormOfShifted
    <3> QED
      BY <2>5, <3>2, EliminationDecides
  <2>9. F * f >= -(limit * s * q)
    <3>1. PICK a \in Nat : a = s * q /\ t * s * q = t * a /\ limit * s * q = limit * a
      <4>1. /\ s * q \in Nat
            /\ t * s * q = t * (s * q) /\ limit * s * q = limit * (s * q)
        BY <2>6
      <4> QED
        BY <4>1
    <3>2. (limit - t) * a >= 0
      BY <2>6
    <3>3. (limit - t) * a = limit * a - t * a
      BY <2>6
    <3>4. F * f \in Int /\ t * a \in Int /\ limit * a \in Int
      BY <2>6
    <3> QED
      BY <2>8, <3>1, <3>2, <3>3, <3>4
  <2>10. SumFunction([i \in DOMAIN c |-> v[i] * v[i]]) = q
    BY <2>3, <2>7 DEF SumFunction, SumOf, Squares
  <2>11. Combined(c, v) = f
    BY <2>3, <2>7, CombinedIsForm
  <2> QED
    BY <2>1, <2>6, <2>7, <2>9, <2>10, <2>11
<1> QED
  BY <1>1, ReportInvariant, PTL
===============================================================================
