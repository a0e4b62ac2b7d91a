---------------------- MODULE ManifestPreparationProofs ----------------------
(***************************************************************************)
(* What the content hash protects, proved for any requests, registries and *)
(* changes.  Until the holder computes a hash of its own, the hash it has  *)
(* is the one of the manifest that prepare returned; run accepts only a    *)
(* body with the hash it carries.                                          *)
(***************************************************************************)
EXTENDS ManifestPreparation, FiniteSetTheorems, TLAPS

\* The hash in the holder's hands is prepare's, or its own; what run accepted
\* has the hash it carries.
HashInv ==
  /\ prepared = [body |-> prepared.body, contentHash |-> prepared.contentHash]
  /\ held = [body |-> held.body, contentHash |-> held.contentHash]
  /\ prepared.contentHash = prepared.body
  /\ ~rehashed => held.contentHash = prepared.contentHash
  /\ stage \in {"locate", "provenance", "accepted"} => held.contentHash = held.body

\* The steps of prepare and run that only look at something.
LEMMA CheckKeepsHashes ==
  ASSUME HashInv, UNCHANGED <<prepared, held, rehashed>>,
         stage' \in {"locate", "provenance", "accepted"} => held.contentHash = held.body
  PROVE  HashInv'
BY DEF HashInv

\* Nothing is prepared or held at first.
LEMMA HashInit == Init => HashInv
BY DEF Init, HashInv, NoManifest

\* No step breaks the invariant.
LEMMA HashStep == HashInv /\ [Next]_vars => HashInv'
<1> SUFFICES ASSUME HashInv, [Next]_vars  PROVE HashInv'
  OBVIOUS
<1> USE DEF prepareVars, holderVars
<1>1. CASE CheckRequest \/ ResolveBackend \/ SnapshotPlugin \/ CheckScope
             \/ CheckCapabilities \/ CheckConfiguration \/ CheckEpochs
  BY <1>1, CheckKeepsHashes
     DEF CheckRequest, ResolveBackend, SnapshotPlugin, CheckScope, CheckCapabilities,
         CheckConfiguration, CheckEpochs, Prepares, Check
<1>2. CASE Merge
  BY <1>2, CheckKeepsHashes DEF Merge
<1>3. CASE Create
  <2> DEFINE m == Sealed(Body(request, entries))
  <2>1. CASE prepared' = m /\ held' = m
    BY <1>3, <2>1 DEF HashInv, Create, Sealed
  <2>2. CASE UNCHANGED <<prepared, held>> /\ stage' = "failed"
    BY <1>3, <2>2, CheckKeepsHashes DEF Create
  <2>3. QED  BY <1>3, <2>1, <2>2 DEF Create
<1>4. CASE Change
  BY <1>4 DEF HashInv, Change
<1>5. CASE Rehash
  BY <1>5 DEF HashInv, Rehash, Sealed
<1>6. CASE Move \/ Run
  BY <1>6, CheckKeepsHashes DEF Move, Run
<1>7. CASE ValidateManifest
  BY <1>7, CheckKeepsHashes DEF ValidateManifest, Runs, Check, Intact
<1>8. CASE LocateBackend \/ CheckProvenance
  BY <1>8, CheckKeepsHashes DEF HashInv, LocateBackend, CheckProvenance, Runs, Check
<1>9. CASE Done \/ UNCHANGED vars
  BY <1>9, CheckKeepsHashes DEF HashInv, Done, vars
<1>10. QED
  BY <1>1, <1>2, <1>3, <1>4, <1>5, <1>6, <1>7, <1>8, <1>9 DEF Next

\* A manifest whose hash nobody computed again runs only as it was prepared,
\* whichever of its fields were changed and whichever engine runs it.
THEOREM HashGuardsManifest == Spec => []HashProtects
<1>1. HashInv => HashProtects
  BY DEF HashInv, HashProtects
<1>2. QED  BY <1>1, HashInit, HashStep, PTL DEF Spec

-------------------------------------------------------------------------------
\* The stages, one by one.
LEMMA StageNames ==
  Stages = {"request", "resolve", "snapshot", "scope", "capabilities", "configuration",
            "epochs", "merge", "create",
            "held", "validate", "locate", "provenance", "accepted", "failed", "rejected"}
<1> DEFINE S == PrepareStages
<1>1. DOMAIN S = 1 .. 9
  BY DEF PrepareStages
<1>2. /\ S[1] = "request" /\ S[2] = "resolve" /\ S[3] = "snapshot" /\ S[4] = "scope"
      /\ S[5] = "capabilities" /\ S[6] = "configuration" /\ S[7] = "epochs"
      /\ S[8] = "merge" /\ S[9] = "create"
  BY DEF PrepareStages
<1>3. {S[i] : i \in DOMAIN S} =
        {"request", "resolve", "snapshot", "scope", "capabilities", "configuration",
         "epochs", "merge", "create"}
  <2> HIDE DEF S
  <2>1. DOMAIN S = {1, 2, 3, 4, 5, 6, 7, 8, 9}  BY <1>1
  <2>2. QED  BY <1>2, <2>1
<1>4. QED  BY <1>3 DEF Stages

\* Types, for every value of the constants; an error is kept exactly when
\* prepare or run ended with it.
THEOREM PreparationTyping == Spec => []PreparationTypeOK
<1>1. Init => PreparationTypeOK
  <2> SUFFICES ASSUME Init  PROVE PreparationTypeOK
    OBVIOUS
  <2>1. stage \in Stages /\ (error = "none" <=> stage \notin {"failed", "rejected"})
    BY StageNames DEF Init
  <2>2. changes \in 0 .. MaxChanges
    BY PreparationAssumption DEF Init
  <2>3. QED  BY <2>1, <2>2 DEF Init, PreparationTypeOK
<1>2. PreparationTypeOK /\ [Next]_vars => PreparationTypeOK'
  <2> SUFFICES ASSUME PreparationTypeOK, [Next]_vars  PROVE PreparationTypeOK'
    OBVIOUS
  <2> USE DEF prepareVars, holderVars
  <2>1. CASE CheckRequest \/ ResolveBackend \/ SnapshotPlugin \/ CheckScope \/ CheckCapabilities
    BY <2>1, StageNames
       DEF CheckRequest, ResolveBackend, SnapshotPlugin, CheckScope, CheckCapabilities,
           Prepares, Check, PreparationTypeOK
  <2>2. CASE CheckConfiguration \/ CheckEpochs
    BY <2>2, StageNames
       DEF CheckConfiguration, CheckEpochs, Prepares, Check, PreparationTypeOK
  <2>3. CASE Merge \/ Run
    BY <2>3, StageNames DEF Merge, Run, PreparationTypeOK
  <2>4. CASE Create
    BY <2>4, StageNames DEF Create, PreparationTypeOK
  <2>5. CASE Rehash \/ Move
    BY <2>5 DEF Rehash, Move, PreparationTypeOK
  <2>9. CASE Change
    <3>1. changes' \in 0 .. MaxChanges
      BY <2>9, PreparationAssumption DEF Change, PreparationTypeOK
    <3>2. QED  BY <2>9, <3>1 DEF Change, PreparationTypeOK
  <2>6. CASE ValidateManifest \/ LocateBackend \/ CheckProvenance
    BY <2>6, StageNames
       DEF ValidateManifest, LocateBackend, CheckProvenance, Runs, Check, PreparationTypeOK
  <2>7. CASE Done \/ UNCHANGED vars
    BY <2>7 DEF Done, vars, PreparationTypeOK
  <2>8. QED
    BY <2>1, <2>2, <2>3, <2>4, <2>5, <2>6, <2>7, <2>9 DEF Next
<1>3. QED  BY <1>1, <1>2, PTL DEF Spec

-------------------------------------------------------------------------------
\* What each check of run established still holds when a later one passes: the
\* manifest and the registry are snapshots by then.
CheckedInv ==
  /\ stage \in {"locate", "provenance", "accepted"} => Intact(held)
  /\ stage \in {"provenance", "accepted"} => held.body.request.backend \in DOMAIN registry
  /\ stage = "accepted" => Provenance(held.body)

\* A request whose maneuvers are given as two lists.
Listed(r, events) == r.planned \in Seq(events) /\ r.commands \in Seq(events)

ListedInv(events) ==
  /\ Listed(request, events)
  /\ stage \in {"held", "validate", "locate", "provenance", "accepted"} =>
       Listed(held.body.request, events)

\* Each check of run adds its own condition and takes none back.
LEMMA CheckedStep ==
  ASSUME CheckedInv, [Next]_vars
  PROVE  CheckedInv'
<1> USE DEF CheckedInv, prepareVars, holderVars
<1>1. CASE CheckRequest \/ ResolveBackend \/ SnapshotPlugin \/ CheckScope
             \/ CheckCapabilities \/ CheckConfiguration \/ CheckEpochs
  BY <1>1
     DEF CheckRequest, ResolveBackend, SnapshotPlugin, CheckScope, CheckCapabilities,
         CheckConfiguration, CheckEpochs, Prepares, Check
<1>2. CASE Merge \/ Create \/ Change \/ Rehash \/ Move \/ Run
  <2>1. stage' \notin {"locate", "provenance", "accepted"}
    BY <1>2 DEF Merge, Create, Change, Rehash, Move, Run
  <2> QED
    BY <2>1
<1>3. CASE ValidateManifest
  BY <1>3 DEF ValidateManifest, Runs, Check
<1>4. CASE LocateBackend
  BY <1>4 DEF LocateBackend, Runs, Check
<1>5. CASE CheckProvenance
  BY <1>5 DEF CheckProvenance, Runs, Check
<1>6. CASE Done \/ UNCHANGED vars
  BY <1>6 DEF Done, vars
<1> QED
  BY <1>1, <1>2, <1>3, <1>4, <1>5, <1>6 DEF Next

\* The maneuvers of a request stay lists if the holder's changes keep them so.
LEMMA ListedStep ==
  ASSUME NEW events, \A body : \A b \in Changes(body) : Listed(b.request, events),
         HashInv, ListedInv(events), [Next]_vars
  PROVE  ListedInv(events)'
<1> USE DEF ListedInv, prepareVars, holderVars
<1>1. CASE CheckRequest \/ ResolveBackend \/ SnapshotPlugin \/ CheckScope
             \/ CheckCapabilities \/ CheckConfiguration \/ CheckEpochs \/ Merge
  BY <1>1
     DEF CheckRequest, ResolveBackend, SnapshotPlugin, CheckScope, CheckCapabilities,
         CheckConfiguration, CheckEpochs, Prepares, Check, Merge, Listed
<1>2. CASE Create
  BY <1>2 DEF Create, Sealed, Body, Listed
<1>3. CASE Change
  <2>1. PICK body \in Changes(held.body) : held' = [held EXCEPT !.body = body]
    BY <1>3 DEF Change
  <2>2. held'.body = body
    BY <2>1 DEF HashInv
  <2> QED
    BY <1>3, <2>1, <2>2 DEF Change, Listed
<1>4. CASE Rehash
  <2>1. held'.body = held.body
    BY <1>4 DEF Rehash, Sealed
  <2> QED
    BY <1>4, <2>1 DEF Rehash, Listed
<1>5. CASE Move \/ Run \/ Done \/ UNCHANGED vars
  BY <1>5 DEF Move, Run, Done, vars, Listed
<1>6. CASE ValidateManifest \/ LocateBackend \/ CheckProvenance
  BY <1>6 DEF ValidateManifest, LocateBackend, CheckProvenance, Runs, Check, Listed
<1> QED
  BY <1>1, <1>2, <1>3, <1>4, <1>5, <1>6 DEF Next

\* The identities of two lists together are those of each.
LEMMA JoinedIds ==
  ASSUME NEW events, NEW s \in Seq(events), NEW t \in Seq(events)
  PROVE  Ids(s \o t) = Ids(s) \cup Ids(t)
<1>1. /\ Len(s) \in Nat /\ Len(t) \in Nat
      /\ DOMAIN s = 1 .. Len(s) /\ DOMAIN t = 1 .. Len(t)
      /\ DOMAIN (s \o t) = 1 .. Len(s) + Len(t)
      /\ \A i \in 1 .. Len(s) + Len(t) :
           (s \o t)[i] = IF i <= Len(s) THEN s[i] ELSE t[i - Len(s)]
  OBVIOUS
<1>2. ASSUME NEW i \in DOMAIN s  PROVE s[i].id \in Ids(s \o t)
  <2>1. i \in DOMAIN (s \o t) /\ (s \o t)[i] = s[i]
    BY <1>1
  <2> QED
    BY <2>1 DEF Ids
<1>3. ASSUME NEW i \in DOMAIN t  PROVE t[i].id \in Ids(s \o t)
  <2>1. i + Len(s) \in DOMAIN (s \o t) /\ (s \o t)[i + Len(s)] = t[i]
    BY <1>1
  <2> QED
    BY <2>1 DEF Ids
<1>4. ASSUME NEW i \in DOMAIN (s \o t)  PROVE (s \o t)[i].id \in Ids(s) \cup Ids(t)
  <2>1. CASE i <= Len(s)
    <3>1. i \in DOMAIN s /\ (s \o t)[i] = s[i]
      BY <1>1, <2>1
    <3> QED
      BY <3>1 DEF Ids
  <2>2. CASE ~ (i <= Len(s))
    <3>1. i - Len(s) \in DOMAIN t /\ (s \o t)[i] = t[i - Len(s)]
      BY <1>1, <2>2
    <3> QED
      BY <3>1 DEF Ids
  <2> QED
    BY <2>1, <2>2
<1> QED
  BY <1>2, <1>3, <1>4 DEF Ids

\* The events of both lists, and only those, are the source maneuvers.
LEMMA SourceIds ==
  ASSUME NEW r, NEW events, Listed(r, events)
  PROVE  Ids(AllEvents(r)) = {m.id : m \in SourceManeuvers(r)}
<1> DEFINE Tagged(s) == [source |-> s.source, id |-> s.event.id, epoch |-> s.event.epoch]
           P(i) == [source |-> "PLANNED", position |-> i, event |-> r.planned[i]]
           C(i) == [source |-> "COMMAND", position |-> i, event |-> r.commands[i]]
<1>1. Ids(AllEvents(r)) = Ids(r.planned) \cup Ids(r.commands)
  BY JoinedIds DEF Listed, AllEvents
<1>2. ASSUME NEW m \in SourceManeuvers(r)  PROVE m.id \in Ids(r.planned) \cup Ids(r.commands)
  <2>1. PICK s \in Source(r) : m = Tagged(s)
    BY DEF SourceManeuvers
  <2>2. m.id = s.event.id
    BY <2>1
  <2>3. \/ \E i \in DOMAIN r.planned : s = P(i)
        \/ \E i \in DOMAIN r.commands : s = C(i)
    BY DEF Source
  <2> QED
    BY <2>2, <2>3 DEF Ids
<1>3. ASSUME NEW i \in DOMAIN r.planned
      PROVE  \E m \in SourceManeuvers(r) : r.planned[i].id = m.id
  <2>1. P(i) \in Source(r)
    BY DEF Source
  <2>2. Tagged(P(i)) \in SourceManeuvers(r)
    BY <2>1 DEF SourceManeuvers
  <2>3. Tagged(P(i)).id = r.planned[i].id
    OBVIOUS
  <2> QED
    BY <2>2, <2>3
<1>4. ASSUME NEW i \in DOMAIN r.commands
      PROVE  \E m \in SourceManeuvers(r) : r.commands[i].id = m.id
  <2>1. C(i) \in Source(r)
    BY DEF Source
  <2>2. Tagged(C(i)) \in SourceManeuvers(r)
    BY <2>1 DEF SourceManeuvers
  <2>3. Tagged(C(i)).id = r.commands[i].id
    OBVIOUS
  <2> QED
    BY <2>2, <2>3
<1>5. {m.id : m \in SourceManeuvers(r)} \subseteq Ids(r.planned) \cup Ids(r.commands)
  BY <1>2
<1>6. Ids(r.planned) \cup Ids(r.commands) \subseteq {m.id : m \in SourceManeuvers(r)}
  BY <1>3, <1>4 DEF Ids
<1> QED
  BY <1>1, <1>5, <1>6

\* What the cross-check compares of a timeline carries its identities.
LEMMA TimelineIds ==
  ASSUME NEW t
  PROVE  Ids(t) = {m.id : m \in PreparedManeuvers(t)}
<1> DEFINE M(i) == [source |-> t[i].source, id |-> t[i].id, epoch |-> t[i].epoch]
<1>1. ASSUME NEW i \in DOMAIN t  PROVE t[i].id \in {m.id : m \in PreparedManeuvers(t)}
  <2>1. M(i) \in PreparedManeuvers(t) /\ M(i).id = t[i].id
    BY DEF PreparedManeuvers
  <2> QED
    BY <2>1
<1>2. ASSUME NEW m \in PreparedManeuvers(t)  PROVE m.id \in Ids(t)
  BY DEF PreparedManeuvers, Ids
<1> QED
  BY <1>1, <1>2 DEF Ids

\* In a manifest that is intact every maneuver of the request stands exactly
\* once: the timeline and the request have the same identities, each only once.
LEMMA IntactCountsOnce ==
  ASSUME NEW m, NEW events, Listed(m.body.request, events), Intact(m)
  PROVE  Len(m.body.timeline) = Len(AllEvents(m.body.request))
<1> DEFINE t == m.body.timeline
           r == m.body.request
<1>1. Ids(t) = {e.id : e \in PreparedManeuvers(t)}
  BY TimelineIds
<1>2. Ids(AllEvents(r)) = {e.id : e \in SourceManeuvers(r)}
  BY SourceIds
<1>3. Cardinality(Ids(t)) = Len(t) /\ Cardinality(Ids(AllEvents(r))) = Len(AllEvents(r))
      /\ PreparedManeuvers(t) = SourceManeuvers(r)
  BY DEF Intact, Valid
<1> QED
  BY <1>1, <1>2, <1>3

\* Whatever its holder made of a manifest, if run accepts it then it executes
\* the maneuvers of the request it carries, each once, with that request's
\* outputs, sampling and backend.
THEOREM AcceptedAgreesWithItself ==
  ASSUME NEW events,
         \A r \in Requests : Listed(r, events),
         \A body : \A b \in Changes(body) : Listed(b.request, events)
  PROVE  Spec => []AcceptedIsConsistent
<1>1. Init => CheckedInv /\ ListedInv(events)
  BY DEF Init, CheckedInv, ListedInv
<1>2. CheckedInv /\ HashInv /\ ListedInv(events) /\ [Next]_vars
        => CheckedInv' /\ ListedInv(events)'
  BY CheckedStep, ListedStep
<1>3. CheckedInv /\ ListedInv(events) => AcceptedIsConsistent
  <2> SUFFICES ASSUME CheckedInv, ListedInv(events), stage = "accepted"
               PROVE  AcceptedIsConsistent
    BY DEF AcceptedIsConsistent
  <2> DEFINE body == held.body
             r == body.request
  <2>1. Intact(held) /\ Provenance(body) /\ r.backend \in DOMAIN registry
    BY DEF CheckedInv
  <2>2. Len(body.timeline) = Len(AllEvents(r))
    BY <2>1, IntactCountsOnce DEF ListedInv
  <2>3. ASSUME NEW e \in SourceManeuvers(r)
        PROVE  \E i \in DOMAIN body.timeline :
                 /\ body.timeline[i].source = e.source
                 /\ body.timeline[i].id = e.id /\ body.timeline[i].epoch = e.epoch
    <3>1. e \in PreparedManeuvers(body.timeline)
      BY <2>1, <2>3 DEF Intact
    <3> QED
      BY <3>1 DEF PreparedManeuvers
  <2>4. Valid(r) /\ body.outputs = r.outputs /\ body.sampling = r.sampling
    BY <2>1 DEF Intact
  <2>5. body.plugin = [ref |-> r.backend, configuration |-> r.configuration]
    BY <2>1 DEF Provenance
  <2> QED
    BY <2>1, <2>2, <2>3, <2>4, <2>5 DEF AcceptedIsConsistent
<1> QED
  BY <1>1, <1>2, <1>3, HashInit, HashStep, PTL DEF Spec

-------------------------------------------------------------------------------
\* A strict total order R on a finite set enumerates it in ascending order: each
\* element stands at the place after those below it.
LEMMA SortedEnumeration ==
  ASSUME NEW S, IsFiniteSet(S), NEW R,
         \A x \in S : <<x, x>> \notin R,
         \A x, y, z \in S : <<x, y>> \in R /\ <<y, z>> \in R => <<x, z>> \in R,
         \A x, y \in S : x = y \/ <<x, y>> \in R \/ <<y, x>> \in R
  PROVE  \E s \in SetToSeqs(S) : \A i, j \in DOMAIN s : i < j => <<s[i], s[j]>> \in R
<1> DEFINE n == Cardinality(S)
           Below(x) == {y \in S : <<y, x>> \in R}
           pos == [x \in S |-> Cardinality(Below(x)) + 1]
<1>1. n \in Nat
  BY FS_CardinalityType
<1>2. ASSUME NEW x \in S
      PROVE  pos[x] \in 1 .. n
  <2>1. Below(x) \in SUBSET S /\ Below(x) # S
    OBVIOUS
  <2>2. IsFiniteSet(Below(x)) /\ Cardinality(Below(x)) <= n /\ Cardinality(Below(x)) # n
    <3> HIDE DEF Below
    <3> QED
      BY <2>1, FS_Subset
  <2>3. Cardinality(Below(x)) \in Nat
    BY <2>2, FS_CardinalityType
  <2> HIDE DEF Below, n
  <2> QED
    BY <1>1, <2>2, <2>3
<1>3. ASSUME NEW x \in S, NEW y \in S, <<x, y>> \in R
      PROVE  pos[x] < pos[y]
  <2>1. Below(x) \in SUBSET Below(y) /\ Below(x) # Below(y) /\ Below(y) \in SUBSET S
    BY <1>3
  <2>2. IsFiniteSet(Below(y))
    <3> HIDE DEF Below
    <3> QED
      BY <2>1, FS_Subset
  <2>3. /\ Cardinality(Below(x)) <= Cardinality(Below(y))
        /\ Cardinality(Below(x)) # Cardinality(Below(y))
        /\ IsFiniteSet(Below(x))
    <3> HIDE DEF Below
    <3> QED
      BY <2>1, <2>2, FS_Subset
  <2>4. Cardinality(Below(x)) \in Nat /\ Cardinality(Below(y)) \in Nat
    BY <2>2, <2>3, FS_CardinalityType
  <2> HIDE DEF Below
  <2> QED
    BY <2>3, <2>4
<1>4. DOMAIN pos = S
  OBVIOUS
<1>5. pos \in [S -> 1 .. n]
  BY <1>2
<1> HIDE DEF pos, Below, n
<1>6. \A x, y \in S : pos[x] = pos[y] => x = y
  <2> SUFFICES ASSUME NEW x \in S, NEW y \in S, x # y
               PROVE  pos[x] # pos[y]
    OBVIOUS
  <2>1. pos[x] < pos[y] \/ pos[y] < pos[x]
    BY <1>3
  <2> QED
    BY <1>1, <1>2, <2>1
<1>7. pos \in Surjection(S, 1 .. n)
  <2>1. pos \in Injection(S, 1 .. n)
    BY <1>5, <1>6 DEF Injection, IsInjective
  <2>2. IsFiniteSet(1 .. n) /\ Cardinality(1 .. n) = n
    BY <1>1, FS_Interval
  <2> QED
    BY <2>1, <2>2, FS_Injection DEF n
<1>8. \A i \in 1 .. n : \E x \in S : pos[x] = i
  BY <1>7 DEF Surjection
<1> DEFINE s == [i \in 1 .. n |-> CHOOSE x \in S : pos[x] = i]
<1>9. \A i \in 1 .. n : s[i] \in S /\ pos[s[i]] = i
  BY <1>8
<1>10. s \in [1 .. n -> S]
  BY <1>9
<1> HIDE DEF s
<1>11. s \in SetToSeqs(S)
  BY <1>9, <1>10 DEF SetToSeqs, n
<1>12. ASSUME NEW i \in 1 .. n, NEW j \in 1 .. n, i < j
       PROVE  <<s[i], s[j]>> \in R
  <2>1. s[i] \in S /\ s[j] \in S /\ pos[s[i]] = i /\ pos[s[j]] = j
    BY <1>9
  <2>2. s[i] # s[j] /\ ~ (<<s[j], s[i]>> \in R)
    <3>1. <<s[j], s[i]>> \in R => j < i
      BY <1>3, <2>1
    <3> QED
      BY <1>1, <1>12, <2>1, <3>1
  <2> QED
    BY <2>1, <2>2
<1> QED
  BY <1>10, <1>11, <1>12

\* The events of a request that the time adapter can compare.
Comparable(r, events) ==
  /\ Listed(r, events)
  /\ \A e \in events : e.epoch \in Int \cup Incomparable
  /\ Consumed(r) \cap Incomparable = {}

\* Every event of either list has a place in both together.
LEMMA EventPlaces ==
  ASSUME NEW r, NEW events, Listed(r, events)
  PROVE  /\ \A i \in DOMAIN r.planned :
              /\ i \in Int /\ r.planned[i] \in events
              /\ i \in DOMAIN AllEvents(r) /\ AllEvents(r)[i] = r.planned[i]
         /\ \A i \in DOMAIN r.commands :
              /\ i \in Int /\ r.commands[i] \in events
              /\ Len(r.planned) + i \in DOMAIN AllEvents(r)
              /\ AllEvents(r)[Len(r.planned) + i] = r.commands[i]
<1> DEFINE s == r.planned
           t == r.commands
<1>1. s \in Seq(events) /\ t \in Seq(events)
  BY DEF Listed
<1> HIDE DEF s, t
<1>2. /\ Len(s) \in Nat /\ Len(t) \in Nat
      /\ DOMAIN s = 1 .. Len(s) /\ DOMAIN t = 1 .. Len(t)
      /\ DOMAIN (s \o t) = 1 .. Len(s) + Len(t)
      /\ \A i \in 1 .. Len(s) + Len(t) :
           (s \o t)[i] = IF i <= Len(s) THEN s[i] ELSE t[i - Len(s)]
  BY <1>1
<1>3. ASSUME NEW i \in DOMAIN s
      PROVE  i \in Int /\ s[i] \in events /\ i \in DOMAIN (s \o t) /\ (s \o t)[i] = s[i]
  BY <1>1, <1>2
<1>4. ASSUME NEW i \in DOMAIN t
      PROVE  /\ i \in Int /\ t[i] \in events
             /\ Len(s) + i \in DOMAIN (s \o t) /\ (s \o t)[Len(s) + i] = t[i]
  <2>1. i \in 1 .. Len(t) /\ t[i] \in events
    BY <1>1, <1>2
  <2>2. Len(s) + i \in 1 .. Len(s) + Len(t) /\ ~ (Len(s) + i <= Len(s)) /\ (Len(s) + i) - Len(s) = i
    BY <1>2, <2>1
  <2> QED
    BY <1>2, <2>1, <2>2
<1> QED
  BY <1>3, <1>4 DEF AllEvents, s, t

\* An event of either list, with its epoch a number.
LEMMA SourceEvents ==
  ASSUME NEW r, NEW events, Comparable(r, events), NEW s \in Source(r)
  PROVE  /\ s.event.epoch \in Int
         /\ s.position \in Int
         /\ \/ /\ s.source = "PLANNED" /\ s.position \in DOMAIN r.planned
               /\ s.event = r.planned[s.position]
            \/ /\ s.source = "COMMAND" /\ s.position \in DOMAIN r.commands
               /\ s.event = r.commands[s.position]
         /\ s = [source |-> s.source, position |-> s.position, event |-> s.event]
<1>1. Listed(r, events)
  BY DEF Comparable
<1>3. \A i \in DOMAIN AllEvents(r) : AllEvents(r)[i].epoch \notin Incomparable
  BY DEF Comparable, Consumed
<1>4. CASE \E i \in DOMAIN r.planned :
             s = [source |-> "PLANNED", position |-> i, event |-> r.planned[i]]
  <2>1. PICK i \in DOMAIN r.planned :
          s = [source |-> "PLANNED", position |-> i, event |-> r.planned[i]]
    BY <1>4
  <2>2. /\ i \in Int /\ r.planned[i] \in events
        /\ i \in DOMAIN AllEvents(r) /\ AllEvents(r)[i] = r.planned[i]
    BY <1>1, EventPlaces
  <2>3. r.planned[i] \in events /\ r.planned[i].epoch \notin Incomparable
    BY <1>3, <2>2
  <2>4. r.planned[i].epoch \in Int
    BY <2>3 DEF Comparable
  <2> QED
    BY <2>1, <2>2, <2>4
<1>5. CASE \E i \in DOMAIN r.commands :
             s = [source |-> "COMMAND", position |-> i, event |-> r.commands[i]]
  <2>1. PICK i \in DOMAIN r.commands :
          s = [source |-> "COMMAND", position |-> i, event |-> r.commands[i]]
    BY <1>5
  <2>2. /\ i \in Int /\ r.commands[i] \in events
        /\ Len(r.planned) + i \in DOMAIN AllEvents(r)
        /\ AllEvents(r)[Len(r.planned) + i] = r.commands[i]
    BY <1>1, EventPlaces
  <2>3. r.commands[i] \in events /\ r.commands[i].epoch \notin Incomparable
    BY <1>3, <2>2
  <2>4. r.commands[i].epoch \in Int
    BY <2>3 DEF Comparable
  <2> QED
    BY <2>1, <2>2, <2>4
<1> QED
  BY <1>4, <1>5 DEF Source

\* _candidate_order is a strict total order of the source events of a request
\* whose epochs are comparable.
LEMMA CandidateOrder ==
  ASSUME NEW r, NEW events, Comparable(r, events)
  PROVE  /\ \A x \in Source(r) : ~Precedes(x, x)
         /\ \A x, y, z \in Source(r) : Precedes(x, y) /\ Precedes(y, z) => Precedes(x, z)
         /\ \A x, y \in Source(r) : x = y \/ Precedes(x, y) \/ Precedes(y, x)
<1>1. \A x \in Source(r) : x.event.epoch \in Int /\ x.position \in Int
                           /\ x.source \in {"PLANNED", "COMMAND"}
  BY SourceEvents
<1>2. \A x \in Source(r) : ~Precedes(x, x)
  BY <1>1 DEF Precedes
<1>3. ASSUME NEW x \in Source(r), NEW y \in Source(r), NEW z \in Source(r),
             Precedes(x, y), Precedes(y, z)
      PROVE  Precedes(x, z)
  BY <1>1, <1>3 DEF Precedes
<1>4. ASSUME NEW x \in Source(r), NEW y \in Source(r),
             ~Precedes(x, y), ~Precedes(y, x)
      PROVE  x = y
  <2>1. x.source = y.source /\ x.position = y.position
    BY <1>1, <1>4 DEF Precedes
  <2>2. x.event = y.event
    BY <2>1, SourceEvents
  <2> QED
    BY <2>1, <2>2, SourceEvents
<1> QED
  BY <1>2, <1>3, <1>4

\* No more source events than the two lists have elements.
LEMMA SourceFinite ==
  ASSUME NEW r, NEW events, Listed(r, events)
  PROVE  /\ IsFiniteSet(Source(r))
         /\ Cardinality(Source(r)) <= Len(AllEvents(r))
         /\ Len(AllEvents(r)) \in Nat
<1> DEFINE np == Len(r.planned)
           nc == Len(r.commands)
           at == [i \in 1 .. np + nc |->
                    IF i <= np
                    THEN [source |-> "PLANNED", position |-> i, event |-> r.planned[i]]
                    ELSE [source |-> "COMMAND", position |-> i - np,
                          event |-> r.commands[i - np]]]
<1>1. /\ np \in Nat /\ nc \in Nat /\ DOMAIN r.planned = 1 .. np /\ DOMAIN r.commands = 1 .. nc
      /\ Len(AllEvents(r)) = np + nc
  BY DEF Listed, AllEvents
<1> HIDE DEF np, nc
<1>2. \A i \in 1 .. np + nc : at[i] \in Source(r)
  <2> SUFFICES ASSUME NEW i \in 1 .. np + nc
               PROVE  at[i] \in Source(r)
    OBVIOUS
  <2>1. CASE i <= np
    BY <1>1, <2>1 DEF Source
  <2>2. CASE ~ (i <= np)
    <3>1. i - np \in DOMAIN r.commands
      BY <1>1, <2>2
    <3> QED
      BY <2>2, <3>1 DEF Source
  <2> QED
    BY <2>1, <2>2
<1>3. \A x \in Source(r) : \E i \in 1 .. np + nc : at[i] = x
  <2> SUFFICES ASSUME NEW x \in Source(r)
               PROVE  \E i \in 1 .. np + nc : at[i] = x
    OBVIOUS
  <2>1. CASE \E i \in DOMAIN r.planned :
               x = [source |-> "PLANNED", position |-> i, event |-> r.planned[i]]
    <3>1. PICK i \in 1 .. np :
            x = [source |-> "PLANNED", position |-> i, event |-> r.planned[i]]
      BY <1>1, <2>1
    <3>2. i \in 1 .. np + nc /\ i <= np
      BY <1>1
    <3> QED
      BY <3>1, <3>2
  <2>2. CASE \E i \in DOMAIN r.commands :
               x = [source |-> "COMMAND", position |-> i, event |-> r.commands[i]]
    <3>1. PICK i \in 1 .. nc :
            x = [source |-> "COMMAND", position |-> i, event |-> r.commands[i]]
      BY <1>1, <2>2
    <3>2. np + i \in 1 .. np + nc /\ ~ (np + i <= np) /\ (np + i) - np = i
      BY <1>1
    <3>3. at[np + i] = x
      BY <3>1, <3>2
    <3> QED
      BY <3>2, <3>3
  <2> QED
    BY <2>1, <2>2 DEF Source
<1>4. at \in Surjection(1 .. np + nc, Source(r))
  <2>1. at \in [1 .. np + nc -> Source(r)]
    BY <1>2
  <2> HIDE DEF at
  <2> QED
    BY <1>3, <2>1 DEF Surjection
<1>5. IsFiniteSet(1 .. np + nc) /\ Cardinality(1 .. np + nc) = np + nc
  BY <1>1, FS_Interval
<1> HIDE DEF at
<1> QED
  BY <1>1, <1>4, <1>5, FS_Surjection

\* A list has at most as many identities as elements, and as many only if no two
\* elements share one.
LEMMA DistinctIds ==
  ASSUME NEW t, NEW n \in Nat, DOMAIN t = 1 .. n
  PROVE  /\ Cardinality(Ids(t)) <= n
         /\ Cardinality(Ids(t)) = n => \A i, j \in 1 .. n : t[i].id = t[j].id => i = j
<1> DEFINE id == [i \in 1 .. n |-> t[i].id]
<1>1. id \in Surjection(1 .. n, Ids(t))
  BY DEF Surjection, Ids
<1>2. IsFiniteSet(1 .. n) /\ Cardinality(1 .. n) = n
  BY FS_Interval
<1>3. /\ Cardinality(Ids(t)) <= n
      /\ Cardinality(Ids(t)) = n => id \in Injection(1 .. n, Ids(t))
  <2> HIDE DEF id
  <2> QED
    BY <1>1, <1>2, FS_Surjection
<1>4. id \in Injection(1 .. n, Ids(t)) => \A i, j \in 1 .. n : t[i].id = t[j].id => i = j
  BY DEF Injection, IsInjective
<1> QED
  BY <1>3, <1>4

\* The merge is an enumeration of the source events, in their order.
LEMMA MergedEvents ==
  ASSUME NEW r, NEW events, Comparable(r, events)
  PROVE  LET n == Cardinality(Source(r)) IN
         /\ n \in Nat
         /\ \E s \in [1 .. n -> Source(r)] :
              /\ \A i, j \in 1 .. n : i < j => Precedes(s[i], s[j])
              /\ \A x \in Source(r) : \E i \in 1 .. n : s[i] = x
              /\ Merged(r) = [i \in 1 .. n |-> [order |-> i - 1, source |-> s[i].source,
                                id |-> s[i].event.id, epoch |-> s[i].event.epoch]]
<1> DEFINE S == Source(r)
           n == Cardinality(S)
           R == {xy \in S \X S : Precedes(xy[1], xy[2])}
           s == CHOOSE s \in SetToSeqs(S) :
                  \A i, j \in DOMAIN s : i < j => Precedes(s[i], s[j])
<1>1. IsFiniteSet(S) /\ n \in Nat
  BY SourceFinite, FS_CardinalityType DEF Comparable
<1>2. \A x, y \in S : <<x, y>> \in R <=> Precedes(x, y)
  OBVIOUS
<1> HIDE DEF S, R
<1>3. \E z \in SetToSeqs(S) : \A i, j \in DOMAIN z : i < j => <<z[i], z[j]>> \in R
  <2>1. /\ \A x \in S : ~Precedes(x, x)
        /\ \A x, y, z \in S : Precedes(x, y) /\ Precedes(y, z) => Precedes(x, z)
        /\ \A x, y \in S : x = y \/ Precedes(x, y) \/ Precedes(y, x)
    BY CandidateOrder DEF S
  <2>2. /\ \A x \in S : <<x, x>> \notin R
        /\ \A x, y, z \in S : <<x, y>> \in R /\ <<y, z>> \in R => <<x, z>> \in R
        /\ \A x, y \in S : x = y \/ <<x, y>> \in R \/ <<y, x>> \in R
    BY <1>2, <2>1
  <2> QED
    BY <1>1, <2>2, SortedEnumeration
<1>4. \E z \in SetToSeqs(S) : \A i, j \in DOMAIN z : i < j => Precedes(z[i], z[j])
  <2>1. PICK z \in SetToSeqs(S) : \A i, j \in DOMAIN z : i < j => <<z[i], z[j]>> \in R
    BY <1>3
  <2>2. \A i \in DOMAIN z : z[i] \in S
    BY <2>1 DEF SetToSeqs
  <2> QED
    BY <1>2, <2>1, <2>2
<1>5. s \in SetToSeqs(S) /\ \A i, j \in DOMAIN s : i < j => Precedes(s[i], s[j])
  BY <1>4
<1>6. Merged(r) = [i \in DOMAIN s |-> [order |-> i - 1, source |-> s[i].source,
                                id |-> s[i].event.id, epoch |-> s[i].event.epoch]]
  BY DEF Merged, S
<1> HIDE DEF s, n
<1>7. s \in [1 .. n -> S] /\ \A i, j \in 1 .. n : i # j => s[i] # s[j]
  BY <1>5 DEF SetToSeqs, n
<1>8. s \in Surjection(1 .. n, S)
  <2>1. s \in Injection(1 .. n, S)
    BY <1>7 DEF Injection, IsInjective
  <2>2. IsFiniteSet(1 .. n) /\ Cardinality(1 .. n) = n
    BY <1>1, FS_Interval
  <2> QED
    BY <1>1, <2>1, <2>2, FS_Injection DEF n
<1>9. \A x \in S : \E i \in 1 .. n : s[i] = x
  BY <1>8 DEF Surjection
<1> QED
  BY <1>1, <1>5, <1>6, <1>7, <1>9 DEF n, S

\* The timeline Engine merges has what Core's cross-check derives from the same
\* request, and no identity twice.
LEMMA MergedAgrees ==
  ASSUME NEW r, NEW events, Comparable(r, events), Valid(r)
  PROVE  /\ PreparedManeuvers(Merged(r)) = SourceManeuvers(r)
         /\ Cardinality(Ids(Merged(r))) = Len(Merged(r))
         /\ \A i \in DOMAIN Merged(r) : Merged(r)[i].order = i - 1
         /\ \A i, j \in DOMAIN Merged(r) : Merged(r)[i].id = Merged(r)[j].id => i = j
<1> DEFINE n == Cardinality(Source(r))
           t == Merged(r)
<1>1. n \in Nat
  BY MergedEvents
<1>2. PICK s \in [1 .. n -> Source(r)] :
        /\ \A i, j \in 1 .. n : i < j => Precedes(s[i], s[j])
        /\ \A x \in Source(r) : \E i \in 1 .. n : s[i] = x
        /\ t = [i \in 1 .. n |-> [order |-> i - 1, source |-> s[i].source,
                                  id |-> s[i].event.id, epoch |-> s[i].event.epoch]]
  BY MergedEvents
<1> HIDE DEF n, t
<1>3. DOMAIN t = 1 .. n /\ Len(t) = n
  <2>1. DOMAIN t = 1 .. n
    BY <1>2
  <2> DEFINE T == {t[i] : i \in 1 .. n}
  <2>2. t \in [1 .. n -> T]
    BY <1>2
  <2> HIDE DEF T
  <2>3. t \in Seq(T)
    BY <1>1, <2>2
  <2> QED
    BY <1>1, <2>1, <2>3
<1>4. \A i \in 1 .. n : /\ t[i].order = i - 1 /\ t[i].source = s[i].source
                        /\ t[i].id = s[i].event.id /\ t[i].epoch = s[i].event.epoch
  BY <1>2
<1>5. PreparedManeuvers(t) = SourceManeuvers(r)
  <2> DEFINE Tag(x) == [source |-> x.source, id |-> x.event.id, epoch |-> x.event.epoch]
             Told(i) == [source |-> t[i].source, id |-> t[i].id, epoch |-> t[i].epoch]
  <2>1. \A i \in 1 .. n : Told(i) = Tag(s[i])
    BY <1>4
  <2>2. PreparedManeuvers(t) = {Told(i) : i \in 1 .. n} /\ SourceManeuvers(r) = {Tag(x) : x \in Source(r)}
    BY <1>3 DEF PreparedManeuvers, SourceManeuvers
  <2> HIDE DEF Tag, Told
  <2> QED
    BY <1>2, <2>1, <2>2
<1>6. Cardinality(Ids(t)) = n
  <2>1. Listed(r, events)
    BY DEF Comparable
  <2>2. Ids(t) = Ids(AllEvents(r))
    BY <1>5, <2>1, TimelineIds, SourceIds
  <2>3. Cardinality(Ids(t)) = Len(AllEvents(r))
    BY <2>2 DEF Valid
  <2>4. n <= Len(AllEvents(r)) /\ Len(AllEvents(r)) \in Nat
    BY <2>1, SourceFinite DEF n
  <2>5. Cardinality(Ids(t)) <= n
    BY <1>1, <1>3, DistinctIds
  <2> QED
    BY <1>1, <2>3, <2>4, <2>5
<1>7. \A i, j \in 1 .. n : t[i].id = t[j].id => i = j
  BY <1>1, <1>3, <1>6, DistinctIds
<1> QED
  BY <1>3, <1>4, <1>5, <1>6, <1>7 DEF t

\* Where the maneuvers of one list stand in the merged timeline.
LEMMA MergedOrder ==
  ASSUME NEW r, NEW events, Comparable(r, events), Valid(r)
  PROVE  LET t == Merged(r)
             Place(source, list, k) == CHOOSE i \in DOMAIN t :
               t[i].source = source /\ t[i].id = list[k].id
         IN  /\ \A i, j \in DOMAIN t : i < j =>
                  \/ t[i].epoch < t[j].epoch
                  \/ /\ t[i].epoch = t[j].epoch
                     /\ t[i].source = "PLANNED" \/ t[j].source = "COMMAND"
             /\ \A j, k \in DOMAIN r.planned :
                  j < k /\ r.planned[j].epoch = r.planned[k].epoch =>
                    Place("PLANNED", r.planned, j) < Place("PLANNED", r.planned, k)
             /\ \A j, k \in DOMAIN r.commands :
                  j < k /\ r.commands[j].epoch = r.commands[k].epoch =>
                    Place("COMMAND", r.commands, j) < Place("COMMAND", r.commands, k)
<1> DEFINE n == Cardinality(Source(r))
           t == Merged(r)
           Place(source, list, k) == CHOOSE i \in DOMAIN t :
             t[i].source = source /\ t[i].id = list[k].id
           P(i) == [source |-> "PLANNED", position |-> i, event |-> r.planned[i]]
           C(i) == [source |-> "COMMAND", position |-> i, event |-> r.commands[i]]
<1>1. n \in Nat
  BY MergedEvents
<1>2. PICK s \in [1 .. n -> Source(r)] :
        /\ \A i, j \in 1 .. n : i < j => Precedes(s[i], s[j])
        /\ \A x \in Source(r) : \E i \in 1 .. n : s[i] = x
        /\ t = [i \in 1 .. n |-> [order |-> i - 1, source |-> s[i].source,
                                  id |-> s[i].event.id, epoch |-> s[i].event.epoch]]
  BY MergedEvents
<1>3. \A i, j \in DOMAIN t : t[i].id = t[j].id => i = j
  BY MergedAgrees
<1> HIDE DEF n, t
<1>4. DOMAIN t = 1 .. n
  BY <1>2
<1>5. \A i \in 1 .. n : /\ t[i].source = s[i].source
                        /\ t[i].id = s[i].event.id /\ t[i].epoch = s[i].event.epoch
  BY <1>2
<1>6. ASSUME NEW i \in 1 .. n, NEW j \in 1 .. n, i < j
      PROVE  \/ t[i].epoch < t[j].epoch
             \/ /\ t[i].epoch = t[j].epoch
                /\ t[i].source = "PLANNED" \/ t[j].source = "COMMAND"
  <2>1. Precedes(s[i], s[j]) /\ s[i] \in Source(r) /\ s[j] \in Source(r)
    BY <1>2, <1>6
  <2>2. s[i].source \in {"PLANNED", "COMMAND"}
    BY <2>1, SourceEvents
  <2> QED
    BY <1>5, <2>1, <2>2 DEF Precedes
<1>7. ASSUME NEW x \in Source(r), NEW y \in Source(r), Precedes(x, y),
             NEW a \in 1 .. n, s[a] = x, NEW b \in 1 .. n, s[b] = y
      PROVE  a < b
  <2>1. ~Precedes(y, x) /\ x # y
    BY <1>7, CandidateOrder
  <2>2. b < a => Precedes(y, x)
    BY <1>2, <1>7
  <2> QED
    BY <1>1, <1>7, <2>1, <2>2
<1>8. ASSUME NEW source, NEW list, NEW k, NEW x \in Source(r),
             x.source = source, x.event.id = list[k].id
      PROVE  Place(source, list, k) \in 1 .. n /\ s[Place(source, list, k)] = x
  <2>1. PICK a \in 1 .. n : s[a] = x
    BY <1>2
  <2>2. t[a].source = source /\ t[a].id = list[k].id
    BY <1>5, <1>8, <2>1
  <2>3. \A i \in DOMAIN t : t[i].source = source /\ t[i].id = list[k].id => i = a
    BY <1>3, <1>4, <2>2
  <2>4. Place(source, list, k) = a
    BY <1>4, <2>2, <2>3
  <2> QED
    BY <2>1, <2>4
<1> HIDE DEF Place
<1>9. ASSUME NEW j \in DOMAIN r.planned, NEW k \in DOMAIN r.planned, j < k,
             r.planned[j].epoch = r.planned[k].epoch
      PROVE  Place("PLANNED", r.planned, j) < Place("PLANNED", r.planned, k)
  <2>1. P(j) \in Source(r) /\ P(k) \in Source(r)
    BY DEF Source
  <2>2. Precedes(P(j), P(k))
    BY <1>9 DEF Precedes
  <2> QED
    BY <1>7, <1>8, <2>1, <2>2
<1>10. ASSUME NEW j \in DOMAIN r.commands, NEW k \in DOMAIN r.commands, j < k,
              r.commands[j].epoch = r.commands[k].epoch
       PROVE  Place("COMMAND", r.commands, j) < Place("COMMAND", r.commands, k)
  <2>1. C(j) \in Source(r) /\ C(k) \in Source(r)
    BY DEF Source
  <2>2. Precedes(C(j), C(k))
    BY <1>10 DEF Precedes
  <2> QED
    BY <1>7, <1>8, <2>1, <2>2
<1> QED
  BY <1>4, <1>6, <1>9, <1>10 DEF Place, t

\* The manifest Core creates of the merged timeline validates itself.
LEMMA MergedIntact ==
  ASSUME NEW r, NEW events, Comparable(r, events), Valid(r)
  PROVE  Intact(Sealed(Body(r, Merged(r))))
<1> DEFINE m == Sealed(Body(r, Merged(r)))
<1>1. /\ m.body = Body(r, Merged(r)) /\ m.contentHash = m.body
      /\ m.body.request = r /\ m.body.timeline = Merged(r)
      /\ m.body.outputs = r.outputs /\ m.body.sampling = r.sampling
      /\ m.body.requestHash = r /\ m.body.definitionHash = <<r.sync, r.planned>>
  BY DEF Sealed, Body
<1> HIDE DEF m
<1> QED
  BY <1>1, MergedAgrees DEF Intact, m

-------------------------------------------------------------------------------
\* The stages of run.
ToRun == {"held", "validate", "locate", "provenance", "accepted", "rejected"}

\* What prepare established of the request and its registry, and what a
\* manifest nobody touched still is when run looks at it.
PreparedInv ==
  /\ stage \notin {"request", "failed"} => Valid(request)
  /\ stage \notin {"request", "resolve", "failed"} /\ ~moved =>
       request.backend \in DOMAIN registry
  /\ stage \in {"merge", "create"} \cup ToRun => Consumed(request) \cap Incomparable = {}
  /\ stage = "create" => entries = Merged(request)
  /\ stage \notin ToRun => prepared = NoManifest
  /\ stage \in ToRun => prepared = Sealed(Body(request, Merged(request)))
  /\ stage \in ToRun /\ changes = 0 => held = prepared

\* No step of prepare, of the holder or of run breaks it.
LEMMA PreparedStep ==
  ASSUME PreparedInv, PreparationTypeOK, [Next]_vars
  PROVE  PreparedInv'
<1> USE DEF PreparedInv, ToRun, prepareVars, holderVars
<1>1. CASE CheckRequest
  BY <1>1 DEF CheckRequest, Prepares, Check
<1>2. CASE ResolveBackend
  BY <1>2 DEF ResolveBackend, Prepares, Check
<1>3. CASE SnapshotPlugin \/ CheckScope \/ CheckCapabilities \/ CheckConfiguration
  BY <1>3 DEF SnapshotPlugin, CheckScope, CheckCapabilities, CheckConfiguration,
              Prepares, Check
<1>4. CASE CheckEpochs
  BY <1>4 DEF CheckEpochs, Prepares, Check
<1>5. CASE Merge
  BY <1>5 DEF Merge
<1>6. CASE Create
  <2>1. CASE stage' = "held"
    <3>1. prepared' = Sealed(Body(request, entries)) /\ held' = prepared'
      BY <1>6, <2>1 DEF Create
    <3>2. entries = Merged(request) /\ request' = request /\ registry' = registry
          /\ changes' = changes /\ moved' = moved /\ stage = "create"
      BY <1>6 DEF Create
    <3> QED
      BY <2>1, <3>1, <3>2
  <2>2. CASE stage' = "failed"
    BY <1>6, <2>2 DEF Create
  <2> QED
    BY <1>6, <2>1, <2>2 DEF Create
<1>7. CASE Change
  <2>1. stage = "held" /\ stage' = "held" /\ changes' = changes + 1
        /\ UNCHANGED <<registry, prepareVars, moved>>
    BY <1>7 DEF Change
  <2>2. changes' # 0
    BY <2>1, PreparationAssumption DEF PreparationTypeOK
  <2> QED
    BY <2>1, <2>2
<1>8. CASE Rehash
  <2>1. held.contentHash # held.body /\ stage = "held" /\ stage' = "held"
        /\ UNCHANGED <<registry, prepareVars, changes, moved>>
    BY <1>8 DEF Rehash
  <2>2. changes # 0
    BY <2>1 DEF Sealed
  <2> QED
    BY <2>1, <2>2
<1>9. CASE Move
  BY <1>9 DEF Move
<1>10. CASE Run
  BY <1>10 DEF Run
<1>11. CASE ValidateManifest \/ LocateBackend \/ CheckProvenance
  BY <1>11 DEF ValidateManifest, LocateBackend, CheckProvenance, Runs, Check
<1>12. CASE Done \/ UNCHANGED vars
  BY <1>12 DEF Done, vars
<1> QED
  BY <1>1, <1>2, <1>3, <1>4, <1>5, <1>6, <1>7, <1>8, <1>9, <1>10, <1>11, <1>12 DEF Next

\* A manifest nobody touched passes each check of run in the engine that
\* prepared it, and Core accepts each manifest Engine creates.
LEMMA AgreementStep ==
  ASSUME NEW events, \A e \in events : e.epoch \in Int \cup Incomparable,
         ListedInv(events), PreparedInv, PreparationTypeOK, EngineAgreesWithCore,
         [Next]_vars
  PROVE  EngineAgreesWithCore'
<1> USE DEF EngineAgreesWithCore, prepareVars, holderVars
<1>0. changes \in Nat
  BY PreparationAssumption DEF PreparationTypeOK
<1>1. CASE CheckRequest \/ ResolveBackend \/ SnapshotPlugin \/ CheckScope
             \/ CheckCapabilities \/ CheckConfiguration \/ CheckEpochs
  BY <1>1
     DEF CheckRequest, ResolveBackend, SnapshotPlugin, CheckScope, CheckCapabilities,
         CheckConfiguration, CheckEpochs, Prepares, Check
<1>2. CASE Create
  <2>1. stage = "create" /\ entries = Merged(request) /\ Comparable(request, events)
        /\ Valid(request)
    BY <1>2 DEF Create, PreparedInv, ListedInv, Comparable
  <2>2. Intact(Sealed(Body(request, entries)))
    BY <2>1, MergedIntact
  <2> QED
    BY <1>2, <2>2 DEF Create
<1>3. CASE Merge \/ Change \/ Rehash \/ Move \/ Run
  BY <1>3 DEF Merge, Change, Rehash, Move, Run
<1>4. CASE ValidateManifest \/ LocateBackend \/ CheckProvenance
  <2> SUFFICES ASSUME stage' = "rejected"
               PROVE  changes > 0 \/ moved
    BY <1>4 DEF ValidateManifest, LocateBackend, CheckProvenance, Runs, Check
  <2> SUFFICES ASSUME changes = 0, ~moved
               PROVE  FALSE
    BY <1>0
  <2>1. stage \in ToRun
    BY <1>4 DEF ValidateManifest, LocateBackend, CheckProvenance, Runs, Check, ToRun
  <2>2. /\ held = Sealed(Body(request, Merged(request)))
        /\ Comparable(request, events) /\ Valid(request)
        /\ request.backend \in DOMAIN registry
    BY <2>1 DEF PreparedInv, ListedInv, Comparable, ToRun
  <2>3. Intact(held)
    BY <2>2, MergedIntact
  <2>4. held.body.request = request /\ Provenance(held.body)
    BY <2>2 DEF Sealed, Body, Provenance
  <2> QED
    BY <1>4, <2>2, <2>3, <2>4 DEF ValidateManifest, LocateBackend, CheckProvenance, Runs, Check
<1>5. CASE Done \/ UNCHANGED vars
  BY <1>5 DEF Done, vars
<1> QED
  BY <1>1, <1>2, <1>3, <1>4, <1>5 DEF Next

\* The invariants hold of every request with lists of dated events.
LEMMA PreparedThroughout ==
  ASSUME NEW events, \A e \in events : e.epoch \in Int \cup Incomparable,
         \A r \in Requests : Listed(r, events),
         \A body : \A b \in Changes(body) : Listed(b.request, events)
  PROVE  Spec => [](ListedInv(events) /\ PreparedInv /\ EngineAgreesWithCore)
<1>1. Init => ListedInv(events) /\ PreparedInv /\ EngineAgreesWithCore
  BY DEF Init, ListedInv, PreparedInv, EngineAgreesWithCore, ToRun
<1>2. ListedInv(events) /\ PreparedInv /\ EngineAgreesWithCore
        /\ HashInv /\ PreparationTypeOK /\ [Next]_vars
          => ListedInv(events)' /\ PreparedInv' /\ EngineAgreesWithCore'
  <2> SUFFICES ASSUME ListedInv(events), PreparedInv, EngineAgreesWithCore,
                      HashInv, PreparationTypeOK, [Next]_vars
               PROVE  ListedInv(events)' /\ PreparedInv' /\ EngineAgreesWithCore'
    OBVIOUS
  <2>1. ListedInv(events)'
    BY ListedStep
  <2>2. PreparedInv'
    BY PreparedStep
  <2>3. EngineAgreesWithCore'
    BY AgreementStep
  <2> QED
    BY <2>1, <2>2, <2>3
<1> QED
  BY <1>1, <1>2, HashInit, HashStep, PreparationTyping, PTL DEF Spec

\* Whatever request passes the checks of prepare, the manifest created of it is
\* valid to Core, and run rejects it only after it was changed or taken to
\* another engine: the two implementations of what a manifest holds agree.
THEOREM PreparedAgreesWithCore ==
  ASSUME NEW events, \A e \in events : e.epoch \in Int \cup Incomparable,
         \A r \in Requests : Listed(r, events),
         \A body : \A b \in Changes(body) : Listed(b.request, events)
  PROVE  Spec => []EngineAgreesWithCore
BY PreparedThroughout, PTL

\* _prepare_maneuvers orders every timeline by instant, planned maneuvers before
\* commands, and keeps the order of each source list within an instant.
THEOREM PreparedTimelineOrdered ==
  ASSUME NEW events, \A e \in events : e.epoch \in Int \cup Incomparable,
         \A r \in Requests : Listed(r, events),
         \A body : \A b \in Changes(body) : Listed(b.request, events)
  PROVE  Spec => []TimelineOrdered
<1>1. ListedInv(events) /\ PreparedInv => TimelineOrdered
  <2> SUFFICES ASSUME ListedInv(events), PreparedInv, prepared # NoManifest
               PROVE  TimelineOrdered
    BY DEF TimelineOrdered
  <2>1. /\ prepared = Sealed(Body(request, Merged(request)))
        /\ Comparable(request, events) /\ Valid(request)
    BY DEF PreparedInv, ListedInv, Comparable, ToRun
  <2>2. prepared.body.timeline = Merged(request)
    BY <2>1 DEF Sealed, Body
  <2> QED
    BY <2>1, <2>2, MergedOrder DEF TimelineOrdered
<1> QED
  BY <1>1, PreparedThroughout, PTL
==============================================================================
