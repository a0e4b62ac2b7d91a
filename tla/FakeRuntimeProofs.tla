-------------------------- MODULE FakeRuntimeProofs --------------------------
(***************************************************************************)
(* FakeRuntime, proved for any objects, targets, impulses and limits.      *)
(*                                                                         *)
(* The properties speak of the states between operations.  The invariant   *)
(* adds what propagate_to has established at each of the points where it   *)
(* is cut: the candidates lie on the objects' paths at the target, and the *)
(* objects the update loop has not reached are still where they were.      *)
(***************************************************************************)
EXTENDS FakeRuntime, TLAPS

\* The candidates of a propagation are decided, or being stored.
InFlight ==
  call # "none" =>
    /\ start \in Int /\ target \in Int /\ start < target
    /\ candidates \in [Objects -> Int]
    /\ pending # {}
    /\ ~atCall.cancelled
    /\ \A o \in pending :
         /\ epoch[o] = start
         /\ candidates[o] = position[o] + velocity[o] * (target - start)
    /\ \A o \in Objects \ pending : epoch[o] = target

Computed == call = "computed" => pending = Objects /\ position = atCall.position

Stored == call = "updating" => \A o \in Objects : candidates[o] \in Finite

Inv ==
  /\ RuntimeTypeOK /\ atCall.cancelled \in BOOLEAN
  /\ InFlight /\ Computed /\ Stored
  /\ Ballistic /\ StatesFinite /\ MoveTogether /\ CancelledBeforehand
  /\ lifecycle = "NEW" => impulse = Zero /\ moment = Zero

-------------------------------------------------------------------------------
\* The object whose epoch stands for the common one is one of the objects.
LEMMA NowIsAnEpoch ==
  /\ \E o \in Objects : Now = epoch[o]
  /\ \E o \in Objects : Now' = epoch'[o]
<1>1. (CHOOSE o \in Objects : TRUE) \in Objects  BY RuntimeAssumption
<1>2. QED  BY <1>1 DEF Now

\* A burn adds its deltaV from its own epoch on: at that epoch it adds nothing
\* to the position that Ballistic expects.
LEMMA BurnAddsNothingYet ==
  ASSUME NEW i \in Int, NEW m \in Int, NEW d \in Int, NEW t \in Int
  PROVE  (i + d) * t - (m + d * t) = i * t - m
<1>1. (i + d) * t = i * t + d * t  BY SMT
<1>2. i * t \in Int /\ d * t \in Int  BY SMT
<1>3. QED  BY <1>1, <1>2, SMT

\* Moving with the velocity of the burns so far lands where Ballistic expects.
LEMMA MoveAlongPath ==
  ASSUME NEW p \in Int, NEW v \in Int, NEW i \in Int, NEW m \in Int,
         NEW s \in Int, NEW t \in Int, NEW u \in Int
  PROVE  (p + v * (t - s) + i * t - m) + (v + i) * (u - t) = p + v * (u - s) + i * u - m
<1>1. (v + i) * (u - t) = v * u - v * t + i * u - i * t  BY SMT
<1>2. v * (t - s) = v * t - v * s /\ v * (u - s) = v * u - v * s  BY SMT
<1>3. v * u \in Int /\ v * t \in Int /\ v * s \in Int /\ i * u \in Int /\ i * t \in Int
  BY SMT
<1>4. QED  BY <1>1, <1>2, <1>3, SMT

-------------------------------------------------------------------------------
\* A runtime starts with nothing to read.
LEMMA InitInv == Init => Inv
<1> SUFFICES ASSUME Init  PROVE Inv
  OBVIOUS
<1> USE DEF Init, Opened
<1>1. RuntimeTypeOK
  <2>1. Zero \in [Objects -> Int]  BY DEF Zero
  <2>2. QED  BY <2>1 DEF RuntimeTypeOK, Calls, Answers
<1>2. atCall.cancelled \in BOOLEAN  OBVIOUS
<1>3. InFlight /\ Computed /\ Stored  BY DEF InFlight, Computed, Stored
<1>4. Ballistic /\ StatesFinite /\ MoveTogether /\ CancelledBeforehand
  BY DEF Ballistic, StatesFinite, MoveTogether, CancelledBeforehand
<1>5. QED  BY <1>1, <1>2, <1>3, <1>4 DEF Inv

\* initialize puts every object at its initial state.
LEMMA InitializeInv == Inv /\ Initialize => Inv'
<1> SUFFICES ASSUME Inv, Initialize  PROVE Inv'
  OBVIOUS
<1> USE DEF Opened, Finite
<1>1. RuntimeTypeOK' /\ (atCall.cancelled \in BOOLEAN)'
  BY RuntimeAssumption
     DEF Inv, Initialize, RuntimeTypeOK, callVars, historyVars, Calls, Answers
<1>2. InFlight' /\ Computed' /\ Stored'
  BY DEF Initialize, InFlight, Computed, Stored, callVars
<1>3. Ballistic' /\ StatesFinite'
  <2>1. impulse = Zero /\ moment = Zero
    BY DEF Inv, Initialize
  <2>2. QED  BY <2>1, RuntimeAssumption
                DEF Initialize, Ballistic, StatesFinite, historyVars, Zero
<1>4. MoveTogether'
  <2>1. \A o \in Objects : epoch'[o] = Sync  BY DEF Initialize
  <2>2. Synchronized'
    BY <2>1, NowIsAnEpoch DEF Synchronized
  <2>3. QED  BY <2>2 DEF MoveTogether, Initialize
<1>5. CancelledBeforehand'
  BY DEF Initialize, CancelledBeforehand
<1>6. lifecycle' # "NEW"  BY DEF Initialize
<1>7. QED  BY <1>1, <1>2, <1>3, <1>4, <1>5, <1>6 DEF Inv

\* Steps that move nothing: a refused operation, and a cancellation.
LEMMA RefuseInv == Inv /\ Refuse => Inv'
<1> SUFFICES ASSUME Inv, Refuse  PROVE Inv'
  OBVIOUS
<1> USE DEF Opened, Refuse, Answer, stateVars, callVars
<1>1. RuntimeTypeOK' /\ (atCall.cancelled \in BOOLEAN)'
  BY DEF Inv, RuntimeTypeOK, Answers
<1>2. InFlight' /\ Computed' /\ Stored'
  BY DEF InFlight, Computed, Stored
<1>3. Ballistic' /\ StatesFinite'
  BY DEF Inv, Ballistic, StatesFinite
<1>4. MoveTogether' /\ CancelledBeforehand'
  BY DEF Inv, MoveTogether, CancelledBeforehand, Synchronized, Now
<1>5. QED  BY <1>1, <1>2, <1>3, <1>4 DEF Inv

LEMMA CancelInv == Inv /\ Cancel => Inv'
<1> SUFFICES ASSUME Inv, Cancel  PROVE Inv'
  OBVIOUS
<1> USE DEF Opened, Cancel, stateVars, callVars, historyVars
<1>1. RuntimeTypeOK' /\ (atCall.cancelled \in BOOLEAN)'
  BY DEF Inv, RuntimeTypeOK
<1>2. InFlight' /\ Computed' /\ Stored'
  BY DEF Inv, InFlight, Computed, Stored
<1>3. Ballistic' /\ StatesFinite'
  BY DEF Inv, Ballistic, StatesFinite
<1>4. MoveTogether' /\ CancelledBeforehand'
  BY DEF Inv, MoveTogether, CancelledBeforehand, Synchronized, Now
<1>5. QED  BY <1>1, <1>2, <1>3, <1>4 DEF Inv

\* Releasing the states leaves nothing to say about them.
LEMMA CloseInv == Inv /\ Close => Inv'
<1> SUFFICES ASSUME Inv, Close  PROVE Inv'
  OBVIOUS
<1> USE DEF Opened, Close, callVars, historyVars
<1>1. RuntimeTypeOK' /\ (atCall.cancelled \in BOOLEAN)'
  BY DEF Inv, RuntimeTypeOK, Answers
<1>2. InFlight' /\ Computed' /\ Stored'
  BY DEF InFlight, Computed, Stored
<1>3. Ballistic' /\ StatesFinite' /\ MoveTogether' /\ CancelledBeforehand'
  BY DEF Ballistic, StatesFinite, MoveTogether, CancelledBeforehand
<1>4. QED  BY <1>1, <1>2, <1>3 DEF Inv

\* A failed copy ends the call with the objects where the loop left them.
LEMMA CopyFailsInv == Inv /\ CopyFails => Inv'
<1> SUFFICES ASSUME Inv, CopyFails  PROVE Inv'
  OBVIOUS
<1> USE DEF Opened, CopyFails, Answer, EndCall, stateVars
<1>1. RuntimeTypeOK' /\ (atCall.cancelled \in BOOLEAN)'
  BY DEF Inv, RuntimeTypeOK, Answers, Calls
<1>2. InFlight' /\ Computed' /\ Stored'
  BY DEF InFlight, Computed, Stored
<1>3. Ballistic' /\ StatesFinite'
  BY DEF Inv, Ballistic, StatesFinite
<1>4. MoveTogether' /\ CancelledBeforehand'
  BY DEF MoveTogether, CancelledBeforehand
<1>5. QED  BY <1>1, <1>2, <1>3, <1>4 DEF Inv

\* The head of propagate_to answers, or leaves candidates on the paths.
LEMMA PropagateInv == ASSUME Inv, NEW t \in Targets, Propagate(t)  PROVE Inv'
<1> USE DEF Opened, Propagate, Answer, stateVars, Comparable
<1>1. Now \in Int /\ (Synchronized => \A o \in Objects : epoch[o] = Now)
  BY NowIsAnEpoch DEF Inv, RuntimeTypeOK, Synchronized
<1>2. position' = position /\ velocity' = velocity /\ epoch' = epoch
  OBVIOUS
<1>3. RuntimeTypeOK' /\ (atCall.cancelled \in BOOLEAN)'
  BY DEF Inv, RuntimeTypeOK, Answers, Calls
<1>4. Ballistic' /\ StatesFinite'
  BY <1>2 DEF Inv, Ballistic, StatesFinite
<1>5. CASE call' = "none"
  <2>1. InFlight' /\ Computed' /\ Stored'
    BY <1>5 DEF InFlight, Computed, Stored
  <2>2. Now' = Now /\ Synchronized' = Synchronized
    BY <1>2 DEF Now, Synchronized
  <2>3. MayFailCopy \/ Synchronized
    BY DEF Inv, MoveTogether
  <2>4. MoveTogether'
    BY <1>1, <1>2, <1>5, <2>2, <2>3 DEF MoveTogether
  <2>5. CancelledBeforehand'
    BY <1>5 DEF CancelledBeforehand
  <2>6. QED  BY <1>3, <1>4, <2>1, <2>4, <2>5 DEF Inv
<1>6. CASE call' # "none"
  <2>1. /\ Synchronized /\ t \in Int /\ t > Now /\ ~cancelled
        /\ candidates' = Advanced(t) /\ call' = "computed" /\ pending' = Objects
        /\ start' = Now /\ target' = t /\ answer' = answer
        /\ atCall' = [position |-> position, cancelled |-> cancelled]
    BY <1>6, RuntimeAssumption
  <2>2. candidates' \in [Objects -> Int]
    <3>1. position \in [Objects -> Int] /\ velocity \in [Objects -> Int]
      BY DEF Inv, RuntimeTypeOK
    <3>2. QED  BY <2>1, <3>1, <1>1 DEF Advanced
  <2>3. InFlight'
    BY <1>1, <1>2, <2>1, <2>2, RuntimeAssumption DEF InFlight, Advanced
  <2>4. Computed' /\ Stored'
    BY <1>2, <2>1 DEF Computed, Stored
  <2>5. MoveTogether' /\ CancelledBeforehand'
    BY <2>1 DEF MoveTogether, CancelledBeforehand
  <2>6. QED  BY <1>3, <1>4, <2>3, <2>4, <2>5 DEF Inv
<1>7. QED  BY <1>5, <1>6

\* Deciding on the candidates moves nothing; the loop starts on finite ones.
LEMMA DecideInv == Inv /\ Decide => Inv'
<1> SUFFICES ASSUME Inv, Decide  PROVE Inv'
  OBVIOUS
<1> USE DEF Opened, Decide, Answer, EndCall, stateVars
<1>1. position' = position /\ velocity' = velocity /\ epoch' = epoch
  OBVIOUS
<1>2. RuntimeTypeOK' /\ (atCall.cancelled \in BOOLEAN)'
  BY DEF Inv, RuntimeTypeOK, Answers, Calls
<1>3. Ballistic' /\ StatesFinite'
  BY <1>1 DEF Inv, Ballistic, StatesFinite
<1>4. InFlight'
  BY DEF Inv, InFlight
<1>5. Computed' /\ Stored'
  BY DEF Computed, Stored, AllFinite
<1>6. CASE call' = "none"
  <2>1. position = atCall.position /\ \A o \in Objects : epoch[o] = start
    BY DEF Inv, InFlight, Computed
  <2>2. Synchronized'
    BY <1>1, <2>1, NowIsAnEpoch DEF Synchronized
  <2>3. MoveTogether' /\ CancelledBeforehand'
    BY <1>1, <1>6, <2>1, <2>2 DEF MoveTogether, CancelledBeforehand
  <2>4. QED  BY <1>2, <1>3, <1>4, <1>5, <2>3 DEF Inv
<1>7. CASE call' # "none"
  <2>1. MoveTogether' /\ CancelledBeforehand'
    BY <1>7 DEF Inv, MoveTogether, CancelledBeforehand
  <2>2. QED  BY <1>2, <1>3, <1>4, <1>5, <2>1 DEF Inv
<1>8. QED  BY <1>6, <1>7

\* One turn of the update loop moves one object along its path to the target.
LEMMA UpdateInv == ASSUME Inv, NEW o \in Objects, Update(o)  PROVE Inv'
<1> USE DEF Opened, Update, historyVars
<1>1. /\ lifecycle = "OPEN" /\ epoch[o] = start
      /\ position \in [Objects -> Int] /\ velocity \in [Objects -> Int]
      /\ epoch \in [Objects -> Int] /\ impulse \in [Objects -> Int]
      /\ moment \in [Objects -> Int] /\ pending \subseteq Objects
      /\ candidates \in [Objects -> Int] /\ start \in Int /\ target \in Int
      /\ start < target /\ ~atCall.cancelled
      /\ candidates[o] = position[o] + velocity[o] * (target - start)
  BY DEF Inv, RuntimeTypeOK, InFlight
<1>2. /\ position' \in [Objects -> Int] /\ epoch' \in [Objects -> Int]
      /\ position'[o] = candidates[o] /\ epoch'[o] = target
      /\ \A q \in Objects \ {o} : position'[q] = position[q] /\ epoch'[q] = epoch[q]
  BY <1>1
<1>3. RuntimeTypeOK' /\ (atCall.cancelled \in BOOLEAN)'
  BY <1>1, <1>2 DEF Inv, RuntimeTypeOK, Answers, Calls
<1>4. InFlight'
  <2>1. \A q \in pending' : epoch[q] = start /\ q # o /\ q \in Objects
                             /\ candidates[q] = position[q] + velocity[q] * (target - start)
    BY <1>1 DEF Inv, InFlight
  <2>2. \A q \in Objects \ pending' : epoch'[q] = target
    BY <1>1, <1>2 DEF Inv, InFlight
  <2>3. QED  BY <1>1, <1>2, <2>1, <2>2 DEF InFlight
<1>5. Computed' /\ Stored'
  BY DEF Inv, Computed, Stored
<1>6. Ballistic'
  <2>1. ASSUME NEW q \in Objects
        PROVE  position'[q] = Initial[q].position + Initial[q].velocity * (epoch'[q] - Sync)
                              + impulse[q] * epoch'[q] - moment[q]
    <3>1. /\ velocity[q] = Initial[q].velocity + impulse[q]
          /\ position[q] = Initial[q].position + Initial[q].velocity * (epoch[q] - Sync)
                           + impulse[q] * epoch[q] - moment[q]
      BY <1>1 DEF Inv, Ballistic
    <3>2. CASE q = o
      <4>1. /\ Initial[o].position \in Int /\ Initial[o].velocity \in Int /\ Sync \in Int
            /\ impulse[o] \in Int /\ moment[o] \in Int
        BY <1>1, RuntimeAssumption DEF Finite
      <4>2. position'[o] = (Initial[o].position + Initial[o].velocity * (start - Sync)
                             + impulse[o] * start - moment[o])
                           + (Initial[o].velocity + impulse[o]) * (target - start)
        BY <1>1, <1>2, <3>1, <3>2
      <4>3. QED  BY <1>1, <1>2, <3>2, <4>1, <4>2, MoveAlongPath
    <3>3. CASE q # o
      BY <1>2, <3>1, <3>3
    <3>4. QED  BY <3>2, <3>3
  <2>2. QED  BY <1>1, <2>1 DEF Inv, Ballistic
<1>7. StatesFinite'
  <2>1. candidates[o] \in Finite  BY DEF Inv, Stored
  <2>2. QED  BY <1>1, <1>2, <2>1 DEF Inv, StatesFinite
<1>8. MoveTogether'
  <2>1. SUFFICES ASSUME call' = "none"  PROVE MoveTogether'
    BY DEF MoveTogether
  <2>2. pending' = {} /\ answer' = "REACHED_TARGET" /\ target' = target
    BY <2>1
  <2>3. \A q \in Objects : epoch'[q] = target
    BY <1>1, <1>2, <2>2 DEF Inv, InFlight
  <2>4. Synchronized'
    BY <2>3, NowIsAnEpoch DEF Synchronized
  <2>5. QED  BY <2>2, <2>3, <2>4 DEF MoveTogether
<1>9. CancelledBeforehand'
  BY <1>1 DEF CancelledBeforehand
<1>10. QED  BY <1>1, <1>3, <1>4, <1>5, <1>6, <1>7, <1>8, <1>9 DEF Inv

\* A burn changes one velocity, and at its own epoch no expected position.
LEMMA ExecuteInv == ASSUME Inv, NEW m \in Entries, Execute(m)  PROVE Inv'
<1> USE DEF Opened, Execute, callVars, stateVars
<1>1. CASE ~Accepted(m)
  <2>1. RuntimeTypeOK' /\ (atCall.cancelled \in BOOLEAN)'
    BY <1>1 DEF Inv, RuntimeTypeOK, Answers, Answer
  <2>2. InFlight' /\ Computed' /\ Stored'
    BY DEF InFlight, Computed, Stored
  <2>3. Ballistic' /\ StatesFinite' /\ MoveTogether' /\ CancelledBeforehand'
    BY <1>1 DEF Inv, Answer, Ballistic, StatesFinite, MoveTogether, CancelledBeforehand,
                Synchronized, Now
  <2>4. QED  BY <2>1, <2>2, <2>3 DEF Inv, Answer
<1>2. CASE Accepted(m)
  <2> DEFINE o == m.spacecraft
             d == m.deltaV
  <2>1. /\ o \in Objects /\ d \in Int /\ m.epoch = Now /\ Synchronized
        /\ velocity[o] + d \in Finite
    BY <1>2, RuntimeAssumption DEF Accepted, Objects
  <2>2. /\ position \in [Objects -> Int] /\ velocity \in [Objects -> Int]
        /\ epoch \in [Objects -> Int] /\ impulse \in [Objects -> Int]
        /\ moment \in [Objects -> Int]
    BY DEF Inv, RuntimeTypeOK
  <2>3. epoch[o] = Now /\ Now \in Int
    BY <2>1, <2>2 DEF Synchronized
  <2>4. /\ velocity' = [velocity EXCEPT ![o] = @ + d]
        /\ impulse' = [impulse EXCEPT ![o] = @ + d]
        /\ moment' = [moment EXCEPT ![o] = @ + d * Now]
        /\ position' = position /\ epoch' = epoch /\ lifecycle' = lifecycle
        /\ answer' = "done" /\ cancelled' = cancelled
    BY <1>2, <2>1
  <2> HIDE DEF o, d
  <2>5. d * Now \in Int
    BY <2>1, <2>3, SMT
  <2>6. RuntimeTypeOK' /\ (atCall.cancelled \in BOOLEAN)'
    <3>1. velocity' \in [Objects -> Int] /\ impulse' \in [Objects -> Int]
          /\ moment' \in [Objects -> Int]
      BY <2>1, <2>2, <2>4, <2>5
    <3>2. QED  BY <2>4, <3>1 DEF Inv, RuntimeTypeOK, Answers
  <2>7. InFlight' /\ Computed' /\ Stored'
    BY DEF InFlight, Computed, Stored
  <2>8. Ballistic'
    <3>1. ASSUME NEW q \in Objects
          PROVE  /\ velocity'[q] = Initial[q].velocity + impulse'[q]
                 /\ position[q] = Initial[q].position + Initial[q].velocity * (epoch[q] - Sync)
                                  + impulse'[q] * epoch[q] - moment'[q]
      <4>1. /\ velocity[q] = Initial[q].velocity + impulse[q]
            /\ position[q] = Initial[q].position + Initial[q].velocity * (epoch[q] - Sync)
                             + impulse[q] * epoch[q] - moment[q]
        BY DEF Inv, Ballistic
      <4>2. /\ Initial[q].position \in Int /\ Initial[q].velocity \in Int
            /\ impulse[q] \in Int /\ moment[q] \in Int /\ epoch[q] \in Int /\ Sync \in Int
            /\ Initial[q].velocity * (epoch[q] - Sync) \in Int
        BY <2>2, RuntimeAssumption DEF Finite
      <4>3. CASE q # o
        BY <2>2, <2>4, <4>1, <4>3
      <4>4. CASE q = o
        <5>1. velocity'[o] = velocity[o] + d /\ impulse'[o] = impulse[o] + d
              /\ moment'[o] = moment[o] + d * Now
          BY <2>1, <2>2, <2>4
        <5>2. impulse'[o] * Now - moment'[o] = impulse[o] * Now - moment[o]
          BY <2>1, <2>3, <4>2, <4>4, <5>1, BurnAddsNothingYet
        <5>3. impulse[o] * Now \in Int /\ impulse'[o] * Now \in Int /\ moment'[o] \in Int
          BY <2>1, <2>3, <2>5, <4>2, <4>4, <5>1
        <5>4. position[o] = Initial[o].position + Initial[o].velocity * (epoch[o] - Sync)
                            + impulse'[o] * Now - moment'[o]
          BY <2>3, <4>1, <4>2, <4>4, <5>2, <5>3
        <5>5. velocity'[o] = Initial[o].velocity + impulse'[o]
          BY <2>1, <4>1, <4>2, <4>4, <5>1
        <5>6. QED  BY <2>3, <4>4, <5>4, <5>5
      <4>5. QED  BY <4>3, <4>4
    <3>2. QED  BY <2>4, <3>1 DEF Ballistic
  <2>9. StatesFinite'
    BY <2>1, <2>2, <2>4 DEF Inv, StatesFinite
  <2>10. MoveTogether' /\ CancelledBeforehand'
    BY <2>4 DEF Inv, MoveTogether, CancelledBeforehand, Synchronized, Now
  <2>11. QED  BY <2>4, <2>6, <2>7, <2>8, <2>9, <2>10 DEF Inv
<1>3. QED  BY <1>1, <1>2

\* Nothing changes when no variable does.
LEMMA StutterInv == Inv /\ UNCHANGED vars => Inv'
<1> SUFFICES ASSUME Inv, UNCHANGED vars  PROVE Inv'
  OBVIOUS
<1> USE DEF vars, stateVars, callVars, historyVars, Opened
<1>1. RuntimeTypeOK' /\ (atCall.cancelled \in BOOLEAN)'  BY DEF Inv, RuntimeTypeOK
<1>2. InFlight' /\ Computed' /\ Stored'  BY DEF Inv, InFlight, Computed, Stored
<1>3. Ballistic' /\ StatesFinite'  BY DEF Inv, Ballistic, StatesFinite
<1>4. MoveTogether' /\ CancelledBeforehand'
  BY DEF Inv, MoveTogether, CancelledBeforehand, Synchronized, Now
<1>5. QED  BY <1>1, <1>2, <1>3, <1>4 DEF Inv

\* The invariant holds in every state of every run.
THEOREM RuntimeInvariant == Spec => []Inv
<1>1. Inv /\ [Next]_vars => Inv'
  <2> SUFFICES ASSUME Inv, [Next]_vars  PROVE Inv'
    OBVIOUS
  <2>1. CASE Initialize \/ Refuse \/ Close \/ Cancel
    BY <2>1, InitializeInv, RefuseInv, CloseInv, CancelInv
  <2>2. CASE Decide \/ CopyFails
    BY <2>2, DecideInv, CopyFailsInv
  <2>3. CASE \E t \in Targets : Propagate(t)
    BY <2>3, PropagateInv
  <2>4. CASE \E o \in Objects : Update(o)
    BY <2>4, UpdateInv
  <2>5. CASE \E m \in Entries : Execute(m)
    BY <2>5, ExecuteInv
  <2>6. CASE UNCHANGED vars
    BY <2>6, StutterInv
  <2>7. QED  BY <2>1, <2>2, <2>3, <2>4, <2>5, <2>6 DEF Next
<1>2. QED  BY <1>1, InitInv, PTL DEF Spec

-------------------------------------------------------------------------------
\* Every object is where its initial state and its burns put it, however the
\* run was cut into propagations and whatever was cancelled or failed.
THEOREM PathsAreBallistic == Spec => []Ballistic
BY RuntimeInvariant, PTL DEF Inv

\* No position or velocity ever becomes non-finite.
THEOREM StatesStayFinite == Spec => []StatesFinite
BY RuntimeInvariant, PTL DEF Inv

\* propagate_to moves every object to the target or none of them, and honours a
\* token that was set before it was called.
THEOREM PropagationIsAtomic == Spec => []AllOrNothing
BY RuntimeInvariant, PTL DEF Inv, AllOrNothing

\* Once a failed update left objects apart, nothing but close changes them.
THEOREM TornStaysUntouched == Spec => TornIsUnusable
<1>1. ASSUME [Next]_vars, Opened, call = "none", ~Synchronized
      PROVE  ~Opened' \/ UNCHANGED <<call, stateVars>>
  <2> USE DEF Opened, stateVars, callVars, Answer
  <2>1. CASE Initialize \/ Refuse \/ Close \/ Cancel
    BY <1>1, <2>1 DEF Initialize, Refuse, Close, Cancel
  <2>2. CASE Decide \/ CopyFails \/ \E o \in Objects : Update(o)
    BY <1>1, <2>2 DEF Decide, CopyFails, Update
  <2>3. CASE \E t \in Targets : Propagate(t)
    BY <1>1, <2>3 DEF Propagate
  <2>4. CASE \E m \in Entries : Execute(m)
    BY <1>1, <2>4 DEF Execute, Accepted
  <2>5. CASE UNCHANGED vars
    BY <2>5 DEF vars
  <2>6. QED  BY <1>1, <2>1, <2>2, <2>3, <2>4, <2>5 DEF Next
<1>2. [Next]_vars => [Opened /\ call = "none" /\ ~Synchronized
                       => ~Opened' \/ UNCHANGED <<call, stateVars>>]_vars
  BY <1>1
<1>3. QED  BY <1>2, PTL DEF Spec, TornIsUnusable

-------------------------------------------------------------------------------
\* What the contract sees of the runtime.
Seen == IF Opened THEN Reached ELSE Sync - 1

\* When every object is at t or later and one is at t, t is what all have reached.
LEMMA ReachedIsLeast ==
  ASSUME NEW t \in Int, NEW e, \A o \in Objects : e[o] \in Int /\ t <= e[o],
         \E o \in Objects : e[o] = t
  PROVE  (CHOOSE u \in {e[o] : o \in Objects} : \A o \in Objects : u <= e[o]) = t
<1> DEFINE Least(u) == u \in {e[o] : o \in Objects} /\ \A o \in Objects : u <= e[o]
<1>1. Least(t)  OBVIOUS
<1>2. \A u : Least(u) => u = t  OBVIOUS
<1>3. QED  BY <1>1, <1>2

\* While the update loop runs, objects that wait for it are at the old epoch.
LEMMA ReachedWhileUpdating ==
  ASSUME Inv, call = "updating"
  PROVE  Reached = start /\ start \in Int /\ target \in Int /\ start < target
<1>1. /\ start \in Int /\ target \in Int /\ start < target /\ pending # {}
      /\ \A o \in pending : epoch[o] = start
      /\ \A o \in Objects \ pending : epoch[o] = target
      /\ pending \subseteq Objects
  BY DEF Inv, InFlight, RuntimeTypeOK
<1>2. \A o \in Objects : epoch[o] \in Int /\ start <= epoch[o]
  BY <1>1
<1>3. \E o \in Objects : epoch[o] = start
  BY <1>1
<1>4. QED  BY <1>1, <1>2, <1>3, ReachedIsLeast DEF Reached

\* The same of the state after a step.
LEMMA ReachedIsLater ==
  ASSUME Inv', call' = "updating"
  PROVE  Reached' = start'
<1>1. /\ start' \in Int /\ target' \in Int /\ start' < target' /\ pending' # {}
      /\ \A o \in pending' : epoch'[o] = start'
      /\ \A o \in Objects \ pending' : epoch'[o] = target'
      /\ pending' \subseteq Objects
  BY DEF Inv, InFlight, RuntimeTypeOK
<1>2. \A o \in Objects : epoch'[o] \in Int /\ start' <= epoch'[o]
  BY <1>1
<1>3. \E o \in Objects : epoch'[o] = start'
  BY <1>1
<1>4. QED  BY <1>1, <1>2, <1>3, ReachedIsLeast DEF Reached

\* Every step of the runtime keeps what is seen, or is a step of the contract.
LEMMA StepKeepsContract ==
  ASSUME Inv, [Next]_vars
  PROVE  [Contract!Next]_<<lifecycle, Seen>>
<1> USE DEF Opened, Seen
<1>1. CASE Initialize
  <2>1. /\ \A o \in Objects : epoch'[o] = Sync
        /\ lifecycle = "NEW" /\ lifecycle' = "OPEN"
    BY <1>1 DEF Initialize
  <2>2. Reached' = Sync
    BY <2>1, ReachedIsLeast, RuntimeAssumption DEF Reached
  <2>3. QED  BY <2>1, <2>2 DEF Contract!Next, Contract!Initialize
<1>2. CASE Refuse \/ Cancel \/ UNCHANGED vars \/ Decide \/ CopyFails
  <2>1. UNCHANGED <<lifecycle, epoch>>
    BY <1>2 DEF Refuse, Cancel, Decide, CopyFails, Answer, vars, stateVars
  <2>2. QED  BY <2>1 DEF Reached
<1>3. CASE Close
  <2>1. lifecycle' = "CLOSED" /\ Seen' = Sync - 1  BY <1>3 DEF Close
  <2>2. CASE lifecycle = "CLOSED"
    BY <2>1, <2>2
  <2>3. CASE lifecycle # "CLOSED"
    BY <2>1, <2>3 DEF Contract!Next, Contract!Close
  <2>4. QED  BY <2>2, <2>3
<1>4. CASE (\E t \in Targets : Propagate(t)) \/ (\E m \in Entries : Execute(m))
  <2>1. UNCHANGED <<lifecycle, epoch>>
    BY <1>4 DEF Propagate, Execute, Answer, stateVars
  <2>2. QED  BY <2>1 DEF Reached
<1>5. CASE \E o \in Objects : Update(o)
  <2>1. PICK o \in Objects : Update(o)  BY <1>5
  <2>2. /\ call = "updating" /\ lifecycle = "OPEN" /\ lifecycle' = "OPEN"
        /\ start' = start /\ target' = target
    BY <2>1 DEF Update, Inv, RuntimeTypeOK
  <2>3. Reached = start /\ start \in Int /\ target \in Int /\ start < target
    BY <2>2, ReachedWhileUpdating
  <2>4. Inv'  BY <2>1, UpdateInv
  <2>5. CASE call' = "updating"
    <3>1. Reached' = start'  BY <2>4, <2>5, ReachedIsLater
    <3>2. QED  BY <2>2, <2>3, <3>1
  <2>6. CASE call' # "updating"
    <3>1. call' = "none" /\ answer' = "REACHED_TARGET"
      BY <2>1, <2>6 DEF Update
    <3>2. \A p \in Objects : epoch'[p] = target
      BY <2>2, <2>4, <3>1 DEF Inv, MoveTogether
    <3>3. Reached' = target
      BY <2>3, <3>2, ReachedIsLeast, RuntimeAssumption DEF Reached
    <3>4. QED  BY <2>2, <2>3, <3>3 DEF Contract!Next, Contract!Advance
  <2>7. QED  BY <2>5, <2>6
<1>6. QED
  BY <1>1, <1>2, <1>3, <1>4, <1>5 DEF Next

\* The fake runtime implements the protocol: one lifetime, and an epoch reached
\* by all its objects that only moves forward, also when a copy fails.
THEOREM RuntimeKeepsContract == Spec => ImplementsContract
<1>1. Init => Contract!Init
  BY DEF Init, Contract!Init, Opened
<1>2. Inv /\ [Next]_vars => [Contract!Next]_<<lifecycle, Seen>>
  BY StepKeepsContract
<1>3. QED
  BY <1>1, <1>2, RuntimeInvariant, PTL DEF Spec, ImplementsContract, Contract!Spec, Seen
===============================================================================
