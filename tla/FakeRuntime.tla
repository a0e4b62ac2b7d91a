----------------------------- MODULE FakeRuntime -----------------------------
(***************************************************************************)
(* _FakeScienceBackendRuntime (engine/testing/fake_backend.py): the run-   *)
(* time of one run, which moves every object along a straight line and     *)
(* changes velocities by impulses.                                         *)
(*                                                                         *)
(* _states is kept as one function per field.  Vectors are one component,  *)
(* because no operation mixes components; numbers are exact integers and   *)
(* a magnitude over Limit stands for a non-finite float.  propagate_to is  *)
(* cut where another thread can cancel between its two token reads, and in *)
(* its update loop, where each object's array copy may fail.               *)
(***************************************************************************)
EXTENDS Integers

CONSTANTS
  Spacecraft,    \* ids of the spacecraft
  OtherObjects,  \* ids of the other propagated objects
  Initial,       \* [position, velocity] of each object
  Sync,          \* synchronization_epoch, the initial epoch of every object
  Targets,       \* epochs clients ask for
  Incomparable,  \* those of them that are of another scale or a leap second
  Entries,       \* maneuvers: [spacecraft, epoch, deltaV, supported]
  Limit,         \* largest magnitude that is finite
  MayFailCopy    \* whether an array copy in the update loop may fail

VARIABLES
  lifecycle,
  position, velocity, epoch,  \* _states
  cancelled,     \* the cancellation token, which another thread sets
  call,          \* where a propagate_to in progress is
  start, target, candidates,  \* current_epoch, target_epoch, candidates
  pending,       \* objects the update loop has not reached
  answer,        \* what the last operation returned

\* History variables, read by the properties only.
  atCall,        \* position and token when the last propagate_to was called
  impulse,       \* sum of the impulses of each spacecraft
  moment         \* sum of impulse times the epoch it was prepared for

stateVars   == <<position, velocity, epoch>>
callVars    == <<call, start, target, candidates, pending>>
historyVars == <<atCall, impulse, moment>>
vars == <<lifecycle, stateVars, cancelled, callVars, answer, historyVars>>

Objects  == Spacecraft \cup OtherObjects
Nowhere  == [o \in {} |-> 0]
Zero     == [o \in Objects |-> 0]
Calls    == {"none", "computed", "updating"}
Answers  == {"none", "done", "REACHED_TARGET", "CANCELLED", "raised", "failed"}
Finite   == -Limit .. Limit

ASSUME RuntimeAssumption ==
  /\ Objects # {}
  /\ Limit \in Nat /\ Sync \in Int
  /\ Incomparable \subseteq Targets /\ Targets \ Incomparable \subseteq Int
  /\ Initial \in [Objects -> [position : Finite, velocity : Finite]]
  /\ \A m \in Entries : m.epoch \in Targets /\ m.deltaV \in Int /\ m.supported \in BOOLEAN
  /\ MayFailCopy \in BOOLEAN

\* current_epoch: the one epoch of all the objects, or an error.
Now          == epoch[CHOOSE o \in Objects : TRUE]
Synchronized == \A o \in Objects : epoch[o] = Now

\* An epoch the time adapter can compare with the current one.
Comparable(t) == t \in Targets \ Incomparable

-------------------------------------------------------------------------------
\* __init__: nothing is copied from the manifest before initialize.
Init ==
  /\ lifecycle = "NEW"
  /\ position = Nowhere /\ velocity = Nowhere /\ epoch = Nowhere
  /\ cancelled = FALSE
  /\ call = "none" /\ start = Sync /\ target = Sync
  /\ candidates = Nowhere /\ pending = {}
  /\ answer = "none"
  /\ atCall = [position |-> Nowhere, cancelled |-> FALSE]
  /\ impulse = Zero /\ moment = Zero

\* The end of an operation that leaves the states alone.
Answer(a) ==
  /\ answer' = a
  /\ UNCHANGED <<lifecycle, stateVars, cancelled, impulse, moment>>

\* Variant: a closed runtime may be initialized again.
InitializeAgain ==
  /\ call = "none"
  /\ lifecycle # "OPEN" /\ lifecycle' = "OPEN"
  /\ position' = [o \in Objects |-> Initial[o].position]
  /\ velocity' = [o \in Objects |-> Initial[o].velocity]
  /\ epoch'    = [o \in Objects |-> Sync]
  /\ answer' = "done"
  /\ UNCHANGED <<cancelled, callVars, historyVars>>

Initialize ==
  /\ call = "none"
  /\ lifecycle = "NEW" /\ lifecycle' = "OPEN"
  /\ position' = [o \in Objects |-> Initial[o].position]
  /\ velocity' = [o \in Objects |-> Initial[o].velocity]
  /\ epoch'    = [o \in Objects |-> Sync]
  /\ answer' = "done"
  /\ UNCHANGED <<cancelled, callVars, historyVars>>

\* A second initialize, and any operation on a runtime that is not open.
Refuse ==
  /\ call = "none"
  /\ Answer("raised")
  /\ UNCHANGED <<callVars, atCall>>

\* Where each object would be at t.
Advanced(t) == [o \in Objects |-> position[o] + velocity[o] * (t - Now)]

\* Variant: the objects are taken to be synchronized.
PropagateTorn(t) ==
  /\ call = "none" /\ lifecycle = "OPEN"
  /\ atCall' = [position |-> position, cancelled |-> cancelled]
  /\ start' = Now /\ target' = t
  /\ Comparable(t) /\ t > Now
  /\ candidates' = Advanced(t) /\ call' = "computed" /\ pending' = Objects
  /\ UNCHANGED <<lifecycle, stateVars, cancelled, answer, impulse, moment>>

\* Variant: a target before the current epoch is reached backwards.
PropagateBackwards(t) ==
  /\ call = "none" /\ lifecycle = "OPEN"
  /\ atCall' = [position |-> position, cancelled |-> cancelled]
  /\ start' = Now /\ target' = t
  /\ candidates' = Advanced(t) /\ call' = "computed" /\ pending' = Objects
  /\ UNCHANGED <<lifecycle, stateVars, cancelled, answer, impulse, moment>>

\* propagate_to up to the candidates: refusals, the first token read, and a
\* target that is already reached.
Propagate(t) ==
  /\ call = "none" /\ lifecycle = "OPEN"
  /\ atCall' = [position |-> position, cancelled |-> cancelled]
  /\ start' = Now /\ target' = t
  /\ \/ /\ ~Synchronized \/ ~Comparable(t) \/ (Comparable(t) /\ t < Now)
        /\ Answer("raised")
        /\ UNCHANGED <<call, candidates, pending>>
     \/ /\ Synchronized /\ Comparable(t) /\ t >= Now
        /\ \/ /\ cancelled
              /\ Answer("CANCELLED") /\ UNCHANGED <<call, candidates, pending>>
           \/ /\ ~cancelled /\ t = Now
              /\ Answer("REACHED_TARGET") /\ UNCHANGED <<call, candidates, pending>>
           \/ /\ ~cancelled /\ t > Now
              /\ candidates' = Advanced(t) /\ call' = "computed" /\ pending' = Objects
              /\ UNCHANGED <<lifecycle, stateVars, cancelled, answer, impulse, moment>>

\* The call in progress ends.
EndCall ==
  /\ call' = "none"
  /\ UNCHANGED <<start, target, candidates, pending, atCall>>

AllFinite == \A o \in Objects : candidates[o] \in Finite

\* The check of the candidates, then the second token read.
Decide ==
  /\ call = "computed"
  /\ \/ ~AllFinite /\ Answer("raised") /\ EndCall
     \/ AllFinite /\ cancelled /\ Answer("CANCELLED") /\ EndCall
     \/ /\ AllFinite /\ ~cancelled
        /\ call' = "updating" /\ UNCHANGED <<start, target, candidates, pending, atCall>>
        /\ UNCHANGED <<lifecycle, stateVars, cancelled, answer, impulse, moment>>

\* Variant: the token is read again for each object.
UpdateCancellable(o) ==
  /\ call = "updating" /\ o \in pending
  /\ \/ cancelled /\ Answer("CANCELLED") /\ EndCall
     \/ /\ ~cancelled
        /\ position' = [position EXCEPT ![o] = candidates[o]]
        /\ epoch' = [epoch EXCEPT ![o] = target]
        /\ pending' = pending \ {o}
        /\ IF pending' = {} THEN call' = "none" /\ answer' = "REACHED_TARGET"
                            ELSE UNCHANGED <<call, answer>>
        /\ UNCHANGED <<lifecycle, velocity, cancelled, start, target, candidates, historyVars>>

\* The update loop, one object at a time; the last one ends the call.
Update(o) ==
  /\ call = "updating" /\ o \in pending
  /\ position' = [position EXCEPT ![o] = candidates[o]]
  /\ epoch' = [epoch EXCEPT ![o] = target]
  /\ pending' = pending \ {o}
  /\ IF pending' = {} THEN call' = "none" /\ answer' = "REACHED_TARGET"
                      ELSE UNCHANGED <<call, answer>>
  /\ UNCHANGED <<lifecycle, velocity, cancelled, start, target, candidates, historyVars>>

\* candidate.copy() fails for want of memory: the objects before it have moved.
CopyFails ==
  /\ MayFailCopy /\ call = "updating"
  /\ Answer("failed") /\ EndCall

\* Variant: the epoch of the maneuver is not compared with the current one.
AcceptedAnyEpoch(m) ==
  /\ m.supported /\ m.spacecraft \in Spacecraft
  /\ Synchronized /\ Comparable(m.epoch)
  /\ velocity[m.spacecraft] + m.deltaV \in Finite

\* A maneuver the runtime executes: an impulse in J2000 on a spacecraft, at the
\* current epoch, that leaves the velocity finite.
Accepted(m) ==
  /\ m.supported /\ m.spacecraft \in Spacecraft
  /\ Synchronized /\ Comparable(m.epoch) /\ m.epoch = Now
  /\ velocity[m.spacecraft] + m.deltaV \in Finite

\* execute_impulsive_maneuver.
Execute(m) ==
  /\ call = "none" /\ lifecycle = "OPEN"
  /\ \/ /\ Accepted(m)
        /\ velocity' = [velocity EXCEPT ![m.spacecraft] = @ + m.deltaV]
        /\ impulse'  = [impulse  EXCEPT ![m.spacecraft] = @ + m.deltaV]
        /\ moment'   = [moment   EXCEPT ![m.spacecraft] = @ + m.deltaV * m.epoch]
        /\ answer' = "done"
        /\ UNCHANGED <<lifecycle, position, epoch, cancelled>>
     \/ ~Accepted(m) /\ Answer("raised")
  /\ UNCHANGED <<callVars, atCall>>

\* close releases the states; it may be repeated, and needs no initialize.
Close ==
  /\ call = "none"
  /\ lifecycle' = "CLOSED"
  /\ position' = Nowhere /\ velocity' = Nowhere /\ epoch' = Nowhere
  /\ answer' = "done"
  /\ UNCHANGED <<cancelled, callVars, historyVars>>

\* Another thread cancels, at any time.
Cancel ==
  /\ cancelled' = TRUE
  /\ UNCHANGED <<lifecycle, stateVars, callVars, answer, historyVars>>

Next ==
  \/ Initialize \/ Refuse \/ Decide \/ CopyFails \/ Close \/ Cancel
  \/ \E t \in Targets : Propagate(t)
  \/ \E o \in Objects : Update(o)
  \/ \E m \in Entries : Execute(m)

Spec == Init /\ [][Next]_vars

-------------------------------------------------------------------------------
Opened == lifecycle = "OPEN"

RuntimeTypeOK ==
  /\ lifecycle \in {"NEW", "OPEN", "CLOSED"}
  /\ Opened  => /\ position \in [Objects -> Int]
                /\ velocity \in [Objects -> Int]
                /\ epoch \in [Objects -> Int]
  /\ ~Opened => call = "none" /\ position = Nowhere /\ velocity = Nowhere /\ epoch = Nowhere
  /\ cancelled \in BOOLEAN /\ call \in Calls /\ answer \in Answers
  /\ pending \subseteq Objects
  /\ impulse \in [Objects -> Int] /\ moment \in [Objects -> Int]

\* Every object is where its initial state and its burns put it: the path
\* depends on when each burn was due, never on how the run was cut into
\* propagations, on cancelled attempts or on a failed update of other objects.
\* The sum of deltaV * (epoch - burn) over its burns is impulse * epoch - moment.
Ballistic ==
  Opened => \A o \in Objects :
    /\ velocity[o] = Initial[o].velocity + impulse[o]
    /\ position[o] = Initial[o].position + Initial[o].velocity * (epoch[o] - Sync)
                     + impulse[o] * epoch[o] - moment[o]

\* No number the client can read is non-finite.
StatesFinite ==
  Opened => \A o \in Objects : position[o] \in Finite /\ velocity[o] \in Finite

\* Between operations the objects share one epoch, that of the target if it was
\* reached; a cancelled propagation moved nothing; only a copy that failed may
\* leave them apart.
MoveTogether ==
  Opened /\ call = "none" =>
    /\ answer = "REACHED_TARGET" => \A o \in Objects : epoch[o] = target
    /\ answer = "CANCELLED" => Synchronized /\ position = atCall.position
    /\ MayFailCopy \/ Synchronized

\* A token that was set when propagate_to was called is honoured, even when the
\* target is already reached.
CancelledBeforehand == answer = "REACHED_TARGET" => ~atCall.cancelled

\* A propagation moves all the objects to the target or none of them, as its
\* answer says, and does not report success to a client that had cancelled.
AllOrNothing == MoveTogether /\ CancelledBeforehand

\* Once a failed update left objects apart, no propagation starts and no burn
\* changes them: all the client can do is close.
TornIsUnusable ==
  [][Opened /\ call = "none" /\ ~Synchronized
       => ~Opened' \/ UNCHANGED <<call, stateVars>>]_vars

\* The epoch that all the objects have reached.
Reached == CHOOSE t \in {epoch[o] : o \in Objects} : \A o \in Objects : t <= epoch[o]

\* The runtime keeps the protocol's promise: one lifetime, and an epoch reached
\* by all the objects that goes from one target to the next.  A failed update
\* leaves it where it was, and there it stays until the runtime is closed.
Contract == INSTANCE RuntimeContract WITH
  Start   <- Sync,
  NoEpoch <- Sync - 1,
  reached <- IF Opened THEN Reached ELSE Sync - 1

ImplementsContract == Contract!Spec
===============================================================================
