------------------------------ MODULE AtomicRun ------------------------------
(***************************************************************************)
(* What BatchRunner.run promises its caller, with the loop, the buffers    *)
(* and the clean-up forgotten: the whole output of the run becomes public  *)
(* in one step, or none of it does; the run seals itself against           *)
(* cancellation in one step that sees the token unset; and the outcome     *)
(* reported agrees with both.                                              *)
(***************************************************************************)
VARIABLES
  token,    \* the cancellation request
  sealed,   \* past the point where a request takes effect
  whole,    \* the output the manifest calls for
  public,   \* whether output has been committed
  output,   \* the committed output
  outcome   \* what run() returned or raised

atomicVars == <<token, sealed, whole, public, output, outcome>>

Running == outcome = "RUNNING"

AtomicInit ==
  /\ token = FALSE /\ sealed = FALSE /\ public = FALSE
  /\ outcome = "RUNNING"

Request == ~token /\ token' = TRUE /\ UNCHANGED <<sealed, public, output, outcome>>

Seal ==
  /\ Running /\ ~token /\ ~sealed
  /\ sealed' = TRUE
  /\ UNCHANGED <<token, public, output, outcome>>

Publish ==
  /\ Running /\ sealed /\ ~public
  /\ public' = TRUE
  /\ output' = whole
  /\ UNCHANGED <<token, sealed, outcome>>

Complete == public /\ outcome' = "COMPLETED"
StopOnRequest == token /\ ~sealed /\ ~public /\ outcome' = "CANCELLED"
StopOnError == ~public /\ outcome' = "ERROR"

Stop ==
  /\ Running
  /\ Complete \/ StopOnRequest \/ StopOnError
  /\ UNCHANGED <<token, sealed, public, output>>

\* A BaseException leaves at any point and undoes nothing.
Escape ==
  /\ Running
  /\ outcome' = "ESCAPED"
  /\ UNCHANGED <<token, public, output>>

AtomicNext ==
  /\ Request \/ Seal \/ Publish \/ Stop \/ Escape
  /\ UNCHANGED whole

AtomicSpec == AtomicInit /\ [][AtomicNext]_atomicVars
===============================================================================
