--------------------------- MODULE RuntimeContract ---------------------------
(***************************************************************************)
(* What ScienceBackendRuntime (engine/backend.py) promises of one run: it  *)
(* is initialized once and released for good, and the one epoch common to  *)
(* all its objects only moves forward, from one safe point to the next.    *)
(***************************************************************************)
EXTENDS Integers

CONSTANTS
  Start,    \* the synchronization epoch
  NoEpoch   \* stands for an epoch nobody can read

VARIABLES
  lifecycle,
  reached   \* current_epoch

Lifecycles == {"NEW", "OPEN", "CLOSED"}

Init == lifecycle = "NEW" /\ reached = NoEpoch

Initialize ==
  /\ lifecycle = "NEW" /\ lifecycle' = "OPEN"
  /\ reached' = Start

Advance ==
  /\ lifecycle = "OPEN" /\ lifecycle' = "OPEN"
  /\ reached' \in Int /\ reached' > reached

Close ==
  /\ lifecycle # "CLOSED" /\ lifecycle' = "CLOSED"
  /\ reached' = NoEpoch

Next == Initialize \/ Advance \/ Close

Spec == Init /\ [][Next]_<<lifecycle, reached>>
==============================================================================
