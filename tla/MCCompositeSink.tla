--------------------------- MODULE MCCompositeSink ---------------------------
(***************************************************************************)
(* Three children of different capacity, the smallest overflowing on the   *)
(* second of two writes, any of which may have been used before.           *)
(***************************************************************************)
EXTENDS CompositeSink

CONSTANTS r1, r2

MCCapacity == [i \in Sinks |-> IF i = 2 THEN 2 ELSE 4]
MCBatches ==
  {[channel |-> "truth_states", records |-> <<r1>>],
   [channel |-> "truth_maneuvers", records |-> <<r1, r2>>]}
MCChildStates ==
  {[status |-> s, stored |-> Empty] : s \in {"NEW", "WRITING", "ABORTED"}}
===============================================================================
