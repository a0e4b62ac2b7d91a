----------------------------- MODULE MCEngineRun -----------------------------
(***************************************************************************)
(* Every timeline of up to two maneuvers and some of three, in any order,  *)
(* before, in and after ranges that start at or after the synchronization. *)
(***************************************************************************)
EXTENDS EngineRun, TLC

CONSTANTS sat, rival

MCSpacecraft == {sat, rival}
MCInitial    == sat :> [position |-> 0, velocity |-> 1] @@
                rival :> [position |-> 5, velocity |-> -1]
MCNone       == {}

MCEntries == [epoch : 0 .. LastEpoch, source : {"PLANNED", "COMMAND"}]
Planned(at) == [epoch |-> at, source |-> "PLANNED"]
Command(at) == [epoch |-> at, source |-> "COMMAND"]
MCTimelines ==
  UNION {[1 .. n -> MCEntries] : n \in 0 .. 2} \cup
  {<<Planned(a), Planned(b), Command(c)>> : a, b, c \in {1, 2}}

\* Different impulses, on the two spacecraft in turn.
MCBurns == <<[spacecraft |-> sat, deltaV |-> 3], [spacecraft |-> rival, deltaV |-> 5],
             [spacecraft |-> sat, deltaV |-> -4]>>

MCManifests ==
  {[sync |-> 0, start |-> range[1], end |-> range[2],
    intervals |-> [p \in {"truth_states"} |-> interval],
    timeline |-> t, burns |-> SubSeq(MCBurns, 1, Len(t))] :
     range \in {<<0, 2>>, <<1, 2>>, <<1, 3>>}, interval \in {1, 3}, t \in MCTimelines}
===============================================================================
