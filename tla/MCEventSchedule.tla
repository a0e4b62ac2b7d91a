--------------------------- MODULE MCEventSchedule ---------------------------
(***************************************************************************)
(* Every schedule over a short range: ranges of zero to four instants with *)
(* the synchronization epoch before or at the start, cadences that divide  *)
(* the range, do not divide it or exceed it, and timelines of up to three  *)
(* maneuvers before, at, inside and after the range, with ties.            *)
(***************************************************************************)
EXTENDS EventSchedule

Entry == [epoch : {1, 2, 4, 6, 7}, source : {"PLANNED", "COMMAND"}]
SortedByEpoch(t) == \A i, j \in DOMAIN t : i < j => t[i].epoch <= t[j].epoch
Timelines == {t \in UNION {[1 .. n -> Entry] : n \in 0 .. 3} : SortedByEpoch(t)}

MCProducts == {"TRUTH_STATE", "ATTITUDE_STATE"}
Cadences   == UNION {[ps -> {1, 3, 4, 9}] : ps \in SUBSET MCProducts}

MCRequests ==
  {r \in [start : {2}, end : {2, 5, 6}, sync : {1, 2}, intervals : Cadences,
          timeline : Timelines] :
     \A i \in DOMAIN r.timeline :
       r.timeline[i].source = "PLANNED" => r.timeline[i].epoch >= r.sync}
===============================================================================
