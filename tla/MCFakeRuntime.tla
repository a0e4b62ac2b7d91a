---------------------------- MODULE MCFakeRuntime ----------------------------
(***************************************************************************)
(* Two spacecraft and a third object on crossing paths, targets before, at *)
(* and after the start, and impulses that reverse or overflow a velocity.  *)
(***************************************************************************)
EXTENDS FakeRuntime

CONSTANTS sat, chaser, debris, unknown, otherScale

MCInitial ==
  [o \in Objects |-> CASE o = sat    -> [position |-> 0, velocity |-> 1]
                       [] o = chaser -> [position |-> 3, velocity |-> -1]
                       [] OTHER      -> [position |-> 1, velocity |-> 0]]

Burn(o, at, dv) == [spacecraft |-> o, epoch |-> at, deltaV |-> dv, supported |-> TRUE]

MCTargets == (0 .. 4) \cup {otherScale}
MCEntries ==
  {Burn(sat, at, dv) : at \in 1 .. 3, dv \in {-2, 1}}
    \cup {Burn(chaser, 2, 5), Burn(debris, 1, 1), Burn(unknown, 1, 1),
          Burn(sat, otherScale, 1), [Burn(sat, 1, 1) EXCEPT !.supported = FALSE]}
==============================================================================
