------------------------ MODULE MCManifestPreparation ------------------------
(***************************************************************************)
(* Up to four maneuvers that tie, precede the synchronization, collide or  *)
(* are of another scale; registries that miss the backend or whose plugin  *)
(* is unfit or raises; and holders that change up to two parts.            *)
(***************************************************************************)
EXTENDS ManifestPreparation, TLC

CONSTANTS p1, p2, c1, c2, otherScale, fake, other

Event(id, at) == [id |-> id, epoch |-> at]

Planned == {<<>>, <<Event(p1, 2)>>, <<Event(p1, 2), Event(p2, 2)>>,
            <<Event(p1, 4), Event(p2, 2)>>, <<Event(p1, 0)>>, <<Event(p1, otherScale)>>}
Commands == {<<>>, <<Event(c1, 2)>>, <<Event(c1, 3), Event(c2, 2)>>,
             <<Event(c1, 0), Event(p2, 4)>>}
Samplings == {"TRUTH" :> 2, "TRUTH" :> 2 @@ "ATTITUDE" :> 3, "ATTITUDE" :> 1}

Plain == [sync |-> 1, start |-> 2, end |-> 5, planned |-> <<>>, commands |-> <<>>,
          outputs |-> {"TRUTH"}, sampling |-> "TRUTH" :> 2, features |-> {},
          backend |-> fake, configuration |-> {"cfg"}]

MCRequests ==
  {[Plain EXCEPT !.planned = p, !.commands = c, !.sampling = s, !.outputs = DOMAIN s] :
     p \in Planned, c \in Commands, s \in Samplings}
  \cup {[Plain EXCEPT !.outputs = o, !.features = f, !.start = at] :
     o \in {{}, {"TRUTH"}, {"ATTITUDE"}, {"TRUTH", "LINK"}}, f \in {{}, {"links"}},
     at \in {0, 2, 5, otherScale}}

Working == [valid |-> TRUE, capabilities |-> {"base", "attitude", "impulse"},
            deterministic |-> TRUE, validator |-> "accepts", adapter |-> "works"]
MCRegistries ==
  {fake :> plugin : plugin \in
     {Working, [Working EXCEPT !.valid = FALSE], [Working EXCEPT !.capabilities = {"base"}],
      [Working EXCEPT !.deterministic = FALSE], [Working EXCEPT !.validator = "refuses"],
      [Working EXCEPT !.validator = "raises"], [Working EXCEPT !.adapter = "raises"]}}
  \cup {other :> Working}

\* A timeline with its entries numbered from 0 again.
Renumbered(timeline) ==
  [i \in DOMAIN timeline |-> [timeline[i] EXCEPT !.order = i - 1]]

Timelines(t) ==
  {Reverse(t), Renumbered(Reverse(t))} \cup
  (IF t = <<>> THEN {}
   ELSE {Renumbered(Tail(t)), [t EXCEPT ![1].epoch = 5],
         Append(t, [t[1] EXCEPT !.order = Len(t)]),
         [t EXCEPT ![1].source = IF @ = "PLANNED" THEN "COMMAND" ELSE "PLANNED"]})

MCChanges(body) ==
  {[body EXCEPT !.timeline = t] : t \in Timelines(body.timeline)}
  \cup {[body EXCEPT !.request.commands = <<>>],
        [body EXCEPT !.request.outputs = {"TRUTH"}, !.outputs = {"TRUTH"}],
        [body EXCEPT !.request.planned = <<Event(c1, 2)>>],
        [body EXCEPT !.requestHash = body.request],
        [body EXCEPT !.definitionHash = <<body.request.sync, body.request.planned>>],
        [body EXCEPT !.outputs = {"TRUTH", "ATTITUDE"}],
        [body EXCEPT !.sampling = "TRUTH" :> 1],
        [body EXCEPT !.plugin.ref = other], [body EXCEPT !.plugin.configuration = {}]}
==============================================================================
