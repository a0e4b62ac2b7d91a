------------------------------- MODULE Delivery -------------------------------
(***************************************************************************)
(* The end of an observation event (core/delivery.py): its terminal        *)
(* delivery record, the envelope that carries a delivered observation to   *)
(* an algorithm, and the summary that counts outcomes.                     *)
(*                                                                         *)
(* The pipeline that will produce them is not in the source.  Here it is a *)
(* producer that may get any field of any of them wrong.  Core sees one at *)
(* a time and refuses what contradicts itself; nothing in the source holds *)
(* an envelope or a summary against the records it should follow from.     *)
(***************************************************************************)
EXTENDS Integers, FiniteSets

CONSTANTS
  Events,       \* ids of observation events
  Epochs,       \* [scale, at]
  Latencies,    \* latency_s a producer may write
  MaxCount      \* bound on the counts of a summary

VARIABLES
  record,       \* the record a producer handed to Core,
  envelope,     \* the envelope,
  summary,      \* or the counts
  accepted      \* whether Core accepted it

deliveryVars == <<record, envelope, summary, accepted>>

Channels == {"IDEAL", "REPORTED"}
Outcomes == {"GEOMETRY_REJECTED", "SENSOR_MISSED", "QUALITY_REJECTED", "LINK_DROPPED", "DELIVERED"}
\* A reason code of _GEOMETRY_REASONS, or another one.
Reasons  == {"geometry", "other"}

\* An optional field is a set of at most one element.
Optional(S) == {{}} \cup {{x} : x \in S}

Records == [event : Events, channel : Channels, outcome : Outcomes, measured : Epochs,
            delivery : Optional(Epochs), latency : Optional(Latencies),
            idealId : BOOLEAN, reportedId : BOOLEAN, hash : BOOLEAN, reason : Reasons]
Envelopes == [event : Events, delivery : Epochs,
              observation : [event : Events, measured : Epochs]]
Summaries == [total : 0 .. MaxCount, counts : [Outcomes -> 0 .. MaxCount]]
Absent == [kind |-> "none"]

ASSUME DeliveryAssumption ==
  /\ Epochs \subseteq [scale : STRING, at : Int]
  /\ Latencies \subseteq Int /\ Latencies \cap Nat # {}
  /\ MaxCount \in Nat

-------------------------------------------------------------------------------
\* _require_delivery_timing: the same scale, and not before the measurement.
InTime(measured, delivery) ==
  delivery.scale = measured.scale /\ ~(delivery.at < measured.at)

\* _require_no_delivery_timing.
Untimed(r) == r.delivery = {} /\ r.latency = {}

GeometryRejected(r) ==
  ~r.idealId /\ ~r.reportedId /\ ~r.hash /\ Untimed(r) /\ r.reason = "geometry"

\* Variant: the selected channel of an error-pipeline rejection is not checked.
ErrorPipelineRejectionAnyChannel(r) == r.idealId /\ ~r.reportedId /\ Untimed(r)

\* _validate_error_pipeline_rejection.
ErrorPipelineRejection(r) ==
  r.channel = "REPORTED" /\ r.idealId /\ ~r.reportedId /\ Untimed(r)

\* _validate_payload_terminal.
PayloadTerminal(r) ==
  /\ r.idealId /\ r.hash
  /\ r.reportedId = (r.channel = "REPORTED")
  /\ IF r.outcome = "DELIVERED"
     THEN /\ r.delivery # {} /\ r.latency # {}
          /\ \A s \in r.latency : s >= 0
          /\ \A d \in r.delivery : InTime(r.measured, d)
     ELSE Untimed(r)

\* _validate_terminal_state.
ValidRecord(r) ==
  CASE r.outcome = "GEOMETRY_REJECTED"                     -> GeometryRejected(r)
    [] r.outcome \in {"SENSOR_MISSED", "QUALITY_REJECTED"} -> ErrorPipelineRejection(r)
    [] OTHER                                               -> PayloadTerminal(r)

\* _validate_delivery_lineage.
ValidEnvelope(e) ==
  e.event = e.observation.event /\ InTime(e.observation.measured, e.delivery)

\* _validate_event_conservation.
Conserved(s) ==
  s.counts["DELIVERED"] + s.counts["GEOMETRY_REJECTED"] + s.counts["SENSOR_MISSED"]
    + s.counts["QUALITY_REJECTED"] + s.counts["LINK_DROPPED"] = s.total

-------------------------------------------------------------------------------
DeliveryInit == record = Absent /\ envelope = Absent /\ summary = Absent /\ accepted = FALSE

Nothing == record = Absent /\ envelope = Absent /\ summary = Absent

\* ObservationDeliveryRecord.
Record(r) ==
  /\ Nothing
  /\ record' = r /\ accepted' = ValidRecord(r)
  /\ UNCHANGED <<envelope, summary>>

\* StreamingObservationEnvelope.
Stream(e) ==
  /\ Nothing
  /\ envelope' = e /\ accepted' = ValidEnvelope(e)
  /\ UNCHANGED <<record, summary>>

\* DeliverySummary.
Summarize(s) ==
  /\ Nothing
  /\ summary' = s /\ accepted' = Conserved(s)
  /\ UNCHANGED <<record, envelope>>

DeliveryNext ==
  \/ \E r \in Records : Record(r)
  \/ \E e \in Envelopes : Stream(e)
  \/ \E s \in Summaries : Summarize(s)

DeliverySpec == DeliveryInit /\ [][DeliveryNext]_deliveryVars

-------------------------------------------------------------------------------
\* What can happen to an event: geometry may reject it; otherwise an Ideal
\* observation forms, which on the REPORTED channel goes through the error
\* pipeline; what comes out is sent over the link, which drops or delivers it.
Ends(channel) ==
  IF channel = "REPORTED" THEN Outcomes ELSE Outcomes \ {"SENSOR_MISSED", "QUALITY_REJECTED"}

Histories ==
  UNION {[event : Events, channel : {c}, end : Ends(c), measured : Epochs,
          latency : Latencies \cap Nat, delivery : Epochs, noted : BOOLEAN,
          reason : Reasons] : c \in Channels}

\* The record that tells a history; the payload of an event that was rejected
\* after its Ideal observation formed may be noted or not.
Sent(h) == h.end \in {"LINK_DROPPED", "DELIVERED"}
Told(h) ==
  [event |-> h.event, channel |-> h.channel, outcome |-> h.end, measured |-> h.measured,
   delivery   |-> IF h.end = "DELIVERED" THEN {h.delivery} ELSE {},
   latency    |-> IF h.end = "DELIVERED" THEN {h.latency} ELSE {},
   idealId    |-> h.end # "GEOMETRY_REJECTED",
   reportedId |-> h.channel = "REPORTED" /\ Sent(h),
   hash       |-> Sent(h) \/ (h.noted /\ h.end # "GEOMETRY_REJECTED"),
   reason     |-> IF h.end = "GEOMETRY_REJECTED" THEN "geometry" ELSE h.reason]

\* A delivered observation is not delivered before it was measured.
Causal(h) ==
  h.end = "DELIVERED" =>
    h.delivery.scale = h.measured.scale /\ h.delivery.at >= h.measured.at

Tellable == {Told(h) : h \in {h \in Histories : Causal(h)}}

\* The envelope that hands the observation of a delivered event over.
Handed(h) ==
  [event |-> h.event, delivery |-> h.delivery,
   observation |-> [event |-> h.event, measured |-> h.measured]]

Handable == {Handed(h) : h \in {h \in Histories : Causal(h) /\ h.end = "DELIVERED"}}

\* How many of the events of a history each ended how.
Histogram(ends) == [o \in Outcomes |-> Cardinality({e \in DOMAIN ends : ends[e] = o})]

\* Core accepts a record exactly if it tells something that can happen to an
\* event, an envelope exactly if some event can be delivered so, and a summary
\* exactly if its counts are those of as many events as it says, each with one
\* end: no fact that contradicts itself enters an evaluation, and every end an
\* event may have can be recorded, delivered and counted.  What contradicts
\* nothing passes: a delivered event may have any latency, whatever its epochs
\* are, and any reason, and counts may be wrong if their sum is right.
FactsTellHistories ==
  /\ record # Absent => (accepted <=> record \in Tellable)
  /\ envelope # Absent => (accepted <=> envelope \in Handable)
  /\ summary # Absent =>
       (accepted <=> \E ends \in [1 .. summary.total -> Outcomes] :
                       summary.counts = Histogram(ends))
===============================================================================
