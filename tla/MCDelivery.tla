------------------------------ MODULE MCDelivery ------------------------------
(***************************************************************************)
(* Every record over three epochs of one scale and one of another, with    *)
(* negative, zero and positive latencies; envelopes of two events; counts  *)
(* of up to two events.                                                    *)
(***************************************************************************)
EXTENDS Delivery

MCEvents    == {"e", "f"}
MCEpochs    == {[scale |-> "UTC", at |-> n] : n \in 0 .. 2} \cup {[scale |-> "TAI", at |-> 1]}
MCLatencies == -1 .. 1
===============================================================================
