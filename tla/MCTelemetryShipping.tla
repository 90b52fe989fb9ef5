------------------------ MODULE MCTelemetryShipping ------------------------
(* Constants of the TLC runs of TelemetryShipping. *)
EXTENDS TelemetryShipping

MCSnapshots == 1 .. Final

\* The requests a shipper can build within the bounds: a chunk is whole lines
\* within MaxChunk, or empty for a longer line.
MCRequests ==
  { [offset |-> a, next |-> b, generation |-> g,
     body |-> [inc |-> i, from |-> a, upto |-> c]] :
       <<a, b, c, g, i>> \in
         { t \in (0 .. MaxSize) \X (0 .. MaxSize) \X (0 .. MaxSize)
                 \X (0 .. MaxIncarnations - 1) \X (1 .. MaxIncarnations) :
             t[1] < t[2] /\ t[3] \in {t[1], t[2]} } }

\* Bound: a call fails or the shipper is restarted, once.
OneTrouble == failures' + restarts' <= 1
=============================================================================
