-------------------------- MODULE MCTrainingLaunch --------------------------
(* Launches of both kinds, watched in both ways.                            *)
EXTENDS RunHandle

MCExitCodes == {-9, 0}  \* killed, and done

\* Bound: two notes of the threads where nothing goes wrong, one beside a
\* fault, none beside a dg run stop, which writes itself.
FewWriters ==
  /\ faults["stop"] > 0 => notes = 0
  /\ (\E kind \in FaultKinds : faults[kind] > 0) => notes < 2
=============================================================================
