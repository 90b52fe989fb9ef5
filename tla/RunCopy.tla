------------------------------ MODULE RunCopy ------------------------------
(***************************************************************************)
(* What shipping promises of a run's history while its source file is not  *)
(* replaced: the ingest host holds a prefix of the file, each byte once    *)
(* and in order, where a line too long for one request may be blanked out. *)
(***************************************************************************)
EXTENDS Naturals, Sequences

CONSTANT Skipped  \* stands for a byte of a line that was too long

VARIABLES
  source,  \* bytes in the source file
  copy     \* the history: the positions of the bytes copied, oldest first

Init ==
  /\ source = 0
  /\ copy = <<>>

\* The run writes one more byte.
Grow ==
  /\ source' = source + 1
  /\ UNCHANGED copy

\* A stretch of bytes that follow the copied ones is copied, or blanked out.
Extend ==
  /\ \E n \in 1 .. source - Len(copy) :
       copy' \in { copy \o [k \in 1 .. n |-> Len(copy) + k],
                   copy \o [k \in 1 .. n |-> Skipped] }
  /\ UNCHANGED source

\* The history is deleted.
Forget ==
  /\ copy' = <<>>
  /\ UNCHANGED source

Next == Grow \/ Extend \/ Forget

Spec == Init /\ [][Next]_<<source, copy>>
=============================================================================
