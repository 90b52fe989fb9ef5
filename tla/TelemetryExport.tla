--------------------------- MODULE TelemetryExport ---------------------------
(***************************************************************************)
(* The telemetry exporter (telemetry/export.py): rollouts emit records     *)
(* into a bounded queue, a writer thread batches them into a JSONL file    *)
(* that it rotates, flush asks the writer to write what it holds, close    *)
(* stops it.                                                               *)
(*                                                                         *)
(* Records are numbered in the order in which the queue accepted them.     *)
(* Sizes are counted in records.  The waits of flush and close have        *)
(* timeouts, so each may give up; the writer may be arbitrarily slow.      *)
(***************************************************************************)
EXTENDS Naturals, Sequences

CONSTANTS
    Rollouts,           \* threads that emit and flush once
    Closer,             \* the thread that calls close
    MaxQueue, BatchSize, MaxBytes, MaxFiles,
    MaxEmits,           \* bound: calls of emit
    MaxFaults           \* bound: writes and rotations that raise OSError

ASSUME SizesAssumption ==
    /\ MaxQueue \in Nat \ {0} /\ BatchSize \in Nat \ {0}
    /\ MaxBytes \in Nat \ {0} /\ MaxFiles \in Nat \ {0}
ASSUME BoundsAssumption == MaxEmits \in Nat /\ MaxFaults \in Nat
ASSUME CallersAssumption ==
    /\ Closer \notin Rollouts
    /\ {"batch", "stop", "end"} \cap (Rollouts \cup {Closer}) = {}

VARIABLES
    queue,
    accepted, dropped,  \* records put in the queue, and refused by it
    caller,             \* where each thread stands in flush or close
    promised,           \* accepted, when a thread's flush marker was put
    at,                 \* the writer: "get", "write", "reopen", "append", "ended"
    then,               \* why it writes: "batch", "stop", "end", or a flush
    batch, next,        \* the batch, and the next record of it to write
    handle,             \* "open", "closed", "none"
    files,              \* the generations: the active file, .1, .2, ...
    written,            \* history: every record written, in order
    faults

calls == <<accepted, dropped, caller, promised>>
writer == <<at, then, batch, next, files, written, faults>>
vars == <<queue, accepted, dropped, caller, promised, at, then, batch, next,
          handle, files, written, faults>>

Callers == Rollouts \cup {Closer}
Record(n) == [kind |-> "record", value |-> n]
Flush(c) == [kind |-> "flush", value |-> c]
Stop == [kind |-> "stop", value |-> 0]
Items == [kind: {"record"}, value: 1 .. MaxEmits] \cup
         [kind: {"flush"}, value: Callers] \cup {Stop}

Init ==
    /\ queue = <<>>
    /\ accepted = 0 /\ dropped = 0
    /\ caller = [c \in Callers |-> "running"]
    /\ promised = [c \in Callers |-> 0]
    /\ at = "get" /\ then = "batch"
    /\ batch = <<>> /\ next = 1
    /\ handle = "open"
    /\ files = << <<>> >>
    /\ written = <<>>
    /\ faults = 0

Full == Len(queue) >= MaxQueue

-----------------------------------------------------------------------------
(* The callers: emit, flush and close *)

\* emit never waits: a record that finds the queue full is counted and gone.
Emit ==
    /\ \E r \in Rollouts : caller[r] = "running"
    /\ accepted + dropped < MaxEmits
    /\ IF Full
       THEN dropped' = dropped + 1 /\ UNCHANGED <<queue, accepted>>
       ELSE /\ queue' = Append(queue, Record(accepted + 1))
            /\ accepted' = accepted + 1
            /\ UNCHANGED dropped
    /\ UNCHANGED <<caller, promised, handle, writer>>

\* flush puts its marker when there is room, and then waits for the writer.
PutFlush(c) ==
    /\ caller[c] = "running"
    /\ ~ Full
    /\ queue' = Append(queue, Flush(c))
    /\ promised' = [promised EXCEPT ![c] = accepted]
    /\ caller' = [caller EXCEPT ![c] = "waiting"]
    /\ UNCHANGED <<accepted, dropped, handle, writer>>

\* No room for the whole timeout: flush returns without having asked.
FlushFindsNoRoom(c) ==
    /\ caller[c] = "running"
    /\ Full
    /\ caller' = [caller EXCEPT ![c] = "gave_up"]
    /\ UNCHANGED <<queue, accepted, dropped, promised, handle, writer>>

\* The marker was not reached within the timeout.
FlushTimesOut(c) ==
    /\ caller[c] = "waiting"
    /\ caller' = [caller EXCEPT ![c] = "gave_up"]
    /\ UNCHANGED <<queue, accepted, dropped, promised, handle, writer>>

\* close, after its flush: the stop marker, for which there may be no room.
PutStop ==
    /\ caller[Closer] \in {"flushed", "gave_up"}
    /\ \/ ~ Full /\ queue' = Append(queue, Stop)
       \/ Full /\ UNCHANGED queue
    /\ caller' = [caller EXCEPT ![Closer] = "joining"]
    /\ UNCHANGED <<accepted, dropped, promised, handle, writer>>

\* join has returned, because the writer ended or did not end in time: close
\* closes the file, under the writer in the second case.
CloseFile ==
    /\ caller[Closer] = "joining"
    /\ caller' = [caller EXCEPT ![Closer] = "closed"]
    /\ handle' = IF handle = "open" THEN "none" ELSE handle
    /\ UNCHANGED <<queue, accepted, dropped, promised, writer>>

-----------------------------------------------------------------------------
(* The writer thread *)

\* Mutant: a flush writes full batches only.
GetFlushAwaitsFullBatch ==
    /\ at = "get" /\ queue # <<>>
    /\ queue' = Tail(queue)
    /\ LET item == Head(queue) IN
       CASE item.kind = "record" ->
              /\ batch' = Append(batch, item.value)
              /\ at' = IF Len(batch') >= BatchSize THEN "write" ELSE "get"
              /\ then' = "batch"
         [] item.kind = "flush" ->
              UNCHANGED <<at, then, batch>>
         [] item.kind = "stop" ->
              at' = "write" /\ then' = "stop" /\ UNCHANGED batch
    /\ UNCHANGED <<calls, next, handle, files, written, faults>>

\* The next item of the queue.
Get ==
    /\ at = "get" /\ queue # <<>>
    /\ queue' = Tail(queue)
    /\ LET item == Head(queue) IN
       CASE item.kind = "record" ->
              /\ batch' = Append(batch, item.value)
              /\ at' = IF Len(batch') >= BatchSize THEN "write" ELSE "get"
              /\ then' = "batch"
         [] item.kind = "flush" ->
              at' = "write" /\ then' = item.value /\ UNCHANGED batch
         [] item.kind = "stop" ->
              at' = "write" /\ then' = "stop" /\ UNCHANGED batch
    /\ UNCHANGED <<calls, next, handle, files, written, faults>>

\* Mutant: a full batch that was written is not emptied.
WrittenBatchKept ==
    /\ next' = 1
    /\ CASE then = "end" \/ (then = "stop" /\ batch = <<>>) ->
              at' = "ended" /\ UNCHANGED <<then, batch, caller>>
         [] then = "stop" /\ batch # <<>> ->
              at' = "write" /\ then' = "end" /\ UNCHANGED <<batch, caller>>
         [] then = "batch" ->
              at' = "get" /\ UNCHANGED <<then, batch, caller>>
         [] then \in Callers ->
              /\ at' = "get" /\ batch' = <<>> /\ then' = "batch"
              /\ caller' = IF caller[then] = "waiting"
                           THEN [caller EXCEPT ![then] = "flushed"] ELSE caller

\* _write has returned.  The batch is emptied, and a flush that still waits
\* is told, except on a stop: the finally writes its batch once more.
WriteReturns ==
    /\ next' = 1
    /\ CASE then = "end" \/ (then = "stop" /\ batch = <<>>) ->
              at' = "ended" /\ UNCHANGED <<then, batch, caller>>
         [] then = "stop" /\ batch # <<>> ->
              at' = "write" /\ then' = "end" /\ UNCHANGED <<batch, caller>>
         [] then = "batch" ->
              at' = "get" /\ batch' = <<>> /\ UNCHANGED <<then, caller>>
         [] then \in Callers ->
              /\ at' = "get" /\ batch' = <<>> /\ then' = "batch"
              /\ caller' = IF caller[then] = "waiting"
                           THEN [caller EXCEPT ![then] = "flushed"] ELSE caller

\* Mutant: the flush is confirmed although its write raised.
RaisesConfirmed ==
    /\ next' = 1
    /\ IF then = "end" THEN at' = "ended" /\ UNCHANGED then
       ELSE at' = "write" /\ then' = "end"
    /\ caller' = IF then \in Callers THEN [caller EXCEPT ![then] = "flushed"] ELSE caller
    /\ UNCHANGED batch

\* Mutant: a failed batch is given up and the thread goes on.
RaisesAndGoesOn ==
    /\ next' = 1
    /\ IF then = "end" THEN at' = "ended" /\ UNCHANGED <<then, batch>>
       ELSE at' = "get" /\ then' = "batch" /\ batch' = <<>>
    /\ UNCHANGED caller

\* _write has raised: the finally of _run tries the batch once more.
WriteRaises ==
    /\ next' = 1
    /\ IF then = "end" THEN at' = "ended" /\ UNCHANGED then
       ELSE at' = "write" /\ then' = "end"
    /\ UNCHANGED <<batch, caller>>

\* Without a batch, or with the file closed, _write returns and says nothing.
SkipWrite ==
    /\ at = "write"
    /\ batch = <<>> \/ handle # "open"
    /\ WriteReturns
    /\ UNCHANGED <<queue, accepted, dropped, promised, handle, files,
                   written, faults>>

Fits == Len(files[1]) + Len(batch) < MaxBytes

StartAppend ==
    /\ at = "write" /\ batch # <<>> /\ handle = "open"
    /\ Fits
    /\ at' = "append"
    /\ UNCHANGED <<queue, calls, then, batch, next, handle, files, written, faults>>

\* The generations after the active file has become .1 and the oldest is gone.
Shifted ==
    SubSeq(files, 1, IF Len(files) < MaxFiles THEN Len(files) ELSE MaxFiles - 1)

Rotate ==
    /\ at = "write" /\ batch # <<>> /\ handle = "open"
    /\ ~ Fits
    /\ at' = "reopen"
    /\ handle' = "closed"
    /\ files' = <<<<>>>> \o Shifted
    /\ UNCHANGED <<queue, calls, then, batch, next, written, faults>>

\* Whatever close has seen in between, the writer goes on with a new handle.
Reopen ==
    /\ at = "reopen"
    /\ at' = "append"
    /\ handle' = "open"
    /\ UNCHANGED <<queue, calls, then, batch, next, files, written, faults>>

\* One record, and after the last one the flush of the file.
AppendRecord ==
    /\ at = "append" /\ handle = "open"
    /\ files' = [files EXCEPT ![1] = Append(@, batch[next])]
    /\ written' = Append(written, batch[next])
    /\ IF next < Len(batch)
       THEN next' = next + 1 /\ UNCHANGED <<at, then, batch, caller>>
       ELSE WriteReturns
    /\ UNCHANGED <<queue, accepted, dropped, promised, handle, faults>>

\* close took the file away between two records.
AppendFindsNoFile ==
    /\ at = "append" /\ handle # "open"
    /\ WriteRaises
    /\ UNCHANGED <<queue, accepted, dropped, promised, handle, files, written,
                   faults>>

\* The disk refuses a record, or the new file.
WriteFails ==
    /\ at \in {"append", "reopen"}
    /\ faults < MaxFaults
    /\ faults' = faults + 1
    /\ WriteRaises
    /\ UNCHANGED <<queue, accepted, dropped, promised, handle, files, written>>

Writer ==
    \/ Get \/ SkipWrite \/ StartAppend \/ Rotate \/ Reopen
    \/ AppendRecord \/ AppendFindsNoFile

Next ==
    \/ Emit
    \/ \E c \in Callers : PutFlush(c) \/ FlushFindsNoRoom(c) \/ FlushTimesOut(c)
    \/ PutStop \/ CloseFile
    \/ Writer \/ WriteFails

Spec == Init /\ [][Next]_vars

\* The writer thread runs; close ends, by its timeouts if by nothing else.
FairSpec == Spec /\ WF_vars(Writer) /\ WF_vars(PutStop) /\ WF_vars(CloseFile)

-----------------------------------------------------------------------------
(* Properties *)

\* The types of the exporter's state.
TypeOK ==
    /\ queue \in Seq(Items) /\ Len(queue) <= MaxQueue
    /\ accepted \in 0 .. MaxEmits /\ dropped \in 0 .. MaxEmits - accepted
    /\ caller \in [Callers -> {"running", "waiting", "flushed", "gave_up",
                               "joining", "closed"}]
    /\ promised \in [Callers -> 0 .. accepted]
    /\ at \in {"get", "write", "reopen", "append", "ended"}
    /\ then \in {"batch", "stop", "end"} \cup Callers
    /\ batch \in Seq(1 .. accepted) /\ Len(batch) <= BatchSize
    /\ next \in 1 .. BatchSize
    /\ handle \in {"open", "closed", "none"}
    /\ files \in Seq(Seq(1 .. accepted)) /\ Len(files) \in 1 .. MaxFiles
    /\ written \in Seq(1 .. accepted)
    /\ faults \in 0 .. MaxFaults

UpTo(n) == [i \in 1 .. n |-> i]
InHand == SubSeq(batch, next, Len(batch))

Usual == at # "ended" /\ then # "end"
FileUsable == handle = "open" \/ at = "reopen"

IsRecord(i) == queue[i].kind = "record"

\* The records in the queue are those accepted after the k-th, in order.
QueueHoldsAfter(k) ==
    /\ \A i \in DOMAIN queue : IsRecord(i) => queue[i].value \in k + 1 .. accepted
    /\ \A n \in k + 1 .. accepted : \E i \in DOMAIN queue : queue[i] = Record(n)
    /\ \A i, j \in DOMAIN queue :
          i < j /\ IsRecord(i) /\ IsRecord(j) => queue[i].value < queue[j].value

\* What was accepted is written once and in order: file, batch and queue
\* always add up to the records accepted, as long as the file is usable and
\* the thread is in its loop (export.py:97-127).
StreamIntact ==
    Usual /\ FileUsable =>
        LET taken == written \o InHand
        IN  taken = UpTo(Len(taken)) /\ QueueHoldsAfter(Len(taken))

\* In the finally of the thread, and after it, what was written before the
\* last batch is without a gap and the rest of the file are records of that
\* batch.  Unless close has taken the file from the thread, the batch is what
\* follows, and what was accepted after it is still in the queue: nothing but
\* the batch and the queue can be missing in the file (_run, export.py:115-119).
\* Which batches are gone once close has taken the file, it does not say.
OnlyLastBatchAtRisk ==
    ~ Usual => \E k \in 0 .. Len(written) :
        /\ SubSeq(written, 1, k) = UpTo(k)
        /\ \A i \in k + 1 .. Len(written) : \E j \in DOMAIN batch : written[i] = batch[j]
        /\ handle # "none" =>
              /\ \A j \in DOMAIN batch : batch[j] = k + j
              /\ QueueHoldsAfter(k + Len(batch))

\* A flush that was confirmed before close took the file means it: every
\* record accepted before the call is in the file (flush and _run).
FlushedIsWritten ==
    \A c \in Callers :
        caller[c] = "flushed" /\ caller[Closer] # "closed" =>
            \A n \in 1 .. promised[c] : \E i \in DOMAIN written : written[i] = n

\* A record whose flush was asked for reaches the file, however many records
\* its batch still lacks, unless the disk or close ends the writer first.
FlushReachesTheFile ==
    \A c \in Callers :
        caller[c] = "waiting" ~>
            \/ \A n \in 1 .. promised[c] : \E i \in DOMAIN written : written[i] = n
            \/ at = "ended" \/ caller[Closer] = "closed"
=============================================================================
