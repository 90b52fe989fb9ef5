------------------------- MODULE TelemetryShipping -------------------------
(***************************************************************************)
(* A run's telemetry on its way from the launch host to the ingest host:   *)
(* the source file and its writer (telemetry/export.py), the               *)
(* TelemetryShipper objects that tail it (ingest/shipper.py), the requests *)
(* in flight, the handlers (ingest/server.py) and the IngestStore.         *)
(*                                                                         *)
(* A shipper object has two threads that may touch it: the "loop" daemon   *)
(* thread, and the caller of stop(), which drains after the loop's join    *)
(* returned or timed out.  A thread's step is what it does between two     *)
(* points where the other side may get in: reading the file, taking the    *)
(* offset and sending, receiving the answer.                               *)
(*                                                                         *)
(* Bytes are positions 1..size of an incarnation of the file; only where   *)
(* lines end matters, so a line may take several bytes.                    *)
(***************************************************************************)
EXTENDS IngestStore, FiniteSets

CONSTANTS
  Shippers,        \* TelemetryShipper objects on this run (launch, dg ship)
  Final,           \* the last progress snapshot; earlier ones are 1..Final-1
  MaxChunk,        \* max_chunk_bytes
  MaxSize,         \* bound: bytes in one incarnation of the source file
  MaxIncarnations, \* bound: incarnations of the source file
  MaxTears,        \* bound: writer deaths in the middle of a line
  MaxFailures,     \* bound: failed or timed out calls and drain deadlines
  MaxRestarts,     \* bound: shipper processes started anew
  MaxDeletes,      \* bound: dg rm of this run
  LateDelivery,    \* may a request its client gave up on still arrive?
  JoinMayTimeOut   \* may stop() give up on the loop thread and drain anyway?

ASSUME ShippingAssumption ==
  /\ Final \in Nat \ {0} /\ MaxChunk \in Nat \ {0} /\ MaxSize \in Nat
  /\ MaxIncarnations \in Nat \ {0} /\ MaxTears \in Nat /\ MaxFailures \in Nat
  /\ MaxRestarts \in Nat /\ MaxDeletes \in Nat
  /\ LateDelivery \in BOOLEAN /\ JoinMayTimeOut \in BOOLEAN
  /\ Snapshots = 1 .. Final

Threads == Shippers \X {"loop", "stop"}

\* What the handlers of a POST and a PUT answer.
Answers == [code : {200, 400}] \cup [code : {409}, meta : [source_offset : Nat, generation : Nat]]

ASSUME NoneAssumption ==
  None \notin Request /\ None \notin Threads /\ None \notin Snapshots /\ None \notin Answers

VARIABLES
  files,       \* incarnations of the source file; the last one is the live one
  status,      \* <run>.progress.json on the launch host; 0 before it exists
  offset,      \* TelemetryShipper._offset
  generation,  \* TelemetryShipper._generation
  digest,      \* TelemetryShipper._progress_digest: the snapshot last shipped
  stopping,    \* TelemetryShipper._stop
  pc,          \* where each thread is
  chunk,       \* the thread's local: what _ship_telemetry read or posted
  more,        \* the thread's local: ship_once's result so far
  net,         \* requests sent and not handled yet
  serving,     \* whose request append() is writing; None for nobody waiting
  reply,       \* the answer on its way to each thread
  stray,       \* a PUT was given up on that could still be handled later
  failures, restarts, deletes  \* bounded counters

shipperVars == <<offset, generation, digest, stopping>>
threadVars  == <<pc, chunk, more>>
netVars     == <<net, serving, reply>>
counters    == <<stray, failures, restarts, deletes>>
vars == <<storeVars, files, status, shipperVars, threadVars, netVars, counters>>

-----------------------------------------------------------------------------
(* The source file *)

Live == files[Len(files)]

EmptyFile == [size |-> 0, ends |-> {}, corrupt |-> {}, torn |-> FALSE]

LastEnd(f) == IF f.ends = {} THEN 0
              ELSE CHOOSE e \in f.ends : \A x \in f.ends : x <= e

\* One byte reaches the file; eol says it is a newline.  A line with a torn
\* piece in it is not a JSON object.
Write(eol) ==
  /\ status < Final
  /\ Live.size < MaxSize
  /\ LET at == Live.size + 1 IN
       files' = [files EXCEPT ![Len(files)] =
                   [size    |-> at,
                    ends    |-> Live.ends \cup IF eol THEN {at} ELSE {},
                    corrupt |-> Live.corrupt \cup IF eol /\ Live.torn THEN {at} ELSE {},
                    torn    |-> Live.torn /\ ~eol]]
  /\ UNCHANGED <<storeVars, status, shipperVars, threadVars, netVars, counters>>

\* The writer process dies inside a line; the next one opens the file for
\* append and carries on behind the piece.
Tear ==
  /\ Cardinality({i \in DOMAIN files : files[i].torn \/ files[i].corrupt # {}}) < MaxTears
  /\ Live.size > LastEnd(Live)
  /\ files' = [files EXCEPT ![Len(files)].torn = TRUE]
  /\ UNCHANGED <<storeVars, status, shipperVars, threadVars, netVars, counters>>

\* _maybe_rotate between two batches: the file moves to .1, a new one starts.
Rotate ==
  /\ status < Final
  /\ Len(files) < MaxIncarnations
  /\ Live.size > 0 /\ Live.size = LastEnd(Live)
  /\ files' = Append(files, EmptyFile)
  /\ UNCHANGED <<storeVars, status, shipperVars, threadVars, netVars, counters>>

\* write_progress on the launch host: an atomic rename.
WriteProgress ==
  /\ status < Final
  /\ status' = status + 1
  /\ UNCHANGED <<storeVars, files, shipperVars, threadVars, netVars, counters>>

-----------------------------------------------------------------------------
(* The shipper's threads *)

Min2(a, b) == IF a <= b THEN a ELSE b

Goto(t, l) == pc' = [pc EXCEPT ![t] = l]

NoChunk == [kind |-> "none"]

\* Mutants: the drain is one tick long; an exception ends the loop thread.
ReturnedOnce(t, m) == IF t[2] = "loop" THEN "tick" ELSE "done"
RaisedEnds(t) == "done"

\* Where a thread goes when ship_once returns (m: is more pending?) or raises.
Returned(t, m) == IF t[2] = "loop" \/ m THEN "tick" ELSE "done"
Raised(t) == IF t[2] = "loop" THEN "tick" ELSE "done"

\* What _ship_telemetry makes of the bytes behind position from: nothing, the
\* whole lines within max_chunk, or the skip of a line longer than that.
ChunkAt(from) ==
  LET window == Min2(Live.size, from + MaxChunk)
      whole  == {e \in Live.ends : from < e /\ e <= window}
      later  == {e \in Live.ends : window < e}
      upto   == CHOOSE e \in whole : \A x \in whole : x <= e
      end    == CHOOSE e \in later : \A x \in later : e <= x
  IN IF whole # {}
     THEN [kind |-> "lines", size |-> Live.size, end |-> upto,
           body |-> [inc |-> Len(files), from |-> from, upto |-> upto],
           json |-> /\ from = 0 \/ from \in Live.ends
                    /\ Live.corrupt \cap whole = {}]
     ELSE IF window = from + MaxChunk /\ later # {}
     THEN [kind |-> "skip", size |-> Live.size, end |-> end,
           body |-> [inc |-> Len(files), from |-> from, upto |-> from],
           json |-> TRUE]
     ELSE NoChunk

\* _ship_telemetry up to the scrubbing of the body: stat, detect a truncated
\* or rotated file, read a chunk.  Nothing to send goes on to the progress.
Read(t) ==
  LET o == t[1]
      rotated == Live.size < offset[o]
      from == IF rotated THEN 0 ELSE offset[o]
  IN /\ pc[t] = "tick"
     /\ t[2] = "loop" => ~stopping[o]
     /\ offset' = [offset EXCEPT ![o] = from]
     /\ generation' = [generation EXCEPT ![o] = IF rotated THEN @ + 1 ELSE @]
     /\ chunk' = [chunk EXCEPT ![t] = ChunkAt(from)]
     /\ more' = [more EXCEPT ![t] = FALSE]
     /\ Goto(t, IF ChunkAt(from) = NoChunk THEN "progress" ELSE "post")
     /\ UNCHANGED <<storeVars, files, status, digest, stopping, netVars, counters>>

\* The headers are taken from _offset as it is now, after the scrubbing.
HeadersNow(t) ==
  LET start == offset[t[1]]
      c == chunk[t]
  IN [offset |-> start,
      next |-> IF c.kind = "skip" THEN c.end
               ELSE start + (c.body.upto - c.body.from),
      generation |-> generation[t[1]],
      body |-> c.body]

\* _ship_telemetry, lines 179-201: the POST leaves.
Post(t) ==
  /\ pc[t] = "post"
  /\ chunk' = [chunk EXCEPT ![t].end = HeadersNow(t).next]
  /\ net' = net \cup {[owner |-> t, kind |-> "telemetry",
                       json |-> chunk[t].json, req |-> HeadersNow(t)]}
  /\ Goto(t, "posted")
  /\ UNCHANGED <<storeVars, files, status, shipperVars, more, serving, reply, counters>>

\* _ship_telemetry, lines 202-214: 200, 409 or anything else.
Posted(t) ==
  LET o == t[1]
      a == reply[t]
  IN /\ pc[t] = "posted"
     /\ a # None
     /\ reply' = [reply EXCEPT ![t] = None]
     /\ chunk' = [chunk EXCEPT ![t] = NoChunk]
     /\ \/ /\ a.code = 200
           /\ offset' = [offset EXCEPT ![o] = chunk[t].end]
           /\ more' = [more EXCEPT ![t] = chunk[t].end < chunk[t].size]
           /\ Goto(t, "progress")
           /\ UNCHANGED generation
        \/ /\ a.code = 409
           /\ generation' = [generation EXCEPT ![o] =
                               IF a.meta.generation > @ THEN a.meta.generation ELSE @]
           /\ offset' = [offset EXCEPT ![o] =
                           Min2(a.meta.source_offset, chunk[t].size)]
           /\ more' = [more EXCEPT ![t] = TRUE]
           /\ Goto(t, "progress")
        \/ /\ a.code = 400
           /\ Goto(t, Raised(t))
           /\ UNCHANGED <<offset, generation, more>>
     /\ UNCHANGED <<storeVars, files, status, digest, stopping, net, serving, counters>>

\* The heartbeat, when it is due, has no effect on the files kept here but
\* may fail, and ship_once with it.
EndOfTick(t) ==
  \/ Goto(t, Returned(t, more[t])) /\ UNCHANGED failures
  \/ /\ failures < MaxFailures
     /\ failures' = failures + 1
     /\ Goto(t, Raised(t))

\* _ship_progress when the file is missing or is what was shipped last.
ProgressUnchanged(t) ==
  /\ pc[t] = "progress"
  /\ status \in {0, digest[t[1]]}
  /\ EndOfTick(t)
  /\ UNCHANGED <<storeVars, files, status, shipperVars, chunk, more, netVars,
                 stray, restarts, deletes>>

\* Mutant: the snapshot counts as shipped when it is sent.
PutUnconfirmed(t) ==
  /\ pc[t] = "progress"
  /\ status \notin {0, digest[t[1]]}
  /\ digest' = [digest EXCEPT ![t[1]] = status]
  /\ chunk' = [chunk EXCEPT ![t] = [kind |-> "progress", snapshot |-> status]]
  /\ net' = net \cup {[owner |-> t, kind |-> "progress", snapshot |-> status]}
  /\ Goto(t, "put")
  /\ UNCHANGED <<storeVars, files, status, offset, generation, stopping, more,
                 serving, reply, counters>>

\* _ship_progress: the PUT leaves with the snapshot read now.
Put(t) ==
  /\ pc[t] = "progress"
  /\ status \notin {0, digest[t[1]]}
  /\ chunk' = [chunk EXCEPT ![t] = [kind |-> "progress", snapshot |-> status]]
  /\ net' = net \cup {[owner |-> t, kind |-> "progress", snapshot |-> status]}
  /\ Goto(t, "put")
  /\ UNCHANGED <<storeVars, files, status, shipperVars, more, serving, reply, counters>>

\* _ship_progress after the answer, which is always 200: the snapshot is JSON.
Putted(t) ==
  /\ pc[t] = "put"
  /\ reply[t] # None
  /\ reply' = [reply EXCEPT ![t] = None]
  /\ digest' = [digest EXCEPT ![t[1]] = chunk[t].snapshot]
  /\ chunk' = [chunk EXCEPT ![t] = NoChunk]
  /\ EndOfTick(t)
  /\ UNCHANGED <<storeVars, files, status, offset, generation, stopping, more,
                 net, serving, stray, restarts, deletes>>

Waiting(t) == pc[t] \in {"posted", "put"}

OwnRequests(t) == {m \in net : m.owner = t}

Abandoned(m) == [m EXCEPT !.owner = None]

Strays(ts) ==
  stray \/ \E m \in net : m.owner \in ts /\ m.kind = "progress" /\ Abandoned(m) \in net'

\* The transport raises for t: the answer, if there was one, is lost; the
\* request may have been lost, or be handled later for nobody.
CallFails(t) ==
  /\ Waiting(t)
  /\ failures < MaxFailures
  /\ failures' = failures + 1
  /\ \/ net' = net \ OwnRequests(t)
     \/ /\ LateDelivery /\ OwnRequests(t) # {}
        /\ net' = (net \ OwnRequests(t)) \cup {Abandoned(m) : m \in OwnRequests(t)}
  /\ stray' = Strays({t})
  /\ serving' = IF serving = t THEN None ELSE serving
  /\ reply' = [reply EXCEPT ![t] = None]
  /\ chunk' = [chunk EXCEPT ![t] = NoChunk]
  /\ Goto(t, Raised(t))
  /\ UNCHANGED <<storeVars, files, status, shipperVars, more, restarts, deletes>>

\* The host died with t's request: the connection is reset.
ConnectionReset(t) ==
  /\ Waiting(t)
  /\ OwnRequests(t) = {} /\ serving # t /\ reply[t] = None
  /\ chunk' = [chunk EXCEPT ![t] = NoChunk]
  /\ Goto(t, Raised(t))
  /\ UNCHANGED <<storeVars, files, status, shipperVars, more, netVars, counters>>

-----------------------------------------------------------------------------
(* stop() and process restarts *)

\* The launch wrote its last progress and calls stop().
StopCalled(o) ==
  /\ status = Final
  /\ ~stopping[o]
  /\ stopping' = [stopping EXCEPT ![o] = TRUE]
  /\ UNCHANGED <<storeVars, files, status, offset, generation, digest,
                 threadVars, netVars, counters>>

\* _loop sees the event between two ticks.
LoopEnds(o) ==
  /\ stopping[o]
  /\ pc[<<o, "loop">>] = "tick"
  /\ Goto(<<o, "loop">>, "done")
  /\ UNCHANGED <<storeVars, files, status, shipperVars, chunk, more, netVars, counters>>

\* join returns, because the thread ended or because it timed out.
DrainStarts(o) ==
  /\ stopping[o]
  /\ pc[<<o, "stop">>] = "off"
  /\ pc[<<o, "loop">>] = "done" \/ JoinMayTimeOut
  /\ Goto(<<o, "stop">>, "tick")
  /\ UNCHANGED <<storeVars, files, status, shipperVars, chunk, more, netVars, counters>>

\* drain_timeout passes before everything is out.
DrainDeadline(o) ==
  /\ pc[<<o, "stop">>] = "tick"
  /\ failures < MaxFailures
  /\ failures' = failures + 1
  /\ Goto(<<o, "stop">>, "expired")
  /\ UNCHANGED <<storeVars, files, status, shipperVars, chunk, more, netVars,
                 stray, restarts, deletes>>

\* The process dies and a new TelemetryShipper starts on the same run (a new
\* launch, dg ship -f, dg ingest push): fresh fields, fresh threads.
Restart(o) ==
  LET dead == {<<o, "loop">>, <<o, "stop">>} IN
  /\ restarts < MaxRestarts
  /\ restarts' = restarts + 1
  /\ offset' = [offset EXCEPT ![o] = 0]
  /\ generation' = [generation EXCEPT ![o] = 0]
  /\ digest' = [digest EXCEPT ![o] = 0]
  /\ stopping' = [stopping EXCEPT ![o] = FALSE]
  /\ pc' = [t \in Threads |-> IF t = <<o, "loop">> THEN "tick"
                              ELSE IF t = <<o, "stop">> THEN "off" ELSE pc[t]]
  /\ chunk' = [t \in Threads |-> IF t \in dead THEN NoChunk ELSE chunk[t]]
  /\ more' = [t \in Threads |-> IF t \in dead THEN FALSE ELSE more[t]]
  /\ net' = {m \in net : m.owner \notin dead}
              \cup (IF LateDelivery THEN {Abandoned(m) : m \in {n \in net : n.owner \in dead}}
                    ELSE {})
  /\ stray' = Strays(dead)
  /\ serving' = IF serving \in dead THEN None ELSE serving
  /\ reply' = [t \in Threads |-> IF t \in dead THEN None ELSE reply[t]]
  /\ UNCHANGED <<storeVars, files, status, failures, deletes>>

-----------------------------------------------------------------------------
(* The ingest host *)

Answer(owner, a) ==
  reply' = IF owner = None THEN reply ELSE [reply EXCEPT ![owner] = a]

\* A body of JSON lines and headers that do not go backwards (_ingest,
\* _validate_ndjson).
Valid(m) == m.json /\ m.req.offset <= m.req.next

\* POST telemetry that is not valid: 400.
HandleInvalid(m) ==
  /\ m.kind = "telemetry" /\ ~Valid(m)
  /\ Answer(m.owner, [code |-> 400])
  /\ net' = net \ {m}
  /\ UNCHANGED <<storeVars, files, status, shipperVars, threadVars, serving, counters>>

\* POST telemetry that append rejects: 409 with what the store has.
HandleMismatch(m) ==
  /\ m.kind = "telemetry" /\ Valid(m)
  /\ Unlocked /\ ~Accepts(m.req)
  /\ Answer(m.owner, [code |-> 409, meta |-> Rebased(m.req)])
  /\ net' = net \ {m}
  /\ UNCHANGED <<storeVars, files, status, shipperVars, threadVars, serving, counters>>

\* POST telemetry that append accepts: the body goes to the file ...
HandleAppend(m) ==
  /\ m.kind = "telemetry" /\ Valid(m)
  /\ AppendBody(m.req)
  /\ net' = net \ {m}
  /\ serving' = m.owner
  /\ UNCHANGED <<files, status, shipperVars, threadVars, reply, counters>>

\* ... then .ingest.json is replaced and the answer leaves.
HandleCommit ==
  /\ CommitMeta
  /\ Answer(serving, [code |-> 200])
  /\ serving' = None
  /\ UNCHANGED <<files, status, shipperVars, threadVars, net, counters>>

\* The host dies between the two; every connection it had is gone.
HostDies ==
  /\ LoseMeta
  /\ serving' = None
  /\ net' = {}
  /\ UNCHANGED <<files, status, shipperVars, threadVars, reply, counters>>

\* Mutant: put_progress does not take the run's lock.
HandleProgressUnlocked(m) ==
  /\ m.kind = "progress"
  /\ progress' = m.snapshot
  /\ Answer(m.owner, [code |-> 200])
  /\ net' = net \ {m}
  /\ UNCHANGED <<log, meta, pending, crashes, files, status, shipperVars,
                 threadVars, serving, counters>>

\* PUT progress.
HandleProgress(m) ==
  /\ m.kind = "progress"
  /\ PutProgress(m.snapshot)
  /\ Answer(m.owner, [code |-> 200])
  /\ net' = net \ {m}
  /\ UNCHANGED <<files, status, shipperVars, threadVars, serving, counters>>

\* DELETE /v1/runs/<id> (dg rm).
HandleDelete ==
  /\ deletes < MaxDeletes
  /\ deletes' = deletes + 1
  /\ Delete
  /\ UNCHANGED <<files, status, shipperVars, threadVars, netVars, stray, failures, restarts>>

-----------------------------------------------------------------------------
Init ==
  /\ StoreInit
  /\ files = <<EmptyFile>>
  /\ status = 0
  /\ offset = [o \in Shippers |-> 0]
  /\ generation = [o \in Shippers |-> 0]
  /\ digest = [o \in Shippers |-> 0]
  /\ stopping = [o \in Shippers |-> FALSE]
  /\ pc = [t \in Threads |-> IF t[2] = "loop" THEN "tick" ELSE "off"]
  /\ chunk = [t \in Threads |-> NoChunk]
  /\ more = [t \in Threads |-> FALSE]
  /\ net = {}
  /\ serving = None
  /\ reply = [t \in Threads |-> None]
  /\ stray = FALSE /\ failures = 0 /\ restarts = 0 /\ deletes = 0

SourceStep == Tear \/ Rotate \/ WriteProgress \/ \E eol \in BOOLEAN : Write(eol)

ThreadStep(t) ==
  \/ Read(t)
  \/ Post(t)
  \/ Posted(t)
  \/ ProgressUnchanged(t)
  \/ Put(t)
  \/ Putted(t)
  \/ ConnectionReset(t)

LifecycleStep(o) == LoopEnds(o) \/ DrainStarts(o)

Handle(m) ==
  \/ HandleInvalid(m)
  \/ HandleMismatch(m)
  \/ HandleAppend(m)
  \/ HandleProgress(m)

HostStep == HandleCommit \/ \E m \in net : Handle(m)

Faults ==
  \/ HostDies
  \/ HandleDelete
  \/ \E t \in Threads : CallFails(t)
  \/ \E o \in Shippers : DrainDeadline(o) \/ Restart(o)

Next ==
  \/ SourceStep
  \/ \E t \in Threads : ThreadStep(t)
  \/ \E o \in Shippers : LifecycleStep(o) \/ StopCalled(o)
  \/ HostStep
  \/ Faults

Spec == Init /\ [][Next]_vars

\* Threads run, the host handles what reaches it.  Writers, stop() and faults
\* owe nothing.
Fairness ==
  /\ \A t \in Threads : WF_vars(ThreadStep(t))
  /\ \A o \in Shippers : WF_vars(LifecycleStep(o))
  /\ WF_vars(HostStep)

FairSpec == Spec /\ Fairness
-----------------------------------------------------------------------------
(* Properties *)

Faultless == failures = 0 /\ crashes = 0 /\ deletes = 0

\* The types of the composition's own variables.
TypeOK ==
  /\ StoreTypeOK
  /\ status \in 0 .. Final
  /\ offset \in [Shippers -> Nat]
  /\ generation \in [Shippers -> Nat]
  /\ digest \in [Shippers -> 0 .. Final]
  /\ stopping \in [Shippers -> BOOLEAN]
  /\ pc \in [Threads -> {"off", "tick", "post", "posted", "progress", "put", "done", "expired"}]
  /\ more \in [Threads -> BOOLEAN]
  /\ serving \in Threads \cup {None}
  /\ \A m \in net : m.owner \in Threads \cup {None}

\* The host is the IngestStore whose theorems TelemetryShippingProofs proves: what
\* shippers send is among the Requests and Snapshots assumed there, and every
\* handler is one operation under the run's lock (server.py:86-122).
HostIsAStore == StoreSpec

\* "Pushes complete JSONL lines in chunks tagged with source byte offsets"
\* (shipper.py:8-9): every stored body is the bytes its headers declare, or
\* nothing for a line longer than a chunk.  Both threads of a shipper take the
\* headers from the fields they share (shipper.py:189-200).
BodiesMatchHeaders ==
  \A i \in DOMAIN log :
    /\ log[i].body.from = log[i].offset
    /\ \/ log[i].body.upto = log[i].next
       \/ log[i].body.upto = log[i].body.from /\ log[i].next - log[i].offset > MaxChunk

\* The history holds the incarnations of the file in the order they had.
FilesInOrder ==
  \A i, j \in DOMAIN log : i < j => log[i].body.inc <= log[j].body.inc

\* Lines of a rotated file never land behind lines of the file that replaced
\* it, however late their request is (the generation handshake, server.py:92-98),
\* while stop() waits for its loop thread.
\* A shipper started anew counts rotations from 0 (shipper.py:166): once a third
\* file follows, a late request for the second may have the newer generation.
OldFileNeverAfterNew ==
  crashes = 0 /\ deletes = 0 /\ (restarts = 0 \/ Len(files) <= 2) => FilesInOrder

\* "File truncation/rotation bumps a generation counter" (shipper.py:10-11):
\* what is stored under one generation comes from one incarnation of the file.
OneFilePerGeneration ==
  \A i, j \in DOMAIN log :
    log[i].generation = log[j].generation => log[i].body.inc = log[j].body.inc

\* The bytes a stored body holds, blanks for the line a skip stands for.
Copied(e) ==
  IF e.body.from = e.body.upto
  THEN [k \in 1 .. e.next - e.offset |-> None]
  ELSE [k \in 1 .. e.body.upto - e.body.from |-> e.body.from + k]

\* What entries hold of the i-th incarnation of the file, one after the other.
BytesOf(i, entries) ==
  LET upto[n \in 0 .. Len(entries)] ==
        IF n = 0 THEN <<>>
        ELSE IF entries[n].body.inc = i THEN upto[n - 1] \o Copied(entries[n])
        ELSE upto[n - 1]
  IN upto[Len(entries)]

SizeOf(i) == IF i <= Len(files) THEN files[i].size ELSE 0

\* A run is rotated or deleted, not both: after a dg rm the generation starts
\* over at 0, and a late request of the file rotated away can be taken for one
\* of the file that replaced it.
RotatedOrDeleted == Len(files') = 1 \/ deletes' = 0

Copy(i) == INSTANCE RunCopy WITH
  Skipped <- None, source <- SizeOf(i), copy <- BytesOf(i, log)

\* What the history holds of a file is a prefix of it, each byte once and in
\* order, while the host does not crash and stop() waits for its loop thread:
\* also when the file was rotated away, when requests are lost or late, and when
\* an unrotated run is deleted in between (shipper.py:7-16, server.py:86-122).
\* Of a file that replaced another it holds where the shipper saw that, that is,
\* where no generation names two files (shipper.py:166).
HistoryIsACopy ==
  /\ \A i \in 1 .. MaxIncarnations : Copy(i)!Init
  /\ [][\A i \in 1 .. MaxIncarnations :
          i = 1 \/ OneFilePerGeneration' => [Copy(i)!Next]_<<SizeOf(i), BytesOf(i, log)>>]_vars

\* What the current shipper has acknowledged is the newest whole line.
CaughtUp == Unlocked /\ meta.source_offset = LastEnd(Live)

\* stop() "push[es] whatever is left (final status included)" (shipper.py:126)
\* when it waited for its loop thread, nothing failed on the way, every line is one the host takes and no PUT
\* of an earlier process is still under way.
StopDelivers ==
  \A o \in Shippers :
    /\ pc[<<o, "stop">>] = "done"
    /\ Faultless /\ ~stray /\ Len(files) = 1 /\ Live.corrupt = {}
    => progress = Final /\ meta.source_offset = LastEnd(Live)

\* A snapshot the shipper believes delivered is what the dashboard reads,
\* through failures, host crashes and restarts, as long as no client gave up on
\* a PUT that was still to be handled and stop() waits for its loop thread
\* (shipper.py:205-214).
ShippedStatusIsShown ==
  ~stray /\ deletes = 0 =>
    \A o \in Shippers : digest[o] # 0 => progress # None /\ progress >= digest[o]

\* A shipper that is not stopped gets every whole line across, after any
\* finite number of failures, host crashes, restarts and late requests
\* (shipper.py:12-16); a line the host refuses is where it stops, and after a
\* dg rm it only starts over once the file grows.
EventuallyCaughtUp ==
  <>[]( \/ \E o \in Shippers : stopping[o]
        \/ Live.corrupt # {} \/ deletes # 0
        \/ CaughtUp )
=============================================================================
