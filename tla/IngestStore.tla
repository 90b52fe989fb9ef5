---------------------------- MODULE IngestStore ----------------------------
(***************************************************************************)
(* One run on the ingest host: the files IngestStore keeps for it and the  *)
(* operations it performs on them (daytona_gym/ingest/server.py).          *)
(*                                                                         *)
(* A telemetry request carries the byte range [offset, next) of the source *)
(* file its headers declare, the shipper's generation, and a body.  Bytes  *)
(* are numbered; a body is the range of bytes of one incarnation of the    *)
(* source file that was really read, empty when from = upto.  The stored   *)
(* .jsonl file is the sequence of the bodies appended to it, each with the *)
(* headers it came under.                                                  *)
(*                                                                         *)
(* append() writes two files, the .jsonl file and then .ingest.json, so it *)
(* is two steps here with the run's lock held in between; a host that dies *)
(* (or a write that fails) leaves the first without the second.            *)
(***************************************************************************)
EXTENDS Naturals, Sequences

CONSTANTS
  Requests,     \* the telemetry requests clients may send
  Snapshots,    \* the progress snapshots clients may send
  None,         \* no progress file yet / the lock is free
  MaxCrashes    \* bound: host crashes and failed writes

Body == [inc : Nat, from : Nat, upto : Nat]

Request == [offset : Nat, next : Nat, generation : Nat, body : Body]

\* _ingest answers 400 to X-DG-Next < X-DG-Offset, so append never sees one.
ASSUME RequestsAssumption ==
  /\ Requests \subseteq Request
  /\ \A r \in Requests : r.offset <= r.next
  /\ None \notin Requests

ASSUME BoundsAssumption == MaxCrashes \in Nat

VARIABLES
  log,       \* <run>.jsonl: the appended bodies, oldest first
  meta,      \* <run>.ingest.json: source_offset and generation
  pending,   \* the request append() is writing while it holds the lock
  progress,  \* <run>.progress.json
  crashes    \* crashes and failed writes so far

storeVars == <<log, meta, pending, progress, crashes>>

-----------------------------------------------------------------------------
(* The store's decisions *)

\* read_meta when there is no file.
FreshMeta == [source_offset |-> 0, generation |-> 0]

\* Mutant: the offset of the old file stays when a new generation begins.
RebasedKeepsOffset(r) ==
  [source_offset |-> meta.source_offset,
   generation |-> IF r.generation > meta.generation THEN r.generation ELSE meta.generation]

\* The generation handshake: a newer generation restarts the run at offset 0,
\* in memory only, until a request is accepted.
Rebased(r) ==
  IF r.generation > meta.generation
  THEN [source_offset |-> 0, generation |-> r.generation]
  ELSE meta

\* Mutants: overlapping retries are let in; so are older generations.
AcceptsOverlap(r) ==
  r.generation >= Rebased(r).generation /\ r.offset <= Rebased(r).source_offset
AcceptsOlder(r) == r.offset = Rebased(r).source_offset

Accepts(r) ==
  /\ r.generation >= Rebased(r).generation
  /\ r.offset = Rebased(r).source_offset

Unlocked == pending = None

-----------------------------------------------------------------------------
(* The operations *)

StoreInit ==
  /\ log = <<>>
  /\ meta = FreshMeta
  /\ pending = None
  /\ progress = None
  /\ crashes = 0

\* append, up to the write of the .jsonl file.
AppendBody(r) ==
  /\ Unlocked
  /\ Accepts(r)
  /\ log' = Append(log, r)
  /\ pending' = r
  /\ UNCHANGED <<meta, progress, crashes>>

\* append, from _write_meta (an atomic rename) to the release of the lock.
CommitMeta ==
  /\ ~Unlocked
  /\ meta' = [source_offset |-> pending.next, generation |-> pending.generation]
  /\ pending' = None
  /\ UNCHANGED <<log, progress, crashes>>

\* A body whose write stopped at declared byte k, as the file has it: there is
\* nothing to write of an empty one.
Cut(r, k) ==
  LET done == IF r.body.from = r.body.upto THEN r.offset ELSE k IN
  [r EXCEPT !.next = done, !.body.upto = r.body.from + (done - r.offset)]

\* Mutant: .ingest.json is written before the body.
LoseBody ==
  /\ ~Unlocked
  /\ crashes < MaxCrashes
  /\ \E k \in pending.offset .. pending.next :
       log' = [log EXCEPT ![Len(log)] = Cut(pending, k)]
  /\ meta' = [source_offset |-> pending.next, generation |-> pending.generation]
  /\ pending' = None
  /\ crashes' = crashes + 1
  /\ UNCHANGED progress

\* The host dies, or a write raises, before _write_meta: any part of the body
\* may be in the file and .ingest.json still has the old offset.
LoseMeta ==
  /\ ~Unlocked
  /\ crashes < MaxCrashes
  /\ \E k \in pending.offset .. pending.next :
       log' = [log EXCEPT ![Len(log)] = Cut(pending, k)]
  /\ pending' = None
  /\ crashes' = crashes + 1
  /\ UNCHANGED <<meta, progress>>

\* put_progress: last writer wins, whatever it overwrites.
PutProgress(p) ==
  /\ Unlocked
  /\ progress' = p
  /\ UNCHANGED <<log, meta, pending, crashes>>

\* delete (dg rm): all three files go.
Delete ==
  /\ Unlocked
  /\ log' = <<>>
  /\ meta' = FreshMeta
  /\ progress' = None
  /\ UNCHANGED <<pending, crashes>>

StoreNext ==
  \/ \E r \in Requests : AppendBody(r)
  \/ CommitMeta
  \/ LoseMeta
  \/ \E p \in Snapshots : PutProgress(p)
  \/ Delete

StoreSpec == StoreInit /\ [][StoreNext]_storeVars

-----------------------------------------------------------------------------
(* Properties *)

\* Types of the store's files.
StoreTypeOK ==
  /\ log \in Seq(Request)
  /\ meta \in [source_offset : Nat, generation : Nat]
  /\ pending \in Requests \cup {None}
  /\ progress \in Snapshots \cup {None}
  /\ crashes \in 0 .. MaxCrashes

\* Byte b of generation g is inside a range some stored body came under.
Stored(g, b) ==
  \E i \in DOMAIN log : /\ log[i].generation = g
                        /\ log[i].offset <= b
                        /\ b < log[i].next

\* What the store tells a resyncing shipper it has (source_offset) it does
\* have, whatever clients send in whatever order and wherever it crashed: a
\* shipper that skips to source_offset skips nothing the store lacks
\* (append, server.py:90-106).
AckedIsStored ==
  \A b \in 0 .. meta.source_offset - 1 : Stored(meta.generation, b)

\* Until a write is cut short, no byte range is stored twice and ranges of one
\* generation are stored in order, however often clients retry, and a newer
\* generation's lines are never followed by an older one's ("idempotent,
\* offset-checked writes", server.py:60).
StoredOnceInOrder ==
  crashes = 0 =>
    \A i, j \in DOMAIN log :
      i < j => \/ log[i].generation < log[j].generation
               \/ /\ log[i].generation = log[j].generation
                  /\ log[i].next <= log[j].offset

=============================================================================
