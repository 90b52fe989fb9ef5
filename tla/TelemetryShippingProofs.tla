----------------------- MODULE TelemetryShippingProofs -----------------------
(***************************************************************************)
(* What shipping a run guarantees, for files of any size and any faults:    *)
(* the host is a store, and bodies are what their headers name, for any     *)
(* number of shippers; the order of files, the snapshot shown, what stop()  *)
(* leaves behind and that the history is a copy of the file, for one.       *)
(***************************************************************************)
EXTENDS TelemetryShipping, SequenceTheorems, WellFoundedInduction, TLAPS
-----------------------------------------------------------------------------
(* The store: what it guarantees to every client, whatever the requests and  *)
(* however often the host dies.                                              *)

\* The types, with the link between the lock's holder and the .jsonl file: the
\* request being written is the file's last entry and lines up with .ingest.json.
StoreTyping ==
  /\ StoreTypeOK
  /\ pending # None =>
       /\ Len(log) > 0
       /\ log[Len(log)] = pending
       /\ Accepts(pending)

\* StoreTyping holds of every state of append, put_progress and delete.
LEMMA StoreTypingHolds == StoreSpec => []StoreTyping
<1> USE RequestsAssumption, BoundsAssumption
        DEF StoreTyping, StoreTypeOK, Request, Body, FreshMeta, Unlocked
<1>1. StoreInit => StoreTyping
  BY DEF StoreInit
<1>2. StoreTyping /\ [StoreNext]_storeVars => StoreTyping'
  <2> SUFFICES ASSUME StoreTyping, [StoreNext]_storeVars
               PROVE  StoreTyping'
    OBVIOUS
  <2>1. ASSUME NEW r \in Requests, AppendBody(r)
        PROVE  StoreTyping'
    <3>1. r \in Request /\ r # None
      OBVIOUS
    <3>2. log \in Seq(Request) /\ log' = Append(log, r)
      BY <2>1 DEF AppendBody
    <3>3. log' \in Seq(Request) /\ Len(log') > 0 /\ log'[Len(log')] = r
      BY <3>1, <3>2
    <3>4. Accepts(r)'
      BY <2>1 DEF AppendBody, Accepts, Rebased
    <3> QED  BY <2>1, <3>3, <3>4 DEF AppendBody
  <2>2. CASE CommitMeta
    BY <2>2 DEF CommitMeta
  <2>3. CASE LoseMeta
    <3>1. PICK k \in pending.offset .. pending.next :
            log' = [log EXCEPT ![Len(log)] = Cut(pending, k)]
      BY <2>3 DEF LoseMeta
    <3>2. pending \in Request /\ k \in Nat /\ k >= pending.offset
      BY <2>3, <3>1 DEF LoseMeta
    <3>3. Cut(pending, k) \in Request
      <4> DEFINE done == IF pending.body.from = pending.body.upto
                         THEN pending.offset ELSE k
                 upto == pending.body.from + (done - pending.offset)
      <4>1. done \in Nat /\ upto \in Nat
        BY <3>2
      <4> HIDE DEF done, upto
      <4>2. [pending.body EXCEPT !.upto = upto] \in Body
        BY <3>2, <4>1
      <4>3. [pending EXCEPT !.next = done, !.body.upto = upto] \in Request
        BY <3>2, <4>1, <4>2
      <4> QED  BY <4>3 DEF Cut, done, upto
    <3>4. log \in Seq(Request) /\ Len(log) \in 1 .. Len(log)
      BY <2>3 DEF LoseMeta
    <3>5. log' \in Seq(Request)
      BY <3>1, <3>3, <3>4
    <3>6. crashes' \in 0 .. MaxCrashes
      BY <2>3 DEF LoseMeta
    <3> QED  BY <2>3, <3>5, <3>6 DEF LoseMeta
  <2>4. ASSUME NEW p \in Snapshots, PutProgress(p)
        PROVE  StoreTyping'
    BY <2>4 DEF PutProgress
  <2>5. CASE Delete
    BY <2>5 DEF Delete
  <2>6. CASE UNCHANGED storeVars
    BY <2>6 DEF storeVars, Accepts, Rebased
  <2> QED  BY <2>1, <2>2, <2>3, <2>4, <2>5, <2>6 DEF StoreNext
<1>3. QED  BY <1>1, <1>2, PTL DEF StoreSpec

\* The types of the store's files, for any requests and any crashes.
THEOREM StoreTypeCorrect == StoreSpec => []StoreTypeOK
<1>1. StoreTyping => StoreTypeOK
  BY DEF StoreTyping
<1>2. QED  BY <1>1, StoreTypingHolds, PTL
-----------------------------------------------------------------------------
\* Appending keeps every entry of the .jsonl file where it was.
LEMMA AppendKeeps ==
  ASSUME NEW S, NEW s \in Seq(S), NEW e \in S
  PROVE  /\ DOMAIN s \subseteq DOMAIN Append(s, e)
         /\ \A i \in DOMAIN s : Append(s, e)[i] = s[i]
         /\ \A i \in DOMAIN Append(s, e) : i \notin DOMAIN s => i = Len(s) + 1
         /\ Append(s, e)[Len(s) + 1] = e
  OBVIOUS

\* source_offset never claims a byte the .jsonl file lacks: append writes the
\* body before it moves the offset, and only a range that starts at the offset.
THEOREM AckedIsStoredCorrect == StoreSpec => []AckedIsStored
<1> USE RequestsAssumption, BoundsAssumption
        DEF StoreTyping, StoreTypeOK, Request, FreshMeta, Unlocked
<1>1. StoreInit => AckedIsStored
  BY DEF StoreInit, AckedIsStored
<1>2. StoreTyping /\ StoreTyping' /\ AckedIsStored /\ [StoreNext]_storeVars
        => AckedIsStored'
  <2> SUFFICES ASSUME StoreTyping, StoreTyping', AckedIsStored, [StoreNext]_storeVars,
                      NEW b \in 0 .. meta'.source_offset - 1
               PROVE  Stored(meta.generation, b)'
    BY DEF AckedIsStored
  <2>1. ASSUME meta' = meta,
               \A i \in DOMAIN log :
                  /\ log[i].generation = meta.generation
                  /\ log[i].offset <= b
                  /\ b < log[i].next
                  => i \in DOMAIN log' /\ log'[i] = log[i]
        PROVE  Stored(meta.generation, b)'
    <3>1. Stored(meta.generation, b)
      BY <2>1 DEF AckedIsStored
    <3> QED  BY <2>1, <3>1 DEF Stored
  <2>2. ASSUME NEW r \in Requests, AppendBody(r)
        PROVE  Stored(meta.generation, b)'
    <3>1. log \in Seq(Request) /\ r \in Request /\ log' = Append(log, r)
      BY <2>2 DEF AppendBody
    <3>2. /\ DOMAIN log \subseteq DOMAIN Append(log, r)
          /\ \A i \in DOMAIN log : Append(log, r)[i] = log[i]
      <4> HIDE DEF Request, StoreTyping, StoreTypeOK
      <4> QED  BY <3>1, AppendKeeps
    <3>3. \A i \in DOMAIN log : i \in DOMAIN log' /\ log'[i] = log[i]
      BY <3>1, <3>2
    <3> QED  BY <2>1, <2>2, <3>3 DEF AppendBody
  <2>3. CASE CommitMeta
    <3>1. /\ pending \in Request /\ Accepts(pending)
          /\ Len(log) \in DOMAIN log /\ log[Len(log)] = pending
          /\ log' = log /\ meta'.source_offset = pending.next
          /\ meta'.generation = pending.generation
      BY <2>3 DEF CommitMeta
    <3>2. CASE pending.offset <= b
      BY <3>1, <3>2 DEF Stored
    <3>3. CASE b < pending.offset
      <4>1. meta.generation = pending.generation /\ pending.offset = meta.source_offset
        BY <3>1, <3>3 DEF Accepts, Rebased
      <4>2. Stored(meta.generation, b)
        BY <3>3, <4>1 DEF AckedIsStored
      <4> QED  BY <3>1, <4>1, <4>2 DEF Stored
    <3> QED  BY <3>1, <3>2, <3>3
  <2>4. CASE LoseMeta
    <3>1. PICK k \in pending.offset .. pending.next :
            log' = [log EXCEPT ![Len(log)] = Cut(pending, k)]
      BY <2>4 DEF LoseMeta
    <3>2. /\ meta' = meta /\ pending \in Request /\ Accepts(pending)
          /\ log \in Seq(Request) /\ log[Len(log)] = pending
      BY <2>4 DEF LoseMeta
    <3>3. \A i \in DOMAIN log : i # Len(log) => i \in DOMAIN log' /\ log'[i] = log[i]
      BY <3>1, <3>2
    <3>4. ~(pending.generation = meta.generation /\ pending.offset <= b)
      BY <3>2 DEF Accepts, Rebased
    <3> QED  BY <2>1, <3>2, <3>3, <3>4
  <2>5. ASSUME NEW p \in Snapshots, PutProgress(p)
        PROVE  Stored(meta.generation, b)'
    BY <2>1, <2>5 DEF PutProgress
  <2>6. CASE Delete
    BY <2>6 DEF Delete
  <2>7. CASE UNCHANGED storeVars
    BY <2>1, <2>7 DEF storeVars
  <2> QED  BY <2>2, <2>3, <2>4, <2>5, <2>6, <2>7 DEF StoreNext
<1>3. QED  BY <1>1, <1>2, StoreTypingHolds, PTL DEF StoreSpec
-----------------------------------------------------------------------------
\* The headers of every stored entry are numbers.
LEMMA EntryTypes ==
  ASSUME StoreTyping
  PROVE  \A i \in DOMAIN log : /\ log[i].generation \in Nat
                              /\ log[i].offset \in Nat
                              /\ log[i].next \in Nat
<1>1. ASSUME NEW i \in DOMAIN log
      PROVE  log[i] \in Request
  BY DEF StoreTyping, StoreTypeOK
<1>2. QED  BY <1>1 DEF Request

\* What the handshake lets through: a newer generation from its first byte, or
\* the current one from where the store stands.
LEMMA AcceptedLinesUp ==
  ASSUME meta \in [source_offset : Nat, generation : Nat],
         NEW r \in Request, Accepts(r)
  PROVE  \/ r.generation > meta.generation /\ r.offset = 0
         \/ r.generation = meta.generation /\ r.offset = meta.source_offset
  BY DEF Accepts, Rebased, Request

\* A range that ends at or before the acknowledged position ends at or before
\* the start of whatever append accepts next.
LEMMA StillBelow ==
  ASSUME NEW g \in Nat, NEW n \in Nat, NEW mg \in Nat, NEW mo \in Nat,
         NEW rg \in Nat, NEW ro \in Nat,
         g < mg \/ (g = mg /\ n <= mo),
         rg > mg \/ (rg = mg /\ ro = mo)
  PROVE  g < rg \/ (g = rg /\ n <= ro)
  OBVIOUS

\* The .jsonl file has been through append without a cut: entries are in order,
\* and every entry that append is done with ends at or before .ingest.json's
\* offset.  This is what makes the next accepted range disjoint from them all.
Settled ==
  crashes = 0 =>
    /\ StoredOnceInOrder
    /\ \A i \in DOMAIN log :
         (Unlocked \/ i # Len(log)) =>
            \/ log[i].generation < meta.generation
            \/ /\ log[i].generation = meta.generation
               /\ log[i].next <= meta.source_offset

\* Until a write is cut short nothing is stored twice or out of order: append
\* compares the offset it has with the range's start under the run's lock.
THEOREM StoredOnceInOrderCorrect == StoreSpec => []StoredOnceInOrder
<1> USE RequestsAssumption, BoundsAssumption
        DEF StoreTyping, StoreTypeOK, Request, FreshMeta, Unlocked
<1>1. StoreInit => Settled
  BY DEF StoreInit, Settled, StoredOnceInOrder
<1>2. StoreTyping /\ StoreTyping' /\ Settled /\ [StoreNext]_storeVars => Settled'
  <2> SUFFICES ASSUME StoreTyping, StoreTyping', Settled, [StoreNext]_storeVars,
                      crashes' = 0
               PROVE  Settled'
    BY DEF Settled
  <2>1. ASSUME NEW r \in Requests, AppendBody(r)
        PROVE  Settled'
    <3>1. /\ log \in Seq(Request) /\ r \in Request /\ log' = Append(log, r)
          /\ meta' = meta /\ crashes = 0 /\ Accepts(r) /\ pending = None
          /\ pending' = r /\ r # None
      BY <2>1 DEF AppendBody
    <3>2. /\ \A i \in DOMAIN log : log'[i] = log[i]
          /\ DOMAIN log' = DOMAIN log \cup {Len(log) + 1}
          /\ Len(log') = Len(log) + 1 /\ log'[Len(log) + 1] = r
      BY <3>1
    <3>3. \A i \in DOMAIN log : \/ log[i].generation < r.generation
                                \/ /\ log[i].generation = r.generation
                                   /\ log[i].next <= r.offset
      <4>1. \A i \in DOMAIN log : \/ log[i].generation < meta.generation
                                  \/ /\ log[i].generation = meta.generation
                                     /\ log[i].next <= meta.source_offset
        BY <3>1 DEF Settled
      <4>2. \/ r.generation > meta.generation
            \/ r.generation = meta.generation /\ r.offset = meta.source_offset
        BY <3>1, AcceptedLinesUp
      <4>3. \A i \in DOMAIN log : /\ log[i].generation \in Nat
                                 /\ log[i].next \in Nat
        BY EntryTypes
      <4>4. /\ r.generation \in Nat /\ r.offset \in Nat
            /\ meta.generation \in Nat /\ meta.source_offset \in Nat
        BY <3>1
      <4> HIDE DEF StoreTyping, StoreTypeOK, Request
      <4> QED  BY <4>1, <4>2, <4>3, <4>4, StillBelow
    <3>4. StoredOnceInOrder'
      <4> SUFFICES ASSUME NEW i \in DOMAIN log', NEW j \in DOMAIN log', i < j
                   PROVE  \/ log'[i].generation < log'[j].generation
                          \/ /\ log'[i].generation = log'[j].generation
                             /\ log'[i].next <= log'[j].offset
        BY DEF StoredOnceInOrder
      <4>1. i \in DOMAIN log /\ log'[i] = log[i]
        BY <3>1, <3>2
      <4>2. CASE j = Len(log) + 1
        BY <3>2, <3>3, <4>1, <4>2
      <4>3. CASE j # Len(log) + 1
        <5>1. j \in DOMAIN log /\ log'[j] = log[j]
          BY <3>2, <4>3
        <5> QED  BY <3>1, <4>1, <5>1 DEF Settled, StoredOnceInOrder
      <4> QED  BY <4>2, <4>3
    <3> QED  BY <3>1, <3>2, <3>4 DEF Settled
  <2>2. CASE CommitMeta
    <3>1. /\ log' = log /\ crashes = 0 /\ Accepts(pending)
          /\ log[Len(log)] = pending /\ pending \in Request
          /\ meta'.source_offset = pending.next
          /\ meta'.generation = pending.generation
          /\ pending.offset <= pending.next
      BY <2>2 DEF CommitMeta
    <3>2. \A i \in DOMAIN log : i # Len(log) =>
             \/ log[i].generation < meta.generation
             \/ /\ log[i].generation = meta.generation
                /\ log[i].next <= meta.source_offset
      BY <3>1 DEF Settled
    <3>3. \A i \in DOMAIN log : \/ log[i].generation < meta'.generation
                                \/ /\ log[i].generation = meta'.generation
                                   /\ log[i].next <= meta'.source_offset
      <4>1. \/ pending.generation > meta.generation
            \/ pending.generation = meta.generation /\ pending.offset = meta.source_offset
        BY <3>1, AcceptedLinesUp
      <4>2. \A i \in DOMAIN log : /\ log[i].generation \in Nat
                                 /\ log[i].next \in Nat
        BY EntryTypes
      <4>3. \A i \in DOMAIN log : i # Len(log) =>
               \/ log[i].generation < pending.generation
               \/ /\ log[i].generation = pending.generation
                  /\ log[i].next <= pending.next
        <5>1. /\ pending.generation \in Nat /\ pending.offset \in Nat
              /\ pending.next \in Nat /\ pending.offset <= pending.next
              /\ meta.generation \in Nat /\ meta.source_offset \in Nat
          BY <3>1
        <5>2. \A i \in DOMAIN log : i # Len(log) =>
                 \/ log[i].generation < pending.generation
                 \/ /\ log[i].generation = pending.generation
                    /\ log[i].next <= pending.offset
          <6> HIDE DEF StoreTyping, StoreTypeOK, Request
          <6> QED  BY <3>2, <4>1, <4>2, <5>1, StillBelow
        <5> HIDE DEF StoreTyping, StoreTypeOK, Request
        <5> QED  BY <4>2, <5>1, <5>2
      <4>4. log[Len(log)].next <= pending.next
        BY <3>1
      <4> QED  BY <3>1, <4>3, <4>4
    <3> QED  BY <3>1, <3>3 DEF Settled, StoredOnceInOrder
  <2>3. CASE LoseMeta
    BY <2>3 DEF LoseMeta
  <2>4. ASSUME NEW p \in Snapshots, PutProgress(p)
        PROVE  Settled'
    BY <2>4 DEF PutProgress, Settled, StoredOnceInOrder
  <2>5. CASE Delete
    BY <2>5 DEF Delete, Settled, StoredOnceInOrder
  <2>6. CASE UNCHANGED storeVars
    BY <2>6 DEF storeVars, Settled, StoredOnceInOrder
  <2> QED  BY <2>1, <2>2, <2>3, <2>4, <2>5, <2>6 DEF StoreNext
<1>3. Settled => StoredOnceInOrder
  BY DEF Settled, StoredOnceInOrder
<1>4. QED  BY <1>1, <1>2, <1>3, StoreTypingHolds, PTL DEF StoreSpec
-----------------------------------------------------------------------------
(* The types of the shippers.                                                *)

Meta == [source_offset : Nat, generation : Nat]

Owners == Threads \cup {None}
Posts == [owner : Owners, kind : {"telemetry"}, json : BOOLEAN, req : Request]
Puts == [owner : Owners, kind : {"progress"}, snapshot : Snapshots]

Chunks == [kind : {"lines", "skip"}, size : Nat, end : Nat, body : Body, json : BOOLEAN]
SnapshotsRead == [kind : {"progress"}, snapshot : Snapshots]

Files == [size : Nat, ends : SUBSET Nat, corrupt : SUBSET Nat, torn : BOOLEAN]

Places == {"off", "tick", "post", "posted", "progress", "put", "done", "expired"}

StoreTypes ==
  /\ log \in Seq(Request)
  /\ meta \in Meta
  /\ pending \in Request \cup {None}
  /\ progress \in Snapshots \cup {None}
  /\ crashes \in Nat

\* The request being written is the last entry of the history.
Writing ==
  pending # None =>
    /\ Len(log) > 0 /\ log[Len(log)] = pending
    /\ pending.offset <= pending.next /\ Accepts(pending)

FileTypes ==
  /\ files \in Seq(Files) /\ Len(files) > 0
  /\ \A i \in DOMAIN files : files[i].ends \subseteq 1 .. files[i].size
  /\ status \in 0 .. Final

ShipperTypes ==
  /\ offset \in [Shippers -> Nat]
  /\ generation \in [Shippers -> Nat]
  /\ digest \in [Shippers -> 0 .. Final]
  /\ stopping \in [Shippers -> BOOLEAN]

\* A chunk of lines ends where its body does, behind its start; a line that is
\* skipped is longer than a chunk.
Whole(c) ==
  \/ c.kind = "lines" /\ c.body.from < c.body.upto
  \/ c.kind = "skip" /\ c.body.upto = c.body.from

ThreadTypes ==
  /\ pc \in [Threads -> Places]
  /\ more \in [Threads -> BOOLEAN]
  /\ chunk \in [Threads -> Chunks \cup SnapshotsRead \cup {NoChunk}]
  /\ \A t \in Threads :
       /\ pc[t] \in {"post", "posted"} => chunk[t] \in Chunks /\ Whole(chunk[t])
       /\ pc[t] = "put" => chunk[t] \in SnapshotsRead

NetTypes ==
  /\ net \subseteq Posts \cup Puts
  /\ serving \in Owners
  /\ reply \in [Threads -> Answers \cup {None}]

CounterTypes ==
  stray \in BOOLEAN /\ failures \in Nat /\ restarts \in Nat /\ deletes \in Nat

Types ==
  StoreTypes /\ Writing /\ FileTypes /\ ShipperTypes /\ ThreadTypes /\ NetTypes /\ CounterTypes
-----------------------------------------------------------------------------
Telemetry == {m \in net : m.kind = "telemetry"}

\* The loop is over before stop() drains.
OneBusy ==
  \A o \in Shippers : pc[<<o, "stop">>] # "off" => pc[<<o, "loop">>] = "done"

\* A request on its way belongs to a thread that waits for its answer, or to
\* nobody; a thread has one request at a time.
Wires ==
  /\ \A t \in Threads : ~ Waiting(t) => reply[t] = None
  /\ serving # None => pc[serving] = "posted" /\ reply[serving] = None
  /\ \A m \in net : m.owner # None =>
       /\ pc[m.owner] = IF m.kind = "telemetry" THEN "posted" ELSE "put"
       /\ reply[m.owner] = None /\ serving # m.owner
  /\ \A m, n \in net : m.owner = n.owner /\ m.owner # None => m = n

Matches(r) ==
  /\ r.body.from = r.offset
  /\ r.offset < r.next
  /\ \/ r.body.upto = r.next
     \/ r.body.upto = r.body.from /\ r.next - r.offset > MaxChunk

\* A cut entry, too, is what its headers say.
EntryMatches(r) ==
  /\ r.body.from = r.offset
  /\ \/ r.body.upto = r.next
     \/ r.body.upto = r.body.from /\ r.next - r.offset > MaxChunk

ChunkMatches(t) ==
  /\ chunk[t].body.from = offset[t[1]]
  /\ chunk[t].kind = "skip" => chunk[t].end - chunk[t].body.from > MaxChunk
  /\ chunk[t].kind = "lines" => chunk[t].end = chunk[t].body.upto

Bodies ==
  /\ BodiesMatchHeaders
  /\ \A m \in Telemetry : Matches(m.req)
  /\ \A t \in Threads : pc[t] = "post" => ChunkMatches(t)

\* What a request that is still expected says is what its thread remembers.
Remembered ==
  /\ \A m \in net : m.owner # None =>
       IF m.kind = "telemetry"
       THEN /\ m.req.generation = generation[m.owner[1]]
            /\ m.req.offset = offset[m.owner[1]]
            /\ m.req.next = chunk[m.owner].end
       ELSE m.snapshot = chunk[m.owner].snapshot
  /\ serving # None =>
       /\ pending # None
       /\ pending.generation = generation[serving[1]] /\ pending.next = chunk[serving].end
-----------------------------------------------------------------------------
Fresh(n) == progress = None \/ progress <= n

\* No PUT is out that could take the progress back.
Newest ==
  /\ progress = None \/ progress <= status
  /\ \A m \in net : m.kind = "progress" => m.owner # None
  /\ \A t \in Threads : pc[t] = "put" =>
       /\ Fresh(chunk[t].snapshot) /\ chunk[t].snapshot <= status
       /\ reply[t] # None => progress = chunk[t].snapshot
  /\ \A o \in Shippers : digest[o] # 0 => progress # None /\ digest[o] <= progress

Forward == ~stray /\ deletes = 0 => Newest
-----------------------------------------------------------------------------
\* Offset x of generation g is not beyond what the store has acknowledged.
Reached(g, x) ==
  \/ g < meta.generation
  \/ g = meta.generation /\ x <= meta.source_offset

\* ... or it is the start of a generation the store has not heard of.
Known(g, x) == Reached(g, x) \/ (g > meta.generation /\ x = 0)

\* The store has got past it, counting the request it is writing.
Past(g, x) ==
  IF pending = None
  THEN \/ g < meta.generation
       \/ g = meta.generation /\ x < meta.source_offset
  ELSE \/ g < pending.generation
       \/ g = pending.generation /\ x < pending.next

Undisturbed == crashes = 0 /\ deletes = 0

ShippersKnown == \A o \in Shippers : Known(generation[o], offset[o])

RequestsKnown == \A m \in Telemetry : Known(m.req.generation, m.req.offset)

\* What an answer takes its shipper to.
AnswersReached ==
  \A t \in Threads : pc[t] = "posted" /\ reply[t] # None =>
    /\ reply[t].code = 200 => Reached(generation[t[1]], chunk[t].end)
    /\ reply[t].code = 409 =>
         /\ Reached(reply[t].meta.generation, reply[t].meta.source_offset)
         /\ reply[t].meta.generation >= generation[t[1]]

AllKnown == ShippersKnown /\ RequestsKnown /\ AnswersReached

Positions == Undisturbed => AllKnown

\* What was read of the first file goes under the first generation.
FirstRequests ==
  /\ \A m \in Telemetry : m.req.body.inc = 1 => m.req.generation = 0
  /\ \A t \in Threads : pc[t] = "post" /\ chunk[t].body.inc = 1 => generation[t[1]] = 0

FirstStored ==
  /\ meta.generation = 0
  /\ pending # None => pending.generation = 0
  /\ \A m \in Telemetry : m.req.generation = 0

FirstPositions == \A o \in Shippers : generation[o] = 0 /\ offset[o] <= Live.size

FirstChunks ==
  \A t \in Threads : pc[t] \in {"post", "posted"} =>
    chunk[t].size <= Live.size /\ chunk[t].end <= chunk[t].size

FirstAnswers ==
  \A t \in Threads : reply[t] # None /\ reply[t].code = 409 => reply[t].meta.generation = 0

\* While there is one file there is one generation.
FirstGeneration ==
  /\ FirstRequests
  /\ Len(files) = 1 => FirstStored /\ FirstPositions /\ FirstChunks /\ FirstAnswers

Incarnations ==
  /\ \A i \in DOMAIN log : log[i].body.inc \in 1 .. Len(files)
  /\ \A m \in Telemetry : m.req.body.inc \in 1 .. Len(files)
  /\ \A t \in Threads : pc[t] = "post" =>
       /\ chunk[t].body.inc \in 1 .. Len(files)
       /\ \A i \in DOMAIN log : log[i].body.inc <= chunk[t].body.inc
       /\ \A m \in Telemetry : m.req.body.inc <= chunk[t].body.inc

\* A late request for a file that was replaced is one the store rejects,
LateIsPast ==
  \A m \in Telemetry, i \in DOMAIN log :
    log[i].body.inc > m.req.body.inc => Past(m.req.generation, m.req.offset)

\* ... or will, once a request for the new file is accepted.
LateFollows ==
  \A m, n \in Telemetry : m.req.body.inc < n.req.body.inc =>
    m.req.generation <= n.req.generation \/ Reached(m.req.generation, m.req.offset)

NoneAhead ==
  \A m \in Telemetry, o \in Shippers : m.req.generation <= generation[o]

Ordering == FilesInOrder /\ LateIsPast /\ LateFollows /\ (restarts = 0 => NoneAhead)

Ordered == Undisturbed /\ (restarts = 0 \/ Len(files) <= 2) => Ordering
-----------------------------------------------------------------------------
IsEnd(x) == x = 0 \/ x \in Live.ends

\* Nothing failed, and the file is one the host takes as a whole.
Quiet == Faultless /\ ~stray /\ Len(files) = 1 /\ Live.corrupt = {}

\* Everything on its way is whole lines,
LinesStored == IsEnd(meta.source_offset) /\ (pending # None => IsEnd(pending.next))
LinesSent == \A m \in Telemetry : m.json /\ IsEnd(m.req.offset) /\ IsEnd(m.req.next)
LinesShipped == \A o \in Shippers : IsEnd(offset[o])

\* ... none beyond what the thread that sends has seen of the file,
SeenBy(t) ==
  /\ IsEnd(chunk[t].body.from) /\ IsEnd(chunk[t].end) /\ chunk[t].json
  /\ meta.source_offset <= chunk[t].size
  /\ pending # None => pending.next <= chunk[t].size
  /\ \A m \in Telemetry : m.req.next <= chunk[t].size

LinesSeen == \A t \in Threads : pc[t] \in {"post", "posted"} => SeenBy(t)

\* ... and what the host rejects it answers with such a position.
LinesAnswered ==
  \A t \in Threads : pc[t] = "posted" /\ reply[t] # None =>
    /\ reply[t].code # 400
    /\ reply[t].code = 409 =>
         IsEnd(reply[t].meta.source_offset) /\ reply[t].meta.source_offset <= chunk[t].size

LinesOnly == Quiet => LinesStored /\ LinesSent /\ LinesShipped /\ LinesSeen /\ LinesAnswered

\* No answer is lost while nothing fails.
Heard(t) == (\E m \in net : m.owner = t) \/ serving = t \/ reply[t] # None

Answered == Faultless => \A t \in Threads : Waiting(t) => Heard(t)

Everything(x) == \A e \in Live.ends : e <= x

\* stop() is called behind the last write,
StopsLate ==
  \A o \in Shippers :
    /\ stopping[o] => status = Final
    /\ pc[<<o, "stop">>] # "off" => stopping[o]

\* ... and its drain ends when all is sent.
Drains(t) ==
  /\ pc[t] \in {"post", "posted"} => chunk[t].size = Live.size
  /\ pc[t] \in {"progress", "put"} /\ ~more[t] => Everything(offset[t[1]])
  /\ pc[t] = "put" => chunk[t].snapshot = Final
  /\ pc[t] = "done" => Everything(meta.source_offset) /\ progress = Final

Draining == StopsLate /\ (Quiet => \A o \in Shippers : Drains(<<o, "stop">>))
-----------------------------------------------------------------------------
(* Numbers, records and sequences *)

NatLess == OpToRel(<, Nat)

\* A set of numbers has a least one.
LEMMA LeastNumber ==
  ASSUME NEW T \in SUBSET Nat, T # {}
  PROVE  \E n \in T : \A m \in T : n <= m
<1>1. IsWellFoundedOn(NatLess, Nat)
  BY NatLessThanWellFounded, Zenon DEF NatLess
<1>2. \A x, y \in Nat : <<y, x>> \in NatLess <=> y < x
  BY DEF NatLess, OpToRel
<1>3. PICK n \in T : \A m \in T : ~ (<<m, n>> \in NatLess)
  BY <1>1, WFMin
<1>4. \A m \in T : ~ (m < n)
  BY <1>2, <1>3
<1> QED  BY <1>4

\* A set of numbers below a bound has a greatest one.
LEMMA GreatestNumber ==
  ASSUME NEW S \in SUBSET Nat, S # {}, NEW n \in Nat, \A e \in S : e <= n
  PROVE  \E e \in S : \A x \in S : x <= e
<1> DEFINE U == {k \in Nat : \A e \in S : e <= k}
<1>1. PICK u \in U : \A m \in U : u <= m
  BY LeastNumber
<1>2. CASE u \in S
  BY <1>2
<1>3. CASE u \notin S
  <2>0. PICK e \in S : TRUE
    OBVIOUS
  <2>1. u # 0
    BY <1>1, <1>3, <2>0
  <2>2. u - 1 \in U
    BY <1>1, <1>3, <2>1
  <2> QED  BY <1>1, <2>2, <2>1
<1> QED  BY <1>2, <1>3
-----------------------------------------------------------------------------
(* What a thread reads *)

LEMMA LiveFile ==
  ASSUME FileTypes
  PROVE  /\ Live \in Files /\ Live.ends \subseteq 1 .. Live.size
         /\ Len(files) \in Nat \ {0}
<1>1. Len(files) \in DOMAIN files
  BY DEF FileTypes
<1>2. Live \in Files /\ Live.ends \subseteq 1 .. Live.size
  BY <1>1 DEF FileTypes, Live
<1> QED  BY <1>2 DEF FileTypes

Window(from) == Min2(Live.size, from + MaxChunk)
WholeIn(from) == {e \in Live.ends : from < e /\ e <= Window(from)}
Later(from) == {e \in Live.ends : Window(from) < e}

LEMMA LiveTypes ==
  ASSUME FileTypes
  PROVE  /\ Live.size \in Nat /\ Live.ends \in SUBSET Nat /\ Live.corrupt \in SUBSET Nat
         /\ Live.torn \in BOOLEAN
         /\ \A e \in Live.ends : e \in 1 .. Live.size
BY LiveFile DEF Files

LEMMA ChunkRecord ==
  ASSUME NEW k \in {"lines", "skip"}, NEW size \in Nat, NEW end \in Nat, NEW body \in Body,
         NEW json \in BOOLEAN
  PROVE  [kind |-> k, size |-> size, end |-> end, body |-> body, json |-> json] \in Chunks
BY Zenon DEF Chunks

\* Whole lines of the window, if it has any.
LEMMA ReadLines ==
  ASSUME FileTypes, NEW from \in Nat, WholeIn(from) # {}
  PROVE  \E upto \in WholeIn(from), json \in BOOLEAN :
           /\ \A x \in WholeIn(from) : x <= upto
           /\ json = (/\ from = 0 \/ from \in Live.ends
                      /\ Live.corrupt \cap WholeIn(from) = {})
           /\ ChunkAt(from) = [kind |-> "lines", size |-> Live.size, end |-> upto,
                body |-> [inc |-> Len(files), from |-> from, upto |-> upto], json |-> json]
<1> DEFINE upto == CHOOSE e \in WholeIn(from) : \A x \in WholeIn(from) : x <= e
           json == /\ from = 0 \/ from \in Live.ends
                   /\ Live.corrupt \cap WholeIn(from) = {}
<1>1. WholeIn(from) \in SUBSET Nat /\ \A e \in WholeIn(from) : e <= Live.size
  BY LiveTypes DEF WholeIn
<1>2. \E e \in WholeIn(from) : \A x \in WholeIn(from) : x <= e
  <2>1. Live.size \in Nat
    BY LiveTypes
  <2> HIDE DEF upto, json
  <2> QED  BY <1>1, <2>1, GreatestNumber
<1>3. upto \in WholeIn(from) /\ \A x \in WholeIn(from) : x <= upto
  BY <1>2, Zenon
<1>4. json \in BOOLEAN
  BY Zenon
<1>5. ChunkAt(from) = [kind |-> "lines", size |-> Live.size, end |-> upto,
          body |-> [inc |-> Len(files), from |-> from, upto |-> upto], json |-> json]
  BY Zenon DEF ChunkAt, WholeIn, Window
<1> QED  BY <1>3, <1>4, <1>5, Zenon

\* A line longer than a chunk.
LEMMA ReadSkip ==
  ASSUME FileTypes, NEW from \in Nat, WholeIn(from) = {},
         Window(from) = from + MaxChunk, Later(from) # {}
  PROVE  \E end \in Later(from) :
           ChunkAt(from) = [kind |-> "skip", size |-> Live.size, end |-> end,
                body |-> [inc |-> Len(files), from |-> from, upto |-> from], json |-> TRUE]
<1> DEFINE end == CHOOSE e \in Later(from) : \A x \in Later(from) : e <= x
<1>1. Later(from) \in SUBSET Nat
  BY LiveTypes DEF Later
<1>2. \E e \in Later(from) : \A x \in Later(from) : e <= x
  <2> HIDE DEF end
  <2> QED  BY <1>1, LeastNumber
<1>3. end \in Later(from)
  BY <1>2, Zenon
<1>4. ChunkAt(from) = [kind |-> "skip", size |-> Live.size, end |-> end,
          body |-> [inc |-> Len(files), from |-> from, upto |-> from], json |-> TRUE]
  BY Zenon DEF ChunkAt, WholeIn, Window, Later
<1> QED  BY <1>3, <1>4, Zenon

\* Nothing, or not yet a line.
LEMMA ReadNothing ==
  ASSUME FileTypes, NEW from \in Nat, WholeIn(from) = {},
         Window(from) # from + MaxChunk \/ Later(from) = {}
  PROVE  ChunkAt(from) = NoChunk /\ \A e \in Live.ends : e <= from
<1>1. ChunkAt(from) = NoChunk
  BY Zenon DEF ChunkAt, WholeIn, Window, Later
<1>2. ASSUME NEW e \in Live.ends
      PROVE  e <= from
  <2>1. e \in 1 .. Live.size /\ Live.size \in Nat /\ MaxChunk \in Nat
    BY LiveTypes, ShippingAssumption
  <2>2. ~ (from < e /\ e <= Window(from))
    BY DEF WholeIn
  <2>3. e <= Window(from)
    BY <2>1 DEF Window, Min2, Later
  <2> QED  BY <2>1, <2>2, <2>3
<1> QED  BY <1>1, <1>2

\* What is read is what ThreadTypes says.
LEMMA ChunkTypes ==
  ASSUME FileTypes, NEW from \in Nat
  PROVE  \/ ChunkAt(from) = NoChunk /\ \A e \in Live.ends : e <= from
         \/ /\ ChunkAt(from) \in Chunks /\ Whole(ChunkAt(from))
            /\ ChunkAt(from) # NoChunk
            /\ ChunkAt(from).size = Live.size /\ ChunkAt(from).end \in Live.ends
            /\ ChunkAt(from).body.from = from /\ ChunkAt(from).body.inc = Len(files)
            /\ ChunkAt(from).kind = "lines" => ChunkAt(from).end = ChunkAt(from).body.upto
            /\ ChunkAt(from).kind = "skip" => ChunkAt(from).end - from > MaxChunk
            /\ IsEnd(from) /\ Live.corrupt = {} => ChunkAt(from).json
<1>0. /\ Live.size \in Nat /\ Len(files) \in Nat /\ MaxChunk \in Nat
      /\ Live.ends \in SUBSET Nat
  BY LiveTypes, LiveFile, ShippingAssumption
<1>1. CASE WholeIn(from) # {}
  <2>1. PICK upto \in WholeIn(from), json \in BOOLEAN :
           /\ json = (/\ from = 0 \/ from \in Live.ends
                      /\ Live.corrupt \cap WholeIn(from) = {})
           /\ ChunkAt(from) = [kind |-> "lines", size |-> Live.size, end |-> upto,
                body |-> [inc |-> Len(files), from |-> from, upto |-> upto], json |-> json]
    BY <1>1, ReadLines, Zenon
  <2>2. upto \in Live.ends /\ upto \in Nat /\ from < upto
    BY <1>0, <2>1 DEF WholeIn
  <2>3. [inc |-> Len(files), from |-> from, upto |-> upto] \in Body
    BY <1>0, <2>2 DEF Body
  <2>4. ChunkAt(from) \in Chunks
    <3>1. ChunkAt(from) = [kind |-> "lines", size |-> Live.size, end |-> upto,
                body |-> [inc |-> Len(files), from |-> from, upto |-> upto], json |-> json]
      BY <2>1
    <3> QED  BY <1>0, <2>2, <2>3, <3>1, ChunkRecord
  <2>5. /\ ChunkAt(from).kind = "lines" /\ ChunkAt(from).size = Live.size
        /\ ChunkAt(from).end = upto /\ ChunkAt(from).body.from = from
        /\ ChunkAt(from).body.upto = upto /\ ChunkAt(from).body.inc = Len(files)
    BY <2>1
  <2>6. ChunkAt(from).json = json
    BY <2>1
  <2>7. IsEnd(from) /\ Live.corrupt = {} => json
    BY <2>1, Zenon DEF IsEnd
  <2>8. IsEnd(from) /\ Live.corrupt = {} => ChunkAt(from).json
    BY <2>6, <2>7, Zenon
  <2>9. ChunkAt(from) # NoChunk
    BY <2>5 DEF NoChunk
  <2>10. Whole(ChunkAt(from))
    BY <2>2, <2>5 DEF Whole
  <2> QED  BY <2>2, <2>4, <2>5, <2>8, <2>9, <2>10
<1>2. CASE /\ WholeIn(from) = {} /\ Window(from) = from + MaxChunk /\ Later(from) # {}
  <2>1. PICK end \in Later(from) :
           ChunkAt(from) = [kind |-> "skip", size |-> Live.size, end |-> end,
                body |-> [inc |-> Len(files), from |-> from, upto |-> from], json |-> TRUE]
    BY <1>2, ReadSkip, Zenon
  <2>2. end \in Live.ends /\ end \in Nat /\ from + MaxChunk < end
    BY <1>0, <1>2, <2>1 DEF Later
  <2>3. [inc |-> Len(files), from |-> from, upto |-> from] \in Body
    BY <1>0 DEF Body
  <2>4. ChunkAt(from) \in Chunks
    BY <1>0, <2>1, <2>2, <2>3, ChunkRecord
  <2>5. /\ ChunkAt(from).kind = "skip" /\ ChunkAt(from).size = Live.size
        /\ ChunkAt(from).end = end /\ ChunkAt(from).body.from = from
        /\ ChunkAt(from).body.upto = from /\ ChunkAt(from).body.inc = Len(files)
    BY <2>1
  <2>6. ChunkAt(from).json
    BY <2>1
  <2>7. ChunkAt(from) # NoChunk
    BY <2>5 DEF NoChunk
  <2>8. ChunkAt(from).end - from > MaxChunk
    BY <1>0, <2>2, <2>5
  <2>9. Whole(ChunkAt(from))
    BY <2>5 DEF Whole
  <2> QED  BY <2>2, <2>4, <2>5, <2>6, <2>7, <2>8, <2>9
<1>3. CASE WholeIn(from) = {} /\ (Window(from) # from + MaxChunk \/ Later(from) = {})
  BY <1>3, ReadNothing
<1> QED  BY <1>1, <1>2, <1>3
-----------------------------------------------------------------------------
(* Types: the store *)

LEMMA AppendTypes ==
  ASSUME StoreTypes, NEW r \in Request, r.offset <= r.next, AppendBody(r)
  PROVE  StoreTypes' /\ Writing'
<1>1. /\ log \in Seq(Request) /\ log' = Append(log, r) /\ pending' = r
      /\ meta' = meta /\ progress' = progress /\ crashes' = crashes
  BY DEF AppendBody, StoreTypes
<1>2. log' \in Seq(Request) /\ Len(log') > 0 /\ log'[Len(log')] = r
  BY <1>1, AppendProperties, LenProperties
<1>3. Accepts(r)'
  BY <1>1 DEF AppendBody, Accepts, Rebased
<1> QED  BY <1>1, <1>2, <1>3 DEF StoreTypes, Writing

LEMMA CommitTypes ==
  ASSUME StoreTypes, CommitMeta
  PROVE  StoreTypes' /\ Writing'
<1>1. pending \in Request
  BY DEF CommitMeta, StoreTypes, Unlocked
<1>2. pending.next \in Nat /\ pending.generation \in Nat
  BY <1>1 DEF Request
<1> QED  BY <1>2 DEF CommitMeta, StoreTypes, Writing, Meta

LEMMA CutTypes ==
  ASSUME NEW r \in Request, NEW k \in r.offset .. r.next
  PROVE  Cut(r, k) \in Request
<1> DEFINE end == IF r.body.from = r.body.upto THEN r.offset ELSE k
           upto == r.body.from + (end - r.offset)
<1>1. /\ r.offset \in Nat /\ r.next \in Nat /\ r.body \in Body /\ r.generation \in Nat
  BY DEF Request
<1>2. r.body.from \in Nat /\ r.body.upto \in Nat /\ r.body.inc \in Nat
  BY <1>1 DEF Body
<1>3. end \in Nat /\ upto \in Nat
  BY <1>1, <1>2
<1> HIDE DEF end, upto
<1>4. [r.body EXCEPT !.upto = upto] \in Body
  BY <1>1, <1>3 DEF Body
<1>5. [r EXCEPT !.next = end, !.body.upto = upto] \in Request
  BY <1>3, <1>4 DEF Request
<1> QED  BY <1>5 DEF Cut, end, upto

LEMMA LoseTypes ==
  ASSUME StoreTypes, Writing, LoseMeta
  PROVE  StoreTypes' /\ Writing'
<1>1. PICK k \in pending.offset .. pending.next : log' = [log EXCEPT ![Len(log)] = Cut(pending, k)]
  BY DEF LoseMeta
<1>2. /\ pending \in Request /\ log \in Seq(Request) /\ crashes \in Nat
      /\ pending' = None /\ meta' = meta /\ progress' = progress /\ crashes' = crashes + 1
  BY DEF LoseMeta, StoreTypes, Unlocked
<1>3. Cut(pending, k) \in Request
  BY <1>2, CutTypes
<1>5. Len(log) \in 1 .. Len(log)
  BY <1>2, LenProperties DEF LoseMeta, Unlocked, Writing
<1>4. log' \in Seq(Request)
  BY <1>1, <1>2, <1>3, <1>5, ExceptSeq
<1> QED  BY <1>2, <1>4 DEF StoreTypes, Writing

LEMMA ValidRequest ==
  ASSUME NetTypes, NEW m \in net, m.kind = "telemetry"
  PROVE  m \in Posts /\ m.req \in Request /\ m.owner \in Owners
<1>1. m \in Posts
  BY DEF NetTypes, Puts
<1> QED  BY <1>1 DEF Posts

LEMMA PutMessage ==
  ASSUME NetTypes, NEW m \in net, m.kind = "progress"
  PROVE  m \in Puts /\ m.snapshot \in Snapshots /\ m.owner \in Owners
<1>1. m \in Puts
  BY DEF NetTypes, Posts
<1> QED  BY <1>1 DEF Puts

LEMMA StoreStep ==
  ASSUME StoreTypes,
         Writing,
         NetTypes,
         [Next]_vars
  PROVE  StoreTypes' /\ Writing'
<1>1. ASSUME UNCHANGED <<log, meta, pending, progress, crashes>>
      PROVE  StoreTypes' /\ Writing'
  BY <1>1 DEF StoreTypes, Writing, Accepts, Rebased
<1>2. ASSUME NEW m \in net, HandleAppend(m)
      PROVE  StoreTypes' /\ Writing'
  <2>1. m.req \in Request /\ m.req.offset <= m.req.next /\ AppendBody(m.req)
    BY <1>2, ValidRequest DEF HandleAppend, Valid
  <2> QED  BY <2>1, AppendTypes
<1>3. ASSUME NEW m \in net, HandleProgress(m)
      PROVE  StoreTypes' /\ Writing'
  <2>1. m.snapshot \in Snapshots /\ PutProgress(m.snapshot)
    BY <1>3, PutMessage DEF HandleProgress
  <2> QED  BY <2>1 DEF PutProgress, StoreTypes, Writing, Accepts, Rebased
<1>4. CASE HandleCommit
  BY <1>4, CommitTypes DEF HandleCommit
<1>5. CASE HostDies
  BY <1>5, LoseTypes DEF HostDies
<1>6. CASE HandleDelete
  BY <1>6 DEF HandleDelete, Delete, StoreTypes, Writing, Meta, FreshMeta, Unlocked
<1>7. CASE Tear \/ Rotate \/ WriteProgress \/ UNCHANGED vars
  BY <1>1, <1>7 DEF Tear, storeVars, shipperVars, threadVars, netVars,
       counters, vars, Rotate, WriteProgress
<1>8. ASSUME NEW t \in Threads,
             Read(t) \/ Post(t) \/ Posted(t) \/ ProgressUnchanged(t) \/ Put(t) \/ Putted(t) \/ ConnectionReset(t) \/ CallFails(t)
      PROVE  StoreTypes' /\ Writing'
  BY <1>1, <1>8 DEF Read, Goto, storeVars, shipperVars, threadVars, netVars,
       counters, vars, Post, Posted, ProgressUnchanged, EndOfTick, Put,
       Putted, ConnectionReset, CallFails
<1>9. ASSUME NEW o \in Shippers,
             LoopEnds(o) \/ DrainStarts(o) \/ StopCalled(o) \/ DrainDeadline(o) \/ Restart(o)
      PROVE  StoreTypes' /\ Writing'
  BY <1>1, <1>9 DEF LoopEnds, Goto, storeVars, shipperVars, threadVars,
       netVars, counters, vars, DrainStarts, StopCalled, DrainDeadline,
       Restart
<1>10. ASSUME NEW m \in net,
             HandleInvalid(m) \/ HandleMismatch(m)
      PROVE  StoreTypes' /\ Writing'
  BY <1>1, <1>10 DEF HandleInvalid, Answer, storeVars, shipperVars,
       threadVars, netVars, counters, vars, HandleMismatch
<1>11. ASSUME NEW eol \in BOOLEAN,
             Write(eol)
      PROVE  StoreTypes' /\ Writing'
  BY <1>1, <1>11 DEF Write, storeVars, shipperVars, threadVars, netVars,
       counters, vars
<1> QED  BY <1>2, <1>3, <1>4, <1>5, <1>6, <1>7, <1>8, <1>9, <1>10, <1>11
         DEF Next, SourceStep, ThreadStep, LifecycleStep, HostStep, Handle, Faults
-----------------------------------------------------------------------------
(* Types: the source file *)

LEMMA FileRecord ==
  ASSUME NEW size \in Nat, NEW ends \in SUBSET Nat, NEW corrupt \in SUBSET Nat, NEW torn \in BOOLEAN
  PROVE  [size |-> size, ends |-> ends, corrupt |-> corrupt, torn |-> torn] \in Files
BY Zenon DEF Files

\* The last file is replaced by a longer one.
LEMMA Replaced ==
  ASSUME FileTypes, NEW f \in Files, f.ends \subseteq 1 .. f.size,
         files' = [files EXCEPT ![Len(files)] = f], status' = status
  PROVE  FileTypes' /\ Len(files') = Len(files) /\ Live' = f
<1>1. files \in Seq(Files) /\ Len(files) \in 1 .. Len(files)
  BY LenProperties DEF FileTypes
<1>2. /\ files' \in Seq(Files) /\ Len(files') = Len(files)
      /\ \A j \in 1 .. Len(files) : files'[j] = IF j = Len(files) THEN f ELSE files[j]
  BY <1>1, ExceptSeq
<1>3. DOMAIN files = 1 .. Len(files) /\ DOMAIN files' = 1 .. Len(files')
  BY <1>1, <1>2, LenProperties
<1>4. Live' = f
  BY <1>1, <1>2 DEF Live
<1>5. \A i \in DOMAIN files' : files'[i].ends \subseteq 1 .. files'[i].size
  BY <1>2, <1>3 DEF FileTypes
<1> QED  BY <1>1, <1>2, <1>4, <1>5 DEF FileTypes

\* A byte more; what was a line stays one.
LEMMA WriteEffect ==
  ASSUME FileTypes, NEW eol \in BOOLEAN, Write(eol)
  PROVE  /\ FileTypes' /\ Len(files') = Len(files)
         /\ Live'.size = Live.size + 1 /\ Live.ends \subseteq Live'.ends
         /\ Live.corrupt \subseteq Live'.corrupt /\ status < Final
<1> DEFINE at == Live.size + 1
           ends == Live.ends \cup (IF eol THEN {at} ELSE {})
           corrupt == Live.corrupt \cup (IF eol /\ Live.torn THEN {at} ELSE {})
           torn == Live.torn /\ ~eol
           f == [size |-> at, ends |-> ends, corrupt |-> corrupt, torn |-> torn]
<1>1. files' = [files EXCEPT ![Len(files)] = f] /\ status' = status /\ status < Final
  BY Zenon DEF Write
<1>2. /\ Live.size \in Nat /\ Live.ends \in SUBSET Nat /\ Live.corrupt \in SUBSET Nat
      /\ \A e \in Live.ends : e \in 1 .. Live.size
  BY LiveTypes
<1>3. at \in Nat /\ ends \in SUBSET Nat /\ corrupt \in SUBSET Nat /\ ends \subseteq 1 .. at
  BY <1>2
<1>4. torn \in BOOLEAN
  BY Zenon
<1> HIDE DEF at, ends, corrupt, torn
<1>5. f \in Files
  BY <1>3, <1>4, FileRecord
<1>6. f.size = at /\ f.ends = ends /\ f.corrupt = corrupt
  OBVIOUS
<1> HIDE DEF f
<1>7. FileTypes' /\ Len(files') = Len(files) /\ Live' = f
  BY <1>1, <1>3, <1>5, <1>6, Replaced
<1> QED  BY <1>1, <1>6, <1>7 DEF at, ends, corrupt

\* Only the bytes behind the last line change their meaning.
LEMMA TearEffect ==
  ASSUME FileTypes, Tear
  PROVE  /\ FileTypes' /\ Len(files') = Len(files) /\ status' = status
         /\ Live'.size = Live.size /\ Live'.ends = Live.ends /\ Live'.corrupt = Live.corrupt
<1> DEFINE f == [Live EXCEPT !.torn = TRUE]
<1>1. Len(files) \in DOMAIN files
  BY LiveFile, LenProperties DEF FileTypes
<1>2. files' = [files EXCEPT ![Len(files)] = f] /\ status' = status
  BY <1>1 DEF Tear, Live
<1>3. Live \in Files /\ Live.ends \subseteq 1 .. Live.size
  BY LiveFile
<1>4. f \in Files
  BY <1>3, Zenon DEF Files
<1>5. f.size = Live.size /\ f.ends = Live.ends /\ f.corrupt = Live.corrupt
  BY <1>3 DEF Files
<1> HIDE DEF f
<1>6. FileTypes' /\ Len(files') = Len(files) /\ Live' = f
  BY <1>2, <1>3, <1>4, <1>5, Replaced
<1> QED  BY <1>2, <1>5, <1>6

\* A file more.
LEMMA RotateEffect ==
  ASSUME FileTypes, Rotate
  PROVE  FileTypes' /\ Len(files') = Len(files) + 1
<1>1. EmptyFile \in Files
  BY FileRecord DEF EmptyFile
<1>2. files \in Seq(Files) /\ files' = Append(files, EmptyFile) /\ status' = status
  BY DEF FileTypes, Rotate
<1>3. /\ files' \in Seq(Files) /\ Len(files') = Len(files) + 1
      /\ \A i \in 1 .. Len(files) : files'[i] = files[i]
      /\ files'[Len(files) + 1] = EmptyFile
  BY <1>1, <1>2, AppendProperties
<1>4. DOMAIN files = 1 .. Len(files) /\ DOMAIN files' = 1 .. Len(files) + 1 /\ Len(files) \in Nat
  BY <1>2, <1>3, LenProperties
<1>5. \A i \in DOMAIN files' : files'[i].ends \subseteq 1 .. files'[i].size
  <2>1. EmptyFile.ends = {}
    BY DEF EmptyFile
  <2> QED  BY <1>3, <1>4, <2>1 DEF FileTypes
<1> QED  BY <1>2, <1>3, <1>4, <1>5 DEF FileTypes

LEMMA FileStep ==
  ASSUME FileTypes,
         [Next]_vars
  PROVE  FileTypes'
<1>1. ASSUME UNCHANGED <<files, status>>
      PROVE  FileTypes'
  BY <1>1 DEF FileTypes
<1>2. ASSUME NEW eol \in BOOLEAN, Write(eol)
      PROVE  FileTypes'
  BY <1>2, WriteEffect
<1>3. CASE Tear
  BY <1>3, TearEffect
<1>4. CASE Rotate
  BY <1>4, RotateEffect
<1>5. CASE WriteProgress
  BY <1>5, ShippingAssumption DEF WriteProgress, FileTypes
<1>6. CASE HandleCommit \/ HostDies \/ HandleDelete \/ UNCHANGED vars
  BY <1>1, <1>6 DEF HandleCommit, CommitMeta, storeVars, shipperVars,
       threadVars, netVars, counters, vars, HostDies, LoseMeta,
       HandleDelete, Delete
<1>7. ASSUME NEW t \in Threads,
             Read(t) \/ Post(t) \/ Posted(t) \/ ProgressUnchanged(t) \/ Put(t) \/ Putted(t) \/ ConnectionReset(t) \/ CallFails(t)
      PROVE  FileTypes'
  BY <1>1, <1>7 DEF Read, Goto, storeVars, shipperVars, threadVars, netVars,
       counters, vars, Post, Posted, ProgressUnchanged, EndOfTick, Put,
       Putted, ConnectionReset, CallFails
<1>8. ASSUME NEW o \in Shippers,
             LoopEnds(o) \/ DrainStarts(o) \/ StopCalled(o) \/ DrainDeadline(o) \/ Restart(o)
      PROVE  FileTypes'
  BY <1>1, <1>8 DEF LoopEnds, Goto, storeVars, shipperVars, threadVars,
       netVars, counters, vars, DrainStarts, StopCalled, DrainDeadline,
       Restart
<1>9. ASSUME NEW m \in net,
             HandleInvalid(m) \/ HandleMismatch(m) \/ HandleAppend(m) \/ HandleProgress(m)
      PROVE  FileTypes'
  BY <1>1, <1>9 DEF HandleInvalid, Answer, storeVars, shipperVars,
       threadVars, netVars, counters, vars, HandleMismatch, HandleAppend,
       AppendBody, HandleProgress, PutProgress
<1> QED  BY <1>2, <1>3, <1>4, <1>5, <1>6, <1>7, <1>8, <1>9
         DEF Next, SourceStep, ThreadStep, LifecycleStep, HostStep, Handle, Faults

-----------------------------------------------------------------------------
(* Types: the shippers and their threads *)

LEMMA AnswerMeta ==
  ASSUME NEW a \in Answers, a.code = 409
  PROVE  a.meta \in Meta
BY DEF Answers, Meta

LEMMA ThreadParts ==
  ASSUME NEW t \in Threads
  PROVE  t[1] \in Shippers /\ t[2] \in {"loop", "stop"} /\ t = <<t[1], t[2]>>
BY DEF Threads

\* What a thread holds while it sends.
LEMMA ChunkFields ==
  ASSUME NEW c \in Chunks, Whole(c)
  PROVE  /\ c.size \in Nat /\ c.end \in Nat /\ c.body \in Body /\ c.json \in BOOLEAN
         /\ c.body.inc \in Nat /\ c.body.from \in Nat /\ c.body.upto \in Nat
         /\ c.body.upto >= c.body.from
<1>1. c.size \in Nat /\ c.end \in Nat /\ c.body \in Body
  BY DEF Chunks
<1>2. c.json \in BOOLEAN
  BY Zenon DEF Chunks
<1>3. c.body.inc \in Nat /\ c.body.from \in Nat /\ c.body.upto \in Nat
  BY <1>1 DEF Body
<1> QED  BY <1>1, <1>2, <1>3 DEF Whole

LEMMA SnapshotTypes ==
  ASSUME NEW c \in SnapshotsRead
  PROVE  c.snapshot \in Snapshots /\ c.snapshot \in 1 .. Final
BY ShippingAssumption DEF SnapshotsRead

\* The request a POST makes.
LEMMA HeadersTypes ==
  ASSUME ShipperTypes, ThreadTypes, NEW t \in Threads, pc[t] = "post"
  PROVE  /\ HeadersNow(t) \in Request
         /\ HeadersNow(t).offset = offset[t[1]] /\ HeadersNow(t).generation = generation[t[1]]
         /\ HeadersNow(t).body = chunk[t].body
         /\ HeadersNow(t).next = IF chunk[t].kind = "skip" THEN chunk[t].end
                                ELSE offset[t[1]] + (chunk[t].body.upto - chunk[t].body.from)
<1>1. chunk[t] \in Chunks /\ Whole(chunk[t])
  BY DEF ThreadTypes
<1> DEFINE next == IF chunk[t].kind = "skip" THEN chunk[t].end
                   ELSE offset[t[1]] + (chunk[t].body.upto - chunk[t].body.from)
           r == [offset |-> offset[t[1]], next |-> next, generation |-> generation[t[1]],
                 body |-> chunk[t].body]
<1>2. offset[t[1]] \in Nat /\ generation[t[1]] \in Nat
  BY ThreadParts DEF ShipperTypes
<1>3. next \in Nat /\ chunk[t].body \in Body
  BY <1>1, <1>2, ChunkFields
<1>4. HeadersNow(t) = r
  BY DEF HeadersNow
<1> HIDE DEF next
<1>5. r \in Request
  BY <1>2, <1>3 DEF Request
<1>6. r.offset = offset[t[1]] /\ r.generation = generation[t[1]] /\ r.body = chunk[t].body /\ r.next = next
  OBVIOUS
<1> QED  BY <1>4, <1>5, <1>6 DEF next

LEMMA ShipperStep ==
  ASSUME FileTypes,
         ShipperTypes,
         ThreadTypes,
         NetTypes,
         [Next]_vars
  PROVE  ShipperTypes'
<1>1. ASSUME UNCHANGED <<offset, generation, digest, stopping>>
      PROVE  ShipperTypes'
  BY <1>1 DEF ShipperTypes
<1>2. ASSUME NEW t \in Threads, Read(t)
      PROVE  ShipperTypes'
  BY <1>2, ThreadParts DEF Read, ShipperTypes
<1>3. ASSUME NEW t \in Threads, Posted(t)
      PROVE  ShipperTypes'
  <2>1. t[1] \in Shippers /\ chunk[t].end \in Nat /\ chunk[t].size \in Nat
    BY <1>3, ThreadParts, ChunkFields DEF Posted, ThreadTypes
  <2>2. reply[t] \in Answers
    BY <1>3 DEF Posted, NetTypes
  <2>3. CASE reply[t].code = 409
    <3>1. reply[t].meta.source_offset \in Nat /\ reply[t].meta.generation \in Nat
      BY <2>2, <2>3, AnswerMeta DEF Meta
    <3> QED  BY <1>3, <2>1, <2>3, <3>1 DEF Posted, ShipperTypes, Min2
  <2>4. CASE reply[t].code # 409
    BY <1>3, <2>1, <2>4 DEF Posted, ShipperTypes
  <2> QED  BY <2>3, <2>4
<1>4. ASSUME NEW t \in Threads, Putted(t)
      PROVE  ShipperTypes'
  <2>1. t[1] \in Shippers /\ chunk[t].snapshot \in 0 .. Final
    BY <1>4, ThreadParts, SnapshotTypes, ShippingAssumption DEF Putted, ThreadTypes
  <2> QED  BY <1>4, <2>1 DEF Putted, ShipperTypes
<1>5. ASSUME NEW o \in Shippers, StopCalled(o)
      PROVE  ShipperTypes'
  BY <1>5 DEF StopCalled, ShipperTypes
<1>6. ASSUME NEW o \in Shippers, Restart(o)
      PROVE  ShipperTypes'
  BY <1>6, ShippingAssumption DEF Restart, ShipperTypes
<1>7. CASE \/ Tear
            \/ Rotate
            \/ WriteProgress
            \/ HandleCommit
            \/ HostDies
            \/ HandleDelete
            \/ UNCHANGED vars
  BY <1>1, <1>7 DEF Tear, storeVars, shipperVars, threadVars, netVars,
       counters, vars, Rotate, WriteProgress, HandleCommit, CommitMeta,
       HostDies, LoseMeta, HandleDelete, Delete
<1>8. ASSUME NEW t \in Threads,
             Post(t) \/ ProgressUnchanged(t) \/ Put(t) \/ ConnectionReset(t) \/ CallFails(t)
      PROVE  ShipperTypes'
  BY <1>1, <1>8 DEF Post, Goto, storeVars, shipperVars, threadVars, netVars,
       counters, vars, ProgressUnchanged, EndOfTick, Put, ConnectionReset,
       CallFails
<1>9. ASSUME NEW o \in Shippers,
             LoopEnds(o) \/ DrainStarts(o) \/ DrainDeadline(o)
      PROVE  ShipperTypes'
  BY <1>1, <1>9 DEF LoopEnds, Goto, storeVars, shipperVars, threadVars,
       netVars, counters, vars, DrainStarts, DrainDeadline
<1>10. ASSUME NEW m \in net,
             HandleInvalid(m) \/ HandleMismatch(m) \/ HandleAppend(m) \/ HandleProgress(m)
      PROVE  ShipperTypes'
  BY <1>1, <1>10 DEF HandleInvalid, Answer, storeVars, shipperVars,
       threadVars, netVars, counters, vars, HandleMismatch, HandleAppend,
       AppendBody, HandleProgress, PutProgress
<1>11. ASSUME NEW eol \in BOOLEAN,
             Write(eol)
      PROVE  ShipperTypes'
  BY <1>1, <1>11 DEF Write, storeVars, shipperVars, threadVars, netVars,
       counters, vars
<1> QED  BY <1>2, <1>3, <1>4, <1>5, <1>6, <1>7, <1>8, <1>9, <1>10, <1>11
         DEF Next, SourceStep, ThreadStep, LifecycleStep, HostStep, Handle, Faults

LEMMA EndSet ==
  ASSUME NEW c \in Chunks, Whole(c), NEW n \in Nat, NEW d, d = [c EXCEPT !.end = n]
  PROVE  /\ d \in Chunks /\ Whole(d) /\ d.end = n /\ d.size = c.size /\ d.body = c.body
         /\ d.kind = c.kind /\ d.json = c.json
<1>1. d \in Chunks
  BY Zenon DEF Chunks
<1>2. /\ d.end = n /\ d.size = c.size /\ d.body = c.body /\ d.kind = c.kind /\ d.json = c.json
  BY DEF Chunks
<1> QED  BY <1>1, <1>2 DEF Whole

LEMMA MoreSet ==
  ASSUME more \in [Threads -> BOOLEAN], NEW t \in Threads, NEW b \in BOOLEAN
  PROVE  [more EXCEPT ![t] = b] \in [Threads -> BOOLEAN]
OBVIOUS

\* A thread goes to place p with chunk c.
LEMMA ThreadMoves ==
  ASSUME ThreadTypes, NEW t \in Threads, NEW p \in Places,
         NEW c \in Chunks \cup SnapshotsRead \cup {NoChunk},
         pc' = [pc EXCEPT ![t] = p], chunk' = [chunk EXCEPT ![t] = c],
         p \in {"post", "posted"} => c \in Chunks /\ Whole(c),
         p = "put" => c \in SnapshotsRead,
         more' \in [Threads -> BOOLEAN]
  PROVE  ThreadTypes'
<1>1. pc' \in [Threads -> Places] /\ chunk' \in [Threads -> Chunks \cup SnapshotsRead \cup {NoChunk}]
  BY DEF ThreadTypes
<1>2. ASSUME NEW u \in Threads
      PROVE  /\ pc'[u] \in {"post", "posted"} => chunk'[u] \in Chunks /\ Whole(chunk'[u])
             /\ pc'[u] = "put" => chunk'[u] \in SnapshotsRead
  <2>1. CASE u = t
    BY <2>1 DEF ThreadTypes
  <2>2. CASE u # t
    BY <2>2 DEF ThreadTypes
  <2> QED  BY <2>1, <2>2
<1> QED  BY <1>1, <1>2 DEF ThreadTypes

\* ... to a place where nothing is sent.
LEMMA ThreadRests ==
  ASSUME ThreadTypes, NEW t \in Threads, NEW p \in {"off", "tick", "progress", "done", "expired"},
         pc' = [pc EXCEPT ![t] = p],
         chunk' = chunk \/ chunk' = [chunk EXCEPT ![t] = NoChunk],
         more' \in [Threads -> BOOLEAN]
  PROVE  ThreadTypes'
<1>1. PICK c \in Chunks \cup SnapshotsRead \cup {NoChunk} : chunk' = [chunk EXCEPT ![t] = c]
  <2>1. chunk = [chunk EXCEPT ![t] = chunk[t]] /\ chunk[t] \in Chunks \cup SnapshotsRead \cup {NoChunk}
    BY DEF ThreadTypes
  <2> QED  BY <2>1
<1> QED  BY <1>1, ThreadMoves DEF Places

LEMMA ThreadStepTypes ==
  ASSUME FileTypes,
         ShipperTypes,
         ThreadTypes,
         [Next]_vars
  PROVE  ThreadTypes'
<1>1. ASSUME UNCHANGED <<pc, chunk, more>>
      PROVE  ThreadTypes'
  BY <1>1 DEF ThreadTypes
<1>2. ASSUME NEW t \in Threads, Read(t)
      PROVE  ThreadTypes'
  <2> DEFINE from == IF Live.size < offset[t[1]] THEN 0 ELSE offset[t[1]]
             p == IF ChunkAt(from) = NoChunk THEN "progress" ELSE "post"
  <2>1. from \in Nat
    BY ThreadParts DEF ShipperTypes
  <2>2. /\ pc' = [pc EXCEPT ![t] = p] /\ chunk' = [chunk EXCEPT ![t] = ChunkAt(from)]
        /\ more' = [more EXCEPT ![t] = FALSE]
    BY <1>2, Zenon DEF Read, Goto
  <2>3. more' \in [Threads -> BOOLEAN]
    BY <2>2, MoreSet DEF ThreadTypes
  <2> HIDE DEF from
  <2>4. \/ ChunkAt(from) = NoChunk
        \/ ChunkAt(from) \in Chunks /\ Whole(ChunkAt(from)) /\ ChunkAt(from) # NoChunk
    BY <2>1, ChunkTypes
  <2>5. CASE ChunkAt(from) = NoChunk
    BY <2>2, <2>3, <2>5, ThreadRests
  <2>6. CASE ChunkAt(from) # NoChunk
    BY <2>2, <2>3, <2>4, <2>6, ThreadMoves DEF Places
  <2> QED  BY <2>5, <2>6
<1>3. ASSUME NEW t \in Threads, Post(t)
      PROVE  ThreadTypes'
  <2>1. pc[t] = "post" /\ pc' = [pc EXCEPT ![t] = "posted"] /\ more' = more
        /\ chunk' = [chunk EXCEPT ![t].end = HeadersNow(t).next]
    BY <1>3 DEF Post, Goto
  <2>2. chunk[t] \in Chunks /\ Whole(chunk[t]) /\ HeadersNow(t).next \in Nat
    BY <2>1, HeadersTypes DEF ThreadTypes, Request
  <2> DEFINE d == [chunk[t] EXCEPT !.end = HeadersNow(t).next]
  <2>3. chunk' = [chunk EXCEPT ![t] = d]
    BY <2>1 DEF ThreadTypes
  <2>4. d \in Chunks /\ Whole(d)
    BY <2>2, EndSet
  <2> HIDE DEF d
  <2> QED  BY <2>1, <2>3, <2>4, ThreadMoves DEF Places, ThreadTypes
<1>4. ASSUME NEW t \in Threads, Posted(t)
      PROVE  ThreadTypes'
  <2>1. pc[t] = "posted" /\ chunk[t].end \in Nat /\ chunk[t].size \in Nat
    BY <1>4, ChunkFields DEF Posted, ThreadTypes
  <2>2. (chunk[t].end < chunk[t].size) \in BOOLEAN
    BY <2>1
  <2>4. \/ more' = [more EXCEPT ![t] = chunk[t].end < chunk[t].size]
        \/ more' = [more EXCEPT ![t] = TRUE]
        \/ more' = more
    BY <1>4, Zenon DEF Posted
  <2>5. more \in [Threads -> BOOLEAN]
    BY DEF ThreadTypes
  <2>6. [more EXCEPT ![t] = chunk[t].end < chunk[t].size] \in [Threads -> BOOLEAN]
    BY <2>2, <2>5, MoreSet, Zenon
  <2>7. [more EXCEPT ![t] = TRUE] \in [Threads -> BOOLEAN]
    BY <2>5, MoreSet, Zenon
  <2>3. more' \in [Threads -> BOOLEAN]
    BY <2>4, <2>5, <2>6, <2>7, Zenon
  <2> QED  BY <1>4, <2>3, ThreadRests DEF Posted, Goto, Raised
<1>5. ASSUME NEW t \in Threads, ProgressUnchanged(t)
      PROVE  ThreadTypes'
  BY <1>5, ThreadRests DEF ProgressUnchanged, EndOfTick, ThreadTypes, Goto, Raised, Returned
<1>6. ASSUME NEW t \in Threads, Put(t)
      PROVE  ThreadTypes'
  <2>1. /\ pc' = [pc EXCEPT ![t] = "put"] /\ more' = more
        /\ chunk' = [chunk EXCEPT ![t] = [kind |-> "progress", snapshot |-> status]]
    BY <1>6 DEF Put, Goto
  <2>2. status \in Snapshots
    BY <1>6, ShippingAssumption DEF Put, FileTypes
  <2>3. [kind |-> "progress", snapshot |-> status] \in SnapshotsRead
    BY <2>2 DEF SnapshotsRead
  <2> QED  BY <2>1, <2>3, ThreadMoves DEF Places, ThreadTypes
<1>7. ASSUME NEW t \in Threads, Putted(t)
      PROVE  ThreadTypes'
  BY <1>7, ThreadRests DEF Putted, EndOfTick, ThreadTypes, Goto, Raised, Returned
<1>8. ASSUME NEW t \in Threads, ConnectionReset(t)
      PROVE  ThreadTypes'
  BY <1>8, ThreadRests DEF ConnectionReset, ThreadTypes, Goto, Raised, Returned
<1>9. ASSUME NEW t \in Threads, CallFails(t)
      PROVE  ThreadTypes'
  BY <1>9, ThreadRests DEF CallFails, ThreadTypes, Goto, Raised, Returned
<1>10. ASSUME NEW o \in Shippers, LoopEnds(o)
      PROVE  ThreadTypes'
  BY <1>10, ThreadRests DEF LoopEnds, ThreadTypes, Goto, Threads
<1>11. ASSUME NEW o \in Shippers, DrainStarts(o)
      PROVE  ThreadTypes'
  BY <1>11, ThreadRests DEF DrainStarts, ThreadTypes, Goto, Threads
<1>12. ASSUME NEW o \in Shippers, DrainDeadline(o)
      PROVE  ThreadTypes'
  BY <1>12, ThreadRests DEF DrainDeadline, ThreadTypes, Goto, Threads
<1>13. ASSUME NEW o \in Shippers, Restart(o)
      PROVE  ThreadTypes'
  <2>1. pc' \in [Threads -> Places] /\ chunk' \in [Threads -> Chunks \cup SnapshotsRead \cup {NoChunk}]
    BY <1>13 DEF Restart, ThreadTypes, Places
  <2>2. more' \in [Threads -> BOOLEAN]
    BY <1>13 DEF Restart, ThreadTypes
  <2>3. ASSUME NEW u \in Threads
        PROVE  /\ pc'[u] \in {"post", "posted"} => chunk'[u] \in Chunks /\ Whole(chunk'[u])
               /\ pc'[u] = "put" => chunk'[u] \in SnapshotsRead
    <3>1. CASE u \in {<<o, "loop">>, <<o, "stop">>}
      BY <1>13, <3>1 DEF Restart
    <3>2. CASE u \notin {<<o, "loop">>, <<o, "stop">>}
      BY <1>13, <3>2 DEF Restart, ThreadTypes
    <3> QED  BY <3>1, <3>2
  <2> QED  BY <2>1, <2>2, <2>3 DEF ThreadTypes
<1>14. CASE \/ Tear
            \/ Rotate
            \/ WriteProgress
            \/ HandleCommit
            \/ HostDies
            \/ HandleDelete
            \/ UNCHANGED vars
  BY <1>1, <1>14 DEF Tear, storeVars, shipperVars, threadVars, netVars,
       counters, vars, Rotate, WriteProgress, HandleCommit, CommitMeta,
       HostDies, LoseMeta, HandleDelete, Delete
<1>15. ASSUME NEW o \in Shippers,
             StopCalled(o)
      PROVE  ThreadTypes'
  BY <1>1, <1>15 DEF StopCalled, storeVars, shipperVars, threadVars,
       netVars, counters, vars
<1>16. ASSUME NEW m \in net,
             HandleInvalid(m) \/ HandleMismatch(m) \/ HandleAppend(m) \/ HandleProgress(m)
      PROVE  ThreadTypes'
  BY <1>1, <1>16 DEF HandleInvalid, Answer, storeVars, shipperVars,
       threadVars, netVars, counters, vars, HandleMismatch, HandleAppend,
       AppendBody, HandleProgress, PutProgress
<1>17. ASSUME NEW eol \in BOOLEAN,
             Write(eol)
      PROVE  ThreadTypes'
  BY <1>1, <1>17 DEF Write, storeVars, shipperVars, threadVars, netVars,
       counters, vars
<1> QED  BY <1>2, <1>3, <1>4, <1>5, <1>6, <1>7, <1>8, <1>9, <1>10, <1>11, <1>12,
         <1>13, <1>14, <1>15, <1>16, <1>17
         DEF Next, SourceStep, ThreadStep, LifecycleStep, HostStep, Handle, Faults

-----------------------------------------------------------------------------
(* Types: requests and answers *)

LEMMA AbandonedFields ==
  ASSUME NetTypes, NEW m \in net
  PROVE  /\ Abandoned(m) \in Posts \cup Puts /\ Abandoned(m).owner = None
         /\ Abandoned(m).kind = m.kind
         /\ m.kind = "telemetry" => Abandoned(m).req = m.req /\ Abandoned(m).json = m.json
         /\ m.kind = "progress" => Abandoned(m).snapshot = m.snapshot
         /\ m.kind \in {"telemetry", "progress"}
<1>1. None \in Owners
  BY DEF Owners
<1>2. CASE m \in Posts
  <2>1. Abandoned(m) \in Posts
    BY <1>1, <1>2, Zenon DEF Abandoned, Posts
  <2>2. /\ Abandoned(m).owner = None /\ Abandoned(m).kind = m.kind /\ m.kind = "telemetry"
        /\ Abandoned(m).req = m.req /\ Abandoned(m).json = m.json
    BY <1>2 DEF Abandoned, Posts
  <2> QED  BY <2>1, <2>2
<1>3. CASE m \in Puts
  <2>1. Abandoned(m) \in Puts
    BY <1>1, <1>3, Zenon DEF Abandoned, Puts
  <2>2. /\ Abandoned(m).owner = None /\ Abandoned(m).kind = m.kind /\ m.kind = "progress"
        /\ Abandoned(m).snapshot = m.snapshot
    BY <1>3 DEF Abandoned, Puts
  <2> QED  BY <2>1, <2>2
<1> QED  BY <1>2, <1>3 DEF NetTypes

LEMMA AnswersGiven ==
  ASSUME StoreTypes
  PROVE  /\ [code |-> 200] \in Answers /\ [code |-> 400] \in Answers
         /\ \A r \in Request : [code |-> 409, meta |-> Rebased(r)] \in Answers
<1>1. [code |-> 200] \in Answers /\ [code |-> 400] \in Answers
  BY DEF Answers
<1>2. ASSUME NEW r \in Request
      PROVE  [code |-> 409, meta |-> Rebased(r)] \in Answers
  <2>1. Rebased(r) \in [source_offset : Nat, generation : Nat]
    BY DEF Rebased, Request, StoreTypes, Meta
  <2> QED  BY <2>1 DEF Answers
<1> QED  BY <1>1, <1>2

LEMMA AnswerTypes ==
  ASSUME NetTypes, NEW owner \in Owners, NEW a \in Answers, Answer(owner, a)
  PROVE  reply' \in [Threads -> Answers \cup {None}]
BY DEF NetTypes, Answer, Owners

LEMMA NetStep ==
  ASSUME StoreTypes,
         FileTypes,
         ShipperTypes,
         ThreadTypes,
         NetTypes,
         [Next]_vars
  PROVE  NetTypes'
<1>1. ASSUME UNCHANGED <<net, serving, reply>>
      PROVE  NetTypes'
  BY <1>1 DEF NetTypes
<1>2. ASSUME NEW t \in Threads, Post(t)
      PROVE  NetTypes'
  <2> DEFINE m == [owner |-> t, kind |-> "telemetry", json |-> chunk[t].json, req |-> HeadersNow(t)]
  <2>1. net' = net \cup {m} /\ serving' = serving /\ reply' = reply /\ pc[t] = "post"
    BY <1>2 DEF Post
  <2>2. t \in Owners /\ HeadersNow(t) \in Request
    BY <2>1, HeadersTypes DEF Owners
  <2>3. chunk[t].json \in BOOLEAN
    BY <2>1, ChunkFields DEF ThreadTypes
  <2>4. m \in Posts
    BY <2>2, <2>3, Zenon DEF Posts
  <2> QED  BY <2>1, <2>4 DEF NetTypes
<1>3. ASSUME NEW t \in Threads, Posted(t)
      PROVE  NetTypes'
  BY <1>3 DEF Posted, NetTypes, Owners
<1>4. ASSUME NEW t \in Threads, Put(t)
      PROVE  NetTypes'
  <2> DEFINE m == [owner |-> t, kind |-> "progress", snapshot |-> status]
  <2>1. net' = net \cup {m} /\ serving' = serving /\ reply' = reply
    BY <1>4 DEF Put
  <2>2. t \in Owners /\ status \in Snapshots
    BY <1>4, ShippingAssumption DEF Owners, Put, FileTypes
  <2>3. m \in Puts
    BY <2>2 DEF Puts
  <2> QED  BY <2>1, <2>3 DEF NetTypes
<1>5. ASSUME NEW t \in Threads, Putted(t)
      PROVE  NetTypes'
  BY <1>5 DEF Putted, netVars, NetTypes
<1>6. ASSUME NEW t \in Threads, CallFails(t)
      PROVE  NetTypes'
  <2>1. net' \subseteq net \cup {Abandoned(m) : m \in net}
    BY <1>6 DEF CallFails, OwnRequests
  <2>2. net' \subseteq Posts \cup Puts
    BY <2>1, AbandonedFields DEF NetTypes
  <2> QED  BY <1>6, <2>2 DEF CallFails, NetTypes, Owners
<1>7. ASSUME NEW o \in Shippers, Restart(o)
      PROVE  NetTypes'
  <2>1. net' \subseteq net \cup {Abandoned(m) : m \in net}
    BY <1>7 DEF Restart
  <2>2. net' \subseteq Posts \cup Puts
    BY <2>1, AbandonedFields DEF NetTypes
  <2> QED  BY <1>7, <2>2 DEF Restart, NetTypes, Owners
<1>8. ASSUME NEW m \in net, HandleInvalid(m)
      PROVE  NetTypes'
  BY <1>8, ValidRequest, AnswersGiven, AnswerTypes DEF HandleInvalid, NetTypes
<1>9. ASSUME NEW m \in net, HandleMismatch(m)
      PROVE  NetTypes'
  <2>1. m.owner \in Owners /\ [code |-> 409, meta |-> Rebased(m.req)] \in Answers
    BY <1>9, ValidRequest, AnswersGiven DEF HandleMismatch
  <2> QED  BY <1>9, <2>1, AnswerTypes DEF HandleMismatch, NetTypes
<1>10. ASSUME NEW m \in net, HandleAppend(m)
      PROVE  NetTypes'
  BY <1>10, ValidRequest DEF HandleAppend, NetTypes
<1>11. ASSUME NEW m \in net, HandleProgress(m)
      PROVE  NetTypes'
  BY <1>11, PutMessage, AnswersGiven, AnswerTypes DEF HandleProgress, NetTypes
<1>12. CASE HandleCommit
  <2>1. serving \in Owners /\ [code |-> 200] \in Answers
    BY AnswersGiven DEF NetTypes
  <2>2. reply' \in [Threads -> Answers \cup {None}]
    BY <1>12, <2>1, AnswerTypes DEF HandleCommit
  <2> QED  BY <1>12, <2>2 DEF HandleCommit, NetTypes, Owners
<1>13. CASE HostDies
  BY <1>13 DEF HostDies, NetTypes, Owners
<1>14. CASE \/ Tear
            \/ Rotate
            \/ WriteProgress
            \/ HandleDelete
            \/ UNCHANGED vars
  BY <1>1, <1>14 DEF Tear, storeVars, shipperVars, threadVars, netVars,
       counters, vars, Rotate, WriteProgress, HandleDelete, Delete
<1>15. ASSUME NEW t \in Threads,
             Read(t) \/ ProgressUnchanged(t) \/ ConnectionReset(t)
      PROVE  NetTypes'
  BY <1>1, <1>15 DEF Read, Goto, storeVars, shipperVars, threadVars,
       netVars, counters, vars, ProgressUnchanged, EndOfTick,
       ConnectionReset
<1>16. ASSUME NEW o \in Shippers,
             LoopEnds(o) \/ DrainStarts(o) \/ StopCalled(o) \/ DrainDeadline(o)
      PROVE  NetTypes'
  BY <1>1, <1>16 DEF LoopEnds, Goto, storeVars, shipperVars, threadVars,
       netVars, counters, vars, DrainStarts, StopCalled, DrainDeadline
<1>17. ASSUME NEW eol \in BOOLEAN,
             Write(eol)
      PROVE  NetTypes'
  BY <1>1, <1>17 DEF Write, storeVars, shipperVars, threadVars, netVars,
       counters, vars
<1> QED  BY <1>2, <1>3, <1>4, <1>5, <1>6, <1>7, <1>8, <1>9, <1>10, <1>11, <1>12,
         <1>13, <1>14, <1>15, <1>16, <1>17
         DEF Next, SourceStep, ThreadStep, LifecycleStep, HostStep, Handle, Faults

LEMMA CounterStep ==
  ASSUME CounterTypes,
         [Next]_vars
  PROVE  CounterTypes'
<1>1. ASSUME UNCHANGED <<stray, failures, restarts, deletes>>
      PROVE  CounterTypes'
  BY <1>1 DEF CounterTypes
<1>2. ASSUME NEW t \in Threads, ProgressUnchanged(t)
      PROVE  CounterTypes'
  BY <1>2 DEF ProgressUnchanged, EndOfTick, CounterTypes
<1>3. ASSUME NEW t \in Threads, Putted(t)
      PROVE  CounterTypes'
  BY <1>3 DEF Putted, EndOfTick, CounterTypes
<1>4. ASSUME NEW t \in Threads, CallFails(t)
      PROVE  CounterTypes'
  <2>1. stray' \in BOOLEAN
    BY <1>4, Zenon DEF CallFails, Strays, CounterTypes
  <2> QED  BY <1>4, <2>1 DEF CallFails, CounterTypes
<1>5. ASSUME NEW o \in Shippers, DrainDeadline(o)
      PROVE  CounterTypes'
  BY <1>5 DEF DrainDeadline, CounterTypes
<1>6. ASSUME NEW o \in Shippers, Restart(o)
      PROVE  CounterTypes'
  <2>1. stray' \in BOOLEAN
    BY <1>6, Zenon DEF Restart, Strays, CounterTypes
  <2> QED  BY <1>6, <2>1 DEF Restart, CounterTypes
<1>7. CASE HandleDelete
  BY <1>7 DEF HandleDelete, CounterTypes
<1>8. CASE \/ Tear
            \/ Rotate
            \/ WriteProgress
            \/ HandleCommit
            \/ HostDies
            \/ UNCHANGED vars
  BY <1>1, <1>8 DEF Tear, storeVars, shipperVars, threadVars, netVars,
       counters, vars, Rotate, WriteProgress, HandleCommit, CommitMeta,
       HostDies, LoseMeta
<1>9. ASSUME NEW t \in Threads,
             Read(t) \/ Post(t) \/ Posted(t) \/ Put(t) \/ ConnectionReset(t)
      PROVE  CounterTypes'
  BY <1>1, <1>9 DEF Read, Goto, storeVars, shipperVars, threadVars, netVars,
       counters, vars, Post, Posted, Put, ConnectionReset
<1>10. ASSUME NEW o \in Shippers,
             LoopEnds(o) \/ DrainStarts(o) \/ StopCalled(o)
      PROVE  CounterTypes'
  BY <1>1, <1>10 DEF LoopEnds, Goto, storeVars, shipperVars, threadVars,
       netVars, counters, vars, DrainStarts, StopCalled
<1>11. ASSUME NEW m \in net,
             HandleInvalid(m) \/ HandleMismatch(m) \/ HandleAppend(m) \/ HandleProgress(m)
      PROVE  CounterTypes'
  BY <1>1, <1>11 DEF HandleInvalid, Answer, storeVars, shipperVars,
       threadVars, netVars, counters, vars, HandleMismatch, HandleAppend,
       AppendBody, HandleProgress, PutProgress
<1>12. ASSUME NEW eol \in BOOLEAN,
             Write(eol)
      PROVE  CounterTypes'
  BY <1>1, <1>12 DEF Write, storeVars, shipperVars, threadVars, netVars,
       counters, vars
<1> QED  BY <1>2, <1>3, <1>4, <1>5, <1>6, <1>7, <1>8, <1>9, <1>10, <1>11, <1>12
         DEF Next, SourceStep, ThreadStep, LifecycleStep, HostStep, Handle, Faults


LEMMA TypesStep ==
  ASSUME Types, [Next]_vars
  PROVE  Types'
BY StoreStep, FileStep, ShipperStep, ThreadStepTypes, NetStep, CounterStep, Zenon DEF Types

LEMMA TypesInit ==
  ASSUME Init
  PROVE  Types
<1>1. StoreTypes /\ Writing
  <2>1. <<>> \in Seq(Request)
    OBVIOUS
  <2> QED  BY <2>1 DEF Init, StoreInit, StoreTypes, Writing, Meta, FreshMeta
<1>2. FileTypes
  <2>1. EmptyFile \in Files /\ EmptyFile.ends = {}
    BY FileRecord DEF EmptyFile
  <2>2. files = <<EmptyFile>> /\ status = 0
    BY DEF Init
  <2>3. files \in Seq(Files) /\ Len(files) = 1 /\ files[1] = EmptyFile /\ DOMAIN files = 1 .. 1
    BY <2>1, <2>2
  <2> QED  BY <2>1, <2>2, <2>3, ShippingAssumption DEF FileTypes
<1>3. ShipperTypes
  BY ShippingAssumption DEF Init, ShipperTypes
<1>4. ThreadTypes
  BY DEF Init, ThreadTypes, Places
<1>5. NetTypes
  BY DEF Init, NetTypes, Owners
<1>6. CounterTypes
  BY DEF Init, CounterTypes
<1> QED  BY <1>1, <1>2, <1>3, <1>4, <1>5, <1>6 DEF Types

LEMMA TypesHold == Spec => []Types
<1>1. Init => Types
  BY TypesInit
<1>2. Types /\ [Next]_vars => Types'
  BY TypesStep
<1> QED  BY <1>1, <1>2, PTL DEF Spec
-----------------------------------------------------------------------------
(* The host is the store *)

\* What reaches the store is one of its operations.
LEMMA StoreSteps ==
  ASSUME {r \in Request : r.offset <= r.next} \subseteq Requests,
         StoreTypes,
         NetTypes,
         [Next]_vars
  PROVE  [StoreNext]_storeVars
<1>1. ASSUME UNCHANGED <<log, meta, pending, progress, crashes>>
      PROVE  [StoreNext]_storeVars
  BY <1>1 DEF storeVars
<1>2. ASSUME NEW m \in net, HandleAppend(m)
      PROVE  [StoreNext]_storeVars
  <2>1. m.req \in Request /\ m.req.offset <= m.req.next /\ AppendBody(m.req)
    BY <1>2, ValidRequest DEF HandleAppend, Valid
  <2> QED  BY <2>1 DEF StoreNext
<1>3. ASSUME NEW m \in net, HandleProgress(m)
      PROVE  [StoreNext]_storeVars
  BY <1>3, PutMessage DEF HandleProgress, StoreNext
<1>4. CASE HandleCommit
  BY <1>4 DEF HandleCommit, StoreNext
<1>5. CASE HostDies
  BY <1>5 DEF HostDies, StoreNext
<1>6. CASE HandleDelete
  BY <1>6 DEF HandleDelete, StoreNext
<1>7. CASE Tear \/ Rotate \/ WriteProgress \/ UNCHANGED vars
  BY <1>1, <1>7 DEF Tear, storeVars, shipperVars, threadVars, netVars,
       counters, vars, Rotate, WriteProgress
<1>8. ASSUME NEW t \in Threads,
             Read(t) \/ Post(t) \/ Posted(t) \/ ProgressUnchanged(t) \/ Put(t) \/ Putted(t) \/ ConnectionReset(t) \/ CallFails(t)
      PROVE  [StoreNext]_storeVars
  BY <1>1, <1>8 DEF Read, Goto, storeVars, shipperVars, threadVars, netVars,
       counters, vars, Post, Posted, ProgressUnchanged, EndOfTick, Put,
       Putted, ConnectionReset, CallFails
<1>9. ASSUME NEW o \in Shippers,
             LoopEnds(o) \/ DrainStarts(o) \/ StopCalled(o) \/ DrainDeadline(o) \/ Restart(o)
      PROVE  [StoreNext]_storeVars
  BY <1>1, <1>9 DEF LoopEnds, Goto, storeVars, shipperVars, threadVars,
       netVars, counters, vars, DrainStarts, StopCalled, DrainDeadline,
       Restart
<1>10. ASSUME NEW m \in net,
             HandleInvalid(m) \/ HandleMismatch(m)
      PROVE  [StoreNext]_storeVars
  BY <1>1, <1>10 DEF HandleInvalid, Answer, storeVars, shipperVars,
       threadVars, netVars, counters, vars, HandleMismatch
<1>11. ASSUME NEW eol \in BOOLEAN,
             Write(eol)
      PROVE  [StoreNext]_storeVars
  BY <1>1, <1>11 DEF Write, storeVars, shipperVars, threadVars, netVars,
       counters, vars
<1> QED  BY <1>2, <1>3, <1>4, <1>5, <1>6, <1>7, <1>8, <1>9, <1>10, <1>11
         DEF Next, SourceStep, ThreadStep, LifecycleStep, HostStep, Handle, Faults


\* However many shippers, threads and faults there are, what happens to the
\* run's files on the host is a behaviour of the IngestStore: every handler is
\* one operation under the run's lock (server.py:86-122).
THEOREM HostIsAStoreCorrect ==
  ASSUME {r \in Request : r.offset <= r.next} \subseteq Requests
  PROVE  Spec => HostIsAStore
<1>1. Init => StoreInit
  BY DEF Init
<1>2. Types /\ [Next]_vars => [StoreNext]_storeVars
  BY StoreSteps DEF Types
<1> QED  BY <1>1, <1>2, TypesHold, PTL DEF Spec, HostIsAStore, StoreSpec

\* The types of the composition, the store's bounds among them.
THEOREM ShippingTypeCorrect ==
  ASSUME {r \in Request : r.offset <= r.next} \subseteq Requests
  PROVE  Spec => []TypeOK
<1>1. Types /\ StoreTypeOK => TypeOK
  <2>1. ASSUME Types
        PROVE  \A m \in net : m.owner \in Threads \cup {None}
    <3>1. net \subseteq Posts \cup Puts
      BY <2>1 DEF Types, NetTypes
    <3>2. \A m \in Posts \cup Puts : m.owner \in Owners
      BY DEF Posts, Puts
    <3> QED  BY <3>1, <3>2 DEF Owners
  <2> QED  BY <2>1, Zenon DEF Types, FileTypes, ShipperTypes, ThreadTypes, NetTypes, TypeOK, Places, Owners
<1> QED  BY <1>1, TypesHold, HostIsAStoreCorrect, StoreTypeCorrect, PTL DEF HostIsAStore

\* What the store tells a resyncing shipper it has it does have, whatever the
\* shippers of the run send and whatever fails between them (server.py:90-106).
THEOREM ShippedAckedIsStored ==
  ASSUME {r \in Request : r.offset <= r.next} \subseteq Requests
  PROVE  Spec => []AckedIsStored
BY HostIsAStoreCorrect, AckedIsStoredCorrect, PTL DEF HostIsAStore

\* No byte range is stored twice, and none behind a newer one, whatever the
\* shippers of the run send (server.py:60).
THEOREM ShippedOnceInOrder ==
  ASSUME {r \in Request : r.offset <= r.next} \subseteq Requests
  PROVE  Spec => []StoredOnceInOrder
BY HostIsAStoreCorrect, StoredOnceInOrderCorrect, PTL DEF HostIsAStore
-----------------------------------------------------------------------------
(* One thread of a shipper at a time *)

\* A thread that runs may go anywhere.
LEMMA RunningMoves ==
  ASSUME OneBusy, ThreadTypes, NEW t \in Threads, pc[t] \notin {"off", "done"},
         NEW p, pc' = [pc EXCEPT ![t] = p]
  PROVE  OneBusy'
<1>1. ASSUME NEW o \in Shippers
      PROVE  pc'[<<o, "stop">>] # "off" => pc'[<<o, "loop">>] = "done"
  <2>1. <<o, "stop">> \in Threads /\ <<o, "loop">> \in Threads /\ <<o, "stop">> # <<o, "loop">>
    BY DEF Threads
  <2>2. pc[<<o, "stop">>] # "off" => pc[<<o, "loop">>] = "done"
    BY DEF OneBusy
  <2>3. CASE t = <<o, "stop">>
    BY <2>1, <2>2, <2>3 DEF ThreadTypes
  <2>4. CASE t = <<o, "loop">>
    BY <2>1, <2>2, <2>4 DEF ThreadTypes
  <2>5. CASE t # <<o, "stop">> /\ t # <<o, "loop">>
    BY <2>1, <2>2, <2>5 DEF ThreadTypes
  <2> QED  BY <2>3, <2>4, <2>5
<1> QED  BY <1>1 DEF OneBusy

\* Two running threads of one shipper are the same.
LEMMA OnlyRunning ==
  ASSUME OneBusy, NEW t \in Threads, NEW u \in Threads, t[1] = u[1],
         pc[t] \notin {"off", "done"}, pc[u] \notin {"off", "done"}
  PROVE  t = u
<1>1. /\ t = <<t[1], t[2]>> /\ u = <<t[1], u[2]>> /\ t[1] \in Shippers
      /\ t[2] \in {"loop", "stop"} /\ u[2] \in {"loop", "stop"}
  BY ThreadParts
<1>2. pc[<<t[1], "stop">>] # "off" => pc[<<t[1], "loop">>] = "done"
  BY <1>1 DEF OneBusy
<1>3. CASE t[2] = u[2]
  BY <1>1, <1>3
<1>4. CASE t[2] = "loop" /\ u[2] = "stop"
  BY <1>1, <1>2, <1>4
<1>5. CASE t[2] = "stop" /\ u[2] = "loop"
  BY <1>1, <1>2, <1>5
<1> QED  BY <1>1, <1>3, <1>4, <1>5

LEMMA OneBusyStep ==
  ASSUME ~ JoinMayTimeOut,
         ThreadTypes,
         OneBusy,
         [Next]_vars
  PROVE  OneBusy'
<1>1. ASSUME UNCHANGED <<pc>>
      PROVE  OneBusy'
  BY <1>1 DEF OneBusy
<1>2. ASSUME NEW t \in Threads, Read(t)
      PROVE  OneBusy'
  BY <1>2, RunningMoves DEF Read, Goto
<1>3. ASSUME NEW t \in Threads, Post(t)
      PROVE  OneBusy'
  BY <1>3, RunningMoves DEF Post, Goto
<1>4. ASSUME NEW t \in Threads, Posted(t)
      PROVE  OneBusy'
  BY <1>4, RunningMoves DEF Posted, Goto
<1>5. ASSUME NEW t \in Threads, ProgressUnchanged(t)
      PROVE  OneBusy'
  BY <1>5, RunningMoves DEF ProgressUnchanged, EndOfTick, Goto
<1>6. ASSUME NEW t \in Threads, Put(t)
      PROVE  OneBusy'
  BY <1>6, RunningMoves DEF Put, Goto
<1>7. ASSUME NEW t \in Threads, Putted(t)
      PROVE  OneBusy'
  BY <1>7, RunningMoves DEF Putted, EndOfTick, Goto
<1>8. ASSUME NEW t \in Threads, ConnectionReset(t)
      PROVE  OneBusy'
  BY <1>8, RunningMoves DEF ConnectionReset, Waiting, Goto
<1>9. ASSUME NEW t \in Threads, CallFails(t)
      PROVE  OneBusy'
  BY <1>9, RunningMoves DEF CallFails, Waiting, Goto
<1>10. ASSUME NEW o \in Shippers, LoopEnds(o)
      PROVE  OneBusy'
  <2>1. <<o, "loop">> \in Threads
    BY DEF Threads
  <2> QED  BY <1>10, <2>1, RunningMoves DEF LoopEnds, Goto
<1>11. ASSUME NEW o \in Shippers, DrainStarts(o)
      PROVE  OneBusy'
  BY <1>11 DEF DrainStarts, Goto, OneBusy, ThreadTypes, Threads
<1>12. ASSUME NEW o \in Shippers, DrainDeadline(o)
      PROVE  OneBusy'
  <2>1. <<o, "stop">> \in Threads
    BY DEF Threads
  <2> QED  BY <1>12, <2>1, RunningMoves DEF DrainDeadline, Goto
<1>13. ASSUME NEW o \in Shippers, Restart(o)
      PROVE  OneBusy'
  BY <1>13 DEF Restart, OneBusy, ThreadTypes, Threads
<1>14. CASE \/ Tear
            \/ Rotate
            \/ WriteProgress
            \/ HandleCommit
            \/ HostDies
            \/ HandleDelete
            \/ UNCHANGED vars
  BY <1>1, <1>14 DEF Tear, storeVars, shipperVars, threadVars, netVars,
       counters, vars, Rotate, WriteProgress, HandleCommit, CommitMeta,
       HostDies, LoseMeta, HandleDelete, Delete
<1>15. ASSUME NEW o \in Shippers,
             StopCalled(o)
      PROVE  OneBusy'
  BY <1>1, <1>15 DEF StopCalled, storeVars, shipperVars, threadVars,
       netVars, counters, vars
<1>16. ASSUME NEW m \in net,
             HandleInvalid(m) \/ HandleMismatch(m) \/ HandleAppend(m) \/ HandleProgress(m)
      PROVE  OneBusy'
  BY <1>1, <1>16 DEF HandleInvalid, Answer, storeVars, shipperVars,
       threadVars, netVars, counters, vars, HandleMismatch, HandleAppend,
       AppendBody, HandleProgress, PutProgress
<1>17. ASSUME NEW eol \in BOOLEAN,
             Write(eol)
      PROVE  OneBusy'
  BY <1>1, <1>17 DEF Write, storeVars, shipperVars, threadVars, netVars,
       counters, vars
<1> QED  BY <1>2, <1>3, <1>4, <1>5, <1>6, <1>7, <1>8, <1>9, <1>10, <1>11, <1>12,
         <1>13, <1>14, <1>15, <1>16, <1>17
         DEF Next, SourceStep, ThreadStep, LifecycleStep, HostStep, Handle, Faults

-----------------------------------------------------------------------------
(* Requests and the threads that wait for them *)

LEMMA Messages ==
  ASSUME NetTypes
  PROVE  /\ None \notin Threads /\ None \notin Answers
         /\ \A m \in net : m.owner \in Threads \cup {None} /\ m.kind \in {"telemetry", "progress"}
BY NoneAssumption DEF NetTypes, Posts, Puts, Owners

\* A thread sends.
LEMMA Sends ==
  ASSUME ThreadTypes, NetTypes, Wires, NEW t \in Threads, ~ Waiting(t),
         NEW m, m.owner = t, m.kind \in {"telemetry", "progress"}, net' = net \cup {m},
         pc' = [pc EXCEPT ![t] = IF m.kind = "telemetry" THEN "posted" ELSE "put"],
         UNCHANGED <<serving, reply>>
  PROVE  Wires'
<1> USE Messages DEF ThreadTypes, NetTypes, Owners
<1>1. pc[t] \notin {"posted", "put"}
  BY DEF Waiting
<1>2. serving # t /\ \A n \in net : n.owner # t
  BY <1>1 DEF Wires
<1>3. \A u \in Threads : ~ Waiting(u)' => reply'[u] = None
  BY DEF Wires, Waiting
<1>4. serving' # None => pc'[serving'] = "posted" /\ reply'[serving'] = None
  BY <1>2 DEF Wires
<1>5. ASSUME NEW n \in net', n.owner # None
      PROVE  /\ pc'[n.owner] = IF n.kind = "telemetry" THEN "posted" ELSE "put"
             /\ reply'[n.owner] = None /\ serving' # n.owner
  <2>1. CASE n = m
    BY <1>2, <2>1 DEF Wires
  <2>2. CASE n # m
    BY <1>2, <1>5, <2>2 DEF Wires
  <2> QED  BY <2>1, <2>2
<1>6. \A n, k \in net' : n.owner = k.owner /\ n.owner # None => n = k
  BY <1>2 DEF Wires
<1> QED  BY <1>3, <1>4, <1>5, <1>6 DEF Wires

\* A thread that waits for nothing goes elsewhere.
LEMMA IdleMoves ==
  ASSUME ThreadTypes, NetTypes, Wires, NEW t \in Threads, ~ Waiting(t),
         NEW p \in Places \ {"posted", "put"}, pc' = [pc EXCEPT ![t] = p],
         UNCHANGED <<net, serving, reply>>
  PROVE  Wires'
<1> USE Messages DEF ThreadTypes, NetTypes, Owners
<1>1. pc[t] \notin {"posted", "put"}
  BY DEF Waiting
<1>2. serving # t /\ \A n \in net : n.owner # t
  BY <1>1 DEF Wires
<1>3. \A u \in Threads : ~ Waiting(u)' => reply'[u] = None
  BY DEF Wires, Waiting
<1>4. serving' # None => pc'[serving'] = "posted" /\ reply'[serving'] = None
  BY <1>2 DEF Wires
<1>5. ASSUME NEW n \in net', n.owner # None
      PROVE  /\ pc'[n.owner] = IF n.kind = "telemetry" THEN "posted" ELSE "put"
             /\ reply'[n.owner] = None /\ serving' # n.owner
  BY <1>2, <1>5 DEF Wires
<1>6. \A n, k \in net' : n.owner = k.owner /\ n.owner # None => n = k
  BY DEF Wires
<1> QED  BY <1>3, <1>4, <1>5, <1>6 DEF Wires

\* A thread stops waiting, its request and its answer, if any, are gone.
LEMMA StopsWaiting ==
  ASSUME ThreadTypes, NetTypes, Wires, NEW t \in Threads,
         NEW p \in Places \ {"posted", "put"}, pc' = [pc EXCEPT ![t] = p],
         \A m \in net' : m.owner # None => m \in net /\ m.owner # t,
         serving' \in {serving, None} /\ serving' # t,
         reply' = [reply EXCEPT ![t] = None]
  PROVE  Wires'
<1> USE Messages DEF ThreadTypes, NetTypes, Owners
<1>3. \A u \in Threads : ~ Waiting(u)' => reply'[u] = None
  BY DEF Wires, Waiting
<1>4. serving' # None => pc'[serving'] = "posted" /\ reply'[serving'] = None
  BY DEF Wires
<1>5. ASSUME NEW n \in net', n.owner # None
      PROVE  /\ pc'[n.owner] = IF n.kind = "telemetry" THEN "posted" ELSE "put"
             /\ reply'[n.owner] = None /\ serving' # n.owner
  BY <1>5 DEF Wires
<1>6. \A n, k \in net' : n.owner = k.owner /\ n.owner # None => n = k
  BY DEF Wires
<1> QED  BY <1>3, <1>4, <1>5, <1>6 DEF Wires

\* The host answers a request.
LEMMA AnswerArrives ==
  ASSUME ThreadTypes, NetTypes, Wires, NEW m \in net, NEW a \in Answers,
         Answer(m.owner, a), net' = net \ {m}, UNCHANGED <<pc, serving>>
  PROVE  Wires'
<1> USE Messages DEF ThreadTypes, NetTypes, Owners
<1>1. CASE m.owner = None
  BY <1>1 DEF Wires, Answer, Waiting
<1>2. CASE m.owner # None
  <2>1. /\ m.owner \in Threads /\ reply' = [reply EXCEPT ![m.owner] = a]
        /\ pc[m.owner] \in {"posted", "put"} /\ serving # m.owner
        /\ \A n \in net' : n.owner # m.owner
    BY <1>2 DEF Wires, Answer
  <2>3. \A u \in Threads : ~ Waiting(u)' => reply'[u] = None
    BY <2>1 DEF Wires, Waiting
  <2>4. serving' # None => pc'[serving'] = "posted" /\ reply'[serving'] = None
    BY <2>1, Messages DEF Wires
  <2>5. ASSUME NEW n \in net', n.owner # None
        PROVE  /\ pc'[n.owner] = IF n.kind = "telemetry" THEN "posted" ELSE "put"
               /\ reply'[n.owner] = None /\ serving' # n.owner
    BY <2>1, <2>5 DEF Wires
  <2>6. \A n, k \in net' : n.owner = k.owner /\ n.owner # None => n = k
    BY DEF Wires
  <2> QED  BY <2>3, <2>4, <2>5, <2>6 DEF Wires
<1> QED  BY <1>1, <1>2

LEMMA WiresStep ==
  ASSUME StoreTypes,
         ThreadTypes,
         NetTypes,
         Wires,
         [Next]_vars
  PROVE  Wires'
<1>1. ASSUME UNCHANGED <<pc, net, serving, reply>>
      PROVE  Wires'
  BY <1>1 DEF Wires, Waiting
<1>2. ASSUME NEW t \in Threads, Read(t)
      PROVE  Wires'
  BY <1>2, IdleMoves DEF Read, netVars, Goto, Waiting, Places
<1>3. ASSUME NEW t \in Threads, Post(t)
      PROVE  Wires'
  <2> DEFINE m == [owner |-> t, kind |-> "telemetry", json |-> chunk[t].json, req |-> HeadersNow(t)]
  <2>1. /\ net' = net \cup {m} /\ pc[t] = "post" /\ pc' = [pc EXCEPT ![t] = "posted"]
        /\ UNCHANGED <<serving, reply>>
    BY <1>3 DEF Post, Goto
  <2>2. m.owner = t /\ m.kind = "telemetry"
    OBVIOUS
  <2> HIDE DEF m
  <2> QED  BY <2>1, <2>2, Sends DEF Waiting
<1>4. ASSUME NEW t \in Threads, Posted(t)
      PROVE  Wires'
  <2>1. /\ pc[t] = "posted" /\ reply[t] # None /\ reply' = [reply EXCEPT ![t] = None]
        /\ net' = net /\ serving' = serving
    BY <1>4 DEF Posted
  <2>2. serving # t /\ \A m \in net : m.owner # None => m.owner # t
    BY <2>1, Messages DEF Wires
  <2>3. PICK p \in {"progress", "tick", "done"} : pc' = [pc EXCEPT ![t] = p]
    BY <1>4 DEF Posted, Goto, Raised
  <2> QED  BY <2>1, <2>2, <2>3, StopsWaiting DEF Places
<1>5. ASSUME NEW t \in Threads, ProgressUnchanged(t)
      PROVE  Wires'
  <2>1. pc[t] = "progress" /\ UNCHANGED <<net, serving, reply>>
    BY <1>5 DEF ProgressUnchanged, netVars
  <2>2. PICK p \in {"tick", "done"} : pc' = [pc EXCEPT ![t] = p]
    BY <1>5 DEF ProgressUnchanged, EndOfTick, Goto, Raised, Returned
  <2> QED  BY <2>1, <2>2, IdleMoves DEF Waiting, Places
<1>6. ASSUME NEW t \in Threads, Put(t)
      PROVE  Wires'
  <2> DEFINE m == [owner |-> t, kind |-> "progress", snapshot |-> status]
  <2>1. /\ net' = net \cup {m} /\ pc[t] = "progress" /\ pc' = [pc EXCEPT ![t] = "put"]
        /\ UNCHANGED <<serving, reply>>
    BY <1>6 DEF Put, Goto
  <2>2. m.owner = t /\ m.kind = "progress"
    OBVIOUS
  <2> HIDE DEF m
  <2> QED  BY <2>1, <2>2, Sends DEF Waiting
<1>7. ASSUME NEW t \in Threads, Putted(t)
      PROVE  Wires'
  <2>1. /\ pc[t] = "put" /\ reply[t] # None /\ reply' = [reply EXCEPT ![t] = None]
        /\ net' = net /\ serving' = serving
    BY <1>7 DEF Putted
  <2>2. serving # t /\ \A m \in net : m.owner # None => m.owner # t
    BY <2>1, Messages DEF Wires
  <2>3. PICK p \in {"tick", "done"} : pc' = [pc EXCEPT ![t] = p]
    BY <1>7 DEF Putted, EndOfTick, Goto, Raised, Returned
  <2> QED  BY <2>1, <2>2, <2>3, StopsWaiting DEF Places
<1>8. ASSUME NEW t \in Threads, ConnectionReset(t)
      PROVE  Wires'
  <2>1. /\ reply[t] = None /\ net' = net /\ serving' = serving /\ serving # t
        /\ reply' = reply /\ \A m \in net : m.owner # t
    BY <1>8 DEF ConnectionReset, OwnRequests, netVars
  <2>2. reply' = [reply EXCEPT ![t] = None]
    BY <2>1 DEF NetTypes
  <2>3. PICK p \in {"tick", "done"} : pc' = [pc EXCEPT ![t] = p]
    BY <1>8 DEF ConnectionReset, Goto, Raised
  <2> QED  BY <2>1, <2>2, <2>3, StopsWaiting DEF Places
<1>9. ASSUME NEW t \in Threads, CallFails(t)
      PROVE  Wires'
  <2>1. reply' = [reply EXCEPT ![t] = None] /\ serving' \in {serving, None} /\ serving' # t
    BY <1>9, Messages DEF CallFails
  <2>2. ASSUME NEW m \in net', m.owner # None
        PROVE  m \in net /\ m.owner # t
    BY <1>9, <2>2, AbandonedFields DEF CallFails, OwnRequests
  <2>3. PICK p \in {"tick", "done"} : pc' = [pc EXCEPT ![t] = p]
    BY <1>9 DEF CallFails, Goto, Raised
  <2> QED  BY <2>1, <2>2, <2>3, StopsWaiting DEF Places
<1>10. ASSUME NEW o \in Shippers, LoopEnds(o)
      PROVE  Wires'
  <2>1. <<o, "loop">> \in Threads
    BY DEF Threads
  <2> QED  BY <1>10, <2>1, IdleMoves DEF LoopEnds, Goto, Waiting, Places, netVars
<1>11. ASSUME NEW o \in Shippers, DrainStarts(o)
      PROVE  Wires'
  <2>1. <<o, "stop">> \in Threads
    BY DEF Threads
  <2> QED  BY <1>11, <2>1, IdleMoves DEF DrainStarts, Goto, Waiting, Places, netVars
<1>12. ASSUME NEW o \in Shippers, DrainDeadline(o)
      PROVE  Wires'
  <2>1. <<o, "stop">> \in Threads
    BY DEF Threads
  <2> QED  BY <1>12, <2>1, IdleMoves DEF DrainDeadline, Goto, Waiting, Places, netVars
<1>13. ASSUME NEW o \in Shippers, Restart(o)
      PROVE  Wires'
  <2> DEFINE dead == {<<o, "loop">>, <<o, "stop">>}
  <2>1. /\ serving' \in {serving, None} /\ serving' \notin dead
        /\ \A u \in Threads : u \notin dead => pc'[u] = pc[u] /\ reply'[u] = reply[u]
        /\ \A u \in Threads : u \in dead => pc'[u] \notin {"posted", "put"} /\ reply'[u] = None
    BY <1>13, Messages DEF Restart, Threads
  <2>2. ASSUME NEW m \in net', m.owner # None
        PROVE  m \in net /\ m.owner \notin dead /\ m.owner \in Threads
    BY <1>13, <2>2, AbandonedFields, Messages DEF Restart
  <2> HIDE DEF dead
  <2>3. \A u \in Threads : ~ Waiting(u)' => reply'[u] = None
    BY <2>1 DEF Wires, Waiting
  <2>4. serving' # None => pc'[serving'] = "posted" /\ reply'[serving'] = None
    BY <2>1 DEF Wires, NetTypes, Owners
  <2>5. ASSUME NEW n \in net', n.owner # None
        PROVE  /\ pc'[n.owner] = IF n.kind = "telemetry" THEN "posted" ELSE "put"
               /\ reply'[n.owner] = None /\ serving' # n.owner
    BY <2>1, <2>2, <2>5 DEF Wires
  <2>6. \A n, k \in net' : n.owner = k.owner /\ n.owner # None => n = k
    BY <2>2 DEF Wires
  <2> QED  BY <2>3, <2>4, <2>5, <2>6 DEF Wires
<1>14. ASSUME NEW m \in net, HandleInvalid(m)
      PROVE  Wires'
  BY <1>14, AnswersGiven, AnswerArrives DEF HandleInvalid, threadVars
<1>15. ASSUME NEW m \in net, HandleMismatch(m)
      PROVE  Wires'
  <2>1. [code |-> 409, meta |-> Rebased(m.req)] \in Answers
    BY <1>15, ValidRequest, AnswersGiven DEF HandleMismatch
  <2> QED  BY <1>15, <2>1, AnswerArrives DEF HandleMismatch, threadVars
<1>16. ASSUME NEW m \in net, HandleAppend(m)
      PROVE  Wires'
  <2>1. /\ net' = net \ {m} /\ serving' = m.owner /\ pc' = pc /\ reply' = reply
        /\ m.kind = "telemetry"
    BY <1>16 DEF HandleAppend, threadVars
  <2> QED  BY <2>1, Messages DEF Wires, Waiting
<1>17. ASSUME NEW m \in net, HandleProgress(m)
      PROVE  Wires'
  BY <1>17, AnswersGiven, AnswerArrives DEF HandleProgress, threadVars
<1>18. CASE HandleCommit
  <2>1. /\ serving' = None /\ net' = net /\ pc' = pc
        /\ Answer(serving, [code |-> 200])
    BY <1>18 DEF HandleCommit, threadVars
  <2>2. CASE serving = None
    BY <2>1, <2>2 DEF Answer, Wires, Waiting
  <2>3. CASE serving # None
    BY <2>1, <2>3 DEF Answer, Wires, Waiting, NetTypes, Owners
  <2> QED  BY <2>2, <2>3
<1>19. CASE HostDies
  BY <1>19 DEF HostDies, threadVars, Wires, Waiting
<1>20. CASE \/ Tear
            \/ Rotate
            \/ WriteProgress
            \/ HandleDelete
            \/ UNCHANGED vars
  BY <1>1, <1>20 DEF Tear, storeVars, shipperVars, threadVars, netVars,
       counters, vars, Rotate, WriteProgress, HandleDelete, Delete
<1>21. ASSUME NEW o \in Shippers,
             StopCalled(o)
      PROVE  Wires'
  BY <1>1, <1>21 DEF StopCalled, storeVars, shipperVars, threadVars,
       netVars, counters, vars
<1>22. ASSUME NEW eol \in BOOLEAN,
             Write(eol)
      PROVE  Wires'
  BY <1>1, <1>22 DEF Write, storeVars, shipperVars, threadVars, netVars,
       counters, vars
<1> QED  BY <1>2, <1>3, <1>4, <1>5, <1>6, <1>7, <1>8, <1>9, <1>10, <1>11, <1>12,
         <1>13, <1>14, <1>15, <1>16, <1>17, <1>18, <1>19, <1>20, <1>21,
         <1>22
         DEF Next, SourceStep, ThreadStep, LifecycleStep, HostStep, Handle, Faults
-----------------------------------------------------------------------------
(* What a request says *)

LEMMA TelemetryPosts ==
  ASSUME NetTypes, NEW m \in Telemetry
  PROVE  /\ m \in net /\ m.req \in Request /\ m.kind = "telemetry"
         /\ m.req.offset \in Nat /\ m.req.next \in Nat /\ m.req.generation \in Nat
         /\ m.req.body.inc \in Nat /\ m.req.body.from \in Nat /\ m.req.body.upto \in Nat
<1>1. m \in net /\ m.req \in Request /\ m.kind = "telemetry"
  BY ValidRequest DEF Telemetry
<1>2. /\ m.req.offset \in Nat /\ m.req.next \in Nat /\ m.req.generation \in Nat
      /\ m.req.body \in Body
  BY <1>1 DEF Request
<1>3. m.req.body.inc \in Nat /\ m.req.body.from \in Nat /\ m.req.body.upto \in Nat
  BY <1>2 DEF Body
<1> QED  BY <1>1, <1>2, <1>3

LEMMA Posters ==
  ASSUME ThreadTypes, ShipperTypes, NEW t \in Threads, pc[t] \in {"post", "posted"}
  PROVE  /\ chunk[t] \in Chunks /\ Whole(chunk[t])
         /\ chunk[t].size \in Nat /\ chunk[t].end \in Nat
         /\ chunk[t].body.inc \in Nat /\ chunk[t].body.from \in Nat /\ chunk[t].body.upto \in Nat
         /\ t[1] \in Shippers /\ offset[t[1]] \in Nat /\ generation[t[1]] \in Nat
<1>1. chunk[t] \in Chunks /\ Whole(chunk[t])
  BY DEF ThreadTypes
<1>2. t[1] \in Shippers
  BY ThreadParts
<1> QED  BY <1>1, <1>2, ChunkFields DEF ShipperTypes

\* The bytes of a POST are the ones its headers declare.
LEMMA PostMatches ==
  ASSUME ThreadTypes, ShipperTypes, NEW t \in Threads, pc[t] = "post", ChunkMatches(t)
  PROVE  Matches(HeadersNow(t)) /\ HeadersNow(t).next = chunk[t].end
<1> DEFINE h == HeadersNow(t)
<1>1. /\ h.offset = offset[t[1]] /\ h.body = chunk[t].body
      /\ h.next = IF chunk[t].kind = "skip" THEN chunk[t].end
                  ELSE offset[t[1]] + (chunk[t].body.upto - chunk[t].body.from)
  BY HeadersTypes
<1>2. /\ Whole(chunk[t]) /\ chunk[t].end \in Nat /\ MaxChunk \in Nat \ {0}
      /\ chunk[t].body.from \in Nat /\ chunk[t].body.upto \in Nat
  BY Posters, ShippingAssumption
<1>3. /\ chunk[t].body.from = offset[t[1]]
      /\ chunk[t].kind = "skip" => chunk[t].end - chunk[t].body.from > MaxChunk
      /\ chunk[t].kind = "lines" => chunk[t].end = chunk[t].body.upto
  BY DEF ChunkMatches
<1> HIDE DEF h
<1> QED  BY <1>1, <1>2, <1>3 DEF Matches, Whole, h

\* A cut is still what its headers say.
LEMMA CutMatches ==
  ASSUME NEW r \in Request, NEW k \in r.offset .. r.next, EntryMatches(r)
  PROVE  EntryMatches(Cut(r, k)) /\ Cut(r, k).body.inc = r.body.inc
<1> DEFINE end == IF r.body.from = r.body.upto THEN r.offset ELSE k
           upto == r.body.from + (end - r.offset)
<1>1. /\ r.offset \in Nat /\ r.next \in Nat /\ r.body \in Body /\ r.generation \in Nat
  BY DEF Request
<1>2. r.body.from \in Nat /\ r.body.upto \in Nat /\ r.body.inc \in Nat
  BY <1>1 DEF Body
<1>3. end \in Nat /\ upto \in Nat
  BY <1>1, <1>2
<1>4. r.body.from = r.offset
  BY DEF EntryMatches
<1>5. upto = end
  BY <1>1, <1>2, <1>3, <1>4
<1> HIDE DEF end, upto
<1>6. PICK c : c = Cut(r, k)
  OBVIOUS
<1>7. c = [r EXCEPT !.next = end, !.body.upto = upto]
  BY <1>6 DEF Cut, end, upto
<1>8. c.next = end /\ c.offset = r.offset /\ c.body = [r.body EXCEPT !.upto = upto]
  BY <1>7 DEF Request
<1>9. c.body.from = r.body.from /\ c.body.inc = r.body.inc /\ c.body.upto = upto
  BY <1>1, <1>8 DEF Body
<1> QED  BY <1>4, <1>5, <1>6, <1>8, <1>9 DEF EntryMatches

LEMMA EntriesMatch ==
  ASSUME BodiesMatchHeaders, NEW i \in DOMAIN log
  PROVE  EntryMatches(log[i])
BY DEF BodiesMatchHeaders, EntryMatches

\* No POST but a thread's own depends on its offset.
LEMMA PostersKept ==
  ASSUME OneBusy, ThreadTypes, ShipperTypes, Bodies,
         NEW t \in Threads, pc[t] \notin {"off", "done"},
         \A u \in Threads : u # t => pc'[u] = pc[u] /\ chunk'[u] = chunk[u],
         \A o \in Shippers : o # t[1] => offset'[o] = offset[o],
         pc'[t] = "post" => ChunkMatches(t)',
         NEW u \in Threads, pc'[u] = "post"
  PROVE  ChunkMatches(u)'
<1>1. CASE u = t
  BY <1>1
<1>2. CASE u # t
  <2>1. pc[u] = "post" /\ chunk'[u] = chunk[u]
    BY <1>2
  <2>2. u[1] # t[1] /\ u[1] \in Shippers
    BY <1>2, <2>1, OnlyRunning, ThreadParts
  <2>3. ChunkMatches(u)
    BY <2>1 DEF Bodies
  <2> QED  BY <2>1, <2>2, <2>3 DEF ChunkMatches
<1> QED  BY <1>1, <1>2

LEMMA BodiesStep ==
  ASSUME StoreTypes,
         Writing,
         FileTypes,
         ShipperTypes,
         ThreadTypes,
         NetTypes,
         OneBusy,
         Bodies,
         [Next]_vars
  PROVE  Bodies'
<1>1. ASSUME UNCHANGED <<log, offset, pc, chunk, net>>
      PROVE  Bodies'
  BY <1>1 DEF Bodies, BodiesMatchHeaders, Matches, ChunkMatches, Telemetry
<1>2. ASSUME NEW t \in Threads, Read(t)
      PROVE  Bodies'
  <2> DEFINE from == IF Live.size < offset[t[1]] THEN 0 ELSE offset[t[1]]
  <2>1. from \in Nat /\ t[1] \in Shippers
    BY ThreadParts DEF ShipperTypes
  <2>2. /\ pc' = [pc EXCEPT ![t] = IF ChunkAt(from) = NoChunk THEN "progress" ELSE "post"]
        /\ chunk' = [chunk EXCEPT ![t] = ChunkAt(from)] /\ offset' = [offset EXCEPT ![t[1]] = from]
        /\ pc[t] = "tick" /\ log' = log /\ net' = net
    BY <1>2, Zenon DEF Read, Goto, storeVars, netVars
  <2> HIDE DEF from
  <2>3. ASSUME pc'[t] = "post"
        PROVE  ChunkMatches(t)'
    <3>1. ChunkAt(from) # NoChunk /\ chunk'[t] = ChunkAt(from) /\ offset'[t[1]] = from
      BY <2>1, <2>2, <2>3 DEF ThreadTypes, ShipperTypes
    <3>2. /\ ChunkAt(from).body.from = from
          /\ ChunkAt(from).kind = "skip" => ChunkAt(from).end - from > MaxChunk
          /\ ChunkAt(from).kind = "lines" => ChunkAt(from).end = ChunkAt(from).body.upto
      BY <2>1, <3>1, ChunkTypes
    <3>3. PICK c : c = ChunkAt(from)
      OBVIOUS
    <3> QED  BY <3>1, <3>2, <3>3 DEF ChunkMatches
  <2>4. /\ \A u \in Threads : u # t => pc'[u] = pc[u] /\ chunk'[u] = chunk[u]
        /\ \A o \in Shippers : o # t[1] => offset'[o] = offset[o]
    BY <2>2 DEF ThreadTypes, ShipperTypes
  <2>5. \A u \in Threads : pc'[u] = "post" => ChunkMatches(u)'
    BY <2>2, <2>3, <2>4, PostersKept
  <2> QED  BY <2>2, <2>5 DEF Bodies, BodiesMatchHeaders, Matches, Telemetry
<1>3. ASSUME NEW t \in Threads, Post(t)
      PROVE  Bodies'
  <2> DEFINE m == [owner |-> t, kind |-> "telemetry", json |-> chunk[t].json, req |-> HeadersNow(t)]
  <2>1. /\ pc[t] = "post" /\ pc' = [pc EXCEPT ![t] = "posted"] /\ net' = net \cup {m}
        /\ chunk' = [chunk EXCEPT ![t].end = HeadersNow(t).next] /\ offset' = offset /\ log' = log
    BY <1>3 DEF Post, Goto, storeVars, shipperVars
  <2>2. ChunkMatches(t)
    BY <2>1 DEF Bodies
  <2>3. Matches(HeadersNow(t))
    BY <2>1, <2>2, PostMatches
  <2>4. m.req = HeadersNow(t)
    OBVIOUS
  <2> HIDE DEF m
  <2>5. \A n \in Telemetry' : n \in Telemetry \/ n.req = HeadersNow(t)
    BY <2>1, <2>4 DEF Telemetry
  <2>6. PICK h : h = HeadersNow(t)
    OBVIOUS
  <2>7. \A n \in Telemetry' : Matches(n.req)'
    BY <2>3, <2>5, <2>6 DEF Matches, Bodies
  <2>8. \A u \in Threads : pc'[u] = "post" => u # t /\ pc[u] = "post" /\ chunk'[u] = chunk[u]
    BY <2>1 DEF ThreadTypes
  <2>9. \A u \in Threads : pc'[u] = "post" => ChunkMatches(u)'
    BY <2>1, <2>8 DEF Bodies, ChunkMatches
  <2> QED  BY <2>1, <2>7, <2>9 DEF Bodies, BodiesMatchHeaders
<1>4. ASSUME NEW t \in Threads, Posted(t)
      PROVE  Bodies'
  <2>1. pc[t] \notin {"off", "done"} /\ pc'[t] # "post"
        /\ \A u \in Threads : u # t => pc'[u] = pc[u] /\ chunk'[u] = chunk[u]
    BY <1>4 DEF Posted, Goto, ThreadTypes, Waiting, Raised, Returned, EndOfTick
  <2>2. \A o \in Shippers : o # t[1] => offset'[o] = offset[o]
    BY <1>4 DEF Posted, ShipperTypes, shipperVars
  <2>3. \A u \in Threads : pc'[u] = "post" => ChunkMatches(u)'
    BY <2>1, <2>2, PostersKept
  <2>4. log' = log /\ \A m \in Telemetry' : \E n \in Telemetry : m.req = n.req
    BY <1>4 DEF Posted, storeVars, netVars, Telemetry
  <2> QED  BY <2>3, <2>4 DEF Bodies, BodiesMatchHeaders, Matches
<1>5. ASSUME NEW t \in Threads, ProgressUnchanged(t)
      PROVE  Bodies'
  <2>1. \A u \in Threads : pc'[u] = "post" => pc[u] = "post"
    BY <1>5 DEF ProgressUnchanged, Goto, ThreadTypes, EndOfTick, Raised, Returned
  <2>2. log' = log /\ net' = net /\ chunk' = chunk /\ offset' = offset
    BY <1>5 DEF ProgressUnchanged, storeVars, netVars, shipperVars
  <2> QED  BY <2>1, <2>2 DEF Bodies, BodiesMatchHeaders, Matches, ChunkMatches, Telemetry
<1>6. ASSUME NEW t \in Threads, Put(t)
      PROVE  Bodies'
  <2>1. pc[t] \notin {"off", "done"} /\ pc'[t] # "post"
        /\ \A u \in Threads : u # t => pc'[u] = pc[u] /\ chunk'[u] = chunk[u]
    BY <1>6 DEF Put, Goto, ThreadTypes, Waiting, Raised, Returned, EndOfTick
  <2>2. \A o \in Shippers : o # t[1] => offset'[o] = offset[o]
    BY <1>6 DEF Put, ShipperTypes, shipperVars
  <2>3. \A u \in Threads : pc'[u] = "post" => ChunkMatches(u)'
    BY <2>1, <2>2, PostersKept
  <2>4. log' = log /\ \A m \in Telemetry' : \E n \in Telemetry : m.req = n.req
    <3>1. PICK n : n = [owner |-> t, kind |-> "progress", snapshot |-> status]
      OBVIOUS
    <3>2. n.kind = "progress" /\ net' = net \cup {n} /\ log' = log
      BY <1>6, <3>1 DEF Put, storeVars
    <3> QED  BY <3>2 DEF Telemetry
  <2> QED  BY <2>3, <2>4 DEF Bodies, BodiesMatchHeaders, Matches
<1>7. ASSUME NEW t \in Threads, Putted(t)
      PROVE  Bodies'
  <2>1. pc[t] \notin {"off", "done"} /\ pc'[t] # "post"
        /\ \A u \in Threads : u # t => pc'[u] = pc[u] /\ chunk'[u] = chunk[u]
    BY <1>7 DEF Putted, Goto, ThreadTypes, Waiting, Raised, Returned, EndOfTick
  <2>2. \A o \in Shippers : o # t[1] => offset'[o] = offset[o]
    BY <1>7 DEF Putted, ShipperTypes, shipperVars
  <2>3. \A u \in Threads : pc'[u] = "post" => ChunkMatches(u)'
    BY <2>1, <2>2, PostersKept
  <2>4. log' = log /\ \A m \in Telemetry' : \E n \in Telemetry : m.req = n.req
    BY <1>7 DEF Putted, storeVars, netVars, Telemetry
  <2> QED  BY <2>3, <2>4 DEF Bodies, BodiesMatchHeaders, Matches
<1>8. ASSUME NEW t \in Threads, ConnectionReset(t)
      PROVE  Bodies'
  <2>1. pc[t] \notin {"off", "done"} /\ pc'[t] # "post"
        /\ \A u \in Threads : u # t => pc'[u] = pc[u] /\ chunk'[u] = chunk[u]
    BY <1>8 DEF ConnectionReset, Goto, ThreadTypes, Waiting, Raised, Returned, EndOfTick
  <2>2. \A o \in Shippers : o # t[1] => offset'[o] = offset[o]
    BY <1>8 DEF ConnectionReset, ShipperTypes, shipperVars
  <2>3. \A u \in Threads : pc'[u] = "post" => ChunkMatches(u)'
    BY <2>1, <2>2, PostersKept
  <2>4. log' = log /\ \A m \in Telemetry' : \E n \in Telemetry : m.req = n.req
    BY <1>8 DEF ConnectionReset, storeVars, netVars, Telemetry
  <2> QED  BY <2>3, <2>4 DEF Bodies, BodiesMatchHeaders, Matches
<1>9. ASSUME NEW t \in Threads, CallFails(t)
      PROVE  Bodies'
  <2>1. pc[t] \notin {"off", "done"} /\ pc'[t] # "post"
        /\ \A u \in Threads : u # t => pc'[u] = pc[u] /\ chunk'[u] = chunk[u]
    BY <1>9 DEF CallFails, Goto, ThreadTypes, Waiting, Raised, Returned, EndOfTick
  <2>2. \A o \in Shippers : o # t[1] => offset'[o] = offset[o]
    BY <1>9 DEF CallFails, ShipperTypes, shipperVars
  <2>3. \A u \in Threads : pc'[u] = "post" => ChunkMatches(u)'
    BY <2>1, <2>2, PostersKept
  <2>4. log' = log /\ \A m \in Telemetry' : \E n \in Telemetry : m.req = n.req
    <3>1. log' = log /\ net' \subseteq net \cup {Abandoned(m) : m \in net}
      BY <1>9 DEF CallFails, OwnRequests, storeVars
    <3>2. ASSUME NEW m \in Telemetry'
          PROVE  \E n \in Telemetry : m.req = n.req
      <4>1. PICK n \in net : m = n \/ m = Abandoned(n)
        BY <3>1, <3>2 DEF Telemetry
      <4> QED  BY <3>2, <4>1, AbandonedFields DEF Telemetry
    <3> QED  BY <3>1, <3>2
  <2> QED  BY <2>3, <2>4 DEF Bodies, BodiesMatchHeaders, Matches
<1>10. ASSUME NEW o \in Shippers, LoopEnds(o)
      PROVE  Bodies'
  <2>1. \A u \in Threads : pc'[u] = "post" => pc[u] = "post"
    BY <1>10 DEF LoopEnds, Goto, ThreadTypes, EndOfTick, Raised, Returned
  <2>2. log' = log /\ net' = net /\ chunk' = chunk /\ offset' = offset
    BY <1>10 DEF LoopEnds, storeVars, netVars, shipperVars
  <2> QED  BY <2>1, <2>2 DEF Bodies, BodiesMatchHeaders, Matches, ChunkMatches, Telemetry
<1>11. ASSUME NEW o \in Shippers, DrainStarts(o)
      PROVE  Bodies'
  <2>1. \A u \in Threads : pc'[u] = "post" => pc[u] = "post"
    BY <1>11 DEF DrainStarts, Goto, ThreadTypes, EndOfTick, Raised, Returned
  <2>2. log' = log /\ net' = net /\ chunk' = chunk /\ offset' = offset
    BY <1>11 DEF DrainStarts, storeVars, netVars, shipperVars
  <2> QED  BY <2>1, <2>2 DEF Bodies, BodiesMatchHeaders, Matches, ChunkMatches, Telemetry
<1>12. ASSUME NEW o \in Shippers, DrainDeadline(o)
      PROVE  Bodies'
  <2>1. \A u \in Threads : pc'[u] = "post" => pc[u] = "post"
    BY <1>12 DEF DrainDeadline, Goto, ThreadTypes, EndOfTick, Raised, Returned
  <2>2. log' = log /\ net' = net /\ chunk' = chunk /\ offset' = offset
    BY <1>12 DEF DrainDeadline, storeVars, netVars, shipperVars
  <2> QED  BY <2>1, <2>2 DEF Bodies, BodiesMatchHeaders, Matches, ChunkMatches, Telemetry
<1>13. ASSUME NEW o \in Shippers, Restart(o)
      PROVE  Bodies'
  <2>1. ASSUME NEW u \in Threads, pc'[u] = "post"
        PROVE  pc[u] = "post" /\ chunk'[u] = chunk[u] /\ offset'[u[1]] = offset[u[1]]
    <3>1. u \notin {<<o, "loop">>, <<o, "stop">>}
      BY <1>13, <2>1 DEF Restart
    <3>2. u[1] # o /\ u[1] \in Shippers
      BY <3>1, ThreadParts
    <3> QED  BY <1>13, <2>1, <3>1, <3>2 DEF Restart, ShipperTypes
  <2>2. log' = log /\ net' \subseteq net \cup {Abandoned(m) : m \in net}
    BY <1>13 DEF Restart, storeVars
  <2>3. ASSUME NEW m \in Telemetry'
        PROVE  \E n \in Telemetry : m.req = n.req
    <3>1. PICK n \in net : m = n \/ m = Abandoned(n)
      BY <2>2, <2>3 DEF Telemetry
    <3> QED  BY <2>3, <3>1, AbandonedFields DEF Telemetry
  <2> QED  BY <2>1, <2>2, <2>3 DEF Bodies, BodiesMatchHeaders, Matches, ChunkMatches
<1>14. ASSUME NEW m \in net, HandleInvalid(m)
      PROVE  Bodies'
  <2>1. log' = log /\ net' \subseteq net /\ chunk' = chunk /\ offset' = offset /\ pc' = pc
    BY <1>14 DEF HandleInvalid, storeVars, threadVars, shipperVars, PutProgress
  <2> QED  BY <2>1 DEF Bodies, BodiesMatchHeaders, Matches, ChunkMatches, Telemetry
<1>15. ASSUME NEW m \in net, HandleMismatch(m)
      PROVE  Bodies'
  <2>1. log' = log /\ net' \subseteq net /\ chunk' = chunk /\ offset' = offset /\ pc' = pc
    BY <1>15 DEF HandleMismatch, storeVars, threadVars, shipperVars, PutProgress
  <2> QED  BY <2>1 DEF Bodies, BodiesMatchHeaders, Matches, ChunkMatches, Telemetry
<1>16. ASSUME NEW m \in net, HandleAppend(m)
      PROVE  Bodies'
  <2>1. /\ log' = Append(log, m.req) /\ net' \subseteq net /\ chunk' = chunk /\ offset' = offset /\ pc' = pc
    BY <1>16 DEF HandleAppend, AppendBody, threadVars, shipperVars
  <2>2. m \in Telemetry /\ m.req \in Request
    BY <1>16, ValidRequest DEF HandleAppend, Telemetry
  <2>3. EntryMatches(m.req)
    BY <2>2 DEF Bodies, Matches, EntryMatches
  <2>4. \A i \in DOMAIN log' : EntryMatches(log'[i])
    <3>1. log \in Seq(Request)
      BY DEF StoreTypes
    <3>2. PICK r \in Request : r = m.req
      BY <2>2
    <3> QED  BY <2>1, <2>3, <3>1, <3>2, AppendKeeps, EntriesMatch, AppendProperties DEF Bodies
  <2>5. BodiesMatchHeaders'
    BY <2>4 DEF BodiesMatchHeaders, EntryMatches
  <2> QED  BY <2>1, <2>5 DEF Bodies, Matches, ChunkMatches, Telemetry
<1>17. ASSUME NEW m \in net, HandleProgress(m)
      PROVE  Bodies'
  <2>1. log' = log /\ net' \subseteq net /\ chunk' = chunk /\ offset' = offset /\ pc' = pc
    BY <1>17 DEF HandleProgress, storeVars, threadVars, shipperVars, PutProgress
  <2> QED  BY <2>1 DEF Bodies, BodiesMatchHeaders, Matches, ChunkMatches, Telemetry
<1>18. CASE HostDies
  <2>1. net' = {} /\ chunk' = chunk /\ offset' = offset /\ pc' = pc /\ LoseMeta
    BY <1>18 DEF HostDies, threadVars, shipperVars
  <2>2. PICK k \in pending.offset .. pending.next : log' = [log EXCEPT ![Len(log)] = Cut(pending, k)]
    BY <2>1 DEF LoseMeta
  <2>3. pending \in Request /\ log \in Seq(Request) /\ Len(log) \in DOMAIN log /\ log[Len(log)] = pending
    BY <2>1, LenProperties DEF LoseMeta, Unlocked, Writing, StoreTypes
  <2>4. EntryMatches(Cut(pending, k))
    BY <2>3, CutMatches, EntriesMatch DEF Bodies
  <2>5. \A i \in DOMAIN log' : EntryMatches(log'[i])
    BY <2>2, <2>3, <2>4, EntriesMatch DEF Bodies
  <2>6. BodiesMatchHeaders'
    BY <2>5 DEF BodiesMatchHeaders, EntryMatches
  <2> QED  BY <2>1, <2>6 DEF Bodies, Telemetry, ChunkMatches
<1>19. CASE HandleDelete
  <2>1. log' = <<>> /\ net' = net /\ chunk' = chunk /\ offset' = offset /\ pc' = pc
    BY <1>19 DEF HandleDelete, Delete, threadVars, shipperVars, netVars
  <2> QED  BY <2>1 DEF Bodies, BodiesMatchHeaders, Matches, ChunkMatches, Telemetry
<1>20. CASE \/ Tear
            \/ Rotate
            \/ WriteProgress
            \/ HandleCommit
            \/ UNCHANGED vars
  BY <1>1, <1>20 DEF Tear, storeVars, shipperVars, threadVars, netVars,
       counters, vars, Rotate, WriteProgress, HandleCommit, CommitMeta
<1>21. ASSUME NEW o \in Shippers,
             StopCalled(o)
      PROVE  Bodies'
  BY <1>1, <1>21 DEF StopCalled, storeVars, shipperVars, threadVars,
       netVars, counters, vars
<1>22. ASSUME NEW eol \in BOOLEAN,
             Write(eol)
      PROVE  Bodies'
  BY <1>1, <1>22 DEF Write, storeVars, shipperVars, threadVars, netVars,
       counters, vars
<1> QED  BY <1>2, <1>3, <1>4, <1>5, <1>6, <1>7, <1>8, <1>9, <1>10, <1>11, <1>12,
         <1>13, <1>14, <1>15, <1>16, <1>17, <1>18, <1>19, <1>20, <1>21,
         <1>22
         DEF Next, SourceStep, ThreadStep, LifecycleStep, HostStep, Handle, Faults
-----------------------------------------------------------------------------
(* What a thread remembers of its request *)

RemembersRequest(m) ==
  IF m.kind = "telemetry"
  THEN /\ m.req.generation = generation[m.owner[1]]
       /\ m.req.offset = offset[m.owner[1]]
       /\ m.req.next = chunk[m.owner].end
  ELSE m.snapshot = chunk[m.owner].snapshot

RemembersWrite ==
  /\ pending # None
  /\ pending.generation = generation[serving[1]] /\ pending.next = chunk[serving].end

\* Only a shipper's running thread disturbs its memory.
LEMMA MemoryKept ==
  ASSUME OneBusy, ThreadTypes, NetTypes, Wires, Remembered,
         NEW t \in Threads, pc[t] \notin {"off", "done"},
         \A m \in net' : m.owner # None => m \in net /\ m.owner # t,
         serving' \in {serving, None}, serving' # t, pending' = pending,
         \A u \in Threads : u # t => chunk'[u] = chunk[u],
         \A o \in Shippers : o # t[1] => offset'[o] = offset[o] /\ generation'[o] = generation[o]
  PROVE  Remembered'
<1>1. ASSUME NEW u \in Threads, u # t, pc[u] \in {"posted", "put"}
      PROVE  /\ chunk'[u] = chunk[u] /\ offset'[u[1]] = offset[u[1]]
             /\ generation'[u[1]] = generation[u[1]]
  <2>1. u[1] # t[1] /\ u[1] \in Shippers
    BY <1>1, OnlyRunning, ThreadParts
  <2> QED  BY <1>1, <2>1
<1>2. ASSUME NEW m \in net', m.owner # None
      PROVE  RemembersRequest(m)'
  <2>1. m \in net /\ m.owner # t /\ m.owner \in Threads /\ pc[m.owner] \in {"posted", "put"}
    BY <1>2, Messages DEF Wires
  <2>2. RemembersRequest(m)
    BY <1>2, <2>1 DEF Remembered, RemembersRequest
  <2> QED  BY <1>1, <2>1, <2>2 DEF RemembersRequest
<1>3. ASSUME serving' # None
      PROVE  RemembersWrite'
  <2>1. serving' = serving /\ serving \in Threads /\ serving # t /\ pc[serving] = "posted"
    BY <1>3 DEF Wires, NetTypes, Owners
  <2>2. RemembersWrite
    BY <1>3, <2>1 DEF Remembered, RemembersWrite
  <2> QED  BY <1>1, <2>1, <2>2 DEF RemembersWrite
<1> QED  BY <1>2, <1>3 DEF Remembered, RemembersRequest, RemembersWrite

\* A thread sends, and remembers it.
LEMMA MemoryGained ==
  ASSUME OneBusy, ThreadTypes, NetTypes, Wires, Remembered,
         NEW t \in Threads, pc[t] \notin {"off", "done", "posted", "put"},
         NEW n, n.owner = t, net' = net \cup {n}, RemembersRequest(n)',
         UNCHANGED <<serving, pending, offset, generation>>,
         \A u \in Threads : u # t => chunk'[u] = chunk[u]
  PROVE  Remembered'
<1>1. /\ serving # t
      /\ \A m \in net : m.owner # None => m.owner # t /\ m.owner \in Threads
  BY Messages DEF Wires, NetTypes, Owners
<1>2. ASSUME NEW m \in net', m.owner # None
      PROVE  RemembersRequest(m)'
  <2>1. CASE m = n
    BY <2>1
  <2>2. CASE m # n
    <3>1. m \in net /\ m.owner # t /\ m.owner \in Threads
      BY <1>1, <1>2, <2>2
    <3>2. RemembersRequest(m)
      BY <1>2, <3>1 DEF Remembered, RemembersRequest
    <3> QED  BY <3>1, <3>2 DEF RemembersRequest
  <2> QED  BY <2>1, <2>2
<1>3. ASSUME serving' # None
      PROVE  RemembersWrite'
  BY <1>1, <1>3 DEF Remembered, RemembersWrite, NetTypes, Owners
<1> QED  BY <1>2, <1>3 DEF Remembered, RemembersRequest, RemembersWrite

LEMMA RememberedStep ==
  ASSUME ShipperTypes,
         ThreadTypes,
         NetTypes,
         OneBusy,
         Wires,
         Remembered,
         [Next]_vars
  PROVE  Remembered'
<1>1. ASSUME UNCHANGED <<pending, offset, generation, chunk, net, serving>>
      PROVE  Remembered'
  BY <1>1 DEF Remembered
<1>2. ASSUME NEW t \in Threads, Read(t)
      PROVE  Remembered'
  <2>1. pc[t] \notin {"off", "done"} /\ \A u \in Threads : u # t => chunk'[u] = chunk[u]
    BY <1>2 DEF Read, ThreadTypes, Waiting
  <2>2. /\ \A o \in Shippers : o # t[1] => offset'[o] = offset[o] /\ generation'[o] = generation[o]
        /\ pending' = pending
    BY <1>2 DEF Read, ShipperTypes, shipperVars, storeVars
  <2>3. /\ \A m \in net' : m.owner # None => m \in net /\ m.owner # t
        /\ serving' \in {serving, None} /\ serving' # t
    BY <1>2, Messages DEF Read, netVars, Wires
  <2> QED  BY <2>1, <2>2, <2>3, MemoryKept
<1>3. ASSUME NEW t \in Threads, Post(t)
      PROVE  Remembered'
  <2> DEFINE m == [owner |-> t, kind |-> "telemetry", json |-> chunk[t].json, req |-> HeadersNow(t)]
  <2>1. /\ pc[t] = "post" /\ net' = net \cup {m}
        /\ chunk' = [chunk EXCEPT ![t].end = HeadersNow(t).next]
        /\ UNCHANGED <<serving, pending, offset, generation>>
    BY <1>3 DEF Post, storeVars, shipperVars
  <2>2. chunk[t] \in Chunks /\ Whole(chunk[t]) /\ HeadersNow(t).next \in Nat
    BY <2>1, HeadersTypes DEF ThreadTypes, Request
  <2>3. chunk'[t] = [chunk[t] EXCEPT !.end = HeadersNow(t).next]
        /\ \A u \in Threads : u # t => chunk'[u] = chunk[u]
    BY <2>1 DEF ThreadTypes
  <2>4. chunk'[t].end = HeadersNow(t).next
    BY <2>2, <2>3, EndSet
  <2>5. HeadersNow(t).offset = offset[t[1]] /\ HeadersNow(t).generation = generation[t[1]]
    BY <2>1, HeadersTypes
  <2>6. m.owner = t /\ m.kind = "telemetry" /\ m.req = HeadersNow(t)
    OBVIOUS
  <2>7. PICK n : n = m
    OBVIOUS
  <2> HIDE DEF m
  <2>8. RemembersRequest(n)'
    BY <2>1, <2>4, <2>5, <2>6, <2>7 DEF RemembersRequest
  <2> QED  BY <2>1, <2>3, <2>6, <2>7, <2>8, MemoryGained
<1>4. ASSUME NEW t \in Threads, Posted(t)
      PROVE  Remembered'
  <2>1. pc[t] \notin {"off", "done"} /\ \A u \in Threads : u # t => chunk'[u] = chunk[u]
    BY <1>4 DEF Posted, ThreadTypes, Waiting
  <2>2. /\ \A o \in Shippers : o # t[1] => offset'[o] = offset[o] /\ generation'[o] = generation[o]
        /\ pending' = pending
    BY <1>4 DEF Posted, ShipperTypes, shipperVars, storeVars
  <2>3. /\ \A m \in net' : m.owner # None => m \in net /\ m.owner # t
        /\ serving' \in {serving, None} /\ serving' # t
    BY <1>4, Messages DEF Posted, Wires
  <2> QED  BY <2>1, <2>2, <2>3, MemoryKept
<1>5. ASSUME NEW t \in Threads, Put(t)
      PROVE  Remembered'
  <2>1. PICK n : n = [owner |-> t, kind |-> "progress", snapshot |-> status]
    OBVIOUS
  <2>2. /\ pc[t] = "progress" /\ net' = net \cup {n}
        /\ chunk' = [chunk EXCEPT ![t] = [kind |-> "progress", snapshot |-> status]]
        /\ UNCHANGED <<serving, pending, offset, generation>>
    BY <1>5, <2>1 DEF Put, storeVars, shipperVars
  <2>3. n.owner = t /\ n.kind = "progress" /\ n.snapshot = status
    BY <2>1
  <2>4. chunk'[t].snapshot = status /\ \A u \in Threads : u # t => chunk'[u] = chunk[u]
    BY <2>2 DEF ThreadTypes
  <2>5. RemembersRequest(n)'
    BY <2>3, <2>4 DEF RemembersRequest
  <2> QED  BY <2>2, <2>3, <2>4, <2>5, MemoryGained
<1>6. ASSUME NEW t \in Threads, Putted(t)
      PROVE  Remembered'
  <2>1. pc[t] \notin {"off", "done"} /\ \A u \in Threads : u # t => chunk'[u] = chunk[u]
    BY <1>6 DEF Putted, ThreadTypes, Waiting
  <2>2. /\ \A o \in Shippers : o # t[1] => offset'[o] = offset[o] /\ generation'[o] = generation[o]
        /\ pending' = pending
    BY <1>6 DEF Putted, ShipperTypes, shipperVars, storeVars
  <2>3. /\ \A m \in net' : m.owner # None => m \in net /\ m.owner # t
        /\ serving' \in {serving, None} /\ serving' # t
    BY <1>6, Messages DEF Putted, Wires
  <2> QED  BY <2>1, <2>2, <2>3, MemoryKept
<1>7. ASSUME NEW t \in Threads, ConnectionReset(t)
      PROVE  Remembered'
  <2>1. pc[t] \notin {"off", "done"} /\ \A u \in Threads : u # t => chunk'[u] = chunk[u]
    BY <1>7 DEF ConnectionReset, ThreadTypes, Waiting
  <2>2. /\ \A o \in Shippers : o # t[1] => offset'[o] = offset[o] /\ generation'[o] = generation[o]
        /\ pending' = pending
    BY <1>7 DEF ConnectionReset, ShipperTypes, shipperVars, storeVars
  <2>3. /\ \A m \in net' : m.owner # None => m \in net /\ m.owner # t
        /\ serving' \in {serving, None} /\ serving' # t
    BY <1>7 DEF ConnectionReset, OwnRequests, netVars
  <2> QED  BY <2>1, <2>2, <2>3, MemoryKept
<1>8. ASSUME NEW t \in Threads, CallFails(t)
      PROVE  Remembered'
  <2>1. pc[t] \notin {"off", "done"} /\ \A u \in Threads : u # t => chunk'[u] = chunk[u]
    BY <1>8 DEF CallFails, ThreadTypes, Waiting
  <2>2. /\ \A o \in Shippers : o # t[1] => offset'[o] = offset[o] /\ generation'[o] = generation[o]
        /\ pending' = pending
    BY <1>8 DEF CallFails, ShipperTypes, shipperVars, storeVars
  <2>3. /\ \A m \in net' : m.owner # None => m \in net /\ m.owner # t
        /\ serving' \in {serving, None} /\ serving' # t
    BY <1>8, AbandonedFields, Messages DEF CallFails, OwnRequests
  <2> QED  BY <2>1, <2>2, <2>3, MemoryKept
<1>9. ASSUME NEW o \in Shippers, Restart(o)
      PROVE  Remembered'
  <2> DEFINE dead == {<<o, "loop">>, <<o, "stop">>}
  <2>1. /\ serving' \in {serving, None} /\ serving' \notin dead /\ pending' = pending
        /\ \A u \in Threads : u \notin dead => chunk'[u] = chunk[u]
        /\ \A p \in Shippers : p # o => offset'[p] = offset[p] /\ generation'[p] = generation[p]
    BY <1>9, Messages DEF Restart, ShipperTypes, storeVars, Threads
  <2>2. ASSUME NEW m \in net', m.owner # None
        PROVE  m \in net /\ m.owner \notin dead /\ m.owner \in Threads
    BY <1>9, <2>2, AbandonedFields, Messages DEF Restart
  <2>3. ASSUME NEW u \in Threads, u \notin dead
        PROVE  /\ chunk'[u] = chunk[u] /\ offset'[u[1]] = offset[u[1]]
               /\ generation'[u[1]] = generation[u[1]]
    BY <2>1, <2>3, ThreadParts
  <2> HIDE DEF dead
  <2>4. ASSUME NEW m \in net', m.owner # None
        PROVE  RemembersRequest(m)'
    <3>1. RemembersRequest(m)
      BY <2>2, <2>4 DEF Remembered, RemembersRequest
    <3> QED  BY <2>2, <2>3, <2>4, <3>1 DEF RemembersRequest
  <2>5. ASSUME serving' # None
        PROVE  RemembersWrite'
    <3>1. serving' = serving /\ serving \in Threads /\ serving \notin dead
      BY <2>1, <2>5 DEF NetTypes, Owners
    <3>2. RemembersWrite
      BY <2>5, <3>1 DEF Remembered, RemembersWrite
    <3> QED  BY <2>1, <2>3, <3>1, <3>2 DEF RemembersWrite
  <2> QED  BY <2>4, <2>5 DEF Remembered, RemembersRequest, RemembersWrite
<1>10. ASSUME NEW m \in net, HandleInvalid(m)
      PROVE  Remembered'
  <2>1. /\ net' \subseteq net /\ pending' = pending
        /\ UNCHANGED <<offset, generation, chunk, serving>>
    BY <1>10 DEF HandleInvalid, storeVars, threadVars, shipperVars, PutProgress
  <2> QED  BY <2>1 DEF Remembered
<1>11. ASSUME NEW m \in net, HandleMismatch(m)
      PROVE  Remembered'
  <2>1. /\ net' \subseteq net /\ pending' = pending
        /\ UNCHANGED <<offset, generation, chunk, serving>>
    BY <1>11 DEF HandleMismatch, storeVars, threadVars, shipperVars, PutProgress
  <2> QED  BY <2>1 DEF Remembered
<1>12. ASSUME NEW m \in net, HandleAppend(m)
      PROVE  Remembered'
  <2>1. /\ net' \subseteq net /\ pending' = m.req /\ serving' = m.owner /\ m.kind = "telemetry"
        /\ UNCHANGED <<offset, generation, chunk>> /\ m.req \in Request
    BY <1>12, ValidRequest DEF HandleAppend, AppendBody, threadVars, shipperVars
  <2>2. m.req # None
    BY <2>1, NoneAssumption
  <2> QED  BY <2>1, <2>2 DEF Remembered
<1>13. ASSUME NEW m \in net, HandleProgress(m)
      PROVE  Remembered'
  <2>1. /\ net' \subseteq net /\ pending' = pending
        /\ UNCHANGED <<offset, generation, chunk, serving>>
    BY <1>13 DEF HandleProgress, storeVars, threadVars, shipperVars, PutProgress
  <2> QED  BY <2>1 DEF Remembered
<1>14. CASE HandleCommit
  BY <1>14 DEF HandleCommit, Remembered, threadVars, shipperVars
<1>15. CASE HostDies
  BY <1>15 DEF HostDies, Remembered, threadVars, shipperVars
<1>16. CASE \/ Tear
            \/ Rotate
            \/ WriteProgress
            \/ HandleDelete
            \/ UNCHANGED vars
  BY <1>1, <1>16 DEF Tear, storeVars, shipperVars, threadVars, netVars,
       counters, vars, Rotate, WriteProgress, HandleDelete, Delete
<1>17. ASSUME NEW t \in Threads,
             ProgressUnchanged(t)
      PROVE  Remembered'
  BY <1>1, <1>17 DEF ProgressUnchanged, EndOfTick, Goto, storeVars,
       shipperVars, threadVars, netVars, counters, vars
<1>18. ASSUME NEW o \in Shippers,
             LoopEnds(o) \/ DrainStarts(o) \/ StopCalled(o) \/ DrainDeadline(o)
      PROVE  Remembered'
  BY <1>1, <1>18 DEF LoopEnds, Goto, storeVars, shipperVars, threadVars,
       netVars, counters, vars, DrainStarts, StopCalled, DrainDeadline
<1>19. ASSUME NEW eol \in BOOLEAN,
             Write(eol)
      PROVE  Remembered'
  BY <1>1, <1>19 DEF Write, storeVars, shipperVars, threadVars, netVars,
       counters, vars
<1> QED  BY <1>2, <1>3, <1>4, <1>5, <1>6, <1>7, <1>8, <1>9, <1>10, <1>11, <1>12,
         <1>13, <1>14, <1>15, <1>16, <1>17, <1>18, <1>19
         DEF Next, SourceStep, ThreadStep, LifecycleStep, HostStep, Handle, Faults

-----------------------------------------------------------------------------
(* Bodies *)

\* What holds for any number of shippers.
Sound == Types /\ OneBusy /\ Wires /\ Bodies /\ Remembered

LEMMA SoundInit ==
  ASSUME Init
  PROVE  Sound
<1>1. Types
  BY TypesInit
<1>2. OneBusy
  BY DEF Init, OneBusy, Threads
<1>3. Wires /\ Remembered
  BY DEF Init, Wires, Remembered
<1>4. Bodies
  BY DEF Init, StoreInit, Bodies, BodiesMatchHeaders, Telemetry
<1> QED  BY <1>1, <1>2, <1>3, <1>4 DEF Sound

LEMMA SoundStep ==
  ASSUME ~ JoinMayTimeOut, Sound, [Next]_vars
  PROVE  Sound'
<1>1. Types'
  BY TypesStep DEF Sound
<1>2. OneBusy' /\ Wires' /\ Bodies' /\ Remembered'
  BY OneBusyStep, WiresStep, BodiesStep, RememberedStep DEF Sound, Types
<1> QED  BY <1>1, <1>2 DEF Sound

LEMMA SoundHolds ==
  ASSUME ~ JoinMayTimeOut
  PROVE  Spec => []Sound
<1>1. Init => Sound
  BY SoundInit
<1>2. Sound /\ [Next]_vars => Sound'
  BY SoundStep
<1> QED  BY <1>1, <1>2, PTL DEF Spec

-----------------------------------------------------------------------------
(* Progress goes forward *)

\* One shipper object tails the run.
Alone == \A o, p \in Shippers : o = p

LEMMA SnapshotNumbers ==
  ASSUME StoreTypes, FileTypes, ShipperTypes, ThreadTypes
  PROVE  /\ status \in Nat /\ Final \in Nat /\ None \notin Snapshots
         /\ progress # None => progress \in Nat
         /\ \A o \in Shippers : digest[o] \in Nat
         /\ \A t \in Threads : pc[t] = "put" => chunk[t].snapshot \in Nat
<1>1. \A t \in Threads : pc[t] = "put" => chunk[t].snapshot \in 1 .. Final
  BY SnapshotTypes DEF ThreadTypes
<1> QED  BY <1>1, ShippingAssumption, NoneAssumption DEF StoreTypes, FileTypes, ShipperTypes

\* Nothing about a PUT changes, except that it may be over.
LEMMA NewestKept ==
  ASSUME StoreTypes, FileTypes, ShipperTypes, ThreadTypes, Newest,
         status' \in {status, status + 1}, progress' = progress, digest' = digest,
         \A m \in net' : m.kind = "progress" => m.owner # None,
         \A t \in Threads : pc'[t] = "put" =>
           pc[t] = "put" /\ chunk'[t] = chunk[t] /\ (reply'[t] # None => reply[t] # None)
  PROVE  Newest'
BY SnapshotNumbers DEF Newest, Fresh

LEMMA ForwardStep ==
  ASSUME Alone,
         StoreTypes,
         FileTypes,
         ShipperTypes,
         ThreadTypes,
         NetTypes,
         CounterTypes,
         OneBusy,
         Wires,
         Remembered,
         Forward,
         [Next]_vars
  PROVE  Forward'
<1>1. ASSUME UNCHANGED <<progress, status, digest, pc, chunk, net, reply, stray, deletes>>
      PROVE  Forward'
  BY <1>1 DEF Forward, Newest, Fresh
<1>2. CASE WriteProgress
  <2>1. /\ status' = status + 1
        /\ UNCHANGED <<progress, digest, deletes, stray, pc, chunk, reply, net>>
    BY <1>2 DEF WriteProgress, storeVars, counters, threadVars, shipperVars, netVars
  <2> QED  BY <2>1, NewestKept DEF Forward, Newest
<1>3. ASSUME NEW t \in Threads, Read(t)
      PROVE  Forward'
  <2>1. \A u \in Threads : pc'[u] = "put" =>
          pc[u] = "put" /\ chunk'[u] = chunk[u] /\ (reply'[u] # None => reply[u] # None)
    <3>1. PICK p \in {"progress", "post"} : pc' = [pc EXCEPT ![t] = p]
      BY <1>3, Zenon DEF Read, Goto
    <3>2. PICK c : chunk' = [chunk EXCEPT ![t] = c]
      BY <1>3, Zenon DEF Read
    <3> QED  BY <1>3, <3>1, <3>2 DEF Read, ThreadTypes, netVars
  <2>2. /\ UNCHANGED <<status, progress, digest, deletes>> /\ net' = net /\ stray' = stray
    BY <1>3 DEF Read, storeVars, counters, netVars, shipperVars
  <2> QED  BY <2>1, <2>2, NewestKept DEF Forward, Newest
<1>4. ASSUME NEW t \in Threads, Post(t)
      PROVE  Forward'
  <2>1. \A u \in Threads : pc'[u] = "put" =>
          pc[u] = "put" /\ chunk'[u] = chunk[u] /\ (reply'[u] # None => reply[u] # None)
    BY <1>4 DEF Post, Goto, ThreadTypes
  <2>2. UNCHANGED <<status, progress, digest, deletes, stray>>
    BY <1>4 DEF Post, storeVars, counters, shipperVars
  <2>3. PICK n : n = [owner |-> t, kind |-> "telemetry", json |-> chunk[t].json, req |-> HeadersNow(t)]
    OBVIOUS
  <2>4. n.kind = "telemetry" /\ net' = net \cup {n}
    BY <1>4, <2>3 DEF Post
  <2> QED  BY <2>1, <2>2, <2>4, NewestKept DEF Forward, Newest
<1>5. ASSUME NEW t \in Threads, Posted(t)
      PROVE  Forward'
  <2>1. \A u \in Threads : pc'[u] = "put" =>
          pc[u] = "put" /\ chunk'[u] = chunk[u] /\ (reply'[u] # None => reply[u] # None)
    BY <1>5 DEF Posted, Goto, ThreadTypes, NetTypes, netVars, Raised, Returned, EndOfTick
  <2>2. /\ UNCHANGED <<status, progress, digest, deletes>> /\ net' = net /\ stray' = stray
    BY <1>5 DEF Posted, storeVars, counters, netVars, shipperVars
  <2> QED  BY <2>1, <2>2, NewestKept DEF Forward, Newest
<1>6. ASSUME NEW t \in Threads, ProgressUnchanged(t)
      PROVE  Forward'
  <2>1. \A u \in Threads : pc'[u] = "put" =>
          pc[u] = "put" /\ chunk'[u] = chunk[u] /\ (reply'[u] # None => reply[u] # None)
    BY <1>6 DEF ProgressUnchanged, Goto, ThreadTypes, NetTypes, netVars, Raised, Returned, EndOfTick
  <2>2. /\ UNCHANGED <<status, progress, digest, deletes>> /\ net' = net /\ stray' = stray
    BY <1>6 DEF ProgressUnchanged, storeVars, counters, netVars, shipperVars
  <2> QED  BY <2>1, <2>2, NewestKept DEF Forward, Newest
<1>7. ASSUME NEW t \in Threads, Put(t)
      PROVE  Forward'
  <2>1. PICK n : n = [owner |-> t, kind |-> "progress", snapshot |-> status]
    OBVIOUS
  <2>2. /\ net' = net \cup {n} /\ pc[t] = "progress" /\ pc' = [pc EXCEPT ![t] = "put"]
        /\ chunk' = [chunk EXCEPT ![t] = [kind |-> "progress", snapshot |-> status]]
        /\ UNCHANGED <<status, progress, digest, deletes, stray, reply>>
    BY <1>7, <2>1 DEF Put, Goto, storeVars, counters, shipperVars
  <2>3. n.owner = t /\ t # None
    BY <2>1, Messages
  <2>4. pc'[t] = "put" /\ chunk'[t].snapshot = status /\ reply'[t] = None
    BY <2>2 DEF ThreadTypes, Wires, Waiting
  <2>5. \A u \in Threads : u # t => pc'[u] = pc[u] /\ chunk'[u] = chunk[u]
    BY <2>2 DEF ThreadTypes
  <2>6. ASSUME Newest
        PROVE  Newest'
    <3>1. \A m \in net' : m.kind = "progress" => m.owner # None
      BY <2>2, <2>3, <2>6 DEF Newest
    <3>2. ASSUME NEW u \in Threads, pc'[u] = "put"
          PROVE  /\ Fresh(chunk[u].snapshot)' /\ chunk'[u].snapshot <= status'
                 /\ reply'[u] # None => progress' = chunk'[u].snapshot
      <4>1. CASE u = t
        BY <2>2, <2>4, <2>6, <4>1, SnapshotNumbers DEF Newest, Fresh
      <4>2. CASE u # t
        BY <2>2, <2>5, <2>6, <3>2, <4>2 DEF Newest, Fresh
      <4> QED  BY <4>1, <4>2
    <3> QED  BY <2>2, <2>6, <3>1, <3>2 DEF Newest
  <2> QED  BY <2>2, <2>6 DEF Forward
<1>8. ASSUME NEW t \in Threads, Putted(t)
      PROVE  Forward'
  <2>1. /\ pc[t] = "put" /\ reply[t] # None /\ digest' = [digest EXCEPT ![t[1]] = chunk[t].snapshot]
        /\ UNCHANGED <<status, progress, deletes, stray, net>>
    BY <1>8 DEF Putted, storeVars, counters
  <2>2. \A u \in Threads : pc'[u] = "put" =>
          pc[u] = "put" /\ chunk'[u] = chunk[u] /\ reply'[u] = reply[u]
    BY <1>8 DEF Putted, Goto, ThreadTypes, NetTypes, Raised, Returned, EndOfTick
  <2>3. ASSUME Newest
        PROVE  Newest'
    <3>1. progress = chunk[t].snapshot /\ chunk[t].snapshot \in Nat /\ progress # None
      <4>1. chunk[t].snapshot \in Snapshots
        BY <2>1, SnapshotTypes DEF ThreadTypes
      <4> QED  BY <2>1, <2>3, <4>1, SnapshotNumbers DEF Newest
    <3>2. \A o \in Shippers : digest'[o] # 0 => progress' # None /\ digest'[o] <= progress'
      BY <2>1, <2>3, <3>1 DEF Newest, ShipperTypes
    <3> QED  BY <2>1, <2>2, <2>3, <3>2 DEF Newest, Fresh
  <2> QED  BY <2>1, <2>3 DEF Forward
<1>9. ASSUME NEW t \in Threads, ConnectionReset(t)
      PROVE  Forward'
  <2>1. \A u \in Threads : pc'[u] = "put" =>
          pc[u] = "put" /\ chunk'[u] = chunk[u] /\ (reply'[u] # None => reply[u] # None)
    BY <1>9 DEF ConnectionReset, Goto, ThreadTypes, NetTypes, netVars, Raised, Returned, EndOfTick
  <2>2. /\ UNCHANGED <<status, progress, digest, deletes>> /\ net' = net /\ stray' = stray
    BY <1>9 DEF ConnectionReset, storeVars, counters, netVars, shipperVars
  <2> QED  BY <2>1, <2>2, NewestKept DEF Forward, Newest
<1>10. ASSUME NEW t \in Threads, CallFails(t)
      PROVE  Forward'
  <2>1. \A u \in Threads : pc'[u] = "put" =>
          pc[u] = "put" /\ chunk'[u] = chunk[u] /\ (reply'[u] # None => reply[u] # None)
    BY <1>10 DEF CallFails, Goto, ThreadTypes, NetTypes, Raised
  <2>2. UNCHANGED <<status, progress, digest, deletes>> /\ stray' = Strays({t})
    BY <1>10 DEF CallFails, storeVars, shipperVars
  <2>3. ASSUME ~ stray', Newest, NEW m \in net', m.kind = "progress"
        PROVE  m.owner # None
    <3>1. CASE m \in net
      BY <2>3, <3>1 DEF Newest
    <3>2. CASE m \notin net
      <4>1. PICK n \in OwnRequests(t) : m = Abandoned(n)
        BY <1>10, <2>3, <3>2 DEF CallFails, OwnRequests
      <4>2. n \in net /\ n.owner = t /\ n.kind = "progress"
        BY <2>3, <4>1, AbandonedFields DEF OwnRequests
      <4> QED  BY <2>2, <2>3, <4>1, <4>2 DEF Strays
    <3> QED  BY <3>1, <3>2
  <2>4. ~ stray' => ~ stray
    BY <2>2, Zenon DEF Strays
  <2> QED  BY <2>1, <2>2, <2>3, <2>4, NewestKept DEF Forward
<1>11. ASSUME NEW o \in Shippers, LoopEnds(o)
      PROVE  Forward'
  <2>1. \A u \in Threads : pc'[u] = "put" =>
          pc[u] = "put" /\ chunk'[u] = chunk[u] /\ (reply'[u] # None => reply[u] # None)
    BY <1>11 DEF LoopEnds, Goto, ThreadTypes, NetTypes, netVars, Raised, Returned, EndOfTick
  <2>2. /\ UNCHANGED <<status, progress, digest, deletes>> /\ net' = net /\ stray' = stray
    BY <1>11 DEF LoopEnds, storeVars, counters, netVars, shipperVars
  <2> QED  BY <2>1, <2>2, NewestKept DEF Forward, Newest
<1>12. ASSUME NEW o \in Shippers, DrainStarts(o)
      PROVE  Forward'
  <2>1. \A u \in Threads : pc'[u] = "put" =>
          pc[u] = "put" /\ chunk'[u] = chunk[u] /\ (reply'[u] # None => reply[u] # None)
    BY <1>12 DEF DrainStarts, Goto, ThreadTypes, NetTypes, netVars, Raised, Returned, EndOfTick
  <2>2. /\ UNCHANGED <<status, progress, digest, deletes>> /\ net' = net /\ stray' = stray
    BY <1>12 DEF DrainStarts, storeVars, counters, netVars, shipperVars
  <2> QED  BY <2>1, <2>2, NewestKept DEF Forward, Newest
<1>13. ASSUME NEW o \in Shippers, DrainDeadline(o)
      PROVE  Forward'
  <2>1. \A u \in Threads : pc'[u] = "put" =>
          pc[u] = "put" /\ chunk'[u] = chunk[u] /\ (reply'[u] # None => reply[u] # None)
    BY <1>13 DEF DrainDeadline, Goto, ThreadTypes, NetTypes, netVars, Raised, Returned, EndOfTick
  <2>2. /\ UNCHANGED <<status, progress, digest, deletes>> /\ net' = net /\ stray' = stray
    BY <1>13 DEF DrainDeadline, storeVars, counters, netVars, shipperVars
  <2> QED  BY <2>1, <2>2, NewestKept DEF Forward, Newest
<1>14. ASSUME NEW o \in Shippers, Restart(o)
      PROVE  Forward'
  <2> DEFINE dead == {<<o, "loop">>, <<o, "stop">>}
  <2>1. ASSUME NEW u \in Threads, pc'[u] = "put"
        PROVE  pc[u] = "put" /\ chunk'[u] = chunk[u] /\ reply'[u] = reply[u]
    BY <1>14, <2>1 DEF Restart
  <2>2. UNCHANGED <<status, progress, deletes>> /\ stray' = Strays(dead) /\ digest' = [digest EXCEPT ![o] = 0]
    BY <1>14 DEF Restart, storeVars
  <2>3. ASSUME ~ stray', Newest, NEW m \in net', m.kind = "progress"
        PROVE  m.owner # None
    <3>1. CASE m \in net
      BY <2>3, <3>1 DEF Newest
    <3>2. CASE m \notin net
      <4>1. PICK n \in net : n.owner \in dead /\ m = Abandoned(n)
        BY <1>14, <2>3, <3>2 DEF Restart
      <4>2. n.kind = "progress"
        BY <2>3, <4>1, AbandonedFields
      <4> QED  BY <2>2, <2>3, <4>1, <4>2 DEF Strays
    <3> QED  BY <3>1, <3>2
  <2>4. ~ stray' => ~ stray
    BY <2>2, Zenon DEF Strays
  <2>5. ASSUME ~ stray', Newest
        PROVE  Newest'
    <3>1. \A p \in Shippers : digest'[p] # 0 => progress' # None /\ digest'[p] <= progress'
      BY <2>2, <2>5 DEF Newest, ShipperTypes
    <3> QED  BY <2>1, <2>2, <2>3, <2>5, <3>1 DEF Newest, Fresh
  <2> QED  BY <2>2, <2>4, <2>5 DEF Forward
<1>15. ASSUME NEW m \in net, HandleInvalid(m)
      PROVE  Forward'
  <2>1. ASSUME NEW u \in Threads, pc[u] = "put"
        PROVE  reply'[u] = reply[u]
    <3>1. m.owner # u
      BY <1>15, <2>1, Messages DEF HandleInvalid, Wires
    <3> QED  BY <1>15, <2>1, <3>1, Messages DEF HandleInvalid, Answer, NetTypes
  <2>2. UNCHANGED <<status, progress, digest, deletes, stray, pc, chunk>> /\ net' \subseteq net
    BY <1>15 DEF HandleInvalid, storeVars, counters, threadVars, shipperVars
  <2> QED  BY <2>1, <2>2, NewestKept DEF Forward, Newest
<1>16. ASSUME NEW m \in net, HandleMismatch(m)
      PROVE  Forward'
  <2>1. ASSUME NEW u \in Threads, pc[u] = "put"
        PROVE  reply'[u] = reply[u]
    <3>1. m.owner # u
      BY <1>16, <2>1, Messages DEF HandleMismatch, Wires
    <3> QED  BY <1>16, <2>1, <3>1, Messages DEF HandleMismatch, Answer, NetTypes
  <2>2. UNCHANGED <<status, progress, digest, deletes, stray, pc, chunk>> /\ net' \subseteq net
    BY <1>16 DEF HandleMismatch, storeVars, counters, threadVars, shipperVars
  <2> QED  BY <2>1, <2>2, NewestKept DEF Forward, Newest
<1>17. ASSUME NEW m \in net, HandleAppend(m)
      PROVE  Forward'
  <2>1. UNCHANGED <<status, progress, digest, deletes, stray, pc, chunk, reply>> /\ net' \subseteq net
    BY <1>17 DEF HandleAppend, AppendBody, counters, threadVars, shipperVars
  <2> QED  BY <2>1, NewestKept DEF Forward, Newest
<1>18. ASSUME NEW m \in net, HandleProgress(m)
      PROVE  Forward'
  <2>1. /\ m.kind = "progress" /\ progress' = m.snapshot /\ Answer(m.owner, [code |-> 200])
        /\ net' \subseteq net /\ UNCHANGED <<status, digest, deletes, stray, pc, chunk>>
    BY <1>18 DEF HandleProgress, PutProgress, counters, threadVars, shipperVars
  <2>2. ASSUME Newest
        PROVE  Newest'
    <3>1. m.owner \in Threads /\ pc[m.owner] = "put" /\ m.snapshot = chunk[m.owner].snapshot
      BY <2>1, <2>2, Messages DEF Newest, Wires, Remembered
    <3>2. \A u \in Threads : pc[u] = "put" => u = m.owner
      BY <3>1, OnlyRunning, ThreadParts DEF Alone
    <3>3. PICK s : s = m.snapshot
      OBVIOUS
    <3>4. s \in Snapshots /\ s \in Nat /\ Fresh(s) /\ s <= status /\ s # None
      BY <2>2, <3>1, <3>3, <2>1, PutMessage, SnapshotNumbers DEF Newest
    <3>5. \A p \in Shippers : digest'[p] # 0 => progress' # None /\ digest'[p] <= progress'
      BY <2>1, <2>2, <3>3, <3>4, SnapshotNumbers DEF Newest, Fresh
    <3>6. \A u \in Threads : pc'[u] = "put" =>
            /\ Fresh(chunk[u].snapshot)' /\ chunk'[u].snapshot <= status'
            /\ reply'[u] # None => progress' = chunk'[u].snapshot
      BY <2>1, <3>1, <3>2, <3>3, <3>4, SnapshotNumbers DEF Fresh
    <3>7. \A n \in net' : n.kind = "progress" => n.owner # None
      BY <2>1, <2>2 DEF Newest
    <3> QED  BY <2>1, <3>3, <3>4, <3>5, <3>6, <3>7 DEF Newest
  <2> QED  BY <2>1, <2>2 DEF Forward
<1>19. CASE HandleCommit
  <2>1. ASSUME NEW u \in Threads, pc[u] = "put"
        PROVE  reply'[u] = reply[u]
    <3>1. serving # u
      BY <2>1, Messages DEF Wires
    <3> QED  BY <1>19, <2>1, <3>1 DEF HandleCommit, Answer, NetTypes
  <2>2. UNCHANGED <<status, progress, digest, deletes, stray, pc, chunk, net>>
    BY <1>19 DEF HandleCommit, CommitMeta, counters, threadVars, shipperVars
  <2> QED  BY <2>1, <2>2, NewestKept DEF Forward, Newest
<1>20. CASE HostDies
  <2>1. UNCHANGED <<status, progress, digest, deletes, stray, pc, chunk, reply>> /\ net' = {}
    BY <1>20 DEF HostDies, LoseMeta, counters, threadVars, shipperVars
  <2> QED  BY <2>1, NewestKept DEF Forward
<1>21. CASE HandleDelete
  BY <1>21 DEF HandleDelete, CounterTypes, Forward
<1>22. CASE Tear \/ Rotate \/ UNCHANGED vars
  BY <1>1, <1>22 DEF Tear, storeVars, shipperVars, threadVars, netVars,
       counters, vars, Rotate
<1>23. ASSUME NEW o \in Shippers,
             StopCalled(o)
      PROVE  Forward'
  BY <1>1, <1>23 DEF StopCalled, storeVars, shipperVars, threadVars,
       netVars, counters, vars
<1>24. ASSUME NEW eol \in BOOLEAN,
             Write(eol)
      PROVE  Forward'
  BY <1>1, <1>24 DEF Write, storeVars, shipperVars, threadVars, netVars,
       counters, vars
<1> QED  BY <1>2, <1>3, <1>4, <1>5, <1>6, <1>7, <1>8, <1>9, <1>10, <1>11, <1>12,
         <1>13, <1>14, <1>15, <1>16, <1>17, <1>18, <1>19, <1>20, <1>21,
         <1>22, <1>23, <1>24
         DEF Next, SourceStep, ThreadStep, LifecycleStep, HostStep, Handle, Faults
-----------------------------------------------------------------------------
(* Positions *)

\* Only the death of the host counts as one.
LEMMA CrashCounted ==
  ASSUME [Next]_vars
  PROVE  crashes' = crashes \/ HostDies
BY ZenonT(40)
   DEF Next, SourceStep, ThreadStep, LifecycleStep, HostStep, Handle, Faults, Write, Tear, Rotate,
      WriteProgress, Read, Post, Posted, ProgressUnchanged, Put, Putted, ConnectionReset, CallFails,
      LoopEnds, DrainStarts, StopCalled, DrainDeadline, Restart, HandleInvalid, HandleMismatch,
      HandleAppend, AppendBody, HandleProgress, PutProgress, HandleCommit, CommitMeta, HandleDelete,
      Delete, storeVars, vars

LEMMA UndisturbedBefore ==
  ASSUME StoreTypes, CounterTypes, [Next]_vars, Undisturbed'
  PROVE  Undisturbed /\ ~ HostDies /\ ~ HandleDelete
<1>1. ASSUME HostDies
      PROVE  FALSE
  BY <1>1 DEF HostDies, LoseMeta, StoreTypes, Undisturbed
<1>2. ASSUME HandleDelete
      PROVE  FALSE
  BY <1>2 DEF HandleDelete, CounterTypes, Undisturbed
<1>3. crashes' = crashes \/ HostDies
  BY CrashCounted
<1>4. deletes' = deletes \/ HandleDelete
  BY DEF Next, SourceStep, ThreadStep, LifecycleStep, HostStep, Handle, Faults, Write, Tear, Rotate,
     WriteProgress, Read, Post, Posted, ProgressUnchanged, Put, Putted, ConnectionReset, CallFails,
     LoopEnds, DrainStarts, StopCalled, DrainDeadline, Restart, HandleInvalid, HandleMismatch,
     HandleAppend, HandleProgress, HandleCommit, HostDies, counters, vars
<1> QED  BY <1>1, <1>2, <1>3, <1>4 DEF Undisturbed

\* The store only goes forward.
LEMMA CommitReaches ==
  ASSUME StoreTypes, Writing, CommitMeta
  PROVE  /\ pending \in Request /\ pending.generation \in Nat /\ pending.next \in Nat
         /\ meta'.generation = pending.generation /\ meta'.source_offset = pending.next
         /\ meta.generation \in Nat /\ meta.source_offset \in Nat
         /\ \/ pending.generation > meta.generation /\ pending.offset = 0
            \/ pending.generation = meta.generation /\ pending.offset = meta.source_offset
         /\ \A g, x \in Nat : Reached(g, x) => Reached(g, x)'
         /\ \A g, x \in Nat : Known(g, x) => Known(g, x)'
<1>1. /\ pending \in Request /\ meta \in Meta /\ Accepts(pending) /\ pending.offset <= pending.next
      /\ meta' = [source_offset |-> pending.next, generation |-> pending.generation]
  BY DEF CommitMeta, Unlocked, StoreTypes, Writing
<1>2. /\ pending.generation \in Nat /\ pending.next \in Nat /\ pending.offset \in Nat
      /\ meta.generation \in Nat /\ meta.source_offset \in Nat
  BY <1>1 DEF Request, Meta
<1>3. \/ pending.generation > meta.generation /\ pending.offset = 0
      \/ pending.generation = meta.generation /\ pending.offset = meta.source_offset
  BY <1>1, AcceptedLinesUp DEF Meta
<1>4. meta'.generation = pending.generation /\ meta'.source_offset = pending.next
  BY <1>1
<1>5. \A g, x \in Nat : Reached(g, x) => Reached(g, x)'
  BY <1>1, <1>2, <1>3, <1>4 DEF Reached
<1>6. \A g, x \in Nat : Known(g, x) => Known(g, x)'
  BY <1>1, <1>2, <1>3, <1>4 DEF Reached, Known
<1> QED  BY <1>1, <1>2, <1>3, <1>4, <1>5, <1>6

\* What Read does, from where it reads.
ReadFrom(t, from) ==
  /\ t[1] \in Shippers /\ offset[t[1]] \in Nat /\ generation[t[1]] \in Nat /\ Live.size \in Nat
  /\ offset'[t[1]] = from
  /\ \/ Live.size < offset[t[1]] /\ from = 0 /\ generation'[t[1]] = generation[t[1]] + 1
     \/ offset[t[1]] <= Live.size /\ from = offset[t[1]] /\ generation'[t[1]] = generation[t[1]]
  /\ \A o \in Shippers : o # t[1] => offset'[o] = offset[o] /\ generation'[o] = generation[o]
  /\ chunk'[t] = ChunkAt(from)
  /\ pc[t] = "tick" /\ pc'[t] = IF ChunkAt(from) = NoChunk THEN "progress" ELSE "post"
  /\ \A u \in Threads : u # t => pc'[u] = pc[u] /\ chunk'[u] = chunk[u]

LEMMA ReadEffect ==
  ASSUME FileTypes, ShipperTypes, ThreadTypes, NEW t \in Threads, Read(t)
  PROVE  \E from \in Nat : ReadFrom(t, from)
<1>1. t[1] \in Shippers /\ offset[t[1]] \in Nat /\ generation[t[1]] \in Nat /\ Live.size \in Nat
  BY ThreadParts, LiveTypes DEF ShipperTypes
<1>2. PICK from : from = IF Live.size < offset[t[1]] THEN 0 ELSE offset[t[1]]
  OBVIOUS
<1>3. PICK g : g = IF Live.size < offset[t[1]] THEN generation[t[1]] + 1 ELSE generation[t[1]]
  OBVIOUS
<1>4. /\ offset' = [offset EXCEPT ![t[1]] = from] /\ generation' = [generation EXCEPT ![t[1]] = g]
      /\ chunk' = [chunk EXCEPT ![t] = ChunkAt(from)] /\ pc[t] = "tick"
      /\ pc' = [pc EXCEPT ![t] = IF ChunkAt(from) = NoChunk THEN "progress" ELSE "post"]
  BY <1>2, <1>3, Zenon DEF Read, Goto
<1>5. from \in Nat
  BY <1>1, <1>2
<1>6. /\ offset'[t[1]] = from /\ generation'[t[1]] = g
      /\ \A o \in Shippers : o # t[1] => offset'[o] = offset[o] /\ generation'[o] = generation[o]
  BY <1>1, <1>4 DEF ShipperTypes
<1>7. /\ chunk'[t] = ChunkAt(from)
      /\ pc'[t] = IF ChunkAt(from) = NoChunk THEN "progress" ELSE "post"
      /\ \A u \in Threads : u # t => pc'[u] = pc[u] /\ chunk'[u] = chunk[u]
  BY <1>4 DEF ThreadTypes
<1>8. \/ Live.size < offset[t[1]] /\ from = 0 /\ g = generation[t[1]] + 1
      \/ offset[t[1]] <= Live.size /\ from = offset[t[1]] /\ g = generation[t[1]]
  BY <1>1, <1>2, <1>3
<1>9. ReadFrom(t, from)
  BY <1>1, <1>4, <1>6, <1>7, <1>8, Zenon DEF ReadFrom
<1> QED  BY <1>5, <1>9

LEMMA MetaNumbers ==
  ASSUME StoreTypes
  PROVE  meta.generation \in Nat /\ meta.source_offset \in Nat
BY DEF StoreTypes, Meta

\* A known position is accepted, or the answer is a reached one that is not older.
LEMMA MismatchReached ==
  ASSUME StoreTypes, NEW r \in Request, Known(r.generation, r.offset), ~ Accepts(r)
  PROVE  Rebased(r) = meta /\ r.generation <= meta.generation
BY MetaNumbers DEF Known, Reached, Accepts, Rebased, Request

LEMMA ShippersKnownStep ==
  ASSUME StoreTypes,
         Writing,
         FileTypes,
         ShipperTypes,
         ThreadTypes,
         NetTypes,
         CounterTypes,
         OneBusy,
         Wires,
         Remembered,
         AllKnown,
         Undisturbed',
         [Next]_vars
  PROVE  ShippersKnown'
<1>1. ASSUME UNCHANGED <<meta, offset, generation>>
      PROVE  ShippersKnown'
  BY <1>1 DEF AllKnown, ShippersKnown, Known, Reached
<1>2. ASSUME NEW t \in Threads, Read(t)
      PROVE  ShippersKnown'
  <2>1. PICK from \in Nat : ReadFrom(t, from)
    BY <1>2, ReadEffect
  <2>2. Known(generation[t[1]], offset[t[1]])
    BY <2>1 DEF AllKnown, ShippersKnown, ReadFrom
  <2>3. meta' = meta
    BY <1>2 DEF Read, storeVars
  <2>4. Known(generation[t[1]], offset[t[1]])'
    BY <2>1, <2>2, <2>3, MetaNumbers DEF Known, Reached, ReadFrom
  <2> QED  BY <2>1, <2>3, <2>4 DEF AllKnown, ShippersKnown, Known, Reached, ReadFrom
<1>3. ASSUME NEW t \in Threads, Posted(t)
      PROVE  ShippersKnown'
  <2>1. /\ pc[t] = "posted" /\ reply[t] # None /\ meta' = meta /\ t[1] \in Shippers
        /\ chunk[t].end \in Nat /\ chunk[t].size \in Nat
    BY <1>3, ThreadParts, Posters DEF Posted, storeVars
  <2>2. reply[t] \in Answers
    BY <2>1 DEF NetTypes
  <2>3. /\ generation[t[1]] \in Nat /\ offset[t[1]] \in Nat
        /\ \A p \in Shippers : p # t[1] => offset'[p] = offset[p] /\ generation'[p] = generation[p]
    BY <1>3, <2>1 DEF Posted, ShipperTypes
  <2>4. Known(generation[t[1]], offset[t[1]])'
    <3>1. CASE reply[t].code = 200
      <4>1. Reached(generation[t[1]], chunk[t].end)
        BY <2>1, <3>1 DEF AllKnown, AnswersReached
      <4>2. offset'[t[1]] = chunk[t].end /\ generation'[t[1]] = generation[t[1]]
        BY <1>3, <2>1, <3>1 DEF Posted, ShipperTypes
      <4> QED  BY <2>1, <4>1, <4>2 DEF Known, Reached
    <3>2. CASE reply[t].code = 409
      <4>1. PICK a : a = reply[t].meta
        OBVIOUS
      <4>2. a.source_offset \in Nat /\ a.generation \in Nat
        BY <2>2, <3>2, <4>1, AnswerMeta DEF Meta
      <4>3. Reached(a.generation, a.source_offset) /\ a.generation >= generation[t[1]]
        BY <2>1, <3>2, <4>1 DEF AllKnown, AnswersReached
      <4>4. /\ generation'[t[1]] = IF a.generation > generation[t[1]] THEN a.generation ELSE generation[t[1]]
            /\ offset'[t[1]] = Min2(a.source_offset, chunk[t].size)
        BY <1>3, <2>1, <3>2, <4>1 DEF Posted, ShipperTypes
      <4>5. generation'[t[1]] = a.generation /\ offset'[t[1]] <= a.source_offset /\ offset'[t[1]] \in Nat
        BY <2>1, <2>3, <4>2, <4>3, <4>4 DEF Min2
      <4> QED  BY <2>1, <4>2, <4>3, <4>5, MetaNumbers DEF Known, Reached
    <3>3. CASE reply[t].code = 400
      <4>1. UNCHANGED <<offset, generation>>
        BY <1>3, <3>3 DEF Posted
      <4> QED  BY <2>1, <4>1 DEF AllKnown, ShippersKnown, Known, Reached
    <3> QED  BY <2>2, <3>1, <3>2, <3>3 DEF Answers
  <2> QED  BY <2>1, <2>3, <2>4 DEF AllKnown, ShippersKnown, Known, Reached
<1>4. ASSUME NEW o \in Shippers, Restart(o)
      PROVE  ShippersKnown'
  <2>1. /\ offset' = [offset EXCEPT ![o] = 0] /\ generation' = [generation EXCEPT ![o] = 0] /\ meta' = meta
    BY <1>4 DEF Restart, storeVars
  <2> QED  BY <2>1, MetaNumbers DEF AllKnown, ShippersKnown, Known, Reached, ShipperTypes
<1>5. CASE HandleCommit
  <2>1. CommitMeta /\ UNCHANGED <<offset, generation>>
    BY <1>5 DEF HandleCommit, shipperVars
  <2>2. ASSUME NEW o \in Shippers
        PROVE  Known(generation[o], offset[o])'
    <3>1. PICK g \in Nat, x \in Nat : g = generation[o] /\ x = offset[o]
      BY DEF ShipperTypes
    <3>2. Known(g, x)
      BY <3>1 DEF AllKnown, ShippersKnown
    <3>3. Known(g, x)'
      BY <2>1, <3>2, CommitReaches
    <3> QED  BY <2>1, <3>1, <3>3 DEF Known, Reached
  <2> QED  BY <2>2 DEF ShippersKnown
<1>6. CASE HandleDelete
  BY <1>6, UndisturbedBefore
<1>7. CASE \/ Tear
            \/ Rotate
            \/ WriteProgress
            \/ HostDies
            \/ UNCHANGED vars
  BY <1>1, <1>7 DEF Tear, storeVars, shipperVars, threadVars, netVars,
       counters, vars, Rotate, WriteProgress, HostDies, LoseMeta
<1>8. ASSUME NEW t \in Threads,
             Post(t) \/ ProgressUnchanged(t) \/ Put(t) \/ Putted(t) \/ ConnectionReset(t) \/ CallFails(t)
      PROVE  ShippersKnown'
  BY <1>1, <1>8 DEF Post, Goto, storeVars, shipperVars, threadVars, netVars,
       counters, vars, ProgressUnchanged, EndOfTick, Put, Putted,
       ConnectionReset, CallFails
<1>9. ASSUME NEW o \in Shippers,
             LoopEnds(o) \/ DrainStarts(o) \/ StopCalled(o) \/ DrainDeadline(o)
      PROVE  ShippersKnown'
  BY <1>1, <1>9 DEF LoopEnds, Goto, storeVars, shipperVars, threadVars,
       netVars, counters, vars, DrainStarts, StopCalled, DrainDeadline
<1>10. ASSUME NEW m \in net,
             HandleInvalid(m) \/ HandleMismatch(m) \/ HandleAppend(m) \/ HandleProgress(m)
      PROVE  ShippersKnown'
  BY <1>1, <1>10 DEF HandleInvalid, Answer, storeVars, shipperVars,
       threadVars, netVars, counters, vars, HandleMismatch, HandleAppend,
       AppendBody, HandleProgress, PutProgress
<1>11. ASSUME NEW eol \in BOOLEAN,
             Write(eol)
      PROVE  ShippersKnown'
  BY <1>1, <1>11 DEF Write, storeVars, shipperVars, threadVars, netVars,
       counters, vars
<1> QED  BY <1>2, <1>3, <1>4, <1>5, <1>6, <1>7, <1>8, <1>9, <1>10, <1>11
         DEF Next, SourceStep, ThreadStep, LifecycleStep, HostStep, Handle, Faults

LEMMA RequestsKnownStep ==
  ASSUME StoreTypes,
         Writing,
         FileTypes,
         ShipperTypes,
         ThreadTypes,
         NetTypes,
         CounterTypes,
         OneBusy,
         Wires,
         Remembered,
         AllKnown,
         Undisturbed',
         [Next]_vars
  PROVE  RequestsKnown'
<1>1. ASSUME UNCHANGED <<meta, net>>
      PROVE  RequestsKnown'
  BY <1>1 DEF AllKnown, RequestsKnown, Telemetry, Known, Reached
<1>2. ASSUME NEW t \in Threads, Post(t)
      PROVE  RequestsKnown'
  <2>1. PICK n : n = [owner |-> t, kind |-> "telemetry", json |-> chunk[t].json, req |-> HeadersNow(t)]
    OBVIOUS
  <2>2. net' = net \cup {n} /\ n.req = HeadersNow(t) /\ meta' = meta /\ pc[t] = "post"
    BY <1>2, <2>1 DEF Post, storeVars
  <2>3. n.req.offset = offset[t[1]] /\ n.req.generation = generation[t[1]] /\ t[1] \in Shippers
    BY <2>2, HeadersTypes, ThreadParts
  <2>4. ASSUME NEW m \in Telemetry'
        PROVE  Known(m.req.generation, m.req.offset)'
    <3>1. CASE m = n
      BY <2>2, <2>3, <3>1 DEF AllKnown, ShippersKnown, Known, Reached
    <3>2. CASE m # n
      BY <2>2, <2>4, <3>2 DEF AllKnown, RequestsKnown, Telemetry, Known, Reached
    <3> QED  BY <3>1, <3>2
  <2> QED  BY <2>4 DEF RequestsKnown
<1>3. ASSUME NEW t \in Threads, Put(t)
      PROVE  RequestsKnown'
  <2>1. PICK n : n = [owner |-> t, kind |-> "progress", snapshot |-> status]
    OBVIOUS
  <2>2. net' = net \cup {n} /\ n.kind = "progress" /\ meta' = meta
    BY <1>3, <2>1 DEF Put, storeVars
  <2> QED  BY <2>2 DEF AllKnown, RequestsKnown, Telemetry, Known, Reached
<1>4. ASSUME NEW t \in Threads, CallFails(t)
      PROVE  RequestsKnown'
  <2>1. meta' = meta /\ net' \subseteq net \cup {Abandoned(m) : m \in net}
    BY <1>4 DEF CallFails, OwnRequests, storeVars
  <2>2. ASSUME NEW m \in Telemetry'
        PROVE  Known(m.req.generation, m.req.offset)'
    <3>1. PICK n \in net : m = n \/ m = Abandoned(n)
      BY <2>1, <2>2 DEF Telemetry
    <3>2. n \in Telemetry /\ m.req = n.req
      BY <2>2, <3>1, AbandonedFields DEF Telemetry
    <3> QED  BY <2>1, <3>2 DEF AllKnown, RequestsKnown, Known, Reached
  <2> QED  BY <2>2 DEF RequestsKnown
<1>5. ASSUME NEW o \in Shippers, Restart(o)
      PROVE  RequestsKnown'
  <2>1. meta' = meta /\ net' \subseteq net \cup {Abandoned(m) : m \in net}
    BY <1>5 DEF Restart, OwnRequests, storeVars
  <2>2. ASSUME NEW m \in Telemetry'
        PROVE  Known(m.req.generation, m.req.offset)'
    <3>1. PICK n \in net : m = n \/ m = Abandoned(n)
      BY <2>1, <2>2 DEF Telemetry
    <3>2. n \in Telemetry /\ m.req = n.req
      BY <2>2, <3>1, AbandonedFields DEF Telemetry
    <3> QED  BY <2>1, <3>2 DEF AllKnown, RequestsKnown, Known, Reached
  <2> QED  BY <2>2 DEF RequestsKnown
<1>6. ASSUME NEW m \in net, HandleInvalid(m)
      PROVE  RequestsKnown'
  <2>1. UNCHANGED <<meta, generation, offset>> /\ net' \subseteq net
    BY <1>6 DEF HandleInvalid, storeVars, shipperVars
  <2> QED  BY <2>1 DEF AllKnown, RequestsKnown, Telemetry, Known, Reached
<1>7. ASSUME NEW m \in net, HandleMismatch(m)
      PROVE  RequestsKnown'
  <2>1. UNCHANGED <<meta, generation, offset>> /\ net' \subseteq net
    BY <1>7 DEF HandleMismatch, storeVars, shipperVars
  <2> QED  BY <2>1 DEF AllKnown, RequestsKnown, Telemetry, Known, Reached
<1>8. ASSUME NEW m \in net, HandleAppend(m)
      PROVE  RequestsKnown'
  <2>1. UNCHANGED <<meta, generation, offset>> /\ net' \subseteq net
    BY <1>8 DEF HandleAppend, storeVars, shipperVars, AppendBody
  <2> QED  BY <2>1 DEF AllKnown, RequestsKnown, Telemetry, Known, Reached
<1>9. ASSUME NEW m \in net, HandleProgress(m)
      PROVE  RequestsKnown'
  <2>1. UNCHANGED <<meta, generation, offset>> /\ net' \subseteq net
    BY <1>9 DEF HandleProgress, storeVars, shipperVars, PutProgress
  <2> QED  BY <2>1 DEF AllKnown, RequestsKnown, Telemetry, Known, Reached
<1>10. CASE HandleCommit
  <2>1. CommitMeta /\ net' = net
    BY <1>10 DEF HandleCommit
  <2>2. ASSUME NEW m \in Telemetry
        PROVE  Known(m.req.generation, m.req.offset)'
    <3>1. PICK g \in Nat, x \in Nat : g = m.req.generation /\ x = m.req.offset
      BY TelemetryPosts
    <3>2. Known(g, x)
      BY <3>1 DEF AllKnown, RequestsKnown
    <3>3. Known(g, x)'
      BY <2>1, <3>2, CommitReaches
    <3> QED  BY <2>1, <3>1, <3>3 DEF Known, Reached
  <2> QED  BY <2>1, <2>2 DEF RequestsKnown, Telemetry
<1>11. CASE HostDies
  BY <1>11, UndisturbedBefore
<1>12. CASE HandleDelete
  BY <1>12, UndisturbedBefore
<1>13. CASE Tear \/ Rotate \/ WriteProgress \/ UNCHANGED vars
  BY <1>1, <1>13 DEF Tear, storeVars, shipperVars, threadVars, netVars,
       counters, vars, Rotate, WriteProgress
<1>14. ASSUME NEW t \in Threads,
             Read(t) \/ Posted(t) \/ ProgressUnchanged(t) \/ Putted(t) \/ ConnectionReset(t)
      PROVE  RequestsKnown'
  BY <1>1, <1>14 DEF Read, Goto, storeVars, shipperVars, threadVars,
       netVars, counters, vars, Posted, ProgressUnchanged, EndOfTick,
       Putted, ConnectionReset
<1>15. ASSUME NEW o \in Shippers,
             LoopEnds(o) \/ DrainStarts(o) \/ StopCalled(o) \/ DrainDeadline(o)
      PROVE  RequestsKnown'
  BY <1>1, <1>15 DEF LoopEnds, Goto, storeVars, shipperVars, threadVars,
       netVars, counters, vars, DrainStarts, StopCalled, DrainDeadline
<1>16. ASSUME NEW eol \in BOOLEAN,
             Write(eol)
      PROVE  RequestsKnown'
  BY <1>1, <1>16 DEF Write, storeVars, shipperVars, threadVars, netVars,
       counters, vars
<1> QED  BY <1>2, <1>3, <1>4, <1>5, <1>6, <1>7, <1>8, <1>9, <1>10, <1>11, <1>12,
         <1>13, <1>14, <1>15, <1>16
         DEF Next, SourceStep, ThreadStep, LifecycleStep, HostStep, Handle, Faults


AnswerReached(t) ==
  /\ reply[t].code = 200 => Reached(generation[t[1]], chunk[t].end)
  /\ reply[t].code = 409 =>
       /\ Reached(reply[t].meta.generation, reply[t].meta.source_offset)
       /\ reply[t].meta.generation >= generation[t[1]]

\* A thread's step leaves the answers to other shippers alone.
LEMMA OthersReached ==
  ASSUME OneBusy, ThreadTypes, AnswersReached,
         NEW t \in Threads, pc[t] \notin {"off", "done"}, meta' = meta,
         \A u \in Threads : u # t => pc'[u] = pc[u] /\ chunk'[u] = chunk[u] /\ reply'[u] = reply[u],
         \A o \in Shippers : o # t[1] => generation'[o] = generation[o],
         pc'[t] # "posted" \/ reply'[t] = None
  PROVE  AnswersReached'
<1>1. ASSUME NEW u \in Threads, pc'[u] = "posted", reply'[u] # None
      PROVE  AnswerReached(u)'
  <2>1. u # t /\ pc[u] = "posted" /\ reply[u] # None /\ reply'[u] = reply[u] /\ chunk'[u] = chunk[u]
    BY <1>1
  <2>2. u[1] # t[1] /\ u[1] \in Shippers
    BY <2>1, OnlyRunning, ThreadParts
  <2>3. AnswerReached(u)
    BY <2>1 DEF AnswersReached, AnswerReached
  <2> QED  BY <2>1, <2>2, <2>3 DEF AnswerReached, Reached
<1> QED  BY <1>1 DEF AnswersReached, AnswerReached

\* An answer for one thread leaves the others alone.
LEMMA AnswerAdded ==
  ASSUME NetTypes, AnswersReached, NEW owner \in Owners, NEW a, Answer(owner, a),
         UNCHANGED <<pc, chunk, generation, meta>>,
         owner # None /\ pc[owner] = "posted" =>
           /\ a.code = 200 => Reached(generation[owner[1]], chunk[owner].end)
           /\ a.code = 409 =>
                /\ Reached(a.meta.generation, a.meta.source_offset)
                /\ a.meta.generation >= generation[owner[1]]
  PROVE  AnswersReached'
<1>1. ASSUME NEW u \in Threads, pc'[u] = "posted", reply'[u] # None
      PROVE  AnswerReached(u)'
  <2>1. CASE u = owner
    BY <1>1, <2>1, Messages DEF Answer, NetTypes, AnswerReached, Reached
  <2>2. CASE u # owner
    <3>1. reply'[u] = reply[u]
      BY <2>2 DEF Answer, NetTypes, Owners
    <3>2. AnswerReached(u)
      BY <1>1, <3>1 DEF AnswersReached, AnswerReached
    <3> QED  BY <3>1, <3>2 DEF AnswerReached, Reached
  <2> QED  BY <2>1, <2>2
<1> QED  BY <1>1 DEF AnswersReached, AnswerReached

LEMMA AnswersReachedStep ==
  ASSUME StoreTypes,
         Writing,
         FileTypes,
         ShipperTypes,
         ThreadTypes,
         NetTypes,
         CounterTypes,
         OneBusy,
         Wires,
         Remembered,
         AllKnown,
         Undisturbed',
         [Next]_vars
  PROVE  AnswersReached'
<1>1. ASSUME UNCHANGED <<meta, generation, pc, chunk, reply>>
      PROVE  AnswersReached'
  BY <1>1 DEF AllKnown, AnswersReached, Reached
<1>2. ASSUME NEW t \in Threads, Read(t)
      PROVE  AnswersReached'
  <2>1. /\ pc[t] \notin {"off", "done"} /\ meta' = meta
        /\ \A u \in Threads : u # t => pc'[u] = pc[u] /\ chunk'[u] = chunk[u] /\ reply'[u] = reply[u]
    BY <1>2 DEF Read, Goto, ThreadTypes, NetTypes, Waiting, EndOfTick, storeVars, netVars
  <2>2. /\ \A o \in Shippers : o # t[1] => generation'[o] = generation[o]
    BY <1>2 DEF Read, ShipperTypes, shipperVars
  <2>3. pc'[t] # "posted" \/ reply'[t] = None
    BY <1>2 DEF Read, Goto, ThreadTypes, NetTypes, EndOfTick, Raised, Returned
  <2> QED  BY <2>1, <2>2, <2>3, OthersReached DEF AllKnown
<1>3. ASSUME NEW t \in Threads, Post(t)
      PROVE  AnswersReached'
  <2>1. /\ pc[t] \notin {"off", "done"} /\ meta' = meta
        /\ \A u \in Threads : u # t => pc'[u] = pc[u] /\ chunk'[u] = chunk[u] /\ reply'[u] = reply[u]
    BY <1>3 DEF Post, Goto, ThreadTypes, NetTypes, Waiting, EndOfTick, storeVars, netVars
  <2>2. /\ \A o \in Shippers : o # t[1] => generation'[o] = generation[o]
    BY <1>3 DEF Post, ShipperTypes, shipperVars
  <2>3. pc'[t] # "posted" \/ reply'[t] = None
    BY <1>3 DEF Post, Goto, ThreadTypes, NetTypes, EndOfTick, Raised, Returned, Wires, Waiting
  <2> QED  BY <2>1, <2>2, <2>3, OthersReached DEF AllKnown
<1>4. ASSUME NEW t \in Threads, Posted(t)
      PROVE  AnswersReached'
  <2>1. /\ pc[t] \notin {"off", "done"} /\ meta' = meta
        /\ \A u \in Threads : u # t => pc'[u] = pc[u] /\ chunk'[u] = chunk[u] /\ reply'[u] = reply[u]
    BY <1>4 DEF Posted, Goto, ThreadTypes, NetTypes, Waiting, EndOfTick, storeVars, netVars
  <2>2. /\ \A o \in Shippers : o # t[1] => generation'[o] = generation[o]
    BY <1>4 DEF Posted, ShipperTypes, shipperVars
  <2>3. pc'[t] # "posted" \/ reply'[t] = None
    BY <1>4 DEF Posted, Goto, ThreadTypes, NetTypes, EndOfTick, Raised, Returned
  <2> QED  BY <2>1, <2>2, <2>3, OthersReached DEF AllKnown
<1>5. ASSUME NEW t \in Threads, ProgressUnchanged(t)
      PROVE  AnswersReached'
  <2>1. /\ pc[t] \notin {"off", "done"} /\ meta' = meta
        /\ \A u \in Threads : u # t => pc'[u] = pc[u] /\ chunk'[u] = chunk[u] /\ reply'[u] = reply[u]
    BY <1>5 DEF ProgressUnchanged, Goto, ThreadTypes, NetTypes, Waiting, EndOfTick, storeVars, netVars
  <2>2. /\ \A o \in Shippers : o # t[1] => generation'[o] = generation[o]
    BY <1>5 DEF ProgressUnchanged, ShipperTypes, shipperVars
  <2>3. pc'[t] # "posted" \/ reply'[t] = None
    BY <1>5 DEF ProgressUnchanged, Goto, ThreadTypes, NetTypes, EndOfTick, Raised, Returned
  <2> QED  BY <2>1, <2>2, <2>3, OthersReached DEF AllKnown
<1>6. ASSUME NEW t \in Threads, Put(t)
      PROVE  AnswersReached'
  <2>1. /\ pc[t] \notin {"off", "done"} /\ meta' = meta
        /\ \A u \in Threads : u # t => pc'[u] = pc[u] /\ chunk'[u] = chunk[u] /\ reply'[u] = reply[u]
    BY <1>6 DEF Put, Goto, ThreadTypes, NetTypes, Waiting, EndOfTick, storeVars, netVars
  <2>2. /\ \A o \in Shippers : o # t[1] => generation'[o] = generation[o]
    BY <1>6 DEF Put, ShipperTypes, shipperVars
  <2>3. pc'[t] # "posted" \/ reply'[t] = None
    BY <1>6 DEF Put, Goto, ThreadTypes, NetTypes, EndOfTick, Raised, Returned
  <2> QED  BY <2>1, <2>2, <2>3, OthersReached DEF AllKnown
<1>7. ASSUME NEW t \in Threads, Putted(t)
      PROVE  AnswersReached'
  <2>1. /\ pc[t] \notin {"off", "done"} /\ meta' = meta
        /\ \A u \in Threads : u # t => pc'[u] = pc[u] /\ chunk'[u] = chunk[u] /\ reply'[u] = reply[u]
    BY <1>7 DEF Putted, Goto, ThreadTypes, NetTypes, Waiting, EndOfTick, storeVars, netVars
  <2>2. /\ \A o \in Shippers : o # t[1] => generation'[o] = generation[o]
    BY <1>7 DEF Putted, ShipperTypes, shipperVars
  <2>3. pc'[t] # "posted" \/ reply'[t] = None
    BY <1>7 DEF Putted, Goto, ThreadTypes, NetTypes, EndOfTick, Raised, Returned
  <2> QED  BY <2>1, <2>2, <2>3, OthersReached DEF AllKnown
<1>8. ASSUME NEW t \in Threads, ConnectionReset(t)
      PROVE  AnswersReached'
  <2>1. /\ pc[t] \notin {"off", "done"} /\ meta' = meta
        /\ \A u \in Threads : u # t => pc'[u] = pc[u] /\ chunk'[u] = chunk[u] /\ reply'[u] = reply[u]
    BY <1>8 DEF ConnectionReset, Goto, ThreadTypes, NetTypes, Waiting, EndOfTick, storeVars, netVars
  <2>2. /\ \A o \in Shippers : o # t[1] => generation'[o] = generation[o]
    BY <1>8 DEF ConnectionReset, ShipperTypes, shipperVars
  <2>3. pc'[t] # "posted" \/ reply'[t] = None
    BY <1>8 DEF ConnectionReset, Goto, ThreadTypes, NetTypes, EndOfTick, Raised, Returned
  <2> QED  BY <2>1, <2>2, <2>3, OthersReached DEF AllKnown
<1>9. ASSUME NEW t \in Threads, CallFails(t)
      PROVE  AnswersReached'
  <2>1. /\ pc[t] \notin {"off", "done"} /\ meta' = meta
        /\ \A u \in Threads : u # t => pc'[u] = pc[u] /\ chunk'[u] = chunk[u] /\ reply'[u] = reply[u]
    BY <1>9 DEF CallFails, Goto, ThreadTypes, NetTypes, Waiting, EndOfTick, storeVars, netVars
  <2>2. /\ \A o \in Shippers : o # t[1] => generation'[o] = generation[o]
    BY <1>9 DEF CallFails, ShipperTypes, shipperVars
  <2>3. pc'[t] # "posted" \/ reply'[t] = None
    BY <1>9 DEF CallFails, Goto, ThreadTypes, NetTypes, EndOfTick, Raised, Returned
  <2> QED  BY <2>1, <2>2, <2>3, OthersReached DEF AllKnown
<1>10. ASSUME NEW o \in Shippers, LoopEnds(o)
      PROVE  AnswersReached'
  <2>1. \A u \in Threads : pc'[u] = "posted" => pc[u] = "posted"
    BY <1>10 DEF LoopEnds, Goto, ThreadTypes, EndOfTick
  <2>2. UNCHANGED <<meta, chunk, reply, generation>>
    BY <1>10 DEF LoopEnds, storeVars, netVars, shipperVars
  <2> QED  BY <2>1, <2>2 DEF AllKnown, AnswersReached, Reached
<1>11. ASSUME NEW o \in Shippers, DrainStarts(o)
      PROVE  AnswersReached'
  <2>1. \A u \in Threads : pc'[u] = "posted" => pc[u] = "posted"
    BY <1>11 DEF DrainStarts, Goto, ThreadTypes, EndOfTick
  <2>2. UNCHANGED <<meta, chunk, reply, generation>>
    BY <1>11 DEF DrainStarts, storeVars, netVars, shipperVars
  <2> QED  BY <2>1, <2>2 DEF AllKnown, AnswersReached, Reached
<1>12. ASSUME NEW o \in Shippers, DrainDeadline(o)
      PROVE  AnswersReached'
  <2>1. \A u \in Threads : pc'[u] = "posted" => pc[u] = "posted"
    BY <1>12 DEF DrainDeadline, Goto, ThreadTypes, EndOfTick
  <2>2. UNCHANGED <<meta, chunk, reply, generation>>
    BY <1>12 DEF DrainDeadline, storeVars, netVars, shipperVars
  <2> QED  BY <2>1, <2>2 DEF AllKnown, AnswersReached, Reached
<1>13. ASSUME NEW o \in Shippers, Restart(o)
      PROVE  AnswersReached'
  <2>1. ASSUME NEW u \in Threads, pc'[u] = "posted"
        PROVE  /\ pc[u] = "posted" /\ chunk'[u] = chunk[u] /\ reply'[u] = reply[u]
               /\ generation'[u[1]] = generation[u[1]] /\ meta' = meta
    <3>1. u \notin {<<o, "loop">>, <<o, "stop">>}
      BY <1>13, <2>1 DEF Restart
    <3>2. u[1] # o /\ u[1] \in Shippers
      BY <3>1, ThreadParts
    <3> QED  BY <1>13, <2>1, <3>1, <3>2 DEF Restart, ShipperTypes, storeVars
  <2> QED  BY <2>1 DEF AllKnown, AnswersReached, Reached
<1>14. ASSUME NEW m \in net, HandleInvalid(m)
      PROVE  AnswersReached'
  <2>1. /\ Answer(m.owner, [code |-> 400]) /\ UNCHANGED <<pc, chunk, generation, meta>> /\ m.owner \in Owners
    BY <1>14, ValidRequest DEF HandleInvalid, threadVars, storeVars, shipperVars
  <2> QED  BY <2>1, AnswerAdded DEF AllKnown
<1>15. ASSUME NEW m \in net, HandleMismatch(m)
      PROVE  AnswersReached'
  <2>1. /\ Answer(m.owner, [code |-> 409, meta |-> Rebased(m.req)])
        /\ UNCHANGED <<pc, chunk, generation, meta>>
        /\ m \in Telemetry /\ m.req \in Request /\ m.owner \in Owners /\ ~ Accepts(m.req)
    BY <1>15, ValidRequest DEF HandleMismatch, threadVars, storeVars, shipperVars, Telemetry
  <2>2. Known(m.req.generation, m.req.offset)
    BY <2>1 DEF AllKnown, RequestsKnown
  <2>3. Rebased(m.req) = meta /\ m.req.generation <= meta.generation
    BY <2>1, <2>2, MismatchReached
  <2>4. m.owner # None => m.req.generation = generation[m.owner[1]]
    BY <2>1 DEF Remembered, Telemetry
  <2>5. Reached(meta.generation, meta.source_offset)
    BY MetaNumbers DEF Reached
  <2>6. m.owner # None => meta.generation >= generation[m.owner[1]]
    BY <2>1, <2>3, <2>4, MetaNumbers, TelemetryPosts
  <2> QED  BY <2>1, <2>3, <2>5, <2>6, AnswerAdded DEF AllKnown
<1>16. ASSUME NEW m \in net, HandleProgress(m)
      PROVE  AnswersReached'
  <2>1. /\ Answer(m.owner, [code |-> 200]) /\ UNCHANGED <<pc, chunk, generation, meta>>
        /\ m.owner \in Owners /\ m.kind = "progress"
    BY <1>16, PutMessage DEF HandleProgress, PutProgress, threadVars, shipperVars
  <2>2. m.owner # None => pc[m.owner] # "posted"
    BY <2>1 DEF Wires
  <2> QED  BY <2>1, <2>2, AnswerAdded DEF AllKnown
<1>17. CASE HandleCommit
  <2>1. /\ CommitMeta /\ Answer(serving, [code |-> 200]) /\ UNCHANGED <<pc, chunk, generation>>
    BY <1>17 DEF HandleCommit, threadVars, shipperVars
  <2>2. ASSUME NEW u \in Threads, pc'[u] = "posted", reply'[u] # None
        PROVE  AnswerReached(u)'
    <3>0. u[1] \in Shippers /\ generation[u[1]] \in Nat /\ chunk[u].end \in Nat
      BY <2>1, <2>2, Posters
    <3>1. CASE u = serving
      <4>1. reply'[u] = [code |-> 200] /\ pending.generation = generation[u[1]] /\ pending.next = chunk[u].end
        BY <2>1, <3>1, Messages DEF Answer, NetTypes, Remembered
      <4> QED  BY <2>1, <3>0, <4>1, CommitReaches DEF AnswerReached, Reached
    <3>2. CASE u # serving
      <4>1. reply'[u] = reply[u] /\ pc[u] = "posted" /\ reply[u] # None /\ reply[u] \in Answers
        BY <2>1, <2>2, <3>2 DEF Answer, NetTypes, Owners
      <4>2. AnswerReached(u)
        BY <4>1 DEF AllKnown, AnswersReached, AnswerReached
      <4>3. CASE reply[u].code = 200
        <5>1. PICK g \in Nat, x \in Nat : g = generation[u[1]] /\ x = chunk[u].end
          BY <3>0
        <5>2. Reached(g, x)'
          BY <2>1, <4>2, <4>3, <5>1, CommitReaches DEF AnswerReached
        <5> QED  BY <2>1, <4>1, <4>3, <5>1, <5>2 DEF AnswerReached, Reached
      <4>4. CASE reply[u].code = 409
        <5>1. PICK g \in Nat, x \in Nat : g = reply[u].meta.generation /\ x = reply[u].meta.source_offset
          BY <4>1, <4>4, AnswerMeta DEF Meta
        <5>2. Reached(g, x)' /\ g >= generation[u[1]]
          BY <2>1, <4>2, <4>4, <5>1, CommitReaches DEF AnswerReached
        <5> QED  BY <2>1, <4>1, <4>4, <5>1, <5>2 DEF AnswerReached, Reached
      <4>5. CASE reply[u].code \notin {200, 409}
        BY <4>1, <4>5 DEF AnswerReached
      <4> QED  BY <4>3, <4>4, <4>5
    <3> QED  BY <3>1, <3>2
  <2> QED  BY <2>2 DEF AnswersReached, AnswerReached
<1>18. CASE HandleDelete
  BY <1>18, UndisturbedBefore
<1>19. CASE \/ Tear
            \/ Rotate
            \/ WriteProgress
            \/ HostDies
            \/ UNCHANGED vars
  BY <1>1, <1>19 DEF Tear, storeVars, shipperVars, threadVars, netVars,
       counters, vars, Rotate, WriteProgress, HostDies, LoseMeta
<1>20. ASSUME NEW o \in Shippers,
             StopCalled(o)
      PROVE  AnswersReached'
  BY <1>1, <1>20 DEF StopCalled, storeVars, shipperVars, threadVars,
       netVars, counters, vars
<1>21. ASSUME NEW m \in net,
             HandleAppend(m)
      PROVE  AnswersReached'
  BY <1>1, <1>21 DEF HandleAppend, AppendBody, storeVars, shipperVars,
       threadVars, netVars, counters, vars
<1>22. ASSUME NEW eol \in BOOLEAN,
             Write(eol)
      PROVE  AnswersReached'
  BY <1>1, <1>22 DEF Write, storeVars, shipperVars, threadVars, netVars,
       counters, vars
<1> QED  BY <1>2, <1>3, <1>4, <1>5, <1>6, <1>7, <1>8, <1>9, <1>10, <1>11, <1>12,
         <1>13, <1>14, <1>15, <1>16, <1>17, <1>18, <1>19, <1>20, <1>21,
         <1>22
         DEF Next, SourceStep, ThreadStep, LifecycleStep, HostStep, Handle, Faults


LEMMA PositionsStep ==
  ASSUME Sound, Positions, [Next]_vars
  PROVE  Positions'
<1> SUFFICES ASSUME Undisturbed'
             PROVE  AllKnown'
  BY DEF Positions
<1>1. AllKnown
  BY UndisturbedBefore DEF Sound, Types, Positions
<1> QED  BY <1>1, ShippersKnownStep, RequestsKnownStep, AnswersReachedStep DEF Sound, Types, AllKnown
-----------------------------------------------------------------------------
(* One file, one generation *)

\* The live file grows until another one takes its place.
LEMMA SourceMoves ==
  ASSUME FileTypes, [Next]_vars
  PROVE  /\ Len(files) \in Nat \ {0} /\ Len(files') \in Nat
         /\ (Len(files') = Len(files) + 1 /\ Rotate) \/ Len(files') = Len(files)
         /\ Len(files') = Len(files) =>
              /\ Live.size <= Live'.size /\ Live.size \in Nat /\ Live'.size \in Nat
              /\ Live.ends \subseteq Live'.ends /\ Live.corrupt \subseteq Live'.corrupt
<1>0. Len(files) \in Nat \ {0} /\ Live.size \in Nat
  BY LiveFile, LiveTypes
<1>1. ASSUME NEW eol \in BOOLEAN, Write(eol)
      PROVE  /\ Len(files') = Len(files) /\ Live'.size = Live.size + 1
             /\ Live.ends \subseteq Live'.ends /\ Live.corrupt \subseteq Live'.corrupt
  BY <1>1, WriteEffect
<1>2. CASE Tear
  BY <1>0, <1>2, TearEffect
<1>3. CASE Rotate
  BY <1>0, <1>3, RotateEffect
<1>4. CASE files' = files
  BY <1>0, <1>4 DEF Live
<1>5. (\E eol \in BOOLEAN : Write(eol)) \/ Tear \/ Rotate \/ files' = files
  BY DEF Next, SourceStep, ThreadStep, LifecycleStep, HostStep, Handle, Faults,
     WriteProgress, Read, Post, Posted, ProgressUnchanged, Put, Putted, ConnectionReset, CallFails,
     LoopEnds, DrainStarts, StopCalled, DrainDeadline, Restart, HandleInvalid, HandleMismatch,
     HandleAppend, HandleProgress, HandleCommit, HostDies, HandleDelete, vars
<1> QED  BY <1>0, <1>1, <1>2, <1>3, <1>4, <1>5

\* What a POST adds to the requests.
LEMMA PostAdds ==
  ASSUME ShipperTypes, ThreadTypes, Bodies, NEW t \in Threads, Post(t)
  PROVE  \E n : /\ net' = net \cup {n} /\ n.kind = "telemetry" /\ n.owner = t
                /\ n.json = chunk[t].json /\ n.req \in Request
                /\ n.req.offset = offset[t[1]] /\ n.req.generation = generation[t[1]]
                /\ n.req.body = chunk[t].body /\ n.req.next = chunk[t].end
                /\ n.req.offset = chunk[t].body.from
                /\ chunk[t].body.inc \in Nat /\ Matches(n.req)
                /\ pc[t] = "post" /\ pc' = [pc EXCEPT ![t] = "posted"] /\ t[1] \in Shippers
                /\ chunk' = chunk
<1>1. PICK n : n = [owner |-> t, kind |-> "telemetry", json |-> chunk[t].json, req |-> HeadersNow(t)]
  OBVIOUS
<1>2. /\ net' = net \cup {n} /\ pc[t] = "post" /\ pc' = [pc EXCEPT ![t] = "posted"]
      /\ chunk' = [chunk EXCEPT ![t].end = HeadersNow(t).next]
  BY <1>1 DEF Post, Goto
<1>3. ChunkMatches(t)
  BY <1>2 DEF Bodies
<1>4. HeadersNow(t).next = chunk[t].end /\ Matches(HeadersNow(t))
  BY <1>2, <1>3, PostMatches
<1>5. /\ HeadersNow(t) \in Request /\ HeadersNow(t).offset = offset[t[1]]
      /\ HeadersNow(t).generation = generation[t[1]] /\ HeadersNow(t).body = chunk[t].body
  BY <1>2, HeadersTypes
<1>6. chunk' = chunk
  <2>1. chunk[t] \in Chunks
    BY <1>2 DEF ThreadTypes
  <2>2. PICK c \in Chunks : c = chunk[t]
    BY <2>1
  <2>3. [c EXCEPT !.end = c.end] = c
    BY DEF Chunks
  <2>4. [chunk EXCEPT ![t].end = chunk[t].end] = [chunk EXCEPT ![t] = [c EXCEPT !.end = c.end]]
    BY <2>2 DEF ThreadTypes
  <2> QED  BY <1>2, <1>4, <2>2, <2>3, <2>4 DEF ThreadTypes
<1>7. n.kind = "telemetry" /\ n.owner = t /\ n.req = HeadersNow(t)
  BY <1>1
<1>8. n.json = chunk[t].json
  BY <1>1
<1>9. chunk[t].body.inc \in Nat /\ t[1] \in Shippers /\ chunk[t].body.from = offset[t[1]]
  BY <1>2, <1>3, Posters DEF ChunkMatches
<1>10. n.req \in Request /\ n.req.offset = offset[t[1]] /\ n.req.generation = generation[t[1]]
       /\ n.req.body = chunk[t].body /\ n.req.next = chunk[t].end /\ n.req.offset = chunk[t].body.from
  BY <1>4, <1>5, <1>7, <1>9
<1>11. Matches(n.req)
  BY <1>4, <1>7
<1> QED  BY <1>2, <1>6, <1>7, <1>8, <1>9, <1>10, <1>11

\* Requests whose clients give up stay what they are.
LEMMA TelemetryLeft ==
  ASSUME NetTypes, net' \subseteq net \cup {Abandoned(m) : m \in net}, NEW m \in Telemetry'
  PROVE  \E n \in Telemetry : m.req = n.req /\ m.json = n.json
<1>1. PICK n \in net : m = n \/ m = Abandoned(n)
  BY DEF Telemetry
<1>2. n.kind = "telemetry"
  BY <1>1, AbandonedFields DEF Telemetry
<1>3. m.req = n.req /\ m.json = n.json
  BY <1>1, <1>2, AbandonedFields
<1> QED  BY <1>1, <1>2, <1>3 DEF Telemetry

\* The steps that send no telemetry.
LEMMA TelemetryKept ==
  ASSUME NetTypes, [Next]_vars, \A t \in Threads : ~ Post(t)
  PROVE  \A m \in Telemetry' : \E n \in Telemetry : m.req = n.req /\ m.json = n.json
<1>1. \/ net' \subseteq net \cup {Abandoned(m) : m \in net}
      \/ \E n : net' = net \cup {n} /\ n.kind = "progress"
  <2>1. ASSUME NEW t \in Threads, Put(t)
        PROVE  \E n : net' = net \cup {n} /\ n.kind = "progress"
    <3>1. PICK n : n = [owner |-> t, kind |-> "progress", snapshot |-> status]
      OBVIOUS
    <3> QED  BY <2>1, <3>1 DEF Put
  <2>2. ASSUME NEW t \in Threads, CallFails(t)
        PROVE  net' \subseteq net \cup {Abandoned(m) : m \in net}
    BY <2>2 DEF CallFails, OwnRequests
  <2>3. ASSUME NEW o \in Shippers, Restart(o)
        PROVE  net' \subseteq net \cup {Abandoned(m) : m \in net}
    BY <2>3 DEF Restart
  <2>4. (\E t \in Threads : Put(t) \/ CallFails(t)) \/ (\E o \in Shippers : Restart(o)) \/ net' \subseteq net
    BY DEF Next, SourceStep, ThreadStep, LifecycleStep, HostStep, Handle, Faults, Write, Tear, Rotate,
       WriteProgress, Read, Posted, ProgressUnchanged, Putted, ConnectionReset,
       LoopEnds, DrainStarts, StopCalled, DrainDeadline, HandleInvalid, HandleMismatch,
       HandleAppend, HandleProgress, HandleCommit, HostDies, HandleDelete, netVars, vars
  <2> QED  BY <2>1, <2>2, <2>3, <2>4
<1>2. CASE net' \subseteq net \cup {Abandoned(m) : m \in net}
  BY <1>2, TelemetryLeft
<1>3. CASE \E n : net' = net \cup {n} /\ n.kind = "progress"
  BY <1>3 DEF Telemetry
<1> QED  BY <1>1, <1>2, <1>3

\* A thread's chunk and its shipper's position are its own while it sends.
LEMMA PostersStay ==
  ASSUME FileTypes, ShipperTypes, ThreadTypes, NetTypes, OneBusy, Bodies, [Next]_vars,
         NEW t \in Threads, pc'[t] \in {"post", "posted"}
  PROVE  \/ \E from \in Nat : Read(t) /\ ReadFrom(t, from) /\ ChunkAt(from) # NoChunk
         \/ Post(t) /\ chunk'[t] = chunk[t] /\ generation' = generation /\ offset' = offset
            /\ reply' = reply
         \/ /\ pc'[t] = pc[t] /\ chunk'[t] = chunk[t]
            /\ generation'[t[1]] = generation[t[1]] /\ offset'[t[1]] = offset[t[1]]
<1> DEFINE Q == /\ pc'[t] = pc[t] /\ chunk'[t] = chunk[t]
                /\ generation'[t[1]] = generation[t[1]] /\ offset'[t[1]] = offset[t[1]]
           G == \/ \E from \in Nat : Read(t) /\ ReadFrom(t, from) /\ ChunkAt(from) # NoChunk
                \/ /\ Post(t) /\ chunk'[t] = chunk[t] /\ generation' = generation /\ offset' = offset
                   /\ reply' = reply
                \/ Q
<1>1. t[1] \in Shippers
  BY ThreadParts
<1>2. ASSUME UNCHANGED <<pc, chunk, generation, offset>>
      PROVE  G
  BY <1>2
<1>3. ASSUME NEW u \in Threads, ThreadStep(u) \/ CallFails(u)
      PROVE  G
  <2>1. pc[u] \notin {"off", "done"}
    BY <1>3 DEF ThreadStep, Read, Post, Posted, ProgressUnchanged, Put, Putted, ConnectionReset, CallFails, Waiting
  <2>2. CASE u # t
    <3>1. pc'[t] = pc[t] /\ chunk'[t] = chunk[t]
      <4>1. CASE Read(u)
        BY <2>2, <4>1, ReadEffect DEF ReadFrom
      <4>2. CASE Post(u)
        BY <2>2, <4>2 DEF Post, Goto, ThreadTypes
      <4>3. CASE Posted(u) \/ ProgressUnchanged(u) \/ Put(u)
        BY <2>2, <4>3 DEF Posted, ProgressUnchanged, Put, EndOfTick, Goto, ThreadTypes
      <4>4. CASE Putted(u) \/ ConnectionReset(u) \/ CallFails(u)
        BY <2>2, <4>4 DEF Putted, ConnectionReset, CallFails, EndOfTick, Goto, ThreadTypes
      <4> QED  BY <1>3, <4>1, <4>2, <4>3, <4>4 DEF ThreadStep
    <3>2. u[1] # t[1]
      BY <2>1, <2>2, <3>1, OnlyRunning
    <3>3. generation'[t[1]] = generation[t[1]] /\ offset'[t[1]] = offset[t[1]]
      BY <1>1, <1>3, <3>2 DEF ThreadStep, Read, Post, Posted, ProgressUnchanged, Put, Putted,
         ConnectionReset, CallFails, shipperVars, ShipperTypes
    <3> QED  BY <3>1, <3>3
  <2>3. CASE u = t
    <3>1. CASE Read(t)
      <4>1. PICK from \in Nat : ReadFrom(t, from)
        BY <3>1, ReadEffect
      <4> QED  BY <3>1, <4>1 DEF ReadFrom
    <3>2. CASE Post(t)
      <4>1. chunk' = chunk
        BY <3>2, PostAdds
      <4> QED  BY <3>2, <4>1 DEF Post, shipperVars
    <3>3. CASE Posted(t) \/ ProgressUnchanged(t) \/ Put(t)
      BY <3>3 DEF Posted, ProgressUnchanged, Put, EndOfTick, Goto, ThreadTypes, Raised, Returned
    <3>4. CASE Putted(t) \/ ConnectionReset(t) \/ CallFails(t)
      BY <3>4 DEF Putted, ConnectionReset, CallFails, EndOfTick, Goto, ThreadTypes, Raised, Returned
    <3> QED  BY <1>3, <2>3, <3>1, <3>2, <3>3, <3>4 DEF ThreadStep
  <2> QED  BY <2>2, <2>3
<1>4. ASSUME NEW o \in Shippers, LoopEnds(o) \/ DrainStarts(o) \/ DrainDeadline(o)
      PROVE  G
  BY <1>4 DEF LoopEnds, DrainStarts, DrainDeadline, Goto, ThreadTypes, shipperVars
<1>5. ASSUME NEW o \in Shippers, Restart(o)
      PROVE  G
  <2>1. t \notin {<<o, "loop">>, <<o, "stop">>}
    BY <1>5 DEF Restart
  <2>2. t[1] # o
    BY <2>1, ThreadParts
  <2> QED  BY <1>1, <1>5, <2>1, <2>2 DEF Restart, ShipperTypes
<1>6. ASSUME NEW o \in Shippers, StopCalled(o)
      PROVE  G
  BY <1>2, <1>6 DEF StopCalled, threadVars
<1>7. CASE SourceStep \/ HostStep \/ HostDies \/ HandleDelete \/ UNCHANGED vars
  BY <1>2, <1>7 DEF SourceStep, HostStep, Handle, Write, Tear, Rotate, WriteProgress, HandleInvalid,
     HandleMismatch, HandleAppend, HandleProgress, HandleCommit, HostDies, HandleDelete,
     threadVars, shipperVars, vars
<1> QED  BY <1>3, <1>4, <1>5, <1>6, <1>7 DEF Next, LifecycleStep, Faults
-----------------------------------------------------------------------------
(* What the steps change *)

LEMMA StoreMoves ==
  ASSUME [Next]_vars
  PROVE  \/ UNCHANGED <<log, meta, pending>>
         \/ \E m \in net : HandleAppend(m)
         \/ HandleCommit \/ HostDies \/ HandleDelete
BY ZenonT(40)
   DEF Next, SourceStep, ThreadStep, LifecycleStep, HostStep, Handle, Faults, Write, Tear, Rotate,
   WriteProgress, Read, Post, Posted, ProgressUnchanged, Put, Putted, ConnectionReset, CallFails,
   LoopEnds, DrainStarts, StopCalled, DrainDeadline, Restart, HandleInvalid, HandleMismatch,
   HandleProgress, PutProgress, storeVars, vars

LEMMA ShipperMoves ==
  ASSUME [Next]_vars
  PROVE  \/ UNCHANGED <<offset, generation>>
         \/ \E t \in Threads : Read(t) \/ Posted(t)
         \/ \E o \in Shippers : Restart(o)
BY DEF Next, SourceStep, ThreadStep, LifecycleStep, HostStep, Handle, Faults, Write, Tear, Rotate,
   WriteProgress, Post, ProgressUnchanged, Put, Putted, ConnectionReset, CallFails,
   LoopEnds, DrainStarts, StopCalled, DrainDeadline, HandleInvalid, HandleMismatch,
   HandleAppend, HandleProgress, HandleCommit, HostDies, HandleDelete, shipperVars, vars

\* Where an answer comes from.
LEMMA ReplyMoves ==
  ASSUME NetTypes, [Next]_vars, NEW t \in Threads
  PROVE  \/ reply'[t] \in {reply[t], None}
         \/ \E m \in net : /\ m.owner = t /\ HandleInvalid(m) /\ reply'[t] = [code |-> 400]
         \/ \E m \in net : /\ m.owner = t /\ HandleMismatch(m)
                           /\ reply'[t] = [code |-> 409, meta |-> Rebased(m.req)]
         \/ \E m \in net : /\ m.owner = t /\ HandleProgress(m) /\ reply'[t] = [code |-> 200]
         \/ HandleCommit /\ serving = t /\ reply'[t] = [code |-> 200]
<1> DEFINE G == \/ reply'[t] \in {reply[t], None}
                \/ \E m \in net : /\ m.owner = t /\ HandleInvalid(m) /\ reply'[t] = [code |-> 400]
                \/ \E m \in net : /\ m.owner = t /\ HandleMismatch(m)
                                  /\ reply'[t] = [code |-> 409, meta |-> Rebased(m.req)]
                \/ \E m \in net : /\ m.owner = t /\ HandleProgress(m) /\ reply'[t] = [code |-> 200]
                \/ HandleCommit /\ serving = t /\ reply'[t] = [code |-> 200]
<1> SUFFICES G
  OBVIOUS
<1>0. ASSUME NEW owner \in Owners, NEW a, Answer(owner, a)
      PROVE  reply'[t] = reply[t] \/ (owner = t /\ reply'[t] = a)
  BY <1>0 DEF Answer, NetTypes, Owners
<1>1. ASSUME NEW m \in net, HandleInvalid(m)
      PROVE  G
  <2>1. m.owner \in Owners /\ Answer(m.owner, [code |-> 400])
    BY <1>1, ValidRequest DEF HandleInvalid
  <2> QED  BY <1>0, <1>1, <2>1
<1>2. ASSUME NEW m \in net, HandleMismatch(m)
      PROVE  G
  <2>1. m.owner \in Owners /\ Answer(m.owner, [code |-> 409, meta |-> Rebased(m.req)])
    BY <1>2, ValidRequest DEF HandleMismatch
  <2>2. reply'[t] = reply[t] \/ (m.owner = t /\ reply'[t] = [code |-> 409, meta |-> Rebased(m.req)])
    BY <1>0, <2>1
  <2> QED  BY <1>2, <2>2
<1>3. ASSUME NEW m \in net, HandleProgress(m)
      PROVE  G
  <2>1. m.owner \in Owners /\ Answer(m.owner, [code |-> 200])
    BY <1>3, PutMessage DEF HandleProgress
  <2> QED  BY <1>0, <1>3, <2>1
<1>4. CASE HandleCommit
  <2>1. serving \in Owners /\ Answer(serving, [code |-> 200])
    BY <1>4 DEF HandleCommit, NetTypes
  <2> QED  BY <1>0, <1>4, <2>1
<1>5. CASE SourceStep \/ HostDies \/ HandleDelete \/ UNCHANGED vars
           \/ \E o \in Shippers : LifecycleStep(o) \/ StopCalled(o) \/ DrainDeadline(o)
  <2>1. reply' = reply
    BY <1>5 DEF SourceStep, Write, Tear, Rotate, WriteProgress, HostDies, HandleDelete, LifecycleStep,
       LoopEnds, DrainStarts, StopCalled, DrainDeadline, netVars, vars
  <2> QED  BY <2>1
<1>6. ASSUME NEW o \in Shippers, Restart(o)
      PROVE  G
  BY <1>6 DEF Restart
<1>7. ASSUME NEW u \in Threads, ThreadStep(u) \/ CallFails(u)
      PROVE  G
  <2>1. reply' = reply \/ reply' = [reply EXCEPT ![u] = None]
    BY <1>7 DEF ThreadStep, Read, Post, Posted, ProgressUnchanged, Put, Putted, ConnectionReset,
       CallFails, netVars
  <2> QED  BY <2>1 DEF NetTypes
<1>8. ASSUME NEW m \in net, HandleAppend(m)
      PROVE  G
  BY <1>8 DEF HandleAppend
<1> QED
  <2> HIDE DEF G
  <2> QED  BY <1>1, <1>2, <1>3, <1>4, <1>5, <1>6, <1>7, <1>8 DEF Next, HostStep, Handle, Faults

\* An entry of the history was there before or was on its way.
LEMMA LogMoves ==
  ASSUME StoreTypes, Writing, NetTypes, Bodies, [Next]_vars, NEW i \in DOMAIN log'
  PROVE  \/ i \in DOMAIN log /\ log'[i].body.inc = log[i].body.inc
         \/ \E m \in Telemetry : HandleAppend(m) /\ log'[i] = m.req /\ i = Len(log) + 1
<1>1. CASE UNCHANGED <<log, meta, pending>> \/ HandleCommit
  BY <1>1 DEF HandleCommit, CommitMeta
<1>2. CASE HandleDelete
  BY <1>2 DEF HandleDelete, Delete
<1>3. ASSUME NEW m \in net, HandleAppend(m)
      PROVE  \/ i \in DOMAIN log /\ log'[i].body.inc = log[i].body.inc
             \/ \E n \in Telemetry : HandleAppend(n) /\ log'[i] = n.req /\ i = Len(log) + 1
  <2>1. log' = Append(log, m.req) /\ m \in Telemetry /\ m.req \in Request /\ log \in Seq(Request)
    BY <1>3, ValidRequest DEF HandleAppend, AppendBody, Telemetry, StoreTypes
  <2>2. PICK r \in Request : r = m.req
    BY <2>1
  <2> QED  BY <1>3, <2>1, <2>2, AppendKeeps, AppendProperties
<1>4. CASE HostDies
  <2>1. LoseMeta
    BY <1>4 DEF HostDies
  <2>2. PICK k \in pending.offset .. pending.next : log' = [log EXCEPT ![Len(log)] = Cut(pending, k)]
    BY <2>1 DEF LoseMeta
  <2>3. pending \in Request /\ log \in Seq(Request) /\ Len(log) \in DOMAIN log /\ log[Len(log)] = pending
    BY <2>1, LenProperties DEF LoseMeta, Unlocked, Writing, StoreTypes
  <2>4. Cut(pending, k).body.inc = pending.body.inc
    BY <2>3, CutMatches, EntriesMatch DEF Bodies
  <2> QED  BY <2>2, <2>3, <2>4
<1> QED  BY <1>1, <1>2, <1>3, <1>4, StoreMoves
-----------------------------------------------------------------------------
(* One file, one generation *)

LEMMA FirstRequestsStep ==
  ASSUME FileTypes, ShipperTypes, ThreadTypes, NetTypes, OneBusy, Bodies, FirstGeneration, [Next]_vars
  PROVE  FirstRequests'
<1>1. ASSUME NEW m \in Telemetry', m.req.body.inc = 1
      PROVE  m.req.generation = 0
  <2>1. CASE \E t \in Threads : Post(t)
    <3>1. PICK t \in Threads : Post(t)
      BY <2>1
    <3>2. PICK n : /\ net' = net \cup {n} /\ n.req.generation = generation[t[1]]
                   /\ n.req.body = chunk[t].body /\ pc[t] = "post"
      BY <3>1, PostAdds
    <3> QED  BY <1>1, <3>2 DEF Telemetry, FirstGeneration, FirstRequests
  <2>2. CASE \A t \in Threads : ~ Post(t)
    <3>1. PICK n \in Telemetry : m.req = n.req
      BY <2>2, TelemetryKept
    <3> QED  BY <1>1, <3>1 DEF FirstGeneration, FirstRequests
  <2> QED  BY <2>1, <2>2
<1>2. ASSUME NEW t \in Threads, pc'[t] = "post", chunk'[t].body.inc = 1
      PROVE  generation'[t[1]] = 0
  <2>1. ASSUME NEW from \in Nat, ReadFrom(t, from), ChunkAt(from) # NoChunk
        PROVE  generation'[t[1]] = 0
    <3>1. PICK c : c = ChunkAt(from)
      OBVIOUS
    <3>2. c.body.inc = Len(files) /\ c = chunk'[t]
      BY <2>1, <3>1, ChunkTypes DEF ReadFrom
    <3>3. FirstPositions
      BY <1>2, <3>2 DEF FirstGeneration
    <3> QED  BY <2>1, <3>3 DEF ReadFrom, FirstPositions
  <2>2. ASSUME Post(t)
        PROVE  FALSE
    BY <1>2, <2>2 DEF Post, Goto, ThreadTypes
  <2>3. ASSUME /\ pc'[t] = pc[t] /\ chunk'[t] = chunk[t]
               /\ generation'[t[1]] = generation[t[1]]
        PROVE  generation'[t[1]] = 0
    BY <1>2, <2>3 DEF FirstGeneration, FirstRequests
  <2> QED  BY <1>2, <2>1, <2>2, <2>3, PostersStay
<1> QED  BY <1>1, <1>2 DEF FirstRequests

LEMMA FirstStoredStep ==
  ASSUME StoreTypes, Writing, FileTypes, ShipperTypes, ThreadTypes, NetTypes, Bodies,
         FirstStored, FirstPositions, [Next]_vars
  PROVE  FirstStored'
<1>1. meta'.generation = 0 /\ (pending' # None => pending'.generation = 0)
  <2>1. CASE UNCHANGED <<log, meta, pending>>
    BY <2>1 DEF FirstStored
  <2>2. ASSUME NEW m \in net, HandleAppend(m)
        PROVE  meta'.generation = 0 /\ (pending' # None => pending'.generation = 0)
    BY <2>2 DEF HandleAppend, AppendBody, FirstStored, Telemetry
  <2>3. CASE HandleCommit
    BY <2>3 DEF HandleCommit, CommitMeta, FirstStored, Unlocked
  <2>4. CASE HostDies
    BY <2>4 DEF HostDies, LoseMeta, FirstStored
  <2>5. CASE HandleDelete
    BY <2>5 DEF HandleDelete, Delete, FreshMeta, FirstStored
  <2> QED  BY <2>1, <2>2, <2>3, <2>4, <2>5, StoreMoves
<1>2. ASSUME NEW m \in Telemetry'
      PROVE  m.req.generation = 0
  <2>1. CASE \E t \in Threads : Post(t)
    <3>1. PICK t \in Threads : Post(t)
      BY <2>1
    <3>2. PICK n : net' = net \cup {n} /\ n.req.generation = generation[t[1]] /\ t[1] \in Shippers
      BY <3>1, PostAdds
    <3> QED  BY <1>2, <3>2 DEF Telemetry, FirstStored, FirstPositions
  <2>2. CASE \A t \in Threads : ~ Post(t)
    BY <1>2, <2>2, TelemetryKept DEF FirstStored
  <2> QED  BY <2>1, <2>2
<1> QED  BY <1>1, <1>2 DEF FirstStored

LEMMA FirstPositionsStep ==
  ASSUME FileTypes, ShipperTypes, ThreadTypes, NetTypes,
         FirstPositions, FirstChunks, FirstAnswers, Live.size <= Live'.size, Live'.size \in Nat,
         [Next]_vars
  PROVE  FirstPositions'
<1>0. Live.size \in Nat /\ \A o \in Shippers : offset[o] \in Nat
  BY LiveTypes DEF ShipperTypes
<1>1. ASSUME NEW o \in Shippers, generation'[o] = 0, offset'[o] <= Live.size, offset'[o] \in Nat
      PROVE  generation'[o] = 0 /\ offset'[o] <= Live'.size
  BY <1>0, <1>1
<1>2. CASE UNCHANGED <<offset, generation>>
  BY <1>0, <1>2 DEF FirstPositions
<1>3. ASSUME NEW t \in Threads, Read(t)
      PROVE  FirstPositions'
  <2>1. PICK from \in Nat : ReadFrom(t, from)
    BY <1>3, ReadEffect
  <2>2. generation'[t[1]] = 0 /\ offset'[t[1]] = offset[t[1]] /\ offset[t[1]] <= Live.size
    BY <1>0, <2>1 DEF ReadFrom, FirstPositions
  <2> QED  BY <1>0, <1>1, <2>1, <2>2 DEF ReadFrom, FirstPositions
<1>4. ASSUME NEW t \in Threads, Posted(t)
      PROVE  FirstPositions'
  <2>0. pc[t] = "posted" /\ reply[t] # None
    BY <1>4 DEF Posted
  <2>1. /\ t[1] \in Shippers /\ chunk[t].size \in Nat /\ chunk[t].end \in Nat
        /\ chunk[t].size <= Live.size /\ chunk[t].end <= chunk[t].size
    BY <2>0, Posters DEF FirstChunks
  <2>2. \A o \in Shippers : o # t[1] => offset'[o] = offset[o] /\ generation'[o] = generation[o]
    BY <1>4, <2>1 DEF Posted, ShipperTypes
  <2>3. reply[t] \in Answers
    BY <2>0 DEF NetTypes
  <2>4. generation'[t[1]] = 0 /\ offset'[t[1]] <= Live.size /\ offset'[t[1]] \in Nat
    <3>1. CASE reply[t].code = 200
      <4>1. offset'[t[1]] = chunk[t].end /\ generation'[t[1]] = generation[t[1]]
        BY <1>4, <2>1, <3>1 DEF Posted, ShipperTypes
      <4> QED  BY <1>0, <2>1, <4>1 DEF FirstPositions
    <3>2. CASE reply[t].code = 409
      <4>1. PICK a : a = reply[t].meta
        OBVIOUS
      <4>2. a.source_offset \in Nat /\ a.generation \in Nat /\ a.generation = 0
        BY <2>0, <2>3, <3>2, <4>1, AnswerMeta DEF Meta, FirstAnswers
      <4>3. /\ generation'[t[1]] = IF a.generation > generation[t[1]] THEN a.generation ELSE generation[t[1]]
            /\ offset'[t[1]] = Min2(a.source_offset, chunk[t].size)
        BY <1>4, <2>1, <3>2, <4>1 DEF Posted, ShipperTypes
      <4> QED  BY <1>0, <2>1, <4>2, <4>3 DEF FirstPositions, Min2
    <3>3. CASE reply[t].code = 400
      <4>1. UNCHANGED <<offset, generation>>
        BY <1>4, <3>3 DEF Posted
      <4> QED  BY <1>0, <2>1, <4>1 DEF FirstPositions
    <3> QED  BY <2>3, <3>1, <3>2, <3>3 DEF Answers
  <2> QED  BY <1>0, <1>1, <2>1, <2>2, <2>4 DEF FirstPositions
<1>5. ASSUME NEW o \in Shippers, Restart(o)
      PROVE  FirstPositions'
  <2>1. offset' = [offset EXCEPT ![o] = 0] /\ generation' = [generation EXCEPT ![o] = 0]
    BY <1>5 DEF Restart
  <2> QED  BY <1>0, <1>1, <2>1 DEF FirstPositions, ShipperTypes
<1> QED  BY <1>2, <1>3, <1>4, <1>5, ShipperMoves

LEMMA FirstChunksStep ==
  ASSUME FileTypes, ShipperTypes, ThreadTypes, NetTypes, OneBusy, Bodies,
         FirstChunks, Live.size <= Live'.size, Live'.size \in Nat, [Next]_vars
  PROVE  FirstChunks'
<1>1. ASSUME NEW t \in Threads, pc'[t] \in {"post", "posted"}
      PROVE  chunk'[t].size <= Live'.size /\ chunk'[t].end <= chunk'[t].size
  <2>0. Live.size \in Nat /\ \A e \in Live.ends : e \in 1 .. Live.size
    BY LiveTypes
  <2>1. ASSUME NEW from \in Nat, ReadFrom(t, from), ChunkAt(from) # NoChunk
        PROVE  chunk'[t].size <= Live'.size /\ chunk'[t].end <= chunk'[t].size
    <3>1. PICK c : c = ChunkAt(from)
      OBVIOUS
    <3>2. c.size = Live.size /\ c.end \in Live.ends /\ c = chunk'[t]
      BY <2>1, <3>1, ChunkTypes DEF ReadFrom
    <3> QED  BY <2>0, <3>2
  <2>2. ASSUME pc[t] \in {"post", "posted"}, chunk'[t] = chunk[t]
        PROVE  chunk'[t].size <= Live'.size /\ chunk'[t].end <= chunk'[t].size
    BY <2>0, <2>2, Posters DEF FirstChunks
  <2> QED  BY <1>1, <2>1, <2>2, PostersStay DEF Post
<1> QED  BY <1>1 DEF FirstChunks

LEMMA FirstAnswersStep ==
  ASSUME StoreTypes, NetTypes, FirstStored, FirstAnswers, [Next]_vars
  PROVE  FirstAnswers'
<1>1. ASSUME NEW t \in Threads, reply'[t] # None, reply'[t].code = 409
      PROVE  reply'[t].meta.generation = 0
  <2>1. CASE reply'[t] \in {reply[t], None}
    BY <1>1, <2>1 DEF FirstAnswers
  <2>2. ASSUME NEW m \in net, HandleMismatch(m), reply'[t] = [code |-> 409, meta |-> Rebased(m.req)]
        PROVE  reply'[t].meta.generation = 0
    <3>1. m \in Telemetry
      BY <2>2 DEF HandleMismatch, Telemetry
    <3> QED  BY <2>2, <3>1 DEF FirstStored, Rebased
  <2>3. CASE reply'[t] \in {[code |-> 200], [code |-> 400]}
    BY <1>1, <2>3
  <2> QED  BY <2>1, <2>2, <2>3, ReplyMoves
<1> QED  BY <1>1 DEF FirstAnswers

LEMMA FirstGenerationStep ==
  ASSUME Types, OneBusy, Bodies, FirstGeneration, [Next]_vars
  PROVE  FirstGeneration'
<1>1. FirstRequests'
  BY FirstRequestsStep DEF Types
<1>2. ASSUME Len(files') = 1
      PROVE  (FirstStored /\ FirstPositions /\ FirstChunks /\ FirstAnswers)'
  <2>1. FirstStored /\ FirstPositions /\ FirstChunks /\ FirstAnswers
        /\ Live.size <= Live'.size /\ Live'.size \in Nat
    BY <1>2, SourceMoves DEF Types, FirstGeneration
  <2>2. FirstStored'
    BY <2>1, FirstStoredStep DEF Types
  <2>3. FirstPositions' /\ FirstChunks'
    BY <2>1, FirstPositionsStep, FirstChunksStep DEF Types
  <2>4. FirstAnswers'
    BY <2>1, FirstAnswersStep DEF Types
  <2> QED  BY <2>2, <2>3, <2>4
<1> QED  BY <1>1, <1>2 DEF FirstGeneration
-----------------------------------------------------------------------------
(* Incarnations *)

LEMMA IncarnationNumbers ==
  ASSUME StoreTypes, FileTypes, NetTypes
  PROVE  /\ \A i \in DOMAIN log : log[i].body.inc \in Nat
         /\ \A m \in Telemetry : m.req.body.inc \in Nat
         /\ Len(files) \in Nat
<1>1. ASSUME NEW i \in DOMAIN log
      PROVE  log[i].body.inc \in Nat
  <2>1. log[i] \in Request
    BY DEF StoreTypes
  <2>2. log[i].body \in Body
    BY <2>1 DEF Request
  <2> QED  BY <2>2 DEF Body
<1> QED  BY <1>1, TelemetryPosts, LiveFile

LEMMA IncarnationsStep ==
  ASSUME Alone, Types, OneBusy, Bodies, Incarnations, [Next]_vars
  PROVE  Incarnations'
<1> USE DEF Types
<1>1. /\ Len(files) \in Nat \ {0} /\ Len(files') \in Nat /\ Len(files) <= Len(files')
      /\ 1 .. Len(files) \subseteq 1 .. Len(files')
  BY SourceMoves
<1>2. ASSUME NEW i \in DOMAIN log'
      PROVE  \/ i \in DOMAIN log /\ log'[i].body.inc = log[i].body.inc
             \/ \E m \in Telemetry : log'[i].body.inc = m.req.body.inc
  BY <1>2, LogMoves
<1>3. ASSUME NEW i \in DOMAIN log'
      PROVE  log'[i].body.inc \in 1 .. Len(files')
  BY <1>1, <1>2, <1>3 DEF Incarnations
<1>4. ASSUME NEW m \in Telemetry'
      PROVE  m.req.body.inc \in 1 .. Len(files')
  <2>1. CASE \E t \in Threads : Post(t)
    <3>1. PICK t \in Threads : Post(t)
      BY <2>1
    <3>2. PICK n : net' = net \cup {n} /\ n.req.body = chunk[t].body /\ pc[t] = "post"
      BY <3>1, PostAdds
    <3> QED  BY <1>1, <1>4, <3>2 DEF Telemetry, Incarnations
  <2>2. CASE \A t \in Threads : ~ Post(t)
    <3>1. PICK n \in Telemetry : m.req = n.req
      BY <1>4, <2>2, TelemetryKept
    <3> QED  BY <1>1, <3>1 DEF Incarnations
  <2> QED  BY <2>1, <2>2
<1>5. ASSUME NEW t \in Threads, pc'[t] = "post"
      PROVE  /\ chunk'[t].body.inc \in 1 .. Len(files')
             /\ \A i \in DOMAIN log' : log'[i].body.inc <= chunk'[t].body.inc
             /\ \A m \in Telemetry' : m.req.body.inc <= chunk'[t].body.inc
  <2>1. ASSUME NEW from \in Nat, Read(t), ReadFrom(t, from), ChunkAt(from) # NoChunk
        PROVE  /\ chunk'[t].body.inc \in 1 .. Len(files')
               /\ \A i \in DOMAIN log' : log'[i].body.inc <= chunk'[t].body.inc
               /\ \A m \in Telemetry' : m.req.body.inc <= chunk'[t].body.inc
    <3>1. PICK c : c = ChunkAt(from)
      OBVIOUS
    <3>2. c.body.inc = Len(files) /\ c = chunk'[t]
      BY <2>1, <3>1, ChunkTypes DEF ReadFrom
    <3>3. log' = log /\ net' = net
      BY <2>1 DEF Read, storeVars, netVars
    <3> QED  BY <1>1, <3>2, <3>3, IncarnationNumbers DEF Incarnations, Telemetry
  <2>2. ASSUME Post(t)
        PROVE  FALSE
    BY <1>5, <2>2 DEF Post, Goto, ThreadTypes
  <2>3. ASSUME pc'[t] = pc[t], chunk'[t] = chunk[t]
        PROVE  /\ chunk'[t].body.inc \in 1 .. Len(files')
               /\ \A i \in DOMAIN log' : log'[i].body.inc <= chunk'[t].body.inc
               /\ \A m \in Telemetry' : m.req.body.inc <= chunk'[t].body.inc
    <3>1. \A u \in Threads : ~ Post(u)
      <4>1. SUFFICES ASSUME NEW u \in Threads, Post(u)
                     PROVE  FALSE
        OBVIOUS
      <4>2. pc[u] = "post" /\ pc[t] = "post"
        BY <1>5, <2>3, <4>1 DEF Post
      <4>3. u = t
        BY <4>2, OnlyRunning, ThreadParts DEF Alone
      <4> QED  BY <2>2, <4>1, <4>3
    <3>2. \A m \in Telemetry' : \E n \in Telemetry : m.req = n.req
      BY <3>1, TelemetryKept
    <3>3. pc[t] = "post"
      BY <1>5, <2>3
    <3> QED  BY <1>1, <1>2, <2>3, <3>2, <3>3 DEF Incarnations
  <2> QED  BY <1>5, <2>1, <2>2, <2>3, PostersStay
<1> QED  BY <1>3, <1>4, <1>5 DEF Incarnations
-----------------------------------------------------------------------------
(* The order of the files *)

\* What an accepted request is to the store.
LEMMA AcceptedThere ==
  ASSUME StoreTypes, NEW r \in Request, Accepts(r)
  PROVE  /\ r.generation \in Nat /\ r.offset \in Nat /\ r.next \in Nat
         /\ meta.generation \in Nat /\ meta.source_offset \in Nat
         /\ \/ r.generation > meta.generation /\ r.offset = 0
            \/ r.generation = meta.generation /\ r.offset = meta.source_offset
BY MetaNumbers, AcceptedLinesUp DEF StoreTypes, Meta, Request

\* ... and what it does to the order.
LEMMA AppendOrders ==
  ASSUME StoreTypes, NetTypes, Bodies, RequestsKnown, FilesInOrder, LateIsPast, LateFollows,
         NEW n \in net, HandleAppend(n), FileTypes
  PROVE  FilesInOrder' /\ LateIsPast' /\ LateFollows'
<1>1. /\ n \in Telemetry /\ n.req \in Request /\ n.req # None /\ Accepts(n.req)
      /\ log \in Seq(Request) /\ log' = Append(log, n.req) /\ pending = None /\ pending' = n.req
      /\ meta' = meta /\ Telemetry' \subseteq Telemetry
  BY ValidRequest, NoneAssumption
     DEF HandleAppend, AppendBody, Unlocked, StoreTypes, Telemetry
<1>2. PICK r \in Request : r = n.req
  BY <1>1
<1>3. /\ r.generation \in Nat /\ r.offset \in Nat /\ r.next \in Nat /\ r.offset < r.next
      /\ meta.generation \in Nat /\ meta.source_offset \in Nat
      /\ \/ r.generation > meta.generation /\ r.offset = 0
         \/ r.generation = meta.generation /\ r.offset = meta.source_offset
  BY <1>1, <1>2, AcceptedThere DEF Bodies, Matches
<1>4. \A i \in DOMAIN log' : (i \in DOMAIN log /\ log'[i] = log[i]) \/ (i = Len(log) + 1 /\ log'[i] = r)
  BY <1>1, <1>2, AppendKeeps, AppendProperties
<1>5. \A i \in DOMAIN log : i \in Nat /\ i <= Len(log) /\ Len(log) \in Nat
  BY <1>1, LenProperties
<1>6. ~ Past(r.generation, r.offset)
  BY <1>1, <1>3 DEF Past
<1>7. \A i \in DOMAIN log : log[i].body.inc <= r.body.inc
  BY <1>1, <1>2, <1>6, IncarnationNumbers DEF LateIsPast
<1>8. FilesInOrder'
  BY <1>4, <1>5, <1>7 DEF FilesInOrder
<1>9. ASSUME NEW m \in Telemetry', NEW i \in DOMAIN log', log'[i].body.inc > m.req.body.inc
      PROVE  Past(m.req.generation, m.req.offset)'
  <2>1. m \in Telemetry /\ m.req.generation \in Nat /\ m.req.offset \in Nat
    BY <1>1, <1>9, TelemetryPosts
  <2>2. CASE i \in DOMAIN log /\ log'[i] = log[i]
    <3>1. Past(m.req.generation, m.req.offset)
      BY <1>9, <2>1, <2>2 DEF LateIsPast
    <3> QED  BY <1>1, <1>2, <1>3, <2>1, <3>1 DEF Past
  <2>3. CASE log'[i] = r
    <3>1. m.req.generation <= r.generation \/ Reached(m.req.generation, m.req.offset)
      BY <1>1, <1>2, <1>9, <2>1, <2>3, IncarnationNumbers DEF LateFollows
    <3>2. Known(m.req.generation, m.req.offset)
      BY <2>1 DEF RequestsKnown
    <3> QED  BY <1>1, <1>2, <1>3, <2>1, <3>1, <3>2 DEF Past, Known, Reached
  <2> QED  BY <1>4, <2>2, <2>3
<1>10. LateFollows'
  BY <1>1 DEF LateFollows, Reached
<1> QED  BY <1>8, <1>9, <1>10 DEF LateIsPast

LEMMA OrderedStep ==
  ASSUME Alone, Sound, Positions, FirstGeneration, Incarnations, Ordered, [Next]_vars
  PROVE  Ordered'
<1> USE DEF Sound, Types
<1> SUFFICES ASSUME Undisturbed', (restarts = 0 \/ Len(files) <= 2)'
             PROVE  Ordering'
  BY DEF Ordered
<1>1. Undisturbed /\ ~ HostDies /\ ~ HandleDelete
  BY UndisturbedBefore
<1>2. (restarts' = restarts /\ \A o \in Shippers : ~ Restart(o)) \/ restarts' = restarts + 1
  BY DEF Next, SourceStep, ThreadStep, LifecycleStep, HostStep, Handle, Faults, Write, Tear, Rotate,
     WriteProgress, Read, Post, Posted, ProgressUnchanged, Put, Putted, ConnectionReset, CallFails,
     LoopEnds, DrainStarts, StopCalled, DrainDeadline, Restart, HandleInvalid, HandleMismatch,
     HandleAppend, HandleProgress, HandleCommit, HostDies, HandleDelete, counters, vars, CounterTypes
<1>3. /\ Len(files) \in Nat /\ Len(files') \in Nat /\ Len(files) <= Len(files')
  BY SourceMoves
<1>4. Ordering /\ AllKnown
  BY <1>1, <1>2, <1>3 DEF Ordered, Positions, CounterTypes
<1>5. restarts' = 0 => restarts = 0 /\ \A o \in Shippers : ~ Restart(o)
  BY <1>2 DEF CounterTypes
\* Generations only go up.
<1>6. ASSUME NEW o \in Shippers, restarts' = 0
      PROVE  generation[o] <= generation'[o] /\ generation[o] \in Nat /\ generation'[o] \in Nat
  <2>0. generation[o] \in Nat
    BY DEF ShipperTypes
  <2>1. CASE UNCHANGED <<offset, generation>>
    BY <2>0, <2>1
  <2>2. ASSUME NEW t \in Threads, Read(t)
        PROVE  generation[o] <= generation'[o] /\ generation'[o] \in Nat
    BY <2>0, <2>2, ReadEffect DEF ReadFrom
  <2>3. ASSUME NEW t \in Threads, Posted(t)
        PROVE  generation[o] <= generation'[o] /\ generation'[o] \in Nat
    <3>0. reply[t] \in Answers /\ t[1] \in Shippers
      BY <2>3, ThreadParts DEF Posted, NetTypes
    <3>1. CASE generation' = generation
      BY <2>0, <3>1
    <3>2. CASE reply[t].code = 409
      <4>1. PICK a \in Nat : a = reply[t].meta.generation
        BY <3>0, <3>2, AnswerMeta DEF Meta
      <4>2. generation' = [generation EXCEPT ![t[1]] =
               IF a > generation[t[1]] THEN a ELSE generation[t[1]]]
        BY <2>3, <3>2, <4>1 DEF Posted
      <4> QED  BY <2>0, <3>0, <4>1, <4>2 DEF ShipperTypes
    <3> QED  BY <2>3, <3>1, <3>2 DEF Posted
  <2> QED  BY <1>5, <1>6, <2>0, <2>1, <2>2, <2>3, ShipperMoves
<1>7. CASE \E t \in Threads : Post(t)
  <2>1. PICK t \in Threads : Post(t)
    BY <1>7
  <2>2. PICK n : /\ net' = net \cup {n} /\ n.kind = "telemetry" /\ n.req \in Request
                 /\ n.req.generation = generation[t[1]] /\ n.req.body = chunk[t].body
                 /\ pc[t] = "post" /\ t[1] \in Shippers
    BY <2>1, PostAdds
  <2>3. UNCHANGED <<log, meta, pending, generation>>
    BY <2>1 DEF Post, storeVars, shipperVars
  <2>4. n.req.body.inc \in Nat /\ n.req.generation \in Nat
    BY <2>2, Posters DEF Request
  <2>5. \A m \in Telemetry' : m \in Telemetry \/ m = n
    BY <2>2 DEF Telemetry
  <2>6. /\ \A i \in DOMAIN log : log[i].body.inc <= n.req.body.inc
        /\ \A m \in Telemetry : m.req.body.inc <= n.req.body.inc
        /\ n.req.body.inc \in 1 .. Len(files)
    BY <2>2 DEF Incarnations
  <2>7. FilesInOrder'
    BY <1>4, <2>3 DEF Ordering, FilesInOrder
  <2>8. LateIsPast'
    BY <1>4, <2>3, <2>4, <2>5, <2>6, IncarnationNumbers DEF Ordering, LateIsPast, Past
  <2>9. ASSUME NEW m \in Telemetry', NEW k \in Telemetry', m.req.body.inc < k.req.body.inc
        PROVE  m.req.generation <= k.req.generation \/ Reached(m.req.generation, m.req.offset)'
    <3>1. m \in Telemetry
      BY <2>4, <2>5, <2>6, <2>9, IncarnationNumbers
    <3>2. CASE k \in Telemetry
      BY <1>4, <2>3, <2>9, <3>1, <3>2 DEF Ordering, LateFollows, Reached
    <3>3. CASE k = n
      <4>1. CASE restarts = 0
        BY <1>4, <2>2, <3>1, <3>3, <4>1 DEF Ordering, NoneAhead
      <4>2. CASE restarts # 0
        <5>1. Len(files) <= 2
          BY <1>2, <1>3, <4>2 DEF CounterTypes
        <5>2. m.req.body.inc = 1
          BY <1>3, <2>6, <2>9, <3>1, <3>3, <5>1 DEF Incarnations
        <5>3. m.req.generation = 0
          BY <3>1, <5>2 DEF FirstGeneration, FirstRequests
        <5> QED  BY <2>4, <3>3, <5>3
      <4> QED  BY <4>1, <4>2
    <3> QED  BY <2>5, <3>2, <3>3
  <2>10. ASSUME restarts' = 0
         PROVE  NoneAhead'
    <3>1. \A o \in Shippers : o = t[1]
      BY <2>2 DEF Alone
    <3> QED  BY <1>4, <1>5, <2>2, <2>3, <2>4, <2>5, <2>10, <3>1 DEF Ordering, NoneAhead
  <2> QED  BY <2>7, <2>8, <2>9, <2>10 DEF Ordering, LateFollows
<1>8. CASE \A t \in Threads : ~ Post(t)
  <2>1. \A m \in Telemetry' : \E n \in Telemetry : m.req = n.req
    BY <1>8, TelemetryKept
  <2>2. ASSUME restarts' = 0
        PROVE  NoneAhead'
    <3>1. NoneAhead
      BY <1>4, <1>5, <2>2 DEF Ordering
    <3>2. ASSUME NEW m \in Telemetry', NEW o \in Shippers
          PROVE  m.req.generation <= generation'[o]
      <4>1. PICK n \in Telemetry : m.req = n.req
        BY <2>1, <3>2
      <4>2. n.req.generation \in Nat /\ n.req.generation <= generation[o]
        BY <3>1, TelemetryPosts DEF NoneAhead
      <4> QED  BY <1>6, <2>2, <4>1, <4>2
    <3> QED  BY <3>2 DEF NoneAhead
  <2>3. CASE UNCHANGED <<log, meta, pending>>
    <3>1. FilesInOrder' /\ LateIsPast' /\ LateFollows'
      BY <1>4, <2>1, <2>3 DEF Ordering, FilesInOrder, LateIsPast, LateFollows, Past, Reached
    <3> QED  BY <2>2, <3>1 DEF Ordering
  <2>4. ASSUME NEW m \in net, HandleAppend(m)
        PROVE  Ordering'
    BY <1>4, <2>2, <2>4, AppendOrders DEF Ordering, AllKnown
  <2>5. CASE HandleCommit
    <3>1. CommitMeta /\ log' = log /\ pending # None /\ pending' = None
      BY <2>5 DEF HandleCommit, CommitMeta, Unlocked
    <3>2. FilesInOrder'
      BY <1>4, <3>1 DEF Ordering, FilesInOrder
    <3>3. LateIsPast'
      BY <1>4, <2>1, <3>1, CommitReaches DEF Ordering, LateIsPast, Past
    <3>4. ASSUME NEW m \in Telemetry', NEW k \in Telemetry', m.req.body.inc < k.req.body.inc
          PROVE  m.req.generation <= k.req.generation \/ Reached(m.req.generation, m.req.offset)'
      <4>1. PICK n \in Telemetry, l \in Telemetry : m.req = n.req /\ k.req = l.req
        BY <2>1, <3>4
      <4>2. PICK g \in Nat, x \in Nat : g = n.req.generation /\ x = n.req.offset
        BY TelemetryPosts
      <4>3. g <= l.req.generation \/ Reached(g, x)
        BY <1>4, <3>4, <4>1, <4>2 DEF Ordering, LateFollows
      <4>4. g <= l.req.generation \/ Reached(g, x)'
        BY <3>1, <4>3, CommitReaches
      <4> QED  BY <4>1, <4>2, <4>4 DEF Reached
    <3> QED  BY <2>2, <3>2, <3>3, <3>4 DEF Ordering, LateFollows
  <2> QED  BY <1>1, <2>3, <2>4, <2>5, StoreMoves
<1> QED  BY <1>7, <1>8
-----------------------------------------------------------------------------
(* One shipper *)

OneShipper ==
  Sound /\ Forward /\ Positions /\ FirstGeneration /\ Incarnations /\ Ordered

LEMMA OneShipperInit ==
  ASSUME Init
  PROVE  OneShipper
<1>1. Sound
  BY SoundInit
<1>2. /\ log = <<>> /\ meta = FreshMeta /\ pending = None /\ progress = None /\ net = {}
      /\ Len(files) = 1 /\ Telemetry = {} /\ status = 0
      /\ \A o \in Shippers : offset[o] = 0 /\ generation[o] = 0 /\ digest[o] = 0
      /\ \A t \in Threads : pc[t] \in {"tick", "off"} /\ reply[t] = None
  BY DEF Init, StoreInit, Telemetry
<1>3. DOMAIN log = {}
  BY <1>2
<1>4. Forward
  BY <1>2 DEF Forward, Newest
<1>5. Positions
  BY <1>2 DEF Positions, AllKnown, ShippersKnown, RequestsKnown, AnswersReached, Known, Reached, FreshMeta
<1>6. FirstGeneration
  <2>1. Live.size \in Nat
    BY <1>1, LiveFile DEF Sound, Types, Files
  <2>2. FirstPositions
    BY <1>2, <2>1 DEF FirstPositions
  <2> QED  BY <1>2, <2>2 DEF FirstGeneration, FirstRequests, FirstStored, FirstChunks, FirstAnswers, FreshMeta
<1>7. Incarnations
  BY <1>2, <1>3 DEF Incarnations
<1>8. Ordered
  BY <1>2, <1>3 DEF Ordered, Ordering, FilesInOrder, LateIsPast, LateFollows, NoneAhead
<1> QED  BY <1>1, <1>4, <1>5, <1>6, <1>7, <1>8 DEF OneShipper

LEMMA OneShipperStep ==
  ASSUME ~ JoinMayTimeOut, Alone, OneShipper, [Next]_vars
  PROVE  OneShipper'
<1> USE DEF OneShipper
<1>1. Sound'
  BY SoundStep
<1>2. Forward'
  BY ForwardStep DEF Sound, Types
<1>3. Positions'
  BY PositionsStep
<1>4. FirstGeneration'
  BY FirstGenerationStep DEF Sound
<1>5. Incarnations'
  BY IncarnationsStep DEF Sound
<1>6. Ordered'
  BY OrderedStep
<1> QED  BY <1>1, <1>2, <1>3, <1>4, <1>5, <1>6

LEMMA OneShipperHolds ==
  ASSUME ~ JoinMayTimeOut, \A o, p \in Shippers : o = p
  PROVE  Spec => []OneShipper
<1>1. Alone
  BY DEF Alone
<1>2. Init => OneShipper
  BY OneShipperInit
<1>3. OneShipper /\ [Next]_vars => OneShipper'
  BY <1>1, OneShipperStep
<1> QED  BY <1>2, <1>3, PTL DEF Spec

\* A snapshot the run's only shipper believes delivered is what the dashboard
\* reads, or an older one, unless a PUT given up on may still be handled or the
\* run was deleted (shipper.py:205-214).
THEOREM ShippedStatusIsShownCorrect ==
  ASSUME ~ JoinMayTimeOut, \A o, p \in Shippers : o = p
  PROVE  Spec => []ShippedStatusIsShown
<1>1. OneShipper => ShippedStatusIsShown
  BY SnapshotNumbers DEF OneShipper, Sound, Types, Forward, Newest, ShippedStatusIsShown
<1> QED  BY <1>1, OneShipperHolds, PTL

\* Lines of a rotated file never land behind lines of the file that replaced
\* it, however late the requests of the run's only shipper are and however often
\* its process is started anew while the file was replaced once (server.py:92-98).
THEOREM OldFileNeverAfterNewCorrect ==
  ASSUME ~ JoinMayTimeOut, \A o, p \in Shippers : o = p
  PROVE  Spec => []OldFileNeverAfterNew
<1>1. OneShipper => OldFileNeverAfterNew
  BY DEF OneShipper, Ordered, Ordering, Undisturbed, OldFileNeverAfterNew
<1> QED  BY <1>1, OneShipperHolds, PTL
-----------------------------------------------------------------------------
(* Whole lines *)

LEMMA FaultlessBefore ==
  ASSUME StoreTypes, CounterTypes, [Next]_vars, Faultless'
  PROVE  /\ Faultless /\ Undisturbed /\ Undisturbed' /\ ~ HostDies /\ ~ HandleDelete
         /\ failures' = failures
         /\ \A t \in Threads : ~ CallFails(t)
         /\ \A o \in Shippers : ~ DrainDeadline(o)
<1>1. Undisturbed'
  BY DEF Undisturbed, Faultless
<1>2. Undisturbed /\ ~ HostDies /\ ~ HandleDelete
  BY <1>1, UndisturbedBefore
<1>3. failures \in Nat /\ failures' = 0
  BY DEF CounterTypes, Faultless
<1>4. \A t \in Threads : ~ CallFails(t)
  BY <1>3 DEF CallFails
<1>5. \A o \in Shippers : ~ DrainDeadline(o)
  BY <1>3 DEF DrainDeadline
<1>6. \A t \in Threads : EndOfTick(t) => failures' = failures
  BY <1>3 DEF EndOfTick
<1>7. failures' = failures
  BY <1>2, <1>4, <1>5, <1>6
     DEF Next, SourceStep, ThreadStep, LifecycleStep, HostStep, Handle, Faults, Write, Tear, Rotate,
     WriteProgress, Read, Post, Posted, ProgressUnchanged, Put, Putted, ConnectionReset,
     LoopEnds, DrainStarts, StopCalled, Restart, HandleInvalid, HandleMismatch,
     HandleAppend, HandleProgress, HandleCommit, counters, vars
<1>8. Faultless
  BY <1>2, <1>3, <1>7 DEF Undisturbed, Faultless
<1> QED  BY <1>1, <1>2, <1>4, <1>5, <1>7, <1>8

\* A PUT that went astray stays astray.
LEMMA StrayStays ==
  ASSUME [Next]_vars, stray
  PROVE  stray'
BY ZenonT(40)
   DEF Next, SourceStep, ThreadStep, LifecycleStep, HostStep, Handle, Faults, Write, Tear, Rotate,
     WriteProgress, Read, Post, Posted, ProgressUnchanged, Put, Putted, ConnectionReset, CallFails,
     LoopEnds, DrainStarts, StopCalled, DrainDeadline, Restart, HandleInvalid, HandleMismatch,
     HandleAppend, HandleProgress, HandleCommit, HostDies, HandleDelete, Strays, counters, vars

LEMMA QuietBefore ==
  ASSUME Types, [Next]_vars, Quiet'
  PROVE  /\ Quiet /\ Len(files') = Len(files)
         /\ Live.size \in Nat /\ Live'.size \in Nat /\ Live.size <= Live'.size
         /\ Live.ends \subseteq Live'.ends
<1>1. Faultless
  BY FaultlessBefore DEF Types, Quiet
<1>2. ~ stray
  BY StrayStays DEF Quiet
<1>3. Len(files') = 1 /\ Len(files) \in Nat \ {0} /\ Len(files') = Len(files)
  BY SourceMoves DEF Types, Quiet
<1>4. /\ Live.size \in Nat /\ Live'.size \in Nat /\ Live.size <= Live'.size
      /\ Live.ends \subseteq Live'.ends /\ Live.corrupt \subseteq Live'.corrupt
  BY <1>3, SourceMoves DEF Types
<1>5. Live'.corrupt = {}
  BY DEF Quiet
<1> QED  BY <1>1, <1>2, <1>3, <1>4, <1>5 DEF Quiet

LEMMA EndsWithin ==
  ASSUME FileTypes, NEW x, IsEnd(x)
  PROVE  x \in Nat /\ x <= Live.size
BY LiveTypes DEF IsEnd

LEMMA LinesStoredStep ==
  ASSUME Types, LinesStored, LinesSent, Live.ends \subseteq Live'.ends, [Next]_vars,
         ~ HostDies, ~ HandleDelete
  PROVE  LinesStored'
<1>1. CASE UNCHANGED <<log, meta, pending>>
  BY <1>1 DEF LinesStored, IsEnd
<1>2. ASSUME NEW m \in net, HandleAppend(m)
      PROVE  LinesStored'
  <2>1. m \in Telemetry /\ pending' = m.req /\ meta' = meta
    BY <1>2 DEF HandleAppend, AppendBody, Telemetry
  <2> QED  BY <2>1 DEF LinesStored, LinesSent, IsEnd
<1>3. CASE HandleCommit
  <2>1. pending # None /\ pending' = None /\ meta'.source_offset = pending.next
    BY <1>3 DEF HandleCommit, CommitMeta, Unlocked
  <2> QED  BY <2>1 DEF LinesStored, IsEnd
<1> QED  BY <1>1, <1>2, <1>3, StoreMoves

LEMMA LinesSentStep ==
  ASSUME Types, Bodies, LinesSent, LinesSeen, Live.ends \subseteq Live'.ends, [Next]_vars
  PROVE  LinesSent'
<1> SUFFICES ASSUME NEW m \in Telemetry'
             PROVE  m.json /\ IsEnd(m.req.offset)' /\ IsEnd(m.req.next)'
  BY DEF LinesSent
<1>1. CASE \E t \in Threads : Post(t)
  <2>1. PICK t \in Threads : Post(t)
    BY <1>1
  <2>2. PICK n : /\ net' = net \cup {n} /\ n.json = chunk[t].json /\ pc[t] = "post"
                 /\ n.req.next = chunk[t].end /\ n.req.offset = chunk[t].body.from
    BY <2>1, PostAdds DEF Types
  <2>3. SeenBy(t)
    BY <2>2 DEF LinesSeen
  <2>4. CASE m = n
    <3>1. m.json
      BY <2>2, <2>3, <2>4, Zenon DEF SeenBy
    <3> QED  BY <2>2, <2>3, <2>4, <3>1 DEF SeenBy, IsEnd
  <2>5. CASE m # n
    <3>1. m \in Telemetry
      BY <2>2, <2>5 DEF Telemetry
    <3> QED  BY <3>1 DEF LinesSent, IsEnd
  <2> QED  BY <2>4, <2>5
<1>2. CASE \A t \in Threads : ~ Post(t)
  <2>1. PICK n \in Telemetry : m.req = n.req /\ m.json = n.json
    BY <1>2, TelemetryKept DEF Types
  <2>2. m.json
    BY <2>1, Zenon DEF LinesSent
  <2> QED  BY <2>1, <2>2 DEF LinesSent, IsEnd
<1> QED  BY <1>1, <1>2

LEMMA LinesShippedStep ==
  ASSUME Types, LinesShipped, LinesSeen, LinesAnswered, Live.ends \subseteq Live'.ends, [Next]_vars
  PROVE  LinesShipped'
<1> USE DEF Types
<1>1. CASE UNCHANGED <<offset, generation>>
  BY <1>1 DEF LinesShipped, IsEnd
<1>2. ASSUME NEW t \in Threads, Read(t)
      PROVE  LinesShipped'
  <2>1. PICK from \in Nat : ReadFrom(t, from)
    BY <1>2, ReadEffect
  <2>2. offset'[t[1]] \in {0, offset[t[1]]} /\ t[1] \in Shippers
        /\ \A o \in Shippers : o # t[1] => offset'[o] = offset[o]
    BY <2>1 DEF ReadFrom
  <2> QED  BY <2>2 DEF LinesShipped, IsEnd
<1>3. ASSUME NEW t \in Threads, Posted(t)
      PROVE  LinesShipped'
  <2>0. pc[t] = "posted" /\ reply[t] # None
    BY <1>3 DEF Posted
  <2>1. t[1] \in Shippers /\ chunk[t].size \in Nat /\ chunk[t].end \in Nat /\ SeenBy(t)
    BY <2>0, Posters DEF LinesSeen
  <2>2. \A o \in Shippers : o # t[1] => offset'[o] = offset[o]
    BY <1>3, <2>1 DEF Posted, ShipperTypes
  <2>3. reply[t] \in Answers
    BY <2>0 DEF NetTypes
  <2>4. IsEnd(offset'[t[1]])
    <3>1. CASE reply[t].code = 200
      <4>1. offset'[t[1]] = chunk[t].end
        BY <1>3, <2>1, <3>1 DEF Posted, ShipperTypes
      <4> QED  BY <2>1, <4>1 DEF SeenBy
    <3>2. CASE reply[t].code = 409
      <4>1. PICK x : x = reply[t].meta.source_offset
        OBVIOUS
      <4>2. x \in Nat /\ IsEnd(x) /\ x <= chunk[t].size
        BY <2>0, <2>3, <3>2, <4>1, AnswerMeta DEF Meta, LinesAnswered
      <4>3. offset'[t[1]] = Min2(x, chunk[t].size)
        BY <1>3, <2>1, <3>2, <4>1 DEF Posted, ShipperTypes
      <4> QED  BY <4>2, <4>3 DEF Min2
    <3>3. CASE reply[t].code = 400
      BY <2>0, <3>3 DEF LinesAnswered
    <3> QED  BY <2>3, <3>1, <3>2, <3>3 DEF Answers
  <2> QED  BY <2>1, <2>2, <2>4 DEF LinesShipped, IsEnd
<1>4. ASSUME NEW o \in Shippers, Restart(o)
      PROVE  LinesShipped'
  <2>1. offset' = [offset EXCEPT ![o] = 0]
    BY <1>4 DEF Restart
  <2> QED  BY <2>1 DEF LinesShipped, ShipperTypes, IsEnd
<1> QED  BY <1>1, <1>2, <1>3, <1>4, ShipperMoves

LEMMA LinesSeenStep ==
  ASSUME Alone, Types, OneBusy, Bodies, Quiet, FirstChunks, LinesStored, LinesSent, LinesShipped,
         LinesSeen, Live.ends \subseteq Live'.ends, [Next]_vars, ~ HostDies, ~ HandleDelete
  PROVE  LinesSeen'
<1> USE DEF Types
<1> SUFFICES ASSUME NEW t \in Threads, pc'[t] \in {"post", "posted"}
             PROVE  SeenBy(t)'
  BY DEF LinesSeen
<1>1. ASSUME NEW from \in Nat, Read(t), ReadFrom(t, from), ChunkAt(from) # NoChunk
      PROVE  SeenBy(t)'
  <2>1. PICK c : c = ChunkAt(from)
    OBVIOUS
  <2>2. UNCHANGED <<meta, pending, net>>
    BY <1>1 DEF Read, storeVars, netVars
  <2>3. IsEnd(from)
    BY <1>1 DEF ReadFrom, LinesShipped, IsEnd
  <2>4. /\ c = chunk'[t] /\ c.size = Live.size /\ c.end \in Live.ends /\ c.body.from = from
        /\ (IsEnd(from) /\ Live.corrupt = {} => c.json)
    BY <1>1, <2>1, ChunkTypes DEF ReadFrom
  <2>5. chunk'[t].json
    BY <2>3, <2>4, Zenon DEF Quiet
  <2>6. /\ meta.source_offset <= Live.size
        /\ pending # None => pending.next <= Live.size
        /\ \A m \in Telemetry : m.req.next <= Live.size
    BY EndsWithin DEF LinesStored, LinesSent
  <2>7. IsEnd(from)' /\ IsEnd(c.end)'
    BY <2>3, <2>4 DEF IsEnd
  <2>8. /\ IsEnd(chunk[t].body.from)' /\ IsEnd(chunk[t].end)'
        /\ chunk'[t].size = Live.size /\ Telemetry' = Telemetry
    BY <2>2, <2>4, <2>7 DEF IsEnd, Telemetry
  <2> QED  BY <2>2, <2>5, <2>6, <2>8 DEF SeenBy
<1>2. ASSUME Post(t)
      PROVE  SeenBy(t)'
  <2>1. PICK n : /\ net' = net \cup {n} /\ n.req.next = chunk[t].end
                 /\ pc[t] = "post" /\ chunk' = chunk
    BY <1>2, PostAdds
  <2>2. SeenBy(t) /\ chunk[t].end <= chunk[t].size
    BY <2>1 DEF LinesSeen, FirstChunks
  <2>3. UNCHANGED <<meta, pending>>
    BY <1>2 DEF Post, storeVars
  <2>4. \A m \in Telemetry' : m.req.next <= chunk[t].size
    BY <2>1, <2>2 DEF Telemetry, SeenBy
  <2>5. chunk'[t].json
    BY <2>1, <2>2, Zenon DEF SeenBy
  <2>6. IsEnd(chunk[t].body.from)' /\ IsEnd(chunk[t].end)'
    BY <2>1, <2>2 DEF SeenBy, IsEnd
  <2> QED  BY <2>1, <2>2, <2>3, <2>4, <2>5, <2>6 DEF SeenBy
<1>3. ASSUME pc'[t] = pc[t], chunk'[t] = chunk[t]
      PROVE  SeenBy(t)'
  <2>0. SeenBy(t)
    BY <1>3 DEF LinesSeen
  <2>1. \A u \in Threads : ~ Post(u)
    <3>1. SUFFICES ASSUME NEW u \in Threads, Post(u)
                   PROVE  FALSE
      OBVIOUS
    <3>2. pc[u] = "post" /\ pc' = [pc EXCEPT ![u] = "posted"]
      BY <3>1 DEF Post, Goto
    <3>3. u = t
      BY <1>3, <3>2, OnlyRunning, ThreadParts DEF Alone
    <3> QED  BY <1>3, <3>2, <3>3 DEF ThreadTypes
  <2>2. \A m \in Telemetry' : m.req.next <= chunk[t].size
    BY <2>0, <2>1, TelemetryKept DEF SeenBy
  <2>3. /\ meta'.source_offset <= chunk[t].size
        /\ pending' # None => pending'.next <= chunk[t].size
    <3>1. CASE UNCHANGED <<log, meta, pending>>
      BY <2>0, <3>1 DEF SeenBy
    <3>2. ASSUME NEW m \in net, HandleAppend(m)
          PROVE  /\ meta'.source_offset <= chunk[t].size
                 /\ pending' # None => pending'.next <= chunk[t].size
      <4>1. m \in Telemetry /\ pending' = m.req /\ meta' = meta
        BY <3>2 DEF HandleAppend, AppendBody, Telemetry
      <4> QED  BY <2>0, <4>1 DEF SeenBy
    <3>3. CASE HandleCommit
      <4>1. pending # None /\ pending' = None /\ meta'.source_offset = pending.next
        BY <3>3 DEF HandleCommit, CommitMeta, Unlocked
      <4> QED  BY <2>0, <4>1 DEF SeenBy
    <3> QED  BY <3>1, <3>2, <3>3, StoreMoves
  <2>4. chunk'[t].json
    BY <1>3, <2>0, Zenon DEF SeenBy
  <2>5. IsEnd(chunk[t].body.from)' /\ IsEnd(chunk[t].end)'
    BY <1>3, <2>0 DEF SeenBy, IsEnd
  <2> QED  BY <1>3, <2>2, <2>3, <2>4, <2>5 DEF SeenBy
<1> QED  BY <1>1, <1>2, <1>3, PostersStay

LEMMA LinesAnsweredStep ==
  ASSUME Types, OneBusy, Wires, Bodies, LinesStored, LinesSent, LinesSeen, LinesAnswered,
         Live.ends \subseteq Live'.ends, [Next]_vars
  PROVE  LinesAnswered'
<1> USE DEF Types
<1> DEFINE Fits(t) ==
      /\ reply'[t].code # 400
      /\ reply'[t].code = 409 =>
           IsEnd(reply[t].meta.source_offset)' /\ reply'[t].meta.source_offset <= chunk'[t].size
<1> SUFFICES ASSUME NEW t \in Threads, pc'[t] = "posted", reply'[t] # None
             PROVE  Fits(t)
  BY DEF LinesAnswered
<1>1. ASSUME NEW from \in Nat, ReadFrom(t, from)
      PROVE  FALSE
  BY <1>1 DEF ReadFrom
<1>2. ASSUME Post(t), reply' = reply
      PROVE  FALSE
  BY <1>2 DEF Post, Wires, Waiting
<1>3. pc[t] = "posted" /\ chunk'[t] = chunk[t]
  BY <1>1, <1>2, PostersStay
<1>4. CASE reply'[t] = reply[t]
  BY <1>3, <1>4 DEF LinesAnswered, IsEnd
<1>5. ASSUME NEW m \in net, HandleInvalid(m)
      PROVE  FALSE
  <2>1. m \in Telemetry
    BY <1>5 DEF HandleInvalid, Telemetry
  <2>2. m.req.offset <= m.req.next
    BY <2>1, TelemetryPosts DEF Bodies, Matches
  <2>3. m.json
    BY <2>1, Zenon DEF LinesSent
  <2> QED  BY <1>5, <2>2, <2>3 DEF HandleInvalid, Valid
<1>6. ASSUME NEW m \in net, HandleMismatch(m), reply'[t] = [code |-> 409, meta |-> Rebased(m.req)]
      PROVE  Fits(t)
  <2>1. PICK x : x = Rebased(m.req).source_offset
    OBVIOUS
  <2>2. x \in {0, meta.source_offset} /\ chunk[t].size \in Nat /\ SeenBy(t)
    BY <1>3, <2>1, Posters DEF Rebased, LinesSeen
  <2>3. IsEnd(x) /\ x <= chunk[t].size
    BY <2>2 DEF LinesStored, SeenBy, IsEnd
  <2>4. reply'[t].code = 409 /\ reply'[t].meta.source_offset = x
    BY <1>6, <2>1
  <2> QED  BY <1>3, <2>3, <2>4 DEF IsEnd
<1>7. CASE reply'[t] = [code |-> 200]
  BY <1>7
<1> HIDE DEF Fits
<1>8. NetTypes
  OBVIOUS
<1> QED  BY <1>4, <1>5, <1>6, <1>7, <1>8, ReplyMoves

LEMMA LinesOnlyStep ==
  ASSUME Alone, Sound, FirstGeneration, LinesOnly, [Next]_vars
  PROVE  LinesOnly'
<1> USE DEF Sound
<1> SUFFICES ASSUME Quiet'
             PROVE  (LinesStored /\ LinesSent /\ LinesShipped /\ LinesSeen /\ LinesAnswered)'
  BY DEF LinesOnly
<1>1. Quiet /\ Live.ends \subseteq Live'.ends
  BY QuietBefore
<1>2. ~ HostDies /\ ~ HandleDelete
  BY FaultlessBefore DEF Types, Quiet
<1>3. FirstChunks
  BY <1>1 DEF Quiet, FirstGeneration
<1>4. LinesStored /\ LinesSent /\ LinesShipped /\ LinesSeen /\ LinesAnswered
  BY <1>1 DEF LinesOnly
<1>5. LinesStored' /\ LinesSent'
  BY <1>1, <1>2, <1>4, LinesStoredStep, LinesSentStep
<1>6. LinesShipped' /\ LinesAnswered'
  BY <1>1, <1>4, LinesShippedStep, LinesAnsweredStep
<1>7. LinesSeen'
  BY <1>1, <1>2, <1>3, <1>4, LinesSeenStep
<1> QED  BY <1>5, <1>6, <1>7
-----------------------------------------------------------------------------
(* Answers *)

\* Threads that go where nothing is awaited concern no other thread.
LEMMA HeardWhenMoving ==
  ASSUME ThreadTypes, \A t \in Threads : Waiting(t) => Heard(t),
         NEW u \in Threads, NEW p, p \notin {"posted", "put"}, pc' = [pc EXCEPT ![u] = p],
         UNCHANGED <<net, serving>>, \A t \in Threads : t # u => reply'[t] = reply[t],
         NEW w \in Threads, Waiting(w)'
  PROVE  Heard(w)'
<1>1. w # u /\ pc'[w] = pc[w]
  BY DEF ThreadTypes, Waiting
<1> QED  BY <1>1 DEF Waiting, Heard

\* A thread that sends has its request out.
LEMMA HeardWhenSent ==
  ASSUME ThreadTypes, \A t \in Threads : Waiting(t) => Heard(t),
         NEW u \in Threads, NEW p, pc' = [pc EXCEPT ![u] = p],
         NEW n, n.owner = u, net' = net \cup {n}, UNCHANGED <<serving, reply>>,
         NEW w \in Threads, Waiting(w)'
  PROVE  Heard(w)'
<1>1. w # u => pc'[w] = pc[w]
  BY DEF ThreadTypes
<1> QED  BY <1>1 DEF Waiting, Heard

\* A request that is handled is answered.
LEMMA HeardWhenAnswered ==
  ASSUME NetTypes, \A t \in Threads : Waiting(t) => Heard(t),
         NEW m \in net, NEW a \in Answers, Answer(m.owner, a), net' = net \ {m},
         UNCHANGED <<pc, serving>>,
         NEW w \in Threads, Waiting(w)'
  PROVE  Heard(w)'
<1>1. Waiting(w) /\ a # None /\ w # None
  BY NoneAssumption DEF Waiting
<1>2. CASE m.owner = w
  <2>1. reply'[w] = a
    BY <1>1, <1>2 DEF Answer, NetTypes
  <2> QED  BY <1>1, <2>1 DEF Heard
<1>3. CASE m.owner # w
  <2>1. reply'[w] = reply[w]
    BY <1>3 DEF Answer, NetTypes
  <2> QED  BY <1>1, <1>3, <2>1 DEF Heard
<1> QED  BY <1>2, <1>3

LEMMA HeardStep ==
  ASSUME StoreTypes,
         ThreadTypes,
         NetTypes,
         Remembered,
         \A t \in Threads : Waiting(t) => Heard(t),
         ~ HostDies,
         \A t \in Threads : ~ CallFails(t),
         \A o \in Shippers : ~ DrainDeadline(o),
         NEW w \in Threads,
         Waiting(w)',
         [Next]_vars
  PROVE  Heard(w)'
<1>1. ASSUME UNCHANGED <<pc, net, serving, reply>>
      PROVE  Heard(w)'
  BY <1>1 DEF Waiting, Heard
<1>2. ASSUME NEW t \in Threads, Read(t)
      PROVE  Heard(w)'
  BY <1>2, HeardWhenMoving DEF Read, Goto, netVars
<1>3. ASSUME NEW t \in Threads, Post(t)
      PROVE  Heard(w)'
  <2> DEFINE m == [owner |-> t, kind |-> "telemetry", json |-> chunk[t].json, req |-> HeadersNow(t)]
  <2>1. net' = net \cup {m} /\ pc' = [pc EXCEPT ![t] = "posted"] /\ UNCHANGED <<serving, reply>>
    BY <1>3 DEF Post, Goto
  <2>2. m.owner = t
    OBVIOUS
  <2> HIDE DEF m
  <2> QED  BY <2>1, <2>2, HeardWhenSent
<1>4. ASSUME NEW t \in Threads, Posted(t)
      PROVE  Heard(w)'
  <2>1. net' = net /\ serving' = serving /\ \A u \in Threads : u # t => reply'[u] = reply[u]
    BY <1>4 DEF Posted, NetTypes
  <2>2. PICK p \in {"progress", "tick", "done"} : pc' = [pc EXCEPT ![t] = p]
    BY <1>4 DEF Posted, Goto, Raised
  <2> QED  BY <2>1, <2>2, HeardWhenMoving
<1>5. ASSUME NEW t \in Threads, ProgressUnchanged(t)
      PROVE  Heard(w)'
  <2>1. UNCHANGED <<net, serving, reply>>
    BY <1>5 DEF ProgressUnchanged, netVars
  <2>2. PICK p \in {"tick", "done"} : pc' = [pc EXCEPT ![t] = p]
    BY <1>5 DEF ProgressUnchanged, EndOfTick, Goto, Raised, Returned
  <2> QED  BY <2>1, <2>2, HeardWhenMoving
<1>6. ASSUME NEW t \in Threads, Put(t)
      PROVE  Heard(w)'
  <2> DEFINE m == [owner |-> t, kind |-> "progress", snapshot |-> status]
  <2>1. net' = net \cup {m} /\ pc' = [pc EXCEPT ![t] = "put"] /\ UNCHANGED <<serving, reply>>
    BY <1>6 DEF Put, Goto
  <2>2. m.owner = t
    OBVIOUS
  <2> HIDE DEF m
  <2> QED  BY <2>1, <2>2, HeardWhenSent
<1>7. ASSUME NEW t \in Threads, Putted(t)
      PROVE  Heard(w)'
  <2>1. net' = net /\ serving' = serving /\ \A u \in Threads : u # t => reply'[u] = reply[u]
    BY <1>7 DEF Putted, NetTypes
  <2>2. PICK p \in {"tick", "done"} : pc' = [pc EXCEPT ![t] = p]
    BY <1>7 DEF Putted, EndOfTick, Goto, Raised, Returned
  <2> QED  BY <2>1, <2>2, HeardWhenMoving
<1>8. ASSUME NEW t \in Threads, ConnectionReset(t)
      PROVE  Heard(w)'
  <2>1. PICK p \in {"tick", "done"} : pc' = [pc EXCEPT ![t] = p]
    BY <1>8 DEF ConnectionReset, Goto, Raised
  <2> QED  BY <1>8, <2>1, HeardWhenMoving DEF ConnectionReset, netVars
<1>9. ASSUME NEW t \in Threads, CallFails(t)
      PROVE  Heard(w)'
  BY <1>9
<1>10. ASSUME NEW o \in Shippers, LoopEnds(o)
      PROVE  Heard(w)'
  <2>1. <<o, "loop">> \in Threads
    BY DEF Threads
  <2> QED  BY <1>10, <2>1, HeardWhenMoving DEF LoopEnds, Goto, netVars
<1>11. ASSUME NEW o \in Shippers, DrainStarts(o)
      PROVE  Heard(w)'
  <2>1. <<o, "stop">> \in Threads
    BY DEF Threads
  <2> QED  BY <1>11, <2>1, HeardWhenMoving DEF DrainStarts, Goto, netVars
<1>12. ASSUME NEW o \in Shippers, DrainDeadline(o)
      PROVE  Heard(w)'
  BY <1>12
<1>13. ASSUME NEW o \in Shippers, Restart(o)
      PROVE  Heard(w)'
  <2> DEFINE dead == {<<o, "loop">>, <<o, "stop">>}
  <2>1. /\ w \notin dead => pc'[w] = pc[w] /\ reply'[w] = reply[w]
        /\ w \in dead => pc'[w] \notin {"posted", "put"}
        /\ serving' \in {serving, None} /\ (serving' # serving => serving \in dead)
        /\ \A m \in net : m.owner \notin dead => m \in net'
    BY <1>13 DEF Restart
  <2> HIDE DEF dead
  <2>2. w \notin dead /\ Waiting(w)
    BY <2>1 DEF Waiting
  <2> QED  BY <2>1, <2>2 DEF Heard
<1>14. ASSUME NEW m \in net, HandleInvalid(m)
      PROVE  Heard(w)'
  BY <1>14, AnswersGiven, HeardWhenAnswered DEF HandleInvalid, threadVars
<1>15. ASSUME NEW m \in net, HandleMismatch(m)
      PROVE  Heard(w)'
  <2>1. [code |-> 409, meta |-> Rebased(m.req)] \in Answers
    BY <1>15, ValidRequest, AnswersGiven DEF HandleMismatch
  <2> QED  BY <1>15, <2>1, HeardWhenAnswered DEF HandleMismatch, threadVars
<1>16. ASSUME NEW m \in net, HandleAppend(m)
      PROVE  Heard(w)'
  <2>1. net' = net \ {m} /\ serving' = m.owner /\ pc' = pc /\ reply' = reply /\ pending = None
    BY <1>16 DEF HandleAppend, AppendBody, Unlocked, threadVars
  <2>2. Waiting(w) /\ serving = None /\ w # None
    BY <2>1, NoneAssumption DEF Remembered, Waiting
  <2> QED  BY <2>1, <2>2 DEF Heard
<1>17. ASSUME NEW m \in net, HandleProgress(m)
      PROVE  Heard(w)'
  BY <1>17, AnswersGiven, HeardWhenAnswered DEF HandleProgress, threadVars
<1>18. CASE HandleCommit
  <2>1. /\ serving' = None /\ net' = net /\ pc' = pc
        /\ Answer(serving, [code |-> 200])
    BY <1>18 DEF HandleCommit, threadVars
  <2>2. Waiting(w) /\ w # None /\ [code |-> 200] # None
    BY <2>1, AnswersGiven, NoneAssumption DEF Waiting
  <2>3. CASE serving = w
    <3>1. reply'[w] = [code |-> 200]
      BY <2>1, <2>2, <2>3 DEF Answer, NetTypes
    <3> QED  BY <2>2, <3>1 DEF Heard
  <2>4. CASE serving # w
    <3>1. reply'[w] = reply[w]
      BY <2>1, <2>4 DEF Answer, NetTypes
    <3> QED  BY <2>1, <2>2, <2>4, <3>1 DEF Heard
  <2> QED  BY <2>3, <2>4
<1>19. CASE HostDies
  BY <1>19
<1>20. CASE \/ Tear
            \/ Rotate
            \/ WriteProgress
            \/ HandleDelete
            \/ UNCHANGED vars
  BY <1>1, <1>20 DEF Tear, storeVars, shipperVars, threadVars, netVars,
       counters, vars, Rotate, WriteProgress, HandleDelete, Delete
<1>21. ASSUME NEW o \in Shippers,
             StopCalled(o)
      PROVE  Heard(w)'
  BY <1>1, <1>21 DEF StopCalled, storeVars, shipperVars, threadVars,
       netVars, counters, vars
<1>22. ASSUME NEW eol \in BOOLEAN,
             Write(eol)
      PROVE  Heard(w)'
  BY <1>1, <1>22 DEF Write, storeVars, shipperVars, threadVars, netVars,
       counters, vars
<1> QED  BY <1>2, <1>3, <1>4, <1>5, <1>6, <1>7, <1>8, <1>9, <1>10, <1>11, <1>12,
         <1>13, <1>14, <1>15, <1>16, <1>17, <1>18, <1>19, <1>20, <1>21,
         <1>22
         DEF Next, SourceStep, ThreadStep, LifecycleStep, HostStep, Handle, Faults

LEMMA AnsweredStep ==
  ASSUME Sound, Answered, [Next]_vars
  PROVE  Answered'
<1> USE DEF Sound, Types
<1> SUFFICES ASSUME Faultless', NEW w \in Threads, Waiting(w)'
             PROVE  Heard(w)'
  BY DEF Answered
<1>1. /\ Faultless /\ ~ HostDies /\ \A t \in Threads : ~ CallFails(t)
      /\ \A o \in Shippers : ~ DrainDeadline(o)
  BY FaultlessBefore
<1>2. \A t \in Threads : Waiting(t) => Heard(t)
  BY <1>1 DEF Answered
<1> QED  BY <1>1, <1>2, HeardStep
-----------------------------------------------------------------------------
(* The drain *)

\* A thread that runs does not start another.
LEMMA StopsKept ==
  ASSUME ThreadTypes, StopsLate, NEW u \in Threads, pc[u] # "off",
         NEW p, pc' = [pc EXCEPT ![u] = p], UNCHANGED <<stopping, status>>
  PROVE  StopsLate'
<1>1. ASSUME NEW o \in Shippers, pc'[<<o, "stop">>] # "off"
      PROVE  pc[<<o, "stop">>] # "off"
  BY <1>1 DEF ThreadTypes, Threads
<1> QED  BY <1>1 DEF StopsLate

LEMMA StopsLateStep ==
  ASSUME FileTypes,
         ShipperTypes,
         ThreadTypes,
         StopsLate,
         [Next]_vars
  PROVE  StopsLate'
<1>1. ASSUME UNCHANGED <<status, stopping, pc>>
      PROVE  StopsLate'
  BY <1>1 DEF StopsLate
<1>2. CASE WriteProgress
  <2>1. status # Final /\ stopping' = stopping /\ pc' = pc
    BY <1>2, ShippingAssumption DEF WriteProgress, FileTypes, shipperVars, threadVars
  <2>2. \A o \in Shippers : ~ stopping[o] /\ ~ (pc[<<o, "stop">>] # "off")
    BY <2>1, Zenon DEF StopsLate
  <2> QED  BY <2>1, <2>2, Zenon DEF StopsLate
<1>3. ASSUME NEW t \in Threads, Read(t)
      PROVE  StopsLate'
  BY <1>3, StopsKept DEF Read, Goto, shipperVars
<1>4. ASSUME NEW t \in Threads, Post(t)
      PROVE  StopsLate'
  BY <1>4, StopsKept DEF Post, Goto, shipperVars
<1>5. ASSUME NEW t \in Threads, Posted(t)
      PROVE  StopsLate'
  BY <1>5, StopsKept DEF Posted, Goto, shipperVars
<1>6. ASSUME NEW t \in Threads, ProgressUnchanged(t)
      PROVE  StopsLate'
  BY <1>6, StopsKept DEF ProgressUnchanged, EndOfTick, Goto, shipperVars
<1>7. ASSUME NEW t \in Threads, Put(t)
      PROVE  StopsLate'
  BY <1>7, StopsKept DEF Put, Goto, shipperVars
<1>8. ASSUME NEW t \in Threads, Putted(t)
      PROVE  StopsLate'
  BY <1>8, StopsKept DEF Putted, EndOfTick, Goto, shipperVars
<1>9. ASSUME NEW t \in Threads, ConnectionReset(t)
      PROVE  StopsLate'
  BY <1>9, StopsKept DEF ConnectionReset, Waiting, Goto, shipperVars
<1>10. ASSUME NEW t \in Threads, CallFails(t)
      PROVE  StopsLate'
  BY <1>10, StopsKept DEF CallFails, Waiting, Goto, shipperVars
<1>11. ASSUME NEW o \in Shippers, LoopEnds(o)
      PROVE  StopsLate'
  <2>1. <<o, "loop">> \in Threads
    BY DEF Threads
  <2> QED  BY <1>11, <2>1, StopsKept DEF LoopEnds, Goto, shipperVars
<1>12. ASSUME NEW o \in Shippers, DrainStarts(o)
      PROVE  StopsLate'
  BY <1>12 DEF DrainStarts, Goto, shipperVars, StopsLate, ThreadTypes, Threads
<1>13. ASSUME NEW o \in Shippers, StopCalled(o)
      PROVE  StopsLate'
  BY <1>13 DEF StopCalled, threadVars, StopsLate, ShipperTypes
<1>14. ASSUME NEW o \in Shippers, DrainDeadline(o)
      PROVE  StopsLate'
  <2>1. <<o, "stop">> \in Threads
    BY DEF Threads
  <2> QED  BY <1>14, <2>1, StopsKept DEF DrainDeadline, Goto, shipperVars
<1>15. ASSUME NEW o \in Shippers, Restart(o)
      PROVE  StopsLate'
  <2>1. ASSUME NEW q \in Shippers
        PROVE  /\ stopping'[q] => status' = Final
               /\ pc'[<<q, "stop">>] # "off" => stopping'[q]
    <3>1. CASE q = o
      BY <1>15, <3>1 DEF Restart, Threads, ShipperTypes
    <3>2. CASE q # o
      BY <1>15, <3>2 DEF Restart, Threads, ShipperTypes, StopsLate
    <3> QED  BY <3>1, <3>2
  <2> QED  BY <2>1 DEF StopsLate
<1>16. CASE \/ Tear
            \/ Rotate
            \/ HandleCommit
            \/ HostDies
            \/ HandleDelete
            \/ UNCHANGED vars
  BY <1>1, <1>16 DEF Tear, storeVars, shipperVars, threadVars, netVars,
       counters, vars, Rotate, HandleCommit, CommitMeta, HostDies, LoseMeta,
       HandleDelete, Delete
<1>17. ASSUME NEW m \in net,
             HandleInvalid(m) \/ HandleMismatch(m) \/ HandleAppend(m) \/ HandleProgress(m)
      PROVE  StopsLate'
  BY <1>1, <1>17 DEF HandleInvalid, Answer, storeVars, shipperVars,
       threadVars, netVars, counters, vars, HandleMismatch, HandleAppend,
       AppendBody, HandleProgress, PutProgress
<1>18. ASSUME NEW eol \in BOOLEAN,
             Write(eol)
      PROVE  StopsLate'
  BY <1>1, <1>18 DEF Write, storeVars, shipperVars, threadVars, netVars,
       counters, vars
<1> QED  BY <1>2, <1>3, <1>4, <1>5, <1>6, <1>7, <1>8, <1>9, <1>10, <1>11, <1>12,
         <1>13, <1>14, <1>15, <1>16, <1>17, <1>18
         DEF Next, SourceStep, ThreadStep, LifecycleStep, HostStep, Handle, Faults

\* The thread of stop() runs alone, behind the last write.
LEMMA OnlyTheDrain ==
  ASSUME Alone, Types, OneBusy, StopsLate, NEW o \in Shippers, pc[<<o, "stop">>] # "off"
  PROVE  /\ status = Final
         /\ pc[<<o, "stop">>] \in {"done"} =>
              \A u \in Threads : pc[u] \in {"off", "done"}
         /\ \A u \in Threads : pc[u] \notin {"off", "done"} => u = <<o, "stop">>
<1>1. status = Final
  BY DEF StopsLate
<1>2. ASSUME NEW u \in Threads, u # <<o, "stop">>
      PROVE  pc[u] = "done"
  <2>1. u = <<o, "loop">>
    BY <1>2, ThreadParts DEF Alone
  <2> QED  BY <2>1 DEF OneBusy
<1> QED  BY <1>1, <1>2

\* Everything is out when a shipper that has seen it all says so.
LEMMA AllOut ==
  ASSUME Types, AllKnown, FirstStored, FirstPositions, NEW o \in Shippers, Everything(offset[o])
  PROVE  Everything(meta.source_offset)
<1>1. offset[o] \in Nat /\ meta.source_offset \in Nat /\ offset[o] <= meta.source_offset
  BY MetaNumbers DEF Types, ShipperTypes, AllKnown, ShippersKnown, Known, Reached,
     FirstStored, FirstPositions
<1> QED  BY <1>1, LiveTypes DEF Types, Everything

\* ship_once returns for good with nothing pending and the last progress shipped.
LEMMA LastTick ==
  ASSUME Types, AllKnown, FirstStored, FirstPositions, NEW t \in Threads, t[2] = "stop",
         EndOfTick(t), failures' = failures, Drains(t), pc[t] \in {"progress", "put"},
         UNCHANGED <<meta, progress, files, offset>>, progress = Final
  PROVE  Drains(t)'
<1>1. failures \in Nat /\ t[1] \in Shippers
  BY ThreadParts DEF Types, CounterTypes
<1>2. pc' = [pc EXCEPT ![t] = Returned(t, more[t])]
  BY <1>1 DEF EndOfTick, Goto
<1>3. CASE more[t]
  <2>1. pc'[t] = "tick"
    BY <1>2, <1>3 DEF Returned, Types, ThreadTypes
  <2> QED  BY <2>1 DEF Drains
<1>4. CASE ~ more[t]
  <2>1. pc'[t] = "done"
    BY <1>2, <1>4 DEF Returned, Types, ThreadTypes
  <2>2. Everything(offset[t[1]])
    BY <1>4, Zenon DEF Drains
  <2>3. Everything(meta.source_offset)
    BY <1>1, <2>2, AllOut
  <2> QED  BY <2>1, <2>3 DEF Drains, Everything, Live
<1> QED  BY <1>3, <1>4

\* One step of a drain that has begun.
LEMMA DrainStep ==
  ASSUME Alone,
         Types,
         OneBusy,
         Wires,
         Bodies,
         StopsLate,
         Newest,
         AllKnown,
         FirstStored,
         FirstPositions,
         LinesAnswered,
         \A t \in Threads : Waiting(t) => Heard(t),
         ~ HostDies,
         ~ HandleDelete,
         failures' = failures,
         \A t \in Threads : ~ CallFails(t),
         \A o \in Shippers : ~ DrainDeadline(o),
         NEW s \in Shippers,
         NEW d \in Threads,
         d = <<s, "stop">>,
         pc[d] # "off",
         Drains(d),
         [Next]_vars
  PROVE  Drains(d)'
<1> USE DEF Types
<1>0. /\ status = Final
      /\ pc[d] = "done" => \A u \in Threads : pc[u] \in {"off", "done"}
      /\ \A u \in Threads : pc[u] \notin {"off", "done"} => u = d
  BY OnlyTheDrain
<1>1. ASSUME UNCHANGED <<meta, progress, files, offset, pc, chunk, more>>
      PROVE  Drains(d)'
  BY <1>1 DEF Drains, Everything, Live
<1>2. ASSUME NEW eol \in BOOLEAN, Write(eol)
      PROVE  Drains(d)'
  BY <1>2, <1>0 DEF Write, FileTypes
<1>3. CASE Tear
  <2>1. Live'.size = Live.size /\ Live'.ends = Live.ends
    BY <1>3, TearEffect
  <2> QED  BY <1>3, <2>1 DEF Tear, storeVars, shipperVars, threadVars, Drains, Everything
<1>4. CASE Rotate
  BY <1>4, <1>0 DEF Rotate, FileTypes
<1>5. ASSUME NEW t \in Threads, Read(t)
      PROVE  Drains(d)'
  <2>1. t = d
    BY <1>5, <1>0 DEF Read
  <2>2. PICK from \in Nat : ReadFrom(t, from)
    BY <1>5, ReadEffect
  <2>3. files' = files
    BY <1>5 DEF Read
  <2>4. CASE ChunkAt(from) = NoChunk
    <3>1. pc'[t] = "progress" /\ offset'[t[1]] = from
      BY <2>2, <2>4 DEF ReadFrom
    <3>2. \A e \in Live.ends : e <= from
      BY <2>4, ChunkTypes
    <3> QED  BY <2>1, <2>3, <3>1, <3>2 DEF Drains, Everything, Live
  <2>5. CASE ChunkAt(from) # NoChunk
    <3>1. pc'[t] = "post" /\ chunk'[t] = ChunkAt(from)
      BY <2>2, <2>5 DEF ReadFrom
    <3>2. ChunkAt(from).size = Live.size
      BY <2>5, ChunkTypes
    <3> QED  BY <2>1, <2>3, <3>1, <3>2 DEF Drains, Live
  <2> QED  BY <2>4, <2>5
<1>6. ASSUME NEW t \in Threads, Post(t)
      PROVE  Drains(d)'
  <2>1. t = d /\ files' = files
    BY <1>6, <1>0 DEF Post
  <2>2. pc[t] = "post" /\ pc' = [pc EXCEPT ![t] = "posted"] /\ chunk' = chunk
    BY <1>6, PostAdds
  <2>3. pc'[t] = "posted"
    BY <2>2 DEF ThreadTypes
  <2> QED  BY <2>1, <2>2, <2>3 DEF Drains, Live
<1>7. ASSUME NEW t \in Threads, Posted(t)
      PROVE  Drains(d)'
  <2>0. pc[t] = "posted" /\ reply[t] # None /\ reply[t] \in Answers
    BY <1>7 DEF Posted, NetTypes
  <2>1. t = d /\ files' = files
    BY <1>7, <1>0, <2>0 DEF Posted
  <2>2. t[1] \in Shippers /\ chunk[t].size \in Nat /\ chunk[t].end \in Nat /\ chunk[t].size = Live.size
    BY <2>0, <2>1, Posters DEF Drains
  <2>3. reply[t].code # 400
    BY <2>0 DEF LinesAnswered
  <2>4. CASE reply[t].code = 409
    <3>1. more' = [more EXCEPT ![t] = TRUE] /\ pc' = [pc EXCEPT ![t] = "progress"]
      BY <1>7, <2>4 DEF Posted, Goto
    <3>2. more'[t] /\ pc'[t] = "progress"
      BY <3>1 DEF ThreadTypes
    <3> QED  BY <2>1, <3>2 DEF Drains
  <2>5. CASE reply[t].code = 200
    <3>1. /\ more' = [more EXCEPT ![t] = chunk[t].end < chunk[t].size]
          /\ pc' = [pc EXCEPT ![t] = "progress"]
          /\ offset' = [offset EXCEPT ![t[1]] = chunk[t].end]
      BY <1>7, <2>5 DEF Posted, Goto
    <3>2. pc'[t] = "progress" /\ offset'[t[1]] = chunk[t].end
      BY <2>2, <3>1 DEF ThreadTypes, ShipperTypes
    <3>3. more'[t] <=> chunk[t].end < chunk[t].size
      BY <3>1, Zenon DEF ThreadTypes
    <3>4. ~ more'[t] => Everything(offset[t[1]])'
      <4>1. SUFFICES ASSUME ~ more'[t]
                     PROVE  Everything(offset[t[1]])'
        OBVIOUS
      <4>2. ~ (chunk[t].end < chunk[t].size)
        BY <3>3, <4>1, Zenon
      <4> QED  BY <2>1, <2>2, <3>2, <4>2, LiveTypes DEF Everything, Live
    <3> QED  BY <2>1, <3>2, <3>4 DEF Drains
  <2> QED  BY <2>0, <2>3, <2>4, <2>5 DEF Answers
<1>8. ASSUME NEW t \in Threads, ProgressUnchanged(t)
      PROVE  Drains(d)'
  <2>1. /\ pc[t] = "progress" /\ status \in {0, digest[t[1]]} /\ EndOfTick(t)
        /\ UNCHANGED <<meta, progress, files, offset>>
    BY <1>8 DEF ProgressUnchanged, storeVars, shipperVars
  <2>2. t = d /\ t[1] \in Shippers
    BY <1>0, <2>1, ThreadParts
  <2>3. digest[t[1]] = Final /\ Final # 0
    BY <1>0, <2>1, ShippingAssumption
  <2>4. progress = Final
    BY <1>0, <2>2, <2>3, SnapshotNumbers DEF Newest
  <2> QED  BY <2>1, <2>2, <2>4, LastTick
<1>9. ASSUME NEW t \in Threads, Put(t)
      PROVE  Drains(d)'
  <2>1. /\ pc[t] = "progress" /\ chunk' = [chunk EXCEPT ![t] = [kind |-> "progress", snapshot |-> status]]
        /\ pc' = [pc EXCEPT ![t] = "put"] /\ UNCHANGED <<files, offset, more>>
    BY <1>9 DEF Put, Goto, shipperVars
  <2>2. t = d
    BY <1>0, <2>1
  <2>3. pc'[t] = "put" /\ chunk'[t].snapshot = Final
    BY <1>0, <2>1 DEF ThreadTypes
  <2>4. ~ more[t] => Everything(offset[t[1]])
    BY <2>1, <2>2, Zenon DEF Drains
  <2>5. ~ more'[t] => Everything(offset[t[1]])'
    BY <2>1, <2>4 DEF Everything, Live
  <2> QED  BY <2>2, <2>3, <2>5 DEF Drains
<1>10. ASSUME NEW t \in Threads, Putted(t)
      PROVE  Drains(d)'
  <2>1. /\ pc[t] = "put" /\ reply[t] # None /\ EndOfTick(t)
        /\ UNCHANGED <<meta, progress, files, offset>>
    BY <1>10 DEF Putted, storeVars
  <2>2. t = d
    BY <1>0, <2>1
  <2>3. progress = Final
    BY <2>1, <2>2 DEF Drains, Newest
  <2> QED  BY <2>1, <2>2, <2>3, LastTick
<1>11. ASSUME NEW t \in Threads, ConnectionReset(t)
      PROVE  Drains(d)'
  <2>1. Waiting(t) /\ OwnRequests(t) = {} /\ serving # t /\ reply[t] = None
    BY <1>11 DEF ConnectionReset
  <2> QED  BY <2>1 DEF Heard, OwnRequests
<1>12. ASSUME NEW t \in Threads, CallFails(t)
      PROVE  Drains(d)'
  BY <1>12
<1>13. ASSUME NEW o \in Shippers, LoopEnds(o)
      PROVE  Drains(d)'
  <2>1. <<o, "loop">> \in Threads /\ pc[<<o, "loop">>] = "tick" /\ <<o, "loop">> # d
    BY <1>13 DEF LoopEnds, Threads
  <2> QED  BY <1>0, <2>1
<1>14. ASSUME NEW o \in Shippers, DrainStarts(o)
      PROVE  Drains(d)'
  <2>1. pc[<<o, "stop">>] = "off" /\ <<o, "stop">> # d
    BY <1>14 DEF DrainStarts
  <2> QED  BY <2>1 DEF Alone
<1>15. ASSUME NEW o \in Shippers, DrainDeadline(o)
      PROVE  Drains(d)'
  BY <1>15
<1>16. ASSUME NEW o \in Shippers, Restart(o)
      PROVE  Drains(d)'
  <2>1. d = <<o, "stop">>
    BY DEF Alone
  <2>2. pc'[d] = "off"
    BY <1>16, <2>1 DEF Restart, Threads
  <2> QED  BY <2>2 DEF Drains
<1>17. ASSUME NEW m \in net, HandleProgress(m)
      PROVE  Drains(d)'
  <2>1. m.kind = "progress" /\ UNCHANGED <<meta, files, offset, pc, chunk, more>>
    BY <1>17 DEF HandleProgress, PutProgress, shipperVars, threadVars
  <2>2. m.owner \in Threads /\ pc[m.owner] = "put"
    BY <2>1, Messages DEF Newest, Wires
  <2>3. pc[d] # "done"
    BY <1>0, <2>2
  <2>4. Everything(offset[d[1]]) => Everything(offset[d[1]])'
    BY <2>1 DEF Everything, Live
  <2> QED  BY <2>1, <2>3, <2>4 DEF Drains, Live
<1>18. CASE HandleCommit
  <2>1. /\ CommitMeta /\ UNCHANGED <<progress, files, offset, pc, chunk, more>>
    BY <1>18 DEF HandleCommit, CommitMeta, shipperVars, threadVars
  <2>2. /\ meta.source_offset <= meta'.source_offset /\ meta.source_offset \in Nat
        /\ meta'.source_offset \in Nat
    <3>1. /\ pending \in Request /\ pending.next \in Nat /\ pending.generation \in Nat
          /\ meta'.source_offset = pending.next /\ meta.source_offset \in Nat
          /\ \/ pending.generation > meta.generation /\ pending.offset = 0
             \/ pending.generation = meta.generation /\ pending.offset = meta.source_offset
      BY <2>1, CommitReaches
    <3>2. pending # None /\ pending.offset <= pending.next
      BY <2>1 DEF CommitMeta, Unlocked, Writing
    <3>3. pending.generation = 0 /\ meta.generation = 0
      BY <3>2 DEF FirstStored
    <3> QED  BY <3>1, <3>2, <3>3
  <2>3. Everything(meta.source_offset) => Everything(meta.source_offset)'
    BY <2>1, <2>2, LiveTypes DEF Everything, Live
  <2>4. Everything(offset[d[1]]) => Everything(offset[d[1]])'
    BY <2>1 DEF Everything, Live
  <2> QED  BY <2>1, <2>3, <2>4 DEF Drains, Live
<1>19. CASE HostDies
  BY <1>19
<1>20. CASE HandleDelete
  BY <1>20
<1>21. CASE WriteProgress \/ UNCHANGED vars
  BY <1>1, <1>21 DEF WriteProgress, storeVars, shipperVars, threadVars,
       netVars, counters, vars
<1>22. ASSUME NEW o \in Shippers,
             StopCalled(o)
      PROVE  Drains(d)'
  BY <1>1, <1>22 DEF StopCalled, storeVars, shipperVars, threadVars,
       netVars, counters, vars
<1>23. ASSUME NEW m \in net,
             HandleInvalid(m) \/ HandleMismatch(m) \/ HandleAppend(m)
      PROVE  Drains(d)'
  BY <1>1, <1>23 DEF HandleInvalid, Answer, storeVars, shipperVars,
       threadVars, netVars, counters, vars, HandleMismatch, HandleAppend,
       AppendBody
<1> QED  BY <1>2, <1>3, <1>4, <1>5, <1>6, <1>7, <1>8, <1>9, <1>10, <1>11, <1>12,
         <1>13, <1>14, <1>15, <1>16, <1>17, <1>18, <1>19, <1>20, <1>21,
         <1>22, <1>23
         DEF Next, SourceStep, ThreadStep, LifecycleStep, HostStep, Handle, Faults

\* A drain that has not begun does not end.
LEMMA DrainBegins ==
  ASSUME ThreadTypes, [Next]_vars, NEW s \in Shippers, pc[<<s, "stop">>] = "off"
  PROVE  pc'[<<s, "stop">>] \in {"off", "tick"}
<1>1. <<s, "stop">> \in Threads
  BY DEF Threads
<1>2. ASSUME NEW t \in Threads, ThreadStep(t) \/ CallFails(t)
      PROVE  pc'[<<s, "stop">>] = "off"
  <2>1. t # <<s, "stop">> /\ \E p : pc' = [pc EXCEPT ![t] = p]
    BY <1>2 DEF ThreadStep, Read, Post, Posted, ProgressUnchanged, Put, Putted, ConnectionReset,
       CallFails, Waiting, EndOfTick, Goto
  <2> QED  BY <1>1, <2>1 DEF ThreadTypes
<1>3. ASSUME NEW o \in Shippers, LoopEnds(o) \/ DrainStarts(o) \/ DrainDeadline(o) \/ Restart(o)
      PROVE  pc'[<<s, "stop">>] \in {"off", "tick"}
  BY <1>1, <1>3 DEF LoopEnds, DrainStarts, DrainDeadline, Restart, Goto, ThreadTypes
<1>4. \/ pc' = pc
      \/ \E t \in Threads : ThreadStep(t) \/ CallFails(t)
      \/ \E o \in Shippers : LoopEnds(o) \/ DrainStarts(o) \/ DrainDeadline(o) \/ Restart(o)
  BY DEF Next, SourceStep, LifecycleStep, HostStep, Handle, Faults, Write, Tear, Rotate,
     WriteProgress, StopCalled, HandleInvalid, HandleMismatch, HandleAppend, HandleProgress,
     HandleCommit, HostDies, HandleDelete, threadVars, vars
<1> QED  BY <1>2, <1>3, <1>4

LEMMA DrainingStep ==
  ASSUME Alone, OneShipper, LinesOnly, Answered, Draining, [Next]_vars
  PROVE  Draining'
<1> USE DEF OneShipper, Sound
<1>1. StopsLate'
  BY StopsLateStep DEF Types, Draining
<1>2. ASSUME Quiet', NEW s \in Shippers
      PROVE  Drains(<<s, "stop">>)'
  <2>1. Quiet /\ Faultless /\ Faultless'
    BY <1>2, QuietBefore DEF Quiet
  <2>2. /\ Undisturbed /\ ~ HostDies /\ ~ HandleDelete /\ failures' = failures
        /\ \A t \in Threads : ~ CallFails(t)
        /\ \A o \in Shippers : ~ DrainDeadline(o)
    BY <2>1, FaultlessBefore DEF Types
  <2>3. Newest /\ AllKnown /\ FirstStored /\ FirstPositions /\ LinesAnswered
    BY <2>1, <2>2 DEF Quiet, Forward, Undisturbed, Positions, FirstGeneration, LinesOnly
  <2>4. PICK d \in Threads : d = <<s, "stop">>
    BY DEF Threads
  <2>5. Drains(d) /\ StopsLate /\ \A t \in Threads : Waiting(t) => Heard(t)
    BY <2>1, <2>4 DEF Draining, Answered
  <2>6. CASE pc[d] # "off"
    BY <2>2, <2>3, <2>4, <2>5, <2>6, DrainStep
  <2>7. CASE pc[d] = "off"
    <3>1. pc'[d] \in {"off", "tick"}
      BY <2>4, <2>7, DrainBegins DEF Types
    <3> QED  BY <2>4, <3>1 DEF Drains
  <2> QED  BY <2>4, <2>6, <2>7
<1> QED  BY <1>1, <1>2 DEF Draining

Delivering == OneShipper /\ LinesOnly /\ Answered /\ Draining

LEMMA DeliveringHolds ==
  ASSUME ~ JoinMayTimeOut, \A o, p \in Shippers : o = p
  PROVE  Spec => []Delivering
<1>1. Init => Delivering
  <2> SUFFICES ASSUME Init
               PROVE  Delivering
    OBVIOUS
  <2>1. OneShipper
    BY OneShipperInit
  <2>2. /\ pending = None /\ net = {} /\ Telemetry = {} /\ meta.source_offset = 0
        /\ \A o \in Shippers : offset[o] = 0 /\ ~ stopping[o]
        /\ \A t \in Threads : pc[t] \in {"tick", "off"}
        /\ \A o \in Shippers : pc[<<o, "stop">>] = "off"
    BY DEF Init, StoreInit, FreshMeta, Telemetry, Threads
  <2>3. LinesOnly
    BY <2>2 DEF LinesOnly, LinesStored, LinesSent, LinesShipped, LinesSeen, LinesAnswered, IsEnd
  <2>4. Answered
    BY <2>2 DEF Answered, Waiting
  <2>5. Draining
    BY <2>2 DEF Draining, StopsLate, Drains
  <2> QED  BY <2>1, <2>3, <2>4, <2>5 DEF Delivering
<1>2. Delivering /\ [Next]_vars => Delivering'
  <2> SUFFICES ASSUME Delivering, [Next]_vars
               PROVE  Delivering'
    OBVIOUS
  <2> USE DEF Delivering
  <2>1. Alone
    BY DEF Alone
  <2>2. OneShipper'
    BY <2>1, OneShipperStep
  <2>3. LinesOnly'
    BY <2>1, LinesOnlyStep DEF OneShipper
  <2>4. Answered'
    BY AnsweredStep DEF OneShipper
  <2>5. Draining'
    BY <2>1, DrainingStep
  <2> QED  BY <2>2, <2>3, <2>4, <2>5
<1> QED  BY <1>1, <1>2, PTL DEF Spec

\* When stop() of the run's only shipper returns and nothing failed on the way,
\* every line is one the host takes and no PUT of an earlier process is still
\* under way, the last progress and every whole line are on the host
\* (shipper.py:126-146).
THEOREM StopDeliversCorrect ==
  ASSUME ~ JoinMayTimeOut, \A o, p \in Shippers : o = p
  PROVE  Spec => []StopDelivers
<1>1. Delivering => StopDelivers
  <2> SUFFICES ASSUME Delivering, NEW o \in Shippers, pc[<<o, "stop">>] = "done", Quiet
               PROVE  progress = Final /\ meta.source_offset = LastEnd(Live)
    BY DEF StopDelivers, Quiet
  <2>1. Everything(meta.source_offset) /\ progress = Final /\ IsEnd(meta.source_offset)
    BY DEF Delivering, Draining, Drains, LinesOnly, LinesStored
  <2>2. \A e \in Live.ends : e \in Nat /\ e > 0
    BY LiveTypes DEF Delivering, OneShipper, Sound, Types
  <2>3. CASE Live.ends = {}
    BY <2>1, <2>3 DEF IsEnd, LastEnd
  <2>4. CASE Live.ends # {}
    <3>1. PICK x : x = meta.source_offset
      OBVIOUS
    <3>2. x \in Live.ends /\ \A e \in Live.ends : e <= x
      BY <2>1, <2>2, <2>4, <3>1 DEF IsEnd, Everything
    <3>3. \A y \in Live.ends : (\A e \in Live.ends : e <= y) => y = x
      BY <2>2, <3>2
    <3> QED  BY <2>1, <2>4, <3>1, <3>2, <3>3 DEF LastEnd
  <2> QED  BY <2>1, <2>3, <2>4
<1> QED  BY <1>1, DeliveringHolds, PTL
-----------------------------------------------------------------------------
(* The history as a copy of the file *)

\* What the history holds of the file the run starts with.
FirstBytes(entries) == BytesOf(1, entries)
FirstCopied == FirstBytes(log)

\* The recursion that puts the stored bodies one after the other, up to n.
Gathers(l, n, f) ==
  f = [k \in 0 .. n |->
         IF k = 0 THEN <<>>
         ELSE IF l[k].body.inc = 1 THEN f[k - 1] \o Copied(l[k])
         ELSE f[k - 1]]

LEMMA GatherSteps ==
  ASSUME NEW l, NEW n \in Nat, NEW f, Gathers(l, n, f)
  PROVE  /\ f[0] = <<>>
         /\ \A k \in 1 .. n : f[k] = IF l[k].body.inc = 1 THEN f[k - 1] \o Copied(l[k]) ELSE f[k - 1]
<1>1. \A k \in 0 .. n : f[k] = IF k = 0 THEN <<>>
                               ELSE IF l[k].body.inc = 1 THEN f[k - 1] \o Copied(l[k])
                               ELSE f[k - 1]
  BY DEF Gathers
<1> QED  BY <1>1

\* One more entry.
LEMMA GatherOneMore ==
  ASSUME NEW l, NEW m \in Nat, NEW n \in Nat, n = m + 1, NEW f, Gathers(l, m, f)
  PROVE  \E g : Gathers(l, n, g) /\ \A k \in 0 .. m : g[k] = f[k]
<1>1. PICK last : last = IF l[n].body.inc = 1 THEN f[m] \o Copied(l[n]) ELSE f[m]
  OBVIOUS
<1>2. PICK g : g = [k \in 0 .. n |-> IF k = n THEN last ELSE f[k]]
  OBVIOUS
<1>3. g[n] = last /\ \A k \in 0 .. m : g[k] = f[k]
  BY <1>2
<1>4. ASSUME NEW k \in 0 .. n
      PROVE  g[k] = IF k = 0 THEN <<>>
                    ELSE IF l[k].body.inc = 1 THEN g[k - 1] \o Copied(l[k])
                    ELSE g[k - 1]
  <2>1. CASE k = 0
    <3>1. Gathers(l, m, f)
      OBVIOUS
    <3>2. f[0] = <<>>
      BY <3>1, GatherSteps
    <3>3. g[0] = f[0]
      BY <1>3
    <3> QED  BY <2>1, <3>2, <3>3
  <2>2. CASE k = n
    <3>1. k # 0 /\ k - 1 = m /\ g[k - 1] = f[m]
      BY <1>3, <2>2
    <3> QED  BY <1>1, <1>3, <2>2, <3>1
  <2>3. CASE k \in 1 .. m
    <3>1. k # 0 /\ g[k] = f[k] /\ g[k - 1] = f[k - 1]
      BY <1>3, <2>3
    <3> QED  BY <2>3, <3>1, GatherSteps
  <2> QED  BY <2>1, <2>2, <2>3
<1>5. g = [k \in 0 .. n |-> g[k]]
  BY <1>2
<1>6. Gathers(l, n, g)
  BY <1>4, <1>5 DEF Gathers
<1> QED  BY <1>3, <1>6

LEMMA GatherExists ==
  ASSUME NEW l, NEW n \in Nat
  PROVE  \E f : Gathers(l, n, f)
<1> DEFINE T == {k \in Nat : ~ \E f : Gathers(l, k, f)}
<1> SUFFICES ASSUME T # {}
             PROVE  FALSE
  OBVIOUS
<1>1. PICK k \in T : \A m \in T : k <= m
  BY LeastNumber
<1>2. CASE k = 0
  <2>1. PICK f : f = [j \in 0 .. 0 |-> <<>>]
    OBVIOUS
  <2>2. Gathers(l, 0, f)
    BY <2>1 DEF Gathers
  <2> QED  BY <1>1, <1>2, <2>2
<1>3. CASE k # 0
  <2>1. PICK m \in Nat : k = m + 1
    BY <1>1, <1>3
  <2>2. m \notin T
    BY <1>1, <2>1
  <2>3. PICK f : Gathers(l, m, f)
    BY <2>2
  <2>4. \E g : Gathers(l, k, g)
    BY <1>1, <2>1, <2>3, GatherOneMore
  <2> QED  BY <1>1, <2>4
<1> QED  BY <1>2, <1>3

\* It depends on the entries it has passed only.
LEMMA GatherUnique ==
  ASSUME NEW l, NEW h, NEW n \in Nat, NEW m \in Nat, m <= n, NEW f, NEW g,
         Gathers(l, m, f), Gathers(h, n, g), \A k \in 1 .. m : l[k] = h[k]
  PROVE  f[m] = g[m]
<1> DEFINE T == {k \in 0 .. m : f[k] # g[k]}
<1> SUFFICES ASSUME T # {}
             PROVE  FALSE
  OBVIOUS
<1>1. PICK k \in T : \A j \in T : k <= j
  <2>1. T \in SUBSET Nat
    OBVIOUS
  <2> QED  BY <2>1, LeastNumber
<1>2. /\ f[0] = <<>> /\ g[0] = <<>>
      /\ \A j \in 1 .. m : f[j] = IF l[j].body.inc = 1 THEN f[j - 1] \o Copied(l[j]) ELSE f[j - 1]
      /\ \A j \in 1 .. n : g[j] = IF h[j].body.inc = 1 THEN g[j - 1] \o Copied(h[j]) ELSE g[j - 1]
  BY GatherSteps
<1>3. k \in 1 .. m /\ k \in 1 .. n /\ f[k] # g[k]
  BY <1>1, <1>2
<1>4. f[k - 1] = g[k - 1]
  BY <1>1, <1>3
<1> QED  BY <1>2, <1>3, <1>4

LEMMA FirstBytesGather ==
  ASSUME NEW l, Len(l) \in Nat
  PROVE  \E f : Gathers(l, Len(l), f) /\ FirstBytes(l) = f[Len(l)]
<1>1. FirstBytes(l) = (CHOOSE f : Gathers(l, Len(l), f))[Len(l)]
  BY DEF FirstBytes, BytesOf, Gathers
<1>2. Gathers(l, Len(l), CHOOSE f : Gathers(l, Len(l), f))
  BY GatherExists
<1> QED  BY <1>1, <1>2

\* Nothing is stored at first,
LEMMA FirstBytesEmpty ==
  FirstBytes(<<>>) = <<>>
<1>1. Len(<<>>) = 0
  OBVIOUS
<1>2. PICK f : Gathers(<<>>, 0, f) /\ FirstBytes(<<>>) = f[0]
  BY <1>1, FirstBytesGather
<1> QED  BY <1>2, GatherSteps

\* ... and an entry of the first file goes behind what is there.
LEMMA FirstBytesAppend ==
  ASSUME NEW l \in Seq(Request), NEW r \in Request
  PROVE  FirstBytes(Append(l, r)) = IF r.body.inc = 1 THEN FirstBytes(l) \o Copied(r) ELSE FirstBytes(l)
<1>1. PICK h : h = Append(l, r)
  OBVIOUS
<1>2. PICK m \in Nat : m = Len(l)
  BY LenProperties
<1>3. PICK n \in Nat : n = m + 1
  OBVIOUS
<1>4. Len(h) = n /\ h[n] = r /\ \A k \in 1 .. m : h[k] = l[k]
  BY <1>1, <1>2, <1>3, AppendProperties
<1>5. PICK f : Gathers(l, m, f) /\ FirstBytes(l) = f[m]
  BY <1>2, FirstBytesGather
<1>6. PICK g : Gathers(h, n, g) /\ FirstBytes(h) = g[n]
  BY <1>3, <1>4, FirstBytesGather
<1>7. f[m] = g[m]
  BY <1>3, <1>4, <1>5, <1>6, GatherUnique
<1>8. g[n] = IF h[n].body.inc = 1 THEN g[n - 1] \o Copied(h[n]) ELSE g[n - 1]
  BY <1>3, <1>6, GatherSteps
<1>9. n - 1 = m
  BY <1>3
<1> QED  BY <1>1, <1>4, <1>5, <1>6, <1>7, <1>8, <1>9

\* What a request that is appended adds: bytes behind its offset, or blanks.
LEMMA CopiedBytes ==
  ASSUME NEW r \in Request, Matches(r)
  PROVE  \E n \in Nat \ {0} :
           /\ r.offset \in Nat /\ r.next = r.offset + n
           /\ Copied(r) \in {[k \in 1 .. n |-> r.offset + k], [k \in 1 .. n |-> None]}
           /\ Copied(r) \in Seq(Nat \cup {None}) /\ Len(Copied(r)) = n
<1>1. r.offset \in Nat /\ r.next \in Nat /\ r.body \in Body
  BY DEF Request
<1>2. r.body.from \in Nat /\ r.body.upto \in Nat
  BY <1>1 DEF Body
<1>3. PICK n \in Nat \ {0} : r.next = r.offset + n
  <2>1. r.next - r.offset \in Nat \ {0} /\ r.next = r.offset + (r.next - r.offset)
    BY <1>1 DEF Matches
  <2> QED  BY <2>1
<1>4. r.next - r.offset = n
  BY <1>1, <1>3
<1>5. CASE r.body.from = r.body.upto
  <2>1. Copied(r) = [k \in 1 .. n |-> None]
    BY <1>4, <1>5 DEF Copied
  <2> QED  BY <1>1, <1>3, <2>1
<1>6. CASE r.body.from # r.body.upto
  <2>1. r.body.from = r.offset /\ r.body.upto - r.body.from = n
    BY <1>1, <1>2, <1>4, <1>6 DEF Matches
  <2>2. Copied(r) = [k \in 1 .. n |-> r.offset + k]
    BY <1>6, <2>1 DEF Copied
  <2> QED  BY <1>1, <1>3, <2>2
<1> QED  BY <1>5, <1>6

\* The first file is the live one until another one takes its place.
LEMMA FirstFile ==
  ASSUME FileTypes, [Next]_vars
  PROVE  /\ files[1].size \in Nat /\ files'[1].size \in Nat /\ files[1].size <= files'[1].size
         /\ Len(files) = 1 => files[1] = Live
         /\ \/ files'[1].size = files[1].size
            \/ files'[1].size = files[1].size + 1 /\ \E eol \in BOOLEAN : Write(eol)
<1>1. Len(files) \in Nat \ {0} /\ files \in Seq(Files) /\ 1 \in DOMAIN files
  BY LiveFile, LenProperties DEF FileTypes
<1>2. files[1].size \in Nat
  <2>1. files[1] \in Files
    BY <1>1
  <2> QED  BY <2>1 DEF Files
<1>3. Len(files) = 1 => files[1] = Live
  BY DEF Live
<1>4. ASSUME NEW eol \in BOOLEAN, Write(eol)
      PROVE  files'[1].size = files[1].size \/ files'[1].size = files[1].size + 1
  <2>1. CASE Len(files) = 1
    <3>1. Len(files') = 1 /\ Live'.size = Live.size + 1
      BY <1>4, <2>1, WriteEffect
    <3> QED  BY <1>3, <2>1, <3>1 DEF Live
  <2>2. CASE Len(files) # 1
    <3>1. PICK f : files' = [files EXCEPT ![Len(files)] = f]
      BY <1>4, Zenon DEF Write
    <3> QED  BY <1>1, <2>2, <3>1
  <2> QED  BY <2>1, <2>2
<1>5. ASSUME Tear
      PROVE  files'[1].size = files[1].size
  <2>1. CASE Len(files) = 1
    <3>1. Len(files') = 1 /\ Live'.size = Live.size
      BY <1>5, <2>1, TearEffect
    <3> QED  BY <1>3, <2>1, <3>1 DEF Live
  <2>2. CASE Len(files) # 1
    <3>1. files' = [files EXCEPT ![Len(files)].torn = TRUE]
      BY <1>5 DEF Tear
    <3> QED  BY <1>1, <2>2, <3>1
  <2> QED  BY <2>1, <2>2
<1>6. ASSUME Rotate
      PROVE  files'[1].size = files[1].size
  <2>1. files' = Append(files, EmptyFile) /\ EmptyFile \in Files
    BY <1>6, FileRecord DEF Rotate, EmptyFile
  <2>2. files'[1] = files[1]
    BY <1>1, <2>1, AppendKeeps
  <2> QED  BY <2>2
<1>7. (\E eol \in BOOLEAN : Write(eol)) \/ Tear \/ Rotate \/ files' = files
  BY DEF Next, SourceStep, ThreadStep, LifecycleStep, HostStep, Handle, Faults,
     WriteProgress, Read, Post, Posted, ProgressUnchanged, Put, Putted, ConnectionReset, CallFails,
     LoopEnds, DrainStarts, StopCalled, DrainDeadline, Restart, HandleInvalid, HandleMismatch,
     HandleAppend, HandleProgress, HandleCommit, HostDies, HandleDelete, vars
<1>8. files'[1].size = files[1].size \/ (files'[1].size = files[1].size + 1 /\ \E eol \in BOOLEAN : Write(eol))
  BY <1>4, <1>5, <1>6, <1>7
<1> QED  BY <1>2, <1>3, <1>8

\* The size HistoryIsACopy gives the first file.
LEMMA FirstSize ==
  ASSUME FileTypes, [Next]_vars
  PROVE  SizeOf(1) = files[1].size /\ SizeOf(1)' = files'[1].size
<1>1. Len(files) \in Nat \ {0}
  BY LiveFile
<1>2. Len(files') \in Nat \ {0}
  BY <1>1, SourceMoves
<1> QED  BY <1>1, <1>2 DEF SizeOf

NotBoth == Len(files) = 1 \/ deletes = 0

\* What is on its way of the first file is in it,
FirstWithin ==
  /\ \A m \in Telemetry : m.req.body.inc = 1 => m.req.next <= files[1].size
  /\ \A t \in Threads : pc[t] = "post" /\ chunk[t].body.inc = 1 => chunk[t].end <= files[1].size

\* ... and refused once another file is in the history.
FirstIsPast ==
  deletes = 0 =>
    \A m \in Telemetry, i \in DOMAIN log :
      m.req.body.inc = 1 /\ log[i].body.inc > 1 => Past(m.req.generation, m.req.offset)

FirstOnly == \A i \in DOMAIN log : log[i].body.inc = 1

\* Until then the store's offset counts the bytes of the history.
Counted ==
  FirstOnly =>
    /\ meta.generation = 0 /\ (pending # None => pending.generation = 0)
    /\ FirstCopied \in Seq(Nat \cup {None})
    /\ Len(FirstCopied) = IF pending = None THEN meta.source_offset ELSE pending.next

Copying == OneShipper /\ crashes = 0 /\ NotBoth /\ FirstWithin /\ FirstIsPast /\ Counted

LEMMA FirstWithinStep ==
  ASSUME Types, OneBusy, Bodies, FirstWithin, [Next]_vars
  PROVE  FirstWithin'
<1> USE DEF Types
<1>0. files[1].size \in Nat /\ files'[1].size \in Nat /\ files[1].size <= files'[1].size
  BY FirstFile
<1>1. ASSUME NEW m \in Telemetry', m.req.body.inc = 1
      PROVE  m.req.next <= files'[1].size
  <2>1. CASE \E t \in Threads : Post(t)
    <3>1. PICK t \in Threads : Post(t)
      BY <2>1
    <3>2. PICK n : /\ net' = net \cup {n} /\ n.req.next = chunk[t].end
                   /\ n.req.body = chunk[t].body /\ pc[t] = "post"
      BY <3>1, PostAdds
    <3>3. CASE m = n
      <4>1. m.req.next <= files[1].size /\ m.req.next \in Nat
        BY <1>1, <3>2, <3>3, Posters DEF FirstWithin
      <4> QED  BY <1>0, <4>1
    <3>4. CASE m \in Telemetry
      <4>1. m.req.next <= files[1].size /\ m.req.next \in Nat
        BY <1>1, <3>4, TelemetryPosts DEF FirstWithin
      <4> QED  BY <1>0, <4>1
    <3> QED  BY <3>2, <3>3, <3>4 DEF Telemetry
  <2>2. CASE \A t \in Threads : ~ Post(t)
    <3>1. PICK n \in Telemetry : m.req = n.req
      BY <2>2, TelemetryKept
    <3>2. n.req.next <= files[1].size /\ n.req.next \in Nat
      BY <1>1, <3>1, TelemetryPosts DEF FirstWithin
    <3> QED  BY <1>0, <3>1, <3>2
  <2> QED  BY <2>1, <2>2
<1>2. ASSUME NEW t \in Threads, pc'[t] = "post", chunk'[t].body.inc = 1
      PROVE  chunk'[t].end <= files'[1].size
  <2>1. ASSUME NEW from \in Nat, ReadFrom(t, from), ChunkAt(from) # NoChunk
        PROVE  chunk'[t].end <= files'[1].size
    <3>1. PICK c : c = ChunkAt(from)
      OBVIOUS
    <3>2. c.body.inc = Len(files) /\ c = chunk'[t] /\ c.end \in Live.ends
      BY <2>1, <3>1, ChunkTypes DEF ReadFrom
    <3>3. files[1] = Live
      BY <1>2, <3>2, FirstFile
    <3>4. c.end \in Nat /\ c.end <= files[1].size
      BY <1>0, <3>2, <3>3, LiveTypes
    <3> QED  BY <1>0, <3>2, <3>4
  <2>2. ASSUME Post(t)
        PROVE  FALSE
    BY <1>2, <2>2 DEF Post, Goto, ThreadTypes
  <2>3. ASSUME pc'[t] = pc[t], chunk'[t] = chunk[t]
        PROVE  chunk'[t].end <= files'[1].size
    <3>1. chunk[t].end <= files[1].size /\ chunk[t].end \in Nat
      BY <1>2, <2>3, Posters DEF FirstWithin
    <3> QED  BY <1>0, <2>3, <3>1
  <2> QED  BY <1>2, <2>1, <2>2, <2>3, PostersStay
<1> QED  BY <1>1, <1>2 DEF FirstWithin

LEMMA FirstIsPastStep ==
  ASSUME Alone, Sound, Positions, FirstGeneration, Incarnations, FirstIsPast,
         crashes' = 0, [Next]_vars
  PROVE  FirstIsPast'
<1> USE DEF Sound, Types
<1> SUFFICES ASSUME deletes' = 0, NEW m \in Telemetry', NEW i \in DOMAIN log',
                    m.req.body.inc = 1, log'[i].body.inc > 1
             PROVE  Past(m.req.generation, m.req.offset)'
  BY DEF FirstIsPast
<1>1. Undisturbed /\ ~ HostDies /\ ~ HandleDelete
  BY UndisturbedBefore DEF Undisturbed
<1>2. RequestsKnown /\ deletes = 0
  BY <1>1 DEF Positions, AllKnown, Undisturbed
<1>3. CASE \E t \in Threads : Post(t)
  <2>1. PICK t \in Threads : Post(t)
    BY <1>3
  <2>2. PICK n : net' = net \cup {n} /\ n.req.body = chunk[t].body /\ pc[t] = "post"
    BY <2>1, PostAdds
  <2>3. UNCHANGED <<log, meta, pending>>
    BY <2>1 DEF Post, storeVars
  <2>4. log[i].body.inc <= chunk[t].body.inc /\ log[i].body.inc \in Nat /\ chunk[t].body.inc \in Nat
    BY <2>2, <2>3, IncarnationNumbers, Posters DEF Incarnations
  <2>5. m \in Telemetry
    BY <2>2, <2>3, <2>4 DEF Telemetry
  <2> QED  BY <1>2, <2>3, <2>5 DEF FirstIsPast, Past
<1>4. CASE \A t \in Threads : ~ Post(t)
  <2>1. PICK n \in Telemetry : m.req = n.req
    BY <1>4, TelemetryKept
  <2>2. n.req.generation = 0 /\ n.req.body.inc = 1 /\ n.req.offset \in Nat
    BY <2>1, TelemetryPosts DEF FirstGeneration, FirstRequests
  <2>3. Known(0, n.req.offset)
    BY <1>2, <2>2 DEF RequestsKnown
  <2>4. CASE UNCHANGED <<log, meta, pending>>
    BY <1>2, <2>1, <2>2, <2>4 DEF FirstIsPast, Past
  <2>5. ASSUME NEW k \in net, HandleAppend(k)
        PROVE  Past(m.req.generation, m.req.offset)'
    <3>1. /\ k \in Telemetry /\ k.req \in Request /\ k.req # None /\ Accepts(k.req)
          /\ log \in Seq(Request) /\ log' = Append(log, k.req) /\ pending = None /\ pending' = k.req
      BY <2>5, ValidRequest, NoneAssumption
         DEF HandleAppend, AppendBody, Unlocked, StoreTypes, Telemetry
    <3>2. PICK r \in Request : r = k.req
      BY <3>1
    <3>3. /\ r.generation \in Nat /\ r.offset \in Nat /\ r.next \in Nat /\ r.offset < r.next
          /\ meta.generation \in Nat /\ meta.source_offset \in Nat
          /\ \/ r.generation > meta.generation /\ r.offset = 0
             \/ r.generation = meta.generation /\ r.offset = meta.source_offset
      BY <3>1, <3>2, AcceptedThere DEF Bodies, Matches
    <3>4. 0 < r.generation \/ (0 = r.generation /\ n.req.offset < r.next)
      BY <2>2, <2>3, <3>3 DEF Known, Reached
    <3> QED  BY <2>1, <2>2, <3>1, <3>2, <3>4 DEF Past
  <2>6. CASE HandleCommit
    <3>1. CommitMeta /\ log' = log /\ pending # None /\ pending' = None
      BY <2>6 DEF HandleCommit, CommitMeta, Unlocked
    <3>2. Past(n.req.generation, n.req.offset)
      BY <1>2, <2>1, <3>1 DEF FirstIsPast
    <3> QED  BY <2>1, <3>1, <3>2, CommitReaches DEF Past
  <2> QED  BY <1>1, <2>4, <2>5, <2>6, StoreMoves
<1> QED  BY <1>3, <1>4

\* Where the store stands when it takes in a request of the first file.
LEMMA FirstTaken ==
  ASSUME Copying, NEW m \in net, HandleAppend(m), m.req.body.inc = 1
  PROVE  /\ FirstOnly /\ m.req \in Request /\ Matches(m.req)
         /\ log \in Seq(Request) /\ log' = Append(log, m.req)
         /\ m.req.generation = 0 /\ meta.generation = 0 /\ meta' = meta /\ pending' = m.req
         /\ m.req # None
         /\ FirstCopied \in Seq(Nat \cup {None}) /\ Len(FirstCopied) = m.req.offset
         /\ m.req.next <= files[1].size
<1> USE DEF Copying, OneShipper, Sound, Types
<1>1. /\ m \in Telemetry /\ m.req \in Request /\ m.req # None /\ Accepts(m.req)
      /\ log \in Seq(Request) /\ log' = Append(log, m.req) /\ pending = None /\ pending' = m.req
      /\ meta' = meta
  BY ValidRequest, NoneAssumption DEF HandleAppend, AppendBody, Unlocked, StoreTypes, Telemetry
<1>2. /\ Matches(m.req) /\ m.req.generation = 0 /\ m.req.next <= files[1].size
  BY <1>1 DEF Bodies, FirstGeneration, FirstRequests, FirstWithin
<1>3. /\ m.req.offset \in Nat /\ meta.generation \in Nat /\ meta.source_offset \in Nat
      /\ \/ m.req.generation > meta.generation /\ m.req.offset = 0
         \/ m.req.generation = meta.generation /\ m.req.offset = meta.source_offset
  BY <1>1, AcceptedThere
<1>4. ASSUME NEW i \in DOMAIN log, log[i].body.inc # 1
      PROVE  FALSE
  <2>1. log[i].body.inc \in 1 .. Len(files) /\ Len(files) \in Nat
    BY LiveFile DEF Incarnations
  <2>2. log[i].body.inc > 1 /\ Len(files) # 1
    <3>1. PICK k \in Nat, l \in Nat : k = log[i].body.inc /\ l = Len(files) /\ k \in 1 .. l
      BY <2>1
    <3>2. k # 1
      BY <1>4, <3>1
    <3>3. k > 1 /\ l # 1
      BY <3>1, <3>2
    <3> QED  BY <3>1, <3>3
  <2>3. Past(m.req.generation, m.req.offset)
    BY <1>1, <2>2 DEF NotBoth, FirstIsPast
  <2> QED  BY <1>1, <1>2, <1>3, <2>3 DEF Past
<1>5. FirstOnly
  BY <1>4 DEF FirstOnly
<1>6. meta.generation = 0 /\ FirstCopied \in Seq(Nat \cup {None}) /\ Len(FirstCopied) = meta.source_offset
  BY <1>1, <1>5 DEF Counted
<1> QED  BY <1>1, <1>2, <1>3, <1>5, <1>6

\* ... and what becomes of the copy.
LEMMA FirstGrows ==
  ASSUME Copying, NEW m \in net, HandleAppend(m), m.req.body.inc = 1
  PROVE  \E n \in Nat \ {0} :
           /\ m.req.next = m.req.offset + n
           /\ FirstCopied' \in Seq(Nat \cup {None}) /\ Len(FirstCopied') = m.req.next
           /\ FirstCopied' \in { FirstCopied \o [k \in 1 .. n |-> Len(FirstCopied) + k],
                                FirstCopied \o [k \in 1 .. n |-> None] }
<1>1. PICK r \in Request : r = m.req
  BY FirstTaken
<1>2. /\ FirstCopied' = FirstBytes(log') /\ FirstCopied = FirstBytes(log)
      /\ log \in Seq(Request) /\ log' = Append(log, r) /\ Matches(r) /\ r.body.inc = 1
  BY <1>1, FirstTaken DEF FirstCopied
<1>3. FirstCopied' = FirstCopied \o Copied(r)
  BY <1>2, FirstBytesAppend
<1>4. PICK s \in Seq(Nat \cup {None}) : s = FirstCopied /\ Len(s) = r.offset
  BY <1>1, FirstTaken
<1>5. PICK n \in Nat \ {0} :
           /\ r.offset \in Nat /\ r.next = r.offset + n
           /\ Copied(r) \in {[k \in 1 .. n |-> r.offset + k], [k \in 1 .. n |-> None]}
           /\ Copied(r) \in Seq(Nat \cup {None}) /\ Len(Copied(r)) = n
  BY <1>2, CopiedBytes
<1>6. s \o Copied(r) \in Seq(Nat \cup {None}) /\ Len(s \o Copied(r)) = Len(s) + n
  <2>1. PICK c \in Seq(Nat \cup {None}) : c = Copied(r) /\ Len(c) = n
    BY <1>5
  <2>2. s \o c \in Seq(Nat \cup {None}) /\ Len(s \o c) = Len(s) + Len(c)
    BY ConcatProperties
  <2> QED  BY <2>1, <2>2
<1>7. s \o Copied(r) \in {s \o [k \in 1 .. n |-> Len(s) + k], s \o [k \in 1 .. n |-> None]}
  BY <1>4, <1>5
<1> QED  BY <1>1, <1>3, <1>4, <1>5, <1>6, <1>7

LEMMA NoDeath ==
  ASSUME MaxCrashes = 0, crashes = 0, [Next]_vars
  PROVE  crashes' = 0 /\ ~ HostDies
<1>1. ~ HostDies
  BY DEF HostDies, LoseMeta
<1>2. crashes' = crashes \/ HostDies
  BY CrashCounted
<1> QED  BY <1>1, <1>2

LEMMA CountedStep ==
  ASSUME MaxCrashes = 0, Copying, [Next]_vars
  PROVE  Counted'
<1> USE DEF Copying, OneShipper, Sound, Types
<1> SUFFICES ASSUME FirstOnly'
             PROVE  /\ meta'.generation = 0 /\ (pending' # None => pending'.generation = 0)
                    /\ FirstCopied' \in Seq(Nat \cup {None})
                    /\ Len(FirstCopied') = IF pending' = None THEN meta'.source_offset ELSE pending'.next
  BY DEF Counted
<1>1. CASE UNCHANGED <<log, meta, pending>>
  BY <1>1 DEF Counted, FirstOnly, FirstCopied
<1>2. ASSUME NEW m \in net, HandleAppend(m)
      PROVE  /\ meta'.generation = 0 /\ (pending' # None => pending'.generation = 0)
             /\ FirstCopied' \in Seq(Nat \cup {None})
             /\ Len(FirstCopied') = IF pending' = None THEN meta'.source_offset ELSE pending'.next
  <2>1. m.req.body.inc = 1
    <3>1. log' = Append(log, m.req) /\ m.req \in Request /\ log \in Seq(Request)
      BY <1>2, ValidRequest DEF HandleAppend, AppendBody, StoreTypes
    <3>2. PICK r \in Request : r = m.req
      BY <3>1
    <3>3. Len(log) + 1 \in DOMAIN log' /\ log'[Len(log) + 1] = r
      BY <3>1, <3>2, AppendProperties, LenProperties
    <3> QED  BY <3>2, <3>3 DEF FirstOnly
  <2>2. /\ meta' = meta /\ pending' = m.req /\ m.req # None
        /\ meta.generation = 0 /\ m.req.generation = 0
    BY <1>2, <2>1, FirstTaken
  <2>3. FirstCopied' \in Seq(Nat \cup {None}) /\ Len(FirstCopied') = m.req.next
    BY <1>2, <2>1, FirstGrows
  <2> QED  BY <2>2, <2>3
<1>3. CASE HandleCommit
  <2>1. /\ log' = log /\ pending # None /\ pending' = None
        /\ meta' = [source_offset |-> pending.next, generation |-> pending.generation]
    BY <1>3 DEF HandleCommit, CommitMeta, Unlocked
  <2> QED  BY <2>1 DEF Counted, FirstOnly, FirstCopied
<1>4. CASE HandleDelete
  <2>1. log' = <<>> /\ meta' = FreshMeta /\ pending' = None
    BY <1>4 DEF HandleDelete, Delete, Unlocked
  <2>2. FirstCopied' = <<>>
    BY <2>1, FirstBytesEmpty DEF FirstCopied
  <2> QED  BY <2>1, <2>2 DEF FreshMeta
<1> QED  BY <1>1, <1>2, <1>3, <1>4, NoDeath, StoreMoves

LEMMA NotBothStep ==
  ASSUME NotBoth, [RotatedOrDeleted]_vars
  PROVE  NotBoth'
BY DEF NotBoth, RotatedOrDeleted, vars, counters

LEMMA CopyingStep ==
  ASSUME ~ JoinMayTimeOut, Alone, MaxCrashes = 0, Copying, [Next]_vars, [RotatedOrDeleted]_vars
  PROVE  Copying'
<1>1. OneShipper'
  BY OneShipperStep DEF Copying
<1>2. crashes' = 0
  BY NoDeath DEF Copying
<1>3. NotBoth'
  BY NotBothStep DEF Copying
<1>4. FirstWithin'
  BY FirstWithinStep DEF Copying, OneShipper, Sound
<1>5. FirstIsPast'
  BY <1>2, FirstIsPastStep DEF Copying, OneShipper
<1>6. Counted'
  BY CountedStep
<1> QED  BY <1>1, <1>2, <1>3, <1>4, <1>5, <1>6 DEF Copying

LEMMA CopyingInit ==
  ASSUME MaxCrashes = 0, Init
  PROVE  Copying
<1>1. OneShipper
  BY OneShipperInit
<1>2. /\ log = <<>> /\ meta = FreshMeta /\ pending = None /\ crashes = 0 /\ Len(files) = 1
      /\ Telemetry = {} /\ \A t \in Threads : pc[t] # "post"
  BY DEF Init, StoreInit, Telemetry
<1>3. FirstCopied = <<>>
  BY <1>2, FirstBytesEmpty DEF FirstCopied
<1>4. Counted
  BY <1>2, <1>3 DEF Counted, FreshMeta
<1>5. NotBoth /\ FirstWithin /\ FirstIsPast
  BY <1>2 DEF NotBoth, FirstWithin, FirstIsPast
<1> QED  BY <1>1, <1>2, <1>4, <1>5 DEF Copying

\* A step of shipping is one of the copy, or none.
LEMMA CopyStep ==
  ASSUME MaxCrashes = 0, Copying, [Next]_vars
  PROVE  [Copy(1)!Next]_<<SizeOf(1), FirstCopied>>
<1> USE DEF Copying, OneShipper, Sound, Types
<1>0. /\ SizeOf(1) = files[1].size /\ SizeOf(1)' = files'[1].size
      /\ BytesOf(1, log) = FirstCopied /\ BytesOf(1, log)' = FirstCopied'
  BY FirstSize DEF FirstCopied, FirstBytes
<1>1. CASE log' = log
  <2>1. FirstCopied' = FirstCopied
    BY <1>1 DEF FirstCopied
  <2>2. SizeOf(1) = files[1].size /\ SizeOf(1)' = files'[1].size
    BY FirstSize
  <2>3. CASE files'[1].size = files[1].size
    BY <2>1, <2>2, <2>3
  <2>4. CASE files'[1].size = files[1].size + 1
    <3>1. SizeOf(1)' = SizeOf(1) + 1 /\ BytesOf(1, log)' = BytesOf(1, log)
      BY <2>1, <2>2, <2>4 DEF FirstCopied, FirstBytes
    <3> QED  BY <3>1 DEF Copy!Next, Copy!Grow
  <2> QED  BY <2>3, <2>4, FirstFile
<1>2. ASSUME NEW m \in net, HandleAppend(m)
      PROVE  [Copy(1)!Next]_<<SizeOf(1), FirstCopied>>
  <2>1. files' = files
    BY <1>2 DEF HandleAppend
  <2>2. CASE m.req.body.inc = 1
    <3>1. PICK n \in Nat \ {0} :
           /\ m.req.next = m.req.offset + n
           /\ FirstCopied' \in { FirstCopied \o [k \in 1 .. n |-> Len(FirstCopied) + k],
                                FirstCopied \o [k \in 1 .. n |-> None] }
      BY <1>2, <2>2, FirstGrows
    <3>2. Len(FirstCopied) = m.req.offset /\ m.req.next <= files[1].size /\ m.req.offset \in Nat
      BY <1>2, <2>2, FirstTaken DEF Request
    <3>3. n \in 1 .. files[1].size - Len(FirstCopied)
      BY <3>1, <3>2, FirstFile
    <3>4. Copy(1)!Extend
      BY <1>0, <2>1, <3>1, <3>3 DEF Copy!Extend
    <3> QED  BY <3>4 DEF Copy!Next
  <2>3. CASE m.req.body.inc # 1
    <3>1. log' = Append(log, m.req) /\ m.req \in Request /\ log \in Seq(Request)
      BY <1>2, ValidRequest DEF HandleAppend, AppendBody, StoreTypes
    <3>2. PICK r \in Request : r = m.req
      BY <3>1
    <3>3. FirstBytes(Append(log, r)) = FirstBytes(log)
      BY <2>3, <3>1, <3>2, FirstBytesAppend
    <3>4. SizeOf(1)' = SizeOf(1) /\ FirstCopied' = FirstCopied
      BY <1>0, <2>1, <3>1, <3>2, <3>3 DEF FirstCopied
    <3> QED  BY <3>4
  <2> QED  BY <2>2, <2>3
<1>3. CASE HandleDelete
  <2>1. log' = <<>> /\ files' = files
    BY <1>3 DEF HandleDelete, Delete
  <2>2. FirstCopied' = <<>> /\ SizeOf(1)' = SizeOf(1)
    BY <1>0, <2>1, FirstBytesEmpty DEF FirstCopied
  <2>3. BytesOf(1, log)' = <<>>
    BY <1>0, <2>2
  <2> QED  BY <2>2, <2>3 DEF Copy!Next, Copy!Forget
<1>4. log' = log \/ (\E m \in net : HandleAppend(m)) \/ HandleDelete
  BY NoDeath, StoreMoves DEF HandleCommit, CommitMeta
<1> QED  BY <1>1, <1>2, <1>3, <1>4

\* Of the file the run starts with, HistoryIsACopy: with one shipper that waits
\* for its loop thread and a host that does not crash, every step of shipping is
\* one of RunCopy or none, so that the history holds a prefix of that file, each
\* byte once and in order, also after it was rotated away, through lost and late
\* requests and restarts, and deletes of a run that is not rotated
\* (shipper.py:7-16, server.py:86-122).
THEOREM FirstFileIsCopied ==
  ASSUME ~ JoinMayTimeOut, \A o, p \in Shippers : o = p, MaxCrashes = 0
  PROVE  Spec /\ [][RotatedOrDeleted]_vars =>
           Copy(1)!Init /\ [][Copy(1)!Next]_<<SizeOf(1), BytesOf(1, log)>>
<1>1. Alone
  BY DEF Alone
<1>2. Init => Copying
  BY CopyingInit
<1>3. Copying /\ [Next]_vars /\ [RotatedOrDeleted]_vars => Copying'
  BY <1>1, CopyingStep
<1>4. Init => Copy(1)!Init
  <2> SUFFICES ASSUME Init
               PROVE  Copy(1)!Init
    OBVIOUS
  <2>1. log = <<>> /\ SizeOf(1) = 0
    BY DEF Init, StoreInit, EmptyFile, SizeOf
  <2>2. FirstCopied = <<>>
    BY <2>1, FirstBytesEmpty DEF FirstCopied, FirstBytes
  <2> QED  BY <2>1, <2>2 DEF Copy!Init, FirstCopied, FirstBytes
<1>5. Copying /\ [Next]_vars => [Copy(1)!Next]_<<SizeOf(1), BytesOf(1, log)>>
  BY CopyStep DEF FirstCopied, FirstBytes
<1> QED  BY <1>2, <1>3, <1>4, <1>5, PTL DEF Spec
=============================================================================
