------------------------ MODULE TelemetryExportProofs ------------------------
(***************************************************************************)
(* What the exporter accepts is written once and in order, in the end only *)
(* the last batch and the queue are at risk, and a confirmed flush is in   *)
(* the file: TypeOK, StreamIntact, OnlyLastBatchAtRisk and                 *)
(* FlushedIsWritten of TelemetryExport, for queues, batches and files of   *)
(* any size.                                                               *)
(***************************************************************************)
EXTENDS TelemetryExport, SequenceTheorems, TLAPS

\* Where the writer stands, and what of the batch and of the file goes with it.
Place ==
    /\ at = "get" => then = "batch" /\ Len(batch) < BatchSize
    /\ at # "append" => next = 1
    /\ at \in {"append", "reopen"} => next <= Len(batch)
    /\ handle = "closed" => at = "reopen" \/ ~ Usual
    /\ at = "reopen" => handle = "closed"
    /\ handle = "none" => caller[Closer] = "closed"

\* The records taken from the queue and not given up.
Taken == Len(written) + Len(batch) - next + 1

InOrder ==
    Usual =>
        /\ \A i \in DOMAIN written : written[i] = i
        /\ FileUsable =>
              /\ \A i \in 1 .. Len(batch) : batch[i] = Len(written) + i - next + 1
              /\ QueueHoldsAfter(Taken)

\* The stream w is without a gap up to k and goes on with records of the batch;
\* the batch and the queue are what follows k.
Explains(w, k) ==
    /\ \A i \in 1 .. k : w[i] = i
    /\ \A i \in k + 1 .. Len(w) : \E j \in DOMAIN batch : w[i] = batch[j]
    /\ handle # "none" =>
          /\ \A j \in DOMAIN batch : batch[j] = k + j
          /\ QueueHoldsAfter(k + Len(batch))

\* After the loop: the file up to some record, and then records of the batch.
AtRisk == ~ Usual => \E k \in 0 .. Len(written) : Explains(written, k)

Unasked(c) == then # c /\ \A i \in DOMAIN queue : queue[i] # Flush(c)

\* A flush marker stands before every record accepted after it was put.
Marked ==
    /\ \A j \in DOMAIN queue : IsRecord(j) => queue[j].value \in 1 .. accepted
    /\ \A c \in Callers : caller[c] = "running" => Unasked(c)
    /\ \A c \in Callers : \A i, j \in DOMAIN queue :
          queue[i] = Flush(c) /\ i < j /\ IsRecord(j) => queue[j].value > promised[c]
    /\ then \in Callers =>
          \A j \in DOMAIN queue : IsRecord(j) => queue[j].value > promised[then]

Inv == TypeOK /\ Place /\ InOrder /\ AtRisk /\ Marked /\ FlushedIsWritten
-----------------------------------------------------------------------------
(* Sequences and the items of the queue *)

LEMMA Appended ==
  ASSUME NEW S, NEW s \in Seq(S), NEW e \in S
  PROVE  /\ Append(s, e) \in Seq(S) /\ Len(Append(s, e)) = Len(s) + 1
         /\ DOMAIN s = 1 .. Len(s) /\ DOMAIN Append(s, e) = 1 .. Len(s) + 1
         /\ \A i \in 1 .. Len(s) : Append(s, e)[i] = s[i]
         /\ Append(s, e)[Len(s) + 1] = e
BY AppendProperties, LenProperties

LEMMA Cut ==
  ASSUME NEW S, NEW s \in Seq(S), s # <<>>
  PROVE  /\ Tail(s) \in Seq(S) /\ Len(Tail(s)) = Len(s) - 1 /\ Len(s) \in Nat \ {0}
         /\ Head(s) = s[1] /\ s[1] \in S
         /\ DOMAIN s = 1 .. Len(s) /\ DOMAIN Tail(s) = 1 .. Len(s) - 1
         /\ \A i \in 1 .. Len(s) - 1 : Tail(s)[i] = s[i + 1]
BY HeadTailProperties, LenProperties, EmptySeq

LEMMA Kinds ==
  /\ \A n : Record(n).kind = "record" /\ Record(n).value = n
  /\ \A c : Flush(c).kind = "flush" /\ Flush(c).value = c
  /\ Stop.kind = "stop" /\ Stop \in Items
  /\ \A n \in 1 .. MaxEmits : Record(n) \in Items
  /\ \A c \in Callers : Flush(c) \in Items
  /\ \A item \in Items :
       /\ item.kind \in {"record", "flush", "stop"}
       /\ item.kind = "record" => item = Record(item.value) /\ item.value \in 1 .. MaxEmits
       /\ item.kind = "flush" => item = Flush(item.value) /\ item.value \in Callers
BY DEF Record, Flush, Stop, Items

-----------------------------------------------------------------------------
(* The queue *)

\* The record that is accepted next joins the queue.
LEMMA QueueGrows ==
  ASSUME queue \in Seq(Items), accepted \in Nat, accepted + 1 <= MaxEmits,
         queue' = Append(queue, Record(accepted + 1)), accepted' = accepted + 1,
         MaxEmits \in Nat, NEW k \in Nat, k <= accepted, QueueHoldsAfter(k)
  PROVE  QueueHoldsAfter(k)'
<1>1. Record(accepted + 1) \in Items
  BY Kinds
<1>2. /\ Len(queue) \in Nat /\ DOMAIN queue = 1 .. Len(queue)
      /\ DOMAIN queue' = 1 .. Len(queue) + 1
      /\ \A i \in 1 .. Len(queue) : queue'[i] = queue[i]
      /\ queue'[Len(queue) + 1] = Record(accepted + 1)
  BY <1>1, Appended, LenProperties
<1>3. Record(accepted + 1).value = accepted + 1
  BY Kinds
<1>4. ASSUME NEW i \in DOMAIN queue', IsRecord(i)'
      PROVE  /\ queue'[i].value \in k + 1 .. accepted + 1
             /\ i \in DOMAIN queue => IsRecord(i) /\ queue'[i].value \in k + 1 .. accepted
             /\ i \notin DOMAIN queue => i = Len(queue) + 1 /\ queue'[i].value = accepted + 1
  BY <1>2, <1>3, <1>4 DEF QueueHoldsAfter, IsRecord
<1>5. ASSUME NEW n \in k + 1 .. accepted + 1  PROVE \E i \in DOMAIN queue' : queue'[i] = Record(n)
  <2>1. CASE n = accepted + 1
    BY <1>2, <2>1
  <2>2. CASE n \in k + 1 .. accepted
    BY <1>2, <2>2 DEF QueueHoldsAfter
  <2> QED  BY <2>1, <2>2
<1>6. ASSUME NEW i \in DOMAIN queue', NEW j \in DOMAIN queue', i < j, IsRecord(i)', IsRecord(j)'
      PROVE  queue'[i].value < queue'[j].value
  <2>1. i \in DOMAIN queue /\ queue'[i] = queue[i]
    BY <1>2, <1>6
  <2>2. CASE j \in DOMAIN queue
    BY <1>2, <1>4, <1>6, <2>1, <2>2 DEF QueueHoldsAfter
  <2>3. CASE j \notin DOMAIN queue
    BY <1>4, <1>6, <2>1, <2>3
  <2> QED  BY <2>2, <2>3
<1> QED  BY <1>4, <1>5, <1>6 DEF QueueHoldsAfter

\* A marker in the queue changes nothing for the records.
LEMMA MarkerJoins ==
  ASSUME queue \in Seq(Items), NEW item \in Items, item.kind # "record",
         queue' = Append(queue, item), accepted' = accepted, NEW k, QueueHoldsAfter(k)
  PROVE  QueueHoldsAfter(k)'
<1>1. /\ Len(queue) \in Nat /\ DOMAIN queue = 1 .. Len(queue)
      /\ DOMAIN queue' = 1 .. Len(queue) + 1
      /\ \A i \in 1 .. Len(queue) : queue'[i] = queue[i]
      /\ queue'[Len(queue) + 1] = item
  BY Appended, LenProperties
<1>2. \A i \in DOMAIN queue' : IsRecord(i)' => i \in DOMAIN queue /\ IsRecord(i) /\ queue'[i] = queue[i]
  BY <1>1 DEF IsRecord
<1>3. \A i \in DOMAIN queue : i \in DOMAIN queue' /\ queue'[i] = queue[i]
  BY <1>1
<1> QED  BY <1>2, <1>3 DEF QueueHoldsAfter

\* The writer takes the record that is due.
LEMMA RecordTaken ==
  ASSUME queue \in Seq(Items), queue # <<>>, queue' = Tail(queue), accepted' = accepted,
         accepted \in Nat, NEW k \in Nat, QueueHoldsAfter(k), Head(queue).kind = "record"
  PROVE  Head(queue).value = k + 1 /\ k + 1 <= accepted /\ QueueHoldsAfter(k + 1)'
<1>1. /\ Len(queue) \in Nat \ {0} /\ DOMAIN queue = 1 .. Len(queue)
      /\ DOMAIN queue' = 1 .. Len(queue) - 1 /\ Head(queue) = queue[1]
      /\ \A i \in 1 .. Len(queue) - 1 : queue'[i] = queue[i + 1]
  BY Cut
<1>2. IsRecord(1) /\ 1 \in DOMAIN queue /\ queue[1].value \in k + 1 .. accepted
  BY <1>1 DEF IsRecord, QueueHoldsAfter
<1>3. queue[1].value = k + 1 /\ k + 1 <= accepted
  <2>1. PICK i \in DOMAIN queue : queue[i] = Record(k + 1)
    BY <1>2 DEF QueueHoldsAfter
  <2>2. IsRecord(i) /\ queue[i].value = k + 1
    BY <2>1, Kinds DEF IsRecord
  <2>3. i > 1 => queue[1].value < k + 1
    BY <1>1, <1>2, <2>1, <2>2 DEF QueueHoldsAfter
  <2> QED  BY <1>1, <1>2, <2>2, <2>3
<1>4. ASSUME NEW i \in DOMAIN queue', IsRecord(i)'
      PROVE  i + 1 \in DOMAIN queue /\ IsRecord(i + 1) /\ queue'[i] = queue[i + 1]
             /\ queue'[i].value \in k + 2 .. accepted
  <2>1. i + 1 \in DOMAIN queue /\ queue'[i] = queue[i + 1] /\ i \in Nat \ {0}
    BY <1>1
  <2>2. IsRecord(i + 1)
    BY <1>4, <2>1 DEF IsRecord
  <2>3. queue[i + 1].value \in k + 1 .. accepted /\ queue[1].value < queue[i + 1].value
    BY <1>2, <2>1, <2>2 DEF QueueHoldsAfter
  <2> QED  BY <1>3, <2>1, <2>2, <2>3
<1>5. ASSUME NEW n \in k + 2 .. accepted  PROVE \E i \in DOMAIN queue' : queue'[i] = Record(n)
  <2>1. PICK i \in DOMAIN queue : queue[i] = Record(n)
    BY <1>5 DEF QueueHoldsAfter
  <2>2. i # 1
    BY <1>3, <2>1, Kinds
  <2>3. i - 1 \in DOMAIN queue' /\ queue'[i - 1] = queue[i]
    BY <1>1, <2>2
  <2> QED  BY <2>1, <2>3
<1>6. ASSUME NEW i \in DOMAIN queue', NEW j \in DOMAIN queue', i < j, IsRecord(i)', IsRecord(j)'
      PROVE  queue'[i].value < queue'[j].value
  <2>1. i + 1 < j + 1
    BY <1>1, <1>6
  <2> QED  BY <1>4, <1>6, <2>1 DEF QueueHoldsAfter
<1> QED  BY <1>1, <1>3, <1>4, <1>5, <1>6 DEF QueueHoldsAfter

\* The writer takes a marker.
LEMMA MarkerTaken ==
  ASSUME queue \in Seq(Items), queue # <<>>, queue' = Tail(queue), accepted' = accepted,
         NEW k, QueueHoldsAfter(k), Head(queue).kind # "record"
  PROVE  QueueHoldsAfter(k)'
<1>1. /\ Len(queue) \in Nat \ {0} /\ DOMAIN queue = 1 .. Len(queue)
      /\ DOMAIN queue' = 1 .. Len(queue) - 1 /\ Head(queue) = queue[1]
      /\ \A i \in 1 .. Len(queue) - 1 : queue'[i] = queue[i + 1]
  BY Cut
<1>2. \A i \in DOMAIN queue' : i + 1 \in DOMAIN queue /\ queue'[i] = queue[i + 1] /\ i \in Nat
  BY <1>1
<1>3. \A i \in DOMAIN queue' : IsRecord(i)' <=> IsRecord(i + 1)
  BY <1>2 DEF IsRecord
<1>4. \A n : queue[1] # Record(n)
  BY <1>1, Kinds
<1>5. \A i \in DOMAIN queue : i # 1 => i - 1 \in DOMAIN queue' /\ queue'[i - 1] = queue[i]
  BY <1>1
<1>6. ASSUME NEW n \in k + 1 .. accepted
      PROVE  \E i \in DOMAIN queue' : queue'[i] = Record(n)
  <2>1. PICK i \in DOMAIN queue : queue[i] = Record(n)
    BY DEF QueueHoldsAfter
  <2> QED  BY <1>4, <1>5, <2>1
<1>7. \A i, j \in DOMAIN queue' : i < j /\ IsRecord(i)' /\ IsRecord(j)'
                                     => queue'[i].value < queue'[j].value
  BY <1>2, <1>3 DEF QueueHoldsAfter
<1> QED  BY <1>2, <1>3, <1>6, <1>7 DEF QueueHoldsAfter
-----------------------------------------------------------------------------
(* The callers *)

\* The facts of the types that the steps use.
LEMMA Facts ==
  ASSUME Inv
  PROVE  /\ Len(written) \in Nat /\ DOMAIN written = 1 .. Len(written)
         /\ Len(batch) \in Nat /\ DOMAIN batch = 1 .. Len(batch)
         /\ next \in Nat /\ 1 <= next /\ accepted \in Nat
         /\ \A i \in 1 .. Len(written) : written[i] \in 1 .. accepted
         /\ \A i \in 1 .. Len(batch) : batch[i] \in 1 .. accepted
         /\ batch = <<>> <=> Len(batch) = 0
<1>1. /\ written \in Seq(1 .. accepted) /\ batch \in Seq(1 .. accepted)
      /\ accepted \in Nat /\ next \in Nat /\ 1 <= next
  BY SizesAssumption, BoundsAssumption DEF Inv, TypeOK
<1>2. /\ Len(written) \in Nat /\ DOMAIN written = 1 .. Len(written)
      /\ Len(batch) \in Nat /\ DOMAIN batch = 1 .. Len(batch)
  BY <1>1, LenProperties
<1>3. /\ \A i \in 1 .. Len(written) : written[i] \in 1 .. accepted
      /\ \A i \in 1 .. Len(batch) : batch[i] \in 1 .. accepted
  BY <1>1, <1>2, ElementOfSeq
<1>4. batch = <<>> <=> Len(batch) = 0
  BY <1>1, EmptySeq
<1> QED  BY <1>1, <1>2, <1>3, <1>4

\* What is at risk stays the same while file and batch do.
LEMMA RiskKeeps ==
  ASSUME Inv, UNCHANGED <<batch, written>>, ~ Usual' => ~ Usual,
         handle' # "none" => handle # "none",
         \A k \in Nat : k <= accepted /\ QueueHoldsAfter(k) => QueueHoldsAfter(k)'
  PROVE  AtRisk'
<1> SUFFICES ASSUME ~ Usual' PROVE \E k \in 0 .. Len(written) : Explains(written, k)'
  BY DEF AtRisk
<1>1. PICK k \in 0 .. Len(written) : Explains(written, k)
  BY DEF Inv, AtRisk
<1>2. ASSUME handle # "none"  PROVE k + Len(batch) \in Nat /\ k + Len(batch) <= accepted
  <2>1. CASE Len(batch) = 0
    <3>1. k = 0 \/ (k \in 1 .. Len(written) /\ written[k] = k)
      BY <1>1, Facts DEF Explains
    <3> QED  BY <2>1, <3>1, Facts
  <2>2. CASE Len(batch) > 0
    <3>1. Len(batch) \in 1 .. Len(batch) /\ batch[Len(batch)] = k + Len(batch)
      BY <1>1, <1>2, <2>2, Facts DEF Explains
    <3> QED  BY <3>1, Facts
  <2> QED  BY <2>1, <2>2, Facts
<1>3. PICK n : n = k + Len(batch)
  OBVIOUS
<1>4. handle' # "none" => QueueHoldsAfter(n)'
  BY <1>1, <1>2, <1>3 DEF Explains
<1>5. Explains(written, k)'
  BY <1>1, <1>3, <1>4 DEF Explains
<1> QED  BY <1>5

\* Without a change of the queue or of the writer.
LEMMA CallerMoves ==
  ASSUME Inv, UNCHANGED <<queue, accepted, dropped, promised, handle, writer>>,
         NEW c \in Callers, NEW state \in {"flushed", "gave_up", "joining", "closed"},
         caller' = [caller EXCEPT ![c] = state], state # "flushed",
         caller[Closer] = "closed" => caller'[Closer] = "closed"
  PROVE  Inv'
<1>1. /\ \A d \in Callers : caller'[d] = "running" => caller[d] = "running"
      /\ \A d \in Callers : caller'[d] = "flushed" => caller[d] = "flushed"
      /\ caller' \in [Callers -> {"running", "waiting", "flushed", "gave_up", "joining", "closed"}]
  BY DEF Inv, TypeOK
<1>2. TypeOK' /\ Place'
  BY <1>1 DEF Inv, TypeOK, Place, writer, Usual
<1>3. \A k : QueueHoldsAfter(k) => QueueHoldsAfter(k)'
  BY DEF QueueHoldsAfter, IsRecord
<1>5. Taken' = Taken /\ Usual' = Usual /\ FileUsable' = FileUsable
  BY DEF Taken, Usual, FileUsable, writer
<1>6. QueueHoldsAfter(Taken) => QueueHoldsAfter(Taken)'
  BY <1>3, <1>5
<1>7. InOrder'
  BY <1>5, <1>6 DEF Inv, InOrder, writer
<1>8. AtRisk'
  BY <1>3, <1>5, RiskKeeps DEF writer
<1>4. Marked' /\ FlushedIsWritten'
  BY <1>1 DEF Inv, Marked, Unasked, FlushedIsWritten, IsRecord, writer
<1> QED  BY <1>2, <1>4, <1>7, <1>8 DEF Inv

\* Types of batch and file do not suffer from further records.
LEMMA Wider ==
  ASSUME NEW m \in Nat, NEW n \in Nat, m <= n
  PROVE  /\ Seq(1 .. m) \subseteq Seq(1 .. n)
         /\ Seq(Seq(1 .. m)) \subseteq Seq(Seq(1 .. n))
<1>1. 1 .. m \subseteq 1 .. n
  OBVIOUS
<1>2. \A S, T : S \subseteq T => Seq(S) \subseteq Seq(T)
  <2> SUFFICES ASSUME NEW S, NEW T, S \subseteq T, NEW s \in Seq(S)  PROVE s \in Seq(T)
    OBVIOUS
  <2> QED  BY SeqDef
<1> QED  BY <1>1, <1>2

LEMMA TakenNat == Inv => Taken \in Nat
<1> SUFFICES ASSUME Inv PROVE Taken \in Nat
  OBVIOUS
<1>1. Len(written) \in Nat /\ Len(batch) \in Nat /\ next \in Nat /\ next >= 1
  BY SizesAssumption, LenProperties DEF Inv, TypeOK
<1>2. at = "append" => next <= Len(batch)
  BY DEF Inv, Place
<1>3. at # "append" => next = 1
  BY DEF Inv, Place
<1> QED  BY <1>1, <1>2, <1>3 DEF Taken

\* No more is taken from the queue than was put there.
LEMMA TakenBound ==
  ASSUME Inv, Usual, FileUsable
  PROVE  Taken <= accepted
<1>1. Len(written) \in Nat /\ Len(batch) \in Nat /\ next \in Nat /\ next >= 1
      /\ accepted \in Nat /\ DOMAIN written = 1 .. Len(written)
      /\ (\A i \in 1 .. Len(written) : written[i] \in 1 .. accepted)
      /\ (\A i \in 1 .. Len(batch) : batch[i] \in 1 .. accepted)
  BY Facts
<1>2. at # "append" => next = 1
  BY DEF Inv, Place
<1>3. at = "append" => next <= Len(batch)
  BY DEF Inv, Place
<1>4. CASE next <= Len(batch)
  <2>1. batch[Len(batch)] = Taken
    BY <1>1, <1>4 DEF Inv, InOrder, Taken
  <2> QED  BY <1>1, <1>4, <2>1
<1>5. CASE next > Len(batch)
  <2>1. Taken = Len(written)
    BY <1>1, <1>2, <1>3, <1>5 DEF Taken
  <2>2. \A i \in DOMAIN written : written[i] = i
    BY DEF Inv, InOrder
  <2>3. Len(written) > 0 => written[Len(written)] = Len(written)
    BY <1>1, <2>2
  <2> QED  BY <1>1, <2>1, <2>3
<1> QED  BY <1>1, <1>4, <1>5

\* What an action of a caller has to show that leaves the writer alone.
LEMMA CallerKeeps ==
  ASSUME Inv, UNCHANGED <<handle, writer>>, TypeOK', Marked',
         accepted' \in Nat, accepted' >= accepted,
         caller[Closer] = "closed" => caller'[Closer] = "closed",
         \A d \in Callers : caller'[d] = "flushed" =>
             caller[d] = "flushed" /\ promised'[d] = promised[d],
         \A k \in Nat : k <= accepted /\ QueueHoldsAfter(k) => QueueHoldsAfter(k)'
  PROVE  Inv'
<1>1. Place'
  BY DEF Inv, Place, writer, Usual
<1>2. InOrder'
  <2>1. Taken' = Taken /\ Usual' = Usual /\ FileUsable' = FileUsable
    BY DEF Taken, Usual, FileUsable, writer
  <2>2. ASSUME Usual, FileUsable  PROVE QueueHoldsAfter(Taken)'
    <3>1. PICK k \in Nat : k = Taken
      BY TakenNat
    <3>2. k <= accepted /\ QueueHoldsAfter(k)
      BY <2>2, <3>1, TakenBound DEF Inv, InOrder
    <3> QED  BY <2>1, <3>1, <3>2
  <2> QED  BY <2>1, <2>2 DEF Inv, InOrder, writer
<1>3. AtRisk'
  BY RiskKeeps DEF writer, Usual
<1>4. FlushedIsWritten'
  BY DEF Inv, FlushedIsWritten, writer
<1> QED  BY <1>1, <1>2, <1>3, <1>4 DEF Inv

\* One more item at the end of the queue.
LEMMA Queues ==
  ASSUME Inv, NEW item \in Items, queue' = Append(queue, item)
  PROVE  /\ Len(queue) \in Nat /\ DOMAIN queue = 1 .. Len(queue)
         /\ DOMAIN queue' = 1 .. Len(queue) + 1
         /\ \A i \in 1 .. Len(queue) : queue'[i] = queue[i]
         /\ queue'[Len(queue) + 1] = item
         /\ queue' \in Seq(Items) /\ Len(queue') = Len(queue) + 1
<1>1. queue \in Seq(Items)
  BY DEF Inv, TypeOK
<1> QED  BY <1>1, Appended, LenProperties

LEMMA EmitKeeps == Inv /\ Emit => Inv'
<1> SUFFICES ASSUME Inv, Emit PROVE Inv'
  OBVIOUS
<1>1. /\ accepted \in Nat /\ dropped \in Nat /\ accepted + dropped < MaxEmits /\ MaxEmits \in Nat
      /\ UNCHANGED <<caller, promised, handle, writer>>
  BY BoundsAssumption DEF Emit, Inv, TypeOK
<1>2. CASE Full
  <2>1. UNCHANGED <<queue, accepted>> /\ dropped' = dropped + 1
    BY <1>2 DEF Emit
  <2>2. TypeOK'
    BY <1>1, <2>1 DEF Inv, TypeOK, writer
  <2>3. Marked'
    BY <1>1, <2>1 DEF Inv, Marked, Unasked, IsRecord, writer
  <2>5. \A k \in Nat : k <= accepted /\ QueueHoldsAfter(k) => QueueHoldsAfter(k)'
    BY <2>1 DEF QueueHoldsAfter, IsRecord
  <2> QED  BY <1>1, <2>1, <2>2, <2>3, <2>5, CallerKeeps
<1>3. CASE ~ Full
  <2>1. /\ queue' = Append(queue, Record(accepted + 1)) /\ accepted' = accepted + 1
        /\ dropped' = dropped
    BY <1>3 DEF Emit
  <2>2. Record(accepted + 1) \in Items
    BY <1>1, Kinds
  <2>3. /\ Len(queue) \in Nat /\ DOMAIN queue = 1 .. Len(queue)
        /\ DOMAIN queue' = 1 .. Len(queue) + 1
        /\ \A i \in 1 .. Len(queue) : queue'[i] = queue[i]
        /\ queue'[Len(queue) + 1] = Record(accepted + 1)
        /\ queue' \in Seq(Items) /\ Len(queue') = Len(queue) + 1
    BY <2>1, <2>2, Queues
  <2>4. TypeOK'
    <3>1. queue' \in Seq(Items) /\ Len(queue') <= MaxQueue
      BY <1>3, <2>3, SizesAssumption DEF Full
    <3>2. accepted' \in 0 .. MaxEmits /\ dropped' \in 0 .. MaxEmits - accepted'
      BY <1>1, <2>1
    <3>3. promised' \in [Callers -> 0 .. accepted']
      BY <1>1, <2>1 DEF Inv, TypeOK
    <3>4. /\ Seq(1 .. accepted) \subseteq Seq(1 .. accepted')
          /\ Seq(Seq(1 .. accepted)) \subseteq Seq(Seq(1 .. accepted'))
      BY <1>1, <2>1, Wider
    <3>5. batch \in Seq(1 .. accepted) /\ files \in Seq(Seq(1 .. accepted))
          /\ written \in Seq(1 .. accepted)
      BY DEF Inv, TypeOK
    <3>6. batch' \in Seq(1 .. accepted') /\ files' \in Seq(Seq(1 .. accepted'))
          /\ written' \in Seq(1 .. accepted')
      BY <1>1, <3>4, <3>5 DEF writer
    <3> QED  BY <1>1, <3>1, <3>2, <3>3, <3>6 DEF Inv, TypeOK, writer
  <2>5. \A c \in Callers : promised[c] < accepted + 1
    BY <1>1 DEF Inv, TypeOK
  <2>6. Marked'
    <3>1. \A c \in Callers : queue'[Len(queue) + 1] # Flush(c)
      BY <2>3, Kinds
    <3>2. ASSUME NEW c \in Callers, caller'[c] = "running"  PROVE Unasked(c)'
      BY <1>1, <2>3, <3>1, <3>2 DEF Inv, Marked, Unasked, writer
    <3>3. ASSUME NEW c \in Callers, NEW i \in DOMAIN queue', NEW j \in DOMAIN queue',
                 queue'[i] = Flush(c), i < j, IsRecord(j)'
          PROVE  queue'[j].value > promised'[c]
      <4>1. i \in DOMAIN queue /\ queue[i] = Flush(c)
        BY <2>3, <3>1, <3>3
      <4>2. CASE j \in DOMAIN queue
        BY <1>1, <2>3, <3>3, <4>1, <4>2 DEF Inv, Marked, IsRecord
      <4>3. CASE j \notin DOMAIN queue
        <5>1. queue'[j].value = accepted + 1
          BY <2>3, <4>3, Kinds
        <5> QED  BY <1>1, <2>5, <5>1 DEF Inv, TypeOK
      <4> QED  BY <4>2, <4>3
    <3>4. ASSUME then' \in Callers, NEW j \in DOMAIN queue', IsRecord(j)'
          PROVE  queue'[j].value > promised'[then']
      <4>1. CASE j \in DOMAIN queue
        BY <1>1, <2>3, <3>4, <4>1 DEF Inv, Marked, IsRecord, writer
      <4>2. CASE j \notin DOMAIN queue
        <5>1. queue'[j].value = accepted + 1
          BY <2>3, <4>2, Kinds
        <5> QED  BY <1>1, <2>5, <3>4, <5>1 DEF Inv, TypeOK, writer
      <4> QED  BY <4>1, <4>2
    <3>5. ASSUME NEW j \in DOMAIN queue', IsRecord(j)'
          PROVE  queue'[j].value \in 1 .. accepted'
      <4>1. CASE j \in DOMAIN queue
        BY <1>1, <2>1, <2>3, <3>5, <4>1 DEF Inv, Marked, IsRecord
      <4>2. CASE j \notin DOMAIN queue
        BY <1>1, <2>1, <2>3, <4>2, Kinds
      <4> QED  BY <4>1, <4>2
    <3> QED  BY <3>2, <3>3, <3>4, <3>5 DEF Marked
  <2>7. \A k \in Nat : k <= accepted /\ QueueHoldsAfter(k) => QueueHoldsAfter(k)'
    <3>1. queue \in Seq(Items)
      BY DEF Inv, TypeOK
    <3> QED  BY <1>1, <2>1, <3>1, QueueGrows
  <2> QED  BY <1>1, <2>1, <2>4, <2>6, <2>7, CallerKeeps
<1> QED  BY <1>2, <1>3

LEMMA PutFlushKeeps == ASSUME Inv, NEW c \in Callers, PutFlush(c)  PROVE Inv'
<1>1. /\ caller[c] = "running" /\ ~ Full /\ queue' = Append(queue, Flush(c))
      /\ promised' = [promised EXCEPT ![c] = accepted]
      /\ caller' = [caller EXCEPT ![c] = "waiting"]
      /\ UNCHANGED <<accepted, dropped, handle, writer>>
  BY DEF PutFlush
<1>2. Flush(c) \in Items /\ Flush(c).kind = "flush"
  BY Kinds
<1>3. /\ Len(queue) \in Nat /\ DOMAIN queue = 1 .. Len(queue)
      /\ DOMAIN queue' = 1 .. Len(queue) + 1
      /\ \A i \in 1 .. Len(queue) : queue'[i] = queue[i]
      /\ queue'[Len(queue) + 1] = Flush(c)
      /\ queue' \in Seq(Items) /\ Len(queue') = Len(queue) + 1
  BY <1>1, <1>2, Queues
<1>4. Len(queue') <= MaxQueue
  BY <1>1, <1>3, SizesAssumption DEF Full
<1>5. TypeOK'
  BY <1>1, <1>3, <1>4, BoundsAssumption DEF Inv, TypeOK, writer
<1>6. Unasked(c)
  BY <1>1 DEF Inv, Marked
<1>7. /\ \A d \in Callers : d # c => promised'[d] = promised[d] /\ caller'[d] = caller[d]
      /\ caller'[c] = "waiting"
  BY <1>1 DEF Inv, TypeOK
<1>8. Marked'
  <2>1. \A j \in DOMAIN queue' : IsRecord(j)' => j \in DOMAIN queue /\ IsRecord(j) /\ queue'[j] = queue[j]
    BY <1>2, <1>3 DEF IsRecord
  <2>2. ASSUME NEW d \in Callers, caller'[d] = "running"  PROVE Unasked(d)'
    <3>1. d # c /\ Unasked(d)
      BY <1>7, <2>2 DEF Inv, Marked
    <3>2. Flush(c) # Flush(d)
      BY <3>1, Kinds
    <3> QED  BY <1>1, <1>3, <3>1, <3>2 DEF Unasked, writer
  <2>3. ASSUME NEW d \in Callers, NEW i \in DOMAIN queue', NEW j \in DOMAIN queue',
               queue'[i] = Flush(d), i < j, IsRecord(j)'
        PROVE  queue'[j].value > promised'[d]
    <3>1. i \in DOMAIN queue /\ queue[i] = Flush(d)
      BY <1>3, <2>1, <2>3
    <3>2. d # c
      BY <1>6, <3>1 DEF Unasked
    <3> QED  BY <1>7, <2>1, <2>3, <3>1, <3>2 DEF Inv, Marked
  <2>4. ASSUME then' \in Callers, NEW j \in DOMAIN queue', IsRecord(j)'
        PROVE  queue'[j].value > promised'[then']
    <3>1. then' = then /\ then # c
      BY <1>1, <1>6 DEF Unasked, writer
    <3> QED  BY <1>7, <2>1, <2>4, <3>1 DEF Inv, Marked
  <2>5. \A j \in DOMAIN queue' : IsRecord(j)' => queue'[j].value \in 1 .. accepted'
    BY <1>1, <2>1 DEF Inv, Marked
  <2> QED  BY <2>2, <2>3, <2>4, <2>5 DEF Marked
<1>9. \A k \in Nat : k <= accepted /\ QueueHoldsAfter(k) => QueueHoldsAfter(k)'
  <2>1. queue \in Seq(Items)
    BY DEF Inv, TypeOK
  <2> QED  BY <1>1, <1>2, <2>1, MarkerJoins
<1>10. accepted' \in Nat /\ accepted' >= accepted
  BY <1>1, BoundsAssumption DEF Inv, TypeOK
<1>11. \A d \in Callers : caller'[d] = "flushed" => caller[d] = "flushed" /\ promised'[d] = promised[d]
  BY <1>7
<1>12. caller[Closer] = "closed" => caller'[Closer] = "closed"
  BY <1>1, <1>7 DEF Callers
<1> QED  BY <1>1, <1>5, <1>8, <1>9, <1>10, <1>11, <1>12, CallerKeeps

LEMMA PutStopKeeps == Inv /\ PutStop => Inv'
<1> SUFFICES ASSUME Inv, PutStop PROVE Inv'
  OBVIOUS
<1>1. /\ caller[Closer] \in {"flushed", "gave_up"}
      /\ caller' = [caller EXCEPT ![Closer] = "joining"] /\ Closer \in Callers
      /\ UNCHANGED <<accepted, dropped, promised, handle, writer>>
  BY DEF PutStop, Callers
<1>2. CASE UNCHANGED queue
  BY <1>1, <1>2, CallerMoves
<1>3. CASE ~ Full /\ queue' = Append(queue, Stop)
  <2>1. Stop \in Items /\ Stop.kind = "stop"
    BY Kinds
  <2>2. /\ Len(queue) \in Nat /\ DOMAIN queue = 1 .. Len(queue)
        /\ DOMAIN queue' = 1 .. Len(queue) + 1
        /\ \A i \in 1 .. Len(queue) : queue'[i] = queue[i]
        /\ queue'[Len(queue) + 1] = Stop
        /\ queue' \in Seq(Items) /\ Len(queue') = Len(queue) + 1
    BY <1>3, <2>1, Queues
  <2>3. Len(queue') <= MaxQueue
    BY <1>3, <2>2, SizesAssumption DEF Full
  <2>4. TypeOK'
    BY <1>1, <2>2, <2>3 DEF Inv, TypeOK, writer
  <2>5. \A d \in Callers : /\ caller'[d] = "running" => caller[d] = "running"
                           /\ caller'[d] = "flushed" => caller[d] = "flushed"
    BY <1>1 DEF Inv, TypeOK
  <2>6. Marked'
    <3>1. \A j \in DOMAIN queue' : IsRecord(j)' => j \in DOMAIN queue /\ IsRecord(j) /\ queue'[j] = queue[j]
      BY <2>1, <2>2 DEF IsRecord
    <3>2. \A c \in Callers : Stop # Flush(c)
      BY Kinds
    <3>3. \A c \in Callers, j \in DOMAIN queue' : queue'[j] = Flush(c) => j \in DOMAIN queue /\ queue'[j] = queue[j]
      BY <2>2, <3>2
    <3> QED  BY <1>1, <2>5, <3>1, <3>3 DEF Inv, Marked, Unasked, writer
  <2>7. \A k \in Nat : k <= accepted /\ QueueHoldsAfter(k) => QueueHoldsAfter(k)'
    <3>1. queue \in Seq(Items)
      BY DEF Inv, TypeOK
    <3> QED  BY <1>1, <1>3, <2>1, <3>1, MarkerJoins
  <2>8. accepted' \in Nat /\ accepted' >= accepted
    BY <1>1, BoundsAssumption DEF Inv, TypeOK
  <2> QED  BY <1>1, <2>4, <2>5, <2>6, <2>7, <2>8, CallerKeeps
<1> QED  BY <1>2, <1>3 DEF PutStop

\* close takes the file, whether or not the writer has ended.
LEMMA CloseFileKeeps == Inv /\ CloseFile => Inv'
<1> SUFFICES ASSUME Inv, CloseFile PROVE Inv'
  OBVIOUS
<1>1. /\ caller' = [caller EXCEPT ![Closer] = "closed"] /\ Closer \in Callers
      /\ handle' = (IF handle = "open" THEN "none" ELSE handle)
      /\ UNCHANGED <<queue, accepted, dropped, promised, writer>>
  BY DEF CloseFile, Callers
<1>2. /\ \A d \in Callers : d # Closer => caller'[d] = caller[d]
      /\ caller'[Closer] = "closed"
      /\ caller' \in [Callers -> {"running", "waiting", "flushed", "gave_up", "joining", "closed"}]
  BY <1>1 DEF Inv, TypeOK
<1>3. TypeOK'
  BY <1>1, <1>2 DEF Inv, TypeOK, writer
<1>4. Place'
  BY <1>1, <1>2 DEF Inv, Place, Usual, writer
<1>5. FileUsable' => FileUsable
  BY <1>1 DEF FileUsable, writer
<1>6. QueueHoldsAfter(Taken) => QueueHoldsAfter(Taken)'
  BY <1>1 DEF QueueHoldsAfter, IsRecord, Taken, writer
<1>7. InOrder'
  BY <1>1, <1>5, <1>6 DEF Inv, InOrder, Usual, writer
<1>8. FlushedIsWritten'
  BY <1>1, <1>2 DEF Inv, FlushedIsWritten, writer
<1>10. AtRisk'
  <2>1. \A k \in Nat : k <= accepted /\ QueueHoldsAfter(k) => QueueHoldsAfter(k)'
    BY <1>1 DEF QueueHoldsAfter, IsRecord
  <2> QED  BY <1>1, <2>1, RiskKeeps DEF writer, Usual
<1>9. Marked'
  BY <1>1, <1>2 DEF Inv, Marked, Unasked, IsRecord, writer
<1> QED  BY <1>3, <1>4, <1>7, <1>8, <1>9, <1>10 DEF Inv
-----------------------------------------------------------------------------
(* The writer *)

\* What a step of the writer has to show that leaves queue and callers alone.
LEMMA WriterKeeps ==
  ASSUME Inv, UNCHANGED <<queue, calls>>, TypeOK', Place', InOrder', AtRisk',
         then' \in Callers => then' = then,
         Len(written') >= Len(written), \A i \in DOMAIN written : i \in DOMAIN written' /\ written'[i] = written[i]
  PROVE  Inv'
<1>1. \A c \in Callers : then' = c => then = c
  OBVIOUS
<1>2. Marked'
  BY <1>1 DEF Inv, Marked, Unasked, IsRecord, calls
<1>3. FlushedIsWritten'
  BY DEF Inv, FlushedIsWritten, calls
<1> QED  BY <1>2, <1>3 DEF Inv

LEMMA StartAppendKeeps == Inv /\ StartAppend => Inv'
<1> SUFFICES ASSUME Inv, StartAppend PROVE Inv'
  OBVIOUS
<1>1. /\ at = "write" /\ at' = "append" /\ batch # <<>> /\ handle = "open"
      /\ UNCHANGED <<queue, calls, then, batch, next, handle, files, written, faults>>
  BY DEF StartAppend
<1>2. TypeOK'
  BY <1>1 DEF Inv, TypeOK, calls
<1>3. Place'
  BY <1>1, Facts DEF Inv, Place, Usual, calls
<1>4. (\A k : QueueHoldsAfter(k) => QueueHoldsAfter(k)') /\ Taken' = Taken
  BY <1>1 DEF QueueHoldsAfter, IsRecord, Taken, calls
<1>5. QueueHoldsAfter(Taken) => QueueHoldsAfter(Taken)'
  BY <1>4
<1>6. InOrder'
  BY <1>1, <1>5 DEF Inv, InOrder, Usual, FileUsable
<1>7. AtRisk'
  <2>1. (~ Usual' => ~ Usual) /\ (handle' # "none" => handle # "none")
    BY <1>1 DEF Usual, Inv, Place
  <2> QED  BY <1>1, <1>4, <2>1, RiskKeeps
<1> QED  BY <1>1, <1>2, <1>3, <1>6, <1>7, WriterKeeps

LEMMA ShiftedTypes ==
  ASSUME NEW S, files \in Seq(Seq(S)), Len(files) \in 1 .. MaxFiles
  PROVE  /\ <<<<>>>> \o Shifted \in Seq(Seq(S))
         /\ Len(<<<<>>>> \o Shifted) \in 1 .. MaxFiles
<1> DEFINE last == IF Len(files) < MaxFiles THEN Len(files) ELSE MaxFiles - 1
<1>1. last \in 0 .. Len(files) /\ last \in 0 .. MaxFiles - 1 /\ Len(files) \in Nat
  BY SizesAssumption
<1>2. Shifted = SubSeq(files, 1, last)
  BY DEF Shifted
<1> HIDE DEF last
<1>3. Shifted \in Seq(Seq(S)) /\ Len(Shifted) = last
  BY <1>1, <1>2, SubSeqProperties
<1>4. <<>> \in Seq(S)
  BY EmptySeq
<1>5. <<<<>>>> \in Seq(Seq(S)) /\ Len(<<<<>>>>) = 1
  BY <1>4
<1> QED  BY <1>1, <1>3, <1>5, ConcatProperties, SizesAssumption

LEMMA RotateKeeps == Inv /\ Rotate => Inv'
<1> SUFFICES ASSUME Inv, Rotate PROVE Inv'
  OBVIOUS
<1>1. /\ at = "write" /\ at' = "reopen" /\ batch # <<>> /\ handle = "open" /\ handle' = "closed"
      /\ files' = <<<<>>>> \o Shifted
      /\ UNCHANGED <<queue, calls, then, batch, next, written, faults>>
  BY DEF Rotate
<1>2. TypeOK'
  <2>1. files' \in Seq(Seq(1 .. accepted)) /\ Len(files') \in 1 .. MaxFiles
    BY <1>1, ShiftedTypes DEF Inv, TypeOK
  <2> QED  BY <1>1, <2>1 DEF Inv, TypeOK, calls
<1>3. Place'
  BY <1>1, Facts DEF Inv, Place, Usual, calls
<1>4. (\A k : QueueHoldsAfter(k) => QueueHoldsAfter(k)') /\ Taken' = Taken
  BY <1>1 DEF QueueHoldsAfter, IsRecord, Taken, calls
<1>5. QueueHoldsAfter(Taken) => QueueHoldsAfter(Taken)'
  BY <1>4
<1>6. InOrder'
  BY <1>1, <1>5 DEF Inv, InOrder, Usual, FileUsable
<1>7. AtRisk'
  <2>1. (~ Usual' => ~ Usual) /\ (handle' # "none" => handle # "none")
    BY <1>1 DEF Usual, Inv, Place
  <2> QED  BY <1>1, <1>4, <2>1, RiskKeeps
<1> QED  BY <1>1, <1>2, <1>3, <1>6, <1>7, WriterKeeps

LEMMA ReopenKeeps == Inv /\ Reopen => Inv'
<1> SUFFICES ASSUME Inv, Reopen PROVE Inv'
  OBVIOUS
<1>1. /\ at = "reopen" /\ at' = "append" /\ handle' = "open"
      /\ UNCHANGED <<queue, calls, then, batch, next, files, written, faults>>
  BY DEF Reopen
<1>2. TypeOK'
  BY <1>1 DEF Inv, TypeOK, calls
<1>3. Place'
  BY <1>1 DEF Inv, Place
<1>4. (\A k : QueueHoldsAfter(k) => QueueHoldsAfter(k)') /\ Taken' = Taken
  BY <1>1 DEF QueueHoldsAfter, IsRecord, Taken, calls
<1>5. QueueHoldsAfter(Taken) => QueueHoldsAfter(Taken)'
  BY <1>4
<1>6. InOrder'
  BY <1>1, <1>5 DEF Inv, InOrder, Usual, FileUsable
<1>7. AtRisk'
  <2>1. (~ Usual' => ~ Usual) /\ (handle' # "none" => handle # "none")
    BY <1>1 DEF Usual, Inv, Place
  <2> QED  BY <1>1, <1>4, <2>1, RiskKeeps
<1> QED  BY <1>1, <1>2, <1>3, <1>6, <1>7, WriterKeeps

\* Once a write has raised, only its batch is at stake.
LEMMA RaisesKeeps ==
  ASSUME Inv, at \in {"append", "reopen"}, WriteRaises, faults' \in 0 .. MaxFaults,
         UNCHANGED <<queue, accepted, dropped, promised, handle, files, written>>
  PROVE  Inv'
<1>1. /\ next' = 1 /\ batch' = batch /\ caller' = caller /\ then' = "end"
      /\ at' \in {"write", "ended"} /\ ~ Usual' /\ UNCHANGED calls
  BY DEF WriteRaises, Usual, calls
<1>2. TypeOK'
  BY <1>1, SizesAssumption DEF Inv, TypeOK
<1>3. Place'
  BY <1>1 DEF Inv, Place
<1>4. InOrder'
  BY <1>1 DEF InOrder
<1>5. AtRisk'
  <2>1. \A k : QueueHoldsAfter(k) => QueueHoldsAfter(k)'
    BY DEF QueueHoldsAfter, IsRecord
  <2>2. CASE ~ Usual
    BY <1>1, <2>1, <2>2, RiskKeeps
  <2>3. CASE Usual /\ handle = "none"
    <3>1. Len(written) \in 0 .. Len(written) /\ \A i \in 1 .. Len(written) : written[i] = i
      BY <2>3, Facts DEF Inv, InOrder
    <3> QED  BY <1>1, <2>3, <3>1, Facts DEF AtRisk, Explains
  <2>4. CASE Usual /\ handle # "none"
    <3>1. FileUsable /\ next <= Len(batch)
      BY <2>4 DEF Inv, TypeOK, Place, FileUsable
    <3>2. /\ \A i \in 1 .. Len(written) : written[i] = i
          /\ \A i \in 1 .. Len(batch) : batch[i] = Len(written) + i - next + 1
          /\ QueueHoldsAfter(Taken)
      BY <2>4, <3>1, Facts DEF Inv, InOrder
    <3>3. PICK k : k = Len(written) - next + 1
      OBVIOUS
    <3>4. k \in 0 .. Len(written)
      <4>1. 1 \in 1 .. Len(batch) /\ batch[1] = k + 1
        BY <3>1, <3>2, <3>3, Facts
      <4> QED  BY <3>3, <4>1, Facts
    <3>5. k + Len(batch) = Taken
      BY <3>3, Facts DEF Taken
    <3>6. QueueHoldsAfter(k + Len(batch))'
      BY <1>1, <2>1, <3>2, <3>5
    <3>7. \A j \in 1 .. Len(batch) : batch[j] = k + j
      BY <3>2, <3>3, <3>4, Facts
    <3>8. ASSUME NEW i \in k + 1 .. Len(written)  PROVE \E j \in 1 .. Len(batch) : written[i] = batch[j]
      <4>1. i - k \in 1 .. Len(batch) /\ i \in 1 .. Len(written) /\ i \in Int
        <5>1. /\ Len(written) \in Nat /\ Len(batch) \in Nat
              /\ next \in Nat /\ 1 <= next /\ next <= Len(batch)
          BY <3>1, Facts
        <5> QED  BY <3>3, <3>4, <5>1
      <4>2. batch[i - k] = k + (i - k)
        BY <3>7, <4>1
      <4> QED  BY <3>2, <3>4, <4>1, <4>2
    <3>9. k \in Nat /\ \A i \in 1 .. k : i \in 1 .. Len(written)
      BY <3>4, Facts
    <3>10. DOMAIN batch = 1 .. Len(batch)
      BY Facts
    <3>11. Explains(written, k)'
      BY <1>1, <3>2, <3>6, <3>7, <3>8, <3>9, <3>10 DEF Explains
    <3> QED  BY <3>4, <3>11 DEF AtRisk
  <2> QED  BY <2>2, <2>3, <2>4
<1>6. "end" \notin Callers
  BY CallersAssumption DEF Callers
<1> QED  BY <1>1, <1>2, <1>3, <1>4, <1>5, <1>6, WriterKeeps

LEMMA WriteFailsKeeps == Inv /\ WriteFails => Inv'
<1> SUFFICES ASSUME Inv, WriteFails PROVE Inv'
  OBVIOUS
<1>1. faults' \in 0 .. MaxFaults
  BY BoundsAssumption DEF WriteFails, Inv, TypeOK
<1> QED  BY <1>1, RaisesKeeps DEF WriteFails

LEMMA AppendFindsNoFileKeeps == Inv /\ AppendFindsNoFile => Inv'
<1> SUFFICES ASSUME Inv, AppendFindsNoFile PROVE Inv'
  OBVIOUS
<1>1. faults' \in 0 .. MaxFaults
  BY DEF AppendFindsNoFile, Inv, TypeOK
<1> QED  BY <1>1, RaisesKeeps DEF AppendFindsNoFile

LEMMA GetKeeps == Inv /\ Get => Inv'
<1> SUFFICES ASSUME Inv, Get PROVE Inv'
  OBVIOUS
<1> DEFINE item == Head(queue)
<1>1. /\ at = "get" /\ queue # <<>> /\ queue' = Tail(queue)
      /\ UNCHANGED <<calls, next, handle, files, written, faults>>
  BY DEF Get
<1>2. /\ queue' \in Seq(Items) /\ Len(queue') = Len(queue) - 1 /\ Len(queue) \in Nat \ {0}
      /\ item = queue[1] /\ item \in Items
      /\ DOMAIN queue = 1 .. Len(queue) /\ DOMAIN queue' = 1 .. Len(queue) - 1
      /\ \A i \in 1 .. Len(queue) - 1 : queue'[i] = queue[i + 1]
  BY <1>1, Cut DEF Inv, TypeOK
<1>3. \A i \in DOMAIN queue' : i + 1 \in DOMAIN queue /\ queue'[i] = queue[i + 1] /\ i \in Nat \ {0}
  BY <1>2
<1>4. /\ then = "batch" /\ next = 1 /\ Len(batch) < BatchSize /\ Usual
  BY <1>1 DEF Inv, Place, Usual
<1>5. item.kind = "record" \/ item.kind = "flush" \/ item.kind = "stop"
  BY <1>2, Kinds
<1>6. {"batch", "stop", "end"} \cap Callers = {}
  BY CallersAssumption DEF Callers
<1>7. \A j \in DOMAIN queue' : IsRecord(j)' => IsRecord(j + 1) /\ queue'[j].value = queue[j + 1].value
  BY <1>3 DEF IsRecord
<1>8. /\ \A j \in DOMAIN queue' : IsRecord(j)' => queue'[j].value \in 1 .. accepted'
      /\ \A c \in Callers : \A i, j \in DOMAIN queue' :
            queue'[i] = Flush(c) /\ i < j /\ IsRecord(j)' => queue'[j].value > promised'[c]
      /\ \A c \in Callers : caller'[c] = "running" =>
            item # Flush(c) /\ \A i \in DOMAIN queue' : queue'[i] # Flush(c)
  <2>1. \A j \in DOMAIN queue' : IsRecord(j)' => queue'[j].value \in 1 .. accepted'
    BY <1>1, <1>3, <1>7 DEF Inv, Marked, calls
  <2>2. ASSUME NEW c \in Callers, NEW i \in DOMAIN queue', NEW j \in DOMAIN queue',
               queue'[i] = Flush(c), i < j, IsRecord(j)'
        PROVE  queue'[j].value > promised'[c]
    <3>1. i + 1 < j + 1 /\ queue[i + 1] = Flush(c)
      BY <1>3, <2>2
    <3> QED  BY <1>1, <1>3, <1>7, <2>2, <3>1 DEF Inv, Marked, calls
  <2>3. ASSUME NEW c \in Callers, caller'[c] = "running"
        PROVE  item # Flush(c) /\ \A i \in DOMAIN queue' : queue'[i] # Flush(c)
    <3>1. \A i \in DOMAIN queue : queue[i] # Flush(c)
      BY <1>1, <2>3 DEF Inv, Marked, Unasked, calls
    <3>2. 1 \in DOMAIN queue
      BY <1>2
    <3> QED  BY <1>2, <1>3, <3>1, <3>2
  <2> QED  BY <2>1, <2>2, <2>3
<1>9. FlushedIsWritten'
  BY <1>1 DEF Inv, FlushedIsWritten, calls
<1>10. CASE item.kind = "record"
  <2>1. /\ batch' = Append(batch, item.value) /\ then' = "batch"
        /\ at' = IF Len(batch') >= BatchSize THEN "write" ELSE "get"
    BY <1>1, <1>10 DEF Get
  <2>2. item.value \in 1 .. accepted
    BY <1>2, <1>10 DEF Inv, Marked, IsRecord
  <2>3. /\ batch' \in Seq(1 .. accepted) /\ Len(batch') = Len(batch) + 1 /\ Len(batch) \in Nat
        /\ \A i \in 1 .. Len(batch) : batch'[i] = batch[i]
        /\ batch'[Len(batch) + 1] = item.value
    BY <2>1, <2>2, Appended, LenProperties DEF Inv, TypeOK
  <2>4. Len(batch') <= BatchSize /\ Usual' /\ at' \in {"get", "write"}
    BY <1>4, <2>1, <2>3, SizesAssumption DEF Usual
  <2>5. TypeOK'
    BY <1>1, <1>2, <2>1, <2>3, <2>4, SizesAssumption DEF Inv, TypeOK, calls
  <2>6. Place'
    BY <1>1, <1>4, <2>1, <2>3, <2>4, SizesAssumption DEF Inv, Place, Usual, calls
  <2>7. InOrder'
    <3>1. \A i \in DOMAIN written' : written'[i] = i
      BY <1>1, <1>4 DEF Inv, InOrder
    <3>2. ASSUME FileUsable'
          PROVE  /\ \A i \in 1 .. Len(batch') : batch'[i] = Len(written') + i - next' + 1
                 /\ QueueHoldsAfter(Taken)'
      <4>1. FileUsable /\ QueueHoldsAfter(Taken) /\ Taken \in Nat
            /\ \A i \in 1 .. Len(batch) : batch[i] = Len(written) + i
        BY <1>1, <1>4, <2>4, <3>2, TakenNat, Facts DEF FileUsable, Inv, InOrder
      <4>2. item.value = Taken + 1 /\ QueueHoldsAfter(Taken)'
        <5>1. queue \in Seq(Items) /\ accepted' = accepted /\ accepted \in Nat
          BY <1>1, Facts DEF Inv, TypeOK, calls
        <5>2. \A k \in Nat : QueueHoldsAfter(k) => item.value = k + 1 /\ QueueHoldsAfter(k + 1)'
          BY <1>1, <1>10, <5>1, RecordTaken
        <5>3. PICK k \in Nat : k = Taken
          BY <4>1
        <5>4. QueueHoldsAfter(k) /\ item.value = k + 1 /\ QueueHoldsAfter(k + 1)'
          BY <4>1, <5>2, <5>3
        <5>5. Taken' = k + 1
          BY <1>1, <1>4, <2>3, <5>3, Facts DEF Taken
        <5> QED  BY <5>3, <5>4, <5>5
      <4>3. ASSUME NEW i \in 1 .. Len(batch) + 1  PROVE batch'[i] = Len(written) + i
        <5>1. Len(written) \in Nat /\ Len(batch) \in Nat
          BY Facts
        <5>2. CASE i \in 1 .. Len(batch)
          BY <2>3, <4>1, <5>2
        <5>3. CASE i = Len(batch) + 1
          BY <1>4, <2>3, <4>2, <5>1, <5>3 DEF Taken
        <5> QED  BY <4>3, <5>1, <5>2, <5>3
      <4> QED  BY <1>1, <1>4, <2>3, <4>2, <4>3, Facts
    <3> QED  BY <3>1, <3>2 DEF InOrder
  <2>8. AtRisk'
    BY <2>4 DEF AtRisk
  <2>9. Marked'
    BY <1>6, <1>8, <2>1 DEF Marked, Unasked
  <2> QED  BY <1>9, <2>5, <2>6, <2>7, <2>8, <2>9 DEF Inv
<1>11. CASE item.kind \in {"flush", "stop"}
  <2>1. /\ at' = "write" /\ batch' = batch
        /\ then' = IF item.kind = "flush" THEN item.value ELSE "stop"
    BY <1>1, <1>11 DEF Get
  <2>2. item.kind = "flush" => item = Flush(item.value) /\ item.value \in Callers
    BY <1>2, Kinds
  <2>3. then' \in {"stop"} \cup Callers /\ then' # "end" /\ Usual'
    BY <1>6, <2>1, <2>2 DEF Usual
  <2>4. TypeOK'
    BY <1>1, <1>2, <2>1, <2>3, SizesAssumption DEF Inv, TypeOK, calls
  <2>5. Place'
    BY <1>1, <1>4, <2>1, <2>3 DEF Inv, Place, Usual, calls
  <2>6. InOrder'
    <3>1. QueueHoldsAfter(Taken) => QueueHoldsAfter(Taken)'
      <4>1. queue \in Seq(Items) /\ accepted' = accepted /\ item.kind # "record"
        BY <1>1, <1>11 DEF Inv, TypeOK, calls
      <4>2. \A k : QueueHoldsAfter(k) => QueueHoldsAfter(k)'
        BY <1>1, <4>1, MarkerTaken
      <4>3. Taken' = Taken
        BY <1>1, <2>1 DEF Taken
      <4> QED  BY <4>2, <4>3
    <3>2. FileUsable' => FileUsable
      BY <1>1, <2>1 DEF FileUsable
    <3> QED  BY <1>1, <1>4, <2>1, <3>1, <3>2 DEF Inv, InOrder
  <2>7. AtRisk'
    BY <2>3 DEF AtRisk
  <2>8. Marked'
    <3>1. ASSUME then' \in Callers, NEW j \in DOMAIN queue', IsRecord(j)'
          PROVE  queue'[j].value > promised'[then']
      <4>1. then' = item.value /\ queue[1] = Flush(then')
        BY <1>2, <1>6, <2>1, <2>2, <3>1
      <4>2. 1 \in DOMAIN queue /\ 1 < j + 1
        BY <1>2, <1>3
      <4> QED  BY <1>1, <1>3, <1>7, <3>1, <4>1, <4>2 DEF Inv, Marked, calls
    <3>2. ASSUME NEW c \in Callers, caller'[c] = "running"  PROVE Unasked(c)'
      <4>1. then' # c
        BY <1>6, <1>8, <2>1, <2>2, <3>2
      <4> QED  BY <1>8, <3>2, <4>1 DEF Unasked
    <3> QED  BY <1>8, <3>1, <3>2 DEF Marked
  <2> QED  BY <1>9, <2>4, <2>5, <2>6, <2>7, <2>8 DEF Inv
<1> QED  BY <1>5, <1>10, <1>11
\* What _write has to have done when it returns: of the batch nothing is left,
\* or the file is gone.
LEMMA ReturnsKeep ==
  ASSUME Inv, at \in {"write", "append"}, WriteReturns,
         UNCHANGED <<queue, accepted, dropped, promised, handle, faults>>,
         files' \in Seq(Seq(1 .. accepted)), Len(files') \in 1 .. MaxFiles,
         written' \in Seq(1 .. accepted), Len(written') >= Len(written),
         \A i \in DOMAIN written : i \in DOMAIN written' /\ written'[i] = written[i],
         Usual => \A i \in DOMAIN written' : written'[i] = i,
         Usual /\ handle = "open" => Len(written') = Taken,
         ~ Usual => \E k \in 0 .. Len(written') : Explains(written', k)
  PROVE  Inv'
<1>1. {"batch", "stop", "end"} \cap Callers = {} /\ (Usual <=> then # "end")
  BY CallersAssumption DEF Callers, Usual
<1>2. /\ next' = 1 /\ batch' \in {batch, <<>>} /\ at' \in {"get", "write", "ended"}
      /\ then' \in {then, "end", "batch"}
      /\ at' = "get" => batch' = <<>> /\ then' = "batch" /\ then # "end"
      /\ at' # "get" => batch' = batch /\ then' \in {"end", "stop"}
      /\ at' # "get" => ~ Usual'
  BY <1>1 DEF WriteReturns, Usual, Inv, TypeOK
<1>3. /\ caller' \in [Callers -> {"running", "waiting", "flushed", "gave_up", "joining", "closed"}]
      /\ \A c \in Callers : caller'[c] = caller[c] \/
             (c = then /\ at' = "get" /\ caller[c] = "waiting" /\ caller'[c] = "flushed")
  <2>1. caller \in [Callers -> {"running", "waiting", "flushed", "gave_up", "joining", "closed"}]
    BY DEF Inv, TypeOK
  <2>2. \/ caller' = caller
        \/ /\ then \in Callers /\ at' = "get" /\ caller[then] = "waiting"
           /\ caller' = [caller EXCEPT ![then] = "flushed"]
    <3>1. then \in {"batch", "stop", "end"} \cup Callers
      BY DEF Inv, TypeOK
    <3> QED  BY <1>1, <3>1 DEF WriteReturns
  <2> QED  BY <2>1, <2>2
<1>4. Len(written') \in Nat /\ DOMAIN written' = 1 .. Len(written')
      /\ DOMAIN batch = 1 .. Len(batch) /\ Len(<<>>) = 0
  BY Facts, LenProperties
<1>5. TypeOK'
  <2>1. batch' \in Seq(1 .. accepted) /\ Len(batch') <= BatchSize
    <3>1. <<>> \in Seq(1 .. accepted)
      BY EmptySeq
    <3>2. batch \in Seq(1 .. accepted) /\ Len(batch) <= BatchSize
      BY DEF Inv, TypeOK
    <3>3. CASE batch' = batch
      BY <3>2, <3>3
    <3>4. CASE batch' = <<>>
      <4>1. Len(<<>>) <= BatchSize
        BY <1>4, SizesAssumption
      <4> QED  BY <3>1, <3>4, <4>1
    <3> QED  BY <1>2, <3>3, <3>4
  <2>2. then' \in {"batch", "stop", "end"} \cup Callers
    BY <1>2 DEF Inv, TypeOK
  <2>3. accepted' = accepted /\ at' \in {"get", "write", "reopen", "append", "ended"}
        /\ next' \in 1 .. BatchSize
    BY <1>2, SizesAssumption
  <2>4. queue' \in Seq(Items) /\ Len(queue') <= MaxQueue /\ accepted' \in 0 .. MaxEmits
        /\ dropped' \in 0 .. MaxEmits - accepted' /\ promised' \in [Callers -> 0 .. accepted']
        /\ handle' \in {"open", "closed", "none"} /\ faults' \in 0 .. MaxFaults
    BY DEF Inv, TypeOK
  <2> QED  BY <1>3, <2>1, <2>2, <2>3, <2>4 DEF TypeOK
<1>6. Closer \in Callers /\ (caller[Closer] = "closed" <=> caller'[Closer] = "closed")
  BY <1>3 DEF Callers
<1>7. handle = "closed" => ~ Usual
  BY DEF Inv, Place
<1>8. Place'
  <2>1. CASE at' = "get"
    BY <1>1, <1>2, <1>4, <1>6, <1>7, <2>1, SizesAssumption DEF Inv, Place
  <2>2. CASE at' # "get"
    BY <1>2, <1>6, <2>2 DEF Inv, Place
  <2> QED  BY <2>1, <2>2
<1>9. QueueHoldsAfter(Taken) /\ Taken' = Taken => QueueHoldsAfter(Taken)'
  BY DEF QueueHoldsAfter, IsRecord
<1>10. InOrder'
  <2>1. CASE at' = "get" /\ FileUsable'
    <3>1. Usual /\ handle = "open" /\ FileUsable
      BY <1>1, <1>2, <2>1 DEF FileUsable
    <3>2. Taken' = Len(written')
      BY <1>2, <1>4, <2>1 DEF Taken
    <3>3. QueueHoldsAfter(Taken)'
      BY <1>9, <3>1, <3>2 DEF Inv, InOrder
    <3>4. \A i \in 1 .. Len(batch') : FALSE
      BY <1>2, <1>4, <2>1
    <3> QED  BY <3>1, <3>3, <3>4 DEF InOrder
  <2>2. CASE at' = "get" /\ ~ FileUsable'
    BY <1>1, <1>2, <2>2 DEF InOrder
  <2>3. CASE at' # "get"
    BY <1>2, <2>3 DEF InOrder
  <2> QED  BY <2>1, <2>2, <2>3
<1>11. AtRisk'
  <2>1. CASE at' = "get"
    BY <1>2, <2>1 DEF AtRisk, Usual
  <2>2. \A k : QueueHoldsAfter(k) => QueueHoldsAfter(k)'
    BY DEF QueueHoldsAfter, IsRecord
  <2>3. CASE at' # "get" /\ Usual
    <3>1. \A i \in 1 .. Len(written') : written'[i] = i
      BY <1>4, <2>3
    <3>2. CASE handle = "none"
      <4>1. Len(written') \in 0 .. Len(written') /\ \A i \in Len(written') + 1 .. Len(written') : FALSE
        BY <1>4
      <4>2. Explains(written, Len(written))'
        BY <3>1, <3>2, <4>1 DEF Explains
      <4> QED  BY <4>1, <4>2 DEF AtRisk
    <3>3. CASE handle # "none"
      <4>1. handle = "open" /\ FileUsable
        BY <1>7, <2>3, <3>3 DEF Inv, TypeOK, FileUsable
      <4>2. /\ Len(written') = Taken /\ QueueHoldsAfter(Taken)
            /\ \A i \in 1 .. Len(batch) : batch[i] = Len(written) + i - next + 1
        BY <2>3, <4>1 DEF Inv, InOrder
      <4>3. PICK k : k = Taken - Len(batch)
        OBVIOUS
      <4>4. \A i \in 1 .. Len(batch) : batch[i] = k + i
        <5>1. Len(written) \in Nat /\ Len(batch) \in Nat /\ next \in Nat
          BY Facts
        <5>2. k = Len(written) - next + 1
          BY <4>3, <5>1 DEF Taken
        <5> QED  BY <4>2, <5>1, <5>2
      <4>5. k \in 0 .. Len(written')
        <5>1. CASE Len(batch) = 0
          BY <1>4, <4>2, <4>3, <5>1
        <5>2. CASE Len(batch) # 0
          <6>1. 1 \in 1 .. Len(batch) /\ batch[1] = k + 1 /\ Len(batch) \in Nat
            BY <4>4, <5>2, Facts
          <6>2. k \in Int /\ batch[1] >= 1
            BY <1>4, <4>2, <4>3, <6>1, Facts
          <6> QED  BY <1>4, <4>2, <4>3, <6>1, <6>2
        <5> QED  BY <5>1, <5>2
      <4>6. k + Len(batch) = Taken
        BY <4>3, Facts DEF Taken
      <4>7. QueueHoldsAfter(k + Len(batch))'
        BY <1>2, <2>2, <2>3, <4>2, <4>6
      <4>8. ASSUME NEW i \in k + 1 .. Len(written')
            PROVE  \E j \in 1 .. Len(batch) : written'[i] = batch[j]
        <5>1. i - k \in 1 .. Len(batch) /\ i \in 1 .. Len(written') /\ i \in Int
          BY <1>4, <4>2, <4>5, <4>6, Facts
        <5>2. batch[i - k] = k + (i - k)
          BY <4>4, <5>1
        <5>3. k \in Int /\ k + (i - k) = i
          BY <1>4, <4>5, <5>1
        <5> QED  BY <3>1, <5>1, <5>2, <5>3
      <4>9. k \in Nat /\ \A i \in 1 .. k : i \in 1 .. Len(written')
        BY <1>4, <4>5
      <4>10. batch' = batch
        BY <1>2, <2>3
      <4>11. Explains(written, k)'
        BY <1>4, <3>1, <4>4, <4>7, <4>8, <4>9, <4>10 DEF Explains
      <4> QED  BY <4>5, <4>11 DEF AtRisk
    <3> QED  BY <3>2, <3>3
  <2>4. CASE at' # "get" /\ ~ Usual
    <3>1. PICK k \in 0 .. Len(written') : Explains(written', k)
      BY <2>4
    <3>2. QueueHoldsAfter(k + Len(batch)) => QueueHoldsAfter(k + Len(batch))'
      BY <1>2, <2>2, <2>4
    <3>3. Explains(written, k)'
      BY <1>2, <2>4, <3>1, <3>2 DEF Explains
    <3> QED  BY <3>3 DEF AtRisk
  <2> QED  BY <2>1, <2>3, <2>4
<1>12. Marked'
  <2>1. then' \in Callers => FALSE
    BY <1>1, <1>2
  <2>2. \A c \in Callers : caller'[c] = "running" => caller[c] = "running"
    BY <1>3
  <2> QED  BY <2>1, <2>2 DEF Inv, Marked, Unasked, IsRecord
<1>13. FlushedIsWritten'
  <2> SUFFICES ASSUME NEW c \in Callers, caller'[c] = "flushed", caller'[Closer] # "closed",
                      NEW n \in 1 .. promised'[c]
               PROVE  \E i \in DOMAIN written' : written'[i] = n
    BY DEF FlushedIsWritten
  <2>1. CASE caller[c] = "flushed"
    <3>1. PICK i \in DOMAIN written : written[i] = n
      BY <1>6, <2>1 DEF Inv, FlushedIsWritten
    <3> QED  BY <3>1
  <2>2. CASE caller[c] # "flushed"
    <3>1. c = then /\ Usual
      BY <1>1, <1>3, <2>2
    <3>2. handle = "open"
      BY <1>6, <1>7, <3>1 DEF Inv, TypeOK, Place
    <3>3. Len(written') = Taken /\ QueueHoldsAfter(Taken)
      BY <3>1, <3>2 DEF Inv, InOrder, FileUsable
    <3>4. promised[c] \in 0 .. accepted /\ accepted \in Nat /\ n \in 1 .. accepted
      BY Facts DEF Inv, TypeOK
    <3>5. n <= Taken
      <4>0. Taken \in Nat
        BY TakenNat
      <4> SUFFICES ASSUME n > Taken PROVE FALSE
        BY <3>4, <4>0
      <4>1. PICK i \in DOMAIN queue : queue[i] = Record(n)
        <5>1. n \in Taken + 1 .. accepted
          BY <3>4, <4>0
        <5> QED  BY <3>3, <5>1 DEF QueueHoldsAfter
      <4>2. IsRecord(i) /\ queue[i].value = n
        BY <4>1, Kinds DEF IsRecord
      <4>3. queue[i].value > promised[c]
        BY <3>1, <4>2 DEF Inv, Marked
      <4> QED  BY <3>4, <4>2, <4>3
    <3>6. n \in DOMAIN written'
      BY <1>4, <3>3, <3>4, <3>5
    <3>7. written'[n] = n
      BY <3>1, <3>6
    <3> QED  BY <3>6, <3>7
  <2> QED  BY <2>1, <2>2
<1> QED  BY <1>5, <1>8, <1>10, <1>11, <1>12, <1>13 DEF Inv

LEMMA SkipWriteKeeps == Inv /\ SkipWrite => Inv'
<1> SUFFICES ASSUME Inv, SkipWrite PROVE Inv'
  OBVIOUS
<1>1. /\ at = "write" /\ (batch = <<>> \/ handle # "open") /\ WriteReturns
      /\ UNCHANGED <<queue, accepted, dropped, promised, handle, files, written, faults>>
  BY DEF SkipWrite
<1>2. handle = "open" => Len(written) = Taken
  BY <1>1, Facts DEF Taken, Inv, Place
<1>3. /\ files \in Seq(Seq(1 .. accepted)) /\ Len(files) \in 1 .. MaxFiles
      /\ written \in Seq(1 .. accepted) /\ Len(written) >= Len(written)
  BY Facts DEF Inv, TypeOK
<1>4. Usual => \A i \in DOMAIN written : written[i] = i
  BY DEF Inv, InOrder
<1>5. ~ Usual => \E k \in 0 .. Len(written') : Explains(written', k)
  BY <1>1 DEF Inv, AtRisk
<1> QED  BY <1>1, <1>2, <1>3, <1>4, <1>5, ReturnsKeep

LEMMA AppendRecordKeeps == Inv /\ AppendRecord => Inv'
<1> SUFFICES ASSUME Inv, AppendRecord PROVE Inv'
  OBVIOUS
<1>1. /\ at = "append" /\ handle = "open" /\ FileUsable
      /\ files' = [files EXCEPT ![1] = Append(files[1], batch[next])]
      /\ written' = Append(written, batch[next])
      /\ UNCHANGED <<queue, accepted, dropped, promised, handle, faults>>
  BY DEF AppendRecord, FileUsable
<1>2. next \in 1 .. Len(batch) /\ batch[next] \in 1 .. accepted
  BY <1>1, Facts DEF Inv, Place
<1>3. /\ written' \in Seq(1 .. accepted) /\ Len(written') = Len(written) + 1
      /\ DOMAIN written' = 1 .. Len(written) + 1
      /\ \A i \in 1 .. Len(written) : written'[i] = written[i]
      /\ written'[Len(written) + 1] = batch[next]
  BY <1>1, <1>2, Appended DEF Inv, TypeOK
<1>4. files' \in Seq(Seq(1 .. accepted)) /\ Len(files') \in 1 .. MaxFiles
  <2>1. files \in Seq(Seq(1 .. accepted)) /\ Len(files) \in 1 .. MaxFiles
    BY DEF Inv, TypeOK
  <2>2. 1 \in 1 .. Len(files)
    BY <2>1, SizesAssumption
  <2>3. files[1] \in Seq(1 .. accepted)
    BY <2>1, <2>2, ElementOfSeq
  <2>4. Append(files[1], batch[next]) \in Seq(1 .. accepted)
    BY <1>2, <2>3, Appended
  <2> QED  BY <1>1, <2>1, <2>2, <2>4, ExceptSeq
<1>5. Usual => \A i \in DOMAIN written' : written'[i] = i
  <2> SUFFICES ASSUME Usual, NEW i \in DOMAIN written' PROVE written'[i] = i
    OBVIOUS
  <2>1. CASE i <= Len(written)
    BY <1>3, <2>1, Facts DEF Inv, InOrder
  <2>2. CASE i > Len(written)
    <3>1. i = Len(written) + 1
      BY <1>3, <2>2, Facts
    <3>2. batch[next] = Len(written) + 1
      BY <1>1, <1>2, Facts DEF Inv, InOrder
    <3> QED  BY <1>3, <3>1, <3>2
  <2> QED  BY <1>3, <2>1, <2>2, Facts
<1>6. ~ Usual => \E k \in 0 .. Len(written') : Explains(written', k)
  <2> SUFFICES ASSUME ~ Usual PROVE \E k \in 0 .. Len(written') : Explains(written', k)
    OBVIOUS
  <2>1. PICK k \in 0 .. Len(written) : Explains(written, k)
    BY DEF Inv, AtRisk
  <2>2. k \in 0 .. Len(written') /\ \A i \in 1 .. k : written'[i] = i
    BY <1>3, <2>1, Facts DEF Explains
  <2>3. ASSUME NEW i \in k + 1 .. Len(written')
        PROVE  \E j \in DOMAIN batch : written'[i] = batch[j]
    <3>1. CASE i = Len(written) + 1
      BY <1>2, <1>3, <3>1, Facts
    <3>2. CASE i # Len(written) + 1
      <4>1. i \in k + 1 .. Len(written) /\ i \in 1 .. Len(written)
        BY <1>3, <2>1, <3>2, Facts
      <4> QED  BY <1>3, <2>1, <4>1 DEF Explains
    <3> QED  BY <3>1, <3>2
  <2> QED  BY <2>1, <2>2, <2>3 DEF Explains
<1>7. CASE next < Len(batch)
  <2>1. next' = next + 1 /\ UNCHANGED <<at, then, batch, caller, calls>>
    BY <1>1, <1>7 DEF AppendRecord, calls
  <2>2. Taken' = Taken
    <3>1. Len(written) \in Nat /\ Len(batch) \in Nat /\ next \in Nat
      BY Facts
    <3>2. Len(batch') = Len(batch) /\ next' = next + 1 /\ Len(written') = Len(written) + 1
      BY <1>3, <2>1
    <3> QED  BY <3>1, <3>2 DEF Taken
  <2>3. TypeOK'
    <3>1. next' \in 1 .. BatchSize
      BY <1>7, <2>1, Facts, SizesAssumption DEF Inv, TypeOK
    <3> QED  BY <1>1, <1>3, <1>4, <2>1, <3>1 DEF Inv, TypeOK
  <2>4. Place'
    BY <1>1, <1>7, <2>1, Facts DEF Inv, Place, Usual
  <2>5. QueueHoldsAfter(Taken) => QueueHoldsAfter(Taken)'
    BY <1>1, <2>2 DEF QueueHoldsAfter, IsRecord
  <2>6. InOrder'
    <3> SUFFICES ASSUME Usual
                 PROVE  /\ \A i \in 1 .. Len(batch') : batch'[i] = Len(written') + i - next' + 1
                        /\ QueueHoldsAfter(Taken)'
      BY <1>5, <2>1 DEF InOrder, Usual
    <3>1. QueueHoldsAfter(Taken)'
      BY <1>1, <2>5 DEF Inv, InOrder
    <3>2. \A i \in 1 .. Len(batch) : batch[i] = Len(written) + i - next + 1
      BY <1>1 DEF Inv, InOrder
    <3>3. Len(written) \in Nat /\ Len(batch) \in Nat /\ next \in Nat
      BY Facts
    <3>4. ASSUME NEW i \in 1 .. Len(batch)
          PROVE  batch[i] = (Len(written) + 1) + i - (next + 1) + 1
      <4>1. i \in Int
        BY <3>3
      <4>2. batch[i] = Len(written) + i - next + 1
        BY <3>2
      <4> QED  BY <3>3, <4>1, <4>2
    <3> QED  BY <1>3, <2>1, <3>1, <3>4
  <2>7. AtRisk'
    <3> SUFFICES ASSUME ~ Usual PROVE \E k \in 0 .. Len(written') : Explains(written, k)'
      BY <2>1 DEF AtRisk, Usual
    <3>1. PICK k \in 0 .. Len(written') : Explains(written', k)
      BY <1>6
    <3>2. QueueHoldsAfter(k + Len(batch)) => QueueHoldsAfter(k + Len(batch))'
      BY <1>1, <2>1 DEF QueueHoldsAfter, IsRecord
    <3> QED  BY <1>1, <2>1, <3>1, <3>2 DEF Explains
  <2>8. Len(written') >= Len(written)
        /\ \A i \in DOMAIN written : i \in DOMAIN written' /\ written'[i] = written[i]
    BY <1>3, Facts
  <2> QED  BY <1>1, <2>1, <2>3, <2>4, <2>6, <2>7, <2>8, WriterKeeps
<1>8. CASE ~ next < Len(batch)
  <2>1. WriteReturns
    BY <1>8 DEF AppendRecord
  <2>2. Len(written') = Taken
    <3>1. Len(written) \in Nat /\ Len(batch) \in Nat /\ next \in Nat
      BY Facts
    <3>2. next = Len(batch) /\ Len(written') = Len(written) + 1
      BY <1>2, <1>3, <1>8, <3>1
    <3> QED  BY <3>1, <3>2 DEF Taken
  <2>3. Len(written') >= Len(written)
        /\ \A i \in DOMAIN written : i \in DOMAIN written' /\ written'[i] = written[i]
    BY <1>3, Facts
  <2> QED  BY <1>1, <1>3, <1>4, <1>5, <1>6, <2>1, <2>2, <2>3, ReturnsKeep
<1> QED  BY <1>7, <1>8
-----------------------------------------------------------------------------
(* The invariant and the properties *)

LEMMA InitInv == Init => Inv
<1> SUFFICES ASSUME Init PROVE Inv
  OBVIOUS
<1>1. Len(<<>>) = 0 /\ DOMAIN <<>> = {} /\ Len(<< <<>> >>) = 1
  OBVIOUS
<1>2. TypeOK
  <2>1. <<>> \in Seq(Items)
    BY EmptySeq
  <2>2. <<>> \in Seq(1 .. accepted)
    BY EmptySeq
  <2>3. << <<>> >> \in Seq(Seq(1 .. accepted))
    BY <2>2
  <2> QED  BY <1>1, <2>1, <2>2, <2>3, SizesAssumption, BoundsAssumption DEF Init, TypeOK
<1>3. Place
  BY <1>1, SizesAssumption DEF Init, Place
<1>4. Taken = 0 /\ accepted = 0
  BY <1>1 DEF Init, Taken
<1>5. InOrder
  BY <1>1, <1>4 DEF Init, InOrder, QueueHoldsAfter
<1>6. AtRisk /\ FlushedIsWritten
  BY DEF Init, AtRisk, Usual, FlushedIsWritten
<1>7. Marked
  BY <1>1, CallersAssumption DEF Init, Marked, Unasked, Callers
<1> QED  BY <1>2, <1>3, <1>5, <1>6, <1>7 DEF Inv

LEMMA NextInv == Inv /\ [Next]_vars => Inv'
<1> SUFFICES ASSUME Inv, [Next]_vars PROVE Inv'
  OBVIOUS
<1>1. ASSUME NEW c \in Callers, FlushFindsNoRoom(c) \/ FlushTimesOut(c)  PROVE Inv'
  <2>1. /\ caller[c] \in {"running", "waiting"} /\ caller' = [caller EXCEPT ![c] = "gave_up"]
        /\ UNCHANGED <<queue, accepted, dropped, promised, handle, writer>>
    BY <1>1 DEF FlushFindsNoRoom, FlushTimesOut
  <2>2. caller[Closer] = "closed" => caller'[Closer] = "closed"
    BY <2>1 DEF Inv, TypeOK, Callers
  <2> QED  BY <2>1, <2>2, CallerMoves
<1>2. ASSUME NEW c \in Callers, PutFlush(c)  PROVE Inv'
  BY <1>2, PutFlushKeeps
<1>3. CASE Writer
  BY <1>3, GetKeeps, SkipWriteKeeps, StartAppendKeeps, RotateKeeps, ReopenKeeps,
     AppendRecordKeeps, AppendFindsNoFileKeeps DEF Writer
<1>4. CASE UNCHANGED vars
  <2>1. UNCHANGED <<queue, accepted, dropped, promised, handle, writer, caller>>
    BY <1>4 DEF vars, writer
  <2>2. TypeOK' /\ Place' /\ InOrder'
    BY <2>1 DEF Inv, TypeOK, Place, InOrder, Usual, FileUsable, Taken, QueueHoldsAfter,
                IsRecord, writer
  <2>3. AtRisk'
    <3>1. (\A k : QueueHoldsAfter(k) => QueueHoldsAfter(k)') /\ Usual' = Usual
      BY <2>1 DEF QueueHoldsAfter, IsRecord, Usual, writer
    <3> QED  BY <2>1, <3>1, RiskKeeps DEF writer
  <2>4. Marked' /\ FlushedIsWritten'
    BY <2>1 DEF Inv, Marked, Unasked, IsRecord, FlushedIsWritten, writer
  <2> QED  BY <2>2, <2>3, <2>4 DEF Inv
<1> QED
  BY <1>1, <1>2, <1>3, <1>4, EmitKeeps, PutStopKeeps, CloseFileKeeps, WriteFailsKeeps DEF Next

LEMMA InvHolds == Spec => []Inv
BY InitInv, NextInv, PTL DEF Spec

\* The types of the exporter's state hold in every state (AsyncJsonlExporter).
THEOREM TypeCorrect == Spec => []TypeOK
<1>1. Inv => TypeOK
  BY DEF Inv
<1> QED  BY InvHolds, <1>1, PTL

\* A confirmed flush that close did not overtake is in the file, whatever the
\* sizes and however flushes, timeouts and errors of the disk fall together
\* (flush and _run).
THEOREM FlushedIsWrittenCorrect == Spec => []FlushedIsWritten
<1>1. Inv => FlushedIsWritten
  BY DEF Inv
<1> QED  BY InvHolds, <1>1, PTL

\* Once the writer has left its loop, the file is without a gap before the last
\* batch; unless close has taken the file, only records of that batch and those
\* still in the queue can be missing in it (_run and _write).
THEOREM OnlyLastBatchAtRiskCorrect == Spec => []OnlyLastBatchAtRisk
<1>1. Inv => OnlyLastBatchAtRisk
  <2> SUFFICES ASSUME Inv, ~ Usual PROVE OnlyLastBatchAtRisk
    BY DEF OnlyLastBatchAtRisk
  <2>1. PICK k \in 0 .. Len(written) : Explains(written, k)
    BY DEF Inv, AtRisk
  <2>2. /\ SubSeq(written, 1, k) \in Seq(1 .. accepted) /\ Len(SubSeq(written, 1, k)) = k
        /\ \A i \in 1 .. k : SubSeq(written, 1, k)[i] = written[i]
    <3>1. k \in Nat /\ \A i \in 1 .. k : written[i] \in 1 .. accepted
      BY <2>1, Facts
    <3> QED  BY <3>1, SubSeqProperties
  <2>3. SubSeq(written, 1, k) = UpTo(k)
    <3>1. SubSeq(written, 1, k) = [i \in 1 .. k |-> SubSeq(written, 1, k)[i]]
      BY <2>2, LenProperties
    <3> QED  BY <2>1, <2>2, <3>1 DEF UpTo, Explains
  <2> QED  BY <2>1, <2>3 DEF OnlyLastBatchAtRisk, Explains
<1> QED  BY InvHolds, <1>1, PTL

\* While the file is usable and the writer in its loop, file, batch and queue
\* add up to what was accepted, each record once and in order (_run, _write).
THEOREM StreamIntactCorrect == Spec => []StreamIntact
<1>1. Inv => StreamIntact
  <2> SUFFICES ASSUME Inv, Usual, FileUsable PROVE StreamIntact
    BY DEF StreamIntact
  <2> DEFINE taken == written \o InHand
             rest == Len(batch) - next + 1
  <2>1. /\ rest \in Nat /\ Taken = Len(written) + rest
        /\ next \in 1 .. Len(batch) + 1
    <3>1. at = "append" => next <= Len(batch)
      BY DEF Inv, Place
    <3>2. at # "append" => next = 1
      BY DEF Inv, Place
    <3> QED  BY <3>1, <3>2, Facts DEF Taken
  <2>2. /\ InHand \in Seq(1 .. accepted) /\ Len(InHand) = rest
        /\ \A i \in 1 .. rest : InHand[i] = batch[next + i - 1]
    <3>1. next \in Int /\ Len(batch) \in Int /\ \A i \in next .. Len(batch) : batch[i] \in 1 .. accepted
      BY Facts
    <3> QED  BY <2>1, <3>1, SubSeqProperties DEF InHand
  <2>3. written \in Seq(1 .. accepted)
    BY DEF Inv, TypeOK
  <2>4. /\ taken \in Seq(1 .. accepted) /\ Len(taken) = Taken
        /\ \A i \in 1 .. Taken : taken[i] = IF i <= Len(written) THEN written[i]
                                            ELSE InHand[i - Len(written)]
    <3>1. /\ taken \in Seq(1 .. accepted) /\ Len(taken) = Len(written) + Len(InHand)
          /\ \A i \in 1 .. Len(written) + Len(InHand) :
                taken[i] = IF i <= Len(written) THEN written[i] ELSE InHand[i - Len(written)]
      BY <2>2, <2>3, ConcatProperties
    <3> QED  BY <2>1, <2>2, <3>1
  <2>5. ASSUME NEW i \in 1 .. Taken  PROVE taken[i] = i
    <3>1. CASE i <= Len(written)
      BY <2>4, <3>1, Facts DEF Inv, InOrder
    <3>2. CASE i > Len(written)
      <4>1. i - Len(written) \in 1 .. rest /\ next + (i - Len(written)) - 1 \in next .. Len(batch)
        BY <2>1, <3>2, Facts
      <4>2. taken[i] = batch[next + (i - Len(written)) - 1]
        BY <2>2, <2>4, <3>2, <4>1, Facts
      <4>3. \A j \in next .. Len(batch) : batch[j] = Len(written) + j - next + 1
        <5>1. \A j \in next .. Len(batch) : j \in 1 .. Len(batch)
          BY Facts
        <5> QED  BY <5>1 DEF Inv, InOrder
      <4> QED  BY <4>1, <4>2, <4>3, Facts
    <3>3. Taken \in Nat /\ Len(written) \in Nat
      BY TakenNat, Facts
    <3>4. i \in Nat
      BY <3>3
    <3>5. i <= Len(written) \/ i > Len(written)
      BY <3>3, <3>4
    <3> QED  BY <3>1, <3>2, <3>5
  <2>6. taken = UpTo(Len(taken))
    <3>1. taken = [i \in 1 .. Len(taken) |-> taken[i]]
      BY <2>4, LenProperties
    <3> QED  BY <2>4, <2>5, <3>1 DEF UpTo
  <2>7. QueueHoldsAfter(Len(taken))
    BY <2>4 DEF Inv, InOrder
  <2> QED  BY <2>6, <2>7 DEF StreamIntact
<1> QED  BY InvHolds, <1>1, PTL
=============================================================================
