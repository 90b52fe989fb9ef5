---------------------------- MODULE TelemetryStore ----------------------------
(***************************************************************************)
(* The spans a process keeps in memory and the stream it exports           *)
(* (telemetry/store.py, InMemoryTelemetryStore): a ring of the last         *)
(* rollouts and spans, from which the oldest rollout is dropped whole; a     *)
(* span of a rollout that is not sampled is kept only if it tells of a       *)
(* failure.  A rollout opens each of its spans once, in the order of         *)
(* Opened, so the number a span gets when it is opened is its place there.    *)
(***************************************************************************)
EXTENDS RolloutIds, Naturals, FiniteSets, SequencesExt

CONSTANTS
  MaxRollouts,   \* rollouts the ring holds
  MaxSpans       \* spans the ring holds

ASSUME StoreAssumption == MaxRollouts \in Nat \ {0} /\ MaxSpans \in Nat \ {0}

VARIABLES
  mem,        \* the ring: spans of each rollout as they were closed, ids oldest
              \* first, counts of spans dropped and skipped
  exported,   \* the spans of each rollout given to the exporter
  sampled,    \* the rollouts the sampling rate keeps
  cut         \* rollouts that lost spans from memory before they had ended

storeVars == <<mem, exported, sampled, cut>>

Opened ==
  <<"rollout", "sandbox.provision", "inference.generate", "sandbox.finalize",
    "reward.compute", "rollout.outcome">>

EmptyMemory == [spans |-> [r \in Rollouts |-> <<>>], ids |-> <<>>, dropped |-> 0, skipped |-> 0]

StoreInit ==
  /\ mem = EmptyMemory
  /\ exported = [r \in Rollouts |-> <<>>]
  /\ sampled \in SUBSET Rollouts
  /\ cut = {}

Span(name, told) == [name |-> name, told |-> told]

\* Mutant: only the sampling decides.
KeepTraceSampled(r, s) == r \in sampled

\* A span is kept that carries an error or a failed or aborted status, else by
\* a hash of the rollout id.
KeepTrace(r, s) == s.told \/ r \in sampled

\* The spans of all rollouts: each is one place of one rollout.
SpanPlaces(spans) == UNION {{r} \X DOMAIN spans[r] : r \in Rollouts}

Held(m) == Cardinality(SpanPlaces(m.spans))

\* Mutant: the oldest rollout loses its first span only.
DropOldestRolloutHead(m) ==
  LET oldest == Head(m.ids)
  IN [m EXCEPT !.ids = IF Len(m.spans[oldest]) = 1 THEN Tail(@) ELSE @,
               !.spans[oldest] = Tail(@), !.dropped = @ + 1]

DropOldestRollout(m) ==
  LET oldest == Head(m.ids)
  IN [m EXCEPT !.ids = Tail(@), !.spans[oldest] = <<>>,
               !.dropped = @ + Len(m.spans[oldest])]

DropOneSpan(m) ==
  [m EXCEPT !.spans[m.ids[1]] = Tail(@), !.dropped = @ + 1]

\* One span more is one too many at most, and so is its rollout: once round
\* each loop is enough.
EvictSpans(m) ==
  LET few == IF Len(m.ids) > MaxRollouts THEN DropOldestRollout(m) ELSE m
  IN IF Held(few) <= MaxSpans THEN few
     ELSE IF Len(few.ids) > 1 THEN DropOldestRollout(few)
     ELSE DropOneSpan(few)

Appended(m, r, s) ==
  [m EXCEPT !.spans[r] = Append(@, s),
            !.ids = IF r \in ToSet(@) THEN @ ELSE Append(@, r)]

RecordSpan(m, r, s) ==
  IF KeepTrace(r, s) THEN EvictSpans(Appended(m, r, s))
  ELSE [m EXCEPT !.skipped = @ + 1]

\* What of a span is exported.
Kept(r, s) == IF KeepTrace(r, s) THEN <<s>> ELSE <<>>

\* The ring becomes new, and the spans of r that were kept are exported; running
\* have not ended.
Recorded(r, new, kept, running) ==
  /\ mem' = new
  /\ exported' = [exported EXCEPT ![r] = @ \o kept]
  /\ cut' = cut \cup
       {q \in running :
          Len(new.spans[q]) < Len(mem.spans[q]) + IF q = r THEN Len(kept) ELSE 0}
  /\ UNCHANGED sampled

\* Rollout r closes a span, or one and then another.
Record(r, s, running) == Recorded(r, RecordSpan(mem, r, s), Kept(r, s), running)

RecordBoth(r, s, t, running) ==
  Recorded(r, RecordSpan(RecordSpan(mem, r, s), r, t), Kept(r, s) \o Kept(r, t), running)

\* What a reader gets of a rollout: its spans in the order they were opened.
SpansForRollout(r) ==
  LET Has(name) == \E i \in DOMAIN mem.spans[r] : mem.spans[r][i].name = name
      read[n \in 0 .. Len(Opened)] ==
        IF n = 0 THEN <<>>
        ELSE IF Has(Opened[n]) THEN Append(read[n - 1], Opened[n]) ELSE read[n - 1]
  IN read[Len(Opened)]

----------------------------------------------------------------------------
\* A rollout in memory can be read back as it was exported, from its first span
\* on, unless it lost spans while it ran: rollouts leave memory whole, and what
\* they take with them is counted (store.py:189-218, 334-351).
TimelineIsWhole ==
  /\ \A r \in ToSet(mem.ids) \ cut :
       /\ ToSet(mem.spans[r]) = ToSet(exported[r])
       /\ Len(SpansForRollout(r)) = Len(exported[r])
  /\ Held(mem) + mem.dropped = Cardinality(SpanPlaces(exported))
=============================================================================
