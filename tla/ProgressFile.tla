---------------------------- MODULE ProgressFile ----------------------------
(***************************************************************************)
(* runs/<run>.progress.json and the threads and processes that write it    *)
(* (telemetry/progress.py).  A write fills a temporary file and renames it, *)
(* but every writer uses the same temporary name, so a writer may truncate  *)
(* the file another one is filling or about to rename, may go on writing to *)
(* it after the rename, and may find nothing left to rename.                *)
(***************************************************************************)
EXTENDS Naturals, FiniteSets

CONSTANTS
  Writers,     \* who calls write_progress on this run
  MaxFaults    \* bound: faults, here a file that cannot be written (a full disk)

ASSUME ProgressAssumption == IsFiniteSet(Writers) /\ MaxFaults \in Nat

\* One file per writer under way, one under each of the two names.
Inodes == 1 .. Cardinality(Writers) + 2
NoFile == 0

Doc(phase, status, rc) == [phase |-> phase, status |-> status, rc |-> rc]

Empty == Doc("empty", "", 0)   \* opened for writing, nothing in it yet
Torn  == Doc("torn", "", 0)    \* a short document over the end of a longer one

VARIABLES
  disk,     \* what each file holds
  path,     \* the file named <run>.progress.json
  tmp,      \* the file named <run>.progress.json.tmp
  call,     \* each writer's call of write_progress
  faults    \* the faults there were, by kind

FaultKinds == {"io", "stop", "break", "network"}

fileVars == <<disk, path, tmp, call>>

Idle == [at |-> "idle", doc |-> Empty, file |-> NoFile]

FileInit ==
  /\ disk = [i \in Inodes |-> Empty]
  /\ path = NoFile /\ tmp = NoFile
  /\ call = [w \in Writers |-> Idle]
  /\ faults = [k \in FaultKinds |-> 0]

\* The bound counts all kinds together.
Fault(kind) ==
  /\ MaxFaults > faults["io"] + faults["stop"] + faults["break"] + faults["network"]
  /\ faults' = [faults EXCEPT ![kind] = @ + 1]

\* read_progress: no document is as good as no file.
Readable(doc) == doc.phase \notin {"empty", "torn"}
Shown == IF path = NoFile THEN Empty ELSE disk[path]

Returned(w) == call[w].at = "idle"
Raised(w) == call[w].at = "raised"

Forgets(w) == call' = [call EXCEPT ![w] = Idle]

InUse == {path, tmp} \cup {call[w].file : w \in Writers}

\* The file a writer opens: the one of the temporary name, or a new one.
Opened ==
  IF tmp # NoFile THEN tmp
  ELSE CHOOSE i \in Inodes \ InUse : \A k \in Inodes \ InUse : i <= k

\* A caller enters write_progress, which opens the temporary file and with
\* that empties it.
Calls(w, doc) ==
  /\ disk' = [disk EXCEPT ![Opened] = Empty]
  /\ tmp' = Opened
  /\ call' = [call EXCEPT ![w] = [at |-> "write", doc |-> doc, file |-> Opened]]
  /\ UNCHANGED path

\* tmp.write_text writes from the start: over what another writer has put there, the
\* shorter of the two documents leaves the end of the longer one.
WriteTmp(w) ==
  LET i == call[w].file IN
  /\ call[w].at = "write"
  /\ \E d \in {call[w].doc} \cup (IF disk[i] = Empty THEN {} ELSE {Torn}) :
       disk' = [disk EXCEPT ![i] = d]
  /\ call' = [call EXCEPT ![w].at = "replace", ![w].file = NoFile]
  /\ UNCHANGED <<path, tmp, faults>>

\* A file without a name is gone, but for the writer that still has it open.
Unlinked(i) ==
  IF i = NoFile \/ \E w \in Writers : call[w].file = i THEN disk
  ELSE [disk EXCEPT ![i] = Empty]

\* tmp.replace(path): FileNotFoundError when another writer renamed it first.
Replace(w) ==
  /\ call[w].at = "replace"
  /\ IF tmp = NoFile
     THEN /\ call' = [call EXCEPT ![w].at = "raised"]
          /\ UNCHANGED <<disk, path, tmp>>
     ELSE /\ path' = tmp /\ tmp' = NoFile
          /\ disk' = Unlinked(path)
          /\ Forgets(w)
  /\ UNCHANGED faults

IOFails(w) ==
  /\ call[w].at = "write"
  /\ Fault("io")
  /\ call' = [call EXCEPT ![w].at = "raised", ![w].file = NoFile]
  /\ UNCHANGED <<disk, path, tmp>>

WriterStep(w) == WriteTmp(w) \/ Replace(w) \/ IOFails(w)
=============================================================================
