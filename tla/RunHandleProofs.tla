-------------------------- MODULE RunHandleProofs ---------------------------
(***************************************************************************)
(* What is recorded of a launch and what others make of it: EndIsHonest,   *)
(* EndIsRecorded, VerdictIsHonest and ViewsAgree of RunHandle, for any     *)
(* number of faults, hints and heartbeats, any exit code of the job, and   *)
(* joins that may time out.                                                *)
(***************************************************************************)
EXTENDS RunHandle, FiniteSetTheorems, TLAPS

\* Every document that any file, call or copy may hold.
Docs ==
  {Empty, Torn, Doc("active", "running", 0), Doc("active", "", 0),
   Doc("completed", "completed", 0), FailDoc, Doc("failed", "failed", 130)}
    \cup {Doc("failed", "failed", c) : c \in ExitCodes \ {0}}

Files == Inodes \cup {NoFile}
Calling == {"noting", "publishing", "ending", "failing"}
Places == {"note", "work", "wait", "join", "publish", "interrupted", "end", "endfile", "fail",
           "failfile", "drain", "over"} \cup Calling
ThreadStates == {"none", "reading", "beating", "publishing", "ended", "dead"}

FileTyping ==
  /\ disk \in [Inodes -> Docs]
  /\ path \in Files /\ tmp \in Files /\ (tmp # NoFile => tmp # path)
  /\ call \in [Writers -> [at : {"idle", "write", "replace", "raised"}, doc : Docs, file : Files]]
  /\ \A w \in Writers : IF call[w].at = "write" THEN call[w].file \in Inodes
                        ELSE call[w].file = NoFile
  /\ faults \in [FaultKinds -> Nat]

LaunchTyping ==
  /\ mode \in {"supervised", "attached"}
  /\ main \in [at : Places, stage : Nat, broken : BOOLEAN, late : BOOLEAN] /\ main.stage \in DOMAIN Stages
  /\ job \in {"none", "running", "blocked", "exited"}
  /\ code \in {0} \cup ExitCodes
  /\ statusFile \in {"none", "run id", "done", "error"}
  /\ host.doc \in Docs /\ host = [doc |-> host.doc, seen |-> host.seen]

\* Who is not in write_progress.
Callers ==
  /\ call["main"].at # "idle" => main.at \in Calling
  /\ reader # "publishing" => call["reader"].at = "idle"
  /\ heartbeat # "publishing" => call["heartbeat"].at = "idle"
  /\ faults["stop"] = 0 => call["stop"].at = "idle"
  /\ ~ alive => \A w \in Writers \ {"stop"} : call[w].at = "idle"

\* Where a failure is on its way or told, and where some end is.
OverPlaces == {"failing", "failfile", "drain", "over"}
Closing == OverPlaces \cup {"ending", "endfile", "fail"}

\* The joins have not given up on a thread.
OnTime == ~ main.late

\* The job has failed, by itself.
JobFailed == JobExited /\ code # 0

\* What the main thread's place says of the job and of the other two threads.
Course ==
  /\ main.at \in {"note", "noting", "work"} => job = "none" /\ reader = "none" /\ heartbeat = "none"
  /\ main.at \in {"join", "publish", "publishing"} /\ ~ main.broken => JobExited
  /\ main.at \in {"end", "ending", "endfile"} => JobExited /\ ~ main.broken
  /\ main.at = "interrupted" => main.broken
  /\ main.broken => faults["break"] > 0
  /\ main.late => main.at \notin {"note", "noting", "work", "wait", "join"}
  /\ OnTime /\ main.at \notin {"note", "noting", "work", "wait", "join"}
       => {reader, heartbeat} \subseteq {"none", "ended", "dead"}

Honest(doc) ==
  /\ "completed" \in {doc.phase, doc.status} => Succeeded
  /\ doc.rc # 0 => \/ JobExited /\ doc.rc = code /\ main.at \in Closing
                   \/ doc.rc = 2 /\ main.at \in OverPlaces
                   \/ doc.rc = 130 /\ faults["stop"] > 0

AllHonest ==
  /\ \A i \in Inodes : Honest(disk[i])
  /\ \A w \in Writers : Honest(call[w].doc)
  /\ Honest(host.doc)

\* Neither a full disk nor another process comes between the launch and its file.
Undisturbed == OnTime /\ faults["io"] = 0 /\ faults["stop"] = 0

\* The temporary file is somebody's.
Owned ==
  tmp # NoFile => \E w \in Writers : \/ call[w].at = "replace"
                                     \/ call[w].at = "write" /\ call[w].file = tmp

Concludes == main.at \in {"ending", "failing"}
Conclusion == IF main.at = "ending" THEN EndDoc ELSE FailDoc

\* The main thread's write, with nobody beside it: the temporary file is its
\* own, from the opening to the renaming.
WritesAlone ==
  main.at \in Calling =>
    /\ call["main"].at = "write" => /\ tmp # NoFile /\ call["main"].file = tmp /\ disk[tmp] = Empty
    /\ call["main"].at = "replace" => tmp # NoFile /\ disk[tmp] = call["main"].doc
    /\ call["main"].at # "raised"
    /\ Concludes => (IF call["main"].at = "idle" THEN Shown ELSE call["main"].doc) = Conclusion

EndShown == Shown = FailDoc \/ (JobExited /\ Shown = EndDoc)

Recording ==
  Undisturbed =>
    /\ alive => Owned /\ WritesAlone
    /\ main.at \in {"endfile", "failfile", "drain", "over"} /\ ~ (Supervised /\ main.broken)
         => EndShown

\* What the signs of life and the shipper say of the run.
Signs ==
  /\ host.seen = "fresh" => shipping \/ RunOver
  /\ host.seen = "silent" => RunOver \/ faults["network"] > 0
  /\ RunOver => ~ shipping
  /\ alive \/ main.at = "over" \/ faults["break"] > 0
  /\ Supervised /\ main.stage = 1 => ~ shipping
  /\ statusFile \in {"done", "error"} => main.at \in {"drain", "over"}
  /\ statusFile = "done" => JobExited

NoFaults == \A kind \in FaultKinds : faults[kind] = 0

Verdicts ==
  /\ NoFaults /\ OnTime /\ host.doc = FailDoc => Shown = FailDoc
  /\ VerdictIsHonest

Inv ==
  /\ FileTyping /\ LaunchTyping /\ Callers /\ Course /\ AllHonest /\ Recording /\ Signs /\ Verdicts
-----------------------------------------------------------------------------
(* The views *)

\* What the documents are, field by field.
LEMMA DocFields ==
  ASSUME NEW doc \in Docs
  PROVE  /\ \/ doc.phase \in {"empty", "torn"} /\ doc.status = "" /\ doc.rc = 0
            \/ doc.phase = "active" /\ doc.status \in {"", "running"} /\ doc.rc = 0
            \/ doc.phase = "completed" /\ doc.status = "completed" /\ doc.rc = 0
            \/ doc.phase = "failed" /\ doc.status = "failed" /\ doc.rc # 0
         /\ doc.rc = 2 => doc = FailDoc
<1>1. \/ doc = Doc("empty", "", 0) \/ doc = Doc("torn", "", 0)
      \/ doc = Doc("active", "running", 0) \/ doc = Doc("active", "", 0)
      \/ doc = Doc("completed", "completed", 0)
      \/ \E c : c # 0 /\ doc = Doc("failed", "failed", c)
  <2>1. \/ doc \in {Empty, Torn, Doc("active", "running", 0), Doc("active", "", 0),
                    Doc("completed", "completed", 0), FailDoc, Doc("failed", "failed", 130)}
        \/ \E c \in ExitCodes \ {0} : doc = Doc("failed", "failed", c)
    BY Zenon DEF Docs
  <2>2. 130 # 0 /\ 2 # 0
    OBVIOUS
  <2> QED  BY <2>1, <2>2, Zenon DEF Empty, Torn, FailDoc
<1>2. CASE doc = Doc("empty", "", 0)
  <2>1. doc.phase = "empty" /\ doc.status = "" /\ doc.rc = 0
    BY <1>2 DEF Doc
  <2>2. doc.rc = 0
    BY <2>1, Zenon
  <2>3. doc.rc # 2
    BY <2>2
  <2> QED  BY <2>1, <2>3, Zenon
<1>3. CASE doc = Doc("torn", "", 0)
  <2>1. doc.phase = "torn" /\ doc.status = "" /\ doc.rc = 0
    BY <1>3 DEF Doc
  <2>2. doc.rc = 0
    BY <2>1, Zenon
  <2>3. doc.rc # 2
    BY <2>2
  <2> QED  BY <2>1, <2>3, Zenon
<1>4. CASE doc = Doc("active", "running", 0)
  <2>1. doc.phase = "active" /\ doc.status = "running" /\ doc.rc = 0
    BY <1>4 DEF Doc
  <2>2. doc.rc = 0
    BY <2>1, Zenon
  <2>3. doc.rc # 2
    BY <2>2
  <2> QED  BY <2>1, <2>3, Zenon
<1>5. CASE doc = Doc("active", "", 0)
  <2>1. doc.phase = "active" /\ doc.status = "" /\ doc.rc = 0
    BY <1>5 DEF Doc
  <2>2. doc.rc = 0
    BY <2>1, Zenon
  <2>3. doc.rc # 2
    BY <2>2
  <2> QED  BY <2>1, <2>3, Zenon
<1>6. CASE doc = Doc("completed", "completed", 0)
  <2>1. doc.phase = "completed" /\ doc.status = "completed" /\ doc.rc = 0
    BY <1>6 DEF Doc
  <2>2. doc.rc = 0
    BY <2>1, Zenon
  <2>3. doc.rc # 2
    BY <2>2
  <2> QED  BY <2>1, <2>3, Zenon
<1>7. ASSUME NEW c, c # 0, doc = Doc("failed", "failed", c)
      PROVE  /\ doc.phase = "failed" /\ doc.status = "failed" /\ doc.rc # 0
             /\ doc.rc = 2 => doc = FailDoc
  <2>1. doc.phase = "failed" /\ doc.status = "failed" /\ doc.rc = c
    BY <1>7 DEF Doc
  <2>2. c = 2 => doc = FailDoc
    BY <1>7 DEF FailDoc
  <2> QED  BY <1>7, <2>1, <2>2
<1> QED  BY <1>1, <1>2, <1>3, <1>4, <1>5, <1>6, <1>7

\* The list and the page agree on every document there is.
LEMMA DocsAgree ==
  ASSUME NEW doc \in Docs, NEW ready \in BOOLEAN, NEW idle \in BOOLEAN,
         NEW seen \in {"never", "fresh", "silent"}
  PROVE  LET page == Snapshot(doc, ready, idle, seen)
             list == ListStatus(doc, ready, idle, seen)
         IN  /\ list \in Terminal <=> page.done
             /\ list \in Terminal => page.status = list
             /\ page.failed <=> list \in {"failed", "worker_lost"}
<1> DEFINE page == Snapshot(doc, ready, idle, seen)
           list == ListStatus(doc, ready, idle, seen)
           status == Recorded(doc, IF ready /\ ~ Readable(doc) THEN Inferred(TRUE, idle)
                                   ELSE "running")
           recorded == Liveness(Recorded(doc, IF Readable(doc) THEN "running" ELSE "pending"), seen)
<1>1. page.status = Liveness(status, seen)
  BY DEF Snapshot
<1>2. page.done <=> (Liveness(status, seen) \in Terminal \/ doc.phase \in {"completed", "failed"})
  BY DEF Snapshot
<1>3. page.failed <=> ("failed" \in {doc.phase, doc.status}
                        \/ (Liveness(status, seen) = "worker_lost" /\ Liveness(status, seen) # status))
  BY DEF Snapshot
<1>4. list = Liveness(IF recorded \in {"completed", "failed"} THEN recorded
                      ELSE IF ~ Readable(doc) THEN Inferred(ready, idle)
                      ELSE IF ready THEN "running" ELSE recorded, seen)
  BY DEF ListStatus
<1>5. \/ doc.phase \in {"empty", "torn"} /\ doc.status = ""
      \/ doc.phase = "active" /\ doc.status \in {"", "running"}
      \/ doc.phase = "completed" /\ doc.status = "completed"
      \/ doc.phase = "failed" /\ doc.status = "failed"
  BY DocFields
<1>6. CASE doc.phase \in {"completed", "failed"}
  <2>1. status = doc.phase /\ Readable(doc) /\ list = doc.phase /\ Liveness(status, seen) = doc.phase
    BY <1>4, <1>5, <1>6 DEF Recorded, Readable, Liveness, Terminal
  <2> QED  BY <1>1, <1>2, <1>3, <1>5, <1>6, <2>1 DEF Terminal
<1>7. CASE doc.phase = "active"
  <2>1. status = "running" /\ Readable(doc)
        /\ recorded = (IF seen = "silent" THEN "worker_lost" ELSE "running")
    BY <1>5, <1>7 DEF Recorded, Readable, Liveness, Terminal
  <2>2. list = IF seen = "silent" THEN "worker_lost" ELSE "running"
    BY <1>4, <2>1 DEF Liveness, Terminal
  <2>3. Liveness(status, seen) = list
    BY <2>1, <2>2 DEF Liveness, Terminal
  <2> QED  BY <1>1, <1>2, <1>3, <1>5, <1>7, <2>1, <2>2, <2>3 DEF Terminal
<1>8. CASE doc.phase \in {"empty", "torn"}
  <2>1. ~ Readable(doc) /\ doc.status = ""
    BY <1>5, <1>8 DEF Readable
  <2>2. recorded = (IF seen = "silent" THEN "worker_lost" ELSE "pending")
    BY <1>8, <2>1 DEF Recorded, Liveness, Terminal
  <2>3. list = IF seen = "silent" THEN "worker_lost" ELSE Inferred(ready, idle)
    BY <1>4, <2>1, <2>2 DEF Liveness, Terminal, Inferred
  <2>4. status = IF ready THEN Inferred(TRUE, idle) ELSE "running"
    BY <1>8, <2>1 DEF Recorded
  <2>5. Liveness(status, seen) = IF seen = "silent" THEN "worker_lost" ELSE status
    BY <2>4 DEF Liveness, Terminal, Inferred
  <2> QED  BY <1>1, <1>2, <1>3, <1>8, <2>1, <2>3, <2>4, <2>5 DEF Terminal, Inferred
<1> QED  BY <1>5, <1>6, <1>7, <1>8

-----------------------------------------------------------------------------
(* The files *)

LEMMA SixFiles == Inodes = 1 .. 6 /\ Writers = {"main", "reader", "heartbeat", "stop"}
<1>1. Writers = {"main", "reader", "heartbeat", "stop"}
  BY LaunchAssumption
<1>2. IsFiniteSet({}) /\ Cardinality({}) = 0
  BY FS_EmptySet
<1>3. IsFiniteSet({"main"}) /\ Cardinality({"main"}) = 1
  BY FS_Singleton
<1>4. IsFiniteSet({"main", "reader"}) /\ Cardinality({"main", "reader"}) = 2
  <2>1. {"main", "reader"} = {"main"} \cup {"reader"} /\ "reader" \notin {"main"}
    OBVIOUS
  <2> QED  BY <1>3, <2>1, FS_AddElement
<1>5. IsFiniteSet({"main", "reader", "heartbeat"}) /\ Cardinality({"main", "reader", "heartbeat"}) = 3
  <2>1. {"main", "reader", "heartbeat"} = {"main", "reader"} \cup {"heartbeat"}
        /\ "heartbeat" \notin {"main", "reader"}
    OBVIOUS
  <2> QED  BY <1>4, <2>1, FS_AddElement
<1>6. Cardinality({"main", "reader", "heartbeat", "stop"}) = 4
  <2>1. {"main", "reader", "heartbeat", "stop"} = {"main", "reader", "heartbeat"} \cup {"stop"}
        /\ "stop" \notin {"main", "reader", "heartbeat"}
    OBVIOUS
  <2> QED  BY <1>5, <2>1, FS_AddElement
<1> QED  BY <1>1, <1>6 DEF Inodes

\* The file that a writer opens is one of those there are, and not the one
\* that readers see.
LEMMA OpensAFile ==
  ASSUME FileTyping, NEW w \in Writers, call[w].at = "idle"
  PROVE  Opened \in Inodes /\ Opened # path
<1>1. CASE tmp # NoFile
  BY <1>1 DEF Opened, FileTyping, Files
<1>2. CASE tmp = NoFile
  <2> DEFINE free == Inodes \ InUse
  <2>1. free # {}
    <3>1. call[w].file = NoFile
      BY DEF FileTyping
    <3>2. InUse \subseteq {path, NoFile, call["main"].file, call["reader"].file,
                           call["heartbeat"].file, call["stop"].file}
      BY <1>2, SixFiles DEF InUse
    <3>3. PICK a, b, c, d : InUse \subseteq {NoFile, a, b, c, d}
      <4>1. CASE w = "main"
        <5>1. InUse \subseteq {NoFile, path, call["reader"].file, call["heartbeat"].file, call["stop"].file}
          BY <3>1, <3>2, <4>1
        <5> QED  BY <5>1
      <4>2. CASE w = "reader"
        <5>1. InUse \subseteq {NoFile, path, call["main"].file, call["heartbeat"].file, call["stop"].file}
          BY <3>1, <3>2, <4>2
        <5> QED  BY <5>1
      <4>3. CASE w = "heartbeat"
        <5>1. InUse \subseteq {NoFile, path, call["main"].file, call["reader"].file, call["stop"].file}
          BY <3>1, <3>2, <4>3
        <5> QED  BY <5>1
      <4>4. CASE w = "stop"
        <5>1. InUse \subseteq {NoFile, path, call["main"].file, call["reader"].file, call["heartbeat"].file}
          BY <3>1, <3>2, <4>4
        <5> QED  BY <5>1
      <4> QED  BY <4>1, <4>2, <4>3, <4>4, SixFiles
    <3>4. \E i \in 1 .. 6 : i \notin {0, a, b, c, d}
      OBVIOUS
    <3> QED  BY <3>3, <3>4, SixFiles DEF NoFile
  <2>2. \E i \in free : \A k \in free : i <= k
    <3>1. free \subseteq 1 .. 6
      BY SixFiles
    <3> HIDE DEF free
    <3>2. CASE 1 \in free
      BY <3>1, <3>2
    <3>3. CASE 1 \notin free /\ 2 \in free
      BY <3>1, <3>3
    <3>4. CASE 1 \notin free /\ 2 \notin free /\ 3 \in free
      BY <3>1, <3>4
    <3>5. CASE 1 \notin free /\ 2 \notin free /\ 3 \notin free /\ 4 \in free
      BY <3>1, <3>5
    <3>6. CASE 1 \notin free /\ 2 \notin free /\ 3 \notin free /\ 4 \notin free /\ 5 \in free
      BY <3>1, <3>6
    <3>7. CASE 1 \notin free /\ 2 \notin free /\ 3 \notin free /\ 4 \notin free /\ 5 \notin free
      <4>1. \A k \in free : k = 6
        BY <3>1, <3>7
      <4> QED  BY <2>1, <4>1
    <3> QED  BY <3>2, <3>3, <3>4, <3>5, <3>6, <3>7
  <2>3. Opened \in free
    BY <1>2, <2>2 DEF Opened
  <2> QED  BY <2>3 DEF InUse
<1> QED  BY <1>1, <1>2

\* What opening the temporary file does: readers see what they saw.
LEMMA CallsDoes ==
  ASSUME FileTyping, NEW w \in Writers, call[w].at = "idle", NEW doc \in Docs, Calls(w, doc),
         faults' \in [FaultKinds -> Nat]
  PROVE  /\ FileTyping' /\ Shown' = Shown /\ tmp' # NoFile /\ disk'[tmp'] = Empty
         /\ \A i \in Inodes : disk'[i] \in {disk[i], Empty}
         /\ \A v \in Writers : v # w => call'[v] = call[v]
         /\ call'[w] = [at |-> "write", doc |-> doc, file |-> tmp']
<1>1. Opened \in Inodes /\ Opened # path
  BY OpensAFile
<1>2. /\ disk' = [disk EXCEPT ![Opened] = Empty] /\ tmp' = Opened /\ path' = path
      /\ call' = [call EXCEPT ![w] = [at |-> "write", doc |-> doc, file |-> Opened]]
  BY DEF Calls
<1>3. Empty \in Docs /\ NoFile \notin Inodes
  <2>1. Empty \in Docs
    BY DEF Docs
  <2> QED  BY <2>1, SixFiles DEF NoFile
<1>4. FileTyping'
  BY <1>1, <1>2, <1>3 DEF FileTyping, Files
<1>5. Shown' = Shown
  BY <1>1, <1>2 DEF Shown, FileTyping, Files
<1> QED  BY <1>1, <1>2, <1>3, <1>4, <1>5 DEF FileTyping
-----------------------------------------------------------------------------
(* What a step has to show *)

EndPlaces == {"endfile", "failfile", "drain", "over"}
Entitled == main.at \in EndPlaces /\ ~ (Supervised /\ main.broken)

\* An ended job stays ended, and what the run has come to stays so.
GoesOn ==
  /\ mode' = mode
  /\ JobExited => job' = job /\ code' = code
  /\ main.at \in OverPlaces => main'.at \in OverPlaces
  /\ main.at \in Closing => main'.at \in Closing
  /\ OnTime' => OnTime
  /\ RunOver => RunOver' /\ host'.doc = host.doc
  /\ faults' \in [FaultKinds -> Nat]
  /\ \A kind \in FaultKinds : faults'[kind] >= faults[kind]

LEMMA SomeFault ==
  ASSUME NEW f \in [FaultKinds -> Nat]
  PROVE  (\E kind \in FaultKinds : f[kind] > 0) <=> ~ \A kind \in FaultKinds : f[kind] = 0
OBVIOUS

LEMMA NoFaultsBack == GoesOn /\ FileTyping => (NoFaults' => NoFaults) /\ (Undisturbed' => Undisturbed)
<1> SUFFICES ASSUME GoesOn, FileTyping
             PROVE  (NoFaults' => NoFaults) /\ (Undisturbed' => Undisturbed)
  OBVIOUS
<1>1. \A kind \in FaultKinds : faults'[kind] = 0 => faults[kind] = 0
  BY DEF GoesOn, FileTyping
<1>2. "io" \in FaultKinds /\ "stop" \in FaultKinds
  BY DEF FaultKinds
<1>3. OnTime' => OnTime
  BY DEF GoesOn
<1> QED  BY <1>1, <1>2, <1>3 DEF NoFaults, Undisturbed

\* What was honest stays so.
LEMMA StaysHonest ==
  ASSUME NEW doc, Honest(doc), GoesOn, FileTyping, LaunchTyping  PROVE Honest(doc)'
<1>1. (Succeeded => Succeeded') /\ (JobExited => JobExited' /\ code' = code)
  BY DEF GoesOn, JobExited, Succeeded
<1>2. faults["stop"] > 0 => faults'["stop"] > 0
  <2>1. "stop" \in FaultKinds
    BY DEF FaultKinds
  <2> QED  BY <2>1 DEF GoesOn, FileTyping
<1>3. /\ main.at \in OverPlaces => main'.at \in OverPlaces
      /\ main.at \in Closing => main'.at \in Closing
  BY DEF GoesOn
<1>4. doc.rc # 0 => \/ JobExited /\ doc.rc = code /\ main.at \in Closing
                    \/ doc.rc = 2 /\ main.at \in OverPlaces
                    \/ doc.rc = 130 /\ faults["stop"] > 0
  BY DEF Honest
<1>5. "completed" \in {doc.phase, doc.status} => Succeeded'
  BY <1>1 DEF Honest
<1> HIDE DEF OverPlaces, Closing, Succeeded, JobExited
<1>6. doc.rc # 0 => \/ JobExited' /\ doc.rc = code' /\ main'.at \in Closing
                    \/ doc.rc = 2 /\ main'.at \in OverPlaces
                    \/ doc.rc = 130 /\ faults'["stop"] > 0
  BY <1>1, <1>2, <1>3, <1>4
<1> QED  BY <1>5, <1>6 DEF Honest, Closing, OverPlaces

LEMMA EmptyIsHonest == Honest(Empty)
BY DEF Honest, Empty, Doc

LEMMA ShownHonest == AllHonest /\ FileTyping => Honest(Shown) /\ Shown \in Docs
<1> SUFFICES ASSUME AllHonest, FileTyping PROVE Honest(Shown) /\ Shown \in Docs
  OBVIOUS
<1>1. CASE path = NoFile
  BY <1>1, EmptyIsHonest DEF Shown, Docs
<1>2. CASE path # NoFile
  BY <1>2 DEF Shown, AllHonest, FileTyping, Files
<1> QED  BY <1>1, <1>2

\* The verdict stays what it is as long as readers see the failure they saw.
LEMMA VerdictsStay ==
  ASSUME Inv, GoesOn, verdict' = verdict, host'.doc \in {host.doc, Shown},
         NoFaults' /\ OnTime' /\ Shown = FailDoc => Shown' = FailDoc,
         NoFaults' /\ OnTime' /\ RunOver => Shown' = Shown,
         host'.doc = Shown => Shown' = Shown \/ host'.doc = host.doc
  PROVE  Verdicts'
<1>1. (NoFaults' => NoFaults) /\ (OnTime' => OnTime)
  BY NoFaultsBack DEF Inv, GoesOn
<1>2. (Succeeded => Succeeded') /\ (JobFailed => JobFailed')
  BY DEF GoesOn, JobExited, Succeeded, JobFailed
<1>3. verdict' = "completed" => Succeeded'
  BY <1>2 DEF Inv, Verdicts, VerdictIsHonest
<1>4. NoFaults' /\ OnTime' /\ host'.doc = FailDoc => Shown' = FailDoc
  BY <1>1 DEF Inv, Verdicts
<1>5. ASSUME verdict' = "failed", NoFaults', ~ JobFailed'
      PROVE  \/ main'.at \in OverPlaces /\ (main'.late \/ FailDoc' \in {Shown', host'.doc})
             \/ RunOver' /\ host'.doc # Shown'
  <2>1. NoFaults /\ ~ JobFailed
    BY <1>1, <1>2, <1>5
  <2>2. \/ main.at \in OverPlaces /\ (main.late \/ FailDoc \in {Shown, host.doc})
        \/ RunOver /\ host.doc # Shown
    <3>1. ~ \E kind \in FaultKinds : faults[kind] > 0
      BY <2>1, SomeFault DEF NoFaults, Inv, FileTyping
    <3> QED  BY <1>5, <2>1, <3>1 DEF Inv, Verdicts, VerdictIsHonest, OverPlaces, JobFailed
  <2>3. CASE main.at \in OverPlaces /\ main'.late
    BY <2>3 DEF GoesOn
  <2>4. CASE main.at \in OverPlaces /\ ~ main'.late
    <3>1. OnTime' /\ OnTime
      BY <1>1, <2>4 DEF OnTime
    <3>2. CASE FailDoc \in {Shown, host.doc}
      <4>1. Shown = FailDoc
        BY <2>1, <3>1, <3>2 DEF Inv, Verdicts
      <4> QED  BY <1>5, <2>4, <3>1, <4>1 DEF GoesOn, FailDoc
    <3>3. CASE RunOver /\ host.doc # Shown
      BY <1>5, <3>1, <3>3 DEF GoesOn
    <3> QED  BY <2>2, <3>1, <3>2, <3>3 DEF OnTime
  <2>5. CASE main.at \notin OverPlaces
    <3>1. ~ RunOver
      <4>1. faults["break"] = 0
        BY <2>1 DEF NoFaults, FaultKinds
      <4> QED  BY <2>5, <4>1 DEF Inv, Signs, RunOver, OverPlaces
    <3> QED  BY <2>2, <2>5, <3>1
  <2> QED  BY <2>3, <2>4, <2>5
<1>6. VerdictIsHonest'
  <2>1. ~ NoFaults' => \E kind \in FaultKinds : faults'[kind] > 0
    BY SomeFault DEF NoFaults, GoesOn
  <2> QED  BY <1>3, <1>5, <2>1 DEF VerdictIsHonest, OverPlaces, JobFailed
<1> QED  BY <1>4, <1>6 DEF Verdicts

\* A step that leaves the files alone: at most a thread comes back from its
\* call, or the ingest host receives what readers see.
LEMMA MoveKeeps ==
  ASSUME Inv, GoesOn, UNCHANGED <<disk, path, tmp, verdict>>, host'.doc \in {host.doc, Shown},
         NEW w \in {"reader", "heartbeat"},
         call' = call \/ (call[w].at \in {"idle", "raised"} /\ Forgets(w)),
         LaunchTyping', Callers', Course', Signs',
         alive' => alive,
         main'.at \in Calling => main'.at = main.at,
         Entitled' => Entitled
  PROVE  Inv'
<1>1. Shown' = Shown /\ faults' \in [FaultKinds -> Nat]
  BY DEF Shown, GoesOn
<1>2. w \in Writers /\ "main" \in Writers /\ w # "main"
  BY SixFiles
<1>3. /\ \A v \in Writers : call'[v] = call[v] \/ (v = w /\ call'[v] = Idle)
      /\ call[w].at \in {"idle", "raised"} \/ call' = call
      /\ FileTyping'
  <2>1. CASE call' = call
    BY <1>1, <2>1 DEF Inv, FileTyping
  <2>2. CASE call[w].at \in {"idle", "raised"} /\ Forgets(w)
    <3>1. Idle \in [at : {"idle", "write", "replace", "raised"}, doc : Docs, file : Files]
          /\ Idle.at = "idle" /\ Idle.file = NoFile
      BY DEF Idle, Docs, Files
    <3>2. call' = [call EXCEPT ![w] = Idle]
      BY <2>2 DEF Forgets
    <3> HIDE DEF Idle
    <3> QED  BY <1>1, <1>2, <2>2, <3>1, <3>2 DEF Inv, FileTyping
  <2> QED  BY <2>1, <2>2
<1>4. AllHonest'
  <2>1. Honest(Shown) /\ Honest(Empty)
    BY ShownHonest, EmptyIsHonest DEF Inv
  <2>2. \A doc : Honest(doc) => Honest(doc)'
    BY StaysHonest DEF Inv
  <2>3. \A i \in Inodes : Honest(disk[i])'
    BY <2>2 DEF Inv, AllHonest
  <2>4. \A v \in Writers : Honest(call[v].doc)'
    BY <1>3, <2>1, <2>2 DEF Inv, AllHonest, Idle
  <2>5. Honest(host.doc)'
    BY <2>1, <2>2 DEF Inv, AllHonest
  <2> QED  BY <2>3, <2>4, <2>5 DEF AllHonest
<1>5. Recording'
  <2> SUFFICES ASSUME Undisturbed' PROVE Recording'
    BY DEF Recording
  <2>1. Undisturbed
    BY NoFaultsBack DEF Inv
  <2>2. ASSUME alive'  PROVE Owned' /\ WritesAlone'
    <3>1. Owned /\ WritesAlone
      BY <2>1, <2>2 DEF Inv, Recording
    <3>2. Owned'
      BY <1>3, <3>1 DEF Owned
    <3>3. WritesAlone'
      <4> SUFFICES ASSUME main'.at \in Calling PROVE WritesAlone'
        BY DEF WritesAlone
      <4>1. main'.at = main.at /\ call'["main"] = call["main"]
        BY <1>2, <1>3
      <4>2. main.at = "ending" => EndDoc' = EndDoc
        BY DEF Inv, Course, GoesOn, EndDoc
      <4>3. FailDoc' = FailDoc
        BY DEF FailDoc
      <4> QED  BY <1>1, <3>1, <4>1, <4>2, <4>3 DEF WritesAlone, Concludes, Conclusion
    <3> QED  BY <3>2, <3>3
  <2>3. ASSUME Entitled'  PROVE EndShown'
    <3>1. EndShown
      BY <2>1, <2>3 DEF Inv, Recording, Entitled, EndPlaces
    <3>2. JobExited => JobExited' /\ EndDoc' = EndDoc
      BY DEF GoesOn, JobExited, EndDoc
    <3> QED  BY <1>1, <3>1, <3>2 DEF EndShown, FailDoc
  <2> QED  BY <2>2, <2>3 DEF Recording, Entitled, EndPlaces
<1>6. Verdicts'
  BY <1>1, VerdictsStay
<1> QED  BY <1>3, <1>4, <1>5, <1>6 DEF Inv
-----------------------------------------------------------------------------
(* The steps that leave the files alone *)

\* The bound on faults apart, a fault counts one up.
LEMMA FaultCounts ==
  ASSUME NEW kind \in FaultKinds, FileTyping, Fault(kind)
  PROVE  /\ faults' \in [FaultKinds -> Nat] /\ faults'[kind] > 0
         /\ \A k \in FaultKinds : faults'[k] >= faults[k]
<1>1. faults \in [FaultKinds -> Nat]
  BY DEF FileTyping
<1>2. faults' = [faults EXCEPT ![kind] = @ + 1]
  BY DEF Fault
<1> QED  BY <1>1, <1>2

LEMMA FaultsKept ==
  ASSUME FileTyping, faults' = faults
  PROVE  faults' \in [FaultKinds -> Nat] /\ \A k \in FaultKinds : faults'[k] >= faults[k]
<1>1. faults \in [FaultKinds -> Nat]
  BY DEF FileTyping
<1> QED  BY <1>1

LEMMA FaultsGrow ==
  ASSUME FileTyping, GoesOn
  PROVE  /\ faults'["stop"] = 0 => faults["stop"] = 0
         /\ faults["break"] > 0 => faults'["break"] > 0
         /\ faults["network"] > 0 => faults'["network"] > 0
<1>1. faults \in [FaultKinds -> Nat] /\ faults' \in [FaultKinds -> Nat]
  BY DEF FileTyping, GoesOn
<1>2. \A kind \in {"stop", "break", "network"} :
         faults[kind] \in Nat /\ faults'[kind] \in Nat /\ faults'[kind] >= faults[kind]
  BY <1>1 DEF GoesOn, FaultKinds
<1> QED  BY <1>2

LEMMA StagesAre == DOMAIN Stages \subseteq Nat \ {0} /\ 1 \in DOMAIN Stages
<1>1. CASE Supervised
  <2>1. DOMAIN Stages = 1 .. 5
    BY <1>1 DEF Stages
  <2> QED  BY <2>1
<1>2. CASE ~ Supervised
  <2>1. DOMAIN Stages = 1 .. 3
    BY <1>2 DEF Stages
  <2> QED  BY <2>1
<1> QED  BY <1>1, <1>2

\* Who is past the first stage does not come back to it.
LEMMA FirstIsFirst ==
  ASSUME NEW a \in Nat \ {0}, NEW b \in Nat \ {0}, b >= a  PROVE b = 1 => a = 1
OBVIOUS

\* A step of the main thread from one place to another, and no more.
LEMMA MainMoves ==
  ASSUME Inv, alive, alive' = alive,
         UNCHANGED <<disk, path, tmp, call, verdict, modeVars, threadVars>>,
         host' = host \/ (main'.at = "over" /\ host'.doc \in {host.doc, Received}
                          /\ host' = [doc |-> host'.doc, seen |-> host'.seen]
                          /\ (host'.seen = host.seen \/ host'.seen = "fresh")),
         shipping' = shipping \/ main'.at = "over", main'.at = "over" => ~ shipping',
         main.at # "over", main'.at # main.at,
         main' = [at |-> main'.at, stage |-> main'.stage, broken |-> main'.broken, late |-> main'.late],
         main'.at \in Places \ Calling, main'.broken \in BOOLEAN,
         main'.late \in BOOLEAN, main.late => main'.late,
         main'.stage \in DOMAIN Stages, main'.stage >= main.stage,
         statusFile' \in {"none", "run id", "done", "error"},
         statusFile' \in {"done", "error"} => main'.at \in {"drain", "over"},
         statusFile' = "done" => JobExited,
         faults' \in [FaultKinds -> Nat], \A k \in FaultKinds : faults'[k] >= faults[k],
         main.at \notin Calling, main.at \in OverPlaces => main'.at \in OverPlaces,
         main.at \in Closing => main'.at \in Closing,
         Course', Entitled' => Entitled
  PROVE  Inv'
<1>1. mode' = mode /\ ingest' = ingest /\ Stages' = Stages /\ (Supervised' <=> Supervised)
  BY DEF modeVars, Stages, Supervised
<1>2. GoesOn
  BY <1>1 DEF GoesOn, RunOver, threadVars, OnTime
<1>3. host'.doc \in {host.doc, Shown} /\ host'.doc \in Docs
      /\ host' = [doc |-> host'.doc, seen |-> host'.seen]
  <2>1. Received \in {host.doc, Shown}
    BY DEF Received
  <2>2. Shown \in Docs
    BY ShownHonest DEF Inv
  <2> QED  BY <2>1, <2>2 DEF Inv, LaunchTyping
<1>4. LaunchTyping'
  <2>1. DOMAIN Stages \subseteq Nat \ {0}
    BY StagesAre, Zenon
  <2>2. main'.stage \in Nat /\ Stages' = Stages
    BY <1>1, <2>1
  <2>3. main' \in [at : Places, stage : Nat, broken : BOOLEAN, late : BOOLEAN]
    BY <2>2
  <2> QED  BY <1>1, <1>3, <2>2, <2>3 DEF Inv, LaunchTyping, threadVars
<1>5. Callers'
  <2>1. faults'["stop"] = 0 => faults["stop"] = 0
    BY <1>2, FaultsGrow DEF Inv
  <2> QED  BY <2>1 DEF Inv, Callers, threadVars
<1>6. Signs'
  <2>1. (faults["break"] > 0 => faults'["break"] > 0) /\ (faults["network"] > 0 => faults'["network"] > 0)
    BY <1>2, FaultsGrow DEF Inv
  <2>2. ~ RunOver /\ (RunOver' <=> main'.at = "over")
    BY DEF RunOver
  <2>3. main'.stage = 1 => main.stage = 1
    <3>1. DOMAIN Stages \subseteq Nat \ {0}
      BY StagesAre, Zenon
    <3>2. main.stage \in Nat \ {0} /\ main'.stage \in Nat \ {0}
      BY <3>1 DEF Inv, LaunchTyping
    <3> QED  BY <3>2, FirstIsFirst
  <2>4. Signs
    BY DEF Inv
  <2>5. RunOver' \/ (host'.seen = host.seen /\ shipping' = shipping)
    BY <2>2, Zenon
  <2>6. host'.seen = "fresh" => shipping' \/ RunOver'
    BY <2>2, <2>4, <2>5, Zenon DEF Signs
  <2>7. host'.seen = "silent" => RunOver' \/ faults'["network"] > 0
    BY <2>1, <2>2, <2>4, <2>5, Zenon DEF Signs
  <2>8. RunOver' => ~ shipping'
    BY <2>2
  <2>9. Supervised' /\ main'.stage = 1 => ~ shipping'
    BY <1>1, <2>2, <2>3, <2>4 DEF Signs
  <2>10. statusFile' = "done" => JobExited'
    BY DEF JobExited, threadVars
  <2> QED  BY <2>6, <2>7, <2>8, <2>9, <2>10 DEF Signs, JobExited
<1>7. "reader" \in {"reader", "heartbeat"} /\ (alive' => alive)
  OBVIOUS
<1> QED  BY <1>2, <1>3, <1>4, <1>5, <1>6, <1>7, MoveKeeps

\* The training stage is the last one.
LEMMA NextStage ==
  ASSUME NEW s \in DOMAIN Stages, Stages[s] # "training"
  PROVE  s + 1 \in DOMAIN Stages
<1>1. CASE Supervised
  BY <1>1 DEF Stages
<1>2. CASE ~ Supervised
  BY <1>2 DEF Stages
<1> QED  BY <1>1, <1>2

\* What Goto leaves of the main thread.
LEMMA Goes ==
  ASSUME LaunchTyping, NEW l \in Places, Goto(l)
  PROVE  /\ main' = [at |-> main'.at, stage |-> main'.stage, broken |-> main'.broken, late |-> main'.late]
         /\ main'.at = l /\ main'.broken = main.broken /\ main'.broken \in BOOLEAN
         /\ main'.late = main.late /\ main'.late \in BOOLEAN
         /\ main'.stage = main.stage /\ main'.stage \in DOMAIN Stages /\ main'.stage >= main.stage
<1>1. main \in [at : Places, stage : Nat, broken : BOOLEAN, late : BOOLEAN] /\ main.stage \in DOMAIN Stages
  BY DEF LaunchTyping
<1>2. main' = [main EXCEPT !.at = l]
  BY DEF Goto
<1> QED  BY <1>1, <1>2

LEMMA MovesOn ==
  ASSUME NEW m \in [at : Places, stage : Nat, broken : BOOLEAN, late : BOOLEAN], NEW l, NEW n
  PROVE  /\ n = [m EXCEPT !.at = l, !.stage = @ + 1] =>
              /\ n = [at |-> n.at, stage |-> n.stage, broken |-> n.broken, late |-> n.late]
              /\ n.at = l /\ n.stage = m.stage + 1 /\ n.broken = m.broken /\ n.late = m.late
         /\ n = [m EXCEPT !.at = l, !.broken = TRUE] =>
              /\ n = [at |-> n.at, stage |-> n.stage, broken |-> n.broken, late |-> n.late]
              /\ n.at = l /\ n.stage = m.stage /\ n.broken = TRUE /\ n.late = m.late
         /\ m.stage + 1 >= m.stage /\ m.stage >= m.stage /\ m.broken \in BOOLEAN /\ m.late \in BOOLEAN
<1>1. m.stage \in Nat
  OBVIOUS
<1>2. m.stage + 1 >= m.stage /\ m.stage >= m.stage
  BY <1>1
<1>3. ASSUME n = [m EXCEPT !.at = l, !.stage = @ + 1]
      PROVE  /\ n = [at |-> n.at, stage |-> n.stage, broken |-> n.broken, late |-> n.late]
             /\ n.at = l /\ n.stage = m.stage + 1 /\ n.broken = m.broken /\ n.late = m.late
  BY <1>3
<1>4. ASSUME n = [m EXCEPT !.at = l, !.broken = TRUE]
      PROVE  /\ n = [at |-> n.at, stage |-> n.stage, broken |-> n.broken, late |-> n.late]
             /\ n.at = l /\ n.stage = m.stage /\ n.broken = TRUE /\ n.late = m.late
  BY <1>4
<1> QED  BY <1>2, <1>3, <1>4

LEMMA WorksThroughKeeps ==
  ASSUME Inv, alive, NEW stages, WorksThrough(stages), "training" \notin stages,
         UNCHANGED <<host, verdict>>
  PROVE  Inv'
<1>1. /\ main.at = "work" /\ Stage # "training"
      /\ UNCHANGED <<fileVars, modeVars, threadVars, recordVars, alive, counters>>
  BY DEF WorksThrough
<1>2. /\ job = "none" /\ reader = "none" /\ heartbeat = "none" /\ (main.broken => faults["break"] > 0)
      /\ ~ main.late
  BY <1>1 DEF Inv, Course
<1>3. /\ main'.at \in {"note", "fail"} /\ main'.broken = main.broken /\ main'.broken \in BOOLEAN
      /\ main'.late = main.late /\ main'.late \in BOOLEAN
      /\ main' = [at |-> main'.at, stage |-> main'.stage, broken |-> main'.broken, late |-> main'.late]
      /\ main'.stage \in DOMAIN Stages /\ main'.stage >= main.stage
  <2>1. CASE Goto("fail")
    BY <2>1, Goes DEF Inv, Places
  <2>2. CASE main' = [main EXCEPT !.at = "note", !.stage = @ + 1]
    <3>1. main \in [at : Places, stage : Nat, broken : BOOLEAN, late : BOOLEAN] /\ main.stage \in DOMAIN Stages
      BY DEF Inv, LaunchTyping
    <3>2. main.stage + 1 \in DOMAIN Stages
      BY <1>1, <3>1, NextStage DEF Stage
    <3>3. /\ main' = [at |-> main'.at, stage |-> main'.stage, broken |-> main'.broken, late |-> main'.late]
          /\ main'.at = "note" /\ main'.stage = main.stage + 1 /\ main'.broken = main.broken
          /\ main'.late = main.late /\ main.late \in BOOLEAN
          /\ main.broken \in BOOLEAN /\ main.stage + 1 >= main.stage
      BY <2>2, <3>1, MovesOn
    <3> QED  BY <3>2, <3>3
  <2> QED  BY <2>1, <2>2 DEF WorksThrough
<1>4. Course'
  BY <1>1, <1>2, <1>3 DEF Course, threadVars, counters, OnTime
<1>5. ~ Entitled'
  BY <1>3 DEF Entitled, EndPlaces
<1>6. faults' \in [FaultKinds -> Nat] /\ \A k \in FaultKinds : faults'[k] >= faults[k]
  BY <1>1, FaultsKept DEF Inv, counters
<1>7. statusFile \in {"none", "run id", "done", "error"}
      /\ (statusFile \in {"done", "error"} => main.at \in {"drain", "over"})
      /\ (statusFile = "done" => JobExited)
  BY DEF Inv, LaunchTyping, Signs
<1> QED  BY <1>1, <1>3, <1>4, <1>5, <1>6, <1>7, MainMoves
         DEF fileVars, modeVars, recordVars, Places, Calling, OverPlaces, Closing

LEMMA JobWaitedKeeps ==
  ASSUME Inv, alive, JobWaited, UNCHANGED <<host, verdict>>
  PROVE  Inv'
<1>1. /\ main.at = "wait" /\ JobExited /\ Goto("join")
      /\ UNCHANGED <<fileVars, modeVars, threadVars, recordVars, alive, counters>>
  BY DEF JobWaited
<1>2. /\ main'.at = "join" /\ main'.broken = main.broken /\ main'.broken \in BOOLEAN
      /\ main'.late = main.late /\ main'.late \in BOOLEAN
      /\ main' = [at |-> main'.at, stage |-> main'.stage, broken |-> main'.broken, late |-> main'.late]
      /\ main'.stage \in DOMAIN Stages /\ main'.stage >= main.stage
  BY <1>1, Goes DEF Inv, Places
<1>3. Course'
  BY <1>1, <1>2 DEF Inv, Course, threadVars, counters, JobExited, OnTime
<1>4. ~ Entitled'
  BY <1>2 DEF Entitled, EndPlaces
<1>5. faults' \in [FaultKinds -> Nat] /\ \A k \in FaultKinds : faults'[k] >= faults[k]
  BY <1>1, FaultsKept DEF Inv, counters
<1>6. statusFile \in {"none", "run id", "done", "error"}
      /\ (statusFile \in {"done", "error"} => main.at \in {"drain", "over"})
      /\ (statusFile = "done" => JobExited)
  BY DEF Inv, LaunchTyping, Signs
<1> QED  BY <1>1, <1>2, <1>3, <1>4, <1>5, <1>6, MainMoves
         DEF fileVars, modeVars, recordVars, Places, Calling, OverPlaces, Closing

LEMMA JoinKeeps ==
  ASSUME Inv, alive, Join, UNCHANGED <<host, verdict>>
  PROVE  Inv'
<1> DEFINE late == ~ {reader, heartbeat} \subseteq {"ended", "dead"}
<1>1. /\ main.at = "join" /\ main' = [main EXCEPT !.at = "publish", !.late = late]
      /\ UNCHANGED <<fileVars, modeVars, threadVars, recordVars, alive, counters>>
  BY DEF Join
<1>2. /\ main'.at = "publish" /\ main'.broken = main.broken /\ main'.broken \in BOOLEAN
      /\ main'.late = late /\ main'.late \in BOOLEAN /\ ~ main.late
      /\ main' = [at |-> main'.at, stage |-> main'.stage, broken |-> main'.broken, late |-> main'.late]
      /\ main'.stage \in DOMAIN Stages /\ main'.stage >= main.stage
  <2>1. /\ main \in [at : Places, stage : Nat, broken : BOOLEAN, late : BOOLEAN]
        /\ main.stage \in DOMAIN Stages /\ ~ main.late
    BY <1>1 DEF Inv, LaunchTyping, Course
  <2>2. late \in BOOLEAN
    OBVIOUS
  <2> HIDE DEF late
  <2>3. /\ main'.at = "publish" /\ main'.broken = main.broken /\ main'.late = late
        /\ main'.stage = main.stage
        /\ main' = [at |-> main'.at, stage |-> main'.stage, broken |-> main'.broken, late |-> main'.late]
    BY <1>1, <2>1
  <2>4. main.stage >= main.stage /\ main.broken \in BOOLEAN
    BY <2>1
  <2> QED  BY <2>1, <2>2, <2>3, <2>4
<1>3. Course'
  BY <1>1, <1>2 DEF Inv, Course, threadVars, counters, JobExited, OnTime
<1>4. ~ Entitled'
  BY <1>2 DEF Entitled, EndPlaces
<1>5. faults' \in [FaultKinds -> Nat] /\ \A k \in FaultKinds : faults'[k] >= faults[k]
  BY <1>1, FaultsKept DEF Inv, counters
<1>6. statusFile \in {"none", "run id", "done", "error"}
      /\ (statusFile \in {"done", "error"} => main.at \in {"drain", "over"})
      /\ (statusFile = "done" => JobExited)
  BY DEF Inv, LaunchTyping, Signs
<1> QED  BY <1>1, <1>2, <1>3, <1>4, <1>5, <1>6, MainMoves
         DEF fileVars, modeVars, recordVars, Places, Calling, OverPlaces, Closing

LEMMA InterruptedKeeps ==
  ASSUME Inv, alive, Interrupted, UNCHANGED <<host, verdict>>
  PROVE  Inv'
<1> DEFINE l == IF Supervised THEN "drain" ELSE "fail"
<1>1. /\ main.at = "interrupted" /\ Goto(l) /\ l \in Places
      /\ UNCHANGED <<fileVars, modeVars, threadVars, recordVars, alive, counters>>
  BY DEF Interrupted, Places
<1>2. /\ main'.at = l /\ main'.broken = main.broken /\ main'.broken \in BOOLEAN
      /\ main'.late = main.late /\ main'.late \in BOOLEAN
      /\ main' = [at |-> main'.at, stage |-> main'.stage, broken |-> main'.broken, late |-> main'.late]
      /\ main'.stage \in DOMAIN Stages /\ main'.stage >= main.stage
  BY <1>1, Goes DEF Inv
<1>3. main.broken /\ faults["break"] > 0
  BY <1>1 DEF Inv, Course
<1>4. Course'
  BY <1>1, <1>2, <1>3 DEF Inv, Course, threadVars, counters, JobExited, OnTime
<1>5. ~ Entitled'
  BY <1>1, <1>2, <1>3 DEF Entitled, EndPlaces, Supervised, modeVars
<1>6. faults' \in [FaultKinds -> Nat] /\ \A k \in FaultKinds : faults'[k] >= faults[k]
  BY <1>1, FaultsKept DEF Inv, counters
<1>7. statusFile \in {"none", "run id", "done", "error"}
      /\ (statusFile \in {"done", "error"} => main.at \in {"drain", "over"})
      /\ (statusFile = "done" => JobExited)
  BY DEF Inv, LaunchTyping, Signs
<1> QED  BY <1>1, <1>2, <1>4, <1>5, <1>6, <1>7, MainMoves
         DEF fileVars, modeVars, recordVars, Places, Calling, OverPlaces, Closing

LEMMA InterruptKeeps ==
  ASSUME Inv, alive, Interrupt, UNCHANGED <<host, verdict>>
  PROVE  Inv'
<1> DEFINE l == IF main.at = "wait" THEN "join" ELSE IF Supervised THEN "drain" ELSE "fail"
<1>1. /\ main.at \in {"work", "wait"} /\ Fault("break")
      /\ main' = [main EXCEPT !.at = l, !.broken = TRUE] /\ ~ main.late
      /\ UNCHANGED <<fileVars, modeVars, threadVars, recordVars, alive, notes>>
  BY DEF Interrupt, Inv, Course
<1>2. /\ main'.at = l /\ main'.broken /\ main'.late = main.late /\ main'.late \in BOOLEAN
      /\ main' = [at |-> main'.at, stage |-> main'.stage, broken |-> main'.broken, late |-> main'.late]
      /\ main'.stage \in DOMAIN Stages /\ main'.stage >= main.stage
  <2>1. main \in [at : Places, stage : Nat, broken : BOOLEAN, late : BOOLEAN] /\ main.stage \in DOMAIN Stages
    BY DEF Inv, LaunchTyping
  <2>2. /\ main' = [at |-> main'.at, stage |-> main'.stage, broken |-> main'.broken, late |-> main'.late]
        /\ main'.at = l /\ main'.stage = main.stage /\ main'.broken = TRUE /\ main'.late = main.late
        /\ main.stage >= main.stage
    BY <1>1, <2>1, MovesOn
  <2> QED  BY <2>1, <2>2
<1>3. /\ faults' \in [FaultKinds -> Nat] /\ faults'["break"] > 0
      /\ \A k \in FaultKinds : faults'[k] >= faults[k]
  BY <1>1, FaultCounts DEF Inv, FaultKinds
<1>4. Course'
  <2>1. main.at = "work" => reader = "none" /\ heartbeat = "none"
    BY DEF Inv, Course
  <2> QED  BY <1>1, <1>2, <1>3, <2>1 DEF Course, threadVars, OnTime
<1>5. ~ Entitled'
  BY <1>1, <1>2 DEF Entitled, EndPlaces, Supervised, modeVars
<1>6. statusFile \in {"none", "run id", "done", "error"}
      /\ (statusFile \in {"done", "error"} => main.at \in {"drain", "over"})
      /\ (statusFile = "done" => JobExited)
  BY DEF Inv, LaunchTyping, Signs
<1> QED  BY <1>1, <1>2, <1>3, <1>4, <1>5, <1>6, MainMoves
         DEF fileVars, modeVars, recordVars, Places, Calling, OverPlaces, Closing

LEMMA StatusFileWrittenKeeps ==
  ASSUME Inv, alive, StatusFileWritten, UNCHANGED <<host, verdict>>
  PROVE  Inv'
<1>1. /\ main.at \in {"endfile", "failfile"}
      /\ UNCHANGED <<fileVars, modeVars, threadVars, shipping, parent, alive, notes>>
  BY DEF StatusFileWritten
<1>2. PICK l \in {"drain", "fail"} :
         /\ Goto(l) /\ (main.at = "failfile" => l = "drain")
         /\ statusFile' = statusFile \/ (statusFile' \in {"done", "error"} /\ l = "drain")
         /\ statusFile' = "done" => statusFile' = statusFile \/ main.at = "endfile"
         /\ faults' = faults \/ Fault("io")
  BY <1>1 DEF StatusFileWritten
<1>3. /\ main'.at = l /\ main'.broken = main.broken /\ main'.broken \in BOOLEAN
      /\ main'.late = main.late /\ main'.late \in BOOLEAN
      /\ main' = [at |-> main'.at, stage |-> main'.stage, broken |-> main'.broken, late |-> main'.late]
      /\ main'.stage \in DOMAIN Stages /\ main'.stage >= main.stage
  BY <1>2, Goes DEF Inv, Places
<1>4. faults' \in [FaultKinds -> Nat] /\ \A k \in FaultKinds : faults'[k] >= faults[k]
  <2>1. "io" \in FaultKinds
    BY DEF FaultKinds
  <2> QED  BY <1>2, <2>1, FaultsKept, FaultCounts DEF Inv
<1>5. Course'
  <2>1. main.broken => faults'["break"] > 0
    <3>1. "break" \in FaultKinds /\ faults \in [FaultKinds -> Nat]
      BY DEF FaultKinds, Inv, FileTyping
    <3> QED  BY <1>4, <3>1 DEF Inv, Course, OnTime
  <2>2. OnTime => {reader, heartbeat} \subseteq {"none", "ended", "dead"}
    BY <1>1 DEF Inv, Course
  <2> QED  BY <1>1, <1>3, <2>1, <2>2 DEF Course, threadVars, OnTime
<1>6. Entitled' => Entitled
  BY <1>1, <1>3 DEF Entitled, EndPlaces, Supervised, modeVars
<1>7. statusFile \in {"none", "run id", "done", "error"}
      /\ (statusFile \in {"done", "error"} => main.at \in {"drain", "over"})
      /\ (statusFile = "done" => JobExited)
  BY DEF Inv, LaunchTyping, Signs
<1>8. statusFile' \in {"none", "run id", "done", "error"}
      /\ (statusFile' \in {"done", "error"} => main'.at \in {"drain", "over"})
      /\ (statusFile' = "done" => JobExited)
  <2>1. main.at = "endfile" => JobExited
    BY DEF Inv, Course
  <2> QED  BY <1>1, <1>2, <1>3, <1>7, <2>1
<1>9. /\ main'.at \in Places \ Calling /\ main'.at # main.at /\ main.at \notin Calling
      /\ main'.at # "over" /\ main.at # "over"
      /\ main.at \in OverPlaces => main'.at \in OverPlaces
      /\ main.at \in Closing => main'.at \in Closing
  BY <1>1, <1>2, <1>3 DEF Places, Calling, OverPlaces, Closing
<1> QED  BY <1>1, <1>3, <1>4, <1>5, <1>6, <1>8, <1>9, MainMoves DEF fileVars

LEMMA DrainedKeeps ==
  ASSUME Inv, alive, Drained, verdict' = verdict,
         host' \in {host, [doc |-> Received, seen |-> "fresh"]}
  PROVE  Inv'
<1>1. /\ main.at = "drain" /\ ~ shipping' /\ Goto("over")
      /\ UNCHANGED <<fileVars, modeVars, threadVars, statusFile, parent, alive, counters>>
  BY DEF Drained
<1>2. /\ main'.at = "over" /\ main'.broken = main.broken /\ main'.broken \in BOOLEAN
      /\ main'.late = main.late /\ main'.late \in BOOLEAN
      /\ main' = [at |-> main'.at, stage |-> main'.stage, broken |-> main'.broken, late |-> main'.late]
      /\ main'.stage \in DOMAIN Stages /\ main'.stage >= main.stage
  BY <1>1, Goes DEF Inv, Places
<1>3. host' = host \/ (main'.at = "over" /\ host'.doc \in {host.doc, Received}
                        /\ host' = [doc |-> host'.doc, seen |-> host'.seen]
                        /\ (host'.seen = host.seen \/ host'.seen = "fresh"))
  <2>1. CASE host' = host
    BY <2>1
  <2>2. CASE host' = [doc |-> Received, seen |-> "fresh"]
    <3> HIDE DEF Received
    <3> QED  BY <1>2, <2>2
  <2> QED  BY <2>1, <2>2
<1>4. Course'
  BY <1>1, <1>2 DEF Inv, Course, threadVars, counters, JobExited, OnTime
<1>5. Entitled' => Entitled
  BY <1>1, <1>2 DEF Entitled, EndPlaces, Supervised, modeVars
<1>6. faults' \in [FaultKinds -> Nat] /\ \A k \in FaultKinds : faults'[k] >= faults[k]
  BY <1>1, FaultsKept DEF Inv, counters
<1>7. statusFile \in {"none", "run id", "done", "error"} /\ (statusFile = "done" => JobExited)
  BY DEF Inv, LaunchTyping, Signs
<1>8. /\ main'.at \in Places \ Calling /\ main'.at # main.at /\ main.at \notin Calling
      /\ main.at # "over"
      /\ main.at \in OverPlaces => main'.at \in OverPlaces
      /\ main.at \in Closing => main'.at \in Closing
  BY <1>1, <1>2 DEF Places, Calling, OverPlaces, Closing
<1>9. UNCHANGED <<disk, path, tmp, call, verdict, modeVars, threadVars>> /\ alive' = alive
      /\ statusFile' \in {"none", "run id", "done", "error"} /\ (statusFile' = "done" => JobExited)
  BY <1>1, <1>7 DEF fileVars
<1>10. main'.at = "over" => ~ shipping'
  BY <1>1, Zenon
<1>11. statusFile' \in {"done", "error"} => main'.at \in {"drain", "over"}
  BY <1>2
<1> QED  BY <1>2, <1>3, <1>4, <1>5, <1>6, <1>8, <1>9, <1>10, <1>11, MainMoves, Zenon

\* A step of the job or of a thread beside it.
LEMMA ThreadMoves ==
  ASSUME Inv, UNCHANGED <<disk, path, tmp, main, modeVars, recordVars, alive, faults, host, verdict>>,
         NEW w \in {"reader", "heartbeat"},
         call' = call \/ (call[w].at \in {"idle", "raised"} /\ Forgets(w)),
         JobExited \/ job = "none" => job' = job /\ code' = code,
         code' \in {0} \cup ExitCodes,
         job' \in {"none", "running", "blocked", "exited"},
         reader' # "publishing" => call'["reader"].at = "idle",
         heartbeat' # "publishing" => call'["heartbeat"].at = "idle",
         reader = "none" /\ heartbeat = "none" => reader' = "none" /\ heartbeat' = "none",
         {reader, heartbeat} \subseteq {"none", "ended", "dead"}
           => reader' = reader /\ heartbeat' = heartbeat
  PROVE  Inv'
<1>1. mode' = mode /\ Stages' = Stages /\ (Supervised' <=> Supervised)
  BY DEF modeVars, Stages, Supervised
<1>2. faults' \in [FaultKinds -> Nat] /\ \A k \in FaultKinds : faults'[k] >= faults[k]
  BY FaultsKept DEF Inv
<1>3. GoesOn
  BY <1>1, <1>2 DEF GoesOn, RunOver, OnTime
<1>4. LaunchTyping'
  BY <1>1 DEF Inv, LaunchTyping, recordVars
<1>5. \A v \in Writers : call'[v] = call[v] \/ (v = w /\ call'[v].at = "idle")
  <2>1. call \in [Writers -> [at : {"idle", "write", "replace", "raised"}, doc : Docs, file : Files]]
    BY DEF Inv, FileTyping
  <2>2. CASE call' = call
    BY <2>2
  <2>3. CASE Forgets(w)
    BY <2>1, <2>3 DEF Forgets, Idle
  <2> QED  BY <2>2, <2>3
<1>6. Callers'
  BY <1>5, SixFiles DEF Inv, Callers
<1>7. Course'
  BY DEF Inv, Course, JobExited, OnTime
<1>8. Signs'
  <2>1. RunOver' <=> RunOver
    BY DEF RunOver
  <2> QED  BY <1>1, <2>1 DEF Inv, Signs, recordVars, JobExited
<1>9. /\ alive' => alive
      /\ main'.at \in Calling => main'.at = main.at
      /\ Entitled' => Entitled
      /\ host'.doc \in {host.doc, Shown}
  BY <1>1 DEF Entitled
<1> QED  BY <1>3, <1>4, <1>6, <1>7, <1>8, <1>9, MoveKeeps

LEMMA JobKeeps ==
  ASSUME Inv, JobExits \/ JobBlocks, UNCHANGED <<host, verdict>>
  PROVE  Inv'
<1>1. /\ job = "running" /\ job' \in {"exited", "blocked"}
      /\ code' \in {0} \cup ExitCodes
      /\ UNCHANGED <<fileVars, modeVars, main, reader, heartbeat, recordVars, alive, counters>>
  BY DEF JobExits, JobBlocks, Inv, LaunchTyping
<1>2. /\ reader # "publishing" => call["reader"].at = "idle"
      /\ heartbeat # "publishing" => call["heartbeat"].at = "idle"
  BY DEF Inv, Callers
<1>3. "reader" \in {"reader", "heartbeat"} /\ ~ JobExited
  BY <1>1 DEF JobExited
<1>4. UNCHANGED <<disk, path, tmp, call, faults>>
  BY <1>1 DEF fileVars, counters
<1> QED  BY <1>1, <1>2, <1>3, <1>4, ThreadMoves

\* What the resuming of a thread leaves of the calls.
LEMMA Resumed ==
  ASSUME FileTyping, NEW w \in Writers, Forgets(w)
  PROVE  call'[w].at = "idle" /\ \A v \in Writers : v # w => call'[v] = call[v]
<1>1. call \in [Writers -> [at : {"idle", "write", "replace", "raised"}, doc : Docs, file : Files]]
  BY DEF FileTyping
<1>2. call' = [call EXCEPT ![w] = Idle]
  BY DEF Forgets
<1> QED  BY <1>1, <1>2 DEF Idle

LEMMA ReaderKeeps ==
  ASSUME Inv, ReaderResumes \/ ReaderEnds, UNCHANGED <<host, verdict>>
  PROVE  Inv'
<1>1. /\ reader \in {"publishing", "reading"} /\ reader' \in {"reading", "dead", "ended"}
      /\ UNCHANGED <<diskVars, modeVars, main, job, code, heartbeat, recordVars, alive, counters>>
  BY DEF ReaderResumes, ReaderEnds, fileVars, diskVars
<1>2. heartbeat # "publishing" => call["heartbeat"].at = "idle"
  BY DEF Inv, Callers
<1>3. /\ "reader" \in {"reader", "heartbeat"} /\ "reader" \in Writers /\ "heartbeat" \in Writers
      /\ job \in {"none", "running", "blocked", "exited"} /\ code \in {0} \cup ExitCodes
  BY SixFiles DEF Inv, LaunchTyping
<1>4. CASE ReaderResumes
  <2>1. call["reader"].at \in {"idle", "raised"} /\ Forgets("reader")
    BY <1>4 DEF ReaderResumes, Returned, Raised
  <2>2. call'["reader"].at = "idle" /\ call'["heartbeat"] = call["heartbeat"]
    BY <1>3, <2>1, Resumed DEF Inv
  <2> QED  BY <1>1, <1>2, <1>3, <2>1, <2>2, ThreadMoves DEF diskVars, counters
<1>5. CASE ReaderEnds
  <2>1. call' = call /\ call["reader"].at = "idle"
    BY <1>5 DEF ReaderEnds, fileVars, Inv, Callers
  <2> QED  BY <1>1, <1>2, <1>3, <2>1, ThreadMoves DEF diskVars, counters
<1> QED  BY <1>4, <1>5

LEMMA HeartbeatKeeps ==
  ASSUME Inv, HeartbeatResumes \/ HeartbeatEnds, UNCHANGED <<host, verdict>>
  PROVE  Inv'
<1>1. /\ heartbeat \in {"publishing", "beating"} /\ heartbeat' \in {"beating", "dead", "ended"}
      /\ UNCHANGED <<diskVars, modeVars, main, job, code, reader, recordVars, alive, counters>>
  BY DEF HeartbeatResumes, HeartbeatEnds, fileVars, diskVars
<1>2. reader # "publishing" => call["reader"].at = "idle"
  BY DEF Inv, Callers
<1>3. /\ "heartbeat" \in {"reader", "heartbeat"} /\ "reader" \in Writers /\ "heartbeat" \in Writers
      /\ job \in {"none", "running", "blocked", "exited"} /\ code \in {0} \cup ExitCodes
  BY SixFiles DEF Inv, LaunchTyping
<1>4. CASE HeartbeatResumes
  <2>1. call["heartbeat"].at \in {"idle", "raised"} /\ Forgets("heartbeat")
    BY <1>4 DEF HeartbeatResumes, Returned, Raised
  <2>2. call'["heartbeat"].at = "idle" /\ call'["reader"] = call["reader"]
    BY <1>3, <2>1, Resumed DEF Inv
  <2> QED  BY <1>1, <1>2, <1>3, <2>1, <2>2, ThreadMoves DEF diskVars, counters
<1>5. CASE HeartbeatEnds
  <2>1. call' = call /\ call["heartbeat"].at = "idle"
    BY <1>5 DEF HeartbeatEnds, fileVars, Inv, Callers
  <2> QED  BY <1>1, <1>2, <1>3, <2>1, ThreadMoves DEF diskVars, counters
<1> QED  BY <1>4, <1>5

\* A step of the parent, of the shipper, or of time.
LEMMA OthersMove ==
  ASSUME Inv,
         UNCHANGED <<fileVars, main, modeVars, threadVars, shipping, statusFile, alive, verdict>>,
         faults' \in [FaultKinds -> Nat], \A k \in FaultKinds : faults'[k] >= faults[k],
         host' = [doc |-> host'.doc, seen |-> host'.seen],
         host'.doc = host.doc \/ (host'.doc = Received /\ ~ RunOver),
         host'.seen = "fresh" => host.seen = "fresh" \/ shipping,
         host'.seen = "silent" => \/ host.seen = "silent" \/ faults'["network"] > 0
                                  \/ (host.seen = "fresh" /\ ~ shipping)
  PROVE  Inv'
<1>1. mode' = mode /\ Stages' = Stages /\ (Supervised' <=> Supervised)
  BY DEF modeVars, Stages, Supervised
<1>2. (RunOver' <=> RunOver) /\ UNCHANGED <<disk, path, tmp, call, job, code, reader, heartbeat>>
  BY DEF RunOver, fileVars, threadVars
<1>3. GoesOn
  BY <1>1, <1>2 DEF GoesOn, OnTime
<1>4. host'.doc \in {host.doc, Shown} /\ host'.doc \in Docs
  <2>1. Received \in {host.doc, Shown}
    BY DEF Received
  <2>2. Shown \in Docs /\ host.doc \in Docs
    BY ShownHonest DEF Inv, LaunchTyping
  <2> QED  BY <2>1, <2>2
<1>5. LaunchTyping'
  BY <1>1, <1>2, <1>4 DEF Inv, LaunchTyping
<1>6. /\ faults'["stop"] = 0 => faults["stop"] = 0
      /\ faults["break"] > 0 => faults'["break"] > 0
      /\ faults["network"] > 0 => faults'["network"] > 0
  BY <1>3, FaultsGrow DEF Inv
<1>7. Callers'
  BY <1>2, <1>6 DEF Inv, Callers
<1>8. Course'
  BY <1>2, <1>6 DEF Inv, Course, JobExited, OnTime
<1>9. Signs'
  <2>1. Signs
    BY DEF Inv
  <2>2. host'.seen = "fresh" => shipping' \/ RunOver'
    BY <1>2, <2>1, Zenon DEF Signs
  <2>3. host'.seen = "silent" => RunOver' \/ faults'["network"] > 0
    BY <1>2, <1>6, <2>1, Zenon DEF Signs
  <2>4. (RunOver' => ~ shipping') /\ (Supervised' /\ main'.stage = 1 => ~ shipping')
    BY <1>1, <1>2, <2>1, Zenon DEF Signs
  <2>5. statusFile' \in {"done", "error"} => main'.at \in {"drain", "over"}
    BY <2>1 DEF Signs
  <2>6. alive' \/ main'.at = "over" \/ faults'["break"] > 0
    BY <1>6, <2>1, Zenon DEF Signs
  <2>7. statusFile' = "done" => JobExited'
    BY <1>2, <2>1 DEF Signs, JobExited
  <2> QED  BY <2>2, <2>3, <2>4, <2>5, <2>6, <2>7 DEF Signs, JobExited
<1>10. /\ alive' => alive
       /\ main'.at \in Calling => main'.at = main.at
       /\ Entitled' => Entitled
       /\ "reader" \in {"reader", "heartbeat"}
  BY <1>1 DEF Entitled
<1> QED  BY <1>2, <1>3, <1>4, <1>5, <1>7, <1>8, <1>9, <1>10, MoveKeeps

LEMMA ParentKeeps ==
  ASSUME Inv, ParentStep, UNCHANGED <<host, verdict>>
  PROVE  Inv'
<1>1. /\ UNCHANGED <<fileVars, modeVars, main, threadVars, shipping, statusFile, alive>>
      /\ faults' = faults \/ Fault("network")
  BY DEF ParentStep, ParentReads, ParentChecks, counters
<1>2. faults' \in [FaultKinds -> Nat] /\ \A k \in FaultKinds : faults'[k] >= faults[k]
  <2>1. "network" \in FaultKinds
    BY DEF FaultKinds
  <2> QED  BY <1>1, <2>1, FaultsKept, FaultCounts DEF Inv
<1>3. host = [doc |-> host.doc, seen |-> host.seen]
  BY DEF Inv, LaunchTyping
<1>4. host' = [doc |-> host'.doc, seen |-> host'.seen] /\ host'.doc = host.doc /\ host'.seen = host.seen
  BY <1>3, Zenon
<1> QED  BY <1>1, <1>2, <1>4, OthersMove

LEMMA ShipKeeps ==
  ASSUME Inv, Ship
  PROVE  Inv'
<1>1. shipping /\ UNCHANGED <<vars, verdict>> /\ host' = [doc |-> Received, seen |-> "fresh"]
  BY DEF Ship
<1>2. host' = [doc |-> host'.doc, seen |-> host'.seen] /\ host'.doc = Received /\ host'.seen = "fresh"
  <2> HIDE DEF Received
  <2> QED  BY <1>1
<1>3. ~ RunOver
  BY <1>1 DEF Inv, Signs
<1>4. faults' = faults
      /\ UNCHANGED <<fileVars, main, modeVars, threadVars, shipping, statusFile, alive, verdict>>
  BY <1>1 DEF vars, launchVars, modeVars, threadVars
<1>5. faults' \in [FaultKinds -> Nat] /\ \A k \in FaultKinds : faults'[k] >= faults[k]
  BY <1>4, FaultsKept DEF Inv
<1> QED  BY <1>1, <1>2, <1>3, <1>4, <1>5, OthersMove

LEMMA GoesSilentKeeps ==
  ASSUME Inv, GoesSilent
  PROVE  Inv'
<1>1. /\ host.seen = "fresh" /\ host' = [host EXCEPT !.seen = "silent"]
      /\ UNCHANGED <<fileVars, launchVars, verdict>>
  BY DEF GoesSilent
<1>2. host = [doc |-> host.doc, seen |-> host.seen]
  BY DEF Inv, LaunchTyping
<1>3. host' = [doc |-> host'.doc, seen |-> host'.seen] /\ host'.doc = host.doc /\ host'.seen = "silent"
  BY <1>1, <1>2
<1>4. UNCHANGED <<fileVars, main, modeVars, threadVars, shipping, statusFile, alive, verdict>>
  BY <1>1 DEF launchVars, modeVars, threadVars
<1>5. /\ faults' \in [FaultKinds -> Nat] /\ \A k \in FaultKinds : faults'[k] >= faults[k]
      /\ shipping => faults'["network"] > 0
  <2>1. "network" \in FaultKinds
    BY DEF FaultKinds
  <2>2. CASE shipping
    <3>1. Fault("network")
      BY <2>2 DEF GoesSilent
    <3> QED  BY <2>1, <3>1, FaultCounts DEF Inv
  <2>3. CASE ~ shipping
    <3>1. faults' = faults
      BY <2>3 DEF GoesSilent
    <3> QED  BY <2>3, <3>1, FaultsKept DEF Inv
  <2> QED  BY <2>2, <2>3
<1> QED  BY <1>1, <1>3, <1>4, <1>5, OthersMove
-----------------------------------------------------------------------------
(* The calls of write_progress *)

\* Who opens the temporary file: readers see what they saw, so all is well if
\* the new document is honest and the file is not the main thread's.
LEMMA CallKeeps ==
  ASSUME Inv, GoesOn, NEW w \in Writers, call[w].at = "idle", NEW doc \in Docs, Calls(w, doc),
         UNCHANGED <<host, verdict>>, Honest(doc)',
         LaunchTyping', Course', Signs',
         call'["main"].at # "idle" => main'.at \in Calling,
         reader' # "publishing" => call'["reader"].at = "idle",
         heartbeat' # "publishing" => call'["heartbeat"].at = "idle",
         faults'["stop"] = 0 => call'["stop"].at = "idle",
         alive' = alive, alive \/ w = "stop",
         Recording'
  PROVE  Inv'
<1>1. /\ FileTyping' /\ Shown' = Shown
      /\ \A i \in Inodes : disk'[i] \in {disk[i], Empty}
      /\ \A v \in Writers : v # w => call'[v] = call[v]
      /\ call'[w].doc = doc
  <2>1. faults' \in [FaultKinds -> Nat]
    BY DEF GoesOn
  <2>2. /\ FileTyping' /\ Shown' = Shown
        /\ \A i \in Inodes : disk'[i] \in {disk[i], Empty}
        /\ \A v \in Writers : v # w => call'[v] = call[v]
        /\ call'[w] = [at |-> "write", doc |-> doc, file |-> tmp']
    BY <2>1, CallsDoes DEF Inv
  <2>3. call'[w].doc = doc
    BY <2>2
  <2> QED  BY <2>2, <2>3
<1>2. Callers'
  <2>1. ~ alive' => \A v \in Writers \ {"stop"} : call'[v].at = "idle"
    BY <1>1, Zenon DEF Inv, Callers
  <2> QED  BY <2>1 DEF Callers
<1>3. AllHonest'
  <2>1. \A d : Honest(d) => Honest(d)'
    BY StaysHonest DEF Inv
  <2>2. Honest(host.doc)'
    BY <2>1 DEF Inv, AllHonest
  <2>3. \A i \in Inodes : Honest(disk[i])'
    BY <1>1, <2>1, EmptyIsHonest DEF Inv, AllHonest
  <2>4. \A v \in Writers : Honest(call[v].doc)'
    <3> SUFFICES ASSUME NEW v \in Writers PROVE Honest(call[v].doc)'
      OBVIOUS
    <3>1. CASE v = w
      BY <1>1, <3>1
    <3>2. CASE v # w
      BY <1>1, <2>1, <3>2 DEF Inv, AllHonest
    <3> QED  BY <3>1, <3>2
  <2> QED  BY <2>2, <2>3, <2>4 DEF AllHonest
<1>4. Verdicts'
  <2>1. host'.doc \in {host.doc, Shown}
    OBVIOUS
  <2> QED  BY <1>1, <2>1, VerdictsStay
<1> QED  BY <1>1, <1>2, <1>3, <1>4 DEF Inv

\* Which documents are honest when.
LEMMA HonestDocs ==
  /\ Honest(Doc("active", "running", 0))' /\ Honest(Doc("active", "", 0))'
  /\ Succeeded' => Honest(Doc("completed", "completed", 0))'
  /\ \A c : JobExited' /\ code' = c /\ main'.at \in Closing => Honest(Doc("failed", "failed", c))'
  /\ main'.at = "failing" => Honest(FailDoc)'
  /\ faults'["stop"] > 0 => Honest(Doc("failed", "failed", 130))'
<1>1. Honest(Doc("active", "running", 0))' /\ Honest(Doc("active", "", 0))'
  BY DEF Honest, Doc
<1>2. Succeeded' => Honest(Doc("completed", "completed", 0))'
  <2>1. Doc("completed", "completed", 0).rc = 0
    BY DEF Doc
  <2> QED  BY <2>1, Zenon DEF Honest
<1>3. ASSUME NEW c, JobExited', code' = c, main'.at \in Closing PROVE Honest(Doc("failed", "failed", c))'
  <2>1. /\ Doc("failed", "failed", c).rc = c
        /\ "completed" \notin {Doc("failed", "failed", c).phase, Doc("failed", "failed", c).status}
    BY DEF Doc
  <2> QED  BY <1>3, <2>1, Zenon DEF Honest, Closing, OverPlaces
<1>4. main'.at = "failing" => Honest(FailDoc)'
  BY DEF Honest, Doc, FailDoc, OverPlaces
<1>5. faults'["stop"] > 0 => Honest(Doc("failed", "failed", 130))'
  BY DEF Honest, Doc
<1> QED  BY <1>1, <1>2, <1>3, <1>4, <1>5

\* A note on the way to the end.
LEMMA RunningDocIs ==
  ASSUME NEW first, NEW d, d = RunningDoc(first)  PROVE d \in Docs /\ Honest(d)'
<1>1. d = Doc("active", "running", 0) \/ d = Doc("active", "", 0)
  BY DEF RunningDoc
<1>2. d \in Docs
  BY <1>1, Zenon DEF Docs
<1>3. Honest(d)'
  BY <1>1, HonestDocs
<1> QED  BY <1>2, <1>3

\* The end, of a job that has exited.
LEMMA EndDocIs ==
  ASSUME JobExited, job' = job, code' = code, code \in {0} \cup ExitCodes, main'.at \in Closing,
         NEW d, d = EndDoc
  PROVE  d \in Docs /\ Honest(d)'
<1>1. CASE code = 0
  <2>1. d = Doc("completed", "completed", 0)
    BY <1>1 DEF EndDoc
  <2>2. d \in Docs
    BY <2>1, Zenon DEF Docs
  <2>3. Succeeded'
    BY <1>1 DEF Succeeded, JobExited
  <2> QED  BY <2>1, <2>2, <2>3, HonestDocs
<1>2. CASE code # 0
  <2>1. PICK c \in ExitCodes \ {0} : c = code /\ d = Doc("failed", "failed", c)
    BY <1>2 DEF EndDoc
  <2>2. d \in Docs
    BY <2>1, Zenon DEF Docs
  <2>3. JobExited' /\ code' = c
    BY <2>1 DEF JobExited
  <2>4. Honest(Doc("failed", "failed", c))'
    BY <2>3, HonestDocs
  <2> QED  BY <2>1, <2>2, <2>4
<1> QED  BY <1>1, <1>2

\* The failure of a launch.
LEMMA FailDocIs ==
  ASSUME main'.at = "failing", NEW d, d = FailDoc  PROVE d \in Docs /\ Honest(d)'
<1>1. d \in Docs
  BY Zenon DEF Docs
<1> QED  BY <1>1, HonestDocs

LEMMA MainWritesKeeps ==
  ASSUME Inv, alive, MainWrites, UNCHANGED <<host, verdict>>
  PROVE  Inv'
<1> PICK doc : doc = NoteOf[main.at]
  OBVIOUS
<1>1. /\ main.at \in {"note", "publish", "end", "fail"}
      /\ Calls("main", doc) /\ Goto(Writing[main.at])
      /\ UNCHANGED <<modeVars, threadVars, recordVars, alive, counters>>
  BY DEF MainWrites, Writing
<1>2. /\ main.at = "note" => Writing[main.at] = "noting" /\ doc = RunningDoc(main.stage = 1)
      /\ main.at = "publish" => Writing[main.at] = "publishing" /\ doc = RunningDoc(FALSE)
      /\ main.at = "end" => Writing[main.at] = "ending" /\ doc = EndDoc
      /\ main.at = "fail" => Writing[main.at] = "failing" /\ doc = FailDoc
  <2>1. CASE main.at = "note"
    BY <2>1 DEF Writing, NoteOf
  <2>2. CASE main.at = "publish"
    BY <2>2 DEF Writing, NoteOf
  <2>3. CASE main.at = "end"
    BY <2>3 DEF Writing, NoteOf
  <2>4. CASE main.at = "fail"
    BY <2>4 DEF Writing, NoteOf
  <2> QED  BY <1>1, <2>1, <2>2, <2>3, <2>4
<1>3. /\ main' = [at |-> main'.at, stage |-> main'.stage, broken |-> main'.broken, late |-> main'.late]
      /\ main'.at = Writing[main.at] /\ main'.broken = main.broken /\ main'.broken \in BOOLEAN
      /\ main'.late = main.late /\ main'.late \in BOOLEAN
      /\ main'.stage = main.stage /\ main'.stage \in DOMAIN Stages /\ main'.stage >= main.stage
  <2>1. Writing[main.at] \in Places
    BY <1>1, <1>2 DEF Places, Calling
  <2> QED  BY <1>1, <2>1, Goes DEF Inv
<1>4. main'.at \in Calling
  BY <1>1, <1>2, <1>3 DEF Calling
<1>5. "main" \in Writers /\ "reader" \in Writers /\ "heartbeat" \in Writers /\ "stop" \in Writers
  BY SixFiles
<1>6. call["main"].at = "idle"
  BY <1>1 DEF Inv, Callers, Calling
<1>7. UNCHANGED <<mode, ingest, job, code, reader, heartbeat, shipping, statusFile, faults>>
      /\ Stages' = Stages /\ (Supervised' <=> Supervised)
  BY <1>1 DEF modeVars, threadVars, recordVars, counters, Stages, Supervised
<1>8. faults' \in [FaultKinds -> Nat] /\ \A k \in FaultKinds : faults'[k] >= faults[k]
  BY <1>7, FaultsKept DEF Inv
<1>9. GoesOn
  BY <1>1, <1>2, <1>3, <1>7, <1>8 DEF GoesOn, RunOver, OverPlaces, Closing, OnTime
<1>10. doc \in Docs /\ Honest(doc)'
  <2>1. CASE main.at \in {"note", "publish"}
    BY <1>2, <2>1, RunningDocIs
  <2>2. CASE main.at = "end"
    <3>1. JobExited /\ job' = job /\ code' = code /\ doc = EndDoc /\ code \in {0} \cup ExitCodes
      BY <1>2, <1>7, <2>2 DEF Inv, Course, LaunchTyping
    <3>2. main'.at \in Closing
      BY <1>2, <1>3, <2>2 DEF Closing
    <3> QED  BY <3>1, <3>2, EndDocIs
  <2>3. CASE main.at = "fail"
    <3>1. main'.at = "failing" /\ doc = FailDoc
      BY <1>2, <1>3, <2>3
    <3> QED  BY <3>1, FailDocIs
  <2> QED  BY <1>1, <2>1, <2>2, <2>3
<1>11. /\ Shown' = Shown /\ tmp' # NoFile /\ disk'[tmp'] = Empty
       /\ \A v \in Writers : v # "main" => call'[v] = call[v]
       /\ call'["main"] = [at |-> "write", doc |-> doc, file |-> tmp']
  BY <1>1, <1>5, <1>6, <1>8, <1>10, CallsDoes DEF Inv
<1>12. LaunchTyping'
  <2>1. DOMAIN Stages \subseteq Nat \ {0}
    BY StagesAre
  <2>2. main'.stage \in Nat
    BY <1>3, <2>1
  <2>3. main' \in [at : Places, stage : Nat, broken : BOOLEAN, late : BOOLEAN]
    BY <1>3, <1>4, <2>2 DEF Places
  <2> QED  BY <1>3, <1>7, <2>3 DEF Inv, LaunchTyping
<1>13. Course'
  BY <1>1, <1>2, <1>3, <1>7 DEF Inv, Course, JobExited, OnTime
<1>14. Signs'
  BY <1>1, <1>3, <1>4, <1>7 DEF Inv, Signs, RunOver, Calling, JobExited
<1>15. Recording'
  <2>1. Owned'
    BY <1>5, <1>11 DEF Owned
  <2>2. WritesAlone'
    <3>1. main.at = "end" => EndDoc' = EndDoc
      BY <1>7 DEF EndDoc
    <3>2. FailDoc' = FailDoc
      BY DEF FailDoc
    <3>3. Concludes' => doc = Conclusion'
      BY <1>1, <1>2, <1>3, <3>1, <3>2 DEF Concludes, Conclusion
    <3> QED  BY <1>11, <3>3 DEF WritesAlone
  <2>3. main'.at \notin EndPlaces
    BY <1>4 DEF Calling, EndPlaces
  <2> QED  BY <2>1, <2>2, <2>3 DEF Recording, EndPlaces
<1>16. /\ reader' # "publishing" => call'["reader"].at = "idle"
       /\ heartbeat' # "publishing" => call'["heartbeat"].at = "idle"
       /\ faults'["stop"] = 0 => call'["stop"].at = "idle"
  BY <1>5, <1>7, <1>11 DEF Inv, Callers
<1> QED  BY <1>1, <1>4, <1>5, <1>6, <1>9, <1>10, <1>12, <1>13, <1>14, <1>15, <1>16, CallKeeps

\* A thread beside the main one publishes only while the job is waited for.
LEMMA ThreadPublishes ==
  ASSUME Inv, alive, alive' = alive, UNCHANGED <<main, job, code, modeVars, recordVars, faults, host, verdict>>,
         NEW w \in {"reader", "heartbeat"}, call[w].at = "idle", Calls(w, RunningDoc(FALSE)),
         \/ w = "reader" /\ reader = "reading" /\ reader' = "publishing" /\ heartbeat' = heartbeat
         \/ w = "heartbeat" /\ heartbeat = "beating" /\ heartbeat' = "publishing" /\ reader' = reader
  PROVE  Inv'
<1> PICK doc : doc = RunningDoc(FALSE)
  OBVIOUS
<1>1. w \in Writers /\ "main" \in Writers /\ "reader" \in Writers /\ "heartbeat" \in Writers
      /\ "stop" \in Writers /\ w # "main" /\ w # "stop"
  BY SixFiles
<1>2. doc \in Docs /\ Honest(doc)' /\ Calls(w, doc)
  BY RunningDocIs
<1>3. /\ main.at \notin {"note", "noting", "work"}
      /\ OnTime => main.at \in {"wait", "join"}
  BY DEF Inv, Course
<1>4. mode' = mode /\ Stages' = Stages /\ (Supervised' <=> Supervised)
  BY DEF modeVars, Stages, Supervised
<1>5. faults' \in [FaultKinds -> Nat] /\ \A k \in FaultKinds : faults'[k] >= faults[k]
  BY FaultsKept DEF Inv
<1>6. GoesOn
  BY <1>4, <1>5 DEF GoesOn, RunOver, OnTime
<1>7. /\ tmp' # NoFile
      /\ \A v \in Writers : v # w => call'[v] = call[v]
      /\ call'[w] = [at |-> "write", doc |-> doc, file |-> tmp']
  BY <1>1, <1>2, <1>5, CallsDoes DEF Inv
<1>8. LaunchTyping'
  BY <1>4 DEF Inv, LaunchTyping, recordVars
<1>9. Course'
  BY <1>3 DEF Inv, Course, JobExited, OnTime
<1>10. Signs'
  <2>1. RunOver' <=> RunOver
    BY DEF RunOver
  <2> QED  BY <1>4, <2>1 DEF Inv, Signs, recordVars, JobExited
<1>11. Recording'
  <2> SUFFICES ASSUME Undisturbed' PROVE Recording'
    BY DEF Recording
  <2>1. main'.at \in {"wait", "join"}
    BY <1>3 DEF Undisturbed, OnTime
  <2>2. Owned'
    BY <1>1, <1>7 DEF Owned
  <2>3. WritesAlone'
    BY <2>1 DEF WritesAlone, Calling
  <2> QED  BY <2>1, <2>2, <2>3 DEF Recording
<1>12. /\ call'["main"].at # "idle" => main'.at \in Calling
       /\ reader' # "publishing" => call'["reader"].at = "idle"
       /\ heartbeat' # "publishing" => call'["heartbeat"].at = "idle"
       /\ faults'["stop"] = 0 => call'["stop"].at = "idle"
  BY <1>1, <1>7 DEF Inv, Callers
<1> QED  BY <1>1, <1>2, <1>6, <1>8, <1>9, <1>10, <1>11, <1>12, CallKeeps

LEMMA PublishesKeeps ==
  ASSUME Inv, alive, ReaderPublishes \/ HeartbeatPublishes, UNCHANGED <<host, verdict>>
  PROVE  Inv'
<1>1. CASE ReaderPublishes
  <2>1. /\ UNCHANGED <<main, job, code, modeVars, recordVars, faults, host, verdict, alive, heartbeat>>
        /\ call["reader"].at = "idle" /\ Calls("reader", RunningDoc(FALSE))
        /\ reader = "reading" /\ reader' = "publishing"
    BY <1>1 DEF ReaderPublishes
  <2>2. "reader" \in {"reader", "heartbeat"}
    OBVIOUS
  <2> QED  BY <2>1, <2>2, ThreadPublishes
<1>2. CASE HeartbeatPublishes
  <2>1. /\ UNCHANGED <<main, job, code, modeVars, recordVars, faults, host, verdict, alive, reader>>
        /\ Calls("heartbeat", RunningDoc(FALSE))
        /\ heartbeat = "beating" /\ heartbeat' = "publishing"
    BY <1>2 DEF HeartbeatPublishes
  <2>2. call["heartbeat"].at = "idle"
    BY <2>1 DEF Inv, Callers
  <2>3. "heartbeat" \in {"reader", "heartbeat"}
    OBVIOUS
  <2> QED  BY <2>1, <2>2, <2>3, ThreadPublishes
<1> QED  BY <1>1, <1>2

LEMMA StopKeeps ==
  ASSUME Inv, Stop, UNCHANGED <<host, verdict>>
  PROVE  Inv'
<1> PICK doc : doc = Doc("failed", "failed", 130)
  OBVIOUS
<1>1. /\ UNCHANGED <<modeVars, main, threadVars, recordVars, alive>> /\ Fault("stop")
      /\ call["stop"].at = "idle" /\ Calls("stop", doc)
  BY DEF Stop
<1>2. "main" \in Writers /\ "reader" \in Writers /\ "heartbeat" \in Writers /\ "stop" \in Writers
  BY SixFiles
<1>3. /\ faults' \in [FaultKinds -> Nat] /\ faults'["stop"] > 0
      /\ \A k \in FaultKinds : faults'[k] >= faults[k]
  <2>1. "stop" \in FaultKinds
    BY DEF FaultKinds
  <2> QED  BY <1>1, <2>1, FaultCounts DEF Inv
<1>4. doc \in Docs /\ Honest(doc)'
  <2>1. doc \in Docs
    BY Zenon DEF Docs
  <2> QED  BY <1>3, <2>1, HonestDocs
<1>5. mode' = mode /\ Stages' = Stages /\ (Supervised' <=> Supervised)
      /\ UNCHANGED <<job, code, reader, heartbeat, shipping, statusFile>>
  BY <1>1 DEF modeVars, Stages, Supervised, threadVars, recordVars
<1>6. GoesOn
  BY <1>1, <1>3, <1>5 DEF GoesOn, RunOver, OnTime
<1>7. \A v \in Writers : v # "stop" => call'[v] = call[v]
  BY <1>1, <1>2, <1>3, <1>4, CallsDoes DEF Inv
<1>8. LaunchTyping'
  BY <1>1, <1>5 DEF Inv, LaunchTyping
<1>9. (faults["break"] > 0 => faults'["break"] > 0) /\ (faults["network"] > 0 => faults'["network"] > 0)
  BY <1>6, FaultsGrow DEF Inv
<1>10. Course'
  BY <1>1, <1>5, <1>9 DEF Inv, Course, JobExited, OnTime
<1>11. Signs'
  <2>1. RunOver' <=> RunOver
    BY <1>1 DEF RunOver
  <2> QED  BY <1>1, <1>5, <1>9, <2>1 DEF Inv, Signs, JobExited
<1>12. faults'["stop"] # 0
  <2>1. faults'["stop"] \in Nat
    BY <1>3 DEF FaultKinds
  <2> QED  BY <1>3, <2>1
<1>13. Recording'
  BY <1>12 DEF Recording, Undisturbed
<1>14. /\ call'["main"].at # "idle" => main'.at \in Calling
       /\ reader' # "publishing" => call'["reader"].at = "idle"
       /\ heartbeat' # "publishing" => call'["heartbeat"].at = "idle"
       /\ faults'["stop"] = 0 => call'["stop"].at = "idle"
  BY <1>1, <1>2, <1>5, <1>7, <1>12 DEF Inv, Callers
<1> QED  BY <1>1, <1>2, <1>4, <1>6, <1>8, <1>10, <1>11, <1>13, <1>14, CallKeeps
-----------------------------------------------------------------------------
(* The steps of a call, and the end of the process *)

\* With nobody else about, the main thread writes alone, and past its places
\* of writing nobody does.
LEMMA WhoWrites ==
  ASSUME Inv, Undisturbed, NEW w \in Writers, call[w].at # "idle"
  PROVE  /\ main.at \in Calling => w = "main"
         /\ main.at \notin EndPlaces
<1>1. call["stop"].at = "idle"
  BY DEF Inv, Callers, Undisturbed
<1>2. main.at \in Calling \cup EndPlaces => call["reader"].at = "idle" /\ call["heartbeat"].at = "idle"
  <2>1. main.at \in Calling \cup EndPlaces
           => {reader, heartbeat} \subseteq {"none", "ended", "dead"}
    BY DEF Inv, Course, Undisturbed, Calling, EndPlaces
  <2> QED  BY <2>1 DEF Inv, Callers
<1>3. main.at \in EndPlaces => call["main"].at = "idle"
  BY DEF Inv, Callers, Calling, EndPlaces
<1> QED  BY <1>1, <1>2, <1>3, SixFiles

\* Nobody but the failing launch itself writes over its recorded failure.
LEMMA FailureStands ==
  ASSUME Inv, NoFaults, OnTime, NEW w \in Writers, call[w].at # "idle"
  PROVE  /\ ~ RunOver
         /\ Shown = FailDoc => /\ main.at \in {"failing", "ending"} /\ w = "main" /\ alive
                               /\ Conclusion = FailDoc
<1>1. Undisturbed /\ ~ (faults["break"] > 0)
  <2>1. faults["io"] = 0 /\ faults["stop"] = 0 /\ faults["break"] = 0
    BY DEF NoFaults, FaultKinds
  <2> QED  BY <2>1 DEF Undisturbed
<1>2. alive \/ main.at = "over"
  BY <1>1 DEF Inv, Signs
<1>3. ~ RunOver
  BY <1>1, <1>2, WhoWrites DEF RunOver, EndPlaces
<1>4. Shown = FailDoc => main.at \in OverPlaces \/ (main.at \in Closing /\ EndDoc = FailDoc)
  <2>1. Honest(Shown) /\ faults["stop"] = 0
    BY ShownHonest DEF Inv, NoFaults, FaultKinds
  <2>2. Shown = FailDoc => Honest(FailDoc)
    BY <2>1
  <2>3. FailDoc.rc = 2 /\ (code = 2 => EndDoc = FailDoc)
    BY DEF FailDoc, Doc, EndDoc
  <2>4. Honest(FailDoc) => main.at \in OverPlaces \/ (main.at \in Closing /\ EndDoc = FailDoc)
    <3>1. Honest(FailDoc) => \/ code = 2 /\ main.at \in Closing
                             \/ main.at \in OverPlaces
      BY <2>1, <2>3 DEF Honest
    <3> QED  BY <2>3, <3>1
  <2> QED  BY <2>2, <2>4
<1>5. main.at \in Calling => w = "main"
  BY <1>1, WhoWrites
<1>6. main.at \notin EndPlaces
  BY <1>1, WhoWrites
<1>7. w = "main" => main.at \in Calling
  BY DEF Inv, Callers
<1>8. Shown = FailDoc => main.at \in {"failing", "ending", "fail"}
  BY <1>4, <1>6 DEF Closing, OverPlaces, EndPlaces
<1>9. main.at # "fail"
  <2> SUFFICES ASSUME main.at = "fail" PROVE FALSE
    OBVIOUS
  <2>1. {reader, heartbeat} \subseteq {"none", "ended", "dead"}
    BY DEF Inv, Course
  <2>2. /\ call["reader"].at = "idle" /\ call["heartbeat"].at = "idle" /\ call["main"].at = "idle"
        /\ call["stop"].at = "idle"
    BY <1>1, <2>1 DEF Inv, Callers, Calling, Undisturbed
  <2> QED  BY <2>2, SixFiles
<1> QED  BY <1>3, <1>4, <1>5, <1>8, <1>9 DEF OverPlaces, Calling, RunOver, Conclusion

\* A step within a call, and no more.
LEMMA FileKeeps ==
  ASSUME Inv, UNCHANGED <<launchVars, host, verdict>>, FileTyping',
         faults' \in [FaultKinds -> Nat], \A k \in FaultKinds : faults'[k] >= faults[k],
         NEW w \in Writers, call[w].at # "idle",
         \A v \in Writers : v # w => call'[v] = call[v],
         \A i \in Inodes : Honest(disk[i])', Honest(call[w].doc)',
         Recording',
         NoFaults' /\ OnTime' /\ Shown = FailDoc => Shown' = FailDoc
  PROVE  Inv'
<1>1. /\ UNCHANGED <<mode, main, job, code, reader, heartbeat, shipping, statusFile, alive>>
      /\ Stages' = Stages /\ (Supervised' <=> Supervised) /\ (RunOver' <=> RunOver)
  BY DEF launchVars, Stages, Supervised, RunOver
<1>2. GoesOn
  BY <1>1 DEF GoesOn, OnTime
<1>3. /\ faults'["stop"] = 0 => faults["stop"] = 0
      /\ faults["break"] > 0 => faults'["break"] > 0
      /\ faults["network"] > 0 => faults'["network"] > 0
  BY <1>2, FaultsGrow DEF Inv
<1>4. LaunchTyping'
  BY <1>1 DEF Inv, LaunchTyping
<1>5. Callers'
  <2>1. \A v \in Writers : call[v].at = "idle" => call'[v].at = "idle"
    OBVIOUS
  <2> QED  BY <1>1, <1>3, <2>1, SixFiles DEF Inv, Callers
<1>6. Course'
  BY <1>1, <1>3 DEF Inv, Course, JobExited, OnTime
<1>7. AllHonest'
  <2>1. \A d : Honest(d) => Honest(d)'
    BY <1>2, StaysHonest DEF Inv
  <2>2. Honest(host.doc)'
    BY <2>1 DEF Inv, AllHonest
  <2>3. \A v \in Writers : Honest(call[v].doc)'
    <3> SUFFICES ASSUME NEW v \in Writers PROVE Honest(call[v].doc)'
      OBVIOUS
    <3>1. CASE v = w
      BY <3>1
    <3>2. CASE v # w
      BY <2>1, <3>2 DEF Inv, AllHonest
    <3> QED  BY <3>1, <3>2
  <2> QED  BY <2>2, <2>3 DEF AllHonest
<1>8. Signs'
  BY <1>1, <1>3 DEF Inv, Signs, JobExited
<1>9. Verdicts'
  <2>1. NoFaults' /\ OnTime' => ~ RunOver
    BY <1>2, NoFaultsBack, FailureStands DEF Inv, GoesOn
  <2> QED  BY <1>2, <2>1, VerdictsStay
<1> QED  BY <1>4, <1>5, <1>6, <1>7, <1>8, <1>9 DEF Inv

LEMMA IOFailsKeeps ==
  ASSUME Inv, NEW w \in Writers, IOFails(w), UNCHANGED <<launchVars, host, verdict>>
  PROVE  Inv'
<1>1. /\ call[w].at = "write" /\ Fault("io") /\ UNCHANGED <<disk, path, tmp>>
      /\ call' = [call EXCEPT ![w].at = "raised", ![w].file = NoFile]
  BY DEF IOFails
<1>2. /\ faults' \in [FaultKinds -> Nat] /\ faults'["io"] > 0
      /\ \A k \in FaultKinds : faults'[k] >= faults[k]
  <2>1. "io" \in FaultKinds
    BY DEF FaultKinds
  <2> QED  BY <1>1, <2>1, FaultCounts DEF Inv
<1>3. /\ call \in [Writers -> [at : {"idle", "write", "replace", "raised"}, doc : Docs, file : Files]]
      /\ NoFile \in Files
  BY DEF Inv, FileTyping, Files
<1>4. /\ \A v \in Writers : v # w => call'[v] = call[v]
      /\ call'[w].at = "raised" /\ call'[w].doc = call[w].doc /\ call'[w].file = NoFile
      /\ call' \in [Writers -> [at : {"idle", "write", "replace", "raised"}, doc : Docs, file : Files]]
  BY <1>1, <1>3
<1>5. FileTyping'
  BY <1>1, <1>2, <1>4 DEF Inv, FileTyping
<1>6. ~ Undisturbed' /\ ~ NoFaults'
  <2>1. faults'["io"] \in Nat /\ "io" \in FaultKinds
    BY <1>2 DEF FaultKinds
  <2> QED  BY <1>2, <2>1 DEF Undisturbed, NoFaults
<1>7. GoesOn
  BY <1>2 DEF GoesOn, launchVars, RunOver, OnTime
<1>8. (\A i \in Inodes : Honest(disk[i])') /\ Honest(call[w].doc)'
  <2>1. \A d : Honest(d) => Honest(d)'
    BY <1>7, StaysHonest DEF Inv
  <2> QED  BY <1>1, <1>4, <2>1 DEF Inv, AllHonest
<1>9. Recording'
  BY <1>6 DEF Recording
<1>10. call[w].at # "idle"
  BY <1>1
<1> QED  BY <1>2, <1>4, <1>5, <1>6, <1>8, <1>9, <1>10, FileKeeps

LEMMA WriteTmpKeeps ==
  ASSUME Inv, NEW w \in Writers, WriteTmp(w), UNCHANGED <<launchVars, host, verdict>>
  PROVE  Inv'
<1>1. PICK d : /\ d = call[w].doc \/ (d = Torn /\ disk[call[w].file] # Empty)
               /\ disk' = [disk EXCEPT ![call[w].file] = d]
  BY DEF WriteTmp
<1>2. /\ call[w].at = "write" /\ UNCHANGED <<path, tmp, faults>>
      /\ call' = [call EXCEPT ![w].at = "replace", ![w].file = NoFile]
  BY DEF WriteTmp
<1>3. /\ call \in [Writers -> [at : {"idle", "write", "replace", "raised"}, doc : Docs, file : Files]]
      /\ NoFile \in Files /\ call[w].file \in Inodes /\ call[w].doc \in Docs
      /\ disk \in [Inodes -> Docs]
  BY <1>2 DEF Inv, FileTyping, Files
<1>4. /\ \A v \in Writers : v # w => call'[v] = call[v]
      /\ call'[w].at = "replace" /\ call'[w].doc = call[w].doc /\ call'[w].file = NoFile
      /\ call' \in [Writers -> [at : {"idle", "write", "replace", "raised"}, doc : Docs, file : Files]]
  BY <1>2, <1>3
<1>5. d \in Docs /\ disk' \in [Inodes -> Docs]
  <2>1. Torn \in Docs
    BY DEF Docs
  <2> QED  BY <1>1, <1>3, <2>1
<1>6. faults' \in [FaultKinds -> Nat] /\ \A k \in FaultKinds : faults'[k] >= faults[k]
  BY <1>2, FaultsKept DEF Inv
<1>7. FileTyping'
  BY <1>2, <1>4, <1>5, <1>6 DEF Inv, FileTyping
<1>8. GoesOn
  BY <1>6 DEF GoesOn, launchVars, RunOver, OnTime
<1>9. (\A i \in Inodes : Honest(disk[i])') /\ Honest(call[w].doc)'
  <2>1. \A e : Honest(e) => Honest(e)'
    BY <1>8, StaysHonest DEF Inv
  <2>2. Honest(Torn)
    BY DEF Honest, Torn, Doc
  <2>3. Honest(d)' /\ Honest(call[w].doc)'
    BY <1>1, <1>4, <2>1, <2>2 DEF Inv, AllHonest
  <2>4. \A i \in Inodes : disk'[i] = disk[i] \/ disk'[i] = d
    BY <1>1, <1>3
  <2> QED  BY <2>1, <2>3, <2>4 DEF Inv, AllHonest
<1>10. call[w].at # "idle"
  BY <1>2
<1>11. Recording'
  <2> SUFFICES ASSUME Undisturbed' PROVE Recording'
    BY DEF Recording
  <2>1. Undisturbed
    BY <1>2 DEF Undisturbed, OnTime, launchVars
  <2>2. main'.at \notin EndPlaces
    BY <1>10, <2>1, WhoWrites DEF launchVars
  <2>3. Owned'
    BY <1>4 DEF Owned
  <2>4. ASSUME alive' PROVE WritesAlone'
    <3> SUFFICES ASSUME main'.at \in Calling PROVE WritesAlone'
      BY DEF WritesAlone
    <3>1. main' = main /\ job' = job /\ code' = code /\ alive
      BY <2>4 DEF launchVars
    <3>2. w = "main"
      BY <1>10, <2>1, <3>1, WhoWrites
    <3>3. WritesAlone
      BY <2>1, <3>1 DEF Inv, Recording
    <3>4. tmp # NoFile /\ call["main"].file = tmp /\ disk[tmp] = Empty
          /\ (Concludes => call["main"].doc = Conclusion)
      BY <1>2, <3>1, <3>2, <3>3 DEF WritesAlone
    <3>5. d = call["main"].doc
      BY <1>1, <3>2, <3>4
    <3>6. disk'[tmp] = call["main"].doc
      BY <1>1, <1>3, <3>2, <3>4, <3>5
    <3>7. (Concludes' <=> Concludes) /\ Conclusion' = Conclusion
      BY <3>1 DEF Concludes, Conclusion, EndDoc, FailDoc
    <3> QED  BY <1>2, <1>4, <3>2, <3>4, <3>6, <3>7 DEF WritesAlone
  <2> QED  BY <2>2, <2>3, <2>4 DEF Recording, EndPlaces
<1>12. NoFaults' /\ OnTime' /\ Shown = FailDoc => Shown' = FailDoc
  <2> SUFFICES ASSUME NoFaults', OnTime', Shown = FailDoc PROVE Shown' = FailDoc
    OBVIOUS
  <2>1. NoFaults /\ OnTime
    BY <1>8, NoFaultsBack DEF Inv, GoesOn
  <2>2. main.at \in {"failing", "ending"} /\ w = "main" /\ alive
    BY <1>10, <2>1, FailureStands
  <2>3. Undisturbed
    BY <2>1 DEF NoFaults, Undisturbed, FaultKinds
  <2>4. tmp # NoFile /\ call[w].file = tmp
    BY <1>2, <2>2, <2>3 DEF Inv, Recording, WritesAlone, Calling
  <2>5. Shown' = Shown
    BY <1>1, <1>2, <1>3, <2>4 DEF Inv, FileTyping, Shown, Files
  <2> QED  BY <2>5
<1> QED  BY <1>4, <1>6, <1>7, <1>9, <1>10, <1>11, <1>12, FileKeeps

LEMMA ReplaceKeeps ==
  ASSUME Inv, NEW w \in Writers, Replace(w), UNCHANGED <<launchVars, host, verdict>>
  PROVE  Inv'
<1>1. call[w].at = "replace" /\ faults' = faults
  BY DEF Replace
<1>2. \/ /\ tmp = NoFile /\ UNCHANGED <<disk, path, tmp>>
         /\ call' = [call EXCEPT ![w].at = "raised"]
      \/ /\ tmp # NoFile /\ path' = tmp /\ tmp' = NoFile /\ disk' = Unlinked(path)
         /\ call' = [call EXCEPT ![w] = Idle]
  BY DEF Replace, Forgets
<1>3. /\ call \in [Writers -> [at : {"idle", "write", "replace", "raised"}, doc : Docs, file : Files]]
      /\ NoFile \in Files /\ call[w].file = NoFile /\ call[w].doc \in Docs
      /\ disk \in [Inodes -> Docs] /\ tmp \in Files /\ path \in Files
      /\ tmp # NoFile => tmp # path /\ tmp \in Inodes
  BY <1>1 DEF Inv, FileTyping, Files
<1>4. Empty \in Docs /\ Idle \in [at : {"idle", "write", "replace", "raised"}, doc : Docs, file : Files]
      /\ Idle.at = "idle" /\ Idle.file = NoFile /\ Idle.doc = Empty
  <2>1. Empty \in Docs
    BY DEF Docs
  <2> QED  BY <1>3, <2>1 DEF Idle
<1>5. /\ \A v \in Writers : v # w => call'[v] = call[v]
      /\ call'[w].file = NoFile
      /\ call' \in [Writers -> [at : {"idle", "write", "replace", "raised"}, doc : Docs, file : Files]]
      /\ tmp = NoFile => call'[w].at = "raised" /\ call'[w].doc = call[w].doc
      /\ tmp # NoFile => call'[w].at = "idle" /\ call'[w].doc = Empty
  <2> HIDE DEF Idle
  <2>1. CASE call' = [call EXCEPT ![w].at = "raised"] /\ tmp = NoFile
    BY <1>3, <2>1
  <2>2. CASE call' = [call EXCEPT ![w] = Idle] /\ tmp # NoFile
    BY <1>3, <1>4, <2>2
  <2> QED  BY <1>2, <2>1, <2>2
<1>6. /\ disk' \in [Inodes -> Docs]
      /\ \A i \in Inodes : disk'[i] \in {disk[i], Empty} /\ (i # path => disk'[i] = disk[i])
  <2>1. CASE disk' = disk
    BY <1>3, <2>1
  <2>2. CASE disk' = [disk EXCEPT ![path] = Empty]
    BY <1>3, <1>4, <2>2
  <2> QED  BY <1>2, <2>1, <2>2 DEF Unlinked
<1>7. faults' \in [FaultKinds -> Nat] /\ \A k \in FaultKinds : faults'[k] >= faults[k]
  BY <1>1, FaultsKept DEF Inv
<1>8. FileTyping'
  BY <1>2, <1>3, <1>5, <1>6, <1>7 DEF Inv, FileTyping, Files
<1>9. GoesOn
  BY <1>7 DEF GoesOn, launchVars, RunOver, OnTime
<1>10. (\A i \in Inodes : Honest(disk[i])') /\ Honest(call[w].doc)'
  <2>1. \A e : Honest(e) => Honest(e)'
    BY <1>9, StaysHonest DEF Inv
  <2> QED  BY <1>5, <1>6, <2>1, EmptyIsHonest DEF Inv, AllHonest
<1>11. call[w].at # "idle"
  BY <1>1
<1>12. ASSUME Undisturbed, main.at \in Calling, alive
       PROVE  /\ w = "main" /\ tmp # NoFile /\ Shown' = call["main"].doc
              /\ Concludes => Shown' = Conclusion
  <2>1. w = "main"
    BY <1>11, <1>12, WhoWrites
  <2>2. WritesAlone
    BY <1>12 DEF Inv, Recording
  <2>3. tmp # NoFile /\ disk[tmp] = call["main"].doc /\ (Concludes => call["main"].doc = Conclusion)
    BY <1>1, <1>12, <2>1, <2>2 DEF WritesAlone
  <2>4. path' = tmp /\ disk'[tmp] = disk[tmp]
    BY <1>2, <1>3, <1>6, <2>3
  <2> QED  BY <2>1, <2>3, <2>4 DEF Shown
<1>13. Recording'
  <2> SUFFICES ASSUME Undisturbed' PROVE Recording'
    BY DEF Recording
  <2>1. Undisturbed
    BY <1>1 DEF Undisturbed, OnTime, launchVars
  <2>2. main'.at \notin EndPlaces
    BY <1>11, <2>1, WhoWrites DEF launchVars
  <2>3. Owned'
    BY <1>2 DEF Owned
  <2>4. ASSUME alive' PROVE WritesAlone'
    <3> SUFFICES ASSUME main'.at \in Calling PROVE WritesAlone'
      BY DEF WritesAlone
    <3>1. main' = main /\ job' = job /\ code' = code /\ alive
      BY <2>4 DEF launchVars
    <3>2. w = "main" /\ tmp # NoFile /\ (Concludes => Shown' = Conclusion)
      BY <1>12, <2>1, <3>1
    <3>3. call'["main"].at = "idle"
      BY <1>5, <3>2
    <3>4. (Concludes' <=> Concludes) /\ Conclusion' = Conclusion
      BY <3>1 DEF Concludes, Conclusion, EndDoc, FailDoc
    <3> QED  BY <3>2, <3>3, <3>4 DEF WritesAlone
  <2> QED  BY <2>2, <2>3, <2>4 DEF Recording, EndPlaces
<1>14. NoFaults' /\ OnTime' /\ Shown = FailDoc => Shown' = FailDoc
  <2> SUFFICES ASSUME NoFaults', OnTime', Shown = FailDoc PROVE Shown' = FailDoc
    OBVIOUS
  <2>1. NoFaults /\ OnTime
    BY <1>9, NoFaultsBack DEF Inv, GoesOn
  <2>2. Conclusion = FailDoc /\ main.at \in {"failing", "ending"} /\ w = "main" /\ alive
    BY <1>11, <2>1, FailureStands
  <2>3. Undisturbed
    BY <2>1 DEF NoFaults, Undisturbed, FaultKinds
  <2> QED  BY <1>12, <2>2, <2>3 DEF Calling, Concludes
<1> QED  BY <1>5, <1>7, <1>8, <1>10, <1>11, <1>13, <1>14, FileKeeps

LEMMA WriteStepKeeps ==
  ASSUME Inv, WriteStep, UNCHANGED <<host, verdict>>
  PROVE  Inv'
<1>1. PICK w \in Writers : WriterStep(w)
  BY DEF WriteStep
<1>2. UNCHANGED <<launchVars, host, verdict>>
  BY DEF WriteStep
<1> QED  BY <1>1, <1>2, WriteTmpKeeps, ReplaceKeeps, IOFailsKeeps DEF WriterStep

LEMMA DiesKeeps ==
  ASSUME Inv, Dies, UNCHANGED <<host, verdict>>
  PROVE  Inv'
<1>1. /\ ~ alive' /\ ~ shipping' /\ UNCHANGED <<diskVars, modeVars, main, threadVars, statusFile>>
      /\ faults' = faults \/ Fault("break")
      /\ main.at # "over" => Fault("break")
      /\ call' = [w \in Writers |-> IF w = "stop" THEN call[w] ELSE Idle]
  BY DEF Dies
<1>2. /\ faults' \in [FaultKinds -> Nat] /\ (main.at # "over" => faults'["break"] > 0)
      /\ \A k \in FaultKinds : faults'[k] >= faults[k]
  <2>1. "break" \in FaultKinds
    BY DEF FaultKinds
  <2> QED  BY <1>1, <2>1, FaultCounts, FaultsKept DEF Inv
<1>3. UNCHANGED <<mode, disk, path, tmp, job, code, reader, heartbeat>> /\ Stages' = Stages
      /\ Shown' = Shown /\ (Supervised' <=> Supervised) /\ RunOver'
  BY <1>1 DEF diskVars, modeVars, threadVars, Stages, Shown, Supervised, RunOver
<1>4. GoesOn
  BY <1>1, <1>2, <1>3 DEF GoesOn, OnTime
<1>5. /\ faults'["stop"] = 0 => faults["stop"] = 0
      /\ faults["break"] > 0 => faults'["break"] > 0
      /\ faults["network"] > 0 => faults'["network"] > 0
  BY <1>4, FaultsGrow DEF Inv
<1>6. /\ \A v \in Writers : call'[v] = call[v] \/ (v # "stop" /\ call'[v] = Idle)
      /\ \A v \in Writers \ {"stop"} : call'[v] = Idle
  BY <1>1
<1>7. Idle.at = "idle" /\ Idle.doc = Empty
  BY DEF Idle
<1>8. FileTyping'
  <2>1. Empty \in Docs /\ NoFile \in Files
    BY DEF Docs, Files
  <2>2. /\ Idle \in [at : {"idle", "write", "replace", "raised"}, doc : Docs, file : Files]
        /\ Idle.file = NoFile
    BY <2>1 DEF Idle
  <2> HIDE DEF Idle
  <2>3. call' \in [Writers -> [at : {"idle", "write", "replace", "raised"}, doc : Docs, file : Files]]
    BY <1>1, <2>2 DEF Inv, FileTyping
  <2> QED  BY <1>2, <1>3, <1>6, <1>7, <2>2, <2>3 DEF Inv, FileTyping
<1>9. LaunchTyping'
  BY <1>1, <1>3 DEF Inv, LaunchTyping
<1>10. Callers'
  BY <1>3, <1>5, <1>6, <1>7, SixFiles DEF Inv, Callers
<1>11. Course'
  BY <1>1, <1>3, <1>5 DEF Inv, Course, JobExited, OnTime
<1>12. AllHonest'
  <2>1. \A d : Honest(d) => Honest(d)'
    BY <1>4, StaysHonest DEF Inv
  <2> QED  BY <1>3, <1>6, <1>7, <2>1, EmptyIsHonest DEF Inv, AllHonest
<1>13. Recording'
  <2> SUFFICES ASSUME Undisturbed' PROVE Recording'
    BY DEF Recording
  <2>1. Undisturbed
    BY <1>4, NoFaultsBack DEF Inv
  <2>2. Entitled' => Entitled
    BY <1>1, <1>3 DEF Entitled
  <2>3. EndShown => EndShown'
    BY <1>3 DEF EndShown, JobExited, EndDoc, FailDoc
  <2> QED  BY <1>1, <2>1, <2>2, <2>3 DEF Inv, Recording, Entitled, EndPlaces
<1>14. Signs'
  <2>1. Signs
    BY DEF Inv
  <2>2. (statusFile' \in {"done", "error"} => main'.at \in {"drain", "over"})
        /\ (alive' \/ main'.at = "over" \/ faults'["break"] > 0)
    BY <1>1, <1>2, <2>1 DEF Signs
  <2>3. Supervised' /\ main'.stage = 1 => ~ shipping'
    BY <1>1, Zenon
  <2>4. (host'.seen = "fresh" => shipping' \/ RunOver') /\ (RunOver' => ~ shipping')
    BY <1>1, <1>3, Zenon
  <2>5. host'.seen = "silent" => RunOver' \/ faults'["network"] > 0
    BY <1>3, Zenon
  <2>6. statusFile' = "done" => JobExited'
    BY <1>1, <1>3, <2>1 DEF Signs, JobExited
  <2> QED  BY <2>2, <2>3, <2>4, <2>5, <2>6 DEF Signs
<1>15. Verdicts'
  BY <1>3, <1>4, VerdictsStay
<1> QED  BY <1>8, <1>9, <1>10, <1>11, <1>12, <1>13, <1>14, <1>15 DEF Inv
-----------------------------------------------------------------------------
(* The main thread comes back from its call *)

LEMMA BootIsFirst ==
  ASSUME NEW s \in DOMAIN Stages
  PROVE  /\ Stages[s] = "boot" => Supervised /\ s = 1
         /\ Supervised /\ s = 1 => Stages[s] = "boot"
<1>1. CASE Supervised
  BY <1>1 DEF Stages
<1>2. CASE ~ Supervised
  BY <1>2 DEF Stages
<1> QED  BY <1>1, <1>2

\* Where the main thread may come to from its four calls.
LEMMA WhereNext ==
  ASSUME NEW at \in Calling, NEW next \in {After(at), AfterError(at)}
  PROVE  /\ next \in {"wait", "work", "interrupted", "end", "endfile", "failfile", "drain", "fail", "over"}
         /\ next \in {"wait", "work"} => at = "noting"
         /\ next = "interrupted" => at = "publishing" /\ main.broken
         /\ next = "end" => at = "publishing" /\ ~ main.broken
         /\ next = "endfile" => at = "ending"
         /\ next \in {"failfile", "drain"} => at \in {"ending", "failing"}
         /\ next \in {"fail", "over"} => at # "failing" /\ next # After(at)
         /\ next = "over" => Stage = "boot"
         /\ at = "failing" => next \in {"failfile", "drain"}
<1>1. /\ at = "noting" => After(at) \in {"wait", "work"}
      /\ at = "publishing" => After(at) = IF main.broken THEN "interrupted" ELSE "end"
      /\ at = "ending" => After(at) \in {"endfile", "drain"}
      /\ at = "failing" => After(at) \in {"failfile", "drain"}
  BY DEF After, Calling
<1>2. AfterError(at) = After(at) \/ (at # "failing" /\ AfterError(at) \in {"over", "fail"}
                                   /\ (AfterError(at) = "over" => Stage = "boot"))
  BY DEF AfterError
<1>3. CASE next = After(at)
  BY <1>1, <1>3 DEF Calling
<1>4. CASE next # After(at)
  BY <1>1, <1>2, <1>4 DEF Calling
<1> QED  BY <1>3, <1>4

LEMMA MainResumesKeeps ==
  ASSUME Inv, alive, MainResumes, UNCHANGED <<host, verdict>>
  PROVE  Inv'
<1> PICK next : next = IF Returned("main") THEN After(main.at) ELSE AfterError(main.at)
  OBVIOUS
<1>1. /\ main.at \in Calling /\ (Returned("main") \/ Raised("main")) /\ Forgets("main")
      /\ main' = [main EXCEPT !.at = next]
      /\ statusFile' = IF next = "work" /\ Stage = "boot" THEN "run id" ELSE statusFile
      /\ shipping' = (shipping \/ (ingest /\ next = "work" /\ Stage = "starting"))
      /\ IF next = "wait" THEN /\ job' = "running" /\ reader' = "reading" /\ heartbeat' = "beating"
                              /\ UNCHANGED code
                          ELSE UNCHANGED <<threadVars>>
      /\ UNCHANGED <<diskVars, modeVars, parent, alive, counters>>
  BY DEF MainResumes, Calling
<1>2. /\ next \in {"wait", "work", "interrupted", "end", "endfile", "failfile", "drain", "fail", "over"}
      /\ next \in {"wait", "work"} => main.at = "noting"
      /\ next = "interrupted" => main.at = "publishing" /\ main.broken
      /\ next = "end" => main.at = "publishing" /\ ~ main.broken
      /\ next = "endfile" => main.at = "ending"
      /\ next \in {"failfile", "drain"} => main.at \in {"ending", "failing"}
      /\ next \in {"fail", "over"} => main.at # "failing" /\ ~ Returned("main")
      /\ next = "over" => Stage = "boot"
      /\ main.at = "failing" => next \in {"failfile", "drain"}
  <2>1. next \in {After(main.at), AfterError(main.at)}
    OBVIOUS
  <2>2. Returned("main") => next = After(main.at)
    OBVIOUS
  <2>3. \A at : at = main.at /\ at \in Calling /\ next \in {After(at), AfterError(at)} =>
          /\ next \in {"wait", "work", "interrupted", "end", "endfile", "failfile", "drain", "fail", "over"}
          /\ next \in {"wait", "work"} => at = "noting"
          /\ next = "interrupted" => at = "publishing" /\ main.broken
          /\ next = "end" => at = "publishing" /\ ~ main.broken
          /\ next = "endfile" => at = "ending"
          /\ next \in {"failfile", "drain"} => at \in {"ending", "failing"}
          /\ next \in {"fail", "over"} => at # "failing" /\ next # After(at)
          /\ next = "over" => Stage = "boot"
          /\ at = "failing" => next \in {"failfile", "drain"}
    BY WhereNext
  <2> QED  BY <1>1, <2>1, <2>2, <2>3
<1>3. /\ main' = [at |-> main'.at, stage |-> main'.stage, broken |-> main'.broken, late |-> main'.late]
      /\ main'.at = next /\ main'.broken = main.broken /\ main'.broken \in BOOLEAN
      /\ main'.late = main.late /\ main'.late \in BOOLEAN
      /\ main'.stage = main.stage /\ main'.stage \in DOMAIN Stages
  <2>1. next \in Places
    BY <1>2 DEF Places
  <2> QED  BY <1>1, <2>1, Goes DEF Inv, Goto
<1>4. UNCHANGED <<mode, ingest, disk, path, tmp, faults>> /\ Stages' = Stages /\ Shown' = Shown
      /\ (Supervised' <=> Supervised)
  BY <1>1 DEF diskVars, modeVars, counters, Stages, Shown, Supervised
<1>5. UNCHANGED code /\ (next # "wait" => UNCHANGED <<job, reader, heartbeat>>)
  BY <1>1 DEF threadVars
<1>6. faults' \in [FaultKinds -> Nat] /\ \A k \in FaultKinds : faults'[k] >= faults[k]
  BY <1>4, FaultsKept DEF Inv
<1>7. main.at \notin {"over", "failfile", "drain"}
  BY <1>1 DEF Calling
<1>8. GoesOn
  <2>1. JobExited => job' = job /\ code' = code
    BY <1>1, <1>2, <1>5 DEF Inv, Course, JobExited
  <2> QED  BY <1>1, <1>2, <1>3, <1>4, <1>6, <1>7, <2>1 DEF GoesOn, RunOver, OverPlaces, Closing, OnTime, Calling
<1>9. "main" \in Writers /\ "reader" \in Writers /\ "heartbeat" \in Writers /\ "stop" \in Writers
  BY SixFiles
<1>10. /\ call \in [Writers -> [at : {"idle", "write", "replace", "raised"}, doc : Docs, file : Files]]
       /\ call' = [call EXCEPT !["main"] = Idle]
  BY <1>1 DEF Inv, FileTyping, Forgets
<1>11. Idle \in [at : {"idle", "write", "replace", "raised"}, doc : Docs, file : Files]
       /\ Idle.at = "idle" /\ Idle.file = NoFile /\ Idle.doc = Empty
  BY DEF Idle, Docs, Files
<1>12. /\ \A v \in Writers : v # "main" => call'[v] = call[v]
       /\ call'["main"].at = "idle" /\ call'["main"].file = NoFile /\ call'["main"].doc = Empty
       /\ call' \in [Writers -> [at : {"idle", "write", "replace", "raised"}, doc : Docs, file : Files]]
  <2> HIDE DEF Idle
  <2> QED  BY <1>9, <1>10, <1>11
<1>13. FileTyping'
  BY <1>4, <1>6, <1>12 DEF Inv, FileTyping
<1>14. LaunchTyping'
  <2>1. DOMAIN Stages \subseteq Nat \ {0}
    BY StagesAre
  <2>2. main'.stage \in Nat
    BY <1>3, <2>1
  <2>3. main' \in [at : Places, stage : Nat, broken : BOOLEAN, late : BOOLEAN]
    BY <1>2, <1>3, <2>2 DEF Places
  <2>4. job' \in {"none", "running", "blocked", "exited"} /\ code' \in {0} \cup ExitCodes
        /\ statusFile' \in {"none", "run id", "done", "error"}
    BY <1>1, <1>5 DEF Inv, LaunchTyping
  <2> QED  BY <1>3, <1>4, <2>3, <2>4 DEF Inv, LaunchTyping
<1>15. Callers'
  <2>1. ~ (next = "wait" /\ (call["reader"].at # "idle" \/ call["heartbeat"].at # "idle"))
    BY <1>2 DEF Inv, Callers, Course
  <2>2. /\ call'["reader"] = call["reader"] /\ call'["heartbeat"] = call["heartbeat"]
        /\ call'["stop"] = call["stop"]
    BY <1>9, <1>12
  <2> QED  BY <1>1, <1>4, <1>5, <1>12, <2>1, <2>2 DEF Inv, Callers
<1>16. Course'
  <2>1. next = "work" => job = "none" /\ reader = "none" /\ heartbeat = "none"
    BY <1>2 DEF Inv, Course
  <2>2. next = "end" => JobExited
    BY <1>2 DEF Inv, Course
  <2>3. next = "endfile" => JobExited /\ ~ main.broken
    BY <1>2 DEF Inv, Course
  <2>4. /\ OnTime /\ main.at # "noting" => {reader, heartbeat} \subseteq {"none", "ended", "dead"}
        /\ main.at = "noting" => reader = "none" /\ heartbeat = "none" /\ ~ main.late
    BY <1>1 DEF Inv, Course, Calling
  <2>5. main.broken => faults["break"] > 0
    BY DEF Inv, Course
  <2> QED  BY <1>2, <1>3, <1>4, <1>5, <2>1, <2>2, <2>3, <2>4, <2>5 DEF Course, JobExited, OnTime
<1>17. AllHonest'
  <2>1. \A d : Honest(d) => Honest(d)'
    BY <1>8, StaysHonest DEF Inv
  <2> QED  BY <1>4, <1>12, <2>1, EmptyIsHonest DEF Inv, AllHonest
<1>18. Recording'
  <2> SUFFICES ASSUME Undisturbed' PROVE Recording'
    BY DEF Recording
  <2>1. Undisturbed
    BY <1>3, <1>4 DEF Undisturbed, OnTime
  <2>2. Owned /\ WritesAlone
    BY <2>1 DEF Inv, Recording
  <2>3. call["main"].at = "idle"
    BY <1>1, <2>2 DEF WritesAlone, Returned, Raised
  <2>4. Owned'
    <3>1. \A v \in Writers : call[v].at \in {"write", "replace"} => call'[v] = call[v]
      BY <1>12, <2>3
    <3> QED  BY <1>4, <2>2, <3>1 DEF Owned
  <2>5. WritesAlone'
    BY <1>2, <1>3 DEF WritesAlone, Calling
  <2>6. ASSUME Entitled' PROVE EndShown'
    <3>1. main.at \in {"ending", "failing"} /\ next # "wait"
      BY <1>2, <1>3, <2>3, <2>6 DEF Entitled, EndPlaces, Returned
    <3>2. Shown = Conclusion
      BY <1>1, <2>2, <2>3, <3>1 DEF WritesAlone, Concludes
    <3>3. main.at = "ending" => JobExited
      BY DEF Inv, Course
    <3>4. job' = job /\ code' = code
      BY <1>5, <3>1
    <3> QED  BY <1>4, <3>1, <3>2, <3>3, <3>4
             DEF EndShown, Conclusion, JobExited, EndDoc, FailDoc
  <2> QED  BY <2>4, <2>5, <2>6 DEF Recording, Entitled, EndPlaces
<1>19. Signs'
  <2>1. Signs
    BY DEF Inv
  <2>2. Stage = "boot" <=> (Supervised /\ main.stage = 1)
    BY BootIsFirst DEF Stage, Inv, LaunchTyping
  <2>3. shipping => shipping'
    BY <1>1, Zenon
  <2>4. ~ shipping /\ (Stage = "boot" \/ next # "work") => ~ shipping'
    <3>1. Stage = "boot" => Stage # "starting"
      OBVIOUS
    <3> QED  BY <1>1, <3>1, Zenon
  <2>5. ~ RunOver /\ (RunOver' <=> next = "over")
    BY <1>1, <1>3, <1>7 DEF RunOver
  <2>6. host'.seen = "fresh" => shipping' \/ RunOver'
    BY <2>1, <2>3, <2>5, Zenon DEF Signs
  <2>7. host'.seen = "silent" => RunOver' \/ faults'["network"] > 0
    BY <1>4, <2>1, <2>5, Zenon DEF Signs
  <2>8. RunOver' => ~ shipping'
    BY <1>2, <2>1, <2>2, <2>4, <2>5, Zenon DEF Signs
  <2>9. Supervised' /\ main'.stage = 1 => ~ shipping'
    BY <1>3, <1>4, <2>1, <2>2, <2>4, Zenon DEF Signs
  <2>10. statusFile' \notin {"done", "error"}
    BY <1>1, <1>7, <2>1 DEF Signs
  <2> QED  BY <1>1, <2>6, <2>7, <2>8, <2>9, <2>10 DEF Signs, JobExited
<1>20. Verdicts'
  BY <1>4, <1>8, VerdictsStay
<1> QED  BY <1>13, <1>14, <1>15, <1>16, <1>17, <1>18, <1>19, <1>20 DEF Inv
-----------------------------------------------------------------------------
(* What the handle concludes *)

\* From the ingest host: an end that is recorded there, or a worker that is lost.
LEMMA SnapshotVerdict ==
  ASSUME NEW doc \in Docs, NEW seen
  PROVE  LET v == VerdictOf(Snapshot(doc, FALSE, FALSE, seen)) IN
         /\ v = "completed" => "completed" \in {doc.phase, doc.status}
         /\ v = "failed" => \/ doc.rc # 0
                            \/ seen = "silent" /\ doc.phase \notin {"completed", "failed"}
<1> DEFINE s == Snapshot(doc, FALSE, FALSE, seen)
           status == Recorded(doc, "running")
<1>1. /\ s.status = Liveness(status, seen)
      /\ s.failed <=> ("failed" \in {doc.phase, doc.status}
                        \/ (Liveness(status, seen) = "worker_lost" /\ Liveness(status, seen) # status))
      /\ s.done <=> (Liveness(status, seen) \in Terminal \/ doc.phase \in {"completed", "failed"})
      /\ s.rc = doc.rc
  BY DEF Snapshot
<1>2. /\ \/ doc.phase \in {"empty", "torn"} /\ doc.status = "" /\ doc.rc = 0
         \/ doc.phase = "active" /\ doc.status \in {"", "running"} /\ doc.rc = 0
         \/ doc.phase = "completed" /\ doc.status = "completed" /\ doc.rc = 0
         \/ doc.phase = "failed" /\ doc.status = "failed" /\ doc.rc # 0
      /\ doc.rc = 2 => doc = FailDoc
  BY DocFields
<1> HIDE DEF s
<1>3. /\ VerdictOf(s) = "completed" => ~ s.failed /\ s.status \notin {"failed", "worker_lost"} /\ s.done
      /\ VerdictOf(s) = "failed" => s.failed \/ s.status \in {"failed", "worker_lost"}
                                    \/ (s.done /\ s.rc # 0)
  BY DEF VerdictOf
<1>4. CASE doc.phase = "failed"
  <2>1. s.failed
    BY <1>1, <1>4
  <2> QED  BY <1>2, <1>3, <1>4, <2>1 DEF s
<1>5. CASE doc.phase = "completed"
  <2>1. status = "completed" /\ doc.status = "completed"
    BY <1>2, <1>5 DEF Recorded
  <2>2. Liveness(status, seen) = "completed"
    BY <2>1 DEF Liveness, Terminal
  <2>3. s.status = "completed" /\ ~ s.failed
    BY <1>1, <1>5, <2>1, <2>2
  <2>4. s.rc = 0
    BY <1>1, <1>2, <1>5
  <2>5. VerdictOf(s) # "failed"
    BY <1>3, <2>3, <2>4
  <2> QED  BY <1>5, <2>5 DEF s
<1>6. CASE doc.phase \notin {"completed", "failed"}
  <2>1. doc.status \in {"", "running"}
    BY <1>2, <1>6
  <2>2. status = "running"
    BY <1>6, <2>1 DEF Recorded
  <2>3. Liveness(status, seen) = IF seen = "silent" THEN "worker_lost" ELSE "running"
    BY <2>2 DEF Liveness, Terminal
  <2>4. CASE seen = "silent"
    <3>1. s.status = "worker_lost"
      BY <1>1, <2>3, <2>4
    <3>2. VerdictOf(s) # "completed"
      BY <1>3, <3>1
    <3> QED  BY <1>6, <2>4, <3>2 DEF s
  <2>5. CASE seen # "silent"
    <3>1. s.status = "running" /\ ~ s.done
      BY <1>1, <1>6, <2>3, <2>5 DEF Terminal
    <3>2. ~ s.failed
      BY <1>1, <1>6, <2>1, <2>3, <2>5
    <3>3. VerdictOf(s) # "completed" /\ VerdictOf(s) # "failed"
      BY <1>3, <3>1, <3>2
    <3> QED  BY <3>3 DEF s
  <2> QED  BY <2>4, <2>5
<1> QED  BY <1>4, <1>5, <1>6

\* Without an ingest host: the progress file, and the status file where it
\* cannot be read.
LEMMA LocalVerdict ==
  ASSUME Shown \in Docs
  PROVE  LET v == VerdictOf(LocalSnapshot) IN
         /\ v = "completed" => \/ "completed" \in {Shown.phase, Shown.status}
                               \/ statusFile = "done" /\ code = 0
         /\ v = "failed" => \/ Shown.rc # 0
                            \/ ~ Readable(Shown) /\ statusFile = "error"
                            \/ ~ Readable(Shown) /\ statusFile = "done" /\ code # 0
<1> DEFINE s == LocalSnapshot
<1>1. /\ VerdictOf(s) = "completed" => ~ s.failed /\ s.done /\ s.rc = 0
      /\ VerdictOf(s) = "failed" => s.failed \/ s.status \in {"failed", "worker_lost"}
                                    \/ (s.done /\ s.rc # 0)
  BY DEF VerdictOf
<1>2. CASE Readable(Shown)
  <2>1. /\ s.status = Shown.status /\ (s.failed <=> "failed" \in {Shown.phase, Shown.status})
        /\ s.done <=> {Shown.phase, Shown.status} \cap {"completed", "failed"} # {}
        /\ s.rc = Shown.rc
    BY <1>2 DEF LocalSnapshot
  <2>2. /\ \/ Shown.phase \in {"empty", "torn"} /\ Shown.status = "" /\ Shown.rc = 0
           \/ Shown.phase = "active" /\ Shown.status \in {"", "running"} /\ Shown.rc = 0
           \/ Shown.phase = "completed" /\ Shown.status = "completed" /\ Shown.rc = 0
           \/ Shown.phase = "failed" /\ Shown.status = "failed" /\ Shown.rc # 0
        /\ Shown.rc = 2 => Shown = FailDoc
    BY DocFields
  <2> HIDE DEF s
  <2>3. VerdictOf(s) = "completed" => "completed" \in {Shown.phase, Shown.status}
    BY <1>1, <2>1
  <2>4. VerdictOf(s) = "failed" => Shown.rc # 0
    <3>1. s.failed \/ s.status \in {"failed", "worker_lost"} \/ s.rc # 0 => Shown.phase = "failed"
      BY <2>1, <2>2
    <3> QED  BY <1>1, <2>2, <3>1
  <2> QED  BY <2>3, <2>4 DEF s
<1>3. CASE ~ Readable(Shown)
  <2>1. /\ s.failed <=> statusFile = "error"
        /\ s.done <=> statusFile \in {"done", "error"}
        /\ s.rc = IF statusFile = "error" THEN 2 ELSE code
        /\ s.status = CASE statusFile = "done" -> "completed" [] statusFile = "error" -> "failed"
                         [] OTHER -> ""
    BY <1>3 DEF LocalSnapshot
  <2> HIDE DEF s
  <2>2. s.status \in {"failed", "worker_lost"} => statusFile = "error"
    BY <2>1
  <2> QED  BY <1>1, <1>3, <2>1, <2>2 DEF s
<1> QED  BY <1>2, <1>3

\* Nothing but the verdict changes, and perhaps the network failed.
LEMMA SameKeeps ==
  ASSUME Inv, UNCHANGED <<fileVars, launchVars, host>>, faults' = faults \/ Fault("network")
  PROVE  /\ FileTyping' /\ LaunchTyping' /\ Callers' /\ Course' /\ AllHonest' /\ Recording' /\ Signs'
         /\ (NoFaults' => NoFaults) /\ Shown' = Shown /\ (RunOver' <=> RunOver)
         /\ UNCHANGED <<job, code, main, host>>
<1>1. /\ UNCHANGED <<disk, path, tmp, call, mode, ingest, main, job, code, reader, heartbeat,
                     shipping, statusFile, alive, host>>
      /\ Stages' = Stages /\ (Supervised' <=> Supervised) /\ Shown' = Shown /\ (RunOver' <=> RunOver)
  BY DEF fileVars, launchVars, Stages, Supervised, Shown, RunOver
<1>2. faults' \in [FaultKinds -> Nat] /\ \A k \in FaultKinds : faults'[k] >= faults[k]
  <2>1. "network" \in FaultKinds
    BY DEF FaultKinds
  <2> QED  BY <2>1, FaultsKept, FaultCounts DEF Inv
<1>3. GoesOn
  BY <1>1, <1>2 DEF GoesOn, OnTime
<1>4. /\ faults'["stop"] = 0 => faults["stop"] = 0
      /\ faults["break"] > 0 => faults'["break"] > 0
      /\ faults["network"] > 0 => faults'["network"] > 0
  BY <1>3, FaultsGrow DEF Inv
<1>5. FileTyping' /\ Callers'
  BY <1>1, <1>2, <1>4 DEF Inv, FileTyping, Callers
<1>6. LaunchTyping'
  BY <1>1 DEF Inv, LaunchTyping
<1>7. Course'
  BY <1>1, <1>4 DEF Inv, Course, JobExited, OnTime
<1>8. AllHonest'
  <2>1. \A d : Honest(d) => Honest(d)'
    BY <1>3, StaysHonest DEF Inv
  <2> QED  BY <1>1, <2>1 DEF Inv, AllHonest
<1>9. (NoFaults' => NoFaults) /\ (Undisturbed' => Undisturbed)
  BY <1>3, NoFaultsBack DEF Inv
<1>10. Recording'
  BY <1>1, <1>9 DEF Inv, Recording, Owned, WritesAlone, Concludes, Conclusion, EndShown,
              JobExited, EndDoc, FailDoc
<1>11. Signs'
  BY <1>1, <1>4 DEF Inv, Signs, JobExited
<1> QED  BY <1>1, <1>5, <1>6, <1>7, <1>8, <1>9, <1>10, <1>11

\* The end of a run without a fault is on record.
LEMMA EndStands ==
  ASSUME Inv, NoFaults, OnTime, main.at \in EndPlaces
  PROVE  Shown = FailDoc \/ (JobExited /\ Shown = EndDoc)
<1>1. Undisturbed /\ ~ (faults["break"] > 0)
  <2>1. faults["io"] = 0 /\ faults["stop"] = 0 /\ faults["break"] = 0
    BY DEF NoFaults, FaultKinds
  <2> QED  BY <2>1 DEF Undisturbed
<1>2. ~ main.broken
  BY <1>1 DEF Inv, Course
<1> QED  BY <1>1, <1>2 DEF Inv, Recording, EndShown, EndPlaces

\* An end can be read, and says that it is one.
LEMMA EndIsReadable ==
  ASSUME Shown = FailDoc \/ (JobExited /\ Shown = EndDoc)
  PROVE  Readable(Shown) /\ Shown.phase \in {"completed", "failed"}
<1>1. CASE Shown = FailDoc
  BY <1>1 DEF FailDoc, Doc, Readable
<1>2. CASE JobExited /\ Shown = EndDoc
  BY <1>2 DEF EndDoc, Doc, Readable
<1> QED  BY <1>1, <1>2

\* What an honest document says of a run without faults.
LEMMA HonestCode ==
  ASSUME Inv, NoFaults, NEW doc \in Docs, Honest(doc), doc.rc # 0, ~ JobFailed
  PROVE  doc = FailDoc /\ main.at \in OverPlaces
<1>1. faults["stop"] = 0
  BY DEF NoFaults, FaultKinds
<1>2. doc.rc = 2 /\ main.at \in OverPlaces
  BY <1>1 DEF Honest, JobFailed
<1> QED  BY <1>2, DocFields

LEMMA PollHostIsHonest ==
  ASSUME Inv, PollHost
  PROVE  /\ verdict' = "completed" => Succeeded
         /\ verdict' = "failed" /\ NoFaults /\ ~ JobFailed =>
              \/ main.at \in OverPlaces /\ (main.late \/ FailDoc \in {Shown, host.doc})
              \/ RunOver /\ host.doc # Shown
<1>1. verdict' = VerdictOf(Snapshot(host.doc, FALSE, FALSE, host.seen))
  BY DEF PollHost
<1>2. Honest(host.doc) /\ host.doc \in Docs
  BY DEF Inv, AllHonest, LaunchTyping
<1>3. /\ verdict' = "completed" => "completed" \in {host.doc.phase, host.doc.status}
      /\ verdict' = "failed" => \/ host.doc.rc # 0
                                \/ host.seen = "silent" /\ host.doc.phase \notin {"completed", "failed"}
  BY <1>1, <1>2, SnapshotVerdict
<1>4. "completed" \in {host.doc.phase, host.doc.status} => Succeeded
  BY <1>2, Zenon DEF Honest
<1>5. ASSUME verdict' = "failed", NoFaults, ~ JobFailed
      PROVE  \/ main.at \in OverPlaces /\ (main.late \/ FailDoc \in {Shown, host.doc})
             \/ RunOver /\ host.doc # Shown
  <2>1. CASE host.doc.rc # 0
    BY <1>2, <1>5, <2>1, HonestCode
  <2>2. CASE host.seen = "silent" /\ host.doc.phase \notin {"completed", "failed"}
    <3>1. faults["network"] = 0 /\ faults["break"] = 0
      BY <1>5 DEF NoFaults, FaultKinds
    <3>2. RunOver /\ main.at = "over"
      BY <2>2, <3>1 DEF Inv, Signs, RunOver
    <3>3. CASE main.late
      BY <3>2, <3>3 DEF OverPlaces
    <3>4. CASE ~ main.late
      <4>1. Shown.phase \in {"completed", "failed"}
        BY <1>5, <3>2, <3>4, EndStands, EndIsReadable DEF EndPlaces, OnTime
      <4> QED  BY <2>2, <3>2, <4>1
    <3> QED  BY <3>3, <3>4
  <2> QED  BY <1>3, <1>5, <2>1, <2>2
<1> QED  BY <1>3, <1>4, <1>5

LEMMA PollLocalIsHonest ==
  ASSUME Inv, PollLocal
  PROVE  /\ verdict' = "completed" => Succeeded
         /\ verdict' = "failed" /\ NoFaults /\ ~ JobFailed =>
              \/ main.at \in OverPlaces /\ (main.late \/ FailDoc \in {Shown, host.doc})
              \/ RunOver /\ host.doc # Shown
<1>1. verdict' = VerdictOf(LocalSnapshot)
  BY DEF PollLocal
<1>2. Honest(Shown) /\ Shown \in Docs
  BY ShownHonest DEF Inv
<1>3. /\ verdict' = "completed" => \/ "completed" \in {Shown.phase, Shown.status}
                                   \/ statusFile = "done" /\ code = 0
      /\ verdict' = "failed" => \/ Shown.rc # 0
                                \/ ~ Readable(Shown) /\ statusFile = "error"
                                \/ ~ Readable(Shown) /\ statusFile = "done" /\ code # 0
  BY <1>1, <1>2, LocalVerdict
<1>4. /\ "completed" \in {Shown.phase, Shown.status} => Succeeded
      /\ statusFile = "done" => JobExited
  BY <1>2, Zenon DEF Honest, Inv, Signs
<1>5. ASSUME verdict' = "failed", NoFaults, ~ JobFailed
      PROVE  \/ main.at \in OverPlaces /\ (main.late \/ FailDoc \in {Shown, host.doc})
             \/ RunOver /\ host.doc # Shown
  <2>1. CASE Shown.rc # 0
    BY <1>2, <1>5, <2>1, HonestCode
  <2>2. CASE ~ Readable(Shown) /\ statusFile \in {"done", "error"}
    <3>1. main.at \in {"drain", "over"}
      BY <2>2 DEF Inv, Signs
    <3>2. CASE main.late
      BY <3>1, <3>2 DEF OverPlaces
    <3>3. CASE ~ main.late
      <4>1. Readable(Shown)
        BY <1>5, <3>1, <3>3, EndStands, EndIsReadable DEF EndPlaces, OnTime
      <4> QED  BY <2>2, <4>1
    <3> QED  BY <3>2, <3>3
  <2> QED  BY <1>3, <1>5, <2>1, <2>2
<1> QED  BY <1>3, <1>4, <1>5 DEF Succeeded

LEMMA PollKeeps ==
  ASSUME Inv, Poll
  PROVE  Inv'
<1>1. UNCHANGED <<fileVars, launchVars, host>> /\ (faults' = faults \/ Fault("network"))
  BY DEF Poll, PollHost, PollLocal, vars
<1>2. /\ FileTyping' /\ LaunchTyping' /\ Callers' /\ Course' /\ AllHonest' /\ Recording' /\ Signs'
      /\ (NoFaults' => NoFaults) /\ Shown' = Shown /\ (RunOver' <=> RunOver)
      /\ UNCHANGED <<job, code, main, host>>
  BY <1>1, SameKeeps
<1>3. /\ verdict' = "completed" => Succeeded
      /\ verdict' = "failed" /\ NoFaults /\ ~ JobFailed =>
           \/ main.at \in OverPlaces /\ (main.late \/ FailDoc \in {Shown, host.doc})
           \/ RunOver /\ host.doc # Shown
  BY PollHostIsHonest, PollLocalIsHonest DEF Poll
<1>4. VerdictIsHonest'
  <2>1. ~ NoFaults' => \E kind \in FaultKinds : faults'[kind] > 0
    BY <1>2, SomeFault DEF NoFaults, FileTyping
  <2>2. /\ FailDoc' = FailDoc /\ (Succeeded' <=> Succeeded)
        /\ (JobFailed <=> JobExited' /\ code' # 0)
    BY <1>2 DEF FailDoc, Succeeded, JobExited, JobFailed
  <2> QED  BY <1>2, <1>3, <2>1, <2>2 DEF VerdictIsHonest, OverPlaces
<1>5. NoFaults' /\ OnTime' /\ host'.doc = FailDoc => Shown' = FailDoc
  BY <1>2 DEF Inv, Verdicts, OnTime
<1> QED  BY <1>2, <1>4, <1>5 DEF Inv, Verdicts
-----------------------------------------------------------------------------
(* The theorems *)

LEMMA InitInv == HandleInit => Inv
<1> SUFFICES ASSUME HandleInit PROVE Inv
  OBVIOUS
<1>1. /\ disk = [i \in Inodes |-> Empty] /\ path = NoFile /\ tmp = NoFile
      /\ call = [w \in Writers |-> Idle] /\ faults = [k \in FaultKinds |-> 0]
  BY DEF HandleInit, Init, FileInit
<1>2. /\ mode \in {"supervised", "attached"}
      /\ main = [at |-> "note", stage |-> 1, broken |-> FALSE, late |-> FALSE]
      /\ job = "none" /\ code = 0 /\ reader = "none" /\ heartbeat = "none" /\ ~ shipping
      /\ statusFile = "none" /\ alive
  BY LaunchAssumption DEF HandleInit, Init
<1>3. /\ host.doc = Empty /\ host.seen = "never" /\ host = [doc |-> host.doc, seen |-> host.seen]
      /\ verdict = "none"
  BY DEF HandleInit, Empty, Doc
<1>4. Empty \in Docs /\ NoFile \in Files
  BY DEF Docs, Files
<1>5. /\ \A w \in Writers : call[w] = Idle
      /\ Idle.at = "idle" /\ Idle.file = NoFile /\ Idle.doc = Empty
      /\ Idle \in [at : {"idle", "write", "replace", "raised"}, doc : Docs, file : Files]
  BY <1>1, <1>4 DEF Idle
<1>6. main.at = "note" /\ main.stage = 1 /\ main.broken = FALSE /\ main.late = FALSE
  BY <1>2
<1>7. FileTyping
  <2> HIDE DEF Idle
  <2>1. NoFile \in Files /\ disk \in [Inodes -> Docs] /\ faults \in [FaultKinds -> Nat]
    BY <1>1, <1>4
  <2>2. call \in [Writers -> [at : {"idle", "write", "replace", "raised"}, doc : Docs, file : Files]]
    BY <1>1, <1>5
  <2> QED  BY <1>1, <1>5, <2>1, <2>2 DEF FileTyping
<1>8. LaunchTyping
  <2>1. 1 \in DOMAIN Stages
    BY StagesAre
  <2>2. main \in [at : Places, stage : Nat, broken : BOOLEAN, late : BOOLEAN]
    BY <1>2 DEF Places
  <2> QED  BY <1>2, <1>3, <1>4, <1>6, <2>1, <2>2 DEF LaunchTyping
<1>9. Callers
  BY <1>2, <1>5, SixFiles DEF Callers
<1>10. Course
  BY <1>2, <1>6 DEF Course
<1>11. AllHonest
  BY <1>1, <1>3, <1>5, EmptyIsHonest DEF AllHonest
<1>12. Recording
  BY <1>1, <1>6 DEF Recording, Owned, WritesAlone, Calling
<1>13. Signs
  <2>1. ~ RunOver
    BY <1>2, <1>6 DEF RunOver
  <2> QED  BY <1>2, <1>3, <2>1 DEF Signs
<1>14. Verdicts
  <2>1. Empty # FailDoc
    BY DEF Empty, FailDoc, Doc
  <2> QED  BY <1>3, <2>1 DEF Verdicts, VerdictIsHonest
<1> QED  BY <1>7, <1>8, <1>9, <1>10, <1>11, <1>12, <1>13, <1>14 DEF Inv

LEMMA MainStepKeeps ==
  ASSUME Inv, alive, MainStep \/ Interrupt, verdict' = verdict,
         host' = host \/ (Drained /\ host' \in {host, [doc |-> Received, seen |-> "fresh"]})
  PROVE  Inv'
<1>1. CASE Drained
  <2>1. host' \in {host, [doc |-> Received, seen |-> "fresh"]}
    OBVIOUS
  <2> QED  BY <1>1, <2>1, DrainedKeeps
<1>2. CASE ~ Drained
  <2>1. UNCHANGED <<host, verdict>>
    BY <1>2
  <2>2. CASE LoadConfig
    <3>1. WorksThrough({"boot", "dataset"}) /\ "training" \notin {"boot", "dataset"}
      BY <2>2 DEF LoadConfig
    <3> QED  BY <2>1, <3>1, WorksThroughKeeps
  <2>3. CASE Prepare
    <3>1. WorksThrough({"starting"}) /\ "training" \notin {"starting"}
      BY <2>3 DEF Prepare
    <3> QED  BY <2>1, <3>1, WorksThroughKeeps
  <2>4. CASE ExecutePlan
    <3>1. WorksThrough({"ray_start"}) /\ "training" \notin {"ray_start"}
      BY <2>4 DEF ExecutePlan
    <3> QED  BY <2>1, <3>1, WorksThroughKeeps
  <2> QED  BY <1>2, <2>1, <2>2, <2>3, <2>4, MainWritesKeeps, MainResumesKeeps, JobWaitedKeeps, JoinKeeps,
              StatusFileWrittenKeeps, InterruptedKeeps, InterruptKeeps DEF MainStep
<1> QED  BY <1>1, <1>2

\* Only the drain of the shipper leads from "drain" to "over".
LEMMA DrainIsDrained ==
  ASSUME Inv, LaunchNext, main.at = "drain", main'.at = "over"
  PROVE  alive /\ Drained
<1>1. main' # main
  OBVIOUS
<1>2. alive /\ (MainStep \/ Interrupt)
  BY <1>1 DEF LaunchNext, Dies, ThreadStep, ReaderPublishes, ReaderResumes, ReaderEnds,
              HeartbeatPublishes, HeartbeatResumes, HeartbeatEnds, JobExits, JobBlocks, Stop,
              ParentStep, ParentReads, ParentChecks, WriteStep, launchVars
<1> QED  BY <1>2 DEF MainStep, MainWrites, MainResumes, LoadConfig, Prepare, ExecutePlan, WorksThrough,
                     JobWaited, Join, StatusFileWritten, Interrupted, Interrupt, Writing

LEMMA LaunchKeeps == Inv /\ Launch => Inv'
<1> SUFFICES ASSUME Inv, Launch PROVE Inv'
  OBVIOUS
<1>1. /\ LaunchNext /\ verdict' = verdict
      /\ \/ host' = host
         \/ /\ main.at = "drain" /\ main'.at = "over"
            /\ host' \in {host, [doc |-> Received, seen |-> "fresh"]}
  BY DEF Launch
<1>2. host' = host \/ (alive /\ Drained /\ host' \in {host, [doc |-> Received, seen |-> "fresh"]})
  BY <1>1, DrainIsDrained
<1>3. CASE alive /\ (MainStep \/ Interrupt)
  BY <1>1, <1>2, <1>3, MainStepKeeps
<1>4. CASE ~ (alive /\ (MainStep \/ Interrupt))
  <2>1. UNCHANGED <<host, verdict>>
    BY <1>1, <1>2, <1>4 DEF MainStep
  <2> QED  BY <1>1, <1>4, <2>1, DiesKeeps, PublishesKeeps, ReaderKeeps, HeartbeatKeeps, JobKeeps, StopKeeps,
              ParentKeeps, WriteStepKeeps DEF LaunchNext, ThreadStep
<1> QED  BY <1>3, <1>4

LEMMA NextInv == Inv /\ [Next]_allVars => Inv'
<1> SUFFICES ASSUME Inv, [Next]_allVars PROVE Inv'
  OBVIOUS
<1>1. CASE UNCHANGED allVars
  <2>1. UNCHANGED <<fileVars, launchVars, host>> /\ verdict' = verdict /\ faults' = faults
    BY <1>1 DEF allVars, handleVars, vars
  <2>2. /\ FileTyping' /\ LaunchTyping' /\ Callers' /\ Course' /\ AllHonest' /\ Recording' /\ Signs'
        /\ (NoFaults' => NoFaults) /\ Shown' = Shown /\ (RunOver' <=> RunOver)
        /\ UNCHANGED <<job, code, main, host>>
    BY <2>1, SameKeeps
  <2>3. Verdicts'
    BY <2>1, <2>2 DEF Inv, Verdicts, VerdictIsHonest, FailDoc, Succeeded, JobExited, OnTime
  <2> QED  BY <2>2, <2>3 DEF Inv
<1>2. CASE Next
  BY <1>2, LaunchKeeps, ShipKeeps, GoesSilentKeeps, PollKeeps DEF Next
<1> QED  BY <1>1, <1>2

\* The invariant holds of every launch that the constants allow.
LEMMA InvHolds == Spec => []Inv
<1>1. HandleInit => Inv
  BY InitInv
<1>2. Inv /\ [Next]_allVars => Inv'
  BY NextInv
<1> QED  BY <1>1, <1>2, PTL DEF Spec

\* A recorded end is the end the run had (gym/remote_job.py:207,
\* gym/config.py:315), on the launch host and on the ingest host, however the
\* writes of the main thread, of the two threads beside it and of dg run stop
\* overlap, wherever a disk is full or the process dies, and with any number of
\* such faults.
THEOREM EndIsHonestCorrect == Spec => []EndIsHonest
<1>1. Inv => EndIsHonest
  <2> SUFFICES ASSUME Inv, NEW doc \in {Shown, host.doc}
               PROVE  /\ "completed" \in {doc.phase, doc.status} => Succeeded
                      /\ doc.rc # 0 => \/ JobExited /\ doc.rc = code
                                       \/ doc.rc = 2 /\ main.at \in {"failing", "failfile", "drain", "over"}
                                       \/ doc.rc = 130 /\ faults.stop > 0
    BY DEF EndIsHonest
  <2>1. Honest(doc)
    BY ShownHonest DEF Inv, AllHonest
  <2> QED  BY <2>1 DEF Honest, OverPlaces
<1> QED  BY <1>1, InvHolds, PTL

\* The list of runs and the page of a run agree on whether and how it ended
\* (telemetry/dashboard_data.py:104, telemetry/dashboard.py:791), for every
\* document that the writers can leave, torn ones too.
THEOREM ViewsAgreeCorrect == Spec => []ViewsAgree
<1>1. Inv => ViewsAgree
  <2>1. Inv => Shown \in Docs /\ host.doc \in Docs
    BY ShownHonest DEF Inv, LaunchTyping
  <2> QED  BY <2>1, DocsAgree DEF ViewsAgree
<1> QED  BY <1>1, InvHolds, PTL

\* When the main thread has stopped, the record on disk is the end and not a
\* late heartbeat's or the reader's note, nor a torn document
\* (gym/launch.py:388), unless it gave up on joining one of them (:389-390):
\* otherwise both have ended before it writes the end.
THEOREM EndIsRecordedCorrect == Spec => []EndIsRecorded
<1>1. Inv => EndIsRecorded
  BY DEF Inv, Recording, Undisturbed, EndShown, EndIsRecorded, OnTime
<1> QED  BY <1>1, InvHolds, PTL

\* TrainingRun.wait (gym/run.py:149), which asks the ingest host or, without
\* an answer, the files of the launch, says completed only of a job that
\* exited with 0, and failed only if the job or the launch failed, something
\* was interrupted or broke, or the end did not reach the host or was
\* overwritten by a thread the launch had given up on.
THEOREM VerdictIsHonestCorrect == Spec => []VerdictIsHonest
<1>1. Inv => VerdictIsHonest
  BY DEF Inv, Verdicts
<1> QED  BY <1>1, InvHolds, PTL
=============================================================================
