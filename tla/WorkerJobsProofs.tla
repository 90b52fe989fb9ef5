-------------------------- MODULE WorkerJobsProofs --------------------------
(***************************************************************************)
(* The job queue gives no enqueued job out twice, a status tells how a run *)
(* ended, and only a fault leaves a job running that nobody attends:       *)
(* TypeOK, GrantedOnce, HonestStatus and RunningIsAttended of WorkerJobs,  *)
(* for any number of agents, jobs and faults.                              *)
(***************************************************************************)
EXTENDS WorkerJobs, FiniteSetTheorems, TLAPS

Busy(r) == r.step \in {"locked", "truncated"}

\* What each kind of request looks like on its way.
ShapeOf(r) ==
    /\ r \in Request
    /\ r.kind = "enqueue" =>
          r.write = "queued" /\ r.step = "truncated" /\ r.agent = "laptop"
    /\ r.kind = "claim" => r.write = "running"
    /\ r.kind = "report" => r.write \in {"completed", "failed"} /\ r.job \in Jobs
    /\ r.kind # "enqueue" => r.agent \in Agents
    /\ r.kind = "claim" /\ r.step = "sent" => r.job = NoJob
    /\ r.step = "locked" => r.kind = "claim"
    /\ Busy(r) => r.job \in Jobs

RequestShape == \A r \in requests : ShapeOf(r)

\* Under the lock, the file is as the handler found or left it.
FileUnderLock ==
    \A r \in requests :
        /\ r.step = "locked" => file[r.job] = "queued"
        /\ r.step = "truncated" => file[r.job] = "torn"

AgentsHaveJobs ==
    \A a \in Agents :
        pc[a] \in {"training", "reporting", "reporting_error"} => job[a] \in Jobs

Inv == TypeOK /\ RequestShape /\ FileUnderLock /\ AgentsHaveJobs

-----------------------------------------------------------------------------
(* What an action does to the requests *)

\* A request and its answer.
AnswerTo(r) == [r EXCEPT !.step = "answered"]

\* Answering takes the request away, or leaves its answer.
LEMMA AnsweredChanges ==
    ASSUME NEW r \in requests, Answered(r)
    PROVE  requests' \subseteq (requests \ {r}) \cup {AnswerTo(r)}
BY DEF Answered, Becomes, AnswerTo

\* The fields of an answer.
LEMMA AnswerShape ==
    ASSUME NEW r, ShapeOf(r), r.kind # "enqueue"
    PROVE  /\ ShapeOf(AnswerTo(r)) /\ ~ Busy(AnswerTo(r))
           /\ AnswerTo(r).kind = r.kind /\ AnswerTo(r).job = r.job
           /\ AnswerTo(r).agent = r.agent /\ AnswerTo(r).step = "answered"
BY DEF AnswerTo, ShapeOf, Request, Busy, Steps

\* A new report, as TrainReturns, TrainRaises and Raises send it.
LEMMA ReportShape ==
    ASSUME NEW a \in Agents, TypeOK, job[a] \in Jobs, lost'[a] \in Nat,
           NEW status \in {"completed", "failed"}
    PROVE  /\ ShapeOf(Report(a, status)) /\ ~ Busy(Report(a, status))
           /\ Report(a, status).kind = "report"
BY DEF Report, ShapeOf, Request, Busy, Steps, Kinds

\* A step that adds one request, which does not hold the lock, and leaves the
\* files alone keeps what is known of the requests.
LEMMA QuietChange ==
    ASSUME Inv, UNCHANGED file, NEW s, ShapeOf(s), ~ Busy(s),
           requests' \subseteq requests \cup {s}
    PROVE  /\ requests' \subseteq Request /\ RequestShape' /\ FileUnderLock'
           /\ \A x, y \in requests' : Busy(x) /\ Busy(y) => x = y
<1>1. \A x \in requests' : x \in requests \/ x = s
  OBVIOUS
<1>2. RequestShape' /\ requests' \subseteq Request
  BY <1>1 DEF Inv, RequestShape, ShapeOf
<1>3. FileUnderLock'
  BY <1>1 DEF Inv, FileUnderLock, Busy
<1>4. \A x, y \in requests' : Busy(x) /\ Busy(y) => x = y
  BY <1>1 DEF Inv, TypeOK, Busy
<1> QED  BY <1>2, <1>3, <1>4

\* A step after which one request alone can hold the lock.
LEMMA LockChange ==
    ASSUME Inv, NEW R, R \subseteq requests, \A x \in R : ~ Busy(x),
           NEW s, ShapeOf(s), requests' \subseteq R \cup {s},
           s.step = "locked" => file'[s.job] = "queued",
           s.step = "truncated" => file'[s.job] = "torn"
    PROVE  /\ requests' \subseteq Request /\ RequestShape' /\ FileUnderLock'
           /\ \A x, y \in requests' : Busy(x) /\ Busy(y) => x = y
<1>1. \A x \in requests' : x \in R \/ x = s
  OBVIOUS
<1>2. RequestShape' /\ requests' \subseteq Request
  BY <1>1 DEF Inv, RequestShape, ShapeOf
<1>3. FileUnderLock'
  BY <1>1 DEF FileUnderLock, Busy
<1>4. \A x, y \in requests' : Busy(x) /\ Busy(y) => x = y
  BY <1>1
<1> QED  BY <1>2, <1>3, <1>4

LEMMA Unlocked ==
    ASSUME ~ Locked
    PROVE  \A x \in requests : ~ Busy(x)
BY DEF Locked, Busy

LEMMA AloneUnderLock ==
    ASSUME Inv, NEW r \in requests, Busy(r)
    PROVE  \A x \in requests \ {r} : ~ Busy(x)
BY DEF Inv, TypeOK, Busy

-----------------------------------------------------------------------------
(* The invariant *)

LEMMA InitInv == Init => Inv
BY AgentsAssumption, BoundAssumption, JobsAssumption
   DEF Init, Inv, TypeOK, RequestShape, FileUnderLock, AgentsHaveJobs, NoJob

\* What is left of TypeOK, once the requests are known to be well formed.
Rest ==
    /\ file \in [Jobs -> {"none", "torn", "queued", "running", "completed", "failed"}]
    /\ pc \in [Agents -> {"polling", "claiming", "training", "reporting",
                          "reporting_error", "exited"}]
    /\ job \in [Agents -> Jobs \cup {NoJob}]
    /\ lost \in [Agents -> Nat]
    /\ faults \in 0 .. MaxFaults
    /\ enqueued \in [Jobs -> Nat]
    /\ granted \in [Jobs -> Nat]
    /\ ran \in [Jobs -> SUBSET {"ok", "bad"}]

LEMMA FaultKeepsBound ==
    ASSUME faults \in 0 .. MaxFaults, Fault
    PROVE  faults' \in 0 .. MaxFaults
BY BoundAssumption DEF Fault

LEMMA EnqueueInv ==
    ASSUME Inv, NEW j \in Jobs, Enqueue(j)
    PROVE  Inv'
<1> DEFINE s == [kind |-> "enqueue", agent |-> "laptop", id |-> 0, job |-> j,
                 write |-> "queued", step |-> "truncated"]
<1>1. ShapeOf(s) /\ s.step = "truncated" /\ s.job = j
  BY DEF ShapeOf, Request, Busy, Kinds, Steps
<1>2. requests' \subseteq requests \cup {s} /\ \A x \in requests : ~ Busy(x)
  BY Unlocked DEF Enqueue
<1>3. file' = [file EXCEPT ![j] = "torn"] /\ file'[j] = "torn"
  BY DEF Enqueue, Inv, TypeOK
<1> HIDE DEF s
<1>4. /\ requests' \subseteq Request /\ RequestShape' /\ FileUnderLock'
      /\ \A x, y \in requests' : Busy(x) /\ Busy(y) => x = y
  BY <1>1, <1>2, <1>3, LockChange
<1>5. faults' \in 0 .. MaxFaults
  BY FaultKeepsBound DEF Enqueue, Inv, TypeOK
<1>6. Rest' /\ AgentsHaveJobs'
  BY <1>3, <1>5 DEF Enqueue, Inv, TypeOK, Rest, AgentsHaveJobs
<1> QED  BY <1>4, <1>6 DEF Inv, TypeOK, Rest, Busy

LEMMA HandleClaimInv ==
    ASSUME Inv, NEW r \in requests, HandleClaim(r)
    PROVE  Inv'
<1>1. ShapeOf(r) /\ r.kind = "claim" /\ r.step = "sent"
  BY DEF Inv, RequestShape, HandleClaim
<1>2. \A x \in requests : ~ Busy(x)
  BY Unlocked DEF HandleClaim
<1>3. Rest' /\ AgentsHaveJobs' /\ UNCHANGED file
  BY DEF HandleClaim, Inv, TypeOK, Rest, AgentsHaveJobs, trouble, history
<1>4. CASE Answered(r)
  <2>1. /\ requests' \subseteq Request /\ RequestShape' /\ FileUnderLock'
        /\ \A x, y \in requests' : Busy(x) /\ Busy(y) => x = y
    BY <1>1, <1>3, <1>4, AnsweredChanges, AnswerShape, QuietChange
  <2> QED  BY <1>3, <2>1 DEF Inv, TypeOK, Rest, Busy
<1>5. ASSUME NEW j \in Candidates, Becomes(r, [r EXCEPT !.job = j, !.step = "locked"])
      PROVE  Inv'
  <2> DEFINE s == [r EXCEPT !.job = j, !.step = "locked"]
  <2>1. j \in Jobs /\ file[j] = "queued"
    BY <1>5 DEF Candidates, Queued
  <2>2. ShapeOf(s) /\ s.step = "locked" /\ s.job = j
    BY <1>1, <2>1 DEF ShapeOf, Request, Busy, Steps
  <2>3. requests' \subseteq requests \cup {s}
    BY <1>5 DEF Becomes
  <2> HIDE DEF s
  <2>4. /\ requests' \subseteq Request /\ RequestShape' /\ FileUnderLock'
        /\ \A x, y \in requests' : Busy(x) /\ Busy(y) => x = y
    BY <1>2, <1>3, <2>1, <2>2, <2>3, LockChange
  <2> QED  BY <1>3, <2>4 DEF Inv, TypeOK, Rest, Busy
<1> QED  BY <1>4, <1>5 DEF HandleClaim

\* A handler truncates the file of its job.
LEMMA TruncatedInv ==
    ASSUME Inv, NEW r \in requests, r.kind # "enqueue", r.job \in Jobs, Truncated(r),
           \A x \in requests \ {r} : ~ Busy(x),
           UNCHANGED <<pc, job, trouble, history>>
    PROVE  Inv'
<1> DEFINE s == [r EXCEPT !.step = "truncated"]
<1>1. ShapeOf(s) /\ s.step = "truncated" /\ s.job = r.job
  BY DEF Inv, RequestShape, ShapeOf, Request, Busy, Steps
<1>2. requests' \subseteq (requests \ {r}) \cup {s}
  BY DEF Truncated, Becomes
<1>3. file' = [file EXCEPT ![r.job] = "torn"] /\ file'[r.job] = "torn"
  BY DEF Truncated, Inv, TypeOK
<1> HIDE DEF s
<1>4. /\ requests' \subseteq Request /\ RequestShape' /\ FileUnderLock'
      /\ \A x, y \in requests' : Busy(x) /\ Busy(y) => x = y
  BY <1>1, <1>2, <1>3, LockChange
<1>5. Rest' /\ AgentsHaveJobs'
  BY <1>3 DEF Inv, TypeOK, Rest, AgentsHaveJobs, trouble, history
<1> QED  BY <1>4, <1>5 DEF Inv, TypeOK, Rest, Busy

LEMMA HandleReportInv ==
    ASSUME Inv, NEW r \in requests, HandleReport(r)
    PROVE  Inv'
<1>1. ShapeOf(r) /\ r.kind = "report" /\ r.job \in Jobs
  BY DEF Inv, RequestShape, ShapeOf, HandleReport
<1>2. CASE Truncated(r)
  BY <1>1, <1>2, Unlocked, TruncatedInv DEF HandleReport
<1>3. CASE Answered(r) /\ UNCHANGED file
  <2>1. /\ requests' \subseteq Request /\ RequestShape' /\ FileUnderLock'
        /\ \A x, y \in requests' : Busy(x) /\ Busy(y) => x = y
    BY <1>1, <1>3, AnsweredChanges, AnswerShape, QuietChange
  <2>2. Rest' /\ AgentsHaveJobs'
    BY <1>3 DEF HandleReport, Inv, TypeOK, Rest, AgentsHaveJobs, trouble, history
  <2> QED  BY <2>1, <2>2 DEF Inv, TypeOK, Rest, Busy
<1> QED  BY <1>2, <1>3 DEF HandleReport

LEMMA TruncateInv ==
    ASSUME Inv, NEW r \in requests, Truncate(r)
    PROVE  Inv'
<1>1. Busy(r) /\ r.kind = "claim" /\ r.job \in Jobs
  BY DEF Truncate, Inv, RequestShape, ShapeOf, Busy
<1> QED  BY <1>1, AloneUnderLock, TruncatedInv DEF Truncate

\* After Fill nothing holds the lock.
LEMMA FillChanges ==
    ASSUME Inv, NEW r \in requests, Fill(r)
    PROVE  /\ ShapeOf(r) /\ r.job \in Jobs /\ Busy(r)
           /\ \A x \in requests' : ~ Busy(x)
           /\ requests' \subseteq (requests \ {r}) \cup {AnswerTo(r)}
           /\ r.kind = "enqueue" => requests' = requests \ {r}
           /\ requests' \subseteq Request /\ RequestShape' /\ FileUnderLock'
<1>1. ShapeOf(r) /\ r.job \in Jobs /\ Busy(r)
  BY DEF Fill, Inv, RequestShape, ShapeOf, Busy
<1>2. \A x \in requests \ {r} : ~ Busy(x) /\ ShapeOf(x)
  BY <1>1, AloneUnderLock DEF Inv, RequestShape
<1>3. Answered(r)
  BY DEF Fill
<1>4. CASE r.kind = "enqueue"
  <2>1. requests' = requests \ {r}
    BY <1>3, <1>4 DEF Answered
  <2>2. \A x \in requests' : ~ Busy(x) /\ ShapeOf(x)
    BY <1>2, <2>1
  <2>3. RequestShape' /\ FileUnderLock' /\ requests' \subseteq Request
    BY <2>2 DEF RequestShape, FileUnderLock, Busy, ShapeOf
  <2> QED  BY <1>1, <1>4, <2>1, <2>2, <2>3
<1>5. CASE r.kind # "enqueue"
  <2>1. requests' \subseteq (requests \ {r}) \cup {AnswerTo(r)}
    BY <1>3, AnsweredChanges
  <2>2. \A x \in requests' : ~ Busy(x) /\ ShapeOf(x)
    BY <1>1, <1>2, <1>5, <2>1, AnswerShape
  <2>3. RequestShape' /\ FileUnderLock' /\ requests' \subseteq Request
    BY <2>2 DEF RequestShape, FileUnderLock, Busy, ShapeOf
  <2> QED  BY <1>1, <1>5, <2>1, <2>2, <2>3
<1> QED  BY <1>4, <1>5

LEMMA FillInv ==
    ASSUME Inv, NEW r \in requests, Fill(r)
    PROVE  Inv'
<1>1. /\ r.write \in {"queued", "running", "completed", "failed"} /\ r.job \in Jobs
      /\ \A x \in requests' : ~ Busy(x)
      /\ requests' \subseteq Request /\ RequestShape' /\ FileUnderLock'
  BY FillChanges DEF ShapeOf, Request
<1>2. granted' \in [Jobs -> Nat]
  BY <1>1 DEF Fill, Inv, TypeOK
<1>3. Rest' /\ AgentsHaveJobs'
  BY <1>1, <1>2 DEF Fill, Inv, TypeOK, Rest, AgentsHaveJobs, trouble
<1> QED  BY <1>1, <1>3 DEF Inv, TypeOK, Rest, Busy

LEMMA HostCrashInv == Inv /\ HostCrash => Inv'
<1> SUFFICES ASSUME Inv, HostCrash PROVE Inv'
  OBVIOUS
<1>1. faults' \in 0 .. MaxFaults
  BY FaultKeepsBound DEF HostCrash, Inv, TypeOK
<1> QED
  BY <1>1 DEF HostCrash, Inv, TypeOK, RequestShape, FileUnderLock, AgentsHaveJobs, history

\* The steps of an agent send no more than a report, and leave the files, the
\* grants and the enqueues alone.
AgentStep(a) ==
    /\ UNCHANGED <<file, enqueued, granted>>
    /\ \/ requests' \subseteq requests
       \/ \E status \in {"completed", "failed"} :
             job[a] \in Jobs /\ requests' \subseteq requests \cup {Report(a, status)}
       \/ requests' \subseteq requests \cup {Claim(a)}

LEMMA AgentStepInv ==
    ASSUME Inv, NEW a \in Agents, AgentStep(a), Rest', AgentsHaveJobs'
    PROVE  Inv'
<1>1. lost'[a] \in Nat
  BY DEF Rest
<1>2. ASSUME NEW s, ShapeOf(s), ~ Busy(s), requests' \subseteq requests \cup {s}
      PROVE  Inv'
  <2>1. /\ requests' \subseteq Request /\ RequestShape' /\ FileUnderLock'
        /\ \A x, y \in requests' : Busy(x) /\ Busy(y) => x = y
    BY <1>2, QuietChange DEF AgentStep
  <2> QED  BY <2>1 DEF Inv, TypeOK, Rest, Busy
<1>3. CASE requests' \subseteq requests
  <2>1. /\ requests' \subseteq Request /\ RequestShape' /\ FileUnderLock'
        /\ \A x, y \in requests' : Busy(x) /\ Busy(y) => x = y
    BY <1>3 DEF AgentStep, Inv, TypeOK, RequestShape, FileUnderLock, Busy
  <2> QED  BY <2>1 DEF Inv, TypeOK, Rest, Busy
<1>4. ASSUME NEW status \in {"completed", "failed"}, job[a] \in Jobs,
             requests' \subseteq requests \cup {Report(a, status)}
      PROVE  Inv'
  BY <1>1, <1>2, <1>4, ReportShape DEF Inv
<1>5. CASE requests' \subseteq requests \cup {Claim(a)}
  <2>1. ShapeOf(Claim(a)) /\ ~ Busy(Claim(a))
    BY <1>1 DEF Claim, ShapeOf, Request, Busy, Steps, Kinds
  <2> QED  BY <1>2, <1>5, <2>1
<1> QED  BY <1>3, <1>4, <1>5 DEF AgentStep

\* Raises, after the fault was counted or the request found gone.
LEMMA RaisesStep ==
    ASSUME Inv, NEW a \in Agents, Waiting(a), Raises(a), UNCHANGED <<file, history>>,
           lost' \in [Agents -> Nat], faults' \in 0 .. MaxFaults
    PROVE  AgentStep(a) /\ Rest' /\ AgentsHaveJobs'
<1>1. CASE pc[a] = "reporting"
  <2>1. job[a] \in Jobs /\ requests' \subseteq requests \cup {Report(a, "failed")}
    BY <1>1 DEF Raises, Inv, AgentsHaveJobs
  <2>2. pc' = [pc EXCEPT ![a] = "reporting_error"] /\ UNCHANGED job
    BY <1>1 DEF Raises
  <2> QED
    BY <2>1, <2>2 DEF AgentStep, Rest, Inv, TypeOK, AgentsHaveJobs, history
<1>2. CASE pc[a] = "claiming"
  <2>1. requests' \subseteq requests
    BY <1>2 DEF Raises
  <2>2. pc' = [pc EXCEPT ![a] = "polling"] /\ UNCHANGED job
    BY <1>2 DEF Raises
  <2> QED
    BY <2>1, <2>2 DEF AgentStep, Rest, Inv, TypeOK, AgentsHaveJobs, history
<1>3. CASE pc[a] = "reporting_error"
  <2>1. requests' \subseteq requests
    BY <1>3 DEF Raises
  <2>2. pc' = [pc EXCEPT ![a] = "exited"] /\ UNCHANGED job
    BY <1>3 DEF Raises
  <2> QED
    BY <2>1, <2>2 DEF AgentStep, Rest, Inv, TypeOK, AgentsHaveJobs, history
<1> QED  BY <1>1, <1>2, <1>3 DEF Waiting

LEMMA PollStep ==
    ASSUME Inv, NEW a \in Agents, Poll(a)
    PROVE  AgentStep(a) /\ Rest' /\ AgentsHaveJobs'
BY DEF Poll, Send, AgentStep, Rest, Inv, TypeOK, AgentsHaveJobs, trouble, history

LEMMA ClaimAnsweredStep ==
    ASSUME Inv, NEW a \in Agents, ClaimAnswered(a)
    PROVE  AgentStep(a) /\ Rest' /\ AgentsHaveJobs'
<1>1. PICK r \in Answer(a) :
         /\ requests' = requests \ {r}
         /\ job' = [job EXCEPT ![a] = r.job]
         /\ pc' = [pc EXCEPT ![a] = IF r.job = NoJob THEN "polling" ELSE "training"]
  BY DEF ClaimAnswered
<1>2. r \in requests /\ r.job \in Jobs \cup {NoJob}
  BY DEF Answer, Mine, Inv, TypeOK, Request
<1>3. UNCHANGED <<file, trouble, history>>
  BY DEF ClaimAnswered
<1>4. CASE r.job = NoJob
  <2>1. pc' = [pc EXCEPT ![a] = "polling"]
    BY <1>1, <1>4
  <2> QED
    BY <1>1, <1>2, <1>3, <2>1
    DEF AgentStep, Rest, Inv, TypeOK, AgentsHaveJobs, trouble, history
<1>5. CASE r.job # NoJob
  <2>1. pc' = [pc EXCEPT ![a] = "training"]
    BY <1>1, <1>5
  <2> QED
    BY <1>1, <1>2, <1>3, <1>5, <2>1
    DEF AgentStep, Rest, Inv, TypeOK, AgentsHaveJobs, trouble, history
<1> QED  BY <1>4, <1>5

LEMMA TrainStep ==
    ASSUME Inv, NEW a \in Agents, TrainReturns(a) \/ TrainRaises(a)
    PROVE  AgentStep(a) /\ Rest' /\ AgentsHaveJobs'
<1>1. /\ job[a] \in Jobs /\ UNCHANGED <<file, job, trouble, enqueued, granted>>
      /\ \/ pc' = [pc EXCEPT ![a] = "reporting"]
         \/ pc' = [pc EXCEPT ![a] = "reporting_error"]
  BY DEF TrainReturns, TrainRaises, Inv, AgentsHaveJobs
<1>2. \E outcome \in {"ok", "bad"} : ran' = [ran EXCEPT ![job[a]] = @ \cup {outcome}]
  BY DEF TrainReturns, TrainRaises
<1>3. \E status \in {"completed", "failed"} :
         requests' \subseteq requests \cup {Report(a, status)}
  <2>1. CASE TrainRaises(a)
    BY <2>1 DEF TrainRaises, Send
  <2>2. CASE TrainReturns(a)
    <3>1. PICK outcome \in {"ok", "bad"} :
             Send(Report(a, IF outcome = "ok" THEN "completed" ELSE "failed"))
      BY <2>2 DEF TrainReturns
    <3>2. CASE outcome = "ok"
      BY <3>1, <3>2 DEF Send
    <3>3. CASE outcome = "bad"
      BY <3>1, <3>3 DEF Send
    <3> QED  BY <3>2, <3>3
  <2> QED  BY <2>1, <2>2
<1>4. AgentStep(a)
  BY <1>1, <1>3 DEF AgentStep
<1>5. ran' \in [Jobs -> SUBSET {"ok", "bad"}]
  BY <1>1, <1>2 DEF Inv, TypeOK
<1>6. Rest' /\ AgentsHaveJobs'
  BY <1>1, <1>5 DEF Rest, Inv, TypeOK, AgentsHaveJobs, trouble
<1> QED  BY <1>4, <1>6

LEMMA ReportDoneStep ==
    ASSUME Inv, NEW a \in Agents, ReportAnswered(a) \/ ReportRefused(a)
    PROVE  AgentStep(a) /\ Rest' /\ AgentsHaveJobs'
<1>1. /\ Done(a) /\ requests' \subseteq requests
      /\ UNCHANGED <<file, lost, history>>
  BY DEF ReportAnswered, ReportRefused, trouble
<1>2. faults' \in 0 .. MaxFaults
  BY FaultKeepsBound DEF ReportAnswered, ReportRefused, trouble, Inv, TypeOK
<1> QED
  BY <1>1, <1>2 DEF Done, AgentStep, Rest, Inv, TypeOK, AgentsHaveJobs, history

LEMMA RequestLostStep ==
    ASSUME Inv, NEW a \in Agents, RequestLost(a)
    PROVE  AgentStep(a) /\ Rest' /\ AgentsHaveJobs'
<1>1. faults' \in 0 .. MaxFaults /\ lost' \in [Agents -> Nat]
  BY FaultKeepsBound DEF RequestLost, Inv, TypeOK
<1> QED  BY <1>1, RaisesStep DEF RequestLost

LEMMA ConnectionLostStep ==
    ASSUME Inv, NEW a \in Agents, ConnectionLost(a)
    PROVE  AgentStep(a) /\ Rest' /\ AgentsHaveJobs'
<1>1. faults' \in 0 .. MaxFaults /\ lost' \in [Agents -> Nat]
  BY DEF ConnectionLost, Inv, TypeOK, trouble
<1> QED  BY <1>1, RaisesStep DEF ConnectionLost

LEMMA InterruptStep ==
    ASSUME Inv, NEW a \in Agents, Interrupt(a)
    PROVE  AgentStep(a) /\ Rest' /\ AgentsHaveJobs'
<1>1. faults' \in 0 .. MaxFaults
  BY FaultKeepsBound DEF Interrupt, Inv, TypeOK
<1> QED
  BY <1>1 DEF Interrupt, AgentStep, Rest, Inv, TypeOK, AgentsHaveJobs, history

AgentActs(a) == Agent(a) \/ ReportRefused(a) \/ RequestLost(a) \/ Interrupt(a)

LEMMA AgentActsStep ==
    ASSUME Inv, NEW a \in Agents, AgentActs(a)
    PROVE  AgentStep(a) /\ Rest' /\ AgentsHaveJobs'
BY PollStep, ClaimAnsweredStep, TrainStep, ReportDoneStep, RequestLostStep,
   ConnectionLostStep, InterruptStep
DEF AgentActs, Agent

LEMMA StutterInv == Inv /\ UNCHANGED vars => Inv'
BY DEF vars, trouble, history, Inv, TypeOK, RequestShape, FileUnderLock, AgentsHaveJobs

LEMMA NextInv == Inv /\ [Next]_vars => Inv'
<1> SUFFICES ASSUME Inv, [Next]_vars PROVE Inv'
  OBVIOUS
<1>1. CASE \E j \in Jobs : Enqueue(j)
  BY <1>1, EnqueueInv
<1>2. CASE Host
  BY <1>2, HandleClaimInv, HandleReportInv, TruncateInv, FillInv DEF Host
<1>3. CASE HostCrash
  BY <1>3, HostCrashInv
<1>4. CASE \E a \in Agents : AgentActs(a)
  BY <1>4, AgentActsStep, AgentStepInv
<1>5. CASE UNCHANGED vars
  BY <1>5, StutterInv
<1> QED  BY <1>1, <1>2, <1>3, <1>4, <1>5 DEF Next, AgentActs

\* The types of the queue and the agents, and that one handler at a time holds
\* the queue's lock, for any number of agents, jobs and faults.
THEOREM TypeCorrect == Spec => []TypeOK
<1>1. Inv => TypeOK
  BY DEF Inv
<1> QED  BY InitInv, NextInv, <1>1, PTL DEF Spec

-----------------------------------------------------------------------------
(* No job is given out twice *)

\* A claim of j that was granted and not read yet.
Grant(r, j) == r.kind = "claim" /\ r.step = "answered" /\ r.job = j

\* The agents that have job j, or will have it with the next answer they read.
Holders(j) ==
    {a \in Agents : job[a] = j \/ \E r \in requests : r.agent = a /\ Grant(r, j)}

\* Job j may still be given out for its latest enqueue: it is queued, or its
\* file is being written by that enqueue or by the claim that takes it.
Owed(j) ==
    \/ file[j] = "queued"
    \/ \E r \in requests :
          r.step = "truncated" /\ r.job = j /\ r.kind \in {"enqueue", "claim"}

\* What GrantedOnce needs to be inductive.
Accounted ==
    \A j \in Jobs :
        /\ Cardinality(Holders(j)) <= granted[j]
        /\ granted[j] <= enqueued[j]
        /\ Owed(j) => granted[j] < enqueued[j]

LEMMA HoldersFinite ==
    /\ \A j : IsFiniteSet(Holders(j)) /\ Cardinality(Holders(j)) \in Nat
    /\ \A j : IsFiniteSet(Holders(j)') /\ Cardinality(Holders(j)') \in Nat
<1>1. \A j : Holders(j) \subseteq Agents /\ Holders(j)' \subseteq Agents
  BY DEF Holders
<1> QED  BY <1>1, AgentsAssumption, FS_Subset, FS_CardinalityType

\* A step that gives nobody a job and owes no job more keeps the account.
LEMMA KeptAccount ==
    ASSUME Inv, Accounted, UNCHANGED <<granted, enqueued>>,
           \A j \in Jobs : Holders(j)' \subseteq Holders(j),
           \A j \in Jobs : Owed(j)' => Owed(j)
    PROVE  Accounted'
<1> SUFFICES ASSUME NEW j \in Jobs
             PROVE  /\ Cardinality(Holders(j)') <= granted[j]
                    /\ granted[j] <= enqueued[j]
                    /\ Owed(j)' => granted[j] < enqueued[j]
  BY DEF Accounted
<1>1. Cardinality(Holders(j)') <= Cardinality(Holders(j))
  BY HoldersFinite, FS_Subset
<1>2. granted[j] \in Nat /\ enqueued[j] \in Nat
  BY DEF Inv, TypeOK
<1> QED  BY <1>1, <1>2, HoldersFinite DEF Accounted

LEMMA InitAccounted == Init => Accounted
<1> SUFFICES ASSUME Init, NEW j \in Jobs
             PROVE  /\ Cardinality(Holders(j)) <= granted[j]
                    /\ granted[j] <= enqueued[j]
                    /\ Owed(j) => granted[j] < enqueued[j]
  BY DEF Accounted
<1>1. Holders(j) = {}
  BY JobsAssumption DEF Init, Holders, NoJob
<1>2. ~ Owed(j)
  BY DEF Init, Owed
<1> QED  BY <1>1, <1>2, FS_EmptySet DEF Init

\* An enqueue owes one grant more, and there may be one more.
LEMMA EnqueueAccounted ==
    ASSUME Inv, Accounted, NEW i \in Jobs, Enqueue(i)
    PROVE  Accounted'
<1> SUFFICES ASSUME NEW j \in Jobs
             PROVE  /\ Cardinality(Holders(j)') <= granted'[j]
                    /\ granted'[j] <= enqueued'[j]
                    /\ Owed(j)' => granted'[j] < enqueued'[j]
  BY DEF Accounted
<1>1. Holders(j)' = Holders(j)
  BY DEF Enqueue, Holders, Grant
<1>2. granted' = granted /\ enqueued' = [enqueued EXCEPT ![i] = @ + 1]
      /\ granted[j] \in Nat /\ enqueued[j] \in Nat
  BY DEF Enqueue, Inv, TypeOK
<1>3. CASE j = i
  <2>1. enqueued'[j] = enqueued[j] + 1
    BY <1>2, <1>3 DEF Inv, TypeOK
  <2> QED  BY <1>1, <1>2, <2>1, HoldersFinite DEF Accounted
<1>4. CASE j # i
  <2>1. enqueued'[j] = enqueued[j]
    BY <1>2, <1>4 DEF Inv, TypeOK
  <2>2. Owed(j)' => Owed(j)
    BY <1>4 DEF Enqueue, Owed, Inv, TypeOK
  <2> QED  BY <1>1, <1>2, <2>1, <2>2 DEF Accounted
<1> QED  BY <1>3, <1>4

\* An answer that grants nothing adds no holder.
LEMMA AnswerHolders ==
    ASSUME Inv, NEW r \in requests, r.kind # "enqueue",
           requests' \subseteq (requests \ {r}) \cup {AnswerTo(r)},
           UNCHANGED job, NEW j \in Jobs, r.kind = "claim" => r.job # j
    PROVE  Holders(j)' \subseteq Holders(j)
<1>1. ShapeOf(r)
  BY DEF Inv, RequestShape
<1>2. ~ Grant(AnswerTo(r), j)
  BY <1>1, AnswerShape DEF Grant
<1>3. \A x \in requests' : x \in requests \/ x = AnswerTo(r)
  OBVIOUS
<1> QED  BY <1>2, <1>3 DEF Holders

LEMMA HandleClaimAccounted ==
    ASSUME Inv, Accounted, NEW r \in requests, HandleClaim(r)
    PROVE  Accounted'
<1>1. ShapeOf(r) /\ r.kind = "claim" /\ r.step = "sent" /\ r.job = NoJob
  BY DEF Inv, RequestShape, ShapeOf, HandleClaim
<1>2. UNCHANGED <<file, job, granted, enqueued>>
  BY DEF HandleClaim, history
<1>3. NoJob \notin Jobs
  BY JobsAssumption DEF NoJob
<1>4. CASE Answered(r)
  <2>1. requests' \subseteq (requests \ {r}) \cup {AnswerTo(r)}
    BY <1>4, AnsweredChanges
  <2>2. \A j \in Jobs : Holders(j)' \subseteq Holders(j)
    BY <1>1, <1>2, <1>3, <2>1, AnswerHolders
  <2>3. AnswerTo(r).step = "answered" /\ \A x \in requests' : x \in requests \/ x = AnswerTo(r)
    BY <1>1, <2>1, AnswerShape
  <2>4. \A j \in Jobs : Owed(j)' => Owed(j)
    BY <1>2, <2>3 DEF Owed
  <2> QED  BY <1>2, <2>2, <2>4, KeptAccount
<1>5. ASSUME NEW i \in Candidates, Becomes(r, [r EXCEPT !.job = i, !.step = "locked"])
      PROVE  Accounted'
  <2> DEFINE s == [r EXCEPT !.job = i, !.step = "locked"]
  <2>1. s.step = "locked"
    BY <1>1 DEF ShapeOf, Request
  <2>2. \A x \in requests' : x \in requests \/ x = s
    BY <1>5 DEF Becomes
  <2> HIDE DEF s
  <2>3. \A j \in Jobs : Holders(j)' \subseteq Holders(j)
    BY <1>2, <2>1, <2>2 DEF Holders, Grant
  <2>4. \A j \in Jobs : Owed(j)' => Owed(j)
    BY <1>2, <2>1, <2>2 DEF Owed
  <2> QED  BY <1>2, <2>3, <2>4, KeptAccount
<1> QED  BY <1>4, <1>5 DEF HandleClaim

LEMMA HandleReportAccounted ==
    ASSUME Inv, Accounted, NEW r \in requests, HandleReport(r)
    PROVE  Accounted'
<1>1. ShapeOf(r) /\ r.kind = "report"
  BY DEF Inv, RequestShape, HandleReport
<1>2. UNCHANGED <<job, granted, enqueued>>
  BY DEF HandleReport, history
<1>3. CASE Answered(r) /\ UNCHANGED file
  <2>1. requests' \subseteq (requests \ {r}) \cup {AnswerTo(r)}
    BY <1>3, AnsweredChanges
  <2>2. \A j \in Jobs : Holders(j)' \subseteq Holders(j)
    BY <1>1, <1>2, <2>1, AnswerHolders
  <2>3. AnswerTo(r).step = "answered" /\ \A x \in requests' : x \in requests \/ x = AnswerTo(r)
    BY <1>1, <2>1, AnswerShape
  <2>4. \A j \in Jobs : Owed(j)' => Owed(j)
    BY <1>3, <2>3 DEF Owed
  <2> QED  BY <1>2, <2>2, <2>4, KeptAccount
<1>4. CASE Truncated(r)
  <2> DEFINE s == [r EXCEPT !.step = "truncated"]
  <2>1. s.step = "truncated" /\ s.kind = "report"
    BY <1>1 DEF ShapeOf, Request
  <2>2. /\ \A x \in requests' : x \in requests \/ x = s
        /\ file' = [file EXCEPT ![r.job] = "torn"]
    BY <1>4 DEF Truncated, Becomes
  <2> HIDE DEF s
  <2>3. \A j \in Jobs : Holders(j)' \subseteq Holders(j)
    BY <1>2, <2>1, <2>2 DEF Holders, Grant
  <2>4. \A j \in Jobs : Owed(j)' => Owed(j)
    BY <2>1, <2>2 DEF Owed, Inv, TypeOK
  <2> QED  BY <1>2, <2>3, <2>4, KeptAccount
<1> QED  BY <1>3, <1>4 DEF HandleReport

\* The claim that truncates a file owes what the queued file did.
LEMMA TruncateAccounted ==
    ASSUME Inv, Accounted, NEW r \in requests, Truncate(r)
    PROVE  Accounted'
<1> DEFINE s == [r EXCEPT !.step = "truncated"]
<1>1. /\ ShapeOf(r) /\ r.kind = "claim" /\ r.step = "locked" /\ r.job \in Jobs
      /\ file[r.job] = "queued"
  BY DEF Truncate, Inv, RequestShape, FileUnderLock, ShapeOf, Busy
<1>2. /\ s.step = "truncated" /\ s.job = r.job
      /\ \A x \in requests' : x \in requests \/ x = s
      /\ file' = [file EXCEPT ![r.job] = "torn"]
      /\ UNCHANGED <<job, granted, enqueued>>
  BY <1>1 DEF Truncate, Truncated, Becomes, ShapeOf, Request, history
<1> HIDE DEF s
<1>3. \A j \in Jobs : Holders(j)' \subseteq Holders(j)
  BY <1>2 DEF Holders, Grant
<1>4. \A j \in Jobs : Owed(j)' => Owed(j)
  <2> SUFFICES ASSUME NEW j \in Jobs, Owed(j)' PROVE Owed(j)
    OBVIOUS
  <2>1. CASE j = r.job
    BY <1>1, <2>1 DEF Owed
  <2>2. CASE j # r.job
    BY <1>2, <2>2 DEF Owed, Inv, TypeOK
  <2> QED  BY <2>1, <2>2
<1> QED  BY <1>2, <1>3, <1>4, KeptAccount

\* A fill pays what is owed: a claim's grant is one of the enqueues, and has
\* one holder more at most.
LEMMA FillAccounted ==
    ASSUME Inv, Accounted, NEW r \in requests, Fill(r)
    PROVE  Accounted'
<1> SUFFICES ASSUME NEW j \in Jobs
             PROVE  /\ Cardinality(Holders(j)') <= granted'[j]
                    /\ granted'[j] <= enqueued'[j]
                    /\ Owed(j)' => granted'[j] < enqueued'[j]
  BY DEF Accounted
<1>1. /\ ShapeOf(r) /\ r.job \in Jobs /\ r.step = "truncated"
      /\ requests' \subseteq (requests \ {r}) \cup {AnswerTo(r)}
      /\ r.kind = "enqueue" => requests' = requests \ {r}
      /\ \A x \in requests' : x.step # "truncated"
      /\ r.kind \in Kinds
  BY FillChanges DEF Fill, Busy, ShapeOf, Request
<1>2. /\ file' = [file EXCEPT ![r.job] = r.write]
      /\ UNCHANGED <<job, enqueued>>
      /\ granted' = IF r.kind = "claim" THEN [granted EXCEPT ![r.job] = @ + 1]
                    ELSE granted
      /\ granted[j] \in Nat /\ enqueued[j] \in Nat
  BY DEF Fill, Inv, TypeOK
<1>3. r.kind # "claim" \/ r.job # j => Holders(j)' \subseteq Holders(j)
  <2>1. CASE r.kind = "enqueue"
    BY <1>1, <1>2, <2>1 DEF Holders
  <2>2. CASE r.kind # "enqueue" /\ (r.kind # "claim" \/ r.job # j)
    BY <1>1, <1>2, <2>2, AnswerHolders
  <2> QED  BY <2>1, <2>2
<1>4. CASE r.job # j
  <2>1. granted'[j] = granted[j] /\ file'[j] = file[j]
    BY <1>1, <1>2, <1>4 DEF Inv, TypeOK
  <2>2. Owed(j)' => Owed(j)
    BY <1>1, <2>1 DEF Owed
  <2>3. Cardinality(Holders(j)') <= Cardinality(Holders(j))
    BY <1>3, <1>4, HoldersFinite, FS_Subset
  <2> QED  BY <1>2, <2>1, <2>2, <2>3, HoldersFinite DEF Accounted
<1>5. CASE r.job = j /\ r.kind = "claim"
  <2>1. granted'[j] = granted[j] + 1 /\ file'[j] = "running"
    BY <1>1, <1>2, <1>5 DEF Inv, TypeOK, ShapeOf
  <2>2. Owed(j) /\ ~ Owed(j)'
    BY <1>1, <1>5, <2>1 DEF Owed
  <2>3. r.agent \in Agents /\ AnswerTo(r).agent = r.agent
    BY <1>1, <1>5, AnswerShape DEF ShapeOf
  <2>4. Holders(j)' \subseteq Holders(j) \cup {r.agent}
    BY <1>1, <1>2, <2>3 DEF Holders
  <2>5. /\ IsFiniteSet(Holders(j) \cup {r.agent})
        /\ Cardinality(Holders(j) \cup {r.agent}) <= Cardinality(Holders(j)) + 1
    <3> DEFINE H == Holders(j)
    <3>1. IsFiniteSet(H) /\ Cardinality(H) \in Nat
      BY HoldersFinite
    <3> HIDE DEF H
    <3>2. /\ IsFiniteSet(H \cup {r.agent})
          /\ Cardinality(H \cup {r.agent}) =
                IF r.agent \in H THEN Cardinality(H) ELSE Cardinality(H) + 1
      BY <3>1, FS_AddElement
    <3>3. Cardinality(H \cup {r.agent}) <= Cardinality(H) + 1
      BY <3>1, <3>2
    <3> QED  BY <3>2, <3>3 DEF H
  <2>6. /\ Cardinality(Holders(j)') <= Cardinality(Holders(j) \cup {r.agent})
        /\ Cardinality(Holders(j) \cup {r.agent}) \in Nat
    BY <2>4, <2>5, FS_Subset, FS_CardinalityType
  <2>7. Cardinality(Holders(j)) <= granted[j] /\ granted[j] < enqueued[j]
    BY <2>2 DEF Accounted
  <2> QED  BY <1>2, <2>1, <2>2, <2>5, <2>6, <2>7, HoldersFinite
<1>6. CASE r.job = j /\ r.kind # "claim"
  <2>1. granted'[j] = granted[j]
    BY <1>2, <1>6
  <2>2. Cardinality(Holders(j)') <= Cardinality(Holders(j))
    BY <1>3, <1>6, HoldersFinite, FS_Subset
  <2>3. Owed(j)' => Owed(j)
    <3>1. CASE r.kind = "enqueue"
      BY <1>1, <1>6, <3>1 DEF Owed
    <3>2. CASE r.kind = "report"
      <4>1. file'[j] # "queued"
        BY <1>1, <1>2, <1>6, <3>2 DEF ShapeOf, Inv, TypeOK
      <4> QED  BY <1>1, <4>1 DEF Owed
    <3> QED  BY <1>1, <1>6, <3>1, <3>2 DEF Kinds
  <2> QED  BY <1>2, <2>1, <2>2, <2>3, HoldersFinite DEF Accounted
<1> QED  BY <1>4, <1>5, <1>6

LEMMA HostCrashAccounted == Inv /\ Accounted /\ HostCrash => Accounted'
<1> SUFFICES ASSUME Inv, Accounted, HostCrash PROVE Accounted'
  OBVIOUS
<1>1. /\ requests' = {} /\ UNCHANGED <<file, job, granted, enqueued>>
  BY DEF HostCrash, history
<1>2. \A j \in Jobs : Holders(j)' \subseteq Holders(j)
  BY <1>1 DEF Holders
<1>3. \A j \in Jobs : Owed(j)' => Owed(j)
  BY <1>1 DEF Owed
<1> QED  BY <1>1, <1>2, <1>3, KeptAccount

\* An agent gets a job from the answer that made it a holder, and no other way.
LEMMA AgentAccounted ==
    ASSUME Inv, Accounted, NEW a \in Agents, AgentActs(a)
    PROVE  Accounted'
<1>1. AgentStep(a)
  BY AgentActsStep
<1>2. \A x \in requests' : x \in requests \/ x.step = "sent"
  BY <1>1 DEF AgentStep, Report, Claim
<1>3. \A j \in Jobs : Owed(j)' => Owed(j)
  BY <1>1, <1>2 DEF AgentStep, Owed
<1>4. \A b \in Agents, j \in Jobs :
         job'[b] = j => job[b] = j \/ \E r \in requests : r.agent = b /\ Grant(r, j)
  <2>1. CASE ClaimAnswered(a)
    <3>1. PICK r \in Answer(a) : job' = [job EXCEPT ![a] = r.job] /\ r.kind = "claim"
      BY <2>1 DEF ClaimAnswered
    <3>2. r \in requests /\ r.agent = a /\ r.step = "answered"
      BY <3>1 DEF Answer, Mine
    <3> QED  BY <3>1, <3>2 DEF Grant, Inv, TypeOK
  <2>2. CASE ~ ClaimAnswered(a)
    <3>1. \A b \in Agents : job'[b] = job[b] \/ job'[b] = NoJob
      BY <2>2 DEF AgentActs, Agent, Poll, TrainReturns, TrainRaises, ReportAnswered,
                  ReportRefused, ConnectionLost, RequestLost, Interrupt, Raises, Done,
                  Inv, TypeOK
    <3> QED  BY <3>1, JobsAssumption DEF NoJob
  <2> QED  BY <2>1, <2>2
<1>5. \A j \in Jobs : Holders(j)' \subseteq Holders(j)
  BY <1>2, <1>4 DEF Holders, Grant
<1> QED  BY <1>1, <1>3, <1>5, KeptAccount DEF AgentStep

LEMMA AccountedPreserved == Inv /\ Accounted /\ [Next]_vars => Accounted'
<1> SUFFICES ASSUME Inv, Accounted, [Next]_vars PROVE Accounted'
  OBVIOUS
<1>1. CASE \E j \in Jobs : Enqueue(j)
  BY <1>1, EnqueueAccounted
<1>2. CASE Host
  BY <1>2, HandleClaimAccounted, HandleReportAccounted, TruncateAccounted, FillAccounted
     DEF Host
<1>3. CASE HostCrash
  BY <1>3, HostCrashAccounted
<1>4. CASE \E a \in Agents : AgentActs(a)
  BY <1>4, AgentAccounted
<1>5. CASE UNCHANGED vars
  <2>1. \A j \in Jobs : Holders(j)' = Holders(j) /\ (Owed(j)' <=> Owed(j))
    BY <1>5 DEF vars, Holders, Owed, Grant
  <2> QED  BY <1>5, <2>1 DEF vars, history, Accounted
<1> QED  BY <1>1, <1>2, <1>3, <1>4, <1>5 DEF Next, AgentActs

LEMMA AccountedGrants == Inv /\ Accounted => GrantedOnce
<1> SUFFICES ASSUME Inv, Accounted, NEW j \in Jobs
             PROVE  granted[j] <= enqueued[j] /\ Cardinality(Working(j)) <= granted[j]
  BY DEF GrantedOnce
<1>1. Working(j) \subseteq Holders(j)
  BY DEF Working, Holders
<1>2. /\ Cardinality(Working(j)) \in Nat
      /\ Cardinality(Working(j)) <= Cardinality(Holders(j))
  BY <1>1, HoldersFinite, FS_Subset, FS_CardinalityType
<1>3. granted[j] \in Nat
  BY DEF Inv, TypeOK
<1> QED  BY <1>2, <1>3, HoldersFinite DEF Accounted

(* However the agents' claims meet, are given up on or are cut off by a      *)
(* crash, a job is given out at most once for each time it was enqueued, and *)
(* has no more workers than that (JobQueue.claim, run_loop).                 *)
THEOREM GrantedOnceCorrect == Spec => []GrantedOnce
<1>1. Init => Inv /\ Accounted
  BY InitInv, InitAccounted
<1>2. Inv /\ Accounted /\ [Next]_vars => (Inv /\ Accounted)'
  BY NextInv, AccountedPreserved
<1>3. Inv /\ Accounted => GrantedOnce
  BY AccountedGrants
<1> QED  BY <1>1, <1>2, <1>3, PTL DEF Spec

-----------------------------------------------------------------------------
(* Without a fault, a running job is attended *)

\* Agents that have no job to train or report have none.
Idle == \A a \in Agents : pc[a] \in {"polling", "claiming"} => job[a] = NoJob

OneEnqueue == \A j \in Jobs : enqueued[j] <= 1

AgentsStay ==
    \A a \in Agents : pc[a] # "exited" /\ (Waiting(a) => Mine(a) # {})

\* A request is the one its agent waits for.
Belongs(r) ==
    /\ r.id = lost[r.agent]
    /\ r.kind = "claim" => pc[r.agent] = "claiming"
    /\ r.kind = "report" =>
          pc[r.agent] \in {"reporting", "reporting_error"} /\ job[r.agent] = r.job

RequestsBelong == \A r \in requests : r.kind # "enqueue" => Belongs(r)

OneRequest ==
    \A r, s \in requests :
        r.kind # "enqueue" /\ s.kind # "enqueue" /\ r.agent = s.agent => r = s

\* The agent leaves a job after its report only.
ReportedIsOver ==
    \A r \in requests :
        r.kind = "report" /\ r.step = "answered" => file[r.job] # "running"

Attended(j) ==
    Working(j) # {} \/ \E r \in requests : r.job = j /\ r.kind = "claim"

RunningAttended == \A j \in Jobs : file[j] = "running" => Attended(j)

Undisturbed ==
    OneEnqueue /\ AgentsStay /\ RequestsBelong /\ OneRequest /\ ReportedIsOver
    /\ RunningAttended

Calm == faults = 0 => Undisturbed

-----------------------------------------------------------------------------
(* A status tells how a run ended *)

\* A run of j ended as the status says, or a fault made a success a failure.
Explained(j, status) ==
    /\ status = "completed" => "ok" \in ran[j]
    /\ status = "failed" => "bad" \in ran[j] \/ ("ok" \in ran[j] /\ faults > 0)

FilesTell == \A j \in Jobs : Explained(j, file[j])

ReportsTell == \A r \in requests : r.kind = "report" => Explained(r.job, r.write)

RunsRecorded ==
    \A a \in Agents : pc[a] \in {"reporting", "reporting_error"} => ran[job[a]] # {}

Telling == FilesTell /\ ReportsTell /\ RunsRecorded

\* Runs are never forgotten, and neither are faults.
Grows == faults' >= faults /\ \A j \in Jobs : ran[j] \subseteq ran'[j]

LEMMA ExplainedGrows ==
    ASSUME Inv, Inv', Grows, NEW j \in Jobs, NEW status, Explained(j, status)
    PROVE  Explained(j, status)'
<1>1. faults \in Nat /\ faults' \in Nat /\ faults' >= faults /\ ran[j] \subseteq ran'[j]
  BY BoundAssumption DEF Inv, TypeOK, Grows
<1>2. faults > 0 => faults' > 0
  BY <1>1
<1> QED  BY <1>1, <1>2 DEF Explained

\* What a step has to show: a file ends as it was, unfinished, or as a report
\* says; a report is an earlier one or tells of a run.
LEMMA TellingKept ==
    ASSUME Inv, Telling, Inv', Grows,
           \A j \in Jobs :
              \/ file'[j] = file[j]
              \/ file'[j] \in {"torn", "queued", "running"}
              \/ \E r \in requests : r.kind = "report" /\ r.job = j /\ r.write = file'[j],
           \A x \in requests' : x.kind = "report" =>
              \/ \E r \in requests : r.kind = "report" /\ r.job = x.job /\ r.write = x.write
              \/ Explained(x.job, x.write)',
           RunsRecorded'
    PROVE  Telling'
<1>1. ASSUME NEW j \in Jobs  PROVE Explained(j, file[j])'
  <2>1. CASE file'[j] \in {"torn", "queued", "running"}
    BY <2>1 DEF Explained
  <2>2. CASE file'[j] = file[j]
    <3>1. Explained(j, file[j])
      BY DEF Telling, FilesTell
    <3>2. ASSUME NEW st, st = file[j]  PROVE Explained(j, st)'
      BY <3>1, <3>2, ExplainedGrows
    <3> QED  BY <2>2, <3>2 DEF Explained
  <2>3. ASSUME NEW r \in requests, r.kind = "report", r.job = j, r.write = file'[j]
        PROVE  Explained(j, file[j])'
    <3>1. Explained(j, r.write)'
      BY <2>3, ExplainedGrows DEF Telling, ReportsTell
    <3> QED  BY <2>3, <3>1 DEF Explained
  <2> QED  BY <2>1, <2>2, <2>3
<1>2. ASSUME NEW x \in requests', x.kind = "report"  PROVE Explained(x.job, x.write)'
  <2>1. ASSUME NEW r \in requests, r.kind = "report", r.job = x.job, r.write = x.write
        PROVE  Explained(x.job, x.write)'
    <3>1. r.job \in Jobs
      BY <2>1 DEF Inv, RequestShape, ShapeOf
    <3> QED  BY <2>1, <3>1, ExplainedGrows DEF Telling, ReportsTell
  <2> QED  BY <1>2, <2>1
<1> QED  BY <1>1, <1>2 DEF Telling, FilesTell, ReportsTell

\* A handler's step: one request is replaced by one of the same content.
LEMMA HostTelling ==
    ASSUME Inv, Telling, Inv', NEW r \in requests, NEW s,
           requests' \subseteq (requests \ {r}) \cup {s},
           s.kind = "report" =>
              r.kind = "report" /\ s.job = r.job /\ s.write = r.write,
           UNCHANGED <<pc, job, trouble, ran>>,
           \A j \in Jobs :
              \/ file'[j] = file[j]
              \/ file'[j] \in {"torn", "queued", "running"}
              \/ r.kind = "report" /\ r.job = j /\ r.write = file'[j]
    PROVE  Telling'
<1>1. Grows
  BY BoundAssumption DEF Grows, trouble, Inv, TypeOK
<1>2. RunsRecorded'
  BY DEF Telling, RunsRecorded
<1>3. ASSUME NEW x \in requests', x.kind = "report"
      PROVE  \E y \in requests : y.kind = "report" /\ y.job = x.job /\ y.write = x.write
  BY <1>3
<1> QED  BY <1>1, <1>2, <1>3, TellingKept

LEMMA AnswerWrites ==
    ASSUME NEW r, ShapeOf(r)
    PROVE  AnswerTo(r).kind = r.kind /\ AnswerTo(r).job = r.job /\ AnswerTo(r).write = r.write
BY DEF AnswerTo, ShapeOf, Request

LEMMA HostActsTelling ==
    ASSUME Inv, Telling, Inv', NEW r \in requests,
           HandleClaim(r) \/ HandleReport(r) \/ Truncate(r) \/ Fill(r)
    PROVE  Telling'
<1>1. ShapeOf(r) /\ AnswerTo(r).kind = r.kind /\ AnswerTo(r).job = r.job
      /\ AnswerTo(r).write = r.write
  BY AnswerWrites DEF Inv, RequestShape
<1>2. CASE Answered(r) /\ UNCHANGED <<file, pc, job, trouble, ran>>
  <2>1. requests' \subseteq (requests \ {r}) \cup {AnswerTo(r)}
    BY <1>2, AnsweredChanges
  <2> QED  BY <1>1, <1>2, <2>1, HostTelling
<1>3. CASE Truncated(r) /\ UNCHANGED <<pc, job, trouble, ran>>
  <2> DEFINE s == [r EXCEPT !.step = "truncated"]
  <2>1. s.kind = r.kind /\ s.job = r.job /\ s.write = r.write
    BY <1>1 DEF ShapeOf, Request
  <2>2. requests' \subseteq (requests \ {r}) \cup {s} /\ file' = [file EXCEPT ![r.job] = "torn"]
    BY <1>3 DEF Truncated, Becomes
  <2>3. \A j \in Jobs : file'[j] = file[j] \/ file'[j] \in {"torn", "queued", "running"}
    BY <2>2 DEF Inv, TypeOK
  <2> HIDE DEF s
  <2> QED  BY <1>3, <2>1, <2>2, <2>3, HostTelling
<1>4. ASSUME NEW j \in Candidates, r.kind = "claim",
             Becomes(r, [r EXCEPT !.job = j, !.step = "locked"]),
             UNCHANGED <<file, pc, job, trouble, ran>>
      PROVE  Telling'
  <2> DEFINE s == [r EXCEPT !.job = j, !.step = "locked"]
  <2>1. s.kind = "claim" /\ requests' \subseteq (requests \ {r}) \cup {s}
    BY <1>1, <1>4 DEF ShapeOf, Request, Becomes
  <2> HIDE DEF s
  <2> QED  BY <1>4, <2>1, HostTelling
<1>5. CASE Fill(r)
  <2>1. /\ requests' \subseteq (requests \ {r}) \cup {AnswerTo(r)}
        /\ file' = [file EXCEPT ![r.job] = r.write]
        /\ UNCHANGED <<pc, job, trouble, ran>>
    BY <1>5, FillChanges DEF Fill
  <2>2. r.kind # "report" => r.write \in {"queued", "running"}
    BY <1>1 DEF ShapeOf, Request, Kinds
  <2>3. \A j \in Jobs : \/ file'[j] = file[j]
                        \/ file'[j] \in {"torn", "queued", "running"}
                        \/ r.kind = "report" /\ r.job = j /\ r.write = file'[j]
    BY <2>1, <2>2 DEF Inv, TypeOK
  <2> QED  BY <1>1, <2>1, <2>3, HostTelling
<1>6. CASE HandleClaim(r)
  BY <1>2, <1>4, <1>6 DEF HandleClaim, history
<1>7. CASE HandleReport(r)
  BY <1>2, <1>3, <1>7 DEF HandleReport, history
<1>8. CASE Truncate(r)
  BY <1>3, <1>8 DEF Truncate, history
<1> QED  BY <1>5, <1>6, <1>7, <1>8

\* An agent's step that sends no report.
LEMMA SilentTelling ==
    ASSUME Inv, Telling, Inv', Grows, UNCHANGED file,
           \A x \in requests' : x.kind = "report" => x \in requests,
           RunsRecorded'
    PROVE  Telling'
BY TellingKept

LEMMA TrainTelling ==
    ASSUME Inv, Telling, Inv', NEW a \in Agents, TrainReturns(a) \/ TrainRaises(a)
    PROVE  Telling'
<1>1. job[a] \in Jobs /\ UNCHANGED <<file, job, trouble>>
  BY DEF TrainReturns, TrainRaises, Inv, AgentsHaveJobs
<1>2. PICK outcome \in {"ok", "bad"}, status \in {"completed", "failed"} :
          /\ ran' = [ran EXCEPT ![job[a]] = @ \cup {outcome}]
          /\ requests' = requests \cup {Report(a, status)}
          /\ status = IF outcome = "ok" THEN "completed" ELSE "failed"
  <2>1. CASE TrainReturns(a)
    <3>1. PICK outcome \in {"ok", "bad"} :
             /\ ran' = [ran EXCEPT ![job[a]] = @ \cup {outcome}]
             /\ Send(Report(a, IF outcome = "ok" THEN "completed" ELSE "failed"))
      BY <2>1 DEF TrainReturns
    <3>2. CASE outcome = "ok"
      BY <3>1, <3>2 DEF Send
    <3>3. CASE outcome = "bad"
      BY <3>1, <3>3 DEF Send
    <3> QED  BY <3>2, <3>3
  <2>2. CASE TrainRaises(a)
    BY <2>2 DEF TrainRaises, Send
  <2> QED  BY <2>1, <2>2
<1>3. outcome \in ran'[job[a]] /\ \A j \in Jobs : ran[j] \subseteq ran'[j]
  BY <1>1, <1>2 DEF Inv, TypeOK
<1>4. Grows
  BY <1>1, <1>3, BoundAssumption DEF Grows, trouble, Inv, TypeOK
<1>5. Explained(job[a], status)'
  BY <1>1, <1>2, <1>3 DEF Explained
<1>6. Report(a, status).job = job[a] /\ Report(a, status).write = status
  BY DEF Report
<1>7. RunsRecorded'
  <2> SUFFICES ASSUME NEW b \in Agents, pc'[b] \in {"reporting", "reporting_error"}
               PROVE  ran'[job[b]] # {}
    BY <1>1 DEF RunsRecorded
  <2>1. CASE b = a
    BY <1>3, <2>1
  <2>2. CASE b # a
    <3>1. pc[b] = pc'[b] /\ job[b] \in Jobs
      BY <2>2 DEF TrainReturns, TrainRaises, Inv, TypeOK, AgentsHaveJobs
    <3> QED  BY <1>3, <3>1 DEF Telling, RunsRecorded
  <2> QED  BY <2>1, <2>2
<1>8. ASSUME NEW x \in requests', x \notin requests  PROVE Explained(x.job, x.write)'
  BY <1>1, <1>2, <1>5, <1>6, <1>8 DEF Explained
<1>9. ASSUME NEW x \in requests', x.kind = "report"
      PROVE  \/ \E r \in requests : r.kind = "report" /\ r.job = x.job /\ r.write = x.write
             \/ Explained(x.job, x.write)'
  BY <1>8, <1>9
<1> QED  BY <1>1, <1>4, <1>7, <1>9, TellingKept

\* A report that is given up on is followed by that of a failure: of a run that
\* failed, or of a success that a fault hid.
LEMMA RaisesTelling ==
    ASSUME Inv, Telling, Inv', NEW a \in Agents, Waiting(a), Raises(a),
           UNCHANGED <<file, history>>, faults' >= faults, faults' > 0
    PROVE  Telling'
<1>1. Grows /\ UNCHANGED <<job, ran>>
  BY DEF Grows, Raises, history
<1>2. RunsRecorded'
  <2>1. \A b \in Agents : pc'[b] \in {"reporting", "reporting_error"} =>
                             pc[b] \in {"reporting", "reporting_error"}
    BY DEF Raises, Waiting, Inv, TypeOK
  <2> QED  BY <1>1, <2>1 DEF Telling, RunsRecorded
<1>3. CASE pc[a] = "reporting"
  <2>1. job[a] \in Jobs /\ ran[job[a]] # {} /\ ran[job[a]] \subseteq {"ok", "bad"}
    BY <1>3 DEF Inv, TypeOK, AgentsHaveJobs, Telling, RunsRecorded
  <2>2. Explained(job[a], "failed")'
    BY <1>1, <2>1 DEF Explained
  <2>3. Report(a, "failed").job = job[a] /\ Report(a, "failed").write = "failed"
    BY DEF Report
  <2>4. requests' \subseteq requests \cup {Report(a, "failed")}
    BY <1>3 DEF Raises
  <2>5. ASSUME NEW x \in requests', x \notin requests  PROVE Explained(x.job, x.write)'
    BY <1>1, <2>2, <2>3, <2>4, <2>5 DEF Explained
  <2>6. ASSUME NEW x \in requests', x.kind = "report"
        PROVE  \/ \E r \in requests : r.kind = "report" /\ r.job = x.job /\ r.write = x.write
               \/ Explained(x.job, x.write)'
    BY <2>5, <2>6
  <2> QED  BY <1>1, <1>2, <2>6, TellingKept
<1>4. CASE pc[a] # "reporting"
  <2>1. requests' \subseteq requests
    BY <1>4 DEF Raises
  <2> QED  BY <1>1, <1>2, <2>1, SilentTelling
<1> QED  BY <1>3, <1>4

LEMMA FaultCounts ==
    ASSUME Inv, Fault
    PROVE  faults' >= faults /\ faults' > 0 /\ faults' # 0
<1>1. faults \in Nat
  BY BoundAssumption DEF Inv, TypeOK
<1> QED  BY <1>1 DEF Fault

LEMMA AgentTelling ==
    ASSUME Inv, Telling, Calm, Inv', NEW a \in Agents, AgentActs(a)
    PROVE  Telling'
<1>0. faults \in Nat
  BY BoundAssumption DEF Inv, TypeOK
<1>1. CASE Poll(a)
  <2>1. /\ UNCHANGED <<file, job, trouble, history>>
        /\ \A x \in requests' : x \in requests \/ x.kind = "claim"
    BY <1>1 DEF Poll, Send, Claim
  <2>2. \A b \in Agents : pc'[b] \in {"reporting", "reporting_error"} => pc'[b] = pc[b]
    BY <1>1 DEF Poll, Inv, TypeOK
  <2>3. RunsRecorded' /\ Grows
    BY <1>0, <2>1, <2>2 DEF Telling, RunsRecorded, Grows, trouble, history
  <2> QED  BY <2>1, <2>3, SilentTelling
<1>2. CASE ClaimAnswered(a)
  <2>1. requests' \subseteq requests /\ UNCHANGED <<file, trouble, history>>
    BY <1>2 DEF ClaimAnswered
  <2>2. \A b \in Agents : pc'[b] \in {"reporting", "reporting_error"} =>
                             pc'[b] = pc[b] /\ job'[b] = job[b]
    <3>1. PICK r \in Answer(a) : /\ job' = [job EXCEPT ![a] = r.job]
                                 /\ pc' = [pc EXCEPT ![a] = IF r.job = NoJob THEN "polling"
                                                            ELSE "training"]
      BY <1>2 DEF ClaimAnswered
    <3> QED  BY <3>1 DEF Inv, TypeOK
  <2>3. RunsRecorded' /\ Grows
    BY <1>0, <2>1, <2>2 DEF Telling, RunsRecorded, Grows, trouble, history
  <2> QED  BY <2>1, <2>3, SilentTelling
<1>3. CASE TrainReturns(a) \/ TrainRaises(a)
  BY <1>3, TrainTelling
<1>4. CASE ReportAnswered(a) \/ ReportRefused(a) \/ Interrupt(a)
  <2>1. requests' \subseteq requests /\ UNCHANGED <<file, history>> /\ faults' >= faults
    BY <1>0, <1>4, FaultCounts DEF ReportAnswered, ReportRefused, Interrupt, trouble
  <2>2. \A b \in Agents : pc'[b] \in {"reporting", "reporting_error"} =>
                             pc'[b] = pc[b] /\ job'[b] = job[b]
    BY <1>4 DEF ReportAnswered, ReportRefused, Interrupt, Done, Inv, TypeOK
  <2>3. RunsRecorded' /\ Grows
    BY <2>1, <2>2 DEF Telling, RunsRecorded, Grows, history
  <2> QED  BY <2>1, <2>3, SilentTelling
<1>5. CASE RequestLost(a)
  BY <1>5, FaultCounts, RaisesTelling DEF RequestLost
<1>6. CASE ConnectionLost(a)
  <2>1. faults' = faults /\ faults > 0
    BY <1>0, <1>6 DEF ConnectionLost, trouble, Calm, Undisturbed, AgentsStay
  <2> QED  BY <1>0, <1>6, <2>1, RaisesTelling DEF ConnectionLost
<1> QED  BY <1>1, <1>2, <1>3, <1>4, <1>5, <1>6 DEF AgentActs, Agent

LEMMA TellingPreserved == Inv /\ Telling /\ Calm /\ [Next]_vars => Telling'
<1> SUFFICES ASSUME Inv, Telling, Calm, [Next]_vars PROVE Telling'
  OBVIOUS
<1>0. Inv' /\ faults \in Nat
  BY NextInv, BoundAssumption DEF Inv, TypeOK
<1>1. ASSUME NEW j \in Jobs, Enqueue(j)  PROVE Telling'
  <2>1. /\ file' = [file EXCEPT ![j] = "torn"] /\ UNCHANGED <<pc, job, ran>>
        /\ \A x \in requests' : x \in requests \/ x.kind = "enqueue"
        /\ faults' >= faults
    BY <1>0, <1>1, FaultCounts DEF Enqueue
  <2>2. Grows /\ RunsRecorded'
    BY <2>1 DEF Grows, Telling, RunsRecorded
  <2>3. \A i \in Jobs : file'[i] = file[i] \/ file'[i] \in {"torn", "queued", "running"}
    BY <2>1 DEF Inv, TypeOK
  <2> QED  BY <1>0, <2>1, <2>2, <2>3, TellingKept
<1>2. CASE Host
  BY <1>0, <1>2, HostActsTelling DEF Host
<1>3. CASE HostCrash
  <2>1. requests' = {} /\ UNCHANGED <<file, pc, job, ran>> /\ faults' >= faults
    BY <1>3, FaultCounts DEF HostCrash, history
  <2>2. Grows /\ RunsRecorded'
    BY <2>1 DEF Grows, Telling, RunsRecorded
  <2> QED  BY <1>0, <2>1, <2>2, SilentTelling
<1>4. CASE \E a \in Agents : AgentActs(a)
  BY <1>0, <1>4, AgentTelling
<1>5. CASE UNCHANGED vars
  <2>1. Grows /\ RunsRecorded' /\ UNCHANGED <<file, requests>>
    BY <1>0, <1>5 DEF vars, trouble, history, Grows, Telling, RunsRecorded
  <2> QED  BY <1>0, <2>1, SilentTelling
<1> QED  BY <1>1, <1>2, <1>3, <1>4, <1>5 DEF Next, AgentActs

-----------------------------------------------------------------------------
(* What keeps a running job attended *)

LEMMA IdleKept == Inv /\ Idle /\ [Next]_vars => Idle'
<1> SUFFICES ASSUME Inv, Idle, [Next]_vars PROVE Idle'
  OBVIOUS
<1>1. CASE UNCHANGED <<pc, job>>
  BY <1>1 DEF Idle
<1>2. ASSUME NEW a \in Agents, AgentActs(a)  PROVE Idle'
  <2>1. CASE ClaimAnswered(a)
    <3>1. PICK r \in Answer(a) : /\ job' = [job EXCEPT ![a] = r.job]
                                 /\ pc' = [pc EXCEPT ![a] = IF r.job = NoJob THEN "polling"
                                                            ELSE "training"]
      BY <2>1 DEF ClaimAnswered
    <3> QED  BY <3>1 DEF Idle, Inv, TypeOK
  <2>2. CASE RequestLost(a) \/ ConnectionLost(a)
    BY <2>2 DEF RequestLost, ConnectionLost, Raises, Waiting, Idle, Inv, TypeOK
  <2>3. CASE ~ (ClaimAnswered(a) \/ RequestLost(a) \/ ConnectionLost(a))
    BY <1>2, <2>3
    DEF AgentActs, Agent, Poll, TrainReturns, TrainRaises, ReportAnswered, ReportRefused,
        Interrupt, Done, Idle, Inv, TypeOK
  <2> QED  BY <2>1, <2>2, <2>3
<1> QED
  BY <1>1, <1>2
  DEF Next, AgentActs, Enqueue, Host, HandleClaim, HandleReport, Truncate, Fill, HostCrash,
      vars

\* Without a fault the agent of a request waits for its answer.
LEMMA AnsweredExactly ==
    ASSUME Inv, Undisturbed, NEW r \in requests, r.kind # "enqueue", Answered(r)
    PROVE  requests' = (requests \ {r}) \cup {AnswerTo(r)}
<1>1. r.agent \in Agents /\ r.id = lost[r.agent] /\ pc[r.agent] # "exited"
  BY DEF Inv, RequestShape, ShapeOf, Undisturbed, AgentsStay, RequestsBelong, Belongs
<1>2. r \in Mine(r.agent)
  BY <1>1 DEF Mine
<1> QED  BY <1>1, <1>2 DEF Answered, Becomes, AnswerTo

\* A handler replaces a request by one of the same agent, and takes no job from
\* a claim.
LEMMA HostKeepsCalm ==
    ASSUME Inv, Undisturbed, NEW r \in requests, r.kind # "enqueue", NEW s,
           s.kind = r.kind, s.agent = r.agent, s.id = r.id,
           r.job \in Jobs => s.job = r.job,
           requests' = (requests \ {r}) \cup {s},
           UNCHANGED <<pc, job, lost, enqueued>>,
           \A x \in requests' :
              x.kind = "report" /\ x.step = "answered" => file'[x.job] # "running",
           \A j \in Jobs : file'[j] = "running" =>
              file[j] = "running" \/ (s.kind = "claim" /\ s.job = j)
    PROVE  Undisturbed'
<1>1. ShapeOf(r) /\ (r.kind = "report" => s.job = r.job)
  BY DEF Inv, RequestShape, ShapeOf
<1>2. \A x \in requests' : x \in requests \/ x = s
  OBVIOUS
<1>3. OneEnqueue'
  BY DEF Undisturbed, OneEnqueue
<1>4. AgentsStay'
  <2> SUFFICES ASSUME NEW a \in Agents  PROVE pc[a] # "exited" /\ (Waiting(a) => Mine(a)' # {})
    BY DEF AgentsStay, Waiting
  <2>1. \A x \in Mine(a) : x \in Mine(a)' \/ s \in Mine(a)'
    BY DEF Mine
  <2> QED  BY <2>1 DEF Undisturbed, AgentsStay
<1>5. RequestsBelong'
  <2> SUFFICES ASSUME NEW x \in requests', x.kind # "enqueue"  PROVE Belongs(x)'
    BY DEF RequestsBelong
  <2>1. CASE x \in requests
    BY <2>1 DEF Undisturbed, RequestsBelong, Belongs
  <2>2. CASE x = s
    BY <1>1, <2>2 DEF Undisturbed, RequestsBelong, Belongs
  <2> QED  BY <1>2, <2>1, <2>2
<1>6. OneRequest'
  BY DEF Undisturbed, OneRequest
<1>7. ReportedIsOver'
  BY DEF ReportedIsOver
<1>8. RunningAttended'
  <2> SUFFICES ASSUME NEW j \in Jobs, file'[j] = "running"  PROVE Attended(j)'
    BY DEF RunningAttended
  <2>1. CASE s.kind = "claim" /\ s.job = j
    BY <2>1 DEF Attended
  <2>2. CASE Working(j) # {}
    BY <2>2 DEF Attended, Working
  <2>3. CASE \E x \in requests : x.job = j /\ x.kind = "claim"
    BY <2>3 DEF Attended
  <2> QED  BY <2>1, <2>2, <2>3 DEF Undisturbed, RunningAttended, Attended
<1> QED  BY <1>3, <1>4, <1>5, <1>6, <1>7, <1>8 DEF Undisturbed

\* A claim does not write the file of a job whose report was answered: an
\* agent still has that job, and it was enqueued once.
LEMMA ClaimedIsNotReported ==
    ASSUME Inv, Accounted, Undisturbed, NEW r \in requests, r.kind = "claim",
           r.step = "truncated", NEW x \in requests, x.kind = "report", x.job = r.job
    PROVE  FALSE
<1>1. r.job \in Jobs /\ x.agent \in Agents
  BY DEF Inv, RequestShape, ShapeOf, Busy
<1>2. job[x.agent] = r.job
  BY DEF Undisturbed, RequestsBelong, Belongs
<1>3. x.agent \in Holders(r.job)
  BY <1>1, <1>2 DEF Holders
<1>4. Cardinality(Holders(r.job)) # 0
  BY <1>3, HoldersFinite, FS_EmptySet
<1>5. Owed(r.job)
  BY DEF Owed
<1>6. granted[r.job] \in Nat /\ enqueued[r.job] \in Nat /\ enqueued[r.job] <= 1
  BY <1>1 DEF Inv, TypeOK, Undisturbed, OneEnqueue
<1>7. Cardinality(Holders(r.job)) <= granted[r.job] /\ granted[r.job] < enqueued[r.job]
  BY <1>1, <1>5 DEF Accounted
<1>8. Cardinality(Holders(r.job)) \in Nat
  BY HoldersFinite
<1> QED  BY <1>4, <1>6, <1>7, <1>8

LEMMA HostActsCalm ==
    ASSUME Inv, Accounted, Undisturbed, NEW r \in requests,
           HandleClaim(r) \/ HandleReport(r) \/ Truncate(r) \/ Fill(r)
    PROVE  Undisturbed'
<1>0. /\ ShapeOf(r) /\ AnswerTo(r).kind = r.kind /\ AnswerTo(r).job = r.job
      /\ AnswerTo(r).agent = r.agent /\ AnswerTo(r).id = r.id
  BY DEF Inv, RequestShape, AnswerTo, ShapeOf, Request
<1>1. UNCHANGED <<pc, job, lost, enqueued>>
  BY DEF HandleClaim, HandleReport, Truncate, Fill, trouble, history
<1>2. \A x \in requests :
          x.kind = "report" /\ x.step = "answered" => file[x.job] # "running"
  BY DEF Undisturbed, ReportedIsOver
<1>3. CASE Answered(r) /\ UNCHANGED file /\ r.kind = "claim"
  <2>1. requests' = (requests \ {r}) \cup {AnswerTo(r)}
    BY <1>3, AnsweredExactly
  <2> QED  BY <1>0, <1>1, <1>2, <1>3, <2>1, HostKeepsCalm
<1>4. CASE Answered(r) /\ UNCHANGED file /\ r.kind = "report" /\ file[r.job] # "running"
  <2>1. requests' = (requests \ {r}) \cup {AnswerTo(r)}
    BY <1>4, AnsweredExactly
  <2> QED  BY <1>0, <1>1, <1>2, <1>4, <2>1, HostKeepsCalm
<1>5. ASSUME NEW j \in Candidates, r.kind = "claim", r.step = "sent", UNCHANGED file,
             Becomes(r, [r EXCEPT !.job = j, !.step = "locked"])
      PROVE  Undisturbed'
  <2> DEFINE s == [r EXCEPT !.job = j, !.step = "locked"]
  <2>1. /\ s.kind = r.kind /\ s.agent = r.agent /\ s.id = r.id
        /\ requests' = (requests \ {r}) \cup {s}
    BY <1>0, <1>5 DEF ShapeOf, Request, Becomes
  <2>2. r.job \notin Jobs
    BY <1>0, <1>5, JobsAssumption DEF ShapeOf, NoJob
  <2> HIDE DEF s
  <2> QED  BY <1>1, <1>2, <1>5, <2>1, <2>2, HostKeepsCalm
<1>6. CASE Truncated(r) /\ r.kind # "enqueue" /\ r.job \in Jobs
  <2> DEFINE s == [r EXCEPT !.step = "truncated"]
  <2>1. /\ s.kind = r.kind /\ s.agent = r.agent /\ s.id = r.id /\ s.job = r.job
        /\ s.step = "truncated" /\ requests' = (requests \ {r}) \cup {s}
    BY <1>0, <1>6 DEF ShapeOf, Request, Truncated, Becomes
  <2>2. file' = [file EXCEPT ![r.job] = "torn"]
    BY <1>6 DEF Truncated
  <2> HIDE DEF s
  <2>3. \A i \in Jobs : file'[i] = "running" => file[i] = "running"
    BY <2>2 DEF Inv, TypeOK
  <2>4. \A x \in requests' :
           x.kind = "report" /\ x.step = "answered" => x \in requests /\ x.job \in Jobs
    BY <2>1 DEF Inv, RequestShape, ShapeOf
  <2>5. \A x \in requests' :
           x.kind = "report" /\ x.step = "answered" => file'[x.job] # "running"
    BY <1>2, <2>3, <2>4
  <2> QED  BY <1>1, <1>6, <2>1, <2>3, <2>5, HostKeepsCalm
<1>7. CASE Fill(r)
  <2>1. r.step = "truncated" /\ file' = [file EXCEPT ![r.job] = r.write] /\ r.job \in Jobs
        /\ Answered(r)
    BY <1>0, <1>7 DEF Fill, ShapeOf, Busy
  <2>2. \A i \in Jobs : file'[i] = IF i = r.job THEN r.write ELSE file[i]
    BY <2>1 DEF Inv, TypeOK
  <2>3. \A x \in requests : x.kind = "report" => x.job \in Jobs
    BY DEF Inv, RequestShape, ShapeOf
  <2>4. CASE r.kind = "enqueue"
    <3>1. requests' = requests \ {r}
      BY <1>7, <2>4, FillChanges
    <3>2. r.write = "queued"
      BY <1>0, <2>4 DEF ShapeOf
    <3>3. OneEnqueue' /\ RequestsBelong' /\ OneRequest'
      BY <1>1, <3>1 DEF Undisturbed, OneEnqueue, RequestsBelong, Belongs, OneRequest
    <3>4. AgentsStay'
      <4> SUFFICES ASSUME NEW a \in Agents
                   PROVE  pc[a] # "exited" /\ (Waiting(a) => Mine(a)' # {})
        BY <1>1 DEF AgentsStay, Waiting
      <4>1. r \notin Mine(a)
        <5>1. r.agent \notin Agents
          BY <1>0, <2>4, AgentsAssumption DEF ShapeOf
        <5> QED  BY <5>1 DEF Mine
      <4>2. Mine(a)' = Mine(a)
        BY <1>1, <3>1, <4>1 DEF Mine
      <4> QED  BY <4>2 DEF Undisturbed, AgentsStay
    <3>5. ReportedIsOver'
      BY <1>2, <2>2, <2>3, <3>1, <3>2 DEF ReportedIsOver
    <3>6. RunningAttended'
      <4> SUFFICES ASSUME NEW j \in Jobs, file'[j] = "running"  PROVE Attended(j)'
        BY DEF RunningAttended
      <4>1. Attended(j)
        BY <2>2, <3>2 DEF Undisturbed, RunningAttended
      <4> QED  BY <1>1, <2>4, <3>1, <4>1 DEF Attended, Working
    <3> QED  BY <3>3, <3>4, <3>5, <3>6 DEF Undisturbed
  <2>5. CASE r.kind = "claim"
    <3>1. requests' = (requests \ {r}) \cup {AnswerTo(r)}
      BY <2>1, <2>5, AnsweredExactly
    <3>2. ASSUME NEW x \in requests', x.kind = "report", x.step = "answered"
          PROVE  file'[x.job] # "running"
      <4>1. x \in requests
        BY <1>0, <2>5, <3>1, <3>2
      <4>2. x.job # r.job
        BY <2>1, <2>5, <3>2, <4>1, ClaimedIsNotReported
      <4> QED  BY <1>2, <2>2, <2>3, <3>2, <4>1, <4>2
    <3> QED  BY <1>0, <1>1, <2>2, <2>5, <3>1, <3>2, HostKeepsCalm
  <2>6. CASE r.kind = "report"
    <3>1. requests' = (requests \ {r}) \cup {AnswerTo(r)}
      BY <2>1, <2>6, AnsweredExactly
    <3>2. r.write # "running"
      BY <1>0, <2>6 DEF ShapeOf
    <3>3. \A x \in requests' : x.kind = "report" =>
             x.job = r.job \/ (x \in requests /\ x.job \in Jobs)
      BY <1>0, <2>3, <3>1
    <3>4. ASSUME NEW x \in requests', x.kind = "report", x.step = "answered"
          PROVE  file'[x.job] # "running"
      BY <1>2, <2>1, <2>2, <3>2, <3>3, <3>4
    <3> QED  BY <1>0, <1>1, <2>2, <2>6, <3>1, <3>2, <3>4, HostKeepsCalm
  <2> QED  BY <1>0, <2>4, <2>5, <2>6 DEF ShapeOf, Request, Kinds
<1>8. CASE HandleClaim(r)
  BY <1>3, <1>5, <1>8 DEF HandleClaim
<1>9. CASE HandleReport(r)
  BY <1>0, <1>4, <1>6, <1>9 DEF HandleReport, ShapeOf
<1>10. CASE Truncate(r)
  BY <1>0, <1>6, <1>10 DEF Truncate, ShapeOf, Busy
<1> QED  BY <1>7, <1>8, <1>9, <1>10

\* An agent reads the answer it waited for.
LEMMA AgentReadsCalm ==
    ASSUME Inv, Undisturbed, NEW a \in Agents, NEW r \in requests,
           r.kind # "enqueue", r.agent = a, requests' = requests \ {r},
           \A b \in Agents \ {a} : pc'[b] = pc[b] /\ job'[b] = job[b],
           ~ Waiting(a)', pc'[a] # "exited", UNCHANGED <<file, lost, enqueued>>
    PROVE  (OneEnqueue /\ AgentsStay /\ RequestsBelong /\ OneRequest /\ ReportedIsOver)'
<1>1. OneEnqueue' /\ OneRequest' /\ ReportedIsOver'
  BY DEF Undisturbed, OneEnqueue, OneRequest, ReportedIsOver
<1>2. RequestsBelong'
  <2> SUFFICES ASSUME NEW x \in requests', x.kind # "enqueue"  PROVE Belongs(x)'
    BY DEF RequestsBelong
  <2>1. x.agent \in Agents \ {a}
    BY DEF Undisturbed, OneRequest, Inv, RequestShape, ShapeOf
  <2>2. Belongs(x)
    BY DEF Undisturbed, RequestsBelong
  <2> QED  BY <2>1, <2>2 DEF Belongs
<1>3. AgentsStay'
  <2> SUFFICES ASSUME NEW b \in Agents  PROVE pc'[b] # "exited" /\ (Waiting(b)' => Mine(b)' # {})
    BY DEF AgentsStay
  <2>1. CASE b # a
    <3>1. Waiting(b)' => Waiting(b)
      BY <2>1 DEF Waiting
    <3>2. Mine(b)' = Mine(b)
      BY <2>1 DEF Mine
    <3> QED  BY <2>1, <3>1, <3>2 DEF Undisturbed, AgentsStay
  <2> QED  BY <2>1
<1> QED  BY <1>1, <1>2, <1>3

\* An agent that waits for nothing sends a request.
LEMMA AgentSendsCalm ==
    ASSUME Inv, Undisturbed, NEW a \in Agents, ~ Waiting(a), NEW s,
           s.agent = a, s.kind \in {"claim", "report"}, s.step = "sent", Belongs(s)',
           requests' = requests \cup {s}, UNCHANGED <<file, job, lost, enqueued>>,
           \A b \in Agents \ {a} : pc'[b] = pc[b], pc'[a] # "exited"
    PROVE  Undisturbed'
<1>1. \A x \in requests : x.kind # "enqueue" => x.agent \in Agents \ {a}
  <2> SUFFICES ASSUME NEW x \in requests, x.kind # "enqueue"  PROVE x.agent \in Agents \ {a}
    OBVIOUS
  <2>1. ShapeOf(x) /\ Belongs(x)
    BY DEF Undisturbed, RequestsBelong, Inv, RequestShape
  <2> QED  BY <2>1 DEF ShapeOf, Request, Kinds, Belongs, Waiting
<1>2. OneEnqueue' /\ OneRequest' /\ ReportedIsOver'
  BY <1>1 DEF Undisturbed, OneEnqueue, OneRequest, ReportedIsOver
<1>3. RequestsBelong'
  <2> SUFFICES ASSUME NEW x \in requests, x.kind # "enqueue"  PROVE Belongs(x)'
    BY DEF RequestsBelong
  <2>1. Belongs(x)
    BY DEF Undisturbed, RequestsBelong
  <2> QED  BY <1>1, <2>1 DEF Belongs
<1>4. AgentsStay'
  <2> SUFFICES ASSUME NEW b \in Agents  PROVE pc'[b] # "exited" /\ (Waiting(b)' => Mine(b)' # {})
    BY DEF AgentsStay
  <2>1. CASE b # a
    <3>1. (Waiting(b)' => Waiting(b)) /\ Mine(b) \subseteq Mine(b)'
      BY <2>1 DEF Waiting, Mine
    <3> QED  BY <2>1, <3>1 DEF Undisturbed, AgentsStay
  <2>2. CASE b = a
    BY <2>2 DEF Mine, Belongs
  <2> QED  BY <2>1, <2>2
<1>5. RunningAttended'
  BY DEF Undisturbed, RunningAttended, Attended, Working
<1> QED  BY <1>2, <1>3, <1>4, <1>5 DEF Undisturbed

LEMMA AgentCalm ==
    ASSUME Inv, Undisturbed, Idle, NEW a \in Agents, AgentActs(a), faults = 0, faults' = 0
    PROVE  Undisturbed'
<1>1. CASE Poll(a)
  <2>1. /\ requests' = requests \cup {Claim(a)} /\ pc[a] = "polling"
        /\ pc' = [pc EXCEPT ![a] = "claiming"]
        /\ UNCHANGED <<file, job, lost, enqueued>>
    BY <1>1 DEF Poll, Send, trouble, history
  <2>2. /\ Claim(a).agent = a /\ Claim(a).kind = "claim" /\ Claim(a).step = "sent"
        /\ Claim(a).id = lost'[a]
    BY DEF Claim
  <2>3. ~ Waiting(a) /\ pc'[a] = "claiming" /\ \A b \in Agents \ {a} : pc'[b] = pc[b]
    BY <2>1 DEF Waiting, Inv, TypeOK
  <2>4. ASSUME NEW s, s = Claim(a)  PROVE Undisturbed'
    <3>1. Belongs(s)'
      BY <2>2, <2>3, <2>4 DEF Belongs
    <3> QED  BY <2>1, <2>2, <2>3, <2>4, <3>1, AgentSendsCalm
  <2> QED  BY <2>4
<1>2. CASE TrainReturns(a) \/ TrainRaises(a)
  <2>1. PICK status \in {"completed", "failed"} : requests' = requests \cup {Report(a, status)}
    <3>1. CASE TrainReturns(a)
      <4>1. PICK outcome \in {"ok", "bad"} :
               Send(Report(a, IF outcome = "ok" THEN "completed" ELSE "failed"))
        BY <3>1 DEF TrainReturns
      <4>2. CASE outcome = "ok"
        BY <4>1, <4>2 DEF Send
      <4>3. CASE outcome = "bad"
        BY <4>1, <4>3 DEF Send
      <4> QED  BY <4>2, <4>3
    <3>2. CASE TrainRaises(a)
      BY <3>2 DEF TrainRaises, Send
    <3> QED  BY <1>2, <3>1, <3>2
  <2>2. /\ ~ Waiting(a) /\ pc'[a] \in {"reporting", "reporting_error"}
        /\ \A b \in Agents \ {a} : pc'[b] = pc[b]
        /\ UNCHANGED <<file, job, lost, enqueued>>
    BY <1>2 DEF TrainReturns, TrainRaises, Waiting, Inv, TypeOK, trouble
  <2>3. ASSUME NEW s, s = Report(a, status)  PROVE Undisturbed'
    <3>1. /\ s.agent = a /\ s.kind = "report" /\ s.step = "sent" /\ s.id = lost'[a]
          /\ s.job = job[a]
      BY <2>3 DEF Report
    <3>2. Belongs(s)'
      BY <2>2, <3>1 DEF Belongs
    <3> QED  BY <2>1, <2>2, <2>3, <3>1, <3>2, AgentSendsCalm
  <2> QED  BY <2>3
<1>3. CASE ClaimAnswered(a)
  <2>1. PICK r \in Answer(a) :
           /\ r.kind = "claim" /\ requests' = requests \ {r}
           /\ job' = [job EXCEPT ![a] = r.job]
           /\ pc' = [pc EXCEPT ![a] = IF r.job = NoJob THEN "polling" ELSE "training"]
    BY <1>3 DEF ClaimAnswered
  <2>2. r \in requests /\ r.agent = a /\ UNCHANGED <<file, lost, enqueued>>
    BY <1>3 DEF ClaimAnswered, Answer, Mine, trouble, history
  <2>3. /\ pc'[a] \in {"polling", "training"} /\ job'[a] = r.job
        /\ \A b \in Agents \ {a} : pc'[b] = pc[b] /\ job'[b] = job[b]
    BY <2>1 DEF Inv, TypeOK
  <2>4. (OneEnqueue /\ AgentsStay /\ RequestsBelong /\ OneRequest /\ ReportedIsOver)'
    BY <2>1, <2>2, <2>3, AgentReadsCalm DEF Waiting
  <2>5. RunningAttended'
    <3> SUFFICES ASSUME NEW j \in Jobs, file'[j] = "running"  PROVE Attended(j)'
      BY DEF RunningAttended
    <3>1. Attended(j) /\ job[a] = NoJob /\ j # NoJob
      BY <1>3, <2>2, JobsAssumption
      DEF Undisturbed, RunningAttended, Idle, ClaimAnswered, NoJob
    <3>2. CASE r.job = j
      BY <2>3, <3>2 DEF Attended, Working
    <3>3. CASE r.job # j
      <4>1. Working(j) \subseteq Working(j)'
        BY <2>3, <3>1 DEF Working
      <4> QED  BY <2>1, <3>1, <3>3, <4>1 DEF Attended
    <3> QED  BY <3>2, <3>3
  <2> QED  BY <2>4, <2>5 DEF Undisturbed
<1>4. CASE ReportAnswered(a)
  <2>1. PICK r \in Answer(a) : requests' = requests \ {r}
    BY <1>4 DEF ReportAnswered
  <2>2. /\ r \in requests /\ r.agent = a /\ r.step = "answered" /\ ShapeOf(r)
        /\ UNCHANGED <<file, lost, enqueued>>
    BY <1>4 DEF ReportAnswered, Answer, Mine, trouble, history, Inv, RequestShape
  <2>3. r.kind = "report"
    BY <1>4, <2>2
    DEF ReportAnswered, ShapeOf, Request, Kinds, Undisturbed, RequestsBelong, Belongs
  <2>4. r.job = job[a] /\ file[r.job] # "running"
    BY <2>2, <2>3 DEF Undisturbed, RequestsBelong, Belongs, ReportedIsOver
  <2>5. /\ pc'[a] = "polling"
        /\ \A b \in Agents \ {a} : pc'[b] = pc[b] /\ job'[b] = job[b]
    BY <1>4 DEF ReportAnswered, Done, Inv, TypeOK
  <2>6. (OneEnqueue /\ AgentsStay /\ RequestsBelong /\ OneRequest /\ ReportedIsOver)'
    BY <2>1, <2>2, <2>3, <2>5, AgentReadsCalm DEF Waiting
  <2>7. RunningAttended'
    <3> SUFFICES ASSUME NEW j \in Jobs, file'[j] = "running"  PROVE Attended(j)'
      BY DEF RunningAttended
    <3>1. Attended(j) /\ j # job[a]
      BY <2>2, <2>4 DEF Undisturbed, RunningAttended
    <3>2. Working(j) \subseteq Working(j)'
      BY <2>5, <3>1 DEF Working
    <3> QED  BY <2>1, <2>3, <3>1, <3>2 DEF Attended
  <2> QED  BY <2>6, <2>7 DEF Undisturbed
<1>5. ~ ConnectionLost(a)
  BY DEF ConnectionLost, Undisturbed, AgentsStay
<1>6. ~ Fault
  BY FaultCounts
<1> QED
  BY <1>1, <1>2, <1>3, <1>4, <1>5, <1>6
  DEF AgentActs, Agent, ReportRefused, RequestLost, Interrupt

LEMMA CalmPreserved == Inv /\ Accounted /\ Idle /\ Calm /\ [Next]_vars => Calm'
<1> SUFFICES ASSUME Inv, Accounted, Idle, Calm, [Next]_vars, faults' = 0
             PROVE  Undisturbed'
  BY DEF Calm
<1>1. ~ Fault
  BY FaultCounts
<1>2. faults = 0 /\ Undisturbed
  <2>1. UNCHANGED faults
    BY <1>1 DEF Next, Enqueue, Host, HandleClaim, HandleReport, Truncate, Fill, HostCrash,
                Agent, Poll, ClaimAnswered, TrainReturns, TrainRaises, ReportAnswered,
                ConnectionLost, ReportRefused, RequestLost, Interrupt, trouble, vars
  <2> QED  BY <2>1 DEF Calm
<1>3. ASSUME NEW j \in Jobs, Enqueue(j)  PROVE Undisturbed'
  <2> DEFINE s == [kind |-> "enqueue", agent |-> "laptop", id |-> 0, job |-> j,
                   write |-> "queued", step |-> "truncated"]
  <2>1. /\ s.kind = "enqueue" /\ s.agent = "laptop" /\ requests' = requests \cup {s}
    BY <1>3 DEF Enqueue
  <2>2. /\ enqueued[j] = 0 /\ enqueued' = [enqueued EXCEPT ![j] = @ + 1]
        /\ file' = [file EXCEPT ![j] = "torn"]
        /\ UNCHANGED <<pc, job, lost>>
    BY <1>1, <1>3 DEF Enqueue
  <2> HIDE DEF s
  <2>3. OneEnqueue'
    BY <1>2, <2>2 DEF Undisturbed, OneEnqueue, Inv, TypeOK
  <2>4. RequestsBelong' /\ OneRequest'
    BY <1>2, <2>1, <2>2 DEF Undisturbed, RequestsBelong, Belongs, OneRequest
  <2>5. AgentsStay'
    <3>1. \A a \in Agents : Mine(a) \subseteq Mine(a)' /\ (Waiting(a)' => Waiting(a))
      BY <2>1, <2>2 DEF Mine, Waiting
    <3> QED  BY <1>2, <2>2, <3>1 DEF Undisturbed, AgentsStay
  <2>6. \A i \in Jobs : file'[i] = "running" => file[i] = "running"
    BY <2>2 DEF Inv, TypeOK
  <2>7. ReportedIsOver'
    <3>1. \A x \in requests : x.kind = "report" => x.job \in Jobs
      BY DEF Inv, RequestShape, ShapeOf
    <3> QED  BY <1>2, <2>1, <2>6, <3>1 DEF Undisturbed, ReportedIsOver
  <2>8. RunningAttended'
    BY <1>2, <2>1, <2>2, <2>6 DEF Undisturbed, RunningAttended, Attended, Working
  <2> QED  BY <2>3, <2>4, <2>5, <2>7, <2>8 DEF Undisturbed
<1>4. CASE Host
  BY <1>2, <1>4, HostActsCalm DEF Host
<1>5. ~ HostCrash
  BY <1>1 DEF HostCrash
<1>6. CASE \E a \in Agents : AgentActs(a)
  BY <1>2, <1>6, AgentCalm
<1>7. CASE UNCHANGED vars
  BY <1>2, <1>7
  DEF vars, trouble, history, Undisturbed, OneEnqueue, AgentsStay, RequestsBelong, Belongs,
      OneRequest, ReportedIsOver, RunningAttended, Attended, Working, Waiting, Mine
<1> QED  BY <1>3, <1>4, <1>5, <1>6, <1>7 DEF Next, AgentActs

LEMMA InitCalm == Init => Idle /\ Calm /\ Telling
<1> SUFFICES ASSUME Init PROVE Idle /\ Calm /\ Telling
  OBVIOUS
<1>1. Idle
  BY DEF Init, Idle
<1>2. Undisturbed
  BY DEF Init, Undisturbed, OneEnqueue, AgentsStay, RequestsBelong, OneRequest,
         ReportedIsOver, RunningAttended, Waiting
<1>3. Telling
  BY DEF Init, Telling, FilesTell, ReportsTell, RunsRecorded, Explained
<1> QED  BY <1>1, <1>2, <1>3 DEF Calm

LEMMA FullInvariant == Spec => [](Inv /\ Accounted /\ Idle /\ Calm /\ Telling)
<1>1. Init => Inv /\ Accounted /\ Idle /\ Calm /\ Telling
  BY InitInv, InitAccounted, InitCalm
<1>2. Inv /\ Accounted /\ Idle /\ Calm /\ Telling /\ [Next]_vars
         => (Inv /\ Accounted /\ Idle /\ Calm /\ Telling)'
  BY NextInv, AccountedPreserved, IdleKept, CalmPreserved, TellingPreserved
<1> QED  BY <1>1, <1>2, PTL DEF Spec

\* A job that is running has an agent at work on it, or its answer on the way,
\* unless a request was lost or refused, the host crashed or an agent was
\* stopped (run_loop, JobQueue.claim, JobQueue.update).
THEOREM RunningIsAttendedCorrect == Spec => []RunningIsAttended
<1>1. Calm => RunningIsAttended
  BY DEF Calm, Undisturbed, RunningAttended, Attended, RunningIsAttended
<1> QED  BY FullInvariant, <1>1, PTL

\* The status of a job's file says how a run of it ended: completed only after
\* a run that returned 0, failed only after one that did not, or after a fault
\* on the way of the report (run_loop, JobQueue.update).
THEOREM HonestStatusCorrect == Spec => []HonestStatus
<1>1. Inv /\ Telling => HonestStatus
  <2> SUFFICES ASSUME Inv, Telling, NEW j \in Jobs
               PROVE  /\ file[j] = "completed" => "ok" \in ran[j]
                      /\ file[j] = "failed" =>
                            \/ "bad" \in ran[j]
                            \/ ran[j] = {"ok"} /\ faults > 0
    BY DEF HonestStatus
  <2>1. Explained(j, file[j]) /\ ran[j] \subseteq {"ok", "bad"}
    BY DEF Telling, FilesTell, Inv, TypeOK
  <2> QED  BY <2>1 DEF Explained
<1> QED  BY FullInvariant, <1>1, PTL
=============================================================================
