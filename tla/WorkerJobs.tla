----------------------------- MODULE WorkerJobs -----------------------------
(***************************************************************************)
(* The job queue of the ingest host (ingest/jobs.py behind the routes of   *)
(* ingest/server.py) and the worker agents that claim its jobs             *)
(* (workers/agent.py).                                                     *)
(*                                                                         *)
(* A job is a file; a request is handled by a thread of its own that holds *)
(* the queue's lock from reading the file to having rewritten it, and a    *)
(* rewrite first truncates the file.  An agent has one request under way,  *)
(* and may give up on it while the host still handles it.                  *)
(***************************************************************************)
EXTENDS Naturals, FiniteSets

CONSTANTS
    Jobs,               \* job ids, in the order of their files' names
    Agents,
    MaxFaults           \* bound: requests lost or refused, crashes, Ctrl+C's,
                        \* and jobs enqueued again under the same id

ASSUME JobsAssumption == Jobs \subseteq Nat \ {0}
ASSUME AgentsAssumption == IsFiniteSet(Agents) /\ "laptop" \notin Agents
ASSUME BoundAssumption == MaxFaults \in Nat

VARIABLES
    file,               \* the status in each job's file
    requests,           \* those the host has not answered, or not delivered
    pc, job,            \* each agent's place in run_loop, and its job
    lost,               \* requests each agent has given up on
    faults,             \* all of those bounded by MaxFaults
    enqueued, granted,  \* history: how often each job was enqueued, claimed
    ran                 \* history: how each job's runs ended

trouble == <<lost, faults>>
history == <<enqueued, granted, ran>>
vars == <<file, requests, pc, job, trouble, history>>

NoJob == 0

Kinds == {"enqueue", "claim", "report"}
Steps == {"sent", "locked", "truncated", "answered"}

\* write is the status that the handler will leave in the file.  id tells the
\* requests of an agent apart: it changes when the agent gives one up.
Request ==
    [kind: Kinds, agent: Agents \cup {"laptop"}, id: Nat,
     job: Jobs \cup {NoJob}, write: {"queued", "running", "completed", "failed"},
     step: Steps]

Init ==
    /\ file = [j \in Jobs |-> "none"]
    /\ requests = {}
    /\ pc = [a \in Agents |-> "polling"]
    /\ job = [a \in Agents |-> NoJob]
    /\ lost = [a \in Agents |-> 0]
    /\ faults = 0
    /\ enqueued = [j \in Jobs |-> 0]
    /\ granted = [j \in Jobs |-> 0]
    /\ ran = [j \in Jobs |-> {}]

Claim(a) ==
    [kind |-> "claim", agent |-> a, id |-> lost'[a], job |-> NoJob,
     write |-> "running", step |-> "sent"]

Report(a, status) ==
    [kind |-> "report", agent |-> a, id |-> lost'[a], job |-> job[a],
     write |-> status, step |-> "sent"]

Mine(a) == {r \in requests : r.agent = a /\ r.id = lost[a]}
Answer(a) == {r \in Mine(a) : r.step = "answered"}

Fault == faults < MaxFaults /\ faults' = faults + 1

-----------------------------------------------------------------------------
(* The host *)

Locked == \E r \in requests : r.step \in {"locked", "truncated"}

Becomes(r, s) == requests' = (requests \ {r}) \cup {s}

\* write_text opens the file for writing, which empties it.
Truncated(r) ==
    /\ file' = [file EXCEPT ![r.job] = "torn"]
    /\ Becomes(r, [r EXCEPT !.step = "truncated"])

\* The answer to a request: an agent that has given it up never reads it.
Answered(r) ==
    IF r.kind = "enqueue" THEN requests' = requests \ {r}
    ELSE IF r \notin Mine(r.agent) \/ pc[r.agent] = "exited"
    THEN requests' = requests \ {r}
    ELSE Becomes(r, [r EXCEPT !.step = "answered"])

\* POST /v1/jobs, with a new id or with one the client has used before.
Enqueue(j) ==
    /\ ~ Locked
    /\ \/ enqueued[j] = 0 /\ UNCHANGED faults
       \/ Fault
    /\ enqueued' = [enqueued EXCEPT ![j] = @ + 1]
    /\ requests' = requests \cup
          {[kind |-> "enqueue", agent |-> "laptop", id |-> 0, job |-> j,
            write |-> "queued", step |-> "truncated"]}
    /\ file' = [file EXCEPT ![j] = "torn"]
    /\ UNCHANGED <<pc, job, lost, granted, ran>>

Queued == {j \in Jobs : file[j] = "queued"}

\* Mutant: the loop over the files stops at the first readable one.
FirstOnly ==
    LET readable == {j \in Jobs : file[j] \notin {"none", "torn"}}
    IN  {j \in readable : file[j] = "queued" /\ \A i \in readable : j <= i}

\* The job a claim takes: the first queued one.
Candidates == {j \in Queued : \A i \in Queued : j <= i}

\* Mutant: the lock is not taken.
HandleClaimUnlocked(r) ==
    /\ r.kind = "claim" /\ r.step = "sent"
    /\ \/ /\ Candidates = {}
          /\ Answered(r)
       \/ \E j \in Candidates : Becomes(r, [r EXCEPT !.job = j, !.step = "locked"])
    /\ UNCHANGED <<file, pc, job, trouble, history>>

HandleClaim(r) ==
    /\ r.kind = "claim" /\ r.step = "sent"
    /\ ~ Locked
    /\ \/ /\ Candidates = {}
          /\ Answered(r)
       \/ \E j \in Candidates : Becomes(r, [r EXCEPT !.job = j, !.step = "locked"])
    /\ UNCHANGED <<file, pc, job, trouble, history>>

\* A file that cannot be read is answered with a 404, which the agent only
\* prints.  Nothing asks which worker the job belongs to.
HandleReport(r) ==
    /\ r.kind = "report" /\ r.step = "sent"
    /\ ~ Locked
    /\ IF file[r.job] \in {"none", "torn"}
       THEN Answered(r) /\ UNCHANGED file
       ELSE Truncated(r)
    /\ UNCHANGED <<pc, job, trouble, history>>

\* The claim that holds the lock has read the job and rewrites it.
Truncate(r) ==
    /\ r.step = "locked"
    /\ Truncated(r)
    /\ UNCHANGED <<pc, job, trouble, history>>

\* The job is in the file, and the lock is free.
Fill(r) ==
    /\ r.step = "truncated"
    /\ file' = [file EXCEPT ![r.job] = r.write]
    /\ Answered(r)
    /\ granted' = IF r.kind = "claim" THEN [granted EXCEPT ![r.job] = @ + 1]
                  ELSE granted
    /\ UNCHANGED <<pc, job, trouble, enqueued, ran>>

\* A crash of the host drops what it is handling; the files stay as they are.
HostCrash ==
    /\ Fault
    /\ requests' = {}
    /\ UNCHANGED <<file, pc, job, lost, history>>

Host ==
    \E r \in requests : HandleClaim(r) \/ HandleReport(r) \/ Truncate(r) \/ Fill(r)

-----------------------------------------------------------------------------
(* The agents: run_loop *)

Waiting(a) == pc[a] \in {"claiming", "reporting", "reporting_error"}

Send(r) == requests' = requests \cup {r}

Poll(a) ==
    /\ pc[a] = "polling"
    /\ pc' = [pc EXCEPT ![a] = "claiming"]
    /\ UNCHANGED <<file, job, trouble, history>>
    /\ Send(Claim(a))

ClaimAnswered(a) ==
    /\ pc[a] = "claiming"
    /\ \E r \in Answer(a) :
          /\ r.kind = "claim"
          /\ requests' = requests \ {r}
          /\ job' = [job EXCEPT ![a] = r.job]
          /\ pc' = [pc EXCEPT ![a] = IF r.job = NoJob THEN "polling" ELSE "training"]
    /\ UNCHANGED <<file, trouble, history>>

\* The training returned, with a return code.
TrainReturns(a) ==
    /\ pc[a] = "training"
    /\ pc' = [pc EXCEPT ![a] = "reporting"]
    /\ UNCHANGED <<file, job, trouble, enqueued, granted>>
    /\ \E outcome \in {"ok", "bad"} :
          /\ ran' = [ran EXCEPT ![job[a]] = @ \cup {outcome}]
          /\ Send(Report(a, IF outcome = "ok" THEN "completed" ELSE "failed"))

\* Mutant: a training that raised is not reported.
RaisedUnreported(a) ==
    /\ pc[a] = "training"
    /\ pc' = [pc EXCEPT ![a] = "polling"]
    /\ job' = [job EXCEPT ![a] = NoJob]
    /\ ran' = [ran EXCEPT ![job[a]] = @ \cup {"bad"}]
    /\ UNCHANGED <<file, requests, trouble, enqueued, granted>>

\* Mutant: what raised is reported as what returned.
RaisedReportedCompleted(a) ==
    /\ pc[a] = "training"
    /\ pc' = [pc EXCEPT ![a] = "reporting_error"]
    /\ ran' = [ran EXCEPT ![job[a]] = @ \cup {"bad"}]
    /\ UNCHANGED <<file, job, trouble, enqueued, granted>>
    /\ Send(Report(a, "completed"))

\* The training raised.
TrainRaises(a) ==
    /\ pc[a] = "training"
    /\ pc' = [pc EXCEPT ![a] = "reporting_error"]
    /\ ran' = [ran EXCEPT ![job[a]] = @ \cup {"bad"}]
    /\ UNCHANGED <<file, job, trouble, enqueued, granted>>
    /\ Send(Report(a, "failed"))

\* Whatever the answer to a report is, the agent is done with the job.
Done(a) ==
    /\ pc' = [pc EXCEPT ![a] = "polling"]
    /\ job' = [job EXCEPT ![a] = NoJob]

ReportAnswered(a) ==
    /\ pc[a] \in {"reporting", "reporting_error"}
    /\ \E r \in Answer(a) : requests' = requests \ {r}
    /\ Done(a)
    /\ UNCHANGED <<file, trouble, history>>

\* A proxy answers a report in place of the host.
ReportRefused(a) ==
    /\ pc[a] \in {"reporting", "reporting_error"}
    /\ Fault
    /\ \E r \in Mine(a) : r.step = "sent" /\ requests' = requests \ {r}
    /\ Done(a)
    /\ UNCHANGED <<file, lost, history>>

\* The request raises: no connection, a timeout, a broken answer.  A claim is
\* tried again; a report is followed by the report of a failure, of which a
\* second exception ends the agent.
Raises(a) ==
    /\ pc' = [pc EXCEPT ![a] = CASE pc[a] = "claiming" -> "polling"
                                 [] pc[a] = "reporting" -> "reporting_error"
                                 [] pc[a] = "reporting_error" -> "exited"]
    /\ UNCHANGED job
    /\ requests' = (requests \ Answer(a)) \cup
                      IF pc[a] = "reporting" THEN {Report(a, "failed")} ELSE {}

\* The agent gives up on a request that the host may still handle, or whose
\* answer is lost.
RequestLost(a) ==
    /\ Waiting(a) /\ Mine(a) # {}
    /\ Fault
    /\ lost' = [lost EXCEPT ![a] = @ + 1]
    /\ Raises(a)
    /\ UNCHANGED <<file, history>>

\* The host went down with the request.
ConnectionLost(a) ==
    /\ Waiting(a) /\ Mine(a) = {}
    /\ UNCHANGED <<file, trouble, history>>
    /\ Raises(a)

\* Ctrl+C at any place: the agent leaves, and its job as it is.
Interrupt(a) ==
    /\ pc[a] # "exited"
    /\ Fault
    /\ pc' = [pc EXCEPT ![a] = "exited"]
    /\ requests' = requests \ Answer(a)
    /\ UNCHANGED <<file, job, lost, history>>

Agent(a) ==
    \/ Poll(a) \/ ClaimAnswered(a) \/ TrainReturns(a) \/ TrainRaises(a)
    \/ ReportAnswered(a) \/ ConnectionLost(a)

Next ==
    \/ \E j \in Jobs : Enqueue(j)
    \/ Host
    \/ HostCrash
    \/ \E a \in Agents :
          Agent(a) \/ ReportRefused(a) \/ RequestLost(a) \/ Interrupt(a)

Spec == Init /\ [][Next]_vars

\* The host's threads run, and so does every agent that has not left.  The
\* threads need no strong fairness for the lock: it is taken only as often as
\* there are jobs to write.
FairSpec == Spec /\ WF_vars(Host) /\ \A a \in Agents : WF_vars(Agent(a))

-----------------------------------------------------------------------------
(* Properties *)

\* The types of the queue's and the agents' state.
TypeOK ==
    /\ file \in [Jobs -> {"none", "torn", "queued", "running", "completed", "failed"}]
    /\ requests \subseteq Request
    /\ pc \in [Agents -> {"polling", "claiming", "training", "reporting",
                          "reporting_error", "exited"}]
    /\ job \in [Agents -> Jobs \cup {NoJob}]
    /\ lost \in [Agents -> Nat]
    /\ faults \in 0 .. MaxFaults
    /\ enqueued \in [Jobs -> Nat]
    /\ granted \in [Jobs -> Nat]
    /\ ran \in [Jobs -> SUBSET {"ok", "bad"}]
    /\ \A r, s \in requests :
          r.step \in {"locked", "truncated"} /\ s.step \in {"locked", "truncated"} => r = s

\* A job is given out at most once for each time it was enqueued, however the
\* claims of the agents meet, are given up on or are cut off by a crash
\* (JobQueue.claim); so it has no two workers unless it was enqueued again.
Working(j) == {a \in Agents : job[a] = j}

GrantedOnce ==
    \A j \in Jobs :
        /\ granted[j] <= enqueued[j]
        /\ Cardinality(Working(j)) <= granted[j]

\* What a status says of a job enqueued once: completed, that a run of it
\* returned 0; failed, that a run of it did not, unless the report of another
\* outcome was given up on, which the agent reports as a failure (run_loop).
HonestStatus ==
    \A j \in Jobs : enqueued[j] = 1 =>
        /\ file[j] = "completed" => "ok" \in ran[j]
        /\ file[j] = "failed" =>
              \/ "bad" \in ran[j]
              \/ ran[j] = {"ok"} /\ faults > 0

\* A job that is running has an agent at work on it or its answer on the way:
\* only a lost or refused request, a crash or a Ctrl+C leaves a job running
\* for ever (run_loop, claim, update).
RunningIsAttended ==
    \A j \in Jobs : file[j] = "running" /\ faults = 0 =>
        \/ Working(j) # {}
        \/ \E r \in requests : r.job = j /\ r.kind = "claim"

\* A queued job does not wait while agents poll: it is taken, or no agent is
\* left.
EveryJobIsTaken ==
    \A j \in Jobs :
        file[j] = "queued" ~>
            file[j] # "queued" \/ \A a \in Agents : pc[a] = "exited"
=============================================================================
