------------------------------ MODULE GpuRental ------------------------------
(***************************************************************************)
(* How a laptop comes by a GPU machine and a worker for it                 *)
(* (gym/providers/runpod.py, gym/providers/vast.py): it rents one or is    *)
(* given the id of one, polls the provider until the machine is said to     *)
(* run, and makes an SSH worker of its endpoint.  A machine is paid for      *)
(* from the moment the provider has rented it out.                          *)
(***************************************************************************)
EXTENDS Naturals, Sequences

CONSTANT MaxFaults   \* bound: failures of any kind, here and in the modules that extend this one

ASSUME GpuRentalAssumption == MaxFaults \in Nat

VARIABLES
  provider,   \* "runpod" or "vast"
  machine,    \* the machine, as it is
  rental,     \* the laptop's side: where it is, the transport of its worker, why it raised
  faults      \* failures so far

rentalVars == <<provider, machine, rental>>

\* With create the laptop rents; without, the machine is there and has an id.
RentalInit ==
  /\ provider \in {"runpod", "vast"}
  /\ \/ /\ machine = "none"
        /\ rental = [at |-> "search", via |-> "none", why |-> "none"]
     \/ /\ machine = "up"
        /\ rental = [at |-> "resolve", via |-> "none", why |-> "none"]
  /\ faults = 0

Fault == faults < MaxFaults /\ faults' = faults + 1

RentalRaises(why) == rental' = [rental EXCEPT !.at = "raised", !.why = why]

NoOffer == RentalRaises("no offer") /\ UNCHANGED <<machine, faults>>

\* Vast is asked for offers and the cheapest is taken; RunPod is told what is
\* wanted.
SearchOffers ==
  /\ rental.at = "search"
  /\ \/ rental' = [rental EXCEPT !.at = "create"] /\ UNCHANGED <<machine, faults>>
     \/ provider = "vast" /\ NoOffer
  /\ UNCHANGED provider

\* Refused, or answered without an id.
Refused == RentalRaises("refused") /\ UNCHANGED <<machine, faults>>

\* The request was met, but the laptop never learns it.
AnswerLost == machine' = "starting" /\ RentalRaises("answer lost") /\ Fault

\* One request, not repeated.
CreateMachine ==
  /\ rental.at = "create"
  /\ \/ machine' = "starting" /\ rental' = [rental EXCEPT !.at = "wait"] /\ UNCHANGED faults
     \/ Refused
     \/ AnswerLost
  /\ UNCHANGED provider

\* What may be read of the machine.  RunPod reports the status it was asked to
\* bring about, and names the endpoints before the machine answers on them.
ReportsOfRunPod ==
  CASE machine = "starting" -> {"loading", "running"}
    [] machine = "up"       -> {"running"}
    [] OTHER                -> {"exited"}

\* No status at all is taken for a machine that runs.
ReportsOfVast ==
  CASE machine = "starting" -> {"loading", "unknown", "running"}
    [] machine = "up"       -> {"running"}
    [] OTHER                -> {"exited"}

\* The provider names any of a machine's endpoints, or none.
Endpoints == IF provider = "runpod" THEN {"proxy", "direct"} ELSE {"direct"}
Named == SUBSET Endpoints

\* A request that is refused, or finds nobody, is one more round.
PollFails == UNCHANGED rental

\* What else goes wrong with it - an answer that does not come in time, breaks
\* off or cannot be read - is not caught, and the machine is left as it is.
PollBreaks == RentalRaises("poll broke")

\* Given up at the deadline only.
PollRunPod ==
  \E report \in ReportsOfRunPod, named \in Named :
    IF report = "running" /\ named # {} THEN rental' = [rental EXCEPT !.at = "resolve"]
    ELSE UNCHANGED rental

\* Nothing is read of a machine without an endpoint.  One that will not run is
\* given up; one that runs has its worker, for its endpoint is known.
PollVast ==
  \E report \in ReportsOfVast, named \in Named :
    CASE named # {} /\ report = "running"              -> rental' = [rental EXCEPT !.at = "worker", !.via = "exec"]
      [] named # {} /\ report \in {"exited", "unknown"} -> RentalRaises("status")
      [] OTHER                                         -> UNCHANGED rental

Poll ==
  /\ rental.at = "wait"
  /\ \/ provider = "runpod" /\ PollRunPod /\ UNCHANGED faults
     \/ provider = "vast" /\ PollVast /\ UNCHANGED faults
     \/ (PollFails \/ PollBreaks) /\ Fault
  /\ UNCHANGED <<provider, machine>>

\* The deadline passes; the machine may be up, and just not named in full.
WaitTimesOut ==
  /\ rental.at = "wait"
  /\ RentalRaises("deadline")
  /\ UNCHANGED <<provider, machine, faults>>

\* The proxy is a console to be typed into; a direct address, and Vast's, take
\* commands.
Transport(endpoint) == IF endpoint = "proxy" THEN "shell" ELSE "exec"

\* A request that fails here is not repeated.
LookUpFails == RentalRaises("resolve failed") /\ Fault

\* One more look at the machine, for its endpoints.  The one that the caller
\* prefers must be named, though the machine be up.
Resolve ==
  /\ rental.at = "resolve"
  /\ \/ \E named \in Named, endpoint \in Endpoints :
          /\ IF endpoint \in named
             THEN rental' = [rental EXCEPT !.at = "worker", !.via = Transport(endpoint)]
             ELSE RentalRaises("no endpoint")
          /\ UNCHANGED faults
     \/ LookUpFails
  /\ UNCHANGED <<provider, machine>>

MachineStarts ==
  /\ machine = "starting"
  /\ machine' = "up"
  /\ UNCHANGED <<provider, rental, faults>>

\* Nothing here ends a machine: whoever raises after CreateMachine leaves it as
\* it is, and paid for.
RentalNext == SearchOffers \/ CreateMachine \/ Poll \/ WaitTimesOut \/ Resolve \/ MachineStarts
=============================================================================
