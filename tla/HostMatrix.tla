------------------------------ MODULE HostMatrix ------------------------------
(***************************************************************************)
(* One matrix directory of run_host_matrix.py and the processes that work  *)
(* on it: controllers, each of which plans, clears, runs its trials with a *)
(* bounded number of VMs and writes the summary, and trials, each a        *)
(* run-host-native.sh in a process group of its own, which outlives a      *)
(* controller that is killed.  They share the directory without a lock:    *)
(* what keeps them apart are the ports of a job and the trial's refusal of *)
(* an output directory that exists.                                        *)
(***************************************************************************)
EXTENDS Integers, FiniteSets

CONSTANTS
  Jobs,         \* the cells of the matrix
  Launches,     \* controllers; one that is over may be used again
  Concurrency,  \* VMs at a time
  MaxFaults     \* bound: kills, crashes, failed and unavailable trials

ASSUME MatrixAssumption ==
  Concurrency \in Nat \ {0} /\ MaxFaults \in Nat /\ IsFiniteSet(Jobs)

VARIABLES
  benchmark,  \* benchmark.json is there
  dir,        \* jobs whose output directory exists
  result,     \* each job's result.json
  retries,    \* jobs with an unavailable result under retries/
  summary,    \* summary.json
  ctl,        \* each controller
  trial,      \* trial[c][j]: the trial that c started for j
  faults

diskVars   == <<benchmark, dir, result, retries, summary>>
matrixVars == <<diskVars, ctl, trial, faults>>

Valid   == {"evaluated", "unavailable"}
Results == Valid \cup {"none", "invalid"}

(* A controller: where it is, the jobs it has still to run, the            *)
(* unavailable ones it has still to archive, those it has still to clear,  *)
(* whether it retries, and whether a trial of it gave no result.           *)
Off == [at |-> "off", todo |-> {}, redo |-> {}, clear |-> {}, retry |-> FALSE,
        errors |-> FALSE]

Fault == faults < MaxFaults /\ faults' = faults + 1

Active(c) == {j \in Jobs : trial[c][j] # "none"}

(* The VM holds the job's ports until its trial is over.                   *)
Bound(j) == \E c \in Launches : trial[c][j] \in {"up", "writing", "reported"}

Go(c, place)   == ctl' = [ctl EXCEPT ![c].at = place]
Stage(c, j, s) == trial' = [trial EXCEPT ![c][j] = s]

-----------------------------------------------------------------------------
(* main: a fresh matrix.  Nothing is launched before benchmark.json is     *)
(* there.                                                                  *)
Publish(c) ==
  /\ ctl[c].at = "fresh"
  /\ benchmark' = TRUE
  /\ ctl' = [ctl EXCEPT ![c].at = "running", ![c].todo = Jobs]
  /\ UNCHANGED <<dir, result, retries, summary, trial, faults>>

(* build_resume_plan: a valid result is kept; with retry_unavailable only  *)
(* an evaluated one is.  Faulty variants stand before what they vary; only *)
(* the runs that show that a property can fail use them.                   *)
Unavailable    == {j \in Jobs : result[j] = "unavailable"}
PendingMissing == {j \in Jobs : result[j] = "none"}
Pending        == {j \in Jobs : result[j] \notin Valid}

Plan(c) ==
  /\ ctl[c].at = "planning"
  /\ LET redo == IF ctl[c].retry THEN Unavailable ELSE {}
     IN ctl' = [ctl EXCEPT ![c].at = "preflight", ![c].todo = Pending \cup redo,
                           ![c].redo = redo, ![c].clear = Pending \cup redo]
  /\ UNCHANGED <<diskVars, trial, faults>>

(* The preflight of the pending jobs: their ports are free.                *)
PreflightPasses(c) ==
  /\ ctl[c].at = "preflight"
  /\ \A j \in ctl[c].todo : ~Bound(j)
  /\ Go(c, "archiving")
  /\ UNCHANGED <<diskVars, trial, faults>>

Refuse(c) ==
  /\ ctl[c].at \in {"fresh", "preflight"}
  /\ IF \E j \in ctl[c].todo : Bound(j) THEN UNCHANGED faults ELSE Fault
  /\ ctl' = [ctl EXCEPT ![c] = Off]
  /\ UNCHANGED <<diskVars, trial>>

(* archive_unavailable_retry moves the directory, whatever it holds now.   *)
Archive(c, j) ==
  /\ ctl[c].at = "archiving" /\ j \in ctl[c].redo
  /\ ctl' = [ctl EXCEPT ![c].redo = @ \ {j}]
  /\ retries' = IF result[j] = "unavailable" THEN retries \cup {j} ELSE retries
  /\ dir' = dir \ {j}
  /\ result' = [result EXCEPT ![j] = "none"]
  /\ UNCHANGED <<benchmark, summary, trial, faults>>

(* prepare_pending_job, once every retry is archived                       *)
ClearUnarchived(c) == ctl[c].clear
ToClear(c)         == IF ctl[c].redo = {} THEN ctl[c].clear ELSE {}

Clear(c, j) ==
  /\ ctl[c].at = "archiving" /\ j \in ToClear(c)
  /\ ctl' = [ctl EXCEPT ![c].clear = @ \ {j}]
  /\ dir' = dir \ {j}
  /\ result' = [result EXCEPT ![j] = "none"]
  /\ UNCHANGED <<benchmark, retries, summary, trial, faults>>

Cleared(c) ==
  /\ ctl[c].at = "archiving" /\ ctl[c].clear = {}
  /\ Go(c, "running")
  /\ UNCHANGED <<diskVars, trial, faults>>

-----------------------------------------------------------------------------
(* What the controller makes of a trial that has ended.                    *)
Loaded(c, j) ==
  IF ctl[c].at = "running" /\ result[j] \notin Valid
  THEN [ctl EXCEPT ![c].errors = TRUE] ELSE ctl

(* run_worker has the semaphore and spawns the trial, which refuses ports  *)
(* in use and a directory that exists.                                     *)
MayStart(c, j) ==
  ctl[c].at = "running" /\ j \in ctl[c].todo /\ Cardinality(Active(c)) < Concurrency

TrialStarts(c, j) ==
  /\ MayStart(c, j)
  /\ ~Bound(j) /\ j \notin dir
  /\ ctl' = [ctl EXCEPT ![c].todo = @ \ {j}]
  /\ dir' = dir \cup {j}
  /\ Stage(c, j, "building")
  /\ UNCHANGED <<benchmark, result, retries, summary, faults>>

TrialRefuses(c, j) ==
  /\ MayStart(c, j)
  /\ Bound(j) \/ j \in dir
  /\ ctl' = [Loaded(c, j) EXCEPT ![c].todo = @ \ {j}]
  /\ UNCHANGED <<diskVars, trial, faults>>

(* The VM is built without holding a port; it starts only if nothing else  *)
(* has taken them and the directory for its console is still there.        *)
VMStarts(c, j) ==
  /\ trial[c][j] = "building"
  /\ IF ~Bound(j) /\ j \in dir
     THEN Stage(c, j, "up") /\ UNCHANGED ctl
     ELSE Stage(c, j, "none") /\ ctl' = Loaded(c, j)
  /\ UNCHANGED <<diskVars, faults>>

(* result.json is opened, ...                                              *)
ResultOpens(c, j) ==
  /\ trial[c][j] = "up"
  /\ IF j \in dir
     THEN Stage(c, j, "writing") /\ result' = [result EXCEPT ![j] = "invalid"] /\ UNCHANGED ctl
     ELSE Stage(c, j, "none") /\ ctl' = Loaded(c, j) /\ UNCHANGED result
  /\ UNCHANGED <<benchmark, dir, retries, summary, faults>>

(* ... and written, unless it was unlinked meanwhile.                      *)
ResultWritten(c, j, verdict) ==
  /\ trial[c][j] = "writing"
  /\ Stage(c, j, "reported")
  /\ result' = IF result[j] = "invalid" THEN [result EXCEPT ![j] = verdict] ELSE result
  /\ IF verdict = "unavailable" THEN Fault ELSE UNCHANGED faults
  /\ UNCHANGED <<benchmark, dir, retries, summary, ctl>>

TrialEnds(c, j) ==
  /\ trial[c][j] = "reported"
  /\ Stage(c, j, "none")
  /\ ctl' = Loaded(c, j)
  /\ UNCHANGED <<diskVars, faults>>

TrialFails(c, j) ==
  /\ trial[c][j] \in {"building", "up"}
  /\ Stage(c, j, "none")
  /\ ctl' = Loaded(c, j)
  /\ Fault
  /\ UNCHANGED diskVars

(* All trials of this controller are over: the summary covers their        *)
(* results and the ones it kept.                                           *)
SummaryOpens(c) ==
  /\ ctl[c].at = "running" /\ ctl[c].todo = {} /\ Active(c) = {}
  /\ summary' = "torn"
  /\ Go(c, "summing")
  /\ UNCHANGED <<benchmark, dir, result, retries, trial, faults>>

SummaryWritten(c) ==
  /\ ctl[c].at = "summing"
  /\ summary' = IF ctl[c].errors THEN "errors" ELSE "clean"
  /\ ctl' = [ctl EXCEPT ![c] = Off]
  /\ UNCHANGED <<benchmark, dir, result, retries, trial, faults>>

-----------------------------------------------------------------------------
(* Ctrl-C: the trials are terminated with the controller.  A kill leaves   *)
(* them running.                                                           *)
Interrupt(c) ==
  /\ ctl[c].at = "running"
  /\ ctl' = [ctl EXCEPT ![c] = Off]
  /\ trial' = [trial EXCEPT ![c] = [j \in Jobs |-> "none"]]
  /\ Fault
  /\ UNCHANGED diskVars

Kill(c) ==
  /\ ctl[c].at # "off"
  /\ ctl' = [ctl EXCEPT ![c] = Off]
  /\ Fault
  /\ UNCHANGED <<diskVars, trial>>

Start(c, place, retry) ==
  ctl' = [ctl EXCEPT ![c] = [Off EXCEPT !.at = place, !.retry = retry]]

Quiet(c) == ctl[c].at = "off" /\ Active(c) = {}

MatrixInit ==
  /\ benchmark = FALSE /\ dir = {} /\ result = [j \in Jobs |-> "none"]
  /\ retries = {} /\ summary = "none" /\ faults = 0
  /\ ctl = [c \in Launches |-> Off]
  /\ trial = [c \in Launches |-> [j \in Jobs |-> "none"]]

ControllerStep(c) ==
  \/ Publish(c) \/ Plan(c) \/ PreflightPasses(c) \/ Refuse(c) \/ Cleared(c)
  \/ SummaryOpens(c) \/ SummaryWritten(c)
  \/ \E j \in Jobs : Archive(c, j) \/ Clear(c, j) \/ TrialStarts(c, j) \/ TrialRefuses(c, j)

TrialStep(c) == \E j \in Jobs :
  \/ VMStarts(c, j) \/ ResultOpens(c, j) \/ TrialEnds(c, j)
  \/ \E verdict \in Valid : ResultWritten(c, j, verdict)

-----------------------------------------------------------------------------
MatrixTypeOK ==
  /\ benchmark \in BOOLEAN
  /\ dir \subseteq Jobs /\ retries \subseteq Jobs
  /\ result \in [Jobs -> Results]
  /\ summary \in {"none", "torn", "clean", "errors"}
  /\ ctl \in [Launches -> [at: {"off", "fresh", "planning", "preflight", "archiving",
                                "running", "summing"},
                           todo: SUBSET Jobs, redo: SUBSET Jobs, clear: SUBSET Jobs,
                           retry: BOOLEAN, errors: BOOLEAN]]
  /\ trial \in [Launches -> [Jobs -> {"none", "building", "up", "writing", "reported"}]]
  /\ faults \in 0 .. MaxFaults
  /\ \A j \in Jobs : result[j] # "none" => j \in dir
=============================================================================
