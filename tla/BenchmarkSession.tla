--------------------------- MODULE BenchmarkSession ---------------------------
(***************************************************************************)
(* A managed session over a matrix (benchmark_session.py): a launcher that *)
(* checks for a live worker under launch.lock, spawns one and only then    *)
(* records it; the worker, run_session, which holds run.lock while its     *)
(* controller runs and then publishes a status; and another session that   *)
(* was started --after this one and waits for it to be completed.          *)
(*                                                                         *)
(* A worker and the controller it runs have the same id.                   *)
(***************************************************************************)
EXTENDS HostMatrix

CONSTANT None

ASSUME NoneAssumption == None \notin Launches

VARIABLES
  status,      \* status.json
  workerFile,  \* worker.json
  launcher,    \* who holds launch.lock, and for what
  worker,      \* each run_session process
  followed,    \* the waiting session went ahead
  overlap      \* a run was started beside what a dead worker left running

sessionVars == <<status, workerFile, launcher, worker, followed>>
vars        == <<matrixVars, sessionVars, overlap>>

Terminal == {"completed", "incomplete", "failed"}

NoLaunch == [at |-> "free", of |-> None, resume |-> FALSE, retry |-> FALSE]
NoWorker == [at |-> "off", resume |-> FALSE, retry |-> FALSE]

-----------------------------------------------------------------------------
(* matrix_report                                                           *)
CompleteBySummary == summary = "clean"
Complete == summary = "clean" /\ \A j \in Jobs : result[j] = "evaluated"

MatrixReport(running) ==
  IF summary \in {"clean", "errors"} /\ ~running
  THEN IF Complete THEN "completed" ELSE "incomplete"
  ELSE "in_progress"

(* worker_alive: the recorded process, not merely its id.                  *)
Alive == workerFile # None /\ worker[workerFile].at # "off"

(* session_report                                                          *)
Report ==
  IF Alive /\ status = "running" THEN "running"
  ELSE IF status \in Terminal THEN status
  ELSE IF Alive THEN status
  ELSE IF benchmark /\ MatrixReport(FALSE) # "in_progress" THEN MatrixReport(FALSE)
  ELSE "interrupted"

-----------------------------------------------------------------------------
(* A new id, or one nothing refers to any more.                            *)
Unused(c) == worker[c].at = "off" /\ Quiet(c) /\ workerFile # c /\ launcher.of # c

(* launch_worker, called by start_session and by resume.                   *)
Launch(c, resume, retry) ==
  /\ launcher = NoLaunch /\ Unused(c)
  /\ ~Alive
  /\ IF resume THEN benchmark ELSE status = "none"
  /\ status' = IF resume THEN "resuming" ELSE "starting"
  /\ launcher' = [at |-> "spawning", of |-> c, resume |-> resume, retry |-> retry]
  /\ UNCHANGED <<matrixVars, workerFile, worker, followed, overlap>>

Spawn(c) ==
  /\ launcher.at = "spawning" /\ launcher.of = c
  /\ launcher' = [NoLaunch EXCEPT !.at = "recording", !.of = c]
  /\ worker' = [worker EXCEPT ![c] = [at |-> "spawned", resume |-> launcher.resume,
                                      retry |-> launcher.retry]]
  /\ UNCHANGED <<matrixVars, status, workerFile, followed, overlap>>

RecordWorker(c) ==
  /\ launcher.at = "recording" /\ launcher.of = c
  /\ launcher' = NoLaunch
  /\ workerFile' = c
  /\ UNCHANGED <<matrixVars, status, worker, followed, overlap>>

LauncherDies ==
  /\ launcher # NoLaunch
  /\ launcher' = NoLaunch
  /\ Fault
  /\ UNCHANGED <<diskVars, ctl, trial, status, workerFile, worker, followed, overlap>>

-----------------------------------------------------------------------------
(* Processes of a run whose worker is gone.                                *)
LeftRunning == \E c \in Launches : ~Quiet(c) /\ worker[c].at # "running"

RunLocked == \E c \in Launches : worker[c].at = "running"

(* run_session: one that finds run.lock held returns 1, ...                *)
WorkerTurnsAway(c) ==
  /\ worker[c].at = "spawned" /\ RunLocked
  /\ worker' = [worker EXCEPT ![c] = NoWorker]
  /\ UNCHANGED <<matrixVars, status, workerFile, launcher, followed, overlap>>

(* ... one that gets it runs the matrix ...                                *)
WorkerRunsUnlocked(c) ==
  /\ worker[c].at = "spawned"
  /\ worker' = [worker EXCEPT ![c].at = "running"]
  /\ status' = "running"
  /\ Start(c, IF worker[c].resume THEN "planning" ELSE "fresh", worker[c].retry)
  /\ overlap' = (overlap \/ LeftRunning)
  /\ UNCHANGED <<diskVars, trial, faults, workerFile, launcher, followed>>
WorkerRuns(c) ==
  /\ worker[c].at = "spawned" /\ ~RunLocked
  /\ worker' = [worker EXCEPT ![c].at = "running"]
  /\ status' = "running"
  /\ Start(c, IF worker[c].resume THEN "planning" ELSE "fresh", worker[c].retry)
  /\ overlap' = (overlap \/ LeftRunning)
  /\ UNCHANGED <<diskVars, trial, faults, workerFile, launcher, followed>>

(* ... and, when it has ended, publishes what it left.                     *)
WorkerReports(c) ==
  /\ worker[c].at = "running" /\ ctl[c].at = "off"
  /\ worker' = [worker EXCEPT ![c] = NoWorker]
  /\ status' = IF benchmark /\ MatrixReport(FALSE) # "in_progress"
               THEN MatrixReport(FALSE) ELSE "failed"
  /\ UNCHANGED <<matrixVars, workerFile, launcher, followed, overlap>>

WorkerDies(c) ==
  /\ worker[c].at # "off"
  /\ worker' = [worker EXCEPT ![c] = NoWorker]
  /\ Fault
  /\ UNCHANGED <<diskVars, ctl, trial, status, workerFile, launcher, followed, overlap>>

(* The host goes down: everything but the files is gone.                   *)
HostCrashes ==
  /\ Fault
  /\ launcher' = NoLaunch
  /\ worker' = [c \in Launches |-> NoWorker]
  /\ ctl' = [c \in Launches |-> Off]
  /\ trial' = [c \in Launches |-> [j \in Jobs |-> "none"]]
  /\ UNCHANGED <<diskVars, status, workerFile, followed, overlap>>

(* run_session of the session that was started after this one.             *)
FollowerRuns ==
  /\ ~followed /\ Report = "completed"
  /\ followed' = TRUE
  /\ UNCHANGED <<matrixVars, status, workerFile, launcher, worker, overlap>>

-----------------------------------------------------------------------------
Works(c)   == ControllerStep(c) /\ UNCHANGED <<sessionVars, overlap>>
Tries(c)   == TrialStep(c) /\ UNCHANGED <<sessionVars, overlap>>
Breaks(c)  == /\ Interrupt(c) \/ Kill(c) \/ \E j \in Jobs : TrialFails(c, j)
              /\ UNCHANGED <<sessionVars, overlap>>
Manages(c) == WorkerTurnsAway(c) \/ WorkerRuns(c) \/ WorkerReports(c)

Init ==
  /\ MatrixInit
  /\ status = "none" /\ workerFile = None /\ launcher = NoLaunch
  /\ worker = [c \in Launches |-> NoWorker]
  /\ followed = FALSE /\ overlap = FALSE

Next ==
  \/ \E c \in Launches :
       \/ Launch(c, FALSE, FALSE) \/ \E retry \in BOOLEAN : Launch(c, TRUE, retry)
       \/ Spawn(c) \/ RecordWorker(c)
       \/ Manages(c) \/ Works(c) \/ Tries(c) \/ Breaks(c) \/ WorkerDies(c)
  \/ LauncherDies \/ HostCrashes \/ FollowerRuns

Spec == Init /\ [][Next]_vars

(* Processes that live do their work, and trials are bounded in time.  The *)
(* operator starts the session and, while it is not completed, always      *)
(* resumes it again, retrying what was unavailable.                        *)
OperatorResumes == \E c \in Launches : Report # "completed" /\ Launch(c, TRUE, TRUE)

FairSpec ==
  /\ Spec
  /\ \A c \in Launches :
       WF_vars(Spawn(c) \/ RecordWorker(c)) /\ WF_vars(Manages(c)) /\ WF_vars(Works(c))
       /\ WF_vars(Tries(c))
  /\ SF_vars(OperatorResumes)

-----------------------------------------------------------------------------
TypeOK ==
  /\ MatrixTypeOK
  /\ status \in {"none", "starting", "resuming", "running"} \cup Terminal
  /\ workerFile \in Launches \cup {None}
  /\ launcher \in [at: {"free", "spawning", "recording"}, of: Launches \cup {None},
                   resume: BOOLEAN, retry: BOOLEAN]
  /\ worker \in [Launches -> [at: {"off", "spawned", "running"}, resume: BOOLEAN, retry: BOOLEAN]]
  /\ followed \in BOOLEAN /\ overlap \in BOOLEAN

AllEvaluated == \A j \in Jobs : result[j] = "evaluated"

(* A session that reports completed, or that a queued session went ahead   *)
(* of, has an evaluated result for every job, and keeps it.                *)
CompletedIsComplete ==
  (Report = "completed" \/ followed) /\ ~overlap => AllEvaluated

(* Two controllers are never at work in one matrix, though a launcher may  *)
(* die between spawning a worker and recording it.                         *)
OneController ==
  ~overlap => \A c, d \in Launches : ctl[c].at # "off" /\ ctl[d].at # "off" => c = d

(* A resume keeps what is valid: an evaluated result stays, an unavailable *)
(* one stays or is archived.                                               *)
ResultsKept == [][~overlap' => \A j \in Jobs :
  /\ result[j] = "evaluated" => result'[j] = "evaluated"
  /\ result[j] = "unavailable" => result'[j] = "unavailable" \/ j \in retries']_vars

(* The session keeps its promise, whatever is interrupted or killed: see   *)
(* MatrixPromise.  A torn result is no answer.                             *)
Promise == INSTANCE MatrixPromise WITH
  answer   <- [j \in Jobs |-> IF result[j] \in Valid THEN result[j] ELSE "none"],
  archived <- retries,
  said     <- status = "completed",
  ahead    <- followed,
  broken   <- overlap

KeepsPromise == Promise!Spec

(* integrations/host/README.md: resume "keeps every identity-matching      *)
(* result.json, removes partial output only for unfinished jobs".          *)
ResumeKeepsResults ==
  [][\A j \in Jobs : result[j] = "evaluated" => result'[j] = "evaluated"]_vars

(* Whatever was interrupted, killed or lost, resuming ends with a complete *)
(* matrix.                                                                 *)
SessionCompletes == benchmark ~> Report = "completed"
=============================================================================
