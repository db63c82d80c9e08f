------------------------ MODULE BenchmarkSessionProofs ------------------------
(***************************************************************************)
(* Theorems about a managed session, for any finite set of jobs, any ids   *)
(* of workers, any concurrency and any number of faults.                   *)
(***************************************************************************)
EXTENDS BenchmarkSession, TLAPS

CtlRecord ==
  [at: {"off", "fresh", "planning", "preflight", "archiving", "running", "summing"},
   todo: SUBSET Jobs, redo: SUBSET Jobs, clear: SUBSET Jobs, retry: BOOLEAN, errors: BOOLEAN]

Stages == {"none", "building", "up", "writing", "reported"}

Workers == [Launches -> [at: {"off", "spawned", "running"}, resume: BOOLEAN, retry: BOOLEAN]]

(* What the proofs need of the types.                                      *)
Typed ==
  /\ result \in [Jobs -> Results] /\ \A j \in Jobs : result[j] # "none" => j \in dir
  /\ ctl \in [Launches -> CtlRecord]
  /\ trial \in [Launches -> [Jobs -> Stages]]
  /\ worker \in Workers
  /\ launcher.resume \in BOOLEAN /\ launcher.retry \in BOOLEAN

(* A launch is busy while it has a controller or a trial.                  *)
Busy(c) == ctl[c].at # "off" \/ \E j \in Jobs : trial[c][j] # "none"

LEMMA BusyIsNotQuiet == \A c \in Launches : Busy(c) <=> ~ Quiet(c)
BY DEF Busy, Quiet, Active

(* A step of the matrix by one launch: its controller or one of its trials *)
(* goes on, or something breaks.                                           *)
MatrixStep(c) ==
  \/ ControllerStep(c) \/ TrialStep(c)
  \/ Interrupt(c) \/ Kill(c) \/ \E j \in Jobs : TrialFails(c, j)

Waiting == {"fresh", "planning", "preflight", "archiving"}

(* While a controller has not begun its trials none of its own is left;    *)
(* what it will clear is not a valid result unless it is to be archived.   *)
Planned(c) ==
  /\ ctl[c].at \in Waiting => \A j \in Jobs : trial[c][j] = "none"
  /\ ctl[c].at \in {"preflight", "archiving"} =>
       /\ \A j \in ctl[c].redo : result[j] = "unavailable"
       /\ \A j \in ctl[c].clear : result[j] \in Valid => j \in ctl[c].redo

(* A trial whose result is not open yet has none.                          *)
Unwritten(c) == \A j \in Jobs : trial[c][j] \in {"building", "up"} => result[j] = "none"

Alone  == \A c, d \in Launches : Busy(c) /\ Busy(d) => c = d
Locked == \A c, d \in Launches : worker[c].at = "running" /\ Busy(d) => c = d

MatrixInv == Alone /\ Locked /\ \A c \in Launches : Planned(c) /\ Unwritten(c)

Decided == status = "completed" \/ followed => AllEvaluated

SessionInv == Typed /\ (~ overlap => MatrixInv /\ Decided)

(* What a step may do to results: this is ResultsKept, without its guard.  *)
Keeps ==
  \A j \in Jobs :
    /\ result[j] = "evaluated" => result'[j] = "evaluated"
    /\ result[j] = "unavailable" => result'[j] = "unavailable" \/ j \in retries'

-----------------------------------------------------------------------------
(* A step of the matrix leaves the other launches alone.                   *)
LEMMA Loads ==
  ASSUME Typed, NEW c \in Launches, NEW j \in Jobs
  PROVE  /\ Loaded(c, j) \in [Launches -> CtlRecord]
         /\ \A d \in Launches \ {c} : Loaded(c, j)[d] = ctl[d]
         /\ Loaded(c, j)[c].at = ctl[c].at /\ Loaded(c, j)[c].todo = ctl[c].todo
         /\ Loaded(c, j)[c].redo = ctl[c].redo /\ Loaded(c, j)[c].clear = ctl[c].clear
BY DEF Loaded, Typed, CtlRecord

LEMMA OffIsRecord == Off \in CtlRecord
BY DEF Off, CtlRecord

(* A step of the matrix changes the record and the trials of one launch... *)
LEMMA StepCtl ==
  ASSUME Typed, NEW c \in Launches, MatrixStep(c)
  PROVE  ctl' \in [Launches -> CtlRecord] /\ \A d \in Launches \ {c} : ctl'[d] = ctl[d]
<1>0. ctl \in [Launches -> CtlRecord] /\ ctl[c] \in CtlRecord
  BY DEF Typed
<1>1. CASE \E p \in {"running", "archiving", "summing"} : Go(c, p)
  BY <1>0, <1>1 DEF Go, CtlRecord
<1>2. CASE Publish(c)
  BY <1>0, <1>2 DEF Publish, CtlRecord
<1>3. CASE Plan(c)
  <2>1. Pending \subseteq Jobs /\ Unavailable \subseteq Jobs
    BY DEF Pending, Unavailable
  <2>2. PICK redo \in SUBSET Jobs, todo \in SUBSET Jobs :
          ctl' = [ctl EXCEPT ![c].at = "preflight", ![c].todo = todo,
                             ![c].redo = redo, ![c].clear = todo]
    BY <1>3, <2>1 DEF Plan
  <2> QED  BY <1>0, <2>2 DEF CtlRecord
<1>4. CASE ctl' = [ctl EXCEPT ![c] = Off]
  BY <1>0, <1>4, OffIsRecord
<1>5. ASSUME NEW j \in Jobs, Archive(c, j) \/ Clear(c, j) \/ TrialStarts(c, j)
      PROVE  ctl' \in [Launches -> CtlRecord] /\ \A d \in Launches \ {c} : ctl'[d] = ctl[d]
  <2>1. \/ ctl' = [ctl EXCEPT ![c].redo = @ \ {j}]
        \/ ctl' = [ctl EXCEPT ![c].clear = @ \ {j}]
        \/ ctl' = [ctl EXCEPT ![c].todo = @ \ {j}]
    BY <1>5 DEF Archive, Clear, TrialStarts
  <2> QED  BY <1>0, <2>1 DEF CtlRecord
<1>6. ASSUME NEW j \in Jobs, TrialRefuses(c, j)
      PROVE  ctl' \in [Launches -> CtlRecord] /\ \A d \in Launches \ {c} : ctl'[d] = ctl[d]
  <2>1. ctl' = [Loaded(c, j) EXCEPT ![c].todo = @ \ {j}]
    BY <1>6 DEF TrialRefuses
  <2>2. Loaded(c, j) \in [Launches -> CtlRecord] /\ Loaded(c, j)[c] \in CtlRecord
        /\ \A d \in Launches \ {c} : Loaded(c, j)[d] = ctl[d]
    BY Loads
  <2> QED  BY <2>1, <2>2 DEF CtlRecord
<1>7. ASSUME NEW j \in Jobs, ctl' = ctl \/ ctl' = Loaded(c, j)
      PROVE  ctl' \in [Launches -> CtlRecord] /\ \A d \in Launches \ {c} : ctl'[d] = ctl[d]
  BY <1>0, <1>7, Loads
<1>8. CASE TrialStep(c) \/ \E j \in Jobs : TrialFails(c, j)
  BY <1>7, <1>8 DEF TrialStep, VMStarts, ResultOpens, ResultWritten, TrialEnds, TrialFails
<1> QED
  BY <1>1, <1>2, <1>3, <1>4, <1>5, <1>6, <1>8
  DEF MatrixStep, ControllerStep, PreflightPasses, Cleared, SummaryOpens,
      SummaryWritten, Refuse, Interrupt, Kill

LEMMA StepTrial ==
  ASSUME Typed, NEW c \in Launches, MatrixStep(c)
  PROVE  trial' \in [Launches -> [Jobs -> Stages]] /\ \A d \in Launches \ {c} : trial'[d] = trial[d]
<1>0. trial \in [Launches -> [Jobs -> Stages]]
  BY DEF Typed
<1>1. CASE trial' = trial
  BY <1>0, <1>1
<1>2. CASE trial' = [trial EXCEPT ![c] = [j \in Jobs |-> "none"]]
  BY <1>0, <1>2 DEF Stages
<1>3. ASSUME NEW j \in Jobs, NEW s \in Stages, Stage(c, j, s)
      PROVE  /\ trial' \in [Launches -> [Jobs -> Stages]]
             /\ \A d \in Launches \ {c} : trial'[d] = trial[d]
  BY <1>0, <1>3 DEF Stage
<1>4. {"none", "building", "up", "writing", "reported"} = Stages
  BY DEF Stages
<1>5. CASE TrialStep(c) \/ \E j \in Jobs : TrialFails(c, j) \/ TrialStarts(c, j)
  BY <1>3, <1>4, <1>5
  DEF TrialStep, TrialStarts, VMStarts, ResultOpens, ResultWritten, TrialEnds, TrialFails
<1> QED
  BY <1>1, <1>2, <1>5
  DEF MatrixStep, ControllerStep, Publish, Plan, PreflightPasses, Refuse, Cleared, SummaryOpens,
      SummaryWritten, Archive, Clear, TrialRefuses, Interrupt, Kill

LEMMA StepResult ==
  ASSUME Typed, NEW c \in Launches, MatrixStep(c)
  PROVE  result' \in [Jobs -> Results] /\ \A j \in Jobs : result'[j] # "none" => j \in dir'
<1>0. result \in [Jobs -> Results] /\ \A j \in Jobs : result[j] # "none" => j \in dir
  BY DEF Typed
<1>1. CASE UNCHANGED <<dir, result>>
  BY <1>0, <1>1
<1>2. ASSUME NEW j \in Jobs, dir' = dir \ {j}, result' = [result EXCEPT ![j] = "none"]
      PROVE  result' \in [Jobs -> Results] /\ \A k \in Jobs : result'[k] # "none" => k \in dir'
  BY <1>0, <1>2 DEF Results
<1>3. ASSUME NEW j \in Jobs, TrialStarts(c, j)
      PROVE  result' \in [Jobs -> Results] /\ \A k \in Jobs : result'[k] # "none" => k \in dir'
  BY <1>0, <1>3 DEF TrialStarts
<1>4. ASSUME NEW j \in Jobs, ResultOpens(c, j)
      PROVE  result' \in [Jobs -> Results] /\ \A k \in Jobs : result'[k] # "none" => k \in dir'
  BY <1>0, <1>4 DEF ResultOpens, Results
<1>5. ASSUME NEW j \in Jobs, NEW verdict \in Valid, ResultWritten(c, j, verdict)
      PROVE  result' \in [Jobs -> Results] /\ \A k \in Jobs : result'[k] # "none" => k \in dir'
  BY <1>0, <1>5 DEF ResultWritten, Results
<1>6. CASE \E j \in Jobs : Archive(c, j) \/ Clear(c, j)
  BY <1>2, <1>6 DEF Archive, Clear
<1>7. CASE \E j \in Jobs : \/ TrialStarts(c, j) \/ ResultOpens(c, j)
                           \/ \E verdict \in Valid : ResultWritten(c, j, verdict)
  BY <1>3, <1>4, <1>5, <1>7
<1> QED
  BY <1>1, <1>6, <1>7
  DEF MatrixStep, ControllerStep, TrialStep, Publish, Plan, PreflightPasses, Refuse, Cleared,
      SummaryOpens, SummaryWritten, TrialRefuses, VMStarts, TrialEnds, TrialFails, Interrupt,
      Kill, diskVars

(* ... and only a busy launch takes one.                                   *)
LEMMA StepBusy ==
  ASSUME NEW c \in Launches, MatrixStep(c)
  PROVE  Busy(c)
<1>1. CASE \E j \in Jobs : Archive(c, j) \/ Clear(c, j) \/ TrialStarts(c, j) \/ TrialRefuses(c, j)
  BY <1>1 DEF Busy, Archive, Clear, TrialStarts, TrialRefuses, MayStart
<1>2. CASE \/ Publish(c) \/ Plan(c) \/ PreflightPasses(c) \/ Refuse(c) \/ Cleared(c)
           \/ SummaryOpens(c) \/ SummaryWritten(c) \/ Interrupt(c) \/ Kill(c)
  BY <1>2 DEF Busy, Publish, Plan, PreflightPasses, Refuse, Cleared, SummaryOpens,
     SummaryWritten, Interrupt, Kill
<1>3. CASE TrialStep(c) \/ \E j \in Jobs : TrialFails(c, j)
  BY <1>3 DEF Busy, TrialStep, VMStarts, ResultOpens, ResultWritten, TrialEnds, TrialFails
<1> QED  BY <1>1, <1>2, <1>3 DEF MatrixStep, ControllerStep

LEMMA StepTyped ==
  ASSUME Typed, NEW c \in Launches, MatrixStep(c), UNCHANGED <<worker, launcher>>
  PROVE  Typed' /\ Busy(c) /\ \A d \in Launches \ {c} : ctl'[d] = ctl[d] /\ trial'[d] = trial[d]
<1>1. worker' \in Workers /\ launcher'.resume \in BOOLEAN /\ launcher'.retry \in BOOLEAN
  BY DEF Typed
<1> QED  BY <1>1, StepCtl, StepTrial, StepResult, StepBusy DEF Typed

(* One launch's step and its own share of the invariant.                   *)
LEMMA StepOwn ==
  ASSUME Typed, NEW c \in Launches, Planned(c), Unwritten(c), MatrixStep(c)
  PROVE  Planned(c)' /\ Unwritten(c)' /\ Keeps
<1> USE DEF Typed, Planned, Unwritten, Keeps, Waiting
<1>1. CASE Publish(c) \/ PreflightPasses(c) \/ Cleared(c) \/ SummaryOpens(c)
  <2>1. UNCHANGED <<result, trial>>
    BY <1>1 DEF Publish, PreflightPasses, Cleared, SummaryOpens, diskVars
  <2>2. CASE PreflightPasses(c)
    BY <1>1, <2>1, <2>2 DEF PreflightPasses, Go, CtlRecord
  <2>3. CASE Publish(c) \/ Cleared(c) \/ SummaryOpens(c)
    <3>1. ctl'[c].at \notin Waiting
      BY <2>3 DEF Publish, Cleared, SummaryOpens, Go, CtlRecord
    <3> QED  BY <2>1, <3>1
  <2> QED  BY <1>1, <2>2, <2>3
<1>2. CASE Plan(c)
  <2>1. /\ ctl[c].at = "planning"
        /\ UNCHANGED <<result, trial>>
    BY <1>2 DEF Plan, diskVars
  <2>2. PICK redo \in SUBSET Unavailable :
          ctl' = [ctl EXCEPT ![c].at = "preflight", ![c].todo = Pending \cup redo,
                             ![c].redo = redo, ![c].clear = Pending \cup redo]
    BY <1>2 DEF Plan
  <2>3. ctl'[c].redo = redo /\ ctl'[c].clear = Pending \cup redo
    BY <2>2 DEF CtlRecord
  <2>4. \A j \in redo : result[j] = "unavailable"
    BY DEF Unavailable
  <2>5. \A j \in Pending \cup redo : result[j] \in Valid => j \in redo
    BY DEF Pending
  <2>6. Planned(c)'
    BY <2>1, <2>3, <2>4, <2>5
  <2> QED  BY <2>1, <2>6
<1>3. CASE Refuse(c) \/ Kill(c) \/ SummaryWritten(c)
  BY <1>3 DEF Refuse, Kill, SummaryWritten, diskVars, CtlRecord, Off
<1>4. CASE Interrupt(c)
  BY <1>4 DEF Interrupt, diskVars, CtlRecord, Off
<1>5. ASSUME NEW j \in Jobs, Archive(c, j)
      PROVE  Planned(c)' /\ Unwritten(c)' /\ Keeps
  BY <1>5 DEF Archive, CtlRecord, Valid
<1>6. ASSUME NEW j \in Jobs, Clear(c, j)
      PROVE  Planned(c)' /\ Unwritten(c)' /\ Keeps
  <2>1. /\ ctl[c].at = "archiving" /\ ctl[c].redo = {} /\ j \in ctl[c].clear
        /\ result[j] \notin Valid
    BY <1>6 DEF Clear, ToClear
  <2> QED  BY <1>6, <2>1 DEF Clear, CtlRecord, Valid
<1>7. ASSUME NEW j \in Jobs, TrialStarts(c, j)
      PROVE  Planned(c)' /\ Unwritten(c)' /\ Keeps
  BY <1>7 DEF TrialStarts, MayStart, Stage, CtlRecord
<1>8. ASSUME NEW j \in Jobs, TrialRefuses(c, j)
      PROVE  Planned(c)' /\ Unwritten(c)' /\ Keeps
  <2>1. ctl' = [Loaded(c, j) EXCEPT ![c].todo = @ \ {j}] /\ ctl[c].at = "running"
        /\ UNCHANGED <<result, trial>>
    BY <1>8 DEF TrialRefuses, MayStart, diskVars
  <2>2. ctl'[c].at = "running"
    BY <2>1, Loads DEF CtlRecord
  <2> QED  BY <2>1, <2>2
<1>9. ASSUME NEW j \in Jobs,
             VMStarts(c, j) \/ ResultOpens(c, j) \/ TrialEnds(c, j) \/ TrialFails(c, j)
      PROVE  Planned(c)' /\ Unwritten(c)' /\ Keeps
  <2>1. ctl' = ctl \/ ctl' = Loaded(c, j)
    BY <1>9 DEF VMStarts, ResultOpens, TrialEnds, TrialFails
  <2>2. ctl'[c].at = ctl[c].at
    BY <2>1, Loads
  <2>3. trial[c][j] # "none" /\ ctl[c].at \notin Waiting
    BY <1>9 DEF VMStarts, ResultOpens, TrialEnds, TrialFails
  <2>4. \E s \in Stages :
          /\ trial' = [trial EXCEPT ![c][j] = s]
          /\ s \in {"building", "up"} => trial[c][j] \in {"building", "up"} /\ result' = result
    BY <1>9 DEF VMStarts, ResultOpens, TrialEnds, TrialFails, Stage, Stages, diskVars
  <2>5. \/ result' = result
        \/ trial[c][j] = "up" /\ result' = [result EXCEPT ![j] = "invalid"]
    BY <1>9 DEF VMStarts, ResultOpens, TrialEnds, TrialFails, diskVars
  <2>6. Keeps
    BY <2>5
  <2>7. Unwritten(c)'
    BY <2>4, <2>5 DEF Stages
  <2> QED  BY <2>2, <2>3, <2>6, <2>7
<1>10. ASSUME NEW j \in Jobs, NEW verdict \in Valid, ResultWritten(c, j, verdict)
       PROVE  Planned(c)' /\ Unwritten(c)' /\ Keeps
  BY <1>10 DEF ResultWritten, Stage, Valid
<1> QED
  BY <1>1, <1>2, <1>3, <1>4, <1>5, <1>6, <1>7, <1>8, <1>9, <1>10
  DEF MatrixStep, ControllerStep, TrialStep

LEMMA MatrixKeeps ==
  ASSUME SessionInv, NEW c \in Launches, MatrixStep(c), UNCHANGED <<sessionVars, overlap>>
  PROVE  SessionInv' /\ (~ overlap => Keeps)
<1>1. /\ Typed' /\ Busy(c)
      /\ \A d \in Launches \ {c} : ctl'[d] = ctl[d] /\ trial'[d] = trial[d]
      /\ UNCHANGED <<worker, status, followed, overlap>>
  BY StepTyped DEF SessionInv, sessionVars
<1>2. ASSUME ~ overlap PROVE MatrixInv' /\ Decided' /\ Keeps
  <2>1. Planned(c)' /\ Unwritten(c)' /\ Keeps
    BY <1>2, StepOwn DEF SessionInv, MatrixInv
  <2>2. \A d \in Launches \ {c} : ~ Busy(d) /\ ~ Busy(d)'
    BY <1>1, <1>2 DEF SessionInv, MatrixInv, Alone, Busy
  <2>3. \A d \in Launches \ {c} : Planned(d)' /\ Unwritten(d)'
    BY <2>2 DEF Planned, Unwritten, Busy, Waiting
  <2>4. Alone' /\ Locked'
    BY <1>1, <1>2, <2>2 DEF SessionInv, MatrixInv, Alone, Locked
  <2>5. Decided'
    BY <1>1, <1>2, <2>1 DEF SessionInv, Decided, AllEvaluated, Keeps
  <2> QED  BY <2>1, <2>3, <2>4, <2>5 DEF MatrixInv
<1> QED  BY <1>1, <1>2 DEF SessionInv

-----------------------------------------------------------------------------
(* The steps of the session itself.                                        *)

(* A report of completed is no more than what the results say.             *)
LEMMA ReportIsDecided ==
  ASSUME Decided, Report = "completed"
  PROVE  AllEvaluated
<1>1. CASE status = "completed"
  BY <1>1 DEF Decided
<1>2. CASE status # "completed"
  <2>1. MatrixReport(FALSE) = "completed"
    BY <1>2 DEF Report, Terminal
  <2> QED  BY <2>1 DEF MatrixReport, Complete, AllEvaluated
<1> QED  BY <1>1, <1>2

(* No step but a controller or a trial's touches controllers, trials or    *)
(* results, as long as it starts and ends nothing.                         *)
LEMMA DeskKeeps ==
  ASSUME SessionInv, UNCHANGED <<dir, result, ctl, trial, overlap>>,
         worker' \in Workers, launcher'.resume \in BOOLEAN, launcher'.retry \in BOOLEAN,
         \A c \in Launches : worker'[c].at = "running" => worker[c].at = "running",
         ~ overlap => Decided'
  PROVE  SessionInv' /\ (~ overlap => Keeps)
<1>1. Typed' /\ UNCHANGED <<result, ctl, trial, overlap>>
  BY DEF SessionInv, Typed
<1>2. ASSUME ~ overlap PROVE MatrixInv' /\ Keeps
  <2>0. MatrixInv
    BY <1>2 DEF SessionInv
  <2>1. Alone'
    BY <1>1, <2>0 DEF MatrixInv, Alone, Busy
  <2>2. Locked'
    BY <1>1, <2>0 DEF MatrixInv, Locked, Busy
  <2>3. \A c \in Launches : Planned(c)' /\ Unwritten(c)'
    BY <1>1, <2>0 DEF MatrixInv, Planned, Unwritten
  <2>4. Keeps
    BY <1>1 DEF Keeps
  <2> QED  BY <2>1, <2>2, <2>3, <2>4 DEF MatrixInv
<1> QED  BY <1>1, <1>2 DEF SessionInv

LEMMA RunsKeeps ==
  ASSUME SessionInv, NEW c \in Launches, WorkerRuns(c)
  PROVE  SessionInv' /\ (~ overlap' => Keeps)
<1>1. /\ UNCHANGED <<dir, result, trial, followed, launcher>>
      /\ worker' = [worker EXCEPT ![c].at = "running"]
      /\ status' = "running"
      /\ overlap' = (overlap \/ LeftRunning)
      /\ ~ RunLocked
  BY DEF WorkerRuns, diskVars
<1>2. PICK p \in {"planning", "fresh"} : Start(c, p, worker[c].retry)
  BY DEF WorkerRuns
<1>3. worker[c].retry \in BOOLEAN /\ Typed
  BY DEF SessionInv, Typed, Workers
<1>4. [Off EXCEPT !.at = p, !.retry = worker[c].retry] \in CtlRecord
  BY <1>3 DEF Off, CtlRecord
<1>5. ctl' \in [Launches -> CtlRecord] /\ \A d \in Launches \ {c} : ctl'[d] = ctl[d]
  BY <1>2, <1>3, <1>4 DEF Start, Typed
<1>6. ctl'[c].at \in {"planning", "fresh"}
  BY <1>2, <1>3, <1>4 DEF Start, Typed, Off
<1>7. worker' \in Workers
      /\ \A d \in Launches \ {c} : worker'[d] = worker[d]
  BY <1>1, <1>3 DEF Typed, Workers
<1>8. Typed'
  BY <1>1, <1>3, <1>5, <1>7 DEF Typed
<1>9. ASSUME ~ overlap' PROVE MatrixInv' /\ Decided' /\ Keeps
  <2>1. ~ overlap /\ ~ LeftRunning
    BY <1>1, <1>9
  <2>2. MatrixInv /\ Decided
    BY <2>1 DEF SessionInv
  <2>3. \A d \in Launches : Quiet(d) /\ worker[d].at # "running"
    BY <1>1, <2>1 DEF LeftRunning, RunLocked
  <2>4. \A d \in Launches : ~ Busy(d)
    BY <2>3, BusyIsNotQuiet
  <2>5. \A d \in Launches \ {c} : ~ Busy(d)' /\ worker'[d].at # "running"
    BY <1>1, <1>5, <1>7, <2>3, <2>4 DEF Busy
  <2>6. Alone' /\ Locked'
    BY <2>5 DEF Alone, Locked
  <2>7. \A d \in Launches, j \in Jobs : trial'[d][j] = "none"
    BY <1>1, <2>4 DEF Busy
  <2>8. \A d \in Launches : ctl'[d].at \notin {"preflight", "archiving"}
    BY <1>5, <1>6, <2>4 DEF Busy
  <2>9. \A d \in Launches : Planned(d)' /\ Unwritten(d)'
    BY <2>7, <2>8 DEF Planned, Unwritten
  <2>10. Decided'
    BY <1>1, <2>2 DEF Decided, AllEvaluated
  <2> QED  BY <1>1, <2>6, <2>9, <2>10 DEF MatrixInv, Keeps
<1> QED  BY <1>8, <1>9 DEF SessionInv

LEMMA CrashKeeps ==
  ASSUME SessionInv, HostCrashes
  PROVE  SessionInv' /\ (~ overlap' => Keeps)
<1>1. /\ UNCHANGED <<dir, result, status, followed, overlap>>
      /\ worker' = [c \in Launches |-> NoWorker] /\ launcher' = NoLaunch
      /\ ctl' = [c \in Launches |-> Off]
      /\ trial' = [c \in Launches |-> [j \in Jobs |-> "none"]]
  BY DEF HostCrashes, diskVars
<1>2. Typed'
  BY <1>1, OffIsRecord DEF SessionInv, Typed, Workers, NoWorker, NoLaunch, Stages
<1>3. \A c \in Launches : ~ Busy(c)' /\ Planned(c)' /\ Unwritten(c)'
  BY <1>1 DEF Busy, Off, Planned, Unwritten
<1>4. Alone' /\ Locked'
  BY <1>3 DEF Alone, Locked
<1>5. ~ overlap => Decided'
  BY <1>1 DEF SessionInv, Decided, AllEvaluated
<1> QED  BY <1>1, <1>2, <1>3, <1>4, <1>5 DEF SessionInv, MatrixInv, Keeps

(* What a worker publishes is what the matrix says.                        *)
LEMMA StepKeeps ==
  ASSUME SessionInv, [Next]_vars
  PROVE  SessionInv' /\ (~ overlap' => Keeps)
<1>0. worker \in Workers /\ launcher.resume \in BOOLEAN /\ launcher.retry \in BOOLEAN
      /\ (~ overlap => Decided)
  BY DEF SessionInv, Typed
<1>1. ASSUME NEW c \in Launches, NEW resume \in BOOLEAN, NEW retry \in BOOLEAN,
             Launch(c, resume, retry)
      PROVE  SessionInv' /\ (~ overlap' => Keeps)
  <2>1. UNCHANGED <<dir, result, ctl, trial, overlap, worker, followed>>
        /\ status' \in {"starting", "resuming"}
        /\ launcher'.resume = resume /\ launcher'.retry = retry
    BY <1>1 DEF Launch, matrixVars, diskVars
  <2>2. ~ overlap => Decided'
    BY <1>0, <2>1 DEF Decided, AllEvaluated
  <2> QED  BY <1>0, <2>1, <2>2, DeskKeeps
<1>2. ASSUME NEW c \in Launches,
             \/ Spawn(c) \/ RecordWorker(c) \/ WorkerTurnsAway(c) \/ WorkerDies(c)
      PROVE  SessionInv' /\ (~ overlap' => Keeps)
  <2>1. UNCHANGED <<dir, result, ctl, trial, overlap, status, followed>>
    BY <1>2 DEF Spawn, RecordWorker, WorkerTurnsAway, WorkerDies, matrixVars, diskVars
  <2>2. \E rec \in {worker[c], NoWorker, [at |-> "spawned", resume |-> launcher.resume,
                                         retry |-> launcher.retry]} :
           worker' = [worker EXCEPT ![c] = rec]
    BY <1>0, <1>2 DEF Spawn, RecordWorker, WorkerTurnsAway, WorkerDies, Workers
  <2>3. worker' \in Workers /\ \A d \in Launches : worker'[d].at = "running" => worker[d].at = "running"
    <3>1. PICK rec \in {worker[c], NoWorker, [at |-> "spawned", resume |-> launcher.resume,
                                             retry |-> launcher.retry]} :
             worker' = [worker EXCEPT ![c] = rec]
      BY <2>2
    <3>2. rec \in [at: {"off", "spawned", "running"}, resume: BOOLEAN, retry: BOOLEAN]
          /\ (rec.at = "running" => rec = worker[c])
      <4>1. CASE rec = worker[c]
        BY <1>0, <4>1 DEF Workers
      <4>2. CASE rec = NoWorker
        BY <4>2 DEF NoWorker
      <4>3. CASE rec = [at |-> "spawned", resume |-> launcher.resume, retry |-> launcher.retry]
        BY <1>0, <4>3
      <4> QED  BY <3>1, <4>1, <4>2, <4>3
    <3> QED  BY <1>0, <3>1, <3>2 DEF Workers
  <2>4. launcher'.resume \in BOOLEAN /\ launcher'.retry \in BOOLEAN
    <3>1. \/ launcher' = launcher
          \/ launcher' = NoLaunch
          \/ launcher' = [NoLaunch EXCEPT !.at = "recording", !.of = c]
      BY <1>2 DEF Spawn, RecordWorker, WorkerTurnsAway, WorkerDies
    <3>2. NoLaunch.resume \in BOOLEAN /\ NoLaunch.retry \in BOOLEAN
      BY DEF NoLaunch
    <3>3. /\ [NoLaunch EXCEPT !.at = "recording", !.of = c].resume \in BOOLEAN
          /\ [NoLaunch EXCEPT !.at = "recording", !.of = c].retry \in BOOLEAN
      BY DEF NoLaunch
    <3>4. CASE launcher' = launcher
      BY <1>0, <3>4
    <3>5. CASE launcher' = NoLaunch
      BY <3>2, <3>5
    <3>6. CASE launcher' = [NoLaunch EXCEPT !.at = "recording", !.of = c]
      BY <3>3, <3>6
    <3> QED  BY <3>1, <3>4, <3>5, <3>6
  <2>5. ~ overlap => Decided'
    BY <1>0, <2>1 DEF Decided, AllEvaluated
  <2> QED  BY <2>1, <2>3, <2>4, <2>5, DeskKeeps
<1>3. ASSUME NEW c \in Launches, WorkerReports(c)
      PROVE  SessionInv' /\ (~ overlap' => Keeps)
  <2>1. /\ UNCHANGED <<dir, result, ctl, trial, overlap, followed, launcher>>
        /\ worker' = [worker EXCEPT ![c] = NoWorker]
        /\ status' = "completed" => MatrixReport(FALSE) = "completed"
    BY <1>3 DEF WorkerReports, matrixVars, diskVars
  <2>2. worker' \in Workers /\ \A d \in Launches : worker'[d].at = "running" => worker[d].at = "running"
    <3>1. NoWorker \in [at: {"off", "spawned", "running"}, resume: BOOLEAN, retry: BOOLEAN]
          /\ NoWorker.at # "running"
      BY DEF NoWorker
    <3> QED  BY <1>0, <2>1, <3>1 DEF Workers
  <2>3. MatrixReport(FALSE) = "completed" => AllEvaluated
    BY DEF MatrixReport, Complete, AllEvaluated
  <2>4. ~ overlap => Decided'
    BY <1>0, <2>1, <2>3 DEF Decided, AllEvaluated
  <2> QED  BY <1>0, <2>1, <2>2, <2>4, DeskKeeps
<1>4. CASE FollowerRuns
  <2>1. UNCHANGED <<dir, result, ctl, trial, overlap, worker, launcher, status>>
    BY <1>4 DEF FollowerRuns, matrixVars, diskVars
  <2>2. ~ overlap => AllEvaluated
    BY <1>0, <1>4, ReportIsDecided DEF FollowerRuns
  <2>3. ~ overlap => Decided'
    BY <2>1, <2>2 DEF Decided, AllEvaluated
  <2> QED  BY <1>0, <2>1, <2>3, DeskKeeps
<1>5. ASSUME NEW c \in Launches, Works(c) \/ Tries(c) \/ Breaks(c)
      PROVE  SessionInv' /\ (~ overlap' => Keeps)
  <2>1. MatrixStep(c) /\ UNCHANGED <<sessionVars, overlap>>
    BY <1>5 DEF Works, Tries, Breaks, MatrixStep
  <2>2. overlap' = overlap
    BY <2>1
  <2> QED  BY <2>1, <2>2, MatrixKeeps
<1>6. CASE UNCHANGED vars
  <2>1. UNCHANGED <<dir, result, ctl, trial, overlap, worker, launcher, status, followed>>
    BY <1>6 DEF vars, matrixVars, diskVars, sessionVars
  <2>2. ~ overlap => Decided'
    BY <1>0, <2>1 DEF Decided, AllEvaluated
  <2> QED  BY <1>0, <2>1, <2>2, DeskKeeps
<1>7. CASE \E c \in Launches : Launch(c, FALSE, FALSE) \/ \E retry \in BOOLEAN : Launch(c, TRUE, retry)
  BY <1>1, <1>7
<1>8. CASE \E c \in Launches : \/ Spawn(c) \/ RecordWorker(c) \/ WorkerTurnsAway(c) \/ WorkerDies(c)
  BY <1>2, <1>8
<1>9. CASE LauncherDies
  <2>1. UNCHANGED <<dir, result, ctl, trial, overlap, worker, status, followed>>
        /\ launcher' = NoLaunch
    BY <1>9 DEF LauncherDies, diskVars
  <2>2. ~ overlap => Decided'
    BY <1>0, <2>1 DEF Decided, AllEvaluated
  <2> QED  BY <1>0, <2>1, <2>2, DeskKeeps DEF NoLaunch
<1> QED
  BY <1>3, <1>4, <1>5, <1>6, <1>7, <1>8, <1>9, RunsKeeps, CrashKeeps DEF Next, Manages

LEMMA InitKeeps == Init => SessionInv
<1> SUFFICES ASSUME Init PROVE SessionInv
  OBVIOUS
<1>1. Typed
  BY OffIsRecord DEF Init, MatrixInit, Typed, Results, Stages, Workers, NoWorker, NoLaunch
<1>2. \A c \in Launches : ~ Busy(c) /\ Planned(c) /\ Unwritten(c)
  BY DEF Init, MatrixInit, Busy, Off, Planned, Unwritten
<1>3. Alone /\ Locked
  BY <1>2 DEF Alone, Locked
<1>4. Decided
  BY DEF Init, Decided
<1> QED  BY <1>1, <1>2, <1>3, <1>4 DEF SessionInv, MatrixInv

LEMMA SessionInvCorrect == Spec => []SessionInv
BY InitKeeps, StepKeeps, PTL DEF Spec

(* Two controllers are never at work in one matrix: launch_worker's check  *)
(* and its record are apart, and run.lock makes up for it.                 *)
THEOREM OneControllerCorrect == Spec => []OneController
<1>1. SessionInv => OneController
  BY DEF SessionInv, MatrixInv, Alone, Busy, OneController
<1> QED  BY <1>1, SessionInvCorrect, PTL

(* What reports completed, or let a queued session go ahead, is complete.  *)
THEOREM CompletedCorrect == Spec => []CompletedIsComplete
<1>1. SessionInv => CompletedIsComplete
  BY ReportIsDecided DEF SessionInv, Decided, CompletedIsComplete
<1> QED  BY <1>1, SessionInvCorrect, PTL

(* A resume keeps what is valid, or archives it.                           *)
THEOREM ResultsKeptCorrect == Spec => ResultsKept
<1>1. ASSUME SessionInv, [Next]_vars
      PROVE  [~ overlap' => \A j \in Jobs :
                /\ result[j] = "evaluated" => result'[j] = "evaluated"
                /\ result[j] = "unavailable" => result'[j] = "unavailable" \/ j \in retries']_vars
  BY <1>1, StepKeeps DEF Keeps
<1> QED  BY <1>1, SessionInvCorrect, PTL DEF Spec, ResultsKept

-----------------------------------------------------------------------------
(* The session and its promise.                                            *)
Answers == [j \in Jobs |-> IF result[j] \in Valid THEN result[j] ELSE "none"]

(* A controller or a trial gives an answer where there is none, or archives *)
(* an unavailable one.                                                     *)
LEMMA StepAnswers ==
  ASSUME Typed, NEW c \in Launches, Planned(c), Unwritten(c), MatrixStep(c)
  PROVE  \/ UNCHANGED <<Answers, retries>>
         \/ \E j \in Jobs : /\ Answers[j] = "none" /\ UNCHANGED retries
                            /\ \E verdict \in Valid : Answers' = [Answers EXCEPT ![j] = verdict]
         \/ \E j \in Jobs : /\ Answers[j] = "unavailable" /\ retries' = retries \cup {j}
                            /\ Answers' = [Answers EXCEPT ![j] = "none"]
<1>0. result \in [Jobs -> Results]
  BY DEF Typed
<1>1. ASSUME NEW j \in Jobs, Archive(c, j)
      PROVE  /\ Answers[j] = "unavailable" /\ retries' = retries \cup {j}
             /\ Answers' = [Answers EXCEPT ![j] = "none"]
  <2>1. result[j] = "unavailable"
    BY <1>1 DEF Archive, Planned
  <2>2. result' = [result EXCEPT ![j] = "none"] /\ retries' = retries \cup {j}
    BY <1>1, <2>1 DEF Archive
  <2> QED  BY <1>0, <2>1, <2>2 DEF Answers, Valid
<1>2. ASSUME NEW j \in Jobs, Clear(c, j)
      PROVE  UNCHANGED <<Answers, retries>>
  <2>1. result[j] \notin Valid
    BY <1>2 DEF Clear, ToClear, Planned
  <2>2. result' = [result EXCEPT ![j] = "none"] /\ UNCHANGED retries
    BY <1>2 DEF Clear
  <2> QED  BY <1>0, <2>1, <2>2 DEF Answers, Valid
<1>3. ASSUME NEW j \in Jobs, ResultOpens(c, j)
      PROVE  UNCHANGED <<Answers, retries>>
  <2>1. result[j] = "none"
    BY <1>3 DEF ResultOpens, Unwritten
  <2>2. /\ result' = result \/ result' = [result EXCEPT ![j] = "invalid"]
        /\ UNCHANGED retries
    BY <1>3 DEF ResultOpens
  <2> QED  BY <1>0, <2>1, <2>2 DEF Answers, Valid
<1>4. ASSUME NEW j \in Jobs, NEW verdict \in Valid, ResultWritten(c, j, verdict)
      PROVE  \/ UNCHANGED <<Answers, retries>>
             \/ /\ Answers[j] = "none" /\ UNCHANGED retries
                /\ Answers' = [Answers EXCEPT ![j] = verdict]
  <2>1. CASE result[j] = "invalid"
    <3>1. result' = [result EXCEPT ![j] = verdict] /\ UNCHANGED retries
      BY <1>4, <2>1 DEF ResultWritten
    <3> QED  BY <1>0, <2>1, <3>1 DEF Answers, Valid
  <2>2. CASE result[j] # "invalid"
    BY <1>4, <2>2 DEF ResultWritten, Answers
  <2> QED  BY <2>1, <2>2
<1>5. CASE UNCHANGED <<result, retries>>
  BY <1>5 DEF Answers
<1> QED
  BY <1>1, <1>2, <1>3, <1>4, <1>5
  DEF MatrixStep, ControllerStep, TrialStep, Publish, Plan, PreflightPasses, Refuse, Cleared,
      SummaryOpens, SummaryWritten, TrialStarts, TrialRefuses, VMStarts, TrialEnds, TrialFails,
      Interrupt, Kill, diskVars

(* The steps of the session itself give no answer.                         *)
LEMMA DeskAnswers ==
  ASSUME NEW c \in Launches,
         \/ \E resume, retry \in BOOLEAN : Launch(c, resume, retry)
         \/ Spawn(c) \/ RecordWorker(c) \/ WorkerTurnsAway(c) \/ WorkerRuns(c)
         \/ WorkerReports(c) \/ WorkerDies(c) \/ LauncherDies \/ HostCrashes \/ FollowerRuns
  PROVE  UNCHANGED <<result, retries>>
BY DEF Launch, Spawn, RecordWorker, WorkerTurnsAway, WorkerRuns, WorkerReports, WorkerDies,
       LauncherDies, HostCrashes, FollowerRuns, matrixVars, diskVars

LEMMA OverlapStays == overlap = TRUE /\ [Next]_vars => overlap' = TRUE
BY DEF Next, vars, Launch, Spawn, RecordWorker, Manages, WorkerTurnsAway, WorkerRuns,
       WorkerReports, Works, Tries, Breaks, WorkerDies, LauncherDies, HostCrashes, FollowerRuns

LEMMA AllAnswered == AllEvaluated => Promise!AllEvaluated
BY DEF AllEvaluated, Promise!AllEvaluated, Valid

LEMMA StepPromises ==
  ASSUME SessionInv, overlap \in BOOLEAN, [Next]_vars
  PROVE  [Promise!Next]_(Promise!promiseVars)
<1> USE DEF Promise!Next, Promise!promiseVars
<1>1. CASE overlap = TRUE
  BY <1>1, OverlapStays DEF Promise!Anything
<1>2. CASE overlap = FALSE
  <2>1. MatrixInv /\ Decided
    BY <1>2 DEF SessionInv
  <2>2. ASSUME NEW c \in Launches, Works(c) \/ Tries(c) \/ Breaks(c)
        PROVE  [Promise!Next]_(Promise!promiseVars)
    <3>1. MatrixStep(c) /\ UNCHANGED <<status, followed, overlap>>
      BY <2>2 DEF Works, Tries, Breaks, MatrixStep, sessionVars
    <3>2. Typed /\ Planned(c) /\ Unwritten(c)
      BY <2>1 DEF SessionInv, MatrixInv
    <3>3. CASE UNCHANGED <<Answers, retries>>
      BY <3>1, <3>3 DEF Answers
    <3>4. ASSUME NEW j \in Jobs, NEW verdict \in Valid, Answers[j] = "none",
                 Answers' = [Answers EXCEPT ![j] = verdict], UNCHANGED retries
          PROVE  Promise!Answer(j)
      BY <3>1, <3>4 DEF Promise!Answer, Answers, Valid
    <3>5. ASSUME NEW j \in Jobs, Answers[j] = "unavailable", retries' = retries \cup {j},
                 Answers' = [Answers EXCEPT ![j] = "none"]
          PROVE  Promise!TakeBack(j)
      BY <3>1, <3>5 DEF Promise!TakeBack, Answers
    <3> QED  BY <3>1, <3>2, <3>3, <3>4, <3>5, StepAnswers
  <2>3. ASSUME NEW c \in Launches, WorkerReports(c)
        PROVE  [Promise!Next]_(Promise!promiseVars)
    <3>1. UNCHANGED <<result, retries, followed, overlap>>
      BY <2>3, DeskAnswers DEF WorkerReports
    <3>2. CASE status' = "completed"
      <4>1. MatrixReport(FALSE) = "completed"
        BY <2>3, <3>2 DEF WorkerReports
      <4>2. Promise!AllEvaluated
        BY <4>1, AllAnswered DEF MatrixReport, Complete, AllEvaluated
      <4> QED  BY <3>1, <3>2, <4>2 DEF Promise!Say
    <3>3. CASE status' # "completed"
      BY <3>1, <3>3 DEF Promise!Unsay
    <3> QED  BY <3>2, <3>3
  <2>4. ASSUME NEW c \in Launches,
               \/ WorkerRuns(c) \/ \E resume, retry \in BOOLEAN : Launch(c, resume, retry)
        PROVE  [Promise!Next]_(Promise!promiseVars)
    <3>1. UNCHANGED <<result, retries, followed>> /\ status' # "completed"
      BY <2>4, DeskAnswers DEF WorkerRuns, Launch
    <3>2. overlap' \in {overlap, TRUE}
      BY <1>2, <2>4 DEF WorkerRuns, Launch
    <3> QED  BY <3>1, <3>2 DEF Promise!Unsay
  <2>5. CASE FollowerRuns
    <3>1. Promise!AllEvaluated
      BY <2>1, <2>5, ReportIsDecided, AllAnswered DEF FollowerRuns
    <3>2. UNCHANGED <<result, retries, status, overlap>> /\ followed' = TRUE /\ followed # TRUE
      BY <2>5 DEF FollowerRuns, matrixVars, diskVars
    <3> QED  BY <3>1, <3>2 DEF Promise!GoAhead
  <2>6. ASSUME NEW c \in Launches,
               \/ Spawn(c) \/ RecordWorker(c) \/ WorkerTurnsAway(c) \/ WorkerDies(c)
        PROVE  [Promise!Next]_(Promise!promiseVars)
    BY <2>6, DeskAnswers DEF Spawn, RecordWorker, WorkerTurnsAway, WorkerDies
  <2>7. CASE LauncherDies \/ HostCrashes \/ UNCHANGED vars
    BY <2>7 DEF LauncherDies, HostCrashes, vars, matrixVars, diskVars, sessionVars
  <2> QED
    BY <2>2, <2>3, <2>4, <2>5, <2>6, <2>7 DEF Next, Manages
<1> QED  BY <1>1, <1>2

OverlapKnown == overlap \in BOOLEAN

LEMMA OverlapKnownCorrect == Spec => []OverlapKnown
<1>1. Init => OverlapKnown
  BY DEF Init, OverlapKnown
<1>2. OverlapKnown /\ [Next]_vars => OverlapKnown'
  BY DEF OverlapKnown, Next, vars, Launch, Spawn, RecordWorker, Manages, WorkerTurnsAway,
         WorkerRuns, WorkerReports, Works, Tries, Breaks, WorkerDies, LauncherDies,
         HostCrashes, FollowerRuns
<1> QED  BY <1>1, <1>2, PTL DEF Spec

(* The files, processes and plans of a session implement its promise: an   *)
(* answer is given once and taken back only into the archive, and nobody   *)
(* is told completed, or goes ahead on it, too early.                      *)
THEOREM PromiseTheorem == Spec => KeepsPromise
<1>1. Init => Promise!Init
  BY DEF Init, MatrixInit, Promise!Init, Valid
<1>2. SessionInv /\ OverlapKnown /\ [Next]_vars => [Promise!Next]_(Promise!promiseVars)
  BY StepPromises DEF OverlapKnown
<1> QED
  BY <1>1, <1>2, OverlapKnownCorrect, SessionInvCorrect, PTL
  DEF Spec, KeepsPromise, Promise!Spec
=============================================================================
