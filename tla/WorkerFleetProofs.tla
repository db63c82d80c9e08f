-------------------------- MODULE WorkerFleetProofs --------------------------
(***************************************************************************)
(* Theorems about the API with its worker daemons, for any sets of runs    *)
(* and workers and any bounds.                                             *)
(***************************************************************************)
EXTENDS WorkerFleet, ControlPlaneProofs

-----------------------------------------------------------------------------
(* The daemon calls the API within its rules.                              *)

(* Every step of the fleet is a step of the API or leaves it alone.        *)
LEMMA FleetStep ==
  ASSUME FleetTypeOK, [FleetNext]_fleetVars
  PROVE  [Next]_planeVars
<1>1. CASE EnrollSome
  BY <1>1 DEF EnrollSome, Enroll, Next
<1>2. ASSUME NEW w \in Workers, DaemonStep(w) PROVE [Next]_planeVars
  <2>1. CASE FetchAssignment(w) \/ Refused(w) \/ \E passed \in BOOLEAN : ExecutorExits(w, passed)
    BY <2>1 DEF FetchAssignment, Refused, ExecutorExits
  <2>2. ASSUME NEW ok \in BOOLEAN, Heartbeat(w, ok) PROVE Next
    BY <2>2 DEF Heartbeat, Next
  <2>3. ASSUME NEW ok \in BOOLEAN, PostStarted(w, ok) \/ PostFinished(w, ok) PROVE Next
    BY <2>3, KindsAssumption DEF PostStarted, PostFinished, Next, ExecutorEvents
  <2>4. ASSUME NEW ok \in BOOLEAN, PostResult(w, ok) PROVE Next
    BY <2>4 DEF PostResult, Next, FleetTypeOK
  <2> QED  BY <1>2, <2>1, <2>2, <2>3, <2>4 DEF DaemonStep
<1>3. ASSUME NEW w \in Workers, LoopEnds(w) PROVE UNCHANGED planeVars
  BY <1>3 DEF LoopEnds
<1>4. CASE ClientStep \/ Restart
  BY <1>4 DEF ClientStep, Next
<1>5. CASE UNCHANGED fleetVars
  BY <1>5 DEF fleetVars
<1> QED  BY <1>1, <1>2, <1>3, <1>4, <1>5 DEF FleetNext

(* A loop has a run exactly from the assignment to the result.             *)
Working ==
  \A w \in Workers :
    loop[w].run = None <=> loop[w].at \in {"none", "heartbeat", "assignment"}

TypedInv == FleetTypeOK /\ Working

LEMMA TypedCorrect == FleetSpec => []TypedInv
<1>1. FleetInit => TypedInv
  <2>1. Init => TypeOK
    BY BoundsAssumption
    DEF Init, TypeOK, Tables, RunRecord, WorkerRecord, AbsentRun, AbsentWorker, RunStates
  <2> QED  BY <2>1, EndsAssumption DEF FleetInit, TypedInv, FleetTypeOK, Working, NoLoop, Places
<1>2. TypedInv /\ [FleetNext]_fleetVars => TypedInv'
  <2> SUFFICES ASSUME TypedInv, [FleetNext]_fleetVars PROVE TypedInv'
    OBVIOUS
  <2> USE DEF TypedInv, Working, FleetTypeOK, Places, Posting
  <2>1. TypeOK'
    BY FleetStep, TypeStep DEF FleetTypeOK
  <2>2. ASSUME NEW w \in Workers, NEW ok \in BOOLEAN, Enroll(w, ok) PROVE TypedInv'
    BY <2>1, <2>2 DEF Enroll, Proceed, NoLoop
  <2>3. ASSUME NEW w \in Workers, FetchAssignment(w) PROVE TypedInv'
    <3>1. AssignmentOf(w) \in Runs \cup {None}
      BY DEF AssignmentOf, TypeOK, WorkerRecord
    <3> QED  BY <2>1, <2>3, <3>1, ZenonT(30) DEF FetchAssignment, At
  <2>4. ASSUME NEW w \in Workers, Refused(w) PROVE TypedInv'
    BY <2>1, <2>4 DEF Refused, NoLoop
  <2>5. ASSUME NEW w \in Workers, NEW passed \in BOOLEAN, ExecutorExits(w, passed)
        PROVE  TypedInv'
    BY <2>1, <2>5 DEF ExecutorExits, At
  <2>6. ASSUME NEW w \in Workers, NEW ok \in BOOLEAN, Heartbeat(w, ok) PROVE TypedInv'
    BY <2>1, <2>6 DEF Heartbeat, Proceed, NoLoop, At
  <2>7. ASSUME NEW w \in Workers, NEW ok \in BOOLEAN, PostStarted(w, ok) PROVE TypedInv'
    <3>1. launches' \in [Runs -> Nat]
      <4>1. launches \in [Runs -> Nat]
        OBVIOUS
      <4>2. launches' \in {launches, [launches EXCEPT ![loop[w].run] = @ + 1]}
        BY <2>7 DEF PostStarted
      <4> QED  BY <4>1, <4>2
    <3>2. /\ loop' \in [Workers -> [at : Places, run : Runs \cup {None}, passed : BOOLEAN]]
          /\ Working'
      BY <2>7 DEF PostStarted, Proceed, NoLoop, At
    <3>3. UNCHANGED <<succeeded, ends>>
      BY <2>7 DEF PostStarted
    <3> HIDE DEF Working
    <3> QED  BY <2>1, <3>1, <3>2, <3>3
  <2>8. ASSUME NEW w \in Workers, NEW ok \in BOOLEAN, PostFinished(w, ok) PROVE TypedInv'
    BY <2>1, <2>8 DEF PostFinished, Proceed, NoLoop, At
  <2>9. ASSUME NEW w \in Workers, NEW ok \in BOOLEAN, PostResult(w, ok) PROVE TypedInv'
    BY <2>1, <2>9 DEF PostResult, Proceed, NoLoop
  <2>10. ASSUME NEW w \in Workers, LoopEnds(w) PROVE TypedInv'
    BY <2>1, <2>10, EndsAssumption DEF LoopEnds, NoLoop
  <2>11. CASE UNCHANGED <<loop, launches, succeeded, ends>>
    BY <2>1, <2>11
  <2> QED
    BY <2>2, <2>3, <2>4, <2>5, <2>6, <2>7, <2>8, <2>9, <2>10, <2>11
    DEF FleetNext, EnrollSome, DaemonStep, fleetVars
<1> QED  BY <1>1, <1>2, PTL DEF FleetSpec

(* Every variable of the fleet keeps its type.                             *)
THEOREM FleetTypeCorrect == FleetSpec => []FleetTypeOK
<1>1. TypedInv => FleetTypeOK
  BY DEF TypedInv
<1> QED  BY <1>1, TypedCorrect, PTL

(* The daemons drive the API the way its specification allows, so whatever *)
(* holds of the API with unconstrained callers holds in the fleet.         *)
THEOREM FleetRefinesPlane == FleetSpec => Spec
<1>1. FleetInit => Init
  BY DEF FleetInit
<1>2. TypedInv /\ [FleetNext]_fleetVars => [Next]_planeVars
  BY FleetStep DEF TypedInv
<1> QED  BY <1>1, <1>2, TypedCorrect, PTL DEF FleetSpec, Spec

-----------------------------------------------------------------------------
(* Attribution.  What keeps another run from a worker whose loop is still  *)
(* working is that only a heartbeat makes it ready again, and that a loop  *)
(* beats only between runs; what keeps a loop from a worker another daemon *)
(* enrolled is that ids are fresh.                                         *)
Attached ==
  \A w \in Workers :
    /\ loop[w].at # "none" => w \in issued
    /\ loop[w].run # None => /\ workers[w].state # "ready"
                             /\ workers[w].run \in {loop[w].run, None}

LEMMA AttachedCorrect == FleetSpec => []Attached
<1>1. FleetInit => Attached
  BY DEF FleetInit, Attached, NoLoop
<1>2. TypedInv /\ SoundInv /\ Attached /\ [FleetNext]_fleetVars => Attached'
  <2> SUFFICES ASSUME TypedInv, SoundInv, Attached, [FleetNext]_fleetVars PROVE Attached'
    OBVIOUS
  <2> USE DEF Attached, TypedInv, FleetTypeOK, Working
  <2>1. ASSUME NEW w \in Workers, NEW ok \in BOOLEAN, Enroll(w, ok) PROVE Attached'
    BY <2>1 DEF Enroll, RegisterWorker, Proceed, NoLoop, TypeOK
  <2>2. ASSUME NEW w \in Workers, FetchAssignment(w) PROVE Attached'
    <3>1. AssignmentOf(w) # None => workers[w].run = AssignmentOf(w) /\ workers[w].state = "busy"
      BY DEF AssignmentOf, SoundInv, Sound, Consistent
    <3> QED  BY <2>2, <3>1 DEF FetchAssignment, planeVars, At
  <2>3. ASSUME NEW w \in Workers, Refused(w) PROVE Attached'
    BY <2>3 DEF Refused, planeVars, NoLoop
  <2>4. ASSUME NEW w \in Workers, NEW passed \in BOOLEAN, ExecutorExits(w, passed)
        PROVE  Attached'
    BY <2>4 DEF ExecutorExits, planeVars, At
  <2>5. ASSUME NEW w \in Workers, NEW ok \in BOOLEAN, Heartbeat(w, ok) PROVE Attached'
    BY <2>5 DEF Heartbeat, WorkerHeartbeat, Proceed, NoLoop, At, TypeOK, WorkerRecord
  <2>6. ASSUME NEW w \in Workers, NEW ok \in BOOLEAN, PostStarted(w, ok) PROVE Attached'
    BY <2>6 DEF PostStarted, WorkerEvent, Proceed, NoLoop, At
  <2>7. ASSUME NEW w \in Workers, NEW ok \in BOOLEAN, PostFinished(w, ok) PROVE Attached'
    BY <2>7 DEF PostFinished, WorkerEvent, Proceed, NoLoop, At
  <2>8. ASSUME NEW w \in Workers, NEW ok \in BOOLEAN, PostResult(w, ok) PROVE Attached'
    BY <2>8 DEF PostResult, WorkerResult, Proceed, NoLoop, At, TypeOK
  <2>9. ASSUME NEW w \in Workers, LoopEnds(w) PROVE Attached'
    BY <2>9 DEF LoopEnds, planeVars, NoLoop
  <2>10. ASSUME NEW r \in Runs, NEW ok \in BOOLEAN, StartRun(r, ok), UNCHANGED loop
         PROVE  Attached'
    BY <2>10 DEF StartRun, Idle, TypeOK
  <2>11. ASSUME NEW r \in Runs, NEW ok \in BOOLEAN, SubmitRun(r, ok), UNCHANGED loop
         PROVE  Attached'
    BY <2>11 DEF SubmitRun
  <2>12. CASE Restart /\ UNCHANGED loop
    <3>1. \A w \in Workers : /\ RecoveredWorkers(disk.workers)[w].state # "ready"
                             /\ RecoveredWorkers(disk.workers)[w].run = None
      BY DEF RecoveredWorkers, SoundInv, Sound, Consistent
    <3> QED  BY <2>12, <3>1 DEF Restart
  <2>13. CASE UNCHANGED fleetVars
    BY <2>13 DEF fleetVars, planeVars
  <2> QED
    BY <2>1, <2>2, <2>3, <2>4, <2>5, <2>6, <2>7, <2>8, <2>9, <2>10, <2>11, <2>12, <2>13
    DEF FleetNext, EnrollSome, DaemonStep, ClientStep
<1> QED  BY <1>1, <1>2, TypedCorrect, FleetRefinesPlane, SoundCorrect, PTL DEF FleetSpec

(* Events and results are never filed under another run than the one the   *)
(* daemon worked on, although no request names a run.                      *)
THEOREM AttributionTheorem == FleetSpec => []ResultAttribution
<1>1. Attached => ResultAttribution
  BY DEF Attached, ResultAttribution
<1> QED  BY <1>1, AttachedCorrect, PTL

-----------------------------------------------------------------------------
(* The outcome.  A daemon reports success only of the run it executed, and *)
(* attribution files the report under that run.                            *)
Backed ==
  /\ \A r \in Runs : /\ runs[r].state = "passed" => r \in succeeded
                     /\ disk.runs[r].state = "passed" => r \in succeeded
  /\ \A w \in Workers : loop[w].passed => loop[w].run \in succeeded

(* As for SoundFile.                                                       *)
LEMMA BackedFile ==
  ASSUME NEW ok \in BOOLEAN, Persist(ok), Backed,
         \A r \in Runs : runs'[r].state = "passed" => r \in succeeded
  PROVE  \A r \in Runs : disk'.runs[r].state = "passed" => r \in succeeded
BY DEF Persist, Backed

LEMMA BackedCorrect == FleetSpec => []Backed
<1>1. FleetInit => Backed
  BY DEF FleetInit, Init, Backed, NoLoop, AbsentRun
<1>2. TypedInv /\ Attached /\ Backed /\ [FleetNext]_fleetVars => Backed'
  <2> SUFFICES ASSUME TypedInv, Attached, Backed, [FleetNext]_fleetVars PROVE Backed'
    OBVIOUS
  <2> USE DEF TypedInv, FleetTypeOK
  <2> DEFINE InMemory == \A r \in Runs : runs'[r].state = "passed" => r \in succeeded
  <2>1. ASSUME NEW w \in Workers, NEW ok \in BOOLEAN, Enroll(w, ok) PROVE Backed'
    <3>1. InMemory /\ Persist(ok)
      BY <2>1 DEF Enroll, RegisterWorker, Backed
    <3> QED  BY <2>1, <3>1, BackedFile DEF Enroll, Proceed, NoLoop, Backed
  <2>2. ASSUME NEW w \in Workers, FetchAssignment(w) PROVE Backed'
    <3>1. ~loop[w].passed
      BY <2>2, NoneAssumption DEF FetchAssignment, At, Backed, Working
    <3> QED  BY <2>2, <3>1 DEF FetchAssignment, planeVars, Backed
  <2>3. ASSUME NEW w \in Workers, Refused(w) PROVE Backed'
    BY <2>3 DEF Refused, planeVars, NoLoop, Backed
  <2>4. ASSUME NEW w \in Workers, NEW passed \in BOOLEAN, ExecutorExits(w, passed)
        PROVE  Backed'
    BY <2>4 DEF ExecutorExits, planeVars, Backed
  <2>5. ASSUME NEW w \in Workers, NEW ok \in BOOLEAN, Heartbeat(w, ok) PROVE Backed'
    <3>1. InMemory /\ Persist(ok)
      BY <2>5 DEF Heartbeat, WorkerHeartbeat, Backed
    <3> QED  BY <2>5, <3>1, BackedFile DEF Heartbeat, Proceed, NoLoop, Backed
  <2>6. ASSUME NEW w \in Workers, NEW ok \in BOOLEAN, NEW kind \in ExecutorEvents,
               NEW place \in Places,
               WorkerEvent(w, kind, ok), Proceed(w, ok, [loop[w] EXCEPT !.at = place]),
               UNCHANGED succeeded
        PROVE  Backed'
    <3>1. Persist(ok) /\ \A r \in Runs : runs'[r].state = runs[r].state
      BY <2>6 DEF WorkerEvent, TypeOK, WorkerRecord, RunRecord, Moved
    <3>2. InMemory
      BY <3>1 DEF Backed
    <3>3. \A v \in Workers : loop'[v].passed => loop'[v].run \in succeeded
      BY <2>6 DEF Proceed, NoLoop, Backed
    <3> QED  BY <2>6, <3>1, <3>2, <3>3, BackedFile DEF Backed
  <2>7. ASSUME NEW w \in Workers, NEW ok \in BOOLEAN, PostResult(w, ok) PROVE Backed'
    <3>1. PICK r \in Runs : workers[w].run = r /\ loop[w].run = r
      BY <2>7, NoneAssumption
      DEF PostResult, WorkerResult, TypeOK, WorkerRecord, Attached, Working, At
    <3>2. \A v \in Workers : loop'[v].passed => loop'[v].run \in succeeded
      BY <2>7 DEF PostResult, Proceed, NoLoop, Backed
    <3>3. CASE runs[r].state = "absent"
      BY <2>7, <3>1, <3>2, <3>3 DEF PostResult, WorkerResult, Backed
    <3>4. CASE runs[r].state # "absent"
      <4>1. /\ runs' = [runs EXCEPT ![r] = Moved(@, Verdict(loop[w].passed), Told("verification_result"))]
            /\ Persist(ok)
        BY <2>7, <3>1, <3>4 DEF PostResult, WorkerResult
      <4>2. runs'[r].state = "passed" => loop[w].passed
        BY <4>1 DEF TypeOK, RunRecord, Moved, Verdict
      <4>3. InMemory
        BY <3>1, <4>1, <4>2 DEF TypeOK, Backed
      <4> QED  BY <2>7, <3>2, <4>1, <4>3, BackedFile DEF PostResult, Backed
    <3> QED  BY <3>3, <3>4
  <2>8. ASSUME NEW w \in Workers, LoopEnds(w) PROVE Backed'
    BY <2>8 DEF LoopEnds, planeVars, NoLoop, Backed
  <2>9. ASSUME NEW r \in Runs, NEW ok \in BOOLEAN, StartRun(r, ok) \/ SubmitRun(r, ok),
               UNCHANGED <<loop, succeeded>>
        PROVE  Backed'
    <3>1. InMemory /\ Persist(ok)
      <4>1. ASSUME NEW q \in Runs PROVE runs'[q].state # "passed" \/ runs'[q] = runs[q]
        <5>1. CASE StartRun(r, ok)
          BY <5>1 DEF StartRun, TypeOK, Queued, RunningOn
        <5>2. CASE SubmitRun(r, ok)
          BY <5>2 DEF SubmitRun, TypeOK, RunRecord, Moved
        <5> QED  BY <2>9, <5>1, <5>2
      <4> QED  BY <2>9, <4>1 DEF StartRun, SubmitRun, Backed
    <3>2. \A q \in Runs : disk'.runs[q].state = "passed" => q \in succeeded
      BY <3>1, BackedFile
    <3>3. UNCHANGED <<loop, succeeded>>
      BY <2>9
    <3> QED  BY <3>1, <3>2, <3>3 DEF Backed
  <2>10. CASE Restart /\ UNCHANGED <<loop, succeeded>>
    <3>1. ASSUME NEW r \in Runs
          PROVE  RecoveredRuns(disk.runs, disk.workers)[r].state = "passed" =>
                   disk.runs[r].state = "passed"
      BY DEF RecoveredRuns, Requeued, Moved, TypeOK, Tables, RunRecord
    <3> QED  BY <2>10, <3>1 DEF Restart, Backed
  <2>11. CASE UNCHANGED fleetVars
    BY <2>11 DEF fleetVars, planeVars, Backed
  <2>12. ASSUME NEW w \in Workers, NEW ok \in BOOLEAN,
                PostStarted(w, ok) \/ PostFinished(w, ok)
         PROVE  Backed'
    BY <2>6, <2>12 DEF PostStarted, PostFinished, ExecutorEvents, Places, Posting
  <2> QED
    BY <2>1, <2>2, <2>3, <2>4, <2>5, <2>7, <2>8, <2>9, <2>10, <2>11, <2>12
    DEF FleetNext, EnrollSome, DaemonStep, ClientStep
<1> QED  BY <1>1, <1>2, TypedCorrect, AttachedCorrect, PTL DEF FleetSpec

(* A run reads passed, in memory or in the file, only when an executor     *)
(* that was started for it exited successfully.                            *)
THEOREM OutcomeTheorem == FleetSpec => []PassedMeansExecutorSucceeded
<1>1. Backed => PassedMeansExecutorSucceeded
  BY DEF Backed, PassedMeansExecutorSucceeded
<1> QED  BY <1>1, BackedCorrect, PTL

-----------------------------------------------------------------------------
(* At most one execution.  The run a worker still has is either not yet    *)
(* launched or its loop is past the launch; a loop that ended cannot come  *)
(* back to it, because the daemon enrolls under a fresh id.                *)
LaunchedOnce ==
  /\ \A r \in Runs : launches[r] <= 1 /\ (launches[r] > 0 => r \in issued)
  /\ \A w \in Workers, r \in Runs :
       workers[w].run = r /\ launches[r] > 0 =>
         loop[w].at \notin {"heartbeat", "assignment", "started"}

(* No run is ever executed twice, whatever restarts and lost requests do.  *)
THEOREM ExecutedOnceTheorem == FleetSpec => []ExecutedAtMostOnce
<1>1. FleetInit => LaunchedOnce
  BY DEF FleetInit, Init, LaunchedOnce, NoLoop
<1>2. TypedInv /\ SoundInv /\ Attached /\ LaunchedOnce /\ [FleetNext]_fleetVars
        => LaunchedOnce'
  <2> SUFFICES ASSUME TypedInv, SoundInv, Attached, LaunchedOnce, [FleetNext]_fleetVars
               PROVE  LaunchedOnce'
    OBVIOUS
  <2> USE DEF TypedInv, FleetTypeOK, LaunchedOnce
  <2>1. ASSUME NEW w \in Workers, NEW ok \in BOOLEAN, Enroll(w, ok) PROVE LaunchedOnce'
    BY <2>1, NoneAssumption DEF Enroll, RegisterWorker, Proceed, NoLoop, TypeOK
  <2>2. ASSUME NEW w \in Workers, FetchAssignment(w) PROVE LaunchedOnce'
    BY <2>2 DEF FetchAssignment, planeVars, At
  <2>3. ASSUME NEW w \in Workers, Refused(w) PROVE LaunchedOnce'
    BY <2>3 DEF Refused, planeVars, NoLoop
  <2>4. ASSUME NEW w \in Workers, NEW passed \in BOOLEAN, ExecutorExits(w, passed)
        PROVE  LaunchedOnce'
    BY <2>4 DEF ExecutorExits, planeVars
  <2>5. ASSUME NEW w \in Workers, NEW ok \in BOOLEAN, Heartbeat(w, ok) PROVE LaunchedOnce'
    BY <2>5 DEF Heartbeat, WorkerHeartbeat, Proceed, NoLoop, At, TypeOK, WorkerRecord
  <2>6. ASSUME NEW w \in Workers, NEW ok \in BOOLEAN, PostStarted(w, ok) PROVE LaunchedOnce'
    <3>1. PICK r \in Runs : workers[w].run = r /\ loop[w].run = r
      BY <2>6, NoneAssumption
      DEF PostStarted, WorkerEvent, TypeOK, WorkerRecord, Attached, Working, At
    <3>2. launches[r] = 0 /\ r \in issued
      <4>1. launches[r] \in Nat
        OBVIOUS
      <4>2. r \in issued
        BY <2>6, <3>1 DEF PostStarted, WorkerEvent, SoundInv, Sound, Known
      <4>3. ~(launches[r] > 0)
        BY <2>6, <3>1 DEF PostStarted, At
      <4> QED  BY <4>1, <4>2, <4>3
    <3>3. \A v \in Workers \ {w} : workers[v].run # r
      BY <3>1, NoneAssumption DEF SoundInv, Sound, Consistent
    <3>4. CASE ok
      BY <2>6, <3>1, <3>2, <3>3, <3>4 DEF PostStarted, WorkerEvent, Proceed
    <3>5. CASE ~ok
      BY <2>6, <3>5 DEF PostStarted, WorkerEvent, Proceed, NoLoop
    <3> QED  BY <3>4, <3>5
  <2>7. ASSUME NEW w \in Workers, NEW ok \in BOOLEAN, PostFinished(w, ok) PROVE LaunchedOnce'
    BY <2>7 DEF PostFinished, WorkerEvent, Proceed, NoLoop
  <2>8. ASSUME NEW w \in Workers, NEW ok \in BOOLEAN, PostResult(w, ok) PROVE LaunchedOnce'
    BY <2>8, NoneAssumption DEF PostResult, WorkerResult, Freed, Proceed, NoLoop, TypeOK
  <2>9. ASSUME NEW w \in Workers, LoopEnds(w) PROVE LaunchedOnce'
    BY <2>9 DEF LoopEnds, planeVars, NoLoop
  <2>10. ASSUME NEW r \in Runs, NEW ok \in BOOLEAN, StartRun(r, ok), UNCHANGED <<loop, launches>>
         PROVE  LaunchedOnce'
    <3>1. launches[r] = 0
      <4>1. launches[r] \in Nat
        OBVIOUS
      <4> QED  BY <2>10, <4>1 DEF StartRun
    <3>2. \A w \in Workers : workers'[w].run = workers[w].run \/ workers'[w].run = r
      BY <2>10 DEF StartRun, BusyWith, Idle, TypeOK
    <3>3. issued' = issued \cup {r}
      BY <2>10 DEF StartRun
    <3> QED  BY <2>10, <3>1, <3>2, <3>3
  <2>11. ASSUME NEW r \in Runs, NEW ok \in BOOLEAN, SubmitRun(r, ok), UNCHANGED <<loop, launches>>
         PROVE  LaunchedOnce'
    BY <2>11 DEF SubmitRun
  <2>12. CASE Restart /\ UNCHANGED <<loop, launches>>
    <3>1. \A w \in Workers : RecoveredWorkers(disk.workers)[w].run = None
      BY DEF RecoveredWorkers, SoundInv, Sound, Consistent
    <3> QED  BY <2>12, <3>1, NoneAssumption DEF Restart
  <2>13. CASE UNCHANGED fleetVars
    BY <2>13 DEF fleetVars, planeVars
  <2> QED
    BY <2>1, <2>2, <2>3, <2>4, <2>5, <2>6, <2>7, <2>8, <2>9, <2>10, <2>11, <2>12, <2>13
    DEF FleetNext, EnrollSome, DaemonStep, ClientStep
<1>3. LaunchedOnce => ExecutedAtMostOnce
  BY DEF LaunchedOnce, ExecutedAtMostOnce
<1> QED
  BY <1>1, <1>2, <1>3, TypedCorrect, AttachedCorrect, FleetRefinesPlane, SoundCorrect, PTL
  DEF FleetSpec

-----------------------------------------------------------------------------
(* Evidence.  A loop that still has its run has put into the run's log     *)
(* what it got through, and nothing takes an event out of a log a worker   *)
(* still holds: a restart to an older file takes every run away.           *)
StartedIn(log)  == \E i \in DOMAIN log : log[i].kind = "executor_started"
FinishedIn(log) == \E i, j \in DOMAIN log : /\ i < j
                                            /\ log[i].kind = "executor_started"
                                            /\ log[j].kind = "executor_finished"

Kept(w) == loop[w].run # None /\ workers[w].run = loop[w].run

Reported ==
  \A w \in Workers : Kept(w) =>
    /\ loop[w].at \in {"executing", "finished"} => StartedIn(runs[loop[w].run].log)
    /\ loop[w].at = "result" => FinishedIn(runs[loop[w].run].log)

EvidenceInv == EvidenceBeforeVerdict /\ Reported

(* What an append does to a log.                                           *)
LEMMA AppendEvidence ==
  ASSUME NEW log \in Seq(Events), NEW event \in Events
  PROVE  /\ StartedIn(log) => StartedIn(Append(log, event))
         /\ FinishedIn(log) => FinishedIn(Append(log, event))
         /\ event.kind = "executor_started" => StartedIn(Append(log, event))
         /\ event.kind = "executor_finished" /\ StartedIn(log) => FinishedIn(Append(log, event))
         /\ EvidencedVerdict(log) /\ (event.kind = "verification_result" => FinishedIn(log))
              => EvidencedVerdict(Append(log, event))
<1>0. PICK n \in Nat : n = Len(log)
  OBVIOUS
<1>1. /\ DOMAIN log = 1 .. n /\ DOMAIN Append(log, event) = 1 .. n + 1
      /\ \A i \in 1 .. n : Append(log, event)[i] = log[i]
      /\ Append(log, event)[n + 1] = event
  BY <1>0
<1>2. StartedIn(log) => StartedIn(Append(log, event))
  BY <1>1 DEF StartedIn
<1>3. FinishedIn(log) => FinishedIn(Append(log, event))
  BY <1>1 DEF FinishedIn
<1>4. event.kind = "executor_started" => StartedIn(Append(log, event))
  BY <1>1 DEF StartedIn
<1>5. event.kind = "executor_finished" /\ StartedIn(log) => FinishedIn(Append(log, event))
  BY <1>1 DEF StartedIn, FinishedIn
<1>6. ASSUME EvidencedVerdict(log), event.kind = "verification_result" => FinishedIn(log)
      PROVE  EvidencedVerdict(Append(log, event))
  <2> SUFFICES ASSUME NEW k \in 1 .. n + 1, Append(log, event)[k].kind = "verification_result"
               PROVE  \E i, j \in 1 .. k - 1 : /\ i < j
                                               /\ Append(log, event)[i].kind = "executor_started"
                                               /\ Append(log, event)[j].kind = "executor_finished"
    BY <1>1 DEF EvidencedVerdict
  <2>1. CASE k \in 1 .. n
    <3>1. \E i, j \in 1 .. k - 1 : i < j /\ log[i].kind = "executor_started" /\ log[j].kind = "executor_finished"
      BY <1>1, <1>6, <2>1 DEF EvidencedVerdict
    <3> QED  BY <1>1, <2>1, <3>1
  <2>2. CASE k = n + 1
    <3>1. \E i, j \in 1 .. n : i < j /\ log[i].kind = "executor_started" /\ log[j].kind = "executor_finished"
      BY <1>1, <1>6, <2>2 DEF FinishedIn
    <3> QED  BY <1>1, <2>2, <3>1
  <2> QED  BY <1>0, <2>1, <2>2
<1> QED  BY <1>2, <1>3, <1>4, <1>5, <1>6

(* A run that is moved.                                                    *)
LEMMA MovedEvidence ==
  ASSUME NEW run \in RunRecord, NEW state \in RunStates, NEW event \in Events
  PROVE  Moved(run, state, event).log = Append(run.log, event) /\ run.log \in Seq(Events)
BY DEF Moved, RunRecord, Events

(* As for SoundFile.                                                       *)
LEMMA EvidenceFile ==
  ASSUME NEW ok \in BOOLEAN, Persist(ok), EvidenceBeforeVerdict,
         \A r \in Runs : EvidencedVerdict(runs'[r].log)
  PROVE  EvidenceBeforeVerdict'
<1>1. CASE ok
  BY <1>1 DEF Persist, EvidenceBeforeVerdict
<1>2. CASE ~ok
  BY <1>2 DEF Persist, EvidenceBeforeVerdict
<1> QED  BY <1>1, <1>2

(* A step that appends one event to one run's log and leaves the workers.  *)
LEMMA ReportStep ==
  ASSUME TypedInv, EvidenceInv, NEW r \in Runs, NEW state \in RunStates, NEW event \in Events,
         NEW ok \in BOOLEAN, Persist(ok),
         runs' = [runs EXCEPT ![r] = Moved(@, state, event)],
         event.kind = "verification_result" => FinishedIn(runs[r].log)
  PROVE  /\ EvidenceBeforeVerdict'
         /\ \A q \in Runs : /\ StartedIn(runs[q].log) => StartedIn(runs'[q].log)
                            /\ FinishedIn(runs[q].log) => FinishedIn(runs'[q].log)
         /\ event.kind = "executor_started" => StartedIn(runs'[r].log)
         /\ event.kind = "executor_finished" /\ StartedIn(runs[r].log) => FinishedIn(runs'[r].log)
<1>1. runs \in [Runs -> RunRecord]
  BY DEF TypedInv, FleetTypeOK, TypeOK
<1>2. \A q \in Runs \ {r} : runs'[q] = runs[q]
  BY <1>1
<1>3. runs'[r].log = Append(runs[r].log, event) /\ runs[r].log \in Seq(Events)
  BY <1>1, MovedEvidence
<1>4. \A q \in Runs : EvidencedVerdict(runs[q].log)
  BY DEF EvidenceInv, EvidenceBeforeVerdict
<1>5. /\ StartedIn(runs[r].log) => StartedIn(runs'[r].log)
      /\ FinishedIn(runs[r].log) => FinishedIn(runs'[r].log)
      /\ event.kind = "executor_started" => StartedIn(runs'[r].log)
      /\ event.kind = "executor_finished" /\ StartedIn(runs[r].log) => FinishedIn(runs'[r].log)
      /\ EvidencedVerdict(runs'[r].log)
  BY <1>3, <1>4, AppendEvidence
<1>6. \A q \in Runs : EvidencedVerdict(runs'[q].log)
  BY <1>2, <1>4, <1>5
<1>7. EvidenceBeforeVerdict'
  BY <1>6, EvidenceFile DEF EvidenceInv
<1> QED  BY <1>2, <1>5, <1>7

(* A step that leaves the runs' logs alone, and sends no loop beyond what  *)
(* it has reported.                                                        *)
Silent(w) ==
  Kept(w)' =>
    \/ loop'[w].at \in {"started", "assignment"}
    \/ /\ Kept(w) /\ loop'[w].run = loop[w].run
       /\ \/ loop'[w].at = loop[w].at
          \/ loop[w].at = "executing" /\ loop'[w].at = "finished"

LEMMA SilentStep ==
  ASSUME TypedInv, EvidenceInv, UNCHANGED runs,
         UNCHANGED disk \/ \E ok \in BOOLEAN : Persist(ok),
         \A w \in Workers : Silent(w)
  PROVE  EvidenceInv'
<1>1. EvidenceBeforeVerdict'
  BY EvidenceFile DEF EvidenceInv, EvidenceBeforeVerdict
<1>2. Reported'
  BY DEF EvidenceInv, Reported, Silent
<1> QED  BY <1>1, <1>2 DEF EvidenceInv

(* A verdict never stands in a log without the execution it is about.      *)
THEOREM EvidenceTheorem == FleetSpec => []EvidenceBeforeVerdict
<1>1. FleetInit => EvidenceInv
  BY DEF FleetInit, Init, EvidenceInv, EvidenceBeforeVerdict, EvidencedVerdict, Reported, Kept,
         NoLoop, AbsentRun
<1>2. TypedInv /\ SoundInv /\ Attached /\ EvidenceInv /\ [FleetNext]_fleetVars => EvidenceInv'
  <2> SUFFICES ASSUME TypedInv, SoundInv, Attached, EvidenceInv, [FleetNext]_fleetVars
               PROVE  EvidenceInv'
    OBVIOUS
  <2>0. /\ loop \in [Workers -> [at : Places, run : Runs \cup {None}, passed : BOOLEAN]]
        /\ workers \in [Workers -> WorkerRecord] /\ runs \in [Runs -> RunRecord]
        /\ \A w \in Workers : loop[w].run = None <=> loop[w].at \in {"none", "heartbeat", "assignment"}
    BY DEF TypedInv, FleetTypeOK, TypeOK, Working
  <2>1. ASSUME NEW w \in Workers, NEW ok \in BOOLEAN, Enroll(w, ok) \/ Heartbeat(w, ok)
        PROVE  EvidenceInv'
    <3>1. Persist(ok) /\ UNCHANGED runs
      BY <2>1 DEF Enroll, RegisterWorker, Heartbeat, WorkerHeartbeat
    <3>2. /\ \A v \in Workers \ {w} : loop'[v] = loop[v] /\ workers'[v] = workers[v]
          /\ loop'[w].run = None
      BY <2>0, <2>1 DEF Enroll, RegisterWorker, Heartbeat, WorkerHeartbeat, Proceed, NoLoop, At
    <3>3. \A v \in Workers : Silent(v)
      BY <3>1, <3>2 DEF Silent, Kept
    <3> QED  BY <3>1, <3>3, SilentStep
  <2>2. ASSUME NEW w \in Workers, FetchAssignment(w) PROVE EvidenceInv'
    <3>1. UNCHANGED <<runs, disk, workers>>
      BY <2>2 DEF FetchAssignment, planeVars
    <3>2. /\ \A v \in Workers \ {w} : loop'[v] = loop[v]
          /\ loop'[w].run = None \/ loop'[w].at = "started"
      BY <2>0, <2>2 DEF FetchAssignment, At
    <3>3. \A v \in Workers : Silent(v)
      BY <3>1, <3>2 DEF Silent, Kept
    <3> QED  BY <3>1, <3>3, SilentStep
  <2>3. ASSUME NEW w \in Workers, Refused(w) \/ LoopEnds(w) PROVE EvidenceInv'
    <3>1. UNCHANGED <<runs, disk, workers>>
      BY <2>3 DEF Refused, LoopEnds, planeVars
    <3>2. (\A v \in Workers \ {w} : loop'[v] = loop[v]) /\ loop'[w].run = None
      BY <2>0, <2>3 DEF Refused, LoopEnds, NoLoop
    <3>3. \A v \in Workers : Silent(v)
      BY <3>1, <3>2 DEF Silent, Kept
    <3> QED  BY <3>1, <3>3, SilentStep
  <2>4. ASSUME NEW w \in Workers, NEW passed \in BOOLEAN, ExecutorExits(w, passed)
        PROVE  EvidenceInv'
    <3>1. UNCHANGED <<runs, disk, workers>>
      BY <2>4 DEF ExecutorExits, planeVars
    <3>2. /\ \A v \in Workers \ {w} : loop'[v] = loop[v]
          /\ loop'[w].run = loop[w].run /\ loop[w].at = "executing" /\ loop'[w].at = "finished"
      BY <2>0, <2>4 DEF ExecutorExits, At
    <3>3. \A v \in Workers : Silent(v)
      BY <3>1, <3>2 DEF Silent, Kept
    <3> QED  BY <3>1, <3>3, SilentStep
  <2>5. ASSUME NEW w \in Workers, NEW ok \in BOOLEAN, PostStarted(w, ok) \/ PostFinished(w, ok)
        PROVE  EvidenceInv'
    <3>0. PICK r \in Runs : workers[w].run = r /\ loop[w].run = r
      BY <2>0, <2>5, NoneAssumption
      DEF PostStarted, PostFinished, WorkerEvent, WorkerRecord, Attached, At
    <3>1. PICK kind \in ExecutorEvents : /\ WorkerEvent(w, kind, ok)
                                         /\ kind = "executor_started" <=> loop[w].at = "started"
                                         /\ kind = "executor_finished" <=> loop[w].at = "finished"
      BY <2>5 DEF PostStarted, PostFinished, ExecutorEvents, At
    <3>2. /\ runs' = [runs EXCEPT ![r] = Moved(@, runs[r].state, Posted(kind))]
          /\ Persist(ok) /\ UNCHANGED workers
      <4>1. /\ runs' = [runs EXCEPT ![workers[w].run] = Moved(@, @.state, Posted(kind))]
            /\ Persist(ok) /\ UNCHANGED workers
        BY <3>1 DEF WorkerEvent
      <4>2. [runs EXCEPT ![r] = Moved(@, @.state, Posted(kind))]
              = [runs EXCEPT ![r] = Moved(@, runs[r].state, Posted(kind))]
        OBVIOUS
      <4> QED  BY <3>0, <4>1, <4>2
    <3>3. /\ runs[r].state \in RunStates /\ Posted(kind) \in Events
          /\ Posted(kind).kind = kind /\ kind # "verification_result"
      <4>1. Posted(kind) \in Events
        BY EventTypes, KindsAssumption
      <4> QED  BY <2>0, <4>1 DEF RunRecord, Posted, ExecutorEvents
    <3>4. /\ EvidenceBeforeVerdict'
          /\ \A q \in Runs : /\ StartedIn(runs[q].log) => StartedIn(runs'[q].log)
                             /\ FinishedIn(runs[q].log) => FinishedIn(runs'[q].log)
          /\ kind = "executor_started" => StartedIn(runs'[r].log)
          /\ kind = "executor_finished" /\ StartedIn(runs[r].log) => FinishedIn(runs'[r].log)
      BY <3>2, <3>3, ReportStep
    <3>5. /\ \A v \in Workers \ {w} : loop'[v] = loop[v]
          /\ \/ loop'[w].run = None
             \/ /\ loop'[w].run = r
                /\ \/ loop[w].at = "started" /\ loop'[w].at = "executing"
                   \/ loop[w].at = "finished" /\ loop'[w].at = "result"
      BY <2>0, <2>5, <3>0 DEF PostStarted, PostFinished, Proceed, NoLoop, At
    <3>6. ASSUME NEW v \in Workers \ {w} PROVE
            Kept(v)' => /\ loop'[v].at \in {"executing", "finished"} => StartedIn(runs'[loop'[v].run].log)
                        /\ loop'[v].at = "result" => FinishedIn(runs'[loop'[v].run].log)
      BY <2>0, <3>2, <3>4, <3>5 DEF EvidenceInv, Reported, Kept
    <3>7. Kept(w)' => /\ loop'[w].at \in {"executing", "finished"} => StartedIn(runs'[loop'[w].run].log)
                      /\ loop'[w].at = "result" => FinishedIn(runs'[loop'[w].run].log)
      <4>1. Kept(w)
        BY <3>0, NoneAssumption DEF Kept
      <4>2. loop[w].at = "finished" => StartedIn(runs[r].log)
        BY <3>0, <4>1 DEF EvidenceInv, Reported
      <4>3. CASE loop'[w].run = None
        BY <4>3 DEF Kept
      <4>4. CASE loop[w].at = "started" /\ loop'[w].at = "executing" /\ loop'[w].run = r
        <5>1. StartedIn(runs'[r].log)
          BY <3>1, <3>4, <4>4
        <5> QED  BY <4>4, <5>1
      <4>5. CASE loop[w].at = "finished" /\ loop'[w].at = "result" /\ loop'[w].run = r
        <5>1. FinishedIn(runs'[r].log)
          BY <3>1, <3>4, <4>2, <4>5
        <5> QED  BY <4>5, <5>1
      <4> QED  BY <3>5, <4>3, <4>4, <4>5
    <3> QED  BY <3>4, <3>6, <3>7 DEF EvidenceInv, Reported
  <2>6. ASSUME NEW w \in Workers, NEW ok \in BOOLEAN, PostResult(w, ok) PROVE EvidenceInv'
    <3>0. PICK r \in Runs : workers[w].run = r /\ loop[w].run = r /\ loop[w].at = "result"
      BY <2>0, <2>6, NoneAssumption
      DEF PostResult, WorkerResult, WorkerRecord, Attached, At
    <3>1. FinishedIn(runs[r].log)
      BY <3>0, NoneAssumption DEF EvidenceInv, Reported, Kept
    <3>2. /\ \A v \in Workers \ {w} : loop'[v] = loop[v] /\ workers'[v] = workers[v]
          /\ loop'[w].run = None
      BY <2>0, <2>6 DEF PostResult, WorkerResult, Proceed, NoLoop, At
    <3>3. CASE runs[r].state = "absent"
      <4>1. UNCHANGED <<runs, disk>>
        BY <2>6, <3>0, <3>3 DEF PostResult, WorkerResult
      <4>2. \A v \in Workers : Silent(v)
        BY <3>2 DEF Silent, Kept
      <4> QED  BY <4>1, <4>2, SilentStep
    <3>4. CASE runs[r].state # "absent"
      <4>1. PICK passed \in BOOLEAN :
              /\ runs' = [runs EXCEPT ![r] = Moved(@, Verdict(passed), Told("verification_result"))]
              /\ Persist(ok)
        BY <2>0, <2>6, <3>0, <3>4 DEF PostResult, WorkerResult
      <4>2. Verdict(passed) \in RunStates /\ Told("verification_result") \in Events
        BY EventTypes DEF Verdict, RunStates, Verdicts
      <4>3. /\ EvidenceBeforeVerdict'
            /\ \A q \in Runs : /\ StartedIn(runs[q].log) => StartedIn(runs'[q].log)
                               /\ FinishedIn(runs[q].log) => FinishedIn(runs'[q].log)
        BY <3>1, <4>1, <4>2, ReportStep
      <4>4. Reported'
        BY <2>0, <3>2, <4>3 DEF EvidenceInv, Reported, Kept
      <4> QED  BY <4>3, <4>4 DEF EvidenceInv
    <3> QED  BY <3>3, <3>4
  <2>7. ASSUME NEW r \in Runs, NEW ok \in BOOLEAN, StartRun(r, ok), UNCHANGED loop
        PROVE  EvidenceInv'
    <3>1. Persist(ok) /\ r \notin issued /\ (runs'[r] = Queued \/ \E w \in Workers : runs'[r] = RunningOn(w))
          /\ \A q \in Runs \ {r} : runs'[q] = runs[q]
      BY <2>0, <2>7 DEF StartRun, Idle
    <3>2. EvidencedVerdict(runs'[r].log)
      <4>1. EvidencedVerdict(Queued.log)
        BY DEF EvidencedVerdict, Queued, Told
      <4>2. ASSUME NEW w \in Workers PROVE EvidencedVerdict(RunningOn(w).log)
        BY DEF EvidencedVerdict, RunningOn, Told
      <4> QED  BY <3>1, <4>1, <4>2
    <3>3. \A q \in Runs : EvidencedVerdict(runs'[q].log)
      BY <3>1, <3>2 DEF EvidenceInv, EvidenceBeforeVerdict
    <3>4. EvidenceBeforeVerdict'
      BY <3>1, <3>3, EvidenceFile DEF EvidenceInv
    <3>5. \A w \in Workers : workers[w].run # r
      BY <3>1, NoneAssumption DEF SoundInv, Sound, Known, Consistent
    <3>6. \A w \in Workers : Kept(w)' => Kept(w) /\ loop[w].run # r
      BY <2>0, <2>7, <3>5, NoneAssumption DEF StartRun, Idle, BusyWith, Kept, Attached
    <3>7. Reported'
      BY <2>0, <2>7, <3>1, <3>6 DEF EvidenceInv, Reported, Kept
    <3> QED  BY <3>4, <3>7 DEF EvidenceInv
  <2>8. ASSUME NEW r \in Runs, NEW ok \in BOOLEAN, SubmitRun(r, ok), UNCHANGED loop
        PROVE  EvidenceInv'
    <3>1. /\ runs' = [runs EXCEPT ![r] = Moved(@, "verifying", Told("verification_requested"))]
          /\ Persist(ok) /\ UNCHANGED workers
      BY <2>8 DEF SubmitRun
    <3>2. /\ "verifying" \in RunStates /\ Told("verification_requested") \in Events
          /\ Told("verification_requested").kind = "verification_requested"
      BY EventTypes DEF RunStates, Told
    <3>3. /\ EvidenceBeforeVerdict'
          /\ \A q \in Runs : /\ StartedIn(runs[q].log) => StartedIn(runs'[q].log)
                             /\ FinishedIn(runs[q].log) => FinishedIn(runs'[q].log)
      BY <3>1, <3>2, ReportStep
    <3>4. Reported'
      BY <2>0, <2>8, <3>1, <3>3 DEF EvidenceInv, Reported, Kept
    <3> QED  BY <3>3, <3>4 DEF EvidenceInv
  <2>9. CASE Restart /\ UNCHANGED loop
    <3>1. \A w \in Workers : RecoveredWorkers(disk.workers)[w].run = None
      BY DEF RecoveredWorkers, SoundInv, Sound, Consistent
    <3>2. \A w \in Workers : ~ Kept(w)'
      BY <2>9, <3>1 DEF Restart, Kept
    <3>3. disk.runs \in [Runs -> RunRecord]
      BY DEF TypedInv, FleetTypeOK, TypeOK, Tables
    <3>4. ASSUME NEW r \in Runs
          PROVE  EvidencedVerdict(RecoveredRuns(disk.runs, disk.workers)[r].log)
      <4>1. disk.runs[r] \in RunRecord /\ EvidencedVerdict(disk.runs[r].log)
        BY <3>3 DEF EvidenceInv, EvidenceBeforeVerdict
      <4>2. [disk.runs[r] EXCEPT !.worker = None] \in RunRecord
            /\ [disk.runs[r] EXCEPT !.worker = None].log = disk.runs[r].log
        BY <4>1 DEF RunRecord
      <4>3. /\ "queued" \in RunStates /\ disk.runs[r].log \in Seq(Events)
            /\ Told("run_requeued") \in Events /\ Told("run_requeued").kind = "run_requeued"
        BY <4>1, EventTypes DEF RunStates, RunRecord, Told
      <4>4. EvidencedVerdict(Append(disk.runs[r].log, Told("run_requeued")))
        BY <4>1, <4>3, AppendEvidence
      <4>5. Moved([disk.runs[r] EXCEPT !.worker = None], "queued", Told("run_requeued")).log
              = Append(disk.runs[r].log, Told("run_requeued"))
        BY <4>2, <4>3, MovedEvidence
      <4>6. EvidencedVerdict(Requeued(disk.runs[r]).log)
        BY <4>1, <4>2, <4>4, <4>5 DEF Requeued
      <4> QED  BY <4>1, <4>6 DEF RecoveredRuns
    <3>5. EvidenceBeforeVerdict'
      BY <2>9, <3>4 DEF Restart, EvidenceBeforeVerdict
    <3> QED  BY <3>2, <3>5 DEF EvidenceInv, Reported
  <2>10. CASE UNCHANGED fleetVars
    BY <2>10 DEF fleetVars, planeVars, EvidenceInv, EvidenceBeforeVerdict, Reported, Kept
  <2> QED
    BY <2>1, <2>2, <2>3, <2>4, <2>5, <2>6, <2>7, <2>8, <2>9, <2>10
    DEF FleetNext, EnrollSome, DaemonStep, ClientStep
<1>3. EvidenceInv => EvidenceBeforeVerdict
  BY DEF EvidenceInv
<1> QED
  BY <1>1, <1>2, <1>3, TypedCorrect, AttachedCorrect, FleetRefinesPlane, SoundCorrect, PTL
  DEF FleetSpec

-----------------------------------------------------------------------------
(* The log as it reads.  With daemons as the only callers a worker's       *)
(* entries never have a kind of the API's own, so what is proved of the    *)
(* entries the API wrote holds of the entries that read like them.         *)
FleetEvents == {Told(kind) : kind \in LifecycleEvents} \cup {Posted(kind) : kind \in ExecutorEvents}

Authored(rs) == \A r \in Runs : rs[r].log \in Seq(FleetEvents)

AuthoredInv == Authored(runs) /\ Authored(disk.runs)

LEMMA FleetEventTypes ==
  /\ FleetEvents \subseteq Events
  /\ \A kind \in ExecutorEvents : Posted(kind) \in FleetEvents
  /\ Told("run_queued") \in FleetEvents /\ Told("worker_assigned") \in FleetEvents
  /\ Told("verification_requested") \in FleetEvents
  /\ Told("verification_result") \in FleetEvents /\ Told("run_requeued") \in FleetEvents
BY KindsAssumption DEF FleetEvents, Events, LifecycleEvents

(* As for SoundFile.                                                       *)
LEMMA AuthoredFile ==
  ASSUME NEW ok \in BOOLEAN, Persist(ok), AuthoredInv, Authored(runs')
  PROVE  AuthoredInv'
<1>1. CASE ok
  BY <1>1 DEF Persist, AuthoredInv, Authored
<1>2. CASE ~ok
  BY <1>2 DEF Persist, AuthoredInv, Authored
<1> QED  BY <1>1, <1>2

(* A step that appends an event of the fleet to one run's log.             *)
LEMMA AuthoredMove ==
  ASSUME TypedInv, AuthoredInv, NEW r \in Runs, NEW state \in RunStates,
         NEW event \in FleetEvents, NEW ok \in BOOLEAN, Persist(ok),
         runs' = [runs EXCEPT ![r] = Moved(@, state, event)]
  PROVE  AuthoredInv'
<1>1. runs \in [Runs -> RunRecord]
  BY DEF TypedInv, FleetTypeOK, TypeOK
<1>2. runs'[r].log = Append(runs[r].log, event)
  BY <1>1, MovedEvidence, FleetEventTypes
<1>3. Append(runs[r].log, event) \in Seq(FleetEvents)
  BY DEF AuthoredInv, Authored
<1>4. \A q \in Runs \ {r} : runs'[q] = runs[q]
  BY <1>1
<1>5. Authored(runs')
  BY <1>2, <1>3, <1>4 DEF AuthoredInv, Authored
<1> QED  BY <1>5, AuthoredFile

LEMMA AuthoredCorrect == FleetSpec => []AuthoredInv
<1>1. FleetInit => AuthoredInv
  <2>1. AbsentRun.log \in Seq(FleetEvents)
    BY DEF AbsentRun
  <2> QED  BY <2>1 DEF FleetInit, Init, AuthoredInv, Authored
<1>2. TypedInv /\ AuthoredInv /\ [FleetNext]_fleetVars => AuthoredInv'
  <2> SUFFICES ASSUME TypedInv, AuthoredInv, [FleetNext]_fleetVars PROVE AuthoredInv'
    OBVIOUS
  <2>0. /\ runs \in [Runs -> RunRecord] /\ workers \in [Workers -> WorkerRecord]
        /\ loop \in [Workers -> [at : Places, run : Runs \cup {None}, passed : BOOLEAN]]
    BY DEF TypedInv, FleetTypeOK, TypeOK
  <2>1. ASSUME NEW w \in Workers, NEW ok \in BOOLEAN, Enroll(w, ok) \/ Heartbeat(w, ok)
        PROVE  AuthoredInv'
    <3>1. Persist(ok) /\ Authored(runs')
      BY <2>1 DEF Enroll, RegisterWorker, Heartbeat, WorkerHeartbeat, AuthoredInv
    <3> QED  BY <3>1, AuthoredFile
  <2>2. ASSUME NEW w \in Workers,
               \/ FetchAssignment(w) \/ Refused(w) \/ LoopEnds(w)
               \/ \E passed \in BOOLEAN : ExecutorExits(w, passed)
        PROVE  AuthoredInv'
    BY <2>2 DEF FetchAssignment, Refused, LoopEnds, ExecutorExits, planeVars, AuthoredInv, Authored
  <2>3. ASSUME NEW w \in Workers, NEW ok \in BOOLEAN, PostStarted(w, ok) \/ PostFinished(w, ok)
        PROVE  AuthoredInv'
    <3>1. PICK kind \in ExecutorEvents : WorkerEvent(w, kind, ok)
      BY <2>3 DEF PostStarted, PostFinished, ExecutorEvents
    <3>2. PICK r \in Runs : workers[w].run = r
      BY <2>0, <3>1 DEF WorkerEvent, WorkerRecord
    <3>3. runs' = [runs EXCEPT ![r] = Moved(@, runs[r].state, Posted(kind))] /\ Persist(ok)
      BY <2>0, <3>1, <3>2 DEF WorkerEvent
    <3>4. runs[r].state \in RunStates /\ Posted(kind) \in FleetEvents
      BY <2>0, FleetEventTypes DEF RunRecord
    <3> QED  BY <3>3, <3>4, AuthoredMove
  <2>4. ASSUME NEW w \in Workers, NEW ok \in BOOLEAN, PostResult(w, ok) PROVE AuthoredInv'
    <3>1. PICK r \in Runs : workers[w].run = r
      BY <2>0, <2>4 DEF PostResult, WorkerResult, WorkerRecord
    <3>2. CASE runs[r].state = "absent"
      BY <2>4, <3>1, <3>2 DEF PostResult, WorkerResult, AuthoredInv, Authored
    <3>3. CASE runs[r].state # "absent"
      <4>1. PICK passed \in BOOLEAN :
              /\ runs' = [runs EXCEPT ![r] = Moved(@, Verdict(passed), Told("verification_result"))]
              /\ Persist(ok)
        BY <2>0, <2>4, <3>1, <3>3 DEF PostResult, WorkerResult
      <4>2. Verdict(passed) \in RunStates
        BY DEF Verdict, RunStates, Verdicts
      <4> QED  BY <4>1, <4>2, AuthoredMove, FleetEventTypes
    <3> QED  BY <3>2, <3>3
  <2>5. ASSUME NEW r \in Runs, NEW ok \in BOOLEAN, StartRun(r, ok) PROVE AuthoredInv'
    <3>1. /\ Persist(ok) /\ (runs'[r] = Queued \/ \E w \in Workers : runs'[r] = RunningOn(w))
          /\ \A q \in Runs \ {r} : runs'[q] = runs[q]
      BY <2>0, <2>5 DEF StartRun, Idle
    <3>2. runs'[r].log \in Seq(FleetEvents)
      <4>1. Queued.log \in Seq(FleetEvents)
        <5>1. Queued.log = <<Told("run_queued")>>
          BY DEF Queued
        <5> QED  BY <5>1, FleetEventTypes
      <4>2. ASSUME NEW w \in Workers PROVE RunningOn(w).log \in Seq(FleetEvents)
        <5>1. RunningOn(w).log = <<Told("run_queued"), Told("worker_assigned")>>
          BY DEF RunningOn
        <5> QED  BY <5>1, FleetEventTypes
      <4> QED  BY <3>1, <4>1, <4>2
    <3>3. Authored(runs')
      BY <3>1, <3>2 DEF AuthoredInv, Authored
    <3> QED  BY <3>1, <3>3, AuthoredFile
  <2>6. ASSUME NEW r \in Runs, NEW ok \in BOOLEAN, SubmitRun(r, ok) PROVE AuthoredInv'
    <3>1. /\ runs' = [runs EXCEPT ![r] = Moved(@, "verifying", Told("verification_requested"))]
          /\ Persist(ok)
      BY <2>6 DEF SubmitRun
    <3>2. "verifying" \in RunStates
      BY DEF RunStates
    <3> QED  BY <3>1, <3>2, AuthoredMove, FleetEventTypes
  <2>7. CASE Restart
    <3>1. disk.runs \in [Runs -> RunRecord]
      BY DEF TypedInv, FleetTypeOK, TypeOK, Tables
    <3>2. ASSUME NEW r \in Runs
          PROVE  RecoveredRuns(disk.runs, disk.workers)[r].log \in Seq(FleetEvents)
      <4>1. disk.runs[r] \in RunRecord /\ disk.runs[r].log \in Seq(FleetEvents)
        BY <3>1 DEF AuthoredInv, Authored
      <4>2. [disk.runs[r] EXCEPT !.worker = None] \in RunRecord
            /\ [disk.runs[r] EXCEPT !.worker = None].log = disk.runs[r].log
        BY <4>1 DEF RunRecord
      <4>3. "queued" \in RunStates
        BY DEF RunStates
      <4>4. Moved([disk.runs[r] EXCEPT !.worker = None], "queued", Told("run_requeued")).log
              = Append(disk.runs[r].log, Told("run_requeued"))
        BY <4>2, <4>3, MovedEvidence, EventTypes
      <4>5. Append(disk.runs[r].log, Told("run_requeued")) \in Seq(FleetEvents)
        BY <4>1, FleetEventTypes
      <4> QED  BY <4>1, <4>2, <4>4, <4>5 DEF RecoveredRuns, Requeued
    <3> QED  BY <2>7, <3>2 DEF Restart, AuthoredInv, Authored
  <2>8. CASE UNCHANGED fleetVars
    BY <2>8 DEF fleetVars, planeVars, AuthoredInv, Authored
  <2> QED
    BY <2>1, <2>2, <2>3, <2>4, <2>5, <2>6, <2>7, <2>8
    DEF FleetNext, EnrollSome, DaemonStep, ClientStep
<1> QED  BY <1>1, <1>2, TypedCorrect, PTL DEF FleetSpec

(* In the fleet, what reads like an event of the API's is one.             *)
LEMMA ReadsAsWritten ==
  ASSUME NEW log \in Seq(FleetEvents), NEW i \in DOMAIN log
  PROVE  /\ log[i].kind \in LifecycleEvents <=> log[i].by = "api"
         /\ log[i].kind = "verification_result" => log[i] = Told("verification_result")
<1>1. log[i] \in FleetEvents
  OBVIOUS
<1>2. CASE \E kind \in LifecycleEvents : log[i] = Told(kind)
  BY <1>2 DEF Told
<1>3. CASE \E kind \in ExecutorEvents : log[i] = Posted(kind)
  BY <1>3 DEF Posted, ExecutorEvents, LifecycleEvents
<1> QED  BY <1>1, <1>2, <1>3 DEF FleetEvents

(* The kinds in a log, all that its reader sees, tell the one verdict and  *)
(* the state, whatever replies, persists and processes are lost.           *)
THEOREM LogReadsTrueTheorem == FleetSpec => []LogReadsTrue
<1>1. AuthoredInv /\ StateFollowsLog /\ OneVerdict => LogReadsTrue
  <2> SUFFICES ASSUME NEW run, run.log \in Seq(FleetEvents),
                      LogExplains(run), SingleVerdict(run.log)
               PROVE  KindsTell(run)
    BY DEF AuthoredInv, Authored, StateFollowsLog, OneVerdict, LogReadsTrue
  <2>1. \A i \in DOMAIN run.log :
          /\ run.log[i].kind \in LifecycleEvents <=> run.log[i].by = "api"
          /\ run.log[i].kind = "verification_result" => run.log[i] = Told("verification_result")
    BY ReadsAsWritten
  <2>2. \A i \in DOMAIN run.log : run.log[i].by = "worker" => run.log[i].by # "api"
    OBVIOUS
  <2> QED  BY <2>1, <2>2 DEF LogExplains, SingleVerdict, KindsTell
<1> QED
  BY <1>1, AuthoredCorrect, FleetRefinesPlane, LogTheorem, OneVerdictTheorem, PTL
=============================================================================
