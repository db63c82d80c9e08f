------------------------- MODULE ControlPlaneProofs -------------------------
(***************************************************************************)
(* Theorems about the control plane, for any sets of runs and workers and  *)
(* any bounds.                                                             *)
(***************************************************************************)
EXTENDS ControlPlane, TLAPS

-----------------------------------------------------------------------------
(* Types.                                                                  *)

(* What the API writes and what it takes from a worker are events.         *)
LEMMA EventTypes ==
  /\ \A kind \in LifecycleEvents : Told(kind) \in Events
  /\ \A kind \in Kinds : Posted(kind) \in Events
  /\ Told("run_queued") \in Events /\ Told("worker_assigned") \in Events
  /\ Told("verification_requested") \in Events /\ Told("verification_result") \in Events
  /\ Told("run_requeued") \in Events
BY DEF Events, LifecycleEvents

(* A run stays well typed when it changes state and tells its log.         *)
LEMMA MovedTypes ==
  ASSUME NEW run \in RunRecord, NEW state \in RunStates,
         NEW event \in Events
  PROVE  Moved(run, state, event) \in RunRecord
<1>1. Append(run.log, event) \in Seq(Events)
  BY DEF RunRecord
<1> QED  BY <1>1 DEF Moved, RunRecord

(* Recovering well-typed tables gives well-typed tables.                   *)
LEMMA RecoveredTypes ==
  ASSUME NEW rs \in [Runs -> RunRecord], NEW ws \in [Workers -> WorkerRecord]
  PROVE  /\ RecoveredRuns(rs, ws) \in [Runs -> RunRecord]
         /\ RecoveredWorkers(ws) \in [Workers -> WorkerRecord]
<1>1. ASSUME NEW run \in RunRecord PROVE Requeued(run) \in RunRecord
  <2>1. [run EXCEPT !.worker = None] \in RunRecord
    BY DEF RunRecord
  <2> QED  BY <2>1, MovedTypes, EventTypes DEF Requeued, RunStates
<1>2. RecoveredRuns(rs, ws) \in [Runs -> RunRecord]
  BY <1>1 DEF RecoveredRuns
<1>3. RecoveredWorkers(ws) \in [Workers -> WorkerRecord]
  BY DEF RecoveredWorkers, WorkerRecord
<1> QED  BY <1>2, <1>3

(* Whatever a handler leaves in the maps, persisting it or failing to keeps *)
(* the file and the fault count well typed.                                *)
LEMMA PersistTypes ==
  ASSUME TypeOK, NEW ok \in BOOLEAN, Persist(ok),
         runs' \in [Runs -> RunRecord], workers' \in [Workers -> WorkerRecord]
  PROVE  disk' \in Tables /\ faults' \in 0 .. MaxFaults
BY BoundsAssumption DEF Persist, TypeOK, Tables

(* Every step keeps the types.                                             *)
LEMMA TypeStep ==
  ASSUME TypeOK, [Next]_planeVars
  PROVE  TypeOK'
<1>1. ASSUME NEW r \in Runs, NEW ok \in BOOLEAN, StartRun(r, ok) PROVE TypeOK'
  <2>1. workers' \in [Workers -> WorkerRecord]
    BY <1>1 DEF StartRun, TypeOK, WorkerRecord, BusyWith
  <2>2. runs' \in [Runs -> RunRecord]
    <3>1. Queued \in RunRecord /\ \A w \in Workers : RunningOn(w) \in RunRecord
      BY EventTypes DEF Queued, RunningOn, RunRecord, RunStates
    <3> QED  BY <3>1, <1>1 DEF StartRun, TypeOK, Idle
  <2> QED
    BY <1>1, <2>1, <2>2, PersistTypes DEF StartRun, TypeOK, Acknowledged
<1>2. ASSUME NEW r \in Runs, NEW ok \in BOOLEAN, SubmitRun(r, ok) PROVE TypeOK'
  <2>1. runs' \in [Runs -> RunRecord]
    BY <1>2, MovedTypes, EventTypes DEF SubmitRun, TypeOK, RunStates
  <2> QED
    BY <1>2, <2>1, PersistTypes DEF SubmitRun, TypeOK
<1>3. ASSUME NEW w \in Workers, NEW ok \in BOOLEAN, RegisterWorker(w, ok) PROVE TypeOK'
  <2>1. workers' \in [Workers -> WorkerRecord]
    BY <1>3 DEF RegisterWorker, TypeOK, WorkerRecord
  <2> QED
    BY <1>3, <2>1, PersistTypes DEF RegisterWorker, TypeOK
<1>4. ASSUME NEW w \in Workers, NEW ok \in BOOLEAN, WorkerHeartbeat(w, ok) PROVE TypeOK'
  <2>1. workers' \in [Workers -> WorkerRecord]
    BY <1>4 DEF WorkerHeartbeat, TypeOK, WorkerRecord
  <2> QED
    BY <1>4, <2>1, PersistTypes DEF WorkerHeartbeat, TypeOK
<1>5. ASSUME NEW w \in Workers, NEW kind \in Kinds, NEW ok \in BOOLEAN,
             WorkerEvent(w, kind, ok)
      PROVE  TypeOK'
  <2>1. workers[w].run \in Runs
    BY <1>5 DEF WorkerEvent, TypeOK, WorkerRecord
  <2>2. runs' \in [Runs -> RunRecord]
    <3>1. runs[workers[w].run] \in RunRecord /\ runs[workers[w].run].state \in RunStates
      BY <2>1 DEF TypeOK, RunRecord
    <3> QED  BY <1>5, <2>1, <3>1, MovedTypes, EventTypes DEF WorkerEvent, TypeOK
  <2> QED
    BY <1>5, <2>2, PersistTypes DEF WorkerEvent, TypeOK
<1>6. ASSUME NEW w \in Workers, NEW passed \in BOOLEAN, NEW ok \in BOOLEAN,
             WorkerResult(w, passed, ok)
      PROVE  TypeOK'
  <2>1. workers[w].run \in Runs
    BY <1>6 DEF WorkerResult, TypeOK, WorkerRecord
  <2>2. workers' \in [Workers -> WorkerRecord]
    BY <1>6 DEF WorkerResult, TypeOK, WorkerRecord, Freed
  <2>3. runs' \in [Runs -> RunRecord]
    <3>1. /\ Verdict(passed) \in RunStates
          /\ Told("verification_result") \in Events
          /\ runs[workers[w].run] \in RunRecord
      BY <2>1, EventTypes DEF Verdict, Verdicts, RunStates, TypeOK
    <3>2. Moved(runs[workers[w].run], Verdict(passed), Told("verification_result")) \in RunRecord
      BY <3>1, MovedTypes
    <3> QED  BY <1>6, <2>1, <3>2 DEF WorkerResult, TypeOK
  <2>4. disk' \in Tables /\ faults' \in 0 .. MaxFaults
    <3>1. CASE runs[workers[w].run].state = "absent"
      BY <1>6, <3>1 DEF WorkerResult, TypeOK
    <3>2. CASE runs[workers[w].run].state # "absent"
      BY <1>6, <3>2, <2>2, <2>3, PersistTypes DEF WorkerResult
    <3> QED  BY <3>1, <3>2
  <2> QED
    BY <1>6, <2>1, <2>2, <2>3, <2>4 DEF WorkerResult, TypeOK
<1>7. ASSUME Restart PROVE TypeOK'
  BY <1>7, RecoveredTypes, BoundsAssumption DEF Restart, TypeOK, Tables
<1>8. CASE UNCHANGED planeVars
  BY <1>8 DEF planeVars, TypeOK
<1> QED
  BY <1>1, <1>2, <1>3, <1>4, <1>5, <1>6, <1>7, <1>8 DEF Next

(* Every variable keeps its type in every reachable state.                 *)
THEOREM TypeCorrect == Spec => []TypeOK
<1>1. Init => TypeOK
  BY BoundsAssumption
  DEF Init, TypeOK, Tables, RunRecord, WorkerRecord, AbsentRun, AbsentWorker, RunStates
<1>2. TypeOK /\ [Next]_planeVars => TypeOK'
  BY TypeStep
<1> QED  BY <1>1, <1>2, PTL DEF Spec

-----------------------------------------------------------------------------
(* The assignment.  Consistency alone is not inductive: start_run writes a *)
(* run over an id, which is harmless only because the id is fresh.  The    *)
(* strengthening says that every id in use has been drawn.                 *)
Known(rs, ws) ==
  /\ \A r \in Runs : rs[r].state # "absent" => r \in issued
  /\ \A w \in Workers : ws[w].state # "absent" => w \in issued

Sound(rs, ws) == Consistent(rs, ws) /\ Known(rs, ws)

SoundInv == Sound(runs, workers) /\ Sound(disk.runs, disk.workers)

(* The file is the old one or the new maps, so what holds of the old file  *)
(* and of the new maps holds of the new file.                              *)
LEMMA SoundFile ==
  ASSUME NEW ok \in BOOLEAN, Persist(ok), issued \subseteq issued',
         Sound(runs, workers)', Sound(disk.runs, disk.workers)
  PROVE  Sound(disk.runs, disk.workers)'
<1>1. CASE ok
  BY <1>1 DEF Persist, Sound, Consistent, Known, Held, Holds
<1>2. CASE ~ok
  BY <1>2 DEF Persist, Sound, Consistent, Known, Held, Holds
<1> QED  BY <1>1, <1>2

(* Recovery makes consistent tables of consistent tables: the run every    *)
(* worker lets go of is the run that names it.                             *)
LEMMA RecoveredSound ==
  ASSUME NEW rs \in [Runs -> RunRecord], NEW ws \in [Workers -> WorkerRecord], Sound(rs, ws)
  PROVE  Sound(RecoveredRuns(rs, ws), RecoveredWorkers(ws))
<1> DEFINE rs2 == RecoveredRuns(rs, ws)
           ws2 == RecoveredWorkers(ws)
<1>1. \A w \in Workers : /\ ws2[w].run = None
                         /\ ws2[w].state # "busy"
                         /\ ws2[w].state = "absent" <=> ws[w].state = "absent"
  BY DEF RecoveredWorkers, Sound, Consistent
<1>2. \A r \in Runs : /\ rs2[r].state # "running"
                      /\ rs2[r].state = "absent" <=> rs[r].state = "absent"
                      /\ rs2[r].state \in {"absent", "queued"} => rs2[r].worker = None
  <2> TAKE r \in Runs
  <2>1. CASE Held(ws, r) /\ rs[r].state # "absent"
    <3>1. rs[r].state \in {"running", "verifying"}
      BY <2>1, NoneAssumption DEF Held, Holds, Sound, Consistent, WorkerRecord
    <3>2. rs2[r].state = "queued" /\ rs2[r].worker = None
      BY <2>1, <3>1 DEF RecoveredRuns, Requeued, Moved, RunRecord
    <3> QED  BY <3>1, <3>2
  <2>2. CASE ~(Held(ws, r) /\ rs[r].state # "absent")
    BY <2>2 DEF RecoveredRuns, Sound, Consistent
  <2> QED  BY <2>1, <2>2
<1> HIDE DEF rs2, ws2
<1>3. Consistent(rs2, ws2)
  BY <1>1, <1>2 DEF Consistent
<1>4. Known(rs2, ws2)
  BY <1>1, <1>2 DEF Sound, Known
<1> QED  BY <1>3, <1>4 DEF rs2, ws2, Sound

(* The strengthened invariant is inductive.                                *)
LEMMA SoundCorrect == Spec => []SoundInv
<1>1. Init => SoundInv
  BY NoneAssumption
  DEF Init, SoundInv, Sound, Consistent, Known, Held, Holds, AbsentRun, AbsentWorker
<1>2. TypeOK /\ SoundInv /\ [Next]_planeVars => SoundInv'
  <2> SUFFICES ASSUME TypeOK, SoundInv, [Next]_planeVars PROVE SoundInv'
    OBVIOUS
  <2> USE DEF SoundInv
  <2>1. ASSUME NEW r \in Runs, NEW ok \in BOOLEAN, StartRun(r, ok) PROVE SoundInv'
    <3>1. runs[r].state = "absent" /\ ~Held(workers, r)
      BY <2>1, NoneAssumption DEF StartRun, Sound, Known, Consistent, Held, Holds
    <3>2. Sound(runs, workers)'
      <4>1. CASE \E w \in Idle : /\ workers' = [workers EXCEPT ![w] = BusyWith(w, r)]
                                 /\ runs' = [runs EXCEPT ![r] = RunningOn(w)]
        <5>1. PICK w \in Idle : /\ workers' = [workers EXCEPT ![w] = BusyWith(w, r)]
                                /\ runs' = [runs EXCEPT ![r] = RunningOn(w)]
          BY <4>1
        <5>2. w \in Workers /\ workers[w].state = "ready" /\ workers[w].run = None
          BY <5>1 DEF Idle, Sound, Consistent
        <5>3. /\ workers'[w] = [state |-> "busy", run |-> r]
              /\ \A v \in Workers \ {w} : workers'[v] = workers[v]
              /\ runs'[r].state = "running" /\ runs'[r].worker = w
              /\ \A q \in Runs \ {r} : runs'[q] = runs[q]
          BY <5>1, <5>2 DEF TypeOK, BusyWith, RunningOn
        <5>4. Consistent(runs, workers)'
          BY <3>1, <5>2, <5>3, NoneAssumption DEF Sound, Consistent, Held, Holds, TypeOK, WorkerRecord
        <5>5. Known(runs, workers)'
          BY <2>1, <5>2, <5>3 DEF StartRun, Sound, Known
        <5> QED  BY <5>4, <5>5 DEF Sound
      <4>2. CASE UNCHANGED workers /\ runs' = [runs EXCEPT ![r] = Queued]
        <5>1. /\ runs'[r].state = "queued" /\ runs'[r].worker = None
              /\ \A q \in Runs \ {r} : runs'[q] = runs[q]
          BY <4>2 DEF TypeOK, Queued
        <5> QED
          BY <2>1, <3>1, <4>2, <5>1
          DEF StartRun, Sound, Consistent, Known, Held, Holds, TypeOK, WorkerRecord
      <4> QED  BY <2>1, <4>1, <4>2 DEF StartRun
    <3> QED  BY <2>1, <3>2, SoundFile DEF StartRun
  <2>2. ASSUME NEW r \in Runs, NEW ok \in BOOLEAN, SubmitRun(r, ok) PROVE SoundInv'
    <3>1. /\ runs'[r].state = "verifying" /\ runs'[r].worker = runs[r].worker
          /\ \A q \in Runs \ {r} : runs'[q] = runs[q]
      BY <2>2 DEF SubmitRun, TypeOK, RunRecord, Moved
    <3>2. Sound(runs, workers)'
      BY <2>2, <3>1
      DEF SubmitRun, Sound, Consistent, Known, Held, Holds, TypeOK, WorkerRecord
    <3> QED  BY <2>2, <3>2, SoundFile DEF SubmitRun
  <2>3. ASSUME NEW w \in Workers, NEW ok \in BOOLEAN, RegisterWorker(w, ok) PROVE SoundInv'
    <3>1. workers[w].state = "absent" /\ workers[w].run = None
      BY <2>3 DEF RegisterWorker, Sound, Known, Consistent
    <3>2. /\ workers'[w] = [state |-> "ready", run |-> None]
          /\ \A v \in Workers \ {w} : workers'[v] = workers[v]
      BY <2>3 DEF RegisterWorker, TypeOK
    <3>3. Sound(runs, workers)'
      BY <2>3, <3>1, <3>2, NoneAssumption
      DEF RegisterWorker, Sound, Consistent, Known, Held, Holds, TypeOK
    <3> QED  BY <2>3, <3>3, SoundFile DEF RegisterWorker
  <2>4. ASSUME NEW w \in Workers, NEW ok \in BOOLEAN, WorkerHeartbeat(w, ok) PROVE SoundInv'
    <3>1. /\ workers'[w].run = workers[w].run
          /\ workers'[w].state = "absent" <=> workers[w].state = "absent"
          /\ workers'[w].state = "busy" <=> workers[w].state = "busy"
          /\ \A v \in Workers \ {w} : workers'[v] = workers[v]
      BY <2>4 DEF WorkerHeartbeat, TypeOK, WorkerRecord
    <3>2. Sound(runs, workers)'
      BY <2>4, <3>1 DEF WorkerHeartbeat, Sound, Consistent, Known, Held, Holds
    <3> QED  BY <2>4, <3>2, SoundFile DEF WorkerHeartbeat
  <2>5. ASSUME NEW w \in Workers, NEW kind \in Kinds, NEW ok \in BOOLEAN,
               WorkerEvent(w, kind, ok)
        PROVE  SoundInv'
    <3>1. \A q \in Runs : runs'[q].state = runs[q].state /\ runs'[q].worker = runs[q].worker
      BY <2>5 DEF WorkerEvent, TypeOK, RunRecord, Moved
    <3>2. Sound(runs, workers)'
      BY <2>5, <3>1 DEF WorkerEvent, Sound, Consistent, Known, Held, Holds, TypeOK, WorkerRecord
    <3> QED  BY <2>5, <3>2, SoundFile DEF WorkerEvent
  <2>6. ASSUME NEW w \in Workers, NEW passed \in BOOLEAN, NEW ok \in BOOLEAN,
               WorkerResult(w, passed, ok)
        PROVE  SoundInv'
    <3> DEFINE r == workers[w].run
    <3>1. /\ r \in Runs /\ runs[r].worker = w /\ runs[r].state # "absent"
          /\ workers[w].state = "busy"
      BY <2>6 DEF WorkerResult, Sound, Consistent, TypeOK, WorkerRecord
    <3>2. /\ runs'[r].state \in Verdicts /\ runs'[r].worker = w
          /\ \A q \in Runs \ {r} : runs'[q] = runs[q]
      <4>1. runs' = [runs EXCEPT ![r] = Moved(@, Verdict(passed), Told("verification_result"))]
        BY <2>6, <3>1 DEF WorkerResult
      <4>2. r \in Runs /\ runs[r] \in RunRecord /\ runs[r].worker = w
        BY <3>1 DEF TypeOK
      <4> HIDE DEF r
      <4> QED  BY <4>1, <4>2 DEF TypeOK, RunRecord, Moved, Verdict, Verdicts
    <3>3. /\ workers'[w] = [state |-> "ready", run |-> None]
          /\ \A v \in Workers \ {w} : workers'[v] = workers[v]
      BY <2>6 DEF WorkerResult, TypeOK, Freed
    <3>4. r \in issued /\ w \in issued /\ issued' = issued
      BY <2>6, <3>1 DEF WorkerResult, Sound, Known
    <3>5. \A v \in Workers \ {w} : workers[v].run # r
      BY <3>1, NoneAssumption DEF Sound, Consistent
    <3> HIDE DEF r
    <3>6. Consistent(runs, workers)'
      BY <3>1, <3>2, <3>3, <3>5, NoneAssumption, SMTT(30)
      DEF Sound, Consistent, Held, Holds, TypeOK, WorkerRecord, Verdicts, r
    <3>7. Known(runs, workers)'
      BY <3>2, <3>3, <3>4 DEF Sound, Known
    <3> QED  BY <2>6, <3>1, <3>4, <3>6, <3>7, SoundFile DEF WorkerResult, Sound, r
  <2>7. ASSUME Restart PROVE SoundInv'
    <3>1. disk.runs \in [Runs -> RunRecord] /\ disk.workers \in [Workers -> WorkerRecord]
      BY DEF TypeOK, Tables
    <3>2. Sound(RecoveredRuns(disk.runs, disk.workers), RecoveredWorkers(disk.workers))
      BY <3>1, RecoveredSound
    <3> QED
      BY <2>7, <3>2 DEF Restart, Sound, Consistent, Known, Held, Holds
  <2>8. CASE UNCHANGED planeVars
    BY <2>8 DEF planeVars, Sound, Consistent, Known, Held, Holds
  <2> QED
    BY <2>1, <2>2, <2>3, <2>4, <2>5, <2>6, <2>7, <2>8 DEF Next
<1> QED  BY <1>1, <1>2, TypeCorrect, PTL DEF Spec

(* The two maps agree about who has which run, in memory and in the file,  *)
(* across handlers, failed persists and restarts.                          *)
THEOREM AssignmentTheorem == Spec => []AssignmentConsistent
<1>1. SoundInv => AssignmentConsistent
  BY DEF SoundInv, Sound, AssignmentConsistent
<1> QED  BY <1>1, SoundCorrect, PTL

-----------------------------------------------------------------------------
(* Verdicts and acknowledgements.  That a run gets one verdict rests on    *)
(* the run a worker has being without one; that a recorded verdict stays   *)
(* rests on nobody having the run any more, in the file as in memory.      *)
History(rs, ws) ==
  /\ \A r \in Runs : /\ SingleVerdict(rs[r].log)
                     /\ Held(ws, r) => ~HasVerdict(rs[r].log)
  /\ \A r \in acked : rs[r].state # "absent"
  /\ \A r \in decided : Settled(rs, ws, r)

HistoryInv == History(runs, workers) /\ History(disk.runs, disk.workers)

(* The entries of a log stay where they are, and a new one comes last.     *)
LEMMA LogAppend ==
  ASSUME NEW log \in Seq(Events), NEW event \in Events
  PROVE  /\ \A i \in DOMAIN log :
              i \in DOMAIN Append(log, event) /\ Append(log, event)[i] = log[i]
         /\ Len(log) + 1 \in DOMAIN Append(log, event)
         /\ Append(log, event)[Len(log) + 1] = event
         /\ \A i \in DOMAIN Append(log, event) : i # Len(log) + 1 =>
              i \in DOMAIN log /\ Append(log, event)[i] = log[i]
OBVIOUS

(* Appending any other event to a log leaves its verdicts alone.           *)
LEMMA AppendOther ==
  ASSUME NEW log \in Seq(Events),
         NEW event \in Events, event # Told("verification_result")
  PROVE  /\ HasVerdict(Append(log, event)) <=> HasVerdict(log)
         /\ SingleVerdict(log) => SingleVerdict(Append(log, event))
<1>1. \A i \in DOMAIN Append(log, event) :
        Append(log, event)[i] = Told("verification_result")
          => i \in DOMAIN log /\ log[i] = Told("verification_result")
  BY LogAppend
<1>2. \A i \in DOMAIN log : i \in DOMAIN Append(log, event) /\ Append(log, event)[i] = log[i]
  BY LogAppend
<1> QED  BY <1>1, <1>2 DEF HasVerdict, SingleVerdict

(* Appending a verdict to a log without one leaves exactly one.            *)
LEMMA AppendVerdict ==
  ASSUME NEW log \in Seq(Events)
  PROVE  /\ HasVerdict(Append(log, Told("verification_result")))
         /\ ~HasVerdict(log) => SingleVerdict(Append(log, Told("verification_result")))
<1> DEFINE verdict == Told("verification_result")
<1>1. verdict \in Events
  BY EventTypes
<1> HIDE DEF verdict
<1>2. /\ Len(log) + 1 \in DOMAIN Append(log, verdict)
      /\ Append(log, verdict)[Len(log) + 1] = verdict
      /\ \A i \in DOMAIN Append(log, verdict) : i # Len(log) + 1 =>
           i \in DOMAIN log /\ Append(log, verdict)[i] = log[i]
  BY <1>1, LogAppend
<1> QED  BY <1>2 DEF HasVerdict, SingleVerdict, verdict

(* As for SoundFile; a failed persist acknowledges nothing.                *)
LEMMA HistoryFile ==
  ASSUME NEW ok \in BOOLEAN, Persist(ok),
         ok \/ (acked' = acked /\ decided' = decided),
         History(runs, workers)', History(disk.runs, disk.workers)
  PROVE  History(disk.runs, disk.workers)'
<1>1. CASE ok
  BY <1>1 DEF Persist, History, Settled, Held, Holds
<1>2. CASE ~ok
  BY <1>2 DEF Persist, History, Settled, Held, Holds
<1> QED  BY <1>1, <1>2

(* Recovery requeues held runs only, and those have no verdict.            *)
LEMMA RecoveredHistory ==
  ASSUME NEW rs \in [Runs -> RunRecord], NEW ws \in [Workers -> WorkerRecord],
         Sound(rs, ws), History(rs, ws), TypeOK
  PROVE  History(RecoveredRuns(rs, ws), RecoveredWorkers(ws))
<1> DEFINE rs2 == RecoveredRuns(rs, ws)
           ws2 == RecoveredWorkers(ws)
<1>1. \A r \in Runs : ~Held(ws2, r)
  BY NoneAssumption DEF RecoveredWorkers, Sound, Consistent, Held, Holds
<1>2. \A r \in Runs : ~Held(ws, r) => rs2[r] = rs[r]
  BY DEF RecoveredRuns
<1>3. ASSUME NEW r \in Runs
      PROVE  SingleVerdict(rs2[r].log) /\ (rs[r].state # "absent" => rs2[r].state # "absent")
  <2>1. CASE Held(ws, r) /\ rs[r].state # "absent"
    <3>1. rs[r].state \in {"running", "verifying"}
      BY <2>1, NoneAssumption DEF Held, Holds, Sound, Consistent, WorkerRecord
    <3>2. /\ rs2[r].state = "queued"
          /\ rs2[r].log = Append(rs[r].log, Told("run_requeued"))
      BY <2>1, <3>1 DEF RecoveredRuns, Requeued, Moved, RunRecord
    <3>3. SingleVerdict(Append(rs[r].log, Told("run_requeued")))
      <4>1. rs[r].log \in Seq(Events)
        BY DEF RunRecord
      <4>2. Told("run_requeued") # Told("verification_result")
        BY DEF Told
      <4> QED  BY <4>1, <4>2, AppendOther, EventTypes DEF History
    <3> QED  BY <3>2, <3>3
  <2>2. CASE ~(Held(ws, r) /\ rs[r].state # "absent")
    BY <2>2 DEF RecoveredRuns, History
  <2> QED  BY <2>1, <2>2
<1> HIDE DEF rs2, ws2
<1>4. \A r \in decided : Settled(rs2, ws2, r)
  BY <1>1, <1>2 DEF History, Settled, TypeOK
<1> QED  BY <1>1, <1>3, <1>4 DEF History, TypeOK, rs2, ws2

(* What was acknowledged stays: a run got at most one verdict, an accepted *)
(* run is in the file, and a recorded verdict is not requeued or assigned. *)
LEMMA HistoryCorrect == Spec => []HistoryInv
<1>1. Init => HistoryInv
  BY NoneAssumption
  DEF Init, HistoryInv, History, SingleVerdict, Held, Holds, AbsentRun, AbsentWorker
<1>2. TypeOK /\ SoundInv /\ HistoryInv /\ [Next]_planeVars => HistoryInv'
  <2> SUFFICES ASSUME TypeOK, SoundInv, HistoryInv, [Next]_planeVars PROVE HistoryInv'
    OBVIOUS
  <2> USE DEF HistoryInv, SoundInv
  <2>1. ASSUME NEW r \in Runs, NEW ok \in BOOLEAN, StartRun(r, ok) PROVE HistoryInv'
    <3>1. runs[r].state = "absent"
      BY <2>1 DEF StartRun, Sound, Known
    <3>2. r \notin decided
      BY <3>1 DEF History, Settled, Verdicts
    <3>3. /\ runs'[r].state # "absent"
          /\ ~HasVerdict(runs'[r].log) /\ SingleVerdict(runs'[r].log)
          /\ \A q \in Runs \ {r} : runs'[q] = runs[q]
      <4>1. /\ ~HasVerdict(Queued.log) /\ Queued.state # "absent"
            /\ \A w \in Workers :
                 ~HasVerdict(RunningOn(w).log) /\ RunningOn(w).state # "absent"
        BY DEF Queued, RunningOn, HasVerdict, Told
      <4>2. /\ runs'[r] = Queued \/ \E w \in Workers : runs'[r] = RunningOn(w)
            /\ \A q \in Runs \ {r} : runs'[q] = runs[q]
        BY <2>1 DEF StartRun, TypeOK, Idle
      <4>3. \A run \in RunRecord : ~HasVerdict(run.log) => SingleVerdict(run.log)
        BY DEF HasVerdict, SingleVerdict
      <4>4. runs'[r] \in RunRecord
        BY TypeStep DEF TypeOK
      <4> QED  BY <4>1, <4>2, <4>3, <4>4
    <3>4. \A q \in Runs \ {r} : Held(workers', q) => Held(workers, q)
      BY <2>1 DEF StartRun, TypeOK, Held, Holds, BusyWith, Idle
    <3>5. History(runs, workers)'
      BY <2>1, <3>2, <3>3, <3>4 DEF StartRun, Acknowledged, History, Settled, TypeOK
    <3> QED  BY <2>1, <3>5, HistoryFile DEF StartRun, Acknowledged
  <2>2. ASSUME NEW r \in Runs, NEW ok \in BOOLEAN, SubmitRun(r, ok) PROVE HistoryInv'
    <3>1. /\ runs'[r].state = "verifying"
          /\ runs'[r].log = Append(runs[r].log, Told("verification_requested"))
          /\ \A q \in Runs \ {r} : runs'[q] = runs[q]
      BY <2>2 DEF SubmitRun, TypeOK, RunRecord, Moved
    <3>2. /\ HasVerdict(runs'[r].log) <=> HasVerdict(runs[r].log)
          /\ SingleVerdict(runs'[r].log)
      <4>1. runs[r].log \in Seq(Events)
        BY DEF TypeOK, RunRecord
      <4>2. Told("verification_requested") # Told("verification_result")
        BY DEF Told
      <4> QED  BY <3>1, <4>1, <4>2, AppendOther, EventTypes DEF History
    <3>3. History(runs, workers)'
      BY <2>2, <3>1, <3>2 DEF SubmitRun, History, Settled, TypeOK
    <3> QED  BY <2>2, <3>3, HistoryFile DEF SubmitRun
  <2>3. ASSUME NEW w \in Workers, NEW ok \in BOOLEAN, RegisterWorker(w, ok) PROVE HistoryInv'
    <3>1. \A r \in Runs : Held(workers', r) => Held(workers, r)
      BY <2>3, NoneAssumption DEF RegisterWorker, TypeOK, Held, Holds
    <3>2. History(runs, workers)'
      BY <2>3, <3>1 DEF RegisterWorker, History, Settled, TypeOK
    <3> QED  BY <2>3, <3>2, HistoryFile DEF RegisterWorker
  <2>4. ASSUME NEW w \in Workers, NEW ok \in BOOLEAN, WorkerHeartbeat(w, ok) PROVE HistoryInv'
    <3>1. \A r \in Runs : Held(workers', r) => Held(workers, r)
      BY <2>4 DEF WorkerHeartbeat, TypeOK, WorkerRecord, Held, Holds
    <3>2. History(runs, workers)'
      BY <2>4, <3>1 DEF WorkerHeartbeat, History, Settled, TypeOK
    <3> QED  BY <2>4, <3>2, HistoryFile DEF WorkerHeartbeat
  <2>5. ASSUME NEW w \in Workers, NEW kind \in Kinds, NEW ok \in BOOLEAN,
               WorkerEvent(w, kind, ok)
        PROVE  HistoryInv'
    <3>1. PICK r \in Runs :
            /\ runs'[r].state = runs[r].state
            /\ runs'[r].log = Append(runs[r].log, Posted(kind))
            /\ \A q \in Runs \ {r} : runs'[q] = runs[q]
      <4>1. workers[w].run \in Runs /\ runs[workers[w].run] \in RunRecord
        BY <2>5 DEF WorkerEvent, TypeOK, WorkerRecord
      <4> QED  BY <2>5, <4>1 DEF WorkerEvent, TypeOK, RunRecord, Moved
    <3>2. /\ HasVerdict(runs'[r].log) <=> HasVerdict(runs[r].log)
          /\ SingleVerdict(runs'[r].log)
      <4>1. runs[r].log \in Seq(Events)
        BY DEF TypeOK, RunRecord
      <4>2. Posted(kind) \in Events /\ Posted(kind) # Told("verification_result")
        BY EventTypes DEF Posted, Told
      <4> QED  BY <3>1, <4>1, <4>2, AppendOther DEF History
    <3>3. History(runs, workers)'
      BY <2>5, <3>1, <3>2, ZenonT(30) DEF WorkerEvent, History, Settled, TypeOK
    <3> QED  BY <2>5, <3>3, HistoryFile DEF WorkerEvent
  <2>6. ASSUME NEW w \in Workers, NEW passed \in BOOLEAN, NEW ok \in BOOLEAN,
               WorkerResult(w, passed, ok)
        PROVE  HistoryInv'
    <3>1. PICK r \in Runs : workers[w].run = r
      BY <2>6 DEF WorkerResult, TypeOK, WorkerRecord
    <3>2. runs[r].state # "absent" /\ runs[r] \in RunRecord /\ ~HasVerdict(runs[r].log)
      BY <3>1, NoneAssumption DEF Sound, Consistent, History, Held, Holds, TypeOK
    <3>3. runs' = [runs EXCEPT ![r] = Moved(@, Verdict(passed), Told("verification_result"))]
      BY <2>6, <3>1, <3>2 DEF WorkerResult
    <3>4. /\ runs'[r].state \in Verdicts
          /\ runs'[r].log = Append(runs[r].log, Told("verification_result"))
          /\ \A q \in Runs \ {r} : runs'[q] = runs[q]
      BY <3>2, <3>3 DEF TypeOK, RunRecord, Moved, Verdict, Verdicts
    <3>5. HasVerdict(runs'[r].log) /\ SingleVerdict(runs'[r].log)
      <4>1. runs[r].log \in Seq(Events)
        BY <3>2 DEF RunRecord
      <4> QED  BY <3>2, <3>4, <4>1, AppendVerdict
    <3>6. /\ ~Held(workers', r)
          /\ \A q \in Runs : Held(workers', q) => Held(workers, q)
      BY <2>6, <3>1, NoneAssumption
      DEF WorkerResult, TypeOK, Freed, Held, Holds, Sound, Consistent
    <3>7. /\ acked' = acked
          /\ decided' = IF ok THEN decided \cup {r} ELSE decided
          /\ Persist(ok)
      BY <2>6, <3>1, <3>2 DEF WorkerResult
    <3>8. History(runs, workers)'
      BY <3>4, <3>5, <3>6, <3>7 DEF History, Settled, TypeOK, Verdicts
    <3> QED  BY <3>7, <3>8, HistoryFile
  <2>7. ASSUME Restart PROVE HistoryInv'
    <3>1. disk.runs \in [Runs -> RunRecord] /\ disk.workers \in [Workers -> WorkerRecord]
      BY DEF TypeOK, Tables
    <3>2. History(RecoveredRuns(disk.runs, disk.workers), RecoveredWorkers(disk.workers))
      BY <3>1, RecoveredHistory
    <3> QED
      BY <2>7, <3>2 DEF Restart, History, Settled, Held, Holds
  <2>8. CASE UNCHANGED planeVars
    BY <2>8 DEF planeVars, History, Settled, Held, Holds
  <2> QED
    BY <2>1, <2>2, <2>3, <2>4, <2>5, <2>6, <2>7, <2>8 DEF Next
<1> QED  BY <1>1, <1>2, TypeCorrect, SoundCorrect, PTL DEF Spec

(* The API records at most one verdict of a run, whatever kinds of event   *)
(* its worker posts.                                                       *)
THEOREM OneVerdictTheorem == Spec => []OneVerdict
<1>1. HistoryInv => OneVerdict
  BY DEF HistoryInv, History, OneVerdict
<1> QED  BY <1>1, HistoryCorrect, PTL

(* A run a client was told is accepted is never lost, in memory or file.   *)
THEOREM AcceptedTheorem == Spec => []AcceptedRunsSurvive
<1>1. HistoryInv => AcceptedRunsSurvive
  BY DEF HistoryInv, History, AcceptedRunsSurvive
<1> QED  BY <1>1, HistoryCorrect, PTL

(* No restart undoes a verdict that was acknowledged to its worker.        *)
THEOREM VerdictTheorem == Spec => []RecordedVerdictSurvives
<1>1. HistoryInv => RecordedVerdictSurvives
  BY DEF HistoryInv, History, RecordedVerdictSurvives
<1> QED  BY <1>1, HistoryCorrect, PTL

-----------------------------------------------------------------------------
(* The log.                                                                *)

(* A run that changes state and tells its log is explained by it.          *)
LEMMA MovedExplained ==
  ASSUME NEW run \in RunRecord, NEW state \in RunStates \ {"absent"},
         NEW event \in Events, event.by = "api", event.kind \in Explains(state)
  PROVE  LogExplains(Moved(run, state, event))
<1>1. /\ Moved(run, state, event).state = state
      /\ Moved(run, state, event).log = Append(run.log, event)
      /\ run.log \in Seq(Events)
  BY DEF Moved, RunRecord
<1>2. /\ Len(run.log) + 1 \in DOMAIN Append(run.log, event)
      /\ Append(run.log, event)[Len(run.log) + 1] = event
      /\ \A j \in DOMAIN Append(run.log, event) : ~(j > Len(run.log) + 1)
  BY <1>1
<1> QED  BY <1>1, <1>2 DEF LogExplains

(* What a worker posts does not disturb the explanation.                   *)
LEMMA ReportExplained ==
  ASSUME NEW run \in RunRecord, NEW kind \in Kinds, LogExplains(run)
  PROVE  LogExplains(Moved(run, run.state, Posted(kind)))
<1>1. /\ Moved(run, run.state, Posted(kind)).state = run.state
      /\ Moved(run, run.state, Posted(kind)).log = Append(run.log, Posted(kind))
      /\ run.log \in Seq(Events)
  BY DEF Moved, RunRecord
<1>2. Posted(kind).by = "worker" /\ Posted(kind) \in Events
  BY EventTypes DEF Posted
<1> QED  BY <1>1, <1>2 DEF LogExplains

(* Neither does the worker a run names.                                    *)
LEMMA UnassignedExplained ==
  ASSUME NEW run \in RunRecord
  PROVE  /\ [run EXCEPT !.worker = None] \in RunRecord
         /\ LogExplains(run) => LogExplains([run EXCEPT !.worker = None])
BY DEF RunRecord, LogExplains

(* As for SoundFile.                                                       *)
LEMMA ExplainedFile ==
  ASSUME NEW ok \in BOOLEAN, Persist(ok), StateFollowsLog,
         \A r \in Runs : LogExplains(runs'[r])
  PROVE  StateFollowsLog'
<1>1. CASE ok
  BY <1>1 DEF Persist, StateFollowsLog
<1>2. CASE ~ok
  BY <1>2 DEF Persist, StateFollowsLog
<1> QED  BY <1>1, <1>2

(* No handler, no failed persist and no recovery moves a run without       *)
(* telling its log.                                                        *)
THEOREM LogTheorem == Spec => []StateFollowsLog
<1>1. Init => StateFollowsLog
  BY DEF Init, StateFollowsLog, LogExplains, AbsentRun
<1>2. TypeOK /\ StateFollowsLog /\ [Next]_planeVars => StateFollowsLog'
  <2> SUFFICES ASSUME TypeOK, StateFollowsLog, [Next]_planeVars PROVE StateFollowsLog'
    OBVIOUS
  <2>1. ASSUME NEW r \in Runs, NEW ok \in BOOLEAN, StartRun(r, ok) PROVE StateFollowsLog'
    <3>1. LogExplains(Queued) /\ \A w \in Workers : LogExplains(RunningOn(w))
      BY DEF LogExplains, Explains, Queued, RunningOn, Verdicts, Told
    <3>2. \A q \in Runs : LogExplains(runs'[q])
      <4>1. runs' = [runs EXCEPT ![r] = Queued]
            \/ \E w \in Workers : runs' = [runs EXCEPT ![r] = RunningOn(w)]
        BY <2>1 DEF StartRun, Idle
      <4> QED  BY <3>1, <4>1 DEF StateFollowsLog, TypeOK
    <3> QED  BY <2>1, <3>2, ExplainedFile DEF StartRun
  <2>2. ASSUME NEW r \in Runs, NEW ok \in BOOLEAN, SubmitRun(r, ok) PROVE StateFollowsLog'
    <3>1. LogExplains(Moved(runs[r], "verifying", Told("verification_requested")))
      <4>1. /\ Told("verification_requested").by = "api"
            /\ Told("verification_requested").kind \in Explains("verifying")
        BY DEF Explains, Verdicts, Told
      <4> QED  BY <4>1, MovedExplained, EventTypes DEF TypeOK, RunStates
    <3>2. \A q \in Runs : LogExplains(runs'[q])
      BY <2>2, <3>1 DEF SubmitRun, TypeOK, StateFollowsLog
    <3> QED  BY <2>2, <3>2, ExplainedFile DEF SubmitRun
  <2>3. ASSUME NEW w \in Workers, NEW ok \in BOOLEAN, RegisterWorker(w, ok)
        PROVE  StateFollowsLog'
    BY <2>3, ExplainedFile DEF RegisterWorker, StateFollowsLog
  <2>4. ASSUME NEW w \in Workers, NEW ok \in BOOLEAN, WorkerHeartbeat(w, ok)
        PROVE  StateFollowsLog'
    BY <2>4, ExplainedFile DEF WorkerHeartbeat, StateFollowsLog
  <2>5. ASSUME NEW w \in Workers, NEW kind \in Kinds, NEW ok \in BOOLEAN,
               WorkerEvent(w, kind, ok)
        PROVE  StateFollowsLog'
    <3>1. PICK r \in Runs : runs' = [runs EXCEPT ![r] = Moved(@, @.state, Posted(kind))]
      BY <2>5 DEF WorkerEvent, TypeOK, WorkerRecord
    <3>2. LogExplains(Moved(runs[r], runs[r].state, Posted(kind)))
      BY ReportExplained DEF TypeOK, StateFollowsLog
    <3>3. \A q \in Runs : LogExplains(runs'[q])
      BY <3>1, <3>2 DEF TypeOK, StateFollowsLog
    <3> QED  BY <2>5, <3>3, ExplainedFile DEF WorkerEvent
  <2>6. ASSUME NEW w \in Workers, NEW passed \in BOOLEAN, NEW ok \in BOOLEAN,
               WorkerResult(w, passed, ok)
        PROVE  StateFollowsLog'
    <3>1. PICK r \in Runs : workers[w].run = r
      BY <2>6 DEF WorkerResult, TypeOK, WorkerRecord
    <3>2. CASE runs[r].state = "absent"
      BY <2>6, <3>1, <3>2 DEF WorkerResult, StateFollowsLog
    <3>3. CASE runs[r].state # "absent"
      <4>1. /\ runs' = [runs EXCEPT ![r] = Moved(@, Verdict(passed), Told("verification_result"))]
            /\ Persist(ok)
        BY <2>6, <3>1, <3>3 DEF WorkerResult
      <4>2. LogExplains(Moved(runs[r], Verdict(passed), Told("verification_result")))
        <5>1. /\ Verdict(passed) \in RunStates \ {"absent"}
              /\ Told("verification_result").by = "api"
              /\ Told("verification_result").kind \in Explains(Verdict(passed))
          BY DEF Verdict, Verdicts, RunStates, Explains, Told
        <5> QED  BY <5>1, MovedExplained, EventTypes DEF TypeOK
      <4>3. \A q \in Runs : LogExplains(runs'[q])
        BY <4>1, <4>2 DEF TypeOK, StateFollowsLog
      <4> QED  BY <4>1, <4>3, ExplainedFile
    <3> QED  BY <3>2, <3>3
  <2>7. ASSUME Restart PROVE StateFollowsLog'
    <3>1. ASSUME NEW r \in Runs PROVE LogExplains(Requeued(disk.runs[r]))
      <4>1. disk.runs[r] \in RunRecord /\ LogExplains(disk.runs[r])
        BY DEF TypeOK, Tables, StateFollowsLog
      <4>2. /\ Told("run_requeued").by = "api"
            /\ Told("run_requeued").kind \in Explains("queued")
        BY DEF Explains, Verdicts, Told
      <4> QED
        BY <4>1, <4>2, UnassignedExplained, MovedExplained, EventTypes
        DEF Requeued, RunStates
    <3>2. \A r \in Runs : LogExplains(RecoveredRuns(disk.runs, disk.workers)[r])
      BY <3>1 DEF RecoveredRuns, StateFollowsLog
    <3> QED  BY <2>7, <3>2 DEF Restart, StateFollowsLog
  <2>8. CASE UNCHANGED planeVars
    BY <2>8 DEF planeVars, StateFollowsLog
  <2> QED
    BY <2>1, <2>2, <2>3, <2>4, <2>5, <2>6, <2>7, <2>8 DEF Next
<1> QED  BY <1>1, <1>2, TypeCorrect, PTL DEF Spec

-----------------------------------------------------------------------------
(* The refinement.  A worker that is idle has no run, so start_run accepts *)
(* a run into the ledger; a result releases one worker, a restart all of   *)
(* them, because recovery leaves no run with a worker that is not there.   *)
THEOREM LedgerTheorem == Spec => LedgerSpec
<1> DEFINE held == [w \in Workers |-> workers[w].run]
           seen == issued \cap Runs
<1>1. Init => Ledger!Init
  BY DEF Init, Ledger!Init, AbsentWorker
<1>2. TypeOK /\ SoundInv /\ [Next]_planeVars => [Ledger!Next]_(Ledger!ledgerVars)
  <2> SUFFICES ASSUME TypeOK, SoundInv, [Next]_planeVars
               PROVE  Ledger!Next \/ (seen' = seen /\ held' = held)
    BY DEF Ledger!ledgerVars
  <2>1. ASSUME NEW r \in Runs, NEW ok \in BOOLEAN, StartRun(r, ok) PROVE Ledger!Accept(r)
    <3>1. r \notin seen /\ seen' = seen \cup {r}
      BY <2>1 DEF StartRun
    <3>2. \/ held' = held
          \/ \E w \in Workers : held[w] = None /\ held' = [held EXCEPT ![w] = r]
      <4>1. CASE UNCHANGED workers
        BY <4>1
      <4>2. CASE \E w \in Idle : workers' = [workers EXCEPT ![w] = BusyWith(w, r)]
        <5>1. PICK w \in Idle : workers' = [workers EXCEPT ![w] = BusyWith(w, r)]
          BY <4>2
        <5>2. w \in Workers /\ workers[w].run = None
          BY <5>1 DEF Idle, SoundInv, Sound, Consistent
        <5>3. held' = [held EXCEPT ![w] = r]
          BY <5>1, <5>2 DEF TypeOK, BusyWith
        <5> QED  BY <5>2, <5>3
      <4> QED  BY <2>1, <4>1, <4>2 DEF StartRun
    <3> QED  BY <3>1, <3>2 DEF Ledger!Accept
  <2>2. ASSUME NEW r \in Runs, NEW ok \in BOOLEAN, SubmitRun(r, ok)
        PROVE  seen' = seen /\ held' = held
    BY <2>2 DEF SubmitRun
  <2>3. ASSUME NEW w \in Workers, NEW ok \in BOOLEAN, RegisterWorker(w, ok)
        PROVE  Ledger!Next \/ (seen' = seen /\ held' = held)
    <3>1. held' = held
      BY <2>3 DEF RegisterWorker, TypeOK, SoundInv, Sound, Known, Consistent
    <3>2. CASE w \in Runs
      BY <2>3, <3>1, <3>2 DEF RegisterWorker, Ledger!Next, Ledger!Accept
    <3>3. CASE w \notin Runs
      BY <2>3, <3>1, <3>3 DEF RegisterWorker
    <3> QED  BY <3>2, <3>3
  <2>4. ASSUME NEW w \in Workers, NEW ok \in BOOLEAN, WorkerHeartbeat(w, ok)
        PROVE  seen' = seen /\ held' = held
    BY <2>4 DEF WorkerHeartbeat, TypeOK, WorkerRecord
  <2>5. ASSUME NEW w \in Workers, NEW kind \in Kinds, NEW ok \in BOOLEAN,
               WorkerEvent(w, kind, ok)
        PROVE  seen' = seen /\ held' = held
    BY <2>5 DEF WorkerEvent
  <2>6. ASSUME NEW w \in Workers, NEW passed \in BOOLEAN, NEW ok \in BOOLEAN,
               WorkerResult(w, passed, ok)
        PROVE  Ledger!Release(w)
    BY <2>6 DEF WorkerResult, Freed, TypeOK, Ledger!Release
  <2>7. ASSUME Restart PROVE Ledger!ReleaseAll
    <3>1. \A w \in Workers : RecoveredWorkers(disk.workers)[w].run = None
      BY DEF RecoveredWorkers, SoundInv, Sound, Consistent
    <3> QED  BY <2>7, <3>1 DEF Restart, Ledger!ReleaseAll
  <2>8. CASE UNCHANGED planeVars
    BY <2>8 DEF planeVars
  <2> QED
    BY <2>1, <2>2, <2>3, <2>4, <2>5, <2>6, <2>7, <2>8 DEF Next, Ledger!Next
<1> QED  BY <1>1, <1>2, TypeCorrect, SoundCorrect, PTL DEF Spec, LedgerSpec, Ledger!Spec
=============================================================================
