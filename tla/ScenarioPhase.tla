---------------------------- MODULE ScenarioPhase ----------------------------
(* scenario_phase.py: a phase of a declarative scenario runs its plan step *)
(* by step against the incident host.  What the controller sent before the *)
(* repair is kept in its state file, out of the agent's reach, and asked    *)
(* for again in every later phase.                                         *)
EXTENDS Integers, Sequences, FiniteSets

CONSTANTS
  Absent,          \* no phase, no key, no file
  PreflightSteps,  \* the steps that confirm the incident
  VerifySteps      \* the steps of each verification phase

AllSteps == {PreflightSteps[i] : i \in DOMAIN PreflightSteps}
            \cup {VerifySteps[i] : i \in DOMAIN VerifySteps}

StepCategories == {s.category : s \in AllSteps}

(* A step names a category of its own, not the one the harness excuses.    *)
ASSUME StepsAssumption ==
  /\ PreflightSteps \in Seq(AllSteps) /\ VerifySteps \in Seq(AllSteps)
  /\ "guest_boot_infrastructure_failed" \notin StepCategories

(* What a step keeps of its requests, and which keys a step follows up.    *)
RecordedBy(s)   == IF s.type = "concurrent_http" THEN {s.all, s.failed} \ {Absent} ELSE {}
Replays(s, key) == s.type = "replay_http" /\ s.repaired /\ s.from = key
Asks(s)         == s.type \in {"wait_http", "replay_http"} /\ s.repaired

FollowedUp(steps) ==
  \A i \in DOMAIN steps : \A key \in RecordedBy(steps[i]) :
    \E j \in DOMAIN steps : j > i /\ Replays(steps[j], key)

(* Verification asks for the repaired service, for whatever was kept of    *)
(* the incident, and for what it keeps itself.                             *)
ASSUME BacklogAssumption ==
  /\ \E i \in DOMAIN VerifySteps : Asks(VerifySteps[i])
  /\ \A i \in DOMAIN PreflightSteps : \A key \in RecordedBy(PreflightSteps[i]) :
       \E j \in DOMAIN VerifySteps : Replays(VerifySteps[j], key)
  /\ FollowedUp(VerifySteps)

VARIABLES
  host,      \* the incident host: is it up, how far repaired, what it lost
  phase,     \* the running phase: name, steps left, requests pending
  recorded,  \* scenario-state.json: the requests kept under a key
  failed     \* phase-failure.json: the category of the step that failed

phaseVars == <<phase, recorded, failed>>

(* How long a repair lasts.                                                *)
Broken  == 0
Running == 1   \* until the service restarts
Enabled == 2   \* until the host reboots
Durable == 3

Works == host.up /\ host.fix > Broken

StepsOf(name) == IF name = "preflight" THEN PreflightSteps ELSE VerifySteps
StepNow       == Head(phase.left)
Kept(key)     == IF key \in DOMAIN recorded THEN recorded[key] ELSE {}
Keep(state, key, requests) ==
  IF key = Absent THEN state
  ELSE [k \in DOMAIN state \cup {key} |-> IF k = key THEN requests ELSE state[k]]

(* A step describes the answers of the repaired service or, to confirm the *)
(* incident, those of the broken one.                                      *)
Meets      == IF StepNow.repaired THEN Works ELSE host.up /\ ~ Works
Answers(r) == Meets /\ (StepNow.repaired => r \notin host.lost)

PhaseInit == phase = Absent /\ recorded = << >> /\ failed = Absent

(* The failure file of an earlier phase is removed.                        *)
PhaseBegins(name) ==
  /\ phase = Absent
  /\ phase' = [name |-> name, left |-> StepsOf(name), pending |-> Absent, ok |-> TRUE]
  /\ failed' = Absent
  /\ UNCHANGED recorded

At(type)   == phase # Absent /\ phase.ok /\ phase.left # <<>> /\ StepNow.type = type
StepPasses == phase' = [phase EXCEPT !.left = Tail(@), !.pending = Absent] /\ UNCHANGED failed
StepFails  == phase' = [phase EXCEPT !.ok = FALSE] /\ failed' = StepNow.category

(* wait_http: asked again and again until it answers or time is up.        *)
Waits ==
  /\ At("wait_http")
  /\ IF Meets THEN StepPasses ELSE StepFails
  /\ UNCHANGED recorded

(* concurrent_http: new requests at once; a broken service answers some.   *)
(* What was sent or what failed is kept although the step fails.           *)
Concurrent ==
  /\ At("concurrent_http")
  /\ \E good \in IF Meets THEN {StepNow.requests} ELSE SUBSET StepNow.requests :
       /\ recorded' = Keep(Keep(recorded, StepNow.all, StepNow.requests),
                           StepNow.failed, StepNow.requests \ good)
       /\ IF Cardinality(good) \in StepNow.min..StepNow.max THEN StepPasses ELSE StepFails

(* replay_http: what was kept is asked for until all of it was answered.   *)
ReplayBegins ==
  /\ At("replay_http") /\ phase.pending = Absent
  /\ IF Kept(StepNow.from) = {}
     THEN StepFails
     ELSE phase' = [phase EXCEPT !.pending = Kept(StepNow.from)] /\ UNCHANGED failed
  /\ UNCHANGED recorded

(* A bug: the first round ends the step, whatever was answered.            *)
OneRound(pending) == {}

Unanswered(pending) == {r \in pending : ~ Answers(r)}

ReplayRound ==
  /\ At("replay_http") /\ phase.pending # Absent
  /\ LET left == Unanswered(phase.pending)
     IN  \/ left = {} /\ StepPasses
         \/ left # {} /\ phase' = [phase EXCEPT !.pending = left] /\ UNCHANGED failed
         \/ left # {} /\ StepFails
  /\ UNCHANGED recorded

PhaseStep == Waits \/ Concurrent \/ ReplayBegins \/ ReplayRound

Passed(name) == phase # Absent /\ phase.name = name /\ phase.ok /\ phase.left = <<>>
Failed(name) == phase # Absent /\ phase.name = name /\ ~ phase.ok
=============================================================================
