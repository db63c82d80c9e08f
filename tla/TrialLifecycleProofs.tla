------------------------- MODULE TrialLifecycleProofs -------------------------
(***************************************************************************)
(* Theorems about one trial, for any plan of steps whose categories are    *)
(* their own, any requests that may be lost and any number of boots.       *)
(***************************************************************************)
EXTENDS TrialLifecycle, TLAPS, SequenceTheorems

Early  == {"boot", "confirm", "stage", "agent", "capture", "judge"}
Chain1 == {"verify", "immediate"}
Chain2 == {"restart", "restarted", "restart check"}
Chain3 == {"reboot", "going down", "coming up", "services", "rebooted", "reboot check"}
Chain  == Chain1 \cup Chain2 \cup Chain3

(* A running phase runs the steps of its plan, at its place.               *)
PhaseShape ==
  phase # Absent =>
    {"name", "left", "pending", "ok"} \subseteq DOMAIN phase /\ phase.left \in Seq(AllSteps)

PhaseAt ==
  phase # Absent =>
    /\ phase.name = "immediate" => place = "immediate"
    /\ phase.name = "service_restart" => place = "restart check"
    /\ phase.name = "host_reboot" => place = "reboot check"

FailedKept ==
  /\ failed \in StepCategories \cup {Absent}
  /\ phase # Absent /\ ~ phase.ok => failed \in StepCategories

(* Until something is found nothing is said; what was verified is what the *)
(* place has behind it.                                                    *)
Undecided ==
  /\ {"reward", "status", "category", "verified"} \subseteq DOMAIN verdict
  /\ place \in Early \cup Chain =>
       verdict.reward = 0 /\ verdict.status = "evaluated" /\ after = Absent
  /\ place \in Chain /\ TimedOut => verdict.category = "agent_timeout"
  /\ place \in Early \cup Chain1 => verdict.verified = {}
  /\ place \in Chain2 => verdict.verified = {"immediate"}
  /\ place \in Chain3 => verdict.verified = {"immediate", "service_restart"}

Excuse(v) ==
  \/ Unstarted(taken) /\ v.verified = {}
  \/ v.category = "agent_result_missing" /\ run.status # 0 /\ v.verified = {} /\ ~ TimedOut
  \/ "no store" \in console /\ v.verified = {"immediate", "service_restart"}

Explained(v, a) ==
  /\ (a # Absent) <=> TimedOut
  /\ TimedOut => v.category = "agent_timeout" /\ v.reward = 0
  /\ v.status = "unavailable" => v.reward = 0 /\ Excuse(v)
  /\ a # Absent /\ a.durable => v.verified = LifecyclePhases

Found    == place = "write" => Explained(verdict, after)
Recorded == result # Absent => place = "done" /\ Explained(result.verdict, result.after)

TrialInv == PhaseShape /\ PhaseAt /\ FailedKept /\ Undecided /\ Found /\ Recorded

(* What is known of the verdict does not change with the host, nor with a  *)
(* report that arrives where there was none.                               *)
LEMMA StaysExplained ==
  ASSUME NEW v, NEW a, Explained(v, a), run' = run, console \subseteq console',
         taken' = taken \/ taken = Absent
  PROVE  Explained(v, a)'
<1>1. Unstarted(taken) => taken' = taken
  <2>1. ~ Unstarted(Absent)
    BY AbsentAssumption DEF Unstarted
  <2> QED  BY <2>1
<1>2. TimedOut' <=> TimedOut
  BY DEF TimedOut
<1>3. Excuse(v) => Excuse(v)'
  BY <1>1, <1>2 DEF Excuse, Unstarted
<1> QED  BY <1>2, <1>3 DEF Explained

(* A step that leaves the controller where it is.                          *)
LEMMA ControllerStays ==
  ASSUME TrialInv, UNCHANGED controllerVars, console \subseteq console',
         PhaseShape', FailedKept',
         phase' # Absent => phase # Absent /\ phase'.name = phase.name
  PROVE  TrialInv'
<1> USE DEF TrialInv, controllerVars
<1>1. TimedOut' <=> TimedOut
  BY DEF TimedOut
<1>2. PhaseAt' /\ Undecided'
  BY <1>1 DEF PhaseAt, Undecided
<1>3. Found'
  <2>1. Explained(verdict, after) => Explained(verdict, after)'
    BY StaysExplained
  <2> QED  BY <2>1 DEF Found
<1>4. Recorded'
  <2>1. result # Absent => Explained(result.verdict, result.after)'
    BY StaysExplained DEF Recorded
  <2> QED  BY <2>1 DEF Recorded
<1> QED  BY <1>2, <1>3, <1>4

(* A step that only moves the controller on, before anything is found.     *)
LEMMA ControllerMoves ==
  ASSUME TrialInv, NEW from \in Early \cup Chain, NEW to, Goes(from, to), to \notin {"write", "done"},
         UNCHANGED console, PhaseShape', FailedKept', PhaseAt',
         to \in Early \cup Chain1 => from \in Early \cup Chain1,
         to \in Chain2 => from \in Chain2, to \in Chain3 => from \in Chain3,
         to \in Chain => from \in Chain
  PROVE  TrialInv'
<1> USE DEF TrialInv
<1>1. /\ place = from /\ place' = to
      /\ UNCHANGED <<oracle, run, taken, verdict, after, log, result>>
  BY DEF Goes
<1>2. TimedOut' <=> TimedOut
  BY <1>1 DEF TimedOut
<1>3. result = Absent
  BY <1>1 DEF Recorded, Early, Chain, Chain1, Chain2, Chain3
<1>4. Undecided'
  BY <1>1, <1>2 DEF Undecided, Chain
<1> QED  BY <1>1, <1>3, <1>4 DEF Found, Recorded

(* What is found at the end of a verification.                             *)
LEMMA FindingExplains ==
  ASSUME TrialInv, place \in Chain, NEW verified, NEW passed \in BOOLEAN,
         NEW category \in Categories \cup {Absent}, Finding(verified, passed, category), console' = console,
         PhaseShape', FailedKept', PhaseAt',
         passed => verified = LifecyclePhases,
         category = "guest_boot_infrastructure_failed" =>
           /\ ~ passed /\ "no store" \in console
           /\ verified = {"immediate", "service_restart"}
  PROVE  TrialInv'
<1> USE DEF TrialInv
<1>1. place' = "write" /\ UNCHANGED <<oracle, run, taken, result>>
  BY DEF Finding
<1>2. result = Absent
  BY DEF Recorded, Chain, Chain1, Chain2, Chain3
<1>3. TimedOut' <=> TimedOut
  BY <1>1 DEF TimedOut
<1>4. /\ verdict.reward = 0 /\ verdict.status = "evaluated" /\ after = Absent
      /\ TimedOut => verdict.category = "agent_timeout"
      /\ {"reward", "status", "category", "verified"} \subseteq DOMAIN verdict
  BY DEF Undecided
<1>5. CASE TimedOut
  <2>1. /\ after' = [durable |-> passed, category |-> category]
        /\ verdict' = [verdict EXCEPT !.verified = verified]
    BY <1>5 DEF Finding
  <2>2. after' # Absent /\ after'.durable = passed
    <3>1. after' \in [durable : BOOLEAN, category : Categories \cup {Absent}]
      BY <2>1
    <3> QED  BY <2>1, <3>1, AbsentAssumption
  <2>3. /\ verdict'.reward = 0 /\ verdict'.status = "evaluated"
        /\ verdict'.category = "agent_timeout" /\ verdict'.verified = verified
        /\ DOMAIN verdict' = DOMAIN verdict
    BY <1>4, <1>5, <2>1
  <2>4. Explained(verdict, after)'
    BY <1>3, <1>5, <2>2, <2>3 DEF Explained
  <2> QED
    BY <1>1, <1>2, <1>4, <2>3, <2>4
    DEF PhaseAt, Undecided, Found, Recorded, Early, Chain, Chain1, Chain2, Chain3
<1>6. CASE ~ TimedOut
  <2>1. /\ verdict' = [verdict EXCEPT !.verified = verified, !.category = category,
                         !.reward = IF passed THEN 1 ELSE 0,
                         !.status = IF category = "guest_boot_infrastructure_failed"
                                    THEN "unavailable" ELSE @]
        /\ after' = after
    BY <1>6 DEF Finding
  <2>2. /\ DOMAIN verdict' = DOMAIN verdict /\ verdict'.verified = verified
        /\ verdict'.reward = IF passed THEN 1 ELSE 0
        /\ verdict'.status = IF category = "guest_boot_infrastructure_failed"
                             THEN "unavailable" ELSE "evaluated"
    BY <1>4, <2>1
  <2>3. verdict'.status = "unavailable" => verdict'.reward = 0 /\ Excuse(verdict)'
    BY <2>2 DEF Excuse
  <2>4. Explained(verdict, after)'
    BY <1>3, <1>4, <1>6, <2>1, <2>3 DEF Explained
  <2> QED
    BY <1>1, <1>2, <1>4, <2>2, <2>4
    DEF PhaseAt, Undecided, Found, Recorded, Early, Chain, Chain1, Chain2, Chain3
<1> QED  BY <1>5, <1>6

-----------------------------------------------------------------------------
(* The steps of a phase.                                                   *)
LEMMA PhaseRunsKeeps == TrialInv /\ PhaseRuns => TrialInv'
<1> SUFFICES ASSUME TrialInv, PhaseRuns PROVE TrialInv'
  OBVIOUS
<1>1. UNCHANGED controllerVars /\ console \subseteq console'
  BY DEF PhaseRuns, hostVars
<1>2. phase # Absent /\ phase.ok /\ phase.left # <<>>
  BY DEF PhaseRuns, PhaseStep, Waits, Concurrent, ReplayBegins, ReplayRound, At
<1>3. \/ StepPasses \/ StepFails
      \/ \E p : phase' = [phase EXCEPT !.pending = p] /\ UNCHANGED failed
  BY Zenon DEF PhaseRuns, PhaseStep, Waits, Concurrent, ReplayBegins, ReplayRound
<1>4. /\ {"name", "left", "pending", "ok"} \subseteq DOMAIN phase
      /\ phase.left \in Seq(AllSteps) /\ failed \in StepCategories \cup {Absent}
  BY <1>2 DEF TrialInv, PhaseShape, FailedKept
<1>5. Tail(phase.left) \in Seq(AllSteps) /\ StepNow.category \in StepCategories
  <2>1. phase.left[1] \in AllSteps /\ Head(phase.left) = phase.left[1]
    BY <1>2, <1>4, ElementOfSeq, HeadTailProperties, LenProperties
  <2>2. Tail(phase.left) \in Seq(AllSteps)
    BY <1>2, <1>4, HeadTailProperties
  <2> QED  BY <2>1, <2>2 DEF StepNow, StepCategories
<1>6. /\ DOMAIN phase' = DOMAIN phase /\ phase'.name = phase.name
      /\ phase'.left \in Seq(AllSteps)
      /\ \/ phase'.ok = phase.ok /\ failed' = failed
         \/ failed' \in StepCategories
  BY <1>3, <1>4, <1>5 DEF StepPasses, StepFails
<1>7. PhaseShape' /\ FailedKept'
  BY <1>2, <1>4, <1>6 DEF PhaseShape, FailedKept
<1> QED  BY <1>1, <1>2, <1>6, <1>7, ControllerStays

(* The steps that only move.                                               *)
LEMMA SamePhase ==
  ASSUME TrialInv, UNCHANGED phaseVars
  PROVE  PhaseShape' /\ FailedKept'
BY DEF TrialInv, PhaseShape, FailedKept, phaseVars

Starts(name) == PhaseBegins(name) /\ name \in LifecyclePhases \cup {"preflight"}

LEMMA PhaseStarts ==
  ASSUME TrialInv, NEW name, Starts(name)
  PROVE  PhaseShape' /\ FailedKept' /\ phase'.name = name
<1>1. /\ phase' = [name |-> name, left |-> StepsOf(name), pending |-> Absent, ok |-> TRUE]
      /\ failed' = Absent
  BY DEF Starts, PhaseBegins
<1>2. StepsOf(name) \in Seq(AllSteps)
  BY StepsAssumption DEF StepsOf
<1> QED  BY <1>1, <1>2 DEF PhaseShape, FailedKept

LEMMA MovesKeep ==
  ASSUME TrialInv,
         \/ Reached \/ Confirms \/ SetupFails \/ AgentStarts \/ CaptureFails
         \/ RestartsServices \/ OrdersReboot \/ SeenDown \/ SeenUp \/ ServicesUp
  PROVE  TrialInv'
<1> USE DEF Early, Chain, Chain1, Chain2, Chain3
<1>1. CASE Reached
  <2>1. Starts("preflight") /\ Goes("boot", "confirm") /\ UNCHANGED console
    BY <1>1 DEF Reached, Starts, hostVars
  <2>2. PhaseAt'
    <3>1. phase'.name = "preflight"
      BY <2>1, PhaseStarts
    <3> QED  BY <3>1 DEF PhaseAt
  <2> QED  BY <2>1, <2>2, PhaseStarts, ControllerMoves
<1>2. CASE Confirms
  <2>1. phase' = Absent /\ failed' = failed /\ Goes("confirm", "stage") /\ UNCHANGED console
    BY <1>2 DEF Confirms, hostVars
  <2>2. PhaseShape' /\ FailedKept' /\ PhaseAt'
    BY <2>1 DEF TrialInv, PhaseShape, FailedKept, PhaseAt
  <2> QED  BY <2>1, <2>2, ControllerMoves
<1>3. ASSUME NEW from \in {"boot", "stage", "capture"}, Moves(from, "aborted")
      PROVE  TrialInv'
  <2>1. Goes(from, "aborted") /\ UNCHANGED console /\ UNCHANGED phaseVars
    BY <1>3 DEF Moves, hostVars
  <2>2. place = from
    BY <2>1 DEF Goes
  <2>3. PhaseAt'
    BY <2>1, <2>2 DEF TrialInv, PhaseAt, phaseVars
  <2> QED  BY <2>1, <2>3, SamePhase, ControllerMoves
<1>4. CASE Failed("preflight") /\ Moves("confirm", "aborted")
  <2>1. Goes("confirm", "aborted") /\ UNCHANGED console /\ UNCHANGED phaseVars
    BY <1>4 DEF Moves, hostVars
  <2>2. PhaseAt'
    BY <1>4, <2>1 DEF TrialInv, PhaseAt, phaseVars, Failed
  <2> QED  BY <2>1, <2>2, SamePhase, ControllerMoves
<1>5. CASE AgentStarts
  <2>1. Goes("stage", "agent") /\ UNCHANGED console /\ UNCHANGED phaseVars
    BY <1>5 DEF AgentStarts
  <2>2. PhaseAt'
    BY <2>1 DEF TrialInv, PhaseAt, phaseVars, Goes
  <2> QED  BY <2>1, <2>2, SamePhase, ControllerMoves
<1>6. CASE RestartsServices
  <2>1. Goes("restart", "restarted") /\ UNCHANGED console /\ UNCHANGED phaseVars
    BY <1>6 DEF RestartsServices
  <2>2. PhaseAt'
    BY <2>1 DEF TrialInv, PhaseAt, phaseVars, Goes
  <2> QED  BY <2>1, <2>2, SamePhase, ControllerMoves
<1>7. CASE OrdersReboot
  <2>1. Goes("reboot", "going down") /\ UNCHANGED console /\ UNCHANGED phaseVars
    BY <1>7 DEF OrdersReboot
  <2>2. PhaseAt'
    BY <2>1 DEF TrialInv, PhaseAt, phaseVars, Goes
  <2> QED  BY <2>1, <2>2, SamePhase, ControllerMoves
<1>8. CASE SeenDown \/ SeenUp \/ ServicesUp
  <2>1. PICK from \in {"going down", "coming up", "services"},
             to \in {"coming up", "services", "rebooted"} : Moves(from, to)
    BY <1>8 DEF SeenDown, SeenUp, ServicesUp
  <2>2. Goes(from, to) /\ UNCHANGED console /\ UNCHANGED phaseVars
    BY <2>1 DEF Moves, hostVars
  <2>3. PhaseAt'
    BY <2>2 DEF TrialInv, PhaseAt, phaseVars, Goes
  <2> QED  BY <2>2, <2>3, SamePhase, ControllerMoves
<1> QED  BY <1>1, <1>2, <1>3, <1>4, <1>5, <1>6, <1>7, <1>8 DEF SetupFails, CaptureFails

(* From the agent to the verdict of the agent.                             *)
LEMMA AgentSteps ==
  ASSUME TrialInv, AgentEnds \/ Captures \/ JudgesAgent
  PROVE  TrialInv'
<1> USE DEF TrialInv
<1>1. UNCHANGED phaseVars /\ result' = result /\ place \in {"agent", "capture", "judge"}
  BY DEF AgentEnds, Captures, JudgesAgent
<1>2. result = Absent
  BY <1>1 DEF Recorded
<1>3. PhaseShape' /\ FailedKept' /\ PhaseAt'
  BY <1>1, SamePhase DEF PhaseAt, phaseVars
<1>4. CASE AgentEnds \/ Captures
  BY <1>1, <1>2, <1>3, <1>4
  DEF AgentEnds, Captures, Undecided, Found, Recorded, Early, Chain, Chain1, Chain2, Chain3
<1>5. CASE JudgesAgent
  <2>1. /\ place = "judge" /\ UNCHANGED <<run, taken, after, console, oracle>>
        /\ verdict.reward = 0 /\ verdict.status = "evaluated" /\ verdict.verified = {}
        /\ after = Absent /\ {"reward", "status", "category", "verified"} \subseteq DOMAIN verdict
    BY <1>5 DEF JudgesAgent, Undecided, Early, hostVars
  <2>2. TimedOut' <=> TimedOut
    BY <2>1 DEF TimedOut
  <2>3. CASE Succeeded
    <3>1. ~ TimedOut
      BY <2>3 DEF Succeeded, TimedOut
    <3>2. verdict' = verdict /\ place' = "verify"
      BY <1>5, <2>3 DEF JudgesAgent
    <3> QED
      BY <1>2, <1>1, <1>3, <2>1, <2>2, <3>1, <3>2
      DEF Undecided, Found, Recorded, Early, Chain, Chain1, Chain2, Chain3
  <2>4. CASE ~ Succeeded
    <3>1. /\ verdict' = [verdict EXCEPT !.status = AgentFailure.status,
                                       !.category = AgentFailure.category]
          /\ place' = IF TimedOut THEN "verify" ELSE "write"
      BY <1>5, <2>4 DEF JudgesAgent
    <3>2. /\ DOMAIN verdict' = DOMAIN verdict /\ verdict'.reward = 0 /\ verdict'.verified = {}
          /\ verdict'.status = AgentFailure.status /\ verdict'.category = AgentFailure.category
      BY <2>1, <3>1
    <3>3. CASE TimedOut
      <4>0. ~ ResultInvalid
        BY <3>3 DEF ResultInvalid, TimedOut
      <4>1. AgentFailure = [status |-> "evaluated", category |-> "agent_timeout"]
        BY <3>3, <4>0, Zenon DEF AgentFailure, Evaluated
      <4>2. verdict'.status = "evaluated" /\ verdict'.category = "agent_timeout"
        BY <3>2, <4>1
      <4> QED
        BY <1>1, <1>2, <1>3, <2>1, <2>2, <3>1, <3>2, <3>3, <4>2
        DEF Undecided, Found, Recorded, Early, Chain, Chain1, Chain2, Chain3
    <3>4. CASE ~ TimedOut
      <4>1. AgentFailure.status = "unavailable" =>
              \/ Unstarted(taken)
              \/ AgentFailure.category = "agent_result_missing" /\ run.status # 0
        BY <3>4 DEF AgentFailure, Evaluated, Unavailable, Outcome, ResultMissing
      <4>2. verdict'.status = "unavailable" => Excuse(verdict)'
        BY <2>1, <2>2, <3>2, <3>4, <4>1 DEF Excuse
      <4>3. Explained(verdict, after)'
        BY <2>1, <2>2, <3>2, <3>4, <4>2 DEF Explained
      <4> QED
        BY <1>1, <1>2, <1>3, <2>1, <3>1, <3>2, <3>4, <4>3
        DEF Undecided, Found, Recorded, Early, Chain, Chain1, Chain2, Chain3
    <3> QED  BY <3>3, <3>4
  <2> QED  BY <2>3, <2>4
<1> QED  BY <1>4, <1>5

(* The verification.                                                       *)
LEMMA FallsKeep ==
  ASSUME TrialInv, RestartFails \/ NotSeenDown \/ NotSeenUp \/ ServicesFail
  PROVE  TrialInv'
<1> USE DEF Chain, Chain1, Chain2, Chain3
<1>1. ASSUME NEW from \in Chain \ {"immediate", "restart check", "reboot check"},
             NEW category \in Categories \cup {Absent}, Falls(from, category),
             category = "guest_boot_infrastructure_failed" =>
               "no store" \in console /\ from = "coming up"
      PROVE  TrialInv'
  <2>1. /\ place = from /\ Finding(verdict.verified, FALSE, category)
        /\ UNCHANGED phaseVars /\ UNCHANGED console
    BY <1>1 DEF Falls, hostVars
  <2>2. from = "coming up" => verdict.verified = {"immediate", "service_restart"}
    BY <2>1 DEF TrialInv, Undecided
  <2>3. PhaseAt'
    BY <2>1 DEF TrialInv, PhaseAt, phaseVars
  <2> QED  BY <1>1, <2>1, <2>2, <2>3, SamePhase, FindingExplains
<1> QED
  <2>1. CASE RestartFails
    BY <1>1, <2>1, AbsentAssumption DEF RestartFails, Categories
  <2>2. CASE NotSeenDown \/ ServicesFail
    BY <1>1, <2>2 DEF NotSeenDown, ServicesFail, Categories
  <2>3. CASE NotSeenUp
    BY <1>1, <2>3 DEF NotSeenUp, Categories
  <2> QED  BY <2>1, <2>2, <2>3

LEMMA PhasesKeep ==
  ASSUME TrialInv,
         \/ Verifies("immediate", "verify", "immediate")
         \/ PhasePasses("immediate", "immediate", "restart")
         \/ Verifies("service_restart", "restarted", "restart check")
         \/ PhasePasses("service_restart", "restart check", "reboot")
         \/ Verifies("host_reboot", "rebooted", "reboot check")
         \/ LastPhasePasses
         \/ \E name \in LifecyclePhases : PhaseFails(name)
  PROVE  TrialInv'
<1> USE DEF TrialInv, Early, Chain, Chain1, Chain2, Chain3
<1>1. ASSUME NEW name, NEW from, NEW to, Verifies(name, from, to),
             <<name, from, to>> \in {<<"immediate", "verify", "immediate">>,
                                     <<"service_restart", "restarted", "restart check">>,
                                     <<"host_reboot", "rebooted", "reboot check">>}
      PROVE  TrialInv'
  <2>1. /\ place = from /\ place' = to /\ Starts(name)
        /\ UNCHANGED <<run, taken, verdict, after, result, console, oracle>>
    BY <1>1 DEF Verifies, Starts, LifecyclePhases, hostVars
  <2>2. PhaseShape' /\ FailedKept' /\ phase'.name = name
    BY <2>1, PhaseStarts
  <2>3. PhaseAt'
    BY <1>1, <2>1, <2>2 DEF PhaseAt
  <2>4. TimedOut' <=> TimedOut
    BY <2>1 DEF TimedOut
  <2>5. result = Absent
    BY <1>1, <2>1 DEF Recorded
  <2>6. Undecided'
    BY <1>1, <2>1, <2>4 DEF Undecided
  <2> QED  BY <1>1, <2>1, <2>2, <2>3, <2>5, <2>6 DEF Found, Recorded
<1>2. ASSUME NEW name, NEW from, NEW to, PhasePasses(name, from, to),
             <<name, from, to>> \in {<<"immediate", "immediate", "restart">>,
                                     <<"service_restart", "restart check", "reboot">>}
      PROVE  TrialInv'
  <2>1. /\ place = from /\ place' = to /\ phase' = Absent /\ failed' = failed
        /\ verdict' = [verdict EXCEPT !.verified = @ \cup {name}]
        /\ UNCHANGED <<run, taken, after, result, console, oracle>>
    BY <1>2 DEF PhasePasses, PhaseDone, hostVars
  <2>2. PhaseShape' /\ FailedKept' /\ PhaseAt'
    BY <2>1 DEF PhaseShape, FailedKept, PhaseAt
  <2>3. TimedOut' <=> TimedOut
    BY <2>1 DEF TimedOut
  <2>4. result = Absent
    BY <1>2, <2>1 DEF Recorded
  <2>5. /\ DOMAIN verdict' = DOMAIN verdict
        /\ verdict'.reward = verdict.reward /\ verdict'.status = verdict.status
        /\ verdict'.category = verdict.category
        /\ verdict'.verified = verdict.verified \cup {name}
    BY <2>1 DEF Undecided
  <2>6. Undecided'
    BY <1>2, <2>1, <2>3, <2>5 DEF Undecided
  <2> QED  BY <1>2, <2>1, <2>2, <2>4, <2>6 DEF Found, Recorded
<1>3. CASE LastPhasePasses
  <2>1. /\ place = "reboot check" /\ phase' = Absent /\ failed' = failed
        /\ Finding(LifecyclePhases, TRUE, Absent) /\ console' = console
    BY <1>3 DEF LastPhasePasses, PhaseDone, hostVars
  <2>2. PhaseShape' /\ FailedKept' /\ PhaseAt'
    BY <2>1 DEF PhaseShape, FailedKept, PhaseAt
  <2>3. Absent # "guest_boot_infrastructure_failed"
    BY AbsentAssumption DEF Categories
  <2> QED  BY <2>1, <2>2, <2>3, FindingExplains
<1>4. ASSUME NEW name \in LifecyclePhases, PhaseFails(name)
      PROVE  TrialInv'
  <2>1. /\ phase # Absent /\ phase.name = name /\ ~ phase.ok
        /\ phase' = Absent /\ failed' = failed /\ console' = console
        /\ Finding(verdict.verified, FALSE, failed)
    BY <1>4 DEF PhaseFails, Failed, hostVars
  <2>2. place \in Chain
    BY <1>4, <2>1 DEF PhaseAt, LifecyclePhases
  <2>3. PhaseShape' /\ FailedKept' /\ PhaseAt'
    BY <2>1 DEF PhaseShape, FailedKept, PhaseAt
  <2>4. failed \in Categories /\ failed # "guest_boot_infrastructure_failed"
    BY <2>1, StepsAssumption DEF FailedKept, Categories
  <2> QED  BY <2>1, <2>2, <2>3, <2>4, FindingExplains
<1> QED  BY <1>1, <1>2, <1>3, <1>4

LEMMA ResultKeeps == TrialInv /\ WritesResult => TrialInv'
<1> SUFFICES ASSUME TrialInv, WritesResult PROVE TrialInv'
  OBVIOUS
<1> USE DEF TrialInv
<1>1. /\ place = "write" /\ place' = "done" /\ UNCHANGED <<run, console, verdict, after, oracle>>
      /\ UNCHANGED phaseVars
      /\ taken' = taken \/ taken = Absent
      /\ result' = [verdict |-> verdict, after |-> after, usage |-> taken']
  BY DEF WritesResult, hostVars
<1>2. Explained(verdict, after)'
  BY <1>1, StaysExplained DEF Found
<1>3. PhaseShape' /\ FailedKept' /\ PhaseAt'
  BY <1>1, SamePhase DEF PhaseAt, phaseVars
<1>4. Recorded'
  BY <1>1, <1>2 DEF Recorded
<1> QED
  BY <1>1, <1>3, <1>4 DEF Undecided, Found, Early, Chain, Chain1, Chain2, Chain3

LEMMA HostKeeps == TrialInv /\ (AgentStep \/ HostStep) => TrialInv'
<1> SUFFICES ASSUME TrialInv, AgentStep \/ HostStep PROVE TrialInv'
  OBVIOUS
<1>1. UNCHANGED phaseVars /\ UNCHANGED controllerVars /\ console \subseteq console'
  BY DEF AgentStep, HostStep, Repairs, Destroys, WritesReport, RunsOutOfMemory, AgentActs,
         ComesUp, LosesStore, GoesDown, HostOnly
<1> QED  BY <1>1, SamePhase, ControllerStays DEF phaseVars

LEMMA TrialInvCorrect == TrialSpec => []TrialInv
<1>1. TrialInit => TrialInv
  BY DEF TrialInit, PhaseInit, TrialInv, PhaseShape, PhaseAt, FailedKept, Undecided, Found,
         Recorded, Early, Chain, Chain1, Chain2, Chain3
<1>2. TrialInv /\ [TrialNext]_trialVars => TrialInv'
  <2> SUFFICES ASSUME TrialInv, [TrialNext]_trialVars PROVE TrialInv'
    OBVIOUS
  <2>1. CASE UNCHANGED trialVars
    BY <2>1, SamePhase, ControllerStays DEF trialVars, phaseVars, hostVars
  <2>2. CASE TrialStep
    BY <2>2, MovesKeep, AgentSteps, FallsKeep, PhasesKeep, ResultKeeps, PhaseRunsKeeps
    DEF TrialStep, VerifyStep
  <2> QED  BY <2>1, <2>2, HostKeeps DEF TrialNext
<1> QED  BY <1>1, <1>2, PTL DEF TrialSpec

(* A verdict is explained by what happened: a timeout is judged one and    *)
(* gets no reward whatever is found of its repair, and nothing is excused  *)
(* but for the three causes the harness has (run-host-native.sh).          *)
THEOREM VerdictCorrect == TrialSpec => []VerdictIsExplained
<1>1. TrialInv => VerdictIsExplained
  <2> SUFFICES ASSUME TrialInv, result # Absent PROVE VerdictIsExplained
    BY DEF VerdictIsExplained
  <2>1. Explained(result.verdict, result.after)
    BY DEF TrialInv, Recorded
  <2>2. Excuse(result.verdict) => Excused
    BY DEF Excuse, Excused
  <2>3. (result.after # Absent) = TimedOut
    BY <2>1 DEF Explained, TimedOut
  <2> QED  BY <2>1, <2>2, <2>3, Zenon DEF Explained, VerdictIsExplained
<1> QED  BY <1>1, TrialInvCorrect, PTL
-----------------------------------------------------------------------------
(* The host.  Before the agent works it has booted once; once it has gone  *)
(* down nobody acts on it any more and what it was repaired to is either   *)
(* lost or durable.                                                        *)
Hosts == [up : BOOLEAN, fix : Broken .. Durable, lost : SUBSET Lossable, boots : Nat,
          active : BOOLEAN, rebooting : BOOLEAN]

Before == {"boot", "confirm", "stage"}

Fallen == host.boots > 1 \/ (~ host.up /\ host.boots > 0)

HostInv ==
  /\ host \in Hosts
  /\ host.up => host.boots > 0
  /\ place \in Before => session = "none"
  /\ session = "none" =>
       /\ place \in Before \cup {"aborted"} /\ ~ host.rebooting
       /\ host.boots = 0 \/ (host.up /\ host.boots = 1)
  /\ place \in {"confirm", "stage"} \/ session # "none" => host.boots > 0
  /\ Fallen => session = "gone" /\ host.fix \in {Broken, Durable}

(* What the controller does to the host.                                   *)
LEMMA ControllerOnHost ==
  ASSUME TrialInv, TrialStep
  PROVE  \/ Reached \/ Confirms \/ SetupFails \/ AgentStarts \/ AgentEnds
         \/ RestartsServices \/ OrdersReboot
         \/ UNCHANGED <<host, session, place>>
         \/ /\ UNCHANGED <<host, session>>
            /\ place \notin Before \cup {"aborted"} /\ place' \notin Before
<1> USE DEF Before
<1>1. CASE PhaseRuns
  BY <1>1 DEF PhaseRuns, hostVars, controllerVars
<1>2. CASE Captures \/ CaptureFails \/ JudgesAgent \/ WritesResult
  BY <1>2 DEF Captures, CaptureFails, JudgesAgent, WritesResult, Moves, Goes, hostVars
<1>3. ASSUME NEW name \in LifecyclePhases, PhaseFails(name)
      PROVE  UNCHANGED <<host, session>> /\ place \in Chain /\ place' = "write"
  <2>1. phase # Absent /\ phase.name = name
    BY <1>3 DEF PhaseFails, Failed
  <2>2. place \in Chain
    BY <2>1 DEF TrialInv, PhaseAt, LifecyclePhases, Chain, Chain1, Chain2, Chain3
  <2> QED  BY <1>3, <2>2 DEF PhaseFails, Finding, hostVars
<1>5. CASE RestartFails \/ NotSeenDown \/ NotSeenUp \/ ServicesFail
  BY <1>5 DEF RestartFails, NotSeenDown, NotSeenUp, ServicesFail, Falls, Finding, hostVars
<1>6. CASE \/ Verifies("immediate", "verify", "immediate")
           \/ PhasePasses("immediate", "immediate", "restart")
           \/ Verifies("service_restart", "restarted", "restart check")
           \/ PhasePasses("service_restart", "restart check", "reboot")
           \/ Verifies("host_reboot", "rebooted", "reboot check")
           \/ LastPhasePasses
  BY <1>6 DEF Verifies, PhasePasses, PhaseDone, LastPhasePasses, Finding, hostVars
<1>7. CASE SeenDown \/ SeenUp \/ ServicesUp
  BY <1>7 DEF SeenDown, SeenUp, ServicesUp, Moves, Goes, hostVars
<1> QED
  BY <1>1, <1>2, <1>3, <1>5, <1>6, <1>7
  DEF TrialStep, VerifyStep, Chain, Chain1, Chain2, Chain3

LEMMA HostInvStep == TrialInv /\ HostInv /\ [TrialNext]_trialVars => HostInv'
<1> SUFFICES ASSUME TrialInv, HostInv, [TrialNext]_trialVars PROVE HostInv'
  OBVIOUS
<1> USE DEF HostInv, Hosts, Before, Fallen, Broken, Running, Durable
<1>1. CASE UNCHANGED <<host, session, place>>
  BY <1>1
<1>2. CASE AgentStep
  <2>1. session = "alive" /\ UNCHANGED <<session, place>>
    BY <1>2 DEF AgentStep, Repairs, Destroys, WritesReport, RunsOutOfMemory, AgentActs, HostOnly,
                controllerVars
  <2>2. CASE UNCHANGED host
    BY <2>1, <2>2
  <2>3. CASE Repairs
    <3>1. PICK fix \in Broken .. Durable : host' = [host EXCEPT !.fix = fix]
      BY <2>3 DEF Repairs
    <3>2. host' \in Hosts
      BY <3>1
    <3> QED  BY <2>1, <3>1, <3>2
  <2>4. CASE Destroys
    <3>1. PICK r \in Lossable : host' = [host EXCEPT !.lost = @ \cup {r}]
      BY <2>4 DEF Destroys
    <3>2. host' \in Hosts
      BY <3>1
    <3> QED  BY <2>1, <3>1, <3>2
  <2> QED  BY <1>2, <2>2, <2>3, <2>4 DEF AgentStep, WritesReport, RunsOutOfMemory
<1>3. CASE HostStep
  <2>1. UNCHANGED place
    BY <1>3 DEF HostStep, ComesUp, LosesStore, GoesDown, HostOnly, controllerVars
  <2>2. CASE ComesUp
    <3>1. PICK active \in BOOLEAN :
            host' = [host EXCEPT !.up = TRUE, !.boots = @ + 1, !.active = active]
      BY <2>2 DEF ComesUp
    <3>2. host' = [up |-> TRUE, fix |-> host.fix, lost |-> host.lost, boots |-> host.boots + 1,
                   active |-> active, rebooting |-> host.rebooting]
      BY <3>1
    <3>3. host' \in Hosts
      BY <3>2
    <3>4. ~ host.up /\ UNCHANGED session
      BY <2>2 DEF ComesUp
    <3>5. host'.boots = host.boots + 1 /\ host'.up /\ host'.rebooting = host.rebooting
          /\ host'.fix = host.fix /\ host.boots \in Nat
      BY <3>2
    <3> QED  BY <2>1, <3>3, <3>4, <3>5
  <2>3. CASE GoesDown
    <3>1. host' = [host EXCEPT !.up = FALSE, !.rebooting = FALSE,
                               !.fix = IF @ = Durable THEN @ ELSE Broken]
      BY <2>3 DEF GoesDown
    <3>3. host' = [up |-> FALSE, fix |-> IF host.fix = Durable THEN host.fix ELSE Broken,
                   lost |-> host.lost, boots |-> host.boots, active |-> host.active,
                   rebooting |-> FALSE]
      BY <3>1
    <3>2. host' \in Hosts /\ ~ host'.up /\ host'.boots = host.boots
          /\ host'.fix \in {Broken, Durable}
      BY <3>3
    <3> QED  BY <2>1, <2>3, <3>1, <3>2 DEF GoesDown
  <2> QED  BY <1>3, <2>1, <2>2, <2>3 DEF HostStep, LosesStore
<1>4. CASE Reached \/ Confirms \/ SetupFails \/ AgentStarts
  BY <1>4 DEF Reached, Confirms, SetupFails, AgentStarts, Moves, Goes, hostVars
<1>5. CASE AgentEnds
  BY <1>5 DEF AgentEnds
<1>6. CASE RestartsServices
  <2>1. host' = [host EXCEPT !.fix = IF @ = Running THEN Broken ELSE @]
    BY <1>6 DEF RestartsServices
  <2>2. /\ host' \in Hosts /\ host'.up = host.up /\ host'.boots = host.boots
        /\ host'.rebooting = host.rebooting
        /\ host.fix \in {Broken, Durable} => host'.fix = host.fix
    BY <2>1
  <2> QED  BY <1>6, <2>1, <2>2 DEF RestartsServices, Goes
<1>8. CASE OrdersReboot
  <2>1. PICK given \in BOOLEAN : host' = [host EXCEPT !.rebooting = given /\ host.up]
    BY <1>8 DEF OrdersReboot
  <2>2. host' \in Hosts /\ host'.up = host.up /\ host'.boots = host.boots /\ host'.fix = host.fix
    BY <2>1
  <2> QED  BY <1>8, <2>1, <2>2 DEF OrdersReboot, Goes
<1>7. CASE /\ UNCHANGED <<host, session>>
           /\ place \notin Before \cup {"aborted"} /\ place' \notin Before
  BY <1>7
<1> QED
  BY <1>1, <1>2, <1>3, <1>4, <1>5, <1>6, <1>7, <1>8, ControllerOnHost
  DEF TrialNext, trialVars, hostVars, controllerVars
-----------------------------------------------------------------------------
(* What the controller has seen.  A phase that began on a later boot found *)
(* a repair that was lost for good or durable.                             *)
Entries == [phase : LifecyclePhases, boots : Nat, fix : Broken .. Durable,
            lost : SUBSET Lossable]

Seen(e) ==
  /\ 0 < e.boots /\ e.boots <= host.boots /\ e.lost \subseteq host.lost
  /\ e.boots > 1 => e.fix \in {Broken, Durable} /\ (e.fix = Broken => host.fix = Broken)

Unlogged  == Early \cup {"verify"}
InFirst   == {"immediate", "restart", "restarted"}
InSecond  == {"restart check", "reboot", "going down", "coming up", "services", "rebooted"}
Groups    == {Unlogged, InFirst, InSecond}

LogInv ==
  /\ log \in Seq(Entries) /\ Len(log) <= 3
  /\ \A k \in 1 .. Len(log) : Seen(log[k]) /\ log[k].phase = Ordered[k]
  /\ place \in Unlogged => Len(log) = 0
  /\ place \in InFirst => Len(log) = 1
  /\ place \in InSecond => Len(log) = 2
  /\ place = "reboot check" => Len(log) = 3

LEMMA HostGrows ==
  ASSUME TrialInv, HostInv, [TrialNext]_trialVars
  PROVE  /\ host.boots <= host'.boots /\ host.lost \subseteq host'.lost
         /\ host.boots > 1 /\ host.fix = Broken => host'.fix = Broken
<1> USE DEF HostInv, Hosts, Fallen, Broken, Running, Durable
<1>1. CASE UNCHANGED host
  BY <1>1
<1>2. CASE Repairs
  <2>1. session = "alive" /\ \E fix : host' = [host EXCEPT !.fix = fix]
    BY <1>2 DEF Repairs, AgentActs
  <2> QED  BY <2>1
<1>3. CASE Destroys
  <2>1. \E r : host' = [host EXCEPT !.lost = @ \cup {r}]
    BY <1>3 DEF Destroys
  <2> QED  BY <2>1
<1>4. CASE ComesUp
  <2>1. PICK active \in BOOLEAN :
          host' = [host EXCEPT !.up = TRUE, !.boots = @ + 1, !.active = active]
    BY <1>4 DEF ComesUp
  <2>2. host'.boots = host.boots + 1 /\ host'.lost = host.lost /\ host'.fix = host.fix
    BY <2>1
  <2> QED  BY <2>2
<1>5. CASE GoesDown
  <2>1. host' = [host EXCEPT !.up = FALSE, !.rebooting = FALSE,
                             !.fix = IF @ = Durable THEN @ ELSE Broken]
    BY <1>5 DEF GoesDown
  <2> QED  BY <2>1
<1>6. CASE RestartsServices
  <2>1. host' = [host EXCEPT !.fix = IF @ = Running THEN Broken ELSE @]
    BY <1>6 DEF RestartsServices
  <2> QED  BY <2>1
<1>7. CASE OrdersReboot
  <2>1. \E given : host' = [host EXCEPT !.rebooting = given]
    BY <1>7 DEF OrdersReboot
  <2> QED  BY <2>1
<1>8. CASE TrialStep
  <2>1. UNCHANGED host \/ RestartsServices \/ OrdersReboot
    BY <1>8, ControllerOnHost
    DEF Reached, Confirms, SetupFails, AgentStarts, AgentEnds, Moves, hostVars
  <2> QED  BY <2>1, <1>1, <1>6, <1>7
<1> QED
  BY <1>1, <1>2, <1>3, <1>4, <1>5, <1>8
  DEF TrialNext, AgentStep, HostStep, WritesReport, RunsOutOfMemory, LosesStore, trialVars,
      hostVars

(* Only the beginning of a phase is logged.                                *)
LEMMA LogSteps ==
  ASSUME TrialInv, [TrialNext]_trialVars
  PROVE  \/ /\ UNCHANGED log
            /\ \/ place' = place \/ place' \in {"write", "done", "aborted"}
               \/ \E g \in Groups : place \in g /\ place' \in g
         \/ Verifies("immediate", "verify", "immediate")
         \/ Verifies("service_restart", "restarted", "restart check")
         \/ Verifies("host_reboot", "rebooted", "reboot check")
<1> USE DEF Groups, Unlogged, InFirst, InSecond, Early
<1>1. CASE UNCHANGED <<log, place>>
  BY <1>1
<1>2. CASE AgentStep \/ HostStep
  BY <1>1, <1>2
  DEF AgentStep, HostStep, Repairs, Destroys, WritesReport, RunsOutOfMemory, AgentActs,
      ComesUp, LosesStore, GoesDown, HostOnly, controllerVars
<1>3. CASE Reached \/ Confirms \/ SetupFails \/ AgentStarts \/ AgentEnds \/ Captures \/ CaptureFails
  BY <1>3
  DEF Reached, Confirms, SetupFails, AgentStarts, AgentEnds, Captures, CaptureFails, Moves, Goes
<1>4. CASE JudgesAgent
  BY <1>4 DEF JudgesAgent
<1>5. CASE PhaseRuns
  BY <1>1, <1>5 DEF PhaseRuns, controllerVars
<1>6. CASE WritesResult
  BY <1>6 DEF WritesResult
<1>7. CASE RestartFails \/ NotSeenDown \/ NotSeenUp \/ ServicesFail \/ LastPhasePasses
           \/ \E name \in LifecyclePhases : PhaseFails(name)
  BY <1>7
  DEF RestartFails, NotSeenDown, NotSeenUp, ServicesFail, LastPhasePasses, PhaseFails,
      PhaseDone, Falls, Finding
<1>8. CASE RestartsServices \/ OrdersReboot \/ SeenDown \/ SeenUp \/ ServicesUp
  BY <1>8 DEF RestartsServices, OrdersReboot, SeenDown, SeenUp, ServicesUp, Moves, Goes
<1>9. CASE PhasePasses("immediate", "immediate", "restart")
           \/ PhasePasses("service_restart", "restart check", "reboot")
  BY <1>9 DEF PhasePasses, PhaseDone
<1> QED
  BY <1>1, <1>2, <1>3, <1>4, <1>5, <1>6, <1>7, <1>8, <1>9
  DEF TrialNext, TrialStep, VerifyStep, trialVars, controllerVars

LEMMA LogGrows ==
  ASSUME HostInv, LogInv, NEW name \in LifecyclePhases, log' = Append(log, Entry(name))
  PROVE  /\ log' \in Seq(Entries) /\ Len(log') = Len(log) + 1 /\ Len(log) \in Nat
         /\ \A k \in 1 .. Len(log) : log'[k] = log[k]
         /\ log'[Len(log) + 1] = Entry(name)
         /\ \A k \in 1 .. Len(log') : k \in 1 .. Len(log) \/ k = Len(log) + 1
<1>1. log \in Seq(Entries) /\ Len(log) \in Nat
  BY LenProperties DEF LogInv
<1>2. Entry(name) \in Entries
  BY DEF HostInv, Hosts, Entry, Entries
<1>3. /\ log' \in Seq(Entries) /\ Len(log') = Len(log) + 1
      /\ \A k \in 1 .. Len(log) : log'[k] = log[k]
      /\ log'[Len(log) + 1] = Entry(name)
  BY <1>1, <1>2, AppendProperties
<1>4. PICK n \in Nat : n = Len(log) /\ Len(log') = n + 1
  BY <1>1, <1>3, Zenon
<1>5. \A k \in 1 .. Len(log') : k \in 1 .. n \/ k = n + 1
  BY <1>4
<1> QED  BY <1>1, <1>3, <1>4, <1>5, Zenon

LEMMA LogInvStep ==
  TrialInv /\ HostInv /\ HostInv' /\ LogInv /\ [TrialNext]_trialVars => LogInv'
<1> SUFFICES ASSUME TrialInv, HostInv, HostInv', LogInv, [TrialNext]_trialVars PROVE LogInv'
  OBVIOUS
<1>1. \A e \in Entries : Seen(e) => Seen(e)'
  <2> SUFFICES ASSUME NEW e \in Entries, Seen(e) PROVE Seen(e)'
    OBVIOUS
  <2>1. host.boots \in Nat /\ host'.boots \in Nat /\ e.boots \in Nat
    BY DEF HostInv, Hosts, Entries
  <2> QED  BY <2>1, HostGrows DEF Seen
<1>2. \A k \in 1 .. Len(log) : log[k] \in Entries
  BY ElementOfSeq DEF LogInv
<1>5. \A name \in LifecyclePhases : Entry(name) \in Entries /\ Entry(name).phase = name
  BY DEF HostInv, Hosts, Entry, Entries
<1>3. CASE UNCHANGED log
  <2>1. \A k \in 1 .. Len(log') : Seen(log[k])' /\ log'[k].phase = Ordered[k]
    BY <1>1, <1>2, <1>3 DEF LogInv
  <2>2. \/ place' = place \/ place' \in {"write", "done", "aborted"}
        \/ \E g \in Groups : place \in g /\ place' \in g
    <3>1. ASSUME NEW name \in LifecyclePhases, NEW from, NEW to, Verifies(name, from, to)
          PROVE  FALSE
      <4>1. log' = Append(log, Entry(name)) /\ log \in Seq(Entries)
        BY <3>1 DEF Verifies, LogInv
      <4>2. Len(log') = Len(log) + 1 /\ Len(log) \in Nat
        BY <4>1, <1>5, AppendProperties, LenProperties
      <4> QED  BY <4>2, <1>3
    <3> QED  BY <3>1, LogSteps DEF LifecyclePhases
  <2> QED
    BY <1>3, <2>1, <2>2 DEF LogInv, Groups, Unlogged, InFirst, InSecond, Early
<1>4. ASSUME NEW name \in LifecyclePhases, NEW from, NEW to, Verifies(name, from, to),
             <<name, from, to>> \in {<<"immediate", "verify", "immediate">>,
                                     <<"service_restart", "restarted", "restart check">>,
                                     <<"host_reboot", "rebooted", "reboot check">>}
      PROVE  LogInv'
  <2>1. /\ log' = Append(log, Entry(name)) /\ UNCHANGED host
        /\ place = from /\ place' = to
    BY <1>4 DEF Verifies, hostVars
  <2>2. Entry(name) \in Entries /\ Seen(Entry(name))
    <3>1. host \in Hosts /\ host.boots > 0
      <4>1. place \notin Before \cup {"aborted"}
        BY <1>4, <2>1 DEF Before
      <4> QED  BY <4>1 DEF HostInv
    <3>2. host.boots > 1 => host.fix \in {Broken, Durable}
      BY DEF HostInv, Fallen
    <3> QED  BY <3>1, <3>2, <1>5 DEF Entry, Hosts, Seen
  <2>3. /\ log' \in Seq(Entries) /\ Len(log') = Len(log) + 1
        /\ \A k \in 1 .. Len(log) : log'[k] = log[k]
        /\ log'[Len(log) + 1] = Entry(name)
        /\ \A k \in 1 .. Len(log') : k \in 1 .. Len(log) \/ k = Len(log) + 1
    BY <2>1, LogGrows
  <2>0. \/ name = "immediate" /\ place = "verify" /\ place' = "immediate"
        \/ name = "service_restart" /\ place = "restarted" /\ place' = "restart check"
        \/ name = "host_reboot" /\ place = "rebooted" /\ place' = "reboot check"
    BY <1>4, <2>1
  <2>4. /\ Len(log) = 0 \/ Len(log) = 1 \/ Len(log) = 2
        /\ name = Ordered[Len(log) + 1]
        /\ place' = "immediate" => Len(log) = 0
        /\ place' = "restart check" => Len(log) = 1
        /\ place' = "reboot check" => Len(log) = 2
    <3>1. Ordered[0 + 1] = "immediate" /\ Ordered[1 + 1] = "service_restart"
          /\ Ordered[2 + 1] = "host_reboot"
      BY DEF Ordered
    <3> QED  BY <2>0, <3>1 DEF LogInv, Unlogged, InFirst, InSecond
  <2>5. \A k \in 1 .. Len(log') : Seen(log[k])' /\ log'[k].phase = Ordered[k]
    <3> SUFFICES ASSUME NEW k \in 1 .. Len(log')
                 PROVE  Seen(log[k])' /\ log'[k].phase = Ordered[k]
      OBVIOUS
    <3>1. CASE k \in 1 .. Len(log)
      BY <1>1, <1>2, <2>3, <3>1 DEF LogInv
    <3>2. CASE k = Len(log) + 1
      BY <1>1, <1>5, <2>2, <2>3, <2>4, <3>2
    <3> QED  BY <2>3, <3>1, <3>2
  <2>9. PICK n \in 0 .. 2 : Len(log) = n /\ Len(log') = n + 1
    <3>1. Len(log) = 0 \/ Len(log) = 1 \/ Len(log) = 2
      BY <2>4, Zenon
    <3>2. Len(log) \in 0 .. 2
      BY <3>1
    <3>3. Len(log') = Len(log) + 1
      BY <2>3, Zenon
    <3> QED  BY <3>2, <3>3, Zenon
  <2>6. Len(log') <= 3
    BY <2>9
  <2>7. place' \notin Unlogged /\ (place' \in InFirst => place' = "immediate")
        /\ (place' \in InSecond => place' = "restart check")
    BY <2>0 DEF Unlogged, InFirst, InSecond, Early
  <2>8. /\ place' = "immediate" => Len(log') = 1
        /\ place' = "restart check" => Len(log') = 2
        /\ place' = "reboot check" => Len(log') = 3
    <3>1. /\ place' = "immediate" => Len(log) = 0
          /\ place' = "restart check" => Len(log) = 1
          /\ place' = "reboot check" => Len(log) = 2
      BY <2>4, Zenon
    <3>2. /\ place' = "immediate" => n = 0
          /\ place' = "restart check" => n = 1
          /\ place' = "reboot check" => n = 2
      BY <2>9, <3>1, Zenon
    <3>3. /\ n = 0 => Len(log') = 1
          /\ n = 1 => Len(log') = 2
          /\ n = 2 => Len(log') = 3
      BY <2>9
    <3> QED  BY <3>2, <3>3, Zenon
  <2> QED
    BY <2>3, <2>5, <2>6, <2>7, <2>8 DEF LogInv
<1> QED
  BY <1>3, <1>4, LogSteps DEF LifecyclePhases
-----------------------------------------------------------------------------
(* The controller, its phase and its log.                                  *)
CheckPlaces == {"immediate", "restart check", "reboot check"}

Idles ==
  /\ UNCHANGED <<phase, recorded, log>>
  /\ \/ place' = place
     \/ place \notin CheckPlaces \cup {"confirm", "aborted"} /\ place' \notin CheckPlaces
     \/ place = "confirm" /\ place' = "aborted"

LEMMA PhaseControl ==
  ASSUME TrialInv, [TrialNext]_trialVars
  PROVE  \/ Idles
         \/ PhaseRuns \/ Reached \/ Confirms
         \/ Verifies("immediate", "verify", "immediate")
         \/ Verifies("service_restart", "restarted", "restart check")
         \/ Verifies("host_reboot", "rebooted", "reboot check")
         \/ PhasePasses("immediate", "immediate", "restart")
         \/ PhasePasses("service_restart", "restart check", "reboot")
         \/ LastPhasePasses
         \/ \E name \in LifecyclePhases : PhaseFails(name)
<1> USE DEF Idles, CheckPlaces, phaseVars
<1>1. CASE UNCHANGED trialVars
  BY <1>1 DEF trialVars, controllerVars
<1>2. CASE AgentStep \/ HostStep
  BY <1>2
  DEF AgentStep, HostStep, Repairs, Destroys, WritesReport, RunsOutOfMemory, AgentActs,
      ComesUp, LosesStore, GoesDown, HostOnly, controllerVars
<1>3. CASE SetupFails \/ CaptureFails \/ SeenDown \/ SeenUp \/ ServicesUp
  BY <1>3 DEF SetupFails, CaptureFails, SeenDown, SeenUp, ServicesUp, Moves, Goes
<1>4. CASE AgentStarts \/ RestartsServices \/ OrdersReboot
  BY <1>4 DEF AgentStarts, RestartsServices, OrdersReboot, Goes
<1>5. CASE AgentEnds \/ Captures \/ JudgesAgent \/ WritesResult
  BY <1>5 DEF AgentEnds, Captures, JudgesAgent, WritesResult
<1>6. CASE RestartFails \/ NotSeenDown \/ NotSeenUp \/ ServicesFail
  BY <1>6 DEF RestartFails, NotSeenDown, NotSeenUp, ServicesFail, Falls, Finding
<1> QED
  BY <1>1, <1>2, <1>3, <1>4, <1>5, <1>6 DEF TrialNext, TrialStep, VerifyStep

-----------------------------------------------------------------------------
(* Where a phase runs, and on which plan.                                  *)
Preflights == {PreflightSteps[i] : i \in DOMAIN PreflightSteps}
Verifiers  == {VerifySteps[i] : i \in DOMAIN VerifySteps}

PhaseRests ==
  phase # Absent =>
    \/ /\ phase.name = "preflight" /\ place \in {"confirm", "aborted"}
       /\ phase.left \in Seq(Preflights)
    \/ /\ phase.name \in LifecyclePhases /\ place \in CheckPlaces
       /\ phase.left \in Seq(Verifiers)

(* Whatever was kept, verification asks for.                               *)
Recoverable ==
  \A key \in DOMAIN recorded : \E j \in DOMAIN VerifySteps : Replays(VerifySteps[j], key)

(* What a phase has shown of the host it found, and what it will yet show. *)
Proven(e) == e.boots > 1 => e.fix = Durable
Safe(e, key) == e.lost \cap recorded[key] = {}

LastEntry == log[Len(log)]

Shown ==
  phase # Absent /\ phase.ok /\ phase.name \in LifecyclePhases =>
    /\ Proven(LastEntry) \/ \E i \in DOMAIN phase.left : Asks(phase.left[i])
    /\ FollowedUp(phase.left)
    /\ \A key \in DOMAIN recorded :
         Safe(LastEntry, key) \/ \E i \in DOMAIN phase.left : Replays(phase.left[i], key)
    /\ At("replay_http") /\ StepNow.repaired /\ phase.pending # Absent =>
         /\ phase.pending # {}
         /\ Kept(StepNow.from) \cap LastEntry.lost \subseteq phase.pending

PhaseInv == PhaseRests /\ Recoverable /\ Shown

LEMMA PlansOfSteps ==
  /\ PreflightSteps \in Seq(Preflights) /\ VerifySteps \in Seq(Verifiers)
  /\ Preflights \subseteq AllSteps /\ Verifiers \subseteq AllSteps
<1>1. PreflightSteps \in Seq(Preflights)
  <2>1. PICK n \in Nat : PreflightSteps \in [1 .. n -> AllSteps]
    BY StepsAssumption, SeqDef
  <2>2. PreflightSteps \in [1 .. n -> Preflights]
    BY <2>1 DEF Preflights
  <2> QED  BY <2>2, SeqDef
<1>2. VerifySteps \in Seq(Verifiers)
  <2>1. PICK n \in Nat : VerifySteps \in [1 .. n -> AllSteps]
    BY StepsAssumption, SeqDef
  <2>2. VerifySteps \in [1 .. n -> Verifiers]
    BY <2>1 DEF Verifiers
  <2> QED  BY <2>2, SeqDef
<1> QED  BY <1>1, <1>2 DEF Preflights, Verifiers, AllSteps

LEMMA SequenceSplits ==
  ASSUME NEW S, NEW s \in Seq(S), s # <<>>
  PROVE  /\ Head(s) = s[1] /\ 1 \in DOMAIN s /\ s[1] \in S /\ Tail(s) \in Seq(S)
         /\ \A i \in DOMAIN s : i = 1 \/ (i - 1 \in DOMAIN Tail(s) /\ Tail(s)[i - 1] = s[i])
         /\ \A i \in DOMAIN Tail(s) : i + 1 \in DOMAIN s /\ Tail(s)[i] = s[i + 1]
         /\ DOMAIN s \subseteq Nat /\ DOMAIN Tail(s) \subseteq Nat
<1>1. Len(s) \in Nat /\ Len(s) # 0 /\ DOMAIN s = 1 .. Len(s)
  BY LenProperties, EmptySeq
<1>2. /\ Head(s) = s[1] /\ Tail(s) \in Seq(S) /\ Len(Tail(s)) = Len(s) - 1
      /\ \A i \in 1 .. Len(Tail(s)) : Tail(s)[i] = s[i + 1]
  BY HeadTailProperties
<1>3. DOMAIN Tail(s) = 1 .. Len(Tail(s))
  BY <1>2, LenProperties
<1>4. s[1] \in S
  BY <1>1, ElementOfSeq
<1>5. DOMAIN Tail(s) = 1 .. (Len(s) - 1)
  BY <1>2, <1>3
<1>6. \A i \in DOMAIN Tail(s) : i + 1 \in DOMAIN s /\ Tail(s)[i] = s[i + 1]
  BY <1>1, <1>2, <1>3, <1>5
<1>7. \A i \in DOMAIN s : i = 1 \/ (i - 1 \in DOMAIN Tail(s) /\ Tail(s)[i - 1] = s[i])
  <2> SUFFICES ASSUME NEW i \in DOMAIN s, i # 1
               PROVE  i - 1 \in DOMAIN Tail(s) /\ Tail(s)[i - 1] = s[i]
    OBVIOUS
  <2>1. i \in Nat /\ i - 1 \in DOMAIN Tail(s) /\ (i - 1) + 1 = i
    BY <1>1, <1>5
  <2> QED  BY <2>1, <1>6
<1> QED  BY <1>1, <1>2, <1>4, <1>5, <1>6, <1>7

(* What is followed up stays so when the first step is over.               *)
LEMMA TailFollowedUp ==
  ASSUME NEW S, NEW s \in Seq(S), s # <<>>, FollowedUp(s)
  PROVE  /\ FollowedUp(Tail(s))
         /\ \A key \in RecordedBy(Head(s)) :
              \E j \in DOMAIN Tail(s) : Replays(Tail(s)[j], key)
<1>1. FollowedUp(Tail(s))
  <2> SUFFICES ASSUME NEW i \in DOMAIN Tail(s), NEW key \in RecordedBy(Tail(s)[i])
               PROVE  \E j \in DOMAIN Tail(s) : j > i /\ Replays(Tail(s)[j], key)
    BY DEF FollowedUp
  <2>1. i \in Nat /\ i + 1 \in DOMAIN s /\ Tail(s)[i] = s[i + 1]
    BY SequenceSplits
  <2>2. PICK j \in DOMAIN s : j > i + 1 /\ Replays(s[j], key)
    BY <2>1 DEF FollowedUp
  <2>3. j \in Nat /\ j # 1 /\ j - 1 > i
    BY <2>1, <2>2, SequenceSplits
  <2>4. j - 1 \in DOMAIN Tail(s) /\ Tail(s)[j - 1] = s[j]
    BY <2>3, SequenceSplits
  <2> QED  BY <2>2, <2>3, <2>4
<1>2. \A key \in RecordedBy(Head(s)) : \E j \in DOMAIN Tail(s) : Replays(Tail(s)[j], key)
  <2> SUFFICES ASSUME NEW key \in RecordedBy(Head(s))
               PROVE  \E j \in DOMAIN Tail(s) : Replays(Tail(s)[j], key)
    OBVIOUS
  <2>1. PICK j \in DOMAIN s : j > 1 /\ Replays(s[j], key)
    BY SequenceSplits DEF FollowedUp
  <2>2. j - 1 \in DOMAIN Tail(s) /\ Tail(s)[j - 1] = s[j]
    BY <2>1, SequenceSplits
  <2> QED  BY <2>1, <2>2
<1> QED  BY <1>1, <1>2
-----------------------------------------------------------------------------
(* A host that works shows that the repair it was found with lasts.        *)
LEMMA WorksProves ==
  ASSUME LogInv, HostInv, place \in CheckPlaces
  PROVE  /\ Works => Proven(LastEntry)
         /\ LastEntry.lost \subseteq host.lost
<1>1. Len(log) > 0 /\ Len(log) \in 1 .. Len(log)
  <2>1. Len(log) = 1 \/ Len(log) = 2 \/ Len(log) = 3
    BY Zenon DEF LogInv, CheckPlaces, InFirst, InSecond
  <2> QED  BY <2>1
<1>2. Seen(LastEntry)
  BY <1>1 DEF LogInv, LastEntry
<1>3. LastEntry.boots > 1 => \/ LastEntry.fix = Durable
                             \/ host.fix = Broken
  BY <1>2 DEF Seen
<1>4. Works => host.fix # Broken
  BY DEF Works, HostInv, Hosts, Broken, Durable
<1> QED  BY <1>2, <1>3, <1>4 DEF Seen, Proven

(* A step runs its phase and nothing else.                                 *)
LEMMA RunsPhase ==
  ASSUME TrialInv, PhaseInv, PhaseRuns
  PROVE  /\ phase # Absent /\ phase.ok /\ phase.left # <<>>
         /\ UNCHANGED <<host, log, place>> /\ LastEntry' = LastEntry
         /\ {"name", "left", "pending", "ok"} \subseteq DOMAIN phase
         /\ phase'.name = phase.name
         /\ PhaseRests'
         /\ StepPasses => phase'.left = Tail(phase.left) /\ phase'.pending = Absent
                          /\ phase'.ok = phase.ok
         /\ StepFails => phase'.ok = FALSE
<1>1. phase # Absent /\ phase.ok /\ phase.left # <<>>
  BY DEF PhaseRuns, PhaseStep, Waits, Concurrent, ReplayBegins, ReplayRound, At
<1>2. UNCHANGED <<host, log, place>> /\ LastEntry' = LastEntry
  BY DEF PhaseRuns, hostVars, controllerVars, LastEntry
<1>3. {"name", "left", "pending", "ok"} \subseteq DOMAIN phase
  BY <1>1 DEF TrialInv, PhaseShape
<1>4. \/ StepPasses \/ StepFails
      \/ \E p : phase' = [phase EXCEPT !.pending = p]
  BY Zenon DEF PhaseRuns, PhaseStep, Waits, Concurrent, ReplayBegins, ReplayRound
<1>5. StepPasses => /\ phase'.left = Tail(phase.left) /\ phase'.pending = Absent
                    /\ phase'.ok = phase.ok /\ phase'.name = phase.name
  BY <1>3 DEF StepPasses
<1>6. StepFails => phase'.ok = FALSE /\ phase'.name = phase.name /\ phase'.left = phase.left
  BY <1>3 DEF StepFails
<1>7. (\E p : phase' = [phase EXCEPT !.pending = p]) =>
        phase'.name = phase.name /\ phase'.left = phase.left
  BY <1>3
<1>8. \A S : phase.left \in Seq(S) => Tail(phase.left) \in Seq(S)
  BY <1>1, SequenceSplits
<1>9. PhaseRests'
  BY <1>1, <1>2, <1>4, <1>5, <1>6, <1>7, <1>8 DEF PhaseInv, PhaseRests
<1> QED  BY <1>1, <1>2, <1>3, <1>4, <1>5, <1>6, <1>7, <1>9

(* A step that passes has shown what it asks for.                          *)
LEMMA PassShows ==
  ASSUME TrialInv, PhaseInv, PhaseRuns, StepPasses, phase.name \in LifecyclePhases,
         Asks(StepNow) => Proven(LastEntry),
         \A key \in DOMAIN recorded' :
           \/ key \in RecordedBy(StepNow)
           \/ /\ key \in DOMAIN recorded /\ recorded'[key] = recorded[key]
              /\ Replays(StepNow, key) => Safe(LastEntry, key)
  PROVE  Shown'
<1>1. /\ phase # Absent /\ phase.ok /\ phase.left # <<>>
      /\ LastEntry' = LastEntry /\ phase'.left = Tail(phase.left) /\ phase'.pending = Absent
  BY RunsPhase
<1>2. phase.left \in Seq(Verifiers)
  BY <1>1 DEF PhaseInv, PhaseRests, LifecyclePhases
<1>3. Shown
  BY DEF PhaseInv
<1>4. Proven(LastEntry) \/ \E i \in DOMAIN Tail(phase.left) : Asks(Tail(phase.left)[i])
  <2> SUFFICES ASSUME ~ Proven(LastEntry)
               PROVE  \E i \in DOMAIN Tail(phase.left) : Asks(Tail(phase.left)[i])
    OBVIOUS
  <2>1. PICK i \in DOMAIN phase.left : Asks(phase.left[i])
    BY <1>1, <1>3 DEF Shown
  <2>2. i # 1
    BY <1>1, <1>2, <2>1, SequenceSplits DEF StepNow
  <2> QED  BY <1>1, <1>2, <2>1, <2>2, SequenceSplits
<1>5. FollowedUp(phase.left)
  BY <1>1, <1>3 DEF Shown
<1>6. /\ FollowedUp(Tail(phase.left))
      /\ \A key \in RecordedBy(StepNow) :
           \E j \in DOMAIN Tail(phase.left) : Replays(Tail(phase.left)[j], key)
  BY <1>1, <1>2, <1>5, TailFollowedUp DEF StepNow
<1>7. ASSUME NEW key \in DOMAIN recorded'
      PROVE  \/ Safe(LastEntry, key)'
             \/ \E i \in DOMAIN Tail(phase.left) : Replays(Tail(phase.left)[i], key)
  <2>1. CASE key \in RecordedBy(StepNow)
    BY <1>6, <2>1
  <2>2. CASE /\ key \in DOMAIN recorded /\ recorded'[key] = recorded[key]
             /\ Replays(StepNow, key) => Safe(LastEntry, key)
    <3>1. CASE Safe(LastEntry, key)
      BY <1>1, <2>2, <3>1 DEF Safe
    <3>2. ASSUME ~ Safe(LastEntry, key)
          PROVE  \E i \in DOMAIN Tail(phase.left) : Replays(Tail(phase.left)[i], key)
      <4>1. PICK i \in DOMAIN phase.left : Replays(phase.left[i], key)
        BY <1>1, <1>3, <2>2, <3>2 DEF Shown
      <4>2. i # 1
        BY <1>1, <1>2, <2>2, <3>2, <4>1, SequenceSplits DEF StepNow
      <4> QED  BY <1>1, <1>2, <4>1, <4>2, SequenceSplits
    <3> QED  BY <3>1, <3>2
  <2> QED  BY <2>1, <2>2
<1> QED  BY <1>1, <1>4, <1>6, <1>7 DEF Shown, At

LEMMA PhaseRunsShow ==
  ASSUME TrialInv, HostInv, LogInv, PhaseInv, PhaseRuns
  PROVE  PhaseInv'
<1>1. /\ phase # Absent /\ phase.ok /\ phase.left # <<>>
      /\ UNCHANGED <<host, log, place>> /\ LastEntry' = LastEntry
      /\ {"name", "left", "pending", "ok"} \subseteq DOMAIN phase
      /\ phase'.name = phase.name
      /\ PhaseRests'
  BY RunsPhase
<1>2. StepFails => Shown'
  BY RunsPhase DEF Shown
<1>3. /\ place \in CheckPlaces => (Works => Proven(LastEntry))
      /\ place \in CheckPlaces => LastEntry.lost \subseteq host.lost
  BY WorksProves
<1>4. phase.name \in LifecyclePhases => place \in CheckPlaces
  BY <1>1 DEF PhaseInv, PhaseRests, LifecyclePhases
<1>5. StepNow \in Preflights \/ StepNow \in Verifiers
  BY <1>1, SequenceSplits DEF PhaseInv, PhaseRests, StepNow
<1>6. UNCHANGED recorded => Recoverable'
  BY DEF PhaseInv, Recoverable
<1>7. phase.name \notin LifecyclePhases => Shown'
  BY <1>1 DEF Shown
<1>8. ASSUME Waits PROVE PhaseInv'
  <2>1. UNCHANGED recorded /\ StepNow.type = "wait_http" /\ ((StepPasses /\ Meets) \/ StepFails)
    BY <1>8 DEF Waits, At
  <2>2. ASSUME StepPasses, Meets, phase.name \in LifecyclePhases PROVE Shown'
    <3>1. Asks(StepNow) => Proven(LastEntry)
      BY <1>3, <1>4, <2>2 DEF Asks, Meets
    <3>2. \A key : ~ Replays(StepNow, key)
      BY <2>1 DEF Replays
    <3> QED  BY <2>1, <2>2, <3>1, <3>2, PassShows
  <2> QED  BY <1>1, <1>2, <1>6, <1>7, <2>1, <2>2 DEF PhaseInv
<1>9. ASSUME Concurrent PROVE PhaseInv'
  <2>1. PICK good : recorded' = Keep(Keep(recorded, StepNow.all, StepNow.requests),
                                     StepNow.failed, StepNow.requests \ good)
    BY <1>9 DEF Concurrent
  <2>2. StepNow.type = "concurrent_http" /\ (StepPasses \/ StepFails)
    BY <1>9 DEF Concurrent, At
  <2>3. /\ DOMAIN recorded' = DOMAIN recorded \cup RecordedBy(StepNow)
        /\ \A key \in DOMAIN recorded \ RecordedBy(StepNow) : recorded'[key] = recorded[key]
    <3>1. PICK once : once = Keep(recorded, StepNow.all, StepNow.requests)
      OBVIOUS
    <3>2. /\ DOMAIN once = DOMAIN recorded \cup ({StepNow.all} \ {Absent})
          /\ \A k \in DOMAIN recorded \ ({StepNow.all} \ {Absent}) : once[k] = recorded[k]
      BY <3>1 DEF Keep
    <3>3. /\ DOMAIN recorded' = DOMAIN once \cup ({StepNow.failed} \ {Absent})
          /\ \A k \in DOMAIN once \ ({StepNow.failed} \ {Absent}) : recorded'[k] = once[k]
      BY <2>1, <3>1 DEF Keep
    <3>4. RecordedBy(StepNow) = {StepNow.all, StepNow.failed} \ {Absent}
      BY <2>2 DEF RecordedBy
    <3> QED  BY <3>2, <3>3, <3>4
  <2>4. \A key \in RecordedBy(StepNow) :
          \E j \in DOMAIN VerifySteps : Replays(VerifySteps[j], key)
    BY <1>5, BacklogAssumption DEF Preflights, Verifiers, FollowedUp
  <2>5. Recoverable'
    BY <2>3, <2>4 DEF PhaseInv, Recoverable
  <2>6. ASSUME StepPasses, phase.name \in LifecyclePhases PROVE Shown'
    <3>1. ~ Asks(StepNow) /\ \A key : ~ Replays(StepNow, key)
      BY <2>2 DEF Asks, Replays
    <3> QED  BY <2>3, <2>6, <3>1, PassShows
  <2> QED  BY <1>1, <1>2, <1>7, <2>2, <2>5, <2>6 DEF PhaseInv
<1>10. ASSUME ReplayBegins PROVE PhaseInv'
  <2>1. UNCHANGED recorded /\ StepNow.type = "replay_http"
    BY <1>10 DEF ReplayBegins, At
  <2>2. CASE StepFails
    BY <1>1, <1>2, <1>6, <2>1, <2>2 DEF PhaseInv
  <2>3. CASE Kept(StepNow.from) # {} /\ phase' = [phase EXCEPT !.pending = Kept(StepNow.from)]
    <3>1. phase'.left = phase.left /\ phase'.ok = phase.ok /\ phase'.pending = Kept(StepNow.from)
      BY <1>1, <2>3
    <3>2. StepNow' = StepNow /\ Kept(StepNow.from)' = Kept(StepNow.from)
      BY <2>1, <3>1 DEF StepNow, Kept
    <3>3. ASSUME phase.name \in LifecyclePhases PROVE Shown'
      <4>1. /\ Proven(LastEntry) \/ \E i \in DOMAIN phase.left : Asks(phase.left[i])
            /\ FollowedUp(phase.left)
            /\ \A key \in DOMAIN recorded :
                 Safe(LastEntry, key) \/ \E i \in DOMAIN phase.left : Replays(phase.left[i], key)
        BY <1>1, <3>3 DEF PhaseInv, Shown
      <4>2. \A key \in DOMAIN recorded' : Safe(LastEntry, key)' <=> Safe(LastEntry, key)
        BY <1>1, <2>1 DEF Safe
      <4> QED  BY <1>1, <2>1, <2>3, <3>1, <3>2, <4>1, <4>2 DEF Shown
    <3> QED  BY <1>1, <1>6, <1>7, <2>1, <3>3 DEF PhaseInv
  <2> QED  BY <1>10, <2>2, <2>3 DEF ReplayBegins
<1>11. ASSUME ReplayRound PROVE PhaseInv'
  <2> DEFINE rest == Unanswered(phase.pending)
  <2>1. /\ UNCHANGED recorded /\ StepNow.type = "replay_http" /\ At("replay_http")
        /\ phase.pending # Absent
        /\ \/ rest = {} /\ StepPasses
           \/ rest # {} /\ phase' = [phase EXCEPT !.pending = rest]
           \/ StepFails
    BY <1>11 DEF ReplayRound, At
  <2>2. CASE StepFails
    BY <1>1, <1>2, <1>6, <2>1, <2>2 DEF PhaseInv
  <2>3. ASSUME phase.name \in LifecyclePhases, StepNow.repaired
        PROVE  /\ phase.pending # {}
               /\ Kept(StepNow.from) \cap LastEntry.lost \subseteq phase.pending
               /\ Kept(StepNow.from) \cap LastEntry.lost \subseteq rest
    <3>1. /\ phase.pending # {}
          /\ Kept(StepNow.from) \cap LastEntry.lost \subseteq phase.pending
      BY <1>1, <2>1, <2>3 DEF PhaseInv, Shown
    <3>2. \A r \in phase.pending \cap LastEntry.lost : r \in rest
      BY <1>3, <1>4, <2>3 DEF Unanswered, Answers
    <3> QED  BY <3>1, <3>2
  <2>4. CASE rest = {} /\ StepPasses
    <3>1. ASSUME phase.name \in LifecyclePhases PROVE Shown'
      <4>1. Asks(StepNow) => Proven(LastEntry)
        <5> SUFFICES ASSUME StepNow.repaired PROVE Proven(LastEntry)
          BY DEF Asks
        <5>1. PICK r \in phase.pending : r \notin rest
          BY <2>3, <2>4, <3>1
        <5>2. Works
          BY <5>1 DEF Unanswered, Answers, Meets
        <5> QED  BY <1>3, <1>4, <3>1, <5>2
      <4>2. \A key \in DOMAIN recorded : Replays(StepNow, key) => Safe(LastEntry, key)
        BY <2>3, <2>4, <3>1 DEF Replays, Safe, Kept
      <4> QED  BY <2>1, <2>4, <3>1, <4>1, <4>2, PassShows
    <3> QED  BY <1>1, <1>6, <1>7, <2>1, <3>1 DEF PhaseInv
  <2>5. CASE rest # {} /\ phase' = [phase EXCEPT !.pending = rest]
    <3>1. phase'.left = phase.left /\ phase'.ok = phase.ok /\ phase'.pending = rest
      BY <1>1, <2>5
    <3>2. StepNow' = StepNow /\ Kept(StepNow.from)' = Kept(StepNow.from)
      BY <2>1, <3>1 DEF StepNow, Kept
    <3>3. ASSUME phase.name \in LifecyclePhases PROVE Shown'
      <4>1. /\ Proven(LastEntry) \/ \E i \in DOMAIN phase.left : Asks(phase.left[i])
            /\ FollowedUp(phase.left)
            /\ \A key \in DOMAIN recorded :
                 Safe(LastEntry, key) \/ \E i \in DOMAIN phase.left : Replays(phase.left[i], key)
        BY <1>1, <3>3 DEF PhaseInv, Shown
      <4>2. \A key \in DOMAIN recorded' : Safe(LastEntry, key)' <=> Safe(LastEntry, key)
        BY <1>1, <2>1 DEF Safe
      <4> QED  BY <1>1, <2>1, <2>3, <2>5, <3>1, <3>2, <3>3, <4>1, <4>2 DEF Shown
    <3> QED  BY <1>1, <1>6, <1>7, <2>1, <3>3 DEF PhaseInv
  <2> QED  BY <2>1, <2>2, <2>4, <2>5
<1> QED  BY <1>8, <1>9, <1>10, <1>11 DEF PhaseRuns, PhaseStep
(* A phase that begins finds in its plan all that is asked of it.          *)
LEMMA BeginsShow ==
  ASSUME PhaseInv, NEW name \in LifecyclePhases, NEW from, NEW to \in CheckPlaces,
         Verifies(name, from, to)
  PROVE  PhaseInv'
<1>1. /\ phase' = [name |-> name, left |-> VerifySteps, pending |-> Absent, ok |-> TRUE]
      /\ recorded' = recorded /\ place' = to
  BY DEF Verifies, PhaseBegins, StepsOf, LifecyclePhases
<1>2. PhaseRests'
  BY <1>1, PlansOfSteps DEF PhaseRests
<1>3. Recoverable'
  BY <1>1 DEF PhaseInv, Recoverable
<1>4. Shown'
  <2>1. /\ \E i \in DOMAIN VerifySteps : Asks(VerifySteps[i])
        /\ FollowedUp(VerifySteps)
    BY BacklogAssumption
  <2>2. \A key \in DOMAIN recorded' : \E i \in DOMAIN VerifySteps : Replays(VerifySteps[i], key)
    BY <1>3 DEF Recoverable
  <2>3. phase'.left = VerifySteps /\ phase'.pending = Absent
    BY <1>1
  <2> QED  BY <2>1, <2>2, <2>3 DEF Shown
<1> QED  BY <1>2, <1>3, <1>4 DEF PhaseInv

LEMMA PhaseInvStep ==
  TrialInv /\ HostInv /\ LogInv /\ PhaseInv /\ [TrialNext]_trialVars => PhaseInv'
<1> SUFFICES ASSUME TrialInv, HostInv, LogInv, PhaseInv, [TrialNext]_trialVars PROVE PhaseInv'
  OBVIOUS
<1>1. CASE Idles
  <2>1. UNCHANGED <<phase, recorded, log>>
    BY <1>1 DEF Idles
  <2>2. PhaseRests'
    BY <1>1 DEF Idles, PhaseInv, PhaseRests, CheckPlaces
  <2>3. Recoverable'
    BY <2>1 DEF PhaseInv, Recoverable
  <2>4. Shown'
    <3>1. StepNow' = StepNow /\ LastEntry' = LastEntry
      BY <2>1 DEF StepNow, LastEntry
    <3>2. Kept(StepNow.from)' = Kept(StepNow.from)
      BY <2>1, <3>1 DEF Kept
    <3>3. At("replay_http")' <=> At("replay_http")
      BY <2>1, <3>1 DEF At
    <3>4. \A key : Safe(LastEntry, key)' <=> Safe(LastEntry, key)
      BY <2>1, <3>1 DEF Safe
    <3> QED  BY <2>1, <3>1, <3>2, <3>3, <3>4 DEF PhaseInv, Shown
  <2> QED  BY <2>2, <2>3, <2>4 DEF PhaseInv
<1>2. CASE Reached
  <2>1. /\ phase' = [name |-> "preflight", left |-> PreflightSteps, pending |-> Absent, ok |-> TRUE]
        /\ recorded' = recorded /\ place' = "confirm"
    BY <1>2 DEF Reached, PhaseBegins, StepsOf, Goes
  <2>2. PhaseRests'
    BY <2>1, PlansOfSteps DEF PhaseRests
  <2>3. Recoverable'
    BY <2>1 DEF PhaseInv, Recoverable
  <2>4. Shown'
    BY <2>1 DEF Shown, LifecyclePhases
  <2> QED  BY <2>2, <2>3, <2>4 DEF PhaseInv
<1>3. CASE \/ Verifies("immediate", "verify", "immediate")
           \/ Verifies("service_restart", "restarted", "restart check")
           \/ Verifies("host_reboot", "rebooted", "reboot check")
  BY <1>3, BeginsShow DEF LifecyclePhases, CheckPlaces
<1>4. CASE phase' = Absent /\ recorded' = recorded
  BY <1>4 DEF PhaseInv, PhaseRests, Recoverable, Shown
<1>5. CASE \/ Confirms \/ LastPhasePasses
           \/ PhasePasses("immediate", "immediate", "restart")
           \/ PhasePasses("service_restart", "restart check", "reboot")
           \/ \E name \in LifecyclePhases : PhaseFails(name)
  BY <1>4, <1>5 DEF Confirms, LastPhasePasses, PhasePasses, PhaseDone, PhaseFails
<1> QED  BY <1>1, <1>2, <1>3, <1>5, PhaseRunsShow, PhaseControl

(* A phase that passed has shown all it was to show.                       *)
LEMMA PassedShows ==
  ASSUME PhaseInv, NEW name \in LifecyclePhases, Passed(name)
  PROVE  Proven(LastEntry) /\ \A key \in DOMAIN recorded : Safe(LastEntry, key)
<1>1. phase # Absent /\ phase.name = name /\ phase.ok /\ phase.left = <<>>
  BY DEF Passed
<1>2. DOMAIN phase.left = {}
  BY <1>1
<1> QED  BY <1>1, <1>2 DEF PhaseInv, Shown

-----------------------------------------------------------------------------
(* Every phase that is over has proven the repair it found.                *)
ChainProven ==
  place \in Chain =>
    \A k \in 1 .. Len(log) : Proven(log[k]) \/ (place \in CheckPlaces /\ k = Len(log))

LEMMA ChainProvenStep ==
  ASSUME TrialInv, HostInv, LogInv, PhaseInv, ChainProven, [TrialNext]_trialVars
  PROVE  ChainProven'
<1> USE DEF Chain, Chain1, Chain2, Chain3, CheckPlaces
<1>1. CASE place' \notin Chain
  BY <1>1 DEF ChainProven
<1>2. CASE UNCHANGED <<place, log>>
  BY <1>2 DEF ChainProven
<1>3. CASE UNCHANGED log /\ place \in Unlogged
  <2>1. DOMAIN log = DOMAIN log /\ Len(log) = 0
    BY <1>3 DEF LogInv
  <2>2. 1 .. Len(log') = {}
    BY <1>3, <2>1
  <2> QED  BY <2>2 DEF ChainProven
<1>4. CASE UNCHANGED log /\ place \in Chain \ CheckPlaces
  BY <1>4 DEF ChainProven
<1>5. ASSUME NEW name \in LifecyclePhases, Passed(name), UNCHANGED log, place \in Chain
      PROVE  \A k \in 1 .. Len(log') : Proven(log'[k])
  <2>1. Proven(LastEntry)
    BY <1>5, PassedShows
  <2> QED  BY <1>5, <2>1 DEF ChainProven, LastEntry
<1>6. ASSUME NEW name \in LifecyclePhases, NEW from \in Chain \ CheckPlaces, NEW to \in CheckPlaces,
             Verifies(name, from, to)
      PROVE  ChainProven'
  <2>1. log' = Append(log, Entry(name)) /\ place = from /\ place' = to
    BY <1>6 DEF Verifies
  <2>4. /\ \A k \in 1 .. Len(log) : log'[k] = log[k]
        /\ Len(log') = Len(log) + 1
        /\ \A k \in 1 .. Len(log') : k \in 1 .. Len(log) \/ k = Len(log) + 1
    BY <2>1, LogGrows
  <2>5. \A k \in 1 .. Len(log) : Proven(log[k])
    BY <1>6, <2>1 DEF ChainProven
  <2> QED  BY <1>6, <2>1, <2>4, <2>5 DEF ChainProven
<1>7. CASE PhaseRuns \/ Reached \/ Confirms \/ \E name \in LifecyclePhases : PhaseFails(name)
  BY <1>1, <1>2, <1>7
  DEF PhaseRuns, controllerVars, Reached, Confirms, Goes, PhaseFails, Finding
<1>8. CASE LastPhasePasses
  BY <1>1, <1>8 DEF LastPhasePasses, Finding
<1>9. CASE \/ PhasePasses("immediate", "immediate", "restart")
           \/ PhasePasses("service_restart", "restart check", "reboot")
  BY <1>5, <1>9 DEF PhasePasses, PhaseDone, LifecyclePhases, ChainProven
<1>10. CASE \/ Verifies("immediate", "verify", "immediate")
            \/ Verifies("service_restart", "restarted", "restart check")
            \/ Verifies("host_reboot", "rebooted", "reboot check")
  BY <1>6, <1>10 DEF LifecyclePhases
<1>11. CASE Idles
  BY <1>1, <1>2, <1>3, <1>4, <1>11, LogSteps
  DEF Idles, Groups, Unlogged, InFirst, InSecond, Early, Verifies
<1> QED  BY <1>7, <1>8, <1>9, <1>10, <1>11, PhaseControl
-----------------------------------------------------------------------------
(* What a reward stands on.                                                *)
EndedWell == run.status = 0 /\ (oracle \/ Valid(taken))

Grounds(v, a) ==
  /\ EndedWell
  /\ v.status = "evaluated" /\ v.category = Absent /\ a = Absent
  /\ v.verified = LifecyclePhases
  /\ Len(log) = 3 /\ \A k \in 1 .. 3 : Proven(log[k])
  /\ \A key \in DOMAIN recorded : log[3].lost \cap recorded[key] = {}

Earned ==
  /\ place \in Chain /\ ~ TimedOut => EndedWell
  /\ place = "write" /\ verdict.reward = 1 => Grounds(verdict, after)
  /\ result # Absent /\ result.verdict.reward = 1 => Grounds(result.verdict, result.after)
  /\ place \in {"write", "done"} => phase = Absent

EarnedInv == TrialInv /\ HostInv /\ LogInv /\ PhaseInv /\ ChainProven /\ Earned

(* The end of a trial and the ways to it.                                  *)
Continues ==
  /\ UNCHANGED result
  /\ place' \in Chain => (place \in Chain \/ TimedOut) /\ UNCHANGED <<run, taken, oracle>>
  /\ place' \notin {"write", "done"} /\ place \notin {"write", "done"}

Unrewarded ==
  /\ UNCHANGED result /\ place' = "write" /\ phase' = Absent
  /\ place \notin {"write", "done"} /\ verdict'.reward = 0

Settled == UNCHANGED <<place, verdict, after, log, run, oracle, taken, result, recorded, phase>>

LEMMA EndControl ==
  ASSUME TrialInv, PhaseInv, [TrialNext]_trialVars
  PROVE  \/ Continues \/ Unrewarded \/ Settled
         \/ LastPhasePasses \/ WritesResult
         \/ JudgesAgent /\ Succeeded /\ place' = "verify"
<1> USE DEF Chain, Chain1, Chain2, Chain3
<1>1. CASE UNCHANGED trialVars
  BY <1>1 DEF trialVars, phaseVars, controllerVars, Settled
<1>2. CASE AgentStep \/ HostStep
  BY <1>2
  DEF AgentStep, HostStep, Repairs, Destroys, WritesReport, RunsOutOfMemory, AgentActs,
      ComesUp, LosesStore, GoesDown, HostOnly, phaseVars, controllerVars, Settled
<1>3. CASE PhaseRuns
  <2>1. phase # Absent /\ UNCHANGED controllerVars
    BY <1>3, RunsPhase DEF PhaseRuns
  <2>2. place \in CheckPlaces \cup {"confirm", "aborted"}
    BY <2>1 DEF PhaseInv, PhaseRests
  <2> QED  BY <2>1, <2>2 DEF controllerVars, Continues, CheckPlaces
<1>4. CASE \/ Reached \/ Confirms \/ SetupFails \/ AgentStarts \/ AgentEnds \/ Captures
           \/ CaptureFails \/ RestartsServices \/ OrdersReboot \/ SeenDown \/ SeenUp \/ ServicesUp
  BY <1>4
  DEF Reached, Confirms, SetupFails, AgentStarts, AgentEnds, Captures, CaptureFails,
      RestartsServices, OrdersReboot, SeenDown, SeenUp, ServicesUp, Moves, Goes, Continues
<1>5. CASE JudgesAgent
  <2>1. /\ place = "judge" /\ UNCHANGED <<phase, result, run, taken, oracle>>
        /\ {"reward", "status", "category", "verified"} \subseteq DOMAIN verdict
        /\ verdict.reward = 0
    BY <1>5 DEF JudgesAgent, phaseVars, TrialInv, Undecided, Early
  <2>2. phase' = Absent
    BY <2>1 DEF PhaseInv, PhaseRests, CheckPlaces
  <2>3. CASE Succeeded
    BY <1>5, <2>3 DEF JudgesAgent
  <2>4. CASE ~ Succeeded /\ TimedOut
    <3>1. place' = "verify" /\ verdict' = [verdict EXCEPT !.status = AgentFailure.status,
                                                         !.category = AgentFailure.category]
      BY <1>5, <2>4 DEF JudgesAgent
    <3> QED  BY <2>1, <2>4, <3>1 DEF Continues
  <2>5. CASE ~ Succeeded /\ ~ TimedOut
    <3>1. place' = "write" /\ verdict' = [verdict EXCEPT !.status = AgentFailure.status,
                                                        !.category = AgentFailure.category]
      BY <1>5, <2>5 DEF JudgesAgent
    <3>2. verdict'.reward = 0
      BY <2>1, <3>1
    <3> QED  BY <2>1, <2>2, <3>1, <3>2 DEF Unrewarded
  <2> QED  BY <2>3, <2>4, <2>5
<1>6. ASSUME NEW verified, NEW category, Finding(verified, FALSE, category), place \in Chain,
             phase' = Absent
      PROVE  Unrewarded
  <2>1. /\ verdict.reward = 0
        /\ {"reward", "status", "category", "verified"} \subseteq DOMAIN verdict
    BY <1>6 DEF TrialInv, Undecided
  <2>2. CASE TimedOut
    BY <1>6, <2>1, <2>2 DEF Finding, Unrewarded
  <2>3. CASE ~ TimedOut
    BY <1>6, <2>1, <2>3 DEF Finding, Unrewarded
  <2> QED  BY <2>2, <2>3
<1>7. ASSUME NEW from \in Chain \ CheckPlaces, NEW category, Falls(from, category)
      PROVE  Unrewarded
  <2>1. place = from /\ phase' = phase /\ Finding(verdict.verified, FALSE, category)
    BY <1>7 DEF Falls, phaseVars
  <2>2. phase = Absent
    BY <1>7, <2>1 DEF PhaseInv, PhaseRests
  <2> QED  BY <1>6, <2>1, <2>2
<1>8. CASE RestartFails \/ NotSeenDown \/ NotSeenUp \/ ServicesFail
  <2>1. {"restart", "going down", "coming up", "services"} \subseteq Chain \ CheckPlaces
    BY DEF CheckPlaces
  <2>2. \E from \in {"restart", "going down", "coming up", "services"} :
          \E category : Falls(from, category)
    BY <1>8 DEF RestartFails, NotSeenDown, NotSeenUp, ServicesFail
  <2> QED  BY <1>7, <2>1, <2>2
<1>9. ASSUME NEW name \in LifecyclePhases, PhaseFails(name)
      PROVE  Unrewarded
  <2>1. phase # Absent /\ phase.name = name /\ phase' = Absent
        /\ Finding(verdict.verified, FALSE, failed)
    BY <1>9 DEF PhaseFails, Failed
  <2>2. place \in Chain
    BY <2>1 DEF TrialInv, PhaseAt, LifecyclePhases
  <2> QED  BY <1>6, <2>1, <2>2
<1>10. CASE \/ Verifies("immediate", "verify", "immediate")
            \/ Verifies("service_restart", "restarted", "restart check")
            \/ Verifies("host_reboot", "rebooted", "reboot check")
            \/ PhasePasses("immediate", "immediate", "restart")
            \/ PhasePasses("service_restart", "restart check", "reboot")
  BY <1>10 DEF Verifies, PhasePasses, Continues
<1> QED
  BY <1>1, <1>2, <1>3, <1>4, <1>5, <1>8, <1>9, <1>10 DEF TrialNext, TrialStep, VerifyStep

LEMMA EarnedStep == EarnedInv /\ HostInv' /\ LogInv' /\ [TrialNext]_trialVars => Earned'
<1> SUFFICES ASSUME EarnedInv, [TrialNext]_trialVars PROVE Earned'
  OBVIOUS
<1> USE DEF EarnedInv
<1>1. result # Absent => place = "done"
  BY DEF TrialInv, Recorded
<1>2. CASE Continues
  <2>1. result' = Absent /\ place' \notin {"write", "done"}
    BY <1>1, <1>2 DEF Continues
  <2>2. place' \in Chain /\ ~ TimedOut' => EndedWell'
    BY <1>2 DEF Continues, Earned, TimedOut, EndedWell, Valid
  <2> QED  BY <2>1, <2>2 DEF Earned
<1>3. CASE Unrewarded
  <2>1. result' = Absent /\ place' = "write" /\ verdict'.reward = 0 /\ phase' = Absent
    BY <1>1, <1>3 DEF Unrewarded
  <2>2. verdict'.reward # 1
    BY <2>1
  <2> QED  BY <2>1, <2>2, Zenon DEF Earned, Chain, Chain1, Chain2, Chain3
<1>4. CASE Settled
  BY <1>4 DEF Settled, Earned, TimedOut, EndedWell, Valid, Reports, Grounds, Proven
<1>5. CASE JudgesAgent /\ Succeeded /\ place' = "verify"
  <2>1. /\ UNCHANGED <<run, taken, oracle, result>> /\ place = "judge"
    BY <1>5 DEF JudgesAgent
  <2>2. EndedWell
    BY <1>5 DEF Succeeded, ResultInvalid, EndedWell
  <2> QED  BY <1>1, <1>5, <2>1, <2>2 DEF Earned, EndedWell, Valid, Reports
<1>6. CASE LastPhasePasses
  <2>1. /\ place = "reboot check" /\ place' = "write" /\ Passed("host_reboot") /\ phase' = Absent
        /\ UNCHANGED <<log, recorded, run, taken, oracle, result>>
        /\ Finding(LifecyclePhases, TRUE, Absent)
    BY <1>6 DEF LastPhasePasses, PhaseDone, Finding
  <2>2. /\ {"reward", "status", "category", "verified"} \subseteq DOMAIN verdict
        /\ verdict.reward = 0 /\ verdict.status = "evaluated" /\ after = Absent
    BY <2>1 DEF TrialInv, Undecided, Chain, Chain3
  <2>3. CASE TimedOut
    <3>1. verdict' = [verdict EXCEPT !.verified = LifecyclePhases]
      BY <2>1, <2>3 DEF Finding
    <3>2. verdict'.reward = 0
      BY <2>2, <3>1
    <3>3. result' = Absent
      BY <1>1, <2>1
    <3>4. verdict'.reward # 1
      BY <3>2
    <3> QED  BY <2>1, <3>3, <3>4, Zenon DEF Earned, Chain, Chain1, Chain2, Chain3
  <2>4. CASE ~ TimedOut
    <3>1. after' = after
          /\ verdict' = [verdict EXCEPT !.verified = LifecyclePhases, !.category = Absent,
                           !.reward = 1, !.status = IF Absent = "guest_boot_infrastructure_failed"
                                                    THEN "unavailable" ELSE @]
      BY <2>1, <2>4 DEF Finding
    <3>2. Absent # "guest_boot_infrastructure_failed"
      BY AbsentAssumption DEF Categories
    <3>3. /\ verdict'.status = "evaluated" /\ verdict'.category = Absent
          /\ verdict'.verified = LifecyclePhases /\ after' = Absent
      BY <2>2, <3>1, <3>2
    <3>4. EndedWell'
      BY <2>1, <2>4 DEF Earned, EndedWell, Valid, Reports, Chain, Chain3
    <3>5. Len(log) = 3 /\ \A k \in 1 .. 3 : Proven(log[k])
      <4>1. Len(log) = 3
        BY <2>1 DEF LogInv
      <4>2. Proven(LastEntry)
        BY <2>1, PassedShows DEF LifecyclePhases
      <4>3. \A k \in 1 .. Len(log) : Proven(log[k])
        BY <2>1, <4>2 DEF ChainProven, LastEntry, Chain, Chain3
      <4> QED  BY <4>1, <4>3
    <3>6. \A key \in DOMAIN recorded : log[3].lost \cap recorded[key] = {}
      <4>1. \A key \in DOMAIN recorded : Safe(LastEntry, key)
        BY <2>1, PassedShows DEF LifecyclePhases
      <4> QED  BY <3>5, <4>1 DEF Safe, LastEntry
    <3>7. Grounds(verdict, after)'
      BY <2>1, <3>3, <3>4, <3>5, <3>6 DEF Grounds, Proven
    <3> QED  BY <1>1, <2>1, <3>7 DEF Earned, Chain, Chain1, Chain2, Chain3
  <2> QED  BY <2>3, <2>4
<1>7. CASE WritesResult
  <2>1. /\ place = "write" /\ place' = "done"
        /\ UNCHANGED <<phase, recorded, log, run, oracle, verdict, after>>
        /\ taken' = taken \/ (~ oracle /\ taken = Absent)
        /\ result'.verdict = verdict /\ result'.after = after
    BY <1>7 DEF WritesResult, phaseVars
  <2>2. ~ Valid(Absent)
    BY AbsentAssumption DEF Valid
  <2>3. EndedWell => EndedWell'
    BY <2>1, <2>2 DEF EndedWell, Valid, Reports
  <2>4. Grounds(verdict, after) => Grounds(result.verdict, result.after)'
    BY <2>1, <2>3 DEF Grounds, Proven
  <2> QED  BY <2>1, <2>4 DEF Earned, Chain, Chain1, Chain2, Chain3
<1> QED  BY <1>2, <1>3, <1>4, <1>5, <1>6, <1>7, EndControl

LEMMA EarnedInvCorrect == TrialSpec => []EarnedInv
<1>1. TrialInit => HostInv /\ LogInv /\ PhaseInv /\ ChainProven /\ Earned
  BY EmptySeq
  DEF TrialInit, PhaseInit, HostInv, Hosts, Before, Fallen, Broken, Running, Durable,
      LogInv, Unlogged, InFirst, InSecond, Early, PhaseInv, PhaseRests, Recoverable, Shown,
      ChainProven, Earned, Chain, Chain1, Chain2, Chain3
<1>2. TrialInv /\ TrialInv' /\ HostInv /\ LogInv /\ PhaseInv /\ ChainProven /\ Earned
      /\ [TrialNext]_trialVars
      => (HostInv /\ LogInv /\ PhaseInv /\ ChainProven /\ Earned)'
  BY HostInvStep, LogInvStep, PhaseInvStep, ChainProvenStep, EarnedStep DEF EarnedInv
<1> QED  BY <1>1, <1>2, TrialInvCorrect, PTL DEF TrialSpec, EarnedInv

(* A reward is earned (run-host-native.sh, scenario_phase.py): the agent   *)
(* ended well with a valid report, all three phases passed in their order, *)
(* nothing was excused, nothing kept of the incident was lost when the     *)
(* last phase began, and a repair seen after a reboot is a durable one.    *)
THEOREM RewardCorrect == TrialSpec => []RewardIsEarned
<1>1. EarnedInv => RewardIsEarned
  <2> SUFFICES ASSUME EarnedInv, result # Absent, result.verdict.reward = 1
               PROVE  RewardIsEarned
    BY DEF RewardIsEarned
  <2>1. Grounds(result.verdict, result.after)
    BY DEF EarnedInv, Earned
  <2>2. Len(log) = 3 /\ \A k \in 1 .. 3 : Proven(log[k])
    BY <2>1 DEF Grounds
  <2>3. \A k \in 1 .. 3 : log[k].phase = Ordered[k] /\ Seen(log[k]) /\ log[k] \in Entries
    <3>1. /\ \A k \in 1 .. Len(log) : log[k].phase = Ordered[k] /\ Seen(log[k])
          /\ log \in Seq(Entries)
      BY DEF EarnedInv, LogInv
    <3>2. \A k \in 1 .. Len(log) : log[k] \in Entries
      BY <3>1, ElementOfSeq
    <3> QED  BY <2>2, <3>1, <3>2
  <2>4. \A i, j \in 1 .. 3 : log[i].boots < log[j].boots => log[j].fix = Durable
    <3> SUFFICES ASSUME NEW i \in 1 .. 3, NEW j \in 1 .. 3, log[i].boots < log[j].boots
                 PROVE  log[j].fix = Durable
      OBVIOUS
    <3>1. log[i].boots \in Nat /\ log[j].boots \in Nat /\ log[i].boots > 0
      BY <2>3 DEF Seen, Entries
    <3>2. log[j].boots > 1
      BY <3>1
    <3> QED  BY <2>2, <3>2 DEF Proven
  <2> QED
    BY <2>1, <2>2, <2>3, <2>4 DEF RewardIsEarned, Grounds, EndedWell
<1> QED  BY <1>1, EarnedInvCorrect, PTL
=============================================================================
