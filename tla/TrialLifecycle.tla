--------------------------- MODULE TrialLifecycle ----------------------------
(* run-host-native.sh: one trial.  The controller boots an incident host,  *)
(* confirms the incident, lets an agent (or the reference repair) work on  *)
(* it, takes its result away, and verifies the repair at once, after a     *)
(* service restart and after a reboot.  The agent, what it leaves running  *)
(* and the host itself act in between.                                     *)
EXTENDS ScenarioPhase

CONSTANTS
  Lossable,   \* requests the agent may destroy
  MaxBoots    \* boots of the host

VARIABLES
  oracle,    \* the reference repair runs instead of an agent
  place,     \* where the controller is
  session,   \* processes of the agent on the host: "none", "alive" or "gone"
  report,    \* results/agent.json on the host, or Absent
  console,   \* what the host's console has shown
  run,       \* the agent's exit: its status and whether its time was up
  taken,     \* results/agent.json as the controller has it
  verdict,   \* reward, trial status, failure category, phases verified
  after,     \* what was found after a timeout, or Absent
  log,       \* the phases that began and the host they found
  result     \* result.json, or Absent

hostVars       == <<host, session, report, console>>
controllerVars == <<oracle, place, run, taken, verdict, after, log, result>>
trialVars      == <<phaseVars, hostVars, controllerVars>>

(* A report is valid when it names its agent and model.  Valid or not, it  *)
(* may state an error, after progress or without any.                      *)
Reports == [valid : BOOLEAN, outcome : {"done", "error with progress", "error"}]

Valid(r)     == r \in Reports /\ r.valid
Errs(r)      == r \in Reports /\ r.outcome # "done"
Unstarted(r) == r \in Reports /\ r.outcome = "error"

(* The categories in which a repair fails its verification.                *)
Categories ==
  StepCategories \cup {"host_reboot_failed", "services_failed_after_reboot",
                       "guest_boot_infrastructure_failed"}

ASSUME AbsentAssumption ==
  /\ Absent \notin Reports /\ Absent \notin Categories
  /\ Absent \notin [durable : BOOLEAN, category : Categories \cup {Absent}]

TrialInit ==
  /\ PhaseInit
  /\ host = [up |-> FALSE, fix |-> Broken, lost |-> {}, boots |-> 0, active |-> TRUE,
             rebooting |-> FALSE]
  /\ oracle \in BOOLEAN
  /\ place = "boot" /\ session = "none" /\ report = Absent /\ console = {}
  /\ run = [status |-> Absent, late |-> FALSE]
  /\ taken = Absent /\ after = Absent /\ log = <<>> /\ result = Absent
  /\ verdict = [reward |-> 0, status |-> "evaluated", category |-> Absent, verified |-> {}]

-----------------------------------------------------------------------------
(* The incident host, until the controller stops it.                       *)
HostOnly == place \notin {"aborted", "done"} /\ UNCHANGED <<phaseVars, controllerVars>>

ComesUp ==
  /\ ~ host.up /\ host.boots < MaxBoots /\ "no store" \notin console
  /\ \E active \in IF host.boots = 0 THEN {TRUE} ELSE BOOLEAN :
       host' = [host EXCEPT !.up = TRUE, !.boots = @ + 1, !.active = active]
  /\ UNCHANGED <<session, report, console>>
  /\ HostOnly

(* The device with the Nix store is gone when the host boots again.        *)
LosesStore ==
  /\ ~ host.up /\ host.boots > 0
  /\ console' = console \cup {"no store"}
  /\ UNCHANGED <<host, session, report>>
  /\ HostOnly

GoesDown ==
  /\ host.up
  /\ session = "alive" \/ host.rebooting
  /\ host' = [host EXCEPT !.up = FALSE, !.rebooting = FALSE,
                          !.fix = IF @ = Durable THEN @ ELSE Broken]
  /\ session' = "gone"
  /\ console' = console \cup {"restarting"}
  /\ UNCHANGED report
  /\ HostOnly

AgentActs == host.up /\ session = "alive" /\ HostOnly

Repairs ==
  /\ AgentActs
  /\ \E fix \in Broken..Durable : fix # host.fix /\ host' = [host EXCEPT !.fix = fix]
  /\ UNCHANGED <<session, report, console>>

Destroys ==
  /\ AgentActs
  /\ \E r \in Lossable \ host.lost : host' = [host EXCEPT !.lost = @ \cup {r}]
  /\ UNCHANGED <<session, report, console>>

WritesReport ==
  /\ AgentActs /\ ~ oracle
  /\ report' \in Reports \ {report}
  /\ UNCHANGED <<host, session, console>>

RunsOutOfMemory ==
  /\ AgentActs
  /\ console' = console \cup {"out of memory"}
  /\ UNCHANGED <<host, session, report>>

AgentStep == Repairs \/ Destroys \/ WritesReport \/ RunsOutOfMemory
HostStep  == ComesUp \/ LosesStore \/ GoesDown

-----------------------------------------------------------------------------
(* From boot to the agent.  Whatever fails here ends the trial without a   *)
(* result.                                                                 *)
Goes(from, to) ==
  /\ place = from
  /\ place' = to
  /\ UNCHANGED <<oracle, run, taken, verdict, after, log, result>>

Moves(from, to) == Goes(from, to) /\ UNCHANGED <<phaseVars, hostVars>>

Reached == host.up /\ Goes("boot", "confirm") /\ PhaseBegins("preflight") /\ UNCHANGED hostVars

Confirms ==
  /\ Passed("preflight")
  /\ Goes("confirm", "stage")
  /\ phase' = Absent
  /\ UNCHANGED <<recorded, failed, hostVars>>

SetupFails ==
  \/ Moves("boot", "aborted")
  \/ Failed("preflight") /\ Moves("confirm", "aborted")
  \/ Moves("stage", "aborted")

AgentStarts ==
  /\ host.up /\ Goes("stage", "agent")
  /\ session' = "alive"
  /\ UNCHANGED <<phaseVars, host, report, console>>

(* The ssh command returns: with the agent's status, with 124 or 137 when   *)
(* the time given to it was up, with 137 when it was killed, with 255 when *)
(* the connection was lost.  What the agent started may go on running.     *)
Exits ==
  {e \in [status : {0, 1, 124, 137, 255}, late : BOOLEAN] :
     /\ e.status = 124 => e.late
     /\ e.status = 137 => e.late \/ "out of memory" \in console
     /\ e.status # 255 => host.up /\ session = "alive"
     /\ oracle => e.status \in {0, 1, 255}}

AgentEnds ==
  /\ place = "agent" /\ place' = "capture"
  /\ run' \in Exits
  /\ session' \in {session, "gone"}
  /\ UNCHANGED <<phaseVars, host, report, console, oracle, taken, verdict, after, log, result>>

(* classify-agent-run-exit.sh.                                             *)
TimedOut == run.status = 124 \/ (run.late /\ run.status \in {137, 255})

-----------------------------------------------------------------------------
(* capture_agent_results: five attempts; a completed agent whose result    *)
(* cannot be taken ends the trial without one.                             *)
Captures ==
  /\ place = "capture" /\ place' = "judge"
  /\ \/ ~ oracle /\ host.up /\ taken' = report
     \/ (oracle \/ run.status # 0) /\ taken' = taken
  /\ UNCHANGED <<phaseVars, hostVars, oracle, run, verdict, after, log, result>>

CaptureFails == ~ oracle /\ run.status = 0 /\ Moves("capture", "aborted")

(* What the exit status, the report and the console come to, in the order  *)
(* in which they are asked.  Waiting for a host the agent rebooted changes *)
(* nothing of it.                                                          *)
ResultInvalid == ~ oracle /\ run.status = 0 /\ ~ Valid(taken)
ResultMissing == ~ oracle /\ run.status # 0 /\ taken = Absent
Rebooted      == run.status = 255 /\ "restarting" \in console
RanOut        == run.status = 137 /\ "out of memory" \in console

Evaluated(category)   == [status |-> "evaluated", category |-> category]
Unavailable(category) == [status |-> "unavailable", category |-> category]

(* classify-agent-outcome.sh: an error is the provider's when the agent    *)
(* had made no progress.  It looks at the outcome of any report, also of   *)
(* one that names another agent or model.                                  *)
Outcome(r) == IF Unstarted(r) THEN Unavailable("agent error") ELSE Evaluated("agent error")

(* A bug: what the console shows is asked before the clock.                *)
RebootBeforeTimeout ==
  IF Rebooted THEN Evaluated("agent_rebooted_host")
  ELSE Evaluated(IF TimedOut THEN "agent_timeout" ELSE Absent)

AgentFailure ==
  IF ResultInvalid THEN Evaluated("agent_result_invalid")
  ELSE IF TimedOut THEN Evaluated("agent_timeout")
  ELSE IF Rebooted THEN Evaluated("agent_rebooted_host")
  ELSE IF Errs(taken) THEN Outcome(taken)
  ELSE IF RanOut THEN Evaluated("guest_out_of_memory")
  ELSE IF ResultMissing THEN Unavailable("agent_result_missing")
  ELSE Evaluated(Absent)

(* A bug: the exit status is believed without a report.                    *)
ByStatusAlone == run.status = 0

Succeeded == run.status = 0 /\ ~ ResultInvalid

JudgesAgent ==
  /\ place = "judge"
  /\ IF Succeeded
     THEN verdict' = verdict /\ place' = "verify"
     ELSE /\ verdict' = [verdict EXCEPT !.status = AgentFailure.status,
                                        !.category = AgentFailure.category]
          /\ place' = IF TimedOut THEN "verify" ELSE "write"
  /\ UNCHANGED <<phaseVars, hostVars, oracle, run, taken, after, log, result>>

-----------------------------------------------------------------------------
(* verify_repair_lifecycle.  After a timeout it decides nothing but what   *)
(* is said of the repair.                                                  *)
LifecyclePhases == {"immediate", "service_restart", "host_reboot"}

Finding(verified, passed, category) ==
  /\ place' = "write"
  /\ IF TimedOut
     THEN /\ after' = [durable |-> passed, category |-> category]
          /\ verdict' = [verdict EXCEPT !.verified = verified]
     ELSE /\ verdict' = [verdict EXCEPT !.verified = verified, !.category = category,
                           !.reward = IF passed THEN 1 ELSE 0,
                           !.status = IF category = "guest_boot_infrastructure_failed"
                                      THEN "unavailable" ELSE @]
          /\ UNCHANGED after
  /\ UNCHANGED <<oracle, run, taken, result>>

Falls(from, category) ==
  /\ place = from
  /\ Finding(verdict.verified, FALSE, category)
  /\ UNCHANGED <<phaseVars, hostVars, log>>

Entry(name) == [phase |-> name, boots |-> host.boots, fix |-> host.fix, lost |-> host.lost]

Verifies(name, from, to) ==
  /\ place = from /\ place' = to
  /\ PhaseBegins(name)
  /\ log' = Append(log, Entry(name))
  /\ UNCHANGED <<hostVars, oracle, run, taken, verdict, after, result>>

PhaseDone(name) ==
  /\ Passed(name)
  /\ phase' = Absent
  /\ UNCHANGED <<recorded, failed, hostVars, log>>

PhasePasses(name, from, to) ==
  /\ place = from /\ place' = to
  /\ PhaseDone(name)
  /\ verdict' = [verdict EXCEPT !.verified = @ \cup {name}]
  /\ UNCHANGED <<oracle, run, taken, after, result>>

LastPhasePasses ==
  /\ place = "reboot check"
  /\ PhaseDone("host_reboot")
  /\ Finding(LifecyclePhases, TRUE, Absent)

PhaseFails(name) ==
  /\ Failed(name)
  /\ phase' = Absent
  /\ Finding(verdict.verified, FALSE, failed)
  /\ UNCHANGED <<recorded, failed, hostVars, log>>

RestartsServices ==
  /\ host.up /\ Goes("restart", "restarted")
  /\ host' = [host EXCEPT !.fix = IF @ = Running THEN Broken ELSE @]
  /\ UNCHANGED <<phaseVars, session, report, console>>

RestartFails == Falls("restart", Absent)

(* The status of the reboot command is not looked at.                      *)
OrdersReboot ==
  /\ Goes("reboot", "going down")
  /\ \E given \in BOOLEAN : host' = [host EXCEPT !.rebooting = given /\ host.up]
  /\ UNCHANGED <<phaseVars, session, report, console>>

(* wait_for_ssh_down: one failed probe is enough, and a busy host may fail *)
(* one without going down.                                                 *)
SeenDown    == Moves("going down", "coming up")
NotSeenDown == host.up /\ Falls("going down", "host_reboot_failed")

(* wait_for_ssh: three probes in a row that succeed.                       *)
SeenUp    == host.up /\ Moves("coming up", "services")
NotSeenUp ==
  /\ ~ host.up
  /\ Falls("coming up", IF "no store" \in console THEN "guest_boot_infrastructure_failed"
                        ELSE "host_reboot_failed")

ServicesUp   == host.up /\ host.active /\ Moves("services", "rebooted")
ServicesFail == ~ (host.up /\ host.active) /\ Falls("services", "services_failed_after_reboot")

VerifyStep ==
  \/ Verifies("immediate", "verify", "immediate")
  \/ PhasePasses("immediate", "immediate", "restart")
  \/ RestartsServices \/ RestartFails
  \/ Verifies("service_restart", "restarted", "restart check")
  \/ PhasePasses("service_restart", "restart check", "reboot")
  \/ OrdersReboot \/ SeenDown \/ NotSeenDown \/ SeenUp \/ NotSeenUp
  \/ ServicesUp \/ ServicesFail
  \/ Verifies("host_reboot", "rebooted", "reboot check")
  \/ LastPhasePasses
  \/ \E name \in LifecyclePhases : PhaseFails(name)

(* A result that could not be taken before is asked for once more, and     *)
(* tells of usage only.                                                    *)
WritesResult ==
  /\ place = "write" /\ place' = "done"
  /\ taken' \in {taken} \cup (IF ~ oracle /\ taken = Absent /\ host.up THEN {report} ELSE {})
  /\ result' = [verdict |-> verdict, after |-> after, usage |-> taken']
  /\ UNCHANGED <<phaseVars, hostVars, oracle, run, verdict, after, log>>

PhaseRuns == PhaseStep /\ UNCHANGED <<hostVars, controllerVars>>

TrialStep ==
  \/ Reached \/ Confirms \/ SetupFails \/ AgentStarts \/ AgentEnds
  \/ Captures \/ CaptureFails \/ JudgesAgent
  \/ VerifyStep \/ PhaseRuns \/ WritesResult

TrialNext == AgentStep \/ HostStep \/ TrialStep

TrialSpec == TrialInit /\ [][TrialNext]_trialVars

-----------------------------------------------------------------------------
(* A reward is earned: the agent ended well and its valid report was taken *)
(* before anything was verified, nothing was excused, the three phases     *)
(* passed in their order, what was sent before the repair and kept by the  *)
(* controller still existed when the last phase began, and a repair that   *)
(* was asked on both sides of a reboot survives reboots.                   *)
Ordered == <<"immediate", "service_restart", "host_reboot">>

RewardIsEarned ==
  result # Absent /\ result.verdict.reward = 1 =>
    /\ run.status = 0 /\ (oracle \/ Valid(taken))
    /\ result.verdict.status = "evaluated" /\ result.verdict.category = Absent
    /\ result.after = Absent
    /\ result.verdict.verified = LifecyclePhases
    /\ Len(log) = 3 /\ \A i \in 1..3 : log[i].phase = Ordered[i]
    /\ \A key \in DOMAIN recorded : log[3].lost \cap recorded[key] = {}
    /\ \A i, j \in 1..3 : log[i].boots < log[j].boots => log[j].fix = Durable

(* A verdict is explained by what happened: an agent whose time was up is  *)
(* judged so and gets no reward whatever its repair is worth, and a trial  *)
(* is excused only for an error before any progress, for a report that     *)
(* never came from an agent that did not end well, or for a store that     *)
(* vanished under a repair that had survived so far.                       *)
Excused ==
  \/ Unstarted(taken) /\ result.verdict.verified = {}
  \/ result.verdict.category = "agent_result_missing" /\ run.status # 0
       /\ result.verdict.verified = {} /\ ~ TimedOut
  \/ "no store" \in console /\ result.verdict.verified = {"immediate", "service_restart"}

VerdictIsExplained ==
  result # Absent =>
    /\ (result.after # Absent) = TimedOut
    /\ TimedOut => result.verdict.category = "agent_timeout" /\ result.verdict.reward = 0
    /\ result.verdict.status = "unavailable" => result.verdict.reward = 0 /\ Excused
    /\ result.after # Absent /\ result.after.durable => result.verdict.verified = LifecyclePhases
=============================================================================
