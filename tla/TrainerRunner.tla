---------------------------- MODULE TrainerRunner ----------------------------
(***************************************************************************)
(* One run of the local trainer, run_scenario in src/runner.rs: the main   *)
(* thread keeps the player's terminal, a blocking task polls every two     *)
(* seconds for the deadline, the hint flag and the success check.  They    *)
(* share three atomics and the state file the player's display reads, and  *)
(* nothing joins the poller: it notices that it is cancelled when it next  *)
(* wakes up.                                                               *)
(*                                                                         *)
(* Time passes between any two steps.  The environment is fixed and broken *)
(* again by the player, or by itself.                                      *)
(***************************************************************************)
EXTENDS Integers

CONSTANTS
  Deadline,  \* sla_seconds, in ticks
  MaxTime,   \* bound: the last tick of the clock
  Hints,     \* hints of the fault
  None       \* no time recorded

ASSUME TimeAssumption == /\ Deadline \in Nat \ {0}
                         /\ MaxTime \in Nat /\ MaxTime > Deadline
                         /\ Hints \in Nat
                         /\ None \notin 0 .. MaxTime

VARIABLES
  now,        \* run_started.elapsed()
  fixed,      \* the success check would pass
  flag,       \* HINT_FLAG in the workstation
  main,       \* where run_scenario is
  left,       \* terminal_elapsed
  poller,     \* where the polling task is
  polled,     \* the time it read in this round
  passes,     \* the answer its check gave
  cancelled, timedOut, solved,  \* the shared flags
  recorded,   \* Resolution.elapsed
  used,       \* hints_used
  display,    \* the status line of the state file
  result,     \* what run_scenario returned
  score,      \* its elapsed
  proved,     \* times a passing check stands for
  credit      \* the incident was fixed when the player left, and still is

mainVars   == <<main, left, result, score>>
pollerVars == <<poller, polled, passes>>
sharedVars == <<cancelled, timedOut, solved, recorded, used, display>>
worldVars  == <<now, fixed, flag>>
ghostVars  == <<proved, credit>>
vars       == <<mainVars, pollerVars, sharedVars, worldVars, ghostVars>>

Times == 0 .. MaxTime

-----------------------------------------------------------------------------
(* mark_solved: the first time stays.                                      *)
First(time) == IF recorded = None THEN time ELSE recorded

MarkSolved(time) == recorded' = First(time) /\ solved' = TRUE

(* elapsed_or                                                              *)
LeavingTime == left
ScoreTime   == IF recorded = None THEN left ELSE recorded

(* The environment is up, the fault is in and the check fails: the poller  *)
(* starts and the player is attached.                                      *)
Attach ==
  /\ main = "preparing"
  /\ main' = "attached"
  /\ poller' = "asleep"
  /\ display' = "ACTIVE"
  /\ UNCHANGED <<left, result, score, polled, passes, worldVars, ghostVars>>
  /\ UNCHANGED <<cancelled, timedOut, solved, recorded, used>>

(* A step of the preparation fails and the guards drop.                    *)
PreparationFails ==
  /\ main = "preparing"
  /\ main' = "returned"
  /\ result' = "error"
  /\ display' = "none"
  /\ UNCHANGED <<left, score, pollerVars, worldVars, ghostVars>>
  /\ UNCHANGED <<cancelled, timedOut, solved, recorded, used>>

(* The terminal closes.                                                    *)
PlayerLeaves ==
  /\ main = "attached"
  /\ main' = "left"
  /\ left' = now
  /\ cancelled' = TRUE
  /\ credit' = fixed
  /\ UNCHANGED <<result, score, pollerVars, worldVars, proved>>
  /\ UNCHANGED <<timedOut, solved, recorded, used, display>>

(* The final check, unless the poller has decided already.  Faulty         *)
(* variants stand before what they vary; only the runs that show that a    *)
(* property can fail use them.                                             *)
PollerIsDone == solved \/ timedOut \/ poller = "done"
NoFinalCheck == solved \/ timedOut

Reconsider ==
  /\ main = "left"
  /\ main' = IF NoFinalCheck THEN "deciding" ELSE "checking"
  /\ UNCHANGED <<left, result, score, pollerVars, sharedVars, worldVars, ghostVars>>

FinalCheck ==
  /\ main = "checking"
  /\ main' = "deciding"
  /\ IF fixed THEN MarkSolved(now) /\ proved' = proved \cup {now}
              ELSE UNCHANGED <<recorded, solved, proved>>
  /\ UNCHANGED <<left, result, score, pollerVars, worldVars, credit>>
  /\ UNCHANGED <<cancelled, timedOut, used, display>>

TimeoutFirst == IF timedOut THEN "timeout" ELSE IF solved THEN "success" ELSE "abandoned"
Outcome      == IF solved THEN "success" ELSE IF timedOut THEN "timeout" ELSE "abandoned"

(* The result is made and the Compose project comes down, ...              *)
Decide ==
  /\ main = "deciding"
  /\ main' = "dropping"
  /\ result' = Outcome
  /\ score' = IF result' = "success" THEN ScoreTime ELSE None
  /\ fixed' = FALSE /\ flag' = FALSE
  /\ UNCHANGED <<left, pollerVars, sharedVars, now, ghostVars>>

(* ... and the state file is removed.                                      *)
Return ==
  /\ main = "dropping"
  /\ main' = "returned"
  /\ display' = "none"
  /\ UNCHANGED <<left, result, score, pollerVars, worldVars, ghostVars>>
  /\ UNCHANGED <<cancelled, timedOut, solved, recorded, used>>

-----------------------------------------------------------------------------
(* The poller's round.                                                     *)
WakeAnyway ==
  /\ poller = "asleep"
  /\ poller' = "awake"
  /\ UNCHANGED <<mainVars, polled, passes, sharedVars, worldVars, ghostVars>>
Wake ==
  /\ poller = "asleep"
  /\ poller' = IF cancelled THEN "done" ELSE "awake"
  /\ UNCHANGED <<mainVars, polled, passes, sharedVars, worldVars, ghostVars>>

AfterDeadline(time)  == time > Deadline
DeadlinePassed(time) == time >= Deadline

ReadClock ==
  /\ poller = "awake"
  /\ polled' = now
  /\ IF DeadlinePassed(now) THEN poller' = "breached" /\ timedOut' = TRUE
                            ELSE poller' = "polling" /\ UNCHANGED timedOut
  /\ UNCHANGED <<mainVars, passes, cancelled, solved, recorded, used, display>>
  /\ UNCHANGED <<worldVars, ghostVars>>

BreachUnshown ==
  /\ poller = "breached"
  /\ poller' = "done"
  /\ UNCHANGED <<mainVars, polled, passes, sharedVars, worldVars, ghostVars>>
ShowBreach ==
  /\ poller = "breached"
  /\ poller' = "done"
  /\ display' = "TIMEOUT"
  /\ UNCHANGED <<mainVars, polled, passes, worldVars, ghostVars>>
  /\ UNCHANGED <<cancelled, timedOut, solved, recorded, used>>

(* hints[..used] is sliced with this.                                      *)
Revealed == IF flag /\ used < Hints THEN used + 1 ELSE used

TakeHint ==
  /\ poller = "polling"
  /\ poller' = "checking"
  /\ flag' = FALSE
  /\ used' = Revealed
  /\ UNCHANGED <<mainVars, polled, passes, now, fixed, ghostVars>>
  /\ UNCHANGED <<cancelled, timedOut, solved, recorded, display>>

Check ==
  /\ poller = "checking"
  /\ poller' = "showing"
  /\ passes' = fixed
  /\ proved' = IF fixed THEN proved \cup {polled} ELSE proved
  /\ UNCHANGED <<mainVars, polled, sharedVars, worldVars, credit>>

Show ==
  /\ poller = "showing"
  /\ display' = IF passes THEN "SOLVED" ELSE "ACTIVE"
  /\ poller' = IF passes THEN "marking" ELSE "asleep"
  /\ UNCHANGED <<mainVars, polled, passes, worldVars, ghostVars>>
  /\ UNCHANGED <<cancelled, timedOut, solved, recorded, used>>

Mark ==
  /\ poller = "marking"
  /\ poller' = "done"
  /\ MarkSolved(polled)
  /\ UNCHANGED <<mainVars, polled, passes, worldVars, ghostVars>>
  /\ UNCHANGED <<cancelled, timedOut, used, display>>

-----------------------------------------------------------------------------
Up == main \notin {"preparing", "dropping", "returned"}

FixChanges ==
  /\ Up
  /\ fixed' = ~fixed
  /\ credit' = (credit /\ fixed')
  /\ UNCHANGED <<mainVars, pollerVars, sharedVars, now, flag, proved>>

GetHint ==
  /\ main = "attached"
  /\ flag' = TRUE
  /\ UNCHANGED <<mainVars, pollerVars, sharedVars, now, fixed, ghostVars>>

Tick ==
  /\ main # "preparing" /\ now < MaxTime
  /\ now' = now + 1
  /\ UNCHANGED <<mainVars, pollerVars, sharedVars, fixed, flag, ghostVars>>

Init ==
  /\ now = 0 /\ fixed = FALSE /\ flag = FALSE
  /\ main = "preparing" /\ left = None /\ result = "none" /\ score = None
  /\ poller = "off" /\ polled = None /\ passes = FALSE
  /\ cancelled = FALSE /\ timedOut = FALSE /\ solved = FALSE
  /\ recorded = None /\ used = 0 /\ display = "none"
  /\ proved = {} /\ credit = FALSE

MainStep   == Attach \/ PreparationFails \/ Reconsider \/ FinalCheck \/ Decide \/ Return
PollerStep == Wake \/ ReadClock \/ ShowBreach \/ TakeHint \/ Check \/ Show \/ Mark

Next == MainStep \/ PollerStep \/ PlayerLeaves \/ FixChanges \/ GetHint \/ Tick

Spec == Init /\ [][Next]_vars

(* Both threads run; the player owes nothing, and neither does the clock.  *)
FairSpec == Spec /\ WF_vars(MainStep) /\ WF_vars(PollerStep)

-----------------------------------------------------------------------------
TypeOK ==
  /\ now \in Times /\ fixed \in BOOLEAN /\ flag \in BOOLEAN
  /\ main \in {"preparing", "attached", "left", "checking", "deciding", "dropping", "returned"}
  /\ left \in Times \cup {None} /\ score \in Times \cup {None}
  /\ result \in {"none", "error", "success", "timeout", "abandoned"}
  /\ poller \in {"off", "asleep", "awake", "breached", "polling", "checking", "showing",
                 "marking", "done"}
  /\ polled \in Times \cup {None} /\ passes \in BOOLEAN
  /\ cancelled \in BOOLEAN /\ timedOut \in BOOLEAN /\ solved \in BOOLEAN
  /\ recorded \in Times \cup {None}
  /\ used \in 0 .. Hints
  /\ display \in {"none", "ACTIVE", "SOLVED", "TIMEOUT"}
  /\ proved \subseteq Times /\ credit \in BOOLEAN

(* A success is scored with a time a passing check stands for, whichever   *)
(* thread recorded it, and never with the moment the terminal closed.      *)
ScoreIsProved == result = "success" => score \in proved

(* "SLA breached" is said only of a run the oracle never saw fixed: the    *)
(* final check and the poller's deadline do not undo each other.           *)
BreachMeansUnsolved == result = "timeout" => proved = {}

(* A player who leaves the incident fixed gets the success, unless the     *)
(* poller saw the deadline or the incident came back before the end: this  *)
(* is what the final check is for.                                         *)
FixIsCredited == result = "abandoned" => ~credit

(* A success whose time is not below the deadline is one the final check   *)
(* granted before the poller next looked at the clock.                     *)
LateSuccessIsFinal ==
  result = "success" /\ score >= Deadline => score >= left

(* A player who stays past the deadline is shown how the run stands.       *)
BreachIsShown ==
  main = "attached" /\ now >= Deadline
    ~> display \in {"SOLVED", "TIMEOUT"} \/ main # "attached"

(* Once the player has left, the run returns and the poller ends, without  *)
(* waiting for the deadline: the process exits only when both have.        *)
RunEnds == main = "left" ~> main = "returned" /\ poller = "done"
=============================================================================
