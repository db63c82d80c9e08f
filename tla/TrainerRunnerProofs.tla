------------------------- MODULE TrainerRunnerProofs ------------------------
(***************************************************************************)
(* Theorems about one run of the trainer, for any deadline, any number of  *)
(* hints and a clock of any length.                                        *)
(***************************************************************************)
EXTENDS TrainerRunner, TLAPS

(* The step of each thread, named one by one, and the world's.             *)
LEMMA StepCases ==
  ASSUME [Next]_vars
  PROVE  \/ Attach \/ PreparationFails \/ PlayerLeaves \/ Reconsider \/ FinalCheck
         \/ Decide \/ Return
         \/ Wake \/ ReadClock \/ ShowBreach \/ TakeHint \/ Check \/ Show \/ Mark
         \/ FixChanges \/ GetHint \/ Tick \/ UNCHANGED vars
BY DEF Next, MainStep, PollerStep

(* A round that has read the clock knows its time, and one that goes on    *)
(* polls before the deadline.                                              *)
InRound == {"polling", "checking", "showing", "marking"}
Gone    == {"left", "checking", "deciding", "dropping", "returned"}

RoundTimed == poller \in InRound => polled \in Times /\ polled < Deadline

LeftTimed ==
  main \in Gone /\ result # "error" => left \in Times /\ left <= now

(* The poller is not started exactly when no player was attached.          *)
Started ==
  /\ main = "preparing" => result = "none"
  /\ result = "error" => main = "returned"
  /\ poller = "off" <=> main = "preparing" \/ result = "error"

TypeInv == TypeOK /\ RoundTimed /\ LeftTimed /\ Started

(* The clock is a natural number within its bound.                         *)
LEMMA TimesAreNaturals == Times \subseteq Nat /\ None \notin Times /\ 0 \in Times
BY TimeAssumption DEF Times

LEMMA TypeInvCorrect == Spec => []TypeInv
<1>1. Init => TypeInv
  <2> SUFFICES ASSUME Init PROVE TypeInv
    OBVIOUS
  <2>1. TypeOK
    <3>1. now \in Times /\ used \in 0 .. Hints
      BY TimesAreNaturals, TimeAssumption DEF Init
    <3> QED  BY <3>1, Zenon DEF Init, TypeOK
  <2>2. RoundTimed /\ LeftTimed /\ Started
    BY DEF Init, RoundTimed, LeftTimed, Started, InRound, Gone
  <2> QED  BY <2>1, <2>2 DEF TypeInv
<1>2. TypeInv /\ [Next]_vars => TypeInv'
  <2> SUFFICES ASSUME TypeInv, [Next]_vars PROVE TypeInv'
    OBVIOUS
  <2> USE DEF TypeInv, TypeOK, RoundTimed, LeftTimed, Started, InRound, Gone
  <2>1. CASE Attach
    BY <2>1 DEF Attach, worldVars, ghostVars
  <2>2. CASE PreparationFails
    BY <2>2 DEF PreparationFails, worldVars, ghostVars, pollerVars
  <2>3. CASE PlayerLeaves
    BY <2>3, TimesAreNaturals DEF PlayerLeaves, worldVars, pollerVars
  <2>4. CASE Reconsider
    BY <2>4 DEF Reconsider, worldVars, ghostVars, pollerVars, sharedVars
  <2>5. CASE FinalCheck
    <3>1. CASE fixed
      BY <2>5, <3>1 DEF FinalCheck, MarkSolved, First, worldVars, pollerVars
    <3>2. CASE ~fixed
      BY <2>5, <3>2 DEF FinalCheck, worldVars, pollerVars
    <3> QED  BY <3>1, <3>2
  <2>6. CASE Decide
    <3>1. Outcome \in {"success", "timeout", "abandoned"}
      BY DEF Outcome
    <3>2. ScoreTime \in Times \cup {None}
      BY <2>6 DEF Decide, ScoreTime
    <3>3. /\ result' \in {"success", "timeout", "abandoned"}
          /\ score' \in Times \cup {None}
      BY <2>6, <3>1, <3>2, Zenon DEF Decide
    <3>4. /\ main = "deciding" /\ main' = "dropping" /\ ~fixed' /\ ~flag'
          /\ fixed' \in BOOLEAN /\ flag' \in BOOLEAN
          /\ UNCHANGED <<left, now, poller, polled, passes, cancelled, timedOut, solved,
                         recorded, used, display, proved, credit>>
      BY <2>6 DEF Decide, pollerVars, sharedVars, ghostVars
    <3>5. TypeOK'
      BY <3>3, <3>4
    <3> QED  BY <3>3, <3>4, <3>5
  <2>7. CASE Return
    BY <2>7 DEF Return, worldVars, ghostVars, pollerVars
  <2>8. CASE Wake
    BY <2>8 DEF Wake, worldVars, ghostVars, mainVars, sharedVars
  <2>9. CASE ReadClock
    <3>1. CASE DeadlinePassed(now)
      BY <2>9, <3>1 DEF ReadClock, worldVars, ghostVars, mainVars
    <3>2. CASE ~DeadlinePassed(now)
      <4>1. now < Deadline
        BY <3>2, TimesAreNaturals, TimeAssumption DEF DeadlinePassed
      <4> QED  BY <2>9, <3>2, <4>1 DEF ReadClock, worldVars, ghostVars, mainVars
    <3> QED  BY <3>1, <3>2
  <2>10. CASE ShowBreach
    BY <2>10 DEF ShowBreach, worldVars, ghostVars, mainVars
  <2>11. CASE TakeHint
    <3>1. Revealed \in 0 .. Hints
      BY TimeAssumption DEF Revealed
    <3>2. used' \in 0 .. Hints
      BY <2>11, <3>1, Zenon DEF TakeHint
    <3>3. /\ poller = "polling" /\ poller' = "checking" /\ flag' \in BOOLEAN
          /\ UNCHANGED <<main, left, result, score, polled, passes, now, fixed, proved,
                         credit, cancelled, timedOut, solved, recorded, display>>
      BY <2>11 DEF TakeHint, ghostVars, mainVars
    <3> QED  BY <3>2, <3>3
  <2>12. CASE Check
    BY <2>12 DEF Check, worldVars, mainVars, sharedVars
  <2>13. CASE Show
    BY <2>13 DEF Show, worldVars, ghostVars, mainVars
  <2>14. CASE Mark
    BY <2>14 DEF Mark, MarkSolved, First, worldVars, ghostVars, mainVars
  <2>15. CASE FixChanges
    BY <2>15 DEF FixChanges, mainVars, pollerVars, sharedVars
  <2>16. CASE GetHint
    BY <2>16 DEF GetHint, ghostVars, mainVars, pollerVars, sharedVars
  <2>17. CASE Tick
    BY <2>17, TimesAreNaturals, TimeAssumption
    DEF Tick, Times, ghostVars, mainVars, pollerVars, sharedVars
  <2>18. CASE UNCHANGED vars
    BY <2>18 DEF vars, worldVars, ghostVars, mainVars, pollerVars, sharedVars
  <2> QED
    BY StepCases, <2>1, <2>2, <2>3, <2>4, <2>5, <2>6, <2>7, <2>8, <2>9, <2>10,
       <2>11, <2>12, <2>13, <2>14, <2>15, <2>16, <2>17, <2>18
<1> QED  BY <1>1, <1>2, PTL DEF Spec

(* Times, flags and places keep their types; in particular hints[..used]   *)
(* is never out of range.                                                  *)
THEOREM TrainerTypeCorrect == Spec => []TypeOK
BY TypeInvCorrect, PTL DEF TypeInv

-----------------------------------------------------------------------------
(* The oracle's answers.  A passing check is on its way to the flag or has *)
(* set it; the deadline is noticed only by a poller that will not check    *)
(* again; what is recorded is the time of a passing check, and late only   *)
(* if the final check granted it.                                          *)
Passing == poller = "marking" \/ (poller = "showing" /\ passes)

ProofInHand ==
  /\ Passing => polled \in proved
  /\ proved # {} => solved \/ Passing
  /\ timedOut => poller \in {"breached", "done"}
  /\ solved => recorded # None
  /\ recorded # None => recorded \in proved
  /\ recorded # None /\ recorded >= Deadline => main \in Gone /\ recorded >= left

OutcomeHeld ==
  /\ result \notin {"none", "error"} => main \in {"dropping", "returned"}
  /\ result = "error" => poller = "off"
  /\ result = "success" => score \in proved /\ (score >= Deadline => score >= left)
  /\ result = "timeout" => timedOut /\ proved = {}

OracleInv == ProofInHand /\ OutcomeHeld

LEMMA OracleCorrect == Spec => []OracleInv
<1>1. Init => OracleInv
  BY DEF Init, OracleInv, ProofInHand, OutcomeHeld, Passing
<1>2. TypeInv /\ OracleInv /\ [Next]_vars => OracleInv'
  <2> SUFFICES ASSUME TypeInv, OracleInv, [Next]_vars PROVE OracleInv'
    OBVIOUS
  <2> USE DEF OracleInv, ProofInHand, OutcomeHeld, Passing, Gone
  <2>1. CASE Attach
    BY <2>1 DEF Attach, worldVars, ghostVars, TypeInv, Started
  <2>2. CASE PreparationFails
    BY <2>2 DEF PreparationFails, worldVars, ghostVars, pollerVars, TypeInv, Started
  <2>3. CASE PlayerLeaves
    BY <2>3 DEF PlayerLeaves, worldVars, pollerVars
  <2>4. CASE Reconsider
    BY <2>4 DEF Reconsider, worldVars, ghostVars, pollerVars, sharedVars
  <2>5. CASE FinalCheck
    <3>1. left <= now /\ now # None
      BY <2>5, TimesAreNaturals DEF FinalCheck, TypeInv, TypeOK, LeftTimed, Started
    <3>2. CASE fixed
      <4>1. recorded' = First(now) /\ solved' /\ proved' = proved \cup {now}
        BY <2>5, <3>2 DEF FinalCheck, MarkSolved
      <4>2. recorded' # None /\ recorded' \in proved'
        BY <3>1, <4>1 DEF First
      <4>3. recorded' >= Deadline => recorded' >= left
        BY <3>1, <4>1, TimesAreNaturals DEF First, TypeInv, TypeOK
      <4> QED
        BY <2>5, <3>2, <4>1, <4>2, <4>3
        DEF FinalCheck, worldVars, pollerVars, TypeInv, Started
    <3>3. CASE ~fixed
      BY <2>5, <3>3 DEF FinalCheck, worldVars, pollerVars
    <3> QED  BY <3>2, <3>3
  <2>6. CASE Decide
    BY <2>6 DEF Decide, Outcome, ScoreTime, pollerVars, sharedVars, ghostVars
  <2>7. CASE Return
    BY <2>7 DEF Return, worldVars, ghostVars, pollerVars
  <2>8. CASE Wake
    BY <2>8 DEF Wake, worldVars, ghostVars, mainVars, sharedVars
  <2>9. CASE ReadClock
    BY <2>9 DEF ReadClock, worldVars, ghostVars, mainVars
  <2>10. CASE ShowBreach
    BY <2>10 DEF ShowBreach, worldVars, ghostVars, mainVars
  <2>11. CASE TakeHint
    BY <2>11 DEF TakeHint, ghostVars, mainVars
  <2>12. CASE Check
    BY <2>12 DEF Check, worldVars, mainVars, sharedVars
  <2>13. CASE Show
    BY <2>13 DEF Show, worldVars, ghostVars, mainVars
  <2>14. CASE Mark
    <3>1. polled \in proved /\ polled # None /\ ~(polled >= Deadline)
      BY <2>14, TimesAreNaturals, TimeAssumption
      DEF Mark, TypeInv, TypeOK, RoundTimed, InRound
    <3>2. recorded' = First(polled) /\ solved' /\ poller' = "done"
      BY <2>14 DEF Mark, MarkSolved
    <3>3. recorded' # None /\ recorded' \in proved
      BY <3>1, <3>2 DEF First
    <3>4. recorded' >= Deadline => recorded' = recorded
      BY <3>1, <3>2 DEF First
    <3> QED
      BY <2>14, <3>1, <3>2, <3>3, <3>4 DEF Mark, worldVars, ghostVars, mainVars
  <2>15. CASE FixChanges
    BY <2>15 DEF FixChanges, mainVars, pollerVars, sharedVars
  <2>16. CASE GetHint
    BY <2>16 DEF GetHint, ghostVars, mainVars, pollerVars, sharedVars
  <2>17. CASE Tick
    BY <2>17 DEF Tick, ghostVars, mainVars, pollerVars, sharedVars
  <2>18. CASE UNCHANGED vars
    BY <2>18 DEF vars, worldVars, ghostVars, mainVars, pollerVars, sharedVars
  <2> QED
    BY StepCases, <2>1, <2>2, <2>3, <2>4, <2>5, <2>6, <2>7, <2>8, <2>9, <2>10,
       <2>11, <2>12, <2>13, <2>14, <2>15, <2>16, <2>17, <2>18
<1> QED  BY <1>1, <1>2, TypeInvCorrect, PTL DEF Spec

(* A success is scored with the time of a check that passed.               *)
THEOREM ScoreTheorem == Spec => []ScoreIsProved
<1>1. OracleInv => ScoreIsProved
  BY DEF OracleInv, OutcomeHeld, ScoreIsProved
<1> QED  BY <1>1, OracleCorrect, PTL

(* No run is called breached after a check has passed.                     *)
THEOREM BreachTheorem == Spec => []BreachMeansUnsolved
<1>1. OracleInv => BreachMeansUnsolved
  BY DEF OracleInv, OutcomeHeld, BreachMeansUnsolved
<1> QED  BY <1>1, OracleCorrect, PTL

(* A success past the deadline is the final check's.                       *)
THEOREM LateTheorem == Spec => []LateSuccessIsFinal
<1>1. OracleInv => LateSuccessIsFinal
  BY DEF OracleInv, OutcomeHeld, LateSuccessIsFinal
<1> QED  BY <1>1, OracleCorrect, PTL

-----------------------------------------------------------------------------
(* The fix the player left: it stands until the end, and once the final    *)
(* check is behind somebody has seen it or the deadline.                   *)
Credited ==
  /\ main \in {"preparing", "attached"} => ~credit
  /\ credit /\ main \in {"left", "checking", "deciding"} => fixed
  /\ credit /\ main = "deciding" => solved \/ timedOut
  /\ result \in {"error", "abandoned"} => ~credit /\ main \in {"dropping", "returned"}

LEMMA CreditedCorrect == Spec => []Credited
<1>1. Init => Credited
  BY DEF Init, Credited
<1>2. TypeOK /\ Credited /\ [Next]_vars => Credited'
  <2> SUFFICES ASSUME TypeOK, Credited, [Next]_vars PROVE Credited'
    OBVIOUS
  <2> USE DEF Credited, TypeOK
  <2>1. CASE Attach \/ PreparationFails \/ PlayerLeaves
    BY <2>1 DEF Attach, PreparationFails, PlayerLeaves, worldVars, ghostVars, pollerVars
  <2>2. CASE Reconsider
    BY <2>2 DEF Reconsider, NoFinalCheck, worldVars, ghostVars, pollerVars, sharedVars
  <2>3. CASE FinalCheck
    BY <2>3 DEF FinalCheck, MarkSolved, worldVars, pollerVars
  <2>4. CASE Decide
    BY <2>4 DEF Decide, Outcome, pollerVars, sharedVars, ghostVars
  <2>5. CASE Return
    BY <2>5 DEF Return, worldVars, ghostVars, pollerVars
  <2>6. CASE Wake \/ ReadClock \/ ShowBreach \/ TakeHint
    BY <2>6 DEF Wake, ReadClock, ShowBreach, TakeHint, worldVars, ghostVars, mainVars,
                sharedVars
  <2>7. CASE Check \/ Show \/ Mark
    BY <2>7 DEF Check, Show, Mark, MarkSolved, worldVars, ghostVars, mainVars, sharedVars
  <2>8. CASE FixChanges
    BY <2>8 DEF FixChanges, Up, mainVars, pollerVars, sharedVars
  <2>9. CASE GetHint \/ Tick \/ UNCHANGED vars
    BY <2>9 DEF GetHint, Tick, vars, worldVars, ghostVars, mainVars, pollerVars, sharedVars
  <2> QED
    BY StepCases, <2>1, <2>2, <2>3, <2>4, <2>5, <2>6, <2>7, <2>8, <2>9
<1> QED  BY <1>1, <1>2, TrainerTypeCorrect, PTL DEF Spec

(* A player who leaves the incident fixed is not told it was abandoned.    *)
THEOREM CreditTheorem == Spec => []FixIsCredited
<1>1. Credited => FixIsCredited
  BY DEF Credited, FixIsCredited
<1> QED  BY <1>1, CreditedCorrect, PTL
=============================================================================
