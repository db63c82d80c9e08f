------------------------- MODULE HostedControlProofs -------------------------
(***************************************************************************)
(* Theorems about the hosted control plane and its VM, for any sets of     *)
(* sessions and connections and any bounds.                                *)
(***************************************************************************)
EXTENDS HostedControl, TLAPS

-----------------------------------------------------------------------------
(* Types, with what they rest on: the session an operation or a connection *)
(* works on has been issued, and one that has not is unknown everywhere.   *)
OpOK(o, ids) ==
  /\ o \in Operations
  /\ o.at \in {"clean", "sweep", "mark", "record"} => o.on \in ids
  /\ o.kind \in {"create", "undo"} => o.for \in ids
  /\ o.at \in {"stage", "install", "enter"} => o.kind = "create"
  /\ o.todo \subseteq ids /\ o.seen \subseteq ids
  /\ o.at = "record" => o.answer \in Phases

TableOK(table, ids) ==
  table \in Table /\ \A s \in Sessions \ ids : table[s] = "unknown"

ConnOK(c, ids) ==
  /\ c \in ConnRecord
  /\ c.at # "closed" => c.on \in ids
  /\ c.seen \subseteq ids
  /\ c.at = "reporting" => c.outcome \in Outcomes

ControllerOK ==
  /\ OpOK(op, issued)
  /\ TableOK(store, issued) /\ TableOK(file, issued) /\ TableOK(reading, issued)
  /\ issued \subseteq Sessions /\ expired \subseteq issued /\ uncleaned \subseteq issued
  /\ reads \in 0 .. MaxReads

VmOK ==
  /\ TableOK(status, issued)
  /\ keys \subseteq issued /\ staged \subseteq issued /\ compose \subseteq issued
  /\ pid \in [Sessions -> Conns \cup {None}]
  /\ DOMAIN conn = Conns /\ conn = [k \in Conns |-> conn[k]]
  /\ \A k \in Conns : ConnOK(conn[k], issued)
  /\ clobbered \in BOOLEAN

FaultsOK == faults \in 0 .. MaxFaults

TypeInv == ControllerOK /\ VmOK /\ FaultsOK

LEMMA TypeInvTypes == TypeInv => TypeOK
<1>1. VmOK => conn \in [Conns -> ConnRecord]
  BY DEF VmOK, ConnOK
<1> QED
  BY <1>1 DEF TypeInv, TypeOK, ControllerOK, VmOK, FaultsOK, OpOK, TableOK

LEMMA InitTypes == Init => TypeInv
<1> SUFFICES ASSUME Init PROVE TypeInv
  OBVIOUS
<1>1. OpOK(op, issued)
  BY DEF Init, Free, OpOK, Operations
<1>2. TableOK(store, issued) /\ TableOK(file, issued) /\ TableOK(reading, issued)
      /\ TableOK(status, issued)
  BY DEF Init, TableOK, Table
<1>3. \A k \in Conns : ConnOK(conn[k], issued)
  BY DEF Init, ConnOK, NoConn, ConnRecord
<1>4. FaultsOK /\ reads \in 0 .. MaxReads
  BY HostedAssumption DEF Init, FaultsOK
<1> QED
  BY <1>1, <1>2, <1>3, <1>4 DEF Init, TypeInv, ControllerOK, VmOK

(* The forms an operation takes.                                           *)
LEMMA OpForms ==
  ASSUME OpOK(op, issued), issued \subseteq Sessions
  PROVE  /\ OpOK(Free, issued)
         /\ \A s \in issued : OpOK(Visiting(s), issued)
         /\ \A s : OpOK(Skipping(s), issued)
         /\ op.kind = "create" => OpOK(Undo, issued)
         /\ OpOK(AfterFailure, issued) /\ OpOK(AfterMark, issued)
         /\ op.at = "sweep" => OpOK(AfterCleanup, issued)
<1>1. OpOK(Free, issued)
  BY DEF Free, OpOK, Operations
<1>2. ASSUME NEW s \in issued PROVE OpOK(Visiting(s), issued)
  BY <1>2 DEF Visiting, OpOK, Operations
<1>3. ASSUME NEW s PROVE OpOK(Skipping(s), issued)
  BY ZenonT(30) DEF Skipping, OpOK, Operations
<1>4. ASSUME op.kind = "create" PROVE OpOK(Undo, issued)
  BY <1>4, ZenonT(30) DEF Undo, OpOK, Operations
<1>5. ASSUME op.at = "sweep"
      PROVE  OpOK([op EXCEPT !.at = "mark", !.answer = "unknown", !.seen = {}], issued)
  BY <1>5 DEF OpOK, Operations
<1> QED
  BY <1>1, <1>2, <1>3, <1>4, <1>5 DEF AfterFailure, AfterCleanup, AfterMark, NextVisit

(* A put of a phase keeps the tables well typed.                           *)
LEMMA PutTypes ==
  ASSUME ControllerOK, NEW s \in issued, NEW phase \in Phases, NEW ok \in BOOLEAN,
         Put(s, phase, ok)
  PROVE  TableOK(store', issued) /\ TableOK(file', issued)
<1>1. CASE ok
  BY <1>1 DEF Put, ControllerOK, TableOK, Table
<1>2. CASE ~ok
  BY <1>2 DEF Put, ControllerOK
<1> QED  BY <1>1, <1>2

(* The faults stay within their bound.                                     *)
LEMMA FaultTypes ==
  ASSUME FaultsOK, NEW ok \in BOOLEAN, Fault \/ Sound(ok) \/ UNCHANGED faults
  PROVE  FaultsOK'
BY HostedAssumption DEF FaultsOK, Fault, Sound

(* The steps of the controller that leave the VM alone.                    *)
ControllerOnly ==
  \/ \E s \in Sessions :
       \/ CreateBegins(s) \/ VisitExpired(s) \/ VisitTerminal(s) \/ DeleteBegins(s)
       \/ GetAsks(s) \/ TimePasses(s)
       \/ \E ok \in BOOLEAN : VisitLive(s, ok) \/ GetPuts(s, ok)
  \/ \E ok \in BOOLEAN : RecordVisit(ok) \/ Enter(ok) \/ MarkDestroyed(ok)
  \/ CreateRefused \/ CreateAdmitted \/ ExpireBegins \/ ExpireEnds
  \/ CleanupFails \/ ControllerCrashes

LEMMA ControllerTypes ==
  ASSUME ControllerOK, TableOK(status, issued), ControllerOnly
  PROVE  ControllerOK' /\ issued \subseteq issued'
<1> DEFINE Goal == ControllerOK' /\ issued \subseteq issued'
<1>0. OpOK(op, issued) /\ issued \subseteq Sessions
  BY DEF ControllerOK
<1>1. ASSUME NEW s \in Sessions, CreateBegins(s) PROVE Goal
  <2>1. Kept \subseteq issued
    BY DEF ControllerOK, TableOK, Kept
  <2>2. OpOK(op', issued')
    BY <1>1, <2>1, <1>0 DEF CreateBegins, Free, Over, OpOK, Operations
  <2>3. TableOK(store, issued') /\ TableOK(file, issued') /\ TableOK(reading, issued')
    BY <1>1 DEF CreateBegins, ControllerOK, TableOK
  <2> QED
    BY <1>1, <2>2, <2>3 DEF CreateBegins, ControllerOK
<1>2. ASSUME NEW s \in Sessions, VisitExpired(s) PROVE Goal
  <2>1. s \in issued
    BY <1>2, <1>0 DEF VisitExpired, OpOK
  <2> QED  BY <1>2, <2>1, <1>0, OpForms DEF VisitExpired, ControllerOK
<1>3. ASSUME NEW s \in Sessions, VisitTerminal(s) PROVE Goal
  BY <1>3, <1>0, OpForms DEF VisitTerminal, ControllerOK
<1>4. ASSUME NEW s \in Sessions, NEW ok \in BOOLEAN, VisitLive(s, ok) PROVE Goal
  <2>1. s \in issued
    BY <1>4, <1>0 DEF VisitLive, OpOK
  <2>2. ASSUME status[s] # "unknown"
        PROVE  OpOK([op EXCEPT !.on = s, !.at = "record", !.answer = status[s]], issued)
    <3>1. status[s] \in Phases
      BY <2>2 DEF TableOK, Table
    <3> QED  BY <2>1, <3>1, <1>0 DEF OpOK, Operations
  <2>3. OpOK(op', issued)
    BY <1>4, <2>2, <1>0, OpForms DEF VisitLive
  <2> QED  BY <1>4, <2>3 DEF VisitLive, ControllerOK
<1>5. ASSUME NEW ok \in BOOLEAN, RecordVisit(ok) PROVE Goal
  <2>1. op.on \in issued /\ op.answer \in Phases /\ Put(op.on, op.answer, ok)
    BY <1>5, <1>0 DEF RecordVisit, OpOK
  <2>2. TableOK(store', issued) /\ TableOK(file', issued)
    BY <2>1, PutTypes
  <2>3. OpOK(op', issued)
    BY <1>5, <1>0, OpForms DEF RecordVisit, NextVisit
  <2> QED  BY <1>5, <2>2, <2>3 DEF RecordVisit, ControllerOK
<1>6. CASE CreateRefused \/ ExpireEnds
  BY <1>6, <1>0, OpForms DEF CreateRefused, ExpireEnds, ControllerOK
<1>7. CASE CreateAdmitted
  <2>1. OpOK(op', issued)
    BY <1>7, <1>0 DEF CreateAdmitted, Holding, OpOK, Operations
  <2> QED  BY <1>7, <2>1 DEF CreateAdmitted, ControllerOK
<1>8. ASSUME NEW ok \in BOOLEAN, Enter(ok) PROVE Goal
  <2>1. op.for \in issued /\ Put(op.for, "ready", ok) /\ op.kind = "create"
    BY <1>8, <1>0 DEF Enter, Holding, OpOK
  <2>2. TableOK(store', issued) /\ TableOK(file', issued)
    BY <2>1, PutTypes DEF Phases
  <2>3. OpOK(op', issued)
    BY <1>8, <2>1, <1>0, OpForms DEF Enter
  <2> QED  BY <1>8, <2>2, <2>3 DEF Enter, ControllerOK
<1>9. ASSUME NEW s \in Sessions, DeleteBegins(s) PROVE Goal
  <2>1. s \in issued
    BY <1>9 DEF DeleteBegins, Kept, ControllerOK, TableOK
  <2>2. OpOK(op', issued)
    BY <1>9, <2>1, <1>0 DEF DeleteBegins, Free, OpOK, Operations
  <2> QED  BY <1>9, <2>2 DEF DeleteBegins, ControllerOK
<1>10. CASE ExpireBegins
  <2>1. OpOK(op', issued)
    BY <1>10, <1>0 DEF ExpireBegins, Due, Free, OpOK, Operations, ControllerOK
  <2> QED  BY <1>10, <2>1 DEF ExpireBegins, ControllerOK
<1>11. CASE CleanupFails
  <2>1. op.on \in issued
    BY <1>11, <1>0 DEF CleanupFails, OpOK
  <2> QED  BY <1>11, <2>1, <1>0, OpForms DEF CleanupFails, ControllerOK
<1>12. ASSUME NEW ok \in BOOLEAN, MarkDestroyed(ok) PROVE Goal
  <2>1. op.on \in issued /\ Put(op.on, "destroyed", ok)
    BY <1>12, <1>0 DEF MarkDestroyed, OpOK
  <2>2. TableOK(store', issued) /\ TableOK(file', issued)
    BY <2>1, PutTypes DEF Phases, Terminal
  <2>3. OpOK(op', issued)
    BY <1>12, <1>0, OpForms DEF MarkDestroyed
  <2> QED  BY <1>12, <2>2, <2>3 DEF MarkDestroyed, ControllerOK
<1>13. ASSUME NEW s \in Sessions, GetAsks(s) PROVE Goal
  <2>1. TableOK(reading', issued)
    BY <1>13 DEF GetAsks, ControllerOK, TableOK, Table
  <2>2. reads' \in 0 .. MaxReads
    BY <1>13, HostedAssumption DEF GetAsks, ControllerOK
  <2> QED  BY <1>13, <2>1, <2>2 DEF GetAsks, ControllerOK
<1>14. ASSUME NEW s \in Sessions, NEW ok \in BOOLEAN, GetPuts(s, ok) PROVE Goal
  <2>1. s \in issued /\ reading[s] \in Phases
    BY <1>14 DEF GetPuts, ControllerOK, TableOK, Table
  <2>2. TableOK(store', issued) /\ TableOK(file', issued)
    BY <1>14, <2>1, PutTypes DEF GetPuts
  <2>3. TableOK(reading', issued)
    BY <1>14 DEF GetPuts, ControllerOK, TableOK, Table
  <2> QED  BY <1>14, <2>2, <2>3 DEF GetPuts, ControllerOK
<1>15. ASSUME NEW s \in Sessions, TimePasses(s) PROVE Goal
  BY <1>15 DEF TimePasses, ControllerOK
<1>16. CASE ControllerCrashes
  <2>1. TableOK(reading', issued)
    BY <1>16 DEF ControllerCrashes, TableOK, Table
  <2> QED  BY <1>16, <2>1, <1>0, OpForms DEF ControllerCrashes, ControllerOK
<1> QED
  BY <1>1, <1>2, <1>3, <1>4, <1>5, <1>6, <1>7, <1>8, <1>9, <1>10, <1>11, <1>12, <1>13,
     <1>14, <1>15, <1>16 DEF ControllerOnly

(* The steps of an operation that change the VM.                           *)
LEMMA RemoteTypes ==
  ASSUME ControllerOK, VmOK, NEW ok \in BOOLEAN,
         Stage(ok) \/ InstallKey(ok) \/ CleanupStops(ok) \/ CleanupSweeps(ok)
  PROVE  ControllerOK' /\ VmOK'
<1>0. OpOK(op, issued) /\ issued \subseteq Sessions
  BY DEF ControllerOK
<1>1. CASE Stage(ok)
  <2>1. op.for \in issued /\ op.kind = "create"
    BY <1>1, <1>0 DEF Stage, Holding, OpOK
  <2>2. OpOK([op EXCEPT !.at = "install"], issued)
    BY <2>1, <1>0 DEF OpOK, Operations
  <2>3. OpOK(op', issued)
    BY <1>1, <2>1, <2>2, <1>0, OpForms DEF Stage
  <2>4. TableOK(status', issued) /\ staged' \subseteq issued
    BY <1>1, <2>1 DEF Stage, VmOK, TableOK, Table, Phases
  <2> QED  BY <1>1, <2>3, <2>4 DEF Stage, ControllerOK, VmOK
<1>2. CASE InstallKey(ok)
  <2>1. op.for \in issued /\ op.kind = "create"
    BY <1>2, <1>0 DEF InstallKey, Holding, OpOK
  <2>2. OpOK([op EXCEPT !.at = "enter"], issued)
    BY <2>1, <1>0 DEF OpOK, Operations
  <2>3. OpOK(op', issued)
    BY <1>2, <2>1, <2>2, <1>0, OpForms DEF InstallKey
  <2>4. keys' \subseteq issued
    BY <1>2, <2>1 DEF InstallKey, VmOK
  <2> QED  BY <1>2, <2>3, <2>4 DEF InstallKey, ControllerOK, VmOK
<1>3. CASE CleanupStops(ok)
  <2>1. OpOK(op', issued)
    BY <1>3, <1>0 DEF CleanupStops, OpOK, Operations, VmOK
  <2>2. /\ DOMAIN conn' = Conns /\ conn' = [k \in Conns |-> conn'[k]]
        /\ \A k \in Conns : ConnOK(conn'[k], issued)
    <3>1. ConnOK(NoConn, issued)
      BY DEF NoConn, ConnOK, ConnRecord
    <3> QED  BY <1>3, <3>1 DEF CleanupStops, VmOK
  <2> QED  BY <1>3, <2>1, <2>2 DEF CleanupStops, ControllerOK, VmOK
<1>4. CASE CleanupSweeps(ok)
  <2>1. op.at = "sweep" /\ op.on \in issued
    BY <1>4, <1>0 DEF CleanupSweeps, OpOK
  <2>2. OpOK(op', issued)
    BY <1>4, <2>1, <1>0, OpForms DEF CleanupSweeps
  <2>3. TableOK(status', issued)
    BY <1>4, <2>1 DEF CleanupSweeps, VmOK, TableOK, Table, Phases, Terminal
  <2>4. pid' \in [Sessions -> Conns \cup {None}]
    BY <1>4 DEF CleanupSweeps, VmOK
  <2>5. /\ uncleaned' \subseteq issued /\ keys' \subseteq issued /\ staged' \subseteq issued
        /\ clobbered' \in BOOLEAN
    BY <1>0, <1>4, <2>1 DEF CleanupSweeps, RewriteKeys, Without, VmOK, ControllerOK, OpOK
  <2> QED  BY <1>4, <2>2, <2>3, <2>4, <2>5 DEF CleanupSweeps, ControllerOK, VmOK
<1> QED  BY <1>1, <1>2, <1>3, <1>4

(* The steps of the connections.                                           *)
LEMMA RunnerTypes ==
  ASSUME VmOK, issued \subseteq Sessions, UNCHANGED issued, NEW k \in Conns,
         (\E s \in Sessions : Connect(k, s)) \/ RunnerStep(k) \/ RunnerDies(k)
  PROVE  VmOK'
<1> DEFINE ConnsOK == /\ DOMAIN conn' = Conns /\ conn' = [j \in Conns |-> conn'[j]]
                      /\ \A j \in Conns : ConnOK(conn'[j], issued)
<1>1. ASSUME NEW c, ConnOK(c, issued), conn' = [conn EXCEPT ![k] = c] PROVE ConnsOK
  BY <1>1 DEF VmOK
<1>2. ConnOK(NoConn, issued)
  BY DEF NoConn, ConnOK, ConnRecord
<1>3. ConnOK(conn[k], issued)
  BY DEF VmOK
<1>4. ASSUME NEW place \in {"started", "loading", "playing", "closing", "exiting"},
             Go(k, place), conn[k].at # "closed"
      PROVE  ConnsOK
  <2>1. ConnOK([conn[k] EXCEPT !.at = place], issued)
    BY <1>3, <1>4 DEF ConnOK, ConnRecord
  <2>2. conn' = [conn EXCEPT ![k] = [conn[k] EXCEPT !.at = place]]
    BY <1>4 DEF Go
  <2> QED  BY <1>1, <2>1, <2>2
<1> HIDE DEF ConnsOK
<1>5. ASSUME NEW s \in Sessions, Connect(k, s) PROVE VmOK'
  <2>1. ConnOK([NoConn EXCEPT !.on = s, !.at = "connected"], issued)
    BY <1>5 DEF Connect, NoConn, ConnOK, ConnRecord, VmOK
  <2>2. ConnsOK
    BY <1>1, <1>5, <2>1 DEF Connect
  <2> QED  BY <1>5, <2>2 DEF Connect, controller, VmOK, ConnsOK
<1>6. CASE GuardStarts(k)
  <2>1. ConnsOK
    BY <1>4, <1>6 DEF GuardStarts
  <2>2. pid' \in [Sessions -> Conns \cup {None}]
    BY <1>6 DEF GuardStarts, VmOK
  <2> QED  BY <1>6, <2>1, <2>2 DEF GuardStarts, VmOK, ConnsOK
<1>7. CASE RunActivates(k)
  <2>1. ConnsOK
    BY <1>4, <1>7 DEF RunActivates
  <2>2. TableOK(status', issued)
    BY <1>3, <1>7 DEF RunActivates, VmOK, TableOK, Table, Phases, ConnOK
  <2> QED  BY <1>7, <2>1, <2>2 DEF RunActivates, VmOK, ConnsOK
<1>8. CASE RunPlays(k)
  <2>1. ConnsOK
    BY <1>4, <1>8 DEF RunPlays
  <2>2. compose' \subseteq issued
    BY <1>8 DEF RunPlays, VmOK
  <2> QED  BY <1>8, <2>1, <2>2 DEF RunPlays, VmOK, ConnsOK
<1>9. CASE RunCannotLoad(k)
  <2>1. ConnsOK
    BY <1>4, <1>9 DEF RunCannotLoad
  <2> QED  BY <1>9, <2>1 DEF RunCannotLoad, VmOK, ConnsOK
<1>10. ASSUME NEW outcome \in Outcomes, RunEnds(k, outcome) PROVE VmOK'
  <2>1. ConnOK([conn[k] EXCEPT !.at = "reporting", !.outcome = outcome], issued)
    BY <1>3, <1>10 DEF RunEnds, ConnOK, ConnRecord
  <2>2. conn' = [conn EXCEPT ![k] = [conn[k] EXCEPT !.at = "reporting", !.outcome = outcome]]
    BY <1>10 DEF RunEnds
  <2>3. ConnsOK
    BY <1>1, <2>1, <2>2
  <2>4. compose' \subseteq issued
    BY <1>10 DEF RunEnds, VmOK
  <2> QED  BY <1>10, <2>3, <2>4 DEF RunEnds, VmOK, ConnsOK
<1>11. CASE RunReports(k)
  <2>1. ConnsOK
    BY <1>4, <1>11 DEF RunReports
  <2>2. conn[k].outcome \in Phases
    BY <1>3, <1>11, HostedAssumption DEF RunReports, ConnOK, Phases, Terminal
  <2>3. TableOK(status', issued)
    BY <1>3, <1>11, <2>2 DEF RunReports, VmOK, TableOK, Table, ConnOK
  <2> QED  BY <1>11, <2>1, <2>3 DEF RunReports, VmOK, ConnsOK
<1>12. CASE RunFails(k)
  <2>1. ConnsOK
    BY <1>4, <1>12 DEF RunFails
  <2> QED  BY <1>12, <2>1 DEF RunFails, VmOK, ConnsOK
<1>13. CASE GuardDrops(k)
  <2>1. ConnsOK
    BY <1>1, <1>2, <1>13 DEF GuardDrops
  <2>2. TableOK(status', issued)
    BY <1>3, <1>13 DEF GuardDrops, VmOK, TableOK, Table, Phases, Terminal, ConnOK
  <2>3. pid' \in [Sessions -> Conns \cup {None}]
    BY <1>13 DEF GuardDrops, VmOK
  <2>4. keys' \subseteq issued /\ clobbered' \in BOOLEAN
    BY <1>3, <1>13 DEF GuardDrops, RewriteKeys, Without, ConnOK, VmOK
  <2> QED  BY <1>13, <2>1, <2>2, <2>3, <2>4 DEF GuardDrops, VmOK, ConnsOK
<1>15. CASE KeysRead(k)
  <2> DEFINE c == [conn[k] EXCEPT !.seen = keys,
                                  !.at = IF @ = "closing" THEN "removing" ELSE "dropping"]
  <2>1. ConnOK(c, issued)
    BY <1>3, <1>15 DEF KeysRead, ConnOK, ConnRecord, VmOK
  <2>2. conn' = [conn EXCEPT ![k] = c]
    BY <1>15 DEF KeysRead
  <2>3. ConnsOK
    BY <1>1, <2>1, <2>2
  <2> QED  BY <1>15, <2>3 DEF KeysRead, VmOK, ConnsOK
<1>16. CASE RunRemovesKey(k)
  <2> DEFINE c == [conn[k] EXCEPT !.seen = {}, !.at = "exiting"]
  <2>1. ConnOK(c, issued)
    BY <1>3, <1>16 DEF RunRemovesKey, ConnOK, ConnRecord
  <2>2. conn' = [conn EXCEPT ![k] = c]
    BY <1>16 DEF RunRemovesKey
  <2>3. ConnsOK
    BY <1>1, <2>1, <2>2
  <2>4. keys' \subseteq issued /\ clobbered' \in BOOLEAN
    BY <1>3, <1>16 DEF RunRemovesKey, RewriteKeys, Without, ConnOK, VmOK
  <2> QED  BY <1>16, <2>3, <2>4 DEF RunRemovesKey, VmOK, ConnsOK
<1>17. CASE RunnerDies(k)
  <2>1. ConnsOK
    BY <1>1, <1>2, <1>17 DEF RunnerDies
  <2> QED  BY <1>17, <2>1 DEF RunnerDies, VmOK, ConnsOK
<1> QED
  BY <1>5, <1>6, <1>7, <1>8, <1>9, <1>10, <1>11, <1>12, <1>13, <1>15, <1>16, <1>17
  DEF RunnerStep

RemoteStep ==
  \E ok \in BOOLEAN : Stage(ok) \/ InstallKey(ok) \/ CleanupStops(ok) \/ CleanupSweeps(ok)

ConnStep ==
  \E k \in Conns : (\E s \in Sessions : Connect(k, s)) \/ RunnerStep(k) \/ RunnerDies(k)

(* Three kinds of steps: those that leave the VM alone, those of a remote  *)
(* command, and those of a connection, which leave the controller alone.   *)
LEMMA StepKinds ==
  ASSUME Next
  PROVE  /\ \/ ControllerOnly /\ UNCHANGED vm
            \/ RemoteStep /\ UNCHANGED <<store, file, reading, issued>>
            \/ ConnStep /\ UNCHANGED controller
         /\ \E ok \in BOOLEAN : Fault \/ Sound(ok) \/ UNCHANGED faults
<1>1. ASSUME NEW s \in Sessions,
             CreateBegins(s) \/ VisitExpired(s) \/ VisitTerminal(s) \/ DeleteBegins(s)
               \/ GetAsks(s) \/ TimePasses(s)
      PROVE  UNCHANGED vm /\ UNCHANGED faults
  BY <1>1 DEF CreateBegins, VisitExpired, VisitTerminal, DeleteBegins, GetAsks, TimePasses
<1>2. ASSUME NEW s \in Sessions, NEW ok \in BOOLEAN, VisitLive(s, ok) \/ GetPuts(s, ok)
      PROVE  UNCHANGED vm /\ Sound(ok)
  BY <1>2 DEF VisitLive, GetPuts
<1>3. ASSUME NEW ok \in BOOLEAN, RecordVisit(ok) \/ Enter(ok) \/ MarkDestroyed(ok)
      PROVE  UNCHANGED vm /\ Sound(ok)
  BY <1>3 DEF RecordVisit, Enter, MarkDestroyed
<1>4. CreateRefused \/ CreateAdmitted \/ ExpireBegins \/ ExpireEnds
        => UNCHANGED vm /\ UNCHANGED faults
  BY DEF CreateRefused, CreateAdmitted, ExpireBegins, ExpireEnds
<1>5. CleanupFails \/ ControllerCrashes => UNCHANGED vm /\ Fault
  BY DEF CleanupFails, ControllerCrashes
<1>6. ControllerOnly => UNCHANGED vm
                        /\ \E ok \in BOOLEAN : Fault \/ Sound(ok) \/ UNCHANGED faults
  BY <1>1, <1>2, <1>3, <1>4, <1>5 DEF ControllerOnly
<1>7. ASSUME NEW ok \in BOOLEAN,
             Stage(ok) \/ InstallKey(ok) \/ CleanupStops(ok) \/ CleanupSweeps(ok)
      PROVE  UNCHANGED <<store, file, reading, issued>> /\ Sound(ok)
  BY <1>7 DEF Stage, InstallKey, CleanupStops, CleanupSweeps
<1>8. ConnStep => UNCHANGED controller /\ (Fault \/ UNCHANGED faults)
  <2>1. ASSUME NEW k \in Conns, RunnerStep(k)
        PROVE  UNCHANGED controller /\ (Fault \/ UNCHANGED faults)
    BY <2>1
    DEF RunnerStep, GuardStarts, RunActivates, RunPlays, RunCannotLoad, RunEnds, RunReports,
        RunFails, KeysRead, RunRemovesKey, GuardDrops
  <2> QED  BY <2>1 DEF ConnStep, Connect, RunnerDies
<1>9. ControllerOnly \/ RemoteStep \/ ConnStep
  BY DEF Next, ClientStep, OpStep, ControllerOnly, RemoteStep, ConnStep
<1> QED  BY <1>6, <1>7, <1>8, <1>9 DEF RemoteStep

LEMMA TypeStep ==
  ASSUME TypeInv, [Next]_vars
  PROVE  TypeInv' /\ issued \subseteq issued'
<1>1. ASSUME ControllerOnly, UNCHANGED vm PROVE ControllerOK' /\ VmOK' /\ issued \subseteq issued'
  <2>1. ControllerOK' /\ issued \subseteq issued'
    BY <1>1, ControllerTypes DEF TypeInv, VmOK
  <2>2. VmOK'
    BY <1>1, <2>1 DEF TypeInv, VmOK, TableOK, ConnOK, vm
  <2> QED  BY <2>1, <2>2
<1>2. ASSUME RemoteStep, UNCHANGED <<store, file, reading, issued>>
      PROVE  ControllerOK' /\ VmOK' /\ issued \subseteq issued'
  BY <1>2, RemoteTypes DEF RemoteStep, TypeInv
<1>3. ASSUME ConnStep, UNCHANGED controller
      PROVE  ControllerOK' /\ VmOK' /\ issued \subseteq issued'
  <2>1. VmOK'
    BY <1>3, RunnerTypes DEF ConnStep, TypeInv, ControllerOK, controller
  <2> QED  BY <1>3, <2>1 DEF controller, TypeInv, ControllerOK
<1>4. CASE Next
  <2>1. FaultsOK'
    BY <1>4, StepKinds, FaultTypes DEF TypeInv
  <2> QED  BY <1>1, <1>2, <1>3, <1>4, <2>1, StepKinds DEF TypeInv
<1>5. CASE UNCHANGED vars
  BY <1>5 DEF vars, controller, vm, TypeInv, ControllerOK, VmOK, FaultsOK
<1> QED  BY <1>4, <1>5

LEMMA TypeInvCorrect == Spec => []TypeInv
<1>1. TypeInv /\ [Next]_vars => TypeInv'
  BY TypeStep
<1> QED  BY <1>1, InitTypes, PTL DEF Spec

(* Every variable of the controller and of the VM keeps its type, and      *)
(* nothing exists on the VM for a session that was not issued.             *)
THEOREM HostedTypeCorrect == Spec => []TypeOK
BY TypeInvCorrect, TypeInvTypes, PTL

-----------------------------------------------------------------------------
(* Access.  That destroyed means without a key rests on two things: the    *)
(* key goes before the status is written, and a key is only ever installed *)
(* for a session that nothing has seen yet, so no late status request, no  *)
(* runner and no other operation can be holding an answer about it.  Until *)
(* a rewrite of authorized_keys undoes another change, removing a key does *)
(* what it says, whatever was read before it.                              *)
Unused(s) ==
  /\ store[s] = "unknown" /\ file[s] = "unknown" /\ reading[s] = "unknown"
  /\ s \notin keys
  /\ \A k \in Conns : conn[k].at # "closed" => conn[k].on # s

Creating == op.kind = "create" /\ op.at # "enter"

Fresh ==
  /\ Creating => Unused(op.for) /\ op.for \notin op.todo /\ op.on # op.for
  /\ op.at = "install" => op.for \in staged /\ status[op.for] = "ready"

Answered ==
  /\ op.at = "record" /\ op.answer = "destroyed" => op.on \notin keys
  /\ op.at = "mark" => op.on \notin keys

Provisioned == \A s \in keys : s \in staged /\ status[s] # "unknown"

Access == Fresh /\ Answered /\ DestroyedWithoutKey /\ Provisioned

(* A put changes one session; the file may also catch up with memory.      *)
LEMMA PutMoves ==
  ASSUME ControllerOK, NEW s \in Sessions, NEW phase, NEW ok \in BOOLEAN, Put(s, phase, ok)
  PROVE  \A t \in Sessions :
           /\ store'[t] = store[t] \/ (t = s /\ store'[t] = phase)
           /\ file'[t] = file[t] \/ file'[t] = store[t] \/ (t = s /\ file'[t] = phase)
BY DEF Put, ControllerOK, TableOK, Table

(* What the fields of the next operation are.                              *)
LEMMA OpFields ==
  ASSUME TypeInv
  PROVE  /\ Free.kind = "none" /\ Free.at = "done"
         /\ \A s : /\ Visiting(s).kind = op.kind /\ Visiting(s).for = op.for
                   /\ Visiting(s).at = "clean" /\ Visiting(s).on = s
                   /\ Visiting(s).todo = op.todo /\ Visiting(s).over = op.over
         /\ \A s : /\ Skipping(s).kind = op.kind /\ Skipping(s).for = op.for
                   /\ Skipping(s).at = "visit" /\ Skipping(s).on = None
                   /\ Skipping(s).todo = op.todo \ {s} /\ Skipping(s).over = op.over \ {s}
         /\ Undo.kind = "undo" /\ Undo.at = "clean"
<1>1. op \in Operations
  BY DEF TypeInv, ControllerOK, OpOK
<1>2. ASSUME NEW s
      PROVE  /\ Visiting(s).kind = op.kind /\ Visiting(s).for = op.for
             /\ Visiting(s).at = "clean" /\ Visiting(s).on = s
             /\ Visiting(s).todo = op.todo /\ Visiting(s).over = op.over
  BY <1>1 DEF Operations, Visiting
<1>3. ASSUME NEW s
      PROVE  /\ Skipping(s).kind = op.kind /\ Skipping(s).for = op.for
             /\ Skipping(s).at = "visit" /\ Skipping(s).on = None
             /\ Skipping(s).todo = op.todo \ {s} /\ Skipping(s).over = op.over \ {s}
  <2>1. /\ Skipping(s).kind = op.kind /\ Skipping(s).for = op.for
        /\ Skipping(s).at = "visit" /\ Skipping(s).on = None
    BY <1>1 DEF Operations, Skipping
  <2>2. Skipping(s).todo = op.todo \ {s}
    BY <1>1 DEF Operations, Skipping
  <2>3. Skipping(s).over = op.over \ {s}
    BY <1>1 DEF Operations, Skipping
  <2> QED  BY <2>1, <2>2, <2>3
<1>4. Undo.kind = "undo" /\ Undo.at = "clean"
  BY <1>1 DEF Operations, Undo
<1>5. Free.kind = "none" /\ Free.at = "done"
  BY DEF Free
<1> QED  BY <1>2, <1>3, <1>4, <1>5

(* The steps that leave the VM alone keep the invariant.                   *)
LEMMA AccessController ==
  ASSUME TypeInv, Access, ControllerOnly, UNCHANGED vm
  PROVE  Access'
<1> USE DEF Access, Fresh, Answered, DestroyedWithoutKey, Provisioned, Creating, Unused, vm
<1>0. /\ op \in Operations /\ op.todo \subseteq issued /\ issued \subseteq Sessions
      /\ op.kind = "create" => op.for \in issued
      /\ op.at \in {"clean", "sweep", "mark", "record"} => op.on \in issued
      /\ None \notin Sessions
  BY HostedAssumption DEF TypeInv, ControllerOK, OpOK
<1>1. ASSUME NEW s \in Sessions, CreateBegins(s) PROVE Access'
  <2>1. /\ op'.kind = "create" /\ op'.for = s /\ op'.at = "visit" /\ op'.on = None
        /\ op'.todo = Kept
    BY <1>1 DEF CreateBegins, Free
  <2>2. Unused(s) /\ s \notin Kept
    BY <1>1 DEF CreateBegins, Kept, TypeInv, ControllerOK, VmOK, TableOK, ConnOK
  <2> QED  BY <1>0, <1>1, <2>1, <2>2 DEF CreateBegins
<1>2. ASSUME NEW s \in Sessions, VisitExpired(s) PROVE Access'
  BY <1>0, <1>2, OpFields DEF VisitExpired
<1>3. ASSUME NEW s \in Sessions, VisitTerminal(s) PROVE Access'
  <2>1. op' = Skipping(s) /\ UNCHANGED <<store, file, reading>>
    BY <1>3 DEF VisitTerminal
  <2>2. op.kind = "create" /\ op.at = "visit" /\ s \in op.todo
    BY <1>3 DEF VisitTerminal, Holding
  <2>3. Fresh' /\ Answered'
    BY <1>0, <2>1, <2>2, OpFields
  <2> QED  BY <2>1, <2>3
<1>4. ASSUME NEW s \in Sessions, NEW ok \in BOOLEAN, VisitLive(s, ok) PROVE Access'
  <2>1. CASE op' = [op EXCEPT !.on = s, !.at = "record", !.answer = status[s]]
    <3>1. /\ op'.kind = op.kind /\ op'.for = op.for /\ op'.at = "record" /\ op'.on = s
          /\ op'.todo = op.todo /\ op'.answer = status[s]
      BY <2>1, <1>0 DEF Operations
    <3>2. s \in op.todo /\ op.kind = "create" /\ op.at = "visit"
      BY <1>4 DEF VisitLive, Holding
    <3> QED  BY <1>0, <1>4, <3>1, <3>2 DEF VisitLive
  <2>2. CASE op' = Free
    BY <1>4, <2>2, OpFields, ZenonT(30) DEF VisitLive
  <2> QED  BY <1>4, <2>1, <2>2 DEF VisitLive
<1>5. ASSUME NEW ok \in BOOLEAN, RecordVisit(ok) PROVE Access'
  <2>1. op.on \in Sessions /\ Put(op.on, op.answer, ok) /\ op.at = "record"
    BY <1>0, <1>5 DEF RecordVisit
  <2>2. \A t \in Sessions :
          /\ store'[t] = store[t] \/ (t = op.on /\ store'[t] = op.answer)
          /\ file'[t] = file[t] \/ file'[t] = store[t] \/ (t = op.on /\ file'[t] = op.answer)
    BY <2>1, PutMoves DEF TypeInv
  <2>3. op' = Free \/ op' = Skipping(op.on)
    BY <1>5 DEF RecordVisit, NextVisit
  <2>4. Fresh' /\ Answered'
    BY <1>0, <1>5, <2>1, <2>2, <2>3, OpFields DEF RecordVisit
  <2>5. DestroyedWithoutKey'
    BY <1>5, <2>1, <2>2 DEF RecordVisit
  <2> QED  BY <1>5, <2>4, <2>5
<1>6. CASE CreateRefused \/ ExpireEnds
  BY <1>6, OpFields DEF CreateRefused, ExpireEnds
<1>7. CASE CreateAdmitted
  <2>1. /\ op'.kind = "create" /\ op'.for = op.for /\ op'.at = "stage" /\ op'.on = op.on
        /\ op'.todo = op.todo
    BY <1>0, <1>7 DEF CreateAdmitted, Holding, Operations
  <2> QED  BY <1>7, <2>1 DEF CreateAdmitted, Holding
<1>8. ASSUME NEW ok \in BOOLEAN, Enter(ok) PROVE Access'
  <2>1. op.for \in Sessions /\ Put(op.for, "ready", ok)
    BY <1>0, <1>8 DEF Enter, Holding
  <2>2. \A t \in Sessions :
          /\ store'[t] = store[t] \/ store'[t] = "ready"
          /\ file'[t] = file[t] \/ file'[t] = store[t] \/ file'[t] = "ready"
    BY <2>1, PutMoves DEF TypeInv
  <2> QED  BY <1>8, <2>2, OpFields DEF Enter
<1>9. ASSUME NEW s \in Sessions, DeleteBegins(s) PROVE Access'
  <2>1. op'.kind = "delete" /\ op'.at = "clean"
    BY <1>9 DEF DeleteBegins, Free
  <2> QED  BY <1>9, <2>1 DEF DeleteBegins
<1>10. CASE ExpireBegins
  <2>1. op'.kind = "expire" /\ op'.at = "visit"
    BY <1>10 DEF ExpireBegins, Free
  <2> QED  BY <1>10, <2>1 DEF ExpireBegins
<1>11. CASE CleanupFails
  <2>1. op' = Free \/ op' = Skipping(op.on)
    BY <1>11 DEF CleanupFails, AfterFailure, NextVisit
  <2> QED  BY <1>0, <1>11, <2>1, OpFields DEF CleanupFails
<1>12. ASSUME NEW ok \in BOOLEAN, MarkDestroyed(ok) PROVE Access'
  <2>1. op.on \in Sessions /\ Put(op.on, "destroyed", ok) /\ op.at = "mark"
    BY <1>0, <1>12 DEF MarkDestroyed
  <2>2. \A t \in Sessions :
          /\ store'[t] = store[t] \/ (t = op.on /\ store'[t] = "destroyed")
          /\ file'[t] = file[t] \/ file'[t] = store[t] \/ (t = op.on /\ file'[t] = "destroyed")
    BY <2>1, PutMoves DEF TypeInv
  <2>3. op' = Free \/ op' = Skipping(op.on)
    BY <1>12 DEF MarkDestroyed, AfterMark, AfterFailure, NextVisit
  <2>4. Fresh' /\ Answered'
    BY <1>0, <1>12, <2>1, <2>2, <2>3, OpFields DEF MarkDestroyed
  <2>5. DestroyedWithoutKey'
    BY <1>12, <2>1, <2>2 DEF MarkDestroyed
  <2> QED  BY <1>12, <2>4, <2>5
<1>13. ASSUME NEW s \in Sessions, GetAsks(s) PROVE Access'
  BY <1>0, <1>13 DEF GetAsks, TypeInv, ControllerOK, TableOK, Table
<1>14. ASSUME NEW s \in Sessions, NEW ok \in BOOLEAN, GetPuts(s, ok) PROVE Access'
  <2>1. \A t \in Sessions :
          /\ store'[t] = store[t] \/ (t = s /\ store'[t] = reading[s])
          /\ file'[t] = file[t] \/ file'[t] = store[t] \/ (t = s /\ file'[t] = reading[s])
    BY <1>14, PutMoves DEF GetPuts, TypeInv
  <2>2. \A t \in Sessions : reading'[t] \in {reading[t], "unknown"}
    BY <1>14 DEF GetPuts, TypeInv, ControllerOK, TableOK, Table
  <2>3. reading[s] # "unknown" /\ op' = op
    BY <1>14 DEF GetPuts
  <2>4. Fresh'
    BY <1>0, <2>1, <2>2, <2>3
  <2>5. DestroyedWithoutKey'
    BY <2>1, <2>2
  <2> QED  BY <2>3, <2>4, <2>5
<1>15. ASSUME NEW s \in Sessions, TimePasses(s) PROVE Access'
  BY <1>15 DEF TimePasses
<1>16. CASE ControllerCrashes
  BY <1>16, OpFields DEF ControllerCrashes
<1> QED
  BY <1>1, <1>2, <1>3, <1>4, <1>5, <1>6, <1>7, <1>8, <1>9, <1>10, <1>11, <1>12, <1>13,
     <1>14, <1>15, <1>16 DEF ControllerOnly

(* The remote commands: create's come before anything has seen its session,*)
(* and cleanup writes "destroyed" in the step that has removed the key.    *)
LEMMA AccessRemote ==
  ASSUME TypeInv, Access, ~clobbered', NEW ok \in BOOLEAN,
         Stage(ok) \/ InstallKey(ok) \/ CleanupStops(ok) \/ CleanupSweeps(ok)
  PROVE  Access'
<1> USE DEF Access, Fresh, Answered, DestroyedWithoutKey, Provisioned, Creating, Unused
<1>0. /\ op \in Operations /\ op.todo \subseteq issued /\ issued \subseteq Sessions
      /\ op.kind = "create" => op.for \in issued
      /\ op.at \in {"clean", "sweep", "mark", "record"} => op.on \in issued
      /\ op.at \in {"stage", "install", "enter"} => op.kind = "create"
      /\ status \in Table /\ keys \subseteq issued
      /\ \A k \in Conns : ConnOK(conn[k], issued)
  BY DEF TypeInv, ControllerOK, OpOK, VmOK, TableOK
<1>1. CASE Stage(ok)
  <2>1. op.for \in issued /\ op.kind = "create" /\ op.at = "stage" /\ Unused(op.for)
    BY <1>0, <1>1 DEF Stage, Holding
  <2>2. CASE ok
    <3>1. /\ op'.kind = op.kind /\ op'.for = op.for /\ op'.at = "install" /\ op'.on = op.on
          /\ op'.todo = op.todo
      BY <1>0, <1>1, <2>2 DEF Stage, Operations
    <3>2. status' = [status EXCEPT ![op.for] = "ready"] /\ staged' = staged \cup {op.for}
      BY <1>1, <2>2 DEF Stage
    <3>3. Fresh' /\ Answered'
      BY <1>0, <1>1, <2>1, <3>1, <3>2 DEF Stage, Table
    <3> QED  BY <1>0, <1>1, <2>1, <3>2, <3>3 DEF Stage, Table
  <2>3. CASE ~ok
    <3>1. op'.kind = "undo" /\ op'.at = "clean"
      BY <1>1, <2>3, OpFields DEF Stage
    <3> QED  BY <1>1, <2>3, <3>1 DEF Stage
  <2> QED  BY <2>2, <2>3
<1>2. CASE InstallKey(ok)
  <2>1. /\ op.for \in issued /\ op.kind = "create" /\ op.at = "install" /\ Unused(op.for)
        /\ op.for \in staged /\ status[op.for] = "ready"
    BY <1>0, <1>2 DEF InstallKey, Holding
  <2>2. op'.at = "enter" \/ (op'.kind = "undo" /\ op'.at = "clean")
    BY <1>0, <1>2, OpFields DEF InstallKey, Operations
  <2>3. DestroyedWithoutKey' /\ Provisioned'
    BY <1>2, <2>1 DEF InstallKey
  <2> QED  BY <2>2, <2>3
<1>3. CASE CleanupStops(ok)
  <2>1. op'.kind = op.kind /\ op'.at = "sweep" /\ op'.for = op.for /\ op'.on = op.on
        /\ op'.todo = op.todo
    BY <1>0, <1>3 DEF CleanupStops, Operations
  <2>2. \A k \in Conns : conn'[k] = conn[k] \/ conn'[k].at = "closed"
    BY <1>3 DEF CleanupStops, NoConn
  <2>3. Fresh'
    BY <1>0, <1>3, <2>1, <2>2 DEF CleanupStops
  <2> QED  BY <1>3, <2>1, <2>3 DEF CleanupStops
<1>4. CASE CleanupSweeps(ok)
  <2>1. op.at = "sweep" /\ op.on \in issued /\ keys' = keys \ {op.on}
    BY <1>0, <1>4 DEF CleanupSweeps, RewriteKeys, Without
  <2>2. \A s \in Sessions \ {op.on} :
          (s \in staged <=> s \in staged') /\ status'[s] = status[s]
    <3>1. \/ staged' = staged \ {op.on} /\ status' = [status EXCEPT ![op.on] = "destroyed"]
          \/ staged' = staged /\ status' = status
      BY <1>4 DEF CleanupSweeps
    <3> QED  BY <1>0, <3>1 DEF Table
  <2>3. \/ op'.at = "done" /\ op'.kind = "none"
        \/ op'.at = "mark" /\ op'.on = op.on /\ op'.kind = op.kind /\ op'.for = op.for
           /\ op'.todo = op.todo
        \/ op' = Skipping(op.on)
    <3>1. op' = AfterCleanup \/ op' = AfterFailure
      BY <1>4 DEF CleanupSweeps
    <3>2. CASE op' = [op EXCEPT !.at = "mark", !.answer = "unknown", !.seen = {}]
      BY <1>0, <3>2 DEF Operations
    <3> QED  BY <3>1, <3>2, OpFields DEF AfterCleanup, AfterFailure, NextVisit
  <2>4. op.kind = "create" => op.for # op.on
    BY <2>1
  <2>5. UNCHANGED <<store, file, reading, conn>>
    BY <1>4 DEF CleanupSweeps
  <2>6. Fresh' /\ Answered'
    BY <1>0, <2>1, <2>2, <2>3, <2>4, <2>5, OpFields, HostedAssumption
  <2>7. DestroyedWithoutKey' /\ Provisioned'
    BY <1>0, <2>1, <2>2, <2>5
  <2> QED  BY <2>6, <2>7
<1> QED  BY <1>1, <1>2, <1>3, <1>4

(* A runner only ever removes its own key, and writes a status that is not *)
(* "destroyed" and not "unknown"; a connection needs a key, which the      *)
(* session create is still setting up does not have.                       *)
LEMMA AccessRunner ==
  ASSUME TypeInv, Access, ~clobbered', ConnStep, UNCHANGED controller
  PROVE  Access'
<1> USE DEF Access, Fresh, Answered, DestroyedWithoutKey, Provisioned, Creating, Unused
<1>0. /\ status \in Table /\ keys \subseteq issued /\ issued \subseteq Sessions
      /\ op \in Operations
      /\ op.kind = "create" => op.for \in issued
      /\ op.at \in {"clean", "sweep", "mark", "record"} => op.on \in issued
      /\ DOMAIN conn = Conns
      /\ \A k \in Conns : ConnOK(conn[k], issued)
  BY DEF TypeInv, ControllerOK, OpOK, VmOK, TableOK
<1>1. UNCHANGED <<store, file, reading, op>>
  BY DEF controller
<1> DEFINE
      Calm == /\ keys' \subseteq keys /\ staged' = staged
              /\ \A s \in Sessions :
                   \/ status'[s] = status[s]
                   \/ /\ status'[s] \notin {"unknown", "destroyed"}
                      /\ \E k \in Conns : conn[k].at # "closed" /\ conn[k].on = s
              /\ \A k \in Conns : \/ conn'[k].at = "closed"
                                  \/ conn'[k].on = conn[k].on /\ conn[k].at # "closed"
                                  \/ conn'[k].on \in keys
<1>2. ASSUME Calm PROVE Access'
  <2>1. Creating => \A k \in Conns : conn'[k].at # "closed" => conn'[k].on # op.for
    BY <1>2
  <2>2. Creating => status'[op.for] = status[op.for]
    BY <1>0, <1>2
  <2>3. (op.at = "install") => op.for \in staged' /\ status'[op.for] = "ready"
    BY <1>0, <1>2, <2>2 DEF TypeInv, ControllerOK, OpOK
  <2>4. Fresh' /\ Answered'
    BY <1>1, <1>2, <2>1, <2>3
  <2> QED  BY <1>0, <1>1, <1>2, <2>4
<1>3. ASSUME NEW k \in Conns, NEW s \in Sessions, Connect(k, s) PROVE Calm
  BY <1>0, <1>3 DEF Connect, NoConn
<1>4. ASSUME NEW k \in Conns, NEW place, Go(k, place), conn[k].at # "closed"
      PROVE  \A j \in Conns : conn'[j].on = conn[j].on /\ (conn'[j] = conn[j] \/ j = k)
  BY <1>0, <1>4 DEF Go, ConnOK, ConnRecord
<1>5. ASSUME NEW k \in Conns, conn[k].at # "closed", conn' = [conn EXCEPT ![k] = NoConn]
      PROVE  \A j \in Conns : conn'[j].at = "closed" \/ conn'[j] = conn[j]
  BY <1>0, <1>5 DEF NoConn
<1>6. ASSUME NEW k \in Conns, RunnerStep(k) PROVE Calm
  <2>1. CASE GuardStarts(k) \/ RunPlays(k) \/ RunCannotLoad(k) \/ RunFails(k)
    BY <1>4, <2>1 DEF GuardStarts, RunPlays, RunCannotLoad, RunFails
  <2>2. CASE RunActivates(k)
    BY <1>0, <1>4, <2>2 DEF RunActivates, Table
  <2>3. ASSUME NEW outcome \in Outcomes, RunEnds(k, outcome) PROVE Calm
    <3>1. \A j \in Conns : conn'[j].on = conn[j].on /\ (conn'[j] = conn[j] \/ j = k)
      BY <1>0, <2>3 DEF RunEnds, ConnOK, ConnRecord
    <3> QED  BY <2>3, <3>1 DEF RunEnds
  <2>4. CASE RunReports(k)
    <3>1. conn[k].outcome \notin {"unknown", "destroyed"}
      BY <1>0, <2>4, HostedAssumption DEF RunReports, ConnOK
    <3> QED  BY <1>0, <1>4, <2>4, <3>1 DEF RunReports, Table
  <2>5. CASE GuardDrops(k)
    <3>1. status' = status \/ status' = [status EXCEPT ![conn[k].on] = "failed"]
      BY <2>5 DEF GuardDrops
    <3>2. keys' \subseteq keys
      BY <2>5 DEF GuardDrops, RewriteKeys, Without
    <3> QED  BY <1>0, <1>5, <2>5, <3>1, <3>2 DEF GuardDrops, Table
  <2>6. CASE KeysRead(k)
    <3>1. \A j \in Conns : conn'[j].on = conn[j].on /\ (conn'[j] = conn[j] \/ j = k)
      BY <1>0, <2>6 DEF KeysRead, ConnOK, ConnRecord
    <3> QED  BY <2>6, <3>1 DEF KeysRead
  <2>7. CASE RunRemovesKey(k)
    <3>1. \A j \in Conns : conn'[j].on = conn[j].on /\ (conn'[j] = conn[j] \/ j = k)
      BY <1>0, <2>7 DEF RunRemovesKey, ConnOK, ConnRecord
    <3>2. keys' \subseteq keys
      BY <2>7 DEF RunRemovesKey, RewriteKeys, Without
    <3> QED  BY <2>7, <3>1, <3>2 DEF RunRemovesKey
  <2> QED  BY <1>6, <2>1, <2>2, <2>3, <2>4, <2>5, <2>6, <2>7 DEF RunnerStep
<1>7. ASSUME NEW k \in Conns, RunnerDies(k) PROVE Calm
  BY <1>5, <1>7 DEF RunnerDies
<1> QED  BY <1>2, <1>3, <1>6, <1>7 DEF ConnStep

(* Nothing takes back that a change was undone.                            *)
LEMMA ClobberedStays ==
  ASSUME TypeInv, clobbered, Next
  PROVE  clobbered'
<1>1. ASSUME NEW ok \in BOOLEAN,
             Stage(ok) \/ InstallKey(ok) \/ CleanupStops(ok) \/ CleanupSweeps(ok)
      PROVE  clobbered'
  BY <1>1 DEF Stage, InstallKey, CleanupStops, CleanupSweeps, RewriteKeys
<1>2. ASSUME NEW k \in Conns, RunnerStep(k) PROVE clobbered'
  BY <1>2
  DEF RunnerStep, GuardStarts, RunActivates, RunPlays, RunCannotLoad, RunEnds, RunReports,
      RunFails, KeysRead, RunRemovesKey, GuardDrops, RewriteKeys
<1>3. ASSUME NEW k \in Conns, (\E s \in Sessions : Connect(k, s)) \/ RunnerDies(k)
      PROVE  clobbered'
  BY <1>3 DEF Connect, RunnerDies
<1>4. UNCHANGED vm => clobbered'
  BY DEF vm
<1> QED  BY <1>1, <1>2, <1>3, <1>4, StepKinds DEF RemoteStep, ConnStep

LEMMA AccessCorrect == Spec => [](~clobbered => Access)
<1>1. Init => Access
  BY DEF Init, Access, Fresh, Answered, DestroyedWithoutKey, Provisioned, Creating, Free
<1>2. TypeInv /\ (~clobbered => Access) /\ [Next]_vars => (~clobbered => Access)'
  <2> SUFFICES ASSUME TypeInv, ~clobbered => Access, [Next]_vars, ~clobbered' PROVE Access'
    OBVIOUS
  <2>1. CASE Next
    <3>1. ~clobbered
      BY <2>1, ClobberedStays
    <3> QED
      BY <2>1, <3>1, StepKinds, AccessController, AccessRemote, AccessRunner DEF RemoteStep
  <2>2. CASE UNCHANGED vars
    BY <2>2 DEF vars, controller, vm, Access, Fresh, Answered, DestroyedWithoutKey,
                Provisioned, Creating, Unused
  <2> QED  BY <2>1, <2>2
<1> QED  BY <1>1, <1>2, TypeInvCorrect, PTL DEF Spec

(* A session anybody was told is destroyed has no key on the VM, for any   *)
(* number of sessions, connections, status requests and faults, unless two *)
(* changes of authorized_keys overlapped: overlap is the only way.         *)
THEOREM DestroyedTheorem == Spec => []DestroyedHasNoKey
<1>1. (~clobbered => Access) => DestroyedHasNoKey
  BY DEF Access, DestroyedHasNoKey
<1> QED  BY <1>1, AccessCorrect, PTL

(* A key that can be used has its scenario staged and its status set up,   *)
(* under the same condition.                                               *)
THEOREM ProvisionedTheorem == Spec => []KeysAreProvisioned
<1>1. (~clobbered => Access) => KeysAreProvisioned
  BY DEF Access, KeysAreProvisioned, Provisioned
<1> QED  BY <1>1, AccessCorrect, PTL

-----------------------------------------------------------------------------
(* One live session.  While nobody asks for a status only the operation    *)
(* that holds the lock writes the store, and the file says what memory     *)
(* says.  A create asks the VM only about what it has seen live, and puts  *)
(* its own session, unknown until then, when it has seen that none is.     *)
Admitted == op.at \in {"stage", "install", "enter"}

Admits ==
  /\ file = store /\ \A s \in Sessions : reading[s] = "unknown"
  /\ OneLive(store)
  /\ op.at = "record" => op.kind = "create" /\ Live(store[op.on])
  /\ op.kind = "create" =>
       /\ store[op.for] = "unknown" /\ op.for \notin op.todo /\ op.on # op.for
       /\ IF Admitted THEN \A s \in Sessions : ~ Live(store[s])
                      ELSE \A s \in op.todo \ op.over : Live(store[s])

StaysOver == \A s \in Sessions : store[s] \in Terminal => store'[s] \in Terminal

(* A put of the operation: memory and file stay the same.                  *)
LEMMA PutAgrees ==
  ASSUME ControllerOK, NEW s \in Sessions, NEW phase, NEW ok \in BOOLEAN, Put(s, phase, ok),
         file = store
  PROVE  /\ file' = store'
         /\ \A t \in Sessions : store'[t] = store[t] \/ (t = s /\ store'[t] = phase)
         /\ ok => store'[s] = phase
         /\ ~ ok => store' = store
BY DEF Put, ControllerOK, TableOK, Table

(* The steps that put nothing.                                             *)
LEMMA AdmitsWithoutPut ==
  ASSUME TypeInv, Admits, Next, UNCHANGED <<store, file, reading>>
  PROVE  Admits' /\ StaysOver
<1> USE DEF Admits, Admitted
<1>0. /\ op \in Operations /\ op.todo \subseteq issued /\ issued \subseteq Sessions
      /\ op.kind = "create" => op.for \in issued
      /\ op.at \in {"clean", "sweep", "mark", "record"} => op.on \in issued
      /\ Admitted => op.kind = "create"
      /\ None \notin Sessions /\ store \in Table
      /\ \A s \in Sessions \ issued : store[s] = "unknown"
  BY HostedAssumption DEF TypeInv, ControllerOK, OpOK, TableOK
<1>1. OneLive(store)' /\ StaysOver
  BY DEF OneLive, StaysOver
<1>2. CASE op' = op
  BY <1>1, <1>2
<1>3. CASE op'.kind # "create" /\ op'.at # "record"
  BY <1>1, <1>3
<1>4. CASE op' = Free
  BY <1>3, <1>4, OpFields
<1>5. ASSUME NEW s \in Sessions, CreateBegins(s) PROVE Admits'
  <2>1. /\ op'.kind = "create" /\ op'.for = s /\ op'.at = "visit" /\ op'.on = None
        /\ op'.todo = Kept /\ op'.over = Over
    BY <1>5 DEF CreateBegins, Free
  <2>2. store[s] = "unknown" /\ s \notin Kept
    BY <1>0, <1>5 DEF CreateBegins, Kept
  <2>3. \A t \in Kept \ Over : Live(store[t])
    BY <1>0 DEF Kept, Over, Table, Phases, Live, Terminal
  <2> QED  BY <1>0, <1>1, <2>1, <2>2, <2>3
<1>6. ASSUME NEW s \in Sessions, VisitExpired(s) PROVE Admits'
  <2>1. op.at = "visit" /\ s \in op.todo /\ op' = Visiting(s)
    BY <1>6 DEF VisitExpired
  <2> QED  BY <1>0, <1>1, <2>1, OpFields
<1>7. ASSUME NEW s, op' = Skipping(s), ~ Admitted PROVE Admits'
  BY <1>0, <1>1, <1>7, OpFields
<1>8. ASSUME NEW s \in Sessions, NEW ok \in BOOLEAN, VisitLive(s, ok) PROVE Admits'
  <2>1. CASE op' = [op EXCEPT !.on = s, !.at = "record", !.answer = status[s]]
    <3>1. /\ op'.kind = op.kind /\ op'.for = op.for /\ op'.at = "record" /\ op'.on = s
          /\ op'.todo = op.todo /\ op'.over = op.over
      BY <2>1, <1>0 DEF Operations
    <3>2. s \in op.todo \ op.over /\ op.kind = "create" /\ op.at = "visit"
      BY <1>8 DEF VisitLive, Holding
    <3> QED  BY <1>0, <1>1, <3>1, <3>2
  <2> QED  BY <1>4, <1>8, <2>1 DEF VisitLive
<1>9. CASE CreateAdmitted
  <2>1. /\ op'.kind = "create" /\ op'.for = op.for /\ op'.at = "stage" /\ op'.on = op.on
        /\ op'.todo = op.todo /\ op.kind = "create"
    BY <1>0, <1>9 DEF CreateAdmitted, Holding, Operations
  <2>2. \A s \in Sessions : ~ Live(store[s])
    BY <1>9 DEF CreateAdmitted, Vacant, Live, Terminal
  <2> QED  BY <1>1, <2>1, <2>2
<1>10. ASSUME NEW ok \in BOOLEAN, Stage(ok) \/ InstallKey(ok) PROVE Admits'
  <2>1. CASE op' = Undo
    BY <1>3, <2>1, OpFields
  <2>2. CASE op' = [op EXCEPT !.at = "install"] \/ op' = [op EXCEPT !.at = "enter"]
    <3>1. /\ op'.kind = op.kind /\ op'.for = op.for /\ op'.on = op.on /\ op'.todo = op.todo
          /\ op'.at \in {"install", "enter"}
      BY <1>0, <2>2 DEF Operations
    <3>2. Admitted
      BY <1>10 DEF Stage, InstallKey, Holding
    <3> QED  BY <1>0, <1>1, <3>1, <3>2
  <2> QED  BY <1>10, <2>1, <2>2 DEF Stage, InstallKey
<1>11. ASSUME NEW p \in {"sweep", "mark"}, op' = [op EXCEPT !.at = p, !.answer = op'.answer, !.seen = op'.seen],
              ~ Admitted
       PROVE  Admits'
  <2>1. /\ op'.kind = op.kind /\ op'.for = op.for /\ op'.on = op.on /\ op'.todo = op.todo
        /\ op'.at \in {"sweep", "mark"} /\ op'.over = op.over
    BY <1>0, <1>11 DEF Operations
  <2> QED  BY <1>0, <1>1, <1>11, <2>1
<1>12. CASE CreateRefused \/ ExpireEnds \/ ControllerCrashes
  BY <1>4, <1>12 DEF CreateRefused, ExpireEnds, ControllerCrashes
<1>13. ASSUME NEW s \in Sessions, DeleteBegins(s) PROVE Admits'
  <2>1. op'.kind = "delete" /\ op'.at = "clean"
    BY <1>13 DEF DeleteBegins, Free
  <2> QED  BY <1>3, <2>1
<1>14. CASE ExpireBegins
  <2>1. op'.kind = "expire" /\ op'.at = "visit"
    BY <1>14 DEF ExpireBegins, Free
  <2> QED  BY <1>3, <2>1
<1>15. CASE CleanupFails
  <2>1. op' = Free \/ op' = Skipping(op.on)
    BY <1>15 DEF CleanupFails, AfterFailure, NextVisit
  <2>2. ~ Admitted
    BY <1>15 DEF CleanupFails
  <2> QED  BY <1>1, <1>4, <1>7, <2>1, <2>2
<1>16. ASSUME NEW ok \in BOOLEAN, CleanupStops(ok) PROVE Admits'
  <2>1. ~ Admitted
    BY <1>16 DEF CleanupStops
  <2>2. op' = [op EXCEPT !.at = "sweep", !.answer = IF ok THEN "stopped" ELSE "stuck", !.seen = keys]
    BY <1>16 DEF CleanupStops
  <2>3. op' = [op EXCEPT !.at = "sweep", !.answer = op'.answer, !.seen = op'.seen]
    BY <1>0, <2>2 DEF Operations
  <2> QED  BY <1>11, <2>1, <2>3
<1>17. ASSUME NEW ok \in BOOLEAN, CleanupSweeps(ok) PROVE Admits'
  <2>1. ~ Admitted
    BY <1>17 DEF CleanupSweeps
  <2>2. CASE op' = [op EXCEPT !.at = "mark", !.answer = "unknown", !.seen = {}]
    <3>1. op' = [op EXCEPT !.at = "mark", !.answer = op'.answer, !.seen = op'.seen]
      BY <1>0, <2>2 DEF Operations
    <3> QED  BY <1>11, <2>1, <3>1
  <2>3. CASE op' = Free \/ op' = Skipping(op.on)
    BY <1>4, <1>7, <2>1, <2>3
  <2> QED
    BY <1>17, <2>2, <2>3 DEF CleanupSweeps, AfterCleanup, AfterFailure, NextVisit
<1>18. ASSUME NEW ok \in BOOLEAN, RecordVisit(ok) \/ Enter(ok) \/ MarkDestroyed(ok) PROVE Admits'
  <2>1. CASE op' = Undo
    BY <1>3, <2>1, OpFields
  <2>2. CASE op' = Skipping(op.on) /\ op.at \in {"record", "mark"}
    BY <1>7, <2>2
  <2>3. CASE op' = Free
    BY <1>4, <2>3
  <2> QED
    BY <1>18, <2>1, <2>2, <2>3 DEF RecordVisit, Enter, MarkDestroyed, AfterMark, AfterFailure, NextVisit
<1>19. ASSUME NEW s \in Sessions, VisitTerminal(s) PROVE Admits'
  BY <1>7, <1>19 DEF VisitTerminal, Holding
<1>20. ASSUME NEW s \in Sessions, GetAsks(s) \/ TimePasses(s) \/ \E ok \in BOOLEAN : GetPuts(s, ok)
       PROVE  Admits'
  BY <1>2, <1>20 DEF GetAsks, TimePasses, GetPuts
<1>21. CASE ConnStep
  <2>1. UNCHANGED controller
    BY <1>21
    DEF ConnStep, Connect, RunnerStep, RunnerDies, GuardStarts, RunActivates, RunPlays,
        RunCannotLoad, RunEnds, RunReports, RunFails, KeysRead, RunRemovesKey, GuardDrops
  <2> QED  BY <1>2, <2>1 DEF controller
<1> HIDE DEF Admits, Admitted
<1> QED
  BY <1>1, <1>5, <1>6, <1>8, <1>9, <1>10, <1>12, <1>13, <1>14, <1>15, <1>16, <1>17, <1>18,
     <1>19, <1>20, <1>21
  DEF Next, ClientStep, OpStep, ConnStep

LEMMA AdmitsStep ==
  ASSUME TypeInv, Admits, reads = 0, Next
  PROVE  (reads' = 0 => Admits') /\ StaysOver
<1> USE DEF Admits, Admitted
<1>0. /\ op \in Operations /\ op.todo \subseteq issued /\ issued \subseteq Sessions
      /\ op.kind = "create" => op.for \in issued
      /\ op.at \in {"clean", "sweep", "mark", "record"} => op.on \in issued
      /\ Admitted => op.kind = "create"
      /\ None \notin Sessions /\ ControllerOK
  BY HostedAssumption DEF TypeInv, ControllerOK, OpOK
<1>1. ASSUME NEW ok \in BOOLEAN, RecordVisit(ok) PROVE Admits' /\ StaysOver
  <2>1. op.at = "record" /\ op.on \in Sessions /\ Put(op.on, op.answer, ok) /\ reading' = reading
    BY <1>0, <1>1 DEF RecordVisit
  <2>2. /\ file' = store'
        /\ \A t \in Sessions : store'[t] = store[t] \/ (t = op.on /\ store'[t] = op.answer)
        /\ ~ ok => store' = store
    BY <1>0, <2>1, PutAgrees
  <2>3. OneLive(store)'
    BY <2>1, <2>2 DEF OneLive
  <2>4. StaysOver
    BY <2>1, <2>2 DEF StaysOver, Live, Terminal
  <2>5. op' = Free \/ op' = Skipping(op.on)
    BY <1>1 DEF RecordVisit, NextVisit
  <2>6. CASE op' = Free
    BY <2>1, <2>2, <2>3, <2>4, <2>6, OpFields
  <2>7. CASE op' = Skipping(op.on)
    <3>1. \A s \in op'.todo : store'[s] = store[s]
      BY <1>0, <2>2, <2>7, OpFields
    <3> QED  BY <1>0, <2>1, <2>2, <2>3, <2>4, <2>7, <3>1, OpFields
  <2> QED  BY <2>5, <2>6, <2>7
<1>2. ASSUME NEW ok \in BOOLEAN, Enter(ok) PROVE Admits' /\ StaysOver
  <2>1. op.kind = "create" /\ op.at = "enter" /\ op.for \in Sessions /\ Put(op.for, "ready", ok)
        /\ reading' = reading
    BY <1>0, <1>2 DEF Enter, Holding
  <2>2. /\ file' = store'
        /\ \A t \in Sessions : store'[t] = store[t] \/ (t = op.for /\ store'[t] = "ready")
    BY <1>0, <2>1, PutAgrees
  <2>3. OneLive(store)'
    BY <2>1, <2>2 DEF OneLive
  <2>4. StaysOver
    BY <2>1, <2>2 DEF StaysOver, Terminal
  <2>5. op'.kind \in {"none", "undo"} /\ op'.at # "record"
    BY <1>2, OpFields DEF Enter
  <2> QED  BY <2>1, <2>2, <2>3, <2>4, <2>5
<1>3. ASSUME NEW ok \in BOOLEAN, MarkDestroyed(ok) PROVE Admits' /\ StaysOver
  <2>1. op.at = "mark" /\ op.on \in Sessions /\ Put(op.on, "destroyed", ok) /\ reading' = reading
    BY <1>0, <1>3 DEF MarkDestroyed
  <2>2. /\ file' = store'
        /\ \A t \in Sessions : store'[t] = store[t] \/ (t = op.on /\ store'[t] = "destroyed")
    BY <1>0, <2>1, PutAgrees
  <2>3. OneLive(store)'
    BY <2>2 DEF OneLive, Live
  <2>4. StaysOver
    BY <2>2 DEF StaysOver, Terminal
  <2>5. op' = Free \/ op' = Skipping(op.on)
    BY <1>3 DEF MarkDestroyed, AfterMark, AfterFailure, NextVisit
  <2>6. CASE op' = Free
    BY <2>1, <2>2, <2>3, <2>4, <2>6, OpFields
  <2>7. CASE op' = Skipping(op.on)
    <3>1. \A s \in op'.todo : store'[s] = store[s]
      BY <1>0, <2>2, <2>7, OpFields
    <3> QED  BY <1>0, <2>1, <2>2, <2>3, <2>4, <2>7, <3>1, OpFields
  <2> QED  BY <2>5, <2>6, <2>7
<1>4. ASSUME NEW s \in Sessions, GetAsks(s) PROVE reads' # 0 /\ StaysOver
  BY <1>0, <1>4 DEF GetAsks, ControllerOK, StaysOver
<1>5. \A s \in Sessions, ok \in BOOLEAN : ~ GetPuts(s, ok)
  BY DEF GetPuts
<1>6. CASE ControllerCrashes
  <2>1. UNCHANGED <<store, file>> /\ op' = Free /\ \A s \in Sessions : reading'[s] = "unknown"
    BY <1>6 DEF ControllerCrashes
  <2> QED  BY <2>1, OpFields DEF OneLive, StaysOver
<1>7. CASE UNCHANGED <<store, file, reading>>
  BY <1>7, AdmitsWithoutPut
<1>8. ASSUME NEW s \in Sessions, CreateBegins(s) \/ VisitExpired(s) \/ VisitTerminal(s) \/ DeleteBegins(s)
                \/ TimePasses(s) \/ \E ok \in BOOLEAN : VisitLive(s, ok)
      PROVE UNCHANGED <<store, file, reading>>
  BY <1>8 DEF CreateBegins, VisitExpired, VisitTerminal, DeleteBegins, TimePasses, VisitLive
<1>9. CASE CreateRefused \/ CreateAdmitted \/ ExpireBegins \/ ExpireEnds \/ CleanupFails
  BY <1>7, <1>9 DEF CreateRefused, CreateAdmitted, ExpireBegins, ExpireEnds, CleanupFails
<1>10. ControllerOnly => (reads' = 0 => Admits') /\ StaysOver
  BY <1>1, <1>2, <1>3, <1>4, <1>5, <1>6, <1>7, <1>8, <1>9 DEF ControllerOnly
<1> QED  BY <1>7, <1>10, StepKinds DEF controller

LEMMA AdmitsCorrect == Spec => [](reads = 0 => Admits)
<1>1. Init => Admits
  BY DEF Init, Admits, OneLive, Live, Free
<1>2. TypeInv /\ (reads = 0 => Admits) /\ [Next]_vars => (reads = 0 => Admits)'
  <2> SUFFICES ASSUME TypeInv, reads = 0 => Admits, [Next]_vars, reads' = 0 PROVE Admits'
    OBVIOUS
  <2>1. CASE UNCHANGED vars
    BY <2>1 DEF vars, controller, vm, Admits, Admitted, OneLive
  <2>2. CASE Next
    <3>1. reads' = reads \/ reads' = reads + 1
      <4>1. ControllerOnly => reads' = reads \/ reads' = reads + 1
        BY DEF ControllerOnly, CreateBegins, VisitExpired, VisitTerminal, DeleteBegins, GetAsks,
           TimePasses, VisitLive, GetPuts, RecordVisit, Enter, MarkDestroyed, CreateRefused,
           CreateAdmitted, ExpireBegins, ExpireEnds, CleanupFails, ControllerCrashes
      <4>2. RemoteStep => reads' = reads
        BY DEF RemoteStep, Stage, InstallKey, CleanupStops, CleanupSweeps
      <4> QED  BY <2>2, <4>1, <4>2, StepKinds DEF controller
    <3>2. reads \in Nat
      BY DEF TypeInv, ControllerOK
    <3>3. reads = 0
      BY <3>1, <3>2
    <3> QED  BY <2>2, <3>3, AdmitsStep
  <2> QED  BY <2>1, <2>2
<1> QED  BY <1>1, <1>2, TypeInvCorrect, PTL DEF Spec

(* Until a status is asked for, the store and the file show at most one    *)
(* live session, whatever fails: create alone makes one live.              *)
THEOREM AdmissionTheorem == Spec => []CreateAdmitsOne
<1>1. (reads = 0 => Admits) => CreateAdmitsOne
  BY DEF Admits, CreateAdmitsOne, OneLiveSession
<1> QED  BY <1>1, AdmitsCorrect, PTL

(* Until then a session that is over is never shown live again.            *)
THEOREM OverTheorem == Spec => OverStaysOver
<1>1. ASSUME TypeInv, reads = 0 => Admits, [Next]_vars
      PROVE  [\A s \in Sessions :
                reads = 0 /\ store[s] \in Terminal => store'[s] \in Terminal]_vars
  <2>1. CASE Next
    BY <1>1, <2>1, AdmitsStep DEF StaysOver
  <2> QED  BY <1>1, <2>1
<1> QED  BY <1>1, TypeInvCorrect, AdmitsCorrect, PTL DEF Spec, OverStaysOver
=============================================================================
