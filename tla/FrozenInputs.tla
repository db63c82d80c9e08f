---------------------------- MODULE FrozenInputs -----------------------------
(* What a matrix is run with.  benchmark_cohort.py freezes a harness apart *)
(* from development, benchmark_session.py remembers which cohort a session *)
(* is of, run_host_matrix.py copies a snapshot of everything a trial reads *)
(* and a resume goes on from that snapshot.  Meanwhile the working tree is *)
(* edited, and so are the directories themselves.                          *)
EXTENDS Integers, Sequences

CONSTANTS
  MaxContent,     \* contents a file takes, as it is edited
  PackVersion,    \* content of a pack -> the version its scenario states
  Pinned          \* content of a manifest -> the version it asks for

ASSUME InputsAssumption ==
  /\ MaxContent \in Nat \ {0}
  /\ PackVersion \in [1..MaxContent -> Nat]
  /\ Pinned \in [1..MaxContent -> Nat]

VARIABLES
  source,     \* the working tree: part -> content
  cohort,     \* the directory of a frozen cohort, or Nothing
  freezing,   \* what freeze_cohort has copied so far, or Nothing
  managed,    \* session.json: is it of a cohort, and of which one; or Nothing
  stage,      \* where the matrix controller is
  reading,    \* the manifest it has read and the version it has found
  copied,     \* what stage_execution_snapshot has copied so far
  snapshot,   \* execution-snapshot with benchmark.json, or Nothing
  refreshed,  \* it was resumed with --refresh-controller
  measured    \* the results of the matrix

inputVars == <<source, cohort, freezing, managed, stage, reading, copied, snapshot,
               refreshed, measured>>

Parts    == {"controller", "pack", "manifest", "agent"}
Contents == 1..MaxContent
Nothing  == <<>>

(* A directory with the hashes of its files in a file of its own.          *)
Directory(files) == [files |-> files, recorded |-> files]

(* A bug: the recorded hashes are believed.                                *)
BelievedIntact(directory, parts) == directory # Nothing

Intact(directory, parts) ==
  directory # Nothing /\ \A p \in parts : directory.files[p] = directory.recorded[p]

CopyOrder   == <<"controller", "pack", "manifest", "agent">>  \* freeze_cohort
StagedOrder == <<"controller", "pack", "agent", "manifest">>  \* stage_execution_snapshot

Copying(order, files, from) ==
  LET p == order[Len(files) + 1] IN Append(files, [part |-> p, content |-> from[p]])

AsFiles(files) ==
  [p \in Parts |-> files[CHOOSE i \in DOMAIN files : files[i].part = p].content]

InputsInit ==
  /\ source = [p \in Parts |-> 1]
  /\ cohort = Nothing /\ freezing = Nothing /\ managed = Nothing
  /\ stage = "idle" /\ reading = Nothing /\ copied = <<>> /\ snapshot = Nothing
  /\ refreshed = FALSE /\ measured = {}

-----------------------------------------------------------------------------
(* Hands on the files.                                                     *)
Develops ==
  /\ \E p \in Parts : source[p] < MaxContent /\ source' = [source EXCEPT ![p] = @ + 1]
  /\ UNCHANGED <<cohort, freezing, managed, stage, reading, copied, snapshot, refreshed,
                 measured>>

(* A directory may be touched whenever no controller reads it.  Between the *)
(* check of a cohort and the end of staging nothing looks for that.        *)
Unread == stage \in {"idle", "running", "over"}

TouchesCohort ==
  /\ cohort # Nothing /\ Unread
  /\ \/ \E p \in Parts, c \in Contents : cohort' = [cohort EXCEPT !.files[p] = c]
     \/ cohort' = Nothing
  /\ UNCHANGED <<source, freezing, managed, stage, reading, copied, snapshot, refreshed,
                 measured>>

TouchesSnapshot ==
  /\ snapshot # Nothing /\ stage = "idle"
  /\ \E p \in Parts, c \in Contents : snapshot' = [snapshot EXCEPT !.files[p] = c]
  /\ UNCHANGED <<source, cohort, freezing, managed, stage, reading, copied, refreshed,
                 measured>>

-----------------------------------------------------------------------------
(* validate_environment: the pack is the one the manifest asks for.        *)
Fits(manifest, pack) == Pinned[manifest] = PackVersion[pack]

(* freeze_cohort: what it reads is validated first and copied afterwards.  *)
FreezeBegins ==
  /\ cohort = Nothing /\ freezing = Nothing
  /\ Fits(source["manifest"], source["pack"])
  /\ freezing' = [files |-> <<>>]
  /\ UNCHANGED <<source, cohort, managed, stage, reading, copied, snapshot, refreshed, measured>>

FreezeCopies ==
  /\ freezing # Nothing /\ Len(freezing.files) < Len(CopyOrder)
  /\ freezing' = [freezing EXCEPT !.files = Copying(CopyOrder, @, source)]
  /\ UNCHANGED <<source, cohort, managed, stage, reading, copied, snapshot, refreshed, measured>>

(* The copy is hashed and takes its place under the name.                  *)
FreezeEnds ==
  /\ freezing # Nothing /\ Len(freezing.files) = Len(CopyOrder)
  /\ cohort' = Directory(AsFiles(freezing.files))
  /\ freezing' = Nothing
  /\ UNCHANGED <<source, managed, stage, reading, copied, snapshot, refreshed, measured>>

FreezeFails ==
  /\ freezing # Nothing
  /\ freezing' = Nothing
  /\ UNCHANGED <<source, cohort, managed, stage, reading, copied, snapshot, refreshed, measured>>

-----------------------------------------------------------------------------
(* load_cohort and execution.                                              *)
Loads == Intact(cohort, Parts)

(* A bug: a cohort of the same name will do.                               *)
OfThatName(identity) == Loads

Identified(identity) == Loads /\ cohort.recorded = identity

(* start_session.                                                          *)
SessionStarts ==
  /\ managed = Nothing
  /\ \/ managed' = [frozen |-> FALSE, identity |-> Nothing]
     \/ Loads /\ managed' = [frozen |-> TRUE, identity |-> cohort.recorded]
  /\ UNCHANGED <<source, cohort, freezing, stage, reading, copied, snapshot, refreshed, measured>>

CohortPermits == managed.frozen => Identified(managed.identity)
Inputs        == IF managed.frozen THEN cohort.files ELSE source

Proceeds(from, to) ==
  /\ stage = from
  /\ stage' = to
  /\ UNCHANGED <<source, cohort, freezing, managed>>

(* run_session and main: a fresh matrix.                                   *)
RunBegins ==
  /\ managed # Nothing /\ snapshot = Nothing
  /\ CohortPermits
  /\ Proceeds("idle", "checked")
  /\ UNCHANGED <<reading, copied, snapshot, refreshed, measured>>

Validates ==
  /\ Proceeds("checked", "staging")
  /\ Fits(Inputs["manifest"], Inputs["pack"])
  /\ reading' = [manifest |-> Inputs["manifest"], version |-> PackVersion[Inputs["pack"]]]
  /\ copied' = <<>>
  /\ UNCHANGED <<snapshot, refreshed, measured>>

Stages ==
  /\ Proceeds("staging", "staging")
  /\ Len(copied) < Len(StagedOrder)
  /\ copied' = Copying(StagedOrder, copied, Inputs)
  /\ UNCHANGED <<reading, snapshot, refreshed, measured>>

(* The manifest must still be the one that was read; benchmark.json comes  *)
(* last, with the version that was found before.                           *)
Staged ==
  /\ Proceeds("staging", "running")
  /\ Len(copied) = Len(StagedOrder)
  /\ AsFiles(copied)["manifest"] = reading.manifest
  /\ snapshot' = Directory(AsFiles(copied))
  /\ UNCHANGED <<reading, copied, refreshed, measured>>

(* Whatever is refused, and whoever dies, before benchmark.json exists:    *)
(* there is no matrix to resume.                                           *)
RunFails ==
  /\ stage \in {"checked", "staging"}
  /\ Proceeds(stage, "over")
  /\ UNCHANGED <<reading, copied, snapshot, refreshed, measured>>

(* A trial reads the snapshot, and the controller of the working tree when *)
(* it was resumed with it.                                                 *)
Used == [snapshot.files EXCEPT !["controller"] = IF refreshed THEN source["controller"] ELSE @]

Measures ==
  /\ Proceeds("running", "running")
  /\ measured' = measured \cup
       {[files |-> Used, version |-> PackVersion[Used["pack"]], refreshed |-> refreshed]}
  /\ UNCHANGED <<reading, copied, snapshot, refreshed>>

Halts ==
  /\ Proceeds("running", "idle")
  /\ UNCHANGED <<reading, copied, snapshot, refreshed, measured>>

(* build_resume_plan: the snapshot is what it was, and the results are of  *)
(* the versions of benchmark.json.  A session asks for its cohort as well; *)
(* a resume by hand does not, and may ask for the current controller.      *)
Checked == {"controller", "pack", "agent"}

Resumes ==
  /\ snapshot # Nothing
  /\ Intact(snapshot, Checked)
  /\ \A r \in measured : r.version = reading.version
  /\ \/ CohortPermits /\ refreshed' = FALSE
     \/ refreshed' \in BOOLEAN
  /\ Proceeds("idle", "running")
  /\ UNCHANGED <<reading, copied, snapshot, measured>>

HandsStep == Develops \/ TouchesCohort \/ TouchesSnapshot

MatrixStep ==
  \/ FreezeBegins \/ FreezeCopies \/ FreezeEnds \/ FreezeFails
  \/ SessionStarts \/ RunBegins \/ Validates \/ Stages \/ Staged \/ RunFails
  \/ Measures \/ Halts \/ Resumes

InputsNext == HandsStep \/ MatrixStep

InputsSpec == InputsInit /\ [][InputsNext]_inputVars

-----------------------------------------------------------------------------
(* Every result of a matrix was measured with the inputs whose hashes the  *)
(* matrix records, over any number of resumes and edits: the pack, the     *)
(* agent and, unless it was refreshed, the controller.                     *)
MeasuredAsRecorded ==
  \A r \in measured :
    /\ r.files["pack"] = snapshot.recorded["pack"]
    /\ r.files["agent"] = snapshot.recorded["agent"]
    /\ r.refreshed \/ r.files["controller"] = snapshot.recorded["controller"]

(* What a session of a cohort measures is that cohort, whatever was frozen *)
(* or edited under its name since the session was created, and is of the   *)
(* version that the cohort's manifest asks for.                            *)
SessionRunsItsCohort ==
  managed # Nothing /\ managed.frozen =>
    /\ snapshot # Nothing => snapshot.recorded = managed.identity
    /\ \A r \in measured : r.version = Pinned[managed.identity["manifest"]]
=============================================================================
