----------------------------- MODULE Publication -----------------------------
(* The maintainer's checkout: import or accept a release, build the pages, *)
(* check and deploy them.  A command writes the release file, the index and *)
(* then one page after the other, none of them atomically, and one command *)
(* runs at a time.                                                         *)
EXTENDS PublicRecord

CONSTANTS
  Versions,     \* DateVer names
  Annotations,  \* annotation files: records of corrections and harness
  Origin        \* the checkout at the start: index, files, what was measured

Indexes ==
  [current : Versions, releases : Seq(Versions), companions : SUBSET Versions,
   fleet : {Origin.index.fleet}]

AreLanes(lanes) == \A l \in lanes : l = [provider |-> l.provider, model |-> l.model]

(* A clone has the file of every release that its index lists, and builds. *)
ASSUME OriginAssumption ==
  /\ DOMAIN Origin.files = Versions
  /\ Origin.index \in Indexes /\ AreLanes(Origin.index.fleet)
  /\ BuildAccepts(Origin.index, Origin.files)

VARIABLES
  index,     \* benchmark-data/index.json, or Torn
  files,     \* version -> the release file: None, Torn or a release
  pages,     \* page -> what it shows, or Torn
  op,        \* the running command
  deployed   \* the checkout that was last verified and deployed

publicationVars == <<index, files, pages, op, deployed>>

Idle == [step |-> "idle"]

Checkout(i, f) == [index |-> i, files |-> f,
                   pages |-> [p \in PageNames |-> Render(p, i, f)]]

PublicationInit ==
  /\ index = Origin.index
  /\ files = Origin.files
  /\ pages = Checkout(Origin.index, Origin.files).pages
  /\ op = Idle
  /\ deployed = Checkout(Origin.index, Origin.files)

-----------------------------------------------------------------------------
(* store_release: the release is validated, and its version is appended to *)
(* an index that could be read and becomes the current one.                *)
Listing(i, version) ==
  [i EXCEPT !.current  = version,
            !.releases = IF version \in Published(i) THEN @ ELSE Append(@, version)]

IndexFirst == <<"index", "file">>
StoreOrder == <<"file", "index">>

Stores(release) ==
  /\ op = Idle
  /\ IsObject(release) /\ ValidRelease(release)
  /\ index # Torn
  /\ op' = [step |-> "store", todo |-> StoreOrder, release |-> release,
            index |-> Listing(index, release.version)]
  /\ UNCHANGED <<index, files, pages, deployed>>

(* publish_benchmarks.py import, from summaries that were read.  A model   *)
(* that is wanted and in none of them is refused; an import that selects   *)
(* nothing wants them all.                                                 *)
Importing(version, sources, wanted, notes) ==
  LET chosen == Selected(sources, wanted) IN
  /\ \A i \in DOMAIN sources : ValidSource(sources[i])
  /\ wanted \subseteq UNION {{r.model : r \in sources[i].runs} : i \in DOMAIN sources}
  /\ CanRelease(chosen, notes)
  /\ Stores(Release(version, chosen, notes))

Writing(what) == op.step \in {"store", "pages"} /\ Head(op.todo) = what

Stored == IF Len(op.todo) = 1 THEN [step |-> "build"] ELSE [op EXCEPT !.todo = Tail(@)]

WritesFile ==
  /\ Writing("file")
  /\ files' = [files EXCEPT ![op.release.version] = op.release]
  /\ op' = Stored
  /\ UNCHANGED <<index, pages, deployed>>

WritesIndex ==
  /\ Writing("index")
  /\ index' = op.index
  /\ op' = Stored
  /\ UNCHANGED <<files, pages, deployed>>

-----------------------------------------------------------------------------
(* build_outputs: refuse, or render everything and write page by page.     *)
BuildBegins ==
  /\ op = Idle
  /\ op' = [step |-> "build"]
  /\ UNCHANGED <<index, files, pages, deployed>>

CanBuild == BuildAccepts(index, files) /\ \A p \in Managed : pages[p] # Torn

Refuses ==
  /\ op.step = "build" /\ ~ CanBuild
  /\ op' = Idle
  /\ UNCHANGED <<index, files, pages, deployed>>

Renders ==
  /\ op.step = "build" /\ CanBuild
  /\ op' = [step |-> "pages", todo |-> Pages]
  /\ UNCHANGED <<index, files, pages, deployed>>

WritesPage ==
  /\ op.step = "pages"
  /\ pages' = [pages EXCEPT ![Head(op.todo)] = Render(Head(op.todo), index, files)]
  /\ op' = IF Len(op.todo) = 1 THEN Idle ELSE [op EXCEPT !.todo = Tail(@)]
  /\ UNCHANGED <<index, files, deployed>>

(* The command dies: nothing more is written, and the file it was writing  *)
(* may be left half written.                                               *)
Dies ==
  /\ op # Idle
  /\ op' = Idle
  /\ \/ UNCHANGED <<index, files, pages>>
     \/ /\ Writing("file")
        /\ files' = [files EXCEPT ![op.release.version] = Torn]
        /\ UNCHANGED <<index, pages>>
     \/ /\ Writing("index")
        /\ index' = Torn
        /\ UNCHANGED <<files, pages>>
     \/ /\ op.step = "pages"
        /\ pages' = [pages EXCEPT ![Head(op.todo)] = Torn]
        /\ UNCHANGED <<index, files>>
  /\ UNCHANGED deployed

-----------------------------------------------------------------------------
(* The check that CI runs before a deployment renders everything again and *)
(* compares it with the tracked pages.                                     *)
CheckPasses == CanBuild /\ \A p \in PageNames : pages[p] = Render(p, index, files)

Deploys ==
  /\ op = Idle
  /\ CheckPasses
  /\ deployed' = [index |-> index, files |-> files, pages |-> pages]
  /\ UNCHANGED <<index, files, pages, op>>

(* git restores every file that the last deployment tracked.               *)
Restores ==
  /\ op = Idle
  /\ index' = deployed.index
  /\ files' = [v \in Versions |-> IF deployed.files[v] # None THEN deployed.files[v]
                                  ELSE files[v]]
  /\ pages' = deployed.pages
  /\ UNCHANGED <<op, deployed>>

(* Someone edits a tracked release, which stays a release: a run's reward  *)
(* or a derived number.                                                    *)
Flipped(release, r) ==
  [release EXCEPT !.runs = (@ \ {r}) \cup {[r EXCEPT !.reward = 1 - @]}]

FlipsRun(v) ==
  \E r \in {q \in files[v].runs : Evaluated(q)} :
    files' = [files EXCEPT ![v] = Flipped(@, r)]

EditsNumber(v) ==
  \/ \E k \in DOMAIN files[v].byScenario :
       files' = [files EXCEPT ![v].byScenario[k].passed = @ + 1]
  \/ files' = [files EXCEPT ![v].totals.passed = @ + 1]

EditsFile(v) ==
  /\ op = Idle
  /\ IsObject(files[v])
  /\ FlipsRun(v) \/ EditsNumber(v)
  /\ IsObject(files'[v])
  /\ UNCHANGED <<index, pages, op, deployed>>

(* A release is named a companion in the index by hand.                    *)
NamesCompanion(v) ==
  /\ op = Idle
  /\ index # Torn /\ v \in Published(index) \ {index.current}
  /\ index' = [index EXCEPT !.companions = @ \cup {v}]
  /\ UNCHANGED <<files, pages, op, deployed>>

CommandStep == WritesFile \/ WritesIndex \/ Refuses \/ Renders \/ WritesPage
=============================================================================
