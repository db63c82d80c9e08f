----------------------- MODULE EvidencePipelineProofs -----------------------
(***************************************************************************)
(* Theorems about the way of evidence, for any places and contents of      *)
(* summaries, any versions, annotations and selections, and any number of  *)
(* dead commands and edits.                                                *)
(***************************************************************************)
EXTENDS EvidencePipeline, FiniteSetTheorems, WellFoundedInduction, TLAPS

(***************************************************************************)
(* The local catalog.                                                      *)
(***************************************************************************)
(* Every summary that lies anywhere, or that an import has read, is of a   *)
(* matrix that was measured.                                               *)
SummariesMeasured ==
  /\ \A p \in DOMAIN summary : summary[p] # None => summary[p] \in measured
  /\ import.todo \subseteq DOMAIN summary
  /\ import.read # None => import.read \in measured

(* The rows under a matrix are all those of one summary and no others.     *)
RowsOf1(x) == [of |-> x.of, digest |-> x.digest,
               trials |-> Local!TrialRows(x.of), errors |-> x.of.errors]

CatalogInv ==
  /\ import = [todo |-> import.todo, read |-> import.read]
  /\ SummariesMeasured
  /\ \A k \in DOMAIN db : db[k].of \in measured /\ db[k] = RowsOf1(db[k])

LEMMA CatalogStarts == Init => CatalogInv
BY DEF Init, CatalogInv, SummariesMeasured, Local!CatalogInit, Local!NoImport

(* An import that commits leaves the rows of the summary it read under the *)
(* matrix, also when an earlier summary of that matrix is in the catalog.  *)
LEMMA CommitReplaces ==
  ASSUME CatalogInv, NEW m, NEW digest
  PROVE  /\ Local!Inserted(m, digest).of = m
         /\ Local!Inserted(m, digest) = RowsOf1(Local!Inserted(m, digest))
<1> DEFINE id == Local!MatrixId(m)
<1>1. CASE Local!Known(m)
  <2>1. id \in DOMAIN db /\ db[id] = RowsOf1(db[id])
    BY <1>1 DEF Local!Known, CatalogInv
  <2>2. Local!Cleared(m).trials = {} /\ Local!Cleared(m).errors = {}
    BY <1>1, <2>1 DEF Local!Cleared, RowsOf1
  <2> QED  BY <2>2 DEF Local!Inserted, RowsOf1
<1>2. CASE ~ Local!Known(m)
  <2>1. Local!Cleared(m).trials = {} /\ Local!Cleared(m).errors = {}
    BY <1>2 DEF Local!Cleared
  <2> QED  BY <2>1 DEF Local!Inserted, RowsOf1
<1> QED  BY <1>1, <1>2

LEMMA CatalogSteps == CatalogInv /\ [Next]_vars => CatalogInv'
<1> SUFFICES ASSUME CatalogInv, [Next]_vars PROVE CatalogInv'
  OBVIOUS
<1> USE DEF CatalogInv, SummariesMeasured
<1>1. ASSUME NEW p \in DOMAIN summary, MatrixWrites(p) PROVE CatalogInv'
  <2>1. PICK m \in Measurements[p] :
          /\ summary' = [summary EXCEPT ![p] = m]
          /\ measured' = measured \cup {m}
          /\ UNCHANGED <<db, import>>
    BY <1>1 DEF MatrixWrites
  <2> QED  BY <2>1 DEF RowsOf1, Local!TrialRows
<1>2. CASE Catalogs
  <2>1. UNCHANGED measured
    BY <1>2 DEF Catalogs
  <2>2. ASSUME NEW S \in SUBSET DOMAIN summary, Local!ImportBegins(S)
        PROVE  CatalogInv'
    BY <2>1, <2>2 DEF Local!ImportBegins, RowsOf1
  <2>3. ASSUME NEW p \in import.todo, Local!SummaryRead(p)
        PROVE  CatalogInv'
    BY <2>1, <2>3 DEF Local!SummaryRead, RowsOf1
  <2>4. ASSUME NEW p \in import.todo, Local!SummarySkipped(p)
        PROVE  CatalogInv'
    BY <2>1, <2>4 DEF Local!SummarySkipped, RowsOf1
  <2>5. ASSUME NEW p \in import.todo, Local!SummaryCommits(p)
        PROVE  CatalogInv'
    <3> DEFINE id  == Local!MatrixId(import.read)
               new == Local!Inserted(import.read, summary[p])
    <3>1. new.of = import.read /\ new = RowsOf1(new)
      BY CommitReplaces
    <3> HIDE DEF new
    <3>2. /\ DOMAIN db' = DOMAIN db \cup {id}
          /\ \A k \in DOMAIN db' : db'[k] = IF k = id THEN new ELSE db[k]
      BY <2>5 DEF Local!SummaryCommits, new
    <3>3. import.read \in measured
      BY <2>5 DEF Local!SummaryCommits
    <3>4. \A k \in DOMAIN db' : db'[k].of \in measured /\ db'[k] = RowsOf1(db'[k])
      BY <3>1, <3>2, <3>3
    <3>5. /\ import' = [todo |-> import.todo \ {p}, read |-> None]
          /\ summary' = summary
      BY <2>5 DEF Local!SummaryCommits
    <3> QED  BY <2>1, <3>4, <3>5 DEF RowsOf1, Local!TrialRows
  <2>6. CASE Local!ImportStops
    BY <2>1, <2>6 DEF Local!ImportStops, Local!NoImport, RowsOf1
  <2> QED  BY <1>2, <2>2, <2>3, <2>4, <2>5, <2>6 DEF Catalogs, Local!CatalogStep
<1>3. CASE UNCHANGED <<summary, db, import, measured>>
  BY <1>3 DEF RowsOf1, Local!TrialRows
<1> QED
  BY <1>1, <1>2, <1>3
  DEF Next, vars, ReleaseImported, ReleaseAccepted, Publishes, BundleMade, Submits

(* The rows of a matrix in the local catalog are those of one summary of   *)
(* it that was measured, whatever was imported, resumed or broken off.     *)
THEOREM RowsCorrect == Spec => []RowsOfOneSummary
<1>1. CatalogInv => RowsOfOneSummary
  BY DEF CatalogInv, RowsOfOneSummary, RowsOf1
<1> QED  BY <1>1, CatalogStarts, CatalogSteps, PTL DEF Spec

(***************************************************************************)
(* The index and the release files.                                        *)
(***************************************************************************)
(* All releases of an index have a file.                                   *)
Filed(i, f) == \A v \in Published(i) : f[v] # None

(* A running command that stores a release: until the file is written, the *)
(* new release is the only one of the index to come that may lack it.      *)
Storing(o) ==
  /\ o = [step |-> "store", todo |-> o.todo, release |-> o.release, index |-> o.index]
  /\ IsObject(o.release) /\ o.release.version \in Versions
  /\ o.index \in Indexes
  /\ \/ /\ o.todo = <<"file", "index">>
        /\ \A v \in Published(o.index) : v = o.release.version \/ files[v] # None
     \/ /\ o.todo = <<"index">>
        /\ Filed(o.index, files)

Paging(o) ==
  /\ o = [step |-> "pages", todo |-> o.todo]
  /\ o.todo \in Seq(PageNames) /\ o.todo # <<>>

CheckoutInv(i, f) ==
  /\ DOMAIN f = Versions
  /\ i # Torn => i \in Indexes /\ Filed(i, f)

StoreInv ==
  /\ CheckoutInv(index, files)
  /\ CheckoutInv(deployed.index, deployed.files)
  /\ op = Idle \/ op = [step |-> "build"] \/ Storing(op) \/ Paging(op)

LEMMA PublishedVersions == \A i \in Indexes : Published(i) \subseteq Versions
BY DEF Indexes, Published

LEMMA PagesAreNoFiles == "file" \notin PageNames /\ "index" \notin PageNames
BY DEF PageNames, Pages

(* What a new index lists is what the old one did and the new release.     *)
LEMMA ListingLists ==
  ASSUME NEW i \in Indexes, NEW version \in Versions
  PROVE  /\ Listing(i, version) \in Indexes
         /\ Published(Listing(i, version)) \subseteq Published(i) \cup {version}
<1> DEFINE new == IF version \in Published(i) THEN i.releases ELSE Append(i.releases, version)
<1>1. i.releases \in Seq(Versions) /\ new \in Seq(Versions)
  BY DEF Indexes
<1>2. Listing(i, version) = [current |-> version, releases |-> new,
                             companions |-> i.companions, fleet |-> i.fleet]
  <2>1. PICK c \in Versions, q \in Seq(Versions), s \in SUBSET Versions :
          i = [current |-> c, releases |-> q, companions |-> s, fleet |-> Origin.index.fleet]
    BY DEF Indexes
  <2>2. Listing(i, version) = [i EXCEPT !.current = version, !.releases = new]
    BY DEF Listing
  <2> HIDE DEF new
  <2> QED  BY <2>1, <2>2
<1>3. Listing(i, version) \in Indexes
  BY <1>1, <1>2 DEF Indexes
<1>4. \A j \in DOMAIN new : new[j] \in Published(i) \cup {version}
  BY <1>1 DEF Published
<1> QED  BY <1>2, <1>3, <1>4 DEF Published

LEMMA StoreStarts == Init => StoreInv
BY OriginAssumption
DEF Init, PublicationInit, StoreInv, CheckoutInv, Filed, Checkout, BuildAccepts, IsObject

(* The three writes of a command and its death.                            *)
LEMMA WriteSteps ==
  ASSUME StoreInv, WritesFile \/ WritesIndex \/ WritesPage \/ Dies
  PROVE  StoreInv'
<1>1. ASSUME op.step = "store"
      PROVE  Storing(op)
  BY <1>1 DEF StoreInv, Idle, Paging
<1>2. ASSUME op.step = "pages"
      PROVE  Paging(op) /\ Head(op.todo) \notin {"file", "index"}
  <2>1. Paging(op)
    BY <1>2 DEF StoreInv, Idle, Storing
  <2>2. Head(op.todo) \in PageNames
    BY <2>1 DEF Paging
  <2> QED  BY <2>1, <2>2, PagesAreNoFiles
<1>3. CASE WritesFile
  <2>1. Storing(op) /\ op.todo = <<"file", "index">>
    BY <1>1, <1>2, <1>3 DEF WritesFile, Writing, Storing
  <2>2. /\ files' = [files EXCEPT ![op.release.version] = op.release]
        /\ UNCHANGED <<index, deployed>>
    BY <1>3 DEF WritesFile
  <2>3. op' = [op EXCEPT !.todo = <<"index">>]
    BY <1>3, <2>1 DEF WritesFile, Stored
  <2>4. \A v \in Versions : files'[v] = IF v = op.release.version THEN op.release ELSE files[v]
    BY <2>2 DEF StoreInv, CheckoutInv
  <2>5. \A v \in Versions : files[v] # None => files'[v] # None
    BY <2>1, <2>4 DEF Storing, IsObject
  <2>6. CheckoutInv(index, files)'
    BY <2>2, <2>5, PublishedVersions DEF StoreInv, CheckoutInv, Filed
  <2>7. Filed(op.index, files')
    BY <2>1, <2>4, PublishedVersions DEF Storing, IsObject, Filed
  <2>8. Storing(op)'
    BY <2>1, <2>3, <2>7 DEF Storing, IsObject, Filed
  <2> QED  BY <2>2, <2>6, <2>8 DEF StoreInv
<1>4. CASE WritesIndex
  <2>1. Storing(op) /\ op.todo = <<"index">>
    BY <1>1, <1>2, <1>4 DEF WritesIndex, Writing, Storing
  <2>2. index' = op.index /\ UNCHANGED <<files, deployed>> /\ op' = [step |-> "build"]
    BY <1>4, <2>1 DEF WritesIndex, Stored
  <2>3. CheckoutInv(index, files)'
    BY <2>1, <2>2 DEF Storing, StoreInv, CheckoutInv, Filed
  <2> QED  BY <2>2, <2>3 DEF StoreInv
<1>5. CASE WritesPage
  <2>1. Paging(op)
    BY <1>2, <1>5 DEF WritesPage
  <2>2. op' = Idle \/ (Len(op.todo) # 1 /\ op' = [op EXCEPT !.todo = Tail(op.todo)])
    BY <1>5 DEF WritesPage
  <2>3. ASSUME Len(op.todo) # 1, op' = [op EXCEPT !.todo = Tail(op.todo)]
        PROVE  Paging(op)'
    <3>1. PICK t \in Seq(PageNames) : op = [step |-> "pages", todo |-> t] /\ t # <<>>
      BY <2>1 DEF Paging
    <3>2. op' = [step |-> "pages", todo |-> Tail(t)]
      BY <2>3, <3>1
    <3>3. Len(t) \in Nat /\ Len(t) # 0 /\ Len(t) # 1
      BY <2>3, <3>1
    <3>4. Tail(t) \in Seq(PageNames) /\ Len(Tail(t)) = Len(t) - 1
      BY <3>1
    <3>5. Tail(t) # <<>>
      <4>1. Len(Tail(t)) # 0
        BY <3>3, <3>4
      <4>2. Len(<<>>) = 0
        OBVIOUS
      <4> QED  BY <4>1, <4>2, Zenon
    <3> QED  BY <3>2, <3>4, <3>5 DEF Paging
  <2>4. op' = Idle \/ Paging(op)'
    BY <2>2, <2>3
  <2> QED  BY <1>5, <2>4 DEF WritesPage, StoreInv
<1>6. CASE Dies
  <2>1. op' = Idle /\ UNCHANGED deployed
    BY <1>6 DEF Dies
  <2>2. CheckoutInv(index, files)'
    <3>1. CASE UNCHANGED <<index, files>>
      BY <3>1 DEF StoreInv
    <3>2. CASE /\ Writing("file")
               /\ files' = [files EXCEPT ![op.release.version] = Torn]
               /\ UNCHANGED index
      BY <3>2, TornAssumption, PublishedVersions DEF StoreInv, CheckoutInv, Filed
    <3>3. CASE index' = Torn /\ UNCHANGED files
      BY <3>3 DEF StoreInv, CheckoutInv
    <3> QED  BY <1>6, <3>1, <3>2, <3>3 DEF Dies
  <2> QED  BY <2>1, <2>2 DEF StoreInv
<1> QED  BY <1>3, <1>4, <1>5, <1>6

(* A command that begins, and what happens between two commands.           *)
LEMMA StoreBegins ==
  ASSUME StoreInv, NEW release, Stores(release), release.version \in Versions
  PROVE  StoreInv'
<1>1. index \in Indexes /\ Filed(index, files)
  BY DEF Stores, StoreInv, CheckoutInv
<1> DEFINE new == Listing(index, release.version)
<1>2. new \in Indexes /\ Published(new) \subseteq Published(index) \cup {release.version}
  BY <1>1, ListingLists
<1> HIDE DEF new
<1>3. op' = [step |-> "store", todo |-> <<"file", "index">>, release |-> release, index |-> new]
  BY DEF Stores, StoreOrder, new
<1>4. IsObject(release) /\ UNCHANGED <<index, files, deployed>>
  BY DEF Stores
<1>5. Storing(op)'
  BY <1>1, <1>2, <1>3, <1>4 DEF Storing, Filed, IsObject
<1> QED  BY <1>4, <1>5 DEF StoreInv

LEMMA BetweenCommands ==
  ASSUME StoreInv,
         \/ BuildBegins \/ Refuses \/ Renders \/ Deploys \/ Restores
         \/ \E v \in Versions : EditsFile(v) \/ NamesCompanion(v)
  PROVE  StoreInv'
<1>1. CASE BuildBegins \/ Refuses
  BY <1>1 DEF BuildBegins, Refuses, StoreInv, CheckoutInv, Filed
<1>2. CASE Renders
  <2>1. op' = [step |-> "pages", todo |-> Pages] /\ UNCHANGED <<index, files, deployed>>
    BY <1>2 DEF Renders
  <2>2. Pages \in Seq(PageNames) /\ Pages # <<>>
    BY DEF PageNames, Pages
  <2>3. Paging(op)'
    BY <2>1, <2>2 DEF Paging
  <2> QED  BY <2>1, <2>3 DEF StoreInv
<1>3. CASE Deploys
  <2>1. /\ deployed'.index = index /\ deployed'.files = files
        /\ UNCHANGED <<index, files, op>> /\ op = Idle
    BY <1>3 DEF Deploys
  <2> QED  BY <2>1 DEF StoreInv, CheckoutInv, Filed
<1>4. CASE Restores
  <2>1. /\ op' = Idle /\ index' = deployed.index /\ deployed' = deployed
        /\ files' = [v \in Versions |-> IF deployed.files[v] # None THEN deployed.files[v]
                                        ELSE files[v]]
    BY <1>4 DEF Restores
  <2>2. CheckoutInv(index, files)'
    BY <2>1, PublishedVersions DEF StoreInv, CheckoutInv, Filed
  <2> QED  BY <2>1, <2>2 DEF StoreInv
<1>5. ASSUME NEW v \in Versions, EditsFile(v)
      PROVE  StoreInv'
  <2>1. UNCHANGED <<index, op, deployed>> /\ op = Idle /\ files'[v] # None
    BY <1>5 DEF EditsFile, IsObject
  <2>2. PICK x : files' = [files EXCEPT ![v] = x]
    BY <1>5 DEF EditsFile, FlipsRun, EditsNumber
  <2>3. CheckoutInv(index, files)'
    BY <2>1, <2>2, PublishedVersions DEF StoreInv, CheckoutInv, Filed
  <2> QED  BY <2>1, <2>3 DEF StoreInv
<1>6. ASSUME NEW v \in Versions, NamesCompanion(v)
      PROVE  StoreInv'
  <2>1. /\ op = Idle /\ UNCHANGED <<files, op, deployed>>
        /\ index' = [index EXCEPT !.companions = @ \cup {v}]
        /\ index \in Indexes /\ Filed(index, files)
    BY <1>6 DEF NamesCompanion, StoreInv, CheckoutInv
  <2>2. index' \in Indexes /\ index'.releases = index.releases
    BY <2>1 DEF Indexes
  <2>3. CheckoutInv(index, files)'
    BY <2>1, <2>2 DEF StoreInv, CheckoutInv, Filed, Published
  <2> QED  BY <2>1, <2>3 DEF StoreInv
<1> QED  BY <1>1, <1>2, <1>3, <1>4, <1>5, <1>6

LEMMA StoreSteps == StoreInv /\ [Next]_vars => StoreInv'
<1> SUFFICES ASSUME StoreInv, [Next]_vars PROVE StoreInv'
  OBVIOUS
<1>1. ASSUME NEW version \in Versions, NEW sources, NEW wanted, NEW notes,
             Importing(version, sources, wanted, notes)
      PROVE  StoreInv'
  <2> DEFINE release == Release(version, Selected(sources, wanted), notes)
  <2>1. Stores(release) /\ release.version = version
    BY <1>1 DEF Importing, Release
  <2> HIDE DEF release
  <2> QED  BY <2>1, StoreBegins
<1>2. ASSUME NEW version \in Versions, NEW n, NEW notes, Accepts(version, n, notes)
      PROVE  StoreInv'
  <2> DEFINE release == [Release(version, merged[n].evidence.sources, notes)
                           EXCEPT !.submission = merged[n].id]
  <2>1. Stores(release) /\ release.version = version
    BY <1>2 DEF Accepts, Release
  <2> HIDE DEF release
  <2> QED  BY <2>1, StoreBegins
<1>3. CASE UNCHANGED publicationVars
  BY <1>3 DEF publicationVars, StoreInv, CheckoutInv, Filed, Storing
<1>4. CASE Publishes
  BY <1>4, WriteSteps, BetweenCommands DEF Publishes, CommandStep
<1> QED
  BY <1>1, <1>2, <1>3, <1>4
  DEF Next, vars, MatrixWrites, Catalogs, ReleaseImported, ReleaseAccepted, BundleMade, Submits

(* A release that the index lists has its file, whatever command died, was *)
(* restored or edited, for any versions and any number of releases.        *)
THEOREM IndexCorrect == Spec => []IndexNamesFiles
<1>1. StoreInv => IndexNamesFiles
  BY DEF StoreInv, CheckoutInv, Filed, IndexNamesFiles
<1> QED  BY <1>1, StoreStarts, StoreSteps, PTL DEF Spec

(***************************************************************************)
(* Submissions.                                                            *)
(***************************************************************************)
(* A merge takes only a directory in which each bundle has the name of its *)
(* evidence, and an edit by hand adds no name.                             *)
THEOREM MergedCorrect == Spec => MergedIsWhatItSays
<1> DEFINE FitsName(n) == n \notin DOMAIN merged => Digest(merged'[n].evidence) = n
<1>1. [Next]_vars => [\A n \in DOMAIN merged' : FitsName(n)]_merged
  <2> SUFFICES ASSUME [Next]_vars, merged' # merged, NEW n \in DOMAIN merged',
                      n \notin DOMAIN merged
               PROVE  Digest(merged'[n].evidence) = n
    OBVIOUS
  <2>1. ASSUME NEW p \in pulls, Merges(p)
        PROVE  Digest(merged'[n].evidence) = n
    BY <2>1 DEF Merges, ValidDirectory, ValidBundle
  <2>2. ASSUME NEW x \in DOMAIN merged, EditsSubmission(x)
        PROVE  FALSE
    BY <2>2 DEF EditsSubmission
  <2> QED
    BY <2>1, <2>2
    DEF Next, vars, submissionVars, MatrixWrites, Catalogs, ReleaseImported, ReleaseAccepted,
        Publishes, BundleMade, Bundles, Submits, SubmitBegins, SubmitStep, SubmitBranches,
        SubmitCopies, SubmitOpens, SubmitFails, GoesBack
<1> QED  BY <1>1, PTL DEF Spec, MergedIsWhatItSays

(***************************************************************************)
(* Plans.                                                                  *)
(***************************************************************************)
(* No lane is listed under two names of its provider.                      *)
NamedOnce(lanes) ==
  \A k, l \in lanes : Normal(k) = Normal(l) => k = l

PlansOf(gaps, s, lane) ==
  {c \in Commands(gaps) : [scenario |-> s, lane |-> Normal(lane)] \in CellsOf(c)}

LEMMA NormalLane ==
  ASSUME NEW lanes, AreLanes(lanes), NEW l \in lanes
  PROVE  Normal(l) = [provider |-> ProviderId(l.provider), model |-> l.model]
<1>1. PICK p, n : l = [provider |-> p, model |-> n]
  BY DEF AreLanes
<1> QED  BY <1>1 DEF Normal

(* The cross product of a command's scenarios and models holds nothing but *)
(* gaps of one group.                                                      *)
LEMMA CellsAreGaps ==
  ASSUME NEW lanes, AreLanes(lanes), NEW S, NEW gaps \in SUBSET [scenario : S, lane : lanes],
         NEW g \in gaps, NEW cell \in CellsOf(Command(gaps, Group(gaps, g.lane)))
  PROVE  \E h \in gaps : /\ Group(gaps, h.lane) = Group(gaps, g.lane)
                         /\ cell = [scenario |-> h.scenario, lane |-> Normal(h.lane)]
<1> DEFINE group == Group(gaps, g.lane)
           c     == Command(gaps, group)
<1>1. /\ c.provider = ProviderId(group.provider)
      /\ c.scenarios = group.scenarios
      /\ c.models = {x.lane.model : x \in {h \in gaps : Group(gaps, h.lane) = group}}
  BY DEF Command
<1>2. PICK s \in c.scenarios, n \in c.models :
        cell = [scenario |-> s, lane |-> [provider |-> c.provider, model |-> n]]
  BY DEF CellsOf
<1>3. PICK x \in gaps : Group(gaps, x.lane) = group /\ n = x.lane.model
  BY <1>1
<1>4. group.scenarios = Missing(gaps, x.lane) /\ group.provider = x.lane.provider
  BY <1>3 DEF Group
<1>5. PICK h \in gaps : h.lane = x.lane /\ h.scenario = s
  BY <1>1, <1>4 DEF Missing
<1>6. Normal(h.lane) = [provider |-> c.provider, model |-> n]
  BY <1>1, <1>3, <1>4, <1>5, NormalLane
<1> QED  BY <1>2, <1>3, <1>5, <1>6

LEMMA GapsAreCells ==
  ASSUME NEW lanes, AreLanes(lanes), NEW S, NEW gaps \in SUBSET [scenario : S, lane : lanes],
         NEW g \in gaps
  PROVE  [scenario |-> g.scenario, lane |-> Normal(g.lane)]
           \in CellsOf(Command(gaps, Group(gaps, g.lane)))
<1> DEFINE group == Group(gaps, g.lane)
           c     == Command(gaps, group)
<1>1. /\ c.provider = ProviderId(g.lane.provider)
      /\ c.scenarios = Missing(gaps, g.lane)
      /\ c.models = {x.lane.model : x \in {h \in gaps : Group(gaps, h.lane) = group}}
  BY DEF Command, Group
<1>2. g.scenario \in c.scenarios
  BY <1>1 DEF Missing
<1>3. g.lane.model \in c.models
  BY <1>1
<1>4. Normal(g.lane) = [provider |-> c.provider, model |-> g.lane.model]
  BY <1>1, NormalLane
<1> QED  BY <1>2, <1>3, <1>4 DEF CellsOf

(* Every gap is a cell of exactly one command, and no command runs a cell  *)
(* that is not a gap.                                                      *)
LEMMA CommandsExact ==
  ASSUME NEW lanes, AreLanes(lanes), NamedOnce(lanes), NEW S,
         NEW gaps \in SUBSET [scenario : S, lane : lanes],
         NEW s, NEW lane \in lanes
  PROVE  IF [scenario |-> s, lane |-> lane] \in gaps
         THEN Cardinality(PlansOf(gaps, s, lane)) = 1
         ELSE PlansOf(gaps, s, lane) = {}
<1>0. \A g \in gaps : \A x \in CellsOf(Command(gaps, Group(gaps, g.lane))) :
        \E h \in gaps : /\ Group(gaps, h.lane) = Group(gaps, g.lane)
                        /\ x = [scenario |-> h.scenario, lane |-> Normal(h.lane)]
  BY CellsAreGaps
<1> DEFINE own  == [scenario |-> s, lane |-> lane]
           cell == [scenario |-> s, lane |-> Normal(lane)]
<1>1. ASSUME NEW c \in PlansOf(gaps, s, lane)
      PROVE  own \in gaps /\ c = Command(gaps, Group(gaps, lane))
  <2>1. PICK g \in gaps : c = Command(gaps, Group(gaps, g.lane))
    BY DEF PlansOf, Commands
  <2>2. cell \in CellsOf(Command(gaps, Group(gaps, g.lane)))
    BY <2>1 DEF PlansOf
  <2> HIDE DEF own, cell
  <2>3. PICK h \in gaps : /\ Group(gaps, h.lane) = Group(gaps, g.lane)
                          /\ cell = [scenario |-> h.scenario, lane |-> Normal(h.lane)]
    BY <1>0, <2>2
  <2>4. h.scenario = s /\ Normal(h.lane) = Normal(lane)
    BY <2>3 DEF cell
  <2>5. h.lane = lane
    BY <2>4 DEF NamedOnce
  <2>6. h = own
    BY <2>4, <2>5 DEF own
  <2> QED  BY <2>1, <2>3, <2>5, <2>6
<1>2. CASE own \in gaps
  <2> DEFINE d == Command(gaps, Group(gaps, lane))
  <2>1. cell \in CellsOf(d)
    BY <1>2, GapsAreCells, own.scenario = s, own.lane = lane
  <2>2. d \in Commands(gaps)
    BY <1>2, own.lane = lane DEF Commands
  <2> HIDE DEF d
  <2>3. PlansOf(gaps, s, lane) = {d}
    BY <1>1, <2>1, <2>2 DEF PlansOf, d
  <2> QED  BY <1>2, <2>3, FS_Singleton
<1>3. CASE own \notin gaps
  BY <1>1, <1>3
<1> QED  BY <1>2, <1>3

(* The public coverage lists lanes, wherever it is kept, and is rendered   *)
(* from an index that can be read.                                         *)
ListsLanes(p) ==
  /\ DOMAIN p = PageNames
  /\ p["coverage"] # Torn => AreLanes(p["coverage"].fleet)

CoverageInv ==
  /\ StoreInv
  /\ ListsLanes(pages) /\ ListsLanes(deployed.pages)
  /\ op.step = "pages" => index # Torn

LEMMA FleetIsLanes ==
  ASSUME NEW i \in Indexes, NEW f
  PROVE  AreLanes(Coverage(i, f).fleet)
<1> DEFINE primary == Primary(i, f)
<1>1. AreLanes(i.fleet)
  BY OriginAssumption DEF Indexes
<1>2. ASSUME NEW item \in i.fleet
      PROVE  AreLanes(Expanded(item, primary))
  <2>1. PICK p, n : item = [provider |-> p, model |-> n]
    BY <1>1 DEF AreLanes
  <2>2. \A q : [item EXCEPT !.provider = q] = [provider |-> q, model |-> n]
    BY <2>1
  <2>3. \A l \in Expanded(item, primary) : \E q : l = [provider |-> q, model |-> n]
    BY <2>1, <2>2 DEF Expanded
  <2> QED  BY <2>3 DEF AreLanes
<1>3. AreLanes({Lane(r) : r \in {q \in primary : q.release = i.current}})
  BY DEF AreLanes, Lane
<1>4. AreLanes(Fleet(i, primary))
  BY <1>2, <1>3 DEF AreLanes, Fleet
<1> QED  BY <1>4 DEF Coverage

LEMMA RenderedLanes ==
  ASSUME NEW i \in Indexes, NEW f
  PROVE  AreLanes(Render("coverage", i, f).fleet)
BY FleetIsLanes DEF Render

LEMMA CoverageIsPage == "coverage" \in PageNames
BY DEF PageNames, Pages

LEMMA CoverageStarts == Init => CoverageInv
<1> SUFFICES ASSUME Init PROVE CoverageInv
  OBVIOUS
<1>1. Origin.index \in Indexes
  BY OriginAssumption
<1>2. AreLanes(Render("coverage", Origin.index, Origin.files).fleet)
  BY <1>1, RenderedLanes
<1>3. /\ pages = [p \in PageNames |-> Render(p, Origin.index, Origin.files)]
      /\ deployed.pages = pages
      /\ op.step = "idle"
  BY DEF Init, PublicationInit, Checkout, Idle
<1> QED  BY <1>2, <1>3, CoverageIsPage, StoreStarts DEF CoverageInv, ListsLanes

LEMMA CoverageSteps == CoverageInv /\ [Next]_vars => CoverageInv'
<1> SUFFICES ASSUME CoverageInv, [Next]_vars
             PROVE  /\ ListsLanes(pages)' /\ ListsLanes(deployed.pages)'
                    /\ op'.step = "pages" => index' # Torn
  BY StoreSteps DEF CoverageInv
<1> USE DEF CoverageInv
<1>1. ASSUME NEW version, NEW sources, NEW notes, NEW b,
             Stores([Release(version, sources, notes) EXCEPT !.submission = b])
               \/ Stores(Release(version, sources, notes))
      PROVE  UNCHANGED <<pages, deployed, index>> /\ op'.step # "pages"
  BY <1>1 DEF Stores
<1>2. CASE UNCHANGED publicationVars
  BY <1>2 DEF publicationVars, ListsLanes
<1>3. CASE WritesPage
  <2>1. Paging(op) /\ index \in Indexes
    BY <1>3 DEF WritesPage, StoreInv, CheckoutInv, Idle, Storing
  <2>2. pages' = [pages EXCEPT ![Head(op.todo)] = Render(Head(op.todo), index, files)]
    BY <1>3 DEF WritesPage
  <2>3. AreLanes(Render("coverage", index, files).fleet)
    BY <2>1, RenderedLanes
  <2>4. ListsLanes(pages)'
    BY <2>2, <2>3 DEF ListsLanes
  <2> QED  BY <1>3, <2>1, <2>4 DEF WritesPage, ListsLanes
<1>4. CASE Dies
  <2>1. op'.step # "pages" /\ UNCHANGED deployed
    BY <1>4 DEF Dies, Idle
  <2>2. UNCHANGED pages \/ pages' = [pages EXCEPT ![Head(op.todo)] = Torn]
    BY <1>4 DEF Dies
  <2>3. CASE pages' = [pages EXCEPT ![Head(op.todo)] = Torn]
    <3>1. DOMAIN pages' = PageNames /\ pages'["coverage"] \in {pages["coverage"], Torn}
      BY <2>3, CoverageIsPage DEF ListsLanes
    <3> QED  BY <2>1, <3>1 DEF ListsLanes
  <2>4. CASE UNCHANGED pages
    BY <2>1, <2>4 DEF ListsLanes
  <2> QED  BY <2>2, <2>3, <2>4
<1>5. CASE WritesFile \/ WritesIndex
  <2>1. op.step = "store"
    <3>1. ASSUME Paging(op)
          PROVE  Head(op.todo) \notin {"file", "index"}
      BY <3>1, PagesAreNoFiles DEF Paging
    <3> QED  BY <1>5, <3>1 DEF WritesFile, WritesIndex, Writing, StoreInv, Storing, Idle
  <2>2. op'.step # "pages" /\ UNCHANGED <<pages, deployed>>
    BY <1>5, <2>1 DEF WritesFile, WritesIndex, Stored, StoreInv, Storing, Idle, Paging
  <2> QED  BY <2>2 DEF ListsLanes
<1>6. CASE BuildBegins \/ Refuses
  BY <1>6 DEF BuildBegins, Refuses, Idle, ListsLanes
<1>7. CASE Renders
  BY <1>7 DEF Renders, CanBuild, BuildAccepts, ListsLanes
<1>8. CASE Deploys
  <2>1. deployed'.pages = pages /\ UNCHANGED <<index, pages, op>> /\ op.step = "idle"
    BY <1>8 DEF Deploys, Idle
  <2> QED  BY <2>1 DEF ListsLanes
<1>9. CASE Restores \/ \E v \in Versions : EditsFile(v) \/ NamesCompanion(v)
  BY <1>9 DEF Restores, EditsFile, NamesCompanion, Idle, ListsLanes
<1> QED
  BY <1>1, <1>2, <1>3, <1>4, <1>5, <1>6, <1>7, <1>8, <1>9
  DEF Next, vars, MatrixWrites, Catalogs, ReleaseImported, Importing, ReleaseAccepted,
      Accepts, BundleMade, Submits, Publishes, CommandStep, ListsLanes

(* The plan of the moment: a cell that is missing is run by exactly one    *)
(* command; any other cell is run by none, and is covered in public or had *)
(* an evaluated run for each attempt in one matrix that was measured.      *)
PlanCoversGaps ==
  pages["coverage"] # Torn =>
    LET lanes == SelectedLanes(pages["coverage"], {}, {})
        gaps  == Gaps(Manifest, pages["coverage"], lanes,
                      {summary[p] : p \in DOMAIN summary} \ {None})
    IN  NamedOnce(lanes) =>
          \A s \in Required(Manifest), lane \in lanes :
            IF [scenario |-> s, lane |-> lane] \in gaps
            THEN Cardinality(PlansOf(gaps, s, lane)) = 1
            ELSE /\ PlansOf(gaps, s, lane) = {}
                 /\ \/ PubliclyCovered(Manifest, pages["coverage"], s, lane)
                    \/ Measured(s, lane)

(* However many matrices, releases and edits led to the page it reads, the *)
(* planner asks for each missing cell once and for nothing else, provided  *)
(* that no lane is listed under two names of one provider.                 *)
THEOREM PlanCorrect == Spec => []PlanCoversGaps
<1>1. CatalogInv /\ CoverageInv => PlanCoversGaps
  <2> SUFFICES ASSUME CatalogInv, CoverageInv, pages["coverage"] # Torn
               PROVE  PlanCoversGaps
    BY DEF PlanCoversGaps
  <2> DEFINE lanes == SelectedLanes(pages["coverage"], {}, {})
             there == {summary[p] : p \in DOMAIN summary} \ {None}
             gaps  == Gaps(Manifest, pages["coverage"], lanes, there)
  <2>1. AreLanes(lanes)
    BY DEF CoverageInv, ListsLanes, AreLanes, SelectedLanes
  <2>2. there \subseteq measured
    BY DEF CatalogInv, SummariesMeasured
  <2>3. gaps \in SUBSET [scenario : Required(Manifest), lane : lanes]
    BY DEF Gaps
  <2>4. ASSUME NEW s \in Required(Manifest), NEW lane \in lanes,
               [scenario |-> s, lane |-> lane] \notin gaps
        PROVE  PubliclyCovered(Manifest, pages["coverage"], s, lane) \/ Measured(s, lane)
    <3>1. [scenario |-> s, lane |-> lane] \in [scenario : Required(Manifest), lane : lanes]
      OBVIOUS
    <3>2. \/ LocallyCovered(Manifest, there, s, lane)
          \/ PubliclyCovered(Manifest, pages["coverage"], s, lane)
      BY <2>4, <3>1 DEF Gaps
    <3> QED  BY <2>2, <3>2 DEF LocallyCovered, Measured
  <2> HIDE DEF lanes, there, gaps
  <2>5. ASSUME NamedOnce(lanes), NEW s \in Required(Manifest), NEW lane \in lanes
        PROVE  IF [scenario |-> s, lane |-> lane] \in gaps
               THEN Cardinality(PlansOf(gaps, s, lane)) = 1
               ELSE PlansOf(gaps, s, lane) = {}
    BY <2>1, <2>3, <2>5, CommandsExact
  <2> QED  BY <2>4, <2>5 DEF PlanCoversGaps, lanes, there, gaps
<1> QED  BY <1>1, CatalogStarts, CatalogSteps, CoverageStarts, CoverageSteps, PTL DEF Spec

(***************************************************************************)
(* What is deployed.                                                       *)
(***************************************************************************)
(* The numbers are in order, so a set of them that is bounded and not      *)
(* empty has a largest one.                                                *)
Less == {p \in Nat \X Nat : p[1] < p[2]}

LEMMA LessIsWell == IsWellFoundedOn(Less, Nat)
BY NatLessThanWellFounded DEF OpToRel, Less

LEMMA Largest ==
  ASSUME NEW T, T \subseteq Nat, T # {}, NEW n \in Nat, \A x \in T : x <= n
  PROVE  \E x \in T : \A y \in T : y <= x
<1> DEFINE Rest == {n - x : x \in T}
<1>1. Rest \subseteq Nat /\ Rest # {}
  <2>1. \A x \in T : x \in Nat /\ x <= n
    OBVIOUS
  <2>2. \A x \in T : n - x \in Nat
    BY <2>1
  <2>3. \E x \in T : n - x \in Rest
    OBVIOUS
  <2> QED  BY <2>2, <2>3
<1>2. PICK d \in Rest : \A e \in Rest : ~ (<<e, d>> \in Less)
  BY <1>1, LessIsWell, WFMin
<1>3. PICK x \in T : d = n - x
  OBVIOUS
<1>4. ASSUME NEW y \in T PROVE y <= x
  <2>1. n - y \in Rest /\ x \in Nat /\ y \in Nat /\ x <= n /\ y <= n
    OBVIOUS
  <2>2. n - y \in Nat /\ n - x \in Nat
    BY <2>1
  <2>3. ~ (n - y < n - x)
    BY <2>1, <2>2, <1>2, <1>3 DEF Less
  <2> HIDE DEF Rest
  <2> QED  BY <2>1, <2>3
<1> QED  BY <1>4

(* What is deployed passed the check: it is a build of what it contains.   *)
DeployedInv ==
  /\ CoverageInv
  /\ BuildAccepts(deployed.index, deployed.files)
  /\ \A p \in PageNames : deployed.pages[p] = Render(p, deployed.index, deployed.files)

LEMMA DeployedStarts == Init => DeployedInv
BY CoverageStarts, OriginAssumption DEF Init, PublicationInit, Checkout, DeployedInv

(* What a step does to the checkout.                                       *)
LEMMA PublicationSteps ==
  [Next]_vars => \/ \E release : Stores(release)
                 \/ UNCHANGED publicationVars
                 \/ Publishes
BY DEF Next, vars, MatrixWrites, Catalogs, ReleaseImported, Importing, ReleaseAccepted,
       Accepts, BundleMade, Submits

LEMMA DeployedSteps == DeployedInv /\ [Next]_vars => DeployedInv'
<1> SUFFICES ASSUME DeployedInv, [Next]_vars
             PROVE  /\ BuildAccepts(deployed'.index, deployed'.files)
                    /\ \A p \in PageNames :
                         deployed'.pages[p] = Render(p, deployed'.index, deployed'.files)
  BY CoverageSteps DEF DeployedInv
<1>1. CASE Deploys
  BY <1>1 DEF Deploys, CheckPasses, CanBuild
<1>2. CASE UNCHANGED deployed
  BY <1>2 DEF DeployedInv
<1>3. Publishes => Deploys \/ UNCHANGED deployed
  BY DEF Publishes, BuildBegins, CommandStep, WritesFile, WritesIndex, Refuses, Renders,
         WritesPage, Dies, Restores, EditsFile, NamesCompanion
<1>4. Deploys \/ UNCHANGED deployed
  BY <1>3, PublicationSteps DEF Stores, publicationVars
<1> QED  BY <1>1, <1>2, <1>4

(* A release that is accepted lists for each row the runs the row counts.  *)
CountsRuns(row, runs) ==
  /\ row.trials = Cardinality(runs)
  /\ row.evaluated = Cardinality({r \in runs : Evaluated(r)})
  /\ row.passed = Cardinality({r \in runs : Passed(r)})

LEMMA RowsCount ==
  ASSUME NEW release, ValidRelease(release), Readable(release),
         NEW key \in DOMAIN release.byScenario
  PROVE  /\ \E r \in release.runs : key = LaneCell(r)
         /\ CountsRuns(release.byScenario[key], RunsAt(release, key))
<1> DEFINE computed == ByScenario(release.runs)
           row      == release.byScenario[key]
<1>1. key \in DOMAIN computed /\ Agrees(row, computed[key])
  BY DEF ValidRelease, AgreesByKey
<1>2. PICK r \in release.runs : key = LaneCell(r)
  BY <1>1 DEF ByScenario, Grouped
<1>3. computed[key] = Aggregate(RunsAt(release, key))
  BY <1>1 DEF ByScenario, Grouped, RunsAt
<1>4. {"trials", "evaluated", "passed"} \subseteq DOMAIN row
  BY DEF Readable, NeededFields
<1> HIDE DEF computed, row
<1>5. /\ {"trials", "evaluated", "passed"} \subseteq DOMAIN computed[key]
      /\ computed[key]["trials"] = Cardinality(RunsAt(release, key))
      /\ computed[key]["evaluated"] = Cardinality({q \in RunsAt(release, key) : Evaluated(q)})
      /\ computed[key]["passed"] = Cardinality({q \in RunsAt(release, key) : Passed(q)})
  BY <1>3 DEF Aggregate, Counted
<1>6. CountsRuns(row, RunsAt(release, key))
  BY <1>1, <1>4, <1>5 DEF Agrees, CountsRuns
<1> QED  BY <1>2, <1>6 DEF row

(* The runs listed under a row are its own, unless the harness names a     *)
(* provider other than the row's that has runs of the cell itself.         *)
Unmixed(release, key) ==
  LET shown == Shown(release, key.provider) IN
  shown = key.provider \/ RunsAt(release, [key EXCEPT !.provider = shown]) = {}

LEMMA OwnRunsListed ==
  ASSUME NEW release, NEW r \in release.runs, NEW key, key = LaneCell(r),
         Unmixed(release, key)
  PROVE  RunsListed(release, key) = RunsAt(release, key)
<1> DEFINE shown == Shown(release, key.provider)
           Under(p) == RunsAt(release, [key EXCEPT !.provider = p])
<1>1. [key EXCEPT !.provider = key.provider] = key
  BY DEF LaneCell
<1>2. Under(key.provider) = RunsAt(release, key) /\ r \in RunsAt(release, key)
  BY <1>1 DEF RunsAt
<1>3. shown = key.provider \/ Under(shown) = {}
  BY DEF Unmixed
<1> HIDE DEF shown, Under
<1>4. RunsListed(release, key) =
        CASE Under(shown) # {} -> Under(shown)
          [] Under(shown) = {} /\ key.provider # None /\ Under(key.provider) # {} -> Under(key.provider)
          [] OTHER -> IF shown # None THEN Under(None) ELSE {}
  BY DEF RunsListed, shown, Under
<1> QED  BY <1>2, <1>3, <1>4

(* Every row of the deployed catalog is of a deployed release and counts   *)
(* the runs listed below it.                                               *)
DeployedCatalogCounts ==
  \A c \in deployed.pages["catalog"].records :
    \E v \in Published(deployed.index) :
      LET release == deployed.files[v] IN
      \E key \in DOMAIN release.byScenario :
        /\ c = Record(v, release, key)
        /\ Unmixed(release, key) => CountsRuns(c.row, RunsListed(release, key))

(* However often releases were stored, torn, edited and restored, every    *)
(* number of the deployed catalog counts the runs listed below it, unless  *)
(* the harness of its release was annotated with another row's provider.   *)
THEOREM CatalogCorrect == Spec => []DeployedCatalogCounts
<1>1. DeployedInv => DeployedCatalogCounts
  <2> SUFFICES ASSUME DeployedInv, NEW c \in deployed.pages["catalog"].records
               PROVE  \E v \in Published(deployed.index) :
                        \E key \in DOMAIN deployed.files[v].byScenario :
                          /\ c = Record(v, deployed.files[v], key)
                          /\ Unmixed(deployed.files[v], key) =>
                               CountsRuns(c.row, RunsListed(deployed.files[v], key))
    BY DEF DeployedCatalogCounts
  <2>1. deployed.pages["catalog"] = Catalog(deployed.index, deployed.files)
    BY DEF DeployedInv, PageNames, Pages, Render
  <2>2. PICK v \in Published(deployed.index) : c \in Records(v, deployed.files[v])
    BY <2>1 DEF Catalog
  <2> DEFINE release == deployed.files[v]
  <2>3. PICK key \in DOMAIN release.byScenario : c = Record(v, release, key)
    BY <2>2 DEF Records
  <2>4. ValidRelease(release) /\ Readable(release)
    BY DEF DeployedInv, BuildAccepts, CatalogAccepts
  <2>5. c.row = release.byScenario[key]
    BY <2>3 DEF Record
  <2> HIDE DEF release
  <2>6. /\ \E r \in release.runs : key = LaneCell(r)
        /\ CountsRuns(c.row, RunsAt(release, key))
    BY <2>3, <2>4, <2>5, RowsCount
  <2>7. Unmixed(release, key) => CountsRuns(c.row, RunsListed(release, key))
    BY <2>6, OwnRunsListed
  <2> QED  BY <2>3, <2>7 DEF release
<1> QED  BY <1>1, DeployedStarts, DeployedSteps, PTL DEF Spec

(* A scenario that has records has a boundary, which is one of them.       *)
LEMMA NewestIsOne ==
  ASSUME NEW i \in Indexes, NEW S, S # {}, \A q \in S : q.release \in Published(i)
  PROVE  Newest(i, S) # {}
<1> DEFINE Places == {Position(i, q.release) : q \in S}
<1>1. i.releases \in Seq(Versions) /\ DOMAIN i.releases = 1 .. Len(i.releases)
  BY DEF Indexes
<1>2. \A v \in Published(i) : Position(i, v) \in 1 .. Len(i.releases)
  BY <1>1 DEF Published, Position
<1>3. Len(i.releases) \in Nat
  BY <1>1
<1>4. Places \subseteq Nat /\ Places # {} /\ \A x \in Places : x <= Len(i.releases)
  BY <1>2, <1>3
<1>5. PICK x \in Places : \A y \in Places : y <= x
  BY <1>3, <1>4, Largest
<1> QED  BY <1>5 DEF Newest

LEMMA CellsAreOfFleet ==
  ASSUME NEW i, NEW f, NEW entry \in Coverage(i, f).scenarios, NEW cell \in entry.cells
  PROVE  cell.lane \in Coverage(i, f).fleet
<1> DEFINE primary == Primary(i, f)
           fleet   == Fleet(i, primary)
<1>1. \A b, lane : CellOf(b, lane, primary).lane = lane
  BY DEF CellOf
<1>2. Coverage(i, f).fleet = fleet
  BY DEF Coverage
<1> DEFINE B(s) == CHOOSE r \in Newest(i, {q \in primary : q.scenario = s}) : TRUE
<1>3. PICK s :
        entry = [scenario |-> s, version |-> B(s).version, release |-> B(s).release,
                 tier |-> B(s).tier, contract |-> f[B(s).release].contract,
                 cells |-> {CellOf(B(s), lane, primary) : lane \in fleet}]
  BY DEF Coverage
<1> HIDE DEF primary, fleet, B
<1> QED  BY <1>1, <1>2, <1>3

(* No release that counts and has the scenario is newer.                   *)
Latest(i, f, v, scenario) ==
  \A w \in Published(i) \ i.companions : \A key \in DOMAIN f[w].byScenario :
    key.scenario = scenario => Position(i, w) <= Position(i, v)

(* A cell that the coverage page shows as covered has the runs it says, in *)
(* the release of its scenario's entry, the newest that counts.            *)
HasEvidence(i, f, entry, cell) ==
  /\ entry.release \in Published(i) \ i.companions
  /\ Latest(i, f, entry.release, entry.scenario)
  /\ entry.contract = f[entry.release].contract /\ entry.tier = f[entry.release].tier
  /\ LET release == f[entry.release] IN
     \E key \in DOMAIN release.byScenario :
       /\ key.scenario = entry.scenario /\ key.version = entry.version
       /\ key.model = cell.lane.model
       /\ Shown(release, key.provider) = cell.lane.provider
       /\ cell.evaluated = Cardinality({r \in RunsAt(release, key) : Evaluated(r)})

LEMMA CoveredHasEvidence ==
  ASSUME NEW i \in Indexes, NEW f, CatalogAccepts(i, f),
         NEW entry \in Coverage(i, f).scenarios, NEW cell \in entry.cells, cell.covered
  PROVE  HasEvidence(i, f, entry, cell)
<1> DEFINE primary == Primary(i, f)
           Of(s)   == {q \in primary : q.scenario = s}
           B(s)    == CHOOSE r \in Newest(i, Of(s)) : TRUE
<1>1. \A r \in primary : \E v \in Published(i) \ i.companions :
        \E key \in DOMAIN f[v].byScenario : r = Record(v, f[v], key)
  BY DEF Primary, Records
<1>2. \A r \in primary : r.release \in Published(i) \ i.companions
  BY <1>1 DEF Record
<1>3. PICK s \in {r.scenario : r \in primary} :
        entry = [scenario |-> s, version |-> B(s).version, release |-> B(s).release,
                 tier |-> B(s).tier, contract |-> f[B(s).release].contract,
                 cells |-> {CellOf(B(s), lane, primary) : lane \in Fleet(i, primary)}]
  BY DEF Coverage
<1> DEFINE b == B(s)
<1>4. b \in Of(s)
  <2>1. Of(s) # {} /\ \A q \in Of(s) : q.release \in Published(i)
    BY <1>2, <1>3
  <2> HIDE DEF Of
  <2>2. Newest(i, Of(s)) # {}
    BY <2>1, NewestIsOne
  <2> QED  BY <2>2 DEF Newest
<1>b. Latest(i, f, entry.release, entry.scenario)
  <2>1. Of(s) # {} /\ \A q \in Of(s) : q.release \in Published(i)
    BY <1>2, <1>3
  <2>2. entry.release = b.release /\ entry.scenario = s
    BY <1>3
  <2>3. ASSUME NEW w \in Published(i) \ i.companions, NEW key \in DOMAIN f[w].byScenario,
               key.scenario = s
        PROVE  Record(w, f[w], key) \in Of(s) /\ Record(w, f[w], key).release = w
    <3>1. Record(w, f[w], key) \in primary
      BY DEF Primary, Records
    <3>2. Record(w, f[w], key).scenario = s /\ Record(w, f[w], key).release = w
      BY <2>3 DEF Record
    <3> QED  BY <3>1, <3>2
  <2> HIDE DEF Of
  <2>4. b \in Newest(i, Of(s))
    BY <2>1, NewestIsOne
  <2> HIDE DEF b, B
  <2>5. \A q \in Of(s) : Position(i, q.release) <= Position(i, b.release)
    BY <2>4 DEF Newest
  <2> QED  BY <2>2, <2>3, <2>5 DEF Latest
<1>5. b \in primary /\ b.scenario = s
  BY <1>4
<1>6. PICK lane : cell = CellOf(b, lane, primary)
  BY <1>3
<1>a. entry.contract = f[entry.release].contract /\ entry.tier = f[entry.release].tier
  <2>1. entry.release = b.release /\ entry.contract = f[b.release].contract /\ entry.tier = b.tier
    BY <1>3
  <2> HIDE DEF primary, B, b
  <2>2. b.tier = f[b.release].tier
    BY <1>1, <1>5 DEF Record
  <2> QED  BY <2>1, <2>2
<1> HIDE DEF primary, B, b
<1> DEFINE found == {r \in OfLane(primary, lane) :
                       /\ r.scenario = b.scenario
                       /\ r.version = b.version
                       /\ r.release = b.release}
<1>7. found # {} /\ cell = [lane |-> lane, covered |-> TRUE,
                            evaluated |-> (CHOOSE r \in found : TRUE).row.evaluated]
  BY <1>6 DEF CellOf
<1>8. PICK r \in found : cell.lane = lane /\ cell.evaluated = r.row.evaluated
  BY <1>7
<1>9. /\ r \in primary /\ Lane(r) = lane
      /\ r.scenario = entry.scenario /\ r.version = entry.version /\ r.release = entry.release
  BY <1>3, <1>5, <1>8 DEF OfLane, b
<1>10. PICK v \in Published(i) \ i.companions :
         \E key \in DOMAIN f[v].byScenario : r = Record(v, f[v], key)
  BY <1>1, <1>9
<1>11. PICK key \in DOMAIN f[v].byScenario : r = Record(v, f[v], key)
  BY <1>10
<1>12. v = entry.release /\ ValidRelease(f[v]) /\ Readable(f[v])
  BY <1>9, <1>10, <1>11 DEF Record, CatalogAccepts
<1>13. r.row.evaluated = Cardinality({q \in RunsAt(f[v], key) : Evaluated(q)})
  BY <1>11, <1>12, RowsCount DEF Record, CountsRuns
<1>14. /\ key.scenario = r.scenario /\ key.version = r.version
       /\ key.model = r.model /\ Shown(f[v], key.provider) = r.provider
  BY <1>11 DEF Record
<1>15. r.model = cell.lane.model /\ r.provider = cell.lane.provider
  BY <1>8, <1>9 DEF Lane
<1> HIDE DEF found
<1>16. /\ key.scenario = entry.scenario /\ key.version = entry.version
       /\ key.model = cell.lane.model /\ Shown(f[v], key.provider) = cell.lane.provider
       /\ cell.evaluated = Cardinality({q \in RunsAt(f[v], key) : Evaluated(q)})
  BY <1>8, <1>9, <1>13, <1>14, <1>15
<1> QED
  BY <1>a, <1>b, <1>10, <1>11, <1>12, <1>16 DEF HasEvidence

(* A cell that a page lets a planner leave out has an evaluated run for    *)
(* each attempt in one published release that counts, under the conditions *)
(* of the manifest and no older than any other with the scenario.          *)
Released(i, f, s, lane) ==
  \E v \in Published(i) \ i.companions :
    /\ SameBoundary(Manifest, f[v]) /\ Latest(i, f, v, s.id)
    /\ \E key \in DOMAIN f[v].byScenario :
         /\ key.scenario = s.id /\ key.version = s.version /\ key.model = lane.model
         /\ ProviderId(Shown(f[v], key.provider)) = ProviderId(lane.provider)
         /\ Cardinality({r \in RunsAt(f[v], key) : Evaluated(r)}) >= Manifest.attempts

LEMMA CoveredIsReleased ==
  ASSUME NEW i \in Indexes, NEW f, CatalogAccepts(i, f),
         NEW s, NEW lane \in Coverage(i, f).fleet,
         PubliclyCovered(Manifest, Coverage(i, f), s, lane)
  PROVE  Released(i, f, s, lane)
<1> DEFINE page == Coverage(i, f)
<1>3. PICK entry \in page.scenarios :
        /\ entry.scenario = s.id /\ entry.version = s.version
        /\ SameBoundary(Manifest, entry)
        /\ \E cell \in CellAt(entry, lane) : /\ cell.covered
                                             /\ cell.evaluated >= Manifest.attempts
  BY DEF PubliclyCovered
<1>4. PICK cell \in CellAt(entry, lane) :
        cell.covered /\ cell.evaluated >= Manifest.attempts
  BY <1>3
<1>5. cell \in entry.cells /\ Normal(cell.lane) = Normal(lane)
  BY <1>4 DEF CellAt
<1>6. HasEvidence(i, f, entry, cell)
  BY <1>4, <1>5, CoveredHasEvidence
<1>7. cell.lane \in page.fleet /\ AreLanes(page.fleet)
  <2>1. cell.lane \in page.fleet
    BY <1>5, CellsAreOfFleet
  <2> QED  BY <2>1, FleetIsLanes
<1>8. /\ cell.lane.model = lane.model
      /\ ProviderId(cell.lane.provider) = ProviderId(lane.provider)
  <2>1. PICK p, n : lane = [provider |-> p, model |-> n]
    BY <1>7 DEF AreLanes
  <2>2. PICK q, o : cell.lane = [provider |-> q, model |-> o]
    BY <1>7 DEF AreLanes
  <2>3. /\ Normal(lane) = [provider |-> ProviderId(p), model |-> n]
        /\ Normal(cell.lane) = [provider |-> ProviderId(q), model |-> o]
    BY <2>1, <2>2 DEF Normal
  <2> QED  BY <1>5, <2>1, <2>2, <2>3
<1> HIDE DEF page
<1>9. SameBoundary(Manifest, f[entry.release])
  BY <1>3, <1>6 DEF HasEvidence, SameBoundary
<1> QED  BY <1>3, <1>4, <1>6, <1>8, <1>9 DEF HasEvidence, Released

(* Whatever was published, edited or made a companion on the way, nobody   *)
(* is told that a cell is covered without that evidence in the checkout.   *)
DeployedCoverageHolds ==
  \A s \in Required(Manifest), lane \in deployed.pages["coverage"].fleet :
    PubliclyCovered(Manifest, deployed.pages["coverage"], s, lane)
      => Released(deployed.index, deployed.files, s, lane)

LEMMA DeployedIsReleased == DeployedInv => DeployedCoverageHolds
<1> SUFFICES ASSUME DeployedInv PROVE DeployedCoverageHolds
  OBVIOUS
<1>1. deployed.pages["coverage"] = Coverage(deployed.index, deployed.files)
  BY DEF DeployedInv, PageNames, Pages, Render
<1>2. deployed.index \in Indexes /\ CatalogAccepts(deployed.index, deployed.files)
  BY DEF DeployedInv, BuildAccepts, CoverageInv, StoreInv, CheckoutInv
<1> QED  BY <1>1, <1>2, CoveredIsReleased DEF DeployedCoverageHolds

(* A cell that the deployed coverage lets a planner leave out has an       *)
(* evaluated run for each attempt in one deployed release: the newest with *)
(* the scenario that is no companion, made under the manifest's conditions.*)
THEOREM CoverageCorrect == Spec => []DeployedCoverageHolds
BY DeployedIsReleased, DeployedStarts, DeployedSteps, PTL DEF Spec

-----------------------------------------------------------------------------
(* Least elements, and the recursive functions Kept and Stages             *)

LEMMA Least ==
  ASSUME NEW T, T \subseteq Nat, T # {}
  PROVE  \E x \in T : \A y \in T : x <= y
<1>1. PICK x \in T : \A y \in T : ~ (<<y, x>> \in Less)
  BY LessIsWell, WFMin
<1>2. \A y \in T : ~ (y < x)
  BY <1>1 DEF Less
<1> QED  BY <1>2

(* The recursive functions of the model are defined: each has a value at   *)
(* every index, whatever the step from one to the next is.                 *)
LEMMA KeptDefined ==
  ASSUME NEW s, Len(s) \in Nat, NEW S
  PROVE  \E kept :
           /\ kept = [i \in 0 .. Len(s) |->
                        IF i = 0 THEN <<>>
                        ELSE IF s[i] \in S THEN Append(kept[i - 1], s[i]) ELSE kept[i - 1]]
           /\ Kept(s, S) = kept[Len(s)]
<1> DEFINE Step(u, i)  == IF s[i] \in S THEN Append(u, s[i]) ELSE u
           Upto(f, n)  == f = [i \in 0 .. n |-> IF i = 0 THEN <<>> ELSE Step(f[i - 1], i)]
           Bad         == {n \in Nat : ~ \E f : Upto(f, n)}
<1> HIDE DEF Step
<1>1. Bad = {}
  <2> SUFFICES ASSUME Bad # {} PROVE FALSE
    OBVIOUS
  <2>1. PICK n \in Bad : \A m \in Bad : n <= m
    BY Least
  <2>2. n # 0
    <3>1. Upto([i \in 0 .. 0 |-> <<>>], 0)
      OBVIOUS
    <3> QED  BY <3>1
  <2>3. n - 1 \in Nat /\ n \in Nat /\ ~ (n <= n - 1)
    BY <2>2
  <2>4. PICK f : Upto(f, n - 1)
    BY <2>1, <2>3
  <2> DEFINE g == [i \in 0 .. n |-> IF i = n THEN Step(f[n - 1], n) ELSE f[i]]
  <2>5. \A i \in 0 .. n : g[i] = IF i = 0 THEN <<>> ELSE Step(g[i - 1], i)
    <3> TAKE i \in 0 .. n
    <3>1. CASE i = n
      <4>1. n - 1 \in 0 .. n /\ n - 1 # n
        BY <2>3
      <4> QED  BY <3>1, <4>1, <2>2
    <3>2. CASE i # n /\ i # 0
      <4>1. i \in 0 .. (n - 1) /\ i - 1 \in 0 .. n /\ i - 1 # n
        BY <3>2, <2>3
      <4>2. g[i] = f[i] /\ g[i - 1] = f[i - 1]
        BY <3>2, <4>1
      <4> QED  BY <3>2, <4>1, <4>2, <2>4
    <3>3. CASE i = 0
      <4>1. 0 \in 0 .. (n - 1)
        BY <2>3
      <4> QED  BY <3>3, <4>1, <2>2, <2>4
    <3> QED  BY <3>1, <3>2, <3>3
  <2>6. g = [i \in 0 .. n |-> g[i]]
    OBVIOUS
  <2> HIDE DEF g
  <2>7. Upto(g, n)
    BY <2>5, <2>6
  <2> QED  BY <2>1, <2>7
<1>2. \E f : Upto(f, Len(s))
  BY <1>1
<1>3. Kept(s, S) = (CHOOSE f : Upto(f, Len(s)))[Len(s)]
  BY DEF Kept, Step
<1> DEFINE kept == CHOOSE f : Upto(f, Len(s))
<1>4. Upto(kept, Len(s))
  BY <1>2
<1> QED  BY <1>3, <1>4 DEF Step

LEMMA StagesDefined ==
  ASSUME NEW trials, NEW corrections, Len(corrections) \in Nat
  PROVE  Stages(trials, corrections) =
           [i \in 0 .. Len(corrections) |->
              IF i = 0 THEN trials
              ELSE Correct(Stages(trials, corrections)[i - 1], corrections[i])]
<1> DEFINE Step(u, i)  == Correct(u, corrections[i])
           Upto(f, n)  == f = [i \in 0 .. n |-> IF i = 0 THEN trials ELSE Step(f[i - 1], i)]
           Bad         == {n \in Nat : ~ \E f : Upto(f, n)}
<1> HIDE DEF Step
<1>1. Bad = {}
  <2> SUFFICES ASSUME Bad # {} PROVE FALSE
    OBVIOUS
  <2>1. PICK n \in Bad : \A m \in Bad : n <= m
    BY Least
  <2>2. n # 0
    <3>1. Upto([i \in 0 .. 0 |-> trials], 0)
      OBVIOUS
    <3> QED  BY <3>1
  <2>3. n - 1 \in Nat /\ n \in Nat /\ ~ (n <= n - 1)
    BY <2>2
  <2>4. PICK f : Upto(f, n - 1)
    BY <2>1, <2>3
  <2> DEFINE g == [i \in 0 .. n |-> IF i = n THEN Step(f[n - 1], n) ELSE f[i]]
  <2>5. \A i \in 0 .. n : g[i] = IF i = 0 THEN trials ELSE Step(g[i - 1], i)
    <3> TAKE i \in 0 .. n
    <3>1. CASE i = n
      <4>1. n - 1 \in 0 .. n /\ n - 1 # n
        BY <2>3
      <4> QED  BY <3>1, <4>1, <2>2
    <3>2. CASE i # n /\ i # 0
      <4>1. i \in 0 .. (n - 1) /\ i - 1 \in 0 .. n /\ i - 1 # n
        BY <3>2, <2>3
      <4>2. g[i] = f[i] /\ g[i - 1] = f[i - 1]
        BY <3>2, <4>1
      <4> QED  BY <3>2, <4>1, <4>2, <2>4
    <3>3. CASE i = 0
      <4>1. 0 \in 0 .. (n - 1)
        BY <2>3
      <4> QED  BY <3>3, <4>1, <2>2, <2>4
    <3> QED  BY <3>1, <3>2, <3>3
  <2>6. g = [i \in 0 .. n |-> g[i]]
    OBVIOUS
  <2> HIDE DEF g
  <2>7. Upto(g, n)
    BY <2>5, <2>6
  <2> QED  BY <2>1, <2>7
<1>2. \E f : Upto(f, Len(corrections))
  BY <1>1
<1>3. Stages(trials, corrections) = CHOOSE f : Upto(f, Len(corrections))
  BY DEF Stages, Step
<1>4. Upto(Stages(trials, corrections), Len(corrections))
  BY <1>2, <1>3
<1> QED  BY <1>4 DEF Step

(* What is kept of a sequence is a sequence of members of the set.         *)
LEMMA KeptMembers ==
  ASSUME NEW T, NEW s \in Seq(T), NEW S
  PROVE  Kept(s, S) \in Seq(T \cap S)
<1>0. Len(s) \in Nat /\ \A i \in 1 .. Len(s) : s[i] \in T
  OBVIOUS
<1>1. PICK kept :
        /\ kept = [i \in 0 .. Len(s) |->
                     IF i = 0 THEN <<>>
                     ELSE IF s[i] \in S THEN Append(kept[i - 1], s[i]) ELSE kept[i - 1]]
        /\ Kept(s, S) = kept[Len(s)]
  BY <1>0, KeptDefined
<1>a. \A i \in 0 .. Len(s) :
        kept[i] = IF i = 0 THEN <<>>
                  ELSE IF s[i] \in S THEN Append(kept[i - 1], s[i]) ELSE kept[i - 1]
  BY <1>1
<1> DEFINE Bad == {i \in 0 .. Len(s) : kept[i] \notin Seq(T \cap S)}
<1>2. Bad = {}
  <2> SUFFICES ASSUME Bad # {} PROVE FALSE
    OBVIOUS
  <2>1. Bad \subseteq Nat
    BY <1>0
  <2>2. PICK i \in Bad : \A j \in Bad : i <= j
    BY <2>1, Least
  <2>3. i # 0
    <3>1. 0 \in 0 .. Len(s) /\ <<>> \in Seq(T \cap S)
      BY <1>0
    <3>2. kept[0] = <<>>
      BY <3>1, <1>a
    <3> QED  BY <3>1, <3>2
  <2>4. i - 1 \in 0 .. Len(s) /\ i \in 1 .. Len(s) /\ ~ (i <= i - 1)
    BY <1>0, <2>3
  <2>5. kept[i - 1] \in Seq(T \cap S)
    BY <2>2, <2>4
  <2>6. kept[i] = IF s[i] \in S THEN Append(kept[i - 1], s[i]) ELSE kept[i - 1]
    BY <1>a, <2>3
  <2>7. kept[i] \in Seq(T \cap S)
    BY <1>0, <2>4, <2>5, <2>6
  <2> QED  BY <2>2, <2>7
<1>3. Len(s) \in 0 .. Len(s)
  BY <1>0
<1> QED  BY <1>1, <1>2, <1>3

-----------------------------------------------------------------------------
(* Trials: what a correction changes, and that it can be taken back        *)

TrialFields == {"id", "scenario", "version", "provider", "model", "attempt",
                "status", "reward", "category", "cost", "src"}

IsTrial(r) == r = [f \in TrialFields |-> r[f]]

(* Two runs that differ at most in the fields that are corrected.          *)
Same(q, r, C) == \A f \in TrialFields \ C : q[f] = r[f]

(* The runs of a release are told apart by their sources, and in a source  *)
(* by their ids and by their cells.                                        *)
Keyed(T) ==
  /\ \A r \in T : IsTrial(r)
  /\ \A q, r \in T : q.src = r.src /\ (q.id = r.id \/ Cell(q) = Cell(r)) => q = r
  /\ \E n \in Nat : \A r \in T : r.src \in Nat /\ r.src <= n

LEMMA SameIs ==
  ASSUME NEW q, NEW r, NEW C, C \subseteq Correctable, Same(q, r, C)
  PROVE  /\ q.id = r.id /\ q.src = r.src /\ Cell(q) = Cell(r) /\ Fact(q) = Fact(r)
         /\ "provider" \notin C => q.provider = r.provider /\ LaneCell(q) = LaneCell(r)
<1>1. {"id", "scenario", "version", "model", "attempt", "status", "reward", "src"}
        \subseteq TrialFields \ C
  BY DEF TrialFields, Correctable
<1>2. /\ q.id = r.id /\ q.scenario = r.scenario /\ q.version = r.version
      /\ q.model = r.model /\ q.attempt = r.attempt
      /\ q.status = r.status /\ q.reward = r.reward /\ q.src = r.src
  BY <1>1 DEF Same
<1>3. "provider" \notin C => q.provider = r.provider
  BY DEF Same, TrialFields
<1> QED  BY <1>2, <1>3 DEF Cell, Fact, LaneCell

LEMMA AmendKeeps ==
  ASSUME NEW r, IsTrial(r), NEW changes, NEW C, DOMAIN changes \subseteq C
  PROVE  IsTrial(Amend(r, changes)) /\ Same(Amend(r, changes), r, C)
<1>1. DOMAIN r = TrialFields
  BY DEF IsTrial
<1>2. Amend(r, changes) =
        [f \in TrialFields |-> IF f \in DOMAIN changes THEN changes[f] ELSE r[f]]
  BY <1>1 DEF Amend
<1> QED  BY <1>2 DEF IsTrial, Same

LEMMA NamedIs ==
  ASSUME NEW T, Keyed(T), NEW id, \E r \in T : r.id = id
  PROVE  /\ Named(T, id) \in T /\ Named(T, id).id = id
         /\ \A q \in T : q.id = id => q.src <= Named(T, id).src
<1> DEFINE Srcs == {r.src : r \in {q \in T : q.id = id}}
<1>1. PICK n \in Nat : \A r \in T : r.src \in Nat /\ r.src <= n
  BY DEF Keyed
<1>2. PICK x \in Srcs : \A y \in Srcs : y <= x
  <2>1. Srcs \subseteq Nat /\ Srcs # {} /\ \A x \in Srcs : x <= n
    BY <1>1
  <2> HIDE DEF Srcs
  <2> QED  BY <2>1, Largest
<1>3. PICK r \in T : r.id = id /\ r.src = x
  BY <1>2
<1>4. \A q \in T : q.id = id => q.src <= r.src
  BY <1>2, <1>3
<1> HIDE DEF Srcs
<1> QED  BY <1>3, <1>4 DEF Named

(* A correction of a run that is there changes this run, and of it nothing *)
(* but the fields it names; with the values it replaced it is undone.      *)
CorrectionOf(T, c, C) ==
  /\ C \subseteq Correctable
  /\ \E r \in T : r.id = c.run
  /\ DOMAIN c.changes \subseteq C

LEMMA CorrectKeeps ==
  ASSUME NEW T, Keyed(T), NEW c, NEW C, CorrectionOf(T, c, C)
  PROVE  /\ Keyed(Correct(T, c))
         /\ \A u \in Correct(T, c) : \E r \in T : Same(u, r, C)
         /\ \A r \in T : \E u \in Correct(T, c) : u.id = r.id
         /\ IsFiniteSet(T) => IsFiniteSet(Correct(T, c))
<1> DEFINE r == Named(T, c.run)
           a == Amend(r, c.changes)
           U == (T \ {r}) \cup {a}
<1>1. r \in T
  BY NamedIs DEF CorrectionOf
<1>2. IsTrial(a) /\ Same(a, r, C)
  BY <1>1, AmendKeeps DEF CorrectionOf, Keyed
<1>3. a.id = r.id /\ a.src = r.src /\ Cell(a) = Cell(r)
  BY <1>2, SameIs DEF CorrectionOf
<1>4. Correct(T, c) = U
  BY DEF Correct
<1>5. ASSUME NEW p \in U, NEW q \in U, p.src = q.src, p.id = q.id \/ Cell(p) = Cell(q)
      PROVE  p = q
  <2>1. PICK p1 \in T : /\ p1.id = p.id /\ p1.src = p.src /\ Cell(p1) = Cell(p)
                        /\ p1 = IF p = a THEN r ELSE p
    BY <1>1, <1>3
  <2>2. PICK q1 \in T : /\ q1.id = q.id /\ q1.src = q.src /\ Cell(q1) = Cell(q)
                        /\ q1 = IF q = a THEN r ELSE q
    BY <1>1, <1>3
  <2>3. p1 = q1
    BY <1>5, <2>1, <2>2 DEF Keyed
  <2> QED  BY <2>1, <2>2, <2>3
<1>6. PICK n \in Nat : \A q \in T : q.src \in Nat /\ q.src <= n
  BY DEF Keyed
<1> HIDE DEF r, a
<1>7. \A q \in U : IsTrial(q) /\ q.src \in Nat /\ q.src <= n
  BY <1>1, <1>2, <1>3, <1>6 DEF Keyed
<1>8. Keyed(U)
  BY <1>5, <1>7 DEF Keyed
<1>9. \A u \in U : \E q \in T : Same(u, q, C)
  BY <1>1, <1>2 DEF Same
<1>10. \A q \in T : \E u \in U : u.id = q.id
  BY <1>3
<1>11. IsFiniteSet(T) => IsFiniteSet(U)
  BY FS_RemoveElement, FS_AddElement
<1> QED  BY <1>4, <1>8, <1>9, <1>10, <1>11

LEMMA CorrectUndone ==
  ASSUME NEW T, Keyed(T), NEW c, NEW C, CorrectionOf(T, c, C),
         NEW back, back.run = c.run,
         back.changes = [f \in DOMAIN c.changes |-> Named(T, c.run)[f]]
  PROVE  Correct(Correct(T, c), back) = T
<1> DEFINE r == Named(T, c.run)
           a == Amend(r, c.changes)
           U == (T \ {r}) \cup {a}
<1>1. r \in T /\ r.id = c.run /\ \A q \in T : q.id = c.run => q.src <= r.src
  BY NamedIs DEF CorrectionOf
<1>2. IsTrial(r) /\ Same(a, r, C) /\ IsTrial(a)
  BY <1>1, AmendKeeps DEF CorrectionOf, Keyed
<1>3. a.id = r.id /\ a.src = r.src
  BY <1>2, SameIs DEF CorrectionOf
<1>4. Correct(T, c) = U /\ Keyed(U)
  <2>1. Keyed(Correct(T, c))
    BY CorrectKeeps
  <2> QED  BY <2>1 DEF Correct
<1>5. Named(U, c.run) = a
  <2>1. a \in U /\ a.id = c.run /\ a.src \in Nat
    BY <1>1, <1>3 DEF Keyed
  <2> HIDE DEF U
  <2>2. /\ Named(U, c.run) \in U /\ Named(U, c.run).id = c.run
        /\ a.src <= Named(U, c.run).src
    BY <1>4, <2>1, NamedIs
  <2> HIDE DEF a, r
  <2>3. Named(U, c.run).src <= a.src
    BY <1>1, <1>3, <2>2 DEF U, Keyed
  <2>4. Named(U, c.run).src \in Nat
    BY <1>4, <2>2 DEF Keyed
  <2>5. Named(U, c.run).src = a.src
    BY <2>1, <2>2, <2>3, <2>4
  <2> QED  BY <1>4, <2>1, <2>2, <2>5 DEF Keyed
<1>6. a \notin T \ {r}
  BY <1>1, <1>3 DEF Keyed
<1>7. Amend(a, back.changes) = r
  <2>1. DOMAIN r = TrialFields
    BY <1>2 DEF IsTrial
  <2>2. a = [f \in TrialFields |-> IF f \in DOMAIN c.changes THEN c.changes[f] ELSE r[f]]
    BY <2>1 DEF Amend
  <2> HIDE DEF a, r
  <2>3. DOMAIN back.changes = DOMAIN c.changes
        /\ \A f \in DOMAIN c.changes : back.changes[f] = r[f]
    BY DEF r
  <2>4. Amend(a, back.changes) = [f \in TrialFields |-> r[f]]
    BY <2>2, <2>3 DEF Amend
  <2> QED  BY <1>2, <2>4 DEF IsTrial
<1> HIDE DEF a, r
<1>8. Correct(U, back) = (U \ {a}) \cup {r}
  BY <1>5, <1>7 DEF Correct
<1> QED  BY <1>1, <1>4, <1>6, <1>8

-----------------------------------------------------------------------------
(* A sequence of corrections                                               *)

(* A sequence of corrections of some fields, and what any number of them   *)
(* leaves of the runs.                                                     *)
CorrectionsOf(T, cs, C) ==
  cs \in Seq(Range(cs)) /\ \A i \in DOMAIN cs : CorrectionOf(T, cs[i], C)

Revises(U, T, C) ==
  /\ Keyed(U)
  /\ \A u \in U : \E r \in T : Same(u, r, C)
  /\ \A r \in T : \E u \in U : u.id = r.id
  /\ IsFiniteSet(T) => IsFiniteSet(U)

LEMMA StagesRevise ==
  ASSUME NEW T, Keyed(T), NEW cs, NEW C, CorrectionsOf(T, cs, C),
         NEW i \in 0 .. Len(cs)
  PROVE  Revises(Stages(T, cs)[i], T, C)
<1> DEFINE F   == Stages(T, cs)
           Bad == {j \in 0 .. Len(cs) : ~ Revises(F[j], T, C)}
<1>1. Len(cs) \in Nat /\ DOMAIN cs = 1 .. Len(cs)
  BY DEF CorrectionsOf
<1>2. F = [j \in 0 .. Len(cs) |-> IF j = 0 THEN T ELSE Correct(F[j - 1], cs[j])]
  BY <1>1, StagesDefined
<1> HIDE DEF F
<1>3. \A j \in 0 .. Len(cs) : F[j] = IF j = 0 THEN T ELSE Correct(F[j - 1], cs[j])
  BY <1>2
<1>4. Bad = {}
  <2> SUFFICES ASSUME Bad # {} PROVE FALSE
    OBVIOUS
  <2>1. Bad \subseteq Nat
    BY <1>1
  <2> DEFINE IsLeast(j) == \A k \in Bad : j <= k
  <2>2. PICK j \in Bad : IsLeast(j)
    <3> HIDE DEF Bad
    <3> QED  BY <2>1, Least
  <2>3. Revises(T, T, C)
    BY DEF Revises, Same
  <2>4. j # 0
    BY <1>1, <1>3, <2>3
  <2>5. j - 1 \in 0 .. Len(cs) /\ j \in 1 .. Len(cs) /\ ~ (j <= j - 1)
    BY <1>1, <2>4
  <2>6. Revises(F[j - 1], T, C)
    BY <2>2, <2>5
  <2>7. F[j] = Correct(F[j - 1], cs[j])
    BY <1>3, <2>4
  <2> DEFINE U == F[j - 1]
  <2> HIDE DEF U, Bad
  <2>8. CorrectionOf(U, cs[j], C) /\ Keyed(U)
    BY <1>1, <2>5, <2>6 DEF CorrectionsOf, CorrectionOf, Revises, U
  <2>9. /\ Keyed(Correct(U, cs[j]))
        /\ \A u \in Correct(U, cs[j]) : \E r \in U : Same(u, r, C)
        /\ \A r \in U : \E u \in Correct(U, cs[j]) : u.id = r.id
        /\ IsFiniteSet(U) => IsFiniteSet(Correct(U, cs[j]))
    BY <2>8, CorrectKeeps
  <2>10. Revises(U, T, C)
    BY <2>6 DEF U
  <2>11. Revises(Correct(U, cs[j]), T, C)
    <3> DEFINE V == Correct(U, cs[j])
    <3>1. \A u \in V : \E r \in T : Same(u, r, C)
      <4> TAKE u \in V
      <4>1. PICK q \in U : Same(u, q, C)
        BY <2>9
      <4>2. PICK r \in T : Same(q, r, C)
        BY <2>10 DEF Revises
      <4>3. Same(u, r, C)
        BY <4>1, <4>2 DEF Same
      <4> QED  BY <4>3
    <3>2. \A r \in T : \E u \in V : u.id = r.id
      <4> TAKE r \in T
      <4>1. PICK q \in U : q.id = r.id
        BY <2>10 DEF Revises
      <4> QED  BY <2>9, <4>1
    <3> QED  BY <2>9, <2>10, <3>1, <3>2 DEF Revises
  <2> QED  BY <2>2, <2>7, <2>11 DEF U, Bad
<1> QED  BY <1>4 DEF F

LEMMA CorrectedRevises ==
  ASSUME NEW T, Keyed(T), NEW cs, NEW C, CorrectionsOf(T, cs, C)
  PROVE  Revises(Corrected(T, cs), T, C)
<1>1. Len(cs) \in 0 .. Len(cs)
  BY DEF CorrectionsOf
<1> QED  BY <1>1, StagesRevise DEF Corrected

(* The corrections of a release, taken back in reverse, leave the runs     *)
(* that were corrected.                                                    *)
LEMMA AppliedIsUndone ==
  ASSUME NEW T, Keyed(T), NEW cs, NEW C, CorrectionsOf(T, cs, C),
         NEW release, release.runs = Corrected(T, cs), release.corrections = Applied(T, cs)
  PROVE  Undone(release) = T
<1> DEFINE n    == Len(cs)
           F    == Stages(T, cs)
           made == Reverse(Applied(T, cs))
           back == [i \in DOMAIN made |-> [run |-> made[i].run, changes |-> made[i].original]]
           G    == Stages(F[n], back)
<1>1. n \in Nat /\ DOMAIN cs = 1 .. n
  BY DEF CorrectionsOf
<1>2. \A j \in 0 .. n : F[j] = IF j = 0 THEN T ELSE Correct(F[j - 1], cs[j])
  BY <1>1, StagesDefined
<1>3. Applied(T, cs) = [i \in 1 .. n |->
                          [run |-> cs[i].run, changes |-> cs[i].changes,
                           original |-> [f \in DOMAIN cs[i].changes |->
                                           Named(F[i - 1], cs[i].run)[f]]]]
  BY <1>1 DEF Applied
<1>4. Len(Applied(T, cs)) = n
  BY <1>1, <1>3
<1>5. made = [i \in 1 .. n |-> Applied(T, cs)[(n - i) + 1]]
  BY <1>4 DEF Reverse
<1> HIDE DEF n, F, made
<1>6. back = [i \in 1 .. n |-> [run |-> made[i].run, changes |-> made[i].original]]
  BY <1>5
<1>7. Len(back) = n
  BY <1>1, <1>6
<1> HIDE DEF back
<1>8. G = [j \in 0 .. n |-> IF j = 0 THEN F[n] ELSE Correct(G[j - 1], back[j])]
  BY <1>1, <1>7, StagesDefined
<1> HIDE DEF G
<1>9. \A j \in 0 .. n : G[j] = IF j = 0 THEN F[n] ELSE Correct(G[j - 1], back[j])
  BY <1>8
<1>10. ASSUME NEW j \in 1 .. n
       PROVE  Correct(F[(n - j) + 1], back[j]) = F[n - j]
  <2> DEFINE k == (n - j) + 1
  <2>1. k \in 1 .. n /\ k - 1 = n - j /\ k \in 0 .. n /\ k - 1 \in 0 .. n /\ k # 0
    BY <1>1
  <2>2. F[k] = Correct(F[k - 1], cs[k])
    BY <1>2, <2>1
  <2>3. Revises(F[k - 1], T, C)
    BY <2>1, StagesRevise DEF F, n
  <2>4. CorrectionOf(F[k - 1], cs[k], C) /\ Keyed(F[k - 1])
    BY <1>1, <2>1, <2>3 DEF CorrectionsOf, CorrectionOf, Revises
  <2>5. made[j] = Applied(T, cs)[k]
    BY <1>5
  <2>6. /\ back[j].run = cs[k].run
        /\ back[j].changes = [f \in DOMAIN cs[k].changes |-> Named(F[k - 1], cs[k].run)[f]]
    <3> HIDE DEF k
    <3>1. back[j] = [run |-> made[j].run, changes |-> made[j].original]
      BY <1>6
    <3> QED  BY <1>3, <2>1, <2>5, <3>1
  <2> HIDE DEF k
  <2>7. Correct(Correct(F[k - 1], cs[k]), back[j]) = F[k - 1]
    BY <2>4, <2>6, CorrectUndone
  <2>8. Correct(F[k], back[j]) = F[n - j]
    BY <2>1, <2>2, <2>7
  <2> QED  BY <2>8 DEF k
<1> DEFINE Bad == {j \in 0 .. n : G[j] # F[n - j]}
<1>11. Bad = {}
  <2> SUFFICES ASSUME Bad # {} PROVE FALSE
    OBVIOUS
  <2>1. Bad \subseteq Nat
    BY <1>1
  <2>2. PICK j \in Bad : \A k \in Bad : j <= k
    BY <2>1, Least
  <2>3. j # 0
    <3>1. 0 \in 0 .. n /\ n - 0 = n
      BY <1>1
    <3> QED  BY <1>9, <3>1
  <2>4. j - 1 \in 0 .. n /\ j \in 1 .. n /\ ~ (j <= j - 1) /\ n - (j - 1) = (n - j) + 1
    BY <1>1, <2>3
  <2>5. G[j - 1] = F[(n - j) + 1]
    BY <2>2, <2>4
  <2>6. G[j] = Correct(G[j - 1], back[j])
    BY <1>9, <2>3
  <2> QED  BY <1>10, <2>2, <2>4, <2>5, <2>6
<1>12. G[n] = T
  <2>1. n \in 0 .. n /\ n - n = 0 /\ 0 \in 0 .. n
    BY <1>1
  <2>2. G[n] = F[0]
    BY <1>11, <2>1
  <2> QED  BY <1>2, <2>1, <2>2
<1>13. Undone(release) = Corrected(F[n], back)
  BY DEF Undone, Corrected, back, made, F, n
<1>14. Corrected(F[n], back) = G[n]
  BY <1>7 DEF Corrected, G
<1> QED  BY <1>12, <1>13, <1>14

-----------------------------------------------------------------------------
(* Sources: every trial of a release is one run of one source              *)

LEMMA ImageOnce ==
  ASSUME NEW S, IsFiniteSet(S), NEW f, DOMAIN f = S, f = [x \in S |-> f[x]],
         Cardinality({f[x] : x \in S}) = Cardinality(S)
  PROVE  \A x, y \in S : f[x] = f[y] => x = y
<1> DEFINE T == {f[x] : x \in S}
<1>1. f \in Surjection(S, T)
  BY DEF Surjection
<1>2. f \in Injection(S, T)
  BY <1>1, FS_Surjection
<1> QED  BY <1>2 DEF Injection, IsInjective

LEMMA ImageFinite ==
  ASSUME NEW S, IsFiniteSet(S), NEW f, f = [x \in S |-> f[x]]
  PROVE  /\ IsFiniteSet({f[x] : x \in S})
         /\ (\A x, y \in S : f[x] = f[y] => x = y)
              => Cardinality({f[x] : x \in S}) = Cardinality(S)
<1> DEFINE T == {f[x] : x \in S}
<1>1. f \in Surjection(S, T)
  BY DEF Surjection
<1>2. (\A x, y \in S : f[x] = f[y] => x = y) => f \in Injection(S, T)
  BY <1>1 DEF Surjection, Injection, IsInjective
<1> QED  BY <1>1, <1>2, FS_Surjection

(* A matrix as a source: finitely many runs, with ids and cells of their   *)
(* own, of one provider, and with every attempt of what has one.           *)
Separate(m) ==
  /\ IsFiniteSet(m.runs)
  /\ \A r \in m.runs : WellFormed(r)
  /\ \A q, r \in m.runs : q.id = r.id \/ Cell(q) = Cell(r) => q = r

HasAttempts(m) ==
  /\ \A q, r \in m.runs : q.provider = r.provider
  /\ \A r \in m.runs :
       /\ r.attempt \in 1 .. m.contract.attempts
       /\ \A a \in 1 .. m.contract.attempts :
            \E q \in m.runs : Cell(q) = [Cell(r) EXCEPT !.attempt = a]

(* Runs of a matrix, under its provider.                                   *)
PartOf(m, w) ==
  /\ m.runs \subseteq w.runs /\ IsFiniteSet(w.runs)
  /\ \A r \in m.runs : RunProvider(w, r) = ProviderId(r.provider)

AreSources(sources, matrices) ==
  /\ \E n \in Nat : DOMAIN sources = 1 .. n
  /\ \A i \in DOMAIN sources :
       /\ Separate(sources[i]) /\ HasAttempts(sources[i])
       /\ \E m \in matrices : PartOf(sources[i], m)

LEMMA ValidIsSeparate ==
  ASSUME NEW m, ValidSource(m), IsFiniteSet(m.runs), \A q, r \in m.runs : q.id = r.id => q = r
  PROVE  Separate(m)
<1> DEFINE f == [r \in m.runs |-> Cell(r)]
<1>1. {f[r] : r \in m.runs} = {Cell(r) : r \in m.runs}
  OBVIOUS
<1>2. Cardinality({f[r] : r \in m.runs}) = Cardinality(m.runs)
  BY <1>1 DEF ValidSource
<1>3. DOMAIN f = m.runs /\ f = [r \in m.runs |-> f[r]]
  OBVIOUS
<1> HIDE DEF f
<1>4. \A q, r \in m.runs : f[q] = f[r] => q = r
  BY <1>2, <1>3, ImageOnce
<1>5. \A r \in m.runs : WellFormed(r)
  BY DEF ValidSource
<1> QED  BY <1>4, <1>5 DEF f, Separate

LEMMA ValidHasAttempts ==
  ASSUME NEW m, ValidSource(m), IsFiniteSet(m.runs),
         \A q, r \in m.runs : q.provider = r.provider
  PROVE  HasAttempts(m) /\ PartOf(m, m)
<1>1. {Cell(r) : r \in m.runs} = Rectangle(m)
  BY DEF ValidSource
<1>2. ASSUME NEW r \in m.runs
      PROVE  /\ r.attempt \in 1 .. m.contract.attempts
             /\ \A a \in 1 .. m.contract.attempts :
                  \E q \in m.runs : Cell(q) = [Cell(r) EXCEPT !.attempt = a]
  <2>1. PICK s \in m.scenarios, n \in m.models, b \in 1 .. m.contract.attempts :
          Cell(r) = [scenario |-> s.id, version |-> s.version, model |-> n, attempt |-> b]
    BY <1>1 DEF Rectangle
  <2>2. r.attempt = b
    BY <2>1 DEF Cell
  <2>3. ASSUME NEW a \in 1 .. m.contract.attempts
        PROVE  \E q \in m.runs : Cell(q) = [Cell(r) EXCEPT !.attempt = a]
    <3> DEFINE c == [scenario |-> s.id, version |-> s.version, model |-> n, attempt |-> a]
    <3>1. c \in Rectangle(m)
      BY DEF Rectangle
    <3>2. c = [Cell(r) EXCEPT !.attempt = a]
      BY <2>1
    <3> HIDE DEF c
    <3> QED  BY <1>1, <3>1, <3>2
  <2> QED  BY <2>2, <2>3
<1>3. \A r \in m.runs : RunProvider(m, r) = ProviderId(r.provider)
  BY DEF ValidSource, RunProvider
<1> QED  BY <1>2, <1>3 DEF HasAttempts, PartOf

TrialOf(r, i) ==
  [id |-> r.id, scenario |-> r.scenario, version |-> r.version,
   provider |-> r.provider, model |-> r.model, attempt |-> r.attempt,
   status |-> r.status, reward |-> r.reward, category |-> r.category,
   cost |-> r.cost, src |-> i]

LEMMA TrialIs ==
  ASSUME NEW r, NEW i
  PROVE  /\ IsTrial(TrialOf(r, i)) /\ TrialOf(r, i).src = i /\ TrialOf(r, i).id = r.id
         /\ Cell(TrialOf(r, i)) = Cell(r) /\ Fact(TrialOf(r, i)) = Fact(r)
         /\ TrialOf(r, i).provider = r.provider
         /\ WellFormed(r) => WellFormed(TrialOf(r, i))
BY DEF TrialOf, IsTrial, TrialFields, Cell, Fact, WellFormed

LEMMA TrialsKeyed ==
  ASSUME NEW sources, NEW matrices, AreSources(sources, matrices)
  PROVE  /\ Keyed(Trials(sources)) /\ IsFiniteSet(Trials(sources))
         /\ \A t \in Trials(sources) : WellFormed(t)
<1> DEFINE Of(i) == {TrialOf(r, i) : r \in sources[i].runs}
<1>1. PICK n \in Nat : DOMAIN sources = 1 .. n
  BY DEF AreSources
<1>2. Trials(sources) = UNION {Of(i) : i \in 1 .. n}
  BY <1>1 DEF Trials, TrialOf
<1>3. ASSUME NEW t \in Trials(sources)
      PROVE  \E i \in 1 .. n : \E r \in sources[i].runs : t = TrialOf(r, i)
  BY <1>2
<1>4. Keyed(Trials(sources))
  <2>1. \A t \in Trials(sources) : IsTrial(t) /\ t.src \in Nat /\ t.src <= n
    <3> TAKE t \in Trials(sources)
    <3>1. PICK i \in 1 .. n : \E r \in sources[i].runs : t = TrialOf(r, i)
      BY <1>3
    <3>2. PICK r \in sources[i].runs : t = TrialOf(r, i)
      BY <3>1
    <3>3. i \in Nat /\ i <= n
      BY <1>1
    <3> QED  BY <3>2, <3>3, TrialIs
  <2>2. ASSUME NEW s \in Trials(sources), NEW t \in Trials(sources),
               s.src = t.src, s.id = t.id \/ Cell(s) = Cell(t)
        PROVE  s = t
    <3>1. PICK i \in 1 .. n : \E r \in sources[i].runs : s = TrialOf(r, i)
      BY <1>3
    <3>2. PICK q \in sources[i].runs : s = TrialOf(q, i)
      BY <3>1
    <3>3. PICK j \in 1 .. n : \E r \in sources[j].runs : t = TrialOf(r, j)
      BY <1>3
    <3>4. PICK r \in sources[j].runs : t = TrialOf(r, j)
      BY <3>3
    <3>5. i = j /\ (q.id = r.id \/ Cell(q) = Cell(r))
      BY <2>2, <3>2, <3>4, TrialIs
    <3>6. q = r
      BY <1>1, <3>5 DEF AreSources, Separate
    <3> QED  BY <3>2, <3>4, <3>5, <3>6
  <2> QED  BY <2>1, <2>2 DEF Keyed
<1>5. IsFiniteSet(Trials(sources))
  <2>1. ASSUME NEW i \in 1 .. n PROVE IsFiniteSet(Of(i))
    <3> DEFINE f == [r \in sources[i].runs |-> TrialOf(r, i)]
    <3>1. IsFiniteSet(sources[i].runs)
      BY <1>1 DEF AreSources, Separate
    <3>2. f = [r \in sources[i].runs |-> f[r]] /\ Of(i) = {f[r] : r \in sources[i].runs}
      OBVIOUS
    <3> HIDE DEF f, Of
    <3> QED  BY <3>1, <3>2, ImageFinite
  <2> DEFINE g == [i \in 1 .. n |-> Of(i)]
  <2>2. g = [i \in 1 .. n |-> g[i]] /\ {Of(i) : i \in 1 .. n} = {g[i] : i \in 1 .. n}
    OBVIOUS
  <2>3. IsFiniteSet(1 .. n)
    BY <1>1, FS_Interval
  <2> HIDE DEF g, Of
  <2>4. IsFiniteSet({g[i] : i \in 1 .. n})
    BY <2>2, <2>3, ImageFinite
  <2>5. IsFiniteSet({Of(i) : i \in 1 .. n})
    BY <2>2, <2>4
  <2> QED  BY <1>2, <2>1, <2>5, FS_UNION
<1>6. \A t \in Trials(sources) : WellFormed(t)
  <2> TAKE t \in Trials(sources)
  <2>1. PICK i \in 1 .. n : \E r \in sources[i].runs : t = TrialOf(r, i)
    BY <1>3
  <2>2. PICK r \in sources[i].runs : t = TrialOf(r, i)
    BY <2>1
  <2>3. WellFormed(r)
    BY <1>1 DEF AreSources, Separate
  <2> QED  BY <2>2, <2>3, TrialIs
<1> QED  BY <1>4, <1>5, <1>6

(* The trials of one source are runs of one matrix.                        *)
LEMMA TrialsMeasured ==
  ASSUME NEW sources, NEW matrices, AreSources(sources, matrices), NEW t \in Trials(sources)
  PROVE  \E m \in matrices :
           /\ IsFiniteSet(m.runs)
           /\ \A u \in Trials(sources) : u.src = t.src =>
                \E q \in m.runs : /\ Fact(u) = Fact(q)
                                  /\ RunProvider(m, q) = ProviderId(u.provider)
<1>1. \A u \in Trials(sources) :
        \E i \in DOMAIN sources : \E r \in sources[i].runs : u = TrialOf(r, i)
  BY DEF Trials, TrialOf
<1>2. PICK i \in DOMAIN sources : \E r \in sources[i].runs : t = TrialOf(r, i)
  BY <1>1
<1>3. t.src = i
  BY <1>2, TrialIs
<1>4. PICK m \in matrices : PartOf(sources[i], m)
  BY DEF AreSources
<1>5. ASSUME NEW u \in Trials(sources), u.src = i
      PROVE  \E q \in m.runs : Fact(u) = Fact(q) /\ RunProvider(m, q) = ProviderId(u.provider)
  <2>1. PICK j \in DOMAIN sources : \E r \in sources[j].runs : u = TrialOf(r, j)
    BY <1>1
  <2>2. PICK r \in sources[j].runs : u = TrialOf(r, j)
    BY <2>1
  <2>3. j = i
    BY <1>5, <2>2, TrialIs
  <2>4. Fact(u) = Fact(r) /\ u.provider = r.provider
    BY <2>2, TrialIs
  <2> QED  BY <1>4, <2>3, <2>4 DEF PartOf
<1> QED  BY <1>3, <1>4, <1>5 DEF PartOf

(* In a complete cohort the trials of one row are of one source: another   *)
(* one with such a trial would repeat an attempt.                          *)
LEMMA TrialsOfOneSource ==
  ASSUME NEW sources, NEW matrices, AreSources(sources, matrices), Compatible(sources),
         NEW t \in Trials(sources), NEW u \in Trials(sources), LaneCell(t) = LaneCell(u)
  PROVE  t.src = u.src
<1>1. \A v \in Trials(sources) :
        \E i \in DOMAIN sources : \E r \in sources[i].runs : v = TrialOf(r, i)
  BY DEF Trials, TrialOf
<1>2. PICK i \in DOMAIN sources : \E r \in sources[i].runs : t = TrialOf(r, i)
  BY <1>1
<1>3. PICK q \in sources[i].runs : t = TrialOf(q, i)
  BY <1>2
<1>4. PICK j \in DOMAIN sources : \E r \in sources[j].runs : u = TrialOf(r, j)
  BY <1>1
<1>5. PICK r \in sources[j].runs : u = TrialOf(r, j)
  BY <1>4
<1>6. /\ q.scenario = r.scenario /\ q.version = r.version /\ q.model = r.model
      /\ q.provider = r.provider
  BY <1>3, <1>5 DEF LaneCell, TrialOf
<1>7. q.attempt \in 1 .. sources[j].contract.attempts
  <2>1. sources[i].contract = sources[j].contract
    BY DEF Compatible, SameContract
  <2> QED  BY <2>1 DEF AreSources, HasAttempts
<1>8. PICK x \in sources[j].runs : Cell(x) = [Cell(r) EXCEPT !.attempt = q.attempt]
  BY <1>7 DEF AreSources, HasAttempts
<1>9. x.provider = r.provider
  BY DEF AreSources, HasAttempts
<1> DEFINE v == TrialOf(x, j)
<1>10. v \in Trials(sources)
  <2>1. Trials(sources) = UNION {{TrialOf(y, k) : y \in sources[k].runs} : k \in DOMAIN sources}
    BY DEF Trials, TrialOf
  <2>2. v \in {TrialOf(y, j) : y \in sources[j].runs}
    OBVIOUS
  <2> HIDE DEF v
  <2> QED  BY <2>1, <2>2
<1>11. Identity(v) = Identity(t)
  <2>1. /\ x.scenario = q.scenario /\ x.version = q.version /\ x.model = q.model
        /\ x.attempt = q.attempt /\ x.provider = q.provider
    BY <1>6, <1>8, <1>9 DEF Cell
  <2> QED  BY <1>3, <2>1 DEF Identity, TrialOf
<1>12. v = t
  <2> DEFINE T == Trials(sources)
             f == [y \in T |-> Identity(y)]
  <2>1. IsFiniteSet(T)
    BY TrialsKeyed
  <2>2. {f[y] : y \in T} = {Identity(y) : y \in T}
    OBVIOUS
  <2>3. Cardinality({f[y] : y \in T}) = Cardinality(T)
    BY <2>2 DEF Compatible, CompleteCohort
  <2>4. DOMAIN f = T /\ f = [y \in T |-> f[y]]
    OBVIOUS
  <2>5. f[v] = f[t]
    BY <1>10, <1>11
  <2> HIDE DEF f, v
  <2> QED  BY <1>10, <2>1, <2>3, <2>4, <2>5, ImageOnce
<1> QED  BY <1>3, <1>5, <1>12, TrialIs

(* A release is made of its sources, up to corrections that keep what they *)
(* replaced.                                                               *)
LEMMA MadeFaithful ==
  ASSUME NEW version, NEW sources, NEW matrices, AreSources(sources, matrices),
         NEW notes \in Annotations, CanRelease(sources, notes),
         NEW release,
         \/ release = Release(version, sources, notes)
         \/ \E e : /\ Trials(e.sources) = Trials(sources)
                   /\ release = [Release(version, sources, notes) EXCEPT !.submission = e]
  PROVE  Faithful(release, matrices)
<1> DEFINE T  == Trials(sources)
           cs == notes.corrections
           C  == IF ProvidersKept(release) THEN {"category"} ELSE Correctable
<1>1. cs \in Seq(Range(cs))
  BY AnnotationsAssumption
<1>2. CorrectionsAllowed(T, cs)
  BY DEF CanRelease
<1>3. /\ Keyed(T) /\ IsFiniteSet(T) /\ \A t \in T : WellFormed(t)
  BY TrialsKeyed
<1>4. /\ release.runs = Corrected(T, cs)
      /\ release.corrections = Applied(T, cs)
      /\ {"runs", "corrections", "submission", "totals"} \subseteq DOMAIN release
      /\ release.totals = Aggregate(Corrected(T, cs))
  BY DEF Release
<1>5. release.submission # None => T = Trials(release.submission.sources)
  BY DEF Release
<1>a. C \subseteq Correctable
  BY DEF Correctable
<1>b. CorrectionsOf(T, cs, C)
  <2>1. \A i \in DOMAIN cs : /\ i \in DOMAIN release.corrections
                             /\ release.corrections[i].changes = cs[i].changes
    BY <1>4 DEF Applied
  <2>2. \A i \in DOMAIN cs : /\ \E r \in T : r.id = cs[i].run
                             /\ DOMAIN cs[i].changes \subseteq Correctable
    BY <1>2 DEF CorrectionsAllowed
  <2> HIDE DEF T, cs
  <2>3. \A i \in DOMAIN cs : DOMAIN cs[i].changes \subseteq C
    BY <2>1, <2>2 DEF ProvidersKept, Correctable
  <2> HIDE DEF C
  <2> QED  BY <1>1, <1>a, <2>2, <2>3 DEF CorrectionsOf, CorrectionOf
<1>c. ProvidersKept(release) => "provider" \notin C
  OBVIOUS
<1> HIDE DEF T, cs, C
<1>6. Revises(release.runs, T, C)
  BY <1>3, <1>4, <1>b, CorrectedRevises
<1>d. ASSUME NEW r \in release.runs
      PROVE  \E t \in T : /\ Same(r, t, C)
                          /\ r.src = t.src /\ Fact(r) = Fact(t)
                          /\ ProvidersKept(release) =>
                               r.provider = t.provider /\ LaneCell(r) = LaneCell(t)
  <2>1. PICK t \in T : Same(r, t, C)
    BY <1>6 DEF Revises
  <2> QED  BY <1>a, <1>c, <2>1, SameIs
<1>7. OfSources(release, matrices)
  <2>1. ASSUME NEW r \in release.runs
        PROVE  \E m \in matrices :
                 /\ IsFiniteSet(m.runs)
                 /\ \A q \in release.runs : q.src = r.src => Recorded(release, m, q)
    <3>1. PICK t \in T : r.src = t.src
      BY <1>d
    <3>2. PICK m \in matrices :
            /\ IsFiniteSet(m.runs)
            /\ \A u \in T : u.src = t.src =>
                 \E q \in m.runs : /\ Fact(u) = Fact(q)
                                   /\ RunProvider(m, q) = ProviderId(u.provider)
      BY TrialsMeasured DEF T
    <3>3. ASSUME NEW q \in release.runs, q.src = r.src
          PROVE  Recorded(release, m, q)
      <4>1. PICK u \in T : /\ q.src = u.src /\ Fact(q) = Fact(u)
                           /\ ProvidersKept(release) => q.provider = u.provider
        BY <1>d
      <4>2. PICK x \in m.runs : Fact(u) = Fact(x) /\ RunProvider(m, x) = ProviderId(u.provider)
        BY <3>1, <3>2, <3>3, <4>1
      <4> QED  BY <4>1, <4>2 DEF Recorded
    <3> QED  BY <3>2, <3>3
  <2>2. ASSUME ProvidersKept(release), NEW q \in release.runs, NEW r \in release.runs,
               LaneCell(q) = LaneCell(r)
        PROVE  q.src = r.src
    <3>1. PICK t \in T : q.src = t.src /\ LaneCell(q) = LaneCell(t)
      BY <1>d, <2>2
    <3>2. PICK u \in T : r.src = u.src /\ LaneCell(r) = LaneCell(u)
      BY <1>d, <2>2
    <3>3. LaneCell(t) = LaneCell(u) /\ Compatible(sources)
      BY <2>2, <3>1, <3>2 DEF CanRelease
    <3>4. t.src = u.src
      BY <3>3, TrialsOfOneSource DEF T
    <3> QED  BY <3>1, <3>2, <3>4
  <2> QED  BY <2>1, <2>2 DEF OfSources
<1>8. Undone(release) = T
  BY <1>3, <1>4, <1>b, AppliedIsUndone
<1>9. \A r \in release.runs : {"status", "reward"} \subseteq DOMAIN r /\ WellFormed(r)
  <2> TAKE r \in release.runs
  <2>1. PICK t \in T : Fact(r) = Fact(t)
    BY <1>d
  <2>2. DOMAIN r = TrialFields
    BY <1>6 DEF Revises, Keyed, IsTrial
  <2>3. r.status = t.status /\ r.reward = t.reward
    BY <2>1 DEF Fact
  <2> QED  BY <1>3, <2>2, <2>3 DEF WellFormed, TrialFields
<1>10. {"trials", "passed"} \subseteq DOMAIN release.totals
  <2>1. \A R : {"trials", "passed"} \subseteq DOMAIN Aggregate(R)
    BY DEF Aggregate
  <2> QED  BY <1>4, <2>1
<1> QED
  BY <1>3, <1>4, <1>5, <1>6, <1>7, <1>8, <1>9, <1>10 DEF Faithful, Revises, Keyed, IsReviewed

-----------------------------------------------------------------------------
(* Submissions and release files: what is genuine                          *)

(* A matrix that was measured as one of those that may be; evidence of     *)
(* such matrices; and a bundle whose digest is of such evidence, whatever  *)
(* has become of the evidence beside it.                                   *)
Genuine(m) == m \in measured /\ \E p \in DOMAIN Measurements : m \in Measurements[p]

EvidenceGenuine(e) ==
  /\ \E n \in Nat : DOMAIN e.sources = 1 .. n
  /\ \A i \in DOMAIN e.sources : Genuine(e.sources[i])

BundleGenuine(b) ==
  /\ b = [id |-> b.id, evidence |-> b.evidence]
  /\ EvidenceGenuine(b.id)

(* Every bundle names genuine evidence, from the contributor's file to the *)
(* merged one.                                                             *)
SubmissionInv ==
  /\ \A p \in DOMAIN summary : /\ p \in DOMAIN Measurements
                               /\ summary[p] # None => Genuine(summary[p])
  /\ local = [phase |-> local.phase, name |-> local.name, file |-> local.file]
  /\ bundle # None => BundleGenuine(bundle)
  /\ local.phase \in {"checked", "branched"} => BundleGenuine(bundle)
  /\ local.phase = "copied" => BundleGenuine(local.file)
  /\ \A p \in pulls : BundleGenuine(p.file)
  /\ \A n \in DOMAIN merged : BundleGenuine(merged[n])

(* Every release that is stored, deployed or being stored is faithful or   *)
(* fails the check, and pages are written only of a checkout that was      *)
(* accepted.                                                               *)
FaithfulFile(f) == IsObject(f) /\ ValidRelease(f) => Faithful(f, measured)

FilesInv ==
  /\ \A v \in Versions : FaithfulFile(files[v]) /\ FaithfulFile(deployed.files[v])
  /\ op.step = "store" => FaithfulFile(op.release)
  /\ op.step = "pages" => BuildAccepts(index, files)

EvidenceInv == DeployedInv /\ SubmissionInv /\ FilesInv

(* Someone edits a tracked release, a run or a number, that an edit before *)
(* has left in a state that the check refuses, and does not restore it.    *)
EditedUnchecked ==
  /\ \E v \in Versions : EditsFile(v) /\ ~ ValidRelease(files[v])
  /\ ~ Restores

LEMMA GenuineSeparate ==
  ASSUME NEW m, Genuine(m), ValidSource(m)
  PROVE  Separate(m) /\ HasAttempts(m) /\ PartOf(m, m) /\ "runs" \in DOMAIN m
<1>1. /\ "runs" \in DOMAIN m /\ IsFiniteSet(m.runs)
      /\ \A q, r \in m.runs : q.id = r.id => q = r
      /\ \A q, r \in m.runs : q.provider = r.provider
  BY MeasurementsAssumption DEF Genuine
<1> QED  BY <1>1, ValidIsSeparate, ValidHasAttempts

(* The summaries of a command line are sources, and those of a bundle that *)
(* is valid are those of its digest.                                       *)
LEMMA AtIsGenuine ==
  ASSUME SubmissionInv, NEW ps \in CommandLines, There(ps)
  PROVE  /\ \E n \in Nat : ps \in Seq(DOMAIN summary) /\ DOMAIN At(ps) = 1 .. n
         /\ \A i \in DOMAIN At(ps) : Genuine(At(ps)[i])
<1>1. PICK S \in SUBSET DOMAIN summary : ps = Kept(Paths, S)
  BY DEF CommandLines
<1>2. ps \in Seq(DOMAIN Measurements \cap S)
  BY <1>1, MeasurementsAssumption, KeptMembers
<1>3. ps \in Seq(DOMAIN summary)
  BY <1>2
<1>4. Len(ps) \in Nat /\ DOMAIN ps = 1 .. Len(ps) /\ \A i \in DOMAIN ps : ps[i] \in DOMAIN summary
  BY <1>3
<1>5. DOMAIN At(ps) = 1 .. Len(ps) /\ \A i \in DOMAIN ps : At(ps)[i] = summary[ps[i]]
  BY <1>4 DEF At
<1>6. \A i \in DOMAIN ps : Genuine(summary[ps[i]])
  BY <1>4 DEF There, SubmissionInv
<1> QED  BY <1>3, <1>4, <1>5, <1>6

LEMMA SelectedAreSources ==
  ASSUME NEW sources, NEW n \in Nat, DOMAIN sources = 1 .. n,
         \A i \in DOMAIN sources : Genuine(sources[i]) /\ ValidSource(sources[i]),
         NEW wanted
  PROVE  AreSources(Selected(sources, wanted), measured)
<1> DEFINE cut == [i \in DOMAIN sources |-> OnlyModels(sources[i], wanted)]
           some == {m \in Range(cut) : m.runs # {}}
           chosen == Kept(cut, some)
<1>1. cut \in Seq(Range(cut))
  BY DEF Range
<1>2. chosen \in Seq(Range(cut) \cap some)
  BY <1>1, KeptMembers
<1>3. Selected(sources, wanted) = chosen
  BY DEF Selected
<1>4. ASSUME NEW m \in Range(cut)
      PROVE  Separate(m) /\ HasAttempts(m) /\ \E w \in measured : PartOf(m, w)
  <2>1. PICK i \in DOMAIN sources : m = OnlyModels(sources[i], wanted)
    BY DEF Range
  <2> DEFINE w == sources[i]
  <2>2. Genuine(w) /\ Separate(w) /\ HasAttempts(w) /\ PartOf(w, w) /\ "runs" \in DOMAIN w
    BY GenuineSeparate
  <2> HIDE DEF w
  <2>3. m = [w EXCEPT !.models = @ \cap wanted, !.runs = {r \in @ : r.model \in wanted}]
    BY <2>1 DEF OnlyModels, w
  <2>4. m.runs = {r \in w.runs : r.model \in wanted}
    BY <2>2, <2>3
  <2>5. m.runs \in SUBSET w.runs
    BY <2>4
  <2>6. Separate(m)
    BY <2>2, <2>5, FS_Subset DEF Separate
  <2>7. HasAttempts(m)
    <3>1. m.contract = w.contract
      BY <2>3
    <3>2. ASSUME NEW r \in m.runs, NEW a \in 1 .. w.contract.attempts
          PROVE  \E q \in m.runs : Cell(q) = [Cell(r) EXCEPT !.attempt = a]
      <4>1. PICK q \in w.runs : Cell(q) = [Cell(r) EXCEPT !.attempt = a]
        BY <2>2, <2>5 DEF HasAttempts
      <4>2. q.model = r.model
        BY <4>1 DEF Cell
      <4> QED  BY <2>4, <4>1, <4>2
    <3> QED  BY <2>2, <2>5, <3>1, <3>2 DEF HasAttempts
  <2>8. PartOf(m, w)
    BY <2>2, <2>5 DEF PartOf
  <2> QED  BY <2>2, <2>6, <2>7, <2>8 DEF Genuine
<1> HIDE DEF cut, some, chosen
<1>5. Len(chosen) \in Nat /\ DOMAIN chosen = 1 .. Len(chosen)
      /\ \A i \in DOMAIN chosen : chosen[i] \in Range(cut)
  BY <1>2
<1> QED  BY <1>3, <1>4, <1>5 DEF AreSources

LEMMA EvidenceIsSources ==
  ASSUME NEW b, BundleGenuine(b), ValidBundle(b)
  PROVE  AreSources(b.evidence.sources, measured) /\ b.id = b.evidence
<1>1. b.id = b.evidence /\ \A i \in DOMAIN b.evidence.sources : ValidSource(b.evidence.sources[i])
  BY DEF ValidBundle, Digest
<1>2. EvidenceGenuine(b.evidence)
  BY <1>1 DEF BundleGenuine
<1> DEFINE sources == b.evidence.sources
<1>3. /\ \E n \in Nat : DOMAIN sources = 1 .. n
      /\ \A i \in DOMAIN sources : Genuine(sources[i]) /\ ValidSource(sources[i])
  BY <1>1, <1>2 DEF EvidenceGenuine
<1> HIDE DEF sources
<1>4. \A i \in DOMAIN sources :
        /\ Separate(sources[i]) /\ HasAttempts(sources[i])
        /\ \E m \in measured : PartOf(sources[i], m)
  BY <1>3, GenuineSeparate DEF Genuine
<1>5. AreSources(sources, measured)
  BY <1>3, <1>4 DEF AreSources
<1> QED  BY <1>1, <1>5 DEF sources

(* What is begun to be stored is faithful.                                 *)
LEMMA ImportingFaithful ==
  ASSUME SubmissionInv, NEW version, NEW ps \in CommandLines, There(ps), NEW wanted,
         NEW notes \in Annotations, Importing(version, At(ps), wanted, notes)
  PROVE  \E release : Stores(release) /\ Faithful(release, measured)
<1> DEFINE chosen == Selected(At(ps), wanted)
<1>1. /\ \A i \in DOMAIN At(ps) : ValidSource(At(ps)[i])
      /\ CanRelease(chosen, notes)
      /\ Stores(Release(version, chosen, notes))
  BY DEF Importing
<1>2. PICK n \in Nat : DOMAIN At(ps) = 1 .. n
  BY AtIsGenuine
<1>3. \A i \in DOMAIN At(ps) : Genuine(At(ps)[i])
  BY AtIsGenuine
<1>4. AreSources(chosen, measured)
  BY <1>1, <1>2, <1>3, SelectedAreSources
<1> HIDE DEF chosen
<1>5. Faithful(Release(version, chosen, notes), measured)
  BY <1>1, <1>4, MadeFaithful
<1> QED  BY <1>1, <1>5

LEMMA AcceptingFaithful ==
  ASSUME SubmissionInv, NEW version, NEW n \in DOMAIN merged, NEW notes \in Annotations,
         Accepts(version, n, notes)
  PROVE  \E release : Stores(release) /\ Faithful(release, measured)
<1> DEFINE b       == merged[n]
           sources == b.evidence.sources
           release == [Release(version, sources, notes) EXCEPT !.submission = b.id]
<1>1. ValidBundle(b) /\ CanRelease(sources, notes) /\ Stores(release)
  BY DEF Accepts
<1>2. BundleGenuine(b)
  BY DEF SubmissionInv
<1>3. AreSources(sources, measured) /\ b.id = b.evidence
  BY <1>1, <1>2, EvidenceIsSources
<1>4. Trials(b.id.sources) = Trials(sources)
  BY <1>3
<1>5. \E e : /\ Trials(e.sources) = Trials(sources)
             /\ release = [Release(version, sources, notes) EXCEPT !.submission = e]
  BY <1>4
<1> HIDE DEF release, sources
<1>6. Faithful(release, measured)
  BY <1>1, <1>3, <1>5, MadeFaithful
<1> QED  BY <1>1, <1>6

-----------------------------------------------------------------------------
(* One edit is refused                                                     *)

(* A release whose totals state its runs and passes does not survive the   *)
(* edit of one run: it takes a second edit that makes up for the first.    *)
THEOREM FlipIsRefused ==
  ASSUME NEW release, "runs" \in DOMAIN release, IsFiniteSet(release.runs),
         ValidRelease(release), {"trials", "passed"} \subseteq DOMAIN release.totals,
         NEW r \in release.runs, {"status", "reward"} \subseteq DOMAIN r,
         Evaluated(r), r.reward \in {0, 1}
  PROVE  ~ ValidRelease(Flipped(release, r))
<1> DEFINE f       == [r EXCEPT !.reward = 1 - @]
           R       == release.runs
           S       == (R \ {r}) \cup {f}
           In(T)   == {q \in T : Passed(q)}
           edited  == Flipped(release, r)
<1>1. edited.runs = S /\ edited.totals = release.totals
  BY DEF Flipped
<1>2. f.status = "evaluated" /\ f.reward = 1 - r.reward /\ f # r
  BY DEF Evaluated
<1>3. ASSUME NEW T, NEW totals, {"trials", "passed"} \subseteq DOMAIN totals,
             Agrees(totals, Aggregate(T))
      PROVE  totals["trials"] = Cardinality(T) /\ totals["passed"] = Cardinality(In(T))
  <2>1. /\ {"trials", "passed"} \subseteq DOMAIN Aggregate(T)
        /\ Aggregate(T)["trials"] = Cardinality(T)
        /\ Aggregate(T)["passed"] = Cardinality(In(T))
    BY DEF Aggregate, Counted
  <2> QED  BY <1>3, <2>1 DEF Agrees
<1>4. Agrees(release.totals, Aggregate(R))
  BY DEF ValidRelease
<1> HIDE DEF f, In, edited
<1>5. SUFFICES ASSUME Agrees(release.totals, Aggregate(S)) PROVE FALSE
  BY <1>1 DEF ValidRelease, edited
<1>6. Cardinality(S) = Cardinality(R) /\ Cardinality(In(S)) = Cardinality(In(R))
  BY <1>3, <1>4, <1>5
<1>7. IsFiniteSet(R \ {r}) /\ Cardinality(R \ {r}) = Cardinality(R) - 1 /\ Cardinality(R) \in Nat
  BY FS_RemoveElement, FS_CardinalityType
<1>8. f \notin R \ {r}
  <2>1. Cardinality(S) = IF f \in R \ {r} THEN Cardinality(R \ {r}) ELSE Cardinality(R \ {r}) + 1
    BY <1>7, FS_AddElement
  <2> QED  BY <1>6, <1>7, <2>1
<1> DEFINE P == In(R \ {r})
<1>9. IsFiniteSet(P) /\ Cardinality(P) \in Nat
  <2>1. P \in SUBSET (R \ {r})
    BY DEF In
  <2> HIDE DEF P
  <2> QED  BY <1>7, <2>1, FS_Subset, FS_CardinalityType
<1>10. r \notin P /\ f \notin P
  BY <1>8 DEF In
<1>11. CASE r.reward = 0
  <2>1. In(R) = P /\ In(S) = P \cup {f}
    BY <1>2, <1>11 DEF In, Passed, Evaluated
  <2> HIDE DEF P
  <2>2. Cardinality(In(S)) = Cardinality(P) + 1
    BY <1>9, <1>10, <2>1, FS_AddElement
  <2> QED  BY <1>6, <1>9, <2>1, <2>2
<1>12. CASE r.reward = 1
  <2>1. In(R) = P \cup {r} /\ In(S) = P
    BY <1>2, <1>12 DEF In, Passed, Evaluated
  <2> HIDE DEF P
  <2>2. Cardinality(In(R)) = Cardinality(P) + 1
    BY <1>9, <1>10, <2>1, FS_AddElement
  <2> QED  BY <1>6, <1>9, <2>1, <2>2
<1> QED  BY <1>11, <1>12

-----------------------------------------------------------------------------
(* The steps keep what is genuine; accepted releases were reviewed         *)

LEMMA MeasuredGrows == [Next]_vars => measured \subseteq measured'
BY DEF Next, vars, MatrixWrites, Catalogs, ReleaseImported, ReleaseAccepted, Publishes,
       BundleMade, Submits

LEMMA GenuineStays ==
  ASSUME measured \subseteq measured'
  PROVE  /\ \A m : Genuine(m) => Genuine(m)'
         /\ \A b : BundleGenuine(b) => BundleGenuine(b)'
<1>1. \A m : Genuine(m) => Genuine(m)'
  BY DEF Genuine
<1> QED  BY <1>1 DEF BundleGenuine, EvidenceGenuine

LEMMA SubmissionStarts == Init => SubmissionInv
BY MeasurementsAssumption DEF Init, SubmissionInit, SubmissionInv, OnBase

LEMMA SubmissionSteps == SubmissionInv /\ [Next]_vars => SubmissionInv'
<1> SUFFICES ASSUME SubmissionInv, [Next]_vars PROVE SubmissionInv'
  OBVIOUS
<1>0. /\ \A m : Genuine(m) => Genuine(m)'
      /\ \A b : BundleGenuine(b) => BundleGenuine(b)'
  BY MeasuredGrows, GenuineStays
<1>1. ASSUME NEW p \in DOMAIN summary, MatrixWrites(p)
      PROVE  SubmissionInv'
  <2>1. PICK m \in Measurements[p] :
          /\ summary' = [summary EXCEPT ![p] = m]
          /\ measured' = measured \cup {m}
          /\ UNCHANGED submissionVars
    BY <1>1 DEF MatrixWrites
  <2>2. Genuine(m)'
    BY <2>1 DEF Genuine, SubmissionInv
  <2> QED  BY <1>0, <2>1, <2>2 DEF SubmissionInv, submissionVars
<1>2. CASE UNCHANGED <<submissionVars, summary>>
  BY <1>0, <1>2 DEF SubmissionInv, submissionVars
<1>3. ASSUME NEW ps \in CommandLines, There(ps), Bundles(At(ps)), UNCHANGED summary
      PROVE  SubmissionInv'
  <2> DEFINE e == Evidence(At(ps))
  <2>1. bundle' = [id |-> e, evidence |-> e] /\ UNCHANGED <<local, branches, pulls, merged>>
    BY <1>3 DEF Bundles, Digest
  <2>2. EvidenceGenuine(e)
    BY <1>3, AtIsGenuine DEF Evidence, EvidenceGenuine
  <2> HIDE DEF e
  <2>3. BundleGenuine(bundle')
    BY <2>1, <2>2 DEF BundleGenuine
  <2> QED  BY <1>0, <1>3, <2>1, <2>3 DEF SubmissionInv
<1>4. CASE UNCHANGED summary /\ (SubmitBegins \/ SubmitBranches \/ SubmitCopies \/ SubmitOpens
                                  \/ SubmitFails \/ GoesBack)
  <2>1. CASE SubmitBegins
    BY <1>0, <1>4, <2>1 DEF SubmitBegins, SubmissionInv
  <2>2. CASE SubmitBranches
    <3>1. local' = [phase |-> "branched", name |-> local.name, file |-> local.file]
      BY <2>2 DEF SubmitBranches, SubmissionInv
    <3> QED  BY <1>0, <1>4, <2>2, <3>1 DEF SubmitBranches, SubmissionInv
  <2>3. CASE SubmitCopies
    <3>1. local' = [phase |-> "copied", name |-> local.name, file |-> bundle]
      BY <2>3 DEF SubmitCopies, SubmissionInv
    <3> QED  BY <1>0, <1>4, <2>3, <3>1 DEF SubmitCopies, SubmissionInv
  <2>4. CASE SubmitOpens
    <3>1. local' = [phase |-> "left", name |-> local.name, file |-> local.file]
      BY <2>4 DEF SubmitOpens, SubmissionInv
    <3>2. \A p \in pulls' : BundleGenuine(p.file)
      BY <2>4 DEF SubmitOpens, SubmissionInv
    <3> QED  BY <1>0, <1>4, <2>4, <3>1, <3>2 DEF SubmitOpens, SubmissionInv
  <2>5. CASE SubmitFails
    <3>1. local' \in {OnBase, [phase |-> "left", name |-> local.name, file |-> local.file]}
      BY <2>5 DEF SubmitFails, SubmissionInv
    <3>2. local' = [phase |-> local'.phase, name |-> local'.name, file |-> local'.file]
          /\ local'.phase \notin {"checked", "branched", "copied"}
      BY <3>1 DEF OnBase
    <3> QED  BY <1>0, <1>4, <2>5, <3>2 DEF SubmitFails, SubmissionInv
  <2>6. CASE GoesBack
    BY <1>0, <1>4, <2>6 DEF GoesBack, SubmissionInv, OnBase
  <2> QED  BY <1>4, <2>1, <2>2, <2>3, <2>4, <2>5, <2>6
<1>5. ASSUME NEW p \in pulls, Merges(p), UNCHANGED summary
      PROVE  SubmissionInv'
  <2>1. /\ merged' = WithPull(p) /\ pulls' \subseteq pulls
        /\ UNCHANGED <<bundle, local>>
    BY <1>5 DEF Merges
  <2>2. \A n \in DOMAIN merged' : BundleGenuine(merged'[n])
    BY <2>1 DEF WithPull, SubmissionInv
  <2> QED  BY <1>0, <1>5, <2>1, <2>2 DEF SubmissionInv
<1>6. ASSUME NEW n \in DOMAIN merged, EditsSubmission(n), UNCHANGED summary
      PROVE  SubmissionInv'
  <2>1. PICK x : merged' = [merged EXCEPT ![n] = [@ EXCEPT !.evidence = x]]
    BY <1>6 DEF EditsSubmission, Doctored
  <2>2. merged[n] = [id |-> merged[n].id, evidence |-> merged[n].evidence]
        /\ EvidenceGenuine(merged[n].id)
    BY DEF SubmissionInv, BundleGenuine
  <2>3. merged'[n] = [id |-> merged[n].id, evidence |-> x]
    BY <2>1, <2>2
  <2>4. BundleGenuine(merged'[n])
    BY <2>2, <2>3 DEF BundleGenuine
  <2>5. \A k \in DOMAIN merged' : BundleGenuine(merged'[k])
    BY <2>1, <2>4 DEF SubmissionInv
  <2>6. UNCHANGED <<bundle, local, pulls>>
    BY <1>6 DEF EditsSubmission
  <2> QED  BY <1>0, <1>6, <2>5, <2>6 DEF SubmissionInv
<1>7. UNCHANGED summary \/ \E p \in DOMAIN summary : MatrixWrites(p)
  BY DEF Next, vars, Catalogs, Local!ImportBegins, Local!CatalogStep, Local!SummaryRead,
         Local!SummarySkipped, Local!SummaryCommits, Local!ImportStops, ReleaseImported,
         ReleaseAccepted, Publishes, BundleMade, Submits
<1> QED
  BY <1>1, <1>2, <1>3, <1>4, <1>5, <1>6, <1>7
  DEF Next, vars, Catalogs, ReleaseImported, ReleaseAccepted, Publishes, BundleMade, Submits,
      SubmitStep

LEMMA FaithfulGrows ==
  ASSUME NEW release, NEW M, NEW N, M \subseteq N, Faithful(release, M)
  PROVE  Faithful(release, N)
BY DEF Faithful, OfSources

LEMMA FaithfulMeasured ==
  ASSUME NEW release, NEW M, Faithful(release, M), NEW r \in release.runs
  PROVE  \E m \in M : \E q \in m.runs : Fact(r) = Fact(q)
<1>1. PICK m \in M : \A q \in release.runs : q.src = r.src => Recorded(release, m, q)
  BY DEF Faithful, OfSources
<1> QED  BY <1>1 DEF Recorded

LEMMA NumbersKeepFaith ==
  ASSUME NEW release, NEW edited, NEW M, Faithful(release, M),
         \/ \E x : edited = [release EXCEPT !.byScenario = x]
         \/ \E x : /\ DOMAIN x = DOMAIN release.totals
                   /\ edited = [release EXCEPT !.totals = x]
  PROVE  Faithful(edited, M)
<1>1. /\ DOMAIN edited = DOMAIN release
      /\ DOMAIN edited.totals = DOMAIN release.totals
      /\ edited.runs = release.runs
      /\ edited.corrections = release.corrections
      /\ edited.submission = release.submission
  BY DEF Faithful
<1>2. IsReviewed(edited)
  BY <1>1 DEF Faithful, IsReviewed, Undone
<1>3. OfSources(edited, M)
  BY <1>1 DEF Faithful, OfSources, Recorded, ProvidersKept
<1> QED  BY <1>1, <1>2, <1>3 DEF Faithful

LEMMA EditsKeepRuns ==
  ASSUME NEW v, EditsNumber(v)
  PROVE  \E e : /\ files' = [files EXCEPT ![v] = e]
                /\ \/ \E x : e = [files[v] EXCEPT !.byScenario = x]
                   \/ \E x : /\ DOMAIN x = DOMAIN files[v].totals
                             /\ e = [files[v] EXCEPT !.totals = x]
<1>1. CASE \E k \in DOMAIN files[v].byScenario :
             files' = [files EXCEPT ![v].byScenario[k].passed = @ + 1]
  <2>1. PICK k : files' = [files EXCEPT ![v].byScenario[k].passed = @ + 1]
    BY <1>1
  <2> DEFINE x == [files[v].byScenario EXCEPT ![k].passed = @ + 1]
             e == [files[v] EXCEPT !.byScenario = x]
  <2>2. files' = [files EXCEPT ![v] = e]
    BY <2>1
  <2> HIDE DEF x
  <2> QED  BY <2>2
<1>2. CASE files' = [files EXCEPT ![v].totals.passed = @ + 1]
  <2> DEFINE x == [files[v].totals EXCEPT !.passed = @ + 1]
             e == [files[v] EXCEPT !.totals = x]
  <2>1. files' = [files EXCEPT ![v] = e] /\ DOMAIN x = DOMAIN files[v].totals
    BY <1>2
  <2> HIDE DEF x
  <2> QED  BY <2>1
<1> QED  BY <1>1, <1>2 DEF EditsNumber

LEMMA FilesStart == Init => FilesInv
BY OriginFaithful
DEF Init, PublicationInit, FilesInv, FaithfulFile, Idle, Checkout

LEMMA FilesSteps == EvidenceInv /\ [Next]_vars /\ [~ EditedUnchecked]_vars => FilesInv'
<1> SUFFICES ASSUME EvidenceInv, [Next]_vars, [~ EditedUnchecked]_vars PROVE FilesInv'
  OBVIOUS
<1>0. /\ \A f : FaithfulFile(f) => FaithfulFile(f)'
      /\ \A f : Faithful(f, measured) => FaithfulFile(f)'
  BY MeasuredGrows, FaithfulGrows DEF FaithfulFile
<1>a. StoreInv
  BY DEF EvidenceInv, DeployedInv, CoverageInv
<1>b. SubmissionInv
  BY DEF EvidenceInv
<1>c. FilesInv
  BY DEF EvidenceInv
<1>1. ASSUME NEW release, Stores(release), Faithful(release, measured)
      PROVE  FilesInv'
  <2>1. op'.step = "store" /\ op'.release = release /\ UNCHANGED <<index, files, deployed>>
    BY <1>1 DEF Stores
  <2> QED  BY <1>0, <1>1, <1>c, <2>1 DEF FilesInv
<1>2. CASE ReleaseImported
  BY <1>1, <1>2, <1>b, ImportingFaithful DEF ReleaseImported
<1>3. CASE ReleaseAccepted
  BY <1>1, <1>3, <1>b, AcceptingFaithful DEF ReleaseAccepted
<1>4. CASE UNCHANGED publicationVars
  BY <1>0, <1>4, <1>c DEF FilesInv, publicationVars, BuildAccepts
<1>5. ASSUME op.step = "store" PROVE Storing(op)
  BY <1>5, <1>a DEF StoreInv, Idle, Paging
<1>6. ASSUME op.step = "pages" PROVE Paging(op) /\ Head(op.todo) \notin {"file", "index"}
  <2>1. Paging(op)
    BY <1>6, <1>a DEF StoreInv, Idle, Storing
  <2>2. Head(op.todo) \in PageNames
    BY <2>1 DEF Paging
  <2> QED  BY <2>1, <2>2, PagesAreNoFiles
<1>7. CASE WritesFile
  <2>1. op.step = "store" /\ Storing(op) /\ op.todo = <<"file", "index">>
    BY <1>5, <1>6, <1>7 DEF WritesFile, Writing, Storing
  <2>2. /\ files' = [files EXCEPT ![op.release.version] = op.release]
        /\ UNCHANGED <<index, deployed>>
    BY <1>7 DEF WritesFile
  <2>3. op'.step = "store" /\ op'.release = op.release
    <3>1. op' = [op EXCEPT !.todo = <<"index">>]
      BY <1>7, <2>1 DEF WritesFile, Stored
    <3> QED  BY <2>1, <3>1 DEF Storing
  <2>4. FaithfulFile(op.release)
    BY <1>c, <2>1 DEF FilesInv
  <2>5. \A v \in Versions : files'[v] = IF v = op.release.version THEN op.release ELSE files[v]
    BY <1>a, <2>2 DEF StoreInv, CheckoutInv
  <2> QED  BY <1>0, <1>c, <2>2, <2>3, <2>4, <2>5 DEF FilesInv
<1>8. CASE WritesIndex
  <2>1. op.step = "store" /\ Storing(op) /\ op.todo = <<"index">>
    BY <1>5, <1>6, <1>8 DEF WritesIndex, Writing, Storing
  <2>2. op' = [step |-> "build"] /\ UNCHANGED <<files, deployed>>
    BY <1>8, <2>1 DEF WritesIndex, Stored
  <2> QED  BY <1>0, <1>c, <2>2 DEF FilesInv
<1>9. CASE WritesPage
  <2>1. op.step = "pages" /\ UNCHANGED <<index, files, deployed>>
    BY <1>9 DEF WritesPage
  <2>2. op'.step # "store"
    <3>1. Paging(op)
      BY <1>6, <2>1
    <3>2. op' = Idle \/ op' = [op EXCEPT !.todo = Tail(op.todo)]
      BY <1>9 DEF WritesPage
    <3> QED  BY <2>1, <3>1, <3>2 DEF Idle, Paging
  <2>3. BuildAccepts(index, files)
    BY <1>c, <2>1 DEF FilesInv
  <2>4. BuildAccepts(index, files)'
    BY <2>1, <2>3
  <2> QED  BY <1>0, <1>c, <2>1, <2>2, <2>4 DEF FilesInv
<1>10. CASE Dies
  <2>1. op'.step = "idle" /\ UNCHANGED deployed
    BY <1>10 DEF Dies, Idle
  <2>2. UNCHANGED files \/ \E v : files' = [files EXCEPT ![v] = Torn]
    BY <1>10 DEF Dies
  <2>3. \A v \in Versions : files'[v] = files[v] \/ files'[v] = Torn
    BY <1>a, <2>2 DEF StoreInv, CheckoutInv
  <2>4. FaithfulFile(Torn)'
    BY DEF FaithfulFile, IsObject
  <2> QED  BY <1>0, <1>c, <2>1, <2>3, <2>4 DEF FilesInv
<1>11. CASE BuildBegins \/ Refuses \/ Renders
  <2>1. UNCHANGED <<index, files, deployed>> /\ op'.step # "store"
    BY <1>11 DEF BuildBegins, Refuses, Renders, Idle
  <2>2. op'.step = "pages" => BuildAccepts(index, files)
    BY <1>11 DEF BuildBegins, Refuses, Renders, Idle, CanBuild
  <2>3. op'.step = "pages" => BuildAccepts(index, files)'
    BY <2>1, <2>2
  <2> QED  BY <1>0, <1>c, <2>1, <2>3 DEF FilesInv
<1>12. CASE Deploys
  <2>1. op'.step = "idle" /\ UNCHANGED files /\ deployed'.files = files
    BY <1>12 DEF Deploys, Idle
  <2> QED  BY <1>0, <1>c, <2>1 DEF FilesInv
<1>13. CASE Restores
  <2>1. /\ op'.step = "idle" /\ UNCHANGED deployed
        /\ files' = [v \in Versions |-> IF deployed.files[v] # None THEN deployed.files[v]
                                        ELSE files[v]]
    BY <1>13 DEF Restores, Idle
  <2> QED  BY <1>0, <1>c, <2>1 DEF FilesInv
<1>14. ASSUME NEW v \in Versions, EditsFile(v)
       PROVE  FilesInv'
  <2>1. /\ op = Idle /\ IsObject(files[v])
        /\ op'.step = "idle" /\ UNCHANGED deployed
        /\ FlipsRun(v) \/ EditsNumber(v)
    BY <1>14 DEF EditsFile, Idle
  <2>2. CASE UNCHANGED vars \/ Restores
    BY <1>4, <1>13, <2>2 DEF vars
  <2>3. CASE ~ UNCHANGED vars /\ ~ Restores
    <3>1. ValidRelease(files[v]) /\ Faithful(files[v], measured)
      BY <1>14, <1>c, <2>1, <2>3 DEF EditedUnchecked, FilesInv, FaithfulFile
    <3>2. PICK e : files' = [files EXCEPT ![v] = e] /\ FaithfulFile(e)'
      <4>1. CASE FlipsRun(v)
        <5>1. PICK r \in {q \in files[v].runs : Evaluated(q)} :
                files' = [files EXCEPT ![v] = Flipped(files[v], r)]
          BY <4>1 DEF FlipsRun
        <5>2. ~ ValidRelease(Flipped(files[v], r))
          BY <3>1, <5>1, FlipIsRefused DEF Faithful, WellFormed
        <5> QED  BY <5>1, <5>2 DEF FaithfulFile
      <4>2. CASE EditsNumber(v)
        <5>1. PICK e : /\ files' = [files EXCEPT ![v] = e]
                       /\ \/ \E x : e = [files[v] EXCEPT !.byScenario = x]
                          \/ \E x : /\ DOMAIN x = DOMAIN files[v].totals
                                    /\ e = [files[v] EXCEPT !.totals = x]
          BY <4>2, EditsKeepRuns
        <5>2. Faithful(e, measured)
          BY <3>1, <5>1, NumbersKeepFaith
        <5> QED  BY <1>0, <5>1, <5>2
      <4> QED  BY <2>1, <4>1, <4>2
    <3>3. \A w \in Versions : files'[w] = IF w = v THEN e ELSE files[w]
      BY <1>a, <3>2 DEF StoreInv, CheckoutInv
    <3> QED  BY <1>0, <1>c, <2>1, <3>2, <3>3 DEF FilesInv
  <2> QED  BY <2>2, <2>3
<1>15. ASSUME NEW v \in Versions, NamesCompanion(v)
       PROVE  FilesInv'
  <2>1. op'.step = "idle" /\ UNCHANGED <<files, deployed>>
    BY <1>15 DEF NamesCompanion, Idle
  <2> QED  BY <1>0, <1>c, <2>1 DEF FilesInv
<1> QED
  BY <1>2, <1>3, <1>4, <1>7, <1>8, <1>9, <1>10, <1>11, <1>12, <1>13, <1>14, <1>15
  DEF Next, vars, MatrixWrites, Catalogs, Publishes, CommandStep, BundleMade, Submits

LEMMA EvidenceStarts == Init => EvidenceInv
BY DeployedStarts, SubmissionStarts, FilesStart DEF EvidenceInv

LEMMA EvidenceSteps == EvidenceInv /\ [Next]_vars /\ [~ EditedUnchecked]_vars => EvidenceInv'
BY DeployedSteps, SubmissionSteps, FilesSteps DEF EvidenceInv

(* A deployed release that carries the digest of a submission is that      *)
(* evidence up to corrections that can be taken back, for any corrections, *)
(* whatever became of bundles, branches and merged files on the way, and   *)
(* whoever edited a release, as long as it passes the check between two    *)
(* edits.                                                                  *)
THEOREM AcceptedCorrect ==
  Spec /\ [][~ EditedUnchecked]_vars => []AcceptedIsReviewed
<1>1. EvidenceInv => AcceptedIsReviewed
  <2> SUFFICES ASSUME EvidenceInv, NEW v \in Published(deployed.index)
               PROVE  IsReviewed(deployed.files[v])
    BY DEF AcceptedIsReviewed
  <2>1. /\ deployed.index \in Indexes
        /\ IsObject(deployed.files[v]) /\ ValidRelease(deployed.files[v])
    BY DEF EvidenceInv, DeployedInv, CoverageInv, StoreInv, CheckoutInv, BuildAccepts,
           CatalogAccepts
  <2>2. v \in Versions
    BY <2>1, PublishedVersions
  <2> QED  BY <2>1, <2>2 DEF EvidenceInv, FilesInv, FaithfulFile, Faithful
<1> QED  BY <1>1, EvidenceStarts, EvidenceSteps, PTL DEF Spec

(* The evaluated runs behind a cell that the deployed coverage calls       *)
(* covered are runs of matrices that were measured.                        *)
WasMeasured(r) == \E m \in measured : \E q \in m.runs : Fact(r) = Fact(q)

DeployedCoverageMeasured ==
  \A s \in Required(Manifest), lane \in deployed.pages["coverage"].fleet :
    PubliclyCovered(Manifest, deployed.pages["coverage"], s, lane) =>
      \E v \in Published(deployed.index) \ deployed.index.companions :
        \E key \in DOMAIN deployed.files[v].byScenario :
          /\ key.scenario = s.id /\ key.version = s.version /\ key.model = lane.model
          /\ Cardinality({r \in RunsAt(deployed.files[v], key) :
                            Evaluated(r) /\ WasMeasured(r)}) >= Manifest.attempts

(* Nobody is told that a cell is covered unless one deployed release has a *)
(* run of it for each attempt that some matrix did measure, as long as a   *)
(* release that is edited passes the check between two edits.              *)
THEOREM CoverageGenuine ==
  Spec /\ [][~ EditedUnchecked]_vars => []DeployedCoverageMeasured
<1>1. EvidenceInv => DeployedCoverageMeasured
  <2> SUFFICES ASSUME EvidenceInv,
                      NEW s \in Required(Manifest), NEW lane \in deployed.pages["coverage"].fleet,
                      PubliclyCovered(Manifest, deployed.pages["coverage"], s, lane)
               PROVE  \E v \in Published(deployed.index) \ deployed.index.companions :
                        \E key \in DOMAIN deployed.files[v].byScenario :
                          /\ key.scenario = s.id /\ key.version = s.version
                          /\ key.model = lane.model
                          /\ Cardinality({r \in RunsAt(deployed.files[v], key) :
                                Evaluated(r) /\ WasMeasured(r)}) >= Manifest.attempts
    BY DEF DeployedCoverageMeasured
  <2>1. Released(deployed.index, deployed.files, s, lane)
    BY DeployedIsReleased DEF EvidenceInv, DeployedCoverageHolds
  <2>2. PICK v \in Published(deployed.index) \ deployed.index.companions :
          \E key \in DOMAIN deployed.files[v].byScenario :
            /\ key.scenario = s.id /\ key.version = s.version /\ key.model = lane.model
            /\ Cardinality({r \in RunsAt(deployed.files[v], key) : Evaluated(r)})
                 >= Manifest.attempts
    BY <2>1 DEF Released
  <2>3. Faithful(deployed.files[v], measured)
    <3>1. /\ deployed.index \in Indexes
          /\ IsObject(deployed.files[v]) /\ ValidRelease(deployed.files[v])
      BY DEF EvidenceInv, DeployedInv, CoverageInv, StoreInv, CheckoutInv, BuildAccepts,
             CatalogAccepts
    <3>2. v \in Versions
      BY <3>1, PublishedVersions
    <3> QED  BY <3>1, <3>2 DEF EvidenceInv, FilesInv, FaithfulFile
  <2>4. \A key : {r \in RunsAt(deployed.files[v], key) : Evaluated(r) /\ WasMeasured(r)}
                  = {r \in RunsAt(deployed.files[v], key) : Evaluated(r)}
    BY <2>3, FaithfulMeasured DEF RunsAt, WasMeasured
  <2> QED  BY <2>2, <2>4
<1> QED  BY <1>1, EvidenceStarts, EvidenceSteps, PTL DEF Spec

-----------------------------------------------------------------------------
(* The public catalog                                                      *)

(* No row of the tracked releases is shown under a provider that has runs  *)
(* of the cell itself.                                                     *)
RowsUnmixed ==
  \A v \in Versions :
    IsObject(files[v]) => \A key \in DOMAIN files[v].byScenario : Unmixed(files[v], key)

PageShows(p) == p["catalog"] # Torn => \A c \in p["catalog"].records : ShowsMeasured(c)

PagesInv == PageShows(pages) /\ PageShows(deployed.pages)

LEMMA OutcomesCount ==
  ASSUME NEW S, IsFiniteSet(S), \A q, r \in S : Outcome(q) = Outcome(r) => q = r
  PROVE  /\ Cardinality({Outcome(r) : r \in S}) = Cardinality(S)
         /\ Cardinality({o \in {Outcome(r) : r \in S} : Passed(o)})
              = Cardinality({r \in S : Passed(r)})
<1> DEFINE P == {r \in S : Passed(r)}
           f == [r \in S |-> Outcome(r)]
           g == [r \in P |-> Outcome(r)]
<1>1. f = [r \in S |-> f[r]] /\ {Outcome(r) : r \in S} = {f[r] : r \in S}
      /\ \A q, r \in S : f[q] = f[r] => q = r
  OBVIOUS
<1>2. IsFiniteSet(P)
  BY FS_Subset
<1>3. \A r : Passed(Outcome(r)) <=> Passed(r)
  BY DEF Passed, Evaluated, Outcome
<1>4. {o \in {Outcome(r) : r \in S} : Passed(o)} = {Outcome(r) : r \in P}
  BY <1>3
<1>5. g = [r \in P |-> g[r]] /\ {Outcome(r) : r \in P} = {g[r] : r \in P}
      /\ \A q, r \in P : g[q] = g[r] => q = r
  OBVIOUS
<1> HIDE DEF f, g, P
<1>6. Cardinality({f[r] : r \in S}) = Cardinality(S)
  BY <1>1, ImageFinite
<1>7. Cardinality({g[r] : r \in P}) = Cardinality(P)
  BY <1>2, <1>5, ImageFinite
<1> QED  BY <1>1, <1>4, <1>5, <1>6, <1>7 DEF P

(* A row of an accepted release that is faithful shows what was measured.  *)
LEMMA RecordShows ==
  ASSUME NEW v, NEW release, Faithful(release, measured), ValidRelease(release),
         Readable(release), NEW key \in DOMAIN release.byScenario, Unmixed(release, key)
  PROVE  ShowsMeasured(Record(v, release, key))
<1> DEFINE S == RunsAt(release, key)
           c == Record(v, release, key)
<1>1. PICK r \in release.runs : key = LaneCell(r)
  BY RowsCount
<1>2. CountsRuns(release.byScenario[key], S)
  BY RowsCount
<1>3. RunsListed(release, key) = S
  BY <1>1, OwnRunsListed
<1>4. /\ c.outcomes = {Outcome(q) : q \in S} /\ c.row = release.byScenario[key]
      /\ c.scenario = key.scenario /\ c.version = key.version /\ c.model = key.model
  BY <1>3 DEF Record
<1>5. S \in SUBSET release.runs /\ IsFiniteSet(release.runs)
  BY DEF RunsAt, Faithful
<1>6. \A q \in S : /\ q.scenario = key.scenario /\ q.version = key.version
                   /\ q.model = key.model
  BY DEF RunsAt, LaneCell
<1>7. ASSUME NEW p \in S, NEW q \in S, Outcome(p) = Outcome(q)
      PROVE  p = q
  <2>1. p.src = q.src /\ p.attempt = q.attempt
    BY <1>7 DEF Outcome
  <2>2. Cell(p) = Cell(q)
    BY <1>6, <2>1 DEF Cell
  <2> QED  BY <1>5, <2>1, <2>2 DEF Faithful
<1>8. IsFiniteSet(S)
  BY <1>5, FS_Subset
<1>9. \A q \in S : \E m \in measured : \E w \in m.runs : Fact(q) = Fact(w)
  BY <1>5, FaithfulMeasured
<1>10. \A q \in S : Fact(q) = [id |-> Outcome(q).id, scenario |-> key.scenario,
                               version |-> key.version, model |-> key.model,
                               attempt |-> Outcome(q).attempt,
                               status |-> Outcome(q).status, reward |-> Outcome(q).reward]
  BY <1>6 DEF Fact, Outcome
<1> HIDE DEF S, c
<1>11. /\ Cardinality(c.outcomes) = Cardinality(S)
       /\ Cardinality({o \in c.outcomes : Passed(o)}) = Cardinality({q \in S : Passed(q)})
  BY <1>4, <1>7, <1>8, OutcomesCount
<1>12. \A o \in c.outcomes : \E m \in measured : \E w \in m.runs :
         Fact(w) = [id |-> o.id, scenario |-> c.scenario, version |-> c.version,
                    model |-> c.model, attempt |-> o.attempt,
                    status |-> o.status, reward |-> o.reward]
  <2> TAKE o \in c.outcomes
  <2>1. PICK q \in S : o = Outcome(q)
    BY <1>4
  <2>2. PICK m \in measured : \E w \in m.runs : Fact(q) = Fact(w)
    BY <1>9
  <2>3. PICK w \in m.runs : Fact(q) = Fact(w)
    BY <2>2
  <2> QED  BY <1>4, <1>10, <2>1, <2>3
<1>13. c.row.trials = Cardinality(S) /\ c.row.passed = Cardinality({q \in S : Passed(q)})
  BY <1>2, <1>4 DEF CountsRuns
<1>14. ShowsMeasured(c)
  BY <1>11, <1>12, <1>13 DEF ShowsMeasured
<1> QED  BY <1>14 DEF c

LEMMA CatalogShows ==
  ASSUME NEW i \in Indexes, NEW f, BuildAccepts(i, f),
         \A v \in Versions :
           /\ FaithfulFile(f[v])
           /\ IsObject(f[v]) => \A key \in DOMAIN f[v].byScenario : Unmixed(f[v], key),
         NEW c \in Render("catalog", i, f).records
  PROVE  ShowsMeasured(c)
<1>1. PICK v \in Published(i) : c \in Records(v, f[v])
  BY DEF Render, Catalog
<1>2. PICK key \in DOMAIN f[v].byScenario : c = Record(v, f[v], key)
  BY <1>1 DEF Records
<1>3. IsObject(f[v]) /\ ValidRelease(f[v]) /\ Readable(f[v]) /\ v \in Versions
  BY PublishedVersions DEF BuildAccepts, CatalogAccepts
<1>4. Faithful(f[v], measured)
  BY <1>3 DEF FaithfulFile
<1> QED  BY <1>2, <1>3, <1>4, RecordShows

LEMMA CatalogIsPage == "catalog" \in PageNames
BY DEF PageNames, Pages

(* A page is what it was, what is deployed, torn, or rendered of files     *)
(* that a build accepts.                                                   *)
LEMMA PageSteps ==
  ASSUME EvidenceInv, [Next]_vars, NEW n \in PageNames
  PROVE  /\ \/ pages'[n] \in {pages[n], deployed.pages[n], Torn}
            \/ /\ pages'[n] = Render(n, index, files)
               /\ index \in Indexes /\ BuildAccepts(index, files)
         /\ deployed'.pages[n] \in {deployed.pages[n], pages[n]}
<1>0. DOMAIN pages = PageNames
  BY DEF EvidenceInv, DeployedInv, CoverageInv, ListsLanes
<1>1. CASE UNCHANGED <<pages, deployed>>
  BY <1>1
<1>2. CASE WritesPage
  <2> DEFINE page == Head(op.todo)
  <2>1. /\ op.step = "pages" /\ UNCHANGED deployed
        /\ pages' = [pages EXCEPT ![page] = Render(page, index, files)]
    BY <1>2 DEF WritesPage
  <2>2. BuildAccepts(index, files)
    BY <2>1 DEF EvidenceInv, FilesInv
  <2>3. index \in Indexes
    BY <2>2 DEF EvidenceInv, DeployedInv, CoverageInv, StoreInv, CheckoutInv, BuildAccepts
  <2> HIDE DEF page
  <2>4. pages'[n] = IF n = page THEN Render(n, index, files) ELSE pages[n]
    BY <1>0, <2>1
  <2> QED  BY <2>1, <2>2, <2>3, <2>4
<1>3. CASE Dies
  <2>1. /\ UNCHANGED deployed
        /\ UNCHANGED pages \/ pages' = [pages EXCEPT ![Head(op.todo)] = Torn]
    BY <1>3 DEF Dies
  <2> QED  BY <1>0, <2>1
<1>4. CASE Deploys
  BY <1>4 DEF Deploys
<1>5. CASE Restores
  BY <1>5 DEF Restores
<1>6. Publishes =>
        UNCHANGED <<pages, deployed>> \/ WritesPage \/ Dies \/ Deploys \/ Restores
  BY DEF Publishes, BuildBegins, CommandStep, WritesFile, WritesIndex, Refuses, Renders,
         EditsFile, NamesCompanion
<1>7. UNCHANGED <<pages, deployed>> \/ WritesPage \/ Dies \/ Deploys \/ Restores
  BY <1>6, PublicationSteps DEF Stores, publicationVars
<1> QED
  BY <1>1, <1>2, <1>3, <1>4, <1>5, <1>7

LEMMA PagesStart == Init /\ RowsUnmixed => PagesInv
<1> SUFFICES ASSUME Init, RowsUnmixed PROVE PagesInv
  OBVIOUS
<1>1. /\ pages["catalog"] = Render("catalog", Origin.index, Origin.files)
      /\ deployed.pages = pages /\ files = Origin.files /\ measured = Origin.measured
  BY CatalogIsPage DEF Init, PublicationInit, Checkout
<1>2. /\ Origin.index \in Indexes /\ BuildAccepts(Origin.index, Origin.files)
      /\ \A v \in Versions : FaithfulFile(files[v])
  BY <1>1, OriginAssumption, OriginFaithful DEF FaithfulFile
<1>3. \A c \in pages["catalog"].records : ShowsMeasured(c)
  BY <1>1, <1>2, CatalogShows DEF RowsUnmixed
<1> QED  BY <1>1, <1>3 DEF PagesInv, PageShows

LEMMA PagesSteps == EvidenceInv /\ PagesInv /\ RowsUnmixed /\ [Next]_vars => PagesInv'
<1> SUFFICES ASSUME EvidenceInv, PagesInv, RowsUnmixed, [Next]_vars PROVE PagesInv'
  OBVIOUS
<1>1. \A c : ShowsMeasured(c) => ShowsMeasured(c)'
  BY MeasuredGrows DEF ShowsMeasured
<1>2. /\ \/ pages'["catalog"] \in {pages["catalog"], deployed.pages["catalog"], Torn}
         \/ /\ pages'["catalog"] = Render("catalog", index, files)
            /\ index \in Indexes /\ BuildAccepts(index, files)
      /\ deployed'.pages["catalog"] \in {deployed.pages["catalog"], pages["catalog"]}
  BY PageSteps, CatalogIsPage
<1>3. ASSUME index \in Indexes, BuildAccepts(index, files)
      PROVE  \A c \in Render("catalog", index, files).records : ShowsMeasured(c)
  BY <1>3, CatalogShows DEF RowsUnmixed, EvidenceInv, FilesInv
<1>4. PageShows(pages)'
  BY <1>1, <1>2, <1>3 DEF PagesInv, PageShows
<1>5. PageShows(deployed.pages)'
  BY <1>1, <1>2 DEF PagesInv, PageShows
<1> QED  BY <1>4, <1>5 DEF PagesInv

(* The trials and the passed trials of a row of the public catalog, also   *)
(* of a half built one, are as many as the runs listed below it say, and   *)
(* each of these is a run of a matrix that was measured, as long as a      *)
(* release that is edited passes the check between two edits, and no       *)
(* harness is annotated with the provider of another row of the cell.      *)
THEOREM PublishedCorrect ==
  Spec /\ [][~ EditedUnchecked]_vars /\ []RowsUnmixed => []PublishedIsMeasured
<1>1. PagesInv => PublishedIsMeasured
  BY DEF PagesInv, PageShows, PublishedIsMeasured
<1> QED
  BY <1>1, EvidenceStarts, EvidenceSteps, PagesStart, PagesSteps, PTL DEF Spec

-----------------------------------------------------------------------------
(* The public coverage                                                     *)

(* A row shows the provider that its runs were made through, and none of   *)
(* the release's corrections has changed it.                               *)
Plain(release, key) ==
  /\ ProvidersKept(release)
  /\ ProviderId(Shown(release, key.provider)) = ProviderId(key.provider)

RequiredRow(key) == [id |-> key.scenario, version |-> key.version] \in Required(Manifest)

(* So do all rows that may cover a cell of the manifest: those of the      *)
(* newest release with the scenario, made under the manifest's conditions. *)
PlainRows(i, f) ==
  \A v \in Published(i) \ i.companions : SameBoundary(Manifest, f[v]) =>
    \A key \in DOMAIN f[v].byScenario :
      RequiredRow(key) /\ Latest(i, f, v, key.scenario) => Plain(f[v], key)

RowsPlain == BuildAccepts(index, files) => PlainRows(index, files)

(* One matrix has the runs of such a row: there are as many of it that     *)
(* were measured as the row counts.                                        *)
LEMMA ReleasedIsMeasured ==
  ASSUME NEW i \in Indexes, NEW f, BuildAccepts(i, f),
         PlainRows(i, f), \A v \in Versions : FaithfulFile(f[v]),
         NEW s \in Required(Manifest), NEW lane, Released(i, f, s, lane)
  PROVE  Measured(s, lane)
<1>1. PICK v \in Published(i) \ i.companions :
        /\ SameBoundary(Manifest, f[v]) /\ Latest(i, f, v, s.id)
        /\ \E key \in DOMAIN f[v].byScenario :
             /\ key.scenario = s.id /\ key.version = s.version /\ key.model = lane.model
             /\ ProviderId(Shown(f[v], key.provider)) = ProviderId(lane.provider)
             /\ Cardinality({r \in RunsAt(f[v], key) : Evaluated(r)}) >= Manifest.attempts
  BY DEF Released
<1> DEFINE release == f[v]
<1>2. PICK key \in DOMAIN release.byScenario :
        /\ key.scenario = s.id /\ key.version = s.version /\ key.model = lane.model
        /\ ProviderId(Shown(release, key.provider)) = ProviderId(lane.provider)
        /\ Cardinality({r \in RunsAt(release, key) : Evaluated(r)}) >= Manifest.attempts
  BY <1>1
<1>3. /\ IsObject(release) /\ ValidRelease(release) /\ Readable(release) /\ v \in Versions
  BY PublishedVersions DEF BuildAccepts, CatalogAccepts
<1>4. Faithful(release, measured)
  BY <1>3 DEF FaithfulFile
<1>5. Plain(release, key)
  <2>1. RequiredRow(key)
    BY <1>2 DEF RequiredRow, Required
  <2> QED  BY <1>1, <1>2, <2>1 DEF PlainRows
<1> HIDE DEF release
<1>6. PICK o \in release.runs : key = LaneCell(o)
  BY <1>3, RowsCount
<1>7. PICK m \in measured :
        /\ IsFiniteSet(m.runs)
        /\ \A r \in release.runs : r.src = o.src => Recorded(release, m, r)
  BY <1>4, <1>6 DEF Faithful, OfSources
<1> DEFINE E == {r \in RunsAt(release, key) : Evaluated(r)}
           X == {x \in m.runs : /\ Evaluated(x)
                                /\ x.scenario = s.id /\ x.version = s.version
                                /\ x.model = lane.model
                                /\ RunProvider(m, x) = ProviderId(lane.provider)}
<1>8. ASSUME NEW r \in E
      PROVE  /\ r.src = o.src /\ Cell(r) = [scenario |-> key.scenario, version |-> key.version,
                                            model |-> key.model, attempt |-> r.attempt]
             /\ \E x \in X : Fact(r) = Fact(x)
  <2>1. r \in release.runs /\ LaneCell(r) = key /\ Evaluated(r)
    BY DEF RunsAt
  <2>2. r.src = o.src
    BY <1>4, <1>5, <1>6, <2>1 DEF Faithful, OfSources, Plain
  <2>3. /\ r.scenario = key.scenario /\ r.version = key.version
        /\ r.model = key.model /\ r.provider = key.provider
    BY <2>1 DEF LaneCell
  <2>4. PICK x \in m.runs : Fact(r) = Fact(x) /\ RunProvider(m, x) = ProviderId(r.provider)
    BY <1>5, <1>7, <2>1, <2>2 DEF Recorded, Plain
  <2>5. /\ x.scenario = r.scenario /\ x.version = r.version /\ x.model = r.model
        /\ x.status = r.status
    BY <2>4 DEF Fact
  <2>6. x \in X
    BY <1>2, <1>5, <2>1, <2>3, <2>4, <2>5 DEF Evaluated, Plain
  <2> QED  BY <2>2, <2>3, <2>4, <2>6 DEF Cell
<1>9. ASSUME NEW q \in E, NEW r \in E, Fact(q) = Fact(r)
      PROVE  q = r
  <2>1. q.src = r.src /\ Cell(q) = Cell(r)
    BY <1>8, <1>9 DEF Fact
  <2>2. q \in release.runs /\ r \in release.runs
    BY DEF RunsAt
  <2> QED  BY <1>4, <2>1, <2>2 DEF Faithful
<1>10. IsFiniteSet(X)
  BY <1>7, FS_Subset
<1> HIDE DEF E, X
<1>11. Cardinality(E) <= Cardinality(X) /\ Cardinality(E) \in Nat /\ Cardinality(X) \in Nat
  <2> DEFINE g == [r \in E |-> CHOOSE x \in X : Fact(r) = Fact(x)]
  <2>1. \A r \in E : g[r] \in X /\ Fact(r) = Fact(g[r])
    BY <1>8
  <2>2. g \in [E -> X]
    BY <2>1
  <2>3. \A q, r \in E : g[q] = g[r] => q = r
    BY <1>9, <2>1
  <2> HIDE DEF g
  <2>4. g \in Injection(E, X)
    BY <2>2, <2>3 DEF Injection, IsInjective
  <2>5. IsFiniteSet(E) /\ Cardinality(E) <= Cardinality(X)
    BY <1>10, <2>4, FS_Injection
  <2> QED  BY <1>10, <2>5, FS_CardinalityType
<1>12. Cardinality(X) >= Manifest.attempts
  <2>1. Cardinality(E) >= Manifest.attempts
    BY <1>2 DEF E
  <2> QED  BY <1>11, <2>1, ManifestAssumption
<1> QED  BY <1>12 DEF Measured, EvaluatedAt, X

(* The page, wherever it is kept, calls covered only what one measured     *)
(* matrix has an evaluated run of for each attempt.                        *)
CoverShows(p) ==
  p["coverage"] # Torn =>
    \A s \in Required(Manifest), lane \in p["coverage"].fleet :
      PubliclyCovered(Manifest, p["coverage"], s, lane) => Measured(s, lane)

CoverInv == CoverShows(pages) /\ CoverShows(deployed.pages)

LEMMA RenderedCovers ==
  ASSUME NEW i \in Indexes, NEW f, BuildAccepts(i, f),
         PlainRows(i, f), \A v \in Versions : FaithfulFile(f[v]),
         NEW s \in Required(Manifest), NEW lane \in Render("coverage", i, f).fleet,
         PubliclyCovered(Manifest, Render("coverage", i, f), s, lane)
  PROVE  Measured(s, lane)
<1>1. Render("coverage", i, f) = Coverage(i, f) /\ CatalogAccepts(i, f)
  BY DEF Render, BuildAccepts
<1>2. Released(i, f, s, lane)
  BY <1>1, CoveredIsReleased
<1> QED  BY <1>2, ReleasedIsMeasured

LEMMA CoverStarts == Init /\ RowsPlain => CoverInv
<1> SUFFICES ASSUME Init, RowsPlain PROVE CoverInv
  OBVIOUS
<1>1. /\ pages["coverage"] = Render("coverage", Origin.index, Origin.files)
      /\ deployed.pages = pages /\ index = Origin.index
      /\ files = Origin.files /\ measured = Origin.measured
  BY CoverageIsPage DEF Init, PublicationInit, Checkout
<1>2. /\ Origin.index \in Indexes /\ BuildAccepts(Origin.index, Origin.files)
      /\ \A v \in Versions : FaithfulFile(files[v])
  BY <1>1, OriginAssumption, OriginFaithful DEF FaithfulFile
<1>3. CoverShows(pages)
  BY <1>1, <1>2, RenderedCovers DEF RowsPlain, CoverShows
<1> QED  BY <1>1, <1>3 DEF CoverInv

LEMMA CoverSteps == EvidenceInv /\ CoverInv /\ RowsPlain /\ [Next]_vars => CoverInv'
<1> SUFFICES ASSUME EvidenceInv, CoverInv, RowsPlain, [Next]_vars PROVE CoverInv'
  OBVIOUS
<1>1. \A s, lane : Measured(s, lane) => Measured(s, lane)'
  BY MeasuredGrows DEF Measured
<1>2. /\ \/ pages'["coverage"] \in {pages["coverage"], deployed.pages["coverage"], Torn}
         \/ /\ pages'["coverage"] = Render("coverage", index, files)
            /\ index \in Indexes /\ BuildAccepts(index, files)
      /\ deployed'.pages["coverage"] \in {deployed.pages["coverage"], pages["coverage"]}
  BY PageSteps, CoverageIsPage
<1> DEFINE Covers(page) == \A s \in Required(Manifest), lane \in page.fleet :
                             PubliclyCovered(Manifest, page, s, lane) => Measured(s, lane)
<1>3. ASSUME index \in Indexes, BuildAccepts(index, files)
      PROVE  Covers(Render("coverage", index, files))
  BY <1>3, RenderedCovers DEF RowsPlain, EvidenceInv, FilesInv
<1>4. \A page : Covers(page) => Covers(page)'
  BY <1>1
<1>5. \A p : CoverShows(p) <=> (p["coverage"] # Torn => Covers(p["coverage"]))
  BY DEF CoverShows
<1>6. /\ pages'["coverage"] # Torn => Covers(pages'["coverage"])
      /\ deployed'.pages["coverage"] # Torn => Covers(deployed'.pages["coverage"])
  <2> HIDE DEF Covers
  <2> QED  BY <1>2, <1>3, <1>5 DEF CoverInv
<1>7. CoverShows(pages)'
  BY <1>1, <1>6 DEF CoverShows
<1>8. CoverShows(deployed.pages)'
  BY <1>1, <1>6 DEF CoverShows
<1> QED  BY <1>7, <1>8 DEF CoverInv

(* No lane of the page that is planned for has two names.                  *)
LanesNamedOnce == pages["coverage"] # Torn => NamedOnce(pages["coverage"].fleet)

(* What is planned is what is missing, each cell once, and whatever is not *)
(* planned was measured, an evaluated run for each attempt in one matrix:  *)
(* however the page came about that the planner reads, while the rows that *)
(* may cover a cell show the providers of their runs, its lanes have one   *)
(* name each, and a release that is edited passes the check between two    *)
(* edits.                                                                  *)
THEOREM PlanExact ==
  Spec /\ [][~ EditedUnchecked]_vars /\ []RowsPlain /\ []LanesNamedOnce => []PlanIsExact
<1>1. PlanCoversGaps /\ CoverInv /\ LanesNamedOnce => PlanIsExact
  <2> DEFINE lanes == SelectedLanes(pages["coverage"], {}, {})
             gaps  == Gaps(Manifest, pages["coverage"], lanes,
                           {summary[p] : p \in DOMAIN summary} \ {None})
             Exact(s, lane) ==
               IF [scenario |-> s, lane |-> lane] \in gaps
               THEN Cardinality(PlansOf(gaps, s, lane)) = 1
               ELSE PlansOf(gaps, s, lane) = {} /\ Measured(s, lane)
  <2>0. PlanIsExact <=> (pages["coverage"] # Torn =>
                           \A s \in Required(Manifest), lane \in lanes : Exact(s, lane))
    BY DEF PlanIsExact, PlansOf
  <2> SUFFICES ASSUME PlanCoversGaps, CoverInv, LanesNamedOnce, pages["coverage"] # Torn
               PROVE  PlanIsExact
    BY <2>0
  <2>1. lanes \subseteq pages["coverage"].fleet
    BY DEF SelectedLanes
  <2>2. NamedOnce(lanes)
    BY <2>1 DEF LanesNamedOnce, NamedOnce
  <2>3. ASSUME NEW s \in Required(Manifest), NEW lane \in lanes
        PROVE  IF [scenario |-> s, lane |-> lane] \in gaps
               THEN Cardinality(PlansOf(gaps, s, lane)) = 1
               ELSE /\ PlansOf(gaps, s, lane) = {}
                    /\ \/ PubliclyCovered(Manifest, pages["coverage"], s, lane)
                       \/ Measured(s, lane)
    BY <2>2 DEF PlanCoversGaps
  <2>4. \A s \in Required(Manifest), lane \in lanes :
          PubliclyCovered(Manifest, pages["coverage"], s, lane) => Measured(s, lane)
    BY <2>1 DEF CoverInv, CoverShows
  <2>5. ASSUME NEW s \in Required(Manifest), NEW lane \in lanes
        PROVE  Exact(s, lane)
    <3> HIDE DEF lanes, gaps
    <3> QED  BY <2>3, <2>4
  <2> HIDE DEF lanes, Exact
  <2> QED  BY <2>0, <2>5
<1> QED
  BY <1>1, PlanCorrect, EvidenceStarts, EvidenceSteps, CoverStarts, CoverSteps, PTL
  DEF Spec
=============================================================================
