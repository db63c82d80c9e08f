-------------------------- MODULE EvidencePipeline --------------------------
(* The way of evidence: a matrix writes its summary, and may write another *)
(* when it is resumed; the summary is imported into the local catalog,     *)
(* published, or bundled, submitted, merged and accepted; and the public   *)
(* coverage with the local summaries decides what is still to run.         *)
EXTENDS Publication, Submission, CoveragePlan

CONSTANTS
  Paths,         \* where summaries lie
  Measurements,  \* path -> the matrices that may be measured there
  Selections,    \* the selections of models that are imported
  Manifest       \* the benchmark that is planned for

(* No two runs of a matrix have one id, and all of them went through the   *)
(* provider that the matrix was started with: run_host_matrix sees to both *)
(* when it makes its jobs, and a resume cannot name another provider.      *)
ASSUME MeasurementsAssumption ==
  /\ Paths \in Seq(DOMAIN Measurements)
  /\ \A p \in DOMAIN Measurements : \A m \in Measurements[p] :
       /\ "runs" \in DOMAIN m /\ IsFiniteSet(m.runs)
       /\ \A q, r \in m.runs : q.id = r.id => q = r
       /\ \A q, r \in m.runs : q.provider = r.provider

ASSUME AnnotationsAssumption ==
  \A notes \in Annotations : notes.corrections \in Seq(Range(notes.corrections))

(* load_benchmark_manifest takes a positive number of attempts only.       *)
ASSUME ManifestAssumption == Manifest.attempts \in Nat \ {0}

VARIABLES
  summary,   \* path -> the summary there, or None
  db,        \* the local catalog
  import,    \* its running import
  measured   \* every matrix that was ever written to a summary

vars == <<publicationVars, submissionVars, summary, db, import, measured>>

Local == INSTANCE ResultCatalog

Init ==
  /\ PublicationInit
  /\ SubmissionInit
  /\ summary = [p \in {Paths[i] : i \in DOMAIN Paths} |-> None]
  /\ Local!CatalogInit
  /\ measured = Origin.measured

-----------------------------------------------------------------------------
(* A resume keeps the identity and every evaluated run.                    *)
Resumes(old, new) ==
  /\ Local!MatrixId(old) = Local!MatrixId(new)
  /\ old # new
  /\ {r \in old.runs : Evaluated(r)} \subseteq new.runs

MatrixWrites(p) ==
  \E m \in Measurements[p] :
    /\ summary[p] # None => Resumes(summary[p], m)
    /\ summary' = [summary EXCEPT ![p] = m]
    /\ measured' = measured \cup {m}
    /\ UNCHANGED <<publicationVars, submissionVars, db, import>>

(* The summaries of a command line, in order.                              *)
At(ps) == [i \in DOMAIN ps |-> summary[ps[i]]]
There(ps) == \A i \in DOMAIN ps : summary[ps[i]] # None
CommandLines == {Kept(Paths, S) : S \in SUBSET DOMAIN summary} \ {<<>>}

Catalogs ==
  /\ \/ \E S \in SUBSET DOMAIN summary : Local!ImportBegins(S)
     \/ Local!CatalogStep
     \/ Local!ImportStops
  /\ UNCHANGED <<publicationVars, submissionVars, measured>>

ReleaseImported ==
  /\ \E version \in Versions, ps \in CommandLines, wanted \in Selections, notes \in Annotations :
       There(ps) /\ Importing(version, At(ps), wanted, notes)
  /\ UNCHANGED <<submissionVars, summary, db, import, measured>>

(* accept_bundle: the sources are those of the bundle, and the release     *)
(* carries its digest.                                                     *)
Accepts(version, n, notes) ==
  LET b == merged[n] IN
  /\ ValidBundle(b)
  /\ CanRelease(b.evidence.sources, notes)
  /\ Stores([Release(version, b.evidence.sources, notes) EXCEPT !.submission = b.id])

ReleaseAccepted ==
  /\ \E version \in Versions, n \in DOMAIN merged, notes \in Annotations :
       Accepts(version, n, notes)
  /\ UNCHANGED <<submissionVars, summary, db, import, measured>>

Publishes ==
  /\ \/ CommandStep \/ BuildBegins \/ Dies \/ Deploys \/ Restores
     \/ \E v \in Versions : EditsFile(v) \/ NamesCompanion(v)
  /\ UNCHANGED <<submissionVars, summary, db, import, measured>>

BundleMade ==
  /\ \E ps \in CommandLines : There(ps) /\ Bundles(At(ps))
  /\ UNCHANGED <<publicationVars, summary, db, import, measured>>

Submits ==
  /\ \/ SubmitBegins \/ SubmitStep \/ SubmitFails \/ GoesBack
     \/ \E p \in pulls : Merges(p)
     \/ \E n \in DOMAIN merged : EditsSubmission(n)
  /\ UNCHANGED <<publicationVars, summary, db, import, measured>>

Next ==
  \/ \E p \in DOMAIN summary : MatrixWrites(p)
  \/ Catalogs
  \/ ReleaseImported \/ ReleaseAccepted \/ Publishes
  \/ BundleMade \/ Submits

Spec == Init /\ [][Next]_vars

-----------------------------------------------------------------------------
(* What a run came to, wherever it is kept.                                *)
Fact(r) == [id |-> r.id, scenario |-> r.scenario, version |-> r.version,
            model |-> r.model, attempt |-> r.attempt,
            status |-> r.status, reward |-> r.reward]

(* The rows of a matrix in the local catalog are those of one summary,     *)
(* also when the matrix was imported before it was resumed: no error and   *)
(* no trial of the first import survives the second.                       *)
RowsOfOneSummary ==
  \A k \in DOMAIN db : /\ db[k].of \in measured
                       /\ db[k].trials = Local!TrialRows(db[k].of)
                       /\ db[k].errors = db[k].of.errors

(* The trials and the passed trials of a row of the public catalog are as  *)
(* many as the runs listed below it say, and each of these runs was        *)
(* measured, whatever was edited, torn or half built.                      *)
ShowsMeasured(c) ==
  /\ c.row.trials = Cardinality(c.outcomes)
  /\ c.row.passed = Cardinality({o \in c.outcomes : Passed(o)})
  /\ \A o \in c.outcomes : \E m \in measured : \E r \in m.runs :
       Fact(r) = [id |-> o.id, scenario |-> c.scenario, version |-> c.version,
                  model |-> c.model, attempt |-> o.attempt,
                  status |-> o.status, reward |-> o.reward]

PublishedIsMeasured ==
  pages["catalog"] # Torn => \A c \in pages["catalog"].records : ShowsMeasured(c)

(* A release that the index lists has its file, also after a command that  *)
(* stored one has died.                                                    *)
IndexNamesFiles ==
  index # Torn => \A v \in Published(index) : files[v] # None

(* A release that carries the digest of a submission is that evidence, up  *)
(* to corrections that keep what they replaced, once it is deployed.       *)
Undone(release) ==
  LET made == Reverse(release.corrections) IN
  Corrected(release.runs,
            [i \in DOMAIN made |-> [run |-> made[i].run, changes |-> made[i].original]])

IsReviewed(release) ==
  release.submission # None => Undone(release) = Trials(release.submission.sources)

AcceptedIsReviewed ==
  \A v \in Published(deployed.index) : IsReviewed(deployed.files[v])

(* The runs of each source are runs of one matrix, which were made through *)
(* the providers that the release gives for them, and a row has runs of    *)
(* one source, unless a correction names another provider.                 *)
ProvidersKept(release) ==
  \A i \in DOMAIN release.corrections :
    "provider" \notin DOMAIN release.corrections[i].changes

Recorded(release, m, r) ==
  \E q \in m.runs : /\ Fact(r) = Fact(q)
                    /\ ProvidersKept(release) => RunProvider(m, q) = ProviderId(r.provider)

OfSources(release, matrices) ==
  /\ \A r \in release.runs : \E m \in matrices :
       /\ IsFiniteSet(m.runs)
       /\ \A q \in release.runs : q.src = r.src => Recorded(release, m, q)
  /\ ProvidersKept(release) =>
       \A q, r \in release.runs : LaneCell(q) = LaneCell(r) => q.src = r.src

(* A release that tells the truth: its runs were measured, are told apart  *)
(* by source and cell, and are those of the submission that it names; and  *)
(* its totals state runs and passes, as those of every release do.  All    *)
(* that were published before were made so.                                *)
Faithful(release, matrices) ==
  /\ {"runs", "corrections", "submission", "totals"} \subseteq DOMAIN release
  /\ {"trials", "passed"} \subseteq DOMAIN release.totals
  /\ IsFiniteSet(release.runs)
  /\ \A r \in release.runs : {"status", "reward"} \subseteq DOMAIN r /\ WellFormed(r)
  /\ OfSources(release, matrices)
  /\ \A q, r \in release.runs : q.src = r.src /\ Cell(q) = Cell(r) => q = r
  /\ IsReviewed(release)

ASSUME OriginFaithful ==
  \A v \in Versions :
    IsObject(Origin.files[v]) => Faithful(Origin.files[v], Origin.measured)

(* A merged submission is named by the evidence in it, whatever became of  *)
(* the bundle's file between its validation and its commit.                *)
MergedIsWhatItSays ==
  [][\A n \in DOMAIN merged' :
       n \notin DOMAIN merged => Digest(merged'[n].evidence) = n]_merged

(* Each cell of the benchmark is planned exactly once, or one matrix that  *)
(* was measured has an evaluated run for each of its attempts.             *)
Measured(s, lane) ==
  \E m \in measured : EvaluatedAt(m, s, lane) >= Manifest.attempts

PlanIsExact ==
  pages["coverage"] # Torn =>
    LET lanes == SelectedLanes(pages["coverage"], {}, {})
        gaps  == Gaps(Manifest, pages["coverage"], lanes,
                      {summary[p] : p \in DOMAIN summary} \ {None})
        Plans(cell) == {c \in Commands(gaps) : cell \in CellsOf(c)}
    IN  \A s \in Required(Manifest), lane \in lanes :
          LET cell == [scenario |-> s, lane |-> Normal(lane)] IN
          IF [scenario |-> s, lane |-> lane] \in gaps
          THEN Cardinality(Plans(cell)) = 1
          ELSE Plans(cell) = {} /\ Measured(s, lane)
=============================================================================
