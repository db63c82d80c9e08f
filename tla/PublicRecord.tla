---------------------------- MODULE PublicRecord ----------------------------
(* The public pages as functions of the index and the release files:       *)
(* public_catalog, public_coverage, the history and benchmark_scores.      *)
(*                                                                         *)
(* The index has the fields current, releases (in order of publication),   *)
(* companions and fleet (the configured coverage lanes).  Wording, links,  *)
(* confidence intervals and medians are left out.                          *)
EXTENDS MatrixEvidence

CONSTANTS
  Torn,          \* a file whose rewriting was cut off
  ScoreCohorts   \* scores.json: release and manifest of each selected cohort

ASSUME TornAssumption == Torn # None

(* read_json: the file can be read and holds an object.                    *)
IsObject(f) == f \notin {None, Torn}

Published(index) == {index.releases[i] : i \in DOMAIN index.releases}
Position(index, version) == CHOOSE i \in DOMAIN index.releases : index.releases[i] = version

(* build_outputs: what the index must satisfy.  Coverage lanes are told    *)
(* apart by model only.                                                    *)
IndexOK(index) ==
  /\ index.current \in Published(index)
  /\ \A x, y \in index.fleet : x.model = y.model => x = y
  /\ index.companions \subseteq Published(index)
  /\ index.current \notin index.companions

-----------------------------------------------------------------------------
(* The catalog.  A provider named by the harness is shown in place of the  *)
(* provider of the lane.                                                   *)
Shown(release, provider) ==
  IF release.harness.provider # None THEN release.harness.provider ELSE provider

(* The runs listed under a row: those of the shown provider, or of the     *)
(* row's own, or of none.                                                  *)
RunsAt(release, key) == {r \in release.runs : LaneCell(r) = key}

RunsListed(release, key) ==
  LET shown == Shown(release, key.provider)
      At(p) == RunsAt(release, [key EXCEPT !.provider = p])
  IN  CASE At(shown) # {} -> At(shown)
        [] At(shown) = {} /\ key.provider # None /\ At(key.provider) # {} -> At(key.provider)
        [] OTHER -> IF shown # None THEN At(None) ELSE {}

Outcome(r) == [id |-> r.id, src |-> r.src, attempt |-> r.attempt,
               status |-> r.status, reward |-> r.reward]

Record(v, release, key) ==
  [release  |-> v, tier |-> release.tier,
   scenario |-> key.scenario, version |-> key.version,
   provider |-> Shown(release, key.provider), model |-> key.model,
   row      |-> release.byScenario[key],
   outcomes |-> {Outcome(r) : r \in RunsListed(release, key)}]

Records(v, release) == {Record(v, release, key) : key \in DOMAIN release.byScenario}

LanesShown(v, release) ==
  {[release |-> v, provider |-> Shown(release, lane.provider),
    model |-> lane.model, row |-> release.byModel[lane]] : lane \in DOMAIN release.byModel}

Role(index, version) ==
  CASE version = index.current          -> "canonical"
    [] version \in index.companions     -> "companion"
    [] OTHER                            -> "historical"

Catalog(index, files) ==
  [releases |-> {[version |-> v, role |-> Role(index, v), tier |-> files[v].tier,
                  harness |-> files[v].harness, totals |-> files[v].totals] :
                   v \in Published(index)},
   lanes    |-> UNION {LanesShown(v, files[v]) : v \in Published(index)},
   records  |-> UNION {Records(v, files[v]) : v \in Published(index)}]

(* Fields of a row that the catalog reads without a default.               *)
NeededFields == {"trials", "evaluated", "unavailable", "passed", "failed", "reported",
                 "cost", "categories"}

Readable(release) ==
  \A k \in DOMAIN release.byScenario : NeededFields \subseteq DOMAIN release.byScenario[k]

(* public_catalog validates every release it shows.                        *)
CurrentAccepted(index, files) ==
  /\ ValidRelease(files[index.current])
  /\ \A v \in Published(index) : Readable(files[v])

CatalogAccepts(index, files) ==
  \A v \in Published(index) : ValidRelease(files[v]) /\ Readable(files[v])

-----------------------------------------------------------------------------
(* The coverage matrix.  Companion cohorts do not count.                   *)
Primary(index, files) ==
  UNION {Records(v, files[v]) : v \in Published(index) \ index.companions}

Newest(index, records) ==
  {r \in records : \A q \in records :
     Position(index, q.release) <= Position(index, r.release)}

(* The lanes that coverage is measured for.  A configured lane without a   *)
(* provider stands for each provider that has evidence.                    *)
Expanded(item, primary) ==
  LET providers == {r.provider : r \in {q \in primary : q.model = item.model}} IN
  IF item.provider = None /\ providers # {}
  THEN {[item EXCEPT !.provider = p] : p \in providers}
  ELSE {item}

Fleet(index, primary) ==
  IF index.fleet # {}
  THEN UNION {Expanded(item, primary) : item \in index.fleet}
  ELSE {Lane(r) : r \in {q \in primary : q.release = index.current}}

OfLane(records, lane) == {r \in records : Lane(r) = lane}

(* For each scenario the newest release that has it is the boundary, and a *)
(* cell is covered by a record of that very release.                       *)
CellOf(boundary, lane, primary) ==
  LET found == {r \in OfLane(primary, lane) :
                  /\ r.scenario = boundary.scenario
                  /\ r.version = boundary.version
                  /\ r.release = boundary.release}
  IN  IF found = {} THEN [lane |-> lane, covered |-> FALSE, evaluated |-> 0]
      ELSE [lane |-> lane, covered |-> TRUE,
            evaluated |-> (CHOOSE r \in found : TRUE).row.evaluated]

(* The newest record of each scenario a lane has.                          *)
Profile(index, primary, lane) ==
  LET mine == OfLane(primary, lane) IN
  {r \in mine : r \in Newest(index, {q \in mine : q.scenario = r.scenario})}

(* The tier is the one that the release states.  tier_value also knows the *)
(* tiers of four manifests, for releases older than that field; such a     *)
(* release is not among the ones a behaviour starts from.                  *)
Coverage(index, files) ==
  LET primary == Primary(index, files)
      fleet   == Fleet(index, primary)
      Boundary(s) ==
        CHOOSE r \in Newest(index, {q \in primary : q.scenario = s}) : TRUE
  IN  [fleet     |-> fleet,
       profiles  |-> [lane \in fleet |-> Profile(index, primary, lane)],
       scenarios |-> {LET b == Boundary(s) IN
                      [scenario |-> s, version |-> b.version, release |-> b.release,
                       tier |-> b.tier, contract |-> files[b.release].contract,
                       cells |-> {CellOf(b, lane, primary) : lane \in fleet}] :
                        s \in {r.scenario : r \in primary}}]

(* A lane of the fleet without evidence is refused.                        *)
CoverageAccepts(index, files) ==
  LET primary == Primary(index, files) IN
  \A lane \in Fleet(index, primary) : OfLane(primary, lane) # {}

-----------------------------------------------------------------------------
(* Scores: of selected releases, each against a frozen manifest with the   *)
(* fields id, version, sha, tier, scenarios, attempts, timeout, harness    *)
(* and checks (the verifications it demands).                              *)
RequiredChecks == {"immediate", "service", "reboot", "preserve"}

(* load_benchmark_manifest.                                                *)
ManifestOK(manifest) ==
  /\ manifest.tier \in Tiers \cup {None}
  /\ manifest.attempts > 0 /\ manifest.timeout > 0 /\ manifest.harness > 0
  /\ manifest.scenarios # {}
  /\ \A s, t \in manifest.scenarios : s.id = t.id => s = t
  /\ RequiredChecks \subseteq manifest.checks

Entitled(release, manifest) ==
  /\ manifest.tier \in {"core", "frontier"}
  /\ release.contract.manifest # None
  /\ release.contract.manifest.tier = manifest.tier
  /\ release.contract.manifest.id = manifest.id

ExactContract(release, manifest) ==
  LET c == release.contract IN
  /\ c.manifest.sha = manifest.sha /\ c.manifest.version = manifest.version
  /\ c.attempts = manifest.attempts
  /\ c.timeout = manifest.timeout
  /\ c.harness = manifest.harness

Required(manifest) == {[id |-> s.id, version |-> s.version] : s \in manifest.scenarios}

RowsOf(release, lane) == {k \in DOMAIN release.byScenario : Lane(k) = lane}

Complete(release, manifest, lane) ==
  /\ ExactContract(release, manifest)
  /\ {[id |-> k.scenario, version |-> k.version] : k \in RowsOf(release, lane)}
       = Required(manifest)
  /\ \A k \in RowsOf(release, lane) : release.byScenario[k].trials = manifest.attempts

(* A card per lane of the release; only complete ones are shown.           *)
Card(release, lane) ==
  [release |-> release.version, provider |-> lane.provider, model |-> lane.model,
   cells |-> [k \in RowsOf(release, lane) |->
                [passed |-> release.byScenario[k].passed,
                 trials |-> release.byScenario[k].trials,
                 unavailable |-> release.byScenario[k].unavailable]]]

Lanes(release) == {Lane(k) : k \in DOMAIN release.byScenario}

Cards(release, manifest) ==
  {Card(release, lane) : lane \in {l \in Lanes(release) : Complete(release, manifest, l)}}

(* condition_id: releases run under one manifest, deadline, number of      *)
(* attempts, controller and scenario content are shown side by side; one   *)
(* of unknown provenance stands alone.                                     *)
Condition(release) ==
  LET c == release.contract IN
  [manifest |-> c.manifest, attempts |-> c.attempts, timeout |-> c.timeout,
   harness |-> c.harness, host |-> c.host, scenarios |-> release.scenarios,
   alone |-> IF c.host = None \/ \E s \in release.scenarios : s.sha = None
             THEN release.version ELSE None]

(* observed_scenario_rates over the cards of one condition.                *)
Rates(cards) ==
  LET cells == UNION {{[card |-> c, key |-> k] : k \in DOMAIN c.cells} : c \in cards}
      At(s) == {x \in cells : x.key.scenario = s.id /\ x.key.version = s.version}
      Sum(s, f) == MapThenSumSet(LAMBDA x : x.card.cells[x.key][f], At(s))
  IN  [s \in {[id |-> x.key.scenario, version |-> x.key.version] : x \in cells} |->
         [configurations |-> Cardinality(At(s)), passed |-> Sum(s, "passed"),
          trials |-> Sum(s, "trials"), unavailable |-> Sum(s, "unavailable")]]

(* build_scores: the complete cards by condition, with the rates over them.*)
Scores(files) ==
  LET CardsUnder(k) == UNION {Cards(files[c.release], c.manifest) :
                                c \in {d \in ScoreCohorts : Condition(files[d.release]) = k}}
  IN  [k \in {Condition(files[c.release]) : c \in ScoreCohorts} |->
         [cards |-> CardsUnder(k), rates |-> Rates(CardsUnder(k))]]

ScoresAccept(index, files) ==
  /\ \A c, d \in ScoreCohorts : c.release = d.release => c = d
  /\ \A c \in ScoreCohorts : /\ c.release \in Published(index)
                             /\ ManifestOK(c.manifest)
                             /\ Entitled(files[c.release], c.manifest)

-----------------------------------------------------------------------------
(* The other pages: the current release, and one card for each.            *)
History(index, files) ==
  {[version |-> v, role |-> Role(index, v), totals |-> files[v].totals] :
     v \in Published(index)}

(* build_outputs: everything is read, validated and rendered before the    *)
(* first page is written, in this order.                                   *)
Pages == <<"scores", "catalog", "coverage", "record", "history">>
PageNames == {Pages[i] : i \in DOMAIN Pages}

(* benchmarks.md and the history keep their text around the generated part *)
(* and are refused when the markers are gone.                              *)
Managed == {"record", "history"}

Render(page, index, files) ==
  CASE page = "scores"   -> Scores(files)
    [] page = "catalog"  -> Catalog(index, files)
    [] page = "coverage" -> Coverage(index, files)
    [] page = "record"   -> files[index.current].totals
    [] page = "history"  -> History(index, files)

BuildAccepts(index, files) ==
  /\ index # Torn /\ IndexOK(index)
  /\ \A v \in Published(index) : IsObject(files[v])
  /\ CatalogAccepts(index, files)
  /\ CoverageAccepts(index, files)
  /\ ScoresAccept(index, files)
=============================================================================
