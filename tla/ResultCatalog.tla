--------------------------- MODULE ResultCatalog ----------------------------
(* result_catalog.py: the SQLite index derived from summaries.  An import  *)
(* takes its summaries one after the other, each in a transaction of its   *)
(* own; the digest is taken of the file a second time it is opened, when   *)
(* a resumed matrix may have replaced it.                                  *)
EXTENDS MatrixEvidence

CONSTANTS
  Paths      \* where summaries lie; imported in the order of this sequence

VARIABLES
  summary,   \* path -> the summary there, or None
  db,        \* matrix id -> the rows derived from it
  import     \* the running import: paths to do, the summary that was read

catalogVars == <<db, import>>

NoImport == [todo |-> {}, read |-> None]

CatalogInit == db = << >> /\ import = NoImport

-----------------------------------------------------------------------------
(* matrix_identity: what a matrix is, not what came out of it.             *)
MatrixId(m) == [started |-> m.started, contract |-> m.contract, provider |-> m.provider,
                scenarios |-> m.scenarios, models |-> m.models]

(* trial_status: a run of an older harness states none.                    *)
Status(r) == IF r.status = None THEN "evaluated" ELSE r.status

Importable(m) ==
  /\ \A r \in m.runs : r.reward \in {0, 1} /\ Status(r) \in {"evaluated", "unavailable"}
  /\ \A q, r \in m.runs : q.id = r.id => q = r

(* compatibility_identity: trials that may be compared.                    *)
CompatibilityId(m, r) ==
  [scenario |-> r.scenario, version |-> r.version,
   sha |-> {s.sha : s \in {t \in m.scenarios : t.id = r.scenario}},
   contract |-> m.contract, payload |-> m.payload,
   provider |-> IF r.provider # None THEN r.provider ELSE m.provider]

TrialRow(m, r) ==
  [id |-> r.id, scenario |-> r.scenario, version |-> r.version,
   model |-> r.model, attempt |-> r.attempt,
   provider |-> IF r.provider # None THEN r.provider ELSE m.provider,
   status |-> Status(r), reward |-> r.reward, category |-> r.category,
   cost |-> r.cost, compatibility |-> CompatibilityId(m, r)]

TrialRows(m) == {TrialRow(m, r) : r \in m.runs}

-----------------------------------------------------------------------------
(* The statements of one transaction: the matrix row is replaced, the rows *)
(* under it are deleted and inserted again.                                *)
Known(m) == MatrixId(m) \in DOMAIN db

TrialsCleared(m) ==
  IF Known(m) THEN [db[MatrixId(m)] EXCEPT !.trials = {}]
  ELSE [of |-> m, digest |-> m, trials |-> {}, errors |-> {}]

Cleared(m) ==
  IF Known(m) THEN [db[MatrixId(m)] EXCEPT !.trials = {}, !.errors = {}]
  ELSE [of |-> m, digest |-> m, trials |-> {}, errors |-> {}]

Inserted(m, digest) ==
  [of |-> m, digest |-> digest,
   trials |-> Cleared(m).trials \cup TrialRows(m),
   errors |-> Cleared(m).errors \cup m.errors]

-----------------------------------------------------------------------------
(* summary_paths: what is there is sorted and taken in order.              *)
ImportBegins(paths) ==
  /\ import = NoImport
  /\ LET found == {p \in paths : summary[p] # None} IN
     /\ found # {}
     /\ import' = [todo |-> found, read |-> None]
  /\ UNCHANGED <<summary, db>>

Place(p)  == CHOOSE i \in DOMAIN Paths : Paths[i] = p
InTurn(p) == p \in import.todo /\ \A q \in import.todo : Place(p) <= Place(q)

SummaryRead(p) ==
  /\ InTurn(p) /\ import.read = None
  /\ import' = [import EXCEPT !.read = summary[p]]
  /\ UNCHANGED <<summary, db>>

(* A summary of another suite is counted as skipped.                       *)
SummarySkipped(p) ==
  /\ InTurn(p) /\ import.read # None /\ ~ import.read.supported
  /\ import' = [todo |-> import.todo \ {p}, read |-> None]
  /\ UNCHANGED <<summary, db>>

SummaryCommits(p) ==
  /\ InTurn(p) /\ import.read # None
  /\ import.read.supported /\ Importable(import.read)
  /\ db' = [k \in DOMAIN db \cup {MatrixId(import.read)} |->
              IF k = MatrixId(import.read)
              THEN Inserted(import.read, summary[p])
              ELSE db[k]]
  /\ import' = [todo |-> import.todo \ {p}, read |-> None]
  /\ UNCHANGED summary

(* A malformed run, a locked database or an interrupt: the transaction is  *)
(* rolled back and the summaries after it are not taken.                   *)
ImportStops ==
  /\ import # NoImport
  /\ import' = NoImport
  /\ UNCHANGED <<summary, db>>

CatalogStep ==
  \E p \in import.todo : SummaryRead(p) \/ SummarySkipped(p) \/ SummaryCommits(p)

-----------------------------------------------------------------------------
(* compare: the trials of a scenario under one compatibility, by model.    *)
Rows == UNION {{[matrix |-> k, row |-> t] : t \in db[k].trials} : k \in DOMAIN db}

Cohort(scenario, compatibility) ==
  {x \in Rows : x.row.scenario = scenario /\ x.row.compatibility = compatibility}

Compared(scenario, compatibility) ==
  LET rows == Cohort(scenario, compatibility) IN
  [n \in {x.row.model : x \in rows} |->
     LET of == {x \in rows : x.row.model = n} IN
     [trials    |-> Cardinality(of),
      evaluated |-> Cardinality({x \in of : Evaluated(x.row)}),
      passed    |-> Cardinality({x \in of : Passed(x.row)}),
      costs     |-> Cardinality({x \in of : x.row.cost # None})]]
=============================================================================
