SPECIFICATION MCSpec
CONSTANTS
  None = None
  Torn = Torn
  Namespace <- MCNamespace
  Effort <- MCEffort
  FirstPort = 22600
  ScoreCohorts <- MCScoreCohorts
  Versions <- MCVersions
  Annotations <- MCAnnotations
  Origin <- MCOrigin
  Paths <- MCPaths
  Measurements <- MCMeasurements
  Selections <- MCSelections
  Manifest <- MCManifest
  MaxWrites = 2
  MaxImports = 2
  MaxCommands = 2
  MaxBegun = 3
  MaxFaults = 1
INVARIANTS
  RowsOfOneSummary
  PublishedIsMeasured
  IndexNamesFiles
  AcceptedIsReviewed
  PlanIsExact
PROPERTIES
  MergedIsWhatItSays
CHECK_DEADLOCK FALSE
