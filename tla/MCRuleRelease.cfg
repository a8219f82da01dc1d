SPECIFICATION Spec
CONSTANTS
  p1 = p1  p2 = p2  a = a  b = b
  Processes = {p1, p2}
  RunIds = {a, b}
  Sources = {1, 2, 3}
  Tables <- MCTables
  Policy = "fail"
  NoRun = NoRun  NoManifest = NoManifest  NoRule = NoRule
  MaxFaults = 1
  Mode = "sample"
  SampleOrders = 3
  MinSupport = 30
  MinConfidence = 30
  SkipAls = FALSE
  TopK = 1
  Blank = 0
  Views <- MCViews
  MinLift = 100
  LowestConfidence = 50
  LowestSupport = 30
INVARIANTS
  RunRecordsAreTrue
  EveryUserGetsTopK
  SnapshotIsOneArtifact
  RulesAreMined
  DecisionFollowsSnapshot
SYMMETRY MCSymmetry
CHECK_DEADLOCK FALSE
