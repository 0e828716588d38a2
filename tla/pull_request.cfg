CONSTANTS
  Names = {"x", "y"}
  Texts = {"s", "t"}
  Requests = {r1, r2}
  Heads = {b1}
  Locals <- MCLocals
  Trees <- MCTrees
  None = None
  NoManifest = NoManifest
  NoBranch = NoBranch
  NoPull = NoPull
  Attempts = 2
  PullBound = 2
  MoveBound = 1
SPECIFICATION FairSpec
INVARIANTS TypeOK BranchesWhole
PROPERTIES OwnBranchOnly ReportIsTrue Finishes
CHECK_DEADLOCK FALSE
