SPECIFICATION FairSpec
CONSTANTS
  Files = {f1, f2}
  NoFile = NoFile
  h1 = h1
  h2 = h2
  h3 = h3
  Types <- MCTypes
  Rows <- MCRows
  Misregistered = {"orders"}
  Shapes <- CompletableShapes
  MaxOutages = 0
  MaxErrors = 2
  MaxCrashes = 1
INVARIANTS FailedLeavesNothing SettledIsLocated CountsAddUp
PROPERTIES SettledForGood EveryFileSettles
CHECK_DEADLOCK FALSE
