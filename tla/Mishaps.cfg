SPECIFICATION Spec
CONSTANTS
  Files = {f1, f2}
  NoFile = NoFile
  h1 = h1
  h2 = h2
  h3 = h3
  Types <- MCTypes
  Rows <- MCRows
  Misregistered = {"orders"}
  Shapes <- MishapShapes
  MaxOutages = 3
  MaxErrors = 1
  MaxCrashes = 1
INVARIANTS TypeOK OneBusy ProcessedIsComplete ThresholdKept NothingToRollBack
PROPERTY ImplementsFileImport
CHECK_DEADLOCK FALSE
