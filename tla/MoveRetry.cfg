SPECIFICATION Spec
CONSTANTS
  Files = {f1, f2}
  NoFile = NoFile
  h1 = h1
  h2 = h2
  h3 = h3
  Types <- MCTypes
  Rows <- MCRows
  Misregistered = {"orders"}
  Shapes <- DriftShapes
  MaxOutages = 1
  MaxErrors = 0
  MaxCrashes = 0
INVARIANT DriftIsMarked
CHECK_DEADLOCK FALSE
