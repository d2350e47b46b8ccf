SPECIFICATION FairSpec
CONSTANTS
  f1 = f1
  f2 = f2
  f3 = f3
  n1 = n1
  n2 = n2
  Files = {f1, f2, f3}
  Nothing = Nothing
  Names = {n1, n2}
  Manifests <- AllManifests
  MaxInterruptions = 2
CHECK_DEADLOCK FALSE
INVARIANTS TypeOK NothingIsLost ZippedOnceButForMishaps
PROPERTY OldFilesGoCold
