SPECIFICATION Spec
CONSTANTS
  d1 = d1
  d2 = d2
  d3 = d3
  n1 = n1
  n2 = n2
  n3 = n3
  h1 = h1
  h2 = h2
  Deliveries = {d1, d2, d3}
  Names = {n1, n2, n3}
  Hashes = {h1, h2}
  Nothing = Nothing
  Manifests <- SameManifests
  MaxMishaps = 0
INVARIANT NothingIsReplaced
CHECK_DEADLOCK FALSE
