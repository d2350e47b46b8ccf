SPECIFICATION Spec
CONSTANTS
  f1 = f1
  f2 = f2
  f3 = f3
  e1 = e1
  e2 = e2
  s1 = s1
  s2 = s2
  c1 = c1
  c2 = c2
  t1 = t1
  t2 = t2
  d1 = d1
  d2 = d2
  Files = {f1, f2, f3}
  NoFile = NoFile
  Sectors = {"Retail", "Decor", "Farming", "Other"}
  Emails = {e1, e2}
  Skus = {s1, s2}
  Customers = {c1, c2}
  Dates = {d1, d2}
  Transactions = {t1, t2}
  Team <- TheTeam
  Contents <- AllContents
  MaxMishaps = 3
INVARIANTS TypeOK LeadsAreTheirHistory FactsAreFirstSales DimensionsHold AlertIsBacked SentOnceButForMishaps
CHECK_DEADLOCK FALSE
