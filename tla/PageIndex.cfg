SPECIFICATION FairSpec
CONSTANTS
  c1 = c1
  c2 = c2
  h1 = h1
  h2 = h2
  s1 = s1
  s2 = s2
  p1 = p1
  p2 = p2
  w1 = w1
  w2 = w2
  Workers = {w1, w2}
  Sites = {s1, s2}
  Paths = {p1}
  Contents = {c1, c2}
  Hashes = {h1, h2}
  HashOf <- MCHashOf
  Batches <- MCBatches
  MaxBatch = 2
  Limit = 2
  NoPage = NoPage
  NoHash = NoHash
  MaxVisits = 3
  MaxWrites = 1
  MaxReindexes = 1
INVARIANTS TypeOK ContentVouched ShowsLastReport
PROPERTIES ReportedIsIndexed
CHECK_DEADLOCK FALSE
