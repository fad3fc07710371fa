SPECIFICATION SweepSpec
CONSTANTS
  c1 = c1
  h1 = h1
  s1 = s1
  p1 = p1
  p2 = p2
  w1 = w1
  w2 = w2
  Workers = {w1, w2}
  Console = w2
  Sites = {s1}
  Paths = {p1, p2}
  Contents = {c1}
  Hashes = {h1}
  HashOf <- MCHashOf
  Batches = {}
  MaxBatch = 2
  Limit = 1
  NoPage = NoPage
  NoHash = NoHash
  MaxVisits = 2
  MaxWrites = 0
  MaxReindexes = 0
INVARIANTS AllReembedded
CHECK_DEADLOCK FALSE
