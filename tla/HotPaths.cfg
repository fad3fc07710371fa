SPECIFICATION FairSpec
CONSTANTS
  a = a
  b = b
  c = c
  q1 = q1
  q2 = q2
  q3 = q3
  l1 = l1
  s1 = s1
  s2 = s2
  p1 = p1
  p2 = p2
  w1 = w1
  w2 = w2
  Workers = {w1, w2}
  Sites = {s1, s2}
  Paths = {p1}
  Queries = {q2, q3}
  Phrases <- MCPhrases
  CoreOf <- MCCoreOf
  Labels = {l1}
  LowerOf <- MCLowerOf
  Similar <- MCSimilar
  AliasLists <- MCAliasLists
  MaxAliases = 2
  PromoteUnique = 2
  MaxHotPaths = 1
  NoCore = NoCore
  NoRow = NoRow
  NoReq = NoReq
  MaxNavs = 2
  MaxLookups = 1
  MaxWrites = 1
INVARIANTS TypeOK RowsVouched LearnedDistinct LearnedCapped NoMissedPromotion AuditExact
PROPERTIES PopularityKept ActsAsRegistry PopularBecomesHot
CHECK_DEADLOCK FALSE
