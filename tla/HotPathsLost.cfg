SPECIFICATION Spec
CONSTANTS
  a = a
  b = b
  c = c
  q1 = q1
  q2 = q2
  q3 = q3
  l1 = l1
  s1 = s1
  s2 = s2
  p1 = p1
  p2 = p2
  w1 = w1
  w2 = w2
  Workers = {w1, w2}
  Sites = {s1}
  Paths = {p1}
  Queries = {q1, q2, q3}
  Phrases <- MCPhrases
  CoreOf <- MCCoreOf
  Labels = {l1}
  LowerOf <- MCLowerOf
  Similar <- MCSimilar
  AliasLists <- MCAliasLists
  MaxAliases = 2
  PromoteUnique = 2
  MaxHotPaths = 1
  NoCore = NoCore
  NoRow = NoRow
  NoReq = NoReq
  MaxNavs = 3
  MaxLookups = 0
  MaxWrites = 0
PROPERTIES OnlyOldestEvicted
CHECK_DEADLOCK FALSE
