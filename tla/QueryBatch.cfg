SPECIFICATION FairSpec
CONSTANTS
  a = a
  aPadded = aPadded
  b = b
  c = c
  w1 = w1
  w2 = w2
  d = d
  None = None
  Threads = {w1, w2}
  Batches <- MCBatches
  Key <- MCKey
  TooLong = {aPadded}
  MaxConn = 2
  Reads = 2
INVARIANTS TypeOK AnswersInPlace PoolSuffices OneRebuildPerTTL BatchNeverStuck
PROPERTIES AnswersInOnePiece BatchAnswered
