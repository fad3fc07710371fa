SPECIFICATION Spec
CONSTANTS
  q1 = q1
  q2 = q2
  p1 = p1
  p2 = p2
  None = None
  NoScore = NoScore
  Empty = Empty
  Short = Short
  Queries = {q1, q2}
  Paths = {p1}
  Safe = {p1}
  Scores = {60, 95}
  AutoThreshold = 85
  LearnThreshold = 90
  MaxRecent = 2
  FailThreshold = 3
  MaxMoves = 4
INVARIANTS LearnedWasAnswered
CHECK_DEADLOCK FALSE
