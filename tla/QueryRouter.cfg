SPECIFICATION Spec
CONSTANTS
  p1 = p1
  p2 = p2
  None = None
  Pages = {p1, p2}
  MaxText = 4
  PenaltyNum = 3
  PenaltyDen = 4
  Threshold = 2
  MaxRows = 3
  MinScore <- MCMinScore
  MaxScore = 2
  L1Threshold = 2
  L2Threshold = 1
  L3Confidence = 1
  WeakCap = 0
  RedirectConfidence = 2
  Boosted <- MCBoosted
  Rounded <- MCRounded
  RerankScores <- MCRerankScores
  TopK = 2
INVARIANTS TypeOK  LogAgrees
PROPERTIES AnswersFirstBest
