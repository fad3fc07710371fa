SPECIFICATION FairSpec
CONSTANTS
  i1 = i1
  i2 = i2
  i3 = i3
  c1 = c1
  Starts = {i1, i2, i3}
  Clients = {c1}
INVARIANTS TypeOK OneAltersAtATime SomeStartSurvives
PROPERTIES StartsEnd
CHECK_DEADLOCK FALSE
