SPECIFICATION Spec
CONSTANTS
  i1 = i1
  i2 = i2
  s1 = s1
  s2 = s2
  o1 = o1
  o2 = o2
  f1 = f1
  t1 = t1
  t2 = t2
  k1 = k1
  k2 = k2
  v0 = v0
  v1 = v1
  bad = bad
  Instances = {i1, i2}
  Sites = {s1, s2}
  Olds = {o1, o2}
  Forms = {f1}
  FormOf <- MCFormOf
  Targets = {t1, t2}
  Scopes <- MCScopes
  Keys <- MCKeys
  PerSite = {k1}
  Values = {v0, v1, bad}
  Bounded = {v0, v1}
  Default <- MCDefault
  NoPath = NoPath
  Unset = Unset
  Global = Global
  MaxWrites = 2
  MaxStops = 1
SYMMETRY Symmetry
INVARIANTS TypeOK StaleOnlyIfBehind WriterSeesItsWrite RestartKeepsConfig SettingsInBounds
CHECK_DEADLOCK FALSE
