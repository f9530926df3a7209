CONSTANTS
  w1 = w1
  w2 = w2
  s1 = s1
  s2 = s2
  s3 = s3
  Workers = {w1}
  Stages = {s1, s2, s3}
  DraftStages = {s1}
  SectionOf <- OneSection
  MaxAttempts = 2
  MaxRows = 1
  MaxTokens = 1
  MaxMonth = 1
SPECIFICATION Spec
SYMMETRY AnyRepair
INVARIANTS
  UnknownIsHeld
  FailuresBounded
  OneRepairPerSection
PROPERTY KeepsPromise
CHECK_DEADLOCK FALSE
