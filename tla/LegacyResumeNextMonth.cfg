CONSTANTS
  w1 = w1
  w2 = w2
  s1 = s1
  s2 = s2
  s3 = s3
  Workers = {w1}
  Stages = {s1}
  DraftStages = {s1}
  SectionOf <- OwnSection
  MaxAttempts = 2
  MaxRows = 2
  MaxTokens = 3
  MaxMonth = 1
SPECIFICATION FairSpec
PROPERTY PreparedIsResumed
CHECK_DEADLOCK FALSE
