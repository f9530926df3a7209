CONSTANTS
  t1 = t1
  t2 = t2
  a = a
  b = b
  x = x
  y = y
  Tabs = {t1}
  Sections = {a, b}
  Words = {x, y}
  None = None
  Edits = 1
  MaxTyping = 2
  MayLock = TRUE
  MayLeave = FALSE
SPECIFICATION FairSpec
INVARIANT SavedIsTruth
 
CHECK_DEADLOCK FALSE
