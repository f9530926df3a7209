CONSTANTS
  t1 = t1
  t2 = t2
  a = a
  b = b
  x = x
  y = y
  Tabs = {t1, t2}
  Sections = {a, b}
  Words = {x, y}
  None = None
  Edits = 1
  MaxTyping = 2
  MayLock = FALSE
  MayLeave = TRUE
SYMMETRY Symmetry
CONSTRAINT FaultsGoOn
SPECIFICATION Spec
INVARIANTS
  TypeOK
  BaselineIsTrue
  
  NoLostUpdate
  SavedSectionIsTruth
PROPERTY WordingIsKept
CHECK_DEADLOCK FALSE
