CONSTANTS
  d1 = d1
  d2 = d2
  o1 = o1
  o2 = o2
  c1 = c1
  c2 = c2
  free = free
  pro = pro
  Legacy = {d1}
  Captured = {o1}
  Callers = {c1, c2}
  Plans = {free, pro}
  CapOf <- SmallCaps
  Ttl = 1
  Lifetime = 2
  MonthLength = 3
  MaxTime = 3
  MaxAttempt = 2
SYMMETRY Symmetry
SPECIFICATION Spec
INVARIANTS
  TypeOK
  OpenWorkOccupiesSlot
  CapturedSlotFollows
PROPERTIES
  AdmissionWithinPlan
  KeepsLife
CHECK_DEADLOCK FALSE
