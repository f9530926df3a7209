CONSTANTS
  w1 = w1
  w2 = w2
  Workers = {w1, w2}
  None = None
  MaxAttempts = 1
SYMMETRY AnyWorker
SPECIFICATION Spec
INVARIANTS
  TypeOK
  EndIsResolved
PROPERTIES
  NoAdmissionAfterCancel
  EndIsFinal
  KeepsLife
CHECK_DEADLOCK FALSE
