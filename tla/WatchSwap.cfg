CONSTANTS
  w1 = w1
  w2 = w2
  r1 = r1
  r2 = r2
  r3 = r3
  Free = Free
  Writer = {w1, w2}
  Reader = {r1, r2, r3}
  Root = r1
  MaxSwaps = 2
SPECIFICATION Spec
INVARIANTS
  TypeOK
  NoLostWakeup
PROPERTIES
  ImplementsCell
CHECK_DEADLOCK FALSE
