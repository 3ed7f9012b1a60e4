CONSTANTS
  Extranonce = {x1}
  Difficulty = {d1, d2}
  OwnTarget = {t1}
  Whole = Whole
  Garbled = Garbled
  Absent = Absent
  SubmitSlots = 1
  WriterSlots = 2
  MaxLines = 4
  MaxShares = 2
SPECIFICATION Spec
INVARIANTS
  TypeOK
  SharesAsAnnounced
PROPERTIES
  JobsReachTheSlot
  SendsComplete
CHECK_DEADLOCK FALSE
