CONSTANTS
  Width = 6
  ByteBits = 2
  DigitBits = 1
  SizeBits = 3
  BatchSize = 3
  MaxDigits = 4
  MaxSize = 9
SPECIFICATION Spec
INVARIANTS
  TypeOK
  NoncesAsAssigned
  SweepsOnce
CHECK_DEADLOCK FALSE
