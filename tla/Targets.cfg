CONSTANTS
  Limbs = 3
  LimbBits = 6
  ByteBits = 2
  Mantissa = {0, 1, 5, 16, 21, 31, 32, 63}
  Exponent = {0, 1, 2, 3, 4, 5, 6, 7, 8, 9, 10, 11, 12}
  Whole = {0, 1, 2, 7}
  MaxFraction = 2
  Sample = {0, 1, 31, 63}
SPECIFICATION Spec
INVARIANTS
  TypeOK
  TemplatesAsDefined
  SharesMeetTheDifficulty
CHECK_DEADLOCK FALSE
