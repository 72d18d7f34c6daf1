CONSTANTS
  WordBits = 8
  MaskWords = 1
  SegMax = 8
SPECIFICATION Spec
INVARIANTS
  MaskIsHeld
