\* Two requests at a time over up to three payment rows; requests fail.
SPECIFICATION Spec
CONSTANTS
  MaxPayments = 3
  Sessions = {s1, s2}
  None = None
  Faulty = TRUE
SYMMETRY SessionSymmetry
INVARIANTS
  TypeOK
  ConfirmedNamesCharge
CHECK_DEADLOCK FALSE
