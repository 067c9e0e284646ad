\* A payment processed by two requests at once; nothing fails.
SPECIFICATION FairSpec
CONSTANTS
  MaxPayments = 2
  Sessions = {s1, s2}
  None = None
  Faulty = FALSE
PROPERTY FinalIsTerminal
CHECK_DEADLOCK FALSE
