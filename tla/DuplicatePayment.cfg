\* Two initiations that overlap; nothing fails.
SPECIFICATION Spec
CONSTANTS
  MaxPayments = 2
  Sessions = {s1, s2}
  None = None
  Faulty = FALSE
INVARIANT OnePendingPayment
CHECK_DEADLOCK FALSE
