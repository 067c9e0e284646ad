\* One process and one signal; nothing crashes or fails.
SPECIFICATION Spec
CONSTANTS
  Servers = {s1}
  Signals = {SIGTERM}
  Requests = {r1}
  Attempts = 2
  MaxStalls = 1
  MaxEnds = 1
  Faulty = FALSE
INVARIANTS
  RequestsFinish
CHECK_DEADLOCK FALSE
