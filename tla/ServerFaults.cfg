\* Two processes, both signals, crashes and failing attempts, around one job.
SPECIFICATION FairSpec
CONSTANTS
  Servers = {s1, s2}
  Signals = {SIGTERM, SIGINT}
  Requests = {r1}
  Attempts = 2
  MaxStalls = 1
  MaxEnds = 3
  Faulty = TRUE
INVARIANTS
  TypeOK
  JobsFinish
  NothingVanishes
  BuriedBounded
PROPERTIES
  JobsSpec
  JobsSettle
  ShutdownEnds
CHECK_DEADLOCK FALSE
