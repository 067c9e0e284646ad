\* Overlapping runs over two files and two trains, any of which may die, and searches.
SPECIFICATION SearchSpec
CONSTANTS
  Runs = {p1, p2, p3}
  Last = 2
  Trains = 2
  Faulty = TRUE
  Searches = {q1, q2}
  TablesIn = 2
INVARIANTS
  SearchTypeOK
  AppliedOnce
  AppliedInOrder
  SeededWhole
  SomebodyFinishes
  SearchesWhole
PROPERTIES
  RunsEnd
  SearchCatchesUp
CHECK_DEADLOCK FALSE
