CONSTANTS
  Marks = {2, 3}
  Slips = {1}
  Quantities = {1, 2}
  InitialCash = 12
  MaxFills = 4
  MaxRecords = 5
  MaxMarkTime = 3
SPECIFICATION PerformanceSpec
CHECK_DEADLOCK FALSE
INVARIANTS
  DecompositionCloses
