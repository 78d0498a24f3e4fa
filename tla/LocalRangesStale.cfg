\* The header may branch on a test that was made before the loop.
SPECIFICATION RangesSpec
CONSTANTS
  Half = 8
  Narrow = {1, 2, 4}
  Kinds = {"INT"}
  Inits = {1}
  Steps = {1}
  Bounds = {2}
  Exit = 4
INVARIANTS StaleFits
CHECK_DEADLOCK FALSE
