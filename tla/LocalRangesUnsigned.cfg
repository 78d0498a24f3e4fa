\* A UInt is tested against a bound that is no Int.
SPECIFICATION RangesSpec
CONSTANTS
  Half = 8
  Narrow = {1, 2, 4}
  Kinds = {"UINT"}
  Inits = {1}
  Steps = {1}
  Bounds = {12}
  Exit = 3
INVARIANTS UnsignedFits
CHECK_DEADLOCK FALSE
