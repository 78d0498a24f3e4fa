\* Every graph of five blocks; 12 is no Int.
SPECIFICATION EmittedSpec
CONSTANTS
  Handles = {h1, h2, h3, h4}
  First = h1
  Gen = {g1, g2, g3}
  NoGen = NoGen
  Half = 8
  Narrow = {1, 2, 4}
  Kinds = {"INT", "UINT"}
  Inits = {1, 10}
  Steps = {1, 3}
  Bounds = {0, 3, 12}
  Exit = 4
INVARIANTS ObjectSafe DominatorsExact RangesHold
PROPERTIES UpgradeHonest Reclaimed
CHECK_DEADLOCK FALSE
