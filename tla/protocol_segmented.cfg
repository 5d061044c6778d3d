SPECIFICATION Spec
CONSTANTS
  K = 3
  Sizes <- Small
  Segmented = TRUE
  MaxPackets = 2
INVARIANTS
  WholePackets
CHECK_DEADLOCK FALSE
