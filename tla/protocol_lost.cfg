SPECIFICATION FairSpec
CONSTANTS
  K = 2
  Sizes <- Small
  Segmented = FALSE
  MaxPackets = 1
PROPERTIES
  LossNoticed
CHECK_DEADLOCK FALSE
