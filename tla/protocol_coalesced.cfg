SPECIFICATION FairSpec
CONSTANTS
  K = 2
  Sizes <- Triple
  Segmented = FALSE
  MaxPackets = 1
PROPERTIES
  Answered
CHECK_DEADLOCK FALSE
