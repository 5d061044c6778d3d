SPECIFICATION FairSpec
CONSTANTS
  K = 3
  Sizes <- Small
  Segmented = FALSE
  MaxPackets = 3
INVARIANTS
  TypeOK
  WholePackets
  WholeForwards
  ReadRoom
PROPERTIES
  Answered
  LossNoticedDirect
CHECK_DEADLOCK FALSE
