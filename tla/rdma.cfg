SPECIFICATION FairSpec
CONSTANTS
  c1 = c1
  c2 = c2
  Clients = {c1}
  HandlerResults <- AnyResult
  Repairs <- RegMr
  MaxRecvWr = 2
  MaxAnswers = 2
INVARIANTS
  TypeOK
  ReceiveReady
  SentConnected
PROPERTIES
  Exchanged
  SpinEnds
CHECK_DEADLOCK FALSE
