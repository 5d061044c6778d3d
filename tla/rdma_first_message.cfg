SPECIFICATION Spec
CONSTANTS
  c1 = c1
  c2 = c2
  Clients = {c1, c2}
  HandlerResults <- AnswersOnly
  Repairs <- RegMr
  MaxRecvWr = 2
  MaxAnswers = 1
INVARIANTS
  FirstMessageIsMr
CHECK_DEADLOCK FALSE
