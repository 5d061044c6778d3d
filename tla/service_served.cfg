SPECIFICATION FairSpec
CONSTANTS
  c1 = c1
  c2 = c2
  t_4 = t_4
  t_7 = t_7
  t_big = t_big
  v = v
  Clients = {c1, c2}
  Keys = {t_4, t_big}
  Values = {v}
  NumShards = 2
  IdOf <- IdsOneNegative
  Prefixes <- TableOneNegative
  FdLimits = {3, 6}
  Repairs <- AllRepairs
  MaxOps = 2
  MaxCrashes = 0
  None = None
INVARIANTS
  TypeOK
PROPERTIES
  Served
CHECK_DEADLOCK FALSE
