SPECIFICATION Spec
CONSTANTS
  c1 = c1
  c2 = c2
  t_4 = t_4
  t_7 = t_7
  t_big = t_big
  v = v
  Clients = {c1, c2}
  Keys = {t_4, t_7}
  Values = {v}
  NumShards = 2
  IdOf <- Ids
  Prefixes <- Tables
  FdLimits = {3}
  Repairs <- AllRepairs
  MaxOps = 0
  MaxCrashes = 0
  None = None
INVARIANTS
  AcceptsMore
CHECK_DEADLOCK FALSE
