SPECIFICATION Spec
CONSTANTS
  IntMax = 7
  ULongMax = 63
  Throws = Throws
  KeySet <- SomeKeys
  ValueSet <- SomeValues
  PrefixSet <- SomePrefixes
  NumShards = 3
  ErrorMessages <- SomeErrors
  NotFound <- NotFoundMessage
  SavedId = SavedId
  MaxOps = 4
  Absent = Absent
INVARIANTS
  TypeOK
  Understood
  WithinPackets
  Truthful
  GetAllExact
  PlainKeysServed
CHECK_DEADLOCK FALSE
