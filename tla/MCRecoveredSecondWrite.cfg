CONSTANTS
  Sources = {}
  Programs <- ClearedFirst
  FactPrograms = {}
  Orders = {TRUE}
SPECIFICATION OptSpec
INVARIANT DomainsBoundValues
CHECK_DEADLOCK FALSE
