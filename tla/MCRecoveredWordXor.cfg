CONSTANTS
  Sources = {}
  Programs <- WordParity
  FactPrograms = {}
  Orders = {TRUE}
SPECIFICATION OptSpec
INVARIANT VerifierAccepts
CHECK_DEADLOCK FALSE
