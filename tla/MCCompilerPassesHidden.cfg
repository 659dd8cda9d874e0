CONSTANTS
  Sources <- HiddenScan
  Programs = {}
  FactPrograms = {}
  Orders = {TRUE}
SPECIFICATION OptSpec
INVARIANT LegalIsSound
CHECK_DEADLOCK FALSE
