CONSTANTS
  Sources <- MCSources
  Programs <- Chains
  FactPrograms <- MCFactPrograms
  Orders = {TRUE, FALSE}
SPECIFICATION OptSpec
INVARIANT RefusalsAreKnown
INVARIANT SourceReadsHaveEdges
INVARIANT LegalIsSound
INVARIANT DecisionIsExact
INVARIANT DomainsBoundValues
INVARIANT ProjectionsSuffice
PROPERTY Idempotent
CHECK_DEADLOCK FALSE
