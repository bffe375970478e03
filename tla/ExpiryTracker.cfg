SPECIFICATION Spec
CONSTANTS
  Assets <- MCAssets
  Origins <- MCOrigins
  SharesEvidence <- MCSharesEvidence
  Home <- MCHome
  Dates <- MCDates
  Day <- MCDay
  Observed <- MCObserved
  Sessions <- MCSessions
  LastDay <- MCLastDay
  Scopes <- MCScopes
INVARIANTS
  LastWordHolds
  UnknownIsAsked
  DueIsReminded
