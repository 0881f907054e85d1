CONSTANTS
  Thread = {t1, t2}
  Requests <- AllIndexes
  SetParamResults <- Succeeds
  CommandResults <- Succeeds
  MaxCommands = 2

SPECIFICATION Spec

INVARIANTS
  KnownDefinition
