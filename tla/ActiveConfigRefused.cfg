CONSTANTS
  Thread = {t1}
  Requests <- AllIndexes
  SetParamResults <- MayFail
  CommandResults <- Succeeds
  MaxCommands = 2

SPECIFICATION Spec

INVARIANTS
  NoNeedToChange
