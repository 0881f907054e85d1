CONSTANTS
  Thread = {t1, t2}
  Requests <- OneOfEachRate
  SetParamResults <- MayFail
  CommandResults <- MayFail
  MaxCommands = 0

SPECIFICATION FairSpec

INVARIANTS
  TypeOK
  ActiveIsOutput
  EnabledAtRest

PROPERTIES
  SwitchSpec
  Reenabled
