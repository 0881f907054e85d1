CONSTANTS
  Programs <- BothPrograms
  Faulty <- AnyStep
  NoPort = NoPort

SPECIFICATION FairSpec

INVARIANTS
  TypeOK
  PublishedUsable
  FaultsTraced
  CropTruthful
  FrameBacked
  BootFrameShown

PROPERTIES
  StartsUp

CHECK_DEADLOCK FALSE
