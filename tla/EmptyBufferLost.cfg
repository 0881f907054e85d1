CONSTANTS
  Thread = {t1, t2}
  Header = {h1, h2}
  Modes <- OnlyBlocked
  Options <- NullOption
  Results <- Accepts
  NoThread = NoThread
  NoHeader = NoHeader

SPECIFICATION FairSpec

PROPERTIES
  WaitEnds
