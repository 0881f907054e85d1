CONSTANTS
  Thread = {t1, t2, t3}
  Header = {h1, h2}
  Modes <- OnlyBlocked
  Options <- AllOptions
  Results <- MayReject
  NoThread = NoThread
  NoHeader = NoHeader

SPECIFICATION FairSpec

INVARIANTS
  TypeOK
  ReturnsAfterHandBack
  WalkUndisturbed
  NoStaleCompletion
  NothingLeaks

PROPERTIES
  HandoverSpec
  UsedDrained
  NotForgotten
  ReturnsUnlessRaced
