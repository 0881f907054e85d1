CONSTANTS
  Thread = {t1, t2}
  Header = {h1, h2, h3}
  Modes <- BothModes
  Options <- AllOptions
  Results <- MayReject
  NoThread = NoThread
  NoHeader = NoHeader

SPECIFICATION Spec

SYMMETRY Symmetry

CHECK_DEADLOCK FALSE

INVARIANTS
  HeldHeadersAlive
