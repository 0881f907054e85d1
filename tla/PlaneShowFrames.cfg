CONSTANTS
  Thread = {t1, t2, t3}
  Results <- MayFail
  NoThread = NoThread

SPECIFICATION Spec

INVARIANTS
  TypeOK
  ShownIsVisible

PROPERTIES
  BootMuteRetried
  MuteOffUnlessRaced
