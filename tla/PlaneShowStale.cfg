CONSTANTS
  Thread = {t1, t2, t3}
  Results <- Succeeds
  NoThread = NoThread

SPECIFICATION Spec

SYMMETRY Symmetry

INVARIANTS
  MuteOffAfterFrame
