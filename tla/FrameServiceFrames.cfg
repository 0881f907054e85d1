CONSTANTS
  c1 = c1
  c2 = c2
  Client = {c1, c2}
  Worker = {w1, w2}
  Calls <- FrameCalls
  CommandResults <- MayFail
  NoWorker = NoWorker
  NoClient = NoClient
  Header = {h1, h2}
  Results <- MayFail
  NoHeader = NoHeader

SPECIFICATION FairSpec

INVARIANTS
  TypeOK
  HeldWhenExecuting
  CallerWaits
  NoCircularWait

PROPERTIES
  ServiceSpec
  AnsweredUnlessRaced
