CONSTANTS
  c1 = c1
  c2 = c2
  c3 = c3
  Client = {c1, c2, c3}
  Worker = {w1, w2, w3}
  Calls <- AllCalls
  CommandResults <- MayFail
  NoWorker = NoWorker
  NoClient = NoClient

SPECIFICATION FairSpec

INVARIANTS
  TypeOK
  FramesWhenExecuting
  StatusTruthful
  WaitAnswered
  ThreadFree

PROPERTIES
  Starts
  Answered
  OthersAnswered
