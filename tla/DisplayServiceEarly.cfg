CONSTANTS
  c1 = c1
  c2 = c2
  c3 = c3
  Client = {c1, c2, c3}
  Worker = {w1, w2}
  Calls <- ModeClients
  CommandResults <- Succeeds
  NoWorker = NoWorker
  NoClient = NoClient

SPECIFICATION Spec

INVARIANTS
  SuccessIsDone
