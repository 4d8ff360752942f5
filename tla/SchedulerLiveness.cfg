SPECIFICATION FairSchedulerSpec
CONSTANTS
  None = None
  t1 = t1
  t2 = t2
  t3 = t3
  w1 = w1
  w2 = w2
  g1 = g1
  g2 = g2
  g3 = g3
  g4 = g4
  Task = {t1, t2}
  Worker = {w1}
  Gpu = {g1, g2}
  Client = {}
  Submissions <- LivenessSubmissions
  Cap <- NoCap
  MaxBackground <- OneBackground
  Node <- OneNode
  FaultKinds = {"ssh", "kill", "lost"}
  MaxFaults = 2
PROPERTIES
  LockIsReleased
  FiledUnlessDisplaced
