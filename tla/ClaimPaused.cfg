SPECIFICATION SchedulerSpec
CONSTANTS
  None = None
  t1 = t1
  t2 = t2
  t3 = t3
  w1 = w1
  w2 = w2
  g1 = g1
  g2 = g2
  g3 = g3
  g4 = g4
  Task = {t1}
  Worker = {w1}
  Gpu = {g1}
  Client = {c1}
  Submissions <- RaceSubmissions
  Cap <- NoCap
  MaxBackground <- OneBackground
  Node <- OneNode
  FaultKinds = {}
  MaxFaults = 0
INVARIANT
  PausedTaskRunsNowhere
