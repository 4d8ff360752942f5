SPECIFICATION Spec
CONSTANTS
  None = None
  t1 = t1
  t2 = t2
  w1 = w1
  g1 = g1
  g2 = g2
  Task = {t1, t2}
  Worker = {w1}
  Gpu = {g1, g2}
  Submissions <- MCSubmissions
  FaultKinds = {"ssh", "kill", "lost", "crash"}
  MaxFaults = 2
  MaxAttempts <- MCAttempts
  MaxCalls = 1
  Awaited = {t2}
INVARIANTS
  ResultsAreAnnounced
  OneResultPerAttempt
  WaitSucceedsTruly
PROPERTIES
  NoNewsOfRunningTask
  OutagesAlternate
