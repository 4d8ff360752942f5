SPECIFICATION Spec
CONSTANTS
  None = None
  t1 = t1
  t2 = t2
  t3 = t3
  w1 = w1
  g1 = g1
  Task = {t1, t2, t3}
  Worker = {w1}
  Gpu = {g1}
  Submissions <- MCSubmissions
  Wants <- MCWants
  Created <- MCCreated
  FreeMemory = 1
  FreeUtilization = 1
  Readings <- MCReadings
  Total = 2
  QueueWindow = 2
  MaxAge = 2
  MaxFaults = 1
PROPERTIES
  WaitIsObserved
  
  WaitingTaskStarts
