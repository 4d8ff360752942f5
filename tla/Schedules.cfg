SPECIFICATION Spec
CONSTANTS
  None = None
  t1 = t1
  t2 = t2
  w1 = w1
  g1 = g1
  Task = {t1, t2}
  Worker = {w1}
  Gpu = {g1}
  Zone = {"utc", "ahead"}
  Offset <- MCOffset
  Plans = {"both", "local"}
  PlanOf <- MCPlanOf
  Asked <- MCAsked
  FirstMinute <- MCFirst
  LastMinute <- MCLast
  Submissions <- MCSubmissions
  FaultKinds = {"ssh", "kill", "crash"}
  MaxFaults = 1
  MaxCalls = 2
INVARIANTS
  DueIsClaimed
  NeverBothInOneMinute
PROPERTIES
  OncePerMinute
  SchedulesKeepFinalRows
  ScheduledStopLeavesNoSession
  StopTakesEffect
