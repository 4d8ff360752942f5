SPECIFICATION StoreSpec
CONSTANTS
  None = None
  Task = {t1, t2}
  Worker = {w1}
  Gpu = {g1, g2}
  Submissions <- MCSubmissions
INVARIANTS
  RowsTyped
  PlacementMatchesStatus
  ResultMatchesStatus
  BackgroundIsPreemptible
PROPERTIES
  FinalRowsStay
  OptionsFrozenOnceDispatched
