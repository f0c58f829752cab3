SPECIFICATION Spec
CONSTANTS
  Items = {i1, i2, i3, i4}
  MaxThread = 3
  DefaultThread = 2
  Requests = {0, 1, 17}
  Main = Main
  Nobody = Nobody
  NoItem = NoItem
INVARIANTS TypeOK CompletedOnce NobodyLeftBehind JoinsAreValid QueueOnlyWhenFull AliveIsExact
PROPERTIES DoneReturns KeepsPromise
CHECK_DEADLOCK FALSE
