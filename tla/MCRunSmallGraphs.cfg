SPECIFICATION FairSpec
CONSTANTS
  Run = {r1}
  Node = {n1, n2, n3}
  n1 = n1  n2 = n2  n3 = n3  n4 = n4  n5 = n5
  Port = {pa, pb}
  pa = pa  pb = pb
  Branch = {found, missing, other}
  Found = found
  Missing = missing
  Text = {v1}
  Empty = Empty
  Detail = Detail
  NotFound = NotFound
  None = None
  Graphs <- SmallGraphs
  MaxExecutions = 2
  MaxCrashes = 1
INVARIANTS DependencyOrder PrunedNeverRuns SkipJustified FailedRunHasCulprit SucceededIsSettled
PROPERTIES ExecutionEnds
CHECK_DEADLOCK FALSE
