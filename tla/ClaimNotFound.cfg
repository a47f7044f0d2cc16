SPECIFICATION Spec
CONSTANTS
  Run = {r1, r2}
  Node = {n1, n2, n3, n4}
  n1 = n1  n2 = n2  n3 = n3  n4 = n4  n5 = n5
  Port = {pa, pb}
  pa = pa  pb = pb
  Branch = {found, missing, other}
  Found = found
  Missing = missing
  Text = {v1}
  Empty = Empty
  Detail = Detail
  NotFound = NotFound
  None = None
  Graphs <- ToolGraphs
  MaxExecutions = 1
  MaxCrashes = 0
INVARIANT NoModelBelowNotFound

CHECK_DEADLOCK FALSE
