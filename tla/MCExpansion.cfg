SPECIFICATION XSpec
CONSTANTS
  Run = {r1, r2}
  Node = {n1, n2, s1, s2, s3}
  n1 = n1  n2 = n2  s1 = s1  s2 = s2  s3 = s3
  Port = {pa}
  pa = pa
  Name = {grow, answer, a, nobody}
  grow = grow  answer = answer  a = a  nobody = nobody
  Branch = {found, missing}
  Found = found
  Missing = missing
  Text = {v1}
  Empty = Empty
  Detail = Detail
  NotFound = NotFound
  None = None
  Graphs <- GrowingGraphs
  NameOf <- Names
  Request <- Forward
  MaxExecutions = 1
  MaxCrashes = 1
INVARIANTS ExpandedIsComplete GrownRunIsSettled GraphClosedAtRest
PROPERTIES OutcomeIsFinal StartsInOrder
SYMMETRY Interchange
CHECK_DEADLOCK FALSE
