SPECIFICATION Spec
CONSTANTS
  Turn = {t1, t2, t3}
  t1 = t1  t2 = t2  t3 = t3
  yes = yes  no = no
  Answer = {yes, no}
  Empty = no
  MaxParts = 2
  SearchLimit = 3
  MaxFailures = 1
  None = None
SYMMETRY Interchangeable
INVARIANTS PairsAreTrue SummaryIsGrounded SourcesAreUsed TurnsAreWhole
CHECK_DEADLOCK FALSE
