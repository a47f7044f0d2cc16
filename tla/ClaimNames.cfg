SPECIFICATION Spec
CONSTANTS
  Turn = {t1}
  t1 = t1
  Closer = {}
  Reply <- AnyProposal
  Valid <- Acceptable
  Wording = {}
  MaxAttempts = 1
  MaxCrashes = 0
  None = None
  RootPrompt = "root_prompt"
  Answer = "final"
  Unparsed = Unparsed
INVARIANT EveryInputIsFed
CHECK_DEADLOCK FALSE
