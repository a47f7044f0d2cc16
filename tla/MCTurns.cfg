SPECIFICATION FairSpec
CONSTANTS
  Turn = {t1, t2, t3}
  t1 = t1  t2 = t2  t3 = t3
  Closer = {t2, t3}
  told = told  mute = mute  junk = junk
  Reply <- AnyReply
  Valid <- Sound
  Wording <- Wordings
  MaxAttempts = 2
  MaxCrashes = 1
  None = None
INVARIANTS ActiveGoalIsBacked OutcomeIsTold TurnsAddUp LostOnlyToOverlap
PROPERTY TurnsEnd
CHECK_DEADLOCK FALSE
