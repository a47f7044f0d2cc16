SPECIFICATION Spec
CONSTANTS
  Texts <- ShortTexts
  Target = 4
  Overlap = 2
  MinScore = 1
  SummaryReserve = 3
  BatchSize = 2
  Budgets = {5, 8}
  SummaryTokens = {2, 4}
  Scores <- Found
  MaxAsked = 2
INVARIANTS NoSentenceLost ChunksFit CountsAreTrue BudgetIsWellSpent
CHECK_DEADLOCK FALSE
