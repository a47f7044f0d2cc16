SPECIFICATION MCSpec
CONSTANTS
  None = None
  question = question  document = document  placeholder = placeholder
  yes = yes  empty = empty
  Prompt = {question, document}
  Long = {document}
  Placeholder = placeholder
  Text = {yes}
  Empty = empty
  Shape <- Shapes
  Chunks = 2
  MaxTurns = 2
  MaxSessions = 2
  MaxEvents = 1
INVARIANTS SameAnswers NothingIsRefused AnswersAreTheRuns FollowsPrevious ExportPairsTrue
