SPECIFICATION MCSpec
CONSTANTS
  None = None
  question = question  document = document  placeholder = placeholder
  yes = yes  empty = empty
  Prompt = {question}
  Long = {}
  Placeholder = placeholder
  Text = {yes}
  Empty = empty
  Shape <- ReusingShapes
  Chunks = 2
  MaxTurns = 2
  MaxSessions = 1
  MaxEvents = 0
INVARIANT AnswerIsReturned
