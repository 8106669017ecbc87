SPECIFICATION Spec
CONSTANTS
  NCtx = 40
  MaxTokens = 2
  AnswerWords = {"a"}
  StopWords = {}
  MaxContext = 20
  Reserve = 2
  MaxTurns = 0
  MaxMessages = 4
  MaxSaved = 2
  Questions <- ShortAndLong
  SystemPrompts <- OnePrompt
INVARIANTS
  CountWithinPrompt
