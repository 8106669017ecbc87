SPECIFICATION Spec
CONSTANTS
  NCtx = 24
  MaxTokens = 1
  AnswerWords = {"a", "stop"}
  StopWords = {"stop"}
  MaxContext = 0
  Reserve = 2
  MaxTurns = 1
  MaxMessages = 3
  MaxSaved = 1
  Questions <- TwoShort
  SystemPrompts <- OnePrompt
INVARIANTS
  CachedTokensAreInCache
  NothingFromAnotherConversation
  FreshTurnIsExact
  QuestionClosesPrompt
