SPECIFICATION InteractiveSpec
CONSTANTS
  NCtx = 12
  MaxTokens = 1
  AnswerWords = {"a"}
  StopWords = {}
  MaxContext = 24
  Reserve = 2
  MaxTurns = 0
  MaxMessages = 6
  MaxSaved = 2
  Questions <- ThreeLengths
  SystemPrompts <- OnePrompt
INVARIANTS
  SourcesOfLastAnswer
  AnswersFollowQuestions
PROPERTIES
  TrimmedExactly
