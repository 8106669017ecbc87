SPECIFICATION Spec
CHECK_DEADLOCK FALSE
INVARIANTS
  CodeOfQuestionIsInPrompt
  CommandsAgree
  SettingsAreKept
  AgentEnds
  ToolsAnswerTruly
  CodeIsIndexed
  MetadataIsReadRight
  RecommendationsFit
  TextIsWhole
  ModesAnswerAlike
