SPECIFICATION Spec
CONSTANTS
  MaxTokens = 4
  Cancels = TRUE
INVARIANTS
  NoPieceLost
  OneEnd
  OneMorePiece
PROPERTIES
  StreamEnds
