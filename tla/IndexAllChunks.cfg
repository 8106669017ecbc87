SPECIFICATION Spec
CONSTANTS
  Files = {f1, f2}
  MaxEdits = 2
  MaxChunks = 1
  Modes = {"service"}
  Incremental = TRUE
  ConcurrentEdits = FALSE
PROPERTIES
  AllChunksPersisted
