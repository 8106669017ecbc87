SPECIFICATION Spec
CONSTANTS
  Files = {f1, f2}
  MaxEdits = 3
  MaxChunks = 1
  Modes = {"onnx", "parse_only"}
  Incremental = TRUE
  ConcurrentEdits = FALSE
INVARIANTS
  TypeOK
  RecordedMeansParsed
  NoFileLeftOut
  VectorsMatchMetadata
PROPERTIES
  StateNeverRewinds
