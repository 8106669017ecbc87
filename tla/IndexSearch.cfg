SPECIFICATION SearchSpec
CONSTANTS
  Files = {f1, f2}
  MaxEdits = 2
  MaxChunks = 1
  Modes = {"onnx"}
  Incremental = FALSE
  ConcurrentEdits = TRUE
  Matching <- FirstChunks
  TopK = 1
  MaxAsks = 1
SYMMETRY FileSymmetry
INVARIANTS
  AnswersDescribeTheRun
  SearchResolvesWhatItFinds
  FullRunIndexesProject
