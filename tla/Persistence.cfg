SPECIFICATION PersistenceSpec
CHECK_DEADLOCK FALSE
CONSTANTS
  Connections = {c1, c2}
  SessionIds = {s1, s2, s3}
  MaxSaves = 3
  MaxLength = 2
  Processes = {p1, p2}
  Blocks = 2
  MaxDownloads = 3
SYMMETRY Symmetry
PROPERTIES
  SavesAreWhole
  DownloadsAreWhole
