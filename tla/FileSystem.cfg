SPECIFICATION Spec
CONSTANTS
  a = a
  b = b
  Handles = {h1, h2}
  NoLog = none
  Paths = {file, log}
  LogPath = log
  Bytes <- MCBytes
  Chunks <- MCChunks
  Junk = junk
  Shared = shared
  Block = 2
  MaxSize = 3
INVARIANTS
  TypeOK
  FileExact
  DiskExact
  OverflowOnlyWithoutFile
CHECK_DEADLOCK FALSE
SYMMETRY HandleSymmetry
