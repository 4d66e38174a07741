CONSTANTS
  u1 = u1
  u6 = u6
  f1 = f1
  f2 = f2
  con = con
  gui = gui
  NoFile = NoFile
  Units <- MCUnits
  Stdout = u6
  Files <- MCFiles
  Kind <- MCKind
  Platforms <- MCPlatforms
  IoError = TRUE
  MaxRecs = 3

SPECIFICATION Spec

INVARIANT DurableAfterFsync

PROPERTIES
  FsyncErrnoAsPosix
