CONSTANTS
  a1 = a1
  a2 = a2
  Opt = 2
  Addr <- MCAddr
  Nme <- NmeDistinct
  FenceNmeConflicts = TRUE
  IL <- MCILScope
  Programs <- MCRoutines
  GenerateFma = FALSE
  Choice = Choice
  EntryNoMerge = TRUE
  Arch = "generic"
  InitVal <- MCInitVal
SPECIFICATION Spec
INVARIANTS
  AtomicsPrintedAsProgram
