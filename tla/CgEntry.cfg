CONSTANTS
  a1 = a1
  a2 = a2
  Choice = Choice
  Opt = 2
  Addr <- MCAddr
  Nme <- NmeDistinct
  FenceNmeConflicts = TRUE
  IL <- MCIL
  Programs <- MCPrograms
  GenerateFma = FALSE
  EntryNoMerge = TRUE
  Arch = "generic"
  InitVal <- MCInitVal
SPECIFICATION Spec
INVARIANTS
  TmpDefinedBeforeUse
  PrintedBlocksWellFormed
  EntryDispatch
