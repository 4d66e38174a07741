CONSTANTS
  a1 = a1
  a2 = a2
  Opt = 2
  Addr <- MCAddr
  Nme <- NmeShared
  FenceNmeConflicts = TRUE
  IL <- MCIL
  Programs <- MCPrograms
  GenerateFma = FALSE
  Choice = Choice
  EntryNoMerge = TRUE
  Arch = "generic"
  InitVal <- MCInitVal
SPECIFICATION Spec
INVARIANT
  StoreKeptForLoad
