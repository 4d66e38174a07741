CONSTANTS
  a1 = a1
  a2 = a2
  a3 = a3
  a4 = a4
  Opt = 2
  GenerateFma = TRUE
  Choice = Choice
  EntryNoMerge = TRUE
  FenceNmeConflicts = TRUE
SPECIFICATION Spec
INVARIANTS
  TmpDefinedBeforeUse
  FmaPreservesValue
  FmaOnlySoleMul
