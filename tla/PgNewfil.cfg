CONSTANTS
  p1 = p1
  p2 = p2
  t1 = t1
  Builds <- MCBuilds
  TempNames <- MCTempNames
  IntBits = 1
  None = None
  Procs <- MCProcs
  Pid <- MCPid
  AddrBits <- MCAddrBits
  Seeds <- MCSeeds
  LongBits = 6
  MaxCalls = 2
  MaxForeign = 1

SPECIFICATION Spec

\* Each process stops after its calls.
CHECK_DEADLOCK FALSE

INVARIANT MakeNewFileExclusive

PROPERTY CallReturns
