CONSTANTS
  r1 = r1
  r2 = r2
  r3 = r3
  Req <- MCReq3
  Params <- MCParams
  QueueSize = 1
  SizeLimit = 1
  MaxWaitingTokens = 2
  GrowWarmup = 0
  CancelCheckPeriod = 2
  GenErrors = TRUE
  BackendFails = TRUE
  ErrorMayUndoPrune = FALSE

SPECIFICATION Spec
INVARIANT BackendAgreement
INVARIANT TerminalOnce
SYMMETRY MCSymmetry
