CONSTANTS
  r1 = r1
  r2 = r2
  r3 = r3
  Req <- MCReq2
  Params <- MCParamsLong
  QueueSize = 1
  SizeLimit = 2
  MaxWaitingTokens = 6
  GrowWarmup = 5
  CancelCheckPeriod = 16
  GenErrors = FALSE
  BackendFails = TRUE
  ErrorMayUndoPrune = FALSE

SPECIFICATION Spec
INVARIANT CancelDetected
