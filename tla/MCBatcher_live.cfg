CONSTANTS
  r1 = r1
  r2 = r2
  r3 = r3
  Req <- MCReq2
  Params <- MCParams
  QueueSize = 1
  SizeLimit = 2
  MaxWaitingTokens = 2
  GrowWarmup = 0
  CancelCheckPeriod = 2
  GenErrors = FALSE
  BackendFails = TRUE
  ErrorMayUndoPrune = FALSE

SPECIFICATION FairSpec
PROPERTY AllRequestsEnd
