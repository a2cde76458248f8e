\* What becomes of the DebugInfos of entries with several.
SPECIFICATION Spec
CONSTANTS
  DefaultInfo = TRUE
  RequestID = TRUE
  RPC = {1}
  Response = {"batch"}
  Repeated = {}
  Initially <- MCDebugInfos
  HandlerErrors <- MCNone
  ReadErrors <- MCNone
  MaxSends = 1
CHECK_DEADLOCK FALSE
INVARIANTS
  EveryDebugInfoIsForTheLogAlone
