\* Two RPCs that may share a response.  An RPC that is done takes no more steps.
SPECIFICATION FairSpec
CONSTANTS
  DefaultInfo = TRUE
  RequestID = TRUE
  RPC = {1, 2}
  Response = {"batch", "dynamic", "lists"}
  Repeated = {"lists"}
  Initially <- MCInitially
  HandlerErrors <- MCHandlerErrors
  ReadErrors <- MCReadErrors
  MaxSends = 1
CHECK_DEADLOCK FALSE
INVARIANTS
  TypeOK
  ClientSeesNoInternals
  EntriesTellWhatAnAnswerTells
  SendsTheRestAsItWas
  EveryErrorHasOneInfo
  FailedRPCLoggedOnce
  FailedEntriesLogged
  LastDebugInfoIsNotLost
PROPERTIES
  CallsReturn
