\* A handler that may wrap the error of a Receive.
SPECIFICATION Spec
CONSTANTS
  DefaultInfo = TRUE
  RequestID = TRUE
  RPC = {1}
  Response = {"plain"}
  Repeated = {}
  Initially <- MCInitially
  HandlerErrors <- MCNone
  ReadErrors <- MCReadErrors
  MaxSends = 1
CHECK_DEADLOCK FALSE
INVARIANTS
  TheLogKeepsTheParsersError
