\* Entries with a list of statuses.
SPECIFICATION Spec
CONSTANTS
  DefaultInfo = TRUE
  RequestID = TRUE
  RPC = {1}
  Response = {"lists"}
  Repeated = {"lists"}
  Initially <- MCInitially
  HandlerErrors <- MCNone
  ReadErrors <- MCNone
  MaxSends = 1
CHECK_DEADLOCK FALSE
INVARIANTS
  SendLogsTheServersEntries
