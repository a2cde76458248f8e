SPECIFICATION FairSpec
CONSTANTS
  Call = {"unary", "stream"}
  Method <- MCMethod
  Setups <- MCSetups
  Ids = {"", "minted", "own", "stale"}
  Messages <- MCMessages
  MaxMessages = 2
  Window = 1
  Breakages = {"deadline_exceeded"}
INVARIANTS
  TypeOK
  ServesWhatWasSentPrepared
  RefusedIsNotServed
  EndsForAReason
  AnswersInFull
PROPERTIES
  EveryCallEnds
  ImplementsCalls
\* Calls end.
CHECK_DEADLOCK FALSE
