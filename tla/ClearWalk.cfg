\* One call of ClearFields on a nested message, every order of its ranges.
SPECIFICATION FairSpec
CONSTANTS
  Fields <- MCFields
  Name <- MCName
  Annotation <- MCAnnotation
  Shape <- MCShape
  MessageOf <- MCMessageOf
  Presence <- MCPresence
  Key <- MCKey
  NoType = "none"
  NoMask = NoMask
  Resource = "Shipment"
  Messages <- MCMessages
  Kinds <- MCKinds
INVARIANTS
  TypeOK
  ClearsExactlyTheKind
  KeepsTheRest
PROPERTIES
  NoMutationDuringRange
  Terminates
\* The walk ends: there is nothing to do once it has returned.
CHECK_DEADLOCK FALSE
