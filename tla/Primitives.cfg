\* Every message over ten locations and nine masks, calls in any order.
SPECIFICATION Spec
CONSTANTS
  Fields <- MCFields
  Name <- MCName
  Annotation <- MCAnnotation
  Shape <- MCShape
  MessageOf <- MCMessageOf
  Presence <- MCPresence
  Key <- MCKey
  NoType = "none"
  NoMask = NoMask
  MaxDepth = 3
  Resource = "Shipment"
  Messages <- MCMessages
  Masks <- MCMasks
  Kinds <- MCKinds
INVARIANTS
  TypeOK
  ReportsExactlyTheUnset
  ImpliedAfterClearWritesTheClientsFields
  ImpliedMaskNamesWhatIsSet
  NeverBlamedForServerFields
PROPERTY
  FilterTakesOutExactlyTheKind
