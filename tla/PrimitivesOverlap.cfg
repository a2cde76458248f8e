\* A mask that names a message field and a path beneath it.
SPECIFICATION Spec
CONSTANTS
  Fields <- MCFields
  Name <- MCName
  Annotation <- MCAnnotation
  Shape <- MCShape
  MessageOf <- MCMessageOf
  Presence <- MCPresence
  Key <- MCKey
  NoType = "none"
  NoMask = NoMask
  MaxDepth = 3
  Resource = "Shipment"
  Messages <- MCMessages
  Masks <- MCMasks
  Kinds <- MCKinds
INVARIANT
  NestedPathChecksItsField
