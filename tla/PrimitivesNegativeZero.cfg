\* A float without presence that is -0.0.
SPECIFICATION Spec
CONSTANTS
  Fields <- MCFields
  Name <- MCName
  Annotation <- MCAnnotation
  Shape <- MCShape
  MessageOf <- MCMessageOf
  Presence <- MCPresence
  Key <- MCKey
  NoType = "none"
  NoMask = NoMask
  MaxDepth = 3
  Resource = "Shipment"
  Messages <- MCZeroMessages
  Masks <- MCMasks
  Kinds <- MCKinds
INVARIANT
  ImpliedMaskNamesWhatIsSet
