\* Two streams, every kind of request, interleaved step by step.
SPECIFICATION Spec
CONSTANTS
  Fields <- MCFields
  Name <- MCName
  Annotation <- MCAnnotation
  Shape <- MCShape
  MessageOf <- MCMessageOf
  Presence <- MCPresence
  Key <- MCKey
  NoType = "none"
  NoMask = NoMask
  ResourceTypes = {"Book"}
  FieldMask = "FieldMask"
  Strings = {"title", "notes", "etag", "phone", "tracking", "book_id", "parent", "name"}
  IdName <- MCIdName
  EmptyId = 0
  MaxDepth = 2
  Stream = {1, 2}
  Requests <- MCRequests
  RuleRequired = {"parent", "book"}
  Uncompilable = {"GetBook"}
  maxBadRequestBytes = 6
  MaxMinted = 3
INVARIANTS
  TypeOK
  NothingOfTheServersArrives
  ChangesNothingElse
  UpdatesWriteWhatWasAsked
  EveryCreateIsIdentified
  RefusesExactlyTheIncomplete
  OmittedMaskWritesNothingUnset
  BadRequestHoldsWhatFits
