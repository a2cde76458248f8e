\* Three goroutines, two descriptors, any number of calls.
SPECIFICATION FairSpec
CONSTANTS
  g1 = g1
  g2 = g2
  g3 = g3
  stops = stops
  future = future
  Goroutine = {g1, g2, g3}
  Descriptor <- MCDescriptor
  Kinds <- MCKinds
  NoDescriptor = NoDescriptor
  NoSet = NoSet
INVARIANTS
  TypeOK
  CacheCoherent
PROPERTIES
  DecodesOnceEach
  StoredSetNeverChanges
  ImplementsLookup
