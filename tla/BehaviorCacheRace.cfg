\* Two goroutines that miss on one descriptor at the same time.
SPECIFICATION Spec
CONSTANTS
  g1 = g1
  g2 = g2
  g3 = g3
  stops = stops
  future = future
  Goroutine = {g1, g2}
  Descriptor <- MCDescriptor
  Kinds <- MCKinds
  NoDescriptor = NoDescriptor
  NoSet = NoSet
INVARIANT
  DecodedOncePerDescriptor
