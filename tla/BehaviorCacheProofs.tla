-------------------------- MODULE BehaviorCacheProofs --------------------------
(***************************************************************************)
(* Proofs about BehaviorCache for any set of goroutines and descriptors    *)
(* and any annotations.                                                    *)
(***************************************************************************)
EXTENDS BehaviorCache, TLAPS

\* What each goroutine knows of the annotation it is decoding: what it has
\* decoded and what it has still to decode make up the whole.
Decoding ==
  \A g \in Goroutine :
    /\ pc[g] = "idle" <=> field[g] = NoDescriptor
    /\ pc[g] \in {"idle", "load"} => set[g] = {}
    /\ pc[g] = "decode" => set[g] \cup Lookup!Bits(kinds[g]) = Decoded(field[g])
    /\ pc[g] = "store" => set[g] = Decoded(field[g])

\* A goroutine that has decoded a descriptor is still at it, or has stored it.
DecodersStore ==
  \A f \in Descriptor : \A g \in decoders[f] :
    \/ fieldBehaviorSets[f] # NoSet
    \/ pc[g] \in {"decode", "store"} /\ field[g] = f

IInv == TypeOK /\ CacheCoherent /\ Decoding /\ DecodersStore

----------------------------------------------------------------------------
\* fieldBehaviorBit and Bits stay within the width of a FieldBehaviorSet.
LEMMA BitsType ==
  /\ \A kind : fieldBehaviorBit(kind) \in Lookup!FieldBehaviorSet
  /\ \A s : Lookup!Bits(s) \in Lookup!FieldBehaviorSet
<1>1. \A kind : fieldBehaviorBit(kind) \in Lookup!FieldBehaviorSet
  BY DEF fieldBehaviorBit, Lookup!FieldBehaviorSet
<1>2. \A s : Lookup!Bits(s) \in Lookup!FieldBehaviorSet
  BY DEF Lookup!Bits, Lookup!FieldBehaviorSet
<1> QED
  BY <1>1, <1>2

\* The loop over the annotation's kinds: the bits of a list are those of its
\* head and those of the rest.
LEMMA BitsOfTail ==
  ASSUME NEW s \in Seq(Int), s # <<>>
  PROVE  Lookup!Bits(s) = fieldBehaviorBit(Head(s)) \cup Lookup!Bits(Tail(s))
<1>1. \A i : i \in DOMAIN s <=> i = 1 \/ \E j \in DOMAIN Tail(s) : i = j + 1
  <2>1. Len(s) \in Nat /\ Len(s) > 0 /\ DOMAIN s = 1 .. Len(s) /\ DOMAIN Tail(s) = 1 .. Len(s) - 1
    OBVIOUS
  <2>2. \A i : i \in 1 .. Len(s) => i = 1 \/ (i - 1 \in 1 .. Len(s) - 1 /\ i = (i - 1) + 1)
    BY <2>1
  <2>3. \A j \in 1 .. Len(s) - 1 : j + 1 \in 1 .. Len(s)
    BY <2>1
  <2> QED
    BY <2>1, <2>2, <2>3
<1>2. Head(s) = s[1] /\ \A j \in DOMAIN Tail(s) : Tail(s)[j] = s[j + 1]
  OBVIOUS
<1>3. \A kind : kind \in Lookup!Bits(s) <=>
                  kind \in fieldBehaviorBit(Head(s)) \cup Lookup!Bits(Tail(s))
  BY <1>1, <1>2 DEF Lookup!Bits, fieldBehaviorBit
<1> QED
  BY <1>3

\* With no kind left to decode there is no bit left to add.
LEMMA BitsOfNone == \A S : S \cup Lookup!Bits(<<>>) = S
<1>1. Lookup!Bits(<<>>) = {}
  BY DEF Lookup!Bits
<1> QED
  BY <1>1

LEMMA Assumption ==
  /\ NoDescriptor \notin Descriptor
  /\ \A f \in Descriptor : Kinds[f] \in Seq(Int)
  /\ \A s \in Lookup!FieldBehaviorSet : s # NoSet
  BY CacheAssumption DEF CacheAssumption, Lookup!LookupAssumption

----------------------------------------------------------------------------
LEMMA InitIInv == Init => IInv
  BY Assumption DEF Init, IInv, TypeOK, CacheCoherent, Decoding, DecodersStore, Lookup!FieldBehaviorSet

\* A goroutine that has nothing left to decode has the whole set.
LEMMA DecodedAll ==
  ASSUME Decoding, NEW g \in Goroutine, pc[g] = "decode", kinds[g] = <<>>
  PROVE  set[g] = Decoded(field[g])
<1>1. set[g] \cup Lookup!Bits(kinds[g]) = Decoded(field[g])
  BY DEF Decoding
<1>2. set[g] \cup Lookup!Bits(kinds[g]) = set[g]
  BY BitsOfNone
<1> QED
  BY <1>1, <1>2

\* A set a goroutine has decoded is not mistaken for an empty cache entry.
LEMMA DecodedIsSet ==
  \A f \in Descriptor : Decoded(f) \in Lookup!FieldBehaviorSet /\ Decoded(f) # NoSet
  BY Assumption, BitsType DEF Decoded

LEMMA NextIInv == IInv /\ [Next]_vars => IInv'
<1> SUFFICES ASSUME IInv, [Next]_vars
             PROVE  IInv'
  OBVIOUS
<1> USE Assumption, BitsType DEF IInv, TypeOK, CacheCoherent, Decoding, DecodersStore
<1>1. ASSUME NEW g \in Goroutine, NEW f \in Descriptor, Call(g, f)
      PROVE  IInv'
  BY <1>1 DEF Call
<1>2. ASSUME NEW g \in Goroutine, Hit(g)
      PROVE  IInv'
  BY <1>2 DEF Hit, Return, Lookup!FieldBehaviorSet
<1>3. ASSUME NEW g \in Goroutine, Miss(g)
      PROVE  IInv'
  <2>1. field[g] \in Descriptor
    BY <1>3 DEF Miss
  <2>2. TypeOK'
    BY <1>3, <2>1 DEF Miss
  <2>3. CacheCoherent' /\ Decoding'
    BY <1>3, <2>1 DEF Miss, Decoded
  <2>4. DecodersStore'
    BY <1>3, <2>1 DEF Miss
  <2> QED
    BY <2>2, <2>3, <2>4
<1>4. ASSUME NEW g \in Goroutine, Decode(g)
      PROVE  IInv'
  BY <1>4, BitsOfTail DEF Decode, Lookup!FieldBehaviorSet
<1>5. ASSUME NEW g \in Goroutine, EndDecode(g)
      PROVE  IInv'
  <2>1. set[g] = Decoded(field[g])
    BY <1>5, DecodedAll DEF EndDecode
  <2> QED
    BY <1>5, <2>1 DEF EndDecode
<1>6. ASSUME NEW g \in Goroutine, Store(g)
      PROVE  IInv'
  <2>1. field[g] \in Descriptor /\ set[g] = Decoded(field[g])
    BY <1>6 DEF Store
  <2>2. TypeOK'
    BY <1>6, <2>1 DEF Store, Return, Lookup!FieldBehaviorSet
  <2>3. CacheCoherent'
    BY <1>6, <2>1 DEF Store
  <2>4. Decoding'
    BY <1>6, <2>1 DEF Store, Return
  <2>5. DecodersStore'
    BY <1>6, <2>1, DecodedIsSet DEF Store, Return
  <2> QED
    BY <2>2, <2>3, <2>4, <2>5
<1>7. CASE UNCHANGED vars
  BY <1>7 DEF vars
<1> QED
  BY <1>1, <1>2, <1>3, <1>4, <1>5, <1>6, <1>7 DEF Next, Step

\* The inductive invariant: the cache is coherent, each goroutine knows what it
\* has still to decode, and one that has decoded stores.
THEOREM Invariance == Spec => []IInv
<1>1. Init => IInv
  BY InitIInv
<1>2. IInv /\ [Next]_vars => IInv'
  BY NextIInv
<1> QED
  BY <1>1, <1>2, PTL DEF Spec

\* The type invariant of the cache, for any goroutines and annotations.
THEOREM TypeCorrect == Spec => []TypeOK
<1>1. IInv => TypeOK
  BY DEF IInv
<1> QED
  BY <1>1, Invariance, PTL

\* The cache never holds a half-decoded set (CacheCoherent).
THEOREM Coherent == Spec => []CacheCoherent
<1>1. IInv => CacheCoherent
  BY DEF IInv
<1> QED
  BY <1>1, Invariance, PTL

\* No goroutine decodes an annotation twice (DecodesOnceEach).
THEOREM OnceEach == Spec => DecodesOnceEach
<1>1. IInv => [\A g \in Goroutine : Miss(g) => g \notin decoders[field[g]]]_vars
  <2> SUFFICES ASSUME IInv, NEW g \in Goroutine, Miss(g)
               PROVE  g \notin decoders[field[g]]
    OBVIOUS
  <2>1. pc[g] = "load" /\ fieldBehaviorSets[field[g]] = NoSet /\ field[g] \in Descriptor
    BY Assumption DEF IInv, TypeOK, Decoding, Miss
  <2> QED
    BY <2>1 DEF IInv, DecodersStore
<1> QED
  BY <1>1, Invariance, PTL DEF Spec, DecodesOnceEach

\* A late store rewrites the entry with what it held (StoredSetNeverChanges).
THEOREM StoredForGood == Spec => StoredSetNeverChanges
<1> DEFINE Kept == \A f \in Descriptor :
             fieldBehaviorSets[f] # NoSet => fieldBehaviorSets'[f] = fieldBehaviorSets[f]
<1>1. IInv /\ [Next]_vars => [Kept]_vars
  <2> SUFFICES ASSUME IInv, IInv', Next
               PROVE  Kept
    BY NextIInv
  <2>1. \A f \in Descriptor : fieldBehaviorSets[f] # NoSet => fieldBehaviorSets'[f] # NoSet
    <3> USE DEF IInv, TypeOK, Decoding
    <3>1. ASSUME NEW g \in Goroutine, Store(g)
          PROVE  \A f \in Descriptor : fieldBehaviorSets[f] # NoSet => fieldBehaviorSets'[f] # NoSet
      BY <3>1, Assumption DEF Store
    <3>2. ASSUME NEW g \in Goroutine, Step(g) \/ \E f \in Descriptor : Call(g, f), ~Store(g)
          PROVE  fieldBehaviorSets' = fieldBehaviorSets
      BY <3>2 DEF Step, Hit, Miss, Decode, EndDecode, Call
    <3> QED
      BY <3>1, <3>2 DEF Next
  <2> QED
    BY <2>1 DEF IInv, CacheCoherent
<1> QED
  BY <1>1, Invariance, PTL DEF Spec, StoredSetNeverChanges

----------------------------------------------------------------------------
\* A step of a call is a step of an atomic lookup, or none that shows.
LEMMA StepRefines == IInv /\ [Next]_vars => [Lookup!LookupNext]_(Lookup!lookupVars)
<1> SUFFICES ASSUME IInv, [Next]_vars
             PROVE  [Lookup!LookupNext]_(Lookup!lookupVars)
  OBVIOUS
<1> USE Assumption DEF IInv, TypeOK, CacheCoherent, Decoding, Lookup!lookupVars
<1>1. ASSUME NEW g \in Goroutine, NEW f \in Descriptor, Call(g, f)
      PROVE  Lookup!Ask(g, f)
  BY <1>1 DEF Call, Lookup!Ask
<1>2. ASSUME NEW g \in Goroutine, Hit(g)
      PROVE  Lookup!Answer(g)
  BY <1>2 DEF Hit, Return, Lookup!Answer, Decoded
<1>3. ASSUME NEW g \in Goroutine, Miss(g) \/ Decode(g) \/ EndDecode(g)
      PROVE  UNCHANGED <<field, result>>
  BY <1>3 DEF Miss, Decode, EndDecode
<1>4. ASSUME NEW g \in Goroutine, Store(g)
      PROVE  Lookup!Answer(g)
  BY <1>4 DEF Store, Return, Lookup!Answer, Decoded
<1>5. CASE UNCHANGED vars
  BY <1>5 DEF vars
<1> QED
  BY <1>1, <1>2, <1>3, <1>4, <1>5 DEF Next, Step, Lookup!LookupNext

\* The cache implements the atomic lookup: every call of FieldBehaviorsOf is
\* answered with the field's behaviors, whatever the goroutines do at the same
\* time.
THEOREM Refinement == Spec => Lookup!LookupSafeSpec
<1>1. Init => Lookup!LookupInit
  BY DEF Init, Lookup!LookupInit
<1> QED
  BY <1>1, StepRefines, Invariance, PTL DEF Spec, Lookup!LookupSafeSpec

=============================================================================
