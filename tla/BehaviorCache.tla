----------------------------- MODULE BehaviorCache -----------------------------
(***************************************************************************)
(* FieldBehaviorsOf and the sync.Map it caches decoded annotations in,     *)
(* called by any number of goroutines: a load, on a miss the decoding of   *)
(* the annotation kind by kind, then a store.  Nothing holds a lock across *)
(* these steps; each operation of the map is atomic.                       *)
(***************************************************************************)
EXTENDS Integers, Sequences

CONSTANTS Goroutine, Descriptor, Kinds, NoDescriptor, NoSet

VARIABLES
  fieldBehaviorSets,  \* the cache: the stored set of a descriptor, or NoSet
  field,              \* field[g]: the argument of g's call, NoDescriptor outside one
  pc,                 \* pc[g]: "idle", "load", "decode" or "store"
  kinds,              \* kinds[g]: the kinds g has still to decode
  set,                \* set[g]: the set g has decoded so far
  result,             \* result[g]: what g's last call returned
  decoders            \* decoders[f]: the goroutines that have decoded f's annotation

vars == <<fieldBehaviorSets, field, pc, kinds, set, result, decoders>>

Lookup == INSTANCE BehaviorLookup WITH asked <- field, answer <- result

Decoded(f) == Lookup!Bits(Kinds[f])

CacheAssumption == Lookup!LookupAssumption

ASSUME CacheAssumption

TypeOK ==
  /\ fieldBehaviorSets \in [Descriptor -> {NoSet} \cup Lookup!FieldBehaviorSet]
  /\ field \in [Goroutine -> Descriptor \cup {NoDescriptor}]
  /\ pc \in [Goroutine -> {"idle", "load", "decode", "store"}]
  /\ kinds \in [Goroutine -> Seq(Int)]
  /\ set \in [Goroutine -> Lookup!FieldBehaviorSet]
  /\ result \in [Goroutine -> {NoSet} \cup Lookup!FieldBehaviorSet]
  /\ decoders \in [Descriptor -> SUBSET Goroutine]

Init ==
  /\ fieldBehaviorSets = [f \in Descriptor |-> NoSet]
  /\ field = [g \in Goroutine |-> NoDescriptor]
  /\ pc = [g \in Goroutine |-> "idle"]
  /\ kinds = [g \in Goroutine |-> <<>>]
  /\ set = [g \in Goroutine |-> {}]
  /\ result = [g \in Goroutine |-> NoSet]
  /\ decoders = [f \in Descriptor |-> {}]

\* A mutant of fieldBehaviorBit: the width is not checked.
fieldBehaviorBitOfAny(kind) == {kind}

\* A kind's bit: none for a value beyond the set's width.
fieldBehaviorBit(kind) == {kind} \cap (0 .. Lookup!fieldBehaviorSetWidth - 1)

Call(g, f) ==
  /\ pc[g] = "idle"
  /\ pc' = [pc EXCEPT ![g] = "load"]
  /\ field' = [field EXCEPT ![g] = f]
  /\ UNCHANGED <<fieldBehaviorSets, kinds, set, result, decoders>>

\* A mutant of Return: the set outlives its call.
ReturnKeepingSet(g, value) ==
  /\ pc' = [pc EXCEPT ![g] = "idle"]
  /\ field' = [field EXCEPT ![g] = NoDescriptor]
  /\ result' = [result EXCEPT ![g] = value]
  /\ UNCHANGED set

\* The call returns value, and its local variables with it.
Return(g, value) ==
  /\ pc' = [pc EXCEPT ![g] = "idle"]
  /\ field' = [field EXCEPT ![g] = NoDescriptor]
  /\ result' = [result EXCEPT ![g] = value]
  /\ set' = [set EXCEPT ![g] = {}]

Hit(g) ==
  /\ pc[g] = "load"
  /\ fieldBehaviorSets[field[g]] # NoSet
  /\ Return(g, fieldBehaviorSets[field[g]])
  /\ UNCHANGED <<fieldBehaviorSets, kinds, decoders>>

Miss(g) ==
  /\ pc[g] = "load"
  /\ fieldBehaviorSets[field[g]] = NoSet
  /\ pc' = [pc EXCEPT ![g] = "decode"]
  /\ kinds' = [kinds EXCEPT ![g] = Kinds[field[g]]]
  /\ decoders' = [decoders EXCEPT ![field[g]] = @ \cup {g}]
  /\ UNCHANGED <<fieldBehaviorSets, field, set, result>>

\* A mutant of Decode: the set is decoded in the cache.
DecodeInCache(g) ==
  /\ pc[g] = "decode"
  /\ kinds[g] # <<>>
  /\ set' = [set EXCEPT ![g] = @ \cup fieldBehaviorBit(Head(kinds[g]))]
  /\ fieldBehaviorSets' = [fieldBehaviorSets EXCEPT ![field[g]] = set'[g]]
  /\ kinds' = [kinds EXCEPT ![g] = Tail(@)]
  /\ UNCHANGED <<field, pc, result, decoders>>

Decode(g) ==
  /\ pc[g] = "decode"
  /\ kinds[g] # <<>>
  /\ set' = [set EXCEPT ![g] = @ \cup fieldBehaviorBit(Head(kinds[g]))]
  /\ kinds' = [kinds EXCEPT ![g] = Tail(@)]
  /\ UNCHANGED <<fieldBehaviorSets, field, pc, result, decoders>>

\* A mutant of EndDecode: the loop may stop before the last kind.
EndDecodeEarly(g) ==
  /\ pc[g] = "decode"
  /\ pc' = [pc EXCEPT ![g] = "store"]
  /\ UNCHANGED <<fieldBehaviorSets, field, kinds, set, result, decoders>>

EndDecode(g) ==
  /\ pc[g] = "decode"
  /\ kinds[g] = <<>>
  /\ pc' = [pc EXCEPT ![g] = "store"]
  /\ UNCHANGED <<fieldBehaviorSets, field, kinds, set, result, decoders>>

\* A mutant of Store: the set is returned and not stored.
StoreNothing(g) ==
  /\ pc[g] = "store"
  /\ Return(g, set[g])
  /\ UNCHANGED <<fieldBehaviorSets, kinds, decoders>>

Store(g) ==
  /\ pc[g] = "store"
  /\ fieldBehaviorSets' = [fieldBehaviorSets EXCEPT ![field[g]] = set[g]]
  /\ Return(g, set[g])
  /\ UNCHANGED <<kinds, decoders>>

Step(g) == Hit(g) \/ Miss(g) \/ Decode(g) \/ EndDecode(g) \/ Store(g)

Next == \E g \in Goroutine : Step(g) \/ \E f \in Descriptor : Call(g, f)

Spec == Init /\ [][Next]_vars

\* The Go scheduler preempts, so no goroutine in the middle of a call is kept
\* from running for ever.  Nobody has to make a call.
FairSpec == Spec /\ \A g \in Goroutine : WF_vars(Step(g))

----------------------------------------------------------------------------

\* However many goroutines miss at the same time, the cache holds the whole set
\* of a descriptor's kinds or nothing: never a set half decoded, and never one
\* of another descriptor.
CacheCoherent ==
  \A f \in Descriptor : fieldBehaviorSets[f] \in {NoSet, Decoded(f)}

\* A late store of a goroutine that missed too does not change what goroutines
\* have been answered from the cache since.
StoredSetNeverChanges ==
  [][\A f \in Descriptor :
       fieldBehaviorSets[f] # NoSet => fieldBehaviorSets'[f] = fieldBehaviorSets[f]]_vars

\* A goroutine decodes an annotation at most once: its own store is there when
\* it asks again, whatever the others stored in between.
DecodesOnceEach ==
  [][\A g \in Goroutine : Miss(g) => g \notin decoders[field[g]]]_vars

\* Every call is answered with the field's behaviors.
ImplementsLookup == Lookup!LookupSpec

\* The comment on FieldBehaviorsOf: "The annotation is decoded once per
\* descriptor and cached".
DecodedOncePerDescriptor ==
  \A f \in Descriptor : \A g, h \in decoders[f] : g = h

=============================================================================
