---------------------------- MODULE BehaviorLookup ----------------------------
(***************************************************************************)
(* What FieldBehaviorsOf promises the goroutines that call it: each call   *)
(* is answered with the set of kinds the field is annotated with, as if    *)
(* the annotation were decoded in one step on every call.                  *)
(***************************************************************************)
EXTENDS Integers, Sequences

CONSTANTS
  Goroutine,
  Descriptor,   \* the field descriptors that are looked up
  Kinds,        \* Kinds[f]: the kinds f's google.api.field_behavior lists, in order
  NoDescriptor,
  NoSet         \* no FieldBehaviorSet

fieldBehaviorSetWidth == 16

FieldBehaviorSet == SUBSET (0 .. fieldBehaviorSetWidth - 1)

\* What the constants have to be, for whoever instantiates this module.
LookupAssumption ==
  /\ NoDescriptor \notin Descriptor
  /\ \A f \in Descriptor : Kinds[f] \in Seq(Int)
  /\ \A s \in FieldBehaviorSet : s # NoSet

\* The kinds of a list that a set can hold.
Bits(list) == {list[i] : i \in DOMAIN list} \cap (0 .. fieldBehaviorSetWidth - 1)

VARIABLES
  asked,    \* asked[g]: the descriptor g is looking up, or NoDescriptor
  answer    \* answer[g]: what g's last call returned, or NoSet

lookupVars == <<asked, answer>>

LookupInit ==
  /\ asked = [g \in Goroutine |-> NoDescriptor]
  /\ answer = [g \in Goroutine |-> NoSet]

Ask(g, f) ==
  /\ asked[g] = NoDescriptor
  /\ asked' = [asked EXCEPT ![g] = f]
  /\ UNCHANGED answer

Answer(g) ==
  /\ asked[g] # NoDescriptor
  /\ answer' = [answer EXCEPT ![g] = Bits(Kinds[asked[g]])]
  /\ asked' = [asked EXCEPT ![g] = NoDescriptor]

LookupNext == \E g \in Goroutine : Answer(g) \/ \E f \in Descriptor : Ask(g, f)

LookupSafeSpec == LookupInit /\ [][LookupNext]_lookupVars

LookupSpec ==
  /\ LookupSafeSpec
  /\ \A g \in Goroutine : WF_lookupVars(Answer(g))

=============================================================================
