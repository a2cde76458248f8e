---------------------------- MODULE FieldBehavior ----------------------------
(***************************************************************************)
(* Messages, schemas and field masks as the field behavior primitives see  *)
(* them through protobuf reflection, and what each primitive computes.     *)
(*                                                                         *)
(* A schema gives every message type its field descriptors in declaration  *)
(* order.  A message is the set of its populated locations: a location is  *)
(* the sequence of steps from the message to a value, a step a descriptor  *)
(* and a key (0 for the value of a singular field, 1, 2, ... for the       *)
(* elements of a list or a map).  A location is in the set only if the     *)
(* message it lies in is, so an unset message has nothing beneath it.      *)
(* Scalars carry no other value than being there, with one exception the   *)
(* code tells apart: the key NegativeZero, for a float that is -0.0.       *)
(***************************************************************************)
EXTENDS Selection, SequencesExt

CONSTANTS
  Fields,      \* Fields[t]: the descriptors of message type t, in declaration order
  Name,        \* Name[f]: the name of descriptor f, unique within its message
  Annotation,  \* Annotation[f]: the kinds f's google.api.field_behavior lists
  Shape,       \* Shape[f]: "singular", "list" or "map"
  MessageOf,   \* MessageOf[f]: the message type f holds, or NoType for a scalar
  Presence,    \* Presence[f]: whether a scalar f has a presence bit of its own
  Key,         \* the keys a step may carry
  NoType,
  NoMask       \* a nil field mask

NegativeZero == -1

Type  == DOMAIN Fields
Field == DOMAIN Name

FieldsOf(t) == ToSet(Fields[t])

ASSUME SchemaAssumption ==
  /\ NoType \notin Type
  /\ {0, NegativeZero} \subseteq Key
  /\ \A t \in Type : Fields[t] \in Seq(Field)
  /\ \A f \in Field : /\ Shape[f] \in {"singular", "list", "map"}
                      /\ MessageOf[f] \in Type \cup {NoType}
                      /\ Presence[f] \in BOOLEAN
                      /\ Annotation[f] \subseteq Int
  /\ \A t \in Type : \A i, j \in DOMAIN Fields[t] :
       Name[Fields[t][i]] = Name[Fields[t][j]] => i = j

----------------------------------------------------------------------------
(* The kinds of google.api.FieldBehavior the package names, and the set of *)
(* kinds a field is annotated with: one bit a kind, none beyond the width. *)

Required   == 2
OutputOnly == 3
InputOnly  == 4
Immutable  == 5
Identifier == 8

fieldBehaviorSetWidth == 16

FieldBehaviorsOf(f) == Annotation[f] \cap (0 .. fieldBehaviorSetWidth - 1)

HasKind(f, kind) == kind \in FieldBehaviorsOf(f)

HasAnyKind(f, kinds) == \E kind \in kinds : HasKind(f, kind)

----------------------------------------------------------------------------
(* Reflection: steps, locations and presence.                              *)

Step(f, k) == [field |-> f, key |-> k]
StepSet    == [field : Field, key : Key]
Location   == Seq(StepSet)

HoldsMessage(f)      == MessageOf[f] # NoType
isSingularMessage(f) == Shape[f] = "singular" /\ HoldsMessage(f)

\* The message type a location lies at, of a message of type t.
TypeAt(t, at) == IF at = <<>> THEN t ELSE MessageOf[Last(at).field]

\* The values message m holds for field f of the message at location at.
Values(m, at, f) == {k \in Key : Append(at, Step(f, k)) \in m}

Has(m, at, f) == Values(m, at, f) # {}

HasPresence(f) == isSingularMessage(f) \/ (Shape[f] = "singular" /\ Presence[f])

isFieldPopulated(m, at, f) ==
  IF HasPresence(f) THEN Has(m, at, f)
                    ELSE Values(m, at, f) \ {NegativeZero} # {}

\* Mutants of rangeMessages: maps are left out; list elements are off by one.
rangeMessagesNotOfMaps(m, at, f) ==
  {Append(at, Step(f, k)) : k \in IF HoldsMessage(f) /\ Shape[f] # "map" THEN Values(m, at, f) ELSE {}}

rangeMessagesOffByOne(m, at, f) ==
  {Append(at, Step(f, IF Shape[f] = "list" THEN k + 1 ELSE k)) :
     k \in IF HoldsMessage(f) THEN Values(m, at, f) ELSE {}}

\* The messages reachable through field f of the message at location at.
rangeMessages(m, at, f) ==
  {Append(at, Step(f, k)) : k \in IF HoldsMessage(f) THEN Values(m, at, f) ELSE {}}

\* A populated set of locations a message of type t can have: with a location
\* every message it lies in, each value in a field of its message's type and
\* under a key the field's shape allows.
IsMessage(t, m) ==
  \A at \in m :
    LET f == Last(at).field
        values == Values(m, Front(at), f)
    IN /\ at # <<>>
       /\ \A i \in 1 .. Len(at) - 1 : SubSeq(at, 1, i) \in m /\ HoldsMessage(at[i].field)
       /\ f \in FieldsOf(TypeAt(t, Front(at)))
       /\ CASE Shape[f] = "singular" ->
              values = {0} \/ (values = {NegativeZero} /\ ~HoldsMessage(f))
            [] Shape[f] = "list"     -> \E n \in Key : values = 1 .. n
            [] Shape[f] = "map"      -> \A k \in values : k > 0

----------------------------------------------------------------------------
(* ClearFields: a location goes when a step of it is annotated kind.       *)

PassesThrough(kind, at) == \E i \in DOMAIN at : HasKind(at[i].field, kind)

\* Mutants of ClearFields: what lies beneath a cleared field stays; nested fields
\* stay; a nested field takes the whole field of the message it lies in along.
ClearFieldsOfLastStep(m, kind) == {at \in m : ~HasKind(Last(at).field, kind)}
ClearFieldsAtTop(m, kind)      == {at \in m : ~HasKind(Head(at).field, kind)}
ClearFieldsFromTheTop(m, kind) ==
  {at \in m : \A l \in m : PassesThrough(kind, l) => Head(at) # Head(l)}

ClearFields(m, kind) == {at \in m : ~PassesThrough(kind, at)}

----------------------------------------------------------------------------
(* Field paths: descriptors from a message down through singular message   *)
(* fields, which is as far as a mask path reaches.                         *)

IsFieldPath(t, p) ==
  /\ p # <<>>
  /\ p[1] \in FieldsOf(t)
  /\ \A i \in 1 .. Len(p) - 1 : isSingularMessage(p[i]) /\ p[i + 1] \in FieldsOf(MessageOf[p[i]])

NamesOf(p)    == [i \in DOMAIN p |-> Name[p[i]]]
LocationOf(p) == [i \in DOMAIN p |-> Step(p[i], 0)]

\* The message type field path p leads to, from a message of type t.
TypeBeneath(t, p) == IF p = <<>> THEN t ELSE MessageOf[Last(p)]

Position(t, f) == CHOOSE i \in DOMAIN Fields[t] : Fields[t][i] = f

\* Field path p comes before q, declaration order, depth first.
Before(t, p, q) ==
  \/ IsStrictPrefix(p, q)
  \/ \E i \in DOMAIN p \cap DOMAIN q :
       LET type == TypeBeneath(t, SubSeq(p, 1, i - 1))
       IN /\ SubSeq(p, 1, i - 1) = SubSeq(q, 1, i - 1)
          /\ Position(type, p[i]) < Position(type, q[i])

ByName(t, name) == IF t = NoType THEN {} ELSE {f \in FieldsOf(t) : Name[f] = name}

----------------------------------------------------------------------------
(* ValidateFields, as a condition on one field path.                       *)

\* The paths of a mask, as a set.  That of a nil mask holds what is no path.
EveryField == {NoMask}

PathsOf(mask) == IF mask = NoMask THEN EveryField ELSE ToSet(mask)

\* The paths of a mask name the i-th field of p and none above it.  A nil mask
\* names every field, the message itself (i = 0) so to speak.
FirstNamed(paths, p, i) ==
  \/ paths = EveryField /\ i = 0
  \/ /\ paths # EveryField
     /\ i \in 1 .. Len(p)
     /\ NamesOf(SubSeq(p, 1, i)) \in paths
     /\ \A j \in 1 .. i - 1 : NamesOf(SubSeq(p, 1, j)) \notin paths

\* The message fields p walks through are set, from the i-th on.
SetFrom(m, p, i) == \A j \in i .. Len(p) - 1 : j > 0 => LocationOf(SubSeq(p, 1, j)) \in m

IsUnset(m, kind, paths, p) ==
  /\ HasKind(Last(p), kind)
  /\ ~isFieldPopulated(m, LocationOf(Front(p)), Last(p))
  /\ \E i \in 0 .. Len(p) : FirstNamed(paths, p, i) /\ SetFrom(m, p, i)

----------------------------------------------------------------------------
(* The field masks of an update.                                           *)

isWritable(f) == ~HasAnyKind(f, {OutputOnly, Identifier, Immutable})

\* Mutants of ImpliedFieldMask: fields the client may not write are named too;
\* unset fields are.
ImpliedFieldMaskOfAllSet(t, m) ==
  LET implied == Selected(Fields[t], {f \in FieldsOf(t) : Has(m, <<>>, f)})
  IN [i \in DOMAIN implied |-> <<Name[implied[i]]>>]

ImpliedFieldMaskOfAllWritable(t, m) ==
  LET implied == Selected(Fields[t], {f \in FieldsOf(t) : isWritable(f)})
  IN [i \in DOMAIN implied |-> <<Name[implied[i]]>>]

ImpliedFieldMask(t, m) ==
  LET implied == Selected(Fields[t], {f \in FieldsOf(t) : isWritable(f) /\ Has(m, <<>>, f)})
  IN [i \in DOMAIN implied |-> <<Name[implied[i]]>>]

\* The message types a mask path walks through: NoType once a segment names no
\* field, or one that holds no single message.
SegmentType(t, name) ==
  IF \E f \in ByName(t, name) : isSingularMessage(f)
  THEN MessageOf[CHOOSE f \in ByName(t, name) : TRUE]
  ELSE NoType

Walk(t, path) ==
  LET desc[i \in 0 .. Len(path)] == IF i = 0 THEN t ELSE SegmentType(desc[i - 1], path[i])
  IN desc

\* Mutants of NamesKind: only the last segment counts; only the first does.
NamesKindAtTheEnd(t, kind, path) ==
  \E f \in ByName(Walk(t, path)[Len(path) - 1], Last(path)) : HasKind(f, kind)

NamesKindAtTheTop(t, kind, path) == \E f \in ByName(t, Head(path)) : HasKind(f, kind)

NamesKind(t, kind, path) ==
  \E i \in DOMAIN path : \E f \in ByName(Walk(t, path)[i - 1], path[i]) : HasKind(f, kind)

ClearFieldMask(t, kind, mask) ==
  IF mask = NoMask THEN NoMask
  ELSE Selected(mask, {path \in ToSet(mask) : ~NamesKind(t, kind, path)})

=============================================================================
