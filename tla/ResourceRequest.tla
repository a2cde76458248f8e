---------------------------- MODULE ResourceRequest ----------------------------
(***************************************************************************)
(* AIP standard method requests: which resources a request writes, and     *)
(* what a server fills in on each.                                         *)
(*                                                                         *)
(* A request is a function from its populated locations to their values.   *)
(* Two kinds of value matter: the paths of an `update_mask`, held at its   *)
(* location, and the id in a `<resource>_id`.  Whatever else is populated  *)
(* has the value Set.                                                      *)
(***************************************************************************)
EXTENDS FieldBehavior

CONSTANTS
  ResourceTypes,   \* the message types that declare google.api.resource
  FieldMask,       \* the message type google.protobuf.FieldMask
  Strings,         \* the singular fields of kind string
  IdName,          \* IdName[f]: the name `<resource>_id` for resource field f
  EmptyId          \* the empty string, as an id

ASSUME RequestAssumption ==
  /\ ResourceTypes \subseteq Type
  /\ FieldMask \in Type \ ResourceTypes
  /\ Strings \subseteq {f \in Field : Shape[f] = "singular" /\ ~HoldsMessage(f)}
  /\ Field \subseteq DOMAIN IdName



Set == "set"

----------------------------------------------------------------------------
(* The shape of a request: each operator yields the field, or none.        *)

batchField(t) == {f \in ByName(t, "requests") : Shape[f] = "list" /\ HoldsMessage(f)}

IsResource(f) == isSingularMessage(f) /\ MessageOf[f] \in ResourceTypes

\* The first of them.
resourceField(t) ==
  {Fields[t][i] : i \in {j \in DOMAIN Fields[t] :
     IsResource(Fields[t][j]) /\ \A k \in 1 .. j - 1 : ~IsResource(Fields[t][k])}}

updateMaskField(t) ==
  {f \in ByName(t, "update_mask") : isSingularMessage(f) /\ MessageOf[f] = FieldMask}

stringField(t, name) == ByName(t, name) \cap Strings

\* No request declares what the server fills in, its `update_mask` and its
\* `<resource>_id`, OUTPUT_ONLY, or it would be cleared before it is looked for.
ASSUME FilledAssumption ==
  \A t \in Type :
    \A f \in updateMaskField(t) \cup UNION {stringField(t, IdName[g]) : g \in resourceField(t)} :
      ~HasKind(f, OutputOnly)

----------------------------------------------------------------------------
(* ResourceWrites: the entries of a request, and of a batch in a batch.    *)

\* A request at location at of a request of type t, itself no batch.
IsEntry(t, at) ==
  /\ \A i \in DOMAIN at : at[i].field \in batchField(TypeAt(t, SubSeq(at, 1, i - 1)))
  /\ batchField(TypeAt(t, at)) = {}

Write(at, field) == [at |-> at, field |-> field]

\* Where the resource of a write is in its request.
ResourceAt(write) == Append(write.at, Step(write.field, 0))

\* The order ResourceWrites yields entries in: that of the lists that hold them.
Earlier(write, other) ==
  \E i \in DOMAIN write.at \cap DOMAIN other.at :
    /\ SubSeq(write.at, 1, i - 1) = SubSeq(other.at, 1, i - 1)
    /\ write.at[i].key < other.at[i].key

\* A mutant of ResourceWrites: an entry without its resource is yielded too.
ResourceWritesOfAll(t, request) ==
  UNION {{Write(at, f) : f \in resourceField(TypeAt(t, at))} :
           at \in {e \in DOMAIN request \cup {<<>>} : IsEntry(t, e)}}

ResourceWrites(t, request) ==
  {write \in UNION {{Write(at, f) : f \in resourceField(TypeAt(t, at))} :
                      at \in {e \in DOMAIN request \cup {<<>>} : IsEntry(t, e)}} :
     ResourceAt(write) \in DOMAIN request}

----------------------------------------------------------------------------
(* ResourceUpdate and ResourceCreate: the mask and the id of an entry.     *)

MaskAt(t, write) == {Append(write.at, Step(f, 0)) : f \in updateMaskField(TypeAt(t, write.at))}

IsUpdate(t, write) == MaskAt(t, write) # {}

Mask(t, request, write) ==
  LET at == CHOOSE at \in MaskAt(t, write) : TRUE
  IN IF at \in DOMAIN request THEN request[at] ELSE <<>>

IdAt(t, write) ==
  {Append(write.at, Step(f, 0)) : f \in stringField(TypeAt(t, write.at), IdName[write.field])}

ID(t, request, write) ==
  IF \E at \in IdAt(t, write) : at \in DOMAIN request
  THEN request[CHOOSE at \in IdAt(t, write) : TRUE]
  ELSE EmptyId

\* The request with value at each location of where, none if there is no such
\* field.
Put(request, where, value) ==
  [at \in DOMAIN request \cup where |-> IF at \in where THEN value ELSE request[at]]

SetMask(t, request, write, mask) == Put(request, MaskAt(t, write), mask)
SetID(t, request, write, id)     == Put(request, IdAt(t, write), id)

\* The resource of a write, as a message of its own.
Resource(request, write) ==
  LET n == Len(ResourceAt(write))
  IN {SubSeq(at, n + 1, Len(at)) : at \in {l \in DOMAIN request : IsStrictPrefix(ResourceAt(write), l)}}

ResourceType(write) == MessageOf[write.field]

\* A request without the fields of a kind.
Cleared(request, kind) == [at \in ClearFields(DOMAIN request, kind) |-> request[at]]

=============================================================================
