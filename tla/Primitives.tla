------------------------------ MODULE Primitives ------------------------------
(***************************************************************************)
(* A service that builds its own policy from the field behavior            *)
(* primitives: it holds one resource of a type and the field mask of an    *)
(* update, and calls ClearFields, ImpliedFieldMask, ClearFieldMask and     *)
(* ValidateFields on them in any order and with any kinds, as the README   *)
(* offers them.  cleared, filtered and implied remember which calls made   *)
(* the message and the mask what they are.                                 *)
(***************************************************************************)
EXTENDS FieldWalk

CONSTANTS
  Resource,   \* the message type of the resource
  Messages,   \* the messages a client may send
  Masks,      \* the masks a client may send, NoMask when it omits it
  Kinds       \* the kinds the service works with

ASSUME ClientsAssumption ==
  /\ Resource \in Type
  /\ \A m \in Messages : IsMessage(Resource, m) /\ m \subseteq Location /\ IsShallow(m)
  /\ \A paths \in Masks : paths # NoMask => paths \in Seq(Seq(STRING) \ {<<>>}) /\ AreShallow(paths)
  /\ Kinds \subseteq Nat

VARIABLES
  message,    \* the resource
  mask,       \* the update mask
  unset,      \* what the last ValidateFields reported, NotValidated once stale
  cleared,    \* the kinds ClearFields has removed from message
  filtered,   \* the kinds ClearFieldMask has removed from mask
  implied     \* the kinds that were cleared when mask was implied, or NotImplied

vars == <<message, mask, unset, cleared, filtered, implied>>

NotValidated == [kind |-> -1, paths |-> <<>>]
NotImplied   == {-1}

TypeOK ==
  /\ IsMessage(Resource, message)
  /\ mask = NoMask \/ \A i \in DOMAIN mask : Len(mask[i]) > 0
  /\ unset.kind \in Kinds \cup {-1}
  /\ cleared \subseteq Kinds
  /\ filtered \subseteq Kinds
  /\ implied = NotImplied \/ implied \subseteq cleared

Init ==
  /\ message \in Messages
  /\ mask \in Masks
  /\ unset = NotValidated
  /\ cleared = {}
  /\ filtered = {}
  /\ implied = NotImplied

CallClearFields(kind) ==
  /\ message' = ClearFields(message, kind)
  /\ cleared' = cleared \cup {kind}
  /\ unset' = NotValidated
  /\ UNCHANGED <<mask, filtered, implied>>

CallImpliedFieldMask ==
  /\ mask' = ImpliedFieldMask(Resource, message)
  /\ implied' = cleared
  /\ filtered' = {}
  /\ unset' = NotValidated
  /\ UNCHANGED <<message, cleared>>

CallClearFieldMask(kind) ==
  /\ mask' = ClearFieldMask(Resource, kind, mask)
  /\ filtered' = filtered \cup {kind}
  /\ unset' = NotValidated
  /\ UNCHANGED <<message, cleared, implied>>

CallValidateFields(kind) ==
  /\ unset' = [kind |-> kind, paths |-> ValidateFields(Resource, message, kind, mask)]
  /\ UNCHANGED <<message, mask, cleared, filtered, implied>>

Next ==
  \/ \E kind \in Kinds : CallClearFields(kind)
  \/ CallImpliedFieldMask
  \/ \E kind \in Kinds : CallClearFieldMask(kind)
  \/ \E kind \in Kinds : CallValidateFields(kind)

Spec == Init /\ [][Next]_vars

----------------------------------------------------------------------------
(* What a caller may rely on.                                              *)

Validated == unset # NotValidated

\* ValidateFields reports exactly the unset fields of the kind the mask covers,
\* each once and as a path that resolves, in declaration order, depth first,
\* whatever duplicates, overlaps and unknown paths the mask holds.
ReportsExactlyTheUnset ==
  Validated =>
    /\ ToSet(unset.paths) = {p \in FieldPaths[Resource] : IsUnset(message, unset.kind, PathsOf(mask), p)}
    /\ \A i, j \in DOMAIN unset.paths : i < j => Before(Resource, unset.paths[i], unset.paths[j])

\* The path beneath mask path p that a location of message lies at.
WrittenBy(path, at) == IsPrefix(path, [i \in DOMAIN at |-> Name[at[i].field]])

Written == {at \in message : mask # NoMask /\ \E path \in ToSet(mask) : WrittenBy(path, at)}

\* An update that clears OUTPUT_ONLY fields, then implies its mask, writes every
\* field the client set and may write, and nothing that is the server's, at any
\* depth, whatever it clears afterwards.
ImpliedAfterClearWritesTheClientsFields ==
  OutputOnly \in implied =>
    /\ \A at \in Written : isWritable(at[1].field) /\ ~PassesThrough(OutputOnly, at)
    /\ filtered = {} => \A at \in message : isWritable(at[1].field) => at \in Written

\* An update with the mask the message implies is never refused for leaving a
\* field of the resource itself unset: the mask names only fields that are set,
\* so what it leaves unset lies deeper.  (A kind cleared since then may have
\* taken such a field away again.)
ImpliedMaskNamesWhatIsSet ==
  Validated /\ implied = cleared => \A i \in DOMAIN unset.paths : Len(unset.paths[i]) > 1

\* Once OUTPUT_ONLY is taken out of the message and out of its mask, validation
\* never names a field the client has no say in: not one that is the server's,
\* and not one beneath it.
NeverBlamedForServerFields ==
  /\ Validated
  /\ unset.kind = Required
  /\ OutputOnly \in cleared
  /\ mask = NoMask \/ OutputOnly \in filtered
  => \A i \in DOMAIN unset.paths : \A j \in DOMAIN unset.paths[i] :
       ~HasKind(unset.paths[i][j], OutputOnly)

\* ClearFieldMask takes out exactly the paths that name a field of the kind or
\* pass through one; the others, unknown ones included, stay in their order.
FilterTakesOutExactlyTheKind ==
  [][\A kind \in Kinds :
       mask # NoMask /\ kind \notin filtered /\ CallClearFieldMask(kind) =>
         LET passes(path) == \E p \in FieldPaths[Resource] : IsPrefix(NamesOf(p), path) /\ HasKind(Last(p), kind)
         IN /\ ToSet(mask') = {path \in ToSet(mask) : ~passes(path)}
            /\ \A i, j \in DOMAIN mask' : i < j =>
                 \E k, l \in DOMAIN mask : k < l /\ mask[k] = mask'[i] /\ mask[l] = mask'[j]]_vars

\* The comment on ValidateFields: "A nested path such as `carrier.name` checks
\* just that field, as unset when `carrier` is: the update writes it either way."
NestedPathChecksItsField ==
  Validated /\ mask # NoMask =>
    \A p \in FieldPaths[Resource] :
      /\ NamesOf(p) \in ToSet(mask)
      /\ HasKind(Last(p), unset.kind)
      /\ ~isFieldPopulated(message, LocationOf(Front(p)), Last(p))
      => p \in ToSet(unset.paths)

=============================================================================
