------------------------------ MODULE FieldWalk ------------------------------
(***************************************************************************)
(* The recursive walks of field_behavior.go, descriptor by descriptor in   *)
(* the order the code takes.  The recursion is a function over how many    *)
(* messages, one in the other, the walk may still enter.                   *)
(***************************************************************************)
EXTENDS FieldBehavior

CONSTANT MaxDepth   \* bound: no message lies deeper, and no mask path is longer

ASSUME WalkAssumption ==
  /\ MaxDepth \in Nat \ {0}
  /\ Name \in [Field -> STRING]
  /\ NoMask \notin Seq(STRING) \cup Seq(Seq(STRING))   \* neither a path nor a mask

\* No message in m lies so deep that a field of it is out of the walk's reach.
IsShallow(m) == \A at \in m : HoldsMessage(Last(at).field) => Len(at) < MaxDepth

\* The paths of a mask a walk gets to the end of.
AreShallow(mask) == mask # NoMask => \A path \in ToSet(mask) : Len(path) <= MaxDepth

\* The message in field f of message m, empty if it is unset.
Nested(m, f) == {Tail(at) : at \in {l \in m : Len(l) > 1 /\ Head(l) = Step(f, 0)}}

\* A mutant of maskedPaths: a nested path counts as its whole first field.
maskedPathsByHead(paths, name) ==
  [whole  |-> \E path \in paths : path # <<>> /\ Head(path) = name,
   nested |-> {Tail(path) : path \in {q \in paths : Len(q) > 1 /\ Head(q) = name}}]

\* What a mask says of the field called name of the message it is relative to:
\* whether it names the field, and the paths beneath it, relative to it.
maskedPaths(paths, name) ==
  [whole  |-> <<name>> \in paths,
   nested |-> {Tail(path) : path \in {q \in paths : Len(q) > 1 /\ Head(q) = name}}]

\* What the mask says of field f: without one, it counts as named.
Named(paths, f) ==
  IF paths = EveryField THEN [whole |-> TRUE, nested |-> {}] ELSE maskedPaths(paths, Name[f])

\* The names of the unset fields at f and beneath it, deeper being the walk of
\* the message it holds.
unsetOfField(m, kind, paths, f, deeper) ==
  LET named      == Named(paths, f)
      itself     == IF named.whole /\ HasKind(f, kind) /\ ~isFieldPopulated(m, <<>>, f)
                    THEN <<<<Name[f]>>>> ELSE <<>>
      beneath(s) == [i \in DOMAIN s |-> <<Name[f]>> \o s[i]]
      below      == CASE isSingularMessage(f) /\ named.whole /\ Has(m, <<>>, f) ->
                           beneath(deeper[MessageOf[f]][Nested(m, f)][EveryField])
                      [] isSingularMessage(f) /\ ~named.whole /\ named.nested # {} ->
                           beneath(deeper[MessageOf[f]][Nested(m, f)][named.nested])
                      [] OTHER -> <<>>
  IN itself \o below

\* The loop over the fields of a message of type t.
unsetOfFields(m, t, kind, paths, deeper) ==
  LET unset[i \in 0 .. Len(Fields[t])] ==
        IF i = 0 THEN <<>>
        ELSE unset[i - 1] \o unsetOfField(m, kind, paths, Fields[t][i], deeper)
  IN unset

\* unsetPaths(kind)[n][t][m][paths]: the walk of a message of type t, as the names
\* of its unset fields of kind, declaration order, depth first, if n messages may
\* be entered.  paths is EveryField for a walk that checks every field.
unsetPaths(kind) ==
  LET unset[n \in 0 .. MaxDepth] ==
        [t \in Type |-> [m \in SUBSET Location |-> [paths \in {EveryField} \cup SUBSET Seq(STRING) |->
           IF n = 0 THEN <<>>
           ELSE unsetOfFields(m, t, kind, paths, unset[n - 1])[Len(Fields[t])]]]]
  IN unset

\* The descriptors a dotted name walks through, shorter than the name where a
\* segment is no field of the message it is looked up in: the code panics.
fieldPath(t, names) ==
  LET path[i \in 0 .. Len(names)] ==
        IF i = 0 THEN <<>>
        ELSE LET found == ByName(TypeBeneath(t, path[i - 1]), names[i])
             IN IF Len(path[i - 1]) < i - 1 \/ found = {} THEN path[i - 1]
                ELSE Append(path[i - 1], CHOOSE f \in found : TRUE)
  IN path[Len(names)]

\* The field paths a walk gets to the end of.
FieldPaths == [t \in Type |-> {p \in UNION {[1 .. n -> Field] : n \in 1 .. MaxDepth} : IsFieldPath(t, p)}]

\* The paths of a FieldBehaviorError; none stands for the nil error.
ValidateFields(t, m, kind, mask) ==
  LET unset == unsetPaths(kind)[MaxDepth][t][m][PathsOf(mask)]
  IN [i \in DOMAIN unset |-> fieldPath(t, unset[i])]

=============================================================================
