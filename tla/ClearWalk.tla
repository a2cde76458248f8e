------------------------------- MODULE ClearWalk -------------------------------
(***************************************************************************)
(* The walk of ClearFields, one callback at a time.  Each call of          *)
(* clearFields ranges over the populated fields of a message in an order   *)
(* of the runtime's choosing, collects the annotated ones, walks into the  *)
(* messages of the others as it meets them, and clears what it collected   *)
(* once the range is over.                                                 *)
(***************************************************************************)
EXTENDS FieldBehavior

CONSTANTS
  Resource,   \* the type of the message
  Messages,   \* the messages the caller may pass
  Kinds       \* the kinds the caller may clear

ASSUME MessagesAssumption == \A m \in Messages : m \subseteq Location /\ IsMessage(Resource, m)

VARIABLES
  message,    \* the message being cleared
  kind,       \* the kind cleared from it
  original,   \* the message as the caller passed it
  stack       \* the calls of clearFields in progress, the innermost last

vars == <<message, kind, original, stack>>

\* A call of clearFields: the message it works on, the fields its range has
\* still to visit, the messages the current callback has still to walk into,
\* and the fields collected for clearing.
Call == [at : Location, fields : SUBSET Field, nested : SUBSET Location, clear : Seq(Field)]

Populated(m, at) == {f \in Field : Has(m, at, f)}

NewCall(at) == [at |-> at, fields |-> Populated(message, at), nested |-> {}, clear |-> <<>>]

TypeOK ==
  /\ message \subseteq Location
  /\ IsMessage(Resource, original)
  /\ kind \in Kinds
  /\ stack \in Seq(Call)

Init ==
  /\ message \in Messages
  /\ kind \in Kinds
  /\ original = message
  /\ stack = <<NewCall(<<>>)>>

Top == Last(stack)

SetTop(call) == stack' = Append(Front(stack), call)

\* Mutants of Collect: the field is cleared on the spot; whatever its kind.
CollectAndClear(f) ==
  /\ stack # <<>>
  /\ Top.nested = {}
  /\ f \in Top.fields
  /\ HasKind(f, kind)
  /\ SetTop([Top EXCEPT !.fields = @ \ {f}])
  /\ message' = {at \in message : \A k \in Key : ~IsPrefix(Append(Top.at, Step(f, k)), at)}
  /\ UNCHANGED <<kind, original>>

CollectAny(f) ==
  /\ stack # <<>>
  /\ Top.nested = {}
  /\ f \in Top.fields
  /\ SetTop([Top EXCEPT !.fields = @ \ {f}, !.clear = Append(@, f)])
  /\ UNCHANGED <<message, kind, original>>

\* The range visits an annotated field: collected, and not walked into.
Collect(f) ==
  /\ stack # <<>>
  /\ Top.nested = {}
  /\ f \in Top.fields
  /\ HasKind(f, kind)
  /\ SetTop([at     |-> Top.at, fields |-> Top.fields \ {f},
             nested |-> {}, clear |-> Append(Top.clear, f)])
  /\ UNCHANGED <<message, kind, original>>

\* The range visits another field: the messages it holds are next.
Visit(f) ==
  /\ stack # <<>>
  /\ Top.nested = {}
  /\ f \in Top.fields
  /\ ~HasKind(f, kind)
  /\ SetTop([Top EXCEPT !.fields = @ \ {f}, !.nested = rangeMessages(message, Top.at, f)])
  /\ UNCHANGED <<message, kind, original>>

\* The callback calls clearFields on the next message: of a list in order, of
\* a map in any.
Descend(at) ==
  /\ stack # <<>>
  /\ at \in Top.nested
  /\ Shape[Last(at).field] = "list" => \A other \in Top.nested : Last(at).key <= Last(other).key
  /\ stack' = Append(Append(Front(stack), [Top EXCEPT !.nested = @ \ {at}]), NewCall(at))
  /\ UNCHANGED <<message, kind, original>>

\* A mutant of Clear: it stays with the first of the collected fields.
ClearTheFirst ==
  /\ stack # <<>>
  /\ Top.fields = {}
  /\ Top.nested = {}
  /\ Top.clear # <<>>
  /\ message' = {at \in message :
                   \A k \in Key : ~IsPrefix(Append(Top.at, Step(Head(Top.clear), k)), at)}
  /\ UNCHANGED <<stack, kind, original>>

\* After the range: the collected fields go, each with all beneath it.
Clear ==
  /\ stack # <<>>
  /\ Top.fields = {}
  /\ Top.nested = {}
  /\ Top.clear # <<>>
  /\ message' = {at \in message :
                   \A k \in Key : ~IsPrefix(Append(Top.at, Step(Head(Top.clear), k)), at)}
  /\ SetTop([Top EXCEPT !.clear = Tail(@)])
  /\ UNCHANGED <<kind, original>>

Return ==
  /\ stack # <<>>
  /\ Top.fields = {}
  /\ Top.nested = {}
  /\ Top.clear = <<>>
  /\ stack' = Front(stack)
  /\ UNCHANGED <<message, kind, original>>

Next ==
  \/ \E f \in Field : Collect(f) \/ Visit(f)
  \/ stack # <<>> /\ \E at \in Top.nested : Descend(at)
  \/ Clear
  \/ Return

Spec == Init /\ [][Next]_vars

\* One goroutine runs the walk and nothing in it blocks.
FairSpec == Spec /\ WF_vars(Next)

Done == stack = <<>>

----------------------------------------------------------------------------

\* Whatever the order of the range, the walk removes every field annotated with
\* the kind, at any depth and through lists and maps, and nothing else.
ClearsExactlyTheKind == Done => message = ClearFields(original, kind)

\* At no point of the walk is a value lost that is not to be cleared.
KeepsTheRest == ClearFields(original, kind) \subseteq message

\* "Mutating during Range is not permitted": no message loses a field of its own
\* before the range over it is over.
NoMutationDuringRange ==
  [][\A i \in DOMAIN stack :
       stack[i].fields # {} \/ stack[i].nested # {} =>
         Populated(message', stack[i].at) = Populated(message, stack[i].at)]_vars

\* The walk ends.
Terminates == <>Done

=============================================================================
