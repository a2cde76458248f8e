-------------------------- MODULE FieldBehaviorStream --------------------------
(***************************************************************************)
(* fieldBehaviorStream.Receive: what happens to each message a handler     *)
(* receives, on any number of streams at once.  The message is read into   *)
(* memory the handler gets, and changed there in place: OUTPUT_ONLY fields *)
(* go, each resource it writes is filled in, one after the other, and then *)
(* it is checked, protovalidate's rules first.  What the streams share is  *)
(* the source of ids.                                                      *)
(***************************************************************************)
EXTENDS ResourceRequest, FieldWalk

CONSTANTS
  Stream,
  Requests,            \* Requests[t]: the messages of type t a client may send
  RuleRequired,        \* the fields with protovalidate's own `required` rule
  Uncompilable,        \* the message types whose rules do not compile
  maxBadRequestBytes,  \* the most a BadRequest holds, in the units of Size
  MaxMinted            \* bound: nothing is read once this many ids are minted

\* The paths of a mask there is.
IsPaths(mask) == mask \in Seq(Seq(STRING))

\* What a client may send: a message, in which no string is a float.  No client
\* chooses an id that is still to be minted.
IsRequest(t, m) ==
  /\ DOMAIN m \subseteq Location /\ IsFiniteSet(DOMAIN m) /\ IsMessage(t, DOMAIN m)
  /\ \A at \in DOMAIN m : Last(at).field \in Strings => Last(at).key = 0
  /\ \A write \in ResourceWrites(t, m) :
       /\ IsShallow(Resource(m, write))
       /\ ID(t, m, write) \notin Nat \ {0}
       /\ IsUpdate(t, write) => IsPaths(Mask(t, m, write)) /\ AreShallow(Mask(t, m, write))

ASSUME StreamAssumption ==
  /\ DOMAIN Requests \subseteq Type
  /\ EmptyId \notin Nat \ {0}
  /\ RuleRequired \subseteq Field /\ IsFiniteSet(RuleRequired)
  /\ maxBadRequestBytes \in Nat
  /\ \A t \in DOMAIN Requests : \A m \in Requests[t] : IsRequest(t, m)

VARIABLES
  pc,          \* pc[s]: the step s's Receive is at, "idle" outside one
  type,        \* type[s]: the type of the last message read, or NoType
  sent,        \* sent[s]: that message as the client sent it
  message,     \* message[s]: that message in the handler's memory
  writes,      \* writes[s]: the resources the current loop has still to visit
  violations,  \* violations[s]: the violations found so far
  error,       \* error[s]: what the last Receive returned
  minted       \* the ids minted so far

vars == <<pc, type, sent, message, writes, violations, error, minted>>

Nothing == [at \in {} |-> Set]

\* What Receive fails with, and its two details, both of which can be packed here:
\* ErrorInterceptor has the error without them.
Error(code, found, badRequest) == [code |-> code, violations |-> found, badRequest |-> badRequest]

NoError == Error("ok", <<>>, <<>>)

\* uuid.NewV7: a value no caller has had before.
NewV7 == minted + 1

----------------------------------------------------------------------------
(* The checks.  A violation is the location of its field in the request.   *)

\* protovalidate, as far as this code sees it: the fields of its own `required`
\* rule that are unset, in the request and in the messages it holds.
ruleViolations(t, request) ==
  LET messages == {<<>>} \cup {at \in DOMAIN request : HoldsMessage(Last(at).field)}
      fields   == {Append(at, Step(f, 0)) : at \in messages, f \in RuleRequired}
  IN SetToSeq({at \in fields :
                 /\ Last(at).field \in FieldsOf(TypeAt(t, Front(at)))
                 /\ ~isFieldPopulated(DOMAIN request, Front(at), Last(at).field)})

\* The mask the fields of a write are checked under: a create has none.
CheckedMask(t, request, write) ==
  IF IsUpdate(t, write) THEN Mask(t, request, write) ELSE NoMask

\* A mutant of requiredViolations: an update is checked as a create is.
requiredViolationsOfAll(t, request, write) ==
  LET paths == ValidateFields(ResourceType(write), Resource(request, write), Required, NoMask)
  IN [i \in DOMAIN paths |-> ResourceAt(write) \o LocationOf(paths[i])]

requiredViolations(t, request, write) ==
  LET paths == ValidateFields(ResourceType(write), Resource(request, write), Required,
                              CheckedMask(t, request, write))
  IN [i \in DOMAIN paths |-> ResourceAt(write) \o LocationOf(paths[i])]

\* A field violation is as large as its path is long, so to speak.
Size(found) ==
  LET sum[i \in 0 .. Len(found)] == IF i = 0 THEN 0 ELSE sum[i - 1] + Len(found[i])
  IN sum[Len(found)]

\* A mutant of fitting: the violation that does not fit is held as well.
fittingAndOne(found) ==
  LET held[i \in 0 .. Len(found)] ==
        IF i = 0 THEN 0
        ELSE IF held[i - 1] = i - 1 /\ Size(SubSeq(found, 1, i - 1)) <= maxBadRequestBytes THEN i
        ELSE held[i - 1]
  IN held

\* How many violations are held once the loop has come to the i-th: all of them,
\* until the next does not fit.
fitting(found) ==
  LET held[i \in 0 .. Len(found)] ==
        IF i = 0 THEN 0
        ELSE IF held[i - 1] = i - 1 /\ Size(SubSeq(found, 1, i)) <= maxBadRequestBytes THEN i
        ELSE held[i - 1]
  IN held

badRequest(found) == SubSeq(found, 1, fitting(found)[Len(found)])

----------------------------------------------------------------------------
TypeOK ==
  /\ \A s \in Stream :
       /\ pc[s] \in {"idle", "clear", "fill", "rules", "required"}
       /\ type[s] \in DOMAIN Requests \cup {NoType}
       /\ type[s] # NoType => IsMessage(type[s], DOMAIN message[s])
       /\ \A write \in writes[s] : ResourceAt(write) \in DOMAIN message[s]
       /\ \A i \in DOMAIN violations[s] : HasKind(Last(violations[s][i]).field, Required)
                                            \/ Last(violations[s][i]).field \in RuleRequired
       /\ error[s].code \in {"ok", "read", "internal", "invalid_argument"}
  /\ minted \in Nat

Init ==
  /\ pc = [s \in Stream |-> "idle"]
  /\ type = [s \in Stream |-> NoType]
  /\ sent = [s \in Stream |-> Nothing]
  /\ message = [s \in Stream |-> Nothing]
  /\ writes = [s \in Stream |-> {}]
  /\ violations = [s \in Stream |-> <<>>]
  /\ error = [s \in Stream |-> NoError]
  /\ minted = 0

\* The stream beneath reads message m.
Read(s, t, m) ==
  /\ pc[s] = "idle"
  /\ minted < MaxMinted
  /\ pc' = [pc EXCEPT ![s] = "clear"]
  /\ type' = [type EXCEPT ![s] = t]
  /\ sent' = [sent EXCEPT ![s] = m]
  /\ message' = [message EXCEPT ![s] = m]
  /\ error' = [error EXCEPT ![s] = NoError]
  /\ UNCHANGED <<writes, violations, minted>>

\* The stream beneath fails, or reads what is no protobuf message: that is what
\* Receive returns, with nothing done.
ReadNothing(s, code) ==
  /\ pc[s] = "idle"
  /\ type' = [type EXCEPT ![s] = NoType]
  /\ sent' = [sent EXCEPT ![s] = Nothing]
  /\ message' = [message EXCEPT ![s] = Nothing]
  /\ error' = [error EXCEPT ![s] = Error(code, <<>>, <<>>)]
  /\ UNCHANGED <<pc, writes, violations, minted>>

Clear(s) ==
  /\ pc[s] = "clear"
  /\ message' = [message EXCEPT ![s] = Cleared(@, OutputOnly)]
  /\ writes' = [writes EXCEPT ![s] = ResourceWrites(type[s], Cleared(message[s], OutputOnly))]
  /\ pc' = [pc EXCEPT ![s] = "fill"]
  /\ UNCHANGED <<type, sent, violations, error, minted>>

\* The loop over the resources comes to write.
Visits(s, write) ==
  /\ write \in writes[s]
  /\ \A other \in writes[s] : ~Earlier(other, write)
  /\ writes' = [writes EXCEPT ![s] = @ \ {write}]

Fill(s, write, request) ==
  /\ pc[s] = "fill"
  /\ Visits(s, write)
  /\ message' = [message EXCEPT ![s] = request]
  /\ UNCHANGED <<pc, type, sent, violations, error>>

\* A mutant of MintID: the entries of a message share one id.
MintIDOnce(s, write) ==
  /\ ~IsUpdate(type[s], write)
  /\ ID(type[s], message[s], write) = EmptyId
  /\ Fill(s, write, SetID(type[s], message[s], write, NewV7))
  /\ minted' = IF writes[s] = {write} THEN NewV7 ELSE minted

MintID(s, write) ==
  /\ ~IsUpdate(type[s], write)
  /\ ID(type[s], message[s], write) = EmptyId
  /\ Fill(s, write, SetID(type[s], message[s], write, NewV7))
  /\ minted' = NewV7

KeepID(s, write) ==
  /\ ~IsUpdate(type[s], write)
  /\ ID(type[s], message[s], write) # EmptyId
  /\ Fill(s, write, message[s])
  /\ UNCHANGED minted

ImplyMask(s, write) ==
  LET implied == ImpliedFieldMask(ResourceType(write), Resource(message[s], write))
  IN /\ IsUpdate(type[s], write)
     /\ Mask(type[s], message[s], write) = <<>>
     /\ Fill(s, write, SetMask(type[s], message[s], write, implied))
     /\ UNCHANGED minted

\* A mutant of FilterMask: a mask that is left empty is implied.
FilterOrImplyMask(s, write) ==
  LET mask     == Mask(type[s], message[s], write)
      filtered == ClearFieldMask(ResourceType(write), OutputOnly, mask)
      implied  == ImpliedFieldMask(ResourceType(write), Resource(message[s], write))
  IN /\ IsUpdate(type[s], write)
     /\ mask # <<>>
     /\ Fill(s, write, SetMask(type[s], message[s], write, IF filtered = <<>> THEN implied ELSE filtered))
     /\ UNCHANGED minted

FilterMask(s, write) ==
  LET mask == Mask(type[s], message[s], write)
  IN /\ IsUpdate(type[s], write)
     /\ mask # <<>>
     /\ Fill(s, write, SetMask(type[s], message[s], write,
                               ClearFieldMask(ResourceType(write), OutputOnly, mask)))
     /\ UNCHANGED minted

EndFill(s) ==
  /\ pc[s] = "fill"
  /\ writes[s] = {}
  /\ pc' = [pc EXCEPT ![s] = "rules"]
  /\ UNCHANGED <<type, sent, message, writes, violations, error, minted>>

\* A rule that does not compile is the server's fault, whatever the message.
RulesFail(s) ==
  /\ pc[s] = "rules"
  /\ type[s] \in Uncompilable
  /\ error' = [error EXCEPT ![s] = Error("internal", <<>>, <<>>)]
  /\ pc' = [pc EXCEPT ![s] = "idle"]
  /\ UNCHANGED <<type, sent, message, writes, violations, minted>>

CheckRules(s) ==
  /\ pc[s] = "rules"
  /\ type[s] \notin Uncompilable
  /\ violations' = [violations EXCEPT ![s] = ruleViolations(type[s], message[s])]
  /\ writes' = [writes EXCEPT ![s] = ResourceWrites(type[s], message[s])]
  /\ pc' = [pc EXCEPT ![s] = "required"]
  /\ UNCHANGED <<type, sent, message, error, minted>>

CheckRequired(s, write) ==
  /\ pc[s] = "required"
  /\ Visits(s, write)
  /\ violations' = [violations EXCEPT ![s] = @ \o requiredViolations(type[s], message[s], write)]
  /\ UNCHANGED <<pc, type, sent, message, error, minted>>

Answer(s) ==
  /\ pc[s] = "required"
  /\ writes[s] = {}
  /\ error' = [error EXCEPT ![s] =
                 IF violations[s] = <<>> THEN NoError
                 ELSE Error("invalid_argument", violations[s], badRequest(violations[s]))]
  /\ violations' = [violations EXCEPT ![s] = <<>>]
  /\ pc' = [pc EXCEPT ![s] = "idle"]
  /\ UNCHANGED <<type, sent, message, writes, minted>>

\* A Receive in progress.
Proceed(s) ==
  \/ Clear(s)
  \/ \E write \in writes[s] :
       MintID(s, write) \/ KeepID(s, write) \/ ImplyMask(s, write) \/ FilterMask(s, write)
  \/ EndFill(s)
  \/ RulesFail(s) \/ CheckRules(s)
  \/ \E write \in writes[s] : CheckRequired(s, write)
  \/ Answer(s)

Next ==
  \E s \in Stream :
    \/ \E t \in DOMAIN Requests : \E m \in Requests[t] : Read(s, t, m)
    \/ \E code \in {"ok", "read"} : ReadNothing(s, code)
    \/ Proceed(s)

Spec == Init /\ [][Next]_vars

----------------------------------------------------------------------------
(* What a handler, and a client, may rely on.                              *)

\* What two of the properties ask of a server and its clients: that no field is
\* required by protovalidate and by its annotation alike,
NoFieldIsRequiredTwice == \A f \in RuleRequired : ~HasKind(f, Required)

\* and that no client sends a -0.0 in a field without a presence bit.
NoNegativeZero ==
  \A t \in DOMAIN Requests : \A m \in Requests[t] : \A at \in DOMAIN m :
    Last(at).key = NegativeZero => HasPresence(Last(at).field)

Returned(s)  == pc[s] = "idle" /\ type[s] # NoType
Delivered(s) == Returned(s) /\ error[s].code = "ok"

Creates(s) == {write \in ResourceWrites(type[s], message[s]) : ~IsUpdate(type[s], write)}
Updates(s) == {write \in ResourceWrites(type[s], message[s]) : IsUpdate(type[s], write)}

\* No OUTPUT_ONLY value reaches a handler, at any depth of any entry.
NoServersValueArrives ==
  \A s \in Stream : Delivered(s) => \A at \in DOMAIN message[s] : ~PassesThrough(OutputOnly, at)

\* Nor does a mask that would write one.
NothingOfTheServersArrives ==
  /\ NoServersValueArrives
  /\ \A s \in Stream : Delivered(s) =>
       \A write \in Updates(s) : \A path \in ToSet(Mask(type[s], message[s], write)) :
         ~NamesKind(ResourceType(write), OutputOnly, path)

\* Receive changes a message in three ways only: it takes out what is
\* OUTPUT_ONLY, and sets the id and the mask of the entries.  What the client
\* said of its resources arrives as it was sent.
ChangesNothingElse ==
  \A s \in Stream : pc[s] # "clear" /\ type[s] # NoType =>
    LET filled == UNION {IdAt(type[s], write) \cup MaskAt(type[s], write) :
                           write \in ResourceWrites(type[s], message[s])}
    IN /\ \A at \in DOMAIN sent[s] : ~PassesThrough(OutputOnly, at) => at \in DOMAIN message[s]
       /\ \A at \in DOMAIN message[s] \ filled : at \in DOMAIN sent[s] /\ message[s][at] = sent[s][at]

\* An update writes what the client asked for, entry by entry: with a mask, no
\* path it did not name (even when none is left of it) and every path that is
\* not the server's; without one, each field it set and may write.
UpdatesWriteWhatWasAsked ==
  \A s \in Stream : Delivered(s) => \A write \in Updates(s) :
    LET asked == ToSet(Mask(type[s], sent[s], write))
        given == ToSet(Mask(type[s], message[s], write))
    IN /\ asked # {} => /\ given \subseteq asked
                        /\ \A path \in asked \ given : NamesKind(ResourceType(write), OutputOnly, path)
       /\ asked = {} =>
            given = {<<Name[f]>> : f \in {g \in FieldsOf(ResourceType(write)) :
                       isWritable(g) /\ Has(DOMAIN sent[s], ResourceAt(write), g)}}

\* Every create is identified: by the id the client chose, or by one that no
\* other create has, of the same batch, stream or another.
EveryCreateIsIdentified ==
  \A s \in Stream : Delivered(s) => \A write \in {w \in Creates(s) : IdAt(type[s], w) # {}} :
    LET chosen == ID(type[s], sent[s], write)
        given  == ID(type[s], message[s], write)
    IN /\ given # EmptyId
       /\ chosen # EmptyId => given = chosen
       /\ chosen = EmptyId =>
            \A r \in Stream : Delivered(r) => \A other \in Creates(r) :
              ID(type[r], message[r], other) = given => r = s /\ other = write

\* The fields Receive has to refuse a message for: those of protovalidate's rule,
\* and the REQUIRED ones a resource lacks of what its write is to set.
UnsetPaths(t, request, write) ==
  {p \in FieldPaths[ResourceType(write)] :
     IsUnset(Resource(request, write), Required, PathsOf(CheckedMask(t, request, write)), p)}

UnsetOf(t, request, write) ==
  {ResourceAt(write) \o LocationOf(p) : p \in UnsetPaths(t, request, write)}

Missing(t, request) ==
  ToSet(ruleViolations(t, request))
  \cup UNION {UnsetOf(t, request, write) : write \in ResourceWrites(t, request)}

Repeats(found) == \E i, j \in DOMAIN found : i # j /\ found[i] = found[j]

\* A message is refused if and only if it lacks something, and the error names
\* all of it, under the entry that lacks it.
NamesExactlyTheMissing ==
  \A s \in Stream : Returned(s) /\ error[s].code # "internal" =>
    /\ ToSet(error[s].violations) = Missing(type[s], message[s])
    /\ error[s].code = "ok" <=> Missing(type[s], message[s]) = {}

\* Moreover each field once, by protovalidate or for the annotation.
RefusesExactlyTheIncomplete ==
  /\ NamesExactlyTheMissing
  /\ \A s \in Stream : ~Repeats(error[s].violations)

\* An update without a mask is not refused for a field of the resource that it
\* leaves out, for it does not write it: save by protovalidate, which knows of
\* no mask.
OmittedMaskWritesNothingUnset ==
  \A s \in Stream : Returned(s) => \A write \in Updates(s) :
    Mask(type[s], sent[s], write) = <<>> =>
      \A violation \in ToSet(error[s].violations) :
        Front(violation) = ResourceAt(write) => Last(violation).field \in RuleRequired

\* The BadRequest holds the first violations, as many as fit, in the order of
\* the Violations detail.
BadRequestHoldsWhatFits ==
  \A s \in Stream :
    LET found == error[s].violations
        held  == error[s].badRequest
    IN /\ IsPrefix(held, found)
       /\ Size(held) <= maxBadRequestBytes
       /\ held # found => Size(SubSeq(found, 1, Len(held) + 1)) > maxBadRequestBytes

=============================================================================
