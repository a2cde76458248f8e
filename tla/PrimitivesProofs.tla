--------------------------- MODULE PrimitivesProofs ---------------------------
(***************************************************************************)
(* For any schema, messages and masks: what a service that builds its own  *)
(* policy from the primitives may rely on, whatever it calls and in which  *)
(* order.                                                                  *)
(***************************************************************************)
EXTENDS Primitives, FieldBehaviorProofs

----------------------------------------------------------------------------
(* The inductive invariant: what the message and the mask are because of   *)
(* the calls that made them.                                               *)

NoneNegativeZero(m) == \A at \in m : \A i \in DOMAIN at : at[i].key # NegativeZero

\* message is one of the client's less what was cleared.
GoodMessage ==
  /\ message \in SUBSET Location
  /\ IsMessage(Resource, message)
  /\ IsShallow(message)
  /\ (\A m \in Messages : NoneNegativeZero(m)) => NoneNegativeZero(message)
  /\ cleared \subseteq Kinds
  /\ \A kind \in cleared : \A at \in message : ~PassesThrough(kind, at)

GoodMask ==
  /\ mask = NoMask \/ (mask \in Seq(Seq(STRING) \ {<<>>}) /\ AreShallow(mask))
  /\ filtered \subseteq Kinds
  /\ mask # NoMask => \A kind \in filtered : \A path \in ToSet(mask) : ~NamesKind(Resource, kind, path)

\* A mask that was implied names fields the client may write: all that are set,
\* unless some were filtered out of it, and no other, unless one was cleared.
GoodImplied ==
  implied # NotImplied =>
    /\ implied \subseteq cleared
    /\ mask # NoMask
    /\ \A path \in ToSet(mask) : \E f \in FieldsOf(Resource) :
         path = <<Name[f]>> /\ isWritable(f) /\ (implied = cleared => Has(message, <<>>, f))
    /\ filtered = {} =>
         \A f \in FieldsOf(Resource) : isWritable(f) /\ Has(message, <<>>, f) => <<Name[f]>> \in ToSet(mask)

\* What was reported is still so.
GoodReport ==
  unset # NotValidated =>
    /\ unset.kind \in Kinds
    /\ unset.paths = ValidateFields(Resource, message, unset.kind, mask)

IInv == GoodMessage /\ GoodMask /\ GoodImplied /\ GoodReport

LEMMA InitIInv == Init => IInv
<1> SUFFICES ASSUME Init PROVE IInv
  OBVIOUS
<1>1. GoodMessage
  BY ClientsAssumption DEF Init, GoodMessage
<1>2. GoodMask
  BY ClientsAssumption DEF Init, GoodMask
<1>3. GoodImplied /\ GoodReport
  BY DEF Init, GoodImplied, GoodReport
<1> QED BY <1>1, <1>2, <1>3 DEF IInv

\* Clearing a kind again changes nothing.
LEMMA ClearedAgain ==
  ASSUME GoodMessage, NEW kind \in cleared
  PROVE  ClearFields(message, kind) = message
  BY DEF GoodMessage, ClearFields

LEMMA ClearFieldsStep ==
  ASSUME IInv, NEW kind \in Kinds, CallClearFields(kind)
  PROVE  IInv'
<1>1. /\ GoodMessage /\ GoodMask /\ GoodImplied
      /\ message' = ClearFields(message, kind) /\ cleared' = cleared \cup {kind}
      /\ unset' = NotValidated
      /\ mask' = mask /\ filtered' = filtered /\ implied' = implied
  BY DEF IInv, CallClearFields
<1>2. message' = {at \in message : ~PassesThrough(kind, at)}
  BY <1>1 DEF ClearFields
<1>3. GoodMessage'
  <2>1. message' \subseteq message
    BY <1>2
  <2>2. IsMessage(Resource, message')
    BY <1>1, ClearedIsMessage DEF GoodMessage
  <2>3. IsShallow(message')
    BY <1>1, <2>1 DEF GoodMessage, IsShallow
  <2>4. (\A m \in Messages : NoneNegativeZero(m)) => NoneNegativeZero(message')
    BY <1>1, <2>1 DEF GoodMessage, NoneNegativeZero
  <2>5. \A k \in cleared' : \A at \in message' : ~PassesThrough(k, at)
    BY <1>1, <1>2 DEF GoodMessage
  <2> QED BY <1>1, <2>1, <2>2, <2>3, <2>4, <2>5 DEF GoodMessage
<1>4. GoodMask'
  BY <1>1 DEF GoodMask
<1>5. GoodImplied'
  <2> SUFFICES ASSUME implied # NotImplied PROVE GoodImplied'
    BY <1>1 DEF GoodImplied
  <2>1. /\ implied \subseteq cleared /\ mask # NoMask
        /\ \A path \in ToSet(mask) : \E f \in FieldsOf(Resource) :
             path = <<Name[f]>> /\ isWritable(f) /\ (implied = cleared => Has(message, <<>>, f))
        /\ filtered = {} =>
             \A f \in FieldsOf(Resource) : isWritable(f) /\ Has(message, <<>>, f) => <<Name[f]>> \in ToSet(mask)
    BY <1>1 DEF GoodImplied
  <2>2. \A f : Has(message', <<>>, f) => Has(message, <<>>, f)
    BY <1>2 DEF Has, Values
  <2>3. implied = cleared' => implied = cleared /\ message' = message
    BY <1>1, <2>1, ClearedAgain
  <2>4. \A path \in ToSet(mask) : \E f \in FieldsOf(Resource) :
          path = <<Name[f]>> /\ isWritable(f) /\ (implied = cleared' => Has(message', <<>>, f))
    BY <2>1, <2>3
  <2>5. filtered = {} =>
          \A f \in FieldsOf(Resource) : isWritable(f) /\ Has(message', <<>>, f) => <<Name[f]>> \in ToSet(mask)
    BY <2>1, <2>2
  <2> QED BY <1>1, <2>1, <2>4, <2>5 DEF GoodImplied
<1>6. GoodReport'
  BY <1>1 DEF GoodReport
<1> QED BY <1>3, <1>4, <1>5, <1>6 DEF IInv

LEMMA ImpliedFieldMaskStep ==
  ASSUME IInv, CallImpliedFieldMask
  PROVE  IInv'
<1>1. /\ GoodMessage
      /\ mask' = ImpliedFieldMask(Resource, message) /\ implied' = cleared /\ filtered' = {}
      /\ unset' = NotValidated /\ message' = message /\ cleared' = cleared
  BY DEF IInv, CallImpliedFieldMask
<1>2. GoodMessage'
  BY <1>1 DEF GoodMessage
<1>3. mask' \in Seq({path \in Seq(STRING) : Len(path) = 1})
  BY <1>1, ClientsAssumption, ImpliedMaskType
<1>4. ToSet(mask') = {<<Name[f]>> : f \in {g \in FieldsOf(Resource) : isWritable(g) /\ Has(message, <<>>, g)}}
  BY <1>1, ClientsAssumption, ImpliedPaths
<1>5. mask' # NoMask
  <2>1. mask' \in Seq(Seq(STRING))
    BY <1>3
  <2> QED BY <2>1, WalkAssumption
<1>6. GoodMask'
  <2>1. mask' \in Seq(Seq(STRING) \ {<<>>})
    <3>1. {path \in Seq(STRING) : Len(path) = 1} \subseteq Seq(STRING) \ {<<>>}
      BY EmptySeq
    <3> QED BY <1>3, <3>1, SeqMonotonic
  <2>2. AreShallow(mask')
    <3>1. ToSet(mask') \subseteq {path \in Seq(STRING) : Len(path) = 1}
      BY <1>3 DEF ToSet
    <3>2. \A path \in ToSet(mask') : Len(path) = 1
      BY <3>1
    <3>3. 1 <= MaxDepth
      BY WalkAssumption
    <3> QED BY <3>2, <3>3 DEF AreShallow
  <2> QED BY <1>1, <2>1, <2>2 DEF GoodMask
<1>7. GoodImplied'
  <2>1. \A path \in ToSet(mask') : \E f \in FieldsOf(Resource) :
          path = <<Name[f]>> /\ isWritable(f) /\ Has(message', <<>>, f)
    BY <1>1, <1>4
  <2>2. \A f \in FieldsOf(Resource) : isWritable(f) /\ Has(message', <<>>, f) => <<Name[f]>> \in ToSet(mask')
    BY <1>1, <1>4
  <2> QED BY <1>1, <1>5, <2>1, <2>2 DEF GoodImplied
<1>8. GoodReport'
  BY <1>1 DEF GoodReport
<1> QED BY <1>2, <1>6, <1>7, <1>8 DEF IInv

LEMMA ClearFieldMaskStep ==
  ASSUME IInv, NEW kind \in Kinds, CallClearFieldMask(kind)
  PROVE  IInv'
<1>1. /\ GoodMessage /\ GoodMask /\ GoodImplied
      /\ mask' = ClearFieldMask(Resource, kind, mask) /\ filtered' = filtered \cup {kind}
      /\ unset' = NotValidated
      /\ message' = message /\ cleared' = cleared /\ implied' = implied
  BY DEF IInv, CallClearFieldMask
<1>2. GoodMessage'
  BY <1>1 DEF GoodMessage
<1>3. CASE mask = NoMask
  <2>1. mask' = NoMask
    BY <1>1, <1>3 DEF ClearFieldMask
  <2>2. GoodMask'
    BY <1>1, <2>1 DEF GoodMask
  <2>3. GoodImplied'
    BY <1>1, <1>3 DEF GoodImplied
  <2> QED BY <1>1, <1>2, <2>2, <2>3 DEF IInv, GoodReport
<1>4. CASE mask # NoMask
  <2>1. mask \in Seq(Seq(STRING) \ {<<>>}) /\ AreShallow(mask)
    BY <1>1, <1>4 DEF GoodMask
  <2>2. /\ mask' \in Seq(Seq(STRING) \ {<<>>})
        /\ ToSet(mask') = {path \in ToSet(mask) : ~NamesKind(Resource, kind, path)}
    BY <1>1, <1>4, <2>1, ClearedMaskIs
  <2>3. mask' # NoMask
    <3>1. mask' \in Seq(Seq(STRING))
      BY <2>2
    <3> QED BY <3>1, WalkAssumption
  <2>4. GoodMask'
    <3>1. AreShallow(mask')
      BY <1>4, <2>1, <2>2 DEF AreShallow
    <3>2. \A k \in filtered' : \A path \in ToSet(mask') : ~NamesKind(Resource, k, path)
      BY <1>1, <1>4, <2>2 DEF GoodMask
    <3>3. filtered' \subseteq Kinds
      BY <1>1 DEF GoodMask
    <3> QED BY <2>2, <3>1, <3>2, <3>3 DEF GoodMask
  <2>5. GoodImplied'
    <3>1. filtered' # {}
      BY <1>1
    <3> QED BY <1>1, <2>2, <2>3, <3>1 DEF GoodImplied
  <2> QED BY <1>1, <1>2, <2>4, <2>5 DEF IInv, GoodReport
<1> QED BY <1>3, <1>4

LEMMA ValidateFieldsStep ==
  ASSUME IInv, NEW kind \in Kinds, CallValidateFields(kind)
  PROVE  IInv'
<1>1. /\ GoodMessage /\ GoodMask /\ GoodImplied
      /\ unset' = [kind |-> kind, paths |-> ValidateFields(Resource, message, kind, mask)]
      /\ message' = message /\ mask' = mask
      /\ cleared' = cleared /\ filtered' = filtered /\ implied' = implied
  BY DEF IInv, CallValidateFields
<1>2. GoodMessage' /\ GoodMask' /\ GoodImplied'
  BY <1>1 DEF GoodMessage, GoodMask, GoodImplied
<1>3. unset'.kind = kind /\ unset'.paths = ValidateFields(Resource, message', kind, mask')
  BY <1>1
<1>4. GoodReport'
  BY <1>3 DEF GoodReport
<1> QED BY <1>2, <1>4 DEF IInv

LEMMA NextIInv == IInv /\ [Next]_vars => IInv'
<1> SUFFICES ASSUME IInv, [Next]_vars PROVE IInv'
  OBVIOUS
<1>1. ASSUME NEW kind \in Kinds, CallClearFields(kind) PROVE IInv'
  BY <1>1, ClearFieldsStep
<1>2. ASSUME CallImpliedFieldMask PROVE IInv'
  BY <1>2, ImpliedFieldMaskStep
<1>3. ASSUME NEW kind \in Kinds, CallClearFieldMask(kind) PROVE IInv'
  BY <1>3, ClearFieldMaskStep
<1>4. ASSUME NEW kind \in Kinds, CallValidateFields(kind) PROVE IInv'
  BY <1>4, ValidateFieldsStep
<1>5. ASSUME UNCHANGED vars PROVE IInv'
  BY <1>5 DEF vars, IInv, GoodMessage, GoodMask, GoodImplied, GoodReport
<1> QED BY <1>1, <1>2, <1>3, <1>4, <1>5 DEF Next

\* Whatever is called, the message and the mask are what the calls made them,
\* and a report is of the message and the mask there are.
THEOREM PrimitivesInvariant == Spec => []IInv
<1> QED BY InitIInv, NextIInv, PTL DEF Spec

----------------------------------------------------------------------------
(* What a caller may rely on.                                              *)

LEMMA MaskOfPaths ==
  ASSUME GoodMask
  PROVE  mask = NoMask \/ mask \in Seq(Seq(STRING))
  BY DEF GoodMask

LEMMA ReportIs ==
  ASSUME IInv, Validated
  PROVE  /\ unset.paths \in Seq(FieldPaths[Resource])
         /\ ToSet(unset.paths) = {p \in FieldPaths[Resource] : IsUnset(message, unset.kind, PathsOf(mask), p)}
         /\ \A i, j \in DOMAIN unset.paths : i < j => Before(Resource, unset.paths[i], unset.paths[j])
<1>1. /\ unset.paths = ValidateFields(Resource, message, unset.kind, mask)
      /\ message \in SUBSET Location /\ IsMessage(Resource, message)
      /\ mask = NoMask \/ mask \in Seq(Seq(STRING))
      /\ Resource \in Type
  BY MaskOfPaths, ClientsAssumption DEF IInv, GoodReport, GoodMessage, Validated
<1>2. Keyed(message)
  BY <1>1, MessageIsKeyed
<1> QED BY <1>1, <1>2, ValidateFieldsReportsTheUnset

\* The types of what a service holds, a message that is one among them: clearing
\* leaves no value without the message it lies in.
THEOREM TypeCorrect == Spec => []TypeOK
<1>1. IInv => TypeOK
  <2> SUFFICES ASSUME IInv PROVE TypeOK
    OBVIOUS
  <2>1. mask = NoMask \/ \A i \in DOMAIN mask : Len(mask[i]) > 0
    <3> SUFFICES ASSUME mask # NoMask, NEW i \in DOMAIN mask PROVE Len(mask[i]) > 0
      OBVIOUS
    <3>1. mask[i] \in Seq(STRING) /\ mask[i] # <<>>
      BY DEF IInv, GoodMask
    <3>2. Len(mask[i]) \in Nat /\ Len(mask[i]) # 0
      BY <3>1, EmptySeq
    <3> QED BY <3>2
  <2>2. unset.kind \in Kinds \cup {-1}
    BY DEF IInv, GoodReport, NotValidated
  <2> QED BY <2>1, <2>2 DEF IInv, GoodMessage, GoodMask, GoodImplied, TypeOK
<1> QED BY <1>1, PrimitivesInvariant, PTL

\* ValidateFields reports exactly what is unset of the kind and in the mask, in
\* order, whatever was called before it.
THEOREM Reports == Spec => []ReportsExactlyTheUnset
<1>1. IInv => ReportsExactlyTheUnset
  BY ReportIs DEF ReportsExactlyTheUnset
<1> QED BY <1>1, PrimitivesInvariant, PTL

\* An update that clears OUTPUT_ONLY fields and then implies its mask writes what
\* the client set and may write, and nothing of the server's, whatever follows.
THEOREM ImpliedAfterClear == Spec => []ImpliedAfterClearWritesTheClientsFields
<1>1. IInv => ImpliedAfterClearWritesTheClientsFields
  <2> SUFFICES ASSUME IInv, OutputOnly \in implied
               PROVE  /\ \A at \in Written : isWritable(at[1].field) /\ ~PassesThrough(OutputOnly, at)
                      /\ filtered = {} => \A at \in message : isWritable(at[1].field) => at \in Written
    BY DEF ImpliedAfterClearWritesTheClientsFields
  <2>1. implied # NotImplied
    BY DEF NotImplied, OutputOnly
  <2>2. /\ implied \subseteq cleared /\ mask # NoMask
        /\ \A path \in ToSet(mask) : \E f \in FieldsOf(Resource) : path = <<Name[f]>> /\ isWritable(f)
        /\ filtered = {} =>
             \A f \in FieldsOf(Resource) : isWritable(f) /\ Has(message, <<>>, f) => <<Name[f]>> \in ToSet(mask)
    BY <2>1 DEF IInv, GoodImplied
  <2>3. \A at \in message : ~PassesThrough(OutputOnly, at)
    BY <2>2 DEF IInv, GoodMessage
  <2>4. \A at \in message : /\ at[1].field \in FieldsOf(Resource) /\ Has(message, <<>>, at[1].field)
                            /\ at \in Seq(StepSet) /\ at # <<>>
    BY TopIsSet DEF IInv, GoodMessage, Location
  <2>5. ASSUME NEW f \in FieldsOf(Resource), NEW at \in message
        PROVE  WrittenBy(<<Name[f]>>, at) <=> at[1].field = f
    <3> DEFINE names == [i \in DOMAIN at |-> Name[at[i].field]]
               g == at[1].field
    <3>1. g \in FieldsOf(Resource) /\ at \in Seq(StepSet) /\ at # <<>> /\ Len(at) \in Nat \ {0}
      BY <2>4, EmptySeq
    <3>2. \A i \in 1 .. Len(at) : at[i].field \in Field
      <4>1. \A i \in 1 .. Len(at) : at[i] \in StepSet
        BY <3>1
      <4> QED BY <4>1 DEF StepSet
    <3>3. names \in Seq(STRING) /\ Len(names) = Len(at) /\ names[1] = Name[g]
      BY <3>1, <3>2, WalkAssumption
    <3>4. Name[f] \in STRING /\ <<Name[f]>> \in Seq(STRING) /\ Len(<<Name[f]>>) = 1 /\ <<Name[f]>>[1] = Name[f]
      BY ClientsAssumption, FieldsAreFields, WalkAssumption
    <3> HIDE DEF names, g
    <3>5. SubSeq(names, 1, 1) \in Seq(STRING) /\ Len(SubSeq(names, 1, 1)) = 1 /\ SubSeq(names, 1, 1)[1] = names[1]
      <4>1. 1 \in 0 .. Len(names) /\ 1 \in 1 .. 1
        BY <3>1, <3>3
      <4> QED BY <3>3, <4>1, BeginningIsPath
    <3>6. SubSeq(<<Name[f]>>, 1, 1) = <<Name[f]>>
      BY <3>4, SubSeqFull
    <3>7. IsPrefix(<<Name[f]>>, names) <=> Name[f] = Name[g]
      <4>1. IsPrefix(<<Name[f]>>, names) <=> <<Name[f]>> = SubSeq(names, 1, 1)
        BY <3>1, <3>3, <3>4, <3>6 DEF IsPrefix
      <4>2. <<Name[f]>> = SubSeq(names, 1, 1) => Name[f] = Name[g]
        BY <3>3, <3>4, <3>5
      <4>3. Name[f] = Name[g] => <<Name[f]>> = SubSeq(names, 1, 1)
        BY <3>3, <3>4, <3>5, SeqEqual
      <4> QED BY <4>1, <4>2, <4>3
    <3>8. Name[f] = Name[g] => f = g
      <4>1. Resource \in Type /\ Resource # NoType
        BY ClientsAssumption, SchemaAssumption
      <4>2. f \in ByName(Resource, Name[f]) /\ (Name[f] = Name[g] => g \in ByName(Resource, Name[f]))
        BY <3>1, <4>1 DEF ByName
      <4> QED BY <4>1, <4>2, ByNameOnce
    <3>9. WrittenBy(<<Name[f]>>, at) <=> IsPrefix(<<Name[f]>>, names)
      BY DEF WrittenBy, names
    <3> QED BY <3>7, <3>8, <3>9 DEF g
  <2>6. ASSUME NEW at \in Written PROVE isWritable(at[1].field) /\ ~PassesThrough(OutputOnly, at)
    <3>1. PICK path \in ToSet(mask) : at \in message /\ WrittenBy(path, at)
      BY DEF Written
    <3>2. PICK f \in FieldsOf(Resource) : path = <<Name[f]>> /\ isWritable(f)
      BY <2>2
    <3> QED BY <2>3, <2>5, <3>1, <3>2
  <2>7. ASSUME filtered = {}, NEW at \in message, isWritable(at[1].field) PROVE at \in Written
    <3> DEFINE f == at[1].field
    <3>1. f \in FieldsOf(Resource) /\ <<Name[f]>> \in ToSet(mask)
      BY <2>2, <2>4, <2>7
    <3>2. WrittenBy(<<Name[f]>>, at)
      BY <2>5, <3>1
    <3> QED BY <2>2, <3>1, <3>2 DEF Written
  <2> QED BY <2>6, <2>7
<1> QED BY <1>1, PrimitivesInvariant, PTL

\* No client's message holds a -0.0.  (PrimitivesNegativeZero shows the need.)
NoClientSendsNegativeZero == \A m \in Messages : NoneNegativeZero(m)

\* Validation of an update whose mask the message implies finds nothing unset but
\* in the messages the resource holds, if no float is -0.0.
THEOREM ImpliedMaskIsOfWhatIsSet ==
  ASSUME NoClientSendsNegativeZero
  PROVE  Spec => []ImpliedMaskNamesWhatIsSet
<1>1. IInv => ImpliedMaskNamesWhatIsSet
  <2> SUFFICES ASSUME IInv, Validated, implied = cleared, NEW i \in DOMAIN unset.paths
               PROVE  Len(unset.paths[i]) > 1
    BY DEF ImpliedMaskNamesWhatIsSet
  <2> DEFINE p == unset.paths[i]
  <2>1. p \in FieldPaths[Resource] /\ IsUnset(message, unset.kind, PathsOf(mask), p)
    <3>1. p \in ToSet(unset.paths)
      BY DEF ToSet
    <3> QED BY <3>1, ReportIs
  <2>2. p \in Seq(Field) /\ IsFieldPath(Resource, p)
    BY <2>1, ClientsAssumption, FieldPathsIs
  <2> HIDE DEF p
  <2>3. Len(p) \in Nat \ {0}
    BY <2>2, EmptySeq DEF IsFieldPath
  <2>4. implied # NotImplied
    <3>1. cleared \subseteq Nat
      BY ClientsAssumption DEF IInv, GoodMessage
    <3> QED BY <3>1 DEF NotImplied
  <2>5. /\ mask # NoMask
        /\ \A path \in ToSet(mask) : \E f \in FieldsOf(Resource) : path = <<Name[f]>> /\ Has(message, <<>>, f)
    BY <2>4 DEF IInv, GoodImplied
  <2>6. ASSUME Len(p) = 1 PROVE FALSE
    <3> DEFINE f == p[1]
    <3>1. f \in FieldsOf(Resource) /\ p = <<f>> /\ f \in Field
      <4>1. f \in Field
        BY <2>2, <2>6
      <4>2. <<f>> \in Seq(Field) /\ Len(<<f>>) = 1 /\ <<f>>[1] = f
        BY <4>1
      <4>3. p = <<f>>
        BY <2>2, <2>6, <4>2, SeqEqual
      <4> QED BY <2>2, <4>1, <4>3 DEF IsFieldPath
    <3> HIDE DEF f
    <3>2. PathsOf(mask) = ToSet(mask) /\ ToSet(mask) \subseteq Seq(STRING)
      <4>1. mask \in Seq(Seq(STRING))
        BY <2>5 DEF IInv, GoodMask
      <4> QED BY <2>5, <4>1 DEF PathsOf, ToSet
    <3>3. ~isFieldPopulated(message, <<>>, f) /\ Named(ToSet(mask), f).whole
      <4>1. message \subseteq Location /\ Keyed(message)
        BY MessageIsKeyed DEF IInv, GoodMessage
      <4> QED BY <2>1, <3>1, <3>2, <4>1, UnsetField
    <3>4. Has(message, <<>>, f)
      <4>1. <<Name[f]>> \in ToSet(mask)
        BY <3>2, <3>3, EveryFieldIsOfNoMask DEF Named, maskedPaths
      <4>2. PICK g \in FieldsOf(Resource) : <<Name[f]>> = <<Name[g]>> /\ Has(message, <<>>, g)
        BY <2>5, <4>1
      <4>3. Name[f] = Name[g]
        BY <4>2
      <4>4. Resource \in Type /\ Resource # NoType
        BY ClientsAssumption, SchemaAssumption
      <4>5. f \in ByName(Resource, Name[f]) /\ g \in ByName(Resource, Name[f])
        BY <3>1, <4>3, <4>4 DEF ByName
      <4>6. f = g
        BY <4>4, <4>5, ByNameOnce
      <4> QED BY <4>2, <4>6
    <3>5. ~HasPresence(f) /\ Values(message, <<>>, f) \ {NegativeZero} = {}
      BY <3>3, <3>4 DEF isFieldPopulated
    <3>6. Append(<<>>, Step(f, NegativeZero)) \in message
      BY <3>4, <3>5 DEF Has, Values
    <3>7. Append(<<>>, Step(f, NegativeZero)) = <<Step(f, NegativeZero)>>
      OBVIOUS
    <3>8. DOMAIN <<Step(f, NegativeZero)>> = {1} /\ <<Step(f, NegativeZero)>>[1].key = NegativeZero
      BY DEF Step
    <3>9. NoneNegativeZero(message)
      BY DEF IInv, GoodMessage, NoClientSendsNegativeZero
    <3> QED BY <3>6, <3>7, <3>8, <3>9 DEF NoneNegativeZero
  <2>7. Len(p) > 1
    <3>1. \A n \in Nat \ {0} : n # 1 => n > 1
      OBVIOUS
    <3> QED BY <2>3, <2>6, <3>1
  <2> QED BY <2>7 DEF p
<1> QED BY <1>1, PrimitivesInvariant, PTL

\* No field is both the client's to give and the server's to set.
NoFieldIsBoth == \A f \in Field : ~(HasKind(f, Required) /\ HasKind(f, OutputOnly))

\* A client is never told that a field of the server's is missing, or one beneath
\* it, once OUTPUT_ONLY is out of the message and of the mask.
THEOREM ServerFieldsAreNotBlamed ==
  ASSUME NoFieldIsBoth
  PROVE  Spec => []NeverBlamedForServerFields
<1>1. IInv => NeverBlamedForServerFields
  <2> SUFFICES ASSUME IInv, Validated, unset.kind = Required, OutputOnly \in cleared,
                      mask = NoMask \/ OutputOnly \in filtered,
                      NEW n \in DOMAIN unset.paths, NEW j \in DOMAIN unset.paths[n],
                      HasKind(unset.paths[n][j], OutputOnly)
               PROVE  FALSE
    BY DEF NeverBlamedForServerFields
  <2> DEFINE p == unset.paths[n]
  <2>1. p \in FieldPaths[Resource] /\ IsUnset(message, Required, PathsOf(mask), p)
    <3>1. p \in ToSet(unset.paths)
      BY DEF ToSet
    <3> QED BY <3>1, ReportIs
  <2>2. p \in Seq(Field) /\ IsFieldPath(Resource, p)
    BY <2>1, ClientsAssumption, FieldPathsIs
  <2>3. j \in 1 .. Len(p) /\ HasKind(p[j], OutputOnly) /\ Len(p) \in Nat /\ p[j] \in Field
    BY <2>2
  <2> HIDE DEF p
  <2>4. HasKind(Last(p), Required)
    BY <2>1 DEF IsUnset
  <2>5. PICK i \in 0 .. Len(p) : FirstNamed(PathsOf(mask), p, i) /\ SetFrom(message, p, i)
    BY <2>1 DEF IsUnset
  <2>6. j # Len(p)
    BY <2>3, <2>4 DEF NoFieldIsBoth, Last
  <2>7. j \in 1 .. Len(p) - 1
    BY <2>3, <2>6
  <2>8. CASE j >= i
    <3> DEFINE b == SubSeq(p, 1, j)
               at == LocationOf(b)
    <3>1. at \in message
      <4>1. j \in i .. Len(p) - 1 /\ j > 0
        BY <2>5, <2>7, <2>8
      <4> QED BY <2>5, <4>1 DEF SetFrom
    <3>2. b \in Seq(Field) /\ Len(b) = j /\ b[j] = p[j]
      <4>1. j \in 0 .. Len(p) /\ j \in 1 .. j
        BY <2>3
      <4> QED BY <2>2, <4>1, BeginningIsPath
    <3> HIDE DEF b
    <3>3. at = [k \in 1 .. j |-> Step(b[k], 0)]
      BY <3>2 DEF LocationOf
    <3>4. j \in DOMAIN at /\ at[j].field = p[j]
      BY <2>3, <3>2, <3>3 DEF Step
    <3> HIDE DEF at
    <3>5. PassesThrough(OutputOnly, at)
      BY <2>3, <3>4 DEF PassesThrough
    <3> QED BY <3>1, <3>5 DEF IInv, GoodMessage
  <2>9. CASE j < i
    <3>1. i # 0 /\ i \in 1 .. Len(p)
      BY <2>3, <2>9
    <3>2. PathsOf(mask) # EveryField /\ NamesOf(SubSeq(p, 1, i)) \in PathsOf(mask)
      BY <2>5, <3>1 DEF FirstNamed
    <3>3. mask # NoMask /\ NamesOf(SubSeq(p, 1, i)) \in ToSet(mask)
      BY <3>2 DEF PathsOf
    <3> DEFINE path == NamesOf(SubSeq(p, 1, i))
               q == SubSeq(p, 1, j)
    <3>4. ~NamesKind(Resource, OutputOnly, path)
      BY <3>3 DEF IInv, GoodMask
    <3>5. /\ SubSeq(p, 1, i) \in Seq(Field) /\ Len(SubSeq(p, 1, i)) = i
          /\ \A k \in 1 .. i : SubSeq(p, 1, i)[k] = p[k]
      BY <2>2, BeginningIsPath
    <3>6. path \in Seq(STRING) /\ Len(path) = i /\ \A k \in 1 .. i : path[k] = Name[p[k]]
      <4>1. path \in Seq(STRING) /\ Len(path) = Len(SubSeq(p, 1, i))
        BY <3>5, NamesType
      <4>2. \A k \in 1 .. i : path[k] = Name[SubSeq(p, 1, i)[k]]
        BY <3>5, NamesType
      <4> QED BY <3>5, <4>1, <4>2
    <3>7. q \in Seq(Field) /\ Len(q) = j /\ \A k \in 1 .. j : q[k] = p[k]
      <4>1. j \in 0 .. Len(p)
        BY <2>3
      <4> QED BY <2>2, <4>1, BeginningIsPath
    <3> HIDE DEF path, q
    <3>8. IsFieldPath(Resource, q) /\ Last(q) = p[j]
      <4>1. q # <<>> /\ Last(q) = p[j] /\ q[1] = p[1]
        BY <2>3, <3>7, EmptySeq DEF Last
      <4>2. \A k \in 1 .. j - 1 : k \in 1 .. Len(p) - 1 /\ q[k] = p[k] /\ q[k + 1] = p[k + 1]
        BY <2>3, <3>7
      <4> QED BY <2>2, <3>7, <4>1, <4>2 DEF IsFieldPath
    <3>9. NamesOf(q) \in Seq(STRING) /\ Len(NamesOf(q)) = j /\ \A k \in 1 .. j : NamesOf(q)[k] = Name[p[k]]
      <4>1. NamesOf(q) \in Seq(STRING) /\ Len(NamesOf(q)) = Len(q)
        BY <3>7, NamesType
      <4>2. \A k \in 1 .. j : NamesOf(q)[k] = Name[q[k]]
        BY <3>7, NamesType
      <4> QED BY <3>7, <4>1, <4>2
    <3>10. IsPrefix(NamesOf(q), path)
      <4>1. SubSeq(NamesOf(q), 1, j) = NamesOf(q)
        BY <3>9, SubSeqFull
      <4>2. SubSeq(path, 1, j) \in Seq(STRING) /\ Len(SubSeq(path, 1, j)) = j /\ \A k \in 1 .. j : SubSeq(path, 1, j)[k] = path[k]
        <5>1. j \in 0 .. Len(path)
          BY <2>3, <2>9, <3>6
        <5> QED BY <3>6, <5>1, BeginningIsPath
      <4>3. \A k \in 1 .. j : SubSeq(path, 1, j)[k] = NamesOf(q)[k]
        BY <2>9, <3>6, <3>9, <4>2
      <4>4. NamesOf(q) = SubSeq(path, 1, j)
        BY <3>9, <4>2, <4>3, SeqEqual
      <4>5. j <= i
        BY <2>3, <2>9
      <4> QED BY <3>6, <3>9, <4>1, <4>4, <4>5 DEF IsPrefix
    <3>11. NamesKind(Resource, OutputOnly, path)
      BY <2>3, <3>6, <3>7, <3>8, <3>10, ClientsAssumption, NamesKindIs
    <3> QED BY <3>4, <3>11
  <2> QED BY <2>3, <2>8, <2>9
<1> QED BY <1>1, PrimitivesInvariant, PTL

----------------------------------------------------------------------------
(* What a call does to the mask.                                           *)

\* Of a mask that is short enough, a path passes through the kind at a field
\* path that is.
LEMMA PassesAtAFieldPath ==
  ASSUME NEW path \in Seq(STRING), Len(path) <= MaxDepth, NEW kind
  PROVE  NamesKind(Resource, kind, path)
         <=> \E p \in FieldPaths[Resource] : IsPrefix(NamesOf(p), path) /\ HasKind(Last(p), kind)
<1>1. Resource \in Type
  BY ClientsAssumption
<1>2. NamesKind(Resource, kind, path)
      <=> \E p \in Seq(Field) : IsFieldPath(Resource, p) /\ IsPrefix(NamesOf(p), path) /\ HasKind(Last(p), kind)
  BY <1>1, NamesKindIs
<1>3. ASSUME NEW p \in Seq(Field), IsPrefix(NamesOf(p), path) PROVE Len(p) <= MaxDepth
  <2>1. Len(NamesOf(p)) = Len(p) /\ Len(p) \in Nat /\ Len(path) \in Nat
    BY DEF NamesOf
  <2>2. Len(p) <= Len(path)
    BY <1>3, <2>1 DEF IsPrefix
  <2> QED BY <2>1, <2>2, WalkAssumption
<1> QED BY <1>1, <1>2, <1>3, FieldPathsIs

\* ClearFieldMask takes out of a mask the paths that name a field of the kind or
\* pass through one, and leaves the others in their order.
THEOREM FilterTakesOutTheKind == Spec => FilterTakesOutExactlyTheKind
<1>1. ASSUME IInv, NEW kind \in Kinds, mask # NoMask, CallClearFieldMask(kind)
      PROVE  LET passes(path) == \E p \in FieldPaths[Resource] : IsPrefix(NamesOf(p), path) /\ HasKind(Last(p), kind)
             IN /\ ToSet(mask') = {path \in ToSet(mask) : ~passes(path)}
                /\ \A i, j \in DOMAIN mask' : i < j =>
                     \E k, l \in DOMAIN mask : k < l /\ mask[k] = mask'[i] /\ mask[l] = mask'[j]
  <2>1. mask \in Seq(Seq(STRING)) /\ \A path \in ToSet(mask) : Len(path) <= MaxDepth
    BY <1>1 DEF IInv, GoodMask, AreShallow
  <2>2. mask' = ClearFieldMask(Resource, kind, mask)
    BY <1>1 DEF CallClearFieldMask
  <2>3. /\ ToSet(mask') = {path \in ToSet(mask) : ~NamesKind(Resource, kind, path)}
        /\ \A i, j \in DOMAIN mask' : i < j =>
             \E k, l \in DOMAIN mask : k < l /\ mask[k] = mask'[i] /\ mask[l] = mask'[j]
    BY <1>1, <2>1, <2>2, ClearedMaskIs
  <2>4. \A path \in ToSet(mask) :
          NamesKind(Resource, kind, path)
          <=> \E p \in FieldPaths[Resource] : IsPrefix(NamesOf(p), path) /\ HasKind(Last(p), kind)
    <3>1. ToSet(mask) \subseteq Seq(STRING)
      BY <2>1 DEF ToSet
    <3> QED BY <2>1, <3>1, PassesAtAFieldPath
  <2> QED BY <2>3, <2>4
<1> DEFINE Filtered ==
             \A kind \in Kinds :
               mask # NoMask /\ kind \notin filtered /\ CallClearFieldMask(kind) =>
                 LET passes(path) == \E p \in FieldPaths[Resource] : IsPrefix(NamesOf(p), path) /\ HasKind(Last(p), kind)
                 IN /\ ToSet(mask') = {path \in ToSet(mask) : ~passes(path)}
                    /\ \A i, j \in DOMAIN mask' : i < j =>
                         \E k, l \in DOMAIN mask : k < l /\ mask[k] = mask'[i] /\ mask[l] = mask'[j]
<1>2. IInv /\ [Next]_vars => [Filtered]_vars
  BY <1>1
<1> QED BY <1>2, PrimitivesInvariant, PTL DEF Spec, FilterTakesOutExactlyTheKind

=============================================================================
