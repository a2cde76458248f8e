------------------------- MODULE FieldBehaviorProofs -------------------------
(***************************************************************************)
(* The primitives, for any schema, message, kind and mask.  ValidateFields *)
(* reports exactly the unset fields the mask covers, in declaration order, *)
(* depth first.  The walk yields names; what is proved of it is that they  *)
(* are the names of a sorted list of field paths, first of one field, then *)
(* of the loop over the fields, then of the recursion.  Then: what a       *)
(* cleared message is, where a mask path leads, and what an implied and a  *)
(* filtered mask hold.                                                     *)
(***************************************************************************)
EXTENDS FieldWalk, SelectionProofs

----------------------------------------------------------------------------
(* Sequences with an element in front.                                     *)

LEMMA InFront ==
  ASSUME NEW S, NEW x \in S, NEW q \in Seq(S)
  PROVE  LET p == <<x>> \o q
         IN /\ p \in Seq(S) /\ p # <<>>
            /\ Len(p) = Len(q) + 1 /\ Len(q) \in Nat
            /\ DOMAIN p = 1 .. Len(q) + 1 /\ DOMAIN q = 1 .. Len(q)
            /\ p[1] = x
            /\ \A i \in 1 .. Len(q) : p[i + 1] = q[i]
            /\ Head(p) = x /\ Tail(p) = q
<1> DEFINE p == <<x>> \o q
<1>1. <<x>> \in Seq(S) /\ Len(<<x>>) = 1 /\ <<x>>[1] = x
  OBVIOUS
<1>2. /\ p \in Seq(S) /\ Len(p) = 1 + Len(q)
      /\ \A i \in 1 .. 1 + Len(q) : p[i] = IF i <= 1 THEN <<x>>[i] ELSE q[i - 1]
  BY <1>1, ConcatProperties
<1>3. Len(q) \in Nat /\ DOMAIN q = 1 .. Len(q)
  OBVIOUS
<1> HIDE DEF p
<1>4. p[1] = x /\ \A i \in 1 .. Len(q) : p[i + 1] = q[i]
  BY <1>1, <1>2, <1>3
<1>5. p # <<>> /\ DOMAIN p = 1 .. Len(q) + 1
  BY <1>2, <1>3
<1>6. Head(p) = x
  BY <1>2, <1>4, <1>5
<1>7. Tail(p) = q
  <2>1. Tail(p) \in Seq(S) /\ Len(Tail(p)) = Len(q) /\ \A i \in 1 .. Len(q) : Tail(p)[i] = p[i + 1]
    BY <1>2, <1>3, <1>5, HeadTailProperties
  <2> QED BY <1>4, <2>1, SeqEqual
<1> QED BY <1>2, <1>3, <1>4, <1>5, <1>6, <1>7 DEF p

LEMMA HasFront ==
  ASSUME NEW S, NEW p \in Seq(S), p # <<>>
  PROVE  p = <<Head(p)>> \o Tail(p) /\ Head(p) = p[1] /\ Head(p) \in S /\ Tail(p) \in Seq(S)
<1>1. /\ Head(p) \in S /\ Tail(p) \in Seq(S) /\ Len(Tail(p)) = Len(p) - 1
      /\ \A i \in 1 .. Len(Tail(p)) : Tail(p)[i] = p[i + 1]
  BY HeadTailProperties
<1>2. Head(p) = p[1] /\ Len(p) \in Nat \ {0}
  OBVIOUS
<1> DEFINE r == <<Head(p)>> \o Tail(p)
<1>3. /\ r \in Seq(S) /\ Len(r) = Len(Tail(p)) + 1 /\ r[1] = Head(p)
      /\ \A i \in 1 .. Len(Tail(p)) : r[i + 1] = Tail(p)[i]
  BY <1>1, InFront
<1> HIDE DEF r
<1>4. ASSUME NEW i \in 1 .. Len(p) PROVE r[i] = p[i]
  <2>1. CASE i = 1
    BY <1>2, <1>3, <2>1
  <2>2. CASE i # 1
    <3>1. i - 1 \in 1 .. Len(Tail(p)) /\ (i - 1) + 1 = i
      BY <1>1, <1>2, <2>2
    <3> QED BY <1>1, <1>3, <3>1
  <2> QED BY <2>1, <2>2
<1>5. r = p
  BY <1>1, <1>2, <1>3, <1>4, SeqEqual
<1> QED BY <1>1, <1>2, <1>5 DEF r

\* What is in front stays in front of each beginning, and of what is left
\* without the last element.
LEMMA InFrontOfPrefix ==
  ASSUME NEW S, NEW x \in S, NEW q \in Seq(S), NEW i \in 0 .. Len(q)
  PROVE  SubSeq(<<x>> \o q, 1, i + 1) = <<x>> \o SubSeq(q, 1, i)
<1> DEFINE p == <<x>> \o q
           u == SubSeq(p, 1, i + 1)
           r == SubSeq(q, 1, i)
           v == <<x>> \o r
<1>1. /\ p \in Seq(S) /\ Len(p) = Len(q) + 1 /\ Len(q) \in Nat /\ p[1] = x
      /\ \A j \in 1 .. Len(q) : p[j + 1] = q[j]
  BY InFront
<1>2. r \in Seq(S) /\ Len(r) = i /\ \A j \in 1 .. i : r[j] = q[j]
  <2>1. \A j \in 1 .. i : q[j] \in S
    OBVIOUS
  <2> QED BY <2>1, SubSeqProperties
<1> HIDE DEF p
<1>3. u \in Seq(S) /\ Len(u) = i + 1 /\ \A j \in 1 .. i + 1 : u[j] = p[j]
  <2>1. \A j \in 1 .. i + 1 : p[j] \in S
    BY <1>1
  <2> QED BY <2>1, SubSeqProperties
<1> HIDE DEF r
<1>4. v \in Seq(S) /\ Len(v) = i + 1 /\ v[1] = x /\ \A j \in 1 .. i : v[j + 1] = r[j]
  BY <1>2, InFront
<1> HIDE DEF u, v
<1>5. ASSUME NEW j \in 1 .. i + 1 PROVE u[j] = v[j]
  <2>1. CASE j = 1
    BY <1>1, <1>3, <1>4, <2>1
  <2>2. CASE j # 1
    <3>1. PICK k \in 1 .. i : j = k + 1
      <4>1. j - 1 \in 1 .. i /\ j = (j - 1) + 1
        BY <2>2
      <4> QED BY <4>1
    <3>2. k \in 1 .. Len(q)
      BY <1>1
    <3>3. p[k + 1] = q[k] /\ v[k + 1] = r[k] /\ r[k] = q[k]
      BY <1>1, <1>2, <1>4, <3>2
    <3> QED BY <1>3, <3>1, <3>3
  <2> QED BY <2>1, <2>2
<1>6. u = v
  BY <1>3, <1>4, <1>5, SeqEqual
<1> QED BY <1>6 DEF p, r, u, v

LEMMA InFrontFirst ==
  ASSUME NEW S, NEW x \in S, NEW q \in Seq(S)
  PROVE  SubSeq(<<x>> \o q, 1, 1) = <<x>>
<1> DEFINE p == <<x>> \o q
<1>1. p \in Seq(S) /\ Len(p) = Len(q) + 1 /\ Len(q) \in Nat /\ p[1] = x
  BY InFront
<1> HIDE DEF p
<1>2. \A j \in 1 .. 1 : p[j] \in S
  BY <1>1
<1>3. SubSeq(p, 1, 1) \in Seq(S) /\ Len(SubSeq(p, 1, 1)) = 1 /\ SubSeq(p, 1, 1)[1] = x
  BY <1>1, <1>2, SubSeqProperties
<1>4. SubSeq(p, 1, 1) = <<x>>
  <2>1. <<x>> \in Seq(S) /\ Len(<<x>>) = 1 /\ <<x>>[1] = x
    OBVIOUS
  <2>2. \A u \in Seq(S) : Len(u) = 1 /\ u[1] = x => u = <<x>>
    BY <2>1, SeqEqual
  <2> QED BY <1>3, <2>2
<1> QED BY <1>4 DEF p

LEMMA InFrontOfRest ==
  ASSUME NEW S, NEW x \in S, NEW q \in Seq(S), q # <<>>
  PROVE  Front(<<x>> \o q) = <<x>> \o Front(q) /\ Last(<<x>> \o q) = Last(q) /\ Front(q) \in Seq(S)
<1> DEFINE p == <<x>> \o q
<1>1. p \in Seq(S) /\ Len(p) = Len(q) + 1 /\ Len(q) \in Nat \ {0} /\ \A j \in 1 .. Len(q) : p[j + 1] = q[j]
  BY InFront
<1>2. Len(q) - 1 \in 0 .. Len(q) /\ (Len(q) - 1) + 1 = Len(q) /\ Len(q) \in 1 .. Len(q)
  BY <1>1
<1>3. SubSeq(p, 1, Len(q)) = <<x>> \o SubSeq(q, 1, Len(q) - 1)
  BY <1>2, InFrontOfPrefix
<1> HIDE DEF p
<1>4. Front(p) = SubSeq(p, 1, Len(q)) /\ Front(q) = SubSeq(q, 1, Len(q) - 1)
  BY <1>1 DEF Front
<1>5. Last(p) = Last(q)
  BY <1>1, <1>2 DEF Last
<1>6. Front(q) \in Seq(S)
  <2>1. \A j \in 1 .. Len(q) - 1 : q[j] \in S
    BY <1>1
  <2> QED BY <1>1, <1>4, <2>1, SubSeqProperties
<1> QED BY <1>3, <1>4, <1>5, <1>6 DEF p

----------------------------------------------------------------------------
(* The schema, and field paths with a field in front.                      *)

LEMMA FieldsAreFields ==
  ASSUME NEW t \in Type, NEW f \in FieldsOf(t)
  PROVE  f \in Field
  BY SchemaAssumption DEF FieldsOf, ToSet

LEMMA ByNameOnce ==
  ASSUME NEW t \in Type, NEW name, NEW f \in ByName(t, name), NEW g \in ByName(t, name)
  PROVE  f = g /\ f \in Field
<1>1. t # NoType
  BY SchemaAssumption
<1>2. f \in FieldsOf(t) /\ Name[f] = name /\ g \in FieldsOf(t) /\ Name[g] = name
  BY <1>1 DEF ByName
<1>3. PICK i \in DOMAIN Fields[t], j \in DOMAIN Fields[t] : f = Fields[t][i] /\ g = Fields[t][j]
  BY <1>2 DEF FieldsOf, ToSet
<1>4. i = j
  BY <1>2, <1>3, SchemaAssumption
<1> QED BY <1>2, <1>3, <1>4, FieldsAreFields

\* No two places of a message's declaration hold the same field.
LEMMA PositionIs ==
  ASSUME NEW t \in Type, NEW i \in DOMAIN Fields[t]
  PROVE  Position(t, Fields[t][i]) = i /\ Fields[t][i] \in FieldsOf(t)
<1>1. \A j \in DOMAIN Fields[t] : Fields[t][j] = Fields[t][i] => j = i
  BY SchemaAssumption
<1>2. Fields[t][i] \in FieldsOf(t)
  BY DEF FieldsOf, ToSet
<1> QED BY <1>1, <1>2 DEF Position

LEMMA PositionOf ==
  ASSUME NEW t \in Type, NEW f \in FieldsOf(t)
  PROVE  Position(t, f) \in DOMAIN Fields[t] /\ Fields[t][Position(t, f)] = f
<1>1. PICK i \in DOMAIN Fields[t] : Fields[t][i] = f
  BY DEF FieldsOf, ToSet
<1> QED BY <1>1, PositionIs

LEMMA HeldType ==
  ASSUME NEW f \in Field, isSingularMessage(f)
  PROVE  MessageOf[f] \in Type
  BY SchemaAssumption DEF isSingularMessage, HoldsMessage

LEMMA EveryFieldIsOfNoMask == \A paths \in SUBSET Seq(STRING) : paths # EveryField
BY WalkAssumption DEF EveryField

\* The names of a path are a name each.
LEMMA NamesType ==
  ASSUME NEW p \in Seq(Field)
  PROVE  /\ NamesOf(p) \in Seq(STRING) /\ Len(NamesOf(p)) = Len(p)
         /\ \A i \in 1 .. Len(p) : NamesOf(p)[i] = Name[p[i]]
<1>1. DOMAIN p = 1 .. Len(p) /\ Len(p) \in Nat
  OBVIOUS
<1>2. \A i \in 1 .. Len(p) : Name[p[i]] \in STRING
  BY WalkAssumption
<1> DEFINE n == Len(p)
           names == [i \in 1 .. n |-> Name[p[i]]]
<1>3. NamesOf(p) = names
  BY <1>1 DEF NamesOf
<1>4. \A i \in 1 .. n : names[i] = Name[p[i]]
  OBVIOUS
<1>5. names \in [1 .. n -> STRING]
  BY <1>2
<1> HIDE DEF names
<1>6. names \in Seq(STRING) /\ Len(names) = n
  BY <1>1, <1>5
<1> QED BY <1>3, <1>4, <1>6

LEMMA NamesInFront ==
  ASSUME NEW f \in Field, NEW q \in Seq(Field)
  PROVE  /\ NamesOf(<<f>> \o q) = <<Name[f]>> \o NamesOf(q)
         /\ NamesOf(q) \in Seq(STRING) /\ Len(NamesOf(q)) = Len(q)
         /\ Name[f] \in STRING
<1> DEFINE p == <<f>> \o q
           n == NamesOf(q)
           r == <<Name[f]>> \o n
<1>1. /\ p \in Seq(Field) /\ Len(p) = Len(q) + 1 /\ Len(q) \in Nat /\ p[1] = f
      /\ DOMAIN p = 1 .. Len(q) + 1 /\ DOMAIN q = 1 .. Len(q)
      /\ \A i \in 1 .. Len(q) : p[i + 1] = q[i]
  BY InFront
<1>2. /\ n \in Seq(STRING) /\ Len(n) = Len(q) /\ \A i \in 1 .. Len(q) : n[i] = Name[q[i]]
      /\ Name[f] \in STRING
  BY WalkAssumption DEF NamesOf
<1> HIDE DEF p, n
<1>3. /\ r \in Seq(STRING) /\ Len(r) = Len(q) + 1 /\ r[1] = Name[f]
      /\ \A i \in 1 .. Len(q) : r[i + 1] = n[i]
  BY <1>2, InFront
<1>4. /\ NamesOf(p) \in Seq(STRING) /\ Len(NamesOf(p)) = Len(q) + 1
      /\ \A i \in 1 .. Len(q) + 1 : NamesOf(p)[i] = Name[p[i]]
  BY <1>1, WalkAssumption DEF NamesOf
<1> HIDE DEF r
<1>5. ASSUME NEW i \in 1 .. Len(q) + 1 PROVE NamesOf(p)[i] = r[i]
  <2>1. CASE i = 1
    BY <1>1, <1>3, <1>4, <2>1
  <2>2. CASE i # 1
    <3>1. PICK k \in 1 .. Len(q) : i = k + 1
      <4>1. i - 1 \in 1 .. Len(q) /\ i = (i - 1) + 1
        BY <1>1, <2>2
      <4> QED BY <4>1
    <3>2. p[k + 1] = q[k] /\ n[k] = Name[q[k]] /\ r[k + 1] = n[k]
      BY <1>1, <1>2, <1>3
    <3> QED BY <1>4, <3>1, <3>2
  <2> QED BY <2>1, <2>2
<1>6. NamesOf(p) = r
  BY <1>3, <1>4, <1>5, SeqEqual
<1> QED BY <1>2, <1>6 DEF p, n, r

LEMMA LocationInFront ==
  ASSUME NEW f \in Field, NEW q \in Seq(Field)
  PROVE  /\ LocationOf(<<f>> \o q) = <<Step(f, 0)>> \o LocationOf(q)
         /\ LocationOf(q) \in Location
         /\ Step(f, 0) \in StepSet
<1> DEFINE p == <<f>> \o q
           n == LocationOf(q)
           st == Step(f, 0)
           r == <<st>> \o n
<1>0. \A g \in Field : Step(g, 0) \in StepSet
  BY SchemaAssumption DEF Step, StepSet
<1>1. /\ p \in Seq(Field) /\ Len(p) = Len(q) + 1 /\ Len(q) \in Nat /\ p[1] = f
      /\ DOMAIN p = 1 .. Len(q) + 1 /\ DOMAIN q = 1 .. Len(q)
      /\ \A i \in 1 .. Len(q) : p[i + 1] = q[i]
  BY InFront
<1>2. n \in Seq(StepSet) /\ Len(n) = Len(q) /\ \A i \in 1 .. Len(q) : n[i] = Step(q[i], 0)
  <2>1. \A i \in 1 .. Len(q) : Step(q[i], 0) \in StepSet
    BY <1>0
  <2>2. n = [i \in 1 .. Len(q) |-> Step(q[i], 0)]
    BY <1>1 DEF LocationOf
  <2> QED BY <1>1, <2>1, <2>2
<1> HIDE DEF p, n, st
<1>3. /\ r \in Seq(StepSet) /\ Len(r) = Len(q) + 1 /\ r[1] = st
      /\ \A i \in 1 .. Len(q) : r[i + 1] = n[i]
  BY <1>0, <1>2, InFront DEF st
<1>4. /\ LocationOf(p) \in Seq(StepSet) /\ Len(LocationOf(p)) = Len(q) + 1
      /\ \A i \in 1 .. Len(q) + 1 : LocationOf(p)[i] = Step(p[i], 0)
  <2>1. \A i \in 1 .. Len(q) + 1 : Step(p[i], 0) \in StepSet
    BY <1>0, <1>1
  <2>2. LocationOf(p) = [i \in 1 .. Len(q) + 1 |-> Step(p[i], 0)]
    BY <1>1 DEF LocationOf
  <2> QED BY <1>1, <2>1, <2>2
<1> HIDE DEF r
<1>5. ASSUME NEW i \in 1 .. Len(q) + 1 PROVE LocationOf(p)[i] = r[i]
  <2>1. CASE i = 1
    BY <1>1, <1>3, <1>4, <2>1 DEF st
  <2>2. CASE i # 1
    <3>1. PICK k \in 1 .. Len(q) : i = k + 1
      <4>1. i - 1 \in 1 .. Len(q) /\ i = (i - 1) + 1
        BY <1>1, <2>2
      <4> QED BY <4>1
    <3>2. p[k + 1] = q[k] /\ n[k] = Step(q[k], 0) /\ r[k + 1] = n[k]
      BY <1>1, <1>2, <1>3
    <3> QED BY <1>4, <3>1, <3>2
  <2> QED BY <2>1, <2>2
<1>6. LocationOf(p) = r
  BY <1>3, <1>4, <1>5, SeqEqual
<1> QED BY <1>0, <1>2, <1>6 DEF p, n, r, st, Location

\* A field path is one field, or a singular message field with a path of the
\* message it holds behind it.
LEMMA PathInFront ==
  ASSUME NEW t \in Type, NEW f \in Field, NEW q \in Seq(Field), q # <<>>
  PROVE  IsFieldPath(t, <<f>> \o q) <=> f \in FieldsOf(t) /\ isSingularMessage(f) /\ IsFieldPath(MessageOf[f], q)
<1> DEFINE p == <<f>> \o q
<1>1. /\ p \in Seq(Field) /\ p # <<>> /\ Len(p) = Len(q) + 1 /\ Len(q) \in Nat \ {0} /\ p[1] = f
      /\ \A i \in 1 .. Len(q) : p[i + 1] = q[i]
  BY InFront
<1> HIDE DEF p
<1> DEFINE Link(s, i) == isSingularMessage(s[i]) /\ s[i + 1] \in FieldsOf(MessageOf[s[i]])
<1>2. p[2] = q[1] /\ 1 \in 1 .. Len(q)
  <2>1. 1 \in 1 .. Len(q) /\ 1 + 1 = 2
    BY <1>1
  <2> QED BY <1>1, <2>1
<1>3. \A i \in 1 .. Len(q) - 1 : Link(p, i + 1) <=> Link(q, i)
  <2>1. ASSUME NEW i \in 1 .. Len(q) - 1 PROVE Link(p, i + 1) <=> Link(q, i)
    <3>1. i \in 1 .. Len(q) /\ i + 1 \in 1 .. Len(q)
      BY <1>1
    <3>2. p[i + 1] = q[i] /\ p[(i + 1) + 1] = q[i + 1]
      BY <1>1, <3>1
    <3> QED BY <3>2
  <2> QED BY <2>1
<1>4. Link(p, 1) <=> isSingularMessage(f) /\ q[1] \in FieldsOf(MessageOf[f])
  BY <1>1, <1>2
<1> HIDE DEF Link
<1>5. (\A i \in 1 .. Len(p) - 1 : Link(p, i)) <=> Link(p, 1) /\ \A i \in 1 .. Len(q) - 1 : Link(p, i + 1)
  <2>1. ASSUME NEW i \in 1 .. Len(p) - 1, i # 1 PROVE \E k \in 1 .. Len(q) - 1 : i = k + 1
    <3>1. i - 1 \in 1 .. Len(q) - 1 /\ i = (i - 1) + 1
      BY <1>1, <2>1
    <3> QED BY <3>1
  <2>2. \A k \in 1 .. Len(q) - 1 : k + 1 \in 1 .. Len(p) - 1
    BY <1>1
  <2>3. 1 \in 1 .. Len(p) - 1
    BY <1>1
  <2> QED BY <2>1, <2>2, <2>3
<1>6. IsFieldPath(t, p) <=> f \in FieldsOf(t) /\ \A i \in 1 .. Len(p) - 1 : Link(p, i)
  BY <1>1 DEF IsFieldPath, Link
<1>7. IsFieldPath(MessageOf[f], q)
      <=> q[1] \in FieldsOf(MessageOf[f]) /\ \A i \in 1 .. Len(q) - 1 : Link(q, i)
  BY <1>1 DEF IsFieldPath, Link
<1> QED BY <1>3, <1>4, <1>5, <1>6, <1>7 DEF p

LEMMA PathOfOne ==
  ASSUME NEW t \in Type, NEW f \in Field
  PROVE  IsFieldPath(t, <<f>>) <=> f \in FieldsOf(t)
<1>1. <<f>> # <<>> /\ <<f>>[1] = f /\ Len(<<f>>) = 1
  OBVIOUS
<1> QED BY <1>1 DEF IsFieldPath

----------------------------------------------------------------------------
(* The order of field paths.                                               *)

LEMMA BeginningIsPath ==
  ASSUME NEW S, NEW p \in Seq(S), NEW i \in 0 .. Len(p)
  PROVE  /\ SubSeq(p, 1, i) \in Seq(S) /\ Len(SubSeq(p, 1, i)) = i
         /\ \A j \in 1 .. i : SubSeq(p, 1, i)[j] = p[j]
<1>1. \A j \in 1 .. i : p[j] \in S
  OBVIOUS
<1> QED BY <1>1, SubSeqProperties

LEMMA TypeBeneathInFront ==
  ASSUME NEW t, NEW f \in Field, NEW r \in Seq(Field)
  PROVE  TypeBeneath(t, <<f>> \o r) = TypeBeneath(MessageOf[f], r)
<1>1. <<f>> \o r # <<>>
  BY InFront
<1>2. CASE r = <<>>
  <2>1. <<f>> \o r = <<f>> /\ Last(<<f>>) = f
    BY <1>2 DEF Last
  <2> QED BY <1>1, <1>2, <2>1 DEF TypeBeneath
<1>3. CASE r # <<>>
  BY <1>1, <1>3, InFrontOfRest DEF TypeBeneath
<1> QED BY <1>2, <1>3

LEMMA BeforeInFront ==
  ASSUME NEW t, NEW f \in Field, NEW p \in Seq(Field), NEW q \in Seq(Field), Before(MessageOf[f], p, q)
  PROVE  Before(t, <<f>> \o p, <<f>> \o q)
<1> DEFINE a == <<f>> \o p
           b == <<f>> \o q
<1>1. /\ a \in Seq(Field) /\ Len(a) = Len(p) + 1 /\ Len(p) \in Nat
      /\ DOMAIN a = 1 .. Len(p) + 1 /\ DOMAIN p = 1 .. Len(p)
      /\ Tail(a) = p
      /\ \A i \in 1 .. Len(p) : a[i + 1] = p[i]
  BY InFront
<1>2. /\ b \in Seq(Field) /\ Len(b) = Len(q) + 1 /\ Len(q) \in Nat
      /\ DOMAIN b = 1 .. Len(q) + 1 /\ DOMAIN q = 1 .. Len(q)
      /\ Tail(b) = q
      /\ \A i \in 1 .. Len(q) : b[i + 1] = q[i]
  BY InFront
<1>3. /\ \A i \in 0 .. Len(p) : SubSeq(a, 1, i + 1) = <<f>> \o SubSeq(p, 1, i)
      /\ \A i \in 0 .. Len(q) : SubSeq(b, 1, i + 1) = <<f>> \o SubSeq(q, 1, i)
  BY InFrontOfPrefix
<1> HIDE DEF a, b
<1>4. CASE IsStrictPrefix(p, q)
  <2>1. Len(p) <= Len(q) /\ SubSeq(p, 1, Len(p)) = SubSeq(q, 1, Len(p)) /\ p # q
    BY <1>4 DEF IsStrictPrefix, IsPrefix
  <2>2. Len(p) \in 0 .. Len(p) /\ Len(p) \in 0 .. Len(q)
    BY <1>1, <1>2, <2>1
  <2>3. SubSeq(a, 1, Len(a)) = SubSeq(b, 1, Len(a)) /\ Len(a) <= Len(b)
    <3>1. /\ SubSeq(a, 1, Len(p) + 1) = <<f>> \o SubSeq(p, 1, Len(p))
          /\ SubSeq(b, 1, Len(p) + 1) = <<f>> \o SubSeq(q, 1, Len(p))
      BY <1>3, <2>2
    <3>2. Len(a) = Len(p) + 1 /\ Len(b) = Len(q) + 1 /\ Len(p) + 1 <= Len(q) + 1
      BY <1>1, <1>2, <2>1
    <3>3. SubSeq(a, 1, Len(p) + 1) = SubSeq(b, 1, Len(p) + 1)
      BY <2>1, <3>1
    <3> QED BY <3>2, <3>3
  <2>4. a # b
    BY <1>1, <1>2, <2>1
  <2> QED BY <2>3, <2>4 DEF a, b, Before, IsStrictPrefix, IsPrefix
<1>5. CASE \E i \in DOMAIN p \cap DOMAIN q :
             LET type == TypeBeneath(MessageOf[f], SubSeq(p, 1, i - 1))
             IN /\ SubSeq(p, 1, i - 1) = SubSeq(q, 1, i - 1)
                /\ Position(type, p[i]) < Position(type, q[i])
  <2>1. PICK i \in DOMAIN p \cap DOMAIN q :
          /\ SubSeq(p, 1, i - 1) = SubSeq(q, 1, i - 1)
          /\ Position(TypeBeneath(MessageOf[f], SubSeq(p, 1, i - 1)), p[i])
               < Position(TypeBeneath(MessageOf[f], SubSeq(p, 1, i - 1)), q[i])
    BY <1>5
  <2>2. i - 1 \in 0 .. Len(p) /\ i - 1 \in 0 .. Len(q) /\ (i - 1) + 1 = i /\ (i + 1) - 1 = i
    BY <1>1, <1>2
  <2>3. SubSeq(a, 1, i) = <<f>> \o SubSeq(p, 1, i - 1) /\ SubSeq(b, 1, i) = <<f>> \o SubSeq(q, 1, i - 1)
    BY <1>3, <2>2
  <2>4. SubSeq(p, 1, i - 1) \in Seq(Field)
    BY <2>2, BeginningIsPath
  <2>5. TypeBeneath(t, SubSeq(a, 1, i)) = TypeBeneath(MessageOf[f], SubSeq(p, 1, i - 1))
    BY <2>3, <2>4, TypeBeneathInFront
  <2>6. i + 1 \in DOMAIN a \cap DOMAIN b /\ a[i + 1] = p[i] /\ b[i + 1] = q[i]
    BY <1>1, <1>2
  <2>7. /\ SubSeq(a, 1, (i + 1) - 1) = SubSeq(b, 1, (i + 1) - 1)
        /\ Position(TypeBeneath(t, SubSeq(a, 1, (i + 1) - 1)), a[i + 1])
             < Position(TypeBeneath(t, SubSeq(a, 1, (i + 1) - 1)), b[i + 1])
    BY <2>1, <2>2, <2>3, <2>5, <2>6
  <2>8. Before(t, a, b)
    BY <2>6, <2>7 DEF Before
  <2> QED BY <2>8 DEF a, b
<1> QED BY <1>4, <1>5 DEF Before

LEMMA BeforeByField ==
  ASSUME NEW t, NEW p \in Seq(Field), NEW q \in Seq(Field), p # <<>>, q # <<>>,
         Position(t, p[1]) < Position(t, q[1])
  PROVE  Before(t, p, q)
<1>1. 1 \in DOMAIN p \cap DOMAIN q
  OBVIOUS
<1>2. SubSeq(p, 1, 1 - 1) = <<>> /\ SubSeq(q, 1, 1 - 1) = <<>>
  BY SubSeqEmpty
<1>3. TypeBeneath(t, SubSeq(p, 1, 1 - 1)) = t
  BY <1>2 DEF TypeBeneath
<1> QED BY <1>1, <1>2, <1>3 DEF Before

LEMMA BeforeBeneath ==
  ASSUME NEW t, NEW f \in Field, NEW q \in Seq(Field), q # <<>>
  PROVE  Before(t, <<f>>, <<f>> \o q)
<1> DEFINE a == <<f>>
           b == <<f>> \o q
<1>1. a \in Seq(Field) /\ Len(a) = 1 /\ SubSeq(a, 1, 1) = a
  <2>1. a \in Seq(Field) /\ Len(a) = 1
    OBVIOUS
  <2> QED BY <2>1, SubSeqFull
<1>2. Len(b) = Len(q) + 1 /\ Len(q) \in Nat \ {0}
  BY InFront
<1>3. SubSeq(b, 1, 0 + 1) = <<f>> \o SubSeq(q, 1, 0)
  BY <1>2, InFrontOfPrefix
<1>4. SubSeq(q, 1, 0) = <<>> /\ <<f>> \o <<>> = <<f>>
  BY SubSeqEmpty
<1> HIDE DEF b
<1>5. IsPrefix(a, b) /\ a # b
  BY <1>1, <1>2, <1>3, <1>4 DEF IsPrefix
<1> QED BY <1>5 DEF Before, IsStrictPrefix, b

----------------------------------------------------------------------------
(* A nested message, and what is unset of it.                              *)

\* The values of single messages are under the key 0.
Keyed(m) ==
  m \subseteq Location /\ \A at \in m : \A i \in DOMAIN at : isSingularMessage(at[i].field) => at[i].key = 0

LEMMA NestedIs ==
  ASSUME NEW m, m \subseteq Location, NEW f \in Field, NEW at \in Location
  PROVE  at \in Nested(m, f) <=> at # <<>> /\ <<Step(f, 0)>> \o at \in m
<1> DEFINE st == Step(f, 0)
<1>1. st \in StepSet
  BY LocationInFront, EmptySeq
<1> HIDE DEF st
<1>2. /\ <<st>> \o at \in Seq(StepSet) /\ Len(<<st>> \o at) = Len(at) + 1 /\ Len(at) \in Nat
      /\ Head(<<st>> \o at) = st /\ Tail(<<st>> \o at) = at
  BY <1>1, InFront DEF Location
<1>3. at # <<>> <=> Len(at) + 1 > 1
  BY <1>2 DEF Location
<1>4. ASSUME at \in Nested(m, f) PROVE at # <<>> /\ <<st>> \o at \in m
  <2>1. PICK l \in m : Len(l) > 1 /\ Head(l) = st /\ Tail(l) = at
    BY <1>4 DEF Nested, st
  <2>2. l \in Seq(StepSet) /\ l # <<>>
    <3>1. l \in Seq(StepSet)
      BY <2>1 DEF Location
    <3>2. Len(<<>>) = 0
      OBVIOUS
    <3> QED BY <2>1, <3>1, <3>2
  <2>3. l = <<st>> \o at
    BY <2>1, <2>2, HasFront
  <2> QED BY <1>2, <1>3, <2>1, <2>3
<1>5. ASSUME at # <<>>, <<st>> \o at \in m PROVE at \in Nested(m, f)
  BY <1>2, <1>3, <1>5 DEF Nested, st
<1> QED BY <1>4, <1>5 DEF st

LEMMA NestedLocations ==
  ASSUME NEW m, m \subseteq Location, NEW f
  PROVE  Nested(m, f) \subseteq Location
<1>1. ASSUME NEW l \in m, Len(l) > 1 PROVE Tail(l) \in Location
  <2>1. l \in Seq(StepSet) /\ l # <<>>
    <3>1. l \in Seq(StepSet)
      BY DEF Location
    <3>2. Len(<<>>) = 0
      OBVIOUS
    <3> QED BY <1>1, <3>1, <3>2
  <2> QED BY <2>1, HeadTailProperties DEF Location
<1> QED BY <1>1 DEF Nested

LEMMA NestedKeyed ==
  ASSUME NEW m, Keyed(m), NEW f \in Field
  PROVE  Keyed(Nested(m, f))
<1>1. m \subseteq Location /\ Nested(m, f) \subseteq Location
  BY NestedLocations DEF Keyed
<1>2. ASSUME NEW at \in Nested(m, f), NEW i \in DOMAIN at, isSingularMessage(at[i].field)
      PROVE  at[i].key = 0
  <2> DEFINE l == <<Step(f, 0)>> \o at
  <2>1. at \in Location /\ at \in Seq(StepSet) /\ Step(f, 0) \in StepSet
    BY <1>1, LocationInFront, EmptySeq DEF Location
  <2>2. l \in m
    BY <1>1, <2>1, NestedIs
  <2>3. /\ DOMAIN l = 1 .. Len(at) + 1 /\ DOMAIN at = 1 .. Len(at) /\ Len(at) \in Nat
        /\ \A j \in 1 .. Len(at) : l[j + 1] = at[j]
    BY <2>1, InFront
  <2> HIDE DEF l
  <2>4. i + 1 \in DOMAIN l /\ l[i + 1] = at[i]
    BY <2>3
  <2> QED BY <1>2, <2>2, <2>4 DEF Keyed
<1> QED BY <1>1, <1>2 DEF Keyed

\* What a field of the nested message holds is one step further from m.
LEMMA NestedPopulated ==
  ASSUME NEW m, m \subseteq Location, NEW f \in Field, NEW at \in Location, NEW g \in Field
  PROVE  isFieldPopulated(m, <<Step(f, 0)>> \o at, g) <=> isFieldPopulated(Nested(m, f), at, g)
<1> DEFINE st == Step(f, 0)
<1>1. st \in StepSet /\ at \in Seq(StepSet)
  BY LocationInFront, EmptySeq DEF Location
<1>2. ASSUME NEW k \in Key
      PROVE  Append(<<st>> \o at, Step(g, k)) \in m <=> Append(at, Step(g, k)) \in Nested(m, f)
  <2> DEFINE s == Step(g, k)
  <2>1. s \in StepSet
    BY DEF Step, StepSet
  <2> HIDE DEF s, st
  <2>2. Append(at, s) \in Location /\ Append(at, s) # <<>>
    BY <1>1, <2>1 DEF Location
  <2>3. <<st>> \in Seq(StepSet) /\ <<s>> \in Seq(StepSet)
    BY <1>1, <2>1
  <2>4. Append(<<st>> \o at, s) = <<st>> \o Append(at, s)
    <3>1. Append(at, s) = at \o <<s>>
      BY <1>1, <2>1
    <3>2. <<st>> \o at \in Seq(StepSet)
      BY <1>1, <2>3
    <3>3. Append(<<st>> \o at, s) = (<<st>> \o at) \o <<s>>
      BY <2>1, <3>2
    <3> QED BY <1>1, <2>3, <3>1, <3>3, ConcatAssociative
  <2>5. Append(<<st>> \o at, s) \in m <=> Append(at, s) \in Nested(m, f)
    <3>1. ASSUME NEW e \in Location, e # <<>>
          PROVE  <<st>> \o e \in m <=> e \in Nested(m, f)
      BY <3>1, NestedIs DEF st
    <3> QED BY <2>2, <2>4, <3>1
  <2> QED BY <2>5 DEF s, st
<1>3. Values(m, <<st>> \o at, g) = Values(Nested(m, f), at, g)
  BY <1>2 DEF Values
<1> QED BY <1>3 DEF isFieldPopulated, Has

LEMMA HasMessage ==
  ASSUME NEW m, Keyed(m), NEW f \in Field, isSingularMessage(f)
  PROVE  Has(m, <<>>, f) <=> <<Step(f, 0)>> \in m
<1>1. \A k \in Key : Append(<<>>, Step(f, k)) = <<Step(f, k)>>
  OBVIOUS
<1>2. ASSUME NEW k \in Key, <<Step(f, k)>> \in m PROVE k = 0
  <2> DEFINE at == <<Step(f, k)>>
  <2>1. 1 \in DOMAIN at /\ at[1] = Step(f, k) /\ Step(f, k).field = f /\ Step(f, k).key = k
    BY DEF Step
  <2> HIDE DEF at
  <2>2. at \in m
    BY <1>2 DEF at
  <2> QED BY <2>1, <2>2 DEF Keyed
<1>3. 0 \in Key
  BY SchemaAssumption
<1> QED BY <1>1, <1>2, <1>3 DEF Has, Values

\* IsUnset, of one field.
LEMMA UnsetField ==
  ASSUME NEW m, NEW kind, NEW paths, NEW f \in Field
  PROVE  IsUnset(m, kind, paths, <<f>>)
         <=> Named(paths, f).whole /\ HasKind(f, kind) /\ ~isFieldPopulated(m, <<>>, f)
<1> DEFINE p == <<f>>
<1>1. p \in Seq(Field) /\ Len(p) = 1 /\ Last(p) = f /\ p[1] = f
  BY DEF Last
<1>2. LocationOf(Front(p)) = <<>>
  <2>1. Front(p) = <<>>
    BY <1>1 DEF Front
  <2> QED BY <2>1 DEF LocationOf
<1>3. NamesOf(SubSeq(p, 1, 1)) = <<Name[f]>>
  <2>1. SubSeq(p, 1, 1) = p
    BY <1>1, SubSeqFull
  <2>2. NamesOf(p) \in Seq(STRING) /\ Len(NamesOf(p)) = 1 /\ NamesOf(p)[1] = Name[f]
    BY <1>1, WalkAssumption DEF NamesOf
  <2>3. <<Name[f]>> \in Seq(STRING) /\ Len(<<Name[f]>>) = 1 /\ <<Name[f]>>[1] = Name[f]
    BY WalkAssumption
  <2>4. NamesOf(p) = <<Name[f]>>
    BY <2>2, <2>3, SeqEqual
  <2> QED BY <2>1, <2>4
<1> HIDE DEF p
<1>4. \A i : SetFrom(m, p, i) <=> \A j \in i .. 0 : j > 0 => LocationOf(SubSeq(p, 1, j)) \in m
  BY <1>1 DEF SetFrom
<1>5. SetFrom(m, p, 0) /\ SetFrom(m, p, 1)
  BY <1>4
<1>6. (\E i \in 0 .. Len(p) : FirstNamed(paths, p, i) /\ SetFrom(m, p, i)) <=> Named(paths, f).whole
  <2>1. CASE paths = EveryField
    <3>1. FirstNamed(paths, p, 0) /\ 0 \in 0 .. Len(p) /\ Named(paths, f).whole
      BY <1>1, <2>1 DEF FirstNamed, Named
    <3> QED BY <1>5, <3>1
  <2>2. CASE paths # EveryField
    <3>1. Named(paths, f).whole <=> <<Name[f]>> \in paths
      BY <2>2 DEF Named, maskedPaths
    <3>2. \A i \in 0 .. Len(p) : FirstNamed(paths, p, i) => i = 1 /\ NamesOf(SubSeq(p, 1, i)) \in paths
      BY <1>1, <2>2 DEF FirstNamed
    <3>3. NamesOf(SubSeq(p, 1, 1)) \in paths => FirstNamed(paths, p, 1)
      BY <1>1, <2>2 DEF FirstNamed
    <3>4. 1 \in 0 .. Len(p)
      BY <1>1
    <3> QED BY <1>3, <1>5, <3>1, <3>2, <3>3, <3>4
  <2> QED BY <2>1, <2>2
<1>7. IsUnset(m, kind, paths, p)
      <=> /\ HasKind(f, kind) /\ ~isFieldPopulated(m, <<>>, f)
          /\ \E i \in 0 .. Len(p) : FirstNamed(paths, p, i) /\ SetFrom(m, p, i)
  BY <1>1, <1>2 DEF IsUnset
<1> QED BY <1>6, <1>7 DEF p

LEMMA LongTail ==
  ASSUME NEW S, NEW q \in Seq(S), Len(q) > 1
  PROVE  Tail(q) \in Seq(S) /\ Tail(q) # <<>> /\ q = <<Head(q)>> \o Tail(q)
<1>1. q # <<>>
  BY EmptySeq
<1>2. Tail(q) \in Seq(S) /\ Len(Tail(q)) = Len(q) - 1 /\ Len(q) \in Nat
  BY <1>1, HeadTailProperties
<1>3. Len(Tail(q)) # 0
  BY <1>2
<1>4. Tail(q) # <<>>
  BY <1>3, EmptySeq
<1> QED BY <1>1, <1>2, <1>4, HasFront

\* The paths of a mask beneath field f, relative to it.
LEMMA NestedPaths ==
  ASSUME NEW paths, paths \subseteq Seq(STRING), paths # EveryField, NEW f \in Field, NEW name \in Seq(STRING)
  PROVE  /\ Named(paths, f).nested \subseteq Seq(STRING) /\ Named(paths, f).nested # EveryField
         /\ name \in Named(paths, f).nested <=> name # <<>> /\ <<Name[f]>> \o name \in paths
<1> DEFINE beneath == {q \in paths : Len(q) > 1 /\ Head(q) = Name[f]}
<1>1. Named(paths, f).nested = {Tail(path) : path \in beneath}
  BY DEF Named, maskedPaths
<1>2. ASSUME NEW q \in beneath
      PROVE  q \in Seq(STRING) /\ Tail(q) \in Seq(STRING) /\ Tail(q) # <<>> /\ q = <<Name[f]>> \o Tail(q)
  <2>1. q \in Seq(STRING) /\ Len(q) > 1 /\ Head(q) = Name[f]
    OBVIOUS
  <2> HIDE DEF beneath
  <2> QED BY <2>1, LongTail
<1>3. Named(paths, f).nested \subseteq Seq(STRING)
  BY <1>1, <1>2
<1>4. Named(paths, f).nested # EveryField
  BY <1>3, EveryFieldIsOfNoMask
<1>5. ASSUME name # <<>>, <<Name[f]>> \o name \in paths
      PROVE  name \in Named(paths, f).nested
  <2> DEFINE q == <<Name[f]>> \o name
  <2>1. Name[f] \in STRING
    BY WalkAssumption
  <2>2. Len(q) = Len(name) + 1 /\ Head(q) = Name[f] /\ Tail(q) = name /\ Len(name) \in Nat
    BY <2>1, InFront
  <2>3. Len(name) # 0
    BY <1>5
  <2>4. q \in paths
    BY <1>5
  <2> HIDE DEF q
  <2>5. Len(q) > 1
    BY <2>2, <2>3
  <2>6. q \in beneath
    BY <2>2, <2>4, <2>5
  <2> QED BY <1>1, <2>2, <2>6
<1> QED BY <1>1, <1>2, <1>3, <1>4, <1>5

\* The fields of p that are set, and those that the mask names, from one message
\* to the one in it.
LEMMA SetInFront ==
  ASSUME NEW m, m \subseteq Location, NEW f \in Field, NEW q \in Seq(Field), q # <<>>
  PROVE  LET p == <<f>> \o q
             n == Nested(m, f)
         IN /\ \A i \in 1 .. Len(q) : SetFrom(m, p, i + 1) <=> SetFrom(n, q, i)
            /\ SetFrom(m, p, 1) <=> <<Step(f, 0)>> \in m /\ SetFrom(n, q, 0)
            /\ SetFrom(m, p, 0) <=> <<Step(f, 0)>> \in m /\ SetFrom(n, q, 0)
<1> DEFINE p == <<f>> \o q
           n == Nested(m, f)
           st == Step(f, 0)
           InM(j) == LocationOf(SubSeq(p, 1, j)) \in m
           InN(j) == LocationOf(SubSeq(q, 1, j)) \in n
<1>1. Len(p) = Len(q) + 1 /\ Len(q) \in Nat \ {0}
  BY InFront
<1>2. ASSUME NEW j \in 1 .. Len(q) PROVE InM(j + 1) <=> InN(j)
  <2> DEFINE s == SubSeq(q, 1, j)
  <2>1. j \in 0 .. Len(q)
    BY <1>1
  <2>2. SubSeq(p, 1, j + 1) = <<f>> \o s
    BY <2>1, InFrontOfPrefix
  <2>3. s \in Seq(Field) /\ Len(s) = j
    BY <2>1, BeginningIsPath
  <2> HIDE DEF s, p, n
  <2>4. LocationOf(<<f>> \o s) = <<st>> \o LocationOf(s) /\ LocationOf(s) \in Location
    BY <2>3, LocationInFront
  <2>5. LocationOf(s) # <<>>
    <3>1. DOMAIN LocationOf(s) = DOMAIN s
      BY DEF LocationOf
    <3>2. j \in DOMAIN LocationOf(s)
      BY <2>3, <3>1
    <3> QED BY <3>2
  <2> HIDE DEF st
  <2>6. ASSUME NEW at \in Location, at # <<>>
        PROVE  <<st>> \o at \in m <=> at \in n
    BY <2>6, NestedIs DEF st, n
  <2>7. <<st>> \o LocationOf(s) \in m <=> LocationOf(s) \in n
    BY <2>4, <2>5, <2>6
  <2> QED BY <2>2, <2>4, <2>7 DEF s
<1>3. InM(1) <=> <<st>> \in m
  <2>1. SubSeq(p, 1, 1) = <<f>>
    BY InFrontFirst
  <2>2. LocationOf(<<f>>) = <<st>>
    BY DEF LocationOf
  <2> QED BY <2>1, <2>2
<1> HIDE DEF p, n, st, InM, InN
<1>4. \A i : SetFrom(m, p, i) <=> \A j \in i .. Len(q) : j > 0 => InM(j)
  BY <1>1 DEF SetFrom, InM
<1>5. \A i : SetFrom(n, q, i) <=> \A j \in i .. Len(q) - 1 : j > 0 => InN(j)
  BY <1>1 DEF SetFrom, InN
<1>6. ASSUME NEW i \in 1 .. Len(q) PROVE SetFrom(m, p, i + 1) <=> SetFrom(n, q, i)
  <2>1. ASSUME SetFrom(n, q, i), NEW j \in i + 1 .. Len(q) PROVE InM(j)
    <3>1. j - 1 \in i .. Len(q) - 1 /\ j - 1 \in 1 .. Len(q) /\ (j - 1) + 1 = j /\ j - 1 > 0
      BY <1>1
    <3>2. InN(j - 1)
      BY <1>5, <2>1, <3>1
    <3>3. InM((j - 1) + 1)
      BY <1>2, <3>1, <3>2
    <3> QED BY <3>1, <3>3
  <2>2. ASSUME SetFrom(m, p, i + 1), NEW j \in i .. Len(q) - 1 PROVE InN(j)
    <3>1. j + 1 \in i + 1 .. Len(q) /\ j \in 1 .. Len(q) /\ j + 1 > 0
      BY <1>1
    <3>2. InM(j + 1)
      BY <1>4, <2>2, <3>1
    <3> QED BY <1>2, <3>1, <3>2
  <2> QED BY <1>4, <1>5, <2>1, <2>2
<1>7. SetFrom(m, p, 1) <=> InM(1) /\ SetFrom(m, p, 2)
  <2>1. ASSUME InM(1), SetFrom(m, p, 2), NEW j \in 1 .. Len(q) PROVE InM(j)
    <3>1. CASE j = 1
      BY <2>1, <3>1
    <3>2. CASE j # 1
      <4>1. j \in 2 .. Len(q) /\ j > 0
        BY <1>1, <3>2
      <4> QED BY <1>4, <2>1, <4>1
    <3> QED BY <3>1, <3>2
  <2>2. 1 \in 1 .. Len(q) /\ 1 > 0 /\ 2 .. Len(q) \subseteq 1 .. Len(q)
    BY <1>1
  <2> QED BY <1>4, <2>1, <2>2
<1>8. SetFrom(m, p, 2) <=> SetFrom(n, q, 1)
  <2>1. 1 \in 1 .. Len(q) /\ 1 + 1 = 2
    BY <1>1
  <2> QED BY <1>6, <2>1
<1>9. SetFrom(n, q, 1) <=> SetFrom(n, q, 0)
  <2>1. \A j \in 0 .. Len(q) - 1 : j > 0 => j \in 1 .. Len(q) - 1
    BY <1>1
  <2>2. 1 .. Len(q) - 1 \subseteq 0 .. Len(q) - 1
    BY <1>1
  <2> QED BY <1>5, <2>1, <2>2
<1>10. SetFrom(m, p, 0) <=> SetFrom(m, p, 1)
  <2>1. \A j \in 0 .. Len(q) : j > 0 => j \in 1 .. Len(q)
    BY <1>1
  <2>2. 1 .. Len(q) \subseteq 0 .. Len(q)
    BY <1>1
  <2> QED BY <1>4, <2>1, <2>2
<1> QED BY <1>3, <1>6, <1>7, <1>8, <1>9, <1>10 DEF p, n, st

LEMMA NamedInFront ==
  ASSUME NEW paths, paths \subseteq Seq(STRING), paths # EveryField,
         NEW f \in Field, NEW q \in Seq(Field), q # <<>>
  PROVE  LET p == <<f>> \o q
             nested == Named(paths, f).nested
         IN IF Named(paths, f).whole THEN \A i : FirstNamed(paths, p, i) <=> i = 1
            ELSE /\ \A i \in 1 .. Len(q) : FirstNamed(paths, p, i + 1) <=> FirstNamed(nested, q, i)
                 /\ ~FirstNamed(paths, p, 0) /\ ~FirstNamed(paths, p, 1)
<1> DEFINE p == <<f>> \o q
           nested == Named(paths, f).nested
           Is(j) == NamesOf(SubSeq(p, 1, j)) \in paths
           IsNested(j) == NamesOf(SubSeq(q, 1, j)) \in nested
<1>1. Len(p) = Len(q) + 1 /\ Len(q) \in Nat \ {0}
  BY InFront
<1>2. nested # EveryField
  BY NestedPaths, EmptySeq
<1>3. ASSUME NEW j \in 1 .. Len(q) PROVE Is(j + 1) <=> IsNested(j)
  <2> DEFINE s == SubSeq(q, 1, j)
  <2>1. j \in 0 .. Len(q)
    BY <1>1
  <2>2. SubSeq(p, 1, j + 1) = <<f>> \o s
    BY <2>1, InFrontOfPrefix
  <2>3. s \in Seq(Field) /\ Len(s) = j
    BY <2>1, BeginningIsPath
  <2> HIDE DEF s, p, nested
  <2>4. NamesOf(<<f>> \o s) = <<Name[f]>> \o NamesOf(s) /\ NamesOf(s) \in Seq(STRING) /\ Len(NamesOf(s)) = j
    BY <2>3, NamesInFront
  <2>5. NamesOf(s) # <<>>
    BY <2>4, EmptySeq
  <2>6. NamesOf(s) \in nested <=> <<Name[f]>> \o NamesOf(s) \in paths
    BY <2>4, <2>5, NestedPaths DEF nested
  <2> QED BY <2>2, <2>4, <2>6 DEF s
<1>4. Is(1) <=> Named(paths, f).whole
  <2>1. SubSeq(p, 1, 1) = <<f>>
    BY InFrontFirst
  <2>2. NamesOf(<<f>>) = <<Name[f]>>
    BY DEF NamesOf
  <2>3. Named(paths, f).whole <=> <<Name[f]>> \in paths
    BY DEF Named, maskedPaths
  <2> QED BY <2>1, <2>2, <2>3
<1> HIDE DEF p, nested, Is, IsNested
<1>5. \A i : FirstNamed(paths, p, i) <=> i \in 1 .. Len(q) + 1 /\ Is(i) /\ \A j \in 1 .. i - 1 : ~Is(j)
  BY <1>1 DEF FirstNamed, Is
<1>6. \A i : FirstNamed(nested, q, i) <=> i \in 1 .. Len(q) /\ IsNested(i) /\ \A j \in 1 .. i - 1 : ~IsNested(j)
  BY <1>2 DEF FirstNamed, IsNested
<1>7. CASE Named(paths, f).whole
  <2>1. FirstNamed(paths, p, 1)
    BY <1>1, <1>4, <1>5, <1>7
  <2>2. ASSUME NEW i, FirstNamed(paths, p, i) PROVE i = 1
    <3>1. i \in 1 .. Len(q) + 1 /\ ~(1 \in 1 .. i - 1)
      BY <1>4, <1>5, <1>7, <2>2
    <3> QED BY <1>1, <3>1
  <2> QED BY <1>7, <2>1, <2>2 DEF p
<1>8. CASE ~Named(paths, f).whole
  <2>1. ~FirstNamed(paths, p, 0) /\ ~FirstNamed(paths, p, 1)
    BY <1>4, <1>5, <1>8
  <2>2. ASSUME NEW i \in 1 .. Len(q) PROVE FirstNamed(paths, p, i + 1) <=> FirstNamed(nested, q, i)
    <3>1. i + 1 \in 1 .. Len(q) + 1 /\ (i + 1) - 1 = i
      BY <1>1
    <3>2. Is(i + 1) <=> IsNested(i)
      BY <1>3
    <3>3. ASSUME \A j \in 1 .. i - 1 : ~IsNested(j), NEW j \in 1 .. i PROVE ~Is(j)
      <4>1. CASE j = 1
        BY <1>4, <1>8, <4>1
      <4>2. CASE j # 1
        <5>1. j - 1 \in 1 .. i - 1 /\ j - 1 \in 1 .. Len(q) /\ (j - 1) + 1 = j
          BY <1>1, <4>2
        <5>2. Is((j - 1) + 1) <=> IsNested(j - 1)
          BY <1>3, <5>1
        <5> QED BY <3>3, <5>1, <5>2
      <4> QED BY <4>1, <4>2
    <3>4. ASSUME \A j \in 1 .. i : ~Is(j), NEW j \in 1 .. i - 1 PROVE ~IsNested(j)
      <4>1. j + 1 \in 1 .. i /\ j \in 1 .. Len(q)
        BY <1>1
      <4> QED BY <1>3, <3>4, <4>1
    <3>5. (\A j \in 1 .. i - 1 : ~IsNested(j)) <=> \A j \in 1 .. i : ~Is(j)
      BY <3>3, <3>4
    <3>6. FirstNamed(paths, p, i + 1) <=> Is(i + 1) /\ \A j \in 1 .. i : ~Is(j)
      BY <1>5, <3>1
    <3>7. FirstNamed(nested, q, i) <=> IsNested(i) /\ \A j \in 1 .. i - 1 : ~IsNested(j)
      BY <1>6
    <3> QED BY <3>2, <3>5, <3>6, <3>7
  <2> QED BY <1>8, <2>1, <2>2 DEF p, nested
<1> QED BY <1>7, <1>8

\* IsUnset, of a field of the message that f holds.
LEMMA UnsetBeneath ==
  ASSUME NEW m, Keyed(m), NEW kind, NEW paths \in {EveryField} \cup SUBSET Seq(STRING),
         NEW f \in Field, isSingularMessage(f), NEW q \in Seq(Field), q # <<>>
  PROVE  IsUnset(m, kind, paths, <<f>> \o q)
         <=> IF Named(paths, f).whole
             THEN Has(m, <<>>, f) /\ IsUnset(Nested(m, f), kind, EveryField, q)
             ELSE IsUnset(Nested(m, f), kind, Named(paths, f).nested, q)
<1> DEFINE p == <<f>> \o q
           n == Nested(m, f)
           st == Step(f, 0)
           nested == Named(paths, f).nested
           Covered(message, ps, path) == \E i \in 0 .. Len(path) : FirstNamed(ps, path, i) /\ SetFrom(message, path, i)
           Lacks(message, path) == /\ HasKind(Last(path), kind)
                                   /\ ~isFieldPopulated(message, LocationOf(Front(path)), Last(path))
<1>1. Len(p) = Len(q) + 1 /\ Len(q) \in Nat \ {0}
  BY InFront
<1>2. m \subseteq Location
  BY DEF Keyed
<1>3. Lacks(m, p) <=> Lacks(n, q)
  <2>1. Front(p) = <<f>> \o Front(q) /\ Last(p) = Last(q) /\ Front(q) \in Seq(Field)
    BY InFrontOfRest
  <2>2. Last(q) \in Field
    BY DEF Last
  <2>3. LocationOf(Front(p)) = <<st>> \o LocationOf(Front(q)) /\ LocationOf(Front(q)) \in Location
    BY <2>1, LocationInFront
  <2> HIDE DEF p
  <2>4. isFieldPopulated(m, <<st>> \o LocationOf(Front(q)), Last(q))
        <=> isFieldPopulated(n, LocationOf(Front(q)), Last(q))
    BY <1>2, <2>2, <2>3, NestedPopulated
  <2> QED BY <2>1, <2>3, <2>4
<1>4. /\ \A i \in 1 .. Len(q) : SetFrom(m, p, i + 1) <=> SetFrom(n, q, i)
      /\ SetFrom(m, p, 1) <=> <<st>> \in m /\ SetFrom(n, q, 0)
      /\ SetFrom(m, p, 0) <=> <<st>> \in m /\ SetFrom(n, q, 0)
  BY <1>2, SetInFront
<1>5. Has(m, <<>>, f) <=> <<st>> \in m
  BY HasMessage
<1> HIDE DEF p, n, st, nested
<1>6. Covered(n, EveryField, q) <=> SetFrom(n, q, 0)
  <2>1. \A i : FirstNamed(EveryField, q, i) <=> i = 0
    BY DEF FirstNamed
  <2>2. 0 \in 0 .. Len(q)
    BY <1>1
  <2> QED BY <2>1, <2>2
<1>7. CASE Named(paths, f).whole
  <2>1. Covered(m, paths, p) <=> <<st>> \in m /\ SetFrom(n, q, 0)
    <3>1. CASE paths = EveryField
      <4>1. \A i : FirstNamed(paths, p, i) <=> i = 0
        BY <3>1 DEF FirstNamed
      <4>2. 0 \in 0 .. Len(p)
        BY <1>1
      <4> QED BY <1>4, <4>1, <4>2
    <3>2. CASE paths # EveryField
      <4>1. \A i : FirstNamed(paths, p, i) <=> i = 1
        BY <1>7, <3>2, NamedInFront DEF p
      <4>2. 1 \in 0 .. Len(p)
        BY <1>1
      <4> QED BY <1>4, <4>1, <4>2
    <3> QED BY <3>1, <3>2
  <2> HIDE DEF Covered, Lacks
  <2>2. IsUnset(m, kind, paths, p) <=> Lacks(m, p) /\ Covered(m, paths, p)
    BY DEF IsUnset, Covered, Lacks
  <2>3. IsUnset(n, kind, EveryField, q) <=> Lacks(n, q) /\ Covered(n, EveryField, q)
    BY DEF IsUnset, Covered, Lacks
  <2>4. IsUnset(m, kind, paths, p) <=> Has(m, <<>>, f) /\ IsUnset(n, kind, EveryField, q)
    BY <1>3, <1>5, <1>6, <2>1, <2>2, <2>3
  <2> QED BY <1>7, <2>4 DEF p, n
<1>8. CASE ~Named(paths, f).whole
  <2>1. paths # EveryField /\ paths \subseteq Seq(STRING)
    BY <1>8 DEF Named
  <2>2. /\ \A i \in 1 .. Len(q) : FirstNamed(paths, p, i + 1) <=> FirstNamed(nested, q, i)
        /\ ~FirstNamed(paths, p, 0) /\ ~FirstNamed(paths, p, 1)
    BY <1>8, <2>1, NamedInFront DEF p, nested
  <2>3. nested # EveryField
    BY <2>1, NestedPaths, EmptySeq DEF nested
  <2>4. ~FirstNamed(nested, q, 0)
    BY <2>3 DEF FirstNamed
  <2>5. ASSUME Covered(m, paths, p) PROVE Covered(n, nested, q)
    <3>1. PICK i \in 0 .. Len(p) : FirstNamed(paths, p, i) /\ SetFrom(m, p, i)
      BY <2>5
    <3>2. i # 0 /\ i # 1
      BY <2>2, <3>1
    <3>3. i - 1 \in 1 .. Len(q) /\ i - 1 \in 0 .. Len(q) /\ (i - 1) + 1 = i
      BY <1>1, <3>2
    <3>4. FirstNamed(nested, q, i - 1) /\ SetFrom(n, q, i - 1)
      <4>1. FirstNamed(paths, p, (i - 1) + 1) /\ SetFrom(m, p, (i - 1) + 1)
        BY <3>1, <3>3
      <4> QED BY <1>4, <2>2, <3>3, <4>1
    <3> QED BY <3>3, <3>4
  <2>6. ASSUME Covered(n, nested, q) PROVE Covered(m, paths, p)
    <3>1. PICK i \in 0 .. Len(q) : FirstNamed(nested, q, i) /\ SetFrom(n, q, i)
      BY <2>6
    <3>2. i \in 1 .. Len(q) /\ i + 1 \in 0 .. Len(p)
      BY <1>1, <2>4, <3>1
    <3>3. FirstNamed(paths, p, i + 1) /\ SetFrom(m, p, i + 1)
      BY <1>4, <2>2, <3>1, <3>2
    <3> QED BY <3>2, <3>3
  <2> HIDE DEF Covered, Lacks
  <2>7. IsUnset(m, kind, paths, p) <=> Lacks(m, p) /\ Covered(m, paths, p)
    BY DEF IsUnset, Covered, Lacks
  <2>8. IsUnset(n, kind, nested, q) <=> Lacks(n, q) /\ Covered(n, nested, q)
    BY DEF IsUnset, Covered, Lacks
  <2>9. IsUnset(m, kind, paths, p) <=> IsUnset(n, kind, nested, q)
    BY <1>3, <2>5, <2>6, <2>7, <2>8
  <2> QED BY <1>8, <2>9 DEF p, n, nested
<1> QED BY <1>7, <1>8

----------------------------------------------------------------------------
(* Sorted lists of field paths, and the lists of their names.              *)

\* r holds the paths of U, each before those behind it.
Sorted(r, t, U) ==
  /\ r \in Seq(U)
  /\ U \subseteq {p \in Seq(Field) : p # <<>>}
  /\ ToSet(r) = U
  /\ \A i, j \in DOMAIN r : i < j => Before(t, r[i], r[j])

AllNames(r) == [i \in DOMAIN r |-> NamesOf(r[i])]

LEMMA SortedEmpty ==
  ASSUME NEW t
  PROVE  Sorted(<<>>, t, {}) /\ AllNames(<<>>) = <<>>
<1>1. <<>> \in Seq({}) /\ DOMAIN <<>> = {}
  OBVIOUS
<1> QED BY <1>1 DEF Sorted, AllNames, ToSet

LEMMA SortedOne ==
  ASSUME NEW t, NEW f \in Field
  PROVE  Sorted(<<<<f>>>>, t, {<<f>>}) /\ AllNames(<<<<f>>>>) = <<<<Name[f]>>>>
<1> DEFINE p == <<f>>
<1>1. p \in Seq(Field) /\ p # <<>>
  OBVIOUS
<1>2. NamesOf(p) = <<Name[f]>>
  BY DEF NamesOf
<1> HIDE DEF p
<1>3. <<p>> \in Seq({p}) /\ DOMAIN <<p>> = {1} /\ <<p>>[1] = p
  OBVIOUS
<1>4. ToSet(<<p>>) = {p}
  BY <1>3 DEF ToSet
<1>5. Sorted(<<p>>, t, {p})
  BY <1>1, <1>3, <1>4 DEF Sorted
<1>6. AllNames(<<p>>) = <<NamesOf(p)>>
  BY <1>3 DEF AllNames
<1> QED BY <1>2, <1>5, <1>6 DEF p

LEMMA AllNamesIs ==
  ASSUME NEW W, NEW r \in Seq(W)
  PROVE  /\ AllNames(r) \in Seq({NamesOf(p) : p \in W}) /\ Len(AllNames(r)) = Len(r)
         /\ \A i \in 1 .. Len(r) : AllNames(r)[i] = NamesOf(r[i])
<1> DEFINE N == {NamesOf(p) : p \in W}
<1>1. AllNames(r) = [i \in 1 .. Len(r) |-> NamesOf(r[i])]
  BY DEF AllNames
<1>2. \A i \in 1 .. Len(r) : NamesOf(r[i]) \in N
  OBVIOUS
<1> HIDE DEF N
<1>3. Len(r) \in Nat
  OBVIOUS
<1> QED BY <1>1, <1>2, <1>3 DEF N

LEMMA AllNamesConcat ==
  ASSUME NEW W, NEW r \in Seq(W), NEW s \in Seq(W)
  PROVE  AllNames(r \o s) = AllNames(r) \o AllNames(s)
<1> DEFINE c == r \o s
           N == {NamesOf(p) : p \in W}
           a == AllNames(r)
           b == AllNames(s)
           d == AllNames(c)
<1>1. /\ c \in Seq(W) /\ Len(c) = Len(r) + Len(s)
      /\ \A i \in 1 .. Len(r) + Len(s) : c[i] = IF i <= Len(r) THEN r[i] ELSE s[i - Len(r)]
  BY ConcatProperties
<1>2. Len(r) \in Nat /\ Len(s) \in Nat
  OBVIOUS
<1> HIDE DEF c
<1>4. a \in Seq(N) /\ Len(a) = Len(r) /\ \A i \in 1 .. Len(r) : a[i] = NamesOf(r[i])
  BY AllNamesIs
<1>5. b \in Seq(N) /\ Len(b) = Len(s) /\ \A i \in 1 .. Len(s) : b[i] = NamesOf(s[i])
  BY AllNamesIs
<1>6. d \in Seq(N) /\ Len(d) = Len(r) + Len(s) /\ \A i \in 1 .. Len(r) + Len(s) : d[i] = NamesOf(c[i])
  <2>1. d \in Seq(N) /\ Len(d) = Len(c) /\ \A i \in 1 .. Len(c) : d[i] = NamesOf(c[i])
    BY <1>1, AllNamesIs
  <2> QED BY <1>1, <2>1
<1> HIDE DEF N, a, b, d
<1> DEFINE e == a \o b
<1>7. /\ e \in Seq(N) /\ Len(e) = Len(r) + Len(s)
      /\ \A i \in 1 .. Len(r) + Len(s) : e[i] = IF i <= Len(r) THEN a[i] ELSE b[i - Len(r)]
  <2>1. /\ e \in Seq(N) /\ Len(e) = Len(a) + Len(b)
        /\ \A i \in 1 .. Len(a) + Len(b) : e[i] = IF i <= Len(a) THEN a[i] ELSE b[i - Len(a)]
    <3>1. a \in Seq(N) /\ b \in Seq(N)
      BY <1>4, <1>5
    <3> QED BY <3>1, ConcatProperties
  <2> HIDE DEF e
  <2> QED BY <1>4, <1>5, <2>1
<1> HIDE DEF e
<1>8. ASSUME NEW i \in 1 .. Len(r) + Len(s) PROVE d[i] = e[i]
  <2>1. CASE i <= Len(r)
    <3>1. i \in 1 .. Len(r)
      BY <1>2, <2>1
    <3> QED BY <1>1, <1>4, <1>6, <1>7, <2>1, <3>1
  <2>2. CASE ~(i <= Len(r))
    <3>1. i - Len(r) \in 1 .. Len(s)
      BY <1>2, <2>2
    <3> QED BY <1>1, <1>5, <1>6, <1>7, <2>2, <3>1
  <2> QED BY <2>1, <2>2
<1>9. d = e
  BY <1>6, <1>7, <1>8, SeqEqual
<1> QED BY <1>9 DEF a, b, c, d, e

LEMMA SortedConcat ==
  ASSUME NEW t, NEW U, NEW V, NEW r, NEW s, Sorted(r, t, U), Sorted(s, t, V),
         \A p, q : p \in U /\ q \in V => Before(t, p, q)
  PROVE  Sorted(r \o s, t, U \cup V)
<1> DEFINE W == U \cup V
           c == r \o s
<1>1. r \in Seq(W) /\ s \in Seq(W)
  BY SeqMonotonic DEF Sorted
<1>2. W \subseteq {p \in Seq(Field) : p # <<>>}
  BY DEF Sorted
<1> HIDE DEF W
<1>3. /\ c \in Seq(W) /\ Len(c) = Len(r) + Len(s)
      /\ \A i \in 1 .. Len(r) + Len(s) : c[i] = IF i <= Len(r) THEN r[i] ELSE s[i - Len(r)]
  BY <1>1, ConcatProperties
<1>4. /\ Len(r) \in Nat /\ Len(s) \in Nat
      /\ DOMAIN r = 1 .. Len(r) /\ DOMAIN s = 1 .. Len(s) /\ DOMAIN c = 1 .. Len(r) + Len(s)
  BY <1>1, <1>3
<1> HIDE DEF c
<1>5. \A i \in DOMAIN c : \/ i \in DOMAIN r /\ c[i] = r[i]
                          \/ i > Len(r) /\ i - Len(r) \in DOMAIN s /\ c[i] = s[i - Len(r)]
  BY <1>3, <1>4
<1>6. /\ \A i \in DOMAIN r : i \in DOMAIN c /\ c[i] = r[i]
      /\ \A i \in DOMAIN s : i + Len(r) \in DOMAIN c /\ c[i + Len(r)] = s[i]
  <2>1. \A i \in DOMAIN r : i \in DOMAIN c /\ c[i] = r[i]
    BY <1>3, <1>4
  <2>2. ASSUME NEW i \in DOMAIN s PROVE i + Len(r) \in DOMAIN c /\ c[i + Len(r)] = s[i]
    <3>1. i + Len(r) \in 1 .. Len(r) + Len(s) /\ ~(i + Len(r) <= Len(r)) /\ (i + Len(r)) - Len(r) = i
      BY <1>4
    <3> QED BY <1>3, <1>4, <3>1
  <2> QED BY <2>1, <2>2
<1>7. (\A i \in DOMAIN r : r[i] \in U) /\ (\A i \in DOMAIN s : s[i] \in V)
  BY DEF Sorted
<1>8. ToSet(c) = W
  <2>1. \A x \in U : \E i \in DOMAIN r : r[i] = x
    BY DEF Sorted, ToSet
  <2>2. \A x \in V : \E i \in DOMAIN s : s[i] = x
    BY DEF Sorted, ToSet
  <2>3. \A x \in W : \E i \in DOMAIN c : c[i] = x
    BY <1>6, <2>1, <2>2 DEF W
  <2>4. \A i \in DOMAIN c : c[i] \in W
    BY <1>5, <1>7 DEF W
  <2> QED BY <2>3, <2>4 DEF ToSet
<1>9. ASSUME NEW i \in DOMAIN c, NEW j \in DOMAIN c, i < j PROVE Before(t, c[i], c[j])
  <2>1. CASE i \in DOMAIN r /\ j \in DOMAIN r
    BY <1>6, <1>9, <2>1 DEF Sorted
  <2>2. CASE i \in DOMAIN r /\ j \notin DOMAIN r
    BY <1>5, <1>6, <1>7, <2>2
  <2>3. CASE i \notin DOMAIN r
    <3>1. /\ i - Len(r) \in DOMAIN s /\ c[i] = s[i - Len(r)]
          /\ j - Len(r) \in DOMAIN s /\ c[j] = s[j - Len(r)]
          /\ i - Len(r) < j - Len(r)
      BY <1>4, <1>5, <1>9, <2>3
    <3> QED BY <3>1 DEF Sorted
  <2> QED BY <2>1, <2>2, <2>3
<1>10. Sorted(c, t, W)
  BY <1>2, <1>3, <1>8, <1>9 DEF Sorted
<1> QED BY <1>10 DEF W, c

Prefixed(x, r) == [i \in DOMAIN r |-> <<x>> \o r[i]]

\* A sorted list of paths of the message field f holds, with f in front of each.
LEMMA SortedInFront ==
  ASSUME NEW t, NEW f \in Field, NEW U, NEW r, Sorted(r, MessageOf[f], U)
  PROVE  /\ Sorted(Prefixed(f, r), t, {<<f>> \o p : p \in U})
         /\ AllNames(Prefixed(f, r)) = Prefixed(Name[f], AllNames(r))
<1> DEFINE new == [i \in DOMAIN r |-> <<f>> \o r[i]]
           W == {<<f>> \o p : p \in U}
           names == AllNames(r)
<1>1. r \in Seq(U) /\ U \subseteq Seq(Field) /\ ToSet(r) = U /\ DOMAIN r = 1 .. Len(r) /\ Len(r) \in Nat
  BY DEF Sorted
<1>2. \A i \in DOMAIN r : r[i] \in U
  BY <1>1
<1>3. new \in Seq(W) /\ DOMAIN new = DOMAIN r /\ \A i \in DOMAIN r : new[i] = <<f>> \o r[i]
  <2>1. \A i \in DOMAIN r : <<f>> \o r[i] \in W
    BY <1>2
  <2> HIDE DEF W
  <2> QED BY <1>1, <2>1
<1>4. W \subseteq {p \in Seq(Field) : p # <<>>}
  <2>1. ASSUME NEW p \in U PROVE <<f>> \o p \in Seq(Field) /\ <<f>> \o p # <<>>
    BY <1>1, InFront
  <2> QED BY <2>1
<1>5. ToSet(new) = W
  <2>1. \A p \in U : \E i \in DOMAIN r : r[i] = p
    BY <1>1 DEF ToSet
  <2>2. ToSet(new) = {new[i] : i \in DOMAIN r}
    BY <1>3 DEF ToSet
  <2> HIDE DEF new
  <2>3. ASSUME NEW p \in U PROVE \E i \in DOMAIN r : new[i] = <<f>> \o p
    BY <1>3, <2>1
  <2>4. ASSUME NEW i \in DOMAIN r PROVE \E p \in U : new[i] = <<f>> \o p
    BY <1>2, <1>3
  <2> QED BY <2>2, <2>3, <2>4
<1>6. ASSUME NEW i \in DOMAIN r, NEW j \in DOMAIN r, i < j PROVE Before(t, new[i], new[j])
  <2>1. Before(MessageOf[f], r[i], r[j]) /\ r[i] \in Seq(Field) /\ r[j] \in Seq(Field)
    BY <1>1, <1>2, <1>6 DEF Sorted
  <2>2. Before(t, <<f>> \o r[i], <<f>> \o r[j])
    BY <2>1, BeforeInFront
  <2> HIDE DEF new
  <2> QED BY <1>3, <2>2
<1> HIDE DEF new, W
<1>7. Sorted(new, t, W)
  BY <1>3, <1>4, <1>5, <1>6 DEF Sorted
<1>8. AllNames(new) = [i \in DOMAIN names |-> <<Name[f]>> \o names[i]]
  <2>1. DOMAIN names = DOMAIN r /\ \A i \in DOMAIN r : names[i] = NamesOf(r[i])
    BY DEF AllNames
  <2>2. \A i \in DOMAIN r : NamesOf(<<f>> \o r[i]) = <<Name[f]>> \o NamesOf(r[i])
    BY <1>1, <1>2, NamesInFront
  <2>3. AllNames(new) = [i \in DOMAIN r |-> NamesOf(new[i])]
    BY <1>3 DEF AllNames
  <2> HIDE DEF names
  <2>4. \A i \in DOMAIN r : NamesOf(new[i]) = <<Name[f]>> \o names[i]
    BY <1>3, <2>1, <2>2
  <2> QED BY <2>1, <2>3, <2>4
<1> QED BY <1>7, <1>8 DEF new, W, names, Prefixed

----------------------------------------------------------------------------
(* What is unset of one field and beneath it.                              *)

\* The unset fields of kind of a message of type t, at most n fields deep.
Unset(t, m, kind, paths, n) ==
  {p \in Seq(Field) : IsFieldPath(t, p) /\ Len(p) <= n /\ IsUnset(m, kind, paths, p)}

\* names lists the fields of U, sorted, by name.
Lists(names, t, U) == \E r : Sorted(r, t, U) /\ names = AllNames(r)

LEMMA NothingNamed ==
  ASSUME NEW t, NEW m, NEW kind, NEW n
  PROVE  Unset(t, m, kind, {}, n) = {}
<1>1. {} # EveryField
  BY EveryFieldIsOfNoMask
<1>2. \A p, i : ~FirstNamed({}, p, i)
  BY <1>1 DEF FirstNamed
<1> QED BY <1>2 DEF Unset, IsUnset

\* What is unset of the message field f of m holds, as far as paths says.
UnsetUnder(m, kind, paths, f, n) ==
  IF ~isSingularMessage(f) THEN {}
  ELSE IF ~Named(paths, f).whole
  THEN Unset(MessageOf[f], Nested(m, f), kind, Named(paths, f).nested, n)
  ELSE IF Has(m, <<>>, f)
  THEN Unset(MessageOf[f], Nested(m, f), kind, EveryField, n)
  ELSE {}

\* Those that begin with f, f itself if it is one, and f in front of paths.
UnsetFrom(t, m, kind, paths, f, n) == {p \in Unset(t, m, kind, paths, n) : p[1] = f}

ItselfUnset(m, kind, paths, f) == {p \in {<<f>>} : IsUnset(m, kind, paths, p)}

AllInFront(f, V) == {<<f>> \o q : q \in V}

\* The paths that begin with f are f itself and those of the message it holds.
LEMMA UnsetOfFieldSplit ==
  ASSUME NEW t \in Type, NEW m, Keyed(m), NEW kind, NEW paths \in {EveryField} \cup SUBSET Seq(STRING),
         NEW f \in FieldsOf(t), NEW n \in Nat
  PROVE  UnsetFrom(t, m, kind, paths, f, n + 1)
           = ItselfUnset(m, kind, paths, f) \cup AllInFront(f, UnsetUnder(m, kind, paths, f, n))
<1> DEFINE beneath == UnsetUnder(m, kind, paths, f, n)
           U == Unset(t, m, kind, paths, n + 1)
<1>1. f \in Field
  BY FieldsAreFields
<1>2. ASSUME NEW q \in Seq(Field), q # <<>>
      PROVE  <<f>> \o q \in U <=> q \in beneath
  <2>1. <<f>> \o q \in Seq(Field) /\ Len(<<f>> \o q) = Len(q) + 1 /\ Len(q) \in Nat
    BY <1>1, InFront
  <2>2. Len(<<f>> \o q) <= n + 1 <=> Len(q) <= n
    BY <2>1
  <2>3. IsFieldPath(t, <<f>> \o q) <=> isSingularMessage(f) /\ IsFieldPath(MessageOf[f], q)
    BY <1>1, <1>2, PathInFront
  <2>4. CASE ~isSingularMessage(f)
    BY <2>3, <2>4 DEF Unset, UnsetUnder
  <2>5. CASE isSingularMessage(f)
    <3>1. IsUnset(m, kind, paths, <<f>> \o q)
          <=> IF Named(paths, f).whole
              THEN Has(m, <<>>, f) /\ IsUnset(Nested(m, f), kind, EveryField, q)
              ELSE IsUnset(Nested(m, f), kind, Named(paths, f).nested, q)
      BY <1>1, <1>2, <2>5, UnsetBeneath
    <3>2. <<f>> \o q \in U <=> IsFieldPath(MessageOf[f], q) /\ Len(q) <= n /\ IsUnset(m, kind, paths, <<f>> \o q)
      BY <2>1, <2>2, <2>3, <2>5 DEF Unset, UnsetUnder
    <3>3. CASE ~Named(paths, f).whole
      BY <1>2, <2>5, <3>1, <3>2, <3>3 DEF Unset, UnsetUnder
    <3>4. CASE Named(paths, f).whole /\ Has(m, <<>>, f)
      BY <1>2, <2>5, <3>1, <3>2, <3>4 DEF Unset, UnsetUnder
    <3>5. CASE Named(paths, f).whole /\ ~Has(m, <<>>, f)
      BY <2>5, <3>1, <3>2, <3>5 DEF UnsetUnder
    <3> QED BY <3>3, <3>4, <3>5
  <2> QED BY <2>4, <2>5
<1>3. <<f>> \in U <=> IsUnset(m, kind, paths, <<f>>)
  <2>1. <<f>> \in Seq(Field) /\ Len(<<f>>) = 1 /\ 1 <= n + 1
    BY <1>1
  <2>2. IsFieldPath(t, <<f>>)
    BY <1>1, PathOfOne
  <2> QED BY <2>1, <2>2 DEF Unset, UnsetUnder
<1>4. \A q \in beneath : q \in Seq(Field) /\ q # <<>>
  BY DEF Unset, UnsetUnder, IsFieldPath
<1>5. \A p \in U : p \in Seq(Field) /\ p # <<>>
  BY DEF Unset, IsFieldPath
<1> HIDE DEF beneath, U
<1>6. ASSUME NEW p \in U, p[1] = f
      PROVE  p \in {x \in {<<f>>} : IsUnset(m, kind, paths, x)} \cup {<<f>> \o q : q \in beneath}
  <2>1. p = <<f>> \o Tail(p) /\ Tail(p) \in Seq(Field)
    BY <1>5, <1>6, HasFront
  <2>2. CASE Tail(p) = <<>>
    <3>1. p = <<f>>
      BY <2>1, <2>2
    <3> QED BY <1>3, <3>1
  <2>3. CASE Tail(p) # <<>>
    <3>1. Tail(p) \in beneath
      BY <1>2, <2>1, <2>3
    <3> QED BY <2>1, <3>1
  <2> QED BY <2>2, <2>3
<1>7. ASSUME IsUnset(m, kind, paths, <<f>>) PROVE <<f>> \in U /\ <<f>>[1] = f
  BY <1>3, <1>7
<1>8. ASSUME NEW q \in beneath PROVE <<f>> \o q \in U /\ (<<f>> \o q)[1] = f
  BY <1>1, <1>2, <1>4, InFront
<1>9. {p \in U : p[1] = f}
        = {p \in {<<f>>} : IsUnset(m, kind, paths, p)} \cup {<<f>> \o q : q \in beneath}
  BY <1>6, <1>7, <1>8
<1> QED BY <1>9 DEF beneath, U, UnsetFrom, ItselfUnset, AllInFront

LEMMA ListsSorted ==
  ASSUME NEW r, NEW names, NEW t, NEW U, Sorted(r, t, U), names = AllNames(r)
  PROVE  Lists(names, t, U)
  BY DEF Lists

LEMMA ListsConcat ==
  ASSUME NEW a, NEW b, NEW t, NEW U, NEW V, Lists(a, t, U), Lists(b, t, V),
         \A p, q : p \in U /\ q \in V => Before(t, p, q)
  PROVE  Lists(a \o b, t, U \cup V)
<1>1. PICK r : Sorted(r, t, U) /\ a = AllNames(r)
  BY DEF Lists
<1>2. PICK s : Sorted(s, t, V) /\ b = AllNames(s)
  BY DEF Lists
<1>3. Sorted(r, t, U) /\ Sorted(s, t, V)
  BY <1>1, <1>2
<1>4. Sorted(r \o s, t, U \cup V)
  BY <1>3, SortedConcat
<1>5. AllNames(r \o s) = AllNames(r) \o AllNames(s)
  <2>1. r \in Seq(U \cup V) /\ s \in Seq(U \cup V)
    BY <1>3, SeqMonotonic DEF Sorted
  <2> QED BY <2>1, AllNamesConcat
<1>6. Lists(AllNames(r \o s), t, U \cup V)
  BY <1>4, ListsSorted
<1> QED BY <1>1, <1>2, <1>5, <1>6

\* The walk of one field, given the walk of the message it holds.
LEMMA UnsetOfFieldLists ==
  ASSUME NEW t \in Type, NEW m, Keyed(m), NEW kind, NEW paths \in {EveryField} \cup SUBSET Seq(STRING),
         NEW f \in FieldsOf(t), NEW n \in Nat, NEW deeper,
         \A type \in Type : \A held \in SUBSET Location : \A masked \in {EveryField} \cup SUBSET Seq(STRING) :
           Keyed(held) => Lists(deeper[type][held][masked], type, Unset(type, held, kind, masked, n))
  PROVE  Lists(unsetOfField(m, kind, paths, f, deeper), t, UnsetFrom(t, m, kind, paths, f, n + 1))
<1> DEFINE held == Nested(m, f)
           named == Named(paths, f)
           I == ItselfUnset(m, kind, paths, f)
           itself == IF named.whole /\ HasKind(f, kind) /\ ~isFieldPopulated(m, <<>>, f)
                     THEN <<<<Name[f]>>>> ELSE <<>>
           beneath(s) == [i \in DOMAIN s |-> <<Name[f]>> \o s[i]]
           result == unsetOfField(m, kind, paths, f, deeper)
           U == UnsetFrom(t, m, kind, paths, f, n + 1)
           In(masked) == Unset(MessageOf[f], held, kind, masked, n)
           Beneath(V) == AllInFront(f, V)
<1>1. f \in Field
  BY FieldsAreFields
<1>2. Lists(itself, t, I)
  <2>1. <<f>> \in I <=> named.whole /\ HasKind(f, kind) /\ ~isFieldPopulated(m, <<>>, f)
    BY <1>1, UnsetField DEF ItselfUnset
  <2>2. CASE <<f>> \in I
    <3>1. I = {<<f>>}
      BY <2>2 DEF ItselfUnset
    <3>2. itself = <<<<Name[f]>>>>
      BY <2>1, <2>2
    <3>3. Sorted(<<<<f>>>>, t, {<<f>>}) /\ AllNames(<<<<f>>>>) = <<<<Name[f]>>>>
      BY <1>1, SortedOne
    <3> QED BY <3>1, <3>2, <3>3, ListsSorted
  <2>3. CASE <<f>> \notin I
    <3>1. I = {}
      BY <2>3 DEF ItselfUnset
    <3>2. itself = <<>>
      BY <2>1, <2>3
    <3> QED BY <3>1, <3>2, SortedEmpty, ListsSorted
  <2> QED BY <2>2, <2>3
<1>3. ~named.whole => I = {} /\ itself = <<>>
  BY <1>1, UnsetField DEF ItselfUnset
<1>4. ASSUME NEW s, NEW V, Lists(s, MessageOf[f], V)
      PROVE  Lists(beneath(s), t, Beneath(V))
  <2>1. PICK r : Sorted(r, MessageOf[f], V) /\ s = AllNames(r)
    BY <1>4 DEF Lists
  <2>2. Sorted(Prefixed(f, r), t, {<<f>> \o p : p \in V}) /\ AllNames(Prefixed(f, r)) = Prefixed(Name[f], s)
    BY <1>1, <2>1, SortedInFront
  <2>3. beneath(s) = Prefixed(Name[f], s)
    BY DEF Prefixed
  <2> HIDE DEF beneath
  <2>4. Lists(beneath(s), t, {<<f>> \o p : p \in V})
    BY <2>2, <2>3, ListsSorted
  <2> QED BY <2>4 DEF AllInFront
<1>5. ASSUME NEW b, NEW V, Lists(b, t, Beneath(V)), V \subseteq {q \in Seq(Field) : q # <<>>}
      PROVE  Lists(itself \o b, t, I \cup Beneath(V))
  <2>1. \A p, q : p \in I /\ q \in Beneath(V) => Before(t, p, q)
    <3>1. \A q \in V : Before(t, <<f>>, <<f>> \o q)
      BY <1>1, <1>5, BeforeBeneath
    <3> QED BY <3>1 DEF ItselfUnset, AllInFront
  <2> HIDE DEF I, itself, Beneath
  <2> QED BY <1>2, <1>5, <2>1, ListsConcat
<1>6. isSingularMessage(f) => MessageOf[f] \in Type
  BY <1>1, HeldType
<1>7. Keyed(held) /\ held \in SUBSET Location
  BY <1>1, NestedKeyed DEF Keyed
<1>8. ASSUME isSingularMessage(f), NEW masked \in {EveryField} \cup SUBSET Seq(STRING)
      PROVE  /\ Lists(deeper[MessageOf[f]][held][masked], MessageOf[f], In(masked))
             /\ In(masked) \subseteq {q \in Seq(Field) : q # <<>>}
  <2>1. In(masked) \subseteq {q \in Seq(Field) : q # <<>>}
    BY DEF Unset, IsFieldPath
  <2> HIDE DEF held
  <2>2. Lists(deeper[MessageOf[f]][held][masked], MessageOf[f], In(masked))
    BY <1>6, <1>7, <1>8
  <2> QED BY <2>1, <2>2
<1>9. U = I \cup Beneath(IF ~isSingularMessage(f) THEN {}
                         ELSE IF ~named.whole THEN In(named.nested)
                         ELSE IF Has(m, <<>>, f) THEN In(EveryField) ELSE {})
  <2>1. UnsetFrom(t, m, kind, paths, f, n + 1)
          = ItselfUnset(m, kind, paths, f) \cup AllInFront(f, UnsetUnder(m, kind, paths, f, n))
    BY UnsetOfFieldSplit
  <2> QED BY <2>1 DEF UnsetUnder
<1>10. Beneath({}) = {} /\ {} \subseteq {q \in Seq(Field) : q # <<>>}
  BY DEF AllInFront
<1> DEFINE below == CASE isSingularMessage(f) /\ named.whole /\ Has(m, <<>>, f) ->
                           beneath(deeper[MessageOf[f]][held][EveryField])
                      [] isSingularMessage(f) /\ ~named.whole /\ named.nested # {} ->
                           beneath(deeper[MessageOf[f]][held][named.nested])
                      [] OTHER -> <<>>
<1>11. result = itself \o below
  BY DEF unsetOfField
<1>12. ~named.whole => named.nested \in SUBSET Seq(STRING)
  <2>1. ~named.whole => paths # EveryField
    BY DEF Named
  <2>2. paths # EveryField => paths \subseteq Seq(STRING)
    OBVIOUS
  <2>3. <<>> \in Seq(STRING)
    OBVIOUS
  <2> QED BY <1>1, <2>1, <2>2, <2>3, NestedPaths
<1>13. In({}) = {}
  BY NothingNamed
<1> HIDE DEF held, named, I, itself, beneath, result, U, In, Beneath
<1>14. CASE isSingularMessage(f) /\ named.whole /\ Has(m, <<>>, f)
  <2>1. below = beneath(deeper[MessageOf[f]][held][EveryField])
    BY <1>14
  <2>2. U = I \cup Beneath(In(EveryField))
    BY <1>9, <1>14
  <2>3. EveryField \in {EveryField} \cup SUBSET Seq(STRING)
    OBVIOUS
  <2>4. Lists(below, t, Beneath(In(EveryField))) /\ In(EveryField) \subseteq {q \in Seq(Field) : q # <<>>}
    BY <1>4, <1>8, <1>14, <2>1, <2>3
  <2> HIDE DEF below
  <2> QED BY <1>5, <1>11, <2>2, <2>4 DEF result, U
<1>15. CASE isSingularMessage(f) /\ ~named.whole /\ named.nested # {}
  <2>1. below = beneath(deeper[MessageOf[f]][held][named.nested])
    BY <1>15
  <2>2. U = I \cup Beneath(In(named.nested))
    BY <1>9, <1>15
  <2>3. named.nested \in {EveryField} \cup SUBSET Seq(STRING)
    BY <1>12, <1>15
  <2>4. Lists(below, t, Beneath(In(named.nested))) /\ In(named.nested) \subseteq {q \in Seq(Field) : q # <<>>}
    BY <1>4, <1>8, <1>15, <2>1, <2>3
  <2> HIDE DEF below
  <2> QED BY <1>5, <1>11, <2>2, <2>4 DEF result, U
<1>16. CASE /\ ~(isSingularMessage(f) /\ named.whole /\ Has(m, <<>>, f))
            /\ ~(isSingularMessage(f) /\ ~named.whole /\ named.nested # {})
  <2>1. below = <<>>
    BY <1>16
  <2>2. U = I \cup Beneath({})
    BY <1>9, <1>13, <1>16
  <2>3. Lists(below, t, Beneath({}))
    BY <1>10, <2>1, SortedEmpty, ListsSorted
  <2> HIDE DEF below
  <2> QED BY <1>5, <1>10, <1>11, <2>2, <2>3 DEF result, U
<1> QED BY <1>14, <1>15, <1>16

----------------------------------------------------------------------------
(* The loop over the fields of a message.                                  *)

\* Keeps a concatenation as a whole.
Joined(a, b) == a \o b

\* g appends each c[i] to what came before it, up to the n-th.
IsAppending(g, c, n) == g = [i \in 0 .. n |-> IF i = 0 THEN <<>> ELSE Joined(g[i - 1], c[i])]

LEMMA AppendingExists ==
  ASSUME NEW c, NEW n \in Nat
  PROVE  \E g : IsAppending(g, c, n)
<1> DEFINE N == {k \in Nat : \E g : IsAppending(g, c, k)}
<1>1. 0 \in N
  <2> DEFINE g == [i \in 0 .. 0 |-> <<>>]
  <2>1. IsAppending(g, c, 0)
    BY DEF IsAppending
  <2> QED BY <2>1
<1>2. ASSUME NEW k \in Nat, k \in N PROVE k + 1 \in N
  <2>1. PICK g : IsAppending(g, c, k)
    BY <1>2
  <2>2. \A i \in 0 .. k : g[i] = IF i = 0 THEN <<>> ELSE Joined(g[i - 1], c[i])
    BY <2>1 DEF IsAppending
  <2> DEFINE h == [i \in 0 .. k + 1 |-> IF i <= k THEN g[i] ELSE Joined(g[i - 1], c[i])]
  <2>3. h[0] = <<>>
    <3>1. g[0] = <<>> /\ 0 <= k
      BY <2>2
    <3> QED BY <3>1
  <2>4. ASSUME NEW i \in 1 .. k + 1 PROVE h[i] = Joined(h[i - 1], c[i])
    <3>1. i - 1 \in 0 .. k /\ h[i - 1] = g[i - 1] /\ i # 0
      OBVIOUS
    <3>2. CASE i <= k
      BY <2>2, <3>1, <3>2
    <3>3. CASE ~(i <= k)
      BY <3>1, <3>3
    <3> QED BY <3>2, <3>3
  <2>5. \A i \in 0 .. k + 1 : i # 0 => i \in 1 .. k + 1
    OBVIOUS
  <2>6. h = [i \in 0 .. k + 1 |-> h[i]]
    OBVIOUS
  <2> HIDE DEF h
  <2>7. IsAppending(h, c, k + 1)
    BY <2>3, <2>4, <2>5, <2>6 DEF IsAppending
  <2> QED BY <2>7
<1>3. Nat \subseteq N
  <2> HIDE DEF N
  <2> QED BY <1>1, <1>2, SetInduction
<1> QED BY <1>3

LEMMA UnsetOfFieldsStep ==
  ASSUME NEW t \in Type, NEW m, NEW kind, NEW paths, NEW deeper
  PROVE  /\ unsetOfFields(m, t, kind, paths, deeper)[0] = <<>>
         /\ \A i \in 1 .. Len(Fields[t]) :
              unsetOfFields(m, t, kind, paths, deeper)[i]
                = Joined(unsetOfFields(m, t, kind, paths, deeper)[i - 1],
                         unsetOfField(m, kind, paths, Fields[t][i], deeper))
<1> DEFINE n == Len(Fields[t])
           c == [i \in 1 .. n |-> unsetOfField(m, kind, paths, Fields[t][i], deeper)]
           Is(g) == g = [i \in 0 .. n |-> IF i = 0 THEN <<>>
                                          ELSE g[i - 1] \o unsetOfField(m, kind, paths, Fields[t][i], deeper)]
           unset == unsetOfFields(m, t, kind, paths, deeper)
<1>1. n \in Nat
  BY SchemaAssumption
<1>2. unset = CHOOSE g : Is(g)
  BY DEF unsetOfFields
<1>3. \E g : Is(g)
  <2>1. PICK g : IsAppending(g, c, n)
    BY <1>1, AppendingExists
  <2>2. \A i \in 0 .. n : i # 0 => c[i] = unsetOfField(m, kind, paths, Fields[t][i], deeper)
    BY <1>1
  <2> HIDE DEF c, n
  <2>3. Is(g)
    BY <2>1, <2>2 DEF IsAppending, Joined
  <2> QED BY <2>3
<1>4. Is(unset)
  <2> HIDE DEF Is, unset
  <2> QED BY <1>2, <1>3
<1> HIDE DEF unset
<1>5. \A i \in 0 .. n : unset[i] = IF i = 0 THEN <<>>
                                   ELSE unset[i - 1] \o unsetOfField(m, kind, paths, Fields[t][i], deeper)
  BY <1>4
<1>6. 0 \in 0 .. n /\ \A i \in 1 .. n : i \in 0 .. n /\ i # 0
  BY <1>1
<1>7. /\ unset[0] = <<>>
      /\ \A i \in 1 .. n : unset[i] = unset[i - 1] \o unsetOfField(m, kind, paths, Fields[t][i], deeper)
  BY <1>5, <1>6
<1> QED BY <1>7 DEF unset, Joined

\* Those that begin with one of the first i fields.
UnsetUpTo(t, m, kind, paths, i, n) == {p \in Unset(t, m, kind, paths, n) : Position(t, p[1]) <= i}

LEMMA UnsetUpToSplit ==
  ASSUME NEW t \in Type, NEW m, NEW kind, NEW paths, NEW n
  PROVE  /\ UnsetUpTo(t, m, kind, paths, 0, n) = {}
         /\ UnsetUpTo(t, m, kind, paths, Len(Fields[t]), n) = Unset(t, m, kind, paths, n)
         /\ \A i \in 1 .. Len(Fields[t]) :
              /\ UnsetUpTo(t, m, kind, paths, i, n)
                   = UnsetUpTo(t, m, kind, paths, i - 1, n) \cup UnsetFrom(t, m, kind, paths, Fields[t][i], n)
              /\ \A p, q : /\ p \in UnsetUpTo(t, m, kind, paths, i - 1, n)
                           /\ q \in UnsetFrom(t, m, kind, paths, Fields[t][i], n)
                           => Before(t, p, q)
<1> DEFINE U == Unset(t, m, kind, paths, n)
<1>1. Len(Fields[t]) \in Nat /\ DOMAIN Fields[t] = 1 .. Len(Fields[t])
  BY SchemaAssumption
<1>2. ASSUME NEW p \in U
      PROVE  /\ p \in Seq(Field) /\ p # <<>>
             /\ Position(t, p[1]) \in 1 .. Len(Fields[t]) /\ Fields[t][Position(t, p[1])] = p[1]
  <2>1. p \in Seq(Field) /\ p # <<>> /\ p[1] \in FieldsOf(t)
    BY DEF Unset, IsFieldPath
  <2> QED BY <1>1, <2>1, PositionOf
<1> HIDE DEF U
<1>3. UnsetUpTo(t, m, kind, paths, 0, n) = {}
  <2>1. \A p \in U : ~(Position(t, p[1]) <= 0)
    BY <1>1, <1>2
  <2> QED BY <2>1 DEF UnsetUpTo, U
<1>4. UnsetUpTo(t, m, kind, paths, Len(Fields[t]), n) = U
  <2>1. \A p \in U : Position(t, p[1]) <= Len(Fields[t])
    BY <1>1, <1>2
  <2> QED BY <2>1 DEF UnsetUpTo, U
<1>5. ASSUME NEW i \in 1 .. Len(Fields[t])
      PROVE  /\ UnsetUpTo(t, m, kind, paths, i, n)
                  = UnsetUpTo(t, m, kind, paths, i - 1, n) \cup UnsetFrom(t, m, kind, paths, Fields[t][i], n)
             /\ \A p, q : /\ p \in UnsetUpTo(t, m, kind, paths, i - 1, n)
                          /\ q \in UnsetFrom(t, m, kind, paths, Fields[t][i], n)
                          => Before(t, p, q)
  <2>1. Position(t, Fields[t][i]) = i
    BY <1>1, PositionIs
  <2>2. \A p \in U : Position(t, p[1]) = i <=> p[1] = Fields[t][i]
    BY <1>2, <2>1
  <2>3. \A p \in U : Position(t, p[1]) <= i <=> Position(t, p[1]) <= i - 1 \/ p[1] = Fields[t][i]
    <3>1. \A k \in 1 .. Len(Fields[t]) : k <= i <=> k <= i - 1 \/ k = i
      BY <1>1
    <3> QED BY <1>2, <2>2, <3>1
  <2>4. UnsetUpTo(t, m, kind, paths, i, n)
          = UnsetUpTo(t, m, kind, paths, i - 1, n) \cup UnsetFrom(t, m, kind, paths, Fields[t][i], n)
    BY <2>3 DEF UnsetUpTo, UnsetFrom, U
  <2>5. ASSUME NEW p \in UnsetUpTo(t, m, kind, paths, i - 1, n),
               NEW q \in UnsetFrom(t, m, kind, paths, Fields[t][i], n)
        PROVE  Before(t, p, q)
    <3>1. p \in U /\ q \in U /\ Position(t, p[1]) <= i - 1 /\ q[1] = Fields[t][i]
      BY DEF UnsetUpTo, UnsetFrom, U
    <3>2. Position(t, p[1]) < Position(t, q[1])
      <4>1. Position(t, p[1]) \in 1 .. Len(Fields[t])
        BY <1>2, <3>1
      <4>2. Position(t, q[1]) = i
        BY <2>1, <3>1
      <4> QED BY <1>1, <3>1, <4>1, <4>2
    <3>3. p \in Seq(Field) /\ p # <<>> /\ q \in Seq(Field) /\ q # <<>>
      BY <1>2, <3>1
    <3> QED BY <3>2, <3>3, BeforeByField
  <2> QED BY <2>4, <2>5
<1> QED BY <1>3, <1>4, <1>5 DEF U

LEMMA UnsetOfFieldsLists ==
  ASSUME NEW t \in Type, NEW m, Keyed(m), NEW kind, NEW paths \in {EveryField} \cup SUBSET Seq(STRING),
         NEW n \in Nat, NEW deeper,
         \A type \in Type : \A held \in SUBSET Location : \A masked \in {EveryField} \cup SUBSET Seq(STRING) :
           Keyed(held) => Lists(deeper[type][held][masked], type, Unset(type, held, kind, masked, n))
  PROVE  Lists(unsetOfFields(m, t, kind, paths, deeper)[Len(Fields[t])], t, Unset(t, m, kind, paths, n + 1))
<1> DEFINE unset == unsetOfFields(m, t, kind, paths, deeper)
           Upto(i) == UnsetUpTo(t, m, kind, paths, i, n + 1)
           From(i) == UnsetFrom(t, m, kind, paths, Fields[t][i], n + 1)
           N == {i \in Nat : i <= Len(Fields[t]) => Lists(unset[i], t, Upto(i))}
<1>1. Len(Fields[t]) \in Nat /\ DOMAIN Fields[t] = 1 .. Len(Fields[t])
  BY SchemaAssumption
<1>2. /\ unset[0] = <<>>
      /\ \A i \in 1 .. Len(Fields[t]) :
           unset[i] = Joined(unset[i - 1], unsetOfField(m, kind, paths, Fields[t][i], deeper))
  BY UnsetOfFieldsStep
<1>3. /\ Upto(0) = {} /\ Upto(Len(Fields[t])) = Unset(t, m, kind, paths, n + 1)
      /\ \A i \in 1 .. Len(Fields[t]) :
           /\ Upto(i) = Upto(i - 1) \cup From(i)
           /\ \A p, q : p \in Upto(i - 1) /\ q \in From(i) => Before(t, p, q)
  <2>1. /\ Upto(0) = {} /\ Upto(Len(Fields[t])) = Unset(t, m, kind, paths, n + 1)
        /\ \A i \in 1 .. Len(Fields[t]) : Upto(i) = Upto(i - 1) \cup From(i)
    BY UnsetUpToSplit
  <2>2. \A i \in 1 .. Len(Fields[t]) : \A p, q : p \in Upto(i - 1) /\ q \in From(i) => Before(t, p, q)
    BY UnsetUpToSplit
  <2> QED BY <2>1, <2>2
<1>4. \A i \in 1 .. Len(Fields[t]) : Lists(unsetOfField(m, kind, paths, Fields[t][i], deeper), t, From(i))
  <2>1. ASSUME NEW i \in 1 .. Len(Fields[t])
        PROVE  Lists(unsetOfField(m, kind, paths, Fields[t][i], deeper), t, From(i))
    <3>1. Fields[t][i] \in FieldsOf(t)
      BY <1>1, PositionIs
    <3> QED BY <3>1, UnsetOfFieldLists
  <2> QED BY <2>1
<1> HIDE DEF unset, Upto, From
<1>5. 0 \in N
  BY <1>2, <1>3, SortedEmpty, ListsSorted
<1>6. ASSUME NEW i \in Nat, i \in N PROVE i + 1 \in N
  <2>1. SUFFICES ASSUME i + 1 <= Len(Fields[t]) PROVE Lists(unset[i + 1], t, Upto(i + 1))
    OBVIOUS
  <2>2. i + 1 \in 1 .. Len(Fields[t]) /\ (i + 1) - 1 = i /\ Lists(unset[i], t, Upto(i))
    BY <1>1, <1>6, <2>1
  <2>3. /\ unset[i + 1] = Joined(unset[i], unsetOfField(m, kind, paths, Fields[t][i + 1], deeper))
        /\ Upto(i + 1) = Upto(i) \cup From(i + 1)
        /\ \A p, q : p \in Upto(i) /\ q \in From(i + 1) => Before(t, p, q)
        /\ Lists(unsetOfField(m, kind, paths, Fields[t][i + 1], deeper), t, From(i + 1))
    BY <1>2, <1>3, <1>4, <2>2
  <2> QED BY <2>2, <2>3, ListsConcat DEF Joined
<1>7. Nat \subseteq N
  <2> HIDE DEF N
  <2> QED BY <1>5, <1>6, SetInduction
<1>8. Lists(unset[Len(Fields[t])], t, Upto(Len(Fields[t])))
  BY <1>1, <1>7
<1> QED BY <1>3, <1>8 DEF unset

----------------------------------------------------------------------------
(* The recursion.                                                          *)

\* The walks that enter n messages, given those that enter one less.
WalkOf(n, kind, deeper) ==
  [t \in Type |-> [m \in SUBSET Location |-> [paths \in {EveryField} \cup SUBSET Seq(STRING) |->
     IF n = 0 THEN <<>> ELSE unsetOfFields(m, t, kind, paths, deeper)[Len(Fields[t])]]]]

IsWalking(g, kind, n) == g = [i \in 0 .. n |-> WalkOf(i, kind, g[i - 1])]

LEMMA WalkOfNothing ==
  ASSUME NEW kind, NEW a, NEW b
  PROVE  WalkOf(0, kind, a) = WalkOf(0, kind, b)
  BY DEF WalkOf

LEMMA WalkingExists ==
  ASSUME NEW kind, NEW n \in Nat
  PROVE  \E g : IsWalking(g, kind, n)
<1> DEFINE N == {k \in Nat : \E g : IsWalking(g, kind, k)}
<1>1. 0 \in N
  <2> DEFINE g == [i \in 0 .. 0 |-> WalkOf(0, kind, <<>>)]
  <2>1. \A i \in 0 .. 0 : WalkOf(i, kind, g[i - 1]) = WalkOf(0, kind, <<>>)
    <3>1. \A i \in 0 .. 0 : i = 0
      OBVIOUS
    <3> QED BY <3>1, WalkOfNothing
  <2>2. IsWalking(g, kind, 0)
    BY <2>1 DEF IsWalking
  <2> QED BY <2>2
<1>2. ASSUME NEW k \in Nat, k \in N PROVE k + 1 \in N
  <2>1. PICK g : IsWalking(g, kind, k)
    BY <1>2
  <2>2. \A i \in 0 .. k : g[i] = WalkOf(i, kind, g[i - 1])
    BY <2>1 DEF IsWalking
  <2> DEFINE h == [i \in 0 .. k + 1 |-> IF i <= k THEN g[i] ELSE WalkOf(i, kind, g[i - 1])]
  <2>3. h[0] = WalkOf(0, kind, h[0 - 1])
    <3>1. g[0] = WalkOf(0, kind, g[0 - 1]) /\ 0 <= k
      BY <2>2
    <3>2. h[0] = g[0]
      BY <3>1
    <3>3. WalkOf(0, kind, g[0 - 1]) = WalkOf(0, kind, h[0 - 1])
      BY WalkOfNothing
    <3> HIDE DEF h
    <3> QED BY <3>1, <3>2, <3>3
  <2>4. ASSUME NEW i \in 1 .. k + 1 PROVE h[i] = WalkOf(i, kind, h[i - 1])
    <3>1. i - 1 \in 0 .. k /\ h[i - 1] = g[i - 1] /\ i # 0
      OBVIOUS
    <3>2. CASE i <= k
      BY <2>2, <3>1, <3>2
    <3>3. CASE ~(i <= k)
      BY <3>1, <3>3
    <3> QED BY <3>2, <3>3
  <2>5. \A i \in 0 .. k + 1 : i # 0 => i \in 1 .. k + 1
    OBVIOUS
  <2>6. h = [i \in 0 .. k + 1 |-> h[i]]
    OBVIOUS
  <2> HIDE DEF h
  <2>7. \A i \in 0 .. k + 1 : h[i] = WalkOf(i, kind, h[i - 1])
    BY <2>3, <2>4, <2>5
  <2>8. IsWalking(h, kind, k + 1)
    BY <2>6, <2>7 DEF IsWalking
  <2> QED BY <2>8
<1>3. Nat \subseteq N
  <2> HIDE DEF N
  <2> QED BY <1>1, <1>2, SetInduction
<1> QED BY <1>3

LEMMA UnsetPathsStep ==
  ASSUME NEW kind, NEW n \in 0 .. MaxDepth
  PROVE  unsetPaths(kind)[n] = WalkOf(n, kind, unsetPaths(kind)[n - 1])
<1> DEFINE Is(g) == IsWalking(g, kind, MaxDepth)
<1>1. \E g : Is(g)
  BY WalkAssumption, WalkingExists
<1>2. unsetPaths(kind) = CHOOSE g : Is(g)
  BY DEF unsetPaths, IsWalking, WalkOf
<1>3. Is(unsetPaths(kind))
  <2> HIDE DEF Is
  <2> QED BY <1>1, <1>2
<1> QED BY <1>3 DEF IsWalking

\* The walk lists the unset fields, as deep as it goes.
LEMMA WalkLists ==
  ASSUME NEW kind, NEW n \in 0 .. MaxDepth, NEW t \in Type, NEW m \in SUBSET Location, Keyed(m),
         NEW paths \in {EveryField} \cup SUBSET Seq(STRING)
  PROVE  Lists(unsetPaths(kind)[n][t][m][paths], t, Unset(t, m, kind, paths, n))
<1> DEFINE Right(k) ==
             \A type \in Type : \A held \in SUBSET Location : \A masked \in {EveryField} \cup SUBSET Seq(STRING) :
               Keyed(held) =>
                 Lists(unsetPaths(kind)[k][type][held][masked], type, Unset(type, held, kind, masked, k))
           N == {k \in Nat : k <= MaxDepth => Right(k)}
<1>1. MaxDepth \in Nat
  BY WalkAssumption
<1>2. ASSUME NEW k \in 0 .. MaxDepth, NEW type \in Type, NEW held \in SUBSET Location,
             NEW masked \in {EveryField} \cup SUBSET Seq(STRING)
      PROVE  unsetPaths(kind)[k][type][held][masked]
               = IF k = 0 THEN <<>>
                 ELSE unsetOfFields(held, type, kind, masked, unsetPaths(kind)[k - 1])[Len(Fields[type])]
  <2>1. unsetPaths(kind)[k] = WalkOf(k, kind, unsetPaths(kind)[k - 1])
    BY UnsetPathsStep
  <2> QED BY <2>1 DEF WalkOf
<1>3. 0 \in N
  <2>1. 0 \in 0 .. MaxDepth
    BY <1>1
  <2>2. ASSUME NEW type, NEW held, NEW masked PROVE Unset(type, held, kind, masked, 0) = {}
    <3>1. \A p \in Seq(Field) : Len(p) <= 0 => p = <<>>
      <4>1. \A p \in Seq(Field) : Len(p) \in Nat
        OBVIOUS
      <4> QED BY <4>1, EmptySeq
    <3> QED BY <3>1 DEF Unset, IsFieldPath
  <2>3. Right(0)
    BY <1>2, <2>1, <2>2, SortedEmpty, ListsSorted
  <2> QED BY <2>3
<1>4. ASSUME NEW k \in Nat, k \in N PROVE k + 1 \in N
  <2>1. SUFFICES ASSUME k + 1 <= MaxDepth PROVE Right(k + 1)
    OBVIOUS
  <2>2. k + 1 \in 0 .. MaxDepth /\ k + 1 # 0 /\ (k + 1) - 1 = k
    BY <1>1, <2>1
  <2>3. Right(k)
    BY <1>1, <1>4, <2>1
  <2>4. ASSUME NEW type \in Type, NEW held \in SUBSET Location,
               NEW masked \in {EveryField} \cup SUBSET Seq(STRING), Keyed(held)
        PROVE  Lists(unsetPaths(kind)[k + 1][type][held][masked], type, Unset(type, held, kind, masked, k + 1))
    <3>1. unsetPaths(kind)[k + 1][type][held][masked]
            = unsetOfFields(held, type, kind, masked, unsetPaths(kind)[k])[Len(Fields[type])]
      BY <1>2, <2>2
    <3>2. Lists(unsetOfFields(held, type, kind, masked, unsetPaths(kind)[k])[Len(Fields[type])],
                type, Unset(type, held, kind, masked, k + 1))
      BY <2>3, <2>4, UnsetOfFieldsLists
    <3> QED BY <3>1, <3>2
  <2> QED BY <2>4
<1>5. Nat \subseteq N
  <2> HIDE DEF N
  <2> QED BY <1>3, <1>4, SetInduction
<1>6. Right(n)
  BY <1>1, <1>5
<1> HIDE DEF N
<1> QED BY <1>6

----------------------------------------------------------------------------
(* Names back to descriptors.                                              *)

NextPath(t, names, i, sofar) ==
  IF Len(sofar) < i - 1 \/ ByName(TypeBeneath(t, sofar), names[i]) = {} THEN sofar
  ELSE Append(sofar, CHOOSE f \in ByName(TypeBeneath(t, sofar), names[i]) : TRUE)

IsResolving(g, t, names, n) == g = [i \in 0 .. n |-> IF i = 0 THEN <<>> ELSE NextPath(t, names, i, g[i - 1])]

LEMMA ResolvingExists ==
  ASSUME NEW t, NEW names, NEW n \in Nat
  PROVE  \E g : IsResolving(g, t, names, n)
<1> DEFINE N == {k \in Nat : \E g : IsResolving(g, t, names, k)}
<1>1. 0 \in N
  <2> DEFINE g == [i \in 0 .. 0 |-> <<>>]
  <2>1. IsResolving(g, t, names, 0)
    BY DEF IsResolving
  <2> QED BY <2>1
<1>2. ASSUME NEW k \in Nat, k \in N PROVE k + 1 \in N
  <2>1. PICK g : IsResolving(g, t, names, k)
    BY <1>2
  <2>2. \A i \in 0 .. k : g[i] = IF i = 0 THEN <<>> ELSE NextPath(t, names, i, g[i - 1])
    BY <2>1 DEF IsResolving
  <2> DEFINE h == [i \in 0 .. k + 1 |-> IF i <= k THEN g[i] ELSE NextPath(t, names, i, g[i - 1])]
  <2>3. h[0] = <<>>
    <3>1. g[0] = <<>> /\ 0 <= k
      BY <2>2
    <3> QED BY <3>1
  <2>4. ASSUME NEW i \in 1 .. k + 1 PROVE h[i] = NextPath(t, names, i, h[i - 1])
    <3>1. i - 1 \in 0 .. k /\ h[i - 1] = g[i - 1] /\ i # 0
      OBVIOUS
    <3>2. CASE i <= k
      BY <2>2, <3>1, <3>2
    <3>3. CASE ~(i <= k)
      BY <3>1, <3>3
    <3> QED BY <3>2, <3>3
  <2>5. \A i \in 0 .. k + 1 : i # 0 => i \in 1 .. k + 1
    OBVIOUS
  <2>6. h = [i \in 0 .. k + 1 |-> h[i]]
    OBVIOUS
  <2> HIDE DEF h
  <2>7. IsResolving(h, t, names, k + 1)
    BY <2>3, <2>4, <2>5, <2>6 DEF IsResolving
  <2> QED BY <2>7
<1>3. Nat \subseteq N
  <2> HIDE DEF N
  <2> QED BY <1>1, <1>2, SetInduction
<1> QED BY <1>3

\* Each beginning of a field path leads to a message that has its next field.
LEMMA LeadsTo ==
  ASSUME NEW t \in Type, NEW p \in Seq(Field), IsFieldPath(t, p), NEW i \in 1 .. Len(p)
  PROVE  /\ TypeBeneath(t, SubSeq(p, 1, i - 1)) \in Type
         /\ p[i] \in FieldsOf(TypeBeneath(t, SubSeq(p, 1, i - 1)))
<1> DEFINE b == SubSeq(p, 1, i - 1)
<1>1. i - 1 \in 0 .. Len(p) /\ Len(p) \in Nat
  OBVIOUS
<1>2. b \in Seq(Field) /\ Len(b) = i - 1 /\ \A j \in 1 .. i - 1 : b[j] = p[j]
  BY <1>1, BeginningIsPath
<1> HIDE DEF b
<1>3. CASE i = 1
  <2>1. b = <<>>
    BY <1>2, <1>3, EmptySeq
  <2> QED BY <1>3, <2>1 DEF b, TypeBeneath, IsFieldPath
<1>4. CASE i # 1
  <2>1. i - 1 \in 1 .. Len(p) - 1 /\ (i - 1) + 1 = i /\ i - 1 \in 1 .. i - 1
    BY <1>1, <1>4
  <2>2. b # <<>> /\ Last(b) = p[i - 1]
    BY <1>2, <2>1 DEF Last
  <2>3. TypeBeneath(t, b) = MessageOf[p[i - 1]]
    BY <2>2 DEF TypeBeneath
  <2>4. isSingularMessage(p[i - 1]) /\ p[i] \in FieldsOf(MessageOf[p[i - 1]])
    BY <2>1 DEF IsFieldPath
  <2>5. p[i - 1] \in Field
    BY <2>1
  <2> QED BY <2>3, <2>4, <2>5, HeldType DEF b
<1> QED BY <1>3, <1>4

LEMMA BeginningAppend ==
  ASSUME NEW S, NEW p \in Seq(S), NEW i \in 1 .. Len(p)
  PROVE  SubSeq(p, 1, i) = Append(SubSeq(p, 1, i - 1), p[i])
<1>1. i - 1 \in 0 .. Len(p) /\ i \in 0 .. Len(p) /\ p[i] \in S
  OBVIOUS
<1> DEFINE b == SubSeq(p, 1, i - 1)
           c == SubSeq(p, 1, i)
           d == Append(b, p[i])
<1>2. b \in Seq(S) /\ Len(b) = i - 1 /\ \A j \in 1 .. i - 1 : b[j] = p[j]
  BY <1>1, BeginningIsPath
<1>3. c \in Seq(S) /\ Len(c) = i /\ \A j \in 1 .. i : c[j] = p[j]
  BY <1>1, BeginningIsPath
<1> HIDE DEF b, c
<1>4. /\ d \in Seq(S) /\ Len(d) = i /\ d[i] = p[i]
      /\ \A j \in 1 .. i - 1 : d[j] = b[j]
  BY <1>1, <1>2
<1> HIDE DEF d
<1>5. ASSUME NEW j \in 1 .. i PROVE c[j] = d[j]
  <2>1. j = i \/ j \in 1 .. i - 1
    OBVIOUS
  <2> QED BY <1>2, <1>3, <1>4, <2>1
<1>6. c = d
  BY <1>3, <1>4, <1>5, SeqEqual
<1> QED BY <1>6 DEF b, c, d

\* The descriptors of a field path are found by their names.
LEMMA PathOfNames ==
  ASSUME NEW t \in Type, NEW p \in Seq(Field), IsFieldPath(t, p)
  PROVE  fieldPath(t, NamesOf(p)) = p
<1> DEFINE names == NamesOf(p)
           Is(g) == IsResolving(g, t, names, Len(names))
           path == CHOOSE g : Is(g)
           N == {k \in Nat : k <= Len(p) => path[k] = SubSeq(p, 1, k)}
<1>1. /\ Len(p) \in Nat /\ Len(names) = Len(p)
      /\ \A i \in 1 .. Len(p) : names[i] = Name[p[i]]
  BY DEF NamesOf
<1>2. fieldPath(t, names) = path[Len(names)]
  BY DEF fieldPath, IsResolving, NextPath
<1>3. \E g : Is(g)
  BY <1>1, ResolvingExists
<1>4. Is(path)
  <2> HIDE DEF Is
  <2> QED BY <1>3
<1> HIDE DEF path, names
<1>5. \A k \in 0 .. Len(p) : path[k] = IF k = 0 THEN <<>> ELSE NextPath(t, names, k, path[k - 1])
  BY <1>1, <1>4 DEF IsResolving
<1>6. 0 \in N
  <2>1. SubSeq(p, 1, 0) = <<>> /\ 0 \in 0 .. Len(p)
    BY <1>1, SubSeqEmpty
  <2> QED BY <1>5, <2>1
<1>7. ASSUME NEW k \in Nat, k \in N PROVE k + 1 \in N
  <2>1. SUFFICES ASSUME k + 1 <= Len(p) PROVE path[k + 1] = SubSeq(p, 1, k + 1)
    OBVIOUS
  <2>2. k + 1 \in 0 .. Len(p) /\ k + 1 \in 1 .. Len(p) /\ k + 1 # 0 /\ (k + 1) - 1 = k /\ k \in 0 .. Len(p)
    BY <1>1, <2>1
  <2> DEFINE b == SubSeq(p, 1, k)
             type == TypeBeneath(t, b)
  <2>3. path[k] = b /\ path[k + 1] = NextPath(t, names, k + 1, b)
    <3>1. path[k] = SubSeq(p, 1, k)
      BY <1>1, <1>7, <2>1
    <3>2. path[k + 1] = NextPath(t, names, k + 1, path[(k + 1) - 1])
      BY <1>5, <2>2
    <3> QED BY <2>2, <3>1, <3>2
  <2>4. Len(b) = k
    BY <2>2, BeginningIsPath
  <2>5. type \in Type /\ p[k + 1] \in FieldsOf(type)
    <3>1. ASSUME NEW i \in 1 .. Len(p)
          PROVE  /\ TypeBeneath(t, SubSeq(p, 1, i - 1)) \in Type
                 /\ p[i] \in FieldsOf(TypeBeneath(t, SubSeq(p, 1, i - 1)))
      BY LeadsTo
    <3> QED BY <2>2, <3>1
  <2>6. p[k + 1] \in ByName(type, names[k + 1])
    <3>1. type # NoType
      BY <2>5, SchemaAssumption
    <3>2. names[k + 1] = Name[p[k + 1]]
      BY <1>1, <2>2
    <3> HIDE DEF type
    <3> QED BY <2>5, <3>1, <3>2 DEF ByName
  <2> HIDE DEF b
  <2>7. (CHOOSE f \in ByName(type, names[k + 1]) : TRUE) = p[k + 1]
    <3>1. (CHOOSE f \in ByName(type, names[k + 1]) : TRUE) \in ByName(type, names[k + 1])
      BY <2>6
    <3> HIDE DEF type
    <3> QED BY <2>5, <2>6, <3>1, ByNameOnce
  <2>8. NextPath(t, names, k + 1, b) = Append(b, p[k + 1])
    <3>1. ~(Len(b) < (k + 1) - 1)
      BY <2>2, <2>4
    <3>2. ByName(TypeBeneath(t, b), names[k + 1]) # {}
      BY <2>6
    <3> QED BY <2>7, <3>1, <3>2 DEF NextPath
  <2>9. Append(b, p[k + 1]) = SubSeq(p, 1, k + 1)
    <3>1. ASSUME NEW i \in 1 .. Len(p) PROVE SubSeq(p, 1, i) = Append(SubSeq(p, 1, i - 1), p[i])
      BY BeginningAppend
    <3> QED BY <2>2, <3>1 DEF b
  <2> QED BY <2>3, <2>8, <2>9
<1>8. Nat \subseteq N
  <2> HIDE DEF N
  <2> QED BY <1>6, <1>7, SetInduction
<1>9. path[Len(p)] = SubSeq(p, 1, Len(p))
  BY <1>1, <1>8
<1>10. SubSeq(p, 1, Len(p)) = p
  BY SubSeqFull
<1> QED BY <1>1, <1>2, <1>9, <1>10 DEF names

----------------------------------------------------------------------------
(* ValidateFields.                                                         *)

LEMMA PathsOfMask ==
  ASSUME NEW mask, mask = NoMask \/ mask \in Seq(Seq(STRING))
  PROVE  PathsOf(mask) \in {EveryField} \cup SUBSET Seq(STRING)
<1>1. mask \in Seq(Seq(STRING)) => ToSet(mask) \subseteq Seq(STRING)
  BY DEF ToSet
<1> QED BY <1>1 DEF PathsOf

LEMMA FieldPathsIs ==
  ASSUME NEW t \in Type, NEW p
  PROVE  p \in FieldPaths[t] <=> p \in Seq(Field) /\ IsFieldPath(t, p) /\ Len(p) <= MaxDepth
<1> DEFINE bounded == UNION {[1 .. n -> Field] : n \in 1 .. MaxDepth}
<1>1. FieldPaths[t] = {q \in bounded : IsFieldPath(t, q)}
  BY DEF FieldPaths
<1>2. ASSUME p \in bounded PROVE p \in Seq(Field) /\ Len(p) <= MaxDepth
  <2>1. PICK n \in 1 .. MaxDepth : p \in [1 .. n -> Field]
    BY <1>2
  <2>2. n \in Nat /\ n <= MaxDepth
    BY <2>1, WalkAssumption
  <2>3. p \in Seq(Field) /\ Len(p) = n
    BY <2>1, <2>2
  <2> QED BY <2>2, <2>3
<1>3. ASSUME p \in Seq(Field), p # <<>>, Len(p) <= MaxDepth PROVE p \in bounded
  <2>1. Len(p) \in 1 .. MaxDepth /\ p \in [1 .. Len(p) -> Field]
    BY <1>3, WalkAssumption
  <2> QED BY <2>1
<1> HIDE DEF bounded
<1>4. IsFieldPath(t, p) => p # <<>>
  BY DEF IsFieldPath
<1> QED BY <1>1, <1>2, <1>3, <1>4

\* ValidateFields reports exactly the unset fields of the kind that the mask
\* covers, as paths that resolve, in declaration order, depth first.
THEOREM ValidateFieldsReportsTheUnset ==
  ASSUME NEW t \in Type, NEW m \in SUBSET Location, Keyed(m), NEW kind,
         NEW mask, mask = NoMask \/ mask \in Seq(Seq(STRING))
  PROVE  LET unset == ValidateFields(t, m, kind, mask)
         IN /\ unset \in Seq(FieldPaths[t])
            /\ ToSet(unset) = {p \in FieldPaths[t] : IsUnset(m, kind, PathsOf(mask), p)}
            /\ \A i, j \in DOMAIN unset : i < j => Before(t, unset[i], unset[j])
<1> DEFINE paths == PathsOf(mask)
           names == unsetPaths(kind)[MaxDepth][t][m][paths]
           U == Unset(t, m, kind, paths, MaxDepth)
           unset == ValidateFields(t, m, kind, mask)
<1>1. paths \in {EveryField} \cup SUBSET Seq(STRING)
  BY PathsOfMask
<1>2. Lists(names, t, U)
  <2>1. MaxDepth \in 0 .. MaxDepth
    BY WalkAssumption
  <2> HIDE DEF paths
  <2> QED BY <1>1, <2>1, WalkLists
<1>3. unset = [i \in DOMAIN names |-> fieldPath(t, names[i])]
  BY DEF ValidateFields
<1> HIDE DEF names, unset
<1>4. PICK r : Sorted(r, t, U) /\ names = AllNames(r)
  BY <1>2 DEF Lists
<1>5. /\ r \in Seq(U) /\ DOMAIN r = 1 .. Len(r) /\ Len(r) \in Nat /\ ToSet(r) = U
      /\ \A i, j \in DOMAIN r : i < j => Before(t, r[i], r[j])
  BY <1>4 DEF Sorted
<1>6. U = {p \in FieldPaths[t] : IsUnset(m, kind, paths, p)}
  BY FieldPathsIs DEF Unset
<1>7. DOMAIN names = DOMAIN r /\ \A i \in DOMAIN r : names[i] = NamesOf(r[i])
  BY <1>4 DEF AllNames
<1>8. \A p \in U : p \in Seq(Field) /\ IsFieldPath(t, p)
  BY DEF Unset
<1> HIDE DEF U
<1>9. \A i \in DOMAIN r : fieldPath(t, names[i]) = r[i]
  <2>1. \A i \in DOMAIN r : r[i] \in U
    BY <1>5
  <2> QED BY <1>7, <1>8, <2>1, PathOfNames
<1>10. unset = r
  <2>1. unset = [i \in DOMAIN r |-> r[i]]
    BY <1>3, <1>7, <1>9
  <2>2. r = [i \in DOMAIN r |-> r[i]]
    BY <1>5
  <2> QED BY <2>1, <2>2
<1>11. r \in Seq(FieldPaths[t])
  <2>1. U \subseteq FieldPaths[t]
    BY <1>6
  <2> QED BY <1>5, <2>1, SeqMonotonic
<1> QED BY <1>5, <1>6, <1>10, <1>11 DEF unset

\* In a message and a mask that are not deeper than the bound, no unset field
\* lies beyond it.
LEMMA NoneBeyondTheBound ==
  ASSUME NEW t \in Type, NEW m \in SUBSET Location, IsShallow(m), NEW kind,
         NEW mask, mask = NoMask \/ mask \in Seq(Seq(STRING)), AreShallow(mask),
         NEW p \in Seq(Field), IsFieldPath(t, p), IsUnset(m, kind, PathsOf(mask), p)
  PROVE  Len(p) <= MaxDepth
<1>1. Len(p) \in Nat \ {0} /\ MaxDepth \in Nat \ {0}
  BY WalkAssumption DEF IsFieldPath
<1>2. PICK i \in 0 .. Len(p) : FirstNamed(PathsOf(mask), p, i) /\ SetFrom(m, p, i)
  BY DEF IsUnset
<1>3. CASE i = Len(p)
  <2>1. mask # NoMask /\ NamesOf(SubSeq(p, 1, i)) \in ToSet(mask)
    BY <1>1, <1>2, <1>3 DEF FirstNamed, PathsOf
  <2>2. SubSeq(p, 1, i) = p
    BY <1>3, SubSeqFull
  <2>3. Len(NamesOf(p)) = Len(p)
    BY DEF NamesOf
  <2> QED BY <2>1, <2>2, <2>3 DEF AreShallow
<1>4. CASE i # Len(p) /\ Len(p) = 1
  BY <1>1, <1>4
<1>5. CASE i # Len(p) /\ Len(p) # 1
  <2> DEFINE k == Len(p) - 1
             b == SubSeq(p, 1, k)
             at == LocationOf(b)
  <2>1. k \in i .. k /\ k > 0 /\ k \in 0 .. Len(p) /\ k \in 1 .. Len(p) - 1
    <3>1. \A l \in Nat \ {0, 1} : \A j \in 0 .. l :
            j # l => l - 1 \in j .. l - 1 /\ l - 1 > 0 /\ l - 1 \in 0 .. l /\ l - 1 \in 1 .. l - 1
      OBVIOUS
    <3> QED BY <1>1, <1>5, <3>1
  <2>2. at \in m
    BY <1>2, <2>1 DEF SetFrom
  <2>3. b \in Seq(Field) /\ Len(b) = k /\ \A j \in 1 .. k : b[j] = p[j]
    BY <2>1, BeginningIsPath
  <2> HIDE DEF b
  <2>4. at = [j \in 1 .. k |-> Step(b[j], 0)]
    BY <2>3 DEF LocationOf
  <2>5. Len(at) = k /\ at[k] = Step(p[k], 0)
    BY <2>1, <2>3, <2>4
  <2>6. Last(at).field = p[k]
    BY <2>5 DEF Last, Step
  <2>7. HoldsMessage(p[k])
    BY <2>1 DEF IsFieldPath, isSingularMessage
  <2> HIDE DEF at
  <2>8. Len(at) < MaxDepth
    BY <2>2, <2>6, <2>7 DEF IsShallow
  <2> QED BY <1>1, <2>5, <2>8
<1> QED BY <1>3, <1>4, <1>5

\* A message has its single messages under the key 0.
LEMMA MessageIsKeyed ==
  ASSUME NEW t, NEW m \in SUBSET Location, IsMessage(t, m)
  PROVE  Keyed(m)
<1>1. ASSUME NEW at \in m, NEW i \in DOMAIN at, isSingularMessage(at[i].field)
      PROVE  at[i].key = 0
  <2> DEFINE b == SubSeq(at, 1, i)
             f == at[i].field
             values == Values(m, Front(b), f)
  <2>1. at \in Seq(StepSet) /\ i \in 1 .. Len(at) /\ Len(at) \in Nat /\ i \in 0 .. Len(at)
    BY DEF Location
  <2>2. at[i] \in StepSet /\ at[i].key \in Key
    <3>1. at[i] \in StepSet
      BY <2>1
    <3> QED BY <3>1 DEF StepSet
  <2>3. b \in m
    <3>1. CASE i = Len(at)
      BY <2>1, <3>1, SubSeqFull
    <3>2. CASE i # Len(at)
      <4>1. i \in 1 .. Len(at) - 1
        BY <2>1, <3>2
      <4> QED BY <4>1 DEF IsMessage
    <3> QED BY <3>1, <3>2
  <2>4. b \in Seq(StepSet) /\ Len(b) = i /\ b[i] = at[i]
    BY <2>1, BeginningIsPath
  <2>5. Last(b) = at[i] /\ b # <<>>
    BY <2>1, <2>4 DEF Last
  <2>6. Append(Front(b), at[i]) = b
    <3>1. Front(b) = SubSeq(b, 1, i - 1) /\ i \in 1 .. Len(b)
      BY <2>1, <2>4 DEF Front
    <3>2. SubSeq(b, 1, i) = Append(SubSeq(b, 1, i - 1), b[i])
      BY <2>4, <3>1, BeginningAppend
    <3>3. SubSeq(b, 1, i) = b
      BY <2>4, SubSeqFull
    <3> QED BY <2>4, <3>1, <3>2, <3>3
  <2>7. at[i] = Step(f, at[i].key)
    BY <2>2 DEF StepSet, Step
  <2> HIDE DEF b
  <2>8. at[i].key \in values
    BY <2>2, <2>3, <2>6, <2>7 DEF Values
  <2>9. Shape[f] = "singular" /\ HoldsMessage(f)
    BY <1>1 DEF isSingularMessage
  <2>10. values = {0} \/ (values = {NegativeZero} /\ ~HoldsMessage(f))
    <3>1. LET g == Last(b).field
              vs == Values(m, Front(b), g)
          IN CASE Shape[g] = "singular" -> vs = {0} \/ (vs = {NegativeZero} /\ ~HoldsMessage(g))
               [] Shape[g] = "list"     -> \E n \in Key : vs = 1 .. n
               [] Shape[g] = "map"      -> \A k \in vs : k > 0
      BY <2>3 DEF IsMessage
    <3> HIDE DEF values
    <3>2. Last(b).field = f
      BY <2>5
    <3> QED BY <2>9, <3>1, <3>2 DEF values
  <2> QED BY <2>8, <2>9, <2>10
<1> QED BY <1>1 DEF Keyed

----------------------------------------------------------------------------
(* ClearFields.                                                            *)

\* What passes through the kind passes through it down to any message or field
\* it lies in, or beneath that.
LEMMA PassesBelow ==
  ASSUME NEW at \in Location, NEW i \in 1 .. Len(at), NEW kind,
         PassesThrough(kind, SubSeq(at, 1, i))
  PROVE  PassesThrough(kind, at)
<1> DEFINE b == SubSeq(at, 1, i)
<1>1. at \in Seq(StepSet) /\ i \in 0 .. Len(at) /\ Len(at) \in Nat /\ DOMAIN at = 1 .. Len(at)
  BY DEF Location
<1>2. b \in Seq(StepSet) /\ Len(b) = i /\ \A j \in 1 .. i : b[j] = at[j]
  BY <1>1, BeginningIsPath
<1>3. PICK j \in DOMAIN b : HasKind(b[j].field, kind)
  BY DEF PassesThrough
<1> HIDE DEF b
<1>4. j \in 1 .. i /\ j \in DOMAIN at /\ b[j] = at[j]
  BY <1>1, <1>2, <1>3
<1> QED BY <1>3, <1>4 DEF PassesThrough

\* A location one step further on passes through the kind if it did before, or
\* by its last field, whatever the key.
LEMMA PassesUnderAnyKey ==
  ASSUME NEW at \in Location, at # <<>>, NEW k \in Key, NEW kind
  PROVE  /\ Append(Front(at), Step(Last(at).field, k)) \in Location
         /\ PassesThrough(kind, Append(Front(at), Step(Last(at).field, k))) <=> PassesThrough(kind, at)
<1> DEFINE n == Len(at)
           b == Front(at)
           st == Step(Last(at).field, k)
           l == Append(b, st)
<1>1. at \in Seq(StepSet) /\ n \in Nat \ {0} /\ DOMAIN at = 1 .. n /\ n - 1 \in 0 .. n
  BY EmptySeq DEF Location
<1>2. b = SubSeq(at, 1, n - 1)
  BY DEF Front
<1>3. b \in Seq(StepSet) /\ Len(b) = n - 1 /\ \A j \in 1 .. n - 1 : b[j] = at[j]
  BY <1>1, <1>2, BeginningIsPath
<1>4. Last(at) = at[n] /\ at[n] \in StepSet
  BY <1>1 DEF Last
<1>5. st \in StepSet /\ st.field = at[n].field
  BY <1>4 DEF StepSet, Step
<1> HIDE DEF b, st, n
<1>6. /\ l \in Seq(StepSet) /\ Len(l) = n /\ l[n] = st
      /\ \A j \in 1 .. n - 1 : l[j] = b[j]
  <2>1. /\ l \in Seq(StepSet) /\ Len(l) = Len(b) + 1 /\ l[Len(b) + 1] = st
        /\ \A j \in 1 .. Len(b) : l[j] = b[j]
    BY <1>3, <1>5, AppendProperties
  <2>2. Len(b) + 1 = n
    BY <1>1, <1>3
  <2> QED BY <1>3, <2>1, <2>2
<1> HIDE DEF l
<1>7. ASSUME NEW j \in 1 .. n PROVE l[j].field = at[j].field
  <2>1. j = n \/ j \in 1 .. n - 1
    BY <1>1
  <2> QED BY <1>3, <1>5, <1>6, <2>1
<1>8. DOMAIN l = DOMAIN at
  BY <1>1, <1>6
<1>9. PassesThrough(kind, l) <=> PassesThrough(kind, at)
  BY <1>1, <1>7, <1>8 DEF PassesThrough
<1> QED BY <1>6, <1>9 DEF l, b, st, Location

\* What ClearFields leaves of a message is a message.
LEMMA ClearedIsMessage ==
  ASSUME NEW t, NEW m \in SUBSET Location, IsMessage(t, m), NEW kind
  PROVE  IsMessage(t, ClearFields(m, kind))
<1> DEFINE c == ClearFields(m, kind)
<1>1. \A at : at \in c <=> at \in m /\ ~PassesThrough(kind, at)
  BY DEF ClearFields
<1> HIDE DEF c
<1>2. ASSUME NEW at \in c
      PROVE  LET f == Last(at).field
                 values == Values(c, Front(at), f)
             IN /\ at # <<>>
                /\ \A i \in 1 .. Len(at) - 1 : SubSeq(at, 1, i) \in c /\ HoldsMessage(at[i].field)
                /\ f \in FieldsOf(TypeAt(t, Front(at)))
                /\ CASE Shape[f] = "singular" ->
                       values = {0} \/ (values = {NegativeZero} /\ ~HoldsMessage(f))
                     [] Shape[f] = "list"     -> \E n \in Key : values = 1 .. n
                     [] Shape[f] = "map"      -> \A k \in values : k > 0
  <2> DEFINE f == Last(at).field
  <2>1. at \in m /\ at \in Location /\ ~PassesThrough(kind, at)
    BY <1>1, <1>2
  <2>2. LET values == Values(m, Front(at), f)
        IN /\ at # <<>>
           /\ \A i \in 1 .. Len(at) - 1 : SubSeq(at, 1, i) \in m /\ HoldsMessage(at[i].field)
           /\ f \in FieldsOf(TypeAt(t, Front(at)))
           /\ CASE Shape[f] = "singular" ->
                  values = {0} \/ (values = {NegativeZero} /\ ~HoldsMessage(f))
                [] Shape[f] = "list"     -> \E n \in Key : values = 1 .. n
                [] Shape[f] = "map"      -> \A k \in values : k > 0
    BY <2>1 DEF IsMessage
  <2>3. Values(c, Front(at), f) = Values(m, Front(at), f)
    <3>1. ASSUME NEW k \in Key
          PROVE  Append(Front(at), Step(f, k)) \in c <=> Append(Front(at), Step(f, k)) \in m
      BY <1>1, <2>1, <2>2, PassesUnderAnyKey
    <3> QED BY <3>1 DEF Values
  <2>4. ASSUME NEW i \in 1 .. Len(at) - 1 PROVE SubSeq(at, 1, i) \in c
    <3>1. i \in 1 .. Len(at)
      BY <2>1 DEF Location
    <3> QED BY <1>1, <2>1, <2>2, <3>1, PassesBelow
  <2> HIDE DEF f
  <2>5. LET values == Values(c, Front(at), f)
        IN /\ at # <<>>
           /\ \A i \in 1 .. Len(at) - 1 : SubSeq(at, 1, i) \in c /\ HoldsMessage(at[i].field)
           /\ f \in FieldsOf(TypeAt(t, Front(at)))
           /\ CASE Shape[f] = "singular" ->
                  values = {0} \/ (values = {NegativeZero} /\ ~HoldsMessage(f))
                [] Shape[f] = "list"     -> \E n \in Key : values = 1 .. n
                [] Shape[f] = "map"      -> \A k \in values : k > 0
    BY <2>2, <2>3, <2>4
  <2> QED BY <2>5 DEF f
<1>3. IsMessage(t, c)
  BY <1>2 DEF IsMessage
<1> QED BY <1>3 DEF c

\* The top of a location in a message is a field of the message's own type, and set.
LEMMA TopIsSet ==
  ASSUME NEW t, NEW m \in SUBSET Location, IsMessage(t, m), NEW at \in m
  PROVE  /\ at # <<>> /\ at[1] \in StepSet
         /\ at[1].field \in FieldsOf(t)
         /\ Has(m, <<>>, at[1].field)
<1>1. at # <<>> /\ \A i \in 1 .. Len(at) - 1 : SubSeq(at, 1, i) \in m
  BY DEF IsMessage
<1>2. at \in Seq(StepSet) /\ Len(at) \in Nat \ {0} /\ 1 \in 0 .. Len(at) /\ 1 \in 1 .. Len(at)
  BY <1>1, EmptySeq DEF Location
<1> DEFINE b == SubSeq(at, 1, 1)
<1>3. b \in Seq(StepSet) /\ Len(b) = 1 /\ b[1] = at[1]
  BY <1>2, BeginningIsPath
<1>4. b \in m
  <2>1. CASE Len(at) = 1
    BY <1>2, <2>1, SubSeqFull
  <2>2. CASE Len(at) # 1
    <3>1. 1 \in 1 .. Len(at) - 1
      <4>1. \A n \in Nat \ {0} : n # 1 => 1 \in 1 .. n - 1
        OBVIOUS
      <4> QED BY <1>2, <2>2, <4>1
    <3> QED BY <1>1, <3>1
  <2> QED BY <2>1, <2>2
<1> HIDE DEF b
<1>5. Last(b) = at[1] /\ Front(b) = <<>> /\ b = <<at[1]>>
  <2>1. Last(b) = at[1]
    BY <1>3 DEF Last
  <2>2. Front(b) = SubSeq(b, 1, 0)
    BY <1>3 DEF Front
  <2>3. SubSeq(b, 1, 0) = <<>>
    BY <1>3, SubSeqEmpty
  <2>4. b = <<at[1]>>
    <3>1. at[1] \in StepSet
      BY <1>2
    <3>2. <<at[1]>> \in Seq(StepSet) /\ Len(<<at[1]>>) = 1 /\ <<at[1]>>[1] = at[1]
      BY <3>1
    <3> QED BY <1>3, <3>2, SeqEqual
  <2> QED BY <2>1, <2>2, <2>3, <2>4
<1>6. at[1].field \in FieldsOf(TypeAt(t, <<>>))
  BY <1>4, <1>5 DEF IsMessage
<1>7. at[1] \in StepSet
  BY <1>2
<1>8. at[1].key \in Key /\ Step(at[1].field, at[1].key) = at[1]
  BY <1>7 DEF StepSet, Step
<1>9. Append(<<>>, at[1]) = <<at[1]>>
  OBVIOUS
<1>10. at[1].key \in Values(m, <<>>, at[1].field)
  BY <1>4, <1>5, <1>8, <1>9 DEF Values
<1> QED BY <1>1, <1>6, <1>7, <1>10 DEF TypeAt, Has

----------------------------------------------------------------------------
(* Field paths, built from the front.                                      *)

LEMMA BeforeLast ==
  ASSUME NEW S, NEW p \in Seq(S), NEW f \in S
  PROVE  /\ Append(p, f) \in Seq(S) /\ Len(Append(p, f)) = Len(p) + 1
         /\ Append(p, f)[Len(p) + 1] = f /\ \A i \in 1 .. Len(p) : Append(p, f)[i] = p[i]
         /\ Last(Append(p, f)) = f
<1>1. /\ Append(p, f) \in Seq(S) /\ Len(Append(p, f)) = Len(p) + 1
      /\ Append(p, f)[Len(p) + 1] = f /\ \A i \in 1 .. Len(p) : Append(p, f)[i] = p[i]
  BY AppendProperties
<1> QED BY <1>1 DEF Last

LEMMA SameBeforeLast ==
  ASSUME NEW S, NEW p \in Seq(S), NEW q \in Seq(S), NEW f \in S, NEW g \in S, Append(p, f) = Append(q, g)
  PROVE  p = q /\ f = g
  BY AppendInjective

LEMMA SameStringsBeforeLast ==
  \A p, q \in Seq(STRING) : \A f, g \in STRING : Append(p, f) = Append(q, g) => p = q /\ f = g
  BY SameBeforeLast

LEMMA PathBeforeLast ==
  ASSUME NEW t \in Type, NEW p \in Seq(Field), p # <<>>, NEW f \in Field
  PROVE  IsFieldPath(t, Append(p, f))
         <=> IsFieldPath(t, p) /\ isSingularMessage(Last(p)) /\ f \in FieldsOf(MessageOf[Last(p)])
<1> DEFINE n == Len(p)
           q == Append(p, f)
<1>1. n \in Nat \ {0} /\ Last(p) = p[n]
  BY EmptySeq DEF Last
<1>2. Len(q) = n + 1 /\ q[n + 1] = f /\ (\A i \in 1 .. n : q[i] = p[i]) /\ q # <<>>
  BY BeforeLast, EmptySeq
<1> HIDE DEF q
<1>3. q[1] = p[1] /\ (n + 1) - 1 = n /\ 1 .. n = 1 .. n - 1 \cup {n}
  BY <1>1, <1>2
<1>4. \A i \in 1 .. n - 1 : q[i] = p[i] /\ q[i + 1] = p[i + 1]
  BY <1>1, <1>2
<1>5. q[n] = p[n]
  BY <1>1, <1>2
<1> HIDE DEF n
<1>6. IsFieldPath(t, q)
      <=> /\ q[1] \in FieldsOf(t)
          /\ \A i \in 1 .. n : isSingularMessage(q[i]) /\ q[i + 1] \in FieldsOf(MessageOf[q[i]])
  BY <1>2, <1>3 DEF IsFieldPath
<1>7. IsFieldPath(t, p)
      <=> /\ p[1] \in FieldsOf(t)
          /\ \A i \in 1 .. n - 1 : isSingularMessage(p[i]) /\ p[i + 1] \in FieldsOf(MessageOf[p[i]])
  BY DEF IsFieldPath, n
<1> QED BY <1>1, <1>2, <1>3, <1>4, <1>5, <1>6, <1>7 DEF q

LEMMA NamesBeforeLast ==
  ASSUME NEW p \in Seq(Field), NEW f \in Field
  PROVE  NamesOf(Append(p, f)) = Append(NamesOf(p), Name[f]) /\ NamesOf(p) \in Seq(STRING)
         /\ Len(NamesOf(p)) = Len(p)
<1> DEFINE n == Len(p)
           q == Append(p, f)
           r == Append(NamesOf(p), Name[f])
<1>1. n \in Nat /\ DOMAIN p = 1 .. n
  OBVIOUS
<1>2. q \in Seq(Field) /\ Len(q) = n + 1 /\ q[n + 1] = f /\ (\A i \in 1 .. n : q[i] = p[i])
  BY BeforeLast
<1> HIDE DEF q
<1>3. NamesOf(p) \in Seq(STRING) /\ Len(NamesOf(p)) = n /\ (\A i \in 1 .. n : NamesOf(p)[i] = Name[p[i]])
      /\ Name[f] \in STRING
  BY WalkAssumption DEF NamesOf
<1>4. r \in Seq(STRING) /\ Len(r) = n + 1 /\ r[n + 1] = Name[f] /\ \A i \in 1 .. n : r[i] = NamesOf(p)[i]
  BY <1>3, BeforeLast
<1>5. NamesOf(q) \in Seq(STRING) /\ Len(NamesOf(q)) = n + 1 /\ \A i \in 1 .. n + 1 : NamesOf(q)[i] = Name[q[i]]
  BY <1>2, WalkAssumption DEF NamesOf
<1> HIDE DEF n, r
<1>6. ASSUME NEW i \in 1 .. n + 1 PROVE NamesOf(q)[i] = r[i]
  <2>1. i = n + 1 \/ i \in 1 .. n
    BY <1>1
  <2> QED BY <1>2, <1>3, <1>4, <1>5, <2>1
<1>7. NamesOf(q) = r
  BY <1>4, <1>5, <1>6, SeqEqual
<1> QED BY <1>3, <1>7 DEF q, r, n

----------------------------------------------------------------------------
(* The walk of a mask path over the descriptors.                           *)

IsSegments(g, t, path, n) == g = [i \in 0 .. n |-> IF i = 0 THEN t ELSE SegmentType(g[i - 1], path[i])]

LEMMA SegmentsExist ==
  ASSUME NEW t, NEW path, NEW n \in Nat
  PROVE  \E g : IsSegments(g, t, path, n)
<1> DEFINE N == {k \in Nat : \E g : IsSegments(g, t, path, k)}
<1>1. 0 \in N
  <2> DEFINE g == [i \in 0 .. 0 |-> t]
  <2>1. IsSegments(g, t, path, 0)
    BY DEF IsSegments
  <2> QED BY <2>1
<1>2. ASSUME NEW k \in Nat, k \in N PROVE k + 1 \in N
  <2>1. PICK g : IsSegments(g, t, path, k)
    BY <1>2
  <2>2. \A i \in 0 .. k : g[i] = IF i = 0 THEN t ELSE SegmentType(g[i - 1], path[i])
    BY <2>1 DEF IsSegments
  <2> DEFINE h == [i \in 0 .. k + 1 |-> IF i <= k THEN g[i] ELSE SegmentType(g[i - 1], path[i])]
  <2>3. h[0] = t
    <3>1. g[0] = t /\ 0 <= k
      BY <2>2
    <3> QED BY <3>1
  <2>4. ASSUME NEW i \in 1 .. k + 1 PROVE h[i] = SegmentType(h[i - 1], path[i])
    <3>1. i - 1 \in 0 .. k /\ h[i - 1] = g[i - 1] /\ i # 0
      OBVIOUS
    <3>2. CASE i <= k
      BY <2>2, <3>1, <3>2
    <3>3. CASE ~(i <= k)
      BY <3>1, <3>3
    <3> QED BY <3>2, <3>3
  <2>5. \A i \in 0 .. k + 1 : i # 0 => i \in 1 .. k + 1
    OBVIOUS
  <2>6. h = [i \in 0 .. k + 1 |-> h[i]]
    OBVIOUS
  <2> HIDE DEF h
  <2>7. IsSegments(h, t, path, k + 1)
    BY <2>3, <2>4, <2>5, <2>6 DEF IsSegments
  <2> QED BY <2>7
<1>3. Nat \subseteq N
  <2> HIDE DEF N
  <2> QED BY <1>1, <1>2, SetInduction
<1> QED BY <1>3

LEMMA WalkIs ==
  ASSUME NEW t, NEW S, NEW path \in Seq(S)
  PROVE  Walk(t, path)[0] = t /\ \A i \in 1 .. Len(path) : Walk(t, path)[i] = SegmentType(Walk(t, path)[i - 1], path[i])
<1> DEFINE Is(g) == IsSegments(g, t, path, Len(path))
<1>1. Len(path) \in Nat
  OBVIOUS
<1>2. \E g : Is(g)
  BY <1>1, SegmentsExist
<1>3. Walk(t, path) = CHOOSE g : Is(g)
  BY DEF Walk, IsSegments
<1>4. Is(Walk(t, path))
  <2> HIDE DEF Is
  <2> QED BY <1>2, <1>3
<1>5. \A i \in 0 .. Len(path) : Walk(t, path)[i] = IF i = 0 THEN t ELSE SegmentType(Walk(t, path)[i - 1], path[i])
  BY <1>4 DEF IsSegments
<1>6. 0 \in 0 .. Len(path) /\ \A i \in 1 .. Len(path) : i \in 0 .. Len(path) /\ i # 0
  BY <1>1
<1> QED BY <1>5, <1>6

\* A segment names the field that ends the field path of the names up to it.
NamedBy(t, path, i, f) ==
  \E p \in Seq(Field) : IsFieldPath(t, p) /\ Len(p) = i /\ NamesOf(p) = SubSeq(path, 1, i) /\ Last(p) = f

LEMMA SegmentIs ==
  ASSUME NEW t \in Type \cup {NoType}, NEW name
  PROVE  /\ SegmentType(t, name) \in Type \cup {NoType}
         /\ \A f \in ByName(t, name) : isSingularMessage(f) => SegmentType(t, name) = MessageOf[f]
         /\ SegmentType(t, name) # NoType =>
              \E f \in ByName(t, name) : isSingularMessage(f) /\ SegmentType(t, name) = MessageOf[f]
<1>1. CASE t = NoType
  <2>1. ByName(t, name) = {}
    BY <1>1 DEF ByName
  <2> QED BY <2>1 DEF SegmentType
<1>2. CASE t \in Type
  <2>1. \A f, g : f \in ByName(t, name) /\ g \in ByName(t, name) => f = g /\ f \in Field
    BY <1>2, ByNameOnce
  <2>2. CASE \E f \in ByName(t, name) : isSingularMessage(f)
    <3>1. PICK f \in ByName(t, name) : isSingularMessage(f)
      BY <2>2
    <3>2. (CHOOSE g \in ByName(t, name) : TRUE) = f
      BY <2>1, <3>1
    <3>3. SegmentType(t, name) = MessageOf[f]
      BY <2>2, <3>2 DEF SegmentType
    <3>4. MessageOf[f] \in Type \cup {NoType}
      BY <2>1, <3>1, SchemaAssumption
    <3> QED BY <2>1, <3>1, <3>3, <3>4
  <2>3. CASE ~\E f \in ByName(t, name) : isSingularMessage(f)
    BY <2>3 DEF SegmentType
  <2> QED BY <2>2, <2>3
<1> QED BY <1>1, <1>2

LEMMA FoundBySegments ==
  ASSUME NEW t \in Type, NEW path \in Seq(STRING), NEW i \in 1 .. Len(path)
  PROVE  /\ Walk(t, path)[i - 1] \in Type \cup {NoType}
         /\ \A f : f \in ByName(Walk(t, path)[i - 1], path[i]) <=> NamedBy(t, path, i, f)
<1> DEFINE w == Walk(t, path)
           Right(k) == /\ w[k] \in Type \cup {NoType}
                       /\ \A f : f \in ByName(w[k], path[k + 1]) <=> NamedBy(t, path, k + 1, f)
           N == {k \in Nat : k + 1 <= Len(path) => Right(k)}
<1>1. w[0] = t /\ \A j \in 1 .. Len(path) : w[j] = SegmentType(w[j - 1], path[j])
  BY WalkIs
<1> HIDE DEF w
<1>2. Len(path) \in Nat /\ t # NoType
  BY SchemaAssumption
<1>3. 0 \in N
  <2> SUFFICES ASSUME 1 <= Len(path) PROVE Right(0)
    OBVIOUS
  <2>1. \A f : f \in ByName(t, path[1]) <=> f \in FieldsOf(t) /\ Name[f] = path[1]
    BY <1>2 DEF ByName
  <2>2. SubSeq(path, 1, 1) \in Seq(STRING) /\ Len(SubSeq(path, 1, 1)) = 1 /\ SubSeq(path, 1, 1)[1] = path[1]
    <3>1. 1 \in 0 .. Len(path)
      BY <1>2
    <3> QED BY <3>1, BeginningIsPath
  <2>3. ASSUME NEW f, f \in FieldsOf(t), Name[f] = path[1] PROVE NamedBy(t, path, 1, f)
    <3>1. f \in Field
      BY <2>3, FieldsAreFields
    <3> DEFINE p == <<f>>
    <3>2. p \in Seq(Field) /\ Len(p) = 1 /\ p[1] = f /\ IsFieldPath(t, p)
      BY <2>3, <3>1, PathOfOne
    <3> HIDE DEF p
    <3>3. NamesOf(p) \in Seq(STRING) /\ Len(NamesOf(p)) = 1 /\ NamesOf(p)[1] = Name[f]
      <4>1. DOMAIN p = 1 .. Len(p)
        BY <3>2
      <4>2. \A j \in 1 .. 1 : j = 1
        OBVIOUS
      <4>3. Name[f] \in STRING
        BY <3>1, WalkAssumption
      <4>4. NamesOf(p) = [j \in 1 .. 1 |-> Name[p[j]]]
        BY <3>2, <4>1 DEF NamesOf
      <4> QED BY <3>2, <4>2, <4>3, <4>4
    <3>4. NamesOf(p) = SubSeq(path, 1, 1)
      BY <2>2, <2>3, <3>3, SeqEqual
    <3>5. Last(p) = f
      BY <3>2 DEF Last
    <3> QED BY <3>2, <3>4, <3>5 DEF NamedBy
  <2>4. ASSUME NEW f, NamedBy(t, path, 1, f) PROVE f \in FieldsOf(t) /\ Name[f] = path[1]
    <3>1. PICK p \in Seq(Field) : IsFieldPath(t, p) /\ Len(p) = 1 /\ NamesOf(p) = SubSeq(path, 1, 1) /\ Last(p) = f
      BY <2>4 DEF NamedBy
    <3>2. p[1] = f /\ p[1] \in FieldsOf(t)
      BY <3>1 DEF Last, IsFieldPath
    <3>3. NamesOf(p)[1] = Name[p[1]]
      BY <3>1 DEF NamesOf
    <3> QED BY <2>2, <3>1, <3>2, <3>3
  <2> QED BY <1>1, <2>1, <2>3, <2>4
<1>4. ASSUME NEW k \in Nat, k \in N PROVE k + 1 \in N
  <2> SUFFICES ASSUME (k + 1) + 1 <= Len(path) PROVE Right(k + 1)
    OBVIOUS
  <2>1. Right(k) /\ k + 1 \in 1 .. Len(path) /\ k + 2 \in 1 .. Len(path) /\ (k + 1) - 1 = k
    BY <1>2, <1>4
  <2> DEFINE name == path[k + 1]
             next == path[k + 2]
             here == SubSeq(path, 1, k + 1)
             there == SubSeq(path, 1, k + 2)
             w0 == w[k]
             w1 == w[k + 1]
  <2>2. w1 = SegmentType(w0, name)
    BY <1>1, <2>1
  <2>3. w0 \in Type \cup {NoType} /\ \A f : f \in ByName(w0, name) <=> NamedBy(t, path, k + 1, f)
    BY <2>1
  <2>4. there = Append(here, next) /\ here \in Seq(STRING) /\ Len(here) = k + 1 /\ next \in STRING
    <3>1. (k + 2) - 1 = k + 1 /\ k + 1 \in 0 .. Len(path)
      BY <1>2, <2>1
    <3> QED BY <2>1, <3>1, BeginningAppend, BeginningIsPath
  <2> HIDE DEF name, next, here, there, w0, w1
  <2>5. /\ w1 \in Type \cup {NoType}
        /\ \A f \in ByName(w0, name) : isSingularMessage(f) => w1 = MessageOf[f]
        /\ w1 # NoType => \E f \in ByName(w0, name) : isSingularMessage(f) /\ w1 = MessageOf[f]
    BY <2>2, <2>3, SegmentIs
  <2>6. ASSUME NEW g, g \in ByName(w1, next) PROVE NamedBy(t, path, k + 2, g)
    <3>1. w1 \in Type /\ g \in FieldsOf(w1) /\ Name[g] = next
      BY <2>5, <2>6 DEF ByName
    <3>2. PICK f \in ByName(w0, name) : isSingularMessage(f) /\ w1 = MessageOf[f]
      BY <1>2, <2>5, <3>1, SchemaAssumption
    <3>3. PICK p \in Seq(Field) : IsFieldPath(t, p) /\ Len(p) = k + 1 /\ NamesOf(p) = here /\ Last(p) = f
      BY <2>3, <3>2 DEF NamedBy, here
    <3>4. g \in Field /\ p # <<>>
      BY <3>1, <3>3, FieldsAreFields, EmptySeq
    <3> DEFINE q == Append(p, g)
    <3>5. q \in Seq(Field) /\ Len(q) = k + 2 /\ Last(q) = g
      <4>1. q \in Seq(Field) /\ Len(q) = Len(p) + 1 /\ Last(q) = g
        BY <3>4, BeforeLast
      <4> QED BY <3>3, <4>1
    <3>6. IsFieldPath(t, q)
      BY <3>1, <3>2, <3>3, <3>4, PathBeforeLast
    <3>7. NamesOf(q) = there
      BY <2>4, <3>1, <3>3, <3>4, NamesBeforeLast
    <3> HIDE DEF q
    <3> QED BY <3>5, <3>6, <3>7 DEF NamedBy, there
  <2>7. ASSUME NEW g, NamedBy(t, path, k + 2, g) PROVE g \in ByName(w1, next)
    <3>1. PICK q \in Seq(Field) : IsFieldPath(t, q) /\ Len(q) = k + 2 /\ NamesOf(q) = there /\ Last(q) = g
      BY <2>7 DEF NamedBy, there
    <3> DEFINE p == SubSeq(q, 1, k + 1)
               f == q[k + 1]
    <3>2. k + 2 \in 1 .. Len(q) /\ k + 1 \in 0 .. Len(q) /\ (k + 2) - 1 = k + 1 /\ k + 1 \in 1 .. k + 1
          /\ k + 1 \in 1 .. Len(q) - 1 /\ (k + 1) + 1 = k + 2
      BY <3>1
    <3>3. SubSeq(q, 1, k + 2) = q
      BY <3>1, SubSeqFull
    <3>4. q = Append(p, q[k + 2])
      BY <3>2, <3>3, BeginningAppend
    <3>5. p \in Seq(Field) /\ Len(p) = k + 1 /\ p[k + 1] = f
      BY <3>2, BeginningIsPath
    <3>6. q[k + 2] = g /\ g \in Field /\ f \in Field
      BY <3>1, <3>2 DEF Last
    <3>7. Last(p) = f /\ p # <<>>
      <4>1. Last(p) = p[Len(p)]
        BY DEF Last
      <4> HIDE DEF p, f
      <4>2. Len(p) = k + 1 /\ Len(p) # 0
        BY <3>5
      <4>3. p # <<>>
        BY <3>5, <4>2, EmptySeq
      <4>4. Last(p) = f
        BY <3>5, <4>1, <4>2
      <4> QED BY <4>3, <4>4
    <3> HIDE DEF p, f
    <3>8. IsFieldPath(t, p) /\ isSingularMessage(f) /\ g \in FieldsOf(MessageOf[f])
      <4>1. q = Append(p, g)
        BY <3>4, <3>6
      <4>2. IsFieldPath(t, Append(p, g))
        BY <3>1, <4>1
      <4>3. IsFieldPath(t, p) /\ isSingularMessage(Last(p)) /\ g \in FieldsOf(MessageOf[Last(p)])
        BY <3>5, <3>6, <3>7, <4>2, PathBeforeLast
      <4> QED BY <3>7, <4>3
    <3>9. NamesOf(q) = Append(NamesOf(p), Name[g]) /\ NamesOf(p) \in Seq(STRING) /\ Len(NamesOf(p)) = k + 1
      BY <3>4, <3>5, <3>6, NamesBeforeLast
    <3>10. NamesOf(p) = here /\ Name[g] = next
      <4>1. Name[g] \in STRING
        BY <3>6, WalkAssumption
      <4>2. Append(NamesOf(p), Name[g]) = Append(here, next)
        BY <2>4, <3>1, <3>9
      <4>3. NamesOf(p) \in Seq(STRING) /\ here \in Seq(STRING) /\ next \in STRING
        BY <2>4, <3>9
      <4> QED BY <4>1, <4>2, <4>3, SameStringsBeforeLast
    <3>11. f \in ByName(w0, name)
      <4>1. NamedBy(t, path, k + 1, f)
        BY <3>5, <3>7, <3>8, <3>10 DEF NamedBy, here
      <4> QED BY <2>3, <4>1
    <3>12. w1 = MessageOf[f] /\ w1 # NoType
      BY <2>5, <3>8, <3>11 DEF isSingularMessage, HoldsMessage
    <3> QED BY <3>8, <3>10, <3>12 DEF ByName
  <2>8. (k + 1) + 1 = k + 2
    OBVIOUS
  <2> QED BY <2>5, <2>6, <2>7, <2>8 DEF w1, next
<1>5. Nat \subseteq N
  <2> HIDE DEF N
  <2> QED BY <1>3, <1>4, SetInduction
<1>6. i - 1 \in Nat /\ (i - 1) + 1 = i /\ i <= Len(path)
  BY <1>2
<1>7. Right(i - 1)
  <2> HIDE DEF Right
  <2> QED BY <1>5, <1>6
<1> QED BY <1>6, <1>7 DEF w

\* A mask path names the kind if a field path it begins with ends in it.
LEMMA NamesKindIs ==
  ASSUME NEW t \in Type, NEW kind, NEW path \in Seq(STRING)
  PROVE  NamesKind(t, kind, path)
         <=> \E p \in Seq(Field) : IsFieldPath(t, p) /\ IsPrefix(NamesOf(p), path) /\ HasKind(Last(p), kind)
<1>1. DOMAIN path = 1 .. Len(path) /\ Len(path) \in Nat
  OBVIOUS
<1>2. NamesKind(t, kind, path) <=> \E i \in 1 .. Len(path) : \E f : NamedBy(t, path, i, f) /\ HasKind(f, kind)
  BY <1>1, FoundBySegments DEF NamesKind
<1>3. ASSUME NEW i \in 1 .. Len(path), NEW f, NamedBy(t, path, i, f), HasKind(f, kind)
      PROVE  \E p \in Seq(Field) : IsFieldPath(t, p) /\ IsPrefix(NamesOf(p), path) /\ HasKind(Last(p), kind)
  <2>1. PICK p \in Seq(Field) : IsFieldPath(t, p) /\ Len(p) = i /\ NamesOf(p) = SubSeq(path, 1, i) /\ Last(p) = f
    BY <1>3 DEF NamedBy
  <2>2. Len(NamesOf(p)) = i /\ NamesOf(p) \in Seq(STRING)
    BY <2>1, WalkAssumption DEF NamesOf
  <2>3. SubSeq(NamesOf(p), 1, i) = NamesOf(p)
    BY <2>2, SubSeqFull
  <2>4. IsPrefix(NamesOf(p), path)
    BY <1>1, <2>1, <2>2, <2>3 DEF IsPrefix
  <2> QED BY <1>3, <2>1, <2>4
<1>4. ASSUME NEW p \in Seq(Field), IsFieldPath(t, p), IsPrefix(NamesOf(p), path), HasKind(Last(p), kind)
      PROVE  \E i \in 1 .. Len(path) : \E f : NamedBy(t, path, i, f) /\ HasKind(f, kind)
  <2>1. Len(p) \in Nat \ {0}
    BY <1>4, EmptySeq DEF IsFieldPath
  <2>2. Len(NamesOf(p)) = Len(p) /\ NamesOf(p) \in Seq(STRING)
    BY WalkAssumption DEF NamesOf
  <2>3. SubSeq(NamesOf(p), 1, Len(p)) = NamesOf(p)
    BY <2>2, SubSeqFull
  <2>4. Len(p) <= Len(path) /\ NamesOf(p) = SubSeq(path, 1, Len(p))
    BY <1>4, <2>2, <2>3 DEF IsPrefix
  <2>5. Len(p) \in 1 .. Len(path)
    BY <1>1, <2>1, <2>4
  <2> QED BY <1>4, <2>4, <2>5 DEF NamedBy
<1> QED BY <1>2, <1>3, <1>4

----------------------------------------------------------------------------
(* ImpliedFieldMask and ClearFieldMask.                                    *)

LEMMA ImpliedPaths ==
  ASSUME NEW t \in Type, NEW m
  PROVE  ToSet(ImpliedFieldMask(t, m))
         = {<<Name[f]>> : f \in {g \in FieldsOf(t) : isWritable(g) /\ Has(m, <<>>, g)}}
<1> DEFINE T == {f \in FieldsOf(t) : isWritable(f) /\ Has(m, <<>>, f)}
           implied == Selected(Fields[t], T)
<1>1. Fields[t] \in Seq(Field)
  BY SchemaAssumption
<1>2. implied \in Seq(Field) /\ ToSet(implied) = ToSet(Fields[t]) \cap T
  BY <1>1, SelectedType, SelectedElements
<1>3. ToSet(implied) = T
  BY <1>2 DEF FieldsOf
<1>4. ImpliedFieldMask(t, m) = [i \in DOMAIN implied |-> <<Name[implied[i]]>>]
  BY DEF ImpliedFieldMask
<1> HIDE DEF implied
<1>5. ToSet(ImpliedFieldMask(t, m)) = {<<Name[implied[i]]>> : i \in DOMAIN implied}
  BY <1>4 DEF ToSet
<1>6. T = {implied[i] : i \in DOMAIN implied}
  BY <1>3 DEF ToSet
<1> HIDE DEF T
<1>7. {<<Name[implied[i]]>> : i \in DOMAIN implied} = {<<Name[f]>> : f \in T}
  BY <1>6
<1> QED BY <1>5, <1>7 DEF T

LEMMA OnlyOne ==
  ASSUME NEW S, NEW x \in S
  PROVE  <<x>> \in Seq(S) /\ Len(<<x>>) = 1
  OBVIOUS

LEMMA ImpliedMaskType ==
  ASSUME NEW t \in Type, NEW m
  PROVE  ImpliedFieldMask(t, m) \in Seq({path \in Seq(STRING) : Len(path) = 1})
<1> DEFINE T == {f \in FieldsOf(t) : isWritable(f) /\ Has(m, <<>>, f)}
           implied == Selected(Fields[t], T)
<1>1. implied \in Seq(Field)
  BY SchemaAssumption, SelectedType
<1>2. ImpliedFieldMask(t, m) = [i \in DOMAIN implied |-> <<Name[implied[i]]>>]
  BY DEF ImpliedFieldMask
<1> HIDE DEF implied
<1>3. \A i \in DOMAIN implied : Name[implied[i]] \in STRING
  BY <1>1, WalkAssumption
<1>4. \A name \in STRING : <<name>> \in Seq(STRING) /\ Len(<<name>>) = 1
  BY OnlyOne
<1>5. \A i \in DOMAIN implied : <<Name[implied[i]]>> \in {path \in Seq(STRING) : Len(path) = 1}
  BY <1>3, <1>4
<1>6. DOMAIN implied = 1 .. Len(implied) /\ Len(implied) \in Nat
  BY <1>1
<1> QED BY <1>2, <1>5, <1>6

\* A path of one name names what the field of that name is annotated with.
LEMMA NamesOneField ==
  ASSUME NEW t \in Type, NEW f \in FieldsOf(t), NEW kind
  PROVE  NamesKind(t, kind, <<Name[f]>>) <=> HasKind(f, kind)
<1> DEFINE path == <<Name[f]>>
<1>0. path \in Seq({Name[f]})
  OBVIOUS
<1>1. DOMAIN path = {1} /\ path[1] = Name[f]
  OBVIOUS
<1>2. Walk(t, path)[1 - 1] = t
  <2>1. Walk(t, path)[0] = t
    BY <1>0, WalkIs
  <2>2. 1 - 1 = 0
    OBVIOUS
  <2> QED BY <2>1, <2>2
<1>3. f \in ByName(t, path[1])
  BY <1>1, SchemaAssumption DEF ByName
<1>4. \A g \in ByName(t, path[1]) : g = f
  BY <1>3, ByNameOnce
<1>5. NamesKind(t, kind, path)
      <=> \E i \in DOMAIN path : \E g \in ByName(Walk(t, path)[i - 1], path[i]) : HasKind(g, kind)
  BY DEF NamesKind
<1> HIDE DEF path
<1>6. NamesKind(t, kind, path) <=> \E g \in ByName(t, path[1]) : HasKind(g, kind)
  BY <1>1, <1>2, <1>5
<1> QED BY <1>3, <1>4, <1>6 DEF path

LEMMA ClearedMaskIs ==
  ASSUME NEW t, NEW kind, NEW S, NEW mask \in Seq(S), mask # NoMask
  PROVE  /\ ClearFieldMask(t, kind, mask) \in Seq(S)
         /\ ToSet(ClearFieldMask(t, kind, mask)) = {path \in ToSet(mask) : ~NamesKind(t, kind, path)}
         /\ \A i, j \in DOMAIN ClearFieldMask(t, kind, mask) : i < j =>
              \E k, l \in DOMAIN mask : /\ k < l
                                       /\ mask[k] = ClearFieldMask(t, kind, mask)[i]
                                       /\ mask[l] = ClearFieldMask(t, kind, mask)[j]
<1> DEFINE T == {path \in ToSet(mask) : ~NamesKind(t, kind, path)}
<1>1. ClearFieldMask(t, kind, mask) = Selected(mask, T)
  BY DEF ClearFieldMask
<1>2. ToSet(Selected(mask, T)) = ToSet(mask) \cap T
  BY SelectedElements
<1>3. ToSet(mask) \cap T = {path \in ToSet(mask) : ~NamesKind(t, kind, path)}
  OBVIOUS
<1> HIDE DEF T
<1>4. Selected(mask, T) \in Seq(S)
  BY SelectedType
<1>5. \A i, j \in DOMAIN Selected(mask, T) : i < j =>
        \E k, l \in DOMAIN mask : k < l /\ mask[k] = Selected(mask, T)[i] /\ mask[l] = Selected(mask, T)[j]
  BY SelectedInOrder
<1>6. ToSet(ClearFieldMask(t, kind, mask)) = {path \in ToSet(mask) : ~NamesKind(t, kind, path)}
  BY <1>1, <1>2, <1>3
<1>7. ClearFieldMask(t, kind, mask) \in Seq(S)
  BY <1>1, <1>4
<1>8. \A i, j \in DOMAIN ClearFieldMask(t, kind, mask) : i < j =>
        \E k, l \in DOMAIN mask : /\ k < l
                                 /\ mask[k] = ClearFieldMask(t, kind, mask)[i]
                                 /\ mask[l] = ClearFieldMask(t, kind, mask)[j]
  BY <1>1, <1>5
<1> QED BY <1>6, <1>7, <1>8

=============================================================================
