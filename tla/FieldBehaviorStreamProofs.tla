---------------------- MODULE FieldBehaviorStreamProofs ----------------------
(***************************************************************************)
(* For any schema, requests and number of streams: what Receive changes of *)
(* a message, that nothing OUTPUT_ONLY is left in it, that the creates of  *)
(* all the streams are identified, each by an id of its own, that an       *)
(* update writes what its client asked for and nothing of the server's,    *)
(* and that a message is refused for exactly what it lacks.                *)
(***************************************************************************)
EXTENDS FieldBehaviorStream, FieldBehaviorProofs, FiniteSetTheorems

----------------------------------------------------------------------------
(* The schema.                                                             *)

LEMMA OneResource ==
  ASSUME NEW t \in Type, NEW f \in resourceField(t), NEW g \in resourceField(t)
  PROVE  f = g /\ f \in Field /\ IsResource(f)
<1>1. PICK i \in DOMAIN Fields[t] :
        f = Fields[t][i] /\ IsResource(Fields[t][i]) /\ \A k \in 1 .. i - 1 : ~IsResource(Fields[t][k])
  BY DEF resourceField
<1>2. PICK j \in DOMAIN Fields[t] :
        g = Fields[t][j] /\ IsResource(Fields[t][j]) /\ \A k \in 1 .. j - 1 : ~IsResource(Fields[t][k])
  BY DEF resourceField
<1>3. Fields[t] \in Seq(Field)
  BY SchemaAssumption
<1>4. i \in 1 .. Len(Fields[t]) /\ j \in 1 .. Len(Fields[t]) /\ Len(Fields[t]) \in Nat
  BY <1>1, <1>2, <1>3
<1>5. ~(i < j) /\ ~(j < i)
  BY <1>1, <1>2, <1>4
<1>6. i = j
  BY <1>4, <1>5
<1>7. Fields[t][i] \in Field
  BY <1>3, <1>4
<1> QED BY <1>1, <1>2, <1>6, <1>7

----------------------------------------------------------------------------
(* Locations and writes.                                                   *)

LEMMA StepFacts ==
  ASSUME NEW f \in Field, NEW at \in Location
  PROVE  /\ Step(f, 0) \in StepSet /\ Step(f, 0).field = f
         /\ Append(at, Step(f, 0)) \in Location
         /\ Len(Append(at, Step(f, 0))) = Len(at) + 1
         /\ Append(at, Step(f, 0))[Len(at) + 1] = Step(f, 0)
         /\ \A i \in 1 .. Len(at) : Append(at, Step(f, 0))[i] = at[i]
         /\ Append(at, Step(f, 0)) # <<>>
<1>1. Step(f, 0) \in StepSet /\ Step(f, 0).field = f
  BY SchemaAssumption DEF Step, StepSet
<1>2. ASSUME NEW st \in StepSet
      PROVE  /\ Append(at, st) \in Seq(StepSet)
             /\ Len(Append(at, st)) = Len(at) + 1
             /\ Append(at, st)[Len(at) + 1] = st
             /\ \A i \in 1 .. Len(at) : Append(at, st)[i] = at[i]
  <2>1. at \in Seq(StepSet)
    BY DEF Location
  <2>2. Append(at, st) \in Seq(StepSet) /\ Len(Append(at, st)) = Len(at) + 1
    BY <2>1
  <2>3. Append(at, st)[Len(at) + 1] = st
    BY <2>1
  <2>4. \A i \in 1 .. Len(at) : Append(at, st)[i] = at[i]
    BY <2>1
  <2> QED BY <2>2, <2>3, <2>4
<1> DEFINE l == Append(at, Step(f, 0))
<1> HIDE DEF l
<1>3. /\ l \in Seq(StepSet) /\ Len(l) = Len(at) + 1 /\ l[Len(at) + 1] = Step(f, 0)
      /\ \A i \in 1 .. Len(at) : l[i] = at[i]
  BY <1>1, <1>2 DEF l
<1>4. l # <<>>
  <2>1. Len(at) \in Nat
    BY DEF Location
  <2> QED BY <1>3, <2>1
<1> QED BY <1>1, <1>3, <1>4 DEF l, Location

LEMMA OneStepOn ==
  ASSUME NEW f \in Field, NEW at \in Location, NEW g \in Field, NEW other \in Location
  PROVE  Append(at, Step(f, 0)) = Append(other, Step(g, 0)) => f = g /\ at = other
<1>1. at \in Seq(StepSet) /\ other \in Seq(StepSet)
  BY DEF Location
<1>2. Step(f, 0) \in StepSet /\ Step(g, 0) \in StepSet /\ Step(f, 0).field = f /\ Step(g, 0).field = g
  BY StepFacts
<1> QED BY <1>1, <1>2, AppendInjective

LEMMA PassesAppend ==
  ASSUME NEW f \in Field, NEW at \in Location, NEW kind
  PROVE  PassesThrough(kind, Append(at, Step(f, 0))) <=> PassesThrough(kind, at) \/ HasKind(f, kind)
<1> DEFINE l == Append(at, Step(f, 0))
<1>1. /\ Len(l) = Len(at) + 1 /\ Len(at) \in Nat
      /\ DOMAIN l = 1 .. Len(l) /\ DOMAIN at = 1 .. Len(at)
      /\ l[Len(at) + 1].field = f
      /\ \A i \in 1 .. Len(at) : l[i] = at[i]
  BY StepFacts DEF Location
<1> HIDE DEF l
<1>2. PassesThrough(kind, l) <=> PassesThrough(kind, at) \/ HasKind(f, kind)
  <2>1. PassesThrough(kind, l) <=> \E i \in 1 .. Len(at) + 1 : HasKind(l[i].field, kind)
    BY <1>1 DEF PassesThrough
  <2>2. PassesThrough(kind, at) <=> \E i \in 1 .. Len(at) : HasKind(at[i].field, kind)
    BY <1>1 DEF PassesThrough
  <2>3. \A i \in 1 .. Len(at) + 1 : i \in 1 .. Len(at) \/ i = Len(at) + 1
    BY <1>1
  <2>4. 1 .. Len(at) \subseteq 1 .. Len(at) + 1 /\ Len(at) + 1 \in 1 .. Len(at) + 1
    BY <1>1
  <2> QED BY <1>1, <2>1, <2>2, <2>3, <2>4
<1> QED BY <1>2 DEF l

\* What it is for a resource to be written.
LEMMA InWrites ==
  ASSUME NEW t, NEW request, NEW write
  PROVE  write \in ResourceWrites(t, request)
         <=> \E at \in DOMAIN request \cup {<<>>} : \E f \in resourceField(TypeAt(t, at)) :
               IsEntry(t, at) /\ write = Write(at, f) /\ ResourceAt(write) \in DOMAIN request
  BY DEF ResourceWrites

LEMMA EntryType ==
  ASSUME NEW t \in Type, NEW at \in Location, IsEntry(t, at)
  PROVE  TypeAt(t, at) \in Type
<1>1. CASE at = <<>>
  BY <1>1 DEF TypeAt
<1>2. CASE at # <<>>
  <2>1. Len(at) \in 1 .. Len(at) /\ DOMAIN at = 1 .. Len(at) /\ at[Len(at)] \in StepSet
    BY <1>2 DEF Location
  <2>2. HoldsMessage(at[Len(at)].field)
    BY <2>1 DEF IsEntry, batchField
  <2>3. at[Len(at)].field \in Field
    BY <2>1 DEF StepSet
  <2> QED BY <1>2, <2>2, <2>3, SchemaAssumption DEF TypeAt, Last, HoldsMessage
<1> QED BY <1>1, <1>2

\* All there is to know of a write.
LEMMA WriteFacts ==
  ASSUME NEW t \in Type, NEW request, DOMAIN request \subseteq Location,
         NEW write \in ResourceWrites(t, request)
  PROVE  /\ write.at \in DOMAIN request \cup {<<>>} /\ write.at \in Location
         /\ IsEntry(t, write.at) /\ TypeAt(t, write.at) \in Type
         /\ write.field \in resourceField(TypeAt(t, write.at))
         /\ write.field \in Field /\ IsResource(write.field)
         /\ write = Write(write.at, write.field)
         /\ ResourceAt(write) = Append(write.at, Step(write.field, 0))
         /\ ResourceAt(write) \in DOMAIN request
<1>0. PICK at \in DOMAIN request \cup {<<>>} : \E f \in resourceField(TypeAt(t, at)) :
        IsEntry(t, at) /\ write = Write(at, f) /\ ResourceAt(write) \in DOMAIN request
  BY InWrites
<1>1. PICK f \in resourceField(TypeAt(t, at)) :
        IsEntry(t, at) /\ write = Write(at, f) /\ ResourceAt(write) \in DOMAIN request
  BY <1>0
<1>2. write.at = at /\ write.field = f /\ write = Write(write.at, write.field)
  BY <1>1 DEF Write
<1>3. at \in Location
  <2>1. <<>> \in Seq(StepSet)
    BY EmptySeq
  <2> QED BY <2>1 DEF Location
<1>4. TypeAt(t, at) \in Type
  BY <1>1, <1>3, EntryType
<1>5. f \in Field /\ IsResource(f)
  BY <1>4, OneResource
<1> QED BY <1>1, <1>2, <1>3, <1>4, <1>5 DEF ResourceAt

\* A request writes one resource at a place.
LEMMA OneWriteAt ==
  ASSUME NEW t \in Type, NEW request, DOMAIN request \subseteq Location,
         NEW write \in ResourceWrites(t, request), NEW other \in ResourceWrites(t, request),
         write.at = other.at
  PROVE  write = other
<1>1. write.field = other.field
  BY WriteFacts, OneResource
<1> QED BY <1>1, WriteFacts

----------------------------------------------------------------------------
(* What is filled in.                                                      *)

Filling(t, write) == IdAt(t, write) \cup MaskAt(t, write)

\* It is no entry, no resource and not OUTPUT_ONLY itself.
LEMMA FillingFacts ==
  ASSUME NEW t \in Type, NEW request, DOMAIN request \subseteq Location,
         NEW write \in ResourceWrites(t, request), NEW l \in Filling(t, write)
  PROVE  \E f \in Field : /\ l = Append(write.at, Step(f, 0)) /\ l \in Location
                          /\ Shape[f] = "singular" /\ ~IsResource(f) /\ ~HasKind(f, OutputOnly)
<1>1. write.at \in Location /\ TypeAt(t, write.at) \in Type /\ TypeAt(t, write.at) # NoType
  BY WriteFacts, SchemaAssumption
<1>2. CASE l \in IdAt(t, write)
  <2>1. PICK f \in stringField(TypeAt(t, write.at), IdName[write.field]) : l = Append(write.at, Step(f, 0))
    BY <1>2 DEF IdAt
  <2>2. f \in Strings /\ f \in ByName(TypeAt(t, write.at), IdName[write.field])
    BY <2>1 DEF stringField
  <2>3. f \in Field /\ Shape[f] = "singular" /\ ~HoldsMessage(f)
    BY <2>2, RequestAssumption
  <2>4. ~IsResource(f)
    BY <2>3 DEF IsResource, isSingularMessage
  <2>5. ~HasKind(f, OutputOnly)
    <3>1. write.field \in resourceField(TypeAt(t, write.at))
      BY WriteFacts
    <3> QED BY <1>1, <2>1, <3>1, FilledAssumption
  <2> QED BY <1>1, <2>1, <2>3, <2>4, <2>5, StepFacts
<1>3. CASE l \in MaskAt(t, write)
  <2>1. PICK f \in updateMaskField(TypeAt(t, write.at)) : l = Append(write.at, Step(f, 0))
    BY <1>3 DEF MaskAt
  <2>2. f \in ByName(TypeAt(t, write.at), "update_mask") /\ isSingularMessage(f) /\ MessageOf[f] = FieldMask
    BY <2>1 DEF updateMaskField
  <2>3. f \in Field
    BY <1>1, <2>2, ByNameOnce
  <2>4. Shape[f] = "singular" /\ ~IsResource(f)
    BY <2>2, RequestAssumption DEF IsResource, isSingularMessage
  <2>5. ~HasKind(f, OutputOnly)
    BY <1>1, <2>1, FilledAssumption
  <2> QED BY <1>1, <2>1, <2>3, <2>4, <2>5, StepFacts
<1> QED BY <1>2, <1>3 DEF Filling

\* What is filled in for two resources is at different places.
LEMMA FillingApart ==
  ASSUME NEW t \in Type, NEW request, DOMAIN request \subseteq Location,
         NEW write \in ResourceWrites(t, request), NEW other \in ResourceWrites(t, request),
         NEW l \in Filling(t, write), l \in Filling(t, other)
  PROVE  write = other
<1>1. PICK f \in Field : l = Append(write.at, Step(f, 0))
  BY FillingFacts
<1>2. PICK g \in Field : l = Append(other.at, Step(g, 0))
  BY FillingFacts
<1>3. write.at \in Location /\ other.at \in Location
  BY WriteFacts
<1>4. write.at = other.at
  BY <1>1, <1>2, <1>3, OneStepOn
<1> QED BY <1>4, OneWriteAt

\* A resource has one id.
LEMMA OneId ==
  ASSUME NEW t \in Type, NEW request, DOMAIN request \subseteq Location,
         NEW write \in ResourceWrites(t, request), NEW l \in IdAt(t, write), NEW k \in IdAt(t, write)
  PROVE  l = k
<1>1. PICK f \in stringField(TypeAt(t, write.at), IdName[write.field]) : l = Append(write.at, Step(f, 0))
  BY DEF IdAt
<1>2. PICK g \in stringField(TypeAt(t, write.at), IdName[write.field]) : k = Append(write.at, Step(g, 0))
  BY DEF IdAt
<1>3. f = g
  BY <1>1, <1>2, WriteFacts, ByNameOnce DEF stringField
<1> QED BY <1>1, <1>2, <1>3

LEMMA IDIs ==
  ASSUME NEW t \in Type, NEW request, DOMAIN request \subseteq Location,
         NEW write \in ResourceWrites(t, request), NEW m
  PROVE  /\ \A l \in IdAt(t, write) : ID(t, m, write) = IF l \in DOMAIN m THEN m[l] ELSE EmptyId
         /\ IdAt(t, write) = {} => ID(t, m, write) = EmptyId
<1>1. ASSUME NEW l \in IdAt(t, write)
      PROVE  ID(t, m, write) = IF l \in DOMAIN m THEN m[l] ELSE EmptyId
  <2>1. \A k \in IdAt(t, write) : k = l
    BY OneId
  <2>2. (CHOOSE at \in IdAt(t, write) : TRUE) = l
    BY <2>1
  <2>3. (\E at \in IdAt(t, write) : at \in DOMAIN m) <=> l \in DOMAIN m
    BY <2>1
  <2> QED BY <2>2, <2>3 DEF ID
<1>2. IdAt(t, write) = {} => ID(t, m, write) = EmptyId
  BY DEF ID
<1> QED BY <1>1, <1>2

----------------------------------------------------------------------------
(* What each step of Receive does to one message.                          *)

WithoutServers(m) == \A at \in DOMAIN m : ~PassesThrough(OutputOnly, at)

\* ChangesNothingElse, of message m that the client sent as c.
Kept(t, c, m) ==
  LET filled == UNION {Filling(t, write) : write \in ResourceWrites(t, m)}
  IN /\ \A at \in DOMAIN c : ~PassesThrough(OutputOnly, at) => at \in DOMAIN m
     /\ \A at \in DOMAIN m \ filled : at \in DOMAIN c /\ m[at] = c[at]

\* EveryCreateIsIdentified, of one create: by the client, or by a minted id.
IsIdentified(t, c, m, write) ==
  ~IsUpdate(t, write) /\ IdAt(t, write) # {} =>
    IF ID(t, c, write) = EmptyId THEN ID(t, m, write) \in Nat \ {0}
                                 ELSE ID(t, m, write) = ID(t, c, write)

\* The creates the loop has still to visit are as the client sent them.
Identified(t, c, m, ws) ==
  \A write \in ResourceWrites(t, m) :
    IF write \in ws THEN ~IsUpdate(t, write) => ID(t, m, write) = ID(t, c, write)
                    ELSE IsIdentified(t, c, m, write)

\* Filling in something for a resource leaves the resources the same, and the
\* ids of the others.
LEMMA PutWrites ==
  ASSUME NEW t \in Type, NEW m, DOMAIN m \subseteq Location,
         NEW write \in ResourceWrites(t, m), NEW where \in SUBSET Filling(t, write), NEW value
  PROVE  /\ DOMAIN Put(m, where, value) = DOMAIN m \cup where
         /\ DOMAIN Put(m, where, value) \subseteq Location
         /\ ResourceWrites(t, Put(m, where, value)) = ResourceWrites(t, m)
<1> DEFINE put == Put(m, where, value)
<1>1. DOMAIN put = DOMAIN m \cup where
  BY DEF Put
<1> HIDE DEF put
<1>2. \A l \in where : \E f \in Field : /\ l = Append(write.at, Step(f, 0)) /\ l \in Location
                                        /\ Shape[f] = "singular" /\ ~IsResource(f)
  BY FillingFacts
<1>3. DOMAIN put \subseteq Location
  BY <1>1, <1>2
<1>4. ASSUME NEW other \in ResourceWrites(t, m)
      PROVE  other \in ResourceWrites(t, put)
  <2>1. PICK at \in DOMAIN m \cup {<<>>} : \E f \in resourceField(TypeAt(t, at)) :
          IsEntry(t, at) /\ other = Write(at, f) /\ ResourceAt(other) \in DOMAIN m
    BY <1>4, InWrites
  <2> QED BY <1>1, <2>1, InWrites
<1>5. ASSUME NEW other \in ResourceWrites(t, put)
      PROVE  other \in ResourceWrites(t, m)
  <2>1. /\ other.at \in DOMAIN put \cup {<<>>} /\ other.at \in Location
        /\ IsEntry(t, other.at) /\ TypeAt(t, other.at) \in Type
        /\ other.field \in resourceField(TypeAt(t, other.at))
        /\ other.field \in Field /\ IsResource(other.field)
        /\ other = Write(other.at, other.field)
        /\ ResourceAt(other) = Append(other.at, Step(other.field, 0))
        /\ ResourceAt(other) \in DOMAIN put
    BY <1>3, WriteFacts
  <2>2. ResourceAt(other) \notin where
    <3>1. SUFFICES ASSUME ResourceAt(other) \in where
                   PROVE  FALSE
      OBVIOUS
    <3>2. PICK f \in Field : ResourceAt(other) = Append(write.at, Step(f, 0)) /\ ~IsResource(f)
      BY <1>2, <3>1
    <3>3. write.at \in Location
      BY WriteFacts
    <3>4. f = other.field
      BY <2>1, <3>2, <3>3, OneStepOn
    <3> QED BY <2>1, <3>2, <3>4
  <2>3. other.at \notin where
    <3>1. SUFFICES ASSUME other.at \in where
                   PROVE  FALSE
      OBVIOUS
    <3>2. PICK f \in Field : other.at = Append(write.at, Step(f, 0)) /\ Shape[f] = "singular"
      BY <1>2, <3>1
    <3>3. write.at \in Location
      BY WriteFacts
    <3>4. Len(other.at) = Len(write.at) + 1 /\ other.at[Len(write.at) + 1].field = f
      BY <3>2, <3>3, StepFacts
    <3>5. DOMAIN other.at = 1 .. Len(other.at) /\ Len(write.at) \in Nat
      BY <2>1, <3>3 DEF Location
    <3>6. Len(write.at) + 1 \in DOMAIN other.at
      BY <3>4, <3>5
    <3>7. Shape[other.at[Len(write.at) + 1].field] = "list"
      BY <2>1, <3>6 DEF IsEntry, batchField
    <3> QED BY <3>2, <3>4, <3>7
  <2> QED BY <1>1, <2>1, <2>2, <2>3, InWrites
<1> QED BY <1>1, <1>3, <1>4, <1>5 DEF put

LEMMA PutKeeps ==
  ASSUME NEW t \in Type, NEW c, NEW m, DOMAIN m \subseteq Location, WithoutServers(m), Kept(t, c, m),
         NEW write \in ResourceWrites(t, m), NEW where \in SUBSET Filling(t, write), NEW value
  PROVE  /\ DOMAIN Put(m, where, value) \subseteq Location
         /\ ResourceWrites(t, Put(m, where, value)) = ResourceWrites(t, m)
         /\ WithoutServers(Put(m, where, value))
         /\ Kept(t, c, Put(m, where, value))
         /\ \A other \in ResourceWrites(t, m) :
              other # write => ID(t, Put(m, where, value), other) = ID(t, m, other)
<1> DEFINE put == Put(m, where, value)
<1>1. /\ DOMAIN put = DOMAIN m \cup where
      /\ DOMAIN put \subseteq Location
      /\ ResourceWrites(t, put) = ResourceWrites(t, m)
  BY PutWrites
<1>2. \A at \in DOMAIN m \ where : put[at] = m[at]
  BY DEF Put
<1> HIDE DEF put
<1>3. ~PassesThrough(OutputOnly, write.at)
  <2>1. write.at \in Location /\ write.field \in Field
    BY WriteFacts
  <2>2. ~PassesThrough(OutputOnly, Append(write.at, Step(write.field, 0)))
    BY WriteFacts DEF WithoutServers
  <2> QED BY <2>1, <2>2, PassesAppend
<1>4. \A l \in where : ~PassesThrough(OutputOnly, l)
  <2>1. TAKE l \in where
  <2>2. PICK f \in Field : l = Append(write.at, Step(f, 0)) /\ ~HasKind(f, OutputOnly)
    BY FillingFacts
  <2>3. write.at \in Location
    BY WriteFacts
  <2> QED BY <1>3, <2>2, <2>3, PassesAppend
<1>5. WithoutServers(put)
  BY <1>1, <1>4 DEF WithoutServers
<1>6. Kept(t, c, put)
  <2> DEFINE filled == UNION {Filling(t, w) : w \in ResourceWrites(t, m)}
  <2>1. /\ \A at \in DOMAIN c : ~PassesThrough(OutputOnly, at) => at \in DOMAIN m
        /\ \A at \in DOMAIN m \ filled : at \in DOMAIN c /\ m[at] = c[at]
    BY DEF Kept
  <2>2. where \subseteq filled
    OBVIOUS
  <2> HIDE DEF filled
  <2>3. /\ \A at \in DOMAIN c : ~PassesThrough(OutputOnly, at) => at \in DOMAIN put
        /\ \A at \in DOMAIN put \ filled : at \in DOMAIN c /\ put[at] = c[at]
    BY <1>1, <1>2, <2>1, <2>2
  <2> QED BY <1>1, <2>3 DEF Kept, filled
<1>7. ASSUME NEW other \in ResourceWrites(t, m), other # write
      PROVE  ID(t, put, other) = ID(t, m, other)
  <2>1. CASE IdAt(t, other) = {}
    BY <2>1, IDIs
  <2>2. CASE IdAt(t, other) # {}
    <3>1. PICK l \in IdAt(t, other) : TRUE
      BY <2>2
    <3>2. l \notin Filling(t, write)
      BY <1>7, <3>1, FillingApart DEF Filling
    <3>3. l \notin where
      BY <3>2
    <3>4. ID(t, put, other) = IF l \in DOMAIN put THEN put[l] ELSE EmptyId
      BY <3>1, IDIs
    <3>5. ID(t, m, other) = IF l \in DOMAIN m THEN m[l] ELSE EmptyId
      BY <3>1, IDIs
    <3> QED BY <1>1, <1>2, <3>3, <3>4, <3>5
  <2> QED BY <2>1, <2>2
<1> QED BY <1>1, <1>5, <1>6, <1>7 DEF put

\* What the client sent, cleared: the ids it chose are still there.
LEMMA ClearedFacts ==
  ASSUME NEW t \in Type, NEW c, DOMAIN c \subseteq Location
  PROVE  LET m == Cleared(c, OutputOnly)
         IN /\ DOMAIN m \subseteq Location
            /\ ResourceWrites(t, m) \subseteq ResourceWrites(t, c)
            /\ WithoutServers(m)
            /\ Kept(t, c, m)
            /\ \A write \in ResourceWrites(t, m) : ID(t, m, write) = ID(t, c, write)
<1> DEFINE m == Cleared(c, OutputOnly)
<1>1. /\ DOMAIN m = {at \in DOMAIN c : ~PassesThrough(OutputOnly, at)}
      /\ \A at \in DOMAIN m : m[at] = c[at]
  BY DEF Cleared, ClearFields
<1> HIDE DEF m
<1>2. DOMAIN m \subseteq Location
  BY <1>1
<1>3. ASSUME NEW write \in ResourceWrites(t, m)
      PROVE  write \in ResourceWrites(t, c)
  <2>1. PICK at \in DOMAIN m \cup {<<>>} : \E f \in resourceField(TypeAt(t, at)) :
          IsEntry(t, at) /\ write = Write(at, f) /\ ResourceAt(write) \in DOMAIN m
    BY <1>3, InWrites
  <2>2. at \in DOMAIN c \cup {<<>>} /\ (ResourceAt(write) \in DOMAIN m => ResourceAt(write) \in DOMAIN c)
    BY <1>1, <2>1
  <2> QED BY <2>1, <2>2, InWrites
<1>4. WithoutServers(m)
  BY <1>1 DEF WithoutServers
<1>5. Kept(t, c, m)
  BY <1>1 DEF Kept
<1>6. ASSUME NEW write \in ResourceWrites(t, m)
      PROVE  ID(t, m, write) = ID(t, c, write)
  <2>1. CASE IdAt(t, write) = {}
    BY <1>2, <2>1, IDIs
  <2>2. CASE IdAt(t, write) # {}
    <3>1. PICK l \in IdAt(t, write) : TRUE
      BY <2>2
    <3>2. PICK f \in Field : l = Append(write.at, Step(f, 0)) /\ ~HasKind(f, OutputOnly)
      BY <1>2, <3>1, FillingFacts DEF Filling
    <3>3. write.at \in Location /\ write.field \in Field
      BY <1>2, WriteFacts
    <3>4. ~PassesThrough(OutputOnly, Append(write.at, Step(write.field, 0)))
      BY <1>2, <1>4, WriteFacts DEF WithoutServers
    <3>5. ~PassesThrough(OutputOnly, l)
      BY <3>2, <3>3, <3>4, PassesAppend
    <3>6. l \in DOMAIN m <=> l \in DOMAIN c
      BY <1>1, <3>5
    <3>7. ID(t, m, write) = IF l \in DOMAIN m THEN m[l] ELSE EmptyId
      BY <1>2, <3>1, IDIs
    <3>8. ID(t, c, write) = IF l \in DOMAIN c THEN c[l] ELSE EmptyId
      BY <1>2, <3>1, IDIs
    <3> QED BY <1>1, <3>6, <3>7, <3>8
  <2> QED BY <2>1, <2>2
<1> QED BY <1>2, <1>3, <1>4, <1>5, <1>6 DEF m

----------------------------------------------------------------------------
(* The inductive invariant.  A loop over the resources visits them one by  *)
(* one, and the message is in between what the client sent and what the    *)
(* handler gets: the invariant says how far it is, at each step Receive    *)
(* can be at.  The ids of all streams come from one source, so it relates  *)
(* the streams, too.                                                       *)

\* A Receive at step p, of message m that the client sent as c.
GoodMessage(p, t, c, m, ws) ==
  /\ t \in DOMAIN Requests /\ c \in Requests[t]
  /\ DOMAIN m \subseteq Location
  /\ p = "clear" => m = c
  /\ p = "fill" => ws \subseteq ResourceWrites(t, m)
  /\ p # "clear" => /\ WithoutServers(m)
                    /\ Kept(t, c, m)
                    /\ Identified(t, c, m, IF p = "fill" THEN ws ELSE {})

Good(s) ==
  IF type[s] = NoType THEN pc[s] = "idle"
  ELSE GoodMessage(pc[s], type[s], sent[s], message[s], writes[s])

Owner(p, t, m, write, id) ==
  /\ t # NoType /\ p # "clear"
  /\ write \in ResourceWrites(t, m) /\ ~IsUpdate(t, write)
  /\ ID(t, m, write) = id

Owns(s, write, id) == Owner(pc[s], type[s], message[s], write, id)

OneOwner ==
  \A id \in Nat \ {0} : \A s, r \in Stream : \A write, other :
    Owns(s, write, id) /\ Owns(r, other, id) => s = r /\ write = other

OwnedIsMinted ==
  \A id \in Nat \ {0} : \A s \in Stream : \A write : Owns(s, write, id) => id <= minted

Typed ==
  /\ pc \in [Stream -> {"idle", "clear", "fill", "rules", "required"}]
  /\ DOMAIN type = Stream /\ DOMAIN sent = Stream /\ DOMAIN message = Stream /\ DOMAIN writes = Stream
  /\ DOMAIN error = Stream
  /\ minted \in Nat

IInv == Typed /\ (\A s \in Stream : Good(s)) /\ OneOwner /\ OwnedIsMinted

\* What the other streams see of a step of s.
Frame(s) ==
  \A r \in Stream \ {s} : /\ pc'[r] = pc[r] /\ type'[r] = type[r] /\ sent'[r] = sent[r]
                          /\ message'[r] = message[r] /\ writes'[r] = writes[r]

----------------------------------------------------------------------------
(* One message.                                                            *)

LEMMA Known ==
  ASSUME NEW t \in DOMAIN Requests
  PROVE  t \in Type /\ t # NoType /\ \A c \in Requests[t] : IsRequest(t, c) /\ DOMAIN c \subseteq Location
<1>1. t \in Type /\ \A c \in Requests[t] : IsRequest(t, c)
  BY StreamAssumption
<1>2. \A c \in Requests[t] : DOMAIN c \subseteq Location
  BY <1>1 DEF IsRequest
<1> QED BY <1>1, <1>2, SchemaAssumption

LEMMA ReadGood ==
  ASSUME NEW t \in DOMAIN Requests, NEW c \in Requests[t], NEW ws
  PROVE  GoodMessage("clear", t, c, c, ws)
  BY Known DEF GoodMessage

LEMMA ClearGood ==
  ASSUME NEW t, NEW c, NEW m, NEW old, GoodMessage("clear", t, c, m, old)
  PROVE  /\ GoodMessage("fill", t, c, Cleared(m, OutputOnly), ResourceWrites(t, Cleared(m, OutputOnly)))
         /\ \A write, id : Owner("fill", t, Cleared(m, OutputOnly), write, id) => id \notin Nat \ {0}
<1>1. t \in DOMAIN Requests /\ c \in Requests[t] /\ m = c
  BY DEF GoodMessage
<1>2. t \in Type /\ DOMAIN c \subseteq Location
  BY <1>1, Known
<1> DEFINE clear == Cleared(m, OutputOnly)
<1>3. /\ DOMAIN clear \subseteq Location
      /\ ResourceWrites(t, clear) \subseteq ResourceWrites(t, c)
      /\ WithoutServers(clear)
      /\ Kept(t, c, clear)
      /\ \A write \in ResourceWrites(t, clear) : ID(t, clear, write) = ID(t, c, write)
  BY <1>1, <1>2, ClearedFacts
<1> HIDE DEF clear
<1>4. Identified(t, c, clear, ResourceWrites(t, clear))
  BY <1>3 DEF Identified
<1>5. GoodMessage("fill", t, c, clear, ResourceWrites(t, clear))
  BY <1>1, <1>3, <1>4 DEF GoodMessage
<1>6. ASSUME NEW write, NEW id, Owner("fill", t, clear, write, id)
      PROVE  id \notin Nat \ {0}
  <2>1. write \in ResourceWrites(t, c) /\ ID(t, c, write) = id
    BY <1>3, <1>6 DEF Owner
  <2> QED BY <1>1, <2>1, Known DEF IsRequest
<1> QED BY <1>5, <1>6 DEF clear

\* The loop visits a resource, and fills it in or leaves it as it is.
FilledIn(t, m, write, new) ==
  new = m \/ \E where \in SUBSET Filling(t, write) : \E value : new = Put(m, where, value)

LEMMA VisitGood ==
  ASSUME NEW t, NEW c, NEW m, NEW ws, GoodMessage("fill", t, c, m, ws),
         NEW write \in ws, NEW new, FilledIn(t, m, write, new), IsIdentified(t, c, new, write)
  PROVE  /\ GoodMessage("fill", t, c, new, ws \ {write})
         /\ \A other, id : Owner("fill", t, new, other, id)
                           => Owner("fill", t, m, other, id) \/ other = write
<1>1. /\ t \in DOMAIN Requests /\ c \in Requests[t] /\ DOMAIN m \subseteq Location
      /\ ws \subseteq ResourceWrites(t, m) /\ WithoutServers(m) /\ Kept(t, c, m)
      /\ Identified(t, c, m, ws)
  BY DEF GoodMessage
<1>2. t \in Type /\ t # NoType
  BY <1>1, Known
<1>3. write \in ResourceWrites(t, m)
  BY <1>1
<1>4. /\ DOMAIN new \subseteq Location /\ ResourceWrites(t, new) = ResourceWrites(t, m)
      /\ WithoutServers(new) /\ Kept(t, c, new)
      /\ \A other \in ResourceWrites(t, m) : other # write => ID(t, new, other) = ID(t, m, other)
  <2>1. CASE new = m
    BY <1>1, <2>1
  <2>2. CASE new # m
    <3>1. PICK where \in SUBSET Filling(t, write) : \E value : new = Put(m, where, value)
      BY <2>2 DEF FilledIn
    <3>2. PICK value : new = Put(m, where, value)
      BY <3>1
    <3> DEFINE put == Put(m, where, value)
    <3>3. /\ DOMAIN put \subseteq Location /\ ResourceWrites(t, put) = ResourceWrites(t, m)
          /\ WithoutServers(put) /\ Kept(t, c, put)
          /\ \A other \in ResourceWrites(t, m) : other # write => ID(t, put, other) = ID(t, m, other)
      BY <1>1, <1>2, <1>3, PutKeeps
    <3>4. new = put
      BY <3>2
    <3> HIDE DEF put
    <3> QED BY <3>3, <3>4
  <2> QED BY <2>1, <2>2
<1>5. Identified(t, c, new, ws \ {write})
  <2>1. ASSUME NEW other \in ResourceWrites(t, m), other # write
        PROVE  IF other \in ws \ {write} THEN ~IsUpdate(t, other) => ID(t, new, other) = ID(t, c, other)
                                          ELSE IsIdentified(t, c, new, other)
    <3>1. ID(t, new, other) = ID(t, m, other)
      BY <1>4, <2>1
    <3>2. other \in ws \ {write} <=> other \in ws
      BY <2>1
    <3> QED BY <1>1, <3>1, <3>2 DEF Identified, IsIdentified
  <2> QED BY <1>4, <2>1 DEF Identified
<1>6. GoodMessage("fill", t, c, new, ws \ {write})
  BY <1>1, <1>4, <1>5 DEF GoodMessage
<1>7. ASSUME NEW other, NEW id, Owner("fill", t, new, other, id), other # write
      PROVE  Owner("fill", t, m, other, id)
  BY <1>4, <1>7 DEF Owner
<1> QED BY <1>6, <1>7

\* Once all are visited, Receive changes the message no more.
LEMMA RestGood ==
  ASSUME NEW p, NEW t, NEW c, NEW m, NEW ws, GoodMessage(p, t, c, m, ws),
         p # "clear", p = "fill" => ws = {},
         NEW q \in {"idle", "rules", "required"}, NEW new
  PROVE  GoodMessage(q, t, c, m, new)
<1>1. Identified(t, c, m, {})
  BY DEF GoodMessage
<1> QED BY <1>1 DEF GoodMessage

----------------------------------------------------------------------------
(* The streams together.                                                   *)

\* A step of s is one of the whole system's: what it owes is that its message is
\* good, and that whatever id it gives is a new one, and to one resource.
LEMMA StepOf ==
  ASSUME IInv, NEW s \in Stream, NEW write, Frame(s), Typed', Good(s)', minted <= minted',
         \A w : \A id \in Nat \ {0} :
           Owns(s, w, id)' => Owns(s, w, id) \/ (w = write /\ minted < id /\ id <= minted')
  PROVE  IInv'
<1>1. minted \in Nat /\ minted' \in Nat
  BY DEF IInv, Typed
<1>2. ASSUME NEW r \in Stream, r # s
      PROVE  /\ Good(r)'
             /\ \A w : \A id \in Nat \ {0} : Owns(r, w, id)' => Owns(r, w, id)
  <2>1. /\ pc'[r] = pc[r] /\ type'[r] = type[r] /\ sent'[r] = sent[r]
        /\ message'[r] = message[r] /\ writes'[r] = writes[r]
    BY <1>2 DEF Frame
  <2>2. Good(r)
    BY DEF IInv
  <2>3. Good(r)'
    BY <2>1, <2>2 DEF Good
  <2> QED BY <2>1, <2>3 DEF Owns
<1>3. \A r \in Stream : Good(r)'
  BY <1>2
<1>4. ASSUME NEW r \in Stream, NEW w, NEW id \in Nat \ {0}, Owns(r, w, id)'
      PROVE  Owns(r, w, id) \/ (r = s /\ w = write /\ minted < id /\ id <= minted')
  BY <1>2, <1>4
<1>5. OwnedIsMinted'
  <2>1. SUFFICES ASSUME NEW id \in Nat \ {0}, NEW r \in Stream, NEW w, Owns(r, w, id)'
                 PROVE  id <= minted'
    BY DEF OwnedIsMinted
  <2>2. Owns(r, w, id) => id <= minted
    BY DEF IInv, OwnedIsMinted
  <2> QED BY <1>1, <1>4, <2>1, <2>2
<1>6. OneOwner'
  <2>1. SUFFICES ASSUME NEW id \in Nat \ {0}, NEW q \in Stream, NEW r \in Stream, NEW w, NEW v,
                        Owns(q, w, id)', Owns(r, v, id)'
                 PROVE  q = r /\ w = v
    BY DEF OneOwner
  <2>2. /\ Owns(q, w, id) \/ (q = s /\ w = write /\ minted < id /\ id <= minted')
        /\ Owns(r, v, id) \/ (r = s /\ v = write /\ minted < id /\ id <= minted')
    BY <1>4, <2>1
  <2>3. /\ Owns(q, w, id) => id <= minted
        /\ Owns(r, v, id) => id <= minted
        /\ Owns(q, w, id) /\ Owns(r, v, id) => q = r /\ w = v
    BY DEF IInv, OwnedIsMinted, OneOwner
  <2> QED BY <1>1, <2>2, <2>3
<1> QED BY <1>3, <1>5, <1>6 DEF IInv

\* The loop comes to a resource, and what it does there.
LEMMA FillStep ==
  ASSUME IInv, NEW s \in Stream, NEW write, NEW new, Fill(s, write, new),
         FilledIn(type[s], message[s], write, new),
         minted' \in Nat, minted <= minted',
         IsIdentified(type[s], sent[s], new, write),
         \A id \in Nat \ {0} : Owner("fill", type[s], new, write, id)
           => Owner("fill", type[s], message[s], write, id) \/ (minted < id /\ id <= minted')
  PROVE  IInv'
<1>1. /\ pc[s] = "fill" /\ pc' = pc /\ type' = type /\ sent' = sent /\ error' = error
      /\ message' = [message EXCEPT ![s] = new] /\ writes' = [writes EXCEPT ![s] = @ \ {write}]
      /\ write \in writes[s]
  BY DEF Fill, Visits
<1>2. Typed /\ Good(s)
  BY DEF IInv
<1>3. Typed'
  BY <1>1, <1>2 DEF Typed
<1>4. Frame(s)
  BY <1>1, <1>2 DEF Frame, Typed
<1>5. message'[s] = new /\ writes'[s] = writes[s] \ {write}
  BY <1>1, <1>2 DEF Typed
<1>6. type[s] # NoType
  BY <1>1, <1>2 DEF Good
<1>7. GoodMessage("fill", type[s], sent[s], message[s], writes[s])
  BY <1>1, <1>2, <1>6 DEF Good
<1>8. /\ GoodMessage("fill", type[s], sent[s], new, writes[s] \ {write})
      /\ \A other, id : Owner("fill", type[s], new, other, id)
                        => Owner("fill", type[s], message[s], other, id) \/ other = write
  BY <1>1, <1>7, VisitGood
<1>9. Good(s)'
  BY <1>1, <1>5, <1>6, <1>8 DEF Good
<1>10. \A w : \A id \in Nat \ {0} :
         Owns(s, w, id)' => Owns(s, w, id) \/ (w = write /\ minted < id /\ id <= minted')
  <2>1. SUFFICES ASSUME NEW w, NEW id \in Nat \ {0}, Owns(s, w, id)'
                 PROVE  Owns(s, w, id) \/ (w = write /\ minted < id /\ id <= minted')
    OBVIOUS
  <2>2. Owner("fill", type[s], new, w, id)
    BY <1>1, <1>5, <2>1 DEF Owns
  <2>3. Owner("fill", type[s], message[s], w, id) \/ (w = write /\ minted < id /\ id <= minted')
    BY <1>8, <2>2
  <2> QED BY <1>1, <2>3 DEF Owns
<1> QED BY <1>3, <1>4, <1>9, <1>10, StepOf

\* What is done once all are visited leaves the message as it is.
LEMMA RestStep ==
  ASSUME IInv, NEW s \in Stream, NEW q \in {"idle", "rules", "required"},
         pc[s] \in {"fill", "rules", "required"}, pc[s] = "fill" => writes[s] = {},
         pc' = [pc EXCEPT ![s] = q], UNCHANGED <<type, sent, message, minted>>,
         \A r \in Stream \ {s} : writes'[r] = writes[r],
         DOMAIN writes' = Stream, DOMAIN error' = Stream
  PROVE  IInv'
<1>1. Typed /\ Good(s)
  BY DEF IInv
<1>2. Typed'
  BY <1>1 DEF Typed
<1>3. Frame(s)
  BY <1>1 DEF Frame, Typed
<1>4. pc'[s] = q /\ pc[s] # "clear" /\ pc[s] # "idle" /\ q # "clear"
  BY <1>1 DEF Typed
<1>5. type[s] # NoType /\ GoodMessage(pc[s], type[s], sent[s], message[s], writes[s])
  BY <1>1, <1>4 DEF Good
<1>6. GoodMessage(q, type[s], sent[s], message[s], writes'[s])
  BY <1>4, <1>5, RestGood
<1>7. Good(s)'
  BY <1>4, <1>5, <1>6 DEF Good
<1>8. \A w : \A id \in Nat \ {0} : Owns(s, w, id)' => Owns(s, w, id)
  BY <1>4 DEF Owns, Owner
<1>9. minted <= minted'
  BY <1>1 DEF Typed
<1> QED BY <1>2, <1>3, <1>7, <1>8, <1>9, StepOf

----------------------------------------------------------------------------
(* The actions.                                                            *)

LEMMA InitIInv == Init => IInv
<1>1. SUFFICES ASSUME Init PROVE IInv
  OBVIOUS
<1>2. Typed
  BY <1>1 DEF Init, Typed
<1>3. \A s \in Stream : type[s] = NoType /\ pc[s] = "idle"
  BY <1>1 DEF Init
<1> QED BY <1>2, <1>3 DEF IInv, Good, OneOwner, OwnedIsMinted, Owns, Owner

LEMMA ReadStep ==
  ASSUME IInv, NEW s \in Stream, NEW t \in DOMAIN Requests, NEW m \in Requests[t], Read(s, t, m)
  PROVE  IInv'
<1>1. Typed
  BY DEF IInv
<1>2. Typed' /\ Frame(s) /\ minted' = minted
  BY <1>1 DEF Read, Typed, Frame
<1>3. pc'[s] = "clear" /\ type'[s] = t /\ sent'[s] = m /\ message'[s] = m
  BY <1>1 DEF Read, Typed
<1>4. t # NoType
  BY Known
<1>5. GoodMessage("clear", t, m, m, writes'[s])
  BY ReadGood
<1>6. Good(s)'
  BY <1>3, <1>4, <1>5 DEF Good
<1>7. \A w, id : ~Owns(s, w, id)'
  BY <1>3 DEF Owns, Owner
<1>8. minted <= minted'
  BY <1>1, <1>2 DEF Typed
<1> QED BY <1>2, <1>6, <1>7, <1>8, StepOf

LEMMA ReadNothingStep ==
  ASSUME IInv, NEW s \in Stream, NEW code, ReadNothing(s, code)
  PROVE  IInv'
<1>1. Typed
  BY DEF IInv
<1>2. Typed' /\ Frame(s) /\ minted' = minted
  BY <1>1 DEF ReadNothing, Typed, Frame
<1>3. pc'[s] = "idle" /\ type'[s] = NoType
  BY <1>1 DEF ReadNothing, Typed
<1>4. Good(s)'
  BY <1>3 DEF Good
<1>5. \A w, id : ~Owns(s, w, id)'
  BY <1>3 DEF Owns, Owner
<1>6. minted <= minted'
  BY <1>1, <1>2 DEF Typed
<1> QED BY <1>2, <1>4, <1>5, <1>6, StepOf

LEMMA ClearStep ==
  ASSUME IInv, NEW s \in Stream, Clear(s)
  PROVE  IInv'
<1>1. Typed /\ Good(s)
  BY DEF IInv
<1>2. Typed' /\ Frame(s) /\ minted' = minted
  BY <1>1 DEF Clear, Typed, Frame
<1> DEFINE clear == Cleared(message[s], OutputOnly)
<1>3. /\ pc[s] = "clear" /\ pc'[s] = "fill" /\ type'[s] = type[s] /\ sent'[s] = sent[s]
      /\ message'[s] = clear /\ writes'[s] = ResourceWrites(type[s], clear)
  BY <1>1 DEF Clear, Typed
<1>4. type[s] # NoType /\ GoodMessage("clear", type[s], sent[s], message[s], writes[s])
  BY <1>1, <1>3 DEF Good
<1>5. /\ GoodMessage("fill", type[s], sent[s], clear, ResourceWrites(type[s], clear))
      /\ \A w, id : Owner("fill", type[s], clear, w, id) => id \notin Nat \ {0}
  BY <1>4, ClearGood
<1> HIDE DEF clear
<1>6. Good(s)'
  BY <1>3, <1>4, <1>5 DEF Good
<1>7. \A w : \A id \in Nat \ {0} : ~Owns(s, w, id)'
  BY <1>3, <1>5 DEF Owns
<1>8. minted <= minted'
  BY <1>1, <1>2 DEF Typed
<1> QED BY <1>2, <1>6, <1>7, <1>8, StepOf

\* What the loop finds at the resource it visits.
LEMMA Visited ==
  ASSUME IInv, NEW s \in Stream, pc[s] = "fill", NEW write \in writes[s]
  PROVE  /\ type[s] \in Type /\ DOMAIN message[s] \subseteq Location
         /\ write \in ResourceWrites(type[s], message[s])
         /\ ~IsUpdate(type[s], write) => ID(type[s], message[s], write) = ID(type[s], sent[s], write)
<1>1. type[s] # NoType /\ GoodMessage("fill", type[s], sent[s], message[s], writes[s])
  BY DEF IInv, Good
<1>2. type[s] \in Type /\ DOMAIN message[s] \subseteq Location /\ write \in ResourceWrites(type[s], message[s])
  BY <1>1, Known DEF GoodMessage
<1>3. Identified(type[s], sent[s], message[s], writes[s])
  BY <1>1 DEF GoodMessage
<1> QED BY <1>2, <1>3 DEF Identified

LEMMA MintIDStep ==
  ASSUME IInv, NEW s \in Stream, NEW write, MintID(s, write)
  PROVE  IInv'
<1> DEFINE t   == type[s]
           m   == message[s]
           new == SetID(t, m, write, NewV7)
<1>1. /\ pc[s] = "fill" /\ write \in writes[s] /\ Fill(s, write, new) /\ minted' = minted + 1
      /\ ~IsUpdate(t, write) /\ ID(t, m, write) = EmptyId
  BY DEF MintID, Fill, Visits, NewV7
<1>2. minted \in Nat /\ minted' \in Nat \ {0} /\ minted < minted'
  BY <1>1 DEF IInv, Typed
<1>3. /\ t \in Type /\ DOMAIN m \subseteq Location /\ write \in ResourceWrites(t, m)
      /\ ID(t, sent[s], write) = EmptyId
  BY <1>1, Visited
<1>4. /\ \A l \in IdAt(t, write) : l \in DOMAIN new /\ new[l] = minted'
      /\ FilledIn(t, m, write, new)
  BY <1>1 DEF SetID, Put, NewV7, FilledIn, Filling
<1> HIDE DEF new, t, m
<1>5. ID(t, new, write) = IF IdAt(t, write) = {} THEN EmptyId ELSE minted'
  <2>1. CASE IdAt(t, write) = {}
    BY <1>3, <2>1, IDIs
  <2>2. CASE IdAt(t, write) # {}
    <3>1. PICK l \in IdAt(t, write) : TRUE
      BY <2>2
    <3>2. ID(t, new, write) = IF l \in DOMAIN new THEN new[l] ELSE EmptyId
      BY <1>3, <3>1, IDIs
    <3> QED BY <1>4, <2>2, <3>1, <3>2
  <2> QED BY <2>1, <2>2
<1>6. IsIdentified(t, sent[s], new, write)
  BY <1>2, <1>3, <1>5 DEF IsIdentified
<1>7. ASSUME NEW id \in Nat \ {0}, Owner("fill", t, new, write, id)
      PROVE  minted < id /\ id <= minted'
  <2>1. id = EmptyId \/ id = minted'
    BY <1>5, <1>7 DEF Owner
  <2>2. id = minted'
    BY <2>1, StreamAssumption
  <2> QED BY <1>2, <2>2
<1>8. minted' \in Nat /\ minted <= minted'
  BY <1>2
<1> QED BY <1>1, <1>4, <1>6, <1>7, <1>8, FillStep DEF t, m

LEMMA KeepIDStep ==
  ASSUME IInv, NEW s \in Stream, NEW write, KeepID(s, write)
  PROVE  IInv'
<1>1. /\ pc[s] = "fill" /\ write \in writes[s] /\ Fill(s, write, message[s]) /\ minted' = minted
      /\ ~IsUpdate(type[s], write) /\ ID(type[s], message[s], write) # EmptyId
  BY DEF KeepID, Fill, Visits
<1>2. minted \in Nat /\ minted' \in Nat /\ minted <= minted'
  BY <1>1 DEF IInv, Typed
<1>3. ID(type[s], message[s], write) = ID(type[s], sent[s], write)
  BY <1>1, Visited
<1>4. FilledIn(type[s], message[s], write, message[s])
  BY DEF FilledIn
<1>5. IsIdentified(type[s], sent[s], message[s], write)
  BY <1>1, <1>3 DEF IsIdentified
<1> QED BY <1>1, <1>2, <1>4, <1>5, FillStep

\* The mask of an update, whatever it is set to.
LEMMA SetMaskStep ==
  ASSUME IInv, NEW s \in Stream, NEW write, NEW mask, IsUpdate(type[s], write), UNCHANGED minted,
         Fill(s, write, SetMask(type[s], message[s], write, mask))
  PROVE  IInv'
<1> DEFINE new == SetMask(type[s], message[s], write, mask)
<1>1. minted \in Nat /\ minted' \in Nat /\ minted <= minted'
  BY DEF IInv, Typed
<1>2. FilledIn(type[s], message[s], write, new)
  BY DEF FilledIn, SetMask, Filling
<1> HIDE DEF new
<1>3. IsIdentified(type[s], sent[s], new, write)
  BY DEF IsIdentified
<1>4. \A id : ~Owner("fill", type[s], new, write, id)
  BY DEF Owner
<1>5. Fill(s, write, new)
  BY DEF new
<1> QED BY <1>1, <1>2, <1>3, <1>4, <1>5, FillStep

LEMMA Restful ==
  ASSUME IInv, NEW s \in Stream,
         \/ EndFill(s) \/ RulesFail(s) \/ CheckRules(s) \/ Answer(s)
         \/ \E write \in writes[s] : CheckRequired(s, write)
  PROVE  IInv'
<1>1. Typed
  BY DEF IInv
<1>2. CASE EndFill(s)
  BY <1>1, <1>2, RestStep DEF EndFill, Typed
<1>3. CASE RulesFail(s)
  BY <1>1, <1>3, RestStep DEF RulesFail, Typed
<1>4. CASE CheckRules(s)
  BY <1>1, <1>4, RestStep DEF CheckRules, Typed
<1>5. CASE Answer(s)
  BY <1>1, <1>5, RestStep DEF Answer, Typed
<1>6. ASSUME NEW write \in writes[s], CheckRequired(s, write)
      PROVE  IInv'
  <2>1. /\ pc[s] = "required" /\ pc' = [pc EXCEPT ![s] = "required"]
        /\ UNCHANGED <<type, sent, message, error, minted>>
        /\ writes' = [writes EXCEPT ![s] = @ \ {write}]
    BY <1>1, <1>6 DEF CheckRequired, Visits, Typed
  <2> QED BY <1>1, <2>1, RestStep DEF Typed
<1> QED BY <1>2, <1>3, <1>4, <1>5, <1>6

LEMMA NextIInv == IInv /\ [Next]_vars => IInv'
<1>1. SUFFICES ASSUME IInv, [Next]_vars PROVE IInv'
  OBVIOUS
<1>2. CASE UNCHANGED vars
  BY <1>1, <1>2 DEF vars, IInv, Typed, Good, OneOwner, OwnedIsMinted, Owns
<1>3. CASE Next
  <2>1. PICK s \in Stream : \/ \E t \in DOMAIN Requests : \E m \in Requests[t] : Read(s, t, m)
                            \/ \E code \in {"ok", "read"} : ReadNothing(s, code)
                            \/ Proceed(s)
    BY <1>3 DEF Next
  <2>2. ASSUME NEW t \in DOMAIN Requests, NEW m \in Requests[t], Read(s, t, m)
        PROVE  IInv'
    BY <1>1, <2>2, ReadStep
  <2>3. ASSUME NEW code \in {"ok", "read"}, ReadNothing(s, code)
        PROVE  IInv'
    BY <1>1, <2>3, ReadNothingStep
  <2>4. CASE Clear(s)
    BY <1>1, <2>4, ClearStep
  <2>5. ASSUME NEW write \in writes[s],
               MintID(s, write) \/ KeepID(s, write) \/ ImplyMask(s, write) \/ FilterMask(s, write)
        PROVE  IInv'
    <3>1. CASE MintID(s, write)
      BY <1>1, <3>1, MintIDStep
    <3>2. CASE KeepID(s, write)
      BY <1>1, <3>2, KeepIDStep
    <3>3. CASE ImplyMask(s, write)
      BY <1>1, <3>3, SetMaskStep DEF ImplyMask
    <3>4. CASE FilterMask(s, write)
      BY <1>1, <3>4, SetMaskStep DEF FilterMask
    <3> QED BY <2>5, <3>1, <3>2, <3>3, <3>4
  <2>6. CASE \/ EndFill(s) \/ RulesFail(s) \/ CheckRules(s) \/ Answer(s)
             \/ \E write \in writes[s] : CheckRequired(s, write)
    BY <1>1, <2>6, Restful
  <2> QED BY <2>1, <2>2, <2>3, <2>4, <2>5, <2>6 DEF Proceed
<1> QED BY <1>1, <1>2, <1>3

----------------------------------------------------------------------------
(* The theorems.                                                           *)

THEOREM Invariant == Spec => []IInv
  BY InitIInv, NextIInv, PTL DEF Spec

\* Receive takes out what is OUTPUT_ONLY and sets the ids and the masks of the
\* entries, and changes nothing else of what a client sent, in any message.
THEOREM NothingElseChanges == Spec => []ChangesNothingElse
<1>1. IInv => ChangesNothingElse
  <2>1. SUFFICES ASSUME IInv, NEW s \in Stream, pc[s] # "clear", type[s] # NoType
                 PROVE  Kept(type[s], sent[s], message[s])
    BY DEF ChangesNothingElse, Kept, Filling
  <2> QED BY <2>1 DEF IInv, Good, GoodMessage
<1> QED BY <1>1, Invariant, PTL

\* No OUTPUT_ONLY value a client sent reaches a handler, at any depth.
THEOREM NoneOfTheServersArrives == Spec => []NoServersValueArrives
<1>1. IInv => NoServersValueArrives
  <2>1. SUFFICES ASSUME IInv, NEW s \in Stream, pc[s] # "clear", type[s] # NoType
                 PROVE  WithoutServers(message[s])
    BY DEF NoServersValueArrives, Delivered, Returned, WithoutServers
  <2> QED BY <2>1 DEF IInv, Good, GoodMessage
<1> QED BY <1>1, Invariant, PTL

\* Every create a handler gets is identified: by the id its client chose, or by
\* one that no other create of any stream has.
THEOREM EveryCreateHasItsId == Spec => []EveryCreateIsIdentified
<1>1. IInv => EveryCreateIsIdentified
  <2>1. SUFFICES ASSUME IInv, NEW s \in Stream, Delivered(s),
                        NEW write \in Creates(s), IdAt(type[s], write) # {}
                 PROVE  LET chosen == ID(type[s], sent[s], write)
                            given  == ID(type[s], message[s], write)
                        IN /\ given # EmptyId
                           /\ chosen # EmptyId => given = chosen
                           /\ chosen = EmptyId =>
                                \A r \in Stream : Delivered(r) => \A other \in Creates(r) :
                                  ID(type[r], message[r], other) = given => r = s /\ other = write
    BY DEF EveryCreateIsIdentified
  <2> DEFINE chosen == ID(type[s], sent[s], write)
             given  == ID(type[s], message[s], write)
  <2>2. type[s] # NoType /\ pc[s] = "idle"
    BY <2>1 DEF Delivered, Returned
  <2>3. write \in ResourceWrites(type[s], message[s]) /\ ~IsUpdate(type[s], write)
    BY <2>1 DEF Creates
  <2>4. GoodMessage("idle", type[s], sent[s], message[s], writes[s])
    BY <2>1, <2>2 DEF IInv, Good
  <2>5. Identified(type[s], sent[s], message[s], {})
    BY <2>4 DEF GoodMessage
  <2>6. IF chosen = EmptyId THEN given \in Nat \ {0} ELSE given = chosen
    BY <2>1, <2>3, <2>5 DEF Identified, IsIdentified
  <2>7. given # EmptyId
    BY <2>6, StreamAssumption
  <2>8. ASSUME chosen = EmptyId, NEW r \in Stream, Delivered(r), NEW other \in Creates(r),
               ID(type[r], message[r], other) = given
        PROVE  r = s /\ other = write
    <3>1. Owns(s, write, given)
      BY <2>2, <2>3 DEF Owns, Owner
    <3>2. Owns(r, other, given)
      BY <2>8 DEF Owns, Owner, Delivered, Returned, Creates
    <3>3. given \in Nat \ {0}
      BY <2>6, <2>8
    <3> QED BY <2>1, <3>1, <3>2, <3>3 DEF IInv, OneOwner
  <2> QED BY <2>6, <2>7, <2>8
<1> QED BY <1>1, Invariant, PTL

----------------------------------------------------------------------------
(* Steps under any key.                                                    *)

LEMMA AnyStep ==
  ASSUME NEW at \in Location, NEW f \in Field, NEW k \in Key
  PROVE  /\ Step(f, k) \in StepSet /\ Step(f, k).field = f /\ Step(f, k).key = k
         /\ Append(at, Step(f, k)) \in Location
         /\ Len(Append(at, Step(f, k))) = Len(at) + 1
         /\ Append(at, Step(f, k))[Len(at) + 1] = Step(f, k)
         /\ \A i \in 1 .. Len(at) : Append(at, Step(f, k))[i] = at[i]
<1>1. Step(f, k) \in StepSet /\ Step(f, k).field = f /\ Step(f, k).key = k
  BY DEF Step, StepSet
<1>2. at \in Seq(StepSet)
  BY DEF Location
<1>3. ASSUME NEW st \in StepSet
      PROVE  /\ Append(at, st) \in Seq(StepSet)
             /\ Len(Append(at, st)) = Len(at) + 1
             /\ Append(at, st)[Len(at) + 1] = st
             /\ \A i \in 1 .. Len(at) : Append(at, st)[i] = at[i]
  BY <1>2, AppendProperties
<1> DEFINE st == Step(f, k)
<1> HIDE DEF st
<1>4. /\ Append(at, st) \in Seq(StepSet) /\ Len(Append(at, st)) = Len(at) + 1
      /\ Append(at, st)[Len(at) + 1] = st
      /\ \A i \in 1 .. Len(at) : Append(at, st)[i] = at[i]
  BY <1>1, <1>3 DEF st
<1> QED BY <1>1, <1>4 DEF st, Location

LEMMA PassesAnyStep ==
  ASSUME NEW at \in Location, NEW f \in Field, NEW k \in Key, NEW kind
  PROVE  PassesThrough(kind, Append(at, Step(f, k))) <=> PassesThrough(kind, at) \/ HasKind(f, kind)
<1> DEFINE l == Append(at, Step(f, k))
<1>1. /\ Len(l) = Len(at) + 1 /\ Len(at) \in Nat
      /\ DOMAIN l = 1 .. Len(l) /\ DOMAIN at = 1 .. Len(at)
      /\ l[Len(at) + 1].field = f
      /\ \A i \in 1 .. Len(at) : l[i] = at[i]
  BY AnyStep DEF Location
<1> HIDE DEF l
<1>2. PassesThrough(kind, l) <=> \E i \in 1 .. Len(at) + 1 : HasKind(l[i].field, kind)
  BY <1>1 DEF PassesThrough
<1>3. PassesThrough(kind, at) <=> \E i \in 1 .. Len(at) : HasKind(at[i].field, kind)
  BY <1>1 DEF PassesThrough
<1>4. \A i \in 1 .. Len(at) + 1 : i \in 1 .. Len(at) \/ i = Len(at) + 1
  BY <1>1
<1>5. 1 .. Len(at) \subseteq 1 .. Len(at) + 1 /\ Len(at) + 1 \in 1 .. Len(at) + 1
  BY <1>1
<1>6. PassesThrough(kind, l) <=> PassesThrough(kind, at) \/ HasKind(f, kind)
  BY <1>1, <1>2, <1>3, <1>4, <1>5
<1> QED BY <1>6 DEF l

----------------------------------------------------------------------------
(* The resource as a message of its own.                                   *)

\* What is set at the top of the resource is one step beneath it in the request.
LEMMA TopOfResource ==
  ASSUME NEW at \in Location, NEW l \in Location, NEW st \in StepSet
  PROVE  IsStrictPrefix(at, l) /\ SubSeq(l, Len(at) + 1, Len(l)) = <<st>> <=> l = Append(at, st)
<1>1. at \in Seq(StepSet) /\ l \in Seq(StepSet) /\ Len(at) \in Nat /\ Len(l) \in Nat
  BY DEF Location
<1>2. ASSUME IsStrictPrefix(at, l), SubSeq(l, Len(at) + 1, Len(l)) = <<st>>
      PROVE  l = Append(at, st)
  <2>1. Len(at) <= Len(l) /\ SubSeq(at, 1, Len(at)) = SubSeq(l, 1, Len(at))
    BY <1>2 DEF IsStrictPrefix, IsPrefix
  <2>2. SubSeq(at, 1, Len(at)) = at
    BY <1>1, SubSeqFull
  <2>3. Len(SubSeq(l, Len(at) + 1, Len(l))) = 1 /\ <<st>>[1] = st
    BY <1>2
  <2>4. Len(l) = Len(at) + 1
    BY <1>1, <2>1, <2>3
  <2>5. l[Len(at) + 1] = st
    <3>1. SubSeq(l, Len(at) + 1, Len(at) + 1)[1] = l[Len(at) + 1]
      BY <1>1, <2>4
    <3> QED BY <1>2, <2>3, <2>4, <3>1
  <2>6. \A i \in 1 .. Len(at) : l[i] = at[i]
    <3>1. \A i \in 1 .. Len(at) : SubSeq(l, 1, Len(at))[i] = l[i]
      BY <1>1, <2>1
    <3> QED BY <2>1, <2>2, <3>1
  <2> QED BY <1>1, <2>4, <2>5, <2>6
<1>3. ASSUME l = Append(at, st)
      PROVE  IsStrictPrefix(at, l) /\ SubSeq(l, Len(at) + 1, Len(l)) = <<st>>
  <2>1. /\ Len(l) = Len(at) + 1 /\ l[Len(at) + 1] = st
        /\ \A i \in 1 .. Len(at) : l[i] = at[i]
    BY <1>1, <1>3
  <2>2. SubSeq(at, 1, Len(at)) = SubSeq(l, 1, Len(at))
    BY <1>1, <2>1
  <2>3. at # l
    BY <1>1, <2>1
  <2>4. SubSeq(l, Len(at) + 1, Len(l)) = <<st>>
    <3>1. SubSeq(l, Len(at) + 1, Len(at) + 1) = SubSeq(l, Len(at) + 1, Len(at)) \o <<l[Len(at) + 1]>>
      BY <1>1, <2>1, SubSeqRecursiveSecond
    <3>2. SubSeq(l, Len(at) + 1, Len(at)) = <<>>
      BY <1>1, SubSeqEmpty
    <3>3. <<>> \o <<st>> = <<st>>
      OBVIOUS
    <3> QED BY <2>1, <3>1, <3>2, <3>3
  <2> QED BY <1>1, <2>1, <2>2, <2>3, <2>4 DEF IsStrictPrefix, IsPrefix
<1> QED BY <1>2, <1>3

LEMMA HasOfResource ==
  ASSUME NEW m, DOMAIN m \subseteq Location, NEW write, ResourceAt(write) \in Location, NEW f \in Field
  PROVE  Has(Resource(m, write), <<>>, f) <=> Has(DOMAIN m, ResourceAt(write), f)
<1> DEFINE at == ResourceAt(write)
<1>1. ASSUME NEW k \in Key
      PROVE  Append(<<>>, Step(f, k)) \in Resource(m, write) <=> Append(at, Step(f, k)) \in DOMAIN m
  <2>1. Step(f, k) \in StepSet /\ Append(at, Step(f, k)) \in Location
    BY AnyStep
  <2>2. \A l \in DOMAIN m : IsStrictPrefix(at, l) /\ SubSeq(l, Len(at) + 1, Len(l)) = <<Step(f, k)>>
                            <=> l = Append(at, Step(f, k))
    BY <2>1, TopOfResource
  <2>3. Append(<<>>, Step(f, k)) = <<Step(f, k)>>
    OBVIOUS
  <2>4. <<Step(f, k)>> \in Resource(m, write)
        <=> \E l \in DOMAIN m : IsStrictPrefix(at, l) /\ SubSeq(l, Len(at) + 1, Len(l)) = <<Step(f, k)>>
    BY DEF Resource
  <2> QED BY <2>2, <2>3, <2>4
<1> QED BY <1>1 DEF Has, Values

----------------------------------------------------------------------------
(* The mask of an update.                                                  *)

LEMMA OneMask ==
  ASSUME NEW t \in Type, NEW request, DOMAIN request \subseteq Location,
         NEW write \in ResourceWrites(t, request), NEW l \in MaskAt(t, write), NEW k \in MaskAt(t, write)
  PROVE  l = k
<1>1. PICK f \in updateMaskField(TypeAt(t, write.at)) : l = Append(write.at, Step(f, 0))
  BY DEF MaskAt
<1>2. PICK g \in updateMaskField(TypeAt(t, write.at)) : k = Append(write.at, Step(g, 0))
  BY DEF MaskAt
<1>3. f = g
  BY <1>1, <1>2, WriteFacts, ByNameOnce DEF updateMaskField
<1> QED BY <1>1, <1>2, <1>3

LEMMA MaskIs ==
  ASSUME NEW t \in Type, NEW request, DOMAIN request \subseteq Location,
         NEW write \in ResourceWrites(t, request), NEW m, NEW l \in MaskAt(t, write)
  PROVE  Mask(t, m, write) = IF l \in DOMAIN m THEN m[l] ELSE <<>>
<1>1. \A k \in MaskAt(t, write) : k = l
  BY OneMask
<1>2. (CHOOSE at \in MaskAt(t, write) : TRUE) = l
  BY <1>1
<1> QED BY <1>2 DEF Mask

\* Clearing a message leaves its masks as they are, though not what they name.
LEMMA ClearedMasks ==
  ASSUME NEW t \in Type, NEW c, DOMAIN c \subseteq Location,
         NEW write \in ResourceWrites(t, Cleared(c, OutputOnly)), IsUpdate(t, write)
  PROVE  Mask(t, Cleared(c, OutputOnly), write) = Mask(t, c, write)
<1> DEFINE m == Cleared(c, OutputOnly)
<1>1. /\ DOMAIN m = {at \in DOMAIN c : ~PassesThrough(OutputOnly, at)}
      /\ \A at \in DOMAIN m : m[at] = c[at]
  BY DEF Cleared, ClearFields
<1>2. write \in ResourceWrites(t, m)
  OBVIOUS
<1>3. DOMAIN m \subseteq Location /\ WithoutServers(m)
  BY <1>1 DEF WithoutServers
<1> HIDE DEF m
<1>4. PICK l \in MaskAt(t, write) : TRUE
  BY DEF IsUpdate
<1>5. PICK f \in Field : l = Append(write.at, Step(f, 0)) /\ ~HasKind(f, OutputOnly)
  BY <1>2, <1>3, <1>4, FillingFacts DEF Filling
<1>6. write.at \in Location /\ write.field \in Field
  BY <1>2, <1>3, WriteFacts
<1>7. ~PassesThrough(OutputOnly, Append(write.at, Step(write.field, 0)))
  BY <1>2, <1>3, WriteFacts DEF WithoutServers
<1>8. ~PassesThrough(OutputOnly, l)
  BY <1>5, <1>6, <1>7, PassesAppend
<1>9. l \in DOMAIN m <=> l \in DOMAIN c
  BY <1>1, <1>8
<1>10. Mask(t, m, write) = IF l \in DOMAIN m THEN m[l] ELSE <<>>
  BY <1>2, <1>3, <1>4, MaskIs
<1>11. Mask(t, c, write) = IF l \in DOMAIN c THEN c[l] ELSE <<>>
  BY <1>2, <1>3, <1>4, MaskIs
<1>12. Mask(t, m, write) = Mask(t, c, write)
  BY <1>1, <1>9, <1>10, <1>11
<1> QED BY <1>12 DEF m

\* What is filled in for one resource is not the mask of another.
LEMMA OtherMasks ==
  ASSUME NEW t \in Type, NEW m, DOMAIN m \subseteq Location,
         NEW write \in ResourceWrites(t, m), NEW where \in SUBSET Filling(t, write), NEW value,
         NEW other \in ResourceWrites(t, m), other # write, IsUpdate(t, other)
  PROVE  Mask(t, Put(m, where, value), other) = Mask(t, m, other)
<1> DEFINE put == Put(m, where, value)
<1>1. DOMAIN put = DOMAIN m \cup where /\ \A at \in DOMAIN m \ where : put[at] = m[at]
  BY DEF Put
<1> HIDE DEF put
<1>2. PICK l \in MaskAt(t, other) : TRUE
  BY DEF IsUpdate
<1>3. l \notin where
  BY <1>2, FillingApart DEF Filling
<1>4. Mask(t, put, other) = IF l \in DOMAIN put THEN put[l] ELSE <<>>
  BY <1>2, MaskIs
<1>5. Mask(t, m, other) = IF l \in DOMAIN m THEN m[l] ELSE <<>>
  BY <1>2, MaskIs
<1>6. Mask(t, put, other) = Mask(t, m, other)
  BY <1>1, <1>3, <1>4, <1>5
<1> QED BY <1>6 DEF put

LEMMA SetMaskIs ==
  ASSUME NEW t \in Type, NEW m, DOMAIN m \subseteq Location,
         NEW write \in ResourceWrites(t, m), IsUpdate(t, write), NEW mask
  PROVE  Mask(t, SetMask(t, m, write, mask), write) = mask
<1> DEFINE put == SetMask(t, m, write, mask)
<1>1. PICK l \in MaskAt(t, write) : TRUE
  BY DEF IsUpdate
<1>2. l \in DOMAIN put /\ put[l] = mask
  BY <1>1 DEF SetMask, Put
<1> HIDE DEF put
<1>3. Mask(t, put, write) = mask
  BY <1>1, <1>2, MaskIs
<1> QED BY <1>3 DEF put

----------------------------------------------------------------------------
(* What of the resource the loop finds as the client sent it.              *)

\* Nothing is filled in beneath a resource, and what is not OUTPUT_ONLY stays:
\* the loop finds the writable fields the client set, and no other.
LEMMA WritableAsSent ==
  ASSUME NEW t \in Type, NEW c, DOMAIN c \subseteq Location,
         NEW m, DOMAIN m \subseteq Location, WithoutServers(m), Kept(t, c, m),
         NEW write \in ResourceWrites(t, m), NEW f \in Field, isWritable(f)
  PROVE  Has(DOMAIN m, ResourceAt(write), f) <=> Has(DOMAIN c, ResourceAt(write), f)
<1> DEFINE at == ResourceAt(write)
           filled == UNION {Filling(t, w) : w \in ResourceWrites(t, m)}
<1>1. /\ write.at \in Location /\ write.field \in Field /\ IsResource(write.field)
      /\ at = Append(write.at, Step(write.field, 0)) /\ at \in DOMAIN m /\ at \in Location
  BY WriteFacts
<1>2. /\ \A l \in DOMAIN c : ~PassesThrough(OutputOnly, l) => l \in DOMAIN m
      /\ \A l \in DOMAIN m \ filled : l \in DOMAIN c
  BY DEF Kept
<1>3. ~HasKind(f, OutputOnly)
  BY DEF isWritable, HasAnyKind
<1>4. ~PassesThrough(OutputOnly, at)
  BY <1>1 DEF WithoutServers
<1>5. ASSUME NEW k \in Key
      PROVE  Append(at, Step(f, k)) \in DOMAIN m <=> Append(at, Step(f, k)) \in DOMAIN c
  <2> DEFINE l == Append(at, Step(f, k))
  <2>1. ~PassesThrough(OutputOnly, l)
    BY <1>1, <1>3, <1>4, PassesAnyStep
  <2>2. ASSUME NEW w \in ResourceWrites(t, m), l \in Filling(t, w) PROVE FALSE
    <3>1. PICK g \in Field : l = Append(w.at, Step(g, 0))
      BY <2>2, FillingFacts
    <3>2. w.at \in Location /\ IsEntry(t, w.at)
      BY WriteFacts
    <3>3. at \in Seq(StepSet) /\ w.at \in Seq(StepSet) /\ Step(f, k) \in StepSet /\ Step(g, 0) \in StepSet
      BY <1>1, <3>2, AnyStep, SchemaAssumption DEF Location
    <3>4. w.at = at
      BY <3>1, <3>3, AppendInjective
    <3>5. /\ Len(at) = Len(write.at) + 1 /\ at[Len(write.at) + 1].field = write.field
          /\ Len(write.at) \in Nat /\ DOMAIN at = 1 .. Len(at)
      BY <1>1, StepFacts DEF Location
    <3>6. Len(write.at) + 1 \in DOMAIN w.at
      BY <3>4, <3>5
    <3>7. Shape[w.at[Len(write.at) + 1].field] = "list"
      BY <3>2, <3>6 DEF IsEntry, batchField
    <3>8. Shape[write.field] = "list"
      BY <3>4, <3>5, <3>7
    <3> QED BY <1>1, <3>8 DEF IsResource, isSingularMessage
  <2>3. l \notin filled
    BY <2>2
  <2> HIDE DEF l, filled
  <2>4. l \in DOMAIN m <=> l \in DOMAIN c
    BY <1>2, <2>1, <2>3
  <2> QED BY <2>4 DEF l
<1> QED BY <1>5 DEF Has, Values

----------------------------------------------------------------------------
(* A mask there is, cleared.                                               *)

\* Clearing a mask leaves of it the paths that do not name the kind.
LEMMA ClearedMaskPaths ==
  ASSUME NEW t, NEW kind, NEW mask, IsPaths(mask)
  PROVE  /\ IsPaths(ClearFieldMask(t, kind, mask))
         /\ ToSet(ClearFieldMask(t, kind, mask)) = {path \in ToSet(mask) : ~NamesKind(t, kind, path)}
<1>1. mask # NoMask
  BY WalkAssumption DEF IsPaths
<1> QED BY <1>1, ClearedMaskIs DEF IsPaths

\* The resources of the message are those of the request as it was sent.
LEMMA WritesAsSent ==
  ASSUME NEW t \in Type, NEW c, DOMAIN c \subseteq Location,
         NEW m, DOMAIN m \subseteq Location, Kept(t, c, m), NEW write \in ResourceWrites(t, m)
  PROVE  write \in ResourceWrites(t, c)
<1> DEFINE filled == UNION {Filling(t, w) : w \in ResourceWrites(t, m)}
<1>1. /\ write.at \in DOMAIN m \cup {<<>>} /\ write.at \in Location /\ IsEntry(t, write.at)
      /\ write.field \in resourceField(TypeAt(t, write.at))
      /\ write.field \in Field /\ IsResource(write.field)
      /\ write = Write(write.at, write.field)
      /\ ResourceAt(write) = Append(write.at, Step(write.field, 0))
      /\ ResourceAt(write) \in DOMAIN m
  BY WriteFacts
<1>2. \A l \in filled : \E at \in Location : \E f \in Field :
        /\ l = Append(at, Step(f, 0)) /\ Shape[f] = "singular" /\ ~IsResource(f)
  <2>1. ASSUME NEW w \in ResourceWrites(t, m), NEW l \in Filling(t, w)
        PROVE  \E at \in Location : \E f \in Field :
                 /\ l = Append(at, Step(f, 0)) /\ Shape[f] = "singular" /\ ~IsResource(f)
    <3>1. w.at \in Location
      BY <2>1, WriteFacts
    <3> QED BY <2>1, <3>1, FillingFacts
  <2> QED BY <2>1
<1>3. \A l \in DOMAIN m \ filled : l \in DOMAIN c
  BY DEF Kept
<1> HIDE DEF filled
<1>4. ResourceAt(write) \notin filled
  <2>1. SUFFICES ASSUME ResourceAt(write) \in filled PROVE FALSE
    OBVIOUS
  <2>2. PICK at \in Location, f \in Field : ResourceAt(write) = Append(at, Step(f, 0)) /\ ~IsResource(f)
    BY <1>2, <2>1
  <2>3. f = write.field
    BY <1>1, <2>2, OneStepOn
  <2> QED BY <1>1, <2>2, <2>3
<1>5. write.at \notin filled
  <2>1. SUFFICES ASSUME write.at \in filled PROVE FALSE
    OBVIOUS
  <2>2. PICK at \in Location, f \in Field : write.at = Append(at, Step(f, 0)) /\ Shape[f] = "singular"
    BY <1>2, <2>1
  <2>3. /\ Len(write.at) = Len(at) + 1 /\ write.at[Len(at) + 1].field = f
        /\ DOMAIN write.at = 1 .. Len(write.at) /\ Len(at) \in Nat
    BY <1>1, <2>2, StepFacts DEF Location
  <2>4. Len(at) + 1 \in DOMAIN write.at
    BY <2>3
  <2>5. Shape[write.at[Len(at) + 1].field] = "list"
    BY <1>1, <2>4 DEF IsEntry, batchField
  <2> QED BY <2>2, <2>3, <2>5
<1>6. ResourceAt(write) \in DOMAIN c /\ write.at \in DOMAIN c \cup {<<>>}
  BY <1>1, <1>3, <1>4, <1>5
<1> QED BY <1>1, <1>6, InWrites

\* The masks of the updates a Receive has come past the clearing with are as the
\* client sent them: paths, and none longer than a walk gets.
LEMMA PathsAsSent ==
  ASSUME IInv, NEW s \in Stream, type[s] # NoType, pc[s] # "clear",
         NEW write \in ResourceWrites(type[s], message[s]), IsUpdate(type[s], write)
  PROVE  IsPaths(Mask(type[s], sent[s], write)) /\ AreShallow(Mask(type[s], sent[s], write))
<1>1. GoodMessage(pc[s], type[s], sent[s], message[s], writes[s])
  BY DEF IInv, Good
<1>2. /\ type[s] \in DOMAIN Requests /\ sent[s] \in Requests[type[s]]
      /\ DOMAIN message[s] \subseteq Location /\ Kept(type[s], sent[s], message[s])
  BY <1>1 DEF GoodMessage
<1>3. /\ type[s] \in Type /\ DOMAIN sent[s] \subseteq Location /\ IsRequest(type[s], sent[s])
  BY <1>2, Known
<1>4. write \in ResourceWrites(type[s], sent[s])
  BY <1>2, <1>3, WritesAsSent
<1> QED BY <1>3, <1>4 DEF IsRequest

----------------------------------------------------------------------------
(* The invariant of the masks.  The loop visits the resources one by one: the *)
(* masks of those it has still to visit are as the client sent them, the   *)
(* others what Receive makes of them.  It holds beside IInv, which says    *)
(* that a write is visited once and that the resource is as it was sent.   *)

\* Write write's mask in message m, of the mask that the client sent in c.
IsMasked(t, c, m, write) ==
  LET asked == Mask(t, c, write)
      given == Mask(t, m, write)
  IN /\ IsPaths(given)
     /\ IF asked = <<>>
        THEN ToSet(given) = {<<Name[f]>> : f \in {g \in FieldsOf(ResourceType(write)) :
                               isWritable(g) /\ Has(DOMAIN c, ResourceAt(write), g)}}
        ELSE given = ClearFieldMask(ResourceType(write), OutputOnly, asked)

Masked(t, c, m, ws) ==
  \A write \in ResourceWrites(t, m) :
    IsUpdate(t, write) =>
      IF write \in ws THEN Mask(t, m, write) = Mask(t, c, write) ELSE IsMasked(t, c, m, write)

\* The writes the loop of a Receive at step p has still to fill in.
ToFill(p, ws) == IF p = "fill" THEN ws ELSE {}

GoodMasks(s) ==
  type[s] # NoType /\ pc[s] # "clear" =>
    Masked(type[s], sent[s], message[s], ToFill(pc[s], writes[s]))

MaskInv == \A s \in Stream : GoodMasks(s)

\* A step of s is one of the whole system's.
LEMMA MasksOf ==
  ASSUME MaskInv, NEW s \in Stream, Frame(s), GoodMasks(s)'
  PROVE  MaskInv'
<1>1. ASSUME NEW r \in Stream, r # s PROVE GoodMasks(r)'
  <2>1. /\ pc'[r] = pc[r] /\ type'[r] = type[r] /\ sent'[r] = sent[r]
        /\ message'[r] = message[r] /\ writes'[r] = writes[r]
    BY <1>1 DEF Frame
  <2>2. GoodMasks(r)
    BY DEF MaskInv
  <2> QED BY <2>1, <2>2 DEF GoodMasks
<1> QED BY <1>1 DEF MaskInv

\* Once the message is cleared no resource is visited yet.
LEMMA ClearMasks ==
  ASSUME IInv, MaskInv, NEW s \in Stream, Clear(s)
  PROVE  MaskInv'
<1>1. Typed /\ Good(s)
  BY DEF IInv
<1>2. Frame(s)
  BY <1>1 DEF Clear, Typed, Frame
<1> DEFINE clear == Cleared(message[s], OutputOnly)
<1>3. /\ pc[s] = "clear" /\ pc'[s] = "fill" /\ type'[s] = type[s] /\ sent'[s] = sent[s]
      /\ message'[s] = clear /\ writes'[s] = ResourceWrites(type[s], clear)
  BY <1>1 DEF Clear, Typed
<1>4. type[s] # NoType /\ GoodMessage("clear", type[s], sent[s], message[s], writes[s])
  BY <1>1, <1>3 DEF Good
<1>5. message[s] = sent[s] /\ type[s] \in Type /\ DOMAIN sent[s] \subseteq Location
  BY <1>4, Known DEF GoodMessage
<1>6. \A write \in ResourceWrites(type[s], clear) :
        IsUpdate(type[s], write) => Mask(type[s], clear, write) = Mask(type[s], sent[s], write)
  BY <1>5, ClearedMasks
<1> HIDE DEF clear
<1>7. Masked(type[s], sent[s], clear, ResourceWrites(type[s], clear))
  BY <1>6 DEF Masked
<1>8. GoodMasks(s)'
  BY <1>3, <1>7 DEF GoodMasks, ToFill
<1> QED BY <1>2, <1>8, MasksOf

\* The loop comes to a resource: what it fills in there is no mask of another.
LEMMA VisitMasks ==
  ASSUME NEW t \in Type, NEW c, NEW m, DOMAIN m \subseteq Location, NEW ws, Masked(t, c, m, ws),
         NEW write \in ResourceWrites(t, m), write \in ws,
         NEW new, FilledIn(t, m, write, new), IsUpdate(t, write) => IsMasked(t, c, new, write)
  PROVE  Masked(t, c, new, ws \ {write})
<1>1. /\ ResourceWrites(t, new) = ResourceWrites(t, m)
      /\ \A other \in ResourceWrites(t, m) :
           other # write /\ IsUpdate(t, other) => Mask(t, new, other) = Mask(t, m, other)
  <2>1. CASE new = m
    BY <2>1
  <2>2. CASE new # m
    <3>1. PICK where \in SUBSET Filling(t, write) : \E value : new = Put(m, where, value)
      BY <2>2 DEF FilledIn
    <3>2. PICK value : new = Put(m, where, value)
      BY <3>1
    <3> DEFINE put == Put(m, where, value)
    <3>3. ResourceWrites(t, put) = ResourceWrites(t, m)
      BY PutWrites
    <3>4. \A other \in ResourceWrites(t, m) :
            other # write /\ IsUpdate(t, other) => Mask(t, put, other) = Mask(t, m, other)
      BY OtherMasks
    <3>5. new = put
      BY <3>2
    <3> HIDE DEF put
    <3> QED BY <3>3, <3>4, <3>5
  <2> QED BY <2>1, <2>2
<1>2. ASSUME NEW other \in ResourceWrites(t, m), IsUpdate(t, other), other # write
      PROVE  IF other \in ws \ {write} THEN Mask(t, new, other) = Mask(t, c, other)
                                        ELSE IsMasked(t, c, new, other)
  <2>1. Mask(t, new, other) = Mask(t, m, other)
    BY <1>1, <1>2
  <2>2. IF other \in ws THEN Mask(t, m, other) = Mask(t, c, other) ELSE IsMasked(t, c, m, other)
    BY <1>2 DEF Masked
  <2>3. IsMasked(t, c, m, other) <=> IsMasked(t, c, new, other)
    BY <2>1 DEF IsMasked
  <2>4. other \in ws \ {write} <=> other \in ws
    BY <1>2
  <2> QED BY <2>1, <2>2, <2>3, <2>4
<1> QED BY <1>1, <1>2 DEF Masked

LEMMA FillMasks ==
  ASSUME IInv, MaskInv, NEW s \in Stream, NEW write, NEW new, Fill(s, write, new),
         FilledIn(type[s], message[s], write, new),
         IsUpdate(type[s], write) => IsMasked(type[s], sent[s], new, write)
  PROVE  MaskInv'
<1>1. /\ pc[s] = "fill" /\ pc' = pc /\ type' = type /\ sent' = sent
      /\ message' = [message EXCEPT ![s] = new] /\ writes' = [writes EXCEPT ![s] = @ \ {write}]
      /\ write \in writes[s]
  BY DEF Fill, Visits
<1>2. Typed /\ Good(s)
  BY DEF IInv
<1>3. Frame(s) /\ message'[s] = new /\ writes'[s] = writes[s] \ {write}
  BY <1>1, <1>2 DEF Frame, Typed
<1>4. /\ type[s] \in Type /\ DOMAIN message[s] \subseteq Location
      /\ write \in ResourceWrites(type[s], message[s])
  BY <1>1, Visited
<1>5. type[s] # NoType /\ GoodMasks(s)
  BY <1>1, <1>2 DEF Good, MaskInv
<1>6. Masked(type[s], sent[s], message[s], writes[s])
  BY <1>1, <1>5 DEF GoodMasks, ToFill
<1>7. Masked(type[s], sent[s], new, writes[s] \ {write})
  BY <1>1, <1>4, <1>6, VisitMasks
<1>8. GoodMasks(s)'
  BY <1>1, <1>3, <1>7 DEF GoodMasks, ToFill
<1> QED BY <1>3, <1>8, MasksOf

\* The id of a create is no mask.
LEMMA IDMasks ==
  ASSUME IInv, MaskInv, NEW s \in Stream, NEW write, MintID(s, write) \/ KeepID(s, write)
  PROVE  MaskInv'
<1>1. CASE MintID(s, write)
  <2> DEFINE new == SetID(type[s], message[s], write, NewV7)
  <2>1. ~IsUpdate(type[s], write) /\ Fill(s, write, new)
    BY <1>1 DEF MintID
  <2>2. FilledIn(type[s], message[s], write, new)
    BY DEF FilledIn, SetID, Filling
  <2> HIDE DEF new
  <2> QED BY <2>1, <2>2, FillMasks
<1>2. CASE KeepID(s, write)
  <2>1. ~IsUpdate(type[s], write) /\ Fill(s, write, message[s])
    BY <1>2 DEF KeepID
  <2>2. FilledIn(type[s], message[s], write, message[s])
    BY DEF FilledIn
  <2> QED BY <2>1, <2>2, FillMasks
<1> QED BY <1>1, <1>2

\* What the loop finds at the update it visits: the mask as the client sent it,
\* and of the resource the writable fields the client set.
LEMMA VisitedUpdate ==
  ASSUME IInv, MaskInv, NEW s \in Stream, pc[s] = "fill", NEW write \in writes[s],
         IsUpdate(type[s], write)
  PROVE  /\ Mask(type[s], message[s], write) = Mask(type[s], sent[s], write)
         /\ ResourceType(write) \in Type
         /\ \A f \in FieldsOf(ResourceType(write)) : isWritable(f) =>
              (Has(Resource(message[s], write), <<>>, f) <=> Has(DOMAIN sent[s], ResourceAt(write), f))
<1>1. /\ type[s] \in Type /\ DOMAIN message[s] \subseteq Location
      /\ write \in ResourceWrites(type[s], message[s])
  BY Visited
<1>2. type[s] # NoType /\ GoodMessage("fill", type[s], sent[s], message[s], writes[s])
  BY DEF IInv, Good
<1>3. GoodMasks(s)
  BY DEF MaskInv
<1>4. Masked(type[s], sent[s], message[s], writes[s])
  BY <1>2, <1>3 DEF GoodMasks, ToFill
<1>5. Mask(type[s], message[s], write) = Mask(type[s], sent[s], write)
  BY <1>1, <1>4 DEF Masked
<1>6. /\ DOMAIN sent[s] \subseteq Location /\ WithoutServers(message[s])
      /\ Kept(type[s], sent[s], message[s])
  BY <1>2, Known DEF GoodMessage
<1>7. IsResource(write.field) /\ ResourceAt(write) \in Location
  BY <1>1, WriteFacts
<1>8. ResourceType(write) \in Type
  BY <1>7, RequestAssumption DEF IsResource, ResourceType
<1>9. ASSUME NEW f \in FieldsOf(ResourceType(write)), isWritable(f)
      PROVE  Has(Resource(message[s], write), <<>>, f) <=> Has(DOMAIN sent[s], ResourceAt(write), f)
  <2>1. f \in Field
    BY <1>8, FieldsAreFields
  <2>2. Has(Resource(message[s], write), <<>>, f) <=> Has(DOMAIN message[s], ResourceAt(write), f)
    BY <1>1, <1>7, <2>1, HasOfResource
  <2>3. Has(DOMAIN message[s], ResourceAt(write), f) <=> Has(DOMAIN sent[s], ResourceAt(write), f)
    BY <1>1, <1>6, <1>9, <2>1, WritableAsSent
  <2> QED BY <2>2, <2>3
<1> QED BY <1>5, <1>8, <1>9

LEMMA SetMaskMasks ==
  ASSUME IInv, MaskInv, NEW s \in Stream, NEW write, IsUpdate(type[s], write), NEW mask, IsPaths(mask),
         Fill(s, write, SetMask(type[s], message[s], write, mask)),
         Mask(type[s], sent[s], write) = <<>> =>
           ToSet(mask) = {<<Name[f]>> : f \in {g \in FieldsOf(ResourceType(write)) :
                            isWritable(g) /\ Has(DOMAIN sent[s], ResourceAt(write), g)}},
         Mask(type[s], sent[s], write) # <<>> =>
           mask = ClearFieldMask(ResourceType(write), OutputOnly, Mask(type[s], sent[s], write))
  PROVE  MaskInv'
<1> DEFINE new == SetMask(type[s], message[s], write, mask)
<1>1. FilledIn(type[s], message[s], write, new)
  BY DEF FilledIn, SetMask, Filling
<1>2. pc[s] = "fill" /\ write \in writes[s]
  BY DEF Fill, Visits
<1>3. /\ type[s] \in Type /\ DOMAIN message[s] \subseteq Location
      /\ write \in ResourceWrites(type[s], message[s])
  BY <1>2, Visited
<1>4. Mask(type[s], new, write) = mask
  BY <1>3, SetMaskIs
<1>5. Fill(s, write, new)
  OBVIOUS
<1> HIDE DEF new
<1>6. IsMasked(type[s], sent[s], new, write)
  BY <1>4 DEF IsMasked
<1> QED BY <1>1, <1>5, <1>6, FillMasks

LEMMA ImplyMaskMasks ==
  ASSUME IInv, MaskInv, NEW s \in Stream, NEW write, ImplyMask(s, write)
  PROVE  MaskInv'
<1> DEFINE T       == ResourceType(write)
           implied == ImpliedFieldMask(T, Resource(message[s], write))
<1>1. /\ IsUpdate(type[s], write) /\ Mask(type[s], message[s], write) = <<>>
      /\ Fill(s, write, SetMask(type[s], message[s], write, implied))
  BY DEF ImplyMask
<1>2. pc[s] = "fill" /\ write \in writes[s]
  BY <1>1 DEF Fill, Visits
<1>3. /\ Mask(type[s], message[s], write) = Mask(type[s], sent[s], write)
      /\ T \in Type
      /\ \A f \in FieldsOf(T) : isWritable(f) =>
           (Has(Resource(message[s], write), <<>>, f) <=> Has(DOMAIN sent[s], ResourceAt(write), f))
  BY <1>1, <1>2, VisitedUpdate
<1>4. ToSet(implied) = {<<Name[f]>> : f \in {g \in FieldsOf(T) :
                          isWritable(g) /\ Has(Resource(message[s], write), <<>>, g)}}
  BY <1>3, ImpliedPaths
<1>7. IsPaths(implied)
  <2> DEFINE ones == {path \in Seq(STRING) : Len(path) = 1}
  <2>1. implied \in Seq(ones)
    BY <1>3, ImpliedMaskType
  <2>2. ones \subseteq Seq(STRING)
    OBVIOUS
  <2> HIDE DEF ones, implied
  <2> QED BY <2>1, <2>2, SeqMonotonic DEF IsPaths
<1> HIDE DEF implied
<1>5. {g \in FieldsOf(T) : isWritable(g) /\ Has(Resource(message[s], write), <<>>, g)}
      = {g \in FieldsOf(T) : isWritable(g) /\ Has(DOMAIN sent[s], ResourceAt(write), g)}
  BY <1>3
<1>6. ToSet(implied) = {<<Name[f]>> : f \in {g \in FieldsOf(T) :
                          isWritable(g) /\ Has(DOMAIN sent[s], ResourceAt(write), g)}}
  BY <1>4, <1>5
<1> QED BY <1>1, <1>3, <1>6, <1>7, SetMaskMasks

LEMMA FilterMaskMasks ==
  ASSUME IInv, MaskInv, NEW s \in Stream, NEW write, FilterMask(s, write)
  PROVE  MaskInv'
<1> DEFINE filtered == ClearFieldMask(ResourceType(write), OutputOnly, Mask(type[s], message[s], write))
<1>1. /\ IsUpdate(type[s], write) /\ Mask(type[s], message[s], write) # <<>>
      /\ Fill(s, write, SetMask(type[s], message[s], write, filtered))
  BY DEF FilterMask
<1>2. pc[s] = "fill" /\ write \in writes[s]
  BY <1>1 DEF Fill, Visits
<1>3. Mask(type[s], message[s], write) = Mask(type[s], sent[s], write)
  BY <1>1, <1>2, VisitedUpdate
<1>4. filtered = ClearFieldMask(ResourceType(write), OutputOnly, Mask(type[s], sent[s], write))
  BY <1>3
<1>5. IsPaths(Mask(type[s], message[s], write))
  <2>1. Good(s) /\ write \in ResourceWrites(type[s], message[s])
    BY <1>2, Visited DEF IInv
  <2>2. type[s] # NoType
    BY <1>2, <2>1 DEF Good
  <2> QED BY <1>1, <1>2, <1>3, <2>1, <2>2, PathsAsSent
<1>6. IsPaths(filtered)
  BY <1>5, ClearedMaskPaths
<1> HIDE DEF filtered
<1> QED BY <1>1, <1>3, <1>4, <1>6, SetMaskMasks

\* The rest of Receive leaves the message as it is.
LEMMA RestMasks ==
  ASSUME IInv, MaskInv, NEW s \in Stream,
         \/ EndFill(s) \/ RulesFail(s) \/ CheckRules(s) \/ Answer(s)
         \/ \E write \in writes[s] : CheckRequired(s, write)
  PROVE  MaskInv'
<1>1. Typed
  BY DEF IInv
<1>2. /\ pc[s] # "clear" /\ Frame(s)
      /\ type'[s] = type[s] /\ sent'[s] = sent[s] /\ message'[s] = message[s]
      /\ ToFill(pc'[s], writes'[s]) = ToFill(pc[s], writes[s])
  <2>1. CASE EndFill(s)
    BY <1>1, <2>1 DEF EndFill, Typed, Frame, ToFill
  <2>2. CASE RulesFail(s)
    BY <1>1, <2>2 DEF RulesFail, Typed, Frame, ToFill
  <2>3. CASE CheckRules(s)
    BY <1>1, <2>3 DEF CheckRules, Typed, Frame, ToFill
  <2>4. CASE Answer(s)
    BY <1>1, <2>4 DEF Answer, Typed, Frame, ToFill
  <2>5. ASSUME NEW write \in writes[s], CheckRequired(s, write)
        PROVE  /\ pc[s] # "clear" /\ Frame(s)
               /\ type'[s] = type[s] /\ sent'[s] = sent[s] /\ message'[s] = message[s]
               /\ ToFill(pc'[s], writes'[s]) = ToFill(pc[s], writes[s])
    BY <1>1, <2>5 DEF CheckRequired, Visits, Typed, Frame, ToFill
  <2> QED BY <2>1, <2>2, <2>3, <2>4, <2>5
<1>3. GoodMasks(s)
  BY DEF MaskInv
<1>4. GoodMasks(s)'
  BY <1>2, <1>3 DEF GoodMasks
<1> QED BY <1>2, <1>4, MasksOf

LEMMA ReadMasks ==
  ASSUME IInv, MaskInv, NEW s \in Stream,
         \/ \E t \in DOMAIN Requests : \E m \in Requests[t] : Read(s, t, m)
         \/ \E code \in {"ok", "read"} : ReadNothing(s, code)
  PROVE  MaskInv'
<1>1. Typed
  BY DEF IInv
<1>2. ASSUME NEW t \in DOMAIN Requests, NEW m \in Requests[t], Read(s, t, m)
      PROVE  MaskInv'
  <2>1. Frame(s) /\ pc'[s] = "clear"
    BY <1>1, <1>2 DEF Read, Typed, Frame
  <2>2. GoodMasks(s)'
    BY <2>1 DEF GoodMasks
  <2> QED BY <2>1, <2>2, MasksOf
<1>3. ASSUME NEW code, ReadNothing(s, code)
      PROVE  MaskInv'
  <2>1. Frame(s) /\ type'[s] = NoType
    BY <1>1, <1>3 DEF ReadNothing, Typed, Frame
  <2>2. GoodMasks(s)'
    BY <2>1 DEF GoodMasks
  <2> QED BY <2>1, <2>2, MasksOf
<1> QED BY <1>2, <1>3

LEMMA InitMasks == Init => MaskInv
  BY DEF Init, MaskInv, GoodMasks

LEMMA NextMasks == IInv /\ MaskInv /\ [Next]_vars => MaskInv'
<1>1. SUFFICES ASSUME IInv, MaskInv, [Next]_vars PROVE MaskInv'
  OBVIOUS
<1>2. CASE UNCHANGED vars
  BY <1>1, <1>2 DEF vars, MaskInv, GoodMasks
<1>3. CASE Next
  <2>1. PICK s \in Stream : \/ \E t \in DOMAIN Requests : \E m \in Requests[t] : Read(s, t, m)
                            \/ \E code \in {"ok", "read"} : ReadNothing(s, code)
                            \/ Proceed(s)
    BY <1>3 DEF Next
  <2>2. CASE \/ \E t \in DOMAIN Requests : \E m \in Requests[t] : Read(s, t, m)
             \/ \E code \in {"ok", "read"} : ReadNothing(s, code)
    BY <1>1, <2>2, ReadMasks
  <2>3. CASE Clear(s)
    BY <1>1, <2>3, ClearMasks
  <2>4. ASSUME NEW write \in writes[s],
               MintID(s, write) \/ KeepID(s, write) \/ ImplyMask(s, write) \/ FilterMask(s, write)
        PROVE  MaskInv'
    BY <1>1, <2>4, IDMasks, ImplyMaskMasks, FilterMaskMasks
  <2>5. CASE \/ EndFill(s) \/ RulesFail(s) \/ CheckRules(s) \/ Answer(s)
             \/ \E write \in writes[s] : CheckRequired(s, write)
    BY <1>1, <2>5, RestMasks
  <2> QED BY <2>1, <2>2, <2>3, <2>4, <2>5 DEF Proceed
<1> QED BY <1>1, <1>2, <1>3

----------------------------------------------------------------------------
(* The theorems on masks.                                                  *)

\* The masks of a message a Receive is done with are what Receive makes of those
\* the client sent, and those it has still to come to are as they were sent.
THEOREM MaskInvariant == Spec => [](IInv /\ MaskInv)
<1>1. Init => IInv /\ MaskInv
  BY InitIInv, InitMasks
<1>2. IInv /\ MaskInv /\ [Next]_vars => (IInv /\ MaskInv)'
  BY NextIInv, NextMasks
<1> QED BY <1>1, <1>2, PTL DEF Spec

\* NoServersValueArrives of a state of the invariant.
LEMMA NoValueArrives ==
  ASSUME IInv
  PROVE  NoServersValueArrives
<1>1. ASSUME NEW s \in Stream, Delivered(s) PROVE WithoutServers(message[s])
  BY <1>1 DEF Delivered, Returned, IInv, Good, GoodMessage
<1> QED BY <1>1 DEF NoServersValueArrives, WithoutServers

\* What an update a handler gets writes, and what its client asked for.
LEMMA DeliveredUpdate ==
  ASSUME IInv, MaskInv, NEW s \in Stream, Delivered(s), NEW write \in Updates(s)
  PROVE  /\ IsMasked(type[s], sent[s], message[s], write)
         /\ IsPaths(Mask(type[s], sent[s], write))
         /\ ResourceType(write) \in Type
<1>1. /\ type[s] # NoType /\ pc[s] = "idle"
      /\ write \in ResourceWrites(type[s], message[s]) /\ IsUpdate(type[s], write)
  BY DEF Delivered, Returned, Updates
<1>2. GoodMessage("idle", type[s], sent[s], message[s], writes[s]) /\ GoodMasks(s)
  BY <1>1 DEF IInv, Good, MaskInv
<1>3. IsMasked(type[s], sent[s], message[s], write)
  BY <1>1, <1>2 DEF GoodMasks, ToFill, Masked
<1>4. /\ type[s] \in DOMAIN Requests /\ sent[s] \in Requests[type[s]]
      /\ type[s] \in Type /\ DOMAIN message[s] \subseteq Location /\ DOMAIN sent[s] \subseteq Location
      /\ WithoutServers(message[s]) /\ Kept(type[s], sent[s], message[s])
  BY <1>2, Known DEF GoodMessage
<1>5. IsPaths(Mask(type[s], sent[s], write))
  BY <1>1, PathsAsSent
<1>6. ResourceType(write) \in Type
  BY <1>1, <1>4, WriteFacts, RequestAssumption DEF IsResource, ResourceType
<1> QED BY <1>3, <1>5, <1>6

LEMMA EmptyMask ==
  ASSUME NEW mask, IsPaths(mask)
  PROVE  ToSet(mask) = {} <=> mask = <<>>
<1>1. mask \in Seq(ToSet(mask))
  BY SeqOfItsElements DEF IsPaths
<1>2. ToSet(<<>>) = {}
  BY DEF ToSet
<1>3. ASSUME ToSet(mask) = {} PROVE mask = <<>>
  <2>1. mask \in Seq({})
    BY <1>1, <1>3
  <2> QED BY <2>1
<1> QED BY <1>2, <1>3

\* Nothing of the server's reaches a handler, neither a value that is OUTPUT_ONLY
\* nor a mask that would write one, in any entry of any request.
THEOREM NeitherValueNorMaskArrives == Spec => []NothingOfTheServersArrives
<1>1. IInv /\ MaskInv => NothingOfTheServersArrives
  <2>1. SUFFICES ASSUME IInv, MaskInv PROVE NothingOfTheServersArrives
    OBVIOUS
  <2>2. NoServersValueArrives
    BY <2>1, NoValueArrives
  <2>3. ASSUME NEW s \in Stream, Delivered(s), NEW write \in Updates(s),
               NEW path \in ToSet(Mask(type[s], message[s], write))
        PROVE  ~NamesKind(ResourceType(write), OutputOnly, path)
    <3>1. /\ IsMasked(type[s], sent[s], message[s], write)
          /\ IsPaths(Mask(type[s], sent[s], write))
          /\ ResourceType(write) \in Type
      BY <2>1, <2>3, DeliveredUpdate
    <3>2. CASE Mask(type[s], sent[s], write) = <<>>
      <4>1. PICK f \in FieldsOf(ResourceType(write)) : isWritable(f) /\ path = <<Name[f]>>
        BY <2>3, <3>1, <3>2 DEF IsMasked
      <4>2. ~HasKind(f, OutputOnly)
        BY <4>1 DEF isWritable, HasAnyKind
      <4> QED BY <3>1, <4>1, <4>2, NamesOneField
    <3>3. CASE Mask(type[s], sent[s], write) # <<>>
      <4>1. Mask(type[s], message[s], write)
            = ClearFieldMask(ResourceType(write), OutputOnly, Mask(type[s], sent[s], write))
        BY <3>1, <3>3 DEF IsMasked
      <4> QED BY <2>3, <3>1, <4>1, ClearedMaskPaths
    <3> QED BY <3>2, <3>3
  <2> QED BY <2>2, <2>3 DEF NothingOfTheServersArrives
<1> QED BY <1>1, MaskInvariant, PTL

\* An update writes what its client asked for: the paths it named but for those
\* that are the server's, or, when it named none, the fields it set and may write.
THEOREM UpdatesWriteTheirMasks == Spec => []UpdatesWriteWhatWasAsked
<1>1. IInv /\ MaskInv => UpdatesWriteWhatWasAsked
  <2>1. SUFFICES ASSUME IInv, MaskInv, NEW s \in Stream, Delivered(s), NEW write \in Updates(s)
                 PROVE  LET asked == ToSet(Mask(type[s], sent[s], write))
                            given == ToSet(Mask(type[s], message[s], write))
                        IN /\ asked # {} =>
                                /\ given \subseteq asked
                                /\ \A path \in asked \ given : NamesKind(ResourceType(write), OutputOnly, path)
                           /\ asked = {} =>
                                given = {<<Name[f]>> : f \in {g \in FieldsOf(ResourceType(write)) :
                                           isWritable(g) /\ Has(DOMAIN sent[s], ResourceAt(write), g)}}
    BY DEF UpdatesWriteWhatWasAsked
  <2> DEFINE asked == Mask(type[s], sent[s], write)
             given == Mask(type[s], message[s], write)
  <2>2. /\ IsMasked(type[s], sent[s], message[s], write)
        /\ IsPaths(asked)
    BY <2>1, DeliveredUpdate
  <2>3. ToSet(asked) = {} <=> asked = <<>>
    BY <2>2, EmptyMask
  <2>4. CASE asked = <<>>
    BY <2>2, <2>3, <2>4 DEF IsMasked
  <2>5. CASE asked # <<>>
    <3>1. given = ClearFieldMask(ResourceType(write), OutputOnly, asked)
      BY <2>2, <2>5 DEF IsMasked
    <3>2. ToSet(given) = {path \in ToSet(asked) : ~NamesKind(ResourceType(write), OutputOnly, path)}
      BY <2>2, <3>1, ClearedMaskPaths
    <3> QED BY <2>3, <2>5, <3>2
  <2> QED BY <2>4, <2>5
<1> QED BY <1>1, MaskInvariant, PTL

----------------------------------------------------------------------------
(* Lists of violations.                                                    *)

\* A finite set, as a list.
LEMMA ListingOf ==
  ASSUME NEW S, IsFiniteSet(S)
  PROVE  SetToSeq(S) \in Seq(S) /\ ToSet(SetToSeq(S)) = S /\ ~Repeats(SetToSeq(S))
<1> DEFINE n == Cardinality(S)
           list == SetToSeq(S)
<1>1. n \in Nat /\ ExistsBijection(1 .. n, S)
  BY FS_CardinalityType
<1>2. \E f \in [1 .. n -> S] : IsInjective(f)
  BY <1>1 DEF ExistsBijection, Bijection, Injection
<1>3. list \in [1 .. n -> S] /\ IsInjective(list)
  BY <1>2 DEF SetToSeq
<1>4. IsFiniteSet(1 .. n) /\ Cardinality(1 .. n) = n
  BY <1>1, FS_Interval
<1> HIDE DEF list
<1>5. list \in Injection(1 .. n, S)
  BY <1>3 DEF Injection
<1>6. list \in Surjection(1 .. n, S)
  BY <1>4, <1>5, FS_Injection
<1>7. list \in Seq(S) /\ DOMAIN list = 1 .. n
  BY <1>1, <1>3
<1>8. ToSet(list) = S
  <2>1. \A x \in S : \E i \in 1 .. n : list[i] = x
    BY <1>6 DEF Surjection
  <2>2. \A i \in 1 .. n : list[i] \in S
    BY <1>3
  <2> QED BY <1>7, <2>1, <2>2 DEF ToSet
<1>9. ~Repeats(list)
  BY <1>3 DEF IsInjective, Repeats
<1> QED BY <1>7, <1>8, <1>9 DEF list

LEMMA Concatenation ==
  ASSUME NEW S, NEW a \in Seq(S), NEW b \in Seq(S)
  PROVE  /\ a \o b \in Seq(S) /\ ToSet(a \o b) = ToSet(a) \cup ToSet(b)
         /\ ~Repeats(a) /\ ~Repeats(b) /\ ToSet(a) \cap ToSet(b) = {} => ~Repeats(a \o b)
<1> DEFINE c == a \o b
<1>1. /\ c \in Seq(S) /\ Len(c) = Len(a) + Len(b)
      /\ \A i \in 1 .. Len(a) + Len(b) : c[i] = IF i <= Len(a) THEN a[i] ELSE b[i - Len(a)]
  BY ConcatProperties
<1>2. /\ Len(a) \in Nat /\ Len(b) \in Nat
      /\ DOMAIN a = 1 .. Len(a) /\ DOMAIN b = 1 .. Len(b) /\ DOMAIN c = 1 .. Len(a) + Len(b)
  BY <1>1
<1> HIDE DEF c
<1>3. \A i \in DOMAIN c : \/ i \in DOMAIN a /\ c[i] = a[i]
                          \/ i > Len(a) /\ i - Len(a) \in DOMAIN b /\ c[i] = b[i - Len(a)]
  BY <1>1, <1>2
<1>4. \A i \in DOMAIN a : i \in DOMAIN c /\ c[i] = a[i]
  BY <1>1, <1>2
<1>5. ASSUME NEW i \in DOMAIN b PROVE i + Len(a) \in DOMAIN c /\ c[i + Len(a)] = b[i]
  <2>1. i + Len(a) \in 1 .. Len(a) + Len(b) /\ ~(i + Len(a) <= Len(a)) /\ (i + Len(a)) - Len(a) = i
    BY <1>2
  <2> QED BY <1>1, <1>2, <2>1
<1>6. ToSet(c) = ToSet(a) \cup ToSet(b)
  <2>1. \A i \in DOMAIN c : c[i] \in ToSet(a) \cup ToSet(b)
    BY <1>3 DEF ToSet
  <2>2. \A i \in DOMAIN a : a[i] \in ToSet(c)
    BY <1>4 DEF ToSet
  <2>3. \A i \in DOMAIN b : b[i] \in ToSet(c)
    BY <1>5 DEF ToSet
  <2> QED BY <2>1, <2>2, <2>3 DEF ToSet
<1>7. ASSUME ~Repeats(a), ~Repeats(b), ToSet(a) \cap ToSet(b) = {} PROVE ~Repeats(c)
  <2>1. SUFFICES ASSUME NEW i \in DOMAIN c, NEW j \in DOMAIN c, c[i] = c[j] PROVE i = j
    BY DEF Repeats
  <2>2. \A k \in DOMAIN a, l \in DOMAIN b : a[k] # b[l]
    BY <1>7 DEF ToSet
  <2>3. CASE i \in DOMAIN a /\ j \in DOMAIN a
    BY <1>4, <1>7, <2>1, <2>3 DEF Repeats
  <2>4. CASE i \in DOMAIN a /\ j \notin DOMAIN a
    BY <1>3, <1>4, <2>1, <2>2, <2>4
  <2>5. CASE i \notin DOMAIN a /\ j \in DOMAIN a
    BY <1>3, <1>4, <2>1, <2>2, <2>5
  <2>6. CASE i \notin DOMAIN a /\ j \notin DOMAIN a
    <3>1. /\ i - Len(a) \in DOMAIN b /\ c[i] = b[i - Len(a)]
          /\ j - Len(a) \in DOMAIN b /\ c[j] = b[j - Len(a)]
      BY <1>3, <2>1, <2>6
    <3>2. i - Len(a) = j - Len(a)
      BY <1>7, <2>1, <3>1 DEF Repeats
    <3> QED BY <1>2, <3>2
  <2> QED BY <2>3, <2>4, <2>5, <2>6
<1> QED BY <1>1, <1>6, <1>7 DEF c

\* What a function is that Size's recursion defines, and that there is one.
IsSumming(g, c, n) == g = [i \in 0 .. n |-> IF i = 0 THEN 0 ELSE g[i - 1] + Len(c[i])]

LEMMA SummingExists ==
  ASSUME NEW c, NEW n \in Nat
  PROVE  \E g : IsSumming(g, c, n)
<1> DEFINE N == {k \in Nat : \E g : IsSumming(g, c, k)}
<1>1. 0 \in N
  <2> DEFINE g == [i \in 0 .. 0 |-> 0]
  <2>1. IsSumming(g, c, 0)
    BY DEF IsSumming
  <2> QED BY <2>1
<1>2. ASSUME NEW k \in Nat, k \in N PROVE k + 1 \in N
  <2>1. PICK g : IsSumming(g, c, k)
    BY <1>2
  <2>2. \A i \in 0 .. k : g[i] = IF i = 0 THEN 0 ELSE g[i - 1] + Len(c[i])
    BY <2>1 DEF IsSumming
  <2> DEFINE h == [i \in 0 .. k + 1 |-> IF i <= k THEN g[i] ELSE g[i - 1] + Len(c[i])]
  <2>3. h[0] = 0
    BY <2>2
  <2>4. ASSUME NEW i \in 1 .. k + 1 PROVE h[i] = h[i - 1] + Len(c[i])
    <3>1. i - 1 \in 0 .. k /\ h[i - 1] = g[i - 1] /\ i # 0
      OBVIOUS
    <3>2. CASE i <= k
      BY <2>2, <3>1, <3>2
    <3>3. CASE ~(i <= k)
      BY <3>1, <3>3
    <3> QED BY <3>2, <3>3
  <2>5. \A i \in 0 .. k + 1 : i # 0 => i \in 1 .. k + 1
    OBVIOUS
  <2>6. h = [i \in 0 .. k + 1 |-> h[i]]
    OBVIOUS
  <2> HIDE DEF h
  <2>7. IsSumming(h, c, k + 1)
    BY <2>3, <2>4, <2>5, <2>6 DEF IsSumming
  <2> QED BY <2>7
<1>3. Nat \subseteq N
  <2> HIDE DEF N
  <2> QED BY <1>1, <1>2, SetInduction
<1> QED BY <1>3

LEMMA SizeIs ==
  ASSUME NEW S, NEW found \in Seq(Seq(S))
  PROVE  Size(found) \in Nat /\ Size(<<>>) = 0
<1>1. ASSUME NEW c \in Seq(Seq(S)) PROVE Size(c) \in Nat /\ (Len(c) = 0 => Size(c) = 0)
  <2> DEFINE n == Len(c)
             sum == CHOOSE g : IsSumming(g, c, n)
  <2>1. n \in Nat /\ \A i \in 1 .. n : Len(c[i]) \in Nat
    BY <1>1
  <2>2. IsSumming(sum, c, n)
    BY <2>1, SummingExists
  <2>3. Size(c) = sum[n]
    BY DEF Size, IsSumming
  <2> HIDE DEF sum
  <2>4. \A i \in 0 .. n : sum[i] = IF i = 0 THEN 0 ELSE sum[i - 1] + Len(c[i])
    BY <2>2 DEF IsSumming
  <2> DEFINE N == {i \in Nat : i <= n => sum[i] \in Nat}
  <2>5. 0 \in N /\ sum[0] = 0
    BY <2>1, <2>4
  <2>6. ASSUME NEW i \in Nat, i \in N PROVE i + 1 \in N
    <3>1. SUFFICES ASSUME i + 1 <= n PROVE sum[i + 1] \in Nat
      OBVIOUS
    <3>2. i + 1 \in 0 .. n /\ i + 1 # 0 /\ (i + 1) - 1 = i /\ i + 1 \in 1 .. n /\ i <= n
      BY <2>1, <3>1
    <3>3. sum[i + 1] = sum[i] + Len(c[i + 1])
      BY <2>4, <3>2
    <3>4. sum[i] \in Nat /\ Len(c[i + 1]) \in Nat
      BY <2>1, <2>6, <3>2
    <3> QED BY <3>3, <3>4
  <2>7. Nat \subseteq N
    <3> HIDE DEF N
    <3> QED BY <2>5, <2>6, SetInduction
  <2>8. sum[n] \in Nat
    BY <2>1, <2>7
  <2> QED BY <2>3, <2>5, <2>8
<1>2. <<>> \in Seq(Seq(S)) /\ Len(<<>>) = 0
  BY EmptySeq
<1> QED BY <1>1, <1>2

\* What comes of a loop that has held j violations before it comes to the i-th.
HeldAt(found, i, j) ==
  IF j = i - 1 /\ Size(SubSeq(found, 1, i)) <= maxBadRequestBytes THEN i ELSE j

IsFitting(g, found, n) == g = [i \in 0 .. n |-> IF i = 0 THEN 0 ELSE HeldAt(found, i, g[i - 1])]

LEMMA FittingExists ==
  ASSUME NEW found, NEW n \in Nat
  PROVE  \E g : IsFitting(g, found, n)
<1> DEFINE N == {k \in Nat : \E g : IsFitting(g, found, k)}
<1>1. 0 \in N
  <2> DEFINE g == [i \in 0 .. 0 |-> 0]
  <2>1. IsFitting(g, found, 0)
    BY DEF IsFitting
  <2> QED BY <2>1
<1>2. ASSUME NEW k \in Nat, k \in N PROVE k + 1 \in N
  <2>1. PICK g : IsFitting(g, found, k)
    BY <1>2
  <2>2. \A i \in 0 .. k : g[i] = IF i = 0 THEN 0 ELSE HeldAt(found, i, g[i - 1])
    BY <2>1 DEF IsFitting
  <2> DEFINE h == [i \in 0 .. k + 1 |-> IF i <= k THEN g[i] ELSE HeldAt(found, i, g[i - 1])]
  <2>3. h[0] = 0
    BY <2>2
  <2>4. ASSUME NEW i \in 1 .. k + 1 PROVE h[i] = HeldAt(found, i, h[i - 1])
    <3>1. i - 1 \in 0 .. k /\ h[i - 1] = g[i - 1] /\ i # 0
      OBVIOUS
    <3>2. CASE i <= k
      BY <2>2, <3>1, <3>2
    <3>3. CASE ~(i <= k)
      BY <3>1, <3>3
    <3> QED BY <3>2, <3>3
  <2>5. \A i \in 0 .. k + 1 : i # 0 => i \in 1 .. k + 1
    OBVIOUS
  <2>6. h = [i \in 0 .. k + 1 |-> h[i]]
    OBVIOUS
  <2> HIDE DEF h
  <2>7. IsFitting(h, found, k + 1)
    BY <2>3, <2>4, <2>5, <2>6 DEF IsFitting
  <2> QED BY <2>7
<1>3. Nat \subseteq N
  <2> HIDE DEF N
  <2> QED BY <1>1, <1>2, SetInduction
<1> QED BY <1>3

\* The loop holds as many of the violations it has come to as fit, one by one.
LEMMA FittingHolds ==
  ASSUME NEW S, NEW found \in Seq(Seq(S)), NEW n \in 0 .. Len(found)
  PROVE  LET k == fitting(found)[n]
         IN /\ k \in 0 .. n
            /\ Size(SubSeq(found, 1, k)) <= maxBadRequestBytes
            /\ k < n => ~(Size(SubSeq(found, 1, k + 1)) <= maxBadRequestBytes)
<1> DEFINE m == Len(found)
           held == CHOOSE g : IsFitting(g, found, m)
           Fits(i) == Size(SubSeq(found, 1, i)) <= maxBadRequestBytes
           IsHeld(i, k) == k \in 0 .. i /\ Fits(k) /\ (k < i => ~Fits(k + 1))
           N == {i \in Nat : i <= m => IsHeld(i, held[i])}
<1>1. m \in Nat
  OBVIOUS
<1>2. IsFitting(held, found, m)
  BY <1>1, FittingExists
<1>3. fitting(found) = held
  BY DEF fitting, IsFitting, HeldAt
<1> HIDE DEF held
<1>4. \A i \in 0 .. m : held[i] = IF i = 0 THEN 0 ELSE HeldAt(found, i, held[i - 1])
  BY <1>2 DEF IsFitting
<1>5. Fits(0)
  <2>1. SubSeq(found, 1, 0) = <<>>
    OBVIOUS
  <2>2. Size(<<>>) = 0 /\ maxBadRequestBytes \in Nat
    BY SizeIs, StreamAssumption
  <2> DEFINE none == SubSeq(found, 1, 0)
  <2> HIDE DEF none
  <2>3. Size(none) = Size(<<>>)
    BY <2>1, Zenon DEF none
  <2>4. Size(none) <= maxBadRequestBytes
    BY <2>2, <2>3
  <2> QED BY <2>4 DEF none
<1>6. 0 \in N
  BY <1>1, <1>4, <1>5
<1>7. ASSUME NEW i \in Nat, i \in N PROVE i + 1 \in N
  <2>1. SUFFICES ASSUME i + 1 <= m PROVE IsHeld(i + 1, held[i + 1])
    OBVIOUS
  <2>2. i + 1 \in 0 .. m /\ i + 1 # 0 /\ (i + 1) - 1 = i /\ i <= m
    BY <1>1, <2>1
  <2>3. held[i + 1] = IF held[i] = i /\ Fits(i + 1) THEN i + 1 ELSE held[i]
    BY <1>4, <2>2 DEF HeldAt
  <2>4. IsHeld(i, held[i])
    BY <1>7, <2>2
  <2> HIDE DEF Fits, m
  <2>5. CASE held[i] = i /\ Fits(i + 1)
    BY <2>3, <2>5
  <2>6. CASE held[i] # i
    BY <2>3, <2>4, <2>6
  <2>7. CASE held[i] = i /\ ~Fits(i + 1)
    BY <2>3, <2>4, <2>7
  <2> QED BY <2>5, <2>6, <2>7
<1>8. Nat \subseteq N
  <2> HIDE DEF N
  <2> QED BY <1>6, <1>7, SetInduction
<1>9. IsHeld(n, held[n])
  BY <1>1, <1>8
<1> QED BY <1>3, <1>9

\* The BadRequest of a list of violations.
LEMMA BadRequestIs ==
  ASSUME NEW S, NEW found \in Seq(Seq(S))
  PROVE  LET held == badRequest(found)
         IN /\ IsPrefix(held, found)
            /\ Size(held) <= maxBadRequestBytes
            /\ held # found => Size(SubSeq(found, 1, Len(held) + 1)) > maxBadRequestBytes
<1> DEFINE n == Len(found)
           k == fitting(found)[n]
           held == badRequest(found)
<1>1. n \in Nat /\ n \in 0 .. n
  OBVIOUS
<1>2. /\ k \in 0 .. n
      /\ Size(SubSeq(found, 1, k)) <= maxBadRequestBytes
      /\ k < n => ~(Size(SubSeq(found, 1, k + 1)) <= maxBadRequestBytes)
  BY <1>1, FittingHolds
<1>3. held = SubSeq(found, 1, k)
  BY DEF badRequest
<1> HIDE DEF k, held
<1>4. held \in Seq(Seq(S)) /\ Len(held) = k /\ \A i \in 1 .. k : held[i] = found[i]
  BY <1>2, <1>3
<1>5. IsPrefix(held, found)
  <2>1. Len(held) <= Len(found)
    BY <1>1, <1>2, <1>4
  <2>2. SubSeq(held, 1, Len(held)) = held
    BY <1>4
  <2>3. SubSeq(found, 1, Len(held)) = held
    BY <1>3, <1>4
  <2> QED BY <2>1, <2>2, <2>3 DEF IsPrefix
<1>6. ASSUME held # found PROVE Size(SubSeq(found, 1, Len(held) + 1)) > maxBadRequestBytes
  <2>1. k # n
    <3>1. SUFFICES ASSUME k = n PROVE FALSE
      OBVIOUS
    <3>2. SubSeq(found, 1, n) = found
      OBVIOUS
    <3> QED BY <1>3, <1>6, <3>1, <3>2
  <2>2. k < n /\ k + 1 \in 0 .. n
    BY <1>1, <1>2, <2>1
  <2>3. SubSeq(found, 1, k + 1) \in Seq(Seq(S))
    BY <2>2
  <2>4. Size(SubSeq(found, 1, k + 1)) \in Nat
    BY <2>3, SizeIs
  <2>5. ~(Size(SubSeq(found, 1, k + 1)) <= maxBadRequestBytes) /\ maxBadRequestBytes \in Nat
    BY <1>2, <2>2, StreamAssumption
  <2> QED BY <1>4, <2>4, <2>5
<1>7. Size(held) <= maxBadRequestBytes
  BY <1>2, <1>3
<1> QED BY <1>5, <1>6, <1>7 DEF held

----------------------------------------------------------------------------
(* The resource of a write, as a message of its own.                       *)

LEMMA StrictPrefixOf ==
  ASSUME NEW S, NEW p \in Seq(S), NEW l \in Seq(S), IsStrictPrefix(p, l)
  PROVE  LET k == SubSeq(l, Len(p) + 1, Len(l))
         IN k \in Seq(S) /\ k # <<>> /\ l = p \o k
<1> DEFINE k == SubSeq(l, Len(p) + 1, Len(l))
<1>1. Len(p) <= Len(l) /\ SubSeq(p, 1, Len(p)) = SubSeq(l, 1, Len(p)) /\ p # l
  BY DEF IsStrictPrefix, IsPrefix
<1>2. Len(p) \in Nat /\ Len(l) \in Nat
  OBVIOUS
<1>3. p = SubSeq(l, 1, Len(p))
  BY <1>1
<1>4. \A i \in 1 .. Len(p) : p[i] = l[i]
  BY <1>1, <1>2, <1>3
<1>5. Len(p) < Len(l)
  <2>1. SUFFICES ASSUME Len(p) = Len(l) PROVE FALSE
    BY <1>1, <1>2
  <2>2. p = l
    BY <1>4, <2>1, SeqEqual
  <2> QED BY <1>1, <2>2
<1>6. k \in Seq(S) /\ Len(k) = Len(l) - Len(p) /\ \A i \in 1 .. Len(l) - Len(p) : k[i] = l[Len(p) + i]
  <2>1. k \in Seq(S)
    BY <1>2, <1>5
  <2>2. Len(k) = Len(l) - Len(p)
    BY <1>2, <1>5
  <2>3. \A i \in 1 .. Len(l) - Len(p) : k[i] = l[Len(p) + i]
    BY <1>2, <1>5
  <2> QED BY <2>1, <2>2, <2>3
<1> HIDE DEF k
<1>7. k # <<>>
  BY <1>2, <1>5, <1>6, EmptySeq
<1>8. l = p \o k
  <2> DEFINE c == p \o k
  <2>1. /\ c \in Seq(S) /\ Len(c) = Len(p) + Len(k)
        /\ \A i \in 1 .. Len(p) + Len(k) : c[i] = IF i <= Len(p) THEN p[i] ELSE k[i - Len(p)]
    BY <1>6, ConcatProperties
  <2> HIDE DEF c
  <2>2. Len(c) = Len(l)
    BY <1>2, <1>6, <2>1
  <2>3. ASSUME NEW i \in 1 .. Len(l) PROVE c[i] = l[i]
    <3>1. CASE i <= Len(p)
      BY <1>2, <1>4, <1>5, <1>6, <2>1, <3>1
    <3>2. CASE ~(i <= Len(p))
      <4>1. i - Len(p) \in 1 .. Len(l) - Len(p) /\ Len(p) + (i - Len(p)) = i
        BY <1>2, <1>5, <3>2
      <4>2. k[i - Len(p)] = l[i]
        BY <1>6, <4>1
      <4> QED BY <1>2, <1>6, <2>1, <3>2, <4>2
    <3> QED BY <3>1, <3>2
  <2>4. c = l
    BY <2>1, <2>2, <2>3, SeqEqual
  <2> QED BY <2>4 DEF c
<1> QED BY <1>6, <1>7, <1>8 DEF k

LEMMA BeyondPrefix ==
  ASSUME NEW S, NEW p \in Seq(S), NEW k \in Seq(S), k # <<>>
  PROVE  /\ IsStrictPrefix(p, p \o k)
         /\ SubSeq(p \o k, Len(p) + 1, Len(p \o k)) = k
<1> DEFINE c == p \o k
<1>1. /\ c \in Seq(S) /\ Len(c) = Len(p) + Len(k)
      /\ \A i \in 1 .. Len(p) + Len(k) : c[i] = IF i <= Len(p) THEN p[i] ELSE k[i - Len(p)]
  BY ConcatProperties
<1> HIDE DEF c
<1>2. Len(p) \in Nat /\ Len(k) \in Nat /\ Len(k) # 0
  BY EmptySeq
<1>3. Len(p) < Len(c)
  BY <1>1, <1>2
<1>4. SubSeq(c, 1, Len(p)) \in Seq(S) /\ Len(SubSeq(c, 1, Len(p))) = Len(p)
      /\ \A i \in 1 .. Len(p) : SubSeq(c, 1, Len(p))[i] = c[i]
  BY <1>1, <1>2, <1>3
<1>5. \A i \in 1 .. Len(p) : c[i] = p[i]
  BY <1>1, <1>2
<1>6. SubSeq(c, 1, Len(p)) = p
  BY <1>4, <1>5, SeqEqual
<1>7. SubSeq(p, 1, Len(p)) = p
  OBVIOUS
<1>8. IsStrictPrefix(p, c)
  BY <1>2, <1>3, <1>6, <1>7 DEF IsStrictPrefix, IsPrefix
<1> DEFINE r == SubSeq(c, Len(p) + 1, Len(c))
<1>9. r \in Seq(S) /\ Len(r) = Len(k) /\ \A i \in 1 .. Len(k) : r[i] = c[Len(p) + i]
  <2>1. r \in Seq(S)
    BY <1>1, <1>2, <1>3
  <2>2. Len(r) = Len(k)
    BY <1>1, <1>2, <1>3
  <2>3. \A i \in 1 .. Len(k) : r[i] = c[Len(p) + i]
    BY <1>1, <1>2, <1>3
  <2> QED BY <2>1, <2>2, <2>3
<1> HIDE DEF r
<1>10. ASSUME NEW i \in 1 .. Len(k) PROVE r[i] = k[i]
  <2>1. Len(p) + i \in 1 .. Len(p) + Len(k) /\ ~(Len(p) + i <= Len(p)) /\ (Len(p) + i) - Len(p) = i
    BY <1>2
  <2>2. c[Len(p) + i] = k[i]
    BY <1>1, <2>1
  <2> QED BY <1>9, <2>2
<1>11. r = k
  BY <1>9, <1>10, SeqEqual
<1> QED BY <1>8, <1>11 DEF r, c

\* Beneath a resource is what its request has beneath its location.
LEMMA InResource ==
  ASSUME NEW m, DOMAIN m \subseteq Location, NEW write, ResourceAt(write) \in Location
  PROVE  /\ Resource(m, write) \subseteq Location
         /\ \A k \in Location :
              k \in Resource(m, write) <=> k # <<>> /\ ResourceAt(write) \o k \in DOMAIN m
<1> DEFINE R == ResourceAt(write)
           beneath(l) == SubSeq(l, Len(R) + 1, Len(l))
<1>1. Resource(m, write) = {beneath(l) : l \in {at \in DOMAIN m : IsStrictPrefix(R, at)}}
  BY DEF Resource
<1>2. R \in Seq(StepSet) /\ Location = Seq(StepSet)
  BY DEF Location
<1> HIDE DEF R
<1>3. ASSUME NEW l \in DOMAIN m, IsStrictPrefix(R, l)
      PROVE  beneath(l) \in Location /\ beneath(l) # <<>> /\ l = R \o beneath(l)
  <2>1. l \in Seq(StepSet)
    BY <1>2
  <2> QED BY <1>2, <1>3, <2>1, StrictPrefixOf
<1>4. ASSUME NEW k \in Location, k # <<>>
      PROVE  IsStrictPrefix(R, R \o k) /\ beneath(R \o k) = k
  <2>1. k \in Seq(StepSet)
    BY <1>2
  <2> QED BY <1>2, <1>4, <2>1, BeyondPrefix
<1> HIDE DEF beneath
<1>5. Resource(m, write) \subseteq Location
  BY <1>1, <1>3
<1>6. ASSUME NEW k \in Location, k \in Resource(m, write) PROVE k # <<>> /\ R \o k \in DOMAIN m
  <2>1. PICK l \in DOMAIN m : IsStrictPrefix(R, l) /\ k = beneath(l)
    BY <1>1, <1>6
  <2>2. beneath(l) # <<>> /\ l = R \o beneath(l)
    BY <1>3, <2>1
  <2>3. l = R \o k
    BY <2>1, <2>2, Zenon
  <2> QED BY <2>1, <2>2, <2>3, Zenon
<1>7. ASSUME NEW k \in Location, k # <<>>, R \o k \in DOMAIN m PROVE k \in Resource(m, write)
  <2>1. IsStrictPrefix(R, R \o k) /\ beneath(R \o k) = k
    BY <1>4, <1>7
  <2>2. R \o k \in {at \in DOMAIN m : IsStrictPrefix(R, at)}
    BY <1>7, <2>1, Zenon
  <2>3. beneath(R \o k) \in Resource(m, write)
    BY <1>1, <2>2, Zenon
  <2> QED BY <2>1, <2>3, Zenon
<1> QED BY <1>5, <1>6, <1>7 DEF R

LEMMA ResourceKeyed ==
  ASSUME NEW t, NEW m, DOMAIN m \subseteq Location, IsMessage(t, DOMAIN m),
         NEW write, ResourceAt(write) \in Location
  PROVE  Keyed(Resource(m, write))
<1> DEFINE R == ResourceAt(write)
<1>1. Keyed(DOMAIN m)
  BY MessageIsKeyed
<1>2. Resource(m, write) \subseteq Location
  BY InResource
<1> HIDE DEF R
<1>3. ASSUME NEW k \in Resource(m, write), NEW i \in DOMAIN k, isSingularMessage(k[i].field)
      PROVE  k[i].key = 0
  <2> DEFINE l == R \o k
  <2>1. k \in Location /\ l \in DOMAIN m
    BY <1>2, <1>3, InResource DEF R
  <2>2. R \in Seq(StepSet) /\ k \in Seq(StepSet)
    BY <2>1 DEF R, Location
  <2>3. /\ l \in Seq(StepSet) /\ Len(l) = Len(R) + Len(k)
        /\ \A j \in 1 .. Len(R) + Len(k) : l[j] = IF j <= Len(R) THEN R[j] ELSE k[j - Len(R)]
    BY <2>2, ConcatProperties
  <2> HIDE DEF l
  <2>4. Len(R) \in Nat /\ Len(k) \in Nat /\ DOMAIN k = 1 .. Len(k) /\ DOMAIN l = 1 .. Len(l)
    BY <2>2, <2>3
  <2>5. Len(R) + i \in 1 .. Len(R) + Len(k) /\ ~(Len(R) + i <= Len(R)) /\ (Len(R) + i) - Len(R) = i
    BY <1>3, <2>4
  <2>6. l[Len(R) + i] = k[i] /\ Len(R) + i \in DOMAIN l
    BY <2>3, <2>4, <2>5
  <2> QED BY <1>1, <1>3, <2>1, <2>6 DEF Keyed
<1> QED BY <1>2, <1>3 DEF Keyed

\* Where field path p of a resource is in its request.
FieldAt(write, p) == ResourceAt(write) \o LocationOf(p)

LEMMA LocationIs ==
  ASSUME NEW p \in Seq(Field)
  PROVE  /\ LocationOf(p) \in Seq(StepSet) /\ Len(LocationOf(p)) = Len(p)
         /\ \A i \in 1 .. Len(p) : LocationOf(p)[i] = Step(p[i], 0)
<1>1. \A f \in Field : Step(f, 0) \in StepSet
  BY SchemaAssumption DEF Step, StepSet
<1>2. DOMAIN p = 1 .. Len(p) /\ Len(p) \in Nat
  OBVIOUS
<1>3. \A i \in 1 .. Len(p) : Step(p[i], 0) \in StepSet
  BY <1>1
<1>4. LocationOf(p) = [i \in 1 .. Len(p) |-> Step(p[i], 0)]
  BY <1>2 DEF LocationOf
<1> QED BY <1>2, <1>3, <1>4

LEMMA FieldAtIs ==
  ASSUME NEW write, ResourceAt(write) \in Location, NEW p \in Seq(Field), p # <<>>
  PROVE  /\ FieldAt(write, p) \in Location
         /\ Len(FieldAt(write, p)) = Len(ResourceAt(write)) + Len(p)
         /\ Last(FieldAt(write, p)).field = Last(p)
         /\ Front(FieldAt(write, p)) = ResourceAt(write) => Len(p) = 1
<1> DEFINE R == ResourceAt(write)
           k == LocationOf(p)
           l == R \o k
<1>1. k \in Seq(StepSet) /\ Len(k) = Len(p) /\ \A i \in 1 .. Len(p) : k[i] = Step(p[i], 0)
  BY LocationIs
<1>2. R \in Seq(StepSet)
  BY DEF Location
<1> HIDE DEF R, k
<1>3. /\ l \in Seq(StepSet) /\ Len(l) = Len(R) + Len(k)
      /\ \A j \in 1 .. Len(R) + Len(k) : l[j] = IF j <= Len(R) THEN R[j] ELSE k[j - Len(R)]
  BY <1>1, <1>2, ConcatProperties
<1> HIDE DEF l
<1>4. Len(R) \in Nat /\ Len(p) \in Nat /\ Len(p) >= 1
  BY <1>2, EmptySeq
<1>5. Last(l).field = Last(p)
  <2>1. /\ Len(l) \in 1 .. Len(R) + Len(k) /\ ~(Len(l) <= Len(R)) /\ Len(l) - Len(R) = Len(p)
        /\ Len(p) \in 1 .. Len(p)
    BY <1>1, <1>3, <1>4
  <2>2. l[Len(l)] = k[Len(p)]
    BY <1>3, <2>1
  <2>3. l[Len(l)] = Step(p[Len(p)], 0)
    BY <1>1, <2>1, <2>2
  <2> QED BY <2>3 DEF Last, Step
<1>6. Front(l) = R => Len(p) = 1
  <2>1. Len(l) \in Nat /\ Len(l) >= 1
    BY <1>1, <1>3, <1>4
  <2>2. Len(SubSeq(l, 1, Len(l) - 1)) = Len(l) - 1
    BY <1>3, <2>1
  <2>3. Front(l) = R => Len(R) = Len(l) - 1
    BY <2>2 DEF Front
  <2> QED BY <1>1, <1>3, <1>4, <2>3
<1>7. FieldAt(write, p) = l
  BY DEF FieldAt, l, R, k
<1>8. l \in Location /\ Len(l) = Len(R) + Len(p)
  BY <1>1, <1>3 DEF Location
<1> QED BY <1>5, <1>6, <1>7, <1>8 DEF R

LEMMA OneFieldAt ==
  ASSUME NEW write, ResourceAt(write) \in Location, NEW p \in Seq(Field), NEW q \in Seq(Field),
         FieldAt(write, p) = FieldAt(write, q)
  PROVE  p = q
<1> DEFINE k == LocationOf(p)
           l == LocationOf(q)
<1>1. k \in Seq(StepSet) /\ Len(k) = Len(p) /\ \A i \in 1 .. Len(p) : k[i] = Step(p[i], 0)
  BY LocationIs
<1>2. l \in Seq(StepSet) /\ Len(l) = Len(q) /\ \A i \in 1 .. Len(q) : l[i] = Step(q[i], 0)
  BY LocationIs
<1>3. k = l
  <2>1. ResourceAt(write) \in Seq(StepSet)
    BY DEF Location
  <2>2. ResourceAt(write) \o k = ResourceAt(write) \o l
    BY DEF FieldAt
  <2> HIDE DEF k, l
  <2> QED BY <1>1, <1>2, <2>1, <2>2, ConcatSimplifications
<1> HIDE DEF k, l
<1>4. Len(p) = Len(q)
  BY <1>1, <1>2, <1>3
<1>5. \A f, g : Step(f, 0) = Step(g, 0) => f = g
  BY DEF Step
<1>6. \A i \in 1 .. Len(p) : p[i] = q[i]
  BY <1>1, <1>2, <1>3, <1>4, <1>5
<1> QED BY <1>4, <1>6, SeqEqual

\* The resources of a request lie apart: where one's entry ends, the other's has
\* a list of entries yet to go through, or has ended as well.
LEMMA EntriesDiverge ==
  ASSUME NEW t \in Type, NEW request, DOMAIN request \subseteq Location,
         NEW write \in ResourceWrites(t, request), NEW other \in ResourceWrites(t, request),
         NEW x, \A i \in 1 .. Len(ResourceAt(write)) : x[i] = ResourceAt(write)[i],
         \A i \in 1 .. Len(ResourceAt(other)) : x[i] = ResourceAt(other)[i],
         Len(write.at) <= Len(other.at)
  PROVE  write = other
<1> DEFINE a == write.at
           b == other.at
<1>1. /\ a \in Location /\ IsEntry(t, a) /\ write.field \in Field
      /\ ResourceAt(write) = Append(a, Step(write.field, 0))
  BY WriteFacts
<1>2. /\ b \in Location /\ IsEntry(t, b) /\ other.field \in Field
      /\ ResourceAt(other) = Append(b, Step(other.field, 0))
  BY WriteFacts
<1>3. Len(a) \in Nat /\ Len(b) \in Nat /\ DOMAIN a = 1 .. Len(a) /\ DOMAIN b = 1 .. Len(b)
  BY <1>1, <1>2 DEF Location
<1> HIDE DEF a, b
<1>4. Len(a) <= Len(b)
  BY DEF a, b
<1>5. Len(ResourceAt(write)) = Len(a) + 1 /\ \A i \in 1 .. Len(a) : ResourceAt(write)[i] = a[i]
  BY <1>1, StepFacts
<1>6. Len(ResourceAt(other)) = Len(b) + 1 /\ \A i \in 1 .. Len(b) : ResourceAt(other)[i] = b[i]
  BY <1>2, StepFacts
<1>7. \A i \in 1 .. Len(a) : a[i] = b[i]
  BY <1>3, <1>4, <1>5, <1>6
<1>8. CASE Len(a) = Len(b)
  <2>1. a = b
    BY <1>1, <1>2, <1>7, <1>8, SeqEqual DEF Location
  <2> QED BY <2>1, OneWriteAt DEF a, b
<1>9. CASE Len(a) # Len(b)
  <2>1. Len(a) + 1 \in DOMAIN b /\ (Len(a) + 1) - 1 = Len(a)
    <3>1. \A m, n \in Nat : m <= n /\ m # n => m + 1 \in 1 .. n /\ (m + 1) - 1 = m
      OBVIOUS
    <3>2. Len(a) + 1 \in 1 .. Len(b) /\ (Len(a) + 1) - 1 = Len(a)
      BY <1>3, <1>4, <1>9, <3>1
    <3> QED BY <1>3, <3>2
  <2>2. SubSeq(b, 1, Len(a)) = a
    <3>1. Len(a) \in 0 .. Len(b)
      BY <1>3, <1>4
    <3>2. /\ SubSeq(b, 1, Len(a)) \in Seq(StepSet) /\ Len(SubSeq(b, 1, Len(a))) = Len(a)
          /\ \A j \in 1 .. Len(a) : SubSeq(b, 1, Len(a))[j] = b[j]
      BY <1>2, <3>1, BeginningIsPath DEF Location
    <3> QED BY <1>1, <1>7, <3>2, SeqEqual DEF Location
  <2>3. b[Len(a) + 1].field \in batchField(TypeAt(t, SubSeq(b, 1, (Len(a) + 1) - 1)))
    BY <1>2, <2>1 DEF IsEntry
  <2>4. batchField(TypeAt(t, a)) = {}
    BY <1>1 DEF IsEntry
  <2>5. SubSeq(b, 1, (Len(a) + 1) - 1) = a
    BY <2>1, <2>2
  <2> QED BY <2>3, <2>4, <2>5
<1> QED BY <1>8, <1>9

LEMMA BeginsOne ==
  ASSUME NEW t \in Type, NEW request, DOMAIN request \subseteq Location,
         NEW write \in ResourceWrites(t, request), NEW other \in ResourceWrites(t, request),
         NEW x, \A i \in 1 .. Len(ResourceAt(write)) : x[i] = ResourceAt(write)[i],
         \A i \in 1 .. Len(ResourceAt(other)) : x[i] = ResourceAt(other)[i]
  PROVE  write = other
<1>1. Len(write.at) \in Nat /\ Len(other.at) \in Nat
  BY WriteFacts DEF Location
<1>2. CASE Len(write.at) <= Len(other.at)
  BY <1>2, EntriesDiverge
<1>3. CASE Len(other.at) <= Len(write.at)
  BY <1>3, EntriesDiverge
<1>4. \A m, n \in Nat : m <= n \/ n <= m
  OBVIOUS
<1> QED BY <1>1, <1>2, <1>3, <1>4

LEMMA FieldAtBegins ==
  ASSUME NEW write, ResourceAt(write) \in Location, NEW p \in Seq(Field)
  PROVE  \A i \in 1 .. Len(ResourceAt(write)) : FieldAt(write, p)[i] = ResourceAt(write)[i]
<1> DEFINE R == ResourceAt(write)
           k == LocationOf(p)
           l == R \o k
<1>1. k \in Seq(StepSet)
  BY LocationIs
<1>2. R \in Seq(StepSet)
  BY DEF Location
<1> HIDE DEF R, k
<1>3. \A j \in 1 .. Len(R) + Len(k) : l[j] = IF j <= Len(R) THEN R[j] ELSE k[j - Len(R)]
  BY <1>1, <1>2, ConcatProperties
<1>4. Len(R) \in Nat /\ Len(k) \in Nat
  BY <1>1, <1>2
<1> HIDE DEF l
<1>5. \A i \in 1 .. Len(R) : i \in 1 .. Len(R) + Len(k) /\ i <= Len(R)
  BY <1>4
<1>6. \A i \in 1 .. Len(R) : l[i] = R[i]
  BY <1>3, <1>5
<1> QED BY <1>6 DEF FieldAt, l, R, k

\* No field of one resource is at a field of another.
LEMMA WritesApart ==
  ASSUME NEW t \in Type, NEW request, DOMAIN request \subseteq Location,
         NEW write \in ResourceWrites(t, request), NEW other \in ResourceWrites(t, request),
         NEW p \in Seq(Field), NEW q \in Seq(Field), FieldAt(write, p) = FieldAt(other, q)
  PROVE  write = other
<1>1. ResourceAt(write) \in Location /\ ResourceAt(other) \in Location
  BY WriteFacts
<1> DEFINE x == FieldAt(write, p)
<1>2. \A i \in 1 .. Len(ResourceAt(write)) : x[i] = ResourceAt(write)[i]
  BY <1>1, FieldAtBegins
<1>3. \A i \in 1 .. Len(ResourceAt(other)) : x[i] = ResourceAt(other)[i]
  BY <1>1, FieldAtBegins
<1> HIDE DEF x
<1> QED BY <1>2, <1>3, BeginsOne

\* A field that lies in a resource itself is one of that resource.
LEMMA FieldOfOwnResource ==
  ASSUME NEW t \in Type, NEW request, DOMAIN request \subseteq Location,
         NEW write \in ResourceWrites(t, request), NEW other \in ResourceWrites(t, request),
         NEW q \in Seq(Field), q # <<>>, Front(FieldAt(other, q)) = ResourceAt(write)
  PROVE  write = other /\ Len(q) = 1
<1>1. ResourceAt(write) \in Location /\ ResourceAt(other) \in Location
  BY WriteFacts
<1> DEFINE x == FieldAt(other, q)
<1>2. \A i \in 1 .. Len(ResourceAt(other)) : x[i] = ResourceAt(other)[i]
  BY <1>1, FieldAtBegins
<1>3. x \in Seq(StepSet) /\ (Front(x) = ResourceAt(other) => Len(q) = 1)
  BY <1>1, FieldAtIs DEF Location
<1>4. Len(x) \in Nat /\ Len(x) >= 1
  <2>1. Len(x) = Len(ResourceAt(other)) + Len(q)
    BY <1>1, FieldAtIs
  <2>2. Len(ResourceAt(other)) \in Nat /\ Len(q) \in Nat /\ Len(q) # 0
    BY <1>1, EmptySeq DEF Location
  <2> QED BY <2>1, <2>2
<1> HIDE DEF x
<1>5. ResourceAt(write) = SubSeq(x, 1, Len(x) - 1)
  BY DEF Front, x
<1>6. \A i \in 1 .. Len(ResourceAt(write)) : x[i] = ResourceAt(write)[i]
  <2>1. Len(x) - 1 \in 0 .. Len(x)
    BY <1>4
  <2>2. /\ Len(SubSeq(x, 1, Len(x) - 1)) = Len(x) - 1
        /\ \A j \in 1 .. Len(x) - 1 : SubSeq(x, 1, Len(x) - 1)[j] = x[j]
    BY <1>3, <2>1, BeginningIsPath
  <2> QED BY <1>5, <2>2
<1>7. write = other
  BY <1>2, <1>6, BeginsOne
<1> QED BY <1>3, <1>7 DEF x

----------------------------------------------------------------------------
(* The violations of a message.                                            *)

LEMMA NotBeforeItself ==
  ASSUME NEW t \in Type, NEW p \in Seq(Field), IsFieldPath(t, p)
  PROVE  ~Before(t, p, p)
<1>1. ~IsStrictPrefix(p, p)
  BY DEF IsStrictPrefix
<1>2. ASSUME NEW i \in DOMAIN p
      PROVE  ~(Position(TypeBeneath(t, SubSeq(p, 1, i - 1)), p[i])
                 < Position(TypeBeneath(t, SubSeq(p, 1, i - 1)), p[i]))
  <2> DEFINE T == TypeBeneath(t, SubSeq(p, 1, i - 1))
  <2>1. i \in 1 .. Len(p)
    OBVIOUS
  <2>2. T \in Type /\ p[i] \in FieldsOf(T)
    BY <2>1, LeadsTo
  <2> HIDE DEF T
  <2>3. Position(T, p[i]) \in DOMAIN Fields[T] /\ Fields[T] \in Seq(Field)
    BY <2>2, PositionOf, SchemaAssumption
  <2>4. Position(T, p[i]) \in Nat
    BY <2>3
  <2>5. ~(Position(T, p[i]) < Position(T, p[i]))
    BY <2>4
  <2> QED BY <2>5 DEF T
<1> QED BY <1>1, <1>2 DEF Before

\* The field protovalidate finds unset in a message.
LEMMA RuleViolationsAre ==
  ASSUME NEW t, NEW m, DOMAIN m \subseteq Location, IsFiniteSet(DOMAIN m)
  PROVE  LET found == ruleViolations(t, m)
         IN /\ found \in Seq(Location) /\ ~Repeats(found)
            /\ \A at \in ToSet(found) : Last(at).field \in RuleRequired
<1> DEFINE messages == {<<>>} \cup {at \in DOMAIN m : HoldsMessage(Last(at).field)}
           fields   == {Append(at, Step(f, 0)) : at \in messages, f \in RuleRequired}
           unset    == {at \in fields :
                          /\ Last(at).field \in FieldsOf(TypeAt(t, Front(at)))
                          /\ ~isFieldPopulated(DOMAIN m, Front(at), Last(at).field)}
<1>1. RuleRequired \subseteq Field /\ IsFiniteSet(RuleRequired)
  BY StreamAssumption
<1>2. messages \subseteq Location /\ IsFiniteSet(messages)
  <2> DEFINE held == {at \in DOMAIN m : HoldsMessage(Last(at).field)}
  <2>1. held \in SUBSET DOMAIN m
    OBVIOUS
  <2>2. <<>> \in Location /\ held \subseteq Location
    BY <2>1, EmptySeq DEF Location
  <2> HIDE DEF held
  <2>3. IsFiniteSet(held) /\ IsFiniteSet({<<>>})
    BY <2>1, FS_Subset, FS_Singleton
  <2>4. IsFiniteSet({<<>>} \cup held)
    BY <2>3, FS_Union
  <2> QED BY <2>2, <2>4 DEF held
<1> HIDE DEF messages
<1>3. \A at \in messages, f \in RuleRequired :
        Append(at, Step(f, 0)) \in Location /\ Last(Append(at, Step(f, 0))).field = f
  BY <1>1, <1>2, StepFacts DEF Last
<1>4. IsFiniteSet(fields)
  <2> DEFINE pairs == messages \X RuleRequired
             make  == [x \in pairs |-> Append(x[1], Step(x[2], 0))]
  <2>1. IsFiniteSet(pairs)
    BY <1>1, <1>2, FS_Product
  <2>2. make \in [pairs -> fields]
    OBVIOUS
  <2>3. \A at \in messages, f \in RuleRequired :
          <<at, f>> \in pairs /\ make[<<at, f>>] = Append(at, Step(f, 0))
    OBVIOUS
  <2>4. \A l \in fields : \E x \in pairs : make[x] = l
    <3>1. ASSUME NEW l \in fields PROVE \E x \in pairs : make[x] = l
      <4>1. PICK at \in messages, f \in RuleRequired : l = Append(at, Step(f, 0))
        OBVIOUS
      <4>2. <<at, f>> \in pairs /\ make[<<at, f>>] = Append(at, Step(f, 0))
        BY <2>3
      <4> HIDE DEF pairs, make
      <4>3. make[<<at, f>>] = l
        BY <4>1, <4>2
      <4> QED BY <4>2, <4>3
    <3> QED BY <3>1
  <2> HIDE DEF pairs, make, fields
  <2>5. make \in Surjection(pairs, fields)
    BY <2>2, <2>4 DEF Surjection
  <2> QED BY <2>1, <2>5, FS_Surjection
<1>5. ASSUME NEW l \in fields PROVE l \in Location /\ Last(l).field \in RuleRequired
  <2>1. PICK at \in messages, f \in RuleRequired : l = Append(at, Step(f, 0))
    OBVIOUS
  <2>2. Append(at, Step(f, 0)) \in Location /\ Last(Append(at, Step(f, 0))).field = f
    BY <1>3
  <2> QED BY <2>1, <2>2
<1> HIDE DEF fields
<1>6. unset \in SUBSET fields
  OBVIOUS
<1>7. ruleViolations(t, m) = SetToSeq(unset)
  BY DEF ruleViolations, unset, fields, messages
<1> HIDE DEF unset
<1>8. IsFiniteSet(unset)
  BY <1>4, <1>6, FS_Subset
<1>9. SetToSeq(unset) \in Seq(unset) /\ ToSet(SetToSeq(unset)) = unset /\ ~Repeats(SetToSeq(unset))
  BY <1>8, ListingOf
<1>10. unset \subseteq Location /\ \A at \in unset : Last(at).field \in RuleRequired
  BY <1>5, <1>6
<1>11. SetToSeq(unset) \in Seq(Location)
  BY <1>9, <1>10, SeqMonotonic
<1> QED BY <1>7, <1>9, <1>10, <1>11

\* What is unset is a field of the kind, of the resource's type.
LEMMA UnsetPathIs ==
  ASSUME NEW t, NEW m, NEW write, ResourceType(write) \in Type, NEW p \in UnsetPaths(t, m, write)
  PROVE  /\ p \in Seq(Field) /\ p # <<>> /\ IsFieldPath(ResourceType(write), p)
         /\ HasKind(Last(p), Required)
<1>1. p \in FieldPaths[ResourceType(write)] /\ HasKind(Last(p), Required)
  BY DEF UnsetPaths, IsUnset
<1>2. p \in Seq(Field) /\ IsFieldPath(ResourceType(write), p)
  BY <1>1, FieldPathsIs
<1> QED BY <1>1, <1>2 DEF IsFieldPath

LEMMA UnsetOfIs ==
  ASSUME NEW t, NEW m, NEW write, ResourceType(write) \in Type, ResourceAt(write) \in Location,
         NEW l \in UnsetOf(t, m, write)
  PROVE  /\ \E p \in UnsetPaths(t, m, write) : l = FieldAt(write, p)
         /\ l \in Location /\ HasKind(Last(l).field, Required)
<1>1. PICK p \in UnsetPaths(t, m, write) : l = FieldAt(write, p)
  BY DEF UnsetOf, FieldAt
<1>2. p \in Seq(Field) /\ p # <<>> /\ HasKind(Last(p), Required)
  BY UnsetPathIs
<1> QED BY <1>1, <1>2, FieldAtIs

\* The violations of a resource are its unset fields, each once.
LEMMA RequiredViolationsAre ==
  ASSUME NEW t \in Type, NEW m, DOMAIN m \subseteq Location, IsMessage(t, DOMAIN m),
         NEW write \in ResourceWrites(t, m),
         CheckedMask(t, m, write) = NoMask \/ IsPaths(CheckedMask(t, m, write))
  PROVE  LET found == requiredViolations(t, m, write)
         IN found \in Seq(Location) /\ ToSet(found) = UnsetOf(t, m, write) /\ ~Repeats(found)
<1> DEFINE T     == ResourceType(write)
           mask  == CheckedMask(t, m, write)
           paths == ValidateFields(T, Resource(m, write), Required, mask)
           found == requiredViolations(t, m, write)
<1>1. ResourceAt(write) \in Location /\ T \in Type
  BY WriteFacts, RequestAssumption DEF IsResource, ResourceType
<1>2. Resource(m, write) \in SUBSET Location /\ Keyed(Resource(m, write))
  BY <1>1, InResource, ResourceKeyed
<1>3. mask = NoMask \/ mask \in Seq(Seq(STRING))
  BY DEF IsPaths
<1>4. /\ paths \in Seq(FieldPaths[T])
      /\ ToSet(paths) = {p \in FieldPaths[T] : IsUnset(Resource(m, write), Required, PathsOf(mask), p)}
      /\ \A i, j \in DOMAIN paths : i < j => Before(T, paths[i], paths[j])
  <2> HIDE DEF mask, T
  <2> QED BY <1>1, <1>2, <1>3, ValidateFieldsReportsTheUnset DEF T
<1>5. ToSet(paths) = UnsetPaths(t, m, write)
  BY <1>4 DEF UnsetPaths
<1>6. found = [i \in DOMAIN paths |-> FieldAt(write, paths[i])]
  BY DEF requiredViolations, FieldAt
<1> HIDE DEF paths, found, mask, T
<1>7. /\ DOMAIN paths = 1 .. Len(paths) /\ Len(paths) \in Nat
      /\ \A i \in DOMAIN paths : paths[i] \in UnsetPaths(t, m, write)
  BY <1>4, <1>5 DEF ToSet
<1>8. \A p \in UnsetPaths(t, m, write) :
        p \in Seq(Field) /\ p # <<>> /\ IsFieldPath(T, p) /\ FieldAt(write, p) \in Location
  BY <1>1, UnsetPathIs, FieldAtIs DEF T
<1>9. found \in Seq(Location) /\ DOMAIN found = DOMAIN paths
  <2>1. \A i \in 1 .. Len(paths) : FieldAt(write, paths[i]) \in Location
    BY <1>7, <1>8
  <2>2. found = [i \in 1 .. Len(paths) |-> FieldAt(write, paths[i])]
    BY <1>6, <1>7
  <2> QED BY <1>7, <2>1, <2>2
<1>10. ToSet(found) = UnsetOf(t, m, write)
  <2>1. \A p \in UnsetPaths(t, m, write) : \E i \in DOMAIN paths : paths[i] = p
    BY <1>5 DEF ToSet
  <2>2. UnsetOf(t, m, write) = {FieldAt(write, p) : p \in UnsetPaths(t, m, write)}
    BY DEF UnsetOf, FieldAt
  <2>3. \A i \in DOMAIN found : found[i] \in UnsetOf(t, m, write)
    BY <1>6, <1>7, <2>2
  <2>4. \A l \in UnsetOf(t, m, write) : \E i \in DOMAIN found : found[i] = l
    BY <1>6, <1>9, <2>1, <2>2
  <2> QED BY <2>3, <2>4 DEF ToSet
<1>11. ASSUME NEW i \in DOMAIN found, NEW j \in DOMAIN found, i < j PROVE found[i] # found[j]
  <2>1. SUFFICES ASSUME FieldAt(write, paths[i]) = FieldAt(write, paths[j]) PROVE FALSE
    BY <1>6, <1>9
  <2>2. /\ paths[i] \in Seq(Field) /\ paths[j] \in Seq(Field)
        /\ IsFieldPath(T, paths[i]) /\ Before(T, paths[i], paths[j])
    BY <1>4, <1>7, <1>8, <1>9, <1>11
  <2>3. paths[i] = paths[j]
    BY <1>1, <2>1, <2>2, OneFieldAt
  <2> QED BY <1>1, <2>2, <2>3, NotBeforeItself
<1>12. ~Repeats(found)
  <2>1. SUFFICES ASSUME NEW i \in DOMAIN found, NEW j \in DOMAIN found, i # j PROVE found[i] # found[j]
    BY DEF Repeats
  <2>2. i < j \/ j < i
    BY <1>7, <1>9, <2>1
  <2> QED BY <1>11, <2>2
<1> QED BY <1>9, <1>10, <1>12 DEF found

----------------------------------------------------------------------------
(* What Receive makes of a message is a message.                           *)

\* Where a location of a message may lie, and under which keys a field's values.
Lies(t, m, at) ==
  /\ at # <<>>
  /\ \A i \in 1 .. Len(at) - 1 : SubSeq(at, 1, i) \in m /\ HoldsMessage(at[i].field)
  /\ Last(at).field \in FieldsOf(TypeAt(t, Front(at)))

KeysFit(f, keys) ==
  CASE Shape[f] = "singular" -> keys = {0} \/ (keys = {NegativeZero} /\ ~HoldsMessage(f))
    [] Shape[f] = "list"     -> \E n \in Key : keys = 1 .. n
    [] Shape[f] = "map"      -> \A k \in keys : k > 0

LEMMA MessageIs ==
  ASSUME NEW t, NEW m
  PROVE  IsMessage(t, m)
         <=> \A at \in m : Lies(t, m, at) /\ KeysFit(Last(at).field, Values(m, Front(at), Last(at).field))
  BY DEF IsMessage, Lies, KeysFit

LEMMA FrontOfAppend ==
  ASSUME NEW a \in Location, NEW f \in Field, NEW k \in Key
  PROVE  /\ Append(a, Step(f, k)) \in Location
         /\ Front(Append(a, Step(f, k))) = a /\ Last(Append(a, Step(f, k))) = Step(f, k)
         /\ Len(Append(a, Step(f, k))) = Len(a) + 1
         /\ \A i \in 1 .. Len(a) : Append(a, Step(f, k))[i] = a[i]
<1> DEFINE l == Append(a, Step(f, k))
<1>1. /\ l \in Location /\ Len(l) = Len(a) + 1 /\ l[Len(a) + 1] = Step(f, k)
      /\ \A i \in 1 .. Len(a) : l[i] = a[i]
  BY AnyStep
<1> HIDE DEF l
<1>2. Len(a) \in Nat /\ Len(a) \in 0 .. Len(l) /\ Len(l) - 1 = Len(a)
  BY <1>1 DEF Location
<1>3. /\ SubSeq(l, 1, Len(a)) \in Seq(StepSet) /\ Len(SubSeq(l, 1, Len(a))) = Len(a)
      /\ \A j \in 1 .. Len(a) : SubSeq(l, 1, Len(a))[j] = l[j]
  BY <1>1, <1>2, BeginningIsPath DEF Location
<1>4. SubSeq(l, 1, Len(a)) = a
  BY <1>1, <1>3, SeqEqual DEF Location
<1>5. Front(l) = a
  BY <1>2, <1>4 DEF Front
<1>6. Last(l) = Step(f, k)
  BY <1>1 DEF Last
<1> QED BY <1>1, <1>5, <1>6 DEF l

LEMMA FillingField ==
  ASSUME NEW t \in Type, NEW request, DOMAIN request \subseteq Location,
         NEW write \in ResourceWrites(t, request), NEW l \in Filling(t, write)
  PROVE  \E f \in Field : /\ l = Append(write.at, Step(f, 0))
                          /\ f \in FieldsOf(TypeAt(t, write.at)) /\ Shape[f] = "singular"
                          /\ f \in Strings \/ HoldsMessage(f)
<1>1. TypeAt(t, write.at) \in Type /\ TypeAt(t, write.at) # NoType
  BY WriteFacts, SchemaAssumption
<1>2. CASE l \in IdAt(t, write)
  <2>1. PICK f \in stringField(TypeAt(t, write.at), IdName[write.field]) : l = Append(write.at, Step(f, 0))
    BY <1>2 DEF IdAt
  <2>2. f \in Strings /\ f \in FieldsOf(TypeAt(t, write.at))
    BY <1>1, <2>1 DEF stringField, ByName
  <2>3. f \in Field /\ Shape[f] = "singular"
    BY <2>2, RequestAssumption
  <2> QED BY <2>1, <2>2, <2>3
<1>3. CASE l \in MaskAt(t, write)
  <2>1. PICK f \in updateMaskField(TypeAt(t, write.at)) : l = Append(write.at, Step(f, 0))
    BY <1>3 DEF MaskAt
  <2>2. f \in FieldsOf(TypeAt(t, write.at)) /\ isSingularMessage(f)
    BY <1>1, <2>1 DEF updateMaskField, ByName
  <2>3. f \in Field /\ Shape[f] = "singular" /\ HoldsMessage(f)
    BY <1>1, <2>2, FieldsAreFields DEF isSingularMessage
  <2> QED BY <2>1, <2>2, <2>3
<1> QED BY <1>2, <1>3 DEF Filling

LEMMA ReceivedIsMessage ==
  ASSUME NEW t \in Type, NEW c, DOMAIN c \subseteq Location, IsMessage(t, DOMAIN c),
         \A at \in DOMAIN c : Last(at).field \in Strings => Last(at).key = 0,
         NEW m, DOMAIN m \subseteq Location, WithoutServers(m), Kept(t, c, m)
  PROVE  IsMessage(t, DOMAIN m)
<1> DEFINE base == ClearFields(DOMAIN c, OutputOnly)
           IsFilled(l) == \E w \in ResourceWrites(t, m) : l \in Filling(t, w)
<1>1. IsMessage(t, base)
  BY ClearedIsMessage
<1>2. base \subseteq DOMAIN c /\ base \subseteq DOMAIN m
  BY DEF ClearFields, Kept
<1>3. \A l \in DOMAIN m : l \in base \/ IsFilled(l)
  BY DEF Kept, WithoutServers, ClearFields
<1> HIDE DEF base
<1>4. \A l \in base : Lies(t, base, l) /\ KeysFit(Last(l).field, Values(base, Front(l), Last(l).field))
  BY <1>1, MessageIs
\* A field that is filled in has one value, and lies in an entry that was sent.
<1>5. ASSUME NEW w \in ResourceWrites(t, m), NEW l \in Filling(t, w), l \in DOMAIN m
      PROVE  /\ Lies(t, DOMAIN m, l)
             /\ Shape[Last(l).field] = "singular" /\ Values(DOMAIN m, Front(l), Last(l).field) = {0}
  <2> DEFINE a == w.at
  <2>1. a \in Location /\ a \in DOMAIN m \cup {<<>>} /\ IsEntry(t, a)
    BY WriteFacts
  <2>2. PICK f \in Field : /\ l = Append(a, Step(f, 0))
                           /\ f \in FieldsOf(TypeAt(t, a)) /\ Shape[f] = "singular"
                           /\ f \in Strings \/ HoldsMessage(f)
    BY <1>5, FillingField
  <2> HIDE DEF a
  <2>3. 0 \in Key
    BY SchemaAssumption
  <2>4. /\ Front(l) = a /\ Last(l) = Step(f, 0) /\ Last(l).field = f
        /\ Len(l) = Len(a) + 1 /\ \A i \in 1 .. Len(a) : l[i] = a[i]
    BY <2>1, <2>2, <2>3, FrontOfAppend DEF Step
  <2>5. \A i \in 1 .. Len(a) : Shape[a[i].field] = "list" /\ HoldsMessage(a[i].field)
    BY <2>1 DEF IsEntry, batchField, Location
  <2>6. a \in base \cup {<<>>}
    <3>1. SUFFICES ASSUME a # <<>>, IsFilled(a) PROVE FALSE
      BY <1>3, <2>1
    <3>2. PICK v \in ResourceWrites(t, m) : a \in Filling(t, v)
      BY <3>1
    <3>3. PICK g \in Field : a = Append(v.at, Step(g, 0)) /\ Shape[g] = "singular"
      BY <3>2, FillingFacts
    <3>4. v.at \in Location
      BY WriteFacts
    <3>5. Last(a).field = g
      BY <2>3, <3>3, <3>4, FrontOfAppend DEF Step
    <3>6. Len(a) \in 1 .. Len(a)
      BY <2>1, <3>1, EmptySeq DEF Location
    <3> QED BY <2>5, <3>3, <3>5, <3>6 DEF Last
  <2>7. ASSUME NEW i \in 1 .. Len(l) - 1 PROVE SubSeq(l, 1, i) \in DOMAIN m /\ HoldsMessage(l[i].field)
    <3>1. i \in 1 .. Len(a) /\ Len(a) \in Nat /\ a \in Seq(StepSet) /\ l \in Seq(StepSet)
      BY <1>5, <2>1, <2>4 DEF Location
    <3>2. a \in base
      BY <2>6, <3>1, EmptySeq
    <3>3. SubSeq(l, 1, i) = SubSeq(a, 1, i)
      <4>1. i \in 0 .. Len(a) /\ i \in 0 .. Len(l)
        BY <2>4, <3>1
      <4>2. /\ SubSeq(a, 1, i) \in Seq(StepSet) /\ Len(SubSeq(a, 1, i)) = i
            /\ \A j \in 1 .. i : SubSeq(a, 1, i)[j] = a[j]
        BY <3>1, <4>1, BeginningIsPath
      <4>3. /\ SubSeq(l, 1, i) \in Seq(StepSet) /\ Len(SubSeq(l, 1, i)) = i
            /\ \A j \in 1 .. i : SubSeq(l, 1, i)[j] = l[j]
        BY <3>1, <4>1, BeginningIsPath
      <4>4. \A j \in 1 .. i : l[j] = a[j]
        BY <2>4, <3>1
      <4> QED BY <4>2, <4>3, <4>4, SeqEqual
    <3>4. CASE i = Len(a)
      <4>1. SubSeq(a, 1, Len(a)) = a
        BY <3>1
      <4> QED BY <1>2, <2>4, <2>5, <3>1, <3>2, <3>3, <3>4, <4>1
    <3>5. CASE i # Len(a)
      <4>1. i \in 1 .. Len(a) - 1
        BY <3>1, <3>5
      <4>2. SubSeq(a, 1, i) \in base
        BY <1>4, <3>2, <4>1 DEF Lies
      <4> QED BY <1>2, <2>4, <2>5, <3>1, <3>3, <4>2
    <3> QED BY <3>4, <3>5
  <2>8. l # <<>>
    BY <2>1, <2>4, EmptySeq DEF Location
  <2>9. Lies(t, DOMAIN m, l)
    BY <2>2, <2>4, <2>7, <2>8 DEF Lies
  <2>10. ASSUME NEW k \in Values(DOMAIN m, a, f) PROVE k = 0
    <3> DEFINE n == Append(a, Step(f, k))
    <3>1. k \in Key /\ n \in DOMAIN m
      BY DEF Values
    <3>2. Front(n) = a /\ Last(n) = Step(f, k) /\ Last(n).field = f /\ Last(n).key = k
      BY <2>1, <3>1, FrontOfAppend DEF Step
    <3>3. CASE n \in base
      <4>1. k \in Values(base, a, f)
        BY <3>1, <3>3 DEF Values
      <4> HIDE DEF n
      <4>2. f \in Strings => k = 0
        BY <1>2, <3>2, <3>3
      <4>3. HoldsMessage(f) => Values(base, a, f) = {0}
        BY <1>4, <2>2, <3>2, <3>3 DEF KeysFit
      <4> QED BY <2>2, <4>1, <4>2, <4>3
    <3>4. CASE IsFilled(n)
      <4>1. PICK v \in ResourceWrites(t, m) : n \in Filling(t, v)
        BY <3>4
      <4>2. PICK g \in Field : n = Append(v.at, Step(g, 0))
        BY <4>1, FillingFacts
      <4>3. v.at \in Location
        BY WriteFacts
      <4> HIDE DEF n
      <4>4. Last(n).key = 0
        BY <2>3, <4>2, <4>3, FrontOfAppend DEF Step
      <4> QED BY <3>2, <4>4
    <3> QED BY <1>3, <3>1, <3>3, <3>4
  <2>11. 0 \in Values(DOMAIN m, a, f)
    BY <1>5, <2>2, <2>3 DEF Values
  <2>12. Values(DOMAIN m, a, f) = {0}
    BY <2>10, <2>11
  <2> QED BY <2>2, <2>4, <2>9, <2>12
\* What was sent lies where it did; a field of it may be one that is filled in.
<1>6. ASSUME NEW l \in base
      PROVE  /\ Lies(t, DOMAIN m, l)
             /\ KeysFit(Last(l).field, Values(DOMAIN m, Front(l), Last(l).field))
  <2> DEFINE f == Last(l).field
             a == Front(l)
  <2>1. Lies(t, base, l) /\ KeysFit(f, Values(base, a, f))
    BY <1>4, <1>6
  <2>2. Lies(t, DOMAIN m, l)
    BY <1>2, <2>1 DEF Lies
  <2>3. a \in Location /\ f \in Field /\ l \in Location
    <3>1. l \in Seq(StepSet) /\ l # <<>>
      BY <1>2, <2>1 DEF Lies, Location
    <3>2. Len(l) \in 1 .. Len(l) /\ Len(l) - 1 \in 0 .. Len(l)
      BY <3>1, EmptySeq
    <3>3. l[Len(l)] \in StepSet
      BY <3>1, <3>2
    <3>4. SubSeq(l, 1, Len(l) - 1) \in Seq(StepSet)
      BY <3>1, <3>2, BeginningIsPath
    <3> QED BY <3>1, <3>3, <3>4 DEF Last, Front, StepSet, Location
  <2> HIDE DEF f, a
  <2>4. CASE \E k \in Values(DOMAIN m, a, f) : Append(a, Step(f, k)) \notin base
    <3>1. PICK k \in Values(DOMAIN m, a, f) : Append(a, Step(f, k)) \notin base
      BY <2>4
    <3> DEFINE n == Append(a, Step(f, k))
    <3>2. k \in Key /\ n \in DOMAIN m
      BY DEF Values
    <3>3. Front(n) = a /\ Last(n).field = f
      BY <2>3, <3>2, FrontOfAppend DEF Step
    <3>4. PICK v \in ResourceWrites(t, m) : n \in Filling(t, v)
      BY <1>3, <3>1, <3>2
    <3> HIDE DEF n
    <3>5. Shape[f] = "singular" /\ Values(DOMAIN m, a, f) = {0}
      BY <1>5, <3>2, <3>3, <3>4
    <3>6. KeysFit(f, Values(DOMAIN m, a, f))
      BY <3>5 DEF KeysFit
    <3> QED BY <2>2, <3>6 DEF f, a
  <2>5. CASE \A k \in Values(DOMAIN m, a, f) : Append(a, Step(f, k)) \in base
    <3>1. Values(DOMAIN m, a, f) = Values(base, a, f)
      BY <1>2, <2>5 DEF Values
    <3> QED BY <2>1, <2>2, <3>1 DEF f, a
  <2> QED BY <2>4, <2>5
<1>7. ASSUME NEW l \in DOMAIN m
      PROVE  /\ Lies(t, DOMAIN m, l)
             /\ KeysFit(Last(l).field, Values(DOMAIN m, Front(l), Last(l).field))
  <2>1. CASE l \in base
    BY <1>6, <2>1
  <2>2. CASE IsFilled(l)
    <3>1. Shape[Last(l).field] = "singular" /\ Values(DOMAIN m, Front(l), Last(l).field) = {0}
      BY <1>5, <1>7, <2>2
    <3>2. KeysFit(Last(l).field, Values(DOMAIN m, Front(l), Last(l).field))
      BY <3>1 DEF KeysFit
    <3> QED BY <1>5, <1>7, <2>2, <3>2
  <2> QED BY <1>3, <2>1, <2>2
<1> QED BY <1>7, MessageIs

----------------------------------------------------------------------------
(* The inductive invariant of the checks: what the loop over the resources *)
(* has found, at each resource it has still to visit, and what Receive     *)
(* then returns.                                                           *)

\* All that is to be found once the resources of visited are checked, each once
\* if no field is required twice.
IsFound(t, m, visited, found) ==
  /\ found \in Seq(Location)
  /\ ToSet(found) = ToSet(ruleViolations(t, m)) \cup UNION {UnsetOf(t, m, write) : write \in visited}
  /\ NoFieldIsRequiredTwice => ~Repeats(found)

Verdict(found) == IF found = <<>> THEN NoError ELSE Error("invalid_argument", found, badRequest(found))

IsAnswer(t, m, e) ==
  \/ e = Error("internal", <<>>, <<>>)
  \/ \E found : IsFound(t, m, ResourceWrites(t, m), found) /\ e = Verdict(found)

\* A Receive at step p, of message m.
IsChecked(p, t, m, ws, found, e) ==
  /\ t # NoType => IsFiniteSet(DOMAIN m)
  /\ p \notin {"fill", "required"} => ws = {}
  /\ p # "required" => found = <<>>
  /\ p = "required" => /\ ws \subseteq ResourceWrites(t, m)
                       /\ IsFound(t, m, ResourceWrites(t, m) \ ws, found)
  /\ p # "idle" => e = NoError
  /\ p = "idle" /\ t = NoType => \E code \in {"ok", "read"} : e = Error(code, <<>>, <<>>)
  /\ p = "idle" /\ t # NoType => IsAnswer(t, m, e)

Checked(s) == IsChecked(pc[s], type[s], message[s], writes[s], violations[s], error[s])

CheckInv == DOMAIN violations = Stream /\ \A s \in Stream : Checked(s)

\* Little is filled in at a time.
LEMMA FillingIsFinite ==
  ASSUME NEW t \in Type, NEW request, DOMAIN request \subseteq Location,
         NEW write \in ResourceWrites(t, request)
  PROVE  IsFiniteSet(Filling(t, write))
<1>1. ASSUME NEW S, \A k, l \in S : k = l PROVE IsFiniteSet(S)
  <2>1. CASE S = {}
    BY <2>1, FS_EmptySet
  <2>2. CASE S # {}
    <3>1. PICK l \in S : TRUE
      BY <2>2
    <3>2. S = {l}
      BY <1>1, <3>1
    <3> QED BY <3>2, FS_Singleton
  <2> QED BY <2>1, <2>2
<1>2. \A k, l \in IdAt(t, write) : k = l
  BY OneId
<1>3. \A k, l \in MaskAt(t, write) : k = l
  BY OneMask
<1>4. IsFiniteSet(IdAt(t, write)) /\ IsFiniteSet(MaskAt(t, write))
  BY <1>1, <1>2, <1>3
<1> QED BY <1>4, FS_Union DEF Filling

LEMMA FilledIsFinite ==
  ASSUME NEW t \in Type, NEW m, DOMAIN m \subseteq Location, IsFiniteSet(DOMAIN m),
         NEW write \in ResourceWrites(t, m), NEW new, FilledIn(t, m, write, new)
  PROVE  IsFiniteSet(DOMAIN new)
<1>1. CASE new = m
  BY <1>1
<1>2. CASE \E where \in SUBSET Filling(t, write) : \E value : new = Put(m, where, value)
  <2>1. PICK where \in SUBSET Filling(t, write) : \E value : new = Put(m, where, value)
    BY <1>2
  <2>2. DOMAIN new = DOMAIN m \cup where
    BY <2>1 DEF Put
  <2>3. IsFiniteSet(where)
    BY <2>1, FillingIsFinite, FS_Subset
  <2> QED BY <2>2, <2>3, FS_Union
<1> QED BY <1>1, <1>2 DEF FilledIn

\* A message in the handler's memory is one, and the masks in it are masks.
LEMMA MessageOfStream ==
  ASSUME IInv, NEW s \in Stream, type[s] # NoType
  PROVE  /\ type[s] \in DOMAIN Requests /\ type[s] \in Type
         /\ DOMAIN message[s] \subseteq Location /\ IsMessage(type[s], DOMAIN message[s])
<1>1. GoodMessage(pc[s], type[s], sent[s], message[s], writes[s])
  BY DEF IInv, Good
<1>2. /\ type[s] \in DOMAIN Requests /\ sent[s] \in Requests[type[s]] /\ type[s] \in Type
      /\ DOMAIN message[s] \subseteq Location /\ DOMAIN sent[s] \subseteq Location
      /\ IsRequest(type[s], sent[s])
  BY <1>1, Known DEF GoodMessage
<1>3. /\ IsMessage(type[s], DOMAIN sent[s])
      /\ \A at \in DOMAIN sent[s] : Last(at).field \in Strings => Last(at).key = 0
  BY <1>2 DEF IsRequest
<1>4. CASE pc[s] = "clear"
  BY <1>1, <1>2, <1>3, <1>4 DEF GoodMessage
<1>5. CASE pc[s] # "clear"
  <2>1. WithoutServers(message[s]) /\ Kept(type[s], sent[s], message[s])
    BY <1>1, <1>5 DEF GoodMessage
  <2>2. IsMessage(type[s], DOMAIN message[s])
    BY <1>2, <1>3, <2>1, ReceivedIsMessage
  <2> QED BY <1>2, <2>2
<1> QED BY <1>4, <1>5

LEMMA CheckedMaskIs ==
  ASSUME IInv, MaskInv, NEW s \in Stream, type[s] # NoType, pc[s] \notin {"clear", "fill"},
         NEW write \in ResourceWrites(type[s], message[s])
  PROVE  \/ CheckedMask(type[s], message[s], write) = NoMask
         \/ IsPaths(CheckedMask(type[s], message[s], write))
<1>1. CASE ~IsUpdate(type[s], write)
  BY <1>1 DEF CheckedMask
<1>2. CASE IsUpdate(type[s], write)
  <2>1. Masked(type[s], sent[s], message[s], {})
    BY DEF MaskInv, GoodMasks, ToFill
  <2>2. IsMasked(type[s], sent[s], message[s], write)
    BY <1>2, <2>1 DEF Masked
  <2>3. IsPaths(Mask(type[s], message[s], write))
    BY <2>2 DEF IsMasked
  <2> QED BY <1>2, <2>3 DEF CheckedMask
<1> QED BY <1>1, <1>2

----------------------------------------------------------------------------
(* What the loop finds.                                                    *)

\* Before it: what protovalidate found.
LEMMA FoundByTheRules ==
  ASSUME NEW t, NEW m, DOMAIN m \subseteq Location, IsFiniteSet(DOMAIN m)
  PROVE  IsFound(t, m, {}, ruleViolations(t, m))
<1>1. ruleViolations(t, m) \in Seq(Location) /\ ~Repeats(ruleViolations(t, m))
  BY RuleViolationsAre
<1> QED BY <1>1 DEF IsFound

\* What one resource lacks is not what another does.
LEMMA UnsetApart ==
  ASSUME NEW t \in Type, NEW m, DOMAIN m \subseteq Location,
         NEW write \in ResourceWrites(t, m), NEW other \in ResourceWrites(t, m),
         NEW l \in UnsetOf(t, m, write), l \in UnsetOf(t, m, other)
  PROVE  write = other
<1>1. \A w \in ResourceWrites(t, m) : ResourceType(w) \in Type /\ ResourceAt(w) \in Location
  BY WriteFacts, RequestAssumption DEF IsResource, ResourceType
<1>2. PICK p \in UnsetPaths(t, m, write) : l = FieldAt(write, p)
  BY <1>1, UnsetOfIs
<1>3. PICK q \in UnsetPaths(t, m, other) : l = FieldAt(other, q)
  BY <1>1, UnsetOfIs
<1>4. p \in Seq(Field) /\ q \in Seq(Field)
  BY <1>1, UnsetPathIs
<1>5. FieldAt(write, p) = FieldAt(other, q)
  BY <1>2, <1>3
<1> QED BY <1>4, <1>5, WritesApart

\* At a resource: what it lacks, which was not found before.
LEMMA FoundAtAResource ==
  ASSUME NEW t \in Type, NEW m, DOMAIN m \subseteq Location, IsFiniteSet(DOMAIN m),
         IsMessage(t, DOMAIN m),
         NEW visited \in SUBSET ResourceWrites(t, m), NEW write \in ResourceWrites(t, m),
         write \notin visited,
         CheckedMask(t, m, write) = NoMask \/ IsPaths(CheckedMask(t, m, write)),
         NEW found, IsFound(t, m, visited, found)
  PROVE  IsFound(t, m, visited \cup {write}, found \o requiredViolations(t, m, write))
<1> DEFINE more   == requiredViolations(t, m, write)
           rules  == ToSet(ruleViolations(t, m))
           before == UNION {UnsetOf(t, m, w) : w \in visited}
<1>1. more \in Seq(Location) /\ ToSet(more) = UnsetOf(t, m, write) /\ ~Repeats(more)
  BY RequiredViolationsAre
<1>2. /\ found \in Seq(Location) /\ ToSet(found) = rules \cup before
      /\ NoFieldIsRequiredTwice => ~Repeats(found)
  BY DEF IsFound
<1>3. \A at \in rules : Last(at).field \in RuleRequired
  BY RuleViolationsAre
<1>4. \A at \in UnsetOf(t, m, write) : HasKind(Last(at).field, Required)
  BY UnsetOfIs, WriteFacts, RequestAssumption DEF IsResource, ResourceType
<1>5. UNION {UnsetOf(t, m, w) : w \in visited \cup {write}} = before \cup UnsetOf(t, m, write)
  OBVIOUS
<1>6. \A at \in before : at \notin UnsetOf(t, m, write)
  <2>1. SUFFICES ASSUME NEW at \in before, at \in UnsetOf(t, m, write) PROVE FALSE
    OBVIOUS
  <2>2. PICK w \in visited : at \in UnsetOf(t, m, w)
    BY <2>1
  <2>3. w = write
    BY <2>1, <2>2, UnsetApart
  <2> QED BY <2>2, <2>3
<1> HIDE DEF more, rules, before
<1>7. /\ found \o more \in Seq(Location) /\ ToSet(found \o more) = ToSet(found) \cup ToSet(more)
      /\ ~Repeats(found) /\ ~Repeats(more) /\ ToSet(found) \cap ToSet(more) = {} => ~Repeats(found \o more)
  BY <1>1, <1>2, Concatenation
<1>8. NoFieldIsRequiredTwice => ToSet(found) \cap ToSet(more) = {}
  <2>1. NoFieldIsRequiredTwice => \A at \in rules : at \notin UnsetOf(t, m, write)
    BY <1>3, <1>4 DEF NoFieldIsRequiredTwice
  <2> QED BY <1>1, <1>2, <1>6, <2>1
<1>9. NoFieldIsRequiredTwice => ~Repeats(found \o more)
  BY <1>1, <1>2, <1>7, <1>8
<1>10. ToSet(found \o more) = rules \cup (before \cup UnsetOf(t, m, write))
  BY <1>1, <1>2, <1>7
<1>11. /\ found \o more \in Seq(Location)
       /\ ToSet(found \o more) = rules \cup UNION {UnsetOf(t, m, w) : w \in visited \cup {write}}
       /\ NoFieldIsRequiredTwice => ~Repeats(found \o more)
  BY <1>5, <1>7, <1>9, <1>10
<1> QED BY <1>11 DEF IsFound, more, rules

----------------------------------------------------------------------------
(* Each step keeps the invariant of the checks.                            *)

\* Nothing happens on the other streams.
StepOn(s) ==
  /\ \A r \in Stream \ {s} : /\ pc'[r] = pc[r] /\ type'[r] = type[r] /\ message'[r] = message[r]
                             /\ writes'[r] = writes[r] /\ violations'[r] = violations[r]
                             /\ error'[r] = error[r]
  /\ DOMAIN violations' = Stream

LEMMA ChecksOf ==
  ASSUME CheckInv, NEW s \in Stream, StepOn(s), Checked(s)'
  PROVE  CheckInv'
<1>1. ASSUME NEW r \in Stream PROVE Checked(r)'
  <2>1. CASE r = s
    BY <2>1
  <2>2. CASE r # s
    BY <2>2 DEF CheckInv, StepOn, Checked
  <2> QED BY <2>1, <2>2
<1> QED BY <1>1 DEF CheckInv, StepOn

LEMMA ReadChecks ==
  ASSUME IInv, CheckInv, NEW s \in Stream, NEW t \in DOMAIN Requests, NEW m \in Requests[t], Read(s, t, m)
  PROVE  CheckInv'
<1>1. Typed /\ DOMAIN violations = Stream /\ Checked(s)
  BY DEF IInv, CheckInv
<1>2. /\ StepOn(s) /\ pc[s] = "idle" /\ pc'[s] = "clear" /\ type'[s] = t /\ message'[s] = m
      /\ writes'[s] = writes[s] /\ violations'[s] = violations[s] /\ error'[s] = NoError
  BY <1>1 DEF Read, Typed, StepOn
<1>3. IsFiniteSet(DOMAIN m)
  BY Known DEF IsRequest
<1>4. writes[s] = {} /\ violations[s] = <<>>
  BY <1>1, <1>2 DEF Checked, IsChecked
<1>5. IsChecked("clear", t, m, {}, <<>>, NoError)
  BY <1>3 DEF IsChecked
<1>6. Checked(s)'
  BY <1>2, <1>4, <1>5 DEF Checked
<1> QED BY <1>2, <1>6, ChecksOf

LEMMA ReadNothingChecks ==
  ASSUME IInv, CheckInv, NEW s \in Stream, NEW code \in {"ok", "read"}, ReadNothing(s, code)
  PROVE  CheckInv'
<1>1. Typed /\ DOMAIN violations = Stream /\ Checked(s)
  BY DEF IInv, CheckInv
<1>2. /\ StepOn(s) /\ pc[s] = "idle" /\ pc'[s] = "idle" /\ type'[s] = NoType
      /\ writes'[s] = writes[s] /\ violations'[s] = violations[s]
      /\ error'[s] = Error(code, <<>>, <<>>)
  BY <1>1 DEF ReadNothing, Typed, StepOn
<1>3. writes[s] = {} /\ violations[s] = <<>>
  BY <1>1, <1>2 DEF Checked, IsChecked
<1>4. IsChecked("idle", NoType, message'[s], {}, <<>>, Error(code, <<>>, <<>>))
  BY DEF IsChecked
<1>5. Checked(s)'
  BY <1>2, <1>3, <1>4 DEF Checked
<1> QED BY <1>2, <1>5, ChecksOf

LEMMA ClearChecks ==
  ASSUME IInv, CheckInv, NEW s \in Stream, Clear(s)
  PROVE  CheckInv'
<1>1. Typed /\ DOMAIN violations = Stream /\ Checked(s) /\ Good(s)
  BY DEF IInv, CheckInv
<1>2. /\ StepOn(s) /\ pc[s] = "clear" /\ pc'[s] = "fill" /\ type'[s] = type[s]
      /\ message'[s] = Cleared(message[s], OutputOnly)
      /\ violations'[s] = violations[s] /\ error'[s] = error[s]
  BY <1>1 DEF Clear, Typed, StepOn
<1>3. type[s] # NoType
  BY <1>1, <1>2 DEF Good
<1>4. IsFiniteSet(DOMAIN message[s]) /\ violations[s] = <<>> /\ error[s] = NoError
  BY <1>1, <1>2, <1>3 DEF Checked, IsChecked
<1>5. DOMAIN message'[s] \subseteq DOMAIN message[s]
  BY <1>2 DEF Cleared, ClearFields
<1>6. IsFiniteSet(DOMAIN message'[s])
  BY <1>4, <1>5, FS_Subset
<1>7. IsChecked("fill", type[s], message'[s], writes'[s], <<>>, NoError)
  BY <1>6 DEF IsChecked
<1>8. Checked(s)'
  BY <1>2, <1>4, <1>7 DEF Checked
<1> QED BY <1>2, <1>8, ChecksOf

LEMMA FillChecks ==
  ASSUME IInv, CheckInv, NEW s \in Stream, NEW write, NEW new, Fill(s, write, new),
         FilledIn(type[s], message[s], write, new)
  PROVE  CheckInv'
<1>1. Typed /\ DOMAIN violations = Stream /\ Checked(s) /\ Good(s)
  BY DEF IInv, CheckInv
<1>2. /\ StepOn(s) /\ pc[s] = "fill" /\ pc'[s] = "fill" /\ type'[s] = type[s] /\ message'[s] = new
      /\ violations'[s] = violations[s] /\ error'[s] = error[s] /\ write \in writes[s]
  BY <1>1 DEF Fill, Visits, Typed, StepOn
<1>3. type[s] # NoType
  BY <1>1, <1>2 DEF Good
<1>4. IsFiniteSet(DOMAIN message[s]) /\ violations[s] = <<>> /\ error[s] = NoError
  BY <1>1, <1>2, <1>3 DEF Checked, IsChecked
<1>5. /\ type[s] \in Type /\ DOMAIN message[s] \subseteq Location
      /\ write \in ResourceWrites(type[s], message[s])
  BY <1>2, Visited
<1>6. IsFiniteSet(DOMAIN new)
  BY <1>4, <1>5, FilledIsFinite
<1>7. IsChecked("fill", type[s], new, writes'[s], <<>>, NoError)
  BY <1>6 DEF IsChecked
<1>8. Checked(s)'
  BY <1>2, <1>4, <1>7 DEF Checked
<1> QED BY <1>2, <1>8, ChecksOf

LEMMA FillStepsCheck ==
  ASSUME IInv, CheckInv, NEW s \in Stream, NEW write \in writes[s],
         MintID(s, write) \/ KeepID(s, write) \/ ImplyMask(s, write) \/ FilterMask(s, write)
  PROVE  CheckInv'
<1>1. \A mask : FilledIn(type[s], message[s], write, SetMask(type[s], message[s], write, mask))
  BY DEF FilledIn, SetMask, Filling
<1>2. \A id : FilledIn(type[s], message[s], write, SetID(type[s], message[s], write, id))
  BY DEF FilledIn, SetID, Filling
<1>3. FilledIn(type[s], message[s], write, message[s])
  BY DEF FilledIn
<1>4. CASE MintID(s, write)
  BY <1>2, <1>4, FillChecks DEF MintID
<1>5. CASE KeepID(s, write)
  BY <1>3, <1>5, FillChecks DEF KeepID
<1>6. CASE ImplyMask(s, write)
  BY <1>1, <1>6, FillChecks DEF ImplyMask
<1>7. CASE FilterMask(s, write)
  BY <1>1, <1>7, FillChecks DEF FilterMask
<1> QED BY <1>4, <1>5, <1>6, <1>7

LEMMA EndFillChecks ==
  ASSUME IInv, CheckInv, NEW s \in Stream, EndFill(s)
  PROVE  CheckInv'
<1>1. Typed /\ DOMAIN violations = Stream /\ Checked(s)
  BY DEF IInv, CheckInv
<1>2. /\ StepOn(s) /\ pc[s] = "fill" /\ writes[s] = {} /\ pc'[s] = "rules"
      /\ type'[s] = type[s] /\ message'[s] = message[s] /\ writes'[s] = writes[s]
      /\ violations'[s] = violations[s] /\ error'[s] = error[s]
  BY <1>1 DEF EndFill, Typed, StepOn
<1>3. /\ type[s] # NoType => IsFiniteSet(DOMAIN message[s])
      /\ violations[s] = <<>> /\ error[s] = NoError
  BY <1>1, <1>2 DEF Checked, IsChecked
<1>4. IsChecked("rules", type[s], message[s], {}, <<>>, NoError)
  BY <1>3 DEF IsChecked
<1>5. Checked(s)'
  BY <1>2, <1>3, <1>4 DEF Checked
<1> QED BY <1>2, <1>5, ChecksOf

LEMMA RulesFailChecks ==
  ASSUME IInv, CheckInv, NEW s \in Stream, RulesFail(s)
  PROVE  CheckInv'
<1>1. Typed /\ DOMAIN violations = Stream /\ Checked(s) /\ Good(s)
  BY DEF IInv, CheckInv
<1>2. /\ StepOn(s) /\ pc[s] = "rules" /\ pc'[s] = "idle"
      /\ type'[s] = type[s] /\ message'[s] = message[s] /\ writes'[s] = writes[s]
      /\ violations'[s] = violations[s] /\ error'[s] = Error("internal", <<>>, <<>>)
  BY <1>1 DEF RulesFail, Typed, StepOn
<1>3. type[s] # NoType
  BY <1>1, <1>2 DEF Good
<1>4. IsFiniteSet(DOMAIN message[s]) /\ writes[s] = {} /\ violations[s] = <<>>
  BY <1>1, <1>2, <1>3 DEF Checked, IsChecked
<1>5. IsAnswer(type[s], message[s], Error("internal", <<>>, <<>>))
  BY DEF IsAnswer
<1>6. IsChecked("idle", type[s], message[s], {}, <<>>, Error("internal", <<>>, <<>>))
  BY <1>3, <1>4, <1>5 DEF IsChecked
<1>7. Checked(s)'
  BY <1>2, <1>4, <1>6 DEF Checked
<1> QED BY <1>2, <1>7, ChecksOf

LEMMA CheckRulesChecks ==
  ASSUME IInv, CheckInv, NEW s \in Stream, CheckRules(s)
  PROVE  CheckInv'
<1> DEFINE t     == type[s]
           m     == message[s]
           found == ruleViolations(t, m)
           ws    == ResourceWrites(t, m)
<1>1. Typed /\ DOMAIN violations = Stream /\ Checked(s) /\ Good(s)
  BY DEF IInv, CheckInv
<1>2. /\ StepOn(s) /\ pc[s] = "rules" /\ pc'[s] = "required"
      /\ type'[s] = t /\ message'[s] = m /\ writes'[s] = ws
      /\ violations'[s] = found /\ error'[s] = error[s]
  BY <1>1 DEF CheckRules, Typed, StepOn
<1>3. t # NoType
  BY <1>1, <1>2 DEF Good
<1>4. IsFiniteSet(DOMAIN m) /\ error[s] = NoError
  BY <1>1, <1>2, <1>3 DEF Checked, IsChecked
<1>5. DOMAIN m \subseteq Location
  BY <1>3, MessageOfStream
<1>6. IsFound(t, m, {}, found)
  BY <1>4, <1>5, FoundByTheRules
<1>7. ws \ ws = {}
  OBVIOUS
<1> HIDE DEF found, t, m
<1>8. IsChecked("required", t, m, ws, found, NoError)
  BY <1>4, <1>6, <1>7 DEF IsChecked
<1>9. Checked(s)'
  BY <1>2, <1>4, <1>8 DEF Checked
<1> QED BY <1>2, <1>9, ChecksOf

LEMMA CheckRequiredChecks ==
  ASSUME IInv, MaskInv, CheckInv, NEW s \in Stream, NEW write, CheckRequired(s, write)
  PROVE  CheckInv'
<1> DEFINE t     == type[s]
           m     == message[s]
           found == violations[s] \o requiredViolations(t, m, write)
           all   == ResourceWrites(t, m)
           ws    == writes[s] \ {write}
<1>1. Typed /\ DOMAIN violations = Stream /\ Checked(s) /\ Good(s)
  BY DEF IInv, CheckInv
<1>2. /\ StepOn(s) /\ pc[s] = "required" /\ pc'[s] = "required" /\ write \in writes[s]
      /\ type'[s] = t /\ message'[s] = m /\ writes'[s] = ws
      /\ violations'[s] = found /\ error'[s] = error[s]
  BY <1>1 DEF CheckRequired, Visits, Typed, StepOn
<1>3. t # NoType
  BY <1>1, <1>2 DEF Good
<1>4. /\ IsFiniteSet(DOMAIN m) /\ error[s] = NoError
      /\ writes[s] \subseteq all /\ IsFound(t, m, all \ writes[s], violations[s])
  BY <1>1, <1>2, <1>3 DEF Checked, IsChecked
<1>5. t \in Type /\ DOMAIN m \subseteq Location /\ IsMessage(t, DOMAIN m)
  BY <1>3, MessageOfStream
<1>6. write \in all /\ write \notin all \ writes[s] /\ all \ ws = (all \ writes[s]) \cup {write}
  BY <1>2, <1>4
<1>7. CheckedMask(t, m, write) = NoMask \/ IsPaths(CheckedMask(t, m, write))
  BY <1>2, <1>3, <1>6, CheckedMaskIs
<1>8. IsFound(t, m, (all \ writes[s]) \cup {write}, found)
  BY <1>4, <1>5, <1>6, <1>7, FoundAtAResource
<1>9. ws \subseteq all /\ IsFound(t, m, all \ ws, found)
  BY <1>4, <1>6, <1>8
<1> HIDE DEF found, t, m, ws
<1>10. IsChecked("required", t, m, ws, found, NoError)
  BY <1>4, <1>9 DEF IsChecked
<1>11. Checked(s)'
  BY <1>2, <1>4, <1>10 DEF Checked
<1> QED BY <1>2, <1>11, ChecksOf

LEMMA AnswerChecks ==
  ASSUME IInv, CheckInv, NEW s \in Stream, Answer(s)
  PROVE  CheckInv'
<1> DEFINE t     == type[s]
           m     == message[s]
           found == violations[s]
           all   == ResourceWrites(t, m)
<1>1. Typed /\ DOMAIN violations = Stream /\ Checked(s) /\ Good(s)
  BY DEF IInv, CheckInv
<1>2. /\ StepOn(s) /\ pc[s] = "required" /\ writes[s] = {} /\ pc'[s] = "idle"
      /\ type'[s] = t /\ message'[s] = m /\ writes'[s] = {} /\ violations'[s] = <<>>
      /\ error'[s] = Verdict(found)
  BY <1>1 DEF Answer, Typed, StepOn, Verdict
<1>3. t # NoType
  BY <1>1, <1>2 DEF Good
<1>4. IsFiniteSet(DOMAIN m) /\ IsFound(t, m, all \ writes[s], found)
  BY <1>1, <1>2, <1>3 DEF Checked, IsChecked
<1>5. all \ writes[s] = all
  BY <1>2
<1>6. IsAnswer(t, m, Verdict(found))
  BY <1>4, <1>5 DEF IsAnswer
<1> HIDE DEF found, t, m
<1>7. IsChecked("idle", t, m, {}, <<>>, Verdict(found))
  BY <1>3, <1>4, <1>6 DEF IsChecked
<1>8. Checked(s)'
  BY <1>2, <1>7 DEF Checked
<1> QED BY <1>2, <1>8, ChecksOf

LEMMA InitChecks == Init => CheckInv
<1>1. SUFFICES ASSUME Init, NEW s \in Stream PROVE Checked(s)
  BY DEF Init, CheckInv
<1>2. /\ pc[s] = "idle" /\ type[s] = NoType /\ writes[s] = {} /\ violations[s] = <<>>
      /\ error[s] = Error("ok", <<>>, <<>>)
  BY <1>1 DEF Init, NoError
<1>3. IsChecked("idle", NoType, message[s], {}, <<>>, Error("ok", <<>>, <<>>))
  BY DEF IsChecked
<1> QED BY <1>2, <1>3 DEF Checked

LEMMA NextChecks == IInv /\ MaskInv /\ CheckInv /\ [Next]_vars => CheckInv'
<1>1. SUFFICES ASSUME IInv, MaskInv, CheckInv, [Next]_vars PROVE CheckInv'
  OBVIOUS
<1>2. CASE UNCHANGED vars
  BY <1>1, <1>2 DEF vars, CheckInv, Checked
<1>3. CASE Next
  <2>1. PICK s \in Stream : \/ \E t \in DOMAIN Requests : \E m \in Requests[t] : Read(s, t, m)
                            \/ \E code \in {"ok", "read"} : ReadNothing(s, code)
                            \/ Proceed(s)
    BY <1>3 DEF Next
  <2>2. ASSUME NEW t \in DOMAIN Requests, NEW m \in Requests[t], Read(s, t, m)
        PROVE  CheckInv'
    BY <1>1, <2>2, ReadChecks
  <2>3. ASSUME NEW code \in {"ok", "read"}, ReadNothing(s, code)
        PROVE  CheckInv'
    BY <1>1, <2>3, ReadNothingChecks
  <2>4. ASSUME NEW write \in writes[s],
               MintID(s, write) \/ KeepID(s, write) \/ ImplyMask(s, write) \/ FilterMask(s, write)
        PROVE  CheckInv'
    BY <1>1, <2>4, FillStepsCheck
  <2>5. CASE Clear(s) \/ EndFill(s)
    BY <1>1, <2>5, ClearChecks, EndFillChecks
  <2>6. CASE RulesFail(s) \/ CheckRules(s)
    BY <1>1, <2>6, RulesFailChecks, CheckRulesChecks
  <2>7. ASSUME NEW write \in writes[s], CheckRequired(s, write)
        PROVE  CheckInv'
    BY <1>1, <2>7, CheckRequiredChecks
  <2>8. CASE Answer(s)
    BY <1>1, <2>8, AnswerChecks
  <2> QED BY <2>1, <2>2, <2>3, <2>4, <2>5, <2>6, <2>7, <2>8 DEF Proceed
<1> QED BY <1>1, <1>2, <1>3

\* A Receive that checks a message has found what the resources it visited lack,
\* and one that is done has returned all that the message lacks.
THEOREM CheckInvariant == Spec => [](IInv /\ MaskInv /\ CheckInv)
<1>1. Init => IInv /\ MaskInv /\ CheckInv
  BY InitIInv, InitMasks, InitChecks
<1>2. IInv /\ MaskInv /\ CheckInv /\ [Next]_vars => (IInv /\ MaskInv /\ CheckInv)'
  BY NextIInv, NextMasks, NextChecks
<1> QED BY <1>1, <1>2, PTL DEF Spec

----------------------------------------------------------------------------
(* The theorems on the checks.                                             *)

\* Of a state of the invariant: a Receive that is done, and what it returned.
LEMMA ReturnedError ==
  ASSUME CheckInv, NEW s \in Stream, Returned(s)
  PROVE  \/ error[s] = Error("internal", <<>>, <<>>)
         \/ \E found : /\ IsFound(type[s], message[s], ResourceWrites(type[s], message[s]), found)
                       /\ error[s] = Verdict(found)
  BY DEF CheckInv, Checked, IsChecked, Returned, IsAnswer

LEMMA AnyError ==
  ASSUME CheckInv, NEW s \in Stream
  PROVE  \/ \E code \in {"ok", "read", "internal"} : error[s] = Error(code, <<>>, <<>>)
         \/ \E found : /\ IsFound(type[s], message[s], ResourceWrites(type[s], message[s]), found)
                       /\ error[s] = Error("invalid_argument", found, badRequest(found))
<1>1. Checked(s)
  BY DEF CheckInv
<1>2. CASE pc[s] # "idle"
  BY <1>1, <1>2 DEF Checked, IsChecked, NoError
<1>3. CASE pc[s] = "idle" /\ type[s] = NoType
  <2>1. \E code \in {"ok", "read"} : error[s] = Error(code, <<>>, <<>>)
    BY <1>1, <1>3 DEF Checked, IsChecked
  <2> QED BY <2>1
<1>4. CASE pc[s] = "idle" /\ type[s] # NoType
  BY <1>4, ReturnedError DEF Returned, Verdict, NoError
<1> QED BY <1>2, <1>3, <1>4

\* The parts of an error.
LEMMA PartsOfError ==
  ASSUME NEW code, NEW found, NEW held
  PROVE  /\ Error(code, found, held).code = code
         /\ Error(code, found, held).violations = found
         /\ Error(code, found, held).badRequest = held
  BY DEF Error

\* What is read, held and returned has its type, on every stream at every step.
THEOREM TypeCorrect == Spec => []TypeOK
<1>1. IInv /\ MaskInv /\ CheckInv => TypeOK
  <2>1. SUFFICES ASSUME IInv, MaskInv, CheckInv PROVE TypeOK
    OBVIOUS
  <2>2. Typed
    BY <2>1 DEF IInv
  <2>3. ASSUME NEW s \in Stream
        PROVE  /\ pc[s] \in {"idle", "clear", "fill", "rules", "required"}
               /\ type[s] \in DOMAIN Requests \cup {NoType}
               /\ type[s] # NoType => IsMessage(type[s], DOMAIN message[s])
               /\ error[s].code \in {"ok", "read", "internal", "invalid_argument"}
    <3>1. pc[s] \in {"idle", "clear", "fill", "rules", "required"}
      BY <2>2 DEF Typed
    <3>2. type[s] # NoType => type[s] \in DOMAIN Requests /\ IsMessage(type[s], DOMAIN message[s])
      BY <2>1, MessageOfStream
    <3>3. error[s].code \in {"ok", "read", "internal", "invalid_argument"}
      BY <2>1, AnyError, PartsOfError
    <3> QED BY <3>1, <3>2, <3>3
  <2>4. ASSUME NEW s \in Stream, NEW write \in writes[s]
        PROVE  ResourceAt(write) \in DOMAIN message[s]
    <3>1. Checked(s) /\ Good(s)
      BY <2>1 DEF CheckInv, IInv
    <3>2. pc[s] \in {"fill", "required"}
      BY <2>4, <3>1 DEF Checked, IsChecked
    <3>3. type[s] # NoType
      BY <3>1, <3>2 DEF Good
    <3>4. type[s] \in Type /\ DOMAIN message[s] \subseteq Location
      BY <2>1, <3>3, MessageOfStream
    <3>5. write \in ResourceWrites(type[s], message[s])
      <4>1. CASE pc[s] = "fill"
        BY <2>1, <2>4, <4>1, Visited
      <4>2. CASE pc[s] = "required"
        BY <2>4, <3>1, <4>2 DEF Checked, IsChecked
      <4> QED BY <3>2, <4>1, <4>2
    <3> QED BY <3>4, <3>5, WriteFacts
  <2>5. ASSUME NEW s \in Stream, NEW i \in DOMAIN violations[s]
        PROVE  \/ HasKind(Last(violations[s][i]).field, Required)
               \/ Last(violations[s][i]).field \in RuleRequired
    <3> DEFINE t  == type[s]
               m  == message[s]
               at == violations[s][i]
    <3>1. Checked(s) /\ Good(s)
      BY <2>1 DEF CheckInv, IInv
    <3>2. pc[s] = "required"
      <4>1. DOMAIN <<>> = {}
        OBVIOUS
      <4>2. violations[s] # <<>>
        BY <2>5, <4>1
      <4> QED BY <3>1, <4>2 DEF Checked, IsChecked
    <3>3. t # NoType
      BY <3>1, <3>2 DEF Good
    <3>4. t \in Type /\ DOMAIN m \subseteq Location /\ IsFiniteSet(DOMAIN m)
      BY <2>1, <3>1, <3>3, MessageOfStream DEF Checked, IsChecked
    <3>5. IsFound(t, m, ResourceWrites(t, m) \ writes[s], violations[s])
      BY <3>1, <3>2 DEF Checked, IsChecked
    <3>6. at \in ToSet(violations[s])
      BY DEF ToSet
    <3>7. CASE at \in ToSet(ruleViolations(t, m))
      BY <3>4, <3>7, RuleViolationsAre
    <3>8. CASE \E write \in ResourceWrites(t, m) : at \in UnsetOf(t, m, write)
      <4>1. PICK write \in ResourceWrites(t, m) : at \in UnsetOf(t, m, write)
        BY <3>8
      <4>2. ResourceType(write) \in Type /\ ResourceAt(write) \in Location
        BY <3>4, WriteFacts, RequestAssumption DEF IsResource, ResourceType
      <4> QED BY <4>1, <4>2, UnsetOfIs
    <3> QED BY <3>5, <3>6, <3>7, <3>8 DEF IsFound
  <2> QED BY <2>2, <2>3, <2>4, <2>5 DEF TypeOK, Typed
<1> QED BY <1>1, CheckInvariant, PTL

\* A message is refused if and only if protovalidate or a resource's annotations
\* find something missing, and the error then names all of that and nothing else:
\* whatever the schema, the requests and the other streams.
THEOREM TheMissingIsNamed == Spec => []NamesExactlyTheMissing
<1>1. CheckInv => NamesExactlyTheMissing
  <2>1. SUFFICES ASSUME CheckInv, NEW s \in Stream, Returned(s), error[s].code # "internal"
                 PROVE  /\ ToSet(error[s].violations) = Missing(type[s], message[s])
                        /\ error[s].code = "ok" <=> Missing(type[s], message[s]) = {}
    BY DEF NamesExactlyTheMissing
  <2> DEFINE missing == Missing(type[s], message[s])
  <2>2. error[s] # Error("internal", <<>>, <<>>)
    BY <2>1, PartsOfError
  <2>3. PICK found : /\ IsFound(type[s], message[s], ResourceWrites(type[s], message[s]), found)
                     /\ error[s] = Verdict(found)
    BY <2>1, <2>2, ReturnedError
  <2>4. found \in Seq(Location) /\ ToSet(found) = missing
    BY <2>3 DEF IsFound, Missing
  <2> HIDE DEF missing
  <2>5. error[s].violations = found /\ (error[s].code = "ok" <=> found = <<>>)
    <3>1. CASE found = <<>>
      BY <2>3, <3>1, PartsOfError DEF Verdict, NoError
    <3>2. CASE found # <<>>
      <4>1. error[s] = Error("invalid_argument", found, badRequest(found))
        BY <2>3, <3>2 DEF Verdict
      <4>2. error[s].violations = found /\ error[s].code = "invalid_argument"
        BY <4>1, PartsOfError
      <4> QED BY <3>2, <4>2
    <3> QED BY <3>1, <3>2
  <2>6. missing = {} <=> found = <<>>
    <3>1. found = <<>> => ToSet(found) = {}
      BY DEF ToSet
    <3>2. found # <<>> => 1 \in DOMAIN found
      BY <2>4
    <3>3. found # <<>> => found[1] \in ToSet(found)
      BY <3>2 DEF ToSet
    <3> QED BY <2>4, <3>1, <3>3
  <2> QED BY <2>4, <2>5, <2>6 DEF missing
<1> QED BY <1>1, CheckInvariant, PTL

\* Where no field is required by protovalidate and by its annotation alike, the
\* error names it once, too: no two entries, nor the two checks, report one field.
THEOREM TheIncompleteIsRefused ==
  ASSUME NoFieldIsRequiredTwice
  PROVE  Spec => []RefusesExactlyTheIncomplete
<1>1. CheckInv => \A s \in Stream : ~Repeats(error[s].violations)
  <2>1. SUFFICES ASSUME CheckInv, NEW s \in Stream PROVE ~Repeats(error[s].violations)
    OBVIOUS
  <2>2. CASE \E code \in {"ok", "read", "internal"} : error[s] = Error(code, <<>>, <<>>)
    <3>1. error[s].violations = <<>>
      BY <2>2, PartsOfError
    <3> QED BY <3>1 DEF Repeats
  <2>3. CASE \E found : /\ IsFound(type[s], message[s], ResourceWrites(type[s], message[s]), found)
                        /\ error[s] = Error("invalid_argument", found, badRequest(found))
    <3>1. PICK found : /\ IsFound(type[s], message[s], ResourceWrites(type[s], message[s]), found)
                       /\ error[s] = Error("invalid_argument", found, badRequest(found))
      BY <2>3
    <3>2. error[s].violations = found /\ ~Repeats(found)
      BY <3>1, PartsOfError DEF IsFound
    <3> QED BY <3>2
  <2> QED BY <2>1, <2>2, <2>3, AnyError
<1> QED BY <1>1, CheckInvariant, TheMissingIsNamed, PTL DEF RefusesExactlyTheIncomplete

\* The BadRequest of an error holds its first violations, as many as fit.
THEOREM TheBadRequestHoldsWhatFits == Spec => []BadRequestHoldsWhatFits
<1>1. CheckInv => BadRequestHoldsWhatFits
  <2>1. SUFFICES ASSUME CheckInv, NEW s \in Stream
                 PROVE  LET found == error[s].violations
                            held  == error[s].badRequest
                        IN /\ IsPrefix(held, found)
                           /\ Size(held) <= maxBadRequestBytes
                           /\ held # found => Size(SubSeq(found, 1, Len(held) + 1)) > maxBadRequestBytes
    BY DEF BadRequestHoldsWhatFits
  <2>2. CASE \E code \in {"ok", "read", "internal"} : error[s] = Error(code, <<>>, <<>>)
    <3>1. error[s].violations = <<>> /\ error[s].badRequest = <<>>
      BY <2>2, PartsOfError
    <3>2. <<>> \in Seq(Seq(StepSet))
      BY EmptySeq
    <3>3. Size(<<>>) = 0
      BY <3>2, SizeIs
    <3>4. IsPrefix(<<>>, <<>>)
      BY EmptySeq DEF IsPrefix
    <3> QED BY <3>1, <3>3, <3>4, StreamAssumption
  <2>3. CASE \E found : /\ IsFound(type[s], message[s], ResourceWrites(type[s], message[s]), found)
                        /\ error[s] = Error("invalid_argument", found, badRequest(found))
    <3>1. PICK found : /\ IsFound(type[s], message[s], ResourceWrites(type[s], message[s]), found)
                       /\ error[s] = Error("invalid_argument", found, badRequest(found))
      BY <2>3
    <3>2. error[s].violations = found /\ error[s].badRequest = badRequest(found)
      BY <3>1, PartsOfError
    <3>3. found \in Seq(Seq(StepSet))
      BY <3>1 DEF IsFound, Location
    <3> QED BY <3>2, <3>3, BadRequestIs
  <2> QED BY <2>1, <2>2, <2>3, AnyError
<1> QED BY <1>1, CheckInvariant, PTL

----------------------------------------------------------------------------
(* An update without a mask.                                               *)

\* What is filled in has the key of a singular field: another value was sent.
LEMMA ValueAsSent ==
  ASSUME NEW t \in Type, NEW c, NEW m, DOMAIN m \subseteq Location, Kept(t, c, m),
         NEW l \in DOMAIN m, Last(l).key # 0
  PROVE  l \in DOMAIN c
<1>1. ASSUME NEW write \in ResourceWrites(t, m) PROVE l \notin Filling(t, write)
  <2>1. SUFFICES ASSUME l \in Filling(t, write) PROVE FALSE
    OBVIOUS
  <2>2. PICK f \in Field : l = Append(write.at, Step(f, 0))
    BY <2>1, FillingFacts
  <2>3. write.at \in Location
    BY WriteFacts
  <2>4. 0 \in Key
    BY SchemaAssumption
  <2>5. Last(l) = Step(f, 0)
    BY <2>2, <2>3, <2>4, FrontOfAppend
  <2> QED BY <2>5 DEF Step
<1> QED BY <1>1 DEF Kept

\* What a resource has and lacks at once is a -0.0 that its client sent, in a field
\* without a presence bit.
LEMMA HasAndLacks ==
  ASSUME NEW t \in Type, NEW c, NEW m, DOMAIN m \subseteq Location, Kept(t, c, m),
         NEW write \in ResourceWrites(t, m), NEW f \in Field,
         Has(Resource(m, write), <<>>, f), ~isFieldPopulated(Resource(m, write), <<>>, f)
  PROVE  \E at \in DOMAIN c : Last(at).key = NegativeZero /\ ~HasPresence(Last(at).field)
<1> DEFINE held == Resource(m, write)
           l    == Append(ResourceAt(write), Step(f, NegativeZero))
<1>1. NegativeZero \in Key /\ NegativeZero # 0 /\ ResourceAt(write) \in Location
  BY WriteFacts, SchemaAssumption DEF NegativeZero
<1>2. ~HasPresence(f) /\ Values(held, <<>>, f) \ {NegativeZero} = {} /\ Values(held, <<>>, f) # {}
  BY DEF isFieldPopulated, Has
<1>3. Append(<<>>, Step(f, NegativeZero)) \in held
  BY <1>2 DEF Values
<1>4. Append(<<>>, Step(f, NegativeZero)) = <<Step(f, NegativeZero)>>
  OBVIOUS
<1>5. Step(f, NegativeZero) \in StepSet
  BY <1>1, AnyStep, EmptySeq DEF Location
<1>6. PICK at \in DOMAIN m : /\ IsStrictPrefix(ResourceAt(write), at)
                             /\ SubSeq(at, Len(ResourceAt(write)) + 1, Len(at)) = <<Step(f, NegativeZero)>>
  BY <1>3, <1>4 DEF Resource
<1>7. at = l
  BY <1>1, <1>5, <1>6, TopOfResource
<1>8. Last(l) = Step(f, NegativeZero)
  BY <1>1, FrontOfAppend
<1>9. Last(at).key = NegativeZero /\ Last(at).field = f
  BY <1>7, <1>8 DEF Step
<1>10. at \in DOMAIN c
  BY <1>1, <1>9, ValueAsSent
<1> QED BY <1>2, <1>9, <1>10

\* Where no client sends a -0.0 in a field without presence, an update without a
\* mask is refused for no field of its resource that the client left out, save for
\* one of protovalidate's.
THEOREM AnOmittedMaskWritesNothingUnset ==
  ASSUME NoNegativeZero
  PROVE  Spec => []OmittedMaskWritesNothingUnset
<1>1. IInv /\ MaskInv /\ CheckInv => OmittedMaskWritesNothingUnset
  <2>1. SUFFICES ASSUME IInv, MaskInv, CheckInv, NEW s \in Stream, Returned(s), NEW write \in Updates(s),
                        Mask(type[s], sent[s], write) = <<>>,
                        NEW violation \in ToSet(error[s].violations),
                        Front(violation) = ResourceAt(write),
                        Last(violation).field \notin RuleRequired
                 PROVE  FALSE
    BY DEF OmittedMaskWritesNothingUnset
  <2> DEFINE t    == type[s]
             c    == sent[s]
             m    == message[s]
             T    == ResourceType(write)
             mask == Mask(t, m, write)
  <2>2. /\ pc[s] = "idle" /\ t # NoType
        /\ write \in ResourceWrites(t, m) /\ IsUpdate(t, write)
    BY <2>1 DEF Returned, Updates
  <2>3. GoodMessage("idle", t, c, m, writes[s]) /\ GoodMasks(s)
    BY <2>1, <2>2 DEF IInv, Good, MaskInv
  <2>4. /\ t \in DOMAIN Requests /\ c \in Requests[t]
        /\ t \in Type /\ DOMAIN m \subseteq Location /\ DOMAIN c \subseteq Location
        /\ WithoutServers(m) /\ Kept(t, c, m)
    BY <2>3, Known DEF GoodMessage
  <2>5. IsMasked(t, c, m, write)
    BY <2>2, <2>3 DEF GoodMasks, ToFill, Masked
  <2>6. /\ IsPaths(mask)
        /\ ToSet(mask) = {<<Name[g]>> : g \in {h \in FieldsOf(T) :
                            isWritable(h) /\ Has(DOMAIN c, ResourceAt(write), h)}}
    BY <2>1, <2>5 DEF IsMasked
  <2>7. T \in Type /\ ResourceAt(write) \in Location
    BY <2>2, <2>4, WriteFacts, RequestAssumption DEF IsResource, ResourceType
  <2>8. PICK found : /\ IsFound(t, m, ResourceWrites(t, m), found)
                     /\ error[s].violations = found
    <3>1. error[s].violations # <<>>
      BY <2>1 DEF ToSet
    <3> QED BY <2>1, <3>1, AnyError, PartsOfError
  <2>9. IsFiniteSet(DOMAIN m)
    BY <2>1, <2>2 DEF CheckInv, Checked, IsChecked
  <2>10. PICK other \in ResourceWrites(t, m) : violation \in UnsetOf(t, m, other)
    <3>1. violation \notin ToSet(ruleViolations(t, m))
      BY <2>1, <2>4, <2>9, RuleViolationsAre
    <3> QED BY <2>1, <2>8, <3>1 DEF IsFound
  <2>11. ResourceType(other) \in Type /\ ResourceAt(other) \in Location
    BY <2>4, <2>10, WriteFacts, RequestAssumption DEF IsResource, ResourceType
  <2>12. PICK p \in UnsetPaths(t, m, other) : violation = FieldAt(other, p)
    BY <2>10, <2>11, UnsetOfIs
  <2>13. p \in Seq(Field) /\ p # <<>> /\ IsFieldPath(ResourceType(other), p)
    BY <2>11, <2>12, UnsetPathIs
  <2>14. write = other /\ Len(p) = 1
    <3>1. Front(FieldAt(other, p)) = ResourceAt(write)
      BY <2>1, <2>12
    <3> QED BY <2>2, <2>4, <2>10, <2>13, <3>1, FieldOfOwnResource
  <2> DEFINE f == p[1]
  <2>15. f \in Field /\ f \in FieldsOf(T) /\ p = <<f>>
    BY <2>13, <2>14 DEF IsFieldPath
  <2>16. /\ IsUnset(Resource(m, write), Required, ToSet(mask), <<f>>)
    <3>1. PathsOf(CheckedMask(t, m, write)) = ToSet(mask)
      <4>1. mask # NoMask
        BY <2>6, WalkAssumption DEF IsPaths
      <4> QED BY <2>2, <4>1 DEF CheckedMask, PathsOf
    <3> QED BY <2>12, <2>14, <2>15, <3>1 DEF UnsetPaths
  <2> HIDE DEF mask, f, T, t, c, m
  <2>17. Named(ToSet(mask), f).whole /\ ~isFieldPopulated(Resource(m, write), <<>>, f)
    BY <2>15, <2>16, UnsetField
  <2>18. <<Name[f]>> \in ToSet(mask)
    <3>1. ToSet(mask) \subseteq Seq(STRING)
      BY <2>6, SeqOfItsElements DEF IsPaths
    <3>2. ToSet(mask) # EveryField
      BY <3>1, EveryFieldIsOfNoMask
    <3> QED BY <2>17, <3>2 DEF Named, maskedPaths
  <2>19. PICK g \in FieldsOf(T) : /\ <<Name[f]>> = <<Name[g]>> /\ isWritable(g)
                                  /\ Has(DOMAIN c, ResourceAt(write), g)
    BY <2>6, <2>18
  <2>20. f = g
    <3>1. Name[f] = Name[g]
      BY <2>19
    <3>2. f \in ByName(T, Name[f]) /\ g \in ByName(T, Name[f])
      BY <2>7, <2>15, <2>19, <3>1, SchemaAssumption DEF ByName, T
    <3> QED BY <2>7, <3>2, ByNameOnce DEF T
  <2>21. Has(DOMAIN m, ResourceAt(write), f)
    BY <2>2, <2>4, <2>15, <2>19, <2>20, WritableAsSent DEF t, m
  <2>22. Has(Resource(m, write), <<>>, f)
    BY <2>4, <2>7, <2>15, <2>21, HasOfResource
  <2>23. \E at \in DOMAIN c : Last(at).key = NegativeZero /\ ~HasPresence(Last(at).field)
    BY <2>2, <2>4, <2>15, <2>17, <2>22, HasAndLacks DEF t, m
  <2> QED BY <2>4, <2>23 DEF NoNegativeZero
<1> QED BY <1>1, CheckInvariant, PTL

----------------------------------------------------------------------------
(* The bound on depth.                                                     *)

\* Nothing is filled in beneath a resource.
LEMMA BeneathAsSent ==
  ASSUME NEW t \in Type, NEW c, DOMAIN c \subseteq Location,
         NEW m, DOMAIN m \subseteq Location, Kept(t, c, m), NEW write \in ResourceWrites(t, m)
  PROVE  Resource(m, write) \subseteq Resource(c, write)
<1> DEFINE at == ResourceAt(write)
<1>1. /\ write.at \in Location /\ write.field \in Field /\ IsResource(write.field)
      /\ at = Append(write.at, Step(write.field, 0)) /\ at \in Location
  BY WriteFacts
<1>2. /\ Len(at) = Len(write.at) + 1 /\ at[Len(write.at) + 1].field = write.field
      /\ Len(write.at) \in Nat
  BY <1>1, StepFacts DEF Location
<1> HIDE DEF at
<1>3. ASSUME NEW l \in DOMAIN m, IsStrictPrefix(at, l) PROVE l \in DOMAIN c
  <2>1. ASSUME NEW w \in ResourceWrites(t, m), l \in Filling(t, w) PROVE FALSE
    <3>1. PICK g \in Field : l = Append(w.at, Step(g, 0))
      BY <2>1, FillingFacts
    <3>2. w.at \in Location /\ IsEntry(t, w.at)
      BY WriteFacts
    <3>3. Len(l) = Len(w.at) + 1 /\ \A i \in 1 .. Len(w.at) : l[i] = w.at[i]
      BY <3>1, <3>2, StepFacts
    <3>4. at \in Seq(StepSet) /\ l \in Seq(StepSet) /\ w.at \in Seq(StepSet)
      BY <1>1, <3>2 DEF Location
    <3> DEFINE k == SubSeq(l, Len(at) + 1, Len(l))
    <3>5. k \in Seq(StepSet) /\ k # <<>> /\ l = at \o k
      BY <1>3, <3>4, StrictPrefixOf
    <3> HIDE DEF k
    <3>6. Len(l) > Len(at) /\ \A i \in 1 .. Len(at) : l[i] = at[i]
      BY <3>4, <3>5, ConcatProperties
    <3>7. Len(write.at) + 1 \in 1 .. Len(w.at) /\ Len(write.at) + 1 \in 1 .. Len(at)
      BY <1>2, <3>3, <3>4, <3>6
    <3>8. w.at[Len(write.at) + 1] = at[Len(write.at) + 1]
      BY <3>3, <3>6, <3>7
    <3>9. DOMAIN w.at = 1 .. Len(w.at)
      BY <3>4
    <3>10. Shape[w.at[Len(write.at) + 1].field] = "list"
      BY <3>2, <3>7, <3>9 DEF IsEntry, batchField
    <3> QED BY <1>1, <1>2, <3>8, <3>10 DEF IsResource, isSingularMessage
  <2> QED BY <2>1 DEF Kept
<1> QED BY <1>3 DEF Resource, at

\* So what is checked of a message lies within the bound that what is sent does.
LEMMA CheckedIsShallow ==
  ASSUME IInv, MaskInv, NEW s \in Stream, Returned(s), NEW write \in ResourceWrites(type[s], message[s])
  PROVE  /\ IsShallow(Resource(message[s], write))
         /\ AreShallow(CheckedMask(type[s], message[s], write))
<1> DEFINE t     == type[s]
           c     == sent[s]
           m     == message[s]
           asked == Mask(t, c, write)
           given == Mask(t, m, write)
<1>1. pc[s] = "idle" /\ t # NoType
  BY DEF Returned
<1>2. GoodMessage("idle", t, c, m, writes[s])
  BY <1>1 DEF IInv, Good
<1>3. /\ t \in DOMAIN Requests /\ c \in Requests[t] /\ IsRequest(t, c)
      /\ t \in Type /\ DOMAIN m \subseteq Location /\ DOMAIN c \subseteq Location /\ Kept(t, c, m)
  BY <1>2, Known DEF GoodMessage
<1>4. write \in ResourceWrites(t, c)
  BY <1>3, WritesAsSent
<1>5. IsShallow(Resource(m, write))
  <2>1. IsShallow(Resource(c, write)) /\ Resource(m, write) \subseteq Resource(c, write)
    BY <1>3, <1>4, BeneathAsSent DEF IsRequest
  <2> QED BY <2>1 DEF IsShallow
<1>6. CASE ~IsUpdate(t, write)
  BY <1>5, <1>6 DEF CheckedMask, AreShallow
<1>7. CASE IsUpdate(t, write)
  <2>1. IsPaths(asked) /\ AreShallow(asked)
    BY <1>1, <1>7, PathsAsSent
  <2>2. IsMasked(t, c, m, write)
    BY <1>1, <1>7 DEF MaskInv, GoodMasks, ToFill, Masked
  <2> HIDE DEF asked, given
  <2>3. \A path \in ToSet(given) : Len(path) <= MaxDepth
    <3>1. CASE asked = <<>>
      <4>1. ASSUME NEW path \in ToSet(given) PROVE Len(path) = 1
        <5>1. PICK f \in FieldsOf(ResourceType(write)) : path = <<Name[f]>>
          BY <2>2, <3>1 DEF IsMasked, asked, given
        <5> QED BY <5>1
      <4>2. 1 <= MaxDepth
        BY WalkAssumption
      <4> QED BY <4>1, <4>2
    <3>2. CASE asked # <<>>
      <4>1. given = ClearFieldMask(ResourceType(write), OutputOnly, asked)
        BY <2>2, <3>2 DEF IsMasked, asked, given
      <4>2. ToSet(given) \subseteq ToSet(asked)
        BY <2>1, <4>1, ClearedMaskPaths
      <4>3. asked # NoMask
        BY <2>1, WalkAssumption DEF IsPaths
      <4> QED BY <2>1, <4>2, <4>3 DEF AreShallow
    <3> QED BY <3>1, <3>2
  <2>4. AreShallow(given)
    BY <2>3 DEF AreShallow
  <2>5. CheckedMask(t, m, write) = given
    BY <1>7 DEF CheckedMask, given
  <2> QED BY <1>5, <2>4, <2>5
<1> QED BY <1>6, <1>7

\* The REQUIRED fields, at any depth, a resource lacks of what its write is to set.
UnsetAtAnyDepth(t, request, write) ==
  {p \in Seq(Field) :
     /\ IsFieldPath(ResourceType(write), p)
     /\ IsUnset(Resource(request, write), Required, PathsOf(CheckedMask(t, request, write)), p)}

\* MaxDepth bounds the requests and not what they lack: of a message Receive is done
\* with, what an error is to name (Missing) leaves out no field for its depth.
THEOREM NothingIsLeftOutForItsDepth ==
  Spec => [](\A s \in Stream : Returned(s) =>
               \A write \in ResourceWrites(type[s], message[s]) :
                 UnsetPaths(type[s], message[s], write) = UnsetAtAnyDepth(type[s], message[s], write))
<1> DEFINE Whole == \A s \in Stream : Returned(s) =>
                      \A write \in ResourceWrites(type[s], message[s]) :
                        UnsetPaths(type[s], message[s], write) = UnsetAtAnyDepth(type[s], message[s], write)
<1>1. IInv /\ MaskInv => Whole
  <2>1. SUFFICES ASSUME IInv, MaskInv, NEW s \in Stream, Returned(s),
                        NEW write \in ResourceWrites(type[s], message[s])
                 PROVE  UnsetPaths(type[s], message[s], write) = UnsetAtAnyDepth(type[s], message[s], write)
    OBVIOUS
  <2> DEFINE T    == ResourceType(write)
             held == Resource(message[s], write)
             mask == CheckedMask(type[s], message[s], write)
  <2>2. type[s] # NoType /\ pc[s] = "idle"
    BY <2>1 DEF Returned
  <2>3. type[s] \in Type /\ DOMAIN message[s] \subseteq Location
    BY <2>1, <2>2, MessageOfStream
  <2>4. T \in Type /\ ResourceAt(write) \in Location
    BY <2>3, WriteFacts, RequestAssumption DEF IsResource, ResourceType
  <2>5. held \in SUBSET Location
    BY <2>3, <2>4, InResource
  <2>6. mask = NoMask \/ mask \in Seq(Seq(STRING))
    BY <2>1, <2>2, CheckedMaskIs DEF IsPaths
  <2>7. IsShallow(held) /\ AreShallow(mask)
    BY <2>1, CheckedIsShallow
  <2> HIDE DEF T, held, mask
  <2>8. ASSUME NEW p \in Seq(Field), IsFieldPath(T, p), IsUnset(held, Required, PathsOf(mask), p)
        PROVE  Len(p) <= MaxDepth
    BY <2>4, <2>5, <2>6, <2>7, <2>8, NoneBeyondTheBound
  <2>9. \A p : p \in FieldPaths[T] <=> p \in Seq(Field) /\ IsFieldPath(T, p) /\ Len(p) <= MaxDepth
    BY <2>4, FieldPathsIs
  <2>10. {p \in FieldPaths[T] : IsUnset(held, Required, PathsOf(mask), p)}
         = {p \in Seq(Field) : IsFieldPath(T, p) /\ IsUnset(held, Required, PathsOf(mask), p)}
    BY <2>8, <2>9
  <2> QED BY <2>10 DEF UnsetPaths, UnsetAtAnyDepth, T, held, mask
<1> QED BY <1>1, MaskInvariant, PTL

=============================================================================
