---------------------------- MODULE ClearWalkProofs ----------------------------
(***************************************************************************)
(* Proofs about ClearWalk for every schema, message, kind and order of the *)
(* ranges.                                                                 *)
(***************************************************************************)
EXTENDS ClearWalk, SequenceTheorems, TLAPS

\* Location p is q or lies beneath it, step by step.
Within(q, p) == Len(q) <= Len(p) /\ \A i \in 1 .. Len(q) : p[i] = q[i]

\* The call will clear p itself or leave it to a call it is still to make.
Covers(call, p) ==
  \/ /\ Len(call.at) < Len(p)
     /\ Within(call.at, p)
     /\ \/ p[Len(call.at) + 1].field \in call.fields
        \/ \E j \in DOMAIN call.clear : call.clear[j] = p[Len(call.at) + 1].field
  \/ \E q \in call.nested : Within(q, p)

\* A message is a tree: with a location every message it lies in.
Tree(m) ==
  \A at \in m : /\ at # <<>>
                /\ \A i \in 1 .. Len(at) - 1 : SubSeq(at, 1, i) \in m /\ HoldsMessage(at[i].field)

Typed == stack \in Seq(Call) /\ kind \in Kinds /\ message \subseteq Location

\* No call in progress works beneath a field that is to be cleared, and what it
\* has collected is.
Clean ==
  \A i \in DOMAIN stack :
    /\ ~PassesThrough(kind, stack[i].at)
    /\ \A q \in stack[i].nested : ~PassesThrough(kind, q) /\ Len(q) = Len(stack[i].at) + 1
    /\ \A j \in DOMAIN stack[i].clear : HasKind(stack[i].clear[j], kind)

\* The calls work ever deeper.
Deeper == \A i, j \in DOMAIN stack : i < j => Len(stack[i].at) < Len(stack[j].at)

\* Whatever is still to be cleared is covered by a call in progress.
Pending ==
  \A p \in message : PassesThrough(kind, p) => \E i \in DOMAIN stack : Covers(stack[i], p)

IInv ==
  /\ Typed
  /\ IsMessage(Resource, original)
  /\ message \subseteq original
  /\ Tree(message)
  /\ KeepsTheRest
  /\ Clean
  /\ Deeper
  /\ Pending

----------------------------------------------------------------------------
(* Locations.                                                              *)

\* IsPrefix, which compares subsequences, is Within.
LEMMA PrefixIsWithin ==
  ASSUME NEW q \in Location, NEW p \in Location
  PROVE  IsPrefix(q, p) <=> Within(q, p)
<1>1. /\ SubSeq(q, 1, Len(q)) = [i \in 1 .. Len(q) |-> q[i]]
      /\ Len(q) <= Len(p) => SubSeq(p, 1, Len(q)) = [i \in 1 .. Len(q) |-> p[i]]
  BY DEF Location
<1> QED
  BY <1>1 DEF IsPrefix, Within, Location

\* What lies beneath a location that is to be cleared is to be cleared too.
LEMMA PassesDown ==
  ASSUME NEW q \in Location, NEW p \in Location, NEW k, Within(q, p), PassesThrough(k, q)
  PROVE  PassesThrough(k, p)
  BY DEF Within, PassesThrough, Location

LEMMA SameLength ==
  ASSUME NEW q \in Location, NEW p \in Location, Within(q, p), p # q
  PROVE  Len(q) < Len(p)
  BY DEF Within, Location

\* A location within a message, deeper than it, lies within the value of one of
\* the message's own fields.
LEMMA StepDown ==
  ASSUME NEW m \in SUBSET Location, Tree(m), NEW p \in m, NEW at \in Location,
         Within(at, p), Len(at) < Len(p)
  PROVE  LET s == p[Len(at) + 1]
         IN /\ s \in StepSet
            /\ s = Step(s.field, s.key)
            /\ Append(at, s) \in m
            /\ Append(at, s) \in Location
            /\ Within(Append(at, s), p)
            /\ s.field \in Populated(m, at)
<1> DEFINE n == Len(at) + 1
           s == p[n]
<1>1. p \in Seq(StepSet) /\ at \in Seq(StepSet) /\ n \in 1 .. Len(p) /\ n \in Nat
  BY DEF Location
<1>2. s \in StepSet /\ s = Step(s.field, s.key) /\ s.field \in Field /\ s.key \in Key
  <2>1. s \in StepSet
    BY <1>1
  <2>2. \A x \in StepSet : x = Step(x.field, x.key) /\ x.field \in Field /\ x.key \in Key
    BY DEF StepSet, Step
  <2> QED
    BY <2>1, <2>2
<1>3. Append(at, s) \in Location /\ Len(Append(at, s)) = n
  BY <1>1, <1>2 DEF Location
<1>4. Within(Append(at, s), p)
  BY <1>1, <1>2 DEF Within
<1>5. SubSeq(p, 1, n) = Append(at, s)
  <2>1. SubSeq(p, 1, n) \in Seq(StepSet) /\ Len(SubSeq(p, 1, n)) = n
    BY <1>1
  <2>2. \A i \in 1 .. n : SubSeq(p, 1, n)[i] = Append(at, s)[i]
    BY <1>1, <1>2, <1>4 DEF Within
  <2> QED
    BY <1>3, <2>1, <2>2 DEF Location
<1>6. Append(at, s) \in m
  <2>1. CASE n = Len(p)
    <3>1. SubSeq(p, 1, n) = p
      BY <1>1, <2>1
    <3> QED
      BY <1>5, <3>1
  <2>2. CASE n < Len(p)
    <3>1. n \in 1 .. Len(p) - 1
      BY <1>1, <2>2
    <3>2. SubSeq(p, 1, n) \in m
      BY <3>1 DEF Tree
    <3> QED
      BY <1>5, <3>2
  <2> QED
    BY <1>1, <2>1, <2>2
<1>7. s.field \in Populated(m, at)
  BY <1>2, <1>6 DEF Populated, Has, Values
<1> QED
  BY <1>2, <1>3, <1>4, <1>6, <1>7

LEMMA PassesAppend ==
  ASSUME NEW at \in Location, NEW s \in StepSet, NEW k
  PROVE  PassesThrough(k, Append(at, s)) <=> PassesThrough(k, at) \/ HasKind(s.field, k)
<1>1. /\ Len(Append(at, s)) = Len(at) + 1
      /\ \A i \in 1 .. Len(at) : Append(at, s)[i] = at[i]
      /\ Append(at, s)[Len(at) + 1] = s
  BY DEF Location
<1>2. /\ DOMAIN Append(at, s) = 1 .. Len(at) + 1
      /\ DOMAIN at = 1 .. Len(at)
      /\ Len(at) \in Nat
  BY DEF Location
<1> QED
  BY <1>1, <1>2 DEF PassesThrough

----------------------------------------------------------------------------
(* The stack of calls.                                                     *)

LEMMA TopCall ==
  ASSUME stack \in Seq(Call), stack # <<>>
  PROVE  /\ Len(stack) \in Nat /\ Len(stack) > 0 /\ DOMAIN stack = 1 .. Len(stack)
         /\ Top = stack[Len(stack)] /\ Top \in Call
  BY DEF Top, Last

LEMMA FrontCalls ==
  ASSUME stack \in Seq(Call), stack # <<>>
  PROVE  /\ Front(stack) \in Seq(Call)
         /\ Len(Front(stack)) = Len(stack) - 1
         /\ \A i \in 1 .. Len(stack) - 1 : Front(stack)[i] = stack[i]
<1>1. Len(stack) \in Nat /\ Len(stack) > 0
  OBVIOUS
<1>2. \A n \in Nat : n > 0 => n = 1 \/ n > 1
  OBVIOUS
<1>3. CASE Len(stack) = 1
  <2>1. Front(stack) = <<>>
    BY <1>3, SubSeqEmpty DEF Front
  <2> QED
    BY <1>3, <2>1
<1>4. CASE Len(stack) > 1
  <2>1. Len(stack) - 1 \in 1 .. Len(stack)
    BY <1>1, <1>4
  <2> QED
    BY <2>1 DEF Front
<1> QED
  BY <1>1, <1>2, <1>3, <1>4

LEMMA ReplaceTop ==
  ASSUME stack \in Seq(Call), stack # <<>>, NEW c \in Call
  PROVE  LET new == Append(Front(stack), c)
         IN /\ new \in Seq(Call) /\ Len(new) = Len(stack) /\ DOMAIN new = 1 .. Len(stack)
            /\ \A i \in 1 .. Len(stack) - 1 : new[i] = stack[i]
            /\ new[Len(stack)] = c
<1>1. /\ Front(stack) \in Seq(Call)
      /\ Len(Front(stack)) = Len(stack) - 1
      /\ \A i \in 1 .. Len(stack) - 1 : Front(stack)[i] = stack[i]
  BY FrontCalls
<1> QED
  BY <1>1

\* A call that is not the innermost is one of those before it.
LEMMA NotLast ==
  \A n \in Nat : /\ \A i \in 1 .. n : i # n => i \in 1 .. n - 1
                 /\ \A i \in 1 .. n + 1 : i # n + 1 => i \in 1 .. n
                 /\ \A i \in 1 .. n - 1 : i \in 1 .. n
                 /\ \A i \in 1 .. n : i \in 1 .. n + 1
                 /\ n + 1 \in 1 .. n + 1
                 /\ n > 0 => n \in 1 .. n
  OBVIOUS

\* What a list holds once an element is appended to it.
LEMMA AppendElements ==
  ASSUME NEW S, NEW s \in Seq(S), NEW e \in S
  PROVE  /\ Append(s, e) \in Seq(S)
         /\ \A j \in DOMAIN Append(s, e) : Append(s, e)[j] = e \/ \E i \in DOMAIN s : Append(s, e)[j] = s[i]
         /\ \E j \in DOMAIN Append(s, e) : Append(s, e)[j] = e
         /\ \A i \in DOMAIN s : i \in DOMAIN Append(s, e) /\ Append(s, e)[i] = s[i]
<1>1. /\ Len(s) \in Nat /\ DOMAIN s = 1 .. Len(s) /\ DOMAIN Append(s, e) = 1 .. Len(s) + 1
      /\ Append(s, e)[Len(s) + 1] = e
      /\ \A i \in 1 .. Len(s) : Append(s, e)[i] = s[i]
  OBVIOUS
<1>2. \A j \in 1 .. Len(s) + 1 : j = Len(s) + 1 \/ j \in 1 .. Len(s)
  BY <1>1
<1>3. Len(s) + 1 \in 1 .. Len(s) + 1 /\ \A i \in 1 .. Len(s) : i \in 1 .. Len(s) + 1
  BY <1>1
<1>4. Append(s, e) \in Seq(S)
  OBVIOUS
<1> QED
  BY <1>1, <1>2, <1>3, <1>4

LEMMA TailElements ==
  ASSUME NEW S, NEW s \in Seq(S), s # <<>>
  PROVE  /\ Head(s) \in S /\ Head(s) = s[1] /\ 1 \in DOMAIN s
         /\ Tail(s) \in Seq(S)
         /\ \A j \in DOMAIN Tail(s) : j + 1 \in DOMAIN s /\ Tail(s)[j] = s[j + 1]
         /\ \A j \in DOMAIN s : j = 1 \/ (j - 1 \in DOMAIN Tail(s) /\ s[j] = Tail(s)[j - 1])
<1>1. /\ Len(s) \in Nat /\ Len(s) > 0 /\ DOMAIN s = 1 .. Len(s)
      /\ DOMAIN Tail(s) = 1 .. Len(s) - 1
      /\ \A j \in 1 .. Len(s) - 1 : Tail(s)[j] = s[j + 1]
  OBVIOUS
<1>2. /\ \A j \in 1 .. Len(s) - 1 : j + 1 \in 1 .. Len(s)
      /\ \A j \in 1 .. Len(s) : j = 1 \/ (j - 1 \in 1 .. Len(s) - 1 /\ (j - 1) + 1 = j)
      /\ 1 \in 1 .. Len(s)
  BY <1>1
<1>3. Head(s) \in S /\ Head(s) = s[1] /\ Tail(s) \in Seq(S)
  OBVIOUS
<1> QED
  BY <1>1, <1>2, <1>3

LEMMA NewCallType ==
  ASSUME NEW at \in Location
  PROVE  NewCall(at) \in Call
  BY DEF NewCall, Call, Populated

\* Everything in a message is covered by a new call on a message it lies in.
LEMMA NewCallCovers ==
  ASSUME Tree(message), message \subseteq Location, NEW p \in message, NEW at \in Location,
         Within(at, p), Len(at) < Len(p)
  PROVE  Covers(NewCall(at), p)
<1>1. p[Len(at) + 1].field \in Populated(message, at)
  BY StepDown
<1>2. NewCall(at).at = at /\ NewCall(at).fields = Populated(message, at)
  BY DEF NewCall
<1> QED
  BY <1>1, <1>2 DEF Covers

----------------------------------------------------------------------------
LEMMA InitIInv == Init => IInv
<1> SUFFICES ASSUME Init
             PROVE  IInv
  OBVIOUS
<1>1. <<>> \in Location /\ Len(<<>>) = 0
  BY DEF Location
<1>2. message \subseteq Location /\ IsMessage(Resource, message) /\ original = message
  BY MessagesAssumption DEF Init
<1>3. Tree(message)
  BY <1>2 DEF Tree, IsMessage
<1>4. stack = <<NewCall(<<>>)>> /\ NewCall(<<>>) \in Call
  BY <1>1, NewCallType DEF Init
<1>5. /\ stack \in Seq(Call) /\ DOMAIN stack = {1} /\ stack[1] = NewCall(<<>>)
      /\ stack[1].at = <<>> /\ stack[1].nested = {} /\ stack[1].clear = <<>>
  BY <1>4 DEF NewCall
<1>6. Typed
  BY <1>2, <1>5 DEF Typed, Init
<1>7. KeepsTheRest
  BY <1>2 DEF KeepsTheRest, ClearFields
<1>8. Clean /\ Deeper
  BY <1>1, <1>5 DEF Clean, Deeper, PassesThrough
<1>9. Pending
  <2> SUFFICES ASSUME NEW p \in message
               PROVE  Covers(stack[1], p)
    BY <1>5 DEF Pending
  <2>1. p # <<>> /\ p \in Location
    BY <1>2, <1>3 DEF Tree
  <2>2. Len(p) > 0 /\ Within(<<>>, p)
    BY <2>1 DEF Within, Location
  <2> QED
    BY <1>1, <1>2, <1>3, <1>5, <2>2, NewCallCovers
<1> QED
  BY <1>2, <1>3, <1>6, <1>7, <1>8, <1>9 DEF IInv

----------------------------------------------------------------------------
(* The steps.  Collect and Visit replace the top of the stack by a call    *)
(* that covers what it covered.                                            *)

LEMMA ReplaceKeepsIInv ==
  ASSUME IInv, stack # <<>>, NEW c \in Call, SetTop(c), UNCHANGED <<kind, original>>,
         message' \subseteq message, Tree(message'), KeepsTheRest',
         c.at = Top.at,
         \A q \in c.nested : ~PassesThrough(kind, q) /\ Len(q) = Len(c.at) + 1,
         \A j \in DOMAIN c.clear : HasKind(c.clear[j], kind),
         \A p \in message' : PassesThrough(kind, p) /\ Covers(Top, p) => Covers(c, p)
  PROVE  IInv'
<1> DEFINE n == Len(stack)
<1>1. /\ n \in Nat /\ n > 0 /\ DOMAIN stack = 1 .. n
      /\ Top = stack[n] /\ Top \in Call
  BY TopCall DEF IInv, Typed
<1>2. /\ stack' \in Seq(Call) /\ DOMAIN stack' = 1 .. n
      /\ \A i \in 1 .. n - 1 : stack'[i] = stack[i]
      /\ stack'[n] = c
  BY ReplaceTop DEF SetTop, IInv, Typed
<1>3. Typed' /\ IsMessage(Resource, original)' /\ (message \subseteq original)' /\ Tree(message)' /\ KeepsTheRest'
  BY <1>2 DEF IInv, Typed
<1>4. Clean'
  <2> SUFFICES ASSUME NEW i \in 1 .. n
               PROVE  /\ ~PassesThrough(kind, stack'[i].at)
                      /\ \A q \in stack'[i].nested : ~PassesThrough(kind, q) /\ Len(q) = Len(stack'[i].at) + 1
                      /\ \A j \in DOMAIN stack'[i].clear : HasKind(stack'[i].clear[j], kind)
    BY <1>2 DEF Clean
  <2>1. CASE i = n
    BY <1>1, <1>2, <2>1 DEF IInv, Clean
  <2>2. CASE i # n
    <3>1. i \in 1 .. n - 1
      BY <1>1, <2>2, NotLast
    <3>2. stack'[i] = stack[i]
      BY <1>2, <3>1
    <3> QED
      BY <1>1, <3>2 DEF IInv, Clean
  <2> QED
    BY <2>1, <2>2
<1>5. Deeper'
  <2>1. \A i \in 1 .. n : stack'[i].at = stack[i].at
    BY <1>1, <1>2
  <2> QED
    BY <1>1, <1>2, <2>1 DEF IInv, Deeper
<1>6. Pending'
  <2> SUFFICES ASSUME NEW p \in message', PassesThrough(kind, p)
               PROVE  \E i \in 1 .. n : Covers(stack'[i], p)
    BY <1>2 DEF Pending
  <2>1. PICK i \in 1 .. n : Covers(stack[i], p)
    BY <1>1 DEF IInv, Pending
  <2>2. CASE i = n
    BY <1>1, <1>2, <2>1, <2>2
  <2>3. CASE i # n
    <3>1. i \in 1 .. n - 1
      BY <1>1, <2>3, NotLast
    <3>2. stack'[i] = stack[i]
      BY <1>2, <3>1
    <3> QED
      BY <2>1, <3>2
  <2> QED
    BY <2>2, <2>3
<1> QED
  BY <1>3, <1>4, <1>5, <1>6 DEF IInv

LEMMA CollectStep ==
  ASSUME IInv, NEW f \in Field, Collect(f)
  PROVE  IInv'
<1> DEFINE clear == Append(Top.clear, f)
           c == [at |-> Top.at, fields |-> Top.fields \ {f}, nested |-> {}, clear |-> clear]
<1>1. Top \in Call /\ stack # <<>> /\ Top = stack[Len(stack)] /\ Len(stack) \in DOMAIN stack
  BY TopCall DEF IInv, Typed, Collect
<1>2. Top.clear \in Seq(Field) /\ Top.nested = {} /\ Top.at \in Location /\ Top.fields \subseteq Field
  BY <1>1 DEF Call, Collect
<1>3. /\ clear \in Seq(Field)
      /\ \A j \in DOMAIN clear : clear[j] = f \/ \E i \in DOMAIN Top.clear : clear[j] = Top.clear[i]
      /\ \E j \in DOMAIN clear : clear[j] = f
      /\ \A i \in DOMAIN Top.clear : i \in DOMAIN clear /\ clear[i] = Top.clear[i]
  BY <1>2, AppendElements
<1> HIDE DEF clear
<1>4. c \in Call
  BY <1>2, <1>3 DEF Call
<1>5. HasKind(f, kind) /\ \A j \in DOMAIN Top.clear : HasKind(Top.clear[j], kind)
  BY <1>1 DEF Collect, IInv, Clean
<1>6. \A j \in DOMAIN c.clear : HasKind(c.clear[j], kind)
  BY <1>3, <1>5
<1>7. ASSUME NEW p \in message, Covers(Top, p)
      PROVE  Covers(c, p)
  BY <1>2, <1>3, <1>7 DEF Covers
<1>8. SetTop(c) /\ UNCHANGED <<message, kind, original>> /\ Tree(message') /\ KeepsTheRest'
  BY DEF Collect, clear, IInv, KeepsTheRest
<1> QED
  BY <1>1, <1>4, <1>6, <1>7, <1>8, ReplaceKeepsIInv

LEMMA VisitStep ==
  ASSUME IInv, NEW f \in Field, Visit(f)
  PROVE  IInv'
<1> DEFINE c == [Top EXCEPT !.fields = @ \ {f}, !.nested = rangeMessages(message, Top.at, f)]
<1>1. Top \in Call /\ stack # <<>> /\ Top = stack[Len(stack)] /\ Len(stack) \in DOMAIN stack
  BY TopCall DEF IInv, Typed, Visit
<1>2. Top.at \in Location /\ Top.nested = {} /\ ~PassesThrough(kind, Top.at) /\ ~HasKind(f, kind)
  BY <1>1 DEF Call, Visit, IInv, Clean
<1>3. \A k \in Key : Step(f, k) \in StepSet /\ Step(f, k).field = f
  BY DEF Step, StepSet
<1>4. \A q \in rangeMessages(message, Top.at, f) :
        q \in Location /\ Len(q) = Len(Top.at) + 1 /\ ~PassesThrough(kind, q)
  <2> SUFFICES ASSUME NEW k \in Key
               PROVE  LET q == Append(Top.at, Step(f, k))
                      IN q \in Location /\ Len(q) = Len(Top.at) + 1 /\ ~PassesThrough(kind, q)
    BY DEF rangeMessages, Values
  <2> QED
    BY <1>2, <1>3, PassesAppend DEF Location
<1>5. /\ c.at = Top.at /\ c.fields = Top.fields \ {f} /\ c.clear = Top.clear
      /\ c.nested = rangeMessages(message, Top.at, f)
      /\ c \in Call
  BY <1>1, <1>4 DEF Call
<1>6. ASSUME NEW p \in message, PassesThrough(kind, p), Covers(Top, p)
      PROVE  Covers(c, p)
  <2> DEFINE s == p[Len(Top.at) + 1]
  <2>1. Len(Top.at) < Len(p) /\ Within(Top.at, p) /\ p \in Location
    BY <1>2, <1>6 DEF Covers, IInv, Typed
  <2>2. /\ s = Step(s.field, s.key) /\ s \in StepSet /\ s.key \in Key
        /\ Append(Top.at, s) \in message /\ Append(Top.at, s) \in Location
        /\ Within(Append(Top.at, s), p)
    BY <1>2, <2>1, StepDown DEF IInv, Typed, StepSet
  <2>3. CASE s.field = f
    <3>1. ~PassesThrough(kind, Append(Top.at, s))
      BY <1>2, <2>2, <2>3, PassesAppend
    <3>2. p # Append(Top.at, s)
      BY <1>6, <3>1
    <3>3. Len(Top.at) + 1 < Len(p)
      <4>1. Len(Append(Top.at, s)) < Len(p)
        BY <2>1, <2>2, <3>2, SameLength
      <4>2. Len(Append(Top.at, s)) = Len(Top.at) + 1
        BY <1>2, <2>2 DEF Location
      <4> QED
        BY <4>1, <4>2
    <3>4. HoldsMessage(f)
      BY <1>2, <2>1, <2>3, <3>3 DEF IInv, Tree, Location
    <3>5. Append(Top.at, s) \in c.nested
      BY <1>5, <2>2, <2>3, <3>4 DEF rangeMessages, Values
    <3> QED
      BY <2>2, <3>5 DEF Covers
  <2>4. CASE s.field # f
    BY <1>2, <1>5, <1>6, <2>1, <2>4 DEF Covers
  <2> QED
    BY <2>3, <2>4
<1>7. SetTop(c) /\ UNCHANGED <<message, kind, original>> /\ Tree(message') /\ KeepsTheRest'
  BY DEF Visit, IInv, KeepsTheRest
<1>8. \A j \in DOMAIN c.clear : HasKind(c.clear[j], kind)
  BY <1>1, <1>5 DEF IInv, Clean
<1> QED
  BY <1>1, <1>4, <1>5, <1>6, <1>7, <1>8, ReplaceKeepsIInv

LEMMA PushCall ==
  ASSUME stack \in Seq(Call), stack # <<>>, NEW c \in Call, NEW d \in Call
  PROVE  LET new == Append(Append(Front(stack), c), d)
             n == Len(stack)
         IN /\ new \in Seq(Call) /\ DOMAIN new = 1 .. n + 1
            /\ \A i \in 1 .. n - 1 : new[i] = stack[i]
            /\ new[n] = c /\ new[n + 1] = d
<1> DEFINE mid == Append(Front(stack), c)
           n == Len(stack)
<1>1. /\ mid \in Seq(Call) /\ Len(mid) = n /\ n \in Nat /\ n > 0
      /\ \A i \in 1 .. n - 1 : mid[i] = stack[i]
      /\ mid[n] = c
  BY ReplaceTop, TopCall
<1> HIDE DEF mid
<1>2. /\ Append(mid, d) \in Seq(Call) /\ DOMAIN Append(mid, d) = 1 .. n + 1
      /\ \A i \in 1 .. n : Append(mid, d)[i] = mid[i]
      /\ Append(mid, d)[n + 1] = d
  BY <1>1
<1>3. n \in 1 .. n /\ \A i \in 1 .. n - 1 : i \in 1 .. n
  BY <1>1
<1> QED
  BY <1>1, <1>2, <1>3 DEF mid

\* The new call covers what lies in the message the callback walks into.
LEMMA DescendStep ==
  ASSUME IInv, NEW at \in Top.nested, Descend(at)
  PROVE  IInv'
<1> DEFINE n == Len(stack)
           c == [Top EXCEPT !.nested = @ \ {at}]
           d == NewCall(at)
<1>1. Top \in Call /\ stack # <<>> /\ Top = stack[n] /\ n \in Nat /\ n > 0 /\ DOMAIN stack = 1 .. n
  BY TopCall DEF IInv, Typed, Descend
<1>2. /\ at \in Location /\ ~PassesThrough(kind, at) /\ Len(at) = Len(Top.at) + 1
      /\ Top.at \in Location
  BY <1>1 DEF Call, IInv, Clean
<1>3. /\ c \in Call /\ c.at = Top.at /\ c.fields = Top.fields /\ c.clear = Top.clear
      /\ c.nested = Top.nested \ {at}
  BY <1>1 DEF Call
<1>4. d \in Call /\ d.at = at /\ d.nested = {} /\ d.clear = <<>>
  BY <1>2, NewCallType DEF NewCall
<1>5. stack' = Append(Append(Front(stack), c), d)
  BY DEF Descend
<1> HIDE DEF c, d
<1>6. /\ stack' \in Seq(Call) /\ DOMAIN stack' = 1 .. n + 1
      /\ \A i \in 1 .. n - 1 : stack'[i] = stack[i]
      /\ stack'[n] = c /\ stack'[n + 1] = d
  <2>1. stack \in Seq(Call) /\ stack # <<>> /\ c \in Call /\ d \in Call
    BY <1>1, <1>3, <1>4 DEF IInv, Typed
  <2> QED
    BY <1>5, <2>1, PushCall
<1>index.
       /\ \A i \in 1 .. n + 1 : i = n + 1 \/ i = n \/ i \in 1 .. n - 1
       /\ \A i \in 1 .. n - 1 : i \in 1 .. n
       /\ \A i \in 1 .. n : i \in 1 .. n + 1
       /\ n \in 1 .. n /\ n + 1 \in 1 .. n + 1
  BY <1>1, NotLast
<1> HIDE DEF n
<1>7. Typed' /\ IsMessage(Resource, original)' /\ (message \subseteq original)' /\ Tree(message)' /\ KeepsTheRest'
  BY <1>6 DEF IInv, Typed, KeepsTheRest, Descend
<1>8. Clean'
  <2> DEFINE CleanCall(x) == /\ ~PassesThrough(kind, x.at)
                             /\ \A q \in x.nested : ~PassesThrough(kind, q) /\ Len(q) = Len(x.at) + 1
                             /\ \A j \in DOMAIN x.clear : HasKind(x.clear[j], kind)
  <2>1. \A i \in 1 .. n : CleanCall(stack[i])
    BY <1>1 DEF IInv, Clean
  <2>2. CleanCall(c)
    BY <1>1, <1>3, <2>1
  <2>3. CleanCall(d)
    BY <1>2, <1>4
  <2>5. \A i \in 1 .. n + 1 : CleanCall(stack'[i])
    BY <1>6, <1>index, <2>1, <2>2, <2>3
  <2>6. kind' = kind
    BY DEF Descend
  <2> QED
    BY <1>6, <2>5, <2>6 DEF Clean
<1>9. Deeper'
  <2>1. \A i \in 1 .. n : stack'[i].at = stack[i].at
    BY <1>1, <1>3, <1>6, NotLast
  <2>2. \A i \in 1 .. n : Len(stack[i].at) \in Nat
    <3>1. \A i \in 1 .. n : stack[i] \in Call
      BY <1>1 DEF IInv, Typed
    <3>2. \A x \in Call : Len(x.at) \in Nat
      BY DEF Call, Location
    <3> QED
      BY <3>1, <3>2
  <2>3. \A i \in 1 .. n : Len(stack[i].at) < Len(at)
    <3>1. \A i \in 1 .. n : i # n => i < n
      BY <1>1
    <3>2. \A i \in 1 .. n : i # n => Len(stack[i].at) < Len(stack[n].at)
      BY <1>1, <1>index, <3>1 DEF IInv, Deeper
    <3> QED
      BY <1>1, <1>2, <1>index, <2>2, <3>2
  <2>4. SUFFICES ASSUME NEW i \in 1 .. n + 1, NEW j \in 1 .. n + 1, i < j
                 PROVE  Len(stack'[i].at) < Len(stack'[j].at)
    BY <1>6 DEF Deeper
  <2>5. i \in 1 .. n
    BY <1>1, <2>4
  <2>6. CASE j = n + 1
    BY <1>4, <1>6, <2>1, <2>3, <2>5, <2>6
  <2>7. CASE j # n + 1
    <3>1. j \in 1 .. n
      BY <1>1, <2>7, NotLast
    <3> QED
      BY <1>1, <2>1, <2>4, <2>5, <3>1 DEF IInv, Deeper
  <2> QED
    BY <2>6, <2>7
<1>10. Pending'
  <2> SUFFICES ASSUME NEW p \in message, PassesThrough(kind, p)
               PROVE  \E i \in 1 .. n + 1 : Covers(stack'[i], p)
    BY <1>6 DEF Pending, Descend
  <2>1. PICK i \in 1 .. n : Covers(stack[i], p)
    BY <1>1 DEF IInv, Pending
  <2>2. i \in 1 .. n + 1 /\ n \in 1 .. n + 1 /\ n + 1 \in 1 .. n + 1
    <3>1. n \in Nat /\ n > 0
      BY <1>1
    <3> QED
      BY <3>1, NotLast
  <2>3. CASE i # n
    <3>1. i \in 1 .. n - 1
      BY <1>1, <2>3, NotLast
    <3> QED
      BY <1>6, <2>1, <2>2, <3>1
  <2>4. CASE i = n /\ Within(at, p)
    <3>1. p \in Location /\ p # at
      BY <1>2 DEF IInv, Typed
    <3>2. Len(at) < Len(p)
      BY <1>2, <2>4, <3>1, SameLength
    <3>3. Covers(d, p)
      BY <1>2, <2>4, <3>2, NewCallCovers DEF IInv, Typed, d
    <3> QED
      BY <1>6, <2>2, <3>3
  <2>5. CASE i = n /\ ~Within(at, p)
    <3>1. Covers(c, p)
      BY <1>1, <1>3, <2>1, <2>5 DEF Covers
    <3> QED
      BY <1>6, <2>2, <3>1
  <2> QED
    BY <2>3, <2>4, <2>5
<1> QED
  BY <1>7, <1>8, <1>9, <1>10 DEF IInv

\* Clearing a collected field takes out what lies beneath it: all of it was to
\* go, and nothing of it is left to cover.
LEMMA ClearStep ==
  ASSUME IInv, Clear
  PROVE  IInv'
<1> DEFINE h == Head(Top.clear)
           c == [Top EXCEPT !.clear = Tail(Top.clear)]
           gone(p) == \E k \in Key : Within(Append(Top.at, Step(h, k)), p)
<1>1. Top \in Call /\ stack # <<>> /\ Top = stack[Len(stack)] /\ Len(stack) \in DOMAIN stack
  BY TopCall DEF IInv, Typed, Clear
<1>2. /\ Top.at \in Location /\ Top.fields = {} /\ Top.nested = {}
      /\ Top.clear \in Seq(Field) /\ Top.clear # <<>>
  BY <1>1 DEF Call, Clear
<1>3. /\ h \in Field /\ h = Top.clear[1] /\ 1 \in DOMAIN Top.clear
      /\ Tail(Top.clear) \in Seq(Field)
      /\ \A j \in DOMAIN Tail(Top.clear) : j + 1 \in DOMAIN Top.clear /\ Tail(Top.clear)[j] = Top.clear[j + 1]
      /\ \A j \in DOMAIN Top.clear : j = 1 \/ (j - 1 \in DOMAIN Tail(Top.clear) /\ Top.clear[j] = Tail(Top.clear)[j - 1])
  BY <1>2, TailElements
<1>4. /\ c \in Call /\ c.at = Top.at /\ c.fields = {} /\ c.nested = {} /\ c.clear = Tail(Top.clear)
  BY <1>1, <1>2, <1>3 DEF Call
<1>5. HasKind(h, kind) /\ \A j \in DOMAIN Top.clear : HasKind(Top.clear[j], kind)
  BY <1>1, <1>3 DEF IInv, Clean
<1>6. SetTop(c) /\ UNCHANGED <<kind, original>>
  BY DEF Clear
<1>7. ASSUME NEW k \in Key
      PROVE  /\ Step(h, k) \in StepSet /\ Step(h, k).field = h
             /\ Append(Top.at, Step(h, k)) \in Location
             /\ PassesThrough(kind, Append(Top.at, Step(h, k)))
  <2>1. Step(h, k) \in StepSet /\ Step(h, k).field = h
    BY <1>3 DEF Step, StepSet
  <2>2. Append(Top.at, Step(h, k)) \in Location
    BY <1>2, <2>1 DEF Location
  <2> QED
    BY <1>2, <1>5, <2>1, <2>2, PassesAppend
<1>8. message' = {p \in message : ~gone(p)}
  <2>1. message' = {p \in message : \A k \in Key : ~IsPrefix(Append(Top.at, Step(h, k)), p)}
    BY DEF Clear
  <2>2. \A p \in message, k \in Key :
          IsPrefix(Append(Top.at, Step(h, k)), p) <=> Within(Append(Top.at, Step(h, k)), p)
    BY <1>7, PrefixIsWithin DEF IInv, Typed
  <2> QED
    BY <2>1, <2>2
<1>9. Tree(message')
  <2> SUFFICES ASSUME NEW p \in message', NEW i \in 1 .. Len(p) - 1
               PROVE  SubSeq(p, 1, i) \in message'
    BY <1>8 DEF IInv, Tree
  <2>1. p \in message /\ p \in Seq(StepSet) /\ ~gone(p) /\ SubSeq(p, 1, i) \in message
    BY <1>8 DEF IInv, Typed, Tree, Location
  <2>2. /\ Len(SubSeq(p, 1, i)) = i /\ i \in Nat /\ i <= Len(p) /\ Len(p) \in Nat
        /\ \A j \in 1 .. i : SubSeq(p, 1, i)[j] = p[j]
    BY <2>1
  <2>3. \A k \in Key : Len(Append(Top.at, Step(h, k))) \in Nat
    BY <1>7 DEF Location
  <2>4. ~gone(SubSeq(p, 1, i))
    BY <2>1, <2>2, <2>3 DEF Within
  <2> QED
    BY <1>8, <2>1, <2>4
<1>10. KeepsTheRest'
  <2> SUFFICES ASSUME NEW p \in original, ~PassesThrough(kind, p)
               PROVE  p \in message'
    BY <1>6 DEF KeepsTheRest, ClearFields
  <2>1. p \in message /\ p \in Location
    BY DEF IInv, Typed, KeepsTheRest, ClearFields
  <2>2. ~gone(p)
    BY <1>7, <2>1, PassesDown
  <2> QED
    BY <1>8, <2>1, <2>2
<1>11. ASSUME NEW p \in message', Covers(Top, p)
       PROVE  Covers(c, p)
  <2> DEFINE s == p[Len(Top.at) + 1]
  <2>1. p \in message /\ ~gone(p) /\ Len(Top.at) < Len(p) /\ Within(Top.at, p)
    BY <1>2, <1>8, <1>11 DEF Covers
  <2>2. PICK j \in DOMAIN Top.clear : Top.clear[j] = s.field
    BY <1>2, <1>11 DEF Covers
  <2>3. s = Step(s.field, s.key) /\ s.key \in Key /\ Within(Append(Top.at, s), p)
    BY <1>2, <2>1, StepDown DEF IInv, Typed, StepSet
  <2>4. s.field # h
    BY <2>1, <2>3
  <2>5. j - 1 \in DOMAIN c.clear /\ c.clear[j - 1] = s.field
    BY <1>3, <1>4, <2>2, <2>4
  <2> QED
    BY <1>4, <2>1, <2>5 DEF Covers
<1>12. \A j \in DOMAIN c.clear : HasKind(c.clear[j], kind)
  BY <1>3, <1>4, <1>5
<1> QED
  BY <1>1, <1>4, <1>6, <1>8, <1>9, <1>10, <1>11, <1>12, ReplaceKeepsIInv

\* A call that returns covers nothing any more.
LEMMA ReturnStep ==
  ASSUME IInv, Return
  PROVE  IInv'
<1> DEFINE n == Len(stack)
<1>1. Top \in Call /\ stack # <<>> /\ Top = stack[n] /\ n \in Nat /\ n > 0 /\ DOMAIN stack = 1 .. n
  BY TopCall DEF IInv, Typed, Return
<1>2. /\ stack' \in Seq(Call) /\ DOMAIN stack' = 1 .. n - 1
      /\ \A i \in 1 .. n - 1 : stack'[i] = stack[i]
  <2>1. /\ stack' \in Seq(Call) /\ Len(stack') = n - 1
        /\ \A i \in 1 .. n - 1 : stack'[i] = stack[i]
    BY <1>1, FrontCalls DEF Return, IInv, Typed
  <2> QED
    BY <2>1
<1>3. ~\E p : Covers(Top, p)
  BY DEF Covers, Return
<1> HIDE DEF n
<1>4. \A i \in 1 .. n - 1 : i \in 1 .. n
  BY <1>1, NotLast
<1>5. Pending'
  <2> SUFFICES ASSUME NEW p \in message, PassesThrough(kind, p)
               PROVE  \E i \in 1 .. n - 1 : Covers(stack'[i], p)
    BY <1>2 DEF Pending, Return
  <2>1. PICK i \in 1 .. n : Covers(stack[i], p)
    BY <1>1 DEF IInv, Pending
  <2>2. i \in 1 .. n - 1
    BY <1>1, <1>3, <2>1, NotLast
  <2> QED
    BY <1>2, <2>1, <2>2
<1>6. Clean' /\ Deeper'
  BY <1>1, <1>2, <1>4 DEF IInv, Clean, Deeper, Return
<1> QED
  BY <1>2, <1>5, <1>6 DEF IInv, Typed, KeepsTheRest, Return

LEMMA NextIInv == IInv /\ [Next]_vars => IInv'
<1> SUFFICES ASSUME IInv, [Next]_vars
             PROVE  IInv'
  OBVIOUS
<1>1. CASE UNCHANGED vars
  BY <1>1 DEF vars, IInv, Typed, KeepsTheRest, Clean, Deeper, Pending
<1> QED
  BY <1>1, CollectStep, VisitStep, DescendStep, ClearStep, ReturnStep DEF Next

----------------------------------------------------------------------------
\* The inductive invariant of the walk.
THEOREM Invariance == Spec => []IInv
  BY InitIInv, NextIInv, PTL DEF Spec

\* The type invariant of the walk.
THEOREM TypeCorrect == Spec => []TypeOK
<1>1. IInv => TypeOK
  BY DEF IInv, Typed, TypeOK
<1> QED
  BY <1>1, Invariance, PTL

\* At no point has ClearFields taken out a value it should keep (KeepsTheRest).
THEOREM NothingElseLost == Spec => []KeepsTheRest
<1>1. IInv => KeepsTheRest
  BY DEF IInv
<1> QED
  BY <1>1, Invariance, PTL

\* Once ClearFields returns, the message is what it was without the fields of
\* the kind: at any depth, through lists and maps, in whatever order the runtime
\* ranged over them (ClearsExactlyTheKind).
THEOREM ClearsAll == Spec => []ClearsExactlyTheKind
<1>1. IInv => ClearsExactlyTheKind
  <2> SUFFICES ASSUME IInv, stack = <<>>
               PROVE  message \subseteq ClearFields(original, kind)
    BY DEF ClearsExactlyTheKind, Done, IInv, KeepsTheRest
  <2>1. DOMAIN stack = {}
    OBVIOUS
  <2> QED
    BY <2>1 DEF IInv, Pending, ClearFields
<1> QED
  BY <1>1, Invariance, PTL

\* No message is mutated while a range over it is in progress
\* (NoMutationDuringRange): the calls that are still ranging work on messages
\* that lie above the fields the innermost one clears.
THEOREM NoMutation == Spec => NoMutationDuringRange
<1> DEFINE Ranging(i) == stack[i].fields # {} \/ stack[i].nested # {}
           Kept == \A i \in DOMAIN stack :
             Ranging(i) => Populated(message', stack[i].at) = Populated(message, stack[i].at)
<1>1. IInv /\ [Next]_vars => [Kept]_vars
  <2> SUFFICES ASSUME IInv, Next, NEW i \in DOMAIN stack, Ranging(i)
               PROVE  Populated(message', stack[i].at) = Populated(message, stack[i].at)
    OBVIOUS
  <2>1. CASE message' = message
    BY <2>1
  <2>2. CASE Clear
    <3> DEFINE n == Len(stack)
               h == Head(Top.clear)
               at == stack[i].at
    <3>1. Top \in Call /\ stack # <<>> /\ Top = stack[n] /\ n \in Nat /\ n > 0 /\ DOMAIN stack = 1 .. n
      BY <2>2, TopCall DEF IInv, Typed, Clear
    <3>2. i # n
      BY <2>2, <3>1 DEF Clear
    <3>3. i < n /\ n \in DOMAIN stack
      BY <3>1, <3>2
    <3>4. Len(at) < Len(Top.at)
      BY <3>1, <3>3 DEF IInv, Deeper
    <3>5. at \in Location /\ Top.at \in Location /\ h \in Field
      <4>1. stack[i] \in Call
        BY <3>1 DEF IInv, Typed
      <4>2. Top.clear \in Seq(Field) /\ Top.clear # <<>>
        BY <2>2, <3>1 DEF Call, Clear
      <4> QED
        BY <3>1, <4>1, <4>2 DEF Call
    <3>6. ASSUME NEW f \in Field, NEW k \in Key, NEW l \in Key
          PROVE  ~IsPrefix(Append(Top.at, Step(h, l)), Append(at, Step(f, k)))
      <4>1. Step(h, l) \in StepSet /\ Step(f, k) \in StepSet
        BY <3>5 DEF Step, StepSet
      <4>2. Len(Append(Top.at, Step(h, l))) = Len(Top.at) + 1 /\ Len(Append(at, Step(f, k))) = Len(at) + 1
        BY <3>5, <4>1 DEF Location
      <4>3. Append(Top.at, Step(h, l)) \in Location /\ Append(at, Step(f, k)) \in Location
        BY <3>5, <4>1 DEF Location
      <4>4. Len(at) \in Nat /\ Len(Top.at) \in Nat
        BY <3>5 DEF Location
      <4>5. \A x, y \in Nat : x < y => ~(y + 1 <= x + 1)
        OBVIOUS
      <4>6. ~(Len(Append(Top.at, Step(h, l))) <= Len(Append(at, Step(f, k))))
        BY <3>4, <4>2, <4>4, <4>5
      <4>7. ~Within(Append(Top.at, Step(h, l)), Append(at, Step(f, k)))
        BY <4>6 DEF Within
      <4> QED
        BY <4>3, <4>7, PrefixIsWithin
    <3>7. message' = {p \in message : \A l \in Key : ~IsPrefix(Append(Top.at, Step(h, l)), p)}
      BY <2>2 DEF Clear
    <3>8. \A f \in Field, k \in Key : Append(at, Step(f, k)) \in message' <=> Append(at, Step(f, k)) \in message
      BY <3>6, <3>7
    <3>9. \A f \in Field : Has(message', at, f) <=> Has(message, at, f)
      BY <3>8 DEF Has, Values
    <3> QED
      BY <3>9 DEF Populated
  <2> QED
    BY <2>1, <2>2 DEF Next, Collect, Visit, Descend, Return
<1> QED
  BY <1>1, Invariance, PTL DEF Spec, NoMutationDuringRange

=============================================================================
