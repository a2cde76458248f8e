--------------------------- MODULE BookServiceProofs ---------------------------
(***************************************************************************)
(* For any calls, messages and setups of the server: the types, what the   *)
(* service is given, what it is not, what the client is told, and that the *)
(* whole implements BookCalls.  They follow from one invariant, which says *)
(* at each place a goroutine can be at how many messages it has read,      *)
(* served and answered, and what it has in hand.                           *)
(***************************************************************************)
EXTENDS BookService, TLAPS

Refusals == Faults \cup {"rejected"}

\* What the framework's read and send fail with, io.EOF aside.
Lost == Breakages \cup {"canceled"}

\* Before its client has called, a call has no message and no goroutine.
ClientSide(c) ==
  /\ client[c] = "idle" => sent[c] = <<>> /\ ~closed[c] /\ pc[c] = "none"
  /\ IsUnary(c) /\ client[c] # "idle" => Len(sent[c]) = 1 /\ closed[c]
  /\ got[c] <= Len(out[c])
  /\ taken[c] <= Len(sent[c])

\* How far a call is, by the place its goroutine is at.
Reading(c) ==
  /\ pc[c] = "none" => taken[c] = 0
  /\ pc[c] \in {"none", "read"}
     => error[c] = NoError /\ Len(served[c]) = taken[c] /\ Len(out[c]) = taken[c]
  /\ pc[c] \in {"fields", "name", "own"}
     => error[c] = NoError /\ Len(served[c]) + 1 = taken[c] /\ Len(out[c]) + 1 = taken[c]

Handling(c) ==
  /\ pc[c] = "handler"
     => /\ Len(out[c]) = Len(served[c])
        /\ \/ error[c] \in Refusals \cup {NoError} /\ Len(served[c]) + 1 = taken[c]
           \/ error[c] = "eof" /\ Len(served[c]) = taken[c]
           \/ error[c] \in Lost /\ Len(served[c]) = taken[c]
  /\ pc[c] = "send" => error[c] = NoError /\ Len(served[c]) = taken[c] /\ Len(out[c]) + 1 = taken[c]

Ending(c) ==
  pc[c] \in {"end", "done"}
  => \/ error[c] = NoError /\ Len(served[c]) = taken[c] /\ Len(out[c]) = taken[c]
     \/ error[c] \in Lost /\ Len(served[c]) = taken[c] /\ Len(out[c]) \in {taken[c], taken[c] - 1}
     \/ error[c] \in Refusals /\ Len(served[c]) + 1 = taken[c] /\ Len(out[c]) + 1 = taken[c]
     \/ error[c] = "unimplemented" /\ Len(served[c]) = 0 /\ Len(out[c]) = 0 /\ taken[c] <= 1
     \/ error[c] = "service" /\ Len(served[c]) = taken[c] /\ Len(out[c]) + 1 = taken[c]

\* A unary call reads one message, and serves it last.
OneEach(c) ==
  IsUnary(c)
  => /\ pc[c] \in {"none", "read", "fields", "name", "own", "handler"} => Len(served[c]) = 0
     /\ pc[c] = "send" => Len(served[c]) = 1
     /\ pc[c] \in {"end", "done"} /\ error[c] = NoError => Len(out[c]) = 1

\* What ended a call is so.
Reasons(c) ==
  /\ error[c] = "canceled" => client[c] = "left"
  /\ error[c] = "eof" => pc[c] = "handler" /\ ~IsUnary(c) /\ closed[c] /\ taken[c] = Len(sent[c])
  /\ pc[c] \in {"end", "done"} /\ error[c] = NoError => closed[c] /\ taken[c] = Len(sent[c])
  /\ status[c] = IF pc[c] = "done" THEN Code(error[c]) ELSE "open"

\* A request r is what the service is to be given for the message m.
Given(c, r, m) ==
  /\ ~Refusable(c, m)
  /\ \/ r = Prepared(c, m)
     \/ /\ setup.reject = "silent" /\ Method[c] \in setup.preparable
        /\ m.fault = "unprepared"
        /\ r = Named(Filled(Method[c], m))

\* What the goroutine has in hand is the last message read, so far done with.
InHand(c) ==
  /\ pc[c] = "fields" => message[c] = sent[c][taken[c]] /\ message[c].fault # "malformed"
  /\ pc[c] = "name"
     => /\ message[c] = Filled(Method[c], sent[c][taken[c]])
        /\ sent[c][taken[c]].fault \notin {"malformed", "violations"}
  /\ pc[c] = "own"
     => /\ message[c] = Named(Filled(Method[c], sent[c][taken[c]]))
        /\ sent[c][taken[c]].fault \notin {"malformed", "violations"}
        /\ Method[c] \in setup.preparable
  /\ pc[c] = "handler" /\ error[c] = NoError => Given(c, message[c], sent[c][taken[c]])
  /\ pc[c] = "send" => Given(c, message[c], sent[c][taken[c]])
  /\ error[c] \in Refusals => Refusable(c, sent[c][taken[c]])
  /\ error[c] = "unimplemented" /\ taken[c] > 0 => ~Refusable(c, sent[c][taken[c]])

ServedAll(c) == \A i \in 1 .. Len(served[c]) : Given(c, served[c][i], sent[c][i])

AnsweredAll(c) ==
  \A i \in 1 .. Len(out[c]) : out[c][i] = [name |-> Prepared(c, sent[c][i]).name, token |-> FALSE]

Counted(c) ==
  ClientSide(c) /\ Reading(c) /\ Handling(c) /\ Ending(c) /\ OneEach(c) /\ Reasons(c)

CallInv(c) == Counted(c) /\ InHand(c) /\ ServedAll(c) /\ AnsweredAll(c)

IInv == Types /\ \A c \in Call : CallInv(c)

----------------------------------------------------------------------------
(* What the operators on messages return, and what errors are told apart.  *)

\* What is lost is not refused, not io.EOF, and not the handler's.
LEMMA LostApart ==
  /\ Lost \subseteq Errors /\ "canceled" \in Lost /\ Breakages \subseteq Lost
  /\ NoError \notin Lost /\ "eof" \notin Lost /\ "unimplemented" \notin Lost /\ "service" \notin Lost
  /\ "malformed" \notin Lost /\ "violations" \notin Lost /\ "unprepared" \notin Lost /\ "rejected" \notin Lost
<1>1. Lost \subseteq Errors /\ "canceled" \in Lost /\ Breakages \subseteq Lost
  BY DEF Lost, Errors
<1> DEFINE B == {"deadline_exceeded", "resource_exhausted", "unavailable", "internal", "unknown"}
<1>2. Lost \subseteq B \cup {"canceled"}
  BY ServiceAssumption DEF Lost
<1>3. \A x \in B \cup {"canceled"} :
         /\ x # "none" /\ x # "eof" /\ x # "unimplemented" /\ x # "service"
         /\ x # "malformed" /\ x # "violations" /\ x # "unprepared" /\ x # "rejected"
  OBVIOUS
<1> HIDE DEF B
<1> QED BY <1>1, <1>2, <1>3 DEF NoError

\* What is done to a message leaves it a message, with the same fault.
LEMMA MessageTypes ==
  ASSUME NEW m \in Message, NEW method
  PROVE  /\ Filled(method, m) \in Message /\ Filled(method, m).fault = m.fault
         /\ Named(m) \in Message /\ Named(m).fault = m.fault
         /\ Owned(m) \in Message /\ Owned(m).fault = m.fault /\ Owned(m).name = m.name
<1>1. ASSUME NEW id \in Ids, NEW name \in Ids, NEW owned \in {"unset", "client", "server"}
      PROVE  /\ With(m, id, name, owned) \in Message
             /\ With(m, id, name, owned).fault = m.fault
             /\ With(m, id, name, owned).name = name
  BY <1>1 DEF Message, With
<1>2. m.id \in Ids /\ m.name \in Ids /\ m.owned \in {"unset", "client", "server"}
  BY DEF Message
<1>4. Filled(method, m) \in Message /\ Filled(method, m).fault = m.fault
  <2>1. CASE method \in Creates /\ m.id = ""
    BY <1>1, <1>2, <2>1, ServiceAssumption DEF Filled
  <2>2. CASE ~(method \in Creates /\ m.id = "")
    BY <1>1, <1>2, <2>2 DEF Filled
  <2> QED BY <2>1, <2>2
<1>5. Named(m) \in Message /\ Named(m).fault = m.fault
  BY <1>1, <1>2 DEF Named
<1>6. Owned(m) \in Message /\ Owned(m).fault = m.fault /\ Owned(m).name = m.name
  BY <1>1, <1>2 DEF Owned
<1> QED BY <1>4, <1>5, <1>6

\* What a client is told of an error.
LEMMA CodeFacts ==
  ASSUME NEW e
  PROVE  /\ Code(e) \in Codes
         /\ Code(e) # "open"
         /\ Code(e) = "ok" <=> e = NoError
         /\ Code(e) \in {"invalid_argument", "failed_precondition"} <=> e \in Refusals
         /\ Code(e) = "canceled" => e = "canceled"
<1>1. CASE e \in Breakages
  <2>1. Code(e) = e
    BY <1>1, LostApart DEF Code, NoError, Faults, Lost
  <2>2. e \in {"deadline_exceeded", "resource_exhausted", "unavailable", "internal", "unknown"}
    BY <1>1, ServiceAssumption
  <2> QED BY <1>1, <2>1, <2>2 DEF Codes, NoError, Faults, Refusals
<1>2. CASE e \notin Breakages
  BY <1>2 DEF Code, Codes, NoError, Faults, Refusals
<1> QED BY <1>1, <1>2

----------------------------------------------------------------------------
(* The inductive invariant.                                                *)

LEMMA Initially == Init => IInv
<1> SUFFICES ASSUME Init PROVE IInv
  OBVIOUS
<1>1. Types
  <2>1. NoMessage \in Message /\ NoError = "none"
    BY ServiceAssumption DEF Message, NoMessage, Faults, NoError
  <2>2. <<>> \in Seq(Messages) /\ <<>> \in Seq(Message) /\ <<>> \in Seq([name : Ids, token : BOOLEAN])
    OBVIOUS
  <2>3. sent \in [Call -> Seq(Messages)] /\ served \in [Call -> Seq(Message)]
        /\ out \in [Call -> Seq([name : Ids, token : BOOLEAN])]
    BY <2>2 DEF Init
  <2> QED BY <2>1, <2>3 DEF Init, Types, Places, Errors, Codes
<1>2. ASSUME NEW c \in Call PROVE CallInv(c)
  <2>1. Counted(c)
    BY DEF Init, Counted, ClientSide, Reading, Handling, Ending, OneEach, Reasons, NoError, Refusals, Faults
  <2>2. InHand(c) /\ ServedAll(c) /\ AnsweredAll(c)
    BY DEF Init, InHand, ServedAll, AnsweredAll, NoError, Refusals, Faults
  <2> QED BY <2>1, <2>2 DEF CallInv
<1> QED BY <1>1, <1>2 DEF IInv

\* The invariant of a call speaks of that call alone.
LEMMA Untouched ==
  ASSUME NEW d \in Call, CallInv(d), setup' = setup,
         client'[d] = client[d], sent'[d] = sent[d], closed'[d] = closed[d], got'[d] = got[d],
         pc'[d] = pc[d], taken'[d] = taken[d], message'[d] = message[d], error'[d] = error[d],
         served'[d] = served[d], out'[d] = out[d], status'[d] = status[d]
  PROVE  CallInv(d)'
<1>1. Counted(d)'
  BY DEF CallInv, Counted, ClientSide, Reading, Handling, Ending, OneEach, Reasons
<1>2. InHand(d)'
  BY DEF CallInv, InHand, Given, Prepared, Refusable
<1>3. ServedAll(d)'
  BY DEF CallInv, ServedAll, Given, Prepared, Refusable
<1>4. AnsweredAll(d)'
  BY DEF CallInv, AnsweredAll, Prepared
<1> QED BY <1>1, <1>2, <1>3, <1>4 DEF CallInv

\* What a call has when its goroutine is to take a step.
LEMMA OfCall ==
  ASSUME IInv, NEW c \in Call
  PROVE  /\ CallInv(c)
         /\ sent[c] \in Seq(Messages) /\ taken[c] \in Nat /\ message[c] \in Message
         /\ served[c] \in Seq(Message) /\ out[c] \in Seq([name : Ids, token : BOOLEAN])
         /\ Len(sent[c]) \in Nat /\ Len(served[c]) \in Nat /\ Len(out[c]) \in Nat
         /\ "canceled" \in Lost /\ NoError \notin Lost /\ "eof" \notin Lost
         /\ "unimplemented" \notin Lost /\ "service" \notin Lost
         /\ "malformed" \notin Lost /\ "violations" \notin Lost
         /\ "unprepared" \notin Lost /\ "rejected" \notin Lost
<1>1. CallInv(c)
  BY DEF IInv
<1>2. /\ sent[c] \in Seq(Messages) /\ taken[c] \in Nat /\ message[c] \in Message
      /\ served[c] \in Seq(Message) /\ out[c] \in Seq([name : Ids, token : BOOLEAN])
  BY DEF IInv, Types
<1>3. Len(sent[c]) \in Nat /\ Len(served[c]) \in Nat /\ Len(out[c]) \in Nat
  BY <1>2
<1> QED BY <1>1, <1>2, <1>3, LostApart

LEMMA Lengths ==
  ASSUME IInv, NEW c \in Call
  PROVE  /\ Ordered(c)
         /\ taken[c] = 0 => pc[c] \notin {"fields", "name", "own", "send"} /\ error[c] \notin Refusals
                            /\ ~(pc[c] = "handler" /\ error[c] = NoError)
<1> USE OfCall
<1>1. pc[c] \in Places /\ ClientSide(c) /\ Reading(c) /\ Handling(c) /\ Ending(c)
  BY DEF IInv, Types, CallInv, Counted
<1>2. got[c] <= Len(out[c]) /\ taken[c] <= Len(sent[c])
  BY <1>1 DEF ClientSide
<1>3. CASE pc[c] \in {"none", "read"}
  BY <1>1, <1>2, <1>3 DEF Reading, Ordered, Refusals, Faults, NoError
<1>4. CASE pc[c] \in {"fields", "name", "own"}
  BY <1>1, <1>2, <1>4 DEF Reading, Ordered, Refusals, Faults, NoError
<1>5. CASE pc[c] = "handler"
  BY <1>1, <1>2, <1>5 DEF Handling, Ordered, Refusals, Faults, NoError
<1>6. CASE pc[c] = "send"
  BY <1>1, <1>2, <1>6 DEF Handling, Ordered, Refusals, Faults, NoError
<1>7. CASE pc[c] \in {"end", "done"}
  BY <1>1, <1>2, <1>7 DEF Ending, Ordered, Refusals, Faults, NoError
<1> QED BY <1>1, <1>3, <1>4, <1>5, <1>6, <1>7 DEF Places

LEMMA SentMessage ==
  ASSUME IInv, NEW c \in Call, NEW i \in 1 .. Len(sent[c])
  PROVE  sent[c][i] \in Message
<1>1. sent[c][i] \in Messages
  BY OfCall
<1> QED BY <1>1, ServiceAssumption

LEMMA ReadStep ==
  ASSUME IInv, NEW c \in Call, Read(c)
  PROVE  IInv'
<1> DEFINE m == sent[c][taken[c] + 1]
<1>a. taken[c] + 1 \in 1 .. Len(sent[c])
  BY OfCall DEF Read
<1>b. m \in Message
  BY <1>a, SentMessage
<1>c. PICK p \in {"handler", "fields"}, e \in {"malformed", NoError} :
        pc' = [pc EXCEPT ![c] = p] /\ error' = [error EXCEPT ![c] = e]
  BY DEF Read, Returns, GoesOn, After
<1>d. /\ taken' = [taken EXCEPT ![c] = @ + 1] /\ message' = [message EXCEPT ![c] = m]
      /\ UNCHANGED <<setup, clientVars, served, out, status>>
  BY DEF Read
<1> HIDE DEF m
<1>1. Types'
  <2>1. p \in Places /\ e \in Errors /\ taken[c] + 1 \in Nat
    BY OfCall DEF Places, Errors, Faults
  <2>2. pc' \in [Call -> Places] /\ error' \in [Call -> Errors]
    BY <1>c, <2>1 DEF IInv, Types
  <2>3. taken' \in [Call -> Nat] /\ message' \in [Call -> Message]
    BY <1>b, <1>d, <2>1 DEF IInv, Types
  <2> QED BY <1>d, <2>2, <2>3 DEF IInv, Types, clientVars
<1> USE DEF m
<1>2. Counted(c)'
  BY <1>a, OfCall, SMTT(60) DEF IInv, CallInv, Types, Counted, ClientSide, Reading, Handling, Ending,
    OneEach, Reasons, Read, Returns, GoesOn, After, clientVars, Refusals, Faults, NoError
<1>3. InHand(c)'
  BY <1>a, OfCall, SMTT(60) DEF IInv, CallInv, Types, Counted, Reading, Handling, InHand, Given, Prepared,
    Refusable, Read, Returns, GoesOn, After, clientVars, Refusals, Faults, NoError
<1>4. ServedAll(c)'
  BY OfCall, SMTT(60) DEF IInv, CallInv, Types, ServedAll, Given, Prepared, Refusable, Read, Returns,
    GoesOn, After, clientVars
<1>5. AnsweredAll(c)'
  BY OfCall DEF IInv, CallInv, Types, AnsweredAll, Prepared, Read, Returns, GoesOn, After, clientVars
<1>6. ASSUME NEW d \in Call, d # c PROVE CallInv(d)'
  BY <1>6, Untouched DEF IInv, Types, Read, Returns, GoesOn, After, clientVars
<1> QED BY <1>1, <1>2, <1>3, <1>4, <1>5, <1>6 DEF IInv, CallInv

\* A call whose read or send fails counts as before.
LEMMA LosesCounted ==
  ASSUME IInv, NEW c \in Call, NEW e \in Lost, e = "canceled" => client[c] = "left",
         NEW p, (pc[c] = "read" /\ p = "handler") \/ (pc[c] = "send" /\ p = "end"),
         pc' = [pc EXCEPT ![c] = p], error' = [error EXCEPT ![c] = e],
         UNCHANGED <<setup, clientVars, taken, message, served, out, status>>
  PROVE  Counted(c)'
<1>1. pc'[c] = p /\ error'[c] = e
  BY DEF IInv, Types
<1>2. e \notin Refusals /\ e # NoError /\ e # "eof" /\ e # "unimplemented" /\ e # "service"
  BY LostApart DEF Refusals, Faults
<1>3. ClientSide(c)'
  BY <1>1, OfCall DEF CallInv, Counted, ClientSide, clientVars
<1>4. Reading(c)' /\ Handling(c)' /\ Ending(c)'
  BY <1>1, <1>2, OfCall DEF CallInv, Counted, Reading, Handling, Ending
<1>5. OneEach(c)' /\ Reasons(c)'
  BY <1>1, <1>2, OfCall DEF CallInv, Counted, OneEach, Reasons, clientVars
<1> QED BY <1>3, <1>4, <1>5 DEF Counted

LEMMA ReadFailsStep ==
  ASSUME IInv, NEW c \in Call, ReadFails(c)
  PROVE  IInv'
<1>1. Types'
  BY OfCall DEF IInv, Types, ReadFails, Returns, clientVars, Errors, Faults, Places, NoError
<1>2. Counted(c)'
  <2>1. CASE taken[c] = Len(sent[c]) /\ closed[c] /\ Returns(c, "eof")
    <3>1. ~IsUnary(c)
      <4> SUFFICES ASSUME IsUnary(c) PROVE FALSE
        OBVIOUS
      <4>1. pc[c] = "read"
        BY DEF ReadFails
      <4>2. client[c] # "idle" /\ Len(served[c]) = taken[c]
        BY <4>1, OfCall DEF CallInv, Counted, ClientSide, Reading
      <4>3. Len(sent[c]) = 1 /\ Len(served[c]) = 0
        BY <4>1, <4>2, OfCall DEF CallInv, Counted, ClientSide, OneEach
      <4>4. taken[c] = Len(sent[c])
        BY <2>1, Zenon
      <4>5. taken[c] = 1 /\ taken[c] = 0
        BY <4>2, <4>3, <4>4
      <4> QED BY <4>5
    <3> QED BY <3>1, <2>1, OfCall DEF IInv, CallInv, Types, Counted, ClientSide, Reading, Handling,
      Ending, OneEach, Reasons, ReadFails, Returns, clientVars, Refusals, Faults, NoError
  <2>2. CASE client[c] = "left" /\ Returns(c, "canceled")
    <3>1. /\ pc[c] = "read" /\ pc' = [pc EXCEPT ![c] = "handler"] /\ error' = [error EXCEPT ![c] = "canceled"]
          /\ UNCHANGED <<setup, clientVars, taken, message, served, out, status>>
      BY <2>2 DEF ReadFails, Returns
    <3> QED BY <2>2, <3>1, LostApart, LosesCounted
  <2> QED BY <2>1, <2>2 DEF ReadFails
<1>3. InHand(c)'
  BY OfCall, SMTT(60) DEF IInv, CallInv, Types, Counted, Reading, Handling, InHand, Given, Prepared,
    Refusable, ReadFails, Returns, clientVars, Refusals, Faults, NoError
<1>4. ServedAll(c)'
  BY OfCall DEF IInv, CallInv, Types, ServedAll, Given, Prepared, Refusable, ReadFails, Returns, clientVars
<1>5. AnsweredAll(c)'
  BY OfCall DEF IInv, CallInv, Types, AnsweredAll, Prepared, ReadFails, Returns, clientVars
<1>6. ASSUME NEW d \in Call, d # c PROVE CallInv(d)'
  BY <1>6, Untouched DEF IInv, Types, ReadFails, Returns, clientVars
<1> QED BY <1>1, <1>2, <1>3, <1>4, <1>5, <1>6 DEF IInv, CallInv

LEMMA FillAndValidateStep ==
  ASSUME IInv, NEW c \in Call, FillAndValidate(c)
  PROVE  IInv'
<1>a. Filled(Method[c], message[c]) \in Message /\ Filled(Method[c], message[c]).fault = message[c].fault
  BY OfCall, MessageTypes
<1>p. PICK p \in {"name", "handler"}, e \in {"violations", NoError} :
        pc' = [pc EXCEPT ![c] = p] /\ error' = [error EXCEPT ![c] = e]
  BY DEF FillAndValidate, Returns, GoesOn, After
<1>1. Types'
  <2>1. pc' \in [Call -> Places] /\ error' \in [Call -> Errors]
    BY <1>p DEF IInv, Types, Errors, Places, Faults
  <2>2. message' \in [Call -> Message] /\ UNCHANGED <<setup, clientVars, taken, served, out, status>>
    BY <1>a DEF IInv, Types, FillAndValidate
  <2> QED BY <2>1, <2>2 DEF IInv, Types, clientVars
<1>2. Counted(c)'
  BY OfCall, SMTT(60) DEF IInv, CallInv, Types, Counted, ClientSide, Reading, Handling, Ending, OneEach,
    Reasons, FillAndValidate, Returns, GoesOn, After, clientVars, Refusals, Faults, NoError
<1>3. InHand(c)'
  BY <1>a, OfCall DEF IInv, CallInv, Types, Counted, Reading, Handling, InHand, Given, Prepared, Refusable,
    FillAndValidate, Returns, GoesOn, After, clientVars, Refusals, Faults, NoError
<1>4. ServedAll(c)'
  BY OfCall, SMTT(60) DEF IInv, CallInv, Types, ServedAll, Given, Prepared, Refusable, FillAndValidate,
    Returns, GoesOn, After, clientVars
<1>5. AnsweredAll(c)'
  BY OfCall DEF IInv, CallInv, Types, AnsweredAll, Prepared, FillAndValidate, Returns, GoesOn, After, clientVars
<1>6. ASSUME NEW d \in Call, d # c PROVE CallInv(d)'
  BY <1>6, Untouched DEF IInv, Types, FillAndValidate, Returns, GoesOn, After, clientVars
<1> QED BY <1>1, <1>2, <1>3, <1>4, <1>5, <1>6 DEF IInv, CallInv

LEMMA PrepareNameStep ==
  ASSUME IInv, NEW c \in Call, PrepareName(c)
  PROVE  IInv'
<1>a. Named(message[c]) \in Message /\ Named(message[c]).fault = message[c].fault
  BY OfCall, MessageTypes
<1>p. PICK p \in {"own", "handler"} :
        pc' = [pc EXCEPT ![c] = p] /\ error' = [error EXCEPT ![c] = NoError]
  BY DEF PrepareName, GoesOn, After
<1>m. message' \in [Call -> Message]
  BY <1>a DEF IInv, Types, PrepareName
<1>1. Types'
  <2>1. pc' \in [Call -> Places] /\ error' \in [Call -> Errors]
    BY <1>p DEF IInv, Types, Errors, Places
  <2>2. UNCHANGED <<setup, clientVars, taken, served, out, status>>
    BY DEF PrepareName
  <2> QED BY <1>m, <2>1, <2>2 DEF IInv, Types, clientVars
<1>2. Counted(c)'
  BY OfCall, SMTT(60) DEF IInv, CallInv, Types, Counted, ClientSide, Reading, Handling, Ending, OneEach,
    Reasons, PrepareName, GoesOn, After, clientVars, Refusals, Faults, NoError
<1>3. InHand(c)'
  BY <1>a, OfCall, SMTT(60) DEF IInv, CallInv, Types, Counted, Reading, Handling, InHand, Given, Prepared,
    Refusable, PrepareName, GoesOn, After, clientVars, Refusals, Faults, NoError
<1>4. ServedAll(c)'
  BY OfCall DEF IInv, CallInv, Types, ServedAll, Given, Prepared, Refusable, PrepareName, GoesOn, After,
    clientVars
<1>5. AnsweredAll(c)'
  BY OfCall DEF IInv, CallInv, Types, AnsweredAll, Prepared, PrepareName, GoesOn, After, clientVars
<1>6. ASSUME NEW d \in Call, d # c PROVE CallInv(d)'
  BY <1>6, Untouched DEF IInv, Types, PrepareName, GoesOn, After, clientVars
<1> QED BY <1>1, <1>2, <1>3, <1>4, <1>5, <1>6 DEF IInv, CallInv

LEMMA PrepareOwnerStep ==
  ASSUME IInv, NEW c \in Call, PrepareOwner(c)
  PROVE  IInv'
<1> DEFINE m == sent[c][taken[c]]
<1>a. Owned(message[c]) \in Message
  BY OfCall, MessageTypes
<1>b. /\ message[c] = Named(Filled(Method[c], m)) /\ Method[c] \in setup.preparable
      /\ m.fault \notin {"malformed", "violations"} /\ error[c] = NoError
  BY OfCall DEF PrepareOwner, CallInv, InHand, Counted, Reading
<1>c. m.fault # "unprepared"
  <2>1. taken[c] \in 1 .. Len(sent[c])
    BY OfCall DEF PrepareOwner, CallInv, Counted, Reading, ClientSide
  <2>2. m \in Message
    BY <2>1, SentMessage
  <2>3. message[c].fault = m.fault
    BY <1>b, <2>2, MessageTypes
  <2> QED BY <2>3 DEF PrepareOwner
<1>1. Types'
  BY <1>a, OfCall DEF IInv, Types, PrepareOwner, GoesOn, After, clientVars, Errors, Faults, Places, NoError
<1>2. Counted(c)'
  BY OfCall DEF IInv, CallInv, Types, Counted, ClientSide, Reading, Handling, Ending, OneEach, Reasons,
    PrepareOwner, GoesOn, After, clientVars, Refusals, Faults, NoError
<1>3. InHand(c)'
  <2>1. Given(c, Owned(message[c]), m)
    BY <1>b, <1>c DEF Given, Prepared, Refusable
  <2>2. /\ setup' = setup /\ message'[c] = Owned(message[c]) /\ sent'[c] = sent[c] /\ taken'[c] = taken[c]
        /\ pc'[c] = "handler" /\ error'[c] = NoError
    BY DEF IInv, Types, PrepareOwner, GoesOn, After, clientVars
  <2> QED BY <2>1, <2>2 DEF InHand, Given, Prepared, Refusable, Refusals, Faults, NoError
<1>4. ServedAll(c)'
  BY OfCall DEF IInv, CallInv, Types, ServedAll, Given, Prepared, Refusable, PrepareOwner, GoesOn, After,
    clientVars
<1>5. AnsweredAll(c)'
  BY OfCall DEF IInv, CallInv, Types, AnsweredAll, Prepared, PrepareOwner, GoesOn, After, clientVars
<1>6. ASSUME NEW d \in Call, d # c PROVE CallInv(d)'
  BY <1>6, Untouched DEF IInv, Types, PrepareOwner, GoesOn, After, clientVars
<1> QED BY <1>1, <1>2, <1>3, <1>4, <1>5, <1>6 DEF IInv, CallInv

LEMMA PrepareFailsStep ==
  ASSUME IInv, NEW c \in Call, PrepareFails(c)
  PROVE  IInv'
<1> DEFINE m == sent[c][taken[c]]
<1>a. PICK e \in {"unprepared", "rejected", NoError} :
        /\ pc' = [pc EXCEPT ![c] = "handler"] /\ error' = [error EXCEPT ![c] = e]
        /\ e = NoError <=> setup.reject = "silent"
  <2>1. setup.reject \in {"default", "own", "silent"}
    BY ServiceAssumption DEF IInv, Types, Setup
  <2>2. CASE setup.reject = "default"
    <3>1. Returns(c, "unprepared")
      BY <2>2 DEF PrepareFails
    <3> QED BY <2>2, <3>1 DEF Returns, NoError
  <2>3. CASE setup.reject = "own"
    <3>1. Returns(c, "rejected")
      BY <2>3 DEF PrepareFails
    <3> QED BY <2>3, <3>1 DEF Returns, NoError
  <2>4. CASE setup.reject = "silent"
    <3>1. Returns(c, NoError)
      BY <2>4 DEF PrepareFails
    <3> QED BY <2>4, <3>1 DEF Returns, NoError
  <2> QED BY <2>1, <2>2, <2>3, <2>4
<1>b. /\ message[c] = Named(Filled(Method[c], m)) /\ Method[c] \in setup.preparable
      /\ m.fault \notin {"malformed", "violations"}
  BY OfCall DEF PrepareFails, CallInv, InHand
<1>c. m.fault = "unprepared"
  <2>1. taken[c] \in 1 .. Len(sent[c])
    BY OfCall DEF PrepareFails, CallInv, Counted, Reading, ClientSide
  <2>2. m \in Message
    BY <2>1, SentMessage
  <2>3. message[c].fault = m.fault
    BY <1>b, <2>2, MessageTypes
  <2> QED BY <2>3 DEF PrepareFails
<1>1. Types'
  BY <1>a, OfCall DEF IInv, Types, PrepareFails, clientVars, Errors, Faults, Places, NoError
<1>2. Counted(c)'
  BY <1>a, OfCall, SMTT(60) DEF IInv, CallInv, Types, Counted, ClientSide, Reading, Handling, Ending,
    OneEach, Reasons, PrepareFails, clientVars, Refusals, Faults, NoError
<1>3. InHand(c)'
  <2>1. CASE setup.reject = "silent"
    <3>1. Given(c, message[c], m)
      BY <1>b, <1>c, <2>1 DEF Given, Refusable
    <3> QED BY <1>a, <2>1, <3>1 DEF IInv, Types, InHand, Given, Prepared, Refusable, PrepareFails,
      clientVars, Refusals, Faults, NoError
  <2>2. CASE setup.reject # "silent"
    <3>1. Refusable(c, m)
      BY <1>b, <1>c, <2>2 DEF Refusable
    <3> QED BY <1>a, <2>2, <3>1 DEF IInv, Types, InHand, Refusable, PrepareFails, clientVars, Refusals,
      Faults, NoError
  <2> QED BY <2>1, <2>2
<1>4. ServedAll(c)'
  BY OfCall DEF IInv, CallInv, Types, ServedAll, Given, Prepared, Refusable, PrepareFails, clientVars
<1>5. AnsweredAll(c)'
  BY OfCall DEF IInv, CallInv, Types, AnsweredAll, Prepared, PrepareFails, clientVars
<1>6. ASSUME NEW d \in Call, d # c PROVE CallInv(d)'
  BY <1>a, <1>6, Untouched DEF IInv, Types, PrepareFails, clientVars
<1> QED BY <1>1, <1>2, <1>3, <1>4, <1>5, <1>6 DEF IInv, CallInv

LEMMA StartUnaryStep ==
  ASSUME IInv, NEW c \in Call, StartUnary(c)
  PROVE  IInv'
<1>1. Types'
  BY OfCall DEF IInv, Types, StartUnary, GoesOn, clientVars, Errors, Faults, Places, NoError
<1>2. Counted(c)'
  BY OfCall, SMTT(60) DEF IInv, CallInv, Types, Counted, ClientSide, Reading, Handling, Ending, OneEach,
    Reasons, StartUnary, GoesOn, clientVars, Refusals, Faults, NoError
<1>3. InHand(c)'
  BY OfCall DEF IInv, CallInv, Types, Counted, Reading, Handling, InHand, Given, Prepared, Refusable,
    StartUnary, GoesOn, clientVars, Refusals, Faults, NoError
<1>4. ServedAll(c)'
  BY OfCall DEF IInv, CallInv, Types, ServedAll, Given, Prepared, Refusable, StartUnary, GoesOn, clientVars
<1>5. AnsweredAll(c)'
  BY OfCall DEF IInv, CallInv, Types, AnsweredAll, Prepared, StartUnary, GoesOn, clientVars
<1>6. ASSUME NEW d \in Call, d # c PROVE CallInv(d)'
  BY <1>6, Untouched DEF IInv, Types, StartUnary, GoesOn, clientVars
<1> QED BY <1>1, <1>2, <1>3, <1>4, <1>5, <1>6 DEF IInv, CallInv

LEMMA StartStreamStep ==
  ASSUME IInv, NEW c \in Call, StartStream(c)
  PROVE  IInv'
<1>p. PICK p \in {"read", "end"}, e \in {"unimplemented", NoError} :
        pc' = [pc EXCEPT ![c] = p] /\ error' = [error EXCEPT ![c] = e]
  BY DEF StartStream, GoesOn, Ends
<1>1. Types'
  <2>1. pc' \in [Call -> Places] /\ error' \in [Call -> Errors]
    BY <1>p DEF IInv, Types, Errors, Places
  <2>2. UNCHANGED <<setup, clientVars, taken, message, served, out, status>>
    BY DEF StartStream
  <2> QED BY <2>1, <2>2 DEF IInv, Types, clientVars
<1>2. Counted(c)'
  <2>1. CASE GoesOn(c, "read")
    BY <2>1, OfCall DEF IInv, CallInv, Types, Counted, ClientSide, Reading, Handling, Ending, OneEach,
      Reasons, StartStream, GoesOn, clientVars, Refusals, Faults, NoError
  <2>2. CASE Ends(c, "unimplemented")
    BY <2>2, OfCall, SMTT(60) DEF IInv, CallInv, Types, Counted, ClientSide, Reading, Handling, Ending,
      OneEach, Reasons, StartStream, Ends, clientVars, Refusals, Faults, NoError
  <2> QED BY <2>1, <2>2 DEF StartStream
<1>3. InHand(c)'
  BY OfCall, SMTT(60) DEF IInv, CallInv, Types, Counted, Reading, Handling, InHand, Given, Prepared,
    Refusable, StartStream, GoesOn, Ends, clientVars, Refusals, Faults, NoError
<1>4. ServedAll(c)'
  BY OfCall DEF IInv, CallInv, Types, ServedAll, Given, Prepared, Refusable, StartStream, GoesOn, Ends,
    clientVars
<1>5. AnsweredAll(c)'
  BY OfCall DEF IInv, CallInv, Types, AnsweredAll, Prepared, StartStream, GoesOn, Ends, clientVars
<1>6. ASSUME NEW d \in Call, d # c PROVE CallInv(d)'
  BY <1>6, Untouched DEF IInv, Types, StartStream, GoesOn, Ends, clientVars
<1> QED BY <1>1, <1>2, <1>3, <1>4, <1>5, <1>6 DEF IInv, CallInv

LEMMA UnaryRefusesStep ==
  ASSUME IInv, NEW c \in Call, UnaryRefuses(c)
  PROVE  IInv'
<1>1. Types'
  BY OfCall DEF IInv, Types, UnaryRefuses, Ends, clientVars, Errors, Faults, Places, NoError
<1>2. Counted(c)'
  BY OfCall, SMTT(60) DEF IInv, CallInv, Types, Counted, ClientSide, Reading, Handling, Ending, OneEach,
    Reasons, UnaryRefuses, Ends, clientVars, Refusals, Faults, NoError
<1>3. InHand(c)'
  BY OfCall DEF IInv, CallInv, Types, Counted, Reading, Handling, InHand, Given, Prepared, Refusable,
    UnaryRefuses, Ends, clientVars, Refusals, Faults, NoError
<1>4. ServedAll(c)'
  BY OfCall DEF IInv, CallInv, Types, ServedAll, Given, Prepared, Refusable, UnaryRefuses, Ends, clientVars
<1>5. AnsweredAll(c)'
  BY OfCall DEF IInv, CallInv, Types, AnsweredAll, Prepared, UnaryRefuses, Ends, clientVars
<1>6. ASSUME NEW d \in Call, d # c PROVE CallInv(d)'
  BY <1>6, Untouched DEF IInv, Types, UnaryRefuses, Ends, clientVars
<1> QED BY <1>1, <1>2, <1>3, <1>4, <1>5, <1>6 DEF IInv, CallInv

LEMMA StreamEndsStep ==
  ASSUME IInv, NEW c \in Call, StreamEnds(c)
  PROVE  IInv'
<1>1. Types'
  BY OfCall DEF IInv, Types, StreamEnds, Ends, clientVars, Errors, Faults, Places, NoError
<1>2. Counted(c)'
  BY OfCall, SMTT(60) DEF IInv, CallInv, Types, Counted, ClientSide, Reading, Handling, Ending, OneEach,
    Reasons, StreamEnds, Ends, clientVars, Refusals, Faults, NoError
<1>3. InHand(c)'
  BY OfCall DEF IInv, CallInv, Types, Counted, Reading, Handling, InHand, Given, Prepared, Refusable,
    StreamEnds, Ends, clientVars, Refusals, Faults, NoError
<1>4. ServedAll(c)'
  BY OfCall DEF IInv, CallInv, Types, ServedAll, Given, Prepared, Refusable, StreamEnds, Ends, clientVars
<1>5. AnsweredAll(c)'
  BY OfCall DEF IInv, CallInv, Types, AnsweredAll, Prepared, StreamEnds, Ends, clientVars
<1>6. ASSUME NEW d \in Call, d # c PROVE CallInv(d)'
  BY <1>6, Untouched DEF IInv, Types, StreamEnds, Ends, clientVars
<1> QED BY <1>1, <1>2, <1>3, <1>4, <1>5, <1>6 DEF IInv, CallInv

LEMMA UnimplementedStep ==
  ASSUME IInv, NEW c \in Call, Unimplemented(c)
  PROVE  IInv'
<1>1. Types'
  BY OfCall DEF IInv, Types, Unimplemented, Ends, clientVars, Errors, Faults, Places, NoError
<1>a. Len(served[c]) = 0 /\ Len(out[c]) = 0 /\ taken[c] = 1
  BY OfCall DEF CallInv, Counted, Handling, OneEach, Unimplemented, NoError
<1>2. Counted(c)'
  BY <1>a, OfCall DEF IInv, CallInv, Types, Counted, ClientSide, Reading, Handling, Ending, OneEach,
    Reasons, Unimplemented, Ends, clientVars, Refusals, Faults, NoError
<1>3. InHand(c)'
  BY OfCall DEF IInv, CallInv, Types, Counted, Reading, Handling, InHand, Given, Prepared, Refusable,
    Unimplemented, Ends, clientVars, Refusals, Faults, NoError
<1>4. ServedAll(c)'
  BY OfCall, SMTT(60) DEF IInv, CallInv, Types, ServedAll, Given, Prepared, Refusable, Unimplemented, Ends,
    clientVars
<1>5. AnsweredAll(c)'
  BY OfCall DEF IInv, CallInv, Types, AnsweredAll, Prepared, Unimplemented, Ends, clientVars
<1>6. ASSUME NEW d \in Call, d # c PROVE CallInv(d)'
  BY <1>6, Untouched DEF IInv, Types, Unimplemented, Ends, clientVars
<1> QED BY <1>1, <1>2, <1>3, <1>4, <1>5, <1>6 DEF IInv, CallInv

LEMMA ServeStep ==
  ASSUME IInv, NEW c \in Call, Serve(c)
  PROVE  IInv'
<1> DEFINE s == Append(served[c], message[c])
<1>a. /\ s \in Seq(Message) /\ Len(s) = Len(served[c]) + 1
      /\ s[Len(s)] = message[c] /\ \A i \in 1 .. Len(served[c]) : s[i] = served[c][i]
  BY OfCall
<1>b. served' = [served EXCEPT ![c] = s] /\ served'[c] = s
  BY DEF IInv, Types, Serve
<1>c. PICK p \in {"send", "end"}, e \in {"service", NoError} :
        pc' = [pc EXCEPT ![c] = p] /\ error' = [error EXCEPT ![c] = e]
  BY DEF Serve, GoesOn, Ends
<1> HIDE DEF s
<1>1. Types'
  BY <1>a, <1>b, <1>c, OfCall DEF IInv, Types, Serve, clientVars, Errors, Faults, Places, NoError
<1>2. Counted(c)'
  <2>1. /\ pc[c] = "handler" /\ error[c] = NoError /\ UNCHANGED <<setup, clientVars, taken, message, out, status>>
    BY DEF Serve
  <2>2. /\ Len(s) = taken[c] /\ Len(out[c]) + 1 = taken[c] /\ (IsUnary(c) => Len(s) = 1)
    BY <1>a, <2>1, OfCall, SMTT(60) DEF CallInv, Counted, Handling, OneEach, NoError
  <2>3. CASE GoesOn(c, "send")
    BY <1>b, <2>1, <2>2, <2>3, OfCall DEF IInv, CallInv, Types, Counted, ClientSide, Reading, Handling,
      Ending, OneEach, Reasons, GoesOn, clientVars, Refusals, Faults, NoError
  <2>4. CASE Ends(c, "service")
    BY <1>b, <2>1, <2>2, <2>4, OfCall, SMTT(60) DEF IInv, CallInv, Types, Counted, ClientSide, Reading,
      Handling, Ending, OneEach, Reasons, Ends, clientVars, Refusals, Faults, NoError
  <2> QED BY <2>3, <2>4 DEF Serve
<1>3. InHand(c)'
  <2>1. Given(c, message[c], sent[c][taken[c]])
    BY OfCall DEF CallInv, InHand, Serve, NoError
  <2>2. UNCHANGED <<setup, sent, taken, message>>
    BY DEF Serve, clientVars
  <2>3. pc'[c] \in {"send", "end"} /\ error'[c] \in {"service", NoError}
    BY <1>c DEF IInv, Types
  <2> QED BY <2>1, <2>2, <2>3 DEF InHand, Given, Prepared, Refusable, Refusals, Faults, NoError
<1>4. ServedAll(c)'
  <2>1. Len(s) = taken[c] /\ Given(c, message[c], sent[c][Len(s)])
    BY <1>a, OfCall, SMTT(60) DEF CallInv, Counted, Handling, InHand, Serve, NoError
  <2>2. \A i \in 1 .. Len(s) : Given(c, s[i], sent[c][i])
    BY <1>a, <2>1, OfCall DEF CallInv, ServedAll
  <2> QED BY <1>b, <2>2 DEF ServedAll, Given, Prepared, Refusable, Serve, clientVars
<1>5. AnsweredAll(c)'
  BY OfCall DEF IInv, CallInv, Types, AnsweredAll, Prepared, Serve, GoesOn, Ends, clientVars
<1>6. ASSUME NEW d \in Call, d # c PROVE CallInv(d)'
  BY <1>6, Untouched DEF IInv, Types, Serve, GoesOn, Ends, clientVars
<1> QED BY <1>1, <1>2, <1>3, <1>4, <1>5, <1>6 DEF IInv, CallInv

LEMMA SendStep ==
  ASSUME IInv, NEW c \in Call, Send(c)
  PROVE  IInv'
<1> DEFINE r == Cleared(Response(message[c]))
<1> DEFINE o == Append(out[c], r)
<1> DEFINE R == [name : Ids, token : BOOLEAN]
<1>a. r = [name |-> message[c].name, token |-> FALSE] /\ r \in R
  <2>1. r = [name |-> message[c].name, token |-> FALSE]
    BY DEF Response, Cleared
  <2>2. message[c].name \in Ids
    BY OfCall DEF Message
  <2> HIDE DEF r
  <2> QED BY <2>1, <2>2
<1>g. out[c] \in Seq(R)
  BY OfCall
<1> HIDE DEF r, R
<1>b. /\ o \in Seq(R) /\ Len(o) = Len(out[c]) + 1
      /\ o[Len(o)] = r /\ \A i \in 1 .. Len(out[c]) : o[i] = out[c][i]
  BY <1>a, <1>g
<1> HIDE DEF o
<1>c. \/ /\ out' = [out EXCEPT ![c] = o] /\ out'[c] = o
         /\ IF IsUnary(c) THEN Ends(c, NoError) ELSE GoesOn(c, "read")
      \/ client[c] = "left" /\ Ends(c, "canceled") /\ UNCHANGED out
  BY DEF IInv, Types, Send, r, o
<1>d. out' \in [Call -> Seq([name : Ids, token : BOOLEAN])] /\ \A d \in Call \ {c} : out'[d] = out[d]
  <2>1. CASE out' = [out EXCEPT ![c] = o]
    BY <1>b, <2>1 DEF IInv, Types, R
  <2>2. CASE out' = out
    BY <2>2 DEF IInv, Types
  <2> QED BY <1>c, <2>1, <2>2
<1>e. pc[c] = "send" /\ UNCHANGED <<setup, clientVars, taken, message, served, status>>
  BY DEF Send
<1>f. PICK p \in {"read", "end"}, e \in {"canceled", NoError} :
        pc' = [pc EXCEPT ![c] = p] /\ error' = [error EXCEPT ![c] = e]
  BY <1>c DEF GoesOn, Ends
<1>1. Types'
  BY <1>d, <1>e, <1>f, OfCall DEF IInv, Types, clientVars, Errors, Faults, Places, NoError
<1>2. Counted(c)'
  <2>1. CASE out' = [out EXCEPT ![c] = o] /\ out'[c] = o
             /\ IF IsUnary(c) THEN Ends(c, NoError) ELSE GoesOn(c, "read")
    BY <1>b, <1>e, <2>1, OfCall, SMTT(60) DEF IInv, CallInv, Types, Counted, ClientSide, Reading, Handling,
      Ending, OneEach, Reasons, GoesOn, Ends, clientVars, Refusals, Faults, NoError
  <2>2. CASE client[c] = "left" /\ Ends(c, "canceled") /\ UNCHANGED out
    BY <1>e, <2>2, LostApart, LosesCounted DEF Ends
  <2> QED BY <1>c, <2>1, <2>2
<1>3. InHand(c)'
  BY <1>f DEF IInv, Types, InHand, Refusals, Faults, NoError
<1>4. ServedAll(c)'
  BY <1>e, OfCall DEF CallInv, ServedAll, Given, Prepared, Refusable, clientVars
<1>5. AnsweredAll(c)'
  <2>1. Len(o) = taken[c] /\ Given(c, message[c], sent[c][Len(o)])
    BY <1>b, <1>e, OfCall DEF CallInv, Counted, Handling, InHand
  <2>2. r = [name |-> Prepared(c, sent[c][Len(o)]).name, token |-> FALSE]
    <3>1. message[c].name = Prepared(c, sent[c][Len(o)]).name
      <4>1. taken[c] \in 1 .. Len(sent[c])
        BY <1>b, <2>1, OfCall DEF CallInv, Counted, ClientSide
      <4>2. sent[c][Len(o)] \in Message
        BY <2>1, <4>1, SentMessage
      <4>3. Named(Filled(Method[c], sent[c][Len(o)])) \in Message
        BY <4>2, MessageTypes
      <4>4. Owned(Named(Filled(Method[c], sent[c][Len(o)]))).name = Named(Filled(Method[c], sent[c][Len(o)])).name
        BY <4>3, MessageTypes
      <4> QED BY <2>1, <4>4 DEF Given, Prepared
    <3> QED BY <1>a, <3>1
  <2>3. \A i \in 1 .. Len(o) : o[i] = [name |-> Prepared(c, sent[c][i]).name, token |-> FALSE]
    <3> SUFFICES ASSUME NEW i \in 1 .. Len(o)
                 PROVE  o[i] = [name |-> Prepared(c, sent[c][i]).name, token |-> FALSE]
      OBVIOUS
    <3>1. CASE i = Len(o)
      BY <1>b, <2>2, <3>1
    <3>2. CASE i # Len(o)
      <4>1. i \in 1 .. Len(out[c])
        BY <1>b, <3>2, OfCall
      <4> QED BY <1>b, <4>1, OfCall DEF CallInv, AnsweredAll
    <3> QED BY <3>1, <3>2
  <2>4. CASE out'[c] = o
    BY <1>e, <2>3, <2>4 DEF AnsweredAll, Prepared, clientVars
  <2>5. CASE out' = out
    BY <1>e, <2>5, OfCall DEF CallInv, AnsweredAll, Prepared, clientVars
  <2> QED BY <1>c, <2>4, <2>5
<1>6. ASSUME NEW d \in Call, d # c PROVE CallInv(d)'
  BY <1>d, <1>e, <1>f, <1>6, Untouched DEF IInv, Types, clientVars
<1> QED BY <1>1, <1>2, <1>3, <1>4, <1>5, <1>6 DEF IInv, CallInv

LEMMA BreaksStep ==
  ASSUME IInv, NEW c \in Call, Breaks(c)
  PROVE  IInv'
<1>a. PICK e \in Breakages : (pc[c] = "read" /\ Returns(c, e)) \/ (pc[c] = "send" /\ Ends(c, e))
  BY DEF Breaks
<1>b. e \in Errors /\ e \in Lost /\ e # "canceled"
  BY LostApart, ServiceAssumption DEF Lost
<1>c. e \notin Refusals /\ e # NoError /\ e # "eof" /\ e # "unimplemented" /\ e # "service"
  BY <1>b, LostApart DEF Refusals, Faults
<1>d. PICK p \in {"handler", "end"} :
        pc' = [pc EXCEPT ![c] = p] /\ error' = [error EXCEPT ![c] = e]
        /\ ((p = "handler" /\ pc[c] = "read") \/ (p = "end" /\ pc[c] = "send"))
  BY <1>a DEF Returns, Ends
<1>e. UNCHANGED <<setup, clientVars, taken, message, served, out, status>>
  BY DEF Breaks
<1>1. Types'
  <2>1. pc' \in [Call -> Places] /\ error' \in [Call -> Errors]
    BY <1>b, <1>d DEF IInv, Types, Places
  <2> QED BY <1>e, <2>1 DEF IInv, Types, clientVars
<1>2. Counted(c)'
  BY <1>b, <1>d, <1>e, LosesCounted
<1>3. InHand(c)'
  BY <1>c, <1>d DEF IInv, Types, InHand
<1>4. ServedAll(c)'
  BY <1>e, OfCall DEF CallInv, ServedAll, Given, Prepared, Refusable, clientVars
<1>5. AnsweredAll(c)'
  BY <1>e, OfCall DEF CallInv, AnsweredAll, Prepared, clientVars
<1>6. ASSUME NEW d \in Call, d # c PROVE CallInv(d)'
  BY <1>d, <1>e, <1>6, Untouched DEF IInv, Types, clientVars
<1> QED BY <1>1, <1>2, <1>3, <1>4, <1>5, <1>6 DEF IInv, CallInv

LEMMA EndStep ==
  ASSUME IInv, NEW c \in Call, End(c)
  PROVE  IInv'
<1>1. Types'
  BY CodeFacts, OfCall DEF IInv, Types, End, clientVars, Errors, Faults, Places, NoError
<1>2. Counted(c)'
  BY OfCall, SMTT(60) DEF IInv, CallInv, Types, Counted, ClientSide, Reading, Handling, Ending, OneEach,
    Reasons, End, clientVars, Refusals, Faults, NoError
<1>3. InHand(c)'
  BY OfCall, SMTT(60) DEF IInv, CallInv, Types, Counted, Reading, Handling, InHand, Given, Prepared,
    Refusable, End, clientVars, Refusals, Faults, NoError
<1>4. ServedAll(c)'
  BY OfCall DEF IInv, CallInv, Types, ServedAll, Given, Prepared, Refusable, End, clientVars
<1>5. AnsweredAll(c)'
  BY OfCall DEF IInv, CallInv, Types, AnsweredAll, Prepared, End, clientVars
<1>6. ASSUME NEW d \in Call, d # c PROVE CallInv(d)'
  BY <1>6, Untouched DEF IInv, Types, End, clientVars
<1> QED BY <1>1, <1>2, <1>3, <1>4, <1>5, <1>6 DEF IInv, CallInv

\* The client's steps: of what it has sent, all stays, in its place.
LEMMA ClientActs ==
  ASSUME IInv, NEW c \in Call, Client(c)
  PROVE  /\ Types' /\ Counted(c)'
         /\ \A i \in 1 .. Len(sent[c]) : sent'[c][i] = sent[c][i]
<1> DEFINE Kept == \A i \in 1 .. Len(sent[c]) : sent'[c][i] = sent[c][i]
<1>1. ASSUME NEW m \in Messages, CallUnary(c, m) PROVE Types' /\ Counted(c)' /\ Kept
  <2>1. sent[c] = <<>> /\ ~closed[c] /\ pc[c] = "none"
    BY <1>1, OfCall DEF CallInv, Counted, ClientSide, CallUnary
  <2>2. <<m>> \in Seq(Messages) /\ Len(<<m>>) = 1 /\ Len(<<>>) = 0
    OBVIOUS
  <2>3. Types'
    BY <1>1, <2>2 DEF IInv, Types, CallUnary, serverVars
  <2>4. Counted(c)'
    BY <1>1, <2>1, <2>2, OfCall DEF IInv, CallInv, Types, Counted, ClientSide, Reading, Handling, Ending,
      OneEach, Reasons, CallUnary, serverVars
  <2>5. Kept
    BY <2>1, <2>2
  <2> QED BY <2>3, <2>4, <2>5
<1>2. CASE UnaryReturns(c)
  <2>1. Types'
    BY <1>2, OfCall DEF IInv, Types, UnaryReturns, serverVars
  <2>2. Counted(c)'
    BY <1>2, OfCall DEF IInv, CallInv, Types, Counted, ClientSide, Reading, Handling, Ending, OneEach,
      Reasons, UnaryReturns, serverVars
  <2>3. Kept
    BY <1>2, OfCall DEF IInv, Types, UnaryReturns
  <2> QED BY <2>1, <2>2, <2>3
<1>3. CASE OpenStream(c)
  <2>1. Types'
    BY <1>3, OfCall DEF IInv, Types, OpenStream, serverVars
  <2>2. Counted(c)'
    BY <1>3, OfCall DEF IInv, CallInv, Types, Counted, ClientSide, Reading, Handling, Ending, OneEach,
      Reasons, OpenStream, serverVars
  <2>3. Kept
    BY <1>3, OfCall DEF IInv, Types, OpenStream
  <2> QED BY <2>1, <2>2, <2>3
<1>4. ASSUME NEW m \in Messages, StreamSend(c, m) PROVE Types' /\ Counted(c)' /\ Kept
  <2> DEFINE s == Append(sent[c], m)
  <2>1. /\ s \in Seq(Messages) /\ Len(s) = Len(sent[c]) + 1
        /\ \A i \in 1 .. Len(sent[c]) : s[i] = sent[c][i]
    BY OfCall
  <2>2. sent' = [sent EXCEPT ![c] = s] /\ sent'[c] = s
    BY <1>4 DEF IInv, Types, StreamSend
  <2> HIDE DEF s
  <2>3. Types'
    BY <1>4, <2>1, <2>2 DEF IInv, Types, StreamSend, serverVars
  <2>4. ~IsUnary(c)
    BY <1>4, OfCall DEF CallInv, Counted, ClientSide, StreamSend
  <2>5. Counted(c)'
    BY <1>4, <2>1, <2>2, <2>4, OfCall, SMTT(60) DEF IInv, CallInv, Types, Counted, ClientSide, Reading,
      Handling, Ending, OneEach, Reasons, StreamSend, serverVars
  <2> QED BY <2>1, <2>2, <2>3, <2>5
<1>5. CASE CloseSend(c)
  <2>1. Types'
    BY <1>5, OfCall DEF IInv, Types, CloseSend, serverVars
  <2>2. Counted(c)'
    BY <1>5, OfCall DEF IInv, CallInv, Types, Counted, ClientSide, Reading, Handling, Ending, OneEach,
      Reasons, CloseSend, serverVars
  <2>3. Kept
    BY <1>5, OfCall DEF IInv, Types, CloseSend
  <2> QED BY <2>1, <2>2, <2>3
<1>6. CASE StreamReceive(c)
  <2>1. Types'
    <3>1. client' \in [Call -> {"idle", "waiting", "open", "ended", "left"}] /\ got' \in [Call -> Nat]
      <4>1. CASE got' = [got EXCEPT ![c] = @ + 1] /\ UNCHANGED client
        BY <4>1 DEF IInv, Types
      <4>2. CASE client' = [client EXCEPT ![c] = "ended"] /\ UNCHANGED got
        BY <4>2 DEF IInv, Types
      <4> QED BY <1>6, <4>1, <4>2 DEF StreamReceive
    <3> QED BY <1>6, <3>1 DEF IInv, Types, StreamReceive, serverVars
  <2>2. Counted(c)'
    BY <1>6, OfCall DEF IInv, CallInv, Types, Counted, ClientSide, Reading, Handling, Ending, OneEach,
      Reasons, StreamReceive, serverVars
  <2>3. Kept
    BY <1>6, OfCall DEF IInv, Types, StreamReceive
  <2> QED BY <2>1, <2>2, <2>3
<1>7. CASE Leave(c)
  <2>1. Types'
    BY <1>7, OfCall DEF IInv, Types, Leave, serverVars
  <2>2. Counted(c)'
    BY <1>7, OfCall DEF IInv, CallInv, Types, Counted, ClientSide, Reading, Handling, Ending, OneEach,
      Reasons, Leave, serverVars
  <2>3. Kept
    BY <1>7, OfCall DEF IInv, Types, Leave
  <2> QED BY <2>1, <2>2, <2>3
<1> QED BY <1>1, <1>2, <1>3, <1>4, <1>5, <1>6, <1>7 DEF Client, ClientStream

LEMMA ClientStep ==
  ASSUME IInv, NEW c \in Call, Client(c)
  PROVE  IInv'
<1>1. Types' /\ Counted(c)' /\ \A i \in 1 .. Len(sent[c]) : sent'[c][i] = sent[c][i]
  BY ClientActs
<1>2. UNCHANGED <<setup, serverVars>>
  BY DEF Client, ClientStream, CallUnary, UnaryReturns, OpenStream, StreamSend, CloseSend, StreamReceive, Leave
<1>3. taken[c] = 0 \/ taken[c] \in 1 .. Len(sent[c])
  BY OfCall DEF CallInv, Counted, ClientSide
<1>4. InHand(c)'
  <2>1. CASE taken[c] = 0
    BY <1>2, <2>1, Lengths DEF InHand, serverVars
  <2>2. CASE taken[c] \in 1 .. Len(sent[c])
    BY <1>1, <1>2, <2>2, OfCall DEF CallInv, InHand, Given, Prepared, Refusable, serverVars
  <2> QED BY <1>3, <2>1, <2>2
<1>5. Len(served[c]) <= Len(sent[c]) /\ Len(out[c]) <= Len(sent[c])
  BY Lengths, OfCall DEF Ordered
<1>6. \A i : (i \in 1 .. Len(served[c]) \/ i \in 1 .. Len(out[c])) => sent'[c][i] = sent[c][i]
  BY <1>1, <1>5, OfCall
<1>7. ServedAll(c)'
  BY <1>2, <1>6, OfCall, SMTT(60) DEF CallInv, ServedAll, Given, Prepared, Refusable, serverVars
<1>8. AnsweredAll(c)'
  BY <1>2, <1>6, OfCall DEF CallInv, AnsweredAll, Prepared, serverVars
<1>9. ASSUME NEW d \in Call, d # c PROVE CallInv(d)'
  <2>1. client'[d] = client[d] /\ sent'[d] = sent[d] /\ closed'[d] = closed[d] /\ got'[d] = got[d]
    BY <1>9 DEF IInv, Types, Client, ClientStream, CallUnary, UnaryReturns, OpenStream, StreamSend, CloseSend,
      StreamReceive, Leave
  <2> QED BY <1>2, <2>1, Untouched DEF IInv, serverVars
<1> QED BY <1>1, <1>4, <1>7, <1>8, <1>9 DEF IInv, CallInv

----------------------------------------------------------------------------
(* The theorems.                                                           *)

LEMMA Inductive ==
  ASSUME IInv, [Next]_vars
  PROVE  IInv'
<1>1. CASE UNCHANGED vars
  <2>1. Types'
    BY <1>1 DEF IInv, Types, vars, clientVars, serverVars
  <2>2. ASSUME NEW d \in Call PROVE CallInv(d)'
    BY <1>1, Untouched DEF IInv, vars, clientVars, serverVars
  <2> QED BY <2>1, <2>2 DEF IInv
<1>2. ASSUME NEW c \in Call, Client(c) PROVE IInv'
  BY <1>2, ClientStep
<1>3. ASSUME NEW c \in Call, Server(c) PROVE IInv'
  BY <1>3, ReadStep, ReadFailsStep, FillAndValidateStep, PrepareNameStep, PrepareOwnerStep, PrepareFailsStep,
     StartUnaryStep, StartStreamStep, UnaryRefusesStep, StreamEndsStep, UnimplementedStep,
     ServeStep, SendStep, EndStep
     DEF Server, Receive, UnaryHandler, StreamHandler
<1>4. ASSUME NEW c \in Call, Breaks(c) PROVE IInv'
  BY <1>4, BreaksStep
<1> QED BY <1>1, <1>2, <1>3, <1>4 DEF Next

LEMMA Invariant == Spec => []IInv
<1>1. IInv /\ [Next]_vars => IInv'
  BY Inductive
<1> QED BY Initially, <1>1, PTL DEF Spec

\* The types, and that nobody is ahead of who feeds it: no response without a
\* request served, none served that was not read, none read that was not sent.
THEOREM TypeCorrect == Spec => []TypeOK
<1>1. IInv => TypeOK
  <2> SUFFICES ASSUME IInv PROVE TypeOK
    OBVIOUS
  <2> QED BY Lengths DEF IInv, TypeOK
<1> QED BY Invariant, <1>1, PTL

\* The service is given what was sent, filled in and then prepared.
THEOREM ServedAsPrepared == Spec => []ServesWhatWasSentPrepared
<1>1. IInv => ServesWhatWasSentPrepared
  BY DEF IInv, CallInv, ServedAll, Given, ServesWhatWasSentPrepared
<1> QED BY Invariant, <1>1, PTL

\* What the chain refuses ends the call, and is not served.
THEOREM NoneRefusedServed == Spec => []RefusedIsNotServed
<1>1. IInv => RefusedIsNotServed
  <2> SUFFICES ASSUME IInv, NEW c \in Call, NEW i \in 1 .. taken[c], Refusable(c, sent[c][i])
               PROVE  /\ i = taken[c] /\ Len(served[c]) = i - 1
                      /\ status[c] \in {"open", "invalid_argument", "failed_precondition"}
    BY DEF RefusedIsNotServed
  <2>1. i \notin 1 .. Len(served[c])
    BY DEF IInv, CallInv, ServedAll, Given
  <2>2. i \in Nat /\ i >= 1 /\ i <= taken[c] /\ i > Len(served[c])
    BY <2>1, OfCall
  <2>3. taken[c] # Len(served[c])
    BY <2>2, OfCall
  <2>4. pc[c] \in Places /\ Reading(c) /\ Handling(c) /\ Ending(c) /\ Reasons(c)
    BY OfCall DEF IInv, Types, CallInv, Counted
  <2>5. ~(error[c] = "unimplemented" /\ pc[c] \in {"end", "done"})
    <3> SUFFICES ASSUME error[c] = "unimplemented", pc[c] \in {"end", "done"} PROVE FALSE
      OBVIOUS
    <3>1. taken[c] <= 1
      BY <2>4, LostApart DEF Ending, Refusals, Faults, NoError
    <3>2. i = taken[c] /\ taken[c] > 0
      BY <2>2, <3>1, OfCall
    <3> QED BY <3>2 DEF IInv, CallInv, InHand
  <2>6. Len(served[c]) + 1 = taken[c]
    BY <2>3, <2>4, <2>5, OfCall DEF Places, Reading, Handling, Ending
  <2>7. pc[c] = "done" => error[c] \in Refusals
    BY <2>3, <2>4, <2>5 DEF Ending
  <2>8. status[c] \in {"open", "invalid_argument", "failed_precondition"}
    BY <2>4, <2>7, CodeFacts DEF Reasons
  <2>9. i = taken[c]
    BY <2>2, <2>6, OfCall
  <2>10. Len(served[c]) = i - 1
    BY <2>6, <2>9, OfCall
  <2> QED BY <2>8, <2>9, <2>10
<1> QED BY Invariant, <1>1, PTL

\* No call is refused, canceled or answered with io.EOF for nothing.
THEOREM EndedForAReason == Spec => []EndsForAReason
<1>1. IInv => EndsForAReason
  <2> SUFFICES ASSUME IInv, NEW c \in Call
               PROVE  /\ status[c] \in {"invalid_argument", "failed_precondition"}
                         => taken[c] > 0 /\ Refusable(c, sent[c][taken[c]])
                      /\ status[c] = "canceled" => client[c] = "left"
                      /\ pc[c] = "done" => error[c] # "eof"
    BY DEF EndsForAReason
  <2>1. Ending(c) /\ Reasons(c) /\ InHand(c)
    BY DEF IInv, CallInv, Counted
  <2>2. CASE pc[c] # "done"
    BY <2>1, <2>2 DEF Reasons
  <2>3. CASE pc[c] = "done"
    <3>1. status[c] = Code(error[c])
      BY <2>1, <2>3 DEF Reasons
    <3>2. error[c] \in Refusals => taken[c] > 0 /\ Refusable(c, sent[c][taken[c]])
      BY <2>1, Lengths, OfCall DEF InHand
    <3>3. (error[c] = "canceled" => client[c] = "left") /\ error[c] # "eof"
      BY <2>1, <2>3 DEF Reasons
    <3> QED BY <3>1, <3>2, <3>3, CodeFacts
  <2> QED BY <2>2, <2>3
<1> QED BY Invariant, <1>1, PTL

\* A call that ends well has had all its client sent answered.
THEOREM AnsweredInFull == Spec => []AnswersInFull
<1>1. IInv => AnswersInFull
  <2> SUFFICES ASSUME IInv, NEW c \in Call
               PROVE  /\ status[c] = "ok" => closed[c] /\ Len(out[c]) = Len(sent[c])
                      /\ \A i \in 1 .. Len(out[c]) :
                            out[c][i] = [name |-> Prepared(c, sent[c][i]).name, token |-> FALSE]
    BY DEF AnswersInFull
  <2>1. Ending(c) /\ Reasons(c) /\ AnsweredAll(c)
    BY DEF IInv, CallInv, Counted
  <2>2. status[c] = "ok" => pc[c] = "done" /\ error[c] = NoError
    BY <2>1, CodeFacts DEF Reasons
  <2>3. status[c] = "ok" => closed[c] /\ Len(out[c]) = Len(sent[c])
    BY <2>1, <2>2, LostApart DEF Ending, Reasons, Refusals, Faults, NoError
  <2> QED BY <2>1, <2>3 DEF AnsweredAll
<1> QED BY Invariant, <1>1, PTL

\* The calls, with the chain, the generated handlers and the service, implement BookCalls.
THEOREM Refinement == Spec => ImplementsCalls
<1>1. Init => Calls!CallsInit
  BY DEF Init, Calls!CallsInit
<1>2. IInv /\ [Next]_vars => [Calls!CallsNext]_(Calls!callVars)
  <2> SUFFICES ASSUME IInv, [Next]_vars PROVE [Calls!CallsNext]_(Calls!callVars)
    OBVIOUS
  <2>1. CASE UNCHANGED <<served, out, status>>
    BY <2>1 DEF Calls!callVars
  <2>2. ASSUME NEW c \in Call, Serve(c) PROVE Calls!Give(c)
    <3>1. pc[c] = "handler" /\ error[c] = NoError /\ UNCHANGED <<out, status>>
          /\ served' = [served EXCEPT ![c] = Append(@, message[c])]
      BY <2>2 DEF Serve
    <3>2. Handling(c) /\ OneEach(c) /\ Reasons(c)
      BY DEF IInv, CallInv, Counted
    <3>3. status[c] = "open" /\ Len(served[c]) = Len(out[c]) /\ (IsUnary(c) => Len(served[c]) = 0)
      BY <3>1, <3>2 DEF Handling, OneEach, Reasons
    <3>4. [d \in Call |-> Len(served[d])]' = [[d \in Call |-> Len(served[d])] EXCEPT ![c] = @ + 1]
      <4>1. served'[c] = Append(served[c], message[c]) /\ \A d \in Call : d # c => served'[d] = served[d]
        BY <3>1 DEF IInv, Types
      <4>2. Len(Append(served[c], message[c])) = Len(served[c]) + 1
        BY OfCall
      <4>3. \A d \in Call : Len(served'[d]) = IF d = c THEN Len(served[c]) + 1 ELSE Len(served[d])
        BY <4>1, <4>2
      <4> QED BY <4>3
    <3> QED BY <3>1, <3>3, <3>4 DEF Calls!Give
  <2>3. ASSUME NEW c \in Call, Send(c), out' # out PROVE Calls!Answer(c)
    <3>1. pc[c] = "send" /\ UNCHANGED <<served, status>>
          /\ out' = [out EXCEPT ![c] = Append(@, Cleared(Response(message[c])))]
      BY <2>3 DEF Send
    <3>2. Handling(c) /\ Reasons(c)
      BY DEF IInv, CallInv, Counted
    <3>3. status[c] = "open" /\ Len(out[c]) < Len(served[c])
      BY <3>1, <3>2, OfCall DEF Handling, Reasons
    <3>4. [d \in Call |-> Len(out[d])]' = [[d \in Call |-> Len(out[d])] EXCEPT ![c] = @ + 1]
      <4>1. out'[c] = Append(out[c], Cleared(Response(message[c]))) /\ \A d \in Call : d # c => out'[d] = out[d]
        BY <3>1 DEF IInv, Types
      <4>2. Len(Append(out[c], Cleared(Response(message[c])))) = Len(out[c]) + 1
        BY OfCall
      <4>3. \A d \in Call : Len(out'[d]) = IF d = c THEN Len(out[c]) + 1 ELSE Len(out[d])
        BY <4>1, <4>2
      <4> QED BY <4>3
    <3> QED BY <3>1, <3>3, <3>4 DEF Calls!Answer
  <2>4. ASSUME NEW c \in Call, End(c) PROVE Calls!EndWell(c) \/ Calls!Fail(c)
    <3>1. pc[c] = "end" /\ UNCHANGED <<served, out>> /\ status' = [status EXCEPT ![c] = Code(error[c])]
      BY <2>4 DEF End
    <3>2. Ending(c) /\ OneEach(c) /\ Reasons(c)
      BY DEF IInv, CallInv, Counted
    <3>3. status[c] = "open" /\ status'[c] = Code(error[c]) /\ Code(error[c]) # "open"
      BY <3>1, <3>2, CodeFacts DEF Reasons, IInv, Types
    <3>4. CASE error[c] = NoError
      <4>1. Len(out[c]) = Len(served[c]) /\ (IsUnary(c) => Len(out[c]) = 1)
        BY <3>1, <3>2, <3>4, LostApart DEF Ending, OneEach, Refusals, Faults, NoError
      <4>2. Code(error[c]) = "ok"
        BY <3>4, CodeFacts
      <4> QED BY <3>1, <3>3, <4>1, <4>2 DEF Calls!EndWell
    <3>5. CASE error[c] # NoError
      <4>1. Code(error[c]) # "ok"
        BY <3>5, CodeFacts
      <4> QED BY <3>1, <3>3, <4>1 DEF Calls!Fail
    <3> QED BY <3>4, <3>5
  <2>5. ASSUME NEW c \in Call, Server(c), ~Serve(c), ~Send(c), ~End(c)
        PROVE  UNCHANGED <<served, out, status>>
    BY <2>5 DEF Server, Receive, Read, ReadFails, FillAndValidate, PrepareName, PrepareOwner, PrepareFails,
      UnaryHandler, StreamHandler, StartUnary, StartStream, UnaryRefuses, StreamEnds, Unimplemented
  <2>6. ASSUME NEW c \in Call, Client(c) PROVE UNCHANGED <<served, out, status>>
    BY <2>6 DEF Client, ClientStream, CallUnary, UnaryReturns, OpenStream, StreamSend, CloseSend, StreamReceive,
      Leave, serverVars
  <2>7. ASSUME NEW c \in Call, Send(c), out' = out PROVE UNCHANGED <<served, out, status>>
    BY <2>7 DEF Send
  <2>8. UNCHANGED vars => UNCHANGED <<served, out, status>>
    BY DEF vars, serverVars
  <2>9. ASSUME NEW c \in Call, Breaks(c) PROVE UNCHANGED <<served, out, status>>
    BY <2>9 DEF Breaks
  <2> QED BY <2>1, <2>2, <2>3, <2>4, <2>5, <2>6, <2>7, <2>8, <2>9 DEF Next, Calls!CallsNext
<1> QED BY Invariant, <1>1, <1>2, PTL DEF Spec, ImplementsCalls, Calls!CallsSpec

=============================================================================
