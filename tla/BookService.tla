------------------------------ MODULE BookService ------------------------------
(***************************************************************************)
(* Calls of tests.BookService from end to end: the generated client, the   *)
(* messages on their way, and on the server the generated handler, which   *)
(* reads through the chain of interceptors, hands the service what it has  *)
(* read and sends what it answers.  What Prepare does to a request is      *)
(* modelled in two halves, so that it can fail half way.  A client may     *)
(* leave (cancel, close its stream, lose its connection) at any time, and  *)
(* only so many messages are on their way: a server whose responses nobody *)
(* receives waits to send the next.                                        *)
(***************************************************************************)
EXTENDS Integers, Sequences

CONSTANTS
  Call,
  Method,       \* Method[c]: the method c is a call of
  Setups,       \* how the server may be set up
  Ids,          \* the ids and names of books, "" when unset, "minted" by the server
  Messages,     \* what clients send
  MaxMessages,  \* bound: the messages a client sends on a stream
  Window,       \* the messages on their way in one direction before a sender waits
  Breakages     \* what the framework's read or send may fail with, its client still there

Procedures == {"CreateBook", "UpdateBook", "BatchCreateBooks", "GetBook", "SyncBooks", "ImportBooks"}

StreamType(procedure) == IF procedure \in {"SyncBooks", "ImportBooks"} THEN "bidi" ELSE "unary"

IsUnary(c) == StreamType(Method[c]) = "unary"

\* The methods whose requests are creates with a `book_id` (the entries of a batch
\* are FieldBehaviorStream's).
Creates == {"CreateBook", "ImportBooks"}

----------------------------------------------------------------------------
(* Messages and errors.  A message has the id of the book, its name, which *)
(* Prepare builds from the id, and an OUTPUT_ONLY field, which Prepare     *)
(* sets too.  `fault` is what the server will find wrong with it.          *)

Faults  == {"malformed", "violations", "unprepared"}
Message == [fault : Faults \cup {"none"}, id : Ids, name : Ids, owned : {"unset", "client", "server"}]

\* The reject function NewPrepareInterceptor is given (none, one that returns an
\* error, one that may return nil), the methods that are not
\* UnimplementedBookServiceHandler's, and those whose request is a RequestPreparer.
Setup ==
  [reject : {"default", "own", "silent"}, implemented : SUBSET Procedures, preparable : SUBSET Procedures]

ASSUME ServiceAssumption ==
  /\ Method \in [Call -> Procedures]
  /\ {"", "minted"} \subseteq Ids
  /\ Messages \subseteq Message
  /\ Setups \subseteq Setup
  /\ MaxMessages \in Nat
  /\ Window \in Nat \ {0}
  /\ Breakages \subseteq {"deadline_exceeded", "resource_exhausted", "unavailable", "internal", "unknown"}

With(m, id, name, owned) == [fault |-> m.fault, id |-> id, name |-> name, owned |-> owned]

\* fieldBehaviorStream: what is OUTPUT_ONLY goes, and a create's omitted id is
\* minted.
Filled(method, m) ==
  With(m, IF method \in Creates /\ m.id = "" THEN "minted" ELSE m.id, m.name, "unset")

\* The two halves of Prepare.
Named(m) == With(m, m.id, m.id, m.owned)
Owned(m) == With(m, m.id, m.name, "server")

\* A response: the book, and whether it holds an INPUT_ONLY token.
Response(m) == [name |-> m.name, token |-> TRUE]

\* fieldBehaviorStream sends it without what is INPUT_ONLY.
Cleared(response) == [name |-> response.name, token |-> FALSE]

NoError == "none"

Codes ==
  {"ok", "invalid_argument", "failed_precondition", "unimplemented", "canceled", "internal", "unknown"}
    \cup Breakages

Code(error) ==
  CASE error = NoError                    -> "ok"
    [] error \in Faults                   -> "invalid_argument"
    [] error = "rejected"                 -> "failed_precondition"
    [] error = "unimplemented"            -> "unimplemented"
    [] error = "canceled"                 -> "canceled"
    [] error = "service"                  -> "internal"
    [] error \in Breakages                -> error
    [] OTHER                              -> "unknown"   \* io.EOF is no *connect.Error

----------------------------------------------------------------------------
VARIABLES
  setup,    \* how the server is set up
  client,   \* client[c]: what the client of c is doing
  sent,     \* sent[c]: the messages it has sent
  closed,   \* closed[c]: it has closed its sending side
  got,      \* got[c]: how many responses it has received
  pc,       \* pc[c]: where the server's goroutine for c is
  taken,    \* taken[c]: how many messages it has read
  message,  \* message[c]: the last of them, in the handler's memory
  error,    \* error[c]: what the last Receive, Send or method returned
  served,   \* served[c]: the requests the service has been given
  out,      \* out[c]: the responses sent to the client
  status    \* status[c]: the code the client is sent at the end, or "open"

clientVars == <<client, sent, closed, got>>
serverVars == <<pc, taken, message, error, served, out, status>>
vars       == <<setup, clientVars, serverVars>>

Places == {"none", "read", "fields", "name", "own", "handler", "send", "end", "done"}

Errors == Faults \cup {NoError, "rejected", "unimplemented", "canceled", "service", "eof"} \cup Breakages

Types ==
  /\ setup \in Setups
  /\ client \in [Call -> {"idle", "waiting", "open", "ended", "left"}]
  /\ sent \in [Call -> Seq(Messages)]
  /\ closed \in [Call -> BOOLEAN]
  /\ got \in [Call -> Nat]
  /\ pc \in [Call -> Places]
  /\ taken \in [Call -> Nat]
  /\ message \in [Call -> Message]
  /\ error \in [Call -> Errors]
  /\ served \in [Call -> Seq(Message)]
  /\ out \in [Call -> Seq([name : Ids, token : BOOLEAN])]
  /\ status \in [Call -> Codes \cup {"open"}]

\* Nobody is ahead of who feeds it.
Ordered(c) ==
  /\ got[c] <= Len(out[c])
  /\ Len(out[c]) <= Len(served[c])
  /\ Len(served[c]) <= taken[c]
  /\ taken[c] <= Len(sent[c])

\* The variables have their types, and no side of a call is ahead of the other.
TypeOK == Types /\ \A c \in Call : Ordered(c)

NoMessage == [fault |-> "none", id |-> "", name |-> "", owned |-> "unset"]

Init ==
  /\ setup \in Setups
  /\ client = [c \in Call |-> "idle"]
  /\ sent = [c \in Call |-> <<>>]
  /\ closed = [c \in Call |-> FALSE]
  /\ got = [c \in Call |-> 0]
  /\ pc = [c \in Call |-> "none"]
  /\ taken = [c \in Call |-> 0]
  /\ message = [c \in Call |-> NoMessage]
  /\ error = [c \in Call |-> NoError]
  /\ served = [c \in Call |-> <<>>]
  /\ out = [c \in Call |-> <<>>]
  /\ status = [c \in Call |-> "open"]

----------------------------------------------------------------------------
(* The client.                                                             *)

\* client.CallUnary: sends the request, closes, and waits.
CallUnary(c, m) ==
  /\ client[c] = "idle"
  /\ IsUnary(c)
  /\ client' = [client EXCEPT ![c] = "waiting"]
  /\ sent' = [sent EXCEPT ![c] = <<m>>]
  /\ closed' = [closed EXCEPT ![c] = TRUE]
  /\ UNCHANGED <<setup, got, serverVars>>

\* A mutant of UnaryReturns: the client takes the response it has no right to.
UnaryReturnsAnyway(c) ==
  /\ client[c] = "waiting"
  /\ status[c] # "open"
  /\ client' = [client EXCEPT ![c] = "ended"]
  /\ got' = [got EXCEPT ![c] = 1]
  /\ UNCHANGED <<setup, sent, closed, serverVars>>

\* It returns the response, or the error of the call.
UnaryReturns(c) ==
  /\ client[c] = "waiting"
  /\ status[c] # "open"
  /\ client' = [client EXCEPT ![c] = "ended"]
  /\ got' = [got EXCEPT ![c] = IF status[c] = "ok" THEN Len(out[c]) ELSE 0]
  /\ UNCHANGED <<setup, sent, closed, serverVars>>

OpenStream(c) ==
  /\ client[c] = "idle"
  /\ ~IsUnary(c)
  /\ client' = [client EXCEPT ![c] = "open"]
  /\ UNCHANGED <<setup, sent, closed, got, serverVars>>

\* Send waits while what was sent is still on its way.
StreamSend(c, m) ==
  /\ client[c] = "open"
  /\ ~closed[c]
  /\ Len(sent[c]) < MaxMessages
  /\ Len(sent[c]) - taken[c] < Window
  /\ sent' = [sent EXCEPT ![c] = Append(@, m)]
  /\ UNCHANGED <<setup, client, closed, got, serverVars>>

CloseSend(c) ==
  /\ client[c] = "open"
  /\ ~closed[c]
  /\ closed' = [closed EXCEPT ![c] = TRUE]
  /\ UNCHANGED <<setup, client, sent, got, serverVars>>

StreamReceive(c) ==
  /\ client[c] = "open"
  /\ \/ /\ got[c] < Len(out[c])
        /\ got' = [got EXCEPT ![c] = @ + 1]
        /\ UNCHANGED client
     \/ /\ got[c] = Len(out[c])
        /\ status[c] # "open"
        /\ client' = [client EXCEPT ![c] = "ended"]
        /\ UNCHANGED got
  /\ UNCHANGED <<setup, sent, closed, serverVars>>

\* Close, a context that is done, or a connection that is lost.
Leave(c) ==
  /\ client[c] \in {"waiting", "open"}
  /\ client' = [client EXCEPT ![c] = "left"]
  /\ UNCHANGED <<setup, sent, closed, got, serverVars>>

\* The stream the generated client returns for SyncBooks and ImportBooks.
ClientStream(c) ==
  (\E m \in Messages : StreamSend(c, m)) \/ CloseSend(c) \/ StreamReceive(c) \/ Leave(c)

Client(c) ==
  (\E m \in Messages : CallUnary(c, m)) \/ UnaryReturns(c) \/ OpenStream(c) \/ ClientStream(c)

----------------------------------------------------------------------------
(* Receive, from the framework's read up to the handler.                   *)

\* A mutant of After: the prepare interceptor is installed before the fields one.
AfterPreparingFirst(layer) == [read |-> "name", fields |-> "handler", prepare |-> "fields"][layer]

\* The layer of the chain that gets the message next.
After(layer) == [read |-> "fields", fields |-> "name", prepare |-> "handler"][layer]

\* The goroutine of c goes on at another place, or is back in the handler with
\* an error.
GoesOn(c, to) == pc' = [pc EXCEPT ![c] = to] /\ error' = [error EXCEPT ![c] = NoError]

Returns(c, failure) ==
  /\ pc' = [pc EXCEPT ![c] = "handler"]
  /\ error' = [error EXCEPT ![c] = failure]

Read(c) ==
  /\ pc[c] = "read"
  /\ taken[c] < Len(sent[c])
  /\ taken' = [taken EXCEPT ![c] = @ + 1]
  /\ message' = [message EXCEPT ![c] = sent[c][taken[c] + 1]]
  /\ IF sent[c][taken[c] + 1].fault = "malformed" THEN Returns(c, "malformed") ELSE GoesOn(c, After("read"))
  /\ UNCHANGED <<setup, clientVars, served, out, status>>

\* A mutant of ReadFails: io.EOF as soon as the client has closed its side.
ReadFailsOnceClosed(c) ==
  /\ pc[c] = "read"
  /\ \/ closed[c] /\ Returns(c, "eof")
     \/ client[c] = "left" /\ Returns(c, "canceled")
  /\ UNCHANGED <<setup, clientVars, taken, message, served, out, status>>

\* io.EOF once the client has closed its side, or an error once it is gone.
ReadFails(c) ==
  /\ pc[c] = "read"
  /\ \/ taken[c] = Len(sent[c]) /\ closed[c] /\ Returns(c, "eof")
     \/ client[c] = "left" /\ Returns(c, "canceled")
  /\ UNCHANGED <<setup, clientVars, taken, message, served, out, status>>

FillAndValidate(c) ==
  /\ pc[c] = "fields"
  /\ message' = [message EXCEPT ![c] = Filled(Method[c], @)]
  /\ IF message[c].fault = "violations" THEN Returns(c, "violations") ELSE GoesOn(c, After("fields"))
  /\ UNCHANGED <<setup, clientVars, taken, served, out, status>>

PrepareName(c) ==
  /\ pc[c] = "name"
  /\ IF Method[c] \in setup.preparable
     THEN message' = [message EXCEPT ![c] = Named(@)] /\ GoesOn(c, "own")
     ELSE GoesOn(c, After("prepare")) /\ UNCHANGED message
  /\ UNCHANGED <<setup, clientVars, taken, served, out, status>>

PrepareOwner(c) ==
  /\ pc[c] = "own"
  /\ message[c].fault # "unprepared"
  /\ message' = [message EXCEPT ![c] = Owned(@)]
  /\ GoesOn(c, After("prepare"))
  /\ UNCHANGED <<setup, clientVars, taken, served, out, status>>

\* Prepare fails half way: Receive returns what reject makes of its error.
PrepareFails(c) ==
  /\ pc[c] = "own"
  /\ message[c].fault = "unprepared"
  /\ Returns(c, [default |-> "unprepared", own |-> "rejected", silent |-> NoError][setup.reject])
  /\ UNCHANGED <<setup, clientVars, taken, message, served, out, status>>

Receive(c) ==
  Read(c) \/ ReadFails(c) \/ FillAndValidate(c) \/ PrepareName(c) \/ PrepareOwner(c) \/ PrepareFails(c)

----------------------------------------------------------------------------
(* The generated handler and the service.                                  *)

\* The handler is done: with an error, or with none.
Ends(c, failure) ==
  /\ pc' = [pc EXCEPT ![c] = "end"]
  /\ error' = [error EXCEPT ![c] = failure]

\* A unary handler receives first.
StartUnary(c) ==
  /\ IsUnary(c)
  /\ pc[c] = "none"
  /\ client[c] # "idle"
  /\ GoesOn(c, "read")
  /\ UNCHANGED <<setup, clientVars, taken, message, served, out, status>>

\* A stream is the service's from the start: one that implements it begins with a
\* Receive, and UnimplementedBookServiceHandler ends it.
StartStream(c) ==
  /\ ~IsUnary(c)
  /\ pc[c] = "none"
  /\ client[c] # "idle"
  /\ IF Method[c] \in setup.implemented THEN GoesOn(c, "read") ELSE Ends(c, "unimplemented")
  /\ UNCHANGED <<setup, clientVars, taken, message, served, out, status>>

\* if err := stream.Receive(&req); err != nil { return err }
UnaryRefuses(c) ==
  /\ IsUnary(c)
  /\ pc[c] = "handler"
  /\ error[c] # NoError
  /\ Ends(c, error[c])
  /\ UNCHANGED <<setup, clientVars, taken, message, served, out, status>>

\* Mutants of StreamEnds: a refused message is skipped, and io.EOF returned.
StreamSkipsRefused(c) ==
  /\ ~IsUnary(c)
  /\ pc[c] = "handler"
  /\ error[c] # NoError
  /\ IF error[c] = "eof" THEN Ends(c, NoError) ELSE GoesOn(c, "read")
  /\ UNCHANGED <<setup, clientVars, taken, message, served, out, status>>

StreamEndsWithEOF(c) ==
  /\ ~IsUnary(c)
  /\ pc[c] = "handler"
  /\ error[c] # NoError
  /\ Ends(c, error[c])
  /\ UNCHANGED <<setup, clientVars, taken, message, served, out, status>>

\* The service's loop: io.EOF ends the stream well, any other error ends it.
StreamEnds(c) ==
  /\ ~IsUnary(c)
  /\ pc[c] = "handler"
  /\ error[c] # NoError
  /\ Ends(c, IF error[c] = "eof" THEN NoError ELSE error[c])
  /\ UNCHANGED <<setup, clientVars, taken, message, served, out, status>>

Unimplemented(c) ==
  /\ IsUnary(c)
  /\ pc[c] = "handler"
  /\ error[c] = NoError
  /\ Method[c] \notin setup.implemented
  /\ Ends(c, "unimplemented")
  /\ UNCHANGED <<setup, clientVars, taken, message, served, out, status>>

\* A mutant of Serve: an error of the service is lost.
ServeHidingErrors(c) ==
  /\ pc[c] = "handler"
  /\ error[c] = NoError
  /\ Method[c] \in setup.implemented
  /\ served' = [served EXCEPT ![c] = Append(@, message[c])]
  /\ GoesOn(c, "send") \/ Ends(c, NoError)
  /\ UNCHANGED <<setup, clientVars, taken, message, out, status>>

\* The service is given the request, and answers it or fails.
Serve(c) ==
  /\ pc[c] = "handler"
  /\ error[c] = NoError
  /\ Method[c] \in setup.implemented
  /\ served' = [served EXCEPT ![c] = Append(@, message[c])]
  /\ GoesOn(c, "send") \/ Ends(c, "service")
  /\ UNCHANGED <<setup, clientVars, taken, message, out, status>>

\* A mutant of Send: nobody waits for the client to receive, and nobody notices
\* that it has left.
SendHoldsOn(c) ==
  /\ pc[c] = "send"
  /\ Len(out[c]) - got[c] < Window
  /\ out' = [out EXCEPT ![c] = Append(@, Cleared(Response(message[c])))]
  /\ IF IsUnary(c) THEN Ends(c, NoError) ELSE GoesOn(c, "read")
  /\ UNCHANGED <<setup, clientVars, taken, message, served, status>>

\* The response goes down the chain, INPUT_ONLY cleared, and out once there is room
\* for it, or the framework fails to send it to a client that has left.  A unary
\* handler is done then.
Send(c) ==
  /\ pc[c] = "send"
  /\ \/ /\ Len(out[c]) - got[c] < Window
        /\ out' = [out EXCEPT ![c] = Append(@, Cleared(Response(message[c])))]
        /\ IF IsUnary(c) THEN Ends(c, NoError) ELSE GoesOn(c, "read")
     \/ client[c] = "left" /\ Ends(c, "canceled") /\ UNCHANGED out
  /\ UNCHANGED <<setup, clientVars, taken, message, served, status>>

\* The framework's read or send fails for another reason: a deadline, a message too
\* large, a protocol error.  The service hands either error back.
Breaks(c) ==
  /\ \E e \in Breakages : (pc[c] = "read" /\ Returns(c, e)) \/ (pc[c] = "send" /\ Ends(c, e))
  /\ UNCHANGED <<setup, clientVars, taken, message, served, out, status>>

UnaryHandler(c)  == StartUnary(c) \/ UnaryRefuses(c) \/ Unimplemented(c)
StreamHandler(c) == StartStream(c) \/ StreamEnds(c)

\* The error interceptor answers, and the framework ends the call.
End(c) ==
  /\ pc[c] = "end"
  /\ status' = [status EXCEPT ![c] = Code(error[c])]
  /\ pc' = [pc EXCEPT ![c] = "done"]
  /\ UNCHANGED <<setup, clientVars, taken, message, error, served, out>>

Server(c) == Receive(c) \/ UnaryHandler(c) \/ StreamHandler(c) \/ Serve(c) \/ Send(c) \/ End(c)

Next == \E c \in Call : Client(c) \/ Server(c) \/ Breaks(c)

Spec == Init /\ [][Next]_vars

\* A goroutine of the server gets to run, and so does a unary call that has its
\* answer.  What else the client does, it does when it likes, and a Send waits for
\* as long as the client neither receives nor leaves.
FairSpec == Spec /\ \A c \in Call : WF_vars(Server(c)) /\ WF_vars(UnaryReturns(c))

----------------------------------------------------------------------------
(* What is promised from end to end.                                       *)

\* What a message is to be once the service is given it.
Prepared(c, m) ==
  IF Method[c] \in setup.preparable THEN Owned(Named(Filled(Method[c], m))) ELSE Filled(Method[c], m)

\* The server has something to refuse m for.
Refusable(c, m) ==
  \/ m.fault \in {"malformed", "violations"}
  \/ m.fault = "unprepared" /\ Method[c] \in setup.preparable /\ setup.reject # "silent"

\* The i-th request the service is given is the i-th message the client sent, filled
\* in and then prepared, each time in full: what the fields interceptor clears it
\* cannot have cleared of Prepare's work, and the name is built from the id it has
\* minted.  Only a reject function that returns nil lets a request through, and
\* then half prepared.
ServesWhatWasSentPrepared ==
  \A c \in Call : \A i \in 1 .. Len(served[c]) :
     \/ served[c][i] = Prepared(c, sent[c][i])
     \/ /\ setup.reject = "silent" /\ Method[c] \in setup.preparable
        /\ sent[c][i].fault = "unprepared"
        /\ served[c][i] = Named(Filled(Method[c], sent[c][i]))

\* A message the chain refuses is the last the server reads of its call: the
\* service is given those before it and not that one, and the call ends with the
\* refusal, whatever the client does meanwhile.
RefusedIsNotServed ==
  \A c \in Call : \A i \in 1 .. taken[c] :
     Refusable(c, sent[c][i])
     => /\ i = taken[c]
        /\ Len(served[c]) = i - 1
        /\ status[c] \in {"open", "invalid_argument", "failed_precondition"}

\* The other way round, a client is not told off for nothing: a call is refused only
\* for the message it stopped at, canceled only when its client has left, and no call
\* is answered with io.EOF.
EndsForAReason ==
  \A c \in Call :
     /\ status[c] \in {"invalid_argument", "failed_precondition"}
        => taken[c] > 0 /\ Refusable(c, sent[c][taken[c]])
     /\ status[c] = "canceled" => client[c] = "left"
     /\ pc[c] = "done" => error[c] # "eof"

\* A call that ends well has had each message its client sent answered, in order,
\* with the name the server built and without the INPUT_ONLY token; whatever the
\* client has received is such an answer.
AnswersInFull ==
  \A c \in Call :
     /\ status[c] = "ok" => closed[c] /\ Len(out[c]) = Len(sent[c])
     /\ \A i \in 1 .. Len(out[c]) :
           out[c][i] = [name |-> Prepared(c, sent[c][i]).name, token |-> FALSE]

\* A client that has closed its side, as a unary one has from the start, and goes on
\* receiving gets the end of its call, unless it leaves; and the server is done with
\* every call whose client has left, also while it waits to read or to send.
EveryCallEnds ==
  \A c \in Call :
     /\ WF_vars(StreamReceive(c)) => (closed[c] ~> client[c] \in {"ended", "left"})
     /\ client[c] = "left" ~> pc[c] = "done"

Calls == INSTANCE BookCalls WITH
  Unary    <- {c \in Call : IsUnary(c)},
  given    <- [c \in Call |-> Len(served[c])],
  answered <- [c \in Call |-> Len(out[c])],
  ended    <- status

\* What the chain, the generated handlers and the service do together is what
\* BookCalls promises.
ImplementsCalls == Calls!CallsSpec

=============================================================================
