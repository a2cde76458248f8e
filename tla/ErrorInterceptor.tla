--------------------------- MODULE ErrorInterceptor ---------------------------
(***************************************************************************)
(* RPCs through the chain of interceptors: the error interceptor outermost *)
(* and its errorStream around the stream the framework reads, then field   *)
(* behavior, then the prepare hook, then the handler.  A Receive comes up  *)
(* through them and a Send goes down; an error the handler returns is      *)
(* logged and then answered.  A response is an object in memory, which a   *)
(* handler may send more than once and several handlers may share; the     *)
(* interceptors change it in place.                                        *)
(***************************************************************************)
EXTENDS ErrorDetails, FiniteSets

CONSTANTS
  RPC,
  Response,       \* the response objects
  Initially,      \* Initially[o]: response o as the handler makes it
  Repeated,       \* the responses whose entries hold a list of statuses
  HandlerErrors,  \* the errors a handler may return of its own
  ReadErrors,     \* what the framework's read may fail with
  MaxSends        \* bound: the messages an RPC sends, or tries to

\* A response: each entry is the list of its statuses.
IsResponse(response) ==
  /\ response = [inputOnly |-> response.inputOnly, dynamic |-> response.dynamic, entries |-> response.entries]
  /\ {response.inputOnly, response.dynamic} \subseteq BOOLEAN
  /\ IsList(response.entries)
  /\ \A i \in DOMAIN response.entries :
       /\ IsList(response.entries[i])
       /\ \A f \in DOMAIN response.entries[i] : IsStatus(response.entries[i][f])

\* The errors of the framework's read that go on as they are.
PassedOn == {e \in ReadErrors : ~(e.connect /\ e.code = "invalid_argument")}

\* What a text must not tell the client: what the parser says, and what an error
\* does that is no *connect.Error.
Secrets == {Malformed.cause} \cup {e.text : e \in {x \in HandlerErrors \cup ReadErrors : ~x.connect}}

InfosOf(details) == {i \in DOMAIN details : details[i].type = "ErrorInfo"}

HasOneInfoAtMost(details) == \A i, j \in InfosOf(details) : i = j

\* A *connect.Error says what the client may know, and has at most one ErrorInfo,
\* as has an entry: what a service puts into its own errors is its own affair.
ASSUME HandlersAssumption ==
  /\ Response \subseteq DOMAIN Initially
  /\ Response \cap {"answer", "rpc", "none"} = {}
  /\ Repeated \subseteq Response
  /\ MaxSends \in Nat
  /\ \A o \in Response :
       /\ IsResponse(Initially[o])
       /\ \A i \in DOMAIN Initially[o].entries : \A f \in DOMAIN Initially[o].entries[i] :
            HasOneInfoAtMost(Initially[o].entries[i][f].details)
  /\ \A e \in HandlerErrors \cup ReadErrors : IsError(e) /\ HasOneInfoAtMost(e.details)
  /\ \A e \in HandlerErrors \cup PassedOn : e.connect => e.text \notin Secrets
  /\ {NoText, Malformed.text, InvalidParameters(<<>>, NoCause).text, ValidationFailed.text} \cap Secrets = {}

VARIABLES
  pc,       \* pc[r]: where r is
  err,      \* err[r]: the error of r's last Receive, then the one it failed with
  sending,  \* sending[r]: the object r is sending and the entry it has come to
  object,   \* object[o]: response o as it is in memory
  sends,    \* sends[r]: how often r has sent
  log,      \* log[r]: what the interceptor has logged of r
  wire      \* wire[r]: what the client of r has been sent, its answer last

vars == <<pc, err, sending, object, sends, log, wire>>

\* What the client is sent: a response or, last, the status of the error.
Sent(of, body) == [of |-> of, body |-> body]

NotSending == [object |-> "none", entry |-> 0]

Places ==
  {"handler", "read", "fields", "prepare", "clear", "entries", "panicked", "failed", "logged", "done"}

TypeOK ==
  /\ pc \in [RPC -> Places]
  /\ \A r \in RPC :
       /\ sending[r] # NotSending <=> pc[r] \in {"clear", "entries"}
       /\ sending[r] # NotSending => sending[r].entry \in 1 .. Len(object[sending[r].object].entries) + 1
       /\ sends[r] \in 0 .. MaxSends
       /\ err[r].code = "ok" => pc[r] \notin {"failed", "logged"}
  /\ \A r, q \in RPC : sending[r].object = sending[q].object => r = q \/ sending[r] = NotSending

Init ==
  /\ pc = [r \in RPC |-> "handler"]
  /\ err = [r \in RPC |-> NoError]
  /\ sending = [r \in RPC |-> NotSending]
  /\ object = Initially
  /\ sends = [r \in RPC |-> 0]
  /\ log = [r \in RPC |-> <<>>]
  /\ wire = [r \in RPC |-> <<>>]

----------------------------------------------------------------------------
(* Receive.                                                                *)

Receive(r) ==
  /\ pc[r] = "handler"
  /\ pc' = [pc EXCEPT ![r] = "read"]
  /\ err' = [err EXCEPT ![r] = NoError]
  /\ UNCHANGED <<sending, object, sends, log, wire>>

\* A Receive goes on with the next interceptor, or is back in the handler.
Passes(r, from, to) ==
  /\ pc[r] = from
  /\ pc' = [pc EXCEPT ![r] = to]
  /\ UNCHANGED <<err, sending, object, sends, log, wire>>

Refuses(r, from, error) ==
  /\ pc[r] = from
  /\ pc' = [pc EXCEPT ![r] = "handler"]
  /\ err' = [err EXCEPT ![r] = error]
  /\ UNCHANGED <<sending, object, sends, log, wire>>

Read(r) == Passes(r, "read", "fields")

\* A mutant of ReadFails: the framework's error goes on as it is.
ReadFailsAsIs(r, error) == Refuses(r, "read", error)

\* errorStream: an InvalidArgument of the framework's read is a body that does
\* not decode.
ReadFails(r, error) ==
  Refuses(r, "read", IF error.connect /\ error.code = "invalid_argument" THEN Malformed ELSE error)

\* fieldBehaviorStream, as FieldBehaviorStream details it.
Validates(r) == Passes(r, "fields", "prepare")

\* The BadRequest is left out when nothing fits its budget; either detail, when it
\* cannot be packed.
Invalid(r) ==
  \E violations, badRequest \in BOOLEAN :
    Refuses(r, "fields",
            InvalidParameters(NewErrorDetail("Violations", "fields", violations)
                                \o NewErrorDetail("BadRequest", "fields", badRequest), "violations"))

RulesFail(r) == Refuses(r, "fields", ValidationFailed)

\* prepareStream: Prepare succeeds, or the request is no RequestPreparer.
Prepares(r) == Passes(r, "prepare", "handler")

PrepareFails(r) ==
  \E namesField, packs \in BOOLEAN : Refuses(r, "prepare", rejectPrepare(namesField, packs))

----------------------------------------------------------------------------
(* Send.                                                                   *)

\* One goroutine at a time sends an object: to change it while another reads it
\* would be a data race of the handlers' own making.
Send(r, o) ==
  /\ pc[r] = "handler"
  /\ sends[r] < MaxSends
  /\ \A q \in RPC : sending[q].object # o
  /\ pc' = [pc EXCEPT ![r] = "clear"]
  /\ sending' = [sending EXCEPT ![r] = [object |-> o, entry |-> 1]]
  /\ sends' = [sends EXCEPT ![r] = @ + 1]
  /\ UNCHANGED <<err, object, log, wire>>

\* fieldBehaviorStream: INPUT_ONLY fields go.
ClearInputOnly(r) ==
  /\ pc[r] = "clear"
  /\ object' = [object EXCEPT ![sending[r].object].inputOnly = FALSE]
  /\ pc' = [pc EXCEPT ![r] = "entries"]
  /\ UNCHANGED <<err, sending, sends, log, wire>>

\* The entry the loop over the `responses` list has come to.
Entries(r) == object[sending[r].object].entries
Entry(r)   == Entries(r)[sending[r].entry]

\* A mutant of EntryRecord: made once the DebugInfo is gone.
EntryRecordAfterwards(o, index, status) ==
  [of |-> o, index |-> index, level |-> "error", text |-> status.text,
   debug |-> LastDebugInfo(Stripped(status).details), cause |-> NoCause]

EntryRecord(o, index, status) ==
  [of |-> o, index |-> index, level |-> "error", text |-> status.text,
   debug |-> LastDebugInfo(status.details), cause |-> NoCause]

\* A mutant of StripEntry: an entry is logged if it has a DebugInfo.
StripEntryLoggingDebug(r) ==
  LET o == sending[r].object
      i == sending[r].entry
  IN /\ pc[r] = "entries"
     /\ i <= Len(Entries(r))
     /\ ~object[o].dynamic /\ o \notin Repeated
     /\ \E field \in DOMAIN Entry(r) :
          /\ object' = [object EXCEPT ![o].entries[i][field] = Stripped(@)]
          /\ log' = [log EXCEPT ![r] =
               IF ErrorLogLevel(Entry(r)[field].code) = "error" /\ DebugInfos(Entry(r)[field].details) # <<>>
               THEN Append(@, EntryRecord(o, i, Entry(r)[field])) ELSE @]
     /\ sending' = [sending EXCEPT ![r].entry = @ + 1]
     /\ UNCHANGED <<pc, err, sends, wire>>

\* errorStream: the range over a failed entry's fields, in an order of the
\* runtime's choosing, ends with the first google.rpc.Status.
StripEntry(r) ==
  LET o == sending[r].object
      i == sending[r].entry
  IN /\ pc[r] = "entries"
     /\ i <= Len(Entries(r))
     /\ ~object[o].dynamic /\ o \notin Repeated
     /\ \E field \in DOMAIN Entry(r) :
          /\ object' = [object EXCEPT ![o].entries[i][field] = Stripped(@)]
          /\ log' = [log EXCEPT ![r] =
               IF ErrorLogLevel(Entry(r)[field].code) = "error"
               THEN Append(@, EntryRecord(o, i, Entry(r)[field])) ELSE @]
     /\ sending' = [sending EXCEPT ![r].entry = @ + 1]
     /\ UNCHANGED <<pc, err, sends, wire>>

\* A mutant of SkipEntry: a status that is not generated holds the loop up.
SkipSucceededEntry(r) ==
  /\ pc[r] = "entries"
  /\ sending[r].entry <= Len(Entries(r))
  /\ Entry(r) = <<>>
  /\ sending' = [sending EXCEPT ![r].entry = @ + 1]
  /\ UNCHANGED <<pc, err, object, sends, log, wire>>

\* An entry that succeeded, or whose status is no generated *status.Status, is
\* left as it is.
SkipEntry(r) ==
  /\ pc[r] = "entries"
  /\ sending[r].entry <= Len(Entries(r))
  /\ Entry(r) = <<>> \/ (object[sending[r].object].dynamic /\ sending[r].object \notin Repeated)
  /\ sending' = [sending EXCEPT ![r].entry = @ + 1]
  /\ UNCHANGED <<pc, err, object, sends, log, wire>>

\* value.Message() of a list of statuses panics, and with it the handler.
Panics(r) ==
  /\ pc[r] = "entries"
  /\ sending[r].entry <= Len(Entries(r))
  /\ Entry(r) # <<>> /\ sending[r].object \in Repeated
  /\ pc' = [pc EXCEPT ![r] = "panicked"]
  /\ sending' = [sending EXCEPT ![r] = NotSending]
  /\ UNCHANGED <<err, object, sends, log, wire>>

\* A mutant of SendOut: the object is still held after it.
SendOutHolding(r) ==
  /\ pc[r] = "entries"
  /\ sending[r].entry > Len(Entries(r))
  /\ wire' = [wire EXCEPT ![r] = Append(@, Sent(sending[r].object, object[sending[r].object]))]
  /\ pc' = [pc EXCEPT ![r] = "handler"]
  /\ UNCHANGED <<err, sending, object, sends, log>>

\* The framework sends the message, or fails to.
SendOut(r) ==
  /\ pc[r] = "entries"
  /\ sending[r].entry > Len(Entries(r))
  /\ \/ wire' = [wire EXCEPT ![r] = Append(@, Sent(sending[r].object, object[sending[r].object]))]
     \/ UNCHANGED wire
  /\ pc' = [pc EXCEPT ![r] = "handler"]
  /\ sending' = [sending EXCEPT ![r] = NotSending]
  /\ UNCHANGED <<err, object, sends, log>>

----------------------------------------------------------------------------
(* The end of an RPC.                                                      *)

Succeeds(r) ==
  /\ pc[r] = "handler"
  /\ pc' = [pc EXCEPT ![r] = "done"]
  /\ err' = [err EXCEPT ![r] = NoError]
  /\ UNCHANGED <<sending, object, sends, log, wire>>

\* The handler returns the error of its last Receive, perhaps wrapped, or one of
\* its own.
Fails(r) ==
  /\ pc[r] = "handler"
  /\ \E error \in HandlerErrors \cup {err[r], Wrapped(err[r])} :
       /\ error.code # "ok"
       /\ err' = [err EXCEPT ![r] = error]
  /\ pc' = [pc EXCEPT ![r] = "failed"]
  /\ UNCHANGED <<sending, object, sends, log, wire>>

\* A mutant of Record: one DebugInfo, as for an entry.
RecordOfLast(error) ==
  [of |-> "rpc", index |-> 0, level |-> ErrorLogLevel(error.code), text |-> error.text,
   debug |-> LastDebugInfo(error.details), cause |-> IF error.wrapped THEN error.text ELSE error.cause]

\* errors.Unwrap of a wrapper is the *connect.Error, which says what it says.
Record(error) ==
  [of |-> "rpc", index |-> 0, level |-> ErrorLogLevel(error.code), text |-> error.text,
   debug |-> DebugInfos(error.details), cause |-> IF error.wrapped THEN error.text ELSE error.cause]

Log(r) ==
  /\ pc[r] = "failed"
  /\ log' = [log EXCEPT ![r] = Append(@, Record(err[r]))]
  /\ pc' = [pc EXCEPT ![r] = "logged"]
  /\ UNCHANGED <<err, sending, object, sends, wire>>

Answers(r) ==
  /\ pc[r] = "logged"
  /\ wire' = [wire EXCEPT ![r] = Append(@, Sent("answer", Answer(err[r])))]
  /\ pc' = [pc EXCEPT ![r] = "done"]
  /\ UNCHANGED <<err, sending, object, sends, log>>

----------------------------------------------------------------------------
\* What the chain itself does next with r, once it is called.
Proceed(r) ==
  \/ Read(r) \/ \E error \in ReadErrors : ReadFails(r, error)
  \/ Validates(r) \/ Invalid(r) \/ RulesFail(r)
  \/ Prepares(r) \/ PrepareFails(r)
  \/ ClearInputOnly(r) \/ StripEntry(r) \/ SkipEntry(r) \/ Panics(r) \/ SendOut(r)
  \/ Log(r) \/ Answers(r)

Handler(r) ==
  \/ Receive(r)
  \/ \E o \in Response : Send(r, o)
  \/ Succeeds(r) \/ Fails(r)

Next == \E r \in RPC : Proceed(r) \/ Handler(r)

Spec == Init /\ [][Next]_vars

\* A call in the chain returns, given that the goroutine it runs on gets to run;
\* a handler may wait for as long as it likes.
FairSpec == Spec /\ \A r \in RPC : WF_vars(Proceed(r))

----------------------------------------------------------------------------
(* What the client sees.                                                   *)

Answered(r) == pc[r] = "done" /\ err[r].code # "ok"
TheAnswer(r) == Last(wire[r]).body

Types(details) == [i \in DOMAIN details |-> details[i].type]

\* The statuses in a response's entries: <<i, f>> is field f of entry i.
Statuses(response) ==
  UNION {{<<i, f>> : f \in DOMAIN response.entries[i]} : i \in DOMAIN response.entries}

ResponsesSent(r) == {k \in DOMAIN wire[r] : wire[r][k].of \in Response}

\* No client is told what is for the log or the server: the text of an error that
\* is no *connect.Error or of the parser, an INPUT_ONLY value, the DebugInfo of an
\* error, or one that can be read of an entry with one generated status.
ClientSeesNoInternals ==
  \A r \in RPC :
    /\ Answered(r) => /\ TheAnswer(r).text \notin Secrets
                      /\ ~Contains(Types(TheAnswer(r).details), "DebugInfo")
    /\ \A k \in ResponsesSent(r) :
         LET body == wire[r][k].body
         IN /\ ~body.inputOnly
            /\ \A at \in Statuses(body) : ~body.dynamic /\ Len(body.entries[at[1]]) = 1 =>
                 DebugInfos(body.entries[at[1]][1].details) = <<>>

\* A failed entry tells the client what its error would have told as the answer
\* of an RPC, but for the id of the request and a DebugInfo that cannot be read; and
\* tells it again, the same, each time its response is sent, by this RPC or another.
EntriesTellWhatAnAnswerTells ==
  \A r \in RPC : \A k \in ResponsesSent(r) :
    LET body == wire[r][k].body
    IN \A at \in Statuses(body) : ~body.dynamic /\ Len(body.entries[at[1]]) = 1 =>
         LET was == Initially[wire[r][k].of].entries[at[1]][1]
             now == body.entries[at[1]][1]
         IN Status(now.code, now.text, WithoutDebugInfo(now.details) \o requestInfo)
              = Answer(Error(was.code, was.text, was.details, NoCause))

\* What is neither the interceptor's nor for the log.
RestOf(details) == Selected(details, {d \in ToSet(details) : d.by # "interceptor" /\ ~IsDebugInfo(d)})

\* All else of a response gets to the client as the handler made it, however often
\* it has been sent before: an entry that succeeded, a status that is no generated
\* one, and of the others the code, the text and each detail that is no DebugInfo,
\* before and after those, in their order.
SendsTheRestAsItWas ==
  \A r \in RPC : \A k \in ResponsesSent(r) :
    LET was == Initially[wire[r][k].of]
        now == wire[r][k].body
    IN IF was.dynamic
       THEN now.entries = was.entries
       ELSE /\ Statuses(now) = Statuses(was) /\ Len(now.entries) = Len(was.entries)
            /\ \A at \in Statuses(was) : Len(was.entries[at[1]]) = 1 =>
                 LET before == was.entries[at[1]][1]
                     after  == now.entries[at[1]][1]
                 IN Status(after.code, after.text, RestOf(after.details))
                      = Status(before.code, before.text, RestOf(before.details))

\* Each error a client is sent, as an answer or an entry, names a reason and a
\* domain once, if there is a domain to name.
EveryErrorHasOneInfo ==
  \A r \in RPC :
    /\ Answered(r) /\ err[r].connect => Cardinality(InfosOf(TheAnswer(r).details)) = 1 \/ ~DefaultInfo
    /\ \A k \in ResponsesSent(r) :
         LET body == wire[r][k].body
         IN \A at \in Statuses(body) : ~body.dynamic /\ Len(body.entries[at[1]]) = 1 =>
              Cardinality(InfosOf(body.entries[at[1]][1].details)) = 1 \/ ~DefaultInfo

----------------------------------------------------------------------------
(* What the log records.                                                   *)

Records(r, of, index) == {k \in DOMAIN log[r] : log[r][k].of = of /\ log[r][k].index = index}

\* A failed RPC is logged once, before the client has its answer, at the level
\* of the code the client is told, with every DebugInfo the client is not; and
\* with what failed underneath, which a DebugInfo that could not be packed does not
\* tell, unless the handler has wrapped the error.  An error of the chain's own always
\* has something underneath to tell.
FailedRPCLoggedOnce ==
  \A r \in RPC :
    /\ Cardinality(Records(r, "rpc", 0)) = IF pc[r] = "logged" \/ Answered(r) THEN 1 ELSE 0
    /\ Answered(r) => \A k \in Records(r, "rpc", 0) :
         /\ log[r][k].level = ErrorLogLevel(TheAnswer(r).code)
         /\ \A d \in ToSet(err[r].details) : IsReadable(d) => Contains(log[r][k].debug, d)
         /\ log[r][k].cause = err[r].cause \/ err[r].wrapped
         /\ log[r][k].cause = NoCause => err[r] \in HandlerErrors \cup PassedOn \/ err[r].wrapped

\* A response with a failed entry of the server's is logged each time it is sent,
\* by the RPC that sends it; an entry that failed on the client's side is not.
\* (Of an entry with two statuses, one is logged or the other.)
FailedEntriesLogged ==
  \A r \in RPC : \A o \in Response : \A at \in Statuses(Initially[o]) :
    ~Initially[o].dynamic /\ Len(Initially[o].entries[at[1]]) = 1 =>
      IF ErrorLogLevel(Initially[o].entries[at[1]][1].code) = "error"
      THEN Cardinality(Records(r, o, at[1])) >= Cardinality({k \in ResponsesSent(r) : wire[r][k].of = o})
      ELSE Records(r, o, at[1]) = {}

\* The last DebugInfo that can be read of an entry that failed on the server's side,
\* with one status, is in its response or in one record of the log: the step that
\* takes it out is the step that logs it, whichever RPC sends the response first and
\* whether it gets out or not.  The ones before the last are taken out too, and are
\* logged by nobody (EveryDebugInfoIsForTheLogAlone).
LastDebugInfoIsNotLost ==
  \A o \in Response : \A at \in Statuses(Initially[o]) :
    LET was  == Initially[o].entries[at[1]][1]
        now  == object[o].entries[at[1]][1]
        with == UNION {{<<r, k>> : k \in {n \in Records(r, o, at[1]) :
                                            log[r][n].debug # <<>>}} : r \in RPC}
    IN /\ Len(Initially[o].entries[at[1]]) = 1
       /\ ErrorLogLevel(was.code) = "error"
       /\ DebugInfos(was.details) # <<>>
       =>
         IF DebugInfos(now.details) # <<>> THEN with = {}
         ELSE /\ Cardinality(with) = 1
              /\ \A p \in with : log[p[1]][p[2]].debug = LastDebugInfo(was.details)

\* A Send returns to the handler, or panics, and a failed RPC is answered.
CallsReturn ==
  \A r \in RPC : /\ (pc[r] = "clear") ~> (pc[r] \in {"handler", "panicked"})
                 /\ (pc[r] = "failed") ~> (pc[r] = "done")

----------------------------------------------------------------------------
(* What the comments and the tests say, and the code does not do.          *)

\* NewDebugInfo, of a DebugInfo: "[NewErrorInterceptor] logs it and answers without
\* it, for a failed RPC and for a failed entry of a batch response alike."  And
\* errorStream.Send: "every one loses its DebugInfo, which is for the log, not the
\* client".  What cannot be read need not be logged.
EveryDebugInfoIsForTheLogAlone ==
  \A r \in RPC : \A k \in ResponsesSent(r) : \A at \in Statuses(wire[r][k].body) :
    LET o   == wire[r][k].of
        was == Initially[o].entries[at[1]][at[2]]
        now == wire[r][k].body.entries[at[1]][at[2]]
    IN ErrorLogLevel(was.code) = "error" =>
         \A d \in ToSet(was.details) : IsDebugInfo(d) =>
           /\ ~Contains(now.details, d)
           /\ Unmarshals(d) => \E q \in RPC : \E i \in Records(q, o, at[1]) : Contains(log[q][i].debug, d)

\* errorStream.Send, of the items "that hold a [*status.Status]": "Each one that is
\* the server's, by its code, is logged with its index".  An RPC whose Send is over
\* has logged those of some response.
SendLogsTheServersEntries ==
  \A r \in RPC : sends[r] > 0 /\ sending[r] = NotSending =>
    \E o \in Response : \A at \in Statuses(Initially[o]) :
      ErrorLogLevel(Initially[o].entries[at[1]][at[2]].code) = "error" => Records(r, o, at[1]) # {}



\* NewErrorInterceptor, of a body that does not decode: "The log keeps the
\* original as the cause."
TheLogKeepsTheParsersError ==
  \A r \in RPC : Answered(r) /\ err[r].text = Malformed.text =>
    \A k \in Records(r, "rpc", 0) : log[r][k].cause = Malformed.cause

=============================================================================
