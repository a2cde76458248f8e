-------------------------- MODULE MCErrorInterceptor --------------------------
(***************************************************************************)
(* Two RPCs whose handlers share a batch response: an entry of the         *)
(* client's, one that succeeded, and one of the server's with two          *)
(* DebugInfos, a third, relayed, that cannot be read, and a RetryInfo      *)
(* after them.  There is a plain response, a dynamic one and one with      *)
(* lists of statuses too.                                                  *)
(***************************************************************************)
EXTENDS ErrorInterceptor

NotFound == Error("not_found", "gone", NewErrorInfo("handler") \o NewDebugInfo("handler", TRUE), "query")
Internal == Error("internal", "unable", NewDebugInfo("handler", TRUE) \o NewDebugInfo("store", TRUE), "query")
Relaying == [Internal EXCEPT !.details = @ \o <<Detail("DebugInfo", Garbled)>> \o NewRetryInfo("handler")]

Secret   == PlainError("secret")

Object(inputOnly, dynamic, entries) == [inputOnly |-> inputOnly, dynamic |-> dynamic, entries |-> entries]

MCInitially ==
  [batch   |-> Object(TRUE, FALSE, <<<<NewStatus(NotFound)>>, <<>>, <<NewStatus(Relaying)>>>>),
   plain   |-> Object(TRUE, FALSE, <<>>),
   dynamic |-> Object(FALSE, TRUE, <<<<NewStatus(Secret)>>>>),
   lists   |-> Object(FALSE, FALSE, <<<<NewStatus(Internal)>>>>)]

\* A batch with an entry of three DebugInfos, one of which cannot be read, and one
\* that has a status and another for a warning.
MCDebugInfos ==
  [batch |-> Object(FALSE, FALSE, <<<<NewStatus(Relaying)>>, <<NewStatus(Internal), NewStatus(Internal)>>>>)]

MCHandlerErrors == {NotFound, Secret, Wrapped(Relaying)}

MCReadErrors ==
  {Error("invalid_argument", "parser", <<>>, NoCause), PlainError("eof")}

\* Nothing fails but the chain.
MCNone == {}


=============================================================================
