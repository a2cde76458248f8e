----------------------------- MODULE ErrorDetails -----------------------------
(***************************************************************************)
(* Errors and their details (AIP-193), as the error interceptor tells them *)
(* apart.  An error is a *connect.Error or another Go error, or a wrapper  *)
(* around a *connect.Error; its text is what its message says, its cause   *)
(* what failed underneath.  A detail has a type and an origin, and one     *)
(* with the origin Garbled holds bytes that do not unmarshal.              *)
(***************************************************************************)
EXTENDS Selection, SequencesExt

CONSTANTS
  DefaultInfo,  \* whether WithDefaultErrorInfo names a domain
  RequestID     \* whether WithErrorRequestID finds an id

ASSUME OptionsAssumption == DefaultInfo \in BOOLEAN /\ RequestID \in BOOLEAN

Garbled == "garbled"
NoText  == "none"
NoCause == "none"

Detail(type, by) == [type |-> type, by |-> by]

\* What WithDetail adds for a message: nothing, if it cannot be packed (as when its
\* text is no UTF-8).
NewErrorDetail(type, by, packs) == IF packs THEN <<Detail(type, by)>> ELSE <<>>
NewErrorInfo(by)                == NewErrorDetail("ErrorInfo", by, TRUE)
NewRetryInfo(by)                == NewErrorDetail("RetryInfo", by, TRUE)
NewDebugInfo(by, packs)         == NewErrorDetail("DebugInfo", by, packs)

\* Of an error that names a field; it panics for another.
NewBadRequest(by) == NewErrorDetail("BadRequest", by, TRUE)

Error(code, text, details, cause) ==
  [connect |-> TRUE, wrapped |-> FALSE, code |-> code, text |-> text, details |-> details, cause |-> cause]

\* An error that is no *connect.Error: connect.CodeOf says unknown.
PlainError(text) == [Error("unknown", text, <<>>, NoCause) EXCEPT !.connect = FALSE]

\* fmt.Errorf("...: %w", err)
Wrapped(err) == [err EXCEPT !.wrapped = TRUE]

NoError == Error("ok", NoText, <<>>, NoCause)

IsList(s) == s \in Seq(ToSet(s))

\* What is no *connect.Error has no code of its own and no details.
IsError(err) ==
  /\ {err.connect, err.wrapped} \subseteq BOOLEAN
  /\ IsList(err.details)
  /\ ~err.connect => err.code = "unknown" /\ err.details = <<>>
  /\ err = [connect |-> err.connect, wrapped |-> err.wrapped, code |-> err.code, text |-> err.text,
            details |-> err.details, cause |-> err.cause]

----------------------------------------------------------------------------
(* Details.                                                                *)

IsDebugInfo(detail) == detail.type = "DebugInfo"
Unmarshals(detail)  == detail.by # Garbled

IsReadable(detail)  == IsDebugInfo(detail) /\ Unmarshals(detail)

DebugInfos(details) == Selected(details, {d \in ToSet(details) : IsReadable(d)})

\* An entry loses the DebugInfos that can be read, an answer all of them.
WithoutReadable(details)  == Selected(details, {d \in ToSet(details) : ~IsReadable(d)})
WithoutDebugInfo(details) == Selected(details, {d \in ToSet(details) : ~IsDebugInfo(d)})

\* The one a batch entry is logged with: each overwrites the one before.
LastDebugInfo(details) ==
  LET infos == DebugInfos(details) IN IF infos = <<>> THEN <<>> ELSE <<Last(infos)>>

defaultErrorInfo == IF DefaultInfo THEN <<Detail("ErrorInfo", "interceptor")>> ELSE <<>>
requestInfo      == IF RequestID THEN <<Detail("RequestInfo", "interceptor")>> ELSE <<>>

\* A mutant of WithDefaultInfo: the error's own ErrorInfo is not looked for.
WithDefaultInfoAlways(details) == defaultErrorInfo \o details

WithDefaultInfo(details) ==
  IF \E i \in DOMAIN details : details[i].type = "ErrorInfo" THEN details
                                                             ELSE defaultErrorInfo \o details

ErrorLogLevel(code) ==
  IF code \in {"internal", "unknown", "data_loss", "unavailable"} THEN "error" ELSE "warn"

----------------------------------------------------------------------------
(* What the client gets.                                                   *)

Status(code, text, details) == [code |-> code, text |-> text, details |-> details]

IsStatus(status) ==
  /\ status = Status(status.code, status.text, status.details)
  /\ IsList(status.details)

\* A failed RPC's error.  connect-go sends one that is no *connect.Error as
\* Unknown, with no message.
Answer(err) ==
  IF err.connect
  THEN Status(err.code, err.text, WithDefaultInfo(WithoutDebugInfo(err.details)) \o requestInfo)
  ELSE Status("unknown", NoText, <<>>)

\* The status of a failed batch entry, for the handler to put in its response.
NewStatus(err) ==
  IF err.connect THEN Status(err.code, err.text, err.details)
                 ELSE Status("internal", "Unable to complete the operation at this time", <<>>)

\* A mutant of Stripped: an entry gets no ErrorInfo.
StrippedOnly(status) == [status EXCEPT !.details = WithoutReadable(@)]

\* A mutant of Stripped: the loop over the details ends at a DebugInfo.
StrippedUpToDebugInfo(status) ==
  LET first == SelectInSeq(status.details, IsReadable)
  IN [status EXCEPT !.details = WithDefaultInfo(IF first = 0 THEN @ ELSE SubSeq(@, 1, first - 1))]

\* That status once the interceptor has been over it.
Stripped(status) == [status EXCEPT !.details = WithDefaultInfo(WithoutReadable(@))]

----------------------------------------------------------------------------
(* The errors the interceptors answer with themselves.                     *)

Malformed ==
  Error("invalid_argument", "The request could not be processed due to malformed data", <<>>, "parser")

InvalidParameters(details, cause) ==
  Error("invalid_argument", "The request contains invalid parameters", details, cause)

ValidationFailed == Error("internal", "validation failed", <<>>, "diagnostic")

\* The error of Prepare is the cause, whether or not its text can be packed.
rejectPrepare(namesField, packs) ==
  InvalidParameters((IF namesField THEN NewBadRequest("prepare") ELSE <<>>) \o NewDebugInfo("prepare", packs),
                    "prepare")

=============================================================================
