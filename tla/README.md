# Verification of aip-go

TLA+ models of `protoc-contrib/aip-go`, a Go package of primitives and Connect
interceptors for API servers that follow the AIPs: field behavior (AIP-203),
standard create and update requests (AIP-133, AIP-134, batches AIP-233 and
AIP-234) and errors (AIP-193). TLC checks the models on small instances, and
TLAPS proves the central claims for every value of the constants.
`PROJECT.json` maps each definition to the lines it models, lists the runs, the
mutants that show each property can fail, the hazards and the theorems.

## The system

| Part | State | Operations | Where |
| --- | --- | --- | --- |
| Field behavior sets | a process-wide `sync.Map` from field descriptors to sets of kinds | `FieldBehaviorsOf`, `Has`, `HasAny` | `field_behavior.go` |
| Clearing | the message, changed in place | `ClearFields` | `field_behavior.go` |
| Validation of presence | none | `ValidateFields` | `field_behavior.go` |
| Masks | the mask, changed in place | `ImpliedFieldMask`, `ClearFieldMask` | `field_mask.go` |
| Writes | the request, changed through `SetID`, `SetMask` and the resource | `ResourceWrites` | `writes.go` |
| Field behavior interceptor | the message being received or sent | `Receive`, `Send` of `fieldBehaviorStream` | `interceptor.go` |
| Prepare interceptor | the request | `Receive` of `prepareStream` | `prepare.go` |
| Error interceptor | the log; the response being sent | around the handler; `Receive` and `Send` of `errorStream` | `error_interceptor.go` |
| Error details | none | `NewStatus` and the detail constructors | `errors.go`, `field_error.go` |
| Generated client and handlers | a call: its messages on their way, the handler's place in it | unary calls, bidirectional streams, the unimplemented handler | `internal/testpb/testpbconnect/service.connect.go` |
| The tests' service | none | the loop that reads a stream until `io.EOF` | `interceptor_test.go` |

A server installs the error interceptor outermost, then field behavior, then
prepare. Each wraps the stream it is given: a `Receive` of the handler goes
through `prepareStream` and `fieldBehaviorStream` to `errorStream` and the
framework, and each works on the message once those beneath it have; a `Send` of
the handler goes through `fieldBehaviorStream` (which clears `INPUT_ONLY`) to
`errorStream` (which logs and strips the failed entries of a batch) and the
framework. An error goes back up to the error interceptor, which logs it and
answers without what is for the log. All of them work through the primitives,
and each primitive through `FieldBehaviorsOf` and its cache. At the ends of the
chain are the code generated for a service, which receives the request of a unary
call, hands it to the service and sends the response, or gives a stream to the
service; and the generated client, which calls, sends, closes and receives.

What is hard here:

* concurrency: the cache is shared by every goroutine of the process and nothing
  holds a lock between its load and its store; streams share the source of ids;
  a response object may be sent by several RPCs;
* order: clear, then imply, then validate; ask whether the mask is omitted
  before filtering it; log before stripping, strip before sending; collect during
  a range and clear after it; ranges that run in any order;
* partial failure: a send that fails after its response was changed, a rule that
  does not compile after the request was changed;
* the two ends: a client that leaves while the server reads, works or sends; a
  message refused in the middle of a stream; `io.EOF` coming up the chain as an
  error;
* boundaries: kinds beyond the set's width, the budget of the BadRequest, `-0.0`,
  masks with duplicate, overlapping or unknown paths, batches of batches, entries
  with several DebugInfos or lists of statuses.

The hazards, each at its line, are in `PROJECT.json`.

## The modules

| Module | Models | Checked or proved in |
| --- | --- | --- |
| `Selection` | the loop that copies what it keeps of a list | `SelectionProofs` |
| `FieldBehavior` | schemas, messages and masks, and what each primitive computes | all but the cache and error modules; `FieldBehaviorProofs` |
| `FieldWalk` | the recursive walk of `ValidateFields` | `Primitives`, `FieldBehaviorStream`, `FieldBehaviorProofs` |
| `Primitives` | a caller that uses the primitives in any order | `Primitives*.cfg`, `PrimitivesProofs` |
| `BehaviorLookup` | what `FieldBehaviorsOf` promises: an atomic lookup | by refinement |
| `BehaviorCache` | `FieldBehaviorsOf` step by step, any number of goroutines | `BehaviorCache*.cfg`, `BehaviorCacheProofs` |
| `ClearWalk` | `clearFields` callback by callback | `ClearWalk.cfg`, `ClearWalkProofs` |
| `ResourceRequest` | the shape of requests; ids and masks of their entries | `FieldBehaviorStream` |
| `FieldBehaviorStream` | `Receive` of the field behavior interceptor, any number of streams | `FieldBehaviorStream.cfg`, `FieldBehaviorStreamProofs` |
| `ErrorDetails` | errors, details, statuses, and what becomes of them | `ErrorInterceptor` |
| `ErrorInterceptor` | RPCs through the chain: receive, send, fail, log, answer | `ErrorInterceptor*.cfg`, `ErrorInterceptorProofs` |
| `BookCalls` | what a call promises its client | by refinement |
| `BookService` | calls from end to end: client, chain, generated handler, service | `BookService.cfg`, `BookServiceProofs` |

The `MC...` modules give the constants their values for TLC.

### Messages

A message is the set of its populated locations. A location is a sequence of
steps, each a field descriptor and a key: 0 for a singular field, 1, 2, ... for
the elements of a list or the entries of a map. A location is in the set only
with every message it lies in. Scalars have no value beyond being there, but for
one that the code tells apart: a float of `-0.0`, whose key is `NegativeZero`,
is there (`Has`) and not populated (`isFieldPopulated` compares it with zero).
`Annotation[f]` may hold any integers; `FieldBehaviorsOf` keeps those within the
set's 16 bits. Mask paths are sequences of names; an unknown name is one no
field has. A request (`ResourceRequest`) is a function from its populated
locations to values, because two kinds of value matter there: masks and ids.

`ClearFields` is a set comprehension. `ClearFieldMask`, `ImpliedFieldMask` and the
functions that pick details out of an error are loops that append what they keep, and
`Selected` is that loop: a recursive function over how far it is. `ClearWalk` is the walk that the code takes instead of the first,
and the theorem `ClearsAll` says they agree. `ValidateFields` is kept twice as
well: the recursion over descriptors is in `FieldWalk`, the condition `IsUnset`
on a single field path in `FieldBehavior`; the run `Primitives` compares them, and
`ValidateFieldsReportsTheUnset` says they agree for every schema and message.

The code's recursion ends because a message is finite and so are the paths of a mask.
`unsetPaths` is a recursive function over how many messages, one in the other, the
walk may still enter, which starts at `MaxDepth`. That is a bound on the depth of what
is walked and on nothing else: `IsShallow` and `AreShallow` say of the messages and masks a
module is given that they lie within it, and the lemma `NoneBeyondTheBound` that a
walk of such a message and mask then misses nothing.

### The cache

A call of `FieldBehaviorsOf` is `Call`, then `Hit`, or `Miss`, a `Decode` for
each kind the annotation lists, `EndDecode` and `Store`. `decoders` is a history
variable: which goroutines have decoded a descriptor. `Decode` adds
`fieldBehaviorBit` of a kind; `BehaviorLookup`, which the cache is compared with, has
no loop and no bits, but the set of an annotation's kinds within the width.

### Receive

`Read` is the framework's read, `Clear` line 74, `MintID`, `KeepID`, `ImplyMask`
and `FilterMask` the four ways through the loop over the writes, `CheckRules` and
`RulesFail` the call of protovalidate, `CheckRequired` an iteration of the second
loop and `Answer` its end. protovalidate is external: `ruleViolations` is its own
`required` rule, for fields that have it, whatever the mask, and `Uncompilable`
message types are those with a rule that does not compile. `uuid.NewV7` is a counter: it never
repeats. The size of a BadRequest is measured in path steps.

The resources a request writes are a set with an order on it (`Earlier`), and
`Visits` takes the earliest that is left.

### RPCs and errors

A detail has a type and an origin; the origin `Garbled` stands for bytes that do
not unmarshal. An error is a `*connect.Error`, a wrapper of one, or another
error. A detail that cannot be packed is left out of its error, as the
constructors do; `Invalid` tries both of its own, packed or not. A response is an
object in memory with an `inputOnly` flag (whether an INPUT_ONLY field is set) and its entries, each the sequence of its
`google.rpc.Status` fields, empty for an entry that succeeded; a `dynamic`
response holds dynamic messages, whose statuses are no `*status.Status`, and the
entries of a `Repeated` one hold theirs in a list, at which the range panics: `Panics`
ends the handler, since nothing in this package recovers. The
interceptors change objects in place, so an object that is sent again is what
the first send left. One goroutine at a time sends an object: otherwise the
handlers race with each other, whatever this package does. `SendOut` may fail.

`Receive` goes through `Read`/`ReadFails`, `Validates`/`Invalid`/`RulesFail` and
`Prepares`/`PrepareFails`. A handler may go on after a failed Receive, send,
succeed, or fail with the error of its Receive, wrapped or not, or one of its own.

### Calls from end to end

`BookService` puts the two ends on the chain. The client's actions are the calls of
the generated client and of the streams it returns; `sent` and `out` are what is on
its way, in order, as HTTP/2 keeps it, and `Leave` is a client that closes, gives up
or loses its connection. Only `Window` messages are on their way in one direction:
`StreamSend` and `Send` wait for the other side to receive, and a `Send` whose client
has left fails. `Breaks` is a read or a send that fails for another reason, such as a
deadline or a message that is too large, with a code of `Breakages`. On the server `StartUnary`, `UnaryRefuses` and
`Unimplemented` are the closures of the generated handler (a unary handler receives,
and returns the error of its `Receive` before it looks at the service), `StartStream`
hands the stream to the service, and `StreamEnds` is the end of the loop of the tests'
service (`interceptor_test.go:95-109`), which reads until `io.EOF`: what is checked of
streams is of a service with such a loop. In between, `Read`, `ReadFails`,
`FillAndValidate`, `PrepareName`, `PrepareOwner` and `PrepareFails` are a `Receive` up
the chain, coarser than in `FieldBehaviorStream` and `ErrorInterceptor`: a message has
an id, a name, a flag for who owns its OUTPUT_ONLY field, and what is wrong with it.
`Prepare` (`Named`, `Owned`) and the order the interceptors are installed in (`After`)
are the application's: `Prepare` takes two steps, the name built from the id and
then an OUTPUT_ONLY field of its own, so that it can fail half way, and so that each
step depends on the fields interceptor having been there before. How the server is
set up (the reject function, the methods it implements, the requests that are
`RequestPreparer`s) is chosen once and kept.

## The runs

Runs that pass:

* **Primitives** (47 328 states). Every message over ten locations of a shipment
  (a nested and a recursive message, a list, an OUTPUT_ONLY message, an IMMUTABLE
  scalar), nine masks (nil, empty, `*`, unknown names, duplicates of what another
  path covers, paths through lists and scalars) and the kinds REQUIRED and
  OUTPUT_ONLY; the primitives are called in any order, any number of times.
  `ReportsExactlyTheUnset` ties the walk to `IsUnset`, its order included;
  `ImpliedAfterClearWritesTheClientsFields`, `ImpliedMaskNamesWhatIsSet` and
  `NeverBlamedForServerFields` relate calls of several primitives;
  `FilterTakesOutExactlyTheKind` compares the name-by-name walk of a mask path
  with descriptor paths. `MaxDepth` is three: a message in a message in a message.
* **BehaviorCache**. Three goroutines, so that two can race with a third that
  comes late, and two descriptors: one with two kinds, so that a half-decoded set
  exists, one with a kind beyond the width. The refinement of `BehaviorLookup`
  (`ImplementsLookup`) includes that every call returns.
* **ClearWalk** (70 474 states). The shipment with up to two sets of locations
  missing, two kinds, and every order of every range; each walk ends.
* **FieldBehaviorStream** (70 062 states). Two streams; creates with and without an
  id, updates with a mask that is omitted, filtered to nothing, or partly, batches
  of two creates and of three updates, a batch of batches (one of them empty), a bare
  resource, a type whose rules do not
  compile, a failed read. Three ids may be minted, which is enough for a batch
  on each stream to want one at the same time; a BadRequest holds six steps, so
  that some fit and some do not.
* **ErrorInterceptor** (372 221 states). Two RPCs, one send each, of a batch
  response they share (an entry of the client's, one that succeeded, one of the
  server's with two DebugInfos, a relayed third that cannot be read and a RetryInfo
  after them), a dynamic one, or one whose entry holds a list; three errors of a
  handler's own (a wrapped one has all kinds of DebugInfo) and two of the framework's
  read, and a `Prepare` that fails with an error that names a field or not and whose text
  can be packed or not. The second send of the batch is the resend of an object the first
  one changed. `MaxSends` is 1: a second send by the same RPC meets the same object
  as one by the other. `SendsTheRestAsItWas` is the other side of
  `ClientSeesNoInternals`: whatever the interceptors are not there to take out gets
  out in place. It leaves DebugInfos aside; of those `LastDebugInfoIsNotLost` says that
  the last readable one of an entry is in its response or in the log, and the run
  `ErrorInterceptorDebugInfos` what becomes of the others. `CallsReturn` says that each
  send comes to its end, past the entries it has nothing to do with.
* **BookService** (489 569 states). A unary `CreateBook` and an `ImportBooks` stream
  of two messages, which is the least with a message behind a refused one and one
  before it; a good message and one for each layer to refuse; four setups, with each
  reject function, a method of either kind unimplemented, and a request that is no
  `RequestPreparer`. Each client may leave at any point, one message is on its way at a
  time (`Window` is 1), so the second answer waits for the first to be received, and a
  read or a send may run into its deadline. `EveryCallEnds` says that the server is done
  with a call whose client has left, and that a call whose client has closed its side and
  goes on receiving ends: a client that does neither keeps the server waiting in its
  `Send`, and nothing in this code ends that. `ServesWhatWasSentPrepared`
  and `RefusedIsNotServed` say what the service is given, `EndsForAReason` and
  `AnswersInFull` what the client is told, and each says one direction of what would
  be an equivalence: nothing refused is served, nothing is refused without cause.
  `ImplementsCalls` is the refinement of `BookCalls`. The two calls share nothing but
  the setup: two are there to make sure of that.

Runs that end in a violation, each a disagreement between the code and what a
comment, the README or a test says of it:

* **PrimitivesOverlap**: `field_behavior.go:176-178` has a nested mask path checked
  "as unset when `carrier` is"; with `carrier` in the mask too and unset, it is
  not checked (line 271).
* **PrimitivesNegativeZero**: `README.md:117` has unset mean protobuf presence for
  `ValidateFields` and the implied mask alike; a float of `-0.0` is implied and
  then reported unset (line 413).
* **BehaviorCacheRace**: `field_behavior.go:52` has the annotation decoded once per
  descriptor; goroutines that miss together each decode it. Harmless, as
  `StoredSetNeverChanges` shows.
* **ErrorInterceptorDebugInfos**: `errors.go:73-75` and `error_interceptor.go:194-196`
  have the DebugInfo of a failed entry logged and taken out. The run ends with a batch
  in which it is otherwise three times: of two readable DebugInfos in an entry both are
  taken out and only the last is logged (line 227); one that does not unmarshal stays in
  its entry (line 226), where an answer loses it; and of an entry with two statuses one
  keeps its DebugInfos (line 248).
* **ErrorInterceptorRepeated**: `error_interceptor.go:192-195` has the server's
  entries logged; the range over an entry that holds a list of statuses panics (line
  216), and the response is neither logged nor sent.
* **ErrorInterceptorWrapped**: `error_interceptor.go:97` has the log keep the
  parser's error as the cause; if the handler wraps the error, the cause is the
  fixed message (line 130).

The properties of entries in the passing runs hold of entries with a single generated
status, and each names the exceptions these runs report: `ClientSeesNoInternals` and
`EntriesTellWhatAnAnswerTells` a DebugInfo that cannot be read, and
`LastDebugInfoIsNotLost` the DebugInfos before the last.

One more thing the model shows and no run reports: `error_interceptor_test.go:217` has
each detail type sent at most once, and an error relayed with the RequestInfo of another
service is answered with that and the interceptor's (line 161). Its ErrorInfo is looked
for first (`EveryErrorHasOneInfo`).

## Fairness

`BehaviorCache` and `ErrorInterceptor` assume weak fairness of the steps a
goroutine takes inside a call, and `ClearWalk` of the walk: Go preempts
goroutines, and nothing in these calls blocks on another goroutine. No fairness is
assumed of callers, handlers and clients. The liveness properties are that each
lookup is answered (`ImplementsLookup`), the walk ends (`Terminates`), and a send
comes to its end, the panic included, and a failed RPC to its answer (`CallsReturn`).
`BookService` assumes it of the server's goroutine of each call (the service's method and
`Prepare` return) and of the return of a unary call whose answer is there, and of nothing
else a client does: a stream whose client neither closes nor leaves may stay open for
ever, and so may one whose client has closed its side and does not receive, because a
`Send` waits for room. So the part of `EveryCallEnds` about clients that stay has the
fairness of their receiving as its hypothesis. `Breaks` is never owed. `ClearWalk`,
`ErrorInterceptor` and `BookService` stop when there is nothing left to do, so their
configurations do not check deadlock.

## The proofs

`BehaviorCacheProofs`, for any sets of goroutines and descriptors and any
annotations: the inductive invariant `IInv` adds to `CacheCoherent` what each
goroutine knows in the middle of a decoding (what it has decoded and what is left
make up the whole, `Decoding`; without it a store could not be shown to store the
whole set) and that a goroutine that has decoded is still at it or has stored
(`DecodersStore`, for `OnceEach`). From it follow `TypeCorrect`, `Coherent`,
`OnceEach`, `StoredForGood` and `Refinement`: each step of the racing lookups is
a step of the atomic one or leaves it as it is. The assumptions are those of
`BehaviorLookup`: `NoDescriptor` is no descriptor and `NoSet` no set.

`ClearWalkProofs`, for any schema, message, kind and order of the ranges. That
the final message is exactly `ClearFields` of the first is no inductive
invariant: in the middle of the walk it is false. `IInv` says instead that
whatever is still to be cleared is covered by a call in progress, which has
collected its field, has still to visit it, or has still to walk into the message
it lies in (`Pending`); that no call works beneath a field of the kind, and that
what a call has collected is of the kind (`Clean`), so nothing else goes; that
the calls work ever deeper (`Deeper`), so a clearing disturbs no range of an outer
call; and that the message stays a tree. When the stack is empty nothing is
covered, so nothing is left to clear: `ClearsAll`. `NothingElseLost`, `NoMutation`
and `TypeCorrect` follow too. The assumptions are `SchemaAssumption` and
`MessagesAssumption`.

`FieldBehaviorProofs`, for any schema, message, kind and mask: what the primitives
compute. That the walk of `ValidateFields` reports exactly the fields `IsUnset`
describes is an induction over how deep it may still go. The code's walk does not
yield descriptors but dotted names, relative to the message it is at, and looks them
up afterwards; what is carried through the induction is therefore that its result is
the names of a list of field paths (`AllNames`) which is `Sorted` and has exactly the
unset ones, and what a mask says of a path beneath a field is what `maskedPaths` makes of
it says of the rest. In the end `fieldPath` finds each path by its names, because no
two fields of a message have the same. One fact about a message is needed: each value
lies under a key that its field's shape allows (`Keyed`). Then: what is left of a message by
`ClearFields` is a message (`ClearedIsMessage`), the name-by-name walk of `ClearFieldMask`
meets the same fields as the descriptor paths that begin the mask path
(`NamesKindIs`), and what an implied and a filtered mask hold (`ImpliedPaths`, `ClearedMaskIs`).

`PrimitivesProofs`, for any schema, messages and masks: the invariant says what each
variable is because of the calls that made it, whatever came in between. A cleared
message is still a message and holds nothing of the kinds that were cleared
(`GoodMessage`); no path of a filtered mask names a kind that was filtered (`GoodMask`);
an implied mask names fields the client may write, all that are set if nothing was
filtered out, and none that is unset if nothing was cleared since (`GoodImplied`); and
what was reported is still so (`GoodReport`). From it follow the type invariant, the
four safety properties of the run and the action property `FilterTakesOutExactlyTheKind`.
Two of them need a hypothesis, which the theorem states and which is not an assumption of
the module. `ImpliedMaskIsOfWhatIsSet` needs that no client sends a float of `-0.0`
(`NoClientSendsNegativeZero`): the run `PrimitivesNegativeZero` shows that the property is
false otherwise. `ServerFieldsAreNotBlamed` needs that no field is both REQUIRED and
OUTPUT_ONLY (`NoFieldIsBoth`): such a field is cleared and then missed, whatever the
client does. Otherwise the assumptions are `SchemaAssumption`, `WalkAssumption`
(names are strings, and no mask is taken for the nil one) and `ClientsAssumption` (what
a client sends is a message and a mask, within `MaxDepth`, and no path is empty).

`FieldBehaviorStreamProofs`, for any schema, requests and number of streams. While a
loop over the resources is on its way, a message is neither what the client sent nor
what the handler gets, so the properties are not inductive. `GoodMessage` says how
far it is at each step: after the clearing nothing of the server's is in it and only
ids and masks differ (`WithoutServers`, `Kept`), the resources still to be visited
are among those of the message as it now is, and their ids are still as sent, while
those visited are identified (`Identified`). That filling in one resource leaves the
others alone is the lemma `PutKeeps`: what is filled in is no entry, no resource and
not OUTPUT_ONLY, and two resources have no location of it in common (`FillingFacts`,
`FillingApart`). Streams meet in the source of ids alone: `OwnedIsMinted` bounds the
ids given so far, and so `OneOwner`, that no two creates have the same minted id, is
kept by the next. From these follow `NothingElseChanges`, `NoneOfTheServersArrives` and
`EveryCreateHasItsId`. The assumptions are `SchemaAssumption`, `RequestAssumption`,
`FilledAssumption` (no `update_mask` and no `<resource>_id` is OUTPUT_ONLY itself),
`WalkAssumption` and `StreamAssumption`, which the three parts share: what a client
sends is a finite message of its type (`IsRequest`), whose resources and masks lie within
`MaxDepth`, in which no string is a float and no id is one still to be minted; the fields with
protovalidate's `required` are finitely many, and the budget of a BadRequest is a number.

`SelectionProofs` is about `Selected`, for any list and any set of what is kept. The
library's induction takes a predicate as a parameter, which no prover here can
instantiate. The induction that is proved here takes a set instead (`SetInduction`: a
set of numbers with 0 in it that is closed under successor has every number in it, by way of
its least missing element), and each lemma puts the numbers for which it holds in a set.
With it: the loop is well defined, a selection holds the elements that are kept and no
others, in their order, and selecting goes through appending, concatenating and
selecting again.

The second part of `FieldBehaviorStreamProofs` is about the masks of the updates a
handler gets. What holds at the end of the loop is again false in the middle of it: `MaskInv`
says of each resource whether it has been visited, and so whether its mask is still as
sent (`ToFill`) or filtered, or implied (`IsMasked`); of a visited one that no path
names what is OUTPUT_ONLY, wherever the walk of the path through the descriptors leads.
That filling in the mask of one resource changes neither the mask nor the fields of another
is what makes this inductive. From it follow `NeitherValueNorMaskArrives` and
`UpdatesWriteTheirMasks`. The mask of an update is a list of paths; a request without
one has the empty list.

The third part is about what a `Receive` refuses. `CheckInv` says of a stream in the
loop of `validate` that the violations so far name exactly what protovalidate found and
what the resources already visited lack (`IsFound`), and of one that is done that its
error is the one made of them (`Verdict`). Most of the work is to show that a message
into which ids and masks have been filled is still a message of its type
(`ReceivedIsMessage`), so that what is proved of the walk applies to each of its
resources, and that it is still finite, so that protovalidate's findings can be listed.
`TypeCorrect` follows, and `TheMissingIsNamed`: a message is refused if and only if
something is missing, and the error names all of that and nothing else. That it names
nothing twice (`TheIncompleteIsRefused`) rests on the resources: none lies within another,
so no two find the same location (`WritesApart`, `BeginsOne`). Here there is a hypothesis,
`NoFieldIsRequiredTwice`: a field with protovalidate's rule and the annotation REQUIRED is
reported by both checks, and the code joins what they find. `AnOmittedMaskWritesNothingUnset`
goes back to the message as it was sent: a field that an implied mask names was set then,
filling in takes nothing out, and what is set is populated, unless it is a `-0.0`
(hypothesis `NoNegativeZero`; the run `PrimitivesNegativeZero` is what happens otherwise).
Both hypotheses hold of the run's instance (`MCAssumption`), and the two properties are
checked there. `TheBadRequestHoldsWhatFits` is an induction over the loop of `badRequest`,
again with `SetInduction`. `NothingIsLeftOutForItsDepth` says that `MaxDepth` bounds the requests only:
the fields a resource is said to lack are all those `IsUnset` describes, at any depth.

`ErrorInterceptorProofs`, for any number of RPCs, responses, errors and sends. Two things are
hard. Responses are objects in memory that any RPC may send again, so what one RPC
finds is what the others left: `ObjectsInv` says what may have become of a response, which is
that each status is as it was made or stripped, and `WireInv` that what is on the wire has
no more to lose. And the log has to be read against both: `DebugInv` says that the
last readable DebugInfo of an entry is either still in the object and in no record, or
gone from it and in exactly one record of exactly one RPC, from which
`LastDebugInfoKept` follows; `EntriesInv` counts the records of an
entry against the sends that are past it; `LogInv` and `ErrorInv` tie the record of a
failed RPC to its error, the cause that error tells (`TellsItsCause`) and its answer, and
`SendingInv` keeps two goroutines from sending one object at a time. A handler that panics
leaves the object it was sending as it is (`PanicsLeaves`). The lemmas under it say how
taking out the DebugInfos and
adding an ErrorInfo combine, above all that stripping twice is stripping once. From the
invariant follow the type invariant and all seven safety properties of the run. The
assumptions are `OptionsAssumption` and `HandlersAssumption`: an error and a status
carry at most one ErrorInfo when they are made, as AIP-193 has it and the constructors
of this package add one; and the text of a `*connect.Error` is no secret, for such an
error says what its client may know.

`BookServiceProofs`, for any calls, methods, messages and setups: the invariant says
for each place a goroutine can be at how many messages it has read, served and
answered (`Reading`, `Handling`, `Ending`), what the message in hand is of the one that
was sent, and that a refusal still on its way is of the last message read. From it
follow the type invariant, the four safety properties of the run and `Refinement`,
that every step is one of `BookCalls` or leaves it as it is. The assumption is
`ServiceAssumption`, the types of the constants.

Only model-checked is liveness: `Terminates`, `EveryCallEnds`, `CallsReturn`, and of
`ImplementsLookup` that a lookup returns (its safety is `Refinement` of
`BehaviorCacheProofs`). It rests on fairness and `ENABLED`, which are out of the provers'
reach. Every other property of the passing runs is a theorem, four of them under the
hypotheses on `-0.0` and on fields required twice or both REQUIRED and OUTPUT_ONLY that
are named above, and `FailedEntriesLogged` and the other properties of entries as they are
stated, of entries with a single generated status. The hypotheses are no assumptions of
the modules: where one does not hold, nothing else that is proved depends on it.

## Not modelled

* The text of errors and sets, `NewResourceInfo`, the stack trace of `NewDebugInfo`, the
  panic of `NewBadRequest` for an error that names no field (nothing in this package
  recovers), the choice of the logger.
* `ResourceName` and `RequestPreparer`: interfaces of generated code.
* An application's interceptors between those of this package, and a handler that
  keeps a response and sends it over several streams at a time: both are the
  application's, and the second is a data race of its own making.
* The values of `FieldError` and `FieldBehaviorError`: their text and what they unwrap
  to. Which paths one holds is what `ValidateFields` yields.
* A consumer that breaks off `ResourceWrites`; nil and invalid messages, for which
  each primitive returns at once.
* connect-go, protovalidate and the protobuf runtime, but for what the code uses
  of them.
* The generated message types of the test schema, which keep no state of their own:
  the runs' schemas and messages are shaped after them. Of the generated Connect code
  `SendHeaders`, which changes no message.

## Plan

Done: the primitives, the cache and the walks, a caller of the primitives, `Receive`,
the chain of errors and the calls from end to end, each with a proof of every safety
property that is checked of it. Left, in this order:

1. A refinement from `FieldBehaviorStream`'s `Receive` to the single step
   `FillAndValidate` of `BookService`. The two speak of different messages: a map of
   locations here, four flags there; the map from the one to the other has to be
   written for a schema of books.
2. A request with two resource fields, and recursive resources in a batch.
