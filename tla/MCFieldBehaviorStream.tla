------------------------- MODULE MCFieldBehaviorStream -------------------------
(***************************************************************************)
(* The requests of tests.BookService: a create with and without a          *)
(* `<resource>_id`, an update, batches of both and of batches, a book      *)
(* streamed on its own and a request whose rules do not compile.  The book *)
(* has two REQUIRED fields, one of them in a message of its own, and       *)
(* OUTPUT_ONLY fields at the top and below it.                             *)
(***************************************************************************)
EXTENDS FieldBehaviorStream, TLC

MCFields ==
  [Book            |-> <<"title", "notes", "etag", "courier">>,
   Courier         |-> <<"phone", "tracking">>,
   FieldMask       |-> <<>>,
   CreateBook      |-> <<"parent", "book_id", "book">>,
   ImportBook      |-> <<"imported">>,
   UpdateBook      |-> <<"updated", "update_mask">>,
   BatchCreate     |-> <<"creates">>,
   BatchUpdate     |-> <<"updates">>,
   Batches         |-> <<"batches">>,
   GetBook         |-> <<"name">>]

MCName ==
  [title |-> "title", notes |-> "notes", etag |-> "etag", courier |-> "courier",
   phone |-> "phone", tracking |-> "tracking_id",
   parent |-> "parent", book_id |-> "book_id", book |-> "book", imported |-> "book",
   updated |-> "book", update_mask |-> "update_mask", creates |-> "requests",
   updates |-> "requests", batches |-> "requests", name |-> "name"]

MCAnnotation ==
  [f \in DOMAIN MCName |->
     CASE f \in {"title", "phone"}   -> {Required}
       [] f \in {"etag", "tracking"} -> {OutputOnly}
       [] OTHER                      -> {}]

MCShape == [f \in DOMAIN MCName |-> IF f \in {"creates", "updates", "batches"} THEN "list" ELSE "singular"]

MCMessageOf ==
  [f \in DOMAIN MCName |->
     CASE f \in {"book", "imported", "updated"} -> "Book"
       [] f = "courier"                         -> "Courier"
       [] f = "update_mask"                     -> "FieldMask"
       [] f = "creates"                         -> "CreateBook"
       [] f = "updates"                         -> "UpdateBook"
       [] f = "batches"                         -> "BatchCreate"
       [] OTHER                                 -> "none"]

MCPresence == [f \in DOMAIN MCName |-> FALSE]
MCIdName   == [f \in DOMAIN MCName |-> MCName[f] \o "_id"]
MCKey      == -1 .. 3

----------------------------------------------------------------------------
\* The book of a request, given the locations in it.
Books ==
  LET at(names) == [i \in DOMAIN names |-> Step(names[i], 0)]
  IN [empty    |-> {},
      titled   |-> {at(<<"title">>)},
      full     |-> {at(<<"title">>), at(<<"notes">>), at(<<"etag">>), at(<<"courier">>),
                    at(<<"courier", "phone">>), at(<<"courier", "tracking">>)},
      couriers |-> {at(<<"etag">>), at(<<"courier">>), at(<<"courier", "tracking">>)}]

\* A request that holds a book in field f, with further locations and values.
Holding(f, book, others) ==
  LET beneath == {<<Step(f, 0)>> \o at : at \in book \cup {<<>>}}
  IN [at \in beneath |-> Set] @@ others

\* An id of the client's choice: none that is minted.
OwnId == -90

Text(f, value) == <<Step(f, 0)>> :> value

Create(book, others) == Holding("book", Books[book], others @@ Text("parent", Set))
Update(book, mask)   == Holding("updated", Books[book], Text("update_mask", mask))

\* A batch of requests in the list field f.
BatchOf(f, requests) ==
  LET at(i, l) == <<Step(f, i)>> \o l
  IN [l \in {at(i, <<>>) : i \in DOMAIN requests}
            \cup UNION {{at(i, k) : k \in DOMAIN requests[i]} : i \in DOMAIN requests} |->
        IF Len(l) = 1 THEN Set ELSE requests[l[1].key][Tail(l)]]

MCRequests ==
  [CreateBook  |-> {Create("full", Nothing), Create("couriers", Text("book_id", OwnId)),
                    Holding("book", {}, Text("book_id", EmptyId)), Text("parent", Set)},
   ImportBook  |-> {Holding("imported", Books["full"], Nothing)},
   UpdateBook  |-> {Update("full", <<>>), Update("full", <<<<"etag">>>>),
                    Update("titled", <<<<"courier", "phone">>, <<"courier">>,
                                       <<"courier", "tracking_id">>, <<"title">>>>),
                    Holding("updated", Books["couriers"], Nothing), Text("update_mask", <<<<"title">>>>)},
   BatchCreate |-> {BatchOf("creates", <<Create("titled", Nothing), Create("full", Nothing)>>),
                    BatchOf("creates", <<Create("empty", Nothing), Text("parent", Set),
                                         Holding("book", Books["couriers"], Text("book_id", OwnId))>>)},
   BatchUpdate |-> {BatchOf("updates", <<Update("titled", <<<<"notes">>>>),
                                         Update("empty", <<<<"title">>, <<"etag">>>>),
                                         Update("titled", <<>>)>>)},
   Batches     |-> {BatchOf("batches", <<BatchOf("creates", <<Create("full", Nothing), Create("empty", Nothing)>>),
                                         Nothing,
                                         BatchOf("creates", <<Create("titled", Nothing)>>)>>)},
   Book        |-> {[at \in Books["couriers"] |-> Set]},
   GetBook     |-> {Text("name", Set)}]

\* What two theorems ask of the schema and the requests holds of these.
ASSUME MCAssumption == NoFieldIsRequiredTwice /\ NoNegativeZero

=============================================================================
