---------------------------- MODULE MCBookService ----------------------------
(* BookService with one unary call and one stream, for TLC.                *)
EXTENDS BookService

MCMethod == [c \in {"unary", "stream"} |-> IF c = "unary" THEN "CreateBook" ELSE "ImportBooks"]

Book(fault, id) == [fault |-> fault, id |-> id, name |-> "stale", owned |-> "client"]

MCMessages == {Book("none", "own"), Book("malformed", ""), Book("violations", ""), Book("unprepared", "")}

SetUp(reject, implemented, preparable) ==
  [reject |-> reject, implemented |-> implemented, preparable |-> preparable]

MCSetups ==
  {SetUp("default", Procedures, Procedures),
   SetUp("default", {"CreateBook"}, Procedures),
   SetUp("own", {"ImportBooks"}, Procedures),
   SetUp("silent", Procedures, {"ImportBooks"})}

=============================================================================
