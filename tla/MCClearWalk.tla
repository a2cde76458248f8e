------------------------------ MODULE MCClearWalk ------------------------------
(***************************************************************************)
(* A shipment with a list and a map of line items, a recursive carrier,    *)
(* and a list annotated with two kinds, after tests.Shipment.              *)
(***************************************************************************)
EXTENDS ClearWalk

MCFields ==
  [Shipment |-> <<"create_time", "carrier", "line_items", "keyed_items", "escorts">>,
   Carrier  |-> <<"tracking", "agent">>,
   LineItem |-> <<"sku", "quantity">>]

MCName == [f \in {"create_time", "carrier", "line_items", "keyed_items", "escorts",
                  "tracking", "agent", "sku", "quantity"} |-> f]

MCAnnotation ==
  [f \in DOMAIN MCName |->
     CASE f \in {"create_time", "tracking"} -> {OutputOnly}
       [] f = "escorts"                     -> {Immutable, OutputOnly}
       [] f = "sku"                         -> {Required, OutputOnly}
       [] f = "agent"                       -> {Immutable}
       [] OTHER                             -> {}]

MCShape ==
  [f \in DOMAIN MCName |-> CASE f \in {"line_items", "escorts"} -> "list"
                             [] f = "keyed_items"               -> "map"
                             [] OTHER                           -> "singular"]

MCMessageOf ==
  [f \in DOMAIN MCName |-> CASE f \in {"carrier", "escorts", "agent"}    -> "Carrier"
                             [] f \in {"line_items", "keyed_items"}      -> "LineItem"
                             [] OTHER                                    -> "none"]

MCPresence == [f \in DOMAIN MCName |-> FALSE]

MCKey == -1 .. 2

\* The value of a field, or the first element of one that holds several.
One(f) == Step(f, IF MCShape[f] = "singular" THEN 0 ELSE 1)
Two(f) == Step(f, 2)

Locations ==
  {<<One("create_time")>>,
   <<One("carrier")>>, <<One("carrier"), One("tracking")>>,
   <<One("carrier"), One("agent")>>, <<One("carrier"), One("agent"), One("tracking")>>,
   <<One("line_items")>>, <<One("line_items"), One("sku")>>,
   <<Two("line_items")>>, <<Two("line_items"), One("sku")>>,
   <<Two("line_items"), One("quantity")>>,
   <<One("keyed_items")>>, <<One("keyed_items"), One("sku")>>, <<Two("keyed_items")>>,
   <<One("escorts")>>, <<One("escorts"), One("tracking")>>}

\* The empty shipment, a full one, and those that lack a location or two and
\* what lies beneath it.
Without(gone) == {at \in Locations : \A g \in gone : ~IsPrefix(g, at)}

MCMessages ==
  {m \in {Without(gone) : gone \in {{}, Locations} \cup {{a, b} : a, b \in Locations}} :
     IsMessage("Shipment", m)}

MCKinds == {OutputOnly, Immutable}

=============================================================================
