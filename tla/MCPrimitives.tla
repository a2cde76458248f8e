----------------------------- MODULE MCPrimitives -----------------------------
(***************************************************************************)
(* A resource modelled on tests.Shipment: a REQUIRED scalar, a carrier     *)
(* message with a REQUIRED name, an OUTPUT_ONLY tracking id and an agent,  *)
(* itself a carrier (a recursive type), a list and a map of messages, an   *)
(* OUTPUT_ONLY message with a REQUIRED field, an IMMUTABLE field and a     *)
(* float without presence.                                                 *)
(***************************************************************************)
EXTENDS Primitives

MCFields ==
  [Shipment |-> <<"origin", "weight", "carrier", "legs", "route", "receipt">>,
   Carrier  |-> <<"carrier_name", "tracking", "agent">>]

MCName ==
  [origin |-> "origin", weight |-> "weight", carrier |-> "carrier", legs |-> "legs",
   route |-> "route", receipt |-> "receipt",
   carrier_name |-> "name", tracking |-> "tracking_id", agent |-> "agent"]

MCAnnotation ==
  [f \in DOMAIN MCName |->
     CASE f \in {"origin", "carrier_name", "weight"} -> {Required}
       [] f \in {"tracking", "receipt"}              -> {OutputOnly}
       [] f = "route"                                -> {Immutable}
       [] OTHER                                      -> {}]

MCShape ==
  [f \in DOMAIN MCName |-> IF f = "legs" THEN "list" ELSE "singular"]

MCMessageOf ==
  [f \in DOMAIN MCName |-> IF f \in {"carrier", "legs", "receipt", "agent"} THEN "Carrier" ELSE "none"]

MCPresence == [f \in DOMAIN MCName |-> f = "origin"]

MCKey == -1 .. 2

At(steps) == [i \in DOMAIN steps |-> Step(steps[i], IF steps[i] = "legs" THEN 1 ELSE 0)]

\* The locations a client's message may populate.
Locations ==
  {At(s) : s \in {<<"origin">>, <<"carrier">>, <<"carrier", "carrier_name">>,
                  <<"carrier", "tracking">>, <<"carrier", "agent">>,
                  <<"carrier", "agent", "carrier_name">>, <<"legs">>, <<"route">>, <<"receipt">>,
                  <<"receipt", "carrier_name">>}}

MessagesOver(locations) == {m \in SUBSET locations : IsMessage("Shipment", m)}

MCMessages == MessagesOver(Locations)

\* The same, with a weight that is unset, set, or -0.0.
MCZeroMessages ==
  MessagesOver({At(<<"origin">>), At(<<"weight">>), <<Step("weight", NegativeZero)>>})

MCMasks ==
  {NoMask, <<>>, <<<<"*">>, <<"weight">>>>,
   <<<<"carrier">>>>,
   <<<<"carrier", "name">>, <<"origin">>>>,
   <<<<"carrier", "agent">>, <<"carrier", "tracking_id">>, <<"carrier", "agent", "name">>>>,
   <<<<"receipt", "name">>, <<"carrier", "agent", "tracking_id">>, <<"receipt">>>>,
   <<<<"legs", "name">>, <<"legs">>, <<"origin", "name">>, <<"route">>>>,
   <<<<"carrier", "nme">>, <<"carrier", "agent", "name">>, <<"carrier">>>>}

MCKinds == {Required, OutputOnly}

=============================================================================
