---------------------------- MODULE MCBehaviorCache ----------------------------
(***************************************************************************)
(* Two descriptors: one annotated with two kinds (tests.Shipment's stops)  *)
(* and one whose kinds include a value beyond the set's width.             *)
(***************************************************************************)
EXTENDS BehaviorCache, TLC

CONSTANTS g1, g2, g3, stops, future

MCDescriptor == {stops, future}

MCKinds == stops :> <<5, 6>> @@ future :> <<3, 16>>

=============================================================================
