------------------------------- MODULE BookCalls -------------------------------
(***************************************************************************)
(* What a call promises its client, whatever stands between it and the     *)
(* service: the service is given the requests one at a time and answers    *)
(* each before it is given the next, a unary call gives it one at most,    *)
(* and a call that ends well has had all it gave the service answered.     *)
(***************************************************************************)
EXTENDS Integers

CONSTANTS
  Call,
  Unary   \* the calls of unary methods

VARIABLES
  given,     \* given[c]: how many requests of c the service has been given
  answered,  \* answered[c]: how many responses the server has sent c
  ended      \* ended[c]: the code c has ended with, or "open"

callVars == <<given, answered, ended>>

CallsInit ==
  /\ given = [c \in Call |-> 0]
  /\ answered = [c \in Call |-> 0]
  /\ ended = [c \in Call |-> "open"]

Give(c) ==
  /\ ended[c] = "open"
  /\ given[c] = answered[c]
  /\ c \in Unary => given[c] = 0
  /\ given' = [given EXCEPT ![c] = @ + 1]
  /\ UNCHANGED <<answered, ended>>

Answer(c) ==
  /\ ended[c] = "open"
  /\ answered[c] < given[c]
  /\ answered' = [answered EXCEPT ![c] = @ + 1]
  /\ UNCHANGED <<given, ended>>

EndWell(c) ==
  /\ ended[c] = "open"
  /\ answered[c] = given[c]
  /\ c \in Unary => answered[c] = 1
  /\ ended' = [ended EXCEPT ![c] = "ok"]
  /\ UNCHANGED <<given, answered>>

Fail(c) ==
  /\ ended[c] = "open"
  /\ ended'[c] \notin {"open", "ok"}
  /\ ended' = [ended EXCEPT ![c] = ended'[c]]
  /\ UNCHANGED <<given, answered>>

CallsNext == \E c \in Call : Give(c) \/ Answer(c) \/ EndWell(c) \/ Fail(c)

CallsSpec == CallsInit /\ [][CallsNext]_callVars

=============================================================================
