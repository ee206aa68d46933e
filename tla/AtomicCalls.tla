----------------------------- MODULE AtomicCalls -----------------------------
(***************************************************************************)
(* What a caller of the pool may count on: a call that is refused changes  *)
(* nothing, and a call that returns has its effect all at once.            *)
(*                                                                         *)
(* value[m] is the number of the call that wrote member m last.            *)
(***************************************************************************)
EXTENDS Naturals

CONSTANTS
  Member,
  Unprotected     (* <<caller, op>>: calls whose failures nobody undoes     *)

VARIABLES value, calls, request, outcome

vars == <<value, calls, request, outcome>>

Outcomes == {"running", "returned", "refused"}

Init ==
  /\ value = [m \in Member |-> 0]
  /\ calls = 0 /\ outcome = "returned"
  /\ request = <<"none", "none">>

Ask ==
  /\ outcome # "running"
  /\ outcome' = "running"
  /\ calls' = calls + 1
  /\ request' \notin {<<"none", "none">>}
  /\ UNCHANGED value

(* Each member keeps its value or is written by this call.                 *)
WriteSome ==
  /\ DOMAIN value' = Member
  /\ \A m \in Member : value'[m] \in {value[m], calls}

Return ==
  /\ outcome = "running" /\ outcome' = "returned"
  /\ WriteSome
  /\ UNCHANGED <<calls, request>>

Refuse ==
  /\ outcome = "running" /\ outcome' = "refused"
  /\ UNCHANGED <<value, calls, request>>

Tear ==
  /\ outcome = "running" /\ outcome' = "refused"
  /\ request \in Unprotected
  /\ WriteSome
  /\ UNCHANGED <<calls, request>>

Next == Ask \/ Return \/ Refuse \/ Tear

Spec == Init /\ [][Next]_vars
=============================================================================
