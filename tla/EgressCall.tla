----------------------------- MODULE EgressCall -----------------------------
(***************************************************************************)
(* What one call of the egress API promises its caller (spec 6, Egress     *)
(* API; 4.E and 8.2, 8.3, 8.5), independent of how an escaper dials,       *)
(* negotiates or buffers.  The call is pending until it returns a tunnel,  *)
(* returns an error or is dropped; a returned tunnel is read until the     *)
(* caller closes it.                                                       *)
(*                                                                         *)
(* Bytes are counted, not carried: received is what the egress layer has   *)
(* taken off the network for this tunnel, delivered what the caller's      *)
(* reader has returned, charged what the read-side sinks were credited.    *)
(* A sink may be credited ahead of delivery (bytes already buffered), but  *)
(* never for a byte that did not arrive, and no byte reaches the caller    *)
(* uncredited.                                                             *)
(***************************************************************************)
EXTENDS Naturals

VARIABLES
  status,     \* "pending", "tunnel", "error", "cancelled" or "closed"
  received,   \* bytes of the tunnel taken off the network
  delivered,  \* bytes handed to the caller
  charged     \* bytes credited to the read-side sinks

vars == <<status, received, delivered, charged>>

\* Each count is monotone and the sinks sit between delivery and arrival.
Accounted(r, d, c) ==
  /\ r >= received /\ d >= delivered /\ c >= charged
  /\ d <= c /\ c <= r

Init ==
  /\ status = "pending"
  /\ received = 0 /\ delivered = 0 /\ charged = 0

\* The call returns a tunnel; bytes that arrived with the negotiation may
\* already be credited.
Return ==
  /\ status = "pending"
  /\ status' = "tunnel"
  /\ delivered' = 0
  /\ Accounted(received', delivered', charged')

\* The call returns an error, or its future is dropped: nothing is credited.
Fail ==
  /\ status = "pending"
  /\ status' = "error"
  /\ UNCHANGED <<received, delivered, charged>>

Cancel ==
  /\ status = "pending"
  /\ status' = "cancelled"
  /\ UNCHANGED <<received, delivered, charged>>

\* Bytes move through the tunnel: they arrive, are credited, are delivered.
Transfer ==
  /\ status = "tunnel"
  /\ Accounted(received', delivered', charged')
  /\ UNCHANGED status

Close ==
  /\ status = "tunnel"
  /\ status' = "closed"
  /\ UNCHANGED <<received, delivered, charged>>

Next == Return \/ Fail \/ Cancel \/ Transfer \/ Close

\* A call nobody answers is ended by its deadline (spec 4.F, 5).
Spec == Init /\ [][Next]_vars /\ WF_vars(Fail)
=============================================================================
