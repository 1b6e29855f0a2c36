------------------------- MODULE MCWebSocketSession -------------------------
(***************************************************************************)
(* WebSocketSession with one-byte bodies and a quota of one message, whose *)
(* bytes are not scarce.                                                   *)
(***************************************************************************)
EXTENDS WebSocketSession, TLC

MCLease == Call \cup Arrival
MCSize == [body \in MCLease |-> 1]

\* As for MQTT: a driver that failed takes no further step, and the properties of
\* this run are about drivers that serve or closed.
DriverServes == task = "running" \/ result = "Closed"

Symmetry == Permutations(Call) \cup Permutations(Arrival)
=============================================================================
