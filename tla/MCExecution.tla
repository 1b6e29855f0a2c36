----------------------------- MODULE MCExecution -----------------------------
(***************************************************************************)
(* Execution in three scenes: a run of one goroutine with two sends into a *)
(* buffer of one, as on every HTTP path; a run that starts a second        *)
(* goroutine, with one send; and a run for which a callback emits, with    *)
(* none.  No fairness makes a sender send, a run start a helper or a       *)
(* message come, so the constraint cuts no behaviour of a scene short.     *)
(***************************************************************************)
EXTENDS Execution

CONSTANTS v1, v2, exchange, paho

OneScene ==
  \/ at[paho] = "idle" /\ (Alone \/ sender[v2] = "idle")
  \/ (Alone \/ Panicked) /\ \A v \in Value : sender[v] = "idle"
=============================================================================
