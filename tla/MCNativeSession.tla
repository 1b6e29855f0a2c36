--------------------------- MODULE MCNativeSession ---------------------------
(***************************************************************************)
(* NativeSession with two callers and two arrivals, one of them a rejected *)
(* observation that reserves no bytes.  The quota holds two of the bodies. *)
(*                                                                         *)
(* TLC follows the behaviours of two scenes: two callers, one of which     *)
(* waits behind the other, and one caller with two arrivals.  Fairness     *)
(* makes nobody call and no peer send, so a fair behaviour of one scene is *)
(* one of the whole, and the constraint cuts no other behaviour short.     *)
(***************************************************************************)
EXTENDS NativeSession, TLC

CONSTANTS c1, c2, m1, m2

MCCall == {c1, c2}
MCArrival == {m1, m2}
MCLease == MCCall \cup MCArrival
MCSize == (c1 :> 2) @@ (c2 :> 1) @@ (m1 :> 2) @@ (m2 :> 0)

OneScene ==
  \/ call[c2] = "idle"
  \/ arriving = {} /\ arrived = <<>>
=============================================================================
