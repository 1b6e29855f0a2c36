------------------------------ MODULE Channel ------------------------------
(***************************************************************************)
(* What either side of a TypeScript invocation promises: values leave in   *)
(* the order in which they were accepted, none is lost or repeated, and    *)
(* whoever reads learns the end of the channel, and its kind, after the    *)
(* values that precede it.  A channel that Aborts may skip the values      *)
(* still queued when it fails, and may fail after it was closed.           *)
(***************************************************************************)
EXTENDS Sequences, Naturals

CONSTANTS Message, Aborts

VARIABLES
  sent,       \* the values accepted, in order
  received,   \* the values handed to the reader, in order
  end,        \* "open", "closed" or "errored"
  seen        \* the end that the reader was told of

vars == <<sent, received, end, seen>>

Drained == received = sent

(* The value that a reader takes next is the eldest it has not taken.      *)
TakesNext == received' = Append(received, sent'[Len(received) + 1])

Init ==
  /\ sent = <<>> /\ received = <<>>
  /\ end \in {"open", "errored"}
  /\ seen = "none"

(* A value is accepted, and handed over at once if a reader waits for it.  *)
Send ==
  /\ end = "open"
  /\ \E m \in Message : sent' = Append(sent, m)
  /\ received' = received \/ (Drained /\ TakesNext)
  /\ UNCHANGED <<end, seen>>

(* A reader takes a value; the room it leaves may admit a waiting sender.  *)
Receive ==
  /\ ~Drained
  /\ \/ sent' = sent
     \/ end = "open" /\ \E m \in Message : sent' = Append(sent, m)
  /\ TakesNext
  /\ UNCHANGED <<end, seen>>

(* The channel ends, once; a reader that waits learns it with the end.     *)
End ==
  /\ \/ end = "open" /\ end' \in {"closed", "errored"}
     \/ Aborts /\ end = "closed" /\ end' = "errored"
  /\ \/ seen' = seen
     \/ seen' = end' /\ (Drained \/ (Aborts /\ end' = "errored"))
  /\ UNCHANGED <<sent, received>>

SeeEnd ==
  /\ end # "open"
  /\ Drained \/ (Aborts /\ end = "errored")
  /\ seen' = end
  /\ UNCHANGED <<sent, received, end>>

Next == Send \/ Receive \/ End \/ SeeEnd

Spec == Init /\ [][Next]_vars
=============================================================================
