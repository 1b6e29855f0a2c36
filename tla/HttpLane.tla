------------------------------ MODULE HttpLane ------------------------------
(***************************************************************************)
(* runUnaryPublish of invoke.ts: one input is one request, and its reply,  *)
(* if one is declared and not empty, one output.                           *)
(***************************************************************************)
EXTENDS Lane

httpWire == <<inputConn, held, heard, trouble, frames, missed>>
httpRest == <<facts, prepared, httpWire>>

HttpStart ==
  /\ cell = "httpIn" /\ Dispatchable
  /\ main' = "running"
  /\ feed' = IF prepared THEN "encoding" ELSE "first"
  /\ UNCHANGED <<httpRest, handleVars, sent, conn, arrived, pump, item, emitted>>

(* readFirstInput and closeInput, or a refusal if no input comes.          *)
HttpFirstInput ==
  /\ feed = "first"
  /\ ended \in {"open", "closed"} /\ taken < given
  /\ taken' = taken + 1 /\ inputClosed' = TRUE /\ feed' = "encoding"
  /\ UNCHANGED <<httpRest, ended, given, sent, conn, arrived, main, pump, item, emitted>>

HttpOver ==
  /\ feed' = "done" /\ main' = "finished" /\ conn' = "closed"
  /\ UNCHANGED <<httpRest, sent, pump, item, emitted>>

HttpNoInput ==
  /\ feed = "first" /\ (InputsEnd \/ InputsThrow)
  /\ EndAs("refused")
  /\ HttpOver /\ UNCHANGED arrived

(* A hook or the codec refuses the input, or two destinations collide.     *)
HttpUnencodable ==
  /\ feed = "encoding" /\ cell = "httpIn"
  /\ EndAs("refused")
  /\ HttpOver /\ UNCHANGED arrived

HttpFetch ==
  /\ feed = "encoding" /\ cell = "httpIn"
  /\ sent' = <<taken>> /\ conn' = "dialing" /\ feed' = "fetching"
  /\ UNCHANGED <<httpRest, handleVars, arrived, main, pump, item, emitted>>

(* A fetch that the caller aborted says nothing; the invocation ended.     *)
HttpFetchFails ==
  /\ feed = "fetching"
  /\ EndAs("connectFailed")
  /\ HttpOver /\ UNCHANGED arrived

(* The status decides first; then the body, in one delivery unit.          *)
HttpResponds ==
  /\ feed = "fetching" /\ Alive
  /\ \/ EndAs("httpStatus") /\ HttpOver /\ UNCHANGED arrived
     \/ /\ feed' = "body" /\ conn' = "open"
        /\ UNCHANGED <<httpRest, handleVars, sent, arrived, main, pump, item, emitted>>

(* The body is too large, or aborted; or empty or not declared, which is   *)
(* a success without an output; or a reply to decode.                      *)
HttpBody ==
  /\ feed = "body"
  /\ \/ EndAs("responseError") /\ HttpOver /\ UNCHANGED arrived
     \/ EndAs("closed") /\ HttpOver /\ UNCHANGED arrived
     \/ /\ arrived' = <<1>> /\ feed' = "replying" /\ conn' = "closed"
        /\ UNCHANGED <<httpRest, handleVars, sent, main, pump, item, emitted>>

HttpDecodes ==
  /\ feed = "replying" /\ pump = "off"
  /\ \/ EndAs("responseError") /\ HttpOver /\ UNCHANGED arrived
     \/ /\ pump' = "emitting" /\ item' = 1
        /\ UNCHANGED <<httpRest, handleVars, sent, conn, arrived, main, feed, emitted>>

(* Mutant of HttpCloses: a parked output waits for its reader for ever.    *)
HttpClosesParked ==
  /\ feed = "replying"
  /\ pump = "waiting" /\ EndAs("closed")
  /\ HttpOver /\ UNCHANGED arrived

(* The output is taken, or the invocation ended while it was parked.       *)
HttpCloses ==
  /\ feed = "replying"
  /\ \/ pump = "waiting" /\ EndAs("closed")
     \/ pump = "emitting" /\ ~Alive /\ UNCHANGED handleVars
  /\ HttpOver /\ UNCHANGED arrived

HttpRuns ==
  \/ HttpStart \/ HttpFirstInput \/ HttpNoInput \/ HttpUnencodable \/ HttpFetch
  \/ HttpBody \/ HttpDecodes \/ HttpCloses

HttpPeer == HttpFetchFails \/ HttpResponds
=============================================================================
