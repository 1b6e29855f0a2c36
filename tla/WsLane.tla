------------------------------- MODULE WsLane -------------------------------
(***************************************************************************)
(* The WebSocket lanes of invoke.ts: runWSPublish, and runWSSubscribe for  *)
(* a subscription and for an exchange, over one socket or two.  The socket *)
(* comes from the pool (WsPool), so it may be shared, and only a reference *)
(* to it is held and returned.                                             *)
(***************************************************************************)
EXTENDS Lane

wsRest == <<facts, prepared>>

(* A subscription takes no input.                                          *)
WsDial ==
  /\ cell \in WebSocket /\ Dispatchable
  /\ IF cell = "wsOut" THEN CloseInput ELSE UNCHANGED handleVars
  /\ conn' = "dialing" /\ main' = "acquiring"
  /\ UNCHANGED <<wsRest, sent, inputConn, held, heard, trouble, frames, arrived, missed,
                 pumpVars>>

(* The listeners are attached, and the pumps of the lane start.            *)
Listen ==
  /\ main' = "running"
  /\ feed' = IF cell = "wsOut" THEN "done" ELSE "reading"
  /\ pump' = IF cell = "wsIn" THEN "done" ELSE "waiting"
  /\ UNCHANGED <<item, emitted>>

WsAcquired ==
  /\ main = "acquiring" /\ cell \in WebSocket /\ Alive
  /\ conn' = "open" /\ held' = held + 1
  /\ IF cell = "wsSplit"
     THEN main' = "acquiringInput" /\ inputConn' = "dialing" /\ UNCHANGED pumpVars
     ELSE Listen /\ UNCHANGED inputConn
  /\ UNCHANGED <<wsRest, handleVars, sent, heard, trouble, frames, arrived, missed>>

(* The second socket of an exchange; the first one lives on meanwhile.     *)
WsInputAcquired ==
  /\ main = "acquiringInput" /\ Alive
  /\ inputConn' = "open" /\ held' = held + 1
  /\ Listen
  /\ UNCHANGED <<wsRest, handleVars, sent, conn, heard, trouble, frames, arrived, missed>>

(* A dial fails or is aborted; an abort says nothing, the invocation ended.*)
WsAcquireFails ==
  /\ main \in {"acquiring", "acquiringInput"} /\ cell \in WebSocket
  /\ EndAs("connectFailed") /\ main' = "finished" /\ held' = 0
  /\ UNCHANGED <<wsRest, sent, conn, inputConn, heard, trouble, frames, arrived, missed,
                 pumpVars>>

(***************************************************************************)
(* The listeners                                                           *)
(***************************************************************************)

(* Frames that nobody listens for are dropped by the pool.                 *)
FrameUnheard ==
  /\ conn = "open" /\ main = "acquiringInput" /\ Cardinality(missed) < MaxFrames
  /\ missed' = missed \union {Cardinality(missed) + 1}
  /\ UNCHANGED <<wsRest, handleVars, sent, conn, inputConn, held, heard, trouble, frames,
                 arrived, main, pumpVars>>

Listening == main = "running" /\ cell \in WebSocket \ {"wsIn"}

(* A frame is buffered, or spoils the stream: it is oversized, or not a    *)
(* frame, or one too many.  Nothing is taken after one that spoils it.     *)
FrameArrives ==
  /\ conn = "open" /\ Listening
  /\ trouble = "none" /\ Len(arrived) < MaxFrames
  /\ \/ /\ Len(frames) < MaxBuffered
        /\ frames' = Append(frames, Len(arrived) + 1)
        /\ arrived' = Append(arrived, Len(arrived) + 1)
        /\ UNCHANGED trouble
     \/ /\ \/ trouble' = "badFrame"
           \/ trouble' = "overflow"   \* oversized, or the buffer is full
        /\ UNCHANGED <<frames, arrived>>
  /\ UNCHANGED <<wsRest, handleVars, sent, conn, inputConn, held, heard, missed, main, pumpVars>>

(* The peer closes, or the socket fails: an error event comes first then.  *)
(* A publish fails either way.  A pump that waits is awoken by the error,  *)
(* before the close event: only a busy one hears of both at once.          *)
SocketErrs ==
  /\ cell \in WebSocket /\ conn = "open" /\ conn' = "failing"
  /\ heard' = IF Listening THEN "error" ELSE heard
  /\ IF main = "running" /\ cell = "wsIn" THEN EndAs("streamError") ELSE UNCHANGED handleVars
  /\ UNCHANGED <<wsRest, sent, inputConn, held, trouble, frames, arrived, missed, main,
                 pumpVars>>

SocketCloses ==
  /\ cell \in WebSocket /\ conn \in {"open", "failing"}
  /\ conn = "failing" => pump # "waiting"
  /\ conn' = IF conn = "open" THEN "closed" ELSE "failed"
  /\ heard' = IF Listening THEN "clean" ELSE heard
  /\ IF main = "running" /\ cell = "wsIn" THEN EndAs("streamError") ELSE UNCHANGED handleVars
  /\ UNCHANGED <<wsRest, sent, inputConn, held, trouble, frames, arrived, missed, main,
                 pumpVars>>

(* The second socket: only its errors are listened to.                     *)
InputSocketEnds ==
  /\ inputConn = "open" /\ inputConn' = "closed"
  /\ \/ main = "running" /\ EndAs("streamError")
     \/ UNCHANGED handleVars
  /\ UNCHANGED <<wsRest, sent, conn, held, heard, trouble, frames, arrived, missed, main,
                 pumpVars>>

(***************************************************************************)
(* outputPump                                                              *)
(***************************************************************************)

pumpRest == <<facts, prepared, sent, conn, inputConn, held, heard, trouble, arrived, missed,
              main, feed>>

(* The buffer is drained before anything else is looked at.                *)
PumpTakes ==
  /\ pump = "waiting" /\ frames # <<>> /\ cell \in WebSocket
  /\ item' = Head(frames) /\ frames' = Tail(frames) /\ pump' = "decoding"
  /\ UNCHANGED <<pumpRest, handleVars, emitted>>

PumpDecodes ==
  /\ pump = "decoding" /\ cell \in WebSocket
  /\ \/ pump' = "emitting" /\ UNCHANGED <<handleVars, item>>
     \/ pump' = "done" /\ item' = 0 /\ EndAs("responseError")
  /\ UNCHANGED <<pumpRest, frames, emitted>>

(* A park ends with the invocation, and the pump with it.                  *)
PumpRefused ==
  /\ pump = "emitting" /\ ~Alive /\ cell \in WebSocket
  /\ pump' = "done" /\ item' = 0
  /\ UNCHANGED <<pumpRest, handleVars, frames, emitted>>

PumpEnds ==
  /\ pump = "waiting" /\ frames = <<>> /\ cell \in WebSocket
  /\ \/ trouble # "none" /\ EndAs("streamError")
     \/ trouble = "none" /\ ~Alive /\ UNCHANGED handleVars
     \/ trouble = "none" /\ Alive /\ heard = "error" /\ EndAs("streamError")
     \/ trouble = "none" /\ Alive /\ heard = "clean" /\ EndAs("closed")
  /\ pump' = "done"
  /\ UNCHANGED <<pumpRest, frames, item, emitted>>

(***************************************************************************)
(* The inputs of a publish and of an exchange                              *)
(***************************************************************************)

feedRest == <<facts, prepared, conn, inputConn, held, heard, trouble, frames, arrived,
              missed, main, pump, item, emitted>>

Writable == IF cell = "wsSplit" THEN inputConn = "open" ELSE conn = "open"

(* An input is encoded and sent; a dead socket throws, which an exchange   *)
(* leaves to its output pump.                                              *)
WsSends ==
  /\ feed = "encoding" /\ cell \in WebSocket
  /\ \/ Writable /\ sent' = Append(sent, taken) /\ feed' = "reading" /\ UNCHANGED handleVars
     \/ /\ ~Writable /\ feed' = "done"
        /\ IF cell = "wsIn" THEN EndAs("streamError") ELSE UNCHANGED handleVars
        /\ UNCHANGED sent
     \/ EndAs("invalid") /\ feed' = "done" /\ UNCHANGED sent
  /\ UNCHANGED feedRest

(* Mutant of WsInputEnds: a publish of nothing is a success.               *)
WsInputEndsEmpty ==
  /\ feed = "reading" /\ cell \in WebSocket
  /\ \/ /\ InputsEnd
        /\ IF cell = "wsIn" THEN EndAs("closed")
           ELSE IF sent = <<>> /\ Receives(cell) THEN EndAs("missingInput")
           ELSE UNCHANGED handleVars
     \/ InputsThrow /\ UNCHANGED handleVars
  /\ feed' = "done"
  /\ UNCHANGED <<feedRest, sent>>

(* The inputs end.  An exchange goes on for its outputs, unless nothing    *)
(* was sent at all though a request is due.                                *)
WsInputEnds ==
  /\ feed = "reading" /\ cell \in WebSocket
  /\ \/ /\ InputsEnd
        /\ IF sent = <<>> /\ Receives(cell) THEN EndAs("missingInput")
           ELSE IF cell = "wsIn" THEN EndAs("closed") ELSE UNCHANGED handleVars
     \/ InputsThrow /\ UNCHANGED handleVars
  /\ feed' = "done"
  /\ UNCHANGED <<feedRest, sent>>

(* Both pumps are over: the listeners go, and so do the references.        *)
WsFinishes ==
  /\ main = "running" /\ cell \in WebSocket
  /\ feed = "done" /\ pump = "done"
  /\ main' = "finished" /\ held' = 0
  /\ UNCHANGED <<wsRest, handleVars, sent, conn, inputConn, heard, trouble, frames, arrived,
                 missed, pumpVars>>

WsRuns ==
  \/ WsDial \/ WsAcquired \/ WsInputAcquired \/ WsAcquireFails
  \/ PumpTakes \/ PumpDecodes \/ PumpRefused \/ PumpEnds
  \/ WsSends \/ WsInputEnds \/ WsFinishes

WsPeer == FrameUnheard \/ FrameArrives \/ SocketErrs \/ SocketCloses \/ InputSocketEnds
=============================================================================
