--------------------------- MODULE WebSocketSession ---------------------------
(***************************************************************************)
(* A native session over a WebSocket: rust/native/src/websocket.rs.  Each  *)
(* step of run is a step of NativeSession's driver, or a step of the       *)
(* socket alone.                                                           *)
(*                                                                         *)
(* run is in one place at a time: in its select, in the inner loop that    *)
(* writes a command's frame while it keeps reading, or waiting for a flush *)
(* during which it does nothing else.                                      *)
(*                                                                         *)
(* The socket is external (tungstenite and the network): it writes what it *)
(* buffers when it can, answers a ping, answers a close frame unless one   *)
(* was sent, and yields the peer's frames in the order they come.  A flush *)
(* that succeeds wrote all that was buffered; one that answers that the    *)
(* connection is closed says nothing of it.  The peer may send anything,   *)
(* stop reading, or vanish.                                                *)
(***************************************************************************)
EXTENDS NativeSession

CONSTANT MaxControls \* bound: the control frames that the peer sends

ASSUME MaxControlsIsNat == MaxControls \in Nat

VARIABLES
  place,      \* where run is
  closing,    \* run's local of that name is Some
  peerClosed, \* the peer's close frame was read
  outbox,     \* frames the socket has buffered and not written
  flushed,    \* history: frames it has written
  controls    \* how many control frames were read

wsVars == <<place, closing, peerClosed, outbox, flushed, controls>>

\* The frame of a command is named by the command.
Frame == Call \cup {"pong", "close"}

\* run has a pending command exactly while it writes the frame of one.
WebSocketTypeOK ==
  /\ place \in {"select", "sending", "control", "reply", "closeFrame", "handshaken"}
  /\ closing \in BOOLEAN /\ peerClosed \in BOOLEAN
  /\ outbox \subseteq Frame /\ flushed \subseteq Frame
  /\ controls \in 0 .. MaxControls
  /\ task = "running" => (place = "sending" <=> pending # {})

WebSocketInit ==
  /\ Init
  /\ place = "select" /\ closing = FALSE /\ peerClosed = FALSE
  /\ outbox = {} /\ flushed = {} /\ controls = 0

\* run's select.
Selecting == Looping /\ place = "select"

\* The future of send or flush is ready.
Flushed == outbox = {}
-----------------------------------------------------------------------------
(* Commands.                                                                *)

TakeCommandWs(c) ==
  /\ Selecting /\ ~closing
  /\ \/ (SkipCancelled(c) \/ RejectExpired(c) \/ RefuseSubmit(c)) /\ UNCHANGED wsVars
     \/ /\ Submit(c)
        /\ place' = "sending" /\ outbox' = outbox \cup {c}
        /\ UNCHANGED <<closing, peerClosed, flushed, controls>>

\* Mutant of FrameWritten: the frame is fed and not flushed.
FrameFed(c) ==
  /\ place = "sending"
  /\ Complete(c)
  /\ place' = IF peerClosed THEN "handshaken" ELSE "select"
  /\ UNCHANGED <<closing, peerClosed, outbox, flushed, controls>>

\* The frame is flushed: the receipt, and the end if the peer has closed.
FrameWritten(c) ==
  /\ place = "sending" /\ Flushed
  /\ Complete(c)
  /\ place' = IF peerClosed THEN "handshaken" ELSE "select"
  /\ UNCHANGED <<closing, peerClosed, outbox, flushed, controls>>

EndHandshaken ==
  /\ place = "handshaken"
  /\ Stop("Closed")
  /\ UNCHANGED wsVars

\* The deadline of the command passes during the flush.
FlushExpires == place = "sending" /\ StopExpired /\ UNCHANGED wsVars

\* writer.send fails.
WriteFails == place = "sending" /\ Stop("FailedUnknown") /\ UNCHANGED wsVars

\* commands.recv() returns None: every Sender is gone.
CommandsEnded ==
  /\ Selecting /\ ~closing
  /\ owner = "gone" /\ commands = <<>>
  /\ \A c \in Call : call[c] \in {"idle"} \cup Settled
  /\ Stop("Failed")
  /\ UNCHANGED wsVars
-----------------------------------------------------------------------------
(* Reading, in the select and while a frame is written.                     *)

Reading == Looping /\ place \in {"select", "sending"}

ReadArrival(m) ==
  /\ Reading /\ ~peerClosed
  /\ ReserveArrival(m) \/ RefuseArrival(m)
  /\ UNCHANGED wsVars

\* A ping, which the socket answers while no close frame was sent, or a pong.
ReadControl ==
  /\ Reading /\ ~peerClosed /\ controls < MaxControls
  /\ controls' = controls + 1
  /\ \/ UNCHANGED outbox
     \/ "close" \notin flushed \cup outbox /\ outbox' = outbox \cup {"pong"}
  /\ place' = IF place = "select" THEN "control" ELSE place
  /\ UNCHANGED <<vars, closing, peerClosed, flushed>>

\* Mutant of ReadClose: the inner loop returns at once.
ReadCloseReturning ==
  /\ Reading /\ ~peerClosed
  /\ peerClosed' = TRUE
  /\ outbox' = outbox \cup ({"close"} \ flushed)
  /\ place' = IF place = "select" THEN "reply" ELSE "handshaken"
  /\ UNCHANGED <<vars, closing, flushed, controls>>

\* The peer's close frame.  Another one is queued unless it answers ours.
ReadClose ==
  /\ Reading /\ ~peerClosed
  /\ peerClosed' = TRUE
  /\ outbox' = outbox \cup ({"close"} \ flushed)
  /\ place' = IF place = "select" THEN "reply" ELSE place
  /\ UNCHANGED <<vars, closing, flushed, controls>>

\* The stream ends or yields an error, a frame that is too long among others.
ReadFails ==
  /\ Reading
  /\ Stop(IF place = "sending" THEN "FailedUnknown" ELSE "Failed")
  /\ UNCHANGED wsVars

ReadStep ==
  (\E m \in Arrival : ReadArrival(m)) \/ ReadControl \/ ReadClose \/ ReadFails
-----------------------------------------------------------------------------
(* Flushes that run waits for alone, and closing.                           *)

ControlFlushed ==
  /\ Looping /\ place = "control" /\ Flushed
  /\ place' = "select"
  /\ UNCHANGED <<vars, closing, peerClosed, outbox, flushed, controls>>

\* The flush of our reply succeeds, or answers that the connection is closed, in
\* which case the reply may still be buffered: the receipt is the same.
ReplyEnds ==
  /\ place = "reply"
  /\ Stop("Closed")
  /\ UNCHANGED wsVars

\* shutdown.changed(): close was called, or the Session and its watch are gone.
BeginClose ==
  /\ Selecting /\ ~closing
  /\ shutdown \/ owner = "gone"
  /\ closing' = TRUE
  /\ place' = "closeFrame" /\ outbox' = outbox \cup {"close"}
  /\ UNCHANGED <<vars, peerClosed, flushed, controls>>

CloseFrameSent ==
  /\ Looping /\ place = "closeFrame" /\ Flushed
  /\ place' = "select"
  /\ UNCHANGED <<vars, closing, peerClosed, outbox, flushed, controls>>

\* One of these three flushes fails or exceeds the operation timeout.
FlushFails ==
  /\ place \in {"control", "reply", "closeFrame"}
  /\ Stop("Failed")
  /\ UNCHANGED wsVars

\* The peer does not answer the close frame in time.
HandshakeExpires ==
  /\ Selecting /\ closing
  /\ Stop("Failed")
  /\ UNCHANGED wsVars

\* The network takes a buffered frame.
SocketWrites ==
  /\ task = "running"
  /\ \E f \in outbox : outbox' = outbox \ {f} /\ flushed' = flushed \cup {f}
  /\ UNCHANGED <<vars, place, closing, peerClosed, controls>>
-----------------------------------------------------------------------------
WebSocketStep ==
  \/ \E c \in Call : TakeCommandWs(c) \/ FrameWritten(c)
  \/ EndHandshaken \/ FlushExpires \/ WriteFails \/ CommandsEnded
  \/ ReadStep \/ ControlFlushed \/ ReplyEnds \/ BeginClose \/ CloseFrameSent
  \/ FlushFails \/ HandshakeExpires \/ SocketWrites

\* What NativeSession says of everyone but the loop of the driver.
SessionStep == CallerStep \/ Continue \/ TakeAbort \/ Abandon \/ Unwind \/ OwnerStep

WebSocketNext ==
  \/ WebSocketStep
  \/ (SessionStep \/ Terminating) /\ UNCHANGED wsVars

WebSocketSpec == WebSocketInit /\ [][WebSocketNext]_<<vars, wsVars>>
-----------------------------------------------------------------------------
\* A WebSocketFlushed receipt is published only for a frame that left the buffer,
\* although the same task reads and answers other frames while it writes it.
ReceiptIsFlushed == \A c \in Call : response[c] = "receipt" => c \in flushed

\* A WebSocketHandshake receipt of close: the peer's close frame was read and every
\* command handed to the socket was answered, also when the peer's frame arrived
\* while one was being written.  Our own close frame was written when we began the
\* close and when the peer's came during such a write; when it came otherwise, the
\* connection may be closed under our reply.
HandshakeComplete ==
  result = "Closed" =>
    /\ peerClosed
    /\ closing \/ place = "handshaken" => "close" \in flushed
    /\ \A c \in submitted : response[c] = "receipt"
=============================================================================
