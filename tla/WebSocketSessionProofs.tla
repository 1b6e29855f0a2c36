------------------------ MODULE WebSocketSessionProofs ------------------------
(***************************************************************************)
(* The WebSocket session implements the abstract session: every step of    *)
(* its task is a step of NativeSession's driver, and every step of the     *)
(* socket alone leaves the session as it is.                               *)
(***************************************************************************)
EXTENDS WebSocketSession, NativeSessionProofs

\* What run does with commands.
LEMMA CommandSteps ==
  ASSUME \/ \E c \in Call : TakeCommandWs(c) \/ FrameWritten(c)
         \/ EndHandshaken \/ FlushExpires \/ WriteFails \/ CommandsEnded
  PROVE  [Next]_vars
<1>1. ASSUME NEW c \in Call, TakeCommandWs(c) PROVE Next
  <2>1. TakeCommand(c)
    BY <1>1 DEF TakeCommandWs, TakeCommand
  <2> QED
    BY <2>1 DEF DriverStep, Next
<1>2. ASSUME NEW c \in Call, FrameWritten(c) PROVE Next
  BY <1>2 DEF FrameWritten, DriverStep, Next
<1>3. CASE EndHandshaken \/ FlushExpires \/ WriteFails \/ CommandsEnded
  <2>1. Stop("Closed") \/ Stop("Failed") \/ Stop("FailedUnknown")
    BY <1>3 DEF EndHandshaken, FlushExpires, WriteFails, CommandsEnded, StopExpired
  <2> QED
    BY <2>1 DEF DriverStep, Next
<1> QED
  BY <1>1, <1>2, <1>3

\* What run does with the frames it reads.
LEMMA ReadSteps ==
  ASSUME ReadStep
  PROVE  [Next]_vars
<1>1. ASSUME NEW m \in Arrival, ReadArrival(m) PROVE Next
  BY <1>1 DEF ReadArrival, DriverStep, Next
<1>2. CASE ReadControl \/ ReadClose
  BY <1>2 DEF ReadControl, ReadClose
<1>3. CASE ReadFails
  <2>1. Stop("Failed") \/ Stop("FailedUnknown")
    BY <1>3 DEF ReadFails
  <2> QED
    BY <2>1 DEF DriverStep, Next
<1> QED
  BY <1>1, <1>2, <1>3 DEF ReadStep

\* The flushes that run waits for alone, closing, and the socket.
LEMMA FlushSteps ==
  ASSUME \/ ControlFlushed \/ ReplyEnds \/ BeginClose \/ CloseFrameSent
         \/ FlushFails \/ HandshakeExpires \/ SocketWrites
  PROVE  [Next]_vars
<1>1. CASE ControlFlushed \/ BeginClose \/ CloseFrameSent \/ SocketWrites
  BY <1>1 DEF ControlFlushed, BeginClose, CloseFrameSent, SocketWrites
<1>2. CASE ReplyEnds \/ FlushFails \/ HandshakeExpires
  <2>1. Stop("Closed") \/ Stop("Failed")
    BY <1>2 DEF ReplyEnds, FlushFails, HandshakeExpires
  <2> QED
    BY <2>1 DEF DriverStep, Next
<1> QED
  BY <1>1, <1>2

LEMMA StepRefinesSession ==
  ASSUME [WebSocketNext]_<<vars, wsVars>>
  PROVE  [Next]_vars
<1>1. CASE WebSocketStep
  BY <1>1, CommandSteps, ReadSteps, FlushSteps DEF WebSocketStep
<1>2. CASE SessionStep \/ Terminating
  BY <1>2 DEF SessionStep, DriverStep, Next
<1>3. CASE UNCHANGED <<vars, wsVars>>
  BY <1>3
<1> QED
  BY <1>1, <1>2, <1>3 DEF WebSocketNext

\* Whatever the peer and the network do, a WebSocket session is a session.
THEOREM WebSocketImplementsSession == WebSocketSpec => Spec
<1>1. WebSocketInit => Init
  BY DEF WebSocketInit
<1> QED
  BY <1>1, StepRefinesSession, PTL DEF WebSocketSpec, Spec

\* So what send returns over a WebSocket is true of what was handed to the socket,
\* and no path of its driver leaks or returns capacity twice.
THEOREM WebSocketOutcomes == WebSocketSpec => []OutcomeHonest /\ []LeaseFollowsBody
BY WebSocketImplementsSession, OutcomesHonest, LeasesFollowBodies, PTL

(***************************************************************************)
(* Receipts and the closing handshake.                                     *)
(***************************************************************************)

\* Where every submitted command is, and how far its frame.
FramesFollow ==
  /\ \A c \in pending : c \in outbox \cup flushed
  /\ \A c \in Call : <<c, "receipt">> \in completing => c \in flushed
  /\ \A p, q \in completing : p = q
  /\ ReceiptIsFlushed
  /\ \A c \in submitted :
       \/ c \in pending \/ <<c, "receipt">> \in completing
       \/ response[c] = "receipt"
       \/ response[c] = "dropped" /\ result \notin {"none", "Closed"}

\* How far the handshake is, by the place of run.
HandshakeFollows ==
  /\ task = "running" => (place = "sending" <=> pending # {})
  /\ peerClosed => "close" \in outbox \cup flushed
  /\ place \in {"reply", "handshaken"} => peerClosed
  /\ place = "handshaken" => outbox = {}
  /\ closing => "close" \in flushed \/ (place = "closeFrame" /\ "close" \in outbox)
  /\ result = "Closed" =>
       pending = {} /\ completing = {} /\ place \in {"reply", "handshaken"}

SocketInv == FramesFollow /\ HandshakeFollows

\* Steps of others, and ends of run that are not graceful.
LEMMA SocketFrame ==
  ASSUME SocketInv, UNCHANGED <<response, pending, completing, submitted, wsVars>>,
         task' = "running" => task = "running",
         result' = result \/ result' \in {"Failed", "FailedUnknown", "abandoned"}
  PROVE  SocketInv'
BY DEF SocketInv, FramesFollow, HandshakeFollows, ReceiptIsFlushed, wsVars

LEMMA SocketStop ==
  ASSUME SocketInv, UNCHANGED wsVars, NEW r \in {"Failed", "FailedUnknown", "abandoned"},
         Stop(r)
  PROVE  SocketInv'
BY SocketFrame DEF Stop, callVars, driverVars

\* The graceful ends.
LEMMA SocketEnd ==
  ASSUME SocketInv, OutcomeInv, UNCHANGED wsVars, Stop("Closed"),
         place \in {"reply", "handshaken"}
  PROVE  SocketInv'
<1>1. pending = {} /\ completing = {} /\ result = "none"
  BY DEF SocketInv, HandshakeFollows, OutcomeInv, SessionTypeOK, Stop, Looping
<1>2. UNCHANGED <<response, pending, completing, submitted, wsVars>>
      /\ task' = "leaving" /\ result' = "Closed"
  BY DEF Stop, callVars, driverVars
<1>3. \A c \in submitted : response[c] = "receipt"
  BY <1>1 DEF SocketInv, FramesFollow
<1> QED
  BY <1>1, <1>2, <1>3
     DEF SocketInv, FramesFollow, HandshakeFollows, ReceiptIsFlushed, wsVars

LEMMA SocketSession ==
  ASSUME SocketInv, OutcomeInv, SessionStep \/ Terminating, UNCHANGED wsVars
  PROVE  SocketInv'
<1> USE DEF callVars, commandVars, driverVars, eventVars, ownerVars, taskVars
<1>1. CASE CallerStep
  BY <1>1, SocketFrame
     DEF CallerStep, SendStep, Cancel, Expire, Enter, RefuseClosed, RefuseInput, Reserve,
         RefuseAdmission, Enqueue, RefuseCommand, TakeResponse, LoseResponse, FailUnknown
<1>2. ASSUME NEW c \in Call, NEW r \in {"receipt", "error"}, Respond(c, r)
      PROVE  SocketInv'
  <2>1. response' = [response EXCEPT ![c] = r] /\ completing' = {} /\ <<c, r>> \in completing
        /\ UNCHANGED <<pending, submitted, task, result, wsVars>>
    BY <1>2 DEF Respond
  <2>2. completing = {<<c, r>>}
    BY <2>1 DEF SocketInv, FramesFollow
  <2>3. \A d \in Call : response'[d] = IF d = c THEN r ELSE response[d]
    BY <2>1 DEF OutcomeInv, SessionTypeOK
  <2>4. r = "error" => c \notin submitted
    BY <2>1 DEF OutcomeInv, CommandPlacement
  <2>5. submitted \subseteq Call /\ pending \subseteq Call
    BY DEF OutcomeInv, SessionTypeOK
  <2>6. \A d \in Call : response'[d] = "receipt" => d \in flushed
    BY <2>1, <2>2, <2>3 DEF SocketInv, FramesFollow, ReceiptIsFlushed
  <2>7. \A d \in submitted :
          \/ d \in pending \/ response'[d] = "receipt"
          \/ response'[d] = "dropped" /\ result \notin {"none", "Closed"}
    <3> SUFFICES ASSUME NEW d \in submitted
        PROVE \/ d \in pending \/ response'[d] = "receipt"
              \/ response'[d] = "dropped" /\ result \notin {"none", "Closed"}
      OBVIOUS
    <3>1. CASE d = c
      BY <3>1, <1>2, <2>3, <2>4, <2>5
    <3>2. CASE d # c
      BY <3>2, <2>2, <2>3, <2>5 DEF SocketInv, FramesFollow
    <3> QED
      BY <3>1, <3>2
  <2> QED
    BY <2>1, <2>6, <2>7
       DEF SocketInv, FramesFollow, HandshakeFollows, ReceiptIsFlushed, wsVars
<1>3. ASSUME NEW m \in Arrival, EnqueueArrival(m) \/ LoseArrival(m) PROVE SocketInv'
  BY <1>3, SocketFrame DEF EnqueueArrival, LoseArrival
<1>4. CASE TakeAbort \/ Abandon
  BY <1>4, SocketStop DEF TakeAbort, Abandon
<1>5. ASSUME NEW c \in Call, DropPending(c) PROVE SocketInv'
  <2>1. result # "Closed" /\ result # "none" /\ task = "leaving"
    BY <1>5 DEF DropPending, SocketInv, HandshakeFollows, OutcomeInv, SessionTypeOK
  <2> QED
    BY <1>5, <2>1
       DEF DropPending, SocketInv, FramesFollow, HandshakeFollows, ReceiptIsFlushed,
           wsVars, OutcomeInv, SessionTypeOK, CommandPlacement
<1>6. ASSUME NEW c \in Call, DrainCommand(c) PROVE SocketInv'
  <2>1. c \notin submitted /\ task = "leaving"
    BY <1>6, TailRange DEF DrainCommand, OutcomeInv, CommandPlacement, SessionTypeOK
  <2> QED
    BY <1>6, <2>1
       DEF DrainCommand, SocketInv, FramesFollow, HandshakeFollows, ReceiptIsFlushed,
           wsVars, OutcomeInv, SessionTypeOK
<1>7. CASE CloseCommands \/ CloseEvents \/ Publish \/ Guard \/ GuardPublish
  BY <1>7, SocketFrame DEF CloseCommands, CloseEvents, Publish, Guard, GuardPublish
<1>8. CASE OwnerStep
  BY <1>8, SocketFrame
     DEF OwnerStep, Next_Message, DiscardEvent, Next_End, Close, CloseJoined,
         CloseTimeout, CloseAbort, Reap, DropSession, DropAbort, DropReaping
<1>9. CASE Terminating
  BY <1>9, SocketFrame DEF Terminating, vars
<1> QED
  BY <1>1, <1>2, <1>3, <1>4, <1>5, <1>6, <1>7, <1>8, <1>9
     DEF SessionStep, Continue, Unwind

\* run takes a command: only a submitted one makes a frame.
LEMMA SocketTakes ==
  ASSUME SocketInv, OutcomeInv, NEW c \in Call, TakeCommandWs(c)
  PROVE  SocketInv'
<1> USE DEF callVars, driverVars, taskVars
<1>0. /\ pending = {} /\ completing = {} /\ task = "running" /\ result = "none"
      /\ place = "select" /\ c \notin submitted
  BY TailRange
     DEF TakeCommandWs, Selecting, Looping, SkipCancelled, RejectExpired, RefuseSubmit,
         Submit, Recv, SocketInv, HandshakeFollows, OutcomeInv, SessionTypeOK,
         CommandPlacement
<1>1. CASE SkipCancelled(c) /\ UNCHANGED wsVars
  BY <1>1, SocketFrame DEF SkipCancelled
<1>2. CASE RejectExpired(c) /\ UNCHANGED wsVars
  BY <1>0, <1>2
     DEF RejectExpired, SocketInv, FramesFollow, HandshakeFollows, ReceiptIsFlushed, wsVars
<1>3. CASE RefuseSubmit(c) /\ UNCHANGED wsVars
  <2>1. /\ response' = [response EXCEPT ![c] = "dropped"]
        /\ UNCHANGED <<pending, completing, submitted, wsVars>>
        /\ task' = "leaving" /\ result' = "Failed"
    BY <1>3 DEF RefuseSubmit
  <2>2. submitted \subseteq Call
        /\ \A d \in Call : response'[d] = IF d = c THEN "dropped" ELSE response[d]
    BY <2>1 DEF OutcomeInv, SessionTypeOK
  <2> QED
    BY <1>0, <2>1, <2>2
       DEF SocketInv, FramesFollow, HandshakeFollows, ReceiptIsFlushed, wsVars
<1>4. CASE Submit(c) /\ place' = "sending" /\ outbox' = outbox \cup {c}
           /\ UNCHANGED <<closing, peerClosed, flushed, controls>>
  BY <1>0, <1>4
     DEF Submit, SocketInv, FramesFollow, HandshakeFollows, ReceiptIsFlushed
<1> QED
  BY <1>1, <1>2, <1>3, <1>4 DEF TakeCommandWs

\* The frame of a command is out: nothing else was submitted meanwhile.
LEMMA SocketWritten ==
  ASSUME SocketInv, OutcomeInv, NEW c \in Call, FrameWritten(c)
  PROVE  SocketInv'
<1>1. /\ completing = {} /\ pending' = {} /\ completing' = {<<c, "receipt">>}
      /\ UNCHANGED <<response, submitted, task, result, closing, peerClosed, outbox,
                     flushed, controls>>
      /\ task = "running" /\ result = "none" /\ outbox = {}
  BY DEF FrameWritten, Complete, Looping, Flushed, callVars, taskVars, OutcomeInv,
         SessionTypeOK
<1>2. pending = {c} /\ c \in flushed
  BY <1>1 DEF FrameWritten, Complete, OutcomeInv, CommandPlacement, SocketInv, FramesFollow
<1>3. place' = IF peerClosed THEN "handshaken" ELSE "select"
  BY DEF FrameWritten
<1>4. FramesFollow'
  BY <1>1, <1>2 DEF SocketInv, FramesFollow, ReceiptIsFlushed
<1>5. HandshakeFollows'
  BY <1>1, <1>2, <1>3 DEF SocketInv, HandshakeFollows
<1> QED
  BY <1>4, <1>5 DEF SocketInv

\* What changes no variable of the session.
LEMMA SocketAlone ==
  ASSUME SocketInv, UNCHANGED vars,
         ReadControl \/ ReadClose \/ ControlFlushed \/ BeginClose \/ CloseFrameSent
           \/ SocketWrites
  PROVE  SocketInv'
<1>1. UNCHANGED <<response, pending, completing, submitted, task, result>>
  BY DEF vars, callVars, driverVars, taskVars
<1>2. FramesFollow'
  BY <1>1
     DEF SocketInv, FramesFollow, ReceiptIsFlushed, ReadControl, ReadClose, ControlFlushed,
         BeginClose, CloseFrameSent, SocketWrites
<1>3. HandshakeFollows'
  <2> USE <1>1 DEF SocketInv, HandshakeFollows, Selecting, Looping, Reading
  <2>1. CASE ReadControl
    BY <2>1 DEF ReadControl
  <2>2. CASE ReadClose
    BY <2>2 DEF ReadClose
  <2>3. CASE ControlFlushed
    BY <2>3 DEF ControlFlushed
  <2>4. CASE BeginClose
    BY <2>4 DEF BeginClose
  <2>5. CASE CloseFrameSent
    BY <2>5 DEF CloseFrameSent, Flushed
  <2>6. CASE SocketWrites
    BY <2>6 DEF SocketWrites
  <2> QED
    BY <2>1, <2>2, <2>3, <2>4, <2>5, <2>6
<1> QED
  BY <1>2, <1>3 DEF SocketInv

LEMMA SocketStep ==
  ASSUME SocketInv, OutcomeInv, WebSocketStep
  PROVE  SocketInv'
<1>1. ASSUME NEW c \in Call, TakeCommandWs(c) \/ FrameWritten(c) PROVE SocketInv'
  BY <1>1, SocketTakes, SocketWritten
<1>2. CASE EndHandshaken
  BY <1>2, SocketEnd DEF EndHandshaken
<1>3. CASE FlushExpires \/ WriteFails \/ CommandsEnded \/ ReadFails \/ FlushFails
           \/ HandshakeExpires
  BY <1>3, SocketStop
     DEF FlushExpires, StopExpired, WriteFails, CommandsEnded, ReadFails, FlushFails,
         HandshakeExpires
<1>4. ASSUME NEW m \in Arrival, ReadArrival(m) PROVE SocketInv'
  BY <1>4, SocketFrame
     DEF ReadArrival, ReserveArrival, RefuseArrival, callVars, driverVars, taskVars
<1>5. CASE ReplyEnds
  BY <1>5, SocketEnd DEF ReplyEnds
<1>6. CASE ReadControl \/ ReadClose \/ ControlFlushed \/ BeginClose \/ CloseFrameSent
           \/ SocketWrites
  BY <1>6, SocketAlone
     DEF ReadControl, ReadClose, ControlFlushed, BeginClose, CloseFrameSent, SocketWrites
<1> QED
  BY <1>1, <1>2, <1>3, <1>4, <1>5, <1>6 DEF WebSocketStep, ReadStep

LEMMA SocketInvariant == WebSocketSpec => []SocketInv
<1>1. WebSocketInit => SocketInv
  BY DEF WebSocketInit, Init, SocketInv, FramesFollow, HandshakeFollows, ReceiptIsFlushed
<1>2. SocketInv /\ OutcomeInv /\ [WebSocketNext]_<<vars, wsVars>> => SocketInv'
  <2> SUFFICES ASSUME SocketInv, OutcomeInv, [WebSocketNext]_<<vars, wsVars>>
      PROVE SocketInv'
    OBVIOUS
  <2>1. CASE UNCHANGED <<vars, wsVars>>
    BY <2>1, SocketFrame DEF vars, callVars, driverVars, taskVars
  <2> QED
    BY <2>1, SocketStep, SocketSession DEF WebSocketNext
<1> QED
  BY <1>1, <1>2, WebSocketImplementsSession, OutcomeInvariant, PTL DEF WebSocketSpec

\* ReceiptIsFlushed: a WebSocketFlushed receipt names a frame that left the buffer.
THEOREM ReceiptsFlushed == WebSocketSpec => []ReceiptIsFlushed
<1>1. SocketInv => ReceiptIsFlushed
  BY DEF SocketInv, FramesFollow
<1> QED
  BY <1>1, SocketInvariant, PTL

\* HandshakeComplete: a WebSocketHandshake receipt means that the peer's close frame
\* was read and no command that was handed to the socket was left unanswered; ours
\* was written if we began the close or the peer's came while a command was written.
THEOREM HandshakesComplete == WebSocketSpec => []HandshakeComplete
<1>1. SocketInv => HandshakeComplete
  BY DEF SocketInv, FramesFollow, HandshakeFollows, HandshakeComplete
<1> QED
  BY <1>1, SocketInvariant, PTL
=============================================================================
