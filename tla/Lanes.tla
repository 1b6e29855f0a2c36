------------------------------- MODULE Lanes --------------------------------
(***************************************************************************)
(* The TypeScript engine's lanes together: an invocation of any operation, *)
(* from its reference to its end, over each protocol, against a caller     *)
(* that writes, finishes or cancels when it likes and peers that answer,   *)
(* fail or fall silent when they like.                                     *)
(***************************************************************************)
EXTENDS WsLane, HttpLane, KafkaLane, MqttLane

lanesVars == <<vars, mqttVars>>

LanesInit == Init /\ MqttInit

(* FeedReads is the loop over inputs() of every lane but HTTP's.           *)
OwnStep == BindingStep \/ FeedReads \/ PumpEmits \/ WsRuns \/ HttpRuns

LanesNext ==
  \/ /\ OwnStep \/ CallerStep \/ WsPeer \/ HttpPeer \/ KafkaRuns \/ KafkaPeer
     /\ UNCHANGED mqttVars
  \/ MqttRuns \/ MqttPeer

LanesSpec == LanesInit /\ [][LanesNext]_lanesVars

(* The engine's own code runs on, through the hooks that it awaits, and a  *)
(* fetch that was aborted is rejected.  No peer owes anything else, and the*)
(* clients of Kafka and MQTT, whose calls a driver awaits, owe nothing.    *)
Aborted == ~Alive /\ (HttpFetchFails /\ UNCHANGED mqttVars)
Fairness ==
  /\ WF_lanesVars(OwnStep /\ UNCHANGED mqttVars)
  /\ WF_lanesVars(Aborted)

LanesFairSpec == LanesSpec /\ Fairness

(***************************************************************************)
(* Properties                                                              *)
(***************************************************************************)

(* runBinding: an operation that the document or the configuration makes   *)
(* impossible is refused before any connection, and, unless it is its      *)
(* address or later that is at fault, before any input is taken.           *)
ImpossibleNeverDials ==
  facts.objections # {} =>
    /\ cell \notin Mqtt => conn = "none"    \* siblings dial as they like
    /\ main \in {"start", "addressing", "dispatch", "finished"}
    /\ sent = <<>> /\ held = 0 /\ ended # "closed"
    /\ Objects(EarlyObjections(cell)) => taken = 0

(* A publish that ends well published: every input that was accepted is on *)
(* the wire, in order and once, and there was one.  A WebSocket publish    *)
(* whose address came from an input is excepted: that input is lost.       *)
SuccessIsEarned ==
  /\ ended = "closed"
  /\ cell \in {"httpIn", "wsIn", "kafkaIn", "mqttIn"}
  /\ cell = "wsIn" => ~prepared
  =>
    /\ sent # <<>>
    /\ sent = [n \in 1..Len(sent) |-> n]
    /\ cell # "httpIn" => Len(sent) = given

(* Drain before terminal: outputs are the frames in order, and unless the  *)
(* caller left, or a frame could not be decoded, all that was buffered is  *)
(* emitted before the invocation ends, well or not.  An MQTT subscription  *)
(* passes over a frame that it could not deliver, and its outputs go on in *)
(* order after that gap until it fails.  Neither ends well.                *)
DrainBeforeTerminal ==
  /\ IF failed
     THEN /\ \A i \in 1..Len(emitted) : emitted[i] \in 1..Len(arrived)
          /\ \A i, j \in 1..Len(emitted) : i < j => emitted[i] < emitted[j]
     ELSE IsPrefix(emitted, arrived)
  /\ ended \in {"closed", "streamError"} /\ cell \in {"wsOut", "httpIn"} => emitted = arrived
  /\ ended = "closed" => trouble = "none" /\ ~failed

(* What a lane reports of itself is earned, be it a refusal, a success or  *)
(* an end.                                                                 *)
OutcomesAreEarned == ImpossibleNeverDials /\ SuccessIsEarned /\ DrainBeforeTerminal

(* References are returned when a lane is over; a shared MQTT connection   *)
(* counts its users, and is never ended under one of them.                 *)
ConnectionsShared ==
  /\ main = "finished" => held = 0 /\ ~listed
  /\ conn = "ended" => siblings = 0 /\ held = 0
  /\ pooled => users = siblings + waiting
                         + (IF cell \in Mqtt /\ main \in {"acquiring", "running"} THEN 1 ELSE 0)

(* An HTTP or WebSocket invocation that ended lets go of what it held,     *)
(* whatever it was doing and whatever its peer does.  A call of a Kafka or *)
(* MQTT client that a driver awaits may hang.                              *)
EndedLanesFinish ==
  (~Alive /\ cell \notin External) ~> (main = "finished" /\ held = 0)
=============================================================================
