----------------------------- MODULE MqttSession -----------------------------
(***************************************************************************)
(* A native session over MQTT 3.1.1: rust/native/src/mqtt.rs driving the   *)
(* vendored event loop (rust/vendor/rumqttc-v4-next, with its LOCAL.patch) *)
(* against a broker.  Each step of the task is a step of NativeSession's   *)
(* driver, with the MQTT state saying when it is taken, or a step of the   *)
(* MQTT state alone.                                                       *)
(*                                                                         *)
(* run() and EventLoop::poll are one task: while poll waits, in its select *)
(* or for a flush, run also looks at the deadline, the shutdown and the    *)
(* commands; while poll computes it does not.                              *)
(*                                                                         *)
(* The broker is external.  It answers what it received, in any order and  *)
(* with any delay, repeats a PUBREC and a QoS 2 PUBLISH before its         *)
(* exchange moves on, acknowledges what it never received or with the      *)
(* wrong packet, and may fall silent or drop the connection.               *)
(***************************************************************************)
EXTENDS NativeSession

CONSTANTS Qos,         \* the QoS of each call and of each arrival
          InboundId,   \* the packet identifier the broker gives an arrival
          MaxInflight, \* MqttState.max_inflight, the largest publish identifier
          MaxRepeats   \* bound: packets the broker repeats or makes up

ASSUME QosInRange == Qos \in [Call \cup Arrival -> 0 .. 2]

ASSUME InboundIdInRange == InboundId \in [Arrival -> Nat \ {0}]

ASSUME MaxInflightPositive == MaxInflight \in Nat \ {0}

ASSUME MaxRepeatsIsNat == MaxRepeats \in Nat

VARIABLES
  closing,       \* run's local of that name
  packetId,      \* Pending.packet_id, 0 for None
  pubrecSeen,    \* Pending.pubrec_seen
  publishing,    \* the client's publish channel: a command not yet a packet
  disconnecting, \* the disconnect: "no", "asked" of the client, "draining", "sent"
  phase,         \* poll is "waiting", "reading" a batch, or "flushing"
  queue,         \* MqttState.events
  written,       \* the packets written since the last flush
  lastPkid, lastPuback, pubAck, \* MqttState's fields of these names
  outPub, outRel,               \* <<id, command>>: outgoing_pub, outgoing_rel
  incomingPub,                  \* incoming_pub and incoming_pubrec
  observed,      \* history: the arrivals forwarded as events
  inbound,       \* packets on their way from the broker
  exchange,      \* <<id, command, stage>>: what the broker knows of a publish
  outbound,      \* how far the broker is with each arrival
  acked,         \* history: the commands the broker has acknowledged
  repeats        \* how many packets it has repeated or made up

runVars == <<closing, packetId, pubrecSeen>>
loopVars == <<publishing, disconnecting, phase>>
pkidVars == <<lastPkid, lastPuback, pubAck>>
stateVars == <<pkidVars, outPub, outRel, incomingPub, observed>>
brokerVars == <<exchange, outbound, acked, repeats>>
mqttVars == <<runVars, loopVars, queue, written, stateVars, inbound, brokerVars>>

Id == 1 .. MaxInflight
NoId == 0
UnusedId == MaxInflight + 1

\* A packet is <<kind, identifier>>; a PUBLISH also names its body.  Events are
\* the packets forwarded, <<"sent", id>> and <<"disconnect", 0>>.
Message(m) == <<"publish", InboundId[m], m>>

MqttTypeOK ==
  /\ closing \in BOOLEAN
  /\ packetId \in {NoId} \cup Id
  /\ pubrecSeen \in BOOLEAN
  /\ publishing \subseteq Call
  /\ disconnecting \in {"no", "asked", "draining", "sent"}
  /\ phase \in {"waiting", "reading", "flushing"}
  /\ lastPkid \in 0 .. MaxInflight
  /\ lastPuback \in 0 .. MaxInflight
  /\ pubAck \subseteq Id
  /\ outPub \subseteq Id \X Call
  /\ outRel \subseteq Id \X Call
  /\ incomingPub \subseteq Range(InboundId)
  /\ observed \in Seq(Arrival)
  /\ repeats \in 0 .. MaxRepeats

\* A session is open once CONNECT, and SUBSCRIBE if anything is received, were
\* acknowledged; a subscription has used the first identifier.
MqttInit ==
  /\ Init
  /\ closing = FALSE /\ packetId = NoId /\ pubrecSeen = FALSE
  /\ publishing = {} /\ disconnecting = "no" /\ phase = "waiting"
  /\ queue = <<>> /\ written = {}
  /\ lastPkid = (IF Arrival = {} THEN 0 ELSE 1)
  /\ lastPuback = (IF Arrival = {} THEN 0 ELSE 1)
  /\ pubAck = {}
  /\ outPub = {} /\ outRel = {} /\ incomingPub = {}
  /\ observed = <<>>
  /\ inbound = <<>>
  /\ exchange = {} /\ outbound = [m \in Arrival |-> "new"]
  /\ acked = {} /\ repeats = 0
-----------------------------------------------------------------------------
(* The pending command and the client's channels.                           *)

\* run's select looks at the deadline, the shutdown and the commands.
Attentive == Looping /\ phase # "reading"

TakeCommandMqtt(c) ==
  /\ Attentive /\ ~closing
  /\ \/ SkipCancelled(c) /\ UNCHANGED mqttVars
     \/ RejectExpired(c) /\ UNCHANGED mqttVars
     \/ /\ Submit(c)
        /\ publishing' = {c}
        /\ packetId' = NoId /\ pubrecSeen' = FALSE
        /\ UNCHANGED <<closing, disconnecting, phase, queue, written, stateVars,
                       inbound, brokerVars>>

\* shutdown.changed(): close was called, or the Session and its watch are gone.
BeginClose ==
  /\ Attentive /\ ~closing
  /\ shutdown \/ owner = "gone"
  /\ closing' = TRUE /\ disconnecting' = "asked"
  /\ UNCHANGED <<vars, packetId, pubrecSeen, publishing, phase, queue, written,
                 stateVars, inbound, brokerVars>>

\* commands.recv() returns None: the Session and every clone of its Sender are
\* gone.
CommandsEnded ==
  /\ Attentive /\ ~closing
  /\ owner = "gone" /\ pending = {} /\ commands = <<>>
  /\ \A c \in Call : call[c] \in {"idle"} \cup Settled
  /\ Stop("Failed")
  /\ UNCHANGED mqttVars

\* Mutant of DeadlinePasses: while closing, only the event loop is waited for.
DeadlineUnlessClosing ==
  /\ Attentive /\ ~closing
  /\ StopExpired
  /\ UNCHANGED mqttVars

DeadlinePasses ==
  /\ Attentive
  /\ StopExpired
  /\ UNCHANGED mqttVars
-----------------------------------------------------------------------------
(* EventLoop::select.                                                       *)

\* flush_network, before the events of what was written are returned.
AwaitFlush == phase' = "flushing"

InUse == {p[1] : p \in outPub \cup outRel}

\* The k-th identifier after last_pkid, in a circle.
After(k) == ((lastPkid + k - 1) % MaxInflight) + 1

\* next_publish_pkid: the first identifier after last_pkid that is free.
NextPkid(id) ==
  \E k \in 1 .. MaxInflight :
    /\ id = After(k) /\ id \notin InUse
    /\ \A j \in 1 .. k - 1 : After(j) \in InUse

\* A request or an event is looked at only when no event is left.
Idle == Looping /\ phase = "waiting" /\ queue = <<>>

\* handle_request of a PUBLISH.  Requests are admitted before the control
\* request that comes with them, so a disconnect never overtakes a publish.
AdmitPublish(c) ==
  /\ Idle /\ disconnecting \in {"no", "asked"}
  /\ c \in publishing
  /\ publishing' = {}
  /\ \/ /\ Qos[c] = 0
        /\ queue' = <<<<"sent", NoId>>>>
        /\ written' = {<<"publish", NoId, c>>}
        /\ UNCHANGED stateVars
     \/ /\ Qos[c] > 0
        /\ \E id \in Id :
             /\ NextPkid(id)
             /\ queue' = <<<<"sent", id>>>>
             /\ written' = {<<"publish", id, c>>}
             /\ outPub' = outPub \cup {<<id, c>>}
             /\ pubAck' = pubAck \ {id}
             /\ lastPkid' = IF id = MaxInflight THEN 0 ELSE id
        /\ UNCHANGED <<lastPuback, outRel, incomingPub, observed>>
  /\ AwaitFlush
  /\ UNCHANGED <<vars, runVars, disconnecting, inbound, brokerVars>>

\* Mutant of AdmitDisconnect: the control channel is served first.
DisconnectOvertakes ==
  /\ Idle /\ disconnecting = "asked"
  /\ disconnecting' = "draining"
  /\ UNCHANGED <<vars, runVars, publishing, phase, queue, written, stateVars,
                 inbound, brokerVars>>

\* handle_request of a DISCONNECT: from now on the loop only drains.
AdmitDisconnect ==
  /\ Idle /\ disconnecting = "asked" /\ publishing = {}
  /\ disconnecting' = "draining"
  /\ UNCHANGED <<vars, runVars, publishing, phase, queue, written, stateVars,
                 inbound, brokerVars>>

\* MqttState::outbound_requests_drained.
Drained == outPub = {} /\ outRel = {} /\ pubAck = {}

\* send_pending_disconnect; requests still in the channels are dropped.
SendDisconnect ==
  /\ Idle /\ disconnecting = "draining" /\ Drained
  /\ disconnecting' = "sent"
  /\ publishing' = {}
  /\ queue' = <<<<"disconnect", NoId>>>>
  /\ written' = {<<"disconnect", NoId>>}
  /\ AwaitFlush
  /\ UNCHANGED <<vars, runVars, stateVars, inbound, brokerVars>>

\* The flush reaches the broker, which knows of what was written from then on.
Flush ==
  /\ Looping /\ phase = "flushing"
  /\ phase' = "waiting" /\ written' = {}
  /\ exchange' =
       {IF x[3] = "received" /\ <<"pubrel", x[1]>> \in written
        THEN <<x[1], x[2], "released">> ELSE x : x \in exchange}
         \cup {<<p[2], p[3], "published">> :
                 p \in {q \in written : q[1] = "publish" /\ q[2] # NoId}}
  /\ outbound' =
       [m \in Arrival |->
          IF outbound[m] = "sent" /\ <<"pubrec", InboundId[m]>> \in written
          THEN "received"
          ELSE IF \/ outbound[m] = "sent" /\ <<"puback", InboundId[m]>> \in written
                  \/ outbound[m] = "released" /\ <<"pubcomp", InboundId[m]>> \in written
               THEN "done"
               ELSE outbound[m]]
  /\ acked' = acked \cup {c \in Call : <<"publish", NoId, c>> \in written}
  /\ UNCHANGED <<vars, runVars, publishing, disconnecting, queue, stateVars,
                 inbound, repeats>>

\* What a failed connection, a failed or late flush, a missed keep-alive answer
\* or a packet the state refuses makes run return.
ConnectionError == Stop(IF pending = {} THEN "Failed" ELSE "FailedUnknown")

\* The events queued by the batch being read or written are lost with it.
LoseConnection ==
  /\ Looping
  /\ phase # "waiting" \/ queue = <<>>
  /\ ConnectionError
  /\ UNCHANGED mqttVars
-----------------------------------------------------------------------------
(* Reading a batch: MqttState::handle_incoming_packet_with_effects.         *)

Reading(packet) ==
  /\ Looping
  /\ \/ phase = "reading"
     \/ /\ Idle /\ publishing = {}
        /\ disconnecting = "draining" => ~Drained
        /\ disconnecting \in {"no", "draining"}
  /\ inbound # <<>> /\ packet = Head(inbound)
  /\ inbound' = Tail(inbound)

\* mark_outgoing_packet_id_complete: the completed identifiers, and the last of
\* those without a gap before it.
FrontierEnd(acks) ==
  LET Nth(k) == ((lastPuback + k - 1) % MaxInflight) + 1
  IN  CHOOSE k \in 0 .. MaxInflight :
        /\ \A j \in 1 .. k : Nth(j) \in acks
        /\ k = MaxInflight \/ Nth(k + 1) \notin acks

MarkComplete(id) ==
  LET acks == pubAck \cup {id}
      k == FrontierEnd(acks)
      passed == {((lastPuback + j - 1) % MaxInflight) + 1 : j \in 1 .. k}
  IN  /\ pubAck' = acks \ passed
      /\ lastPuback' = IF k = 0 THEN lastPuback
                       ELSE ((lastPuback + k - 1) % MaxInflight) + 1

\* handle_incoming_puback.
PubAckRead(id, c) ==
  /\ Reading(<<"puback", id>>)
  /\ <<id, c>> \in outPub /\ Qos[c] = 1
  /\ outPub' = outPub \ {<<id, c>>}
  /\ MarkComplete(id)
  /\ queue' = Append(queue, <<"puback", id>>)
  /\ phase' = "reading"
  /\ UNCHANGED <<vars, runVars, publishing, disconnecting, written, lastPkid,
                 outRel, incomingPub, observed, brokerVars>>

\* handle_incoming_pubrec, the first one and a repeated one: both write PUBREL.
PubRecRead(id, c) ==
  /\ Reading(<<"pubrec", id>>)
  /\ \/ <<id, c>> \in outRel
     \/ <<id, c>> \in outPub /\ Qos[c] = 2
  /\ outPub' = outPub \ {<<id, c>>}
  /\ outRel' = outRel \cup {<<id, c>>}
  /\ written' = written \cup {<<"pubrel", id>>}
  /\ queue' = Append(queue, <<"pubrec", id>>)
  /\ phase' = "reading"
  /\ UNCHANGED <<vars, runVars, publishing, disconnecting, pkidVars,
                 incomingPub, observed, brokerVars>>

\* handle_incoming_pubcomp.
PubCompRead(id, c) ==
  /\ Reading(<<"pubcomp", id>>)
  /\ <<id, c>> \in outRel
  /\ outRel' = outRel \ {<<id, c>>}
  /\ MarkComplete(id)
  /\ queue' = Append(queue, <<"pubcomp", id>>)
  /\ phase' = "reading"
  /\ UNCHANGED <<vars, runVars, publishing, disconnecting, written, lastPkid,
                 outPub, incomingPub, observed, brokerVars>>

\* The answer to an arrival, by its QoS.
Answer(m) ==
  IF Qos[m] = 0 THEN {}
  ELSE {<<IF Qos[m] = 1 THEN "puback" ELSE "pubrec", InboundId[m]>>}

\* Mutant of PublishRead: every PUBLISH is forwarded.
PublishReadForwarding(m) ==
  /\ Reading(Message(m))
  /\ queue' = Append(queue, Message(m))
  /\ observed' = Append(observed, m)
  /\ written' = written \cup Answer(m)
  /\ incomingPub' = IF Qos[m] = 2 THEN incomingPub \cup {InboundId[m]} ELSE incomingPub
  /\ phase' = "reading"
  /\ UNCHANGED <<vars, runVars, publishing, disconnecting, pkidVars, outPub,
                 outRel, brokerVars>>

\* handle_incoming_publish; a QoS 2 publish whose identifier awaits its PUBREL is
\* answered again and not forwarded.
PublishRead(m) ==
  /\ Reading(Message(m))
  /\ IF Qos[m] = 2 /\ InboundId[m] \in incomingPub
     THEN UNCHANGED <<queue, observed>>
     ELSE /\ queue' = Append(queue, Message(m))
          /\ observed' = Append(observed, m)
  /\ written' = written \cup Answer(m)
  /\ incomingPub' = IF Qos[m] = 2 THEN incomingPub \cup {InboundId[m]} ELSE incomingPub
  /\ phase' = "reading"
  /\ UNCHANGED <<vars, runVars, publishing, disconnecting, pkidVars, outPub,
                 outRel, brokerVars>>

\* handle_incoming_pubrel.  An identifier is in incoming_pub exactly when it is in
\* incoming_pubrec, because acknowledgements are automatic.
PubRelRead(id) ==
  /\ Reading(<<"pubrel", id>>)
  /\ incomingPub' = incomingPub \ {id}
  /\ written' = written \cup {<<"pubcomp", id>>}
  /\ phase' = "reading"
  /\ UNCHANGED <<vars, runVars, publishing, disconnecting, queue, pkidVars,
                 outPub, outRel, observed, brokerVars>>

\* An acknowledgement of nothing outstanding, or of another type than its
\* publish, ends the session.
Unsolicited(kind, id) ==
  /\ Reading(<<kind, id>>)
  /\ \/ kind = "puback" /\ \A c \in Call : <<id, c>> \in outPub => Qos[c] # 1
     \/ kind = "pubrec" /\ \A c \in Call : /\ <<id, c>> \notin outRel
                                           /\ <<id, c>> \in outPub => Qos[c] # 2
     \/ kind = "pubcomp" /\ \A c \in Call : <<id, c>> \notin outRel
  /\ ConnectionError
  /\ UNCHANGED <<runVars, loopVars, queue, written, stateVars, brokerVars>>

\* No further packet is ready, or the batch is full: complete_read_batch flushes.
EndRead ==
  /\ Looping /\ phase = "reading"
  /\ AwaitFlush
  /\ UNCHANGED <<vars, runVars, publishing, disconnecting, queue, written,
                 stateVars, inbound, brokerVars>>

ReadStep ==
  \/ \E id \in Id, c \in Call : PubAckRead(id, c) \/ PubRecRead(id, c) \/ PubCompRead(id, c)
  \/ \E m \in Arrival : PublishRead(m) \/ PubRelRead(InboundId[m])
  \/ \E kind \in {"puback", "pubrec", "pubcomp"}, id \in Id \cup {UnusedId} :
       Unsolicited(kind, id)
  \/ EndRead
-----------------------------------------------------------------------------
(* What run does with an event.                                             *)

Event(e) ==
  /\ Looping /\ phase = "waiting"
  /\ queue # <<>> /\ e = Head(queue)
  /\ queue' = Tail(queue)
  /\ UNCHANGED <<closing, loopVars, written, stateVars, inbound, brokerVars>>

\* Outgoing::Publish comes after the flush of its packet: it completes a QoS 0
\* command and names the identifier of another.
PublishSent(id) ==
  /\ Event(<<"sent", id>>)
  /\ UNCHANGED pubrecSeen
  /\ IF pending = {} THEN Stop("Failed") /\ UNCHANGED packetId
     ELSE \E c \in pending :
            IF Qos[c] = 0 THEN Complete(c) /\ UNCHANGED packetId
            ELSE packetId' = id /\ UNCHANGED vars

\* The pending command is the one that an acknowledgement answers.
Answers(kind, id) ==
  /\ pending # {} /\ packetId = id
  /\ \A c \in pending : Qos[c] = IF kind = "puback" THEN 1 ELSE 2
  /\ kind = "pubcomp" => pubrecSeen

\* PUBACK or PUBCOMP: the receipt, or an error that leaves delivery unknown.
Acknowledged(kind, id) ==
  /\ Event(<<kind, id>>)
  /\ UNCHANGED <<packetId, pubrecSeen>>
  /\ IF Answers(kind, id) THEN \E c \in pending : Complete(c)
     ELSE Stop("FailedUnknown")

\* Mutant of Received: the ownership transfer at PUBREC completes the command.
CompleteAtRec(id) ==
  /\ Event(<<"pubrec", id>>)
  /\ UNCHANGED packetId
  /\ IF Answers("pubrec", id) THEN pubrecSeen' = TRUE /\ \E c \in pending : Complete(c)
     ELSE Stop("FailedUnknown") /\ UNCHANGED pubrecSeen

\* PUBREC, the first or a repeated one, completes nothing.
Received(id) ==
  /\ Event(<<"pubrec", id>>)
  /\ UNCHANGED packetId
  /\ IF Answers("pubrec", id) THEN pubrecSeen' = TRUE /\ UNCHANGED vars
     ELSE Stop("FailedUnknown") /\ UNCHANGED pubrecSeen

\* deliver: the message is reserved for and queued, or ends the session because
\* no capacity is left or its topic or QoS is not what was granted.
Deliver(m) ==
  /\ Event(Message(m))
  /\ UNCHANGED <<packetId, pubrecSeen>>
  /\ ReserveArrival(m) \/ RefuseArrival(m) \/ Stop("Failed")

DisconnectSent ==
  /\ Event(<<"disconnect", NoId>>)
  /\ UNCHANGED <<packetId, pubrecSeen>>
  /\ Stop("Closed")

HandleEvent ==
  \/ \E id \in {NoId} \cup Id :
       \/ PublishSent(id) \/ Received(id)
       \/ \E kind \in {"puback", "pubcomp"} : Acknowledged(kind, id)
  \/ \E m \in Arrival : Deliver(m)
  \/ DisconnectSent
-----------------------------------------------------------------------------
(* The broker.                                                              *)

Send(packet) ==
  /\ task = "running"
  /\ inbound' = Append(inbound, packet)
  /\ UNCHANGED <<vars, runVars, loopVars, queue, written, stateVars>>

\* PUBACK of a QoS 1 publish, or the first PUBREC of a QoS 2 publish.
BrokerAnswers(id, c) ==
  /\ <<id, c, "published">> \in exchange
  /\ \/ /\ Qos[c] = 1
        /\ Send(<<"puback", id>>)
        /\ exchange' = exchange \ {<<id, c, "published">>}
        /\ acked' = acked \cup {c}
     \/ /\ Qos[c] = 2
        /\ Send(<<"pubrec", id>>)
        /\ exchange' = (exchange \ {<<id, c, "published">>}) \cup {<<id, c, "received">>}
        /\ UNCHANGED acked
  /\ UNCHANGED <<outbound, repeats>>

BrokerRepeatsRec(id, c) ==
  /\ <<id, c, "received">> \in exchange
  /\ repeats < MaxRepeats /\ repeats' = repeats + 1
  /\ Send(<<"pubrec", id>>)
  /\ UNCHANGED <<exchange, outbound, acked>>

BrokerCompletes(id, c) ==
  /\ <<id, c, "released">> \in exchange
  /\ Send(<<"pubcomp", id>>)
  /\ exchange' = exchange \ {<<id, c, "released">>}
  /\ acked' = acked \cup {c}
  /\ UNCHANGED <<outbound, repeats>>

\* An identifier is used again once its exchange is over.
BrokerPublishes(m) ==
  /\ outbound[m] = "new"
  /\ \A n \in Arrival : InboundId[n] = InboundId[m] => outbound[n] \in {"new", "done"}
  /\ Send(Message(m))
  /\ outbound' = [outbound EXCEPT ![m] = IF Qos[m] = 0 THEN "done" ELSE "sent"]
  /\ UNCHANGED <<exchange, acked, repeats>>

BrokerRepeatsPublish(m) ==
  /\ outbound[m] = "sent" /\ Qos[m] = 2
  /\ repeats < MaxRepeats /\ repeats' = repeats + 1
  /\ Send(Message(m))
  /\ UNCHANGED <<exchange, outbound, acked>>

BrokerReleases(m) ==
  /\ outbound[m] = "received"
  /\ Send(<<"pubrel", InboundId[m]>>)
  /\ outbound' = [outbound EXCEPT ![m] = "released"]
  /\ UNCHANGED <<exchange, acked, repeats>>

\* An acknowledgement of no publish, or not the one that a publish calls for.
BrokerStrays(kind, id) ==
  /\ \/ id = UnusedId
     \/ \E c \in Call : /\ <<id, c, "published">> \in exchange
                       /\ kind # IF Qos[c] = 1 THEN "puback" ELSE "pubrec"
  /\ repeats < MaxRepeats /\ repeats' = repeats + 1
  /\ Send(<<kind, id>>)
  /\ UNCHANGED <<exchange, outbound, acked>>

BrokerStep ==
  \/ \E id \in Id, c \in Call :
       BrokerAnswers(id, c) \/ BrokerRepeatsRec(id, c) \/ BrokerCompletes(id, c)
  \/ \E m \in Arrival :
       BrokerPublishes(m) \/ BrokerRepeatsPublish(m) \/ BrokerReleases(m)
  \/ \E kind \in {"puback", "pubrec", "pubcomp"}, id \in Id \cup {UnusedId} :
       BrokerStrays(kind, id)
-----------------------------------------------------------------------------
PollStep ==
  \/ \E c \in Call : AdmitPublish(c)
  \/ AdmitDisconnect \/ SendDisconnect \/ Flush \/ ReadStep \/ HandleEvent

MqttStep ==
  \/ \E c \in Call : TakeCommandMqtt(c)
  \/ BeginClose \/ CommandsEnded \/ DeadlinePasses
  \/ PollStep \/ LoseConnection \/ BrokerStep

\* What NativeSession says of everyone but the loop of the driver.
SessionStep == CallerStep \/ Continue \/ TakeAbort \/ Abandon \/ Unwind \/ OwnerStep

MqttNext ==
  \/ MqttStep
  \/ (SessionStep \/ Terminating) /\ UNCHANGED mqttVars

MqttSpec == MqttInit /\ [][MqttNext]_<<vars, mqttVars>>

\* run's select is fair to the branches that are ready, a flush ends within the
\* connection timeout, and deadlines pass.  The broker owes nothing.
MqttFairness ==
  /\ WF_<<vars, mqttVars>>(PollStep \/ (phase = "flushing" /\ LoseConnection))
  /\ WF_<<vars, mqttVars>>(BeginClose)
  /\ WF_<<vars, mqttVars>>(DeadlinePasses)
  /\ WF_<<vars, mqttVars>>(Continue /\ UNCHANGED mqttVars)
  /\ \A c \in Call : WF_<<vars, mqttVars>>(Expire(c) /\ UNCHANGED mqttVars)

MqttFairSpec == MqttSpec /\ MqttFairness
-----------------------------------------------------------------------------
\* A receipt is evidence of what the broker did for that very command: it took
\* the flushed QoS 0 publish, or it ended the exchange of that publish.
ReceiptIsEvidence ==
  \A c \in Call : response[c] = "receipt" => c \in acked

\* A graceful close answered every command that was handed to the transport,
\* and left no packet of one unsent.
CloseAnswersSubmitted ==
  result = "Closed" =>
    /\ \A c \in submitted : response[c] = "receipt"
    /\ publishing = {} /\ exchange = {}

\* An acknowledgement that the packet state lets through is always that of the
\* pending command: the identity checks of run and of MqttState agree.
LayersAgree ==
  queue # <<>> /\ Head(queue)[1] \in {"puback", "pubrec", "pubcomp"} /\ Looping =>
    \/ Answers(Head(queue)[1], Head(queue)[2])
    \/ phase # "waiting"

\* Whichever layer looks, a receipt is that of its own publish.
ReceiptsAreEvidence == ReceiptIsEvidence /\ LayersAgree

\* A message of QoS 2 is forwarded once, however often the broker repeats its
\* PUBLISH before releasing it; one of QoS 0 or 1 once for each PUBLISH.
ForwardedOnce == IsInjective(observed)

\* With nothing outstanding the frontier of completed identifiers is closed, so
\* that a disconnect never waits for an acknowledgement that was received.
FrontierCloses == outPub = {} /\ outRel = {} => pubAck = {}

\* A graceful close has waited for all that it had to wait for, and no longer.
CloseIsComplete == CloseAnswersSubmitted /\ FrontierCloses

\* Once it closes, the loop ends by itself: the broker answers, a deadline
\* passes or a flush fails, without the abort of a close that timed out.
CloseDrains == closing ~> task # "running"
=============================================================================
