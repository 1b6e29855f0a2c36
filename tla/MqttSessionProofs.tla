-------------------------- MODULE MqttSessionProofs --------------------------
(***************************************************************************)
(* What an MQTT session guarantees against any broker, for any number of   *)
(* calls and arrivals and any number of identifiers.                       *)
(*                                                                         *)
(* It implements the abstract session: every step of its task, of the      *)
(* event loop and of the broker is a step of NativeSession's driver or     *)
(* leaves its variables alone, so what NativeSessionProofs proves of every *)
(* session holds of this one.  ForwardInv says what keeps a message from   *)
(* being forwarded twice, EvidenceInv what a receipt is worth.             *)
(***************************************************************************)
EXTENDS MqttSession, NativeSessionProofs

\* What run does when it is not waiting for its event loop to compute.
LEMMA RunSteps ==
  ASSUME \/ \E c \in Call : TakeCommandMqtt(c)
         \/ BeginClose \/ CommandsEnded \/ DeadlinePasses \/ LoseConnection
  PROVE  [Next]_vars
<1>1. CASE \E c \in Call : TakeCommandMqtt(c)
  <2>1. PICK c \in Call : SkipCancelled(c) \/ RejectExpired(c) \/ Submit(c)
    BY <1>1 DEF TakeCommandMqtt
  <2>2. TakeCommand(c)
    BY <2>1 DEF TakeCommand
  <2> QED
    BY <2>2 DEF DriverStep, Next
<1>2. CASE BeginClose
  BY <1>2 DEF BeginClose
<1>3. CASE CommandsEnded
  BY <1>3 DEF CommandsEnded, DriverStep, Next
<1>4. CASE DeadlinePasses
  BY <1>4 DEF DeadlinePasses, StopExpired, DriverStep, Next
<1>5. CASE LoseConnection
  <2>1. Stop("Failed") \/ Stop("FailedUnknown")
    BY <1>5 DEF LoseConnection, ConnectionError
  <2> QED
    BY <2>1 DEF DriverStep, Next
<1> QED
  BY <1>1, <1>2, <1>3, <1>4, <1>5

\* Reading ends the session or touches the MQTT state only.
LEMMA ReadSteps ==
  ASSUME ReadStep
  PROVE  [Next]_vars
<1>1. CASE \E id \in Id, c \in Call : PubAckRead(id, c) \/ PubRecRead(id, c) \/ PubCompRead(id, c)
  BY <1>1 DEF PubAckRead, PubRecRead, PubCompRead
<1>2. CASE \E m \in Arrival : PublishRead(m) \/ PubRelRead(InboundId[m])
  BY <1>2 DEF PublishRead, PubRelRead
<1>3. CASE \E kind \in {"puback", "pubrec", "pubcomp"}, id \in Id \cup {UnusedId} :
             Unsolicited(kind, id)
  <2>1. Stop("Failed") \/ Stop("FailedUnknown")
    BY <1>3 DEF Unsolicited, ConnectionError
  <2> QED
    BY <2>1 DEF DriverStep, Next
<1>4. CASE EndRead
  BY <1>4 DEF EndRead
<1> QED
  BY <1>1, <1>2, <1>3, <1>4 DEF ReadStep

\* The pending command is one of the calls, so completing it is a step.
LEMMA CompleteIsAStep ==
  ASSUME NEW c, SessionTypeOK, Complete(c)
  PROVE  Next
<1>1. c \in Call
  BY DEF Complete, SessionTypeOK
<1> QED
  BY <1>1 DEF DriverStep, Next

\* An event completes the pending command, delivers, ends the session, or is
\* only remembered.
LEMMA EventSteps ==
  ASSUME SessionTypeOK, HandleEvent
  PROVE  [Next]_vars
<1>1. ASSUME NEW id \in {NoId} \cup Id, PublishSent(id)
      PROVE  [Next]_vars
  <2>1. CASE pending = {}
    BY <1>1, <2>1 DEF PublishSent, DriverStep, Next
  <2>2. CASE pending # {}
    <3>1. PICK c \in pending : IF Qos[c] = 0 THEN Complete(c) /\ UNCHANGED packetId
                              ELSE packetId' = id /\ UNCHANGED vars
      BY <1>1, <2>2 DEF PublishSent
    <3>2. CASE Qos[c] = 0
      BY <3>1, <3>2, CompleteIsAStep
    <3>3. CASE Qos[c] # 0
      BY <3>1, <3>3
    <3> QED
      BY <3>2, <3>3
  <2> QED
    BY <2>1, <2>2
<1>2. ASSUME NEW id \in {NoId} \cup Id, Received(id)
      PROVE  [Next]_vars
  <2>1. UNCHANGED vars \/ Stop("FailedUnknown")
    BY <1>2 DEF Received
  <2> QED
    BY <2>1 DEF DriverStep, Next
<1>3. ASSUME NEW id \in {NoId} \cup Id, NEW kind \in {"puback", "pubcomp"},
             Acknowledged(kind, id)
      PROVE  [Next]_vars
  <2>1. (\E c \in pending : Complete(c)) \/ Stop("FailedUnknown")
    BY <1>3 DEF Acknowledged
  <2> QED
    BY <2>1, CompleteIsAStep DEF DriverStep, Next
<1>4. ASSUME NEW m \in Arrival, Deliver(m)
      PROVE  [Next]_vars
  <2>1. ReserveArrival(m) \/ RefuseArrival(m) \/ Stop("Failed")
    BY <1>4 DEF Deliver
  <2> QED
    BY <2>1 DEF DriverStep, Next
<1>5. CASE DisconnectSent
  BY <1>5 DEF DisconnectSent, DriverStep, Next
<1> QED
  BY <1>1, <1>2, <1>3, <1>4, <1>5 DEF HandleEvent

\* The broker sees nothing of the session but its packets.
LEMMA BrokerSteps ==
  ASSUME BrokerStep
  PROVE  UNCHANGED vars
  BY DEF BrokerStep, BrokerAnswers, BrokerRepeatsRec, BrokerCompletes,
         BrokerPublishes, BrokerRepeatsPublish, BrokerReleases, BrokerStrays, Send

\* Every step of the MQTT session is a step of the session it extends.
LEMMA StepRefinesSession ==
  ASSUME SessionTypeOK, [MqttNext]_<<vars, mqttVars>>
  PROVE  [Next]_vars
<1>1. CASE MqttStep
  <2>1. CASE \E c \in Call : AdmitPublish(c)
    BY <2>1 DEF AdmitPublish
  <2>2. CASE AdmitDisconnect \/ SendDisconnect \/ Flush
    BY <2>2 DEF AdmitDisconnect, SendDisconnect, Flush
  <2> QED
    BY <1>1, <2>1, <2>2, RunSteps, ReadSteps, EventSteps, BrokerSteps
       DEF MqttStep, PollStep
<1>2. CASE SessionStep \/ Terminating
  BY <1>2 DEF SessionStep, DriverStep, Next
<1>3. CASE UNCHANGED <<vars, mqttVars>>
  BY <1>3
<1> QED
  BY <1>1, <1>2, <1>3 DEF MqttNext

\* rust/native/src/mqtt.rs: whatever the broker does, run is a driver in the
\* sense of NativeSession.
THEOREM MqttImplementsSession == MqttSpec => Spec
<1>1. MqttInit => Init /\ SessionTypeOK
  BY InitTypes DEF MqttInit
<1>2. SessionTypeOK /\ [MqttNext]_<<vars, mqttVars>> => SessionTypeOK'
  BY StepRefinesSession, Types
<1>3. SessionTypeOK /\ [MqttNext]_<<vars, mqttVars>> => [Next]_vars
  BY StepRefinesSession
<1> QED
  BY <1>1, <1>2, <1>3, PTL DEF MqttSpec, Spec

\* Over MQTT, too, what send returns is true of what was handed to the event
\* loop, and a receipt is published only once its capacity is free.
THEOREM MqttOutcomes == MqttSpec => []OutcomeHonest /\ []CapacityBeforeResponse
  BY MqttImplementsSession, OutcomesHonest, CapacityPrecedesResponse, PTL
(***************************************************************************)
(* Queues of packets.  What matters of one is which packets it holds, that *)
(* it holds one of them once, and that it holds one behind another.        *)
(***************************************************************************)

Once(s, e) == \A p, q \in DOMAIN s : s[p] = e /\ s[q] = e => p = q
Before(s, e, f) == \A p, q \in DOMAIN s : s[p] = e /\ s[q] = f => p < q

\* A packet is added at the end.
LEMMA AppendOnce ==
  ASSUME NEW S, NEW s \in Seq(S), NEW e \in S, NEW x,
         Once(s, x), x = e => e \notin Range(s)
  PROVE  Once(Append(s, e), x)
BY DEF Once, Range

\* An order that ends before what is added stays.
LEMMA AppendBefore ==
  ASSUME NEW S, NEW s \in Seq(S), NEW e \in S, NEW x, NEW y,
         Before(s, x, y), e # x
  PROVE  Before(Append(s, e), x, y)
BY DEF Before

\* What is not there is there once, and before and behind everything.
LEMMA AbsentOrder ==
  ASSUME NEW S, NEW s \in Seq(S), NEW x, x \notin Range(s)
  PROVE  Once(s, x) /\ \A y : Before(s, x, y) /\ Before(s, y, x)
BY DEF Once, Before, Range

\* The packet at the head is taken.
LEMMA TailKeeps ==
  ASSUME NEW S, NEW s \in Seq(S), s # <<>>
  PROVE  /\ Tail(s) \in Seq(S)
         /\ Range(s) = Range(Tail(s)) \cup {Head(s)}
         /\ \A x : Once(s, x) =>
                     Once(Tail(s), x) /\ (x = Head(s) => x \notin Range(Tail(s)))
         /\ \A x, y : Before(s, x, y) =>
                        Before(Tail(s), x, y) /\ (y = Head(s) => x \notin Range(s))
<1>1. /\ Len(s) \in Nat \ {0} /\ DOMAIN s = 1 .. Len(s) /\ Head(s) = s[1]
      /\ Tail(s) \in Seq(S) /\ Len(Tail(s)) = Len(s) - 1
      /\ DOMAIN Tail(s) = 1 .. Len(s) - 1
      /\ \A p \in 1 .. Len(s) - 1 : Tail(s)[p] = s[p + 1]
  OBVIOUS
<1>2. ASSUME NEW x \in Range(Tail(s)) PROVE x \in Range(s)
  <2>1. PICK p \in 1 .. Len(s) - 1 : s[p + 1] = x
    BY <1>1, <1>2 DEF Range
  <2>2. p + 1 \in DOMAIN s
    BY <1>1
  <2> QED
    BY <2>1, <2>2 DEF Range
<1>3. Head(s) \in Range(s)
  BY <1>1 DEF Range
<1>4. ASSUME NEW x \in Range(s), x # Head(s) PROVE x \in Range(Tail(s))
  <2>1. PICK p \in 1 .. Len(s) : s[p] = x
    BY <1>1, <1>4 DEF Range
  <2>2. p # 1
    BY <1>1, <1>4, <2>1
  <2>3. p - 1 \in DOMAIN Tail(s) /\ Tail(s)[p - 1] = x
    BY <1>1, <2>1, <2>2
  <2> QED
    BY <2>3 DEF Range
<1>5. ASSUME NEW x, Once(s, x)
      PROVE  Once(Tail(s), x) /\ (x = Head(s) => x \notin Range(Tail(s)))
  <2>1. ASSUME NEW p \in 1 .. Len(s) - 1, NEW q \in 1 .. Len(s) - 1,
               Tail(s)[p] = x, Tail(s)[q] = x
        PROVE  p = q
    <3>1. s[p + 1] = x /\ s[q + 1] = x /\ p + 1 \in DOMAIN s /\ q + 1 \in DOMAIN s
      BY <1>1, <2>1
    <3>2. p + 1 = q + 1
      BY <1>5, <3>1 DEF Once
    <3> QED
      BY <3>2
  <2>2. ASSUME NEW p \in 1 .. Len(s) - 1, Tail(s)[p] = x, x = Head(s)
        PROVE  FALSE
    <3>1. s[p + 1] = x /\ s[1] = x /\ p + 1 \in DOMAIN s /\ 1 \in DOMAIN s
      BY <1>1, <2>2
    <3>2. p + 1 = 1
      BY <1>5, <3>1 DEF Once
    <3> QED
      BY <3>2
  <2> QED
    BY <1>1, <2>1, <2>2 DEF Once, Range
<1>6. ASSUME NEW x, NEW y, Before(s, x, y)
      PROVE  Before(Tail(s), x, y) /\ (y = Head(s) => x \notin Range(s))
  <2>1. ASSUME NEW p \in 1 .. Len(s) - 1, NEW q \in 1 .. Len(s) - 1,
               Tail(s)[p] = x, Tail(s)[q] = y
        PROVE  p < q
    <3>1. s[p + 1] = x /\ s[q + 1] = y /\ p + 1 \in DOMAIN s /\ q + 1 \in DOMAIN s
      BY <1>1, <2>1
    <3>2. p + 1 < q + 1
      BY <1>6, <3>1 DEF Before
    <3> QED
      BY <3>2
  <2>2. ASSUME NEW p \in DOMAIN s, s[p] = x, y = Head(s) PROVE FALSE
    <3>1. p < 1
      BY <1>1, <1>6, <2>2 DEF Before
    <3> QED
      BY <1>1, <3>1
  <2>3. Before(Tail(s), x, y)
    BY <1>1, <2>1 DEF Before
  <2> QED
    BY <2>2, <2>3 DEF Range
<1> QED
  BY <1>1, <1>2, <1>3, <1>4, <1>5, <1>6

(***************************************************************************)
(* Packets, and the events that stand for one.                             *)
(***************************************************************************)

AckKind == {"puback", "pubrec", "pubcomp"}
Packet ==
  ((AckKind \cup {"pubrel", "sent", "disconnect"}) \X Nat)
    \cup {Message(m) : m \in Arrival}
Release(m) == <<"pubrel", InboundId[m]>>

\* A PUBLISH names its body, and no other packet is one.
LEMMA MessageNames ==
  ASSUME NEW m \in Arrival
  PROVE  /\ Message(m) \in Packet /\ Release(m) \in Packet
         /\ \A n \in Arrival : Message(m) = Message(n) => m = n
         /\ \A kind, id : Message(m) = <<kind, id>> => kind = "publish"
<1>1. Message(m)[1] = "publish" /\ Message(m)[3] = m
  BY DEF Message
<1>2. \A n \in Arrival : Message(n)[3] = n
  BY DEF Message
<1>3. InboundId[m] \in Nat
  BY InboundIdInRange
<1>4. \A kind, id : <<kind, id>>[1] = kind
  OBVIOUS
<1>5. \A kind, id : Message(m) = <<kind, id>> => kind = "publish"
  BY <1>1, <1>4
<1>6. Message(m) \in Packet /\ Release(m) \in Packet
  BY <1>3 DEF Packet, Release
<1> QED
  BY <1>1, <1>2, <1>5, <1>6

(***************************************************************************)
(* Arrivals.  That a PUBLISH is forwarded once rests on what is on its way *)
(* and what is written and not flushed: each answers, or is answered by,   *)
(* the one arrival that the broker gives the identifier at the time.       *)
(***************************************************************************)

InFlight(m) == outbound[m] \in {"sent", "received", "released"}
Coming(m) == Message(m) \in Range(inbound)

ForwardTypes ==
  /\ inbound \in Seq(Packet)
  /\ outbound \in [Arrival -> {"new", "sent", "received", "released", "done"}]
  /\ observed \in Seq(Arrival)

\* A packet identifier is that of one arrival at a time, and only an arrival of
\* QoS 2 goes beyond the first answer.
IdentifiersExclusive ==
  /\ \A m, n \in Arrival :
       InFlight(m) /\ InFlight(n) /\ InboundId[m] = InboundId[n] => m = n
  /\ \A m \in Arrival :
       /\ outbound[m] = "sent" => Qos[m] # 0
       /\ outbound[m] \in {"received", "released"} => Qos[m] = 2

\* A PUBLISH on its way is that of an arrival whose exchange is not over; one
\* that is not of QoS 2 is on its way once and was not forwarded yet.
MessagesDue ==
  \A m \in Arrival : Coming(m) =>
    /\ outbound[m] # "new"
    /\ Qos[m] = 2 => InFlight(m)
    /\ Qos[m] = 1 => outbound[m] = "sent" /\ <<"puback", InboundId[m]>> \notin written
    /\ Qos[m] # 2 => m \notin Range(observed) /\ Once(inbound, Message(m))

\* A PUBREL is on its way once, behind every repetition of its PUBLISH.
ReleasesFollow ==
  \A n \in Arrival : Release(n) \in Range(inbound) =>
    /\ <<"pubcomp", InboundId[n]>> \notin written
    /\ Once(inbound, Release(n))
    /\ \E m \in Arrival : /\ InboundId[m] = InboundId[n] /\ outbound[m] = "released"
                          /\ Before(inbound, Message(m), Release(n))

\* What is written and not flushed answers the arrival that has the identifier.
AnswersDue ==
  \A n \in Arrival :
    /\ <<"puback", InboundId[n]>> \in written =>
         \E m \in Arrival : /\ InboundId[m] = InboundId[n]
                            /\ outbound[m] = "sent" /\ Qos[m] = 1
    /\ <<"pubrec", InboundId[n]>> \in written =>
         \E m \in Arrival : InboundId[m] = InboundId[n] /\ InFlight(m) /\ Qos[m] = 2
    /\ <<"pubcomp", InboundId[n]>> \in written =>
         \E m \in Arrival : /\ InboundId[m] = InboundId[n]
                            /\ outbound[m] = "released" /\ ~Coming(m)

\* What was forwarded is remembered for as long as it could come again.
ForwardsRemembered ==
  \A m \in Arrival : m \in Range(observed) =>
    /\ outbound[m] # "new"
    /\ Qos[m] = 2 /\ (outbound[m] \in {"sent", "received"} \/ Coming(m))
         => InboundId[m] \in incomingPub

ForwardInv ==
  /\ ForwardTypes /\ IdentifiersExclusive /\ MessagesDue /\ ReleasesFollow
  /\ AnswersDue /\ ForwardsRemembered /\ ForwardedOnce

\* The answer that is written to an identifier in flight is that arrival's.
LEMMA AnswersOwn ==
  ASSUME ForwardInv, NEW m \in Arrival, InFlight(m)
  PROVE  /\ <<"puback", InboundId[m]>> \in written => outbound[m] = "sent" /\ Qos[m] = 1
         /\ <<"pubrec", InboundId[m]>> \in written => Qos[m] = 2
         /\ <<"pubcomp", InboundId[m]>> \in written =>
              outbound[m] = "released" /\ ~Coming(m)
<1>1. \A k \in Arrival : InFlight(k) /\ InboundId[k] = InboundId[m] => k = m
  BY DEF ForwardInv, IdentifiersExclusive
<1>2. ASSUME <<"puback", InboundId[m]>> \in written
      PROVE  outbound[m] = "sent" /\ Qos[m] = 1
  <2>1. PICK k \in Arrival : InboundId[k] = InboundId[m] /\ outbound[k] = "sent" /\ Qos[k] = 1
    BY <1>2 DEF ForwardInv, AnswersDue
  <2> QED
    BY <1>1, <2>1 DEF InFlight
<1>3. ASSUME <<"pubrec", InboundId[m]>> \in written
      PROVE  Qos[m] = 2
  <2>1. PICK k \in Arrival : InboundId[k] = InboundId[m] /\ InFlight(k) /\ Qos[k] = 2
    BY <1>3 DEF ForwardInv, AnswersDue
  <2> QED
    BY <1>1, <2>1
<1>4. ASSUME <<"pubcomp", InboundId[m]>> \in written
      PROVE  outbound[m] = "released" /\ ~Coming(m)
  <2>1. PICK k \in Arrival : InboundId[k] = InboundId[m] /\ outbound[k] = "released" /\ ~Coming(k)
    BY <1>4 DEF ForwardInv, AnswersDue
  <2>2. k = m
    BY <1>1, <2>1 DEF InFlight
  <2> QED
    BY <2>1, <2>2
<1> QED
  BY <1>2, <1>3, <1>4

\* Steps that leave the arrivals alone: no PUBLISH or PUBREL is added, and no
\* answer to one.
LEMMA ForwardFrame ==
  ASSUME ForwardInv, inbound' \in Seq(Packet),
         UNCHANGED <<outbound, observed, incomingPub>>,
         \A kind \in AckKind, n \in Arrival :
           <<kind, InboundId[n]>> \in written' => <<kind, InboundId[n]>> \in written,
         \A n \in Arrival :
           /\ Coming(n)' => Coming(n)
           /\ Once(inbound, Message(n)) => Once(inbound', Message(n))
           /\ Release(n) \in Range(inbound') => Release(n) \in Range(inbound)
           /\ Once(inbound, Release(n)) => Once(inbound', Release(n))
           /\ \A m \in Arrival : Before(inbound, Message(m), Release(n))
                                   => Before(inbound', Message(m), Release(n))
  PROVE  ForwardInv'
<1> USE DEF ForwardInv
<1>1. \A n \in Arrival : InFlight(n)' <=> InFlight(n)
  BY DEF InFlight
<1>2. ForwardTypes' /\ IdentifiersExclusive' /\ ForwardedOnce'
  BY <1>1 DEF ForwardTypes, IdentifiersExclusive, ForwardedOnce
<1>3. MessagesDue'
  BY <1>1 DEF MessagesDue, AckKind, Coming
<1>4. ReleasesFollow'
  BY DEF ReleasesFollow, AckKind, Release
<1>5. AnswersDue'
  BY <1>1 DEF AnswersDue, AckKind
<1>6. ForwardsRemembered'
  BY DEF ForwardsRemembered
<1> QED
  BY <1>2, <1>3, <1>4, <1>5, <1>6

\* An acknowledgement is added, or taken and not answered.
LEMMA ForwardAcks ==
  ASSUME ForwardInv, UNCHANGED <<outbound, observed, incomingPub>>,
         NEW kind \in AckKind, NEW id \in Nat,
         \A k \in AckKind, n \in Arrival :
           <<k, InboundId[n]>> \in written' => <<k, InboundId[n]>> \in written,
         \/ inbound' = Append(inbound, <<kind, id>>)
         \/ /\ inbound # <<>> /\ Head(inbound) = <<kind, id>>
            /\ inbound' = Tail(inbound)
  PROVE  ForwardInv'
<1>1. inbound \in Seq(Packet) /\ <<kind, id>> \in Packet
  BY DEF ForwardInv, ForwardTypes, Packet
<1>2. \A n \in Arrival : Message(n) # <<kind, id>> /\ Release(n) # <<kind, id>>
  BY MessageNames DEF AckKind, Release
<1>3. CASE inbound' = Append(inbound, <<kind, id>>)
  <2>1. Range(inbound') = Range(inbound) \cup {<<kind, id>>} /\ inbound' \in Seq(Packet)
    BY <1>1, <1>3, AppendRange
  <2>2. \A n \in Arrival :
          /\ Once(inbound, Message(n)) => Once(inbound', Message(n))
          /\ Once(inbound, Release(n)) => Once(inbound', Release(n))
    BY <1>1, <1>2, <1>3, AppendOnce
  <2>3. \A m, n \in Arrival :
          Before(inbound, Message(m), Release(n)) => Before(inbound', Message(m), Release(n))
    BY <1>1, <1>2, <1>3, AppendBefore
  <2> QED
    BY <1>2, <2>1, <2>2, <2>3, ForwardFrame DEF Coming, Message
<1>4. CASE inbound # <<>> /\ inbound' = Tail(inbound)
  BY <1>1, <1>4, TailKeeps, ForwardFrame DEF Coming, Message
<1> QED
  BY <1>3, <1>4

\* A PUBLISH is forwarded, or recognised as a repetition and only answered.
LEMMA ForwardPublishRead ==
  ASSUME ForwardInv, NEW m \in Arrival, PublishRead(m)
  PROVE  ForwardInv'
<1> USE DEF ForwardInv
<1>1. /\ inbound \in Seq(Packet) /\ inbound # <<>> /\ Message(m) = Head(inbound)
      /\ inbound' = Tail(inbound) /\ UNCHANGED outbound
      /\ written' = written \cup Answer(m)
      /\ incomingPub' = IF Qos[m] = 2 THEN incomingPub \cup {InboundId[m]} ELSE incomingPub
      /\ \/ UNCHANGED observed
         \/ /\ ~(Qos[m] = 2 /\ InboundId[m] \in incomingPub)
            /\ observed' = Append(observed, m)
  BY DEF PublishRead, Reading, ForwardTypes, brokerVars
<1>2. /\ inbound' \in Seq(Packet)
      /\ Range(inbound) = Range(inbound') \cup {Message(m)}
      /\ Once(inbound, Message(m)) => Message(m) \notin Range(inbound')
      /\ \A x : Once(inbound, x) => Once(inbound', x)
      /\ \A x, y : Before(inbound, x, y) => Before(inbound', x, y)
  BY <1>1, TailKeeps
<1>3. \A n \in Arrival :
        /\ Coming(n)' => Coming(n)
        /\ InFlight(n)' <=> InFlight(n)
        /\ Release(n) \in Range(inbound') => Release(n) \in Range(inbound)
  BY <1>1, <1>2 DEF Coming, InFlight, Release, Message
<1>4. Coming(m)
  BY <1>2 DEF Coming
<1>5. /\ observed' \in Seq(Arrival)
      /\ Range(observed') = Range(observed) \/ Range(observed') = Range(observed) \cup {m}
  <2>1. observed \in Seq(Arrival)
    BY DEF ForwardTypes
  <2>2. Append(observed, m) \in Seq(Arrival)
    BY <2>1
  <2> QED
    BY <1>1, <2>1, <2>2, AppendRange
<1>6. Qos[m] \in 0 .. 2
  BY QosInRange
<1>7. ForwardTypes' /\ IdentifiersExclusive'
  BY <1>1, <1>2, <1>3, <1>5 DEF ForwardTypes, IdentifiersExclusive
<1>8. \A kind \in AckKind, n \in Arrival :
        <<kind, InboundId[n]>> \in written' =>
          \/ <<kind, InboundId[n]>> \in written
          \/ kind = "puback" /\ Qos[m] = 1 /\ InboundId[n] = InboundId[m]
          \/ kind = "pubrec" /\ Qos[m] = 2 /\ InboundId[n] = InboundId[m]
  BY <1>1, <1>6 DEF Answer, AckKind
<1>9. MessagesDue'
  <2> SUFFICES ASSUME NEW n \in Arrival, Coming(n)'
               PROVE  /\ outbound'[n] # "new"
                      /\ Qos[n] = 2 => InFlight(n)'
                      /\ Qos[n] = 1 => /\ outbound'[n] = "sent"
                                       /\ <<"puback", InboundId[n]>> \notin written'
                      /\ Qos[n] # 2 => /\ n \notin Range(observed')
                                       /\ Once(inbound', Message(n))
    BY DEF MessagesDue, Message
  <2>1. Qos[n] # 2 => n # m
    BY <1>2, <1>3 DEF MessagesDue, Coming, Message
  <2>2. ASSUME Qos[n] = 1 PROVE <<"puback", InboundId[n]>> \notin written'
    <3>1. <<"puback", InboundId[n]>> \notin written /\ outbound[n] = "sent"
      BY <1>3, <2>2 DEF MessagesDue
    <3>2. ~(Qos[m] = 1 /\ InboundId[n] = InboundId[m])
      BY <1>4, <2>1, <2>2, <3>1 DEF MessagesDue, IdentifiersExclusive, InFlight
    <3> QED
      BY <1>8, <3>1, <3>2 DEF AckKind
  <2> QED
    BY <1>1, <1>2, <1>3, <1>5, <2>1, <2>2 DEF MessagesDue
<1>10. ReleasesFollow'
  BY <1>1, <1>2, <1>3, <1>8 DEF ReleasesFollow, AckKind, Release, Message
<1>11. AnswersDue'
  <2>1. /\ Qos[m] = 1 => outbound[m] = "sent"
        /\ Qos[m] = 2 => InFlight(m)
    BY <1>4 DEF MessagesDue
  <2>2. ASSUME NEW n \in Arrival, <<"puback", InboundId[n]>> \in written'
        PROVE  \E k \in Arrival : /\ InboundId[k] = InboundId[n]
                                  /\ outbound'[k] = "sent" /\ Qos[k] = 1
    BY <1>1, <1>8, <2>1, <2>2, ZenonT(30) DEF AnswersDue, AckKind
  <2>3. ASSUME NEW n \in Arrival, <<"pubrec", InboundId[n]>> \in written'
        PROVE  \E k \in Arrival : InboundId[k] = InboundId[n] /\ InFlight(k)' /\ Qos[k] = 2
    <3>1. \A k \in Arrival : InFlight(k)' <=> InFlight(k)
      BY <1>3
    <3>2. \/ <<"pubrec", InboundId[n]>> \in written
          \/ Qos[m] = 2 /\ InboundId[n] = InboundId[m]
      BY <1>8, <2>3 DEF AckKind
    <3>3. \E k \in Arrival : InboundId[k] = InboundId[n] /\ InFlight(k) /\ Qos[k] = 2
      BY <2>1, <3>2 DEF AnswersDue
    <3> QED
      BY <3>1, <3>3
  <2>4. ASSUME NEW n \in Arrival, <<"pubcomp", InboundId[n]>> \in written'
        PROVE  \E k \in Arrival : /\ InboundId[k] = InboundId[n]
                                  /\ outbound'[k] = "released" /\ ~Coming(k)'
    BY <1>1, <1>3, <1>8, <2>4 DEF AnswersDue, AckKind
  <2> QED
    BY <2>2, <2>3, <2>4 DEF AnswersDue
<1>12. ForwardsRemembered'
  BY <1>1, <1>3, <1>4, <1>5 DEF ForwardsRemembered, MessagesDue
<1>13. ForwardedOnce'
  <2>1. CASE UNCHANGED observed
    BY <2>1 DEF ForwardedOnce
  <2>2. CASE /\ ~(Qos[m] = 2 /\ InboundId[m] \in incomingPub)
             /\ observed' = Append(observed, m)
    <3>1. m \notin Range(observed)
      BY <1>4, <2>2 DEF MessagesDue, ForwardsRemembered
    <3> QED
      BY <2>2, <3>1, AppendInjective DEF ForwardedOnce, ForwardTypes
  <2> QED
    BY <1>1, <2>1, <2>2
<1> QED
  BY <1>7, <1>9, <1>10, <1>11, <1>12, <1>13

\* The PUBREL is read behind every repetition of its PUBLISH.
LEMMA ForwardPubRelRead ==
  ASSUME ForwardInv, NEW n \in Arrival, PubRelRead(InboundId[n])
  PROVE  ForwardInv'
<1> USE DEF ForwardInv
<1>1. /\ inbound \in Seq(Packet) /\ inbound # <<>> /\ Release(n) = Head(inbound)
      /\ inbound' = Tail(inbound) /\ UNCHANGED <<outbound, observed>>
      /\ written' = written \cup {<<"pubcomp", InboundId[n]>>}
      /\ incomingPub' = incomingPub \ {InboundId[n]}
  BY DEF PubRelRead, Reading, ForwardTypes, brokerVars, Release
<1>2. /\ inbound' \in Seq(Packet)
      /\ Range(inbound) = Range(inbound') \cup {Release(n)}
      /\ \A x : Once(inbound, x) => Once(inbound', x)
      /\ Once(inbound, Release(n)) => Release(n) \notin Range(inbound')
      /\ \A x, y : Before(inbound, x, y) => Before(inbound', x, y)
      /\ \A x : Before(inbound, x, Release(n)) => x \notin Range(inbound)
  BY <1>1, TailKeeps
<1>3. \A k \in Arrival :
        /\ Coming(k)' => Coming(k)
        /\ InFlight(k)' <=> InFlight(k)
        /\ Release(k) \in Range(inbound') => Release(k) \in Range(inbound)
  BY <1>1, <1>2 DEF Coming, InFlight, Release, Message
<1>4. /\ Release(n) \notin Range(inbound')
      /\ \E m \in Arrival : /\ InboundId[m] = InboundId[n] /\ outbound[m] = "released"
                            /\ Before(inbound, Message(m), Release(n))
  BY <1>2 DEF ReleasesFollow
<1>5. PICK m \in Arrival : /\ InboundId[m] = InboundId[n] /\ outbound[m] = "released"
                           /\ Before(inbound, Message(m), Release(n))
  BY <1>4
<1>6. ~Coming(m) /\ ~Coming(m)'
  BY <1>2, <1>3, <1>5 DEF Coming
<1>7. ForwardTypes' /\ IdentifiersExclusive' /\ ForwardedOnce'
  BY <1>1, <1>2, <1>3 DEF ForwardTypes, IdentifiersExclusive, ForwardedOnce
<1>8. \A kind \in AckKind, k \in Arrival :
        <<kind, InboundId[k]>> \in written' =>
          \/ <<kind, InboundId[k]>> \in written
          \/ kind = "pubcomp" /\ InboundId[k] = InboundId[n]
  BY <1>1
<1>9. MessagesDue'
  BY <1>1, <1>2, <1>3, <1>8 DEF MessagesDue, AckKind, Message
<1>10. ReleasesFollow'
  <2>1. ASSUME NEW k \in Arrival, Release(k) \in Range(inbound')
        PROVE  <<"pubcomp", InboundId[k]>> \notin written'
    <3>1. InboundId[k] # InboundId[n]
      BY <1>4, <2>1 DEF Release
    <3> QED
      BY <1>3, <1>8, <2>1, <3>1 DEF ReleasesFollow, AckKind
  <2>2. ASSUME NEW k \in Arrival, Release(k) \in Range(inbound')
        PROVE  /\ Once(inbound', Release(k))
               /\ \E j \in Arrival :
                    /\ InboundId[j] = InboundId[k] /\ outbound'[j] = "released"
                    /\ Before(inbound', Message(j), Release(k))
    BY <1>1, <1>2, <1>3, <2>2 DEF ReleasesFollow
  <2> QED
    BY <2>1, <2>2 DEF ReleasesFollow, Release, Message
<1>11. AnswersDue'
  BY <1>1, <1>3, <1>5, <1>6, <1>8 DEF AnswersDue, AckKind
<1>12. ForwardsRemembered'
  <2> SUFFICES ASSUME NEW k \in Arrival, k \in Range(observed)
               PROVE  /\ outbound[k] # "new"
                      /\ Qos[k] = 2 /\ (outbound[k] \in {"sent", "received"} \/ Coming(k)')
                           => InboundId[k] \in incomingPub'
    BY <1>1 DEF ForwardsRemembered
  <2>1. ASSUME Qos[k] = 2, outbound[k] \in {"sent", "received"} \/ Coming(k)'
        PROVE  InboundId[k] # InboundId[n]
    <3>1. InFlight(k) /\ InFlight(m)
      BY <1>3, <1>5, <2>1 DEF MessagesDue, InFlight
    <3>2. k # m
      BY <1>5, <1>6, <2>1
    <3> QED
      BY <1>5, <3>1, <3>2 DEF IdentifiersExclusive
  <2> QED
    BY <1>1, <1>3, <2>1 DEF ForwardsRemembered
<1> QED
  BY <1>7, <1>9, <1>10, <1>11, <1>12

\* The broker takes what was written as answers to the arrivals they are of.
LEMMA ForwardFlush ==
  ASSUME ForwardInv, Flush
  PROVE  ForwardInv'
<1> USE DEF ForwardInv
<1>1. /\ outbound \in [Arrival -> {"new", "sent", "received", "released", "done"}]
      /\ written' = {} /\ UNCHANGED <<inbound, observed, incomingPub>>
      /\ outbound' =
           [m \in Arrival |->
              IF outbound[m] = "sent" /\ <<"pubrec", InboundId[m]>> \in written
              THEN "received"
              ELSE IF \/ outbound[m] = "sent" /\ <<"puback", InboundId[m]>> \in written
                      \/ outbound[m] = "released" /\ <<"pubcomp", InboundId[m]>> \in written
                   THEN "done"
                   ELSE outbound[m]]
  BY DEF Flush, ForwardTypes, stateVars
<1>2. ASSUME NEW m \in Arrival
      PROVE  \/ /\ outbound[m] = "sent" /\ outbound'[m] = "received"
                /\ <<"pubrec", InboundId[m]>> \in written
             \/ /\ outbound[m] = "sent" /\ outbound'[m] = "done"
                /\ <<"puback", InboundId[m]>> \in written
             \/ /\ outbound[m] = "released" /\ outbound'[m] = "done"
                /\ <<"pubcomp", InboundId[m]>> \in written
             \/ outbound'[m] = outbound[m]
  BY <1>1
<1>3. \A m \in Arrival :
        /\ InFlight(m)' => InFlight(m)
        /\ outbound'[m] # "new" \/ outbound[m] = "new"
        /\ Coming(m)' <=> Coming(m)
  BY <1>1, <1>2 DEF InFlight, Coming, Message
<1>4. ASSUME NEW m \in Arrival, outbound[m] = "sent"
      PROVE  /\ <<"pubrec", InboundId[m]>> \in written => Qos[m] = 2
             /\ <<"puback", InboundId[m]>> \in written => Qos[m] = 1
  BY <1>4, AnswersOwn DEF InFlight
<1>5. ASSUME NEW m \in Arrival, outbound[m] = "released",
             <<"pubcomp", InboundId[m]>> \in written
      PROVE  ~Coming(m)
  BY <1>5, AnswersOwn DEF InFlight
<1>6. outbound' \in [Arrival -> {"new", "sent", "received", "released", "done"}]
  BY <1>1
<1>7. ForwardTypes' /\ ForwardedOnce'
  BY <1>1, <1>6 DEF ForwardTypes, ForwardedOnce
<1>8. IdentifiersExclusive'
  <2>1. \A m, n \in Arrival :
          InFlight(m)' /\ InFlight(n)' /\ InboundId[m] = InboundId[n] => m = n
    BY <1>2 DEF IdentifiersExclusive, InFlight
  <2>2. \A m \in Arrival :
          /\ outbound'[m] = "sent" => Qos[m] # 0
          /\ outbound'[m] \in {"received", "released"} => Qos[m] = 2
    BY <1>2, <1>4 DEF IdentifiersExclusive
  <2> QED
    BY <2>1, <2>2 DEF IdentifiersExclusive
<1>9. MessagesDue'
  <2> SUFFICES ASSUME NEW m \in Arrival, Coming(m)
               PROVE  /\ outbound'[m] # "new"
                      /\ Qos[m] = 2 => InFlight(m)'
                      /\ Qos[m] = 1 => outbound'[m] = "sent"
                      /\ Qos[m] # 2 => m \notin Range(observed) /\ Once(inbound, Message(m))
    BY <1>1, <1>3 DEF MessagesDue, Message
  <2>1. Qos[m] = 2 => InFlight(m)'
    BY <1>2, <1>4, <1>5 DEF MessagesDue, InFlight
  <2>2. Qos[m] = 1 => outbound'[m] = "sent"
    <3>1. ASSUME Qos[m] = 1
          PROVE  /\ outbound[m] = "sent"
                 /\ <<"puback", InboundId[m]>> \notin written
                 /\ <<"pubrec", InboundId[m]>> \notin written
      BY <1>4, <3>1 DEF MessagesDue
    <3> QED
      BY <1>2, <3>1
  <2> QED
    BY <1>3, <2>1, <2>2 DEF MessagesDue
<1>10. ReleasesFollow'
  <2>1. ASSUME NEW n \in Arrival, Release(n) \in Range(inbound)
        PROVE  /\ Once(inbound, Release(n))
               /\ \E m \in Arrival :
                    /\ InboundId[m] = InboundId[n] /\ outbound'[m] = "released"
                    /\ Before(inbound, Message(m), Release(n))
    <3>1. PICK m \in Arrival :
            /\ InboundId[m] = InboundId[n] /\ outbound[m] = "released"
            /\ Before(inbound, Message(m), Release(n))
      BY <2>1 DEF ReleasesFollow
    <3>2. outbound'[m] = "released"
      BY <1>2, <2>1, <3>1 DEF ReleasesFollow
    <3> QED
      BY <2>1, <3>1, <3>2 DEF ReleasesFollow
  <2> QED
    BY <1>1, <2>1 DEF ReleasesFollow, Release, Message
<1>11. AnswersDue'
  BY <1>1 DEF AnswersDue
<1>12. ForwardsRemembered'
  <2>1. \A m \in Arrival : outbound'[m] \in {"sent", "received"}
                             => outbound[m] \in {"sent", "received"}
    BY <1>2
  <2> QED
    BY <1>1, <1>3, <2>1 DEF ForwardsRemembered
<1> QED
  BY <1>7, <1>8, <1>9, <1>10, <1>11, <1>12

\* What was written still answers its arrival when the broker sends something.
LEMMA AnswersStay ==
  ASSUME AnswersDue, UNCHANGED written,
         \A m \in Arrival :
           /\ outbound[m] = "sent" => outbound'[m] = "sent"
           /\ InFlight(m) => InFlight(m)'
           /\ outbound[m] = "released" /\ ~Coming(m)
                => outbound'[m] = "released" /\ ~Coming(m)'
  PROVE  AnswersDue'
<1>1. ASSUME NEW n \in Arrival, <<"puback", InboundId[n]>> \in written
      PROVE  \E m \in Arrival : /\ InboundId[m] = InboundId[n]
                                /\ outbound'[m] = "sent" /\ Qos[m] = 1
  <2>1. PICK m \in Arrival : /\ InboundId[m] = InboundId[n]
                             /\ outbound[m] = "sent" /\ Qos[m] = 1
    BY <1>1, ZenonT(30) DEF AnswersDue
  <2> QED
    BY <2>1
<1>2. ASSUME NEW n \in Arrival, <<"pubrec", InboundId[n]>> \in written
      PROVE  \E m \in Arrival : InboundId[m] = InboundId[n] /\ InFlight(m)' /\ Qos[m] = 2
  <2>1. PICK m \in Arrival : InboundId[m] = InboundId[n] /\ InFlight(m) /\ Qos[m] = 2
    BY <1>2, ZenonT(30) DEF AnswersDue
  <2> QED
    BY <2>1
<1>3. ASSUME NEW n \in Arrival, <<"pubcomp", InboundId[n]>> \in written
      PROVE  \E m \in Arrival : /\ InboundId[m] = InboundId[n]
                                /\ outbound'[m] = "released" /\ ~Coming(m)'
  BY <1>3 DEF AnswersDue
<1> QED
  BY <1>1, <1>2, <1>3 DEF AnswersDue

\* The broker gives an identifier out again.
LEMMA ForwardPublishes ==
  ASSUME ForwardInv, NEW m \in Arrival, BrokerPublishes(m)
  PROVE  ForwardInv'
<1> USE DEF ForwardInv
<1>1. /\ inbound \in Seq(Packet) /\ inbound' = Append(inbound, Message(m))
      /\ outbound \in [Arrival -> {"new", "sent", "received", "released", "done"}]
      /\ UNCHANGED <<written, observed, incomingPub>>
      /\ outbound[m] = "new"
      /\ \A n \in Arrival : InboundId[n] = InboundId[m] => outbound[n] \in {"new", "done"}
      /\ outbound' = [outbound EXCEPT ![m] = IF Qos[m] = 0 THEN "done" ELSE "sent"]
  BY DEF BrokerPublishes, Send, ForwardTypes, stateVars
<1>2. /\ outbound'[m] = IF Qos[m] = 0 THEN "done" ELSE "sent"
      /\ \A n \in Arrival : n # m => outbound'[n] = outbound[n]
      /\ outbound' \in [Arrival -> {"new", "sent", "received", "released", "done"}]
  BY <1>1
<1>3. /\ inbound' \in Seq(Packet) /\ Message(m) \in Packet
      /\ Range(inbound') = Range(inbound) \cup {Message(m)}
  BY <1>1, AppendRange, MessageNames
<1>4. ~Coming(m) /\ m \notin Range(observed) /\ ~InFlight(m)
  BY <1>1 DEF MessagesDue, ForwardsRemembered, InFlight
<1>5. \A n \in Arrival :
        /\ n # m => Message(n) # Message(m)
        /\ n # m => (Coming(n)' <=> Coming(n)) /\ (InFlight(n)' <=> InFlight(n))
        /\ Release(n) # Message(m)
  BY <1>2, <1>3, MessageNames DEF Coming, InFlight, Release, Message
<1>6. \A n \in Arrival : InboundId[n] = InboundId[m] => ~InFlight(n)
  BY <1>1 DEF InFlight
<1>7. ForwardTypes' /\ ForwardedOnce'
  BY <1>1, <1>2, <1>3 DEF ForwardTypes, ForwardedOnce
<1>8. IdentifiersExclusive'
  <2>1. ASSUME NEW j \in Arrival, NEW k \in Arrival,
               InFlight(j)', InFlight(k)', InboundId[j] = InboundId[k]
        PROVE  j = k
    BY <1>5, <1>6, <2>1 DEF IdentifiersExclusive
  <2>2. \A n \in Arrival :
          /\ outbound'[n] = "sent" => Qos[n] # 0
          /\ outbound'[n] \in {"received", "released"} => Qos[n] = 2
    BY <1>2 DEF IdentifiersExclusive
  <2> QED
    BY <2>1, <2>2 DEF IdentifiersExclusive
<1>9. MessagesDue'
  <2> SUFFICES ASSUME NEW n \in Arrival, Coming(n)'
               PROVE  /\ outbound'[n] # "new"
                      /\ Qos[n] = 2 => InFlight(n)'
                      /\ Qos[n] = 1 => /\ outbound'[n] = "sent"
                                       /\ <<"puback", InboundId[n]>> \notin written'
                      /\ Qos[n] # 2 => /\ n \notin Range(observed')
                                       /\ Once(inbound', Message(n))
    BY DEF MessagesDue, Message
  <2>1. CASE n = m
    <3>1. outbound'[m] # "new" /\ (Qos[m] # 0 => outbound'[m] = "sent")
      BY <1>2
    <3>2. Qos[m] = 2 => InFlight(m)'
      BY <3>1 DEF InFlight
    <3>3. <<"puback", InboundId[m]>> \notin written'
      BY <1>1, <1>6 DEF AnswersDue, InFlight
    <3>4. Once(inbound', Message(m))
      BY <1>1, <1>3, <1>4, AbsentOrder, AppendOnce DEF Coming
    <3> QED
      BY <1>1, <1>4, <2>1, <3>1, <3>2, <3>3, <3>4
  <2>2. CASE n # m
    <3>1. Coming(n)
      BY <1>5, <2>2
    <3>2. Qos[n] # 2 => Once(inbound', Message(n))
      BY <1>1, <1>3, <1>5, <2>2, <3>1, AppendOnce DEF MessagesDue
    <3> QED
      BY <1>1, <1>2, <1>5, <2>2, <3>1, <3>2 DEF MessagesDue
  <2> QED
    BY <2>1, <2>2
<1>10. ReleasesFollow'
  <2>1. ASSUME NEW n \in Arrival, Release(n) \in Range(inbound')
        PROVE  /\ <<"pubcomp", InboundId[n]>> \notin written
               /\ Once(inbound', Release(n))
               /\ \E k \in Arrival :
                    /\ InboundId[k] = InboundId[n] /\ outbound'[k] = "released"
                    /\ Before(inbound', Message(k), Release(n))
    <3>1. Release(n) \in Range(inbound)
      BY <1>3, <1>5, <2>1
    <3>2. PICK k \in Arrival : /\ InboundId[k] = InboundId[n] /\ outbound[k] = "released"
                               /\ Before(inbound, Message(k), Release(n))
      BY <3>1 DEF ReleasesFollow
    <3>3. k # m
      BY <1>1, <3>2
    <3>4. Before(inbound', Message(k), Release(n))
      BY <1>1, <1>3, <1>5, <3>2, <3>3, AppendBefore
    <3>5. Once(inbound', Release(n))
      <4>1. Once(inbound, Release(n))
        BY <3>1 DEF ReleasesFollow
      <4> QED
        BY <1>1, <1>3, <1>5, <4>1, AppendOnce
    <3> QED
      BY <1>2, <3>1, <3>2, <3>3, <3>4, <3>5 DEF ReleasesFollow
  <2> QED
    BY <1>1, <2>1 DEF ReleasesFollow, Release, Message
<1>11. AnswersDue'
  <2>1. \A n \in Arrival : InFlight(n) => n # m
    BY <1>4
  <2>2. \A n \in Arrival : outbound[n] = "released" /\ ~Coming(n)
                             => outbound'[n] = "released" /\ ~Coming(n)'
    BY <1>1, <1>2, <1>5
  <2>3. \A n \in Arrival : /\ outbound[n] = "sent" => outbound'[n] = "sent"
                           /\ InFlight(n) => InFlight(n)'
    BY <1>1, <1>2, <1>5, <2>1
  <2> QED
    BY <1>1, <2>2, <2>3, AnswersStay
<1>12. ForwardsRemembered'
  BY <1>1, <1>2, <1>4, <1>5 DEF ForwardsRemembered
<1> QED
  BY <1>7, <1>8, <1>9, <1>10, <1>11, <1>12

\* The broker repeats a PUBLISH before it releases it.
LEMMA ForwardRepeatsPublish ==
  ASSUME ForwardInv, NEW m \in Arrival, BrokerRepeatsPublish(m)
  PROVE  ForwardInv'
<1> USE DEF ForwardInv
<1>1. /\ inbound \in Seq(Packet) /\ inbound' = Append(inbound, Message(m))
      /\ UNCHANGED <<written, observed, incomingPub, outbound>>
      /\ outbound[m] = "sent" /\ Qos[m] = 2
  BY DEF BrokerRepeatsPublish, Send, ForwardTypes, stateVars
<1>2. /\ inbound' \in Seq(Packet) /\ Message(m) \in Packet
      /\ Range(inbound') = Range(inbound) \cup {Message(m)}
  BY <1>1, AppendRange, MessageNames
<1>3. \A n \in Arrival :
        /\ InFlight(n)' <=> InFlight(n)
        /\ n # m => Message(n) # Message(m)
        /\ n # m => (Coming(n)' <=> Coming(n))
        /\ Release(n) # Message(m)
  BY <1>1, <1>2, MessageNames DEF Coming, InFlight, Release, Message
<1>4. ForwardTypes' /\ ForwardedOnce' /\ IdentifiersExclusive'
  BY <1>1, <1>2, <1>3 DEF ForwardTypes, ForwardedOnce, IdentifiersExclusive
<1>5. MessagesDue'
  <2> SUFFICES ASSUME NEW n \in Arrival, Coming(n)'
               PROVE  /\ outbound'[n] # "new"
                      /\ Qos[n] = 2 => InFlight(n)'
                      /\ Qos[n] = 1 => /\ outbound'[n] = "sent"
                                       /\ <<"puback", InboundId[n]>> \notin written'
                      /\ Qos[n] # 2 => /\ n \notin Range(observed')
                                       /\ Once(inbound', Message(n))
    BY DEF MessagesDue, Message
  <2>1. CASE n = m
    BY <1>1, <1>3, <2>1 DEF InFlight
  <2>2. CASE n # m
    <3>1. Coming(n)
      BY <1>3, <2>2
    <3>2. Qos[n] # 2 => Once(inbound', Message(n))
      BY <1>1, <1>2, <1>3, <2>2, <3>1, AppendOnce DEF MessagesDue
    <3> QED
      BY <1>1, <1>3, <2>2, <3>1, <3>2 DEF MessagesDue
  <2> QED
    BY <2>1, <2>2
<1>6. ReleasesFollow'
  <2>1. ASSUME NEW n \in Arrival, Release(n) \in Range(inbound')
        PROVE  /\ <<"pubcomp", InboundId[n]>> \notin written
               /\ Once(inbound', Release(n))
               /\ \E k \in Arrival :
                    /\ InboundId[k] = InboundId[n] /\ outbound[k] = "released"
                    /\ Before(inbound', Message(k), Release(n))
    <3>1. Release(n) \in Range(inbound)
      BY <1>2, <1>3, <2>1
    <3>2. PICK k \in Arrival : /\ InboundId[k] = InboundId[n] /\ outbound[k] = "released"
                               /\ Before(inbound, Message(k), Release(n))
      BY <3>1 DEF ReleasesFollow
    <3>3. k # m
      BY <1>1, <3>2
    <3>4. Before(inbound', Message(k), Release(n))
      BY <1>1, <1>2, <1>3, <3>2, <3>3, AppendBefore
    <3>5. Once(inbound', Release(n))
      BY <1>1, <1>2, <1>3, <3>1, AppendOnce DEF ReleasesFollow
    <3> QED
      BY <3>1, <3>2, <3>4, <3>5 DEF ReleasesFollow
  <2> QED
    BY <1>1, <2>1 DEF ReleasesFollow, Release, Message
<1>7. AnswersDue'
  <2>1. \A n \in Arrival : outbound[n] = "released" /\ ~Coming(n) => ~Coming(n)'
    BY <1>1, <1>3
  <2> QED
    BY <1>1, <1>3, <2>1, AnswersStay
<1>8. ForwardsRemembered'
  BY <1>1, <1>3 DEF ForwardsRemembered
<1> QED
  BY <1>4, <1>5, <1>6, <1>7, <1>8

\* The broker releases what it was told was received.
LEMMA ForwardReleases ==
  ASSUME ForwardInv, NEW m \in Arrival, BrokerReleases(m)
  PROVE  ForwardInv'
<1> USE DEF ForwardInv
<1>1. /\ inbound \in Seq(Packet) /\ inbound' = Append(inbound, Release(m))
      /\ outbound \in [Arrival -> {"new", "sent", "received", "released", "done"}]
      /\ UNCHANGED <<written, observed, incomingPub>>
      /\ outbound[m] = "received"
      /\ outbound' = [outbound EXCEPT ![m] = "released"]
  BY DEF BrokerReleases, Send, ForwardTypes, stateVars, Release
<1>2. /\ outbound'[m] = "released"
      /\ \A n \in Arrival : n # m => outbound'[n] = outbound[n]
      /\ outbound' \in [Arrival -> {"new", "sent", "received", "released", "done"}]
  BY <1>1
<1>3. /\ inbound' \in Seq(Packet) /\ Release(m) \in Packet
      /\ Range(inbound') = Range(inbound) \cup {Release(m)}
  BY <1>1, AppendRange, MessageNames
<1>4. \A n \in Arrival :
        /\ InFlight(n)' <=> InFlight(n)
        /\ Message(n) # Release(m)
        /\ Coming(n)' <=> Coming(n)
  BY <1>1, <1>2, <1>3, MessageNames DEF Coming, InFlight, Release, Message
<1>5. InFlight(m) /\ Qos[m] = 2
  BY <1>1 DEF InFlight, IdentifiersExclusive
<1>6. \A n \in Arrival : outbound[n] = "released" => InboundId[n] # InboundId[m]
  BY <1>1, <1>5 DEF IdentifiersExclusive, InFlight
<1>7. Release(m) \notin Range(inbound)
  BY <1>6 DEF ReleasesFollow
<1>8. ForwardTypes' /\ ForwardedOnce'
  BY <1>1, <1>2, <1>3 DEF ForwardTypes, ForwardedOnce
<1>9. IdentifiersExclusive'
  BY <1>2, <1>4, <1>5 DEF IdentifiersExclusive
<1>10. MessagesDue'
  <2>1. ASSUME NEW n \in Arrival, Coming(n)
        PROVE  /\ outbound'[n] # "new"
               /\ Qos[n] = 2 => InFlight(n)'
               /\ Qos[n] = 1 => /\ outbound'[n] = "sent"
                                /\ <<"puback", InboundId[n]>> \notin written
               /\ Qos[n] # 2 => /\ n \notin Range(observed)
                                /\ Once(inbound', Message(n))
    <3>1. Qos[n] # 2 => Once(inbound', Message(n))
      BY <1>1, <1>3, <1>4, <2>1, AppendOnce DEF MessagesDue
    <3> QED
      BY <1>2, <1>4, <1>5, <2>1, <3>1 DEF MessagesDue
  <2> QED
    BY <1>1, <1>4, <2>1 DEF MessagesDue, Message
<1>11. ReleasesFollow'
  <2>1. ASSUME NEW n \in Arrival, Release(n) \in Range(inbound')
        PROVE  /\ <<"pubcomp", InboundId[n]>> \notin written
               /\ Once(inbound', Release(n))
               /\ \E k \in Arrival :
                    /\ InboundId[k] = InboundId[n] /\ outbound'[k] = "released"
                    /\ Before(inbound', Message(k), Release(n))
    <3>1. CASE Release(n) \in Range(inbound)
      <4>1. PICK k \in Arrival : /\ InboundId[k] = InboundId[n] /\ outbound[k] = "released"
                                 /\ Before(inbound, Message(k), Release(n))
        BY <3>1 DEF ReleasesFollow
      <4>2. outbound'[k] = "released"
        BY <1>2, <4>1
      <4>3. Before(inbound', Message(k), Release(n))
        BY <1>1, <1>3, <1>4, <4>1, AppendBefore
      <4>4. Once(inbound', Release(n))
        BY <1>1, <1>3, <1>7, <3>1, AppendOnce DEF ReleasesFollow
      <4> QED
        BY <3>1, <4>1, <4>2, <4>3, <4>4 DEF ReleasesFollow
    <3>2. CASE Release(n) = Release(m)
      <4>1. InboundId[n] = InboundId[m]
        BY <3>2 DEF Release
      <4>2. <<"pubcomp", InboundId[n]>> \notin written
        BY <1>1, <1>5, <4>1, AnswersOwn
      <4>3. Once(inbound', Release(n))
        BY <1>1, <1>3, <1>7, <3>2, AbsentOrder, AppendOnce
      <4>4. Before(inbound', Message(m), Release(n))
        BY <1>1, <1>3, <1>4, <1>7, <3>2, AbsentOrder, AppendBefore
      <4> QED
        BY <1>2, <4>1, <4>2, <4>3, <4>4
    <3> QED
      BY <1>3, <2>1, <3>1, <3>2
  <2> QED
    BY <1>1, <2>1 DEF ReleasesFollow, Release, Message
<1>12. AnswersDue'
  <2>1. \A n \in Arrival :
          /\ outbound[n] = "sent" => outbound'[n] = "sent"
          /\ outbound[n] = "released" => outbound'[n] = "released"
    BY <1>1, <1>2
  <2> QED
    BY <1>1, <1>4, <2>1, AnswersStay
<1>13. ForwardsRemembered'
  BY <1>1, <1>2, <1>4 DEF ForwardsRemembered
<1> QED
  BY <1>8, <1>9, <1>10, <1>11, <1>12, <1>13

\* Steps that take nothing and add nothing, and answer no arrival.
LEMMA ForwardQuiet ==
  ASSUME ForwardInv, UNCHANGED <<inbound, outbound, observed, incomingPub>>,
         \A kind \in AckKind, n \in Arrival :
           <<kind, InboundId[n]>> \in written' => <<kind, InboundId[n]>> \in written
  PROVE  ForwardInv'
<1>1. inbound' \in Seq(Packet)
  BY DEF ForwardInv, ForwardTypes
<1>2. \A n \in Arrival : Coming(n)' <=> Coming(n)
  BY DEF Coming, Message
<1> QED
  BY <1>1, <1>2, ForwardFrame

\* Steps of the event loop that read nothing.
LEMMA ForwardPoll ==
  ASSUME ForwardInv,
         (\E c \in Call : AdmitPublish(c)) \/ AdmitDisconnect \/ SendDisconnect \/ HandleEvent
  PROVE  ForwardInv'
<1>1. UNCHANGED <<inbound, outbound, observed, incomingPub>>
  BY DEF AdmitPublish, AdmitDisconnect, SendDisconnect, HandleEvent, PublishSent,
         Received, Acknowledged, Deliver, DisconnectSent, Event, stateVars, brokerVars
<1>2. \A kind \in AckKind, n \in Arrival :
        <<kind, InboundId[n]>> \in written' => <<kind, InboundId[n]>> \in written
  <2>1. CASE \E c \in Call : AdmitPublish(c)
    <3>1. PICK id, c : written' = {<<"publish", id, c>>}
      BY <2>1 DEF AdmitPublish
    <3>2. <<"publish", id, c>>[1] = "publish" /\ \A kind, n : <<kind, n>>[1] = kind
      OBVIOUS
    <3> QED
      BY <3>1, <3>2 DEF AckKind
  <2>2. CASE SendDisconnect
    BY <2>2 DEF SendDisconnect, AckKind
  <2>3. CASE AdmitDisconnect \/ HandleEvent
    <3>1. written' = written
      BY <2>3 DEF AdmitDisconnect, HandleEvent, PublishSent, Received, Acknowledged,
                  Deliver, DisconnectSent, Event
    <3> QED
      BY <3>1
  <2> QED
    BY <2>1, <2>2, <2>3
<1> QED
  BY <1>1, <1>2, ForwardQuiet

\* Steps that read a packet, and the end of a batch.
LEMMA ForwardRead ==
  ASSUME ForwardInv, ReadStep
  PROVE  ForwardInv'
<1>1. ASSUME NEW id \in Id, NEW c \in Call,
             PubAckRead(id, c) \/ PubRecRead(id, c) \/ PubCompRead(id, c)
      PROVE  ForwardInv'
  <2>1. PICK kind \in AckKind :
          /\ Reading(<<kind, id>>)
          /\ UNCHANGED <<outbound, observed, incomingPub>>
          /\ written' = written \/ written' = written \cup {<<"pubrel", id>>}
    BY <1>1 DEF PubAckRead, PubRecRead, PubCompRead, AckKind, brokerVars
  <2>2. \A k \in AckKind, n \in Arrival :
          <<k, InboundId[n]>> \in written' => <<k, InboundId[n]>> \in written
    BY <2>1 DEF AckKind
  <2>3. /\ inbound # <<>> /\ Head(inbound) = <<kind, id>> /\ inbound' = Tail(inbound)
    BY <2>1 DEF Reading
  <2>4. id \in Nat
    BY MaxInflightPositive DEF Id
  <2> QED
    BY <2>1, <2>2, <2>3, <2>4, ForwardAcks
<1>2. ASSUME NEW kind \in AckKind, NEW id \in Id \cup {UnusedId}, Unsolicited(kind, id)
      PROVE  ForwardInv'
  <2>1. /\ Reading(<<kind, id>>)
        /\ UNCHANGED <<outbound, observed, incomingPub, written>>
    BY <1>2 DEF Unsolicited, stateVars, brokerVars
  <2>2. /\ inbound # <<>> /\ Head(inbound) = <<kind, id>> /\ inbound' = Tail(inbound)
    BY <2>1 DEF Reading
  <2>3. id \in Nat
    BY MaxInflightPositive DEF Id, UnusedId
  <2> QED
    BY <2>1, <2>2, <2>3, ForwardAcks
<1>3. CASE EndRead
  BY <1>3, ForwardQuiet DEF EndRead, stateVars, brokerVars
<1> QED
  BY <1>1, <1>2, <1>3, ForwardPublishRead, ForwardPubRelRead DEF ReadStep, AckKind

\* Steps of the broker.
LEMMA ForwardBroker ==
  ASSUME ForwardInv, BrokerStep
  PROVE  ForwardInv'
<1>1. ASSUME NEW kind \in AckKind, NEW id \in Id \cup {UnusedId}, Send(<<kind, id>>),
             UNCHANGED outbound
      PROVE  ForwardInv'
  <2>1. id \in Nat
    BY MaxInflightPositive DEF Id, UnusedId
  <2>2. /\ inbound' = Append(inbound, <<kind, id>>)
        /\ UNCHANGED <<outbound, observed, incomingPub, written>>
    BY <1>1 DEF Send, stateVars
  <2> QED
    BY <2>1, <2>2, ForwardAcks
<1>2. ASSUME NEW id \in Id, NEW c \in Call,
             BrokerAnswers(id, c) \/ BrokerRepeatsRec(id, c) \/ BrokerCompletes(id, c)
      PROVE  ForwardInv'
  <2>1. PICK kind \in AckKind : Send(<<kind, id>>) /\ UNCHANGED outbound
    BY <1>2 DEF BrokerAnswers, BrokerRepeatsRec, BrokerCompletes, AckKind
  <2> QED
    BY <1>1, <2>1
<1>3. ASSUME NEW kind \in AckKind, NEW id \in Id \cup {UnusedId}, BrokerStrays(kind, id)
      PROVE  ForwardInv'
  BY <1>1, <1>3 DEF BrokerStrays
<1> QED
  BY <1>2, <1>3, ForwardPublishes, ForwardRepeatsPublish, ForwardReleases
     DEF BrokerStep, AckKind

\* Every step of the session preserves it.
LEMMA ForwardStep ==
  ASSUME ForwardInv, [MqttNext]_<<vars, mqttVars>>
  PROVE  ForwardInv'
<1>1. CASE MqttStep
  <2>1. CASE \/ \E c \in Call : TakeCommandMqtt(c)
             \/ BeginClose \/ CommandsEnded \/ DeadlinePasses \/ LoseConnection
    <3>1. UNCHANGED <<inbound, outbound, observed, incomingPub, written>>
      BY <2>1 DEF TakeCommandMqtt, BeginClose, CommandsEnded, DeadlinePasses,
                  LoseConnection, mqttVars, stateVars, brokerVars
    <3> QED
      BY <3>1, ForwardQuiet
  <2> QED
    BY <1>1, <2>1, ForwardPoll, ForwardFlush, ForwardRead, ForwardBroker
       DEF MqttStep, PollStep
<1>2. CASE UNCHANGED mqttVars
  BY <1>2, ForwardQuiet DEF mqttVars, stateVars, brokerVars
<1> QED
  BY <1>1, <1>2 DEF MqttNext

\* rust/vendor/rumqttc-v4-next/src/state.rs handle_incoming_publish and
\* handle_incoming_pubrel: for any arrivals, whatever identifiers the broker uses
\* again and however often it repeats a PUBLISH, a message is forwarded once.
THEOREM ForwardsOnce == MqttSpec => []ForwardedOnce
<1>1. MqttInit => ForwardInv
  BY DEF MqttInit, ForwardInv, ForwardTypes, IdentifiersExclusive, MessagesDue,
         ReleasesFollow, AnswersDue, ForwardsRemembered, ForwardedOnce, InFlight,
         Coming, Range, IsInjective
<1>2. ForwardInv /\ [MqttNext]_<<vars, mqttVars>> => ForwardInv'
  BY ForwardStep
<1>3. ForwardInv => ForwardedOnce
  BY DEF ForwardInv
<1> QED
  BY <1>1, <1>2, <1>3, PTL DEF MqttSpec

(***************************************************************************)
(* Publishes.  A receipt is evidence because one publish is outstanding at *)
(* a time and what the broker sends about it comes in order: what is on    *)
(* its way is either due to the outstanding publish or begins with a       *)
(* packet that ends the session.                                           *)
(***************************************************************************)

Acks == AckKind \X Id
Stage == {"published", "received", "released"}
Outstanding == outPub \cup outRel

\* The first packet of a queue that is in T is e.
First(s, e, T) == \E p \in DOMAIN s : s[p] = e /\ \A q \in 1 .. p - 1 : s[q] \notin T

\* One publish is outstanding: that of the pending command.
OneOutstanding ==
  /\ publishing \subseteq pending
  /\ publishing # {} => packetId = NoId /\ ~pubrecSeen
  /\ outPub \cap outRel = {}
  /\ Outstanding \subseteq Id \X Call
  /\ \A id \in Id, c \in Call :
       /\ <<id, c>> \in Outstanding =>
            /\ c \in pending /\ publishing = {} /\ Qos[c] # 0
            /\ Outstanding = {<<id, c>>}
       /\ <<id, c>> \in outRel => Qos[c] = 2

\* The packet that is completed next is the frontier's next.
FrontierFollows ==
  /\ lastPkid \in 0 .. MaxInflight /\ lastPuback \in 0 .. MaxInflight
  /\ Outstanding = {} => lastPuback % MaxInflight = lastPkid % MaxInflight
  /\ \A id \in Id, c \in Call :
       <<id, c>> \in Outstanding =>
         /\ id = (lastPuback % MaxInflight) + 1
         /\ lastPkid % MaxInflight = id % MaxInflight

\* The first answer of the broker is one that ends the session.
Refused(kind, id) ==
  \/ kind = "puback" /\ \A c \in Call : <<id, c>> \in outPub => Qos[c] # 1
  \/ kind = "pubrec" /\ \A c \in Call : <<id, c>> \in outPub => Qos[c] # 2
  \/ kind = "pubcomp"

Doomed ==
  /\ outPub # {} /\ outRel = {}
  /\ \E kind \in AckKind, id \in Id :
       First(inbound, <<kind, id>>, Acks) /\ Refused(kind, id)

\* The answers on their way are those of the outstanding publish: the final one
\* comes once and last, and the broker has then done what it says.
Due ==
  /\ \A kind \in AckKind, id \in Id :
       <<kind, id>> \in Range(inbound) => \E c \in Call : <<id, c>> \in Outstanding
  /\ \A id \in Id, c \in Call : <<id, c>> \in Outstanding =>
       /\ <<"puback", id>> \in Range(inbound) =>
            /\ Qos[c] = 1 /\ Once(inbound, <<"puback", id>>)
            /\ c \in acked /\ exchange = {}
       /\ <<"pubrec", id>> \in Range(inbound) => Qos[c] = 2
       /\ <<"pubcomp", id>> \in Range(inbound) =>
            /\ Qos[c] = 2 /\ Once(inbound, <<"pubcomp", id>>)
            /\ Before(inbound, <<"pubrec", id>>, <<"pubcomp", id>>)
            /\ <<id, c>> \in outRel \/ <<"pubrec", id>> \in Range(inbound)
            /\ c \in acked /\ exchange = {}

\* What the broker knows is the outstanding publish, at the stage that what it
\* sent and was sent calls for.
KnownAs(id, c, stage) ==
  /\ <<id, c>> \in Outstanding
  /\ stage = "published" =>
       /\ <<id, c>> \in outPub
       /\ Doomed \/ Range(inbound) \cap Acks = {}
  /\ stage # "published" => Qos[c] = 2
  /\ stage = "received" =>
       \/ Doomed
       \/ /\ <<"pubcomp", id>> \notin Range(inbound)
          /\ <<id, c>> \in outRel \/ <<"pubrec", id>> \in Range(inbound)
  /\ stage = "released" =>
       <<id, c>> \in outRel /\ <<"pubcomp", id>> \notin Range(inbound)

ExchangeFollows ==
  \/ exchange = {}
  \/ \E id \in Id, c \in Call, stage \in Stage :
       exchange = {<<id, c, stage>>} /\ KnownAs(id, c, stage)

\* What is written and not flushed is not known to the broker.
WrittenFollows ==
  /\ \A w \in written :
       w[1] = "publish" => \E id \in {NoId} \cup Id, c \in Call : w = <<"publish", id, c>>
  /\ \A id \in Id, c \in Call :
       /\ <<"publish", id, c>> \in written =>
            /\ phase = "flushing" /\ <<id, c>> \in outPub
            /\ exchange = {} /\ Range(inbound) \cap Acks = {}
       /\ <<id, c>> \in outPub => <<"pubrel", id>> \notin written

\* The event of a publish that was written comes alone.
SentEvents ==
  \A id \in {NoId} \cup Id :
    <<"sent", id>> \in Range(queue) =>
      /\ queue = <<<<"sent", id>>>> /\ phase # "reading"
      /\ publishing = {} /\ pending # {}
      /\ \A c \in pending :
           /\ id = NoId =>
                /\ Qos[c] = 0 /\ Outstanding = {}
                /\ phase = "waiting" => c \in acked
                /\ phase = "flushing" => <<"publish", NoId, c>> \in written
           /\ id # NoId =>
                <<id, c>> \in outPub /\ packetId = NoId /\ ~pubrecSeen

\* The events of its answers come in order, the final one once and last.
AckEvents ==
  \A kind \in AckKind, id \in {NoId} \cup Id :
    <<kind, id>> \in Range(queue) =>
      /\ id = packetId /\ publishing = {} /\ pending # {}
      /\ \A c \in pending : Qos[c] = IF kind = "puback" THEN 1 ELSE 2
      /\ kind = "pubcomp" => pubrecSeen \/ <<"pubrec", id>> \in Range(queue)
      /\ kind # "pubrec" =>
           /\ pending \subseteq acked /\ Outstanding = {}
           /\ Once(queue, <<kind, id>>)
           /\ \A k \in AckKind : k # kind => Before(queue, <<k, id>>, <<kind, id>>)

\* A pending command is in the channel, outstanding or answered, and what is
\* outstanding has its identifier once its packet was sent.
EventsMatch ==
  /\ \A id \in Id, c \in Call :
       /\ <<id, c>> \in Outstanding => packetId = id \/ queue = <<<<"sent", id>>>>
       /\ <<id, c>> \in outRel =>
            packetId = id /\ (pubrecSeen \/ <<"pubrec", id>> \in Range(queue))
  /\ pending # {} =>
       \/ publishing = pending \/ Outstanding # {} \/ <<"sent", NoId>> \in Range(queue)
       \/ \E kind \in AckKind \ {"pubrec"}, id \in Id : <<kind, id>> \in Range(queue)

\* The DISCONNECT is written when nothing is left to wait for.
DisconnectIsLast ==
  /\ disconnecting = "no" <=> ~closing
  /\ disconnecting \in {"draining", "sent"} => publishing = {}
  /\ disconnecting = "sent" =>
       /\ pending = {} /\ Outstanding = {}
       /\ queue = <<<<"disconnect", NoId>>>> /\ phase # "reading"
  /\ <<"disconnect", NoId>> \in Range(queue) => disconnecting = "sent"

PublishTypes == inbound \in Seq(Packet) /\ queue \in Seq(Packet)

PublishInv ==
  /\ PublishTypes /\ OneOutstanding /\ FrontierFollows
  /\ Due \/ Doomed
  /\ ExchangeFollows /\ WrittenFollows
  /\ SentEvents /\ AckEvents /\ EventsMatch /\ DisconnectIsLast

SubmittedAnswered ==
  task = "running" \/ result = "Closed" =>
    \A c \in submitted :
      c \in pending \/ <<c, "receipt">> \in completing \/ response[c] = "receipt"

ClosedIsDone ==
  result = "Closed" => pending = {} /\ completing = {} /\ publishing = {} /\ exchange = {}

ReceiptsAcked ==
  \A c \in Call : response[c] = "receipt" \/ <<c, "receipt">> \in completing => c \in acked

\* What poll returns: every acknowledgement among it has an identifier in use.
PollEvent ==
  (AckKind \X Id) \cup ({"sent", "disconnect"} \X ({NoId} \cup Id))
    \cup {Message(m) : m \in Arrival}

EvidenceInv ==
  /\ pubAck = {} /\ queue \in Seq(PollEvent) /\ \A x, y \in completing : x = y
  /\ task = "running" => PublishInv
  /\ SubmittedAnswered /\ ClosedIsDone /\ ReceiptsAcked

\* What the shortest queues hold.
LEMMA ShortRanges ==
  ASSUME NEW e
  PROVE  Range(<<e>>) = {e} /\ Range(<<>>) = {}
BY DEF Range

\* The first packet of a kind stays the first.
LEMMA AppendFirst ==
  ASSUME NEW S, NEW s \in Seq(S), NEW e \in S, NEW T
  PROVE  /\ \A x : First(s, x, T) => First(Append(s, e), x, T)
         /\ Range(s) \cap T = {} => First(Append(s, e), e, T)
<1>1. /\ Len(s) \in Nat /\ DOMAIN s = 1 .. Len(s) /\ DOMAIN Append(s, e) = 1 .. Len(s) + 1
      /\ Append(s, e)[Len(s) + 1] = e
      /\ \A p \in 1 .. Len(s) : Append(s, e)[p] = s[p]
  OBVIOUS
<1>2. ASSUME NEW x, First(s, x, T)
      PROVE  First(Append(s, e), x, T)
  <2>1. PICK p \in 1 .. Len(s) : s[p] = x /\ \A q \in 1 .. p - 1 : s[q] \notin T
    BY <1>1, <1>2 DEF First
  <2>2. p \in 1 .. Len(s) + 1 /\ \A q \in 1 .. p - 1 : q \in 1 .. Len(s)
    BY <1>1
  <2> QED
    BY <1>1, <2>1, <2>2 DEF First
<1>3. ASSUME Range(s) \cap T = {}
      PROVE  First(Append(s, e), e, T)
  <2>1. \A q \in 1 .. Len(s) : Append(s, e)[q] \notin T
    BY <1>1, <1>3 DEF Range
  <2>2. Len(s) + 1 \in DOMAIN Append(s, e) /\ (Len(s) + 1) - 1 = Len(s)
    BY <1>1
  <2> QED
    BY <1>1, <2>1, <2>2 DEF First
<1> QED
  BY <1>2, <1>3

\* The first packet of a kind is the one read, or stays the first.
LEMMA TailFirst ==
  ASSUME NEW S, NEW s \in Seq(S), s # <<>>, NEW T, NEW x \in T, First(s, x, T)
  PROVE  /\ Head(s) \in T => Head(s) = x
         /\ Head(s) \notin T => First(Tail(s), x, T)
<1>1. /\ Len(s) \in Nat \ {0} /\ DOMAIN s = 1 .. Len(s) /\ Head(s) = s[1]
      /\ DOMAIN Tail(s) = 1 .. Len(s) - 1
      /\ \A p \in 1 .. Len(s) - 1 : Tail(s)[p] = s[p + 1]
  OBVIOUS
<1>2. PICK p \in 1 .. Len(s) : s[p] = x /\ \A q \in 1 .. p - 1 : s[q] \notin T
  BY <1>1 DEF First
<1>3. CASE p = 1
  BY <1>1, <1>2, <1>3
<1>4. CASE p # 1
  <2>1. Head(s) \notin T
    BY <1>1, <1>2, <1>4
  <2>2. p - 1 \in DOMAIN Tail(s) /\ Tail(s)[p - 1] = x
    BY <1>1, <1>2, <1>4
  <2>3. ASSUME NEW q \in 1 .. (p - 1) - 1
        PROVE  Tail(s)[q] \notin T
    <3>1. q \in 1 .. Len(s) - 1 /\ q + 1 \in 1 .. p - 1
      BY <1>1
    <3> QED
      BY <1>1, <1>2, <3>1
  <2> QED
    BY <2>1, <2>2, <2>3 DEF First
<1> QED
  BY <1>3, <1>4

\* Nothing that the acknowledgements on their way are about changes.
KeepsAcks ==
  /\ inbound' \in Seq(Packet)
  /\ Range(inbound') \cap Acks = Range(inbound) \cap Acks
  /\ \A e \in Acks : /\ Once(inbound, e) => Once(inbound', e)
                     /\ First(inbound, e, Acks) => First(inbound', e, Acks)
                     /\ \A f \in Acks : Before(inbound, e, f) => Before(inbound', e, f)

\* A packet that is no acknowledgement is sent or read.
LEMMA OtherPackets ==
  ASSUME inbound \in Seq(Packet), NEW packet \in Packet, packet \notin Acks,
         \/ inbound' = Append(inbound, packet)
         \/ inbound # <<>> /\ Head(inbound) = packet /\ inbound' = Tail(inbound)
  PROVE  KeepsAcks
<1>1. CASE inbound' = Append(inbound, packet)
  <2>1. inbound' \in Seq(Packet) /\ Range(inbound') = Range(inbound) \cup {packet}
    BY <1>1, AppendRange
  <2>2. ASSUME NEW e \in Acks
        PROVE  /\ Once(inbound, e) => Once(inbound', e)
               /\ First(inbound, e, Acks) => First(inbound', e, Acks)
               /\ \A f \in Acks : Before(inbound, e, f) => Before(inbound', e, f)
    BY <1>1, AppendOnce, AppendFirst, AppendBefore
  <2> QED
    BY <2>1, <2>2 DEF KeepsAcks
<1>2. CASE inbound # <<>> /\ Head(inbound) = packet /\ inbound' = Tail(inbound)
  BY <1>2, TailKeeps, TailFirst DEF KeepsAcks
<1> QED
  BY <1>1, <1>2

\* What the broker has sent and knows stays due.
LEMMA PeerFrame ==
  ASSUME Due \/ Doomed, ExchangeFollows, KeepsAcks,
         UNCHANGED <<outPub, outRel, exchange, acked>>
  PROVE  (Due \/ Doomed)' /\ ExchangeFollows'
<1>1. \A kind \in AckKind, id \in Id : <<kind, id>> \in Acks
  BY DEF Acks
<1>2. \A kind \in AckKind, id \in Id :
        <<kind, id>> \in Range(inbound') <=> <<kind, id>> \in Range(inbound)
  BY <1>1 DEF KeepsAcks
<1>3. \A id \in Id :
        /\ Once(inbound, <<"puback", id>>) => Once(inbound', <<"puback", id>>)
        /\ Once(inbound, <<"pubcomp", id>>) => Once(inbound', <<"pubcomp", id>>)
        /\ Before(inbound, <<"pubrec", id>>, <<"pubcomp", id>>)
             => Before(inbound', <<"pubrec", id>>, <<"pubcomp", id>>)
  BY <1>1 DEF KeepsAcks, AckKind
<1>4. Outstanding' = Outstanding
  BY DEF Outstanding
<1>5. Due => Due'
  BY <1>2, <1>3, <1>4 DEF Due, AckKind
<1>6. Doomed => Doomed'
  <2>1. \A kind \in AckKind, id \in Id :
          First(inbound, <<kind, id>>, Acks) => First(inbound', <<kind, id>>, Acks')
    BY <1>1 DEF KeepsAcks, Acks, Id
  <2> QED
    BY <2>1 DEF Doomed, Refused
<1>7. ExchangeFollows'
  <2>1. CASE exchange = {}
    BY <2>1 DEF ExchangeFollows
  <2>2. ASSUME NEW id \in Id, NEW c \in Call, NEW stage \in Stage, KnownAs(id, c, stage)
        PROVE  KnownAs(id, c, stage)'
    <3>1. Range(inbound') \cap Acks' = Range(inbound) \cap Acks
      BY DEF KeepsAcks, Acks, Id
    <3> QED
      BY <1>2, <1>4, <1>6, <2>2, <3>1 DEF KnownAs, AckKind
  <2> QED
    BY <2>1, <2>2 DEF ExchangeFollows, Id, Stage
<1> QED
  BY <1>5, <1>6, <1>7

(***************************************************************************)
(* What a step leaves of the invariant when it leaves the variables.       *)
(***************************************************************************)

\* What is outstanding.
LEMMA OutstandingFrame ==
  ASSUME OneOutstanding, FrontierFollows,
         UNCHANGED <<publishing, pending, packetId, pubrecSeen, outPub, outRel,
                     lastPkid, lastPuback>>
  PROVE  OneOutstanding' /\ FrontierFollows'
<1>1. Outstanding' = Outstanding
  BY DEF Outstanding
<1>2. OneOutstanding'
  BY <1>1 DEF OneOutstanding, Id
<1>3. FrontierFollows'
  BY <1>1 DEF FrontierFollows, Id
<1> QED
  BY <1>2, <1>3

\* Nothing is sent or read.
LEMMA SameInbound ==
  ASSUME inbound \in Seq(Packet), UNCHANGED inbound
  PROVE  KeepsAcks
BY DEF KeepsAcks

\* The events.
LEMMA QueueFrame ==
  ASSUME SentEvents, AckEvents, EventsMatch,
         UNCHANGED <<queue, phase, publishing, pending, packetId, pubrecSeen,
                     outPub, outRel, acked, written>>
  PROVE  SentEvents' /\ AckEvents' /\ EventsMatch'
<1>1. Outstanding' = Outstanding
  BY DEF Outstanding
<1> QED
  BY <1>1 DEF SentEvents, AckEvents, EventsMatch, Id, AckKind

\* What is written.
LEMMA WrittenFrame ==
  ASSUME WrittenFollows, KeepsAcks, UNCHANGED <<written, phase, outPub, exchange>>
  PROVE  WrittenFollows'
BY DEF WrittenFollows, KeepsAcks, Acks, Id

\* A step of the session around its driver, while the driver runs on.
LEMMA PublishQuiet ==
  ASSUME PublishInv, UNCHANGED <<pending, mqttVars>>
  PROVE  PublishInv'
<1> USE DEF PublishInv
<1>1. UNCHANGED <<closing, packetId, pubrecSeen, publishing, disconnecting, phase,
                  queue, written, lastPkid, lastPuback, outPub, outRel, inbound,
                  exchange, acked>>
  BY DEF mqttVars, runVars, loopVars, stateVars, pkidVars, brokerVars
<1>2. Outstanding' = Outstanding
  BY <1>1 DEF Outstanding
<1>3. DisconnectIsLast' /\ PublishTypes'
  BY <1>1, <1>2 DEF DisconnectIsLast, PublishTypes
<1> QED
  BY <1>1, <1>3, OutstandingFrame, QueueFrame, WrittenFrame, SameInbound, PeerFrame
     DEF PublishTypes

\* run starts to close.
LEMMA PublishBeginClose ==
  ASSUME PublishInv, BeginClose
  PROVE  PublishInv'
<1> USE DEF PublishInv
<1>1. UNCHANGED <<pending, packetId, pubrecSeen, publishing, phase,
                  queue, written, lastPkid, lastPuback, outPub, outRel, inbound,
                  exchange, acked>>
  BY DEF BeginClose, vars, driverVars, stateVars, pkidVars, brokerVars
<1>2. Outstanding' = Outstanding
  BY <1>1 DEF Outstanding
<1>3. DisconnectIsLast' /\ PublishTypes'
  BY <1>1, <1>2 DEF DisconnectIsLast, PublishTypes, BeginClose
<1> QED
  BY <1>1, <1>3, OutstandingFrame, QueueFrame, WrittenFrame, SameInbound, PeerFrame
     DEF PublishTypes

\* The event loop starts to drain.
LEMMA PublishAdmitDisconnect ==
  ASSUME PublishInv, AdmitDisconnect
  PROVE  PublishInv'
<1> USE DEF PublishInv
<1>1. UNCHANGED <<closing, pending, packetId, pubrecSeen, publishing, phase,
                  queue, written, lastPkid, lastPuback, outPub, outRel, inbound,
                  exchange, acked>>
  BY DEF AdmitDisconnect, vars, driverVars, runVars, stateVars, pkidVars, brokerVars
<1>2. Outstanding' = Outstanding
  BY <1>1 DEF Outstanding
<1>3. DisconnectIsLast' /\ PublishTypes'
  BY <1>1, <1>2 DEF DisconnectIsLast, PublishTypes, AdmitDisconnect, Idle
<1> QED
  BY <1>1, <1>3, OutstandingFrame, QueueFrame, WrittenFrame, SameInbound, PeerFrame
     DEF PublishTypes

\* What a queue holds when nothing is pending, and what the broker then sends.
LEMMA NothingPending ==
  ASSUME PublishInv, pending = {}
  PROVE  /\ publishing = {} /\ outPub = {} /\ outRel = {} /\ Outstanding = {}
         /\ exchange = {}
         /\ \A id \in {NoId} \cup Id : <<"sent", id>> \notin Range(queue)
         /\ \A kind \in AckKind, id \in {NoId} \cup Id : <<kind, id>> \notin Range(queue)
<1> USE DEF PublishInv
<1>1. Outstanding = {}
  BY DEF OneOutstanding
<1>2. exchange = {}
  BY <1>1 DEF ExchangeFollows, KnownAs
<1> QED
  BY <1>1, <1>2 DEF Outstanding, OneOutstanding, SentEvents, AckEvents

\* With nothing outstanding the broker has nothing to answer.
LEMMA NothingOutstanding ==
  ASSUME PublishInv, Outstanding = {}
  PROVE  /\ outPub = {} /\ outRel = {} /\ exchange = {}
         /\ Range(inbound) \cap Acks = {}
<1> USE DEF PublishInv
<1>1. outPub = {} /\ outRel = {}
  BY DEF Outstanding
<1>2. exchange = {}
  BY DEF ExchangeFollows, KnownAs
<1>3. Due
  BY <1>1 DEF Doomed
<1>4. Range(inbound) \cap Acks = {}
  BY <1>3 DEF Due, Acks
<1> QED
  BY <1>1, <1>2, <1>4

\* No answer is on its way: what is on its way is due, whatever is outstanding.
LEMMA NoAcksAreDue ==
  ASSUME Range(inbound) \cap Acks = {}
  PROVE  /\ Due
         /\ \A kind \in AckKind, id \in Id : <<kind, id>> \notin Range(inbound)
<1>1. \A kind \in AckKind, id \in Id : <<kind, id>> \notin Range(inbound)
  BY DEF Acks
<1> QED
  BY <1>1 DEF Due, AckKind

\* run takes a command, or refuses it before it is submitted.
LEMMA PublishSubmit ==
  ASSUME OutcomeInv, PublishInv, NEW c \in Call, TakeCommandMqtt(c)
  PROVE  PublishInv'
<1> USE DEF PublishInv
<1>1. CASE (SkipCancelled(c) \/ RejectExpired(c)) /\ UNCHANGED mqttVars
  <2>1. UNCHANGED pending
    BY <1>1 DEF SkipCancelled, RejectExpired, driverVars
  <2> QED
    BY <1>1, <2>1, PublishQuiet
<1>2. CASE /\ Submit(c) /\ publishing' = {c} /\ packetId' = NoId /\ pubrecSeen' = FALSE
           /\ UNCHANGED <<closing, disconnecting, phase, queue, written, stateVars,
                          inbound, brokerVars>>
  <2>1. /\ pending = {} /\ pending' = {c} /\ ~closing
        /\ UNCHANGED <<closing, disconnecting, phase, queue, written, lastPkid,
                       lastPuback, outPub, outRel, inbound, exchange, acked>>
    BY <1>2 DEF Submit, Recv, TakeCommandMqtt, stateVars, pkidVars, brokerVars
  <2>2. /\ Outstanding' = {} /\ Outstanding = {} /\ outPub = {}
        /\ \A id \in {NoId} \cup Id : <<"sent", id>> \notin Range(queue)
        /\ \A kind \in AckKind, id \in {NoId} \cup Id : <<kind, id>> \notin Range(queue)
    BY <2>1, NothingPending DEF Outstanding
  <2>3. OneOutstanding'
    BY <1>2, <2>1, <2>2 DEF OneOutstanding, Outstanding
  <2>4. FrontierFollows'
    BY <2>1, <2>2 DEF FrontierFollows
  <2>5. (Due \/ Doomed)' /\ ExchangeFollows' /\ WrittenFollows'
    BY <2>1, PeerFrame, SameInbound, WrittenFrame DEF PublishTypes
  <2>6. SentEvents' /\ AckEvents'
    BY <2>1, <2>2 DEF SentEvents, AckEvents, Id, AckKind
  <2>7. EventsMatch'
    BY <1>2, <2>1, <2>2 DEF EventsMatch, Outstanding
  <2>8. DisconnectIsLast' /\ PublishTypes'
    BY <2>1 DEF DisconnectIsLast, PublishTypes
  <2> QED
    BY <2>3, <2>4, <2>5, <2>6, <2>7, <2>8
<1> QED
  BY <1>1, <1>2 DEF TakeCommandMqtt

\* The identifiers go round, and the frontier with them.
LEMMA Circle ==
  ASSUME NEW n \in Nat \ {0}, NEW x \in 0 .. n
  PROVE  /\ x % n \in 0 .. n - 1
         /\ n > 1 => (x + 1) % n # x % n
         /\ n % n = 0 /\ 0 % n = 0
         /\ x # n => x % n = x
<1>1. x % n \in 0 .. n - 1
  OBVIOUS
<1>2. n > 1 => (x + 1) % n # x % n
  OBVIOUS
<1>3. n % n = 0 /\ 0 % n = 0
  OBVIOUS
<1>4. x # n => x % n = x
  OBVIOUS
<1> QED
  BY <1>1, <1>2, <1>3, <1>4

\* With no identifier in use the next one is taken.
LEMMA NextOfNone ==
  ASSUME lastPkid \in 0 .. MaxInflight, outPub = {}, outRel = {}, NEW id \in Id, NextPkid(id)
  PROVE  id = (lastPkid % MaxInflight) + 1
<1>1. InUse = {}
  BY DEF InUse
<1>2. PICK k \in 1 .. MaxInflight : id = After(k) /\ \A j \in 1 .. k - 1 : After(j) \in InUse
  BY DEF NextPkid
<1>3. k = 1
  BY <1>1, <1>2, MaxInflightPositive
<1>4. lastPkid + 1 - 1 = lastPkid
  BY MaxInflightPositive
<1> QED
  BY <1>2, <1>3, <1>4 DEF After

\* The event loop makes a PUBLISH of the pending command.
LEMMA PublishAdmit ==
  ASSUME OutcomeInv, PublishInv, NEW c \in Call, AdmitPublish(c)
  PROVE  PublishInv'
<1> USE DEF PublishInv
<1>1. /\ queue = <<>> /\ c \in publishing /\ publishing' = {} /\ phase' = "flushing"
      /\ disconnecting \in {"no", "asked"}
      /\ UNCHANGED <<closing, pending, packetId, pubrecSeen, disconnecting, inbound,
                     exchange, acked>>
  BY DEF AdmitPublish, Idle, AwaitFlush, vars, driverVars, runVars, brokerVars
<1>2. /\ pending = {c} /\ Outstanding = {} /\ packetId = NoId /\ ~pubrecSeen
      /\ outPub = {} /\ outRel = {} /\ exchange = {} /\ Range(inbound) \cap Acks = {}
  <2>1. pending = {c} /\ packetId = NoId /\ ~pubrecSeen
    BY <1>1 DEF OneOutstanding, OutcomeInv, CommandPlacement
  <2>2. Outstanding = {}
    BY <1>1 DEF OneOutstanding
  <2> QED
    BY <2>1, <2>2, NothingOutstanding
<1>3. KeepsAcks /\ Range(inbound') \cap Acks = {}
  BY <1>1, <1>2, SameInbound DEF PublishTypes
<1>4. CASE /\ Qos[c] = 0
           /\ queue' = <<<<"sent", NoId>>>> /\ written' = {<<"publish", NoId, c>>}
           /\ UNCHANGED stateVars
  <2>1. UNCHANGED <<outPub, outRel, lastPkid, lastPuback>> /\ Outstanding' = {}
    BY <1>2, <1>4 DEF stateVars, pkidVars, Outstanding
  <2>2. Range(queue') = {<<"sent", NoId>>} /\ queue' \in Seq(Packet)
    <3>1. <<"sent", NoId>> \in Packet
      BY DEF Packet, NoId
    <3> QED
      BY <1>4, <3>1, ShortRanges
  <2>3. OneOutstanding' /\ FrontierFollows'
    BY <1>1, <1>2, <2>1 DEF OneOutstanding, FrontierFollows, Outstanding
  <2>4. (Due \/ Doomed)' /\ ExchangeFollows'
    BY <1>1, <1>3, <2>1, PeerFrame
  <2>5. WrittenFollows'
    <3>1. \A id \in Id, d \in Call : <<"publish", id, d>> \notin written'
      BY <1>4, MaxInflightPositive DEF Id, NoId
    <3>2. outPub' = {}
      BY <1>2, <2>1
    <3>3. \A w \in written' : w = <<"publish", NoId, c>>
      BY <1>4
    <3> QED
      BY <3>1, <3>2, <3>3 DEF WrittenFollows
  <2>6. SentEvents'
    BY <1>1, <1>2, <1>4, <2>1, <2>2, MaxInflightPositive DEF SentEvents, Id, NoId
  <2>7. AckEvents'
    BY <2>2 DEF AckEvents, AckKind
  <2>8. EventsMatch'
    BY <2>1, <2>2 DEF EventsMatch, Outstanding
  <2>9. DisconnectIsLast' /\ PublishTypes'
    BY <1>1, <2>2 DEF DisconnectIsLast, PublishTypes
  <2> QED
    BY <2>3, <2>4, <2>5, <2>6, <2>7, <2>8, <2>9
<1>5. CASE /\ Qos[c] > 0
           /\ \E id \in Id :
                /\ NextPkid(id)
                /\ queue' = <<<<"sent", id>>>>
                /\ written' = {<<"publish", id, c>>}
                /\ outPub' = outPub \cup {<<id, c>>}
                /\ pubAck' = pubAck \ {id}
                /\ lastPkid' = IF id = MaxInflight THEN 0 ELSE id
           /\ UNCHANGED <<lastPuback, outRel, incomingPub, observed>>
  <2>1. PICK id \in Id :
          /\ NextPkid(id)
          /\ queue' = <<<<"sent", id>>>>
          /\ written' = {<<"publish", id, c>>}
          /\ outPub' = {<<id, c>>} /\ outRel' = {}
          /\ lastPkid' = IF id = MaxInflight THEN 0 ELSE id
          /\ lastPuback' = lastPuback
    BY <1>2, <1>5
  <2>2. Outstanding' = {<<id, c>>}
    BY <2>1 DEF Outstanding
  <2>3. Range(queue') = {<<"sent", id>>} /\ queue' \in Seq(Packet)
    <3>1. <<"sent", id>> \in Packet
      BY MaxInflightPositive DEF Packet, Id
    <3> QED
      BY <2>1, <3>1, ShortRanges
  <2>4. OneOutstanding'
    BY <1>1, <1>2, <1>5, <2>1, <2>2 DEF OneOutstanding, Outstanding
  <2>5. FrontierFollows'
    <3>1. /\ lastPkid \in 0 .. MaxInflight /\ lastPuback \in 0 .. MaxInflight
          /\ lastPuback % MaxInflight = lastPkid % MaxInflight
      BY <1>2 DEF FrontierFollows
    <3>2. id = (lastPuback % MaxInflight) + 1
      BY <1>2, <2>1, <3>1, NextOfNone
    <3>3. lastPkid' \in 0 .. MaxInflight /\ lastPkid' % MaxInflight = id % MaxInflight
      <4>1. CASE id = MaxInflight
        BY <2>1, <4>1, Circle, MaxInflightPositive
      <4>2. CASE id # MaxInflight
        BY <2>1, <4>2, MaxInflightPositive DEF Id
      <4> QED
        BY <4>1, <4>2
    <3> QED
      BY <2>1, <2>2, <3>1, <3>2, <3>3 DEF FrontierFollows
  <2>6. Due' /\ ExchangeFollows'
    <3>1. \A kind \in AckKind, i \in Id : <<kind, i>> \notin Range(inbound')
      BY <1>1, <1>2, NoAcksAreDue
    <3>2. Due'
      BY <3>1 DEF Due, AckKind
    <3> QED
      BY <1>1, <1>2, <3>2 DEF ExchangeFollows
  <2>7. WrittenFollows'
    <3>1. \A w \in written' : w = <<"publish", id, c>>
      BY <2>1
    <3>2. \A i \in Id, d \in Call :
            <<"publish", i, d>> \in written' => i = id /\ d = c
      BY <2>1
    <3>3. \A i \in Id : <<"pubrel", i>> \notin written'
      <4>1. \A i : <<"pubrel", i>>[1] = "pubrel" /\ <<"publish", id, c>>[1] = "publish"
        OBVIOUS
      <4> QED
        BY <2>1, <4>1
    <3> QED
      BY <1>1, <1>2, <2>1, <3>1, <3>2, <3>3 DEF WrittenFollows, Acks, Id
  <2>8. SentEvents'
    <3>1. id # NoId
      BY MaxInflightPositive DEF Id, NoId
    <3> QED
      BY <1>1, <1>2, <2>1, <2>3, <3>1 DEF SentEvents
  <2>9. AckEvents'
    BY <2>3 DEF AckEvents, AckKind
  <2>10. EventsMatch'
    BY <2>1, <2>2 DEF EventsMatch
  <2>11. DisconnectIsLast' /\ PublishTypes'
    BY <1>1, <2>3 DEF DisconnectIsLast, PublishTypes
  <2> QED
    BY <2>4, <2>5, <2>6, <2>7, <2>8, <2>9, <2>10, <2>11
<1> QED
  BY <1>4, <1>5 DEF AdmitPublish

\* Nothing is left to wait for.
LEMMA PublishSendDisconnect ==
  ASSUME PublishInv, SendDisconnect
  PROVE  PublishInv'
<1> USE DEF PublishInv
<1>1. /\ queue = <<>> /\ disconnecting = "draining" /\ outPub = {} /\ outRel = {}
      /\ disconnecting' = "sent" /\ publishing' = {} /\ phase' = "flushing"
      /\ queue' = <<<<"disconnect", NoId>>>> /\ written' = {<<"disconnect", NoId>>}
      /\ UNCHANGED <<closing, pending, packetId, pubrecSeen, inbound, exchange, acked,
                     outPub, outRel, lastPkid, lastPuback>>
  BY DEF SendDisconnect, Idle, Drained, AwaitFlush, vars, driverVars, runVars, stateVars,
         pkidVars, brokerVars
<1>2. Outstanding = {} /\ Outstanding' = {}
  BY <1>1 DEF Outstanding
<1>3. pending = {} /\ exchange = {} /\ Range(inbound) \cap Acks = {}
  <2>1. publishing = {} /\ Range(queue) = {}
    BY <1>1, ShortRanges DEF DisconnectIsLast
  <2>2. pending = {}
    BY <1>2, <2>1 DEF EventsMatch
  <2> QED
    BY <1>2, <2>2, NothingOutstanding
<1>4. Range(queue') = {<<"disconnect", NoId>>} /\ queue' \in Seq(Packet)
  <2>1. <<"disconnect", NoId>> \in Packet
    BY DEF Packet, NoId
  <2> QED
    BY <1>1, <2>1, ShortRanges
<1>5. OneOutstanding' /\ FrontierFollows'
  BY <1>1, <1>2 DEF OneOutstanding, FrontierFollows
<1>6. (Due \/ Doomed)' /\ ExchangeFollows'
  BY <1>1, SameInbound, PeerFrame DEF PublishTypes
<1>7. WrittenFollows'
  <2>1. \A id \in Id, c \in Call : <<"publish", id, c>> \notin written'
    <3>1. \A id, c : <<"publish", id, c>>[1] = "publish" /\ <<"disconnect", NoId>>[1] = "disconnect"
      OBVIOUS
    <3> QED
      BY <1>1, <3>1
  <2>2. \A w \in written' : w[1] # "publish"
    BY <1>1
  <2> QED
    BY <1>1, <2>1, <2>2 DEF WrittenFollows
<1>8. SentEvents' /\ AckEvents' /\ EventsMatch'
  BY <1>1, <1>2, <1>3, <1>4 DEF SentEvents, AckEvents, EventsMatch, AckKind
<1>9. DisconnectIsLast' /\ PublishTypes'
  BY <1>1, <1>2, <1>3, <1>4 DEF DisconnectIsLast, PublishTypes
<1> QED
  BY <1>5, <1>6, <1>7, <1>8, <1>9

\* The batch is written.
LEMMA PublishEndRead ==
  ASSUME PublishInv, EndRead
  PROVE  PublishInv'
<1> USE DEF PublishInv
<1>1. /\ phase = "reading" /\ phase' = "flushing"
      /\ UNCHANGED <<closing, pending, publishing, packetId, pubrecSeen, disconnecting,
                     queue, written, lastPkid, lastPuback, outPub, outRel, inbound,
                     exchange, acked>>
  BY DEF EndRead, AwaitFlush, vars, driverVars, runVars, stateVars, pkidVars, brokerVars
<1>2. Outstanding' = Outstanding
  BY <1>1 DEF Outstanding
<1>3. \A id \in {NoId} \cup Id : <<"sent", id>> \notin Range(queue)
  BY <1>1 DEF SentEvents
<1>4. WrittenFollows'
  BY <1>1 DEF WrittenFollows, Acks, Id
<1>5. SentEvents'
  BY <1>1, <1>3 DEF SentEvents, Id
<1>6. AckEvents' /\ EventsMatch'
  BY <1>1, <1>2 DEF AckEvents, EventsMatch, Id, AckKind
<1>7. DisconnectIsLast' /\ PublishTypes'
  BY <1>1, <1>2 DEF DisconnectIsLast, PublishTypes
<1> QED
  BY <1>1, <1>4, <1>5, <1>6, <1>7, OutstandingFrame, SameInbound, PeerFrame
     DEF PublishTypes

\* The flush tells the broker of the one publish that was written, or of the
\* release that was.
LEMMA PublishFlush ==
  ASSUME OutcomeInv, PublishInv, Flush
  PROVE  PublishInv'
<1> USE DEF PublishInv
<1> DEFINE moved == {IF x[3] = "received" /\ <<"pubrel", x[1]>> \in written
                     THEN <<x[1], x[2], "released">> ELSE x : x \in exchange}
           sent == {<<p[2], p[3], "published">> :
                      p \in {q \in written : q[1] = "publish" /\ q[2] # NoId}}
<1>1. /\ phase = "flushing" /\ phase' = "waiting" /\ written' = {}
      /\ exchange' = moved \cup sent
      /\ acked' = acked \cup {c \in Call : <<"publish", NoId, c>> \in written}
      /\ UNCHANGED <<closing, pending, publishing, packetId, pubrecSeen, disconnecting,
                     queue, lastPkid, lastPuback, outPub, outRel, inbound>>
  BY DEF Flush, vars, driverVars, runVars, stateVars, pkidVars
<1>2. Outstanding' = Outstanding
  BY <1>1 DEF Outstanding
<1>3. ASSUME \E id \in Id, c \in Call : <<"publish", id, c>> \in written
      PROVE  (Due \/ Doomed)' /\ ExchangeFollows'
  <2>1. PICK id \in Id, c \in Call : <<"publish", id, c>> \in written
    BY <1>3
  <2>2. /\ <<id, c>> \in outPub /\ Outstanding = {<<id, c>>}
        /\ exchange = {} /\ Range(inbound) \cap Acks = {}
    <3>1. <<id, c>> \in outPub /\ exchange = {} /\ Range(inbound) \cap Acks = {}
      BY <2>1 DEF WrittenFollows
    <3> QED
      BY <3>1 DEF OneOutstanding, Outstanding
  <2>3. exchange' = {<<id, c, "published">>}
    <3>1. moved = {}
      BY <2>2
    <3>2. ASSUME NEW p \in written, p[1] = "publish", p[2] # NoId
          PROVE  p = <<"publish", id, c>>
      <4>1. PICK i \in {NoId} \cup Id, d \in Call : p = <<"publish", i, d>>
        BY <3>2 DEF WrittenFollows
      <4>2. i \in Id
        BY <3>2, <4>1
      <4>3. <<i, d>> \in Outstanding
        BY <4>1, <4>2 DEF WrittenFollows, Outstanding
      <4> QED
        BY <2>2, <4>1, <4>3
    <3>3. <<"publish", id, c>>[1] = "publish" /\ <<"publish", id, c>>[2] = id
          /\ <<"publish", id, c>>[3] = c /\ id # NoId
      BY MaxInflightPositive DEF Id, NoId
    <3>4. sent = {<<id, c, "published">>}
      BY <2>1, <3>2, <3>3
    <3> QED
      BY <1>1, <3>1, <3>4
  <2>4. Due'
    <3>1. \A kind \in AckKind, i \in Id : <<kind, i>> \notin Range(inbound')
      BY <1>1, <2>2, NoAcksAreDue
    <3> QED
      BY <3>1 DEF Due, AckKind
  <2>5. ExchangeFollows'
    <3>1. KnownAs(id, c, "published")'
      BY <1>1, <1>2, <2>2 DEF KnownAs, Acks, Id
    <3>2. "published" \in Stage
      BY DEF Stage
    <3> QED
      BY <2>3, <3>1, <3>2 DEF ExchangeFollows, Id, Stage
  <2> QED
    BY <2>4, <2>5
<1>4. ASSUME ~ \E id \in Id, c \in Call : <<"publish", id, c>> \in written
      PROVE  (Due \/ Doomed)' /\ ExchangeFollows'
  <2>1. sent = {}
    <3>1. ASSUME NEW p \in written, p[1] = "publish", p[2] # NoId
          PROVE  FALSE
      <4>1. PICK i \in {NoId} \cup Id, d \in Call : p = <<"publish", i, d>>
        BY <3>1 DEF WrittenFollows
      <4> QED
        BY <1>4, <3>1, <4>1
    <3> QED
      BY <3>1
  <2>2. exchange' = moved
    BY <1>1, <2>1
  <2>3. exchange = {} => exchange' = {}
    BY <2>2
  <2>4. Due \/ Doomed => (Due \/ Doomed)'
    <3>1. \A c \in acked : c \in acked'
      BY <1>1
    <3>2. Due => Due'
      BY <1>1, <1>2, <2>3, <3>1 DEF Due, Id, AckKind
    <3>3. Doomed => Doomed'
      BY <1>1 DEF Doomed, Refused, Acks, Id, AckKind
    <3> QED
      BY <3>2, <3>3
  <2>5. ExchangeFollows'
    <3>1. CASE exchange = {}
      BY <2>3, <3>1 DEF ExchangeFollows
    <3>2. CASE exchange # {}
      <4>1. PICK id \in Id, c \in Call, stage \in Stage :
              exchange = {<<id, c, stage>>} /\ KnownAs(id, c, stage)
        BY <3>2 DEF ExchangeFollows
      <4>2. <<id, c, stage>>[1] = id /\ <<id, c, stage>>[2] = c /\ <<id, c, stage>>[3] = stage
        OBVIOUS
      <4>3. CASE stage = "received" /\ <<"pubrel", id>> \in written
        <5>1. exchange' = {<<id, c, "released">>}
          BY <2>2, <4>1, <4>2, <4>3
        <5>2. <<id, c>> \in outRel /\ Qos[c] = 2
          BY <4>1, <4>3 DEF KnownAs, WrittenFollows, Outstanding
        <5>3. <<"pubcomp", id>> \notin Range(inbound)
          BY <4>1, <4>3, <5>2 DEF KnownAs, Doomed
        <5>4. KnownAs(id, c, "released")'
          BY <1>1, <1>2, <4>1, <5>2, <5>3 DEF KnownAs
        <5>5. "released" \in Stage
          BY DEF Stage
        <5> QED
          BY <5>1, <5>4, <5>5 DEF ExchangeFollows, Id, Stage
      <4>4. CASE ~(stage = "received" /\ <<"pubrel", id>> \in written)
        <5>1. exchange' = exchange
          BY <2>2, <4>1, <4>2, <4>4
        <5>2. Doomed' <=> Doomed
          BY <1>1 DEF Doomed, Refused, Acks, Id, AckKind
        <5>3. KnownAs(id, c, stage)'
          BY <1>1, <1>2, <4>1, <5>2 DEF KnownAs, Acks, Id
        <5> QED
          BY <4>1, <5>1, <5>3 DEF ExchangeFollows, Id, Stage
      <4> QED
        BY <4>3, <4>4
    <3> QED
      BY <3>1, <3>2
  <2> QED
    BY <2>4, <2>5
<1>5. WrittenFollows'
  BY <1>1 DEF WrittenFollows
<1>6. SentEvents'
  <2>1. \A c \in Call : <<"publish", NoId, c>> \in written => c \in acked'
    BY <1>1
  <2>2. \A c \in pending : c \in acked => c \in acked'
    BY <1>1
  <2> QED
    <3>1. \A id \in {NoId} \cup Id : <<"sent", id>> \in Range(queue) =>
            \A c \in pending : id = NoId => c \in acked'
      BY <1>1, <2>1 DEF SentEvents, OutcomeInv, SessionTypeOK
    <3> QED
      BY <1>1, <1>2, <3>1 DEF SentEvents, Id
<1>7. AckEvents' /\ EventsMatch'
  <2>1. pending \subseteq acked => pending \subseteq acked'
    BY <1>1
  <2> QED
    BY <1>1, <1>2, <2>1 DEF AckEvents, EventsMatch, Id, AckKind
<1>8. DisconnectIsLast' /\ PublishTypes'
  BY <1>1, <1>2 DEF DisconnectIsLast, PublishTypes
<1> QED
  BY <1>1, <1>3, <1>4, <1>5, <1>6, <1>7, <1>8, OutstandingFrame

\* While a batch is read nothing is left of an earlier one.
LEMMA ReadFacts ==
  ASSUME PublishInv, NEW packet, Reading(packet)
  PROVE  /\ inbound # <<>> /\ packet = Head(inbound) /\ inbound' = Tail(inbound)
         /\ \A id \in {NoId} \cup Id : <<"sent", id>> \notin Range(queue)
         /\ \A id \in Id, c \in Call : <<"publish", id, c>> \notin written
         /\ disconnecting # "sent"
         /\ \A id \in Id, c \in Call : <<id, c>> \in Outstanding => packetId = id
<1> USE DEF PublishInv
<1>1. /\ inbound # <<>> /\ packet = Head(inbound) /\ inbound' = Tail(inbound)
      /\ \/ phase = "reading"
         \/ /\ phase = "waiting" /\ queue = <<>>
            /\ disconnecting \in {"no", "draining"}
  BY DEF Reading, Idle
<1>2. \A id \in {NoId} \cup Id : <<"sent", id>> \notin Range(queue)
  BY <1>1, ShortRanges DEF SentEvents
<1>3. \A id \in Id, c \in Call : <<"publish", id, c>> \notin written
  BY <1>1 DEF WrittenFollows
<1>4. disconnecting # "sent"
  BY <1>1 DEF DisconnectIsLast
<1>5. ASSUME NEW id \in Id, queue = <<<<"sent", id>>>> PROVE FALSE
  BY <1>2, <1>5, ShortRanges
<1>6. \A id \in Id, c \in Call : <<id, c>> \in Outstanding => packetId = id
  BY <1>5 DEF EventsMatch
<1> QED
  BY <1>1, <1>2, <1>3, <1>4, <1>6

\* mark_outgoing_packet_id_complete of the frontier's next identifier closes it.
LEMMA FrontierAdvances ==
  ASSUME pubAck = {}, lastPuback \in 0 .. MaxInflight, NEW id \in Id,
         id = (lastPuback % MaxInflight) + 1, MarkComplete(id)
  PROVE  pubAck' = {} /\ lastPuback' = id
<1> DEFINE Nth(k) == ((lastPuback + k - 1) % MaxInflight) + 1
           Closed(k) == /\ \A j \in 1 .. k : Nth(j) \in {id}
                        /\ k = MaxInflight \/ Nth(k + 1) \notin {id}
<1>1. MaxInflight \in Nat \ {0} /\ lastPuback + 1 - 1 = lastPuback
      /\ lastPuback + 2 - 1 = lastPuback + 1
  BY MaxInflightPositive
<1>2. Nth(1) = id
  BY <1>1
<1>3. MaxInflight > 1 => Nth(2) # id
  <2>1. MaxInflight > 1 => (lastPuback + 1) % MaxInflight # lastPuback % MaxInflight
    BY <1>1, Circle
  <2>2. (lastPuback + 1) % MaxInflight \in Int /\ lastPuback % MaxInflight \in Int
    BY <1>1
  <2> QED
    BY <1>1, <2>1, <2>2
<1>4. Closed(1)
  BY <1>1, <1>2, <1>3
<1>5. ASSUME NEW k \in 0 .. MaxInflight, Closed(k)
      PROVE  k = 1
  <2>1. k # 0
    <3> SUFFICES ASSUME k = 0 PROVE FALSE
      OBVIOUS
    <3>1. k # MaxInflight /\ Nth(k + 1) = Nth(1)
      BY <1>1
    <3> HIDE DEF Nth
    <3> QED
      BY <1>2, <1>5, <3>1
  <2>2. ASSUME k > 1 PROVE FALSE
    <3>1. 2 \in 1 .. k /\ MaxInflight > 1
      BY <1>1, <2>2
    <3> HIDE DEF Nth
    <3> QED
      BY <1>3, <1>5, <3>1
  <2> QED
    BY <1>1, <2>1, <2>2
<1> HIDE DEF Closed
<1>6. (CHOOSE k \in 0 .. MaxInflight : Closed(k)) = 1
  <2>1. 1 \in 0 .. MaxInflight
    BY <1>1
  <2> QED
    BY <1>4, <1>5, <2>1
<1>7. FrontierEnd({id}) = 1
  BY <1>6 DEF FrontierEnd, Closed
<1>8. pubAck \cup {id} = {id} /\ FrontierEnd(pubAck \cup {id}) = 1 /\ 1 # 0
  <2>1. pubAck \cup {id} = {id}
    OBVIOUS
  <2> QED
    BY <1>7, <2>1
<1>9. /\ pubAck' = {id} \ {Nth(j) : j \in 1 .. 1}
      /\ lastPuback' = Nth(1)
  <2>1. /\ pubAck' = (pubAck \cup {id}) \
                       {Nth(j) : j \in 1 .. FrontierEnd(pubAck \cup {id})}
        /\ lastPuback' = IF FrontierEnd(pubAck \cup {id}) = 0 THEN lastPuback
                         ELSE Nth(FrontierEnd(pubAck \cup {id}))
    BY DEF MarkComplete
  <2> QED
    BY <1>8, <2>1
<1>10. {Nth(j) : j \in 1 .. 1} = {id}
  BY <1>1, <1>2
<1> QED
  BY <1>2, <1>9, <1>10

\* The final answer: nothing is outstanding and nothing more is on its way.
LEMMA PublishFinalRead ==
  ASSUME OutcomeInv, PublishInv, pubAck = {},
         NEW id \in Id, NEW c \in Call, NEW kind \in {"puback", "pubcomp"},
         Reading(<<kind, id>>), Outstanding = {<<id, c>>},
         outPub' = {}, outRel' = {}, MarkComplete(id), phase' = "reading",
         queue' = Append(queue, <<kind, id>>), Range(inbound') \cap Acks = {},
         exchange = {}, c \in acked,
         Qos[c] = IF kind = "puback" THEN 1 ELSE 2,
         kind = "pubcomp" => pubrecSeen \/ <<"pubrec", id>> \in Range(queue),
         UNCHANGED <<closing, pending, publishing, packetId, pubrecSeen, disconnecting,
                     written, lastPkid, exchange, acked>>
  PROVE  PublishInv'
<1> USE DEF PublishInv
<1>1. Outstanding' = {}
  BY DEF Outstanding
<1>2. /\ inbound \in Seq(Packet) /\ queue \in Seq(Packet) /\ <<kind, id>> \in Packet
      /\ kind \in AckKind
  BY MaxInflightPositive DEF PublishTypes, Packet, AckKind, Id
<1>3. /\ inbound' \in Seq(Packet) /\ queue' \in Seq(Packet)
      /\ Range(queue') = Range(queue) \cup {<<kind, id>>}
  <2>1. inbound # <<>> /\ inbound' = Tail(inbound)
    BY ReadFacts
  <2>2. inbound' \in Seq(Packet)
    BY <1>2, <2>1
  <2> QED
    BY <1>2, <2>2, AppendRange, SMTT(30)
<1>4. pending = {c} /\ publishing = {} /\ packetId = id
  <2>1. <<id, c>> \in Outstanding
    OBVIOUS
  <2> QED
    BY <2>1, ReadFacts DEF OneOutstanding, OutcomeInv, CommandPlacement
<1>5. OneOutstanding'
  BY <1>1, <1>4 DEF OneOutstanding
<1>6. FrontierFollows'
  <2>1. /\ lastPuback \in 0 .. MaxInflight /\ lastPkid \in 0 .. MaxInflight
        /\ id = (lastPuback % MaxInflight) + 1 /\ lastPkid % MaxInflight = id % MaxInflight
    BY DEF FrontierFollows
  <2>2. lastPuback' = id
    BY <2>1, FrontierAdvances
  <2> QED
    BY <1>1, <2>1, <2>2, MaxInflightPositive DEF FrontierFollows, Id
<1>7. Due' /\ ExchangeFollows' /\ WrittenFollows'
  <2>1. \A k \in AckKind, i \in Id : <<k, i>> \notin Range(inbound')
    BY DEF Acks
  <2>2. Due'
    BY <2>1 DEF Due, AckKind
  <2>3. WrittenFollows'
    BY ReadFacts DEF WrittenFollows
  <2> QED
    BY <2>2, <2>3 DEF ExchangeFollows
<1>8. SentEvents'
  BY <1>3, ReadFacts DEF SentEvents, Id
<1>9. ASSUME NEW k \in AckKind, NEW i \in {NoId} \cup Id, <<k, i>> \in Range(queue)
      PROVE  k = "pubrec" /\ i = id /\ Qos[c] = 2
  BY <1>4, <1>9 DEF AckEvents, AckKind
<1>10. AckEvents'
  <2>1. Once(queue', <<kind, id>>)
    <3>1. <<kind, id>> \notin Range(queue)
      BY <1>2, <1>9
    <3> QED
      BY <1>2, <3>1, AbsentOrder, AppendOnce
  <2>2. \A k \in AckKind : k # kind => Before(queue', <<k, id>>, <<kind, id>>)
    <3>1. <<kind, id>> \notin Range(queue)
      BY <1>2, <1>9
    <3>2. \A k : k # kind => <<k, id>> # <<kind, id>>
      OBVIOUS
    <3> QED
      BY <1>2, <3>1, <3>2, AbsentOrder, AppendBefore
  <2>3. ASSUME NEW k \in AckKind, NEW i \in {NoId} \cup Id', <<k, i>> \in Range(queue')
        PROVE  /\ i = packetId' /\ publishing' = {} /\ pending' # {}
               /\ \A d \in pending' : Qos[d] = IF k = "puback" THEN 1 ELSE 2
               /\ k = "pubcomp" => pubrecSeen' \/ <<"pubrec", i>> \in Range(queue')
               /\ k # "pubrec" =>
                    /\ pending' \subseteq acked' /\ Outstanding' = {}
                    /\ Once(queue', <<k, i>>)
                    /\ \A l \in AckKind : l # k => Before(queue', <<l, i>>, <<k, i>>)
    <3>1. CASE <<k, i>> \in Range(queue)
      BY <1>4, <1>9, <3>1 DEF Id
    <3>2. CASE k = kind /\ i = id
      BY <1>1, <1>3, <1>4, <2>1, <2>2, <3>2
    <3> QED
      BY <1>3, <2>3, <3>1, <3>2
  <2> QED
    BY <2>3 DEF AckEvents
<1>11. EventsMatch'
  <2>1. <<kind, id>> \in Range(queue') /\ kind \in AckKind \ {"pubrec"}
    BY <1>3 DEF AckKind
  <2> QED
    BY <1>1, <2>1 DEF EventsMatch, Outstanding, Id, AckKind
<1>12. DisconnectIsLast' /\ PublishTypes'
  <2>1. <<"disconnect", NoId>> # <<kind, id>>
    OBVIOUS
  <2> QED
    BY <1>3, <2>1, ReadFacts DEF DisconnectIsLast, PublishTypes
<1> QED
  BY <1>5, <1>6, <1>7, <1>8, <1>10, <1>11, <1>12

\* An answer that is not refused is one that was due.
LEMMA AcceptedIsDue ==
  ASSUME PublishInv, NEW id \in Id, NEW c \in Call, NEW kind \in AckKind,
         Reading(<<kind, id>>), <<id, c>> \in Outstanding,
         outRel # {} \/ ~Refused(kind, id)
  PROVE  /\ Due /\ Outstanding = {<<id, c>>}
         /\ <<kind, id>> \in Range(inbound)
         /\ \A k \in AckKind, i \in Id : <<k, i>> \in Range(inbound) => i = id
         /\ \A x \in Range(inbound') : x \in Range(inbound)
<1> USE DEF PublishInv
<1>1. /\ inbound \in Seq(Packet) /\ inbound # <<>> /\ <<kind, id>> = Head(inbound)
      /\ inbound' = Tail(inbound)
  BY ReadFacts DEF PublishTypes
<1>2. <<kind, id>> \in Range(inbound) /\ \A x \in Range(inbound') : x \in Range(inbound)
  BY <1>1, TailKeeps
<1>3. Outstanding = {<<id, c>>}
  BY DEF OneOutstanding
<1>4. ~Doomed
  <2> SUFFICES ASSUME Doomed PROVE FALSE
    OBVIOUS
  <2>1. PICK k \in AckKind, i \in Id : First(inbound, <<k, i>>, Acks) /\ Refused(k, i)
    BY DEF Doomed
  <2>2. <<k, i>> \in Acks /\ <<kind, id>> \in Acks
    BY DEF Acks
  <2>3. <<kind, id>> = <<k, i>>
    BY <1>1, <2>1, <2>2, TailFirst
  <2>4. outRel = {}
    BY DEF Doomed
  <2> QED
    BY <2>1, <2>3, <2>4
<1>5. Due
  BY <1>4
<1>6. \A k \in AckKind, i \in Id : <<k, i>> \in Range(inbound) => i = id
  BY <1>3, <1>5 DEF Due
<1> QED
  BY <1>2, <1>3, <1>5, <1>6

\* PUBACK is read.
LEMMA PublishPubAck ==
  ASSUME OutcomeInv, PublishInv, pubAck = {}, NEW id \in Id, NEW c \in Call, PubAckRead(id, c)
  PROVE  PublishInv'
<1> USE DEF PublishInv
<1>1. /\ Reading(<<"puback", id>>) /\ <<id, c>> \in outPub /\ Qos[c] = 1
      /\ outPub' = outPub \ {<<id, c>>} /\ MarkComplete(id)
      /\ queue' = Append(queue, <<"puback", id>>) /\ phase' = "reading"
      /\ UNCHANGED <<closing, pending, publishing, packetId, pubrecSeen, disconnecting,
                     written, lastPkid, outRel, exchange, acked>>
  BY DEF PubAckRead, vars, driverVars, runVars, brokerVars
<1>2. <<id, c>> \in Outstanding /\ "puback" \in AckKind /\ ~Refused("puback", id)
  BY <1>1 DEF Outstanding, AckKind, Refused
<1>3. /\ Due /\ Outstanding = {<<id, c>>}
      /\ <<"puback", id>> \in Range(inbound)
      /\ \A k \in AckKind, i \in Id : <<k, i>> \in Range(inbound) => i = id
      /\ \A x \in Range(inbound') : x \in Range(inbound)
  BY <1>1, <1>2, AcceptedIsDue
<1>4. /\ Once(inbound, <<"puback", id>>) /\ c \in acked /\ exchange = {}
      /\ <<"pubrec", id>> \notin Range(inbound) /\ <<"pubcomp", id>> \notin Range(inbound)
  BY <1>1, <1>3 DEF Due
<1>5. <<"puback", id>> \notin Range(inbound')
  <2>1. /\ inbound \in Seq(Packet) /\ inbound # <<>> /\ <<"puback", id>> = Head(inbound)
        /\ inbound' = Tail(inbound)
    BY <1>1, ReadFacts DEF PublishTypes
  <2> QED
    BY <1>4, <2>1, TailKeeps
<1>6. Range(inbound') \cap Acks = {}
  BY <1>3, <1>4, <1>5 DEF Acks, AckKind
<1>7. outPub' = {} /\ outRel' = {}
  BY <1>1, <1>3 DEF Outstanding, OneOutstanding
<1> QED
  BY <1>1, <1>3, <1>4, <1>6, <1>7, PublishFinalRead

\* PUBCOMP is read.
LEMMA PublishPubComp ==
  ASSUME OutcomeInv, PublishInv, pubAck = {}, NEW id \in Id, NEW c \in Call, PubCompRead(id, c)
  PROVE  PublishInv'
<1> USE DEF PublishInv
<1>1. /\ Reading(<<"pubcomp", id>>) /\ <<id, c>> \in outRel
      /\ outRel' = outRel \ {<<id, c>>} /\ MarkComplete(id)
      /\ queue' = Append(queue, <<"pubcomp", id>>) /\ phase' = "reading"
      /\ UNCHANGED <<closing, pending, publishing, packetId, pubrecSeen, disconnecting,
                     written, lastPkid, outPub, exchange, acked>>
  BY DEF PubCompRead, vars, driverVars, runVars, brokerVars
<1>2. <<id, c>> \in Outstanding /\ "pubcomp" \in AckKind /\ outRel # {} /\ Qos[c] = 2
  BY <1>1 DEF Outstanding, AckKind, OneOutstanding
<1>3. /\ Due /\ Outstanding = {<<id, c>>}
      /\ <<"pubcomp", id>> \in Range(inbound)
      /\ \A k \in AckKind, i \in Id : <<k, i>> \in Range(inbound) => i = id
      /\ \A x \in Range(inbound') : x \in Range(inbound)
  BY <1>1, <1>2, AcceptedIsDue
<1>4. /\ Once(inbound, <<"pubcomp", id>>) /\ c \in acked /\ exchange = {}
      /\ Before(inbound, <<"pubrec", id>>, <<"pubcomp", id>>)
      /\ <<"puback", id>> \notin Range(inbound)
  <2>1. /\ <<"puback", id>> \in Range(inbound) => Qos[c] = 1
        /\ Once(inbound, <<"pubcomp", id>>) /\ c \in acked /\ exchange = {}
        /\ Before(inbound, <<"pubrec", id>>, <<"pubcomp", id>>)
    BY <1>2, <1>3 DEF Due
  <2> QED
    BY <1>2, <2>1
<1>5. <<"pubcomp", id>> \notin Range(inbound') /\ <<"pubrec", id>> \notin Range(inbound)
  <2>1. /\ inbound \in Seq(Packet) /\ inbound # <<>> /\ <<"pubcomp", id>> = Head(inbound)
        /\ inbound' = Tail(inbound)
    BY <1>1, ReadFacts DEF PublishTypes
  <2> QED
    BY <1>4, <2>1, TailKeeps
<1>6. Range(inbound') \cap Acks = {}
  BY <1>3, <1>4, <1>5 DEF Acks, AckKind
<1>7. outPub' = {} /\ outRel' = {}
  BY <1>1, <1>3 DEF Outstanding, OneOutstanding
<1>8. pubrecSeen \/ <<"pubrec", id>> \in Range(queue)
  BY <1>1 DEF EventsMatch
<1> QED
  BY <1>1, <1>2, <1>3, <1>4, <1>6, <1>7, <1>8, PublishFinalRead

\* PUBREC: the publish is now outstanding as a release.
LEMMA PublishPubRec ==
  ASSUME OutcomeInv, PublishInv, NEW id \in Id, NEW c \in Call, PubRecRead(id, c)
  PROVE  PublishInv'
<1> USE DEF PublishInv
<1>1. /\ Reading(<<"pubrec", id>>)
      /\ <<id, c>> \in outRel \/ (<<id, c>> \in outPub /\ Qos[c] = 2)
      /\ outPub' = outPub \ {<<id, c>>} /\ outRel' = outRel \cup {<<id, c>>}
      /\ written' = written \cup {<<"pubrel", id>>}
      /\ queue' = Append(queue, <<"pubrec", id>>) /\ phase' = "reading"
      /\ UNCHANGED <<closing, pending, publishing, packetId, pubrecSeen, disconnecting,
                     lastPkid, lastPuback, exchange, acked>>
  BY DEF PubRecRead, vars, driverVars, runVars, pkidVars, brokerVars
<1>2. /\ <<id, c>> \in Outstanding /\ "pubrec" \in AckKind /\ Qos[c] = 2
      /\ outRel # {} \/ ~Refused("pubrec", id)
  BY <1>1 DEF Outstanding, AckKind, OneOutstanding, Refused
<1>3. /\ Due /\ Outstanding = {<<id, c>>}
      /\ <<"pubrec", id>> \in Range(inbound)
      /\ \A k \in AckKind, i \in Id : <<k, i>> \in Range(inbound) => i = id
      /\ \A x \in Range(inbound') : x \in Range(inbound)
  BY <1>1, <1>2, AcceptedIsDue
<1>4. /\ outPub' = {} /\ outRel' = {<<id, c>>} /\ Outstanding' = {<<id, c>>}
  BY <1>1, <1>3 DEF Outstanding
<1>5. /\ inbound \in Seq(Packet) /\ inbound # <<>> /\ inbound' = Tail(inbound)
      /\ queue \in Seq(Packet) /\ <<"pubrec", id>> \in Packet
      /\ inbound' \in Seq(Packet)
  <2>1. /\ inbound \in Seq(Packet) /\ inbound # <<>> /\ inbound' = Tail(inbound)
    BY <1>1, ReadFacts DEF PublishTypes
  <2>2. <<"pubrec", id>> \in Packet
    BY MaxInflightPositive DEF Packet, AckKind, Id
  <2> QED
    BY <2>1, <2>2 DEF PublishTypes
<1>6. queue' \in Seq(Packet) /\ Range(queue') = Range(queue) \cup {<<"pubrec", id>>}
  <2>1. queue' = Append(queue, <<"pubrec", id>>)
    BY <1>1
  <2>2. queue \in Seq(Packet) /\ <<"pubrec", id>> \in Packet
    BY <1>5
  <2>3. Range(Append(queue, <<"pubrec", id>>)) = Range(queue) \cup {<<"pubrec", id>>}
    BY ONLY <2>2, AppendRange
  <2>4. Append(queue, <<"pubrec", id>>) \in Seq(Packet)
    BY ONLY <2>2
  <2> QED
    BY ONLY <2>1, <2>3, <2>4
<1>7. pending = {c} /\ publishing = {} /\ packetId = id
  BY <1>1, <1>2, ReadFacts DEF OneOutstanding, OutcomeInv, CommandPlacement
<1>8. OneOutstanding' /\ FrontierFollows'
  <2>1. OneOutstanding'
    BY <1>1, <1>2, <1>4, <1>7 DEF OneOutstanding, Id
  <2>2. FrontierFollows'
    BY <1>1, <1>3, <1>4 DEF FrontierFollows, Id
  <2> QED
    BY <2>1, <2>2
<1>9. Due'
  <2>1. \A k \in AckKind, i \in Id' : <<k, i>> \in Range(inbound') => <<i, c>> \in Outstanding'
    BY <1>3, <1>4 DEF Id
  <2>2. ASSUME NEW i \in Id', NEW d \in Call, <<i, d>> \in Outstanding'
        PROVE  /\ <<"puback", i>> \notin Range(inbound')
               /\ Qos[d] = 2 /\ <<i, d>> \in outRel'
               /\ <<"pubcomp", i>> \in Range(inbound') =>
                    /\ Once(inbound', <<"pubcomp", i>>)
                    /\ Before(inbound', <<"pubrec", i>>, <<"pubcomp", i>>)
                    /\ d \in acked /\ exchange = {}
    <3>1. i = id /\ d = c
      BY <1>4, <2>2
    <3>2. <<"puback", id>> \notin Range(inbound')
      <4>1. <<"puback", id>> \in Range(inbound) => Qos[c] = 1
        BY <1>2, <1>3 DEF Due
      <4> QED
        BY <1>2, <1>3, <4>1
    <3>3. ASSUME <<"pubcomp", id>> \in Range(inbound')
          PROVE  /\ Once(inbound', <<"pubcomp", id>>)
                 /\ Before(inbound', <<"pubrec", id>>, <<"pubcomp", id>>)
                 /\ c \in acked /\ exchange = {}
      <4>1. /\ Once(inbound, <<"pubcomp", id>>)
            /\ Before(inbound, <<"pubrec", id>>, <<"pubcomp", id>>)
            /\ c \in acked /\ exchange = {}
        BY <1>2, <1>3, <3>3 DEF Due
      <4> QED
        BY <1>5, <4>1, TailKeeps
    <3> QED
      BY <1>2, <1>4, <3>1, <3>2, <3>3
  <2> QED
    BY <1>1, <2>1, <2>2 DEF Due
<1>10. ExchangeFollows'
  <2>1. CASE exchange = {}
    BY <1>1, <2>1 DEF ExchangeFollows
  <2>2. CASE exchange # {}
    <3>1. PICK i \in Id, d \in Call, stage \in Stage :
            exchange = {<<i, d, stage>>} /\ KnownAs(i, d, stage)
      BY <2>2 DEF ExchangeFollows
    <3>2. i = id /\ d = c
      BY <1>3, <3>1 DEF KnownAs
    <3>3. <<"pubcomp", id>> \notin Range(inbound)
      BY <1>2, <1>3, <2>2 DEF Due
    <3>4. stage # "published"
      <4> SUFFICES ASSUME stage = "published" PROVE FALSE
        OBVIOUS
      <4>1. Doomed
        BY <1>3, <3>1 DEF KnownAs, Acks, AckKind
      <4>2. PICK k \in AckKind, j \in Id : First(inbound, <<k, j>>, Acks) /\ Refused(k, j)
        BY <4>1 DEF Doomed
      <4>3. <<k, j>> \in Acks /\ <<"pubrec", id>> \in Acks /\ Head(inbound) = <<"pubrec", id>>
        BY <1>1, <1>2, ReadFacts DEF Acks
      <4>4. <<"pubrec", id>> = <<k, j>>
        BY <1>5, <4>2, <4>3, TailFirst
      <4>5. outRel = {}
        BY <4>1 DEF Doomed
      <4> QED
        BY <1>2, <4>2, <4>4, <4>5
    <3>5. KnownAs(id, c, stage)'
      BY <1>2, <1>3, <1>4, <3>3, <3>4 DEF KnownAs
    <3> QED
      BY <1>1, <3>1, <3>2, <3>5 DEF ExchangeFollows, Id, Stage
  <2> QED
    BY <2>1, <2>2
<1>11. WrittenFollows'
  <2>1. \A i \in Id, d \in Call : <<"publish", i, d>> \notin written'
    <3>1. \A i, d : <<"publish", i, d>>[1] = "publish" /\ <<"pubrel", id>>[1] = "pubrel"
      OBVIOUS
    <3> QED
      BY <1>1, <3>1, ReadFacts
  <2>2. \A w \in written' : w[1] = "publish" => w \in written
    BY <1>1
  <2> QED
    BY <1>4, <2>1, <2>2 DEF WrittenFollows, Id
<1>12. SentEvents'
  BY <1>1, <1>6, ReadFacts DEF SentEvents, Id
<1>13. AckEvents'
  <2>1. ASSUME NEW k \in AckKind, NEW i \in {NoId} \cup Id, <<k, i>> \in Range(queue)
        PROVE  k = "pubrec" /\ i = id
    BY <1>2, <1>7, <2>1 DEF AckEvents, AckKind
  <2>2. ASSUME NEW k \in AckKind, NEW i \in {NoId} \cup Id', <<k, i>> \in Range(queue')
        PROVE  k = "pubrec" /\ i = id
    BY <1>6, <2>1, <2>2 DEF Id
  <2> QED
    BY <1>1, <1>2, <1>7, <2>2 DEF AckEvents
<1>14. EventsMatch'
  BY <1>1, <1>4, <1>6, <1>7 DEF EventsMatch, Id
<1>15. DisconnectIsLast' /\ PublishTypes'
  <2>1. <<"disconnect", NoId>> # <<"pubrec", id>>
    OBVIOUS
  <2> QED
    BY <1>1, <1>5, <1>6, <2>1, ReadFacts DEF DisconnectIsLast, PublishTypes
<1> QED
  BY <1>8, <1>9, <1>10, <1>11, <1>12, <1>13, <1>14, <1>15

\* PUBLISH or PUBREL: what is read, forwarded and written is about an arrival.
LEMMA PublishOtherRead ==
  ASSUME PublishInv, NEW packet \in Packet, packet \notin Acks, Reading(packet),
         phase' = "reading", NEW answers, written' = written \cup answers,
         \A w \in answers : w[1] \in AckKind,
         \/ UNCHANGED queue
         \/ \E m \in Arrival : queue' = Append(queue, Message(m)),
         UNCHANGED <<closing, pending, publishing, packetId, pubrecSeen, disconnecting,
                     lastPkid, lastPuback, outPub, outRel, exchange, acked>>
  PROVE  PublishInv'
<1> USE DEF PublishInv
<1>1. inbound \in Seq(Packet) /\ queue \in Seq(Packet)
  BY DEF PublishTypes
<1>2. KeepsAcks
  BY <1>1, ReadFacts, OtherPackets
<1>3. Outstanding' = Outstanding
  BY DEF Outstanding
<1>4. WrittenFollows'
  <2>1. \A w \in written' : w[1] \in {"publish", "pubrel"} => w \in written
    BY DEF AckKind
  <2>2. \A id, c : <<"publish", id, c>>[1] = "publish" /\ <<"pubrel", id>>[1] = "pubrel"
    OBVIOUS
  <2>3. \A id \in Id, c \in Call : <<"publish", id, c>> \notin written'
    BY <2>1, <2>2, ReadFacts
  <2>4. \A id \in Id : <<"pubrel", id>> \in written' => <<"pubrel", id>> \in written
    BY <2>1, <2>2
  <2> QED
    BY <2>1, <2>3, <2>4 DEF WrittenFollows, Id
<1>5. /\ queue' \in Seq(Packet)
      /\ \A kind \in AckKind \cup {"sent", "disconnect"}, id \in {NoId} \cup Id :
           <<kind, id>> \in Range(queue') <=> <<kind, id>> \in Range(queue)
      /\ \A kind \in AckKind, id \in {NoId} \cup Id :
           /\ Once(queue, <<kind, id>>) => Once(queue', <<kind, id>>)
           /\ \A k \in AckKind : Before(queue, <<k, id>>, <<kind, id>>)
                                   => Before(queue', <<k, id>>, <<kind, id>>)
  <2>1. CASE UNCHANGED queue
    BY <1>1, <2>1
  <2>2. CASE \E m \in Arrival : queue' = Append(queue, Message(m))
    <3>0. PICK m \in Arrival : queue' = Append(queue, Message(m))
      BY <2>2
    <3>1. /\ Message(m) \in Packet
          /\ \A id : \A kind \in AckKind \cup {"sent", "disconnect"} : <<kind, id>> # Message(m)
      BY MessageNames DEF AckKind
    <3>2. queue' \in Seq(Packet)
      BY <1>1, <3>0, <3>1
    <3>3. Range(queue') = Range(queue) \cup {Message(m)}
      BY <1>1, <3>0, <3>1, AppendRange
    <3>4. ASSUME NEW kind \in AckKind, NEW id \in {NoId} \cup Id
          PROVE  /\ Once(queue, <<kind, id>>) => Once(queue', <<kind, id>>)
                 /\ \A k \in AckKind : Before(queue, <<k, id>>, <<kind, id>>)
                                         => Before(queue', <<k, id>>, <<kind, id>>)
      BY <1>1, <3>0, <3>1, AppendOnce, AppendBefore
    <3> QED
      BY <3>1, <3>2, <3>3, <3>4
  <2> QED
    BY <2>1, <2>2
<1>6. SentEvents'
  BY <1>5, ReadFacts DEF SentEvents, Id
<1>7. AckEvents'
  <2>1. ASSUME NEW kind \in AckKind, NEW id \in {NoId} \cup Id, <<kind, id>> \in Range(queue)
        PROVE  /\ id = packetId /\ publishing = {} /\ pending # {}
               /\ \A c \in pending : Qos[c] = IF kind = "puback" THEN 1 ELSE 2
               /\ kind = "pubcomp" => pubrecSeen \/ <<"pubrec", id>> \in Range(queue')
               /\ kind # "pubrec" =>
                    /\ pending \subseteq acked /\ Outstanding = {}
                    /\ Once(queue', <<kind, id>>)
                    /\ \A k \in AckKind : k # kind =>
                         Before(queue', <<k, id>>, <<kind, id>>)
    <3>1. "pubrec" \in AckKind \cup {"sent", "disconnect"}
      BY DEF AckKind
    <3>2. <<"pubrec", id>> \in Range(queue) => <<"pubrec", id>> \in Range(queue')
      BY <1>5, <3>1
    <3>3. /\ kind = "pubcomp" => pubrecSeen \/ <<"pubrec", id>> \in Range(queue)
          /\ kind # "pubrec" =>
               /\ pending \subseteq acked /\ Outstanding = {}
               /\ Once(queue, <<kind, id>>)
               /\ \A k \in AckKind : k # kind =>
                    Before(queue, <<k, id>>, <<kind, id>>)
      BY <2>1 DEF AckEvents
    <3>4. /\ id = packetId /\ publishing = {} /\ pending # {}
          /\ \A c \in pending : Qos[c] = IF kind = "puback" THEN 1 ELSE 2
      BY <2>1 DEF AckEvents
    <3> QED
      BY <1>5, <3>2, <3>3, <3>4
  <2> QED
    BY <1>3, <1>5, <2>1 DEF AckEvents, Id
<1>8. EventsMatch'
  <2>1. \A id \in Id, c \in Call : <<id, c>> \in Outstanding => packetId = id
    BY ReadFacts
  <2>2. \A id \in Id, c \in Call : <<id, c>> \in outRel =>
          pubrecSeen \/ <<"pubrec", id>> \in Range(queue')
    BY <1>5 DEF EventsMatch, AckKind
  <2>3. \A id \in Id, c \in Call : <<id, c>> \in outRel => <<id, c>> \in Outstanding
    BY DEF Outstanding
  <2>4. pending # {} =>
          \/ publishing = pending \/ Outstanding # {} \/ <<"sent", NoId>> \in Range(queue')
          \/ \E kind \in AckKind \ {"pubrec"}, id \in Id : <<kind, id>> \in Range(queue')
    BY <1>5 DEF EventsMatch
  <2> QED
    BY <1>3, <2>1, <2>2, <2>3, <2>4 DEF EventsMatch, Id
<1>9. DisconnectIsLast' /\ PublishTypes'
  BY <1>1, <1>2, <1>5, ReadFacts DEF DisconnectIsLast, PublishTypes, KeepsAcks
<1> QED
  BY <1>2, <1>4, <1>6, <1>7, <1>8, <1>9, OutstandingFrame, PeerFrame

\* A PUBLISH or a PUBREL of the broker is read.
LEMMA PublishArrivalRead ==
  ASSUME PublishInv, NEW m \in Arrival, PublishRead(m) \/ PubRelRead(InboundId[m])
  PROVE  PublishInv'
<1>1. Message(m) \in Packet /\ Release(m) \in Packet /\ Message(m) \notin Acks
      /\ Release(m) \notin Acks
  BY MessageNames DEF Acks, AckKind, Release
<1>2. CASE PublishRead(m)
  <2>1. /\ Reading(Message(m)) /\ phase' = "reading" /\ written' = written \cup Answer(m)
        /\ UNCHANGED queue \/ queue' = Append(queue, Message(m))
        /\ UNCHANGED <<closing, pending, publishing, packetId, pubrecSeen, disconnecting,
                       lastPkid, lastPuback, outPub, outRel, exchange, acked>>
    BY <1>2 DEF PublishRead, vars, driverVars, runVars, pkidVars, brokerVars
  <2>2. \A w \in Answer(m) : w[1] \in AckKind
    BY DEF Answer, AckKind
  <2> QED
    BY <1>1, <2>1, <2>2, PublishOtherRead
<1>3. CASE PubRelRead(InboundId[m])
  <2>1. /\ Reading(Release(m)) /\ phase' = "reading"
        /\ written' = written \cup {<<"pubcomp", InboundId[m]>>}
        /\ UNCHANGED queue
        /\ UNCHANGED <<closing, pending, publishing, packetId, pubrecSeen, disconnecting,
                       lastPkid, lastPuback, outPub, outRel, exchange, acked>>
    BY <1>3 DEF PubRelRead, Release, vars, driverVars, runVars, pkidVars, brokerVars
  <2> DEFINE answers == {<<"pubcomp", InboundId[m]>>}
  <2>2. \A w \in answers : w[1] \in AckKind
    BY DEF AckKind
  <2>3. written' = written \cup answers
    BY <2>1
  <2> HIDE DEF answers
  <2> QED
    BY <1>1, <2>1, <2>2, <2>3, PublishOtherRead
<1> QED
  BY <1>2, <1>3

(***************************************************************************)
(* The broker's steps: what it sends about a publish is due, or ends the   *)
(* session before anything behind it is looked at.                         *)
(***************************************************************************)

\* The broker knows of one publish, the outstanding one.
LEMMA ExchangeKnown ==
  ASSUME PublishInv, NEW id, NEW c, NEW stage \in Stage, <<id, c, stage>> \in exchange
  PROVE  /\ id \in Id /\ c \in Call
         /\ exchange = {<<id, c, stage>>} /\ KnownAs(id, c, stage)
         /\ Outstanding = {<<id, c>>} /\ Qos[c] # 0
<1>1. PICK i \in Id, d \in Call, s \in Stage : exchange = {<<i, d, s>>} /\ KnownAs(i, d, s)
  BY DEF PublishInv, ExchangeFollows
<1>2. i = id /\ d = c /\ s = stage
  BY <1>1
<1>3. <<id, c>> \in Outstanding
  BY <1>1, <1>2 DEF KnownAs
<1>4. Outstanding = {<<id, c>>} /\ Qos[c] # 0
  <2>1. id \in Id /\ c \in Call
    BY <1>1, <1>2
  <2>2. OneOutstanding
    BY DEF PublishInv
  <2> QED
    BY <1>3, <2>1, <2>2 DEF OneOutstanding
<1> QED
  BY <1>1, <1>2, <1>4

\* The session sees a packet on its way only when it reads it.
LEMMA BrokerFrame ==
  ASSUME PublishInv, inbound' \in Seq(Packet),
         UNCHANGED <<vars, runVars, loopVars, queue, written, stateVars>>,
         acked \subseteq acked', (Due \/ Doomed)', ExchangeFollows',
         exchange # {} \/ (KeepsAcks /\ UNCHANGED exchange)
  PROVE  PublishInv'
<1> USE DEF PublishInv
<1>1. UNCHANGED <<closing, pending, packetId, pubrecSeen, publishing, disconnecting, phase,
                  queue, written, lastPkid, lastPuback, outPub, outRel>>
  BY DEF vars, driverVars, runVars, loopVars, stateVars, pkidVars
<1>2. Outstanding' = Outstanding
  BY <1>1 DEF Outstanding
<1>3. OneOutstanding' /\ FrontierFollows'
  BY <1>1, OutstandingFrame
<1>4. WrittenFollows'
  <2>1. CASE exchange # {}
    <3>1. \A id \in Id, c \in Call : <<"publish", id, c>> \notin written'
      BY <1>1, <2>1 DEF WrittenFollows
    <3> QED
      BY <1>1, <3>1 DEF WrittenFollows, Id
  <2>2. CASE KeepsAcks /\ UNCHANGED exchange
    BY <1>1, <2>2, WrittenFrame
  <2> QED
    BY <2>1, <2>2
<1>5. SentEvents' /\ EventsMatch'
  BY <1>1, <1>2 DEF SentEvents, EventsMatch, Id, AckKind
<1>6. AckEvents'
  <2>1. ASSUME NEW kind \in AckKind, NEW id \in {NoId} \cup Id, <<kind, id>> \in Range(queue)
        PROVE  kind # "pubrec" => pending \subseteq acked'
    BY <2>1 DEF AckEvents
  <2>2. Range(queue') = Range(queue)
    BY <1>1
  <2> QED
    BY <1>1, <1>2, <2>1, <2>2 DEF AckEvents, Id
<1>7. DisconnectIsLast' /\ PublishTypes'
  BY <1>1, <1>2 DEF DisconnectIsLast, PublishTypes
<1> QED
  BY <1>3, <1>4, <1>5, <1>6, <1>7

\* What is said about nothing outstanding is not said about a publish.
LEMMA BrokerOthers ==
  ASSUME PublishInv, NEW packet \in Packet, packet \notin Acks, Send(packet),
         UNCHANGED <<exchange, acked>>
  PROVE  PublishInv'
<1>1. KeepsAcks
  BY OtherPackets DEF Send, PublishInv, PublishTypes
<1>2. UNCHANGED <<outPub, outRel>>
  BY DEF Send, stateVars
<1>3. (Due \/ Doomed)' /\ ExchangeFollows'
  BY <1>1, <1>2, PeerFrame DEF PublishInv
<1> QED
  BY <1>1, <1>3, BrokerFrame DEF Send, KeepsAcks

\* An acknowledgement is sent behind what is on its way.
LEMMA SendAck ==
  ASSUME PublishInv, NEW kind \in AckKind, NEW id \in Id, Send(<<kind, id>>)
  PROVE  /\ inbound' \in Seq(Packet)
         /\ Range(inbound') = Range(inbound) \cup {<<kind, id>>}
         /\ \A e : e # <<kind, id>> \/ e \notin Range(inbound) =>
              (Once(inbound, e) => Once(inbound', e))
         /\ \A e, f : e # <<kind, id>> =>
              (Before(inbound, e, f) => Before(inbound', e, f))
         /\ Doomed => Doomed'
         /\ Range(inbound) \cap Acks = {} => First(inbound', <<kind, id>>, Acks)
<1>1. /\ inbound \in Seq(Packet) /\ <<kind, id>> \in Packet /\ <<kind, id>> \in Acks
      /\ inbound' = Append(inbound, <<kind, id>>)
      /\ UNCHANGED <<outPub, outRel>>
  BY MaxInflightPositive
     DEF Send, PublishInv, PublishTypes, Packet, Acks, Id, stateVars
<1>2. Range(inbound') = Range(inbound) \cup {<<kind, id>>}
  BY <1>1, AppendRange
<1>3. \A e : e # <<kind, id>> \/ e \notin Range(inbound) =>
        (Once(inbound, e) => Once(inbound', e))
  BY <1>1, AppendOnce
<1>4. \A e, f : e # <<kind, id>> => (Before(inbound, e, f) => Before(inbound', e, f))
  BY <1>1, AppendBefore
<1>5. \A e : First(inbound, e, Acks) => First(inbound', e, Acks')
  BY <1>1, AppendFirst DEF Acks, Id
<1>6. Doomed => Doomed'
  BY <1>1, <1>5 DEF Doomed, Refused, Id
<1>7. Range(inbound) \cap Acks = {} => First(inbound', <<kind, id>>, Acks)
  BY <1>1, AppendFirst
<1>8. inbound' \in Seq(Packet)
  BY <1>1
<1> QED
  BY <1>2, <1>3, <1>4, <1>6, <1>7, <1>8

\* PUBACK, or the first PUBREC.
LEMMA PublishAnswered ==
  ASSUME PublishInv, NEW id \in Id, NEW c \in Call, BrokerAnswers(id, c)
  PROVE  PublishInv'
<1>1. /\ exchange = {<<id, c, "published">>} /\ KnownAs(id, c, "published")
      /\ Outstanding = {<<id, c>>} /\ Outstanding' = Outstanding
      /\ UNCHANGED <<outPub, outRel>>
  BY ExchangeKnown DEF BrokerAnswers, Send, Stage, Outstanding, stateVars
<1>2. Doomed \/ Range(inbound) \cap Acks = {}
  BY <1>1 DEF KnownAs
<1>3. CASE Qos[c] = 1
  <2>1. /\ Send(<<"puback", id>>) /\ exchange' = {} /\ acked' = acked \cup {c}
    BY <1>1, <1>3 DEF BrokerAnswers
  <2>2. "puback" \in AckKind
    BY DEF AckKind
  <2>3. (Due \/ Doomed)'
    <3>1. CASE Doomed
      BY <2>1, <2>2, <3>1, SendAck
    <3>2. CASE Range(inbound) \cap Acks = {}
      <4>1. \A k \in AckKind, i \in Id : <<k, i>> \notin Range(inbound)
        BY <3>2, NoAcksAreDue
      <4>2. \A k \in AckKind, i \in Id :
              <<k, i>> \in Range(inbound') => k = "puback" /\ i = id
        BY <2>1, <2>2, <4>1, SendAck
      <4>3. Once(inbound', <<"puback", id>>)
        BY <2>1, <2>2, <4>1, SendAck, AbsentOrder DEF PublishInv, PublishTypes
      <4> QED
        BY <1>1, <1>3, <2>1, <2>2, <4>2, <4>3 DEF Due, AckKind, Id
    <3> QED
      BY <1>2, <3>1, <3>2
  <2>4. ExchangeFollows'
    BY <2>1 DEF ExchangeFollows
  <2> QED
    BY <1>1, <2>1, <2>2, <2>3, <2>4, SendAck, BrokerFrame DEF Send
<1>4. CASE Qos[c] = 2
  <2>1. /\ Send(<<"pubrec", id>>) /\ exchange' = {<<id, c, "received">>} /\ UNCHANGED acked
    BY <1>1, <1>4 DEF BrokerAnswers
  <2>2. "pubrec" \in AckKind /\ "pubcomp" \in AckKind /\ <<"pubrec", id>> # <<"pubcomp", id>>
    BY DEF AckKind
  <2>3. <<"pubrec", id>> \in Range(inbound')
    BY <2>1, <2>2, SendAck
  <2>4. (Due \/ Doomed)' /\ (Doomed' \/ <<"pubcomp", id>> \notin Range(inbound'))
    <3>1. CASE Doomed
      BY <2>1, <2>2, <3>1, SendAck
    <3>2. CASE Range(inbound) \cap Acks = {}
      <4>1. \A k \in AckKind, i \in Id : <<k, i>> \notin Range(inbound)
        BY <3>2, NoAcksAreDue
      <4>2. \A k \in AckKind, i \in Id :
              <<k, i>> \in Range(inbound') => k = "pubrec" /\ i = id
        BY <2>1, <2>2, <4>1, SendAck
      <4> QED
        BY <1>1, <1>4, <2>1, <2>2, <4>2 DEF Due, AckKind, Id
    <3> QED
      BY <1>2, <3>1, <3>2
  <2>5. KnownAs(id, c, "received")'
    BY <1>1, <1>4, <2>3, <2>4 DEF KnownAs
  <2>6. ExchangeFollows'
    BY <2>1, <2>5 DEF ExchangeFollows, Stage, Id
  <2> QED
    BY <1>1, <2>1, <2>2, <2>4, <2>6, SendAck, BrokerFrame DEF Send
<1> QED
  BY <1>3, <1>4 DEF BrokerAnswers

\* A repeated PUBREC.
LEMMA PublishRepeated ==
  ASSUME PublishInv, NEW id \in Id, NEW c \in Call, BrokerRepeatsRec(id, c)
  PROVE  PublishInv'
<1>1. /\ exchange = {<<id, c, "received">>} /\ KnownAs(id, c, "received")
      /\ Outstanding = {<<id, c>>} /\ Outstanding' = Outstanding
      /\ Send(<<"pubrec", id>>) /\ UNCHANGED <<outPub, outRel, exchange, acked>>
  BY ExchangeKnown DEF BrokerRepeatsRec, Send, Stage, Outstanding, stateVars
<1>2. "pubrec" \in AckKind /\ "pubcomp" \in AckKind /\ "puback" \in AckKind
  BY DEF AckKind
<1>3. Range(inbound') = Range(inbound) \cup {<<"pubrec", id>>}
  BY <1>1, <1>2, SendAck
<1>4. Qos[c] = 2
  BY <1>1 DEF KnownAs
<1>5. /\ (Due \/ Doomed)'
      /\ \/ Doomed'
         \/ <<"pubcomp", id>> \notin Range(inbound') /\ <<"pubrec", id>> \in Range(inbound')
  <2>1. CASE Doomed
    BY <1>1, <1>2, <2>1, SendAck
  <2>2. CASE ~Doomed
    <3>1. Due /\ <<"pubcomp", id>> \notin Range(inbound)
      BY <1>1, <2>2 DEF KnownAs, PublishInv
    <3>2. <<"puback", id>> \notin Range(inbound)
      BY <1>1, <1>4, <3>1 DEF Due
    <3>3. \A k \in AckKind, i \in Id : <<k, i>> \in Range(inbound') => i = id
      BY <1>1, <1>3, <3>1 DEF Due
    <3>4. <<"pubcomp", id>> \notin Range(inbound') /\ <<"puback", id>> \notin Range(inbound')
      BY <1>3, <3>1, <3>2
    <3> QED
      BY <1>1, <1>3, <1>4, <3>3, <3>4 DEF Due, Id, AckKind
  <2> QED
    BY <2>1, <2>2
<1>6. ExchangeFollows'
  <2>1. KnownAs(id, c, "received")'
    BY <1>1, <1>4, <1>5 DEF KnownAs
  <2> QED
    BY <1>1, <2>1 DEF ExchangeFollows, Stage, Id
<1> QED
  BY <1>1, <1>2, <1>5, <1>6, SendAck, BrokerFrame DEF Send

\* PUBCOMP.
LEMMA PublishCompleted ==
  ASSUME PublishInv, NEW id \in Id, NEW c \in Call, BrokerCompletes(id, c)
  PROVE  PublishInv'
<1>1. /\ exchange = {<<id, c, "released">>} /\ KnownAs(id, c, "released")
      /\ Outstanding = {<<id, c>>} /\ Outstanding' = Outstanding
      /\ UNCHANGED <<outPub, outRel>>
  BY ExchangeKnown DEF BrokerCompletes, Send, Stage, Outstanding, stateVars
<1>2. Send(<<"pubcomp", id>>) /\ exchange' = {} /\ acked' = acked \cup {c}
  BY <1>1 DEF BrokerCompletes
<1>3. "pubrec" \in AckKind /\ "pubcomp" \in AckKind /\ "puback" \in AckKind
      /\ <<"pubrec", id>> # <<"pubcomp", id>>
  BY DEF AckKind
<1>4. Qos[c] = 2 /\ <<id, c>> \in outRel /\ <<"pubcomp", id>> \notin Range(inbound)
  BY <1>1 DEF KnownAs
<1>5. Due
  BY <1>4 DEF PublishInv, Doomed
<1>6. Range(inbound') = Range(inbound) \cup {<<"pubcomp", id>>}
  BY <1>2, <1>3, SendAck
<1>7. Once(inbound, <<"pubcomp", id>>) /\ Before(inbound, <<"pubrec", id>>, <<"pubcomp", id>>)
  BY <1>4, AbsentOrder DEF PublishInv, PublishTypes
<1>8. Once(inbound', <<"pubcomp", id>>) /\ Before(inbound', <<"pubrec", id>>, <<"pubcomp", id>>)
  BY <1>2, <1>3, <1>4, <1>7, SendAck
<1>9. <<"puback", id>> \notin Range(inbound')
  BY <1>1, <1>4, <1>5, <1>6 DEF Due
<1>10. \A k \in AckKind, i \in Id : <<k, i>> \in Range(inbound') => i = id
  BY <1>1, <1>5, <1>6 DEF Due
<1>11. Due'
  BY <1>1, <1>2, <1>4, <1>8, <1>9, <1>10 DEF Due, AckKind, Id
<1>12. ExchangeFollows'
  BY <1>2 DEF ExchangeFollows
<1> QED
  BY <1>1, <1>2, <1>3, <1>11, <1>12, SendAck, BrokerFrame DEF Send

\* An acknowledgement that nothing calls for ends the session when it is read,
\* before what the broker sends behind it.
LEMMA PublishStrayed ==
  ASSUME PublishInv, NEW kind \in AckKind, NEW id \in Id \cup {UnusedId},
         BrokerStrays(kind, id)
  PROVE  PublishInv'
<1>1. /\ Send(<<kind, id>>) /\ UNCHANGED <<exchange, acked, outPub, outRel>>
      /\ Outstanding' = Outstanding
  BY DEF BrokerStrays, Send, Outstanding, stateVars
<1>2. CASE id = UnusedId
  <2>1. UnusedId \in Nat /\ UnusedId \notin Id
    BY MaxInflightPositive DEF UnusedId, Id
  <2>2. <<kind, id>> \in Packet /\ <<kind, id>> \notin Acks
    BY <1>2, <2>1 DEF Packet, Acks
  <2> QED
    BY <1>1, <2>2, BrokerOthers
<1>3. CASE id \in Id /\ id # UnusedId
  <2>1. PICK c \in Call : /\ <<id, c, "published">> \in exchange
                          /\ kind # IF Qos[c] = 1 THEN "puback" ELSE "pubrec"
    BY <1>3 DEF BrokerStrays
  <2>2. /\ exchange = {<<id, c, "published">>} /\ KnownAs(id, c, "published")
        /\ Outstanding = {<<id, c>>}
    BY <2>1, ExchangeKnown DEF Stage
  <2>3. outPub = {<<id, c>>} /\ outRel = {}
    BY <2>2 DEF KnownAs, Outstanding, PublishInv, OneOutstanding
  <2>4. Qos[c] \in 0 .. 2 /\ Qos[c] # 0
    BY <2>1, ExchangeKnown, QosInRange DEF Stage
  <2>5. Doomed'
    <3>1. CASE Doomed
      BY <1>1, <1>3, <3>1, SendAck
    <3>2. CASE Range(inbound) \cap Acks = {}
      <4>1. First(inbound', <<kind, id>>, Acks)
        BY <1>1, <1>3, <3>2, SendAck
      <4>2. \A d \in Call : <<id, d>> \in outPub' => d = c
        BY <1>1, <2>3
      <4>3. <<id, c>> \in outPub' /\ outPub' # {} /\ outRel' = {}
        BY <1>1, <2>3
      <4>4. Refused(kind, id)'
        BY <2>1, <2>4, <4>2, <4>3 DEF Refused, AckKind
      <4> QED
        BY <1>3, <4>1, <4>3, <4>4 DEF Doomed, Acks, Id, AckKind
    <3> QED
      BY <2>2, <3>1, <3>2 DEF KnownAs
  <2>6. KnownAs(id, c, "published")'
    BY <1>1, <2>2, <2>3, <2>5 DEF KnownAs
  <2>7. ExchangeFollows'
    BY <1>1, <1>3, <2>2, <2>6 DEF ExchangeFollows, Stage, Id
  <2>8. inbound' \in Seq(Packet)
    BY <1>1, <1>3, SendAck
  <2> QED
    BY <1>1, <2>1, <2>5, <2>7, <2>8, BrokerFrame DEF Send
<1> QED
  BY <1>2, <1>3

\* Every step of the broker.
LEMMA PublishBroker ==
  ASSUME PublishInv, BrokerStep
  PROVE  PublishInv'
<1>1. CASE \E id \in Id, c \in Call :
             BrokerAnswers(id, c) \/ BrokerRepeatsRec(id, c) \/ BrokerCompletes(id, c)
  BY <1>1, PublishAnswered, PublishRepeated, PublishCompleted
<1>2. ASSUME NEW m \in Arrival,
             BrokerPublishes(m) \/ BrokerRepeatsPublish(m) \/ BrokerReleases(m)
      PROVE  PublishInv'
  <2>1. /\ Message(m) \in Packet /\ Release(m) \in Packet
        /\ Message(m) \notin Acks /\ Release(m) \notin Acks
    BY MessageNames DEF Acks, AckKind, Release
  <2>2. (Send(Message(m)) \/ Send(Release(m))) /\ UNCHANGED <<exchange, acked>>
    BY <1>2 DEF BrokerPublishes, BrokerRepeatsPublish, BrokerReleases, Release
  <2> QED
    BY <2>1, <2>2, BrokerOthers
<1>3. CASE \E kind \in AckKind, id \in Id \cup {UnusedId} : BrokerStrays(kind, id)
  BY <1>3, PublishStrayed
<1> QED
  BY <1>1, <1>2, <1>3 DEF BrokerStep, AckKind

(***************************************************************************)
(* What run does with an event.                                            *)
(***************************************************************************)

\* An event is taken from the queue.
LEMMA EventFacts ==
  ASSUME PublishInv, NEW e, Event(e)
  PROVE  /\ UNCHANGED <<closing, publishing, disconnecting, phase, written, lastPkid,
                        lastPuback, outPub, outRel, inbound, exchange, acked>>
         /\ phase = "waiting" /\ Outstanding' = Outstanding
         /\ queue' \in Seq(Packet) /\ Range(queue) = Range(queue') \cup {e}
         /\ \A x : Once(queue, x) =>
                     Once(queue', x) /\ (x = e => x \notin Range(queue'))
         /\ \A x, y : Before(queue, x, y) =>
                        Before(queue', x, y) /\ (y = e => x \notin Range(queue))
         /\ \A x : queue = <<x>> => x = e /\ queue' = <<>>
         /\ (Due \/ Doomed)' /\ ExchangeFollows' /\ WrittenFollows'
<1>1. /\ UNCHANGED <<closing, publishing, disconnecting, phase, written, lastPkid,
                     lastPuback, outPub, outRel, inbound, exchange, acked>>
      /\ phase = "waiting" /\ queue # <<>> /\ e = Head(queue) /\ queue' = Tail(queue)
  BY DEF Event, loopVars, stateVars, pkidVars, brokerVars
<1>2. inbound \in Seq(Packet) /\ queue \in Seq(Packet)
  BY DEF PublishInv, PublishTypes
<1>3. KeepsAcks
  BY <1>1, <1>2, SameInbound
<1>4. (Due \/ Doomed)' /\ ExchangeFollows' /\ WrittenFollows'
  BY <1>1, <1>3, PeerFrame, WrittenFrame DEF PublishInv
<1>5. \A x : queue = <<x>> => x = e /\ queue' = <<>>
  BY <1>1
<1>6. Outstanding' = Outstanding
  BY <1>1 DEF Outstanding
<1> QED
  BY <1>1, <1>2, <1>4, <1>5, <1>6, TailKeeps

\* A message, or a PUBREC, completes nothing.
LEMMA PublishOtherEvent ==
  ASSUME PublishInv, NEW e, Event(e),
         \A kind \in {"sent", "disconnect", "puback", "pubcomp"} : \A id : e # <<kind, id>>,
         UNCHANGED <<pending, packetId>>,
         \/ pubrecSeen' = TRUE /\ publishing = {}
         \/ UNCHANGED pubrecSeen /\ \A id : e # <<"pubrec", id>>
  PROVE  PublishInv'
<1> USE DEF PublishInv
<1>1. /\ UNCHANGED <<closing, publishing, disconnecting, phase, written, lastPkid,
                     lastPuback, outPub, outRel, inbound, exchange, acked>>
      /\ Outstanding' = Outstanding
      /\ queue' \in Seq(Packet) /\ Range(queue) = Range(queue') \cup {e}
      /\ (Due \/ Doomed)' /\ ExchangeFollows' /\ WrittenFollows'
  BY EventFacts
<1>2. \A kind \in {"sent", "disconnect"} : \A id : queue # <<<<kind, id>>>>
  BY EventFacts
<1>3. \A id \in {NoId} \cup Id : <<"sent", id>> \notin Range(queue)
  BY <1>2 DEF SentEvents
<1>4. disconnecting # "sent"
  BY <1>2 DEF DisconnectIsLast
<1>5. OneOutstanding' /\ FrontierFollows'
  <2>1. publishing' # {} => packetId' = NoId /\ ~pubrecSeen'
    BY <1>1 DEF OneOutstanding
  <2> QED
    BY <1>1, <2>1 DEF OneOutstanding, FrontierFollows, Id
<1>6. SentEvents'
  BY <1>1, <1>3 DEF SentEvents, Id
<1>7. AckEvents'
  <2>1. ASSUME NEW kind \in AckKind, NEW id \in {NoId} \cup Id, <<kind, id>> \in Range(queue')
        PROVE  /\ id = packetId /\ publishing = {} /\ pending # {}
               /\ \A c \in pending : Qos[c] = IF kind = "puback" THEN 1 ELSE 2
               /\ kind = "pubcomp" => pubrecSeen' \/ <<"pubrec", id>> \in Range(queue')
               /\ kind # "pubrec" =>
                    /\ pending \subseteq acked /\ Outstanding = {}
                    /\ Once(queue', <<kind, id>>)
                    /\ \A k \in AckKind : k # kind =>
                         Before(queue', <<k, id>>, <<kind, id>>)
    <3>1. <<kind, id>> \in Range(queue)
      BY <1>1, <2>1
    <3>2. kind = "pubcomp" => pubrecSeen \/ <<"pubrec", id>> \in Range(queue)
      BY <3>1 DEF AckEvents
    <3>3. kind = "pubcomp" => pubrecSeen' \/ <<"pubrec", id>> \in Range(queue')
      BY <1>1, <3>2
    <3>4. kind # "pubrec" =>
            /\ pending \subseteq acked /\ Outstanding = {}
            /\ Once(queue, <<kind, id>>)
            /\ \A k \in AckKind : k # kind => Before(queue, <<k, id>>, <<kind, id>>)
      BY <3>1 DEF AckEvents
    <3>5. /\ id = packetId /\ publishing = {} /\ pending # {}
          /\ \A c \in pending : Qos[c] = IF kind = "puback" THEN 1 ELSE 2
      BY <3>1 DEF AckEvents
    <3> QED
      BY <3>3, <3>4, <3>5, EventFacts
  <2> QED
    BY <1>1, <2>1 DEF AckEvents, Id
<1>8. EventsMatch'
  <2>1. \A id \in Id, c \in Call : <<id, c>> \in Outstanding => packetId = id
    BY <1>2 DEF EventsMatch
  <2>2. \A id \in Id, c \in Call : <<id, c>> \in outRel =>
          pubrecSeen' \/ <<"pubrec", id>> \in Range(queue')
    BY <1>1 DEF EventsMatch
  <2>3. \A id \in Id, c \in Call : <<id, c>> \in outRel => <<id, c>> \in Outstanding
    BY DEF Outstanding
  <2>4. \A kind \in AckKind \ {"pubrec"} : \A id : e # <<kind, id>>
    BY DEF AckKind
  <2>5. pending # {} =>
          \/ publishing = pending \/ Outstanding # {}
          \/ \E kind \in AckKind \ {"pubrec"}, id \in Id : <<kind, id>> \in Range(queue')
    BY <1>1, <1>3, <2>4 DEF EventsMatch
  <2> QED
    BY <1>1, <2>1, <2>2, <2>3, <2>5 DEF EventsMatch, Id
<1>9. DisconnectIsLast' /\ PublishTypes'
  BY <1>1, <1>4 DEF DisconnectIsLast, PublishTypes
<1> QED
  BY <1>1, <1>5, <1>6, <1>7, <1>8, <1>9

\* The last event of a publish: nothing about it is left.
LEMMA PublishOver ==
  ASSUME PublishInv, NEW e, Event(e), pending' = {}, publishing = {}, Outstanding = {},
         disconnecting # "sent",
         \A id \in {NoId} \cup Id : <<"sent", id>> \notin Range(queue'),
         \A kind \in AckKind, id \in {NoId} \cup Id : <<kind, id>> \notin Range(queue')
  PROVE  PublishInv'
<1> USE DEF PublishInv
<1>1. /\ UNCHANGED <<closing, publishing, disconnecting, phase, written, lastPkid,
                     lastPuback, outPub, outRel, inbound, exchange, acked>>
      /\ Outstanding' = Outstanding
      /\ queue' \in Seq(Packet) /\ Range(queue) = Range(queue') \cup {e}
      /\ (Due \/ Doomed)' /\ ExchangeFollows' /\ WrittenFollows'
  BY EventFacts
<1>2. OneOutstanding'
  BY <1>1 DEF OneOutstanding, Outstanding
<1>3. FrontierFollows'
  BY <1>1 DEF FrontierFollows
<1>4. SentEvents' /\ AckEvents'
  BY DEF SentEvents, AckEvents, Id, AckKind
<1>5. EventsMatch'
  BY <1>1 DEF EventsMatch, Outstanding
<1>6. DisconnectIsLast' /\ PublishTypes'
  BY <1>1 DEF DisconnectIsLast, PublishTypes
<1> QED
  BY <1>1, <1>2, <1>3, <1>4, <1>5, <1>6

\* A message is delivered.
LEMMA PublishDelivered ==
  ASSUME PublishInv, NEW m \in Arrival, Deliver(m), task' = "running"
  PROVE  PublishInv'
<1>1. Event(Message(m)) /\ UNCHANGED <<packetId, pubrecSeen, pending>>
  BY DEF Deliver, ReserveArrival, RefuseArrival, Stop, driverVars
<1>2. \A kind \in {"sent", "disconnect", "puback", "pubcomp", "pubrec"} :
        \A id : Message(m) # <<kind, id>>
  BY MessageNames
<1> QED
  BY <1>1, <1>2, PublishOtherEvent

\* PUBREC is remembered.
LEMMA PublishReceived ==
  ASSUME PublishInv, NEW id \in {NoId} \cup Id, Received(id), task' = "running"
  PROVE  PublishInv'
<1>1. /\ Event(<<"pubrec", id>>) /\ UNCHANGED <<packetId, pending>> /\ pubrecSeen' = TRUE
  BY DEF Received, Stop, vars, driverVars
<1>2. publishing = {}
  <2>1. <<"pubrec", id>> \in Range(queue) /\ "pubrec" \in AckKind
    BY <1>1, EventFacts DEF AckKind
  <2> QED
    BY <2>1 DEF PublishInv, AckEvents
<1>3. \A kind \in {"sent", "disconnect", "puback", "pubcomp"} :
        \A i : <<"pubrec", id>> # <<kind, i>>
  OBVIOUS
<1> QED
  BY <1>1, <1>2, <1>3, PublishOtherEvent

\* PUBACK or PUBCOMP completes the command.
LEMMA PublishAcknowledged ==
  ASSUME PublishInv, NEW kind \in {"puback", "pubcomp"}, NEW id \in {NoId} \cup Id,
         Acknowledged(kind, id), task' = "running"
  PROVE  PublishInv'
<1>1. /\ Event(<<kind, id>>) /\ pending' = {} /\ kind \in AckKind /\ kind # "pubrec"
  BY DEF Acknowledged, Stop, Complete, AckKind
<1>2. <<kind, id>> \in Range(queue)
  BY <1>1, EventFacts
<1>3. /\ id = packetId /\ publishing = {} /\ Outstanding = {}
      /\ Once(queue, <<kind, id>>)
      /\ \A k \in AckKind : k # kind => Before(queue, <<k, id>>, <<kind, id>>)
  BY <1>1, <1>2 DEF PublishInv, AckEvents
<1>4. \A k \in AckKind : <<k, id>> \notin Range(queue')
  <2>1. <<kind, id>> \notin Range(queue')
    BY <1>1, <1>3, EventFacts
  <2>2. \A k \in AckKind : k # kind => <<k, id>> \notin Range(queue)
    BY <1>1, <1>3, EventFacts
  <2> QED
    BY <1>1, <2>1, <2>2, EventFacts
<1>5. \A k \in AckKind, i \in {NoId} \cup Id : <<k, i>> \notin Range(queue')
  <2>1. \A k \in AckKind, i \in {NoId} \cup Id : <<k, i>> \in Range(queue) => i = packetId
    BY DEF PublishInv, AckEvents
  <2> QED
    BY <1>1, <1>3, <1>4, <2>1, EventFacts
<1>6. \A k \in {"sent", "disconnect"} : \A i : queue # <<<<k, i>>>>
  BY <1>1, EventFacts
<1>7. \A i \in {NoId} \cup Id : <<"sent", i>> \notin Range(queue')
  BY <1>1, <1>6, EventFacts DEF PublishInv, SentEvents
<1>8. disconnecting # "sent"
  BY <1>6 DEF PublishInv, DisconnectIsLast
<1> QED
  BY <1>1, <1>3, <1>5, <1>7, <1>8, PublishOver

\* The flushed PUBLISH completes a QoS 0 command, or names its identifier.
LEMMA PublishSentStep ==
  ASSUME PublishInv, NEW id \in {NoId} \cup Id, PublishSent(id), task' = "running"
  PROVE  PublishInv'
<1> USE DEF PublishInv
<1> DEFINE e == <<"sent", id>>
<1>1. Event(e) /\ UNCHANGED pubrecSeen /\ pending # {}
  BY DEF PublishSent, Stop
<1>2. e \in Range(queue)
  BY <1>1, EventFacts
<1>3. queue = <<e>> /\ publishing = {}
  BY <1>2 DEF SentEvents
<1>4. queue' = <<>> /\ Range(queue') = {} /\ disconnecting # "sent"
  <2>1. queue' = <<>>
    BY <1>1, <1>3, EventFacts
  <2>2. <<e>> # <<<<"disconnect", NoId>>>>
    OBVIOUS
  <2> QED
    BY <1>3, <2>1, <2>2, ShortRanges DEF DisconnectIsLast
<1>5. PICK c \in pending : IF Qos[c] = 0 THEN Complete(c) /\ UNCHANGED packetId
                           ELSE packetId' = id /\ UNCHANGED vars
  BY <1>1 DEF PublishSent
<1>6. /\ id = NoId => Qos[c] = 0 /\ Outstanding = {}
      /\ id # NoId => <<id, c>> \in outPub /\ packetId = NoId /\ ~pubrecSeen
  BY <1>2, <1>5 DEF SentEvents
<1>7. \/ id = NoId /\ Qos[c] = 0 /\ Outstanding = {}
      \/ id \in Id /\ c \in Call /\ Qos[c] # 0 /\ Outstanding = {<<id, c>>} /\ outRel = {}
  <2>1. CASE id = NoId
    BY <1>6, <2>1
  <2>2. CASE id # NoId
    <3>1. <<id, c>> \in outPub /\ <<id, c>> \in Outstanding
      BY <1>6, <2>2 DEF Outstanding
    <3>2. id \in Id /\ c \in Call
      BY <3>1 DEF OneOutstanding
    <3>3. Outstanding = {<<id, c>>} /\ Qos[c] # 0 /\ outPub \cap outRel = {}
      BY <3>1, <3>2 DEF OneOutstanding
    <3> QED
      BY <3>1, <3>2, <3>3 DEF Outstanding
  <2> QED
    BY <2>1, <2>2
<1>8. CASE Qos[c] = 0
  <2>1. pending' = {}
    BY <1>5, <1>8 DEF Complete
  <2> QED
    BY <1>1, <1>3, <1>4, <1>7, <1>8, <2>1, PublishOver
<1>9. CASE Qos[c] # 0
  <2>1. packetId' = id /\ UNCHANGED <<pending, pubrecSeen>>
    BY <1>1, <1>5, <1>9 DEF vars, driverVars
  <2>2. id \in Id /\ c \in Call /\ Outstanding = {<<id, c>>} /\ outRel = {}
    BY <1>7, <1>9
  <2> HIDE DEF e
  <2>3. /\ UNCHANGED <<closing, publishing, disconnecting, phase, written, lastPkid,
                       lastPuback, outPub, outRel, inbound, exchange, acked>>
        /\ Outstanding' = Outstanding /\ queue' \in Seq(Packet)
        /\ (Due \/ Doomed)' /\ ExchangeFollows' /\ WrittenFollows'
    BY <1>1, EventFacts
  <2>4. OneOutstanding'
    BY <1>3, <2>1, <2>3 DEF OneOutstanding, Id
  <2>5. FrontierFollows'
    BY <2>3 DEF FrontierFollows, Id
  <2>6. SentEvents' /\ AckEvents'
    BY <1>4 DEF SentEvents, AckEvents
  <2>7. EventsMatch'
    BY <2>1, <2>2, <2>3 DEF EventsMatch, Id
  <2>8. DisconnectIsLast' /\ PublishTypes'
    BY <1>4, <2>1, <2>3 DEF DisconnectIsLast, PublishTypes
  <2> QED
    BY <2>3, <2>4, <2>5, <2>6, <2>7, <2>8
<1> QED
  BY <1>8, <1>9

\* Every event.
LEMMA PublishEvent ==
  ASSUME PublishInv, HandleEvent, task' = "running"
  PROVE  PublishInv'
<1>1. CASE \E id \in {NoId} \cup Id : PublishSent(id)
  BY <1>1, PublishSentStep
<1>2. CASE \E id \in {NoId} \cup Id : Received(id)
  BY <1>2, PublishReceived
<1>3. CASE \E id \in {NoId} \cup Id, kind \in {"puback", "pubcomp"} : Acknowledged(kind, id)
  BY <1>3, PublishAcknowledged
<1>4. CASE \E m \in Arrival : Deliver(m)
  BY <1>4, PublishDelivered
<1>5. CASE DisconnectSent
  BY <1>5 DEF DisconnectSent, Stop
<1> QED
  BY <1>1, <1>2, <1>3, <1>4, <1>5 DEF HandleEvent

(***************************************************************************)
(* One step of the session.                                                *)
(***************************************************************************)

\* The session around the driver: what it does while the driver runs, and what
\* is left of it afterwards.
LEMMA SessionFacts ==
  ASSUME OutcomeInv, SessionStep \/ Terminating \/ UNCHANGED vars
  PROVE  /\ task' = "running" => task = "running" /\ UNCHANGED <<pending, result>>
         /\ result' = "Closed" => result = "Closed"
         /\ pending' \subseteq pending /\ completing' \subseteq completing
         /\ UNCHANGED submitted
<1>1. CASE CallerStep
  <2>1. PICK c \in Call : SendStep(c) \/ Cancel(c) \/ Expire(c)
    BY <1>1 DEF CallerStep
  <2>2. UNCHANGED <<driverVars, taskVars>>
    BY <2>1 DEF SendStep, Enter, RefuseClosed, RefuseInput, Reserve, RefuseAdmission,
         Enqueue, RefuseCommand, TakeResponse, LoseResponse, FailUnknown, Cancel, Expire
  <2> QED
    BY <2>2 DEF driverVars, taskVars
<1>2. CASE Continue
  BY <1>2 DEF Continue, Respond, EnqueueArrival, LoseArrival, driverVars, taskVars
<1>3. CASE TakeAbort \/ Abandon
  BY <1>3 DEF TakeAbort, Abandon, Stop, driverVars
<1>4. CASE Unwind
  BY <1>4 DEF Unwind, DropPending, DrainCommand, CloseCommands, CloseEvents, Publish,
         Guard, GuardPublish, driverVars, taskVars
<1>5. CASE OwnerStep
  <2>1. UNCHANGED <<driverVars, task, result>>
    BY <1>5 DEF OwnerStep, Next_Message, DiscardEvent, Next_End, Close,
         CloseJoined, CloseTimeout, CloseAbort, Reap, DropSession, DropAbort,
         DropReaping, taskVars
  <2> QED
    BY <2>1 DEF driverVars
<1>6. CASE Terminating \/ UNCHANGED vars
  BY <1>6 DEF Terminating, vars, driverVars, taskVars
<1> QED
  BY <1>1, <1>2, <1>3, <1>4, <1>5, <1>6 DEF SessionStep

\* MQTT steps are taken while the driver runs.
LEMMA MqttRuns ==
  ASSUME MqttStep
  PROVE  task = "running"
<1>1. CASE PollStep
  <2>1. CASE ReadStep
    BY <2>1 DEF ReadStep, PubAckRead, PubRecRead, PubCompRead, PublishRead, PubRelRead,
         Unsolicited, EndRead, Reading, Looping
  <2>2. CASE HandleEvent
    BY <2>2 DEF HandleEvent, PublishSent, Received, Acknowledged, Deliver, DisconnectSent,
         Event, Looping
  <2> QED
    BY <1>1, <2>1, <2>2 DEF PollStep, AdmitPublish, AdmitDisconnect, SendDisconnect, Flush,
         Idle, Looping
<1>2. CASE BrokerStep
  BY <1>2 DEF BrokerStep, BrokerAnswers, BrokerRepeatsRec, BrokerCompletes,
       BrokerPublishes, BrokerRepeatsPublish, BrokerReleases, BrokerStrays, Send
<1> QED
  BY <1>1, <1>2 DEF MqttStep, TakeCommandMqtt, BeginClose, CommandsEnded, DeadlinePasses,
       LoseConnection, Attentive, Looping

\* Every packet that is read.
LEMMA PublishReads ==
  ASSUME OutcomeInv, PublishInv, pubAck = {}, ReadStep, task' = "running"
  PROVE  PublishInv'
<1>1. CASE \E id \in Id, c \in Call : PubAckRead(id, c) \/ PubRecRead(id, c) \/ PubCompRead(id, c)
  BY <1>1, PublishPubAck, PublishPubRec, PublishPubComp
<1>2. CASE \E m \in Arrival : PublishRead(m) \/ PubRelRead(InboundId[m])
  BY <1>2, PublishArrivalRead
<1>3. CASE \E kind \in {"puback", "pubrec", "pubcomp"}, id \in Id \cup {UnusedId} :
             Unsolicited(kind, id)
  BY <1>3 DEF Unsolicited, ConnectionError, Stop
<1>4. CASE EndRead
  BY <1>4, PublishEndRead
<1> QED
  BY <1>1, <1>2, <1>3, <1>4 DEF ReadStep

\* While the driver goes on, what it knows of its publishes does.
LEMMA PublishStep ==
  ASSUME OutcomeInv, task = "running" => PublishInv, pubAck = {},
         [MqttNext]_<<vars, mqttVars>>, task' = "running"
  PROVE  PublishInv'
<1>1. CASE MqttStep
  <2>1. PublishInv
    BY <1>1, MqttRuns
  <2>2. CASE \E c \in Call : TakeCommandMqtt(c)
    BY <2>1, <2>2, PublishSubmit
  <2>3. CASE BeginClose
    BY <2>1, <2>3, PublishBeginClose
  <2>4. CASE CommandsEnded \/ DeadlinePasses \/ LoseConnection
    BY <2>4 DEF CommandsEnded, DeadlinePasses, StopExpired, LoseConnection,
         ConnectionError, Stop
  <2>5. CASE BrokerStep
    BY <2>1, <2>5, PublishBroker
  <2>6. CASE \E c \in Call : AdmitPublish(c)
    BY <2>1, <2>6, PublishAdmit
  <2>7. CASE AdmitDisconnect
    BY <2>1, <2>7, PublishAdmitDisconnect
  <2>8. CASE SendDisconnect
    BY <2>1, <2>8, PublishSendDisconnect
  <2>9. CASE Flush
    BY <2>1, <2>9, PublishFlush
  <2>10. CASE ReadStep
    BY <2>1, <2>10, PublishReads
  <2>11. CASE HandleEvent
    BY <2>1, <2>11, PublishEvent
  <2> QED
    BY <1>1, <2>2, <2>3, <2>4, <2>5, <2>6, <2>7, <2>8, <2>9, <2>10, <2>11
       DEF MqttStep, PollStep
<1>2. CASE (SessionStep \/ Terminating \/ UNCHANGED vars) /\ UNCHANGED mqttVars
  BY <1>2, SessionFacts, PublishQuiet
<1> QED
  BY <1>1, <1>2 DEF MqttNext

\* The frontier never lags behind what was completed.
LEMMA FrontierStep ==
  ASSUME task = "running" => PublishInv, pubAck = {}, [MqttNext]_<<vars, mqttVars>>
  PROVE  pubAck' = {}
<1>1. CASE \E id \in Id, c \in Call : PubAckRead(id, c) \/ PubCompRead(id, c)
  <2>1. PICK id \in Id, c \in Call : PubAckRead(id, c) \/ PubCompRead(id, c)
    BY <1>1
  <2>2. /\ task = "running" /\ MarkComplete(id) /\ <<id, c>> \in Outstanding
    BY <2>1 DEF PubAckRead, PubCompRead, Reading, Looping, Outstanding
  <2>3. lastPuback \in 0 .. MaxInflight /\ id = (lastPuback % MaxInflight) + 1
    BY <2>2 DEF PublishInv, FrontierFollows
  <2> QED
    BY <2>2, <2>3, FrontierAdvances
<1>2. CASE UNCHANGED stateVars \/ UNCHANGED pkidVars
  BY <1>2 DEF stateVars, pkidVars
<1>3. CASE \E c \in Call : AdmitPublish(c)
  BY <1>3 DEF AdmitPublish, stateVars, pkidVars
<1>4. CASE ReadStep
  BY <1>1, <1>2, <1>4 DEF ReadStep, PubRecRead, PublishRead, PubRelRead, Unsolicited, EndRead
<1>5. CASE HandleEvent
  <2>1. UNCHANGED stateVars
    BY <1>5 DEF HandleEvent, PublishSent, Received, Acknowledged, Deliver, DisconnectSent,
         Event
  <2> QED
    BY <1>2, <2>1
<1>6. CASE BrokerStep
  <2>1. UNCHANGED stateVars
    BY <1>6 DEF BrokerStep, BrokerAnswers, BrokerRepeatsRec, BrokerCompletes,
         BrokerPublishes, BrokerRepeatsPublish, BrokerReleases, BrokerStrays, Send
  <2> QED
    BY <1>2, <2>1
<1>7. CASE (\E c \in Call : TakeCommandMqtt(c)) \/ BeginClose
  <2>1. UNCHANGED stateVars
    BY <1>7 DEF TakeCommandMqtt, BeginClose, mqttVars
  <2> QED
    BY <1>2, <2>1
<1>8. CASE UNCHANGED mqttVars
  <2>1. UNCHANGED stateVars
    BY <1>8 DEF mqttVars
  <2> QED
    BY <1>2, <2>1
<1>9. CASE AdmitDisconnect \/ SendDisconnect \/ Flush
  <2>1. UNCHANGED stateVars
    BY <1>9 DEF AdmitDisconnect, SendDisconnect, Flush
  <2> QED
    BY <1>2, <2>1
<1> QED
  BY <1>3, <1>4, <1>5, <1>6, <1>7, <1>8, <1>9
     DEF MqttNext, MqttStep, PollStep, CommandsEnded, DeadlinePasses, LoseConnection

\* What the broker has acknowledged stays acknowledged.
LEMMA AckedGrows ==
  ASSUME [MqttNext]_<<vars, mqttVars>>
  PROVE  acked \subseteq acked'
<1>1. CASE UNCHANGED brokerVars
  BY <1>1 DEF brokerVars
<1>2. CASE BrokerStep \/ Flush
  BY <1>2 DEF BrokerStep, BrokerAnswers, BrokerRepeatsRec, BrokerCompletes,
       BrokerPublishes, BrokerRepeatsPublish, BrokerReleases, BrokerStrays, Flush
<1>3. CASE ReadStep
  <2>1. UNCHANGED brokerVars
    BY <1>3 DEF ReadStep, PubAckRead, PubCompRead, PubRecRead, PublishRead, PubRelRead,
         Unsolicited, EndRead
  <2> QED
    BY <1>1, <2>1
<1>4. CASE HandleEvent
  <2>1. UNCHANGED brokerVars
    BY <1>4 DEF HandleEvent, PublishSent, Received, Acknowledged, Deliver, DisconnectSent,
         Event
  <2> QED
    BY <1>1, <2>1
<1>5. CASE UNCHANGED mqttVars
  BY <1>1, <1>5 DEF mqttVars
<1>6. CASE (\E c \in Call : TakeCommandMqtt(c)) \/ BeginClose
  <2>1. UNCHANGED brokerVars
    BY <1>6 DEF TakeCommandMqtt, BeginClose, mqttVars
  <2> QED
    BY <1>1, <2>1
<1>7. CASE (\E c \in Call : AdmitPublish(c)) \/ AdmitDisconnect \/ SendDisconnect
  <2>1. UNCHANGED brokerVars
    BY <1>7 DEF AdmitPublish, AdmitDisconnect, SendDisconnect
  <2> QED
    BY <1>1, <2>1
<1> QED
  BY <1>2, <1>3, <1>4, <1>5, <1>6, <1>7
     DEF MqttNext, MqttStep, PollStep, CommandsEnded, DeadlinePasses, LoseConnection

\* The queue of events holds what poll returns.
LEMMA QueueStep ==
  ASSUME queue \in Seq(PollEvent), [MqttNext]_<<vars, mqttVars>>
  PROVE  queue' \in Seq(PollEvent)
<1>1. CASE ReadStep
  <2>1. \/ UNCHANGED queue
        \/ \E kind \in AckKind, id \in Id : queue' = Append(queue, <<kind, id>>)
        \/ \E m \in Arrival : queue' = Append(queue, Message(m))
    BY <1>1 DEF ReadStep, PubAckRead, PubCompRead, PubRecRead, PublishRead, PubRelRead,
         Unsolicited, EndRead, AckKind
  <2>2. /\ \A kind \in AckKind, id \in Id : <<kind, id>> \in PollEvent
        /\ \A m \in Arrival : Message(m) \in PollEvent
    BY DEF PollEvent
  <2>3. \A e \in PollEvent : Append(queue, e) \in Seq(PollEvent)
    OBVIOUS
  <2> QED
    BY <2>1, <2>2, <2>3
<1>2. CASE HandleEvent
  <2>1. queue # <<>> /\ queue' = Tail(queue)
    BY <1>2 DEF HandleEvent, PublishSent, Received, Acknowledged, Deliver, DisconnectSent,
         Event
  <2> QED
    BY <2>1
<1>3. CASE BrokerStep
  <2>1. UNCHANGED queue
    BY <1>3 DEF BrokerStep, BrokerAnswers, BrokerRepeatsRec, BrokerCompletes,
         BrokerPublishes, BrokerRepeatsPublish, BrokerReleases, BrokerStrays, Send
  <2> QED
    BY <2>1
<1>4. CASE (\E c \in Call : TakeCommandMqtt(c)) \/ BeginClose
  BY <1>4 DEF TakeCommandMqtt, BeginClose, mqttVars
<1>5. CASE (\E c \in Call : AdmitPublish(c)) \/ SendDisconnect
  <2>1. \E id \in {NoId} \cup Id : queue' \in {<<<<"sent", id>>>>, <<<<"disconnect", id>>>>}
    BY <1>5 DEF AdmitPublish, SendDisconnect
  <2>2. \A id \in {NoId} \cup Id :
          <<"sent", id>> \in PollEvent /\ <<"disconnect", id>> \in PollEvent
    BY DEF PollEvent
  <2>3. \A e \in PollEvent : <<e>> \in Seq(PollEvent)
    OBVIOUS
  <2> QED
    BY <2>1, <2>2, <2>3
<1>6. CASE AdmitDisconnect \/ Flush
  BY <1>6 DEF AdmitDisconnect, Flush
<1>7. CASE UNCHANGED mqttVars
  BY <1>7 DEF mqttVars
<1> QED
  BY <1>1, <1>2, <1>3, <1>4, <1>5, <1>6, <1>7
     DEF MqttNext, MqttStep, PollStep, CommandsEnded, DeadlinePasses, LoseConnection

\* What a step does to the places of a command, and who completes one.
LEMMA CommandMoves ==
  ASSUME [MqttNext]_<<vars, mqttVars>>
  PROVE  \/ UNCHANGED <<pending, completing, submitted, response>>
         \/ \E c \in Call : RejectExpired(c) \/ Submit(c)
         \/ HandleEvent /\ \E c : Complete(c)
         \/ \E c \in Call, r \in {"receipt", "error"} : Respond(c, r)
         \/ \E c \in Call : DropPending(c) \/ DrainCommand(c)
<1> DEFINE Still == UNCHANGED <<pending, completing, submitted, response>>
<1>1. CASE UNCHANGED vars
  <2>1. Still
    BY <1>1 DEF vars, callVars, driverVars
  <2> QED
    BY <2>1
<1>2. ASSUME NEW r, Stop(r) PROVE Still
  BY <1>2 DEF Stop, callVars, driverVars
<1>3. CASE \E c \in Call : TakeCommandMqtt(c)
  <2>1. PICK c \in Call : SkipCancelled(c) \/ RejectExpired(c) \/ Submit(c)
    BY <1>3 DEF TakeCommandMqtt
  <2>2. SkipCancelled(c) => Still
    BY DEF SkipCancelled, callVars, driverVars
  <2> QED
    BY <2>1, <2>2
<1>4. CASE CommandsEnded \/ DeadlinePasses \/ LoseConnection
  <2>1. \E r : Stop(r)
    BY <1>4 DEF CommandsEnded, DeadlinePasses, StopExpired, LoseConnection, ConnectionError
  <2> QED
    BY <1>2, <2>1
<1>5. CASE ReadStep
  <2>1. UNCHANGED vars \/ \E r : Stop(r)
    BY <1>5 DEF ReadStep, PubAckRead, PubCompRead, PubRecRead, PublishRead, PubRelRead,
         Unsolicited, ConnectionError, EndRead
  <2> QED
    BY <1>1, <1>2, <2>1
<1>6. CASE HandleEvent
  <2>1. \/ UNCHANGED vars \/ \E c : Complete(c) \/ \E r : Stop(r)
        \/ \E m : ReserveArrival(m) \/ RefuseArrival(m)
    BY <1>6 DEF HandleEvent, PublishSent, Received, Acknowledged, Deliver, DisconnectSent
  <2>2. \A m : ReserveArrival(m) \/ RefuseArrival(m) => Still
    BY DEF ReserveArrival, RefuseArrival, callVars, driverVars
  <2> QED
    BY <1>1, <1>2, <1>6, <2>1, <2>2
<1>7. CASE BrokerStep
  BY <1>1, <1>7, BrokerSteps
<1>8. CASE \/ BeginClose \/ AdmitDisconnect \/ SendDisconnect \/ Flush
           \/ \E c \in Call : AdmitPublish(c)
  <2>1. UNCHANGED vars
    BY <1>8 DEF BeginClose, AdmitDisconnect, SendDisconnect, Flush, AdmitPublish
  <2> QED
    BY <1>1, <2>1
<1>9. CASE CallerStep
  <2>1. PICK c \in Call : SendStep(c) \/ Cancel(c) \/ Expire(c)
    BY <1>9 DEF CallerStep
  <2>2. Still
    BY <2>1 DEF SendStep, Enter, RefuseClosed, RefuseInput, Reserve, RefuseAdmission,
         Enqueue, RefuseCommand, TakeResponse, LoseResponse, FailUnknown, Cancel, Expire,
         driverVars
  <2> QED
    BY <2>2
<1>10. CASE Continue
  <2>1. \A m : EnqueueArrival(m) \/ LoseArrival(m) => Still
    BY DEF EnqueueArrival, LoseArrival, callVars, driverVars
  <2> QED
    BY <1>10, <2>1 DEF Continue
<1>11. CASE Unwind
  <2>1. CloseCommands \/ CloseEvents \/ Publish \/ Guard \/ GuardPublish => Still
    BY DEF CloseCommands, CloseEvents, Publish, Guard, GuardPublish, callVars, driverVars
  <2> QED
    BY <1>11, <2>1 DEF Unwind
<1>12. CASE OwnerStep
  <2>1. Still
    BY <1>12 DEF OwnerStep, Next_Message, DiscardEvent, Next_End, Close,
         CloseJoined, CloseTimeout, CloseAbort, Reap, DropSession, DropAbort,
         DropReaping, callVars, driverVars
  <2> QED
    BY <2>1
<1>13. CASE TakeAbort \/ Abandon
  BY <1>2, <1>13 DEF TakeAbort, Abandon
<1>14. CASE Terminating
  BY <1>1, <1>14 DEF Terminating
<1>15. CASE MqttStep
  BY <1>3, <1>4, <1>5, <1>6, <1>7, <1>8, <1>15 DEF MqttStep, PollStep
<1>16. CASE SessionStep
  BY <1>9, <1>10, <1>11, <1>12, <1>13, <1>16 DEF SessionStep
<1> QED
  BY <1>1, <1>14, <1>15, <1>16 DEF MqttNext

\* The driver ends once, and gracefully only when its DISCONNECT was flushed.
LEMMA ResultMoves ==
  ASSUME OutcomeInv, [MqttNext]_<<vars, mqttVars>>
  PROVE  /\ task' = "running" => task = "running"
         /\ result' = "Closed" =>
              \/ DisconnectSent
              \/ /\ result = "Closed" /\ UNCHANGED mqttVars
                 /\ pending' \subseteq pending /\ completing' \subseteq completing
                 /\ UNCHANGED submitted
<1>1. CASE MqttStep
  <2>1. task = "running" /\ result # "Closed"
    BY <1>1, MqttRuns DEF OutcomeInv, SessionTypeOK
  <2>2. UNCHANGED result \/ result' # "Closed" \/ DisconnectSent
    <3>1. CASE UNCHANGED vars
      BY <3>1 DEF vars, taskVars
    <3>2. CASE (\E c \in Call : TakeCommandMqtt(c)) \/ CommandsEnded \/ DeadlinePasses
               \/ LoseConnection
      BY <3>2 DEF TakeCommandMqtt, SkipCancelled, RejectExpired, Submit, CommandsEnded,
           DeadlinePasses, StopExpired, LoseConnection, ConnectionError, Stop, taskVars
    <3>3. CASE ReadStep
      <4>1. UNCHANGED vars \/ ConnectionError
        BY <3>3 DEF ReadStep, PubAckRead, PubCompRead, PubRecRead, PublishRead, PubRelRead,
             Unsolicited, EndRead
      <4> QED
        BY <3>1, <4>1 DEF ConnectionError, Stop
    <3>4. CASE HandleEvent
      <4>1. \/ UNCHANGED vars \/ \E c : Complete(c)
            \/ Stop("Failed") \/ Stop("FailedUnknown")
            \/ \E m : ReserveArrival(m) \/ RefuseArrival(m)
            \/ DisconnectSent
        BY <3>4 DEF HandleEvent, PublishSent, Received, Acknowledged, Deliver
      <4> QED
        BY <3>1, <4>1 DEF Complete, Stop, ReserveArrival, RefuseArrival, taskVars
    <3>5. CASE BrokerStep
      BY <3>1, <3>5, BrokerSteps
    <3>6. CASE \/ BeginClose \/ AdmitDisconnect \/ SendDisconnect \/ Flush
               \/ \E c \in Call : AdmitPublish(c)
      <4>1. UNCHANGED vars
        BY <3>6 DEF BeginClose, AdmitDisconnect, SendDisconnect, Flush, AdmitPublish
      <4> QED
        BY <3>1, <4>1
    <3> QED
      BY <1>1, <3>2, <3>3, <3>4, <3>5, <3>6 DEF MqttStep, PollStep
  <2> QED
    BY <2>1, <2>2
<1>2. CASE (SessionStep \/ Terminating \/ UNCHANGED vars) /\ UNCHANGED mqttVars
  BY <1>2, SessionFacts
<1> QED
  BY <1>1, <1>2 DEF MqttNext

\* A command is completed only for what the broker said of it.
LEMMA CompletedIsAcked ==
  ASSUME PublishInv, HandleEvent, NEW c, Complete(c)
  PROVE  c \in acked
<1>1. c \in pending /\ task' = task /\ completing' = {<<c, "receipt">>} /\ completing = {}
      /\ task = "running" /\ pending' = {}
  BY DEF Complete, Looping, taskVars
<1>2. CASE \E id \in {NoId} \cup Id : PublishSent(id)
  <2>1. PICK id \in {NoId} \cup Id : PublishSent(id)
    BY <1>2
  <2>2. Event(<<"sent", id>>) /\ <<"sent", id>> \in Range(queue) /\ phase = "waiting"
    BY <2>1, EventFacts DEF PublishSent
  <2>3. PICK d \in pending : IF Qos[d] = 0 THEN Complete(d) /\ UNCHANGED packetId
                             ELSE packetId' = id /\ UNCHANGED vars
    BY <1>1, <2>1 DEF PublishSent
  <2>4. Qos[d] = 0
    BY <1>1, <2>3 DEF vars, driverVars
  <2>5. completing' = {<<d, "receipt">>}
    BY <2>3, <2>4 DEF Complete
  <2>6. d = c
    <3>1. {<<d, "receipt">>} = {<<c, "receipt">>}
      BY <1>1, <2>5
    <3>2. <<d, "receipt">> = <<c, "receipt">>
      BY <3>1
    <3> QED
      BY <3>2
  <2>7. c \in pending /\ Qos[c] = 0
    BY <1>1, <2>4, <2>6
  <2>8. id # NoId => <<id, c>> \in outPub
    BY <2>2, <2>7 DEF PublishInv, SentEvents
  <2>9. id = NoId
    BY <2>1, <2>7, <2>8 DEF PublishInv, OneOutstanding, Outstanding
  <2> QED
    BY <2>2, <2>7, <2>9 DEF PublishInv, SentEvents
<1>3. CASE \E id \in {NoId} \cup Id, kind \in {"puback", "pubcomp"} : Acknowledged(kind, id)
  <2>1. PICK id \in {NoId} \cup Id, kind \in {"puback", "pubcomp"} : Acknowledged(kind, id)
    BY <1>3
  <2>2. <<kind, id>> \in Range(queue) /\ kind \in AckKind /\ kind # "pubrec"
    BY <2>1, EventFacts DEF Acknowledged, AckKind
  <2>3. pending \subseteq acked
    BY <2>2 DEF PublishInv, AckEvents
  <2> QED
    BY <1>1, <2>3
<1>4. CASE \/ \E id \in {NoId} \cup Id : Received(id)
           \/ \E m \in Arrival : Deliver(m)
           \/ DisconnectSent
  BY <1>1, <1>4 DEF Received, Deliver, DisconnectSent, Stop, ReserveArrival, RefuseArrival,
       vars, driverVars
<1> QED
  BY <1>2, <1>3, <1>4 DEF HandleEvent

\* The receipt of every command handed to the event loop is accounted for, and
\* a graceful close leaves nothing behind.
LEMMA EvidenceStep ==
  ASSUME OutcomeInv, EvidenceInv, [MqttNext]_<<vars, mqttVars>>
  PROVE  EvidenceInv'
<1> USE DEF EvidenceInv
<1>1. pubAck' = {} /\ queue' \in Seq(PollEvent)' /\ (task' = "running" => PublishInv')
  <2>1. queue' \in Seq(PollEvent)'
    BY QueueStep DEF PollEvent, AckKind, Id, Message
  <2> QED
    BY <2>1, FrontierStep, PublishStep
<1>2. acked \subseteq acked'
  BY AckedGrows
<1>3. /\ \A c, d \in pending : c = d
      /\ \A c \in pending : c \in Call /\ response[c] = "none" /\ c \in submitted
      /\ \A c \in Range(commands) : c \notin submitted /\ response[c] = "none"
      /\ response \in [Call -> Response]
      /\ completing \subseteq Call \X {"receipt", "error"} /\ submitted \subseteq Call
      /\ \A c \in Call, r \in {"receipt", "error"} :
           <<c, r>> \in completing => response[c] = "none" /\ (r = "receipt" <=> c \in submitted)
  BY DEF OutcomeInv, CommandPlacement, SessionTypeOK, Waiting
<1>4. (task' = "running" \/ result' = "Closed") => (task = "running" \/ result = "Closed")
  BY ResultMoves, MqttRuns DEF DisconnectSent, Event, Looping
<1>5. ClosedIsDone'
  <2>1. SUFFICES ASSUME result' = "Closed"
                 PROVE  /\ pending' = {} /\ completing' = {}
                        /\ publishing' = {} /\ exchange' = {}
    BY DEF ClosedIsDone
  <2>2. CASE DisconnectSent
    <3>1. /\ Event(<<"disconnect", NoId>>) /\ task = "running" /\ completing = {}
          /\ UNCHANGED <<pending, completing, publishing, exchange>>
      BY <2>2 DEF DisconnectSent, Event, Looping, Stop, driverVars, loopVars, brokerVars
    <3>2. PublishInv
      BY <3>1
    <3>3. <<"disconnect", NoId>> \in Range(queue)
      BY <3>1, <3>2, EventFacts
    <3>4. pending = {} /\ Outstanding = {} /\ publishing = {}
      BY <3>2, <3>3 DEF PublishInv, DisconnectIsLast
    <3>5. exchange = {}
      BY <3>2, <3>4, NothingOutstanding
    <3> QED
      BY <3>1, <3>4, <3>5
  <2>3. CASE /\ result = "Closed" /\ UNCHANGED mqttVars
             /\ pending' \subseteq pending /\ completing' \subseteq completing
    BY <2>3 DEF ClosedIsDone, mqttVars, loopVars, brokerVars
  <2> QED
    BY <2>1, <2>2, <2>3, ResultMoves
<1>6. CASE UNCHANGED <<pending, completing, submitted, response>>
  <2>1. SubmittedAnswered'
    BY <1>4, <1>6 DEF SubmittedAnswered
  <2>2. ReceiptsAcked'
    BY <1>2, <1>6 DEF ReceiptsAcked
  <2> QED
    BY <1>1, <1>5, <1>6, <2>1, <2>2
<1>7. ASSUME NEW c \in Call, RejectExpired(c)
      PROVE  EvidenceInv'
  <2>1. /\ completing = {} /\ completing' = {<<c, "error">>} /\ pending = {}
        /\ UNCHANGED <<pending, submitted, response>>
    BY <1>7 DEF RejectExpired, Recv, Looping, callVars
  <2>2. SubmittedAnswered'
    BY <1>4, <2>1 DEF SubmittedAnswered
  <2>3. \A d : <<d, "receipt">> \notin completing'
    BY <2>1
  <2>4. ReceiptsAcked'
    BY <1>2, <2>1, <2>3 DEF ReceiptsAcked
  <2> QED
    BY <1>1, <1>5, <2>1, <2>2, <2>4
<1>8. ASSUME NEW c \in Call, Submit(c)
      PROVE  EvidenceInv'
  <2>1. /\ pending = {} /\ pending' = {c} /\ submitted' = submitted \cup {c}
        /\ UNCHANGED <<completing, response>>
    BY <1>8 DEF Submit, Recv, callVars
  <2>2. SubmittedAnswered'
    BY <1>4, <2>1 DEF SubmittedAnswered
  <2>3. ReceiptsAcked'
    BY <1>2, <2>1 DEF ReceiptsAcked
  <2> QED
    BY <1>1, <1>5, <2>1, <2>2, <2>3
<1>9. ASSUME HandleEvent, NEW c, Complete(c)
      PROVE  EvidenceInv'
  <2>1. /\ task = "running" /\ completing = {} /\ pending = {c} /\ pending' = {}
        /\ completing' = {<<c, "receipt">>} /\ UNCHANGED <<submitted, response>>
    BY <1>3, <1>9 DEF Complete, Looping, callVars
  <2>2. c \in acked
    BY <1>9, <2>1, CompletedIsAcked
  <2>3. SubmittedAnswered'
    BY <1>4, <2>1 DEF SubmittedAnswered
  <2>4. \A d : <<d, "receipt">> \in completing' => d = c
    BY <2>1
  <2>5. ReceiptsAcked'
    BY <1>2, <2>1, <2>2, <2>4 DEF ReceiptsAcked
  <2> QED
    BY <1>1, <1>5, <2>1, <2>3, <2>5
<1>10. ASSUME NEW c \in Call, NEW r \in {"receipt", "error"}, Respond(c, r)
       PROVE  EvidenceInv'
  <2>1. /\ <<c, r>> \in completing /\ completing' = {}
        /\ response' = [response EXCEPT ![c] = r] /\ UNCHANGED <<pending, submitted>>
    BY <1>10 DEF Respond
  <2>2. /\ response'[c] = r /\ response[c] = "none"
        /\ \A d \in Call : d # c => response'[d] = response[d]
    BY <1>3, <2>1
  <2>3. \A d \in Call : <<d, "receipt">> \in completing => d = c /\ r = "receipt"
    <3>1. ASSUME NEW d \in Call, <<d, "receipt">> \in completing
          PROVE  d = c /\ r = "receipt"
      <4>1. <<d, "receipt">> = <<c, r>>
        BY <2>1, <3>1
      <4> QED
        BY <4>1
    <3> QED
      BY <3>1
  <2>4. SubmittedAnswered'
    BY <1>3, <1>4, <2>1, <2>2, <2>3 DEF SubmittedAnswered
  <2>5. ReceiptsAcked'
    BY <1>2, <2>1, <2>2 DEF ReceiptsAcked
  <2> QED
    BY <1>1, <1>5, <2>1, <2>4, <2>5
<1>11. ASSUME NEW c \in Call, DropPending(c)
       PROVE  EvidenceInv'
  <2>1. /\ task = "leaving" /\ c \in pending /\ pending' = {}
        /\ response' = [response EXCEPT ![c] = "dropped"]
        /\ UNCHANGED <<task, result, completing, submitted>>
    BY <1>11 DEF DropPending, taskVars
  <2>2. result # "Closed"
    BY <2>1 DEF ClosedIsDone
  <2>3. \A d \in Call : response'[d] = "receipt" => response[d] = "receipt"
    BY <1>3, <2>1
  <2>4. SubmittedAnswered' /\ ReceiptsAcked'
    BY <1>2, <2>1, <2>2, <2>3 DEF SubmittedAnswered, ReceiptsAcked
  <2> QED
    BY <1>1, <1>5, <2>1, <2>4
<1>12. ASSUME NEW c \in Call, DrainCommand(c)
       PROVE  EvidenceInv'
  <2>1. /\ c \in Range(commands)
        /\ response' = [response EXCEPT ![c] = "dropped"]
        /\ UNCHANGED <<pending, completing, submitted>>
    BY <1>12 DEF DrainCommand, driverVars, OutcomeInv, SessionTypeOK, Range
  <2>2. c \notin submitted /\ \A d \in Call : d # c => response'[d] = response[d]
    BY <1>3, <2>1
  <2>3. response'[c] # "receipt"
    BY <1>3, <2>1
  <2>4. SubmittedAnswered'
    BY <1>3, <1>4, <2>1, <2>2 DEF SubmittedAnswered
  <2>5. ReceiptsAcked'
    BY <1>2, <2>1, <2>2, <2>3 DEF ReceiptsAcked
  <2> QED
    BY <1>1, <1>5, <2>1, <2>4, <2>5
<1> QED
  BY <1>6, <1>7, <1>8, <1>9, <1>10, <1>11, <1>12, CommandMoves

\* A session that has just opened.
LEMMA EvidenceInit == MqttInit => EvidenceInv
<1> SUFFICES ASSUME MqttInit PROVE EvidenceInv
  OBVIOUS
<1>1. /\ pubAck = {} /\ completing = {} /\ submitted = {} /\ pending = {}
      /\ response = [c \in Call |-> "none"] /\ result = "none"
      /\ publishing = {} /\ outPub = {} /\ outRel = {} /\ exchange = {} /\ written = {}
      /\ inbound = <<>> /\ queue = <<>> /\ queue \in Seq(PollEvent)
      /\ closing = FALSE /\ disconnecting = "no"
      /\ lastPkid = (IF Arrival = {} THEN 0 ELSE 1) /\ lastPuback = lastPkid
  BY DEF MqttInit, Init
<1>2. Outstanding = {} /\ Range(inbound) = {} /\ Range(queue) = {}
  BY <1>1, ShortRanges DEF Outstanding
<1>3. PublishTypes /\ OneOutstanding
  BY <1>1, <1>2 DEF PublishTypes, OneOutstanding
<1>4. FrontierFollows
  BY <1>1, <1>2, MaxInflightPositive DEF FrontierFollows
<1>5. Due /\ ExchangeFollows /\ WrittenFollows
  BY <1>1, <1>2, NoAcksAreDue DEF ExchangeFollows, WrittenFollows
<1>6. SentEvents /\ AckEvents /\ EventsMatch /\ DisconnectIsLast
  BY <1>1, <1>2 DEF SentEvents, AckEvents, EventsMatch, DisconnectIsLast
<1>7. SubmittedAnswered /\ ClosedIsDone /\ ReceiptsAcked
  BY <1>1 DEF SubmittedAnswered, ClosedIsDone, ReceiptsAcked
<1> QED
  BY <1>1, <1>3, <1>4, <1>5, <1>6, <1>7 DEF EvidenceInv, PublishInv

\* The inductive invariant of publishes: rust/native/src/mqtt.rs above
\* rust/vendor/rumqttc-v4-next/src/state.rs, against any broker.
THEOREM EvidenceInvariant == MqttSpec => []EvidenceInv
<1>1. MqttSpec => []OutcomeInv
  BY MqttImplementsSession, OutcomeInvariant, PTL
<1>2. MqttInit => EvidenceInv
  BY EvidenceInit
<1>3. OutcomeInv /\ EvidenceInv /\ [MqttNext]_<<vars, mqttVars>> => EvidenceInv'
  BY EvidenceStep
<1> QED
  BY <1>1, <1>2, <1>3, PTL DEF MqttSpec

\* An acknowledgement that is looked at answers the pending command.
LEMMA HeadAnswers ==
  ASSUME PublishInv, queue \in Seq(PollEvent), queue # <<>>, Head(queue)[1] \in AckKind
  PROVE  Answers(Head(queue)[1], Head(queue)[2])
<1>1. Head(queue) \in PollEvent /\ Head(queue) \in Range(queue)
  BY TailKeeps
<1>2. \A m \in Arrival : Message(m)[1] \notin AckKind
  BY DEF Message, AckKind
<1>3. PICK kind \in AckKind, id \in Id : Head(queue) = <<kind, id>>
  BY <1>1, <1>2 DEF PollEvent, AckKind
<1>4. <<kind, id>> \in Range(queue) /\ Head(queue)[1] = kind /\ Head(queue)[2] = id
  BY <1>1, <1>3
<1>5. /\ id = packetId /\ pending # {}
      /\ \A c \in pending : Qos[c] = IF kind = "puback" THEN 1 ELSE 2
      /\ kind = "pubcomp" => pubrecSeen \/ <<"pubrec", id>> \in Range(queue)
      /\ kind # "pubrec" =>
           \A k \in AckKind : k # kind => Before(queue, <<k, id>>, <<kind, id>>)
  BY <1>4 DEF PublishInv, AckEvents
<1>6. ASSUME kind = "pubcomp" PROVE pubrecSeen
  <2>1. Before(queue, <<"pubrec", id>>, <<"pubcomp", id>>)
    BY <1>5, <1>6 DEF AckKind
  <2>2. <<"pubrec", id>> \notin Range(queue)
    BY <1>3, <1>6, <2>1, TailKeeps
  <2> QED
    BY <1>5, <1>6, <2>2
<1> QED
  BY <1>4, <1>5, <1>6 DEF Answers

\* A receipt is published only for a command the broker has acknowledged: it
\* took the flushed QoS 0 publish, or it ended the exchange of that very publish.
\* The identity checks of run (rust/native/src/mqtt.rs) and of MqttState
\* (rust/vendor/rumqttc-v4-next/src/state.rs) never disagree, whatever is
\* answered late, repeated, made up, or answered with the wrong packet.
THEOREM ReceiptsEvident == MqttSpec => []ReceiptsAreEvidence
<1>1. EvidenceInv => ReceiptIsEvidence
  BY DEF EvidenceInv, ReceiptsAcked, ReceiptIsEvidence
<1>2. EvidenceInv => LayersAgree
  BY HeadAnswers DEF EvidenceInv, LayersAgree, Looping, AckKind
<1>3. EvidenceInv => ReceiptsAreEvidence
  BY <1>1, <1>2 DEF ReceiptsAreEvidence
<1> QED
  BY <1>3, EvidenceInvariant, PTL

\* A graceful close (rust/native/src/mqtt.rs, the closing branch of run) comes
\* after a receipt for every command handed to the event loop and with no
\* exchange open, and it never waits for an acknowledgement that was received:
\* with nothing outstanding no completed identifier is left behind the frontier.
THEOREM CloseComplete == MqttSpec => []CloseIsComplete
<1>1. OutcomeInv /\ EvidenceInv => CloseAnswersSubmitted
  <2> SUFFICES ASSUME OutcomeInv, EvidenceInv, result = "Closed"
               PROVE  /\ \A c \in submitted : response[c] = "receipt"
                      /\ publishing = {} /\ exchange = {}
    BY DEF CloseAnswersSubmitted
  <2>1. pending = {} /\ completing = {} /\ publishing = {} /\ exchange = {}
    BY DEF EvidenceInv, ClosedIsDone
  <2> QED
    BY <2>1 DEF EvidenceInv, SubmittedAnswered
<1>2. EvidenceInv => FrontierCloses
  BY DEF EvidenceInv, FrontierCloses
<1>3. OutcomeInv /\ EvidenceInv => CloseIsComplete
  BY <1>1, <1>2 DEF CloseIsComplete
<1>4. MqttSpec => []OutcomeInv
  BY MqttImplementsSession, OutcomeInvariant, PTL
<1> QED
  BY <1>3, <1>4, EvidenceInvariant, PTL
=============================================================================
