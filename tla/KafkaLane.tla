----------------------------- MODULE KafkaLane ------------------------------
(***************************************************************************)
(* The Kafka driver (typescript-kafka/src/index.ts) under runExternalDriver*)
(* of invoke.ts: a producer or a consumer of its own for each invocation.  *)
(* The client library is external: a record whose handler throws is not    *)
(* passed over.                                                            *)
(***************************************************************************)
EXTENDS Lane

Kafka == {"kafkaIn", "kafkaOut"}
kafkaRest == <<facts, prepared, inputConn, heard, trouble, frames, missed>>

(* subscribeOutputs closes the input before it connects.                   *)
KafkaConnects ==
  /\ cell \in Kafka /\ Dispatchable
  /\ IF cell = "kafkaOut" THEN CloseInput ELSE UNCHANGED handleVars
  /\ conn' = "dialing" /\ main' = "connecting"
  /\ UNCHANGED <<kafkaRest, sent, held, arrived, pumpVars>>

KafkaConnectFails ==
  /\ cell \in Kafka /\ main = "connecting"
  /\ conn' = "closed" /\ main' = "finished"
  /\ EndAs("driverFailed")
  /\ UNCHANGED <<kafkaRest, sent, held, arrived, pumpVars>>

(* The input that resolved the address comes first.                        *)
KafkaConnected ==
  /\ cell \in Kafka /\ main = "connecting"
  /\ conn' = "open" /\ held' = 1 /\ main' = "running"
  /\ IF cell = "kafkaIn"
     THEN feed' = (IF prepared THEN "encoding" ELSE "reading") /\ pump' = "done"
     ELSE feed' = "listening" /\ pump' = "waiting"
  /\ UNCHANGED <<kafkaRest, handleVars, sent, arrived, item, emitted>>

(* An input is encoded and sent.  The invocation is looked at before, not  *)
(* between the two.                                                        *)
KafkaSends ==
  /\ feed = "encoding" /\ cell = "kafkaIn"
  /\ \/ sent' = Append(sent, taken) /\ feed' = "reading"
     \/ feed' = "failing" /\ UNCHANGED sent
     \/ ~Alive /\ feed' = "leaving" /\ UNCHANGED sent
  /\ UNCHANGED <<kafkaRest, handleVars, conn, held, arrived, main, pump, item, emitted>>

KafkaInputsEnd ==
  /\ feed = "reading" /\ cell = "kafkaIn"
  /\ \/ InputsEnd /\ feed' = IF sent = <<>> THEN "failing" ELSE "leaving"
     \/ InputsThrow /\ feed' = "failing"
  /\ UNCHANGED <<kafkaRest, handleVars, sent, conn, held, arrived, main, pump, item, emitted>>

(* A record is handled at a time: its key and value are examined, then it  *)
(* is decoded and emitted.                                                 *)
KafkaDelivers ==
  /\ cell = "kafkaOut" /\ pump = "waiting" /\ conn = "open" /\ Len(arrived) < MaxFrames
  /\ arrived' = Append(arrived, Len(arrived) + 1)
  /\ item' = Len(arrived) + 1 /\ pump' = "decoding"
  /\ UNCHANGED <<kafkaRest, handleVars, sent, conn, held, main, feed, emitted>>

(* failRun: a record that cannot be delivered ends the subscription.       *)
KafkaHandles ==
  /\ cell = "kafkaOut"
  /\ \/ pump = "decoding" /\ pump' = "emitting" /\ UNCHANGED <<item, feed>>
     \/ /\ pump = "decoding" \/ (pump = "emitting" /\ ~Alive)
        /\ pump' = "done" /\ item' = 0
        /\ feed' = IF feed = "listening" THEN "failing" ELSE feed
  /\ UNCHANGED <<kafkaRest, handleVars, sent, conn, held, arrived, main, emitted>>

(* The race that subscribeOutputs waits for: an abort, or a failed run.    *)
kafkaStopRest == <<kafkaRest, handleVars, sent, conn, held, arrived, main, pump, item, emitted>>
KafkaAborted ==
  /\ cell = "kafkaOut" /\ feed = "listening" /\ ~Alive
  /\ feed' = "leaving"
  /\ UNCHANGED kafkaStopRest
KafkaCrashes ==
  /\ cell = "kafkaOut" /\ feed = "listening"
  /\ feed' = "failing"
  /\ UNCHANGED kafkaStopRest

(* The client is disconnected however the lane ends; a disconnection that  *)
(* fails makes the invocation fail.                                        *)
KafkaDisconnects ==
  /\ cell \in Kafka /\ feed \in {"leaving", "failing"} /\ main = "running"
  /\ conn' = "closed" /\ held' = 0 /\ main' = "finished" /\ pump' = "done" /\ feed' = "done"
  /\ \/ feed = "leaving" /\ EndAs("closed")
     \/ EndAs("driverFailed")
  /\ UNCHANGED <<kafkaRest, sent, arrived, item, emitted>>

KafkaRuns ==
  KafkaConnects \/ KafkaSends \/ KafkaInputsEnd \/ KafkaHandles \/ KafkaDisconnects
    \/ KafkaAborted

KafkaPeer == KafkaConnectFails \/ KafkaConnected \/ KafkaDelivers \/ KafkaCrashes
=============================================================================
